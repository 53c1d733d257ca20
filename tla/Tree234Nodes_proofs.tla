-------------------------- MODULE Tree234Nodes_proofs --------------------------
(***************************************************************************)
(* The nodes of the 2-3-4 tree, for trees of any size: how the heap stands *)
(* for a list, and what becomes of it when an element is added.            *)
(*                                                                         *)
(* The code defines the list of a tree by recursion, and the tree by       *)
(* pointers in both directions.  The proofs turn this round: there is a    *)
(* list G, and each node y has a height h[y] and boundaries B[y], the      *)
(* positions in G of its elements and of what is left and right of it.     *)
(* Whether a node fits its boundaries is then said of it and its kids      *)
(* alone (NodeFits), so that a call which changes three nodes has three to *)
(* account for.                                                            *)
(***************************************************************************)
EXTENDS Tree234, SequenceTheorems, WellFoundedInduction, FiniteSetTheorems, TLAPS


\* A set of numbers has a least member; a set of integers bounded from below or from
\* above has a least or a greatest one.
LEMMA LeastNumber == ASSUME NEW N \in SUBSET Nat, N # {}
                     PROVE  \E x \in N : \A y \in N : x <= y
<1>1. PICK x \in N : \A y \in N : ~ (<<y, x>> \in OpToRel(<, Nat))
  BY NatLessThanWellFounded, WFMin
<1>2. ASSUME NEW y \in N, y < x PROVE FALSE
  <2>1. <<y, x>> \in OpToRel(<, Nat)
    BY <1>2 DEF OpToRel
  <2> QED BY <1>1, <2>1
<1>3. \A y \in N : x <= y
  BY <1>2
<1> QED BY <1>3

From(M, low) == M \in SUBSET Int /\ low \in Int /\ \A x \in M : low <= x
UpTo(M, high) == M \in SUBSET Int /\ high \in Int /\ \A x \in M : x <= high

\* The least member of such a set.
LEMMA MinIs == ASSUME NEW M, NEW low, From(M, low), M # {}
               PROVE  Min(M) \in M /\ Min(M) \in Int /\ \A y \in M : Min(M) <= y
<1> USE DEF From
<1> DEFINE N == {x - low : x \in M}
<1>1. N \in SUBSET Nat /\ N # {}
  <2>1. \A x \in M : x - low \in Nat
    OBVIOUS
  <2> QED BY <2>1, Zenon
<1>2. PICK z \in N : \A y \in N : z <= y
  BY <1>1, LeastNumber
<1>3. PICK x \in M : z = x - low
  BY <1>2
<1>4. \A y \in M : y - low \in N
  OBVIOUS
<1> HIDE DEF N
<1>5. ASSUME NEW y \in M PROVE x <= y
  <2>1. z <= y - low
    BY <1>2, <1>4
  <2> QED BY <1>3, <2>1
<1> QED BY <1>5 DEF Min

\* The greatest one.
LEMMA MaxIs == ASSUME NEW M, NEW high, UpTo(M, high), M # {}
               PROVE  Max(M) \in M /\ Max(M) \in Int /\ \A y \in M : y <= Max(M)
<1> USE DEF UpTo
<1> DEFINE N == {high - x : x \in M}
<1>1. N \in SUBSET Nat /\ N # {}
  <2>1. \A x \in M : high - x \in Nat
    OBVIOUS
  <2> QED BY <2>1, Zenon
<1>2. PICK z \in N : \A y \in N : z <= y
  BY <1>1, LeastNumber
<1>3. PICK x \in M : z = high - x
  BY <1>2
<1>4. \A y \in M : high - y \in N
  OBVIOUS
<1> HIDE DEF N
<1>5. ASSUME NEW y \in M PROVE y <= x
  <2>1. z <= high - y
    BY <1>2, <1>4
  <2> QED BY <1>3, <2>1
<1> QED BY <1>5 DEF Max

\* A part of a sequence, item by item.
LEMMA PartOf ==
    ASSUME NEW S, NEW s \in Seq(S), NEW i \in 1 .. Len(s) + 1, NEW j \in i - 1 .. Len(s)
    PROVE  /\ SubSeq(s, i, j) \in Seq(S) /\ Len(SubSeq(s, i, j)) = j - i + 1
           /\ \A x \in 1 .. j - i + 1 : SubSeq(s, i, j)[x] = s[i + x - 1]
<1>1. \A x \in i .. j : s[x] \in S
  OBVIOUS
<1>2. i \in Int /\ j \in Int /\ (i <= j => j - i + 1 = j - i + 1)
  OBVIOUS
<1>3. /\ SubSeq(s, i, j) \in Seq(S)
      /\ Len(SubSeq(s, i, j)) = IF i <= j THEN j - i + 1 ELSE 0
      /\ \A x \in 1 .. j - i + 1 : SubSeq(s, i, j)[x] = s[i + x - 1]
  BY <1>1, <1>2, SubSeqProperties
<1> QED BY <1>3

\* Two sequences one after the other, item by item.
LEMMA BothOf ==
    ASSUME NEW S, NEW s \in Seq(S), NEW t \in Seq(S)
    PROVE  /\ s \o t \in Seq(S) /\ Len(s \o t) = Len(s) + Len(t)
           /\ \A j \in 1 .. Len(s) + Len(t) :
                (s \o t)[j] = IF j <= Len(s) THEN s[j] ELSE t[j - Len(s)]
OBVIOUS

\* Two sequences with one item between them.
Glues(w, S, s, x, t) ==
    /\ w \in Seq(S) /\ Len(w) = Len(s) + 1 + Len(t)
    /\ \A j \in 1 .. Len(s) : w[j] = s[j]
    /\ w[Len(s) + 1] = x
    /\ \A j \in 1 .. Len(t) : w[Len(s) + 1 + j] = t[j]

\* Gluing two sequences around an item does what Glues says.
LEMMA GluedOf ==
    ASSUME NEW S, NEW s \in Seq(S), NEW x \in S, NEW t \in Seq(S)
    PROVE  Glues(s \o <<x>> \o t, S, s, x, t)
<1>1. s \o <<x>> \o t \in Seq(S) /\ Len(s \o <<x>> \o t) = Len(s) + 1 + Len(t)
  OBVIOUS
<1>2. \A j \in 1 .. Len(s) : (s \o <<x>> \o t)[j] = s[j]
  OBVIOUS
<1>3. (s \o <<x>> \o t)[Len(s) + 1] = x
  OBVIOUS
<1>4. \A j \in 1 .. Len(t) : (s \o <<x>> \o t)[Len(s) + 1 + j] = t[j]
  OBVIOUS
<1> QED BY <1>1, <1>2, <1>3, <1>4, Zenon DEF Glues

\* An item inserted: those behind it move up by one (the memmoves of add234).
LEMMA InsertedAt ==
    ASSUME NEW S, NEW s \in Seq(S), NEW i \in 1 .. Len(s) + 1, NEW x \in S
    PROVE  /\ InsertAt(s, i, x) \in Seq(S) /\ Len(InsertAt(s, i, x)) = Len(s) + 1
           /\ \A j \in 1 .. i - 1 : InsertAt(s, i, x)[j] = s[j]
           /\ InsertAt(s, i, x)[i] = x
           /\ \A j \in i .. Len(s) : InsertAt(s, i, x)[j + 1] = s[j]
<1> DEFINE front == SubSeq(s, 1, i - 1)
           back == SubSeq(s, i, Len(s))
           all == front \o <<x>> \o back
<1>1. front \in Seq(S) /\ Len(front) = i - 1 /\ \A j \in 1 .. i - 1 : front[j] = s[j]
  <2>1. 1 \in 1 .. Len(s) + 1 /\ i - 1 \in 1 - 1 .. Len(s) /\ (i - 1) - 1 + 1 = i - 1
    OBVIOUS
  <2>2. \A j \in Int : 1 + j - 1 = j
    OBVIOUS
  <2>3. /\ front \in Seq(S) /\ Len(front) = (i - 1) - 1 + 1
        /\ \A z \in 1 .. (i - 1) - 1 + 1 : front[z] = s[1 + z - 1]
    BY <2>1, PartOf
  <2> HIDE DEF front
  <2> QED BY <2>1, <2>2, <2>3
<1>2. /\ back \in Seq(S) /\ Len(back) = Len(s) - i + 1
      /\ \A j \in 1 .. Len(s) - i + 1 : back[j] = s[i + j - 1]
  <2>1. Len(s) \in i - 1 .. Len(s)
    OBVIOUS
  <2> QED BY <2>1, PartOf
<1>3. InsertAt(s, i, x) = all
  BY DEF InsertAt
<1> HIDE DEF front, back
<1>4. Glues(all, S, front, x, back)
  <2>1. front \in Seq(S) /\ back \in Seq(S)
    BY <1>1, <1>2
  <2> QED BY <2>1, GluedOf, Zenon
<1> HIDE DEF all
<1>5. (i - 1) + 1 + (Len(s) - i + 1) = Len(s) + 1 /\ (i - 1) + 1 = i
  OBVIOUS
<1>6. all \in Seq(S) /\ Len(all) = Len(s) + 1 /\ all[i] = x /\ \A j \in 1 .. i - 1 : all[j] = s[j]
  BY <1>1, <1>2, <1>4, <1>5 DEF Glues
<1>7. ASSUME NEW j \in i .. Len(s) PROVE all[j + 1] = s[j]
  <2>1. j - i + 1 \in 1 .. Len(s) - i + 1 /\ (i - 1) + 1 + (j - i + 1) = j + 1 /\ i + (j - i + 1) - 1 = j
    OBVIOUS
  <2>2. all[j + 1] = back[j - i + 1]
    <3>1. Len(front) = i - 1 /\ Len(back) = Len(s) - i + 1
      BY <1>1, <1>2
    <3>2. \A c \in 1 .. Len(back) : all[Len(front) + 1 + c] = back[c]
      BY ONLY <1>4, ZenonT(40) DEF Glues
    <3>3. all[(i - 1) + 1 + (j - i + 1)] = back[j - i + 1]
      BY ONLY <2>1, <3>1, <3>2, ZenonT(40)
    <3> QED BY ONLY <2>1, <3>3, ZenonT(40)
  <2>3. back[j - i + 1] = s[j]
    BY <1>2, <2>1
  <2> QED BY <2>2, <2>3
<1> QED BY <1>3, <1>6, <1>7

\* An item removed: those behind it move down by one (the memmoves of del234).
LEMMA RemovedAt ==
    ASSUME NEW S, NEW s \in Seq(S), NEW i \in 1 .. Len(s)
    PROVE  /\ RemoveAt(s, i) \in Seq(S) /\ Len(RemoveAt(s, i)) = Len(s) - 1
           /\ \A j \in 1 .. Len(s) - 1 : RemoveAt(s, i)[j] = IF j < i THEN s[j] ELSE s[j + 1]
<1> DEFINE front == SubSeq(s, 1, i - 1)
           back == SubSeq(s, i + 1, Len(s))
<1>1. /\ front \in Seq(S) /\ Len(front) = i - 1
      /\ \A j \in 1 .. i - 1 : front[j] = s[j]
  <2>1. 1 \in 1 .. Len(s) + 1 /\ i - 1 \in 1 - 1 .. Len(s) /\ (i - 1) - 1 + 1 = i - 1
    OBVIOUS
  <2>2. \A j \in Int : 1 + j - 1 = j
    OBVIOUS
  <2>3. /\ front \in Seq(S) /\ Len(front) = (i - 1) - 1 + 1
        /\ \A z \in 1 .. (i - 1) - 1 + 1 : front[z] = s[1 + z - 1]
    BY <2>1, PartOf
  <2> HIDE DEF front
  <2> QED BY <2>1, <2>2, <2>3
<1>2. /\ back \in Seq(S) /\ Len(back) = Len(s) - i
      /\ \A j \in 1 .. Len(s) - i : back[j] = s[i + j]
  <2>1. i + 1 \in 1 .. Len(s) + 1 /\ Len(s) \in (i + 1) - 1 .. Len(s)
        /\ Len(s) - (i + 1) + 1 = Len(s) - i
    OBVIOUS
  <2>2. \A j \in Int : (i + 1) + j - 1 = i + j
    BY SMTT(40)
  <2>3. /\ back \in Seq(S) /\ Len(back) = Len(s) - (i + 1) + 1
        /\ \A z \in 1 .. Len(s) - (i + 1) + 1 : back[z] = s[(i + 1) + z - 1]
    BY <2>1, PartOf
  <2> HIDE DEF back
  <2> QED BY <2>1, <2>2, <2>3
<1>3. RemoveAt(s, i) = front \o back
  BY DEF RemoveAt
<1> HIDE DEF front, back
<1>4. /\ front \o back \in Seq(S) /\ Len(front \o back) = Len(s) - 1
      /\ \A j \in 1 .. Len(s) - 1 :
           (front \o back)[j] = IF j <= i - 1 THEN front[j] ELSE back[j - (i - 1)]
  <2>1. (i - 1) + (Len(s) - i) = Len(s) - 1
    OBVIOUS
  <2>2. /\ front \o back \in Seq(S) /\ Len(front \o back) = Len(front) + Len(back)
        /\ \A j \in 1 .. Len(front) + Len(back) :
             (front \o back)[j] = IF j <= Len(front) THEN front[j] ELSE back[j - Len(front)]
    BY <1>1, <1>2, BothOf
  <2> QED BY <1>1, <1>2, <2>1, <2>2
<1>5. ASSUME NEW j \in 1 .. Len(s) - 1
      PROVE  (front \o back)[j] = IF j < i THEN s[j] ELSE s[j + 1]
  <2>1. CASE j < i
    BY <1>1, <1>4, <2>1
  <2>2. CASE ~ (j < i)
    <3>1. j - (i - 1) \in 1 .. Len(s) - i /\ i + (j - (i - 1)) = j + 1 /\ ~ (j <= i - 1)
      BY <2>2
    <3>2. back[j - (i - 1)] = s[j + 1]
      BY <1>2, <3>1
    <3>3. (front \o back)[j] = back[j - (i - 1)]
      BY <1>4, <3>1
    <3> QED BY <2>2, <3>2, <3>3, Zenon
  <2> QED BY <2>1, <2>2
<1> QED BY <1>3, <1>4, <1>5

\* An item replaced: the others stay.
LEMMA ReplacedAt ==
    ASSUME NEW S, NEW s \in Seq(S), NEW i \in 1 .. Len(s), NEW x \in S
    PROVE  /\ ReplaceAt(s, i, x) \in Seq(S) /\ Len(ReplaceAt(s, i, x)) = Len(s)
           /\ \A j \in 1 .. Len(s) : ReplaceAt(s, i, x)[j] = IF j = i THEN x ELSE s[j]
BY DEF ReplaceAt

\* All items but the first.
LEMMA TailOf ==
    ASSUME NEW S, NEW s \in Seq(S), s # <<>>
    PROVE  /\ Tail(s) \in Seq(S) /\ Len(Tail(s)) = Len(s) - 1
           /\ \A j \in 1 .. Len(s) - 1 : Tail(s)[j] = s[j + 1]
OBVIOUS

\* Sequences of one length with the same members are the same.
LEMMA SameItems ==
    ASSUME NEW S, NEW s \in Seq(S), NEW t \in Seq(S), Len(s) = Len(t),
           \A i \in 1 .. Len(s) : s[i] = t[i]
    PROVE  s = t
OBVIOUS

--------------------------------------------------------------------------------
(*****************************************************************************)
(* How the heap stands for a list: heights, boundaries, and what fits them.  *)
(*****************************************************************************)

\* Two functions on 1 .. m that start alike and stay alike for a step.
RunsTo(m, f) == f = [i \in 1 .. m |-> f[i]]

\* Two such functions are the same, by induction over the numbers up to m.
LEMMA SameRuns ==
    ASSUME NEW m \in Nat, NEW f, NEW g, RunsTo(m, f), RunsTo(m, g), f[1] = g[1],
           \A i \in 2 .. m : f[i - 1] = g[i - 1] => f[i] = g[i]
    PROVE  f = g
<1> DEFINE bad == {i \in 1 .. m : f[i] # g[i]}
<1>1. ASSUME bad # {} PROVE FALSE
  <2>1. bad \in SUBSET Nat
    OBVIOUS
  <2>2. PICK i \in bad : \A j \in bad : i <= j
    BY <1>1, <2>1, LeastNumber
  <2>3. i \in 2 .. m /\ i - 1 \in 1 .. m /\ i - 1 \notin bad
    BY <2>2
  <2> QED BY <2>2, <2>3
<1>2. \A i \in 1 .. m : f[i] = g[i]
  BY <1>1
<1> QED BY <1>2, Zenon DEF RunsTo
--------------------------------------------------------------------------------
(* Boundaries and heights *)

Nodes(t) == DOMAIN t.nodes
Node234 == [parent : Nat, elems : Seq(Int), kids : Seq(Nat), counts : Seq(Int)]
Heaps(D) == [D -> Node234]
IsTree(t) ==
    /\ t \in [root : Nat, nodes : Heaps(Nodes(t)), sorted : BOOLEAN]
    /\ Nodes(t) \in SUBSET (Nat \ {0}) /\ IsFiniteSet(Nodes(t))

\* The boundaries b of a node: the position left of it, those of its elements, and the
\* position right of it.
Rising(b) == \A i, j \in DOMAIN b : i < j => b[i] < b[j]
Lo(b) == b[1]
Hi(b) == b[Len(b)]

\* Kid k of a node of height x lies between the positions lo and hi.
KidFits(h, B, k, x, lo, hi) ==
    IF x = 0 THEN k = NULL /\ hi = lo + 1
    ELSE k \in DOMAIN h /\ h[k] = x - 1 /\ Lo(B[k]) = lo /\ Hi(B[k]) = hi

NodeFits(h, B, G, node, b, x) ==
    /\ Len(node.elems) >= 1
    /\ Len(node.kids) = Len(node.elems) + 1
    /\ Len(node.counts) = Len(node.elems) + 1
    /\ Len(b) = Len(node.elems) + 2
    /\ Rising(b) /\ Hi(b) <= Len(G) + 1
    /\ \A c \in 1 .. Len(node.elems) + 1 : KidFits(h, B, node.kids[c], x, b[c], b[c + 1])
    /\ \A c \in 1 .. Len(node.elems) : node.elems[c] = G[b[c + 1]]

Layout(t, h, B, G) ==
    /\ h \in [Nodes(t) -> Nat] /\ B \in [Nodes(t) -> Seq(Nat)] /\ G \in Seq(Int)
    /\ \A y \in Nodes(t) : NodeFits(h, B, G, t.nodes[y], B[y], h[y])
    /\ IF t.root = NULL THEN Nodes(t) = {} /\ G = <<>>
       ELSE /\ t.root \in Nodes(t) /\ Lo(B[t.root]) = 0 /\ Hi(B[t.root]) = Len(G) + 1
            /\ \A y \in Nodes(t) : h[y] <= h[t.root]

\* Parents and kids agree, and only the root has no parent.
Linked(t) ==
    /\ \A y, k \in Nodes(t) : k \in ToSet(t.nodes[y].kids) <=> t.nodes[k].parent = y
    /\ \A k \in Nodes(t) : /\ t.nodes[k].parent \in Nodes(t) \cup {NULL}
                           /\ t.nodes[k].parent = NULL <=> k = t.root

Exact(node, b) == \A c \in 1 .. Len(node.counts) : node.counts[c] = b[c + 1] - b[c] - 1

\* The number of the first element of a kid, from counts that are right.
LEMMA StartIs ==
    ASSUME NEW node \in Node234, NEW b \in Seq(Nat), Len(b) = Len(node.counts) + 1,
           Exact(node, b), NEW c \in 1 .. Len(node.counts)
    PROVE  Start(node, c) = b[c] - b[1]
<1> DEFINE m == Len(node.counts)
           Turn(f) == [i \in DOMAIN node.counts |->
                          IF i = 1 THEN 0 ELSE f[i - 1] + node.counts[i - 1] + 1]
           f == CHOOSE f : f = Turn(f)
           g == [i \in 1 .. m |-> b[i] - b[1]]
<1>1. Start(node, c) = f[c]
  BY DEF Start
<1>2. m \in Nat /\ m # 0 /\ DOMAIN node.counts = 1 .. m /\ node.counts \in Seq(Int) /\ c \in 1 .. m
  BY DEF Node234
<1>3. \A i \in 1 .. m + 1 : b[i] \in Nat
  <2>1. DOMAIN b = 1 .. m + 1
    BY ONLY b \in Seq(Nat), Len(b) = Len(node.counts) + 1
  <2> QED BY ONLY <2>1, b \in Seq(Nat), SMTT(40)
<1>0. \A i \in 1 .. m : node.counts[i] = b[i + 1] - b[i] - 1
  BY DEF Exact
<1> HIDE DEF m
<1>4. /\ g = [i \in 1 .. m |-> g[i]]
      /\ \A i \in 1 .. m : g[i] = b[i] - b[1]
  OBVIOUS
<1> HIDE DEF g
<1>5. g[1] = 0
  <2>0. m \in Nat /\ m # 0
    BY <1>2, Zenon
  <2>1. 1 \in 1 .. m /\ 1 \in 1 .. m + 1
    BY ONLY <2>0
  <2>2. g[1] = b[1] - b[1] /\ b[1] \in Nat
    BY <1>3, <1>4, <2>1, Zenon
  <2> HIDE DEF f
  <2> QED BY <2>2
<1>6. ASSUME NEW i \in 2 .. m PROVE g[i] = g[i - 1] + node.counts[i - 1] + 1
  <2>0. m \in Nat /\ m # 0
    BY <1>2, Zenon
  <2>1. /\ i - 1 \in 1 .. m /\ i - 1 + 1 = i /\ i \in 1 .. m
        /\ i \in 1 .. m + 1 /\ i - 1 \in 1 .. m + 1 /\ 1 \in 1 .. m + 1
    BY ONLY <2>0, i \in 2 .. m
  <2>2. node.counts[i - 1] = b[i] - b[i - 1] - 1
    BY <1>0, <2>1
  <2>3. b[i] \in Nat /\ b[i - 1] \in Nat /\ b[1] \in Nat
    BY ONLY <1>3, <2>1
  <2>4. g[i] = b[i] - b[1] /\ g[i - 1] = b[i - 1] - b[1]
    BY <1>4, <2>1
  <2> QED BY ONLY <2>2, <2>3, <2>4, SMTT(40)
<1>7. g = Turn(g)
  <2>1. \A i \in 1 .. m : i = 1 \/ i \in 2 .. m
    OBVIOUS
  <2>2. \A i \in 1 .. m : g[i] = IF i = 1 THEN 0 ELSE g[i - 1] + node.counts[i - 1] + 1
    BY <1>5, <1>6, <2>1, Zenon
  <2> QED BY <1>2, <1>4, <2>2, Zenon
<1>8. f = Turn(f)
  <2> HIDE DEF Turn
  <2> QED BY <1>7, Zenon
<1> HIDE DEF f
<1>9. /\ f = [i \in 1 .. m |-> f[i]]
      /\ f[1] = 0
      /\ \A i \in 2 .. m : f[i] = f[i - 1] + node.counts[i - 1] + 1
  <2>1. \A i \in 1 .. m : f[i] = IF i = 1 THEN 0 ELSE f[i - 1] + node.counts[i - 1] + 1
    BY <1>2, <1>8, Zenon
  <2>2. f = [i \in 1 .. m |-> f[i]]
    BY <1>2, <1>8, <2>1, Zenon
  <2>0. m \in Nat /\ m # 0
    BY <1>2, Zenon
  <2>3. 1 \in 1 .. m /\ \A i \in 2 .. m : i \in 1 .. m /\ i # 1
    BY ONLY <2>0
  <2> QED BY <2>1, <2>2, <2>3, Zenon
<1>10. \A i \in 2 .. m : f[i - 1] = g[i - 1] => f[i] = g[i]
  BY <1>6, <1>9, Zenon
<1>11. f = g
  <2>1. f[1] = g[1]
    BY <1>5, <1>9
  <2>2. RunsTo(m, f) /\ RunsTo(m, g)
    BY <1>4, <1>9, Zenon DEF RunsTo
  <2> QED BY <1>2, <1>10, <2>1, <2>2, SameRuns
<1>12. g[c] = b[c] - b[1]
  BY <1>2, <1>4, Zenon
<1> QED BY <1>1, <1>11, <1>12, Zenon

\* A node and everything below it has as many elements as lie between its ends.
LEMMA CountIs ==
    ASSUME NEW t, IsTree(t), NEW n \in Nodes(t), NEW b \in Seq(Nat),
           Len(b) = Len(t.nodes[n].counts) + 1, Len(t.nodes[n].counts) >= 1, Exact(t.nodes[n], b)
    PROVE  countnode234(t, n) = Hi(b) - Lo(b) - 1
<1> DEFINE node == t.nodes[n]
           last == Len(node.counts)
<1>1. node \in Node234 /\ n # NULL
  BY DEF IsTree, Heaps, Nodes, NULL
<1>2. last \in 1 .. Len(node.counts) /\ last \in Nat
  BY <1>1 DEF Node234
<1>3. Start(node, last) = b[last] - b[1]
  BY <1>1, <1>2, StartIs
<1>4. node.counts[last] = b[last + 1] - b[last] - 1
  BY <1>2 DEF Exact
<1>5. b[last] \in Nat /\ b[last + 1] \in Nat /\ b[1] \in Nat /\ Len(b) = last + 1
  <2>1. Len(b) = last + 1
    OBVIOUS
  <2> HIDE DEF last
  <2> QED BY <1>2, <2>1
<1>6. countnode234(t, n) = Start(node, last) + node.counts[last]
  BY <1>1 DEF countnode234
<1>7. Hi(b) = b[last + 1] /\ Lo(b) = b[1]
  BY <1>5 DEF Hi, Lo
<1> HIDE DEF last, node
<1> QED BY <1>3, <1>4, <1>5, <1>6, <1>7, SMTT(40)

\* countnode234 of no node is nothing.
LEMMA NoNodeNoCount == ASSUME NEW t PROVE countnode234(t, NULL) = 0
BY DEF countnode234

\* What is between the boundaries of a node with k elements.
Bounds(b, k) ==
    /\ k \in Nat /\ k >= 1 /\ b \in Seq(Nat) /\ Len(b) = k + 2 /\ Lo(b) = b[1] /\ Hi(b) = b[k + 2]
    /\ \A c \in 1 .. k + 2 : b[c] \in Nat /\ Lo(b) <= b[c] /\ b[c] <= Hi(b)
    /\ \A i, j \in 1 .. k + 2 : i < j => b[i] < b[j]

\* A node that fits its boundaries has them in order.
LEMMA BoundsAre ==
    ASSUME NEW h, NEW B, NEW G, NEW node \in Node234, NEW b \in Seq(Nat), NEW x,
           NodeFits(h, B, G, node, b, x)
    PROVE  Bounds(b, Len(node.elems))
<1>1. PICK k \in Nat : k = Len(node.elems)
  BY DEF Node234
<1>2. k >= 1 /\ Len(b) = k + 2 /\ Rising(b)
  BY <1>1 DEF NodeFits
<1>3. DOMAIN b = 1 .. k + 2
  BY <1>2
<1>4. \A i, j \in 1 .. k + 2 : i < j => b[i] < b[j]
  BY <1>2, <1>3 DEF Rising
<1>5. \A c \in 1 .. k + 2 : b[c] \in Nat
  BY <1>2
<1>6. 1 \in 1 .. k + 2 /\ k + 2 \in 1 .. k + 2
  OBVIOUS
<1>7. ASSUME NEW c \in 1 .. k + 2 PROVE b[1] <= b[c] /\ b[c] <= b[k + 2]
  <2>1. c = 1 \/ 1 < c
    OBVIOUS
  <2>2. c = k + 2 \/ c < k + 2
    OBVIOUS
  <2>3. b[c] \in Nat /\ b[1] \in Nat /\ b[k + 2] \in Nat
    BY <1>5, <1>6
  <2> QED BY <1>4, <1>6, <2>1, <2>2, <2>3, SMTT(40)
<1>8. Lo(b) = b[1] /\ Hi(b) = b[k + 2]
  BY <1>2 DEF Lo, Hi
<1> QED BY <1>1, <1>2, <1>4, <1>5, <1>7, <1>8 DEF Bounds

\* The parts of a node that fits, with their lengths.
LEMMA PartsAre ==
    ASSUME NEW h, NEW B, NEW G, NEW node \in Node234, NEW b, NEW x, NodeFits(h, B, G, node, b, x)
    PROVE  /\ node.parent \in Nat /\ node.elems \in Seq(Int) /\ node.kids \in Seq(Nat)
           /\ node.counts \in Seq(Int) /\ Len(node.elems) \in Nat
           /\ Len(node.kids) = Len(node.elems) + 1 /\ Len(node.counts) = Len(node.elems) + 1
           /\ DOMAIN node.elems = 1 .. Len(node.elems)
           /\ DOMAIN node.kids = 1 .. Len(node.elems) + 1
           /\ DOMAIN node.counts = 1 .. Len(node.elems) + 1
<1>1. /\ node.parent \in Nat /\ node.elems \in Seq(Int) /\ node.kids \in Seq(Nat)
      /\ node.counts \in Seq(Int)
  BY DEF Node234
<1>2. Len(node.kids) = Len(node.elems) + 1 /\ Len(node.counts) = Len(node.elems) + 1
  BY DEF NodeFits
<1> QED BY <1>1, <1>2

\* The left end of a node is left of its right end.
LEMMA EndsAre == ASSUME NEW b, NEW k, Bounds(b, k)
                 PROVE  Lo(b) \in Nat /\ Hi(b) \in Nat /\ Lo(b) < Hi(b)
<1>1. 1 \in 1 .. k + 2 /\ k + 2 \in 1 .. k + 2 /\ 1 < k + 2
  BY DEF Bounds
<1>2. b[1] < b[k + 2] /\ b[1] \in Nat /\ b[k + 2] \in Nat
  BY <1>1 DEF Bounds
<1> QED BY <1>2 DEF Bounds

\* A slot lies between two boundaries, and both between the ends.
LEMMA SlotIs == ASSUME NEW b, NEW k, Bounds(b, k), NEW c \in 1 .. k + 1
                PROVE  /\ b[c] \in Nat /\ b[c + 1] \in Nat /\ b[c] < b[c + 1]
                       /\ Lo(b) <= b[c] /\ b[c + 1] <= Hi(b)
                       /\ Lo(b) \in Nat /\ Hi(b) \in Nat
<1>1. k \in Nat /\ c \in 1 .. k + 2 /\ c + 1 \in 1 .. k + 2 /\ c < c + 1
  BY DEF Bounds
<1>2. /\ b[c] \in Nat /\ b[c + 1] \in Nat /\ b[c] < b[c + 1]
      /\ Lo(b) <= b[c] /\ b[c + 1] <= Hi(b)
  BY <1>1 DEF Bounds
<1> QED BY <1>2, EndsAre

\* The boundary of an element lies strictly between the ends.
LEMMA InnerIs == ASSUME NEW b, NEW k, Bounds(b, k), NEW c \in 1 .. k
                 PROVE  /\ b[c + 1] \in Nat /\ Lo(b) < b[c + 1] /\ b[c + 1] < Hi(b)
                        /\ c \in Nat /\ c \in 1 .. k + 1 /\ c + 1 \in 1 .. k + 1
                        /\ Lo(b) \in Nat /\ Hi(b) \in Nat
<1>1. k \in Nat /\ c \in 1 .. k + 1 /\ c + 1 \in 1 .. k + 1
  BY DEF Bounds
<1>2. /\ b[c] \in Nat /\ b[c + 1] \in Nat /\ b[c] < b[c + 1] /\ Lo(b) <= b[c]
      /\ Lo(b) \in Nat /\ Hi(b) \in Nat
  BY <1>1, SlotIs
<1>3. b[(c + 1) + 1] \in Nat /\ b[c + 1] < b[(c + 1) + 1] /\ b[(c + 1) + 1] <= Hi(b)
  BY <1>1, SlotIs
<1> QED BY <1>1, <1>2, <1>3

\* A gap between the ends of a node is in one of its slots, in one only.
Covers(b, i) == Lo(b) <= i /\ i < Hi(b)
InSlot(b, c, i) == b[c] <= i /\ i < b[c + 1]

\* A gap that a node covers is in one of its slots: the last that starts at it or before.
LEMMA SlotExists ==
    ASSUME NEW k, NEW b, Bounds(b, k), NEW i \in Nat, Covers(b, i)
    PROVE  \E c \in 1 .. k + 1 : InSlot(b, c, i)
<1>1. /\ k \in Nat /\ \A c \in 1 .. k + 2 : b[c] \in Nat
      /\ b[1] <= i /\ i < b[k + 2]
  BY DEF Bounds, Covers
<1> DEFINE above == {c \in 1 .. k + 1 : i < b[c + 1]}
<1>2. k + 1 \in above
  BY <1>1
<1>3. above \in SUBSET Nat /\ above # {}
  BY <1>2
<1>4. PICK c \in above : \A d \in above : c <= d
  BY <1>3, LeastNumber
<1>5. c \in 1 .. k + 1 /\ i < b[c + 1]
  BY <1>4
<1>6. b[c] <= i
  <2>1. CASE c = 1
    BY <1>1, <2>1
  <2>2. CASE c # 1
    <3>1. c - 1 \in 1 .. k + 1 /\ (c - 1) + 1 = c /\ c \in 1 .. k + 2
      BY <1>1, <1>5, <2>2
    <3>2. c - 1 \notin above
      BY <1>4, <1>5, <1>1
    <3>3. ~ (i < b[c])
      BY <3>1, <3>2
    <3> QED BY <1>1, <3>1, <3>3
  <2> QED BY <2>1, <2>2
<1> QED BY <1>5, <1>6 DEF InSlot

\* It is in one slot only.
LEMMA SlotUnique ==
    ASSUME NEW k, NEW b, Bounds(b, k), NEW i \in Nat,
           NEW c \in 1 .. k + 1, InSlot(b, c, i), NEW d \in 1 .. k + 1, InSlot(b, d, i)
    PROVE  c = d
<1>1. k \in Nat /\ b[c] \in Nat /\ b[c + 1] \in Nat /\ b[d] \in Nat /\ b[d + 1] \in Nat
  BY DEF Bounds
<1>1a. k \in Nat /\ \A i1, j1 \in 1 .. k + 2 : i1 < j1 => b[i1] < b[j1]
  BY DEF Bounds
<1>2. c + 1 <= d => b[c + 1] <= b[d]
  BY ONLY <1>1, <1>1a, c \in 1 .. k + 1, d \in 1 .. k + 1, SMTT(40)
<1>3. d + 1 <= c => b[d + 1] <= b[c]
  BY ONLY <1>1, <1>1a, c \in 1 .. k + 1, d \in 1 .. k + 1, SMTT(40)
<1>4. b[c] <= i /\ i < b[c + 1] /\ b[d] <= i /\ i < b[d + 1]
  BY DEF InSlot
<1>5. ~ (c + 1 <= d) /\ ~ (d + 1 <= c)
  BY <1>1, <1>2, <1>3, <1>4
<1> QED BY <1>1, <1>5
--------------------------------------------------------------------------------
(* Nodes, kids and parents *)

Size(t, y) == Len(t.nodes[y].elems)

\* What is known of each node of a tree that is laid out.
LEMMA NodeIs ==
    ASSUME NEW t, NEW h, NEW B, NEW G, IsTree(t), Layout(t, h, B, G), NEW y \in Nodes(t)
    PROVE  /\ y \in Nat /\ y # NULL /\ t.nodes[y] \in Node234 /\ h[y] \in Nat /\ B[y] \in Seq(Nat)
           /\ NodeFits(h, B, G, t.nodes[y], B[y], h[y])
           /\ Bounds(B[y], Size(t, y)) /\ Hi(B[y]) <= Len(G) + 1 /\ Len(G) \in Nat
           /\ t.root \in Nodes(t) /\ h[y] <= h[t.root] /\ DOMAIN h = Nodes(t) /\ DOMAIN B = Nodes(t)
<1>1. y \in Nat /\ y # NULL /\ t.nodes[y] \in Node234
  BY DEF IsTree, Heaps, NULL
<1>2. /\ h[y] \in Nat /\ B[y] \in Seq(Nat) /\ NodeFits(h, B, G, t.nodes[y], B[y], h[y])
      /\ DOMAIN h = Nodes(t) /\ DOMAIN B = Nodes(t) /\ Len(G) \in Nat
  BY DEF Layout
<1>3. t.root \in Nodes(t) /\ h[y] <= h[t.root]
  BY DEF Layout
<1>4. Bounds(B[y], Size(t, y))
  BY <1>1, <1>2, BoundsAre DEF Size
<1>5. Hi(B[y]) <= Len(G) + 1
  BY <1>2 DEF NodeFits
<1> QED BY <1>1, <1>2, <1>3, <1>4, <1>5

\* Kid k of node y is in slot c.
IsKid(t, h, B, y, c, k) ==
    /\ k \in Nodes(t) /\ t.nodes[y].kids[c] = k /\ h[k] = h[y] - 1 /\ h[k] \in Nat
    /\ Lo(B[k]) = B[y][c] /\ Hi(B[k]) = B[y][c + 1]

\* The kid in a slot: NULL in a leaf, and a node that fills the slot above it.
LEMMA KidIs ==
    ASSUME NEW t, NEW h, NEW B, NEW G, IsTree(t), Layout(t, h, B, G), Linked(t),
           NEW y \in Nodes(t), NEW c \in 1 .. Size(t, y) + 1
    PROVE  IF h[y] = 0 THEN t.nodes[y].kids[c] = NULL /\ B[y][c + 1] = B[y][c] + 1
           ELSE /\ IsKid(t, h, B, y, c, t.nodes[y].kids[c])
                /\ t.nodes[t.nodes[y].kids[c]].parent = y
<1> DEFINE k == t.nodes[y].kids[c]
<1>1. /\ NodeFits(h, B, G, t.nodes[y], B[y], h[y]) /\ h[y] \in Nat /\ DOMAIN h = Nodes(t)
      /\ t.nodes[y] \in Node234
  BY NodeIs
<1>2. KidFits(h, B, k, h[y], B[y][c], B[y][c + 1])
  BY <1>1 DEF NodeFits, Size
<1>3. CASE h[y] = 0
  BY <1>2, <1>3 DEF KidFits
<1>4. CASE h[y] # 0
  <2>1. IsKid(t, h, B, y, c, k)
    BY <1>1, <1>2, <1>4 DEF KidFits, IsKid
  <2>2. k \in ToSet(t.nodes[y].kids)
    <3>1. c \in DOMAIN t.nodes[y].kids
      BY <1>1, PartsAre DEF Size
    <3> QED BY <3>1 DEF ToSet
  <2>3. k \in Nodes(t)
    BY <2>1 DEF IsKid
  <2>4. t.nodes[k].parent = y
    BY <2>2, <2>3 DEF Linked
  <2> QED BY <1>4, <2>1, <2>4
<1> QED BY <1>3, <1>4

\* A node with y as its parent is one of y's kids.
LEMMA KidOf ==
    ASSUME NEW t, NEW h, NEW B, NEW G, IsTree(t), Layout(t, h, B, G), Linked(t),
           NEW y \in Nodes(t), NEW k \in Nodes(t), t.nodes[k].parent = y
    PROVE  \E c \in 1 .. Size(t, y) + 1 : IsKid(t, h, B, y, c, k)
<1>1. /\ NodeFits(h, B, G, t.nodes[y], B[y], h[y]) /\ h[y] \in Nat /\ DOMAIN h = Nodes(t)
      /\ t.nodes[y] \in Node234
  BY NodeIs
<1>2. k \in ToSet(t.nodes[y].kids)
  BY DEF Linked
<1>3. PICK c \in DOMAIN t.nodes[y].kids : t.nodes[y].kids[c] = k
  BY <1>2 DEF ToSet
<1>4. c \in 1 .. Size(t, y) + 1
  BY <1>1, <1>3, PartsAre DEF Size
<1>5. k # NULL
  BY NodeIs
<1>6. IsKid(t, h, B, y, c, k)
  BY <1>3, <1>4, <1>5, KidIs
<1> QED BY <1>4, <1>6

\* A node that is not the root has a parent one higher, which has it in the slot that
\* ChildNum finds.
LEMMA ParentIs ==
    ASSUME NEW t, NEW h, NEW B, NEW G, IsTree(t), Layout(t, h, B, G), Linked(t),
           NEW k \in Nodes(t), k # t.root, NEW y, y = t.nodes[k].parent
    PROVE  /\ y \in Nodes(t) /\ h[y] = h[k] + 1
           /\ ChildNum(t, k) \in 1 .. Size(t, y) + 1
           /\ IsKid(t, h, B, y, ChildNum(t, k), k)
<1>1. y \in Nodes(t)
  BY DEF Linked
<1>2. PICK c \in 1 .. Size(t, y) + 1 : IsKid(t, h, B, y, c, k)
  BY <1>1, KidOf
<1>3. /\ NodeFits(h, B, G, t.nodes[y], B[y], h[y]) /\ h[y] \in Nat /\ t.nodes[y] \in Node234
      /\ k # NULL
  BY <1>1, NodeIs
<1>4. DOMAIN t.nodes[y].kids = 1 .. Size(t, y) + 1
  BY <1>3, PartsAre DEF Size
<1>5. c \in DOMAIN t.nodes[y].kids /\ t.nodes[y].kids[c] = k
  BY <1>2, <1>4, SMTT(40) DEF IsKid
<1>6. ChildNum(t, k) \in DOMAIN t.nodes[y].kids /\ t.nodes[y].kids[ChildNum(t, k)] = k
  BY <1>5, SMTT(40) DEF ChildNum
<1>7. IsKid(t, h, B, y, ChildNum(t, k), k)
  BY <1>1, <1>3, <1>4, <1>6, KidIs
<1>8. h[y] = h[k] + 1
  BY <1>3, <1>7 DEF IsKid
<1> QED BY <1>1, <1>4, <1>6, <1>7, <1>8

--------------------------------------------------------------------------------
(*****************************************************************************)
(* The list of the tree is G, and a whole tree is what chknode accepts.      *)
(*****************************************************************************)

\* Some highest and some lowest node of a set.
LEMMA HighestOf ==
    ASSUME NEW D, NEW h \in [D -> Nat], NEW H \in Nat, \A y \in D : h[y] <= H,
           NEW M \in SUBSET D, M # {}
    PROVE  \E z \in M : \A w \in M : h[w] <= h[z]
<1> DEFINE N == {H - h[z] : z \in M}
<1>1. \A z \in M : h[z] \in Nat /\ h[z] <= H /\ H - h[z] \in Nat
  OBVIOUS
<1>2. N \in SUBSET Nat /\ N # {}
  BY <1>1
<1>3. PICK i \in N : \A j \in N : i <= j
  BY <1>2, LeastNumber
<1>4. PICK z \in M : i = H - h[z]
  BY <1>3
<1>5. ASSUME NEW w \in M PROVE h[w] <= h[z]
  <2>1. i <= H - h[w]
    BY <1>3
  <2> QED BY <1>1, <1>4, <2>1
<1> QED BY <1>5

\* Heights being natural numbers, each set of nodes has a lowest one.
LEMMA LowestOf ==
    ASSUME NEW D, NEW h \in [D -> Nat], NEW M \in SUBSET D, M # {}
    PROVE  \E z \in M : \A w \in M : h[z] <= h[w]
<1> DEFINE N == {h[z] : z \in M}
<1>1. N \in SUBSET Nat /\ N # {}
  OBVIOUS
<1>2. PICK i \in N : \A j \in N : i <= j
  BY <1>1, LeastNumber
<1>3. PICK z \in M : i = h[z]
  BY <1>2
<1> QED BY <1>2, <1>3

Standing(t, h, B, G) == IsTree(t) /\ Layout(t, h, B, G) /\ Linked(t)

\* Nodes of one height do not overlap.
LEMMA SameGap ==
    ASSUME NEW t, NEW h, NEW B, NEW G, Standing(t, h, B, G),
           NEW x \in Nodes(t), NEW y \in Nodes(t), h[x] = h[y],
           NEW i \in Nat, Covers(B[x], i), Covers(B[y], i)
    PROVE  x = y
<1> DEFINE D == Nodes(t)
           bad == {z \in D : \E w \in D : h[w] = h[z] /\ w # z /\ Covers(B[w], i) /\ Covers(B[z], i)}
<1>0. IsTree(t) /\ Layout(t, h, B, G) /\ Linked(t)
  BY DEF Standing
<1>1. /\ h \in [D -> Nat] /\ t.root \in D /\ h[t.root] \in Nat
      /\ \A z \in D : h[z] <= h[t.root] /\ h[z] \in Nat
  <2>1. h \in [D -> Nat]
    BY <1>0 DEF Layout
  <2> QED BY <1>0, <2>1, NodeIs
<1>2. ASSUME bad # {} PROVE FALSE
  <2>1. PICK z \in bad : \A w \in bad : h[w] <= h[z]
    <3>1. bad \in SUBSET D
      OBVIOUS
    <3> QED BY <1>1, <1>2, <3>1, HighestOf
  <2>2. z \in D
    OBVIOUS
  <2>3. PICK w \in D : h[w] = h[z] /\ w # z /\ Covers(B[w], i) /\ Covers(B[z], i)
    OBVIOUS
  <2>4. ASSUME NEW k \in D, NEW k2 \in D, k = t.root, k2 # k, h[k2] = h[k] PROVE FALSE
    <3>1. t.nodes[k2].parent \in D /\ h[t.nodes[k2].parent] = h[k2] + 1
      BY <1>0, <2>4, ParentIs
    <3> QED BY <1>1, <2>4, <3>1
  <2>5. z # t.root /\ w # t.root
    BY <2>2, <2>3, <2>4
  <2>6. PICK v \in D : v = t.nodes[z].parent /\ h[v] = h[z] + 1
    BY <1>0, <2>2, <2>5, ParentIs
  <2>7. PICK u \in D : u = t.nodes[w].parent /\ h[u] = h[w] + 1
    BY <1>0, <2>3, <2>5, ParentIs
  <2>8. PICK c \in 1 .. Size(t, v) + 1 : IsKid(t, h, B, v, c, z)
    BY <1>0, <2>2, <2>6, KidOf
  <2>9. PICK d \in 1 .. Size(t, u) + 1 : IsKid(t, h, B, u, d, w)
    BY <1>0, <2>3, <2>7, KidOf
  <2>10. InSlot(B[v], c, i) /\ InSlot(B[u], d, i)
    BY <2>3, <2>8, <2>9 DEF IsKid, InSlot, Covers
  <2>11. Bounds(B[v], Size(t, v)) /\ Bounds(B[u], Size(t, u))
    BY <1>0, NodeIs
  <2>12. Covers(B[v], i)
    <3>1. /\ B[v][c] \in Nat /\ B[v][c + 1] \in Nat /\ Lo(B[v]) <= B[v][c]
          /\ B[v][c + 1] <= Hi(B[v]) /\ Lo(B[v]) \in Nat /\ Hi(B[v]) \in Nat
      BY <2>11, SlotIs
    <3> QED BY <2>10, <3>1 DEF Covers, InSlot
  <2>13. Covers(B[u], i)
    <3>1. /\ B[u][d] \in Nat /\ B[u][d + 1] \in Nat /\ Lo(B[u]) <= B[u][d]
          /\ B[u][d + 1] <= Hi(B[u]) /\ Lo(B[u]) \in Nat /\ Hi(B[u]) \in Nat
      BY <2>11, SlotIs
    <3> QED BY <2>10, <3>1 DEF Covers, InSlot
  <2>14. u = v
    <3>1. h[u] = h[v]
      BY <2>3, <2>6, <2>7
    <3>2. ~ (h[v] <= h[z])
      BY <1>1, <2>2, <2>6
    <3>3. v \notin bad
      BY <2>1, <3>2
    <3> QED BY <2>12, <2>13, <3>1, <3>3
  <2>15. c = d
    BY <2>10, <2>11, <2>14, SlotUnique
  <2> QED BY <2>3, <2>8, <2>9, <2>14, <2>15 DEF IsKid
<1> QED BY <1>2

\* A node that is higher and overlaps another one has it in one of its slots.
LEMMA Nested ==
    ASSUME NEW t, NEW h, NEW B, NEW G, Standing(t, h, B, G),
           NEW y \in Nodes(t), NEW z \in Nodes(t), h[z] < h[y],
           NEW i \in Nat, Covers(B[y], i), Covers(B[z], i)
    PROVE  \E c \in 1 .. Size(t, y) + 1 : B[y][c] <= Lo(B[z]) /\ Hi(B[z]) <= B[y][c + 1]
<1> DEFINE D == Nodes(t)
           Within(x) == \E c \in 1 .. Size(t, y) + 1 :
                            B[y][c] <= Lo(B[x]) /\ Hi(B[x]) <= B[y][c + 1]
           bad == {x \in D : h[x] < h[y] /\ Covers(B[x], i) /\ ~ Within(x)}
<1>0. IsTree(t) /\ Layout(t, h, B, G) /\ Linked(t)
  BY DEF Standing
<1>1. /\ h \in [D -> Nat] /\ t.root \in D /\ h[t.root] \in Nat
      /\ \A x \in D : h[x] <= h[t.root] /\ h[x] \in Nat
  <2>1. h \in [D -> Nat]
    BY <1>0 DEF Layout
  <2> QED BY <1>0, <2>1, NodeIs
<1>2. ASSUME bad # {} PROVE FALSE
  <2>1. PICK x \in bad : \A w \in bad : h[w] <= h[x]
    <3>1. bad \in SUBSET D
      OBVIOUS
    <3> HIDE DEF bad, D
    <3> QED BY <1>1, <1>2, <3>1, HighestOf
  <2>2. x \in D /\ h[x] < h[y] /\ Covers(B[x], i) /\ ~ Within(x)
    OBVIOUS
  <2> HIDE DEF bad, Within
  <2>3. x # t.root
    BY <1>1, <2>2
  <2>4. PICK v \in D : v = t.nodes[x].parent /\ h[v] = h[x] + 1
    BY <1>0, <2>2, <2>3, ParentIs
  <2>5. PICK c \in 1 .. Size(t, v) + 1 : IsKid(t, h, B, v, c, x)
    BY <1>0, <2>2, <2>4, KidOf
  <2>6. Bounds(B[v], Size(t, v)) /\ Bounds(B[x], Size(t, x))
    BY <1>0, <2>2, NodeIs
  <2>7. Lo(B[x]) = B[v][c] /\ Hi(B[x]) = B[v][c + 1]
    BY <2>5 DEF IsKid
  <2>8. /\ Lo(B[v]) <= Lo(B[x]) /\ Hi(B[x]) <= Hi(B[v])
        /\ Lo(B[v]) \in Nat /\ Hi(B[v]) \in Nat /\ Lo(B[x]) \in Nat /\ Hi(B[x]) \in Nat
    <3>1. /\ Lo(B[v]) <= B[v][c] /\ B[v][c + 1] <= Hi(B[v])
          /\ Lo(B[v]) \in Nat /\ Hi(B[v]) \in Nat
      BY <2>6, SlotIs
    <3>2. Lo(B[x]) \in Nat /\ Hi(B[x]) \in Nat
      BY <2>6, EndsAre
    <3> QED BY <2>7, <3>1, <3>2
  <2>9. Covers(B[v], i)
    BY <2>2, <2>8 DEF Covers
  <2>10. CASE h[v] = h[y]
    <3>1. v = y
      BY <2>9, <2>10, SameGap
    <3> QED BY <2>2, <2>5, <2>7, <2>8, <3>1 DEF Within
  <2>11. CASE h[v] # h[y]
    <3>1. h[v] < h[y] /\ ~ (h[v] <= h[x])
      BY <1>1, <2>2, <2>4, <2>11
    <3>2. Within(v)
      BY <2>1, <2>9, <3>1 DEF bad
    <3>3. PICK d \in 1 .. Size(t, y) + 1 : B[y][d] <= Lo(B[v]) /\ Hi(B[v]) <= B[y][d + 1]
      BY <3>2 DEF Within
    <3>4. B[y][d] \in Nat /\ B[y][d + 1] \in Nat
      <4>1. Bounds(B[y], Size(t, y))
        BY <1>0, NodeIs
      <4> QED BY <4>1, SlotIs
    <3>5. B[y][d] <= Lo(B[x]) /\ Hi(B[x]) <= B[y][d + 1]
      BY <2>8, <3>3, <3>4
    <3> QED BY <2>2, <3>3, <3>5 DEF Within
  <2> QED BY <2>10, <2>11
<1> QED BY <1>2

\* Position p is that of element c of node y.
At(t, B, y, c, p) == y \in Nodes(t) /\ c \in 1 .. Size(t, y) /\ B[y][c + 1] = p

\* An element's position is strictly between the ends of its node, and the list has the
\* element there.
LEMMA AtIs ==
    ASSUME NEW t, NEW h, NEW B, NEW G, Standing(t, h, B, G), NEW y, NEW c, NEW p, At(t, B, y, c, p)
    PROVE  /\ p \in 1 .. Len(G) /\ p \in Nat /\ Covers(B[y], p) /\ Lo(B[y]) < p /\ p < Hi(B[y])
           /\ c \in Nat /\ t.nodes[y].elems[c] = G[p]
<1> DEFINE k == Size(t, y)
<1>0. IsTree(t) /\ Layout(t, h, B, G) /\ Linked(t) /\ y \in Nodes(t) /\ c \in 1 .. k /\ B[y][c + 1] = p
  BY DEF Standing, At
<1>1. /\ Bounds(B[y], k) /\ Hi(B[y]) <= Len(G) + 1 /\ Len(G) \in Nat
      /\ NodeFits(h, B, G, t.nodes[y], B[y], h[y])
  BY <1>0, NodeIs
<1>2. t.nodes[y].elems[c] = G[p]
  BY <1>0, <1>1 DEF NodeFits, Size
<1> HIDE DEF k
<1>3. /\ p \in Nat /\ Lo(B[y]) < p /\ p < Hi(B[y]) /\ c \in Nat
      /\ Lo(B[y]) \in Nat /\ Hi(B[y]) \in Nat
  BY <1>0, <1>1, InnerIs
<1> QED BY <1>1, <1>2, <1>3 DEF Covers

\* Each position has one element,
LEMMA OnePlace ==
    ASSUME NEW t, NEW h, NEW B, NEW G, Standing(t, h, B, G), NEW p,
           NEW y, NEW c, At(t, B, y, c, p), NEW z, NEW d, At(t, B, z, d, p)
    PROVE  y = z /\ c = d
<1>0. IsTree(t) /\ Layout(t, h, B, G) /\ Linked(t)
  BY DEF Standing
<1>1. /\ y \in Nodes(t) /\ c \in 1 .. Size(t, y) /\ B[y][c + 1] = p
      /\ z \in Nodes(t) /\ d \in 1 .. Size(t, z) /\ B[z][d + 1] = p
  BY DEF At
<1>2. /\ Covers(B[y], p) /\ Lo(B[y]) < p /\ p < Hi(B[y]) /\ p \in Nat
      /\ Covers(B[z], p) /\ Lo(B[z]) < p /\ p < Hi(B[z])
  BY AtIs
<1>3. Bounds(B[y], Size(t, y)) /\ Bounds(B[z], Size(t, z))
  BY <1>0, <1>1, NodeIs
<1>4. ASSUME NEW u, NEW v, NEW a, At(t, B, u, a, p), v \in Nodes(t), h[v] < h[u],
             Covers(B[u], p), Lo(B[v]) < p, p < Hi(B[v])
      PROVE  FALSE
  <2>1. u \in Nodes(t) /\ a \in 1 .. Size(t, u) /\ B[u][a + 1] = p
    BY <1>4 DEF At
  <2>2. Covers(B[v], p)
    <3>1. Bounds(B[v], Size(t, v))
      BY <1>0, <1>4, NodeIs
    <3>2. Lo(B[v]) \in Nat /\ Hi(B[v]) \in Nat
      BY <3>1, EndsAre
    <3> QED BY <1>2, <1>4, <3>2 DEF Covers
  <2>3. PICK b \in 1 .. Size(t, u) + 1 : B[u][b] <= Lo(B[v]) /\ Hi(B[v]) <= B[u][b + 1]
    BY <1>2, <1>4, <2>1, <2>2, Nested
  <2>4. Bounds(B[u], Size(t, u))
    BY <1>0, <2>1, NodeIs
  <2>5. PICK k \in Nat : k = Size(t, u)
    BY <2>4 DEF Bounds
  <2>6. /\ B[u][b] \in Nat /\ B[u][b + 1] \in Nat /\ Lo(B[v]) \in Nat /\ Hi(B[v]) \in Nat
    <3>1. Bounds(B[v], Size(t, v))
      BY <1>0, <1>4, NodeIs
    <3>2. Lo(B[v]) \in Nat /\ Hi(B[v]) \in Nat
      BY <3>1, EndsAre
    <3> QED BY <2>3, <2>4, <3>2, SlotIs
  <2>7. InSlot(B[u], b, p)
    BY <1>2, <1>4, <2>3, <2>6 DEF InSlot
  <2>8. InSlot(B[u], a + 1, p)
    <3>1. a + 1 \in 1 .. k + 2 /\ (a + 1) + 1 \in 1 .. k + 2 /\ a + 1 < (a + 1) + 1
      BY <2>1, <2>5
    <3>2. B[u][a + 1] < B[u][(a + 1) + 1] /\ B[u][a + 1] \in Nat
      BY <2>4, <2>5, <3>1 DEF Bounds
    <3> QED BY <2>1, <3>2 DEF InSlot
  <2>9. a + 1 \in 1 .. Size(t, u) + 1
    BY <2>1, <2>5
  <2>10. a + 1 = b
    BY <1>2, <2>3, <2>4, <2>7, <2>8, <2>9, SlotUnique
  <2> QED BY <1>2, <1>4, <2>1, <2>3, <2>6, <2>10
<1>5. h[y] \in Nat /\ h[z] \in Nat
  BY <1>0, <1>1, NodeIs
<1>6. ~ (h[y] < h[z]) /\ ~ (h[z] < h[y])
  BY <1>1, <1>2, <1>4
<1>7. h[y] = h[z]
  BY <1>5, <1>6
<1>8. y = z
  BY <1>1, <1>2, <1>7, SameGap
<1>9. PICK k \in Nat : k = Size(t, y)
  BY <1>3 DEF Bounds
<1>10. \A i, j \in 1 .. k + 2 : i < j => B[y][i] < B[y][j]
  BY <1>3, <1>9 DEF Bounds
<1>11. c + 1 \in 1 .. k + 2 /\ d + 1 \in 1 .. k + 2 /\ c \in Nat /\ d \in Nat
  BY <1>1, <1>8, <1>9
<1>12. ~ (p < p)
  BY <1>2
<1>13. B[y][c + 1] = p /\ B[y][d + 1] = p
  BY <1>1, <1>8
<1>14. ~ (c + 1 < d + 1) /\ ~ (d + 1 < c + 1)
  BY <1>10, <1>11, <1>12, <1>13
<1> QED BY <1>8, <1>11, <1>14

\* and each position of the list has one: the lowest node that covers it.
LEMMA PlaceExists ==
    ASSUME NEW t, NEW h, NEW B, NEW G, Standing(t, h, B, G), NEW p \in 1 .. Len(G)
    PROVE  \E y \in Nodes(t), c \in Nat : At(t, B, y, c, p)
<1> DEFINE D == Nodes(t)
           within == {z \in D : Lo(B[z]) < p /\ p < Hi(B[z])}
<1>0. IsTree(t) /\ Layout(t, h, B, G) /\ Linked(t)
  BY DEF Standing
<1>1. h \in [D -> Nat] /\ G \in Seq(Int)
  BY <1>0 DEF Layout
<1>2. t.root # NULL
  <2>1. Len(G) # 0
    BY <1>1
  <2>2. G # <<>>
    BY <2>1
  <2> QED BY <1>0, <2>2 DEF Layout
<1>3. t.root \in D /\ Lo(B[t.root]) = 0 /\ Hi(B[t.root]) = Len(G) + 1
  BY <1>0, <1>2 DEF Layout
<1>4. p \in Nat /\ 0 < p /\ p < Len(G) + 1
  BY <1>1
<1>5. within # {}
  BY <1>3, <1>4
<1>6. PICK z \in within : \A w \in within : h[z] <= h[w]
  <2>1. within \in SUBSET D
    OBVIOUS
  <2> HIDE DEF within, D
  <2> QED BY <1>1, <1>5, <2>1, LowestOf
<1>7. z \in D /\ Lo(B[z]) < p /\ p < Hi(B[z])
  OBVIOUS
<1>8. Bounds(B[z], Size(t, z)) /\ h[z] \in Nat
  BY <1>0, <1>7, NodeIs
<1>9. Covers(B[z], p) /\ Lo(B[z]) \in Nat
  <2>1. Lo(B[z]) \in Nat /\ Hi(B[z]) \in Nat
    BY <1>8, EndsAre
  <2> QED BY <1>4, <1>7, <2>1 DEF Covers
<1>10. PICK c \in 1 .. Size(t, z) + 1 : InSlot(B[z], c, p)
  BY <1>4, <1>8, <1>9, SlotExists
<1>11. B[z][c] \in Nat /\ B[z][c + 1] \in Nat /\ Size(t, z) \in Nat
  BY <1>8, SlotIs DEF Bounds
<1>12. CASE B[z][c] = p
  <2>1. c # 1
    BY <1>4, <1>7, <1>9, <1>12 DEF Lo
  <2>2. c - 1 \in 1 .. Size(t, z) /\ (c - 1) + 1 = c /\ c - 1 \in Nat
    BY <1>11, <2>1
  <2>3. At(t, B, z, c - 1, p)
    BY <1>7, <1>12, <2>2 DEF At
  <2> QED BY <1>7, <2>2, <2>3
<1>13. CASE B[z][c] # p
  <2>1. B[z][c] < p /\ p < B[z][c + 1]
    BY <1>4, <1>10, <1>11, <1>13 DEF InSlot
  <2>2. h[z] # 0
    <3>1. ~ (B[z][c + 1] = B[z][c] + 1)
      BY <1>4, <1>11, <2>1
    <3> QED BY <1>0, <1>7, <3>1, KidIs
  <2>3. PICK k : IsKid(t, h, B, z, c, k)
    BY <1>0, <1>7, <2>2, KidIs
  <2>4. k \in within /\ ~ (h[z] <= h[k])
    BY <1>8, <2>1, <2>3 DEF IsKid
  <2> QED BY <1>6, <2>4
<1> QED BY <1>12, <1>13

\* The boundaries of a leaf's elements are nobody else's.
LEMMA NotBoundary ==
    ASSUME NEW t, NEW h, NEW B, NEW G, Standing(t, h, B, G), NEW p, NEW n, NEW c,
           At(t, B, n, c, p), h[n] = 0,
           NEW z \in Nodes(t), z # n, NEW i \in 1 .. Size(t, z) + 2
    PROVE  B[z][i] # p
<1> DEFINE D == Nodes(t)
           bad == {w \in D : Lo(B[w]) = p \/ Hi(B[w]) = p}
<1>0. IsTree(t) /\ Layout(t, h, B, G) /\ Linked(t)
  BY DEF Standing
<1>1. /\ h \in [D -> Nat] /\ t.root \in D /\ h[t.root] \in Nat
      /\ \A x \in D : h[x] <= h[t.root] /\ h[x] \in Nat
  <2>1. h \in [D -> Nat]
    BY <1>0 DEF Layout
  <2> QED BY <1>0, <2>1, NodeIs
<1>2. p \in 1 .. Len(G) /\ p \in Nat /\ n \in D /\ Len(G) \in Nat
  <2>1. p \in 1 .. Len(G) /\ p \in Nat
    BY AtIs
  <2>2. n \in D
    BY DEF At
  <2> QED BY <1>0, <2>1, <2>2, NodeIs
<1>3. ASSUME NEW v \in D, NEW d \in 1 .. Size(t, v) + 2, B[v][d] = p, v # n,
             Lo(B[v]) # p, Hi(B[v]) # p
      PROVE  FALSE
  <2>1. Bounds(B[v], Size(t, v))
    BY <1>0, NodeIs
  <2>2. d # 1 /\ d # Size(t, v) + 2 /\ Size(t, v) \in Nat
    BY <1>3, <2>1 DEF Bounds
  <2>3. d - 1 \in 1 .. Size(t, v) /\ (d - 1) + 1 = d
    BY <2>2
  <2>4. At(t, B, v, d - 1, p)
    BY <1>3, <2>3 DEF At
  <2> QED BY <1>3, <2>4, OnePlace
<1>4. ASSUME bad # {} PROVE FALSE
  <2>1. PICK x \in bad : \A w \in bad : h[w] <= h[x]
    <3>1. bad \in SUBSET D
      OBVIOUS
    <3> HIDE DEF bad, D
    <3> QED BY <1>1, <1>4, <3>1, HighestOf
  <2>2. x \in D /\ (Lo(B[x]) = p \/ Hi(B[x]) = p)
    OBVIOUS
  <2>3. x # t.root
    <3>1. p # 0 /\ p # Len(G) + 1
      BY <1>2
    <3>2. t.root # NULL
      BY <1>0, <1>1, NodeIs
    <3>3. Lo(B[t.root]) = 0 /\ Hi(B[t.root]) = Len(G) + 1
      BY <1>0, <3>2 DEF Layout
    <3> QED BY <2>2, <3>1, <3>3
  <2>4. PICK v \in D : v = t.nodes[x].parent /\ h[v] = h[x] + 1
    BY <1>0, <2>2, <2>3, ParentIs
  <2>5. PICK d \in 1 .. Size(t, v) + 1 : IsKid(t, h, B, v, d, x)
    BY <1>0, <2>2, <2>4, KidOf
  <2>6. B[v][d] = p \/ B[v][d + 1] = p
    BY <2>2, <2>5 DEF IsKid
  <2>7. v \notin bad
    <3>1. ~ (h[v] <= h[x])
      BY <1>1, <2>2, <2>4
    <3> QED BY <2>1, <3>1
  <2>8. v # n
    BY <1>1, <2>2, <2>4
  <2>9. Size(t, v) \in Nat
    BY <1>0, NodeIs DEF Bounds
  <2>10. d \in 1 .. Size(t, v) + 2 /\ d + 1 \in 1 .. Size(t, v) + 2
    BY <2>9
  <2> QED BY <1>3, <2>6, <2>7, <2>8, <2>10
<1> QED BY <1>3, <1>4
--------------------------------------------------------------------------------
(* The elements in order *)

PlaceAt(t, B, p) == CHOOSE q \in Nat \X Nat : At(t, B, q[1], q[2], p)

\* PlaceAt is the place of a position.
LEMMA PlaceAtIs ==
    ASSUME NEW t, NEW h, NEW B, NEW G, Standing(t, h, B, G), NEW p,
           NEW y, NEW c, At(t, B, y, c, p)
    PROVE  PlaceAt(t, B, p) = <<y, c>> /\ <<y, c>> \in Nat \X Nat
<1>1. c \in Nat /\ y \in Nat
  <2>1. y \in Nodes(t) /\ IsTree(t)
    BY DEF At, Standing
  <2> QED BY <2>1, AtIs DEF IsTree
<1>2. <<y, c>> \in Nat \X Nat /\ <<y, c>>[1] = y /\ <<y, c>>[2] = c
  BY <1>1
<1>3. \A q \in Nat \X Nat : At(t, B, q[1], q[2], p) => q = <<y, c>>
  <2> SUFFICES ASSUME NEW q \in Nat \X Nat, At(t, B, q[1], q[2], p) PROVE q = <<y, c>>
    OBVIOUS
  <2>1. q[1] = y /\ q[2] = c
    BY OnePlace
  <2> QED BY <2>1
<1> QED BY <1>2, <1>3 DEF PlaceAt

\* Each position of the list has its place there.
LEMMA PlaceFound ==
    ASSUME NEW t, NEW h, NEW B, NEW G, Standing(t, h, B, G), NEW p \in 1 .. Len(G)
    PROVE  \E y \in Nodes(t), c \in Nat : At(t, B, y, c, p) /\ PlaceAt(t, B, p) = <<y, c>>
<1>1. PICK y \in Nodes(t), c \in Nat : At(t, B, y, c, p)
  BY PlaceExists
<1>2. PlaceAt(t, B, p) = <<y, c>> /\ <<y, c>> \in Nat \X Nat
  BY <1>1, PlaceAtIs, Zenon
<1> QED BY <1>1, <1>2

\* The places between two positions.
Piece(t, B, lo, hi) == [j \in 1 .. hi - lo - 1 |-> PlaceAt(t, B, lo + j)]

IsPiece(w, t, B, lo, hi) ==
    /\ w \in Seq(Nat \X Nat) /\ Len(w) = hi - lo - 1
    /\ \A j \in 1 .. hi - lo - 1 : w[j] = PlaceAt(t, B, lo + j)

\* A piece has one place for each position strictly between its ends.
LEMMA PieceIs ==
    ASSUME NEW t, NEW h, NEW B, NEW G, Standing(t, h, B, G),
           NEW lo \in Nat, NEW hi \in Nat, lo < hi, hi <= Len(G) + 1
    PROVE  IsPiece(Piece(t, B, lo, hi), t, B, lo, hi)
<1>1. Len(G) \in Nat
  BY DEF Standing, Layout
<1>2. ASSUME NEW j \in 1 .. hi - lo - 1 PROVE PlaceAt(t, B, lo + j) \in Nat \X Nat
  <2>1. lo + j \in 1 .. Len(G)
    BY <1>1
  <2>2. PICK y \in Nodes(t), c \in Nat : At(t, B, y, c, lo + j)
    BY <2>1, PlaceFound
  <2>3. PlaceAt(t, B, lo + j) = <<y, c>> /\ <<y, c>> \in Nat \X Nat
    BY <2>2, PlaceAtIs, Zenon
  <2> QED BY <2>3
<1>3. hi - lo - 1 \in Nat
  OBVIOUS
<1> QED BY <1>2, <1>3 DEF Piece, IsPiece

Grown(left, y, c, right) == left \o <<<<y, c>>>> \o right

\* The pieces left and right of an element, and it between them, are one piece.
LEMMA PieceGrows ==
    ASSUME NEW t, NEW h, NEW B, NEW G, Standing(t, h, B, G),
           NEW lo \in Nat, NEW mid \in Nat, NEW hi \in Nat, lo < mid, mid < hi, hi <= Len(G) + 1,
           NEW y, NEW c, At(t, B, y, c, mid)
    PROVE  Grown(Piece(t, B, lo, mid), y, c, Piece(t, B, mid, hi)) = Piece(t, B, lo, hi)
<1>1. Len(G) \in Nat
  BY DEF Standing, Layout
<1>2. mid <= Len(G) + 1 /\ lo < hi
  BY <1>1
<1> DEFINE left == Piece(t, B, lo, mid)
           right == Piece(t, B, mid, hi)
           whole == Piece(t, B, lo, hi)
           glued == left \o <<<<y, c>>>> \o right
           X == mid - lo - 1
           Z == hi - mid - 1
<1>3. IsPiece(left, t, B, lo, mid) /\ IsPiece(right, t, B, mid, hi) /\ IsPiece(whole, t, B, lo, hi)
  BY <1>2, PieceIs, Zenon
<1>4. <<y, c>> \in Nat \X Nat /\ PlaceAt(t, B, mid) = <<y, c>>
  BY PlaceAtIs
<1> HIDE DEF left, right, whole
<1>5. Glues(glued, Nat \X Nat, left, <<y, c>>, right)
  <2>1. left \in Seq(Nat \X Nat) /\ right \in Seq(Nat \X Nat)
    BY <1>3 DEF IsPiece
  <2> QED BY <1>4, <2>1, GluedOf, Zenon
<1>6. X \in Nat /\ Z \in Nat /\ hi - lo - 1 = X + 1 + Z /\ lo + (X + 1) = mid
  OBVIOUS
<1> HIDE DEF glued
<1>7. /\ left \in Seq(Nat \X Nat) /\ Len(left) = X /\ \A j \in 1 .. X : left[j] = PlaceAt(t, B, lo + j)
      /\ right \in Seq(Nat \X Nat) /\ Len(right) = Z /\ \A j \in 1 .. Z : right[j] = PlaceAt(t, B, mid + j)
  BY <1>3 DEF IsPiece
<1>8. /\ whole \in Seq(Nat \X Nat) /\ Len(whole) = X + 1 + Z
      /\ \A j \in 1 .. X + 1 + Z : whole[j] = PlaceAt(t, B, lo + j)
  <2> HIDE DEF X, Z
  <2> QED BY <1>3, <1>6 DEF IsPiece
<1> HIDE DEF X, Z
<1>9. /\ glued \in Seq(Nat \X Nat) /\ Len(glued) = X + 1 + Z
      /\ \A j \in 1 .. X : glued[j] = left[j]
      /\ glued[X + 1] = <<y, c>>
      /\ \A j \in 1 .. Z : glued[X + 1 + j] = right[j]
  BY <1>5, <1>7 DEF Glues
<1>10. ASSUME NEW j \in 1 .. X + 1 + Z PROVE glued[j] = PlaceAt(t, B, lo + j)
  <2>1. CASE j <= X
    <3>1. j \in 1 .. X
      BY <1>6, <2>1
    <3> QED BY <1>7, <1>9, <3>1
  <2>2. CASE j = X + 1
    BY <1>4, <1>6, <1>9, <2>2, Zenon
  <2>3. CASE ~ (j <= X) /\ j # X + 1
    <3>1. j - (X + 1) \in 1 .. Z /\ mid + (j - (X + 1)) = lo + j /\ X + 1 + (j - (X + 1)) = j
      BY <1>6, <2>3
    <3>2. right[j - (X + 1)] = PlaceAt(t, B, lo + j)
      BY <1>7, <3>1
    <3>3. glued[j] = right[j - (X + 1)]
      BY <1>9, <3>1
    <3> QED BY <3>2, <3>3
  <2> QED BY <2>1, <2>2, <2>3
<1>11. Len(glued) = Len(whole) /\ \A j \in 1 .. Len(glued) : glued[j] = whole[j]
  BY <1>8, <1>9, <1>10
<1>12. glued = whole
  BY <1>8, <1>9, <1>11, SameItems
<1> QED BY <1>12 DEF glued, left, right, whole, Grown

\* The functions of InOrder: a turn of each, and what they come to.
ToTurn(t, f, n, to) ==
    [c \in DOMAIN t.nodes[n].kids |->
        IF c = 1 THEN f[t.nodes[n].kids[1]]
        ELSE Grown(to[c - 1], n, c - 1, f[t.nodes[n].kids[c]])]
AllTo(t, f, n) == CHOOSE to : to = ToTurn(t, f, n, to)
BelowTurn(t, f) ==
    [n \in DOMAIN t.nodes \cup {NULL} |->
        IF n = NULL THEN <<>> ELSE AllTo(t, f, n)[Len(t.nodes[n].kids)]]
Below(t) == CHOOSE f : f = BelowTurn(t, f)

Span(t, B, n) == IF n = NULL THEN <<>> ELSE Piece(t, B, Lo(B[n]), Hi(B[n]))

\* InOrder with its local functions replaced by those above.
LEMMA InOrderIsBelow == ASSUME NEW t PROVE InOrder(t) = Below(t)[t.root]
BY DEF InOrder, Below, BelowTurn, AllTo, ToTurn, Grown

\* There is no position between two that are adjacent.
LEMMA NoPiece == ASSUME NEW t, NEW B, NEW lo \in Nat PROVE Piece(t, B, lo, lo + 1) = <<>>
<1>1. 1 .. (lo + 1) - lo - 1 = {}
  OBVIOUS
<1> QED BY <1>1 DEF Piece

\* A kid spans the slot it is in.
LEMMA KidSpan ==
    ASSUME NEW t, NEW h, NEW B, NEW G, Standing(t, h, B, G),
           NEW n \in Nodes(t), NEW c \in 1 .. Size(t, n) + 1
    PROVE  /\ Span(t, B, t.nodes[n].kids[c]) = Piece(t, B, B[n][c], B[n][c + 1])
           /\ t.nodes[n].kids[c] \in Nodes(t) \cup {NULL}
           /\ t.nodes[n].kids[c] # NULL => h[t.nodes[n].kids[c]] < h[n]
<1> DEFINE k == t.nodes[n].kids[c]
<1>0. IsTree(t) /\ Layout(t, h, B, G) /\ Linked(t)
  BY DEF Standing
<1>1. Bounds(B[n], Size(t, n)) /\ h[n] \in Nat
  BY <1>0, NodeIs
<1>2. B[n][c] \in Nat
  BY <1>1, SlotIs
<1>3. CASE h[n] = 0
  <2>1. k = NULL /\ B[n][c + 1] = B[n][c] + 1
    BY <1>0, <1>3, KidIs
  <2>2. Piece(t, B, B[n][c], B[n][c + 1]) = <<>>
    BY <1>2, <2>1, NoPiece
  <2> QED BY <2>1, <2>2 DEF Span
<1>4. CASE h[n] # 0
  <2>1. IsKid(t, h, B, n, c, k)
    BY <1>0, <1>4, KidIs
  <2>2. k \in Nodes(t) /\ Lo(B[k]) = B[n][c] /\ Hi(B[k]) = B[n][c + 1] /\ h[k] = h[n] - 1
    BY <2>1 DEF IsKid
  <2>3. k # NULL
    BY <1>0, <2>2, NodeIs
  <2>4. h[k] < h[n]
    BY <1>1, <2>2
  <2> HIDE DEF k
  <2>5. Span(t, B, k) = Piece(t, B, B[n][c], B[n][c + 1])
    BY <2>2, <2>3 DEF Span
  <2> QED BY <2>2, <2>4, <2>5 DEF k
<1> QED BY <1>3, <1>4

\* If f has the spans of the kids of a node, the node gets its span.
LEMMA AllToIs ==
    ASSUME NEW t, NEW h, NEW B, NEW G, Standing(t, h, B, G), NEW n \in Nodes(t), NEW f,
           \A c \in 1 .. Size(t, n) + 1 : f[t.nodes[n].kids[c]] = Span(t, B, t.nodes[n].kids[c])
    PROVE  AllTo(t, f, n)[Len(t.nodes[n].kids)] = Span(t, B, n)
<1> DEFINE b == B[n]
           kids == t.nodes[n].kids
           g == [c \in 1 .. Len(kids) |-> Piece(t, B, b[1], b[c + 1])]
           all == AllTo(t, f, n)
<1>0. IsTree(t) /\ Layout(t, h, B, G) /\ Linked(t)
  BY DEF Standing
<1>1. /\ Bounds(b, Size(t, n)) /\ n # NULL /\ Hi(b) <= Len(G) + 1 /\ Len(G) \in Nat
      /\ t.nodes[n] \in Node234 /\ NodeFits(h, B, G, t.nodes[n], B[n], h[n])
  BY <1>0, NodeIs
<1>1b. \A c \in 1 .. Size(t, n) + 1 : f[kids[c]] = Span(t, B, kids[c])
  OBVIOUS
<1>2. PICK k \in Nat : k = Size(t, n)
  BY <1>1 DEF Bounds
<1>3. Len(kids) = k + 1 /\ DOMAIN kids = 1 .. k + 1
  BY <1>1, <1>2, PartsAre DEF Size
<1>4. Bounds(b, k)
  BY <1>1, <1>2
<1>5. \A c \in 1 .. k + 1 : f[kids[c]] = Piece(t, B, b[c], b[c + 1])
  <2>1. \A c \in 1 .. Size(t, n) + 1 : Span(t, B, kids[c]) = Piece(t, B, b[c], b[c + 1])
    BY KidSpan
  <2> HIDE DEF b, kids
  <2> QED BY <1>1b, <1>2, <2>1, Zenon
<1> HIDE DEF kids
<1>6. g = [c \in 1 .. k + 1 |-> g[c]] /\ \A c \in 1 .. k + 1 : g[c] = Piece(t, B, b[1], b[c + 1])
  BY <1>3
<1>6a. b = B[n]
  OBVIOUS
<1> HIDE DEF g, all, b
<1>7. ASSUME NEW c \in 2 .. k + 1
      PROVE  g[c] = Grown(g[c - 1], n, c - 1, f[kids[c]])
  <2>1. c - 1 \in 1 .. k + 1 /\ (c - 1) + 1 = c /\ c - 1 \in 1 .. k /\ c \in 1 .. k + 1 /\ 1 \in 1 .. k + 1
    OBVIOUS
  <2>2. At(t, B, n, c - 1, b[c])
    BY <1>2, <1>6a, <2>1 DEF At
  <2>3. b[c] \in Nat /\ b[c + 1] \in Nat /\ b[c] < b[c + 1] /\ b[c + 1] <= Hi(b) /\ Hi(b) \in Nat
    BY <1>4, <2>1, SlotIs
  <2>4. b[1] \in Nat /\ b[1] < b[c]
    <3>1. Lo(b) < b[(c - 1) + 1] /\ Lo(b) \in Nat
      BY <1>4, <2>1, InnerIs
    <3> QED BY <2>1, <3>1 DEF Lo
  <2>5. b[c + 1] <= Len(G) + 1
    BY <1>1, <2>3
  <2>6. Grown(Piece(t, B, b[1], b[c]), n, c - 1, Piece(t, B, b[c], b[c + 1]))
        = Piece(t, B, b[1], b[c + 1])
    BY <2>2, <2>3, <2>4, <2>5, PieceGrows
  <2>7. g[c] = Piece(t, B, b[1], b[c + 1]) /\ g[c - 1] = Piece(t, B, b[1], b[c])
    BY <1>6, <2>1, Zenon
  <2>8. f[kids[c]] = Piece(t, B, b[c], b[c + 1])
    BY <1>5, <2>1, Zenon
  <2> QED BY <2>6, <2>7, <2>8, Zenon
<1>8. g[1] = f[kids[1]]
  <2>1. 1 \in 1 .. k + 1
    OBVIOUS
  <2> QED BY <1>5, <1>6, <2>1, Zenon
<1>9. g = ToTurn(t, f, n, g)
  <2>1. \A c \in 1 .. k + 1 : c = 1 \/ c \in 2 .. k + 1
    OBVIOUS
  <2>2. \A c \in 1 .. k + 1 :
            g[c] = IF c = 1 THEN f[kids[1]] ELSE Grown(g[c - 1], n, c - 1, f[kids[c]])
    BY <1>7, <1>8, <2>1, Zenon
  <2> QED BY <1>3, <1>6, <2>2, Zenon DEF ToTurn, kids
<1>10. all = ToTurn(t, f, n, all)
  BY <1>9, Zenon DEF AllTo, all
<1>11. /\ all = [c \in 1 .. k + 1 |-> all[c]]
       /\ all[1] = f[kids[1]]
       /\ \A c \in 2 .. k + 1 : all[c] = Grown(all[c - 1], n, c - 1, f[kids[c]])
  <2>1. \A c \in 1 .. k + 1 :
            all[c] = IF c = 1 THEN f[kids[1]] ELSE Grown(all[c - 1], n, c - 1, f[kids[c]])
    BY <1>3, <1>10, Zenon DEF ToTurn, kids
  <2>2. all = [c \in 1 .. k + 1 |-> all[c]]
    BY <1>3, <1>10, <2>1, Zenon DEF ToTurn, kids
  <2>3. 1 \in 1 .. k + 1 /\ \A c \in 2 .. k + 1 : c \in 1 .. k + 1 /\ c # 1
    OBVIOUS
  <2> QED BY <2>1, <2>2, <2>3, Zenon
<1>12. all = g
  <2>1. all[1] = g[1] /\ k + 1 \in Nat
    BY <1>8, <1>11
  <2>2. \A c \in 2 .. k + 1 : all[c - 1] = g[c - 1] => all[c] = g[c]
    BY <1>7, <1>11, Zenon
  <2>3. RunsTo(k + 1, all) /\ RunsTo(k + 1, g)
    BY <1>6, <1>11, Zenon DEF RunsTo
  <2> QED BY <2>1, <2>2, <2>3, SameRuns, Zenon
<1>13. g[k + 1] = Piece(t, B, Lo(b), Hi(b))
  <2>1. k + 1 \in 1 .. k + 1 /\ (k + 1) + 1 = k + 2
    OBVIOUS
  <2>2. Lo(b) = b[1] /\ Hi(b) = b[k + 2]
    BY <1>4 DEF Bounds
  <2> QED BY <1>6, <2>1, <2>2
<1> QED BY <1>1, <1>3, <1>12, <1>13, Zenon DEF Span, all, kids, b

\* What is below a node is its span, by induction over the heights.
LEMMA BelowIs ==
    ASSUME NEW t, NEW h, NEW B, NEW G, Standing(t, h, B, G), NEW n \in Nodes(t) \cup {NULL}
    PROVE  Below(t)[n] = Span(t, B, n)
<1> DEFINE D == Nodes(t)
           g == [z \in DOMAIN t.nodes \cup {NULL} |-> Span(t, B, z)]
           f == Below(t)
<1>0. IsTree(t) /\ Layout(t, h, B, G) /\ Linked(t)
  BY DEF Standing
<1>0a. h \in [D -> Nat] /\ NULL \notin D /\ D = DOMAIN t.nodes
  <2>1. NULL \notin D
    BY <1>0, NodeIs
  <2> QED BY <1>0, <2>1 DEF Layout, Nodes
<1>1. \A y \in D : \A c \in 1 .. Size(t, y) + 1 :
          /\ t.nodes[y].kids[c] \in D \cup {NULL}
          /\ t.nodes[y].kids[c] # NULL => h[t.nodes[y].kids[c]] < h[y]
  BY KidSpan
<1>2. \A y \in D \cup {NULL} : g[y] = Span(t, B, y)
  BY <1>0a
<1>3. Span(t, B, NULL) = <<>>
  BY DEF Span
<1>4. g = BelowTurn(t, g)
  <2>1. ASSUME NEW y \in D PROVE AllTo(t, g, y)[Len(t.nodes[y].kids)] = Span(t, B, y)
    <3>1. \A c \in 1 .. Size(t, y) + 1 : g[t.nodes[y].kids[c]] = Span(t, B, t.nodes[y].kids[c])
      BY <1>1, <1>2
    <3> HIDE DEF g
    <3> QED BY <3>1, AllToIs
  <2>2. \A y \in D \cup {NULL} :
            Span(t, B, y) = IF y = NULL THEN <<>> ELSE AllTo(t, g, y)[Len(t.nodes[y].kids)]
    BY <1>0a, <1>3, <2>1
  <2> QED BY <1>0a, <2>2 DEF BelowTurn
<1> HIDE DEF g
<1>5. f = BelowTurn(t, f)
  BY <1>4, Zenon DEF Below
<1> HIDE DEF f
<1>6. /\ f[NULL] = <<>>
      /\ \A y \in D : f[y] = AllTo(t, f, y)[Len(t.nodes[y].kids)]
  <2>1. \A y \in D \cup {NULL} : f[y] = IF y = NULL THEN <<>> ELSE AllTo(t, f, y)[Len(t.nodes[y].kids)]
    BY <1>0a, <1>5, Zenon DEF BelowTurn
  <2> HIDE DEF D
  <2>2. NULL \in D \cup {NULL} /\ \A y \in D : y \in D \cup {NULL} /\ y # NULL
    BY <1>0a
  <2> QED BY <2>1, <2>2, Zenon
<1> DEFINE bad == {y \in D : f[y] # Span(t, B, y)}
<1>7. ASSUME bad # {} PROVE FALSE
  <2>1. PICK y \in bad : \A z \in bad : h[y] <= h[z]
    <3>1. bad \in SUBSET D
      OBVIOUS
    <3> HIDE DEF bad, D
    <3> QED BY <1>0a, <1>7, <3>1, LowestOf
  <2>2. y \in D /\ f[y] # Span(t, B, y)
    OBVIOUS
  <2>3. ASSUME NEW c \in 1 .. Size(t, y) + 1
        PROVE  f[t.nodes[y].kids[c]] = Span(t, B, t.nodes[y].kids[c])
    <3>1. CASE t.nodes[y].kids[c] = NULL
      BY <1>3, <1>6, <3>1
    <3>2. CASE t.nodes[y].kids[c] # NULL
      <4>1. t.nodes[y].kids[c] \in D /\ h[t.nodes[y].kids[c]] < h[y]
        BY <1>1, <2>2, <3>2
      <4>2. h[y] \in Nat /\ h[t.nodes[y].kids[c]] \in Nat
        BY <1>0a, <2>2, <4>1
      <4>3. t.nodes[y].kids[c] \notin bad
        BY <2>1, <4>1, <4>2
      <4> QED BY <4>1, <4>3
    <3> QED BY <3>1, <3>2
  <2>4. AllTo(t, f, y)[Len(t.nodes[y].kids)] = Span(t, B, y)
    BY <2>2, <2>3, AllToIs
  <2> QED BY <1>6, <2>2, <2>4
<1> QED BY <1>3, <1>6, <1>7 DEF f

\* The places below a node, whatever root a tree with these nodes is given.
LEMMA InOrderIs ==
    ASSUME NEW t, NEW h, NEW B, NEW G, Standing(t, h, B, G),
           NEW u, u.nodes = t.nodes, u.root \in Nodes(t) \cup {NULL}
    PROVE  InOrder(u) = Span(t, B, u.root)
<1>1. InOrder(u) = Below(u)[u.root]
  BY InOrderIsBelow
<1>2. Below(u) = Below(t)
  BY DEF Below, BelowTurn, AllTo, ToTurn
<1> QED BY <1>1, <1>2, BelowIs

Counted(t, B) == \A y \in Nodes(t) : Exact(t.nodes[y], B[y])
Sized(t) == \A y \in Nodes(t) : Size(t, y) \in 1 .. 3
Whole(t, h, B, G) == Standing(t, h, B, G) /\ Counted(t, B) /\ Sized(t) /\ (t.sorted => Increasing(G))

\* The places, and the list they make.
LEMMA PlacesAre ==
    ASSUME NEW t, NEW h, NEW B, NEW G, Standing(t, h, B, G)
    PROVE  /\ InOrder(t) \in Seq(Nat \X Nat) /\ Len(InOrder(t)) = Len(G)
           /\ \A p \in 1 .. Len(G) : InOrder(t)[p] = PlaceAt(t, B, p)
<1>0. IsTree(t) /\ Layout(t, h, B, G) /\ Linked(t)
  BY DEF Standing
<1>1. Len(G) \in Nat
  BY <1>0 DEF Layout
<1>2. CASE t.root = NULL
  <2>1. Len(G) = 0
    BY <1>0, <1>2 DEF Layout
  <2>2. InOrder(t) = <<>>
    BY <1>2, InOrderIs DEF Span
  <2> QED BY <2>1, <2>2
<1>3. CASE t.root # NULL
  <2>1. t.root \in Nodes(t) /\ Lo(B[t.root]) = 0 /\ Hi(B[t.root]) = Len(G) + 1
    BY <1>0, <1>3 DEF Layout
  <2>2. InOrder(t) = Piece(t, B, 0, Len(G) + 1)
    BY <1>3, <2>1, InOrderIs DEF Span
  <2>3. IsPiece(Piece(t, B, 0, Len(G) + 1), t, B, 0, Len(G) + 1)
    <3>1. 0 \in Nat /\ Len(G) + 1 \in Nat /\ 0 < Len(G) + 1 /\ Len(G) + 1 <= Len(G) + 1
      BY <1>1
    <3> QED BY <3>1, PieceIs
  <2>4. (Len(G) + 1) - 0 - 1 = Len(G) /\ \A p \in 1 .. Len(G) : 0 + p = p
    BY <1>1
  <2> QED BY <2>2, <2>3, <2>4 DEF IsPiece
<1> QED BY <1>2, <1>3

\* The list of a tree that stands for G is G.
LEMMA ElementsAre ==
    ASSUME NEW t, NEW h, NEW B, NEW G, Standing(t, h, B, G)
    PROVE  Elements(t) = G
<1> DEFINE w == InOrder(t)
<1>1. w \in Seq(Nat \X Nat) /\ Len(w) = Len(G) /\ \A p \in 1 .. Len(G) : w[p] = PlaceAt(t, B, p)
  BY PlacesAre
<1>2. G \in Seq(Int) /\ Len(G) \in Nat
  BY DEF Standing, Layout
<1>3. Elements(t) = [i \in DOMAIN w |-> t.nodes[w[i][1]].elems[w[i][2]]]
  BY DEF Elements
<1>4. DOMAIN w = 1 .. Len(G) /\ DOMAIN G = 1 .. Len(G)
  BY <1>1, <1>2
<1>5. ASSUME NEW p \in 1 .. Len(G) PROVE t.nodes[w[p][1]].elems[w[p][2]] = G[p]
  <2>1. PICK y \in Nodes(t), c \in Nat : At(t, B, y, c, p) /\ PlaceAt(t, B, p) = <<y, c>>
    BY PlaceFound
  <2>2. w[p][1] = y /\ w[p][2] = c
    BY <1>1, <2>1
  <2>3. t.nodes[y].elems[c] = G[p]
    BY <2>1, AtIs
  <2> QED BY <2>2, <2>3
<1> HIDE DEF w
<1>6. G = [p \in 1 .. Len(G) |-> G[p]]
  BY <1>2
<1> QED BY <1>3, <1>4, <1>5, <1>6
--------------------------------------------------------------------------------
(* Counts *)

\* countnode234 of a node with the right counts is the number of positions in it.
LEMMA NodeCount ==
    ASSUME NEW t, NEW h, NEW B, NEW G, Standing(t, h, B, G), NEW n \in Nodes(t),
           Exact(t.nodes[n], B[n])
    PROVE  countnode234(t, n) = Hi(B[n]) - Lo(B[n]) - 1
<1>0. IsTree(t) /\ Layout(t, h, B, G) /\ Linked(t)
  BY DEF Standing
<1>1. /\ B[n] \in Seq(Nat) /\ Bounds(B[n], Size(t, n)) /\ t.nodes[n] \in Node234
      /\ NodeFits(h, B, G, t.nodes[n], B[n], h[n])
  BY <1>0, NodeIs
<1>2. Len(t.nodes[n].counts) = Size(t, n) + 1 /\ Size(t, n) \in Nat
  BY <1>1, PartsAre DEF Size
<1>3. Len(B[n]) = Size(t, n) + 2
  BY <1>1 DEF Bounds
<1>4. Len(B[n]) = Len(t.nodes[n].counts) + 1 /\ Len(t.nodes[n].counts) >= 1
  BY <1>2, <1>3
<1> QED BY <1>0, <1>1, <1>4, CountIs

\* A tree with the right counts says that it has as many elements as its list.
LEMMA CountAll ==
    ASSUME NEW t, NEW h, NEW B, NEW G, Standing(t, h, B, G), Counted(t, B)
    PROVE  count234(t) = Len(G) /\ countnode234(t, t.root) = Len(G)
<1>1. CASE t.root = NULL
  <2>1. Len(G) = 0
    BY <1>1 DEF Standing, Layout
  <2> QED BY <1>1, <2>1, NoNodeNoCount DEF count234
<1>2. CASE t.root # NULL
  <2>1. /\ t.root \in Nodes(t) /\ Lo(B[t.root]) = 0 /\ Hi(B[t.root]) = Len(G) + 1
        /\ Len(G) \in Nat
    BY <1>2 DEF Standing, Layout
  <2>2. countnode234(t, t.root) = Hi(B[t.root]) - Lo(B[t.root]) - 1
    BY <2>1, NodeCount DEF Counted
  <2> QED BY <2>1, <2>2 DEF count234
<1> QED BY <1>1, <1>2
--------------------------------------------------------------------------------
(* Depths *)

DepthTurn(t, f) ==
    [n \in DOMAIN t.nodes |->
        IF IsLeaf(t.nodes[n]) THEN {1}
        ELSE {d + 1 : d \in UNION {f[k] : k \in ToSet(t.nodes[n].kids)}}]
DepthsFrom(t) == CHOOSE f : f = DepthTurn(t, f)

\* Depths with its local function replaced by the one above.
LEMMA DepthsIs == ASSUME NEW t PROVE Depths(t) = DepthsFrom(t)[t.root]
BY DEF Depths, DepthsFrom, DepthTurn

\* The leaves are the nodes of height 0.
LEMMA LeafIs ==
    ASSUME NEW t, NEW h, NEW B, NEW G, Standing(t, h, B, G), NEW n \in Nodes(t)
    PROVE  IsLeaf(t.nodes[n]) <=> h[n] = 0
<1>0. IsTree(t) /\ Layout(t, h, B, G) /\ Linked(t)
  BY DEF Standing
<1>1. 1 \in 1 .. Size(t, n) + 1
  <2>1. Bounds(B[n], Size(t, n))
    BY <1>0, NodeIs
  <2> QED BY <2>1 DEF Bounds
<1>2. CASE h[n] = 0
  BY <1>0, <1>1, <1>2, KidIs DEF IsLeaf
<1>3. CASE h[n] # 0
  <2>1. t.nodes[n].kids[1] \in Nodes(t)
    BY <1>0, <1>1, <1>3, KidIs DEF IsKid
  <2>2. t.nodes[n].kids[1] # NULL
    BY <1>0, <2>1, NodeIs
  <2> QED BY <1>3, <2>2 DEF IsLeaf
<1> QED BY <1>2, <1>3

\* All kids of a node that is no leaf have one depth less.
LEMMA KidsAre ==
    ASSUME NEW t, NEW h, NEW B, NEW G, Standing(t, h, B, G), NEW n \in Nodes(t), h[n] # 0
    PROVE  /\ ToSet(t.nodes[n].kids) \in SUBSET Nodes(t) /\ ToSet(t.nodes[n].kids) # {}
           /\ \A k \in ToSet(t.nodes[n].kids) : h[k] = h[n] - 1
<1>0. IsTree(t) /\ Layout(t, h, B, G) /\ Linked(t)
  BY DEF Standing
<1>1. /\ Bounds(B[n], Size(t, n)) /\ t.nodes[n] \in Node234
      /\ NodeFits(h, B, G, t.nodes[n], B[n], h[n])
  BY <1>0, NodeIs
<1>2. DOMAIN t.nodes[n].kids = 1 .. Size(t, n) + 1 /\ Size(t, n) \in Nat
  BY <1>1, PartsAre DEF Size
<1>3. ToSet(t.nodes[n].kids) = {t.nodes[n].kids[c] : c \in 1 .. Size(t, n) + 1}
  BY <1>2 DEF ToSet
<1>4. \A c \in 1 .. Size(t, n) + 1 : IsKid(t, h, B, n, c, t.nodes[n].kids[c])
  BY <1>0, KidIs
<1>5. 1 \in 1 .. Size(t, n) + 1
  BY <1>2
<1> QED BY <1>3, <1>4, <1>5 DEF IsKid

\* All leaves below a node are as deep as it is high, by induction over the heights.
LEMMA DepthsAre ==
    ASSUME NEW t, NEW h, NEW B, NEW G, Standing(t, h, B, G), NEW n \in Nodes(t)
    PROVE  DepthsFrom(t)[n] = {h[n] + 1}
<1> DEFINE D == Nodes(t)
           g == [z \in DOMAIN t.nodes |-> {h[z] + 1}]
           f == DepthsFrom(t)
<1>1. h \in [D -> Nat] /\ D = DOMAIN t.nodes /\ \A y \in D : h[y] \in Nat
  BY DEF Standing, Layout, Nodes
<1>2. ASSUME NEW e, NEW y \in D, h[y] # 0, \A k \in ToSet(t.nodes[y].kids) : e[k] = {h[k] + 1}
      PROVE  {d + 1 : d \in UNION {e[k] : k \in ToSet(t.nodes[y].kids)}} = {h[y] + 1}
  <2> DEFINE K == ToSet(t.nodes[y].kids)
  <2>1. K # {} /\ \A k \in K : h[k] = h[y] - 1
    BY <1>2, KidsAre
  <2>2. h[y] \in Nat
    BY <1>1
  <2> HIDE DEF K
  <2>3. \A k \in K : e[k] = {h[y]}
    <3> SUFFICES ASSUME NEW k \in K PROVE e[k] = {h[y]}
      OBVIOUS
    <3>1. e[k] = {h[k] + 1} /\ h[k] = h[y] - 1
      BY <1>2, <2>1 DEF K
    <3>2. h[k] + 1 = h[y]
      BY <2>2, <3>1
    <3> QED BY <3>1, <3>2
  <2>4. UNION {e[k] : k \in K} = {h[y]}
    BY <2>1, <2>3
  <2>5. {d + 1 : d \in {h[y]}} = {h[y] + 1}
    OBVIOUS
  <2>6. {d + 1 : d \in UNION {e[k] : k \in K}} = {h[y] + 1}
    BY <2>4, <2>5
  <2> QED BY <2>6 DEF K
<1>3. g = DepthTurn(t, g)
  <2>1. ASSUME NEW y \in D
        PROVE  {h[y] + 1} = IF IsLeaf(t.nodes[y]) THEN {1}
                            ELSE {d + 1 : d \in UNION {g[k] : k \in ToSet(t.nodes[y].kids)}}
    <3>1. CASE h[y] = 0
      <4>1. IsLeaf(t.nodes[y])
        BY <3>1, LeafIs
      <4> QED BY <3>1, <4>1
    <3>2. CASE h[y] # 0
      <4>1. ~ IsLeaf(t.nodes[y])
        BY <3>2, LeafIs
      <4>2. \A k \in ToSet(t.nodes[y].kids) : k \in DOMAIN t.nodes
        BY <1>1, <3>2, KidsAre
      <4>3. \A k \in ToSet(t.nodes[y].kids) : g[k] = {h[k] + 1}
        BY <4>2
      <4> HIDE DEF g
      <4>4. {d + 1 : d \in UNION {g[k] : k \in ToSet(t.nodes[y].kids)}} = {h[y] + 1}
        BY <1>2, <3>2, <4>3
      <4> QED BY <4>1, <4>4
    <3> QED BY <3>1, <3>2
  <2> QED BY <1>1, <2>1, Zenon DEF DepthTurn
<1> HIDE DEF g
<1>4. f = DepthTurn(t, f)
  BY <1>3, Zenon DEF DepthsFrom
<1> HIDE DEF f
<1>5. \A y \in D : f[y] = IF IsLeaf(t.nodes[y]) THEN {1}
                          ELSE {d + 1 : d \in UNION {f[k] : k \in ToSet(t.nodes[y].kids)}}
  BY <1>1, <1>4, Zenon DEF DepthTurn
<1> DEFINE bad == {y \in D : f[y] # {h[y] + 1}}
<1>6. ASSUME bad # {} PROVE FALSE
  <2>1. PICK y \in bad : \A z \in bad : h[y] <= h[z]
    <3>1. bad \in SUBSET D
      OBVIOUS
    <3> HIDE DEF bad, D
    <3> QED BY <1>1, <1>6, <3>1, LowestOf
  <2>2. y \in D /\ f[y] # {h[y] + 1} /\ h[y] \in Nat
    BY <1>1
  <2>3. CASE h[y] = 0
    <3>1. IsLeaf(t.nodes[y])
      BY <2>2, <2>3, LeafIs
    <3>2. f[y] = {1}
      BY <1>5, <2>2, <3>1, Zenon
    <3> QED BY <2>2, <2>3, <3>2
  <2>4. CASE h[y] # 0
    <3>1. ~ IsLeaf(t.nodes[y])
      BY <2>2, <2>4, LeafIs
    <3>2. \A k \in ToSet(t.nodes[y].kids) : k \in D /\ h[k] = h[y] - 1
      BY <2>2, <2>4, KidsAre
    <3>3. \A k \in ToSet(t.nodes[y].kids) : f[k] = {h[k] + 1}
      <4> SUFFICES ASSUME NEW k \in ToSet(t.nodes[y].kids) PROVE f[k] = {h[k] + 1}
        OBVIOUS
      <4>1. k \in D /\ h[k] = h[y] - 1
        BY <3>2
      <4>2. ~ (h[y] <= h[k])
        BY <2>2, <4>1
      <4>3. k \notin bad
        BY <2>1, <4>2
      <4> QED BY <4>1, <4>3
    <3>4. {d + 1 : d \in UNION {f[k] : k \in ToSet(t.nodes[y].kids)}} = {h[y] + 1}
      BY <1>2, <2>2, <2>4, <3>3
    <3>5. f[y] = {h[y] + 1}
      BY <1>5, <2>2, <3>1, <3>4, Zenon
    <3> QED BY <2>2, <3>5
  <2> QED BY <2>3, <2>4
<1>7. f[n] = {h[n] + 1}
  BY <1>6
<1> QED BY <1>7 DEF f

\* A tree that stands is tidy: each node is reached, and reached once.
LEMMA WholeIsTidy ==
    ASSUME NEW t, NEW h, NEW B, NEW G, Standing(t, h, B, G)
    PROVE  Tidy(t)
<1> DEFINE w == InOrder(t)
           all == UNION {{<<n, c>> : c \in DOMAIN t.nodes[n].elems} : n \in DOMAIN t.nodes}
<1>0. IsTree(t) /\ Layout(t, h, B, G) /\ Linked(t)
  BY DEF Standing
<1>1. w \in Seq(Nat \X Nat) /\ Len(w) = Len(G) /\ \A p \in 1 .. Len(G) : w[p] = PlaceAt(t, B, p)
  BY PlacesAre
<1>2. DOMAIN w = 1 .. Len(G)
  BY <1>1
<1> HIDE DEF w
<1>3. \A y \in Nodes(t) : DOMAIN t.nodes[y].elems = 1 .. Size(t, y)
  <2> SUFFICES ASSUME NEW y \in Nodes(t) PROVE DOMAIN t.nodes[y].elems = 1 .. Size(t, y)
    OBVIOUS
  <2>1. t.nodes[y] \in Node234 /\ NodeFits(h, B, G, t.nodes[y], B[y], h[y])
    BY <1>0, NodeIs
  <2> QED BY <2>1, PartsAre DEF Size
<1>4. ASSUME NEW p \in 1 .. Len(G) PROVE w[p] \in all
  <2>1. PICK y \in Nodes(t), c \in Nat : At(t, B, y, c, p) /\ PlaceAt(t, B, p) = <<y, c>>
    BY PlaceFound
  <2>2. c \in DOMAIN t.nodes[y].elems /\ y \in DOMAIN t.nodes
    BY <1>3, <2>1 DEF At, Nodes
  <2> QED BY <1>1, <2>1, <2>2
<1>5. ASSUME NEW y \in Nodes(t), NEW c \in 1 .. Size(t, y)
      PROVE  \E p \in 1 .. Len(G) : w[p] = <<y, c>>
  <2>1. At(t, B, y, c, B[y][c + 1])
    BY DEF At
  <2>2. B[y][c + 1] \in 1 .. Len(G)
    BY <2>1, AtIs
  <2>3. PlaceAt(t, B, B[y][c + 1]) = <<y, c>> /\ <<y, c>> \in Nat \X Nat
    <3> HIDE DEF all
    <3> QED BY <2>1, PlaceAtIs, Zenon
  <2> QED BY <1>1, <2>2, <2>3
<1>6. ToSet(w) = all
  <2>1. \A q \in all : \E p \in 1 .. Len(G) : w[p] = q
    <3> SUFFICES ASSUME NEW q \in all PROVE \E p \in 1 .. Len(G) : w[p] = q
      OBVIOUS
    <3>1. PICK y \in DOMAIN t.nodes : q \in {<<y, c>> : c \in DOMAIN t.nodes[y].elems}
      OBVIOUS
    <3>2. PICK c \in DOMAIN t.nodes[y].elems : q = <<y, c>>
      BY <3>1
    <3>3. y \in Nodes(t) /\ c \in 1 .. Size(t, y)
      BY <1>3, <3>1, <3>2 DEF Nodes
    <3> QED BY <1>5, <3>2, <3>3
  <2> HIDE DEF all
  <2> QED BY <1>2, <1>4, <2>1 DEF ToSet
<1>7. ASSUME NEW i \in 1 .. Len(G), NEW j \in 1 .. Len(G), w[i] = w[j] PROVE i = j
  <2>1. PICK y \in Nodes(t), c \in Nat : At(t, B, y, c, i) /\ PlaceAt(t, B, i) = <<y, c>>
    BY PlaceFound
  <2>2. PICK z \in Nodes(t), d \in Nat : At(t, B, z, d, j) /\ PlaceAt(t, B, j) = <<z, d>>
    BY PlaceFound
  <2>3. y = z /\ c = d
    <3>1. <<y, c>> = <<z, d>>
      BY <1>1, <1>7, <2>1, <2>2
    <3> QED BY <3>1
  <2> QED BY <2>1, <2>2, <2>3 DEF At
<1> HIDE DEF all
<1> QED BY <1>2, <1>6, <1>7 DEF Tidy, w, all

\* A whole tree passes chknode.
LEMMA WholeIsChecked ==
    ASSUME NEW t, NEW h, NEW B, NEW G, Whole(t, h, B, G)
    PROVE  chknode(t)
<1>0. /\ IsTree(t) /\ Layout(t, h, B, G) /\ Linked(t) /\ Standing(t, h, B, G)
      /\ Counted(t, B) /\ Sized(t) /\ (t.sorted => Increasing(G))
  BY DEF Standing, Whole
<1>1. t.root # NULL => t.nodes[t.root].parent = NULL
  BY <1>0 DEF Linked, Layout
<1>2. ASSUME NEW n \in DOMAIN t.nodes, NEW node, node = t.nodes[n]
      PROVE  /\ Len(node.elems) \in 1 .. 3
             /\ Len(node.kids) = Len(node.elems) + 1
             /\ \A c \in DOMAIN node.kids :
                  /\ node.kids[c] = NULL <=> IsLeaf(node)
                  /\ node.kids[c] # NULL => t.nodes[node.kids[c]].parent = n
                  /\ node.counts[c] = Len(InOrder([t EXCEPT !.root = node.kids[c]]))
  <2>1. n \in Nodes(t)
    BY DEF Nodes
  <2>2. /\ node \in Node234 /\ NodeFits(h, B, G, node, B[n], h[n]) /\ h[n] \in Nat
        /\ Bounds(B[n], Size(t, n)) /\ Hi(B[n]) <= Len(G) + 1 /\ Len(G) \in Nat
    BY <1>0, <1>2, <2>1, NodeIs
  <2>3. /\ Len(node.kids) = Len(node.elems) + 1 /\ DOMAIN node.kids = 1 .. Size(t, n) + 1
        /\ DOMAIN node.counts = 1 .. Size(t, n) + 1
        /\ Len(node.counts) = Size(t, n) + 1
    BY <1>2, <2>2, PartsAre DEF Size
  <2>4. Len(node.elems) \in 1 .. 3
    BY <1>0, <1>2, <2>1 DEF Sized, Size
  <2>5. ASSUME NEW c \in 1 .. Size(t, n) + 1
        PROVE  /\ node.kids[c] = NULL <=> IsLeaf(node)
               /\ node.kids[c] # NULL => t.nodes[node.kids[c]].parent = n
               /\ node.counts[c] = Len(InOrder([t EXCEPT !.root = node.kids[c]]))
    <3> DEFINE k == node.kids[c]
               u == [t EXCEPT !.root = k]
    <3>1. IF h[n] = 0 THEN k = NULL /\ B[n][c + 1] = B[n][c] + 1
          ELSE IsKid(t, h, B, n, c, k) /\ t.nodes[k].parent = n
      BY <1>0, <1>2, <2>1, KidIs
    <3>2. IsLeaf(node) <=> h[n] = 0
      BY <1>0, <1>2, <2>1, LeafIs
    <3>3. /\ Span(t, B, k) = Piece(t, B, B[n][c], B[n][c + 1])
          /\ k \in Nodes(t) \cup {NULL}
      BY <1>0, <1>2, <2>1, KidSpan
    <3>4. k # NULL <=> h[n] # 0
      <4>1. NULL \notin Nodes(t)
        BY <1>0, NodeIs
      <4> QED BY <3>1, <4>1 DEF IsKid
    <3>5. u.root = k /\ u.nodes = t.nodes
      BY <1>0 DEF IsTree
    <3> HIDE DEF k, u
    <3>6. InOrder(u) = Piece(t, B, B[n][c], B[n][c + 1])
      <4>1. InOrder(u) = Span(t, B, k)
        BY <1>0, <3>3, <3>5, InOrderIs
      <4> QED BY <3>3, <4>1
    <3>7. B[n][c] \in Nat /\ B[n][c + 1] \in Nat /\ B[n][c] < B[n][c + 1] /\ B[n][c + 1] <= Len(G) + 1
      <4>1. /\ B[n][c] \in Nat /\ B[n][c + 1] \in Nat /\ B[n][c] < B[n][c + 1]
            /\ B[n][c + 1] <= Hi(B[n]) /\ Hi(B[n]) \in Nat
        BY <2>2, SlotIs
      <4> QED BY <2>2, <4>1
    <3>8. Len(InOrder(u)) = B[n][c + 1] - B[n][c] - 1
      <4>1. IsPiece(Piece(t, B, B[n][c], B[n][c + 1]), t, B, B[n][c], B[n][c + 1])
        BY <1>0, <3>7, PieceIs
      <4> QED BY <3>6, <4>1 DEF IsPiece
    <3>9. node.counts[c] = B[n][c + 1] - B[n][c] - 1
      <4>1. Exact(node, B[n])
        BY <1>0, <1>2, <2>1 DEF Counted
      <4> QED BY <2>3, <4>1 DEF Exact
    <3> QED BY <3>1, <3>2, <3>4, <3>8, <3>9 DEF k, u
  <2> QED BY <2>3, <2>4, <2>5
<1>3. t.root # NULL => \E d \in Depths(t) : Depths(t) = {d}
  <2> SUFFICES ASSUME t.root # NULL PROVE \E d \in Depths(t) : Depths(t) = {d}
    OBVIOUS
  <2>1. t.root \in Nodes(t)
    BY <1>0 DEF Layout
  <2>2. Depths(t) = {h[t.root] + 1}
    BY <1>0, <2>1, DepthsIs, DepthsAre
  <2> QED BY <2>2
<1>4. t.sorted => Increasing(Elements(t))
  BY <1>0, ElementsAre
<1> QED BY <1>1, <1>2, <1>3, <1>4 DEF chknode

\* A tree that is whole is what chknode and verify look for, and lists G.
THEOREM WholeIsSound ==
    ASSUME NEW t, NEW h, NEW B, NEW G, Whole(t, h, B, G)
    PROVE  Sound(t) /\ Elements(t) = G /\ count234(t) = Len(G)
<1>1. Standing(t, h, B, G) /\ Counted(t, B)
  BY DEF Whole
<1> QED BY <1>1, WholeIsTidy, WholeIsChecked, ElementsAre, CountAll DEF Sound

--------------------------------------------------------------------------------
(*****************************************************************************)
(* Renamed: between two calls the elements are 2, 4, 6 and so on.            *)
(*****************************************************************************)

Evens(n) == [i \in 1 .. n |-> 2 * i]

\* What Renamed makes of a laid out tree: a node is named after the position of its
\* first element.
Name(B, n) == IF n = NULL THEN NULL ELSE B[n][2]
NamedNode(t, B, n) ==
    [parent |-> Name(B, t.nodes[n].parent), counts |-> t.nodes[n].counts,
     elems |-> [c \in 1 .. Size(t, n) |-> 2 * B[n][c + 1]],
     kids |-> [c \in 1 .. Size(t, n) + 1 |-> Name(B, t.nodes[n].kids[c])]]
Owner(t, i) == InOrder(t)[i][1]
NewNames(t, B) == {B[n][2] : n \in Nodes(t)}

\* The position of a node's first element names it, and no other node.
LEMMA FirstIs ==
    ASSUME NEW t, NEW h, NEW B, NEW G, Standing(t, h, B, G), NEW n \in Nodes(t)
    PROVE  /\ At(t, B, n, 1, B[n][2]) /\ B[n][2] \in 1 .. Len(G) /\ B[n][2] \in Nat
           /\ B[n][2] # NULL /\ B[n][2] \in NewNames(t, B)
           /\ Owner(t, B[n][2]) = n /\ InOrder(t)[B[n][2]] = <<n, 1>>
<1>0. IsTree(t) /\ Layout(t, h, B, G) /\ Linked(t)
  BY DEF Standing
<1>1. 1 \in 1 .. Size(t, n) /\ 1 + 1 = 2
  <2>1. Bounds(B[n], Size(t, n))
    BY <1>0, NodeIs
  <2> QED BY <2>1 DEF Bounds
<1>2. At(t, B, n, 1, B[n][2])
  BY <1>1 DEF At
<1>3. B[n][2] \in 1 .. Len(G) /\ B[n][2] \in Nat
  BY <1>2, AtIs
<1>4. PlaceAt(t, B, B[n][2]) = <<n, 1>> /\ <<n, 1>> \in Nat \X Nat
  BY <1>2, PlaceAtIs, Zenon
<1>5. InOrder(t)[B[n][2]] = <<n, 1>>
  <2>1. \A p \in 1 .. Len(G) : InOrder(t)[p] = PlaceAt(t, B, p)
    BY PlacesAre, ZenonT(40)
  <2> QED BY ONLY <1>3, <1>4, <2>1, ZenonT(40)
<1>6. B[n][2] # NULL
  BY <1>3 DEF NULL
<1> QED BY <1>2, <1>3, <1>5, <1>6 DEF Owner, NewNames

\* Of Renamed with its local definitions expanded.
PlaceName(t, n) == IF n = NULL THEN NULL
                   ELSE CHOOSE i \in DOMAIN InOrder(t) : InOrder(t)[i] = <<n, 1>>
PlaceNumber(t, n, c) == CHOOSE i \in DOMAIN InOrder(t) : InOrder(t)[i] = <<n, c>>
PlacedNode(t, n) ==
    [parent |-> PlaceName(t, t.nodes[n].parent), counts |-> t.nodes[n].counts,
     elems |-> [c \in DOMAIN t.nodes[n].elems |-> 2 * PlaceNumber(t, n, c)],
     kids |-> [c \in DOMAIN t.nodes[n].kids |-> PlaceName(t, t.nodes[n].kids[c])]]

\* The place of an element is its position.
LEMMA PlaceOf ==
    ASSUME NEW t, NEW h, NEW B, NEW G, Standing(t, h, B, G), NEW n, NEW c,
           n \in Nodes(t), c \in 1 .. Size(t, n)
    PROVE  PlaceNumber(t, n, c) = B[n][c + 1]
<1> DEFINE w == InOrder(t)
           p == B[n][c + 1]
<1>1. w \in Seq(Nat \X Nat) /\ Len(w) = Len(G) /\ \A i \in 1 .. Len(G) : w[i] = PlaceAt(t, B, i)
  BY PlacesAre
<1>2. At(t, B, n, c, p)
  BY DEF At
<1>3. p \in 1 .. Len(G)
  BY <1>2, AtIs
<1>4. PlaceAt(t, B, p) = <<n, c>> /\ <<n, c>> \in Nat \X Nat
  <2> HIDE DEF p
  <2> QED BY <1>2, PlaceAtIs, Zenon
<1>5. ASSUME NEW i \in 1 .. Len(G), w[i] = <<n, c>> PROVE i = p
  <2>1. PICK z \in Nodes(t), d \in Nat : At(t, B, z, d, i) /\ PlaceAt(t, B, i) = <<z, d>>
    BY PlaceFound
  <2>2. z = n /\ d = c
    <3>1. <<z, d>> = <<n, c>>
      BY <1>1, <1>5, <2>1
    <3> QED BY <3>1
  <2> QED BY <2>1, <2>2 DEF At
<1>6. DOMAIN w = 1 .. Len(G) /\ w[p] = <<n, c>>
  <2> HIDE DEF w, p
  <2>1. DOMAIN w = 1 .. Len(G)
    BY ONLY <1>1
  <2>2. w[p] = PlaceAt(t, B, p)
    BY ONLY <1>1, <1>3, Zenon
  <2> QED BY ONLY <1>4, <2>1, <2>2, Zenon
<1> HIDE DEF w, p
<1>7. (CHOOSE i \in DOMAIN w : w[i] = <<n, c>>) = p
  <2>1. p \in DOMAIN w
    BY <1>3, <1>6
  <2>2. \A i \in DOMAIN w : w[i] = <<n, c>> => i = p
    BY <1>5, <1>6, Zenon
  <2>3. w[p] = <<n, c>>
    BY <1>6
  <2> DEFINE pair == <<n, c>>
  <2> HIDE DEF pair
  <2>4. \A i \in DOMAIN w : w[i] = pair <=> i = p
    BY <2>2, <2>3, Zenon DEF pair
  <2>5. (CHOOSE i \in DOMAIN w : w[i] = pair) = p
    BY ONLY <2>1, <2>4, SMT
  <2> QED BY <2>5 DEF pair
<1> QED BY <1>7 DEF w, p, PlaceNumber

\* The new name of a node is the position of its first element.
LEMMA NameOf ==
    ASSUME NEW t, NEW h, NEW B, NEW G, Standing(t, h, B, G), NEW n, n \in Nodes(t) \cup {NULL}
    PROVE  PlaceName(t, n) = Name(B, n)
<1>1. CASE n = NULL
  BY <1>1 DEF Name, PlaceName
<1>2. CASE n # NULL
  <2>1. n \in Nodes(t)
    BY <1>2
  <2>2. 1 \in 1 .. Size(t, n) /\ 1 + 1 = 2
    BY <2>1, FirstIs DEF At
  <2>3. PlaceNumber(t, n, 1) = B[n][1 + 1]
    BY <2>1, <2>2, PlaceOf
  <2>4. PlaceName(t, n) = PlaceNumber(t, n, 1)
    BY <1>2, Zenon DEF PlaceName, PlaceNumber
  <2> QED BY <1>2, <2>2, <2>3, <2>4 DEF Name
<1> QED BY <1>1, <1>2

\* Renamed with its local definitions replaced by those above.
LEMMA RenamedAs ==
    ASSUME NEW t
    PROVE  Renamed(t) = [root |-> PlaceName(t, t.root), sorted |-> t.sorted,
                         nodes |-> [i \in {j \in DOMAIN InOrder(t) : InOrder(t)[j][2] = 1} |->
                                        PlacedNode(t, InOrder(t)[i][1])]]
BY DEF Renamed, PlaceName, PlaceNumber, PlacedNode

\* The node that Renamed makes of a node.
LEMMA PlacedIs ==
    ASSUME NEW t, NEW h, NEW B, NEW G, Standing(t, h, B, G), NEW n \in Nodes(t)
    PROVE  PlacedNode(t, n) = NamedNode(t, B, n)
<1>0. IsTree(t) /\ Layout(t, h, B, G) /\ Linked(t)
  BY DEF Standing
<1>1. t.nodes[n].parent \in Nodes(t) \cup {NULL}
  BY <1>0 DEF Linked
<1>2. PlaceName(t, t.nodes[n].parent) = Name(B, t.nodes[n].parent)
  BY <1>1, NameOf
<1>3. DOMAIN t.nodes[n].elems = 1 .. Size(t, n) /\ DOMAIN t.nodes[n].kids = 1 .. Size(t, n) + 1
  <2>1. t.nodes[n] \in Node234 /\ NodeFits(h, B, G, t.nodes[n], B[n], h[n])
    BY <1>0, NodeIs
  <2> QED BY <2>1, PartsAre DEF Size
<1>4. \A c \in 1 .. Size(t, n) : PlaceNumber(t, n, c) = B[n][c + 1]
  BY PlaceOf
<1>5. \A c \in 1 .. Size(t, n) + 1 : PlaceName(t, t.nodes[n].kids[c]) = Name(B, t.nodes[n].kids[c])
  <2> SUFFICES ASSUME NEW c \in 1 .. Size(t, n) + 1
               PROVE  PlaceName(t, t.nodes[n].kids[c]) = Name(B, t.nodes[n].kids[c])
    OBVIOUS
  <2>1. t.nodes[n].kids[c] \in Nodes(t) \cup {NULL}
    BY KidSpan
  <2> QED BY <2>1, NameOf
<1>6. [c \in DOMAIN t.nodes[n].elems |-> 2 * PlaceNumber(t, n, c)]
      = [c \in 1 .. Size(t, n) |-> 2 * B[n][c + 1]]
  BY <1>3, <1>4, Zenon
<1>7. [c \in DOMAIN t.nodes[n].kids |-> PlaceName(t, t.nodes[n].kids[c])]
      = [c \in 1 .. Size(t, n) + 1 |-> Name(B, t.nodes[n].kids[c])]
  BY <1>3, <1>5, Zenon
<1> QED BY <1>2, <1>6, <1>7, Zenon DEF PlacedNode, NamedNode

\* Renamed keeps the shape of the tree: each node under its new name.
LEMMA RenamedIs ==
    ASSUME NEW t, NEW h, NEW B, NEW G, Standing(t, h, B, G)
    PROVE  Renamed(t) = [root |-> Name(B, t.root), sorted |-> t.sorted,
                         nodes |-> [i \in NewNames(t, B) |-> NamedNode(t, B, Owner(t, i))]]
<1> DEFINE w == InOrder(t)
           firsts == {j \in DOMAIN w : w[j][2] = 1}
<1>0. IsTree(t) /\ Layout(t, h, B, G) /\ Linked(t)
  BY DEF Standing
<1>1. DOMAIN w = 1 .. Len(G) /\ \A i \in 1 .. Len(G) : w[i] = PlaceAt(t, B, i)
  <2>1. /\ w \in Seq(Nat \X Nat) /\ Len(w) = Len(G)
        /\ \A i \in 1 .. Len(G) : w[i] = PlaceAt(t, B, i)
    BY PlacesAre
  <2> HIDE DEF w
  <2> QED BY <2>1
<1>2. firsts = NewNames(t, B)
  <2>1. ASSUME NEW n \in Nodes(t) PROVE B[n][2] \in firsts
    <3>1. B[n][2] \in 1 .. Len(G) /\ w[B[n][2]] = <<n, 1>>
      BY FirstIs
    <3> HIDE DEF w
    <3> QED BY <1>1, <3>1
  <2>2. ASSUME NEW j \in firsts PROVE j \in NewNames(t, B)
    <3>1. j \in 1 .. Len(G) /\ w[j][2] = 1
      BY <1>1
    <3>2. PICK y \in Nodes(t), c \in Nat : At(t, B, y, c, j) /\ PlaceAt(t, B, j) = <<y, c>>
      BY <3>1, PlaceFound
    <3>3. c = 1
      <4>1. w[j] = <<y, c>>
        BY <1>1, <3>1, <3>2
      <4> QED BY <3>1, <4>1
    <3>4. B[y][2] = j
      BY <3>2, <3>3 DEF At
    <3> QED BY <3>4 DEF NewNames
  <2> HIDE DEF firsts
  <2> QED BY <2>1, <2>2 DEF NewNames
<1>3. ASSUME NEW i \in NewNames(t, B)
      PROVE  PlacedNode(t, w[i][1]) = NamedNode(t, B, Owner(t, i))
  <2>1. PICK n \in Nodes(t) : i = B[n][2]
    BY DEF NewNames
  <2>2. Owner(t, i) = n
    BY <2>1, FirstIs
  <2>3. PlacedNode(t, n) = NamedNode(t, B, n)
    BY PlacedIs
  <2>4. Owner(t, i) = w[i][1]
    BY DEF Owner
  <2> QED BY <2>2, <2>3, <2>4, Zenon
<1>4. PlaceName(t, t.root) = Name(B, t.root)
  <2>1. t.root \in Nodes(t) \cup {NULL}
    BY <1>0 DEF Layout
  <2> QED BY <2>1, NameOf
<1>5. [i \in firsts |-> PlacedNode(t, w[i][1])]
      = [i \in NewNames(t, B) |-> NamedNode(t, B, Owner(t, i))]
  <2> HIDE DEF firsts, w
  <2> QED BY <1>2, <1>3, Zenon
<1>6. Renamed(t) = [root |-> PlaceName(t, t.root), sorted |-> t.sorted,
                    nodes |-> [i \in firsts |-> PlacedNode(t, w[i][1])]]
  BY RenamedAs
<1> QED BY <1>4, <1>5, <1>6, Zenon

\* Names are natural numbers, NULL only for no node, and lead back to their nodes.
LEMMA NameIs ==
    ASSUME NEW t, NEW h, NEW B, NEW G, Standing(t, h, B, G), NEW n, n \in Nodes(t) \cup {NULL}
    PROVE  /\ Name(B, n) \in NewNames(t, B) \cup {NULL} /\ Name(B, n) \in Nat
           /\ n \in Nodes(t) => /\ Name(B, n) \in NewNames(t, B) /\ Owner(t, Name(B, n)) = n
                                /\ Name(B, n) # NULL
<1>1. CASE n = NULL
  <2>1. NULL \notin Nodes(t) /\ NULL \in Nat
    BY NodeIs DEF Standing, NULL
  <2> QED BY <1>1, <2>1 DEF Name
<1>2. CASE n # NULL
  <2>1. n \in Nodes(t) /\ Name(B, n) = B[n][2]
    BY <1>2 DEF Name
  <2> QED BY <2>1, FirstIs
<1> QED BY <1>1, <1>2

IsNamed(node, t, B, n) ==
    /\ node \in Node234 /\ node.parent = Name(B, t.nodes[n].parent)
    /\ node.counts = t.nodes[n].counts /\ Len(node.counts) = Size(t, n) + 1
    /\ Len(node.elems) = Size(t, n) /\ Len(node.kids) = Size(t, n) + 1
    /\ \A c \in 1 .. Size(t, n) : node.elems[c] = 2 * B[n][c + 1]
    /\ \A c \in 1 .. Size(t, n) + 1 : node.kids[c] = Name(B, t.nodes[n].kids[c])

\* The parts of a renamed node.
LEMMA NamedIs ==
    ASSUME NEW t, NEW h, NEW B, NEW G, Standing(t, h, B, G), NEW n \in Nodes(t)
    PROVE  IsNamed(NamedNode(t, B, n), t, B, n)
<1> DEFINE node == NamedNode(t, B, n)
           es == [c \in 1 .. Size(t, n) |-> 2 * B[n][c + 1]]
           ks == [c \in 1 .. Size(t, n) + 1 |-> Name(B, t.nodes[n].kids[c])]
<1>0. IsTree(t) /\ Layout(t, h, B, G) /\ Linked(t)
  BY DEF Standing
<1>1. t.nodes[n] \in Node234 /\ NodeFits(h, B, G, t.nodes[n], B[n], h[n]) /\ Bounds(B[n], Size(t, n))
  BY <1>0, NodeIs
<1>2. PICK k \in Nat : k = Size(t, n)
  BY <1>1 DEF Bounds
<1>3. /\ t.nodes[n].counts \in Seq(Int) /\ Len(t.nodes[n].counts) = k + 1
  BY <1>1, <1>2, PartsAre DEF Size
<1>4. Name(B, t.nodes[n].parent) \in Nat
  <2>1. t.nodes[n].parent \in Nodes(t) \cup {NULL}
    BY <1>0 DEF Linked
  <2> QED BY <2>1, NameIs
<1>5. es \in Seq(Int) /\ Len(es) = k
  <2>1. \A c \in 1 .. k : B[n][c + 1] \in Nat
    BY <1>1, <1>2, InnerIs
  <2>2. \A c \in 1 .. k : 2 * B[n][c + 1] \in Int
    BY <2>1
  <2> QED BY <1>2, <2>2
<1>6. ks \in Seq(Nat) /\ Len(ks) = k + 1
  <2>1. \A c \in 1 .. k + 1 : Name(B, t.nodes[n].kids[c]) \in Nat
    BY <1>2, KidSpan, NameIs
  <2> QED BY <1>2, <2>1
<1>7. node = [parent |-> Name(B, t.nodes[n].parent), counts |-> t.nodes[n].counts,
              elems |-> es, kids |-> ks]
  BY DEF NamedNode
<1>8. /\ \A c \in 1 .. Size(t, n) : es[c] = 2 * B[n][c + 1]
      /\ \A c \in 1 .. Size(t, n) + 1 : ks[c] = Name(B, t.nodes[n].kids[c])
  OBVIOUS
<1> HIDE DEF es, ks, node
<1>9. node \in Node234
  BY <1>3, <1>4, <1>5, <1>6, <1>7 DEF Node234
<1>10. /\ node.parent = Name(B, t.nodes[n].parent) /\ node.counts = t.nodes[n].counts
       /\ node.elems = es /\ node.kids = ks
  BY ONLY <1>7
<1>11. /\ Len(node.counts) = Size(t, n) + 1 /\ Len(node.elems) = Size(t, n)
       /\ Len(node.kids) = Size(t, n) + 1
  BY ONLY <1>2, <1>3, <1>5, <1>6, <1>10
<1>12. /\ \A c \in 1 .. Size(t, n) : node.elems[c] = 2 * B[n][c + 1]
       /\ \A c \in 1 .. Size(t, n) + 1 : node.kids[c] = Name(B, t.nodes[n].kids[c])
  BY ONLY <1>8, <1>10, Zenon
<1>13. IsNamed(node, t, B, n)
  BY ONLY <1>9, <1>10, <1>11, <1>12, Zenon DEF IsNamed
<1> QED BY <1>13, Zenon DEF node

\* Between two calls a tree is whole with the keys 2, 4, 6 and so on.
THEOREM RenamedIsWhole ==
    ASSUME NEW t, NEW h, NEW B, NEW G, Whole(t, h, B, G)
    PROVE  /\ Renamed(t).sorted = t.sorted
           /\ \E h2, B2 : Whole(Renamed(t), h2, B2, Evens(Len(G)))
<1> DEFINE u == Renamed(t)
           N == NewNames(t, B)
           E == Evens(Len(G))
           h2 == [i \in N |-> h[Owner(t, i)]]
           B2 == [i \in N |-> B[Owner(t, i)]]
<1>0. /\ IsTree(t) /\ Layout(t, h, B, G) /\ Linked(t) /\ Standing(t, h, B, G)
      /\ Counted(t, B) /\ Sized(t) /\ Len(G) \in Nat
  BY DEF Standing, Whole, Layout
<1>1. u = [root |-> Name(B, t.root), sorted |-> t.sorted,
           nodes |-> [i \in N |-> NamedNode(t, B, Owner(t, i))]]
  BY <1>0, RenamedIs
<1> HIDE DEF u
<1>2. /\ u.root = Name(B, t.root) /\ u.sorted = t.sorted /\ DOMAIN u.nodes = N /\ Nodes(u) = N
      /\ u.nodes = [i \in N |-> NamedNode(t, B, Owner(t, i))]
      /\ \A i \in N : u.nodes[i] = NamedNode(t, B, Owner(t, i))
  BY <1>1 DEF Nodes
<1>3. ASSUME NEW i \in N
      PROVE  /\ Owner(t, i) \in Nodes(t) /\ i = Name(B, Owner(t, i)) /\ i = B[Owner(t, i)][2]
             /\ i \in 1 .. Len(G)
  <2>1. PICK n \in Nodes(t) : i = B[n][2]
    BY DEF NewNames
  <2>2. Owner(t, i) = n /\ i \in 1 .. Len(G)
    BY <1>0, <2>1, FirstIs
  <2>3. n # NULL
    BY <1>0, NodeIs
  <2> QED BY <2>1, <2>2, <2>3 DEF Name
<1>4. ASSUME NEW i \in N
      PROVE  /\ u.nodes[i] \in Node234 /\ Size(u, i) = Size(t, Owner(t, i))
             /\ h2[i] = h[Owner(t, i)] /\ B2[i] = B[Owner(t, i)]
             /\ u.nodes[i].parent = Name(B, t.nodes[Owner(t, i)].parent)
             /\ u.nodes[i].counts = t.nodes[Owner(t, i)].counts
  <2>1. Owner(t, i) \in Nodes(t)
    BY <1>3
  <2>2. u.nodes[i] = NamedNode(t, B, Owner(t, i))
    BY <1>2
  <2> QED BY <1>0, <2>1, <2>2, NamedIs DEF Size, IsNamed
<1> HIDE DEF N
<1>5. IsTree(u)
  <2>1. u.nodes \in [N -> Node234]
    BY <1>2, <1>4
  <2>2. N \in SUBSET (1 .. Len(G))
    BY <1>3
  <2>3. IsFiniteSet(N)
    <3>1. IsFiniteSet(1 .. Len(G))
      BY <1>0, FS_Interval
    <3> QED BY <2>2, <3>1, FS_Subset
  <2>4. N \in SUBSET (Nat \ {0})
    BY <1>0, <2>2
  <2>5. t.sorted \in BOOLEAN /\ t.root \in Nodes(t) \cup {NULL}
    BY <1>0 DEF IsTree, Layout
  <2>6. Name(B, t.root) \in Nat
    BY <1>0, <2>5, NameIs
  <2>7. u \in [root : Nat, nodes : Heaps(N), sorted : BOOLEAN]
    <3>1. u = [root |-> u.root, sorted |-> u.sorted, nodes |-> u.nodes]
      BY <1>1, <1>2
    <3> QED BY <1>2, <2>1, <2>5, <2>6, <3>1 DEF Heaps
  <2> QED BY <1>2, <2>3, <2>4, <2>7 DEF IsTree
<1>6. h2 \in [N -> Nat] /\ B2 \in [N -> Seq(Nat)] /\ E \in Seq(Int) /\ Len(E) = Len(G)
  <2>1. \A i \in N : h[Owner(t, i)] \in Nat /\ B[Owner(t, i)] \in Seq(Nat)
    BY <1>0, <1>3, NodeIs
  <2>2. E \in Seq(Int) /\ Len(E) = Len(G)
    BY <1>0 DEF Evens
  <2> QED BY <2>1, <2>2
<1> HIDE DEF h2, B2
<1>7. \A p \in 1 .. Len(G) : E[p] = 2 * p
  BY DEF Evens
<1> HIDE DEF E
<1>8. ASSUME NEW i \in N PROVE NodeFits(h2, B2, E, u.nodes[i], B2[i], h2[i])
  <2> DEFINE n == Owner(t, i)
             b == B[n]
  <2>1. n \in Nodes(t) /\ B2[i] = B[n] /\ h2[i] = h[n] /\ u.nodes[i] = NamedNode(t, B, n)
    BY <1>2, <1>3, <1>4
  <2>2. /\ NodeFits(h, B, G, t.nodes[n], b, h[n]) /\ Bounds(b, Size(t, n)) /\ h[n] \in Nat
        /\ t.nodes[n] \in Node234
    BY <1>0, <2>1, NodeIs
  <2>3. /\ Len(u.nodes[i].elems) = Size(t, n) /\ Len(u.nodes[i].kids) = Size(t, n) + 1
        /\ Len(u.nodes[i].counts) = Size(t, n) + 1
        /\ \A c \in 1 .. Size(t, n) : u.nodes[i].elems[c] = 2 * b[c + 1]
        /\ \A c \in 1 .. Size(t, n) + 1 : u.nodes[i].kids[c] = Name(B, t.nodes[n].kids[c])
    <3>1. IsNamed(u.nodes[i], t, B, n)
      BY <1>0, <2>1, NamedIs
    <3> HIDE DEF n, b
    <3>2. \A c \in 1 .. Size(t, n) : u.nodes[i].elems[c] = 2 * B[n][c + 1]
      BY <3>1, Zenon DEF IsNamed
    <3> QED BY <3>1, <3>2 DEF IsNamed, b
  <2> HIDE DEF n, b
  <2>4. Len(b) = Size(t, n) + 2 /\ Rising(b) /\ Hi(b) <= Len(G) + 1 /\ Size(t, n) >= 1
    BY <2>2 DEF NodeFits, Size
  <2>5. ASSUME NEW c \in 1 .. Size(t, n) + 1
        PROVE  KidFits(h2, B2, u.nodes[i].kids[c], h[n], b[c], b[c + 1])
    <3> DEFINE k == t.nodes[n].kids[c]
    <3>1. u.nodes[i].kids[c] = Name(B, k)
      BY <2>3
    <3>2. IF h[n] = 0 THEN k = NULL /\ b[c + 1] = b[c] + 1 ELSE IsKid(t, h, B, n, c, k)
      BY <1>0, <2>1, KidIs DEF b
    <3> HIDE DEF k
    <3>3. CASE h[n] = 0
      <4>1. Name(B, k) = NULL
        BY <3>2, <3>3 DEF Name
      <4> QED BY <3>1, <3>2, <3>3, <4>1 DEF KidFits
    <3>4. CASE h[n] # 0
      <4>1. k \in Nodes(t) /\ h[k] = h[n] - 1 /\ Lo(B[k]) = b[c] /\ Hi(B[k]) = b[c + 1]
        BY <3>2, <3>4 DEF IsKid, b
      <4>2. Name(B, k) \in N /\ Owner(t, Name(B, k)) = k
        BY <1>0, <4>1, NameIs DEF N
      <4>3. h2[Name(B, k)] = h[k] /\ B2[Name(B, k)] = B[k]
        BY <1>4, <4>2
      <4>4. DOMAIN h2 = N
        BY <1>6
      <4> QED BY <3>1, <3>4, <4>1, <4>2, <4>3, <4>4 DEF KidFits
    <3> QED BY <3>3, <3>4
  <2>6. ASSUME NEW c \in 1 .. Size(t, n) PROVE u.nodes[i].elems[c] = E[b[c + 1]]
    <3>1. At(t, B, n, c, b[c + 1])
      BY <2>1 DEF At, b
    <3>2. b[c + 1] \in 1 .. Len(G)
      BY <1>0, <3>1, AtIs
    <3> QED BY <1>7, <2>3, <3>2
  <2>7. NodeFits(h2, B2, E, u.nodes[i], b, h[n])
    BY <1>6, <2>3, <2>4, <2>5, <2>6, Zenon DEF NodeFits
  <2> QED BY <2>1, <2>7 DEF b
<1>9. Layout(u, h2, B2, E)
  <2>1. IF u.root = NULL THEN N = {} /\ E = <<>>
        ELSE /\ u.root \in N /\ Lo(B2[u.root]) = 0 /\ Hi(B2[u.root]) = Len(E) + 1
             /\ \A y \in N : h2[y] <= h2[u.root]
    <3>1. CASE t.root = NULL
      <4>1. Nodes(t) = {} /\ Len(G) = 0
        BY <1>0, <3>1 DEF Layout
      <4>2. N = {} /\ E = <<>>
        BY <1>6, <4>1 DEF N, NewNames
      <4>3. u.root = NULL
        BY <1>2, <3>1 DEF Name
      <4> QED BY <4>2, <4>3
    <3>2. CASE t.root # NULL
      <4>1. /\ t.root \in Nodes(t) /\ Lo(B[t.root]) = 0 /\ Hi(B[t.root]) = Len(G) + 1
            /\ \A y \in Nodes(t) : h[y] <= h[t.root]
        BY <1>0, <3>2 DEF Layout
      <4>2. u.root \in N /\ Owner(t, u.root) = t.root /\ u.root # NULL
        BY <1>0, <1>2, <4>1, NameIs DEF N
      <4>3. h2[u.root] = h[t.root] /\ B2[u.root] = B[t.root]
        BY <1>4, <4>2
      <4>4. \A y \in N : h2[y] <= h2[u.root]
        BY <1>3, <1>4, <4>1, <4>3
      <4> QED BY <1>6, <4>1, <4>2, <4>3, <4>4
    <3> QED BY <3>1, <3>2
  <2> QED BY <1>2, <1>6, <1>8, <2>1 DEF Layout
<1>10. Linked(u)
  <2>1. ASSUME NEW i \in N, NEW j \in N
        PROVE  j \in ToSet(u.nodes[i].kids) <=> u.nodes[j].parent = i
    <3> DEFINE y == Owner(t, i)
               k == Owner(t, j)
    <3>1. /\ y \in Nodes(t) /\ k \in Nodes(t) /\ i = Name(B, y) /\ j = Name(B, k)
          /\ u.nodes[j].parent = Name(B, t.nodes[k].parent) /\ u.nodes[i] = NamedNode(t, B, y)
      BY <1>2, <1>3, <1>4
    <3>2. t.nodes[k].parent \in Nodes(t) \cup {NULL}
      BY <1>0, <3>1 DEF Linked
    <3>3. k \in ToSet(t.nodes[y].kids) <=> t.nodes[k].parent = y
      BY <1>0, <3>1 DEF Linked
    <3> HIDE DEF y, k
    <3>4. u.nodes[j].parent = i <=> t.nodes[k].parent = y
      <4>1. CASE t.nodes[k].parent = NULL
        <5>1. Name(B, t.nodes[k].parent) = NULL /\ i # NULL
          BY <1>0, <3>1, <4>1, NameIs DEF Name
        <5>2. y # NULL
          BY <1>0, <3>1, NodeIs
        <5> QED BY <3>1, <4>1, <5>1, <5>2
      <4>2. CASE t.nodes[k].parent # NULL
        <5>1. t.nodes[k].parent \in Nodes(t)
          BY <3>2, <4>2
        <5>2. Owner(t, Name(B, t.nodes[k].parent)) = t.nodes[k].parent /\ Owner(t, i) = y
          BY <1>0, <3>1, <5>1, NameIs
        <5> QED BY <3>1, <5>2
      <4> QED BY <4>1, <4>2
    <3>5. /\ u.nodes[i] \in Node234 /\ Len(u.nodes[i].kids) = Size(t, y) + 1
          /\ \A c \in 1 .. Size(t, y) + 1 : u.nodes[i].kids[c] = Name(B, t.nodes[y].kids[c])
      BY <1>0, <3>1, NamedIs DEF IsNamed
    <3>6. u.nodes[i].kids \in Seq(Nat) /\ Size(t, y) \in Nat
      <4>1. Bounds(B[y], Size(t, y))
        BY <1>0, <3>1, NodeIs
      <4> QED BY <3>5, <4>1 DEF Node234, Bounds
    <3>7. DOMAIN u.nodes[i].kids = 1 .. Size(t, y) + 1
      BY <3>5, <3>6
    <3>8. DOMAIN t.nodes[y].kids = 1 .. Size(t, y) + 1
      <4>1. t.nodes[y] \in Node234 /\ NodeFits(h, B, G, t.nodes[y], B[y], h[y])
        BY <1>0, <3>1, NodeIs
      <4> QED BY <4>1, PartsAre DEF Size
    <3>9. \A c \in 1 .. Size(t, y) + 1 : Name(B, t.nodes[y].kids[c]) = j <=> t.nodes[y].kids[c] = k
      <4> SUFFICES ASSUME NEW c \in 1 .. Size(t, y) + 1
                   PROVE  Name(B, t.nodes[y].kids[c]) = j <=> t.nodes[y].kids[c] = k
        OBVIOUS
      <4>1. t.nodes[y].kids[c] \in Nodes(t) \cup {NULL}
        BY <1>0, <3>1, KidSpan
      <4>2. Owner(t, j) = k /\ j # NULL
        BY <1>0, <3>1, NameIs
      <4>3. CASE t.nodes[y].kids[c] = NULL
        <5>1. Name(B, t.nodes[y].kids[c]) = NULL /\ k # NULL
          BY <1>0, <3>1, <4>3, NodeIs DEF Name
        <5> QED BY <4>2, <4>3, <5>1
      <4>4. CASE t.nodes[y].kids[c] # NULL
        <5>1. Owner(t, Name(B, t.nodes[y].kids[c])) = t.nodes[y].kids[c]
          BY <1>0, <4>1, <4>4, NameIs
        <5> QED BY <3>1, <4>2, <5>1
      <4> QED BY <4>3, <4>4
    <3>10. j \in ToSet(u.nodes[i].kids) <=> k \in ToSet(t.nodes[y].kids)
      BY <3>5, <3>7, <3>8, <3>9 DEF ToSet
    <3> QED BY <3>3, <3>4, <3>10
  <2>2. ASSUME NEW j \in N
        PROVE  /\ u.nodes[j].parent \in N \cup {NULL}
               /\ u.nodes[j].parent = NULL <=> j = u.root
    <3> DEFINE k == Owner(t, j)
    <3>1. k \in Nodes(t) /\ j = Name(B, k) /\ u.nodes[j].parent = Name(B, t.nodes[k].parent)
      BY <1>3, <1>4
    <3> HIDE DEF k
    <3>2. /\ t.nodes[k].parent \in Nodes(t) \cup {NULL}
          /\ t.nodes[k].parent = NULL <=> k = t.root
      BY <1>0, <3>1 DEF Linked
    <3>3. Name(B, t.nodes[k].parent) \in N \cup {NULL}
      BY <1>0, <3>2, NameIs DEF N
    <3>4. Name(B, t.nodes[k].parent) = NULL <=> t.nodes[k].parent = NULL
      BY <1>0, <3>2, NameIs DEF Name
    <3>5. j = u.root <=> k = t.root
      <4>1. t.root \in Nodes(t)
        BY <1>0, <3>1, NodeIs
      <4>2. Owner(t, u.root) = t.root /\ Owner(t, j) = k
        BY <1>0, <1>2, <3>1, <4>1, NameIs
      <4> QED BY <1>2, <3>1, <4>2
    <3> QED BY <3>1, <3>2, <3>3, <3>4, <3>5
  <2> QED BY <1>2, <2>1, <2>2 DEF Linked
<1>11. Counted(u, B2)
  <2>1. ASSUME NEW i \in N PROVE Exact(u.nodes[i], B2[i])
    <3>1. Owner(t, i) \in Nodes(t)
      BY <1>3
    <3>2. Exact(t.nodes[Owner(t, i)], B[Owner(t, i)])
      BY <1>0, <3>1 DEF Counted
    <3> QED BY <1>4, <3>2 DEF Exact
  <2> QED BY <1>2, <2>1 DEF Counted
<1>12. Sized(u)
  BY <1>0, <1>2, <1>3, <1>4 DEF Sized
<1>13. Increasing(E)
  <2>1. DOMAIN E = 1 .. Len(G) /\ \A p \in 1 .. Len(G) : p \in Nat
    BY <1>6, <1>0
  <2> QED BY <1>7, <2>1 DEF Increasing
<1>14. Whole(u, h2, B2, E)
  BY <1>5, <1>9, <1>10, <1>11, <1>12, <1>13 DEF Whole, Standing
<1> QED BY <1>2, <1>14 DEF u, E

--------------------------------------------------------------------------------
(*****************************************************************************)
(* One turn of the searches: which slot a position or a key belongs in.      *)
(*****************************************************************************)

\* The number of the first element of kid c and the count of the kid.
LEMMA KidCount ==
    ASSUME NEW t, NEW h, NEW B, NEW G, Standing(t, h, B, G), NEW n \in Nodes(t),
           Exact(t.nodes[n], B[n]), NEW c \in 1 .. Size(t, n) + 1
    PROVE  /\ Start(t.nodes[n], c) = B[n][c] - Lo(B[n])
           /\ t.nodes[n].counts[c] = B[n][c + 1] - B[n][c] - 1
<1>0. IsTree(t) /\ Layout(t, h, B, G) /\ Linked(t)
  BY DEF Standing
<1>1. /\ B[n] \in Seq(Nat) /\ Bounds(B[n], Size(t, n)) /\ t.nodes[n] \in Node234
      /\ NodeFits(h, B, G, t.nodes[n], B[n], h[n])
  BY <1>0, NodeIs
<1>2. Len(t.nodes[n].counts) = Size(t, n) + 1 /\ Size(t, n) \in Nat
  BY <1>1, PartsAre DEF Size
<1>3. Len(B[n]) = Len(t.nodes[n].counts) + 1
  BY <1>1, <1>2 DEF Bounds
<1>4. c \in 1 .. Len(t.nodes[n].counts)
  BY <1>2
<1>5. Start(t.nodes[n], c) = B[n][c] - B[n][1]
  BY <1>1, <1>3, <1>4, StartIs
<1> QED BY <1>4, <1>5 DEF Exact, Lo

\* A position within a node, and its number there, is in one of the kids ...
LEMMA KidAtIs ==
    ASSUME NEW t, NEW h, NEW B, NEW G, Standing(t, h, B, G), Counted(t, B), NEW n \in Nodes(t),
           NEW p \in Nat, NEW c \in KidAt(t.nodes[n], p - Lo(B[n]) - 1)
    PROVE  /\ c \in 1 .. Size(t, n) + 1 /\ B[n][c] < p /\ p < B[n][c + 1]
           /\ B[n][c] \in Nat /\ B[n][c + 1] \in Nat
           /\ Start(t.nodes[n], c) = B[n][c] - Lo(B[n]) /\ Lo(B[n]) \in Nat
           /\ h[n] # 0 /\ h[n] \in Nat
           /\ IsKid(t, h, B, n, c, t.nodes[n].kids[c])
<1>0. IsTree(t) /\ Layout(t, h, B, G) /\ Linked(t)
  BY DEF Standing
<1>1. /\ Bounds(B[n], Size(t, n)) /\ t.nodes[n] \in Node234 /\ h[n] \in Nat
      /\ NodeFits(h, B, G, t.nodes[n], B[n], h[n])
  BY <1>0, NodeIs
<1>2. DOMAIN t.nodes[n].kids = 1 .. Size(t, n) + 1
  BY <1>1, PartsAre DEF Size
<1>3. /\ c \in 1 .. Size(t, n) + 1
      /\ Start(t.nodes[n], c) <= p - Lo(B[n]) - 1
      /\ p - Lo(B[n]) - 1 < Start(t.nodes[n], c) + t.nodes[n].counts[c]
  BY <1>2 DEF KidAt
<1>4. /\ Start(t.nodes[n], c) = B[n][c] - Lo(B[n])
      /\ t.nodes[n].counts[c] = B[n][c + 1] - B[n][c] - 1
  BY <1>3, KidCount DEF Counted
<1>5. B[n][c] \in Nat /\ B[n][c + 1] \in Nat /\ Lo(B[n]) \in Nat
  BY <1>1, <1>3, SlotIs
<1>6. B[n][c] < p /\ p < B[n][c + 1]
  BY <1>3, <1>4, <1>5
<1>7. ~ (B[n][c + 1] = B[n][c] + 1)
  BY <1>5, <1>6
<1>8. h[n] # 0 /\ IsKid(t, h, B, n, c, t.nodes[n].kids[c])
  BY <1>0, <1>3, <1>7, KidIs
<1> QED BY <1>1, <1>3, <1>4, <1>5, <1>6, <1>8

\* ... or it is that of an element.
LEMMA ElemAtIs ==
    ASSUME NEW t, NEW h, NEW B, NEW G, Standing(t, h, B, G), Counted(t, B), NEW n \in Nodes(t),
           NEW p \in Nat, NEW c \in ElemAt(t.nodes[n], p - Lo(B[n]) - 1)
    PROVE  At(t, B, n, c, p)
<1>0. IsTree(t) /\ Layout(t, h, B, G) /\ Linked(t)
  BY DEF Standing
<1>1. /\ Bounds(B[n], Size(t, n)) /\ t.nodes[n] \in Node234
      /\ NodeFits(h, B, G, t.nodes[n], B[n], h[n])
  BY <1>0, NodeIs
<1>2. DOMAIN t.nodes[n].elems = 1 .. Size(t, n)
  BY <1>1, PartsAre DEF Size
<1>3. c \in 1 .. Size(t, n) /\ p - Lo(B[n]) - 1 = Start(t.nodes[n], c) + t.nodes[n].counts[c]
  BY <1>2 DEF ElemAt
<1>4. c \in 1 .. Size(t, n) + 1
  BY <1>1, <1>3, InnerIs
<1>5. /\ Start(t.nodes[n], c) = B[n][c] - Lo(B[n])
      /\ t.nodes[n].counts[c] = B[n][c + 1] - B[n][c] - 1
  BY <1>4, KidCount DEF Counted
<1>6. B[n][c] \in Nat /\ B[n][c + 1] \in Nat /\ Lo(B[n]) \in Nat
  BY <1>1, <1>4, SlotIs
<1>7. B[n][c + 1] = p
  BY <1>3, <1>5, <1>6
<1> QED BY <1>3, <1>7 DEF At

\* What is up to lo is below e, and what is from hi on above it.
Between(G, e, lo, hi) == \A q \in 1 .. Len(G) : (q <= lo => G[q] < e) /\ (q >= hi => G[q] > e)

\* A list that increases does so between any two positions.
LEMMA GrowsBelow ==
    ASSUME NEW G \in Seq(Int), Increasing(G), NEW p \in 1 .. Len(G), NEW q \in 1 .. Len(G)
    PROVE  q <= p => G[q] <= G[p]
<1>1. DOMAIN G = 1 .. Len(G) /\ G[p] \in Int /\ G[q] \in Int
  OBVIOUS
<1>2. q < p => G[q] < G[p]
  BY <1>1 DEF Increasing
<1> QED BY <1>1, <1>2

\* The search by key: the slot of a node e belongs in.
LEMMA SlotOfKey ==
    ASSUME NEW t, NEW h, NEW B, NEW G, Standing(t, h, B, G), Increasing(G),
           NEW n \in Nodes(t), NEW e \in Int, Between(G, e, Lo(B[n]), Hi(B[n])),
           NEW c \in DOMAIN t.nodes[n].kids, IsSlot(t.nodes[n], e, c)
    PROVE  /\ c \in 1 .. Size(t, n) + 1
           /\ Hits(t.nodes[n], e, c) => /\ At(t, B, n, c, B[n][c + 1]) /\ G[B[n][c + 1]] = e
                                        /\ t.nodes[n].elems[c] = e
           /\ ~ Hits(t.nodes[n], e, c) => Between(G, e, B[n][c], B[n][c + 1])
<1> DEFINE b == B[n]
           node == t.nodes[n]
<1>0. IsTree(t) /\ Layout(t, h, B, G) /\ Linked(t)
  BY DEF Standing
<1>1. /\ Bounds(b, Size(t, n)) /\ t.nodes[n] \in Node234 /\ b \in Seq(Nat)
      /\ NodeFits(h, B, G, t.nodes[n], B[n], h[n])
  BY <1>0, NodeIs
<1>2. PICK k \in Nat : k = Size(t, n)
  BY <1>1 DEF Bounds
<1>3. DOMAIN node.kids = 1 .. k + 1 /\ Len(node.kids) = k + 1
  BY <1>1, <1>2, PartsAre DEF Size
<1>4. G \in Seq(Int) /\ \A q \in 1 .. Len(G) : G[q] \in Int
  BY <1>0 DEF Layout
<1>5. c \in 1 .. k + 1 /\ (~ (c < k + 1) => c = k + 1)
  BY <1>3
<1>6. ASSUME NEW d \in 1 .. k
      PROVE  At(t, B, n, d, b[d + 1]) /\ b[d + 1] \in 1 .. Len(G) /\ node.elems[d] = G[b[d + 1]]
  <2>1. At(t, B, n, d, b[d + 1])
    BY <1>2 DEF At
  <2> HIDE DEF node, b
  <2> QED BY <2>1, AtIs DEF node
<1> HIDE DEF node
<1>7. /\ \A i \in 1 .. c - 1 : node.elems[i] < e
      /\ c < k + 1 => e <= node.elems[c]
  BY <1>3 DEF IsSlot, node
<1>8. Hits(node, e, c) <=> c < k + 1 /\ e = node.elems[c]
  BY <1>3 DEF Hits
<1>9. Hits(node, e, c) => At(t, B, n, c, b[c + 1]) /\ G[b[c + 1]] = e /\ node.elems[c] = e
  <2> SUFFICES ASSUME Hits(node, e, c) PROVE At(t, B, n, c, b[c + 1]) /\ G[b[c + 1]] = e /\ node.elems[c] = e
    OBVIOUS
  <2>1. c \in 1 .. k /\ e = node.elems[c]
    BY <1>5, <1>8
  <2> QED BY <1>6, <2>1
<1>10. ASSUME ~ Hits(node, e, c), NEW q \in 1 .. Len(G)
       PROVE  (q <= b[c] => G[q] < e) /\ (q >= b[c + 1] => G[q] > e)
  <2>1. q <= b[c] => G[q] < e
    <3>1. CASE c = 1
      BY <3>1 DEF Between, Lo
    <3>2. CASE c # 1
      <4>1. c - 1 \in 1 .. k /\ c - 1 \in 1 .. c - 1 /\ (c - 1) + 1 = c
        BY <1>5, <3>2
      <4>2. b[c] \in 1 .. Len(G) /\ node.elems[c - 1] = G[b[c]] /\ node.elems[c - 1] < e
        BY <1>6, <1>7, <4>1
      <4>3. q <= b[c] => G[q] <= G[b[c]]
        BY <1>4, <4>2, GrowsBelow
      <4> QED BY <1>4, <4>2, <4>3
    <3> QED BY <3>1, <3>2
  <2>2. q >= b[c + 1] => G[q] > e
    <3>1. CASE c = k + 1
      <4>1. b[c + 1] = Hi(b)
        BY <1>1, <1>2, <3>1, SMTT(40) DEF Bounds
      <4> QED BY <4>1 DEF Between
    <3>2. CASE c # k + 1
      <4>1. c \in 1 .. k /\ c < k + 1
        BY <1>5, <3>2
      <4>2. b[c + 1] \in 1 .. Len(G) /\ node.elems[c] = G[b[c + 1]] /\ e <= node.elems[c]
        BY <1>6, <1>7, <4>1
      <4>3. e # G[b[c + 1]]
        BY <1>8, <1>10, <4>1, <4>2
      <4>4. b[c + 1] <= q => G[b[c + 1]] <= G[q]
        BY <1>4, <4>2, GrowsBelow
      <4>5. G[q] \in Int /\ G[b[c + 1]] \in Int
        BY <1>4, <4>2
      <4>6. q >= b[c + 1] <=> b[c + 1] <= q
        BY <4>2
      <4> QED BY <4>2, <4>3, <4>4, <4>5, <4>6
    <3> QED BY <3>1, <3>2
  <2> QED BY <2>1, <2>2
<1>11. ~ Hits(node, e, c) => Between(G, e, b[c], b[c + 1])
  BY <1>10 DEF Between
<1> QED BY <1>2, <1>5, <1>9, <1>11 DEF node

\* What counts as a find for a relation, and the nearest one.
Suits(d, relation, e) == \/ d = e /\ relation \in {"EQ", "LE", "GE"}
                         \/ d < e /\ relation \in {"LT", "LE"}
                         \/ d > e /\ relation \in {"GT", "GE"}
Backward(relation) == relation \in {"LT", "LE"}
IsNearest(G, relation, e, i) ==
    /\ i \in 0 .. Len(G)
    /\ IF i = 0 THEN \A q \in 1 .. Len(G) : ~ Suits(G[q], relation, e)
       ELSE /\ Suits(G[i], relation, e)
            /\ \A q \in 1 .. Len(G) :
                 Suits(G[q], relation, e) => IF Backward(relation) THEN q <= i ELSE i <= q

\* The specification's Nearest, by the position found.
LEMMA NearestIs ==
    ASSUME NEW G \in Seq(Int), NEW relation, NEW e, NEW i, IsNearest(G, relation, e, i)
    PROVE  Nearest(G, relation, e) = i
<1> DEFINE in == {q \in DOMAIN G : Suits(G[q], relation, e)}
<1>1. Nearest(G, relation, e) = IF in = {} THEN 0 ELSE IF Backward(relation) THEN Max(in) ELSE Min(in)
  BY DEF Nearest, Suits, Backward
<1>2. DOMAIN G = 1 .. Len(G) /\ Len(G) \in Nat
  OBVIOUS
<1>3. CASE i = 0
  <2>1. in = {}
    BY <1>2, <1>3 DEF IsNearest
  <2> QED BY <1>1, <1>3, <2>1
<1>4. CASE i # 0
  <2>1. i \in in /\ i \in Nat
    BY <1>2, <1>4 DEF IsNearest
  <2>2. in \in SUBSET (1 .. Len(G))
    BY <1>2
  <2>3. \A q \in in : IF Backward(relation) THEN q <= i ELSE i <= q
    BY <1>2, <1>4 DEF IsNearest
  <2> HIDE DEF in
  <2>4. From(in, 1) /\ UpTo(in, Len(G)) /\ in # {}
    BY <1>2, <2>1, <2>2 DEF From, UpTo
  <2>5. CASE Backward(relation)
    <3>1. Max(in) \in in /\ Max(in) \in Int /\ \A y \in in : y <= Max(in)
      BY <2>4, MaxIs
    <3>2. Max(in) = i
      BY <2>1, <2>3, <2>5, <3>1
    <3> QED BY <1>1, <2>4, <2>5, <3>2
  <2>6. CASE ~ Backward(relation)
    <3>1. Min(in) \in in /\ Min(in) \in Int /\ \A y \in in : Min(in) <= y
      BY <2>4, MinIs
    <3>2. Min(in) = i
      BY <2>1, <2>3, <2>6, <3>1
    <3> QED BY <1>1, <2>4, <2>6, <3>2
  <2> QED BY <2>5, <2>6
<1> QED BY <1>3, <1>4

\* The element at position i is returned or looked up.
Answered(r, t, G, i) ==
    IF i \in 1 .. Len(G) THEN r = Found(G[i], i - 1) \/ r = Getting(t.root, i - 1, i - 1)
    ELSE r = NotFound

\* index234 starts a walk down when there is such a position, and else finds nothing.
LEMMA IndexIs ==
    ASSUME NEW t, NEW h, NEW B, NEW G, Standing(t, h, B, G), Counted(t, B), NEW i \in Int
    PROVE  index234(t, i - 1) = IF i \in 1 .. Len(G) THEN Getting(t.root, i - 1, i - 1) ELSE NotFound
<1>1. countnode234(t, t.root) = Len(G) /\ Len(G) \in Nat
  <2>1. Len(G) \in Nat
    BY DEF Standing, Layout
  <2> QED BY <2>1, CountAll
<1>2. CASE t.root = NULL
  <2>1. Len(G) = 0
    BY <1>2 DEF Standing, Layout
  <2>2. i \notin 1 .. Len(G)
    BY <2>1
  <2> QED BY <1>2, <2>2, Zenon DEF index234
<1>3. CASE t.root # NULL
  <2>1. i - 1 \in 0 .. Len(G) - 1 <=> i \in 1 .. Len(G)
    BY <1>1
  <2> QED BY <1>1, <1>3, <2>1, Zenon DEF index234
<1> QED BY <1>2, <1>3

\* In either case that is an answer for the position.
LEMMA IndexAnswers ==
    ASSUME NEW t, NEW h, NEW B, NEW G, Standing(t, h, B, G), Counted(t, B), NEW i \in Int,
           NEW j, j = i - 1
    PROVE  Answered(index234(t, j), t, G, i)
BY IndexIs DEF Answered

\* The search by key for a relation has found e at a position,
LEMMA SoughtHit ==
    ASSUME NEW t, NEW h, NEW B, NEW G, Standing(t, h, B, G), Counted(t, B), Increasing(G),
           NEW e \in Int, e # NULL, NEW p \in 1 .. Len(G), G[p] = e,
           call.op # "del", call.relation \in Relations
    PROVE  \E i \in Int : /\ IsNearest(G, call.relation, e, i)
                          /\ Answered(Sought(t, e, p - 1), t, G, i)
<1>0. Len(G) \in Nat /\ p \in Nat
  BY DEF Standing, Layout
<1>1. G \in Seq(Int) /\ Len(G) \in Nat /\ DOMAIN G = 1 .. Len(G) /\ p \in Nat
  BY DEF Standing, Layout
<1>2. \A q \in 1 .. Len(G) : G[q] \in Int /\ (q < p => G[q] < e) /\ (p < q => e < G[q])
  BY <1>1 DEF Increasing
<1>3. \A q \in 1 .. Len(G) : q \in Int /\ (q < p \/ q = p \/ p < q)
  BY <1>1
<1>4. CASE call.relation \in {"EQ", "LE", "GE"}
  <2>1. Sought(t, e, p - 1) = Found(e, p - 1)
    BY <1>4 DEF Sought
  <2>2. p # 0 /\ Suits(G[p], call.relation, e)
    BY <1>1, <1>4 DEF Suits
  <2>3. \A q \in 1 .. Len(G) :
            Suits(G[q], call.relation, e) => IF Backward(call.relation) THEN q <= p ELSE p <= q
    BY <1>1, <1>2, <1>3, <1>4 DEF Suits, Backward
  <2>4. IsNearest(G, call.relation, e, p)
    BY <1>1, <2>2, <2>3 DEF IsNearest
  <2>5. Answered(Sought(t, e, p - 1), t, G, p)
    BY <2>1 DEF Answered
  <2> QED BY <1>1, <2>4, <2>5
<1>5. CASE call.relation = "LT"
  <2>1. Sought(t, e, p - 1) = index234(t, p - 1 - 1)
    BY <1>5 DEF Sought
  <2>2. p - 1 \in Int
    BY <1>1
  <2>3. Answered(Sought(t, e, p - 1), t, G, p - 1)
    BY <2>1, <2>2, IndexAnswers
  <2>4. \A q \in 1 .. Len(G) : Suits(G[q], call.relation, e) <=> q <= p - 1
    BY <1>1, <1>2, <1>3, <1>5 DEF Suits
  <2>5. Backward(call.relation)
    BY <1>5 DEF Backward
  <2>6. IsNearest(G, call.relation, e, p - 1)
    BY <1>1, <2>4, <2>5 DEF IsNearest
  <2> QED BY <2>2, <2>3, <2>6
<1>6. CASE call.relation = "GT"
  <2>1. Sought(t, e, p - 1) = index234(t, p - 1 + 1)
    BY <1>6 DEF Sought
  <2>2. p + 1 \in Int /\ p - 1 + 1 = (p + 1) - 1
    BY <1>1
  <2>3. Answered(Sought(t, e, p - 1), t, G, p + 1)
    BY <2>1, <2>2, IndexAnswers
  <2>4. \A q \in 1 .. Len(G) : Suits(G[q], call.relation, e) <=> p + 1 <= q
    BY <1>1, <1>2, <1>3, <1>6 DEF Suits
  <2>5. ~ Backward(call.relation)
    BY <1>6 DEF Backward
  <2>6. CASE p = Len(G)
    <3>1. IsNearest(G, call.relation, e, 0)
      BY <1>1, <2>4, <2>6 DEF IsNearest
    <3>2. Answered(Sought(t, e, p - 1), t, G, 0)
      BY <1>1, <2>3, <2>6 DEF Answered
    <3> QED BY <3>1, <3>2
  <2>7. CASE p # Len(G)
    <3>1. IsNearest(G, call.relation, e, p + 1)
      <4>0. PICK m \in Nat : m = Len(G)
        BY <1>1
      <4>1. p + 1 \in 1 .. Len(G) /\ p + 1 # 0 /\ p + 1 \in 0 .. Len(G) /\ p + 1 <= p + 1
        <5>1. p \in Nat /\ p <= m /\ p # m
          BY <1>0, <2>7, <4>0
        <5>2. p + 1 \in 1 .. m /\ p + 1 # 0 /\ p + 1 \in 0 .. m /\ p + 1 <= p + 1
          BY <5>1
        <5> QED BY <4>0, <5>2
      <4>2. Suits(G[p + 1], call.relation, e)
        BY <2>4, <4>1
      <4>3. \A q \in 1 .. Len(G) : Suits(G[q], call.relation, e) => p + 1 <= q
        BY <2>4
      <4> QED BY <2>5, <4>1, <4>2, <4>3, ZenonT(40) DEF IsNearest
    <3> QED BY <2>2, <2>3, <3>1
  <2> QED BY <2>6, <2>7
<1> QED BY <1>4, <1>5, <1>6 DEF Relations

\* or the gap where it would be.
LEMMA SoughtMiss ==
    ASSUME NEW t, NEW h, NEW B, NEW G, Standing(t, h, B, G), Counted(t, B),
           NEW e \in Int, NEW g \in 0 .. Len(G), Between(G, e, g, g + 1),
           call.op # "del", call.relation \in Relations
    PROVE  \E i \in Int : /\ IsNearest(G, call.relation, e, i)
                          /\ Answered(Sought(t, NULL, g), t, G, i)
<1>0. Len(G) \in Nat /\ g \in Nat
  BY DEF Standing, Layout
<1>1. G \in Seq(Int) /\ Len(G) \in Nat /\ DOMAIN G = 1 .. Len(G) /\ g \in Nat
  BY DEF Standing, Layout
<1>2. \A q \in 1 .. Len(G) : G[q] \in Int /\ (q <= g => G[q] < e) /\ (g < q => e < G[q])
  <2> SUFFICES ASSUME NEW q \in 1 .. Len(G)
               PROVE  G[q] \in Int /\ (q <= g => G[q] < e) /\ (g < q => e < G[q])
    OBVIOUS
  <2>1. G[q] \in Int /\ (g < q => q >= g + 1)
    BY <1>1
  <2> QED BY <2>1 DEF Between
<1>3. \A q \in 1 .. Len(G) : q \in Int /\ (q <= g \/ g < q)
  BY <1>1
<1>4. CASE call.relation = "EQ"
  <2>1. Sought(t, NULL, g) = NotFound
    BY <1>4 DEF Sought
  <2>2. \A q \in 1 .. Len(G) : ~ Suits(G[q], call.relation, e)
    BY <1>2, <1>3, <1>4 DEF Suits
  <2>3. IsNearest(G, call.relation, e, 0)
    BY <1>1, <2>2 DEF IsNearest
  <2>4. Answered(Sought(t, NULL, g), t, G, 0)
    BY <2>1 DEF Answered
  <2> QED BY <2>3, <2>4
<1>5. CASE call.relation \in {"LT", "LE"}
  <2>1. Sought(t, NULL, g) = index234(t, g - 1)
    BY <1>5 DEF Sought
  <2>2. Answered(Sought(t, NULL, g), t, G, g)
    BY <1>1, <2>1, IndexAnswers
  <2>3. \A q \in 1 .. Len(G) : Suits(G[q], call.relation, e) <=> q <= g
    BY <1>1, <1>2, <1>3, <1>5 DEF Suits
  <2>4. Backward(call.relation)
    BY <1>5 DEF Backward
  <2>5. IsNearest(G, call.relation, e, g)
    BY <1>1, <2>3, <2>4 DEF IsNearest
  <2> QED BY <1>1, <2>2, <2>5
<1>6. CASE call.relation \in {"GT", "GE"}
  <2>1. Sought(t, NULL, g) = index234(t, g)
    BY <1>6 DEF Sought
  <2>2. g + 1 \in Int /\ g = (g + 1) - 1
    BY <1>1
  <2>3. Answered(Sought(t, NULL, g), t, G, g + 1)
    BY <2>1, <2>2, IndexAnswers
  <2>4. \A q \in 1 .. Len(G) : Suits(G[q], call.relation, e) <=> g + 1 <= q
    BY <1>1, <1>2, <1>3, <1>6 DEF Suits
  <2>5. ~ Backward(call.relation)
    BY <1>6 DEF Backward
  <2>6. CASE g = Len(G)
    <3>1. IsNearest(G, call.relation, e, 0)
      BY <1>1, <2>4, <2>6 DEF IsNearest
    <3>2. Answered(Sought(t, NULL, g), t, G, 0)
      BY <1>1, <2>3, <2>6 DEF Answered
    <3> QED BY <3>1, <3>2
  <2>7. CASE g # Len(G)
    <3>1. IsNearest(G, call.relation, e, g + 1)
      <4>0. PICK m \in Nat : m = Len(G)
        BY <1>1
      <4>1. g + 1 \in 1 .. Len(G) /\ g + 1 # 0 /\ g + 1 \in 0 .. Len(G) /\ g + 1 <= g + 1
        <5>1. g \in Nat /\ g <= m /\ g # m
          BY <1>0, <2>7, <4>0
        <5>2. g + 1 \in 1 .. m /\ g + 1 # 0 /\ g + 1 \in 0 .. m /\ g + 1 <= g + 1
          BY <5>1
        <5> QED BY <4>0, <5>2
      <4>2. Suits(G[g + 1], call.relation, e)
        BY <2>4, <4>1
      <4>3. \A q \in 1 .. Len(G) : Suits(G[q], call.relation, e) => g + 1 <= q
        BY <2>4
      <4> QED BY <2>5, <4>1, <4>2, <4>3, ZenonT(40) DEF IsNearest
    <3> QED BY <2>2, <2>3, <3>1
  <2> QED BY <2>6, <2>7
<1> QED BY <1>4, <1>5, <1>6 DEF Relations

--------------------------------------------------------------------------------
(*****************************************************************************)
(* What a change of some nodes has to account for, and the way up with the   *)
(* counts: PathCounted says which of them are off by one.                    *)
(*****************************************************************************)

\* Trees of one kind: a new tree has the root and the order of the old one.
LEMMA SetNodeIs ==
    ASSUME NEW t, IsTree(t), NEW n \in Nat \ {0}, NEW node \in Node234, NEW u, u = SetNode(t, n, node)
    PROVE  /\ IsTree(u) /\ Nodes(u) = Nodes(t) \cup {n} /\ u.root = t.root /\ u.sorted = t.sorted
           /\ u.nodes[n] = node
           /\ \A y \in Nodes(t) : y # n => u.nodes[y] = t.nodes[y]
<1> DEFINE f == [m \in Nodes(t) \cup {n} |-> IF m = n THEN node ELSE t.nodes[m]]
<1>1. /\ t \in [root : Nat, nodes : Heaps(Nodes(t)), sorted : BOOLEAN]
      /\ Nodes(t) \in SUBSET (Nat \ {0}) /\ IsFiniteSet(Nodes(t))
  BY DEF IsTree
<1>2. t.nodes \in [Nodes(t) -> Node234] /\ t.root \in Nat /\ t.sorted \in BOOLEAN
  BY <1>1 DEF Heaps
<1>3. u = [t EXCEPT !.nodes = f]
  BY DEF SetNode, Nodes
<1>4. f \in [Nodes(t) \cup {n} -> Node234]
  BY <1>2
<1>5. /\ DOMAIN f = Nodes(t) \cup {n} /\ f[n] = node
      /\ \A y \in Nodes(t) : y # n => f[y] = t.nodes[y]
  OBVIOUS
<1> HIDE DEF f
<1>6. u = [root |-> t.root, nodes |-> f, sorted |-> t.sorted]
  BY <1>1, <1>3
<1>7. u.nodes = f /\ u.root = t.root /\ u.sorted = t.sorted /\ Nodes(u) = Nodes(t) \cup {n}
  BY <1>5, <1>6 DEF Nodes
<1>8. IsFiniteSet(Nodes(t) \cup {n})
  BY <1>1, FS_AddElement
<1>9. IsTree(u)
  BY <1>1, <1>2, <1>4, <1>6, <1>7, <1>8 DEF IsTree, Heaps
<1> QED BY <1>5, <1>7, <1>9

\* What is left when a node is freed.
LEMMA FreedIs ==
    ASSUME NEW t, IsTree(t), NEW n, NEW u, u = Freed(t, n)
    PROVE  /\ IsTree(u) /\ Nodes(u) = Nodes(t) \ {n} /\ u.root = t.root /\ u.sorted = t.sorted
           /\ \A y \in Nodes(u) : u.nodes[y] = t.nodes[y]
<1> DEFINE f == [m \in Nodes(t) \ {n} |-> t.nodes[m]]
<1>1. /\ t \in [root : Nat, nodes : Heaps(Nodes(t)), sorted : BOOLEAN]
      /\ Nodes(t) \in SUBSET (Nat \ {0}) /\ IsFiniteSet(Nodes(t))
  BY DEF IsTree
<1>2. t.nodes \in [Nodes(t) -> Node234] /\ t.root \in Nat /\ t.sorted \in BOOLEAN
  BY <1>1 DEF Heaps
<1>3. u = [t EXCEPT !.nodes = f]
  BY DEF Freed, Nodes
<1>4. f \in [Nodes(t) \ {n} -> Node234]
  BY <1>2
<1>5. DOMAIN f = Nodes(t) \ {n} /\ \A y \in Nodes(t) \ {n} : f[y] = t.nodes[y]
  OBVIOUS
<1> HIDE DEF f
<1>6. u = [root |-> t.root, nodes |-> f, sorted |-> t.sorted]
  BY <1>1, <1>3
<1>7. u.nodes = f /\ u.root = t.root /\ u.sorted = t.sorted /\ Nodes(u) = Nodes(t) \ {n}
  BY <1>5, <1>6 DEF Nodes
<1>8. IsFiniteSet(Nodes(t) \ {n})
  BY <1>1, FS_Subset
<1>9. IsTree(u)
  BY <1>1, <1>2, <1>4, <1>6, <1>7, <1>8 DEF IsTree, Heaps
<1> QED BY <1>5, <1>7, <1>9

\* Two nodes that differ in their parents only.
Content(x, y) == x.elems = y.elems /\ x.kids = y.kids /\ x.counts = y.counts

\* A node made the parent of its kids: nothing but their parents changes.
LEMMA AdoptedIs ==
    ASSUME NEW t, IsTree(t), NEW n \in Nodes(t), NEW u, u = Adopted(t, n)
    PROVE  /\ IsTree(u) /\ Nodes(u) = Nodes(t) /\ u.root = t.root /\ u.sorted = t.sorted
           /\ \A y \in Nodes(t) :
                /\ Content(u.nodes[y], t.nodes[y])
                /\ u.nodes[y].parent = IF y \in ToSet(t.nodes[n].kids) THEN n ELSE t.nodes[y].parent
<1> DEFINE f == [m \in Nodes(t) |-> IF m \in ToSet(t.nodes[n].kids)
                                    THEN [t.nodes[m] EXCEPT !.parent = n] ELSE t.nodes[m]]
<1>1. /\ t \in [root : Nat, nodes : Heaps(Nodes(t)), sorted : BOOLEAN]
      /\ Nodes(t) \in SUBSET (Nat \ {0}) /\ IsFiniteSet(Nodes(t)) /\ n \in Nat
  BY DEF IsTree
<1>2. t.nodes \in [Nodes(t) -> Node234] /\ t.root \in Nat /\ t.sorted \in BOOLEAN
  BY <1>1 DEF Heaps
<1>3. u = [t EXCEPT !.nodes = f]
  BY DEF Adopted, Nodes
<1>4. ASSUME NEW y \in Nodes(t)
      PROVE  /\ f[y] \in Node234 /\ Content(f[y], t.nodes[y])
             /\ f[y].parent = IF y \in ToSet(t.nodes[n].kids) THEN n ELSE t.nodes[y].parent
  <2>1. t.nodes[y] \in Node234
    BY <1>2
  <2>2. f[y] = IF y \in ToSet(t.nodes[n].kids) THEN [t.nodes[y] EXCEPT !.parent = n] ELSE t.nodes[y]
    OBVIOUS
  <2> HIDE DEF f
  <2>3. CASE y \in ToSet(t.nodes[n].kids)
    <3>1. f[y] = [t.nodes[y] EXCEPT !.parent = n]
      BY <2>2, <2>3
    <3> QED BY <1>1, <2>1, <2>3, <3>1 DEF Content, Node234
  <2>4. CASE y \notin ToSet(t.nodes[n].kids)
    BY <2>1, <2>2, <2>4 DEF Content
  <2> QED BY <2>3, <2>4
<1>5. f = [m \in Nodes(t) |-> f[m]] /\ DOMAIN f = Nodes(t)
  OBVIOUS
<1> HIDE DEF f
<1>6. u = [root |-> t.root, nodes |-> f, sorted |-> t.sorted]
  BY <1>1, <1>3
<1>7. u.nodes = f /\ u.root = t.root /\ u.sorted = t.sorted /\ Nodes(u) = Nodes(t)
  BY <1>5, <1>6 DEF Nodes
<1>8. f \in [Nodes(t) -> Node234]
  BY <1>4, <1>5
<1>9. IsTree(u)
  BY <1>1, <1>2, <1>6, <1>7, <1>8 DEF IsTree, Heaps
<1> QED BY <1>4, <1>7, <1>9

\* A new node is new.
LEMMA MkNewIs ==
    ASSUME NEW t, IsTree(t), NEW m, m = mknew(t)
    PROVE  m \in Nat \ {0} /\ m \notin Nodes(t)
<1> DEFINE c == Cardinality(Nodes(t))
<1>1. IsFiniteSet(Nodes(t)) /\ c \in Nat
  BY FS_CardinalityType DEF IsTree
<1>2. \E n \in 1 .. c + 1 : n \notin Nodes(t)
  <2> SUFFICES ASSUME 1 .. c + 1 \subseteq Nodes(t) PROVE FALSE
    OBVIOUS
  <2>1. Cardinality(1 .. c + 1) <= c
    BY <1>1, FS_Subset
  <2>2. Cardinality(1 .. c + 1) = c + 1
    <3>1. 1 \in Int /\ c + 1 \in Int /\ ~ (1 > c + 1) /\ (c + 1) - 1 + 1 = c + 1
      BY <1>1
    <3> HIDE DEF c
    <3> QED BY <3>1, FS_Interval
  <2> QED BY <1>1, <2>1, <2>2
<1>3. m \in 1 .. c + 1 /\ m \notin Nodes(t)
  <2> HIDE DEF c
  <2> QED BY <1>2 DEF mknew, c, Nodes
<1> QED BY <1>1, <1>3
--------------------------------------------------------------------------------
(* Changing a few nodes *)

Kids(t, y) == ToSet(t.nodes[y].kids)

\* The nodes in E have new kids, the others keep theirs, and all parents agree.
Relinks(t, u, E) ==
    /\ E \in SUBSET Nodes(u)
    /\ \A y \in Nodes(u) \ E : y \in Nodes(t) /\ u.nodes[y].kids = t.nodes[y].kids
    /\ \A y \in E, k \in Nodes(u) :
         k \in Kids(u, y) =>
            /\ u.nodes[k].parent = y /\ k # u.root
            /\ \A z \in Nodes(u) \ E : k \notin Kids(t, z)
    /\ \A k \in Nodes(u) :
         (\A y \in E : k \notin Kids(u, y)) =>
            IF k = u.root THEN u.nodes[k].parent = NULL /\ \A z \in Nodes(u) \ E : k \notin Kids(t, z)
            ELSE /\ k \in Nodes(t) /\ u.nodes[k].parent = t.nodes[k].parent
                 /\ t.nodes[k].parent \in Nodes(u) \ E

\* Parents and kids agree after such a change.
LEMMA Relinked ==
    ASSUME NEW t, NEW u, IsTree(u), Linked(t), NEW E, Relinks(t, u, E)
    PROVE  Linked(u)
<1>0. \A y \in Nodes(u) : y # NULL
  BY DEF IsTree, NULL
<1>1. ASSUME NEW y \in Nodes(u), NEW k \in Nodes(u), k \in Kids(u, y) PROVE u.nodes[k].parent = y
  <2>1. CASE y \in E
    BY <1>1, <2>1 DEF Relinks
  <2>2. CASE y \notin E
    <3>1. y \in Nodes(u) \ E /\ y \in Nodes(t) /\ k \in Kids(t, y)
      BY <1>1, <2>2 DEF Relinks, Kids
    <3>2. \A z \in E : k \notin Kids(u, z)
      BY <1>1, <3>1 DEF Relinks
    <3>3. k # u.root /\ k \in Nodes(t) /\ u.nodes[k].parent = t.nodes[k].parent
      BY <3>1, <3>2 DEF Relinks
    <3>4. t.nodes[k].parent = y
      BY <3>1, <3>3 DEF Linked, Kids
    <3> QED BY <3>3, <3>4
  <2> QED BY <2>1, <2>2
<1>2. ASSUME NEW y \in Nodes(u), NEW k \in Nodes(u), u.nodes[k].parent = y PROVE k \in Kids(u, y)
  <2>1. CASE \E z \in E : k \in Kids(u, z)
    BY <1>2, <2>1 DEF Relinks
  <2>2. CASE \A z \in E : k \notin Kids(u, z)
    <3>1. k # u.root
      BY <1>0, <1>2, <2>2 DEF Relinks
    <3>2. k \in Nodes(t) /\ t.nodes[k].parent = y /\ y \in Nodes(u) \ E
      BY <1>2, <2>2, <3>1 DEF Relinks
    <3>3. y \in Nodes(t) /\ u.nodes[y].kids = t.nodes[y].kids
      BY <3>2 DEF Relinks
    <3> QED BY <3>2, <3>3 DEF Linked, Kids
  <2> QED BY <2>1, <2>2
<1>3. ASSUME NEW k \in Nodes(u)
      PROVE  u.nodes[k].parent \in Nodes(u) \cup {NULL} /\ (u.nodes[k].parent = NULL <=> k = u.root)
  <2>1. CASE \E z \in E : k \in Kids(u, z)
    BY <1>0, <2>1 DEF Relinks
  <2>2. CASE \A z \in E : k \notin Kids(u, z)
    BY <1>0, <2>2 DEF Relinks
  <2> QED BY <2>1, <2>2
<1> QED BY <1>1, <1>2, <1>3 DEF Linked, Kids

\* A node fits as before if its kids are where they were.
LEMMA FitsStill ==
    ASSUME NEW h, NEW B, NEW G, NEW node, NEW b, NEW x, NodeFits(h, B, G, node, b, x),
           NEW h2, NEW B2, NEW G2, Len(G2) = Len(G),
           \A c \in 1 .. Len(node.elems) + 1 :
               LET k == node.kids[c]
               IN  k \in DOMAIN h => k \in DOMAIN h2 /\ h2[k] = h[k] /\ Lo(B2[k]) = Lo(B[k]) /\ Hi(B2[k]) = Hi(B[k]),
           \A c \in 1 .. Len(node.elems) : G2[b[c + 1]] = G[b[c + 1]],
           NEW node2, Content(node2, node)
    PROVE  NodeFits(h2, B2, G2, node2, b, x)
<1>1. ASSUME NEW c \in 1 .. Len(node.elems) + 1
      PROVE  KidFits(h2, B2, node.kids[c], x, b[c], b[c + 1])
  <2>1. KidFits(h, B, node.kids[c], x, b[c], b[c + 1])
    BY DEF NodeFits
  <2> QED BY <2>1 DEF KidFits
<1> QED BY <1>1 DEF NodeFits, Content

\* The elements i to j of a wide node, with the kids around them.
Cutting(w, parent, i, j) ==
    [parent |-> parent, elems |-> SubSeq(w.elems, i, j),
     kids |-> SubSeq(w.kids, i, j + 1), counts |-> SubSeq(w.counts, i, j + 1)]
Borders(b, i, j) == SubSeq(b, i, j + 2)

IsCutting(v, a, w, b, i, j) ==
    /\ v \in Node234 /\ a \in Seq(Nat)
    /\ Len(v.elems) = j - i + 1 /\ Len(v.kids) = j - i + 2 /\ Len(v.counts) = j - i + 2
    /\ Len(a) = j - i + 3 /\ Lo(a) = b[i] /\ Hi(a) = b[j + 2]
    /\ \A c \in 1 .. j - i + 1 : v.elems[c] = w.elems[i + c - 1]
    /\ \A c \in 1 .. j - i + 2 : v.kids[c] = w.kids[i + c - 1] /\ v.counts[c] = w.counts[i + c - 1]
    /\ \A c \in 1 .. j - i + 3 : a[c] = b[i + c - 1]

\* The part of a wide node, item by item.
LEMMA CuttingIs ==
    ASSUME NEW h, NEW B, NEW G, NEW w \in Node234, NEW b \in Seq(Nat), NEW x,
           NodeFits(h, B, G, w, b, x), NEW parent \in Nat,
           NEW i \in 1 .. Len(w.elems), NEW j \in i .. Len(w.elems)
    PROVE  IsCutting(Cutting(w, parent, i, j), Borders(b, i, j), w, b, i, j)
<1> DEFINE v == Cutting(w, parent, i, j)
           a == Borders(b, i, j)
<1>1. /\ w.elems \in Seq(Int) /\ w.kids \in Seq(Nat) /\ w.counts \in Seq(Int)
      /\ Len(w.elems) \in Nat
      /\ Len(w.kids) = Len(w.elems) + 1 /\ Len(w.counts) = Len(w.elems) + 1
  BY PartsAre
<1>2. PICK k \in Nat : k = Len(w.elems)
  BY <1>1
<1>3. Len(b) = k + 2
  BY <1>2 DEF NodeFits
<1>4. i \in Nat /\ j \in Nat /\ 1 <= i /\ i <= j /\ j <= k
  BY <1>2
<1>5. /\ SubSeq(w.elems, i, j) \in Seq(Int) /\ Len(SubSeq(w.elems, i, j)) = j - i + 1
      /\ \A c \in 1 .. j - i + 1 : SubSeq(w.elems, i, j)[c] = w.elems[i + c - 1]
  <2>1. i \in 1 .. Len(w.elems) + 1 /\ j \in i - 1 .. Len(w.elems)
    BY <1>2, <1>4
  <2> QED BY <1>1, <2>1, PartOf, ZenonT(40)
<1>6. /\ SubSeq(w.kids, i, j + 1) \in Seq(Nat) /\ Len(SubSeq(w.kids, i, j + 1)) = (j + 1) - i + 1
      /\ \A c \in 1 .. (j + 1) - i + 1 : SubSeq(w.kids, i, j + 1)[c] = w.kids[i + c - 1]
  <2>1. i \in 1 .. Len(w.kids) + 1 /\ j + 1 \in i - 1 .. Len(w.kids)
    <3>1. Len(w.kids) = k + 1
      BY <1>1, <1>2
    <3> QED BY ONLY <3>1, <1>4, k \in Nat, SMTT(40)
  <2> QED BY <1>1, <2>1, PartOf, ZenonT(40)
<1>7. /\ SubSeq(w.counts, i, j + 1) \in Seq(Int) /\ Len(SubSeq(w.counts, i, j + 1)) = (j + 1) - i + 1
      /\ \A c \in 1 .. (j + 1) - i + 1 : SubSeq(w.counts, i, j + 1)[c] = w.counts[i + c - 1]
  <2>1. i \in 1 .. Len(w.counts) + 1 /\ j + 1 \in i - 1 .. Len(w.counts)
    <3>1. Len(w.counts) = k + 1
      BY <1>1, <1>2
    <3> QED BY ONLY <3>1, <1>4, k \in Nat, SMTT(40)
  <2> QED BY <1>1, <2>1, PartOf, ZenonT(40)
<1>8. /\ a \in Seq(Nat) /\ Len(a) = (j + 2) - i + 1
      /\ \A c \in 1 .. (j + 2) - i + 1 : a[c] = b[i + c - 1]
  <2>1. i \in 1 .. Len(b) + 1 /\ j + 2 \in i - 1 .. Len(b)
    BY <1>3, <1>4
  <2> QED BY <2>1, PartOf DEF Borders
<1>9. v = [parent |-> parent, elems |-> SubSeq(w.elems, i, j),
           kids |-> SubSeq(w.kids, i, j + 1), counts |-> SubSeq(w.counts, i, j + 1)]
  BY DEF Cutting
<1> HIDE DEF v, a
<1>10. v \in Node234
  BY <1>5, <1>6, <1>7, <1>9 DEF Node234
<1>11. (j + 1) - i + 1 = j - i + 2 /\ (j + 2) - i + 1 = j - i + 3
  BY <1>4
<1>12. Lo(a) = b[i] /\ Hi(a) = b[j + 2]
  <2>1. 1 \in 1 .. (j + 2) - i + 1 /\ i + 1 - 1 = i
    BY <1>4
  <2>2. (j + 2) - i + 1 \in 1 .. (j + 2) - i + 1 /\ i + ((j + 2) - i + 1) - 1 = j + 2
    BY <1>4
  <2>3. a[1] = b[i] /\ a[(j + 2) - i + 1] = b[j + 2]
    BY <1>8, <2>1, <2>2
  <2> QED BY <1>8, <2>3 DEF Lo, Hi
<1>13. /\ v.elems = SubSeq(w.elems, i, j) /\ v.kids = SubSeq(w.kids, i, j + 1)
       /\ v.counts = SubSeq(w.counts, i, j + 1)
  BY ONLY <1>9
<1>14. /\ Len(v.elems) = j - i + 1 /\ Len(v.kids) = j - i + 2 /\ Len(v.counts) = j - i + 2
       /\ Len(a) = j - i + 3
  <2>1. Len(v.elems) = j - i + 1
    BY ONLY <1>5, <1>13, Zenon
  <2>2. Len(v.kids) = (j + 1) - i + 1 /\ Len(v.counts) = (j + 1) - i + 1
    BY ONLY <1>6, <1>7, <1>13, Zenon
  <2> QED BY ONLY <1>8, <1>11, <2>1, <2>2, Zenon
<1>15. \A c \in 1 .. j - i + 1 : v.elems[c] = w.elems[i + c - 1]
  BY ONLY <1>5, <1>13, Zenon
<1>16. \A c \in 1 .. j - i + 2 : v.kids[c] = w.kids[i + c - 1] /\ v.counts[c] = w.counts[i + c - 1]
  BY ONLY <1>6, <1>7, <1>11, <1>13, Zenon
<1>17. \A c \in 1 .. j - i + 3 : a[c] = b[i + c - 1]
  BY ONLY <1>8, <1>11, Zenon
<1>18. IsCutting(v, a, w, b, i, j)
  BY ONLY <1>8, <1>10, <1>12, <1>14, <1>15, <1>16, <1>17, Zenon DEF IsCutting
<1> QED BY <1>18, Zenon DEF v, a

\* It fits, and its counts are right if those of the wide node are.
LEMMA CuttingFits ==
    ASSUME NEW h, NEW B, NEW G, NEW w \in Node234, NEW b \in Seq(Nat), NEW x,
           NodeFits(h, B, G, w, b, x), NEW i \in 1 .. Len(w.elems), NEW j \in i .. Len(w.elems),
           NEW v, NEW a, IsCutting(v, a, w, b, i, j)
    PROVE  NodeFits(h, B, G, v, a, x) /\ (Exact(w, b) => Exact(v, a))
<1>1. PICK k \in Nat : k = Len(w.elems)
  BY DEF Node234
<1>2. Bounds(b, k)
  BY <1>1, BoundsAre
<1>3. i \in Nat /\ j \in Nat /\ 1 <= i /\ i <= j /\ j <= k
  BY <1>1
<1>4. PICK m \in Nat : m = j - i + 1 /\ m >= 1 /\ m + 1 = j - i + 2 /\ m + 2 = j - i + 3
  <2>1. j - i + 1 \in Nat /\ j - i + 1 >= 1 /\ (j - i + 1) + 1 = j - i + 2 /\ (j - i + 1) + 2 = j - i + 3
    BY <1>3
  <2> QED BY <2>1
<1>5. /\ v \in Node234 /\ a \in Seq(Nat)
      /\ Len(v.elems) = m /\ Len(v.kids) = m + 1 /\ Len(v.counts) = m + 1
      /\ Len(a) = m + 2 /\ Hi(a) = b[j + 2]
      /\ \A c \in 1 .. m : v.elems[c] = w.elems[i + c - 1]
      /\ \A c \in 1 .. m + 1 : v.kids[c] = w.kids[i + c - 1] /\ v.counts[c] = w.counts[i + c - 1]
      /\ \A c \in 1 .. m + 2 : a[c] = b[i + c - 1]
  BY <1>4 DEF IsCutting
<1>6. Rising(a)
  <2>1. ASSUME NEW p \in 1 .. m + 2, NEW q \in 1 .. m + 2, p < q PROVE a[p] < a[q]
    <3>1. i + p - 1 \in 1 .. k + 2 /\ i + q - 1 \in 1 .. k + 2 /\ i + p - 1 < i + q - 1
      BY <1>3, <1>4, <2>1
    <3>2. b[i + p - 1] < b[i + q - 1]
      BY <1>2, <3>1 DEF Bounds
    <3> QED BY <1>5, <3>2
  <2>2. DOMAIN a = 1 .. m + 2
    BY <1>5
  <2> QED BY <2>1, <2>2 DEF Rising
<1>7. Hi(a) <= Len(G) + 1
  <2>1. b[j + 2] <= Hi(b) /\ b[j + 2] \in Nat /\ Hi(b) \in Nat
    <3>1. j + 1 \in 1 .. k + 1 /\ (j + 1) + 1 = j + 2
      BY <1>3
    <3>2. b[(j + 1) + 1] <= Hi(b) /\ b[(j + 1) + 1] \in Nat /\ Hi(b) \in Nat
      BY <1>2, <3>1, SlotIs
    <3> QED BY <3>1, <3>2
  <2>2. Hi(b) <= Len(G) + 1
    BY DEF NodeFits
  <2>3. CASE Len(G) \in Int
    BY <1>5, <2>1, <2>2, <2>3, SMTT(40)
  <2>4. CASE Hi(b) = b[j + 2]
    BY <1>5, <2>2, <2>4
  <2> QED BY <1>5, <2>1, <2>2, <2>3, <2>4
<1>8. ASSUME NEW c \in 1 .. m + 1 PROVE KidFits(h, B, v.kids[c], x, a[c], a[c + 1])
  <2>1. i + c - 1 \in 1 .. k + 1 /\ i + (c + 1) - 1 = (i + c - 1) + 1 /\ c \in 1 .. m + 2 /\ c + 1 \in 1 .. m + 2
    BY <1>3, <1>4
  <2>2. KidFits(h, B, w.kids[i + c - 1], x, b[i + c - 1], b[(i + c - 1) + 1])
    BY <1>1, <2>1 DEF NodeFits
  <2>3. a[c + 1] = b[i + (c + 1) - 1]
    BY <1>5, <2>1
  <2>4. a[c + 1] = b[(i + c - 1) + 1]
    BY <2>1, <2>3
  <2>5. a[c] = b[i + c - 1] /\ v.kids[c] = w.kids[i + c - 1]
    BY <1>5, <2>1
  <2> QED BY <2>2, <2>4, <2>5
<1>9. ASSUME NEW c \in 1 .. m PROVE v.elems[c] = G[a[c + 1]]
  <2>1. i + c - 1 \in 1 .. k /\ i + (c + 1) - 1 = (i + c - 1) + 1 /\ c + 1 \in 1 .. m + 2
    BY <1>3, <1>4
  <2>2. w.elems[i + c - 1] = G[b[(i + c - 1) + 1]]
    BY <1>1, <2>1 DEF NodeFits
  <2> QED BY <1>5, <2>1, <2>2
<1>10. NodeFits(h, B, G, v, a, x)
  BY <1>4, <1>5, <1>6, <1>7, <1>8, <1>9 DEF NodeFits
<1>11. ASSUME Exact(w, b), NEW c \in 1 .. m + 1 PROVE v.counts[c] = a[c + 1] - a[c] - 1
  <2>1. i + c - 1 \in 1 .. k + 1 /\ i + (c + 1) - 1 = (i + c - 1) + 1 /\ c \in 1 .. m + 2 /\ c + 1 \in 1 .. m + 2
    BY <1>3, <1>4
  <2>2. w.counts[i + c - 1] = b[(i + c - 1) + 1] - b[i + c - 1] - 1
    <3>1. Len(w.counts) = k + 1
      BY <1>1 DEF NodeFits
    <3> QED BY <1>11, <2>1, <3>1 DEF Exact
  <2> QED BY <1>5, <2>1, <2>2
<1> QED BY <1>5, <1>10, <1>11 DEF Exact

\* A node keeps its height and its ends.
Stays(h, B, h2, B2, k) ==
    k \in DOMAIN h2 /\ h2[k] = h[k] /\ Lo(B2[k]) = Lo(B[k]) /\ Hi(B2[k]) = Hi(B[k])

\* Outside E nothing has changed but parents, nor where the kids are.
Kept(t, h, B, u, h2, B2, E) ==
    \A y \in Nodes(u) \ E :
        /\ Content(u.nodes[y], t.nodes[y]) /\ h2[y] = h[y] /\ B2[y] = B[y]
        /\ \A k \in Kids(t, y) : k \in Nodes(t) => Stays(h, B, h2, B2, k)

Rooted(u, h2, B2, G) ==
    IF u.root = NULL THEN Nodes(u) = {} /\ G = <<>>
    ELSE /\ u.root \in Nodes(u) /\ Lo(B2[u.root]) = 0 /\ Hi(B2[u.root]) = Len(G) + 1
         /\ \A y \in Nodes(u) : h2[y] <= h2[u.root]

\* A tree stands again after the nodes in E have been changed.
Rebuilt(t, h, B, u, h2, B2, E, G) ==
    /\ IsTree(u) /\ h2 \in [Nodes(u) -> Nat] /\ B2 \in [Nodes(u) -> Seq(Nat)]
    /\ Relinks(t, u, E) /\ Kept(t, h, B, u, h2, B2, E)
    /\ \A y \in E : NodeFits(h2, B2, G, u.nodes[y], B2[y], h2[y])
    /\ Rooted(u, h2, B2, G)

\* The kid of a slot is one of the kids.
LEMMA KidsInRange ==
    ASSUME NEW t, NEW h, NEW B, NEW G, Standing(t, h, B, G), NEW y \in Nodes(t),
           NEW c \in 1 .. Size(t, y) + 1
    PROVE  t.nodes[y].kids[c] \in Kids(t, y)
<1>1. NodeFits(h, B, G, t.nodes[y], B[y], h[y]) /\ t.nodes[y] \in Node234
  BY NodeIs DEF Standing
<1>2. DOMAIN t.nodes[y].kids = 1 .. Size(t, y) + 1
  BY <1>1, PartsAre DEF Size
<1> QED BY <1>2 DEF Kids, ToSet

\* So does the tree: what is outside E fits as before.
LEMMA RebuiltStands ==
    ASSUME NEW t, NEW h, NEW B, NEW G, Standing(t, h, B, G), NEW u, NEW h2, NEW B2, NEW E,
           Rebuilt(t, h, B, u, h2, B2, E, G)
    PROVE  Standing(u, h2, B2, G)
<1>1. Linked(u)
  BY Relinked DEF Rebuilt, Standing
<1>2. ASSUME NEW y \in Nodes(u) \ E PROVE NodeFits(h2, B2, G, u.nodes[y], B2[y], h2[y])
  <2>1. y \in Nodes(t)
    BY DEF Rebuilt, Relinks
  <2>2. NodeFits(h, B, G, t.nodes[y], B[y], h[y]) /\ DOMAIN h = Nodes(t)
    BY <2>1, NodeIs DEF Standing
  <2>3. /\ Content(u.nodes[y], t.nodes[y]) /\ h2[y] = h[y] /\ B2[y] = B[y]
        /\ \A k \in Kids(t, y) : k \in Nodes(t) => Stays(h, B, h2, B2, k)
    BY DEF Rebuilt, Kept
  <2>4. \A c \in 1 .. Len(t.nodes[y].elems) + 1 :
             LET k == t.nodes[y].kids[c]
             IN  k \in DOMAIN h => k \in DOMAIN h2 /\ h2[k] = h[k] /\ Lo(B2[k]) = Lo(B[k]) /\ Hi(B2[k]) = Hi(B[k])
    BY <2>1, <2>2, <2>3, KidsInRange DEF Stays, Size
  <2>5. Len(G) = Len(G) /\ \A c \in 1 .. Len(t.nodes[y].elems) : G[B[y][c + 1]] = G[B[y][c + 1]]
    OBVIOUS
  <2>6. Content(u.nodes[y], t.nodes[y])
    BY <2>3
  <2>7. NodeFits(h2, B2, G, u.nodes[y], B[y], h[y])
    BY ONLY <2>2, <2>4, <2>5, <2>6, FitsStill
  <2> QED BY <2>3, <2>7
<1>3. Layout(u, h2, B2, G)
  <2>1. G \in Seq(Int)
    BY DEF Standing, Layout
  <2> QED BY <1>2, <2>1 DEF Layout, Rebuilt, Rooted
<1> QED BY <1>1, <1>3 DEF Standing, Rebuilt

\* The slots above height H that have gap i are counted d too high.
PathCounted(t, h, B, d, i, H) ==
    \A y \in Nodes(t) : \A c \in 1 .. Size(t, y) + 1 :
        t.nodes[y].counts[c] = B[y][c + 1] - B[y][c] - 1
                               + (IF h[y] > H /\ InSlot(B[y], c, i) THEN d ELSE 0)

\* When no node is higher than H all counts are right.
LEMMA PathIsOver ==
    ASSUME NEW t, NEW h, NEW B, NEW G, Standing(t, h, B, G), NEW d, NEW i, NEW H,
           PathCounted(t, h, B, d, i, H), \A y \in Nodes(t) : ~ (h[y] > H)
    PROVE  Counted(t, B)
<1>1. ASSUME NEW y \in Nodes(t), NEW c \in 1 .. Len(t.nodes[y].counts)
      PROVE  t.nodes[y].counts[c] = B[y][c + 1] - B[y][c] - 1
  <2>1. NodeFits(h, B, G, t.nodes[y], B[y], h[y]) /\ Bounds(B[y], Size(t, y))
    BY NodeIs DEF Standing
  <2>2. c \in 1 .. Size(t, y) + 1
    BY <2>1 DEF NodeFits, Size
  <2>3. B[y][c + 1] \in Nat /\ B[y][c] \in Nat
    BY <2>1, <2>2, SlotIs
  <2>4. t.nodes[y].counts[c] = B[y][c + 1] - B[y][c] - 1 + 0
    BY <2>2 DEF PathCounted
  <2> QED BY <2>3, <2>4
<1> QED BY <1>1 DEF Counted, Exact

\* A node up to height H has the right counts.
LEMMA PathIsAbove ==
    ASSUME NEW t, NEW h, NEW B, NEW G, Standing(t, h, B, G), NEW d, NEW i, NEW H,
           PathCounted(t, h, B, d, i, H), NEW y \in Nodes(t), ~ (h[y] > H)
    PROVE  Exact(t.nodes[y], B[y])
<1>1. ASSUME NEW c \in 1 .. Len(t.nodes[y].counts)
      PROVE  t.nodes[y].counts[c] = B[y][c + 1] - B[y][c] - 1
  <2>1. NodeFits(h, B, G, t.nodes[y], B[y], h[y]) /\ Bounds(B[y], Size(t, y))
    BY NodeIs DEF Standing
  <2>2. c \in 1 .. Size(t, y) + 1
    BY <2>1 DEF NodeFits, Size
  <2>3. B[y][c + 1] \in Nat /\ B[y][c] \in Nat
    BY <2>1, <2>2, SlotIs
  <2>4. t.nodes[y].counts[c] = B[y][c + 1] - B[y][c] - 1 + 0
    BY <2>2 DEF PathCounted
  <2> QED BY <2>3, <2>4
<1> QED BY <1>1 DEF Exact

\* Parents and kids agree if all are as before.
LEMMA SameLinks ==
    ASSUME NEW t, NEW u, Linked(t), Nodes(u) = Nodes(t), u.root = t.root,
           \A y \in Nodes(t) : u.nodes[y].kids = t.nodes[y].kids /\ u.nodes[y].parent = t.nodes[y].parent
    PROVE  Linked(u)
BY DEF Linked

\* One count of a node is set.
Recount(t, y, c, v) == [t EXCEPT !.nodes[y].counts[c] = v]

\* A count set changes nothing but that count.
LEMMA RecountIs ==
    ASSUME NEW t, NEW h, NEW B, NEW G, Standing(t, h, B, G), NEW y \in Nodes(t),
           NEW c \in 1 .. Size(t, y) + 1, NEW v \in Int, NEW u, u = Recount(t, y, c, v)
    PROVE  /\ Standing(u, h, B, G) /\ Nodes(u) = Nodes(t) /\ u.root = t.root /\ u.sorted = t.sorted
           /\ \A z \in Nodes(t) : z # y => u.nodes[z] = t.nodes[z]
           /\ u.nodes[y].elems = t.nodes[y].elems /\ u.nodes[y].kids = t.nodes[y].kids
           /\ u.nodes[y].counts[c] = v
           /\ \A x \in 1 .. Size(t, y) + 1 : x # c => u.nodes[y].counts[x] = t.nodes[y].counts[x]
<1>1. /\ IsTree(t) /\ Linked(t) /\ t.nodes[y] \in Node234 /\ NodeFits(h, B, G, t.nodes[y], B[y], h[y])
      /\ Layout(t, h, B, G)
  BY NodeIs DEF Standing
<1>2. /\ t.nodes[y].counts \in Seq(Int) /\ Len(t.nodes[y].counts) = Size(t, y) + 1
      /\ DOMAIN t.nodes[y].counts = 1 .. Size(t, y) + 1
  BY <1>1, PartsAre DEF Size
<1> DEFINE s == [t.nodes[y].counts EXCEPT ![c] = v]
           node == [t.nodes[y] EXCEPT !.counts = s]
<1>3. s \in Seq(Int) /\ Len(s) = Size(t, y) + 1
  BY <1>2
<1>4. s[c] = v /\ \A x \in 1 .. Size(t, y) + 1 : x # c => s[x] = t.nodes[y].counts[x]
  BY <1>2
<1>5. /\ node \in Node234 /\ node.counts = s
      /\ node.elems = t.nodes[y].elems /\ node.kids = t.nodes[y].kids /\ node.parent = t.nodes[y].parent
  <2> HIDE DEF s
  <2> QED BY <1>1, <1>3 DEF Node234
<1>6. u = [t EXCEPT !.nodes = [@ EXCEPT ![y] = node]]
  BY DEF Recount
<1> HIDE DEF node, s
<1>7. /\ t.nodes \in [Nodes(t) -> Node234] /\ t \in [root : Nat, nodes : Heaps(Nodes(t)), sorted : BOOLEAN]
      /\ Nodes(t) \in SUBSET (Nat \ {0}) /\ IsFiniteSet(Nodes(t))
  BY <1>1 DEF IsTree, Heaps
<1>8. /\ u.nodes = [t.nodes EXCEPT ![y] = node] /\ u.root = t.root /\ u.sorted = t.sorted
      /\ DOMAIN u.nodes = DOMAIN t.nodes
  BY <1>6, <1>7
<1>9. Nodes(u) = Nodes(t) /\ u.nodes[y] = node /\ \A z \in Nodes(t) : z # y => u.nodes[z] = t.nodes[z]
  BY <1>7, <1>8 DEF Nodes
<1>10. IsTree(u)
  <2>1. u.nodes \in Heaps(Nodes(u))
    BY <1>5, <1>7, <1>8, <1>9 DEF Heaps
  <2>2. u \in [root : Nat, nodes : Heaps(Nodes(u)), sorted : BOOLEAN]
    BY <1>6, <1>7, <1>8, <1>9, <2>1
  <2> QED BY <1>7, <1>9, <2>2 DEF IsTree
<1>11. Linked(u)
  BY <1>1, <1>5, <1>8, <1>9, SameLinks
<1>12. \A z \in Nodes(t) : NodeFits(h, B, G, u.nodes[z], B[z], h[z])
  <2>1. NodeFits(h, B, G, node, B[y], h[y])
    BY <1>1, <1>3, <1>5 DEF NodeFits, Size
  <2> QED BY <1>1, <1>9, <2>1 DEF Layout
<1>13. Layout(u, h, B, G)
  BY <1>1, <1>8, <1>9, <1>12 DEF Layout
<1> QED BY <1>4, <1>5, <1>8, <1>9, <1>10, <1>11, <1>13 DEF Standing

\* A step up the path: the parent of node n, which has gap i, gets its count right.
LEMMA PathStep ==
    ASSUME NEW t, NEW h, NEW B, NEW G, Standing(t, h, B, G), NEW n \in Nodes(t), n # t.root,
           NEW i \in Nat, Covers(B[n], i), NEW d \in Int, PathCounted(t, h, B, d, i, h[n]),
           NEW v, v = Hi(B[n]) - Lo(B[n]) - 1,
           NEW u, u = Recount(t, t.nodes[n].parent, ChildNum(t, n), v)
    PROVE  /\ Standing(u, h, B, G) /\ u.sorted = t.sorted /\ Nodes(u) = Nodes(t) /\ u.root = t.root
           /\ t.nodes[n].parent \in Nodes(t) /\ Covers(B[t.nodes[n].parent], i)
           /\ \A y \in Nodes(t) : Size(u, y) = Size(t, y)
           /\ PathCounted(u, h, B, d, i, h[t.nodes[n].parent])
<1> DEFINE y == t.nodes[n].parent
           c == ChildNum(t, n)
<1>1. y \in Nodes(t) /\ h[y] = h[n] + 1 /\ c \in 1 .. Size(t, y) + 1 /\ IsKid(t, h, B, y, c, n)
  BY ParentIs DEF Standing
<1> HIDE DEF y, c
<1>2. /\ Bounds(B[y], Size(t, y)) /\ h[y] \in Nat /\ h[n] \in Nat
      /\ Bounds(B[n], Size(t, n))
  BY <1>1, NodeIs DEF Standing
<1>3. Lo(B[n]) = B[y][c] /\ Hi(B[n]) = B[y][c + 1]
  BY <1>1 DEF IsKid
<1>4. InSlot(B[y], c, i)
  BY <1>3 DEF InSlot, Covers
<1>5. /\ B[y][c] \in Nat /\ B[y][c + 1] \in Nat /\ Lo(B[y]) <= B[y][c] /\ B[y][c + 1] <= Hi(B[y])
      /\ Lo(B[y]) \in Nat /\ Hi(B[y]) \in Nat
  BY <1>1, <1>2, SlotIs
<1>6. Covers(B[y], i)
  BY <1>4, <1>5 DEF InSlot, Covers
<1>7. v \in Int /\ v = B[y][c + 1] - B[y][c] - 1
  BY <1>3, <1>5
<1>8. u = Recount(t, y, c, v)
  BY ZenonT(40) DEF y, c
<1>9. /\ Standing(u, h, B, G) /\ Nodes(u) = Nodes(t) /\ u.root = t.root /\ u.sorted = t.sorted
      /\ \A z \in Nodes(t) : z # y => u.nodes[z] = t.nodes[z]
      /\ u.nodes[y].elems = t.nodes[y].elems /\ u.nodes[y].kids = t.nodes[y].kids
      /\ u.nodes[y].counts[c] = v
      /\ \A x \in 1 .. Size(t, y) + 1 : x # c => u.nodes[y].counts[x] = t.nodes[y].counts[x]
  BY <1>1, <1>7, <1>8, RecountIs, SMTT(40)
<1>10. \A z \in Nodes(t) : Size(u, z) = Size(t, z)
  BY <1>9, ZenonT(40) DEF Size
<1>11. ASSUME NEW z \in Nodes(t), NEW x \in 1 .. Size(t, z) + 1
       PROVE  u.nodes[z].counts[x] = B[z][x + 1] - B[z][x] - 1
                               + (IF h[z] > h[y] /\ InSlot(B[z], x, i) THEN d ELSE 0)
  <2>1. Bounds(B[z], Size(t, z)) /\ h[z] \in Nat
    BY NodeIs DEF Standing
  <2>2. B[z][x + 1] \in Nat /\ B[z][x] \in Nat /\ Lo(B[z]) <= B[z][x] /\ B[z][x + 1] <= Hi(B[z])
        /\ Lo(B[z]) \in Nat /\ Hi(B[z]) \in Nat
    BY <2>1, SlotIs
  <2>3. t.nodes[z].counts[x] = B[z][x + 1] - B[z][x] - 1
                               + (IF h[z] > h[n] /\ InSlot(B[z], x, i) THEN d ELSE 0)
    BY DEF PathCounted
  <2>4. CASE z = y /\ x = c
    <3>1. ~ (h[z] > h[y])
      BY <1>2, <2>4, SMTT(40)
    <3>2. u.nodes[z].counts[x] = B[z][x + 1] - B[z][x] - 1
      BY <1>7, <1>9, <2>4, ZenonT(40)
    <3>3. B[z][x + 1] - B[z][x] - 1 + 0 = B[z][x + 1] - B[z][x] - 1
      BY <2>2
    <3> QED BY <3>1, <3>2, <3>3
  <2>5. CASE z = y /\ x # c
    <3>1. ~ InSlot(B[z], x, i)
      <4>1. x \in 1 .. Size(t, y) + 1
        BY <2>5, SMTT(40)
      <4> QED BY <1>1, <1>2, <1>4, <2>5, <4>1, SlotUnique
    <3>2. u.nodes[z].counts[x] = t.nodes[z].counts[x]
      BY <1>9, <2>5, ZenonT(40)
    <3> QED BY <2>3, <3>1, <3>2
  <2>6. CASE z # y
    <3>1. u.nodes[z].counts[x] = t.nodes[z].counts[x]
      BY <1>9, <2>6, ZenonT(40)
    <3>2. InSlot(B[z], x, i) => (h[z] > h[n] <=> h[z] > h[y])
      <4>1. SUFFICES ASSUME InSlot(B[z], x, i), h[z] = h[y] PROVE FALSE
        BY <1>1, <1>2, <2>1
      <4>2. Covers(B[z], i)
        BY <2>2, <4>1 DEF InSlot, Covers
      <4> QED BY <1>1, <1>6, <2>6, <4>1, <4>2, SameGap
    <3> QED BY <2>3, <3>1, <3>2, SMTT(40)
  <2> QED BY <2>4, <2>5, <2>6
<1>12. PathCounted(u, h, B, d, i, h[y])
  <2>1. ASSUME NEW z \in Nodes(u), NEW x \in 1 .. Size(u, z) + 1
        PROVE  u.nodes[z].counts[x] = B[z][x + 1] - B[z][x] - 1
                               + (IF h[z] > h[y] /\ InSlot(B[z], x, i) THEN d ELSE 0)
    <3>1. z \in Nodes(t) /\ x \in 1 .. Size(t, z) + 1
      BY <1>9, <1>10, <2>1, ZenonT(40)
    <3> QED BY <1>11, <3>1, SMTT(40)
  <2> QED BY ONLY <2>1 DEF PathCounted
<1> QED BY <1>1, <1>6, <1>9, <1>10, <1>12, ZenonT(40) DEF y

--------------------------------------------------------------------------------
(*****************************************************************************)
(* An element is put into a leaf: the positions behind it move up.           *)
(*****************************************************************************)

\* Positions move by F, a function of them.
Across(F, b) == [j \in 1 .. Len(b) |-> F[b[j]]]

IsAcross(a, F, b, k) ==
    /\ a \in Seq(Nat) /\ Len(a) = k + 2 /\ Lo(a) = F[Lo(b)] /\ Hi(a) = F[Hi(b)]
    /\ \A j \in 1 .. k + 2 : a[j] = F[b[j]] /\ F[b[j]] \in Nat

Moves(F, M) == \A p \in 0 .. M : F[p] \in Nat

\* The boundaries of a node after a move, one by one.
LEMMA AcrossIs ==
    ASSUME NEW M \in Nat, NEW F, Moves(F, M), NEW k, NEW b, Bounds(b, k), Hi(b) <= M
    PROVE  IsAcross(Across(F, b), F, b, k)
<1>1. k \in Nat /\ Len(b) = k + 2 /\ Lo(b) = b[1] /\ Hi(b) = b[k + 2]
      /\ \A c \in 1 .. k + 2 : b[c] \in Nat /\ b[c] <= Hi(b)
  BY DEF Bounds
<1>2. 1 \in 1 .. k + 2 /\ k + 2 \in 1 .. k + 2 /\ k + 2 \in Nat
  BY <1>1
<1>3. ASSUME NEW j \in 1 .. k + 2 PROVE b[j] \in 0 .. M /\ F[b[j]] \in Nat
  <2>1. b[j] \in Nat /\ b[j] <= Hi(b) /\ Hi(b) \in Nat
    BY <1>1, <1>2
  <2>2. b[j] \in 0 .. M
    BY <2>1
  <2> QED BY <2>2 DEF Moves
<1>4. Across(F, b) = [j \in 1 .. k + 2 |-> F[b[j]]]
  BY <1>1 DEF Across
<1>5. Across(F, b) \in Seq(Nat) /\ Len(Across(F, b)) = k + 2
      /\ \A j \in 1 .. k + 2 : Across(F, b)[j] = F[b[j]]
  <2>1. PICK K \in Nat : K = k + 2
    BY <1>2
  <2>2. \A j \in 1 .. K : F[b[j]] \in Nat
    BY <1>3, <2>1
  <2>3. [j \in 1 .. K |-> F[b[j]]] \in Seq(Nat) /\ Len([j \in 1 .. K |-> F[b[j]]]) = K
    BY ONLY <2>2
  <2> QED BY <1>4, <2>1, <2>3
<1>6. Lo(Across(F, b)) = F[b[1]] /\ Hi(Across(F, b)) = F[b[k + 2]]
  BY <1>2, <1>5 DEF Lo, Hi
<1> QED BY <1>1, <1>3, <1>5, <1>6 DEF IsAcross

\* What a move does not disturb: a node other than the one, n, that is changed.
Carried(F, L, G, b, k, x) ==
    /\ \A i, j \in 1 .. k + 2 : i < j => F[b[i]] < F[b[j]]
    /\ x = 0 => \A c \in 1 .. k + 1 : F[b[c + 1]] = F[b[c]] + 1
    /\ \A c \in 1 .. k : G[F[b[c + 1]]] = L[b[c + 1]]
    /\ F[Hi(b)] <= Len(G) + 1

\* A node that the move does not disturb fits where it has moved.
LEMMA CarriedFits ==
    ASSUME NEW M \in Nat, NEW F, Moves(F, M), NEW h, NEW B, NEW L, NEW G,
           NEW node \in Node234, NEW b \in Seq(Nat), NEW x \in Nat, NodeFits(h, B, L, node, b, x),
           Hi(b) <= M, Carried(F, L, G, b, Len(node.elems), x), NEW B2,
           \A k \in DOMAIN h : Lo(B2[k]) = F[Lo(B[k])] /\ Hi(B2[k]) = F[Hi(B[k])]
    PROVE  NodeFits(h, B2, G, node, Across(F, b), x)
<1>1. PICK k \in Nat : k = Len(node.elems)
  BY PartsAre
<1>2. Bounds(b, k)
  BY <1>1, BoundsAre
<1> DEFINE a == Across(F, b)
<1>3. /\ a \in Seq(Nat) /\ Len(a) = k + 2 /\ Lo(a) = F[Lo(b)] /\ Hi(a) = F[Hi(b)]
      /\ \A j \in 1 .. k + 2 : a[j] = F[b[j]] /\ F[b[j]] \in Nat
  BY <1>2, AcrossIs DEF IsAcross
<1> HIDE DEF a
<1>4. Rising(a)
  <2>1. DOMAIN a = 1 .. k + 2
    BY <1>3
  <2> QED BY <1>1, <1>3, <2>1 DEF Rising, Carried
<1>5. ASSUME NEW c \in 1 .. k + 1 PROVE KidFits(h, B2, node.kids[c], x, a[c], a[c + 1])
  <2>1. c \in 1 .. k + 2 /\ c + 1 \in 1 .. k + 2
    BY <1>1
  <2>2. a[c] = F[b[c]] /\ a[c + 1] = F[b[c + 1]]
    BY <1>3, <2>1
  <2>3. KidFits(h, B, node.kids[c], x, b[c], b[c + 1])
    BY <1>1 DEF NodeFits
  <2>4. CASE x = 0
    BY <1>1, <2>2, <2>3, <2>4 DEF KidFits, Carried
  <2>5. CASE x # 0
    BY <2>2, <2>3, <2>5 DEF KidFits
  <2> QED BY <2>4, <2>5
<1>6. ASSUME NEW c \in 1 .. k PROVE node.elems[c] = G[a[c + 1]]
  <2>1. c + 1 \in 1 .. k + 2
    BY <1>1
  <2>2. node.elems[c] = L[b[c + 1]]
    BY <1>1 DEF NodeFits
  <2> QED BY <1>1, <1>3, <2>1, <2>2 DEF Carried
<1>7. Hi(a) <= Len(G) + 1
  BY <1>3 DEF Carried
<1>8. Len(node.elems) >= 1 /\ Len(node.kids) = Len(node.elems) + 1
      /\ Len(node.counts) = Len(node.elems) + 1
  BY DEF NodeFits
<1>9. NodeFits(h, B2, G, node, a, x)
  BY <1>1, <1>3, <1>4, <1>5, <1>6, <1>7, <1>8 DEF NodeFits
<1> QED BY <1>9 DEF a

\* Leaf n is changed and the positions move.
ShiftedTree(t, h, B, L, n, F, u, B2, G) ==
    /\ Moves(F, Len(L) + 1) /\ F[0] = 0 /\ F[Len(L) + 1] = Len(G) + 1 /\ G \in Seq(Int)
    /\ IsTree(u) /\ Nodes(u) = Nodes(t) /\ u.root = t.root
    /\ \A y \in Nodes(t) : y # n => u.nodes[y] = t.nodes[y]
    /\ u.nodes[n].parent = t.nodes[n].parent
    /\ B2 \in [Nodes(t) -> Seq(Nat)]
    /\ \A y \in Nodes(t) : y # n => /\ B2[y] = Across(F, B[y])
                                    /\ Carried(F, L, G, B[y], Size(t, y), h[y])
    /\ Lo(B2[n]) = F[Lo(B[n])] /\ Hi(B2[n]) = F[Hi(B[n])]
    /\ NodeFits(h, B2, G, u.nodes[n], B2[n], h[n])

\* A leaf has no kid but NULL.
LEMMA LeafKids ==
    ASSUME NEW h, NEW B, NEW G, NEW node \in Node234, NEW b, NodeFits(h, B, G, node, b, 0)
    PROVE  ToSet(node.kids) = {NULL}
<1>1. /\ DOMAIN node.kids = 1 .. Len(node.elems) + 1 /\ Len(node.elems) \in Nat
  BY PartsAre
<1>2. \A c \in 1 .. Len(node.elems) + 1 : node.kids[c] = NULL
  BY DEF NodeFits, KidFits
<1>3. 1 \in 1 .. Len(node.elems) + 1
  BY <1>1
<1> QED BY <1>1, <1>2, <1>3 DEF ToSet

\* The tree stands again: the leaf fits by assumption, the others are carried.
LEMMA ShiftStands ==
    ASSUME NEW t, NEW h, NEW B, NEW L, Standing(t, h, B, L), NEW n \in Nodes(t), h[n] = 0,
           NEW F, NEW u, NEW B2, NEW G, ShiftedTree(t, h, B, L, n, F, u, B2, G)
    PROVE  Standing(u, h, B2, G)
<1>1. IsTree(t) /\ Linked(t) /\ Layout(t, h, B, L)
  BY DEF Standing
<1>2. /\ IsTree(u) /\ Nodes(u) = Nodes(t) /\ u.root = t.root
      /\ \A y \in Nodes(t) : y # n => u.nodes[y] = t.nodes[y]
      /\ u.nodes[n].parent = t.nodes[n].parent
      /\ NodeFits(h, B2, G, u.nodes[n], B2[n], h[n])
      /\ Moves(F, Len(L) + 1)
  BY DEF ShiftedTree
<1>3. u.nodes[n] \in Node234
  <2>1. u.nodes \in [Nodes(u) -> Node234]
    BY <1>2 DEF IsTree, Heaps
  <2> QED BY <1>2, <2>1
<1>4. ToSet(u.nodes[n].kids) = {NULL} /\ ToSet(t.nodes[n].kids) = {NULL}
  <2>1. NodeFits(h, B, L, t.nodes[n], B[n], 0) /\ t.nodes[n] \in Node234
    BY <1>1, NodeIs
  <2>2. NodeFits(h, B2, G, u.nodes[n], B2[n], 0)
    BY <1>2
  <2> QED BY <1>3, <2>1, <2>2, LeafKids
<1>5. Linked(u)
  <2>1. \A y, k \in Nodes(t) : k \in ToSet(u.nodes[y].kids) <=> k \in ToSet(t.nodes[y].kids)
    <3> SUFFICES ASSUME NEW y \in Nodes(t), NEW k \in Nodes(t)
                 PROVE  k \in ToSet(u.nodes[y].kids) <=> k \in ToSet(t.nodes[y].kids)
      OBVIOUS
    <3>1. CASE y = n
      BY <1>4, <3>1
    <3>2. CASE y # n
      BY <1>2, <3>2
    <3> QED BY <3>1, <3>2
  <2>2. \A k \in Nodes(t) : u.nodes[k].parent = t.nodes[k].parent
    BY <1>2
  <2> QED BY <1>1, <1>2, <2>1, <2>2 DEF Linked
<1>6. ASSUME NEW y \in Nodes(t)
      PROVE  Lo(B2[y]) = F[Lo(B[y])] /\ Hi(B2[y]) = F[Hi(B[y])]
  <2>1. CASE y = n
    BY <2>1 DEF ShiftedTree
  <2>2. CASE y # n
    <3>1. Bounds(B[y], Size(t, y)) /\ Hi(B[y]) <= Len(L) + 1 /\ Len(L) \in Nat
      BY <1>1, NodeIs
    <3>2. Len(L) + 1 \in Nat
      BY <3>1
    <3>3. B2[y] = Across(F, B[y])
      BY <2>2 DEF ShiftedTree
    <3> QED BY <1>2, <3>1, <3>2, <3>3, AcrossIs DEF IsAcross
  <2> QED BY <2>1, <2>2
<1>7. ASSUME NEW y \in Nodes(t) PROVE NodeFits(h, B2, G, u.nodes[y], B2[y], h[y])
  <2>1. CASE y = n
    BY <1>2, <2>1
  <2>2. CASE y # n
    <3>1. /\ t.nodes[y] \in Node234 /\ B[y] \in Seq(Nat) /\ h[y] \in Nat
          /\ NodeFits(h, B, L, t.nodes[y], B[y], h[y])
          /\ Hi(B[y]) <= Len(L) + 1 /\ Len(L) \in Nat /\ DOMAIN h = Nodes(t)
      BY <1>1, NodeIs
    <3>2. Len(L) + 1 \in Nat
      BY <3>1
    <3>3. B2[y] = Across(F, B[y]) /\ Carried(F, L, G, B[y], Len(t.nodes[y].elems), h[y])
      BY <2>2 DEF ShiftedTree, Size
    <3>4. \A k \in DOMAIN h : Lo(B2[k]) = F[Lo(B[k])] /\ Hi(B2[k]) = F[Hi(B[k])]
      BY <1>6, <3>1
    <3>5. NodeFits(h, B2, G, t.nodes[y], Across(F, B[y]), h[y])
      BY <1>2, <3>1, <3>2, <3>3, <3>4, CarriedFits
    <3> QED BY <1>2, <2>2, <3>3, <3>5
  <2> QED BY <2>1, <2>2
<1>8. Layout(u, h, B2, G)
  <2>1. /\ h \in [Nodes(t) -> Nat] /\ t.root \in Nodes(t) /\ Lo(B[t.root]) = 0
        /\ Hi(B[t.root]) = Len(L) + 1 /\ \A y \in Nodes(t) : h[y] <= h[t.root]
    BY <1>1 DEF Layout
  <2>2. t.root # NULL
    BY <2>1, NodeIs, <1>1
  <2>3. Lo(B2[t.root]) = 0 /\ Hi(B2[t.root]) = Len(G) + 1
    BY <1>6, <2>1 DEF ShiftedTree
  <2>4. B2 \in [Nodes(t) -> Seq(Nat)] /\ G \in Seq(Int)
    BY DEF ShiftedTree
  <2> QED BY <1>2, <1>7, <2>1, <2>2, <2>3, <2>4 DEF Layout
<1> QED BY <1>2, <1>5, <1>8 DEF Standing

\* An item more.
IsInserted(w, S, s, i, x) ==
    /\ w \in Seq(S) /\ Len(w) = Len(s) + 1
    /\ \A j \in 1 .. i - 1 : w[j] = s[j]
    /\ w[i] = x
    /\ \A j \in i .. Len(s) : w[j + 1] = s[j]

\* InsertAt does what IsInserted says.
LEMMA InsertedIs ==
    ASSUME NEW S, NEW s \in Seq(S), NEW i \in 1 .. Len(s) + 1, NEW x \in S
    PROVE  IsInserted(InsertAt(s, i, x), S, s, i, x)
<1>1. /\ InsertAt(s, i, x) \in Seq(S) /\ Len(InsertAt(s, i, x)) = Len(s) + 1
      /\ \A j \in 1 .. i - 1 : InsertAt(s, i, x)[j] = s[j]
      /\ InsertAt(s, i, x)[i] = x
      /\ \A j \in i .. Len(s) : InsertAt(s, i, x)[j + 1] = s[j]
  BY InsertedAt
<1> QED BY <1>1 DEF IsInserted

\* An item of s is replaced by two.
Around(s, pos, x, y) == ReplaceAt(InsertAt(s, pos, x), pos + 1, y)

IsAround(w, S, s, pos, x, y) ==
    /\ w \in Seq(S) /\ Len(w) = Len(s) + 1
    /\ \A j \in 1 .. pos - 1 : w[j] = s[j]
    /\ w[pos] = x /\ w[pos + 1] = y
    /\ \A j \in pos + 1 .. Len(s) : w[j + 1] = s[j]

\* Putting two items for one does what IsAround says.
LEMMA AroundIs ==
    ASSUME NEW S, NEW s \in Seq(S), NEW pos \in 1 .. Len(s), NEW x \in S, NEW y \in S
    PROVE  IsAround(Around(s, pos, x, y), S, s, pos, x, y)
<1> DEFINE i == InsertAt(s, pos, x)
           w == ReplaceAt(i, pos + 1, y)
<1>1. pos \in 1 .. Len(s) + 1 /\ pos \in Nat /\ Len(s) \in Nat /\ pos >= 1 /\ pos <= Len(s)
  OBVIOUS
<1>2. /\ i \in Seq(S) /\ Len(i) = Len(s) + 1
      /\ \A j \in 1 .. pos - 1 : i[j] = s[j]
      /\ i[pos] = x
      /\ \A j \in pos .. Len(s) : i[j + 1] = s[j]
  BY <1>1, InsertedAt
<1> HIDE DEF i
<1>3. pos + 1 \in 1 .. Len(i)
  BY <1>1, <1>2
<1>4. /\ w \in Seq(S) /\ Len(w) = Len(i)
      /\ \A j \in 1 .. Len(i) : w[j] = IF j = pos + 1 THEN y ELSE i[j]
  <2>1. i \in Seq(S) /\ y \in S /\ pos + 1 \in 1 .. Len(i)
    BY <1>2, <1>3
  <2> QED BY ONLY <2>1, ReplacedAt
<1> HIDE DEF w
<1>5. \A j \in 1 .. Len(s) + 1 : w[j] = IF j = pos + 1 THEN y ELSE i[j]
  BY <1>2, <1>4
<1>6. \A j \in 1 .. pos - 1 : w[j] = s[j]
  <2> SUFFICES ASSUME NEW j \in 1 .. pos - 1 PROVE w[j] = s[j]
    OBVIOUS
  <2>1. j \in 1 .. Len(s) + 1 /\ j # pos + 1
    BY <1>1
  <2> QED BY <1>2, <1>5, <2>1
<1>7. w[pos] = x /\ w[pos + 1] = y
  <2>1. pos \in 1 .. Len(s) + 1 /\ pos # pos + 1 /\ pos + 1 \in 1 .. Len(s) + 1
    BY <1>1
  <2> QED BY <1>2, <1>5, <2>1
<1>8. \A j \in pos + 1 .. Len(s) : w[j + 1] = s[j]
  <2> SUFFICES ASSUME NEW j \in pos + 1 .. Len(s) PROVE w[j + 1] = s[j]
    OBVIOUS
  <2>1. j + 1 \in 1 .. Len(s) + 1 /\ j + 1 # pos + 1 /\ j \in pos .. Len(s)
    BY <1>1
  <2> QED BY <1>2, <1>5, <2>1
<1>9. IsAround(w, S, s, pos, x, y)
  BY <1>2, <1>4, <1>6, <1>7, <1>8 DEF IsAround
<1> QED BY <1>9 DEF Around, w, i

IsWide(w, node, pos, l, e, r, x, y) ==
    /\ w \in Node234 /\ w.parent = node.parent
    /\ IsInserted(w.elems, Int, node.elems, pos, e)
    /\ IsAround(w.kids, Nat, node.kids, pos, l, r)
    /\ IsAround(w.counts, Int, node.counts, pos, x, y)

\* Widened gives node n one more element and two kids for one, with their counts.
LEMMA WidenedIs ==
    ASSUME NEW t, NEW n, t.nodes[n] \in Node234,
           Len(t.nodes[n].kids) = Size(t, n) + 1, Len(t.nodes[n].counts) = Size(t, n) + 1,
           NEW c \in Nat, c >= 1, NEW pos, pos = (IF c < Size(t, n) + 1 THEN c ELSE Size(t, n) + 1),
           NEW l \in Nat, NEW e \in Int, NEW r \in Nat,
           NEW x \in Int, x = countnode234(t, l), NEW y \in Int, y = countnode234(t, r)
    PROVE  IsWide(Widened(t, n, c, l, e, r), t.nodes[n], pos, l, e, r, x, y)
<1> DEFINE node == t.nodes[n]
           w == Widened(t, n, c, l, e, r)
           es == InsertAt(node.elems, pos, e)
           ks == Around(node.kids, pos, l, r)
           cs == Around(node.counts, pos, x, y)
<1>1. w = [node EXCEPT !.elems = es, !.kids = ks, !.counts = cs]
  BY DEF Widened, Around
<1>2. node.elems \in Seq(Int) /\ node.kids \in Seq(Nat) /\ node.counts \in Seq(Int) /\ node \in Node234
  BY DEF Node234
<1>3. pos \in 1 .. Len(node.elems) + 1 /\ pos \in 1 .. Len(node.kids) /\ pos \in 1 .. Len(node.counts)
  <2>1. Len(node.elems) \in Nat
    BY <1>2
  <2>2. pos \in 1 .. Len(node.elems) + 1
    BY DEF Size
  <2>3. Len(node.kids) = Len(node.elems) + 1 /\ Len(node.counts) = Len(node.elems) + 1
    BY DEF Size
  <2> QED BY ONLY <2>1, <2>2, <2>3
<1>4. IsInserted(es, Int, node.elems, pos, e)
  BY <1>2, <1>3, InsertedIs
<1>5. IsAround(ks, Nat, node.kids, pos, l, r)
  BY <1>2, <1>3, AroundIs
<1>6. IsAround(cs, Int, node.counts, pos, x, y)
  BY <1>2, <1>3, AroundIs
<1> HIDE DEF w, es, ks, cs, node
<1>7. /\ w.elems = es /\ w.kids = ks /\ w.counts = cs /\ w.parent = node.parent /\ w \in Node234
  BY <1>1, <1>2, <1>4, <1>5, <1>6 DEF Node234, IsAround, IsInserted
<1> QED BY <1>4, <1>5, <1>6, <1>7 DEF IsWide, w, node

\* Nodes with the same parts are the same.
LEMMA SameNode ==
    ASSUME NEW x \in Node234, NEW y \in Node234, Content(x, y), x.parent = y.parent
    PROVE  x = y
BY SMTT(40) DEF Node234, Content

\* The positions behind gap i move up by one.
Apart(M, i) == [p \in 0 .. M |-> IF p > i THEN p + 1 ELSE p]

IsApart(F, M, i) ==
    /\ Moves(F, M) /\ F[0] = 0 /\ F[M] = M + 1
    /\ \A p \in Nat : p <= M => F[p] = IF p > i THEN p + 1 ELSE p

\* Apart does what IsApart says.
LEMMA ApartIs ==
    ASSUME NEW M \in Nat, NEW i \in Nat, i < M
    PROVE  IsApart(Apart(M, i), M, i)
<1> DEFINE F == Apart(M, i)
<1>1. \A p \in 0 .. M : F[p] = IF p > i THEN p + 1 ELSE p
  BY DEF Apart
<1>2. ASSUME NEW p \in Nat, p <= M PROVE F[p] = IF p > i THEN p + 1 ELSE p
  <2>1. p \in 0 .. M
    BY <1>2
  <2> QED BY <1>1, <2>1
<1>3. Moves(F, M)
  <2>1. ASSUME NEW p \in 0 .. M PROVE F[p] \in Nat
    BY <1>1
  <2> QED BY <2>1 DEF Moves
<1>4. 0 \in Nat /\ 0 <= M /\ ~ (0 > i) /\ M <= M /\ M > i
  OBVIOUS
<1>5. F[0] = 0 /\ F[M] = M + 1
  BY <1>2, <1>4
<1> QED BY <1>2, <1>3, <1>5 DEF IsApart

\* A list with an item more.
ListGrows(G, L, i, e) ==
    /\ G \in Seq(Int) /\ Len(G) = Len(L) + 1 /\ G[i + 1] = e
    /\ \A p \in Nat : /\ p >= 1 /\ p <= i => G[p] = L[p]
                      /\ p > i /\ p <= Len(L) => G[p + 1] = L[p]

\* Inserting an element does what ListGrows says.
LEMMA ListInserted ==
    ASSUME NEW L \in Seq(Int), NEW i \in Nat, i <= Len(L), NEW e \in Int
    PROVE  ListGrows(InsertAt(L, i + 1, e), L, i, e)
<1> DEFINE G == InsertAt(L, i + 1, e)
<1>1. i + 1 \in 1 .. Len(L) + 1
  OBVIOUS
<1>2. IsInserted(G, Int, L, i + 1, e)
  BY <1>1, InsertedIs
<1>3. \A p \in Nat : /\ p >= 1 /\ p <= i => p \in 1 .. (i + 1) - 1
                     /\ p > i /\ p <= Len(L) => p \in i + 1 .. Len(L)
  OBVIOUS
<1> HIDE DEF G
<1>4. ListGrows(G, L, i, e)
  BY <1>2, <1>3 DEF IsInserted, ListGrows
<1> QED BY <1>4 DEF G

\* Slots of a leaf have no positions in them.
LEMMA LeafSlots ==
    ASSUME NEW h, NEW B, NEW G, NEW node, NEW b, NodeFits(h, B, G, node, b, 0)
    PROVE  \A c \in 1 .. Len(node.elems) + 1 : node.kids[c] = NULL /\ b[c + 1] = b[c] + 1
BY DEF NodeFits, KidFits

\* Moving apart at a gap of a leaf disturbs no other node: its gaps are not the leaf's.
LEMMA CarriedApart ==
    ASSUME NEW t, NEW h, NEW B, NEW L, Standing(t, h, B, L), NEW n \in Nodes(t), h[n] = 0,
           NEW i \in Nat, Covers(B[n], i), NEW e, NEW F, IsApart(F, Len(L) + 1, i),
           NEW G, ListGrows(G, L, i, e), NEW y \in Nodes(t), y # n
    PROVE  Carried(F, L, G, B[y], Size(t, y), h[y])
<1>1. /\ Bounds(B[y], Size(t, y)) /\ Hi(B[y]) <= Len(L) + 1 /\ Len(L) \in Nat /\ h[y] \in Nat
      /\ NodeFits(h, B, L, t.nodes[y], B[y], h[y])
      /\ Bounds(B[n], Size(t, n)) /\ Hi(B[n]) <= Len(L) + 1 /\ L \in Seq(Int)
  BY NodeIs DEF Standing, Layout
<1> DEFINE b == B[y]
<1>2. PICK k \in Nat : k = Size(t, y)
  BY <1>1 DEF Bounds
<1>3. /\ \A c \in 1 .. k + 2 : b[c] \in Nat /\ Lo(b) <= b[c] /\ b[c] <= Hi(b)
      /\ \A c, d \in 1 .. k + 2 : c < d => b[c] < b[d]
      /\ Lo(b) = b[1] /\ Hi(b) = b[k + 2]
  BY <1>1, <1>2 DEF Bounds
<1>4. i < Len(L) + 1 /\ i <= Len(L) /\ Len(L) + 1 \in Nat
  <2>1. Hi(B[n]) \in Nat
    BY <1>1, EndsAre
  <2> QED BY <1>1, <2>1 DEF Covers
<1>5. \A p \in Nat : p <= Len(L) + 1 => F[p] = IF p > i THEN p + 1 ELSE p
  BY DEF IsApart
<1>6. Lo(b) \in Nat /\ Hi(b) \in Nat
  BY <1>1, EndsAre
<1>7. ASSUME NEW c \in 1 .. k + 2 PROVE F[b[c]] = (IF b[c] > i THEN b[c] + 1 ELSE b[c]) /\ b[c] \in Nat
  <2>1. b[c] \in Nat /\ b[c] <= Len(L) + 1
    BY <1>1, <1>3, <1>6, SMTT(40)
  <2> QED BY <1>5, <2>1
<1>8. ASSUME NEW c \in 1 .. k + 2, NEW d \in 1 .. k + 2, c < d PROVE F[b[c]] < F[b[d]]
  <2>1. b[c] < b[d] /\ b[c] \in Nat /\ b[d] \in Nat
    BY <1>3, <1>8
  <2>2. F[b[c]] = (IF b[c] > i THEN b[c] + 1 ELSE b[c]) /\ F[b[d]] = (IF b[d] > i THEN b[d] + 1 ELSE b[d])
    BY <1>7
  <2> QED BY <2>1, <2>2, SMTT(40)
<1>9. ASSUME h[y] = 0, NEW c \in 1 .. k + 1 PROVE F[b[c + 1]] = F[b[c]] + 1
  <2>1. c \in 1 .. k + 2 /\ c + 1 \in 1 .. k + 2
    BY <1>2
  <2>2. b[c + 1] = b[c] + 1
    BY <1>1, <1>2, <1>9, LeafSlots DEF Size
  <2>3. ~ (b[c] <= i /\ i < b[c + 1])
    <3>1. SUFFICES ASSUME b[c] <= i /\ i < b[c + 1] PROVE FALSE
      OBVIOUS
    <3>2. Covers(b, i)
      <4>1. /\ b[c] \in Nat /\ b[c + 1] \in Nat /\ Lo(b) <= b[c] /\ b[c + 1] <= Hi(b)
        BY <1>3, <2>1
      <4> HIDE DEF b
      <4> QED BY <1>6, <3>1, <4>1 DEF Covers
    <3> QED BY <1>9, <3>2, SameGap
  <2>4. b[c] \in Nat
    BY <1>3, <2>1
  <2>5. F[b[c]] = (IF b[c] > i THEN b[c] + 1 ELSE b[c])
        /\ F[b[c + 1]] = (IF b[c + 1] > i THEN b[c + 1] + 1 ELSE b[c + 1])
    BY <1>7, <2>1
  <2> QED BY <2>2, <2>3, <2>4, <2>5
<1>10. ASSUME NEW c \in 1 .. k PROVE G[F[b[c + 1]]] = L[b[c + 1]]
  <2>1. b[c + 1] \in Nat /\ Lo(b) < b[c + 1] /\ b[c + 1] < Hi(b)
    BY <1>1, <1>2, InnerIs
  <2>2. b[c + 1] >= 1 /\ b[c + 1] <= Len(L)
    BY <1>1, <1>6, <2>1, SMTT(40)
  <2>3. c + 1 \in 1 .. k + 2
    BY <1>2
  <2>4. F[b[c + 1]] = IF b[c + 1] > i THEN b[c + 1] + 1 ELSE b[c + 1]
    BY <1>7, <2>3
  <2>5. \A p \in Nat : /\ p >= 1 /\ p <= i => G[p] = L[p]
                       /\ p > i /\ p <= Len(L) => G[p + 1] = L[p]
    BY DEF ListGrows
  <2> QED BY <2>1, <2>2, <2>4, <2>5
<1>11. F[Hi(b)] <= Len(G) + 1
  <2>1. Len(G) = Len(L) + 1
    BY DEF ListGrows
  <2>2. F[Hi(b)] = IF Hi(b) > i THEN Hi(b) + 1 ELSE Hi(b)
    BY <1>1, <1>5, <1>6
  <2> QED BY <1>1, <1>6, <2>1, <2>2
<1> QED BY <1>2, <1>8, <1>9, <1>10, <1>11 DEF Carried

\* The boundaries of a leaf with a new element in slot pos.
LeafBounds(F, b, pos, i) == InsertAt(Across(F, b), pos + 1, i + 1)

IsLeafBounds(b2, b, k, pos) ==
    /\ b2 \in Seq(Nat) /\ Len(b2) = k + 3
    /\ \A j \in 1 .. pos : b2[j] = b[j]
    /\ b2[pos + 1] = b[pos] + 1
    /\ \A j \in pos + 1 .. k + 2 : b2[j + 1] = b[j] + 1

\* The boundaries of the wider leaf, one by one.
LEMMA LeafBoundsAre ==
    ASSUME NEW M \in Nat, NEW k, NEW b, Bounds(b, k), Hi(b) <= M, NEW pos \in 1 .. k + 1,
           NEW i \in Nat, i = b[pos], NEW F, IsApart(F, M, i)
    PROVE  IsLeafBounds(LeafBounds(F, b, pos, i), b, k, pos)
<1> DEFINE a == Across(F, b)
           b2 == LeafBounds(F, b, pos, i)
<1>1. /\ k \in Nat /\ Hi(b) \in Nat
      /\ \A c \in 1 .. k + 2 : b[c] \in Nat /\ Lo(b) <= b[c] /\ b[c] <= Hi(b)
      /\ \A c, d \in 1 .. k + 2 : c < d => b[c] < b[d]
  BY EndsAre DEF Bounds
<1>2. IsAcross(a, F, b, k)
  BY AcrossIs DEF IsApart
<1> HIDE DEF a
<1>3. a \in Seq(Nat) /\ Len(a) = k + 2 /\ \A j \in 1 .. k + 2 : a[j] = F[b[j]]
  BY <1>2 DEF IsAcross
<1>4. ASSUME NEW j \in 1 .. k + 2 PROVE a[j] = IF j > pos THEN b[j] + 1 ELSE b[j]
  <2>1. b[j] \in Nat /\ b[j] <= M /\ pos \in 1 .. k + 2
    BY <1>1
  <2>2. F[b[j]] = IF b[j] > i THEN b[j] + 1 ELSE b[j]
    BY <2>1 DEF IsApart
  <2>3. j > pos <=> b[j] > i
    <3>1. CASE j > pos
      BY <1>1, <2>1, <3>1
    <3>2. CASE j = pos
      BY <2>1, <3>2
    <3>3. CASE j < pos
      BY <1>1, <2>1, <3>3
    <3> QED BY <1>1, <3>1, <3>2, <3>3
  <2> QED BY <1>3, <2>2, <2>3
<1>5. IsInserted(b2, Nat, a, pos + 1, i + 1)
  <2>1. pos + 1 \in 1 .. Len(a) + 1 /\ i + 1 \in Nat
    BY <1>1, <1>3
  <2>2. IsInserted(InsertAt(a, pos + 1, i + 1), Nat, a, pos + 1, i + 1)
    BY <1>3, <2>1, InsertedIs
  <2> QED BY <2>2 DEF LeafBounds, a
<1> HIDE DEF b2
<1>6. /\ b2 \in Seq(Nat) /\ Len(b2) = k + 3
      /\ \A j \in 1 .. pos : b2[j] = a[j]
      /\ b2[pos + 1] = i + 1
      /\ \A j \in pos + 1 .. k + 2 : b2[j + 1] = a[j]
  <2>1. (pos + 1) - 1 = pos /\ (k + 2) + 1 = k + 3
    BY <1>1
  <2> QED BY <1>3, <1>5, <2>1 DEF IsInserted
<1>7. \A j \in 1 .. pos : b2[j] = b[j]
  <2> SUFFICES ASSUME NEW j \in 1 .. pos PROVE b2[j] = b[j]
    OBVIOUS
  <2>1. j \in 1 .. k + 2 /\ ~ (j > pos)
    BY <1>1
  <2> QED BY <1>4, <1>6, <2>1
<1>8. \A j \in pos + 1 .. k + 2 : b2[j + 1] = b[j] + 1
  <2> SUFFICES ASSUME NEW j \in pos + 1 .. k + 2 PROVE b2[j + 1] = b[j] + 1
    OBVIOUS
  <2>1. j \in 1 .. k + 2 /\ j > pos
    BY <1>1
  <2> QED BY <1>4, <1>6, <2>1
<1>9. IsLeafBounds(b2, b, k, pos)
  BY <1>6, <1>7, <1>8 DEF IsLeafBounds
<1> QED BY <1>9 DEF b2

\* The new boundaries rise, with no position in any slot.
Close(b, k) == \A c \in 1 .. k + 1 : b[c + 1] = b[c] + 1

LeafRises(b2, b, k) ==
    /\ \A c \in 1 .. k + 2 : b2[c + 1] = b2[c] + 1
    /\ \A c, d \in 1 .. k + 3 : c < d => b2[c] < b2[d]
    /\ Lo(b2) = Lo(b) /\ Hi(b2) = Hi(b) + 1

\* They rise one by one, from the old left end to one above the old right end.
LEMMA LeafBoundsRise ==
    ASSUME NEW k, NEW b, Bounds(b, k), Close(b, k),
           NEW pos \in 1 .. k + 1, NEW b2, IsLeafBounds(b2, b, k, pos)
    PROVE  LeafRises(b2, b, k)
<1> USE DEF Close
<1>1. /\ k \in Nat /\ Lo(b) = b[1] /\ Hi(b) = b[k + 2]
      /\ \A c \in 1 .. k + 2 : b[c] \in Nat
      /\ \A c, d \in 1 .. k + 2 : c < d => b[c] < b[d]
  BY DEF Bounds
<1>2. /\ Len(b2) = k + 3 /\ \A j \in 1 .. pos : b2[j] = b[j]
      /\ b2[pos + 1] = b[pos] + 1
      /\ \A j \in pos + 1 .. k + 2 : b2[j + 1] = b[j] + 1
  BY DEF IsLeafBounds
<1>3. ASSUME NEW c \in 1 .. k + 3
      PROVE  /\ c <= pos => b2[c] = b[c] /\ c \in 1 .. k + 2
             /\ c = pos + 1 => b2[c] = b[pos] + 1
             /\ c > pos + 1 => b2[c] = b[c - 1] + 1 /\ c - 1 \in 1 .. k + 2
  <2>1. ASSUME c <= pos PROVE b2[c] = b[c] /\ c \in 1 .. k + 2
    <3>1. c \in 1 .. pos /\ c \in 1 .. k + 2
      BY <1>1, <2>1
    <3> QED BY <1>2, <3>1
  <2>2. ASSUME c > pos + 1 PROVE b2[c] = b[c - 1] + 1 /\ c - 1 \in 1 .. k + 2
    <3>1. c - 1 \in pos + 1 .. k + 2 /\ c - 1 \in 1 .. k + 2 /\ (c - 1) + 1 = c
      BY <1>1, <2>2
    <3>2. b2[(c - 1) + 1] = b[c - 1] + 1
      BY <1>2, <3>1
    <3> QED BY <3>1, <3>2
  <2> QED BY <1>2, <2>1, <2>2
<1>4. \A c \in 1 .. k + 2 : b2[c + 1] = b2[c] + 1
  <2> SUFFICES ASSUME NEW c \in 1 .. k + 2 PROVE b2[c + 1] = b2[c] + 1
    OBVIOUS
  <2>1. c \in 1 .. k + 3 /\ c + 1 \in 1 .. k + 3
    BY <1>1
  <2>2. CASE c < pos
    <3>1. c + 1 <= pos /\ c <= pos /\ c \in 1 .. k + 1
      BY <1>1, <2>2
    <3> QED BY <1>3, <2>1, <3>1
  <2>3. CASE c = pos
    BY <1>3, <2>1, <2>3
  <2>4. CASE c = pos + 1
    <3>1. c + 1 > pos + 1 /\ (c + 1) - 1 = pos + 1
      BY <2>4
    <3>2. b2[c + 1] = b[pos + 1] + 1
      BY <1>3, <2>1, <3>1
    <3> QED BY <1>3, <2>1, <2>4, <3>2
  <2>5. CASE c > pos + 1
    <3>1. c + 1 > pos + 1 /\ (c + 1) - 1 = c /\ c - 1 \in 1 .. k + 1 /\ (c - 1) + 1 = c
      BY <1>1, <2>5
    <3>2. b2[c + 1] = b[c] + 1 /\ b2[c] = b[c - 1] + 1
      BY <1>3, <2>1, <2>5, <3>1
    <3>3. b[(c - 1) + 1] = b[c - 1] + 1
      BY <3>1
    <3> QED BY <3>1, <3>2, <3>3
  <2> QED BY <2>2, <2>3, <2>4, <2>5
<1>5. ASSUME NEW c \in 1 .. k + 3, NEW d \in 1 .. k + 3, c < d PROVE b2[c] < b2[d]
  <2>1. pos \in 1 .. k + 2 /\ pos \in Nat
    BY <1>1
  <2>2. CASE d <= pos
    BY <1>1, <1>3, <1>5, <2>2
  <2>3. CASE c <= pos /\ d = pos + 1
    <3>1. b[c] <= b[pos] /\ b[c] \in Nat /\ b[pos] \in Nat /\ b2[c] = b[c]
      BY <1>1, <1>3, <2>1, <2>3
    <3> QED BY <1>3, <2>3, <3>1
  <2>4. CASE c <= pos /\ d > pos + 1
    <3>1. d - 1 \in 1 .. k + 2 /\ c < d - 1 /\ b2[d] = b[d - 1] + 1 /\ b2[c] = b[c] /\ c \in 1 .. k + 2
      BY <1>3, <2>1, <2>4
    <3> QED BY <1>1, <3>1
  <2>5. CASE c = pos + 1 /\ d > pos + 1
    <3>1. d - 1 \in 1 .. k + 2 /\ pos < d - 1 /\ b2[d] = b[d - 1] + 1 /\ b2[c] = b[pos] + 1
      BY <1>3, <2>1, <2>5
    <3> QED BY <1>1, <2>1, <3>1
  <2>6. CASE c > pos + 1
    <3>1. d - 1 \in 1 .. k + 2 /\ c - 1 \in 1 .. k + 2 /\ c - 1 < d - 1
          /\ b2[d] = b[d - 1] + 1 /\ b2[c] = b[c - 1] + 1
      BY <1>3, <1>5, <2>1, <2>6
    <3> QED BY <1>1, <3>1
  <2> QED BY <1>5, <2>1, <2>2, <2>3, <2>4, <2>5, <2>6
<1>6. Lo(b2) = Lo(b) /\ Hi(b2) = Hi(b) + 1
  <2>1. 1 \in 1 .. pos /\ k + 2 \in pos + 1 .. k + 2 /\ (k + 2) + 1 = k + 3
    BY <1>1
  <2>2. b2[1] = b[1] /\ b2[k + 3] = b[k + 2] + 1
    BY <1>2, <2>1
  <2> QED BY <1>1, <1>2, <2>2 DEF Lo, Hi
<1> QED BY <1>4, <1>5, <1>6 DEF LeafRises

IsWideLeaf(h, B2, G, w, b2, k) ==
    /\ NodeFits(h, B2, G, w, b2, 0) /\ Exact(w, b2) /\ Len(w.elems) = k + 1
    /\ ToSet(w.kids) = {NULL}

\* The wider leaf fits, its counts are right, and it has no kid but NULL.
LEMMA WideLeafFits ==
    ASSUME NEW h, NEW B, NEW L, NEW node \in Node234, NEW b \in Seq(Nat), NodeFits(h, B, L, node, b, 0),
           Exact(node, b), NEW M \in Nat, M = Len(L), Hi(b) <= M + 1,
           NEW k \in Nat, k = Len(node.elems), NEW pos \in 1 .. k + 1,
           NEW e, NEW w, IsWide(w, node, pos, NULL, e, NULL, 0, 0),
           NEW b2, IsLeafBounds(b2, b, k, pos), NEW i \in Nat, i = b[pos],
           NEW G, ListGrows(G, L, i, e), NEW B2
    PROVE  IsWideLeaf(h, B2, G, w, b2, k)
<1>1. Bounds(b, k) /\ \A c \in 1 .. k + 1 : node.kids[c] = NULL /\ b[c + 1] = b[c] + 1
  BY BoundsAre, LeafSlots
<1>2. /\ k >= 1 /\ Lo(b) \in Nat /\ Hi(b) \in Nat
      /\ \A c \in 1 .. k + 2 : b[c] \in Nat /\ Lo(b) <= b[c] /\ b[c] <= Hi(b)
      /\ \A c, d \in 1 .. k + 2 : c < d => b[c] < b[d]
  BY <1>1, EndsAre DEF Bounds
<1>3. /\ \A c \in 1 .. k + 2 : b2[c + 1] = b2[c] + 1
      /\ \A c, d \in 1 .. k + 3 : c < d => b2[c] < b2[d]
      /\ Lo(b2) = Lo(b) /\ Hi(b2) = Hi(b) + 1
  <2>1. Close(b, k)
    BY <1>1 DEF Close
  <2>2. Bounds(b, k)
    BY <1>1
  <2>3. LeafRises(b2, b, k)
    BY <2>1, <2>2, LeafBoundsRise
  <2> QED BY ONLY <2>3 DEF LeafRises
<1>4. /\ b2 \in Seq(Nat) /\ Len(b2) = k + 3
      /\ \A j \in 1 .. pos : b2[j] = b[j]
      /\ b2[pos + 1] = b[pos] + 1
      /\ \A j \in pos + 1 .. k + 2 : b2[j + 1] = b[j] + 1
  BY DEF IsLeafBounds
<1>5. Len(node.kids) = k + 1 /\ Len(node.counts) = k + 1 /\ node.elems \in Seq(Int)
  BY PartsAre
<1>6. /\ w \in Node234 /\ IsInserted(w.elems, Int, node.elems, pos, e)
      /\ IsAround(w.kids, Nat, node.kids, pos, NULL, NULL)
      /\ IsAround(w.counts, Int, node.counts, pos, 0, 0)
  BY DEF IsWide
<1>7. /\ Len(w.elems) = k + 1 /\ w.elems[pos] = e
      /\ \A j \in 1 .. pos - 1 : w.elems[j] = node.elems[j]
      /\ \A j \in pos .. k : w.elems[j + 1] = node.elems[j]
  BY <1>6 DEF IsInserted
<1>8. /\ Len(w.kids) = k + 2 /\ w.kids[pos] = NULL /\ w.kids[pos + 1] = NULL
      /\ \A j \in 1 .. pos - 1 : w.kids[j] = node.kids[j]
      /\ \A j \in pos + 1 .. k + 1 : w.kids[j + 1] = node.kids[j]
  <2>1. (k + 1) + 1 = k + 2
    OBVIOUS
  <2> QED BY <1>5, <1>6, <2>1 DEF IsAround
<1>9. /\ Len(w.counts) = k + 2 /\ w.counts[pos] = 0 /\ w.counts[pos + 1] = 0
      /\ \A j \in 1 .. pos - 1 : w.counts[j] = node.counts[j]
      /\ \A j \in pos + 1 .. k + 1 : w.counts[j + 1] = node.counts[j]
  <2>1. (k + 1) + 1 = k + 2
    OBVIOUS
  <2> QED BY <1>5, <1>6, <2>1 DEF IsAround
<1>10. \A c \in 1 .. k + 1 : node.counts[c] = 0
  <2> SUFFICES ASSUME NEW c \in 1 .. k + 1 PROVE node.counts[c] = 0
    OBVIOUS
  <2>1. node.counts[c] = b[c + 1] - b[c] - 1
    BY <1>5 DEF Exact
  <2>2. c \in 1 .. k + 2 /\ b[c + 1] = b[c] + 1
    BY <1>1
  <2>3. b[c] \in Nat
    BY <1>2, <2>2
  <2> QED BY <2>1, <2>2, <2>3
<1>11. ASSUME NEW c \in 1 .. k + 2 PROVE w.kids[c] = NULL /\ w.counts[c] = 0
  <2>1. CASE c < pos
    <3>1. c \in 1 .. pos - 1 /\ c \in 1 .. k + 1
      BY <2>1
    <3> QED BY <1>1, <1>8, <1>9, <1>10, <3>1, ZenonT(40)
  <2>2. CASE c = pos \/ c = pos + 1
    BY <1>8, <1>9, <2>2
  <2>3. CASE c > pos + 1
    <3>1. c - 1 \in pos + 1 .. k + 1 /\ c - 1 \in 1 .. k + 1 /\ (c - 1) + 1 = c
      BY <2>3
    <3>2. w.kids[(c - 1) + 1] = node.kids[c - 1] /\ w.counts[(c - 1) + 1] = node.counts[c - 1]
      BY <1>8, <1>9, <3>1
    <3> QED BY <1>1, <1>10, <3>1, <3>2
  <2> QED BY <2>1, <2>2, <2>3
<1>12. /\ G[i + 1] = e /\ Len(G) = M + 1
       /\ \A p \in Nat : /\ p >= 1 /\ p <= i => G[p] = L[p]
                         /\ p > i /\ p <= M => G[p + 1] = L[p]
  BY DEF ListGrows
<1>13. ASSUME NEW c \in 1 .. k
       PROVE  /\ node.elems[c] = L[b[c + 1]] /\ b[c + 1] \in Nat /\ b[c + 1] >= 1 /\ b[c + 1] <= M
              /\ c < pos => b[c + 1] <= i
              /\ c >= pos => b[c + 1] > i
  <2>1. node.elems[c] = L[b[c + 1]]
    BY DEF NodeFits
  <2>2. b[c + 1] \in Nat /\ Lo(b) < b[c + 1] /\ b[c + 1] < Hi(b)
    BY <1>1, InnerIs
  <2>3. c + 1 \in 1 .. k + 2 /\ pos \in 1 .. k + 2
    OBVIOUS
  <2>4. c < pos => b[c + 1] <= i
    <3>1. CASE c + 1 < pos
      <4>1. b[c + 1] < b[pos] /\ b[pos] \in Nat
        BY <1>2, <2>3, <3>1
      <4> QED BY <2>2, <4>1, SMTT(40)
    <3>2. CASE c + 1 = pos
      BY <3>2
    <3>3. c < pos => c + 1 < pos \/ c + 1 = pos
      OBVIOUS
    <3> QED BY <3>1, <3>2, <3>3
  <2>5. c >= pos => b[c + 1] > i
    BY <1>2, <2>3
  <2>6. b[c + 1] >= 1 /\ b[c + 1] <= M
    <3>1. Lo(b) \in Nat /\ Hi(b) \in Nat
      BY <1>2, ZenonT(40)
    <3> QED BY ONLY <2>2, <3>1, Hi(b) <= M + 1, M \in Nat
  <2> QED BY ONLY <2>1, <2>2, <2>4, <2>5, <2>6, ZenonT(40)
<1>14. ASSUME NEW c \in 1 .. k + 1 PROVE w.elems[c] = G[b2[c + 1]]
  <2>1. CASE c < pos
    <3>1. c \in 1 .. pos - 1 /\ c \in 1 .. k /\ c + 1 \in 1 .. pos
      BY <2>1
    <3>2. b2[c + 1] = b[c + 1] /\ w.elems[c] = node.elems[c]
      BY <1>4, <1>7, <3>1
    <3>3. /\ node.elems[c] = L[b[c + 1]] /\ b[c + 1] \in Nat /\ b[c + 1] >= 1 /\ b[c + 1] <= i
      BY <1>13, <2>1, <3>1
    <3>4. G[b[c + 1]] = L[b[c + 1]]
      BY ONLY <1>12, <3>3
    <3> QED BY <3>2, <3>3, <3>4
  <2>2. CASE c = pos
    BY <1>4, <1>7, <1>12, <2>2
  <2>3. CASE c > pos
    <3>1. c - 1 \in pos .. k /\ c - 1 \in 1 .. k /\ (c - 1) + 1 = c /\ c \in pos + 1 .. k + 2 /\ c - 1 >= pos
      BY <2>3
    <3>2. w.elems[(c - 1) + 1] = node.elems[c - 1] /\ b2[c + 1] = b[c] + 1
      BY <1>4, <1>7, <3>1
    <3>3. PICK d \in 1 .. k : d = c - 1 /\ d >= pos /\ d + 1 = c
      BY <3>1
    <3>4. node.elems[d] = L[b[d + 1]] /\ b[d + 1] \in Nat /\ b[d + 1] <= M /\ b[d + 1] > i
      BY <1>13, <3>3
    <3>5. G[b[d + 1] + 1] = L[b[d + 1]]
      BY ONLY <1>12, <3>4
    <3> QED BY <3>1, <3>2, <3>3, <3>4, <3>5
  <2> QED BY <2>1, <2>2, <2>3
<1>15. Rising(b2)
  <2>1. DOMAIN b2 = 1 .. k + 3
    BY <1>4, SMTT(40)
  <2> QED BY <1>3, <2>1 DEF Rising
<1>16. NodeFits(h, B2, G, w, b2, 0)
  <2>1. k + 1 >= 1 /\ k + 2 = (k + 1) + 1 /\ k + 3 = (k + 1) + 2 /\ Hi(b2) <= Len(G) + 1
    <3>1. Hi(b2) = Hi(b) + 1 /\ Len(G) = M + 1 /\ Hi(b) \in Nat
      BY <1>2, <1>3, <1>12
    <3>2. Hi(b2) <= Len(G) + 1
      BY <3>1
    <3>3. k + 1 >= 1 /\ k + 2 = (k + 1) + 1 /\ k + 3 = (k + 1) + 2
      OBVIOUS
    <3> QED BY <3>2, <3>3
  <2>2. \A c \in 1 .. (k + 1) + 1 : KidFits(h, B2, w.kids[c], 0, b2[c], b2[c + 1])
    BY <1>3, <1>11, <2>1 DEF KidFits
  <2> QED BY <1>4, <1>7, <1>8, <1>9, <1>14, <1>15, <2>1, <2>2 DEF NodeFits
<1>17. Exact(w, b2)
  <2> SUFFICES ASSUME NEW c \in 1 .. k + 2 PROVE w.counts[c] = b2[c + 1] - b2[c] - 1
    BY <1>9 DEF Exact
  <2>1. b2[c] \in Nat
    <3>1. c \in 1 .. k + 3
      OBVIOUS
    <3>2. b2 \in Seq(Nat) /\ Len(b2) = k + 3
      BY <1>4
    <3> QED BY ONLY <3>1, <3>2
  <2>2. b2[c + 1] = b2[c] + 1 /\ w.counts[c] = 0
    BY <1>3, <1>11
  <2> QED BY <2>1, <2>2
<1>18. ToSet(w.kids) = {NULL}
  <2>1. DOMAIN w.kids = 1 .. k + 2
    BY <1>6, <1>8, SMTT(40) DEF IsAround
  <2>2. 1 \in 1 .. k + 2
    OBVIOUS
  <2> QED BY <1>11, <2>1, <2>2 DEF ToSet
<1> QED BY <1>7, <1>16, <1>17, <1>18 DEF IsWideLeaf

\* Node n is set, and its kids adopted.
PutInto(t, n, w) == Adopted(SetNode(t, n, w), n)

IsPutInto(q, t, n, w) ==
    /\ IsTree(q) /\ Nodes(q) = Nodes(t) /\ q.root = t.root /\ q.sorted = t.sorted
    /\ Content(q.nodes[n], w) /\ q.nodes[n].parent = w.parent
    /\ \A y \in Nodes(t) : y # n =>
         /\ Content(q.nodes[y], t.nodes[y])
         /\ q.nodes[y].parent = IF y \in ToSet(w.kids) THEN n ELSE t.nodes[y].parent

\* Setting a node and adopting its kids changes that node and the kids' parents only.
LEMMA PutIntoIs ==
    ASSUME NEW t, IsTree(t), NEW n \in Nodes(t), NEW w \in Node234, n \notin ToSet(w.kids)
    PROVE  IsPutInto(PutInto(t, n, w), t, n, w)
<1> DEFINE s == SetNode(t, n, w)
           q == Adopted(s, n)
<1>1. n \in Nat \ {0}
  BY DEF IsTree
<1>2. /\ IsTree(s) /\ Nodes(s) = Nodes(t) \cup {n} /\ s.root = t.root /\ s.sorted = t.sorted
      /\ s.nodes[n] = w
      /\ \A y \in Nodes(t) : y # n => s.nodes[y] = t.nodes[y]
  BY <1>1, SetNodeIs
<1> HIDE DEF s
<1>3. Nodes(s) = Nodes(t)
  BY <1>2
<1>4. /\ IsTree(q) /\ Nodes(q) = Nodes(s) /\ q.root = s.root /\ q.sorted = s.sorted
      /\ \A y \in Nodes(s) :
           /\ Content(q.nodes[y], s.nodes[y])
           /\ q.nodes[y].parent = IF y \in ToSet(s.nodes[n].kids) THEN n ELSE s.nodes[y].parent
  BY <1>2, <1>3, AdoptedIs
<1> HIDE DEF q
<1>5. Content(q.nodes[n], w) /\ q.nodes[n].parent = w.parent
  BY <1>2, <1>3, <1>4
<1>6. ASSUME NEW y \in Nodes(t), y # n
      PROVE  /\ Content(q.nodes[y], t.nodes[y])
             /\ q.nodes[y].parent = IF y \in ToSet(w.kids) THEN n ELSE t.nodes[y].parent
  BY <1>2, <1>3, <1>4, <1>6
<1>7. IsPutInto(q, t, n, w)
  BY <1>2, <1>3, <1>4, <1>5, <1>6 DEF IsPutInto
<1> QED BY <1>7 DEF PutInto, q, s

NodesAre(t) == \A y \in Nodes(t) : t.nodes[y] \in Node234

\* The nodes of a tree are records of the right kind.
LEMMA TreeNodes == ASSUME NEW t, IsTree(t) PROVE NodesAre(t)
<1>1. t.nodes \in [Nodes(t) -> Node234]
  BY DEF IsTree, Heaps
<1> QED BY <1>1 DEF NodesAre

\* The boundaries after a move, with new ones for leaf n.
MovedTo(t, B, n, F, b2) == [y \in Nodes(t) |-> IF y = n THEN b2 ELSE Across(F, B[y])]

\* What putting an element into gap i of leaf n comes to.
IsLeafPut(q, t, h, B2, G, n, i) ==
    /\ Standing(q, h, B2, G) /\ PathCounted(q, h, B2, -1, i, h[n]) /\ Covers(B2[n], i)
    /\ Nodes(q) = Nodes(t) /\ q.root = t.root /\ q.sorted = t.sorted
    /\ Size(q, n) = Size(t, n) + 1
    /\ \A y \in Nodes(t) : y # n => Size(q, y) = Size(t, y)

LeafPut(t, n, c, e) == PutInto(t, n, Widened(t, n, c, NULL, e, NULL))

\* An element put into a leaf: the tree stands for the list with it, and only the counts
\* above the leaf are one too low.
THEOREM LeafPutStands ==
    ASSUME NEW t, NEW h, NEW B, NEW L, Standing(t, h, B, L), Counted(t, B), NEW n \in Nodes(t), h[n] = 0,
           NEW c \in Nat, c >= 1, NEW pos, pos = (IF c < Size(t, n) + 1 THEN c ELSE Size(t, n) + 1),
           NEW i \in Nat, i = B[n][pos], NEW e \in Int
    PROVE  \E B2 : IsLeafPut(LeafPut(t, n, c, e), t, h, B2, InsertAt(L, i + 1, e), n, i)
<1>1. /\ IsTree(t) /\ Linked(t) /\ Layout(t, h, B, L) /\ t.nodes[n] \in Node234 /\ B[n] \in Seq(Nat)
      /\ NodeFits(h, B, L, t.nodes[n], B[n], 0) /\ Bounds(B[n], Size(t, n)) /\ Exact(t.nodes[n], B[n])
      /\ Hi(B[n]) <= Len(L) + 1 /\ Len(L) \in Nat /\ L \in Seq(Int)
  BY NodeIs DEF Standing, Counted, Layout
<1>2. PICK k \in Nat : k = Size(t, n)
  BY <1>1 DEF Bounds
<1>3. PICK M \in Nat : M = Len(L)
  BY <1>1
<1>4. k >= 1 /\ pos \in 1 .. k + 1 /\ pos \in Nat /\ Len(t.nodes[n].kids) = k + 1 /\ Len(t.nodes[n].counts) = k + 1
  <2>1. k >= 1
    BY <1>1, <1>2 DEF Bounds
  <2>2. pos \in 1 .. k + 1
    BY <1>2
  <2> QED BY <1>1, <1>2, <2>1, <2>2 DEF NodeFits, Size
<1>5. Close(B[n], k) /\ Bounds(B[n], k)
  <2>1. \A d \in 1 .. Len(t.nodes[n].elems) + 1 : t.nodes[n].kids[d] = NULL /\ B[n][d + 1] = B[n][d] + 1
    <3>1. NodeFits(h, B, L, t.nodes[n], B[n], 0)
      BY <1>1
    <3> QED BY ONLY <3>1, LeafSlots
  <2>2. k = Len(t.nodes[n].elems)
    BY ONLY <1>2 DEF Size
  <2>3. Close(B[n], k)
    BY ONLY <2>1, <2>2, Zenon DEF Close
  <2>4. Bounds(B[n], k)
    BY ONLY <1>1, <1>2, Zenon
  <2> QED BY <2>3, <2>4
<1>6. /\ B[n][pos + 1] = i + 1 /\ Lo(B[n]) <= i /\ i + 1 <= Hi(B[n])
      /\ Lo(B[n]) \in Nat /\ Hi(B[n]) \in Nat
  <2>1. B[n][pos + 1] = i + 1
    BY <1>4, <1>5, Zenon DEF Close
  <2>2. Bounds(B[n], k)
    BY <1>5
  <2>3. /\ Lo(B[n]) <= B[n][pos] /\ B[n][pos + 1] <= Hi(B[n])
        /\ Lo(B[n]) \in Nat /\ Hi(B[n]) \in Nat
    BY ONLY <1>4, <2>2, SlotIs
  <2> QED BY ONLY <2>1, <2>3, i = B[n][pos]
<1>7. Covers(B[n], i) /\ i <= M /\ i < M + 1
  <2>1. Hi(B[n]) <= M + 1
    BY <1>1, <1>3
  <2> QED BY ONLY <1>6, <2>1, M \in Nat, i \in Nat DEF Covers
<1> DEFINE F == Apart(M + 1, i)
           b2 == LeafBounds(F, B[n], pos, i)
           G == InsertAt(L, i + 1, e)
           w == Widened(t, n, c, NULL, e, NULL)
           q == LeafPut(t, n, c, e)
           B2 == MovedTo(t, B, n, F, b2)
<1>8. IsApart(F, M + 1, i)
  BY <1>7, ApartIs
<1>9. ListGrows(G, L, i, e)
  BY <1>1, <1>3, <1>7, ListInserted
<1> HIDE DEF F, G
<1>10. IsLeafBounds(b2, B[n], k, pos)
  <2>1. Hi(B[n]) <= M + 1 /\ M + 1 \in Nat
    BY <1>1, <1>3
  <2> QED BY <1>4, <1>5, <1>8, <2>1, LeafBoundsAre
<1> HIDE DEF b2
<1>11. LeafRises(b2, B[n], k) /\ b2 \in Seq(Nat)
  BY <1>4, <1>5, <1>10, LeafBoundsRise DEF IsLeafBounds
<1>12. IsWide(w, t.nodes[n], pos, NULL, e, NULL, 0, 0)
  <2>1. countnode234(t, NULL) = 0 /\ NULL \in Nat /\ 0 \in Int
    BY NoNodeNoCount DEF NULL
  <2>2. Len(t.nodes[n].kids) = Size(t, n) + 1 /\ Len(t.nodes[n].counts) = Size(t, n) + 1
    BY <1>2, <1>4
  <2> QED BY <1>1, <2>1, <2>2, WidenedIs
<1> HIDE DEF w
<1>13. \A B3 : IsWideLeaf(h, B3, G, w, b2, k)
  <2> SUFFICES ASSUME NEW B3 PROVE IsWideLeaf(h, B3, G, w, b2, k)
    OBVIOUS
  <2>1. Hi(B[n]) <= M + 1 /\ k = Len(t.nodes[n].elems)
    BY <1>1, <1>2, <1>3 DEF Size
  <2>2. /\ t.nodes[n] \in Node234 /\ B[n] \in Seq(Nat) /\ NodeFits(h, B, L, t.nodes[n], B[n], 0)
        /\ Exact(t.nodes[n], B[n])
    BY <1>1
  <2> QED BY <1>3, <1>4, <1>9, <1>10, <1>12, <2>1, <2>2, WideLeafFits
<1>14. IsPutInto(q, t, n, w)
  <2>1. n \notin ToSet(w.kids) /\ w \in Node234
    BY <1>1, <1>12, <1>13, NodeIs DEF IsWide, IsWideLeaf
  <2>2. IsPutInto(PutInto(t, n, w), t, n, w)
    BY <1>1, <2>1, PutIntoIs
  <2> QED BY <2>2 DEF LeafPut, w
<1> HIDE DEF q
<1>15. /\ IsTree(q) /\ Nodes(q) = Nodes(t) /\ q.root = t.root /\ q.sorted = t.sorted
       /\ Content(q.nodes[n], w) /\ q.nodes[n].parent = t.nodes[n].parent
  BY <1>12, <1>14 DEF IsPutInto, IsWide
<1>16. ASSUME NEW y \in Nodes(t), y # n PROVE q.nodes[y] = t.nodes[y]
  <2>1. Content(q.nodes[y], t.nodes[y]) /\ q.nodes[y].parent = t.nodes[y].parent
    <3>1. y # NULL
      BY <1>1, NodeIs
    <3>2. y \notin ToSet(w.kids)
      BY <1>13, <3>1 DEF IsWideLeaf
    <3> QED BY <1>14, <1>16, <3>2 DEF IsPutInto
  <2>2. q.nodes[y] \in Node234 /\ t.nodes[y] \in Node234
    BY <1>1, <1>15, TreeNodes DEF NodesAre
  <2> QED BY <2>1, <2>2, SameNode
<1>17. /\ B2 \in [Nodes(t) -> Seq(Nat)] /\ B2[n] = b2
       /\ \A y \in Nodes(t) : y # n => B2[y] = Across(F, B[y])
  <2>1. ASSUME NEW y \in Nodes(t) PROVE Across(F, B[y]) \in Seq(Nat)
    <3>1. Bounds(B[y], Size(t, y)) /\ Hi(B[y]) <= M + 1
      BY <1>1, <1>3, NodeIs
    <3>2. IsAcross(Across(F, B[y]), F, B[y], Size(t, y))
      BY <1>8, <3>1, AcrossIs DEF IsApart
    <3> QED BY <3>2 DEF IsAcross
  <2> QED BY <1>11, <2>1 DEF MovedTo
<1> HIDE DEF B2
<1>18. Lo(b2) = F[Lo(B[n])] /\ Hi(b2) = F[Hi(B[n])]
  <2>1. Lo(b2) = Lo(B[n]) /\ Hi(b2) = Hi(B[n]) + 1
    BY <1>11 DEF LeafRises
  <2>2. Lo(B[n]) <= M + 1 /\ ~ (Lo(B[n]) > i) /\ Hi(B[n]) <= M + 1 /\ Hi(B[n]) > i
    <3>1. Hi(B[n]) <= M + 1
      BY <1>1, <1>3
    <3> QED BY ONLY <1>6, <1>7, <3>1, M \in Nat, i \in Nat
  <2>3. F[Lo(B[n])] = Lo(B[n]) /\ F[Hi(B[n])] = Hi(B[n]) + 1
    BY <1>6, <1>8, <2>2 DEF IsApart
  <2> QED BY <2>1, <2>3
<1>19. Standing(q, h, B2, G)
  <2>1. NodeFits(h, B2, G, q.nodes[n], B2[n], h[n])
    <3>1. NodeFits(h, B2, G, w, b2, 0)
      BY <1>13 DEF IsWideLeaf
    <3>2. NodeFits(h, B2, G, q.nodes[n], b2, 0)
      BY <1>15, <3>1 DEF NodeFits, Content
    <3> QED BY <1>17, <3>2
  <2>2. /\ Moves(F, Len(L) + 1) /\ F[0] = 0 /\ F[Len(L) + 1] = Len(G) + 1 /\ G \in Seq(Int)
    BY <1>3, <1>8, <1>9 DEF IsApart, ListGrows
  <2>3. \A y \in Nodes(t) : y # n => Carried(F, L, G, B[y], Size(t, y), h[y])
    BY <1>1, <1>3, <1>7, <1>8, <1>9, CarriedApart
  <2>4. ShiftedTree(t, h, B, L, n, F, q, B2, G)
    BY <1>15, <1>16, <1>17, <1>18, <2>1, <2>2, <2>3 DEF ShiftedTree
  <2> QED BY <2>4, ShiftStands
<1>20. Size(q, n) = Size(t, n) + 1 /\ \A y \in Nodes(t) : y # n => Size(q, y) = Size(t, y)
  BY <1>2, <1>13, <1>15, <1>16 DEF Size, Content, IsWideLeaf
<1>21. Covers(B2[n], i)
  <2>1. Lo(b2) = Lo(B[n]) /\ Hi(b2) = Hi(B[n]) + 1
    BY <1>11 DEF LeafRises
  <2> QED BY <1>6, <1>17, <2>1 DEF Covers
<1>22. PathCounted(q, h, B2, -1, i, h[n])
  <2>1. ASSUME NEW y \in Nodes(t), y # n, NEW d \in 1 .. Size(t, y) + 1
        PROVE  t.nodes[y].counts[d] = B2[y][d + 1] - B2[y][d] - 1
                               + (IF h[y] > 0 /\ InSlot(B2[y], d, i) THEN -1 ELSE 0)
    <3>1. /\ Bounds(B[y], Size(t, y)) /\ Hi(B[y]) <= M + 1 /\ h[y] \in Nat
          /\ NodeFits(h, B, L, t.nodes[y], B[y], h[y]) /\ Exact(t.nodes[y], B[y])
      BY <1>1, <1>3, NodeIs DEF Counted
    <3>2. /\ B[y][d] \in Nat /\ B[y][d + 1] \in Nat /\ B[y][d] < B[y][d + 1] /\ B[y][d + 1] <= M + 1
          /\ Lo(B[y]) <= B[y][d] /\ B[y][d + 1] <= Hi(B[y])
          /\ d \in 1 .. Size(t, y) + 2 /\ d + 1 \in 1 .. Size(t, y) + 2
      <4>1. Size(t, y) \in Nat
        BY <3>1 DEF Bounds
      <4> QED BY <3>1, <4>1, SlotIs
    <3>3. IsAcross(B2[y], F, B[y], Size(t, y))
      BY <1>8, <1>17, <2>1, <3>1, AcrossIs DEF IsApart
    <3>4. B2[y][d] = F[B[y][d]] /\ B2[y][d + 1] = F[B[y][d + 1]]
      BY <3>2, <3>3 DEF IsAcross
    <3>5. /\ B2[y][d] = IF B[y][d] > i THEN B[y][d] + 1 ELSE B[y][d]
          /\ B2[y][d + 1] = IF B[y][d + 1] > i THEN B[y][d + 1] + 1 ELSE B[y][d + 1]
      BY <1>8, <3>2, <3>4 DEF IsApart
    <3>6. t.nodes[y].counts[d] = B[y][d + 1] - B[y][d] - 1
      <4>1. d \in 1 .. Len(t.nodes[y].counts)
        BY <3>1 DEF NodeFits, Size
      <4> QED BY <3>1, <4>1 DEF Exact
    <3>7. InSlot(B2[y], d, i) <=> (B[y][d] <= i /\ i < B[y][d + 1])
      BY <3>2, <3>5 DEF InSlot
    <3>8. h[y] = 0 => ~ (B[y][d] <= i /\ i < B[y][d + 1])
      <4>1. SUFFICES ASSUME h[y] = 0, B[y][d] <= i, i < B[y][d + 1] PROVE FALSE
        OBVIOUS
      <4>2. Lo(B[y]) \in Nat /\ Hi(B[y]) \in Nat
        BY <3>1, EndsAre
      <4>3. Covers(B[y], i)
        BY <3>2, <4>1, <4>2 DEF Covers
      <4> QED BY <1>7, <2>1, <4>1, <4>3, SameGap
    <3>9. B[y][d + 1] - B[y][d] - 1 = B2[y][d + 1] - B2[y][d] - 1
            + (IF B[y][d] <= i /\ i < B[y][d + 1] THEN -1 ELSE 0)
      BY <3>2, <3>5
    <3>10. h[y] > 0 <=> h[y] # 0
      BY <3>1
    <3> QED BY <3>6, <3>7, <3>8, <3>9, <3>10
  <2>2. ASSUME NEW y \in Nodes(q), NEW d \in 1 .. Size(q, y) + 1
        PROVE  q.nodes[y].counts[d] = B2[y][d + 1] - B2[y][d] - 1
                               + (IF h[y] > h[n] /\ InSlot(B2[y], d, i) THEN -1 ELSE 0)
    <3>1. CASE y = n
      <4>1. ~ (h[y] > h[n]) /\ q.nodes[y].counts = w.counts /\ B2[y] = b2
        BY <1>15, <1>17, <3>1 DEF Content
      <4>2. d \in 1 .. Len(w.counts) /\ d \in 1 .. k + 2
        <5>1. NodeFits(h, B, G, w, b2, 0) /\ Size(q, n) = k + 1 /\ Len(w.elems) = k + 1
          BY <1>2, <1>13, <1>20 DEF IsWideLeaf
        <5> QED BY <3>1, <5>1 DEF NodeFits
      <4>3. w.counts[d] = b2[d + 1] - b2[d] - 1
        BY <1>13, <4>2 DEF Exact, IsWideLeaf
      <4>4. b2[d + 1] = b2[d] + 1
        BY <1>11, <4>2 DEF LeafRises
      <4>5. b2[d] \in Nat
        <5>1. b2 \in Seq(Nat) /\ Len(b2) = k + 3
          BY <1>10 DEF IsLeafBounds
        <5>2. d \in 1 .. k + 3
          BY <4>2
        <5> QED BY ONLY <5>1, <5>2
      <4>6. b2[d + 1] - b2[d] - 1 + 0 = b2[d + 1] - b2[d] - 1
        BY <4>4, <4>5
      <4> QED BY <4>1, <4>3, <4>6
    <3>2. CASE y # n
      BY <1>15, <1>16, <1>20, <2>1, <2>2, <3>2
    <3> QED BY <3>1, <3>2
  <2> QED BY ONLY <2>2 DEF PathCounted
<1>23. IsLeafPut(q, t, h, B2, G, n, i)
  BY <1>15, <1>19, <1>20, <1>21, <1>22 DEF IsLeafPut
<1> QED BY <1>23 DEF q, G

--------------------------------------------------------------------------------
(*****************************************************************************)
(* A node is split: Pending says what is left to do at its parent.           *)
(*****************************************************************************)

\* A kid is in one slot only.
LEMMA KidSlots ==
    ASSUME NEW t, NEW h, NEW B, NEW G, Standing(t, h, B, G), NEW y \in Nodes(t),
           NEW c \in 1 .. Size(t, y) + 1, NEW d \in 1 .. Size(t, y) + 1,
           t.nodes[y].kids[c] = t.nodes[y].kids[d], t.nodes[y].kids[c] # NULL
    PROVE  c = d
<1>1. h[y] # 0
  BY KidIs DEF Standing
<1>2. /\ IsKid(t, h, B, y, c, t.nodes[y].kids[c]) /\ IsKid(t, h, B, y, d, t.nodes[y].kids[d])
  BY <1>1, KidIs DEF Standing
<1>3. B[y][c] = B[y][d]
  BY <1>2 DEF IsKid
<1>4. Bounds(B[y], Size(t, y))
  BY NodeIs DEF Standing
<1>5. /\ \A a, x \in 1 .. Size(t, y) + 2 : a < x => B[y][a] < B[y][x]
      /\ \A a \in 1 .. Size(t, y) + 2 : B[y][a] \in Nat
      /\ Size(t, y) \in Nat
  BY <1>4 DEF Bounds
<1>6. c \in 1 .. Size(t, y) + 2 /\ d \in 1 .. Size(t, y) + 2 /\ c \in Nat /\ d \in Nat
  BY <1>5
<1>7. c < d \/ d < c \/ c = d
  BY <1>6
<1>8. B[y][c] \in Nat /\ B[y][d] \in Nat /\ (c < d => B[y][c] < B[y][d]) /\ (d < c => B[y][d] < B[y][c])
  BY <1>5, <1>6
<1> QED BY <1>3, <1>7, <1>8

\* Boundaries with one more.
Parted(b, pos, mid) == InsertAt(b, pos + 1, mid)

IsParted(b2, b, k, pos, mid) ==
    /\ b2 \in Seq(Nat) /\ Len(b2) = k + 3
    /\ \A j \in 1 .. pos : b2[j] = b[j]
    /\ b2[pos + 1] = mid
    /\ \A j \in pos + 1 .. k + 2 : b2[j + 1] = b[j]
    /\ Lo(b2) = Lo(b) /\ Hi(b2) = Hi(b)
    /\ \A c, d \in 1 .. k + 3 : c < d => b2[c] < b2[d]

\* Parting a slot does what IsParted says.
LEMMA PartedIs ==
    ASSUME NEW k, NEW b, Bounds(b, k), NEW pos \in 1 .. k + 1, NEW mid \in Nat,
           b[pos] < mid, mid < b[pos + 1]
    PROVE  IsParted(Parted(b, pos, mid), b, k, pos, mid)
<1> DEFINE b2 == Parted(b, pos, mid)
<1>1. /\ k \in Nat /\ Lo(b) = b[1] /\ Hi(b) = b[k + 2] /\ b \in Seq(Nat) /\ Len(b) = k + 2
      /\ \A c \in 1 .. k + 2 : b[c] \in Nat
      /\ \A c, d \in 1 .. k + 2 : c < d => b[c] < b[d]
  BY DEF Bounds
<1>2. IsInserted(b2, Nat, b, pos + 1, mid)
  <2>1. pos + 1 \in 1 .. Len(b) + 1
    BY <1>1
  <2>2. IsInserted(InsertAt(b, pos + 1, mid), Nat, b, pos + 1, mid)
    BY <1>1, <2>1, InsertedIs
  <2> QED BY <2>2 DEF Parted
<1> HIDE DEF b2
<1>3. /\ b2 \in Seq(Nat) /\ Len(b2) = k + 3
      /\ \A j \in 1 .. pos : b2[j] = b[j]
      /\ b2[pos + 1] = mid
      /\ \A j \in pos + 1 .. k + 2 : b2[j + 1] = b[j]
  <2>1. (pos + 1) - 1 = pos /\ (k + 2) + 1 = k + 3
    BY <1>1
  <2> QED BY <1>1, <1>2, <2>1 DEF IsInserted
<1>4. ASSUME NEW c \in 1 .. k + 3
      PROVE  /\ c <= pos => b2[c] = b[c] /\ c \in 1 .. k + 2
             /\ c = pos + 1 => b2[c] = mid
             /\ c > pos + 1 => b2[c] = b[c - 1] /\ c - 1 \in 1 .. k + 2
  <2>1. ASSUME c <= pos PROVE b2[c] = b[c] /\ c \in 1 .. k + 2
    <3>1. c \in 1 .. pos /\ c \in 1 .. k + 2
      BY <1>1, <2>1
    <3> QED BY <1>3, <3>1
  <2>2. ASSUME c > pos + 1 PROVE b2[c] = b[c - 1] /\ c - 1 \in 1 .. k + 2
    <3>1. c - 1 \in pos + 1 .. k + 2 /\ c - 1 \in 1 .. k + 2 /\ (c - 1) + 1 = c
      BY <1>1, <2>2
    <3>2. b2[(c - 1) + 1] = b[c - 1]
      BY <1>3, <3>1
    <3> QED BY <3>1, <3>2
  <2> QED BY <1>3, <2>1, <2>2
<1>5. ASSUME NEW c \in 1 .. k + 3, NEW d \in 1 .. k + 3, c < d PROVE b2[c] < b2[d]
  <2>1. pos \in 1 .. k + 2 /\ pos + 1 \in 1 .. k + 2 /\ pos \in Nat
    BY <1>1
  <2>2. CASE d <= pos
    BY <1>1, <1>4, <1>5, <2>2
  <2>3. CASE c <= pos /\ d = pos + 1
    <3>1. b[c] <= b[pos] /\ b[c] \in Nat /\ b[pos] \in Nat /\ b2[c] = b[c] /\ b2[d] = mid
      BY <1>1, <1>4, <2>1, <2>3, SMTT(40)
    <3> QED BY <3>1
  <2>4. CASE c <= pos /\ d > pos + 1
    <3>1. d - 1 \in 1 .. k + 2 /\ c < d - 1 /\ b2[d] = b[d - 1] /\ b2[c] = b[c] /\ c \in 1 .. k + 2
      BY <1>4, <2>1, <2>4
    <3> QED BY <1>1, <3>1
  <2>5. CASE c = pos + 1 /\ d > pos + 1
    <3>1. d - 1 \in 1 .. k + 2 /\ pos + 1 <= d - 1 /\ b2[d] = b[d - 1] /\ b2[c] = mid
      BY <1>4, <2>1, <2>5
    <3>2. b[pos + 1] <= b[d - 1] /\ b[pos + 1] \in Nat /\ b[d - 1] \in Nat
      BY <1>1, <2>1, <3>1, SMTT(40)
    <3> QED BY <3>1, <3>2
  <2>6. CASE c > pos + 1
    <3>1. d - 1 \in 1 .. k + 2 /\ c - 1 \in 1 .. k + 2 /\ c - 1 < d - 1
          /\ b2[d] = b[d - 1] /\ b2[c] = b[c - 1]
      BY <1>4, <1>5, <2>1, <2>6
    <3> QED BY <1>1, <3>1
  <2> QED BY <1>5, <2>1, <2>2, <2>3, <2>4, <2>5, <2>6
<1>6. Lo(b2) = Lo(b) /\ Hi(b2) = Hi(b)
  <2>1. 1 \in 1 .. pos /\ k + 2 \in pos + 1 .. k + 2 /\ (k + 2) + 1 = k + 3
    BY <1>1
  <2>2. b2[1] = b[1] /\ b2[k + 3] = b[k + 2]
    BY <1>3, <2>1
  <2> QED BY <1>1, <1>3, <2>2 DEF Lo, Hi
<1>7. IsParted(b2, b, k, pos, mid)
  BY <1>3, <1>5, <1>6 DEF IsParted
<1> QED BY <1>7 DEF b2

\* The slots of a widened node: those left of slot pos, the two in its place, and
\* those right of it.
SlotCase(k, pos, b2, b, mid, c) ==
    \/ c < pos /\ c \in 1 .. k + 1 /\ c # pos /\ c \in 1 .. pos - 1 /\ b2[c] = b[c] /\ b2[c + 1] = b[c + 1]
    \/ c = pos /\ b2[c] = b[pos] /\ b2[c + 1] = mid
    \/ c = pos + 1 /\ b2[c] = mid /\ b2[c + 1] = b[pos + 1]
    \/ \E d \in pos + 1 .. k + 1 : c = d + 1 /\ d # pos /\ d \in 1 .. k + 1 /\ b2[c] = b[d] /\ b2[c + 1] = b[d + 1]

\* There are no other slots.
LEMMA SlotCases ==
    ASSUME NEW k \in Nat, NEW pos \in 1 .. k + 1, NEW b2, NEW b, NEW mid, IsParted(b2, b, k, pos, mid),
           NEW c \in 1 .. k + 2
    PROVE  SlotCase(k, pos, b2, b, mid, c)
<1> USE DEF SlotCase
<1>1. /\ \A j \in 1 .. pos : b2[j] = b[j]
      /\ b2[pos + 1] = mid
      /\ \A j \in pos + 1 .. k + 2 : b2[j + 1] = b[j]
  BY DEF IsParted
<1>2. CASE c < pos
  <2>1. c \in 1 .. pos /\ c + 1 \in 1 .. pos /\ c \in 1 .. k + 1 /\ c \in 1 .. pos - 1
    BY <1>2
  <2> QED BY <1>1, <1>2, <2>1
<1>3. CASE c = pos
  <2>1. pos \in 1 .. pos
    OBVIOUS
  <2> QED BY <1>1, <1>3, <2>1
<1>4. CASE c = pos + 1
  <2>1. pos + 1 \in pos + 1 .. k + 2
    OBVIOUS
  <2> QED BY <1>1, <1>4, <2>1
<1>5. CASE c > pos + 1
  <2>1. PICK d \in pos + 1 .. k + 1 : c = d + 1
    <3>1. c - 1 \in pos + 1 .. k + 1 /\ c = (c - 1) + 1
      BY <1>5
    <3> QED BY <3>1
  <2>2. d # pos /\ d \in 1 .. k + 1 /\ d \in pos + 1 .. k + 2 /\ d + 1 \in pos + 1 .. k + 2
    BY <2>1
  <2>3. b2[c] = b[d] /\ b2[c + 1] = b[d + 1]
    BY <1>1, <2>1, <2>2
  <2> QED BY <2>1, <2>2, <2>3
<1>6. c < pos \/ c = pos \/ c = pos + 1 \/ c > pos + 1
  OBVIOUS
<1> QED BY <1>2, <1>3, <1>4, <1>5, <1>6

IsWideFit(h2, B2, G, w, b2, x, k) ==
    /\ NodeFits(h2, B2, G, w, b2, x) /\ Len(w.elems) = k + 1

\* An inner node with a new element in slot pos, and the subtrees l and r around it.
LEMMA WideFits ==
    ASSUME NEW h, NEW B, NEW G, NEW node \in Node234, NEW b, NEW x, NodeFits(h, B, G, node, b, x),
           NEW k \in Nat, k = Len(node.elems), Bounds(b, k), NEW pos \in 1 .. k + 1,
           NEW mid \in Nat, b[pos] < mid, mid < b[pos + 1],
           NEW l, NEW e, NEW r, NEW cl, NEW cr, NEW w, IsWide(w, node, pos, l, e, r, cl, cr), e = G[mid],
           NEW b2, IsParted(b2, b, k, pos, mid), NEW h2, NEW B2,
           KidFits(h2, B2, l, x, b[pos], mid), KidFits(h2, B2, r, x, mid, b[pos + 1]),
           \A c \in 1 .. k + 1 : c # pos => KidFits(h2, B2, node.kids[c], x, b[c], b[c + 1])
    PROVE  IsWideFit(h2, B2, G, w, b2, x, k)
<1>1. Len(node.kids) = k + 1 /\ Len(node.counts) = k + 1 /\ k >= 1
  BY PartsAre DEF Bounds
<1>2. /\ IsInserted(w.elems, Int, node.elems, pos, e)
      /\ IsAround(w.kids, Nat, node.kids, pos, l, r)
      /\ IsAround(w.counts, Int, node.counts, pos, cl, cr)
  BY DEF IsWide
<1>3. /\ Len(w.elems) = k + 1 /\ w.elems[pos] = e
      /\ \A j \in 1 .. pos - 1 : w.elems[j] = node.elems[j]
      /\ \A j \in pos .. k : w.elems[j + 1] = node.elems[j]
  BY <1>2 DEF IsInserted
<1>4. /\ Len(w.kids) = k + 2 /\ w.kids[pos] = l /\ w.kids[pos + 1] = r
      /\ \A j \in 1 .. pos - 1 : w.kids[j] = node.kids[j]
      /\ \A j \in pos + 1 .. k + 1 : w.kids[j + 1] = node.kids[j]
  <2>1. (k + 1) + 1 = k + 2
    OBVIOUS
  <2> QED BY <1>1, <1>2, <2>1 DEF IsAround
<1>5. Len(w.counts) = k + 2
  <2>1. (k + 1) + 1 = k + 2
    OBVIOUS
  <2> QED BY <1>1, <1>2, <2>1 DEF IsAround
<1>6. ASSUME NEW c \in 1 .. k + 2 PROVE KidFits(h2, B2, w.kids[c], x, b2[c], b2[c + 1])
  <2>1. \/ c < pos /\ c \in 1 .. k + 1 /\ c # pos /\ c \in 1 .. pos - 1 /\ b2[c] = b[c] /\ b2[c + 1] = b[c + 1]
        \/ c = pos /\ b2[c] = b[pos] /\ b2[c + 1] = mid
        \/ c = pos + 1 /\ b2[c] = mid /\ b2[c + 1] = b[pos + 1]
        \/ \E d \in pos + 1 .. k + 1 : c = d + 1 /\ d # pos /\ d \in 1 .. k + 1 /\ b2[c] = b[d] /\ b2[c + 1] = b[d + 1]
    <3>1. SlotCase(k, pos, b2, b, mid, c)
      BY SlotCases
    <3> QED BY ONLY <3>1 DEF SlotCase
  <2>2. CASE c < pos /\ c \in 1 .. k + 1 /\ c # pos /\ c \in 1 .. pos - 1 /\ b2[c] = b[c] /\ b2[c + 1] = b[c + 1]
    BY <1>4, <2>2
  <2>3. CASE c = pos /\ b2[c] = b[pos] /\ b2[c + 1] = mid
    BY <1>4, <2>3
  <2>4. CASE c = pos + 1 /\ b2[c] = mid /\ b2[c + 1] = b[pos + 1]
    BY <1>4, <2>4
  <2>5. CASE \E d \in pos + 1 .. k + 1 : c = d + 1 /\ d # pos /\ d \in 1 .. k + 1 /\ b2[c] = b[d] /\ b2[c + 1] = b[d + 1]
    <3>1. PICK d \in pos + 1 .. k + 1 : c = d + 1 /\ d # pos /\ d \in 1 .. k + 1 /\ b2[c] = b[d] /\ b2[c + 1] = b[d + 1]
      BY <2>5
    <3>2. w.kids[c] = node.kids[d]
      BY <1>4, <3>1
    <3>3. KidFits(h2, B2, node.kids[d], x, b[d], b[d + 1])
      BY <3>1
    <3> QED BY <3>1, <3>2, <3>3
  <2> QED BY <2>1, <2>2, <2>3, <2>4, <2>5
<1>7. /\ b2 \in Seq(Nat) /\ Len(b2) = k + 3
      /\ \A j \in 1 .. pos : b2[j] = b[j]
      /\ b2[pos + 1] = mid
      /\ \A j \in pos + 1 .. k + 2 : b2[j + 1] = b[j]
      /\ Hi(b2) = Hi(b)
      /\ \A c, d \in 1 .. k + 3 : c < d => b2[c] < b2[d]
  BY DEF IsParted
<1>8. ASSUME NEW c \in 1 .. k + 1 PROVE w.elems[c] = G[b2[c + 1]]
  <2>1. CASE c < pos
    <3>1. c \in 1 .. pos - 1 /\ c \in 1 .. k /\ c + 1 \in 1 .. pos
      BY <2>1
    <3>2. b2[c + 1] = b[c + 1] /\ w.elems[c] = node.elems[c]
      BY <1>3, <1>7, <3>1
    <3>3. node.elems[c] = G[b[c + 1]]
      BY <3>1 DEF NodeFits
    <3> QED BY <3>2, <3>3
  <2>2. CASE c = pos
    BY <1>3, <1>7, <2>2
  <2>3. CASE c > pos
    <3>1. PICK d \in 1 .. k : d = c - 1 /\ d + 1 = c /\ d \in pos .. k /\ c \in pos + 1 .. k + 2
      <4>1. c - 1 \in 1 .. k /\ (c - 1) + 1 = c /\ c - 1 \in pos .. k /\ c \in pos + 1 .. k + 2
        BY <2>3
      <4> QED BY <4>1
    <3>2. w.elems[d + 1] = node.elems[d] /\ b2[c + 1] = b[c]
      BY <1>3, <1>7, <3>1
    <3>3. node.elems[d] = G[b[d + 1]]
      BY <3>1 DEF NodeFits
    <3> QED BY <3>1, <3>2, <3>3
  <2> QED BY <2>1, <2>2, <2>3
<1>9. Rising(b2)
  <2>1. DOMAIN b2 = 1 .. k + 3
    BY <1>7
  <2> QED BY <1>7, <2>1 DEF Rising
<1>10. Hi(b2) <= Len(G) + 1
  BY <1>7 DEF NodeFits
<1>11. k + 1 >= 1 /\ k + 2 = (k + 1) + 1 /\ k + 3 = (k + 1) + 2
  OBVIOUS
<1> QED BY <1>3, <1>4, <1>5, <1>6, <1>7, <1>8, <1>9, <1>10, <1>11 DEF NodeFits, IsWideFit

\* Its counts, from those of the node.
LEMMA WideCounts ==
    ASSUME NEW node \in Node234, NEW k \in Nat, k = Len(node.elems), NEW b, Bounds(b, k),
           Len(node.counts) = k + 1, NEW pos \in 1 .. k + 1, NEW mid,
           NEW l, NEW e, NEW r, NEW cl, NEW cr, NEW w, IsWide(w, node, pos, l, e, r, cl, cr),
           NEW b2, IsParted(b2, b, k, pos, mid),
           cl = mid - b[pos] - 1, cr = b[pos + 1] - mid - 1,
           \A c \in 1 .. k + 1 : c # pos => node.counts[c] = b[c + 1] - b[c] - 1
    PROVE  Exact(w, b2)
<1>1. IsAround(w.counts, Int, node.counts, pos, cl, cr)
  BY DEF IsWide
<1>2. /\ Len(w.counts) = k + 2 /\ w.counts[pos] = cl /\ w.counts[pos + 1] = cr
      /\ \A j \in 1 .. pos - 1 : w.counts[j] = node.counts[j]
      /\ \A j \in pos + 1 .. k + 1 : w.counts[j + 1] = node.counts[j]
  <2>1. (k + 1) + 1 = k + 2
    OBVIOUS
  <2> QED BY <1>1, <2>1 DEF IsAround
<1>3. ASSUME NEW c \in 1 .. k + 2 PROVE w.counts[c] = b2[c + 1] - b2[c] - 1
  <2>1. \/ c < pos /\ c \in 1 .. k + 1 /\ c # pos /\ c \in 1 .. pos - 1 /\ b2[c] = b[c] /\ b2[c + 1] = b[c + 1]
        \/ c = pos /\ b2[c] = b[pos] /\ b2[c + 1] = mid
        \/ c = pos + 1 /\ b2[c] = mid /\ b2[c + 1] = b[pos + 1]
        \/ \E d \in pos + 1 .. k + 1 : c = d + 1 /\ d # pos /\ d \in 1 .. k + 1 /\ b2[c] = b[d] /\ b2[c + 1] = b[d + 1]
    <3>1. SlotCase(k, pos, b2, b, mid, c)
      BY SlotCases
    <3> QED BY ONLY <3>1 DEF SlotCase
  <2>2. CASE c < pos /\ c \in 1 .. k + 1 /\ c # pos /\ c \in 1 .. pos - 1 /\ b2[c] = b[c] /\ b2[c + 1] = b[c + 1]
    BY <1>2, <2>2
  <2>3. CASE c = pos /\ b2[c] = b[pos] /\ b2[c + 1] = mid
    BY <1>2, <2>3
  <2>4. CASE c = pos + 1 /\ b2[c] = mid /\ b2[c + 1] = b[pos + 1]
    BY <1>2, <2>4
  <2>5. CASE \E d \in pos + 1 .. k + 1 : c = d + 1 /\ d # pos /\ d \in 1 .. k + 1 /\ b2[c] = b[d] /\ b2[c + 1] = b[d + 1]
    <3>1. PICK d \in pos + 1 .. k + 1 : c = d + 1 /\ d # pos /\ d \in 1 .. k + 1 /\ b2[c] = b[d] /\ b2[c + 1] = b[d + 1]
      BY <2>5
    <3>2. w.counts[c] = node.counts[d]
      BY <1>2, <3>1
    <3>3. node.counts[d] = b[d + 1] - b[d] - 1
      BY <3>1
    <3> QED BY <3>1, <3>2, <3>3
  <2> QED BY <2>1, <2>2, <2>3, <2>4, <2>5
<1> QED BY <1>2, <1>3 DEF Exact

IsSetIn(u, t, n, node) ==
    /\ IsTree(u) /\ Nodes(u) = Nodes(t) \cup {n} /\ u.root = t.root /\ u.sorted = t.sorted
    /\ u.nodes[n] = node
    /\ \A y \in Nodes(t) : y # n => u.nodes[y] = t.nodes[y]
\* SetNode does what IsSetIn says.
LEMMA SetIs ==
    ASSUME NEW t, IsTree(t), NEW n \in Nat \ {0}, NEW node \in Node234
    PROVE  IsSetIn(SetNode(t, n, node), t, n, node)
<1> DEFINE u == SetNode(t, n, node)
<1>1. /\ IsTree(u) /\ Nodes(u) = Nodes(t) \cup {n} /\ u.root = t.root /\ u.sorted = t.sorted
      /\ u.nodes[n] = node
      /\ \A y \in Nodes(t) : y # n => u.nodes[y] = t.nodes[y]
  BY SetNodeIs
<1> QED BY <1>1 DEF IsSetIn

IsAdoptedBy(u, t, n) ==
    /\ IsTree(u) /\ Nodes(u) = Nodes(t) /\ u.root = t.root /\ u.sorted = t.sorted
    /\ \A y \in Nodes(t) :
         /\ Content(u.nodes[y], t.nodes[y])
         /\ u.nodes[y].parent = IF y \in ToSet(t.nodes[n].kids) THEN n ELSE t.nodes[y].parent
\* Adopted does what IsAdoptedBy says.
LEMMA AdoptedBy ==
    ASSUME NEW t, IsTree(t), NEW n \in Nodes(t)
    PROVE  IsAdoptedBy(Adopted(t, n), t, n)
<1> DEFINE u == Adopted(t, n)
<1>1. /\ IsTree(u) /\ Nodes(u) = Nodes(t) /\ u.root = t.root /\ u.sorted = t.sorted
      /\ \A y \in Nodes(t) :
           /\ Content(u.nodes[y], t.nodes[y])
           /\ u.nodes[y].parent = IF y \in ToSet(t.nodes[n].kids) THEN n ELSE t.nodes[y].parent
  BY AdoptedIs
<1> QED BY <1>1 DEF IsAdoptedBy

\* Node n has been split: va is in m and vb in n.
IsSplit(s, t, n, m, va, vb) ==
    /\ IsTree(s) /\ Nodes(s) = Nodes(t) \cup {m} /\ s.root = t.root /\ s.sorted = t.sorted
    /\ Content(s.nodes[m], va) /\ Content(s.nodes[n], vb)
    /\ \A y \in Nodes(t) : y # n => Content(s.nodes[y], t.nodes[y])
    /\ \A y \in Nodes(s) :
         s.nodes[y].parent = IF y \in ToSet(vb.kids) THEN n
                             ELSE IF y \in ToSet(va.kids) THEN m
                             ELSE IF y = m THEN va.parent ELSE IF y = n THEN vb.parent
                             ELSE t.nodes[y].parent

\* SplitOff leaves the low part in the new node and the high part in the old one, with the
\* kids of each adopted.
LEMMA SplitIs ==
    ASSUME NEW t, IsTree(t), NEW n \in Nodes(t), NEW m \in Nat \ {0}, m \notin Nodes(t), NEW w,
           NEW va \in Node234, va = Cutting(w, w.parent, 1, 2),
           NEW vb \in Node234, vb = Cutting(w, w.parent, 4, 4)
    PROVE  IsSplit(SplitOff(t, n, w, m), t, n, m, va, vb)
<1> DEFINE s1 == SetNode(t, m, va)
           s2 == SetNode(s1, n, vb)
           s3 == Adopted(s2, m)
           s == Adopted(s3, n)
<1>1. Halves(t, n, w, m) = s2
  BY DEF Halves, Cutting
<1>2. SplitOff(t, n, w, m) = s
  BY <1>1 DEF SplitOff
<1>3. n \in Nat \ {0} /\ n # m
  BY DEF IsTree
<1>4. /\ IsTree(s1) /\ Nodes(s1) = Nodes(t) \cup {m} /\ s1.root = t.root /\ s1.sorted = t.sorted
      /\ s1.nodes[m] = va
      /\ \A y \in Nodes(t) : y # m => s1.nodes[y] = t.nodes[y]
  <2>1. IsSetIn(s1, t, m, va)
    BY SetIs
  <2> HIDE DEF s1
  <2> QED BY ONLY <2>1 DEF IsSetIn
<1> HIDE DEF s1
<1>5. /\ IsTree(s2) /\ Nodes(s2) = Nodes(s1) \cup {n} /\ s2.root = s1.root /\ s2.sorted = s1.sorted
      /\ s2.nodes[n] = vb
      /\ \A y \in Nodes(s1) : y # n => s2.nodes[y] = s1.nodes[y]
  <2>1. IsSetIn(s2, s1, n, vb)
    BY <1>3, <1>4, SetIs
  <2> QED BY ONLY <2>1 DEF IsSetIn
<1> HIDE DEF s2
<1>6. /\ Nodes(s2) = Nodes(t) \cup {m} /\ m \in Nodes(s2) /\ n \in Nodes(s2)
      /\ s2.nodes[m] = va /\ s2.nodes[n] = vb
      /\ \A y \in Nodes(t) : y # n => s2.nodes[y] = t.nodes[y]
  BY <1>3, <1>4, <1>5
<1>7. /\ IsTree(s3) /\ Nodes(s3) = Nodes(s2) /\ s3.root = s2.root /\ s3.sorted = s2.sorted
      /\ \A y \in Nodes(s2) :
           /\ Content(s3.nodes[y], s2.nodes[y])
           /\ s3.nodes[y].parent = IF y \in ToSet(s2.nodes[m].kids) THEN m ELSE s2.nodes[y].parent
  <2>1. IsAdoptedBy(s3, s2, m)
    BY <1>5, <1>6, AdoptedBy
  <2> HIDE DEF s3
  <2> QED BY ONLY <2>1 DEF IsAdoptedBy
<1> HIDE DEF s3
<1>8. /\ IsTree(s) /\ Nodes(s) = Nodes(s3) /\ s.root = s3.root /\ s.sorted = s3.sorted
      /\ \A y \in Nodes(s3) :
           /\ Content(s.nodes[y], s3.nodes[y])
           /\ s.nodes[y].parent = IF y \in ToSet(s3.nodes[n].kids) THEN n ELSE s3.nodes[y].parent
  <2>1. IsAdoptedBy(s, s3, n)
    BY <1>6, <1>7, AdoptedBy
  <2> HIDE DEF s
  <2> QED BY ONLY <2>1 DEF IsAdoptedBy
<1> HIDE DEF s
<1>9. s3.nodes[n].kids = vb.kids /\ s2.nodes[m].kids = va.kids
  BY <1>6, <1>7 DEF Content
<1>10. \A y \in Nodes(s) : Content(s.nodes[y], s2.nodes[y])
  BY <1>7, <1>8 DEF Content
<1>11. ASSUME NEW y \in Nodes(s)
       PROVE s.nodes[y].parent = IF y \in ToSet(vb.kids) THEN n
                             ELSE IF y \in ToSet(va.kids) THEN m
                             ELSE IF y = m THEN va.parent ELSE IF y = n THEN vb.parent
                             ELSE t.nodes[y].parent
  <2>1. y \in Nodes(s3) /\ y \in Nodes(s2)
    BY <1>7, <1>8
  <2>2. s.nodes[y].parent = IF y \in ToSet(vb.kids) THEN n ELSE s3.nodes[y].parent
    BY <1>8, <1>9, <2>1
  <2>3. s3.nodes[y].parent = IF y \in ToSet(va.kids) THEN m ELSE s2.nodes[y].parent
    BY <1>7, <1>9, <2>1
  <2>4. s2.nodes[y].parent = IF y = m THEN va.parent ELSE IF y = n THEN vb.parent ELSE t.nodes[y].parent
    BY <1>3, <1>6, <2>1
  <2> QED BY <2>2, <2>3, <2>4
<1>12. IsSplit(s, t, n, m, va, vb)
  <2>1. /\ Nodes(s) = Nodes(t) \cup {m} /\ s.root = t.root /\ s.sorted = t.sorted /\ IsTree(s)
    BY <1>4, <1>5, <1>6, <1>7, <1>8
  <2>2. Content(s.nodes[m], va) /\ Content(s.nodes[n], vb)
    BY <1>6, <1>10, <2>1
  <2>3. \A y \in Nodes(t) : y # n => Content(s.nodes[y], t.nodes[y])
    BY <1>6, <1>10, <2>1
  <2> QED BY <1>11, <2>1, <2>2, <2>3 DEF IsSplit
<1> QED BY <1>2, <1>12

\* The kids of a wide node and of its parts.
ArePartKids(w, va, vb) ==
    /\ ToSet(w.kids) = ToSet(va.kids) \cup ToSet(vb.kids)
    /\ \A k \in ToSet(va.kids) : \E c \in 1 .. 3 : k = w.kids[c]
    /\ \A k \in ToSet(vb.kids) : \E c \in 4 .. 5 : k = w.kids[c]

\* The first three kids go to the low part, the last two to the high one.
LEMMA PartKids ==
    ASSUME NEW w \in Node234, Len(w.kids) = 5, NEW va, NEW vb, NEW a, NEW x, NEW b,
           IsCutting(va, a, w, b, 1, 2), IsCutting(vb, x, w, b, 4, 4)
    PROVE  ArePartKids(w, va, vb)
<1>1. w.kids \in Seq(Nat) /\ va.kids \in Seq(Nat) /\ vb.kids \in Seq(Nat)
  BY DEF Node234, IsCutting
<1>2. Len(va.kids) = 3 /\ Len(vb.kids) = 2
  <2>1. 2 - 1 + 2 = 3 /\ 4 - 4 + 2 = 2
    OBVIOUS
  <2> QED BY <2>1 DEF IsCutting
<1>3. DOMAIN w.kids = 1 .. 5 /\ DOMAIN va.kids = 1 .. 3 /\ DOMAIN vb.kids = 1 .. 2
  BY <1>1, <1>2
<1>4. va.kids[1] = w.kids[1] /\ va.kids[2] = w.kids[2] /\ va.kids[3] = w.kids[3]
  <2>1. \A c \in 1 .. 2 - 1 + 2 : va.kids[c] = w.kids[1 + c - 1]
    BY DEF IsCutting
  <2>2. 1 \in 1 .. 2 - 1 + 2 /\ 2 \in 1 .. 2 - 1 + 2 /\ 3 \in 1 .. 2 - 1 + 2
        /\ 1 + 1 - 1 = 1 /\ 1 + 2 - 1 = 2 /\ 1 + 3 - 1 = 3
    OBVIOUS
  <2> QED BY <2>1, <2>2
<1>5. vb.kids[1] = w.kids[4] /\ vb.kids[2] = w.kids[5]
  <2>1. \A c \in 1 .. 4 - 4 + 2 : vb.kids[c] = w.kids[4 + c - 1]
    BY DEF IsCutting
  <2>2. 1 \in 1 .. 4 - 4 + 2 /\ 2 \in 1 .. 4 - 4 + 2 /\ 4 + 1 - 1 = 4 /\ 4 + 2 - 1 = 5
    OBVIOUS
  <2> QED BY <2>1, <2>2
<1>6. ToSet(w.kids) = {w.kids[1], w.kids[2], w.kids[3], w.kids[4], w.kids[5]}
  <2>1. 1 .. 5 = {1, 2, 3, 4, 5}
    OBVIOUS
  <2> QED BY <1>3, <2>1 DEF ToSet
<1>7. ToSet(va.kids) = {w.kids[1], w.kids[2], w.kids[3]}
  <2>1. 1 .. 3 = {1, 2, 3}
    OBVIOUS
  <2> QED BY <1>3, <1>4, <2>1 DEF ToSet
<1>8. ToSet(vb.kids) = {w.kids[4], w.kids[5]}
  <2>1. 1 .. 2 = {1, 2}
    OBVIOUS
  <2> QED BY <1>3, <1>5, <2>1 DEF ToSet
<1> QED BY <1>6, <1>7, <1>8 DEF ArePartKids

\* Tree t with w as its node n would be q, which stands; the counts above n are
\* those before gap i got an element.
Pending(q, t, n, w, h, B, G, i) ==
    /\ IsTree(t) /\ n \in Nodes(t) /\ w \in Node234 /\ w.parent = t.nodes[n].parent
    /\ IsPutInto(q, t, n, w)
    /\ Standing(q, h, B, G) /\ PathCounted(q, h, B, -1, i, h[n]) /\ i \in Nat /\ Covers(B[n], i)
    /\ \A y \in Nodes(t) : Size(q, y) \in 1 .. 3 \/ (y = n /\ Size(q, n) = 4)

LowPart(w) == Cutting(w, w.parent, 1, 2)
HighPart(w) == Cutting(w, w.parent, 4, 4)
LowEnds(b) == Borders(b, 1, 2)
HighEnds(b) == Borders(b, 4, 4)

\* Both parts fit where the node was.
PartsFit(q, n, w, h, B, G) ==
    /\ LowPart(w) \in Node234 /\ HighPart(w) \in Node234
    /\ LowPart(w).parent = w.parent /\ HighPart(w).parent = w.parent
    /\ Len(LowPart(w).elems) = 2 /\ Len(HighPart(w).elems) = 1
    /\ LowEnds(B[n]) \in Seq(Nat) /\ HighEnds(B[n]) \in Seq(Nat)
    /\ NodeFits(h, B, G, LowPart(w), LowEnds(B[n]), h[n]) /\ Exact(LowPart(w), LowEnds(B[n]))
    /\ NodeFits(h, B, G, HighPart(w), HighEnds(B[n]), h[n]) /\ Exact(HighPart(w), HighEnds(B[n]))
    /\ Lo(LowEnds(B[n])) = Lo(B[n]) /\ Hi(LowEnds(B[n])) = B[n][4]
    /\ Lo(HighEnds(B[n])) = B[n][4] /\ Hi(HighEnds(B[n])) = Hi(B[n])
    /\ B[n][4] \in Nat /\ Lo(B[n]) < B[n][4] /\ B[n][4] < Hi(B[n]) /\ Lo(B[n]) \in Nat /\ Hi(B[n]) \in Nat
    /\ w.elems[3] = G[B[n][4]] /\ w.elems[3] \in Int
    /\ Kids(q, n) = ToSet(LowPart(w).kids) \cup ToSet(HighPart(w).kids)
    /\ \A k \in Nodes(q) : ~ (k \in ToSet(LowPart(w).kids) /\ k \in ToSet(HighPart(w).kids))

\* A part does not depend on the parent of the wide node.
LEMMA CuttingOf ==
    ASSUME NEW w, NEW v, Content(v, w), NEW parent, NEW i, NEW j
    PROVE  Cutting(v, parent, i, j) = Cutting(w, parent, i, j)
BY DEF Cutting, Content

\* A node of four elements that fits has such parts.
LEMMA PartsFitIn ==
    ASSUME NEW q, NEW h, NEW B, NEW G, Standing(q, h, B, G), NEW n \in Nodes(q), NEW w \in Node234,
           Content(q.nodes[n], w), Exact(q.nodes[n], B[n]), Size(q, n) = 4
    PROVE  PartsFit(q, n, w, h, B, G)
<1> DEFINE v == q.nodes[n]
           b == B[n]
           va == LowPart(w)
           vb == HighPart(w)
<1>1. /\ v \in Node234 /\ b \in Seq(Nat) /\ NodeFits(h, B, G, v, b, h[n]) /\ Bounds(b, 4) /\ Len(v.elems) = 4
      /\ Exact(v, b)
  BY NodeIs, ZenonT(40) DEF Standing, Size
<1>2. w.parent \in Nat
  BY DEF Node234
<1>3. 1 \in 1 .. 4 /\ 2 \in 1 .. 4 /\ 4 \in 4 .. 4 /\ 4 \in 1 .. 4
  OBVIOUS
<1>4. IsCutting(va, LowEnds(b), v, b, 1, 2)
  <2>1. IsCutting(Cutting(v, w.parent, 1, 2), Borders(b, 1, 2), v, b, 1, 2)
    <3>1. 1 \in 1 .. Len(v.elems) /\ 2 \in 1 .. Len(v.elems)
      BY <1>1
    <3> HIDE DEF v, b
    <3> QED BY <1>1, <1>2, <3>1, CuttingIs
  <2> QED BY <2>1, CuttingOf DEF LowPart, LowEnds
<1>5. IsCutting(vb, HighEnds(b), v, b, 4, 4)
  <2>1. IsCutting(Cutting(v, w.parent, 4, 4), Borders(b, 4, 4), v, b, 4, 4)
    <3>1. 4 \in 1 .. Len(v.elems) /\ 4 \in 4 .. Len(v.elems)
      BY <1>1
    <3> HIDE DEF v, b
    <3> QED BY <1>1, <1>2, <3>1, CuttingIs
  <2> QED BY <2>1, CuttingOf DEF HighPart, HighEnds
<1>6. va.parent = w.parent /\ vb.parent = w.parent
  BY DEF LowPart, HighPart, Cutting
<1> HIDE DEF v, b, va, vb
<1>7. NodeFits(h, B, G, va, LowEnds(b), h[n]) /\ Exact(va, LowEnds(b))
  <2>1. 1 \in 1 .. Len(v.elems) /\ 2 \in 1 .. Len(v.elems) /\ 2 \in 1 .. 4
    BY <1>1
  <2>2. NodeFits(h, B, G, va, LowEnds(b), h[n]) /\ (Exact(v, b) => Exact(va, LowEnds(b)))
    BY <1>1, <1>4, <2>1, CuttingFits, ZenonT(40)
  <2> QED BY <1>1, <2>2
<1>8. NodeFits(h, B, G, vb, HighEnds(b), h[n]) /\ Exact(vb, HighEnds(b))
  <2>1. 4 \in 1 .. Len(v.elems) /\ 4 \in 4 .. Len(v.elems)
    BY <1>1
  <2>2. NodeFits(h, B, G, vb, HighEnds(b), h[n]) /\ (Exact(v, b) => Exact(vb, HighEnds(b)))
    <3>1. v \in Node234 /\ b \in Seq(Nat) /\ NodeFits(h, B, G, v, b, h[n])
      BY <1>1
    <3> QED BY ONLY <1>5, <2>1, <3>1, CuttingFits
  <2> QED BY <1>1, <2>2
<1>9. /\ va \in Node234 /\ vb \in Node234 /\ LowEnds(b) \in Seq(Nat) /\ HighEnds(b) \in Seq(Nat)
      /\ Len(va.elems) = 2 /\ Len(vb.elems) = 1
      /\ Lo(LowEnds(b)) = b[1] /\ Hi(LowEnds(b)) = b[4] /\ Lo(HighEnds(b)) = b[4] /\ Hi(HighEnds(b)) = b[6]
  <2>1. 2 - 1 + 1 = 2 /\ 4 - 4 + 1 = 1 /\ 2 + 2 = 4 /\ 4 + 2 = 6
    OBVIOUS
  <2> QED BY <1>4, <1>5, <2>1 DEF IsCutting
<1>10. Lo(b) = b[1] /\ Hi(b) = b[6]
  BY <1>1 DEF Bounds
<1>11. b[4] \in Nat /\ Lo(b) < b[4] /\ b[4] < Hi(b) /\ Lo(b) \in Nat /\ Hi(b) \in Nat
  <2>1. 3 \in 1 .. 4 /\ 3 + 1 = 4
    OBVIOUS
  <2>2. b[3 + 1] \in Nat /\ Lo(b) < b[3 + 1] /\ b[3 + 1] < Hi(b) /\ Lo(b) \in Nat /\ Hi(b) \in Nat
    BY <1>1, <2>1, InnerIs
  <2> QED BY <2>1, <2>2
<1>12. w.elems[3] = G[b[4]] /\ w.elems[3] \in Int
  <2>1. 3 \in 1 .. Len(v.elems) /\ 3 + 1 = 4
    BY <1>1
  <2>2. v.elems[3] = G[b[3 + 1]]
    BY <1>1, <2>1 DEF NodeFits
  <2>3. w.elems = v.elems /\ v.elems \in Seq(Int)
    BY <1>1 DEF Content, Node234, v
  <2> QED BY <2>1, <2>2, <2>3
<1>13. ArePartKids(v, va, vb)
  <2>1. Len(v.kids) = 5
    <3>1. Len(v.kids) = 4 + 1
      BY <1>1 DEF NodeFits
    <3> QED BY <3>1
  <2> QED BY <1>1, <1>4, <1>5, <2>1, PartKids
<1>14. ASSUME NEW k \in Nodes(q), k \in ToSet(va.kids), k \in ToSet(vb.kids) PROVE FALSE
  <2>1. PICK c \in 1 .. 3 : k = v.kids[c]
    BY <1>13, <1>14 DEF ArePartKids
  <2>2. PICK d \in 4 .. 5 : k = v.kids[d]
    BY <1>13, <1>14 DEF ArePartKids
  <2>3. c \in 1 .. Size(q, n) + 1 /\ d \in 1 .. Size(q, n) + 1 /\ c # d
    <3>1. c \in 1 .. 4 + 1 /\ d \in 1 .. 4 + 1 /\ c # d
      OBVIOUS
    <3> QED BY <3>1
  <2>4. k # NULL
    BY NodeIs DEF Standing
  <2>5. q.nodes[n].kids[c] = q.nodes[n].kids[d] /\ q.nodes[n].kids[c] # NULL
    BY <2>1, <2>2, <2>4 DEF v
  <2> QED BY <2>3, <2>5, KidSlots
<1> QED BY <1>6, <1>7, <1>8, <1>9, <1>10, <1>11, <1>12, <1>13, <1>14 DEF PartsFit, ArePartKids, Kids, v, b, va, vb

\* Of the two items one was there before, so the items are those there were and the new one.
LEMMA AroundSet ==
    ASSUME NEW S, NEW s, s \in Seq(S), NEW pos, pos \in 1 .. Len(s), NEW x, NEW y, y = s[pos], NEW w,
           IsAround(w, S, s, pos, x, y)
    PROVE  ToSet(w) = ToSet(s) \cup {x}
<1>1. PICK k \in Nat : k = Len(s)
  OBVIOUS
<1>2. DOMAIN s = 1 .. k /\ DOMAIN w = 1 .. k + 1 /\ pos \in 1 .. k
  BY <1>1 DEF IsAround
<1>3. /\ \A j \in 1 .. pos - 1 : w[j] = s[j]
      /\ w[pos] = x /\ w[pos + 1] = s[pos]
      /\ \A j \in pos + 1 .. k : w[j + 1] = s[j]
  BY <1>1 DEF IsAround
<1>4. ASSUME NEW c \in 1 .. k + 1 PROVE w[c] = x \/ \E d \in 1 .. k : w[c] = s[d]
  <2>1. CASE c < pos
    <3>1. c \in 1 .. pos - 1 /\ c \in 1 .. k
      BY <1>2, <2>1
    <3> QED BY <1>3, <3>1
  <2>2. CASE c = pos \/ c = pos + 1
    BY <1>2, <1>3, <2>2
  <2>3. CASE c > pos + 1
    <3>1. PICK d \in pos + 1 .. k : d + 1 = c
      <4>1. c - 1 \in pos + 1 .. k /\ (c - 1) + 1 = c
        BY <1>2, <2>3
      <4> QED BY <4>1
    <3>2. d \in 1 .. k
      BY <1>2
    <3> QED BY <1>3, <3>1, <3>2
  <2> QED BY <1>2, <2>1, <2>2, <2>3
<1>5. ASSUME NEW d \in 1 .. k PROVE \E c \in 1 .. k + 1 : w[c] = s[d]
  <2>1. CASE d < pos
    <3>1. d \in 1 .. pos - 1 /\ d \in 1 .. k + 1
      BY <1>2, <2>1
    <3> QED BY <1>3, <3>1
  <2>2. CASE d = pos
    <3>1. pos + 1 \in 1 .. k + 1
      BY <1>2
    <3> QED BY <1>3, <2>2, <3>1
  <2>3. CASE d > pos
    <3>1. d \in pos + 1 .. k /\ d + 1 \in 1 .. k + 1
      BY <1>2, <2>3
    <3> QED BY <1>3, <3>1
  <2> QED BY <1>2, <2>1, <2>2, <2>3
<1>6. pos \in 1 .. k + 1
  BY <1>2
<1>7. ToSet(w) = {w[c] : c \in 1 .. k + 1} /\ ToSet(s) = {s[d] : d \in 1 .. k}
  BY <1>2 DEF ToSet
<1>8. ASSUME NEW v PROVE v \in ToSet(w) <=> v \in ToSet(s) \cup {x}
  <2>1. CASE v = x
    BY <1>3, <1>6, <1>7, <2>1
  <2>2. ASSUME v \in ToSet(w), v # x PROVE v \in ToSet(s)
    <3>1. PICK c \in 1 .. k + 1 : v = w[c]
      BY <1>7, <2>2
    <3> QED BY <1>4, <1>7, <2>2, <3>1
  <2>3. ASSUME v \in ToSet(s) PROVE v \in ToSet(w)
    <3>1. PICK d \in 1 .. k : v = s[d]
      BY <1>7, <2>3
    <3> QED BY <1>5, <1>7, <3>1
  <2> QED BY <2>1, <2>2, <2>3
<1> QED BY <1>8

\* A node is not below itself, and its kids are not above it.
LEMMA ParentHeight ==
    ASSUME NEW t, NEW h, NEW B, NEW G, Standing(t, h, B, G), NEW y \in Nodes(t), NEW k \in Nodes(t),
           k \in Kids(t, y)
    PROVE  h[y] = h[k] + 1 /\ k # y /\ t.nodes[k].parent = y /\ h[k] \in Nat /\ k # t.root /\ k # NULL
<1>1. t.nodes[k].parent = y
  BY DEF Standing, Linked, Kids
<1>2. PICK c \in 1 .. Size(t, y) + 1 : IsKid(t, h, B, y, c, k)
  BY <1>1, KidOf DEF Standing
<1>3. h[k] = h[y] - 1 /\ h[y] \in Nat /\ h[k] \in Nat /\ y # NULL /\ k # NULL
  BY <1>2, NodeIs DEF Standing, IsKid
<1>4. h[y] = h[k] + 1
  BY <1>3
<1>5. k # y
  BY <1>3, <1>4
<1>6. k # t.root
  BY <1>1, <1>3 DEF Standing, Linked
<1> QED BY <1>1, <1>3, <1>4, <1>5, <1>6

\* Kids are nodes or NULL.
LEMMA KidsAreNodes ==
    ASSUME NEW t, NEW h, NEW B, NEW G, Standing(t, h, B, G), NEW y \in Nodes(t)
    PROVE  Kids(t, y) \in SUBSET (Nodes(t) \cup {NULL})
<1>1. NodeFits(h, B, G, t.nodes[y], B[y], h[y]) /\ t.nodes[y] \in Node234
  BY NodeIs DEF Standing
<1>2. DOMAIN t.nodes[y].kids = 1 .. Size(t, y) + 1
  BY <1>1, PartsAre DEF Size
<1>3. \A c \in 1 .. Size(t, y) + 1 : t.nodes[y].kids[c] \in Nodes(t) \cup {NULL}
  BY KidSpan
<1> QED BY <1>2, <1>3 DEF Kids, ToSet

Length(b) == Hi(b) - Lo(b) - 1

\* The split of node n of q, whose parent up gets the element between the parts.
SplitScene(q, n, w, m, up, cc, old, w2, q2, h, B, G) ==
    /\ Standing(q, h, B, G) /\ n \in Nodes(q) /\ up \in Nodes(q) /\ up # n
    /\ m \in Nat \ {0} /\ m \notin Nodes(q)
    /\ h[up] = h[n] + 1 /\ cc \in 1 .. Size(q, up) + 1 /\ IsKid(q, h, B, up, cc, n)
    /\ PartsFit(q, n, w, h, B, G) /\ w.parent = up
    /\ old \in Node234 /\ Content(old, q.nodes[up])
    /\ IsWide(w2, old, cc, m, w.elems[3], n, Length(LowEnds(B[n])), Length(HighEnds(B[n])))
    /\ ToSet(w2.kids) = Kids(q, up) \cup {m}
    /\ IsTree(q2) /\ Nodes(q2) = Nodes(q) \cup {m} /\ q2.root = q.root /\ q2.sorted = q.sorted
    /\ Content(q2.nodes[m], LowPart(w)) /\ Content(q2.nodes[n], HighPart(w)) /\ Content(q2.nodes[up], w2)
    /\ \A y \in Nodes(q) : y # n /\ y # up => Content(q2.nodes[y], q.nodes[y])
    /\ \A y \in Nodes(q2) :
         q2.nodes[y].parent = IF y \in Kids(q, up) \cup {m} THEN up
                              ELSE IF y \in ToSet(HighPart(w).kids) THEN n
                              ELSE IF y \in ToSet(LowPart(w).kids) THEN m
                              ELSE q.nodes[y].parent

\* countnode234 of a node with known content is the number of positions between its ends.
LEMMA CountOf ==
    ASSUME NEW s, IsTree(s), NEW n \in Nodes(s), NEW v, Content(s.nodes[n], v), NEW b \in Seq(Nat), NEW h, NEW B, NEW G,
           NEW x, NodeFits(h, B, G, v, b, x), Exact(v, b)
    PROVE  countnode234(s, n) = Length(b)
<1>1. s.nodes[n] \in Node234
  BY TreeNodes DEF NodesAre
<1>2. s.nodes[n].elems = v.elems /\ s.nodes[n].counts = v.counts
  BY DEF Content
<1>3. Len(v.elems) \in Nat
  <2>1. s.nodes[n].elems \in Seq(Int)
    BY <1>1 DEF Node234
  <2> QED BY <1>2, <2>1
<1>4. Len(b) = Len(v.elems) + 2 /\ Len(v.counts) = Len(v.elems) + 1 /\ Len(v.elems) >= 1
  BY DEF NodeFits
<1>5. Len(b) = Len(s.nodes[n].counts) + 1 /\ Len(s.nodes[n].counts) >= 1
  BY <1>2, <1>3, <1>4
<1>6. Exact(s.nodes[n], b)
  BY <1>2, ZenonT(40) DEF Exact
<1> QED BY <1>5, <1>6, CountIs DEF Length

\* SplitOff and then widening the parent, as the loop of add234 does, make such a scene.
LEMMA SceneOf ==
    ASSUME NEW q, NEW t, NEW n, NEW w, NEW h, NEW B, NEW G, NEW i, Pending(q, t, n, w, h, B, G, i), Size(q, n) = 4,
           NEW m \in Nat \ {0}, m \notin Nodes(t), NEW s, s = SplitOff(t, n, w, m),
           NEW up, up = t.nodes[n].parent, up # NULL, NEW cc, cc = ChildNum(t, n),
           NEW w2, w2 = Widened(s, up, cc, m, w.elems[3], n)
    PROVE  /\ SplitScene(q, n, w, m, up, cc, s.nodes[up], w2, PutInto(s, up, w2), h, B, G)
           /\ IsTree(s) /\ up \in Nodes(s) /\ w2 \in Node234 /\ w2.parent = s.nodes[up].parent
           /\ IsPutInto(PutInto(s, up, w2), s, up, w2)
           /\ s.sorted = t.sorted
<1>1. /\ IsTree(t) /\ n \in Nodes(t) /\ w \in Node234 /\ w.parent = up
      /\ IsPutInto(q, t, n, w)
      /\ Standing(q, h, B, G) /\ PathCounted(q, h, B, -1, i, h[n]) /\ i \in Nat /\ Covers(B[n], i)
  BY DEF Pending
<1>2. /\ IsTree(q) /\ Nodes(q) = Nodes(t) /\ q.root = t.root /\ q.sorted = t.sorted
      /\ Content(q.nodes[n], w) /\ q.nodes[n].parent = up
      /\ \A y \in Nodes(t) : y # n =>
           /\ Content(q.nodes[y], t.nodes[y])
           /\ q.nodes[y].parent = IF y \in ToSet(w.kids) THEN n ELSE t.nodes[y].parent
  BY <1>1 DEF IsPutInto
<1>3. n \in Nodes(q) /\ n # q.root
  BY <1>1, <1>2 DEF Standing, Linked
<1>4. up \in Nodes(q) /\ h[up] = h[n] + 1 /\ ChildNum(q, n) \in 1 .. Size(q, up) + 1
      /\ IsKid(q, h, B, up, ChildNum(q, n), n)
  BY <1>1, <1>2, <1>3, ParentIs DEF Standing
<1>5. up # n
  <2>1. h[n] \in Nat
    BY <1>1, <1>3, NodeIs, SMTT(40) DEF Standing
  <2> QED BY <1>4, <2>1
<1>6. cc = ChildNum(q, n)
  <2>1. q.nodes[up].kids = t.nodes[up].kids
    BY <1>2, <1>4, <1>5, ZenonT(40) DEF Content
  <2>2. ChildNum(q, n) = CHOOSE c \in DOMAIN q.nodes[up].kids : q.nodes[up].kids[c] = n
    BY <1>2, ZenonT(40) DEF ChildNum
  <2>3. ChildNum(t, n) = CHOOSE c \in DOMAIN t.nodes[up].kids : t.nodes[up].kids[c] = n
    BY DEF ChildNum
  <2> QED BY <2>1, <2>2, <2>3, ZenonT(40)
<1>7. PartsFit(q, n, w, h, B, G)
  <2>1. Exact(q.nodes[n], B[n])
    <3>1. h[n] \in Nat
      BY <1>1, <1>3, NodeIs DEF Standing
    <3>2. ~ (h[n] > h[n])
      BY <3>1
    <3> QED BY <1>1, <1>3, <3>2, PathIsAbove
  <2> QED BY <1>1, <1>2, <1>3, <2>1, PartsFitIn
<1> DEFINE va == LowPart(w)
           vb == HighPart(w)
<1>8. IsSplit(s, t, n, m, va, vb)
  <2>1. va \in Node234 /\ vb \in Node234
    BY <1>7 DEF PartsFit
  <2> QED BY <1>1, <2>1, SplitIs DEF LowPart, HighPart
<1> HIDE DEF va, vb
<1>9. /\ IsTree(s) /\ Nodes(s) = Nodes(t) \cup {m} /\ s.root = t.root /\ s.sorted = t.sorted
      /\ Content(s.nodes[m], va) /\ Content(s.nodes[n], vb)
      /\ \A y \in Nodes(t) : y # n => Content(s.nodes[y], t.nodes[y])
      /\ \A y \in Nodes(s) :
           s.nodes[y].parent = IF y \in ToSet(vb.kids) THEN n
                               ELSE IF y \in ToSet(va.kids) THEN m
                               ELSE IF y = m THEN va.parent ELSE IF y = n THEN vb.parent
                               ELSE t.nodes[y].parent
  BY <1>8 DEF IsSplit
<1>10. countnode234(s, m) = Length(LowEnds(B[n])) /\ countnode234(s, n) = Length(HighEnds(B[n]))
  <2>1. /\ LowEnds(B[n]) \in Seq(Nat) /\ HighEnds(B[n]) \in Seq(Nat)
        /\ NodeFits(h, B, G, va, LowEnds(B[n]), h[n]) /\ Exact(va, LowEnds(B[n]))
        /\ NodeFits(h, B, G, vb, HighEnds(B[n]), h[n]) /\ Exact(vb, HighEnds(B[n]))
    BY <1>7 DEF PartsFit, va, vb
  <2>2. m \in Nodes(s) /\ n \in Nodes(s)
    BY <1>1, <1>9
  <2>3. countnode234(s, m) = Length(LowEnds(B[n]))
    BY <1>9, <2>1, <2>2, CountOf
  <2>4. countnode234(s, n) = Length(HighEnds(B[n]))
    BY <1>9, <2>1, <2>2, CountOf
  <2> QED BY <2>3, <2>4
<1> DEFINE old == s.nodes[up]
           k == Size(q, up)
<1>11. up \in Nodes(s) /\ old \in Node234 /\ Content(old, q.nodes[up])
  <2>1. up \in Nodes(s) /\ up \in Nodes(t)
    BY <1>2, <1>4, <1>9
  <2>2. Content(s.nodes[up], t.nodes[up]) /\ Content(q.nodes[up], t.nodes[up])
    BY <1>2, <1>5, <1>9, <2>1
  <2>3. s.nodes[up] \in Node234
    BY <1>9, <2>1, TreeNodes, ZenonT(40) DEF NodesAre
  <2> QED BY <2>1, <2>2, <2>3 DEF Content
<1>12. /\ q.nodes[up] \in Node234 /\ Len(q.nodes[up].kids) = k + 1 /\ Len(q.nodes[up].counts) = k + 1
       /\ k \in Nat /\ q.nodes[up].kids \in Seq(Nat)
  <2>1. NodeFits(h, B, G, q.nodes[up], B[up], h[up]) /\ q.nodes[up] \in Node234
    BY <1>1, <1>4, NodeIs DEF Standing
  <2> QED BY <2>1, PartsAre DEF Size
<1>13. Size(s, up) = k /\ Len(old.kids) = k + 1 /\ Len(old.counts) = k + 1 /\ old.kids = q.nodes[up].kids
  BY <1>11, <1>12 DEF Content, Size
<1>14. IsWide(w2, old, cc, m, w.elems[3], n, Length(LowEnds(B[n])), Length(HighEnds(B[n])))
  <2>1. cc \in 1 .. k + 1 /\ cc \in Nat /\ cc >= 1
    BY <1>4, <1>6, <1>12
  <2>2. cc = (IF cc < Size(s, up) + 1 THEN cc ELSE Size(s, up) + 1)
    BY <1>12, <1>13, <2>1
  <2>3. w.elems[3] \in Int /\ n \in Nat
    BY <1>1, <1>3, <1>7, NodeIs DEF PartsFit, Standing
  <2>4. Length(LowEnds(B[n])) \in Int /\ Length(HighEnds(B[n])) \in Int
    BY <1>7, SMTT(40) DEF PartsFit, Length
  <2>5. m \in Nat
    OBVIOUS
  <2>6. Len(s.nodes[up].kids) = Size(s, up) + 1 /\ Len(s.nodes[up].counts) = Size(s, up) + 1 /\ s.nodes[up] \in Node234
    BY <1>11, <1>13
  <2>7. IsWide(Widened(s, up, cc, m, w.elems[3], n), s.nodes[up], cc, m, w.elems[3], n,
               Length(LowEnds(B[n])), Length(HighEnds(B[n])))
    BY <1>10, <2>1, <2>2, <2>3, <2>4, <2>5, <2>6, WidenedIs, ZenonT(40)
  <2> QED BY <2>7
<1>15. ToSet(w2.kids) = Kids(q, up) \cup {m}
  <2>1. IsAround(w2.kids, Nat, q.nodes[up].kids, cc, m, n)
    BY <1>13, <1>14, ZenonT(40) DEF IsWide
  <2>2. q.nodes[up].kids[cc] = n
    BY <1>4, <1>6 DEF IsKid
  <2>3. cc \in 1 .. Len(q.nodes[up].kids)
    BY <1>4, <1>6, <1>12
  <2>4. q.nodes[up].kids \in Seq(Nat)
    BY <1>12
  <2>5. PICK S, ks, vs, x : S = Nat /\ ks = q.nodes[up].kids /\ vs = w2.kids /\ x = m
    OBVIOUS
  <2>6. ks \in Seq(S) /\ cc \in 1 .. Len(ks) /\ n = ks[cc] /\ IsAround(vs, S, ks, cc, x, n)
    BY ONLY <2>1, <2>2, <2>3, <2>4, <2>5
  <2>7. ToSet(vs) = ToSet(ks) \cup {x}
    BY ONLY <2>6, AroundSet
  <2> QED BY ONLY <2>5, <2>7 DEF Kids
<1> DEFINE q2 == PutInto(s, up, w2)
<1>16. IsPutInto(q2, s, up, w2)
  <2>1. w2 \in Node234
    BY <1>14, ZenonT(40) DEF IsWide
  <2>2. up \notin ToSet(w2.kids)
    <3>1. up # m
      BY <1>2, <1>4
    <3>2. up \notin Kids(q, up)
      BY <1>1, <1>4, ParentHeight, ZenonT(40)
    <3> QED BY <1>15, <3>1, <3>2
  <2> QED BY <1>9, <1>11, <2>1, <2>2, PutIntoIs, SMTT(40)
<1> HIDE DEF q2, old
<1>17. /\ IsTree(q2) /\ Nodes(q2) = Nodes(s) /\ q2.root = s.root /\ q2.sorted = s.sorted
       /\ Content(q2.nodes[up], w2) /\ q2.nodes[up].parent = w2.parent
       /\ \A y \in Nodes(s) : y # up =>
            /\ Content(q2.nodes[y], s.nodes[y])
            /\ q2.nodes[y].parent = IF y \in ToSet(w2.kids) THEN up ELSE s.nodes[y].parent
  BY <1>16, SMTT(40) DEF IsPutInto
<1>18. w2.parent = s.nodes[up].parent
  BY <1>14, ZenonT(40) DEF IsWide, old
<1>19. /\ Content(q2.nodes[m], va) /\ Content(q2.nodes[n], vb)
       /\ \A y \in Nodes(q) : y # n /\ y # up => Content(q2.nodes[y], q.nodes[y])
  <2>1. m \in Nodes(s) /\ n \in Nodes(s) /\ m # up
    BY <1>1, <1>2, <1>4, <1>9, ZenonT(40)
  <2>2. Content(q2.nodes[m], va) /\ Content(q2.nodes[n], vb)
    BY <1>5, <1>9, <1>17, <2>1 DEF Content
  <2>3. ASSUME NEW y \in Nodes(q), y # n, y # up PROVE Content(q2.nodes[y], q.nodes[y])
    <3>1. Content(q2.nodes[y], s.nodes[y]) /\ Content(s.nodes[y], t.nodes[y]) /\ Content(q.nodes[y], t.nodes[y])
      BY <1>2, <1>9, <1>17, <2>3
    <3> QED BY <3>1, SMTT(40) DEF Content
  <2> QED BY <2>2, <2>3
<1>20. ASSUME NEW y \in Nodes(q2)
       PROVE  q2.nodes[y].parent = IF y \in Kids(q, up) \cup {m} THEN up
                              ELSE IF y \in ToSet(vb.kids) THEN n
                              ELSE IF y \in ToSet(va.kids) THEN m
                              ELSE q.nodes[y].parent
  <2>1. n \in Kids(q, up)
    BY <1>1, <1>2, <1>3, <1>4 DEF Standing, Linked, Kids
  <2>2. y \in Nodes(s) /\ (y = m \/ y \in Nodes(t))
    BY <1>9, <1>17
  <2>3. q2.nodes[y].parent = IF y \in ToSet(w2.kids) THEN up ELSE s.nodes[y].parent
    <3>1. CASE y = up
      <4>1. up \notin ToSet(w2.kids)
        <5>1. up # m
          BY <1>2, <1>4
        <5>2. up \notin Kids(q, up)
          BY <1>1, <1>4, ParentHeight
        <5> QED BY <1>15, <5>1, <5>2
      <4> QED BY <1>17, <1>18, <3>1, <4>1
    <3>2. CASE y # up
      BY <1>17, <2>2, <3>2
    <3> QED BY <3>1, <3>2, ZenonT(40)
  <2>4. CASE y \in Kids(q, up) \cup {m}
    BY <1>15, <2>3, <2>4
  <2>5. CASE y \notin Kids(q, up) \cup {m}
    <3>1. y # n /\ y # m /\ y \in Nodes(t)
      BY <2>1, <2>2, <2>5
    <3>2. q2.nodes[y].parent = IF y \in ToSet(vb.kids) THEN n ELSE IF y \in ToSet(va.kids) THEN m ELSE t.nodes[y].parent
      BY <1>9, <1>15, <2>2, <2>3, <2>5, <3>1
    <3>3. ToSet(w.kids) = ToSet(va.kids) \cup ToSet(vb.kids)
      BY <1>2, <1>7 DEF PartsFit, Kids, Content, va, vb
    <3>4. q.nodes[y].parent = IF y \in ToSet(w.kids) THEN n ELSE t.nodes[y].parent
      BY <1>2, <3>1, ZenonT(40)
    <3> QED BY <2>5, <3>2, <3>3, <3>4
  <2> QED BY <2>4, <2>5
<1>21. SplitScene(q, n, w, m, up, cc, old, w2, q2, h, B, G)
  <2>1. m \notin Nodes(q) /\ Nodes(q2) = Nodes(q) \cup {m} /\ q2.root = q.root /\ q2.sorted = q.sorted
    BY <1>2, <1>9, <1>17
  <2>2. old \in Node234 /\ Content(old, q.nodes[up])
    BY <1>11 DEF old
  <2>3. cc \in 1 .. Size(q, up) + 1 /\ IsKid(q, h, B, up, cc, n)
    BY <1>4, <1>6
  <2> QED BY <1>1, <1>3, <1>4, <1>5, <1>7, <1>14, <1>15, <1>17, <1>19, <1>20, <2>1, <2>2, <2>3 DEF SplitScene, va, vb
<1>22. w2 \in Node234
  BY <1>14 DEF IsWide
<1> QED BY <1>9, <1>11, <1>16, <1>18, <1>21, <1>22 DEF q2, old

\* The layout after the split.
SplitHeights(q, n, m, h) == [y \in Nodes(q) \cup {m} |-> IF y = m THEN h[n] ELSE h[y]]
SplitEnds(q, n, m, up, cc, B) ==
    [y \in Nodes(q) \cup {m} |->
        IF y = m THEN LowEnds(B[n]) ELSE IF y = n THEN HighEnds(B[n])
        ELSE IF y = up THEN Parted(B[up], cc, B[n][4]) ELSE B[y]]
IsSplitLayout(q, n, m, up, cc, h, B, h2, B2) ==
    /\ h2 \in [Nodes(q) \cup {m} -> Nat] /\ B2 \in [Nodes(q) \cup {m} -> Seq(Nat)]
    /\ h2[m] = h[n] /\ B2[m] = LowEnds(B[n]) /\ B2[n] = HighEnds(B[n])
    /\ IsParted(B2[up], B[up], Size(q, up), cc, B[n][4])
    /\ \A y \in Nodes(q) : h2[y] = h[y] /\ (y # n /\ y # up => B2[y] = B[y])
    /\ \A y \in Nodes(q) : y # n => Stays(h, B, h2, B2, y)

\* What the split is about: the node, its parent and their slots.
SplitFacts(q, n, w, m, up, cc, h, B, G) ==
    /\ Standing(q, h, B, G) /\ n \in Nodes(q) /\ up \in Nodes(q) /\ up # n
    /\ m \in Nat /\ m # NULL /\ m \notin Nodes(q)
    /\ h[n] \in Nat /\ h[up] = h[n] + 1 /\ IsKid(q, h, B, up, cc, n)
    /\ h \in [Nodes(q) -> Nat] /\ B \in [Nodes(q) -> Seq(Nat)]
    /\ Bounds(B[up], Size(q, up)) /\ Bounds(B[n], Size(q, n)) /\ cc \in 1 .. Size(q, up) + 1
    /\ PartsFit(q, n, w, h, B, G)
    /\ q.root \in Nodes(q) /\ q.root # n

\* These facts hold in each scene.
LEMMA SplitFactsAre ==
    ASSUME NEW q, NEW n, NEW w, NEW m, NEW up, NEW cc, NEW old, NEW w2, NEW q2, NEW h, NEW B, NEW G,
           SplitScene(q, n, w, m, up, cc, old, w2, q2, h, B, G)
    PROVE  SplitFacts(q, n, w, m, up, cc, h, B, G)
<1>1. /\ Standing(q, h, B, G) /\ n \in Nodes(q) /\ up \in Nodes(q) /\ up # n
      /\ m \in Nat \ {0} /\ m \notin Nodes(q)
      /\ h[up] = h[n] + 1 /\ cc \in 1 .. Size(q, up) + 1 /\ IsKid(q, h, B, up, cc, n)
      /\ PartsFit(q, n, w, h, B, G)
  BY DEF SplitScene
<1>2. IsTree(q) /\ Layout(q, h, B, G) /\ Linked(q)
  BY <1>1 DEF Standing
<1>3. h \in [Nodes(q) -> Nat] /\ B \in [Nodes(q) -> Seq(Nat)]
  BY <1>2 DEF Layout
<1>4. Bounds(B[up], Size(q, up)) /\ Bounds(B[n], Size(q, n)) /\ q.root \in Nodes(q) /\ h[n] \in Nat
  BY <1>1, <1>2, NodeIs
<1>5. h[up] <= h[q.root]
  BY <1>1, <1>2, NodeIs
<1>6. q.root # n
  BY <1>1, <1>4, <1>5
<1>7. m \in Nat /\ m # NULL
  BY <1>1 DEF NULL
<1> QED BY <1>1, <1>3, <1>4, <1>6, <1>7 DEF SplitFacts

\* The layout is the one expected.
LEMMA SplitLayout ==
    ASSUME NEW q, NEW n, NEW w, NEW m, NEW up, NEW cc, NEW h, NEW B, NEW G,
           SplitFacts(q, n, w, m, up, cc, h, B, G)
    PROVE  IsSplitLayout(q, n, m, up, cc, h, B, SplitHeights(q, n, m, h), SplitEnds(q, n, m, up, cc, B))
<1> DEFINE h2 == SplitHeights(q, n, m, h)
           B2 == SplitEnds(q, n, m, up, cc, B)
           mid == B[n][4]
<1>1. /\ n \in Nodes(q) /\ up \in Nodes(q) /\ up # n /\ m \notin Nodes(q)
      /\ h[n] \in Nat /\ h \in [Nodes(q) -> Nat] /\ B \in [Nodes(q) -> Seq(Nat)]
      /\ Bounds(B[up], Size(q, up)) /\ cc \in 1 .. Size(q, up) + 1
      /\ IsKid(q, h, B, up, cc, n)
  BY DEF SplitFacts
<1>2. /\ LowEnds(B[n]) \in Seq(Nat) /\ HighEnds(B[n]) \in Seq(Nat)
      /\ mid \in Nat /\ Lo(B[n]) < mid /\ mid < Hi(B[n])
  BY DEF SplitFacts, PartsFit
<1>3. Lo(B[n]) = B[up][cc] /\ Hi(B[n]) = B[up][cc + 1]
  BY <1>1 DEF IsKid
<1>4. B[up][cc] < mid /\ mid < B[up][cc + 1]
  BY <1>2, <1>3
<1>5. IsParted(Parted(B[up], cc, mid), B[up], Size(q, up), cc, mid)
  BY <1>1, <1>2, <1>4, PartedIs
<1>6. Parted(B[up], cc, mid) \in Seq(Nat) /\ Lo(Parted(B[up], cc, mid)) = Lo(B[up]) /\ Hi(Parted(B[up], cc, mid)) = Hi(B[up])
  BY <1>5 DEF IsParted
<1>7. h2[m] = h[n] /\ \A y \in Nodes(q) : h2[y] = h[y]
  BY <1>1 DEF SplitHeights
<1>8. h2 \in [Nodes(q) \cup {m} -> Nat]
  BY <1>1 DEF SplitHeights
<1>9. B2[m] = LowEnds(B[n]) /\ B2[n] = HighEnds(B[n]) /\ B2[up] = Parted(B[up], cc, mid)
  BY <1>1 DEF SplitEnds
<1>10. \A y \in Nodes(q) : y # n /\ y # up => B2[y] = B[y]
  BY <1>1 DEF SplitEnds
<1>11. B2 \in [Nodes(q) \cup {m} -> Seq(Nat)]
  <2>1. ASSUME NEW y \in Nodes(q) \cup {m} PROVE B2[y] \in Seq(Nat)
    <3>1. y \in Nodes(q) => B[y] \in Seq(Nat)
      BY <1>1
    <3> QED BY <1>2, <1>6, <1>9, <1>10, <3>1
  <2>2. B2 = [y \in Nodes(q) \cup {m} |-> B2[y]]
    BY DEF SplitEnds
  <2> HIDE DEF B2
  <2> QED BY <2>1, <2>2
<1> HIDE DEF h2, B2
<1>12. ASSUME NEW y \in Nodes(q), y # n PROVE Stays(h, B, h2, B2, y)
  <2>1. y \in DOMAIN h2 /\ h2[y] = h[y]
    BY <1>7, <1>8
  <2>2. Lo(B2[y]) = Lo(B[y]) /\ Hi(B2[y]) = Hi(B[y])
    BY <1>6, <1>9, <1>10, <1>12
  <2> QED BY <2>1, <2>2 DEF Stays
<1>13. IsParted(B2[up], B[up], Size(q, up), cc, mid)
  BY <1>5, <1>9
<1>14. IsSplitLayout(q, n, m, up, cc, h, B, h2, B2)
  BY <1>7, <1>8, <1>9, <1>10, <1>11, <1>12, <1>13 DEF IsSplitLayout
<1> QED BY <1>14 DEF h2, B2

\* The kids of n and of other nodes.
LEMMA SplitKids ==
    ASSUME NEW q, NEW n, NEW w, NEW m, NEW up, NEW cc, NEW h, NEW B, NEW G,
           SplitFacts(q, n, w, m, up, cc, h, B, G), NEW y \in Nodes(q), NEW k \in Kids(q, y), k # NULL
    PROVE  /\ k \in Nodes(q) /\ k # m /\ q.nodes[k].parent = y /\ k # q.root /\ k # y
           /\ y # up => k # n
           /\ \A z \in Nodes(q) : k \in Kids(q, z) => z = y
<1>1. Standing(q, h, B, G) /\ m \notin Nodes(q) /\ IsKid(q, h, B, up, cc, n) /\ n \in Nodes(q) /\ up \in Nodes(q)
      /\ cc \in 1 .. Size(q, up) + 1
  BY DEF SplitFacts
<1>2. k \in Nodes(q)
  BY <1>1, KidsAreNodes
<1>3. q.nodes[k].parent = y /\ k # q.root /\ k # y
  BY <1>1, <1>2, ParentHeight
<1>4. \A z \in Nodes(q) : k \in Kids(q, z) => z = y
  BY <1>1, <1>2, <1>3, ParentHeight
<1>5. n \in Kids(q, up)
  <2>1. q.nodes[up].kids[cc] \in Kids(q, up)
    BY <1>1, KidsInRange
  <2> QED BY <1>1, <2>1 DEF IsKid
<1> QED BY <1>1, <1>2, <1>3, <1>4, <1>5

\* The split tree, apart from its layout.
SplitTree(q, n, w, m, up, cc, w2, q2) ==
    /\ ToSet(w2.kids) = Kids(q, up) \cup {m}
    /\ IsTree(q2) /\ Nodes(q2) = Nodes(q) \cup {m} /\ q2.root = q.root
    /\ Content(q2.nodes[m], LowPart(w)) /\ Content(q2.nodes[n], HighPart(w)) /\ Content(q2.nodes[up], w2)
    /\ \A y \in Nodes(q) : y # n /\ y # up => Content(q2.nodes[y], q.nodes[y])
    /\ \A y \in Nodes(q2) :
         q2.nodes[y].parent = IF y \in Kids(q, up) \cup {m} THEN up
                              ELSE IF y \in ToSet(HighPart(w).kids) THEN n
                              ELSE IF y \in ToSet(LowPart(w).kids) THEN m
                              ELSE q.nodes[y].parent

\* The tree of a scene is such a tree.
LEMMA SplitTreeIs ==
    ASSUME NEW q, NEW n, NEW w, NEW m, NEW up, NEW cc, NEW old, NEW w2, NEW q2, NEW h, NEW B, NEW G,
           SplitScene(q, n, w, m, up, cc, old, w2, q2, h, B, G)
    PROVE  SplitTree(q, n, w, m, up, cc, w2, q2)
BY DEF SplitScene, SplitTree

\* Only the two parts and the parent have new kids, and parents agree with kids.
LEMMA SplitRelinks ==
    ASSUME NEW q, NEW n, NEW w, NEW m, NEW up, NEW cc, NEW w2, NEW q2, NEW h, NEW B, NEW G,
           SplitFacts(q, n, w, m, up, cc, h, B, G), SplitTree(q, n, w, m, up, cc, w2, q2)
    PROVE  Relinks(q, q2, {m, n, up})
<1> DEFINE E == {m, n, up}
           low == ToSet(LowPart(w).kids)
           high == ToSet(HighPart(w).kids)
<1>1. /\ Standing(q, h, B, G) /\ n \in Nodes(q) /\ up \in Nodes(q) /\ up # n
      /\ m # NULL /\ m \notin Nodes(q) /\ cc \in 1 .. Size(q, up) + 1
      /\ q.root \in Nodes(q) /\ q.root # n /\ IsKid(q, h, B, up, cc, n)
  BY DEF SplitFacts
<1>2. /\ Nodes(q2) = Nodes(q) \cup {m} /\ q2.root = q.root
      /\ \A y \in Nodes(q) : y # n /\ y # up => Content(q2.nodes[y], q.nodes[y])
      /\ \A y \in Nodes(q2) :
           q2.nodes[y].parent = IF y \in Kids(q, up) \cup {m} THEN up
                                ELSE IF y \in high THEN n
                                ELSE IF y \in low THEN m
                                ELSE q.nodes[y].parent
  BY DEF SplitTree
<1>3. Kids(q2, m) = low /\ Kids(q2, n) = high /\ Kids(q2, up) = Kids(q, up) \cup {m}
  BY DEF SplitTree, Content, Kids
<1>4. Kids(q, n) = low \cup high /\ \A k \in Nodes(q) : ~ (k \in low /\ k \in high)
  BY DEF SplitFacts, PartsFit
<1>5. \A y \in Nodes(q) : \A k \in Kids(q, y) : k # NULL =>
         /\ k \in Nodes(q) /\ k # m /\ q.nodes[k].parent = y /\ k # q.root /\ k # y
         /\ y # up => k # n
         /\ \A z \in Nodes(q) : k \in Kids(q, z) => z = y
  BY SplitKids
<1>6. NULL \notin Nodes(q2) /\ NULL \notin Nodes(q)
  <2>1. NULL \notin Nodes(q)
    BY <1>1, NodeIs DEF Standing
  <2> QED BY <1>1, <1>2, <2>1
<1>7. \A z \in Nodes(q) : m \notin Kids(q, z)
  BY <1>1, <1>5
<1> HIDE DEF low, high
<1>8. E \in SUBSET Nodes(q2) /\ Nodes(q2) \ E = Nodes(q) \ {n, up}
  BY <1>1, <1>2
<1>9. \A y \in Nodes(q2) \ E : y \in Nodes(q) /\ q2.nodes[y].kids = q.nodes[y].kids
  BY <1>2, <1>8 DEF Content
<1>10. ASSUME NEW y \in E, NEW k \in Nodes(q2), k \in Kids(q2, y)
       PROVE  /\ q2.nodes[k].parent = y /\ k # q2.root
              /\ \A z \in Nodes(q2) \ E : k \notin Kids(q, z)
  <2>1. CASE y = up /\ k = m
    BY <1>1, <1>2, <1>7, <1>8, <2>1
  <2>2. CASE y = up /\ k # m
    <3>1. k \in Kids(q, up) /\ k # NULL
      BY <1>3, <1>6, <1>10, <2>2
    <3>2. q.nodes[k].parent = up /\ k # q.root /\ \A z \in Nodes(q) : k \in Kids(q, z) => z = up
      BY <1>1, <1>5, <3>1
    <3> QED BY <1>2, <1>8, <2>2, <3>1, <3>2
  <2>3. CASE y = n \/ y = m
    <3>1. k \in Kids(q, n) /\ k # NULL
      BY <1>1, <1>3, <1>4, <1>6, <1>10, <2>3
    <3>2. k \in Nodes(q) /\ k # m /\ q.nodes[k].parent = n /\ k # q.root /\ \A z \in Nodes(q) : k \in Kids(q, z) => z = n
      BY <1>1, <1>5, <3>1
    <3>3. k \notin Kids(q, up) \cup {m}
      BY <1>1, <3>2
    <3>4. q2.nodes[k].parent = IF k \in high THEN n ELSE IF k \in low THEN m ELSE q.nodes[k].parent
      BY <1>2, <3>3
    <3>5. q2.nodes[k].parent = y
      <4>1. CASE y = n
        BY <1>3, <1>10, <3>4, <4>1
      <4>2. CASE y = m
        <5>1. k \in low /\ k \notin high
          BY <1>3, <1>4, <1>10, <3>2, <4>2
        <5> QED BY <3>4, <4>2, <5>1
      <4> QED BY <2>3, <4>1, <4>2
    <3>6. \A z \in Nodes(q2) \ E : k \notin Kids(q, z)
      BY <1>8, <3>2
    <3> QED BY <1>2, <3>2, <3>5, <3>6
  <2> QED BY <2>1, <2>2, <2>3
<1>11. ASSUME NEW k \in Nodes(q2), \A y \in E : k \notin Kids(q2, y)
       PROVE  IF k = q2.root THEN q2.nodes[k].parent = NULL /\ \A z \in Nodes(q2) \ E : k \notin Kids(q, z)
              ELSE /\ k \in Nodes(q) /\ q2.nodes[k].parent = q.nodes[k].parent
                   /\ q.nodes[k].parent \in Nodes(q2) \ E
  <2>1. k \notin Kids(q, up) \cup {m} /\ k \notin high /\ k \notin low
    BY <1>3, <1>11
  <2>2. k \in Nodes(q) /\ q2.nodes[k].parent = q.nodes[k].parent
    BY <1>2, <2>1
  <2>3. Linked(q)
    BY <1>1 DEF Standing
  <2>4. CASE k = q2.root
    <3>1. q.nodes[k].parent = NULL
      BY <1>2, <2>2, <2>3, <2>4 DEF Linked
    <3>2. \A z \in Nodes(q) : k \notin Kids(q, z)
      BY <1>2, <1>5, <1>6, <2>2, <2>4
    <3> QED BY <1>8, <2>2, <2>4, <3>1, <3>2
  <2>5. CASE k # q2.root
    <3>1. q.nodes[k].parent \in Nodes(q)
      BY <1>2, <2>2, <2>3, <2>5 DEF Linked
    <3>2. \A y \in Nodes(q) : q.nodes[k].parent = y => k \in Kids(q, y)
      BY <2>2, <2>3 DEF Linked, Kids
    <3>3. q.nodes[k].parent # up /\ q.nodes[k].parent # n
      BY <1>1, <1>4, <2>1, <3>2
    <3>4. q.nodes[k].parent \in Nodes(q2) \ E
      BY <1>8, <3>1, <3>3
    <3> QED BY <2>2, <2>5, <3>4
  <2> QED BY <2>4, <2>5
<1> HIDE DEF E
<1>12. Relinks(q, q2, E)
  BY <1>8, <1>9, <1>10, <1>11 DEF Relinks
<1> QED BY <1>12 DEF E

\* All other nodes are as they were, and the root still covers the whole list.
LEMMA SplitKept ==
    ASSUME NEW q, NEW n, NEW w, NEW m, NEW up, NEW cc, NEW w2, NEW q2, NEW h, NEW B, NEW G,
           SplitFacts(q, n, w, m, up, cc, h, B, G), SplitTree(q, n, w, m, up, cc, w2, q2),
           NEW h2, NEW B2, IsSplitLayout(q, n, m, up, cc, h, B, h2, B2)
    PROVE  Kept(q, h, B, q2, h2, B2, {m, n, up}) /\ Rooted(q2, h2, B2, G)
<1>1. /\ Standing(q, h, B, G) /\ n \in Nodes(q) /\ up \in Nodes(q) /\ m \notin Nodes(q)
      /\ q.root \in Nodes(q) /\ q.root # n
  BY DEF SplitFacts
<1>2. /\ h2[m] = h[n] /\ \A y \in Nodes(q) : h2[y] = h[y] /\ (y # n /\ y # up => B2[y] = B[y])
      /\ \A y \in Nodes(q) : y # n => Stays(h, B, h2, B2, y)
  BY DEF IsSplitLayout
<1>3. /\ Nodes(q2) = Nodes(q) \cup {m} /\ q2.root = q.root
      /\ \A y \in Nodes(q) : y # n /\ y # up => Content(q2.nodes[y], q.nodes[y])
  BY DEF SplitTree
<1>4. NULL \notin Nodes(q)
  BY <1>1, NodeIs DEF Standing
<1>5. ASSUME NEW y \in Nodes(q2) \ {m, n, up}
      PROVE  /\ Content(q2.nodes[y], q.nodes[y]) /\ h2[y] = h[y] /\ B2[y] = B[y]
             /\ \A k \in Kids(q, y) : k \in Nodes(q) => Stays(h, B, h2, B2, k)
  <2>1. y \in Nodes(q) /\ y # n /\ y # up
    BY <1>3, <1>5
  <2>2. ASSUME NEW k \in Kids(q, y), k \in Nodes(q) PROVE Stays(h, B, h2, B2, k)
    <3>1. k # n
      BY <1>4, <2>1, <2>2, SplitKids
    <3> QED BY <1>2, <2>2, <3>1
  <2> QED BY <1>2, <1>3, <2>1, <2>2
<1>6. Kept(q, h, B, q2, h2, B2, {m, n, up})
  BY <1>5 DEF Kept
<1>7. Rooted(q2, h2, B2, G)
  <2>1. Lo(B[q.root]) = 0 /\ Hi(B[q.root]) = Len(G) + 1 /\ \A y \in Nodes(q) : h[y] <= h[q.root]
    BY <1>1, <1>4 DEF Standing, Layout
  <2>2. Stays(h, B, h2, B2, q.root)
    BY <1>1, <1>2
  <2>3. \A y \in Nodes(q2) : h2[y] <= h2[q.root]
    BY <1>1, <1>2, <1>3, <2>1
  <2>4. q2.root # NULL
    BY <1>1, <1>3, <1>4
  <2> QED BY <1>1, <1>3, <2>1, <2>2, <2>3, <2>4 DEF Rooted, Stays
<1> QED BY <1>6, <1>7

\* Both parts of the split node fit.
LEMMA SplitPartsFit ==
    ASSUME NEW q, NEW n, NEW w, NEW m, NEW up, NEW cc, NEW w2, NEW q2, NEW h, NEW B, NEW G,
           SplitFacts(q, n, w, m, up, cc, h, B, G), SplitTree(q, n, w, m, up, cc, w2, q2),
           NEW h2, NEW B2, IsSplitLayout(q, n, m, up, cc, h, B, h2, B2)
    PROVE  /\ NodeFits(h2, B2, G, q2.nodes[m], B2[m], h2[m]) /\ Exact(q2.nodes[m], B2[m])
           /\ NodeFits(h2, B2, G, q2.nodes[n], B2[n], h2[n]) /\ Exact(q2.nodes[n], B2[n])
<1>1. /\ h2[m] = h[n] /\ B2[m] = LowEnds(B[n]) /\ B2[n] = HighEnds(B[n]) /\ h2[n] = h[n]
      /\ \A y \in Nodes(q) : y # n => Stays(h, B, h2, B2, y)
  BY DEF IsSplitLayout, SplitFacts
<1>2. Content(q2.nodes[m], LowPart(w)) /\ Content(q2.nodes[n], HighPart(w))
  BY DEF SplitTree
<1>3. /\ n \in Nodes(q) /\ DOMAIN h = Nodes(q)
      /\ LowPart(w) \in Node234 /\ HighPart(w) \in Node234
      /\ NodeFits(h, B, G, LowPart(w), LowEnds(B[n]), h[n]) /\ Exact(LowPart(w), LowEnds(B[n]))
      /\ NodeFits(h, B, G, HighPart(w), HighEnds(B[n]), h[n]) /\ Exact(HighPart(w), HighEnds(B[n]))
      /\ Kids(q, n) = ToSet(LowPart(w).kids) \cup ToSet(HighPart(w).kids)
  BY DEF SplitFacts, PartsFit
<1>4. NULL \notin Nodes(q)
  BY NodeIs DEF SplitFacts, Standing
<1>5. \A k \in Kids(q, n) : k \in DOMAIN h => Stays(h, B, h2, B2, k)
  <2>1. ASSUME NEW k \in Kids(q, n), k \in DOMAIN h PROVE Stays(h, B, h2, B2, k)
    <3>1. k # n /\ k \in Nodes(q)
      BY <1>3, <1>4, <2>1, SplitKids
    <3> QED BY <1>1, <3>1
  <2> QED BY <2>1
<1>6. ASSUME NEW v \in Node234, NEW b, NodeFits(h, B, G, v, b, h[n]), ToSet(v.kids) \in SUBSET Kids(q, n),
             NEW v2, Content(v2, v)
      PROVE  NodeFits(h2, B2, G, v2, b, h[n])
  <2>1. DOMAIN v.kids = 1 .. Len(v.elems) + 1
    BY <1>6, PartsAre
  <2>2. \A c \in 1 .. Len(v.elems) + 1 : v.kids[c] \in Kids(q, n)
    BY <1>6, <2>1 DEF ToSet
  <2>3. \A c \in 1 .. Len(v.elems) + 1 : v.kids[c] \in DOMAIN h => Stays(h, B, h2, B2, v.kids[c])
    BY <1>5, <2>2
  <2>4. \A c \in 1 .. Len(v.elems) + 1 :
             LET k == v.kids[c]
             IN  k \in DOMAIN h => k \in DOMAIN h2 /\ h2[k] = h[k] /\ Lo(B2[k]) = Lo(B[k]) /\ Hi(B2[k]) = Hi(B[k])
    BY <2>3 DEF Stays
  <2> QED BY <1>6, <2>4, FitsStill, ZenonT(40)
<1>7. NodeFits(h2, B2, G, q2.nodes[m], LowEnds(B[n]), h[n])
  <2>1. ToSet(LowPart(w).kids) \in SUBSET Kids(q, n)
    BY <1>3
  <2> QED BY <1>2, <1>3, <1>6, <2>1
<1>8. NodeFits(h2, B2, G, q2.nodes[n], HighEnds(B[n]), h[n])
  <2>1. ToSet(HighPart(w).kids) \in SUBSET Kids(q, n)
    BY <1>3
  <2> QED BY <1>2, <1>3, <1>6, <2>1
<1>9. Exact(q2.nodes[m], LowEnds(B[n])) /\ Exact(q2.nodes[n], HighEnds(B[n]))
  BY <1>2, <1>3 DEF Exact, Content
<1> QED BY <1>1, <1>7, <1>8, <1>9

\* The parent fits with the element between the parts.
LEMMA SplitParentFits ==
    ASSUME NEW q, NEW n, NEW w, NEW m, NEW up, NEW cc, NEW old, NEW w2, NEW q2, NEW h, NEW B, NEW G,
           SplitScene(q, n, w, m, up, cc, old, w2, q2, h, B, G),
           NEW h2, NEW B2, IsSplitLayout(q, n, m, up, cc, h, B, h2, B2)
    PROVE  NodeFits(h2, B2, G, q2.nodes[up], B2[up], h2[up])
<1> DEFINE k == Size(q, up)
           mid == B[n][4]
<1>1. SplitFacts(q, n, w, m, up, cc, h, B, G)
  BY SplitFactsAre
<1>2. /\ old \in Node234 /\ Content(old, q.nodes[up]) /\ Content(q2.nodes[up], w2)
      /\ IsWide(w2, old, cc, m, w.elems[3], n, Length(LowEnds(B[n])), Length(HighEnds(B[n])))
  BY DEF SplitScene
<1>3. /\ Standing(q, h, B, G) /\ n \in Nodes(q) /\ up \in Nodes(q) /\ up # n
      /\ m \in Nat /\ m # NULL /\ m \notin Nodes(q)
      /\ h[n] \in Nat /\ h[up] = h[n] + 1 /\ IsKid(q, h, B, up, cc, n)
      /\ Bounds(B[up], k) /\ cc \in 1 .. k + 1
  BY <1>1 DEF SplitFacts
<1>4. /\ h2[m] = h[n] /\ B2[m] = LowEnds(B[n]) /\ B2[n] = HighEnds(B[n]) /\ h2[n] = h[n] /\ h2[up] = h[up]
      /\ IsParted(B2[up], B[up], k, cc, mid) /\ DOMAIN h2 = Nodes(q) \cup {m}
      /\ \A y \in Nodes(q) : y # n => Stays(h, B, h2, B2, y)
  BY <1>3 DEF IsSplitLayout
<1>5. /\ Lo(LowEnds(B[n])) = Lo(B[n]) /\ Hi(LowEnds(B[n])) = mid
      /\ Lo(HighEnds(B[n])) = mid /\ Hi(HighEnds(B[n])) = Hi(B[n])
      /\ mid \in Nat /\ Lo(B[n]) < mid /\ mid < Hi(B[n]) /\ w.elems[3] = G[mid]
  BY <1>1 DEF SplitFacts, PartsFit
<1>6. Lo(B[n]) = B[up][cc] /\ Hi(B[n]) = B[up][cc + 1] /\ q.nodes[up].kids[cc] = n
  BY <1>3 DEF IsKid
<1>7. NodeFits(h, B, G, q.nodes[up], B[up], h[up]) /\ q.nodes[up] \in Node234 /\ k \in Nat /\ h[up] # 0
  <2>1. /\ NodeFits(h, B, G, q.nodes[up], B[up], h[up]) /\ q.nodes[up] \in Node234
        /\ Bounds(B[up], Size(q, up))
    BY <1>3, NodeIs DEF Standing
  <2>2. k \in Nat /\ h[up] # 0
    BY ONLY <1>3, <2>1 DEF Bounds
  <2> QED BY ONLY <2>1, <2>2
<1>8. NodeFits(h, B, G, old, B[up], h[up]) /\ k = Len(old.elems)
  BY <1>2, <1>7 DEF NodeFits, Content, Size
<1>9. KidFits(h2, B2, m, h[up], B[up][cc], mid)
  BY <1>3, <1>4, <1>5, <1>6, <1>7 DEF KidFits
<1>10. KidFits(h2, B2, n, h[up], mid, B[up][cc + 1])
  BY <1>3, <1>4, <1>5, <1>6, <1>7 DEF KidFits
<1>11. ASSUME NEW c \in 1 .. k + 1, c # cc PROVE KidFits(h2, B2, old.kids[c], h[up], B[up][c], B[up][c + 1])
  <2>1. IsKid(q, h, B, up, c, q.nodes[up].kids[c])
    BY <1>3, <1>7, KidIs DEF Standing
  <2>2. old.kids[c] = q.nodes[up].kids[c]
    BY <1>2 DEF Content
  <2>3. PICK j : j = old.kids[c]
    OBVIOUS
  <2>4. IsKid(q, h, B, up, c, j)
    BY <2>1, <2>2, <2>3
  <2>5. j # n
    <3>1. SUFFICES ASSUME j = n PROVE FALSE
      OBVIOUS
    <3>2. q.nodes[up].kids[c] = q.nodes[up].kids[cc] /\ q.nodes[up].kids[c] # NULL
      <4>1. n # NULL
        BY <1>3, NodeIs DEF Standing
      <4> QED BY <1>6, <2>2, <2>3, <3>1, <4>1
    <3>3. c = cc
      BY <1>3, <3>2, KidSlots
    <3> QED BY <1>11, <3>3
  <2>6. Stays(h, B, h2, B2, j)
    BY <1>4, <2>4, <2>5 DEF IsKid
  <2>7. h2[j] = h[up] - 1 /\ j \in DOMAIN h2 /\ Lo(B2[j]) = B[up][c] /\ Hi(B2[j]) = B[up][c + 1]
    BY <2>4, <2>6 DEF IsKid, Stays
  <2> QED BY <1>7, <2>3, <2>7 DEF KidFits
<1>12. B[up][cc] < mid /\ mid < B[up][cc + 1] /\ mid \in Nat
  BY <1>5, <1>6
<1> HIDE DEF k, mid
<1>13. IsWideFit(h2, B2, G, w2, B2[up], h[up], k)
  <2>1. PICK e, cl, cr : e = w.elems[3] /\ cl = Length(LowEnds(B[n])) /\ cr = Length(HighEnds(B[n]))
    OBVIOUS
  <2>2. IsWide(w2, old, cc, m, e, n, cl, cr) /\ e = G[mid]
    BY <1>2, <1>5, <2>1
  <2>3. \A c \in 1 .. k + 1 : c # cc => KidFits(h2, B2, old.kids[c], h[up], B[up][c], B[up][c + 1])
    BY <1>11
  <2>4. k \in Nat /\ old \in Node234 /\ Bounds(B[up], k) /\ cc \in 1 .. k + 1 /\ IsParted(B2[up], B[up], k, cc, mid)
    BY <1>2, <1>3, <1>4, <1>7
  <2> QED BY ONLY <1>8, <1>9, <1>10, <1>12, <2>2, <2>3, <2>4, WideFits
<1>14. NodeFits(h2, B2, G, w2, B2[up], h[up])
  BY <1>13 DEF IsWideFit
<1> QED BY <1>2, <1>4, <1>14 DEF NodeFits, Content

\* The tree stands after the split.
LEMMA SplitStands ==
    ASSUME NEW q, NEW n, NEW w, NEW m, NEW up, NEW cc, NEW old, NEW w2, NEW q2, NEW h, NEW B, NEW G,
           SplitScene(q, n, w, m, up, cc, old, w2, q2, h, B, G),
           NEW h2, NEW B2, IsSplitLayout(q, n, m, up, cc, h, B, h2, B2)
    PROVE  Standing(q2, h2, B2, G)
<1> DEFINE E == {m, n, up}
<1>1. SplitFacts(q, n, w, m, up, cc, h, B, G) /\ SplitTree(q, n, w, m, up, cc, w2, q2)
  BY SplitFactsAre, SplitTreeIs
<1>2. IsTree(q2) /\ Nodes(q2) = Nodes(q) \cup {m}
  BY <1>1 DEF SplitTree
<1>3. h2 \in [Nodes(q2) -> Nat] /\ B2 \in [Nodes(q2) -> Seq(Nat)]
  BY <1>2 DEF IsSplitLayout
<1>4. Relinks(q, q2, E)
  BY <1>1, SplitRelinks
<1>5. Kept(q, h, B, q2, h2, B2, E) /\ Rooted(q2, h2, B2, G)
  BY <1>1, SplitKept
<1>6. \A y \in E : NodeFits(h2, B2, G, q2.nodes[y], B2[y], h2[y])
  BY <1>1, SplitPartsFit, SplitParentFits
<1> HIDE DEF E
<1>7. Rebuilt(q, h, B, q2, h2, B2, E, G)
  BY <1>2, <1>3, <1>4, <1>5, <1>6 DEF Rebuilt
<1> QED BY <1>1, <1>7, RebuiltStands DEF SplitFacts

\* The counts of the parent are right after the split: the path from gap i goes through it.
LEMMA SplitParentCounts ==
    ASSUME NEW q, NEW n, NEW w, NEW m, NEW up, NEW cc, NEW old, NEW w2, NEW q2, NEW h, NEW B, NEW G,
           SplitScene(q, n, w, m, up, cc, old, w2, q2, h, B, G),
           NEW h2, NEW B2, IsSplitLayout(q, n, m, up, cc, h, B, h2, B2),
           NEW i \in Nat, Covers(B[n], i), PathCounted(q, h, B, -1, i, h[n])
    PROVE  /\ Exact(q2.nodes[up], B2[up]) /\ Covers(B2[up], i)
           /\ InSlot(B[up], cc, i) /\ Covers(B[up], i)
<1> DEFINE k == Size(q, up)
           mid == B[n][4]
<1>1. SplitFacts(q, n, w, m, up, cc, h, B, G)
  BY SplitFactsAre
<1>2. /\ old \in Node234 /\ Content(old, q.nodes[up]) /\ Content(q2.nodes[up], w2)
      /\ IsWide(w2, old, cc, m, w.elems[3], n, Length(LowEnds(B[n])), Length(HighEnds(B[n])))
  BY DEF SplitScene
<1>3. /\ Standing(q, h, B, G) /\ n \in Nodes(q) /\ up \in Nodes(q)
      /\ h[n] \in Nat /\ h[up] = h[n] + 1 /\ IsKid(q, h, B, up, cc, n)
      /\ Bounds(B[up], k) /\ cc \in 1 .. k + 1
  BY <1>1 DEF SplitFacts
<1>4. IsParted(B2[up], B[up], k, cc, mid)
  BY DEF IsSplitLayout
<1>5. /\ Length(LowEnds(B[n])) = mid - Lo(B[n]) - 1 /\ Length(HighEnds(B[n])) = Hi(B[n]) - mid - 1
  BY <1>1 DEF SplitFacts, PartsFit, Length
<1>6. Lo(B[n]) = B[up][cc] /\ Hi(B[n]) = B[up][cc + 1]
  BY <1>3 DEF IsKid
<1>7. InSlot(B[up], cc, i)
  BY <1>6 DEF Covers, InSlot
<1>8. Covers(B[up], i)
  <2>1. /\ B[up][cc] \in Nat /\ B[up][cc + 1] \in Nat /\ Lo(B[up]) <= B[up][cc] /\ B[up][cc + 1] <= Hi(B[up])
        /\ Lo(B[up]) \in Nat /\ Hi(B[up]) \in Nat
    BY <1>3, SlotIs
  <2> QED BY ONLY <1>7, <2>1, i \in Nat DEF Covers, InSlot
<1>9. k \in Nat /\ k = Len(old.elems) /\ Len(old.counts) = k + 1
  <2>1. NodeFits(h, B, G, q.nodes[up], B[up], h[up]) /\ k \in Nat
    BY <1>3, NodeIs DEF Standing, Bounds
  <2> QED BY <1>2, <2>1 DEF NodeFits, Content, Size
<1>10. ASSUME NEW c \in 1 .. k + 1, c # cc PROVE old.counts[c] = B[up][c + 1] - B[up][c] - 1
  <2>1. ~ InSlot(B[up], c, i)
    BY <1>3, <1>7, <1>10, SlotUnique
  <2>2. old.counts[c] = q.nodes[up].counts[c]
    BY <1>2 DEF Content
  <2>3. q.nodes[up].counts[c] = B[up][c + 1] - B[up][c] - 1 + (IF h[up] > h[n] /\ InSlot(B[up], c, i) THEN -1 ELSE 0)
    BY <1>3 DEF PathCounted
  <2>4. B[up][c + 1] \in Nat /\ B[up][c] \in Nat
    BY <1>3, SlotIs
  <2> QED BY ONLY <2>1, <2>2, <2>3, <2>4
<1> HIDE DEF k, mid
<1>11. Exact(w2, B2[up])
  <2>1. PICK cl, cr : cl = Length(LowEnds(B[n])) /\ cr = Length(HighEnds(B[n]))
    OBVIOUS
  <2>2. IsWide(w2, old, cc, m, w.elems[3], n, cl, cr) /\ cl = mid - B[up][cc] - 1 /\ cr = B[up][cc + 1] - mid - 1
    BY <1>2, <1>5, <1>6, <2>1
  <2>3. \A c \in 1 .. k + 1 : c # cc => old.counts[c] = B[up][c + 1] - B[up][c] - 1
    BY <1>10
  <2>4. old \in Node234 /\ cc \in 1 .. k + 1 /\ Bounds(B[up], k)
    BY <1>2, <1>3
  <2> QED BY ONLY <1>4, <1>9, <2>2, <2>3, <2>4, WideCounts
<1>12. Exact(q2.nodes[up], B2[up])
  BY <1>2, <1>11 DEF Exact, Content
<1>13. Covers(B2[up], i)
  BY <1>4, <1>8 DEF IsParted, Covers
<1> QED BY <1>7, <1>8, <1>12, <1>13

\* Above the parent the counts are one too low as before, and elsewhere right.
LEMMA SplitPath ==
    ASSUME NEW q, NEW n, NEW w, NEW m, NEW up, NEW cc, NEW old, NEW w2, NEW q2, NEW h, NEW B, NEW G,
           SplitScene(q, n, w, m, up, cc, old, w2, q2, h, B, G),
           NEW h2, NEW B2, IsSplitLayout(q, n, m, up, cc, h, B, h2, B2),
           NEW i \in Nat, Covers(B[n], i), PathCounted(q, h, B, -1, i, h[n])
    PROVE  PathCounted(q2, h2, B2, -1, i, h2[up])
<1>1. SplitFacts(q, n, w, m, up, cc, h, B, G) /\ SplitTree(q, n, w, m, up, cc, w2, q2)
  BY SplitFactsAre, SplitTreeIs
<1>2. /\ Standing(q, h, B, G) /\ n \in Nodes(q) /\ up \in Nodes(q) /\ up # n /\ m \notin Nodes(q)
      /\ h[n] \in Nat /\ h[up] = h[n] + 1
  BY <1>1 DEF SplitFacts
<1>3. /\ h2[m] = h[n] /\ \A y \in Nodes(q) : h2[y] = h[y] /\ (y # n /\ y # up => B2[y] = B[y])
  BY DEF IsSplitLayout
<1>4. /\ Nodes(q2) = Nodes(q) \cup {m} /\ IsTree(q2)
      /\ \A y \in Nodes(q) : y # n /\ y # up => Content(q2.nodes[y], q.nodes[y])
  BY <1>1 DEF SplitTree
<1>5. Standing(q2, h2, B2, G)
  BY SplitStands
<1>6. Exact(q2.nodes[up], B2[up]) /\ Covers(B[up], i)
  BY SplitParentCounts
<1>7. Exact(q2.nodes[m], B2[m]) /\ Exact(q2.nodes[n], B2[n])
  BY <1>1, SplitPartsFit
<1>8. ASSUME NEW y \in Nodes(q2), NEW c \in 1 .. Size(q2, y) + 1
      PROVE  q2.nodes[y].counts[c] = B2[y][c + 1] - B2[y][c] - 1
                                     + (IF h2[y] > h2[up] /\ InSlot(B2[y], c, i) THEN -1 ELSE 0)
  <2>0. B2[y][c + 1] \in Nat /\ B2[y][c] \in Nat
    <3>1. Bounds(B2[y], Size(q2, y))
      BY <1>5, NodeIs DEF Standing
    <3> QED BY <3>1, SlotIs
  <2>1. CASE y \in {m, n, up}
    <3>1. ~ (h2[y] > h2[up])
      <4>1. h2[y] = h[n] \/ h2[y] = h[up]
        BY <1>2, <1>3, <2>1
      <4>2. h2[up] = h[n] + 1
        BY <1>2, <1>3
      <4> QED BY ONLY <4>1, <4>2, <1>2
    <3>2. Exact(q2.nodes[y], B2[y])
      BY <1>6, <1>7, <2>1
    <3>3. c \in 1 .. Len(q2.nodes[y].counts)
      <4>1. NodeFits(h2, B2, G, q2.nodes[y], B2[y], h2[y]) /\ q2.nodes[y] \in Node234
        BY <1>5, NodeIs DEF Standing
      <4>2. Len(q2.nodes[y].counts) = Size(q2, y) + 1
        BY <4>1, PartsAre DEF Size
      <4> QED BY <4>2
    <3>4. q2.nodes[y].counts[c] = B2[y][c + 1] - B2[y][c] - 1
      BY <3>2, <3>3 DEF Exact
    <3> QED BY ONLY <2>0, <3>1, <3>4
  <2>2. CASE y \notin {m, n, up}
    <3>1. y \in Nodes(q) /\ h2[y] = h[y] /\ B2[y] = B[y] /\ Content(q2.nodes[y], q.nodes[y]) /\ h2[up] = h[up]
      BY <1>2, <1>3, <1>4, <2>2
    <3>2. Size(q, y) = Size(q2, y) /\ q2.nodes[y].counts[c] = q.nodes[y].counts[c]
      BY <3>1 DEF Content, Size
    <3>3. q.nodes[y].counts[c] = B[y][c + 1] - B[y][c] - 1 + (IF h[y] > h[n] /\ InSlot(B[y], c, i) THEN -1 ELSE 0)
      BY <3>1, <3>2 DEF PathCounted
    <3>4. h[y] \in Nat
      BY <1>2, <3>1, NodeIs DEF Standing
    <3>5. h[y] = h[up] => ~ InSlot(B[y], c, i)
      <4>1. SUFFICES ASSUME h[y] = h[up], InSlot(B[y], c, i) PROVE FALSE
        OBVIOUS
      <4>2. Bounds(B[y], Size(q, y)) /\ c \in 1 .. Size(q, y) + 1
        BY <1>2, <3>1, <3>2, NodeIs DEF Standing
      <4>3. /\ B[y][c] \in Nat /\ B[y][c + 1] \in Nat /\ Lo(B[y]) <= B[y][c] /\ B[y][c + 1] <= Hi(B[y])
            /\ Lo(B[y]) \in Nat /\ Hi(B[y]) \in Nat
        BY <4>2, SlotIs
      <4>4. Covers(B[y], i)
        BY ONLY <4>1, <4>3, i \in Nat DEF Covers, InSlot
      <4>5. y = up
        BY <1>2, <1>6, <3>1, <4>1, <4>4, SameGap
      <4> QED BY <2>2, <4>5
    <3>6. (h[y] > h[n] /\ InSlot(B[y], c, i)) <=> (h[y] > h[up] /\ InSlot(B[y], c, i))
      BY ONLY <1>2, <3>4, <3>5
    <3> QED BY ONLY <3>1, <3>2, <3>3, <3>6
  <2> QED BY <2>1, <2>2
<1> QED BY <1>8 DEF PathCounted

\* A split turns the work to be done at a node into that at its parent.
THEOREM SplitPends ==
    ASSUME NEW q, NEW t, NEW n, NEW w, NEW h, NEW B, NEW G, NEW i, Pending(q, t, n, w, h, B, G, i), Size(q, n) = 4,
           NEW m \in Nat \ {0}, m \notin Nodes(t), NEW s, s = SplitOff(t, n, w, m),
           NEW up, up = t.nodes[n].parent, up # NULL, NEW cc, cc = ChildNum(t, n),
           NEW w2, w2 = Widened(s, up, cc, m, w.elems[3], n)
    PROVE  \E h2, B2 : Pending(PutInto(s, up, w2), s, up, w2, h2, B2, G, i)
<1> DEFINE q2 == PutInto(s, up, w2)
           old == s.nodes[up]
           h2 == SplitHeights(q, n, m, h)
           B2 == SplitEnds(q, n, m, up, cc, B)
<1>1. /\ SplitScene(q, n, w, m, up, cc, old, w2, q2, h, B, G)
      /\ IsTree(s) /\ up \in Nodes(s) /\ w2 \in Node234 /\ w2.parent = s.nodes[up].parent
      /\ IsPutInto(q2, s, up, w2)
  BY SceneOf
<1> HIDE DEF q2, old, h2, B2
<1>2. SplitFacts(q, n, w, m, up, cc, h, B, G)
  BY <1>1, SplitFactsAre
<1>3. IsSplitLayout(q, n, m, up, cc, h, B, h2, B2)
  BY <1>2, SplitLayout DEF h2, B2
<1>4. i \in Nat /\ Covers(B[n], i) /\ PathCounted(q, h, B, -1, i, h[n])
  BY DEF Pending
<1>5. Standing(q2, h2, B2, G) /\ PathCounted(q2, h2, B2, -1, i, h2[up]) /\ Covers(B2[up], i)
  BY <1>1, <1>3, <1>4, SplitStands, SplitPath, SplitParentCounts
<1>6. ASSUME NEW y \in Nodes(s) PROVE Size(q2, y) \in 1 .. 3 \/ (y = up /\ Size(q2, up) = 4)
  <2>1. /\ Nodes(q2) = Nodes(s) /\ Nodes(q2) = Nodes(q) \cup {m} /\ Nodes(q) = Nodes(t)
    BY <1>1, ZenonT(40) DEF IsPutInto, SplitScene, Pending
  <2>2. \A z \in Nodes(t) : Size(q, z) \in 1 .. 3 \/ (z = n /\ Size(q, n) = 4)
    BY ZenonT(40) DEF Pending
  <2>3. /\ Content(q2.nodes[m], LowPart(w)) /\ Content(q2.nodes[n], HighPart(w)) /\ Content(q2.nodes[up], w2)
        /\ \A z \in Nodes(q) : z # n /\ z # up => Content(q2.nodes[z], q.nodes[z])
        /\ Content(old, q.nodes[up]) /\ old \in Node234 /\ up # n /\ up \in Nodes(q)
        /\ IsWide(w2, old, cc, m, w.elems[3], n, Length(LowEnds(B[n])), Length(HighEnds(B[n])))
    BY <1>1 DEF SplitScene
  <2>4. Len(LowPart(w).elems) = 2 /\ Len(HighPart(w).elems) = 1
    BY <1>2, ZenonT(40) DEF SplitFacts, PartsFit
  <2>5. CASE y = m
    BY <2>3, <2>4, <2>5, SMTT(40) DEF Content, Size
  <2>6. CASE y = n
    BY <2>3, <2>4, <2>6 DEF Content, Size
  <2>7. CASE y = up
    <3>1. Len(w2.elems) = Len(old.elems) + 1
      BY <2>3, ZenonT(40) DEF IsWide, IsInserted
    <3>2. Size(q2, up) = Size(q, up) + 1
      BY <2>3, <3>1 DEF Content, Size
    <3>3. Size(q, up) \in 1 .. 3
      BY <2>1, <2>2, <2>3
    <3> QED BY ONLY <2>7, <3>2, <3>3, SMTT(40)
  <2>8. CASE y # m /\ y # n /\ y # up
    <3>1. y \in Nodes(q)
      BY <2>1, <2>8, ZenonT(40)
    <3>2. Size(q2, y) = Size(q, y)
      BY <2>3, <2>8, <3>1, SMTT(40) DEF Content, Size
    <3> QED BY <2>1, <2>2, <2>8, <3>1, <3>2
  <2> QED BY <2>5, <2>6, <2>7, <2>8, SMTT(40)
<1>7. Pending(q2, s, up, w2, h2, B2, G, i)
  BY <1>1, <1>4, <1>5, <1>6 DEF Pending
<1> QED BY <1>7 DEF q2

--------------------------------------------------------------------------------
(*****************************************************************************)
(* The root is split, or made.                                               *)
(*****************************************************************************)

\* A new root over two subtrees.
IsTop(node, left, e, right, cl, cr) ==
    /\ Len(node.elems) = 1 /\ Len(node.kids) = 2 /\ Len(node.counts) = 2
    /\ node.elems[1] = e /\ node.kids[1] = left /\ node.kids[2] = right
    /\ node.counts[1] = cl /\ node.counts[2] = cr
IsNewRoot(u, s, r, left, e, right, cl, cr) ==
    /\ r \in Nat /\ r # NULL /\ r \notin Nodes(s)
    /\ IsTree(u) /\ Nodes(u) = Nodes(s) \cup {r} /\ u.root = r /\ u.sorted = s.sorted
    /\ IsTop(u.nodes[r], left, e, right, cl, cr) /\ Kids(u, r) = {left, right}
    /\ u.nodes[r].parent = NULL
    /\ \A y \in Nodes(s) : /\ Content(u.nodes[y], s.nodes[y])
                           /\ u.nodes[y].parent = IF y \in {left, right} THEN r ELSE s.nodes[y].parent

\* NewRoot makes a node over the two subtrees with their counts.
LEMMA NewRootIs ==
    ASSUME NEW s, IsTree(s), NEW left, left \in Nodes(s) \cup {NULL}, NEW right, right \in Nodes(s) \cup {NULL},
           NEW e, e \in Int, NEW cl, cl = countnode234(s, left), cl \in Int,
           NEW cr, cr = countnode234(s, right), cr \in Int
    PROVE  IsNewRoot(NewRoot(s, left, e, right), s, mknew(s), left, e, right, cl, cr)
<1> DEFINE top == [parent |-> NULL, elems |-> <<e>>, kids |-> <<left, right>>, counts |-> <<cl, cr>>]
           r == mknew(s)
           u == SetNode(s, r, top)
           v == [u EXCEPT !.root = r]
           x == Adopted(v, r)
<1>1. r \in Nat \ {0} /\ r \notin Nodes(s)
  BY MkNewIs
<1>2. Nodes(s) \in SUBSET (Nat \ {0}) /\ NULL = 0
  BY DEF IsTree, NULL
<1>3. left \in Nat /\ right \in Nat
  BY <1>2
<1>4. top \in Node234
  BY <1>2, <1>3 DEF Node234
<1>5. top.elems = <<e>> /\ top.kids = <<left, right>> /\ top.counts = <<cl, cr>> /\ top.parent = NULL
  OBVIOUS
<1>6. IsTop(top, left, e, right, cl, cr) /\ ToSet(top.kids) = {left, right}
  <2>1. DOMAIN top.kids = {1, 2}
    BY <1>5
  <2>2. ToSet(top.kids) = {left, right}
    BY <1>5, <2>1 DEF ToSet
  <2> QED BY <1>5, <2>2 DEF IsTop
<1> HIDE DEF top, r
<1>7. IsSetIn(u, s, r, top)
  BY <1>1, <1>4, SetIs
<1>8. /\ IsTree(u) /\ Nodes(u) = Nodes(s) \cup {r} /\ u.root = s.root /\ u.sorted = s.sorted
      /\ u.nodes[r] = top
      /\ \A y \in Nodes(s) : y # r => u.nodes[y] = s.nodes[y]
  BY <1>7 DEF IsSetIn
<1> HIDE DEF u
<1>9. IsTree(v) /\ v.nodes = u.nodes /\ v.root = r /\ v.sorted = u.sorted
  <2>1. u \in [root : Nat, nodes : Heaps(Nodes(u)), sorted : BOOLEAN] /\ r \in Nat
    BY <1>1, <1>8 DEF IsTree
  <2>2. v.nodes = u.nodes /\ v.root = r /\ v.sorted = u.sorted
    BY <2>1
  <2>3. v \in [root : Nat, nodes : Heaps(Nodes(u)), sorted : BOOLEAN]
    BY <2>1
  <2> QED BY <1>8, <2>2, <2>3 DEF IsTree, Nodes
<1>10. Nodes(v) = Nodes(u) /\ r \in Nodes(v) /\ v.nodes[r] = top
  BY <1>8, <1>9 DEF Nodes
<1> HIDE DEF v
<1>11. IsAdoptedBy(x, v, r)
  BY <1>9, <1>10, AdoptedBy
<1> HIDE DEF x
<1>12. /\ IsTree(x) /\ Nodes(x) = Nodes(v) /\ x.root = v.root /\ x.sorted = v.sorted
       /\ \A y \in Nodes(v) :
            /\ Content(x.nodes[y], v.nodes[y])
            /\ x.nodes[y].parent = IF y \in {left, right} THEN r ELSE v.nodes[y].parent
  BY <1>6, <1>10, <1>11 DEF IsAdoptedBy
<1>13. r # left /\ r # right
  BY <1>1, <1>2
<1>14. Content(x.nodes[r], top) /\ x.nodes[r].parent = NULL
  BY <1>5, <1>10, <1>12, <1>13
<1>15. IsTop(x.nodes[r], left, e, right, cl, cr) /\ Kids(x, r) = {left, right}
  BY <1>6, <1>14 DEF IsTop, Content, Kids
<1>16. ASSUME NEW y \in Nodes(s)
       PROVE  /\ Content(x.nodes[y], s.nodes[y])
              /\ x.nodes[y].parent = IF y \in {left, right} THEN r ELSE s.nodes[y].parent
  <2>1. y \in Nodes(v) /\ v.nodes[y] = s.nodes[y]
    BY <1>1, <1>8, <1>9, <1>10
  <2> QED BY <1>12, <2>1
<1>17. IsNewRoot(x, s, r, left, e, right, cl, cr)
  BY <1>1, <1>2, <1>8, <1>9, <1>10, <1>12, <1>14, <1>15, <1>16 DEF IsNewRoot
<1> QED BY <1>17 DEF x, v, u, top, r, NewRoot

\* An element in an empty tree.
LEMMA FirstElement ==
    ASSUME NEW t, IsTree(t), Nodes(t) = {}, NEW e, e \in Int, NEW u, u = NewRoot(t, NULL, e, NULL)
    PROVE  \E h, B : Standing(u, h, B, <<e>>) /\ Counted(u, B) /\ Sized(u) /\ u.sorted = t.sorted
<1> DEFINE r == mknew(t)
           h == [y \in {r} |-> 0]
           B == [y \in {r} |-> <<0, 1, 2>>]
<1>1. countnode234(t, NULL) = 0
  BY NoNodeNoCount
<1>2. IsNewRoot(u, t, r, NULL, e, NULL, 0, 0)
  BY <1>1, NewRootIs
<1>3. /\ r \in Nat /\ r # NULL /\ IsTree(u) /\ Nodes(u) = {r} /\ u.root = r /\ u.sorted = t.sorted
      /\ IsTop(u.nodes[r], NULL, e, NULL, 0, 0) /\ Kids(u, r) = {NULL} /\ u.nodes[r].parent = NULL
  BY <1>2 DEF IsNewRoot
<1> HIDE DEF r
<1>4. h[r] = 0 /\ B[r] = <<0, 1, 2>> /\ h \in [Nodes(u) -> Nat] /\ B \in [Nodes(u) -> Seq(Nat)]
  <2>1. <<0, 1, 2>> \in Seq(Nat)
    OBVIOUS
  <2> QED BY <1>3, <2>1
<1> HIDE DEF h, B
<1>5. PICK b : b = <<0, 1, 2>>
  OBVIOUS
<1>6. Len(b) = 3 /\ b[1] = 0 /\ b[2] = 1 /\ b[3] = 2 /\ DOMAIN b = 1 .. 3
  BY <1>5
<1>7. PICK G : G = <<e>>
  OBVIOUS
<1>8. G \in Seq(Int) /\ Len(G) = 1 /\ G[1] = e /\ G # <<>>
  BY <1>7
<1>9. NodeFits(h, B, G, u.nodes[r], b, 0)
  <2>1. Rising(b)
    BY <1>6 DEF Rising
  <2>2. \A c \in 1 .. 2 : KidFits(h, B, u.nodes[r].kids[c], 0, b[c], b[c + 1])
    BY <1>3, <1>6 DEF IsTop, KidFits
  <2>3. \A c \in 1 .. 1 : u.nodes[r].elems[c] = G[b[c + 1]]
    BY <1>3, <1>6, <1>8 DEF IsTop
  <2> QED BY <1>3, <1>6, <1>8, <2>1, <2>2, <2>3 DEF IsTop, NodeFits, Hi
<1>10. Layout(u, h, B, G)
  <2>1. Lo(b) = 0 /\ Hi(b) = Len(G) + 1
    BY <1>6, <1>8 DEF Lo, Hi
  <2>2. \A y \in Nodes(u) : NodeFits(h, B, G, u.nodes[y], B[y], h[y])
    BY <1>3, <1>4, <1>5, <1>9
  <2>3. /\ u.root # NULL /\ u.root \in Nodes(u) /\ Lo(B[u.root]) = 0 /\ Hi(B[u.root]) = Len(G) + 1
        /\ \A y \in Nodes(u) : h[y] <= h[u.root]
    BY <1>3, <1>4, <1>5, <2>1
  <2> QED BY <1>4, <1>8, <2>2, <2>3 DEF Layout
<1>11. Linked(u)
  BY <1>3 DEF Linked, Kids
<1>12. Counted(u, B)
  <2>1. Exact(u.nodes[r], b)
    BY <1>3, <1>6 DEF Exact, IsTop
  <2> QED BY <1>3, <1>4, <1>5, <2>1 DEF Counted
<1>13. Sized(u)
  BY <1>3, SMTT(40) DEF Sized, Size, IsTop
<1> QED BY <1>3, <1>7, <1>10, <1>11, <1>12, <1>13 DEF Standing

\* The root, n, has been split into m and n below a new root r.
TopScene(q, n, w, m, r, u, h, B, G) ==
    /\ Standing(q, h, B, G) /\ Counted(q, B) /\ n \in Nodes(q) /\ n = q.root /\ h[n] \in Nat
    /\ Lo(B[n]) = 0 /\ Hi(B[n]) = Len(G) + 1 /\ \A y \in Nodes(q) : h[y] <= h[n]
    /\ h \in [Nodes(q) -> Nat] /\ B \in [Nodes(q) -> Seq(Nat)] /\ NULL \notin Nodes(q)
    /\ m \in Nat /\ m # NULL /\ m \notin Nodes(q) /\ r \in Nat /\ r # NULL /\ r \notin Nodes(q) /\ r # m
    /\ PartsFit(q, n, w, h, B, G)
    /\ IsTree(u) /\ Nodes(u) = Nodes(q) \cup {m, r} /\ u.root = r /\ u.sorted = q.sorted
    /\ Content(u.nodes[m], LowPart(w)) /\ Content(u.nodes[n], HighPart(w))
    /\ IsTop(u.nodes[r], m, w.elems[3], n, Length(LowEnds(B[n])), Length(HighEnds(B[n])))
    /\ Kids(u, r) = {m, n}
    /\ \A y \in Nodes(q) : y # n => Content(u.nodes[y], q.nodes[y])
    /\ u.nodes[m].parent = r /\ u.nodes[n].parent = r /\ u.nodes[r].parent = NULL
    /\ \A y \in Nodes(q) : y # n =>
         u.nodes[y].parent = IF y \in ToSet(HighPart(w).kids) THEN n
                             ELSE IF y \in ToSet(LowPart(w).kids) THEN m
                             ELSE q.nodes[y].parent

\* SplitOff of the root and NewRoot, as in add234, make such a scene.
LEMMA TopSceneOf ==
    ASSUME NEW q, NEW t, NEW n, NEW w, NEW h, NEW B, NEW G, NEW i, Pending(q, t, n, w, h, B, G, i), Size(q, n) = 4,
           NEW m \in Nat \ {0}, m \notin Nodes(t), NEW s, s = SplitOff(t, n, w, m),
           t.nodes[n].parent = NULL, NEW u, u = NewRoot(s, m, w.elems[3], n)
    PROVE  TopScene(q, n, w, m, mknew(s), u, h, B, G) /\ u.sorted = t.sorted
<1> DEFINE r == mknew(s)
           va == LowPart(w)
           vb == HighPart(w)
           cl == Length(LowEnds(B[n]))
           cr == Length(HighEnds(B[n]))
           e == w.elems[3]
<1>1. /\ IsTree(t) /\ n \in Nodes(t) /\ w \in Node234 /\ w.parent = NULL
      /\ IsPutInto(q, t, n, w)
      /\ Standing(q, h, B, G) /\ PathCounted(q, h, B, -1, i, h[n])
  BY DEF Pending
<1>2. /\ IsTree(q) /\ Nodes(q) = Nodes(t) /\ q.root = t.root /\ q.sorted = t.sorted
      /\ Content(q.nodes[n], w) /\ q.nodes[n].parent = NULL
      /\ \A y \in Nodes(t) : y # n =>
           /\ Content(q.nodes[y], t.nodes[y])
           /\ q.nodes[y].parent = IF y \in ToSet(w.kids) THEN n ELSE t.nodes[y].parent
  BY <1>1 DEF IsPutInto
<1>3. Layout(q, h, B, G) /\ Linked(q) /\ n \in Nodes(q)
  BY <1>1, <1>2 DEF Standing
<1>4. n = q.root
  BY <1>2, <1>3 DEF Linked
<1>5. h[n] \in Nat /\ NULL \notin Nodes(q) /\ n # NULL /\ n \in Nat
  BY <1>2, <1>3, NodeIs
<1>6. /\ Lo(B[n]) = 0 /\ Hi(B[n]) = Len(G) + 1 /\ \A y \in Nodes(q) : h[y] <= h[n]
      /\ h \in [Nodes(q) -> Nat] /\ B \in [Nodes(q) -> Seq(Nat)]
  BY <1>3, <1>4, <1>5 DEF Layout
<1>7. Counted(q, B) /\ Exact(q.nodes[n], B[n])
  <2>1. \A y \in Nodes(q) : ~ (h[y] > h[n])
    BY <1>5, <1>6
  <2>2. Counted(q, B)
    BY <1>1, <2>1, PathIsOver
  <2> QED BY <1>3, <2>2 DEF Counted
<1>8. PartsFit(q, n, w, h, B, G)
  BY <1>1, <1>2, <1>3, <1>7, PartsFitIn
<1>9. /\ va \in Node234 /\ vb \in Node234
      /\ NodeFits(h, B, G, va, LowEnds(B[n]), h[n]) /\ Exact(va, LowEnds(B[n])) /\ LowEnds(B[n]) \in Seq(Nat)
      /\ NodeFits(h, B, G, vb, HighEnds(B[n]), h[n]) /\ Exact(vb, HighEnds(B[n])) /\ HighEnds(B[n]) \in Seq(Nat)
      /\ cl \in Int /\ cr \in Int /\ e \in Int
      /\ Kids(q, n) = ToSet(va.kids) \cup ToSet(vb.kids)
  BY <1>8, SMTT(40) DEF PartsFit, Length
<1>10. IsSplit(s, t, n, m, va, vb)
  BY <1>1, <1>9, SplitIs DEF LowPart, HighPart
<1> HIDE DEF va, vb, cl, cr, e
<1>11. /\ IsTree(s) /\ Nodes(s) = Nodes(t) \cup {m} /\ s.root = t.root /\ s.sorted = t.sorted
       /\ Content(s.nodes[m], va) /\ Content(s.nodes[n], vb)
       /\ \A y \in Nodes(t) : y # n => Content(s.nodes[y], t.nodes[y])
       /\ \A y \in Nodes(s) :
            s.nodes[y].parent = IF y \in ToSet(vb.kids) THEN n
                                ELSE IF y \in ToSet(va.kids) THEN m
                                ELSE IF y = m THEN va.parent ELSE IF y = n THEN vb.parent
                                ELSE t.nodes[y].parent
  BY <1>10 DEF IsSplit
<1>12. m \in Nodes(s) /\ n \in Nodes(s) /\ m # n
  BY <1>1, <1>11
<1>13. countnode234(s, m) = cl /\ countnode234(s, n) = cr
  BY <1>9, <1>11, <1>12, CountOf DEF cl, cr
<1>14. IsNewRoot(u, s, r, m, e, n, cl, cr)
  <2>1. m \in Nodes(s) \cup {NULL} /\ n \in Nodes(s) \cup {NULL}
    BY <1>12
  <2> QED BY <1>9, <1>11, <1>13, <2>1, NewRootIs DEF e
<1> HIDE DEF r
<1>15. /\ r \in Nat /\ r # NULL /\ r \notin Nodes(s)
       /\ IsTree(u) /\ Nodes(u) = Nodes(s) \cup {r} /\ u.root = r /\ u.sorted = s.sorted
       /\ IsTop(u.nodes[r], m, e, n, cl, cr) /\ Kids(u, r) = {m, n}
       /\ u.nodes[r].parent = NULL
       /\ \A y \in Nodes(s) : /\ Content(u.nodes[y], s.nodes[y])
                              /\ u.nodes[y].parent = IF y \in {m, n} THEN r ELSE s.nodes[y].parent
  BY <1>14, ZenonT(40) DEF IsNewRoot
<1>16. Content(u.nodes[m], va) /\ Content(u.nodes[n], vb) /\ u.nodes[m].parent = r /\ u.nodes[n].parent = r
  BY <1>11, <1>12, <1>15 DEF Content
<1>17. ASSUME NEW y \in Nodes(q), y # n
       PROVE  /\ Content(u.nodes[y], q.nodes[y])
              /\ u.nodes[y].parent = IF y \in ToSet(vb.kids) THEN n
                                     ELSE IF y \in ToSet(va.kids) THEN m ELSE q.nodes[y].parent
  <2>1. y \in Nodes(s) /\ y \in Nodes(t) /\ y # m
    BY <1>2, <1>11
  <2>2. Content(u.nodes[y], s.nodes[y]) /\ Content(s.nodes[y], t.nodes[y]) /\ Content(q.nodes[y], t.nodes[y])
    BY <1>2, <1>11, <1>15, <1>17, <2>1
  <2>3. Content(u.nodes[y], q.nodes[y])
    BY <2>2 DEF Content
  <2>4. u.nodes[y].parent = IF y \in ToSet(vb.kids) THEN n ELSE IF y \in ToSet(va.kids) THEN m ELSE t.nodes[y].parent
    BY <1>11, <1>15, <1>17, <2>1
  <2>5. ToSet(w.kids) = ToSet(va.kids) \cup ToSet(vb.kids)
    BY <1>2, <1>9 DEF Kids, Content
  <2>6. q.nodes[y].parent = IF y \in ToSet(w.kids) THEN n ELSE t.nodes[y].parent
    BY <1>2, <1>17, <2>1
  <2> QED BY <2>3, <2>4, <2>5, <2>6
<1>18. m \in Nat /\ m # NULL /\ m \notin Nodes(q) /\ r \notin Nodes(q) /\ r # m /\ Nodes(u) = Nodes(q) \cup {m, r}
       /\ u.sorted = q.sorted /\ u.sorted = t.sorted
  BY <1>2, <1>11, <1>12, <1>15 DEF NULL
<1> QED BY <1>1, <1>3, <1>4, <1>5, <1>6, <1>7, <1>8, <1>15, <1>16, <1>17, <1>18, ZenonT(40) DEF TopScene, va, vb, cl, cr, e, r

TopHeights(q, n, m, r, h) ==
    [y \in Nodes(q) \cup {m, r} |-> IF y = r THEN h[n] + 1 ELSE IF y = m THEN h[n] ELSE h[y]]
TopEnds(q, n, m, r, B, G) ==
    [y \in Nodes(q) \cup {m, r} |->
        IF y = r THEN <<0, B[n][4], Len(G) + 1>>
        ELSE IF y = m THEN LowEnds(B[n]) ELSE IF y = n THEN HighEnds(B[n]) ELSE B[y]]
IsTopLayout(q, n, m, r, h, B, G, h2, B2) ==
    /\ h2 \in [Nodes(q) \cup {m, r} -> Nat] /\ B2 \in [Nodes(q) \cup {m, r} -> Seq(Nat)]
    /\ h2[r] = h[n] + 1 /\ h2[m] = h[n] /\ B2[m] = LowEnds(B[n]) /\ B2[n] = HighEnds(B[n])
    /\ Len(B2[r]) = 3 /\ B2[r][1] = 0 /\ B2[r][2] = B[n][4] /\ B2[r][3] = Len(G) + 1
    /\ \A y \in Nodes(q) : h2[y] = h[y] /\ (y # n => B2[y] = B[y])

\* The layout is the one expected.
LEMMA TopLayout ==
    ASSUME NEW q, NEW n, NEW w, NEW m, NEW r, NEW u, NEW h, NEW B, NEW G, TopScene(q, n, w, m, r, u, h, B, G)
    PROVE  IsTopLayout(q, n, m, r, h, B, G, TopHeights(q, n, m, r, h), TopEnds(q, n, m, r, B, G))
<1> DEFINE h2 == TopHeights(q, n, m, r, h)
           B2 == TopEnds(q, n, m, r, B, G)
           D == Nodes(q) \cup {m, r}
<1>1. /\ n \in Nodes(q) /\ m \notin Nodes(q) /\ r \notin Nodes(q) /\ r # m /\ h[n] \in Nat
      /\ h \in [Nodes(q) -> Nat] /\ B \in [Nodes(q) -> Seq(Nat)]
  BY DEF TopScene
<1>2. LowEnds(B[n]) \in Seq(Nat) /\ HighEnds(B[n]) \in Seq(Nat) /\ B[n][4] \in Nat /\ Len(G) + 1 \in Nat
  <2>1. /\ LowEnds(B[n]) \in Seq(Nat) /\ HighEnds(B[n]) \in Seq(Nat) /\ B[n][4] \in Nat
        /\ Hi(B[n]) = Len(G) + 1 /\ Hi(B[n]) \in Nat
    BY DEF TopScene, PartsFit
  <2> QED BY <2>1
<1>3. PICK z, mid : z = Len(G) + 1 /\ mid = B[n][4]
  OBVIOUS
<1>4. PICK b : b = <<0, mid, z>>
  OBVIOUS
<1>5. b \in Seq(Nat) /\ Len(b) = 3 /\ b[1] = 0 /\ b[2] = mid /\ b[3] = z
  BY <1>2, <1>3, <1>4
<1>6. h2[r] = h[n] + 1 /\ h2[m] = h[n] /\ \A y \in Nodes(q) : h2[y] = h[y]
  BY <1>1 DEF TopHeights
<1>7. h2 \in [D -> Nat]
  BY <1>1 DEF TopHeights
<1>8. B2[r] = b /\ B2[m] = LowEnds(B[n]) /\ B2[n] = HighEnds(B[n]) /\ \A y \in Nodes(q) : y # n => B2[y] = B[y]
  BY <1>1, <1>3, <1>4 DEF TopEnds
<1>9. B2 \in [D -> Seq(Nat)]
  <2>1. B2 = [y \in D |-> B2[y]]
    BY DEF TopEnds
  <2>2. ASSUME NEW y \in D PROVE B2[y] \in Seq(Nat)
    <3>1. y \in Nodes(q) => B[y] \in Seq(Nat)
      BY <1>1
    <3> HIDE DEF B2
    <3> QED BY <1>2, <1>5, <1>8, <3>1
  <2> HIDE DEF B2
  <2> QED BY <2>1, <2>2
<1> HIDE DEF h2, B2
<1>10. IsTopLayout(q, n, m, r, h, B, G, h2, B2)
  BY <1>3, <1>5, <1>6, <1>7, <1>8, <1>9 DEF IsTopLayout
<1> QED BY <1>10 DEF h2, B2

\* The kids of a node.
LEMMA KidFacts ==
    ASSUME NEW q, NEW h, NEW B, NEW G, Standing(q, h, B, G), NEW y \in Nodes(q), NEW k \in Kids(q, y), k # NULL
    PROVE  /\ k \in Nodes(q) /\ q.nodes[k].parent = y /\ k # q.root /\ k # y
           /\ \A z \in Nodes(q) : k \in Kids(q, z) => z = y
<1>1. k \in Nodes(q)
  BY KidsAreNodes
<1>2. q.nodes[k].parent = y /\ k # q.root /\ k # y
  BY <1>1, ParentHeight
<1>3. \A z \in Nodes(q) : k \in Kids(q, z) => z = y
  BY <1>1, <1>2, ParentHeight
<1> QED BY <1>1, <1>2, <1>3

\* Only the two parts and the new root have new kids.
LEMMA TopRelinks ==
    ASSUME NEW q, NEW n, NEW w, NEW m, NEW r, NEW u, NEW h, NEW B, NEW G, TopScene(q, n, w, m, r, u, h, B, G)
    PROVE  Relinks(q, u, {m, n, r})
<1> DEFINE E == {m, n, r}
           low == ToSet(LowPart(w).kids)
           high == ToSet(HighPart(w).kids)
<1>1. /\ Standing(q, h, B, G) /\ n \in Nodes(q) /\ n = q.root /\ NULL \notin Nodes(q)
      /\ m # NULL /\ m \notin Nodes(q) /\ r # NULL /\ r \notin Nodes(q) /\ r # m
      /\ Nodes(u) = Nodes(q) \cup {m, r} /\ u.root = r
      /\ Kids(u, r) = {m, n}
      /\ \A y \in Nodes(q) : y # n => Content(u.nodes[y], q.nodes[y])
      /\ u.nodes[m].parent = r /\ u.nodes[n].parent = r /\ u.nodes[r].parent = NULL
      /\ \A y \in Nodes(q) : y # n =>
           u.nodes[y].parent = IF y \in high THEN n ELSE IF y \in low THEN m ELSE q.nodes[y].parent
  BY DEF TopScene
<1>2. Kids(u, m) = low /\ Kids(u, n) = high
  BY DEF TopScene, Content, Kids
<1>3. Kids(q, n) = low \cup high /\ \A k \in Nodes(q) : ~ (k \in low /\ k \in high)
  BY DEF TopScene, PartsFit
<1>4. \A y \in Nodes(q) : \A k \in Kids(q, y) : k # NULL =>
         /\ k \in Nodes(q) /\ q.nodes[k].parent = y /\ k # q.root /\ k # y
         /\ \A z \in Nodes(q) : k \in Kids(q, z) => z = y
  BY <1>1, KidFacts
<1>5. \A z \in Nodes(q) : m \notin Kids(q, z) /\ r \notin Kids(q, z) /\ n \notin Kids(q, z)
  BY <1>1, <1>4
<1>6. NULL \notin Nodes(u)
  BY <1>1
<1> HIDE DEF low, high
<1>7. E \in SUBSET Nodes(u) /\ Nodes(u) \ E = Nodes(q) \ {n}
  BY <1>1
<1>8. \A y \in Nodes(u) \ E : y \in Nodes(q) /\ u.nodes[y].kids = q.nodes[y].kids
  BY <1>1, <1>7 DEF Content
<1>9. ASSUME NEW y \in E, NEW k \in Nodes(u), k \in Kids(u, y)
      PROVE  /\ u.nodes[k].parent = y /\ k # u.root
             /\ \A z \in Nodes(u) \ E : k \notin Kids(q, z)
  <2>1. CASE y = r
    <3>1. k = m \/ k = n
      BY <1>1, <1>9, <2>1
    <3> QED BY <1>1, <1>5, <1>7, <2>1, <3>1
  <2>2. CASE y = n \/ y = m
    <3>1. k \in Kids(q, n) /\ k # NULL
      BY <1>1, <1>2, <1>3, <1>6, <1>9, <2>2
    <3>2. k \in Nodes(q) /\ k # n /\ \A z \in Nodes(q) : k \in Kids(q, z) => z = n
      BY <1>1, <1>4, <3>1
    <3>3. u.nodes[k].parent = IF k \in high THEN n ELSE IF k \in low THEN m ELSE q.nodes[k].parent
      BY <1>1, <3>2
    <3>4. u.nodes[k].parent = y
      <4>1. CASE y = n
        BY <1>2, <1>9, <3>3, <4>1
      <4>2. CASE y = m
        <5>1. k \in low /\ k \notin high
          BY <1>2, <1>3, <1>9, <3>2, <4>2
        <5> QED BY <3>3, <4>2, <5>1
      <4> QED BY <2>2, <4>1, <4>2
    <3> QED BY <1>1, <1>7, <3>2, <3>4
  <2> QED BY <2>1, <2>2
<1>10. ASSUME NEW k \in Nodes(u), \A y \in E : k \notin Kids(u, y)
       PROVE  IF k = u.root THEN u.nodes[k].parent = NULL /\ \A z \in Nodes(u) \ E : k \notin Kids(q, z)
              ELSE /\ k \in Nodes(q) /\ u.nodes[k].parent = q.nodes[k].parent
                   /\ q.nodes[k].parent \in Nodes(u) \ E
  <2>1. k # m /\ k # n /\ k \notin high /\ k \notin low
    BY <1>1, <1>2, <1>10
  <2>2. CASE k = r
    BY <1>1, <1>5, <1>7, <2>2
  <2>3. CASE k # r
    <3>1. k \in Nodes(q)
      BY <1>1, <2>1, <2>3
    <3>2. u.nodes[k].parent = q.nodes[k].parent
      BY <1>1, <2>1, <3>1
    <3>3. Linked(q)
      BY <1>1 DEF Standing
    <3>4. q.nodes[k].parent \in Nodes(q)
      BY <1>1, <2>1, <3>1, <3>3 DEF Linked
    <3>5. \A y \in Nodes(q) : q.nodes[k].parent = y => k \in Kids(q, y)
      BY <3>1, <3>3 DEF Linked, Kids
    <3>6. q.nodes[k].parent # n
      BY <1>1, <1>3, <2>1, <3>5
    <3> QED BY <1>1, <1>7, <2>3, <3>1, <3>2, <3>4, <3>6
  <2> QED BY <2>2, <2>3
<1> HIDE DEF E
<1>11. Relinks(q, u, E)
  BY <1>7, <1>8, <1>9, <1>10 DEF Relinks
<1> QED BY <1>11 DEF E

\* Both parts fit, and the other nodes stay.
LEMMA TopPartsFit ==
    ASSUME NEW q, NEW n, NEW w, NEW m, NEW r, NEW u, NEW h, NEW B, NEW G, TopScene(q, n, w, m, r, u, h, B, G),
           NEW h2, NEW B2, IsTopLayout(q, n, m, r, h, B, G, h2, B2)
    PROVE  /\ NodeFits(h2, B2, G, u.nodes[m], B2[m], h2[m]) /\ Exact(u.nodes[m], B2[m])
           /\ NodeFits(h2, B2, G, u.nodes[n], B2[n], h2[n]) /\ Exact(u.nodes[n], B2[n])
           /\ \A y \in Nodes(q) : y # n => Stays(h, B, h2, B2, y)
<1>1. /\ h2[m] = h[n] /\ B2[m] = LowEnds(B[n]) /\ B2[n] = HighEnds(B[n]) /\ h2[n] = h[n]
      /\ \A y \in Nodes(q) : h2[y] = h[y] /\ (y # n => B2[y] = B[y])
      /\ Nodes(q) \in SUBSET DOMAIN h2
  BY DEF IsTopLayout, TopScene
<1>2. /\ n \in Nodes(q) /\ DOMAIN h = Nodes(q) /\ NULL \notin Nodes(q) /\ Standing(q, h, B, G)
      /\ Content(u.nodes[m], LowPart(w)) /\ Content(u.nodes[n], HighPart(w))
  BY DEF TopScene
<1>3. /\ LowPart(w) \in Node234 /\ HighPart(w) \in Node234
      /\ NodeFits(h, B, G, LowPart(w), LowEnds(B[n]), h[n]) /\ Exact(LowPart(w), LowEnds(B[n]))
      /\ NodeFits(h, B, G, HighPart(w), HighEnds(B[n]), h[n]) /\ Exact(HighPart(w), HighEnds(B[n]))
      /\ Kids(q, n) = ToSet(LowPart(w).kids) \cup ToSet(HighPart(w).kids)
  BY DEF TopScene, PartsFit
<1>4. \A y \in Nodes(q) : y # n => Stays(h, B, h2, B2, y)
  BY <1>1 DEF Stays
<1>5. \A k \in Kids(q, n) : k \in DOMAIN h => Stays(h, B, h2, B2, k)
  <2>1. ASSUME NEW k \in Kids(q, n), k \in DOMAIN h PROVE Stays(h, B, h2, B2, k)
    <3>1. k # n /\ k \in Nodes(q)
      BY <1>2, <2>1, KidFacts
    <3> QED BY <1>4, <3>1
  <2> QED BY <2>1
<1>6. ASSUME NEW v \in Node234, NEW b, NodeFits(h, B, G, v, b, h[n]), ToSet(v.kids) \in SUBSET Kids(q, n),
             NEW v2, Content(v2, v)
      PROVE  NodeFits(h2, B2, G, v2, b, h[n])
  <2>1. DOMAIN v.kids = 1 .. Len(v.elems) + 1
    BY <1>6, PartsAre
  <2>2. \A c \in 1 .. Len(v.elems) + 1 : v.kids[c] \in Kids(q, n)
    BY <1>6, <2>1 DEF ToSet
  <2>3. \A c \in 1 .. Len(v.elems) + 1 : v.kids[c] \in DOMAIN h => Stays(h, B, h2, B2, v.kids[c])
    BY <1>5, <2>2
  <2>4. \A c \in 1 .. Len(v.elems) + 1 :
             LET k == v.kids[c]
             IN  k \in DOMAIN h => k \in DOMAIN h2 /\ h2[k] = h[k] /\ Lo(B2[k]) = Lo(B[k]) /\ Hi(B2[k]) = Hi(B[k])
    BY <2>3 DEF Stays
  <2> QED BY <1>6, <2>4, FitsStill, ZenonT(40)
<1>7. NodeFits(h2, B2, G, u.nodes[m], LowEnds(B[n]), h[n])
  <2>1. ToSet(LowPart(w).kids) \in SUBSET Kids(q, n)
    BY <1>3
  <2> QED BY <1>2, <1>3, <1>6, <2>1
<1>8. NodeFits(h2, B2, G, u.nodes[n], HighEnds(B[n]), h[n])
  <2>1. ToSet(HighPart(w).kids) \in SUBSET Kids(q, n)
    BY <1>3
  <2> QED BY <1>2, <1>3, <1>6, <2>1
<1>9. Exact(u.nodes[m], LowEnds(B[n])) /\ Exact(u.nodes[n], HighEnds(B[n]))
  BY <1>2, <1>3 DEF Exact, Content
<1> QED BY <1>1, <1>4, <1>7, <1>8, <1>9

\* So does the new root.
LEMMA TopRootFits ==
    ASSUME NEW q, NEW n, NEW w, NEW m, NEW r, NEW u, NEW h, NEW B, NEW G, TopScene(q, n, w, m, r, u, h, B, G),
           NEW h2, NEW B2, IsTopLayout(q, n, m, r, h, B, G, h2, B2)
    PROVE  NodeFits(h2, B2, G, u.nodes[r], B2[r], h2[r]) /\ Exact(u.nodes[r], B2[r])
<1>1. PICK b, x, z, mid, node : /\ b = B2[r] /\ x = h2[r] /\ z = Len(G) + 1 /\ mid = B[n][4] /\ node = u.nodes[r]
  OBVIOUS
<1>2. /\ x = h[n] + 1 /\ h[n] \in Nat /\ h2[m] = h[n] /\ h2[n] = h[n]
      /\ Len(b) = 3 /\ b[1] = 0 /\ b[2] = mid /\ b[3] = z /\ b \in Seq(Nat)
      /\ B2[m] = LowEnds(B[n]) /\ B2[n] = HighEnds(B[n])
      /\ m \in DOMAIN h2 /\ n \in DOMAIN h2
  BY <1>1 DEF IsTopLayout, TopScene
<1>3. /\ Lo(LowEnds(B[n])) = 0 /\ Hi(LowEnds(B[n])) = mid /\ Lo(HighEnds(B[n])) = mid /\ Hi(HighEnds(B[n])) = z
      /\ mid \in Nat /\ z \in Nat /\ 0 < mid /\ mid < z /\ w.elems[3] = G[mid]
  BY <1>1 DEF TopScene, PartsFit
<1>4. IsTop(node, m, w.elems[3], n, Length(LowEnds(B[n])), Length(HighEnds(B[n])))
  BY <1>1 DEF TopScene
<1>5. Length(LowEnds(B[n])) = mid - 1 /\ Length(HighEnds(B[n])) = z - mid - 1
  BY <1>3 DEF Length
<1>6. DOMAIN b = 1 .. 3
  BY <1>2
<1>7. Rising(b)
  BY <1>2, <1>3, <1>6 DEF Rising
<1>8. \A c \in 1 .. 2 : KidFits(h2, B2, node.kids[c], x, b[c], b[c + 1])
  <2>1. KidFits(h2, B2, m, x, 0, mid)
    BY <1>2, <1>3 DEF KidFits
  <2>2. KidFits(h2, B2, n, x, mid, z)
    BY <1>2, <1>3 DEF KidFits
  <2>3. KidFits(h2, B2, node.kids[1], x, b[1], b[1 + 1]) /\ KidFits(h2, B2, node.kids[2], x, b[2], b[2 + 1])
    BY <1>2, <1>4, <2>1, <2>2 DEF IsTop
  <2> QED BY <2>3
<1>9. \A c \in 1 .. 1 : node.elems[c] = G[b[c + 1]]
  BY <1>2, <1>3, <1>4 DEF IsTop
<1>10. NodeFits(h2, B2, G, node, b, x)
  BY <1>1, <1>2, <1>3, <1>4, <1>7, <1>8, <1>9 DEF IsTop, NodeFits, Hi
<1>11. Exact(node, b)
  <2>1. Len(node.counts) = 2 /\ node.counts[1] = mid - 1 /\ node.counts[2] = z - mid - 1
    BY <1>4, <1>5 DEF IsTop
  <2>2. node.counts[1] = b[1 + 1] - b[1] - 1 /\ node.counts[2] = b[2 + 1] - b[2] - 1
    BY <1>2, <1>3, <2>1
  <2> QED BY <2>1, <2>2 DEF Exact
<1> QED BY <1>1, <1>10, <1>11

\* The tree stands after the split of the root, with all counts right.
LEMMA TopStands ==
    ASSUME NEW q, NEW n, NEW w, NEW m, NEW r, NEW u, NEW h, NEW B, NEW G, TopScene(q, n, w, m, r, u, h, B, G),
           NEW h2, NEW B2, IsTopLayout(q, n, m, r, h, B, G, h2, B2)
    PROVE  Standing(u, h2, B2, G) /\ Counted(u, B2)
<1> DEFINE E == {m, n, r}
<1>1. /\ Standing(q, h, B, G) /\ Counted(q, B) /\ n \in Nodes(q) /\ n = q.root /\ h[n] \in Nat
      /\ Lo(B[n]) = 0 /\ Hi(B[n]) = Len(G) + 1 /\ \A y \in Nodes(q) : h[y] <= h[n]
      /\ NULL \notin Nodes(q) /\ m \notin Nodes(q) /\ r # NULL /\ r \notin Nodes(q) /\ r # m
      /\ IsTree(u) /\ Nodes(u) = Nodes(q) \cup {m, r} /\ u.root = r
      /\ \A y \in Nodes(q) : y # n => Content(u.nodes[y], q.nodes[y])
  BY DEF TopScene
<1>2. /\ h2 \in [Nodes(u) -> Nat] /\ B2 \in [Nodes(u) -> Seq(Nat)]
      /\ h2[r] = h[n] + 1 /\ h2[m] = h[n]
      /\ Len(B2[r]) = 3 /\ B2[r][1] = 0 /\ B2[r][3] = Len(G) + 1
      /\ \A y \in Nodes(q) : h2[y] = h[y] /\ (y # n => B2[y] = B[y])
  BY <1>1 DEF IsTopLayout
<1>3. /\ NodeFits(h2, B2, G, u.nodes[m], B2[m], h2[m]) /\ Exact(u.nodes[m], B2[m])
      /\ NodeFits(h2, B2, G, u.nodes[n], B2[n], h2[n]) /\ Exact(u.nodes[n], B2[n])
      /\ \A y \in Nodes(q) : y # n => Stays(h, B, h2, B2, y)
  BY TopPartsFit
<1>4. NodeFits(h2, B2, G, u.nodes[r], B2[r], h2[r]) /\ Exact(u.nodes[r], B2[r])
  BY TopRootFits
<1>5. Relinks(q, u, E)
  BY TopRelinks
<1>6. Nodes(u) \ E = Nodes(q) \ {n}
  BY <1>1
<1>7. Kept(q, h, B, u, h2, B2, E)
  <2>1. ASSUME NEW y \in Nodes(u) \ E
        PROVE  /\ Content(u.nodes[y], q.nodes[y]) /\ h2[y] = h[y] /\ B2[y] = B[y]
               /\ \A k \in Kids(q, y) : k \in Nodes(q) => Stays(h, B, h2, B2, k)
    <3>1. y \in Nodes(q) /\ y # n
      BY <1>6, <2>1
    <3>2. ASSUME NEW k \in Kids(q, y), k \in Nodes(q) PROVE Stays(h, B, h2, B2, k)
      <4>1. k # n
        BY <1>1, <3>1, <3>2, KidFacts
      <4> QED BY <1>3, <3>2, <4>1
    <3> QED BY <1>1, <1>2, <3>1, <3>2
  <2> QED BY <2>1 DEF Kept
<1>8. Rooted(u, h2, B2, G)
  <2>1. Lo(B2[r]) = 0 /\ Hi(B2[r]) = Len(G) + 1
    BY <1>2 DEF Lo, Hi
  <2>2. \A y \in Nodes(u) : h2[y] <= h2[r]
    <3>1. ASSUME NEW y \in Nodes(u) PROVE h2[y] <= h2[r]
      <4>1. h2[y] \in Nat /\ (y \in Nodes(q) \/ y = m \/ y = r)
        BY <1>1, <1>2
      <4>2. h2[r] = h[n] + 1 /\ h2[m] = h[n] /\ h[n] \in Nat
        BY <1>1, <1>2
      <4>3. CASE y \in Nodes(q)
        <5>1. h2[y] = h[y] /\ h[y] <= h[n]
          BY <1>1, <1>2, <4>3
        <5> QED BY ONLY <4>1, <4>2, <5>1
      <4>4. CASE y = m \/ y = r
        BY ONLY <4>2, <4>4
      <4> QED BY <4>1, <4>3, <4>4
    <3> QED BY <3>1
  <2>3. u.root = r /\ r \in Nodes(u) /\ r # NULL
    BY <1>1
  <2> QED BY <2>1, <2>2, <2>3 DEF Rooted
<1>9. \A y \in E : NodeFits(h2, B2, G, u.nodes[y], B2[y], h2[y])
  <2>1. ASSUME NEW y \in E PROVE NodeFits(h2, B2, G, u.nodes[y], B2[y], h2[y])
    <3>1. y = m \/ y = n \/ y = r
      BY <2>1
    <3> QED BY ONLY <1>3, <1>4, <3>1
  <2> QED BY <2>1
<1>10. Counted(u, B2)
  <2>1. ASSUME NEW y \in Nodes(u) PROVE Exact(u.nodes[y], B2[y])
    <3>1. CASE y \in E
      BY <1>3, <1>4, <3>1
    <3>2. CASE y \notin E
      <4>1. y \in Nodes(q) /\ y # n
        BY <1>6, <3>2
      <4>2. Exact(q.nodes[y], B[y]) /\ B2[y] = B[y] /\ Content(u.nodes[y], q.nodes[y])
        BY <1>1, <1>2, <4>1 DEF Counted
      <4> QED BY <4>2 DEF Exact, Content
    <3> QED BY <3>1, <3>2
  <2> QED BY <2>1 DEF Counted
<1> HIDE DEF E
<1>11. Rebuilt(q, h, B, u, h2, B2, E, G)
  BY <1>1, <1>2, <1>5, <1>7, <1>8, <1>9 DEF Rebuilt
<1> QED BY <1>1, <1>10, <1>11, RebuiltStands

\* A split of the root makes the tree higher, and the work is done.
THEOREM RootSplit ==
    ASSUME NEW q, NEW t, NEW n, NEW w, NEW h, NEW B, NEW G, NEW i, Pending(q, t, n, w, h, B, G, i), Size(q, n) = 4,
           NEW m \in Nat \ {0}, m \notin Nodes(t), NEW s, s = SplitOff(t, n, w, m),
           t.nodes[n].parent = NULL, NEW u, u = NewRoot(s, m, w.elems[3], n)
    PROVE  \E h2, B2 : Standing(u, h2, B2, G) /\ Counted(u, B2) /\ Sized(u) /\ u.sorted = t.sorted
<1> DEFINE r == mknew(s)
           h2 == TopHeights(q, n, m, r, h)
           B2 == TopEnds(q, n, m, r, B, G)
<1>1. TopScene(q, n, w, m, r, u, h, B, G) /\ u.sorted = t.sorted
  BY TopSceneOf
<1>2. IsTopLayout(q, n, m, r, h, B, G, h2, B2)
  BY <1>1, TopLayout
<1> HIDE DEF r, h2, B2
<1>3. Standing(u, h2, B2, G) /\ Counted(u, B2)
  BY <1>1, <1>2, TopStands
<1>4. Sized(u)
  <2>1. /\ Nodes(u) = Nodes(q) \cup {m, r} /\ PartsFit(q, n, w, h, B, G)
        /\ Content(u.nodes[m], LowPart(w)) /\ Content(u.nodes[n], HighPart(w))
        /\ IsTop(u.nodes[r], m, w.elems[3], n, Length(LowEnds(B[n])), Length(HighEnds(B[n])))
        /\ \A y \in Nodes(q) : y # n => Content(u.nodes[y], q.nodes[y])
    BY <1>1 DEF TopScene
  <2>2. Nodes(q) = Nodes(t) /\ \A y \in Nodes(q) : y # n => Size(q, y) \in 1 .. 3
    BY ZenonT(40) DEF Pending, IsPutInto
  <2>3. Len(LowPart(w).elems) = 2 /\ Len(HighPart(w).elems) = 1
    BY <2>1, ZenonT(40) DEF PartsFit
  <2>4. Size(u, m) = 2 /\ Size(u, n) = 1 /\ Size(u, r) = 1
    BY <2>1, <2>3 DEF Content, IsTop, Size
  <2>5. \A y \in Nodes(q) : y # n => Size(u, y) \in 1 .. 3
    <3>1. ASSUME NEW y \in Nodes(q), y # n PROVE Size(u, y) \in 1 .. 3
      <4>1. Size(u, y) = Size(q, y)
        BY <2>1, <3>1 DEF Content, Size
      <4> QED BY <2>2, <3>1, <4>1, ZenonT(40)
    <3> QED BY <3>1
  <2>6. SUFFICES ASSUME NEW y \in Nodes(u) PROVE Size(u, y) \in 1 .. 3
    BY DEF Sized
  <2>7. y \in Nodes(q) \cup {m, r}
    BY ONLY <2>1, y \in Nodes(u), ZenonT(40)
  <2>8. y = m \/ y = n \/ y = r \/ (y \in Nodes(q) /\ y # n)
    BY ONLY <2>7, ZenonT(40)
  <2>9. 1 \in 1 .. 3 /\ 2 \in 1 .. 3
    BY ONLY TRUE
  <2> QED BY ONLY <2>4, <2>5, <2>8, <2>9, ZenonT(40)
<1> QED BY <1>1, <1>3, <1>4

================================================================================
