------------------------ MODULE Tree234Deleting_proofs ------------------------
(***************************************************************************)
(* The nodes of the 2-3-4 tree when an element is deleted, for trees of    *)
(* any size: how an element is moved from a neighbour, how two kids are    *)
(* joined and the root is taken away, how an element is cut out of a leaf, *)
(* and how the search on the way down enters a kid that is big enough.     *)
(***************************************************************************)
EXTENDS Tree234Nodes_proofs


--------------------------------------------------------------------------------
(*****************************************************************************)
(* Two neighbours and the element between them as one node (PairAt), cut     *)
(* again elsewhere: cases 3a of the deletion.                                *)
(*****************************************************************************)

\* Two nodes with the element between them as one, and its boundaries.
PairEnds(p, q) == p \o Tail(q)
IsPair(w, P, a, b, x, p, q, ka, kb) ==
    /\ w \in Node234 /\ P \in Seq(Nat)
    /\ Len(w.elems) = ka + kb + 1 /\ Len(w.kids) = ka + kb + 2 /\ Len(w.counts) = ka + kb + 2
    /\ Len(P) = ka + kb + 3 /\ w.elems[ka + 1] = x
    /\ \A j \in 1 .. ka : w.elems[j] = a.elems[j]
    /\ \A j \in 1 .. kb : w.elems[ka + 1 + j] = b.elems[j]
    /\ \A j \in 1 .. ka + 1 : w.kids[j] = a.kids[j] /\ w.counts[j] = a.counts[j]
    /\ \A j \in 1 .. kb + 1 : w.kids[ka + 1 + j] = b.kids[j] /\ w.counts[ka + 1 + j] = b.counts[j]
    /\ \A j \in 1 .. ka + 2 : P[j] = p[j]
    /\ \A j \in 1 .. kb + 2 : P[ka + 1 + j] = q[j]
PairNode(n, a, b, x) ==
    [parent |-> n, elems |-> a.elems \o <<x>> \o b.elems,
     kids |-> a.kids \o b.kids, counts |-> a.counts \o b.counts]

IsFollow(w, S, s, t, k, m) ==
    /\ w \in Seq(S) /\ Len(w) = k + m
    /\ \A j \in 1 .. k : w[j] = s[j]
    /\ \A j \in 1 .. m : w[k + j] = t[j]
\* Appending does what IsFollow says.
LEMMA Follows ==
    ASSUME NEW S, NEW s, s \in Seq(S), NEW t, t \in Seq(S), NEW k, k \in Nat, Len(s) = k, NEW m, m \in Nat, Len(t) = m,
           NEW w, w = s \o t
    PROVE  IsFollow(w, S, s, t, k, m)
<1>1. /\ w \in Seq(S) /\ Len(w) = Len(s) + Len(t)
      /\ \A j \in 1 .. Len(s) + Len(t) : w[j] = IF j <= Len(s) THEN s[j] ELSE t[j - Len(s)]
  BY BothOf
<1>2. PICK K \in Nat, M \in Nat : K = k /\ M = m
  OBVIOUS
<1>3. /\ Len(w) = K + M
      /\ \A j \in 1 .. K + M : w[j] = IF j <= K THEN s[j] ELSE t[j - K]
  BY <1>1, <1>2
<1>4. ASSUME NEW j \in 1 .. K PROVE w[j] = s[j]
  <2>1. j \in 1 .. K + M /\ j <= K
    BY <1>2
  <2> QED BY <1>3, <2>1
<1>5. ASSUME NEW j \in 1 .. M PROVE w[K + j] = t[j]
  <2>1. K + j \in 1 .. K + M /\ ~ (K + j <= K) /\ (K + j) - K = j
    BY <1>2
  <2> QED BY <1>3, <2>1
<1> QED BY <1>1, <1>2, <1>3, <1>4, <1>5 DEF IsFollow

\* The pair, item by item.
LEMMA PairIs ==
    ASSUME NEW n \in Nat, NEW a \in Node234, NEW b \in Node234, NEW x \in Int,
           NEW p, NEW q, NEW ka \in Nat, NEW kb \in Nat, Bounds(p, ka), Bounds(q, kb), p[ka + 2] = q[1],
           Len(a.elems) = ka, Len(a.kids) = ka + 1, Len(a.counts) = ka + 1,
           Len(b.elems) = kb, Len(b.kids) = kb + 1, Len(b.counts) = kb + 1
    PROVE  IsPair(PairNode(n, a, b, x), PairEnds(p, q), a, b, x, p, q, ka, kb)
<1> DEFINE w == PairNode(n, a, b, x)
           P == PairEnds(p, q)
<1>1. PICK ea, eb, na, nb, fa, fb :
        /\ ea = a.elems /\ eb = b.elems /\ na = a.kids /\ nb = b.kids /\ fa = a.counts /\ fb = b.counts
  OBVIOUS
<1>2. /\ ea \in Seq(Int) /\ eb \in Seq(Int) /\ na \in Seq(Nat) /\ nb \in Seq(Nat) /\ fa \in Seq(Int) /\ fb \in Seq(Int)
      /\ Len(ea) = ka /\ Len(eb) = kb /\ Len(na) = ka + 1 /\ Len(nb) = kb + 1 /\ Len(fa) = ka + 1 /\ Len(fb) = kb + 1
  BY <1>1 DEF Node234
<1>3. ka + 1 \in Nat /\ kb + 1 \in Nat /\ ka + 2 \in Nat
  OBVIOUS
<1>4. PICK es : es = ea \o <<x>> \o eb
  OBVIOUS
<1>5. Glues(es, Int, ea, x, eb)
  BY <1>2, <1>4, GluedOf
<1>6. /\ es \in Seq(Int) /\ Len(es) = ka + kb + 1 /\ es[ka + 1] = x
      /\ \A j \in 1 .. ka : es[j] = ea[j]
      /\ \A j \in 1 .. kb : es[ka + 1 + j] = eb[j]
  <2>1. /\ es \in Seq(Int) /\ Len(es) = Len(ea) + 1 + Len(eb) /\ es[Len(ea) + 1] = x
        /\ \A j \in 1 .. Len(ea) : es[j] = ea[j]
        /\ \A j \in 1 .. Len(eb) : es[Len(ea) + 1 + j] = eb[j]
    BY <1>5 DEF Glues
  <2> QED BY ONLY <1>2, <2>1, ka \in Nat, kb \in Nat
<1>7. PICK ns, fs : ns = na \o nb /\ fs = fa \o fb
  OBVIOUS
<1>8. /\ ns \in Seq(Nat) /\ Len(ns) = ka + 1 + (kb + 1)
      /\ \A j \in 1 .. ka + 1 : ns[j] = na[j]
      /\ \A j \in 1 .. kb + 1 : ns[ka + 1 + j] = nb[j]
  <2>1. IsFollow(ns, Nat, na, nb, ka + 1, kb + 1)
    BY ONLY <1>2, <1>3, <1>7, Follows
  <2> QED BY <2>1 DEF IsFollow
<1>9. /\ fs \in Seq(Int) /\ Len(fs) = ka + 1 + (kb + 1)
      /\ \A j \in 1 .. ka + 1 : fs[j] = fa[j]
      /\ \A j \in 1 .. kb + 1 : fs[ka + 1 + j] = fb[j]
  <2>1. IsFollow(fs, Int, fa, fb, ka + 1, kb + 1)
    BY ONLY <1>2, <1>3, <1>7, Follows
  <2> QED BY <2>1 DEF IsFollow
<1>10. p \in Seq(Nat) /\ Len(p) = ka + 2 /\ q \in Seq(Nat) /\ Len(q) = kb + 2 /\ q # <<>>
  BY DEF Bounds
<1>11. PICK r : r = Tail(q)
  OBVIOUS
<1>12. r \in Seq(Nat) /\ Len(r) = kb + 1 /\ \A j \in 1 .. kb + 1 : r[j] = q[j + 1]
  <2>1. /\ Tail(q) \in Seq(Nat) /\ Len(Tail(q)) = Len(q) - 1
        /\ \A j \in 1 .. Len(q) - 1 : Tail(q)[j] = q[j + 1]
    BY <1>10, TailOf
  <2> QED BY ONLY <1>10, <1>11, <2>1, kb \in Nat
<1>13. PICK z : z = p \o r
  OBVIOUS
<1>14. /\ z \in Seq(Nat) /\ Len(z) = ka + 2 + (kb + 1)
       /\ \A j \in 1 .. ka + 2 : z[j] = p[j]
       /\ \A j \in 1 .. kb + 1 : z[ka + 2 + j] = r[j]
  <2>1. IsFollow(z, Nat, p, r, ka + 2, kb + 1)
    BY ONLY <1>3, <1>10, <1>12, <1>13, Follows
  <2> QED BY <2>1 DEF IsFollow
<1>15. ASSUME NEW j \in 1 .. kb + 2 PROVE z[ka + 1 + j] = q[j]
  <2>1. CASE j = 1
    <3>1. ka + 2 \in 1 .. ka + 2
      OBVIOUS
    <3> QED BY <1>14, <2>1, <3>1
  <2>2. CASE j # 1
    <3>1. PICK i \in 1 .. kb + 1 : j = i + 1
      <4>1. j - 1 \in 1 .. kb + 1 /\ j = (j - 1) + 1
        BY <2>2
      <4> QED BY <4>1
    <3>2. ka + 1 + j = ka + 2 + i
      BY <3>1
    <3> QED BY <1>12, <1>14, <3>1, <3>2
  <2> QED BY <2>1, <2>2
<1>16. w.elems = es /\ w.kids = ns /\ w.counts = fs /\ w.parent = n /\ P = z
  BY <1>1, <1>4, <1>7, <1>11, <1>13 DEF PairNode, PairEnds
<1>17. w \in Node234
  <2>1. w = [parent |-> n, elems |-> es, kids |-> ns, counts |-> fs]
    BY <1>1, <1>4, <1>7 DEF PairNode
  <2> HIDE DEF w
  <2> QED BY <1>6, <1>8, <1>9, <2>1 DEF Node234
<1> HIDE DEF w, P
<1>18. Len(es) = ka + kb + 1 /\ Len(ns) = ka + kb + 2 /\ Len(fs) = ka + kb + 2 /\ Len(z) = ka + kb + 3
  BY ONLY <1>6, <1>8, <1>9, <1>14, ka \in Nat, kb \in Nat
<1>19. IsPair(w, P, a, b, x, p, q, ka, kb)
  BY <1>1, <1>6, <1>8, <1>9, <1>14, <1>15, <1>16, <1>17, <1>18 DEF IsPair
<1> QED BY <1>19 DEF w, P

\* A slot or boundary of the pair is one of either node.
Ascends(P, k) == \A i, j \in 1 .. k : i < j => P[i] < P[j]
\* The boundaries of a pair ascend.
LEMMA PairRises ==
    ASSUME NEW ka \in Nat, NEW kb \in Nat, NEW p, NEW q, Bounds(p, ka), Bounds(q, kb), p[ka + 2] = q[1],
           NEW w, NEW P, NEW a, NEW b, NEW x, IsPair(w, P, a, b, x, p, q, ka, kb)
    PROVE  Ascends(P, ka + kb + 3)
<1>0. /\ \A j \in 1 .. ka + 2 : P[j] = p[j]
      /\ \A j \in 1 .. kb + 2 : P[ka + 1 + j] = q[j]
  BY DEF IsPair
<1>1. /\ \A j \in 1 .. ka + 2 : p[j] \in Nat /\ p[j] <= p[ka + 2]
      /\ \A i, j \in 1 .. ka + 2 : i < j => p[i] < p[j]
      /\ \A j \in 1 .. kb + 2 : q[j] \in Nat /\ q[1] <= q[j]
      /\ \A i, j \in 1 .. kb + 2 : i < j => q[i] < q[j]
  BY DEF Bounds
<1>2. ASSUME NEW i \in 1 .. ka + kb + 3, NEW j \in 1 .. ka + kb + 3, i < j PROVE P[i] < P[j]
  <2>1. CASE j <= ka + 2
    <3>1. i \in 1 .. ka + 2 /\ j \in 1 .. ka + 2
      BY <1>2, <2>1
    <3>2. P[i] = p[i] /\ P[j] = p[j] /\ p[i] < p[j]
      BY <1>0, <1>1, <1>2, <3>1
    <3> QED BY <3>2
  <2>2. CASE ka + 2 <= i
    <3>1. PICK d, e \in 1 .. kb + 2 : i = ka + 1 + d /\ j = ka + 1 + e
      <4>1. /\ i - (ka + 1) \in 1 .. kb + 2 /\ i = ka + 1 + (i - (ka + 1))
            /\ j - (ka + 1) \in 1 .. kb + 2 /\ j = ka + 1 + (j - (ka + 1))
        BY <1>2, <2>2
      <4> QED BY <4>1
    <3>2. P[i] = q[d] /\ P[j] = q[e] /\ d < e
      BY <1>0, <1>2, <3>1
    <3> QED BY <1>1, <3>2
  <2>3. CASE i < ka + 2 /\ ka + 2 < j
    <3>1. PICK e \in 1 .. kb + 2 : j = ka + 1 + e /\ 1 < e
      <4>1. j - (ka + 1) \in 1 .. kb + 2 /\ j = ka + 1 + (j - (ka + 1)) /\ 1 < j - (ka + 1)
        BY <1>2, <2>3
      <4> QED BY <4>1
    <3>2. i \in 1 .. ka + 2 /\ ka + 2 \in 1 .. ka + 2 /\ 1 \in 1 .. kb + 2
      BY <2>3
    <3>3. P[i] = p[i] /\ p[i] < p[ka + 2]
      BY <1>0, <1>1, <2>3, <3>2
    <3>4. P[j] = q[e] /\ q[1] < q[e]
      BY <1>0, <1>1, <3>1, <3>2
    <3>5. p[i] \in Nat /\ p[ka + 2] \in Nat /\ q[e] \in Nat
      BY <1>1, <3>2
    <3> QED BY ONLY <3>3, <3>4, <3>5, p[ka + 2] = q[1]
  <2> QED BY <2>1, <2>2, <2>3
<1> QED BY <1>2 DEF Ascends

IsPairFit(h, B, G, w, P, x) == NodeFits(h, B, G, w, P, x) /\ Exact(w, P)

HasSize(node, k) == Len(node.elems) = k

\* The pair fits where the two nodes were.
LEMMA PairFits ==
    ASSUME NEW h, NEW B, NEW G, NEW a, NEW b, NEW e, NEW p, NEW q, NEW x, NEW ka \in Nat, NEW kb \in Nat,
           Bounds(p, ka), Bounds(q, kb), p[ka + 2] = q[1], HasSize(a, ka), HasSize(b, kb),
           NodeFits(h, B, G, a, p, x), NodeFits(h, B, G, b, q, x), Exact(a, p), Exact(b, q), e = G[q[1]],
           NEW w, NEW P, IsPair(w, P, a, b, e, p, q, ka, kb)
    PROVE  IsPairFit(h, B, G, w, P, x)
<1>1. /\ w \in Node234 /\ P \in Seq(Nat)
      /\ Len(w.elems) = ka + kb + 1 /\ Len(w.kids) = ka + kb + 2 /\ Len(w.counts) = ka + kb + 2
      /\ Len(P) = ka + kb + 3 /\ w.elems[ka + 1] = e
      /\ \A j \in 1 .. ka : w.elems[j] = a.elems[j]
      /\ \A j \in 1 .. kb : w.elems[ka + 1 + j] = b.elems[j]
      /\ \A j \in 1 .. ka + 1 : w.kids[j] = a.kids[j] /\ w.counts[j] = a.counts[j]
      /\ \A j \in 1 .. kb + 1 : w.kids[ka + 1 + j] = b.kids[j] /\ w.counts[ka + 1 + j] = b.counts[j]
      /\ \A j \in 1 .. ka + 2 : P[j] = p[j]
      /\ \A j \in 1 .. kb + 2 : P[ka + 1 + j] = q[j]
  BY DEF IsPair
<1>2. /\ Len(a.counts) = ka + 1 /\ Len(b.counts) = kb + 1 /\ ka >= 1 /\ Hi(q) <= Len(G) + 1
      /\ \A c \in 1 .. ka + 1 : KidFits(h, B, a.kids[c], x, p[c], p[c + 1])
      /\ \A c \in 1 .. kb + 1 : KidFits(h, B, b.kids[c], x, q[c], q[c + 1])
      /\ \A c \in 1 .. ka : a.elems[c] = G[p[c + 1]]
      /\ \A c \in 1 .. kb : b.elems[c] = G[q[c + 1]]
  BY DEF NodeFits, HasSize
<1>3. ASSUME NEW c \in 1 .. ka + kb + 2
      PROVE  c \in 1 .. ka + 1 \/ \E d \in 1 .. kb + 1 : c = ka + 1 + d
  <2>1. CASE c <= ka + 1
    BY <2>1
  <2>2. CASE c > ka + 1
    <3>1. c - (ka + 1) \in 1 .. kb + 1 /\ c = ka + 1 + (c - (ka + 1))
      BY <2>2
    <3> QED BY <3>1
  <2> QED BY <2>1, <2>2
<1>4. ASSUME NEW c \in 1 .. ka + 1
      PROVE  P[c] = p[c] /\ P[c + 1] = p[c + 1] /\ w.kids[c] = a.kids[c] /\ w.counts[c] = a.counts[c]
  <2>1. c \in 1 .. ka + 2 /\ c + 1 \in 1 .. ka + 2
    OBVIOUS
  <2> QED BY <1>1, <2>1
<1>5. ASSUME NEW d \in 1 .. kb + 1, NEW c, c = ka + 1 + d
      PROVE  P[c] = q[d] /\ P[c + 1] = q[d + 1] /\ w.kids[c] = b.kids[d] /\ w.counts[c] = b.counts[d]
  <2>1. d \in 1 .. kb + 2 /\ d + 1 \in 1 .. kb + 2 /\ ka + 1 + (d + 1) = c + 1
    BY <1>5
  <2>2. P[ka + 1 + d] = q[d] /\ P[ka + 1 + (d + 1)] = q[d + 1]
    BY <1>1, <2>1
  <2>3. w.kids[ka + 1 + d] = b.kids[d] /\ w.counts[ka + 1 + d] = b.counts[d]
    BY <1>1
  <2> QED BY ONLY <1>5, <2>1, <2>2, <2>3
<1>6. \A c \in 1 .. ka + kb + 2 : KidFits(h, B, w.kids[c], x, P[c], P[c + 1])
  <2>1. ASSUME NEW c \in 1 .. ka + kb + 2 PROVE KidFits(h, B, w.kids[c], x, P[c], P[c + 1])
    <3>1. CASE c \in 1 .. ka + 1
      BY <1>2, <1>4, <3>1
    <3>2. CASE \E d \in 1 .. kb + 1 : c = ka + 1 + d
      <4>1. PICK d \in 1 .. kb + 1 : c = ka + 1 + d
        BY <3>2
      <4>2. P[c] = q[d] /\ P[c + 1] = q[d + 1] /\ w.kids[c] = b.kids[d]
        BY <1>5, <4>1
      <4>3. KidFits(h, B, b.kids[d], x, q[d], q[d + 1])
        BY <1>2
      <4> QED BY ONLY <4>2, <4>3
    <3> QED BY <1>3, <3>1, <3>2
  <2> QED BY <2>1
<1>7. \A c \in 1 .. ka + kb + 2 : w.counts[c] = P[c + 1] - P[c] - 1
  <2>1. ASSUME NEW c \in 1 .. ka + kb + 2 PROVE w.counts[c] = P[c + 1] - P[c] - 1
    <3>1. CASE c \in 1 .. ka + 1
      <4>1. a.counts[c] = p[c + 1] - p[c] - 1
        BY <1>2, <3>1 DEF Exact
      <4> QED BY <1>4, <3>1, <4>1
    <3>2. CASE \E d \in 1 .. kb + 1 : c = ka + 1 + d
      <4>1. PICK d \in 1 .. kb + 1 : c = ka + 1 + d
        BY <3>2
      <4>2. P[c] = q[d] /\ P[c + 1] = q[d + 1] /\ w.counts[c] = b.counts[d]
        BY <1>5, <4>1
      <4>3. b.counts[d] = q[d + 1] - q[d] - 1
        BY <1>2 DEF Exact
      <4> QED BY ONLY <4>2, <4>3
    <3> QED BY <1>3, <3>1, <3>2
  <2> QED BY <2>1
<1>8. \A c \in 1 .. ka + kb + 1 : w.elems[c] = G[P[c + 1]]
  <2>1. ASSUME NEW c \in 1 .. ka + kb + 1 PROVE w.elems[c] = G[P[c + 1]]
    <3>1. CASE c \in 1 .. ka
      <4>1. c + 1 \in 1 .. ka + 2
        BY <3>1
      <4>2. P[c + 1] = p[c + 1] /\ w.elems[c] = a.elems[c] /\ a.elems[c] = G[p[c + 1]]
        BY <1>1, <1>2, <3>1, <4>1
      <4> QED BY ONLY <4>2
    <3>2. CASE c = ka + 1
      <4>1. ka + 1 + 1 = c + 1 /\ 1 \in 1 .. kb + 2
        BY <3>2
      <4>2. P[ka + 1 + 1] = q[1]
        BY <1>1, <4>1
      <4>3. P[c + 1] = q[1]
        BY ONLY <4>1, <4>2
      <4> QED BY <1>1, <3>2, <4>3
    <3>3. CASE c > ka + 1
      <4>1. PICK d \in 1 .. kb : c = ka + 1 + d
        <5>1. c - (ka + 1) \in 1 .. kb /\ c = ka + 1 + (c - (ka + 1))
          BY <3>3
        <5> QED BY <5>1
      <4>2. d + 1 \in 1 .. kb + 2 /\ ka + 1 + (d + 1) = c + 1
        BY <4>1
      <4>3. P[ka + 1 + (d + 1)] = q[d + 1] /\ w.elems[ka + 1 + d] = b.elems[d] /\ b.elems[d] = G[q[d + 1]]
        BY <1>1, <1>2, <4>2
      <4> QED BY ONLY <4>1, <4>2, <4>3
    <3> QED BY <3>1, <3>2, <3>3
  <2> QED BY <2>1
<1>9. Ascends(P, ka + kb + 3)
  BY PairRises
<1>10. Rising(P)
  <2>1. DOMAIN P = 1 .. ka + kb + 3
    BY <1>1
  <2> QED BY <1>9, <2>1 DEF Rising, Ascends
<1>11. Hi(P) = Hi(q)
  <2>1. kb + 2 \in 1 .. kb + 2 /\ ka + 1 + (kb + 2) = ka + kb + 3
    OBVIOUS
  <2>2. P[ka + 1 + (kb + 2)] = q[kb + 2] /\ Hi(q) = q[kb + 2] /\ Hi(P) = P[ka + kb + 3]
    BY <1>1, <2>1 DEF Hi, Bounds
  <2> QED BY ONLY <2>1, <2>2
<1>12. PICK k \in Nat : k = ka + kb + 1
  OBVIOUS
<1>13. /\ Len(w.elems) = k /\ Len(w.kids) = k + 1 /\ Len(w.counts) = k + 1 /\ Len(P) = k + 2 /\ k >= 1
       /\ ka + kb + 2 = k + 1
  BY ONLY <1>1, <1>2, <1>12, ka \in Nat, kb \in Nat
<1>14. /\ \A c \in 1 .. k + 1 : KidFits(h, B, w.kids[c], x, P[c], P[c + 1])
       /\ \A c \in 1 .. k : w.elems[c] = G[P[c + 1]]
       /\ \A c \in 1 .. k + 1 : w.counts[c] = P[c + 1] - P[c] - 1
  BY ONLY <1>6, <1>7, <1>8, <1>12, <1>13
<1>15. NodeFits(h, B, G, w, P, x)
  BY <1>2, <1>10, <1>11, <1>13, <1>14 DEF NodeFits
<1>16. Exact(w, P)
  BY <1>13, <1>14 DEF Exact
<1> QED BY <1>15, <1>16 DEF IsPairFit

\* Its kids are those of both.
AllKids(w, a, b) == ToSet(w.kids) = ToSet(a.kids) \cup ToSet(b.kids)
\* No kid is lost.
LEMMA PairKids ==
    ASSUME NEW a, NEW b, NEW e, NEW p, NEW q, NEW ka, ka \in Nat, NEW kb, kb \in Nat,
           DOMAIN a.kids = 1 .. ka + 1, DOMAIN b.kids = 1 .. kb + 1,
           NEW w, NEW P, IsPair(w, P, a, b, e, p, q, ka, kb)
    PROVE  AllKids(w, a, b)
<1>1. /\ w \in Node234 /\ Len(w.kids) = ka + kb + 2
      /\ \A j \in 1 .. ka + 1 : w.kids[j] = a.kids[j]
      /\ \A j \in 1 .. kb + 1 : w.kids[ka + 1 + j] = b.kids[j]
  BY DEF IsPair
<1>2. DOMAIN w.kids = 1 .. ka + kb + 2
  <2>1. w.kids \in Seq(Nat)
    BY <1>1 DEF Node234
  <2> QED BY <1>1, <2>1
<1>3. ASSUME NEW v, v \in ToSet(w.kids) PROVE v \in ToSet(a.kids) \cup ToSet(b.kids)
  <2>1. PICK c \in 1 .. ka + kb + 2 : v = w.kids[c]
    BY <1>2, <1>3 DEF ToSet
  <2>2. CASE c <= ka + 1
    <3>1. c \in 1 .. ka + 1
      BY <2>2
    <3> QED BY <1>1, <2>1, <3>1 DEF ToSet
  <2>3. CASE c > ka + 1
    <3>1. PICK d \in 1 .. kb + 1 : c = ka + 1 + d
      <4>1. c - (ka + 1) \in 1 .. kb + 1 /\ c = ka + 1 + (c - (ka + 1))
        BY <2>3
      <4> QED BY <4>1
    <3>2. v = b.kids[d]
      BY <1>1, <2>1, <3>1
    <3> QED BY <3>2 DEF ToSet
  <2> QED BY <2>2, <2>3
<1>4. ASSUME NEW v, v \in ToSet(a.kids) PROVE v \in ToSet(w.kids)
  <2>1. PICK c \in 1 .. ka + 1 : v = a.kids[c]
    BY <1>4 DEF ToSet
  <2>2. c \in 1 .. ka + kb + 2
    BY ONLY <2>1, ka \in Nat, kb \in Nat
  <2>3. v = w.kids[c]
    BY <1>1, <2>1
  <2> QED BY <1>2, <2>2, <2>3 DEF ToSet
<1>5. ASSUME NEW v, v \in ToSet(b.kids) PROVE v \in ToSet(w.kids)
  <2>1. PICK d \in 1 .. kb + 1 : v = b.kids[d]
    BY <1>5 DEF ToSet
  <2>2. ka + 1 + d \in 1 .. ka + kb + 2
    BY ONLY <2>1, ka \in Nat, kb \in Nat
  <2>3. v = w.kids[ka + 1 + d]
    BY <1>1, <2>1, SMTT(40)
  <2> QED BY <1>2, <2>2, <2>3 DEF ToSet
<1> QED BY <1>3, <1>4, <1>5 DEF AllKids

\* Kids c and c + 1 of n, a and b, as one node w with boundaries P.
PairAt(t, h, B, G, n, c, a, b, w, P) ==
    /\ Standing(t, h, B, G) /\ Counted(t, B) /\ n \in Nodes(t) /\ c \in 1 .. Size(t, n)
    /\ a = t.nodes[n].kids[c] /\ b = t.nodes[n].kids[c + 1]
    /\ IsKid(t, h, B, n, c, a) /\ IsKid(t, h, B, n, c + 1, b)
    /\ t.nodes[a].parent = n /\ t.nodes[b].parent = n
    /\ a # b /\ a # n /\ b # n /\ h[a] = h[b] /\ h[n] = h[a] + 1 /\ h[a] \in Nat
    /\ a \in Nat /\ b \in Nat /\ n \in Nat /\ NULL \notin Nodes(t)
    /\ Size(t, a) \in Nat /\ Size(t, b) \in Nat /\ Size(t, a) >= 1 /\ Size(t, b) >= 1
    /\ w = Pair(t, n, c) /\ w.parent = n
    /\ IsPair(w, P, t.nodes[a], t.nodes[b], t.nodes[n].elems[c], B[a], B[b], Size(t, a), Size(t, b))
    /\ IsPairFit(h, B, G, w, P, h[a])
    /\ ToSet(w.kids) = Kids(t, a) \cup Kids(t, b)
    /\ Lo(P) = Lo(B[a]) /\ Hi(P) = Hi(B[b])
    /\ \A k \in Nodes(t) : ~ (k \in Kids(t, a) /\ k \in Kids(t, b))

\* Two adjacent kids make such a pair, with exact counts.
LEMMA PairOf ==
    ASSUME NEW t, NEW h, NEW B, NEW G, Standing(t, h, B, G), Counted(t, B), NEW n \in Nodes(t), h[n] # 0,
           NEW c \in 1 .. Size(t, n), NEW a, a = t.nodes[n].kids[c], NEW b, b = t.nodes[n].kids[c + 1]
    PROVE  PairAt(t, h, B, G, n, c, a, b, Pair(t, n, c), PairEnds(B[a], B[b]))
<1>1. IsTree(t) /\ Layout(t, h, B, G) /\ Linked(t)
  BY DEF Standing
<1>2. /\ n \in Nat /\ t.nodes[n] \in Node234 /\ h[n] \in Nat /\ Bounds(B[n], Size(t, n))
      /\ NodeFits(h, B, G, t.nodes[n], B[n], h[n])
  BY <1>1, NodeIs
<1>3. /\ c \in 1 .. Size(t, n) + 1 /\ c + 1 \in 1 .. Size(t, n) + 1 /\ c # c + 1 /\ c \in Nat
  BY <1>2, InnerIs
<1>4. /\ IsKid(t, h, B, n, c, a) /\ t.nodes[a].parent = n
      /\ IsKid(t, h, B, n, c + 1, b) /\ t.nodes[b].parent = n
  BY <1>1, <1>3, KidIs
<1>5. a \in Nodes(t) /\ b \in Nodes(t) /\ h[a] = h[n] - 1 /\ h[b] = h[n] - 1 /\ h[a] \in Nat
  BY <1>4 DEF IsKid
<1>6. a \in Nat /\ b \in Nat /\ a # NULL /\ NULL \notin Nodes(t)
  BY <1>1, <1>5, NodeIs
<1>7. a # b
  <2>1. SUFFICES ASSUME a = b PROVE FALSE
    OBVIOUS
  <2>2. c = c + 1
    BY <1>3, <1>6, <2>1, KidSlots
  <2> QED BY <1>3, <2>2
<1>8. a # n /\ b # n /\ h[a] = h[b] /\ h[n] = h[a] + 1
  BY <1>2, <1>5
<1> DEFINE na == t.nodes[a]
           nb == t.nodes[b]
           ka == Size(t, a)
           kb == Size(t, b)
           w == Pair(t, n, c)
           P == PairEnds(B[a], B[b])
           e == t.nodes[n].elems[c]
<1>9. /\ na \in Node234 /\ NodeFits(h, B, G, na, B[a], h[a]) /\ Bounds(B[a], ka)
      /\ nb \in Node234 /\ NodeFits(h, B, G, nb, B[b], h[b]) /\ Bounds(B[b], kb)
  BY <1>1, <1>5, NodeIs
<1>10. Exact(na, B[a]) /\ Exact(nb, B[b])
  BY <1>5 DEF Counted
<1>11. /\ ka \in Nat /\ kb \in Nat /\ ka >= 1 /\ kb >= 1
       /\ Lo(B[a]) = B[a][1] /\ Hi(B[a]) = B[a][ka + 2] /\ Lo(B[b]) = B[b][1] /\ Hi(B[b]) = B[b][kb + 2]
  BY <1>9, ZenonT(40) DEF Bounds
<1>12. B[a][ka + 2] = B[b][1] /\ B[b][1] = B[n][c + 1]
  BY <1>4, <1>11 DEF IsKid
<1>13. e = G[B[b][1]] /\ e \in Int
  <2>1. e = G[B[n][c + 1]]
    BY <1>2 DEF NodeFits, Size
  <2>2. t.nodes[n].elems \in Seq(Int)
    BY <1>2 DEF Node234
  <2>3. e \in Int
    BY <2>2, SMTT(40) DEF Size
  <2> QED BY <1>12, <2>1, <2>3
<1>14. /\ Len(na.elems) = ka /\ Len(na.kids) = ka + 1 /\ Len(na.counts) = ka + 1
       /\ Len(nb.elems) = kb /\ Len(nb.kids) = kb + 1 /\ Len(nb.counts) = kb + 1
       /\ DOMAIN na.kids = 1 .. ka + 1 /\ DOMAIN nb.kids = 1 .. kb + 1
  BY <1>9, PartsAre, ZenonT(40) DEF Size
<1>15. w = PairNode(n, na, nb, e) /\ w.parent = n
  BY DEF Pair, PairNode
<1> HIDE DEF na, nb, ka, kb, w, P, e
<1>16. IsPair(w, P, na, nb, e, B[a], B[b], ka, kb)
  <2>1. IsPair(PairNode(n, na, nb, e), PairEnds(B[a], B[b]), na, nb, e, B[a], B[b], ka, kb)
    BY <1>2, <1>9, <1>11, <1>12, <1>13, <1>14, PairIs, ZenonT(40)
  <2> QED BY <1>15, <2>1 DEF P
<1>17. IsPairFit(h, B, G, w, P, h[a])
  <2>1. HasSize(na, ka) /\ HasSize(nb, kb)
    BY <1>14, SMTT(40) DEF HasSize
  <2>2. NodeFits(h, B, G, nb, B[b], h[a])
    BY <1>8, <1>9, ZenonT(40)
  <2> QED BY <1>9, <1>10, <1>11, <1>12, <1>13, <1>16, <2>1, <2>2, PairFits, ZenonT(40)
<1>18. ToSet(w.kids) = Kids(t, a) \cup Kids(t, b)
  <2>1. ToSet(w.kids) = ToSet(na.kids) \cup ToSet(nb.kids)
    <3>1. AllKids(w, na, nb)
      BY <1>11, <1>14, <1>16, PairKids, ZenonT(40)
    <3> QED BY <3>1, ZenonT(40) DEF AllKids
  <2> QED BY <2>1 DEF Kids, na, nb
<1>19. Lo(P) = Lo(B[a]) /\ Hi(P) = Hi(B[b])
  <2>1. /\ Len(P) = ka + kb + 3
        /\ \A j \in 1 .. ka + 2 : P[j] = B[a][j]
        /\ \A j \in 1 .. kb + 2 : P[ka + 1 + j] = B[b][j]
    BY <1>16 DEF IsPair
  <2>2. 1 \in 1 .. ka + 2 /\ kb + 2 \in 1 .. kb + 2 /\ ka + 1 + (kb + 2) = ka + kb + 3
    BY <1>11
  <2>3. P[1] = B[a][1] /\ P[ka + kb + 3] = B[b][kb + 2]
    BY <2>1, <2>2
  <2> QED BY <1>11, <2>1, <2>3, ZenonT(40) DEF Lo, Hi
<1>20. \A k \in Nodes(t) : ~ (k \in Kids(t, a) /\ k \in Kids(t, b))
  BY <1>1, <1>5, <1>7 DEF Linked, Kids
<1> QED BY <1>2, <1>4, <1>5, <1>6, <1>7, <1>8, <1>11, <1>15, <1>16, <1>17, <1>18, <1>19, <1>20, ZenonT(40) DEF PairAt, na, nb, ka, kb, w, P, e

\* A node is replaced by another one.
SetIn(u, n, node) == [u EXCEPT !.nodes = [@ EXCEPT ![n] = node]]
\* SetIn does what IsSetIn says.
LEMMA SetInIs ==
    ASSUME NEW u, IsTree(u), NEW n \in Nodes(u), NEW node \in Node234
    PROVE  IsSetIn(SetIn(u, n, node), u, n, node)
<1> DEFINE v == SetIn(u, n, node)
<1>1. /\ u.nodes \in [Nodes(u) -> Node234] /\ u \in [root : Nat, nodes : Heaps(Nodes(u)), sorted : BOOLEAN]
      /\ Nodes(u) \in SUBSET (Nat \ {0}) /\ IsFiniteSet(Nodes(u))
  BY DEF IsTree, Heaps
<1>2. /\ v.nodes = [u.nodes EXCEPT ![n] = node] /\ v.root = u.root /\ v.sorted = u.sorted
      /\ DOMAIN v.nodes = DOMAIN u.nodes
  BY <1>1 DEF SetIn
<1>3. Nodes(v) = Nodes(u) /\ v.nodes[n] = node /\ \A z \in Nodes(u) : z # n => v.nodes[z] = u.nodes[z]
  <2> HIDE DEF v
  <2> QED BY <1>1, <1>2 DEF Nodes
<1>4. IsTree(v)
  <2>1. v.nodes \in Heaps(Nodes(v))
    <3> HIDE DEF v
    <3> QED BY <1>1, <1>2, <1>3 DEF Heaps
  <2>2. v \in [root : Nat, nodes : Heaps(Nodes(v)), sorted : BOOLEAN]
    <3>1. v = [u EXCEPT !.nodes = v.nodes]
      BY <1>1, <1>2 DEF SetIn
    <3> HIDE DEF v
    <3> QED BY <1>1, <1>2, <2>1, <3>1
  <2> HIDE DEF v
  <2> QED BY <1>1, <1>3, <2>2 DEF IsTree
<1>5. Nodes(v) = Nodes(u) \cup {n}
  BY <1>3
<1> HIDE DEF v
<1>6. IsSetIn(v, u, n, node)
  BY <1>2, <1>3, <1>4, <1>5 DEF IsSetIn
<1> QED BY <1>6 DEF v

\* One element and two counts of a node are set.
Reset(u, n, c, e, cl, cr) ==
    [u EXCEPT !.nodes[n].elems[c] = e, !.nodes[n].counts[c] = cl, !.nodes[n].counts[c + 1] = cr]
IsReset(x, y, k, c, e, cl, cr) ==
    /\ x \in Node234 /\ x.kids = y.kids
    /\ Len(x.elems) = k /\ Len(x.kids) = k + 1 /\ Len(x.counts) = k + 1
    /\ \A j \in 1 .. k : x.elems[j] = IF j = c THEN e ELSE y.elems[j]
    /\ \A j \in 1 .. k + 1 : x.counts[j] = IF j = c THEN cl ELSE IF j = c + 1 THEN cr ELSE y.counts[j]
ResetTree(v, u, n, k, c, e, cl, cr) ==
    /\ IsTree(v) /\ Nodes(v) = Nodes(u) /\ v.root = u.root /\ v.sorted = u.sorted
    /\ IsReset(v.nodes[n], u.nodes[n], k, c, e, cl, cr) /\ v.nodes[n].parent = u.nodes[n].parent
    /\ \A y \in Nodes(u) : y # n => v.nodes[y] = u.nodes[y]

\* Setting an element and the counts on both sides of it does what ResetTree says.
LEMMA ResetIs ==
    ASSUME NEW u, IsTree(u), NEW n \in Nodes(u), NEW k \in Nat,
           Len(u.nodes[n].elems) = k, Len(u.nodes[n].kids) = k + 1, Len(u.nodes[n].counts) = k + 1,
           NEW c \in 1 .. k, NEW e \in Int, NEW cl \in Int, NEW cr \in Int
    PROVE  ResetTree(Reset(u, n, c, e, cl, cr), u, n, k, c, e, cl, cr)
<1>1. u.nodes[n] \in Node234
  BY TreeNodes DEF NodesAre
<1>2. PICK node : node = u.nodes[n]
  OBVIOUS
<1>3. node \in Node234 /\ Len(node.elems) = k /\ Len(node.kids) = k + 1 /\ Len(node.counts) = k + 1
  BY <1>1, <1>2
<1> DEFINE es == [node.elems EXCEPT ![c] = e]
           f1 == [node.counts EXCEPT ![c] = cl]
           f2 == [f1 EXCEPT ![c + 1] = cr]
           n1 == [node EXCEPT !.elems = es]
           n2 == [n1 EXCEPT !.counts = f1]
           n3 == [n2 EXCEPT !.counts = f2]
           v1 == [u EXCEPT !.nodes[n].elems[c] = e]
           v2 == [v1 EXCEPT !.nodes[n].counts[c] = cl]
           v3 == [v2 EXCEPT !.nodes[n].counts[c + 1] = cr]
<1>4. Reset(u, n, c, e, cl, cr) = v3
  BY DEF Reset
<1>5. es \in Seq(Int) /\ Len(es) = k /\ \A j \in 1 .. k : es[j] = IF j = c THEN e ELSE node.elems[j]
  <2>1. node.elems \in Seq(Int)
    BY <1>3 DEF Node234
  <2> QED BY <1>3, <2>1
<1>6. f1 \in Seq(Int) /\ Len(f1) = k + 1 /\ \A j \in 1 .. k + 1 : f1[j] = IF j = c THEN cl ELSE node.counts[j]
  <2>1. node.counts \in Seq(Int)
    BY <1>3 DEF Node234
  <2> QED BY <1>3, <2>1
<1>7. f2 \in Seq(Int) /\ Len(f2) = k + 1 /\ \A j \in 1 .. k + 1 : f2[j] = IF j = c + 1 THEN cr ELSE f1[j]
  <2> HIDE DEF f1
  <2> QED BY <1>6
<1>8. n1 \in Node234 /\ n1.elems = es /\ n1.kids = node.kids /\ n1.counts = node.counts /\ n1.parent = node.parent
  <2> HIDE DEF es
  <2> QED BY <1>3, <1>5 DEF Node234
<1>9. n2 \in Node234 /\ n2.elems = es /\ n2.kids = node.kids /\ n2.counts = f1 /\ n2.parent = node.parent
  <2> HIDE DEF es, f1, n1
  <2> QED BY <1>6, <1>8 DEF Node234
<1>10. n3 \in Node234 /\ n3.elems = es /\ n3.kids = node.kids /\ n3.counts = f2 /\ n3.parent = node.parent
  <2> HIDE DEF es, f1, f2, n1, n2
  <2> QED BY <1>7, <1>9 DEF Node234
<1>11. v1 = SetIn(u, n, n1)
  BY <1>2 DEF SetIn
<1> HIDE DEF v1
<1>12. IsSetIn(v1, u, n, n1)
  BY <1>8, <1>11, SetInIs
<1>13. /\ IsTree(v1) /\ Nodes(v1) = Nodes(u) /\ v1.root = u.root /\ v1.sorted = u.sorted /\ v1.nodes[n] = n1
       /\ \A y \in Nodes(u) : y # n => v1.nodes[y] = u.nodes[y]
  BY <1>12 DEF IsSetIn
<1>14. v2 = SetIn(v1, n, n2)
  <2>1. n2 = [n1 EXCEPT !.counts = [n1.counts EXCEPT ![c] = cl]]
    BY <1>8
  <2>2. v1.nodes[n] = n1
    BY <1>13
  <2> HIDE DEF n1, n2
  <2> QED BY <2>1, <2>2 DEF SetIn
<1> HIDE DEF v2
<1>15. IsSetIn(v2, v1, n, n2)
  <2>1. IsSetIn(SetIn(v1, n, n2), v1, n, n2)
    BY <1>9, <1>13, SetInIs
  <2> QED BY <1>14, <2>1
<1>16. /\ IsTree(v2) /\ Nodes(v2) = Nodes(u) /\ v2.root = u.root /\ v2.sorted = u.sorted /\ v2.nodes[n] = n2
       /\ \A y \in Nodes(u) : y # n => v2.nodes[y] = u.nodes[y]
  BY <1>13, <1>15 DEF IsSetIn
<1>17. v3 = SetIn(v2, n, n3)
  <2>1. n3 = [n2 EXCEPT !.counts = [n2.counts EXCEPT ![c + 1] = cr]]
    BY <1>9
  <2>2. v2.nodes[n] = n2
    BY <1>16
  <2> HIDE DEF n2, n3
  <2> QED BY <2>1, <2>2 DEF SetIn
<1> HIDE DEF v3
<1>18. IsSetIn(v3, v2, n, n3)
  <2>1. IsSetIn(SetIn(v2, n, n3), v2, n, n3)
    BY <1>10, <1>16, SetInIs
  <2> QED BY <1>17, <2>1
<1>19. /\ IsTree(v3) /\ Nodes(v3) = Nodes(u) /\ v3.root = u.root /\ v3.sorted = u.sorted /\ v3.nodes[n] = n3
       /\ \A y \in Nodes(u) : y # n => v3.nodes[y] = u.nodes[y]
  BY <1>16, <1>18 DEF IsSetIn
<1> HIDE DEF es, f1, f2, n1, n2, n3
<1>20. ASSUME NEW j \in 1 .. k + 1
       PROVE  f2[j] = IF j = c THEN cl ELSE IF j = c + 1 THEN cr ELSE node.counts[j]
  <2>1. f2[j] = IF j = c + 1 THEN cr ELSE f1[j]
    BY <1>7
  <2>2. f1[j] = IF j = c THEN cl ELSE node.counts[j]
    BY <1>6
  <2> QED BY <2>1, <2>2
<1>21. IsReset(n3, node, k, c, e, cl, cr)
  BY <1>3, <1>5, <1>7, <1>10, <1>20 DEF IsReset
<1>22. ResetTree(v3, u, n, k, c, e, cl, cr)
  BY <1>2, <1>10, <1>19, <1>21 DEF ResetTree
<1> QED BY <1>4, <1>22

\* What IsReset says is about content only.
LEMMA ResetContent ==
    ASSUME NEW x, NEW y, NEW k, NEW c, NEW e, NEW cl, NEW cr, IsReset(x, y, k, c, e, cl, cr),
           NEW x2 \in Node234, Content(x2, x), NEW y2, Content(y2, y)
    PROVE  IsReset(x2, y2, k, c, e, cl, cr)
BY DEF IsReset, Content

\* Case 3a: some elements and kids have moved between a and b.
IsShifted(x, t, n, k, c, a, b, va, vb, e, cl, cr) ==
    /\ IsTree(x) /\ Nodes(x) = Nodes(t) /\ x.root = t.root /\ x.sorted = t.sorted
    /\ Content(x.nodes[a], va) /\ Content(x.nodes[b], vb)
    /\ IsReset(x.nodes[n], t.nodes[n], k, c, e, cl, cr)
    /\ \A y \in Nodes(t) : y # a /\ y # b /\ y # n => Content(x.nodes[y], t.nodes[y])
    /\ \A y \in Nodes(t) :
         x.nodes[y].parent = IF y \in ToSet(vb.kids) THEN b ELSE IF y \in ToSet(va.kids) THEN a
                             ELSE t.nodes[y].parent

\* What Shifted does with the kids a and b and their pair w.
ShiftOf(t, n, c, k, a, b, w) ==
    LET u == SetNode(SetNode(t, a, Cutting(w, n, 1, k)), b, Cutting(w, n, k + 2, Len(w.elems)))
    IN  Adopted(Adopted(Reset(u, n, c, w.elems[k + 1], countnode234(u, a), countnode234(u, b)), a), b)

\* What Shifted makes, with its two halves named.
LEMMA ShiftedAs ==
    ASSUME NEW t, NEW n, NEW c, NEW k
    PROVE  Shifted(t, n, c, k)
           = ShiftOf(t, n, c, k, t.nodes[n].kids[c], t.nodes[n].kids[c + 1], Pair(t, n, c))
BY ZenonT(40) DEF Shifted, ShiftOf, Reset, Cutting

\* Shifted leaves the first k elements of the pair in a, the others in b, and element
\* k + 1 of the pair in n.
LEMMA ShiftedIs ==
    ASSUME NEW t, NEW h, NEW B, NEW G, NEW n, NEW c, NEW a, NEW b, NEW w, NEW P,
           PairAt(t, h, B, G, n, c, a, b, w, P),
           NEW k \in Nat, NEW total, total = Len(w.elems),
           NEW va \in Node234, va = Cutting(w, n, 1, k), NEW vb \in Node234, vb = Cutting(w, n, k + 2, total),
           NEW e \in Int, e = w.elems[k + 1],
           NEW pa \in Seq(Nat), NodeFits(h, B, G, va, pa, h[a]), Exact(va, pa),
           NEW pb \in Seq(Nat), NodeFits(h, B, G, vb, pb, h[a]), Exact(vb, pb)
    PROVE  IsShifted(Shifted(t, n, c, k), t, n, Size(t, n), c, a, b, va, vb, e, Length(pa), Length(pb))
<1> DEFINE s == SetNode(t, a, va)
           u == SetNode(s, b, vb)
           cl == Length(pa)
           cr == Length(pb)
           v == Reset(u, n, c, e, cl, cr)
           x1 == Adopted(v, a)
           x == Adopted(x1, b)
<1>0. a = t.nodes[n].kids[c] /\ b = t.nodes[n].kids[c + 1] /\ w = Pair(t, n, c)
  BY ZenonT(40) DEF PairAt, IsKid
<1>1. /\ Standing(t, h, B, G) /\ n \in Nodes(t) /\ c \in 1 .. Size(t, n)
      /\ a \in Nodes(t) /\ b \in Nodes(t) /\ t.nodes[a].parent = n /\ t.nodes[b].parent = n
      /\ a # b /\ a # n /\ b # n /\ a \in Nat /\ b \in Nat /\ NULL \notin Nodes(t)
  BY ZenonT(40) DEF PairAt, IsKid
<1>2. IsTree(t) /\ a \in Nat \ {0} /\ b \in Nat \ {0}
  BY <1>1 DEF Standing, NULL
<1>3. /\ t.nodes[n] \in Node234 /\ Size(t, n) \in Nat
      /\ Len(t.nodes[n].kids) = Size(t, n) + 1 /\ Len(t.nodes[n].counts) = Size(t, n) + 1
  <2>1. NodeFits(h, B, G, t.nodes[n], B[n], h[n]) /\ t.nodes[n] \in Node234
    BY <1>1, NodeIs DEF Standing
  <2> QED BY <2>1, PartsAre DEF Size
<1>4. va.parent = n /\ vb.parent = n
  BY DEF Cutting
<1>5. IsSetIn(s, t, a, va)
  BY <1>2, SetIs, SMTT(40)
<1> HIDE DEF s
<1>6. /\ IsTree(s) /\ Nodes(s) = Nodes(t) /\ s.root = t.root /\ s.sorted = t.sorted /\ s.nodes[a] = va
      /\ \A y \in Nodes(t) : y # a => s.nodes[y] = t.nodes[y]
  BY <1>1, <1>5, ZenonT(40) DEF IsSetIn
<1>7. IsSetIn(u, s, b, vb)
  BY <1>2, <1>6, SetIs, SMTT(40)
<1> HIDE DEF u
<1>8. /\ IsTree(u) /\ Nodes(u) = Nodes(t) /\ u.root = t.root /\ u.sorted = t.sorted
      /\ u.nodes[a] = va /\ u.nodes[b] = vb
      /\ \A y \in Nodes(t) : y # a /\ y # b => u.nodes[y] = t.nodes[y]
  BY <1>1, <1>6, <1>7, ZenonT(40) DEF IsSetIn
<1>9. countnode234(u, a) = cl /\ countnode234(u, b) = cr
  <2>1. Content(u.nodes[a], va) /\ Content(u.nodes[b], vb) /\ a \in Nodes(u) /\ b \in Nodes(u)
    BY <1>1, <1>8, ZenonT(40) DEF Content
  <2>2. IsTree(u) /\ NodeFits(h, B, G, va, pa, h[a]) /\ Exact(va, pa) /\ NodeFits(h, B, G, vb, pb, h[a]) /\ Exact(vb, pb)
    BY <1>8
  <2> QED BY ONLY <2>1, <2>2, CountOf, va \in Node234, vb \in Node234, pa \in Seq(Nat), pb \in Seq(Nat)
<1>10. Shifted(t, n, c, k) = x
  <2>1. Shifted(t, n, c, k) = ShiftOf(t, n, c, k, a, b, w)
    BY <1>0, ShiftedAs, ZenonT(40)
  <2>2. ShiftOf(t, n, c, k, a, b, w)
        = Adopted(Adopted(Reset(u, n, c, w.elems[k + 1], countnode234(u, a), countnode234(u, b)), a), b)
    BY ZenonT(40) DEF ShiftOf, u, s
  <2> QED BY <1>9, <2>1, <2>2, ZenonT(40)
<1> HIDE DEF cl, cr
<1>11. ResetTree(v, u, n, Size(t, n), c, e, cl, cr)
  <2>1. u.nodes[n] = t.nodes[n] /\ n \in Nodes(u)
    BY <1>1, <1>8, ZenonT(40)
  <2>2. cl \in Int /\ cr \in Int
    <3>1. Lo(pa) \in Nat /\ Hi(pa) \in Nat /\ Lo(pb) \in Nat /\ Hi(pb) \in Nat
      BY BoundsAre, EndsAre
    <3> QED BY ONLY <3>1 DEF cl, cr, Length
  <2> QED BY <1>1, <1>3, <1>8, <2>1, <2>2, ResetIs, ZenonT(40) DEF Size
<1> HIDE DEF v
<1>12. /\ IsTree(v) /\ Nodes(v) = Nodes(t) /\ v.root = t.root /\ v.sorted = t.sorted
       /\ IsReset(v.nodes[n], t.nodes[n], Size(t, n), c, e, cl, cr) /\ v.nodes[n].parent = t.nodes[n].parent
       /\ v.nodes[a] = va /\ v.nodes[b] = vb
       /\ \A y \in Nodes(t) : y # a /\ y # b /\ y # n => v.nodes[y] = t.nodes[y]
  BY <1>1, <1>8, <1>11, ZenonT(40) DEF ResetTree
<1>13. IsAdoptedBy(x1, v, a)
  BY <1>1, <1>12, AdoptedBy, ZenonT(40)
<1> HIDE DEF x1
<1>14. /\ IsTree(x1) /\ Nodes(x1) = Nodes(t) /\ x1.root = t.root /\ x1.sorted = t.sorted
       /\ \A y \in Nodes(t) :
            /\ Content(x1.nodes[y], v.nodes[y])
            /\ x1.nodes[y].parent = IF y \in ToSet(va.kids) THEN a ELSE v.nodes[y].parent
  BY <1>12, <1>13, SMTT(40) DEF IsAdoptedBy
<1>15. x1.nodes[b].kids = vb.kids
  BY <1>1, <1>12, <1>14, ZenonT(40) DEF Content
<1>16. IsAdoptedBy(x, x1, b)
  BY <1>1, <1>14, AdoptedBy
<1> HIDE DEF x
<1>17. /\ IsTree(x) /\ Nodes(x) = Nodes(t) /\ x.root = t.root /\ x.sorted = t.sorted
       /\ \A y \in Nodes(t) :
            /\ Content(x.nodes[y], x1.nodes[y])
            /\ x.nodes[y].parent = IF y \in ToSet(vb.kids) THEN b ELSE x1.nodes[y].parent
  BY <1>14, <1>15, <1>16 DEF IsAdoptedBy
<1>18. \A y \in Nodes(t) : Content(x.nodes[y], v.nodes[y])
  BY <1>14, <1>17, SMTT(40) DEF Content
<1>19. Content(x.nodes[a], va) /\ Content(x.nodes[b], vb)
  BY <1>1, <1>12, <1>18, ZenonT(40)
<1>20. IsReset(x.nodes[n], t.nodes[n], Size(t, n), c, e, cl, cr)
  <2>1. x.nodes[n] \in Node234 /\ Content(x.nodes[n], v.nodes[n])
    BY <1>1, <1>17, <1>18, TreeNodes DEF NodesAre
  <2>2. Content(t.nodes[n], t.nodes[n])
    BY DEF Content
  <2> QED BY <1>12, <2>1, <2>2, ResetContent, ZenonT(40)
<1>21. \A y \in Nodes(t) : v.nodes[y].parent = t.nodes[y].parent
  BY <1>1, <1>4, <1>12, ZenonT(40)
<1>22. IsShifted(x, t, n, Size(t, n), c, a, b, va, vb, e, cl, cr)
  BY <1>12, <1>14, <1>17, <1>18, <1>19, <1>20, <1>21 DEF IsShifted
<1> QED BY <1>10, <1>22, SMTT(40) DEF cl, cr

\* The kids of a node cut at element k + 1 are those of the two parts.
AreCutKids(w, va, vb, k, total) ==
    /\ ToSet(w.kids) = ToSet(va.kids) \cup ToSet(vb.kids)
    /\ \A y \in ToSet(va.kids) : \E c \in 1 .. k + 1 : y = w.kids[c]
    /\ \A y \in ToSet(vb.kids) : \E c \in k + 2 .. total + 1 : y = w.kids[c]
\* The kids left of the cut go to one part, those right of it to the other.
LEMMA CutKids ==
    ASSUME NEW w \in Node234, NEW total, total \in Nat, Len(w.kids) = total + 1, NEW k, k \in Nat, k >= 1, k + 2 <= total,
           NEW va, NEW vb, NEW pa, NEW pb, NEW P,
           IsCutting(va, pa, w, P, 1, k), IsCutting(vb, pb, w, P, k + 2, total)
    PROVE  AreCutKids(w, va, vb, k, total)
<1>1. w.kids \in Seq(Nat) /\ va.kids \in Seq(Nat) /\ vb.kids \in Seq(Nat)
  BY DEF Node234, IsCutting
<1>2. PICK la, lb : la = k + 1 /\ lb = total - k
  OBVIOUS
<1>3. la = k - 1 + 2 /\ lb = total - (k + 2) + 2 /\ la \in Nat /\ lb \in Nat
  BY <1>2
<1>4. /\ Len(va.kids) = la /\ Len(vb.kids) = lb
      /\ \A c \in 1 .. la : va.kids[c] = w.kids[1 + c - 1]
      /\ \A c \in 1 .. lb : vb.kids[c] = w.kids[k + 2 + c - 1]
  BY <1>3 DEF IsCutting
<1>5. DOMAIN w.kids = 1 .. total + 1 /\ DOMAIN va.kids = 1 .. la /\ DOMAIN vb.kids = 1 .. lb
  BY <1>1, <1>4, SMTT(40)
<1>6. ASSUME NEW c, c \in 1 .. la PROVE va.kids[c] = w.kids[c] /\ c \in 1 .. k + 1 /\ c \in 1 .. total + 1
  <2>1. 1 + c - 1 = c /\ c \in 1 .. k + 1 /\ c \in 1 .. total + 1
    BY ONLY <1>2, <1>6, k \in Nat, total \in Nat, k + 2 <= total
  <2> QED BY <1>4, <1>6, <2>1
<1>7. ASSUME NEW c, c \in 1 .. lb
      PROVE  \E d \in k + 2 .. total + 1 : vb.kids[c] = w.kids[d] /\ d \in 1 .. total + 1
  <2>1. PICK d : d = k + 2 + c - 1
    OBVIOUS
  <2>2. d \in k + 2 .. total + 1 /\ d \in 1 .. total + 1
    BY ONLY <1>2, <1>7, <2>1, k \in Nat, total \in Nat, k + 2 <= total
  <2>3. vb.kids[c] = w.kids[d]
    BY <1>4, <1>7, <2>1
  <2> QED BY <2>2, <2>3
<1>8. ASSUME NEW c, c \in 1 .. total + 1, NEW y, y = w.kids[c]
      PROVE  y \in ToSet(va.kids) \/ y \in ToSet(vb.kids)
  <2>1. CASE c <= k + 1
    <3>1. c \in 1 .. la
      BY ONLY <1>2, <1>8, <2>1, k \in Nat, total \in Nat
    <3>2. y = va.kids[c]
      BY <1>6, <1>8, <3>1
    <3> QED BY <1>5, <3>1, <3>2 DEF ToSet
  <2>2. CASE c > k + 1
    <3>1. PICK d : d = c - k - 1
      OBVIOUS
    <3>2. d \in 1 .. lb /\ k + 2 + d - 1 = c
      BY ONLY <1>2, <1>8, <2>2, <3>1, k \in Nat, total \in Nat
    <3>3. vb.kids[d] = y
      BY <1>4, <1>8, <3>2
    <3> QED BY <1>5, <3>2, <3>3 DEF ToSet
  <2>3. c <= k + 1 \/ c > k + 1
    BY ONLY <1>8, k \in Nat, total \in Nat
  <2> QED BY <2>1, <2>2, <2>3
<1>9. ASSUME NEW y, y \in ToSet(va.kids) PROVE y \in ToSet(w.kids) /\ \E c \in 1 .. k + 1 : y = w.kids[c]
  <2>1. PICK c \in 1 .. la : y = va.kids[c]
    BY <1>5, <1>9 DEF ToSet
  <2>2. y = w.kids[c] /\ c \in 1 .. k + 1 /\ c \in 1 .. total + 1
    BY <1>6, <2>1
  <2> QED BY <1>5, <2>2 DEF ToSet
<1>10. ASSUME NEW y, y \in ToSet(vb.kids) PROVE y \in ToSet(w.kids) /\ \E c \in k + 2 .. total + 1 : y = w.kids[c]
  <2>1. PICK c \in 1 .. lb : y = vb.kids[c]
    BY <1>5, <1>10 DEF ToSet
  <2>2. PICK d \in k + 2 .. total + 1 : y = w.kids[d] /\ d \in 1 .. total + 1
    BY <1>7, <2>1
  <2> QED BY <1>5, <2>2 DEF ToSet
<1>11. ASSUME NEW y, y \in ToSet(w.kids) PROVE y \in ToSet(va.kids) \cup ToSet(vb.kids)
  <2>1. PICK c \in 1 .. total + 1 : y = w.kids[c]
    BY <1>5, <1>11 DEF ToSet
  <2> QED BY <1>8, <2>1
<1>12. ToSet(w.kids) = ToSet(va.kids) \cup ToSet(vb.kids)
  BY <1>9, <1>10, <1>11
<1> QED BY <1>9, <1>10, <1>12 DEF AreCutKids

\* Kids of a node that fits are in one slot each.
LEMMA FitKids ==
    ASSUME NEW h, NEW B, NEW G, NEW w, NEW P, NEW x, NodeFits(h, B, G, w, P, x), NEW total, Bounds(P, total),
           total = Len(w.elems), NEW c, c \in 1 .. total + 1, NEW d, d \in 1 .. total + 1, c < d, NEW y, y \in DOMAIN h,
           y # NULL, y = w.kids[c], y = w.kids[d]
    PROVE  FALSE
<1>1. KidFits(h, B, y, x, P[c], P[c + 1]) /\ KidFits(h, B, y, x, P[d], P[d + 1])
  BY DEF NodeFits
<1>2. Lo(B[y]) = P[c] /\ Lo(B[y]) = P[d]
  BY <1>1 DEF KidFits
<1>3. total \in Nat /\ \A i, j \in 1 .. total + 2 : i < j => P[i] < P[j]
  BY DEF Bounds
<1>4. c \in 1 .. total + 2 /\ d \in 1 .. total + 2
  BY <1>3
<1>5. P[c] < P[d] /\ P[c] \in Nat
  BY <1>3, <1>4 DEF Bounds
<1> QED BY <1>2, <1>5

\* A pair of nodes a and b is cut at position mid into va and vb.
PairCut(t, h, B, G, a, b, va, vb, pa, pb, e, mid, k, r) ==
    /\ va \in Node234 /\ vb \in Node234 /\ pa \in Seq(Nat) /\ pb \in Seq(Nat)
    /\ NodeFits(h, B, G, va, pa, h[a]) /\ Exact(va, pa)
    /\ NodeFits(h, B, G, vb, pb, h[a]) /\ Exact(vb, pb)
    /\ Lo(pa) = Lo(B[a]) /\ Hi(pa) = mid /\ Lo(pb) = mid /\ Hi(pb) = Hi(B[b])
    /\ mid \in Nat /\ Lo(B[a]) < mid /\ mid < Hi(B[b]) /\ e = G[mid] /\ e \in Int
    /\ HasSize(va, k) /\ HasSize(vb, r)
    /\ ToSet(va.kids) \cup ToSet(vb.kids) = Kids(t, a) \cup Kids(t, b)
    /\ \A y \in Nodes(t) : ~ (y \in ToSet(va.kids) /\ y \in ToSet(vb.kids))
\* A pair of enough elements can be cut anywhere inside: both parts fit.
LEMMA PairCutIs ==
    ASSUME NEW t, NEW h, NEW B, NEW G, NEW n, NEW c, NEW a, NEW b, NEW w, NEW P,
           PairAt(t, h, B, G, n, c, a, b, w, P),
           NEW total, total = Len(w.elems), NEW k, k \in Nat, k >= 1, NEW r, r \in Nat, r >= 1, total = k + 1 + r
    PROVE  PairCut(t, h, B, G, a, b, Cutting(w, n, 1, k), Cutting(w, n, k + 2, total),
                   Borders(P, 1, k), Borders(P, k + 2, total), w.elems[k + 1], P[k + 2], k, r)
<1> DEFINE va == Cutting(w, n, 1, k)
           vb == Cutting(w, n, k + 2, total)
           pa == Borders(P, 1, k)
           pb == Borders(P, k + 2, total)
           e == w.elems[k + 1]
           mid == P[k + 2]
           x == h[a]
<1>1. /\ Standing(t, h, B, G) /\ NodeFits(h, B, G, w, P, x) /\ Exact(w, P) /\ n \in Nat
      /\ ToSet(w.kids) = Kids(t, a) \cup Kids(t, b)
      /\ Lo(P) = Lo(B[a]) /\ Hi(P) = Hi(B[b])
  BY ZenonT(40) DEF PairAt, IsPairFit
<1>2. w \in Node234 /\ P \in Seq(Nat)
  BY ZenonT(40) DEF PairAt, IsPair
<1>3. Bounds(P, total)
  BY <1>1, <1>2, BoundsAre
<1>4. total \in Nat /\ 1 \in 1 .. total /\ k \in 1 .. total /\ k + 2 \in 1 .. total /\ total \in k + 2 .. total
  BY ONLY k \in Nat, k >= 1, r \in Nat, r >= 1, total = k + 1 + r
<1>5. IsCutting(va, pa, w, P, 1, k)
  <2>1. 1 \in 1 .. Len(w.elems) /\ k \in 1 .. Len(w.elems)
    BY <1>4
  <2> QED BY ONLY <1>1, <1>2, <2>1, CuttingIs
<1>6. IsCutting(vb, pb, w, P, k + 2, total)
  <2>1. k + 2 \in 1 .. Len(w.elems) /\ total \in k + 2 .. Len(w.elems)
    BY <1>4
  <2> QED BY ONLY <1>1, <1>2, <2>1, CuttingIs
<1> HIDE DEF va, vb, pa, pb
<1>7. NodeFits(h, B, G, va, pa, x) /\ Exact(va, pa)
  <2>1. 1 \in 1 .. Len(w.elems) /\ k \in 1 .. Len(w.elems)
    BY <1>4
  <2>2. NodeFits(h, B, G, va, pa, x) /\ (Exact(w, P) => Exact(va, pa))
    BY ONLY <1>1, <1>2, <1>5, <2>1, CuttingFits
  <2> QED BY <1>1, <2>2
<1>8. NodeFits(h, B, G, vb, pb, x) /\ Exact(vb, pb)
  <2>1. k + 2 \in 1 .. Len(w.elems) /\ total \in k + 2 .. Len(w.elems)
    BY <1>4
  <2>2. NodeFits(h, B, G, vb, pb, x) /\ (Exact(w, P) => Exact(vb, pb))
    BY ONLY <1>1, <1>2, <1>6, <2>1, CuttingFits
  <2> QED BY <1>1, <2>2
<1>9. /\ va \in Node234 /\ pa \in Seq(Nat) /\ Lo(pa) = P[1] /\ Hi(pa) = mid
      /\ vb \in Node234 /\ pb \in Seq(Nat) /\ Lo(pb) = mid /\ Hi(pb) = P[total + 2]
  BY <1>5, <1>6 DEF IsCutting
<1>10. HasSize(va, k) /\ HasSize(vb, r)
  <2>1. Len(va.elems) = k - 1 + 1 /\ Len(vb.elems) = total - (k + 2) + 1
    BY <1>5, <1>6 DEF IsCutting
  <2>2. k - 1 + 1 = k /\ total - (k + 2) + 1 = r
    BY ONLY k \in Nat, r \in Nat, total = k + 1 + r
  <2> QED BY <2>1, <2>2 DEF HasSize
<1>11. P[1] = Lo(P) /\ P[total + 2] = Hi(P)
  BY <1>3 DEF Bounds
<1>12. mid \in Nat /\ Lo(P) < mid /\ mid < Hi(P)
  <2>1. PICK d : d = k + 1
    OBVIOUS
  <2>2. d \in 1 .. total /\ d + 1 = k + 2
    BY ONLY <2>1, k \in Nat, r \in Nat, r >= 1, total = k + 1 + r
  <2>3. P[d + 1] \in Nat /\ Lo(P) < P[d + 1] /\ P[d + 1] < Hi(P)
    BY <1>3, <2>2, InnerIs
  <2> QED BY <2>2, <2>3
<1>13. e = G[mid] /\ e \in Int
  <2>1. PICK d : d = k + 1
    OBVIOUS
  <2>2. d \in 1 .. total /\ d + 1 = k + 2
    BY ONLY <2>1, k \in Nat, r \in Nat, r >= 1, total = k + 1 + r
  <2>3. w.elems[d] = G[P[d + 1]]
    BY <1>1, <2>2 DEF NodeFits
  <2>4. w.elems \in Seq(Int)
    BY <1>2 DEF Node234
  <2>5. w.elems[d] \in Int
    <3>1. d \in DOMAIN w.elems
      BY ONLY <2>2, <2>4, total = Len(w.elems)
    <3> QED BY ONLY <2>4, <3>1
  <2> QED BY <2>1, <2>2, <2>3, <2>5
<1>14. AreCutKids(w, va, vb, k, total)
  <2>1. Len(w.kids) = total + 1
    BY <1>1 DEF NodeFits
  <2>2. k + 2 <= total
    BY ONLY k \in Nat, r \in Nat, r >= 1, total = k + 1 + r
  <2> QED BY <1>2, <1>4, <1>5, <1>6, <2>1, <2>2, CutKids
<1>15. ToSet(va.kids) \cup ToSet(vb.kids) = Kids(t, a) \cup Kids(t, b)
  BY <1>1, <1>14 DEF AreCutKids
<1>16. ASSUME NEW y \in Nodes(t), y \in ToSet(va.kids), y \in ToSet(vb.kids) PROVE FALSE
  <2>1. PICK i \in 1 .. k + 1 : y = w.kids[i]
    BY <1>14, <1>16 DEF AreCutKids
  <2>2. PICK j \in k + 2 .. total + 1 : y = w.kids[j]
    BY <1>14, <1>16 DEF AreCutKids
  <2>3. i \in 1 .. total + 1 /\ j \in 1 .. total + 1 /\ i < j
    BY ONLY <2>1, <2>2, k \in Nat, r \in Nat, r >= 1, total = k + 1 + r
  <2>4. y # NULL /\ y \in DOMAIN h
    BY <1>1, NodeIs DEF Standing
  <2> QED BY <1>1, <1>3, <2>1, <2>2, <2>3, <2>4, FitKids
<1> HIDE DEF e, mid, x
<1>17. PairCut(t, h, B, G, a, b, va, vb, pa, pb, e, mid, k, r)
  BY <1>1, <1>7, <1>8, <1>9, <1>10, <1>11, <1>12, <1>13, <1>15, <1>16 DEF PairCut, x
<1> QED BY <1>17, SMTT(40) DEF va, vb, pa, pb, e, mid

\* An item in place of another.
IsInPlace(w, S, s, i, x) ==
    /\ w \in Seq(S) /\ Len(w) = Len(s)
    /\ \A j \in 1 .. Len(s) : w[j] = IF j = i THEN x ELSE s[j]
\* ReplaceAt does what IsInPlace says.
LEMMA PutInPlace ==
    ASSUME NEW S, NEW s, s \in Seq(S), NEW i, i \in 1 .. Len(s), NEW x, x \in S
    PROVE  IsInPlace(ReplaceAt(s, i, x), S, s, i, x)
<1>1. /\ ReplaceAt(s, i, x) \in Seq(S) /\ Len(ReplaceAt(s, i, x)) = Len(s)
      /\ \A j \in 1 .. Len(s) : ReplaceAt(s, i, x)[j] = IF j = i THEN x ELSE s[j]
  BY ReplacedAt
<1> QED BY <1>1 DEF IsInPlace

\* One boundary of a node moves.
IsMoved(b2, b, k, c, mid) ==
    /\ b2 \in Seq(Nat) /\ Len(b2) = k + 2 /\ Lo(b2) = Lo(b) /\ Hi(b2) = Hi(b)
    /\ \A j \in 1 .. k + 2 : b2[j] = IF j = c + 1 THEN mid ELSE b[j]
    /\ \A i, j \in 1 .. k + 2 : i < j => b2[i] < b2[j]
\* Moving a boundary between its neighbours leaves the boundaries rising.
LEMMA MovedIs ==
    ASSUME NEW k, NEW b, Bounds(b, k), NEW c, c \in 1 .. k, NEW mid, mid \in Nat, b[c] < mid, mid < b[c + 2]
    PROVE  IsMoved(ReplaceAt(b, c + 1, mid), b, k, c, mid)
<1> DEFINE b2 == ReplaceAt(b, c + 1, mid)
<1>1. /\ k \in Nat /\ k >= 1 /\ b \in Seq(Nat) /\ Len(b) = k + 2 /\ Lo(b) = b[1] /\ Hi(b) = b[k + 2]
      /\ \A j \in 1 .. k + 2 : b[j] \in Nat
      /\ \A i, j \in 1 .. k + 2 : i < j => b[i] < b[j]
  BY DEF Bounds
<1>2. c \in Nat /\ c + 1 \in 1 .. k + 2 /\ c \in 1 .. k + 2 /\ c + 2 \in 1 .. k + 2
  BY <1>1
<1>3. /\ b2 \in Seq(Nat) /\ Len(b2) = Len(b)
      /\ \A j \in 1 .. Len(b) : b2[j] = IF j = c + 1 THEN mid ELSE b[j]
  <2>1. PICK d : d = c + 1
    OBVIOUS
  <2>2. d \in 1 .. Len(b)
    BY <1>1, <1>2, <2>1
  <2>3. b \in Seq(Nat)
    BY <1>1
  <2>4. IsInPlace(ReplaceAt(b, d, mid), Nat, b, d, mid)
    <3>1. PICK S, m : S = Nat /\ m = mid
      OBVIOUS
    <3>2. b \in Seq(S) /\ m \in S
      BY <2>3, <3>1
    <3>3. IsInPlace(ReplaceAt(b, d, m), S, b, d, m)
      BY ONLY <2>2, <3>2, PutInPlace
    <3> QED BY <3>1, <3>3
  <2> QED BY <2>1, <2>4 DEF IsInPlace
<1> HIDE DEF b2
<1>4. /\ b2 \in Seq(Nat) /\ Len(b2) = k + 2
      /\ \A j \in 1 .. k + 2 : b2[j] = IF j = c + 1 THEN mid ELSE b[j]
  BY <1>1, <1>3
<1>5. b2[1] = b[1] /\ b2[k + 2] = b[k + 2]
  <2>1. 1 \in 1 .. k + 2 /\ k + 2 \in 1 .. k + 2 /\ 1 # c + 1 /\ k + 2 # c + 1
    BY <1>1
  <2> QED BY <1>4, <2>1
<1>6. ASSUME NEW i, i \in 1 .. k + 2, NEW j, j \in 1 .. k + 2, i < j PROVE b2[i] < b2[j]
  <2>1. /\ b2[i] = IF i = c + 1 THEN mid ELSE b[i]
        /\ b2[j] = IF j = c + 1 THEN mid ELSE b[j]
    BY <1>4, <1>6
  <2>2. b[i] \in Nat /\ b[j] \in Nat /\ b[i] < b[j] /\ b[c] \in Nat /\ b[c + 2] \in Nat
    BY <1>1, <1>2, <1>6
  <2>3. CASE i = c + 1
    <3>1. j >= c + 2
      BY ONLY <1>2, <1>6, <2>3, <1>1
    <3>2. j > c + 2 => b[c + 2] < b[j]
      BY <1>1, <1>2, <1>6
    <3>3. j = c + 2 \/ j > c + 2
      BY ONLY <3>1, <1>6, <1>2, <1>1
    <3>4. b[c + 2] <= b[j]
      BY <2>2, <3>2, <3>3
    <3>5. j # c + 1
      BY ONLY <3>1, <1>6, <1>2, <1>1
    <3>6. b2[i] = mid /\ b2[j] = b[j]
      BY <2>1, <2>3, <3>5
    <3> QED BY ONLY <3>6, <3>4, <2>2, mid \in Nat, mid < b[c + 2]
  <2>4. CASE j = c + 1
    <3>1. i <= c
      BY ONLY <1>2, <1>6, <2>4, <1>1
    <3>2. i < c => b[i] < b[c]
      BY <1>1, <1>2, <1>6
    <3>3. i = c \/ i < c
      BY ONLY <3>1, <1>6, <1>2, <1>1
    <3>4. b[i] <= b[c]
      BY <2>2, <3>2, <3>3
    <3>5. i # c + 1
      BY ONLY <3>1, <1>6, <1>2, <1>1
    <3>6. b2[j] = mid /\ b2[i] = b[i]
      BY <2>1, <2>4, <3>5
    <3> QED BY ONLY <3>6, <3>4, <2>2, mid \in Nat, b[c] < mid
  <2>5. CASE i # c + 1 /\ j # c + 1
    BY <2>1, <2>2, <2>5
  <2> QED BY <2>3, <2>4, <2>5
<1>7. IsMoved(b2, b, k, c, mid)
  BY <1>1, <1>4, <1>5, <1>6 DEF IsMoved, Lo, Hi
<1> QED BY <1>7 DEF b2

\* The layout after elements have moved between kids c and c + 1, a and b, of n.
ShiftEnds(t, B, n, c, a, b, pa, pb, mid) ==
    [y \in Nodes(t) |-> IF y = a THEN pa ELSE IF y = b THEN pb
                        ELSE IF y = n THEN ReplaceAt(B[n], c + 1, mid) ELSE B[y]]
IsShiftLayout(t, B, n, c, a, b, pa, pb, mid, B2) ==
    /\ B2 \in [Nodes(t) -> Seq(Nat)]
    /\ B2[a] = pa /\ B2[b] = pb /\ IsMoved(B2[n], B[n], Size(t, n), c, mid)
    /\ \A y \in Nodes(t) : y # a /\ y # b /\ y # n => B2[y] = B[y]
\* The layout is the one expected.
LEMMA ShiftLayout ==
    ASSUME NEW t, NEW h, NEW B, NEW G, NEW n, NEW c, NEW a, NEW b, NEW w, NEW P,
           PairAt(t, h, B, G, n, c, a, b, w, P),
           NEW va, NEW vb, NEW pa, NEW pb, NEW e, NEW mid, NEW k, NEW r,
           PairCut(t, h, B, G, a, b, va, vb, pa, pb, e, mid, k, r)
    PROVE  IsShiftLayout(t, B, n, c, a, b, pa, pb, mid, ShiftEnds(t, B, n, c, a, b, pa, pb, mid))
<1> DEFINE B2 == ShiftEnds(t, B, n, c, a, b, pa, pb, mid)
<1>1. /\ Standing(t, h, B, G) /\ n \in Nodes(t) /\ c \in 1 .. Size(t, n)
      /\ IsKid(t, h, B, n, c, a) /\ IsKid(t, h, B, n, c + 1, b) /\ a # b /\ a # n /\ b # n
  BY ZenonT(40) DEF PairAt
<1>2. /\ pa \in Seq(Nat) /\ pb \in Seq(Nat) /\ mid \in Nat /\ Lo(B[a]) < mid /\ mid < Hi(B[b])
  BY DEF PairCut
<1>3. Bounds(B[n], Size(t, n)) /\ B \in [Nodes(t) -> Seq(Nat)]
  BY <1>1, NodeIs DEF Standing, Layout
<1>4. a \in Nodes(t) /\ b \in Nodes(t) /\ Lo(B[a]) = B[n][c] /\ Hi(B[b]) = B[n][c + 1 + 1]
  BY <1>1 DEF IsKid
<1>5. c + 1 + 1 = c + 2
  BY <1>1
<1>6. IsMoved(ReplaceAt(B[n], c + 1, mid), B[n], Size(t, n), c, mid)
  <2>1. B[n][c] < mid /\ mid < B[n][c + 2]
    BY <1>2, <1>4, <1>5
  <2> QED BY <1>1, <1>2, <1>3, <2>1, MovedIs
<1>7. /\ B2[a] = pa /\ B2[b] = pb /\ B2[n] = ReplaceAt(B[n], c + 1, mid)
      /\ \A y \in Nodes(t) : y # a /\ y # b /\ y # n => B2[y] = B[y]
  BY <1>1, <1>4 DEF ShiftEnds
<1>8. B2 \in [Nodes(t) -> Seq(Nat)]
  <2>1. B2 = [y \in Nodes(t) |-> B2[y]]
    BY DEF ShiftEnds
  <2>2. ASSUME NEW y \in Nodes(t) PROVE B2[y] \in Seq(Nat)
    <3>1. B[y] \in Seq(Nat)
      BY <1>3
    <3>2. ReplaceAt(B[n], c + 1, mid) \in Seq(Nat)
      BY <1>6 DEF IsMoved
    <3> HIDE DEF B2
    <3> QED BY <1>2, <1>7, <3>1, <3>2
  <2> HIDE DEF B2
  <2> QED BY <2>1, <2>2
<1> HIDE DEF B2
<1>9. IsShiftLayout(t, B, n, c, a, b, pa, pb, mid, B2)
  BY <1>6, <1>7, <1>8 DEF IsShiftLayout
<1> QED BY <1>9 DEF B2

\* Only the two kids and their parent have new kids.
LEMMA BorrowRelinks ==
    ASSUME NEW t, NEW h, NEW B, NEW G, NEW n, NEW c, NEW a, NEW b, NEW w, NEW P,
           PairAt(t, h, B, G, n, c, a, b, w, P),
           NEW va, NEW vb, NEW pa, NEW pb, NEW e, NEW mid, NEW k, NEW r,
           PairCut(t, h, B, G, a, b, va, vb, pa, pb, e, mid, k, r), NEW d, NEW cl, NEW cr,
           NEW x, IsShifted(x, t, n, d, c, a, b, va, vb, e, cl, cr)
    PROVE  Relinks(t, x, {a, b, n})
<1> DEFINE E == {a, b, n}
           low == ToSet(va.kids)
           high == ToSet(vb.kids)
<1>1. /\ Standing(t, h, B, G) /\ n \in Nodes(t) /\ a \in Nodes(t) /\ b \in Nodes(t)
      /\ a # b /\ a # n /\ b # n /\ NULL \notin Nodes(t)
      /\ t.nodes[a].parent = n /\ t.nodes[b].parent = n
  BY ZenonT(40) DEF PairAt, IsKid
<1>2. /\ low \cup high = Kids(t, a) \cup Kids(t, b)
      /\ \A y \in Nodes(t) : ~ (y \in low /\ y \in high)
  BY DEF PairCut
<1>3. /\ Nodes(x) = Nodes(t) /\ x.root = t.root
      /\ \A y \in Nodes(t) : y # a /\ y # b /\ y # n => Content(x.nodes[y], t.nodes[y])
      /\ \A y \in Nodes(t) :
           x.nodes[y].parent = IF y \in high THEN b ELSE IF y \in low THEN a ELSE t.nodes[y].parent
  BY DEF IsShifted
<1>4. Kids(x, a) = low /\ Kids(x, b) = high /\ Kids(x, n) = Kids(t, n)
  BY DEF IsShifted, Content, IsReset, Kids
<1>5. \A y \in Nodes(t) : \A y2 \in Kids(t, y) : y2 # NULL =>
         /\ y2 \in Nodes(t) /\ t.nodes[y2].parent = y /\ y2 # t.root /\ y2 # y
         /\ \A z \in Nodes(t) : y2 \in Kids(t, z) => z = y
  BY <1>1, KidFacts
<1> HIDE DEF low, high
<1>6. E \in SUBSET Nodes(x) /\ Nodes(x) \ E = Nodes(t) \ {a, b, n}
  BY <1>1, <1>3
<1>7. \A y \in Nodes(x) \ E : y \in Nodes(t) /\ x.nodes[y].kids = t.nodes[y].kids
  BY <1>3, <1>6 DEF Content
<1>8. ASSUME NEW y \in E, NEW j \in Nodes(x), j \in Kids(x, y)
      PROVE  /\ x.nodes[j].parent = y /\ j # x.root
             /\ \A z \in Nodes(x) \ E : j \notin Kids(t, z)
  <2>1. j \in Nodes(t) /\ j # NULL
    BY <1>1, <1>3, <1>8
  <2>2. CASE y = n
    <3>1. j \in Kids(t, n)
      BY <1>4, <1>8, <2>2
    <3>2. t.nodes[j].parent = n /\ j # t.root /\ \A z \in Nodes(t) : j \in Kids(t, z) => z = n
      BY <1>1, <1>5, <2>1, <3>1
    <3>3. j \notin Kids(t, a) /\ j \notin Kids(t, b)
      BY <1>1, <3>2
    <3>4. j \notin low /\ j \notin high
      BY <1>2, <3>3
    <3> QED BY <1>3, <1>6, <2>1, <2>2, <3>2, <3>4
  <2>3. CASE y = a \/ y = b
    <3>1. j \in low \/ j \in high
      BY <1>4, <1>8, <2>3
    <3>2. PICK z \in {a, b} : j \in Kids(t, z)
      BY <1>2, <3>1
    <3>3. j # t.root /\ \A z2 \in Nodes(t) : j \in Kids(t, z2) => z2 = z
      BY <1>1, <1>5, <2>1, <3>2
    <3>4. \A z2 \in Nodes(x) \ E : j \notin Kids(t, z2)
      BY <1>6, <3>2, <3>3
    <3>5. x.nodes[j].parent = y
      <4>1. CASE y = a
        <5>1. j \in low /\ j \notin high
          BY <1>2, <1>4, <1>8, <2>1, <4>1
        <5> QED BY <1>3, <2>1, <4>1, <5>1
      <4>2. CASE y = b
        <5>1. j \in high
          BY <1>4, <1>8, <4>2
        <5> QED BY <1>3, <2>1, <4>2, <5>1
      <4> QED BY <2>3, <4>1, <4>2
    <3> QED BY <1>3, <3>3, <3>4, <3>5
  <2> QED BY <2>2, <2>3
<1>9. ASSUME NEW j \in Nodes(x), \A y \in E : j \notin Kids(x, y)
      PROVE  IF j = x.root THEN x.nodes[j].parent = NULL /\ \A z \in Nodes(x) \ E : j \notin Kids(t, z)
             ELSE /\ j \in Nodes(t) /\ x.nodes[j].parent = t.nodes[j].parent
                  /\ t.nodes[j].parent \in Nodes(x) \ E
  <2>1. j \notin high /\ j \notin low /\ j \notin Kids(t, n)
    BY <1>4, <1>9
  <2>2. j \in Nodes(t) /\ x.nodes[j].parent = t.nodes[j].parent /\ j # NULL
    BY <1>1, <1>3, <2>1
  <2>3. j \notin Kids(t, a) /\ j \notin Kids(t, b)
    BY <1>2, <2>1
  <2>4. Linked(t)
    BY <1>1 DEF Standing
  <2>5. CASE j = x.root
    <3>1. t.nodes[j].parent = NULL
      BY <1>3, <2>2, <2>4, <2>5 DEF Linked
    <3>2. \A z \in Nodes(t) : j \notin Kids(t, z)
      BY <1>3, <1>5, <2>2, <2>5
    <3> QED BY <1>6, <2>2, <2>5, <3>1, <3>2
  <2>6. CASE j # x.root
    <3>1. t.nodes[j].parent \in Nodes(t)
      BY <1>3, <2>2, <2>4, <2>6 DEF Linked
    <3>2. \A y \in Nodes(t) : t.nodes[j].parent = y => j \in Kids(t, y)
      BY <2>2, <2>4 DEF Linked, Kids
    <3>3. t.nodes[j].parent # a /\ t.nodes[j].parent # b /\ t.nodes[j].parent # n
      BY <1>1, <2>1, <2>3, <3>2
    <3>4. t.nodes[j].parent \in Nodes(x) \ E
      BY <1>6, <3>1, <3>3
    <3> QED BY <2>2, <2>6, <3>4
  <2> QED BY <2>5, <2>6
<1> HIDE DEF E
<1>10. Relinks(t, x, E)
  BY <1>6, <1>7, <1>8, <1>9, SMTT(40) DEF Relinks
<1> QED BY <1>10, SMTT(40) DEF E

\* Kids of n other than a and b, and kids of other nodes, stay where they were.
LEMMA BorrowStays ==
    ASSUME NEW t, NEW h, NEW B, NEW G, NEW n, NEW c, NEW a, NEW b, NEW w, NEW P,
           PairAt(t, h, B, G, n, c, a, b, w, P),
           NEW pa, NEW pb, NEW mid, NEW B2, IsShiftLayout(t, B, n, c, a, b, pa, pb, mid, B2),
           NEW y \in Nodes(t), y # a, y # b
    PROVE  Stays(h, B, h, B2, y)
<1>1. DOMAIN h = Nodes(t)
  BY ZenonT(40) DEF PairAt, Standing, Layout
<1>2. Lo(B2[n]) = Lo(B[n]) /\ Hi(B2[n]) = Hi(B[n]) /\ (y # n => B2[y] = B[y])
  BY DEF IsShiftLayout, IsMoved
<1> QED BY <1>1, <1>2 DEF Stays

\* All other nodes are as they were, and the root still covers the list.
LEMMA BorrowKept ==
    ASSUME NEW t, NEW h, NEW B, NEW G, NEW n, NEW c, NEW a, NEW b, NEW w, NEW P,
           PairAt(t, h, B, G, n, c, a, b, w, P),
           NEW va, NEW vb, NEW pa, NEW pb, NEW e, NEW mid, NEW d, NEW cl, NEW cr,
           NEW x, IsShifted(x, t, n, d, c, a, b, va, vb, e, cl, cr),
           NEW B2, IsShiftLayout(t, B, n, c, a, b, pa, pb, mid, B2)
    PROVE  Kept(t, h, B, x, h, B2, {a, b, n}) /\ Rooted(x, h, B2, G)
<1>1. /\ Standing(t, h, B, G) /\ n \in Nodes(t) /\ a \in Nodes(t) /\ b \in Nodes(t)
      /\ t.nodes[a].parent = n /\ t.nodes[b].parent = n /\ NULL \notin Nodes(t)
  BY ZenonT(40) DEF PairAt, IsKid
<1>2. /\ Nodes(x) = Nodes(t) /\ x.root = t.root
      /\ \A y \in Nodes(t) : y # a /\ y # b /\ y # n => Content(x.nodes[y], t.nodes[y])
  BY DEF IsShifted
<1>3. \A y \in Nodes(t) : y # a /\ y # b /\ y # n => B2[y] = B[y]
  BY DEF IsShiftLayout
<1>4. \A y \in Nodes(t) : y # a /\ y # b => Stays(h, B, h, B2, y)
  BY BorrowStays
<1>5. a # t.root /\ b # t.root
  BY <1>1 DEF Standing, Linked
<1>6. ASSUME NEW y \in Nodes(x) \ {a, b, n}
      PROVE  /\ Content(x.nodes[y], t.nodes[y]) /\ h[y] = h[y] /\ B2[y] = B[y]
             /\ \A j \in Kids(t, y) : j \in Nodes(t) => Stays(h, B, h, B2, j)
  <2>1. ASSUME NEW j \in Kids(t, y), j \in Nodes(t) PROVE Stays(h, B, h, B2, j)
    <3>1. t.nodes[j].parent = y
      BY <1>1, <1>2, <1>6, <2>1, KidFacts
    <3>2. j # a /\ j # b
      BY <1>1, <1>6, <3>1
    <3> QED BY <1>4, <2>1, <3>2
  <2> QED BY <1>2, <1>3, <1>6, <2>1
<1>7. t.root \in Nodes(t) /\ Layout(t, h, B, G)
  BY <1>1, NodeIs DEF Standing
<1>8. Lo(B2[t.root]) = 0 /\ Hi(B2[t.root]) = Len(G) + 1 /\ \A y \in Nodes(t) : h[y] <= h[t.root]
  <2>1. Stays(h, B, h, B2, t.root)
    BY <1>4, <1>5, <1>7
  <2>2. t.root # NULL
    BY <1>1, <1>7
  <2> QED BY <1>7, <2>1, <2>2 DEF Layout, Stays
<1>9. Rooted(x, h, B2, G)
  BY <1>1, <1>2, <1>7, <1>8 DEF Rooted
<1> QED BY <1>6, <1>9, SMTT(40) DEF Kept

IsResetFit(h, B2, G, x, b2, y) == NodeFits(h, B2, G, x, b2, y)
\* A node fits with another element between two kids that meet there,
LEMMA ResetFits ==
    ASSUME NEW h, NEW B, NEW G, NEW node \in Node234, NEW b, NEW y, NodeFits(h, B, G, node, b, y),
           NEW k, k \in Nat, k = Len(node.elems), Bounds(b, k), NEW c, c \in 1 .. k,
           NEW e, NEW cl, NEW cr, NEW x, IsReset(x, node, k, c, e, cl, cr), NEW mid, mid \in Nat, e = G[mid],
           NEW b2, IsMoved(b2, b, k, c, mid), NEW B2,
           KidFits(h, B2, node.kids[c], y, b[c], mid), KidFits(h, B2, node.kids[c + 1], y, mid, b[c + 2]),
           \A i \in 1 .. k + 1 : i # c /\ i # c + 1 => KidFits(h, B2, node.kids[i], y, b[i], b[i + 1])
    PROVE  IsResetFit(h, B2, G, x, b2, y)
<1>1. /\ Len(x.elems) = k /\ Len(x.kids) = k + 1 /\ Len(x.counts) = k + 1 /\ x.kids = node.kids
      /\ \A j \in 1 .. k : x.elems[j] = IF j = c THEN e ELSE node.elems[j]
  BY DEF IsReset
<1>2. /\ b2 \in Seq(Nat) /\ Len(b2) = k + 2 /\ Lo(b2) = Lo(b) /\ Hi(b2) = Hi(b)
      /\ \A j \in 1 .. k + 2 : b2[j] = IF j = c + 1 THEN mid ELSE b[j]
      /\ \A i, j \in 1 .. k + 2 : i < j => b2[i] < b2[j]
  BY DEF IsMoved
<1>3. k >= 1 /\ Hi(b) <= Len(G) + 1 /\ \A j \in 1 .. k : node.elems[j] = G[b[j + 1]]
  BY DEF NodeFits
<1>4. Rising(b2)
  <2>1. DOMAIN b2 = 1 .. k + 2
    BY <1>2
  <2> QED BY <1>2, <2>1 DEF Rising
<1>5. ASSUME NEW i, i \in 1 .. k + 1 PROVE KidFits(h, B2, x.kids[i], y, b2[i], b2[i + 1])
  <2>1. /\ b2[i] = IF i = c + 1 THEN mid ELSE b[i]
        /\ b2[i + 1] = IF i = c THEN mid ELSE b[i + 1]
    <3>1. i \in 1 .. k + 2 /\ i + 1 \in 1 .. k + 2 /\ (i + 1 = c + 1 <=> i = c)
      BY ONLY <1>5, k \in Nat, c \in 1 .. k
    <3> QED BY <1>2, <3>1
  <2>2. CASE i = c
    <3>1. b2[i] = b[c] /\ b2[i + 1] = mid
      <4>1. i # c + 1
        BY ONLY <2>2, c \in 1 .. k, k \in Nat
      <4> QED BY <2>1, <2>2, <4>1
    <3> QED BY <1>1, <2>2, <3>1
  <2>3. CASE i = c + 1
    <3>1. i # c /\ i + 1 = c + 2
      BY ONLY <2>3, c \in 1 .. k, k \in Nat
    <3>2. b2[i] = mid /\ b2[i + 1] = b[c + 2]
      BY <2>1, <2>3, <3>1
    <3> QED BY <1>1, <2>3, <3>2
  <2>4. CASE i # c /\ i # c + 1
    BY <1>1, <1>5, <2>1, <2>4
  <2> QED BY <2>2, <2>3, <2>4
<1>6. ASSUME NEW i, i \in 1 .. k PROVE x.elems[i] = G[b2[i + 1]]
  <2>1. b2[i + 1] = IF i = c THEN mid ELSE b[i + 1]
    <3>1. i + 1 \in 1 .. k + 2 /\ (i + 1 = c + 1 <=> i = c)
      BY ONLY <1>6, k \in Nat, c \in 1 .. k
    <3> QED BY <1>2, <3>1
  <2>2. x.elems[i] = IF i = c THEN e ELSE node.elems[i]
    BY <1>1, <1>6
  <2>3. node.elems[i] = G[b[i + 1]]
    BY <1>3, <1>6
  <2> QED BY <2>1, <2>2, <2>3
<1>7. NodeFits(h, B2, G, x, b2, y)
  BY <1>1, <1>2, <1>3, <1>4, <1>5, <1>6 DEF NodeFits
<1> QED BY <1>7 DEF IsResetFit

\* and its counts are right if those of the two kids are.
LEMMA ResetCounts ==
    ASSUME NEW node \in Node234, NEW k, k \in Nat, k = Len(node.elems), NEW b, Bounds(b, k),
           Len(node.counts) = k + 1, Exact(node, b), NEW c, c \in 1 .. k,
           NEW e, NEW cl, NEW cr, NEW x, IsReset(x, node, k, c, e, cl, cr), NEW mid,
           NEW b2, IsMoved(b2, b, k, c, mid), cl = mid - b[c] - 1, cr = b[c + 2] - mid - 1
    PROVE  Exact(x, b2)
<1>1. /\ Len(x.counts) = k + 1
      /\ \A j \in 1 .. k + 1 : x.counts[j] = IF j = c THEN cl ELSE IF j = c + 1 THEN cr ELSE node.counts[j]
  BY DEF IsReset
<1>2. \A j \in 1 .. k + 2 : b2[j] = IF j = c + 1 THEN mid ELSE b[j]
  BY DEF IsMoved
<1>3. \A j \in 1 .. k + 1 : node.counts[j] = b[j + 1] - b[j] - 1
  BY DEF Exact
<1>4. ASSUME NEW i, i \in 1 .. k + 1 PROVE x.counts[i] = b2[i + 1] - b2[i] - 1
  <2>1. /\ b2[i] = IF i = c + 1 THEN mid ELSE b[i]
        /\ b2[i + 1] = IF i = c THEN mid ELSE b[i + 1]
    <3>1. i \in 1 .. k + 2 /\ i + 1 \in 1 .. k + 2 /\ (i + 1 = c + 1 <=> i = c)
      BY ONLY <1>4, k \in Nat, c \in 1 .. k
    <3> QED BY <1>2, <3>1
  <2>2. x.counts[i] = IF i = c THEN cl ELSE IF i = c + 1 THEN cr ELSE node.counts[i]
    BY <1>1, <1>4
  <2>3. CASE i = c
    <3>1. i # c + 1
      BY ONLY <2>3, c \in 1 .. k, k \in Nat
    <3> QED BY <2>1, <2>2, <2>3, <3>1
  <2>4. CASE i = c + 1
    <3>1. i # c /\ i + 1 = c + 2
      BY ONLY <2>4, c \in 1 .. k, k \in Nat
    <3> QED BY <2>1, <2>2, <2>4, <3>1
  <2>5. CASE i # c /\ i # c + 1
    <3>1. node.counts[i] = b[i + 1] - b[i] - 1
      BY <1>3, <1>4
    <3> QED BY <2>1, <2>2, <2>5, <3>1
  <2> QED BY <2>3, <2>4, <2>5
<1> QED BY <1>1, <1>4 DEF Exact

\* Both kids fit with what they have now.
LEMMA BorrowPartFits ==
    ASSUME NEW t, NEW h, NEW B, NEW G, NEW n, NEW c, NEW a, NEW b, NEW w, NEW P,
           PairAt(t, h, B, G, n, c, a, b, w, P),
           NEW pa, NEW pb, NEW mid, NEW B2, IsShiftLayout(t, B, n, c, a, b, pa, pb, mid, B2),
           NEW v \in Node234, NEW p \in Seq(Nat), NodeFits(h, B, G, v, p, h[a]),
           ToSet(v.kids) \in SUBSET (Kids(t, a) \cup Kids(t, b)), NEW v2, Content(v2, v)
    PROVE  NodeFits(h, B2, G, v2, p, h[a])
<1>1. /\ Standing(t, h, B, G) /\ n \in Nodes(t) /\ a \in Nodes(t) /\ b \in Nodes(t)
      /\ t.nodes[a].parent = n /\ t.nodes[b].parent = n /\ NULL \notin Nodes(t) /\ a # n /\ b # n
  BY ZenonT(40) DEF PairAt, IsKid
<1>2. DOMAIN h = Nodes(t)
  BY <1>1 DEF Standing, Layout
<1>3. ASSUME NEW j \in Kids(t, a) \cup Kids(t, b), j \in DOMAIN h PROVE Stays(h, B, h, B2, j)
  <2>1. t.nodes[j].parent = a \/ t.nodes[j].parent = b
    BY <1>1, <1>2, <1>3, KidFacts
  <2>2. j # a /\ j # b
    BY <1>1, <2>1
  <2> QED BY <1>2, <1>3, <2>2, BorrowStays
<1>4. DOMAIN v.kids = 1 .. Len(v.elems) + 1
  BY PartsAre
<1>5. \A i \in 1 .. Len(v.elems) + 1 : v.kids[i] \in Kids(t, a) \cup Kids(t, b)
  <2>1. \A i \in 1 .. Len(v.elems) + 1 : v.kids[i] \in ToSet(v.kids)
    BY <1>4 DEF ToSet
  <2> QED BY <2>1
<1>6. \A i \in 1 .. Len(v.elems) + 1 : v.kids[i] \in DOMAIN h => Stays(h, B, h, B2, v.kids[i])
  BY <1>3, <1>5
<1>7. \A i \in 1 .. Len(v.elems) + 1 :
         LET j == v.kids[i]
         IN  j \in DOMAIN h => j \in DOMAIN h /\ h[j] = h[j] /\ Lo(B2[j]) = Lo(B[j]) /\ Hi(B2[j]) = Hi(B[j])
  BY <1>6 DEF Stays
<1> QED BY <1>7, FitsStill, ZenonT(40)

\* So does their parent, with the element that is between them now, and its counts
\* are right.
LEMMA BorrowNodeFits ==
    ASSUME NEW t, NEW h, NEW B, NEW G, NEW n, NEW c, NEW a, NEW b, NEW w, NEW P,
           PairAt(t, h, B, G, n, c, a, b, w, P),
           NEW va, NEW vb, NEW pa, NEW pb, NEW e, NEW mid, NEW k, NEW r,
           PairCut(t, h, B, G, a, b, va, vb, pa, pb, e, mid, k, r),
           NEW x, IsShifted(x, t, n, Size(t, n), c, a, b, va, vb, e, Length(pa), Length(pb)),
           NEW B2, IsShiftLayout(t, B, n, c, a, b, pa, pb, mid, B2)
    PROVE  NodeFits(h, B2, G, x.nodes[n], B2[n], h[n]) /\ Exact(x.nodes[n], B2[n])
<1> DEFINE K == Size(t, n)
           node == t.nodes[n]
<1>1. /\ Standing(t, h, B, G) /\ Counted(t, B) /\ n \in Nodes(t) /\ c \in 1 .. K
      /\ a = node.kids[c] /\ b = node.kids[c + 1] /\ a # NULL /\ b # NULL
      /\ IsKid(t, h, B, n, c, a) /\ IsKid(t, h, B, n, c + 1, b)
      /\ h[a] = h[b] /\ h[n] = h[a] + 1 /\ h[a] \in Nat /\ a \in Nodes(t) /\ b \in Nodes(t)
  BY ZenonT(40) DEF PairAt, IsKid
<1>2. /\ node \in Node234 /\ NodeFits(h, B, G, node, B[n], h[n]) /\ Bounds(B[n], K) /\ K \in Nat /\ K = Len(node.elems)
      /\ DOMAIN h = Nodes(t)
  <2>1. t.nodes[n] \in Node234 /\ NodeFits(h, B, G, t.nodes[n], B[n], h[n]) /\ Bounds(B[n], Size(t, n)) /\ DOMAIN h = Nodes(t)
    BY <1>1, NodeIs DEF Standing
  <2>2. Size(t, n) \in Nat
    BY <2>1 DEF Bounds
  <2> QED BY <2>1, <2>2, ZenonT(40) DEF Size

<1> HIDE DEF K
<1>3. IsReset(x.nodes[n], node, K, c, e, Length(pa), Length(pb))
  BY DEF IsShifted, K
<1>4. IsMoved(B2[n], B[n], K, c, mid) /\ B2[a] = pa /\ B2[b] = pb
  BY DEF IsShiftLayout, K
<1>5. /\ Lo(pa) = Lo(B[a]) /\ Hi(pa) = mid /\ Lo(pb) = mid /\ Hi(pb) = Hi(B[b])
      /\ mid \in Nat /\ e = G[mid]
  BY ZenonT(40) DEF PairCut
<1>6. Lo(B[a]) = B[n][c] /\ Hi(B[b]) = B[n][c + 2]
  <2>1. c + 1 + 1 = c + 2
    BY ONLY <1>1, <1>2, SMTT(40)
  <2> QED BY <1>1, <2>1, ZenonT(40) DEF IsKid
<1>7. h[n] # 0 /\ h[a] = h[n] - 1 /\ h[b] = h[n] - 1
  BY ONLY <1>1, SMTT(40)
<1>8. KidFits(h, B2, node.kids[c], h[n], B[n][c], mid)
  BY <1>1, <1>2, <1>4, <1>5, <1>6, <1>7, ZenonT(40) DEF KidFits
<1>9. KidFits(h, B2, node.kids[c + 1], h[n], mid, B[n][c + 2])
  BY <1>1, <1>2, <1>4, <1>5, <1>6, <1>7, ZenonT(40) DEF KidFits
<1>10. c \in 1 .. K + 1 /\ c + 1 \in 1 .. K + 1
  BY ONLY <1>1, <1>2
<1>11. ASSUME NEW i, i \in 1 .. K + 1, i # c, i # c + 1 PROVE KidFits(h, B2, node.kids[i], h[n], B[n][i], B[n][i + 1])
  <2>1. PICK j : j = node.kids[i]
    BY SMTT(40)
  <2>2. IsKid(t, h, B, n, i, j)
    <3>1. i \in 1 .. Size(t, n) + 1
      BY <1>11, ZenonT(40) DEF K
    <3> QED BY <1>1, <1>7, <2>1, <3>1, KidIs, ZenonT(40) DEF Standing
  <2>3. j # a /\ j # b
    <3>1. ASSUME NEW d, d \in 1 .. K + 1, d # i PROVE node.kids[i] # node.kids[d] \/ node.kids[d] = NULL
      <4>1. i \in 1 .. Size(t, n) + 1 /\ d \in 1 .. Size(t, n) + 1
        BY ONLY <1>11, <3>1, ZenonT(40) DEF K
      <4> QED BY <1>1, <3>1, <4>1, KidSlots, ZenonT(40)
    <3>2. node.kids[i] # node.kids[c] /\ node.kids[i] # node.kids[c + 1]
      BY <1>1, <1>10, <1>11, <3>1
    <3> QED BY <1>1, <2>1, <3>2, SMTT(40)
  <2>4. j \in Nodes(t)
    BY <2>2 DEF IsKid
  <2>5. Stays(h, B, h, B2, j)
    BY <2>3, <2>4, BorrowStays
  <2> QED BY <1>7, <2>1, <2>2, <2>5 DEF KidFits, Stays, IsKid
<1> HIDE DEF K, node
<1>12. IsResetFit(h, B2, G, x.nodes[n], B2[n], h[n])
  <2>1. PICK y, b1, b2, cl, cr, x2 :
            y = h[n] /\ b1 = B[n] /\ b2 = B2[n] /\ cl = Length(pa) /\ cr = Length(pb) /\ x2 = x.nodes[n]
    OBVIOUS
  <2>2. NodeFits(h, B, G, node, b1, y) /\ Bounds(b1, K) /\ IsReset(x2, node, K, c, e, cl, cr) /\ IsMoved(b2, b1, K, c, mid)
    BY <1>2, <1>3, <1>4, <2>1
  <2>3. KidFits(h, B2, node.kids[c], y, b1[c], mid) /\ KidFits(h, B2, node.kids[c + 1], y, mid, b1[c + 2])
    BY <1>8, <1>9, <2>1
  <2>4. \A i \in 1 .. K + 1 : i # c /\ i # c + 1 => KidFits(h, B2, node.kids[i], y, b1[i], b1[i + 1])
    BY <1>11, <2>1
  <2>5. node \in Node234 /\ K \in Nat /\ K = Len(node.elems) /\ c \in 1 .. K /\ mid \in Nat /\ e = G[mid]
    BY <1>1, <1>2, <1>5
  <2>6. IsResetFit(h, B2, G, x2, b2, y)
    BY ONLY <2>2, <2>3, <2>4, <2>5, ResetFits
  <2> QED BY <2>1, <2>6
<1>13. Exact(x.nodes[n], B2[n])
  <2>1. PICK b1, b2, cl, cr, x2 :
            b1 = B[n] /\ b2 = B2[n] /\ cl = Length(pa) /\ cr = Length(pb) /\ x2 = x.nodes[n]
    OBVIOUS
  <2>2. Bounds(b1, K) /\ IsReset(x2, node, K, c, e, cl, cr) /\ IsMoved(b2, b1, K, c, mid)
    BY <1>2, <1>3, <1>4, <2>1
  <2>3. cl = mid - b1[c] - 1 /\ cr = b1[c + 2] - mid - 1
    BY <1>5, <1>6, <2>1, SMTT(40) DEF Length
  <2>4. Len(node.counts) = K + 1 /\ Exact(node, b1)
    BY <1>1, <1>2, <2>1, ZenonT(40) DEF NodeFits, Counted, node
  <2>5. node \in Node234 /\ K \in Nat /\ K = Len(node.elems) /\ c \in 1 .. K
    BY <1>1, <1>2
  <2>6. Exact(x2, b2)
    BY ONLY <2>2, <2>3, <2>4, <2>5, ResetCounts
  <2> QED BY <2>1, <2>6
<1> QED BY <1>12, <1>13, SMTT(40) DEF IsResetFit

\* Kids a and b of n share their elements anew: a has k of them, b has r.
IsBorrow(x, t, h, B2, B, G, n, c, a, b, k, r) ==
    /\ Standing(x, h, B2, G) /\ Counted(x, B2) /\ Sized(x) /\ x.sorted = t.sorted
    /\ Nodes(x) = Nodes(t) /\ x.root = t.root
    /\ Size(x, n) = Size(t, n) /\ Size(x, a) = k /\ Size(x, b) = r /\ a \in Nodes(t) /\ b \in Nodes(t)
    /\ Lo(B2[n]) = Lo(B[n]) /\ Hi(B2[n]) = Hi(B[n])
    /\ Lo(B2[a]) = Lo(B[a]) /\ Hi(B2[a]) = Lo(B2[b]) /\ Hi(B2[b]) = Hi(B[b])
    /\ x.nodes[n].counts[c] = Length(B2[a]) /\ x.nodes[n].kids = t.nodes[n].kids
    /\ k < Size(t, a) => Lo(B2[b]) < Lo(B[b])
    /\ k > Size(t, a) => Hi(B[a]) < Hi(B2[a])
\* Moving elements between two kids leaves a whole tree of the same list.
THEOREM Borrowed ==
    ASSUME NEW t, NEW h, NEW B, NEW G, Standing(t, h, B, G), Counted(t, B), Sized(t), NEW n \in Nodes(t), h[n] # 0,
           NEW c, c \in 1 .. Size(t, n), NEW a, a = t.nodes[n].kids[c], NEW b, b = t.nodes[n].kids[c + 1],
           NEW k, k \in 1 .. 3, NEW r, r \in 1 .. 3, Size(t, a) + Size(t, b) = k + r,
           NEW x, x = Shifted(t, n, c, k)
    PROVE  \E B2 : IsBorrow(x, t, h, B2, B, G, n, c, a, b, k, r)
<1>1. PICK w, P : w = Pair(t, n, c) /\ P = PairEnds(B[a], B[b])
  BY SMTT(40)
<1>2. PairAt(t, h, B, G, n, c, a, b, w, P)
  BY <1>1, PairOf
<1>3. PICK total : total = Len(w.elems)
  OBVIOUS
<1>4. PICK ka, kb : ka = Size(t, a) /\ kb = Size(t, b)
  OBVIOUS
<1>5. ka \in Nat /\ kb \in Nat /\ total = ka + kb + 1 /\ k \in Nat /\ k >= 1 /\ r \in Nat /\ r >= 1
  <2>1. IsPair(w, P, t.nodes[a], t.nodes[b], t.nodes[n].elems[c], B[a], B[b], ka, kb) /\ ka \in Nat /\ kb \in Nat
    BY <1>2, <1>4, ZenonT(40) DEF PairAt
  <2>2. total = ka + kb + 1
    BY <1>3, <2>1, ZenonT(40) DEF IsPair
  <2> QED BY <2>1, <2>2
<1>6. total = k + 1 + r /\ k + 2 <= total
  <2>1. ka + kb = k + r
    BY <1>4
  <2> QED BY ONLY <1>5, <2>1
<1>7. PICK va, vb, pa, pb, e, mid :
         /\ va = Cutting(w, n, 1, k) /\ vb = Cutting(w, n, k + 2, total)
         /\ pa = Borders(P, 1, k) /\ pb = Borders(P, k + 2, total)
         /\ e = w.elems[k + 1] /\ mid = P[k + 2]
  OBVIOUS
<1>8. PairCut(t, h, B, G, a, b, va, vb, pa, pb, e, mid, k, r)
  BY <1>2, <1>3, <1>5, <1>6, <1>7, PairCutIs, ZenonT(40)
<1>9. /\ va \in Node234 /\ vb \in Node234 /\ pa \in Seq(Nat) /\ pb \in Seq(Nat) /\ e \in Int
      /\ NodeFits(h, B, G, va, pa, h[a]) /\ Exact(va, pa)
      /\ NodeFits(h, B, G, vb, pb, h[a]) /\ Exact(vb, pb)
      /\ Lo(pa) = Lo(B[a]) /\ Hi(pa) = mid /\ Lo(pb) = mid /\ Hi(pb) = Hi(B[b])
      /\ HasSize(va, k) /\ HasSize(vb, r)
      /\ ToSet(va.kids) \cup ToSet(vb.kids) = Kids(t, a) \cup Kids(t, b)
  BY <1>8, ZenonT(40) DEF PairCut
<1>10. IsShifted(x, t, n, Size(t, n), c, a, b, va, vb, e, Length(pa), Length(pb))
  BY <1>2, <1>3, <1>5, <1>7, <1>9, ShiftedIs
<1>11. PICK B2 : B2 = ShiftEnds(t, B, n, c, a, b, pa, pb, mid)
  OBVIOUS
<1>12. IsShiftLayout(t, B, n, c, a, b, pa, pb, mid, B2)
  BY <1>2, <1>8, <1>11, ShiftLayout, SMTT(40)
<1>13. /\ IsTree(x) /\ Nodes(x) = Nodes(t) /\ x.root = t.root /\ x.sorted = t.sorted
       /\ Content(x.nodes[a], va) /\ Content(x.nodes[b], vb)
       /\ IsReset(x.nodes[n], t.nodes[n], Size(t, n), c, e, Length(pa), Length(pb))
       /\ \A y \in Nodes(t) : y # a /\ y # b /\ y # n => Content(x.nodes[y], t.nodes[y])
  BY <1>10, ZenonT(40) DEF IsShifted
<1>14. /\ B2 \in [Nodes(t) -> Seq(Nat)] /\ B2[a] = pa /\ B2[b] = pb /\ IsMoved(B2[n], B[n], Size(t, n), c, mid)
       /\ \A y \in Nodes(t) : y # a /\ y # b /\ y # n => B2[y] = B[y]
  BY <1>12 DEF IsShiftLayout
<1>15. /\ a \in Nodes(t) /\ b \in Nodes(t) /\ h[b] = h[a] /\ h \in [Nodes(t) -> Nat]
       /\ Lo(B[b]) = Hi(B[a])
  <2>1. /\ a \in Nodes(t) /\ b \in Nodes(t) /\ h[b] = h[a] /\ Standing(t, h, B, G)
        /\ Hi(B[a]) = B[n][c + 1] /\ Lo(B[b]) = B[n][c + 1]
    BY <1>2, ZenonT(40) DEF PairAt, IsKid
  <2> QED BY <2>1, SMTT(40) DEF Standing, Layout
<1>16. NodeFits(h, B2, G, x.nodes[a], pa, h[a]) /\ NodeFits(h, B2, G, x.nodes[b], pb, h[a])
  <2>1. ToSet(va.kids) \in SUBSET (Kids(t, a) \cup Kids(t, b)) /\ ToSet(vb.kids) \in SUBSET (Kids(t, a) \cup Kids(t, b))
    BY <1>9
  <2>2. PICK xa, xb : xa = x.nodes[a] /\ xb = x.nodes[b]
    BY ZenonT(40)
  <2>3. Content(xa, va) /\ Content(xb, vb)
    BY <1>13, <2>2, ZenonT(40)
  <2>4. NodeFits(h, B2, G, xa, pa, h[a])
    BY ONLY <1>2, <1>9, <1>12, <2>1, <2>3, BorrowPartFits
  <2>5. NodeFits(h, B2, G, xb, pb, h[a])
    BY ONLY <1>2, <1>9, <1>12, <2>1, <2>3, BorrowPartFits, ZenonT(40)
  <2> QED BY <2>2, <2>4, <2>5, ZenonT(40)
<1>17. NodeFits(h, B2, G, x.nodes[n], B2[n], h[n]) /\ Exact(x.nodes[n], B2[n])
  BY <1>2, <1>8, <1>10, <1>12, BorrowNodeFits
<1>18. Standing(x, h, B2, G)
  <2>1. Relinks(t, x, {a, b, n})
    BY <1>2, <1>8, <1>10, BorrowRelinks, ZenonT(40)
  <2>2. Kept(t, h, B, x, h, B2, {a, b, n}) /\ Rooted(x, h, B2, G)
    BY <1>2, <1>10, <1>12, BorrowKept, SMTT(40)
  <2>3. \A y \in {a, b, n} : NodeFits(h, B2, G, x.nodes[y], B2[y], h[y])
    BY <1>14, <1>15, <1>16, <1>17, ZenonT(40)
  <2>4. Rebuilt(t, h, B, x, h, B2, {a, b, n}, G)
    BY <1>13, <1>14, <1>15, <2>1, <2>2, <2>3, ZenonT(40) DEF Rebuilt
  <2> QED BY <2>4, RebuiltStands, SMTT(40)
<1>19. Counted(x, B2)
  <2>1. Exact(x.nodes[a], B2[a]) /\ Exact(x.nodes[b], B2[b])
    <3>1. B2[a] = pa /\ B2[b] = pb /\ x.nodes[a].counts = va.counts /\ x.nodes[b].counts = vb.counts
      BY <1>13, <1>14, ZenonT(40) DEF Content
    <3>2. Exact(va, pa) /\ Exact(vb, pb)
      BY <1>9, SMTT(40)
    <3> QED BY ONLY <3>1, <3>2, SMTT(40) DEF Exact
  <2>2. ASSUME NEW y \in Nodes(t), y # a, y # b, y # n PROVE Exact(x.nodes[y], B2[y])
    <3>1. Exact(t.nodes[y], B[y])
      BY DEF Counted
    <3> QED BY <1>13, <1>14, <2>2, <3>1, ZenonT(40) DEF Exact, Content
  <2> QED BY <1>13, <1>17, <2>1, <2>2, ZenonT(40) DEF Counted
<1>20. Size(x, a) = k /\ Size(x, b) = r /\ Size(x, n) = Size(t, n)
  <2>1. Len(x.nodes[a].elems) = k /\ Len(x.nodes[b].elems) = r
    BY <1>9, <1>13, ZenonT(40) DEF Content, HasSize
  <2>2. Len(x.nodes[n].elems) = Size(t, n)
    <3>1. \E f, cl, cr : IsReset(x.nodes[n], t.nodes[n], Size(t, n), c, f, cl, cr)
      BY <1>13, ZenonT(40)
    <3> QED BY ONLY <3>1 DEF IsReset
  <2> QED BY ONLY <2>1, <2>2 DEF Size
<1>21. Sized(x)
  <2>1. ASSUME NEW y \in Nodes(t) PROVE Size(x, y) \in 1 .. 3
    <3>1. Size(t, y) \in 1 .. 3 /\ Size(t, n) \in 1 .. 3
      BY DEF Sized
    <3>2. CASE y = a \/ y = b \/ y = n
      BY <1>20, <3>1, <3>2
    <3>3. CASE y # a /\ y # b /\ y # n
      <4>1. Size(x, y) = Size(t, y)
        BY <1>13, <3>3, ZenonT(40) DEF Content, Size
      <4> QED BY <3>1, <4>1, SMTT(40)
    <3> QED BY <3>2, <3>3
  <2> QED BY <1>13, <2>1 DEF Sized
<1>22. x.nodes[n].counts[c] = Length(B2[a]) /\ x.nodes[n].kids = t.nodes[n].kids
  <2>1. c \in 1 .. Size(t, n) + 1
    BY <1>2, InnerIs, NodeIs, ZenonT(40) DEF PairAt, Standing
  <2> QED BY <1>13, <1>14, <2>1, ZenonT(40) DEF IsReset
<1>23. Lo(B2[n]) = Lo(B[n]) /\ Hi(B2[n]) = Hi(B[n])
  BY <1>14, SMTT(40) DEF IsMoved
<1>24. (k < ka => mid < Lo(B[b])) /\ (k > ka => Lo(B[b]) < mid)
  <2>1. /\ Ascends(P, ka + kb + 3) /\ P[ka + 2] = B[a][ka + 2] /\ Hi(B[a]) = B[a][ka + 2]
    <3>1. IsPair(w, P, t.nodes[a], t.nodes[b], t.nodes[n].elems[c], B[a], B[b], ka, kb)
      BY <1>2, <1>4, ZenonT(40) DEF PairAt
    <3>2. Bounds(B[a], ka) /\ Bounds(B[b], kb)
      BY <1>4, <1>15, NodeIs, ZenonT(40) DEF Standing
    <3>3. Hi(B[a]) = B[a][ka + 2] /\ Lo(B[b]) = B[b][1]
      BY <3>2, ZenonT(40) DEF Bounds
    <3>4. Ascends(P, ka + kb + 3)
      BY <1>5, <1>15, <3>1, <3>2, <3>3, PairRises, ZenonT(40)
    <3>5. ka + 2 \in 1 .. ka + 2
      BY <1>5
    <3> QED BY <3>1, <3>3, <3>4, <3>5, ZenonT(40) DEF IsPair
  <2>2. k + 2 \in 1 .. ka + kb + 3 /\ ka + 2 \in 1 .. ka + kb + 3
    BY ONLY <1>5, <1>6
  <2>3. k < ka => k + 2 < ka + 2
    BY ONLY <1>5
  <2>4. k > ka => ka + 2 < k + 2
    BY ONLY <1>5, SMTT(40)
  <2> QED BY <1>7, <1>15, <2>1, <2>2, <2>3, <2>4 DEF Ascends
<1>25. IsBorrow(x, t, h, B2, B, G, n, c, a, b, k, r)
  BY <1>4, <1>9, <1>13, <1>14, <1>15, <1>18, <1>19, <1>20, <1>21, <1>22, <1>23, <1>24, ZenonT(40) DEF IsBorrow
<1> QED BY <1>25

--------------------------------------------------------------------------------
(*****************************************************************************)
(* Two neighbours become one node, and the root goes if it has lost its only *)
(* element: cases 2c and 3b.                                                 *)
(*****************************************************************************)

\* A sequence without one item, and one where an item stands for two.
IsWithout(w, S, s, k, c) ==
    /\ w \in Seq(S) /\ Len(w) = k
    /\ \A j \in 1 .. k : w[j] = IF j < c THEN s[j] ELSE s[j + 1]
\* RemoveAt does what IsWithout says.
LEMMA WithoutIs ==
    ASSUME NEW S, NEW s, s \in Seq(S), NEW k, k \in Nat, Len(s) = k + 1, NEW c, c \in 1 .. k + 1
    PROVE  IsWithout(RemoveAt(s, c), S, s, k, c)
<1>1. c \in 1 .. Len(s) /\ Len(s) - 1 = k
  OBVIOUS
<1>2. /\ RemoveAt(s, c) \in Seq(S) /\ Len(RemoveAt(s, c)) = Len(s) - 1
      /\ \A j \in 1 .. Len(s) - 1 : RemoveAt(s, c)[j] = IF j < c THEN s[j] ELSE s[j + 1]
  <2>1. s \in Seq(S)
    OBVIOUS
  <2> QED BY ONLY <1>1, <2>1, RemovedAt
<1> QED BY <1>1, <1>2 DEF IsWithout
IsFewer(w, S, s, k, c, v) ==
    /\ w \in Seq(S) /\ Len(w) = k
    /\ \A j \in 1 .. k : w[j] = IF j < c THEN s[j] ELSE IF j = c THEN v ELSE s[j + 1]
\* Putting one item for two does what IsFewer says.
LEMMA FewerIs ==
    ASSUME NEW S, NEW s, s \in Seq(S), NEW k, k \in Nat, Len(s) = k + 1, NEW c, c \in 1 .. k, NEW v, v \in S
    PROVE  IsFewer(ReplaceAt(RemoveAt(s, c + 1), c, v), S, s, k, c, v)
<1>1. PICK d, u : d = c + 1 /\ u = RemoveAt(s, d)
  OBVIOUS
<1>2. IsWithout(u, S, s, k, d)
  <2>1. d \in 1 .. k + 1
    BY ONLY <1>1, c \in 1 .. k, k \in Nat
  <2> QED BY <1>1, <2>1, WithoutIs
<1>3. u \in Seq(S) /\ Len(u) = k /\ \A j \in 1 .. k : u[j] = IF j < d THEN s[j] ELSE s[j + 1]
  BY <1>2 DEF IsWithout
<1>4. IsInPlace(ReplaceAt(u, c, v), S, u, c, v)
  <2>1. c \in 1 .. Len(u) /\ u \in Seq(S)
    BY <1>3
  <2> QED BY <2>1, PutInPlace
<1>5. PICK w : w = ReplaceAt(u, c, v)
  OBVIOUS
<1>6. w \in Seq(S) /\ Len(w) = k /\ \A j \in 1 .. k : w[j] = IF j = c THEN v ELSE u[j]
  BY <1>3, <1>4, <1>5 DEF IsInPlace
<1>7. ASSUME NEW j, j \in 1 .. k PROVE w[j] = IF j < c THEN s[j] ELSE IF j = c THEN v ELSE s[j + 1]
  <2>1. w[j] = (IF j = c THEN v ELSE u[j]) /\ u[j] = (IF j < d THEN s[j] ELSE s[j + 1])
    BY <1>3, <1>6, <1>7
  <2>2. (j < c => j # c /\ j < d) /\ (j < d => j < c \/ j = c) /\ (j = c => ~ (j < c))
    BY ONLY <1>1, <1>7, c \in 1 .. k, k \in Nat
  <2> QED BY <2>1, <2>2
<1> QED BY <1>1, <1>5, <1>6, <1>7 DEF IsFewer

\* A node with one element less: its kids c and c + 1 have become one, keep.
LessNode(y, c, keep, cl) ==
    [y EXCEPT !.elems = RemoveAt(@, c), !.kids = ReplaceAt(RemoveAt(@, c + 1), c, keep),
              !.counts = ReplaceAt(RemoveAt(@, c + 1), c, cl)]
IsLess(x, y, k, c, keep, cl) ==
    /\ x \in Node234
    /\ IsWithout(x.elems, Int, y.elems, k, c)
    /\ IsFewer(x.kids, Nat, y.kids, k + 1, c, keep)
    /\ IsFewer(x.counts, Int, y.counts, k + 1, c, cl)
\* LessNode does what IsLess says.
LEMMA LessIs ==
    ASSUME NEW y, y \in Node234, NEW k, k \in Nat, Len(y.elems) = k + 1, Len(y.kids) = k + 2, Len(y.counts) = k + 2,
           NEW c, c \in 1 .. k + 1, NEW keep, keep \in Nat, NEW cl, cl \in Int
    PROVE  IsLess(LessNode(y, c, keep, cl), y, k, c, keep, cl) /\ LessNode(y, c, keep, cl).parent = y.parent
<1>1. y.elems \in Seq(Int) /\ y.kids \in Seq(Nat) /\ y.counts \in Seq(Int) /\ y.parent \in Nat
  BY DEF Node234
<1>2. PICK es, ks, cs : /\ es = RemoveAt(y.elems, c) /\ ks = ReplaceAt(RemoveAt(y.kids, c + 1), c, keep)
                        /\ cs = ReplaceAt(RemoveAt(y.counts, c + 1), c, cl)
  OBVIOUS
<1>3. PICK S, T : S = Int /\ T = Nat
  OBVIOUS
<1>4. PICK l : l = k + 1
  OBVIOUS
<1>5. Len(y.kids) = l + 1 /\ Len(y.counts) = l + 1 /\ l \in Nat /\ c \in 1 .. l
  BY <1>4
<1>6. IsWithout(es, S, y.elems, k, c)
  BY <1>1, <1>2, <1>3, WithoutIs
<1>7. IsFewer(ks, T, y.kids, l, c, keep)
  <2>1. y.kids \in Seq(T) /\ keep \in T
    BY <1>1, <1>3
  <2> QED BY ONLY <1>2, <1>5, <2>1, FewerIs
<1>8. IsFewer(cs, S, y.counts, l, c, cl)
  <2>1. y.counts \in Seq(S) /\ cl \in S
    BY <1>1, <1>3
  <2> QED BY ONLY <1>2, <1>5, <2>1, FewerIs
<1>9. PICK x : x = LessNode(y, c, keep, cl)
  OBVIOUS
<1>10. y \in [parent : Nat, elems : Seq(Int), kids : Seq(Nat), counts : Seq(Int)]
  BY DEF Node234
<1>11. x.elems = es /\ x.kids = ks /\ x.counts = cs /\ x.parent = y.parent
  BY <1>2, <1>9, <1>10 DEF LessNode
<1>12. x = [parent |-> y.parent, elems |-> es, kids |-> ks, counts |-> cs]
  BY <1>2, <1>9, <1>10 DEF LessNode
<1>13. es \in Seq(Int) /\ ks \in Seq(Nat) /\ cs \in Seq(Int)
  BY <1>3, <1>6, <1>7, <1>8 DEF IsWithout, IsFewer
<1>14. x \in Node234
  BY <1>1, <1>12, <1>13 DEF Node234
<1>15. IsLess(x, y, k, c, keep, cl)
  BY <1>3, <1>4, <1>6, <1>7, <1>8, <1>11, <1>14 DEF IsLess
<1> QED BY <1>9, <1>11, <1>15

\* The node loses the kid that is gone and no other.
LEMMA LessKids ==
    ASSUME NEW s, s \in Seq(Nat), NEW k, k \in Nat, Len(s) = k + 1, NEW c, c \in 1 .. k, NEW keep, NEW gone,
           {s[c], s[c + 1]} = {keep, gone}, NEW w, IsFewer(w, Nat, s, k, c, keep)
    PROVE  ToSet(w) \in SUBSET ToSet(s) /\ \A y \in ToSet(s) : y # gone => y \in ToSet(w)
<1>1. w \in Seq(Nat) /\ Len(w) = k /\ \A j \in 1 .. k : w[j] = IF j < c THEN s[j] ELSE IF j = c THEN keep ELSE s[j + 1]
  BY DEF IsFewer
<1>2. DOMAIN s = 1 .. k + 1 /\ DOMAIN w = 1 .. k
  BY <1>1
<1>3. ASSUME NEW j, j \in 1 .. k PROVE w[j] \in ToSet(s)
  <2>1. j \in 1 .. k + 1 /\ j + 1 \in 1 .. k + 1 /\ c \in 1 .. k + 1 /\ c + 1 \in 1 .. k + 1
    BY ONLY <1>3, c \in 1 .. k, k \in Nat
  <2>2. s[j] \in ToSet(s) /\ s[j + 1] \in ToSet(s) /\ s[c] \in ToSet(s) /\ s[c + 1] \in ToSet(s)
    BY <1>2, <2>1 DEF ToSet
  <2>3. keep \in ToSet(s)
    BY <2>2
  <2> QED BY <1>1, <1>3, <2>2, <2>3
<1>4. ASSUME NEW y \in ToSet(s), y # gone PROVE y \in ToSet(w)
  <2>1. PICK i \in 1 .. k + 1 : y = s[i]
    BY <1>2, <1>4 DEF ToSet
  <2>2. CASE i < c
    <3>1. i \in 1 .. k
      BY ONLY <2>1, <2>2, c \in 1 .. k, k \in Nat
    <3>2. w[i] = y
      BY <1>1, <2>1, <2>2, <3>1
    <3> QED BY <1>2, <3>1, <3>2 DEF ToSet
  <2>3. CASE i = c \/ i = c + 1
    <3>1. y = keep
      BY <1>4, <2>1, <2>3
    <3>2. w[c] = keep
      BY <1>1
    <3> QED BY <1>2, <3>1, <3>2 DEF ToSet
  <2>4. CASE i > c + 1
    <3>1. PICK j : j = i - 1
      OBVIOUS
    <3>2. j \in 1 .. k /\ ~ (j < c) /\ j # c /\ j + 1 = i
      BY ONLY <2>1, <2>4, <3>1, c \in 1 .. k, k \in Nat
    <3>3. w[j] = y
      BY <1>1, <2>1, <3>2
    <3> QED BY <1>2, <3>2, <3>3 DEF ToSet
  <2>5. i < c \/ i = c \/ i = c + 1 \/ i > c + 1
    BY ONLY <2>1, c \in 1 .. k, k \in Nat
  <2> QED BY <2>2, <2>3, <2>4, <2>5
<1>5. ASSUME NEW y \in ToSet(w) PROVE y \in ToSet(s)
  <2>1. PICK j \in 1 .. k : y = w[j]
    BY <1>2, <1>5 DEF ToSet
  <2> QED BY <1>3, <2>1
<1> QED BY <1>4, <1>5

\* Cases 3b and 2c: keep has taken in gone and the element between them.
IsMerged(x, t, n, k, c, keep, gone, w, cl) ==
    /\ IsTree(x) /\ Nodes(x) = Nodes(t) \ {gone} /\ x.root = t.root /\ x.sorted = t.sorted
    /\ Content(x.nodes[keep], w) /\ IsLess(x.nodes[n], t.nodes[n], k, c, keep, cl)
    /\ \A y \in Nodes(x) : y # keep /\ y # n => Content(x.nodes[y], t.nodes[y])
    /\ \A y \in Nodes(x) : x.nodes[y].parent = IF y \in ToSet(w.kids) THEN keep ELSE t.nodes[y].parent
\* What IsLess says is about content only.
LEMMA LessContent ==
    ASSUME NEW x, NEW y, NEW k, NEW c, NEW keep, NEW cl, IsLess(x, y, k, c, keep, cl), NEW y2, Content(y2, y)
    PROVE  IsLess(x, y2, k, c, keep, cl)
BY DEF IsLess, Content
\* Merged puts the pair into keep, frees gone, and takes the element out of n.
LEMMA MergedIs ==
    ASSUME NEW t, NEW h, NEW B, NEW G, NEW n, NEW c, NEW a, NEW b, NEW w, NEW P,
           PairAt(t, h, B, G, n, c, a, b, w, P), NEW keep, NEW gone, {keep, gone} = {a, b},
           NEW k, k \in Nat, Size(t, n) = k + 1
    PROVE  IsMerged(Merged(t, n, c, keep), t, n, k, c, keep, gone, w, Length(P))
<1> DEFINE s == SetNode(t, keep, w)
           q == Adopted(s, keep)
           u == Freed(q, gone)
           cl == Length(P)
           node == LessNode(u.nodes[n], c, keep, countnode234(u, keep))
           x == SetIn(u, n, node)
<1>1. /\ Standing(t, h, B, G) /\ n \in Nodes(t) /\ c \in 1 .. k + 1
      /\ a = t.nodes[n].kids[c] /\ b = t.nodes[n].kids[c + 1]
      /\ a \in Nodes(t) /\ b \in Nodes(t) /\ t.nodes[a].parent = n /\ t.nodes[b].parent = n
      /\ a # b /\ a # n /\ b # n /\ a \in Nat /\ b \in Nat /\ NULL \notin Nodes(t)
      /\ w = Pair(t, n, c) /\ w.parent = n /\ w \in Node234 /\ P \in Seq(Nat)
      /\ NodeFits(h, B, G, w, P, h[a]) /\ Exact(w, P)
  BY ZenonT(40) DEF PairAt, IsKid, IsPair, IsPairFit
<1>2. /\ IsTree(t) /\ keep \in Nat \ {0} /\ keep \in Nodes(t) /\ gone \in Nodes(t) /\ keep # gone
      /\ keep # n /\ gone # n /\ t.nodes[keep].parent = n
      /\ (IF keep = t.nodes[n].kids[c] THEN t.nodes[n].kids[c + 1] ELSE t.nodes[n].kids[c]) = gone
  <2>1. keep \in {a, b} /\ gone \in {a, b} /\ keep # gone
    BY <1>1
  <2> QED BY <1>1, <2>1 DEF Standing, NULL
<1>3. /\ Len(t.nodes[n].elems) = k + 1 /\ Len(t.nodes[n].kids) = k + 2 /\ Len(t.nodes[n].counts) = k + 2
  <2>1. NodeFits(h, B, G, t.nodes[n], B[n], h[n]) /\ t.nodes[n] \in Node234
    BY <1>1, NodeIs DEF Standing
  <2>2. Len(t.nodes[n].elems) = k + 1
    BY DEF Size
  <2>3. k + 1 + 1 = k + 2
    OBVIOUS
  <2> QED BY <2>1, <2>2, <2>3, PartsAre, ZenonT(40)
<1>4. IsSetIn(s, t, keep, w)
  BY <1>1, <1>2, SetIs
<1> HIDE DEF s
<1>5. /\ IsTree(s) /\ Nodes(s) = Nodes(t) /\ s.root = t.root /\ s.sorted = t.sorted /\ s.nodes[keep] = w
      /\ \A y \in Nodes(t) : y # keep => s.nodes[y] = t.nodes[y]
  BY <1>2, <1>4 DEF IsSetIn
<1>6. IsAdoptedBy(q, s, keep)
  BY <1>2, <1>5, AdoptedBy
<1> HIDE DEF q
<1>7. /\ IsTree(q) /\ Nodes(q) = Nodes(t) /\ q.root = t.root /\ q.sorted = t.sorted
      /\ \A y \in Nodes(t) :
           /\ Content(q.nodes[y], s.nodes[y])
           /\ q.nodes[y].parent = IF y \in ToSet(w.kids) THEN keep ELSE s.nodes[y].parent
  BY <1>5, <1>6 DEF IsAdoptedBy
<1>8. /\ IsTree(u) /\ Nodes(u) = Nodes(t) \ {gone} /\ u.root = t.root /\ u.sorted = t.sorted
      /\ \A y \in Nodes(u) : u.nodes[y] = q.nodes[y]
  <2>1. PICK z : z = Freed(q, gone)
    OBVIOUS
  <2>2. /\ IsTree(z) /\ Nodes(z) = Nodes(q) \ {gone} /\ z.root = q.root /\ z.sorted = q.sorted
        /\ \A y \in Nodes(z) : z.nodes[y] = q.nodes[y]
    BY <1>7, <2>1, FreedIs, SMTT(40)
  <2> QED BY <1>7, <2>1, <2>2
<1>9. n \in Nodes(u) /\ keep \in Nodes(u)
  BY <1>1, <1>2, <1>8
<1>10. /\ Content(u.nodes[keep], w)
       /\ \A y \in Nodes(u) : y # keep => Content(u.nodes[y], t.nodes[y])
       /\ \A y \in Nodes(u) : u.nodes[y].parent = IF y \in ToSet(w.kids) THEN keep ELSE t.nodes[y].parent
  <2>1. u.nodes[keep] = q.nodes[keep] /\ Content(q.nodes[keep], s.nodes[keep]) /\ s.nodes[keep] = w
    BY <1>2, <1>5, <1>7, <1>8, <1>9
  <2>2. Content(u.nodes[keep], w)
    BY <2>1
  <2>3. ASSUME NEW y \in Nodes(u), y # keep PROVE Content(u.nodes[y], t.nodes[y])
    <3>1. y \in Nodes(t) /\ u.nodes[y] = q.nodes[y] /\ s.nodes[y] = t.nodes[y]
      BY <1>5, <1>8, <2>3
    <3>2. Content(q.nodes[y], s.nodes[y])
      BY <1>7, <3>1
    <3> QED BY <3>1, <3>2
  <2>4. ASSUME NEW y \in Nodes(u)
        PROVE  u.nodes[y].parent = IF y \in ToSet(w.kids) THEN keep ELSE t.nodes[y].parent
    <3>1. y \in Nodes(t) /\ u.nodes[y] = q.nodes[y]
      BY <1>8, <2>4
    <3>2. q.nodes[y].parent = IF y \in ToSet(w.kids) THEN keep ELSE s.nodes[y].parent
      BY <1>7, <3>1, SMTT(40)
    <3>3. s.nodes[y].parent = t.nodes[y].parent
      BY <1>1, <1>2, <1>5, <3>1, ZenonT(40)
    <3> QED BY <3>1, <3>2, <3>3
  <2> QED BY <2>2, <2>3, <2>4
<1> HIDE DEF u
<1>11. countnode234(u, keep) = cl
  BY <1>1, <1>8, <1>9, <1>10, CountOf
<1>12. cl \in Int
  <2>1. Lo(P) \in Nat /\ Hi(P) \in Nat
    BY <1>1, BoundsAre, EndsAre
  <2> QED BY <2>1, SMTT(40) DEF Length
<1> HIDE DEF cl
<1>13. u.nodes[n] \in Node234
  BY <1>8, <1>9, TreeNodes DEF NodesAre
<1>14. IsLess(node, u.nodes[n], k, c, keep, cl) /\ node.parent = u.nodes[n].parent
  <2>1. Content(u.nodes[n], t.nodes[n])
    BY <1>2, <1>9, <1>10
  <2>2. /\ Len(u.nodes[n].elems) = k + 1 /\ Len(u.nodes[n].kids) = k + 2 /\ Len(u.nodes[n].counts) = k + 2
    BY <1>3, <2>1 DEF Content
  <2>3. PICK y : y = u.nodes[n]
    OBVIOUS
  <2>4. PICK z : z = cl
    OBVIOUS
  <2>5. IsLess(LessNode(y, c, keep, z), y, k, c, keep, z) /\ LessNode(y, c, keep, z).parent = y.parent
    <3>1. Len(y.elems) = k + 1 /\ Len(y.kids) = k + 2 /\ Len(y.counts) = k + 2 /\ y \in Node234
      BY <1>13, <2>2, <2>3, ZenonT(40)
    <3>2. c \in 1 .. k + 1 /\ keep \in Nat /\ z \in Int
      BY <1>1, <1>2, <1>12, <2>4
    <3>3. IsLess(LessNode(y, c, keep, z), y, k, c, keep, z)
      BY ONLY <3>1, <3>2, k \in Nat, LessIs
    <3>4. LessNode(y, c, keep, z).parent = y.parent
      BY ONLY <3>1 DEF LessNode, Node234
    <3> QED BY <3>3, <3>4
  <2> QED BY <1>11, <2>3, <2>4, <2>5
<1>15. Merged(t, n, c, keep) = x
  <2>1. Merged(t, n, c, keep) =
          [u EXCEPT !.nodes[n] = LessNode(u.nodes[n], c, keep, countnode234(u, keep))]
    BY <1>1, <1>2, ZenonT(40) DEF Merged, LessNode, u, q, s
  <2> QED BY <2>1, SMTT(40) DEF SetIn
<1> HIDE DEF node
<1>16. IsSetIn(x, u, n, node)
  <2>1. node \in Node234
    BY <1>14 DEF IsLess
  <2> QED BY <1>8, <1>9, <2>1, SetInIs
<1> HIDE DEF x
<1>17. /\ IsTree(x) /\ Nodes(x) = Nodes(t) \ {gone} /\ x.root = t.root /\ x.sorted = t.sorted
       /\ x.nodes[n] = node /\ \A y \in Nodes(u) : y # n => x.nodes[y] = u.nodes[y]
  BY <1>8, <1>9, <1>16 DEF IsSetIn
<1>18. IsLess(x.nodes[n], t.nodes[n], k, c, keep, cl)
  <2>1. Content(t.nodes[n], u.nodes[n])
    BY <1>2, <1>9, <1>10 DEF Content
  <2> QED BY <1>14, <1>17, <2>1, LessContent
<1>19. Content(x.nodes[keep], w) /\ \A y \in Nodes(x) : y # keep /\ y # n => Content(x.nodes[y], t.nodes[y])
  BY <1>2, <1>8, <1>9, <1>10, <1>17
<1>20. \A y \in Nodes(x) : x.nodes[y].parent = u.nodes[y].parent
  BY <1>8, <1>14, <1>17
<1>21. IsMerged(x, t, n, k, c, keep, gone, w, cl)
  BY <1>8, <1>10, <1>17, <1>18, <1>19, <1>20 DEF IsMerged
<1> QED BY <1>15, <1>21, SMTT(40) DEF cl

\* Boundaries with one less.
IsClosed(b2, b, k, c) ==
    /\ b2 \in Seq(Nat) /\ Len(b2) = k + 2 /\ Lo(b2) = Lo(b) /\ Hi(b2) = Hi(b)
    /\ \A j \in 1 .. k + 2 : b2[j] = IF j < c + 1 THEN b[j] ELSE b[j + 1]
    /\ \A i, j \in 1 .. k + 2 : i < j => b2[i] < b2[j]
\* Taking a boundary out does what IsClosed says.
LEMMA ClosedIs ==
    ASSUME NEW k, k \in Nat, NEW b, Bounds(b, k + 1), NEW c, c \in 1 .. k + 1
    PROVE  IsClosed(RemoveAt(b, c + 1), b, k, c)
<1>1. /\ b \in Seq(Nat) /\ Len(b) = k + 3 /\ Lo(b) = b[1] /\ Hi(b) = b[k + 3]
      /\ \A j \in 1 .. k + 3 : b[j] \in Nat
      /\ \A i, j \in 1 .. k + 3 : i < j => b[i] < b[j]
  <2>1. k + 1 + 2 = k + 3
    OBVIOUS
  <2> QED BY <2>1 DEF Bounds
<1>2. PICK d, m, b2 : d = c + 1 /\ m = k + 2 /\ b2 = RemoveAt(b, d)
  OBVIOUS
<1>3. d \in 1 .. m + 1 /\ m \in Nat /\ m + 1 = k + 3
  BY <1>2
<1>4. IsWithout(b2, Nat, b, m, d)
  <2>1. PICK S : S = Nat
    OBVIOUS
  <2>2. b \in Seq(S) /\ Len(b) = m + 1
    BY <1>1, <1>3, <2>1
  <2>3. IsWithout(RemoveAt(b, d), S, b, m, d)
    BY ONLY <1>3, <2>2, WithoutIs
  <2> QED BY <1>2, <2>1, <2>3
<1>5. /\ b2 \in Seq(Nat) /\ Len(b2) = k + 2
      /\ \A j \in 1 .. k + 2 : b2[j] = IF j < c + 1 THEN b[j] ELSE b[j + 1]
  BY <1>2, <1>4 DEF IsWithout
<1>6. b2[1] = b[1] /\ b2[k + 2] = b[k + 3]
  <2>1. /\ 1 \in 1 .. k + 2 /\ k + 2 \in 1 .. k + 2 /\ 1 < c + 1 /\ ~ (k + 2 < c + 1) /\ k + 2 + 1 = k + 3
    OBVIOUS
  <2> QED BY <1>5, <2>1
<1>7. ASSUME NEW i, i \in 1 .. k + 2, NEW j, j \in 1 .. k + 2, i < j PROVE b2[i] < b2[j]
  <2>1. PICK i2, j2 : i2 = (IF i < c + 1 THEN i ELSE i + 1) /\ j2 = (IF j < c + 1 THEN j ELSE j + 1)
    OBVIOUS
  <2>2. i2 \in 1 .. k + 3 /\ j2 \in 1 .. k + 3 /\ i2 < j2
    BY ONLY <1>7, <2>1, k \in Nat, c \in 1 .. k + 1
  <2>3. b2[i] = b[i2] /\ b2[j] = b[j2]
    BY <1>5, <1>7, <2>1
  <2> QED BY <1>1, <2>2, <2>3
<1>8. IsClosed(b2, b, k, c)
  BY <1>1, <1>5, <1>6, <1>7 DEF IsClosed, Lo, Hi
<1> QED BY <1>2, <1>8

\* A node fits with a kid in place of two and the element between them.
LEMMA LessFits ==
    ASSUME NEW h, NEW B, NEW G, NEW node, NEW b, NEW y, NodeFits(h, B, G, node, b, y),
           NEW k, k \in Nat, k >= 1, HasSize(node, k + 1), NEW c, c \in 1 .. k + 1,
           NEW keep, NEW cl, NEW x, IsLess(x, node, k, c, keep, cl),
           NEW b2, IsClosed(b2, b, k, c), NEW h2, NEW B2, KidFits(h2, B2, keep, y, b[c], b[c + 2]),
           \A i \in 1 .. k + 2 : i # c /\ i # c + 1 => KidFits(h2, B2, node.kids[i], y, b[i], b[i + 1])
    PROVE  IsResetFit(h2, B2, G, x, b2, y) /\ HasSize(x, k)
<1>1. /\ Len(x.elems) = k /\ Len(x.kids) = k + 1 /\ Len(x.counts) = k + 1
      /\ \A j \in 1 .. k : x.elems[j] = IF j < c THEN node.elems[j] ELSE node.elems[j + 1]
      /\ \A j \in 1 .. k + 1 : x.kids[j] = IF j < c THEN node.kids[j] ELSE IF j = c THEN keep ELSE node.kids[j + 1]
  BY DEF IsLess, IsWithout, IsFewer
<1>2. /\ b2 \in Seq(Nat) /\ Len(b2) = k + 2 /\ Lo(b2) = Lo(b) /\ Hi(b2) = Hi(b)
      /\ \A j \in 1 .. k + 2 : b2[j] = IF j < c + 1 THEN b[j] ELSE b[j + 1]
      /\ \A i, j \in 1 .. k + 2 : i < j => b2[i] < b2[j]
  BY DEF IsClosed
<1>3. Hi(b) <= Len(G) + 1 /\ \A j \in 1 .. k + 1 : node.elems[j] = G[b[j + 1]]
  BY DEF NodeFits, HasSize
<1>4. Rising(b2)
  <2>1. DOMAIN b2 = 1 .. k + 2
    BY <1>2
  <2> QED BY <1>2, <2>1 DEF Rising
<1>5. ASSUME NEW i, i \in 1 .. k + 1 PROVE KidFits(h2, B2, x.kids[i], y, b2[i], b2[i + 1])
  <2>0. PICK d : d = i + 1
    OBVIOUS
  <2>1. /\ i \in 1 .. k + 2 /\ d \in 1 .. k + 2 /\ c + 1 \in 1 .. k + 2 /\ c \in 1 .. k + 2
    BY ONLY <1>5, <2>0, k \in Nat, c \in 1 .. k + 1
  <2>2. b2[i] = (IF i < c + 1 THEN b[i] ELSE b[i + 1]) /\ b2[d] = (IF d < c + 1 THEN b[d] ELSE b[d + 1])
    BY <1>2, <2>1
  <2>3. CASE i = c
    <3>1. i < c + 1 /\ ~ (d < c + 1) /\ d + 1 = c + 2 /\ ~ (i < c)
      BY ONLY <2>0, <2>1, <2>3, c \in 1 .. k + 1, k \in Nat
    <3>2. b2[i] = b[c] /\ b2[d] = b[c + 2] /\ x.kids[i] = keep
      BY <1>1, <1>5, <2>2, <2>3, <3>1
    <3> QED BY <2>0, <3>2
  <2>4. CASE i < c
    <3>1. i < c + 1 /\ d < c + 1 /\ i # c /\ i # c + 1
      BY ONLY <2>0, <2>1, <2>4, c \in 1 .. k + 1, k \in Nat
    <3>2. b2[i] = b[i] /\ b2[d] = b[i + 1] /\ x.kids[i] = node.kids[i]
      BY <1>1, <1>5, <2>0, <2>2, <2>4, <3>1
    <3> QED BY <2>0, <2>1, <3>1, <3>2
  <2>5. CASE i > c
    <3>1. ~ (i < c + 1) /\ ~ (d < c + 1) /\ d # c /\ d # c + 1 /\ ~ (i < c) /\ i # c
      BY ONLY <2>0, <2>1, <2>5, c \in 1 .. k + 1, k \in Nat
    <3>2. b2[i] = b[d] /\ b2[d] = b[d + 1] /\ x.kids[i] = node.kids[d]
      BY <1>1, <1>5, <2>0, <2>2, <3>1
    <3> QED BY <2>0, <2>1, <3>1, <3>2
  <2>6. i = c \/ i < c \/ i > c
    BY ONLY <2>1, c \in 1 .. k + 1, k \in Nat
  <2> QED BY <2>3, <2>4, <2>5, <2>6
<1>6. ASSUME NEW i, i \in 1 .. k PROVE x.elems[i] = G[b2[i + 1]]
  <2>0. PICK d : d = i + 1
    OBVIOUS
  <2>1. /\ i \in 1 .. k + 1 /\ d \in 1 .. k + 1 /\ d \in 1 .. k + 2 /\ (i < c <=> d < c + 1)
    BY ONLY <1>6, <2>0, k \in Nat, c \in 1 .. k + 1
  <2>2. b2[d] = IF d < c + 1 THEN b[d] ELSE b[d + 1]
    BY <1>2, <2>1
  <2>3. x.elems[i] = IF i < c THEN node.elems[i] ELSE node.elems[d]
    BY <1>1, <1>6, <2>0
  <2>4. node.elems[i] = G[b[d]] /\ node.elems[d] = G[b[d + 1]]
    BY <1>3, <2>0, <2>1
  <2> QED BY <2>0, <2>1, <2>2, <2>3, <2>4
<1>7. NodeFits(h2, B2, G, x, b2, y)
  BY <1>1, <1>2, <1>3, <1>4, <1>5, <1>6 DEF NodeFits
<1> QED BY <1>1, <1>7 DEF IsResetFit, HasSize

\* Its counts are right if that of the pair is.
LEMMA LessCounts ==
    ASSUME NEW node, NEW b, Exact(node, b), NEW k, k \in Nat, Len(node.counts) = k + 2,
           NEW c, c \in 1 .. k + 1, NEW keep, NEW cl, NEW x, IsLess(x, node, k, c, keep, cl),
           NEW b2, IsClosed(b2, b, k, c), cl = b[c + 2] - b[c] - 1
    PROVE  Exact(x, b2)
<1>1. /\ Len(x.counts) = k + 1
      /\ \A j \in 1 .. k + 1 : x.counts[j] = IF j < c THEN node.counts[j] ELSE IF j = c THEN cl ELSE node.counts[j + 1]
  BY DEF IsLess, IsFewer
<1>2. \A j \in 1 .. k + 2 : b2[j] = IF j < c + 1 THEN b[j] ELSE b[j + 1]
  BY DEF IsClosed
<1>3. \A j \in 1 .. k + 2 : node.counts[j] = b[j + 1] - b[j] - 1
  BY DEF Exact
<1>4. ASSUME NEW i, i \in 1 .. k + 1 PROVE x.counts[i] = b2[i + 1] - b2[i] - 1
  <2>0. PICK d : d = i + 1
    OBVIOUS
  <2>1. /\ i \in 1 .. k + 2 /\ d \in 1 .. k + 2
    BY ONLY <1>4, <2>0, k \in Nat, c \in 1 .. k + 1
  <2>2. b2[i] = (IF i < c + 1 THEN b[i] ELSE b[d]) /\ b2[d] = (IF d < c + 1 THEN b[d] ELSE b[d + 1])
    BY <1>2, <2>0, <2>1
  <2>3. x.counts[i] = IF i < c THEN node.counts[i] ELSE IF i = c THEN cl ELSE node.counts[d]
    BY <1>1, <1>4, <2>0
  <2>4. node.counts[i] = b[d] - b[i] - 1 /\ node.counts[d] = b[d + 1] - b[d] - 1
    BY <1>3, <2>0, <2>1
  <2>5. CASE i = c
    <3>1. i < c + 1 /\ ~ (d < c + 1) /\ d + 1 = c + 2 /\ ~ (i < c)
      BY ONLY <2>0, <2>1, <2>5, c \in 1 .. k + 1, k \in Nat
    <3> QED BY <2>0, <2>2, <2>3, <2>5, <3>1
  <2>6. CASE i < c
    <3>1. i < c + 1 /\ d < c + 1
      BY ONLY <2>0, <2>1, <2>6, c \in 1 .. k + 1, k \in Nat
    <3> QED BY <2>0, <2>2, <2>3, <2>4, <2>6, <3>1
  <2>7. CASE i > c
    <3>1. ~ (i < c + 1) /\ ~ (d < c + 1) /\ ~ (i < c) /\ i # c
      BY ONLY <2>0, <2>1, <2>7, c \in 1 .. k + 1, k \in Nat
    <3> QED BY <2>0, <2>2, <2>3, <2>4, <3>1
  <2>8. i = c \/ i < c \/ i > c
    BY ONLY <2>1, c \in 1 .. k + 1, k \in Nat
  <2> QED BY <2>5, <2>6, <2>7, <2>8
<1> QED BY <1>1, <1>4 DEF Exact

\* Two kids of n, one of which takes in the other.
MergeFacts(t, h, B, G, n, w, P, keep, gone) ==
    /\ Standing(t, h, B, G) /\ n \in Nodes(t) /\ keep \in Nodes(t) /\ gone \in Nodes(t)
    /\ keep # gone /\ keep # n /\ gone # n /\ NULL \notin Nodes(t)
    /\ t.nodes[keep].parent = n /\ t.nodes[gone].parent = n /\ keep # t.root /\ gone # t.root
    /\ h[n] = h[keep] + 1 /\ h[keep] \in Nat /\ h \in [Nodes(t) -> Nat] /\ B \in [Nodes(t) -> Seq(Nat)]
    /\ w \in Node234 /\ P \in Seq(Nat) /\ NodeFits(h, B, G, w, P, h[keep]) /\ Exact(w, P)
    /\ ToSet(w.kids) = Kids(t, keep) \cup Kids(t, gone)
\* These facts hold of each pair.
LEMMA MergeFactsAre ==
    ASSUME NEW t, NEW h, NEW B, NEW G, NEW n, NEW c, NEW a, NEW b, NEW w, NEW P,
           PairAt(t, h, B, G, n, c, a, b, w, P), NEW keep, NEW gone, {keep, gone} = {a, b}
    PROVE  MergeFacts(t, h, B, G, n, w, P, keep, gone)
<1>1. /\ Standing(t, h, B, G) /\ n \in Nodes(t) /\ a \in Nodes(t) /\ b \in Nodes(t)
      /\ t.nodes[a].parent = n /\ t.nodes[b].parent = n
      /\ a # b /\ a # n /\ b # n /\ h[a] = h[b] /\ h[n] = h[a] + 1 /\ h[a] \in Nat
      /\ NULL \notin Nodes(t) /\ ToSet(w.kids) = Kids(t, a) \cup Kids(t, b)
      /\ NodeFits(h, B, G, w, P, h[a]) /\ Exact(w, P) /\ w \in Node234 /\ P \in Seq(Nat)
  BY ZenonT(40) DEF PairAt, IsKid, IsPair, IsPairFit
<1>2. (keep = a /\ gone = b) \/ (keep = b /\ gone = a)
  BY <1>1
<1>3. h[keep] = h[a] /\ ToSet(w.kids) = Kids(t, keep) \cup Kids(t, gone)
  BY <1>1, <1>2
<1>4. keep # t.root /\ gone # t.root
  BY <1>1, <1>2 DEF Standing, Linked
<1>5. h \in [Nodes(t) -> Nat] /\ B \in [Nodes(t) -> Seq(Nat)]
  BY <1>1 DEF Standing, Layout
<1>6. NodeFits(h, B, G, w, P, h[keep])
  BY <1>1, <1>3
<1>7. /\ keep \in Nodes(t) /\ gone \in Nodes(t) /\ keep # gone /\ keep # n /\ gone # n
      /\ t.nodes[keep].parent = n /\ t.nodes[gone].parent = n /\ h[n] = h[keep] + 1 /\ h[keep] \in Nat
  BY <1>1, <1>2
<1> QED BY <1>1, <1>3, <1>4, <1>5, <1>6, <1>7, SMTT(40) DEF MergeFacts

\* The layout after that, on the nodes X that are left.
MergeHeights(X, h) == [y \in X |-> h[y]]
IsMergeLayout(X, t, n, keep, gone, h, B, P, h2, B2) ==
    /\ X \in SUBSET Nodes(t) /\ keep \in X /\ \A y \in Nodes(t) : y # gone /\ y # n => y \in X
    /\ h2 \in [X -> Nat] /\ B2 \in [X -> Seq(Nat)]
    /\ \A y \in X : h2[y] = h[y] /\ (y # keep /\ y # n => B2[y] = B[y])
    /\ B2[keep] = P
\* The layout is the one expected.
LEMMA MergeLayout ==
    ASSUME NEW t, NEW h, NEW B, NEW G, NEW n, NEW w, NEW P, NEW keep, NEW gone,
           MergeFacts(t, h, B, G, n, w, P, keep, gone),
           NEW X, X \in SUBSET Nodes(t), keep \in X, \A y \in Nodes(t) : y # gone /\ y # n => y \in X,
           NEW b2, b2 \in Seq(Nat), NEW B2,
           B2 = [y \in X |-> IF y = keep THEN P ELSE IF y = n THEN b2 ELSE B[y]]
    PROVE  IsMergeLayout(X, t, n, keep, gone, h, B, P, MergeHeights(X, h), B2)
<1>1. h \in [Nodes(t) -> Nat] /\ B \in [Nodes(t) -> Seq(Nat)] /\ P \in Seq(Nat)
  BY DEF MergeFacts
<1>2. PICK h2 : h2 = MergeHeights(X, h)
  OBVIOUS
<1>3. h2 \in [X -> Nat] /\ \A y \in X : h2[y] = h[y]
  BY <1>1, <1>2 DEF MergeHeights
<1>4. B2 \in [X -> Seq(Nat)] /\ B2[keep] = P /\ \A y \in X : y # keep /\ y # n => B2[y] = B[y]
  <2>1. ASSUME NEW y \in X PROVE (IF y = keep THEN P ELSE IF y = n THEN b2 ELSE B[y]) \in Seq(Nat)
    BY <1>1
  <2> QED BY <2>1
<1> QED BY <1>2, <1>3, <1>4 DEF IsMergeLayout

\* All other nodes but n stay where they were, and so does what keep has now.
LEMMA MergeStays ==
    ASSUME NEW X, NEW t, NEW n, NEW keep, NEW gone, NEW h, NEW B, NEW P, NEW h2, NEW B2,
           IsMergeLayout(X, t, n, keep, gone, h, B, P, h2, B2),
           NEW y \in Nodes(t), y # keep, y # gone, y # n
    PROVE  Stays(h, B, h2, B2, y)
<1>1. y \in X /\ DOMAIN h2 = X /\ h2[y] = h[y] /\ B2[y] = B[y]
  BY DEF IsMergeLayout
<1> QED BY <1>1 DEF Stays
\* The pair fits where the two nodes were.
LEMMA MergePartFits ==
    ASSUME NEW t, NEW h, NEW B, NEW G, NEW n, NEW w, NEW P, NEW keep, NEW gone,
           MergeFacts(t, h, B, G, n, w, P, keep, gone), NEW X, NEW h2, NEW B2,
           IsMergeLayout(X, t, n, keep, gone, h, B, P, h2, B2), NEW v, Content(v, w)
    PROVE  NodeFits(h2, B2, G, v, P, h[keep])
<1>1. /\ Standing(t, h, B, G) /\ n \in Nodes(t) /\ keep \in Nodes(t) /\ gone \in Nodes(t)
      /\ t.nodes[keep].parent = n /\ t.nodes[gone].parent = n /\ NULL \notin Nodes(t) /\ keep # n /\ gone # n
      /\ keep # gone /\ w \in Node234 /\ NodeFits(h, B, G, w, P, h[keep])
      /\ ToSet(w.kids) = Kids(t, keep) \cup Kids(t, gone)
      /\ h[n] = h[keep] + 1 /\ h[keep] \in Nat /\ keep # t.root
  BY DEF MergeFacts
<1>2. DOMAIN h = Nodes(t)
  BY <1>1 DEF Standing, Layout
<1>3. ASSUME NEW j \in ToSet(w.kids), j \in DOMAIN h PROVE Stays(h, B, h2, B2, j)
  <2>1. t.nodes[j].parent = keep \/ t.nodes[j].parent = gone
    BY <1>1, <1>2, <1>3, KidFacts
  <2>2. j # keep /\ j # gone
    BY <1>1, <2>1
  <2>3. j # n
    <3>1. t.nodes[n].parent # keep /\ t.nodes[n].parent # gone
      <4>1. ASSUME NEW z \in {keep, gone}, t.nodes[n].parent = z PROVE FALSE
        <5>1. n \in Kids(t, z) /\ z \in Kids(t, n)
          BY <1>1, <4>1 DEF Standing, Linked, Kids
        <5>2. h[z] = h[n] + 1 /\ h[n] = h[z] + 1 /\ h[n] \in Nat /\ h[z] \in Nat
          BY <1>1, <4>1, <5>1, ParentHeight
        <5> QED BY <5>2
      <4> QED BY <4>1
    <3> QED BY <2>1, <3>1
  <2> QED BY <1>2, <1>3, <2>2, <2>3, MergeStays
<1>4. DOMAIN w.kids = 1 .. Len(w.elems) + 1
  BY <1>1, PartsAre
<1>5. \A i \in 1 .. Len(w.elems) + 1 : w.kids[i] \in ToSet(w.kids)
  BY <1>4 DEF ToSet
<1>6. \A i \in 1 .. Len(w.elems) + 1 : w.kids[i] \in DOMAIN h => Stays(h, B, h2, B2, w.kids[i])
  BY <1>3, <1>5
<1>7. \A i \in 1 .. Len(w.elems) + 1 :
         LET j == w.kids[i]
         IN  j \in DOMAIN h => j \in DOMAIN h2 /\ h2[j] = h[j] /\ Lo(B2[j]) = Lo(B[j]) /\ Hi(B2[j]) = Hi(B[j])
  BY <1>6 DEF Stays
<1>8. PICK z : z = h[keep]
  OBVIOUS
<1>9. NodeFits(h, B, G, w, P, z)
  BY <1>1, <1>8
<1>10. NodeFits(h2, B2, G, v, P, z)
  BY ONLY <1>7, <1>9, Content(v, w), FitsStill
<1> QED BY <1>8, <1>10

\* The kids n has left.
MergeKids(x, t, n, keep, gone) ==
    /\ Kids(x, n) \in SUBSET Kids(t, n)
    /\ \A y \in Kids(t, n) : y # gone => y \in Kids(x, n)
\* Merged takes none but the kid that is gone from n.
LEMMA MergeKidsAre ==
    ASSUME NEW t, NEW h, NEW B, NEW G, NEW n, NEW c, NEW a, NEW b, NEW w, NEW P,
           PairAt(t, h, B, G, n, c, a, b, w, P), NEW keep, NEW gone, {keep, gone} = {a, b},
           NEW k, k \in Nat, Size(t, n) = k + 1, NEW cl, NEW x, IsMerged(x, t, n, k, c, keep, gone, w, cl)
    PROVE  MergeKids(x, t, n, keep, gone)
<1>1. /\ Standing(t, h, B, G) /\ n \in Nodes(t) /\ c \in 1 .. k + 1
      /\ a = t.nodes[n].kids[c] /\ b = t.nodes[n].kids[c + 1]
  BY ZenonT(40) DEF PairAt
<1>2. t.nodes[n] \in Node234 /\ NodeFits(h, B, G, t.nodes[n], B[n], h[n])
  BY <1>1, NodeIs DEF Standing
<1>3. IsFewer(x.nodes[n].kids, Nat, t.nodes[n].kids, k + 1, c, keep)
  BY DEF IsMerged, IsLess
<1>4. PICK l, s, v : l = k + 1 /\ s = t.nodes[n].kids /\ v = x.nodes[n].kids
  OBVIOUS
<1>5. s \in Seq(Nat) /\ Len(s) = l + 1
  <2>1. Len(t.nodes[n].elems) = l
    BY <1>4 DEF Size
  <2> QED BY <1>2, <1>4, <2>1, PartsAre
<1>6. {s[c], s[c + 1]} = {keep, gone} /\ c \in 1 .. l /\ l \in Nat /\ IsFewer(v, Nat, s, l, c, keep)
  BY <1>1, <1>3, <1>4, SMTT(40)
<1>7. ToSet(v) \in SUBSET ToSet(s) /\ \A y \in ToSet(s) : y # gone => y \in ToSet(v)
  BY ONLY <1>5, <1>6, LessKids
<1> QED BY <1>4, <1>7 DEF MergeKids, Kids

\* Only the node kept and its parent have new kids.
LEMMA MergeRelinks ==
    ASSUME NEW t, NEW h, NEW B, NEW G, NEW n, NEW w, NEW P, NEW keep, NEW gone,
           MergeFacts(t, h, B, G, n, w, P, keep, gone), NEW k, NEW c, NEW cl, NEW x,
           IsMerged(x, t, n, k, c, keep, gone, w, cl), MergeKids(x, t, n, keep, gone)
    PROVE  Relinks(t, x, {keep, n})
<1> DEFINE E == {keep, n}
           mine == ToSet(w.kids)
<1>1. /\ Standing(t, h, B, G) /\ n \in Nodes(t) /\ keep \in Nodes(t) /\ gone \in Nodes(t)
      /\ keep # gone /\ keep # n /\ gone # n /\ NULL \notin Nodes(t)
      /\ t.nodes[keep].parent = n /\ t.nodes[gone].parent = n
      /\ mine = Kids(t, keep) \cup Kids(t, gone)
  BY DEF MergeFacts
<1>2. /\ Nodes(x) = Nodes(t) \ {gone} /\ x.root = t.root
      /\ \A y \in Nodes(x) : y # keep /\ y # n => Content(x.nodes[y], t.nodes[y])
      /\ \A y \in Nodes(x) : x.nodes[y].parent = IF y \in mine THEN keep ELSE t.nodes[y].parent
  BY DEF IsMerged
<1>3. Kids(x, keep) = mine
  BY DEF IsMerged, Content, Kids
<1>4. Kids(x, n) \in SUBSET Kids(t, n) /\ \A y \in Kids(t, n) : y # gone => y \in Kids(x, n)
  BY DEF MergeKids
<1>5. \A y \in Nodes(t) : \A y2 \in Kids(t, y) : y2 # NULL =>
         /\ y2 \in Nodes(t) /\ t.nodes[y2].parent = y /\ y2 # t.root /\ y2 # y
         /\ \A z \in Nodes(t) : y2 \in Kids(t, z) => z = y
  BY <1>1, KidFacts
<1> HIDE DEF mine
<1>6. E \in SUBSET Nodes(x) /\ Nodes(x) \ E = Nodes(t) \ {gone, keep, n}
  BY <1>1, <1>2
<1>7. \A y \in Nodes(x) \ E : y \in Nodes(t) /\ x.nodes[y].kids = t.nodes[y].kids
  BY <1>2, <1>6 DEF Content
<1>8. ASSUME NEW y \in E, NEW j \in Nodes(x), j \in Kids(x, y)
      PROVE  /\ x.nodes[j].parent = y /\ j # x.root
             /\ \A z \in Nodes(x) \ E : j \notin Kids(t, z)
  <2>1. j \in Nodes(t) /\ j # NULL
    BY <1>1, <1>2, <1>8
  <2>2. CASE y = n
    <3>1. j \in Kids(t, n)
      BY <1>4, <1>8, <2>2
    <3>2. t.nodes[j].parent = n /\ j # t.root /\ \A z \in Nodes(t) : j \in Kids(t, z) => z = n
      BY <1>1, <1>5, <2>1, <3>1
    <3>3. j \notin mine
      BY <1>1, <3>2
    <3>4. x.nodes[j].parent = y
      BY <1>2, <1>8, <2>2, <3>2, <3>3
    <3>5. \A z \in Nodes(x) \ E : j \notin Kids(t, z)
      BY <1>6, <3>2
    <3> QED BY <1>2, <3>2, <3>4, <3>5
  <2>3. CASE y = keep
    <3>1. j \in mine
      BY <1>3, <1>8, <2>3
    <3>2. PICK z \in {keep, gone} : j \in Kids(t, z)
      BY <1>1, <3>1
    <3>3. j # t.root /\ \A z2 \in Nodes(t) : j \in Kids(t, z2) => z2 = z
      BY <1>1, <1>5, <2>1, <3>2
    <3>4. \A z2 \in Nodes(x) \ E : j \notin Kids(t, z2)
      BY <1>6, <3>2, <3>3
    <3> QED BY <1>2, <1>8, <2>3, <3>1, <3>3, <3>4
  <2> QED BY <2>2, <2>3
<1>9. ASSUME NEW j \in Nodes(x), \A y \in E : j \notin Kids(x, y)
      PROVE  IF j = x.root THEN x.nodes[j].parent = NULL /\ \A z \in Nodes(x) \ E : j \notin Kids(t, z)
             ELSE /\ j \in Nodes(t) /\ x.nodes[j].parent = t.nodes[j].parent
                  /\ t.nodes[j].parent \in Nodes(x) \ E
  <2>1. j \notin mine /\ j \notin Kids(x, n) /\ j \in Nodes(t) /\ j # gone
    BY <1>2, <1>3, <1>9
  <2>2. j \notin Kids(t, n) /\ j \notin Kids(t, keep) /\ j \notin Kids(t, gone)
    BY <1>1, <1>4, <2>1
  <2>3. x.nodes[j].parent = t.nodes[j].parent /\ j # NULL
    BY <1>1, <1>2, <1>9, <2>1
  <2>4. Linked(t)
    BY <1>1 DEF Standing
  <2>5. CASE j = x.root
    <3>1. t.nodes[j].parent = NULL
      BY <1>2, <2>1, <2>4, <2>5 DEF Linked
    <3>2. \A z \in Nodes(t) : j \notin Kids(t, z)
      BY <1>2, <1>5, <2>3, <2>5
    <3> QED BY <1>6, <2>3, <2>5, <3>1, <3>2
  <2>6. CASE j # x.root
    <3>1. t.nodes[j].parent \in Nodes(t)
      BY <1>2, <2>1, <2>4, <2>6 DEF Linked
    <3>2. \A y \in Nodes(t) : t.nodes[j].parent = y => j \in Kids(t, y)
      BY <2>1, <2>4 DEF Linked, Kids
    <3>3. t.nodes[j].parent # keep /\ t.nodes[j].parent # gone /\ t.nodes[j].parent # n
      BY <1>1, <2>2, <3>2
    <3>4. t.nodes[j].parent \in Nodes(x) \ E
      BY <1>6, <3>1, <3>3
    <3> QED BY <2>1, <2>3, <2>6, <3>4
  <2> QED BY <2>5, <2>6
<1> HIDE DEF E
<1>10. Relinks(t, x, E)
  BY <1>6, <1>7, <1>8, <1>9 DEF Relinks
<1> QED BY <1>10 DEF E

\* All other nodes are as they were, and the root still covers the list.
LEMMA MergeKept ==
    ASSUME NEW t, NEW h, NEW B, NEW G, NEW n, NEW w, NEW P, NEW keep, NEW gone,
           MergeFacts(t, h, B, G, n, w, P, keep, gone), NEW k, NEW c, NEW cl, NEW x,
           IsMerged(x, t, n, k, c, keep, gone, w, cl), NEW h2, NEW B2,
           IsMergeLayout(Nodes(x), t, n, keep, gone, h, B, P, h2, B2), IsClosed(B2[n], B[n], k, c)
    PROVE  Kept(t, h, B, x, h2, B2, {keep, n}) /\ Rooted(x, h2, B2, G)
<1>1. /\ Standing(t, h, B, G) /\ n \in Nodes(t) /\ keep \in Nodes(t) /\ gone \in Nodes(t)
      /\ t.nodes[keep].parent = n /\ t.nodes[gone].parent = n /\ NULL \notin Nodes(t)
      /\ keep # t.root /\ gone # t.root /\ gone # n /\ keep # n
  BY DEF MergeFacts
<1>2. /\ Nodes(x) = Nodes(t) \ {gone} /\ x.root = t.root
      /\ \A y \in Nodes(x) : y # keep /\ y # n => Content(x.nodes[y], t.nodes[y])
  BY DEF IsMerged
<1>3. /\ \A y \in Nodes(x) : h2[y] = h[y] /\ (y # keep /\ y # n => B2[y] = B[y])
      /\ DOMAIN h2 = Nodes(x)
  BY DEF IsMergeLayout
<1>4. \A y \in Nodes(t) : y # keep /\ y # gone => Stays(h, B, h2, B2, y)
  <2>1. Stays(h, B, h2, B2, n)
    BY <1>1, <1>2, <1>3 DEF Stays, IsClosed
  <2>2. \A y \in Nodes(t) : y # keep /\ y # gone /\ y # n => Stays(h, B, h2, B2, y)
    BY MergeStays
  <2> QED BY <2>1, <2>2
<1>5. ASSUME NEW y \in Nodes(x) \ {keep, n}
      PROVE  /\ Content(x.nodes[y], t.nodes[y]) /\ h2[y] = h[y] /\ B2[y] = B[y]
             /\ \A j \in Kids(t, y) : j \in Nodes(t) => Stays(h, B, h2, B2, j)
  <2>1. ASSUME NEW j \in Kids(t, y), j \in Nodes(t) PROVE Stays(h, B, h2, B2, j)
    <3>1. t.nodes[j].parent = y
      BY <1>1, <1>2, <1>5, <2>1, KidFacts
    <3>2. j # keep /\ j # gone
      BY <1>1, <1>5, <3>1
    <3> QED BY <1>4, <2>1, <3>2
  <2> QED BY <1>2, <1>3, <1>5, <2>1
<1>6. t.root \in Nodes(t) /\ Layout(t, h, B, G)
  BY <1>1, NodeIs DEF Standing
<1>7. Stays(h, B, h2, B2, t.root) /\ t.root # NULL /\ t.root \in Nodes(x)
  BY <1>1, <1>2, <1>4, <1>6
<1>8. Lo(B[t.root]) = 0 /\ Hi(B[t.root]) = Len(G) + 1 /\ \A y \in Nodes(t) : h[y] <= h[t.root]
  BY <1>6, <1>7 DEF Layout
<1>9. Lo(B2[t.root]) = 0 /\ Hi(B2[t.root]) = Len(G) + 1
  BY <1>7, <1>8 DEF Stays
<1>10. \A y \in Nodes(x) : h2[y] <= h2[t.root]
  BY <1>2, <1>3, <1>7, <1>8
<1>11. Rooted(x, h2, B2, G)
  BY <1>2, <1>7, <1>9, <1>10 DEF Rooted
<1> QED BY <1>5, <1>11 DEF Kept

\* Where the pair lies in n.
PairEndsAt(t, h, B, n, c, P) ==
    /\ Bounds(B[n], Size(t, n)) /\ Lo(P) = B[n][c] /\ Hi(P) = B[n][c + 2]
\* A pair fills two slots of its parent.
LEMMA PairIsAt ==
    ASSUME NEW t, NEW h, NEW B, NEW G, NEW n, NEW c, NEW a, NEW b, NEW w, NEW P,
           PairAt(t, h, B, G, n, c, a, b, w, P)
    PROVE  PairEndsAt(t, h, B, n, c, P)
<1>1. /\ Standing(t, h, B, G) /\ n \in Nodes(t) /\ c \in 1 .. Size(t, n)
      /\ IsKid(t, h, B, n, c, a) /\ IsKid(t, h, B, n, c + 1, b) /\ Lo(P) = Lo(B[a]) /\ Hi(P) = Hi(B[b])
  BY ZenonT(40) DEF PairAt
<1>2. Bounds(B[n], Size(t, n))
  BY <1>1, NodeIs DEF Standing
<1>3. c \in Nat
  BY <1>1, <1>2, InnerIs
<1>4. c + 1 + 1 = c + 2
  BY <1>3
<1> QED BY <1>1, <1>2, <1>4, SMTT(40) DEF PairEndsAt, IsKid

\* The parent fits without the element between them, and its counts are right.
LEMMA MergeNodeFits ==
    ASSUME NEW t, NEW h, NEW B, NEW G, NEW n, NEW c, NEW a, NEW b, NEW w, NEW P,
           PairAt(t, h, B, G, n, c, a, b, w, P), NEW keep, NEW gone, {keep, gone} = {a, b},
           NEW k, k \in Nat, k >= 1, Size(t, n) = k + 1,
           NEW x, IsMerged(x, t, n, k, c, keep, gone, w, Length(P)), NEW h2, NEW B2,
           IsMergeLayout(Nodes(x), t, n, keep, gone, h, B, P, h2, B2), IsClosed(B2[n], B[n], k, c)
    PROVE  /\ NodeFits(h2, B2, G, x.nodes[n], B2[n], h2[n]) /\ Exact(x.nodes[n], B2[n])
           /\ HasSize(x.nodes[n], k)
<1> DEFINE node == t.nodes[n]
<1>1. /\ Standing(t, h, B, G) /\ Counted(t, B) /\ n \in Nodes(t) /\ c \in 1 .. k + 1
      /\ a = node.kids[c] /\ b = node.kids[c + 1] /\ a # NULL /\ b # NULL
  BY ZenonT(40) DEF PairAt, IsKid
<1>2. MergeFacts(t, h, B, G, n, w, P, keep, gone)
  BY MergeFactsAre
<1>3. /\ node \in Node234 /\ NodeFits(h, B, G, node, B[n], h[n]) /\ HasSize(node, k + 1)
      /\ DOMAIN h = Nodes(t) /\ Bounds(B[n], k + 1)
  BY <1>1, NodeIs DEF Standing, HasSize, Size
<1>4. /\ n \in Nodes(x) /\ keep \in Nodes(x) /\ h2[n] = h[n] /\ h2[keep] = h[keep] /\ DOMAIN h2 = Nodes(x) /\ B2[keep] = P
      /\ h[n] = h[keep] + 1 /\ h[keep] \in Nat /\ keep \in Nodes(t) /\ gone \in Nodes(t) /\ gone # n /\ keep # n
      /\ t.nodes[keep].parent = n /\ t.nodes[gone].parent = n
      /\ Nodes(x) = Nodes(t) \ {gone}
  <2>1. Nodes(x) = Nodes(t) \ {gone}
    BY DEF IsMerged
  <2> QED BY <1>1, <1>2, <2>1 DEF MergeFacts, IsMergeLayout
<1>5. h[n] # 0 /\ h[keep] = h[n] - 1
  BY ONLY <1>4
<1>6. KidFits(h2, B2, keep, h[n], B[n][c], B[n][c + 2])
  <2>1. Lo(P) = B[n][c] /\ Hi(P) = B[n][c + 2]
    BY PairIsAt DEF PairEndsAt
  <2> QED BY <1>4, <1>5, <2>1 DEF KidFits
<1>7. c \in 1 .. k + 2 /\ c + 1 \in 1 .. k + 2
  BY ONLY <1>1, k \in Nat
<1>8. ASSUME NEW i, i \in 1 .. k + 2, i # c, i # c + 1 PROVE KidFits(h2, B2, node.kids[i], h[n], B[n][i], B[n][i + 1])
  <2>0. \A d : d \in 1 .. k + 2 => d \in 1 .. Size(t, n) + 1
    <3>1. Size(t, n) + 1 = k + 2
      OBVIOUS
    <3> QED BY <3>1
  <2>1. PICK j : j = node.kids[i]
    BY SMTT(40)
  <2>2. IsKid(t, h, B, n, i, j)
    BY <1>1, <1>5, <1>8, <2>0, <2>1, KidIs DEF Standing
  <2>3. j # a /\ j # b
    <3>1. ASSUME NEW d, d \in 1 .. k + 2, d # i PROVE node.kids[i] # node.kids[d] \/ node.kids[d] = NULL
      BY <1>1, <1>8, <2>0, <3>1, KidSlots
    <3>2. node.kids[i] # node.kids[c] /\ node.kids[i] # node.kids[c + 1]
      BY <1>1, <1>7, <1>8, <3>1, ZenonT(40)
    <3> QED BY <1>1, <2>1, <3>2
  <2>4. j \in Nodes(t) /\ t.nodes[j].parent = n
    BY <1>1, <1>5, <1>8, <2>0, <2>1, KidIs DEF Standing, IsKid
  <2>5. j # keep /\ j # gone /\ j # n
    <3>1. n \notin Kids(t, n)
      <4>1. n \in Kids(t, n) => h[n] = h[n] + 1
        BY <1>1, ParentHeight
      <4> QED BY <1>4, <4>1
    <3>2. j \in Kids(t, n)
      BY <1>1, <2>4 DEF Standing, Linked, Kids
    <3> QED BY <2>3, <3>1, <3>2
  <2>6. Stays(h, B, h2, B2, j)
    BY <2>4, <2>5, MergeStays
  <2> QED BY <1>5, <2>1, <2>2, <2>6 DEF KidFits, Stays, IsKid
<1>9. IsLess(x.nodes[n], node, k, c, keep, Length(P))
  BY DEF IsMerged
<1> HIDE DEF node
<1>10. PICK y, b1, b2, x2, cl : y = h[n] /\ b1 = B[n] /\ b2 = B2[n] /\ x2 = x.nodes[n] /\ cl = Length(P)
  OBVIOUS
<1>11. /\ NodeFits(h, B, G, node, b1, y) /\ HasSize(node, k + 1) /\ IsLess(x2, node, k, c, keep, cl)
       /\ IsClosed(b2, b1, k, c) /\ KidFits(h2, B2, keep, y, b1[c], b1[c + 2]) /\ c \in 1 .. k + 1
  BY <1>1, <1>3, <1>6, <1>9, <1>10
<1>12. \A i \in 1 .. k + 2 : i # c /\ i # c + 1 => KidFits(h2, B2, node.kids[i], y, b1[i], b1[i + 1])
  BY <1>8, <1>10
<1>13. IsResetFit(h2, B2, G, x2, b2, y) /\ HasSize(x2, k)
  BY ONLY <1>11, <1>12, k \in Nat, k >= 1, LessFits
<1>14. Exact(x2, b2)
  <2>1. Exact(node, b1)
    BY <1>1, <1>10 DEF Counted, node
  <2>2. Len(node.counts) = k + 2
    <3>1. Len(node.counts) = Len(node.elems) + 1 /\ Len(node.elems) = k + 1
      BY <1>3 DEF NodeFits, HasSize
    <3>2. PICK m : m = Len(node.elems)
      OBVIOUS
    <3> QED BY <3>1
  <2>3. cl = b1[c + 2] - b1[c] - 1
    <3>1. Lo(P) = B[n][c] /\ Hi(P) = B[n][c + 2]
      BY PairIsAt DEF PairEndsAt
    <3> QED BY <1>10, <3>1 DEF Length
  <2> QED BY ONLY <1>11, <2>1, <2>2, <2>3, k \in Nat, LessCounts
<1> QED BY <1>4, <1>10, <1>13, <1>14, SMTT(40) DEF IsResetFit

\* The pair is now in keep.
IsJoined(x, t, h2, B2, G, keep, P, w, total) ==
    /\ Standing(x, h2, B2, G) /\ Counted(x, B2) /\ Sized(x) /\ x.sorted = t.sorted
    /\ keep \in Nodes(x) /\ B2[keep] = P /\ Content(x.nodes[keep], w) /\ Size(x, keep) = total
\* Joining two kids of a node with more than one element leaves a whole tree of the same
\* list.
LEMMA MergeStands ==
    ASSUME NEW t, NEW h, NEW B, NEW G, NEW n, NEW c, NEW a, NEW b, NEW w, NEW P,
           PairAt(t, h, B, G, n, c, a, b, w, P), Sized(t), NEW keep, NEW gone, {keep, gone} = {a, b},
           NEW total, total \in 1 .. 3, HasSize(w, total),
           NEW k, k \in Nat, k >= 1, Size(t, n) = k + 1,
           NEW x, IsMerged(x, t, n, k, c, keep, gone, w, Length(P))
    PROVE  \E h2, B2 : IsJoined(x, t, h2, B2, G, keep, P, w, total)
<1>1. MergeFacts(t, h, B, G, n, w, P, keep, gone)
  BY MergeFactsAre
<1>2. /\ Standing(t, h, B, G) /\ n \in Nodes(t) /\ keep \in Nodes(t) /\ gone \in Nodes(t) /\ gone # n /\ keep # n /\ keep # gone
      /\ Exact(w, P)
  BY <1>1 DEF MergeFacts
<1>3. /\ IsTree(x) /\ Nodes(x) = Nodes(t) \ {gone} /\ x.root = t.root /\ x.sorted = t.sorted
      /\ Content(x.nodes[keep], w)
      /\ \A y \in Nodes(x) : y # keep /\ y # n => Content(x.nodes[y], t.nodes[y])
  BY DEF IsMerged
<1>4. PICK b2 : b2 = RemoveAt(B[n], c + 1)
  OBVIOUS
<1>5. IsClosed(b2, B[n], k, c)
  <2>1. Bounds(B[n], k + 1) /\ c \in 1 .. k + 1
    <3>1. Bounds(B[n], Size(t, n)) /\ c \in 1 .. Size(t, n)
      <4>1. PairEndsAt(t, h, B, n, c, P)
        BY PairIsAt, SMTT(40)
      <4>2. c \in 1 .. Size(t, n)
        BY ZenonT(40) DEF PairAt
      <4> QED BY <4>1, <4>2 DEF PairEndsAt
    <3> QED BY <3>1
  <2> QED BY <1>4, <2>1, ClosedIs
<1>6. PICK X, h2, B2 : /\ X = Nodes(x) /\ h2 = MergeHeights(X, h)
                       /\ B2 = [y \in X |-> IF y = keep THEN P ELSE IF y = n THEN b2 ELSE B[y]]
  OBVIOUS
<1>7. IsMergeLayout(X, t, n, keep, gone, h, B, P, h2, B2)
  <2>1. X \in SUBSET Nodes(t) /\ keep \in X /\ \A y \in Nodes(t) : y # gone /\ y # n => y \in X
    BY <1>2, <1>3, <1>6
  <2>2. b2 \in Seq(Nat)
    BY <1>5 DEF IsClosed
  <2> QED BY <1>1, <1>6, <2>1, <2>2, MergeLayout
<1>8. /\ h2 \in [X -> Nat] /\ B2 \in [X -> Seq(Nat)] /\ B2[keep] = P
      /\ \A y \in X : h2[y] = h[y] /\ (y # keep /\ y # n => B2[y] = B[y])
  BY <1>7 DEF IsMergeLayout
<1>9. n \in X /\ keep \in X /\ B2[n] = b2 /\ IsClosed(B2[n], B[n], k, c)
  BY <1>2, <1>3, <1>5, <1>6
<1>10. NodeFits(h2, B2, G, x.nodes[n], B2[n], h2[n]) /\ Exact(x.nodes[n], B2[n]) /\ HasSize(x.nodes[n], k)
  BY <1>6, <1>7, <1>9, MergeNodeFits
<1>11. NodeFits(h2, B2, G, x.nodes[keep], B2[keep], h2[keep])
  <2>1. NodeFits(h2, B2, G, x.nodes[keep], P, h[keep])
    BY <1>1, <1>3, <1>7, MergePartFits
  <2> QED BY <1>8, <1>9, <2>1
<1>12. Standing(x, h2, B2, G)
  <2>1. Relinks(t, x, {keep, n})
    BY <1>1, MergeKidsAre, MergeRelinks
  <2>2. Kept(t, h, B, x, h2, B2, {keep, n}) /\ Rooted(x, h2, B2, G)
    BY <1>1, <1>6, <1>7, <1>9, MergeKept
  <2>3. \A y \in {keep, n} : NodeFits(h2, B2, G, x.nodes[y], B2[y], h2[y])
    BY <1>10, <1>11
  <2>4. Rebuilt(t, h, B, x, h2, B2, {keep, n}, G)
    BY <1>3, <1>6, <1>8, <2>1, <2>2, <2>3 DEF Rebuilt
  <2> QED BY <1>2, <2>4, RebuiltStands
<1>13. Counted(x, B2)
  <2>1. Exact(x.nodes[keep], B2[keep])
    BY <1>2, <1>3, <1>8 DEF Content, Exact
  <2>2. ASSUME NEW y \in Nodes(x), y # keep, y # n PROVE Exact(x.nodes[y], B2[y])
    <3>1. y \in Nodes(t) /\ B2[y] = B[y] /\ x.nodes[y].counts = t.nodes[y].counts
      BY <1>3, <1>6, <1>8, <2>2 DEF Content
    <3>2. Exact(t.nodes[y], B[y])
      BY <3>1, ZenonT(40) DEF Counted, PairAt
    <3> QED BY <3>1, <3>2 DEF Exact
  <2> QED BY <1>10, <2>1, <2>2 DEF Counted
<1>14. Size(x, keep) = total /\ Size(x, n) = k
  BY <1>3, <1>10 DEF Size, HasSize, Content
<1>15. Sized(x)
  <2>1. k \in 1 .. 3
    <3>1. Size(t, n) \in 1 .. 3
      BY <1>2 DEF Sized
    <3> QED BY <3>1
  <2>2. ASSUME NEW y \in Nodes(x), y # keep, y # n PROVE Size(x, y) \in 1 .. 3
    <3>1. y \in Nodes(t) /\ x.nodes[y].elems = t.nodes[y].elems
      BY <1>3, <2>2 DEF Content
    <3> QED BY <3>1 DEF Sized, Size
  <2> QED BY <1>14, <2>1, <2>2 DEF Sized
<1>16. IsJoined(x, t, h2, B2, G, keep, P, w, total)
  BY <1>3, <1>6, <1>8, <1>9, <1>12, <1>13, <1>14, <1>15 DEF IsJoined
<1> QED BY <1>16

\* Node keep becomes the root, and n is freed.
Raised(u, n, keep) == Freed([u EXCEPT !.root = keep, !.nodes[keep].parent = NULL], n)
IsRaised(x, u, n, keep) ==
    /\ IsTree(x) /\ Nodes(x) = Nodes(u) \ {n} /\ x.root = keep /\ x.sorted = u.sorted
    /\ Content(x.nodes[keep], u.nodes[keep]) /\ x.nodes[keep].parent = NULL
    /\ \A y \in Nodes(x) : y # keep => x.nodes[y] = u.nodes[y]
\* Raised makes keep the root and frees n.
LEMMA RaisedIs ==
    ASSUME NEW u, IsTree(u), NEW keep, keep \in Nodes(u), NEW n, n # keep
    PROVE  IsRaised(Raised(u, n, keep), u, n, keep)
<1>1. PICK node : node = [u.nodes[keep] EXCEPT !.parent = NULL]
  OBVIOUS
<1>2. u.nodes[keep] \in Node234
  BY TreeNodes DEF NodesAre
<1>3. node \in Node234 /\ Content(node, u.nodes[keep]) /\ node.parent = NULL
  BY <1>1, <1>2 DEF Node234, Content, NULL
<1>4. PICK v : v = SetIn(u, keep, node)
  OBVIOUS
<1>5. IsSetIn(v, u, keep, node)
  BY <1>3, <1>4, SetInIs
<1>6. /\ IsTree(v) /\ Nodes(v) = Nodes(u) /\ v.sorted = u.sorted /\ v.nodes[keep] = node
      /\ \A y \in Nodes(u) : y # keep => v.nodes[y] = u.nodes[y]
  BY <1>5 DEF IsSetIn
<1>7. PICK v2 : v2 = [v EXCEPT !.root = keep]
  OBVIOUS
<1>8. v2 = [u EXCEPT !.root = keep, !.nodes[keep].parent = NULL]
  BY <1>1, <1>4, <1>7 DEF SetIn, IsTree
<1>9. IsTree(v2) /\ v2.nodes = v.nodes /\ v2.root = keep /\ v2.sorted = v.sorted /\ Nodes(v2) = Nodes(v)
  <2>1. v \in [root : Nat, nodes : Heaps(Nodes(v)), sorted : BOOLEAN] /\ Nodes(v) \in SUBSET (Nat \ {0})
        /\ IsFiniteSet(Nodes(v))
    BY <1>6 DEF IsTree
  <2>2. keep \in Nat
    BY <1>6, <2>1
  <2>3. PICK D, H : D = Nodes(v) /\ H = Heaps(D)
    OBVIOUS
  <2>4. v \in [root : Nat, nodes : H, sorted : BOOLEAN]
    BY <2>1, <2>3
  <2>5. v2 \in [root : Nat, nodes : H, sorted : BOOLEAN] /\ v2.nodes = v.nodes /\ v2.root = keep /\ v2.sorted = v.sorted
    BY ONLY <1>7, <2>2, <2>4
  <2>6. Nodes(v2) = D
    BY <2>3, <2>5 DEF Nodes
  <2> QED BY <2>1, <2>3, <2>5, <2>6 DEF IsTree
<1>10. PICK x : x = Freed(v2, n)
  OBVIOUS
<1>11. /\ IsTree(x) /\ Nodes(x) = Nodes(v2) \ {n} /\ x.root = v2.root /\ x.sorted = v2.sorted
       /\ \A y \in Nodes(x) : x.nodes[y] = v2.nodes[y]
  BY <1>9, <1>10, FreedIs
<1>12. keep \in Nodes(x) /\ x.nodes[keep] = node
  BY <1>6, <1>9, <1>11
<1>13. \A y \in Nodes(x) : y # keep => x.nodes[y] = u.nodes[y]
  BY <1>6, <1>9, <1>11
<1>14. IsRaised(x, u, n, keep)
  BY <1>3, <1>6, <1>9, <1>11, <1>12, <1>13 DEF IsRaised
<1> QED BY <1>8, <1>10, <1>14 DEF Raised

\* After the kids of a root with one element have been joined.
LEMMA JoinedIs ==
    ASSUME NEW t, NEW n, NEW c, NEW keep, NEW k, k \in Nat, NEW u, u = Merged(t, n, c, keep),
           u.nodes[n].elems \in Seq(Int), Len(u.nodes[n].elems) = k
    PROVE  /\ k >= 1 => Joined(t, n, c, keep) = u
           /\ k = 0 => Joined(t, n, c, keep) = Raised(u, n, keep)
<1>1. PICK s : s = u.nodes[n].elems
  OBVIOUS
<1>2. k >= 1 => s # <<>>
  BY <1>1
<1>3. k = 0 => s = <<>>
  BY <1>1
<1>4. Joined(t, n, c, keep) = IF s # <<>> THEN u ELSE Raised(u, n, keep)
  BY <1>1 DEF Joined, Raised
<1> QED BY <1>2, <1>3, <1>4

\* The root had one element only, and its two kids are one now.
RaisedFacts(t, h, B, G, n, P, keep, gone, w, x) ==
    /\ n = t.root /\ Kids(t, n) \in SUBSET {keep, gone} /\ Lo(P) = 0 /\ Hi(P) = Len(G) + 1
    /\ \A y \in Nodes(t) : y # n => h[y] <= h[keep]
    /\ IsTree(x) /\ Nodes(x) = Nodes(t) \ {gone, n} /\ x.root = keep /\ x.sorted = t.sorted
    /\ Content(x.nodes[keep], w)
    /\ \A y \in Nodes(x) : y # keep => Content(x.nodes[y], t.nodes[y])
    /\ \A y \in Nodes(x) : x.nodes[y].parent = IF y = keep THEN NULL
                                               ELSE IF y \in ToSet(w.kids) THEN keep ELSE t.nodes[y].parent
\* These facts hold when the kids of a root with one element have been joined.
LEMMA RaisedFactsAre ==
    ASSUME NEW t, NEW h, NEW B, NEW G, NEW n, NEW c, NEW a, NEW b, NEW w, NEW P,
           PairAt(t, h, B, G, n, c, a, b, w, P), NEW keep, NEW gone, {keep, gone} = {a, b},
           n = t.root, Size(t, n) = 1, NEW cl,
           NEW u, IsMerged(u, t, n, 0, c, keep, gone, w, cl), NEW x, x = Raised(u, n, keep)
    PROVE  RaisedFacts(t, h, B, G, n, P, keep, gone, w, x)
<1>1. MergeFacts(t, h, B, G, n, w, P, keep, gone)
  BY MergeFactsAre
<1>2. /\ Standing(t, h, B, G) /\ n \in Nodes(t) /\ keep \in Nodes(t) /\ gone \in Nodes(t)
      /\ keep # gone /\ keep # n /\ gone # n /\ h[n] = h[keep] + 1 /\ h[keep] \in Nat /\ NULL \notin Nodes(t)
  BY <1>1 DEF MergeFacts
<1>3. /\ IsTree(u) /\ Nodes(u) = Nodes(t) \ {gone} /\ u.sorted = t.sorted /\ Content(u.nodes[keep], w)
      /\ \A y \in Nodes(u) : y # keep /\ y # n => Content(u.nodes[y], t.nodes[y])
      /\ \A y \in Nodes(u) : u.nodes[y].parent = IF y \in ToSet(w.kids) THEN keep ELSE t.nodes[y].parent
  BY DEF IsMerged
<1>4. IsRaised(x, u, n, keep)
  BY <1>2, <1>3, RaisedIs
<1>5. /\ IsTree(x) /\ Nodes(x) = Nodes(u) \ {n} /\ x.root = keep /\ x.sorted = u.sorted
      /\ Content(x.nodes[keep], u.nodes[keep]) /\ x.nodes[keep].parent = NULL
      /\ \A y \in Nodes(x) : y # keep => x.nodes[y] = u.nodes[y]
  BY <1>4 DEF IsRaised
<1>6. c = 1
  <2>1. c \in 1 .. Size(t, n)
    BY ZenonT(40) DEF PairAt
  <2> QED BY ONLY <2>1, Size(t, n) = 1, SMTT(40)
<1>7. Kids(t, n) \in SUBSET {keep, gone}
  <2>1. /\ a = t.nodes[n].kids[1] /\ b = t.nodes[n].kids[1 + 1]
    BY <1>6, ZenonT(40) DEF PairAt
  <2>2. t.nodes[n] \in Node234 /\ NodeFits(h, B, G, t.nodes[n], B[n], h[n]) /\ Len(t.nodes[n].elems) = 1
    BY <1>2, NodeIs DEF Standing, Size
  <2>3. DOMAIN t.nodes[n].kids = 1 .. 2
    <3>1. PICK y, s : y = t.nodes[n] /\ s = t.nodes[n].kids
      OBVIOUS
    <3>2. DOMAIN s = 1 .. Len(y.elems) + 1
      BY <2>2, <3>1, PartsAre
    <3> QED BY <2>2, <3>1, <3>2
  <2> QED BY <2>1, <2>3, SMTT(40) DEF Kids, ToSet
<1>8. Lo(P) = Lo(B[n]) /\ Hi(P) = Hi(B[n])
  <2>1. PairEndsAt(t, h, B, n, c, P)
    BY PairIsAt
  <2>2. Lo(P) = B[n][1] /\ Hi(P) = B[n][1 + 2] /\ Bounds(B[n], 1)
    BY <1>6, <2>1 DEF PairEndsAt
  <2> QED BY <2>2 DEF Bounds
<1>9. Lo(B[n]) = 0 /\ Hi(B[n]) = Len(G) + 1 /\ \A y \in Nodes(t) : h[y] <= h[n]
  BY <1>2 DEF Standing, Layout
<1>10. ASSUME NEW y \in Nodes(t), y # n PROVE h[y] <= h[keep]
  <2>1. h[y] \in Nat /\ h[y] <= h[n] /\ Bounds(B[y], Size(t, y)) /\ Hi(B[y]) <= Len(G) + 1
    BY <1>2, <1>9, NodeIs DEF Standing
  <2>2. h[y] # h[n]
    <3>1. PICK lo, hi, m : lo = Lo(B[y]) /\ hi = Hi(B[y]) /\ m = Len(G)
      OBVIOUS
    <3>2. lo \in Nat /\ hi \in Nat /\ lo < hi /\ hi <= m + 1
      BY <2>1, <3>1, EndsAre
    <3>3. m \in Nat
      BY <1>2, <3>1, NodeIs DEF Standing
    <3>4. Covers(B[y], lo) /\ Covers(B[n], lo)
      BY <1>9, <3>1, <3>2, <3>3 DEF Covers
    <3> QED BY <1>2, <1>10, <3>2, <3>4, SameGap
  <2> QED BY ONLY <1>2, <2>1, <2>2
<1>11. ASSUME NEW y \in Nodes(x), y # keep PROVE Content(x.nodes[y], t.nodes[y])
  BY <1>3, <1>5, <1>11
<1>12. Content(x.nodes[keep], w)
  BY <1>3, <1>5 DEF Content
<1>13. \A y \in Nodes(x) : x.nodes[y].parent = IF y = keep THEN NULL
                                               ELSE IF y \in ToSet(w.kids) THEN keep ELSE t.nodes[y].parent
  BY <1>3, <1>5
<1>14. Nodes(x) = Nodes(t) \ {gone, n}
  BY <1>3, <1>5
<1> QED BY <1>3, <1>5, <1>7, <1>8, <1>9, <1>10, <1>11, <1>12, <1>13, <1>14 DEF RaisedFacts

\* Only the new root has new kids.
LEMMA RaisedRelinks ==
    ASSUME NEW t, NEW h, NEW B, NEW G, NEW n, NEW w, NEW P, NEW keep, NEW gone,
           MergeFacts(t, h, B, G, n, w, P, keep, gone), NEW x,
           RaisedFacts(t, h, B, G, n, P, keep, gone, w, x)
    PROVE  Relinks(t, x, {keep})
<1> DEFINE E == {keep}
           mine == ToSet(w.kids)
<1>1. /\ Standing(t, h, B, G) /\ n \in Nodes(t) /\ keep \in Nodes(t) /\ gone \in Nodes(t)
      /\ keep # gone /\ keep # n /\ gone # n /\ NULL \notin Nodes(t)
      /\ t.nodes[keep].parent = n /\ t.nodes[gone].parent = n
      /\ mine = Kids(t, keep) \cup Kids(t, gone)
  BY DEF MergeFacts
<1>2. /\ n = t.root /\ Kids(t, n) \in SUBSET {keep, gone}
      /\ Nodes(x) = Nodes(t) \ {gone, n} /\ x.root = keep
      /\ \A y \in Nodes(x) : y # keep => Content(x.nodes[y], t.nodes[y])
      /\ \A y \in Nodes(x) : x.nodes[y].parent = IF y = keep THEN NULL
                                                 ELSE IF y \in mine THEN keep ELSE t.nodes[y].parent
  BY DEF RaisedFacts
<1>3. Kids(x, keep) = mine
  BY DEF RaisedFacts, Content, Kids
<1>5. \A y \in Nodes(t) : \A y2 \in Kids(t, y) : y2 # NULL =>
         /\ y2 \in Nodes(t) /\ t.nodes[y2].parent = y /\ y2 # t.root /\ y2 # y
         /\ \A z \in Nodes(t) : y2 \in Kids(t, z) => z = y
  BY <1>1, KidFacts
<1> HIDE DEF mine
<1>6. E \in SUBSET Nodes(x) /\ Nodes(x) \ E = Nodes(t) \ {gone, keep, n}
  BY <1>1, <1>2
<1>7. \A y \in Nodes(x) \ E : y \in Nodes(t) /\ x.nodes[y].kids = t.nodes[y].kids
  BY <1>2, <1>6 DEF Content
<1>4. keep \in Kids(t, n)
  BY <1>1 DEF Standing, Linked, Kids
<1>8. ASSUME NEW y \in E, NEW j \in Nodes(x), j \in Kids(x, y)
      PROVE  /\ x.nodes[j].parent = y /\ j # x.root
             /\ \A z \in Nodes(x) \ E : j \notin Kids(t, z)
  <2>1. j \in Nodes(t) /\ j # NULL /\ j \in mine /\ y = keep
    BY <1>1, <1>2, <1>3, <1>8
  <2>2. PICK z \in {keep, gone} : j \in Kids(t, z)
    BY <1>1, <2>1
  <2>3. t.nodes[j].parent = z /\ j # t.root /\ \A z2 \in Nodes(t) : j \in Kids(t, z2) => z2 = z
    BY <1>1, <1>5, <2>1, <2>2
  <2>4. \A z2 \in Nodes(x) \ E : j \notin Kids(t, z2)
    BY <1>6, <2>2, <2>3
  <2>5. j # keep
    BY <1>1, <2>2, <2>3
  <2> QED BY <1>2, <1>8, <2>1, <2>4, <2>5
<1>9. ASSUME NEW j \in Nodes(x), \A y \in E : j \notin Kids(x, y)
      PROVE  IF j = x.root THEN x.nodes[j].parent = NULL /\ \A z \in Nodes(x) \ E : j \notin Kids(t, z)
             ELSE /\ j \in Nodes(t) /\ x.nodes[j].parent = t.nodes[j].parent
                  /\ t.nodes[j].parent \in Nodes(x) \ E
  <2>1. j \notin mine /\ j \in Nodes(t) /\ j # gone /\ j # n /\ j # NULL
    BY <1>1, <1>2, <1>3, <1>9
  <2>2. j \notin Kids(t, keep) /\ j \notin Kids(t, gone)
    BY <1>1, <2>1
  <2>4. Linked(t)
    BY <1>1 DEF Standing
  <2>5. CASE j = x.root
    <3>1. j = keep /\ \A z \in Nodes(t) : j \in Kids(t, z) => z = n
      BY <1>1, <1>2, <1>4, <1>5, <2>1, <2>5
    <3> QED BY <1>2, <1>6, <1>9, <2>5, <3>1
  <2>6. CASE j # x.root
    <3>1. t.nodes[j].parent \in Nodes(t)
      BY <1>2, <2>1, <2>4 DEF Linked
    <3>2. \A y \in Nodes(t) : t.nodes[j].parent = y => j \in Kids(t, y)
      BY <2>1, <2>4 DEF Linked, Kids
    <3>3. t.nodes[j].parent # keep /\ t.nodes[j].parent # gone /\ t.nodes[j].parent # n
      BY <1>1, <1>2, <2>1, <2>2, <2>6, <3>2
    <3>4. t.nodes[j].parent \in Nodes(x) \ E
      BY <1>6, <3>1, <3>3
    <3> QED BY <1>2, <1>9, <2>1, <2>6, <3>4
  <2> QED BY <2>5, <2>6
<1> HIDE DEF E
<1>10. Relinks(t, x, E)
  BY <1>6, <1>7, <1>8, <1>9 DEF Relinks
<1> QED BY <1>10 DEF E

\* All other nodes are as they were, and the new root covers the list.
LEMMA RaisedKept ==
    ASSUME NEW t, NEW h, NEW B, NEW G, NEW n, NEW w, NEW P, NEW keep, NEW gone,
           MergeFacts(t, h, B, G, n, w, P, keep, gone), NEW x,
           RaisedFacts(t, h, B, G, n, P, keep, gone, w, x), NEW h2, NEW B2,
           IsMergeLayout(Nodes(x), t, n, keep, gone, h, B, P, h2, B2)
    PROVE  Kept(t, h, B, x, h2, B2, {keep}) /\ Rooted(x, h2, B2, G)
<1>1. /\ Standing(t, h, B, G) /\ n \in Nodes(t) /\ keep \in Nodes(t) /\ gone \in Nodes(t)
      /\ t.nodes[keep].parent = n /\ t.nodes[gone].parent = n /\ NULL \notin Nodes(t)
      /\ keep # t.root /\ gone # t.root /\ gone # n /\ keep # n /\ keep # gone
  BY DEF MergeFacts
<1>2. /\ Nodes(x) = Nodes(t) \ {gone, n} /\ x.root = keep /\ n = t.root
      /\ \A y \in Nodes(x) : y # keep => Content(x.nodes[y], t.nodes[y])
      /\ Lo(P) = 0 /\ Hi(P) = Len(G) + 1 /\ \A y \in Nodes(t) : y # n => h[y] <= h[keep]
  BY DEF RaisedFacts
<1>3. /\ \A y \in Nodes(x) : h2[y] = h[y] /\ (y # keep /\ y # n => B2[y] = B[y])
      /\ B2[keep] = P
  BY DEF IsMergeLayout
<1>4. \A y \in Nodes(t) : y # keep /\ y # gone /\ y # n => Stays(h, B, h2, B2, y)
  BY MergeStays
<1>5. ASSUME NEW y \in Nodes(x) \ {keep}
      PROVE  /\ Content(x.nodes[y], t.nodes[y]) /\ h2[y] = h[y] /\ B2[y] = B[y]
             /\ \A j \in Kids(t, y) : j \in Nodes(t) => Stays(h, B, h2, B2, j)
  <2>1. ASSUME NEW j \in Kids(t, y), j \in Nodes(t) PROVE Stays(h, B, h2, B2, j)
    <3>1. t.nodes[j].parent = y /\ j # t.root
      BY <1>1, <1>2, <1>5, <2>1, KidFacts
    <3>2. j # keep /\ j # gone /\ j # n
      BY <1>1, <1>2, <1>5, <3>1
    <3> QED BY <1>4, <2>1, <3>2
  <2> QED BY <1>2, <1>3, <1>5, <2>1
<1>6. keep \in Nodes(x) /\ keep # NULL
  BY <1>1, <1>2
<1>7. \A y \in Nodes(x) : h2[y] <= h2[keep]
  BY <1>2, <1>3, <1>6
<1>8. Rooted(x, h2, B2, G)
  BY <1>2, <1>3, <1>6, <1>7 DEF Rooted
<1> QED BY <1>5, <1>8 DEF Kept

\* Then too the tree is whole, and one lower.
LEMMA RaisedStands ==
    ASSUME NEW t, NEW h, NEW B, NEW G, NEW n, NEW w, NEW P, NEW keep, NEW gone,
           MergeFacts(t, h, B, G, n, w, P, keep, gone), Counted(t, B), Sized(t),
           NEW total, total \in 1 .. 3, HasSize(w, total),
           NEW x, RaisedFacts(t, h, B, G, n, P, keep, gone, w, x)
    PROVE  \E h2, B2 : IsJoined(x, t, h2, B2, G, keep, P, w, total)
<1>1. /\ Standing(t, h, B, G) /\ n \in Nodes(t) /\ keep \in Nodes(t) /\ gone \in Nodes(t) /\ gone # n /\ keep # n /\ keep # gone
      /\ Exact(w, P)
  BY DEF MergeFacts
<1>2. /\ IsTree(x) /\ Nodes(x) = Nodes(t) \ {gone, n} /\ x.root = keep /\ x.sorted = t.sorted
      /\ Content(x.nodes[keep], w)
      /\ \A y \in Nodes(x) : y # keep => Content(x.nodes[y], t.nodes[y])
  BY DEF RaisedFacts
<1>3. PICK X, h2, B2, b2 : /\ X = Nodes(x) /\ h2 = MergeHeights(X, h) /\ b2 = P
                           /\ B2 = [y \in X |-> IF y = keep THEN P ELSE IF y = n THEN b2 ELSE B[y]]
  OBVIOUS
<1>4. IsMergeLayout(X, t, n, keep, gone, h, B, P, h2, B2)
  <2>1. X \in SUBSET Nodes(t) /\ keep \in X /\ \A y \in Nodes(t) : y # gone /\ y # n => y \in X
    BY <1>1, <1>2, <1>3
  <2>2. b2 \in Seq(Nat)
    BY <1>3 DEF MergeFacts
  <2> QED BY <1>3, <2>1, <2>2, MergeLayout
<1>5. /\ h2 \in [X -> Nat] /\ B2 \in [X -> Seq(Nat)] /\ B2[keep] = P
      /\ \A y \in X : h2[y] = h[y] /\ (y # keep /\ y # n => B2[y] = B[y])
  BY <1>4 DEF IsMergeLayout
<1>6. keep \in X /\ n \notin X
  BY <1>1, <1>2, <1>3
<1>7. NodeFits(h2, B2, G, x.nodes[keep], B2[keep], h2[keep])
  <2>1. NodeFits(h2, B2, G, x.nodes[keep], P, h[keep])
    BY <1>2, <1>4, MergePartFits
  <2> QED BY <1>5, <1>6, <2>1
<1>8. Standing(x, h2, B2, G)
  <2>1. Relinks(t, x, {keep})
    BY RaisedRelinks
  <2>2. Kept(t, h, B, x, h2, B2, {keep}) /\ Rooted(x, h2, B2, G)
    BY <1>3, <1>4, RaisedKept
  <2>3. \A y \in {keep} : NodeFits(h2, B2, G, x.nodes[y], B2[y], h2[y])
    BY <1>7
  <2>4. Rebuilt(t, h, B, x, h2, B2, {keep}, G)
    BY <1>2, <1>3, <1>5, <2>1, <2>2, <2>3 DEF Rebuilt
  <2> QED BY <1>1, <2>4, RebuiltStands
<1>9. Counted(x, B2)
  <2>1. Exact(x.nodes[keep], B2[keep])
    BY <1>1, <1>2, <1>5 DEF Content, Exact
  <2>2. ASSUME NEW y \in Nodes(x), y # keep PROVE Exact(x.nodes[y], B2[y])
    <3>1. y \in Nodes(t) /\ B2[y] = B[y] /\ x.nodes[y].counts = t.nodes[y].counts
      BY <1>2, <1>3, <1>5, <1>6, <2>2 DEF Content
    <3>2. Exact(t.nodes[y], B[y])
      BY <3>1 DEF Counted
    <3> QED BY <3>1, <3>2 DEF Exact
  <2> QED BY <2>1, <2>2 DEF Counted
<1>10. Size(x, keep) = total
  BY <1>2 DEF Size, HasSize, Content
<1>11. Sized(x)
  <2>1. ASSUME NEW y \in Nodes(x), y # keep PROVE Size(x, y) \in 1 .. 3
    <3>1. y \in Nodes(t) /\ x.nodes[y].elems = t.nodes[y].elems
      BY <1>2, <2>1 DEF Content
    <3> QED BY <3>1 DEF Sized, Size
  <2> QED BY <1>10, <2>1 DEF Sized
<1>12. IsJoined(x, t, h2, B2, G, keep, P, w, total)
  BY <1>2, <1>3, <1>5, <1>6, <1>8, <1>9, <1>10, <1>11 DEF IsJoined
<1> QED BY <1>12

\* Kids a and b of n, c and c + 1, are one node now.
IsJoin(x, t, h2, B2, B, G, n, c, a, b, keep, total) ==
    /\ Standing(x, h2, B2, G) /\ Counted(x, B2) /\ Sized(x) /\ x.sorted = t.sorted
    /\ keep \in Nodes(x) /\ Lo(B2[keep]) = Lo(B[a]) /\ Hi(B2[keep]) = Hi(B[b])
    /\ Size(x, keep) = total /\ B2[keep][Size(t, a) + 2] = B[n][c + 1]
\* Joining two kids of any node that may lose an element leaves a whole tree of the same
\* list, with both in one node.
THEOREM JoinStands ==
    ASSUME NEW t, NEW h, NEW B, NEW G, Standing(t, h, B, G), Counted(t, B), Sized(t), NEW n \in Nodes(t), h[n] # 0,
           NEW c, c \in 1 .. Size(t, n), n = t.root \/ Size(t, n) >= 2,
           NEW a, a = t.nodes[n].kids[c], NEW b, b = t.nodes[n].kids[c + 1], NEW keep, keep \in {a, b},
           NEW total, total \in 1 .. 3, Size(t, a) + Size(t, b) + 1 = total,
           NEW x, x = Joined(t, n, c, keep)
    PROVE  \E h2, B2 : IsJoin(x, t, h2, B2, B, G, n, c, a, b, keep, total)
<1>1. PICK w, P : w = Pair(t, n, c) /\ P = PairEnds(B[a], B[b])
  BY ZenonT(40)
<1>2. PairAt(t, h, B, G, n, c, a, b, w, P)
  BY <1>1, PairOf
<1>3. PICK gone : gone = IF keep = a THEN b ELSE a
  OBVIOUS
<1>4. {keep, gone} = {a, b}
  BY <1>3
<1>5. MergeFacts(t, h, B, G, n, w, P, keep, gone)
  BY <1>2, <1>4, MergeFactsAre, SMTT(40)
<1>6. PICK ka, kb : ka = Size(t, a) /\ kb = Size(t, b)
  OBVIOUS
<1>7. /\ IsPair(w, P, t.nodes[a], t.nodes[b], t.nodes[n].elems[c], B[a], B[b], ka, kb)
      /\ ka \in Nat /\ kb \in Nat /\ a \in Nodes(t)
      /\ Lo(P) = Lo(B[a]) /\ Hi(P) = Hi(B[b]) /\ Hi(B[a]) = B[n][c + 1]
  BY <1>2, <1>6, ZenonT(40) DEF PairAt, IsKid
<1>8. HasSize(w, total)
  <2>1. Len(w.elems) = ka + kb + 1
    BY <1>7, ZenonT(40) DEF IsPair
  <2> QED BY <1>6, <2>1, SMTT(40) DEF HasSize
<1>9. P[Size(t, a) + 2] = B[n][c + 1]
  <2>1. P[ka + 2] = B[a][ka + 2]
    <3>1. ka + 2 \in 1 .. ka + 2
      BY <1>7, SMTT(40)
    <3> QED BY <1>7, <3>1, ZenonT(40) DEF IsPair
  <2>2. Hi(B[a]) = B[a][ka + 2]
    <3>1. Bounds(B[a], ka)
      BY <1>6, <1>7, NodeIs, ZenonT(40) DEF Standing
    <3> QED BY <3>1, ZenonT(40) DEF Bounds
  <2> QED BY <1>6, <1>7, <2>1, <2>2, ZenonT(40)
<1>10. PICK k : k = Size(t, n) - 1
  OBVIOUS
<1>11. k \in Nat /\ Size(t, n) = k + 1
  <2>1. Size(t, n) \in 1 .. 3
    BY DEF Sized
  <2> QED BY ONLY <1>10, <2>1
<1>12. PICK u : u = Merged(t, n, c, keep)
  OBVIOUS
<1>13. IsMerged(u, t, n, k, c, keep, gone, w, Length(P))
  <2>1. IsMerged(Merged(t, n, c, keep), t, n, k, c, keep, gone, w, Length(P))
    BY ONLY <1>2, <1>4, <1>11, MergedIs
  <2> QED BY <1>12, <2>1
<1>14. u.nodes[n].elems \in Seq(Int) /\ Len(u.nodes[n].elems) = k
  BY <1>13 DEF IsMerged, IsLess, IsWithout
<1>15. (k >= 1 => x = u) /\ (k = 0 => x = Raised(u, n, keep))
  <2>1. (k >= 1 => Joined(t, n, c, keep) = u) /\ (k = 0 => Joined(t, n, c, keep) = Raised(u, n, keep))
    BY ONLY <1>11, <1>12, <1>14, JoinedIs
  <2> QED BY <2>1
<1>16. \E h2, B2 : IsJoined(x, t, h2, B2, G, keep, P, w, total)
  <2>1. CASE k >= 1
    <3>1. \E h2, B2 : IsJoined(u, t, h2, B2, G, keep, P, w, total)
      <4>1. Sized(t) /\ total \in 1 .. 3
        OBVIOUS
      <4> QED BY ONLY <1>2, <1>4, <1>8, <1>11, <1>13, <2>1, <4>1, MergeStands
    <3> QED BY <1>15, <2>1, <3>1
  <2>2. CASE k = 0
    <3>1. n = t.root /\ Size(t, n) = 1
      <4>1. Size(t, n) = 1
        BY ONLY <1>11, <2>2
      <4>2. ~ (Size(t, n) >= 2)
        BY ONLY <4>1
      <4> QED BY <4>1, <4>2
    <3>2. IsMerged(u, t, n, 0, c, keep, gone, w, Length(P)) /\ x = Raised(u, n, keep)
      BY <1>13, <1>15, <2>2
    <3>3. PICK cl : cl = Length(P)
      BY ZenonT(40)
    <3>4. RaisedFacts(t, h, B, G, n, P, keep, gone, w, x)
      BY <1>2, <1>4, <3>1, <3>2, RaisedFactsAre
    <3> QED BY <1>5, <1>8, <3>4, RaisedStands
  <2>3. k >= 1 \/ k = 0
    BY ONLY <1>11
  <2> QED BY <2>1, <2>2, <2>3
<1>17. PICK h2, B2 : IsJoined(x, t, h2, B2, G, keep, P, w, total)
  BY <1>16, SMTT(40)
<1>18. IsJoin(x, t, h2, B2, B, G, n, c, a, b, keep, total)
  BY <1>7, <1>9, <1>17, ZenonT(40) DEF IsJoin, IsJoined
<1> QED BY <1>18

--------------------------------------------------------------------------------
(*****************************************************************************)
(* An element is cut out of a leaf: the positions behind it move down.       *)
(*****************************************************************************)

\* The positions behind p move down by one.
Shut(M, p) == [x \in 0 .. M |-> IF x > p THEN x - 1 ELSE x]

IsShut(F, M, p) ==
    /\ Moves(F, M) /\ F[0] = 0 /\ F[M] = M - 1
    /\ \A x \in Nat : x <= M => F[x] = IF x > p THEN x - 1 ELSE x

\* Shut does what IsShut says.
LEMMA ShutIs ==
    ASSUME NEW M \in Nat, NEW p \in Nat, p < M
    PROVE  IsShut(Shut(M, p), M, p)
<1> DEFINE F == Shut(M, p)
<1>1. \A x \in 0 .. M : F[x] = IF x > p THEN x - 1 ELSE x
  BY DEF Shut
<1>2. ASSUME NEW x \in Nat, x <= M PROVE F[x] = IF x > p THEN x - 1 ELSE x
  <2>1. x \in 0 .. M
    BY <1>2
  <2> QED BY <1>1, <2>1
<1>3. Moves(F, M)
  <2>1. ASSUME NEW x \in 0 .. M PROVE F[x] \in Nat
    BY <1>1
  <2> QED BY <2>1 DEF Moves
<1>4. 0 \in Nat /\ 0 <= M /\ ~ (0 > p) /\ M <= M /\ M > p
  OBVIOUS
<1>5. F[0] = 0 /\ F[M] = M - 1
  BY <1>2, <1>4
<1> QED BY <1>2, <1>3, <1>5 DEF IsShut

\* A list with an item less.
ListShrinks(G, L, p, m) ==
    /\ G \in Seq(Int) /\ Len(G) = m /\ Len(L) = m + 1
    /\ \A x \in Nat : /\ x >= 1 /\ x < p => G[x] = L[x]
                      /\ x >= p /\ x <= m => G[x] = L[x + 1]

\* Removing an element does what ListShrinks says.
LEMMA ListRemoved ==
    ASSUME NEW L \in Seq(Int), NEW m, m \in Nat, Len(L) = m + 1, NEW p, p \in 1 .. m + 1
    PROVE  ListShrinks(RemoveAt(L, p), L, p, m)
<1> DEFINE G == RemoveAt(L, p)
<1>1. IsWithout(G, Int, L, m, p)
  BY WithoutIs
<1> HIDE DEF G
<1>2. /\ G \in Seq(Int) /\ Len(G) = m
      /\ \A j \in 1 .. m : G[j] = IF j < p THEN L[j] ELSE L[j + 1]
  BY <1>1 DEF IsWithout
<1>3. ASSUME NEW x \in Nat
      PROVE  /\ x >= 1 /\ x < p => G[x] = L[x]
             /\ x >= p /\ x <= m => G[x] = L[x + 1]
  <2>1. /\ x >= 1 /\ x < p => x \in 1 .. m
        /\ x >= p /\ x <= m => x \in 1 .. m /\ ~ (x < p)
    OBVIOUS
  <2> QED BY <1>2, <2>1
<1>4. ListShrinks(G, L, p, m)
  BY <1>2, <1>3 DEF ListShrinks
<1> QED BY <1>4 DEF G

\* What that does to a slot that neither begins nor ends there.
SlotShut(x, y, p, x2, y2) ==
    /\ x2 < y2
    /\ (x2 <= p - 1 /\ p - 1 < y2) <=> (x <= p /\ p < y)
    /\ y - x - 1 = y2 - x2 - 1 + (IF x <= p /\ p < y THEN 1 ELSE 0)
    /\ y = x + 1 => y2 = x2 + 1

\* It keeps slots in order and shortens the one that has the position by one.
LEMMA SlotShuts ==
    ASSUME NEW x \in Nat, NEW y \in Nat, x < y, NEW p \in Nat, x # p, y # p,
           NEW x2, x2 = (IF x > p THEN x - 1 ELSE x), NEW y2, y2 = (IF y > p THEN y - 1 ELSE y)
    PROVE  SlotShut(x, y, p, x2, y2)
BY DEF SlotShut

\* Moving together at an element of a leaf disturbs no other node.
LEMMA CarriedShut ==
    ASSUME NEW t, NEW h, NEW B, NEW L, Standing(t, h, B, L), NEW n \in Nodes(t), h[n] = 0,
           NEW c, NEW p, p \in Nat, At(t, B, n, c, p), NEW M, M \in Nat, Len(L) = M, NEW F, IsShut(F, M + 1, p),
           NEW m, m \in Nat, M = m + 1, NEW G, ListShrinks(G, L, p, m), NEW y \in Nodes(t), y # n
    PROVE  Carried(F, L, G, B[y], Size(t, y), h[y])
<1>1. /\ Bounds(B[y], Size(t, y)) /\ Hi(B[y]) <= M + 1 /\ h[y] \in Nat
      /\ NodeFits(h, B, L, t.nodes[y], B[y], h[y])
  BY NodeIs DEF Standing, Layout
<1>a. p >= 1 /\ p <= M
  BY AtIs
<1>2. PICK k \in Nat : k = Size(t, y)
  BY <1>1 DEF Bounds
<1>b. PICK b : b = B[y]
  OBVIOUS
<1>3. /\ \A j \in 1 .. k + 2 : b[j] \in Nat /\ Lo(b) <= b[j] /\ b[j] <= Hi(b)
      /\ \A i, j \in 1 .. k + 2 : i < j => b[i] < b[j]
      /\ Lo(b) = b[1] /\ Hi(b) = b[k + 2]
  BY <1>1, <1>2, <1>b DEF Bounds
<1>4. \A x \in Nat : x <= M + 1 => F[x] = IF x > p THEN x - 1 ELSE x
  BY DEF IsShut
<1>5. Lo(b) \in Nat /\ Hi(b) \in Nat /\ Hi(b) <= M + 1
  BY <1>1, <1>b, EndsAre
<1>6. ASSUME NEW j \in 1 .. k + 2
      PROVE  F[b[j]] = (IF b[j] > p THEN b[j] - 1 ELSE b[j]) /\ b[j] \in Nat /\ b[j] # p
  <2>1. b[j] \in Nat /\ b[j] <= M + 1
    BY <1>3, <1>5
  <2>2. b[j] # p
    <3>1. j \in 1 .. Size(t, y) + 2
      BY <1>2
    <3>2. B[y][j] # p
      BY <3>1, NotBoundary
    <3> QED BY <1>b, <3>2
  <2> QED BY <1>4, <2>1, <2>2
<1>7. ASSUME NEW i \in 1 .. k + 2, NEW j \in 1 .. k + 2, i < j PROVE SlotShut(b[i], b[j], p, F[b[i]], F[b[j]])
  <2>1. b[i] < b[j]
    BY <1>3, <1>7
  <2>2. b[i] \in Nat /\ b[i] # p /\ F[b[i]] = (IF b[i] > p THEN b[i] - 1 ELSE b[i])
    BY <1>6
  <2>3. b[j] \in Nat /\ b[j] # p /\ F[b[j]] = (IF b[j] > p THEN b[j] - 1 ELSE b[j])
    BY <1>6
  <2>4. PICK x, z, x2, z2 : x = b[i] /\ z = b[j] /\ x2 = F[b[i]] /\ z2 = F[b[j]]
    OBVIOUS
  <2>5. SlotShut(x, z, p, x2, z2)
    BY <2>1, <2>2, <2>3, <2>4, SlotShuts
  <2> QED BY <2>4, <2>5
<1>8. ASSUME NEW i \in 1 .. k + 2, NEW j \in 1 .. k + 2, i < j PROVE F[b[i]] < F[b[j]]
  <2>1. SlotShut(b[i], b[j], p, F[b[i]], F[b[j]])
    BY <1>7, <1>8
  <2> QED BY <2>1 DEF SlotShut
<1>9. ASSUME h[y] = 0, NEW j \in 1 .. k + 1 PROVE F[b[j + 1]] = F[b[j]] + 1
  <2>1. j \in 1 .. k + 2 /\ j + 1 \in 1 .. k + 2 /\ j < j + 1
    OBVIOUS
  <2>2. b[j + 1] = b[j] + 1
    BY <1>1, <1>2, <1>9, <1>b, LeafSlots DEF Size
  <2>3. SlotShut(b[j], b[j + 1], p, F[b[j]], F[b[j + 1]])
    BY <1>7, <2>1
  <2> QED BY <2>2, <2>3 DEF SlotShut
<1>10. ASSUME NEW j \in 1 .. k PROVE G[F[b[j + 1]]] = L[b[j + 1]]
  <2>1. b[j + 1] \in Nat /\ Lo(b) < b[j + 1] /\ b[j + 1] < Hi(b)
    BY <1>1, <1>2, <1>b, InnerIs
  <2>2. PICK x : x = b[j + 1]
    OBVIOUS
  <2>3. x \in Nat /\ x >= 1 /\ x <= M
    BY <1>5, <2>1, <2>2
  <2>4. j + 1 \in 1 .. k + 2
    OBVIOUS
  <2>5. F[x] = (IF x > p THEN x - 1 ELSE x) /\ x # p
    BY <1>6, <2>2, <2>4
  <2>6. \A z \in Nat : /\ z >= 1 /\ z < p => G[z] = L[z]
                       /\ z >= p /\ z <= m => G[z] = L[z + 1]
    BY DEF ListShrinks
  <2>7. CASE x > p
    <3>1. PICK z \in Nat : z = x - 1
      BY <1>a, <2>7, <2>3
    <3>2. z >= p /\ z <= m /\ z + 1 = x
      BY <1>a, <2>3, <2>7, <3>1
    <3>3. G[z] = L[x]
      BY ONLY <2>6, <3>1, <3>2
    <3> QED BY <2>2, <2>5, <2>7, <3>1, <3>3
  <2>8. CASE ~ (x > p)
    <3>1. x < p
      BY <2>3, <2>5, <2>8
    <3> QED BY <2>2, <2>3, <2>5, <2>6, <2>8, <3>1
  <2> QED BY <2>7, <2>8
<1>11. F[Hi(b)] <= Len(G) + 1
  <2>1. Len(G) = m
    BY DEF ListShrinks
  <2>2. F[Hi(b)] = IF Hi(b) > p THEN Hi(b) - 1 ELSE Hi(b)
    BY <1>4, <1>5
  <2> QED BY <1>a, <1>5, <2>1, <2>2
<1> QED BY <1>2, <1>b, <1>8, <1>9, <1>10, <1>11 DEF Carried

\* A leaf with an element less, and its boundaries.
ShortLeaf(node, c) == [node EXCEPT !.elems = RemoveAt(@, c), !.kids = Tail(@), !.counts = Tail(@)]
ShortEnds(b, k) == SubSeq(b, 1, k + 2)

IsShort(w, node, k, c) ==
    /\ w \in Node234 /\ w.parent = node.parent
    /\ IsWithout(w.elems, Int, node.elems, k, c)
    /\ Len(w.kids) = k + 1 /\ Len(w.counts) = k + 1
    /\ \A j \in 1 .. k + 1 : w.kids[j] = node.kids[j + 1] /\ w.counts[j] = node.counts[j + 1]

\* ShortLeaf does what IsShort says.
LEMMA ShortIs ==
    ASSUME NEW node, node \in Node234, NEW k, k \in Nat, Len(node.elems) = k + 1, Len(node.kids) = k + 2,
           Len(node.counts) = k + 2, NEW c, c \in 1 .. k + 1
    PROVE  IsShort(ShortLeaf(node, c), node, k, c)
<1> DEFINE w == ShortLeaf(node, c)
<1>1. node.elems \in Seq(Int) /\ node.kids \in Seq(Nat) /\ node.counts \in Seq(Int) /\ node.parent \in Nat
  BY DEF Node234
<1>2. node = [parent |-> node.parent, elems |-> node.elems, kids |-> node.kids, counts |-> node.counts]
  BY DEF Node234
<1>3. w = [parent |-> node.parent, elems |-> RemoveAt(node.elems, c), kids |-> Tail(node.kids),
           counts |-> Tail(node.counts)]
  <2> DEFINE e == RemoveAt(node.elems, c)
             d == Tail(node.kids)
             f == Tail(node.counts)
  <2>1. w = [node EXCEPT !.elems = e, !.kids = d, !.counts = f]
    BY DEF ShortLeaf
  <2> HIDE DEF e, d, f, w
  <2>2. w = [parent |-> node.parent, elems |-> e, kids |-> d, counts |-> f]
    BY <2>1 DEF Node234
  <2> QED BY <2>2 DEF e, d, f
<1>4. IsWithout(RemoveAt(node.elems, c), Int, node.elems, k, c)
  BY <1>1, WithoutIs
<1>5. /\ Tail(node.kids) \in Seq(Nat) /\ Len(Tail(node.kids)) = k + 1
      /\ \A j \in 1 .. k + 1 : Tail(node.kids)[j] = node.kids[j + 1]
  <2>1. node.kids # <<>> /\ (k + 2) - 1 = k + 1
    <3>1. Len(node.kids) # 0
      OBVIOUS
    <3> QED BY <3>1
  <2>2. /\ Tail(node.kids) \in Seq(Nat) /\ Len(Tail(node.kids)) = Len(node.kids) - 1
        /\ \A j \in 1 .. Len(node.kids) - 1 : Tail(node.kids)[j] = node.kids[j + 1]
    BY ONLY <1>1, <2>1, TailOf
  <2> QED BY <2>1, <2>2
<1>6. /\ Tail(node.counts) \in Seq(Int) /\ Len(Tail(node.counts)) = k + 1
      /\ \A j \in 1 .. k + 1 : Tail(node.counts)[j] = node.counts[j + 1]
  <2>1. node.counts # <<>> /\ (k + 2) - 1 = k + 1
    <3>1. Len(node.counts) # 0
      OBVIOUS
    <3> QED BY <3>1
  <2>2. /\ Tail(node.counts) \in Seq(Int) /\ Len(Tail(node.counts)) = Len(node.counts) - 1
        /\ \A j \in 1 .. Len(node.counts) - 1 : Tail(node.counts)[j] = node.counts[j + 1]
    BY ONLY <1>1, <2>1, TailOf
  <2> QED BY <2>1, <2>2
<1>7. RemoveAt(node.elems, c) \in Seq(Int)
  BY <1>4 DEF IsWithout
<1> HIDE DEF w
<1>8. w \in Node234
  BY <1>1, <1>3, <1>5, <1>6, <1>7 DEF Node234
<1>9. IsShort(w, node, k, c)
  BY <1>3, <1>4, <1>5, <1>6, <1>8 DEF IsShort
<1> QED BY <1>9 DEF w

IsShortEnds(b2, b, k) ==
    /\ b2 \in Seq(Nat) /\ Len(b2) = k + 2
    /\ \A j \in 1 .. k + 2 : b2[j] = b[j]
    /\ Lo(b2) = Lo(b) /\ Hi(b2) = b[k + 2]

\* ShortEnds does what IsShortEnds says.
LEMMA ShortEndsAre ==
    ASSUME NEW k, k \in Nat, NEW b, Bounds(b, k + 1)
    PROVE  IsShortEnds(ShortEnds(b, k), b, k)
<1>1. b \in Seq(Nat) /\ Len(b) = k + 3 /\ Lo(b) = b[1]
  BY DEF Bounds
<1>2. 1 \in 1 .. Len(b) + 1 /\ k + 2 \in 1 - 1 .. Len(b)
  BY <1>1
<1>3. /\ ShortEnds(b, k) \in Seq(Nat) /\ Len(ShortEnds(b, k)) = (k + 2) - 1 + 1
      /\ \A x \in 1 .. (k + 2) - 1 + 1 : ShortEnds(b, k)[x] = b[1 + x - 1]
  BY <1>1, <1>2, PartOf DEF ShortEnds
<1> DEFINE b2 == ShortEnds(b, k)
<1> HIDE DEF b2
<1>4. (k + 2) - 1 + 1 = k + 2 /\ \A x \in 1 .. k + 2 : 1 + x - 1 = x
  OBVIOUS
<1>5. b2 \in Seq(Nat) /\ Len(b2) = k + 2 /\ \A j \in 1 .. k + 2 : b2[j] = b[j]
  BY <1>3, <1>4 DEF b2
<1>6. 1 \in 1 .. k + 2 /\ k + 2 \in 1 .. k + 2
  OBVIOUS
<1>7. Lo(b2) = Lo(b) /\ Hi(b2) = b[k + 2]
  BY <1>1, <1>5, <1>6 DEF Lo, Hi
<1>8. IsShortEnds(b2, b, k)
  BY <1>5, <1>7 DEF IsShortEnds
<1> QED BY <1>8 DEF b2

IsShortLeaf(h, B2, G, w, b2, b, k) ==
    /\ NodeFits(h, B2, G, w, b2, 0) /\ Exact(w, b2) /\ HasSize(w, k)
    /\ ToSet(w.kids) = {NULL} /\ Lo(b2) = Lo(b) /\ Hi(b2) = Hi(b) - 1

\* The shorter leaf fits, its counts are right, and it has no kid but NULL.
LEMMA ShortLeafFits ==
    ASSUME NEW h, NEW B, NEW L, NEW node \in Node234, NEW b \in Seq(Nat), NodeFits(h, B, L, node, b, 0),
           Exact(node, b), NEW m, m \in Nat, Hi(b) <= m + 2,
           NEW k, k \in Nat, k >= 1, HasSize(node, k + 1), NEW c, c \in 1 .. k + 1,
           NEW w, IsShort(w, node, k, c), NEW b2, IsShortEnds(b2, b, k),
           NEW p, p = b[c + 1], NEW G, ListShrinks(G, L, p, m), NEW B2
    PROVE  IsShortLeaf(h, B2, G, w, b2, b, k)
<1>1. Bounds(b, k + 1) /\ \A j \in 1 .. k + 2 : node.kids[j] = NULL /\ b[j + 1] = b[j] + 1
  <2>1. Bounds(b, Len(node.elems)) /\ \A j \in 1 .. Len(node.elems) + 1 : node.kids[j] = NULL /\ b[j + 1] = b[j] + 1
    BY BoundsAre, LeafSlots
  <2>2. Len(node.elems) = k + 1 /\ (k + 1) + 1 = k + 2
    BY DEF HasSize
  <2> QED BY <2>1, <2>2
<1>2. /\ Lo(b) \in Nat /\ Hi(b) \in Nat /\ Hi(b) = b[k + 3]
      /\ \A j \in 1 .. k + 3 : b[j] \in Nat /\ Lo(b) <= b[j] /\ b[j] <= Hi(b)
      /\ \A i, j \in 1 .. k + 3 : i < j => b[i] < b[j]
  <2>1. (k + 1) + 2 = k + 3
    OBVIOUS
  <2> QED BY <1>1, <2>1, EndsAre DEF Bounds
<1>3. /\ b2 \in Seq(Nat) /\ Len(b2) = k + 2
      /\ \A j \in 1 .. k + 2 : b2[j] = b[j]
      /\ Lo(b2) = Lo(b) /\ Hi(b2) = b[k + 2]
  BY DEF IsShortEnds
<1>4. Hi(b) = b[k + 2] + 1 /\ b[k + 2] \in Nat
  <2>1. k + 2 \in 1 .. k + 2 /\ k + 2 \in 1 .. k + 3 /\ (k + 2) + 1 = k + 3
    OBVIOUS
  <2>2. b[(k + 2) + 1] = b[k + 2] + 1 /\ b[k + 2] \in Nat
    BY <1>1, <1>2, <2>1
  <2> QED BY <1>2, <2>1, <2>2
<1>5. Hi(b2) = Hi(b) - 1
  BY <1>3, <1>4, SMTT(40)
<1>6. /\ w.elems \in Seq(Int) /\ Len(w.elems) = k
      /\ \A j \in 1 .. k : w.elems[j] = IF j < c THEN node.elems[j] ELSE node.elems[j + 1]
      /\ Len(w.kids) = k + 1 /\ Len(w.counts) = k + 1 /\ w.kids \in Seq(Nat)
      /\ \A j \in 1 .. k + 1 : w.kids[j] = node.kids[j + 1] /\ w.counts[j] = node.counts[j + 1]
  BY DEF IsShort, IsWithout, Node234
<1>7. Len(node.counts) = k + 2
  <2>1. Len(node.counts) = Len(node.elems) + 1 /\ Len(node.elems) = k + 1
    BY DEF NodeFits, HasSize
  <2> QED BY ONLY <2>1, k \in Nat
<1>8. ASSUME NEW j \in 1 .. k + 1 PROVE w.kids[j] = NULL /\ w.counts[j] = 0
  <2>1. j + 1 \in 1 .. k + 2 /\ j + 1 \in 1 .. k + 3
    OBVIOUS
  <2>2. PICK i : i = j + 1
    OBVIOUS
  <2>3. i \in 1 .. k + 2 /\ i \in 1 .. k + 3
    BY <2>1, <2>2
  <2>4. node.counts[i] = b[i + 1] - b[i] - 1
    BY <1>7, <2>3 DEF Exact
  <2>5. b[i + 1] = b[i] + 1 /\ b[i] \in Nat /\ node.kids[i] = NULL
    BY <1>1, <1>2, <2>3
  <2>6. node.counts[i] = 0
    BY ONLY <2>4, <2>5
  <2> QED BY <1>6, <2>2, <2>5, <2>6
<1>9. /\ G \in Seq(Int) /\ Len(G) = m
      /\ \A x \in Nat : /\ x >= 1 /\ x < p => G[x] = L[x]
                        /\ x >= p /\ x <= m => G[x] = L[x + 1]
  BY DEF ListShrinks
<1>10. \A j \in 1 .. k + 1 : node.elems[j] = L[b[j + 1]]
  BY DEF NodeFits, HasSize
<1>11. ASSUME NEW j \in 1 .. k PROVE w.elems[j] = G[b2[j + 1]]
  <2>1. PICK x : x = b[j + 1]
    OBVIOUS
  <2>2. j + 1 \in 1 .. k + 2 /\ j + 1 \in 1 .. k + 3 /\ 1 \in 1 .. k + 3 /\ k + 2 \in 1 .. k + 3 /\ c + 1 \in 1 .. k + 3 /\ j \in 1 .. k + 1
        /\ j + 1 \in 1 .. k + 1 /\ 1 < j + 1 /\ (j + 1) + 1 \in 1 .. k + 3
    OBVIOUS
  <2>3. x \in Nat /\ b2[j + 1] = x /\ b[(j + 1) + 1] = x + 1
    BY <1>1, <1>2, <1>3, <2>1, <2>2
  <2>4. x >= 1 /\ x <= m
    <3>1. b[1] < x /\ b[1] \in Nat
      BY <1>2, <2>1, <2>2
    <3>2. x + 1 <= Hi(b)
      BY <1>2, <2>2, <2>3
    <3>3. Hi(b) <= m + 2 /\ Hi(b) \in Nat
      BY <1>2
    <3>4. j + 1 < k + 2
      OBVIOUS
    <3>5. x < b[k + 2]
      BY <1>2, <2>1, <2>2, <3>4
    <3> QED BY ONLY <1>4, <2>3, <3>1, <3>3, <3>5, m \in Nat, SMTT(40)
  <2>5. CASE j < c
    <3>1. x < p
      <4>1. j + 1 < c + 1
        BY <2>5
      <4> QED BY <1>2, <2>1, <2>2, <4>1
    <3>2. w.elems[j] = L[x]
      BY <1>6, <1>10, <2>1, <2>2, <2>5
    <3>3. G[x] = L[x]
      BY ONLY <1>9, <2>3, <2>4, <3>1
    <3> QED BY <2>3, <3>2, <3>3
  <2>6. CASE ~ (j < c)
    <3>1. x >= p
      <4>1. CASE j = c
        <5>1. p = x
          BY <2>1, <4>1
        <5> QED BY ONLY <5>1, <2>3
      <4>2. CASE c < j
        <5>1. c + 1 < j + 1
          BY <4>2
        <5>2. p < x /\ p \in Nat
          BY <1>2, <2>1, <2>2, <5>1
        <5> QED BY ONLY <2>3, <5>2
      <4> QED BY <2>6, <4>1, <4>2
    <3>2. w.elems[j] = L[x + 1]
      <4>1. w.elems[j] = node.elems[j + 1]
        BY <1>6, <2>6
      <4>2. node.elems[j + 1] = L[b[(j + 1) + 1]]
        BY <1>10, <2>2
      <4> QED BY <2>3, <4>1, <4>2
    <3>3. G[x] = L[x + 1]
      BY ONLY <1>9, <2>3, <2>4, <3>1
    <3> QED BY <2>3, <3>2, <3>3
  <2> QED BY <2>5, <2>6
<1>12. ASSUME NEW j \in 1 .. k + 1 PROVE b2[j + 1] = b2[j] + 1 /\ b2[j] \in Nat
  <2>1. j \in 1 .. k + 2 /\ j + 1 \in 1 .. k + 2 /\ j \in 1 .. k + 3
    OBVIOUS
  <2> QED BY <1>1, <1>2, <1>3, <2>1
<1>13. Rising(b2)
  <2>1. DOMAIN b2 = 1 .. k + 2
    BY <1>3
  <2>2. ASSUME NEW i \in 1 .. k + 2, NEW j \in 1 .. k + 2, i < j PROVE b2[i] < b2[j]
    <3>1. i \in 1 .. k + 3 /\ j \in 1 .. k + 3
      OBVIOUS
    <3> QED BY <1>2, <1>3, <2>2, <3>1
  <2> QED BY <2>1, <2>2 DEF Rising
<1>14. NodeFits(h, B2, G, w, b2, 0)
  <2>1. \A j \in 1 .. k + 1 : KidFits(h, B2, w.kids[j], 0, b2[j], b2[j + 1])
    BY <1>8, <1>12 DEF KidFits
  <2>2. Hi(b2) <= Len(G) + 1
    <3>1. Hi(b2) = Hi(b) - 1 /\ Hi(b) <= m + 2 /\ Hi(b) \in Nat /\ Len(G) = m
      BY <1>2, <1>5, <1>9
    <3> QED BY ONLY <3>1, m \in Nat
  <2> QED BY <1>3, <1>6, <1>11, <1>13, <2>1, <2>2 DEF NodeFits
<1>15. Exact(w, b2)
  <2> SUFFICES ASSUME NEW j \in 1 .. k + 1 PROVE w.counts[j] = b2[j + 1] - b2[j] - 1
    BY <1>6 DEF Exact
  <2>1. b2[j + 1] = b2[j] + 1 /\ b2[j] \in Nat /\ w.counts[j] = 0
    BY <1>8, <1>12
  <2> QED BY <2>1
<1>16. ToSet(w.kids) = {NULL}
  <2>1. DOMAIN w.kids = 1 .. k + 1
    BY <1>6
  <2>2. 1 \in 1 .. k + 1
    OBVIOUS
  <2> QED BY <1>8, <2>1, <2>2 DEF ToSet
<1> QED BY <1>3, <1>5, <1>6, <1>14, <1>15, <1>16 DEF IsShortLeaf, HasSize

\* What taking the element at position p out of leaf n comes to.
IsLeafCut(u, t, h, B2, G, n, p) ==
    /\ Standing(u, h, B2, G) /\ PathCounted(u, h, B2, 1, p - 1, h[n]) /\ Covers(B2[n], p - 1)
    /\ Nodes(u) = Nodes(t) /\ u.root = t.root /\ u.sorted = t.sorted
    /\ Size(u, n) = Size(t, n) - 1
    /\ \A y \in Nodes(t) : y # n => Size(u, y) = Size(t, y)

LeafCut(t, n, c) == SetNode(t, n, ShortLeaf(t.nodes[n], c))

\* An element cut out of a leaf that has another: the tree stands for the list without it,
\* and only the counts above the leaf are one too high.
THEOREM LeafCutStands ==
    ASSUME NEW t, NEW h, NEW B, NEW L, Standing(t, h, B, L), Counted(t, B), NEW n \in Nodes(t), h[n] = 0,
           Size(t, n) >= 2, NEW c, NEW p, p \in Nat, At(t, B, n, c, p)
    PROVE  \E B2 : IsLeafCut(LeafCut(t, n, c), t, h, B2, RemoveAt(L, p), n, p)
<1>1. /\ IsTree(t) /\ Linked(t) /\ Layout(t, h, B, L) /\ t.nodes[n] \in Node234 /\ B[n] \in Seq(Nat)
      /\ NodeFits(h, B, L, t.nodes[n], B[n], 0) /\ Bounds(B[n], Size(t, n)) /\ Exact(t.nodes[n], B[n])
      /\ Hi(B[n]) <= Len(L) + 1 /\ Len(L) \in Nat /\ L \in Seq(Int) /\ n \in Nat \ {0}
  BY NodeIs DEF Standing, Counted, Layout, NULL
<1>2. PICK k : k = Size(t, n) - 1
  OBVIOUS
<1>3. k \in Nat /\ k >= 1 /\ Size(t, n) = k + 1
  <2>1. Size(t, n) \in Nat /\ Size(t, n) >= 2
    BY <1>1 DEF Bounds
  <2> QED BY ONLY <1>2, <2>1
<1>a. PICK M \in Nat : M = Len(L)
  BY <1>1
<1>4. p >= 1 /\ p <= M /\ Covers(B[n], p) /\ Lo(B[n]) < p /\ p < Hi(B[n])
  <2>1. p \in 1 .. Len(L) /\ Covers(B[n], p) /\ Lo(B[n]) < p /\ p < Hi(B[n])
    BY AtIs
  <2> QED BY <1>a, <2>1
<1>5. PICK m \in Nat : m = M - 1
  BY <1>4
<1>6. M = m + 1 /\ Len(L) = m + 1 /\ p \in 1 .. m + 1 /\ M + 1 = m + 2
  BY <1>a, <1>4, <1>5
<1>7. c \in 1 .. k + 1 /\ p = B[n][c + 1]
  BY <1>3 DEF At
<1> DEFINE F == Shut(M + 1, p)
           b2 == ShortEnds(B[n], k)
           G == RemoveAt(L, p)
           w == ShortLeaf(t.nodes[n], c)
           u == LeafCut(t, n, c)
           B2 == MovedTo(t, B, n, F, b2)
<1>8. IsShut(F, M + 1, p)
  <2>1. p < M + 1 /\ M + 1 \in Nat
    BY <1>4
  <2> QED BY <2>1, ShutIs
<1>9. ListShrinks(G, L, p, m)
  BY <1>1, <1>6, ListRemoved
<1> HIDE DEF F, G
<1>10. IsShortEnds(b2, B[n], k)
  BY <1>1, <1>3, ShortEndsAre
<1> HIDE DEF b2
<1>11. IsShort(w, t.nodes[n], k, c)
  <2>1. Len(t.nodes[n].elems) = k + 1 /\ Len(t.nodes[n].kids) = k + 2 /\ Len(t.nodes[n].counts) = k + 2
    BY <1>1, <1>3 DEF NodeFits, Size
  <2> QED BY <1>1, <1>3, <1>7, <2>1, ShortIs
<1> HIDE DEF w
<1>12. \A B3 : IsShortLeaf(h, B3, G, w, b2, B[n], k)
  <2> SUFFICES ASSUME NEW B3 PROVE IsShortLeaf(h, B3, G, w, b2, B[n], k)
    OBVIOUS
  <2>1. HasSize(t.nodes[n], k + 1)
    BY <1>3 DEF HasSize, Size
  <2>2. Hi(B[n]) <= m + 2
    BY <1>1, <1>a, <1>6
  <2>3. PICK node, b : node = t.nodes[n] /\ b = B[n]
    OBVIOUS
  <2>4. node \in Node234 /\ b \in Seq(Nat) /\ NodeFits(h, B, L, node, b, 0) /\ Exact(node, b)
    BY <1>1, <2>3
  <2>5. /\ Hi(b) <= m + 2 /\ HasSize(node, k + 1) /\ IsShort(w, node, k, c) /\ IsShortEnds(b2, b, k)
        /\ p = b[c + 1]
    BY <1>7, <1>10, <1>11, <2>1, <2>2, <2>3
  <2>6. IsShortLeaf(h, B3, G, w, b2, b, k)
    BY ONLY <1>3, <1>7, <1>9, <2>4, <2>5, m \in Nat, ShortLeafFits
  <2> QED BY <2>3, <2>6
<1>13. IsSetIn(u, t, n, w)
  <2>1. w \in Node234
    BY <1>11 DEF IsShort
  <2> QED BY <1>1, <2>1, SetIs DEF LeafCut, w
<1> HIDE DEF u
<1>14. /\ IsTree(u) /\ Nodes(u) = Nodes(t) /\ u.root = t.root /\ u.sorted = t.sorted
       /\ u.nodes[n] = w /\ u.nodes[n].parent = t.nodes[n].parent
       /\ \A y \in Nodes(t) : y # n => u.nodes[y] = t.nodes[y]
  <2>1. Nodes(t) \cup {n} = Nodes(t)
    OBVIOUS
  <2> QED BY <1>11, <1>13, <2>1 DEF IsSetIn, IsShort
<1>15. /\ B2 \in [Nodes(t) -> Seq(Nat)] /\ B2[n] = b2
       /\ \A y \in Nodes(t) : y # n => B2[y] = Across(F, B[y])
  <2>1. ASSUME NEW y \in Nodes(t) PROVE Across(F, B[y]) \in Seq(Nat)
    <3>1. Bounds(B[y], Size(t, y)) /\ Hi(B[y]) <= M + 1
      BY <1>1, <1>a, NodeIs
    <3>2. IsAcross(Across(F, B[y]), F, B[y], Size(t, y))
      BY <1>8, <3>1, AcrossIs DEF IsShut
    <3> QED BY <3>2 DEF IsAcross
  <2>2. b2 \in Seq(Nat)
    BY <1>10 DEF IsShortEnds
  <2> QED BY <2>1, <2>2 DEF MovedTo
<1> HIDE DEF B2
<1>16. Lo(B[n]) \in Nat /\ Hi(B[n]) \in Nat /\ Hi(B[n]) <= M + 1
  BY <1>1, <1>a, EndsAre
<1>17. Lo(b2) = Lo(B[n]) /\ Hi(b2) = Hi(B[n]) - 1
  BY <1>12 DEF IsShortLeaf
<1>18. Lo(b2) = F[Lo(B[n])] /\ Hi(b2) = F[Hi(B[n])]
  <2>1. Lo(B[n]) <= M + 1 /\ ~ (Lo(B[n]) > p) /\ Hi(B[n]) > p
    BY ONLY <1>4, <1>16, M \in Nat, p \in Nat
  <2>2. F[Lo(B[n])] = Lo(B[n]) /\ F[Hi(B[n])] = Hi(B[n]) - 1
    BY <1>8, <1>16, <2>1 DEF IsShut
  <2> QED BY <1>17, <2>2
<1>19. Standing(u, h, B2, G)
  <2>1. NodeFits(h, B2, G, u.nodes[n], B2[n], h[n])
    BY <1>12, <1>14, <1>15 DEF IsShortLeaf
  <2>2. Moves(F, Len(L) + 1) /\ F[0] = 0 /\ F[Len(L) + 1] = Len(G) + 1 /\ G \in Seq(Int)
    <3>1. Moves(F, M + 1) /\ F[0] = 0 /\ F[M + 1] = (M + 1) - 1
      BY <1>8 DEF IsShut
    <3>2. G \in Seq(Int) /\ Len(G) = m
      BY <1>9 DEF ListShrinks
    <3>3. (M + 1) - 1 = m + 1
      BY <1>6
    <3> QED BY <1>a, <3>1, <3>2, <3>3
  <2>3. \A y \in Nodes(t) : y # n => Carried(F, L, G, B[y], Size(t, y), h[y])
    BY <1>a, <1>6, <1>8, <1>9, CarriedShut
  <2>4. ShiftedTree(t, h, B, L, n, F, u, B2, G)
    BY <1>14, <1>15, <1>18, <2>1, <2>2, <2>3 DEF ShiftedTree
  <2> QED BY <2>4, ShiftStands
<1>20. Size(u, n) = Size(t, n) - 1 /\ \A y \in Nodes(t) : y # n => Size(u, y) = Size(t, y)
  <2>1. Len(w.elems) = k
    BY <1>12 DEF IsShortLeaf, HasSize
  <2> QED BY <1>2, <1>14, <2>1 DEF Size
<1>21. Covers(B2[n], p - 1)
  BY <1>4, <1>15, <1>16, <1>17 DEF Covers
<1>22. PathCounted(u, h, B2, 1, p - 1, h[n])
  <2>1. ASSUME NEW y \in Nodes(t), y # n, NEW d \in 1 .. Size(t, y) + 1
        PROVE  t.nodes[y].counts[d] = B2[y][d + 1] - B2[y][d] - 1
                               + (IF h[y] > 0 /\ InSlot(B2[y], d, p - 1) THEN 1 ELSE 0)
    <3>1. /\ Bounds(B[y], Size(t, y)) /\ Hi(B[y]) <= M + 1 /\ h[y] \in Nat
          /\ NodeFits(h, B, L, t.nodes[y], B[y], h[y]) /\ Exact(t.nodes[y], B[y])
      BY <1>1, <1>a, NodeIs DEF Counted
    <3>2. /\ B[y][d] \in Nat /\ B[y][d + 1] \in Nat /\ B[y][d] < B[y][d + 1] /\ B[y][d + 1] <= M + 1
          /\ Lo(B[y]) <= B[y][d] /\ B[y][d + 1] <= Hi(B[y])
          /\ d \in 1 .. Size(t, y) + 2 /\ d + 1 \in 1 .. Size(t, y) + 2
      <4>1. Size(t, y) \in Nat
        BY <3>1 DEF Bounds
      <4> QED BY <3>1, <4>1, SlotIs
    <3>3. IsAcross(B2[y], F, B[y], Size(t, y))
      BY <1>8, <1>15, <2>1, <3>1, AcrossIs DEF IsShut
    <3>4. B2[y][d] = F[B[y][d]] /\ B2[y][d + 1] = F[B[y][d + 1]]
      BY <3>2, <3>3 DEF IsAcross
    <3>5. B[y][d] # p /\ B[y][d + 1] # p
      BY <2>1, <3>2, NotBoundary
    <3>6. PICK x, z, x2, z2 : x = B[y][d] /\ z = B[y][d + 1] /\ x2 = B2[y][d] /\ z2 = B2[y][d + 1]
      OBVIOUS
    <3>7. /\ x2 = IF x > p THEN x - 1 ELSE x
          /\ z2 = IF z > p THEN z - 1 ELSE z
      BY <1>8, <3>2, <3>4, <3>6 DEF IsShut
    <3>8. SlotShut(x, z, p, x2, z2)
      BY <3>2, <3>5, <3>6, <3>7, SlotShuts
    <3>9. t.nodes[y].counts[d] = z - x - 1
      <4>1. d \in 1 .. Len(t.nodes[y].counts)
        BY <3>1 DEF NodeFits, Size
      <4> QED BY <3>1, <3>6, <4>1 DEF Exact
    <3>10. h[y] = 0 => ~ (x <= p /\ p < z)
      <4>1. SUFFICES ASSUME h[y] = 0, x <= p, p < z PROVE FALSE
        OBVIOUS
      <4>2. z = x + 1
        BY <3>1, <3>6, <4>1, LeafSlots, SMTT(40) DEF Size
      <4> QED BY <3>2, <3>5, <3>6, <4>1, <4>2
    <3>11. h[y] > 0 <=> h[y] # 0
      BY <3>1
    <3> QED BY <3>6, <3>8, <3>9, <3>10, <3>11 DEF InSlot, SlotShut
  <2>2. ASSUME NEW y \in Nodes(u), NEW d \in 1 .. Size(u, y) + 1
        PROVE  u.nodes[y].counts[d] = B2[y][d + 1] - B2[y][d] - 1
                               + (IF h[y] > h[n] /\ InSlot(B2[y], d, p - 1) THEN 1 ELSE 0)
    <3>1. CASE y = n
      <4>1. ~ (h[y] > h[n]) /\ u.nodes[y].counts = w.counts /\ B2[y] = b2
        BY <1>14, <1>15, <3>1
      <4>2. d \in 1 .. Len(w.counts) /\ d \in 1 .. k + 1
        <5>1. Len(w.counts) = k + 1 /\ Len(w.elems) = k
          BY <1>11, <1>12 DEF IsShort, IsShortLeaf, HasSize
        <5> QED BY <1>14, <3>1, <5>1 DEF Size
      <4>3. w.counts[d] = b2[d + 1] - b2[d] - 1
        BY <1>12, <4>2 DEF Exact, IsShortLeaf
      <4>5. b2[d] \in Nat /\ b2[d + 1] \in Nat
        <5>1. b2 \in Seq(Nat) /\ Len(b2) = k + 2
          BY <1>10 DEF IsShortEnds
        <5>2. d \in 1 .. k + 2 /\ d + 1 \in 1 .. k + 2
          BY <1>3, <4>2
        <5> QED BY ONLY <5>1, <5>2
      <4>6. b2[d + 1] - b2[d] - 1 + 0 = b2[d + 1] - b2[d] - 1
        BY <4>5
      <4> QED BY <4>1, <4>3, <4>6
    <3>2. CASE y # n
      BY <1>14, <1>20, <2>1, <2>2, <3>2
    <3> QED BY <3>1, <3>2
  <2> QED BY ONLY <2>2 DEF PathCounted
<1>23. IsLeafCut(u, t, h, B2, G, n, p)
  BY <1>14, <1>19, <1>20, <1>21, <1>22 DEF IsLeafCut
<1> QED BY <1>23 DEF u, G

\* The tree without its only element.
Emptied(t, n) == [Freed(t, n) EXCEPT !.root = NULL]

IsEmpty(u, t) ==
    /\ u.sorted = t.sorted /\ u.root = NULL
    /\ \E h, B : Standing(u, h, B, <<>>) /\ Counted(u, B) /\ Sized(u)

\* A tree without nodes is whole and lists nothing.
LEMMA NoNodes ==
    ASSUME NEW u, IsTree(u), Nodes(u) = {}, u.root = NULL
    PROVE  \E h, B : Standing(u, h, B, <<>>) /\ Counted(u, B) /\ Sized(u)
<1> DEFINE h == [y \in {} |-> 0]
           B == [y \in {} |-> <<>>]
<1>1. h \in [Nodes(u) -> Nat] /\ B \in [Nodes(u) -> Seq(Nat)] /\ <<>> \in Seq(Int)
  OBVIOUS
<1>2. Layout(u, h, B, <<>>)
  BY <1>1 DEF Layout
<1>3. Linked(u)
  BY DEF Linked
<1>4. Counted(u, B) /\ Sized(u)
  BY DEF Counted, Sized
<1> HIDE DEF h, B
<1> QED BY <1>2, <1>3, <1>4 DEF Standing

\* Freeing a root that is a leaf of one element leaves such a tree.
LEMMA LastTaken ==
    ASSUME NEW t, NEW h, NEW B, NEW L, Standing(t, h, B, L), NEW n, n \in Nodes(t), n = t.root, h[n] = 0, Size(t, n) = 1
    PROVE  Len(L) = 1 /\ IsEmpty(Emptied(t, n), t)
<1>1. /\ IsTree(t) /\ Bounds(B[n], Size(t, n)) /\ NodeFits(h, B, L, t.nodes[n], B[n], 0)
      /\ Len(L) \in Nat /\ Lo(B[n]) = 0 /\ Hi(B[n]) = Len(L) + 1 /\ n # NULL
      /\ \A y \in Nodes(t) : h[y] <= 0 /\ h[y] \in Nat
  <2>1. n # NULL
    BY NodeIs DEF Standing
  <2>2. Lo(B[n]) = 0 /\ Hi(B[n]) = Len(L) + 1
    BY <2>1 DEF Standing, Layout
  <2> QED BY <2>1, <2>2, NodeIs DEF Standing
<1>2. Len(L) = 1
  <2>1. \A c \in 1 .. Size(t, n) + 1 : B[n][c + 1] = B[n][c] + 1
    <3>1. NodeFits(h, B, L, t.nodes[n], B[n], 0)
      BY <1>1
    <3> QED BY ONLY <3>1, LeafSlots DEF Size
  <2>2. 1 \in 1 .. Size(t, n) + 1 /\ 2 \in 1 .. Size(t, n) + 1
    OBVIOUS
  <2>8. 1 + 1 = 2 /\ 2 + 1 = 3
    OBVIOUS
  <2>3. B[n][2] = B[n][1] + 1 /\ B[n][3] = B[n][2] + 1
    <3>1. B[n][1 + 1] = B[n][1] + 1 /\ B[n][2 + 1] = B[n][2] + 1
      BY <2>1, <2>2
    <3> QED BY <2>8, <3>1
  <2>4. Lo(B[n]) = B[n][1] /\ Hi(B[n]) = B[n][Size(t, n) + 2]
    BY <1>1 DEF Bounds
  <2>5. PICK M \in Nat : M = Len(L)
    BY <1>1
  <2>6. Hi(B[n]) = B[n][3] /\ Lo(B[n]) = 0 /\ Hi(B[n]) = M + 1
    BY <1>1, <2>4, <2>5
  <2>7. M = 1
    BY ONLY <2>3, <2>4, <2>6, M \in Nat
  <2> QED BY <2>5, <2>7
<1>3. ASSUME NEW y \in Nodes(t), y # n PROVE FALSE
  <2>1. PICK z : z = t.nodes[y].parent
    OBVIOUS
  <2>2. z \in Nodes(t) /\ h[z] = h[y] + 1
    BY <1>3, <2>1, ParentIs DEF Standing
  <2> QED BY <1>1, <1>3, <2>2
<1>4. PICK v : v = Freed(t, n)
  OBVIOUS
<1>5. IsTree(v) /\ Nodes(v) = Nodes(t) \ {n} /\ v.sorted = t.sorted
  BY <1>1, <1>4, FreedIs
<1>6. Nodes(v) = {}
  BY <1>3, <1>5
<1>7. PICK u : u = [v EXCEPT !.root = NULL]
  OBVIOUS
<1>8. /\ v \in [root : Nat, nodes : Heaps(Nodes(v)), sorted : BOOLEAN]
      /\ Nodes(v) \in SUBSET (Nat \ {0}) /\ IsFiniteSet(Nodes(v)) /\ NULL \in Nat
  BY <1>5 DEF IsTree, NULL
<1>9. u \in [root : Nat, nodes : Heaps(Nodes(v)), sorted : BOOLEAN] /\ u.nodes = v.nodes /\ u.root = NULL /\ u.sorted = v.sorted
  BY <1>7, <1>8
<1>10. IsTree(u) /\ Nodes(u) = {}
  <2>1. Nodes(u) = Nodes(v)
    BY <1>9 DEF Nodes
  <2> QED BY <1>6, <1>8, <1>9, <2>1 DEF IsTree
<1>11. \E h2, B2 : Standing(u, h2, B2, <<>>) /\ Counted(u, B2) /\ Sized(u)
  BY <1>9, <1>10, NoNodes
<1>12. u = Emptied(t, n)
  BY <1>4, <1>7 DEF Emptied
<1>13. IsEmpty(u, t)
  BY <1>5, <1>9, <1>11 DEF IsEmpty
<1> QED BY <1>2, <1>12, <1>13

--------------------------------------------------------------------------------
(*****************************************************************************)
(* The search for the element to delete: SeekAt says where it is, and that the*)
(* node can spare an element.                                                *)
(*****************************************************************************)

\* An element is replaced by another one.
Swapped(t, n, c, e) == [t EXCEPT !.nodes[n].elems[c] = e]

IsSwapped(u, t, h, B, G, n, c, e) ==
    /\ Standing(u, h, B, G) /\ Counted(u, B) /\ Nodes(u) = Nodes(t) /\ u.root = t.root /\ u.sorted = t.sorted
    /\ \A y \in Nodes(t) : Size(u, y) = Size(t, y) /\ u.nodes[y].kids = t.nodes[y].kids
                           /\ u.nodes[y].counts = t.nodes[y].counts

\* Another element at the place changes the list there and nothing else.
LEMMA SwappedIs ==
    ASSUME NEW t, NEW h, NEW B, NEW L, Standing(t, h, B, L), Counted(t, B), NEW n, NEW c, NEW p, At(t, B, n, c, p),
           NEW e, e \in Int, NEW G, G = [L EXCEPT ![p] = e], NEW u, u = Swapped(t, n, c, e)
    PROVE  IsSwapped(u, t, h, B, G, n, c, e)
<1>0. n \in Nodes(t) /\ c \in 1 .. Size(t, n)
  BY DEF At
<1>1. /\ IsTree(t) /\ Linked(t) /\ t.nodes[n] \in Node234 /\ NodeFits(h, B, L, t.nodes[n], B[n], h[n])
      /\ Layout(t, h, B, L) /\ L \in Seq(Int) /\ Len(L) \in Nat /\ p \in 1 .. Len(L) /\ n # NULL
  BY <1>0, NodeIs, AtIs, ZenonT(40) DEF Standing, Layout
<1>2. /\ t.nodes[n].elems \in Seq(Int) /\ Len(t.nodes[n].elems) = Size(t, n)
      /\ DOMAIN t.nodes[n].elems = 1 .. Size(t, n)
  BY <1>1, PartsAre DEF Size
<1> DEFINE s == [t.nodes[n].elems EXCEPT ![c] = e]
           node == [t.nodes[n] EXCEPT !.elems = s]
<1>3. s \in Seq(Int) /\ Len(s) = Size(t, n)
  BY <1>0, <1>2
<1>4. s[c] = e /\ \A x \in 1 .. Size(t, n) : x # c => s[x] = t.nodes[n].elems[x]
  BY <1>0, <1>2
<1>5. /\ node \in Node234 /\ node.elems = s
      /\ node.counts = t.nodes[n].counts /\ node.kids = t.nodes[n].kids /\ node.parent = t.nodes[n].parent
  <2> HIDE DEF s
  <2> QED BY <1>1, <1>3 DEF Node234
<1>6. u = SetIn(t, n, node)
  BY DEF Swapped, SetIn
<1> HIDE DEF node, s
<1>7. IsSetIn(u, t, n, node)
  BY <1>0, <1>1, <1>5, <1>6, SetInIs
<1>8. /\ IsTree(u) /\ Nodes(u) = Nodes(t) /\ u.root = t.root /\ u.sorted = t.sorted /\ u.nodes[n] = node
      /\ \A y \in Nodes(t) : y # n => u.nodes[y] = t.nodes[y]
  <2>1. Nodes(t) \cup {n} = Nodes(t)
    BY <1>0
  <2> QED BY <1>7, <2>1 DEF IsSetIn
<1>9. /\ G \in Seq(Int) /\ Len(G) = Len(L) /\ G[p] = e
      /\ \A x \in 1 .. Len(L) : x # p => G[x] = L[x]
  BY <1>1
<1>10. Linked(u)
  <2>1. \A y \in Nodes(t) : u.nodes[y].kids = t.nodes[y].kids /\ u.nodes[y].parent = t.nodes[y].parent
    BY <1>5, <1>8
  <2> QED BY <1>1, <1>8, <2>1, SameLinks
<1>11. ASSUME NEW y \in Nodes(t), NEW d \in 1 .. Size(t, y)
       PROVE  /\ B[y][d + 1] = p => y = n /\ d = c
              /\ B[y][d + 1] \in 1 .. Len(L)
              /\ t.nodes[y].elems[d] = L[B[y][d + 1]]
  <2>1. PICK q : q = B[y][d + 1]
    OBVIOUS
  <2>2. At(t, B, y, d, q)
    BY <2>1 DEF At
  <2>3. q \in 1 .. Len(L) /\ t.nodes[y].elems[d] = L[q]
    BY <2>2, AtIs
  <2>4. q = p => y = n /\ d = c
    BY <2>2, OnePlace
  <2> QED BY <2>1, <2>3, <2>4
<1>12. ASSUME NEW y \in Nodes(t), y # n PROVE NodeFits(h, B, G, u.nodes[y], B[y], h[y])
  <2>1. NodeFits(h, B, L, t.nodes[y], B[y], h[y]) /\ u.nodes[y] = t.nodes[y]
    BY <1>1, <1>8, <1>12 DEF Layout
  <2>2. \A d \in 1 .. Len(t.nodes[y].elems) : t.nodes[y].elems[d] = G[B[y][d + 1]]
    BY <1>9, <1>11, <1>12 DEF Size
  <2> QED BY <1>9, <2>1, <2>2 DEF NodeFits
<1>13. NodeFits(h, B, G, u.nodes[n], B[n], h[n])
  <2>1. \A d \in 1 .. Size(t, n) : s[d] = G[B[n][d + 1]]
    <3> SUFFICES ASSUME NEW d \in 1 .. Size(t, n) PROVE s[d] = G[B[n][d + 1]]
      OBVIOUS
    <3>1. CASE d = c
      BY <1>4, <1>9, <3>1 DEF At
    <3>2. CASE d # c
      <4>1. s[d] = t.nodes[n].elems[d]
        BY <1>4, <3>2
      <4> QED BY <1>0, <1>9, <1>11, <3>2, <4>1
    <3> QED BY <3>1, <3>2
  <2> QED BY <1>1, <1>3, <1>5, <1>8, <1>9, <2>1 DEF NodeFits, Size
<1>14. Layout(u, h, B, G)
  <2>1. u.root # NULL /\ t.root # NULL
    <3>1. Nodes(t) # {}
      BY <1>0
    <3> QED BY <1>1, <1>8, <3>1 DEF Layout
  <2>2. \A y \in Nodes(t) : NodeFits(h, B, G, u.nodes[y], B[y], h[y])
    BY <1>12, <1>13
  <2> QED BY <1>1, <1>8, <1>9, <2>1, <2>2 DEF Layout
<1>15. Counted(u, B)
  BY <1>5, <1>8 DEF Counted, Exact
<1>16. \A y \in Nodes(t) : Size(u, y) = Size(t, y) /\ u.nodes[y].kids = t.nodes[y].kids
                           /\ u.nodes[y].counts = t.nodes[y].counts
  BY <1>2, <1>3, <1>5, <1>8 DEF Size
<1> QED BY <1>8, <1>10, <1>14, <1>15, <1>16 DEF IsSwapped, Standing

\* An element that takes the place of its neighbour is then the one to delete.
Succeeds(G, L, p, q) == RemoveAt(G, q) = RemoveAt(L, p) /\ Len(G) = Len(L) /\ G[p] = L[q] /\ G \in Seq(Int)

\* The list without the element is that of the neighbour's double removed.
LEMMA NeighbourMoves ==
    ASSUME NEW L, L \in Seq(Int), NEW p, p \in 1 .. Len(L), NEW q, q \in 1 .. Len(L), q = p - 1 \/ q = p + 1,
           NEW e, e = L[q], NEW G, G = [L EXCEPT ![p] = e]
    PROVE  Succeeds(G, L, p, q)
<1>1. /\ G \in Seq(Int) /\ Len(G) = Len(L) /\ G[p] = L[q]
      /\ \A x \in 1 .. Len(L) : x # p => G[x] = L[x]
  OBVIOUS
<1>2. PICK m : m = Len(L) - 1
  OBVIOUS
<1>3. m \in Nat /\ Len(L) = m + 1
  <2>1. Len(L) \in Nat
    OBVIOUS
  <2> QED BY ONLY <1>2, <2>1, p \in 1 .. Len(L)
<1>4. p \in 1 .. m + 1 /\ q \in 1 .. m + 1 /\ Len(G) = m + 1
  BY <1>1, <1>3
<1>5. PICK v, w : v = RemoveAt(L, p) /\ w = RemoveAt(G, q)
  OBVIOUS
<1>6. IsWithout(v, Int, L, m, p)
  <2>1. IsWithout(RemoveAt(L, p), Int, L, m, p)
    BY <1>3, <1>4, WithoutIs
  <2> QED BY <1>5, <2>1
<1>7. IsWithout(w, Int, G, m, q)
  <2>1. IsWithout(RemoveAt(G, q), Int, G, m, q)
    BY ONLY <1>1, <1>3, <1>4, WithoutIs
  <2> QED BY <1>5, <2>1
<1>8. /\ v \in Seq(Int) /\ Len(v) = m /\ \A j \in 1 .. m : v[j] = IF j < p THEN L[j] ELSE L[j + 1]
      /\ w \in Seq(Int) /\ Len(w) = m /\ \A j \in 1 .. m : w[j] = IF j < q THEN G[j] ELSE G[j + 1]
  BY <1>6, <1>7 DEF IsWithout
<1>9. ASSUME NEW j \in 1 .. m PROVE v[j] = w[j]
  <2>1. j \in 1 .. m + 1 /\ j + 1 \in 1 .. m + 1
    BY <1>3, SMTT(40)
  <2>2. G[j] = (IF j = p THEN L[q] ELSE L[j]) /\ G[j + 1] = (IF j + 1 = p THEN L[q] ELSE L[j + 1])
    BY <1>1, <1>3, <2>1
  <2>3. v[j] = (IF j < p THEN L[j] ELSE L[j + 1]) /\ w[j] = IF j < q THEN G[j] ELSE G[j + 1]
    BY <1>8
  <2>4. CASE q = p - 1
    <3>1. CASE j < q
      BY <1>4, <2>2, <2>3, <2>4, <3>1
    <3>2. CASE j = q
      <4>1. j + 1 = p /\ j < p /\ ~ (j < q)
        BY <1>4, <2>4, <3>2
      <4> QED BY <2>2, <2>3, <3>2, <4>1
    <3>3. CASE j > q
      <4>1. j + 1 # p /\ ~ (j < p) /\ ~ (j < q)
        BY <1>4, <2>4, <3>3
      <4> QED BY <2>2, <2>3, <4>1
    <3> QED BY <1>4, <3>1, <3>2, <3>3
  <2>5. CASE q = p + 1
    <3>1. CASE j < p
      <4>1. j < q /\ j # p
        BY <1>4, <2>5, <3>1
      <4> QED BY <2>2, <2>3, <3>1, <4>1
    <3>2. CASE j = p
      <4>1. j < q /\ j + 1 = q /\ ~ (j < p)
        BY <1>4, <2>5, <3>2
      <4> QED BY <2>2, <2>3, <3>2, <4>1
    <3>3. CASE j > p
      <4>1. j + 1 # p /\ ~ (j < p) /\ ~ (j < q)
        BY <1>4, <2>5, <3>3
      <4> QED BY <2>2, <2>3, <4>1
    <3> QED BY <1>4, <3>1, <3>2, <3>3
  <2> QED BY <2>4, <2>5
<1>10. v = w
  BY ONLY <1>8, <1>9, m \in Nat, SameItems
<1> QED BY <1>1, <1>5, <1>10 DEF Succeeds

\* The search for position p is at node n, where the position has a number.  A node
\* other than the root can spare an element.
SeekAt(t, h, B, G, n, p, index) ==
    /\ Standing(t, h, B, G) /\ Counted(t, B) /\ Sized(t) /\ n \in Nodes(t) /\ p \in Nat
    /\ Lo(B[n]) < p /\ p < Hi(B[n]) /\ index = p - Lo(B[n]) - 1
    /\ n = t.root \/ Size(t, n) >= 2

\* It goes on at node n of tree u.
GoesTo(t, u, G, n, p, index) ==
    u.sorted = t.sorted /\ \E h, B : SeekAt(u, h, B, G, n, p, index)

\* The kid the position is in.
SeekKid(t, h, B, G, n, p, index, c, k) ==
    /\ c \in 1 .. Size(t, n) + 1 /\ h[n] # 0 /\ k \in Nodes(t) /\ IsKid(t, h, B, n, c, k)
    /\ Lo(B[k]) = B[n][c] /\ Hi(B[k]) = B[n][c + 1] /\ B[n][c] \in Nat /\ B[n][c + 1] \in Nat
    /\ B[n][c] < p /\ p < B[n][c + 1]
    /\ index - Start(t.nodes[n], c) = p - B[n][c] - 1
    /\ Size(t, n) \in 1 .. 3 /\ Size(t, k) \in 1 .. 3

\* KidAt finds the kid the position is in, and its number there.
LEMMA SeekKidIs ==
    ASSUME NEW t, NEW h, NEW B, NEW G, NEW n, NEW p, NEW index, SeekAt(t, h, B, G, n, p, index),
           NEW c, c \in KidAt(t.nodes[n], index), NEW k, k = t.nodes[n].kids[c]
    PROVE  SeekKid(t, h, B, G, n, p, index, c, k)
<1>1. /\ Standing(t, h, B, G) /\ Counted(t, B) /\ Sized(t) /\ n \in Nodes(t) /\ p \in Nat
      /\ index = p - Lo(B[n]) - 1
  BY DEF SeekAt
<1>2. /\ c \in 1 .. Size(t, n) + 1 /\ B[n][c] < p /\ p < B[n][c + 1]
      /\ B[n][c] \in Nat /\ B[n][c + 1] \in Nat
      /\ Start(t.nodes[n], c) = B[n][c] - Lo(B[n]) /\ Lo(B[n]) \in Nat
      /\ h[n] # 0 /\ h[n] \in Nat
      /\ IsKid(t, h, B, n, c, t.nodes[n].kids[c])
  BY <1>1, KidAtIs
<1>3. index - Start(t.nodes[n], c) = p - B[n][c] - 1
  <2>1. PICK x, y, s : x = B[n][c] /\ y = Lo(B[n]) /\ s = Start(t.nodes[n], c)
    OBVIOUS
  <2>2. x \in Nat /\ y \in Nat /\ s = x - y /\ index = p - y - 1 /\ p \in Nat
    BY <1>1, <1>2, <2>1
  <2>3. index - s = p - x - 1
    BY ONLY <2>2
  <2> QED BY <2>1, <2>3
<1>4. k \in Nodes(t) /\ IsKid(t, h, B, n, c, k) /\ Lo(B[k]) = B[n][c] /\ Hi(B[k]) = B[n][c + 1]
  BY <1>2 DEF IsKid
<1>5. Size(t, n) \in 1 .. 3 /\ Size(t, k) \in 1 .. 3
  BY <1>1, <1>4 DEF Sized
<1> QED BY <1>2, <1>3, <1>4, <1>5 DEF SeekKid

\* A kid with more than one element is entered.
LEMMA EnterKid ==
    ASSUME NEW t, NEW h, NEW B, NEW G, NEW n, NEW p, NEW index, SeekAt(t, h, B, G, n, p, index),
           NEW c, NEW k, SeekKid(t, h, B, G, n, p, index, c, k), Size(t, k) >= 2
    PROVE  GoesTo(t, t, G, k, p, index - Start(t.nodes[n], c))
<1>1. /\ Standing(t, h, B, G) /\ Counted(t, B) /\ Sized(t) /\ p \in Nat
  BY DEF SeekAt
<1>2. /\ k \in Nodes(t) /\ Lo(B[k]) = B[n][c] /\ Hi(B[k]) = B[n][c + 1] /\ B[n][c] < p /\ p < B[n][c + 1]
      /\ index - Start(t.nodes[n], c) = p - B[n][c] - 1
  BY DEF SeekKid
<1>3. SeekAt(t, h, B, G, k, p, index - Start(t.nodes[n], c))
  BY <1>1, <1>2, SMTT(40) DEF SeekAt
<1> QED BY <1>3 DEF GoesTo

\* One with a single element takes some from its left neighbour first,
LEMMA EnterFromLeft ==
    ASSUME NEW t, NEW h, NEW B, NEW G, NEW n, NEW p, NEW index, SeekAt(t, h, B, G, n, p, index),
           NEW c, NEW k, SeekKid(t, h, B, G, n, p, index, c, k), k = t.nodes[n].kids[c], Size(t, k) = 1,
           NEW d, d = c - 1, d >= 1, NEW a, a = t.nodes[n].kids[d], NEW s, s = Size(t, a), s > 1,
           NEW u, u = Shifted(t, n, d, s - 1)
    PROVE  GoesTo(t, u, G, k, p,
                  index - Start(t.nodes[n], c) + t.nodes[n].counts[d] - u.nodes[n].counts[d])
<1>1. /\ Standing(t, h, B, G) /\ Counted(t, B) /\ Sized(t) /\ p \in Nat /\ n \in Nodes(t)
  BY DEF SeekAt
<1>2. /\ c \in 1 .. Size(t, n) + 1 /\ Size(t, n) \in 1 .. 3 /\ h[n] # 0 /\ k \in Nodes(t)
      /\ Lo(B[k]) = B[n][c] /\ Hi(B[k]) = B[n][c + 1] /\ B[n][c] < p /\ p < B[n][c + 1]
      /\ B[n][c] \in Nat /\ B[n][c + 1] \in Nat
      /\ index - Start(t.nodes[n], c) = p - B[n][c] - 1
  BY DEF SeekKid
<1>3. d \in 1 .. Size(t, n) /\ d \in 1 .. Size(t, n) + 1 /\ d + 1 = c
  BY <1>2
<1>4. a \in Nodes(t) /\ Lo(B[a]) = B[n][d] /\ B[n][d] \in Nat
  <2>1. h[n] # 0 /\ Linked(t) /\ IsTree(t) /\ Layout(t, h, B, G) /\ Bounds(B[n], Size(t, n))
    BY <1>1, <1>2, NodeIs, ZenonT(40) DEF Standing
  <2>2. IsKid(t, h, B, n, d, a)
    BY <1>1, <1>3, <2>1, KidIs
  <2>3. B[n][d] \in Nat
    BY <1>3, <2>1, SlotIs
  <2> QED BY <2>2, <2>3 DEF IsKid
<1>5. s \in 2 .. 3 /\ s - 1 \in 1 .. 3 /\ 2 \in 1 .. 3
  <2>1. Size(t, a) \in 1 .. 3
    BY <1>1, <1>4 DEF Sized
  <2>2. s \in 1 .. 3 /\ s > 1
    BY <2>1
  <2> QED BY ONLY <2>2
<1>6. Size(t, a) + Size(t, k) = (s - 1) + 2
  <2>1. Size(t, a) = s /\ Size(t, k) = 1
    OBVIOUS
  <2>2. s + 1 = (s - 1) + 2
    BY ONLY <1>5
  <2> QED BY <2>1, <2>2
<1>7. PICK j, r : j = s - 1 /\ r = 2
  OBVIOUS
<1>8. \E B2 : IsBorrow(u, t, h, B2, B, G, n, d, a, k, j, r)
  <2>1. k = t.nodes[n].kids[d + 1] /\ a = t.nodes[n].kids[d] /\ u = Shifted(t, n, d, j)
    BY <1>3, <1>7
  <2>2. j \in 1 .. 3 /\ r \in 1 .. 3 /\ Size(t, a) + Size(t, k) = j + r
    BY <1>5, <1>6, <1>7
  <2>3. h[n] # 0
    BY <1>2, SMTT(40)
  <2> QED BY ONLY <1>1, <1>3, <2>1, <2>2, <2>3, Borrowed
<1>9. PICK B2 : IsBorrow(u, t, h, B2, B, G, n, d, a, k, j, r)
  BY <1>8, SMTT(40)
<1>10. /\ Standing(u, h, B2, G) /\ Counted(u, B2) /\ Sized(u) /\ u.sorted = t.sorted
       /\ Nodes(u) = Nodes(t) /\ Size(u, k) = r /\ a \in Nodes(t)
       /\ Lo(B2[a]) = Lo(B[a]) /\ Hi(B2[a]) = Lo(B2[k]) /\ Hi(B2[k]) = Hi(B[k])
       /\ u.nodes[n].counts[d] = Length(B2[a])
       /\ j < Size(t, a) => Lo(B2[k]) < Lo(B[k])
  BY <1>9, ZenonT(40) DEF IsBorrow
<1>11. j < Size(t, a)
  <2>1. s - 1 < s
    BY ONLY <1>5, SMTT(40)
  <2> QED BY <1>7, <2>1
<1>12. Lo(B2[k]) \in Nat /\ Hi(B2[k]) \in Nat
  <2>1. Standing(u, h, B2, G) /\ k \in Nodes(u)
    BY <1>2, <1>10, ZenonT(40)
  <2>2. IsTree(u) /\ Layout(u, h, B2, G)
    BY ONLY <2>1 DEF Standing
  <2>3. Bounds(B2[k], Size(u, k))
    BY ONLY <2>1, <2>2, NodeIs
  <2>4. PICK v, o : v = B2[k] /\ o = Size(u, k)
    OBVIOUS
  <2>5. Lo(v) \in Nat /\ Hi(v) \in Nat
    BY ONLY <2>3, <2>4, EndsAre
  <2> QED BY <2>4, <2>5, SMTT(40)
<1>13. t.nodes[n].counts[d] = B[n][c] - B[n][d] - 1
  <2>1. t.nodes[n].counts[d] = B[n][d + 1] - B[n][d] - 1
    <3>1. Exact(t.nodes[n], B[n])
      BY <1>1, SMTT(40) DEF Counted
    <3> QED BY <1>1, <1>3, <3>1, KidCount
  <2> QED BY <1>3, <2>1
<1>14. PICK x, y, z, i, o, w : /\ x = B[n][c] /\ y = B[n][d] /\ z = Lo(B2[k]) /\ o = t.nodes[n].counts[d]
                               /\ w = u.nodes[n].counts[d] /\ i = index - Start(t.nodes[n], c)
  BY ZenonT(40)
<1>15. /\ x \in Nat /\ y \in Nat /\ z \in Nat /\ p \in Nat
       /\ o = x - y - 1 /\ i = p - x - 1 /\ x < p /\ z < x /\ w = z - y - 1
  BY <1>1, <1>2, <1>4, <1>10, <1>11, <1>12, <1>13, <1>14, ZenonT(40) DEF Length
<1>16. i + o - w = p - z - 1 /\ z < p
  BY ONLY <1>15, SMTT(40)
<1>17. p < Hi(B2[k])
  BY <1>2, <1>10, ZenonT(40)
<1>18. Size(u, k) >= 2
  <2>1. Size(u, k) = r /\ r = 2
    BY <1>7, <1>10, ZenonT(40)
  <2> QED BY ONLY <2>1, SMTT(40)
<1>19. SeekAt(u, h, B2, G, k, p, i + o - w)
  BY <1>1, <1>2, <1>10, <1>14, <1>16, <1>17, <1>18, ZenonT(40) DEF SeekAt
<1> QED BY <1>10, <1>14, <1>19, ZenonT(40) DEF GoesTo

\* What is at a kid of n that is a neighbour of the one sought.
Neighbour(t, B, n, d, a) ==
    /\ a \in Nodes(t) /\ Lo(B[a]) = B[n][d] /\ Hi(B[a]) = B[n][d + 1] /\ B[n][d] \in Nat /\ B[n][d + 1] \in Nat
    /\ t.nodes[n].counts[d] = B[n][d + 1] - B[n][d] - 1
    /\ Size(t, a) \in 1 .. 3

\* Where a kid of n lies, and its count and size.
LEMMA NeighbourIs ==
    ASSUME NEW t, NEW h, NEW B, NEW G, Standing(t, h, B, G), Counted(t, B), Sized(t), NEW n, n \in Nodes(t), h[n] # 0,
           NEW d, d \in 1 .. Size(t, n) + 1, NEW a, a = t.nodes[n].kids[d]
    PROVE  Neighbour(t, B, n, d, a)
<1>1. Linked(t) /\ IsTree(t) /\ Layout(t, h, B, G) /\ Bounds(B[n], Size(t, n))
  BY NodeIs DEF Standing
<1>2. IsKid(t, h, B, n, d, a)
  BY <1>1, KidIs
<1>3. B[n][d] \in Nat /\ B[n][d + 1] \in Nat
  BY <1>1, SlotIs
<1>4. t.nodes[n].counts[d] = B[n][d + 1] - B[n][d] - 1
  <2>1. Exact(t.nodes[n], B[n])
    BY DEF Counted
  <2> QED BY <2>1, KidCount
<1>5. a \in Nodes(t) /\ Lo(B[a]) = B[n][d] /\ Hi(B[a]) = B[n][d + 1]
  BY <1>2 DEF IsKid
<1>6. Size(t, a) \in 1 .. 3
  BY <1>5 DEF Sized
<1> QED BY <1>3, <1>4, <1>5, <1>6 DEF Neighbour

\* The ends of a node are positions.
LEMMA EndsIn ==
    ASSUME NEW u, NEW h, NEW B, NEW G, Standing(u, h, B, G), NEW k, k \in Nodes(u)
    PROVE  Lo(B[k]) \in Nat /\ Hi(B[k]) \in Nat
<1>1. Bounds(B[k], Size(u, k))
  BY NodeIs DEF Standing
<1> QED BY <1>1, EndsAre

\* ... or from its right one,
LEMMA EnterFromRight ==
    ASSUME NEW t, NEW h, NEW B, NEW G, NEW n, NEW p, NEW index, SeekAt(t, h, B, G, n, p, index),
           NEW c, NEW k, SeekKid(t, h, B, G, n, p, index, c, k), k = t.nodes[n].kids[c], Size(t, k) = 1,
           c <= Size(t, n), NEW b, b = t.nodes[n].kids[c + 1], Size(t, b) > 1,
           NEW u, u = Shifted(t, n, c, 2)
    PROVE  GoesTo(t, u, G, k, p, index - Start(t.nodes[n], c))
<1>1. /\ Standing(t, h, B, G) /\ Counted(t, B) /\ Sized(t) /\ p \in Nat /\ n \in Nodes(t)
  BY DEF SeekAt
<1>2. /\ c \in 1 .. Size(t, n) + 1 /\ Size(t, n) \in 1 .. 3 /\ h[n] # 0 /\ k \in Nodes(t)
      /\ Lo(B[k]) = B[n][c] /\ Hi(B[k]) = B[n][c + 1] /\ B[n][c] < p /\ p < B[n][c + 1]
      /\ B[n][c] \in Nat /\ B[n][c + 1] \in Nat
      /\ index - Start(t.nodes[n], c) = p - B[n][c] - 1
  BY DEF SeekKid
<1>3. c \in 1 .. Size(t, n) /\ c + 1 \in 1 .. Size(t, n) + 1
  BY <1>2
<1>4. b \in Nodes(t) /\ Size(t, b) \in 1 .. 3
  <2>1. Neighbour(t, B, n, c + 1, b)
    BY <1>1, <1>2, <1>3, NeighbourIs
  <2> QED BY <2>1 DEF Neighbour
<1>5. PICK s : s = Size(t, b)
  OBVIOUS
<1>6. s \in 2 .. 3
  <2>1. s \in 1 .. 3 /\ s > 1
    BY <1>4, <1>5
  <2> QED BY ONLY <2>1
<1>7. PICK j, r : j = 2 /\ r = s - 1
  OBVIOUS
<1>8. j \in 1 .. 3 /\ r \in 1 .. 3 /\ 1 + s = j + r
  BY ONLY <1>6, <1>7
<1>9. Size(t, k) + Size(t, b) = j + r
  BY <1>5, <1>8
<1>10. PICK B2 : IsBorrow(u, t, h, B2, B, G, n, c, k, b, j, r)
  <2>1. k = t.nodes[n].kids[c] /\ b = t.nodes[n].kids[c + 1] /\ u = Shifted(t, n, c, j) /\ h[n] # 0
    BY <1>2, <1>7
  <2>2. \E B2 : IsBorrow(u, t, h, B2, B, G, n, c, k, b, j, r)
    BY ONLY <1>1, <1>3, <1>8, <1>9, <2>1, Borrowed, ZenonT(40)
  <2> QED BY <2>2
<1>11. /\ Standing(u, h, B2, G) /\ Counted(u, B2) /\ Sized(u) /\ u.sorted = t.sorted
       /\ Nodes(u) = Nodes(t) /\ Size(u, k) = j /\ Lo(B2[k]) = Lo(B[k])
       /\ j > Size(t, k) => Hi(B[k]) < Hi(B2[k])
  BY <1>10 DEF IsBorrow
<1>12. j > Size(t, k)
  BY <1>7
<1>13. Hi(B2[k]) \in Nat
  BY <1>2, <1>11, EndsIn
<1>14. Lo(B2[k]) < p /\ index - Start(t.nodes[n], c) = p - Lo(B2[k]) - 1
  BY <1>2, <1>11
<1>15. p < Hi(B2[k])
  <2>1. PICK x, y : x = B[n][c + 1] /\ y = Hi(B2[k])
    BY ZenonT(40)
  <2>2. p < x /\ x < y /\ x \in Nat /\ y \in Nat /\ p \in Nat
    BY <1>1, <1>2, <1>11, <1>12, <1>13, <2>1
  <2> QED BY <2>1, <2>2
<1>16. Size(u, k) >= 2
  <2>1. Size(u, k) = j /\ j = 2
    BY <1>7, <1>11
  <2> QED BY ONLY <2>1
<1>17. SeekAt(u, h, B2, G, k, p, index - Start(t.nodes[n], c))
  BY <1>1, <1>2, <1>11, <1>14, <1>15, <1>16, ZenonT(40) DEF SeekAt
<1> QED BY <1>11, <1>17 DEF GoesTo

\* or is joined with the left one
LEMMA EnterJoinLeft ==
    ASSUME NEW t, NEW h, NEW B, NEW G, NEW n, NEW p, NEW index, SeekAt(t, h, B, G, n, p, index),
           NEW c, NEW k, SeekKid(t, h, B, G, n, p, index, c, k), k = t.nodes[n].kids[c], Size(t, k) = 1,
           NEW d, d = c - 1, d >= 1, NEW a, a = t.nodes[n].kids[d], Size(t, a) = 1,
           NEW u, u = Joined(t, n, d, k)
    PROVE  GoesTo(t, u, G, k, p, index - Start(t.nodes[n], c) + t.nodes[n].counts[d] + 1)
<1>1. /\ Standing(t, h, B, G) /\ Counted(t, B) /\ Sized(t) /\ p \in Nat /\ n \in Nodes(t)
      /\ n = t.root \/ Size(t, n) >= 2
  BY DEF SeekAt
<1>2. /\ c \in 1 .. Size(t, n) + 1 /\ Size(t, n) \in 1 .. 3 /\ h[n] # 0 /\ k \in Nodes(t)
      /\ Lo(B[k]) = B[n][c] /\ Hi(B[k]) = B[n][c + 1] /\ B[n][c] < p /\ p < B[n][c + 1]
      /\ B[n][c] \in Nat /\ B[n][c + 1] \in Nat
      /\ index - Start(t.nodes[n], c) = p - B[n][c] - 1
  BY DEF SeekKid
<1>3. d \in 1 .. Size(t, n) /\ d \in 1 .. Size(t, n) + 1 /\ d + 1 = c
  BY <1>2
<1>4. a \in Nodes(t) /\ Lo(B[a]) = B[n][d] /\ B[n][d] \in Nat /\ t.nodes[n].counts[d] = B[n][c] - B[n][d] - 1
  <2>1. Neighbour(t, B, n, d, a)
    BY <1>1, <1>2, <1>3, NeighbourIs
  <2>2. /\ a \in Nodes(t) /\ Lo(B[a]) = B[n][d] /\ B[n][d] \in Nat
        /\ t.nodes[n].counts[d] = B[n][d + 1] - B[n][d] - 1
    BY <2>1 DEF Neighbour
  <2> QED BY <1>3, <2>2
<1>5. PICK total : total = 3
  OBVIOUS
<1>6. total \in 1 .. 3 /\ 1 + 1 + 1 = total
  BY <1>5
<1>7. PICK h2, B2 : IsJoin(u, t, h2, B2, B, G, n, d, a, k, k, total)
  <2>1. /\ k = t.nodes[n].kids[d + 1] /\ a = t.nodes[n].kids[d] /\ u = Joined(t, n, d, k) /\ h[n] # 0
        /\ k \in {a, k}
    BY <1>2, <1>3
  <2>2. Size(t, a) + Size(t, k) + 1 = total
    BY <1>6
  <2>3. \E h2, B2 : IsJoin(u, t, h2, B2, B, G, n, d, a, k, k, total)
    BY ONLY <1>1, <1>3, <1>6, <2>1, <2>2, JoinStands, ZenonT(40)
  <2> QED BY <2>3
<1>8. /\ Standing(u, h2, B2, G) /\ Counted(u, B2) /\ Sized(u) /\ u.sorted = t.sorted
      /\ k \in Nodes(u) /\ Lo(B2[k]) = Lo(B[a]) /\ Hi(B2[k]) = Hi(B[k]) /\ Size(u, k) = total
  BY <1>7 DEF IsJoin
<1>9. PICK x, y, o, i : x = B[n][c] /\ y = B[n][d] /\ o = t.nodes[n].counts[d] /\ i = index - Start(t.nodes[n], c)
  OBVIOUS
<1>10. d < c
  BY <1>3
<1>11. x \in Nat /\ y \in Nat /\ y < x /\ o = x - y - 1 /\ i = p - x - 1 /\ x < p /\ p \in Nat
  <2>1. Bounds(B[n], Size(t, n))
    BY <1>1, NodeIs DEF Standing
  <2>2. B[n][d] < B[n][d + 1]
    BY <1>3, <2>1, SlotIs
  <2> QED BY <1>1, <1>2, <1>3, <1>4, <1>9, <2>2
<1>12. i + o + 1 = p - y - 1 /\ y < p
  BY ONLY <1>11, SMTT(40)
<1>13. p < Hi(B2[k]) /\ Lo(B2[k]) = y
  BY <1>2, <1>4, <1>8, <1>9
<1>14. Size(u, k) >= 2
  <2>1. Size(u, k) = total /\ total = 3
    BY <1>5, <1>8, ZenonT(40)
  <2> QED BY ONLY <2>1, SMTT(40)
<1>15. SeekAt(u, h2, B2, G, k, p, i + o + 1)
  BY <1>1, <1>8, <1>12, <1>13, <1>14, ZenonT(40) DEF SeekAt
<1> QED BY <1>8, <1>9, <1>15 DEF GoesTo

\* or the right one.
LEMMA EnterJoinRight ==
    ASSUME NEW t, NEW h, NEW B, NEW G, NEW n, NEW p, NEW index, SeekAt(t, h, B, G, n, p, index),
           NEW c, NEW k, SeekKid(t, h, B, G, n, p, index, c, k), k = t.nodes[n].kids[c], Size(t, k) = 1,
           c <= Size(t, n), NEW b, b = t.nodes[n].kids[c + 1], Size(t, b) = 1,
           NEW u, u = Joined(t, n, c, b)
    PROVE  GoesTo(t, u, G, b, p, index - Start(t.nodes[n], c))
<1>1. /\ Standing(t, h, B, G) /\ Counted(t, B) /\ Sized(t) /\ p \in Nat /\ n \in Nodes(t)
      /\ n = t.root \/ Size(t, n) >= 2
  BY DEF SeekAt
<1>2. /\ c \in 1 .. Size(t, n) + 1 /\ Size(t, n) \in 1 .. 3 /\ h[n] # 0 /\ k \in Nodes(t)
      /\ Lo(B[k]) = B[n][c] /\ Hi(B[k]) = B[n][c + 1] /\ B[n][c] < p /\ p < B[n][c + 1]
      /\ B[n][c] \in Nat /\ B[n][c + 1] \in Nat
      /\ index - Start(t.nodes[n], c) = p - B[n][c] - 1
  BY DEF SeekKid
<1>3. c \in 1 .. Size(t, n) /\ c + 1 \in 1 .. Size(t, n) + 1
  BY <1>2
<1>4. b \in Nodes(t) /\ Lo(B[b]) = B[n][c + 1]
  <2>1. Neighbour(t, B, n, c + 1, b)
    BY <1>1, <1>2, <1>3, NeighbourIs
  <2> QED BY <2>1 DEF Neighbour
<1>5. PICK total : total = 3
  OBVIOUS
<1>6. total \in 1 .. 3 /\ 1 + 1 + 1 = total
  BY <1>5, SMTT(40)
<1>7. PICK h2, B2 : IsJoin(u, t, h2, B2, B, G, n, c, k, b, b, total)
  <2>1. /\ k = t.nodes[n].kids[c] /\ b = t.nodes[n].kids[c + 1] /\ u = Joined(t, n, c, b) /\ h[n] # 0
        /\ b \in {k, b}
    BY <1>2
  <2>2. Size(t, k) + Size(t, b) + 1 = total
    BY <1>6
  <2>3. \E h2, B2 : IsJoin(u, t, h2, B2, B, G, n, c, k, b, b, total)
    BY ONLY <1>1, <1>3, <1>6, <2>1, <2>2, JoinStands, ZenonT(40)
  <2> QED BY <2>3
<1>8. /\ Standing(u, h2, B2, G) /\ Counted(u, B2) /\ Sized(u) /\ u.sorted = t.sorted
      /\ b \in Nodes(u) /\ Lo(B2[b]) = Lo(B[k]) /\ Hi(B2[b]) = Hi(B[b]) /\ Size(u, b) = total
  BY <1>7, ZenonT(40) DEF IsJoin
<1>9. Lo(B[b]) < Hi(B[b]) /\ Hi(B[b]) \in Nat
  <2>1. Bounds(B[b], Size(t, b))
    BY <1>1, <1>4, NodeIs DEF Standing
  <2> QED BY <2>1, EndsAre
<1>10. p < Hi(B2[b])
  <2>1. PICK x, y : x = B[n][c + 1] /\ y = Hi(B2[b])
    BY ZenonT(40)
  <2>2. p < x /\ x < y /\ x \in Nat /\ y \in Nat /\ p \in Nat
    BY <1>1, <1>2, <1>4, <1>8, <1>9, <2>1, ZenonT(40)
  <2> QED BY <2>1, <2>2
<1>11. Lo(B2[b]) < p /\ index - Start(t.nodes[n], c) = p - Lo(B2[b]) - 1
  BY <1>2, <1>8, ZenonT(40)
<1>12. Size(u, b) >= 2
  <2>1. Size(u, b) = total /\ total = 3
    BY <1>5, <1>8, ZenonT(40)
  <2> QED BY ONLY <2>1
<1>13. SeekAt(u, h2, B2, G, b, p, index - Start(t.nodes[n], c))
  BY <1>1, <1>8, <1>10, <1>11, <1>12 DEF SeekAt
<1> QED BY <1>8, <1>13 DEF GoesTo

\* The elements of a kid, and of no kid.
KidSize(t, n, k) == IF k \in DOMAIN t.nodes[n].kids THEN Len(t.nodes[t.nodes[n].kids[k]].elems) ELSE 0

IsKidSize(t, n, d) ==
    /\ KidSize(t, n, d) \in 0 .. 3
    /\ d \in 1 .. Size(t, n) + 1 => KidSize(t, n, d) = Size(t, t.nodes[n].kids[d]) /\ KidSize(t, n, d) \in 1 .. 3
    /\ d \notin 1 .. Size(t, n) + 1 => KidSize(t, n, d) = 0

\* Kids have one to three elements.
LEMMA KidSizeIs ==
    ASSUME NEW t, NEW h, NEW B, NEW G, Standing(t, h, B, G), Sized(t), NEW n, n \in Nodes(t), h[n] # 0, NEW d, d \in Int
    PROVE  IsKidSize(t, n, d)
<1>1. Linked(t) /\ IsTree(t) /\ Layout(t, h, B, G) /\ NodeFits(h, B, G, t.nodes[n], B[n], h[n]) /\ t.nodes[n] \in Node234
  BY NodeIs DEF Standing
<1>2. DOMAIN t.nodes[n].kids = 1 .. Size(t, n) + 1
  BY <1>1, PartsAre DEF Size
<1>3. d \notin 1 .. Size(t, n) + 1 => KidSize(t, n, d) = 0
  BY <1>2 DEF KidSize
<1>4. ASSUME d \in 1 .. Size(t, n) + 1 PROVE KidSize(t, n, d) = Size(t, t.nodes[n].kids[d]) /\ KidSize(t, n, d) \in 1 .. 3
  <2>1. KidSize(t, n, d) = Size(t, t.nodes[n].kids[d])
    BY <1>2, <1>4 DEF KidSize, Size
  <2>2. IsKid(t, h, B, n, d, t.nodes[n].kids[d])
    BY <1>1, <1>4, KidIs
  <2>3. t.nodes[n].kids[d] \in Nodes(t)
    BY <2>2 DEF IsKid
  <2>4. Size(t, t.nodes[n].kids[d]) \in 1 .. 3
    BY <2>3 DEF Sized
  <2> QED BY <2>1, <2>4
<1>5. KidSize(t, n, d) \in 0 .. 3
  <2>1. PICK s : s = KidSize(t, n, d)
    OBVIOUS
  <2>2. s = 0 \/ s \in 1 .. 3
    BY <1>3, <1>4, <2>1
  <2>3. s \in 0 .. 3
    BY ONLY <2>2, SMTT(40)
  <2> QED BY <2>1, <2>3
<1> QED BY <1>3, <1>4, <1>5 DEF IsKidSize

\* Enter with its local definitions expanded.
LEMMA EnterIs ==
    ASSUME NEW n, NEW c, NEW i, Enter(n, c, i), NEW k, k = tree.nodes[n].kids[c]
    PROVE  IF KidSize(tree, n, c) > 1 THEN pc' = Seeking(k, i, pc.ret) /\ tree' = tree
           ELSE IF KidSize(tree, n, c - 1) > 1
           THEN LET u == Shifted(tree, n, c - 1, KidSize(tree, n, c - 1) - 1)
                IN  /\ tree' = u
                    /\ pc' = Seeking(k, i + tree.nodes[n].counts[c - 1] - u.nodes[n].counts[c - 1], pc.ret)
           ELSE IF KidSize(tree, n, c + 1) > 1
           THEN tree' = Shifted(tree, n, c, 2) /\ pc' = Seeking(k, i, pc.ret)
           ELSE IF c > 1
           THEN /\ tree' = Joined(tree, n, c - 1, k)
                /\ pc' = Seeking(k, i + tree.nodes[n].counts[c - 1] + 1, pc.ret)
           ELSE /\ tree' = Joined(tree, n, c, tree.nodes[n].kids[c + 1])
                /\ pc' = Seeking(tree.nodes[n].kids[c + 1], i, pc.ret)
BY ZenonT(40) DEF Enter, KidSize

\* The search goes on at a kid that can spare an element.
THEOREM EnterGoes ==
    ASSUME NEW h, NEW B, NEW G, NEW n, NEW p, NEW index, SeekAt(tree, h, B, G, n, p, index),
           NEW c, c \in KidAt(tree.nodes[n], index), Enter(n, c, index - Start(tree.nodes[n], c))
    PROVE  \E n2, index2 : pc' = Seeking(n2, index2, pc.ret) /\ GoesTo(tree, tree', G, n2, p, index2)
<1>1. PICK k : k = tree.nodes[n].kids[c]
  OBVIOUS
<1>2. SeekKid(tree, h, B, G, n, p, index, c, k)
  BY <1>1, SeekKidIs
<1>3. /\ c \in 1 .. Size(tree, n) + 1 /\ h[n] # 0 /\ Size(tree, n) \in 1 .. 3
  BY <1>2 DEF SeekKid
<1>4. Standing(tree, h, B, G) /\ Sized(tree) /\ n \in Nodes(tree)
  BY DEF SeekAt
<1>5. \A d \in Int : IsKidSize(tree, n, d)
  BY <1>3, <1>4, KidSizeIs
<1>6. PICK i : i = index - Start(tree.nodes[n], c)
  OBVIOUS
<1>7. Enter(n, c, i)
  BY <1>6
<1>8. PICK d, b : d = c - 1 /\ b = tree.nodes[n].kids[c + 1]
  OBVIOUS
<1>9. /\ c \in Int /\ d \in Int /\ c + 1 \in Int
      /\ d \in 1 .. Size(tree, n) + 1 <=> d >= 1
      /\ d >= 1 <=> c > 1
      /\ c + 1 \in 1 .. Size(tree, n) + 1 <=> c <= Size(tree, n)
  BY <1>3, <1>8
<1>10. PICK s, l, r : s = KidSize(tree, n, c) /\ l = KidSize(tree, n, d) /\ r = KidSize(tree, n, c + 1)
  OBVIOUS
<1>11. /\ s = Size(tree, k) /\ s \in 1 .. 3 /\ l \in 0 .. 3 /\ r \in 0 .. 3
       /\ d >= 1 => l = Size(tree, tree.nodes[n].kids[d]) /\ l \in 1 .. 3
       /\ ~ (d >= 1) => l = 0
       /\ c <= Size(tree, n) => r = Size(tree, b) /\ r \in 1 .. 3
       /\ ~ (c <= Size(tree, n)) => r = 0
  <2>1. s = Size(tree, k) /\ s \in 1 .. 3
    <3>1. IsKidSize(tree, n, c)
      BY <1>5, <1>9
    <3> QED BY <1>1, <1>3, <1>10, <3>1 DEF IsKidSize
  <2>2. /\ l \in 0 .. 3 /\ (d >= 1 => l = Size(tree, tree.nodes[n].kids[d]) /\ l \in 1 .. 3)
        /\ ~ (d >= 1) => l = 0
    <3>1. IsKidSize(tree, n, d)
      BY <1>5, <1>9
    <3> QED BY <1>9, <1>10, <3>1 DEF IsKidSize
  <2>3. /\ r \in 0 .. 3 /\ (c <= Size(tree, n) => r = Size(tree, b) /\ r \in 1 .. 3)
        /\ ~ (c <= Size(tree, n)) => r = 0
    <3>1. IsKidSize(tree, n, c + 1)
      BY <1>5, <1>9
    <3> QED BY <1>8, <1>9, <1>10, <3>1 DEF IsKidSize
  <2> QED BY <2>1, <2>2, <2>3
<1>12. IF s > 1 THEN pc' = Seeking(k, i, pc.ret) /\ tree' = tree
       ELSE IF l > 1
       THEN LET u == Shifted(tree, n, d, l - 1)
            IN  /\ tree' = u
                /\ pc' = Seeking(k, i + tree.nodes[n].counts[d] - u.nodes[n].counts[d], pc.ret)
       ELSE IF r > 1
       THEN tree' = Shifted(tree, n, c, 2) /\ pc' = Seeking(k, i, pc.ret)
       ELSE IF c > 1
       THEN /\ tree' = Joined(tree, n, d, k)
            /\ pc' = Seeking(k, i + tree.nodes[n].counts[d] + 1, pc.ret)
       ELSE /\ tree' = Joined(tree, n, c, b)
            /\ pc' = Seeking(b, i, pc.ret)
  BY <1>1, <1>7, <1>8, <1>10, EnterIs
<1>13. CASE s > 1
  <2>1. Size(tree, k) >= 2
    BY <1>11, <1>13
  <2>2. GoesTo(tree, tree, G, k, p, i)
    BY <1>2, <1>6, <2>1, EnterKid
  <2> QED BY <1>12, <1>13, <2>2
<1>14. CASE ~ (s > 1) /\ l > 1
  <2>1. Size(tree, k) = 1 /\ d >= 1
    BY <1>11, <1>14
  <2>2. PICK a : a = tree.nodes[n].kids[d]
    OBVIOUS
  <2>3. l = Size(tree, a)
    BY <1>11, <2>1, <2>2
  <2>4. PICK u : u = Shifted(tree, n, d, l - 1)
    BY ZenonT(40)
  <2>5. GoesTo(tree, u, G, k, p, index - Start(tree.nodes[n], c) + tree.nodes[n].counts[d] - u.nodes[n].counts[d])
    BY <1>1, <1>2, <1>8, <1>14, <2>1, <2>2, <2>3, <2>4, EnterFromLeft
  <2>6. tree' = u /\ pc' = Seeking(k, i + tree.nodes[n].counts[d] - u.nodes[n].counts[d], pc.ret)
    BY <1>12, <1>14, <2>4
  <2> QED BY <1>6, <2>5, <2>6
<1>15. CASE ~ (s > 1) /\ ~ (l > 1) /\ r > 1
  <2>1. Size(tree, k) = 1 /\ c <= Size(tree, n)
    BY <1>11, <1>15
  <2>2. Size(tree, b) > 1
    BY <1>11, <1>15, <2>1
  <2>3. PICK u : u = Shifted(tree, n, c, 2)
    OBVIOUS
  <2>4. GoesTo(tree, u, G, k, p, index - Start(tree.nodes[n], c))
    BY <1>1, <1>2, <1>8, <2>1, <2>2, <2>3, EnterFromRight
  <2> QED BY <1>6, <1>12, <1>15, <2>3, <2>4
<1>16. CASE ~ (s > 1) /\ ~ (l > 1) /\ ~ (r > 1) /\ c > 1
  <2>1. Size(tree, k) = 1 /\ d >= 1
    BY <1>9, <1>11, <1>16
  <2>2. PICK a : a = tree.nodes[n].kids[d]
    OBVIOUS
  <2>3. Size(tree, a) = 1
    BY <1>11, <1>16, <2>1, <2>2
  <2>4. PICK u : u = Joined(tree, n, d, k)
    OBVIOUS
  <2>5. GoesTo(tree, u, G, k, p, index - Start(tree.nodes[n], c) + tree.nodes[n].counts[d] + 1)
    BY <1>1, <1>2, <1>8, <2>1, <2>2, <2>3, <2>4, EnterJoinLeft
  <2>6. tree' = u /\ pc' = Seeking(k, i + tree.nodes[n].counts[d] + 1, pc.ret)
    BY <1>12, <1>16, <2>4
  <2> QED BY <1>6, <2>5, <2>6
<1>17. CASE ~ (s > 1) /\ ~ (l > 1) /\ ~ (r > 1) /\ ~ (c > 1)
  <2>1. Size(tree, k) = 1 /\ c <= Size(tree, n)
    BY <1>3, <1>11, <1>17
  <2>2. Size(tree, b) = 1
    BY <1>11, <1>17, <2>1
  <2>3. PICK u : u = Joined(tree, n, c, b)
    OBVIOUS
  <2>4. GoesTo(tree, u, G, b, p, index - Start(tree.nodes[n], c))
    BY <1>1, <1>2, <1>8, <2>1, <2>2, <2>3, EnterJoinRight
  <2> QED BY <1>6, <1>12, <1>17, <2>3, <2>4
<1> QED BY <1>13, <1>14, <1>15, <1>16, <1>17

--------------------------------------------------------------------------------
(*****************************************************************************)
(* The neighbour that takes the place of the element: cases 2a and 2b.       *)
(*****************************************************************************)

\* The kid of n on the given side of element c.
Beside(t, n, c, left) == t.nodes[n].kids[IF left THEN c ELSE c + 1]

\* Position p, of element c of inner node n, has a neighbour somewhere below node m, and the
\* kid of n on that side can spare it.
NearAt(t, h, B, G, n, c, m, left, p) ==
    /\ Standing(t, h, B, G) /\ Counted(t, B) /\ Sized(t) /\ left \in BOOLEAN
    /\ p \in Nat /\ At(t, B, n, c, p) /\ h[n] # 0 /\ m \in Nodes(t)
    /\ left => Hi(B[m]) = p
    /\ ~ left => Lo(B[m]) = p
    /\ Size(t, Beside(t, n, c, left)) >= 2

\* The kid on either side.
IsBeside(t, h, B, n, c, k, left, p) ==
    /\ k \in Nodes(t) /\ Lo(B[k]) \in Nat /\ Hi(B[k]) \in Nat /\ Lo(B[k]) + 1 < Hi(B[k])
    /\ left => /\ Hi(B[k]) = p /\ t.nodes[n].counts[c] = p - Lo(B[k]) - 1
    /\ ~ left => Lo(B[k]) = p

\* The kid on either side ends, or begins, at the element.
LEMMA BesideIs ==
    ASSUME NEW t, NEW h, NEW B, NEW G, Standing(t, h, B, G), Counted(t, B), Sized(t),
           NEW n, NEW c, NEW p, At(t, B, n, c, p), h[n] # 0, NEW left, left \in BOOLEAN,
           NEW k, k = Beside(t, n, c, left)
    PROVE  IsBeside(t, h, B, n, c, k, left, p)
<1>1. n \in Nodes(t) /\ c \in 1 .. Size(t, n) /\ B[n][c + 1] = p
  BY DEF At
<1>2. Linked(t) /\ IsTree(t) /\ Layout(t, h, B, G) /\ Bounds(B[n], Size(t, n))
  BY <1>1, NodeIs DEF Standing
<1>3. PICK d : d = IF left THEN c ELSE c + 1
  OBVIOUS
<1>4. Size(t, n) \in Nat
  BY <1>2 DEF Bounds
<1>5. d \in 1 .. Size(t, n) + 1
  BY <1>1, <1>3, <1>4
<1>6. k = t.nodes[n].kids[d]
  BY <1>3 DEF Beside
<1>7. Neighbour(t, B, n, d, k)
  BY <1>1, <1>5, <1>6, NeighbourIs
<1>8. k \in Nodes(t) /\ Lo(B[k]) = B[n][d] /\ Hi(B[k]) = B[n][d + 1]
  BY <1>7 DEF Neighbour
<1>9. t.nodes[n].counts[d] = B[n][d + 1] - B[n][d] - 1
  BY <1>7 DEF Neighbour
<1>10. Bounds(B[k], Size(t, k))
  BY <1>2, <1>8, NodeIs
<1>11. 1 \in 1 .. Size(t, k)
  BY <1>10 DEF Bounds
<1>12. B[k][1 + 1] \in Nat /\ Lo(B[k]) < B[k][1 + 1] /\ B[k][1 + 1] < Hi(B[k]) /\ Lo(B[k]) \in Nat /\ Hi(B[k]) \in Nat
  BY <1>10, <1>11, InnerIs
<1>13. Lo(B[k]) + 1 < Hi(B[k])
  BY <1>12
<1>14. left => d = c
  BY <1>3
<1>15. ~ left => d = c + 1
  BY <1>3
<1>16. left => Hi(B[k]) = p /\ t.nodes[n].counts[c] = p - Lo(B[k]) - 1
  BY <1>1, <1>8, <1>9, <1>14
<1>17. ~ left => Lo(B[k]) = p
  BY <1>1, <1>8, <1>15
<1> QED BY <1>8, <1>12, <1>13, <1>16, <1>17 DEF IsBeside

\* The search for a neighbour begins
LEMMA NearStarts ==
    ASSUME NEW t, NEW h, NEW B, NEW G, Standing(t, h, B, G), Counted(t, B), Sized(t),
           NEW n, NEW c, NEW p, p \in Nat, At(t, B, n, c, p), h[n] # 0, NEW left, left \in BOOLEAN,
           NEW k, k = Beside(t, n, c, left), Size(t, k) >= 2
    PROVE  NearAt(t, h, B, G, n, c, k, left, p)
<1>1. IsBeside(t, h, B, n, c, k, left, p)
  BY BesideIs
<1> QED BY <1>1 DEF NearAt, IsBeside

\* The first or last of a sequence.
EndOf(s, left) == IF left THEN s[Len(s)] ELSE s[1]

\* ... and goes down
LEMMA NearDown ==
    ASSUME NEW t, NEW h, NEW B, NEW G, NEW n, NEW c, NEW m, NEW left, NEW p, NearAt(t, h, B, G, n, c, m, left, p),
           ~ IsLeaf(t.nodes[m]), NEW k, k = EndOf(t.nodes[m].kids, left)
    PROVE  NearAt(t, h, B, G, n, c, k, left, p)
<1>1. Standing(t, h, B, G) /\ Counted(t, B) /\ Sized(t) /\ m \in Nodes(t) /\ left \in BOOLEAN
  BY DEF NearAt
<1>2. Linked(t) /\ IsTree(t) /\ Layout(t, h, B, G) /\ Bounds(B[m], Size(t, m)) /\ t.nodes[m] \in Node234
      /\ NodeFits(h, B, G, t.nodes[m], B[m], h[m])
  BY <1>1, NodeIs DEF Standing
<1>3. h[m] # 0
  BY <1>1, LeafIs
<1>4. Len(t.nodes[m].kids) = Size(t, m) + 1
  BY <1>2, PartsAre DEF Size
<1>5. PICK d : d = IF left THEN Size(t, m) + 1 ELSE 1
  OBVIOUS
<1>6. Size(t, m) \in Nat /\ Lo(B[m]) = B[m][1] /\ Hi(B[m]) = B[m][Size(t, m) + 2]
  BY <1>2 DEF Bounds
<1>7. d \in 1 .. Size(t, m) + 1
  BY <1>5, <1>6
<1>8. k = t.nodes[m].kids[d]
  BY <1>4, <1>5 DEF EndOf
<1>9. Neighbour(t, B, m, d, k)
  BY <1>1, <1>3, <1>7, <1>8, NeighbourIs
<1>10. k \in Nodes(t) /\ Lo(B[k]) = B[m][d] /\ Hi(B[k]) = B[m][d + 1]
  BY <1>9 DEF Neighbour
<1>11. left => Hi(B[k]) = Hi(B[m])
  <2>1. left => d + 1 = Size(t, m) + 2
    BY <1>5, <1>6
  <2> QED BY <1>6, <1>10, <2>1
<1>12. ~ left => Lo(B[k]) = Lo(B[m])
  BY <1>5, <1>6, <1>10
<1> QED BY <1>10, <1>11, <1>12 DEF NearAt

\* The neighbour of position p.
NextTo(left, p) == IF left THEN p - 1 ELSE p + 1

IsNextTo(t, G, m, left, p, e, q) == q \in 1 .. Len(G) /\ e = G[q] /\ e \in Int /\ p \in 1 .. Len(G)

\* At a leaf the last, or first, element is the neighbour.
LEMMA NeighbourAt ==
    ASSUME NEW t, NEW h, NEW B, NEW G, NEW n, NEW c, NEW m, NEW left, NEW p, NearAt(t, h, B, G, n, c, m, left, p),
           IsLeaf(t.nodes[m]), NEW e, e = EndOf(t.nodes[m].elems, left), NEW q, q = NextTo(left, p)
    PROVE  IsNextTo(t, G, m, left, p, e, q)
<1>1. Standing(t, h, B, G) /\ m \in Nodes(t) /\ left \in BOOLEAN /\ At(t, B, n, c, p) /\ p \in Nat
  BY DEF NearAt
<1>2. Linked(t) /\ IsTree(t) /\ Layout(t, h, B, G) /\ Bounds(B[m], Size(t, m)) /\ G \in Seq(Int)
  BY <1>1, NodeIs DEF Standing, Layout
<1>3. h[m] = 0
  BY <1>1, LeafIs
<1>4. PICK k : k = Size(t, m)
  OBVIOUS
<1>5. k \in Nat /\ k >= 1 /\ Lo(B[m]) = B[m][1] /\ Hi(B[m]) = B[m][k + 2]
      /\ \A j \in 1 .. k + 2 : B[m][j] \in Nat
  BY <1>2, <1>4 DEF Bounds
<1>6. PICK d : d = IF left THEN k ELSE 1
  OBVIOUS
<1>7. d \in 1 .. k
  BY <1>5, <1>6
<1>8. e = t.nodes[m].elems[d]
  BY <1>4, <1>6 DEF EndOf, Size
<1>9. B[m][d + 1] = q
  <2>1. CASE left
    <3>1. k + 1 \in 1 .. Size(t, m) + 1
      BY <1>4, <1>5
    <3>2. B[m][k + 1 + 1] = B[m][k + 1] + 1
      BY <1>1, <1>2, <1>3, <3>1, KidIs
    <3>3. Hi(B[m]) = p
      BY <2>1 DEF NearAt
    <3>4. k + 1 + 1 = k + 2 /\ k + 1 \in 1 .. k + 2
      BY <1>5
    <3>5. B[m][k + 1] \in Nat
      BY <1>5, <3>4
    <3>6. d = k /\ q = p - 1
      BY <1>6, <2>1 DEF NextTo
    <3>7. B[m][k + 2] = B[m][k + 1] + 1
      BY <3>2, <3>4
    <3>8. p = B[m][k + 1] + 1
      BY <1>5, <3>3, <3>7
    <3>9. B[m][k + 1] = p - 1
      BY <3>5, <3>8
    <3> QED BY <3>6, <3>9
  <2>2. CASE ~ left
    <3>1. 1 \in 1 .. Size(t, m) + 1
      BY <1>4, <1>5
    <3>2. B[m][1 + 1] = B[m][1] + 1
      BY <1>1, <1>2, <1>3, <3>1, KidIs
    <3>3. Lo(B[m]) = p
      BY <2>2 DEF NearAt
    <3>4. d = 1 /\ q = p + 1
      BY <1>6, <2>2 DEF NextTo
    <3> QED BY <1>5, <3>2, <3>3, <3>4
  <2> QED BY <2>1, <2>2
<1>10. At(t, B, m, d, q)
  BY <1>1, <1>4, <1>7, <1>9 DEF At
<1>11. q \in 1 .. Len(G) /\ t.nodes[m].elems[d] = G[q]
  BY <1>1, <1>10, AtIs
<1>12. p \in 1 .. Len(G)
  BY <1>1, AtIs
<1>13. G[q] \in Int
  BY <1>2, <1>11
<1> QED BY <1>8, <1>11, <1>12, <1>13 DEF IsNextTo

\* ... until it has the neighbour, which takes the place of the element and is sought itself.
LEMMA NearSwaps ==
    ASSUME NEW t, NEW h, NEW B, NEW G, NEW n, NEW c, NEW m, NEW left, NEW p, NearAt(t, h, B, G, n, c, m, left, p),
           IsLeaf(t.nodes[m]), NEW e, e = EndOf(t.nodes[m].elems, left), NEW u, u = Swapped(t, n, c, e),
           NEW q, q = NextTo(left, p), NEW G2, G2 = [G EXCEPT ![p] = e],
           NEW k, k = Beside(t, n, c, left)
    PROVE  /\ GoesTo(t, u, G2, k, q, IF left THEN t.nodes[n].counts[c] - 1 ELSE 0)
           /\ Succeeds(G2, G, p, q)
<1>1. Standing(t, h, B, G) /\ Counted(t, B) /\ Sized(t) /\ m \in Nodes(t) /\ left \in BOOLEAN /\ At(t, B, n, c, p)
      /\ p \in Nat /\ h[n] # 0
  BY DEF NearAt
<1>2. IsNextTo(t, G, m, left, p, e, q)
  BY NeighbourAt
<1>3. q \in 1 .. Len(G) /\ e = G[q] /\ e \in Int /\ p \in 1 .. Len(G)
  BY <1>2 DEF IsNextTo
<1>4. G \in Seq(Int)
  BY <1>1 DEF Standing, Layout
<1>5. q = p - 1 \/ q = p + 1
  BY DEF NextTo
<1>7. Succeeds(G2, G, p, q)
  BY <1>3, <1>4, <1>5, NeighbourMoves
<1>8. IsSwapped(u, t, h, B, G2, n, c, e)
  BY <1>1, <1>3, SwappedIs
<1>9. /\ Standing(u, h, B, G2) /\ Counted(u, B) /\ Nodes(u) = Nodes(t) /\ u.root = t.root /\ u.sorted = t.sorted
      /\ \A y \in Nodes(t) : Size(u, y) = Size(t, y)
  BY <1>8 DEF IsSwapped
<1>10. Sized(u)
  BY <1>1, <1>9 DEF Sized
<1>11. IsBeside(t, h, B, n, c, k, left, p)
  BY <1>1, BesideIs
<1>12. PICK lo, hi : lo = Lo(B[k]) /\ hi = Hi(B[k])
  OBVIOUS
<1>13. /\ k \in Nodes(t) /\ lo \in Nat /\ hi \in Nat /\ lo + 1 < hi
       /\ (left => hi = p /\ t.nodes[n].counts[c] = p - lo - 1)
       /\ (~ left => lo = p)
  BY <1>11, <1>12 DEF IsBeside
<1>14. Size(t, k) >= 2
  BY DEF NearAt
<1>15. PICK j : j = IF left THEN t.nodes[n].counts[c] - 1 ELSE 0
  OBVIOUS
<1>16. lo < q /\ q < hi /\ j = q - lo - 1 /\ q \in Nat
  <2>1. CASE left
    BY <1>1, <1>13, <1>15, <2>1 DEF NextTo
  <2>2. CASE ~ left
    BY <1>1, <1>13, <1>15, <2>2, SMTT(40) DEF NextTo
  <2> QED BY <2>1, <2>2
<1>17. SeekAt(u, h, B, G2, k, q, j)
  BY <1>9, <1>10, <1>12, <1>13, <1>14, <1>16 DEF SeekAt
<1>18. GoesTo(t, u, G2, k, q, j)
  BY <1>9, <1>17 DEF GoesTo
<1> QED BY <1>7, <1>15, <1>18

================================================================================
