--------------------------------- MODULE SafeList ---------------------------------
(***************************************************************************)
(* The methods of safe_list.hpp as functions of the list: each of them     *)
(* calls the method of the same name of impl_, a std::list.  A list is the *)
(* sequence of its nodes, a node is <<value, id>>, and an iterator is a    *)
(* node or end().  What is on the right of splice, swap and merge is not a *)
(* safe_list but a std::list of the caller's; on the right of = it is a    *)
(* safe_list, which its copy constructor does not take.                    *)
(***************************************************************************)
EXTENDS Integers, Sequences, SequencesExt, FiniteSetsExt, Functions

CONSTANT Nodes

ASSUME NodesAssumption == Nodes \subseteq Nat \X Nat

END == <<0, 0>>
ValueOf(node) == node[1]
PlaceOf(s, where) == IF where = END THEN Len(s) + 1 ELSE SelectInSeq(s, LAMBDA n : n = where)

push_front(s, made) == made \o s
push_back(s, made) == s \o made
pop_front(s) == Tail(s)
pop_back(s) == Front(s)

\* resize(_Newsize): the list is cut off, or padded.
resize(s, n, made) == IF n <= Len(s) THEN SubSeq(s, 1, n) ELSE push_back(s, made)
assign(made) == made

insert_at(s, where, made) ==
    LET at == PlaceOf(s, where)
    IN  SubSeq(s, 1, at - 1) \o made \o SubSeq(s, at, Len(s))
erase_range(s, first, last) ==
    SubSeq(s, 1, PlaceOf(s, first) - 1) \o SubSeq(s, PlaceOf(s, last), Len(s))
erase_at(s, where) == SelectSeq(s, LAMBDA n : n # where)

\* The three forms of splice take the first node, several, or all of right.
splice(s, where, right, n) ==
    LET at == PlaceOf(s, where)
    IN  <<SubSeq(s, 1, at - 1) \o SubSeq(right, 1, n) \o SubSeq(s, at, Len(s)),
          SubSeq(right, n + 1, Len(right))>>
swapped(s, right) == <<right, s>>

remove_value(s, value) == SelectSeq(s, LAMBDA n : ValueOf(n) # value)
unique(s) ==
    FoldLeft(LAMBDA kept, n :
                IF kept # <<>> /\ ValueOf(Last(kept)) = ValueOf(n) THEN kept ELSE kept \o <<n>>,
             <<>>, s)

\* Both are stable; merge takes two ordered lists and leaves the right one empty.
sort(s) ==
    FoldLeft(LAMBDA done, v : done \o SelectSeq(s, LAMBDA n : ValueOf(n) = v), <<>>,
             SetToSortSeq({ValueOf(n) : n \in ToSet(s)}, <))
IsOrdered(s) == \A i \in 1 .. Len(s) - 1 : ValueOf(s[i]) <= ValueOf(s[i + 1])
merge(s, right) == <<sort(s \o right), <<>>>>
--------------------------------------------------------------------------------
(* Calls *)

\* An operation, its iterator, the nodes it makes, and how many elements it is about.
Call(op, at, made, n) == [op |-> op, at |-> at, made |-> made, n |-> n]

\* The calls a thread can make with an iterator at, a node to be if the call makes
\* one, and its own list right.
ListCalls(at, fresh, right) ==
    {Call(op, END, <<>>, 0) : op \in {"read", "clear", "remove", "unique", "sort", "reverse", "swap"}}
    \cup {Call("resize", END, <<>>, 0)}
    \cup {Call("resize", END, <<node>>, 1) : node \in fresh}
    \cup {Call(op, END, <<node>>, 0) : op \in {"push_front", "push_back", "assign"}, node \in fresh}
    \cup {Call("insert", at, <<node>>, 0) : node \in fresh}
    \cup {Call("splice", at, <<>>, n) : n \in 1 .. Len(right)}

\* Those that are undefined unless the iterator is at an element, the list has one,
\* or both lists are ordered.
CarefulCalls(s, at, right) ==
    {Call(op, at, <<>>, 0) : op \in IF at = END THEN {} ELSE {"erase", "erase_range"}}
    \cup {Call(op, END, <<>>, 0) : op \in IF s = <<>> THEN {} ELSE {"pop_front", "pop_back"}}
    \cup {Call(op, END, <<>>, 0) : op \in IF IsOrdered(s) /\ IsOrdered(right) THEN {"merge"} ELSE {}}

\* operator= copies another safe_list, into nodes of its own.
CopyCalls(other, fresh) ==
    {Call("=", END, made, 0) :
        made \in {f \in [1 .. Len(other) -> fresh] :
                    /\ IsInjective(f)
                    /\ \A i \in 1 .. Len(other) : ValueOf(f[i]) = ValueOf(other[i])}}

\* What a call makes of the list and of the caller's own list.
AfterListCall(c, s, right) ==
    CASE c.op = "read"        -> <<s, right>>
      [] c.op = "push_front"  -> <<push_front(s, c.made), right>>
      [] c.op = "push_back"   -> <<push_back(s, c.made), right>>
      [] c.op = "pop_front"   -> <<pop_front(s), right>>
      [] c.op = "pop_back"    -> <<pop_back(s), right>>
      [] c.op = "resize"      -> <<resize(s, c.n, c.made), right>>
      [] c.op = "assign"      -> <<assign(c.made), right>>
      [] c.op = "="           -> <<c.made, right>>
      [] c.op = "insert"      -> <<insert_at(s, c.at, c.made), right>>
      [] c.op = "erase"       -> <<erase_at(s, c.at), right>>
      [] c.op = "erase_range" -> <<erase_range(s, c.at, END), right>>
      [] c.op = "clear"       -> <<<<>>, right>>
      [] c.op = "swap"        -> swapped(s, right)
      [] c.op = "splice"      -> splice(s, c.at, right, c.n)
      [] c.op = "remove"      -> <<remove_value(s, 1), right>>
      [] c.op = "unique"      -> <<unique(s), right>>
      [] c.op = "merge"       -> merge(s, right)
      [] c.op = "sort"        -> <<sort(s), right>>
      [] c.op = "reverse"     -> <<Reverse(s), right>>
===================================================================================
