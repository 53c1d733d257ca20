-------------------------------- MODULE NodeSearch --------------------------------
(***************************************************************************)
(* The search for a key within one node of the B-tree: the loop of         *)
(* find_record_and_node (btree/impl_/node.hpp).  It starts in the middle   *)
(* and moves by a step that halves down to one.  Nothing in the loop keeps *)
(* an upper and a lower bound, so that it is not obvious that it cannot    *)
(* jump over the place it looks for, leave the array, or go on forever.    *)
(***************************************************************************)
EXTENDS Integers

CONSTANTS
    Arrays,    \* the contents of entries_ (keys only), functions from 0 .. n-1
    Sought       \* the keys to look for

\* validate(): the keys of a node are in strictly increasing order.
Ascends(e, n) ==
    /\ e \in [0 .. n - 1 -> Int]
    /\ \A i, j \in 0 .. n - 1 : i < j => e[i] < e[j]

ASSUME SoughtAssumption == Sought \subseteq Int
ASSUME ArrayAssumption == \A a \in Arrays : a.n \in Nat /\ Ascends(a.e, a.n)

VARIABLES
    entries,    \* the keys of entries_
    record_count_,
    key,        \* what find_record_and_node looks for
    current,
    step,
    result      \* how the loop ended, and where

search_vars == <<entries, record_count_, key, current, step, result>>

Searching == [kind |-> "searching", at |-> 0]

SearchInit ==
    /\ \E a \in Arrays : entries = a.e /\ record_count_ = a.n
    /\ key \in Sought
    /\ current = record_count_ \div 2
    /\ step = current
    /\ result = Searching

Inside == 0 <= current /\ current < record_count_

\* step /= 2; if(step==0) step = 1;
Halved == IF step \div 2 = 0 THEN 1 ELSE step \div 2

Ends(kind) ==
    /\ result' = [kind |-> kind, at |-> current]
    /\ UNCHANGED <<entries, record_count_, key, current>>

FoundHere ==
    /\ result = Searching /\ Inside
    /\ key = entries[current]
    /\ Ends("record")
    /\ UNCHANGED step

\* Mutant: the key before the current one is not compared.
DescendUnchecked ==
    /\ result = Searching /\ Inside
    /\ key < entries[current]
    /\ Ends("smaller")
    /\ step' = Halved

\* The place is the smaller node of the current entry.
Descend ==
    /\ result = Searching /\ Inside
    /\ key < entries[current]
    /\ current # 0 => key > entries[current - 1]
    /\ Ends("smaller")
    /\ step' = Halved

StepDown ==
    /\ result = Searching /\ Inside
    /\ key < entries[current]
    /\ current # 0 /\ key <= entries[current - 1]
    /\ step' = Halved
    /\ current' = current - Halved
    /\ UNCHANGED <<entries, record_count_, key, result>>

\* Mutants: the step is not halved; the step is halved to zero.
StepUpWhole ==
    /\ result = Searching /\ Inside
    /\ key > entries[current]
    /\ step' = step
    /\ current' = current + step
    /\ UNCHANGED <<entries, record_count_, key, result>>
StepUpByZero ==
    /\ result = Searching /\ Inside
    /\ key > entries[current]
    /\ step' = step \div 2
    /\ current' = current + step \div 2
    /\ UNCHANGED <<entries, record_count_, key, result>>

StepUp ==
    /\ result = Searching /\ Inside
    /\ key > entries[current]
    /\ step' = Halved
    /\ current' = current + Halved
    /\ UNCHANGED <<entries, record_count_, key, result>>

\* The loop ended past the array: on with the larger node, or before it: return 0.
Leave ==
    /\ result = Searching /\ ~ Inside
    /\ Ends(IF current >= record_count_ THEN "larger" ELSE "nowhere")
    /\ UNCHANGED step

Done == result # Searching

SearchNext ==
    \/ FoundHere \/ Descend \/ StepDown \/ StepUp \/ Leave
    \/ Done /\ UNCHANGED search_vars

SearchSpec == SearchInit /\ [][SearchNext]_search_vars /\ WF_search_vars(SearchNext)
-----------------------------------------------------------------------------------
(* Properties *)

\* The index stays within one past the array, and the step within the array.
SearchTypeOK ==
    /\ record_count_ \in Nat /\ Ascends(entries, record_count_)
    /\ key \in Sought
    /\ current \in 0 .. record_count_
    /\ step \in 0 .. record_count_ + 1
    /\ result \in [kind : {"searching", "record", "smaller", "larger"},
                   at : 0 .. record_count_]

\* The one place where a key is or would be: the reference for the loop.
IsPlace(r) ==
    CASE r.kind = "record" -> r.at < record_count_ /\ entries[r.at] = key
      [] r.kind = "smaller" ->
            /\ r.at < record_count_ /\ key < entries[r.at]
            /\ \A i \in 0 .. r.at - 1 : entries[i] < key
      [] r.kind = "larger" -> \A i \in 0 .. record_count_ - 1 : entries[i] < key
      [] OTHER -> FALSE

\* When the loop ends, its result is the key's own record if it is there, and
\* else the only subtree that may hold it.  In particular the "return 0" after the
\* loop (node.hpp:379) is never reached.
Correct == Done => IsPlace(result)

\* The jumps never overshoot: the distance to either end is at least the step
\* just made, until the step is one.
InBounds ==
    result = Searching =>
        IF current = record_count_
        THEN \A i \in 0 .. record_count_ - 1 : entries[i] < key
        ELSE step <= current + 1 /\ step <= record_count_ - current

\* The inductive invariant of the proofs.
SearchInv == SearchTypeOK /\ InBounds /\ Correct

\* The loop ends, although steps of one are made in both directions.
Terminates == <>Done
===================================================================================
