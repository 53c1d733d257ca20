------------------------------- MODULE MCSequences -------------------------------
\* Two sequential algorithms on arrays: a search of one node, and when that of an empty
\* node is over, the edits and searches of one string.
EXTENDS NodeSearch, XStringSearch

CONSTANT MaxRecords

Init == SearchInit /\ StringInit

Next ==
    \/ SearchNext /\ UNCHANGED text
    \/ Done /\ record_count_ = 0 /\ key = 0 /\ StringNext /\ UNCHANGED search_vars

Spec == Init /\ [][Next]_<<search_vars, text>> /\ WF_search_vars(SearchNext)

\* The loop only compares keys: one array of each size and a key in, below and
\* above each gap are all the cases there are.
MCArrays == {[n |-> n, e |-> [i \in 0 .. n - 1 |-> 2 * i + 1]] : n \in 0 .. MaxRecords}
MCSought == 0 .. 2 * MaxRecords

\* Strings of up to two characters, and one that does not fit into the buffer.
MCOthers == {Repeat(1, SIZE + 1)} \cup UNION {[1 .. n -> Chars] : n \in 0 .. 2}
==================================================================================
