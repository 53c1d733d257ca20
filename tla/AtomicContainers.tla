----------------------------- MODULE AtomicContainers -----------------------------
(***************************************************************************)
(* What safe_list and safe_map promise: every call takes effect at once,   *)
(* whatever the calls are and whatever each of them does.                  *)
(***************************************************************************)
EXTENDS SequencesExt

CONSTANTS
    Threads, Keys, MapValues, Nodes,
    END,                    \* the iterator of no element
    EmptyMap,
    ListCalls(_, _, _),     \* the calls with an iterator, new nodes and a list of one's own
    CarefulCalls(_, _, _),  \* those that ask something of the list
    CopyCalls(_, _),        \* those that copy another list into new nodes
    AfterListCall(_, _, _), \* what a call makes of the list and of the caller's own
    AfterMapCall(_, _, _)   \* what it makes of a map and of the one on its right

VARIABLES
    contents,   \* of the two lists and of the two maps
    mine        \* each thread's own list, which it shares with nobody

Lists == {"list", "other"}
Maps == {"left", "right"}
Containers == Lists \cup Maps
Other(o) ==
    CASE o = "list" -> "other" [] o = "other" -> "list"
      [] o = "left" -> "right" [] o = "right" -> "left"
NoNodes == [t \in Threads |-> <<>>]

MapCalls ==
    {[op |-> op, key |-> k, value |-> 0] : op \in {"read", "clear", "=", "==", "swap", "erase"},
                                           k \in Keys}
    \cup [op : {"insert"}, key : Keys, value : MapValues]

Init == contents = [o \in Containers |-> IF o \in Lists THEN <<>> ELSE EmptyMap] /\ mine = NoNodes

CallList(t, o, c) ==
    LET after == AfterListCall(c, contents[o], mine[t])
    IN  /\ contents' = [contents EXCEPT ![o] = after[1]]
        /\ mine' = [mine EXCEPT ![t] = after[2]]

CallMap(o, c) ==
    LET after == AfterMapCall(c, contents[o], contents[Other(o)])
    IN  /\ contents' = [contents EXCEPT ![o] = after[1], ![Other(o)] = after[2]]
        /\ UNCHANGED mine

\* A thread does what it likes with its own list.
DropMine(t) == mine' = [mine EXCEPT ![t] = <<>>] /\ UNCHANGED contents

Next ==
    \/ \E t \in Threads :
         \/ DropMine(t)
         \/ \E o \in Lists : \E at \in ToSet(contents[o]) \cup {END} :
              \E c \in ListCalls(at, Nodes, mine[t]) \cup CarefulCalls(contents[o], at, mine[t])
                        \cup CopyCalls(contents[Other(o)], Nodes) :
                 CallList(t, o, c)
    \/ \E o \in Maps, c \in MapCalls : CallMap(o, c)

Spec == Init /\ [][Next]_<<contents, mine>>
===================================================================================
