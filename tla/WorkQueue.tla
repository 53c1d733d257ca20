------------------------------- MODULE WorkQueue -------------------------------
(***************************************************************************)
(* What thread_pool and job_queue promise their users: a FIFO queue whose  *)
(* items are each handed to at most one consumer, oldest first.  A         *)
(* consumer that fails while it is handed an item loses it for good.  Once *)
(* the queue is closed, a consumer that had already been promised an item  *)
(* may still collect that one, and no other.                               *)
(***************************************************************************)
EXTENDS Naturals, Sequences, FiniteSets, Functions

CONSTANTS Consumers, Items

VARIABLES
    queue,      \* the items not handed out yet, oldest first
    got,        \* got[c]: the items consumer c was handed
    lost,       \* the items that left the queue and reached no consumer
    closed,
    promised    \* the consumers that may still collect one item after closing

vars == <<queue, got, lost, closed, promised>>

Init ==
    /\ queue = <<>>
    /\ got = [c \in Consumers |-> {}]
    /\ lost = {}
    /\ closed = FALSE
    /\ promised = {}

\* Every item is submitted at most once.
Add(i) ==
    /\ i \notin Range(queue) \cup lost \cup UNION Range(got)
    /\ queue' = Append(queue, i)
    /\ UNCHANGED <<got, lost, closed, promised>>

Leave(c) ==
    /\ queue # <<>>
    /\ closed => c \in promised
    /\ queue' = Tail(queue)
    /\ promised' = promised \ {c}
    /\ UNCHANGED closed

Take(c) ==
    /\ Leave(c)
    /\ got' = [got EXCEPT ![c] = @ \cup {Head(queue)}]
    /\ UNCHANGED lost

Lose(c) ==
    /\ Leave(c)
    /\ lost' = lost \cup {Head(queue)}
    /\ UNCHANGED got

\* Only as many consumers can have been promised an item as there are items.
Close ==
    /\ ~closed
    /\ closed' = TRUE
    /\ promised' \in {P \in SUBSET Consumers : Cardinality(P) <= Len(queue)}
    /\ UNCHANGED <<queue, got, lost>>

Next ==
    \/ \E i \in Items : Add(i)
    \/ \E c \in Consumers : Take(c) \/ Lose(c)
    \/ Close

Spec == Init /\ [][Next]_vars
===============================================================================
