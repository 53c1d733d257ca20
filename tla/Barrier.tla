--------------------------------- MODULE Barrier ---------------------------------
(***************************************************************************)
(* What a barrier promises: threads that arrive wait until threshold of    *)
(* them are there, and then exactly these go on.                           *)
(***************************************************************************)
EXTENDS Naturals, FiniteSets

CONSTANTS Threads, threshold

VARIABLE waiting    \* the threads inside wait() that may not leave yet

Init == waiting = {}

Arrive(t) ==
    /\ t \notin waiting
    /\ Cardinality(waiting) < threshold
    /\ waiting' = waiting \cup {t}

Open ==
    /\ Cardinality(waiting) = threshold
    /\ waiting' = {}

Next == (\E t \in Threads : Arrive(t)) \/ Open

Spec == Init /\ [][Next]_waiting
==================================================================================
