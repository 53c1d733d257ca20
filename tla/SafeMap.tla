---------------------------------- MODULE SafeMap ----------------------------------
(***************************************************************************)
(* The methods of safe_map.hpp as functions of the map: each of them calls *)
(* the method of the same name of impl_, a std::map.                       *)
(***************************************************************************)
EmptyMap == [k \in {} |-> 0]

\* insert leaves an element alone that is there already, whatever its value.
insert(m, k, v) == [j \in DOMAIN m \cup {k} |-> IF j \in DOMAIN m THEN m[j] ELSE v]
erase(m, k) == [j \in DOMAIN m \ {k} |-> m[j]]

\* What a call makes of the map it is made on and of the one on its right.
AfterMapCall(c, left, right) ==
    CASE c.op = "read"   -> <<left, right>>
      [] c.op = "insert" -> <<insert(left, c.key, c.value), right>>
      [] c.op = "erase"  -> <<erase(left, c.key), right>>
      [] c.op = "clear"  -> <<EmptyMap, right>>
      [] c.op = "="      -> <<right, right>>
      [] c.op = "=="     -> <<left, right>>
      [] c.op = "swap"   -> <<right, left>>
====================================================================================
