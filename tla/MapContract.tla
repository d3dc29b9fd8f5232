---------------------------- MODULE MapContract ----------------------------
(***************************************************************************)
(* What the interface of Map promises (src/include/adt/Map.hh:128-164): a  *)
(* partial function from keys to values, and for every operation the       *)
(* MapResult the caller gets.                                              *)
(***************************************************************************)
EXTENDS Functions

CONSTANTS Keys,         \* K
          Vals          \* V

VARIABLES contents,     \* the keys in the map and their values
          result        \* what the last call returned

vars == <<contents, result>>

NotFound == [status |-> "NOT_FOUND"]
Found(v) == [status |-> "FOUND", val |-> v]
Inserted(v) == [status |-> "INSERTED", val |-> v]

With(f, k, v) == [x \in DOMAIN f \cup {k} |-> IF x = k THEN v ELSE f[x]]

Init == contents = [k \in {} |-> k] /\ result = NotFound

Put(k, v) ==
    /\ contents' = With(contents, k, v)
    /\ result' = IF k \in DOMAIN contents THEN Found(v) ELSE Inserted(v)

PutIfAbsent(k, v) ==
    IF k \in DOMAIN contents
    THEN result' = Found(contents[k]) /\ UNCHANGED contents
    ELSE Put(k, v)

Search(k) ==
    /\ result' = IF k \in DOMAIN contents THEN Found(contents[k]) ELSE NotFound
    /\ UNCHANGED contents

Remove(k) ==
    /\ contents' = Restrict(contents, DOMAIN contents \ {k})
    /\ result' = NotFound

Clear == contents' = [k \in {} |-> k] /\ result' = NotFound

Next ==
    \/ \E k \in Keys, v \in Vals : Put(k, v) \/ PutIfAbsent(k, v)
    \/ \E k \in Keys : Search(k) \/ Remove(k)
    \/ Clear

Spec == Init /\ [][Next]_vars
============================================================================
