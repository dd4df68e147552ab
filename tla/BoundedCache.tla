---------------------------- MODULE BoundedCache ----------------------------
(***************************************************************************)
(* What a cache of the daemons promises its callers, whatever its policy:  *)
(* never more than Capacity objects, room made for an object only when     *)
(* there is none, and one object at a time (SFBMCache.hpp, the steps       *)
(* listed in the comment of the class).                                    *)
(***************************************************************************)
EXTENDS Integers, FiniteSets

CONSTANTS Objects, Capacity

VARIABLE content

Init == content = {}

(* There is room: the object is added and nothing else changes.            *)
Add(x) ==
    /\ x \notin content
    /\ Cardinality(content) < Capacity
    /\ content' = content \cup {x}

(* There is none: exactly one other object leaves.                         *)
Replace(x, victim) ==
    /\ x \notin content /\ victim \in content
    /\ Cardinality(content) = Capacity
    /\ content' = (content \ {victim}) \cup {x}

Remove(x) == x \in content /\ content' = content \ {x}

Next ==
    \E x \in Objects :
        \/ Add(x)
        \/ \E victim \in Objects : Replace(x, victim)
        \/ Remove(x)

Spec == Init /\ [][Next]_content
=============================================================================
