---------------------------- MODULE BlockingMap -----------------------------
(***************************************************************************)
(* The map the responses are handed over in (utils/BlockingMap.hpp): put   *)
(* stores a value and posts wsem, get waits on wsem until its key, or the  *)
(* overriding key, has a value.  ssem is a mutex around one put and around *)
(* one look of a get, so each of these is an action.  A value is left in   *)
(* the map by the get that finds it under its own key and is erased by the *)
(* get that finds it under the overriding one.                             *)
(*                                                                         *)
(* unblock, exist and getKeys are left out, nothing calls them: "blocking" *)
(* is always true.                                                         *)
(***************************************************************************)
EXTENDS Integers, Functions

CONSTANTS
    Getters,        \* the threads that call get
    Keys,           \* the keys they ask for
    overridingKey,  \* HTTPSocket sets it to -1
    Values, NoValue

ASSUME MapAssumption == overridingKey \notin Keys /\ NoValue \notin Values

VARIABLES
    internalMap,    \* a function from the keys put so far
    wsem,           \* the count of the semaphore
    getter,         \* per getter: "out" of get, "looking" or "waiting" in it
    key, value      \* per getter: what it asked for, what it got

mapVars == <<internalMap, wsem, getter, key, value>>

MapInit ==
    /\ internalMap = <<>>
    /\ wsem = 1
    /\ getter = [g \in Getters |-> "out"]
    /\ key = [g \in Getters |-> overridingKey]
    /\ value = [g \in Getters |-> NoValue]

(* std::map's operator[] *)
Stored(k, v) ==
    [x \in DOMAIN internalMap \cup {k} |-> IF x = k THEN v ELSE internalMap[x]]

(* Mutant: wsem is not posted.                                             *)
PutSilently(k, v) ==
    /\ internalMap' = Stored(k, v)
    /\ UNCHANGED <<wsem, getter, key, value>>

Put(k, v) ==
    /\ internalMap' = Stored(k, v)
    /\ wsem' = wsem + 1
    /\ UNCHANGED <<getter, key, value>>

Get(g, k) ==
    /\ getter[g] = "out"
    /\ getter' = [getter EXCEPT ![g] = "looking"]
    /\ key' = [key EXCEPT ![g] = k]
    /\ UNCHANGED <<internalMap, wsem, value>>

(* retrieveValue *)
Looks(g) == getter[g] = "looking"
Return(g, v) ==
    /\ getter' = [getter EXCEPT ![g] = "out"]
    /\ value' = [value EXCEPT ![g] = v]

Found(g) ==
    /\ Looks(g) /\ key[g] \in DOMAIN internalMap
    /\ Return(g, internalMap[key[g]])
    /\ UNCHANGED <<internalMap, wsem, key>>

(* Mutant: the value is not erased.                                        *)
OverridingStays(g) ==
    /\ Looks(g) /\ key[g] \notin DOMAIN internalMap
    /\ overridingKey \in DOMAIN internalMap
    /\ Return(g, internalMap[overridingKey])
    /\ UNCHANGED <<internalMap, wsem, key>>

FoundOverriding(g) ==
    /\ Looks(g) /\ key[g] \notin DOMAIN internalMap
    /\ overridingKey \in DOMAIN internalMap
    /\ Return(g, internalMap[overridingKey])
    /\ internalMap' = Restrict(internalMap, DOMAIN internalMap \ {overridingKey})
    /\ UNCHANGED <<wsem, key>>

NotFound(g) ==
    /\ Looks(g) /\ {key[g], overridingKey} \cap DOMAIN internalMap = {}
    /\ getter' = [getter EXCEPT ![g] = "waiting"]
    /\ UNCHANGED <<internalMap, wsem, key, value>>

(* sem_wait: one post wakes one getter, whatever it waits for.             *)
Wake(g) ==
    /\ getter[g] = "waiting" /\ wsem > 0
    /\ wsem' = wsem - 1
    /\ getter' = [getter EXCEPT ![g] = "looking"]
    /\ UNCHANGED <<internalMap, key, value>>

GetStep(g) == Found(g) \/ FoundOverriding(g) \/ NotFound(g) \/ Wake(g)
-----------------------------------------------------------------------------
CONSTANT MaxPuts    \* bound: no put once the count of wsem is that high

MapNext ==
    \/ \E k \in Keys \cup {overridingKey}, v \in Values : wsem < MaxPuts /\ Put(k, v)
    \/ \E g \in Getters, k \in Keys : Get(g, k)
    \/ \E g \in Getters : GetStep(g)

MapSpec == MapInit /\ [][MapNext]_mapVars /\ \A g \in Getters : WF_mapVars(GetStep(g))
-----------------------------------------------------------------------------
(* Properties *)

(* The fields hold what their declarations say.                            *)
MapTypeOK ==
    /\ DOMAIN internalMap \subseteq Keys \cup {overridingKey}
    /\ \A k \in DOMAIN internalMap : internalMap[k] \in Values
    /\ wsem \in Nat
    /\ getter \in [Getters -> {"out", "looking", "waiting"}]
    /\ key \in [Getters -> Keys \cup {overridingKey}]
    /\ value \in [Getters -> Values \cup {NoValue}]

(* There is something for g in the map.                                    *)
Ready(g) == {key[g], overridingKey} \cap DOMAIN internalMap # {}

(* A getter with something for it in the map is not left waiting: there is *)
(* a post for it to take.                                                  *)
NoLostWakeup ==
    \A g \in Getters : getter[g] = "waiting" /\ Ready(g) => wsem > 0
=============================================================================
