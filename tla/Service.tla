------------------------------ MODULE Service -------------------------------
(***************************************************************************)
(* What a daemon promises of the requests it reads: each is answered once, *)
(* and the daemon ends only when all it accepted are answered              *)
(* (connection/RequestServer.hpp, connection/Server.hpp).                  *)
(***************************************************************************)
CONSTANT Requests

VARIABLES
    accepted, answered,  \* the requests read, the requests answered
    phase                \* "open", then "draining", then "over"

Init == accepted = {} /\ answered = {} /\ phase = "open"

Accept(r) ==
    /\ phase = "open" /\ r \notin accepted
    /\ accepted' = accepted \cup {r}
    /\ UNCHANGED <<answered, phase>>

Answer(r) ==
    /\ r \in accepted \ answered
    /\ answered' = answered \cup {r}
    /\ UNCHANGED <<accepted, phase>>

Stop ==
    /\ phase = "open" /\ phase' = "draining"
    /\ UNCHANGED <<accepted, answered>>

End ==
    /\ phase = "draining" /\ accepted = answered /\ phase' = "over"
    /\ UNCHANGED <<accepted, answered>>

Next == (\E r \in Requests : Accept(r) \/ Answer(r)) \/ Stop \/ End

Spec == Init /\ [][Next]_<<accepted, answered, phase>>
=============================================================================
