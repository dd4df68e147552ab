--------------------------- MODULE MCRequestServer --------------------------
(* Instances of RequestServer for TLC.                                     *)
EXTENDS RequestServer

MCMessage(n, stops, fails) == [n |-> n, stops |-> stops, fails |-> fails]

(* Three requests and two stop messages, to arrive in any order.            *)
MCMessages ==
    {MCMessage(n, FALSE, FALSE) : n \in 1 .. 3}
        \cup {MCMessage(n, TRUE, FALSE) : n \in 4 .. 5}

=============================================================================
