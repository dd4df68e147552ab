---------------------------- MODULE MCHTTPServer ----------------------------
(* Instances of HTTPServer for TLC.                                        *)
EXTENDS HTTPServer

MCOverridingKey == -1
MCKeys == Ids

MCPost(n, fails) == [n |-> n, stop |-> FALSE, stops |-> FALSE, fails |-> fails]
MCStop(n) == [n |-> n, stop |-> TRUE, stops |-> TRUE, fails |-> FALSE]

(* "action": "stop" with a space: the server stops, the listener does not. *)
MCSpaced(n) == [n |-> n, stop |-> FALSE, stops |-> TRUE, fails |-> FALSE]

(* Requests that succeed, that fail, and stops.                            *)
MCPosts == {MCPost(1, FALSE), MCPost(2, TRUE), MCStop(3), MCPost(4, FALSE)}
MCAllPosts == {MCPost(1, FALSE), MCPost(2, TRUE), MCStop(3), MCStop(4), MCSpaced(5)}
MCGoodPosts == {MCPost(1, FALSE), MCPost(2, FALSE)}
MCSpacedStop == {MCSpaced(1)}

MCMessages ==
    [n : 1 .. 5, stops : BOOLEAN, fails : BOOLEAN, id : Ids]
MCValues == MCMessages \cup {StopReceived}
=============================================================================
