----------------------------- MODULE HTTPServer -----------------------------
(***************************************************************************)
(* A daemon in HTTP mode: the listener (connection/HTTPListener.cpp), the  *)
(* loop and threads of RequestServer, and the BlockingMap in which the     *)
(* writing thread leaves the responses for the listener                    *)
(* (connection/HTTPSocket.cpp, output/workers/                             *)
(* DataOutputWorkerHTTPSocket.cpp).  One thread polls, and mongoose calls  *)
(* ev_handler in that thread, from its first line to its last, for one     *)
(* connection after the other (lib/mongoose.c; it has no option            *)
(* num_threads): the poller is the only getter of the map.                 *)
(*                                                                         *)
(* A post is what a client sends: n tells it from the others, stop is TRUE *)
(* when its body has the exact text "action":"stop" ev_handler looks for,  *)
(* stops when the text the server reads has one of the two texts           *)
(* Server::stopMessageReceived looks for, fails when its run ends with an  *)
(* error.  A body that says "action": "stop" with a space stops the server *)
(* (formatRequest makes it -stop) and not the listener.                    *)
(***************************************************************************)
EXTENDS RequestServer, BlockingMap

CONSTANTS
    Poller,    \* the thread HTTPSocket starts
    Posts,     \* what the clients send, each once
    IntMax     \* INT_MAX

VARIABLES
    posted,              \* the posts that were sent
    running,             \* HTTPListener::running
    lastID,              \* HTTPListener::lastID
    handler, post, reqID, \* where ev_handler is, its request and id
    listener, joined,    \* the polling thread; the main thread joined it
    answers              \* what the clients were sent

httpVars == <<posted, running, lastID, handler, post, reqID, listener, joined,
              answers>>
vars == <<serverVars, mapVars, httpVars>>

NoPost == [n |-> 0, stop |-> FALSE, stops |-> FALSE, fails |-> FALSE]
StopReceived == [n |-> 0, stops |-> FALSE, fails |-> FALSE, id |-> 0]

Init ==
    /\ ServerInit /\ MapInit
    /\ posted = {} /\ running = TRUE /\ lastID = 0
    /\ handler = "idle" /\ post = NoPost /\ reqID = 0
    /\ listener = "polling" /\ joined = FALSE /\ answers = {}

(* formatRequest: the post with the id it was given.                       *)
Message(p, id) == [n |-> p.n, stops |-> p.stops, fails |-> p.fails, id |-> id]

Ids == 0 .. IntMax

ASSUME PostsAssumption ==
    /\ Getters = {Poller}
    /\ IntMax \in Nat \ {0} /\ overridingKey \notin Nat
    /\ \A p \in Posts : p.stop => p.stops
    /\ \A p \in Posts, id \in Ids : Message(p, id) \in Messages

-----------------------------------------------------------------------------
(* mg_poll_server: the next of the connections that can be read.           *)
Polling == listener = "polling" /\ handler = "idle"

(* An int.                                                                 *)
Inc(i) == IF i = IntMax THEN -IntMax - 1 ELSE i + 1

(* Mutants: the counter is not reset, not stored.                          *)
OverflowingID == Inc(lastID)
SameID == lastID

NextID == Inc(IF lastID = IntMax THEN 0 ELSE lastID)

(* ev_handler *)
From(label, next) == handler = label /\ handler' = next

(* Mutant: a stop does not turn the listener off.                          *)
HandleKeepsRunning(p) ==
    /\ Polling /\ p \notin posted
    /\ posted' = posted \cup {p} /\ post' = p
    /\ From("idle", "push")
    /\ IF p.stop
       THEN reqID' = 0 /\ UNCHANGED lastID
       ELSE lastID' = NextID /\ reqID' = NextID
    /\ UNCHANGED <<serverVars, mapVars, running, listener, joined, answers>>

(* A request comes in: a stop turns the listener off and has the id 0.     *)
Handle(p) ==
    /\ Polling /\ p \notin posted
    /\ posted' = posted \cup {p} /\ post' = p
    /\ From("idle", "push")
    /\ IF p.stop
       THEN running' = FALSE /\ reqID' = 0 /\ UNCHANGED lastID
       ELSE lastID' = NextID /\ reqID' = NextID /\ UNCHANGED running
    /\ UNCHANGED <<serverVars, mapVars, listener, joined, answers>>

handledVars == <<posted, running, lastID, post, reqID, listener, joined, answers>>

Push ==
    /\ From("push", "check")
    /\ Arrive(Message(post, reqID))
    /\ UNCHANGED <<mapVars, handledVars>>

(* Mutants: nothing is put for a stop; only a stop is looked at.           *)
NoCheck ==
    /\ From("check", "ask")
    /\ UNCHANGED <<serverVars, mapVars, handledVars>>

CheckOwnStop ==
    /\ From("check", "ask")
    /\ IF post.stop THEN Put(reqID, StopReceived) ELSE UNCHANGED mapVars
    /\ UNCHANGED <<serverVars, handledVars>>

(* if (!running): of a stop, or of what is handled behind it in its poll.  *)
Check ==
    /\ From("check", "ask")
    /\ IF running THEN UNCHANGED mapVars ELSE Put(reqID, StopReceived)
    /\ UNCHANGED <<serverVars, handledVars>>

Ask ==
    /\ From("ask", "get")
    /\ Get(Poller, reqID)
    /\ UNCHANGED <<serverVars, handledVars>>

InGet == GetStep(Poller) /\ UNCHANGED <<serverVars, httpVars>>

Send ==
    /\ From("get", "idle")
    /\ getter[Poller] = "out"
    /\ answers' = answers \cup {[post |-> post, id |-> reqID, value |-> value[Poller]]}
    /\ UNCHANGED <<serverVars, mapVars, posted, running, lastID, post, reqID,
                   listener, joined>>

HandlerStep == Push \/ Check \/ Ask \/ InGet \/ Send

-----------------------------------------------------------------------------
(* The threads of the server, the polling thread and the last join.        *)
MainStep == Main /\ UNCHANGED <<mapVars, httpVars>>

WorkersStep(w) == WorkerStep(w) /\ UNCHANGED <<mapVars, httpVars>>

(* HTTPSocket::respond: an error is put under the overriding key.          *)
Respond ==
    /\ Write
    /\ LET m == Head(msjQueue) IN
          Put(IF m.fails THEN overridingKey ELSE m.id, m)
    /\ UNCHANGED httpVars

WriterStep == Respond \/ (EndWriter /\ UNCHANGED <<mapVars, httpVars>>)

(* start() ends with the poll in which the stop came.                      *)
StopListening ==
    /\ Polling /\ ~ running
    /\ listener' = "ended"
    /\ UNCHANGED <<serverVars, mapVars, posted, running, lastID, handler, post,
                   reqID, joined, answers>>

(* httpSocket->stop()                                                      *)
JoinListener ==
    /\ server = "closed" /\ listener = "ended" /\ ~ joined
    /\ joined' = TRUE
    /\ UNCHANGED <<serverVars, mapVars, posted, running, lastID, handler, post,
                   reqID, listener, answers>>

Next ==
    \/ \E p \in Posts : Handle(p)
    \/ HandlerStep
    \/ MainStep \/ (\E w \in Workers : WorkersStep(w)) \/ WriterStep
    \/ StopListening \/ JoinListener

(* Every thread runs while it can.                                         *)
Spec ==
    /\ Init /\ [][Next]_vars
    /\ WF_vars(HandlerStep)
    /\ WF_vars(MainStep) /\ WF_vars(WriterStep)
    /\ \A w \in Workers : WF_vars(WorkersStep(w))
    /\ WF_vars(StopListening) /\ WF_vars(JoinListener)
-----------------------------------------------------------------------------
(* The daemon face_matcher: its runner is a stub that takes a request and  *)
(* writes nothing for it.                                                  *)
RunNothing(w) ==
    /\ worker[w] = "running"
    /\ worker' = [worker EXCEPT ![w] = "waiting"]
    /\ UNCHANGED <<incoming, arrived, mainVars, workingQueue, work, outputVars>>

FaceWorkerStep(w) == (Pop(w) \/ RunNothing(w)) /\ UNCHANGED <<mapVars, httpVars>>

FaceNext ==
    \/ \E p \in Posts : Handle(p)
    \/ HandlerStep
    \/ MainStep \/ (\E w \in Workers : FaceWorkerStep(w)) \/ WriterStep
    \/ StopListening \/ JoinListener

FaceSpec ==
    /\ Init /\ [][FaceNext]_vars
    /\ WF_vars(HandlerStep)
    /\ WF_vars(MainStep) /\ WF_vars(WriterStep)
    /\ \A w \in Workers : WF_vars(FaceWorkerStep(w))
    /\ WF_vars(StopListening) /\ WF_vars(JoinListener)
-----------------------------------------------------------------------------
(* Properties *)

(* The fields of the listener hold what their declarations and comments    *)
(* say: no id leaves the range of an int when the counter starts again,    *)
(* and none but a stop's is 0 ("a random id will never have this value").  *)
HTTPTypeOK ==
    /\ posted \subseteq Posts /\ running \in BOOLEAN
    /\ lastID \in Ids /\ reqID \in Ids
    /\ handler \in {"idle", "push", "check", "ask", "get"}
    /\ handler # "idle" => post \in posted /\ (reqID = 0 <=> post.stop)
    /\ listener \in {"polling", "ended"} /\ joined \in BOOLEAN

(* Every client is sent the response to its own request: "the response is  *)
(* obtained using the request ID as key" (HTTPListener.hpp); "stop         *)
(* received" answers a stop, or a request the server has not read.         *)
OwnAnswer ==
    \A a \in answers :
        \/ a.value.n = a.post.n
        \/ /\ a.value = StopReceived
           /\ a.post.stop \/ \E i \in DOMAIN incoming : incoming[i].n = a.post.n

(* An error, which carries no id, is sent to one client only.              *)
ErrorOnce ==
    \A a, b \in answers : a.value.fails /\ a.value = b.value => a.post = b.post

(* A request behind the stop message, that the server will never read, was *)
(* given an answer by the listener: running is turned off before the stop  *)
(* is pushed, and looked at after a request is.                            *)
NoneStranded ==
    /\ server \notin {"reading", "executing"}
    /\ handler \in {"ask", "get"}
    /\ \E i \in DOMAIN incoming : incoming[i].n = post.n
    => reqID \in DOMAIN internalMap

(* Whatever the number of workers, at most one request is anywhere between *)
(* the listener and its answer: ev_handler keeps the thread that polls     *)
(* until it has that answer.  "To avoid locking the listener until a       *)
(* request is processed several listener threads are created"              *)
(* (HTTPListener.hpp), but the library that is to create them does not.    *)
OneInFlight ==
    LET unread == IF running THEN Range(incoming) ELSE {}
        inFlight == unread \cup InHand \cup InQueue \cup InWork \cup InOutput
    IN  \A m \in inFlight : handler \in {"check", "ask", "get"} /\ m = Message(post, reqID)

(* Every request the listener takes is answered.                           *)
AllAnswered == handler = "push" ~> handler = "idle"

(* When the server stops, so does the listener: it polls "until a stop     *)
(* message is received" (HTTPListener.hpp).                                *)
ListenerStops == server = "stopping" ~> listener = "ended"

(* When the listener is turned off the whole daemon ends: no thread waits  *)
(* for another forever.                                                    *)
Shutdown == ~ running ~> joined

=============================================================================
