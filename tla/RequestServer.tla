--------------------------- MODULE RequestServer ----------------------------
(***************************************************************************)
(* The loop of a daemon and its threads (connection/Server.hpp,            *)
(* connection/RequestServer.hpp, processing/Worker.cpp,                    *)
(* output/DataOutput.cpp, output/workers/DataOutputWorker.cpp).  The main  *)
(* thread reads messages and pushes the requests to a bounded queue; worker*)
(* threads pop and run them, each run ends with one output or one error    *)
(* (but for face_matcher's, see FaceServer); one thread writes these.  A   *)
(* stop message makes the main thread push one null per worker, join the   *)
(* workers, then close the output.                                         *)
(*                                                                         *)
(* Here messages arrive on the console; in HTTPServer an HTTP listener     *)
(* pushes them.  A message is a record: n tells it from the others, stops  *)
(* is TRUE of one stopMessageReceived() recognizes, fails of a request     *)
(* whose run ends with an error.                                           *)
(***************************************************************************)
EXTENDS Integers, Sequences, FiniteSets, Functions

CONSTANTS
    Workers,     \* the worker threads (-threads)
    qcap,        \* -queueCapacity
    Messages     \* the messages there can be

(* A null has no n of a message; a queue of capacity 0 takes nothing and   *)
(* without a thread nothing is ever run.                                   *)
ASSUME ServerAssumption ==
    /\ qcap \in Nat \ {0}
    /\ IsFiniteSet(Workers) /\ Workers # {}
    /\ \A m \in Messages : m.n # 0 /\ m.stops \in BOOLEAN /\ m.fails \in BOOLEAN

Null == [n |-> 0, stops |-> FALSE, fails |-> FALSE]

VARIABLES
    incoming,      \* messages nobody has read, in the order they came
    arrived,       \* the n of those that came
    server,        \* where Server::start is
    current,       \* the message it read
    nulls,         \* the nulls stopWorkers has left to push
    workingQueue, worker, work,   \* the queue; per worker: where it is, its request
    msjQueue, writer,             \* DataOutput's queue; where its thread is
    written        \* what the thread wrote, in order

poolVars == <<workingQueue, worker, work>>
outputVars == <<msjQueue, writer, written>>
mainVars == <<server, current, nulls>>
serverVars == <<incoming, arrived, mainVars, poolVars, outputVars>>

ServerInit ==
    /\ incoming = <<>> /\ arrived = {}
    /\ server = "reading" /\ current = Null /\ nulls = 0
    /\ workingQueue = <<>>
    /\ worker = [w \in Workers |-> "waiting"]
    /\ work = [w \in Workers |-> Null]
    /\ msjQueue = <<>> /\ writer = "waiting" /\ written = <<>>

-----------------------------------------------------------------------------
(* A message comes, once.                                                  *)
Arrive(m) ==
    /\ m.n \notin arrived
    /\ arrived' = arrived \cup {m.n}
    /\ incoming' = Append(incoming, m)
    /\ UNCHANGED <<mainVars, poolVars, outputVars>>

(* Mutant: one null too few.                                               *)
ReadLosesNull ==
    /\ server = "reading" /\ incoming # <<>>
    /\ incoming' = Tail(incoming)
    /\ current' = Head(incoming)
    /\ IF Head(incoming).stops
       THEN server' = "stopping" /\ nulls' = Cardinality(Workers) - 1
       ELSE server' = "executing" /\ UNCHANGED nulls
    /\ UNCHANGED <<arrived, poolVars, outputVars>>

(* The main thread.                                                        *)
Read ==
    /\ server = "reading" /\ incoming # <<>>
    /\ incoming' = Tail(incoming)
    /\ current' = Head(incoming)
    /\ IF Head(incoming).stops
       THEN server' = "stopping" /\ nulls' = Cardinality(Workers)
       ELSE server' = "executing" /\ UNCHANGED nulls
    /\ UNCHANGED <<arrived, poolVars, outputVars>>

HasRoom == Len(workingQueue) < qcap

(* execute: the push blocks while the queue is full.                       *)
Execute ==
    /\ server = "executing" /\ HasRoom
    /\ workingQueue' = Append(workingQueue, current)
    /\ server' = "reading"
    /\ UNCHANGED <<incoming, arrived, current, nulls, worker, work, outputVars>>

(* Mutants: the loop goes one too far; a null is pushed before the rest.   *)
StopWorkersOnceMore ==
    /\ server = "stopping"
    /\ IF nulls >= 0
       THEN /\ HasRoom
            /\ workingQueue' = Append(workingQueue, Null)
            /\ nulls' = nulls - 1
            /\ UNCHANGED server
       ELSE server' = "joining" /\ UNCHANGED <<workingQueue, nulls>>
    /\ UNCHANGED <<incoming, arrived, current, worker, work, outputVars>>

StopWorkersFirst ==
    /\ server = "stopping"
    /\ IF nulls > 0
       THEN /\ HasRoom
            /\ workingQueue' = <<Null>> \o workingQueue
            /\ nulls' = nulls - 1
            /\ UNCHANGED server
       ELSE server' = "joining" /\ UNCHANGED <<workingQueue, nulls>>
    /\ UNCHANGED <<incoming, arrived, current, worker, work, outputVars>>

(* stopWorkers: a null for every thread.                                   *)
StopWorkers ==
    /\ server = "stopping"
    /\ IF nulls > 0
       THEN /\ HasRoom
            /\ workingQueue' = Append(workingQueue, Null)
            /\ nulls' = nulls - 1
            /\ UNCHANGED server
       ELSE server' = "joining" /\ UNCHANGED <<workingQueue, nulls>>
    /\ UNCHANGED <<incoming, arrived, current, worker, work, outputVars>>

(* Mutant: the threads are not joined.                                     *)
EndWithoutJoin ==
    /\ server = "joining"
    /\ server' = "closing"
    /\ UNCHANGED <<incoming, arrived, current, nulls, poolVars, outputVars>>

(* endServer: joined, one after the other.                                 *)
EndServer ==
    /\ server = "joining"
    /\ \A w \in Workers : worker[w] = "ended"
    /\ server' = "closing"
    /\ UNCHANGED <<incoming, arrived, current, nulls, poolVars, outputVars>>

(* output->close: a null for the writing thread, which is then joined.     *)
Close ==
    /\ server = "closing"
    /\ msjQueue' = Append(msjQueue, Null)
    /\ server' = "joiningOutput"
    /\ UNCHANGED <<incoming, arrived, current, nulls, poolVars, writer, written>>

Closed ==
    /\ server = "joiningOutput" /\ writer = "ended"
    /\ server' = "closed"
    /\ UNCHANGED <<incoming, arrived, current, nulls, poolVars, outputVars>>

Main == Read \/ Execute \/ StopWorkers \/ EndServer \/ Close \/ Closed

-----------------------------------------------------------------------------
(* Mutant: the front is read and not removed.                              *)
Peek(w) ==
    /\ worker[w] = "waiting" /\ workingQueue # <<>>
    /\ IF Head(workingQueue) = Null
       THEN worker' = [worker EXCEPT ![w] = "ended"] /\ UNCHANGED work
       ELSE /\ worker' = [worker EXCEPT ![w] = "running"]
            /\ work' = [work EXCEPT ![w] = Head(workingQueue)]
    /\ UNCHANGED <<workingQueue, incoming, arrived, mainVars, outputVars>>

(* Worker::start *)
Pop(w) ==
    /\ worker[w] = "waiting" /\ workingQueue # <<>>
    /\ workingQueue' = Tail(workingQueue)
    /\ IF Head(workingQueue) = Null
       THEN worker' = [worker EXCEPT ![w] = "ended"] /\ UNCHANGED work
       ELSE /\ worker' = [worker EXCEPT ![w] = "running"]
            /\ work' = [work EXCEPT ![w] = Head(workingQueue)]
    /\ UNCHANGED <<incoming, arrived, mainVars, outputVars>>

(* run(), to the one out->output or out->error it ends with.               *)
Run(w) ==
    /\ worker[w] = "running"
    /\ msjQueue' = Append(msjQueue, work[w])
    /\ worker' = [worker EXCEPT ![w] = "waiting"]
    /\ UNCHANGED <<incoming, arrived, mainVars, workingQueue, work, writer, written>>

WorkerStep(w) == Pop(w) \/ Run(w)

(* DataOutputWorker::start *)
Write ==
    /\ writer = "waiting" /\ msjQueue # <<>>
    /\ Head(msjQueue) # Null
    /\ msjQueue' = Tail(msjQueue)
    /\ written' = Append(written, Head(msjQueue))
    /\ UNCHANGED <<incoming, arrived, mainVars, poolVars, writer>>

EndWriter ==
    /\ writer = "waiting" /\ msjQueue # <<>>
    /\ Head(msjQueue) = Null
    /\ msjQueue' = Tail(msjQueue)
    /\ writer' = "ended"
    /\ UNCHANGED <<incoming, arrived, mainVars, poolVars, written>>

-----------------------------------------------------------------------------
ServerNext ==
    \/ \E m \in Messages : Arrive(m)
    \/ Main
    \/ \E w \in Workers : WorkerStep(w)
    \/ Write \/ EndWriter

(* Every thread runs while it can: a push or a pop that blocks is a guard. *)
(* Nothing makes a message arrive.                                         *)
Fairness ==
    /\ WF_serverVars(Main)
    /\ \A w \in Workers : WF_serverVars(WorkerStep(w))
    /\ WF_serverVars(Write \/ EndWriter)

ServerSpec == ServerInit /\ [][ServerNext]_serverVars /\ Fairness
-----------------------------------------------------------------------------
(* Properties *)

Places == {"reading", "executing", "stopping", "joining", "closing",
           "joiningOutput", "closed"}
Items == Messages \cup {Null}

(* The fields hold what their declarations say.                            *)
TypeOK ==
    /\ incoming \in Seq(Messages) /\ workingQueue \in Seq(Items)
    /\ msjQueue \in Seq(Items) /\ written \in Seq(Items)
    /\ server \in Places /\ current \in Items /\ nulls \in Nat
    /\ worker \in [Workers -> {"waiting", "running", "ended"}]
    /\ work \in [Workers -> Items]
    /\ writer \in {"waiting", "ended"}

(* The places a request is in between the reading and the writing.         *)
InHand == IF server = "executing" THEN {current} ELSE {}
InQueue == Range(workingQueue) \ {Null}
InWork == {work[w] : w \in {v \in Workers : worker[v] = "running"}}
InOutput == Range(msjQueue) \ {Null}
Answered == Range(written)

Accepted == InHand \cup InQueue \cup InWork \cup InOutput \cup Answered

Once(q) == \A i, j \in DOMAIN q : q[i] = q[j] /\ q[i] # Null => i = j

(* A request is in one place, once: not run twice, not written twice,      *)
(* whichever threads push and pop in between.                              *)
InOnePlace ==
    /\ Once(workingQueue) /\ Once(msjQueue) /\ Once(written)
    /\ \A v, w \in Workers :
          worker[v] = "running" /\ worker[w] = "running" /\ work[v] = work[w] => v = w
    /\ LET places == <<InHand, InQueue, InWork, InOutput, Answered>>
       IN  \A i, j \in DOMAIN places : i # j => places[i] \cap places[j] = {}

(* When the last worker has ended, every request that was read is on its   *)
(* way to the output: the nulls overtake no request, and a worker takes    *)
(* one each.                                                               *)
NothingLeftBehind ==
    (\A w \in Workers : worker[w] = "ended") =>
        Accepted = InOutput \cup Answered

(* A stop message ends the daemon, whatever the other threads are doing:   *)
(* the nulls fit in, every join returns.                                   *)
StopEnds == server = "stopping" ~> server = "closed"

(* The daemon does what Service promises.                                  *)
Phase ==
    CASE server \in {"reading", "executing"} -> "open"
      [] server = "closed" -> "over"
      [] OTHER -> "draining"

Promise == INSTANCE Service
    WITH Requests <- Messages, accepted <- Accepted, answered <- Answered,
         phase <- Phase

Serves == Promise!Spec
=============================================================================
