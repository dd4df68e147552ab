--------------------------- MODULE PatternMatcher ---------------------------
(***************************************************************************)
(* The worker threads of the PatternMatcher daemon                         *)
(* (processing/commandrunner/PatternMatcher.cpp) over the cache they share.*)
(* A worker pops a request of the working queue, validates it and runs it  *)
(* as a series of cache operations, each under the cache's mutex.  It asks *)
(* the cache for the report of its last operation, or for its status,      *)
(* outside the mutex, in two steps each.  Other workers run between any    *)
(* two steps; where they write what is read without the mutex, the read is *)
(* undefined and Race ends the process.                                    *)
(*                                                                         *)
(* A request names what its flags decide: the action, "invalid" when the   *)
(* flags are rejected; whether every value read before the first index is  *)
(* a number ("numeric": -reqID, and -scene, -mr and -mma where given); and *)
(* how many of its indexes are numbers before one that is not ("numbers",  *)
(* the rest is never read).  A report keeps the fields of the cache it was *)
(* made from.                                                              *)
(***************************************************************************)
EXTENDS SFBMCache, Sequences

CONSTANTS
    Workers,         \* the worker threads
    RequestQueues    \* the sequences of requests the daemon may be given

VARIABLES
    workingQueue,    \* the requests nobody has popped, numbered
    pc, request,     \* per worker: where it is, what it works on
    todo, results,   \* per worker: indexes left, reports collected
    outputs,         \* what the workers gave to DataOutput, in order
    running          \* FALSE once an uncaught error ends the process

workerVars == <<workingQueue, pc, request, todo, results, outputs, running>>
vars == <<cacheVars, workerVars>>

Actions == {"MATCH", "ADDIDXS", "DELIDXS", "UPDIDXS", "IDXSTATUS", "invalid"}

(* What the flags guarantee of a request: the actions on indexes have one  *)
(* at least, a match has a scene.                                          *)
WellFormed(r) ==
    /\ r.action \in Actions /\ r.indexes \in Seq(Trainers)
    /\ r.action \notin {"IDXSTATUS", "invalid"} => r.indexes # <<>>
    /\ r.action = "MATCH" => r.scene \in Scenes

ASSUME RequestsAssumption ==
    \A queue \in RequestQueues :
        /\ queue = [i \in 1 .. Len(queue) |-> queue[i]] /\ Len(queue) \in Nat
        /\ \A i \in 1 .. Len(queue) : WellFormed(queue[i])

NoRequest == [n |-> 0, action |-> "invalid", indexes |-> <<>>,
              scene |-> NoKey, numeric |-> TRUE, numbers |-> 0]

Numbered(queue) ==
    [i \in 1 .. Len(queue) |->
        [n |-> i, action |-> queue[i].action, indexes |-> queue[i].indexes,
         scene |-> queue[i].scene, numeric |-> queue[i].numeric,
         numbers |-> queue[i].numbers]]

Init ==
    /\ CacheInit
    /\ \E queue \in RequestQueues : workingQueue = Numbered(queue)
    /\ pc = [w \in Workers |-> "idle"]
    /\ request = [w \in Workers |-> NoRequest]
    /\ todo = [w \in Workers |-> <<>>]
    /\ results = [w \in Workers |-> <<>>]
    /\ outputs = <<>>
    /\ running = TRUE

-----------------------------------------------------------------------------
Goto(w, label) == pc' = [pc EXCEPT ![w] = label]

At(w, label) == running /\ pc[w] = label

(* out->output and out->error.  An error is queued without the request id; *)
(* "request" is kept here only to state properties.                        *)
Emit(w, kind, reports) ==
    outputs' = Append(outputs, [kind |-> kind, request |-> request[w],
                                reports |-> reports])

(* getLastOperationResult: the fields as they are when it reads them.      *)
Report == [op |-> operation, inserted |-> lastInsertedIndex,
           removed |-> lastRemovedIndex, about |-> errorMessage,
           free |-> cacheMaxSize - cacheSize]

(* Mutant: the request stays in the queue.                                 *)
TakeWithoutPop(w) ==
    /\ At(w, "idle") /\ workingQueue # <<>>
    /\ request' = [request EXCEPT ![w] = Head(workingQueue)]
    /\ todo' = [todo EXCEPT ![w] = Head(workingQueue).indexes]
    /\ results' = [results EXCEPT ![w] = <<>>]
    /\ Goto(w, "run")
    /\ UNCHANGED <<cacheVars, workingQueue, outputs, running>>

(* Worker::start: the next request is popped and its flags are validated.  *)
Take(w) ==
    /\ At(w, "idle") /\ workingQueue # <<>>
    /\ workingQueue' = Tail(workingQueue)
    /\ request' = [request EXCEPT ![w] = Head(workingQueue)]
    /\ todo' = [todo EXCEPT ![w] = Head(workingQueue).indexes]
    /\ results' = [results EXCEPT ![w] = <<>>]
    /\ Goto(w, "run")
    /\ UNCHANGED <<cacheVars, outputs, running>>

Duplicated(indexes) ==
    \E i, j \in DOMAIN indexes : i # j /\ indexes[i] = indexes[j]

(* Where run() goes on for each action.                                    *)
FirstStep ==
    [MATCH |-> "scene", ADDIDXS |-> "load", DELIDXS |-> "unload",
     UPDIDXS |-> "unloadOld", IDXSTATUS |-> "status"]

(* run(), rejected: an input error, or duplicated indexes.                 *)
RunRejected(w) ==
    /\ At(w, "run")
    /\ \/ request[w].action = "invalid"
       \/ request[w].numeric /\ Duplicated(request[w].indexes)
    /\ Emit(w, "error", <<>>)
    /\ Goto(w, "idle")
    /\ UNCHANGED <<cacheVars, workingQueue, request, todo, results, running>>

(* The index the worker is at is a number.                                 *)
IsNumber(w) ==
    Len(request[w].indexes) - Len(todo[w]) < request[w].numbers

(* The worker is about to convert a word that is not a number: -reqID at   *)
(* the start of run(), an index where its turn comes.                      *)
Throws(w) ==
    \/ pc[w] = "run" /\ request[w].action # "invalid" /\ ~ request[w].numeric
    \/ pc[w] \in {"load", "unload", "unloadOld"} /\ ~ IsNumber(w)

(* stoi throws and nothing catches it.                                     *)
RunThrows(w) ==
    /\ running /\ Throws(w)
    /\ running' = FALSE
    /\ UNCHANGED <<cacheVars, workingQueue, pc, request, todo, results, outputs>>

RunAccepted(w) ==
    /\ At(w, "run")
    /\ request[w].action # "invalid" /\ request[w].numeric
    /\ ~ Duplicated(request[w].indexes)
    /\ Goto(w, FirstStep[request[w].action])
    /\ UNCHANGED <<cacheVars, workingQueue, request, todo, results, outputs,
                   running>>

-----------------------------------------------------------------------------
(* The steps on one index.                                                 *)
Index(w) == Head(todo[w])

localVars == <<workingQueue, request, todo, results, outputs, running>>

LoadStep(w) ==
    /\ At(w, "load") /\ ~ Throws(w)
    /\ \/ /\ LoadSucceeds(Index(w))
          /\ Goto(w, IF request[w].action = "MATCH" THEN "match" ELSE "report")
       \/ LoadFailed(Index(w)) /\ Goto(w, "reportError")
    /\ UNCHANGED localVars

UnloadOrNot(id, keepPatterns) ==
    \/ UnloadMatcher(id, keepPatterns)
    \/ id \notin cache /\ UNCHANGED cacheVars

(* Mutant: the last index of a request is left in the cache.               *)
UnloadLeavesLast(w) ==
    /\ At(w, "unload") /\ ~ Throws(w)
    /\ IF Len(todo[w]) > 1 THEN UnloadOrNot(Index(w), FALSE) ELSE UNCHANGED cacheVars
    /\ Goto(w, "report")
    /\ UNCHANGED localVars

UnloadStep(w) ==
    /\ At(w, "unload") /\ ~ Throws(w)
    /\ UnloadOrNot(Index(w), FALSE)
    /\ Goto(w, "report")
    /\ UNCHANGED localVars

(* updateMatcher, in its three parts.                                      *)
UnloadOldStep(w) ==
    /\ At(w, "unloadOld") /\ ~ Throws(w)
    /\ UnloadOrNot(Index(w), TRUE)
    /\ Goto(w, "reload")
    /\ UNCHANGED localVars

(* Mutant: updateMatcher keeps the mutex and loadMatcher waits for it.     *)
ReloadUnderLock(w) == FALSE

ReloadStep(w) ==
    /\ At(w, "reload")
    /\ \/ LoadSucceeds(Index(w)) /\ Goto(w, "mark")
       \/ LoadFailed(Index(w)) /\ Goto(w, "reportError")
    /\ UNCHANGED localVars

MarkStep(w) ==
    /\ At(w, "mark")
    /\ MarkUpdated
    /\ Goto(w, "report")
    /\ UNCHANGED localVars

(* The report of one index: the operation and its fields are read.         *)
ReportStep(w) ==
    /\ At(w, "report")
    /\ results' = [results EXCEPT ![w] = Append(@, Report)]
    /\ Goto(w, "forget")
    /\ UNCHANGED <<cacheVars, workingQueue, request, todo, outputs, running>>

(* Mutant: one index too many.                                             *)
ForgetGoesOn(w) ==
    /\ At(w, "forget")
    /\ GetLastOperationResult
    /\ todo' = [todo EXCEPT ![w] = Tail(@)]
    /\ Goto(w, IF Len(todo[w]) > 0 THEN FirstStep[request[w].action]
                                  ELSE "respond")
    /\ UNCHANGED <<workingQueue, request, results, outputs, running>>

(* "operation" is cleared; the next index, or the response.                *)
ForgetStep(w) ==
    /\ At(w, "forget")
    /\ GetLastOperationResult
    /\ todo' = [todo EXCEPT ![w] = Tail(@)]
    /\ Goto(w, IF Len(todo[w]) > 1 THEN FirstStep[request[w].action]
                                  ELSE "respond")
    /\ UNCHANGED <<workingQueue, request, results, outputs, running>>

(* An operation failed: its report is the answer, the rest is not done.    *)
ReportErrorStep(w) ==
    /\ At(w, "reportError")
    /\ results' = [results EXCEPT ![w] = <<Report>>]
    /\ Goto(w, "forgetError")
    /\ UNCHANGED <<cacheVars, workingQueue, request, todo, outputs, running>>

ForgetErrorStep(w) ==
    /\ At(w, "forgetError")
    /\ GetLastOperationResult
    /\ Emit(w, "error", results[w])
    /\ Goto(w, "idle")
    /\ UNCHANGED <<workingQueue, request, todo, results, running>>

RespondStep(w) ==
    /\ At(w, "respond")
    /\ Emit(w, "response", results[w])
    /\ Goto(w, "idle")
    /\ UNCHANGED <<cacheVars, workingQueue, request, todo, results, running>>

(* indexCacheStatus: the keys, then the free space, outside the mutex.     *)
StatusStep(w) ==
    /\ At(w, "status")
    /\ results' = [results EXCEPT ![w] = <<[indexes |-> cache, free |-> 0]>>]
    /\ Goto(w, "statusFree")
    /\ UNCHANGED <<cacheVars, workingQueue, request, todo, outputs, running>>

StatusFreeStep(w) ==
    /\ At(w, "statusFree")
    /\ results' = [results EXCEPT ![w][1].free = cacheMaxSize - cacheSize]
    /\ Goto(w, "respond")
    /\ UNCHANGED <<cacheVars, workingQueue, request, todo, outputs, running>>

(* What is read without the mutex is being written: the map while its keys *)
(* are listed, the text of an error while it is copied.                    *)
Writing(labels) == \E v \in Workers : pc[v] \in labels /\ ~ Throws(v)

Race(w) ==
    /\ running
    /\ \/ /\ pc[w] = "status"
          /\ Writing({"load", "reload", "unload", "unloadOld"})
       \/ /\ pc[w] \in {"report", "reportError"} /\ operation = "ERROR"
          /\ Writing({"load", "reload", "scene", "match"})
    /\ running' = FALSE
    /\ UNCHANGED <<cacheVars, pc, workingQueue, request, todo, results, outputs>>

-----------------------------------------------------------------------------
(* MATCH: the scene, then each trainer and the patterns it matched.        *)
SceneStep(w) ==
    /\ At(w, "scene")
    /\ \/ /\ SceneSucceeds(request[w].scene)
          /\ Goto(w, "load")
       \/ SceneFailed(request[w].scene) /\ Goto(w, "reportError")
    /\ UNCHANGED localVars

(* findPatterns: the pattern of one image the scene matched is loaded.     *)
PatternStep(w) ==
    /\ At(w, "match")
    /\ \E pidx \in Patterns :
          \/ PatternFound(Index(w), pidx) /\ pidx \notin PatternsOf(Index(w))
             /\ UNCHANGED pc
          \/ PatternFailed(Index(w), pidx) /\ Goto(w, "reportError")
    /\ UNCHANGED localVars

(* There is no such pattern: loadPattern returns null and leaves its error *)
(* flag alone, and findPatterns uses the null pattern.                     *)
PatternNull(w) ==
    /\ At(w, "match")
    /\ \E pidx \in Patterns : PatternFailed(Index(w), pidx)
    /\ running' = FALSE
    /\ UNCHANGED <<pc, workingQueue, request, todo, results, outputs>>

(* The trainer is done: the next one, or the response.                     *)
MatchedStep(w) ==
    /\ At(w, "match")
    /\ todo' = [todo EXCEPT ![w] = Tail(@)]
    /\ Goto(w, IF Len(todo[w]) > 1 THEN "load" ELSE "respond")
    /\ UNCHANGED <<cacheVars, workingQueue, request, results, outputs, running>>

-----------------------------------------------------------------------------
Step(w) ==
    \/ Take(w) \/ RunRejected(w) \/ RunThrows(w) \/ RunAccepted(w)
    \/ LoadStep(w) \/ UnloadStep(w) \/ UnloadOldStep(w) \/ ReloadStep(w)
    \/ MarkStep(w) \/ ReportStep(w) \/ ForgetStep(w) \/ ReportErrorStep(w)
    \/ ForgetErrorStep(w) \/ RespondStep(w) \/ StatusStep(w)
    \/ StatusFreeStep(w) \/ Race(w) \/ SceneStep(w) \/ PatternStep(w)
    \/ PatternNull(w) \/ MatchedStep(w)

Next == \E w \in Workers : Step(w)

(* Each worker is a thread of its own: the scheduler runs it while it can. *)
Spec == Init /\ [][Next]_vars /\ \A w \in Workers : WF_vars(Step(w))
-----------------------------------------------------------------------------
(* Properties *)

Labels == {"idle", "run", "load", "report", "forget", "reportError",
           "forgetError", "respond", "unload", "unloadOld", "reload", "mark",
           "status", "statusFree", "scene", "match"}

OnIndex == {"load", "report", "forget", "unload", "unloadOld", "reload", "mark",
            "match"}

(* The workers' own fields hold what they should; a worker at a step on an *)
(* index has one left.                                                     *)
WorkersOK ==
    /\ pc \in [Workers -> Labels]
    /\ \A w \in Workers :
          /\ request[w].action \in Actions
          /\ pc[w] \in OnIndex \cup {"scene"} => todo[w] # <<>>
    /\ running \in BOOLEAN

Busy == {w \in Workers : pc[w] # "idle"}

(* Every request is in exactly one place: waiting, with one worker, or     *)
(* answered, so none is lost, run twice or answered twice, however the     *)
(* workers interleave and whichever way run() returns.                     *)
Conserved ==
    LET waiting  == {workingQueue[i].n : i \in DOMAIN workingQueue}
        inWork   == {request[w].n : w \in Busy}
        answered == {outputs[i].request.n : i \in DOMAIN outputs}
    IN waiting \cup inWork \cup answered
         = 1 .. (Len(workingQueue) + Cardinality(Busy) + Len(outputs))

Quiescent == workingQueue = <<>> /\ Busy = {}

(* Unless an error ends the process, every request is served: no order of  *)
(* the workers' steps makes them wait for each other.                      *)
AllServed == <>(Quiescent \/ ~ running)

(* A report is about the operation it was asked for: the response to an    *)
(* addIndexes or updateIndexes names its indexes in their order, an error  *)
(* of the cache names what the request asked for.  Between an operation    *)
(* and its report another worker can overwrite or take the report.         *)
OwnReports ==
    \A i \in DOMAIN outputs :
        LET o == outputs[i]
            expected == IF o.request.action = "ADDIDXS" THEN "INSERTOP"
                                                        ELSE "UPDATEOP"
        IN
        /\ o.kind = "response" /\ o.request.action \in {"ADDIDXS", "UPDIDXS"}
             => [j \in DOMAIN o.reports |-> <<o.reports[j].op, o.reports[j].inserted>>]
                  = [j \in DOMAIN o.request.indexes |->
                        <<expected, o.request.indexes[j]>>]
        /\ \A j \in DOMAIN o.reports : o.kind = "error" =>
             /\ o.reports[j].op = "ERROR"
             /\ \/ o.reports[j].about = <<"scene", o.request.scene>>
                \/ \E k \in DOMAIN o.request.indexes :
                      o.reports[j].about[2] = o.request.indexes[k]

(* index_removed is -1 "for addIndexes requests that didn't remove any     *)
(* trainer" (README-PatternMatcher.txt): a load removes a trainer only from*)
(* a full cache, which is full again afterwards.                           *)
RemovedOnlyWhenFull ==
    \A i \in DOMAIN outputs :
        outputs[i].request.action = "ADDIDXS" =>
            \A j \in DOMAIN outputs[i].reports :
                LET r == outputs[i].reports[j] IN
                r.op = "INSERTOP" /\ r.free > 0 => r.removed = NoKey

(* When every request is served, a trainer a remIndexes named is out of    *)
(* the cache, unless a later request loaded it: "After (2) the trainer     *)
(* with ID 7 is no longer in the cache" (README-PatternMatcher.txt).       *)
Names(o, id) == \E k \in DOMAIN o.request.indexes : o.request.indexes[k] = id

RemovedStaysOut ==
    Quiescent =>
        \A i \in DOMAIN outputs :
            outputs[i].kind = "response"
            /\ outputs[i].request.action = "DELIDXS" =>
                \A id \in cache : Names(outputs[i], id) =>
                    \E j \in DOMAIN outputs :
                        /\ outputs[j].request.n > outputs[i].request.n
                        /\ outputs[j].request.action # "DELIDXS"
                        /\ Names(outputs[j], id)

(* A status is of one moment: the "trainers loaded and free cache space"   *)
(* (README-PatternMatcher.txt) add up to the cache.                        *)
StatusAddsUp ==
    \A i \in DOMAIN outputs :
        outputs[i].request.action = "IDXSTATUS" /\ outputs[i].kind = "response" =>
            LET status == outputs[i].reports[1]
            IN  Cardinality(status.indexes) + status.free = cacheMaxSize

(* No request ends the process.                                            *)
StaysUp == running
=============================================================================
