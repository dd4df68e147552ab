------------------------ MODULE PatternMatcherProofs ------------------------
(***************************************************************************)
(* Whatever requests the workers of the daemon are given and however their *)
(* steps interleave, what they do to the cache is a behavior of the cache: *)
(* so the theorems about SFBMCache hold in the daemon.                     *)
(***************************************************************************)
EXTENDS PatternMatcher, SFBMCacheProofs, FiniteSetTheorems

(* The places a match never comes to: it has no report per index.          *)
Reporting == OnIndex \ {"load", "match"}

(* A worker works on trainers and scenes, with an index left where it takes*)
(* one; every request that waits is as the flags let it through.           *)
RequestsInv ==
    /\ \E S : workingQueue \in Seq(S) /\ \A r \in S : WellFormed(r)
    /\ pc \in [Workers -> Labels]
    /\ DOMAIN request = Workers
    /\ \A w \in Workers : WellFormed(request[w])
    /\ todo \in [Workers -> Seq(Trainers)]
    /\ \A w \in Workers :
          /\ pc[w] = "run" => todo[w] = request[w].indexes
          /\ pc[w] = "scene" => request[w].action = "MATCH" /\ todo[w] # <<>>
          /\ pc[w] \in OnIndex => /\ todo[w] # <<>>
                                  /\ request[w].action \notin {"IDXSTATUS", "invalid"}
          /\ pc[w] \in Reporting => request[w].action # "MATCH"

LEMMA InitRequests == Init => RequestsInv
<1> SUFFICES ASSUME Init PROVE RequestsInv
  OBVIOUS
<1>1. PICK queue \in RequestQueues : workingQueue = Numbered(queue)
  BY DEF Init
<1>2. /\ Len(queue) \in Nat
      /\ \A i \in 1 .. Len(queue) : WellFormed(workingQueue[i])
      /\ workingQueue \in [1 .. Len(queue) -> {workingQueue[i] : i \in 1 .. Len(queue)}]
  BY <1>1, RequestsAssumption DEF Numbered, WellFormed
<1>3. \E S : workingQueue \in Seq(S) /\ \A r \in S : WellFormed(r)
  <2> DEFINE S == {workingQueue[i] : i \in 1 .. Len(queue)}
  <2>1. workingQueue \in Seq(S) BY <1>2
  <2>2. \A r \in S : WellFormed(r) BY <1>2
  <2> HIDE DEF S
  <2> QED BY <2>1, <2>2
<1>4. WellFormed(NoRequest)
  BY DEF WellFormed, NoRequest, Actions
<1> QED BY <1>3, <1>4 DEF Init, RequestsInv, Labels, OnIndex, Reporting

(* What is left of a list after its head.                                  *)
LEMMA TailOfMore ==
    ASSUME NEW S, NEW s \in Seq(S), s # <<>>
    PROVE  Tail(s) \in Seq(S) /\ (Len(s) > 1 => Tail(s) # <<>>)
<1>1. Tail(s) \in Seq(S) /\ Len(Tail(s)) = Len(s) - 1 /\ Len(s) \in Nat
  OBVIOUS
<1>2. ASSUME NEW t \in Seq(S), Len(t) = Len(s) - 1, Len(s) > 1, Len(s) \in Nat
      PROVE  t # <<>>
  BY <1>2
<1> QED BY <1>1, <1>2

(* One worker's step keeps it, and is a step of the cache or none.         *)
LEMMA StepRequests ==
    ASSUME RequestsInv, NEW w \in Workers, Step(w)
    PROVE  RequestsInv' /\ [CacheNext]_cacheVars
<1> USE DEF At, Goto
<1>0. /\ pc \in [Workers -> Labels] /\ todo \in [Workers -> Seq(Trainers)]
      /\ DOMAIN request = Workers
  BY DEF RequestsInv
<1>1. CASE Take(w)
  <2>1. PICK S : workingQueue \in Seq(S) /\ \A r \in S : WellFormed(r)
    BY DEF RequestsInv
  <2>2. /\ workingQueue' \in Seq(S) /\ Head(workingQueue) \in S
    BY <1>1, <2>1 DEF Take
  <2>3. WellFormed(Head(workingQueue))
    BY <2>1, <2>2
  <2>4. \E T : workingQueue' \in Seq(T) /\ \A r \in T : WellFormed(r)
    BY <2>1, <2>2
  <2>5. \A v \in Workers : WellFormed(request'[v])
    BY <1>0, <1>1, <2>3 DEF Take, RequestsInv
  <2>6. todo' \in [Workers -> Seq(Trainers)]
    BY <1>0, <1>1, <2>3 DEF Take, WellFormed
  <2>7. pc' \in [Workers -> Labels] /\ DOMAIN request' = Workers
    BY <1>0, <1>1 DEF Take, Labels
  <2>8. \A v \in Workers : v # w =>
           pc'[v] = pc[v] /\ todo'[v] = todo[v] /\ request'[v] = request[v]
    BY <1>0, <1>1 DEF Take
  <2>9. pc'[w] = "run" /\ todo'[w] = request'[w].indexes
    BY <1>0, <1>1 DEF Take
  <2> QED
    BY <1>1, <2>4, <2>5, <2>6, <2>7, <2>8, <2>9 DEF RequestsInv, OnIndex, Reporting, Take
<1> DEFINE Same == UNCHANGED <<workingQueue, request, todo>>
           To(label) == Same /\ pc' = [pc EXCEPT ![w] = label]
<1>2. ASSUME NEW label \in {"idle", "respond", "reportError", "forgetError", "statusFree"},
             To(label)
      PROVE  RequestsInv'
  BY <1>0, <1>2 DEF RequestsInv, OnIndex, Reporting, Labels
<1>3. ASSUME NEW label \in OnIndex, To(label), todo[w] # <<>>,
             request[w].action \notin {"IDXSTATUS", "invalid"},
             label \in Reporting => request[w].action # "MATCH"
      PROVE  RequestsInv'
  BY <1>0, <1>3 DEF RequestsInv, OnIndex, Reporting, Labels
<1>4. CASE RunRejected(w)
  BY <1>2, <1>4 DEF RunRejected
<1>5. CASE RunThrows(w)
  BY <1>0, <1>5 DEF RunThrows, RequestsInv
<1>6. CASE RunAccepted(w)
  <2>1. todo[w] = request[w].indexes /\ WellFormed(request[w])
        /\ request[w].action # "invalid" /\ UNCHANGED cacheVars
    BY <1>6 DEF RunAccepted, RequestsInv
  <2>2. To(FirstStep[request[w].action])
    BY <1>6 DEF RunAccepted
  <2> QED
    BY <1>0, <2>1, <2>2
       DEF RequestsInv, WellFormed, Actions, FirstStep, OnIndex, Reporting, Labels
(* Which step of the cache a step on an index is.                          *)
<1>7. ASSUME pc[w] \in OnIndex
      PROVE  /\ Index(w) \in Trainers /\ todo[w] # <<>>
             /\ request[w].action \notin {"IDXSTATUS", "invalid"}
             /\ pc[w] \in Reporting => request[w].action # "MATCH"
  BY <1>0, <1>7 DEF RequestsInv, Index
<1>8. CASE LoadStep(w)
  <2>1. LoadMatcher(Index(w))
    BY <1>8 DEF LoadStep, LoadMatcher
  <2>2. CacheNext
    BY <1>7, <1>8, <2>1 DEF CacheNext, LoadStep, OnIndex
  <2> QED BY <1>2, <1>3, <1>7, <1>8, <2>2 DEF LoadStep, localVars, OnIndex, Reporting
<1>9. ASSUME NEW keep \in BOOLEAN, pc[w] \in OnIndex,
             UnloadOrNot(Index(w), keep)
      PROVE  [CacheNext]_cacheVars
  BY <1>7, <1>9 DEF UnloadOrNot, CacheNext
<1>10. CASE UnloadStep(w)
  BY <1>3, <1>7, <1>9, <1>10 DEF UnloadStep, localVars, OnIndex, Reporting
<1>11. CASE UnloadOldStep(w)
  BY <1>3, <1>7, <1>9, <1>11 DEF UnloadOldStep, localVars, OnIndex, Reporting
<1>12. CASE ReloadStep(w)
  <2>1. LoadMatcher(Index(w))
    BY <1>12 DEF ReloadStep, LoadMatcher
  <2>2. CacheNext
    BY <1>7, <1>12, <2>1 DEF CacheNext, ReloadStep, OnIndex
  <2> QED BY <1>2, <1>3, <1>7, <1>12, <2>2 DEF ReloadStep, localVars, OnIndex, Reporting
<1>13. CASE MarkStep(w)
  <2>1. CacheNext BY <1>13 DEF MarkStep, CacheNext
  <2> QED BY <1>3, <1>7, <1>13, <2>1 DEF MarkStep, localVars, OnIndex, Reporting
(* The head of the list is done with.                                      *)
<1>14. ASSUME pc[w] \in OnIndex, UNCHANGED <<workingQueue, request>>,
              todo' = [todo EXCEPT ![w] = Tail(@)],
              NEW label, label \in OnIndex \cup {"respond"},
              label # "respond" => Len(todo[w]) > 1,
              label \in Reporting => request[w].action # "MATCH",
              pc' = [pc EXCEPT ![w] = label]
       PROVE  RequestsInv'
  <2>1. Tail(todo[w]) \in Seq(Trainers)
        /\ (Len(todo[w]) > 1 => Tail(todo[w]) # <<>>)
    BY <1>0, <1>7, <1>14, TailOfMore
  <2>2. todo' \in [Workers -> Seq(Trainers)] /\ todo'[w] = Tail(todo[w])
        /\ \A v \in Workers : v # w => todo'[v] = todo[v]
    BY <1>0, <1>14, <2>1
  <2>3. pc' \in [Workers -> Labels] /\ pc'[w] = label
        /\ \A v \in Workers : v # w => pc'[v] = pc[v]
    BY <1>0, <1>14 DEF OnIndex, Reporting, Labels
  <2> QED BY <1>7, <1>14, <2>1, <2>2, <2>3 DEF RequestsInv, OnIndex, Reporting
<1>15. CASE ForgetStep(w)
  <2>1. CacheNext BY <1>15 DEF ForgetStep, CacheNext
  <2>2. pc[w] = "forget" /\ pc[w] \in OnIndex
    BY <1>15 DEF ForgetStep, OnIndex
  <2>3. WellFormed(request[w])
    BY DEF RequestsInv
  <2>4. CASE Len(todo[w]) > 1
    <3>1. /\ FirstStep[request[w].action] \in OnIndex
          /\ request[w].action # "MATCH"
      BY <1>7, <2>2, <2>3, <2>4
         DEF WellFormed, Actions, FirstStep, OnIndex, Reporting
    <3> QED BY <1>14, <1>15, <2>1, <2>2, <2>4, <3>1 DEF ForgetStep
  <2>5. CASE ~ (Len(todo[w]) > 1)
    <3>1. "respond" \notin Reporting
      BY DEF OnIndex, Reporting
    <3> QED BY <1>14, <1>15, <2>1, <2>2, <2>5, <3>1 DEF ForgetStep
  <2> QED BY <2>4, <2>5
<1>16. CASE ForgetErrorStep(w)
  <2>1. CacheNext BY <1>16 DEF ForgetErrorStep, CacheNext
  <2> QED BY <1>2, <1>16, <2>1 DEF ForgetErrorStep
<1>17. CASE RespondStep(w)
  BY <1>2, <1>17 DEF RespondStep
<1>18. CASE StatusStep(w) \/ StatusFreeStep(w)
  BY <1>2, <1>18 DEF StatusStep, StatusFreeStep
<1>19. CASE SceneStep(w)
  <2>1. /\ request[w].action = "MATCH" /\ todo[w] # <<>>
        /\ request[w].scene \in Scenes
    BY <1>19 DEF SceneStep, RequestsInv, WellFormed
  <2>2. CacheNext
    BY <1>19, <2>1 DEF SceneStep, LoadScene, CacheNext
  <2>3. CASE To("load")
    BY <1>3, <2>1, <2>2, <2>3 DEF OnIndex, Reporting
  <2>4. CASE To("reportError")
    BY <1>2, <2>2, <2>4
  <2> QED BY <1>19, <2>3, <2>4 DEF SceneStep, localVars
<1>20. CASE PatternStep(w)
  <2>1. PICK pidx \in Patterns :
           \/ PatternFound(Index(w), pidx) /\ UNCHANGED pc
           \/ PatternFailed(Index(w), pidx)
              /\ pc' = [pc EXCEPT ![w] = "reportError"]
    BY <1>20 DEF PatternStep
  <2>2. LoadPattern(Index(w), pidx)
    BY <2>1 DEF LoadPattern
  <2>3. CacheNext
    BY <1>7, <1>20, <2>2 DEF PatternStep, OnIndex, CacheNext
  <2>4. Same BY <1>20 DEF PatternStep, localVars
  <2>5. CASE UNCHANGED pc
    BY <2>3, <2>4, <2>5 DEF RequestsInv
  <2> QED BY <1>2, <2>1, <2>3, <2>4, <2>5
<1>21. CASE PatternNull(w)
  <2>1. PICK pidx \in Patterns : LoadPattern(Index(w), pidx)
    BY <1>21 DEF PatternNull, LoadPattern
  <2>2. CacheNext
    BY <1>7, <1>21, <2>1 DEF PatternNull, OnIndex, CacheNext
  <2> QED BY <1>21, <2>2 DEF PatternNull, RequestsInv
<1>22. CASE MatchedStep(w)
  <2>1. pc[w] \in OnIndex BY <1>22 DEF MatchedStep, OnIndex
  <2>2. CASE Len(todo[w]) > 1
    <3>1. /\ "load" \in OnIndex \cup {"respond"}
          /\ "load" \notin Reporting
          /\ pc' = [pc EXCEPT ![w] = "load"]
      BY <1>22, <2>2 DEF MatchedStep, OnIndex, Reporting
    <3> QED BY <1>14, <1>22, <2>1, <2>2, <3>1 DEF MatchedStep
  <2>3. CASE ~ (Len(todo[w]) > 1)
    <3>1. pc' = [pc EXCEPT ![w] = "respond"]
      BY <1>22, <2>3 DEF MatchedStep
    <3>2. "respond" \notin Reporting
      BY DEF OnIndex, Reporting
    <3> QED BY <1>14, <1>22, <2>1, <2>3, <3>1, <3>2 DEF MatchedStep
  <2> QED BY <2>2, <2>3
<1>23. CASE ReportStep(w)
  BY <1>3, <1>7, <1>23 DEF ReportStep, OnIndex, Reporting
<1>24. CASE ReportErrorStep(w)
  BY <1>2, <1>24 DEF ReportErrorStep
<1>25. CASE Race(w)
  BY <1>25 DEF Race, RequestsInv
<1> QED
  BY <1>1, <1>4, <1>5, <1>6, <1>8, <1>10, <1>11, <1>12, <1>13, <1>15, <1>16,
     <1>17, <1>18, <1>19, <1>20, <1>21, <1>22, <1>23, <1>24, <1>25 DEF Step

(* The workers are clients of the cache: each of their steps is one of its *)
(* operations or leaves it alone (PatternMatcher::run).                    *)
THEOREM WorkersUseCache == Spec => CacheSpec
<1>1. Init => CacheInit
  BY DEF Init
<1>2. RequestsInv /\ [Next]_vars => RequestsInv' /\ [CacheNext]_cacheVars
  <2>1. ASSUME RequestsInv, Next PROVE RequestsInv' /\ [CacheNext]_cacheVars
    BY <2>1, StepRequests DEF Next
  <2>2. ASSUME RequestsInv, UNCHANGED vars
        PROVE  RequestsInv' /\ UNCHANGED cacheVars
    BY <2>2 DEF vars, workerVars, RequestsInv
  <2> QED BY <2>1, <2>2
<1> QED BY <1>1, <1>2, InitRequests, PTL DEF Spec, CacheSpec

(* In the daemon the three records of the cache never drift apart,         *)
(* whatever the requests and the number of workers (SFBMCache.cpp).        *)
THEOREM WorkersKeepCache ==
    ASSUME cacheMaxSize > 0 PROVE Spec => []MatchersConsistent
BY WorkersUseCache, MatchersSafe, PTL

(* In the daemon too the patterns of a trainer leave the cache with it and *)
(* only then, and no trainer is dropped for a less valuable one, whatever  *)
(* other requests do between two of a request's calls.                     *)
THEOREM WorkersKeepPatterns ==
    ASSUME cacheMaxSize > 0
    PROVE  Spec => PatternsFollowEviction /\ NoValuableDropped
BY WorkersUseCache, PatternsLeaveWithTrainer, ValuableKept, PTL

(* The daemon's cache does what BoundedCache promises.                     *)
THEOREM WorkersRefine ==
    ASSUME cacheMaxSize > 0 PROVE Spec => MatchersBounded
BY WorkersUseCache, MatchersRefine, PTL
-----------------------------------------------------------------------------
LEMMA RequestsInductive == RequestsInv /\ [Next]_vars => RequestsInv'
<1>1. ASSUME RequestsInv, Next PROVE RequestsInv'
  BY <1>1, StepRequests DEF Next
<1>2. ASSUME RequestsInv, UNCHANGED vars PROVE RequestsInv'
  BY <1>2 DEF vars, workerVars, RequestsInv
<1> QED BY <1>1, <1>2

LEMMA RunningIsBoolean == running \in BOOLEAN /\ [Next]_vars => running' \in BOOLEAN
<1> SUFFICES ASSUME running \in BOOLEAN, [Next]_vars PROVE running' \in BOOLEAN
  OBVIOUS
<1>1. ASSUME NEW w \in Workers, Step(w) PROVE running' = running \/ running' = FALSE
  BY <1>1 DEF Step, Take, RunRejected, RunThrows, RunAccepted, LoadStep, UnloadStep,
     UnloadOldStep, ReloadStep, MarkStep, ReportStep, ForgetStep, ReportErrorStep,
     ForgetErrorStep, RespondStep, StatusStep, StatusFreeStep, Race, SceneStep,
     PatternStep, PatternNull, MatchedStep, localVars
<1> QED BY <1>1 DEF Next, vars, workerVars

(* A worker is always at a step of its request's action, with an index left*)
(* where the step takes one, so run() never takes the first of none.       *)
THEOREM WorkersTypeCorrect == Spec => []WorkersOK
<1> DEFINE Inv == RequestsInv /\ running \in BOOLEAN
<1>1. Init => Inv
  BY InitRequests DEF Init
<1>2. Inv /\ [Next]_vars => Inv'
  BY RequestsInductive, RunningIsBoolean
<1>3. Inv => WorkersOK
  BY DEF RequestsInv, WorkersOK, WellFormed
<1> QED BY <1>1, <1>2, <1>3, PTL DEF Spec
-----------------------------------------------------------------------------
(* The requests that left the queue are with a worker or answered, and as  *)
(* many as those workers and answers together.                             *)
Popped == Cardinality(Busy) + Len(outputs)
InWorkNumbers == {request[w].n : w \in Busy}
AnsweredNumbers == {outputs[i].request.n : i \in DOMAIN outputs}

NumbersInv ==
    /\ IsFiniteSet(Busy)
    /\ \E S : outputs \in Seq(S)
    /\ \A i \in DOMAIN workingQueue : workingQueue[i].n = Popped + i
    /\ InWorkNumbers \cup AnsweredNumbers = 1 .. Popped

(* What a step does to the places a request can be in.                     *)
Answers(w) ==
    /\ pc[w] # "idle" /\ pc' = [pc EXCEPT ![w] = "idle"]
    /\ UNCHANGED <<workingQueue, request>>
    /\ \E kind, reports :
          Emit(w, kind, reports) /\ (kind = "response" => pc[w] = "respond")

StaysWhereItIs == UNCHANGED <<workingQueue, request, outputs>> /\ Busy' = Busy

LEMMA StepKinds ==
    ASSUME RequestsInv, NEW w \in Workers, Step(w)
    PROVE  Take(w) \/ Answers(w) \/ StaysWhereItIs
<1>0. pc \in [Workers -> Labels]
  BY DEF RequestsInv
<1>1. ASSUME UNCHANGED <<workingQueue, request, outputs>>, pc[w] # "idle",
             NEW label, label # "idle", Goto(w, label)
      PROVE  StaysWhereItIs
  BY <1>0, <1>1 DEF StaysWhereItIs, Busy, Goto
<1>2. ASSUME UNCHANGED <<workingQueue, request, outputs, pc>> PROVE StaysWhereItIs
  BY <1>2 DEF StaysWhereItIs, Busy
<1>3. CASE RunRejected(w) \/ ForgetErrorStep(w) \/ RespondStep(w)
  BY <1>3 DEF RunRejected, ForgetErrorStep, RespondStep, Answers, At, Goto
<1>4. CASE RunThrows(w) \/ Race(w) \/ PatternNull(w)
  BY <1>2, <1>4 DEF RunThrows, Race, PatternNull
<1>5. CASE RunAccepted(w)
  <2>1. /\ UNCHANGED <<workingQueue, request, outputs>> /\ pc[w] = "run"
        /\ Goto(w, FirstStep[request[w].action]) /\ request[w].action # "invalid"
    BY <1>5 DEF RunAccepted, At
  <2>2. request[w].action \in Actions
    BY DEF RequestsInv, WellFormed
  <2>3. FirstStep[request[w].action] # "idle"
    BY <2>1, <2>2 DEF FirstStep, Actions
  <2> QED BY <1>1, <2>1, <2>3
<1>6. CASE LoadStep(w) \/ UnloadStep(w) \/ UnloadOldStep(w) \/ ReloadStep(w) \/ MarkStep(w)
  <2>1. /\ UNCHANGED <<workingQueue, request, outputs>> /\ pc[w] # "idle"
        /\ \E label \in {"match", "report", "reportError", "reload", "mark"} : Goto(w, label)
    BY <1>6 DEF LoadStep, UnloadStep, UnloadOldStep, ReloadStep, MarkStep, localVars, At
  <2> QED BY <1>1, <2>1
<1>7. CASE ReportStep(w) \/ ReportErrorStep(w) \/ StatusStep(w) \/ StatusFreeStep(w)
  <2>1. /\ UNCHANGED <<workingQueue, request, outputs>> /\ pc[w] # "idle"
        /\ \E label \in {"forget", "forgetError", "statusFree", "respond"} : Goto(w, label)
    BY <1>7 DEF ReportStep, ReportErrorStep, StatusStep, StatusFreeStep, At
  <2> QED BY <1>1, <2>1
<1>8. CASE ForgetStep(w)
  <2>1. /\ UNCHANGED <<workingQueue, request, outputs>> /\ pc[w] = "forget"
        /\ \/ Goto(w, FirstStep[request[w].action])
           \/ Goto(w, "respond")
    BY <1>8 DEF ForgetStep, At
  <2>2. request[w].action \in Actions \ {"invalid"}
    BY <2>1 DEF RequestsInv, WellFormed, OnIndex
  <2>3. FirstStep[request[w].action] # "idle"
    BY <2>2 DEF FirstStep, Actions
  <2> QED BY <1>1, <2>1, <2>3
<1>9. CASE SceneStep(w) \/ MatchedStep(w)
  <2>1. /\ UNCHANGED <<workingQueue, request, outputs>> /\ pc[w] # "idle"
        /\ \E label \in {"load", "reportError", "respond"} : Goto(w, label)
    BY <1>9 DEF SceneStep, MatchedStep, localVars, At
  <2> QED BY <1>1, <2>1
<1>10. CASE PatternStep(w)
  <2>1. /\ UNCHANGED <<workingQueue, request, outputs>> /\ pc[w] # "idle"
        /\ UNCHANGED pc \/ Goto(w, "reportError")
    BY <1>10 DEF PatternStep, localVars, At
  <2> QED BY <1>1, <1>2, <2>1
<1> QED BY <1>3, <1>4, <1>5, <1>6, <1>7, <1>8, <1>9, <1>10 DEF Step

LEMMA SeqOfMore ==
    ASSUME NEW S, NEW s \in Seq(S), NEW x
    PROVE  /\ \E T : Append(s, x) \in Seq(T)
           /\ Len(Append(s, x)) = Len(s) + 1
           /\ DOMAIN Append(s, x) = 1 .. Len(s) + 1
           /\ \A i \in 1 .. Len(s) : Append(s, x)[i] = s[i]
           /\ Append(s, x)[Len(s) + 1] = x
<1>1. s \in Seq(S \cup {x})
  OBVIOUS
<1> QED BY <1>1

(* The answer comes after those that are there.                            *)
LEMMA EmitAppends ==
    ASSUME NEW w, NEW kind, NEW reports, Emit(w, kind, reports), \E S : outputs \in Seq(S)
    PROVE  /\ \E T : outputs' \in Seq(T)
           /\ Len(outputs) \in Nat /\ DOMAIN outputs = 1 .. Len(outputs)
           /\ Len(outputs') = Len(outputs) + 1 /\ DOMAIN outputs' = 1 .. Len(outputs) + 1
           /\ \A i \in 1 .. Len(outputs) : outputs'[i] = outputs[i]
           /\ outputs'[Len(outputs) + 1].kind = kind
           /\ outputs'[Len(outputs) + 1].request = request[w]
           /\ outputs'[Len(outputs) + 1].reports = reports
<1> DEFINE o == [kind |-> kind, request |-> request[w], reports |-> reports]
<1>1. o.kind = kind /\ o.request = request[w] /\ o.reports = reports
  OBVIOUS
<1>2. outputs' = Append(outputs, o)
  BY DEF Emit
<1> HIDE DEF o
<1>3. PICK S : outputs \in Seq(S)
  OBVIOUS
<1>4. /\ \E T : Append(outputs, o) \in Seq(T)
      /\ Len(Append(outputs, o)) = Len(outputs) + 1
      /\ DOMAIN Append(outputs, o) = 1 .. Len(outputs) + 1
      /\ \A i \in 1 .. Len(outputs) : Append(outputs, o)[i] = outputs[i]
      /\ Append(outputs, o)[Len(outputs) + 1] = o
  BY <1>3, SeqOfMore, Zenon
<1>5. Len(outputs) \in Nat /\ DOMAIN outputs = 1 .. Len(outputs)
  BY <1>3
<1> QED BY <1>1, <1>2, <1>4, <1>5, Zenon

LEMMA InitNumbers == Init => NumbersInv
<1> SUFFICES ASSUME Init PROVE NumbersInv
  OBVIOUS
<1>1. PICK queue \in RequestQueues : workingQueue = Numbered(queue)
  BY DEF Init
<1>2. Busy = {}
  BY DEF Init, Busy
<1>3. Popped = 0 /\ IsFiniteSet(Busy)
  BY <1>2, FS_EmptySet DEF Init, Popped
<1>4. \A i \in DOMAIN workingQueue : workingQueue[i].n = 0 + i
  BY <1>1, RequestsAssumption DEF Numbered
<1>5. outputs \in Seq({}) /\ AnsweredNumbers = {} /\ InWorkNumbers = {}
  BY <1>2 DEF Init, AnsweredNumbers, InWorkNumbers
<1> QED BY <1>3, <1>4, <1>5 DEF NumbersInv

LEMMA TakeNumbers ==
    ASSUME RequestsInv, NumbersInv, NEW w \in Workers, Take(w)
    PROVE  NumbersInv'
<1>0. /\ pc \in [Workers -> Labels] /\ pc[w] = "idle" /\ DOMAIN request = Workers
      /\ IsFiniteSet(Busy) /\ Cardinality(Busy) \in Nat /\ Len(outputs) \in Nat
  BY FS_CardinalityType DEF RequestsInv, NumbersInv, Take, At
<1>1. Busy' = Busy \cup {w} /\ w \notin Busy
  BY <1>0 DEF Take, Goto, Busy
<1>2. Popped' = Popped + 1 /\ IsFiniteSet(Busy') /\ Popped \in Nat
  <2>1. IsFiniteSet(Busy') /\ Cardinality(Busy') = Cardinality(Busy) + 1
    BY <1>0, <1>1, FS_AddElement
  <2>2. outputs' = outputs
    BY DEF Take
  <2> QED BY <1>0, <2>1, <2>2 DEF Popped
<1>3. PICK S : workingQueue \in Seq(S)
  BY DEF RequestsInv
<1>4. /\ workingQueue # <<>> /\ workingQueue' = Tail(workingQueue)
      /\ Len(workingQueue) \in Nat \ {0} /\ Head(workingQueue) = workingQueue[1]
  BY <1>3 DEF Take
<1>5. Head(workingQueue).n = Popped + 1
  BY <1>3, <1>4 DEF NumbersInv
<1>6. \A i \in DOMAIN workingQueue' : workingQueue'[i].n = Popped' + i
  <2>1. \A i \in DOMAIN workingQueue' :
           i \in Nat /\ i + 1 \in DOMAIN workingQueue /\ workingQueue'[i] = workingQueue[i + 1]
    BY <1>3, <1>4
  <2> QED BY <1>2, <2>1 DEF NumbersInv
<1>7. /\ request'[w] = Head(workingQueue)
      /\ \A v \in Busy : request'[v] = request[v]
  BY <1>0, <1>1 DEF Take, Busy
<1>8. InWorkNumbers' = InWorkNumbers \cup {Popped + 1}
  BY <1>1, <1>5, <1>7 DEF InWorkNumbers
<1>9. AnsweredNumbers' = AnsweredNumbers
  BY DEF Take, AnsweredNumbers
<1>10. 1 .. Popped' = (1 .. Popped) \cup {Popped + 1}
  BY <1>2
<1> QED BY <1>2, <1>6, <1>8, <1>9, <1>10 DEF NumbersInv, Take

LEMMA AnswerNumbers ==
    ASSUME RequestsInv, NumbersInv, NEW w \in Workers, Answers(w)
    PROVE  NumbersInv'
<1>0. /\ pc \in [Workers -> Labels]
      /\ IsFiniteSet(Busy) /\ Cardinality(Busy) \in Nat
  BY FS_CardinalityType DEF RequestsInv, NumbersInv
<1>1. Busy' = Busy \ {w} /\ w \in Busy
  BY <1>0 DEF Answers, Busy
<1>4. /\ \E T : outputs' \in Seq(T)
      /\ DOMAIN outputs = 1 .. Len(outputs) /\ DOMAIN outputs' = 1 .. Len(outputs) + 1
      /\ Len(outputs') = Len(outputs) + 1 /\ Len(outputs) \in Nat
      /\ \A i \in 1 .. Len(outputs) : outputs'[i] = outputs[i]
      /\ outputs'[Len(outputs) + 1].request = request[w]
  BY EmitAppends DEF Answers, NumbersInv
<1>5. Popped' = Popped /\ IsFiniteSet(Busy')
  <2>1. IsFiniteSet(Busy') /\ Cardinality(Busy') = Cardinality(Busy) - 1
    BY <1>0, <1>1, FS_RemoveElement
  <2> QED BY <1>0, <1>4, <2>1 DEF Popped
<1>6. AnsweredNumbers' = AnsweredNumbers \cup {request[w].n}
  <2>1. 1 .. Len(outputs) + 1 = (1 .. Len(outputs)) \cup {Len(outputs) + 1}
    BY <1>4
  <2> QED BY <1>4, <2>1 DEF AnsweredNumbers
<1>7. InWorkNumbers' \cup {request[w].n} = InWorkNumbers
  BY <1>1 DEF InWorkNumbers, Answers
<1> QED BY <1>4, <1>5, <1>6, <1>7 DEF NumbersInv, Answers

LEMMA NumbersKept == RequestsInv /\ NumbersInv /\ [Next]_vars => NumbersInv'
<1> SUFFICES ASSUME RequestsInv, NumbersInv, [Next]_vars PROVE NumbersInv'
  OBVIOUS
<1>1. ASSUME StaysWhereItIs PROVE NumbersInv'
  BY <1>1 DEF StaysWhereItIs, NumbersInv, Popped, InWorkNumbers, AnsweredNumbers
<1>2. CASE Next
  BY <1>1, <1>2, StepKinds, TakeNumbers, AnswerNumbers DEF Next
<1>3. CASE UNCHANGED vars
  BY <1>1, <1>3 DEF vars, workerVars, StaysWhereItIs, Busy
<1> QED BY <1>2, <1>3

(* Every request is in exactly one place (Worker.cpp, PatternMatcher::run):*)
(* popping gives a request to one worker, and each way run() returns takes *)
(* it from there to the answers, once.                                     *)
THEOREM RequestsConserved == Spec => []Conserved
<1> DEFINE Inv == RequestsInv /\ NumbersInv
<1>1. Init => Inv
  BY InitRequests, InitNumbers
<1>2. Inv /\ [Next]_vars => Inv'
  BY RequestsInductive, NumbersKept
<1>3. Inv => Conserved
  <2> SUFFICES ASSUME Inv PROVE Conserved
    OBVIOUS
  <2>1. PICK S, T : workingQueue \in Seq(S) /\ outputs \in Seq(T)
    BY DEF RequestsInv, NumbersInv
  <2>2. /\ Popped \in Nat /\ Len(workingQueue) \in Nat
        /\ DOMAIN workingQueue = 1 .. Len(workingQueue)
    BY <2>1, FS_CardinalityType DEF NumbersInv, Popped
  <2>3. {workingQueue[i].n : i \in DOMAIN workingQueue}
          = Popped + 1 .. Popped + Len(workingQueue)
    <3>1. \A i \in 1 .. Len(workingQueue) : workingQueue[i].n = Popped + i
      BY <2>2 DEF NumbersInv
    <3>2. \A k \in Popped + 1 .. Popped + Len(workingQueue) :
             k - Popped \in 1 .. Len(workingQueue) /\ k = Popped + (k - Popped)
      BY <2>2
    <3>3. ASSUME NEW k \in Popped + 1 .. Popped + Len(workingQueue)
          PROVE  k \in {workingQueue[i].n : i \in DOMAIN workingQueue}
      <4>1. k - Popped \in DOMAIN workingQueue /\ workingQueue[k - Popped].n = k
        BY <2>2, <3>1, <3>2
      <4> QED BY <4>1
    <3>4. ASSUME NEW i \in DOMAIN workingQueue
          PROVE  workingQueue[i].n \in Popped + 1 .. Popped + Len(workingQueue)
      <4>1. i \in 1 .. Len(workingQueue) /\ workingQueue[i].n = Popped + i
        BY <2>2, <3>1
      <4> QED BY <2>2, <4>1
    <3> QED BY <3>3, <3>4
  <2>4. (Popped + 1 .. Popped + Len(workingQueue)) \cup (1 .. Popped)
          = 1 .. Len(workingQueue) + Popped
    BY <2>2
  <2>5. Len(workingQueue) + Cardinality(Busy) + Len(outputs) = Len(workingQueue) + Popped
    BY <2>1, <2>2, FS_CardinalityType DEF Popped, NumbersInv
  <2> QED BY <2>3, <2>4, <2>5 DEF Conserved, NumbersInv, InWorkNumbers, AnsweredNumbers
<1> QED BY <1>1, <1>2, <1>3, PTL DEF Spec
-----------------------------------------------------------------------------
(* The indexes left are the last ones of the request.                      *)
Suffix(s, all) ==
    Len(s) <= Len(all) /\ \A j \in 1 .. Len(s) : s[j] = all[Len(all) - Len(s) + j]

ListsInv == \A w \in Workers : Suffix(todo[w], request[w].indexes)

LEMMA TailIsSuffix ==
    ASSUME NEW S, NEW s \in Seq(S), NEW all \in Seq(S), s # <<>>, Suffix(s, all)
    PROVE  /\ Suffix(Tail(s), all)
           /\ Len(all) - Len(Tail(s)) = Len(all) - Len(s) + 1
<1>1. /\ Len(Tail(s)) = Len(s) - 1 /\ Len(s) \in Nat \ {0} /\ Len(all) \in Nat
      /\ \A j \in 1 .. Len(s) - 1 : Tail(s)[j] = s[j + 1]
  OBVIOUS
<1>2. Len(Tail(s)) <= Len(all)
  BY <1>1 DEF Suffix
<1>3. ASSUME NEW j \in 1 .. Len(Tail(s))
      PROVE  Tail(s)[j] = all[Len(all) - Len(Tail(s)) + j]
  <2>1. j + 1 \in 1 .. Len(s) /\ Tail(s)[j] = s[j + 1]
    BY <1>1
  <2>2. s[j + 1] = all[Len(all) - Len(s) + (j + 1)]
    BY <2>1 DEF Suffix
  <2>3. Len(all) - Len(s) + (j + 1) = Len(all) - Len(Tail(s)) + j
    BY <1>1
  <2> QED BY <2>1, <2>2, <2>3
<1>4. Len(all) - Len(Tail(s)) = Len(all) - Len(s) + 1
  BY <1>1
<1> QED BY <1>2, <1>3, <1>4 DEF Suffix

LEMMA HeadOfSuffix ==
    ASSUME NEW S, NEW s \in Seq(S), NEW all \in Seq(S), s # <<>>, Suffix(s, all)
    PROVE  /\ Len(all) - Len(s) \in Nat /\ Len(all) - Len(s) + 1 \in DOMAIN all
           /\ Head(s) = all[Len(all) - Len(s) + 1]
<1>1. 1 \in 1 .. Len(s) /\ Head(s) = s[1] /\ Len(s) \in Nat /\ Len(all) \in Nat
  OBVIOUS
<1> QED BY <1>1 DEF Suffix

LEMMA ListSteps ==
    ASSUME NEW w \in Workers, Step(w)
    PROVE  \/ /\ request' = [request EXCEPT ![w] = Head(workingQueue)]
              /\ todo' = [todo EXCEPT ![w] = Head(workingQueue).indexes]
           \/ UNCHANGED <<request, todo>>
           \/ /\ pc[w] \in OnIndex /\ UNCHANGED request
              /\ todo' = [todo EXCEPT ![w] = Tail(@)]
BY DEF Step, Take, RunRejected, RunThrows, RunAccepted, LoadStep, UnloadStep,
       UnloadOldStep, ReloadStep, MarkStep, ReportStep, ForgetStep, ReportErrorStep,
       ForgetErrorStep, RespondStep, StatusStep, StatusFreeStep, Race, SceneStep,
       PatternStep, PatternNull, MatchedStep, localVars, At, OnIndex

LEMMA ListsKept == RequestsInv /\ ListsInv /\ [Next]_vars => ListsInv'
<1> SUFFICES ASSUME RequestsInv, ListsInv, [Next]_vars PROVE ListsInv'
  OBVIOUS
<1>0. RequestsInv' /\ todo \in [Workers -> Seq(Trainers)] /\ DOMAIN request = Workers
  BY RequestsInductive DEF RequestsInv
<1>1. ASSUME UNCHANGED <<request, todo>> PROVE ListsInv'
  BY <1>1 DEF ListsInv
<1>2. ASSUME NEW w \in Workers, Step(w) PROVE ListsInv'
  <2>1. CASE /\ request' = [request EXCEPT ![w] = Head(workingQueue)]
             /\ todo' = [todo EXCEPT ![w] = Head(workingQueue).indexes]
    <3>1. todo'[w] = request'[w].indexes /\ todo'[w] \in Seq(Trainers)
      BY <1>0, <2>1 DEF RequestsInv
    <3>2. \A v \in Workers \ {w} : todo'[v] = todo[v] /\ request'[v] = request[v]
      BY <1>0, <2>1
    <3>3. Suffix(todo'[w], request'[w].indexes)
      <4>1. \A s \in Seq(Trainers) : Suffix(s, s)
        BY DEF Suffix
      <4> QED BY <3>1, <4>1
    <3> QED BY <3>2, <3>3 DEF ListsInv
  <2>2. CASE /\ pc[w] \in OnIndex /\ UNCHANGED request
             /\ todo' = [todo EXCEPT ![w] = Tail(@)]
    <3>1. /\ todo[w] \in Seq(Trainers) /\ todo[w] # <<>>
          /\ request[w].indexes \in Seq(Trainers)
      BY <1>0, <2>2 DEF RequestsInv, WellFormed
    <3>2. Suffix(Tail(todo[w]), request[w].indexes)
      BY <3>1, TailIsSuffix DEF ListsInv
    <3>3. todo'[w] = Tail(todo[w]) /\ request' = request
          /\ \A v \in Workers \ {w} : todo'[v] = todo[v]
      BY <1>0, <2>2
    <3> QED BY <3>2, <3>3 DEF ListsInv
  <2> QED BY <1>1, <1>2, <2>1, <2>2, ListSteps
<1> QED BY <1>1, <1>2 DEF Next, vars, workerVars

LEMMA InitLists == Init => ListsInv
<1> SUFFICES ASSUME Init PROVE ListsInv
  OBVIOUS
<1>1. \A w \in Workers : todo[w] = <<>> /\ request[w].indexes = <<>>
  BY DEF Init, NoRequest
<1>2. Suffix(<<>>, <<>>)
  BY DEF Suffix
<1> QED BY <1>1, <1>2 DEF ListsInv

(* A load adds the trainer the worker is at, and nothing else adds one.    *)
LEMMA CacheGrows ==
    ASSUME NEW w \in Workers, Step(w)
    PROVE  /\ cache' \subseteq cache \cup {Index(w)}
           /\ pc[w] \notin {"load", "reload"} => cache' \subseteq cache
<1> DEFINE Shrinks == cache' \subseteq cache
<1>1. CASE LoadStep(w) \/ ReloadStep(w)
  <2>1. LoadMatcher(Index(w)) /\ pc[w] \in {"load", "reload"}
    BY <1>1 DEF LoadStep, ReloadStep, LoadMatcher, At
  <2>2. cache' \subseteq cache \cup {Index(w)}
    BY <2>1 DEF LoadMatcher, LoadSucceeds, LoadHit, LoadStored, LoadDiscarded, LoadFailed,
       matcherVars
  <2> QED BY <2>1, <2>2
<1>2. CASE UnloadStep(w) \/ UnloadOldStep(w)
  <2>1. Shrinks
    BY <1>2 DEF UnloadStep, UnloadOldStep, UnloadOrNot, UnloadMatcher, cacheVars, matcherVars
  <2> QED BY <2>1
<1>3. CASE SceneStep(w) \/ PatternStep(w) \/ PatternNull(w)
  <2>1. Shrinks
    BY <1>3 DEF SceneStep, PatternStep, PatternNull, SceneSucceeds, SceneHit, SceneStored,
       SceneFailed, PatternFound, PatternFailed, matcherVars
  <2> QED BY <2>1
<1>4. CASE MarkStep(w) \/ ForgetStep(w) \/ ForgetErrorStep(w)
  <2>1. Shrinks
    BY <1>4 DEF MarkStep, ForgetStep, ForgetErrorStep, MarkUpdated, GetLastOperationResult,
       matcherVars
  <2> QED BY <2>1
<1>5. CASE \/ Take(w) \/ RunRejected(w) \/ RunThrows(w) \/ RunAccepted(w)
           \/ ReportStep(w) \/ ReportErrorStep(w) \/ RespondStep(w)
           \/ StatusStep(w) \/ StatusFreeStep(w) \/ Race(w) \/ MatchedStep(w)
  <2>1. Shrinks
    BY <1>5 DEF Take, RunRejected, RunThrows, RunAccepted, ReportStep, ReportErrorStep,
       RespondStep, StatusStep, StatusFreeStep, Race, MatchedStep, cacheVars, matcherVars
  <2> QED BY <2>1
<1> QED BY <1>1, <1>2, <1>3, <1>4, <1>5 DEF Step
-----------------------------------------------------------------------------
(* One worker answers in the order of the requests.                        *)
OrderInv ==
    /\ \E S : outputs \in Seq(S)
    /\ \A i \in DOMAIN outputs : outputs[i].request.n = i
    /\ \A w \in Workers : pc[w] # "idle" => request[w].n = Len(outputs) + 1

(* What a remIndexes request has unloaded so far stays out of the cache.   *)
Out(w, k) == \A j \in 1 .. k : request[w].indexes[j] \notin cache

DeletesInv ==
    \A w \in Workers : request[w].action = "DELIDXS" =>
        LET done == Len(request[w].indexes) - Len(todo[w]) IN
        /\ pc[w] \in {"idle", "run", "unload", "report", "forget", "respond"}
        /\ pc[w] = "unload" => Out(w, done)
        /\ pc[w] \in {"report", "forget"} => Out(w, done + 1)
        /\ pc[w] = "respond" => Out(w, Len(request[w].indexes))

Asks(w, id) ==
    /\ pc[w] # "idle" /\ request[w].action # "DELIDXS"
    /\ \E k \in DOMAIN request[w].indexes : request[w].indexes[k] = id

LoadedAfter(i, id) ==
    \/ \E j \in DOMAIN outputs :
          /\ outputs[j].request.n > outputs[i].request.n
          /\ outputs[j].request.action # "DELIDXS"
          /\ Names(outputs[j], id)
    \/ \E w \in Workers : Asks(w, id)

Removes(o, id) == o.kind = "response" /\ o.request.action = "DELIDXS" /\ Names(o, id)

RemovedInv ==
    /\ OrderInv /\ DeletesInv
    /\ \A i \in DOMAIN outputs, id \in cache : Removes(outputs[i], id) => LoadedAfter(i, id)

LEMMA OrderKept ==
    ASSUME NEW w, Workers = {w}, RequestsInv, NumbersInv, OrderInv, Step(w)
    PROVE  OrderInv'
<1>0. pc \in [Workers -> Labels] /\ DOMAIN request = Workers /\ w \in Workers
  BY DEF RequestsInv
<1>1. CASE Take(w)
  <2>1. Busy = {} /\ outputs' = outputs /\ request'[w] = Head(workingQueue)
    BY <1>0, <1>1 DEF Take, Busy, At
  <2>2. PICK S, T : workingQueue \in Seq(S) /\ outputs \in Seq(T)
    BY DEF RequestsInv, OrderInv
  <2>3. Popped = Len(outputs) /\ Len(outputs) \in Nat
    BY <2>1, <2>2, FS_EmptySet DEF Popped
  <2>4. 1 \in DOMAIN workingQueue /\ Head(workingQueue) = workingQueue[1]
    BY <1>1, <2>2 DEF Take
  <2>5. request'[w].n = Len(outputs) + 1
    BY <2>1, <2>3, <2>4 DEF NumbersInv
  <2> QED BY <2>1, <2>5 DEF OrderInv
<1>2. CASE Answers(w)
  <2>1. /\ \E T : outputs' \in Seq(T)
        /\ DOMAIN outputs = 1 .. Len(outputs) /\ DOMAIN outputs' = 1 .. Len(outputs) + 1
        /\ Len(outputs) \in Nat
        /\ \A i \in 1 .. Len(outputs) : outputs'[i] = outputs[i]
        /\ outputs'[Len(outputs) + 1].request = request[w]
    BY <1>2, EmitAppends DEF Answers, OrderInv
  <2>2. pc[w] # "idle" /\ pc'[w] = "idle"
    BY <1>0, <1>2 DEF Answers
  <2>3. request[w].n = Len(outputs) + 1
    BY <1>0, <2>2 DEF OrderInv
  <2>4. \A i \in DOMAIN outputs' : i \in 1 .. Len(outputs) \/ i = Len(outputs) + 1
    BY <2>1
  <2>5. \A i \in DOMAIN outputs' : outputs'[i].request.n = i
    BY <2>1, <2>3, <2>4 DEF OrderInv
  <2> QED BY <2>1, <2>2, <2>5 DEF OrderInv
<1>3. CASE StaysWhereItIs
  <2>1. pc'[w] # "idle" <=> pc[w] # "idle"
    BY <1>0, <1>3 DEF StaysWhereItIs, Busy
  <2> QED BY <1>3, <2>1 DEF StaysWhereItIs, OrderInv
<1> QED BY <1>0, <1>1, <1>2, <1>3, StepKinds

LEMMA DeletesKept ==
    ASSUME NEW w, Workers = {w}, RequestsInv, ListsInv, DeletesInv, Step(w)
    PROVE  DeletesInv'
<1> DEFINE done == Len(request[w].indexes) - Len(todo[w])
<1>0. /\ pc \in [Workers -> Labels] /\ todo \in [Workers -> Seq(Trainers)]
      /\ DOMAIN request = Workers /\ w \in Workers
      /\ request[w].indexes \in Seq(Trainers) /\ todo[w] \in Seq(Trainers)
      /\ Len(todo[w]) \in Nat /\ Len(request[w].indexes) \in Nat
  BY DEF RequestsInv, WellFormed
<1>1. CASE Take(w)
  BY <1>0, <1>1 DEF Take, Goto, DeletesInv
<1>2. ASSUME ~ Take(w) PROVE request' = request
  BY <1>2 DEF Step, RunRejected, RunThrows, RunAccepted, LoadStep, UnloadStep,
     UnloadOldStep, ReloadStep, MarkStep, ReportStep, ForgetStep, ReportErrorStep,
     ForgetErrorStep, RespondStep, StatusStep, StatusFreeStep, Race, SceneStep,
     PatternStep, PatternNull, MatchedStep, localVars
<1>3. CASE ~ Take(w) /\ request[w].action # "DELIDXS"
  BY <1>0, <1>2, <1>3 DEF DeletesInv
<1>4. CASE ~ Take(w) /\ request[w].action = "DELIDXS"
  <2>1. pc[w] \in {"idle", "run", "unload", "report", "forget", "respond"}
    BY <1>0, <1>4 DEF DeletesInv
  <2>2. pc[w] # "load" /\ pc[w] # "reload"
    BY <2>1
  <2>3. request' = request /\ cache' \subseteq cache
    BY <1>0, <1>2, <1>4, <2>2, CacheGrows
  <2>4. ASSUME UNCHANGED <<pc, todo>> PROVE DeletesInv'
    BY <1>0, <2>3, <2>4 DEF DeletesInv, Out
  <2>5. ASSUME pc'[w] = "idle" PROVE DeletesInv'
    BY <1>0, <2>5 DEF DeletesInv
  <2>6. CASE RunAccepted(w)
    <3>1. todo[w] = request[w].indexes /\ todo' = todo /\ pc'[w] = "unload"
      BY <1>0, <1>4, <2>6 DEF RunAccepted, Goto, FirstStep, RequestsInv, At
    <3>2. Len(request[w].indexes) - Len(todo[w]) = 0
      BY <1>0, <3>1
    <3>3. \A j \in 1 .. 0 : FALSE
      OBVIOUS
    <3> QED BY <1>0, <2>3, <3>1, <3>2, <3>3 DEF DeletesInv, Out
  <2>7. CASE UnloadStep(w)
    <3>1. todo' = todo /\ pc[w] = "unload" /\ pc'[w] = "report"
      BY <1>0, <2>7 DEF UnloadStep, Goto, At, localVars
    <3>2. Index(w) \notin cache'
      BY <2>7 DEF UnloadStep, UnloadOrNot, UnloadMatcher, cacheVars, matcherVars
    <3>3. Out(w, done)
      BY <1>0, <1>4, <3>1 DEF DeletesInv
    <3>4. todo[w] # <<>>
      BY <1>0, <3>1 DEF RequestsInv, OnIndex
    <3>5. Index(w) = request[w].indexes[done + 1] /\ done \in Nat
      BY <1>0, <3>4, HeadOfSuffix DEF ListsInv, Index
    <3>6. \A j \in 1 .. done + 1 : request[w].indexes[j] \notin cache'
      <4>1. \A j \in 1 .. done + 1 : j \in 1 .. done \/ j = done + 1
        BY <3>5
      <4> QED BY <2>3, <3>2, <3>3, <3>5, <4>1 DEF Out
    <3> QED BY <1>0, <2>3, <3>1, <3>6 DEF DeletesInv, Out
  <2>8. CASE ReportStep(w)
    <3>1. todo' = todo /\ pc[w] = "report" /\ pc'[w] = "forget"
      BY <1>0, <2>8 DEF ReportStep, Goto, At
    <3> QED BY <1>0, <1>4, <2>3, <3>1 DEF DeletesInv, Out
  <2>9. CASE ForgetStep(w)
    <3>1. pc[w] = "forget" /\ todo'[w] = Tail(todo[w]) /\ todo[w] # <<>>
      BY <1>0, <2>9 DEF ForgetStep, At, RequestsInv, OnIndex
    <3>2. Len(Tail(todo[w])) = Len(todo[w]) - 1 /\ Len(todo[w]) > 0
      BY <1>0, <3>1
    <3>3. Out(w, done + 1)
      BY <1>0, <1>4, <3>1 DEF DeletesInv
    <3>4. CASE Len(todo[w]) > 1
      <4>1. pc'[w] = "unload"
        BY <1>0, <1>4, <2>9, <3>4 DEF ForgetStep, Goto, FirstStep
      <4>2. Len(request[w].indexes) - Len(Tail(todo[w])) = done + 1
        BY <1>0, <3>1, TailIsSuffix DEF ListsInv
      <4> QED BY <1>0, <2>3, <3>1, <3>3, <4>1, <4>2 DEF DeletesInv, Out
    <3>5. CASE ~ (Len(todo[w]) > 1)
      <4>1. pc'[w] = "respond"
        BY <1>0, <2>9, <3>5 DEF ForgetStep, Goto
      <4>2. done + 1 = Len(request[w].indexes)
        BY <1>0, <3>2, <3>5
      <4> QED BY <1>0, <2>3, <3>3, <4>1, <4>2 DEF DeletesInv, Out
    <3> QED BY <3>4, <3>5
  <2>10. CASE RunRejected(w) \/ RespondStep(w)
    BY <1>0, <2>5, <2>10 DEF RunRejected, RespondStep, Goto
  <2>11. CASE RunThrows(w) \/ Race(w)
    BY <2>4, <2>11 DEF RunThrows, Race
  <2>12. ~ (LoadStep(w) \/ UnloadOldStep(w) \/ ReloadStep(w) \/ MarkStep(w))
    BY <2>1 DEF LoadStep, UnloadOldStep, ReloadStep, MarkStep, At
  <2>13. ~ (ReportErrorStep(w) \/ ForgetErrorStep(w) \/ StatusStep(w) \/ StatusFreeStep(w))
    BY <2>1 DEF ReportErrorStep, ForgetErrorStep, StatusStep, StatusFreeStep, At
  <2>14. ~ (SceneStep(w) \/ PatternStep(w) \/ PatternNull(w) \/ MatchedStep(w))
    BY <2>1 DEF SceneStep, PatternStep, PatternNull, MatchedStep, At
  <2> QED BY <1>4, <2>6, <2>7, <2>8, <2>9, <2>10, <2>11, <2>12, <2>13, <2>14 DEF Step
<1> QED BY <1>1, <1>3, <1>4

LEMMA RemovedKept ==
    ASSUME NEW w, Workers = {w}, RequestsInv, ListsInv, NumbersInv, RemovedInv, Step(w)
    PROVE  RemovedInv'
<1>1. OrderInv' /\ DeletesInv'
  BY OrderKept, DeletesKept DEF RemovedInv
<1>2. /\ pc \in [Workers -> Labels] /\ DOMAIN request = Workers /\ w \in Workers
      /\ todo \in [Workers -> Seq(Trainers)] /\ OrderInv
  BY DEF RequestsInv, RemovedInv
<1>3. SUFFICES ASSUME NEW i \in DOMAIN outputs', NEW id \in cache', Removes(outputs'[i], id)
               PROVE  LoadedAfter(i, id)'
  BY <1>1 DEF RemovedInv
<1>4. CASE Take(w)
  <2>1. UNCHANGED <<cache, outputs>> /\ pc[w] = "idle"
    BY <1>4 DEF Take, At, cacheVars, matcherVars
  <2>2. LoadedAfter(i, id) /\ ~ Asks(w, id)
    BY <1>3, <2>1 DEF RemovedInv, Asks
  <2> QED BY <1>2, <2>1, <2>2 DEF LoadedAfter
<1>5. CASE Answers(w)
  <2>1. pc[w] # "idle" /\ pc[w] \notin {"load", "reload"} /\ cache' \subseteq cache
    <3>1. PICK kind, reports : Emit(w, kind, reports)
      BY <1>5 DEF Answers
    <3>2. Len(outputs') # Len(outputs)
      BY <1>2, <3>1, EmitAppends DEF OrderInv
    <3>3. outputs' # outputs
      BY <3>2
    <3>4. ~ (LoadStep(w) \/ ReloadStep(w))
      BY <3>3 DEF LoadStep, ReloadStep, localVars
    <3>5. ~ (Race(w) \/ RunThrows(w) \/ PatternNull(w))
      BY <3>3 DEF Race, RunThrows, PatternNull
    <3>6. pc[w] \notin {"load", "reload"}
      BY <3>4, <3>5 DEF Step, Take, RunRejected, RunAccepted, UnloadStep, UnloadOldStep,
         MarkStep, ReportStep, ForgetStep, ReportErrorStep, ForgetErrorStep, RespondStep,
         StatusStep, StatusFreeStep, SceneStep, PatternStep, MatchedStep, At
    <3> QED BY <1>2, <1>5, <3>6, CacheGrows DEF Answers
  <2>2. PICK kind, reports :
          Emit(w, kind, reports) /\ (kind = "response" => pc[w] = "respond")
    BY <1>5 DEF Answers
  <2>3. /\ DOMAIN outputs = 1 .. Len(outputs) /\ DOMAIN outputs' = 1 .. Len(outputs) + 1
        /\ Len(outputs) \in Nat
        /\ \A j \in 1 .. Len(outputs) : outputs'[j] = outputs[j]
        /\ outputs'[Len(outputs) + 1].kind = kind
        /\ outputs'[Len(outputs) + 1].request = request[w]
    BY <1>2, <2>2, EmitAppends DEF OrderInv
  <2>4. \A j \in DOMAIN outputs' : outputs'[j].request.n = j
    BY <1>1 DEF OrderInv
  <2>5. CASE i \in 1 .. Len(outputs)
    <3>1. outputs'[i] = outputs[i] /\ LoadedAfter(i, id)
      BY <1>3, <2>1, <2>3, <2>5 DEF RemovedInv
    <3>2. ASSUME NEW j \in DOMAIN outputs, outputs[j].request.n > outputs[i].request.n,
                 outputs[j].request.action # "DELIDXS", Names(outputs[j], id)
          PROVE  LoadedAfter(i, id)'
      <4>1. j \in DOMAIN outputs' /\ outputs'[j] = outputs[j]
        BY <2>3
      <4> QED BY <3>1, <3>2, <4>1 DEF LoadedAfter, Names
    <3>3. ASSUME Asks(w, id) PROVE LoadedAfter(i, id)'
      <4> DEFINE j == Len(outputs) + 1
      <4>1. j \in DOMAIN outputs' /\ outputs'[j].request = request[w] /\ j > i
        BY <2>3, <2>5
      <4>2. outputs'[j].request.n > outputs'[i].request.n
        BY <2>3, <2>4, <2>5, <4>1
      <4> HIDE DEF j
      <4> QED BY <3>3, <4>1, <4>2 DEF LoadedAfter, Names, Asks
    <3> QED BY <1>2, <3>1, <3>2, <3>3 DEF LoadedAfter
  <2>6. CASE i = Len(outputs) + 1
    <3>1. /\ pc[w] = "respond" /\ request[w].action = "DELIDXS"
          /\ \E k \in DOMAIN request[w].indexes : request[w].indexes[k] = id
      BY <1>3, <2>2, <2>3, <2>6 DEF Removes, Names
    <3>2. Out(w, Len(request[w].indexes))
      BY <1>2, <3>1 DEF RemovedInv, DeletesInv
    <3>3. request[w].indexes \in Seq(Trainers)
      BY <1>2 DEF RequestsInv, WellFormed
    <3>4. id \notin cache
      BY <3>1, <3>2, <3>3 DEF Out
    <3> QED BY <1>3, <2>1, <3>4
  <2> QED BY <2>3, <2>5, <2>6
<1>6. CASE StaysWhereItIs
  <2>1. UNCHANGED <<request, outputs>> /\ \A x : Asks(w, x)' = Asks(w, x)
    BY <1>2, <1>6 DEF StaysWhereItIs, Busy, Asks
  <2>2. CASE id \in cache
    <3>1. LoadedAfter(i, id)
      BY <1>3, <2>1, <2>2 DEF RemovedInv
    <3> QED BY <1>2, <2>1, <3>1 DEF LoadedAfter
  <2>3. CASE id \notin cache
    <3>1. pc[w] \in {"load", "reload"} /\ id = Index(w)
      BY <1>2, <1>3, <2>3, CacheGrows
    <3>2. todo[w] # <<>> /\ request[w].action # "DELIDXS" /\ pc[w] # "idle"
      BY <1>2, <3>1 DEF RequestsInv, OnIndex, RemovedInv, DeletesInv
    <3>3. \E k \in DOMAIN request[w].indexes : request[w].indexes[k] = id
      <4>1. /\ todo[w] \in Seq(Trainers) /\ request[w].indexes \in Seq(Trainers)
            /\ Suffix(todo[w], request[w].indexes)
        BY <1>2 DEF RequestsInv, WellFormed, ListsInv
      <4> QED BY <3>1, <3>2, <4>1, HeadOfSuffix DEF Index
    <3>4. Asks(w, id)
      BY <3>2, <3>3 DEF Asks
    <3> QED BY <1>2, <2>1, <3>4 DEF LoadedAfter
  <2> QED BY <2>2, <2>3
<1> QED BY <1>2, <1>4, <1>5, <1>6, StepKinds

(* With one worker a trainer that a remIndexes request named is out of the *)
(* cache once all is served, unless a later request loaded it again.       *)
THEOREM RemovedIsOut ==
    ASSUME NEW w, Workers = {w}
    PROVE  Spec => []RemovedStaysOut
<1> DEFINE Inv == RequestsInv /\ ListsInv /\ NumbersInv /\ RemovedInv
<1>1. Init => Inv
  <2> SUFFICES ASSUME Init PROVE RemovedInv
    BY InitRequests, InitLists, InitNumbers
  <2>1. outputs = <<>> /\ outputs \in Seq({})
    BY DEF Init
  <2> QED BY <2>1 DEF Init, RemovedInv, OrderInv, DeletesInv, NoRequest
<1>2. Inv /\ [Next]_vars => Inv'
  <2> SUFFICES ASSUME Inv, [Next]_vars PROVE NumbersInv' /\ RemovedInv'
    BY RequestsInductive, ListsKept
  <2>1. CASE Next
    BY <2>1, NumbersKept, RemovedKept DEF Next
  <2>2. CASE UNCHANGED vars
    BY <2>2, NumbersKept
       DEF vars, workerVars, cacheVars, matcherVars, RemovedInv, OrderInv, DeletesInv, Out,
           Removes, LoadedAfter, Asks, Names
  <2> QED BY <2>1, <2>2
<1>3. Inv => RemovedStaysOut
  <2> SUFFICES ASSUME Inv, Quiescent PROVE RemovedStaysOut
    BY DEF RemovedStaysOut
  <2>1. \A v \in Workers : pc[v] = "idle"
    BY DEF Quiescent, Busy
  <2> QED BY <2>1 DEF RemovedInv, RemovedStaysOut, Removes, LoadedAfter, Asks
<1> QED BY <1>1, <1>2, <1>3, PTL DEF Spec
-----------------------------------------------------------------------------
(***************************************************************************)
(* Why every request ends (AllServed, but for the fairness).  A worker     *)
(* that runs comes nearer to its answer with each step but the load of a   *)
(* pattern, and that adds one to those of a trainer: a request may load a  *)
(* pattern again only because another's step dropped the trainer, and      *)
(* those are numbered.                                                     *)
(***************************************************************************)
Rank ==
    [run |-> 9, scene |-> 8, unloadOld |-> 7, reload |-> 6, mark |-> 5, load |-> 5,
     unload |-> 5, report |-> 4, forget |-> 3, match |-> 3, status |-> 3,
     statusFree |-> 2, reportError |-> 2, forgetError |-> 1, respond |-> 1, idle |-> 0]

StepsLeft(w) == IF pc[w] = "idle" THEN 0 ELSE 10 * Len(todo[w]) + Rank[pc[w]]

Nearer(w) ==
    /\ StepsLeft(w)' \in Nat /\ StepsLeft(w)' < StepsLeft(w)
    /\ \A v \in Workers \ {w} : StepsLeft(v)' = StepsLeft(v)

OnePatternMore ==
    \E id \in Trainers, pidx \in Patterns :
        /\ pidx \notin PatternsOf(id) /\ PatternsOf(id)' = PatternsOf(id) \cup {pidx}
        /\ \A other \in Trainers \ {id} : PatternsOf(other)' = PatternsOf(other)

ServingProgresses ==
    [][/\ running
       /\ \/ ~ running'
          \/ Len(workingQueue') \in Nat /\ Len(workingQueue') < Len(workingQueue)
          \/ workingQueue' = workingQueue /\ \E w \in Workers : Nearer(w)
          \/ /\ UNCHANGED <<workingQueue, pc, todo>>
             /\ OnePatternMore]_vars

LEMMA StepProgresses ==
    ASSUME RequestsInv, NEW w \in Workers, Step(w)
    PROVE  /\ running
           /\ \/ ~ running'
              \/ Len(workingQueue') \in Nat /\ Len(workingQueue') < Len(workingQueue)
              \/ workingQueue' = workingQueue /\ \E v \in Workers : Nearer(v)
              \/ /\ UNCHANGED <<workingQueue, pc, todo>>
                 /\ OnePatternMore
<1> USE DEF At, Goto
<1>0. /\ pc \in [Workers -> Labels] /\ todo \in [Workers -> Seq(Trainers)]
      /\ Len(todo[w]) \in Nat
  BY DEF RequestsInv
<1> DEFINE To(from, label) ==
             /\ pc[w] = from /\ pc' = [pc EXCEPT ![w] = label]
             /\ UNCHANGED <<workingQueue, todo>>
(* A step to a label of lower rank, with the same list.                    *)
<1>1. ASSUME NEW from \in Labels, NEW label \in Labels, To(from, label),
             from # "idle", label = "idle" \/ Rank[label] < Rank[from]
      PROVE  workingQueue' = workingQueue /\ Nearer(w)
  <2>1. pc'[w] = label /\ todo'[w] = todo[w]
        /\ \A v \in Workers \ {w} : pc'[v] = pc[v] /\ todo'[v] = todo[v]
    BY <1>0, <1>1
  <2>2. Rank[label] \in Nat /\ Rank[from] \in 1 .. 9
    BY <1>1 DEF Rank, Labels
  <2>3. StepsLeft(w) = 10 * Len(todo[w]) + Rank[from]
    BY <1>1 DEF StepsLeft
  <2>4. StepsLeft(w)' = IF label = "idle" THEN 0 ELSE 10 * Len(todo[w]) + Rank[label]
    BY <2>1 DEF StepsLeft
  <2>5. \A v \in Workers \ {w} : StepsLeft(v)' = StepsLeft(v)
    BY <2>1 DEF StepsLeft
  <2>6. StepsLeft(w)' \in Nat /\ StepsLeft(w)' < StepsLeft(w)
    BY <1>0, <1>1, <2>2, <2>3, <2>4
  <2> QED BY <1>1, <2>5, <2>6 DEF Nearer
(* A step to the next trainer of the list.                                 *)
<1>2. ASSUME NEW from \in {"forget", "match"}, pc[w] = from,
             NEW label \in Labels, pc' = [pc EXCEPT ![w] = label],
             todo' = [todo EXCEPT ![w] = Tail(@)], workingQueue' = workingQueue
      PROVE  workingQueue' = workingQueue /\ Nearer(w)
  <2>1. todo[w] # <<>>
    BY <1>2 DEF RequestsInv, OnIndex
  <2>2. pc'[w] = label /\ todo'[w] = Tail(todo[w])
        /\ \A v \in Workers \ {w} : pc'[v] = pc[v] /\ todo'[v] = todo[v]
    BY <1>0, <1>2
  <2>3. Len(Tail(todo[w])) = Len(todo[w]) - 1 /\ Len(todo[w]) >= 1
    BY <1>0, <2>1
  <2>4. Rank[label] \in 0 .. 9 /\ Rank[from] = 3 /\ from # "idle"
    BY <1>2 DEF Rank, Labels
  <2>5. StepsLeft(w) = 10 * Len(todo[w]) + 3
    BY <1>2, <2>4 DEF StepsLeft
  <2>6. StepsLeft(w)' = IF label = "idle" THEN 0 ELSE 10 * (Len(todo[w]) - 1) + Rank[label]
    BY <2>2, <2>3 DEF StepsLeft
  <2>7. \A v \in Workers \ {w} : StepsLeft(v)' = StepsLeft(v)
    BY <2>2 DEF StepsLeft
  <2>8. StepsLeft(w)' \in Nat /\ StepsLeft(w)' < StepsLeft(w)
    BY <1>0, <2>3, <2>4, <2>5, <2>6
  <2> QED BY <1>2, <2>7, <2>8 DEF Nearer
<1>r. running
  BY DEF Step, Take, RunRejected, RunThrows, RunAccepted, LoadStep, UnloadStep,
     UnloadOldStep, ReloadStep, MarkStep, ReportStep, ForgetStep, ReportErrorStep,
     ForgetErrorStep, RespondStep, StatusStep, StatusFreeStep, Race, SceneStep,
     PatternStep, PatternNull, MatchedStep
<1>3. CASE Take(w)
  <2>1. PICK S : workingQueue \in Seq(S)
    BY DEF RequestsInv
  <2>2. workingQueue # <<>> /\ workingQueue' = Tail(workingQueue)
    BY <1>3 DEF Take
  <2> QED BY <1>r, <2>1, <2>2
<1>4. CASE RunThrows(w) \/ Race(w) \/ PatternNull(w)
  BY <1>r, <1>4 DEF RunThrows, Race, PatternNull
<1>5. CASE RunAccepted(w)
  <2>1. FirstStep[request[w].action] \in {"scene", "load", "unload", "unloadOld", "status"}
    BY <1>5 DEF RunAccepted, RequestsInv, WellFormed, Actions, FirstStep
  <2>2. To("run", FirstStep[request[w].action])
    BY <1>5 DEF RunAccepted
  <2>3. Rank[FirstStep[request[w].action]] < Rank["run"]
    BY <2>1 DEF Rank
  <2> QED BY <1>r, <1>1, <2>1, <2>2, <2>3 DEF Labels
<1>6. ASSUME NEW from \in Labels, NEW label \in Labels, To(from, label),
             from # "idle", label = "idle" \/ Rank[label] < Rank[from]
      PROVE  workingQueue' = workingQueue /\ \E v \in Workers : Nearer(v)
  BY <1>1, <1>6
<1> DEFINE Down == {<<"run", "idle">>, <<"load", "match">>, <<"load", "report">>,
                    <<"load", "reportError">>, <<"unload", "report">>,
                    <<"unloadOld", "reload">>, <<"reload", "mark">>,
                    <<"reload", "reportError">>, <<"mark", "report">>,
                    <<"report", "forget">>, <<"reportError", "forgetError">>,
                    <<"forgetError", "idle">>, <<"respond", "idle">>,
                    <<"status", "statusFree">>, <<"statusFree", "respond">>,
                    <<"scene", "load">>, <<"scene", "reportError">>,
                    <<"match", "reportError">>}
<1>7. ASSUME NEW d \in Down, To(d[1], d[2])
      PROVE  workingQueue' = workingQueue /\ \E v \in Workers : Nearer(v)
  <2>1. d[1] \in Labels /\ d[2] \in Labels /\ d[1] # "idle"
    BY <1>7 DEF Labels
  <2>2. d[2] = "idle" \/ Rank[d[2]] < Rank[d[1]]
    BY <1>7 DEF Rank
  <2> QED BY <1>6, <1>7, <2>1, <2>2
<1>8. ASSUME \/ RunRejected(w) \/ LoadStep(w) \/ UnloadStep(w) \/ UnloadOldStep(w)
             \/ ReloadStep(w) \/ MarkStep(w) \/ ReportStep(w) \/ ReportErrorStep(w)
             \/ ForgetErrorStep(w) \/ RespondStep(w) \/ StatusStep(w)
             \/ StatusFreeStep(w) \/ SceneStep(w)
      PROVE  \E d \in Down : To(d[1], d[2])
  <2>1. ASSUME NEW from, NEW label, To(from, label), <<from, label>> \in Down
        PROVE  \E d \in Down : To(d[1], d[2])
    BY <2>1
  <2> HIDE DEF Down
  <2>2. CASE RunRejected(w)
    <3>1. To("run", "idle") BY <2>2 DEF RunRejected
    <3> QED BY <2>1, <3>1 DEF Down
  <2>3. CASE LoadStep(w)
    <3>1. To("load", "match") \/ To("load", "report") \/ To("load", "reportError")
      BY <2>3 DEF LoadStep, localVars
    <3> QED BY <2>1, <3>1 DEF Down
  <2>4. CASE UnloadStep(w)
    <3>1. To("unload", "report") BY <2>4 DEF UnloadStep, localVars
    <3> QED BY <2>1, <3>1 DEF Down
  <2>5. CASE UnloadOldStep(w)
    <3>1. To("unloadOld", "reload") BY <2>5 DEF UnloadOldStep, localVars
    <3> QED BY <2>1, <3>1 DEF Down
  <2>6. CASE ReloadStep(w)
    <3>1. To("reload", "mark") \/ To("reload", "reportError")
      BY <2>6 DEF ReloadStep, localVars
    <3> QED BY <2>1, <3>1 DEF Down
  <2>7. CASE MarkStep(w)
    <3>1. To("mark", "report") BY <2>7 DEF MarkStep, localVars
    <3> QED BY <2>1, <3>1 DEF Down
  <2>8. CASE ReportStep(w)
    <3>1. To("report", "forget") BY <2>8 DEF ReportStep
    <3> QED BY <2>1, <3>1 DEF Down
  <2>9. CASE ReportErrorStep(w)
    <3>1. To("reportError", "forgetError") BY <2>9 DEF ReportErrorStep
    <3> QED BY <2>1, <3>1 DEF Down
  <2>10. CASE ForgetErrorStep(w)
    <3>1. To("forgetError", "idle") BY <2>10 DEF ForgetErrorStep
    <3> QED BY <2>1, <3>1 DEF Down
  <2>11. CASE RespondStep(w)
    <3>1. To("respond", "idle") BY <2>11 DEF RespondStep
    <3> QED BY <2>1, <3>1 DEF Down
  <2>12. CASE StatusStep(w)
    <3>1. To("status", "statusFree") BY <2>12 DEF StatusStep
    <3> QED BY <2>1, <3>1 DEF Down
  <2>13. CASE StatusFreeStep(w)
    <3>1. To("statusFree", "respond") BY <2>13 DEF StatusFreeStep
    <3> QED BY <2>1, <3>1 DEF Down
  <2>14. CASE SceneStep(w)
    <3>1. To("scene", "load") \/ To("scene", "reportError")
      BY <2>14 DEF SceneStep, localVars
    <3> QED BY <2>1, <3>1 DEF Down
  <2> QED BY <1>8, <2>2, <2>3, <2>4, <2>5, <2>6, <2>7, <2>8, <2>9, <2>10, <2>11, <2>12,
             <2>13, <2>14
<1>9. CASE ForgetStep(w)
  <2>1. request[w].action \in {"MATCH", "ADDIDXS", "DELIDXS", "UPDIDXS"}
    BY <1>9 DEF ForgetStep, RequestsInv, OnIndex, WellFormed, Actions
  <2>2. FirstStep[request[w].action] \in Labels /\ "respond" \in Labels
    BY <2>1 DEF FirstStep, Labels
  <2>3. \E label \in Labels : pc' = [pc EXCEPT ![w] = label]
    BY <1>9, <2>2 DEF ForgetStep
  <2> QED BY <1>r, <1>2, <1>9, <2>3 DEF ForgetStep
<1>10. CASE MatchedStep(w)
  <2>1. \E label \in Labels : pc' = [pc EXCEPT ![w] = label]
    BY <1>10 DEF MatchedStep, Labels
  <2> QED BY <1>r, <1>2, <1>10, <2>1 DEF MatchedStep
<1>11. CASE PatternStep(w)
  <2>1. PICK pidx \in Patterns :
           \/ /\ PatternFound(Index(w), pidx) /\ pidx \notin PatternsOf(Index(w))
              /\ UNCHANGED pc
           \/ PatternFailed(Index(w), pidx) /\ pc' = [pc EXCEPT ![w] = "reportError"]
    BY <1>11 DEF PatternStep
  <2>2. pc[w] = "match" /\ UNCHANGED <<workingQueue, todo>> /\ Index(w) \in Trainers
    BY <1>0, <1>11 DEF PatternStep, localVars, RequestsInv, OnIndex, Index
  <2>3. CASE pc' = [pc EXCEPT ![w] = "reportError"]
    <3>1. <<"match", "reportError">> \in Down /\ To("match", "reportError")
      BY <2>2, <2>3
    <3> HIDE DEF Down
    <3> QED BY <1>r, <1>7, <3>1
  <2>4. CASE PatternFound(Index(w), pidx) /\ pidx \notin PatternsOf(Index(w)) /\ UNCHANGED pc
    <3>1. PICK id \in Trainers : id = Index(w)
      BY <2>2
    <3>2. pidx \notin PatternsOf(id) /\ pcache' = With(pcache, id, PatternsOf(id) \cup {pidx})
      BY <2>4, <3>1 DEF PatternFound
    <3>3. PatternsOf(id)' = PatternsOf(id) \cup {pidx}
          /\ \A other \in Trainers \ {id} : PatternsOf(other)' = PatternsOf(other)
      BY <3>2 DEF With, PatternsOf
    <3> QED BY <1>r, <2>2, <2>4, <3>2, <3>3 DEF OnePatternMore
  <2> QED BY <2>1, <2>3, <2>4
<1> HIDE DEF Down
<1> QED
  BY <1>r, <1>3, <1>4, <1>5, <1>7, <1>8, <1>9, <1>10, <1>11 DEF Step

(* No request keeps a worker for ever and no work comes back: each step    *)
(* shortens the queue, brings the request of one worker nearer to its      *)
(* answer, or loads one pattern more (PatternMatcher::run, findPatterns).  *)
(* With finitely many workers, trainers and patterns this is AllServed but *)
(* for the fairness.                                                       *)
THEOREM WorkersProgress == Spec => ServingProgresses
<1>1. RequestsInv /\ [Next]_vars =>
         [/\ running
          /\ \/ ~ running'
             \/ Len(workingQueue') \in Nat /\ Len(workingQueue') < Len(workingQueue)
             \/ workingQueue' = workingQueue /\ \E w \in Workers : Nearer(w)
             \/ /\ UNCHANGED <<workingQueue, pc, todo>>
                /\ OnePatternMore]_vars
  BY StepProgresses DEF Next
<1> QED BY <1>1, InitRequests, RequestsInductive, PTL DEF Spec, ServingProgresses
=============================================================================
