-------------------------- MODULE HTTPServerProofs --------------------------
(***************************************************************************)
(* In HTTP mode the threads of the server still do what Service promises,  *)
(* no id leaves the range of an int, an error reaches one client and the   *)
(* map wakes its getter, for any number of workers and any posts.  While   *)
(* the counter of the ids has not come round, every client is sent its own *)
(* answer, one request is on its way at a time and no request is stranded; *)
(* and nobody waits for ever if the listener and the server agree on what  *)
(* a stop is.                                                              *)
(***************************************************************************)
EXTENDS HTTPServer, RequestServerProofs

-----------------------------------------------------------------------------
(* The map by itself (BlockingMap).  A single getter never misses a post,  *)
(* whatever is put under whatever keys in between.                         *)

(* The fields hold what their declarations say.                            *)
THEOREM MapTypeCorrect == MapSpec => []MapTypeOK
<1>1. MapInit => MapTypeOK
  BY DEF MapInit, MapTypeOK
<1>2. MapTypeOK /\ [MapNext]_mapVars => MapTypeOK'
  <2> SUFFICES ASSUME MapTypeOK, [MapNext]_mapVars PROVE MapTypeOK'
    OBVIOUS
  <2> USE DEF MapTypeOK
  <2>1. ASSUME NEW k \in Keys \cup {overridingKey}, NEW v \in Values, Put(k, v)
        PROVE  MapTypeOK'
    BY <2>1 DEF Put, Stored
  <2>2. ASSUME NEW g \in Getters, NEW k \in Keys, Get(g, k) PROVE MapTypeOK'
    BY <2>2 DEF Get
  <2>3. ASSUME NEW g \in Getters, Found(g) PROVE MapTypeOK'
    BY <2>3 DEF Found, Return
  <2>4. ASSUME NEW g \in Getters, FoundOverriding(g) PROVE MapTypeOK'
    BY <2>4 DEF FoundOverriding, Return, Restrict
  <2>5. ASSUME NEW g \in Getters, NotFound(g) PROVE MapTypeOK'
    BY <2>5 DEF NotFound
  <2>6. ASSUME NEW g \in Getters, Wake(g) PROVE MapTypeOK'
    BY <2>6 DEF Wake
  <2>7. CASE UNCHANGED mapVars
    BY <2>7 DEF mapVars
  <2> QED
    BY <2>1, <2>2, <2>3, <2>4, <2>5, <2>6, <2>7 DEF MapNext, GetStep
<1> QED BY <1>1, <1>2, PTL DEF MapSpec

(* With one getter, a waiting getter with something for it in the map has  *)
(* a post to take (BlockingMap::get, retrieveValue).                       *)
THEOREM OneGetterWakes ==
    ASSUME \A g, h \in Getters : g = h
    PROVE  MapSpec => []NoLostWakeup
<1>1. MapInit => NoLostWakeup
  BY DEF MapInit, NoLostWakeup
<1>2. MapTypeOK /\ NoLostWakeup /\ [MapNext]_mapVars => NoLostWakeup'
  <2> SUFFICES ASSUME MapTypeOK, NoLostWakeup, [MapNext]_mapVars
               PROVE  NoLostWakeup'
    OBVIOUS
  <2> USE DEF NoLostWakeup, Ready, MapTypeOK
  <2>1. ASSUME NEW k \in Keys \cup {overridingKey}, NEW v \in Values, Put(k, v)
        PROVE  NoLostWakeup'
    BY <2>1 DEF Put
  <2>2. ASSUME NEW g \in Getters, NEW k \in Keys, Get(g, k) PROVE NoLostWakeup'
    BY <2>2 DEF Get
  <2>3. ASSUME NEW g \in Getters, Found(g) \/ FoundOverriding(g) \/ Wake(g)
        PROVE  NoLostWakeup'
    <3>1. getter'[g] # "waiting"
      BY <2>3 DEF Found, FoundOverriding, Wake, Return
    <3> QED BY <3>1
  <2>4. ASSUME NEW g \in Getters, NotFound(g) PROVE NoLostWakeup'
    BY <2>4 DEF NotFound
  <2>5. CASE UNCHANGED mapVars
    BY <2>5 DEF mapVars
  <2> QED BY <2>1, <2>2, <2>3, <2>4, <2>5 DEF MapNext, GetStep
<1> QED BY <1>1, <1>2, MapTypeCorrect, PTL DEF MapSpec

-----------------------------------------------------------------------------------------------------------------------------------------------
(* The listener *)

LEMMA IdsFacts ==
    /\ 0 \in Ids /\ Poller \in Getters
    /\ \A id \in Ids : id \in Nat /\ id # overridingKey
<1>1. IntMax \in Nat /\ overridingKey \notin Nat /\ Getters = {Poller}
  BY PostsAssumption
<1> QED BY <1>1 DEF Ids

LEMMA NextIDIsID == lastID \in Ids => NextID \in Ids /\ NextID # 0
<1>1. IntMax \in Nat \ {0}
  BY PostsAssumption
<1> QED BY <1>1 DEF Ids, NextID, Inc

LEMMA InitHTTP == Init => HTTPTypeOK
BY IdsFacts DEF Init, HTTPTypeOK

LEMMA StepHTTP == HTTPTypeOK /\ [Next]_vars => HTTPTypeOK'
<1> SUFFICES ASSUME HTTPTypeOK, [Next]_vars PROVE HTTPTypeOK'
  OBVIOUS
<1> USE DEF HTTPTypeOK
<1>1. ASSUME NEW p \in Posts, Handle(p) PROVE HTTPTypeOK'
  <2>1. CASE p.stop
    BY <1>1, <2>1, IdsFacts DEF Handle, From
  <2>2. CASE ~ p.stop
    BY <1>1, <2>2, NextIDIsID DEF Handle, From
  <2> QED BY <2>1, <2>2
<1>2. CASE Push \/ Check \/ Ask
  BY <1>2 DEF Push, Check, Ask, From, handledVars
<1>3. CASE Send
  BY <1>3 DEF Send, From
<1>4. ASSUME UNCHANGED httpVars PROVE HTTPTypeOK'
  BY <1>4 DEF httpVars
<1>5. CASE StopListening \/ JoinListener
  BY <1>5 DEF StopListening, JoinListener
<1> QED
  BY <1>1, <1>2, <1>3, <1>4, <1>5
     DEF Next, HandlerStep, vars, InGet, MainStep, WorkersStep, WriterStep, Respond

(* The fields of the listener hold what their declarations say: no id      *)
(* leaves the range of an int, and none but a stop's is 0.                 *)
THEOREM HTTPTypeCorrect == Spec => []HTTPTypeOK
BY InitHTTP, StepHTTP, PTL DEF Spec

-----------------------------------------------------------------------------
(* To the threads of the server a push of the listener is a message that   *)
(* arrives, and every other step of it is none.                            *)
LEMMA StepServer == HTTPTypeOK /\ [Next]_vars => [ServerNext]_serverVars
<1> SUFFICES ASSUME HTTPTypeOK, [Next]_vars PROVE [ServerNext]_serverVars
  OBVIOUS
<1>1. ASSUME Push PROVE ServerNext
  <2>1. handler = "push" /\ Arrive(Message(post, reqID))
    BY <1>1 DEF Push, From
  <2>2. Message(post, reqID) \in Messages
    BY <2>1, PostsAssumption DEF HTTPTypeOK
  <2> QED BY <2>1, <2>2 DEF ServerNext
<1>2. ASSUME Check \/ Ask \/ InGet \/ Send \/ \E p \in Posts : Handle(p)
      PROVE  UNCHANGED serverVars
  BY <1>2 DEF Check, Ask, Send, InGet, Handle
<1>3. ASSUME MainStep \/ WriterStep \/ \E w \in Workers : WorkersStep(w)
      PROVE  ServerNext
  BY <1>3 DEF MainStep, WorkersStep, WriterStep, Respond, ServerNext
<1>4. ASSUME StopListening \/ JoinListener \/ UNCHANGED vars
      PROVE  UNCHANGED serverVars
  BY <1>4 DEF StopListening, JoinListener, vars
<1> QED BY <1>1, <1>2, <1>3, <1>4 DEF Next, HandlerStep

LEMMA SpecIsSafe == Spec => SafeServer
<1>1. Init => ServerInit
  BY DEF Init
<1> QED BY <1>1, InitHTTP, StepHTTP, StepServer, PTL DEF Spec, SafeServer

(* In HTTP mode too the daemon does what Service promises, with any number *)
(* of workers.                                                             *)
THEOREM HTTPServes == Spec => Serves
BY SpecIsSafe, SafeServes, PTL

-----------------------------------------------------------------------------
(* The listener as the getter of the map: it is in a get only where        *)
(* ev_handler calls it, with its id, and has a post to take when something *)
(* for it was put while it looked.                                         *)
GetterInv ==
    /\ Poller \in DOMAIN getter /\ Poller \in DOMAIN key /\ Poller \in DOMAIN value
    /\ getter[Poller] \in {"out", "looking", "waiting"} /\ wsem \in Nat
    /\ getter[Poller] # "out" => handler = "get" /\ key[Poller] = reqID
    /\ getter[Poller] = "waiting" /\ Ready(Poller) => wsem > 0

LEMMA InitGetter == Init => GetterInv
BY IdsFacts DEF Init, MapInit, GetterInv

LEMMA StepGetter == GetterInv /\ [Next]_vars => GetterInv'
<1> SUFFICES ASSUME GetterInv, [Next]_vars PROVE GetterInv'
  OBVIOUS
<1> USE DEF GetterInv, Ready
<1>1. ASSUME UNCHANGED mapVars, getter[Poller] # "out" => UNCHANGED <<handler, reqID>>
      PROVE  GetterInv'
  BY <1>1 DEF mapVars
<1>2. ASSUME NEW k, NEW v, Put(k, v), getter[Poller] # "out" => UNCHANGED <<handler, reqID>>
      PROVE  GetterInv'
  BY <1>2 DEF Put
<1>3. CASE Ask
  BY <1>3 DEF Ask, Get, From, handledVars
<1>4. CASE InGet
  <2>1. UNCHANGED <<handler, reqID>>
    BY <1>4 DEF InGet, httpVars
  <2>2. CASE Found(Poller)
    BY <2>1, <2>2 DEF Found, Return
  <2>3. CASE FoundOverriding(Poller)
    BY <2>1, <2>3 DEF FoundOverriding, Return
  <2>4. CASE NotFound(Poller)
    <3>1. /\ getter' = [getter EXCEPT ![Poller] = "waiting"] /\ getter[Poller] = "looking"
          /\ UNCHANGED <<internalMap, wsem, key, value>>
          /\ {key[Poller], overridingKey} \cap DOMAIN internalMap = {}
      BY <2>4 DEF NotFound, Looks
    <3>2. {key'[Poller], overridingKey} \cap DOMAIN internalMap' = {}
      BY <3>1
    <3>3. getter'[Poller] = "waiting" /\ Poller \in DOMAIN getter'
      BY <3>1
    <3> QED BY <2>1, <3>1, <3>2, <3>3
  <2>5. CASE Wake(Poller)
    BY <2>1, <2>5 DEF Wake
  <2> QED BY <1>4, <2>2, <2>3, <2>4, <2>5 DEF InGet, GetStep
<1>5. CASE \E p \in Posts : Handle(p)
  BY <1>1, <1>5 DEF Handle, From
<1>6. CASE Push \/ Send
  BY <1>1, <1>6 DEF Push, Send, From
<1>7. CASE Check
  <2>1. getter[Poller] = "out"
    BY <1>7 DEF Check, From
  <2> QED BY <1>1, <1>2, <1>7, <2>1 DEF Check
<1>8. CASE MainStep \/ (\E w \in Workers : WorkersStep(w)) \/ WriterStep
  BY <1>1, <1>2, <1>8 DEF MainStep, WorkersStep, WriterStep, Respond, httpVars
<1>9. CASE StopListening \/ JoinListener \/ UNCHANGED vars
  BY <1>1, <1>9 DEF StopListening, JoinListener, vars, httpVars
<1> QED
  BY <1>3, <1>4, <1>5, <1>6, <1>7, <1>8, <1>9 DEF Next, HandlerStep

(* In the whole daemon too the listener, when it waits with something for  *)
(* it in the map, has a post to take (BlockingMap::get).                   *)
THEOREM HTTPGetterWakes == Spec => []NoLostWakeup
<1>1. GetterInv => NoLostWakeup
  BY PostsAssumption DEF GetterInv, NoLostWakeup
<1> QED BY <1>1, InitGetter, StepGetter, PTL DEF Spec
-----------------------------------------------------------------------------
(* Why an error reaches one client: the response thread writes it once, it *)
(* is in the map until one get takes it out, and then with the listener.   *)
InMap == IF overridingKey \in DOMAIN internalMap THEN {internalMap[overridingKey]} ELSE {}

Got == handler = "get" /\ getter[Poller] = "out"

(* An error the response thread has written and that left the map.         *)
Taken(e) == e \in Answered \ InMap

ErrorsInv ==
    /\ \A k \in DOMAIN internalMap : k # overridingKey => ~ internalMap[k].fails
    /\ InMap \subseteq Answered
    /\ Got /\ value[Poller].fails => Taken(value[Poller])
    /\ \A a \in answers : a.value.fails =>
          Taken(a.value) /\ ~ (Got /\ value[Poller] = a.value)
    /\ \A a, b \in answers : a.value.fails /\ a.value = b.value => a = b

LEMMA InitErrors == Init => ErrorsInv
<1> SUFFICES ASSUME Init PROVE ErrorsInv
  OBVIOUS
<1>1. DOMAIN internalMap = {} /\ InMap = {} /\ answers = {} /\ handler = "idle"
  BY DEF Init, MapInit, InMap
<1> QED BY <1>1 DEF ErrorsInv, Got

(* A step at which the listener gets nothing, and the map stays.           *)
LEMMA ErrorsStay ==
    ASSUME ErrorsInv, UNCHANGED <<internalMap, value, answers, written>>, Got' => Got
    PROVE  ErrorsInv'
<1>1. InMap' = InMap /\ Answered' = Answered
  BY DEF InMap, Answered
<1> QED BY <1>1 DEF ErrorsInv, Taken

(* A value is put, under the overriding key if it is an error.             *)
LEMMA ErrorsPut ==
    ASSUME ErrorsInv, NEW k, NEW v, Put(k, v), UNCHANGED answers, Got' => Got,
           Answered \subseteq Answered', Answered' \subseteq Answered \cup {v},
           \/ k # overridingKey /\ ~ v.fails
           \/ k = overridingKey /\ v \notin Answered /\ v \in Answered'
    PROVE  ErrorsInv'
<1>1. /\ DOMAIN internalMap' = DOMAIN internalMap \cup {k} /\ internalMap'[k] = v
      /\ \A x \in DOMAIN internalMap : x # k => internalMap'[x] = internalMap[x]
      /\ UNCHANGED value
  BY DEF Put, Stored
<1>2. /\ k # overridingKey => InMap' = InMap
      /\ k = overridingKey => InMap' = {v}
  BY <1>1 DEF InMap
<1>3. InMap' \subseteq Answered' /\ \A e : Taken(e) => Taken(e)'
  BY <1>2 DEF ErrorsInv, Taken
<1>4. \A x \in DOMAIN internalMap' : x # overridingKey => ~ internalMap'[x].fails
  BY <1>1 DEF ErrorsInv
<1> QED BY <1>1, <1>3, <1>4 DEF ErrorsInv

LEMMA StepErrors ==
    ASSUME HTTPTypeOK, TypeOK, PlacesInv, GetterInv, ErrorsInv, [Next]_vars
    PROVE  ErrorsInv'
<1>k. reqID # overridingKey
  BY IdsFacts DEF HTTPTypeOK
<1>g. /\ Poller \in DOMAIN getter /\ Poller \in DOMAIN value
      /\ getter[Poller] # "out" => handler = "get" /\ key[Poller] = reqID
  BY DEF GetterInv
<1>1. ASSUME NEW p \in Posts, Handle(p) PROVE ErrorsInv'
  <2>1. UNCHANGED <<written, internalMap, value, answers>> /\ handler' = "push"
    BY <1>1 DEF Handle, From, serverVars, outputVars, mapVars
  <2> QED BY <2>1, ErrorsStay DEF Got
<1>2. CASE Push
  <2>1. UNCHANGED <<written, internalMap, value, answers>> /\ handler' = "check"
    BY <1>2 DEF Push, From, Arrive, outputVars, mapVars, handledVars
  <2> QED BY <2>1, ErrorsStay DEF Got
<1>3. CASE Check
  <2>1. handler' = "ask" /\ UNCHANGED <<written, answers>>
    BY <1>3 DEF Check, From, serverVars, outputVars, handledVars
  <2>2. CASE running
    <3>1. UNCHANGED <<internalMap, value>>
      BY <1>3, <2>2 DEF Check, mapVars
    <3> QED BY <2>1, <3>1, ErrorsStay DEF Got
  <2>3. CASE ~ running
    <3>1. Put(reqID, StopReceived) /\ ~ StopReceived.fails
      BY <1>3, <2>3 DEF Check, StopReceived
    <3> QED BY <1>k, <2>1, <3>1, ErrorsPut DEF Got, Answered
  <2> QED BY <2>2, <2>3
<1>4. CASE Ask
  <2>1. /\ UNCHANGED <<written, internalMap, value, answers>>
        /\ getter' = [getter EXCEPT ![Poller] = "looking"]
    BY <1>4 DEF Ask, Get, serverVars, outputVars, handledVars
  <2>2. ~ Got'
    BY <1>g, <2>1 DEF Got
  <2> QED BY <2>1, <2>2, ErrorsStay
<1>5. CASE InGet
  <2>1. UNCHANGED <<written, answers, handler, reqID>> /\ Answered' = Answered
    BY <1>5 DEF InGet, serverVars, outputVars, httpVars, Answered
  <2>2. CASE NotFound(Poller) \/ Wake(Poller)
    <3>1. UNCHANGED <<internalMap, value>> /\ getter'[Poller] # "out"
      BY <1>g, <2>2 DEF NotFound, Wake
    <3> QED BY <2>1, <3>1, ErrorsStay DEF Got
  <2>3. CASE Found(Poller) \/ FoundOverriding(Poller)
    <3>1. PICK v : /\ value'[Poller] = v /\ ~ Got /\ InMap' \subseteq InMap
                   /\ v.fails => v \in InMap /\ InMap' = {}
                   /\ DOMAIN internalMap' \subseteq DOMAIN internalMap
                   /\ \A k \in DOMAIN internalMap' : internalMap'[k] = internalMap[k]
      <4>1. getter[Poller] = "looking"
        BY <2>3 DEF Found, FoundOverriding, Looks
      <4>2. CASE Found(Poller)
        <5>1. /\ reqID \in DOMAIN internalMap /\ internalMap' = internalMap
              /\ value'[Poller] = internalMap[reqID] /\ InMap' = InMap
          BY <1>g, <4>1, <4>2 DEF Found, Return, InMap
        <5>2. ~ internalMap[reqID].fails
          BY <1>k, <5>1 DEF ErrorsInv
        <5> QED BY <4>1, <5>1, <5>2 DEF Got
      <4>3. CASE FoundOverriding(Poller)
        <5>1. /\ InMap = {internalMap[overridingKey]} /\ InMap' = {}
              /\ DOMAIN internalMap' \subseteq DOMAIN internalMap
              /\ \A k \in DOMAIN internalMap' : internalMap'[k] = internalMap[k]
              /\ value'[Poller] = internalMap[overridingKey]
          BY <1>g, <4>3 DEF FoundOverriding, Return, Restrict, InMap
        <5> QED BY <4>1, <5>1 DEF Got
      <4> QED BY <2>3, <4>2, <4>3
    <3>2. \A e : Taken(e) => Taken(e)'
      BY <2>1, <3>1 DEF Taken
    <3>3. v.fails => Taken(v)' /\ \A a \in answers : a.value.fails => a.value # v
      BY <2>1, <3>1 DEF ErrorsInv, Taken
    <3>4. InMap' \subseteq Answered'
      BY <2>1, <3>1 DEF ErrorsInv
    <3>5. \A k \in DOMAIN internalMap' : k # overridingKey => ~ internalMap'[k].fails
      BY <3>1 DEF ErrorsInv
    <3>6. \A a \in answers' : a.value.fails =>
             Taken(a.value)' /\ ~ (Got' /\ value'[Poller] = a.value)
      BY <2>1, <3>1, <3>2, <3>3 DEF ErrorsInv
    <3> QED BY <2>1, <3>1, <3>3, <3>4, <3>5, <3>6 DEF ErrorsInv
  <2> QED BY <1>5, <2>2, <2>3 DEF InGet, GetStep
<1>6. CASE Send
  <2> DEFINE b == [post |-> post, id |-> reqID, value |-> value[Poller]]
  <2>1. /\ Got /\ ~ Got' /\ answers' = answers \cup {b} /\ b.value = value[Poller]
        /\ UNCHANGED <<written, internalMap, value>>
    BY <1>6 DEF Send, From, Got, serverVars, outputVars, mapVars
  <2> HIDE DEF b
  <2>2. InMap' = InMap /\ \A e : Taken(e)' = Taken(e)
    BY <2>1 DEF InMap, Taken, Answered
  <2>3. InMap' \subseteq Answered'
    BY <2>1, <2>2 DEF ErrorsInv, Answered
  <2>4. b.value.fails => Taken(b.value) /\ \A a \in answers : a.value # b.value
    BY <2>1 DEF ErrorsInv
  <2>5. \A a \in answers' : a.value.fails => Taken(a.value)'
    BY <2>1, <2>2, <2>4 DEF ErrorsInv
  <2>6. \A a, c \in answers' : a.value.fails /\ a.value = c.value => a = c
    BY <2>1, <2>4 DEF ErrorsInv
  <2> QED BY <2>1, <2>3, <2>5, <2>6 DEF ErrorsInv
<1>7. CASE Respond
  <2> DEFINE m == Head(msjQueue)
  <2>1. /\ msjQueue # <<>> /\ m # Null /\ written' = Append(written, m)
        /\ Put(IF m.fails THEN overridingKey ELSE m.id, m)
        /\ UNCHANGED <<handler, answers, getter>>
    BY <1>7 DEF Respond, Write, httpVars, Put
  <2>2. msjQueue \in Seq(Items) /\ written \in Seq(Items)
    BY DEF TypeOK
  <2>3. m \in Range(msjQueue) /\ m \in Items
    BY <2>1, <2>2, PopElements
  <2>4. m \notin Answered
    BY <2>1, <2>3 DEF PlacesInv, Apart, InOutput
  <2>5. Answered' = Answered \cup {m}
    BY <2>1, <2>2, <2>3, PushElements DEF Answered
  <2>6. Got' => Got
    BY <2>1 DEF Got
  <2> HIDE DEF m
  <2> DEFINE k == IF m.fails THEN overridingKey ELSE m.id
  <2>7. CASE k = overridingKey
    BY <2>1, <2>4, <2>5, <2>6, <2>7, ErrorsPut
  <2>8. CASE k # overridingKey
    <3>1. ~ m.fails
      BY <2>8
    <3> HIDE DEF k
    <3> QED BY <2>1, <2>5, <2>6, <2>8, <3>1, ErrorsPut DEF k
  <2> QED BY <2>7, <2>8
<1>8. ASSUME UNCHANGED <<internalMap, value, answers, written, handler, getter>>
      PROVE  ErrorsInv'
  BY <1>8, ErrorsStay DEF Got
<1>9. CASE MainStep \/ (EndWriter /\ UNCHANGED <<mapVars, httpVars>>)
  BY <1>8, <1>9 DEF MainStep, Main, Read, Execute, StopWorkers, EndServer, Close, Closed,
     EndWriter, outputVars, mapVars, httpVars
<1>10. ASSUME NEW w \in Workers, WorkersStep(w) PROVE ErrorsInv'
  BY <1>8, <1>10 DEF WorkersStep, WorkerStep, Pop, Run, outputVars, mapVars, httpVars
<1>11. CASE StopListening \/ JoinListener \/ UNCHANGED vars
  BY <1>8, <1>11 DEF StopListening, JoinListener, vars, serverVars, outputVars, mapVars,
     httpVars
<1> QED
  BY <1>1, <1>2, <1>3, <1>4, <1>5, <1>6, <1>7, <1>9, <1>10, <1>11
     DEF Next, HandlerStep, WriterStep

(* An error, which carries no id and is put under the overriding key, is   *)
(* sent to one client only, whatever the order of the workers' answers.    *)
THEOREM ErrorsReachOne == Spec => []ErrorOnce
<1>1. ErrorsInv => ErrorOnce
  BY DEF ErrorsInv, ErrorOnce
<1>2. Spec => []TypeOK /\ []PlacesInv
  BY SpecIsSafe, TypeStays, PlacesKept, PTL
<1>3. HTTPTypeOK /\ TypeOK /\ PlacesInv /\ GetterInv /\ ErrorsInv /\ [Next]_vars
      => ErrorsInv'
  BY StepErrors
<1> QED
  BY <1>1, <1>2, <1>3, InitHTTP, StepHTTP, InitGetter, StepGetter, InitErrors, PTL DEF Spec
-----------------------------------------------------------------------------
(* Why a client is sent its own answer: ev_handler keeps the one thread    *)
(* that polls until it has it, so that no other request is on its way, and *)
(* no key of an earlier one comes again.                                   *)
USE DEF InQueue, InOutput

Open == server \in {"reading", "executing"}
Pushed == handler \in {"check", "ask", "get"}
Cur == Message(post, reqID)

Moving == Range(incoming) \cup (Accepted \ Answered)
Settled == Moving = {} /\ overridingKey \notin DOMAIN internalMap

(* A request, not a stop, that nobody has read.                            *)
Unread(p, id) == id # 0 /\ Message(p, id) \in Range(incoming)

(* The ids only grow, one for each post.                                   *)
IdsInv ==
    /\ lastID \in Nat /\ lastID <= Cardinality(posted)
    /\ handler # "idle" => reqID <= lastID
    /\ \A k \in DOMAIN internalMap : k = overridingKey \/ k \in 0 .. lastID
    /\ handler # "idle" /\ running => reqID # 0
    /\ handler = "push" /\ running => reqID \notin DOMAIN internalMap

(* The server took the request for a stop, the listener did not: nothing   *)
(* will come.                                                              *)
Forgotten ==
    Pushed /\ Moving = {} /\ {reqID, overridingKey} \cap DOMAIN internalMap = {} /\ ~ Got

(* While the listener is on, only its request is on its way, or else the   *)
(* answer is in the map or has been got.                                   *)
OnInv ==
    /\ ~ Pushed => Settled
    /\ Pushed => Moving \subseteq {Cur}
    /\ Pushed /\ reqID \in DOMAIN internalMap => internalMap[reqID] = Cur /\ Settled
    /\ overridingKey \in DOMAIN internalMap =>
          internalMap[overridingKey] = Cur /\ Moving = {}
    /\ Got => value[Poller] = Cur /\ Settled
    /\ ~ Open => Forgotten

(* Once it is off, the server reads a stop next or nothing any more.       *)
OffInv ==
    /\ Accepted \subseteq Answered /\ overridingKey \notin DOMAIN internalMap
    /\ Open => \/ incoming = <<>> /\ handler = "push" /\ post.stop
               \/ incoming # <<>> /\ Head(incoming).stops /\ Head(incoming).id = 0
    /\ handler \in {"ask", "get"} =>
          reqID \in DOMAIN internalMap /\ internalMap[reqID] = StopReceived
    /\ Got => value[Poller] = StopReceived
    /\ Pushed => post.stop \/ Unread(post, reqID)

SentInv ==
    \A a \in answers :
        \/ a.value.n = a.post.n
        \/ ~ running /\ a.value = StopReceived /\ (a.post.stop \/ Unread(a.post, a.id))

OneInv ==
    /\ IdsInv /\ SentInv
    /\ running => OnInv
    /\ ~ running => OffInv

LEMMA SentAreOwn == SentInv => OwnAnswer
BY DEF SentInv, OwnAnswer, Unread, Range, Message

(* What is neither read nor in two places is one of those that move.       *)
LEMMA OneMoves == PlacesInv /\ HTTPTypeOK /\ OneInv => OneInFlight
<1> SUFFICES ASSUME PlacesInv, HTTPTypeOK, OneInv PROVE OneInFlight
  OBVIOUS
<1> DEFINE inWork == InHand \cup InQueue \cup InWork \cup InOutput
<1>1. inWork \subseteq Accepted \ Answered
  BY DEF PlacesInv, Apart, Accepted
<1>2. running \in BOOLEAN
  BY DEF HTTPTypeOK
<1>3. CASE running
  <2>1. Range(incoming) \cup inWork \subseteq Moving
    BY <1>1 DEF Moving
  <2>2. \A m \in Moving : Pushed /\ m = Cur
    BY <1>3 DEF OneInv, OnInv, Settled
  <2> QED BY <1>3, <2>1, <2>2 DEF OneInFlight, Pushed, Cur
<1>4. CASE ~ running
  <2>1. inWork = {}
    BY <1>1, <1>4 DEF OneInv, OffInv
  <2> QED BY <1>4, <2>1 DEF OneInFlight
<1> QED BY <1>2, <1>3, <1>4

LEMMA OneStrandsNone == HTTPTypeOK /\ OneInv => NoneStranded
<1> SUFFICES ASSUME HTTPTypeOK, OneInv, ~ Open, handler \in {"ask", "get"},
                    NEW i \in DOMAIN incoming
             PROVE  reqID \in DOMAIN internalMap
  BY DEF NoneStranded, Open
<1>1. CASE running
  <2>1. Moving = {} /\ incoming[i] \in Range(incoming)
    BY <1>1 DEF OneInv, OnInv, Forgotten, Range
  <2> QED BY <2>1 DEF Moving
<1>2. CASE ~ running
  BY <1>2 DEF OneInv, OffInv
<1> QED BY <1>1, <1>2 DEF HTTPTypeOK

LEMMA InitOne == Init => OneInv
<1> SUFFICES ASSUME Init PROVE OneInv
  OBVIOUS
<1>1. /\ Range(incoming) = {} /\ Range(workingQueue) = {} /\ Range(msjQueue) = {}
      /\ InHand = {} /\ InWork = {} /\ DOMAIN internalMap = {}
  BY DEF Init, ServerInit, MapInit, Range, InHand, InWork
<1>2. Settled
  BY <1>1 DEF Accepted, Moving, Settled
<1>3. Cardinality(posted) = 0
  BY FS_EmptySet DEF Init
<1>4. running /\ handler = "idle" /\ answers = {} /\ lastID = 0 /\ Open
  BY DEF Init, ServerInit, Open
<1> QED BY <1>1, <1>2, <1>3, <1>4 DEF OneInv, IdsInv, OnInv, SentInv, Pushed, Got

(* A step of the server that takes no new message and puts no answer.      *)
LEMMA OneStays ==
    ASSUME OneInv, UNCHANGED <<mapVars, httpVars>>, Moving' \subseteq Moving,
           running /\ ~ Open' => Forgotten \/ (Pushed /\ Moving # {} /\ Moving' = {}),
           ~ running => /\ Accepted' \subseteq Answered'
                        /\ \A p, id : Unread(p, id) => Unread(p, id)'
                        /\ Open' => Open /\ incoming' = incoming
    PROVE  OneInv'
<1>1. UNCHANGED <<internalMap, getter, key, value, posted, running, lastID, handler, post,
                  reqID, answers>>
  BY DEF mapVars, httpVars
<1>2. /\ Settled => Settled'
      /\ Moving = {} => Moving' = {}
      /\ Cur' = Cur /\ Got' = Got /\ Pushed' = Pushed
      /\ Forgotten => Forgotten'
  BY <1>1 DEF Settled, Cur, Got, Pushed, Forgotten
<1>3. IdsInv'
  BY <1>1 DEF OneInv, IdsInv
<1>4. SentInv'
  BY <1>1 DEF OneInv, SentInv
<1>5. ASSUME running' PROVE OnInv'
  <2>1. ASSUME Pushed, Moving # {}, Moving' = {} PROVE Forgotten'
    BY <1>1, <1>2, <1>5, <2>1 DEF OneInv, OnInv, Forgotten, Settled
  <2> QED BY <1>1, <1>2, <1>5, <2>1 DEF OneInv, OnInv
<1>6. ~ running' => OffInv'
  BY <1>1, <1>2 DEF OneInv, OffInv
<1> QED BY <1>3, <1>4, <1>5, <1>6 DEF OneInv

(* The hypothesis of the theorems below: no more is posted than an int can *)
(* count.  Without it an id comes again (HTTPListener.cpp: lastID = 0).    *)
IdsSuffice == IsFiniteSet(Posts) /\ Cardinality(Posts) <= IntMax

LEMMA CountPosts ==
    ASSUME IdsSuffice, NEW S \in SUBSET Posts
    PROVE  /\ IsFiniteSet(S) /\ Cardinality(S) \in Nat
           /\ Cardinality(S) <= IntMax /\ IntMax \in Nat
<1>1. IsFiniteSet(S) /\ Cardinality(S) <= Cardinality(Posts)
  BY FS_Subset DEF IdsSuffice
<1>2. Cardinality(S) \in Nat /\ Cardinality(Posts) \in Nat
  BY <1>1, FS_CardinalityType DEF IdsSuffice
<1>3. IntMax \in Nat
  BY PostsAssumption
<1> QED BY <1>1, <1>2, <1>3 DEF IdsSuffice

LEMMA StepOne ==
    ASSUME IdsSuffice, HTTPTypeOK, TypeOK, Drains, PlacesInv, GetterInv, OneInv, [Next]_vars
    PROVE  OneInv'
<1>t. /\ posted \subseteq Posts /\ running \in BOOLEAN /\ reqID \in Nat
      /\ reqID # overridingKey /\ overridingKey \notin Nat
      /\ handler # "idle" => post \in posted /\ (reqID = 0 <=> post.stop)
      /\ incoming \in Seq(Messages)
  BY IdsFacts, PostsAssumption DEF HTTPTypeOK, TypeOK
<1>i. /\ IdsInv /\ SentInv
      /\ running => OnInv
      /\ ~ running => OffInv
  BY DEF OneInv
<1>g. /\ Poller \in DOMAIN getter /\ Poller \in DOMAIN value
      /\ getter[Poller] # "out" => handler = "get" /\ key[Poller] = reqID
  BY DEF GetterInv
<1>1. ASSUME NEW p \in Posts, Handle(p) PROVE OneInv'
  <2>1. /\ p \notin posted /\ posted' = posted \cup {p} /\ post' = p
        /\ handler = "idle" /\ handler' = "push"
        /\ UNCHANGED <<incoming, server, internalMap, getter, key, value, answers>>
        /\ Accepted' = Accepted /\ Answered' = Answered
        /\ p.stop => running' = FALSE /\ reqID' = 0 /\ lastID' = lastID
        /\ ~ p.stop => lastID' = NextID /\ reqID' = NextID /\ running' = running
    BY <1>1 DEF Handle, From, serverVars, mainVars, poolVars, outputVars, mapVars, Accepted,
       Answered, InHand, InWork
  <2>2. /\ Cardinality(posted') = Cardinality(posted) + 1
        /\ Cardinality(posted) \in Nat /\ IntMax \in Nat
        /\ Cardinality(posted') <= IntMax
    <3>1. posted \in SUBSET Posts /\ posted' \in SUBSET Posts
      BY <1>t, <2>1
    <3>2. IsFiniteSet(posted) /\ Cardinality(posted) \in Nat /\ Cardinality(posted') <= IntMax
      BY <3>1, CountPosts
    <3>3. Cardinality(posted') = Cardinality(posted) + 1
      BY <2>1, <3>2, FS_AddElement
    <3> QED BY <3>1, <3>2, <3>3, CountPosts
  <2>3. NextID = lastID + 1
    BY <1>i, <2>2 DEF IdsInv, NextID, Inc
  <2>4. IdsInv'
    <3>1. CASE p.stop
      BY <1>i, <2>1, <2>2, <3>1 DEF IdsInv
    <3>2. CASE ~ p.stop
      BY <1>i, <1>t, <2>1, <2>2, <2>3, <3>2 DEF IdsInv
    <3> QED BY <3>1, <3>2
  <2>5. /\ Moving' = Moving /\ Settled' = Settled /\ Open' = Open
        /\ ~ Got' /\ ~ Pushed /\ ~ Pushed' /\ ~ Got
        /\ \A q, id : Unread(q, id)' = Unread(q, id)
    BY <2>1 DEF Moving, Settled, Unread, Open, Got, Pushed
  <2>6. SentInv'
    BY <1>i, <1>t, <2>1, <2>5 DEF SentInv
  <2>7. running => Settled /\ Open
    BY <1>i, <2>5 DEF OnInv, Forgotten
  <2>8. running' => OnInv'
    BY <1>t, <2>1, <2>5, <2>7 DEF OnInv, Settled
  <2>9. ASSUME ~ running' PROVE OffInv'
    <3>1. CASE running
      <4>1. p.stop /\ Moving = {} /\ overridingKey \notin DOMAIN internalMap
        BY <1>t, <2>1, <2>7, <2>9, <3>1 DEF Settled
      <4>2. Accepted \subseteq Answered /\ incoming = <<>>
        <5>1. Range(incoming) = {} /\ Accepted \subseteq Answered
          BY <4>1 DEF Moving
        <5>2. incoming # <<>> => Head(incoming) \in Range(incoming)
          BY <1>t, PopElements
        <5> QED BY <5>1, <5>2
      <4> QED BY <2>1, <2>5, <4>1, <4>2 DEF OffInv
    <3>2. CASE ~ running
      BY <1>i, <2>1, <2>5, <3>2 DEF OffInv
    <3> QED BY <3>1, <3>2
  <2> QED BY <2>4, <2>6, <2>8, <2>9 DEF OneInv
<1>2. CASE Push
  <2>1. /\ incoming' = Append(incoming, Cur) /\ handler = "push" /\ handler' = "check"
        /\ UNCHANGED <<server, internalMap, getter, key, value, answers, posted,
                       running, post, lastID, reqID>>
        /\ Accepted' = Accepted /\ Answered' = Answered
    BY <1>2 DEF Push, From, Arrive, handledVars, mainVars, poolVars, outputVars, mapVars,
       Accepted, Answered, InHand, InWork, Cur
  <2>2. ~ Got /\ ~ Got' /\ ~ Pushed /\ Pushed' /\ Cur' = Cur /\ Open' = Open
    BY <2>1 DEF Got, Pushed, Cur, Open
  <2>3. /\ Cur \in Messages /\ Cur.n = post.n /\ Cur.stops = post.stops /\ Cur.id = reqID
        /\ post \in Posts
    <3>1. post \in Posts /\ reqID \in Ids
      BY <1>t, <2>1 DEF HTTPTypeOK
    <3> QED BY <3>1, PostsAssumption DEF Cur, Message
  <2>4. Range(incoming') = Range(incoming) \cup {Cur}
    BY <1>t, <2>1, <2>3, PushElements
  <2>5. IdsInv'
    BY <1>i, <2>1 DEF IdsInv
  <2>6. \A q, id : Unread(q, id) => Unread(q, id)'
    BY <2>4 DEF Unread
  <2>7. SentInv'
    BY <1>i, <2>1, <2>6 DEF SentInv
  <2>8. ASSUME running' PROVE OnInv'
    <3>1. Settled /\ Open /\ reqID \notin DOMAIN internalMap
      BY <1>i, <2>1, <2>2, <2>8 DEF OnInv, IdsInv, Forgotten
    <3>2. Moving' = {Cur}
      BY <2>1, <2>4, <3>1 DEF Moving, Settled
    <3> QED BY <2>1, <2>2, <3>1, <3>2 DEF OnInv, Settled
  <2>9. ASSUME ~ running' PROVE OffInv'
    <3>1. Open => /\ incoming' # <<>>
                  /\ Head(incoming').stops /\ Head(incoming').id = 0
      <4> SUFFICES ASSUME Open
                   PROVE  incoming' # <<>> /\ Head(incoming').stops /\ Head(incoming').id = 0
        OBVIOUS
      <4>1. CASE incoming = <<>> /\ post.stop
        <5>1. incoming' = <<Cur>> /\ Cur.stops /\ Cur.id = 0
          BY <1>t, <2>1, <2>3, <4>1, PostsAssumption
        <5> QED BY <5>1
      <4>2. CASE incoming # <<>> /\ Head(incoming).stops /\ Head(incoming).id = 0
        <5>1. incoming' # <<>> /\ Head(incoming') = Head(incoming)
          BY <1>t, <2>1, <2>3, <4>2
        <5> QED BY <4>2, <5>1
      <4> QED BY <1>i, <2>1, <2>9, <4>1, <4>2 DEF OffInv
    <3>2. post.stop \/ Unread(post, reqID)'
      BY <1>t, <2>1, <2>2, <2>4 DEF Unread, Cur
    <3> QED BY <1>i, <2>1, <2>2, <2>9, <3>1, <3>2 DEF OffInv
  <2> QED BY <2>5, <2>7, <2>8, <2>9 DEF OneInv
<1>3. CASE Check
  <2>1. /\ handler = "check" /\ handler' = "ask"
        /\ UNCHANGED <<incoming, server, getter, key, value, answers, posted,
                       running, post, lastID, reqID>>
        /\ Accepted' = Accepted /\ Answered' = Answered
        /\ running => internalMap' = internalMap
        /\ ~ running => internalMap' = Stored(reqID, StopReceived)
    BY <1>3 DEF Check, From, Put, handledVars, serverVars, mainVars, poolVars, outputVars,
       mapVars, Accepted, Answered, InHand, InWork
  <2>2. /\ ~ Got /\ ~ Got' /\ Pushed /\ Pushed' /\ Cur' = Cur /\ Open' = Open
        /\ Moving' = Moving /\ \A q, id : Unread(q, id)' = Unread(q, id)
    BY <2>1 DEF Got, Pushed, Cur, Open, Moving, Unread
  <2>3. ~ running => /\ DOMAIN internalMap' = DOMAIN internalMap \cup {reqID}
                     /\ internalMap'[reqID] = StopReceived
    BY <2>1 DEF Stored
  <2>4. IdsInv'
    BY <1>i, <1>t, <2>1, <2>3 DEF IdsInv
  <2>5. SentInv'
    BY <1>i, <2>1, <2>2 DEF SentInv
  <2>6. running' => OnInv'
    BY <1>i, <2>1, <2>2 DEF OnInv, Settled, Forgotten
  <2>7. ~ running' => OffInv'
    BY <1>i, <1>t, <2>1, <2>2, <2>3 DEF OffInv
  <2> QED BY <2>4, <2>5, <2>6, <2>7 DEF OneInv
<1>4. CASE Ask
  <2>1. /\ handler = "ask" /\ handler' = "get"
        /\ UNCHANGED <<incoming, server, internalMap, value, answers, posted,
                       running, post, lastID, reqID>>
        /\ getter' = [getter EXCEPT ![Poller] = "looking"]
        /\ Accepted' = Accepted /\ Answered' = Answered
    BY <1>4 DEF Ask, From, Get, handledVars, serverVars, mainVars, poolVars, outputVars,
       Accepted, Answered, InHand, InWork
  <2>2. /\ ~ Got /\ ~ Got' /\ Pushed /\ Pushed' /\ Cur' = Cur /\ Open' = Open
        /\ Moving' = Moving /\ \A q, id : Unread(q, id)' = Unread(q, id)
    BY <1>g, <2>1 DEF Got, Pushed, Cur, Open, Moving, Unread
  <2>3. IdsInv'
    BY <1>i, <2>1 DEF IdsInv
  <2>4. SentInv'
    BY <1>i, <2>1, <2>2 DEF SentInv
  <2>5. running' => OnInv'
    BY <1>i, <2>1, <2>2 DEF OnInv, Settled, Forgotten
  <2>6. ~ running' => OffInv'
    BY <1>i, <2>1, <2>2 DEF OffInv
  <2> QED BY <2>3, <2>4, <2>5, <2>6 DEF OneInv
<1>5. CASE InGet
  <2>1. /\ UNCHANGED <<incoming, server, key, answers, posted, handler,
                       running, post, lastID, reqID>>
        /\ Accepted' = Accepted /\ Answered' = Answered
        /\ getter[Poller] # "out"
    BY <1>5 DEF InGet, GetStep, Found, FoundOverriding, NotFound, Wake, Looks,
       serverVars, mainVars, poolVars, outputVars, httpVars, Accepted, Answered, InHand, InWork
  <2>2. /\ handler = "get" /\ key[Poller] = reqID /\ Pushed /\ Pushed' /\ ~ Got
        /\ Cur' = Cur /\ Open' = Open
        /\ Moving' = Moving /\ \A q, id : Unread(q, id)' = Unread(q, id)
    BY <1>g, <2>1 DEF Pushed, Got, Cur, Open, Moving, Unread
  <2>3. /\ DOMAIN internalMap' \subseteq DOMAIN internalMap
        /\ \A k \in DOMAIN internalMap \ {overridingKey} : k \in DOMAIN internalMap'
        /\ \A k \in DOMAIN internalMap' : internalMap'[k] = internalMap[k]
    BY <1>5 DEF InGet, GetStep, Found, FoundOverriding, NotFound, Wake, Restrict
  <2>4. IdsInv'
    BY <1>i, <2>1, <2>3 DEF IdsInv
  <2>5. SentInv'
    BY <1>i, <2>1, <2>2 DEF SentInv
  <2>6. Got' =>
           \/ reqID \in DOMAIN internalMap /\ value'[Poller] = internalMap[reqID]
           \/ /\ overridingKey \in DOMAIN internalMap
              /\ value'[Poller] = internalMap[overridingKey]
              /\ overridingKey \notin DOMAIN internalMap'
    <3>1. CASE Found(Poller)
      BY <1>g, <2>2, <3>1 DEF Found, Return
    <3>2. CASE FoundOverriding(Poller)
      BY <1>g, <3>2 DEF FoundOverriding, Return, Restrict
    <3>3. CASE NotFound(Poller) \/ Wake(Poller)
      BY <1>g, <3>3 DEF NotFound, Wake, Got
    <3> QED BY <1>5, <3>1, <3>2, <3>3 DEF InGet, GetStep
  <2>7. ASSUME running' PROVE OnInv'
    <3>1. Settled => Settled'
      BY <2>2, <2>3 DEF Settled
    <3>2. Got' => value'[Poller] = Cur /\ Settled' /\ Open
      BY <1>i, <2>1, <2>2, <2>6, <2>7, <3>1 DEF OnInv, Settled, Forgotten
    <3>3. ~ Open' => Forgotten'
      BY <1>i, <2>1, <2>2, <2>3, <2>7, <3>2 DEF OnInv, Forgotten
    <3> QED BY <1>i, <2>1, <2>2, <2>3, <2>7, <3>1, <3>2, <3>3 DEF OnInv
  <2>8. ~ running' => OffInv'
    BY <1>i, <1>t, <2>1, <2>2, <2>3, <2>6 DEF OffInv
  <2> QED BY <2>4, <2>5, <2>7, <2>8 DEF OneInv
<1>6. CASE Send
  <2> DEFINE b == [post |-> post, id |-> reqID, value |-> value[Poller]]
  <2>1. /\ UNCHANGED <<incoming, server, internalMap, getter, key, value, posted,
                       running, post, lastID, reqID>>
        /\ Accepted' = Accepted /\ Answered' = Answered
        /\ handler = "get" /\ handler' = "idle" /\ Got /\ answers' = answers \cup {b}
    BY <1>6 DEF Send, From, Got, serverVars, mainVars, poolVars, outputVars, mapVars,
       Accepted, Answered, InHand, InWork
  <2>2. /\ ~ Got' /\ Pushed /\ ~ Pushed' /\ Open' = Open
        /\ Moving' = Moving /\ Settled' = Settled /\ \A q, id : Unread(q, id)' = Unread(q, id)
    BY <2>1 DEF Got, Pushed, Open, Moving, Settled, Unread
  <2>3. IdsInv'
    BY <1>i, <2>1 DEF IdsInv
  <2>4. \/ b.value.n = b.post.n
        \/ ~ running /\ b.value = StopReceived /\ (b.post.stop \/ Unread(b.post, b.id))
    BY <1>i, <1>t, <2>1, <2>2 DEF OnInv, OffInv, Cur, Message
  <2> HIDE DEF b
  <2>5. SentInv'
    BY <1>i, <2>1, <2>2, <2>4 DEF SentInv
  <2>6. running' => OnInv'
    BY <1>i, <2>1, <2>2 DEF OnInv, Settled, Forgotten
  <2>7. ~ running' => OffInv'
    BY <1>i, <2>1, <2>2 DEF OffInv
  <2> QED BY <2>3, <2>5, <2>6, <2>7 DEF OneInv
<1>7. CASE Respond
  <2> DEFINE m == Head(msjQueue)
             k == IF m.fails THEN overridingKey ELSE m.id
  <2>1. /\ UNCHANGED <<incoming, server, getter, key, value, answers, posted, handler,
                       running, post, lastID, reqID>>
        /\ internalMap' = Stored(k, m)
    BY <1>7 DEF Respond, Write, Put, httpVars, mainVars
  <2>2. m \in InOutput /\ Accepted' = Accepted /\ Answered' = Answered \cup {m}
    BY <1>7, WriteAnswers DEF Respond
  <2>3. m \notin Answered /\ m \notin Range(incoming) /\ m \in Accepted
    BY <2>2 DEF PlacesInv, Apart, Accepted
  <2> HIDE DEF k, m
  <2>4. running /\ Pushed /\ Moving = {m} /\ m = Cur /\ Open
    BY <1>i, <1>t, <2>3 DEF OffInv, OnInv, Settled, Moving, Forgotten
  <2>5. /\ ~ Got /\ ~ Got' /\ Cur' = Cur /\ Pushed' /\ Open' = Open
    BY <1>i, <2>1, <2>4 DEF OnInv, Settled, Got, Cur, Pushed, Open
  <2>6. overridingKey \notin DOMAIN internalMap /\ reqID \notin DOMAIN internalMap
    BY <1>i, <2>4 DEF OnInv, Settled
  <2>7. Moving' = {}
    BY <2>1, <2>2, <2>3, <2>4 DEF Moving
  <2>8. m.id = reqID
    BY <2>4 DEF Cur, Message
  <2>9. /\ k \in {overridingKey, reqID}
        /\ DOMAIN internalMap' = DOMAIN internalMap \cup {k} /\ internalMap'[k] = Cur
    BY <2>1, <2>4, <2>8 DEF k, Stored
  <2>10. IdsInv'
    BY <1>i, <1>t, <2>1, <2>4, <2>9 DEF IdsInv, Pushed
  <2>11. SentInv'
    BY <1>i, <2>1, <2>4 DEF SentInv
  <2>12. OnInv'
    BY <1>t, <2>1, <2>4, <2>5, <2>6, <2>7, <2>9 DEF OnInv, Settled
  <2> QED BY <2>1, <2>4, <2>10, <2>11, <2>12 DEF OneInv
<1>8. CASE Read /\ UNCHANGED <<mapVars, httpVars>>
  <2> DEFINE m == Head(incoming)
  <2>1. /\ incoming # <<>> /\ incoming' = Tail(incoming) /\ server = "reading"
        /\ server' = IF m.stops THEN "stopping" ELSE "executing"
        /\ m \in Messages /\ Answered' = Answered
        /\ Accepted' = Accepted \cup IF m.stops THEN {} ELSE {m}
    BY <1>8, ReadAccepts DEF Read
  <2>2. Range(incoming) = {m} \cup Range(incoming') /\ m \in Range(incoming)
    BY <1>t, <2>1, PopElements
  <2>3. m \notin Range(incoming')
    <3>1. Once(incoming) /\ m # Null
      BY <2>1, NullIsNoMessage DEF PlacesInv
    <3> QED BY <1>t, <2>1, <3>1, OncePop
  <2>4. m \notin Answered /\ m \notin Accepted
    BY <2>2 DEF PlacesInv, Apart, Accepted
  <2> HIDE DEF m
  <2>5. Moving' \subseteq Moving /\ m \in Moving
    BY <2>1, <2>2 DEF Moving
  <2>6. ASSUME running, ~ Open' PROVE Pushed /\ Moving # {} /\ Moving' = {}
    <3>1. m.stops /\ Pushed /\ Moving \subseteq {Cur} /\ m = Cur
      BY <1>i, <2>1, <2>5, <2>6 DEF Open, OnInv, Settled
    <3>2. m \notin Moving'
      BY <2>1, <2>3, <2>4, <3>1 DEF Moving
    <3> QED BY <2>5, <3>1, <3>2
  <2>7. ASSUME ~ running
        PROVE  /\ Accepted' \subseteq Answered'
               /\ \A p, id : Unread(p, id) => Unread(p, id)'
               /\ ~ Open'
    <3>1. m.stops /\ m.id = 0
      BY <1>i, <2>1, <2>7 DEF OffInv, Open, m
    <3> QED BY <1>i, <2>1, <2>2, <2>7, <3>1 DEF OffInv, Open, Unread, Message
  <2> QED BY <1>8, <2>5, <2>6, <2>7, OneStays
<1>9. ASSUME Others, incoming' = incoming, Open' = Open, UNCHANGED <<mapVars, httpVars>>
      PROVE  OneInv'
  <2>1. Accepted' = Accepted /\ Answered' = Answered
    BY <1>9, OthersTellNothing
  <2>2. Moving' = Moving /\ \A p, id : Unread(p, id)' = Unread(p, id)
    BY <1>9, <2>1 DEF Moving, Unread
  <2>3. running /\ ~ Open' => Forgotten
    BY <1>9, <1>i DEF OnInv
  <2>4. ~ running => Accepted' \subseteq Answered'
    BY <1>i, <2>1 DEF OffInv
  <2> QED BY <1>9, <2>2, <2>3, <2>4, OneStays
<1>10. CASE MainStep /\ ~ Read
  <2>1. Execute \/ StopWorkers \/ EndServer \/ Close \/ Closed
    BY <1>10 DEF MainStep, Main
  <2>2. incoming' = incoming /\ Open' = Open /\ UNCHANGED <<mapVars, httpVars>>
    BY <1>10, <2>1 DEF MainStep, Execute, StopWorkers, EndServer, Close, Closed, Open
  <2> QED BY <1>9, <2>1, <2>2 DEF Others
<1>11. ASSUME NEW w \in Workers, WorkersStep(w) PROVE OneInv'
  <2>1. WorkerStep(w) /\ UNCHANGED <<mapVars, httpVars>>
    BY <1>11 DEF WorkersStep
  <2>2. incoming' = incoming /\ Open' = Open
    BY <2>1 DEF WorkerStep, Pop, Run, mainVars, Open
  <2> QED BY <1>9, <2>1, <2>2 DEF Others
<1>12. CASE EndWriter /\ UNCHANGED <<mapVars, httpVars>>
  <2>1. incoming' = incoming /\ Open' = Open
    BY <1>12 DEF EndWriter, mainVars, Open
  <2> QED BY <1>9, <1>12, <2>1 DEF Others
<1>13. CASE StopListening \/ JoinListener \/ UNCHANGED vars
  <2>1. /\ UNCHANGED <<incoming, server, internalMap, getter, key, value, answers, posted,
                       handler, running, post, lastID, reqID>>
        /\ Accepted' = Accepted /\ Answered' = Answered
    BY <1>13 DEF StopListening, JoinListener, vars, serverVars, mainVars, poolVars, outputVars,
       mapVars, httpVars, Accepted, Answered, InHand, InWork
  <2>2. /\ Moving' = Moving /\ Settled' = Settled /\ Forgotten' = Forgotten
        /\ \A q, id : Unread(q, id)' = Unread(q, id)
        /\ Cur' = Cur /\ Got' = Got /\ Pushed' = Pushed /\ Open' = Open
    BY <2>1 DEF Moving, Settled, Forgotten, Unread, Cur, Got, Pushed, Open
  <2>3. IdsInv' /\ SentInv'
    BY <1>i, <2>1, <2>2 DEF IdsInv, SentInv
  <2>4. (running' => OnInv') /\ (~ running' => OffInv')
    BY <1>i, <2>1, <2>2 DEF OnInv, OffInv
  <2> QED BY <2>3, <2>4 DEF OneInv
<1> QED
  <2>1. CASE (\E p \in Posts : Handle(p)) \/ HandlerStep
    BY <1>1, <1>2, <1>3, <1>4, <1>5, <1>6, <2>1 DEF HandlerStep
  <2>2. CASE MainStep \/ (\E w \in Workers : WorkersStep(w)) \/ WriterStep
    BY <1>7, <1>8, <1>10, <1>11, <1>12, <2>2 DEF MainStep, WriterStep
  <2> QED BY <1>13, <2>1, <2>2 DEF Next

LEMMA OneKept ==
    ASSUME IdsSuffice
    PROVE  Spec => [](HTTPTypeOK /\ Drains /\ PlacesInv /\ GetterInv /\ OneInv)
<1> DEFINE Known == HTTPTypeOK /\ TypeOK /\ Drains /\ PlacesInv /\ GetterInv
<1>1. Spec => []Known
  BY SpecIsSafe, TypeStays, ShutdownDrains, PlacesKept, InitHTTP, StepHTTP, InitGetter,
     StepGetter, PTL DEF Spec
<1>2. Known /\ OneInv /\ [Next]_vars => OneInv'
  BY StepOne
<1> QED BY <1>1, <1>2, InitOne, PTL DEF Spec

(* Every client is sent the response to its own request, or "stop received"*)
(* for a stop and for what comes behind it, whatever the number of workers *)
(* and the order in which they end.                                        *)
THEOREM AnswersAreOwn ==
    ASSUME IdsSuffice
    PROVE  Spec => []OwnAnswer
<1>1. OneInv => OwnAnswer
  BY SentAreOwn DEF OneInv
<1> QED BY <1>1, OneKept, PTL

(* With any number of workers at most one request is on its way at a time. *)
THEOREM OneAtATime ==
    ASSUME IdsSuffice
    PROVE  Spec => []OneInFlight
BY OneMoves, OneKept, PTL

(* A request behind the stop message was given an answer by the listener.  *)
THEOREM StrandsNone ==
    ASSUME IdsSuffice
    PROVE  Spec => []NoneStranded
BY OneStrandsNone, OneKept, PTL

-----------------------------------------------------------------------------
(* No one waits for another for ever.  The guards of the listener, of the  *)
(* polling thread and of the join that are not CanMove.                    *)
HandlerCanMove ==
    \/ handler \in {"check", "ask"}
    \/ handler = "push" /\ post.n \notin arrived
    \/ handler = "get" /\ getter[Poller] \in {"out", "looking"}
    \/ handler = "get" /\ getter[Poller] = "waiting" /\ wsem > 0

ListenerCanMove ==
    \/ listener = "polling" /\ ~ running /\ handler = "idle"
    \/ server = "closed" /\ listener = "ended" /\ ~ joined

ServerCanMove == CanMove \/ (server = "reading" /\ incoming # <<>>)

HTTPNeverStuck ==
    handler # "idle" \/ (~ running /\ ~ joined) =>
        ServerCanMove \/ ListenerCanMove \/ HandlerCanMove

(* What the server takes for a stop the listener takes for one too; n      *)
(* tells every post from the others.                                       *)
StopsAgree == \A p \in Posts : p.stops => p.stop
PostsDiffer == \A p, q \in Posts : p.n = q.n => p = q

(* What is about to be pushed never came before.                           *)
FreshInv ==
    /\ arrived \subseteq {p.n : p \in posted}
    /\ handler = "push" => post.n \notin arrived

(* While the listener is on the server is, and what the listener waits for *)
(* is on its way, or it is in the map.                                     *)
OnItsWay ==
    running => /\ Open
               /\ Pushed /\ ~ Got =>
                     \/ Cur \in Moving
                     \/ {reqID, overridingKey} \cap DOMAIN internalMap # {}

WaitInv == FreshInv /\ OnItsWay

LEMMA InitWait == Init => WaitInv
BY DEF Init, ServerInit, WaitInv, FreshInv, OnItsWay, Open, Pushed

LEMMA StepFresh ==
    ASSUME PostsDiffer, HTTPTypeOK, FreshInv, [Next]_vars
    PROVE  FreshInv'
<1> USE DEF FreshInv
<1>1. ASSUME NEW p \in Posts, Handle(p) PROVE FreshInv'
  <2>1. /\ p \notin posted /\ posted' = posted \cup {p} /\ post' = p
        /\ arrived' = arrived
    BY <1>1 DEF Handle, serverVars
  <2>2. p.n \notin arrived
    BY <2>1 DEF HTTPTypeOK, PostsDiffer
  <2> QED BY <2>1, <2>2
<1>2. CASE Push
  <2>1. /\ handler = "push" /\ handler' = "check"
        /\ arrived' = arrived \cup {post.n} /\ posted' = posted
    BY <1>2 DEF Push, From, Arrive, Message, handledVars
  <2> QED BY <2>1 DEF HTTPTypeOK
<1>3. CASE Check \/ Ask \/ Send
  <2>1. handler' # "push" /\ UNCHANGED <<arrived, posted>>
    BY <1>3 DEF Check, Ask, Send, From, serverVars, handledVars
  <2> QED BY <2>1
<1>4. ASSUME UNCHANGED <<arrived, posted, post, handler>> PROVE FreshInv'
  BY <1>4
<1>5. CASE InGet
  BY <1>4, <1>5 DEF InGet, serverVars, httpVars
<1>6. CASE MainStep
  BY <1>4, <1>6 DEF MainStep, Main, Read, Execute, StopWorkers, EndServer, Close, Closed,
     httpVars
<1>7. ASSUME NEW w \in Workers, WorkersStep(w) PROVE FreshInv'
  BY <1>4, <1>7 DEF WorkersStep, WorkerStep, Pop, Run, httpVars
<1>8. CASE WriterStep
  BY <1>4, <1>8 DEF WriterStep, Respond, Write, EndWriter, httpVars
<1>9. CASE StopListening \/ JoinListener \/ UNCHANGED vars
  BY <1>4, <1>9 DEF StopListening, JoinListener, vars, serverVars, httpVars
<1> QED
  BY <1>1, <1>2, <1>3, <1>5, <1>6, <1>7, <1>8, <1>9 DEF Next, HandlerStep

LEMMA StepOnItsWay ==
    ASSUME StopsAgree, HTTPTypeOK, TypeOK, Drains, PlacesInv, GetterInv, OneInv, OnItsWay,
           [Next]_vars
    PROVE  OnItsWay'
<1>t. /\ posted \subseteq Posts /\ running \in BOOLEAN /\ incoming \in Seq(Messages)
      /\ handler # "idle" => post \in Posts /\ (reqID = 0 <=> post.stop)
      /\ handler # "idle" => Cur \in Messages
  <2>1. handler # "idle" => post \in Posts /\ reqID \in Ids
    BY DEF HTTPTypeOK
  <2> QED BY <2>1, PostsAssumption DEF HTTPTypeOK, TypeOK, Cur
<1>g. /\ Poller \in DOMAIN getter
      /\ getter[Poller] # "out" => handler = "get" /\ key[Poller] = reqID
  BY DEF GetterInv
<1> USE DEF OnItsWay
<1>1. CASE Push
  <2>1. /\ handler = "push" /\ incoming' = Append(incoming, Cur)
        /\ UNCHANGED <<post, reqID, server, running>>
    BY <1>1 DEF Push, From, Arrive, Cur, handledVars, mainVars
  <2>2. Cur' = Cur /\ Cur \in Range(incoming') /\ Open' = Open
    BY <1>t, <2>1, PushElements DEF Cur, Open
  <2> QED BY <2>1, <2>2 DEF Moving
<1>2. ASSUME UNCHANGED server, ~ Pushed', running' => running PROVE OnItsWay'
  BY <1>2 DEF Open
<1>3. ASSUME NEW p \in Posts, Handle(p) PROVE OnItsWay'
  <2>1. handler' = "push" /\ server' = server /\ (running' => running)
    BY <1>3 DEF Handle, From, serverVars, mainVars
  <2> QED BY <1>2, <2>1 DEF Pushed
<1>4. CASE Send
  <2>1. handler' = "idle" /\ UNCHANGED <<server, running>>
    BY <1>4 DEF Send, From, serverVars, mainVars
  <2> QED BY <1>2, <2>1 DEF Pushed
<1>5. ASSUME UNCHANGED <<incoming, server, running, post, reqID>>, Pushed,
             running => DOMAIN internalMap \subseteq DOMAIN internalMap' \/ Got',
             Accepted' = Accepted, Answered' = Answered, ~ Got
      PROVE  OnItsWay'
  <2>1. Moving' = Moving /\ Cur' = Cur /\ Open' = Open
    BY <1>5 DEF Moving, Cur, Open
  <2> QED BY <1>5, <2>1
<1>6. CASE Check \/ Ask
  <2>1. /\ handler \in {"check", "ask"}
        /\ UNCHANGED <<incoming, server, running, post, reqID>>
        /\ running => internalMap' = internalMap
        /\ Accepted' = Accepted /\ Answered' = Answered
    BY <1>6 DEF Check, Ask, Get, From, handledVars, mapVars, serverVars, mainVars, poolVars,
       outputVars, Accepted, Answered, InHand, InWork
  <2> QED BY <1>5, <2>1 DEF Got, Pushed
<1>7. CASE InGet
  <2>1. /\ UNCHANGED <<incoming, server, handler, post, reqID, running>>
        /\ Accepted' = Accepted /\ Answered' = Answered /\ getter[Poller] # "out"
    BY <1>7 DEF InGet, GetStep, Found, FoundOverriding, NotFound, Wake, Looks, httpVars,
       serverVars, mainVars, poolVars, outputVars, Accepted, Answered, InHand, InWork
  <2>2. handler = "get" /\ Pushed /\ ~ Got
    BY <1>g, <2>1 DEF Pushed, Got
  <2>3. Got' \/ internalMap' = internalMap
    <3>1. CASE Found(Poller) \/ FoundOverriding(Poller)
      BY <1>g, <2>1, <2>2, <3>1 DEF Found, FoundOverriding, Return, Got
    <3>2. CASE NotFound(Poller) \/ Wake(Poller)
      BY <3>2 DEF NotFound, Wake
    <3> QED BY <1>7, <3>1, <3>2 DEF InGet, GetStep
  <2> QED BY <1>5, <2>1, <2>2, <2>3
<1>8. CASE Respond
  <2> DEFINE m == Head(msjQueue)
             k == IF m.fails THEN overridingKey ELSE m.id
  <2>1. /\ UNCHANGED <<incoming, server, getter, handler, running, post, reqID>>
        /\ internalMap' = Stored(k, m)
    BY <1>8 DEF Respond, Write, Put, httpVars, mainVars
  <2>2. Accepted' = Accepted /\ Answered' = Answered \cup {m}
    BY <1>8, WriteAnswers DEF Respond
  <2>3. Cur' = Cur /\ Got' = Got /\ Pushed' = Pushed /\ Open' = Open
    BY <2>1 DEF Cur, Got, Pushed, Open
  <2>4. m = Cur => k \in {reqID, overridingKey}
    BY DEF Cur, Message
  <2> HIDE DEF k, m
  <2>5. DOMAIN internalMap' = DOMAIN internalMap \cup {k}
    BY <2>1 DEF Stored
  <2>6. m # Cur /\ Cur \in Moving => Cur \in Moving'
    BY <2>1, <2>2 DEF Moving
  <2> QED BY <2>1, <2>3, <2>4, <2>5, <2>6
<1>9. CASE Read /\ UNCHANGED <<mapVars, httpVars>>
  <2> DEFINE m == Head(incoming)
  <2>1. /\ UNCHANGED <<internalMap, getter, handler, running, post, reqID>>
        /\ incoming # <<>> /\ incoming' = Tail(incoming)
        /\ server' = IF m.stops THEN "stopping" ELSE "executing"
        /\ Accepted' = Accepted \cup IF m.stops THEN {} ELSE {m}
        /\ Answered' = Answered
    BY <1>9, ReadAccepts DEF Read, mapVars, httpVars
  <2>2. Range(incoming) = {m} \cup Range(incoming')
    BY <1>t, <2>1, PopElements
  <2>3. m \in Moving /\ m \notin Answered
    BY <2>2 DEF PlacesInv, Apart, Moving
  <2> HIDE DEF m
  <2>4. ASSUME running PROVE ~ m.stops
    <3>1. Pushed /\ m = Cur /\ reqID # 0
      BY <2>3, <2>4 DEF OneInv, OnInv, IdsInv, Settled, Pushed
    <3> QED BY <1>t, <3>1 DEF Pushed, Cur, Message, StopsAgree
  <2>5. running => Moving' = Moving /\ Open'
    BY <2>1, <2>2, <2>3, <2>4 DEF Moving, Open
  <2>6. Cur' = Cur /\ Got' = Got /\ Pushed' = Pushed
    BY <2>1 DEF Cur, Got, Pushed
  <2> QED BY <2>1, <2>5, <2>6
<1>10. ASSUME UNCHANGED <<incoming, internalMap, getter, handler, running, post, reqID>>,
              Open => Open', Accepted' = Accepted, Answered' = Answered
       PROVE  OnItsWay'
  <2>1. Moving' = Moving /\ Cur' = Cur /\ Got' = Got /\ Pushed' = Pushed
    BY <1>10 DEF Moving, Cur, Got, Pushed
  <2> QED BY <1>10, <2>1
<1>11. ASSUME Others, incoming' = incoming, Open => Open', UNCHANGED <<mapVars, httpVars>>
       PROVE  OnItsWay'
  <2>1. Accepted' = Accepted /\ Answered' = Answered
    BY <1>11, OthersTellNothing
  <2> QED BY <1>10, <1>11, <2>1 DEF mapVars, httpVars
<1>12. CASE MainStep /\ ~ Read
  <2>1. Execute \/ StopWorkers \/ EndServer \/ Close \/ Closed
    BY <1>12 DEF MainStep, Main
  <2>2. incoming' = incoming /\ (Open => Open') /\ UNCHANGED <<mapVars, httpVars>>
    BY <1>12, <2>1 DEF MainStep, Execute, StopWorkers, EndServer, Close, Closed, Open
  <2> QED BY <1>11, <2>1, <2>2 DEF Others
<1>13. ASSUME NEW w \in Workers, WorkersStep(w) PROVE OnItsWay'
  <2>1. WorkerStep(w) /\ UNCHANGED <<mapVars, httpVars>>
    BY <1>13 DEF WorkersStep
  <2>2. incoming' = incoming /\ (Open => Open')
    BY <2>1 DEF WorkerStep, Pop, Run, mainVars, Open
  <2> QED BY <1>11, <2>1, <2>2 DEF Others
<1>14. CASE EndWriter /\ UNCHANGED <<mapVars, httpVars>>
  <2>1. incoming' = incoming /\ (Open => Open')
    BY <1>14 DEF EndWriter, mainVars, Open
  <2> QED BY <1>11, <1>14, <2>1 DEF Others
<1>15. CASE StopListening \/ JoinListener \/ UNCHANGED vars
  <2>1. Accepted' = Accepted /\ Answered' = Answered /\ (Open => Open')
    BY <1>15 DEF StopListening, JoinListener, vars, serverVars, mainVars, poolVars,
       outputVars, Accepted, Answered, InHand, InWork, Open
  <2> QED
    BY <1>10, <1>15, <2>1 DEF StopListening, JoinListener, vars, serverVars, mapVars, httpVars
<1> QED
  <2>1. CASE (\E p \in Posts : Handle(p)) \/ HandlerStep
    BY <1>1, <1>3, <1>4, <1>6, <1>7, <2>1 DEF HandlerStep
  <2>2. CASE MainStep \/ (\E w \in Workers : WorkersStep(w)) \/ WriterStep
    BY <1>8, <1>9, <1>12, <1>13, <1>14, <2>2 DEF MainStep, WriterStep
  <2> QED BY <1>15, <2>1, <2>2 DEF Next

(* What is on its way keeps a thread of the server busy.                   *)
LEMMA MovingMoves ==
    ASSUME TypeOK, Drains, NeverStuck, Open, Moving # {}
    PROVE  ServerCanMove
<1>t. worker \in [Workers -> {"waiting", "running", "ended"}] /\ writer \in {"waiting", "ended"}
  BY DEF TypeOK
<1>1. CASE server = "executing"
  BY <1>1 DEF NeverStuck, ServerCanMove
<1>2. CASE server = "reading"
  <2>1. /\ \A w \in Workers : worker[w] # "ended"
        /\ writer # "ended"
    BY <1>2 DEF Drains, WorkersDrain, OutputDrains
  <2>2. PICK m \in Moving : TRUE
    OBVIOUS
  <2>3. InHand = {}
    BY <1>2 DEF InHand
  <2>4. CASE m \in Range(incoming)
    BY <1>2, <2>4 DEF Range, ServerCanMove
  <2>5. CASE m \in InQueue
    <3>1. workingQueue # <<>>
      BY <2>5 DEF Range
    <3>2. PICK w \in Workers : TRUE
      BY ServerAssumption
    <3> QED BY <1>t, <2>1, <3>1, <3>2 DEF ServerCanMove, CanMove
  <2>6. CASE m \in InWork
    BY <2>6 DEF InWork, ServerCanMove, CanMove
  <2>7. CASE m \in InOutput
    <3>1. msjQueue # <<>>
      BY <2>7 DEF Range
    <3> QED BY <1>t, <2>1, <3>1 DEF ServerCanMove, CanMove
  <2> HIDE DEF InQueue, InOutput
  <2> QED BY <2>2, <2>3, <2>4, <2>5, <2>6, <2>7 DEF Moving, Accepted
<1> QED BY <1>1, <1>2 DEF Open

LEMMA SomeoneMoves ==
    ASSUME HTTPTypeOK, TypeOK, Drains, NeverStuck, GetterInv, OneInv, WaitInv
    PROVE  HTTPNeverStuck
<1>t. /\ handler \in {"idle", "push", "check", "ask", "get"} /\ running \in BOOLEAN
      /\ listener \in {"polling", "ended"} /\ server \in Places
  BY DEF HTTPTypeOK, TypeOK
<1>1. CASE handler # "idle"
  <2>1. CASE handler # "get"
    BY <1>t, <1>1, <2>1 DEF HTTPNeverStuck, HandlerCanMove, WaitInv, FreshInv
  <2>2. CASE handler = "get" /\ (getter[Poller] # "waiting" \/ wsem > 0)
    BY <2>2 DEF HTTPNeverStuck, HandlerCanMove, GetterInv
  <2>3. CASE handler = "get" /\ getter[Poller] = "waiting" /\ ~ (wsem > 0)
    <3>1. {reqID, overridingKey} \cap DOMAIN internalMap = {}
      BY <2>3 DEF GetterInv, Ready
    <3>2. running
      BY <2>3, <3>1 DEF OneInv, OffInv
    <3>3. Cur \in Moving /\ Open
      BY <2>3, <3>1, <3>2 DEF WaitInv, OnItsWay, Pushed, Got
    <3> QED BY <3>3, MovingMoves DEF HTTPNeverStuck
  <2> QED BY <2>1, <2>2, <2>3
<1>2. CASE handler = "idle" /\ ~ running /\ ~ joined
  <2>1. CASE listener = "polling" \/ server = "closed"
    BY <1>t, <1>2, <2>1 DEF HTTPNeverStuck, ListenerCanMove
  <2>2. CASE server = "reading"
    BY <1>2, <2>2 DEF HTTPNeverStuck, ServerCanMove, OneInv, OffInv, Open
  <2>3. CASE server \notin {"reading", "closed"}
    BY <2>3 DEF HTTPNeverStuck, NeverStuck, ServerCanMove
  <2> QED BY <2>1, <2>2, <2>3
<1> QED BY <1>1, <1>2 DEF HTTPNeverStuck

(* The daemon is at no time in a deadlock: while a client waits for its    *)
(* answer, or after the listener was turned off, the guard of some thread  *)
(* holds, until the main thread has joined the listener.  Here the server  *)
(* and the listener must agree on what a stop is: after one with a space   *)
(* in it the listener waits for ever (Server.hpp, HTTPListener.cpp).       *)
THEOREM HTTPServerNeverStuck ==
    ASSUME IdsSuffice, StopsAgree, PostsDiffer
    PROVE  Spec => []HTTPNeverStuck
<1> DEFINE Known == HTTPTypeOK /\ TypeOK /\ Drains /\ PlacesInv /\ GetterInv /\ OneInv
<1>1. Spec => [](Known /\ NeverStuck)
  <2>1. Drains /\ NullsSuffice => NeverStuck
    BY SomeMove
  <2> QED BY <2>1, SpecIsSafe, TypeStays, ShutdownDrains, NullsKept, OneKept, PTL
<1>2. Known /\ WaitInv /\ [Next]_vars => WaitInv'
  BY StepFresh, StepOnItsWay DEF WaitInv
<1>3. Known /\ NeverStuck /\ WaitInv => HTTPNeverStuck
  BY SomeoneMoves
<1> QED BY <1>1, <1>2, <1>3, InitWait, PTL DEF Spec
=============================================================================
