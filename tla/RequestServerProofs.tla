------------------------ MODULE RequestServerProofs -------------------------
(***************************************************************************)
(* For any number of workers, any capacity of the queue and any messages:  *)
(* a daemon that ends has answered every request it read, and one that was *)
(* stopped is never stuck before its end.                                  *)
(***************************************************************************)
EXTENDS RequestServer, FiniteSetTheorems, SequenceTheorems, TLAPS

LEMMA NullIsNoMessage == Null \notin Messages
BY ServerAssumption DEF Null

(* What a push and a pop do to the elements of a queue.                    *)
LEMMA PushElements ==
    ASSUME NEW S, NEW q \in Seq(S), NEW x \in S
    PROVE  /\ Append(q, x) \in Seq(S)
           /\ Range(Append(q, x)) = Range(q) \cup {x}
<1>1. /\ Append(q, x) \in Seq(S) /\ Len(Append(q, x)) = Len(q) + 1
      /\ \A i \in 1 .. Len(q) : Append(q, x)[i] = q[i]
      /\ Append(q, x)[Len(q) + 1] = x
      /\ DOMAIN q = 1 .. Len(q) /\ Len(q) \in Nat
  OBVIOUS
<1>2. DOMAIN Append(q, x) = 1 .. Len(q) + 1
  BY <1>1
<1> QED BY <1>1, <1>2 DEF Range

LEMMA PopElements ==
    ASSUME NEW S, NEW q \in Seq(S), q # <<>>
    PROVE  /\ Tail(q) \in Seq(S) /\ Head(q) \in S
           /\ Range(q) = {Head(q)} \cup Range(Tail(q))
           /\ \A i \in 1 .. Len(Tail(q)) : i + 1 \in 1 .. Len(q) /\ Tail(q)[i] = q[i + 1]
           /\ Head(q) = q[1] /\ 1 \in 1 .. Len(q)
<1>1. /\ Tail(q) \in Seq(S) /\ Head(q) \in S /\ Head(q) = q[1]
      /\ Len(q) \in Nat /\ Len(q) # 0 /\ Len(Tail(q)) = Len(q) - 1
      /\ \A i \in 1 .. Len(Tail(q)) : Tail(q)[i] = q[i + 1]
      /\ DOMAIN q = 1 .. Len(q) /\ DOMAIN Tail(q) = 1 .. Len(Tail(q))
  OBVIOUS
<1>2. ASSUME NEW i \in 1 .. Len(q), i # 1
      PROVE  i - 1 \in 1 .. Len(Tail(q)) /\ Tail(q)[i - 1] = q[i]
  BY <1>1, <1>2
<1>3. Range(q) \subseteq {Head(q)} \cup Range(Tail(q))
  <2> SUFFICES ASSUME NEW i \in 1 .. Len(q)
               PROVE  q[i] \in {Head(q)} \cup Range(Tail(q))
    BY <1>1 DEF Range
  <2>1. CASE i = 1
    BY <2>1, <1>1
  <2>2. CASE i # 1
    BY <2>2, <1>1, <1>2 DEF Range
  <2> QED BY <2>1, <2>2
<1>4. {Head(q)} \cup Range(Tail(q)) \subseteq Range(q)
  BY <1>1 DEF Range
<1> QED BY <1>1, <1>3, <1>4

-----------------------------------------------------------------------------
(* No fact here rests on the fairness of ServerSpec, so that they hold of  *)
(* the server's part of HTTPServer as well.                                *)
SafeServer == ServerInit /\ [][ServerNext]_serverVars

LEMMA TypeStays == SafeServer => []TypeOK
<1>1. ServerInit => TypeOK
  BY DEF ServerInit, TypeOK, Places, Items
<1>2. TypeOK /\ [ServerNext]_serverVars => TypeOK'
  <2> SUFFICES ASSUME TypeOK, [ServerNext]_serverVars PROVE TypeOK'
    OBVIOUS
  <2> USE DEF TypeOK, Items, Places
  <2>1. ASSUME NEW m \in Messages, Arrive(m) PROVE TypeOK'
    BY <2>1 DEF Arrive, mainVars, poolVars, outputVars
  <2>2. CASE Read
    <3>1. Head(incoming) \in Messages /\ Tail(incoming) \in Seq(Messages)
      BY <2>2, PopElements DEF Read
    <3>2. Cardinality(Workers) \in Nat
      BY ServerAssumption, FS_CardinalityType
    <3> QED BY <2>2, <3>1, <3>2 DEF Read, poolVars, outputVars
  <2>3. CASE Execute
    BY <2>3 DEF Execute, outputVars
  <2>4. CASE StopWorkers
    <3>1. Append(workingQueue, Null) \in Seq(Items)
      BY PushElements
    <3>2. CASE nulls > 0
      <4>3. nulls' = nulls - 1 /\ workingQueue' = Append(workingQueue, Null)
        BY <2>4, <3>2 DEF StopWorkers, HasRoom
      <4>1. nulls' \in Nat /\ workingQueue' \in Seq(Items)
        BY <4>3, <3>1, <3>2
      <4>2. UNCHANGED <<incoming, current, server, worker, work, outputVars>>
        BY <2>4, <3>2 DEF StopWorkers
      <4> QED BY <4>1, <4>2 DEF outputVars
    <3>3. CASE ~(nulls > 0)
      BY <2>4, <3>3 DEF StopWorkers, outputVars
    <3> QED BY <3>2, <3>3
  <2>5. CASE EndServer
    BY <2>5 DEF EndServer, poolVars, outputVars
  <2>6. CASE Close
    BY <2>6 DEF Close, poolVars
  <2>7. CASE Closed
    BY <2>7 DEF Closed, poolVars, outputVars
  <2>8. ASSUME NEW w \in Workers, Pop(w) PROVE TypeOK'
    <3>1. Head(workingQueue) \in Items /\ Tail(workingQueue) \in Seq(Items)
      BY <2>8, PopElements DEF Pop
    <3> QED BY <2>8, <3>1 DEF Pop, mainVars, outputVars
  <2>9. ASSUME NEW w \in Workers, Run(w) PROVE TypeOK'
    BY <2>9 DEF Run, mainVars
  <2>10. CASE Write \/ EndWriter
    <3>1. Head(msjQueue) \in Items /\ Tail(msjQueue) \in Seq(Items)
      BY <2>10, PopElements DEF Write, EndWriter
    <3>2. Append(written, Head(msjQueue)) \in Seq(Items)
      BY <3>1, PushElements
    <3>3. CASE Write
      BY <3>3, <3>1, <3>2 DEF Write, mainVars, poolVars
    <3>4. CASE EndWriter
      BY <3>4, <3>1 DEF EndWriter, mainVars, poolVars
    <3> QED BY <2>10, <3>3, <3>4
  <2>11. CASE UNCHANGED serverVars
    BY <2>11 DEF serverVars, mainVars, poolVars, outputVars
  <2> QED
    BY <2>1, <2>2, <2>3, <2>4, <2>5, <2>6, <2>7, <2>8, <2>9, <2>10, <2>11
       DEF ServerNext, Main, WorkerStep
<1> QED BY <1>1, <1>2, PTL DEF SafeServer

(* The fields hold what their declarations say.                            *)
THEOREM ServerTypeCorrect == ServerSpec => []TypeOK
BY TypeStays, PTL DEF ServerSpec, SafeServer

-----------------------------------------------------------------------------
(* Where the nulls can be: at the end of the workers' queue, last in the   *)
(* output's.                                                               *)
NullsAtEnd(q) ==
    \A i, j \in 1 .. Len(q) : i < j /\ q[i] = Null => q[j] = Null
NullLast(q) == \A i \in 1 .. Len(q) - 1 : q[i] # Null

LEMMA PushAtEnd ==
    ASSUME NEW q \in Seq(Items), NEW x \in Items,
           NullsAtEnd(q), Null \notin Range(q) \/ x = Null
    PROVE  NullsAtEnd(Append(q, x))
<1>1. /\ Len(Append(q, x)) = Len(q) + 1 /\ Len(q) \in Nat
      /\ \A i \in 1 .. Len(q) : Append(q, x)[i] = q[i]
      /\ Append(q, x)[Len(q) + 1] = x
      /\ DOMAIN q = 1 .. Len(q)
  OBVIOUS
<1> SUFFICES ASSUME NEW i \in 1 .. Len(q) + 1, NEW j \in 1 .. Len(q) + 1,
                    i < j, Append(q, x)[i] = Null
             PROVE  Append(q, x)[j] = Null
  BY <1>1 DEF NullsAtEnd
<1>2. i \in 1 .. Len(q) /\ q[i] = Null
  BY <1>1
<1>3. CASE j \in 1 .. Len(q)
  BY <1>1, <1>2, <1>3 DEF NullsAtEnd
<1>4. CASE j = Len(q) + 1
  BY <1>1, <1>2, <1>4 DEF Range
<1> QED BY <1>1, <1>3, <1>4

LEMMA PopAtEnd ==
    ASSUME NEW q \in Seq(Items), q # <<>>, NullsAtEnd(q)
    PROVE  /\ NullsAtEnd(Tail(q))
           /\ Head(q) = Null => Range(Tail(q)) \subseteq {Null}
<1>1. /\ Head(q) = q[1] /\ Len(q) \in Nat /\ Len(q) # 0
      /\ Len(Tail(q)) = Len(q) - 1 /\ DOMAIN Tail(q) = 1 .. Len(Tail(q))
      /\ \A i \in 1 .. Len(Tail(q)) : Tail(q)[i] = q[i + 1]
  OBVIOUS
<1>2. \A i \in 1 .. Len(Tail(q)) : i + 1 \in 1 .. Len(q) /\ 1 < i + 1
  BY <1>1
<1>3. 1 \in 1 .. Len(q)
  BY <1>1
<1>4. NullsAtEnd(Tail(q))
  <2> SUFFICES ASSUME NEW i \in 1 .. Len(Tail(q)), NEW j \in 1 .. Len(Tail(q)),
                      i < j, Tail(q)[i] = Null
               PROVE  Tail(q)[j] = Null
    BY DEF NullsAtEnd
  <2>1. q[i + 1] = Null /\ i + 1 < j + 1
    BY <1>1
  <2> QED BY <1>1, <1>2, <2>1 DEF NullsAtEnd
<1>5. ASSUME Head(q) = Null, NEW i \in 1 .. Len(Tail(q)) PROVE Tail(q)[i] = Null
  BY <1>1, <1>2, <1>3, <1>5 DEF NullsAtEnd
<1> QED BY <1>1, <1>4, <1>5 DEF Range

LEMMA PushLast ==
    ASSUME NEW q \in Seq(Items), NEW x \in Items, Null \notin Range(q)
    PROVE  NullLast(Append(q, x))
<1>1. /\ Len(Append(q, x)) = Len(q) + 1 /\ Len(q) \in Nat
      /\ \A i \in 1 .. Len(q) : Append(q, x)[i] = q[i]
      /\ DOMAIN q = 1 .. Len(q)
  OBVIOUS
<1> QED BY <1>1 DEF NullLast, Range

LEMMA NothingIn ==
    ASSUME NEW S, NEW q \in Seq(S), Len(q) = 0
    PROVE  q = <<>>
BY EmptySeq

LEMMA PopLast ==
    ASSUME NEW q \in Seq(Items), q # <<>>, NullLast(q)
    PROVE  NullLast(Tail(q)) /\ (Head(q) = Null => Tail(q) = <<>>)
<1>1. /\ Head(q) = q[1] /\ Len(q) \in Nat /\ Len(q) # 0
      /\ Len(Tail(q)) = Len(q) - 1 /\ Tail(q) \in Seq(Items)
      /\ \A i \in 1 .. Len(Tail(q)) : Tail(q)[i] = q[i + 1]
  OBVIOUS
<1>2. NullLast(Tail(q))
  BY <1>1 DEF NullLast
<1>3. ASSUME Head(q) = Null PROVE Tail(q) = <<>>
  <2>1. Len(q) = 1
    BY <1>1, <1>3 DEF NullLast
  <2>2. Len(Tail(q)) = 0
    BY <1>1, <2>1
  <2> QED BY <1>1, <2>2, NothingIn
<1> QED BY <1>2, <1>3

-----------------------------------------------------------------------------
(* The invariant of the shutdown.  A null is in the workers' queue only    *)
(* once the main thread stops reading, and then nothing is pushed behind   *)
(* it; a worker ends only when nothing else is left; the output's null is  *)
(* pushed only when all of them have ended.                                *)
Requested ==
    /\ server = "executing" => current \in Messages
    /\ \A w \in Workers : worker[w] = "running" => work[w] \in Messages

WorkersDrain ==
    /\ NullsAtEnd(workingQueue)
    /\ server \in {"reading", "executing"} =>
          Null \notin Range(workingQueue) /\ \A w \in Workers : worker[w] # "ended"
    /\ (\E w \in Workers : worker[w] = "ended") => Range(workingQueue) \subseteq {Null}
    /\ server \in {"closing", "joiningOutput", "closed"} =>
          \A w \in Workers : worker[w] = "ended"

OutputDrains ==
    /\ NullLast(msjQueue)
    /\ server \notin {"joiningOutput", "closed"} =>
          Null \notin Range(msjQueue) /\ writer # "ended"
    /\ writer = "ended" => msjQueue = <<>>
    /\ server = "closed" => writer = "ended"

Drains == TypeOK /\ Requested /\ WorkersDrain /\ OutputDrains

LEMMA ShutdownDrains == SafeServer => []Drains
<1>1. ServerInit => Requested /\ WorkersDrain /\ OutputDrains
  BY ServerAssumption DEF ServerInit, Requested, WorkersDrain, OutputDrains,
     NullsAtEnd, NullLast, Range
<1>2. /\ TypeOK /\ TypeOK' /\ Requested /\ WorkersDrain /\ OutputDrains
      /\ [ServerNext]_serverVars
      => Requested' /\ WorkersDrain' /\ OutputDrains'
  <2> SUFFICES ASSUME TypeOK, TypeOK', Requested, WorkersDrain, OutputDrains,
                      [ServerNext]_serverVars
               PROVE  Requested' /\ WorkersDrain' /\ OutputDrains'
    OBVIOUS
  <2> USE DEF Requested
  <2>t. /\ workingQueue \in Seq(Items) /\ msjQueue \in Seq(Items)
        /\ incoming \in Seq(Messages) /\ current \in Items /\ Null \in Items
        /\ server \in Places /\ worker \in [Workers -> {"waiting", "running", "ended"}]
        /\ work \in [Workers -> Items] /\ Messages \subseteq Items
        /\ Null \notin Messages
    BY NullIsNoMessage DEF TypeOK, Items
  <2>1. ASSUME NEW m \in Messages, Arrive(m)
        PROVE  Requested' /\ WorkersDrain' /\ OutputDrains'
    BY <2>1 DEF Arrive, mainVars, poolVars, outputVars, WorkersDrain, OutputDrains
  <2>2. CASE Read
    <3>1. Head(incoming) \in Messages
      BY <2>2, <2>t, PopElements DEF Read
    <3>2. server = "reading" /\ server' \in {"executing", "stopping"}
      BY <2>2 DEF Read
    <3>3. UNCHANGED <<poolVars, outputVars>> /\ current' = Head(incoming)
      BY <2>2 DEF Read
    <3> QED BY <3>1, <3>2, <3>3 DEF poolVars, outputVars, WorkersDrain, OutputDrains
  <2>3. CASE Execute
    <3>1. /\ server = "executing" /\ server' = "reading" /\ current \in Messages
          /\ workingQueue' = Append(workingQueue, current)
          /\ UNCHANGED <<worker, work, outputVars>>
      BY <2>3 DEF Execute
    <3>2. Null \notin Range(workingQueue) /\ NullsAtEnd(workingQueue)
      BY <3>1 DEF WorkersDrain
    <3>3. Range(workingQueue') = Range(workingQueue) \cup {current}
      BY <2>t, <3>1, PushElements
    <3>4. NullsAtEnd(workingQueue')
      BY <2>t, <3>1, <3>2, PushAtEnd
    <3> QED BY <2>t, <3>1, <3>2, <3>3, <3>4 DEF outputVars, WorkersDrain, OutputDrains
  <2>4. CASE StopWorkers
    <3>1. CASE nulls > 0
      <4>1. /\ server = "stopping" /\ server' = server
            /\ workingQueue' = Append(workingQueue, Null)
            /\ UNCHANGED <<worker, work, outputVars>>
        BY <2>4, <3>1 DEF StopWorkers, HasRoom
      <4>2. Range(workingQueue') = Range(workingQueue) \cup {Null}
        BY <2>t, <4>1, PushElements
      <4>3. NullsAtEnd(workingQueue')
        BY <2>t, <4>1, PushAtEnd DEF WorkersDrain
      <4> QED BY <4>1, <4>2, <4>3 DEF outputVars, WorkersDrain, OutputDrains
    <3>2. CASE ~(nulls > 0)
      <4>1. /\ server = "stopping" /\ server' = "joining"
            /\ UNCHANGED <<workingQueue, worker, work, outputVars>>
        BY <2>4, <3>2 DEF StopWorkers
      <4> QED BY <4>1 DEF outputVars, WorkersDrain, OutputDrains
    <3> QED BY <3>1, <3>2
  <2>5. CASE EndServer
    BY <2>5 DEF EndServer, poolVars, outputVars, WorkersDrain, OutputDrains
  <2>6. CASE Close
    <3>1. /\ server = "closing" /\ server' = "joiningOutput"
          /\ msjQueue' = Append(msjQueue, Null)
          /\ UNCHANGED <<poolVars, writer>>
      BY <2>6 DEF Close
    <3>2. Null \notin Range(msjQueue) /\ writer # "ended"
      BY <3>1 DEF OutputDrains
    <3>3. NullLast(msjQueue')
      BY <2>t, <3>1, <3>2, PushLast
    <3> QED BY <3>1, <3>2, <3>3 DEF poolVars, WorkersDrain, OutputDrains
  <2>7. CASE Closed
    BY <2>7 DEF Closed, poolVars, outputVars, WorkersDrain, OutputDrains
  <2>8. ASSUME NEW w \in Workers, Pop(w)
        PROVE  Requested' /\ WorkersDrain' /\ OutputDrains'
    <3>1. /\ worker[w] = "waiting" /\ workingQueue # <<>>
          /\ workingQueue' = Tail(workingQueue)
          /\ UNCHANGED <<server, current, msjQueue, writer>>
      BY <2>8 DEF Pop, mainVars, outputVars
    <3>2. /\ NullsAtEnd(Tail(workingQueue))
          /\ Head(workingQueue) = Null => Range(Tail(workingQueue)) \subseteq {Null}
      BY <2>t, <3>1, PopAtEnd DEF WorkersDrain
    <3>3. /\ Range(workingQueue) = {Head(workingQueue)} \cup Range(Tail(workingQueue))
          /\ Head(workingQueue) \in Items
      BY <2>t, <3>1, PopElements
    <3>4. OutputDrains'
      BY <3>1 DEF OutputDrains
    <3>5. CASE Head(workingQueue) = Null
      <4>1. worker' = [worker EXCEPT ![w] = "ended"] /\ work' = work
        BY <2>8, <3>5 DEF Pop
      <4>2. server \notin {"reading", "executing"}
        BY <3>3, <3>5 DEF WorkersDrain
      <4>3. WorkersDrain'
        BY <2>t, <3>1, <3>2, <3>5, <4>1, <4>2 DEF WorkersDrain
      <4> QED BY <2>t, <3>1, <3>4, <4>1, <4>3
    <3>6. CASE Head(workingQueue) # Null
      <4>1. /\ worker' = [worker EXCEPT ![w] = "running"]
            /\ work' = [work EXCEPT ![w] = Head(workingQueue)]
        BY <2>8, <3>6 DEF Pop
      <4>2. \A v \in Workers : worker[v] # "ended"
        BY <3>3, <3>6 DEF WorkersDrain
      <4>3. Head(workingQueue) \in Messages
        BY <3>3, <3>6 DEF Items
      <4>4. \A v \in Workers : worker'[v] # "ended"
        BY <2>t, <4>1, <4>2
      <4>5. WorkersDrain'
        BY <3>1, <3>2, <3>3, <4>2, <4>4 DEF WorkersDrain
      <4> QED BY <2>t, <3>1, <3>4, <4>1, <4>3, <4>5
    <3> QED BY <3>5, <3>6
  <2>9. ASSUME NEW w \in Workers, Run(w)
        PROVE  Requested' /\ WorkersDrain' /\ OutputDrains'
    <3>1. /\ worker[w] = "running" /\ worker' = [worker EXCEPT ![w] = "waiting"]
          /\ msjQueue' = Append(msjQueue, work[w])
          /\ UNCHANGED <<server, current, workingQueue, work, writer>>
      BY <2>9 DEF Run, mainVars
    <3>2. work[w] \in Messages
      BY <3>1
    <3>3. server \notin {"closing", "joiningOutput", "closed"}
      BY <3>1 DEF WorkersDrain
    <3>4. Null \notin Range(msjQueue) /\ writer # "ended"
      BY <3>3 DEF OutputDrains
    <3>5. /\ NullLast(msjQueue')
          /\ Range(msjQueue') = Range(msjQueue) \cup {work[w]}
      BY <2>t, <3>1, <3>2, <3>4, PushLast, PushElements
    <3>6. OutputDrains'
      BY <2>t, <3>1, <3>2, <3>3, <3>4, <3>5 DEF OutputDrains
    <3>7. \A v \in Workers : worker'[v] = "ended" <=> worker[v] = "ended"
      BY <2>t, <3>1
    <3>8. WorkersDrain'
      BY <3>1, <3>3, <3>7 DEF WorkersDrain
    <3> QED BY <2>t, <3>1, <3>6, <3>8
  <2>10. CASE Write \/ EndWriter
    <3>1. /\ writer = "waiting" /\ msjQueue # <<>> /\ msjQueue' = Tail(msjQueue)
          /\ UNCHANGED <<server, current, workingQueue, worker, work>>
      BY <2>10 DEF Write, EndWriter, mainVars, poolVars
    <3>2. /\ NullLast(Tail(msjQueue))
          /\ Head(msjQueue) = Null => Tail(msjQueue) = <<>>
      BY <2>t, <3>1, PopLast DEF OutputDrains
    <3>3. Range(msjQueue) = {Head(msjQueue)} \cup Range(Tail(msjQueue))
      BY <2>t, <3>1, PopElements
    <3>4. CASE Write
      BY <3>1, <3>2, <3>3, <3>4 DEF Write, WorkersDrain, OutputDrains
    <3>5. CASE EndWriter
      <4>1. Head(msjQueue) = Null /\ writer' = "ended"
        BY <3>5 DEF EndWriter
      <4> QED BY <3>1, <3>2, <3>3, <4>1 DEF WorkersDrain, OutputDrains
    <3> QED BY <2>10, <3>4, <3>5
  <2>11. CASE UNCHANGED serverVars
    BY <2>11 DEF serverVars, mainVars, poolVars, outputVars, WorkersDrain, OutputDrains
  <2> QED
    BY <2>1, <2>2, <2>3, <2>4, <2>5, <2>6, <2>7, <2>8, <2>9, <2>10, <2>11
       DEF ServerNext, Main, WorkerStep
<1> QED BY <1>1, <1>2, TypeStays, PTL DEF SafeServer, Drains

-----------------------------------------------------------------------------
USE DEF InQueue, InOutput

(* When the last worker has ended, every request that was read is on its   *)
(* way to the output.                                                      *)
LEMMA LeavesNothing == Drains => NothingLeftBehind
<1> SUFFICES ASSUME Drains, \A w \in Workers : worker[w] = "ended"
             PROVE  Accepted = InOutput \cup Answered
  BY DEF NothingLeftBehind
<1>1. PICK w \in Workers : worker[w] = "ended"
  BY ServerAssumption
<1>2. Range(workingQueue) \subseteq {Null} /\ server # "executing"
  BY <1>1 DEF Drains, WorkersDrain
<1>3. InWork = {}
  BY DEF InWork
<1> QED BY <1>2, <1>3 DEF Accepted, InHand

THEOREM ServerLeavesNothing == ServerSpec => []NothingLeftBehind
BY ShutdownDrains, LeavesNothing, PTL DEF ServerSpec, SafeServer

-----------------------------------------------------------------------------
(* What a step does to the requests on their way: reading takes one in,    *)
(* writing answers one, and no other step tells.                           *)
LEMMA ReadAccepts ==
    ASSUME Drains, Read
    PROVE  /\ Head(incoming) \in Messages /\ Answered' = Answered /\ Phase = "open"
           /\ Accepted' = Accepted \cup IF Head(incoming).stops THEN {} ELSE {Head(incoming)}
           /\ Phase' = IF Head(incoming).stops THEN "draining" ELSE "open"
<1>1. incoming \in Seq(Messages) /\ incoming # <<>> /\ Head(incoming) \in Messages
  <2>1. incoming \in Seq(Messages) /\ incoming # <<>>
    BY DEF Drains, TypeOK, Read
  <2> QED BY <2>1, PopElements
<1>2. /\ server = "reading" /\ current' = Head(incoming)
      /\ UNCHANGED <<workingQueue, worker, work, msjQueue, written>>
  BY DEF Read, poolVars, outputVars
<1>3. UNCHANGED <<InWork, Answered>> /\ InHand = {} /\ Phase = "open"
  BY <1>2 DEF InWork, Answered, InHand, Phase
<1>4. CASE Head(incoming).stops
  <2>1. server' = "stopping"
    BY <1>4 DEF Read
  <2> QED BY <1>1, <1>2, <1>3, <1>4, <2>1 DEF Accepted, InHand, Phase
<1>5. CASE ~ Head(incoming).stops
  <2>1. server' = "executing"
    BY <1>5 DEF Read
  <2>2. Accepted' = Accepted \cup {Head(incoming)} /\ Phase' = "open"
    BY <1>2, <1>3, <2>1 DEF Accepted, InHand, Phase
  <2> QED BY <1>1, <1>3, <1>5, <2>2
<1> QED BY <1>4, <1>5

LEMMA WriteAnswers ==
    ASSUME Drains, Write
    PROVE  /\ Head(msjQueue) \in Messages /\ Head(msjQueue) \in InOutput
           /\ Accepted' = Accepted /\ Answered' = Answered \cup {Head(msjQueue)}
           /\ Phase' = Phase
<1>t. /\ msjQueue \in Seq(Items) /\ written \in Seq(Items)
  BY DEF Drains, TypeOK
<1>1. /\ msjQueue # <<>> /\ Head(msjQueue) # Null /\ msjQueue' = Tail(msjQueue)
      /\ written' = Append(written, Head(msjQueue))
      /\ UNCHANGED <<server, current, workingQueue, worker, work>>
  BY DEF Write, mainVars, poolVars
<1>2. /\ Range(msjQueue) = {Head(msjQueue)} \cup Range(msjQueue')
      /\ Head(msjQueue) \in Messages
  BY <1>t, <1>1, PopElements DEF Items
<1>3. Answered' = Answered \cup {Head(msjQueue)}
  BY <1>t, <1>1, <1>2, PushElements DEF Answered, Items
<1>4. UNCHANGED <<InHand, InWork, Phase, Range(workingQueue)>>
  BY <1>1 DEF InHand, InWork, Phase
<1>5. Accepted' = Accepted
  BY <1>1, <1>2, <1>3, <1>4 DEF Accepted
<1> QED BY <1>1, <1>2, <1>3, <1>4, <1>5

(* The steps that neither take in a request nor answer one.                *)
Others ==
    \/ \E m \in Messages : Arrive(m)
    \/ Execute \/ StopWorkers \/ EndServer \/ Close \/ Closed
    \/ \E w \in Workers : WorkerStep(w)
    \/ EndWriter \/ UNCHANGED serverVars

LEMMA OthersTellNothing ==
    ASSUME Drains, Others
    PROVE  Accepted' = Accepted /\ Answered' = Answered
           /\ \/ Phase' = Phase
              \/ Phase = "draining" /\ Phase' = "over" /\ Accepted = Answered
<1>t. /\ workingQueue \in Seq(Items) /\ msjQueue \in Seq(Items) /\ written \in Seq(Items)
      /\ incoming \in Seq(Messages) /\ current \in Items /\ Null \in Items
      /\ server \in Places /\ worker \in [Workers -> {"waiting", "running", "ended"}]
      /\ work \in [Workers -> Items] /\ Messages \subseteq Items
      /\ Null \notin Messages
  BY NullIsNoMessage DEF Drains, TypeOK, Items
<1>s. Requested /\ WorkersDrain /\ OutputDrains
  BY DEF Drains
<1>1. ASSUME NEW m \in Messages, Arrive(m)
      PROVE  UNCHANGED <<Accepted, Answered, Phase>>
  BY <1>1 DEF Arrive, mainVars, poolVars, outputVars, Accepted, Answered, Phase,
     InHand, InWork
<1>3. ASSUME Execute PROVE UNCHANGED <<Accepted, Answered, Phase>>
  <2>1. /\ server = "executing" /\ server' = "reading" /\ current \in Messages
        /\ workingQueue' = Append(workingQueue, current)
        /\ UNCHANGED <<worker, work, msjQueue, written>>
    BY <1>3, <1>s DEF Execute, Requested, outputVars
  <2>2. Range(workingQueue') = Range(workingQueue) \cup {current}
    BY <1>t, <2>1, PushElements
  <2>3. InHand = {current} /\ InHand' = {} /\ current # Null
    BY <1>t, <2>1 DEF InHand
  <2>4. UNCHANGED <<InWork, Answered, Phase, Range(msjQueue)>>
    BY <2>1 DEF InWork, Answered, Phase
  <2> QED BY <2>2, <2>3, <2>4 DEF Accepted
<1>4. ASSUME StopWorkers PROVE UNCHANGED <<Accepted, Answered, Phase>>
  <2>1. /\ server = "stopping" /\ server' \in {"stopping", "joining"}
        /\ workingQueue' \in {workingQueue, Append(workingQueue, Null)}
        /\ UNCHANGED <<worker, work, msjQueue, written>>
    BY <1>4 DEF StopWorkers, HasRoom, outputVars
  <2>2. Range(workingQueue') \ {Null} = Range(workingQueue) \ {Null}
    <3>1. CASE workingQueue' = workingQueue
      BY <3>1
    <3>2. CASE workingQueue' = Append(workingQueue, Null)
      BY <1>t, <3>2, PushElements
    <3> QED BY <2>1, <3>1, <3>2
  <2>3. UNCHANGED <<InHand, InWork, Answered, Phase, Range(msjQueue)>>
    BY <2>1 DEF InHand, InWork, Answered, Phase
  <2> QED BY <2>2, <2>3 DEF Accepted
<1>5. ASSUME EndServer PROVE UNCHANGED <<Accepted, Answered, Phase>>
  BY <1>5 DEF EndServer, poolVars, outputVars, Accepted, Answered, Phase, InHand, InWork
<1>6. ASSUME Close PROVE UNCHANGED <<Accepted, Answered, Phase>>
  <2>1. /\ server = "closing" /\ server' = "joiningOutput"
        /\ msjQueue' = Append(msjQueue, Null)
        /\ UNCHANGED <<workingQueue, worker, work, written>>
    BY <1>6 DEF Close, poolVars
  <2>2. Range(msjQueue') = Range(msjQueue) \cup {Null}
    BY <1>t, <2>1, PushElements
  <2>3. UNCHANGED <<InHand, InWork, Answered, Phase, Range(workingQueue)>>
    BY <2>1 DEF InHand, InWork, Answered, Phase
  <2> QED BY <2>2, <2>3 DEF Accepted
<1>7. ASSUME Closed
      PROVE  /\ UNCHANGED <<Accepted, Answered>> /\ Accepted = Answered
             /\ Phase = "draining" /\ Phase' = "over"
  <2>1. /\ server = "joiningOutput" /\ server' = "closed" /\ writer = "ended"
        /\ UNCHANGED <<workingQueue, worker, work, msjQueue, written>>
    BY <1>7 DEF Closed, poolVars, outputVars
  <2>2. UNCHANGED <<Accepted, Answered>> /\ Phase = "draining" /\ Phase' = "over"
    BY <2>1 DEF Accepted, Answered, InHand, InWork, Phase
  <2>3. Accepted = Answered
    <3>1. \A w \in Workers : worker[w] = "ended"
      BY <1>s, <2>1 DEF WorkersDrain
    <3>2. Range(msjQueue) = {}
      BY <1>s, <2>1 DEF OutputDrains, Range
    <3> QED BY <3>1, <3>2, LeavesNothing DEF NothingLeftBehind
  <2> QED BY <2>2, <2>3
<1>8. ASSUME NEW w \in Workers, Pop(w)
      PROVE  UNCHANGED <<Accepted, Answered, Phase>>
  <2>1. /\ worker[w] = "waiting" /\ workingQueue # <<>>
        /\ workingQueue' = Tail(workingQueue)
        /\ UNCHANGED <<server, current, msjQueue, written>>
    BY <1>8 DEF Pop, mainVars, outputVars
  <2>2. Range(workingQueue) = {Head(workingQueue)} \cup Range(workingQueue')
    BY <1>t, <2>1, PopElements
  <2>3. UNCHANGED <<InHand, Answered, Phase, Range(msjQueue)>>
    BY <2>1 DEF InHand, Answered, Phase
  <2>4. CASE Head(workingQueue) = Null
    <3>1. worker' = [worker EXCEPT ![w] = "ended"] /\ work' = work
      BY <1>8, <2>4 DEF Pop
    <3>2. InWork' = InWork
      BY <1>t, <2>1, <3>1 DEF InWork
    <3> QED BY <2>2, <2>3, <2>4, <3>2 DEF Accepted
  <2>5. CASE Head(workingQueue) # Null
    <3>1. /\ worker' = [worker EXCEPT ![w] = "running"]
          /\ work' = [work EXCEPT ![w] = Head(workingQueue)]
      BY <1>8, <2>5 DEF Pop
    <3>2. InWork' = InWork \cup {Head(workingQueue)}
      BY <1>t, <2>1, <3>1 DEF InWork
    <3> QED BY <2>2, <2>3, <2>5, <3>2 DEF Accepted
  <2> QED BY <2>4, <2>5
<1>9. ASSUME NEW w \in Workers, Run(w)
      PROVE  UNCHANGED <<Accepted, Answered, Phase>>
  <2>1. /\ worker[w] = "running" /\ worker' = [worker EXCEPT ![w] = "waiting"]
        /\ msjQueue' = Append(msjQueue, work[w])
        /\ UNCHANGED <<server, current, workingQueue, work, written>>
    BY <1>9 DEF Run, mainVars
  <2>2. work[w] \in Messages
    BY <1>s, <2>1 DEF Requested
  <2>3. Range(msjQueue') = Range(msjQueue) \cup {work[w]} /\ work[w] # Null
    BY <1>t, <2>1, <2>2, PushElements
  <2>4. UNCHANGED <<InHand, Answered, Phase, Range(workingQueue)>>
    BY <2>1 DEF InHand, Answered, Phase
  <2>5. InWork = InWork' \cup {work[w]}
    BY <1>t, <2>1 DEF InWork
  <2> QED BY <2>3, <2>4, <2>5 DEF Accepted
<1>11. ASSUME EndWriter PROVE UNCHANGED <<Accepted, Answered, Phase>>
  <2>1. /\ msjQueue # <<>> /\ Head(msjQueue) = Null /\ msjQueue' = Tail(msjQueue)
        /\ UNCHANGED <<server, current, workingQueue, worker, work, written>>
    BY <1>11 DEF EndWriter, mainVars, poolVars
  <2>2. Range(msjQueue) = {Null} \cup Range(msjQueue')
    BY <1>t, <2>1, PopElements
  <2>3. UNCHANGED <<InHand, InWork, Answered, Phase, Range(workingQueue)>>
    BY <2>1 DEF InHand, InWork, Answered, Phase
  <2> QED BY <2>2, <2>3 DEF Accepted
<1>12. CASE UNCHANGED serverVars
  BY <1>12 DEF serverVars, mainVars, poolVars, outputVars, Accepted, Answered,
     Phase, InHand, InWork
<1> QED
  BY <1>1, <1>3, <1>4, <1>5, <1>6, <1>7, <1>8, <1>9, <1>11, <1>12
     DEF Others, WorkerStep

(* Every step of the daemon is a step of Service or none.                  *)
LEMMA StepServes ==
    Drains /\ [ServerNext]_serverVars => [Promise!Next]_<<Accepted, Answered, Phase>>
<1> SUFFICES ASSUME Drains, [ServerNext]_serverVars
             PROVE  [Promise!Next]_<<Accepted, Answered, Phase>>
  OBVIOUS
<1>1. CASE Read
  <2> DEFINE m == Head(incoming)
  <2>1. /\ m \in Messages /\ Answered' = Answered /\ Phase = "open"
        /\ Accepted' = Accepted \cup IF m.stops THEN {} ELSE {m}
        /\ Phase' = IF m.stops THEN "draining" ELSE "open"
    BY <1>1, ReadAccepts
  <2> HIDE DEF m
  <2>2. CASE m.stops
    BY <2>1, <2>2 DEF Promise!Next, Promise!Stop
  <2>3. CASE ~ m.stops /\ m \in Accepted
    BY <2>1, <2>3
  <2>4. CASE ~ m.stops /\ m \notin Accepted
    BY <2>1, <2>4 DEF Promise!Next, Promise!Accept
  <2> QED BY <2>2, <2>3, <2>4
<1>2. CASE Write
  <2> DEFINE m == Head(msjQueue)
  <2>1. /\ m \in Messages /\ m \in Accepted
        /\ Accepted' = Accepted /\ Answered' = Answered \cup {m} /\ Phase' = Phase
    BY <1>2, WriteAnswers DEF Accepted
  <2> HIDE DEF m
  <2>2. CASE m \in Answered
    BY <2>1, <2>2
  <2>3. CASE m \notin Answered
    BY <2>1, <2>3 DEF Promise!Next, Promise!Answer
  <2> QED BY <2>2, <2>3
<1>3. CASE Others
  BY <1>3, OthersTellNothing DEF Promise!Next, Promise!End
<1> QED BY <1>1, <1>2, <1>3 DEF Others, ServerNext, Main

LEMMA SafeServes == SafeServer => Serves
<1>1. ServerInit => Promise!Init
  <2> SUFFICES ASSUME ServerInit PROVE Promise!Init
    OBVIOUS
  <2>1. InHand = {} /\ InWork = {} /\ Phase = "open"
    BY DEF ServerInit, InHand, InWork, Phase
  <2>2. Range(workingQueue) = {} /\ Range(msjQueue) = {} /\ Range(written) = {}
    BY DEF ServerInit, Range
  <2> QED BY <2>1, <2>2 DEF Promise!Init, Accepted, Answered
<1> QED BY <1>1, StepServes, ShutdownDrains, PTL DEF SafeServer, Serves, Promise!Spec

(* A daemon of any number of workers, with a queue of any capacity, does   *)
(* what Service promises: what it answers it read, and it ends only when   *)
(* everything it read is answered.                                         *)
THEOREM ServerServes == ServerSpec => Serves
BY SafeServes, PTL DEF ServerSpec, SafeServer
-----------------------------------------------------------------------------
(* A request goes from place to place: what a step takes from one queue it *)
(* puts in one other.                                                      *)
LEMMA OncePush ==
    ASSUME NEW S, NEW q \in Seq(S), Once(q), NEW x \in S, x = Null \/ x \notin Range(q)
    PROVE  Once(Append(q, x))
<1>1. /\ Len(q) \in Nat /\ DOMAIN q = 1 .. Len(q)
      /\ DOMAIN Append(q, x) = 1 .. Len(q) + 1
      /\ \A i \in 1 .. Len(q) : Append(q, x)[i] = q[i]
      /\ Append(q, x)[Len(q) + 1] = x
  OBVIOUS
<1>2. \A i \in 1 .. Len(q) + 1 : i \in 1 .. Len(q) \/ i = Len(q) + 1
  BY <1>1
<1>3. \A i \in 1 .. Len(q) : q[i] = x => x = Null
  BY <1>1 DEF Range
<1> QED BY <1>1, <1>2, <1>3 DEF Once

LEMMA OncePop ==
    ASSUME NEW S, NEW q \in Seq(S), q # <<>>, Once(q)
    PROVE  /\ Once(Tail(q))
           /\ Head(q) # Null => Head(q) \notin Range(Tail(q))
<1>1. /\ DOMAIN q = 1 .. Len(q) /\ DOMAIN Tail(q) = 1 .. Len(Tail(q))
      /\ \A i \in 1 .. Len(Tail(q)) : i + 1 \in 1 .. Len(q) /\ Tail(q)[i] = q[i + 1]
      /\ Head(q) = q[1] /\ 1 \in 1 .. Len(q)
  <2>1. Tail(q) \in Seq(S)
    BY PopElements
  <2> QED BY <2>1, PopElements
<1>2. Once(Tail(q))
  <2> SUFFICES ASSUME NEW i \in 1 .. Len(Tail(q)), NEW j \in 1 .. Len(Tail(q)),
                      Tail(q)[i] = Tail(q)[j], Tail(q)[i] # Null
               PROVE  i = j
    BY <1>1 DEF Once
  <2>1. i + 1 = j + 1
    BY <1>1 DEF Once
  <2> QED BY <2>1
<1>3. ASSUME NEW i \in 1 .. Len(Tail(q)), Tail(q)[i] = Head(q), Head(q) # Null
      PROVE  FALSE
  <2>1. i + 1 = 1
    BY <1>1, <1>3 DEF Once
  <2> QED BY <2>1
<1> QED BY <1>1, <1>2, <1>3 DEF Range

Apart(I, H, Q, W, O, A) ==
    /\ I \cap H = {} /\ I \cap Q = {} /\ I \cap W = {} /\ I \cap O = {} /\ I \cap A = {}
    /\ H \cap Q = {} /\ H \cap W = {} /\ H \cap O = {} /\ H \cap A = {}
    /\ Q \cap W = {} /\ Q \cap O = {} /\ Q \cap A = {}
    /\ W \cap O = {} /\ W \cap A = {} /\ O \cap A = {}

OneWorkerEach ==
    \A v, w \in Workers :
       worker[v] = "running" /\ worker[w] = "running" /\ work[v] = work[w] => v = w

(* ... and the messages nobody has read are in none of them yet.           *)
PlacesInv ==
    /\ Once(incoming) /\ Once(workingQueue) /\ Once(msjQueue) /\ Once(written)
    /\ OneWorkerEach
    /\ Apart(Range(incoming), InHand, InQueue, InWork, InOutput, Answered)
    /\ \A m \in Range(incoming) \cup Accepted : m.n \in arrived

LEMMA PlacesAreOne == PlacesInv => InOnePlace
<1> SUFFICES ASSUME PlacesInv PROVE InOnePlace
  OBVIOUS
<1> DEFINE places == <<InHand, InQueue, InWork, InOutput, Answered>>
<1>1. \A i, j \in DOMAIN places : i # j => places[i] \cap places[j] = {}
  <2>1. /\ InHand \cap InQueue = {} /\ InHand \cap InWork = {} /\ InHand \cap InOutput = {}
        /\ InHand \cap Answered = {} /\ InQueue \cap InWork = {} /\ InQueue \cap InOutput = {}
        /\ InQueue \cap Answered = {} /\ InWork \cap InOutput = {}
        /\ InWork \cap Answered = {} /\ InOutput \cap Answered = {}
    BY Zenon DEF PlacesInv, Apart
  <2>2. /\ DOMAIN places = {1, 2, 3, 4, 5}
        /\ places[1] = InHand /\ places[2] = InQueue /\ places[3] = InWork
        /\ places[4] = InOutput /\ places[5] = Answered
    OBVIOUS
  <2>3. \A X, Y : X \cap Y = Y \cap X
    OBVIOUS
  <2> HIDE DEF places, InQueue, InOutput
  <2> QED BY <2>1, <2>2, <2>3
<1> QED BY <1>1 DEF PlacesInv, OneWorkerEach, InOnePlace

LEMMA InitPlaces == ServerInit => PlacesInv
<1> SUFFICES ASSUME ServerInit PROVE PlacesInv
  OBVIOUS
<1>1. /\ Range(incoming) = {} /\ Range(workingQueue) = {} /\ Range(msjQueue) = {}
      /\ Range(written) = {} /\ InHand = {} /\ InWork = {}
  BY DEF ServerInit, Range, InHand, InWork
<1> QED
  BY <1>1 DEF ServerInit, PlacesInv, Apart, Once, OneWorkerEach, Accepted, Answered

LEMMA StepPlaces ==
    ASSUME Drains, PlacesInv, [ServerNext]_serverVars
    PROVE  PlacesInv'
<1>t. /\ workingQueue \in Seq(Items) /\ msjQueue \in Seq(Items) /\ written \in Seq(Items)
      /\ incoming \in Seq(Messages) /\ current \in Items /\ Null \in Items
      /\ worker \in [Workers -> {"waiting", "running", "ended"}]
      /\ work \in [Workers -> Items] /\ Messages \subseteq Items
      /\ Null \notin Messages
      /\ server = "executing" => current \in Messages
      /\ \A w \in Workers : worker[w] = "running" => work[w] \in Messages
  BY NullIsNoMessage DEF Drains, TypeOK, Items, Requested
<1>s. /\ Once(incoming) /\ Once(workingQueue) /\ Once(msjQueue) /\ Once(written)
      /\ OneWorkerEach
      /\ Apart(Range(incoming), InHand, InQueue, InWork, InOutput, Answered)
      /\ \A m \in Range(incoming) \cup Accepted : m.n \in arrived
  BY DEF PlacesInv
<1>e. ASSUME UNCHANGED <<incoming, arrived, poolVars, outputVars>>, InHand' = InHand
      PROVE  PlacesInv'
  BY <1>e DEF PlacesInv, poolVars, outputVars, OneWorkerEach, Accepted, InWork, Answered
<1>1. ASSUME NEW m \in Messages, Arrive(m) PROVE PlacesInv'
  <2>1. /\ m.n \notin arrived /\ arrived' = arrived \cup {m.n}
        /\ incoming' = Append(incoming, m)
        /\ UNCHANGED <<server, current, workingQueue, worker, work, msjQueue, written>>
    BY <1>1 DEF Arrive, mainVars, poolVars, outputVars
  <2>2. Range(incoming') = Range(incoming) \cup {m}
    BY <1>t, <2>1, PushElements
  <2>3. m \notin Range(incoming) /\ m \notin Accepted
    BY <1>s, <2>1
  <2>4. Once(incoming')
    BY <1>t, <1>s, <2>1, <2>3, OncePush
  <2>5. UNCHANGED <<InHand, InQueue, InWork, InOutput, Answered, Accepted, OneWorkerEach>>
    BY <2>1 DEF InHand, InWork, Answered, Accepted, OneWorkerEach
  <2>6. Apart(Range(incoming), InHand, InQueue, InWork, InOutput, Answered)'
    <3>1. m \notin InHand /\ m \notin InQueue /\ m \notin InWork /\ m \notin InOutput
          /\ m \notin Answered
      BY <2>3 DEF Accepted
    <3> HIDE DEF InQueue, InOutput
    <3> QED BY <1>s, <2>2, <2>5, <3>1 DEF Apart
  <2>7. \A x \in Range(incoming') \cup Accepted' : x.n \in arrived'
    BY <1>s, <2>1, <2>2, <2>5
  <2> QED BY <1>s, <2>1, <2>4, <2>5, <2>6, <2>7 DEF PlacesInv
<1>2. CASE Read
  <2> DEFINE m == Head(incoming)
  <2>1. /\ server = "reading" /\ incoming # <<>> /\ incoming' = Tail(incoming)
        /\ current' = m /\ server' \in {"executing", "stopping"}
        /\ UNCHANGED <<arrived, workingQueue, worker, work, msjQueue, written>>
    BY <1>2 DEF Read, poolVars, outputVars
  <2>2. m \in Messages /\ Range(incoming) = {m} \cup Range(incoming')
    BY <1>t, <2>1, PopElements
  <2>3. Once(incoming') /\ m \notin Range(incoming')
    BY <1>t, <1>s, <2>1, <2>2, OncePop
  <2>4. InHand = {} /\ (InHand' = {} \/ InHand' = {m})
    BY <2>1 DEF InHand
  <2>5. UNCHANGED <<InQueue, InWork, InOutput, Answered, OneWorkerEach>>
    BY <2>1 DEF InWork, Answered, OneWorkerEach
  <2> HIDE DEF m, InQueue, InOutput
  <2>6. Apart(Range(incoming), InHand, InQueue, InWork, InOutput, Answered)'
    BY <1>s, <2>2, <2>3, <2>4, <2>5 DEF Apart
  <2>7. \A x \in Range(incoming') \cup Accepted' : x.n \in arrived'
    BY <1>s, <2>1, <2>2, <2>4, <2>5 DEF Accepted
  <2> QED BY <1>s, <2>1, <2>3, <2>5, <2>6, <2>7 DEF PlacesInv
<1>3. CASE Execute
  <2>1. /\ server = "executing" /\ server' = "reading" /\ current \in Messages
        /\ workingQueue' = Append(workingQueue, current)
        /\ UNCHANGED <<incoming, arrived, worker, work, msjQueue, written>>
    BY <1>3, <1>t DEF Execute, outputVars
  <2>2. Range(workingQueue') = Range(workingQueue) \cup {current} /\ current # Null
    BY <1>t, <2>1, PushElements
  <2>3. InHand = {current} /\ InHand' = {} /\ InQueue' = InQueue \cup {current}
    BY <2>1, <2>2 DEF InHand
  <2>4. current \notin InQueue
    BY <1>s, <2>3 DEF Apart
  <2>5. Once(workingQueue')
    BY <1>t, <1>s, <2>1, <2>2, <2>4, OncePush
  <2>6. UNCHANGED <<InWork, InOutput, Answered, OneWorkerEach>>
    BY <2>1 DEF InWork, Answered, OneWorkerEach
  <2> HIDE DEF InQueue, InOutput
  <2>7. Apart(Range(incoming), InHand, InQueue, InWork, InOutput, Answered)'
    BY <1>s, <2>1, <2>3, <2>6 DEF Apart
  <2>8. Accepted' = Accepted
    BY <2>3, <2>6 DEF Accepted
  <2> QED BY <1>s, <2>1, <2>5, <2>6, <2>7, <2>8 DEF PlacesInv
<1>4. CASE StopWorkers
  <2>1. /\ workingQueue' = workingQueue \/ workingQueue' = Append(workingQueue, Null)
        /\ server = "stopping" /\ server' # "executing"
        /\ UNCHANGED <<incoming, arrived, worker, work, msjQueue, written>>
    BY <1>4 DEF StopWorkers, HasRoom, outputVars
  <2>2. InQueue' = InQueue /\ Once(workingQueue')
    <3>1. Range(Append(workingQueue, Null)) = Range(workingQueue) \cup {Null}
      BY <1>t, PushElements
    <3>2. Once(Append(workingQueue, Null))
      BY <1>t, <1>s, OncePush
    <3> QED BY <1>s, <2>1, <3>1, <3>2
  <2>3. UNCHANGED <<InHand, InWork, InOutput, Answered, OneWorkerEach>>
    BY <2>1 DEF InHand, InWork, Answered, OneWorkerEach
  <2> HIDE DEF InQueue, InOutput
  <2> QED BY <1>s, <2>1, <2>2, <2>3 DEF PlacesInv, Accepted
<1>5. CASE EndServer \/ Closed
  <2>1. UNCHANGED <<incoming, arrived, poolVars, outputVars>> /\ InHand' = InHand
    BY <1>5 DEF EndServer, Closed, InHand
  <2> QED BY <1>e, <2>1
<1>6. CASE Close
  <2>1. /\ msjQueue' = Append(msjQueue, Null)
        /\ server = "closing" /\ server' = "joiningOutput"
        /\ UNCHANGED <<incoming, arrived, workingQueue, worker, work, written>>
    BY <1>6 DEF Close, poolVars
  <2>2. InOutput' = InOutput /\ Once(msjQueue')
    <3>1. Range(Append(msjQueue, Null)) = Range(msjQueue) \cup {Null}
      BY <1>t, PushElements
    <3>2. Once(Append(msjQueue, Null))
      BY <1>t, <1>s, OncePush
    <3> QED BY <2>1, <3>1, <3>2
  <2>3. UNCHANGED <<InHand, InQueue, InWork, Answered, OneWorkerEach>>
    BY <2>1 DEF InHand, InWork, Answered, OneWorkerEach
  <2> HIDE DEF InQueue, InOutput
  <2> QED BY <1>s, <2>1, <2>2, <2>3 DEF PlacesInv, Accepted
<1>7. ASSUME NEW w \in Workers, Pop(w) PROVE PlacesInv'
  <2> DEFINE m == Head(workingQueue)
  <2>1. /\ worker[w] = "waiting" /\ workingQueue # <<>>
        /\ workingQueue' = Tail(workingQueue)
        /\ UNCHANGED <<incoming, arrived, server, current, msjQueue, written>>
    BY <1>7 DEF Pop, mainVars, outputVars
  <2>2. Range(workingQueue) = {m} \cup Range(workingQueue')
    BY <1>t, <2>1, PopElements
  <2>3. /\ Once(workingQueue')
        /\ m # Null => m \notin Range(workingQueue')
    BY <1>t, <1>s, <2>1, OncePop
  <2>4. UNCHANGED <<InHand, InOutput, Answered>>
    BY <2>1 DEF InHand, Answered
  <2>5. CASE m = Null
    <3>1. worker' = [worker EXCEPT ![w] = "ended"] /\ work' = work
      BY <1>7, <2>5 DEF Pop
    <3>2. InWork' = InWork /\ OneWorkerEach'
      BY <1>t, <1>s, <2>1, <3>1 DEF InWork, OneWorkerEach
    <3>3. InQueue' = InQueue
      BY <2>2, <2>5
    <3> HIDE DEF m, InQueue, InOutput
    <3> QED BY <1>s, <2>1, <2>3, <2>4, <3>2, <3>3 DEF PlacesInv, Accepted
  <2>6. CASE m # Null
    <3>1. /\ worker' = [worker EXCEPT ![w] = "running"]
          /\ work' = [work EXCEPT ![w] = m]
      BY <1>7, <2>6 DEF Pop
    <3>2. InWork' = InWork \cup {m}
      BY <1>t, <2>1, <3>1 DEF InWork
    <3>3. InQueue = InQueue' \cup {m} /\ m \notin InQueue'
      BY <2>2, <2>3, <2>6
    <3>4. m \notin InWork
      BY <1>s, <3>3 DEF Apart
    <3>5. OneWorkerEach'
      <4>1. \A v \in Workers : worker[v] = "running" => work[v] # m
        BY <3>4 DEF InWork
      <4> HIDE DEF m
      <4> QED BY <1>t, <1>s, <3>1, <4>1 DEF OneWorkerEach
    <3> HIDE DEF m, InQueue, InOutput
    <3>6. Apart(Range(incoming), InHand, InQueue, InWork, InOutput, Answered)'
      BY <1>s, <2>1, <2>4, <3>2, <3>3 DEF Apart
    <3>7. Accepted' = Accepted
      BY <2>4, <3>2, <3>3 DEF Accepted
    <3> QED BY <1>s, <2>1, <2>3, <3>5, <3>6, <3>7 DEF PlacesInv
  <2> QED BY <2>5, <2>6
<1>8. ASSUME NEW w \in Workers, Run(w) PROVE PlacesInv'
  <2> DEFINE m == work[w]
  <2>1. /\ worker[w] = "running" /\ worker' = [worker EXCEPT ![w] = "waiting"]
        /\ msjQueue' = Append(msjQueue, m)
        /\ UNCHANGED <<incoming, arrived, server, current, workingQueue, work, written>>
    BY <1>8 DEF Run, mainVars
  <2>2. m \in Messages /\ m # Null /\ m \in InWork
    BY <1>t, <2>1 DEF InWork
  <2>3. Range(msjQueue') = Range(msjQueue) \cup {m}
    BY <1>t, <2>1, <2>2, PushElements
  <2>4. InOutput' = InOutput \cup {m} /\ m \notin InOutput
    BY <1>s, <2>2, <2>3 DEF Apart
  <2>5. Once(msjQueue')
    BY <1>t, <1>s, <2>1, <2>2, <2>4, OncePush
  <2>6. InWork = InWork' \cup {m} /\ m \notin InWork'
    BY <1>t, <1>s, <2>1 DEF InWork, OneWorkerEach
  <2>7. OneWorkerEach'
    BY <1>t, <1>s, <2>1 DEF OneWorkerEach
  <2>8. UNCHANGED <<InHand, InQueue, Answered>>
    BY <2>1 DEF InHand, Answered
  <2> HIDE DEF m, InQueue, InOutput
  <2>9. Apart(Range(incoming), InHand, InQueue, InWork, InOutput, Answered)'
    BY <1>s, <2>1, <2>4, <2>6, <2>8 DEF Apart
  <2>10. Accepted' = Accepted
    BY <2>4, <2>6, <2>8 DEF Accepted
  <2> QED BY <1>s, <2>1, <2>5, <2>7, <2>9, <2>10 DEF PlacesInv
<1>9. CASE Write \/ EndWriter
  <2> DEFINE m == Head(msjQueue)
  <2>1. /\ msjQueue # <<>> /\ msjQueue' = Tail(msjQueue)
        /\ UNCHANGED <<incoming, arrived, server, current, workingQueue, worker, work>>
    BY <1>9 DEF Write, EndWriter, mainVars, poolVars
  <2>2. Range(msjQueue) = {m} \cup Range(msjQueue') /\ m \in Items
    BY <1>t, <2>1, PopElements
  <2>3. /\ Once(msjQueue')
        /\ m # Null => m \notin Range(msjQueue')
    BY <1>t, <1>s, <2>1, OncePop
  <2>4. UNCHANGED <<InHand, InQueue, InWork, OneWorkerEach>>
    BY <2>1 DEF InHand, InWork, OneWorkerEach
  <2>5. CASE Write
    <3>1. m # Null /\ written' = Append(written, m)
      BY <2>5 DEF Write
    <3>2. InOutput = InOutput' \cup {m} /\ m \notin InOutput'
      BY <2>2, <2>3, <3>1
    <3>3. Answered' = Answered \cup {m} /\ m \notin Answered
      BY <1>t, <1>s, <2>2, <3>1, <3>2, PushElements DEF Answered, Apart
    <3>4. Once(written')
      BY <1>t, <1>s, <2>2, <3>1, <3>3, OncePush DEF Answered
    <3> HIDE DEF m, InQueue, InOutput
    <3>5. Apart(Range(incoming), InHand, InQueue, InWork, InOutput, Answered)'
      BY <1>s, <2>1, <2>4, <3>2, <3>3 DEF Apart
    <3>6. Accepted' = Accepted
      BY <2>4, <3>2, <3>3 DEF Accepted
    <3> QED BY <1>s, <2>1, <2>3, <2>4, <3>4, <3>5, <3>6 DEF PlacesInv
  <2>6. CASE EndWriter
    <3>1. m = Null /\ written' = written
      BY <2>6 DEF EndWriter
    <3>2. InOutput' = InOutput /\ Answered' = Answered
      BY <2>2, <3>1 DEF Answered
    <3> HIDE DEF m, InQueue, InOutput
    <3> QED BY <1>s, <2>1, <2>3, <2>4, <3>1, <3>2 DEF PlacesInv, Accepted
  <2> QED BY <1>9, <2>5, <2>6
<1>10. CASE UNCHANGED serverVars
  BY <1>e, <1>10 DEF serverVars, mainVars, InHand
<1> QED
  BY <1>1, <1>2, <1>3, <1>4, <1>5, <1>6, <1>7, <1>8, <1>9, <1>10
     DEF ServerNext, Main, WorkerStep

LEMMA PlacesKept == SafeServer => []PlacesInv
BY InitPlaces, StepPlaces, ShutdownDrains, PTL DEF SafeServer

(* No request is run or written twice, with any number of workers and any  *)
(* capacity of the queue (RequestServer::execute, Worker::start,           *)
(* DataOutput): in every state it is in one place, once.                   *)
THEOREM ServerKeepsOne == ServerSpec => []InOnePlace
BY PlacesKept, PlacesAreOne, PTL DEF ServerSpec, SafeServer

-----------------------------------------------------------------------------
(* No thread waits for another for ever.  Unless the main thread waits for *)
(* a message, or is done, the guard of some thread holds: a push that      *)
(* blocks has a worker that can pop, a join a thread that can end.         *)
Live == {w \in Workers : worker[w] # "ended"}

CanMove ==
    \/ server = "executing" /\ HasRoom
    \/ server = "stopping" /\ (nulls > 0 => HasRoom)
    \/ server = "joining" /\ Live = {}
    \/ server = "closing"
    \/ server = "joiningOutput" /\ writer = "ended"
    \/ \E w \in Workers :
          worker[w] = "running" \/ (worker[w] = "waiting" /\ workingQueue # <<>>)
    \/ writer = "waiting" /\ msjQueue # <<>>

NeverStuck == server \notin {"reading", "closed"} => CanMove

(* After a stop no step of a thread leads back: each takes from what is    *)
(* left to do, so that there are finitely many until the end.              *)
Running == {w \in Workers : worker[w] = "running"}
Left == CASE server = "stopping" -> 4 [] server = "joining" -> 3
          [] server = "closing" -> 2 [] server = "joiningOutput" -> 1
          [] OTHER -> 0

ToDo == 4 * nulls + 3 * Len(workingQueue) + 2 * Cardinality(Running)
           + Len(msjQueue) + 2 * Left

Stopped == server \notin {"reading", "executing"}

StopProgresses ==
    /\ [](ToDo \in Nat)
    /\ [][Stopped => Stopped' /\ ToDo' < ToDo]_<<mainVars, poolVars, outputVars>>

(* One null for each worker that has not ended, in the queue or left to    *)
(* push: those in the queue are its last ones.                             *)
NullsInQueue == Cardinality(Live) - nulls

NullsSuffice ==
    /\ server \in {"stopping", "joining"} =>
          /\ nulls <= Cardinality(Live) /\ NullsInQueue <= Len(workingQueue)
          /\ \A i \in 1 .. Len(workingQueue) :
                workingQueue[i] = Null <=> i > Len(workingQueue) - NullsInQueue
    /\ Stopped /\ server # "stopping" => nulls = 0
    /\ server \in {"closing", "joiningOutput", "closed"} => workingQueue = <<>>
    /\ server = "joiningOutput" /\ writer = "waiting" => Null \in Range(msjQueue)

LEMMA WorkersCount ==
    /\ IsFiniteSet(Live) /\ Cardinality(Live) \in Nat
    /\ Cardinality(Live) = 0 <=> Live = {}
    /\ IsFiniteSet(Running) /\ Cardinality(Running) \in Nat
BY ServerAssumption, FS_Subset, FS_CardinalityType, FS_EmptySet DEF Live, Running

LEMMA InitNulls == ServerInit => NullsSuffice
BY DEF ServerInit, NullsSuffice, Stopped

(* What a step of a worker does to the counts.                             *)
LEMMA PopCounts ==
    ASSUME TypeOK, NEW w \in Workers, Pop(w)
    PROVE  /\ Head(workingQueue) = Null =>
                 /\ Cardinality(Live') = Cardinality(Live) - 1
                 /\ Cardinality(Running') = Cardinality(Running)
           /\ Head(workingQueue) # Null =>
                 /\ Live' = Live
                 /\ Cardinality(Running') = Cardinality(Running) + 1
<1>1. worker[w] = "waiting" /\ DOMAIN worker = Workers
  BY DEF Pop, TypeOK
<1>2. CASE Head(workingQueue) = Null
  <2>1. worker' = [worker EXCEPT ![w] = "ended"]
    BY <1>2 DEF Pop
  <2>2. w \in Live /\ Live' = Live \ {w} /\ Running' = Running
    BY <1>1, <2>1 DEF Live, Running
  <2> QED BY <1>2, <2>2, WorkersCount, FS_RemoveElement
<1>3. CASE Head(workingQueue) # Null
  <2>1. worker' = [worker EXCEPT ![w] = "running"]
    BY <1>3 DEF Pop
  <2>2. w \notin Running /\ Live' = Live /\ Running' = Running \cup {w}
    BY <1>1, <2>1 DEF Live, Running
  <2> QED BY <1>3, <2>2, WorkersCount, FS_AddElement
<1> QED BY <1>2, <1>3

LEMMA RunCounts ==
    ASSUME TypeOK, NEW w \in Workers, Run(w)
    PROVE  Live' = Live /\ Cardinality(Running') = Cardinality(Running) - 1
<1>1. /\ worker[w] = "running" /\ DOMAIN worker = Workers
      /\ worker' = [worker EXCEPT ![w] = "waiting"]
  BY DEF Run, TypeOK
<1>2. w \in Running /\ Live' = Live /\ Running' = Running \ {w}
  BY <1>1 DEF Live, Running
<1> QED BY <1>2, WorkersCount, FS_RemoveElement

(* The two lengths a push and a pop change.                                *)
LEMMA PushLength ==
    ASSUME NEW S, NEW q \in Seq(S), NEW x \in S
    PROVE  /\ Len(q) \in Nat /\ Len(Append(q, x)) = Len(q) + 1
           /\ \A i \in 1 .. Len(q) : Append(q, x)[i] = q[i]
           /\ Append(q, x)[Len(q) + 1] = x
OBVIOUS

LEMMA PopLength ==
    ASSUME NEW S, NEW q \in Seq(S), q # <<>>
    PROVE  /\ Len(q) \in Nat /\ Len(q) > 0 /\ Len(Tail(q)) = Len(q) - 1
           /\ Head(q) = q[1]
           /\ \A i \in 1 .. Len(q) - 1 : Tail(q)[i] = q[i + 1]
OBVIOUS

LEMMA StepNulls ==
    ASSUME Drains, NullsSuffice, [ServerNext]_serverVars
    PROVE  NullsSuffice'
<1>t. /\ workingQueue \in Seq(Items) /\ msjQueue \in Seq(Items) /\ Null \in Items
      /\ worker \in [Workers -> {"waiting", "running", "ended"}]
      /\ server \in Places /\ nulls \in Nat /\ Cardinality(Live) \in Nat
      /\ Len(workingQueue) \in Nat /\ TypeOK
  BY WorkersCount DEF Drains, TypeOK, Items
<1>1. ASSUME UNCHANGED <<mainVars, poolVars, outputVars>> PROVE NullsSuffice'
  BY <1>1 DEF NullsSuffice, NullsInQueue, Stopped, Live, mainVars, poolVars, outputVars
<1>2. CASE Read
  <2>1. /\ server = "reading" /\ server' \in {"executing", "stopping"}
        /\ server' = "stopping" => nulls' = Cardinality(Workers)
        /\ UNCHANGED <<workingQueue, worker, msjQueue, writer>>
    BY <1>2 DEF Read, poolVars, outputVars
  <2>2. /\ Live' = Workers
        /\ \A i \in 1 .. Len(workingQueue) : workingQueue[i] # Null
    BY <1>t, <2>1 DEF Live, Drains, WorkersDrain, Range
  <2>3. server' = "stopping" => NullsInQueue' = 0 /\ nulls' <= Cardinality(Live')
    BY <1>t, <2>1, <2>2, ServerAssumption, FS_CardinalityType DEF NullsInQueue
  <2> QED BY <1>t, <2>1, <2>2, <2>3 DEF NullsSuffice, Stopped
<1>3. CASE Execute
  BY <1>3 DEF Execute, NullsSuffice, Stopped
<1>4. CASE StopWorkers
  <2>1. CASE nulls > 0
    <3>1. /\ server = "stopping" /\ server' = "stopping" /\ nulls' = nulls - 1
          /\ workingQueue' = Append(workingQueue, Null)
          /\ UNCHANGED <<worker, msjQueue, writer>>
      BY <1>4, <2>1 DEF StopWorkers, HasRoom, outputVars
    <3>2. Live' = Live
      BY <3>1 DEF Live
    <3>3. /\ Len(workingQueue') = Len(workingQueue) + 1
          /\ \A i \in 1 .. Len(workingQueue) : workingQueue'[i] = workingQueue[i]
          /\ workingQueue'[Len(workingQueue) + 1] = Null
      BY <1>t, <3>1, PushLength
    <3>4. NullsInQueue' = NullsInQueue + 1 /\ NullsInQueue \in Nat
          /\ nulls' <= Cardinality(Live') /\ NullsInQueue <= Len(workingQueue)
      BY <1>t, <2>1, <3>1, <3>2 DEF NullsInQueue, NullsSuffice
    <3>5. \A i \in 1 .. Len(workingQueue') :
             workingQueue'[i] = Null <=> i > Len(workingQueue') - NullsInQueue'
      BY <1>t, <3>1, <3>3, <3>4 DEF NullsSuffice
    <3> QED BY <1>t, <3>1, <3>3, <3>4, <3>5 DEF NullsSuffice, Stopped
  <2>2. CASE ~ (nulls > 0)
    <3>1. /\ server = "stopping" /\ server' = "joining"
          /\ UNCHANGED <<nulls, worker, workingQueue, msjQueue, writer>>
      BY <1>4, <2>2 DEF StopWorkers, outputVars
    <3>2. Live' = Live /\ nulls = 0
      BY <1>t, <2>2, <3>1 DEF Live
    <3> QED BY <3>1, <3>2 DEF NullsSuffice, Stopped, NullsInQueue
  <2> QED BY <2>1, <2>2
<1>5. CASE EndServer
  <2>1. /\ server = "joining" /\ server' = "closing" /\ Live = {}
        /\ UNCHANGED <<nulls, workingQueue>>
    BY <1>5 DEF EndServer, poolVars, Live
  <2>2. nulls = 0 /\ Cardinality(Live) = 0
    BY <2>1, WorkersCount DEF NullsSuffice, Stopped
  <2>3. \A i \in 1 .. Len(workingQueue) : workingQueue[i] # Null
    BY <1>t, <2>1, <2>2 DEF NullsSuffice, NullsInQueue
  <2>4. Range(workingQueue) \subseteq {Null}
    BY <2>1, ServerAssumption DEF Drains, WorkersDrain, Live
  <2>5. workingQueue = <<>>
    <3>1. ASSUME Len(workingQueue) # 0 PROVE FALSE
      <4>1. 1 \in 1 .. Len(workingQueue) /\ DOMAIN workingQueue = 1 .. Len(workingQueue)
        BY <1>t, <3>1
      <4> QED BY <2>3, <2>4, <4>1 DEF Range
    <3> QED BY <1>t, <3>1, NothingIn
  <2> QED BY <2>1, <2>2, <2>5 DEF NullsSuffice, Stopped
<1>6. CASE Close
  <2>1. /\ server = "closing" /\ server' = "joiningOutput"
        /\ msjQueue' = Append(msjQueue, Null)
        /\ UNCHANGED <<nulls, workingQueue>>
    BY <1>6 DEF Close, poolVars
  <2>2. Null \in Range(msjQueue')
    BY <1>t, <2>1, PushElements
  <2> QED BY <2>1, <2>2 DEF NullsSuffice, Stopped
<1>7. CASE Closed
  BY <1>7 DEF Closed, poolVars, NullsSuffice, Stopped
<1>8. ASSUME NEW w \in Workers, Pop(w) PROVE NullsSuffice'
  <2>1. /\ workingQueue # <<>> /\ workingQueue' = Tail(workingQueue)
        /\ UNCHANGED <<server, nulls, msjQueue, writer>>
    BY <1>8 DEF Pop, mainVars, outputVars
  <2>2. /\ Len(workingQueue) > 0 /\ Len(workingQueue') = Len(workingQueue) - 1
        /\ Head(workingQueue) = workingQueue[1]
        /\ \A i \in 1 .. Len(workingQueue) - 1 :
              workingQueue'[i] = workingQueue[i + 1]
    BY <1>t, <2>1, PopLength
  <2>3. server \notin {"closing", "joiningOutput", "closed"}
    BY <2>1 DEF NullsSuffice
  <2>4. ASSUME server \in {"stopping", "joining"}
        PROVE  /\ nulls <= Cardinality(Live')
               /\ Cardinality(Live') - nulls <= Len(workingQueue')
               /\ \A i \in 1 .. Len(workingQueue') :
                     workingQueue'[i] = Null
                        <=> i > Len(workingQueue') - (Cardinality(Live') - nulls)
    <3> DEFINE k == Cardinality(Live) - nulls
    <3>1. /\ k \in Nat /\ k <= Len(workingQueue)
          /\ \A i \in 1 .. Len(workingQueue) :
                workingQueue[i] = Null <=> i > Len(workingQueue) - k
      BY <1>t, <2>4 DEF NullsSuffice, NullsInQueue
    <3>2. 1 \in 1 .. Len(workingQueue)
      BY <1>t, <2>2
    <3>3. CASE Head(workingQueue) = Null
      <4>1. Cardinality(Live') = Cardinality(Live) - 1
        BY <1>t, <1>8, <3>3, PopCounts
      <4>2. k = Len(workingQueue)
        <5> HIDE DEF k
        <5> QED BY <1>t, <2>2, <3>1, <3>2, <3>3
      <4>3. Cardinality(Live') - nulls = k - 1
        BY <1>t, <4>1
      <4>4. nulls <= Cardinality(Live')
        BY <1>t, <2>2, <4>1, <4>2
      <4> HIDE DEF k
      <4>5. k - 1 <= Len(workingQueue')
        BY <1>t, <2>2, <3>1
      <4>6. ASSUME NEW i \in 1 .. Len(workingQueue')
            PROVE  workingQueue'[i] = Null <=> i > Len(workingQueue') - (k - 1)
        <5>1. i \in 1 .. Len(workingQueue) - 1 /\ i + 1 \in 1 .. Len(workingQueue)
          BY <1>t, <2>2
        <5>2. workingQueue'[i] = workingQueue[i + 1]
          BY <2>2, <5>1
        <5>3. workingQueue[i + 1] = Null <=> i + 1 > Len(workingQueue) - k
          BY <3>1, <5>1
        <5>4. Len(workingQueue') = Len(workingQueue) - 1 /\ i \in Int /\ k \in Int
              /\ Len(workingQueue) \in Int
          BY <1>t, <2>2, <3>1, <5>1
        <5>5. i + 1 > Len(workingQueue) - k <=> i > Len(workingQueue') - (k - 1)
          BY <4>2, <5>1, <5>4
        <5> QED BY <5>2, <5>3, <5>5
      <4> QED BY <4>3, <4>4, <4>5, <4>6
    <3>4. CASE Head(workingQueue) # Null
      <4>1. Live' = Live
        BY <1>t, <1>8, <3>4, PopCounts
      <4>2. k < Len(workingQueue)
        <5> HIDE DEF k
        <5> QED BY <1>t, <2>2, <3>1, <3>2, <3>4
      <4>3. Cardinality(Live') - nulls = k /\ nulls <= Cardinality(Live')
        BY <1>t, <3>1, <4>1
      <4> HIDE DEF k
      <4>4. k <= Len(workingQueue')
        BY <1>t, <2>2, <3>1, <4>2
      <4>5. ASSUME NEW i \in 1 .. Len(workingQueue')
            PROVE  workingQueue'[i] = Null <=> i > Len(workingQueue') - k
        <5>1. i \in 1 .. Len(workingQueue) - 1 /\ i + 1 \in 1 .. Len(workingQueue)
          BY <1>t, <2>2
        <5>2. workingQueue'[i] = workingQueue[i + 1]
          BY <2>2, <5>1
        <5>3. workingQueue[i + 1] = Null <=> i + 1 > Len(workingQueue) - k
          BY <3>1, <5>1
        <5>4. Len(workingQueue') = Len(workingQueue) - 1 /\ i \in Int /\ k \in Int
              /\ Len(workingQueue) \in Int
          BY <1>t, <2>2, <3>1, <5>1
        <5>5. i + 1 > Len(workingQueue) - k <=> i > Len(workingQueue') - k
          BY <5>4
        <5> QED BY <5>2, <5>3, <5>5
      <4> QED BY <4>3, <4>4, <4>5
    <3> QED BY <3>3, <3>4
  <2> QED BY <2>1, <2>3, <2>4 DEF NullsSuffice, NullsInQueue, Stopped
<1>9. ASSUME NEW w \in Workers, Run(w) PROVE NullsSuffice'
  <2>1. UNCHANGED <<server, nulls, workingQueue>> /\ Live' = Live
    BY <1>t, <1>9, RunCounts DEF Run, mainVars
  <2>2. server # "joiningOutput"
    BY <1>9 DEF Run, Drains, WorkersDrain
  <2> QED BY <2>1, <2>2 DEF NullsSuffice, NullsInQueue, Stopped
<1>10. CASE Write \/ EndWriter
  <2>1. /\ UNCHANGED <<server, nulls, workingQueue, worker>> /\ Live' = Live
        /\ msjQueue # <<>> /\ msjQueue' = Tail(msjQueue)
    BY <1>10 DEF Write, EndWriter, mainVars, poolVars, Live
  <2>2. server = "joiningOutput" /\ writer' = "waiting" => Null \in Range(msjQueue')
    <3>1. Range(msjQueue) = {Head(msjQueue)} \cup Range(Tail(msjQueue))
      BY <1>t, <2>1, PopElements
    <3> QED BY <1>10, <2>1, <3>1 DEF Write, EndWriter, NullsSuffice
  <2> QED BY <2>1, <2>2 DEF NullsSuffice, NullsInQueue, Stopped
<1> QED
  BY <1>1, <1>2, <1>3, <1>4, <1>5, <1>6, <1>7, <1>8, <1>9, <1>10
     DEF ServerNext, Main, WorkerStep, Arrive, serverVars

LEMMA NullsKept == SafeServer => []NullsSuffice
BY InitNulls, StepNulls, ShutdownDrains, PTL DEF SafeServer

LEMMA SomeMove ==
    ASSUME Drains, NullsSuffice
    PROVE  NeverStuck
<1> SUFFICES ASSUME server \notin {"reading", "closed"}, ~ CanMove PROVE FALSE
  BY DEF NeverStuck
<1>t. /\ worker \in [Workers -> {"waiting", "running", "ended"}]
      /\ server \in Places /\ nulls \in Nat /\ writer \in {"waiting", "ended"}
  BY DEF Drains, TypeOK
<1>1. CASE Live = {}
  <2>1. \A w \in Workers : worker[w] = "ended"
    BY <1>1 DEF Live
  <2>2. server \notin {"executing", "reading"}
    BY <2>1, ServerAssumption DEF Drains, WorkersDrain
  <2>3. server = "stopping" => nulls = 0
    BY <1>t, <1>1, WorkersCount DEF NullsSuffice
  <2>4. server = "joiningOutput" /\ writer = "waiting" => msjQueue # <<>>
    BY DEF NullsSuffice, Range
  <2> QED BY <1>t, <1>1, <2>2, <2>3, <2>4 DEF CanMove, Places
<1>2. CASE Live # {}
  <2>1. PICK w \in Workers : worker[w] # "ended"
    BY <1>2 DEF Live
  <2>2. workingQueue = <<>>
    BY <1>t, <2>1 DEF CanMove
  <2>3. HasRoom
    BY <2>2, ServerAssumption DEF HasRoom
  <2>4. server = "joining"
    BY <1>t, <2>1, <2>3 DEF CanMove, Places, Drains, WorkersDrain
  <2>5. nulls = 0 /\ Cardinality(Live) <= 0
    BY <1>t, <2>2, <2>4, WorkersCount DEF NullsSuffice, NullsInQueue, Stopped
  <2> QED BY <1>2, <2>5, WorkersCount
<1> QED BY <1>1, <1>2

(* With any number of workers and any capacity, the server is at no time   *)
(* in a deadlock: a full queue has a worker to empty it, and there is a    *)
(* null for every worker a join waits for (RequestServer::stopWorkers,     *)
(* endServer, DataOutput::close).                                          *)
THEOREM ServerNeverStuck == ServerSpec => []NeverStuck
BY NullsKept, ShutdownDrains, SomeMove, PTL DEF ServerSpec, SafeServer

-----------------------------------------------------------------------------
LEMMA LeftIsCount == Drains => ToDo \in Nat
<1> SUFFICES ASSUME Drains PROVE ToDo \in Nat
  OBVIOUS
<1>1. /\ workingQueue \in Seq(Items) /\ msjQueue \in Seq(Items) /\ nulls \in Nat
      /\ Cardinality(Running) \in Nat /\ Left \in Nat
  BY WorkersCount DEF Drains, TypeOK, Items, Left
<1> QED BY <1>1 DEF ToDo

LEMMA StepProgresses ==
    ASSUME Drains, Stopped, ServerNext,
           ~ UNCHANGED <<mainVars, poolVars, outputVars>>
    PROVE  Stopped' /\ ToDo' < ToDo
<1>t. /\ workingQueue \in Seq(Items) /\ msjQueue \in Seq(Items) /\ Null \in Items
      /\ server \in Places /\ nulls \in Nat /\ TypeOK
      /\ work \in [Workers -> Items]
      /\ Len(workingQueue) \in Nat /\ Len(msjQueue) \in Nat
      /\ Cardinality(Running) \in Nat /\ Left \in Nat
  BY WorkersCount DEF Drains, TypeOK, Items, Left
<1>1. CASE StopWorkers
  <2>1. CASE nulls > 0
    <3>1. /\ nulls' = nulls - 1 /\ workingQueue' = Append(workingQueue, Null)
          /\ UNCHANGED <<server, worker, msjQueue>>
      BY <1>1, <2>1 DEF StopWorkers, HasRoom, outputVars
    <3>2. Len(workingQueue') = Len(workingQueue) + 1
      BY <1>t, <3>1, PushLength
    <3>3. Running' = Running /\ Left' = Left /\ Stopped'
      BY <3>1 DEF Running, Left, Stopped
    <3> QED BY <1>t, <3>1, <3>2, <3>3 DEF ToDo
  <2>2. CASE ~ (nulls > 0)
    <3>1. /\ server = "stopping" /\ server' = "joining"
          /\ UNCHANGED <<nulls, workingQueue, worker, msjQueue>>
      BY <1>1, <2>2 DEF StopWorkers, outputVars
    <3>2. Running' = Running /\ Left = 4 /\ Left' = 3 /\ Stopped'
      BY <3>1 DEF Running, Left, Stopped
    <3> QED BY <1>t, <3>1, <3>2 DEF ToDo
  <2> QED BY <2>1, <2>2
<1>2. CASE EndServer
  <2>1. /\ server = "joining" /\ server' = "closing"
        /\ UNCHANGED <<nulls, workingQueue, worker, msjQueue>>
    BY <1>2 DEF EndServer, poolVars, outputVars
  <2>2. Running' = Running /\ Left = 3 /\ Left' = 2 /\ Stopped'
    BY <2>1 DEF Running, Left, Stopped
  <2> QED BY <1>t, <2>1, <2>2 DEF ToDo
<1>3. CASE Close
  <2>1. /\ server = "closing" /\ server' = "joiningOutput"
        /\ msjQueue' = Append(msjQueue, Null)
        /\ UNCHANGED <<nulls, workingQueue, worker>>
    BY <1>3 DEF Close, poolVars
  <2>2. Running' = Running /\ Left = 2 /\ Left' = 1 /\ Stopped'
    BY <2>1 DEF Running, Left, Stopped
  <2>3. Len(msjQueue') = Len(msjQueue) + 1
    BY <1>t, <2>1, PushLength
  <2> QED BY <1>t, <2>1, <2>2, <2>3 DEF ToDo
<1>4. CASE Closed
  <2>1. /\ server = "joiningOutput" /\ server' = "closed"
        /\ UNCHANGED <<nulls, workingQueue, worker, msjQueue>>
    BY <1>4 DEF Closed, poolVars, outputVars
  <2>2. Running' = Running /\ Left = 1 /\ Left' = 0 /\ Stopped'
    BY <2>1 DEF Running, Left, Stopped
  <2> QED BY <1>t, <2>1, <2>2 DEF ToDo
<1>5. ASSUME NEW w \in Workers, Pop(w) PROVE Stopped' /\ ToDo' < ToDo
  <2>1. /\ workingQueue # <<>> /\ workingQueue' = Tail(workingQueue)
        /\ UNCHANGED <<server, nulls, msjQueue>>
    BY <1>5 DEF Pop, mainVars, outputVars
  <2>2. /\ Len(workingQueue') = Len(workingQueue) - 1
        /\ Left' = Left /\ Stopped'
    BY <1>t, <2>1, PopLength DEF Left, Stopped
  <2>3. \/ Cardinality(Running') = Cardinality(Running)
        \/ Cardinality(Running') = Cardinality(Running) + 1
    BY <1>t, <1>5, PopCounts
  <2> QED BY <1>t, <2>1, <2>2, <2>3 DEF ToDo
<1>6. ASSUME NEW w \in Workers, Run(w) PROVE Stopped' /\ ToDo' < ToDo
  <2>1. /\ msjQueue' = Append(msjQueue, work[w])
        /\ UNCHANGED <<server, nulls, workingQueue>>
    BY <1>6 DEF Run, mainVars
  <2>2. /\ Len(msjQueue') = Len(msjQueue) + 1 /\ Left' = Left /\ Stopped'
        /\ Cardinality(Running') = Cardinality(Running) - 1
    BY <1>t, <1>6, <2>1, PushLength, RunCounts DEF Left, Stopped
  <2> QED BY <1>t, <2>1, <2>2 DEF ToDo
<1>7. CASE Write \/ EndWriter
  <2>1. /\ msjQueue # <<>> /\ msjQueue' = Tail(msjQueue)
        /\ UNCHANGED <<server, nulls, workingQueue, worker>>
    BY <1>7 DEF Write, EndWriter, mainVars, poolVars
  <2>2. /\ Len(msjQueue') = Len(msjQueue) - 1
        /\ Running' = Running /\ Left' = Left /\ Stopped'
    BY <1>t, <2>1, PopLength DEF Running, Left, Stopped
  <2> QED BY <1>t, <2>1, <2>2 DEF ToDo
<1>8. ~ (Read \/ Execute \/ \E m \in Messages : Arrive(m))
  BY DEF Read, Execute, Stopped, Arrive
<1> QED
  BY <1>1, <1>2, <1>3, <1>4, <1>5, <1>6, <1>7, <1>8
     DEF ServerNext, Main, WorkerStep

(* After a stop every step of a thread takes from what is left to do: with *)
(* ServerNeverStuck this is StopEnds but for the fairness, that a thread   *)
(* whose guard holds does run.                                             *)
THEOREM ServerProgresses == ServerSpec => StopProgresses
<1>1. Drains /\ [ServerNext]_serverVars
      => [Stopped => Stopped' /\ ToDo' < ToDo]_<<mainVars, poolVars, outputVars>>
  BY StepProgresses DEF serverVars
<1> QED BY <1>1, LeftIsCount, ShutdownDrains, PTL DEF ServerSpec, SafeServer, StopProgresses
=============================================================================
