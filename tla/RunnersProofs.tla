---------------------------- MODULE RunnersProofs ----------------------------
(* For every set of workers and every requests: the fields have their      *)
(* types, an error text is true of a request its worker served, an output  *)
(* is its request's own.                                                   *)
EXTENDS Runners, TLAPS

IsRequest(r) ==
    /\ r \in [DOMAIN r -> Seq(STRING)]
    /\ DOMAIN r \subseteq STRING \ {NoText}

LEMMA RequestsAreTyped ==
    ASSUME NEW requests \in RequestQueues
    PROVE  /\ Len(requests) \in Nat
           /\ \A n \in 1 .. Len(requests) : IsRequest(requests[n])
<1>1. DOMAIN requests = 1 .. Len(requests)
  BY RunnersAssumption
<1> QED BY <1>1, RunnersAssumption DEF IsRequest

(* A request that stops the validation without throwing leaves a text that *)
(* is true of it.                                                          *)
LEMMA StoppedText ==
    ASSUME NEW s, NEW r, IsRequest(r), Accepts(s, r), Rejects(s, r), ~ Throws(s, r)
    PROVE  /\ TrueOf(TextOf(s, r), s, r)
           /\ TextOf(s, r) \in STRING /\ TextOf(s, r) # NoText
<1> DEFINE i == CHOOSE k \in DOMAIN Checks(s) : StopsAt(s, r, k)
           f == Checks(s)[i]
<1>1. i \in DOMAIN Checks(s) /\ StopsAt(s, r, i)
  BY DEF Rejects
<1>2. Stops(s, r, f) /\ ~ NoNumber(s, r, f)
  BY <1>1 DEF StopsAt, Throws
<1>3. TextOf(s, r) = IF OutOfRange(s, r, f) THEN "range" ELSE f
  BY DEF TextOf
<1> HIDE DEF i, f
<1>4. CASE OutOfRange(s, r, f)
  <2>1. f = "mode"
    BY <1>4 DEF OutOfRange
  <2> QED BY <1>3, <1>4, <2>1, RunnersAssumption DEF TrueOf, NoText
<1>5. CASE ~ OutOfRange(s, r, f)
  <2>1. NotSingle(s, r, f)
    BY <1>2, <1>5 DEF Stops
  <2>2. f \in DOMAIN r
    BY <2>1 DEF NotSingle
  <2> QED BY <1>3, <1>5, <2>1, <2>2 DEF TrueOf, IsRequest
<1> QED BY <1>4, <1>5

LEMMA TextIsTyped ==
    ASSUME NEW s, NEW r, IsRequest(r), ~ Throws(s, r), NEW before \in STRING
    PROVE  NextError(s, r, before) \in STRING
<1>1. CASE ~ Accepts(s, r)
  BY <1>1, RunnersAssumption DEF NextError
<1>2. CASE Accepts(s, r) /\ Rejects(s, r)
  BY <1>2, StoppedText DEF NextError
<1>3. CASE Accepts(s, r) /\ ~ Rejects(s, r)
  BY <1>3 DEF NextError
<1> QED BY <1>1, <1>2, <1>3

LEMMA IDIsTyped ==
    ASSUME NEW s, NEW r, IsRequest(r)
    PROVE  /\ GivenID(s, r) \in STRING
           /\ GivenID(s, r) \in DOMAIN NumberOf =>
                 "reqID" \in DOMAIN r /\ GivenID(s, r) = r["reqID"][1]
<1>1. CASE GivenID(s, r) = NoText
  BY <1>1, RunnersAssumption
<1>2. CASE GivenID(s, r) # NoText
  <2>1. Accepts(s, r) /\ "reqID" \in DOMAIN r /\ GivenID(s, r) = r["reqID"][1]
    BY <1>2 DEF GivenID
  <2>2. r["reqID"] \in Seq(STRING) /\ r["reqID"] # <<>>
    BY <2>1 DEF Accepts, IsRequest
  <2> QED BY <2>1, <2>2
<1> QED BY <1>1, <1>2

LEMMA ChosenIsTried ==
    ASSUME NEW r
    PROVE  /\ Chosen(r) \in Services \cup {"none"}
           /\ Chosen(r) # "none" => Chosen(r) \in Tried(r)
           /\ Tried(r) \subseteq Services
BY DEF Chosen, Tried, Services
-----------------------------------------------------------------------------
(* What the fields of a worker say of the request it has validated.        *)
Judged(w) ==
    LET r == queue[current[w]] IN
    /\ active[w] = Chosen(r)
    /\ \A s \in Tried(r) :
          /\ inputError[w][s] <=> Rejects(s, r)
          /\ reqID[w][s] = GivenID(s, r)
    /\ "ocr" \in Tried(r) /\ Rejects("ocr", r) => TrueOf(lastError[w]["ocr"], "ocr", r)
    /\ "face" \in Tried(r) /\ Rejects("face", r) /\ lastError[w]["face"] = NoText
          => ~ Accepts("face", r)

(* A worker's requests come in order; its face detector's text is of one.  *)
Remembered(w) ==
    /\ current[w] # 0 => /\ current[w] \in served[w]
                         /\ \A m \in served[w] : m <= current[w]
    /\ lastError[w]["face"] # NoText =>
          \E m \in served[w] : TrueOf(lastError[w]["face"], "face", queue[m])

RunnersInv ==
    /\ TypeOK
    /\ \A w \in Workers : Remembered(w)
    /\ \A w \in Workers : validated[w] => Judged(w)
    /\ TextsAreTrue
    /\ \A e \in errors : e.by \in Workers
    /\ OutputIsOwn

LEMMA InitRunners == Init => RunnersInv
<1> SUFFICES ASSUME Init PROVE RunnersInv
  OBVIOUS
<1>1. Len(queue) \in Nat
  BY RequestsAreTyped DEF Init
<1>2. TypeOK
  BY <1>1, RunnersAssumption DEF Init, TypeOK
<1>3. \A w \in Workers : Remembered(w)
  BY DEF Init, Remembered, Services
<1> QED BY <1>2, <1>3 DEF Init, RunnersInv, TextsAreTrue, OutputIsOwn

LEMMA TakeKeeps ==
    ASSUME RunnersInv, NEW w \in Workers, Take(w)
    PROVE  RunnersInv'
<1> USE DEF RunnersInv, Take, fields
<1>1. Len(queue) \in Nat /\ taken \in Nat /\ taken + 1 \in Nat
  BY RequestsAreTyped DEF TypeOK
<1>2. TypeOK'
  <2>1. current' \in [Workers -> 0 .. taken']
    BY <1>1 DEF TypeOK
  <2>2. served' \in [Workers -> SUBSET (1 .. taken')]
    <3>1. \A v \in Workers : served[v] \subseteq 1 .. taken
      BY DEF TypeOK
    <3>2. \A v \in Workers : served'[v] \subseteq served[v] \cup {taken + 1}
      BY DEF TypeOK
    <3>3. \A v \in Workers : served'[v] \subseteq 1 .. taken + 1
      BY <1>1, <3>1, <3>2
    <3> QED BY <3>3 DEF TypeOK
  <2>3. taken' \in 0 .. Len(queue)'
    BY <1>1 DEF TypeOK
  <2>4. \A v \in Workers : validated'[v] => current'[v] # 0
    BY <1>1 DEF TypeOK
  <2> QED BY <2>1, <2>2, <2>3, <2>4 DEF TypeOK
<1>3. ASSUME NEW v \in Workers PROVE Remembered(v)'
  <2>1. \A m \in served[v] : m <= taken /\ m \in Nat
    BY <1>1 DEF TypeOK
  <2>2. served[v] \subseteq served'[v]
    BY DEF TypeOK
  <2>3. CASE v = w
    BY <1>1, <2>1, <2>2, <2>3 DEF TypeOK, Remembered
  <2>4. CASE v # w
    BY <2>2, <2>4 DEF TypeOK, Remembered
  <2> QED BY <2>3, <2>4
<1>4. ASSUME NEW v \in Workers, validated'[v] PROVE Judged(v)'
  <2>1. v # w /\ current'[v] = current[v]
    BY <1>4 DEF TypeOK
  <2> QED BY <1>4, <2>1 DEF Judged, Chosen, Tried
<1>5. TextsAreTrue'
  <2>1. \A v \in Workers : served[v] \subseteq served'[v]
    BY DEF TypeOK
  <2> QED BY <2>1 DEF TextsAreTrue
<1>6. OutputIsOwn' /\ \A e \in errors' : e.by \in Workers
  BY DEF OutputIsOwn
<1> QED BY <1>2, <1>3, <1>4, <1>5, <1>6

LEMMA NextErrorIs ==
    ASSUME NEW s, NEW r, NEW before
    PROVE  /\ ~ Accepts(s, r) /\ s = "ocr" => NextError(s, r, before) = "input"
           /\ ~ Accepts(s, r) /\ s # "ocr" => NextError(s, r, before) = before
           /\ Accepts(s, r) /\ Rejects(s, r) => NextError(s, r, before) = TextOf(s, r)
           /\ ~ Rejects(s, r) => NextError(s, r, before) = before
BY DEF NextError, Rejects

LEMMA ValidateKeeps ==
    ASSUME RunnersInv, NEW w \in Workers, Validate(w)
    PROVE  RunnersInv'
<1> DEFINE r == queue[current[w]]
<1> USE DEF RunnersInv
<1>1. current[w] \in 1 .. Len(queue) /\ IsRequest(r)
  <2>1. current[w] \in 1 .. Len(queue)
    BY RequestsAreTyped DEF Validate, Validates, TypeOK
  <2> QED BY <2>1, RequestsAreTyped DEF TypeOK
<1>2. \A s \in Tried(r) : s \in Services /\ ~ Throws(s, r)
  BY ChosenIsTried DEF Validate
<1>3. UNCHANGED <<program, queue, taken, current, alive, outputs, errors, served>>
  BY DEF Validate
<1> HIDE DEF r
<1>4. Fields(w, r) /\ validated' = [validated EXCEPT ![w] = TRUE]
  BY DEF Validate, r
<1>5. ASSUME NEW s \in Services
      PROVE  /\ reqID'[w][s] = IF s \in Tried(r) THEN GivenID(s, r) ELSE reqID[w][s]
             /\ inputError'[w][s] = IF s \in Tried(r) THEN Rejects(s, r) ELSE inputError[w][s]
             /\ lastError'[w][s] = IF s \in Tried(r) THEN NextError(s, r, lastError[w][s])
                                   ELSE lastError[w][s]
  BY <1>4, Zenon DEF Fields, TypeOK
<1>6. active'[w] = Chosen(r)
  BY <1>4 DEF Fields, TypeOK
<1>7. \A v \in Workers \ {w} :
          /\ reqID'[v] = reqID[v] /\ inputError'[v] = inputError[v]
          /\ lastError'[v] = lastError[v] /\ active'[v] = active[v]
          /\ validated'[v] = validated[v]
  BY <1>4 DEF Fields, TypeOK
<1>8. TypeOK'
  <2>1. reqID' \in [Workers -> [Services -> STRING]]
    BY <1>1, <1>4, IDIsTyped DEF Fields, TypeOK
  <2>2. inputError' \in [Workers -> [Services -> BOOLEAN]]
    BY <1>4 DEF Fields, TypeOK, Rejects
  <2>3. lastError' \in [Workers -> [Services -> STRING]]
    BY <1>1, <1>2, <1>4, TextIsTyped DEF Fields, TypeOK
  <2>4. active' \in [Workers -> Services \cup {"none"}]
    BY <1>4, ChosenIsTried DEF Fields, TypeOK
  <2>5. validated' \in [Workers -> BOOLEAN] /\ \A v \in Workers : validated'[v] => current'[v] # 0
    BY <1>1, <1>3, <1>4 DEF TypeOK
  <2> QED BY <2>1, <2>2, <2>3, <2>4, <2>5, <1>3 DEF TypeOK
<1>9. ASSUME NEW v \in Workers PROVE Remembered(v)'
  <2>1. Remembered(v)
    OBVIOUS
  <2>2. CASE v # w
    BY <2>1, <2>2, <1>3, <1>7 DEF Remembered
  <2>3. ASSUME v = w, lastError'[w]["face"] # NoText
        PROVE  \E m \in served[w] : TrueOf(lastError'[w]["face"], "face", queue[m])
    <3>1. "face" \in Services
      BY DEF Services
    <3>2. CASE lastError'[w]["face"] = lastError[w]["face"]
      BY <2>1, <2>3, <3>2 DEF Remembered
    <3>3. CASE lastError'[w]["face"] # lastError[w]["face"]
      <4>1. "face" \in Tried(r) /\ Accepts("face", r) /\ Rejects("face", r)
        BY <1>5, <3>1, <3>3, NextErrorIs
      <4>2. lastError'[w]["face"] = TextOf("face", r) /\ TrueOf(TextOf("face", r), "face", r)
        BY <1>1, <1>2, <1>5, <3>1, <4>1, NextErrorIs, StoppedText
      <4>3. current[w] \in served[w]
        BY <1>1, <2>1, <2>3 DEF Remembered
      <4> QED BY <4>2, <4>3 DEF r
    <3> QED BY <3>2, <3>3
  <2> QED BY <2>1, <2>2, <2>3, <1>3 DEF Remembered
<1>10. ASSUME NEW v \in Workers, validated'[v] PROVE Judged(v)'
  <2>1. CASE v # w
    BY <2>1, <1>3, <1>7, <1>10 DEF Judged, Chosen, Tried
  <2>2. CASE v = w
    <3>1. queue'[current'[w]] = r /\ Tried(r)' = Tried(r) /\ Chosen(r)' = Chosen(r)
      BY <1>3 DEF r, Tried, Chosen
    <3>2. ASSUME NEW s \in Tried(r)
          PROVE  (inputError'[w][s] <=> Rejects(s, r)) /\ reqID'[w][s] = GivenID(s, r)
      BY <1>2, <1>5, <3>2
    <3>3. ASSUME "ocr" \in Tried(r), Rejects("ocr", r)
          PROVE  TrueOf(lastError'[w]["ocr"], "ocr", r)
      <4>1. lastError'[w]["ocr"] = NextError("ocr", r, lastError[w]["ocr"])
        BY <1>2, <1>5, <3>3
      <4>2. CASE Accepts("ocr", r)
        BY <1>1, <1>2, <3>3, <4>1, <4>2, NextErrorIs, StoppedText
      <4>3. CASE ~ Accepts("ocr", r)
        BY <4>1, <4>3, NextErrorIs DEF TrueOf
      <4> QED BY <4>2, <4>3
    <3>4. ASSUME "face" \in Tried(r), Rejects("face", r), lastError'[w]["face"] = NoText
          PROVE  ~ Accepts("face", r)
      BY <1>1, <1>2, <1>5, <3>4, NextErrorIs, StoppedText
    <3> QED BY <2>2, <3>1, <3>2, <3>3, <3>4, <1>6 DEF Judged, Chosen, Tried, r
  <2> QED BY <2>1, <2>2
<1>11. TextsAreTrue' /\ OutputIsOwn' /\ \A e \in errors' : e.by \in Workers
  BY <1>3 DEF TextsAreTrue, OutputIsOwn
<1> QED BY <1>8, <1>9, <1>10, <1>11

(* What the end of a request leaves of the invariant, whatever it answers. *)
LEMMA DoneKeeps ==
    ASSUME RunnersInv, NEW w \in Workers, Done(w)
    PROVE  /\ TypeOK'
           /\ \A v \in Workers : Remembered(v)'
           /\ \A v \in Workers : validated'[v] => Judged(v)'
<1> USE DEF RunnersInv, Done, fields
<1>1. taken \in Nat
  BY RequestsAreTyped DEF TypeOK
<1>2. TypeOK'
  <2>1. current' \in [Workers -> 0 .. taken] /\ validated' \in [Workers -> BOOLEAN]
    BY <1>1 DEF TypeOK
  <2>2. \A v \in Workers : validated'[v] => current'[v] # 0
    BY DEF TypeOK
  <2> QED BY <2>1, <2>2 DEF TypeOK
<1>3. ASSUME NEW v \in Workers PROVE Remembered(v)'
  BY DEF Remembered, TypeOK
<1>4. ASSUME NEW v \in Workers, validated'[v] PROVE Judged(v)'
  <2>1. v # w /\ validated[v] /\ current'[v] = current[v]
    BY <1>4 DEF TypeOK
  <2> QED BY <2>1 DEF Judged, Chosen, Tried
<1> QED BY <1>2, <1>3, <1>4

LEMMA RunErrorKeeps ==
    ASSUME RunnersInv, NEW w \in Workers, NEW s \in Services, RunError(w, s)
    PROVE  RunnersInv'
<1> DEFINE r == queue[current[w]]
           new == [of |-> current[w], by |-> w, from |-> s, text |-> lastError[w][s]]
<1>1. /\ Runs(w, s) /\ Fails(w, s) /\ Done(w)
      /\ errors' = errors \cup {new} /\ outputs' = outputs
      /\ served' = served /\ queue' = queue
  BY DEF RunError, Done, fields
<1>2. Judged(w) /\ Remembered(w) /\ s \in Tried(r) /\ current[w] # 0
  <2>1. Judged(w) /\ Remembered(w) /\ active[w] = s /\ current[w] # 0
    BY <1>1 DEF RunnersInv, Runs, TypeOK
  <2>2. s # "none"
    BY DEF Services
  <2> QED BY <2>1, <2>2, ChosenIsTried DEF Judged
<1>3. CASE s = "ocr"
  <2>1. TrueOf(lastError[w]["ocr"], "ocr", r)
    BY <1>1, <1>2, <1>3 DEF Fails, Judged
  <2>2. TextsAreTrue'
    BY <1>1, <1>3, <2>1 DEF RunnersInv, TextsAreTrue
  <2> QED BY <1>1, <2>2, DoneKeeps DEF RunnersInv, OutputIsOwn
<1>4. CASE s = "face"
  <2>1. lastError[w]["face"] = NoText => ~ Accepts("face", r)
    BY <1>1, <1>2, <1>4 DEF Fails, Judged
  <2>2. lastError[w]["face"] # NoText =>
          \E m \in served[w] : m <= current[w] /\ TrueOf(lastError[w]["face"], "face", queue[m])
    BY <1>2 DEF Remembered
  <2>3. TextsAreTrue'
    BY <1>1, <1>4, <2>1, <2>2 DEF RunnersInv, TextsAreTrue
  <2> QED BY <1>1, <2>3, DoneKeeps DEF RunnersInv, OutputIsOwn
<1> QED BY <1>3, <1>4 DEF Services

LEMMA RunOutputKeeps ==
    ASSUME RunnersInv, NEW w \in Workers, NEW s \in Services, RunOutput(w, s)
    PROVE  RunnersInv'
<1> DEFINE r == queue[current[w]]
<1>1. /\ Runs(w, s) /\ ~ Fails(w, s) /\ ~ Crashes(w, s) /\ Done(w)
      /\ outputs' = outputs \cup {[of |-> current[w], by |-> w, from |-> s,
                                   id |-> NumberOf[reqID[w][s]]]}
      /\ errors' = errors /\ served' = served /\ queue' = queue
  BY DEF RunOutput, Done, fields
<1>2. Judged(w) /\ s \in Tried(r) /\ IsRequest(r)
  <2>1. Judged(w) /\ active[w] = s /\ current[w] \in 1 .. Len(queue)
    BY <1>1, RequestsAreTyped DEF RunnersInv, Runs, TypeOK
  <2>2. s # "none"
    BY DEF Services
  <2> QED BY <2>1, <2>2, ChosenIsTried, RequestsAreTyped DEF Judged, RunnersInv, TypeOK
<1>3. ~ inputError[w][s] /\ reqID[w][s] \in DOMAIN NumberOf
  BY <1>1 DEF Fails, Crashes
<1>4. ~ Rejects(s, r) /\ reqID[w][s] = GivenID(s, r)
  BY <1>2, <1>3 DEF Judged
<1>5. "reqID" \in DOMAIN r /\ reqID[w][s] = r["reqID"][1]
  BY <1>2, <1>3, <1>4, IDIsTyped
<1>6. OutputIsOwn'
  BY <1>1, <1>3, <1>4, <1>5 DEF RunnersInv, OutputIsOwn
<1> QED BY <1>1, <1>6, DoneKeeps DEF RunnersInv, TextsAreTrue

LEMMA NothingAnswered ==
    ASSUME RunnersInv, NEW w \in Workers, RunNothing(w) \/ Throw(w) \/ UNCHANGED runnerVars
    PROVE  RunnersInv'
<1>1. CASE RunNothing(w)
  BY <1>1, DoneKeeps DEF RunnersInv, RunNothing, Done, fields, TextsAreTrue, OutputIsOwn
<1>2. CASE Throw(w) \/ UNCHANGED runnerVars
  <2>1. /\ UNCHANGED <<program, queue, taken, current, validated, reqID, inputError,
                       lastError, active, outputs, errors, served>>
        /\ alive' \in BOOLEAN
    BY <1>2 DEF Throw, fields, runnerVars, RunnersInv, TypeOK
  <2>2. TypeOK'
    BY <2>1 DEF RunnersInv, TypeOK
  <2>3. \A v \in Workers : Remembered(v)' /\ (validated'[v] => Judged(v)')
    BY <2>1 DEF RunnersInv, Remembered, Judged, Chosen, Tried
  <2> QED BY <2>1, <2>2, <2>3 DEF RunnersInv, TextsAreTrue, OutputIsOwn
<1> QED BY <1>1, <1>2

LEMMA RunnersInductive == RunnersInv /\ [Next]_runnerVars => RunnersInv'
<1> SUFFICES ASSUME RunnersInv, [Next]_runnerVars PROVE RunnersInv'
  OBVIOUS
<1>1. ASSUME NEW w \in Workers, Work(w) PROVE RunnersInv'
  BY <1>1, TakeKeeps, ValidateKeeps, RunErrorKeeps, RunOutputKeeps, NothingAnswered DEF Work
<1>2. CASE UNCHANGED runnerVars
  <2>1. CASE Workers = {}
    <3>1. TypeOK' /\ TextsAreTrue' /\ OutputIsOwn' /\ \A e \in errors' : e.by \in Workers
      BY <1>2 DEF RunnersInv, runnerVars, fields, TypeOK, TextsAreTrue, OutputIsOwn
    <3> QED BY <2>1, <3>1 DEF RunnersInv
  <2>2. CASE Workers # {}
    BY <1>2, <2>2, NothingAnswered
  <2> QED BY <2>1, <2>2
<1> QED BY <1>1, <1>2 DEF Next

(* The requests popped, the worker's request and the fields of its runners *)
(* keep their types and ranges: a validated worker has a request, and a    *)
(* request a worker has was popped.                                        *)
THEOREM RunnersTypeCorrect == Spec => []TypeOK
<1>1. RunnersInv => TypeOK
  BY DEF RunnersInv
<1> QED BY <1>1, InitRunners, RunnersInductive, PTL DEF Spec

(* The text of an OCR error is true of the request it answers, that of a   *)
(* face detector of a request the same worker popped; an error without a   *)
(* text answers a request that Flags rejects.                              *)
THEOREM ErrorTextsTrue == Spec => []TextsAreTrue
<1>1. RunnersInv => TextsAreTrue
  BY DEF RunnersInv
<1> QED BY <1>1, InitRunners, RunnersInductive, PTL DEF Spec

(* An output comes from a service that takes the request, and has the id   *)
(* the request gives, however many requests the runner served before.      *)
THEOREM OutputsAreOwn == Spec => []OutputIsOwn
<1>1. RunnersInv => OutputIsOwn
  BY DEF RunnersInv
<1> QED BY <1>1, InitRunners, RunnersInductive, PTL DEF Spec
=============================================================================
