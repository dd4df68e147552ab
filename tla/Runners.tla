------------------------------- MODULE Runners -------------------------------
(***************************************************************************)
(* The requests of the OCR, the face detection, the combined ("common")    *)
(* and the face comparison daemon.  Each worker thread has a runner of its *)
(* own (in the combined daemon, a Pair of two), which validates a request  *)
(* and then runs it with what the validation left in its fields.           *)
(*                                                                         *)
(* A request maps the flags it gives to their values; Flags accepts it if  *)
(* it gives the required flag, none it does not know, and a value to each. *)
(* An exception (stoi's, or OpenCV's about an image that is none) leaves   *)
(* the thread, which ends the process.                                     *)
(***************************************************************************)
EXTENDS Integers, Sequences

CONSTANTS
    Programs,        \* "ocr", "face", "common", "faceMatcher"
    Workers,
    RequestQueues,   \* the sequences of requests that may be given
    NumberOf,        \* the number of each value that stoi can read
    Images           \* the values that name an image

Services == {"ocr", "face"}
NoText == ""                        \* lastError, and reqID when not given

ASSUME RunnersAssumption ==
    /\ Programs \subseteq Services \cup {"common", "faceMatcher"}
    /\ \A v \in DOMAIN NumberOf : NumberOf[v] \in Int
    /\ NoText \notin DOMAIN NumberOf
    /\ DOMAIN NumberOf \cup {NoText, "input", "range"} \subseteq STRING
    /\ \A requests \in RequestQueues :
          /\ requests = [n \in 1 .. Len(requests) |-> requests[n]]
          /\ Len(requests) \in Nat
          /\ \A n \in DOMAIN requests :
                /\ requests[n] \in [DOMAIN requests[n] -> Seq(STRING)]
                /\ DOMAIN requests[n] \subseteq STRING \ {NoText}

VARIABLES
    program, queue,
    taken,           \* how many requests were popped
    current,         \* the request of each worker, 0 if it has none
    validated,       \* whether the worker has validated it
    reqID, inputError, lastError,    \* of each worker's runner of each service
    active,          \* the service the worker's validation chose
    alive,
    outputs, errors, \* the answers
    served           \* history: the requests each worker popped

fields == <<reqID, inputError, lastError, active>>
runnerVars == <<program, queue, taken, current, validated, fields, alive,
                outputs, errors, served>>

Init ==
    /\ program \in Programs /\ queue \in RequestQueues
    /\ taken = 0
    /\ current = [w \in Workers |-> 0] /\ validated = [w \in Workers |-> FALSE]
    /\ reqID = [w \in Workers |-> [s \in Services |-> NoText]]
    /\ inputError = [w \in Workers |-> [s \in Services |-> FALSE]]
    /\ lastError = [w \in Workers |-> [s \in Services |-> NoText]]
    /\ active = [w \in Workers |-> "none"]
    /\ alive = TRUE
    /\ outputs = {} /\ errors = {}
    /\ served = [w \in Workers |-> {}]
-----------------------------------------------------------------------------
(* The flags of a service, in the order validateRequest looks at them.     *)
Checks(s) ==
    IF s = "ocr"
    THEN <<"regiontype", "groupingalgorithm", "recognition", "reqID", "ocr", "words",
           "mode", "lang", "datapath">>
    ELSE <<"reqID", "original_width", "original_height", "detect_face">>

requiredFlag(s) == IF s = "ocr" THEN "ocr" ELSE "detect_face"

(* validateInput                                                           *)
Accepts(s, r) ==
    /\ requiredFlag(s) \in DOMAIN r
    /\ \A f \in DOMAIN r : r[f] # <<>> /\ \E i \in DOMAIN Checks(s) : Checks(s)[i] = f

Numeric(s) == IF s = "ocr" THEN {"regiontype", "groupingalgorithm", "recognition", "mode", "lang"}
              ELSE {}
Single(s) == {Checks(s)[i] : i \in DOMAIN Checks(s)} \ {"words"}

(* The ways a flag that was found stops the validation.                    *)
NotSingle(s, r, f) == f \in DOMAIN r \cap Single(s) /\ Len(r[f]) # 1
NoNumber(s, r, f) ==
    f \in DOMAIN r \cap Numeric(s) /\ Len(r[f]) = 1 /\ r[f][1] \notin DOMAIN NumberOf
OutOfRange(s, r, f) ==
    /\ f = "mode" /\ f \in DOMAIN r \cap Numeric(s) /\ Len(r[f]) = 1
    /\ r[f][1] \in DOMAIN NumberOf /\ NumberOf[r[f][1]] \notin 0 .. 3

Stops(s, r, f) == NotSingle(s, r, f) \/ NoNumber(s, r, f) \/ OutOfRange(s, r, f)

Passes(s, r, i) == \A k \in 1 .. i : ~ Stops(s, r, Checks(s)[k])

(* The check that stops the validation of an accepted request, if one does.*)
StopsAt(s, r, i) ==
    /\ Accepts(s, r)
    /\ i \in DOMAIN Checks(s)
    /\ Stops(s, r, Checks(s)[i]) /\ Passes(s, r, i - 1)

Throws(s, r) == \E i \in DOMAIN Checks(s) : StopsAt(s, r, i) /\ NoNumber(s, r, Checks(s)[i])

Rejects(s, r) == ~ Accepts(s, r) \/ \E i \in DOMAIN Checks(s) : StopsAt(s, r, i)

(* The texts are named by the flag they are about.                         *)
TextOf(s, r) ==
    LET i == CHOOSE k \in DOMAIN Checks(s) : StopsAt(s, r, k)
        f == Checks(s)[i]
    IN  IF OutOfRange(s, r, f) THEN "range" ELSE f

GivenID(s, r) ==
    IF /\ Accepts(s, r) /\ "reqID" \in DOMAIN r
       /\ \E i \in DOMAIN Checks(s) : Checks(s)[i] = "reqID" /\ Passes(s, r, i)
    THEN r["reqID"][1] ELSE NoText

(* Mutant: an OCR runner, too, keeps the text when Flags rejects.          *)
KeepsText(s, r, before) ==
    IF Accepts(s, r) /\ Rejects(s, r) THEN TextOf(s, r) ELSE before

(* lastError after the validation: FaceDetector leaves it as it was when   *)
(* Flags rejects the request, and neither clears it.                       *)
NextError(s, r, before) ==
    CASE ~ Accepts(s, r) -> IF s = "ocr" THEN "input" ELSE before
      [] Accepts(s, r) /\ Rejects(s, r) -> TextOf(s, r)
      [] OTHER -> before
-----------------------------------------------------------------------------
(* Pair validates with the second service whenever the first did not take  *)
(* the request, and answers with the second even if that rejects it too.   *)
Tried(r) ==
    {s \in Services :
        \/ program = s
        \/ /\ program = "common"
           /\ IF s = "ocr" THEN "ocr" \in DOMAIN r
              ELSE "ocr" \notin DOMAIN r \/ Rejects("ocr", r)}

Chosen(r) ==
    IF Tried(r) = {} THEN "none"
    ELSE IF "face" \in Tried(r) THEN "face" ELSE "ocr"

(* Mutant: the id of the request before stays.                             *)
FieldsKeepingID(w, r) ==
    /\ reqID' = [reqID EXCEPT ![w] = [s \in Services |->
                    IF s \in Tried(r) /\ GivenID(s, r) # NoText THEN GivenID(s, r) ELSE @[s]]]
    /\ inputError' = [inputError EXCEPT ![w] = [s \in Services |->
                    IF s \in Tried(r) THEN Rejects(s, r) ELSE @[s]]]
    /\ lastError' = [lastError EXCEPT ![w] = [s \in Services |->
                    IF s \in Tried(r) THEN NextError(s, r, @[s]) ELSE @[s]]]
    /\ active' = [active EXCEPT ![w] = Chosen(r)]

Fields(w, r) ==
    /\ reqID' = [reqID EXCEPT ![w] = [s \in Services |->
                    IF s \in Tried(r) THEN GivenID(s, r) ELSE @[s]]]
    /\ inputError' = [inputError EXCEPT ![w] = [s \in Services |->
                    IF s \in Tried(r) THEN Rejects(s, r) ELSE @[s]]]
    /\ lastError' = [lastError EXCEPT ![w] = [s \in Services |->
                    IF s \in Tried(r) THEN NextError(s, r, @[s]) ELSE @[s]]]
    /\ active' = [active EXCEPT ![w] = Chosen(r)]

Take(w) ==
    /\ alive /\ current[w] = 0 /\ taken < Len(queue)
    /\ taken' = taken + 1
    /\ current' = [current EXCEPT ![w] = taken + 1]
    /\ served' = [served EXCEPT ![w] = @ \cup {taken + 1}]
    /\ UNCHANGED <<program, queue, validated, fields, alive, outputs, errors>>

Validates(w) == alive /\ current[w] # 0 /\ ~ validated[w]

Validate(w) ==
    /\ Validates(w)
    /\ \A s \in Tried(queue[current[w]]) : ~ Throws(s, queue[current[w]])
    /\ Fields(w, queue[current[w]])
    /\ validated' = [validated EXCEPT ![w] = TRUE]
    /\ UNCHANGED <<program, queue, taken, current, alive, outputs, errors, served>>

Runs(w, s) == alive /\ validated[w] /\ active[w] = s

Fails(w, s) ==
    \/ inputError[w][s]
    \/ s = "face" /\ reqID[w][s] \in DOMAIN NumberOf /\ lastError[w][s] # NoText

(* The request the worker has, run: stoi, then OpenCV.                     *)
Crashes(w, s) ==
    /\ ~ inputError[w][s]
    /\ \/ reqID[w][s] \notin DOMAIN NumberOf
       \/ s = "ocr" /\ queue[current[w]]["ocr"][1] \notin Images

(* Mutant: the request counts as validated after it.                       *)
DoneStaysValidated(w) ==
    /\ current' = [current EXCEPT ![w] = 0]
    /\ UNCHANGED <<program, queue, taken, validated, fields, alive, served>>

Done(w) ==
    /\ current' = [current EXCEPT ![w] = 0]
    /\ validated' = [validated EXCEPT ![w] = FALSE]
    /\ UNCHANGED <<program, queue, taken, fields, alive, served>>

Throw(w) ==
    /\ \/ Validates(w) /\ \E s \in Tried(queue[current[w]]) : Throws(s, queue[current[w]])
       \/ \E s \in Services : Runs(w, s) /\ Crashes(w, s)
    /\ alive' = FALSE
    /\ UNCHANGED <<program, queue, taken, current, validated, fields, outputs, errors, served>>

RunError(w, s) ==
    /\ Runs(w, s) /\ Fails(w, s)
    /\ errors' = errors \cup {[of |-> current[w], by |-> w, from |-> s,
                               text |-> lastError[w][s]]}
    /\ UNCHANGED outputs
    /\ Done(w)

RunOutput(w, s) ==
    /\ Runs(w, s) /\ ~ Fails(w, s) /\ ~ Crashes(w, s)
    /\ outputs' = outputs \cup {[of |-> current[w], by |-> w, from |-> s,
                                 id |-> NumberOf[reqID[w][s]]]}
    /\ UNCHANGED errors
    /\ Done(w)

(* FaceMatcher's validateRequest and run are empty.                        *)
RunNothing(w) ==
    /\ Runs(w, "none")
    /\ Done(w)
    /\ UNCHANGED <<outputs, errors>>

Work(w) ==
    \/ Take(w) \/ Validate(w) \/ Throw(w) \/ RunNothing(w)
    \/ \E s \in Services : RunError(w, s) \/ RunOutput(w, s)

Next == \E w \in Workers : Work(w)

Spec == Init /\ [][Next]_runnerVars
-----------------------------------------------------------------------------
TypeOK ==
    /\ program \in Programs /\ queue \in RequestQueues
    /\ taken \in 0 .. Len(queue)
    /\ current \in [Workers -> 0 .. taken]
    /\ validated \in [Workers -> BOOLEAN]
    /\ \A w \in Workers : validated[w] => current[w] # 0
    /\ reqID \in [Workers -> [Services -> STRING]]
    /\ inputError \in [Workers -> [Services -> BOOLEAN]]
    /\ lastError \in [Workers -> [Services -> STRING]]
    /\ active \in [Workers -> Services \cup {"none"}]
    /\ alive \in BOOLEAN
    /\ served \in [Workers -> SUBSET (1 .. taken)]

(* What the text of an error says is so of a request.                      *)
TrueOf(text, s, r) ==
    \/ text = "input" /\ ~ Accepts(s, r)
    \/ text = "range" /\ OutOfRange(s, r, "mode")
    \/ NotSingle(s, r, text)

(* The error an OCR runner answers is one of the request it answers.  The  *)
(* text of a face detector may be that of an earlier request, but of one   *)
(* the same worker popped, never another worker's; and an error without a  *)
(* text is only given to a request that Flags rejects.                     *)
TextsAreTrue ==
    \A e \in errors :
        IF e.from = "ocr" THEN TrueOf(e.text, "ocr", queue[e.of])
        ELSE IF e.text = NoText THEN ~ Accepts("face", queue[e.of])
        ELSE \E m \in served[e.by] : m <= e.of /\ TrueOf(e.text, "face", queue[m])

(* An output carries the id of its own request, not of one the runner      *)
(* served before, and comes from a service that takes the request, which   *)
(* the combined daemon may first have offered to the other.                *)
OutputIsOwn ==
    \A o \in outputs :
        LET r == queue[o.of] IN
        /\ ~ Rejects(o.from, r)
        /\ "reqID" \in DOMAIN r /\ r["reqID"][1] \in DOMAIN NumberOf
        /\ o.id = NumberOf[r["reqID"][1]]

(* "true if an error occurred in the latest request" (CommandRunner.hpp):  *)
(* only such a request is answered with an error.  Not so of a face        *)
(* detector, whose lastError stays: ErrorIsOfThisRequest fails.            *)
ErrorIsOfThisRequest == \A e \in errors : Rejects(e.from, queue[e.of])

(* "index of service selected by latest request" (Pair.hpp): the service   *)
(* that answers is one the request asks for, if it asks for one.  A request *)
(* for OCR that is rejected is answered by the face detector:              *)
(* SelectedAnswers fails.                                                  *)
SelectedAnswers ==
    \A e \in errors : LET r == queue[e.of] IN
        program = "common" /\ (\E s \in Services : requiredFlag(s) \in DOMAIN r)
            => requiredFlag(e.from) \in DOMAIN r

(* "./OCR -ocr <path to image>" with a language (HelpOCR.cpp) is a request *)
(* a daemon can serve.  stoi throws at the missing id and at the language: *)
(* StaysUp fails.                                                          *)
StaysUp == alive
=============================================================================
