------------------------- MODULE PatternMatcherFlags ------------------------
(***************************************************************************)
(* The flags of a PatternMatcher request and what validateRequest makes of *)
(* them (processing/commandrunner/PatternMatcher.cpp).  Names are those of *)
(* utils/Constants.cpp.                                                    *)
(***************************************************************************)
EXTENDS Flags

Actions == {"add_indexes", "remove_indexes", "update_indexes", "matching"}
OneValue == {"scenario", "reqID", "mr", "mma"}

(* initializeCommandRunner                                                 *)
PMNoValues == Actions
PMOptional == OneValue \cup {"indexes", "status_indexes"}

(* Mutant: the rules of remove_indexes are forgotten.                      *)
PMFewerIncompatible ==
    {<<"add_indexes", f>> : f \in {"remove_indexes", "update_indexes",
                                   "status_indexes", "matching"}}
      \cup {<<"update_indexes", "matching">>}
      \cup {<<"status_indexes", f>> : f \in {"indexes", "matching"}}

PMIncompatible ==
    {<<"add_indexes", f>> : f \in {"remove_indexes", "update_indexes",
                                   "status_indexes", "matching"}}
      \cup {<<"remove_indexes", f>> : f \in {"update_indexes", "matching"}}
      \cup {<<"update_indexes", "matching">>}
      \cup {<<"status_indexes", f>> : f \in {"indexes", "matching"}}

PMDependencies ==
    {<<a, "indexes">> : a \in Actions}
      \cup {<<f, "matching">> : f \in {"mr", "mma"}}

PMLoose ==
    [f \in {"indexes", "matching", "reqID"} |->
        CASE f = "indexes"  -> Actions
          [] f = "matching" -> {"scenario"}
          [] f = "reqID"    -> Actions \cup {"status_indexes"}]

PMTable ==
    [requiredFlags |-> {}, optionalFlags |-> PMOptional,
     noValuesFlags |-> PMNoValues, overridingFlags |-> {},
     flagsDependencies |-> PMDependencies, incompatibleFlags |-> PMIncompatible,
     flagsLooseDependencies |-> PMLoose, minCount |-> 1]

-----------------------------------------------------------------------------
(* validateRequest: the action of the last flag it looks for that was      *)
(* found, and an input error when a flag of one value has another number.  *)
flagFound(f) == f \in Range(foundFlags)

ActionOrder == <<"matching", "add_indexes", "remove_indexes", "update_indexes",
                 "status_indexes">>

FoundActions == {k \in DOMAIN ActionOrder : flagFound(ActionOrder[k])}

Action ==
    IF FoundActions = {} THEN "NONE"
    ELSE ActionOrder[CHOOSE k \in FoundActions : \A n \in FoundActions : n <= k]

InputError ==
    \/ verdict = "rejected"
    \/ \E f \in OneValue : flagFound(f) /\ Len(flagValues[f]) # 1
    \/ flagFound("indexes") /\ flagValues["indexes"] = <<>>

(* stoi(reqID) goes through for a number; there is none without the flag.  *)
HasReqID == flagFound("reqID")
-----------------------------------------------------------------------------
(* Properties *)

Validated == program = "PatternMatcher" /\ verdict # "reading" /\ ~ InputError

(* What run() takes for granted of a request that has an id and no input   *)
(* error: one action and never NONE ("shouldn't come in here"), indexes    *)
(* where it goes through them, a scene to match.                           *)
RequestIsRunnable ==
    Validated /\ HasReqID =>
        /\ Cardinality(FoundActions) = 1
        /\ Action \in Actions => flagValues["indexes"] # <<>>
        /\ Action = "matching" => Len(flagValues["scenario"]) = 1
        /\ Action = "status_indexes" => flagValues["indexes"] = <<>>

(* "-cacheStatus -reqID <ID> : will return trainers cache status"          *)
(* (README-PatternMatcher.txt).  The code makes the flag of this action one*)
(* that needs a value, and rejects the request.                            *)
StatusIsRunnable ==
    program = "PatternMatcher" /\ verdict # "reading"
    /\ input = <<Flag("status_indexes"), Flag("reqID"), Value("1")>>
    => ~ InputError
=============================================================================
