-------------------------------- MODULE Flags -------------------------------
(***************************************************************************)
(* The parser of command lines and requests (processing/Flags.cpp).        *)
(* validateInput walks through the words of an input; every word is an     *)
(* action, and so are the checks at the end.  One Flags object validates   *)
(* one input after another.  A word is a flag ("-" and a name) or a value. *)
(* setIgnoreUnknownFlags is left out: nothing calls it.                    *)
(***************************************************************************)
EXTENDS Integers, Sequences, FiniteSets, Functions

CONSTANTS
    Programs,     \* who has a Flags object
    Table,        \* per program: the flags and the rules it registers
    Inputs,       \* per program: the inputs that may be given
    Later         \* per program, a bound: those given after another one

(* A table has the flags of each kind, flagsDependencies and               *)
(* incompatibleFlags, pairs of flags where the first needs the second or   *)
(* excludes it, flagsLooseDependencies, a function to the flags one of     *)
(* which the key needs, and minCount.  The setters refuse a flag of two    *)
(* kinds and a rule about a name that is not a flag.                       *)
FlagsOf(t) ==
    t.requiredFlags \cup t.optionalFlags \cup t.noValuesFlags \cup t.overridingFlags

(* A word is a flag, which starts with '-', or a value.                    *)
Word == [isFlag : BOOLEAN, text : STRING]

ASSUME FlagsAssumption ==
    \A p \in Programs : LET t == Table[p] IN
        /\ Later[p] \subseteq Inputs[p] /\ Inputs[p] \subseteq Seq(Word)
        /\ FlagsOf(t) \subseteq STRING /\ IsFiniteSet(FlagsOf(t)) /\ t.minCount \in Nat
        /\ t.requiredFlags \cap t.optionalFlags = {}
        /\ (t.requiredFlags \cup t.optionalFlags) \cap t.noValuesFlags = {}
        /\ (t.requiredFlags \cup t.optionalFlags \cup t.noValuesFlags)
              \cap t.overridingFlags = {}
        /\ \A d \in t.flagsDependencies \cup t.incompatibleFlags :
              {d[1], d[2]} \subseteq FlagsOf(t)
        /\ \A f \in DOMAIN t.flagsLooseDependencies :
              {f} \cup t.flagsLooseDependencies[f] \subseteq FlagsOf(t)

VARIABLES
    program,                   \* whose object this is
    input, i,                  \* the words and how many were looked at
    verdict,                   \* "reading", then what validateInput returned
    flag, expectingFlag, valuesFound, flagWasFound, requiredFlagsFound,
    overridingFlagFound, foundFlags, flagValues

locals == <<flag, expectingFlag, valuesFound, flagWasFound, requiredFlagsFound>>
fields == <<overridingFlagFound, foundFlags, flagValues>>
vars == <<program, input, i, verdict, locals, fields>>

NoFlag == "none"
Flag(f) == [isFlag |-> TRUE, text |-> f]
Value(v) == [isFlag |-> FALSE, text |-> v]

requiredFlags == Table[program].requiredFlags
optionalFlags == Table[program].optionalFlags
noValuesFlags == Table[program].noValuesFlags
overridingFlags == Table[program].overridingFlags
flagsDependencies == Table[program].flagsDependencies
incompatibleFlags == Table[program].incompatibleFlags
flagsLooseDependencies == Table[program].flagsLooseDependencies

flagExist(f) == f \in FlagsOf(Table[program])

HasValues == requiredFlags \cup optionalFlags

(* Mutants: the flags or the values of the input before stay.              *)
StartKeepsFlags(words) ==
    /\ input' = words /\ i' = 0 /\ verdict' = "reading"
    /\ flag' = NoFlag /\ expectingFlag' = TRUE /\ valuesFound' = FALSE
    /\ flagWasFound' = FALSE /\ requiredFlagsFound' = 0
    /\ overridingFlagFound' = FALSE
    /\ flagValues' = [f \in HasValues |-> <<>>]
    /\ foundFlags' = foundFlags

StartKeepsValues(words) ==
    /\ input' = words /\ i' = 0 /\ verdict' = "reading"
    /\ flag' = NoFlag /\ expectingFlag' = TRUE /\ valuesFound' = FALSE
    /\ flagWasFound' = FALSE /\ requiredFlagsFound' = 0
    /\ overridingFlagFound' = FALSE
    /\ flagValues' = flagValues
    /\ foundFlags' = <<>>

(* The start of validateInput: clean, and the locals.                      *)
Start(words) ==
    /\ input' = words /\ i' = 0 /\ verdict' = "reading"
    /\ flag' = NoFlag /\ expectingFlag' = TRUE /\ valuesFound' = FALSE
    /\ flagWasFound' = FALSE /\ requiredFlagsFound' = 0
    /\ overridingFlagFound' = FALSE
    /\ flagValues' = [f \in HasValues |-> <<>>]
    /\ foundFlags' = <<>>

Init ==
    /\ program \in Programs /\ input \in Inputs[program] /\ i = 0 /\ verdict = "reading"
    /\ flag = NoFlag /\ expectingFlag = TRUE /\ valuesFound = FALSE
    /\ flagWasFound = FALSE /\ requiredFlagsFound = 0
    /\ overridingFlagFound = FALSE
    /\ flagValues = [f \in HasValues |-> <<>>]
    /\ foundFlags = <<>>

-----------------------------------------------------------------------------
Reading == verdict = "reading" /\ i < Len(input)
current == input[i + 1]

Reject == verdict' = "rejected" /\ UNCHANGED <<program, input, i>>

(* Nothing may follow an overriding flag.                                  *)
AfterOverriding ==
    /\ Reading /\ overridingFlagFound
    /\ Reject /\ UNCHANGED <<locals, fields>>

UnknownFlag ==
    /\ Reading /\ ~ overridingFlagFound
    /\ current.isFlag /\ ~ flagExist(current.text)
    /\ flag' = current.text
    /\ expectingFlag' = (expectingFlag \/ valuesFound)
    /\ Reject
    /\ UNCHANGED <<valuesFound, flagWasFound, requiredFlagsFound, fields>>

AtFlag ==
    /\ Reading /\ ~ overridingFlagFound
    /\ current.isFlag /\ flagExist(current.text)
    /\ flag' = current.text

(* The flag before it lacks a value.                                       *)
ExpectingValue ==
    /\ AtFlag
    /\ ~ expectingFlag /\ ~ valuesFound
    /\ Reject /\ UNCHANGED <<expectingFlag, valuesFound, flagWasFound,
                             requiredFlagsFound, fields>>

FlagFollows ==
    /\ AtFlag
    /\ expectingFlag \/ valuesFound
    /\ expectingFlag' = (current.text \in noValuesFlags)
    /\ overridingFlagFound' = (current.text \in overridingFlags)

DuplicateFlag ==
    /\ FlagFollows
    /\ current.text \in Range(foundFlags)
    /\ Reject
    /\ UNCHANGED <<valuesFound, flagWasFound, requiredFlagsFound, foundFlags,
                   flagValues>>

NewFlag ==
    /\ FlagFollows
    /\ current.text \notin Range(foundFlags)
    /\ foundFlags' = Append(foundFlags, current.text)
    /\ requiredFlagsFound' = IF current.text \in requiredFlags
                             THEN requiredFlagsFound + 1 ELSE requiredFlagsFound
    /\ flagWasFound' = TRUE /\ valuesFound' = FALSE
    /\ i' = i + 1
    /\ UNCHANGED <<program, input, verdict, flagValues>>

AtValue == Reading /\ ~ overridingFlagFound /\ ~ current.isFlag

(* A value before any flag, or of a flag without values.                   *)
UnexpectedValue ==
    /\ AtValue
    /\ ~ flagWasFound \/ flag \in noValuesFlags
    /\ Reject /\ UNCHANGED <<locals, fields>>

NewValue ==
    /\ AtValue
    /\ flagWasFound /\ flag \in HasValues
    /\ flagValues' = [flagValues EXCEPT ![flag] = Append(@, current.text)]
    /\ valuesFound' = TRUE
    /\ i' = i + 1
    /\ UNCHANGED <<program, input, verdict, flag, expectingFlag, flagWasFound,
                   requiredFlagsFound, overridingFlagFound, foundFlags>>

-----------------------------------------------------------------------------
checkDependencies(found) ==
    \A d \in flagsDependencies : d[1] \in found => d[2] \in found

checkLooseDependencies(found) ==
    \A f \in found \cap DOMAIN flagsLooseDependencies :
        \/ flagsLooseDependencies[f] = {}
        \/ flagsLooseDependencies[f] \cap found # {}

checkIncompatibilities(found) ==
    \A d \in incompatibleFlags : ~ (d[1] \in found /\ d[2] \in found)

Finish ==
    /\ verdict = "reading" /\ i = Len(input)
    /\ verdict' =
         IF /\ overridingFlagFound \/ Len(foundFlags) >= Table[program].minCount
            /\ overridingFlagFound
               \/ requiredFlagsFound >= Cardinality(requiredFlags)
            /\ ~ (flagWasFound /\ ~ valuesFound /\ flag \in HasValues)
            /\ checkDependencies(Range(foundFlags))
            /\ checkIncompatibilities(Range(foundFlags))
            /\ checkLooseDependencies(Range(foundFlags))
         THEN "accepted" ELSE "rejected"
    /\ UNCHANGED <<program, input, i, locals, fields>>

(* The next request is validated by the same object.                       *)
Validate ==
    /\ verdict # "reading"
    /\ \E words \in Later[program] : Start(words)
    /\ UNCHANGED program

Next ==
    \/ AfterOverriding \/ UnknownFlag \/ ExpectingValue \/ DuplicateFlag
    \/ NewFlag \/ UnexpectedValue \/ NewValue \/ Finish \/ Validate

Spec == Init /\ [][Next]_vars
-----------------------------------------------------------------------------
(* Properties *)

(* The fields hold what their declarations say.                            *)
TypeOK ==
    /\ program \in Programs /\ i \in 0 .. Len(input)
    /\ verdict \in {"reading", "accepted", "rejected"}
    /\ {expectingFlag, valuesFound, flagWasFound, overridingFlagFound} \subseteq BOOLEAN
    /\ \A f \in Range(foundFlags) : flagExist(f)
    /\ requiredFlagsFound \in 0 .. Cardinality(requiredFlags)

(* Which inputs are good, in the words of the comments of Flags.hpp: flags *)
(* that are known, once each, with a value where one is needed and none    *)
(* where not, all that is required or needed by another, none together     *)
(* that exclude each other.                                                *)
FlagAt(words, k) == words[k].isFlag
NamesOf(words) == {words[k].text : k \in {n \in DOMAIN words : FlagAt(words, n)}}

ValueFollows(words, k) == k < Len(words) /\ ~ FlagAt(words, k + 1)

WellSpelled(words) ==
    /\ words # <<>> => FlagAt(words, 1)
    /\ \A k \in DOMAIN words : FlagAt(words, k) =>
          /\ flagExist(words[k].text)
          /\ ValueFollows(words, k) <=> words[k].text \in HasValues
          /\ \A n \in DOMAIN words :
                FlagAt(words, n) /\ n # k => words[n].text # words[k].text

Complete(found) ==
    /\ Cardinality(found) >= Table[program].minCount
    /\ requiredFlags \subseteq found

Good(words) ==
    LET found == NamesOf(words) IN
    /\ WellSpelled(words)
    /\ Complete(found)
    /\ checkDependencies(found) /\ checkIncompatibilities(found)
    /\ checkLooseDependencies(found)

Overridden(words) == NamesOf(words) \cap overridingFlags # {}

(* Without an overriding flag the verdict is the documented one, whatever  *)
(* the order of the words and whatever was validated before.               *)
VerdictIsRight ==
    verdict # "reading" /\ ~ Overridden(input) =>
        (verdict = "accepted" <=> Good(input))

(* An accepted flag has the values that follow it in the input, no others. *)
ValuesAreItsOwn ==
    verdict = "accepted" =>
        \A f \in HasValues :
            flagValues[f] =
                IF f \notin NamesOf(input) THEN <<>>
                ELSE LET k == CHOOSE n \in DOMAIN input :
                                FlagAt(input, n) /\ input[n].text = f
                         last == CHOOSE n \in k .. Len(input) :
                                    /\ \A m \in k + 1 .. n : ~ FlagAt(input, m)
                                    /\ ~ ValueFollows(input, n)
                     IN  [m \in 1 .. last - k |-> input[k + m].text]

(* An overriding flag "must be the only value in the input" (Flags.hpp).   *)
(* The code lets others come before it.                                    *)
OverridingIsAlone ==
    verdict = "accepted" /\ Overridden(input) => Len(input) = 1
=============================================================================
