----------------------------- MODULE FlagsProofs -----------------------------
(***************************************************************************)
(* Proofs about Flags, for any table of flags and rules and any inputs, of *)
(* any length, and about the tables of the PatternMatcher requests and of  *)
(* the daemons.  validateInput is a loop: what is said of the whole input  *)
(* is proved of the words looked at so far.                                *)
(***************************************************************************)
EXTENDS PatternMatcherFlags, DaemonFlags, FiniteSetTheorems, SequenceTheorems, TLAPS

(* A flag is of one kind.                                                  *)
LEMMA OneKind ==
    ASSUME program \in Programs
    PROVE  /\ HasValues \cap noValuesFlags = {}
           /\ (HasValues \cup noValuesFlags) \cap overridingFlags = {}
           /\ FlagsOf(Table[program]) = HasValues \cup noValuesFlags \cup overridingFlags
           /\ FlagsOf(Table[program]) \subseteq STRING
           /\ IsFiniteSet(FlagsOf(Table[program])) /\ IsFiniteSet(requiredFlags)
           /\ Table[program].minCount \in Nat
<1>1. requiredFlags \subseteq FlagsOf(Table[program])
  BY DEF FlagsOf, requiredFlags
<1>2. IsFiniteSet(FlagsOf(Table[program]))
  BY FlagsAssumption
<1>3. IsFiniteSet(requiredFlags)
  BY <1>1, <1>2, FS_Subset
<1> QED
  BY <1>2, <1>3, FlagsAssumption
     DEF HasValues, FlagsOf, requiredFlags, optionalFlags, noValuesFlags, overridingFlags

LEMMA AddToRange ==
    ASSUME NEW S, NEW s \in Seq(S), NEW e \in S
    PROVE  /\ Append(s, e) \in Seq(S) /\ Len(Append(s, e)) = Len(s) + 1
           /\ Range(Append(s, e)) = Range(s) \cup {e}
<1>1. /\ Len(Append(s, e)) = Len(s) + 1 /\ Append(s, e) \in Seq(S)
      /\ \A n \in 1 .. Len(s) : Append(s, e)[n] = s[n]
      /\ Append(s, e)[Len(s) + 1] = e
  OBVIOUS
<1>2. DOMAIN s = 1 .. Len(s) /\ DOMAIN Append(s, e) = 1 .. Len(s) + 1 /\ Len(s) \in Nat
  BY <1>1
<1>3. 1 .. Len(s) + 1 = (1 .. Len(s)) \cup {Len(s) + 1}
  BY <1>2
<1> QED BY <1>1, <1>2, <1>3 DEF Range
-----------------------------------------------------------------------------
(* What holds of the words looked at so far, whatever the verdict.         *)
Names(n) == {input[k].text : k \in {m \in 1 .. n : input[m].isFlag}}

Places == /\ program \in Programs /\ input \in Inputs[program] /\ input \in Seq(Word)
          /\ i \in 0 .. Len(input) /\ Len(input) \in Nat
          /\ verdict \in {"reading", "accepted", "rejected"}

FoundInv ==
    /\ foundFlags \in Seq(FlagsOf(Table[program]))
    /\ Range(foundFlags) = Names(i) /\ IsFiniteSet(Names(i))
    /\ Len(foundFlags) = Cardinality(Names(i))
    /\ requiredFlagsFound = Cardinality(Names(i) \cap requiredFlags)
    /\ \A k, n \in 1 .. i :
          input[k].isFlag /\ input[n].isFlag /\ input[k].text = input[n].text => k = n

SpellingInv ==
    /\ i > 0 => input[1].isFlag
    /\ \A k \in 1 .. i : input[k].isFlag => flagExist(input[k].text)
    /\ \A k \in 1 .. i : input[k].isFlag /\ k < i =>
          (input[k].text \in HasValues <=> ~ input[k + 1].isFlag)

(* v is what stands between the flag at k and the next, or the i-th word.  *)
Follow(v, k) ==
    /\ k + Len(v) <= i
    /\ \A m \in 1 .. Len(v) : ~ input[k + m].isFlag /\ v[m] = input[k + m].text
    /\ k + Len(v) < i => input[k + Len(v) + 1].isFlag

ValuesInv ==
    /\ flagValues \in [HasValues -> Seq(STRING)]
    /\ \A f \in HasValues \ Names(i) : flagValues[f] = <<>>
    /\ \A k \in 1 .. i : input[k].isFlag /\ input[k].text \in HasValues =>
          Follow(flagValues[input[k].text], k)

(* The locals tell where the last flag is, until an input is rejected.     *)
NoneYet ==
    /\ i = 0 /\ ~ flagWasFound /\ expectingFlag /\ ~ valuesFound
    /\ ~ overridingFlagFound

LastIs(p) ==
    /\ p \in 1 .. i
    /\ input[p].isFlag /\ input[p].text = flag
    /\ \A m \in p + 1 .. i : ~ input[m].isFlag
    /\ flagWasFound /\ (valuesFound <=> p < i)
    /\ expectingFlag <=> flag \in noValuesFlags
    /\ overridingFlagFound <=> flag \in overridingFlags

LastInv == NoneYet \/ \E p \in 1 .. i : LastIs(p)

Switches ==
    /\ expectingFlag \in BOOLEAN /\ valuesFound \in BOOLEAN
    /\ flagWasFound \in BOOLEAN /\ overridingFlagFound \in BOOLEAN

Passed ==
    /\ i = Len(input) /\ LastInv
    /\ overridingFlagFound \/ Len(foundFlags) >= Table[program].minCount
    /\ overridingFlagFound \/ requiredFlagsFound >= Cardinality(requiredFlags)
    /\ ~ (flagWasFound /\ ~ valuesFound /\ flag \in HasValues)
    /\ checkDependencies(Range(foundFlags))
    /\ checkIncompatibilities(Range(foundFlags))
    /\ checkLooseDependencies(Range(foundFlags))

WordsInv ==
    /\ Places /\ Switches /\ FoundInv /\ SpellingInv /\ ValuesInv
    /\ verdict = "reading" => LastInv
    /\ verdict = "accepted" => Passed
    /\ verdict = "rejected" => Overridden(input) \/ ~ Good(input)

LEMMA InitWords == Init => WordsInv
<1> SUFFICES ASSUME Init PROVE WordsInv
  OBVIOUS
<1>1. Places
  BY FlagsAssumption DEF Init, Places
<1>2. Names(0) = {}
  BY DEF Names
<1>3. FoundInv
  <2>1. Names(i) = {} /\ Names(i) \cap requiredFlags = {} /\ foundFlags = <<>> /\ i = 0
        /\ requiredFlagsFound = 0
    BY <1>2 DEF Init
  <2>2. IsFiniteSet({}) /\ Cardinality({}) = 0
    BY FS_EmptySet
  <2>3. Range(foundFlags) = {} /\ Len(foundFlags) = 0
    BY <2>1 DEF Range
  <2> QED BY <2>1, <2>2, <2>3 DEF FoundInv
<1>4. Switches
  BY DEF Init, Switches
<1>7. SpellingInv
  BY DEF Init, SpellingInv
<1>6. LastInv
  BY DEF Init, LastInv, NoneYet
<1>5. ValuesInv
  BY DEF Init, ValuesInv
<1> QED BY <1>1, <1>3, <1>4, <1>5, <1>6, <1>7 DEF Init, WordsInv

(* A rejection changes none of what was counted.                           *)
LEMMA RejectWords ==
    ASSUME WordsInv, Reject, Overridden(input) \/ ~ Good(input),
           UNCHANGED <<requiredFlagsFound, foundFlags, flagValues>>, Switches'
    PROVE  WordsInv'
<1>1. UNCHANGED <<program, input, i>> /\ verdict' = "rejected"
  BY DEF Reject
<1>2. Places'
  BY <1>1 DEF WordsInv, Places
<1>3. Names(i)' = Names(i)
  BY <1>1 DEF Names
<1>4. FoundInv'
  BY <1>1, <1>3 DEF WordsInv, FoundInv, requiredFlags
<1>5. SpellingInv'
  BY <1>1 DEF WordsInv, SpellingInv, flagExist, HasValues, requiredFlags, optionalFlags
<1>6. HasValues' = HasValues
  BY <1>1 DEF HasValues, requiredFlags, optionalFlags
<1>7. ValuesInv'
  BY <1>1, <1>3, <1>6 DEF WordsInv, ValuesInv, Follow
<1>8. Overridden(input)' = Overridden(input) /\ Good(input)' = Good(input)
  BY <1>1 DEF Overridden, Good, WellSpelled, Complete, checkDependencies,
     checkIncompatibilities, checkLooseDependencies, flagExist, HasValues, requiredFlags,
     optionalFlags, overridingFlags, flagsDependencies, incompatibleFlags,
     flagsLooseDependencies
<1> QED BY <1>1, <1>2, <1>4, <1>5, <1>7, <1>8 DEF WordsInv

(* The word that is looked at, and the flag before it.                     *)
LEMMA CurrentWord ==
    ASSUME WordsInv, Reading
    PROVE  /\ i + 1 \in DOMAIN input /\ DOMAIN input = 1 .. Len(input) /\ i \in Nat
           /\ 1 .. i + 1 = (1 .. i) \cup {i + 1} /\ 1 .. i \subseteq DOMAIN input
           /\ current \in Word /\ LastInv
<1>1. Places /\ LastInv /\ i < Len(input)
  BY DEF WordsInv, Reading
<1> QED BY <1>1 DEF Places, current

LEMMA FoundAreNames ==
    ASSUME WordsInv
    PROVE  Names(i) \subseteq NamesOf(input) /\ Names(Len(input)) = NamesOf(input)
<1>1. DOMAIN input = 1 .. Len(input) /\ 1 .. i \subseteq DOMAIN input
  BY DEF WordsInv, Places
<1> QED BY <1>1 DEF Names, NamesOf, FlagAt

(* The overriding flag is one of the input's.                              *)
LEMMA OverriddenFlag ==
    ASSUME WordsInv, LastInv, overridingFlagFound
    PROVE  Overridden(input)
<1>1. PICK p \in 1 .. i : LastIs(p)
  BY DEF LastInv, NoneYet
<1>2. flag \in overridingFlags /\ flag \in NamesOf(input)
  BY <1>1 DEF LastIs, NamesOf, FlagAt, WordsInv, Places
<1> QED BY <1>2 DEF Overridden

LEMMA RejectOverriding ==
    ASSUME WordsInv, AfterOverriding
    PROVE  WordsInv'
<1>1. Reading /\ overridingFlagFound /\ Reject /\ UNCHANGED <<locals, fields>>
  BY DEF AfterOverriding
<1>2. Overridden(input)
  BY <1>1, CurrentWord, OverriddenFlag
<1> QED BY <1>1, <1>2, RejectWords DEF WordsInv, Switches, locals, fields

LEMMA RejectUnknown ==
    ASSUME WordsInv, UnknownFlag
    PROVE  WordsInv'
<1>1. /\ Reading /\ current.isFlag /\ ~ flagExist(current.text) /\ Reject
      /\ expectingFlag' = (expectingFlag \/ valuesFound)
      /\ UNCHANGED <<valuesFound, flagWasFound, requiredFlagsFound, fields>>
  BY DEF UnknownFlag
<1>2. ~ Good(input)
  BY <1>1, CurrentWord DEF Good, WellSpelled, FlagAt, current
<1>3. Switches'
  BY <1>1 DEF WordsInv, Switches, fields
<1> QED BY <1>1, <1>2, <1>3, RejectWords DEF fields

LEMMA RejectLacking ==
    ASSUME WordsInv, ExpectingValue
    PROVE  WordsInv'
<1>1. /\ Reading /\ current.isFlag /\ ~ expectingFlag /\ ~ valuesFound /\ Reject
      /\ ~ overridingFlagFound
      /\ UNCHANGED <<expectingFlag, valuesFound, flagWasFound, requiredFlagsFound, fields>>
  BY DEF ExpectingValue, AtFlag
<1>2. PICK p \in 1 .. i : LastIs(p)
  BY <1>1, CurrentWord DEF LastInv, NoneYet
<1>3. p = i /\ flag \notin noValuesFlags /\ flag \notin overridingFlags
  BY <1>1, <1>2, CurrentWord DEF LastIs
<1>4. input[i].isFlag /\ input[i].text = flag /\ i \in DOMAIN input /\ i \in 1 .. i
  BY <1>2, <1>3, CurrentWord, <1>1 DEF LastIs
<1>5. flag \in HasValues
  BY <1>3, <1>4, OneKind DEF WordsInv, SpellingInv, Places, flagExist
<1>6. ~ ValueFollows(input, i)
  BY <1>1 DEF ValueFollows, FlagAt, current
<1>7. ~ Good(input)
  BY <1>4, <1>5, <1>6 DEF Good, WellSpelled, FlagAt
<1>8. Switches'
  BY <1>1 DEF WordsInv, Switches, fields
<1> QED BY <1>1, <1>7, <1>8, RejectWords DEF fields

LEMMA RejectDuplicate ==
    ASSUME WordsInv, DuplicateFlag
    PROVE  WordsInv'
<1>1. /\ Reading /\ current.isFlag /\ current.text \in Range(foundFlags) /\ Reject
      /\ expectingFlag' = (current.text \in noValuesFlags)
      /\ overridingFlagFound' = (current.text \in overridingFlags)
      /\ UNCHANGED <<valuesFound, flagWasFound, requiredFlagsFound, foundFlags, flagValues>>
  BY DEF DuplicateFlag, FlagFollows, AtFlag
<1>2. PICK k \in 1 .. i : input[k].isFlag /\ input[k].text = current.text
  BY <1>1 DEF WordsInv, FoundInv, Names
<1>3. k \in DOMAIN input /\ k # i + 1 /\ i + 1 \in DOMAIN input
  BY <1>1, <1>2, CurrentWord
<1>4. ~ Good(input)
  BY <1>1, <1>2, <1>3 DEF Good, WellSpelled, FlagAt, current
<1>5. Switches'
  BY <1>1 DEF WordsInv, Switches
<1> QED BY <1>1, <1>4, <1>5, RejectWords

LEMMA RejectValue ==
    ASSUME WordsInv, UnexpectedValue
    PROVE  WordsInv'
<1>1. /\ Reading /\ ~ current.isFlag /\ Reject /\ UNCHANGED <<locals, fields>>
      /\ ~ flagWasFound \/ flag \in noValuesFlags
  BY DEF UnexpectedValue, AtValue
<1>2. ~ Good(input)
  <2>1. CASE ~ flagWasFound
    <3>1. i = 0 /\ input # <<>>
      BY <1>1, <2>1, CurrentWord DEF LastInv, NoneYet, LastIs
    <3> QED BY <1>1, <3>1 DEF Good, WellSpelled, FlagAt, current
  <2>2. CASE flagWasFound
    <3>1. PICK p \in 1 .. i : LastIs(p)
      BY <1>1, <2>2, CurrentWord DEF LastInv, NoneYet
    <3>2. flag \in noValuesFlags /\ flag \notin HasValues
      BY <1>1, <2>2, OneKind DEF WordsInv, Places
    <3>3. input[p].isFlag /\ input[p].text = flag /\ p \in DOMAIN input
          /\ \A m \in p + 1 .. i : ~ input[m].isFlag
      BY <1>1, <3>1, CurrentWord DEF LastIs
    <3>4. ~ input[p + 1].isFlag /\ p < Len(input)
      BY <1>1, <3>1, <3>3, CurrentWord DEF current, Reading
    <3>5. ValueFollows(input, p)
      BY <3>4 DEF ValueFollows, FlagAt
    <3> QED BY <3>2, <3>3, <3>5 DEF Good, WellSpelled, FlagAt
  <2> QED BY <2>1, <2>2
<1> QED BY <1>1, <1>2, RejectWords DEF WordsInv, Switches, locals, fields

(* A flag is taken in.                                                     *)
LEMMA TakeFlag ==
    ASSUME WordsInv, NewFlag
    PROVE  WordsInv'
<1> DEFINE f == current.text
<1>1. /\ Reading /\ ~ overridingFlagFound /\ current.isFlag /\ flagExist(f) /\ flag' = f
      /\ expectingFlag \/ valuesFound
      /\ expectingFlag' = (f \in noValuesFlags)
      /\ overridingFlagFound' = (f \in overridingFlags)
      /\ f \notin Range(foundFlags) /\ foundFlags' = Append(foundFlags, f)
      /\ requiredFlagsFound' = IF f \in requiredFlags
                               THEN requiredFlagsFound + 1 ELSE requiredFlagsFound
      /\ flagWasFound' = TRUE /\ valuesFound' = FALSE /\ i' = i + 1
      /\ UNCHANGED <<program, input, verdict, flagValues>>
  BY DEF NewFlag, FlagFollows, AtFlag
<1>2. /\ input[i + 1].isFlag /\ input[i + 1].text = f /\ i < Len(input)
      /\ verdict = "reading" /\ verdict' = "reading"
  BY <1>1 DEF current, Reading
<1>3. /\ i \in Nat /\ 1 .. i + 1 = (1 .. i) \cup {i + 1} /\ LastInv
      /\ program \in Programs /\ Len(input) \in Nat
  BY <1>1, CurrentWord DEF WordsInv, Places
<1> HIDE DEF f
<1>4. UNCHANGED <<HasValues, requiredFlags, noValuesFlags, overridingFlags, FlagsOf(Table[program])>>
  BY <1>1 DEF HasValues, requiredFlags, optionalFlags, noValuesFlags, overridingFlags
<1>5. Names(i)' = Names(i) \cup {f}
  BY <1>1, <1>2, <1>3 DEF Names
<1>6. f \notin Names(i) /\ f \in FlagsOf(Table[program])
  BY <1>1 DEF WordsInv, FoundInv, flagExist
<1>p. Places'
  BY <1>1, <1>2, <1>3 DEF WordsInv, Places
<1>7. Switches'
  <2>1. (f \in noValuesFlags) \in BOOLEAN /\ (f \in overridingFlags) \in BOOLEAN
    OBVIOUS
  <2>2. expectingFlag' \in BOOLEAN /\ overridingFlagFound' \in BOOLEAN
    BY <1>1, <2>1, Zenon
  <2>3. flagWasFound' \in BOOLEAN /\ valuesFound' \in BOOLEAN
    BY <1>1
  <2> QED BY <2>2, <2>3 DEF Switches
<1>8. FoundInv'
  <2>1. /\ foundFlags' \in Seq(FlagsOf(Table[program]))'
        /\ Range(foundFlags') = Range(foundFlags) \cup {f} /\ Len(foundFlags') = Len(foundFlags) + 1
    BY <1>1, <1>4, <1>6, AddToRange DEF WordsInv, FoundInv
  <2>2. IsFiniteSet(Names(i)') /\ Cardinality(Names(i)') = Cardinality(Names(i)) + 1
    BY <1>5, <1>6, FS_AddElement DEF WordsInv, FoundInv
  <2>3. Cardinality(Names(i)' \cap requiredFlags)
          = IF f \in requiredFlags THEN Cardinality(Names(i) \cap requiredFlags) + 1
            ELSE Cardinality(Names(i) \cap requiredFlags)
    <3>1. IsFiniteSet(Names(i) \cap requiredFlags)
      BY FS_Subset DEF WordsInv, FoundInv
    <3>2. CASE f \in requiredFlags
      <4>1. Names(i)' \cap requiredFlags = (Names(i) \cap requiredFlags) \cup {f}
        BY <1>5, <3>2
      <4> QED BY <1>6, <3>1, <3>2, <4>1, FS_AddElement
    <3>3. CASE f \notin requiredFlags
      <4>1. Names(i)' \cap requiredFlags = Names(i) \cap requiredFlags
        BY <1>5, <3>3
      <4> QED BY <3>3, <4>1
    <3> QED BY <3>2, <3>3
  <2>4. \A k \in 1 .. i : input[k].isFlag => input[k].text # f
    BY <1>6 DEF Names
  <2>5. \A k, n \in 1 .. i' : input[k].isFlag /\ input[n].isFlag /\ input[k].text = input[n].text
           => k = n
    BY <1>1, <1>2, <1>3, <2>4 DEF WordsInv, FoundInv
  <2> QED
    BY <1>1, <1>4, <1>5, <2>1, <2>2, <2>3, <2>5 DEF WordsInv, FoundInv
<1>9. SpellingInv'
  <2>1. i > 0 => input[1].isFlag
    BY DEF WordsInv, SpellingInv
  <2>2. \A k \in 1 .. i' : input[k].isFlag => flagExist(input[k].text)'
    BY <1>1, <1>2, <1>3, <1>4 DEF WordsInv, SpellingInv, flagExist
  <2>3. ASSUME i > 0, input[i].isFlag PROVE input[i].text \notin HasValues
    <3>1. PICK p \in 1 .. i : LastIs(p)
      BY <1>3, <2>3 DEF LastInv, NoneYet
    <3>2. p = i
      BY <1>3, <2>3, <3>1 DEF LastIs
    <3> QED BY <1>1, <1>3, <3>1, <3>2, OneKind DEF LastIs
  <2>4. \A k \in 1 .. i : input[k].isFlag =>
          (input[k].text \in HasValues <=> ~ input[k + 1].isFlag)
    BY <1>2, <1>3, <2>3 DEF WordsInv, SpellingInv
  <2> QED BY <1>1, <1>2, <1>3, <1>4, <2>1, <2>2, <2>4 DEF SpellingInv
<1>10. ValuesInv'
  <2>1. flagValues \in [HasValues -> Seq(STRING)]
    BY DEF WordsInv, ValuesInv
  <2>2. \A k \in 1 .. i' : input[k].isFlag /\ input[k].text \in HasValues =>
          Follow(flagValues[input[k].text], k)'
    <3> SUFFICES ASSUME NEW k \in 1 .. i + 1, input[k].isFlag, input[k].text \in HasValues
                 PROVE  Follow(flagValues[input[k].text], k)'
      BY <1>1
    <3> DEFINE v == flagValues[input[k].text]
    <3>0. v \in Seq(STRING) /\ Len(v) \in Nat /\ v' = v
      BY <1>1, <2>1
    <3>1. CASE k = i + 1
      <4>1. v = <<>>
        BY <1>2, <1>6, <3>1 DEF WordsInv, ValuesInv
      <4> QED BY <1>1, <1>3, <3>0, <3>1, <4>1 DEF Follow
    <3>2. CASE k \in 1 .. i
      <4>1. Follow(v, k)
        BY <3>2 DEF WordsInv, ValuesInv
      <4> HIDE DEF v
      <4>2. Follow(v, k)'
        BY <1>1, <1>2, <1>3, <3>0, <3>2, <4>1 DEF Follow
      <4> QED BY <4>2 DEF v
    <3> QED BY <1>3, <3>1, <3>2
  <2> QED BY <1>1, <1>4, <1>5, <2>1, <2>2 DEF WordsInv, ValuesInv
<1>11. PICK p : p = i + 1
  OBVIOUS
<1>12. LastInv'
  <2>1. p \in 1 .. i' /\ ~ (p < i') /\ \A m \in p + 1 .. i' : FALSE
    BY <1>1, <1>3, <1>11
  <2>2. input'[p].isFlag /\ input'[p].text = flag' /\ flag' = f
    BY <1>1, <1>2, <1>11
  <2>3. /\ flagWasFound' /\ ~ valuesFound'
        /\ expectingFlag' <=> flag' \in noValuesFlags'
        /\ overridingFlagFound' <=> flag' \in overridingFlags'
    BY <1>1, <1>4, <2>2
  <2>4. LastIs(p)'
    BY <2>1, <2>2, <2>3, Zenon DEF LastIs
  <2> QED BY <2>1, <2>4 DEF LastInv
<1> QED BY <1>2, <1>p, <1>7, <1>8, <1>9, <1>10, <1>12 DEF WordsInv

(* A value is taken in.                                                    *)
LEMMA TakeValue ==
    ASSUME WordsInv, NewValue
    PROVE  WordsInv'
<1>1. /\ Reading /\ ~ overridingFlagFound /\ ~ current.isFlag /\ flagWasFound
      /\ flag \in HasValues
      /\ flagValues' = [flagValues EXCEPT ![flag] = Append(flagValues[flag], current.text)]
      /\ valuesFound' = TRUE /\ i' = i + 1
      /\ UNCHANGED <<program, input, verdict, flag, expectingFlag, flagWasFound,
                     requiredFlagsFound, overridingFlagFound, foundFlags>>
  BY DEF NewValue, AtValue
<1>2. /\ ~ input[i + 1].isFlag /\ input[i + 1].text = current.text /\ i < Len(input)
      /\ verdict = "reading" /\ verdict' = "reading" /\ current.text \in STRING
  BY <1>1, CurrentWord DEF current, Reading, Word
<1>3. /\ i \in Nat /\ 1 .. i + 1 = (1 .. i) \cup {i + 1} /\ LastInv
      /\ program \in Programs /\ Len(input) \in Nat
  BY <1>1, CurrentWord DEF WordsInv, Places
<1>4. UNCHANGED <<HasValues, requiredFlags, noValuesFlags, overridingFlags, FlagsOf(Table[program])>>
  BY <1>1 DEF HasValues, requiredFlags, optionalFlags, noValuesFlags, overridingFlags
<1>5. Names(i)' = Names(i)
  BY <1>1, <1>2, <1>3 DEF Names
<1>6. PICK p \in 1 .. i : LastIs(p)
  BY <1>1, <1>3 DEF LastInv, NoneYet
<1>7. Places' /\ Switches'
  BY <1>1, <1>2, <1>3 DEF WordsInv, Places, Switches
<1>8. FoundInv'
  BY <1>1, <1>2, <1>3, <1>4, <1>5 DEF WordsInv, FoundInv
<1>9. SpellingInv'
  <2>1. i > 0 /\ input[1].isFlag
    BY <1>3, <1>6 DEF WordsInv, SpellingInv
  <2>2. \A k \in 1 .. i' : input[k].isFlag => flagExist(input[k].text)'
    BY <1>1, <1>2, <1>3, <1>4 DEF WordsInv, SpellingInv, flagExist
  <2>3. input[i].isFlag => input[i].text \in HasValues
    BY <1>1, <1>3, <1>6 DEF LastIs
  <2>4. \A k \in 1 .. i' : input[k].isFlag /\ k < i' =>
          (input[k].text \in HasValues <=> ~ input[k + 1].isFlag)
    BY <1>1, <1>2, <1>3, <2>3 DEF WordsInv, SpellingInv
  <2> QED BY <1>1, <1>4, <2>1, <2>2, <2>4 DEF SpellingInv
<1>10. ValuesInv'
  <2>1. flagValues \in [HasValues -> Seq(STRING)]
    BY DEF WordsInv, ValuesInv
  <2>2. flagValues' \in [HasValues -> Seq(STRING)]
    BY <1>1, <1>2, <2>1
  <2>3. flag \in Names(i)
    BY <1>6 DEF LastIs, Names
  <2>4. \A g \in HasValues \ {flag} : flagValues'[g] = flagValues[g]
    BY <1>1, <2>1
  <2>5. ASSUME NEW k \in 1 .. i', input[k].isFlag, input[k].text \in HasValues
        PROVE  Follow(flagValues[input[k].text], k)'
    <3>0. k \in 1 .. i
      BY <1>1, <1>2, <1>3, <2>5
    <3>1. Follow(flagValues[input[k].text], k)
      BY <2>5, <3>0 DEF WordsInv, ValuesInv
    <3>2. CASE k = p
      <4> DEFINE v == flagValues[flag]
      <4>1. input[k].text = flag /\ v \in Seq(STRING) /\ v' = Append(v, current.text)
        BY <1>1, <1>6, <2>1, <3>2 DEF LastIs
      <4>2. Follow(v, k)
        BY <3>1, <4>1
      <4> HIDE DEF v
      <4>3. /\ Len(v) \in Nat /\ Len(v') = Len(v) + 1 /\ v'[Len(v) + 1] = current.text
            /\ \A m \in 1 .. Len(v) : v'[m] = v[m]
        BY <1>2, <4>1
      <4>4. k + Len(v) = i
        <5>1. k + Len(v) + 1 \in p + 1 .. i => ~ input[k + Len(v) + 1].isFlag
          BY <1>6 DEF LastIs
        <5>2. k + Len(v) <= i /\ (k + Len(v) < i => input[k + Len(v) + 1].isFlag)
          BY <4>2 DEF Follow
        <5>3. k + Len(v) < i => k + Len(v) + 1 \in p + 1 .. i
          BY <1>3, <3>0, <3>2, <4>3
        <5>4. ~ (k + Len(v) < i) /\ k + Len(v) <= i
          BY <5>1, <5>2, <5>3, Zenon
        <5> QED BY <1>3, <3>0, <4>3, <5>4
      <4>5. \A m \in 1 .. Len(v') : ~ input[k + m].isFlag /\ v'[m] = input[k + m].text
        BY <1>2, <1>3, <3>0, <4>2, <4>3, <4>4 DEF Follow
      <4>6. Follow(v, k)'
        BY <1>1, <1>3, <3>0, <4>3, <4>4, <4>5 DEF Follow
      <4> QED BY <1>1, <4>1, <4>6 DEF v
    <3>3. CASE k # p
      <4>1. input[k].text # flag
        BY <1>6, <2>5, <3>0, <3>3 DEF LastIs, WordsInv, FoundInv
      <4> DEFINE v == flagValues[input[k].text]
      <4>2. v' = v /\ v \in Seq(STRING) /\ Len(v) \in Nat
        BY <1>1, <2>1, <2>4, <2>5, <4>1
      <4>3. Follow(v, k)
        BY <3>1
      <4> HIDE DEF v
      <4>4. k < p
        BY <1>3, <1>6, <2>5, <3>0, <3>3 DEF LastIs
      <4>5. k + Len(v) < p
        <5>1. p - k \in 1 .. Len(v) => ~ input[k + (p - k)].isFlag
          BY <4>3 DEF Follow
        <5>2. input[k + (p - k)].isFlag
          BY <1>3, <1>6, <3>0 DEF LastIs
        <5> QED BY <1>3, <3>0, <4>2, <4>4, <5>1, <5>2
      <4>6. Follow(v, k)'
        BY <1>1, <1>3, <3>0, <4>2, <4>3, <4>5 DEF Follow
      <4> QED BY <4>6 DEF v
    <3> QED BY <3>2, <3>3
  <2>6. \A g \in HasValues \ Names(i) : flagValues'[g] = <<>>
    BY <2>3, <2>4 DEF WordsInv, ValuesInv
  <2>7. \A k \in 1 .. i' : input[k].isFlag /\ input[k].text \in HasValues =>
          Follow(flagValues[input[k].text], k)'
    BY <2>5
  <2> QED BY <1>1, <1>4, <1>5, <2>2, <2>6, <2>7 DEF ValuesInv
<1>11. LastIs(p)'
  BY <1>1, <1>2, <1>3, <1>4, <1>6 DEF LastIs
<1>12. LastInv'
  BY <1>1, <1>3, <1>11 DEF LastInv
<1> QED BY <1>2, <1>7, <1>8, <1>9, <1>10, <1>12 DEF WordsInv

(* The checks at the end, and the next input.                              *)
LEMMA FinishWords ==
    ASSUME WordsInv, Finish
    PROVE  WordsInv'
<1>1. /\ verdict = "reading" /\ i = Len(input) /\ LastInv
      /\ UNCHANGED <<program, input, i, locals, fields>>
      /\ verdict' = IF Passed THEN "accepted" ELSE "rejected"
  BY DEF Finish, WordsInv, Passed
<1>2. /\ UNCHANGED <<flag, expectingFlag, valuesFound, flagWasFound, requiredFlagsFound,
                     overridingFlagFound, foundFlags, flagValues>>
      /\ UNCHANGED <<program, input, i>>
  BY <1>1 DEF locals, fields
<1>3. UNCHANGED <<HasValues, requiredFlags, noValuesFlags, overridingFlags,
                  flagsDependencies, incompatibleFlags, flagsLooseDependencies>>
  BY <1>2 DEF HasValues, requiredFlags, optionalFlags, noValuesFlags, overridingFlags,
     flagsDependencies, incompatibleFlags, flagsLooseDependencies
<1>4. CASE ~ Passed
  <2>1. Reject /\ Switches'
    BY <1>1, <1>2, <1>4 DEF Reject, WordsInv, Switches
  <2>2. ASSUME ~ Overridden(input), Good(input) PROVE FALSE
    <3>1. ~ overridingFlagFound
      BY <2>2, OverriddenFlag, <1>1
    <3>2. Names(i) = NamesOf(input) /\ Range(foundFlags) = NamesOf(input)
      BY <1>1, FoundAreNames DEF WordsInv, FoundInv
    <3>3. Len(foundFlags) >= Table[program].minCount
      BY <2>2, <3>2 DEF Good, Complete, WordsInv, FoundInv
    <3>4. requiredFlagsFound >= Cardinality(requiredFlags)
      <4>1. Names(i) \cap requiredFlags = requiredFlags
        BY <2>2, <3>2 DEF Good, Complete
      <4>2. Cardinality(requiredFlags) \in Nat
        BY OneKind, FS_CardinalityType DEF WordsInv, Places
      <4>3. requiredFlagsFound = Cardinality(requiredFlags)
        BY <4>1 DEF WordsInv, FoundInv
      <4> QED BY <4>2, <4>3
    <3>5. ~ (flagWasFound /\ ~ valuesFound /\ flag \in HasValues)
      <4> SUFFICES ASSUME flagWasFound, ~ valuesFound, flag \in HasValues PROVE FALSE
        OBVIOUS
      <4>1. PICK p \in 1 .. i : LastIs(p)
        BY <1>1 DEF LastInv, NoneYet
      <4>2. p = Len(input) /\ p \in DOMAIN input /\ input[p].isFlag /\ input[p].text = flag
        BY <1>1, <4>1 DEF LastIs, WordsInv, Places
      <4>3. ~ ValueFollows(input, p)
        BY <1>1, <4>2 DEF ValueFollows, WordsInv, Places
      <4> QED BY <2>2, <4>2, <4>3 DEF Good, WellSpelled, FlagAt
    <3> QED BY <1>1, <1>4, <2>2, <3>2, <3>3, <3>4, <3>5 DEF Passed, Good
  <2> QED BY <1>2, <2>1, <2>2, RejectWords
<1>5. CASE Passed
  <2>1. Names(i)' = Names(i)
    BY <1>2 DEF Names
  <2>2. Places' /\ verdict' = "accepted"
    BY <1>1, <1>2, <1>5 DEF WordsInv, Places
  <2>3. FoundInv'
    BY <1>2, <1>3, <2>1 DEF WordsInv, FoundInv
  <2>4. SpellingInv'
    BY <1>2, <1>3 DEF WordsInv, SpellingInv, flagExist
  <2>5. ValuesInv'
    BY <1>2, <1>3, <2>1 DEF WordsInv, ValuesInv, Follow
  <2>6. LastInv'
    BY <1>1, <1>2, <1>3 DEF LastInv, NoneYet, LastIs
  <2>7. Passed'
    BY <1>2, <1>3, <1>5, <2>6 DEF Passed, checkDependencies, checkIncompatibilities,
       checkLooseDependencies
  <2>8. Switches'
    BY <1>2 DEF WordsInv, Switches
  <2> QED BY <2>2, <2>3, <2>4, <2>5, <2>7, <2>8 DEF WordsInv
<1> QED BY <1>4, <1>5

LEMMA ValidateWords ==
    ASSUME WordsInv, Validate
    PROVE  WordsInv'
<1>1. PICK words \in Later[program] : Start(words)
  BY DEF Validate
<1>2. /\ program' = program /\ input' = words /\ i' = 0 /\ verdict' = "reading"
      /\ expectingFlag' = TRUE /\ valuesFound' = FALSE /\ flagWasFound' = FALSE
      /\ requiredFlagsFound' = 0 /\ overridingFlagFound' = FALSE
      /\ flagValues' = [f \in HasValues |-> <<>>] /\ foundFlags' = <<>>
  BY <1>1 DEF Start, Validate
<1>3. Places'
  <2>1. words \in Inputs[program] /\ words \in Seq(Word) /\ Len(words) \in Nat
    BY FlagsAssumption DEF WordsInv, Places
  <2> QED BY <1>2, <2>1 DEF WordsInv, Places
<1>4. HasValues' = HasValues /\ requiredFlags' = requiredFlags
  BY <1>2 DEF HasValues, requiredFlags, optionalFlags
<1>5. Names(i)' = {}
  BY <1>2 DEF Names
<1>6. FoundInv'
  <2>1. IsFiniteSet({}) /\ Cardinality({}) = 0
    BY FS_EmptySet
  <2>2. Range(foundFlags)' = {} /\ Len(foundFlags') = 0
    BY <1>2 DEF Range
  <2>3. Names(i)' \cap requiredFlags' = {}
    BY <1>5
  <2>4. /\ foundFlags' \in Seq(FlagsOf(Table[program]))'
        /\ requiredFlagsFound' = 0 /\ \A k \in 1 .. i' : FALSE
    BY <1>2
  <2> QED BY <1>5, <2>1, <2>2, <2>3, <2>4 DEF FoundInv
<1>7. Switches' /\ LastInv'
  BY <1>2 DEF Switches, LastInv, NoneYet
<1>8. SpellingInv'
  BY <1>2 DEF SpellingInv
<1>9. ValuesInv'
  BY <1>2, <1>4 DEF ValuesInv
<1> QED BY <1>2, <1>3, <1>6, <1>7, <1>8, <1>9 DEF WordsInv

LEMMA StepWords == WordsInv /\ [Next]_vars => WordsInv'
<1> SUFFICES ASSUME WordsInv, [Next]_vars PROVE WordsInv'
  OBVIOUS
<1>1. CASE UNCHANGED vars
  <2>1. /\ UNCHANGED <<flag, expectingFlag, valuesFound, flagWasFound, requiredFlagsFound,
                       overridingFlagFound, foundFlags, flagValues>>
        /\ UNCHANGED <<program, input, i, verdict>>
    BY <1>1 DEF vars, locals, fields
  <2>2. /\ Places' /\ Switches' /\ Names(i)' = Names(i)
        /\ Overridden(input)' = Overridden(input) /\ Good(input)' = Good(input)
    BY <2>1 DEF WordsInv, Places, Switches, Names, Overridden, Good, WellSpelled, Complete,
       checkDependencies, checkIncompatibilities, checkLooseDependencies, flagExist,
       HasValues, requiredFlags, optionalFlags, overridingFlags, flagsDependencies,
       incompatibleFlags, flagsLooseDependencies
  <2>3. FoundInv' /\ SpellingInv' /\ ValuesInv'
    BY <2>1, <2>2 DEF WordsInv, FoundInv, SpellingInv, ValuesInv, Follow, flagExist, HasValues,
       requiredFlags, optionalFlags
  <2>4. LastInv' = LastInv
    BY <2>1 DEF LastInv, NoneYet, LastIs, noValuesFlags, overridingFlags
  <2>5. Passed' = Passed
    BY <2>1, <2>4 DEF Passed, checkDependencies, checkIncompatibilities, HasValues,
       checkLooseDependencies, requiredFlags, optionalFlags, flagsDependencies,
       incompatibleFlags, flagsLooseDependencies
  <2> QED BY <2>1, <2>2, <2>3, <2>4, <2>5 DEF WordsInv
<1> QED
  BY <1>1, RejectOverriding, RejectUnknown, RejectLacking, RejectDuplicate, RejectValue,
     TakeFlag, TakeValue, FinishWords, ValidateWords DEF Next

LEMMA WordsStay == Spec => []WordsInv
BY InitWords, StepWords, PTL DEF Spec
-----------------------------------------------------------------------------
(* The state of a Flags object has its types.                              *)
THEOREM TypeCorrect == Spec => []TypeOK
<1>1. WordsInv => TypeOK
  <2> SUFFICES ASSUME WordsInv PROVE TypeOK
    OBVIOUS
  <2>1. program \in Programs /\ i \in 0 .. Len(input)
        /\ verdict \in {"reading", "accepted", "rejected"}
    BY DEF WordsInv, Places
  <2>2. {expectingFlag, valuesFound, flagWasFound, overridingFlagFound} \subseteq BOOLEAN
    BY DEF WordsInv, Switches
  <2>3. \A f \in Range(foundFlags) : flagExist(f)
    <3>1. \A k \in 1 .. i : input[k].isFlag => flagExist(input[k].text)
      BY DEF WordsInv, SpellingInv
    <3> QED BY <3>1 DEF WordsInv, FoundInv, Names
  <2>4. requiredFlagsFound \in 0 .. Cardinality(requiredFlags)
    <3>1. IsFiniteSet(requiredFlags)
      BY OneKind, <2>1
    <3>2. /\ Cardinality(Names(i) \cap requiredFlags) <= Cardinality(requiredFlags)
          /\ IsFiniteSet(Names(i) \cap requiredFlags)
      BY <3>1, FS_Subset
    <3>3. Cardinality(Names(i) \cap requiredFlags) \in Nat /\ Cardinality(requiredFlags) \in Nat
      BY <3>1, <3>2, FS_CardinalityType
    <3>4. requiredFlagsFound = Cardinality(Names(i) \cap requiredFlags)
      BY DEF WordsInv, FoundInv
    <3> QED BY <3>2, <3>3, <3>4
  <2> QED BY <2>1, <2>2, <2>3, <2>4 DEF TypeOK
<1> QED BY <1>1, WordsStay, PTL

(* Without an overriding flag an input is accepted if and only if it is    *)
(* what the comments of Flags.hpp call good: whatever the flags and rules  *)
(* of the table, the words and their order, and the inputs before.         *)
THEOREM VerdictsAreRight == Spec => []VerdictIsRight
<1>1. WordsInv => VerdictIsRight
  <2> SUFFICES ASSUME WordsInv, verdict = "accepted", ~ Overridden(input) PROVE Good(input)
    BY DEF VerdictIsRight, WordsInv, Places
  <2>1. Passed /\ LastInv /\ i = Len(input) /\ i \in Nat /\ DOMAIN input = 1 .. i
    BY DEF WordsInv, Passed, Places
  <2>2. Names(i) = NamesOf(input) /\ Range(foundFlags) = NamesOf(input)
    BY <2>1, FoundAreNames DEF WordsInv, FoundInv
  <2>3. ~ overridingFlagFound
    BY <2>1, OverriddenFlag
  <2>4. WellSpelled(input)
    <3>1. input # <<>> => FlagAt(input, 1)
      BY <2>1 DEF WordsInv, SpellingInv, FlagAt
    <3>2. ASSUME NEW k \in DOMAIN input, FlagAt(input, k)
          PROVE  ValueFollows(input, k) <=> input[k].text \in HasValues
      <4>1. k \in 1 .. i /\ input[k].isFlag
        BY <2>1, <3>2 DEF FlagAt
      <4>2. CASE k < i
        BY <2>1, <4>1, <4>2 DEF WordsInv, SpellingInv, ValueFollows, FlagAt
      <4>3. CASE k = i
        <5>1. ~ ValueFollows(input, k)
          BY <2>1, <4>3 DEF ValueFollows
        <5>2. PICK p \in 1 .. i : LastIs(p)
          BY <2>1, <4>1 DEF LastInv, NoneYet
        <5>3. p = k
          BY <2>1, <4>1, <4>3, <5>2 DEF LastIs
        <5>4. flagWasFound /\ ~ valuesFound /\ flag = input[k].text
          BY <2>1, <4>3, <5>2, <5>3 DEF LastIs
        <5> QED BY <2>1, <5>1, <5>4 DEF Passed
      <4> QED BY <2>1, <4>1, <4>2, <4>3
    <3>3. \A k \in DOMAIN input : FlagAt(input, k) =>
             /\ flagExist(input[k].text)
             /\ \A n \in DOMAIN input :
                   FlagAt(input, n) /\ n # k => input[n].text # input[k].text
      BY <2>1 DEF WordsInv, SpellingInv, FoundInv, FlagAt
    <3> QED BY <3>1, <3>2, <3>3 DEF WellSpelled
  <2>5. Cardinality(NamesOf(input)) >= Table[program].minCount
    BY <2>1, <2>2, <2>3 DEF Passed, WordsInv, FoundInv
  <2>6. requiredFlags \subseteq NamesOf(input)
    <3> DEFINE both == NamesOf(input) \cap requiredFlags
    <3>1. IsFiniteSet(requiredFlags) /\ both \subseteq requiredFlags
      BY OneKind DEF WordsInv, Places
    <3>2. Cardinality(both) >= Cardinality(requiredFlags)
      BY <2>1, <2>2, <2>3 DEF Passed, WordsInv, FoundInv
    <3>3. Cardinality(both) <= Cardinality(requiredFlags)
          /\ (Cardinality(both) = Cardinality(requiredFlags) => both = requiredFlags)
      BY <3>1, FS_Subset
    <3>4. Cardinality(both) \in Nat /\ Cardinality(requiredFlags) \in Nat
      BY <3>1, FS_Subset, FS_CardinalityType
    <3> QED BY <3>2, <3>3, <3>4
  <2> QED BY <2>1, <2>2, <2>4, <2>5, <2>6 DEF Good, Complete, Passed
<1> QED BY <1>1, WordsStay, PTL

(* What an accepted input leaves in the fields.                            *)
LEMMA AcceptedFields ==
    ASSUME WordsInv, verdict = "accepted"
    PROVE  /\ i = Len(input) /\ i \in Nat /\ DOMAIN input = 1 .. i
           /\ Range(foundFlags) = NamesOf(input)
           /\ flagValues \in [HasValues -> Seq(STRING)]
           /\ \A f \in HasValues \ Range(foundFlags) : flagValues[f] = <<>>
           /\ checkDependencies(Range(foundFlags))
           /\ checkIncompatibilities(Range(foundFlags))
           /\ checkLooseDependencies(Range(foundFlags))
<1>1. Passed /\ i = Len(input) /\ i \in Nat /\ DOMAIN input = 1 .. i
  BY DEF WordsInv, Passed, Places
<1>2. Names(i) = NamesOf(input) /\ Range(foundFlags) = Names(i)
  BY <1>1, FoundAreNames DEF WordsInv, FoundInv
<1> QED BY <1>1, <1>2 DEF Passed, WordsInv, ValuesInv

(* A flag of an accepted input has the values that follow it in the input, *)
(* in their order, and a flag that was not given has none: nothing of an   *)
(* earlier input is left (Flags::clean).                                   *)
THEOREM ValuesAreOwn == Spec => []ValuesAreItsOwn
<1>1. WordsInv => ValuesAreItsOwn
  <2> DEFINE At(f) == CHOOSE n \in DOMAIN input : FlagAt(input, n) /\ input[n].text = f
             Ends(k, n) == /\ \A m \in k + 1 .. n : ~ FlagAt(input, m)
                           /\ ~ ValueFollows(input, n)
             Last(k) == CHOOSE n \in k .. Len(input) : Ends(k, n)
  <2> SUFFICES ASSUME WordsInv, verdict = "accepted", NEW f \in HasValues
               PROVE  flagValues[f] =
                        IF f \notin NamesOf(input) THEN <<>>
                        ELSE [m \in 1 .. Last(At(f)) - At(f) |-> input[At(f) + m].text]
    BY DEF ValuesAreItsOwn
  <2>1. CASE f \notin NamesOf(input)
    BY <2>1, AcceptedFields
  <2>2. CASE f \in NamesOf(input)
    <3> DEFINE k == At(f)
               v == flagValues[f]
    <3>1. /\ i = Len(input) /\ i \in Nat /\ DOMAIN input = 1 .. i
          /\ v \in Seq(STRING) /\ Len(v) \in Nat
      BY AcceptedFields
    <3>2. \E n \in DOMAIN input : FlagAt(input, n) /\ input[n].text = f
      BY <2>2 DEF NamesOf
    <3>3. k \in 1 .. i /\ input[k].isFlag /\ input[k].text = f
      BY <3>1, <3>2 DEF FlagAt
    <3>4. Follow(v, k)
      <4> HIDE DEF k
      <4> QED BY <3>3 DEF WordsInv, ValuesInv
    <3> HIDE DEF k, v
    <3>5. /\ k + Len(v) \in k .. Len(input)
          /\ \A m \in 1 .. Len(v) : ~ input[k + m].isFlag /\ v[m] = input[k + m].text
          /\ k + Len(v) < i => input[k + Len(v) + 1].isFlag
      BY <3>1, <3>3, <3>4 DEF Follow
    <3>6. Ends(k, k + Len(v))
      <4>1. ASSUME NEW m \in k + 1 .. k + Len(v) PROVE ~ FlagAt(input, m)
        <5>1. m - k \in 1 .. Len(v) /\ k + (m - k) = m
          BY <3>1, <3>3
        <5> QED BY <3>5, <5>1 DEF FlagAt
      <4>2. ~ ValueFollows(input, k + Len(v))
        BY <3>1, <3>3, <3>5 DEF ValueFollows, FlagAt
      <4> QED BY <4>1, <4>2
    <3>7. ASSUME NEW n \in k .. Len(input), Ends(k, n) PROVE n = k + Len(v)
      <4>1. ~ (n < k + Len(v))
        <5> SUFFICES ASSUME n < k + Len(v) PROVE FALSE
          OBVIOUS
        <5>1. n + 1 - k \in 1 .. Len(v) /\ k + (n + 1 - k) = n + 1 /\ n < Len(input)
          BY <3>1, <3>3, <3>5
        <5>2. ~ input[n + 1].isFlag
          BY <3>5, <5>1
        <5> QED BY <3>7, <5>1, <5>2 DEF ValueFollows, FlagAt
      <4>2. ~ (n > k + Len(v))
        <5> SUFFICES ASSUME n > k + Len(v) PROVE FALSE
          OBVIOUS
        <5>1. k + Len(v) + 1 \in k + 1 .. n /\ k + Len(v) < i
          BY <3>1, <3>3
        <5> QED BY <3>5, <3>7, <5>1 DEF FlagAt
      <4> QED BY <3>1, <3>3, <4>1, <4>2
    <3> HIDE DEF Ends
    <3>8. Last(k) = k + Len(v)
      BY <3>5, <3>6, <3>7
    <3>9. v = [m \in 1 .. Len(v) |-> input[k + m].text]
      BY <3>1, <3>5
    <3>10. Last(k) - k = Len(v)
      <4> HIDE DEF Last
      <4> QED BY <3>1, <3>3, <3>8
    <3> QED BY <2>2, <3>9, <3>10 DEF k, v
  <2> QED BY <2>1, <2>2
<1> QED BY <1>1, WordsStay, PTL
-----------------------------------------------------------------------------
(* The tables of the programs *)

(* A request of the PatternMatcher daemon that has an id and no input      *)
(* error can be run, whatever was given, in whatever order: it has one     *)
(* action, and what run() reads for it is there.                           *)
THEOREM RequestsRun ==
    ASSUME Table["PatternMatcher"] = PMTable
    PROVE  Spec => []RequestIsRunnable
<1>1. WordsInv => RequestIsRunnable
  <2> SUFFICES ASSUME WordsInv, Validated, HasReqID
               PROVE  /\ Cardinality(FoundActions) = 1
                      /\ Action \in Actions => flagValues["indexes"] # <<>>
                      /\ Action = "matching" => Len(flagValues["scenario"]) = 1
                      /\ Action = "status_indexes" => flagValues["indexes"] = <<>>
    BY DEF RequestIsRunnable
  <2> DEFINE found == Range(foundFlags)
  <2>1. program = "PatternMatcher" /\ verdict = "accepted" /\ ~ InputError /\ "reqID" \in found
    BY DEF Validated, InputError, HasReqID, flagFound, WordsInv, Places
  <2>2. /\ checkDependencies(found) /\ checkIncompatibilities(found)
        /\ checkLooseDependencies(found)
        /\ \A f \in HasValues \ found : flagValues[f] = <<>>
    BY <2>1, AcceptedFields
  <2>3. /\ flagsDependencies = PMDependencies /\ incompatibleFlags = PMIncompatible
        /\ flagsLooseDependencies = PMLoose /\ "indexes" \in HasValues
    BY <2>1 DEF flagsDependencies, incompatibleFlags, flagsLooseDependencies, HasValues,
       requiredFlags, optionalFlags, PMTable, PMOptional
  <2> HIDE DEF found
  <2>4. \A a \in Actions : a \in found => "indexes" \in found
    <3>1. \A a \in Actions : <<a, "indexes">> \in PMDependencies
      BY DEF PMDependencies
    <3> QED BY <2>2, <2>3, <3>1 DEF checkDependencies
  <2>5. /\ \E a \in Actions \cup {"status_indexes"} : a \in found
        /\ "matching" \in found => "scenario" \in found
    <3>1. /\ DOMAIN PMLoose = {"indexes", "matching", "reqID"}
          /\ PMLoose["matching"] = {"scenario"}
          /\ PMLoose["reqID"] = Actions \cup {"status_indexes"}
      BY DEF PMLoose
    <3> QED BY <2>1, <2>2, <2>3, <3>1 DEF checkLooseDependencies
  <2>6. /\ "add_indexes" \in found =>
              found \cap {"remove_indexes", "update_indexes", "status_indexes", "matching"} = {}
        /\ "remove_indexes" \in found => found \cap {"update_indexes", "matching"} = {}
        /\ "update_indexes" \in found => "matching" \notin found
        /\ "status_indexes" \in found => found \cap {"indexes", "matching"} = {}
    <3>1. \A f, g : <<f, g>> \in PMIncompatible => ~ (f \in found /\ g \in found)
      BY <2>2, <2>3 DEF checkIncompatibilities
    <3> QED BY <3>1 DEF PMIncompatible
  <2>7. PICK a \in Actions \cup {"status_indexes"} : a \in found
    BY <2>5
  <2>8. \A b \in Actions \cup {"status_indexes"} : b \in found => b = a
    BY <2>4, <2>6, <2>7 DEF Actions
  <2>9. PICK k \in 1 .. 5 : ActionOrder[k] = a
    BY <2>7 DEF ActionOrder, Actions
  <2>10. FoundActions = {k}
    <3>1. DOMAIN ActionOrder = 1 .. 5
      BY DEF ActionOrder
    <3>2. \A n, m \in 1 .. 5 : ActionOrder[n] = ActionOrder[m] => n = m
      BY DEF ActionOrder
    <3>3. \A n \in 1 .. 5 : ActionOrder[n] \in Actions \cup {"status_indexes"}
      BY DEF ActionOrder, Actions
    <3> QED BY <2>7, <2>8, <2>9, <3>1, <3>2, <3>3 DEF FoundActions, flagFound, found
  <2>11. Action = a
    BY <2>9, <2>10 DEF Action
  <2>12. Cardinality(FoundActions) = 1
    BY <2>10, FS_Singleton
  <2>13. a \in Actions => flagValues["indexes"] # <<>>
    BY <2>1, <2>4, <2>7 DEF InputError, flagFound, found
  <2>14. a = "matching" => Len(flagValues["scenario"]) = 1
    BY <2>1, <2>5, <2>7 DEF InputError, flagFound, found, OneValue
  <2>15. a = "status_indexes" => flagValues["indexes"] = <<>>
    BY <2>2, <2>3, <2>6, <2>7
  <2> QED BY <2>11, <2>12, <2>13, <2>14, <2>15
<1> QED BY <1>1, WordsStay, PTL

(* A daemon that starts reads and answers the same way, and has a whole    *)
(* database connection or none, whatever its command line.                 *)
THEOREM DaemonsAgree ==
    ASSUME Table["Daemon"] = DaemonTable
    PROVE  Spec => []ModesAgree
<1>1. WordsInv => ModesAgree
  <2> SUFFICES ASSUME WordsInv, Runs
               PROVE  iMode = oMode /\ \A f, g \in Connection : given(f) => given(g)
    BY DEF ModesAgree
  <2>1. /\ program = "Daemon" /\ checkDependencies(Range(foundFlags))
        /\ flagsDependencies = DaemonDependencies
    BY AcceptedFields DEF Runs, flagsDependencies, DaemonTable
  <2>2. \A f, g : <<f, g>> \in DaemonDependencies => (given(f) => given(g))
    BY <2>1 DEF checkDependencies, given
  <2>3. <<"iHTTP", "oHTTP">> \in DaemonDependencies /\ <<"oHTTP", "iHTTP">> \in DaemonDependencies
    BY DEF DaemonDependencies
  <2>4. \A f, g \in Connection : f # g => <<f, g>> \in DaemonDependencies
    BY DEF DaemonDependencies
  <2> QED BY <2>2, <2>3, <2>4 DEF iMode, oMode
<1> QED BY <1>1, WordsStay, PTL
=============================================================================
