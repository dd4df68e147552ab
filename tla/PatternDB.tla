------------------------------ MODULE PatternDB ------------------------------
(***************************************************************************)
(* The pattern database and the programs run by hand on it: PatternDB-     *)
(* Connector over DBDriver, PatternTrainer, and PatternExtractor for what  *)
(* it does to the files of the patterns.                                   *)
(*                                                                         *)
(* The tables are those of sql/script.sql.  Statements run one by one, no  *)
(* transaction holds two of them, and any of them may fail.  The steps of a*)
(* run are the saves of one object each: between two of them another       *)
(* program may run.  Within a save the model keeps every combination of    *)
(* what was done when a statement failed.                                  *)
(*                                                                         *)
(* A file of a pattern is its place in the sorted directory and how often  *)
(* it was compressed; a stored trainer is the patterns it was trained on.  *)
(* A large object no row refers to is left out, nothing reads it.          *)
(***************************************************************************)
EXTENDS Integers, Sequences, FiniteSets

CONSTANTS
    Programs,    \* the runs that may overlap
    Commands,    \* the command lines
    Files,       \* the .xml files of the directory, numbered in their order
    Names,       \* <filename> of the files of a trainer
    MaxRuns      \* bound: the programs started

NoUser == 0                    \* "can couse problems", DBPattern.cpp
NoTrainer == 0
ByIds == -1                    \* made of -patternsId, not of a user's patterns
NoFile == [by |-> ByIds, ids |-> [i \in {} |-> 0]]

(* What a command line asks for.  named is whether -user is given, link is *)
(* -savePatterns, ids the values of -patternsId, -index or -sceneID, from 0*)
(* in their order.                                                         *)
Kinds == {"user", "patterns", "scenes", "histograms", "landscapes", "index",
          "extract", "train", "trainIds", "loadPatterns", "loadHistograms",
          "loadLandscapes", "loadIndex", "loadScene"}

ASSUME DBAssumption ==
    /\ Files = 1 .. Cardinality(Files) /\ IsFiniteSet(Files)
    /\ MaxRuns \in Nat
    /\ \A c \in Commands :
          /\ c.kind \in Kinds /\ c.user \in Nat
          /\ c.named \in BOOLEAN /\ c.link \in BOOLEAN
          /\ c.name \in Names
          /\ IsFiniteSet(DOMAIN c.ids)
          /\ c.ids \in [0 .. Cardinality(DOMAIN c.ids) - 1 -> Nat \ {0}]

VARIABLES
    users, patterns, descriptors, trainers, scenarios,  \* the tables
    level,       \* how often each file has been compressed
    matcher,     \* per name: the patterns its two files were trained on
    at, command, \* per program: where it is, its command line
    list, done,  \* the objects its loop goes over, how many are behind it
    trainer,     \* the trainer it stored
    told,        \* what it told the user
    runs         \* how many were started

tables == <<users, patterns, descriptors, trainers, scenarios>>
disk == <<level, matcher>>
dbVars == <<tables, disk, at, command, list, done, trainer, told, runs>>

Ids == 1 .. Len(patterns)

(* The members of S in ascending order, from 0.                            *)
Rank(S, x) == Cardinality({y \in S : y < x})
Ranked(S) ==
    [i \in 0 .. Cardinality(S) - 1 |-> CHOOSE x \in S : Rank(S, x) = i]
Length(f) == Cardinality(DOMAIN f)

Nothing == Ranked({})

DBInit ==
    /\ users = {} /\ patterns = <<>> /\ descriptors = {}
    /\ trainers = <<>> /\ scenarios = <<>>
    /\ level = [f \in Files |-> 0]
    /\ matcher = [n \in Names |-> NoFile]
    /\ at = [p \in Programs |-> "idle"]
    /\ command \in [Programs -> Commands]
    /\ list = [p \in Programs |-> Nothing]
    /\ done = [p \in Programs |-> 0]
    /\ trainer = [p \in Programs |-> NoTrainer]
    /\ told = [p \in Programs |-> "nothing"]
    /\ runs = 0
-----------------------------------------------------------------------------
(* What the statements do to the tables, and the files to the disk *)

(* The titles the script inserts, and the one saveHORL and getUserHORLS    *)
(* look up.                                                                *)
Categories == {"matching", "comparison", "landscape"}

HORLCategory(kind) ==
    IF kind \in {"histograms", "loadHistograms"} THEN "comparison"
                                                 ELSE "landscapes"

(* getCategoryID finds it, when the query does not fail.                   *)
HasCategory(title) == title \in Categories

(* savePatternBasicInfo: the columns it leaves out are null.               *)
Row(u, category) ==
    [user |-> u, category |-> category, trainer |-> NoTrainer, position |-> 0]

(* The rows of a user that getUserPatterns selects.                        *)
Matching(rows, u) ==
    {id \in 1 .. Len(rows) : rows[id].user = u /\ rows[id].category = "matching"}

(* Mutant: the rows come in descending order.                              *)
UnorderedPatterns(u) ==
    LET S == Matching(patterns, u)
    IN  [i \in 0 .. Cardinality(S) - 1 |->
            CHOOSE x \in S : Rank(S, x) = Cardinality(S) - 1 - i]

(* SELECT ... ORDER BY id ASC *)
UserPatterns(u) == Ranked(Matching(patterns, u))

(* retrieveNthPattern: the rows its query selects.                         *)
NthPattern(t, i) ==
    {id \in Ids : /\ patterns[id].trainer = t /\ patterns[id].position = i
                  /\ patterns[id].category = "matching"}

(* One decompression gives back a text only when there was one compression.*)
Readable(id) == \E d \in descriptors : d.pattern = id /\ d.level = 1

compress_file(f) == level' = [level EXCEPT ![f] = @ + 1]

(* Where a run goes on, and how it ends.                                   *)
Goto(p, where) == at' = [at EXCEPT ![p] = where]
End(p, report) ==
    /\ Goto(p, "idle")
    /\ told' = [told EXCEPT ![p] = report]

Doing(p, where) == at[p] = where
Kind(p) == command[p].kind
User(p) == command[p].user

-----------------------------------------------------------------------------
(* The first step of a run: the files of the directory, in their order.    *)
Start(p, c) ==
    /\ at[p] = "idle" /\ runs < MaxRuns
    /\ runs' = runs + 1
    /\ command' = [command EXCEPT ![p] = c]
    /\ told' = [told EXCEPT ![p] = "nothing"]
    /\ list' = [list EXCEPT ![p] = Ranked(Files)]
    /\ done' = [done EXCEPT ![p] = 0]
    /\ Goto(p, CASE c.kind = "patterns" /\ ~ c.named -> "objects"
                 [] c.kind = "scenes"                -> "objects"
                 [] c.kind \in {"patterns", "index"} -> "needUser"
                 [] OTHER                            -> c.kind)
    /\ UNCHANGED <<tables, disk, trainer>>

(* saveUser.  An id that is there already violates the key.                *)
SaveUser(p) ==
    /\ Doing(p, "user")
    /\ \/ /\ User(p) \notin users
          /\ users' = users \cup {User(p)}
          /\ End(p, "saved")
       \/ UNCHANGED users /\ End(p, "failed")
    /\ UNCHANGED <<patterns, descriptors, trainers, scenarios, disk, command,
                   list, done, trainer, runs>>

(* retrieveUser, then saveUser when nobody was found.                      *)
NeedUser(p) ==
    /\ Doing(p, "needUser")
    /\ \/ /\ users' = users \cup {User(p)}
          /\ Goto(p, IF Kind(p) = "index" THEN "store" ELSE "objects")
          /\ UNCHANGED told
       \/ UNCHANGED users /\ End(p, "failed")
    /\ UNCHANGED <<patterns, descriptors, trainers, scenarios, disk, command,
                   list, done, trainer, runs>>

Current(p) == list[p][done[p]]
More(p) == done[p] < Length(list[p])
Next1(p) == done' = [done EXCEPT ![p] = @ + 1]

(* The user of the pattern being saved; nobody sets one without -user.     *)
Owner(p) == IF command[p].named THEN User(p) ELSE NoUser

(* Mutant: the result of savePatternDescriptors is not looked at.          *)
SavePatternUnchecked(p) ==
    LET f == Current(p) IN
    /\ Doing(p, "objects") /\ Kind(p) = "patterns" /\ More(p)
    /\ Owner(p) \in users
    /\ patterns' = Append(patterns, Row(Owner(p), "matching"))
    /\ compress_file(f)
    /\ \/ descriptors' = descriptors \cup
             {[pattern |-> Len(patterns) + 1, file |-> f, level |-> level[f] + 1]}
       \/ UNCHANGED descriptors
    /\ Next1(p)
    /\ UNCHANGED <<users, trainers, scenarios, matcher, at, told, command, list,
                   trainer, runs>>

(* savePattern: the row, then the file is compressed where it is, imported,*)
(* and its descriptors refer to it.                                        *)
SavePattern(p) ==
    LET f == Current(p) IN
    /\ Doing(p, "objects") /\ Kind(p) = "patterns" /\ More(p)
    /\ Owner(p) \in users
    /\ patterns' = Append(patterns, Row(Owner(p), "matching"))
    /\ compress_file(f)
    /\ descriptors' = descriptors \cup
          {[pattern |-> Len(patterns) + 1, file |-> f, level |-> level[f] + 1]}
    /\ Next1(p)
    /\ UNCHANGED <<users, trainers, scenarios, matcher, at, told, command, list,
                   trainer, runs>>

(* After a failure saveUserPatterns returns, run itself goes on.           *)
AfterFailure(p) ==
    IF command[p].named
    THEN End(p, "failed") /\ UNCHANGED done
    ELSE told' = [told EXCEPT ![p] = "failed"] /\ Next1(p) /\ UNCHANGED at

(* savePattern fails: at the category or the row, which a user that is not *)
(* there makes certain, or behind the compression.                         *)
SavePatternFails(p) ==
    /\ Doing(p, "objects") /\ Kind(p) = "patterns" /\ More(p)
    /\ \/ UNCHANGED <<patterns, level>>
       \/ /\ Owner(p) \in users
          /\ patterns' = Append(patterns, Row(Owner(p), "matching"))
          /\ compress_file(Current(p))
    /\ AfterFailure(p)
    /\ UNCHANGED <<users, descriptors, trainers, scenarios, matcher, command,
                   list, trainer, runs>>

(* storeScene: compressed first.  run gives up at the first failure.       *)
StoreScene(p) ==
    LET f == Current(p) IN
    /\ Doing(p, "objects") /\ Kind(p) = "scenes" /\ More(p)
    /\ compress_file(f)
    /\ \/ /\ scenarios' = Append(scenarios, [file |-> f, level |-> level[f] + 1])
          /\ Next1(p)
          /\ UNCHANGED <<at, told>>
       \/ UNCHANGED <<scenarios, done>> /\ End(p, "failed")
    /\ UNCHANGED <<users, patterns, descriptors, trainers, matcher, command,
                   list, trainer, runs>>

(* The loop over the objects or the links is through.                      *)
EndLoop(p) ==
    /\ at[p] \in {"objects", "histograms", "landscapes", "link"} /\ ~ More(p)
    /\ End(p, IF told[p] = "failed" THEN "failed" ELSE "saved")
    /\ UNCHANGED <<tables, disk, command, list, done, trainer, runs>>

(* saveHORL.  A landscape fails at its category.  A histogram has its row  *)
(* when the file that gets ".xml" a second time is not found and the throw *)
(* ends the program.                                                       *)
SaveHORL(p) ==
    LET category == HORLCategory(Kind(p)) IN
    /\ at[p] \in {"histograms", "landscapes"} /\ More(p)
    /\ \/ /\ users' \in {users, users \cup {Owner(p)}}
          /\ UNCHANGED patterns
          /\ AfterFailure(p)
       \/ /\ HasCategory(category)
          /\ users' = users \cup {Owner(p)}
          /\ patterns' = Append(patterns, Row(Owner(p), category))
          /\ End(p, "aborted") /\ UNCHANGED done
    /\ UNCHANGED <<descriptors, trainers, scenarios, disk, command, list,
                   trainer, runs>>

-----------------------------------------------------------------------------
(* Mutant: run goes on when storeSFBM fails.                               *)
StoreIgnored(p) ==
    LET m == matcher[command[p].name] IN
    /\ Doing(p, "store")
    /\ \/ /\ m # NoFile
          /\ trainers' = Append(trainers,
                [user |-> User(p), by |-> m.by, ids |-> m.ids])
          /\ trainer' = [trainer EXCEPT ![p] = Len(trainers) + 1]
       \/ UNCHANGED <<trainers, trainer>>
    /\ IF command[p].link THEN Goto(p, "lookup") /\ UNCHANGED told
                          ELSE End(p, "saved")
    /\ UNCHANGED <<users, patterns, descriptors, scenarios, disk, command, list,
                   done, runs>>

(* storeSFBM: both files are imported, the row refers to them.             *)
StoreSFBM(p) ==
    LET m == matcher[command[p].name] IN
    /\ Doing(p, "store")
    /\ \/ /\ m # NoFile
          /\ trainers' = Append(trainers,
                [user |-> User(p), by |-> m.by, ids |-> m.ids])
          /\ trainer' = [trainer EXCEPT ![p] = Len(trainers) + 1]
          /\ IF command[p].link THEN Goto(p, "lookup") /\ UNCHANGED told
                                ELSE End(p, "saved")
       \/ UNCHANGED <<trainers, trainer>> /\ End(p, "failed")
    /\ UNCHANGED <<users, patterns, descriptors, scenarios, disk, command, list,
                   done, runs>>

(* getUserPatterns for -savePatterns.  error = false at its end hides that *)
(* the query failed; a category that is not found leaves res uninitialized *)
(* for PQclear, which may end the program.                                 *)
LookupPatterns(p) ==
    /\ Doing(p, "lookup")
    /\ done' = [done EXCEPT ![p] = 0]
    /\ \/ /\ \E found \in {UserPatterns(User(p)), Nothing} :
                list' = [list EXCEPT ![p] = found]
          /\ Goto(p, "link") /\ UNCHANGED told
       \/ UNCHANGED list /\ End(p, "aborted")
    /\ UNCHANGED <<tables, disk, command, trainer, runs>>

(* Mutant: the update without its WHERE.                                   *)
LinkEvery(p) ==
    /\ Doing(p, "link") /\ More(p)
    /\ \/ /\ patterns' = [id \in Ids |-> [patterns[id] EXCEPT
                              !.trainer = trainer[p], !.position = done[p]]]
          /\ UNCHANGED told
       \/ UNCHANGED patterns /\ told' = [told EXCEPT ![p] = "failed"]
    /\ Next1(p)
    /\ UNCHANGED <<users, descriptors, trainers, scenarios, disk, at, command,
                   list, trainer, runs>>

(* storeNthPattern.  A failed update is reported and the next one is made. *)
LinkPattern(p) ==
    /\ Doing(p, "link") /\ More(p)
    /\ \/ /\ patterns' = [patterns EXCEPT ![Current(p)].trainer = trainer[p],
                                          ![Current(p)].position = done[p]]
          /\ UNCHANGED told
       \/ UNCHANGED patterns /\ told' = [told EXCEPT ![p] = "failed"]
    /\ Next1(p)
    /\ UNCHANGED <<users, descriptors, trainers, scenarios, disk, at, command,
                   list, trainer, runs>>

-----------------------------------------------------------------------------
(* The patterns -user or -patternsId ask for.                              *)
Asked(c) == IF c.kind = "train" THEN UserPatterns(c.user) ELSE c.ids

(* PatternTrainer: every pattern asked for must be there and readable, one *)
(* at least; then both files are written, compressed.                      *)
Train(p) ==
    LET c   == command[p]
        ids == Asked(c)
        by  == IF c.kind = "train" THEN c.user ELSE ByIds
    IN
    /\ at[p] \in {"train", "trainIds"}
    /\ \/ /\ ids # Nothing
          /\ \A i \in DOMAIN ids : ids[i] \in Ids /\ Readable(ids[i])
          /\ matcher' = [matcher EXCEPT ![c.name] = [by |-> by, ids |-> ids]]
          /\ End(p, "saved")
       \/ UNCHANGED matcher /\ \E report \in {"failed", "aborted"} : End(p, report)
    /\ UNCHANGED <<tables, level, command, list, done, trainer, runs>>

(* PatternExtractor writes the files anew.                                 *)
Extract(p) ==
    /\ Doing(p, "extract")
    /\ level' = [f \in Files |-> 0]
    /\ End(p, "saved")
    /\ UNCHANGED <<tables, matcher, command, list, done, trainer, runs>>

(* A stored trainer, and a stored scene of which one decompression gives   *)
(* back the text.                                                          *)
CanLoadIndex(t) == t <= Len(trainers)
CanLoadScene(s) == s <= Len(scenarios) /\ scenarios[s].level = 1

UserHORLs(u, category) ==
    {id \in Ids : patterns[id].user = u /\ patterns[id].category = category}

(* retrieveHORL always fails: a histogram's pattern has no descriptors.    *)
CanLoadHORLs(p) ==
    LET category == HORLCategory(Kind(p))
    IN  HasCategory(category) /\ UserHORLs(User(p), category) = {}

(* What a load asks for can be given.  getUserPatterns hides a failure, so *)
(* a user always "has" patterns.                                           *)
CanLoad(p) ==
    LET ids == command[p].ids IN
    CASE Kind(p) = "loadPatterns" -> TRUE
      [] Kind(p) \in {"loadHistograms", "loadLandscapes"} -> CanLoadHORLs(p)
      [] Kind(p) = "loadIndex" -> \A i \in DOMAIN ids : CanLoadIndex(ids[i])
      [] Kind(p) = "loadScene" -> \A i \in DOMAIN ids : CanLoadScene(ids[i])

(* run with -load: only what it tells changes.  A category that is not     *)
(* found and data that is not XML may end the program.                     *)
Load(p) ==
    /\ at[p] \in {"loadPatterns", "loadHistograms", "loadLandscapes",
                  "loadIndex", "loadScene"}
    /\ \/ CanLoad(p) /\ End(p, "saved")
       \/ \E report \in {"failed", "aborted"} : End(p, report)
    /\ UNCHANGED <<tables, disk, command, list, done, trainer, runs>>

-----------------------------------------------------------------------------
Step(p) ==
    \/ SaveUser(p) \/ NeedUser(p)
    \/ SavePattern(p) \/ SavePatternFails(p) \/ StoreScene(p) \/ SaveHORL(p)
    \/ EndLoop(p)
    \/ StoreSFBM(p) \/ LookupPatterns(p) \/ LinkPattern(p)
    \/ Train(p) \/ Extract(p) \/ Load(p)

DBNext == \E p \in Programs : Step(p) \/ \E c \in Commands : Start(p, c)

DBSpec == DBInit /\ [][DBNext]_dbVars
-----------------------------------------------------------------------------
(* Properties *)

(* Tables and files hold what the statements put there: every reference of *)
(* a row is to a row.                                                      *)
TypeOK ==
    /\ users \subseteq Nat
    /\ patterns \in Seq([user : users, category : {"matching", "comparison"},
                         trainer : 0 .. Len(trainers), position : Nat])
    /\ descriptors \subseteq [pattern : Ids, file : Files, level : Nat \ {0}]
    /\ \A t \in 1 .. Len(trainers) : trainers[t].user \in users
    /\ level \in [Files -> Nat]
    /\ \A p \in Programs : at[p] = "link" =>
          /\ trainer[p] \in 1 .. Len(trainers)
          /\ \A i \in DOMAIN list[p] : list[p][i] \in Ids

(* retrieveNthPattern takes the first row its query gives; which one that  *)
(* is never matters.  It would if two patterns came to one position.       *)
PositionsUnique ==
    \A t \in 1 .. Len(trainers) :
        \A x, y \in {id \in Ids : patterns[id].trainer = t} :
            patterns[x].position = patterns[y].position => x = y

(* A trainer's index counts its patterns as they were trained: what is at  *)
(* a position is what was trained there, even when patterns were saved in  *)
(* between or when saves or links failed.  For a trainer of all patterns   *)
(* of the user it is stored for: the README's way.                         *)
PositionsMatchTraining ==
    \A t \in 1 .. Len(trainers) :
        trainers[t].by = trainers[t].user =>
            \A i \in DOMAIN trainers[t].ids :
                NthPattern(t, i) \subseteq {trainers[t].ids[i]}

(* When a run says that a user has the patterns of a directory, each file  *)
(* has a pattern of that user with its descriptors.                        *)
ToldIsSaved ==
    \A p \in Programs :
        /\ at[p] = "idle" /\ told[p] = "saved"
        /\ Kind(p) = "patterns" /\ command[p].named
        => \A f \in Files : \E d \in descriptors :
               d.file = f /\ patterns[d.pattern].user = User(p)

(* What is stored can be read again: compressed once.  The files are       *)
(* compressed where they are, so the second save of a file stores what one *)
(* decompression does not give back.                                       *)
SavedIsReadable == \A d \in descriptors : d.level = 1

(* A position, once it can be found, can be found for good.                *)
TrainersKeepPatterns ==
    [][ \A t \in 1 .. Len(trainers) :
          \A i \in DOMAIN trainers[t].ids :
              NthPattern(t, i) # {} => NthPattern(t, i)' # {} ]_dbVars

(* The same of every trainer, whatever it was trained on.                  *)
PositionsMatchAnyTraining ==
    \A t \in 1 .. Len(trainers) : \A i \in DOMAIN trainers[t].ids :
        NthPattern(t, i) \subseteq {trainers[t].ids[i]}
-----------------------------------------------------------------------------
(* The inductive invariant behind the positions *)

(* A member of a user's patterns keeps its rank among them for good, since *)
(* new rows come last.  So positions, trainers and lists are all about it. *)
IsNth(rows, u, i, id) ==
    id \in Matching(rows, u) /\ Rank(Matching(rows, u), id) = i

Made(rows, m) ==
    m.by # ByIds => \A i \in DOMAIN m.ids : IsNth(rows, m.by, i, m.ids[i])

Linked ==
    \A id \in Ids : patterns[id].trainer # NoTrainer =>
        IsNth(patterns, trainers[patterns[id].trainer].user,
              patterns[id].position, id)

Trained ==
    /\ \A n \in Names : Made(patterns, matcher[n])
    /\ \A t \in 1 .. Len(trainers) : Made(patterns, trainers[t])

Linking ==
    \A p \in Programs :
        /\ at[p] \in {"lookup", "link"} => trainer[p] \in 1 .. Len(trainers)
        /\ at[p] = "lookup" => trainers[trainer[p]].user = User(p)
        /\ at[p] = "link" =>
              \A i \in DOMAIN list[p] :
                 IsNth(patterns, trainers[trainer[p]].user, i, list[p][i])

PositionsInv == Linked /\ Trained /\ Linking
=============================================================================
