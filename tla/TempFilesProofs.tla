--------------------------- MODULE TempFilesProofs ---------------------------
(***************************************************************************)
(* Whatever the objects, their ids, and the order of loads, deletions,     *)
(* failures and restarts: a load gives what it was asked for, loses a file *)
(* only to an earlier request to delete it, and leaves nothing that nobody *)
(* deletes but what it abandons.                                           *)
(***************************************************************************)
EXTENDS TempFiles, TLAPS

Statuses == {Waiting, Ended}

LEMMA FileFacts ==
    /\ Files \cap {End, Waiting, Ended} = {}
    /\ End # Waiting /\ End # Ended /\ Waiting # Ended
BY DEF Files, End, Waiting, Ended

LEMMA ObjectFiles ==
    ASSUME NEW o \in Objects
    PROVE  /\ Xml(o) \in Files /\ If(o) \in Files /\ Xml(o) # If(o)
           /\ FilesOf(o) \subseteq Files
           /\ Xml(o) \in FilesOf(o)
           /\ FilesOf(o) \subseteq {Xml(o), If(o)}
           /\ If(o) \in FilesOf(o) <=> o \in Trainers
BY DEF Files, Xml, If, FilesOf

LEMMA DataFacts ==
    /\ None \in Data /\ Garbage \in Data
    /\ \A o \in Objects, b \in BOOLEAN :
          /\ [of |-> o, packed |-> b] \in Data
          /\ [of |-> o, packed |-> b] # None
    /\ \A c \in Data : Unpacked(c) \in Data
    /\ \A o \in Objects : Unpacked([of |-> o, packed |-> TRUE]) = [of |-> o, packed |-> FALSE]
<1>1. "none" \notin Objects
  BY TempAssumption
<1> QED BY <1>1 DEF Data, Contents, None, Garbage, Unpacked
-----------------------------------------------------------------------------
(***************************************************************************)
(* Types                                                                   *)
(***************************************************************************)
LEMMA InitType == Init => TypeOK
BY DataFacts, TempAssumption DEF Init, TypeOK, Steps, Nothing

LEMMA PopType ==
    ASSUME TypeOK, CleanerPop
    PROVE  /\ queue' \in Seq(Files \cup {End})
           /\ cleaner' \in Files \cup {Waiting, Ended}
           /\ ToDelete' \cap Files = ToDelete \cap Files
           /\ cleaner = Waiting
<1>1. /\ queue \in Seq(Files \cup {End}) /\ queue # <<>> /\ cleaner = Waiting
      /\ queue' = Tail(queue) /\ cleaner' = IF Head(queue) = End THEN Ended ELSE Head(queue)
  BY DEF TypeOK, CleanerPop
<1>2. /\ Len(queue) \in Nat /\ Len(queue) > 0 /\ Head(queue) = queue[1]
      /\ queue[1] \in Files \cup {End}
  BY <1>1
<1>3. /\ queue' \in Seq(Files \cup {End}) /\ Len(queue') = Len(queue) - 1
      /\ \A i \in 1 .. Len(queue) - 1 : queue'[i] = queue[i + 1]
  BY <1>1, <1>2
<1>4. cleaner' \in Files \cup {Waiting, Ended}
  BY <1>1, <1>2
<1>5. ASSUME NEW f \in Files PROVE f \in ToDelete' <=> f \in ToDelete
  <2>1. f \in ToDelete' <=> \/ \E i \in 1 .. Len(queue) - 1 : queue[i + 1] = f
                            \/ cleaner' = f
    BY <1>3 DEF ToDelete
  <2>2. cleaner' = f <=> queue[1] = f
    BY <1>1, <1>2, FileFacts
  <2>3. f \in ToDelete <=> \E i \in 1 .. Len(queue) : queue[i] = f
    BY <1>1, FileFacts DEF ToDelete
  <2>4. ASSUME NEW i \in 1 .. Len(queue), queue[i] = f, i # 1
        PROVE  \E j \in 1 .. Len(queue) - 1 : queue[j + 1] = f
    <3>1. i - 1 \in 1 .. Len(queue) - 1 /\ queue[(i - 1) + 1] = f
      BY <1>2, <2>4
    <3> QED BY <3>1
  <2>5. ASSUME NEW i \in 1 .. Len(queue) - 1, queue[i + 1] = f
        PROVE  \E j \in 1 .. Len(queue) : queue[j] = f
    <3>1. i + 1 \in 1 .. Len(queue)
      BY <1>2, <2>5
    <3> QED BY <3>1, <2>5
  <2> QED BY <1>2, <2>1, <2>2, <2>3, <2>4, <2>5
<1> QED BY <1>1, <1>3, <1>4, <1>5

LEMMA AppendType ==
    ASSUME TypeOK, NEW f \in Files \cup {End}, queue' = Append(queue, f), UNCHANGED cleaner
    PROVE  /\ queue' \in Seq(Files \cup {End})
           /\ ToDelete' = ToDelete \cup {f}
           /\ queue' # <<>> /\ Len(queue') = Len(queue) + 1
           /\ queue'[Len(queue')] = f
           /\ \A i \in 1 .. Len(queue) : queue'[i] = queue[i]
<1>1. queue \in Seq(Files \cup {End})
  BY DEF TypeOK
<1>2. /\ Len(queue) \in Nat /\ Len(queue') = Len(queue) + 1
      /\ queue' \in Seq(Files \cup {End})
      /\ queue'[Len(queue) + 1] = f
      /\ \A i \in 1 .. Len(queue) : queue'[i] = queue[i]
  BY <1>1
<1>3. ASSUME NEW g PROVE g \in ToDelete' <=> g \in ToDelete \cup {f}
  <2>1. g \in ToDelete' <=> (\E i \in 1 .. Len(queue) + 1 : queue'[i] = g) \/ cleaner = g
    BY <1>2 DEF ToDelete
  <2>2. g \in ToDelete <=> (\E i \in 1 .. Len(queue) : queue[i] = g) \/ cleaner = g
    BY <1>1 DEF ToDelete
  <2>3. (\E i \in 1 .. Len(queue) + 1 : queue'[i] = g)
          <=> (\E i \in 1 .. Len(queue) : queue'[i] = g) \/ queue'[Len(queue) + 1] = g
    BY <1>2
  <2> QED BY <1>2, <2>1, <2>2, <2>3
<1> QED BY <1>2, <1>3

LEMMA StepType == TypeOK /\ [Next]_tempVars => TypeOK'
<1> SUFFICES ASSUME TypeOK, [Next]_tempVars PROVE TypeOK'
  OBVIOUS
<1>a. MaxLoads \in Nat /\ MaxRestarts \in Nat
  BY TempAssumption
<1>1. CASE \E o \in Objects : Ask(o)
  BY <1>a, <1>1, DataFacts DEF TypeOK, Ask, At, Steps, progress, read
<1>2. CASE ExportIf
  BY <1>2, ObjectFiles, DataFacts DEF TypeOK, ExportIf, Export, Write, At, Steps, read
<1>3. CASE ExportXml
  BY <1>3, ObjectFiles, DataFacts DEF TypeOK, ExportXml, Export, Write, At, Steps, read
<1>4. CASE GiveUp
  BY <1>4, ObjectFiles, DataFacts DEF TypeOK, GiveUp, Abandon, Write, At, Steps, read
<1>5. CASE KeepFiles
  BY <1>5, ObjectFiles DEF TypeOK, KeepFiles, Abandon, At, Steps, read
<1>6. CASE ReadXml
  BY <1>6, ObjectFiles, DataFacts DEF TypeOK, ReadXml, At, Steps
<1>7. CASE ReadIf
  BY <1>7, ObjectFiles, DataFacts DEF TypeOK, ReadIf, At, Steps
<1>8. CASE WriteIf
  BY <1>8, ObjectFiles DEF TypeOK, WriteIf, At, Steps, read
<1>9. CASE OpenIndex
  BY <1>9, ObjectFiles DEF TypeOK, OpenIndex, At, Steps
<1>10. CASE FileMissing
  BY <1>10 DEF TypeOK, FileMissing, At, progress, read
<1>11. CASE DeleteXml
  <2>1. asked \in Objects
    BY <1>11 DEF TypeOK, DeleteXml, At
  <2>2. queue' \in Seq(Files \cup {End})
    BY <1>11, <2>1, AppendType, ObjectFiles DEF DeleteXml, deleteFile
  <2> QED BY <1>11, <2>1, <2>2 DEF TypeOK, DeleteXml, deleteFile, Finish, At, Steps, read
<1>12. CASE DeleteIf
  <2>1. asked \in Objects
    BY <1>12 DEF TypeOK, DeleteIf, At
  <2>2. queue' \in Seq(Files \cup {End})
    BY <1>12, <2>1, AppendType, ObjectFiles DEF DeleteIf, deleteFile
  <2> QED BY <1>12, <2>1, <2>2 DEF TypeOK, DeleteIf, deleteFile, Finish, At, Steps, read
<1>13. CASE Close
  <2>1. queue' \in Seq(Files \cup {End})
    BY <1>13, AppendType DEF Close
  <2> QED BY <1>13, <2>1 DEF TypeOK, Close, At, Steps, read
<1>14. CASE Join
  BY <1>14 DEF TypeOK, Join, At, Steps, read
<1>15. CASE CleanerPop
  BY <1>15, PopType DEF TypeOK, CleanerPop, progress, read
<1>16. CASE CleanerRemove
  BY <1>16, DataFacts DEF TypeOK, CleanerRemove, progress, read
<1>17. CASE Restart
  BY <1>17, <1>a DEF TypeOK, Restart, Steps, read
<1>18. CASE UNCHANGED tempVars
  BY <1>18 DEF TypeOK, tempVars, progress, read
<1> QED
  BY <1>1, <1>2, <1>3, <1>4, <1>5, <1>6, <1>7, <1>8, <1>9, <1>10, <1>11, <1>12, <1>13,
     <1>14, <1>15, <1>16, <1>17, <1>18 DEF Next, LoadStep, Clean

(* Every load, file and deletion has the types of its declarations.        *)
THEOREM TempTypeCorrect == Spec => []TypeOK
BY InitType, StepType, PTL DEF Spec
-----------------------------------------------------------------------------
(***************************************************************************)
(* What a load works with.  It exported a file before it reads it, and     *)
(* only the cleaner can touch it in between, so it finds there its own     *)
(* data or nothing, whatever the file held before.                         *)
(***************************************************************************)
AfterExport == {"readXml", "readIf", "writeIf", "openIf", "deleteXml", "deleteIf"}
TwoFiles == {"exportIf", "readIf", "writeIf", "openIf", "deleteIf"}
Packed == {"exportXml", "readXml", "readIf", "writeIf"}

Own(b) == [of |-> asked, packed |-> b]

StageInv ==
    /\ pc \in TwoFiles => asked \in Trainers
    /\ pc = "exportIf" => exported = {}
    /\ pc = "exportXml" => exported \subseteq FilesOf(asked) \ {Xml(asked)}
    /\ pc \in AfterExport => exported = FilesOf(asked)

OwnFiles ==
    /\ Xml(asked) \in exported \cap Held => dir[Xml(asked)] \in {None, Own(TRUE)}
    /\ If(asked) \in exported \cap Held =>
          dir[If(asked)] \in {None, Own(pc \in Packed)}

OwnRead ==
    /\ pc \in {"readIf", "writeIf", "openIf", "deleteXml", "deleteIf"} => xmlData = Own(FALSE)
    /\ pc = "writeIf" => ifData = Own(FALSE)
    /\ pc \in {"exportIf", "exportXml", "readXml"} => index = None
    /\ pc \in {"deleteXml", "deleteIf"} =>
          index \in IF asked \in Trainers THEN {Own(FALSE), None} ELSE {None}

LoadInv ==
    /\ TypeOK /\ StageInv /\ OwnFiles /\ OwnRead
    /\ GivesWhatWasAsked

LEMMA InitLoad == Init => LoadInv
<1>1. Init => TypeOK
  BY InitType
<1>2. ASSUME Init PROVE StageInv /\ OwnFiles /\ OwnRead /\ GivesWhatWasAsked
  BY <1>2 DEF Init, StageInv, OwnFiles, OwnRead, GivesWhatWasAsked, Held, TwoFiles,
     AfterExport
<1> QED BY <1>1, <1>2 DEF LoadInv

LEMMA StepLoad == LoadInv /\ [Next]_tempVars => LoadInv'
<1> SUFFICES ASSUME LoadInv, [Next]_tempVars
             PROVE  StageInv' /\ OwnFiles' /\ OwnRead' /\ GivesWhatWasAsked'
  BY StepType DEF LoadInv
<1> USE DEF TwoFiles, AfterExport, Packed, Held
<1>i. StageInv /\ OwnFiles /\ OwnRead /\ GivesWhatWasAsked
  BY DEF LoadInv
<1>t. /\ dir \in [Files -> Data] /\ exported \subseteq Files
      /\ pc \notin {"idle", "joining", "gone"} => asked \in Objects
  BY DEF LoadInv, TypeOK
<1>same. UNCHANGED <<pc, asked, exported, xmlData, ifData, index, got>>
           => StageInv' /\ OwnRead' /\ GivesWhatWasAsked'
  BY <1>i DEF StageInv, OwnRead, GivesWhatWasAsked, Own
<1>1. CASE \E o \in Objects : Ask(o)
  BY <1>1, <1>i, <1>t, <1>same
     DEF Ask, At, progress, read, StageInv, OwnFiles, OwnRead, GivesWhatWasAsked, Own
<1>2. CASE ExportIf
  <2>1. asked \in Trainers /\ asked \in Objects /\ exported = {} /\ pc = "exportIf"
    BY <1>2, <1>i, <1>t DEF ExportIf, At, StageInv
  <2>2. exported' \subseteq {If(asked)} /\ asked' = asked /\ pc' = "exportXml"
    BY <1>2, <2>1 DEF ExportIf, Export
  <2>3. StageInv'
    BY <2>1, <2>2, ObjectFiles DEF StageInv, FilesOf
  <2>4. OwnFiles'
    BY <1>2, <1>t, <2>1, <2>2, ObjectFiles DEF ExportIf, Export, Write, OwnFiles, Own
  <2>5. OwnRead' /\ GivesWhatWasAsked'
    BY <1>2, <1>i, <2>1, <2>2 DEF ExportIf, OwnRead, Own, GivesWhatWasAsked, read
  <2> QED BY <2>3, <2>4, <2>5
<1>3. CASE ExportXml
  <2>1. /\ asked \in Objects /\ pc = "exportXml" /\ pc' = "readXml" /\ asked' = asked
        /\ exported \subseteq FilesOf(asked) \ {Xml(asked)}
        /\ exported' = exported \cup {Xml(asked)}
        /\ asked \in Trainers => If(asked) \in exported
        /\ dir' = [dir EXCEPT ![Xml(asked)] = Own(TRUE)]
    BY <1>3, <1>i, <1>t DEF ExportXml, At, Export, Write, StageInv, Own
  <2>2. exported' = FilesOf(asked)
    BY <2>1, ObjectFiles
  <2>3. StageInv'
    BY <2>1, <2>2 DEF StageInv, FilesOf, Xml, If
  <2>4. OwnFiles'
    BY <1>i, <1>t, <2>1, ObjectFiles DEF OwnFiles, Own
  <2>5. OwnRead' /\ GivesWhatWasAsked'
    BY <1>3, <1>i, <2>1 DEF ExportXml, OwnRead, Own, GivesWhatWasAsked, read
  <2> QED BY <2>3, <2>4, <2>5
<1>4. CASE GiveUp \/ KeepFiles \/ Close \/ Join \/ Restart
  <2>1. pc' \in {"idle", "joining", "gone"} /\ UNCHANGED <<asked, got>>
    BY <1>4 DEF GiveUp, KeepFiles, Close, Join, Restart, read
  <2> QED BY <1>i, <2>1 DEF StageInv, OwnFiles, OwnRead, GivesWhatWasAsked, Own
<1>6. CASE ReadXml
  <2>1. /\ asked \in Objects /\ pc = "readXml" /\ exported = FilesOf(asked)
        /\ dir[Xml(asked)] # None /\ xmlData' = Unpacked(dir[Xml(asked)])
        /\ pc' = IF asked \in Trainers THEN "readIf" ELSE "deleteXml"
        /\ UNCHANGED <<dir, asked, exported, ifData, index, got>>
    BY <1>6, <1>i, <1>t DEF ReadXml, At, StageInv
  <2>2. xmlData' = Own(FALSE)
    BY <1>i, <2>1, ObjectFiles, DataFacts DEF OwnFiles, Own
  <2>3. index = None
    BY <1>i, <2>1 DEF OwnRead
  <2>4. StageInv'
    BY <1>i, <2>1 DEF StageInv
  <2>5. OwnFiles'
    BY <1>i, <2>1, ObjectFiles DEF OwnFiles, Own
  <2>6. OwnRead' /\ GivesWhatWasAsked'
    BY <1>i, <2>1, <2>2, <2>3 DEF OwnRead, GivesWhatWasAsked, Own
  <2> QED BY <2>4, <2>5, <2>6
<1>7. CASE ReadIf
  <2>1. /\ asked \in Objects /\ asked \in Trainers /\ pc = "readIf"
        /\ exported = FilesOf(asked)
        /\ dir[If(asked)] # None /\ ifData' = Unpacked(dir[If(asked)]) /\ pc' = "writeIf"
        /\ UNCHANGED <<dir, asked, exported, xmlData, index, got>>
    BY <1>7, <1>i, <1>t DEF ReadIf, At, StageInv
  <2>2. ifData' = Own(FALSE)
    BY <1>i, <2>1, ObjectFiles, DataFacts DEF OwnFiles, Own
  <2> QED BY <1>i, <2>1, <2>2 DEF StageInv, OwnFiles, OwnRead, GivesWhatWasAsked, Own
<1>8. CASE WriteIf
  <2>1. /\ asked \in Objects /\ asked \in Trainers /\ pc = "writeIf" /\ pc' = "openIf"
        /\ exported = FilesOf(asked) /\ ifData = Own(FALSE)
        /\ dir' = [dir EXCEPT ![If(asked)] = Own(FALSE)]
        /\ UNCHANGED <<asked, exported, xmlData, ifData, index, got>>
    BY <1>8, <1>i, <1>t DEF WriteIf, At, StageInv, OwnRead, read
  <2>2. OwnFiles'
    <3>1. Xml(asked) \in exported \cap Held /\ Xml(asked) \in Files /\ If(asked) \in Files
          /\ Xml(asked) # If(asked)
      BY <2>1, ObjectFiles
    <3>2. dir[Xml(asked)] \in {None, Own(TRUE)}
      BY <1>i, <3>1 DEF OwnFiles
    <3>3. dir'[Xml(asked)] \in {None, Own(TRUE)} /\ dir'[If(asked)] = Own(FALSE)
      BY <1>t, <2>1, <3>1, <3>2
    <3>4. (pc' \in Packed) = FALSE
      BY <2>1
    <3> QED BY <2>1, <3>3, <3>4 DEF OwnFiles, Own
  <2> QED BY <1>i, <2>1, <2>2 DEF StageInv, OwnRead, GivesWhatWasAsked, Own
<1>9. CASE OpenIndex
  <2>1. /\ asked \in Objects /\ asked \in Trainers /\ pc = "openIf" /\ pc' = "deleteXml"
        /\ exported = FilesOf(asked) /\ index' = dir[If(asked)]
        /\ UNCHANGED <<dir, asked, exported, xmlData, ifData, got>>
    BY <1>9, <1>i, <1>t DEF OpenIndex, At, StageInv
  <2>2. index' \in {Own(FALSE), None}
    <3>1. If(asked) \in exported \cap Held
      BY <2>1, ObjectFiles
    <3>2. (pc \in Packed) = FALSE
      BY <2>1
    <3> QED BY <1>i, <2>1, <3>1, <3>2 DEF OwnFiles
  <2> QED BY <1>i, <2>1, <2>2 DEF StageInv, OwnFiles, OwnRead, GivesWhatWasAsked, Own
<1>10. CASE FileMissing
  BY <1>10, <1>i, <1>same DEF FileMissing, progress, read, OwnFiles, Own
<1>11. CASE DeleteXml
  <2>1. /\ asked \in Objects /\ pc = "deleteXml" /\ exported = FilesOf(asked)
        /\ xmlData = Own(FALSE)
        /\ index \in IF asked \in Trainers THEN {Own(FALSE), None} ELSE {None}
        /\ UNCHANGED <<dir, asked, exported, xmlData, ifData, index>>
    BY <1>11, <1>i, <1>t DEF DeleteXml, At, StageInv, OwnRead, read
  <2>2. CASE asked \in Trainers
    <3>1. pc' = "deleteIf" /\ got' = got
      BY <1>11, <2>2 DEF DeleteXml
    <3> QED BY <1>i, <2>1, <2>2, <3>1, ObjectFiles
            DEF StageInv, OwnFiles, OwnRead, GivesWhatWasAsked, Own
  <2>3. CASE asked \notin Trainers
    <3>1. pc' = "idle" /\ got' = [asked |-> asked, data |-> xmlData, index |-> index]
      BY <1>11, <2>3 DEF DeleteXml, Finish
    <3> QED BY <2>1, <2>3, <3>1 DEF StageInv, OwnFiles, OwnRead, GivesWhatWasAsked, Own
  <2> QED BY <2>2, <2>3
<1>12. CASE DeleteIf
  <2>1. /\ pc = "deleteIf" /\ pc' = "idle" /\ asked \in Trainers
        /\ xmlData = Own(FALSE) /\ index \in {Own(FALSE), None}
        /\ got' = [asked |-> asked, data |-> xmlData, index |-> index]
        /\ UNCHANGED asked
    BY <1>12, <1>i DEF DeleteIf, Finish, At, StageInv, OwnRead
  <2> QED BY <2>1 DEF StageInv, OwnFiles, OwnRead, GivesWhatWasAsked, Own
<1>15. CASE CleanerPop
  BY <1>15, <1>i, <1>same DEF CleanerPop, progress, read, OwnFiles, Own
<1>16. CASE CleanerRemove
  <2>1. \A f \in Files : dir'[f] \in {dir[f], None}
    BY <1>16, <1>t DEF CleanerRemove
  <2> QED BY <1>16, <1>i, <1>t, <1>same, <2>1
          DEF CleanerRemove, progress, read, OwnFiles, Own
<1>18. CASE UNCHANGED tempVars
  BY <1>18, <1>i, <1>same DEF tempVars, progress, read, OwnFiles, Own
<1> QED
  BY <1>1, <1>2, <1>3, <1>4, <1>6, <1>7, <1>8, <1>9, <1>10, <1>11, <1>12,
     <1>15, <1>16, <1>18 DEF Next, LoadStep, Clean

(* A load that ends well gives what was asked for.                         *)
THEOREM LoadsTheRightObject == Spec => []GivesWhatWasAsked
<1>1. LoadInv => GivesWhatWasAsked
  BY DEF LoadInv
<1> QED BY <1>1, InitLoad, StepLoad, PTL DEF Spec
-----------------------------------------------------------------------------
(***************************************************************************)
(* What deletes a file of the load is a deletion asked for before it was   *)
(* exported: what the load itself asks for comes after its use.            *)
(***************************************************************************)
LossInv ==
    \A f \in exported \cap Held : dir[f] = None \/ f \in ToDelete => f \in pending

LEMMA StepLoss == LoadInv /\ LossInv /\ [Next]_tempVars => LossInv'
<1> SUFFICES ASSUME LoadInv, LossInv, [Next]_tempVars PROVE LossInv'
  OBVIOUS
<1>t. /\ TypeOK
      /\ dir \in [Files -> Data] /\ exported \subseteq Files
      /\ pc \notin {"idle", "joining", "gone"} => asked \in Objects
      /\ pc = "exportIf" => exported = {} /\ asked \in Trainers
      /\ pc \in {"writeIf", "deleteIf"} => asked \in Trainers /\ exported = FilesOf(asked)
      /\ pc = "writeIf" => ifData = Own(FALSE)
  BY DEF LoadInv, TypeOK, StageInv, OwnRead, TwoFiles, AfterExport
<1>same. ASSUME Held' = Held, exported' = exported, pending' = pending, ToDelete' = ToDelete,
                \A f \in exported \cap Held : dir'[f] = dir[f] \/ dir'[f] # None
         PROVE  LossInv'
  BY <1>same DEF LossInv
<1>1. CASE \E o \in Objects : Ask(o)
  <2>1. exported' = {} \/ UNCHANGED <<pc, asked, exported, pending, queue, cleaner, dir>>
    BY <1>1 DEF Ask, progress
  <2> QED BY <2>1, <1>same DEF LossInv, Held, ToDelete
<1>2. ASSUME NEW f \in Files, Export(f), UNCHANGED <<asked, queue, cleaner>>,
             pc \in {"exportIf", "exportXml"}, pc' \in {"exportXml", "readXml"}
      PROVE  LossInv'
  <2>1. Held' = Held /\ ToDelete' = ToDelete
    BY <1>2 DEF Held, ToDelete
  <2>2. /\ exported' = exported \cup {f} /\ pending \subseteq pending'
        /\ f \in ToDelete => f \in pending'
    BY <1>2 DEF Export
  <2>3. /\ dir'[f] # None
        /\ \A g \in Files \ {f} : dir'[g] = dir[g]
    BY <1>2, <1>t, DataFacts DEF Export, Write
  <2> QED BY <1>t, <2>1, <2>2, <2>3 DEF LossInv
<1>3. CASE ExportIf
  <2>1. asked \in Objects /\ pc = "exportIf" /\ pc' = "exportXml" /\ exported = {}
    BY <1>3, <1>t DEF ExportIf, At
  <2>2. CASE Export(If(asked))
    BY <1>2, <1>3, <2>1, <2>2, ObjectFiles DEF ExportIf
  <2>3. CASE exported' = exported
    BY <2>1, <2>3 DEF LossInv
  <2> QED BY <1>3, <2>2, <2>3 DEF ExportIf
<1>4. CASE ExportXml
  BY <1>2, <1>4, <1>t, ObjectFiles DEF ExportXml, At
<1>5. CASE GiveUp \/ KeepFiles \/ Close \/ Join \/ Restart \/ DeleteIf
  <2>1. pc' \in {"idle", "joining", "gone"}
    BY <1>5 DEF GiveUp, KeepFiles, Close, Join, Restart, DeleteIf, Finish
  <2> QED BY <2>1 DEF LossInv, Held
<1>6. CASE ReadXml \/ ReadIf \/ OpenIndex \/ FileMissing \/ UNCHANGED tempVars
  <2>1. /\ UNCHANGED <<asked, exported, pending, queue, cleaner, dir>>
        /\ pc' = pc \/ {pc, pc'} \cap {"idle", "joining", "gone", "deleteIf"} = {}
    BY <1>6 DEF ReadXml, ReadIf, OpenIndex, FileMissing, At, tempVars, progress
  <2> QED BY <1>same, <2>1 DEF Held, ToDelete
<1>7. CASE WriteIf
  <2>1. /\ asked \in Objects /\ pc = "writeIf" /\ pc' = "openIf"
        /\ dir' = [dir EXCEPT ![If(asked)] = Own(FALSE)]
        /\ UNCHANGED <<asked, exported, pending, queue, cleaner>>
    BY <1>7, <1>t DEF WriteIf, At
  <2>2. \A f \in Files : dir'[f] = dir[f] \/ dir'[f] # None
    BY <1>t, <2>1, ObjectFiles, DataFacts DEF Own
  <2>3. Held' = Held /\ ToDelete' = ToDelete
    BY <2>1 DEF Held, ToDelete
  <2> QED BY <1>same, <1>t, <2>1, <2>2, <2>3
<1>8. CASE DeleteXml
  <2>1. /\ asked \in Objects /\ pc = "deleteXml"
        /\ queue' = Append(queue, Xml(asked))
        /\ UNCHANGED <<asked, exported, pending, cleaner, dir>>
        /\ pc' = IF asked \in Trainers THEN "deleteIf" ELSE "idle"
    BY <1>8, <1>t DEF DeleteXml, deleteFile, Finish, At
  <2>2. ToDelete' = ToDelete \cup {Xml(asked)}
    BY <1>t, <2>1, AppendType, ObjectFiles
  <2>3. Held' \subseteq Held \ {Xml(asked)}
    BY <2>1 DEF Held
  <2> QED BY <2>1, <2>2, <2>3 DEF LossInv
<1>9. CASE CleanerPop
  <2>1. ToDelete' \cap Files = ToDelete \cap Files
    BY <1>9, <1>t, PopType
  <2>2. UNCHANGED <<pc, asked, exported, pending, dir>>
    BY <1>9 DEF CleanerPop, progress
  <2>3. Held' = Held
    BY <2>2 DEF Held
  <2> QED BY <1>t, <2>1, <2>2, <2>3 DEF LossInv
<1>10. CASE CleanerRemove
  <2>1. /\ cleaner \in Files /\ dir' = [dir EXCEPT ![cleaner] = None] /\ cleaner' = Waiting
        /\ UNCHANGED <<pc, asked, exported, pending, queue>>
    BY <1>10 DEF CleanerRemove, progress
  <2>2. Held' = Held
    BY <2>1 DEF Held
  <2>3. \A f \in Files : f \in ToDelete' => f \in ToDelete
    BY <2>1, FileFacts DEF ToDelete
  <2>4. cleaner \in ToDelete
    BY DEF ToDelete
  <2>5. \A f \in Files : dir'[f] = None => dir[f] = None \/ f = cleaner
    BY <1>t, <2>1
  <2> QED BY <1>t, <2>1, <2>2, <2>3, <2>4, <2>5 DEF LossInv
<1> QED
  BY <1>1, <1>3, <1>4, <1>5, <1>6, <1>7, <1>8, <1>9, <1>10 DEF Next, LoadStep, Clean

(* A load loses a file only to a deletion asked for before it exported it. *)
THEOREM LossesWerePending == Spec => []LossNeedsPending
<1>1. Init => LoadInv /\ LossInv
  <2>1. Init => LossInv
    BY DEF Init, LossInv
  <2> QED BY <2>1, InitLoad
<1>2. LoadInv /\ LossInv /\ [Next]_tempVars => (LoadInv /\ LossInv)'
  BY StepLoad, StepLoss
<1>3. LoadInv /\ LossInv => LossNeedsPending
  BY DEF LossInv, LossNeedsPending
<1> QED BY <1>1, <1>2, <1>3, PTL DEF Spec
-----------------------------------------------------------------------------
(***************************************************************************)
(* Nothing is forgotten.  The end of the cleaner is the last thing it is   *)
(* asked for, so it takes all the names before it.                         *)
(***************************************************************************)
Kept == \A f \in Files : dir[f] # None => f \in Held \cup ToDelete \cup left

EndsLast ==
    /\ pc \notin {"joining", "gone"} =>
          cleaner # Ended /\ \A i \in DOMAIN queue : queue[i] \in Files
    /\ pc \in {"joining", "gone"} =>
          \/ cleaner = Ended /\ queue = <<>>
          \/ /\ cleaner # Ended /\ queue # <<>> /\ queue[Len(queue)] = End
             /\ \A i \in 1 .. Len(queue) - 1 : queue[i] \in Files
    /\ pc = "gone" => cleaner = Ended

LEMMA StepKept == LoadInv /\ Kept /\ [Next]_tempVars => Kept'
<1> SUFFICES ASSUME LoadInv, Kept, [Next]_tempVars PROVE Kept'
  OBVIOUS
<1>t. /\ TypeOK
      /\ dir \in [Files -> Data] /\ left \subseteq Files
      /\ pc \notin {"idle", "joining", "gone"} => asked \in Objects
      /\ pc \in {"exportIf", "writeIf"} => asked \in Trainers
  BY DEF LoadInv, TypeOK, StageInv, TwoFiles
<1>same. ASSUME Held \subseteq Held', ToDelete \cap Files \subseteq ToDelete', left \subseteq left',
                \A f \in Files : dir'[f] = dir[f] \/ dir'[f] = None \/ f \in Held'
         PROVE  Kept'
  BY <1>same DEF Kept
<1>1. CASE \E o \in Objects : Ask(o)
  <2>1. /\ UNCHANGED <<dir, queue, cleaner, left>>
        /\ pc = "idle"
    BY <1>1 DEF Ask, At
  <2>2. Held = {} /\ ToDelete' = ToDelete
    BY <2>1 DEF Held, ToDelete
  <2> QED BY <1>same, <2>1, <2>2
<1>2. CASE ExportIf \/ ExportXml
  <2>1. /\ asked \in Objects /\ asked' = asked
        /\ UNCHANGED <<queue, cleaner, left>>
        /\ pc \in {"exportIf", "exportXml"} /\ pc' \in {"exportXml", "readXml"}
    BY <1>2, <1>t DEF ExportIf, ExportXml, At
  <2>2. Held = FilesOf(asked) /\ Held' = Held /\ ToDelete' = ToDelete
    BY <2>1 DEF Held, ToDelete
  <2>3. dir' = dir \/ \E f \in FilesOf(asked) : Write(f)
    BY <1>2, <1>t, <2>1, ObjectFiles DEF ExportIf, ExportXml, Export, At
  <2>4. \A f \in Files : dir'[f] = dir[f] \/ f \in FilesOf(asked)
    BY <1>t, <2>3 DEF Write
  <2> QED BY <1>same, <2>1, <2>2, <2>4
<1>3. CASE GiveUp \/ KeepFiles
  <2>1. /\ asked \in Objects
        /\ UNCHANGED <<queue, cleaner>>
        /\ Held = FilesOf(asked) /\ Held' = {}
    BY <1>3, <1>t DEF GiveUp, KeepFiles, At, Held
  <2>2. left' = left \cup {f \in FilesOf(asked) : dir'[f] # None}
    BY <1>3 DEF GiveUp, KeepFiles, Abandon
  <2>3. \A f \in Files : dir'[f] = dir[f] \/ f \in FilesOf(asked)
    BY <1>3, <1>t, <2>1, ObjectFiles DEF GiveUp, KeepFiles, Write
  <2>4. ToDelete' = ToDelete
    BY <2>1 DEF ToDelete
  <2> QED BY <2>1, <2>2, <2>3, <2>4 DEF Kept
<1>4. CASE ReadXml \/ ReadIf \/ OpenIndex \/ FileMissing \/ UNCHANGED tempVars
  <2>1. /\ UNCHANGED <<asked, queue, cleaner, dir, left>>
        /\ pc' = pc \/ {pc, pc'} \cap {"idle", "joining", "gone", "deleteIf"} = {}
    BY <1>4 DEF ReadXml, ReadIf, OpenIndex, FileMissing, At, tempVars, progress
  <2>2. Held' = Held /\ ToDelete' = ToDelete
    BY <2>1 DEF Held, ToDelete
  <2> QED BY <1>same, <2>1, <2>2
<1>5. CASE WriteIf
  <2>1. /\ asked \in Objects /\ asked \in Trainers /\ pc = "writeIf" /\ pc' = "openIf"
        /\ dir' = [dir EXCEPT ![If(asked)] = ifData]
        /\ UNCHANGED <<asked, queue, cleaner, left>>
    BY <1>5, <1>t DEF WriteIf, At
  <2>2. Held' = Held /\ ToDelete' = ToDelete /\ If(asked) \in Held
    BY <2>1, ObjectFiles DEF Held, ToDelete
  <2>3. \A f \in Files : dir'[f] = dir[f] \/ f = If(asked)
    BY <1>t, <2>1
  <2> QED BY <1>same, <2>1, <2>2, <2>3
<1>6. ASSUME NEW f \in Files, queue' = Append(queue, f), left' = left \ {f},
             UNCHANGED <<cleaner, dir>>, Held \subseteq Held' \cup {f}
      PROVE  Kept'
  <2>1. ToDelete' = ToDelete \cup {f}
    BY <1>t, <1>6, AppendType
  <2> QED BY <1>6, <2>1 DEF Kept
<1>7. CASE DeleteXml
  <2>1. /\ asked \in Objects /\ pc = "deleteXml"
        /\ queue' = Append(queue, Xml(asked)) /\ left' = left \ {Xml(asked)}
        /\ UNCHANGED <<asked, cleaner, dir>>
        /\ pc' = IF asked \in Trainers THEN "deleteIf" ELSE "idle"
    BY <1>7, <1>t DEF DeleteXml, deleteFile, Finish, At
  <2>2. Held \subseteq Held' \cup {Xml(asked)}
    BY <2>1, ObjectFiles DEF Held
  <2> QED BY <1>6, <2>1, <2>2, ObjectFiles
<1>8. CASE DeleteIf
  <2>1. /\ asked \in Objects /\ pc = "deleteIf"
        /\ queue' = Append(queue, If(asked)) /\ left' = left \ {If(asked)}
        /\ UNCHANGED <<cleaner, dir>>
    BY <1>8, <1>t DEF DeleteIf, deleteFile, At
  <2>2. Held \subseteq Held' \cup {If(asked)}
    BY <2>1, ObjectFiles DEF Held
  <2> QED BY <1>6, <2>1, <2>2, ObjectFiles
<1>9. CASE Close
  <2>1. ToDelete' = ToDelete \cup {End}
    BY <1>9, <1>t, AppendType DEF Close
  <2>2. Held = {} /\ UNCHANGED <<dir, left>>
    BY <1>9 DEF Close, At, Held
  <2> QED BY <1>same, <2>1, <2>2
<1>10. CASE Join
  BY <1>10, <1>same DEF Join, At, Held, ToDelete
<1>11. CASE CleanerPop
  <2>1. ToDelete' \cap Files = ToDelete \cap Files
    BY <1>11, <1>t, PopType
  <2>2. Held' = Held /\ UNCHANGED <<dir, left>>
    BY <1>11 DEF CleanerPop, progress, Held
  <2> QED BY <1>same, <2>1, <2>2
<1>12. CASE CleanerRemove
  <2>1. /\ cleaner \in Files /\ dir' = [dir EXCEPT ![cleaner] = None]
        /\ UNCHANGED <<pc, asked, left, queue>>
    BY <1>12 DEF CleanerRemove, progress
  <2>2. Held' = Held
    BY <2>1 DEF Held
  <2>3. \A f \in Files \ {cleaner} : f \in ToDelete => f \in ToDelete'
    BY <2>1 DEF ToDelete
  <2>4. \A f \in Files : dir'[f] # None => f # cleaner /\ dir[f] # None
    BY <1>t, <2>1
  <2> QED BY <2>1, <2>2, <2>3, <2>4 DEF Kept
<1>13. CASE Restart
  BY <1>13 DEF Restart, Kept
<1> QED
  BY <1>1, <1>2, <1>3, <1>4, <1>5, <1>7, <1>8, <1>9, <1>10, <1>11, <1>12, <1>13
     DEF Next, LoadStep, Clean

LEMMA StepEnds == LoadInv /\ EndsLast /\ [Next]_tempVars => EndsLast'
<1> SUFFICES ASSUME LoadInv, EndsLast, [Next]_tempVars PROVE EndsLast'
  OBVIOUS
<1>t. /\ TypeOK /\ queue \in Seq(Files \cup {End}) /\ Len(queue) \in Nat
      /\ cleaner \in Files \cup {Waiting, Ended}
      /\ pc \notin {"idle", "joining", "gone"} => asked \in Objects
  BY DEF LoadInv, TypeOK
<1>1. ASSUME UNCHANGED <<queue, cleaner>>,
             \/ pc \notin {"joining", "gone"} /\ pc' \notin {"joining", "gone"}
             \/ pc' = pc
      PROVE  EndsLast'
  BY <1>1 DEF EndsLast
<1>2. CASE \/ \E o \in Objects : Ask(o)
           \/ ExportIf \/ ExportXml \/ GiveUp \/ KeepFiles
           \/ ReadXml \/ ReadIf \/ WriteIf \/ OpenIndex \/ FileMissing \/ UNCHANGED tempVars
  <2>1. /\ UNCHANGED <<queue, cleaner>>
        /\ \/ pc \notin {"joining", "gone"} /\ pc' \notin {"joining", "gone"}
           \/ pc' = pc
    BY <1>2 DEF Ask, ExportIf, ExportXml, GiveUp, KeepFiles, ReadXml, ReadIf, WriteIf, OpenIndex,
       FileMissing, At, tempVars, progress
  <2> QED BY <1>1, <2>1
<1>3. ASSUME NEW f \in Files, queue' = Append(queue, f), UNCHANGED cleaner,
             pc \notin {"joining", "gone"}, pc' \notin {"joining", "gone"}
      PROVE  EndsLast'
  <2>1. /\ Len(queue') = Len(queue) + 1 /\ queue'[Len(queue')] = f
        /\ \A i \in 1 .. Len(queue) : queue'[i] = queue[i]
        /\ DOMAIN queue' = 1 .. Len(queue) + 1
    BY <1>3, <1>t, AppendType
  <2>2. cleaner # Ended /\ \A i \in 1 .. Len(queue) : queue[i] \in Files
    BY <1>3, <1>t DEF EndsLast
  <2>3. \A i \in DOMAIN queue' : queue'[i] \in Files
    BY <1>t, <2>1, <2>2
  <2> QED BY <1>3, <2>2, <2>3 DEF EndsLast
<1>4. CASE DeleteXml
  BY <1>3, <1>4, <1>t, ObjectFiles DEF DeleteXml, deleteFile, Finish, At
<1>5. CASE DeleteIf
  BY <1>3, <1>5, <1>t, ObjectFiles DEF DeleteIf, deleteFile, Finish, At
<1>6. CASE Close
  <2>1. /\ queue' = Append(queue, End) /\ UNCHANGED cleaner
        /\ pc = "idle" /\ pc' = "joining"
    BY <1>6 DEF Close, At
  <2>2. /\ queue' # <<>> /\ Len(queue') = Len(queue) + 1 /\ queue'[Len(queue')] = End
        /\ \A i \in 1 .. Len(queue) : queue'[i] = queue[i]
    BY <1>t, <2>1, AppendType
  <2>3. cleaner # Ended /\ \A i \in 1 .. Len(queue) : queue[i] \in Files
    BY <1>t, <2>1 DEF EndsLast
  <2>4. \A i \in 1 .. Len(queue') - 1 : queue'[i] \in Files
    BY <1>t, <2>2, <2>3
  <2> QED BY <2>1, <2>2, <2>3, <2>4 DEF EndsLast
<1>7. CASE Join
  BY <1>7 DEF Join, At, EndsLast
<1>8. CASE CleanerPop
  <2>1. /\ queue # <<>> /\ cleaner = Waiting /\ queue' = Tail(queue) /\ pc' = pc
        /\ cleaner' = IF Head(queue) = End THEN Ended ELSE Head(queue)
    BY <1>8 DEF CleanerPop, progress
  <2>2. /\ Len(queue) > 0 /\ Head(queue) = queue[1]
        /\ Len(queue') = Len(queue) - 1 /\ DOMAIN queue' = 1 .. Len(queue) - 1
        /\ \A i \in 1 .. Len(queue) - 1 : queue'[i] = queue[i + 1]
    BY <1>t, <2>1
  <2>3. CASE pc \notin {"joining", "gone"}
    <3>1. \A i \in 1 .. Len(queue) : queue[i] \in Files
      BY <1>t, <2>3 DEF EndsLast
    <3>2. cleaner' # Ended /\ \A i \in DOMAIN queue' : queue'[i] \in Files
      BY <1>t, <2>1, <2>2, <3>1, FileFacts
    <3> QED BY <2>1, <2>3, <3>2 DEF EndsLast
  <2>4. CASE pc \in {"joining", "gone"}
    <3>1. /\ queue[Len(queue)] = End /\ pc # "gone"
          /\ \A i \in 1 .. Len(queue) - 1 : queue[i] \in Files
      BY <2>1, <2>4, FileFacts DEF EndsLast
    <3>2. CASE Len(queue) = 1
      <4>1. queue' = <<>> /\ cleaner' = Ended
        BY <1>t, <2>1, <2>2, <3>1, <3>2
      <4> QED BY <2>1, <2>4, <3>1, <4>1 DEF EndsLast
    <3>3. CASE Len(queue) # 1
      <4>1. queue[1] \in Files
        BY <1>t, <2>2, <3>1, <3>3
      <4>2. cleaner' # Ended /\ queue' # <<>>
        <5>1. cleaner' # Ended
          BY <2>1, <2>2, <4>1, FileFacts
        <5>2. queue' # <<>>
          <6>1. Len(queue') # 0
            BY <1>t, <2>2, <3>3
          <6> QED BY <6>1
        <5> QED BY <5>1, <5>2
      <4>3. queue'[Len(queue')] = End
        <5>1. Len(queue') \in 1 .. Len(queue) - 1 /\ Len(queue') + 1 = Len(queue)
          BY <1>t, <2>2, <3>3
        <5> QED BY <2>2, <3>1, <5>1
      <4>4. \A i \in 1 .. Len(queue') - 1 : queue'[i] \in Files
        <5>1. \A i \in 1 .. Len(queue') - 1 :
                 i \in 1 .. Len(queue) - 1 /\ i + 1 \in 1 .. Len(queue) - 1
          BY <1>t, <2>2, <3>3
        <5> QED BY <2>2, <3>1, <5>1
      <4> QED BY <2>1, <2>4, <3>1, <4>2, <4>3, <4>4 DEF EndsLast
    <3> QED BY <3>2, <3>3
  <2> QED BY <2>3, <2>4
<1>9. CASE CleanerRemove
  <2>1. cleaner \in Files /\ cleaner' = Waiting /\ UNCHANGED <<pc, queue>>
    BY <1>9 DEF CleanerRemove, progress
  <2> QED BY <2>1, FileFacts DEF EndsLast
<1>10. CASE Restart
  BY <1>10, FileFacts DEF Restart, EndsLast
<1> QED
  BY <1>2, <1>4, <1>5, <1>6, <1>7, <1>8, <1>9, <1>10 DEF Next, LoadStep, Clean

LEMMA InitEnds == Init => Kept /\ EndsLast
BY FileFacts DEF Init, Kept, EndsLast

(* What is in the directory is in use, to be deleted or abandoned; what    *)
(* the program ends with is abandoned.                                     *)
THEOREM NoFileForgotten == Spec => []NothingLeftBehind
<1>1. LoadInv /\ Kept /\ EndsLast /\ [Next]_tempVars => (LoadInv /\ Kept /\ EndsLast)'
  BY StepLoad, StepKept, StepEnds
<1>2. LoadInv /\ Kept /\ EndsLast => NothingLeftBehind
  BY DEF Kept, EndsLast, NothingLeftBehind
<1> QED BY <1>1, <1>2, InitLoad, InitEnds, PTL DEF Spec
-----------------------------------------------------------------------------
(***************************************************************************)
(* The end of a program gets past the cleaner: what Joins says, but for    *)
(* the fairness.  While the destructor waits, it can return or the cleaner *)
(* can go on, and each step of the cleaner takes from what is left to do.  *)
(***************************************************************************)
DeadAtRead == ~ alive => pc \in {"readXml", "readIf", "openIf"}

JoinNeverStuck ==
    pc = "joining" =>
        /\ alive
        /\ \/ cleaner = Ended
           \/ cleaner \in Files
           \/ cleaner = Waiting /\ queue # <<>>

ToClean == 2 * Len(queue) + IF cleaner \in Files THEN 1 ELSE 0

JoinProgresses ==
    [][pc = "joining" =>
          pc' = "gone" \/ (pc' = pc /\ ToClean' \in Nat /\ ToClean' < ToClean)]_tempVars

LEMMA StepDead == DeadAtRead /\ [Next]_tempVars => DeadAtRead'
<1> SUFFICES ASSUME DeadAtRead, [Next]_tempVars PROVE DeadAtRead'
  OBVIOUS
<1>1. CASE FileMissing
  BY <1>1 DEF FileMissing, At, progress, DeadAtRead
<1>2. CASE (\E o \in Objects : Ask(o)) \/ (LoadStep /\ ~ FileMissing) \/ Close \/ Join
  BY <1>2 DEF Ask, LoadStep, ExportIf, ExportXml, GiveUp, KeepFiles, ReadXml, ReadIf, WriteIf,
     OpenIndex, DeleteXml, DeleteIf, Close, Join, At, DeadAtRead
<1>3. CASE Clean
  BY <1>3 DEF Clean, CleanerPop, CleanerRemove, DeadAtRead
<1>4. CASE Restart \/ UNCHANGED tempVars
  BY <1>4 DEF Restart, tempVars, progress, DeadAtRead
<1> QED BY <1>1, <1>2, <1>3, <1>4 DEF Next

LEMMA CleanerSteps ==
    ASSUME TypeOK, DeadAtRead, pc = "joining", Next
    PROVE  pc' = "gone" \/ (pc' = pc /\ ToClean' \in Nat /\ ToClean' < ToClean)
<1>t. /\ queue \in Seq(Files \cup {End}) /\ alive
      /\ cleaner \in Files \cup {Waiting, Ended}
  BY DEF TypeOK, DeadAtRead
<1>1. CASE CleanerPop
  <2>1. /\ queue # <<>> /\ cleaner = Waiting /\ queue' = Tail(queue) /\ pc' = pc
        /\ Len(queue) \in Nat /\ Len(Tail(queue)) = Len(queue) - 1
    BY <1>t, <1>1 DEF CleanerPop, progress
  <2>2. cleaner \notin Files
    BY <2>1, FileFacts
  <2> QED BY <2>1, <2>2 DEF ToClean
<1>2. CASE CleanerRemove
  <2>1. cleaner \in Files /\ cleaner' \notin Files /\ queue' = queue /\ pc' = pc
    BY <1>2, FileFacts DEF CleanerRemove, progress
  <2>2. Len(queue) \in Nat
    BY <1>t
  <2> QED BY <2>1, <2>2 DEF ToClean
<1>3. CASE Join
  BY <1>3 DEF Join
<1>4. ~ ((\E o \in Objects : Ask(o)) \/ LoadStep \/ Close \/ Restart)
  BY <1>t DEF Ask, LoadStep, ExportIf, ExportXml, GiveUp, KeepFiles, ReadXml, ReadIf, WriteIf,
     OpenIndex, FileMissing, DeleteXml, DeleteIf, Close, Restart, At
<1> QED BY <1>1, <1>2, <1>3, <1>4 DEF Next, Clean

(* The destructor and the cleaner are never both waiting: the end is in    *)
(* the queue until the cleaner takes it (~TempDirCleaner).                 *)
THEOREM CleanerNeverStuck == Spec => []JoinNeverStuck
<1>1. Init => DeadAtRead
  BY DEF Init, DeadAtRead
<1>2. LoadInv /\ EndsLast /\ DeadAtRead => JoinNeverStuck
  BY DEF LoadInv, TypeOK, EndsLast, DeadAtRead, JoinNeverStuck
<1> QED BY <1>1, <1>2, InitLoad, InitEnds, StepLoad, StepEnds, StepDead, PTL DEF Spec

(* Nothing the cleaner is waited for to do is put off for ever: while the  *)
(* destructor waits nothing is added, and each step takes some away.       *)
THEOREM CleanerProgresses == Spec => JoinProgresses
<1>1. Init => DeadAtRead
  BY DEF Init, DeadAtRead
<1>2. TypeOK /\ DeadAtRead /\ [Next]_tempVars =>
         [pc = "joining" =>
            pc' = "gone" \/ (pc' = pc /\ ToClean' \in Nat /\ ToClean' < ToClean)]_tempVars
  BY CleanerSteps
<1> QED BY <1>1, <1>2, TempTypeCorrect, StepDead, PTL DEF Spec, JoinProgresses
=============================================================================
