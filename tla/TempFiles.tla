------------------------------ MODULE TempFiles ------------------------------
(***************************************************************************)
(* The files a program exports from the database to load them, in the one  *)
(* directory /tmp/ram/Anakin/<program>_tmpDir, and the thread of           *)
(* TempDirCleaner that deletes them later, by name.                        *)
(*                                                                         *)
(* A trainer is two files, <id>.xml and <id>.if; a scene and the           *)
(* descriptors of a pattern are one, <id>.xml.  Each table counts its own  *)
(* ids.  The loads of a program follow one another: the cache holds its    *)
(* mutex around each, a program run by hand has one thread.  The cleaner   *)
(* runs beside them.                                                       *)
(*                                                                         *)
(* A file missing when it is read throws where nothing catches, so the     *)
(* process dies and the directory stays as it is for the next.  A file is  *)
(* whose data it holds, and whether compressed; what a failed export left  *)
(* of one is never read, so it may count as whole.                         *)
(***************************************************************************)
EXTENDS Integers, Sequences

CONSTANTS
    Programs,      \* "daemon", "connector": what uses the directory
    Trainers,      \* objects of two files
    Singles,       \* objects of one file
    IdOf,          \* the id of each in its table
    MaxLoads,      \* bound: the loads asked for
    MaxRestarts    \* bound: the processes after the first

Objects == Trainers \cup Singles
Files == {IdOf[o] : o \in Objects} \X {"xml", "if"}

Xml(o) == <<IdOf[o], "xml">>
If(o) == <<IdOf[o], "if">>
FilesOf(o) == {Xml(o)} \cup IF o \in Trainers THEN {If(o)} ELSE {}

Contents == [of : Objects, packed : BOOLEAN]
None == [of |-> "none", packed |-> FALSE]        \* no such file
Garbage == [of |-> "garbage", packed |-> FALSE]
Data == Contents \cup {None, Garbage}

(* Decompressing twice yields garbage.                                     *)
Unpacked(c) == IF c.packed THEN [of |-> c.of, packed |-> FALSE] ELSE Garbage

End == <<0, "end">>            \* the NULL that ends the cleaner
Waiting == <<0, "waiting">>
Ended == <<0, "ended">>

ASSUME TempAssumption ==
    /\ Programs \subseteq {"daemon", "connector"}
    /\ Trainers \cap Singles = {}
    /\ "none" \notin Objects /\ "garbage" \notin Objects
    /\ IdOf \in [Objects -> Int]
    /\ MaxLoads \in Nat /\ MaxRestarts \in Nat

VARIABLES
    program,
    dir,          \* what each file of the directory holds
    queue,        \* workingQueue: the names to delete, oldest first
    cleaner,      \* Waiting, Ended, or the name it has popped
    pc, asked,    \* where the load is, of which object
    exported,     \* the files it has exported
    xmlData, ifData, index,  \* what it read, and opened the index on
    got,          \* the last load that ended well
    alive,        \* FALSE once an exception nobody catches was thrown
    pending,      \* history: those of exported that were still to be deleted
    left,         \* history: the files nobody asked to delete
    loads, restarts

progress == <<pc, asked, exported, pending>>
read == <<xmlData, ifData, index>>
tempVars == <<program, dir, queue, cleaner, progress, read, got, alive, left,
              loads, restarts>>

ToDelete == {queue[i] : i \in DOMAIN queue} \cup {cleaner}

Nothing == [asked |-> "none", data |-> None, index |-> None]

Init ==
    /\ program \in Programs
    /\ dir = [f \in Files |-> None]
    /\ queue = <<>> /\ cleaner = Waiting
    /\ pc = "idle" /\ asked = "none" /\ exported = {} /\ pending = {}
    /\ xmlData = None /\ ifData = None /\ index = None
    /\ got = Nothing
    /\ alive = TRUE
    /\ left = {}
    /\ loads = 0 /\ restarts = 0
-----------------------------------------------------------------------------
At(step) == alive /\ pc = step

(* The row is found, or it is not and the load ends.                       *)
Ask(o) ==
    /\ At("idle") /\ loads < MaxLoads
    /\ loads' = loads + 1
    /\ \/ /\ asked' = o
          /\ pc' = IF o \in Trainers THEN "exportIf" ELSE "exportXml"
          /\ exported' = {} /\ pending' = {}
          /\ xmlData' = None /\ ifData' = None /\ index' = None
       \/ UNCHANGED <<progress, read>>
    /\ UNCHANGED <<program, dir, queue, cleaner, got, alive, left, restarts>>

(* loadFileFromDB, when it says it exported the file.                      *)
Write(f) == dir' = [dir EXCEPT ![f] = [of |-> asked, packed |-> TRUE]]

(* Mutant: what is there under that name is not exported again.            *)
ExportOnce(f) ==
    /\ IF dir[f] = None THEN Write(f) ELSE UNCHANGED dir
    /\ exported' = exported \cup {f}
    /\ pending' = IF f \in ToDelete THEN pending \cup {f} ELSE pending

Export(f) ==
    /\ Write(f)
    /\ exported' = exported \cup {f}
    /\ pending' = IF f \in ToDelete THEN pending \cup {f} ELSE pending

(* The index goes first; if that fails the other is exported all the same. *)
ExportIf ==
    /\ At("exportIf")
    /\ \/ Export(If(asked))
       \/ /\ Write(If(asked)) \/ UNCHANGED dir
          /\ UNCHANGED <<exported, pending>>
    /\ pc' = "exportXml"
    /\ UNCHANGED <<program, queue, cleaner, asked, read, got, alive, left, loads, restarts>>

ExportXml ==
    /\ At("exportXml")
    /\ asked \in Trainers => If(asked) \in exported
    /\ Export(Xml(asked))
    /\ pc' = "readXml"
    /\ UNCHANGED <<program, queue, cleaner, asked, read, got, alive, left, loads, restarts>>

Abandon == left' = left \cup {f \in FilesOf(asked) : dir'[f] # None}

(* One of the exports failed: the load does, its files stay.               *)
GiveUp ==
    /\ At("exportXml")
    /\ Write(Xml(asked)) \/ UNCHANGED dir
    /\ Abandon
    /\ pc' = "idle"
    /\ UNCHANGED <<program, queue, cleaner, asked, exported, pending, read, got, alive,
                   loads, restarts>>

(* PatternDBConnector -load -index only wants the files.                   *)
KeepFiles ==
    /\ At("readXml") /\ program = "connector" /\ asked \in Trainers
    /\ UNCHANGED dir
    /\ Abandon
    /\ pc' = "idle"
    /\ UNCHANGED <<program, queue, cleaner, asked, exported, pending, read, got, alive,
                   loads, restarts>>

Loading == program = "daemon" \/ asked \notin Trainers

(* decompress_from_file                                                    *)
ReadXml ==
    /\ At("readXml") /\ Loading
    /\ dir[Xml(asked)] # None
    /\ xmlData' = Unpacked(dir[Xml(asked)])
    /\ pc' = IF asked \in Trainers THEN "readIf" ELSE "deleteXml"
    /\ UNCHANGED <<program, dir, queue, cleaner, asked, exported, pending, ifData, index,
                   got, alive, left, loads, restarts>>

(* decompress_file: read, then written anew under the same name.           *)
ReadIf ==
    /\ At("readIf")
    /\ dir[If(asked)] # None
    /\ ifData' = Unpacked(dir[If(asked)])
    /\ pc' = "writeIf"
    /\ UNCHANGED <<program, dir, queue, cleaner, asked, exported, pending, xmlData, index,
                   got, alive, left, loads, restarts>>

(* Mutant: the file is given up before the index is opened on it.          *)
WriteIfAndDelete ==
    /\ At("writeIf")
    /\ dir' = [dir EXCEPT ![If(asked)] = ifData]
    /\ queue' = Append(queue, If(asked))
    /\ pc' = "openIf"
    /\ UNCHANGED <<program, cleaner, asked, exported, pending, read, got, alive,
                   left, loads, restarts>>

WriteIf ==
    /\ At("writeIf")
    /\ dir' = [dir EXCEPT ![If(asked)] = ifData]
    /\ pc' = "openIf"
    /\ UNCHANGED <<program, queue, cleaner, asked, exported, pending, read, got, alive,
                   left, loads, restarts>>

(* loadIndex.  On a missing file OpenCV may leave the index unset.         *)
OpenIndex ==
    /\ At("openIf")
    /\ index' = dir[If(asked)]
    /\ pc' = "deleteXml"
    /\ UNCHANGED <<program, dir, queue, cleaner, asked, exported, pending, xmlData, ifData,
                   got, alive, left, loads, restarts>>

(* get_file_contents throws; so may OpenCV.                                *)
FileMissing ==
    /\ \/ At("readXml") /\ Loading /\ dir[Xml(asked)] = None
       \/ At("readIf") /\ dir[If(asked)] = None
       \/ At("openIf") /\ dir[If(asked)] = None
    /\ alive' = FALSE
    /\ UNCHANGED <<program, dir, queue, cleaner, progress, read, got, left, loads, restarts>>

deleteFile(f) ==
    /\ queue' = Append(queue, f)
    /\ left' = left \ {f}

Finish ==
    /\ pc' = "idle"
    /\ got' = [asked |-> asked, data |-> xmlData, index |-> index]

DeleteXml ==
    /\ At("deleteXml")
    /\ deleteFile(Xml(asked))
    /\ IF asked \in Trainers THEN pc' = "deleteIf" /\ UNCHANGED got ELSE Finish
    /\ UNCHANGED <<program, dir, cleaner, asked, exported, pending, read, alive,
                   loads, restarts>>

DeleteIf ==
    /\ At("deleteIf")
    /\ deleteFile(If(asked))
    /\ Finish
    /\ UNCHANGED <<program, dir, cleaner, asked, exported, pending, read, alive,
                   loads, restarts>>

(* Mutants: the cleaner is not told; the end overtakes the names.          *)
CloseSilently ==
    /\ At("idle")
    /\ pc' = "joining"
    /\ UNCHANGED <<program, dir, queue, cleaner, asked, exported, pending, read, got, alive,
                   left, loads, restarts>>

CloseFirst ==
    /\ At("idle")
    /\ queue' = <<End>> \o queue
    /\ pc' = "joining"
    /\ UNCHANGED <<program, dir, cleaner, asked, exported, pending, read, got, alive, left,
                   loads, restarts>>

(* ~TempDirCleaner, when nothing loads any more, and pthread_join in it.   *)
Close ==
    /\ At("idle")
    /\ queue' = Append(queue, End)
    /\ pc' = "joining"
    /\ UNCHANGED <<program, dir, cleaner, asked, exported, pending, read, got, alive, left,
                   loads, restarts>>

Join ==
    /\ At("joining") /\ cleaner = Ended
    /\ pc' = "gone"
    /\ UNCHANGED <<program, dir, queue, cleaner, asked, exported, pending, read, got, alive,
                   left, loads, restarts>>

(* The thread of the cleaner; no delay is ever asked for.                  *)
CleanerPop ==
    /\ alive /\ cleaner = Waiting /\ queue # <<>>
    /\ cleaner' = IF Head(queue) = End THEN Ended ELSE Head(queue)
    /\ queue' = Tail(queue)
    /\ UNCHANGED <<program, dir, progress, read, got, alive, left, loads, restarts>>

CleanerRemove ==
    /\ alive /\ cleaner \in Files
    /\ dir' = [dir EXCEPT ![cleaner] = None]
    /\ cleaner' = Waiting
    /\ UNCHANGED <<program, queue, progress, read, got, alive, left, loads, restarts>>

(* The next process finds the directory as it is.                          *)
Restart ==
    /\ ~ alive \/ pc = "gone"
    /\ restarts < MaxRestarts /\ restarts' = restarts + 1
    /\ alive' = TRUE /\ pc' = "idle"
    /\ queue' = <<>> /\ cleaner' = Waiting
    /\ left' = {f \in Files : dir[f] # None}
    /\ UNCHANGED <<program, dir, asked, exported, pending, read, got, loads>>

LoadStep ==
    \/ ExportIf \/ ExportXml \/ GiveUp \/ KeepFiles
    \/ ReadXml \/ ReadIf \/ WriteIf \/ OpenIndex \/ FileMissing
    \/ DeleteXml \/ DeleteIf

Clean == CleanerPop \/ CleanerRemove

Next ==
    \/ \E o \in Objects : Ask(o)
    \/ LoadStep \/ Close \/ Join \/ Clean
    \/ Restart

Spec == Init /\ [][Next]_tempVars

(* The threads run; nobody has to ask, to close or to start a process.     *)
FairSpec == Spec /\ WF_tempVars(LoadStep) /\ WF_tempVars(Join) /\ WF_tempVars(Clean)
-----------------------------------------------------------------------------
Steps == {"idle", "exportIf", "exportXml", "readXml", "readIf", "writeIf", "openIf",
          "deleteXml", "deleteIf", "joining", "gone"}

TypeOK ==
    /\ program \in Programs
    /\ dir \in [Files -> Data]
    /\ queue \in Seq(Files \cup {End})
    /\ cleaner \in Files \cup {Waiting, Ended}
    /\ pc \in Steps
    /\ asked \in Objects \cup {"none"}
    /\ pc \notin {"idle", "joining", "gone"} => asked \in Objects
    /\ exported \subseteq Files /\ pending \subseteq exported /\ left \subseteq Files
    /\ xmlData \in Data /\ ifData \in Data /\ index \in Data
    /\ got \in [asked : Objects \cup {"none"}, data : Data, index : Data]
    /\ alive \in BOOLEAN
    /\ loads \in 0 .. MaxLoads /\ restarts \in 0 .. MaxRestarts

(* The files the load still works with.                                    *)
Held ==
    IF pc \in {"idle", "joining", "gone"} THEN {}
    ELSE FilesOf(asked) \ IF pc = "deleteIf" THEN {Xml(asked)} ELSE {}

(* A load that ends well gives the data of the object asked for, never that *)
(* of another object of the same id nor what an earlier load or process    *)
(* left in the directory, decompressed once; its index is the trainer's    *)
(* own, or was never opened because the file was gone.                     *)
GivesWhatWasAsked ==
    got # Nothing =>
        LET own == [of |-> got.asked, packed |-> FALSE] IN
        /\ got.data = own
        /\ got.index \in IF got.asked \in Trainers THEN {own, None} ELSE {None}

(* A file the load exported and still works with is only ever missing if   *)
(* its name was to be deleted already when it was exported: what one load  *)
(* asks to delete comes after its own last use of the file.                *)
LossNeedsPending ==
    \A f \in exported \cap Held : dir[f] = None => f \in pending

(* A file in the directory is in use, to be deleted, or left by a load that *)
(* gave up, kept its files or died; and a process that ended has deleted   *)
(* all it was asked to.                                                    *)
NothingLeftBehind ==
    /\ \A f \in Files : dir[f] # None => f \in Held \cup ToDelete \cup left
    /\ pc = "gone" => queue = <<>> /\ cleaner = Ended

(* The destructor, which waits for the cleaner, returns.                   *)
Joins == pc = "joining" ~> pc = "gone"

(* "if true then the xml and if files will be deleted after the SFBM is    *)
(* loaded" (SerializableFlannBasedMatcher.hpp:45): no file is taken away   *)
(* from the load that exported it.  Not so: FilesStay fails.               *)
FilesStay == \A f \in exported \cap Held : dir[f] # None
=============================================================================
