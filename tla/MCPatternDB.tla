---------------------------- MODULE MCPatternDB ----------------------------
(* Instances of PatternDB for TLC.                                         *)
EXTENDS PatternDB, TLC

MCOne(id) == [i \in {0} |-> id]
MCNone == [i \in {} |-> 1]

MCCommand(kind, user, named, link, ids) ==
    [kind |-> kind, user |-> user, named |-> named, link |-> link, ids |-> ids,
     name |-> "m"]

MCSaves ==
    {MCCommand("patterns", 1, TRUE, FALSE, MCNone),
     MCCommand("train", 1, TRUE, FALSE, MCNone),
     MCCommand("index", 1, FALSE, TRUE, MCNone)}

MCOthers ==
    {MCCommand(k, 1, TRUE, FALSE, MCNone) :
        k \in {"user", "histograms", "landscapes", "scenes", "extract",
               "loadPatterns", "loadHistograms", "loadLandscapes"}}
    \cup {MCCommand("user", 0, TRUE, FALSE, MCNone),
          MCCommand("patterns", 0, FALSE, FALSE, MCNone),
          MCCommand("trainIds", 0, FALSE, FALSE, MCOne(2)),
          MCCommand("index", 1, FALSE, FALSE, MCNone),
          MCCommand("loadIndex", 0, FALSE, FALSE, MCOne(1)),
          MCCommand("loadScene", 0, FALSE, FALSE, MCOne(1))}

MCCommands == MCSaves \cup MCOthers

(* The command line of a program that has not run means nothing.           *)
MCInit == DBInit /\ \A p \in Programs : Kind(p) = "train"
MCSymmetry == Permutations(Programs)
MCNext == DBNext
MCSpec == MCInit /\ [][MCNext]_dbVars
=============================================================================
