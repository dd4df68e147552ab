-------------------------- MODULE PatternDBProofs --------------------------
(***************************************************************************)
(* Proofs about PatternDB, for any programs, command lines and files, and  *)
(* any number of runs.                                                     *)
(***************************************************************************)
EXTENDS PatternDB, FiniteSetTheorems, FunctionTheorems, TLAPS

-----------------------------------------------------------------------------
(* Ranks: counting the members of a set in ascending order                 *)

(* A larger member has a larger rank, and all ranks are below the size.    *)
LEMMA RankGrows ==
    ASSUME NEW S, S \subseteq Nat, IsFiniteSet(S), NEW x \in S, NEW y \in Nat,
           x < y
    PROVE  Rank(S, x) < Rank(S, y)
<1> DEFINE X == {z \in S : z < x}
           Y == {z \in S : z < y}
<1>0. x \in Nat /\ \A z \in S : z \in Nat
  OBVIOUS
<1>1. X \subseteq Y /\ x \in Y /\ x \notin X
  <2>1. ~ (x < x) /\ \A z \in S : z < x => z < y
    BY <1>0
  <2> QED BY <2>1, Zenon
<1>2. IsFiniteSet(Y) /\ IsFiniteSet(X)
  BY FS_Subset
<1>3. Cardinality(X) <= Cardinality(Y) /\ Cardinality(X) # Cardinality(Y)
  BY <1>1, <1>2, FS_Subset
<1>4. Cardinality(X) \in Nat /\ Cardinality(Y) \in Nat
  BY <1>2, FS_CardinalityType
<1> QED BY <1>3, <1>4 DEF Rank

LEMMA RankBounds ==
    ASSUME NEW S, S \subseteq Nat, IsFiniteSet(S), NEW x \in S
    PROVE  Rank(S, x) \in 0 .. Cardinality(S) - 1
<1> DEFINE X == {z \in S : z < x}
<1>1. X \subseteq S /\ x \notin X
  OBVIOUS
<1>2. IsFiniteSet(X) /\ Cardinality(X) <= Cardinality(S)
      /\ Cardinality(X) # Cardinality(S)
  BY <1>1, FS_Subset
<1>3. Cardinality(X) \in Nat /\ Cardinality(S) \in Nat
  BY <1>2, FS_CardinalityType
<1> QED BY <1>2, <1>3 DEF Rank

(* Two members of one rank are one.                                        *)
LEMMA RankInjective ==
    ASSUME NEW S, S \subseteq Nat, IsFiniteSet(S), NEW x \in S, NEW y \in S,
           Rank(S, x) = Rank(S, y)
    PROVE  x = y
<1>1. x \in Nat /\ y \in Nat
  OBVIOUS
<1>2. Rank(S, x) \in Int /\ Rank(S, y) \in Int
  <2>1. Cardinality(S) \in Nat BY FS_CardinalityType
  <2>2. /\ Rank(S, x) \in 0 .. Cardinality(S) - 1
        /\ Rank(S, y) \in 0 .. Cardinality(S) - 1
    BY RankBounds
  <2> QED BY <2>1, <2>2
<1>3. ~ (x < y)
  <2> SUFFICES ASSUME x < y PROVE FALSE OBVIOUS
  <2>1. Rank(S, x) < Rank(S, y) BY <1>1, RankGrows
  <2> QED BY <2>1, <1>2
<1>4. ~ (y < x)
  <2> SUFFICES ASSUME y < x PROVE FALSE OBVIOUS
  <2>1. Rank(S, y) < Rank(S, x) BY <1>1, RankGrows
  <2> QED BY <2>1, <1>2
<1> QED BY <1>1, <1>3, <1>4

(* Every number below the size is a rank, so Ranked is what it says: its   *)
(* i-th entry is the member of rank i.                                     *)
LEMMA RankedIs ==
    ASSUME NEW S, S \subseteq Nat, IsFiniteSet(S)
    PROVE  /\ Cardinality(S) \in Nat
           /\ DOMAIN Ranked(S) = 0 .. Cardinality(S) - 1
           /\ \A i \in DOMAIN Ranked(S) :
                 Ranked(S)[i] \in S /\ Rank(S, Ranked(S)[i]) = i
<1> DEFINE T == 0 .. Cardinality(S) - 1
           f == [x \in S |-> Rank(S, x)]
<1>1. Cardinality(S) \in Nat
  BY FS_CardinalityType
<1>2. IsFiniteSet(T) /\ Cardinality(T) = Cardinality(S)
  <2>1. 0 \in Int /\ Cardinality(S) - 1 \in Int
    BY <1>1
  <2>2. /\ IsFiniteSet(T)
        /\ Cardinality(T) = IF 0 > Cardinality(S) - 1 THEN 0
                            ELSE Cardinality(S) - 1 - 0 + 1
    BY <2>1, FS_Interval, Zenon
  <2> QED BY <1>1, <2>2
<1>3. f \in [S -> T]
  BY RankBounds
<1>4. f \in Injection(S, T)
  BY <1>3, RankInjective DEF Injection, IsInjective
<1>5. f \in Surjection(S, T)
  BY <1>2, <1>4, FS_Injection
<1>6. \A i \in T : \E x \in S : Rank(S, x) = i
  BY <1>5 DEF Surjection
<1>7. DOMAIN Ranked(S) = T
  BY DEF Ranked
<1>8. ASSUME NEW i \in T PROVE Ranked(S)[i] \in S /\ Rank(S, Ranked(S)[i]) = i
  <2>1. Ranked(S)[i] = CHOOSE x \in S : Rank(S, x) = i
    BY DEF Ranked
  <2> QED BY <2>1, <1>6
<1> QED BY <1>1, <1>7, <1>8

(* A member added above all others changes no rank below it.               *)
LEMMA RankKept ==
    ASSUME NEW S, NEW n \in Nat, NEW x \in Nat, x <= n, S \subseteq Nat
    PROVE  Rank(S \cup {n}, x) = Rank(S, x)
<1>1. {y \in S \cup {n} : y < x} = {y \in S : y < x}
  OBVIOUS
<1> QED BY <1>1 DEF Rank
-----------------------------------------------------------------------------
(* What the statements leave of the ranks *)

Rows(owners, n) ==
    [user : owners, category : {"matching", "comparison"},
     trainer : 0 .. n, position : Nat]

LEMMA MatchingFinite ==
    ASSUME NEW rows, Len(rows) \in Nat, NEW u
    PROVE  Matching(rows, u) \subseteq Nat /\ IsFiniteSet(Matching(rows, u))
<1>1. Matching(rows, u) \subseteq 1 .. Len(rows)
  BY DEF Matching
<1>2. IsFiniteSet(1 .. Len(rows))
  BY FS_Interval
<1> QED BY <1>1, <1>2, FS_Subset

(* What a list, a loop and a command line's ids have in common.            *)
Lists == UNION {[0 .. n - 1 -> Nat] : n \in Nat}

(* One pattern has one rank, one rank one pattern.                         *)
LEMMA NthUnique ==
    ASSUME NEW rows, Len(rows) \in Nat, NEW u, NEW i, NEW x, NEW y,
           IsNth(rows, u, i, x), IsNth(rows, u, i, y)
    PROVE  x = y
BY MatchingFinite, RankInjective DEF IsNth

(* getUserPatterns gives the patterns by their ranks.                      *)
LEMMA UserPatternsNth ==
    ASSUME Len(patterns) \in Nat, NEW u
    PROVE  /\ UserPatterns(u) \in Lists
           /\ \A i \in DOMAIN UserPatterns(u) :
                 IsNth(patterns, u, i, UserPatterns(u)[i])
<1> DEFINE S == Matching(patterns, u)
<1>1. S \subseteq Nat /\ IsFiniteSet(S)
  BY MatchingFinite
<1>2. /\ Cardinality(S) \in Nat
      /\ DOMAIN Ranked(S) = 0 .. Cardinality(S) - 1
      /\ \A i \in DOMAIN Ranked(S) :
            Ranked(S)[i] \in S /\ Rank(S, Ranked(S)[i]) = i
  BY <1>1, RankedIs
<1>3. Ranked(S) \in [0 .. Cardinality(S) - 1 -> Nat]
  BY <1>1, <1>2 DEF Ranked
<1> QED BY <1>2, <1>3 DEF UserPatterns, IsNth, Lists

(* A new row, and an update of trainer and position, move no pattern.      *)
LEMMA NthAfterAppend ==
    ASSUME NEW T, NEW rows \in Seq(T), NEW r \in T, NEW u, NEW i, NEW id,
           IsNth(rows, u, i, id)
    PROVE  IsNth(Append(rows, r), u, i, id)
<1> DEFINE n == Len(rows) + 1
           new == Append(rows, r)
<1>1. /\ n \in Nat /\ Len(new) = n
      /\ \A k \in 1 .. Len(rows) : new[k] = rows[k]
  OBVIOUS
<1>2. id \in 1 .. Len(rows) /\ id \in Matching(new, u)
  BY <1>1 DEF IsNth, Matching
<1>3. \/ Matching(new, u) = Matching(rows, u)
      \/ Matching(new, u) = Matching(rows, u) \cup {n}
  BY <1>1 DEF Matching
<1>4. Rank(Matching(rows, u) \cup {n}, id) = Rank(Matching(rows, u), id)
  BY <1>1, <1>2, RankKept, MatchingFinite
<1> QED BY <1>2, <1>3, <1>4 DEF IsNth

LEMMA NthAfterUpdate ==
    ASSUME NEW rows, NEW new, Len(new) = Len(rows),
           \A k \in 1 .. Len(rows) : /\ new[k].user = rows[k].user
                                     /\ new[k].category = rows[k].category,
           NEW u, NEW i, NEW id, IsNth(rows, u, i, id)
    PROVE  IsNth(new, u, i, id)
<1>1. Matching(new, u) = Matching(rows, u)
  BY DEF Matching
<1> QED BY <1>1 DEF IsNth
-----------------------------------------------------------------------------
(* The invariant *)

(* TypeOK, for tables and files, ...                                       *)
TypedData ==
    /\ users \subseteq Nat
    /\ patterns \in Seq(Rows(users, Len(trainers)))
    /\ descriptors \subseteq
          [pattern : 1 .. Len(patterns), file : Files, level : Nat \ {0}]
    /\ trainers \in Seq([user : users, by : Int, ids : Lists])
    /\ level \in [Files -> Nat]
    /\ matcher \in [Names -> [by : Int, ids : Lists]]

(* Where a run's loop is, or will be, over the files of the directory.      *)
OverFiles == {"needUser", "objects", "histograms", "landscapes"}

(* ... and for the programs.                                               *)
TypedControl ==
    /\ command \in [Programs -> Commands]
    /\ DOMAIN at = Programs
    /\ list \in [Programs -> Lists]
    /\ done \in [Programs -> Nat]
    /\ DOMAIN trainer = Programs
    /\ \A p \in Programs :
          /\ at[p] = "store" => User(p) \in users
          /\ at[p] \in OverFiles =>
                \A i \in DOMAIN list[p] : list[p][i] \in Files

DBInv == TypedData /\ TypedControl /\ PositionsInv

(* Tables that change only as a statement changes them keep what holds of  *)
(* the ranks.                                                              *)
Moved ==
    \A u, i, id : IsNth(patterns, u, i, id) => IsNth(patterns', u, i, id)

LEMMA UnchangedMoved ==
    ASSUME UNCHANGED patterns PROVE Moved
BY DEF Moved

LEMMA AppendMoved ==
    ASSUME TypedData, NEW r,
           r \in Rows(users, Len(trainers)), patterns' = Append(patterns, r)
    PROVE  Moved
<1>1. patterns \in Seq(Rows(users, Len(trainers)))
  BY DEF TypedData, Rows
<1>2. \A u, i, id : IsNth(patterns, u, i, id) =>
                      IsNth(Append(patterns, r), u, i, id)
  BY <1>1, NthAfterAppend
<1> QED BY <1>2 DEF Moved

LEMMA TrainedKept ==
    ASSUME Trained, Moved, UNCHANGED <<matcher, trainers>>
    PROVE  Trained'
BY DEF Trained, Made, Moved

LEMMA LinkedKept ==
    ASSUME Linked, UNCHANGED <<patterns, trainers>>
    PROVE  Linked'
BY DEF Linked, Ids

LEMMA LinkedAppend ==
    ASSUME TypedData, Linked, NEW r, r \in Rows(users, Len(trainers)),
           r.trainer = NoTrainer,
           patterns' = Append(patterns, r), UNCHANGED trainers
    PROVE  Linked'
<1>1. Moved
  BY AppendMoved
<1>2. Len(patterns) \in Nat /\ Len(patterns') = Len(patterns) + 1
      /\ patterns'[Len(patterns) + 1] = r
      /\ \A id \in 1 .. Len(patterns) : patterns'[id] = patterns[id]
  BY DEF TypedData
<1>3. SUFFICES ASSUME NEW id \in 1 .. Len(patterns'),
                      patterns'[id].trainer # NoTrainer
               PROVE  IsNth(patterns', trainers[patterns'[id].trainer].user,
                            patterns'[id].position, id)
  BY DEF Linked, Ids
<1>4. id \in 1 .. Len(patterns) /\ patterns'[id] = patterns[id]
  BY <1>2, <1>3
<1> QED BY <1>1, <1>3, <1>4 DEF Linked, Ids, Moved

(* The other programs, and this one anywhere but between its index and its *)
(* links.                                                                  *)
LEMMA LinkingKept ==
    ASSUME TypedControl, Linking, Moved, NEW p \in Programs, NEW where,
           where \notin {"lookup", "link"},
           \/ at' = [at EXCEPT ![p] = where]
           \/ UNCHANGED at,
           at[p] \notin {"lookup", "link"} \/ at' # at,
           \A q \in Programs \ {p} : /\ trainer'[q] = trainer[q]
                                     /\ list'[q] = list[q]
                                     /\ command'[q] = command[q],
           UNCHANGED trainers
    PROVE  Linking'
<1>1. at'[p] \notin {"lookup", "link"}
  BY DEF TypedControl
<1>2. \A q \in Programs \ {p} : at'[q] = at[q]
  BY DEF TypedControl
<1>3. SUFFICES ASSUME NEW q \in Programs, at'[q] \in {"lookup", "link"}
               PROVE  /\ trainer'[q] \in 1 .. Len(trainers)
                      /\ at'[q] = "lookup" =>
                            trainers[trainer'[q]].user = command'[q].user
                      /\ at'[q] = "link" =>
                            \A i \in DOMAIN list'[q] :
                               IsNth(patterns', trainers[trainer'[q]].user, i,
                                     list'[q][i])
  BY DEF Linking, User
<1>4. q # p /\ at'[q] = at[q] /\ trainer'[q] = trainer[q]
      /\ list'[q] = list[q] /\ command'[q] = command[q]
  BY <1>1, <1>2, <1>3
<1> QED BY <1>3, <1>4 DEF Linking, Moved, User
-----------------------------------------------------------------------------
(* Types *)

LEMMA SeqWiden ==
    ASSUME NEW S, NEW T, S \subseteq T, NEW s \in Seq(S)
    PROVE  s \in Seq(T)
OBVIOUS

LEMMA SeqElements ==
    ASSUME NEW S, NEW s \in Seq(S)
    PROVE  Len(s) \in Nat /\ \A t \in 1 .. Len(s) : s[t] \in S
OBVIOUS

LEMMA NothingListed == Nothing \in Lists /\ DOMAIN Nothing = {}
<1>1. DOMAIN Ranked({}) = 0 .. 0 - 1 /\ 0 .. 0 - 1 = {}
  BY FS_EmptySet DEF Ranked
<1>2. Ranked({}) \in [0 .. 0 - 1 -> Nat]
  BY <1>1 DEF Ranked
<1> QED BY <1>1, <1>2 DEF Nothing, Lists

LEMMA InitTyped == DBInit => DBInv
<1> SUFFICES ASSUME DBInit PROVE DBInv
  OBVIOUS
<1>1. Nothing \in Lists /\ [i \in {} |-> 0] \in Lists
  <2>1. [i \in {} |-> 0] \in [0 .. 0 - 1 -> Nat]
    OBVIOUS
  <2> QED BY <2>1, NothingListed DEF Lists
<1>2. TypedData
  BY <1>1 DEF DBInit, TypedData, NoFile, ByIds
<1>3. TypedControl
  BY <1>1 DEF DBInit, TypedControl, OverFiles
<1>4. Linked /\ Linking
  BY DEF DBInit, Linked, Linking, Ids
<1>5. Trained
  BY DEF DBInit, Trained, Made, NoFile
<1> QED BY <1>2, <1>3, <1>4, <1>5 DEF DBInv, PositionsInv

(* The type invariant of the runs is part of it.                           *)
LEMMA InvTyped == DBInv => TypeOK
<1> SUFFICES ASSUME DBInv PROVE TypeOK
  OBVIOUS
<1>1. Len(trainers) \in Nat
      /\ \A t \in 1 .. Len(trainers) : trainers[t].user \in users
  <2>1. trainers \in Seq([user : users, by : Int, ids : Lists])
    BY DEF DBInv, TypedData
  <2>2. Len(trainers) \in Nat
        /\ \A t \in 1 .. Len(trainers) :
              trainers[t] \in [user : users, by : Int, ids : Lists]
    BY <2>1, SeqElements
  <2>3. \A r \in [user : users, by : Int, ids : Lists] : r.user \in users
    OBVIOUS
  <2> QED BY <2>2, <2>3
<1>2. ASSUME NEW p \in Programs, at[p] = "link"
      PROVE  /\ trainer[p] \in 1 .. Len(trainers)
             /\ \A i \in DOMAIN list[p] : list[p][i] \in Ids
  BY <1>2 DEF DBInv, PositionsInv, Linking, IsNth, Matching, Ids
<1> QED BY <1>1, <1>2 DEF DBInv, TypedData, TypeOK, Ids, Rows
-----------------------------------------------------------------------------
(* Steps *)

(* More users, the same rows.                                              *)
LEMMA UsersGrow ==
    ASSUME TypedData, users \subseteq users', users' \subseteq Nat,
           UNCHANGED <<patterns, descriptors, trainers, level, matcher>>
    PROVE  TypedData'
<1>1. Rows(users, Len(trainers)) \subseteq Rows(users', Len(trainers))
  BY DEF Rows
<1>2. patterns \in Seq(Rows(users', Len(trainers)))
  BY <1>1, SeqWiden DEF TypedData
<1>3. [user : users, by : Int, ids : Lists]
         \subseteq [user : users', by : Int, ids : Lists]
  OBVIOUS
<1>4. trainers \in Seq([user : users', by : Int, ids : Lists])
  BY <1>3, SeqWiden DEF TypedData
<1> QED BY <1>2, <1>4 DEF TypedData

(* A new row.                                                              *)
LEMMA RowAdded ==
    ASSUME TypedData, NEW r, r \in Rows(users, Len(trainers)),
           patterns' = Append(patterns, r), level' \in [Files -> Nat],
           descriptors' \subseteq [pattern : 1 .. Len(patterns) + 1,
                                  file : Files, level : Nat \ {0}],
           UNCHANGED <<users, trainers, matcher>>
    PROVE  TypedData'
<1>1. Len(patterns') = Len(patterns) + 1
      /\ patterns' \in Seq(Rows(users, Len(trainers)))
  BY DEF TypedData
<1> QED BY <1>1 DEF TypedData

(* A program moves on, or its loop does.                                   *)
LEMMA ControlMoves ==
    ASSUME TypedControl, NEW p \in Programs, NEW where,
           at' = [at EXCEPT ![p] = where] \/ UNCHANGED at,
           where = "store" => User(p) \in users',
           where \in OverFiles =>
               \A i \in DOMAIN list[p] : list[p][i] \in Files,
           UNCHANGED done \/ done' = [done EXCEPT ![p] = @ + 1],
           users \subseteq users', DOMAIN trainer' = Programs,
           UNCHANGED <<command, list>>
    PROVE  TypedControl'
<1>1. done' \in [Programs -> Nat]
  BY DEF TypedControl
<1>2. DOMAIN at' = Programs
  BY DEF TypedControl
<1>3. ASSUME NEW q \in Programs
      PROVE  /\ at'[q] = "store" => command[q].user \in users'
             /\ at'[q] \in OverFiles =>
                   \A i \in DOMAIN list[q] : list[q][i] \in Files
  <2>1. CASE at'[q] = at[q]
    BY <2>1 DEF TypedControl, User
  <2>2. CASE at'[q] # at[q]
    <3>1. q = p /\ at'[q] = where
      BY <2>2 DEF TypedControl
    <3> QED BY <3>1 DEF User
  <2> QED BY <2>1, <2>2
<1> QED BY <1>1, <1>2, <1>3 DEF TypedControl, User

(* Places a step leads to that say nothing of positions.                   *)
LEMMA Plain ==
    ASSUME TypedControl, Linking, Moved, NEW p \in Programs, NEW where,
           where \notin {"lookup", "link"}, where = "store" => User(p) \in users',
           \/ at' = [at EXCEPT ![p] = where]
           \/ UNCHANGED at /\ at[p] \notin {"lookup", "link"},
           where \in OverFiles =>
               \A i \in DOMAIN list[p] : list[p][i] \in Files,
           UNCHANGED done \/ done' = [done EXCEPT ![p] = @ + 1],
           users \subseteq users', UNCHANGED <<trainers, trainer, command, list>>
    PROVE  TypedControl' /\ Linking'
<1>1. TypedControl'
  <2>1. DOMAIN trainer' = Programs BY DEF TypedControl
  <2> QED BY <2>1, ControlMoves
<1>2. at[p] \notin {"lookup", "link"} \/ at' # at
  BY DEF TypedControl
<1> QED BY <1>1, <1>2, LinkingKept

(* Tables that stay leave only the programs to look at.                    *)
LEMMA TablesKept ==
    ASSUME DBInv, UNCHANGED <<patterns, descriptors, trainers, level, matcher>>,
           users \subseteq users', users' \subseteq Nat
    PROVE  TypedData' /\ Linked' /\ Trained' /\ Moved
<1>1. Moved
  BY UnchangedMoved
<1> QED BY <1>1, UsersGrow, LinkedKept, TrainedKept DEF DBInv, PositionsInv

LEMMA FilesRanked ==
    /\ Ranked(Files) \in Lists
    /\ \A i \in DOMAIN Ranked(Files) : Ranked(Files)[i] \in Files
<1>1. Files \subseteq Nat /\ IsFiniteSet(Files)
  <2>1. Files = 1 .. Cardinality(Files) /\ IsFiniteSet(Files)
    BY DBAssumption, Zenon
  <2>2. Cardinality(Files) \in Nat
    BY <2>1, FS_CardinalityType
  <2>3. 1 .. Cardinality(Files) \subseteq Nat
    BY <2>2
  <2> QED BY <2>1, <2>3, Zenon
<1>2. /\ Cardinality(Files) \in Nat
      /\ DOMAIN Ranked(Files) = 0 .. Cardinality(Files) - 1
      /\ \A i \in DOMAIN Ranked(Files) : Ranked(Files)[i] \in Files
  BY <1>1, RankedIs
<1>3. Ranked(Files) \in [0 .. Cardinality(Files) - 1 -> Nat]
  BY <1>1, <1>2 DEF Ranked
<1> QED BY <1>2, <1>3 DEF Lists

LEMMA StartKeeps ==
    ASSUME DBInv, NEW p \in Programs, NEW c \in Commands, Start(p, c)
    PROVE  DBInv'
<1> DEFINE where == CASE c.kind = "patterns" /\ ~ c.named -> "objects"
                      [] c.kind = "scenes"                -> "objects"
                      [] c.kind \in {"patterns", "index"} -> "needUser"
                      [] OTHER                            -> c.kind
<1>1. users \subseteq Nat
  BY DEF DBInv, TypedData
<1>2. TypedData' /\ Linked' /\ Trained' /\ Moved
  BY <1>1, TablesKept DEF Start, tables, disk
<1>3. where \notin {"lookup", "link", "store"} /\ at' = [at EXCEPT ![p] = where]
  <2>1. c.kind \in Kinds
    BY DBAssumption
  <2>2. where \in Kinds \cup {"objects", "needUser"}
    BY <2>1, Zenon
  <2>3. where \notin {"lookup", "link", "store"}
    BY <2>2 DEF Kinds
  <2> QED BY <2>3 DEF Start, Goto
<1> HIDE DEF where
<1>4. TypedControl'
  <2>1. /\ command' \in [Programs -> Commands]
        /\ DOMAIN at' = Programs
        /\ list' \in [Programs -> Lists]
        /\ done' \in [Programs -> Nat]
        /\ DOMAIN trainer' = Programs
    BY <1>3, FilesRanked DEF DBInv, TypedControl, Start
  <2>2. ASSUME NEW q \in Programs
        PROVE  /\ at'[q] = "store" => command'[q].user \in users'
               /\ at'[q] \in OverFiles =>
                     \A i \in DOMAIN list'[q] : list'[q][i] \in Files
    <3>1. CASE q = p
      BY <3>1, <1>3, FilesRanked DEF DBInv, TypedControl, Start
    <3>2. CASE q # p
      <4>1. /\ at'[q] = at[q] /\ command'[q] = command[q]
            /\ list'[q] = list[q] /\ users' = users
        BY <3>2, <1>3 DEF DBInv, TypedControl, Start, tables
      <4> QED BY <4>1 DEF DBInv, TypedControl, User
    <3> QED BY <3>1, <3>2
  <2> QED BY <2>1, <2>2 DEF TypedControl, User
<1>5. Linking'
  <2>1. at[p] \notin {"lookup", "link"}
    BY DEF Start
  <2>2. \A q \in Programs \ {p} : /\ trainer'[q] = trainer[q]
                                  /\ list'[q] = list[q]
                                  /\ command'[q] = command[q]
    BY DEF Start, DBInv, TypedControl
  <2>3. UNCHANGED trainers
    BY DEF Start, tables
  <2> QED BY <1>2, <1>3, <2>1, <2>2, <2>3, LinkingKept DEF DBInv, PositionsInv
<1> QED BY <1>2, <1>4, <1>5 DEF DBInv, PositionsInv

(* saveUser and retrieveUser: a user is added, or nothing is.              *)
LEMMA UserStepsKeep ==
    ASSUME DBInv, NEW p \in Programs, SaveUser(p) \/ NeedUser(p)
    PROVE  DBInv'
<1>1. User(p) \in Nat /\ users \subseteq Nat
  BY DBAssumption DEF DBInv, TypedControl, TypedData, User
<1>2. users \subseteq users' /\ users' \subseteq Nat
  BY <1>1 DEF SaveUser, NeedUser
<1>3. TypedData' /\ Linked' /\ Trained' /\ Moved
  BY <1>2, TablesKept DEF SaveUser, NeedUser, disk
<1>4. UNCHANGED <<trainers, trainer, command, list, done>>
  BY DEF SaveUser, NeedUser
<1>5. PICK where \in {"idle", "store", "objects"} :
         /\ at' = [at EXCEPT ![p] = where]
         /\ where = "store" => User(p) \in users'
         /\ where = "objects" => at[p] = "needUser"
  BY DEF SaveUser, NeedUser, End, Goto, Doing
<1>6. where \in OverFiles => \A i \in DOMAIN list[p] : list[p][i] \in Files
  BY <1>5 DEF DBInv, TypedControl, OverFiles
<1>7. TypedControl' /\ Linking'
  BY <1>2, <1>3, <1>4, <1>5, <1>6, Plain DEF DBInv, PositionsInv
<1> QED BY <1>3, <1>7 DEF DBInv, PositionsInv

(* The steps that change no table and go nowhere in particular: the loop's *)
(* end, a training, an extraction, a load.                                 *)
LEMMA QuietStepsKeep ==
    ASSUME DBInv, NEW p \in Programs,
           TypedData', Linked', Trained', Moved,
           at' = [at EXCEPT ![p] = "idle"],
           UNCHANGED <<users, trainers, trainer, command, list, done>>
    PROVE  DBInv'
<1>1. "idle" \notin OverFiles
  BY DEF OverFiles
<1>2. "idle" \notin {"lookup", "link"} /\ "idle" # "store"
  OBVIOUS
<1>3. TypedControl /\ Linking /\ users \subseteq users'
  BY DEF DBInv, PositionsInv
<1>4. TypedControl' /\ Linking'
  BY <1>1, <1>2, <1>3, Plain
<1> QED BY <1>4 DEF DBInv, PositionsInv

LEMMA EndLoopKeeps ==
    ASSUME DBInv, NEW p \in Programs, EndLoop(p) \/ Load(p)
    PROVE  DBInv'
<1>1. users \subseteq Nat
  BY DEF DBInv, TypedData
<1>2. TypedData' /\ Linked' /\ Trained' /\ Moved
  BY <1>1, TablesKept DEF EndLoop, Load, tables, disk
<1> QED BY <1>2, QuietStepsKeep DEF EndLoop, Load, End, Goto, tables

(* PatternExtractor's new files are not compressed.                        *)
LEMMA ExtractKeeps ==
    ASSUME DBInv, NEW p \in Programs, Extract(p)
    PROVE  DBInv'
<1>1. UNCHANGED <<users, patterns, descriptors, trainers, matcher, trainer,
                  command, list, done>>
  BY DEF Extract, tables
<1>2. level' \in [Files -> Nat]
  BY DEF Extract
<1>3. TypedData'
  BY <1>1, <1>2 DEF DBInv, TypedData
<1>4. Linked' /\ Trained' /\ Moved
  BY <1>1, UnchangedMoved, LinkedKept, TrainedKept DEF DBInv, PositionsInv
<1> QED BY <1>1, <1>3, <1>4, QuietStepsKeep DEF Extract, End, Goto

(* PatternTrainer: a user's patterns are asked for by their ranks.         *)
LEMMA TrainKeeps ==
    ASSUME DBInv, NEW p \in Programs, Train(p)
    PROVE  DBInv'
<1> DEFINE c   == command[p]
           ids == Asked(c)
           by  == IF c.kind = "train" THEN c.user ELSE ByIds
<1>1. UNCHANGED <<users, patterns, descriptors, trainers, level, trainer,
                  command, list, done>>
  BY DEF Train, tables
<1>2. Len(patterns) \in Nat
  BY DEF DBInv, TypedData
<1>3. c \in Commands
  BY DEF DBInv, TypedControl
<1>4. by \in Int /\ ids \in Lists
  <2>1. c.user \in Nat /\ c.ids \in Lists
    <3>1. IsFiniteSet(DOMAIN c.ids) /\ c.user \in Nat
          /\ c.ids \in [0 .. Cardinality(DOMAIN c.ids) - 1 -> Nat \ {0}]
      BY <1>3, DBAssumption
    <3>2. Cardinality(DOMAIN c.ids) \in Nat
      BY <3>1, FS_CardinalityType
    <3>3. c.ids \in [0 .. Cardinality(DOMAIN c.ids) - 1 -> Nat]
      BY <3>1
    <3> QED BY <3>1, <3>2, <3>3 DEF Lists
  <2>2. UserPatterns(c.user) \in Lists
    BY <1>2, UserPatternsNth
  <2> QED BY <2>1, <2>2 DEF Asked, ByIds
<1>5. Made(patterns, [by |-> by, ids |-> ids])
  <2>1. CASE c.kind = "train"
    <3>1. \A i \in DOMAIN UserPatterns(c.user) :
             IsNth(patterns, c.user, i, UserPatterns(c.user)[i])
      BY <1>2, UserPatternsNth
    <3> QED BY <2>1, <3>1 DEF Made, Asked
  <2>2. CASE c.kind # "train"
    BY <2>2 DEF Made
  <2> QED BY <2>1, <2>2
<1>6. \/ UNCHANGED matcher
      \/ matcher' = [matcher EXCEPT ![c.name] = [by |-> by, ids |-> ids]]
  BY DEF Train
<1> HIDE DEF by, ids
<1>7. \A n \in Names : matcher'[n] \in {matcher[n], [by |-> by, ids |-> ids]}
  BY <1>6 DEF DBInv, TypedData
<1>8. TypedData'
  <2>1. [by |-> by, ids |-> ids] \in [by : Int, ids : Lists]
    BY <1>4
  <2>2. matcher' \in [Names -> [by : Int, ids : Lists]]
    <3> HIDE DEF c
    <3> QED BY <1>6, <2>1 DEF DBInv, TypedData
  <2> QED BY <1>1, <2>2 DEF DBInv, TypedData
<1>9. Trained'
  <2>1. \A n \in Names : Made(patterns, matcher'[n])
    BY <1>5, <1>7 DEF DBInv, PositionsInv, Trained
  <2> QED BY <1>1, <2>1 DEF DBInv, PositionsInv, Trained, Made
<1>10. Linked' /\ Moved
  BY <1>1, UnchangedMoved, LinkedKept DEF DBInv, PositionsInv
<1>11. at' = [at EXCEPT ![p] = "idle"]
  BY DEF Train, End, Goto
<1> QED BY <1>1, <1>8, <1>9, <1>10, <1>11, QuietStepsKeep

(* A loop that is not through has an object to go on with.                 *)
LEMMA CurrentListed ==
    ASSUME TypedControl, NEW p \in Programs, More(p)
    PROVE  done[p] \in DOMAIN list[p]
<1>1. PICK n \in Nat : list[p] \in [0 .. n - 1 -> Nat]
  BY DEF TypedControl, Lists
<1>2. Cardinality(0 .. n - 1) = n
  <2>1. 0 \in Int /\ n - 1 \in Int
    OBVIOUS
  <2>2. Cardinality(0 .. n - 1) = IF 0 > n - 1 THEN 0 ELSE n - 1 - 0 + 1
    BY <2>1, FS_Interval, Zenon
  <2> QED BY <2>2
<1>3. DOMAIN list[p] = 0 .. n - 1
  BY <1>1
<1>4. done[p] \in Nat /\ done[p] < n
  BY <1>2, <1>3 DEF TypedControl, More, Length
<1> QED BY <1>3, <1>4

LEMMA FileCompressed ==
    ASSUME TypedData, TypedControl, NEW p \in Programs, at[p] \in OverFiles,
           More(p), compress_file(Current(p))
    PROVE  /\ Current(p) \in Files
           /\ level' \in [Files -> Nat]
           /\ level[Current(p)] + 1 \in Nat \ {0}
<1>1. Current(p) \in Files
  BY CurrentListed DEF TypedControl, Current
<1>2. level \in [Files -> Nat]
  BY DEF TypedData
<1> HIDE DEF Current
<1> QED BY <1>1, <1>2 DEF compress_file

(* A new row refers to no trainer.                                         *)
LEMMA RowKeeps ==
    ASSUME TypedData, Linked, Trained, NEW u \in users,
           NEW category \in {"matching", "comparison"},
           patterns' = Append(patterns, Row(u, category)),
           UNCHANGED <<trainers, matcher>>
    PROVE  /\ Row(u, category) \in Rows(users, Len(trainers))
           /\ Linked' /\ Trained' /\ Moved
<1>1. Len(trainers) \in Nat
  BY DEF TypedData
<1>2. /\ Row(u, category) \in Rows(users, Len(trainers))
      /\ Row(u, category).trainer = NoTrainer
  BY <1>1 DEF Row, Rows, NoTrainer
<1>3. Linked'
  BY <1>2, LinkedAppend
<1>4. Moved
  BY <1>2, AppendMoved
<1> QED BY <1>2, <1>3, <1>4, TrainedKept

(* Where a save of an object leaves the program.                           *)
LEMMA SaveMoves ==
    ASSUME TypedControl, Linking, Moved, NEW p \in Programs,
           at[p] \in OverFiles,
           at' = [at EXCEPT ![p] = "idle"] \/ UNCHANGED at,
           UNCHANGED done \/ done' = [done EXCEPT ![p] = @ + 1],
           users \subseteq users', UNCHANGED <<trainers, trainer, command, list>>
    PROVE  TypedControl' /\ Linking'
<1>1. "idle" \notin {"lookup", "link"} \cup OverFiles /\ "idle" # "store"
      /\ at[p] \notin {"lookup", "link"}
  BY DEF OverFiles
<1> QED BY <1>1, Plain

LEMMA AfterFailureMoves ==
    ASSUME NEW p \in Programs, AfterFailure(p)
    PROVE  /\ at' = [at EXCEPT ![p] = "idle"] \/ UNCHANGED at
           /\ UNCHANGED done \/ done' = [done EXCEPT ![p] = @ + 1]
BY DEF AfterFailure, End, Goto, Next1

LEMMA SavePatternKeeps ==
    ASSUME DBInv, NEW p \in Programs, SavePattern(p) \/ SavePatternFails(p)
    PROVE  DBInv'
<1>1. at[p] \in OverFiles /\ More(p)
  BY DEF SavePattern, SavePatternFails, Doing, OverFiles
<1>2. UNCHANGED <<users, trainers, matcher, trainer, command, list>>
  BY DEF SavePattern, SavePatternFails
<1>3. /\ at' = [at EXCEPT ![p] = "idle"] \/ UNCHANGED at
      /\ UNCHANGED done \/ done' = [done EXCEPT ![p] = @ + 1]
  BY AfterFailureMoves DEF SavePattern, SavePatternFails, Next1
<1>4. TypedData' /\ Linked' /\ Trained' /\ Moved
  <2>1. CASE UNCHANGED <<patterns, level>> /\ UNCHANGED descriptors
    <3>1. users \subseteq Nat /\ users \subseteq users' /\ users' \subseteq Nat
      BY <1>2 DEF DBInv, TypedData
    <3> QED BY <1>2, <2>1, <3>1, TablesKept
  <2>2. CASE /\ Owner(p) \in users
             /\ patterns' = Append(patterns, Row(Owner(p), "matching"))
             /\ compress_file(Current(p))
             /\ \/ UNCHANGED descriptors
                \/ descriptors' = descriptors \cup
                      {[pattern |-> Len(patterns) + 1, file |-> Current(p),
                        level |-> level[Current(p)] + 1]}
    <3>1. /\ Current(p) \in Files
          /\ level' \in [Files -> Nat]
          /\ level[Current(p)] + 1 \in Nat \ {0}
      BY <1>1, <2>2, FileCompressed DEF DBInv
    <3>2. /\ Row(Owner(p), "matching") \in Rows(users, Len(trainers))
          /\ Linked' /\ Trained' /\ Moved
      BY <1>2, <2>2, RowKeeps DEF DBInv, PositionsInv
    <3>3. /\ Len(patterns) \in Nat
          /\ descriptors \subseteq [pattern : 1 .. Len(patterns), file : Files,
                                    level : Nat \ {0}]
      BY DEF DBInv, TypedData
    <3> HIDE DEF Current
    <3>4. descriptors \subseteq [pattern : 1 .. Len(patterns) + 1,
                                 file : Files, level : Nat \ {0}]
      BY <3>3
    <3>5. [pattern |-> Len(patterns) + 1, file |-> Current(p),
           level |-> level[Current(p)] + 1]
             \in [pattern : 1 .. Len(patterns) + 1, file : Files,
                  level : Nat \ {0}]
      BY <3>1, <3>3
    <3>6. descriptors' \subseteq [pattern : 1 .. Len(patterns) + 1,
                                  file : Files, level : Nat \ {0}]
      BY <2>2, <3>4, <3>5
    <3>7. TypedData'
      BY <1>2, <2>2, <3>1, <3>2, <3>6, RowAdded DEF DBInv
    <3> QED BY <3>2, <3>7
  <2> QED BY <2>1, <2>2 DEF SavePattern, SavePatternFails
<1>5. TypedControl' /\ Linking'
  BY <1>1, <1>2, <1>3, <1>4, SaveMoves DEF DBInv, PositionsInv
<1> QED BY <1>4, <1>5 DEF DBInv, PositionsInv

LEMMA StoreSceneKeeps ==
    ASSUME DBInv, NEW p \in Programs, StoreScene(p)
    PROVE  DBInv'
<1>1. at[p] \in OverFiles /\ More(p) /\ compress_file(Current(p))
  BY DEF StoreScene, Doing, OverFiles
<1>2. UNCHANGED <<users, patterns, descriptors, trainers, matcher, trainer,
                  command, list>>
  BY DEF StoreScene
<1>3. /\ at' = [at EXCEPT ![p] = "idle"] \/ UNCHANGED at
      /\ UNCHANGED done \/ done' = [done EXCEPT ![p] = @ + 1]
  BY DEF StoreScene, End, Goto, Next1
<1>4. level' \in [Files -> Nat]
  BY <1>1, FileCompressed DEF DBInv
<1>5. TypedData'
  BY <1>2, <1>4 DEF DBInv, TypedData
<1>6. Linked' /\ Trained' /\ Moved
  BY <1>2, UnchangedMoved, LinkedKept, TrainedKept DEF DBInv, PositionsInv
<1>7. TypedControl' /\ Linking'
  BY <1>1, <1>2, <1>3, <1>6, SaveMoves DEF DBInv, PositionsInv
<1> QED BY <1>5, <1>6, <1>7 DEF DBInv, PositionsInv

(* saveHORL: first perhaps a user, then a histogram's row.                 *)
LEMMA SaveHORLKeeps ==
    ASSUME DBInv, NEW p \in Programs, SaveHORL(p)
    PROVE  DBInv'
<1> DEFINE category == HORLCategory(Kind(p))
<1>1. at[p] \in OverFiles
  BY DEF SaveHORL, OverFiles
<1>2. UNCHANGED <<descriptors, trainers, level, matcher, trainer, command, list>>
  BY DEF SaveHORL, disk
<1>3. /\ at' = [at EXCEPT ![p] = "idle"] \/ UNCHANGED at
      /\ UNCHANGED done \/ done' = [done EXCEPT ![p] = @ + 1]
  BY AfterFailureMoves DEF SaveHORL, End, Goto
<1>4. Owner(p) \in Nat
  BY DBAssumption DEF DBInv, TypedControl, Owner, User, NoUser
<1>5. users \subseteq users' /\ users' \subseteq Nat
  BY <1>4 DEF SaveHORL, DBInv, TypedData
<1>6. TypedData' /\ Linked' /\ Trained' /\ Moved
  <2>1. CASE UNCHANGED patterns
    BY <1>2, <1>5, <2>1, TablesKept
  <2>2. CASE /\ HasCategory(category)
             /\ users' = users \cup {Owner(p)}
             /\ patterns' = Append(patterns, Row(Owner(p), category))
    <3>1. category = "comparison"
      BY <2>2 DEF HasCategory, Categories, HORLCategory
    <3>2. Rows(users, Len(trainers)) \subseteq Rows(users', Len(trainers))
      BY <1>5 DEF Rows
    <3>3. patterns \in Seq(Rows(users', Len(trainers)))
      BY <3>2, SeqWiden DEF DBInv, TypedData
    <3>4. Row(Owner(p), category) \in Rows(users', Len(trainers))
      <4>1. Len(trainers) \in Nat
        BY DEF DBInv, TypedData
      <4> QED BY <2>2, <3>1, <4>1 DEF Row, Rows, NoTrainer
    <3>5. /\ Len(patterns) \in Nat /\ Len(patterns') = Len(patterns) + 1
          /\ patterns' \in Seq(Rows(users', Len(trainers)))
          /\ patterns'[Len(patterns) + 1] = Row(Owner(p), category)
          /\ \A id \in 1 .. Len(patterns) : patterns'[id] = patterns[id]
      BY <2>2, <3>3, <3>4
    <3>6. Moved
      BY <2>2, <3>3, <3>4, NthAfterAppend DEF Moved
    <3>7. Linked'
      <4>1. SUFFICES ASSUME NEW id \in 1 .. Len(patterns'),
                            patterns'[id].trainer # NoTrainer
                     PROVE  IsNth(patterns',
                                  trainers[patterns'[id].trainer].user,
                                  patterns'[id].position, id)
        BY <1>2 DEF Linked, Ids
      <4>2. id \in 1 .. Len(patterns) /\ patterns'[id] = patterns[id]
        BY <3>5, <4>1 DEF Row
      <4> QED BY <3>6, <4>1, <4>2 DEF DBInv, PositionsInv, Linked, Ids, Moved
    <3>8. Trained'
      BY <1>2, <3>6, TrainedKept DEF DBInv, PositionsInv
    <3>9. TypedData'
      <4>1. descriptors \subseteq [pattern : 1 .. Len(patterns) + 1,
                                   file : Files, level : Nat \ {0}]
        BY <3>5 DEF DBInv, TypedData
      <4>2. [user : users, by : Int, ids : Lists]
               \subseteq [user : users', by : Int, ids : Lists]
        BY <1>5
      <4>3. trainers \in Seq([user : users', by : Int, ids : Lists])
        BY <4>2, SeqWiden DEF DBInv, TypedData
      <4> QED BY <1>2, <1>5, <3>5, <4>1, <4>3 DEF DBInv, TypedData
    <3> QED BY <3>6, <3>7, <3>8, <3>9
  <2> QED BY <2>1, <2>2 DEF SaveHORL
<1>7. TypedControl' /\ Linking'
  BY <1>1, <1>2, <1>3, <1>5, <1>6, SaveMoves DEF DBInv, PositionsInv
<1> QED BY <1>6, <1>7 DEF DBInv, PositionsInv

(* storeSFBM: the new trainer has the patterns its files were trained on.  *)
LEMMA StoreSFBMKeeps ==
    ASSUME DBInv, NEW p \in Programs, StoreSFBM(p)
    PROVE  DBInv'
<1> DEFINE m == matcher[command[p].name]
           new == [user |-> User(p), by |-> m.by, ids |-> m.ids]
<1>1. UNCHANGED <<users, patterns, descriptors, level, matcher, command, list,
                  done>>
      /\ at[p] = "store"
  BY DEF StoreSFBM, Doing, disk
<1>2. CASE UNCHANGED <<trainers, trainer>> /\ End(p, "failed")
  <2>1. users \subseteq Nat
    BY DEF DBInv, TypedData
  <2>2. TypedData' /\ Linked' /\ Trained' /\ Moved
    BY <1>1, <1>2, <2>1, TablesKept
  <2> QED BY <1>1, <1>2, <2>2, QuietStepsKeep DEF End, Goto
<1>3. CASE /\ trainers' = Append(trainers, new)
           /\ trainer' = [trainer EXCEPT ![p] = Len(trainers) + 1]
           /\ Goto(p, "lookup") \/ Goto(p, "idle")
  <2>1. m \in [by : Int, ids : Lists] /\ Made(patterns, m)
    BY DBAssumption
       DEF DBInv, TypedData, TypedControl, PositionsInv, Trained
  <2>2. new \in [user : users, by : Int, ids : Lists]
        /\ new.user = User(p) /\ Made(patterns, new)
    <3>1. User(p) \in users
      BY <1>1 DEF DBInv, TypedControl
    <3> HIDE DEF m
    <3> QED BY <2>1, <3>1 DEF Made
  <2> HIDE DEF new
  <2>3. trainers \in Seq([user : users, by : Int, ids : Lists])
    BY DEF DBInv, TypedData
  <2>4. /\ Len(trainers) \in Nat /\ Len(trainers') = Len(trainers) + 1
        /\ trainers' \in Seq([user : users, by : Int, ids : Lists])
        /\ trainers'[Len(trainers) + 1] = new
        /\ \A t \in 1 .. Len(trainers) : trainers'[t] = trainers[t]
    BY <1>3, <2>2, <2>3
  <2>5. TypedData'
    <3>1. Rows(users, Len(trainers)) \subseteq Rows(users, Len(trainers'))
      BY <2>4 DEF Rows
    <3>2. patterns \in Seq(Rows(users, Len(trainers')))
      BY <3>1, SeqWiden DEF DBInv, TypedData
    <3> QED BY <1>1, <2>4, <3>2 DEF DBInv, TypedData
  <2>6. Linked'
    <3>1. \A id \in 1 .. Len(patterns) : patterns[id].trainer # NoTrainer =>
             trainers'[patterns[id].trainer] = trainers[patterns[id].trainer]
      <4>1. ASSUME NEW id \in 1 .. Len(patterns), patterns[id].trainer # NoTrainer
            PROVE  patterns[id].trainer \in 1 .. Len(trainers)
        <5>1. patterns[id] \in Rows(users, Len(trainers))
          BY SeqElements DEF DBInv, TypedData
        <5> QED BY <2>4, <4>1, <5>1 DEF Rows, NoTrainer
      <4> QED BY <2>4, <4>1
    <3> QED BY <1>1, <3>1 DEF DBInv, PositionsInv, Linked, Ids
  <2>7. Trained'
    <3>1. \A t \in 1 .. Len(trainers') : Made(patterns, trainers'[t])
      BY <2>2, <2>4 DEF DBInv, PositionsInv, Trained
    <3> QED BY <1>1, <3>1 DEF DBInv, PositionsInv, Trained, Made
  <2>8. PICK where \in {"lookup", "idle"} : at' = [at EXCEPT ![p] = where]
    BY <1>3 DEF Goto
  <2>9. TypedControl'
    <3>1. DOMAIN trainer' = Programs
      BY <1>3 DEF DBInv, TypedControl
    <3>2. where # "store" /\ where \notin OverFiles /\ users \subseteq users'
      BY <1>1, <2>8 DEF OverFiles
    <3> QED BY <1>1, <2>8, <3>1, <3>2, ControlMoves DEF DBInv
  <2>10. Linking'
    <3>1. SUFFICES ASSUME NEW q \in Programs, at'[q] \in {"lookup", "link"}
                   PROVE  /\ trainer'[q] \in 1 .. Len(trainers')
                          /\ at'[q] = "lookup" =>
                                trainers'[trainer'[q]].user = command[q].user
                          /\ at'[q] = "link" =>
                                \A i \in DOMAIN list[q] :
                                   IsNth(patterns, trainers'[trainer'[q]].user,
                                         i, list[q][i])
      BY <1>1 DEF Linking, User, IsNth, Matching
    <3>2. CASE q = p
      <4>1. trainer'[q] = Len(trainers) + 1 /\ at'[q] # "link"
        BY <1>3, <2>8, <3>2 DEF DBInv, TypedControl
      <4> QED BY <2>2, <2>4, <3>2, <4>1 DEF User
    <3>3. CASE q # p
      <4>1. trainer'[q] = trainer[q] /\ at'[q] = at[q]
        BY <1>3, <2>8, <3>3 DEF DBInv, TypedControl
      <4>2. trainer[q] \in 1 .. Len(trainers)
        BY <3>1, <4>1 DEF DBInv, PositionsInv, Linking
      <4>3. trainers'[trainer[q]] = trainers[trainer[q]]
            /\ trainer[q] \in 1 .. Len(trainers')
        BY <2>4, <4>2
      <4> QED BY <4>1, <4>3 DEF DBInv, PositionsInv, Linking, User
    <3> QED BY <3>2, <3>3
  <2> QED BY <2>5, <2>6, <2>7, <2>9, <2>10 DEF DBInv, PositionsInv
<1> QED BY <1>2, <1>3 DEF StoreSFBM, End

(* getUserPatterns: the user of the trainer, its patterns by their ranks.  *)
LEMMA LookupKeeps ==
    ASSUME DBInv, NEW p \in Programs, LookupPatterns(p)
    PROVE  DBInv'
<1>1. UNCHANGED <<users, patterns, descriptors, trainers, level, matcher,
                  command, trainer>>
      /\ at[p] = "lookup" /\ done' = [done EXCEPT ![p] = 0]
  BY DEF LookupPatterns, Doing, tables, disk
<1>2. users \subseteq Nat /\ Len(patterns) \in Nat
  BY DEF DBInv, TypedData
<1>3. TypedData' /\ Linked' /\ Trained' /\ Moved
  BY <1>1, <1>2, TablesKept
<1>4. PICK where \in {"link", "idle"}, found \in Lists :
         /\ at' = [at EXCEPT ![p] = where]
         /\ list' = [list EXCEPT ![p] = found]
         /\ where = "link" => \A i \in DOMAIN found :
                                 IsNth(patterns, User(p), i, found[i])
  <2>1. CASE \E found \in {UserPatterns(User(p)), Nothing} :
                /\ list' = [list EXCEPT ![p] = found]
                /\ at' = [at EXCEPT ![p] = "link"]
    <3>1. PICK found \in {UserPatterns(User(p)), Nothing} :
             /\ list' = [list EXCEPT ![p] = found]
             /\ at' = [at EXCEPT ![p] = "link"]
      BY <2>1
    <3>2. found \in Lists
          /\ \A i \in DOMAIN found : IsNth(patterns, User(p), i, found[i])
      BY <1>2, <3>1, UserPatternsNth, NothingListed
    <3> QED BY <3>1, <3>2
  <2>2. CASE UNCHANGED list /\ at' = [at EXCEPT ![p] = "idle"]
    <3>1. list[p] \in Lists /\ list' = [list EXCEPT ![p] = list[p]]
      BY <2>2 DEF DBInv, TypedControl
    <3> QED BY <2>2, <3>1
  <2> QED BY <2>1, <2>2 DEF LookupPatterns, Goto, End
<1>5. TypedControl'
  <2>1. /\ DOMAIN at' = Programs /\ DOMAIN trainer' = Programs
        /\ list' \in [Programs -> Lists] /\ done' \in [Programs -> Nat]
        /\ command' \in [Programs -> Commands]
    BY <1>1, <1>4 DEF DBInv, TypedControl
  <2>2. ASSUME NEW q \in Programs
        PROVE  /\ at'[q] = "store" => User(q) \in users
               /\ at'[q] \in OverFiles =>
                     \A i \in DOMAIN list'[q] : list'[q][i] \in Files
    <3>1. CASE q = p
      BY <1>4, <3>1 DEF DBInv, TypedControl, OverFiles
    <3>2. CASE q # p
      <4>1. at'[q] = at[q] /\ list'[q] = list[q]
        BY <1>4, <3>2 DEF DBInv, TypedControl
      <4> QED BY <4>1 DEF DBInv, TypedControl
    <3> QED BY <3>1, <3>2
  <2> QED BY <1>1, <2>1, <2>2 DEF TypedControl, User
<1>6. Linking'
  <2>1. SUFFICES ASSUME NEW q \in Programs, at'[q] \in {"lookup", "link"}
                 PROVE  /\ trainer[q] \in 1 .. Len(trainers)
                        /\ at'[q] = "lookup" =>
                              trainers[trainer[q]].user = User(q)
                        /\ at'[q] = "link" =>
                              \A i \in DOMAIN list'[q] :
                                 IsNth(patterns, trainers[trainer[q]].user, i,
                                       list'[q][i])
    BY <1>1 DEF Linking, User, IsNth, Matching
  <2>2. CASE q = p
    <3>1. at'[q] = where /\ list'[q] = found
      BY <1>4, <2>2 DEF DBInv, TypedControl
    <3>2. trainer[q] \in 1 .. Len(trainers)
          /\ trainers[trainer[q]].user = User(q)
      BY <1>1, <2>2 DEF DBInv, PositionsInv, Linking
    <3> QED BY <1>4, <2>2, <3>1, <3>2
  <2>3. CASE q # p
    <3>1. at'[q] = at[q] /\ list'[q] = list[q]
      BY <1>4, <2>3 DEF DBInv, TypedControl
    <3> QED BY <2>1, <3>1 DEF DBInv, PositionsInv, Linking
  <2> QED BY <2>2, <2>3
<1> QED BY <1>3, <1>5, <1>6 DEF DBInv, PositionsInv

(* storeNthPattern: the pattern whose rank the position is, among those of *)
(* the trainer's user.                                                     *)
LEMMA LinkKeeps ==
    ASSUME DBInv, NEW p \in Programs, LinkPattern(p)
    PROVE  DBInv'
<1> DEFINE x == Current(p)
<1>1. UNCHANGED <<users, descriptors, trainers, level, matcher, at, command,
                  list, trainer>>
      /\ at[p] = "link" /\ More(p) /\ done' = [done EXCEPT ![p] = @ + 1]
  BY DEF LinkPattern, Doing, disk, Next1
<1>2. /\ trainer[p] \in 1 .. Len(trainers) /\ done[p] \in Nat
      /\ IsNth(patterns, trainers[trainer[p]].user, done[p], x)
  <2>1. done[p] \in DOMAIN list[p] /\ done[p] \in Nat
    BY <1>1, CurrentListed DEF DBInv, TypedControl
  <2> QED BY <1>1, <2>1 DEF DBInv, PositionsInv, Linking, Current
<1>3. x \in 1 .. Len(patterns)
  BY <1>2 DEF IsNth, Matching
<1> HIDE DEF x
<1>4. patterns \in Seq(Rows(users, Len(trainers))) /\ Len(trainers) \in Nat
  BY DEF DBInv, TypedData
<1>5. TypedData' /\ Linked' /\ Trained' /\ Moved
  <2>1. CASE UNCHANGED patterns
    <3>1. users \subseteq Nat
      BY DEF DBInv, TypedData
    <3> QED BY <1>1, <2>1, <3>1, TablesKept
  <2>2. CASE patterns' = [patterns EXCEPT ![x].trainer = trainer[p],
                                          ![x].position = done[p]]
    <3> DEFINE row == [patterns[x] EXCEPT !.trainer = trainer[p],
                                          !.position = done[p]]
    <3>1. \A k \in 1 .. Len(patterns) :
             patterns[k] \in Rows(users, Len(trainers))
      BY <1>4, SeqElements
    <3>2. /\ row \in Rows(users, Len(trainers))
          /\ row.trainer = trainer[p] /\ row.position = done[p]
          /\ row.user = patterns[x].user /\ row.category = patterns[x].category
      <4>1. patterns[x] \in Rows(users, Len(trainers))
        BY <1>3, <3>1
      <4>2. trainer[p] \in 0 .. Len(trainers) /\ done[p] \in Nat
        BY <1>2, <1>4
      <4> QED BY <4>1, <4>2 DEF Rows
    <3>3. patterns' = [patterns EXCEPT ![x] = row]
      BY <1>3, <1>4, <2>2
    <3> HIDE DEF row
    <3>4. /\ patterns' \in Seq(Rows(users, Len(trainers)))
          /\ Len(patterns') = Len(patterns)
          /\ patterns'[x] = row
          /\ \A k \in 1 .. Len(patterns) : k # x => patterns'[k] = patterns[k]
      BY <1>3, <1>4, <3>2, <3>3
    <3>5. \A k \in 1 .. Len(patterns) :
             /\ patterns'[k].user = patterns[k].user
             /\ patterns'[k].category = patterns[k].category
      BY <3>2, <3>4
    <3>6. Moved
      BY <3>4, <3>5, NthAfterUpdate DEF Moved
    <3>7. TypedData'
      BY <1>1, <3>4 DEF DBInv, TypedData
    <3>8. Trained'
      BY <1>1, <3>6, TrainedKept DEF DBInv, PositionsInv
    <3>9. Linked'
      <4>1. SUFFICES ASSUME NEW id \in 1 .. Len(patterns),
                            patterns'[id].trainer # NoTrainer
                     PROVE  IsNth(patterns',
                                  trainers[patterns'[id].trainer].user,
                                  patterns'[id].position, id)
        BY <1>1, <3>4 DEF Linked, Ids
      <4>2. CASE id = x
        BY <1>2, <3>2, <3>4, <3>6, <4>2 DEF Moved
      <4>3. CASE id # x
        BY <3>4, <3>6, <4>1, <4>3
           DEF DBInv, PositionsInv, Linked, Ids, Moved
      <4> QED BY <4>2, <4>3
    <3> QED BY <3>6, <3>7, <3>8, <3>9
  <2> QED BY <2>1, <2>2 DEF LinkPattern, x
<1>6. TypedControl'
  <2>1. done' \in [Programs -> Nat]
    BY <1>1 DEF DBInv, TypedControl
  <2> QED BY <1>1, <2>1 DEF DBInv, TypedControl, User
<1>7. Linking'
  BY <1>1, <1>5 DEF DBInv, PositionsInv, Linking, Moved, User
<1> QED BY <1>5, <1>6, <1>7 DEF DBInv, PositionsInv
-----------------------------------------------------------------------------
LEMMA StepsKeep == DBInv /\ [DBNext]_dbVars => DBInv'
<1> SUFFICES ASSUME DBInv, [DBNext]_dbVars PROVE DBInv'
  OBVIOUS
<1>1. CASE UNCHANGED dbVars
  <2>1. UNCHANGED <<users, patterns, descriptors, trainers, level, matcher, at,
                    command, list, done, trainer>>
    BY <1>1 DEF dbVars, tables, disk
  <2>2. TypedData' /\ TypedControl'
    BY <2>1 DEF DBInv, TypedData, TypedControl, User
  <2>3. Linked' /\ Trained' /\ Linking'
    BY <2>1 DEF DBInv, PositionsInv, Linked, Trained, Made, Linking, Ids, User
  <2> QED BY <2>2, <2>3 DEF DBInv, PositionsInv
<1>2. ASSUME NEW p \in Programs, NEW c \in Commands, Start(p, c)
      PROVE  DBInv'
  BY <1>2, StartKeeps
<1>3. ASSUME NEW p \in Programs, Step(p)
      PROVE  DBInv'
  BY <1>3, UserStepsKeep, SavePatternKeeps, StoreSceneKeeps, SaveHORLKeeps,
     EndLoopKeeps, StoreSFBMKeeps, LookupKeeps, LinkKeeps, TrainKeeps,
     ExtractKeeps DEF Step
<1> QED BY <1>1, <1>2, <1>3 DEF DBNext

LEMMA Invariance == DBSpec => []DBInv
BY InitTyped, StepsKeep, PTL DEF DBSpec

(* References of rows are to rows that exist, whatever fails between two   *)
(* statements and whatever programs run at once.                           *)
THEOREM TypeCorrect == DBSpec => []TypeOK
<1>1. DBSpec => []DBInv
  BY Invariance
<1>2. DBInv => TypeOK
  BY InvTyped
<1> QED BY <1>1, <1>2, PTL

(* No two patterns come to one position of a trainer, so that the row that *)
(* retrieveNthPattern takes is the only one.                               *)
THEOREM OnePatternEach == DBSpec => []PositionsUnique
<1>1. DBSpec => []DBInv
  BY Invariance
<1>2. DBInv => PositionsUnique
  <2> SUFFICES ASSUME DBInv, NEW t \in 1 .. Len(trainers),
                      NEW x \in {id \in Ids : patterns[id].trainer = t},
                      NEW y \in {id \in Ids : patterns[id].trainer = t},
                      patterns[x].position = patterns[y].position
               PROVE  x = y
    BY DEF PositionsUnique
  <2>1. t # NoTrainer /\ Len(patterns) \in Nat
    BY DEF DBInv, TypedData, NoTrainer
  <2>2. /\ IsNth(patterns, trainers[t].user, patterns[x].position, x)
        /\ IsNth(patterns, trainers[t].user, patterns[x].position, y)
    BY <2>1 DEF DBInv, PositionsInv, Linked
  <2> QED BY <2>1, <2>2, NthUnique
<1> QED BY <1>1, <1>2, PTL

(* A position of a trainer of all its user's patterns holds the pattern    *)
(* that was trained there, whatever was saved, or failed, in between.      *)
THEOREM PositionsAreTrained == DBSpec => []PositionsMatchTraining
<1>1. DBSpec => []DBInv
  BY Invariance
<1>2. DBInv => PositionsMatchTraining
  <2> SUFFICES ASSUME DBInv, NEW t \in 1 .. Len(trainers),
                      trainers[t].by = trainers[t].user,
                      NEW i \in DOMAIN trainers[t].ids,
                      NEW id \in NthPattern(t, i)
               PROVE  id = trainers[t].ids[i]
    BY DEF PositionsMatchTraining
  <2>1. t # NoTrainer /\ Len(patterns) \in Nat
    BY DEF DBInv, TypedData, NoTrainer
  <2>2. IsNth(patterns, trainers[t].user, i, id)
    BY <2>1 DEF DBInv, PositionsInv, Linked, NthPattern
  <2>3. trainers[t].by # ByIds
    <3>1. trainers[t].user \in users /\ users \subseteq Nat
      BY InvTyped DEF TypeOK
    <3> QED BY <3>1 DEF ByIds
  <2>4. IsNth(patterns, trainers[t].user, i, trainers[t].ids[i])
    BY <2>3 DEF DBInv, PositionsInv, Trained, Made
  <2> QED BY <2>1, <2>2, <2>4, NthUnique
<1> QED BY <1>1, <1>2, PTL
-----------------------------------------------------------------------------
(* What a run of -savePatterns has behind it                               *)
Saved(f, u) == \E d \in descriptors : d.file = f /\ patterns[d.pattern].user = u

SavesFor(p) == Kind(p) = "patterns" /\ command[p].named

(* The files behind the loop of such a run are saved; what a failure left  *)
(* out is not behind it, since the failure ends the run.                   *)
SavingInv(p) ==
    SavesFor(p) =>
        /\ at[p] \in {"idle", "needUser", "objects"}
        /\ at[p] = "idle" /\ told[p] = "saved" => \A f \in Files : Saved(f, User(p))
        /\ at[p] \in {"needUser", "objects"} => list[p] = Ranked(Files)
        /\ at[p] = "needUser" => done[p] = 0
        /\ at[p] = "objects" =>
              \A i \in DOMAIN list[p] : i < done[p] => Saved(list[p][i], User(p))

ToldInv == DOMAIN told = Programs /\ \A p \in Programs : SavingInv(p)

(* What is saved stays saved: no row changes its user, none is deleted.    *)
SavedStays == \A f, u : Saved(f, u) => Saved(f, u)'

LEMMA UsersStay ==
    ASSUME DBInv, descriptors \subseteq descriptors',
           \A id \in 1 .. Len(patterns) : patterns'[id].user = patterns[id].user
    PROVE  SavedStays
<1>1. \A d \in descriptors : d.pattern \in 1 .. Len(patterns)
  BY DEF DBInv, TypedData
<1> QED BY <1>1 DEF SavedStays, Saved

LEMMA SavedKept ==
    ASSUME DBInv, [DBNext]_dbVars
    PROVE  SavedStays
<1>1. patterns \in Seq(Rows(users, Len(trainers))) /\ Len(patterns) \in Nat
  BY DEF DBInv, TypedData
<1>2. ASSUME UNCHANGED <<patterns, descriptors>> PROVE SavedStays
  BY <1>2, UsersStay
<1>3. ASSUME NEW r, patterns' = Append(patterns, r), descriptors \subseteq descriptors'
      PROVE  SavedStays
  <2>1. \A id \in 1 .. Len(patterns) : patterns'[id] = patterns[id]
    BY <1>1, <1>3
  <2> QED BY <1>3, <2>1, UsersStay
<1>4. ASSUME NEW p \in Programs, SavePattern(p) \/ SavePatternFails(p) \/ SaveHORL(p)
      PROVE  SavedStays
  <2>1. descriptors \subseteq descriptors'
    BY <1>4 DEF SavePattern, SavePatternFails, SaveHORL
  <2>2. patterns' = patterns \/ \E r : patterns' = Append(patterns, r)
    BY <1>4 DEF SavePattern, SavePatternFails, SaveHORL
  <2>3. ASSUME patterns' = patterns PROVE SavedStays
    BY <2>1, <2>3, UsersStay
  <2> QED BY <1>3, <2>1, <2>2, <2>3
<1>5. ASSUME NEW p \in Programs, LinkPattern(p) PROVE SavedStays
  <2>1. UNCHANGED descriptors
    BY <1>5 DEF LinkPattern
  <2>2. CASE patterns' = patterns
    BY <1>2, <2>1, <2>2
  <2>3. CASE patterns' # patterns
    <3>1. patterns' = [patterns EXCEPT ![Current(p)].trainer = trainer[p],
                                       ![Current(p)].position = done[p]]
      BY <1>5, <2>3 DEF LinkPattern
    <3>2. /\ DOMAIN patterns = 1 .. Len(patterns)
          /\ \A id \in 1 .. Len(patterns) : patterns[id] \in Rows(users, Len(trainers))
      BY <1>1
    <3>3. \A id \in 1 .. Len(patterns) : patterns'[id].user = patterns[id].user
      BY <3>1, <3>2 DEF Rows
    <3> QED BY <2>1, <3>3, UsersStay
  <2> QED BY <2>2, <2>3
<1>6. ASSUME NEW p \in Programs,
             SaveUser(p) \/ NeedUser(p) \/ StoreScene(p) \/ EndLoop(p) \/ StoreSFBM(p)
             \/ LookupPatterns(p) \/ Train(p) \/ Extract(p) \/ Load(p)
      PROVE  UNCHANGED <<patterns, descriptors>>
  BY <1>6 DEF SaveUser, NeedUser, StoreScene, EndLoop, StoreSFBM, LookupPatterns, Train,
     Extract, Load, tables
<1>7. ASSUME NEW p \in Programs, NEW c \in Commands, Start(p, c)
      PROVE  UNCHANGED <<patterns, descriptors>>
  BY <1>7 DEF Start, tables
<1>8. CASE UNCHANGED dbVars
  BY <1>2, <1>8 DEF dbVars, tables
<1> QED BY <1>2, <1>4, <1>5, <1>6, <1>7, <1>8 DEF DBNext, Step

(* A run leaves the others where they are.                                 *)
LEMMA OthersStay ==
    ASSUME DBInv, ToldInv, NEW q \in Programs,
           Step(q) \/ \E c \in Commands : Start(q, c)
    PROVE  /\ DOMAIN told' = Programs
           /\ \A p \in Programs \ {q} :
                 /\ at'[p] = at[p] /\ command'[p] = command[p] /\ list'[p] = list[p]
                 /\ done'[p] = done[p] /\ told'[p] = told[p]
<1>t. /\ DOMAIN at = Programs /\ DOMAIN command = Programs /\ DOMAIN list = Programs
      /\ DOMAIN done = Programs /\ DOMAIN told = Programs
  BY DEF DBInv, TypedControl, ToldInv
<1> USE DEF Goto, End, Next1, AfterFailure
<1> DEFINE Mine ==
      /\ at' = at \/ \E x : at' = [at EXCEPT ![q] = x]
      /\ told' = told \/ \E x : told' = [told EXCEPT ![q] = x]
      /\ done' = done \/ \E x : done' = [done EXCEPT ![q] = x]
      /\ list' = list \/ \E x : list' = [list EXCEPT ![q] = x]
      /\ command' = command \/ \E x : command' = [command EXCEPT ![q] = x]
<1>2. Mine
  <2>1. CASE SaveUser(q) \/ NeedUser(q) \/ EndLoop(q)
    BY <2>1 DEF SaveUser, NeedUser, EndLoop
  <2>2. CASE SavePattern(q) \/ StoreScene(q)
    BY <2>2 DEF SavePattern, StoreScene
  <2>3. CASE SavePatternFails(q)
    BY <2>3 DEF SavePatternFails
  <2>4. CASE SaveHORL(q)
    BY <2>4 DEF SaveHORL
  <2>5. CASE StoreSFBM(q) \/ LookupPatterns(q)
    BY <2>5 DEF StoreSFBM, LookupPatterns
  <2>6. CASE LinkPattern(q) \/ Extract(q)
    BY <2>6 DEF LinkPattern, Extract
  <2>7. CASE Train(q) \/ Load(q)
    BY <2>7 DEF Train, Load
  <2>8. ASSUME NEW c \in Commands, Start(q, c) PROVE Mine
    BY <2>8 DEF Start
  <2> QED BY <2>1, <2>2, <2>3, <2>4, <2>5, <2>6, <2>7, <2>8 DEF Step
<1> QED BY <1>t, <1>2

(* The loop over the directory meets every file.                           *)
LEMMA AllFilesListed ==
    /\ Cardinality(Files) \in Nat /\ DOMAIN Ranked(Files) = 0 .. Cardinality(Files) - 1
    /\ Length(Ranked(Files)) = Cardinality(Files)
    /\ \A f \in Files : \E i \in DOMAIN Ranked(Files) : Ranked(Files)[i] = f
<1>1. Files \subseteq Nat /\ IsFiniteSet(Files)
  <2>1. Files = 1 .. Cardinality(Files) /\ IsFiniteSet(Files)
    BY DBAssumption, Zenon
  <2>2. Cardinality(Files) \in Nat
    BY <2>1, FS_CardinalityType
  <2>3. 1 .. Cardinality(Files) \subseteq Nat
    BY <2>2
  <2> QED BY <2>1, <2>3, Zenon
<1>2. /\ Cardinality(Files) \in Nat
      /\ DOMAIN Ranked(Files) = 0 .. Cardinality(Files) - 1
      /\ \A i \in DOMAIN Ranked(Files) :
            Ranked(Files)[i] \in Files /\ Rank(Files, Ranked(Files)[i]) = i
  BY <1>1, RankedIs
<1>3. Cardinality(0 .. Cardinality(Files) - 1) = Cardinality(Files)
  <2>1. 0 \in Int /\ Cardinality(Files) - 1 \in Int
    BY <1>2
  <2>2. Cardinality(0 .. Cardinality(Files) - 1)
          = IF 0 > Cardinality(Files) - 1 THEN 0 ELSE Cardinality(Files) - 1 - 0 + 1
    BY <2>1, FS_Interval, Zenon
  <2> QED BY <1>2, <2>2
<1>4. ASSUME NEW f \in Files PROVE \E i \in DOMAIN Ranked(Files) : Ranked(Files)[i] = f
  <2>1. Rank(Files, f) \in DOMAIN Ranked(Files)
    BY <1>1, <1>2, RankBounds
  <2>2. /\ Ranked(Files)[Rank(Files, f)] \in Files
        /\ Rank(Files, Ranked(Files)[Rank(Files, f)]) = Rank(Files, f)
    BY <1>2, <2>1
  <2>3. Ranked(Files)[Rank(Files, f)] = f
    BY <1>1, <2>2, RankInjective
  <2> QED BY <2>1, <2>3
<1> QED BY <1>2, <1>3, <1>4 DEF Length

LEMMA OwnStepTells ==
    ASSUME DBInv, ToldInv, SavedStays, NEW p \in Programs, Step(p)
    PROVE  SavingInv(p)'
<1>t. /\ DOMAIN at = Programs /\ DOMAIN told = Programs /\ done \in [Programs -> Nat]
      /\ SavingInv(p)
  BY DEF DBInv, TypedControl, ToldInv
<1>1. command' = command
  BY DEF Step, SaveUser, NeedUser, SavePattern, SavePatternFails, StoreScene, SaveHORL,
     EndLoop, StoreSFBM, LookupPatterns, LinkPattern, Train, Extract, Load
<1> SUFFICES ASSUME SavesFor(p) PROVE SavingInv(p)'
  BY <1>1 DEF SavingInv, SavesFor, Kind
<1>2. /\ at[p] \in {"needUser", "objects"} => list[p] = Ranked(Files)
      /\ at[p] = "needUser" => done[p] = 0
      /\ at[p] = "objects" =>
            \A i \in DOMAIN list[p] : i < done[p] => Saved(list[p][i], User(p))
      /\ Kind(p) = "patterns" /\ command[p].named
      /\ at[p] \in {"idle", "needUser", "objects"}
  BY <1>t DEF SavingInv, SavesFor
<1>3. NeedUser(p) \/ SavePattern(p) \/ SavePatternFails(p) \/ EndLoop(p)
  BY <1>2 DEF Step, SaveUser, StoreScene, SaveHORL, StoreSFBM, LookupPatterns, LinkPattern,
     Train, Extract, Load, Doing
<1>4. ASSUME at'[p] = "idle", told'[p] # "saved" PROVE SavingInv(p)'
  BY <1>1, <1>4 DEF SavingInv
<1>5. CASE NeedUser(p)
  <2>1. CASE at'[p] = "idle"
    <3>1. told'[p] = "failed"
      BY <1>t, <1>2, <1>5, <2>1 DEF NeedUser, Goto, End
    <3> QED BY <1>4, <2>1, <3>1
  <2>2. CASE at'[p] # "idle"
    <3>1. at'[p] = "objects" /\ at[p] = "needUser" /\ UNCHANGED <<list, done>>
      BY <1>t, <1>2, <1>5, <2>2 DEF NeedUser, Goto, End, Doing
    <3>2. \A i \in DOMAIN list[p] : ~ (i < done[p])
      BY <1>2, <3>1, AllFilesListed
    <3> QED BY <1>1, <1>2, <3>1, <3>2 DEF SavingInv
  <2> QED BY <2>1, <2>2
<1>6. CASE SavePattern(p)
  <2>1. /\ at[p] = "objects" /\ at' = at /\ list' = list
        /\ done' = [done EXCEPT ![p] = @ + 1] /\ Owner(p) = User(p)
        /\ patterns' = Append(patterns, Row(User(p), "matching"))
        /\ descriptors' = descriptors \cup
              {[pattern |-> Len(patterns) + 1, file |-> list[p][done[p]],
                level |-> level[list[p][done[p]]] + 1]}
    BY <1>2, <1>6 DEF SavePattern, Doing, Next1, Owner, Current
  <2>2. patterns'[Len(patterns) + 1].user = User(p)
    BY <2>1 DEF DBInv, TypedData, Row
  <2>3. \E d \in descriptors' : d.file = list[p][done[p]] /\ patterns'[d.pattern].user = User(p)
    <3> DEFINE d == [pattern |-> Len(patterns) + 1, file |-> list[p][done[p]],
                     level |-> level[list[p][done[p]]] + 1]
    <3>1. d \in descriptors' /\ d.file = list[p][done[p]] /\ d.pattern = Len(patterns) + 1
      BY <2>1
    <3> HIDE DEF d
    <3> QED BY <2>2, <3>1
  <2>4. done'[p] = done[p] + 1 /\ done[p] \in Nat
    BY <1>t, <2>1
  <2>5. ASSUME NEW i \in DOMAIN list[p], i < done[p] + 1
        PROVE  i < done[p] \/ i = done[p]
    <3>1. i \in Int
      BY <1>2, <2>1, AllFilesListed
    <3> QED BY <2>4, <2>5, <3>1
  <2>6. ASSUME NEW i \in DOMAIN list[p], i < done'[p]
        PROVE  Saved(list[p][i], User(p))'
    <3>1. CASE i < done[p]
      <4>1. Saved(list[p][i], User(p))
        BY <1>2, <2>1, <3>1
      <4>2. PICK f, u : f = list[p][i] /\ u = User(p)
        OBVIOUS
      <4>3. Saved(f, u)'
        BY <4>1, <4>2 DEF SavedStays
      <4> QED BY <1>1, <2>1, <4>2, <4>3 DEF Saved, User
    <3>2. CASE i = done[p]
      BY <1>1, <2>1, <2>3, <3>2 DEF Saved, User
    <3> QED BY <2>4, <2>5, <2>6, <3>1, <3>2
  <2> QED BY <1>1, <1>2, <2>1, <2>6 DEF SavingInv
<1>7. CASE SavePatternFails(p)
  <2>1. at'[p] = "idle" /\ told'[p] = "failed"
    BY <1>t, <1>2, <1>7 DEF SavePatternFails, AfterFailure, End, Goto
  <2> QED BY <1>4, <2>1
<1>8. CASE EndLoop(p)
  <2>1. /\ at[p] = "objects" /\ at'[p] = "idle" /\ ~ (done[p] < Length(list[p]))
        /\ UNCHANGED <<patterns, descriptors>>
    BY <1>t, <1>2, <1>8 DEF EndLoop, End, Goto, More, tables
  <2>2. \A i \in DOMAIN list[p] : i < done[p]
    BY <1>t, <1>2, <2>1, AllFilesListed
  <2>3. \A f \in Files : Saved(f, User(p))
    BY <1>2, <2>1, <2>2, AllFilesListed
  <2>4. \A f \in Files : Saved(f, User(p))'
    BY <1>1, <2>3 DEF SavedStays, User
  <2> QED BY <1>1, <2>1, <2>4 DEF SavingInv
<1> QED BY <1>3, <1>5, <1>6, <1>7, <1>8

LEMMA ToldKept == DBInv /\ ToldInv /\ [DBNext]_dbVars => ToldInv'
<1> SUFFICES ASSUME DBInv, ToldInv, [DBNext]_dbVars PROVE ToldInv'
  OBVIOUS
<1>1. SavedStays
  BY SavedKept
<1>2. ASSUME NEW p \in Programs,
             /\ at'[p] = at[p] /\ command'[p] = command[p] /\ list'[p] = list[p]
             /\ done'[p] = done[p] /\ told'[p] = told[p]
      PROVE  SavingInv(p)'
  <2>1. SavingInv(p) /\ Kind(p)' = Kind(p) /\ User(p)' = User(p)
    BY <1>2 DEF ToldInv, Kind, User
  <2> QED BY <1>1, <1>2, <2>1 DEF SavingInv, SavesFor, SavedStays
<1>3. CASE UNCHANGED dbVars
  BY <1>2, <1>3 DEF dbVars, ToldInv
<1>4. ASSUME NEW q \in Programs, Step(q) PROVE ToldInv'
  BY <1>1, <1>2, <1>4, OthersStay, OwnStepTells DEF ToldInv
<1>5. ASSUME NEW q \in Programs, NEW c \in Commands, Start(q, c) PROVE ToldInv'
  <2>1. SavingInv(q)'
    <3>1. /\ DOMAIN at = Programs /\ DOMAIN command = Programs /\ DOMAIN list = Programs
          /\ DOMAIN done = Programs /\ DOMAIN told = Programs
      BY DEF DBInv, TypedControl, ToldInv
    <3>2. /\ command'[q] = c /\ list'[q] = Ranked(Files) /\ done'[q] = 0
          /\ told'[q] = "nothing"
      BY <1>5, <3>1 DEF Start
    <3>3. c.kind = "patterns" /\ c.named => at'[q] = "needUser"
      BY <1>5, <3>1 DEF Start, Goto
    <3> QED BY <3>2, <3>3 DEF SavingInv, SavesFor, Kind
  <2> QED BY <1>2, <1>5, <2>1, OthersStay DEF ToldInv
<1> QED BY <1>3, <1>4, <1>5 DEF DBNext

(* A run that says a user has the patterns of a directory is right, and    *)
(* stays right: each file has a pattern of that user with its descriptors, *)
(* whatever failed or ran in between (PatternDBConnector::saveUserPatterns,*)
(* DBDriver::savePattern).                                                 *)
THEOREM ToldIsTrue == DBSpec => []ToldIsSaved
<1>1. DBInit => ToldInv
  BY DEF DBInit, ToldInv, SavingInv
<1>2. ToldInv => ToldIsSaved
  BY DEF ToldInv, SavingInv, SavesFor, Saved, ToldIsSaved
<1> QED BY <1>1, <1>2, Invariance, ToldKept, PTL DEF DBSpec
=============================================================================
