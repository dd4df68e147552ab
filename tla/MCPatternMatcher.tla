-------------------------- MODULE MCPatternMatcher --------------------------
(* Instances of PatternMatcher for TLC: the requests the workers are given.*)
EXTENDS PatternMatcher, SequencesExt

MCTrainers == {1, 2}
MCUndefinedLives == {0}

Req(action, indexes, scene) ==
    [action |-> action, indexes |-> indexes, scene |-> scene, numeric |-> TRUE,
     numbers |-> Len(indexes)]

Add(indexes) == Req("ADDIDXS", indexes, NoKey)
Rem(indexes) == Req("DELIDXS", indexes, NoKey)
Upd(indexes) == Req("UPDIDXS", indexes, NoKey)
Match(indexes) == Req("MATCH", indexes, 1)
Status == Req("IDXSTATUS", <<>>, NoKey)
Invalid == Req("invalid", <<>>, NoKey)

BadId == [Status EXCEPT !.numeric = FALSE]
BadIndex == [Add(<<1, 2>>) EXCEPT !.numbers = 1]

(* Every action, with one and two indexes, and the rejected forms.         *)
MCRequests == {Add(<<1, 2>>), Rem(<<1>>), Upd(<<1>>), Match(<<2>>), Status,
               Invalid, Add(<<1, 1>>), BadId, BadIndex}

(* Any two requests; for one worker any three.                             *)
MCPairs == SeqOf(MCRequests, 2)
MCTriples == [1 .. 3 -> MCRequests]

(* README-PatternMatcher.txt, example (1) then (2), and (1) alone with a   *)
(* request id that is no number.                                           *)
MCAddRemove == {<<Add(<<1>>), Rem(<<1>>)>>}
MCReadmeId == {<<[Add(<<1, 2>>) EXCEPT !.numeric = FALSE]>>}
MCAddAdd == {<<Add(<<1>>), Add(<<2>>)>>}
MCAddRemAdd == {<<Add(<<1>>), Rem(<<1>>), Add(<<2>>)>>}
MCEnds == MCReadmeId \cup {<<Match(<<1>>)>>}
MCTwoWorkers == MCAddAdd \cup MCAddRemove \cup {<<Status, Add(<<1, 2>>)>>}
=============================================================================
