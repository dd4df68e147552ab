---------------------------- MODULE MCTempFiles ----------------------------
(* Two trainers, and two scenes or patterns that share the id of one: every *)
(* order of loads, of one object again, of another of the same id, and of  *)
(* objects that have nothing in common.                                    *)
EXTENDS TempFiles, TLC

MCPrograms == {"daemon", "connector"}
MCTrainers == {"t1", "t2"}
MCSingles == {"s1", "p1"}
MCIdOf == [t1 |-> 1, t2 |-> 2, s1 |-> 1, p1 |-> 1]
=============================================================================
