---------------------------- MODULE MCTmAbsences ----------------------------
(* A small instance of TmAbsences: the last day of a year and a holiday,   *)
(* one person, a leave of both days and a permesso on the first.           *)
EXTENDS TmAbsences, TLC

CONSTANTS r1, unknown, leaves, other, w1, w2

TwoDays == 1..2
TwoYears == {{1}, {2}}
OneMonth == {{1}}
Leave == [cal |-> leaves, who |-> {r1}, start |-> 1, end |-> 3, allDay |-> TRUE]
Hours == [cal |-> other, who |-> {r1}, start |-> 1, end |-> 1, allDay |-> FALSE]
TwoEvents == {Leave, Hours}
TwoFiles ==
  {{[res |-> r1, day |-> 1, type |-> "visita"], [res |-> r1, day |-> 1, type |-> "ferie"]},
   {[res |-> unknown, day |-> 1, type |-> "ferie"]}}
Symmetry == Permutations({w1, w2})
FirstYear == [r \in Resources |-> [start |-> 0, end |-> 1]]
=============================================================================
