------------------------------ MODULE MCPlugin ------------------------------
(***************************************************************************)
(* An instance of Plugin for TLC: two sessions, the messages all in the    *)
(* first, one of them from the day before.                                 *)
(***************************************************************************)
EXTENDS Plugin

CONSTANTS s1, s2, m1, m2

MCOwner == [m \in Messages |-> s1]
MCStamp == [m \in Messages |-> IF m = m1 THEN 0 ELSE 1]
MCSize == [m \in Messages |-> IF m = m1 THEN 1 ELSE 2]
MCPayloads == {{}, {m1}}

MCRow(day, isActive, messages) ==
    [active |-> isActive, updated |-> day,
     total |-> MapThenSumSet(LAMBDA m : MCSize[m], messages),
     messages |-> messages, covered |-> {}, summaries |-> 0]

MCStored ==
    {[s \in {s1, s2} |-> None],
     [s \in {s1, s2} |-> IF s = s1 THEN MCRow(1, TRUE, {m1, m2}) ELSE MCRow(0, FALSE, {})]}

MCSymmetry == Permutations(Procs)
=============================================================================
