--------------------------- MODULE MCConversation ---------------------------
(***************************************************************************)
(* An instance of Conversation for TLC.                                    *)
(***************************************************************************)
EXTENDS Conversation

CONSTANTS m1, m2, m3

MCSize == [id \in {m1, m2, m3} |-> IF id = m2 THEN 2 ELSE 1]

\* Message ids arrive uncounted; the last two share their timestamp.
MCMessage(id, tokens, isPinned) ==
    [id |-> id, ts |-> IF id = m1 THEN 1 ELSE 2, tok |-> tokens, pinned |-> isPinned,
     summary |-> FALSE, error |-> id = m1, covers |-> {}, knew |-> {}]

MCSent == {MCMessage(m1, 0, FALSE), MCMessage(m3, 0, FALSE)}

MCPayloads == {<<>>, <<MCMessage(m1, 0, FALSE), MCMessage(m3, 0, FALSE)>>}

MCStored ==
    {<<>>, <<MCMessage(m1, 1, FALSE), MCMessage(m2, 2, FALSE)>>,
     <<MCMessage(m2, 2, TRUE), MCMessage(m1, 0, FALSE), MCMessage(m3, 1, FALSE)>>}

MCSymmetry == Permutations(Procs)
=============================================================================
