--------------------------- MODULE MCFileStorage ---------------------------
(***************************************************************************)
(* Instances of FileStorage for TLC.                                       *)
(***************************************************************************)
EXTENDS FileStorage, TLC

CONSTANTS s1, s2, m1, m2, c1, c2

NoMessages == [m \in MsgIds |-> None]

FreshSession == [active |-> FALSE, expired |-> FALSE, msgs |-> NoMessages]

NewMessage(c, marked) == [content |-> c, tokens |-> None, summary |-> marked]

\* A session the client holds with a summary in every message, last used long
\* ago: more messages than the limit where that is one.
OldSession ==
    [active |-> TRUE, expired |-> TRUE,
     msgs |-> [m \in MsgIds |-> NewMessage(c1, TRUE)]]

MCPayloads == {FreshSession, OldSession}

MCAdditions == {NewMessage(c, FALSE) : c \in Contents}

MCSymmetry == Permutations(Users) \cup Permutations(Procs)
=============================================================================
