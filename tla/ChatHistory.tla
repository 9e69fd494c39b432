---------------------------- MODULE ChatHistory ----------------------------
(***************************************************************************)
(* What the Storage interface promises its callers (pkg/storage/storage.go *)
(* and the operations' doc comments): each request acts on the user's      *)
(* history in one step, computed from the history as it is at that step,   *)
(* or has no effect.  A history is what a caller can read back, without    *)
(* the marks of summaries, which the file storage returns to nobody.       *)
(***************************************************************************)
EXTENDS History

CONSTANT Users

VARIABLE store   \* store[u] is the history of user u

ChatHistoryInit == store = [u \in Users |-> EmptyHistory]

\* Some request of user u, on the history it finds.
Serve(u) ==
    LET found == store[u] IN
    \E r \in Requests : \E h \in Outcomes(r, found) :
        store' = [store EXCEPT ![u] = Copied(h)]

ChatHistoryNext == \E u \in Users : Serve(u)

ChatHistorySpec == ChatHistoryInit /\ [][ChatHistoryNext]_store
=============================================================================
