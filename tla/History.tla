------------------------------ MODULE History ------------------------------
(***************************************************************************)
(* One user's chat history (UserChatHistory in pkg/storage/models.go) and  *)
(* what each storage operation does to it (pkg/storage/file_storage.go).   *)
(*                                                                         *)
(* A history is a function from session identifiers to sessions.  The code *)
(* keeps slices, but CreateSession rejects a second session with the same  *)
(* identifier, AddMessage a second message, and the handlers deduplicate   *)
(* the messages of a payload, so the identifiers are keys.  The order of   *)
(* the slices, names, roles and timestamps are abstracted away; a session  *)
(* is either older than the retention cutoff (expired) or not.             *)
(***************************************************************************)
EXTENDS Integers, FiniteSets

CONSTANTS
    SessionIds,   \* identifiers a client may give a session
    MsgIds,       \* identifiers a client may give a message
    Contents,     \* message texts
    MaxSessions,  \* maxSessionsPerUser (50 in the code)
    MaxMessages,  \* maxMessagesPerSession (500 in the code)
    Payloads,     \* whole sessions sent by POST /history and PUT /sessions/{id}
    Additions,    \* messages sent by POST /sessions/{id}/messages
    None          \* nothing here: no session, no message, no file, no cache entry

\* tokens is None when the count is zero, "not counted yet"; otherwise it is
\* the text the count was computed from.  summary stands for isSummary,
\* summarizedIds and summaryDepth: whether the message is marked as a summary.
Msg == [content : Contents, tokens : Contents \cup {None}, summary : BOOLEAN]

Session == [active : BOOLEAN, expired : BOOLEAN,
            msgs : [MsgIds -> Msg \cup {None}]]

Histories == [SessionIds -> Session \cup {None}]

EmptyHistory == [s \in SessionIds |-> None]

SessionsIn(h) == {s \in SessionIds : h[s] # None}

MessagesIn(sess) == {m \in MsgIds : sess.msgs[m] # None}

ASSUME HistoryAssumption ==
    /\ IsFiniteSet(SessionIds)
    /\ IsFiniteSet(MsgIds)
    /\ MaxSessions \in Nat
    /\ MaxMessages \in Nat
    /\ None \notin Session
    /\ None \notin Msg
    /\ None \notin Contents
    /\ None \notin Histories

\* A client may send any session, with any number of messages: no handler
\* counts them against maxMessagesPerSession.
ASSUME PayloadAssumption == Payloads \subseteq Session /\ Additions \subseteq Msg

-----------------------------------------------------------------------------
(***************************************************************************)
(* Requests: the calls of the Storage interface that read or write a       *)
(* history.                                                                *)
(***************************************************************************)

ReadRequests == [kind : {"get"}]

SessionRequests ==
    [kind : {"create", "update"}, sess : SessionIds, data : Payloads]
      \cup [kind : {"delete", "activate"}, sess : SessionIds]

MessageRequests ==
    [kind : {"add"}, sess : SessionIds, msg : MsgIds, data : Additions,
     expired : BOOLEAN]
      \cup [kind : {"edit"}, sess : SessionIds, msg : MsgIds, content : Contents]

\* Calls that carry no user: they visit every user the cache knows.
SweepRequests == [kind : {"count"}, msg : MsgIds, content : Contents]
                   \cup [kind : {"expire"}]

UserRequests ==
    ReadRequests \cup SessionRequests \cup MessageRequests \cup [kind : {"clear"}]

Requests == UserRequests \cup SweepRequests

-----------------------------------------------------------------------------
(***************************************************************************)
(* Each operation maps a history to the set of histories it may go on to   *)
(* save; the set is empty when the operation returns without saving.       *)
(***************************************************************************)

\* Mutation: an off-by-one in the session limit.
CreateSessionOffByOne(h, s, d) ==
    IF s \notin SessionsIn(h) /\ Cardinality(SessionsIn(h)) <= MaxSessions
    THEN {[h EXCEPT ![s] = d]}
    ELSE {}

CreateSession(h, s, d) ==
    IF s \notin SessionsIn(h) /\ Cardinality(SessionsIn(h)) < MaxSessions
    THEN {[h EXCEPT ![s] = d]}
    ELSE {}

UpdateSession(h, s, d) ==
    IF s \in SessionsIn(h) THEN {[h EXCEPT ![s] = d]} ELSE {}

DeleteSession(h, s) ==
    IF s \in SessionsIn(h) THEN {[h EXCEPT ![s] = None]} ELSE {}

Activate(h, s) ==
    [t \in SessionIds |->
        IF h[t] = None THEN None ELSE [h[t] EXCEPT !.active = (t = s)]]

\* One session becomes active and every other one inactive.
SetActiveSession(h, s) ==
    IF s \in SessionsIn(h) THEN {Activate(h, s)} ELSE {}

PutMessage(sess, m, d, e) ==
    [sess EXCEPT !.expired = e, !.msgs = [@ EXCEPT ![m] = d]]

\* Idempotent by message identifier; the session takes the message's timestamp.
AddMessage(h, s, m, d, e) ==
    IF /\ s \in SessionsIn(h)
       /\ m \notin MessagesIn(h[s])
       /\ Cardinality(MessagesIn(h[s])) < MaxMessages
    THEN {[h EXCEPT ![s] = PutMessage(h[s], m, d, e)]}
    ELSE {}

Edited(msg, c) == [msg EXCEPT !.content = c, !.tokens = None]

\* New content, count reset to zero, the session touched now.
UpdateMessage(h, s, m, c) ==
    IF s \in SessionsIn(h) /\ m \in MessagesIn(h[s])
    THEN {[h EXCEPT ![s] = PutMessage(h[s], m, Edited(h[s].msgs[m], c), FALSE)]}
    ELSE {}

Counted(msg, c) == [msg EXCEPT !.tokens = c]

SetTokens(sess, m, c) ==
    PutMessage(sess, m, Counted(sess.msgs[m], c), sess.expired)

\* The count of text c is stored on the message of whichever of the sessions
\* that hold the identifier comes first.
UpdateMessageTokenCount(h, m, c) ==
    {[h EXCEPT ![s] = SetTokens(h[s], m, c)] :
        s \in {t \in SessionsIn(h) : m \in MessagesIn(h[t])}}

DropExpired(h) ==
    [s \in SessionIds |-> IF h[s] # None /\ h[s].expired THEN None ELSE h[s]]

\* Saved only if a session was dropped.
DeleteExpired(h) == {DropExpired(h)} \ {h}

\* What request r may save after loading history h.
Outcomes(r, h) ==
    CASE r.kind = "get"      -> {}
      [] r.kind = "create"   -> CreateSession(h, r.sess, r.data)
      [] r.kind = "update"   -> UpdateSession(h, r.sess, r.data)
      [] r.kind = "delete"   -> DeleteSession(h, r.sess)
      [] r.kind = "activate" -> SetActiveSession(h, r.sess)
      [] r.kind = "add"      -> AddMessage(h, r.sess, r.msg, r.data, r.expired)
      [] r.kind = "edit"     -> UpdateMessage(h, r.sess, r.msg, r.content)
      [] r.kind = "count"    -> UpdateMessageTokenCount(h, r.msg, r.content)
      [] r.kind = "expire"   -> DeleteExpired(h)
      [] r.kind = "clear"    -> {EmptyHistory}

\* What deepCopyHistory makes of a message, a session and a history: it copies
\* field by field and leaves out the three that mark a summary.
CopiedMessage(msg) == IF msg = None THEN None ELSE [msg EXCEPT !.summary = FALSE]

CopiedSession(sess) ==
    IF sess = None THEN None
    ELSE [sess EXCEPT !.msgs = [m \in MsgIds |-> CopiedMessage(sess.msgs[m])]]

Copied(h) == [s \in SessionIds |-> CopiedSession(h[s])]

\* The limits of file_storage.go, as a predicate on a history.  Only AddMessage
\* counts messages: a session that a client has sent whole may exceed the limit,
\* and keeps the messages it was sent with.
WithinLimits(h, sent) ==
    /\ Cardinality(SessionsIn(h)) <= MaxSessions
    /\ \A s \in SessionsIn(h) :
          \/ Cardinality(MessagesIn(h[s])) <= MaxMessages
          \/ MessagesIn(h[s]) \in sent
=============================================================================
