------------------------------ MODULE Sessions ------------------------------
(***************************************************************************)
(* The sessions of one user as rows of a table: what DBStorage keeps in    *)
(* aichat_sessions and MemoryStorage in its history, changed by the HTTP   *)
(* handlers (pkg/plugin/resources.go) and by the retention sweep.  Of a    *)
(* message only its arrival matters here: its timestamp moves the row's    *)
(* updated_at and its token count is added to total_tokens.                *)
(*                                                                         *)
(* A call of a storage is one step; between the calls of a handler others  *)
(* run.  What request p is about to do is req[p].at:                       *)
(*   "idle"      nothing                                                   *)
(*   "create", "update"   write the row it was sent                        *)
(*   "save"      save the messages it was sent                             *)
(*   "rename"    write back the row it has read                            *)
(*   "touch"     set updated_at after the edit of a message (database)     *)
(*   "summarize" save the summary of the messages it has chosen            *)
(***************************************************************************)
EXTENDS Integers, FiniteSets, FiniteSetsExt

CONSTANTS
    None,          \* no row, no session
    Procs,         \* goroutines serving requests
    SessionIds,
    Messages,
    Owner,         \* Owner[m]: the session message m belongs to
    Stamp,         \* Stamp[m]: the time the browser gave message m
    Size,          \* Size[m]: the token_count message m arrives with
    SummaryTokens, \* token_count of a summary
    Payloads,      \* the sets of messages a browser may send with a session
    Stored,        \* the tables there may be to begin with
    Retention,     \* retentionDays
    MaxTime,       \* bound: the last day
    MaxRequests    \* bound: requests made

ASSUME SessionsAssumption ==
    /\ Owner \in [Messages -> SessionIds]
    /\ Stamp \in [Messages -> 0..MaxTime]
    /\ Size \in [Messages -> Nat]
    /\ SummaryTokens \in Nat
    /\ Retention \in Nat \ {0}
    /\ MaxTime \in Nat \ {0}
    /\ MaxRequests \in Nat

VARIABLES
    backend,  \* which storage the plugin was configured with
    table,    \* the row of each session, None if there is none
    now,      \* the day
    req,      \* the request each goroutine is serving
    left,     \* requests still to be made
    past      \* history: what has happened to each session

vars == <<backend, table, now, req, left, past>>

Row == [active : BOOLEAN, updated : 0..MaxTime, total : Nat,
        messages : SUBSET Messages, covered : SUBSET Messages, summaries : Nat]

\* Nobody has written to the tables since the plugin started, on day 1.
ASSUME StoredAssumption ==
    /\ Payloads \subseteq SUBSET Messages
    /\ Stored \subseteq [SessionIds -> Row \cup {None}]
    /\ \A rows \in Stored : \A s, t \in SessionIds :
          rows[s] # None =>
             /\ rows[s].updated <= 1
             /\ IsFiniteSet(rows[s].messages)
             /\ rows[s].active /\ rows[t] # None /\ rows[t].active => s = t

\* used: the day of the last change a user made to the session or its messages;
\* by: what wrote updated_at last, or "edit" if a message was edited since and
\* updated_at has not followed; whole: the row was written whole since a
\* session was last activated; overwritten: a total was written over another, or
\* a session came with a total, in this instance of the plugin or one before it.
Past == [used : 0..MaxTime, by : {"clock", "sent", "summary", "edit"},
         whole : BOOLEAN, overwritten : BOOLEAN]

Forgotten == [used |-> 0, by |-> "sent", whole |-> FALSE, overwritten |-> FALSE]

Exists(s) == table[s] # None

\* The total of a row is what its messages and summaries came with.
TotalIsSum(row) ==
    row.total = MapThenSumSet(LAMBDA m : Size[m], row.messages)
                  + row.summaries * SummaryTokens

-----------------------------------------------------------------------------
(***************************************************************************)
(* Requests                                                                *)
(***************************************************************************)

\* kind tells the requests apart that share a step.
Idle == [at |-> "idle", kind |-> None, session |-> None, row |-> None, messages |-> {}]

Goto(r, label) == [r EXCEPT !.at = label]

Request(label, kind, s, row, messages) ==
    [at |-> label, kind |-> kind, session |-> s, row |-> row, messages |-> messages]

Arrives(p) == req[p].at = "idle" /\ left > 0 /\ left' = left - 1

\* p serves r from now on; the table stays.
Continue(p, r) ==
    /\ req' = [req EXCEPT ![p] = r]
    /\ UNCHANGED <<backend, table, now, past>>

\* A call of the database may fail before it has changed anything.
MayFail == backend = "db"

\* The row of s becomes row, about which h is remembered, and p goes on with r.
Write(p, s, row, h, r) ==
    /\ table' = [table EXCEPT ![s] = row]
    /\ past' = [past EXCEPT ![s] = h]
    /\ req' = [req EXCEPT ![p] = r]
    /\ UNCHANGED <<backend, now>>

\* The rows of gone disappear with their messages.
Drop(gone) ==
    /\ table' = [s \in SessionIds |-> IF s \in gone THEN None ELSE table[s]]
    /\ past' = [s \in SessionIds |-> IF s \in gone THEN Forgotten ELSE past[s]]

-----------------------------------------------------------------------------
(***************************************************************************)
(* Writing whole rows                                                      *)
(***************************************************************************)

\* What a browser may send: a session as it is now, active, or a copy of earlier
\* days without a total.
Sent(s, messages) ==
    {[active |-> fresh, updated |-> IF fresh THEN now ELSE 0,
      total |-> IF fresh /\ Exists(s) THEN table[s].total ELSE 0,
      messages |-> messages, covered |-> {}, summaries |-> 0] : fresh \in BOOLEAN}

\* handleCreateSession: a new session has no total yet.
PostSession(p, s, messages) ==
    /\ Arrives(p)
    /\ \E row \in Sent(s, messages) :
          Continue(p, Request("create", "create", s, [row EXCEPT !.total = 0], messages))

\* handleUpdateSession.
PutSession(p, s, messages) ==
    /\ Arrives(p)
    /\ \E row \in Sent(s, messages) :
          Continue(p, Request("update", "put", s, row, messages))

\* handlePostHistory looks whether the session exists; a look that fails finds
\* nothing.
PostHistory(p, s, messages) ==
    /\ Arrives(p)
    /\ \E row \in Sent(s, messages) :
          \/ Exists(s) /\ Continue(p, Request("update", "history", s, row, messages))
          \/ /\ ~Exists(s) \/ MayFail
             /\ Continue(p, Request("create", "history", s, row, messages))

Saving(r) == IF r.messages = {} THEN Idle ELSE Goto(r, "save")

\* Only handlePostHistory goes on when the storage refuses the row.
Refused(r) == IF r.kind = "history" THEN Saving(r) ELSE Idle

\* CreateSession: the database takes the row without its messages.
CreateSession(p) ==
    LET r == req[p]
        row == IF backend = "db" THEN [r.row EXCEPT !.messages = {}] ELSE r.row
    IN
    /\ r.at = "create"
    /\ IF Exists(r.session) THEN Continue(p, Refused(r))
       ELSE Write(p, r.session, row,
                  [used |-> now, by |-> "sent", whole |-> TRUE,
                   overwritten |-> row.total # 0],
                  Saving(r))
    /\ UNCHANGED left

\* The columns of the database that UpdateSession sets, and the whole session
\* in memory.
Overwritten(s, row) ==
    IF backend = "memory" THEN row
    ELSE [table[s] EXCEPT !.active = row.active, !.updated = row.updated,
                          !.total = row.total]

\* The total s had gives way to another.
WrittenWhole(s, row, by) ==
    [used |-> now, by |-> by, whole |-> TRUE,
     overwritten |-> past[s].overwritten \/ row.total # table[s].total]

\* UpdateSession.
UpdateSession(p) ==
    LET r == req[p]
        s == r.session
    IN
    /\ r.at = "update"
    /\ IF ~Exists(s) THEN Continue(p, Refused(r))
       ELSE Write(p, s, Overwritten(s, r.row), WrittenWhole(s, r.row, "sent"), Saving(r))
    /\ UNCHANGED left

\* handleRenameSession reads the session, without what summaries cover ...
RenameSession(p, s) ==
    /\ Arrives(p)
    /\ Exists(s)
    /\ Continue(p, Request("rename", "rename", s,
          [table[s] EXCEPT !.updated = now, !.messages = @ \ table[s].covered], {}))

\* ... and writes all of it back.
WriteBack(p) ==
    LET r == req[p]
        s == r.session
    IN
    /\ r.at = "rename"
    /\ IF ~Exists(s) THEN Continue(p, Idle)
       ELSE Write(p, s, Overwritten(s, r.row), WrittenWhole(s, r.row, "clock"), Idle)
    /\ UNCHANGED left

-----------------------------------------------------------------------------
(***************************************************************************)
(* Messages                                                                *)
(***************************************************************************)

\* Mutation: a repeated message is added to the total again.
InsertedAgain(s, m) ==
    [table[s] EXCEPT !.messages = @ \cup {m}, !.updated = Stamp[m], !.total = @ + Size[m]]

\* AddMessage and SaveMessage leave the row alone if they know the message.
Inserted(s, m) ==
    IF m \in table[s].messages THEN table[s]
    ELSE [table[s] EXCEPT !.messages = @ \cup {m}, !.updated = Stamp[m],
                          !.total = @ + Size[m]]

\* Message m arrives in its session, after which p goes on with r.
Insert(p, m, r) ==
    LET s == Owner[m] IN
    IF ~Exists(s) THEN Continue(p, r)
    ELSE Write(p, s, Inserted(s, m),
               IF m \in table[s].messages THEN past[s]
               ELSE [past[s] EXCEPT !.used = now, !.by = "sent"], r)

\* handleAddMessage; a message arrives when it was written or later, and may
\* arrive again.
AddMessage(p, m) ==
    /\ Arrives(p)
    /\ Stamp[m] <= now
    /\ Insert(p, m, Idle)

\* SaveMessage for the messages that came with a session, one by one.
Chosen(r) == CHOOSE m \in r.messages : TRUE
ChosenDone(r) == Saving([r EXCEPT !.messages = @ \ {Chosen(r)}])

SaveMessage(p) ==
    /\ req[p].at = "save"
    /\ Insert(p, Chosen(req[p]), ChosenDone(req[p]))
    /\ UNCHANGED left

\* Mutation: updated_at is rounded up.
TouchedTomorrow(s) == [table[s] EXCEPT !.updated = now + 1]

\* Mutation: updated_at is left as it is.
TouchedNot(s) == table[s]

Touched(s) == [table[s] EXCEPT !.updated = now]

\* handleUpdateMessage: the database changes the message and touches the row
\* in two statements without a transaction.
UpdateMessage(p, s, m) ==
    /\ Arrives(p)
    /\ Exists(s)
    /\ m \in table[s].messages
    /\ IF backend = "db"
       THEN Write(p, s, table[s], [past[s] EXCEPT !.used = now, !.by = "edit"],
                  Request("touch", "edit", s, None, {}))
       ELSE Write(p, s, Touched(s), [past[s] EXCEPT !.used = now, !.by = "clock"], Idle)

Touch(p) ==
    LET s == req[p].session IN
    /\ req[p].at = "touch"
    /\ IF Exists(s) THEN Write(p, s, Touched(s), [past[s] EXCEPT !.by = "clock"], Idle)
       ELSE Continue(p, Idle)
    /\ UNCHANGED left

\* compactSession chooses at least two messages that no summary covers ...
CompactSession(p, s) ==
    LET batch == table[s].messages \ table[s].covered IN
    /\ Arrives(p)
    /\ Exists(s)
    /\ Cardinality(batch) >= 2
    /\ Continue(p, Request("summarize", "compact", s, None, batch))

\* ... and SaveSummary adds a message that is as old as the oldest of them.
SaveSummary(p) ==
    LET r == req[p]
        s == r.session
    IN
    /\ r.at = "summarize"
    /\ IF ~Exists(s) THEN Continue(p, Idle)
       ELSE Write(p, s,
                  [table[s] EXCEPT !.updated = Min({Stamp[m] : m \in r.messages}),
                                   !.total = @ + SummaryTokens, !.summaries = @ + 1,
                                   !.covered = @ \cup r.messages],
                  [past[s] EXCEPT !.by = "summary"], Idle)
    /\ UNCHANGED left

\* What is left to do once a call of the database has failed: an edit has been
\* made and is not touched, messages that came with a session are skipped one by
\* one.
Failed(r) ==
    IF r.at \in {"create", "update"} THEN Refused(r)
    ELSE IF r.at = "save" THEN ChosenDone(r) ELSE Idle

CallFails(p) ==
    /\ req[p].at # "idle"
    /\ MayFail
    /\ Continue(p, Failed(req[p]))
    /\ UNCHANGED left

-----------------------------------------------------------------------------
(***************************************************************************)
(* The active session, and the end of sessions                             *)
(***************************************************************************)

\* Mutation: the other sessions stay active.
SetActiveSessionOnly(p, s) ==
    /\ Arrives(p)
    /\ table' = [t \in SessionIds |->
                    IF Exists(t) /\ t = s THEN [table[t] EXCEPT !.active = TRUE] ELSE table[t]]
    /\ past' = [t \in SessionIds |-> [past[t] EXCEPT !.whole = FALSE]]
    /\ UNCHANGED <<backend, now, req>>

\* SetActiveSession: the database rolls back if there is no such session, the
\* memory storage has deactivated the others by then.
SetActiveSession(p, s) ==
    /\ Arrives(p)
    /\ IF Exists(s) \/ backend = "memory"
       THEN /\ table' = [t \in SessionIds |->
                            IF Exists(t) THEN [table[t] EXCEPT !.active = (t = s)] ELSE None]
            /\ past' = [t \in SessionIds |-> [past[t] EXCEPT !.whole = FALSE]]
       ELSE UNCHANGED <<table, past>>
    /\ UNCHANGED <<backend, now, req>>

\* handleDeleteSession and handleClearAll.
DeleteSession(p, s) ==
    /\ Arrives(p)
    /\ Exists(s)
    /\ Drop({s})
    /\ UNCHANGED <<backend, now, req>>

ClearAll(p) ==
    /\ Arrives(p)
    /\ Drop(SessionIds)
    /\ UNCHANGED <<backend, now, req>>

Expired == {s \in SessionIds : Exists(s) /\ table[s].updated < now - Retention}

\* DeleteExpiredSessions.
Sweep == Drop(Expired) /\ UNCHANGED <<backend, now, req, left>>

\* A day passes; no request takes that long.
Tick ==
    /\ now < MaxTime
    /\ \A p \in Procs : req[p].at = "idle"
    /\ now' = now + 1
    /\ UNCHANGED <<backend, table, req, left, past>>

-----------------------------------------------------------------------------
Init ==
    /\ backend \in {"db", "memory"}
    /\ table \in Stored
    /\ now = 1
    /\ req = [p \in Procs |-> Idle]
    /\ left = MaxRequests
    /\ past = [s \in SessionIds |->
                  IF Exists(s)
                  THEN [Forgotten EXCEPT !.used = table[s].updated,
                                         !.overwritten = ~TotalIsSum(table[s])]
                  ELSE Forgotten]

Begin(p) ==
    \/ \E s \in SessionIds : \E messages \in {ms \in Payloads : \A m \in ms : Owner[m] = s} :
          \/ PostSession(p, s, messages)
          \/ PutSession(p, s, messages)
          \/ PostHistory(p, s, messages)
    \/ \E s \in SessionIds :
          \/ RenameSession(p, s) \/ CompactSession(p, s)
          \/ SetActiveSession(p, s) \/ DeleteSession(p, s)
    \/ \E m \in Messages : AddMessage(p, m) \/ UpdateMessage(p, Owner[m], m)
    \/ ClearAll(p)

Proceed(p) ==
    \/ CreateSession(p) \/ UpdateSession(p) \/ WriteBack(p)
    \/ SaveMessage(p) \/ Touch(p) \/ SaveSummary(p) \/ CallFails(p)

-----------------------------------------------------------------------------
(***************************************************************************)
(* Properties                                                              *)
(***************************************************************************)

Labels == {"idle", "create", "update", "save", "rename", "touch", "summarize"}

Requests == [at : Labels, kind : {None, "create", "put", "history", "rename", "edit", "compact"},
             session : SessionIds \cup {None}, row : Row \cup {None},
             messages : SUBSET Messages]

\* Nobody has written to s within the retention.  Or somebody has, but the last
\* thing written was a summary, which sets updated_at back to the oldest message
\* summarised; or a session or message from an earlier time of the browser; or
\* a message was edited and updated_at has not followed: it is about to, or the
\* second statement of the edit has failed.
Sweepable(s) ==
    \/ past[s].used < now - Retention
    \/ past[s].by = "summary"
    \/ past[s].by \in {"sent", "edit"} /\ table[s].updated < past[s].used

\* Two sessions are active only if one of them was written whole since the last
\* activation: new sessions come in active, updates bring the browser's flag,
\* and a rename writes back the flag it has read.
OneActive ==
    \A s, t \in SessionIds :
        /\ s # t
        /\ Exists(s) /\ table[s].active
        /\ Exists(t) /\ table[t].active
        => past[s].whole \/ past[t].whole

\* "duplicate message IDs are ignored and should not mutate session totals": in
\* the database the total is the sum of what messages and summaries arrived
\* with, each counted once whatever is repeated, unless the browser sent another
\* total, or a rename that was overtaken wrote one.
TotalAddsUp ==
    backend = "db" => \A s \in SessionIds :
        Exists(s) /\ ~past[s].overwritten => TotalIsSum(table[s])
=============================================================================
