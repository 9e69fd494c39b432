---------------------------- MODULE Conversation ----------------------------
(***************************************************************************)
(* One session as the HTTP handlers serve it (pkg/plugin/resources.go):    *)
(* requests and the preloader (pkg/cache/session_preloader.go) read and    *)
(* change its messages in a storage (DBStorage or MemoryStorage), through  *)
(* the message cache (pkg/cache/message_cache.go) for the first page, and  *)
(* compact them into summaries.                                            *)
(*                                                                         *)
(* A call of a storage is one step; between the calls of a handler others  *)
(* run.  What request p is about to do is req[p].at:                       *)
(*   "idle"        nothing                                                 *)
(*   "cache"       put the page it has read in the cache                   *)
(*   "create", "update"   write the session it was sent                    *)
(*   "save"        save the messages it was sent, one by one               *)
(*   "rename"      write back the session it has read                      *)
(*   "compact"     read which messages are covered by summaries            *)
(*   "choose"      read the messages: the batch is the oldest uncovered    *)
(*   "summarize"   save the summary of the messages it has chosen          *)
(*   "invalidate"  remove the page from the cache                          *)
(***************************************************************************)
EXTENDS Pages

CONSTANTS
    Procs,        \* goroutines serving requests, the preloader among them
    Sent,         \* the messages a browser may add to the session
    Payloads,     \* the sequences of messages it may send with the session
    SummaryIds,   \* identifiers of summaries
    Size,         \* Size[id]: the number of tokens of message id
    SummaryTokens,\* token_count of a summary
    Stored,       \* the logs a session may have to begin with
    Limits,       \* page sizes asked for
    PreloadLimit, \* PreloadPageSize (50 in the code)
    BatchTokens,  \* compactionBatchTokens (10000 in the code)
    Full,         \* tokens at which a read of the statistics compacts
    MaxPasses,    \* maxAutoCompactionPasses (3 in the code)
    MaxRequests   \* bound: requests made

\* The identifiers of the messages summaries are made of.
Originals == {m.id : m \in Sent} \cup UNION {Ids(s) : s \in Stored}

\* A message that comes from the browser.
Original == [id : Originals, ts : Int, tok : Nat, pinned : BOOLEAN, summary : {FALSE},
             error : BOOLEAN, covers : {{}}, knew : {{}}]

ASSUME ConversationAssumption ==
    /\ Sent \subseteq Original
    /\ \A s \in Payloads : s \in Seq(Sent) /\ Unique(s)
    /\ \A s \in Stored : s \in Seq(Original) /\ Unique(s)
    /\ None \notin Originals \cup SummaryIds
    /\ SummaryIds \cap Originals = {}
    /\ \A id \in Originals : Size[id] \in Nat
    /\ SummaryTokens \in Nat
    /\ Limits \subseteq Nat
    /\ PreloadLimit \in Nat
    /\ Full \in Nat
    /\ MaxPasses \in Nat \ {0}
    /\ MaxRequests \in Nat

VARIABLES
    backend,   \* which storage the plugin was configured with
    exists,    \* the session exists
    log,       \* its messages
    cache,     \* None, or the cached page and the limit it was read with
    req,       \* the request each goroutine is serving
    left,      \* requests still to be made
    lapsed,    \* history: the cached page went stale and nobody will remove it
    kept,      \* history: messages saved since the session was created
    rewritten, \* history: a whole session was written over a log not just read
    astray     \* history: summaries whose messages were deleted under them

history == <<lapsed, kept, rewritten, astray>>
store == <<exists, log>>
vars == <<backend, store, cache, req, left, history>>

-----------------------------------------------------------------------------
(***************************************************************************)
(* Requests                                                                *)
(***************************************************************************)

\* kind tells requests apart that share a step; missed is a history of what
\* happened to the log since the request has read it.
Idle == [at |-> "idle", kind |-> None, msgs |-> <<>>, limit |-> 0, known |-> {},
         covered |-> {}, passes |-> 0, missed |-> {}]

Goto(r, label) == [r EXCEPT !.at = label]

HasRead == {"cache", "rename", "choose", "summarize"}

\* What happens to the log when it becomes new.
Difference(new) ==
    (IF new = log THEN {} ELSE {"change"})
      \cup (IF Ids(log) \subseteq Ids(new) THEN {} ELSE {"removal"})

Missing(r, what) ==
    IF r.at \in HasRead THEN [r EXCEPT !.missed = @ \cup what] ELSE r

\* p's step makes the log new, and the request p serves r.
Commit(p, new, r) ==
    /\ log' = new
    /\ req' = [q \in Procs |-> IF q = p THEN r ELSE Missing(req[q], Difference(new))]

\* p serves r from now on; the log stays.
Continue(p, r) ==
    /\ req' = [req EXCEPT ![p] = r]
    /\ UNCHANGED <<store, backend>>

Arrives(p) == req[p].at = "idle" /\ left > 0 /\ left' = left - 1

\* A call of the database may fail before it has changed anything.
MayFail == backend = "db"

\* The log becomes new in a step after which no one removes the cached page.
LapsesWith(new) == lapsed' = (lapsed \/ (cache # None /\ new # log))

-----------------------------------------------------------------------------
(***************************************************************************)
(* Reading the first page                                                  *)
(***************************************************************************)

\* handleGetSessionMessages, the page is not cached: read from the storage.
ReadPage(p, limit) ==
    /\ Arrives(p)
    /\ exists
    /\ cache = None
    /\ Continue(p, [Goto(Idle, "cache") EXCEPT
          !.limit = limit, !.msgs = FromStorage(backend, log, None, limit).messages])
    /\ UNCHANGED <<cache, history>>

\* PreloadRecentSessions, whatever the cache holds; empty pages are not cached.
Preload(p) ==
    /\ Arrives(p)
    /\ log # <<>>
    /\ Continue(p, [Goto(Idle, "cache") EXCEPT
          !.limit = PreloadLimit,
          !.msgs = GetSessionMessages(backend, log, None, PreloadLimit)])
    /\ UNCHANGED <<cache, history>>

\* MessageCache.Set.
CachePage(p) ==
    /\ req[p].at = "cache"
    /\ cache' = [page |-> req[p].msgs, limit |-> req[p].limit]
    /\ lapsed' = ("change" \in req[p].missed)
    /\ Continue(p, Idle)
    /\ UNCHANGED <<left, kept, rewritten, astray>>

\* The cache drops a Set under pressure.
DropPage(p) ==
    /\ req[p].at = "cache"
    /\ Continue(p, Idle)
    /\ UNCHANGED <<cache, left, history>>

\* Eviction and the end of a page's time to live.
Evict ==
    /\ cache # None
    /\ cache' = None
    /\ lapsed' = FALSE
    /\ UNCHANGED <<backend, store, req, left, kept, rewritten, astray>>

-----------------------------------------------------------------------------
(***************************************************************************)
(* Changing one message                                                    *)
(***************************************************************************)

\* Mutation: the write is not idempotent.
AppendedAlways(m) == Append(log, m)

\* AddMessage and SaveMessage of both storages.
Appended(m) == IF m.id \in Ids(log) THEN log ELSE Append(log, m)

\* The log with m in the place of the message that has its identifier.
Changed(m) == [i \in DOMAIN log |-> IF log[i].id = m.id THEN m ELSE log[i]]

\* Mutation: the new message is not removed from the cache.
AddMessageUncached(p, m) ==
    /\ Arrives(p)
    /\ exists
    /\ Commit(p, Appended(m), Idle)
    /\ kept' = kept \cup {m.id}
    /\ UNCHANGED <<backend, exists, cache, lapsed, rewritten, astray>>

\* handleAddMessage.
AddMessage(p, m) ==
    /\ Arrives(p)
    /\ exists
    /\ Commit(p, Appended(m), Goto(Idle, "invalidate"))
    /\ kept' = kept \cup {m.id}
    /\ UNCHANGED <<backend, exists, cache, lapsed, rewritten, astray>>

\* handleUpdateMessage; the edit resets the token count.
Edited(id) == Changed([Message(log, id) EXCEPT !.tok = 0])

UpdateMessage(p, id) ==
    /\ Arrives(p)
    /\ id \in Ids(log)
    /\ Commit(p, Edited(id), Goto(Idle, "invalidate"))
    /\ UNCHANGED <<backend, exists, cache, history>>

\* The database has made the edit but cannot touch the session: the handler
\* answers that it failed, and leaves the cache alone.
UpdateMessageFails(p, id) ==
    /\ backend = "db"
    /\ Arrives(p)
    /\ id \in Ids(log)
    /\ Commit(p, Edited(id), Idle)
    /\ LapsesWith(Edited(id))
    /\ UNCHANGED <<backend, exists, cache, kept, rewritten, astray>>

\* handleTogglePin.
TogglePin(p, id, isPinned) ==
    /\ Arrives(p)
    /\ id \in Ids(log)
    /\ Commit(p, Changed([Message(log, id) EXCEPT !.pinned = isPinned]),
              Goto(Idle, "invalidate"))
    /\ UNCHANGED <<backend, exists, cache, history>>

\* UpdateMessageTokenCount, called while token statistics are read: the cached
\* page keeps the old count.
CountTokens(id) ==
    LET new == Changed([Message(log, id) EXCEPT !.tok = Size[id]]) IN
    /\ id \in Ids(log) \ SummaryIds
    /\ Message(log, id).tok = 0
    /\ log' = new
    /\ req' = [q \in Procs |-> Missing(req[q], Difference(new))]
    /\ LapsesWith(new)
    /\ UNCHANGED <<backend, exists, cache, left, kept, rewritten, astray>>

\* MessageCache.Invalidate; then the next pass of an automatic compaction.
Usage == Tokens(FilterCompacted(log))

Invalidate(p) ==
    /\ req[p].at = "invalidate"
    /\ cache' = None
    /\ lapsed' = FALSE
    /\ Continue(p, IF req[p].passes > 0 /\ exists /\ Usage >= Full
                   THEN [Goto(Idle, "compact") EXCEPT !.passes = req[p].passes]
                   ELSE Idle)
    /\ UNCHANGED <<left, kept, rewritten, astray>>

-----------------------------------------------------------------------------
(***************************************************************************)
(* Writing a session and its messages                                      *)
(***************************************************************************)

\* A request of the given kind brings the session with its messages.
Bring(p, label, kind, messages) ==
    /\ Arrives(p)
    /\ Continue(p, [Goto(Idle, label) EXCEPT !.kind = kind, !.msgs = messages])
    /\ UNCHANGED <<cache, history>>

\* handleCreateSession, handleUpdateSession, and handlePostHistory, which
\* first looks whether the session exists; a look that fails finds nothing.
PostSession(p, messages) == Bring(p, "create", "create", messages)
PutSession(p, messages) == Bring(p, "update", "put", messages)
PostHistory(p, messages) ==
    \/ exists /\ Bring(p, "update", "history", messages)
    \/ (~exists \/ MayFail) /\ Bring(p, "create", "history", messages)

\* What follows the writing of a session: its messages are saved, then only a
\* new session's page is left in the cache.
Saving(r) ==
    IF r.msgs # <<>> THEN Goto(r, "save")
    ELSE IF r.kind = "create" THEN Idle ELSE Goto(Idle, "invalidate")

\* The storage refuses the session or fails: only handlePostHistory goes on.
Refused(p, r) ==
    /\ Continue(p, IF r.kind = "history" THEN Saving(r) ELSE Idle)
    /\ UNCHANGED <<cache, left, history>>

\* The database takes the session without its messages.
CreateSession(p) ==
    LET new == IF backend = "db" THEN <<>> ELSE req[p].msgs IN
    /\ req[p].at = "create"
    /\ \/ /\ exists \/ MayFail
          /\ Refused(p, req[p])
       \/ /\ ~exists
          /\ exists' = TRUE
          /\ Commit(p, new, Saving(req[p]))
          /\ kept' = Ids(new)
          /\ LapsesWith(new)
          /\ UNCHANGED <<backend, cache, left, rewritten, astray>>

\* Mutation: the database, too, replaces the messages.
UpdateSessionWhole(p) ==
    LET new == req[p].msgs IN
    /\ req[p].at = "update"
    /\ \/ /\ ~exists \/ MayFail
          /\ Refused(p, req[p])
       \/ /\ exists
          /\ Commit(p, new, Saving(req[p]))
          /\ rewritten' = (rewritten \/ backend = "memory")
          /\ UNCHANGED <<backend, exists, cache, left, lapsed, kept, astray>>

\* The database updates the session's row; the memory storage replaces the
\* session and its messages by what the browser has sent.
UpdateSession(p) ==
    LET new == IF backend = "db" THEN log ELSE req[p].msgs IN
    /\ req[p].at = "update"
    /\ \/ /\ ~exists \/ MayFail
          /\ Refused(p, req[p])
       \/ /\ exists
          /\ Commit(p, new, Saving(req[p]))
          /\ rewritten' = (rewritten \/ backend = "memory")
          /\ UNCHANGED <<backend, exists, cache, left, lapsed, kept, astray>>

\* The request has the first of its messages behind it.
FirstDone(r) == Saving([r EXCEPT !.msgs = Tail(@)])

\* SaveMessage for the first of the messages left ...
SaveMessage(p) ==
    LET m == Head(req[p].msgs) IN
    /\ req[p].at = "save"
    /\ exists
    /\ Commit(p, Appended(m), FirstDone(req[p]))
    /\ kept' = kept \cup {m.id}
    /\ IF req[p].kind = "create" THEN LapsesWith(Appended(m)) ELSE UNCHANGED lapsed
    /\ UNCHANGED <<backend, exists, cache, left, rewritten, astray>>

\* ... which may fail: the handler logs it, goes on, and reports success.
SaveMessageFails(p) ==
    /\ req[p].at = "save"
    /\ ~exists \/ MayFail
    /\ Continue(p, FirstDone(req[p]))
    /\ UNCHANGED <<cache, left, history>>

\* handleRenameSession reads the session, without what summaries cover ...
RenameSession(p) ==
    /\ Arrives(p)
    /\ exists
    /\ Continue(p, [Goto(Idle, "rename") EXCEPT
          !.msgs = FilterCompacted(log), !.covered = BuildSummarizedIDSet(log)])
    /\ UNCHANGED <<cache, history>>

\* The messages as they are now, where they are still stored.
Refreshed(messages) ==
    [i \in DOMAIN messages |->
        IF messages[i].id \in Ids(log) THEN Message(log, messages[i].id) ELSE messages[i]]

\* ... and writes back what it has read.  The memory storage hands out its own
\* slice if there is nothing to filter: changes made to single messages since
\* are then in it, unless the storage has moved to a larger slice.
WriteBack(p) ==
    /\ req[p].at = "rename"
    /\ \E new \in IF backend = "db" \/ ~exists THEN {log}
                  ELSE {req[p].msgs} \cup
                       (IF req[p].covered = {} THEN {Refreshed(req[p].msgs)} ELSE {}) :
          /\ Commit(p, new, Idle)
          /\ LapsesWith(new)
    /\ rewritten' = (rewritten \/ (backend = "memory" /\ "change" \in req[p].missed))
    /\ UNCHANGED <<backend, exists, cache, left, kept, astray>>

\* The session and its messages go, whoever is working on them.
RemoveSession(p, r) ==
    /\ exists
    /\ exists' = FALSE
    /\ log' = <<>>
    /\ req' = [q \in Procs |-> IF q = p THEN r ELSE Missing(req[q], {"change", "removal"})]
    /\ kept' = {}
    /\ rewritten' = FALSE
    /\ astray' = {}

\* handleDeleteSession.
DeleteSession(p) ==
    /\ Arrives(p)
    /\ RemoveSession(p, Goto(Idle, "invalidate"))
    /\ UNCHANGED <<backend, cache, lapsed>>

\* handleClearAll, and the sweep of expired sessions: the cache is left alone.
ClearAll(p) ==
    /\ Arrives(p)
    /\ RemoveSession(p, Idle)
    /\ lapsed' = (lapsed \/ cache # None)
    /\ UNCHANGED <<backend, cache>>

-----------------------------------------------------------------------------
(***************************************************************************)
(* Compaction                                                              *)
(***************************************************************************)

\* handleCompactSession makes one pass.
CompactSession(p) ==
    /\ Arrives(p)
    /\ Continue(p, [Goto(Idle, "compact") EXCEPT !.passes = 1])
    /\ UNCHANGED <<cache, history>>

\* handleGetSessionTokenStats makes some while the context is full.
ReadTokenStats(p) ==
    /\ Arrives(p)
    /\ exists
    /\ Usage >= Full
    /\ Continue(p, [Goto(Idle, "compact") EXCEPT !.passes = MaxPasses])
    /\ UNCHANGED <<cache, history>>

\* Mutation: a compaction takes what is covered already.
BatchUncovered(r, covered) ==
    LET batch == OldestNonSummary(backend, log, {}, BatchTokens) IN
    IF Len(batch) < 2 THEN Idle ELSE [Goto(r, "summarize") EXCEPT !.msgs = batch]

\* compactSession: a batch of one message is left alone.
Batch(r, covered) ==
    LET batch == OldestNonSummary(backend, log, covered, BatchTokens) IN
    IF Len(batch) < 2 THEN Idle ELSE [Goto(r, "summarize") EXCEPT !.msgs = batch]

\* getCoveredMessageIDs is a query of its own on the database.
ReadCovered(p) ==
    LET covered == BuildSummarizedIDSet(log)
        r == [req[p] EXCEPT !.covered = covered, !.known = Ids(log) \cap SummaryIds]
    IN
    /\ req[p].at = "compact"
    /\ Continue(p, IF backend = "db" THEN Goto(r, "choose") ELSE Batch(r, covered))
    /\ UNCHANGED <<cache, left, history>>

\* GetOldestNonSummaryMessages of the database.
ChooseBatch(p) ==
    /\ req[p].at = "choose"
    /\ Continue(p, Batch(req[p], req[p].covered))
    /\ UNCHANGED <<cache, left, history>>

\* Identifiers of summaries are made of the time: they are not used again.
Unused == {x \in SummaryIds : x \notin Ids(log) /\ \A q \in Procs : x \notin Ids(req[q].msgs)}

Summary(r) ==
    [id |-> CHOOSE x \in Unused : TRUE,
     ts |-> Min({r.msgs[i].ts : i \in DOMAIN r.msgs}),
     tok |-> SummaryTokens, pinned |-> FALSE, summary |-> TRUE, error |-> FALSE,
     covers |-> Ids(r.msgs),
     knew |-> IF "removal" \in r.missed THEN {} ELSE r.known]

\* SaveSummary.
SaveSummary(p) ==
    LET summary == Summary(req[p]) IN
    /\ req[p].at = "summarize"
    /\ exists
    /\ Unused # {}
    /\ Commit(p, Append(log, summary),
              [Goto(Idle, "invalidate") EXCEPT !.passes = req[p].passes - 1])
    /\ astray' = IF "removal" \in req[p].missed THEN astray \cup {summary.id} ELSE astray
    /\ UNCHANGED <<backend, exists, cache, left, lapsed, kept, rewritten>>

\* The compaction ends where a query or SaveSummary fails.
CompactionFails(p) ==
    /\ \/ req[p].at = "summarize" /\ ~exists
       \/ req[p].at \in {"compact", "choose", "summarize"} /\ MayFail
    /\ Continue(p, Idle)
    /\ UNCHANGED <<cache, left, history>>

-----------------------------------------------------------------------------
Init ==
    /\ backend \in {"db", "memory"}
    /\ log \in Stored
    /\ exists \in (IF log = <<>> THEN BOOLEAN ELSE {TRUE})
    /\ cache = None
    /\ req = [p \in Procs |-> Idle]
    /\ left = MaxRequests
    /\ lapsed = FALSE
    /\ kept = Ids(log)
    /\ rewritten = FALSE
    /\ astray = {}

Request(p) ==
    \/ \E limit \in Limits : ReadPage(p, limit)
    \/ Preload(p)
    \/ \E m \in Sent : AddMessage(p, m)
    \/ \E id \in Ids(log) : UpdateMessage(p, id) \/ UpdateMessageFails(p, id)
    \/ \E id \in Ids(log), isPinned \in BOOLEAN : TogglePin(p, id, isPinned)
    \/ \E messages \in Payloads :
          PostSession(p, messages) \/ PutSession(p, messages) \/ PostHistory(p, messages)
    \/ RenameSession(p) \/ DeleteSession(p) \/ ClearAll(p)
    \/ CompactSession(p) \/ ReadTokenStats(p)

Proceed(p) ==
    \/ CachePage(p) \/ DropPage(p) \/ Invalidate(p)
    \/ CreateSession(p) \/ UpdateSession(p) \/ WriteBack(p)
    \/ SaveMessage(p) \/ SaveMessageFails(p)
    \/ ReadCovered(p) \/ ChooseBatch(p) \/ SaveSummary(p) \/ CompactionFails(p)

Next ==
    \/ \E p \in Procs : Request(p) \/ Proceed(p)
    \/ \E id \in Ids(log) : CountTokens(id)
    \/ Evict

Spec == Init /\ [][Next]_vars

-----------------------------------------------------------------------------
(***************************************************************************)
(* Properties                                                              *)
(***************************************************************************)

Labels == {"idle", "cache", "create", "update", "save", "rename", "compact",
           "choose", "summarize", "invalidate"}

Kinds == {"create", "put", "history"}

\* A message of the session: one from the browser, or a summary of such.
ChatMessage ==
    {m \in [id : Originals \cup SummaryIds, ts : Int, tok : Nat, pinned : BOOLEAN,
            summary : BOOLEAN, error : BOOLEAN,
            covers : SUBSET Originals, knew : SUBSET SummaryIds] :
        /\ m.summary <=> m.id \in SummaryIds
        /\ ~m.summary => m.covers = {} /\ m.knew = {}}

ChatMessages == {s \in Seq(ChatMessage) : Unique(s)}

RequestType ==
    [at : Labels, kind : {None} \cup Kinds, msgs : ChatMessages, limit : Nat,
     known : SUBSET SummaryIds, covered : SUBSET Originals, passes : Nat,
     missed : SUBSET {"change", "removal"}]

\* Every variable has its type, and messages are unique in the log, although
\* requests add the same message at the same time.
TypeOK ==
    /\ backend \in {"db", "memory"}
    /\ exists \in BOOLEAN
    /\ ~exists => log = <<>>
    /\ log \in ChatMessages
    /\ cache \in {None} \cup [page : ChatMessages, limit : Nat]
    /\ req \in [Procs -> RequestType]
    /\ left \in 0..MaxRequests
    /\ lapsed \in BOOLEAN
    /\ kept \subseteq Originals
    /\ rewritten \in BOOLEAN
    /\ astray \subseteq SummaryIds

AtRest == cache = None /\ \A p \in Procs : req[p].at = "idle"

FirstPage(limit) == FromStorage(backend, log, None, limit).messages

\* The cached page is the first page, or a request that changed the messages
\* is about to remove it, or it was put there by a read that a change
\* overtook, or one of the changes went by that leave the cache alone: a token
\* count, a session created, written back by a rename, cleared or expired, and
\* an edit that the database makes and reports as failed.
StaleIsExplained ==
    cache # None =>
        \/ exists /\ cache.page = FirstPage(cache.limit)
        \/ lapsed
        \/ \E p \in Procs : \/ req[p].at = "invalidate"
                            \/ req[p].at = "save" /\ req[p].kind # "create"

\* "preserving full history on disk" (FilterCompactedMessages): on the database
\* a message that was saved stays until its session goes, whatever is renamed,
\* updated and compacted meanwhile.  In memory it may also have given way to a
\* summary of it, and is only lost to a request that writes a whole session
\* over one it has not just read.
SavedIsKept ==
    \A id \in kept :
        \/ id \in Ids(log)
        \/ backend = "memory" /\ (rewritten \/ id \in BuildSummarizedIDSet(log))

\* Summaries stand for messages, never for summaries, so that what a summary
\* stands for is always represented in what is read.  On the database what a
\* summary stands for is stored beside it and no older than it, unless it was
\* deleted while the summary was made.
SummariesStandForMessages ==
    \A i \in DOMAIN log : log[i].summary =>
        /\ log[i].covers \cap SummaryIds = {}
        /\ backend = "db" /\ log[i].id \notin astray =>
              /\ Cardinality(log[i].covers) >= 2
              /\ log[i].covers \subseteq Ids(log)
              /\ \A k \in DOMAIN log :
                    log[k].id \in log[i].covers => log[k].ts >= log[i].ts

\* A message has two summaries only if neither compaction could know of the
\* other: an automatic and an explicit one that overlap.
SummarizedTwiceOnlyByOverlap ==
    \A i, k \in DOMAIN log :
        i # k /\ log[i].covers \cap log[k].covers # {} => log[i].id \notin log[k].knew

\* The messages of some pages, and the timestamps at which the pages end.
Shown(pages) == FlattenSeq([i \in DOMAIN pages |-> pages[i].messages])
Cuts(pages) == {Last(pages[i].messages).ts : i \in {k \in DOMAIN pages : pages[k].hasMore}}

\* A client that follows nextCursor sees every message once.  On the database
\* it misses those that have the timestamp of the last message of a page.
PagesVisitAll ==
    AtRest => \A limit \in 1..(Cap - 1) : \A pages \in {Visited(backend, log, limit)} :
        /\ Unique(Shown(pages))
        /\ \A m \in ToSet(log) :
              m \in ToSet(Shown(pages)) \/ (backend = "db" /\ m.ts \in Cuts(pages))

\* The pages of a search show every hit once, in order.  In memory they do
\* only if they all fit on one page: otherwise the first page is shown again.
SearchPagesTile ==
    AtRest => \A found \in 0..Len(log), limit \in 1..(Cap - 1) :
        LET hits == Take(log, found)
            pages == [n \in 1..Len(hits) |->
                        SearchMessages(backend, hits, limit, (n - 1) * limit)]
        IN backend = "db" \/ Len(hits) < limit => FlattenSeq(pages) = hits

\* Who follows the pages of the session, or of a search, sees everything there
\* is once, but for messages with the timestamp of a page's last one on the
\* database, and searches of several pages in memory.
PagesTile == PagesVisitAll /\ SearchPagesTile

\* A page that is up to date answers like the storage, but for requests of its
\* own size or more: to these it hides that there are more messages.
CacheAnswersLikeStorage ==
    cache # None /\ exists /\ cache.page = FirstPage(cache.limit) =>
        \A limit \in 1..Cap :
            \/ Answer(cache.page, limit) = FromStorage(backend, log, None, limit)
            \/ limit >= Len(cache.page) /\ Len(log) > Len(cache.page)

\* The selection for the context holds every pinned message that is not
\* compacted, exceeds the budget for their sake only, and leaves out nothing
\* that would have fitted; it is in chronological order.
BudgetIsSpent ==
    AtRest => \A budget \in 0..Full :
        LET selection == ByTokenBudget(backend, log, budget)
            visible == ToSet(FilterCompacted(log))
        IN /\ \A m \in visible \ ToSet(selection) :
                ~m.pinned /\ Tokens(selection) + m.tok > budget
           /\ Tokens(selection) <= Max({budget, Tokens(Pinned(selection))})
           /\ \A i, k \in DOMAIN selection : i < k => ~Newer(selection[i], selection[k])

\* The context window holds all error messages the storage selects, the newest
\* others, at least the minimum of them if there are, and is otherwise within
\* budget.
WindowKeepsNewest ==
    AtRest => \A budget \in 0..Full, least \in 1..2 :
        \A window \in {ContextWindow(backend, log, least, budget)} :
            LET errors == ErrorMessages(window)
                regular == RegularMessages(window)
            IN /\ \A m \in ToSet(ByTokenBudget(backend, log, budget)) \ ToSet(window) :
                    /\ ~m.error
                    /\ Len(regular) >= least
                    /\ \A i \in DOMAIN regular : ~Newer(m, regular[i])
               /\ Len(regular) <= least \/ Tokens(window) <= Max({budget, Tokens(errors)})
               /\ \A i, k \in DOMAIN window : i < k => ~Newer(window[i], window[k])
=============================================================================
