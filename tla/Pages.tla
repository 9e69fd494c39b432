-------------------------------- MODULE Pages --------------------------------
(***************************************************************************)
(* What a client that turns the pages of a session, or of a search, is     *)
(* shown of a log: GetSessionMessages and SearchMessages of the two        *)
(* storages, which return at most Cap messages, and the handler of pages.  *)
(***************************************************************************)
EXTENDS Messages

CONSTANTS
    None,   \* no message, no cursor, no page
    Cap     \* the largest page a storage returns (100 in the code)

ASSUME CapAssumption == Cap \in Nat \ {0}

\* What lies behind a cursor.  The database cuts by the timestamp of the
\* cursor and knows nothing behind an unknown one; the memory storage cuts by
\* position, and an unknown cursor is the beginning.
Behind(b, log, cursor) ==
    LET newest == Sorted(b, "newest", log)
        at == {i \in DOMAIN newest : newest[i].id = cursor}
    IN CASE cursor = None -> newest
         [] cursor # None /\ b = "db" ->
               Only(newest, {i \in DOMAIN newest : at # {} /\ newest[i].ts < Message(log, cursor).ts})
         [] cursor # None /\ b = "memory" ->
               SubSeq(newest, IF at = {} THEN 1 ELSE Max(at) + 1, Len(newest))

GetSessionMessages(b, log, cursor, limit) ==
    Take(Behind(b, log, cursor), IF limit > Cap THEN Cap ELSE limit)

\* handleGetSessionMessages: what it answers given what it was handed, by the
\* storage, which it asked for one message more, or by the cache.
Answer(messages, limit) ==
    [messages |-> Take(messages, limit), hasMore |-> Len(messages) > limit]

\* Mutation: no message more is asked for.
FromStorageExactly(b, log, cursor, limit) ==
    Answer(GetSessionMessages(b, log, cursor, limit), limit)

FromStorage(b, log, cursor, limit) ==
    Answer(GetSessionMessages(b, log, cursor, limit + 1), limit)

\* The pages a client sees that follows nextCursor from the first page on.
Visited(b, log, limit) ==
    LET Walk[n \in 0..Len(log)] ==
            IF n = 0 THEN <<FromStorage(b, log, None, limit)>>
            ELSE LET last == Last(Walk[n - 1]) IN
                 IF last.hasMore
                 THEN Append(Walk[n - 1],
                             FromStorage(b, log, Last(last.messages).id, limit))
                 ELSE Walk[n - 1]
    IN Walk[Len(log)]

\* Mutation: the next page begins one hit late.
SearchMessagesOffByOne(b, hits, limit, offset) ==
    SubSeq(hits, offset + 2, offset + limit)

\* SearchMessages, given all hits in the order of the storage.  The memory
\* storage returns as soon as it has limit hits, before it looks at the offset.
SearchMessages(b, hits, limit, offset) ==
    IF b = "memory" /\ Len(hits) >= limit THEN Take(hits, limit)
    ELSE Take(SubSeq(hits, offset + 1, Len(hits)), limit)
=============================================================================
