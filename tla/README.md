# Verification of cisco-aichat-app

TLA+ modules, TLC configurations and TLAPS proofs about the chat plugin in `src/`: a Grafana app whose Go
backend (`src/pkg`) stores users' chat sessions and whose React frontend (`src/src`) keeps a local copy of
them. What makes the program hard: HTTP requests are served by concurrent goroutines against storages that
hold few locks, a circuit breaker made of independent atomics, a pool of workers that counts tokens behind the
requests' backs, a cache beside the storage, and a browser that writes to its own copy first.

## 1. Inventory

### Components, their state and their operations

| Component | State | Operations | Modelled in |
|---|---|---|---|
| File storage `pkg/storage/file_storage.go` | one JSON file and one temporary file per user, cache of parsed histories, one mutex per user | reads and seven mutators per user, 2 sweeps over the cached users, `Close`; all through `loadUserHistory` and `saveUserHistory` | `History`, `ChatHistory`, `FileStorage` |
| Resilient storage `resilient_storage.go` | `failures`, `lastFailure`, `degraded`, the gauge; the two storages behind it | every `Storage` operation, `isCircuitOpen`, `recordFailure`, `recordSuccess`, `Ping` | `ResilientStorage` |
| Token service, worker `token_service.go`, `tokens/worker.go` | the job channel, a result channel per job, the workers, `stopCh`; `token_count` of the stored messages | `GetSessionTokenStats`, `EnsureTokenCounts`, `Submit`, `worker`, `processJob`, `Stop` | `TokenCounting` |
| Database storage `db_storage.go` | tables of sessions and messages, `total_tokens`, `updated_at`, `is_active` | transactions, cursor pages, batches for compaction, token budget, summaries, pins, search, sweep | `Messages`, `Pages`, `Conversation`, `Sessions`; its writes also in `ResilientStorage`, `TokenCounting`, `Browser` |
| Memory storage `memory_storage.go` | maps under one RWMutex | the same interface | `Messages`, `Pages`, `Conversation`, `Sessions`, `ResilientStorage` |
| HTTP resources `plugin/resources.go` | none of their own: session store, message cache, token service | sessions, messages, pins, compaction, pages, search, token statistics | `Pages`, `Conversation`, `Sessions`, `TokenCounting` |
| Message cache `cache/message_cache.go` | first pages, TTL 15 minutes | `Get`, `Set`, `Invalidate` | `Conversation` |
| Preloader, cleanup scheduler, app `cache/session_preloader.go`, `storage/cleanup.go`, `plugin/app.go` | tickers, `stopCh`, wait groups | `NewApp`, `Start`, `Stop`, `Dispose`, the sweep | `Plugin`, `Conversation` |
| Context window `context/*.go` | none (and a cache nothing uses yet) | budgeted selection, sliding window | `Messages`, `Conversation` |
| Browser storage `services/ChatStorageService.ts`, `ChatHistoryService.ts` | `localStorage`, a cached history, whether the backend is available | backend-first writes with mirror, rollback, retry, recovery | `Browser` |
| Chat hooks `hooks/useStreamChat.ts`, `sendMessage` of `pages/ChatPage.tsx` | the current run, its subscription, abort controller and two timers, `isStreaming` | start, chunks, tool calls, second stream, timeouts, cancellation, unmounting | `Streaming` |

`PROJECT.json` lists the remaining parts (configuration, migrations, metrics, user interface, tooling) with
the reason each is left out.

### How they interact

A request goes from `resources.go` through `messageCache` and `ResilientStorage` to `DBStorage`, or, when the
circuit is open, to `MemoryStorage`; without a database the storage is `FileStorage` or `MemoryStorage`
itself. Token statistics and compaction go through `TokenService`, which reads and writes the same storage
and shares the worker pool between requests. The cleanup scheduler and the preloader call the storage on
tickers. `Dispose` stops the scheduler, the preloader and the token service and then closes the storage. The
browser writes to the backend first, mirrors into `localStorage`, and falls back on the mirror.

### What is hard, and what makes each part correct

* **File storage.** Load and save are not one critical section: the lock is released before the save, and all
  saves of a user share one temporary name. Calls of the file system fail half-way, the process dies. Correct
  means: the published file always parses, cache and file agree, an acknowledged save is on disk, no update is
  lost, nothing is added beyond the limits, no error path keeps a lock.
* **Resilient storage.** Three cells and a clock are read and written in any order; what counts as a failure
  is decided from the wording of an error. Correct means: it opens only after the threshold, is invisible while
  the database works, drops no acknowledged write nobody asked to take away, closes again, and its gauge tells the truth.
* **Token counting.** Counts are computed from texts that change meanwhile, calls block on a bounded channel,
  workers stop. Correct means: a count belongs to its text, every picked message gets one, results are neither
  lost nor mixed up, calls and `Stop` return.
* **One conversation.** A page is read, and cached later; in between writes come and invalidate, and some writes forget
  to. Compactions run in parallel, and each is three queries. Correct means: a stale page has a known reason, nothing
  acknowledged disappears, summaries stand for messages that exist, a message is summarised once, pages show every message once,
  selections spend the budget on the newest.
* **Sessions and the plugin's life.** `total_tokens`, `updated_at` and `is_active` are kept by many handlers, some of
  which write a whole row they read or were sent earlier. The retention sweep believes `updated_at`. `Stop` does not wait
  for every goroutine, nor for ever. Correct means: the total adds up, one session is active, no session in use is swept,
  nobody works on what is closed but those the code does not wait for.
* **Browser storage.** A write is applied locally, then sent, then confirmed or rolled back to a snapshot of everything;
  calls are lost on either way and repeated; a read that began before a write ends after it. Correct means: what is
  settled stays settled, the mirror follows the server, what the server acknowledged it has.
* **Streaming.** One run after the other shares one subscription, one controller and two timers, and awaits between using them.
  The language model may fall silent, fail or go on at any moment. Correct means: what the page shows as on its way
  ends, and the text shown in the end is the one saved.

`PROJECT.json` "hazards" gives each of these at its line, with the properties that watch it.

## 2. Modules

| Module | What it is |
|---|---|
| `History` | one user's history as a function from session to session record, the requests, and for each request the set of histories it may save (`Outcomes`) |
| `ChatHistory` | the abstract contract of the `Storage` interface: a request acts on the user's history in one step or not at all |
| `FileStorage` | the load and save protocol step by step, for many goroutines |
| `FileStorage_proofs` | its theorems |
| `ResilientStorage`, `ResilientStorage_proofs` | the circuit breaker, and its theorems |
| `TokenCounting`, `TokenCounting_proofs` | token service and workers, and its theorems |
| `Messages`, `Messages_proofs` | the messages of one session as a sequence, and the pure part of the storages and of `context`: orders, batches, selections; and lemmas about sequences, sorting, sums and selections |
| `Pages` | what a client that turns pages is shown of such a sequence: storage pages, the handler's answer, search |
| `Conversation`, `Conversation_proofs` | one session under concurrent handlers, preloader, message cache and compactions, over the operators of `Pages`; and its theorems |
| `Sessions` | the rows of a user's sessions under concurrent handlers and the sweep |
| `Plugin`, `Plugin_proofs` | the life of a plugin instance: `Sessions` composed with the cleanup scheduler, the preloader and `Dispose`; and its theorems |
| `Browser`, `Browser_proofs` | one browser tab's storage service against a server, and its theorems |
| `Streaming`, `Streaming_proofs` | the runs of one chat page against a language model, and its theorems |
| `MC*` | instances for TLC: small constants, payloads, symmetry |

An operator whose comment begins with "Mutation:" is not part of a specification: it is the definition that
follows it with a plausible bug, and its run must find the property it is paired with in `PROJECT.json` violated.

### FileStorage

`disk[u]` and `tmp[u]` are the two files, `cache`, `userLock` the maps of the same name. A goroutine's
program counter names the place in the code it has reached: waiting for the user's lock (`load`), lock held and
file read (`fill`), then the steps of `os.WriteFile` (`open`, `write`), `os.Rename` (`rename`), `os.Remove`
(`remove`) and the final cache update (`publish`). A descriptor follows its file: `fd[p]` says whether the file
`p` has open is still the temporary one, has been renamed into place by another goroutine, or has lost its name.
`Write` over a file that somebody else has filled since may leave a tail of the old content: `Torn` stands for
everything that does not parse. One content is torn or whole; how many bytes are written is left out.

Every history that is handed out, saved into the cache or copied by `Close` goes through `deepCopyHistory` (`Copied`), which forgets a message's
`isSummary`, `summarizedIds` and `summaryDepth`; the mark `summary` stands for the three. The file keeps what a request has
sent, and a first read of it puts it into the cache as it is (`LoadFill`), so the mark is there until the next save. What a client sends whole, in a create or an
update, is stored with as many messages as it has: only `AddMessage` counts them. `sent` is history, the sets of messages sent so.

`LoadHit` joins taking the lock, copying the cached history and releasing the lock: nobody changes the cache
entry of the user between them in a way another order of the steps would not show. `DeleteExpiredSessions` and
`UpdateMessageTokenCount` list the cached users once and load each in turn; `Close` copies the cache, saves every
entry and then replaces both maps, so a lock held across a `Close` is a lock of the old map.
(A request that was already waiting for such a lock waits, in the model, for the one of the new map.) A session's age
is one bit (`expired`), a message's role and timestamps and the order of slices are left out: no property of this
module depends on them.

### ResilientStorage

The operations have one shape (`Ping` skips the check); it is written out once and the requests that differ in what they do to
the data (`create`, `get`, `update`, `delete`, `add`, `expire`, `list`, `clear`, `ping`) are instances of it. Every atomic load, swap, add and
every locked access of `lastFailure` is a step. `failures` saturates at the threshold, since it is only ever compared
with it; the clock is the number of ticks since `lastFailure`, up to one more than the reset timeout. The database and
the memory storage are sets of sessions and messages, one atomic step each; `PrimaryFails` leaves open whether the
transaction had committed. They differ in what they do with a whole session: the database writes its row (`PrimaryEffects`), the memory storage
takes its messages too and replaces those it had (`FallbackEffects`). A rename is a `get` and then an `update` with any messages.
`errors`, `faulted`, `acked` and `erased` are history variables.

### TokenCounting

The messages of one session, identified by position; a count is represented by the text it is the count of, so a
count that is not of the present text is visible. A call of `GetSessionTokenStats` reads, submits one job per
uncounted message in order, receives in order, stores each count by message identifier, and reports. `box[c][m]` is the
one-place result channel of a job. `Submit` blocks on the full channel and listens to nothing else; `Cancel` is the
`ctx.Done()` branch, which exists only in the receive. Clients add, edit and delete meanwhile. Each call is made
once; two calls are enough to have one's counts stored under the other's feet.
The number a count is, the tokenizer of the language model, and the sums and percentages of the report are left out.

### Messages and Conversation

A message is a record of what the selections look at: identifier, timestamp (which messages may share), token count, pinned,
summary, error, and what a summary covers; contents are left out. `log` is the session's messages in the order of their arrival,
for the database (`backend = "db"`) and for memory. `Messages` defines what either reads from a log:
`OldestNonSummary`, `ByTokenBudget`, and the builder's `ContextWindow` with the sliding window's `SelectMessages`. The two kinds of
sorting in the code differ on equal timestamps and are both defined: `SortBy` gives each message its place, `ExchangeSort` makes the comparisons
of the nested loops one after the other. `Pages` adds `GetSessionMessages` (a cursor is a timestamp on the database and a position in memory; both cap the
page at `Cap`), the handler that answers from storage or cache, and `SearchMessages` (given the hits, in order).

In `Conversation` each storage call is a step and `req[p].at` is the place between two calls: a page is read, then put in the cache;
a session is written, then its messages are saved one by one, then the page is removed; a rename reads, then writes back; a compaction
reads what is covered, then the batch (one query in memory), then saves a summary, then removes the page, and repeats
if it was started by a reading of the statistics. The cache holds one page with the limit it was read with. `Evict` is expiry
and eviction; `DropPage` the cache's right to refuse. On the database any call may fail (`MayFail`): before it has changed anything, or, in the edit of a message, between
its two statements (`UpdateMessageFails`), after which the handler returns without `Invalidate`. `handlePostHistory` takes a look-up that fails for a session
that is not there, and goes on after every failure; that a message of a whole session could not be saved is only logged (`SaveMessageFails`). `lapsed`, `kept` (what was saved, not what was sent), `rewritten`, `astray`, and the requests' `missed` and `known`
are history. The identifier of a summary is made of the time and never used twice (`Unused`). In memory a renamed session may be the storage's own slice, hence the choice in `WriteBack`.

### Sessions and Plugin

`table[s]` is the row of a session, or `None`, with the messages the session has and those that summaries cover. The time is a day; a
request ends on the day it began. A browser may send a session as it is now or a copy of earlier days (`Sent`); a message carries
the time its browser gave it (`Stamp`), which becomes the session's `updated_at`. `UpdateMessage` is two statements without a
transaction on the database, hence the label `"touch"`; everything else a storage does is one step. On the database any step but the first of
a request may fail (`CallFails`; a first step that fails is no step at all), and a failed `"touch"` leaves the edit made and `updated_at` as it was. `past` is history:
when a session was last used, what wrote `updated_at` last or that an edit should have, whether a row or a total has been written whole.

`Plugin` runs `Sessions` until `BeginDispose`, after which requests go to the instance that replaces this one, and those
in progress go on (`Handle`) or fail (`HandleFails`) once the database is closed. `work[g]` is where a background goroutine is;
`dispose` is the next thing `Dispose` does. The preloader's pages are in `Conversation`, its `Stop` here; `TokenService.Close`
is in `TokenCounting`. `StopTimesOut` is the ten seconds, after which `Dispose` goes on.

### Browser

The server is a database-backed plugin reduced to which sessions and messages there are; `mirror` is `localStorage`, `cache` the
history `getUserHistory` answers from, `avail` the remembered availability (only "yes" is remembered). `op[p]` is one asynchronous operation:
`at` says what it awaits (the availability check, its request, the answer), `goal` what the request is for. A request is carried out
(`Serve`) with its answer delivered or lost, or fails before that (`CallFails`). To open and to rename a session the handlers look
it up first and answer 404 whatever error the storage gives: the answer "unfound" looks to the tab like "missing", and it drops its copy of a session that is there (`Misled`). A write is tried twice, whatever went
wrong (`retryOnce`). A listing comes without messages, as `DBStorage.GetSessions` returns it. A session found missing is recreated from
the mirror (`Recover`) and the write made again; a failed write puts back its snapshot of the whole mirror.
`Vanish` is another tab or the sweep. An expired sign-in is among the "refused" answers and in `CheckThrows`. `fate`, `excused` and
`acked` are history. Left out: the migration of an old local store (done once; taken as done), the cache of single
sessions, `updateSession`, which nothing calls, the welcome message, storages that list messages.

### Streaming

A run is one call of `startStream`; `current` is `runIdRef`, which a cancellation makes `None`. `stage[r]` is where the run is, `live` which streams
may still deliver something. `sub`, `aborter`, `firstTimer` and `idleTimer` are the four references all runs share, each as the run it was
set for: a run that is no longer current still sets `sub` and `firstTimer` when its placeholder is saved (`PlaceholderSaved`).
A handler runs to its next `await`, so a chunk is one action, and one that asks for tools (`CallTools`) ends where their results are awaited.
Texts are told apart by their origin only; `shown` and `kept` are the last text given to `updateMessage` without and with a request to save it, and
what the request comes to is in `Browser`. The first stream goes on to show words and to
restart the timer after its tool calls (`Words` asks for nothing but that the run is the current one). `aborted` grows only, as signals do. `robbed` is history. Left out: `isExecutingTools` and the error texts,
which no handler reads, and a new mounting of the page, which starts from `Init` with references of its own.

## 3. Runs

| Run | Question | Bounds |
|---|---|---|
| `file_apart` | two goroutines, never both on one user: is the storage a correct implementation of the contract, through failing calls and a crash? | 2 users, 2 sessions, 1 message, 2 texts, a payload with a summary mark, 3 requests of all 11 kinds, 1 crash |
| `file_two` | two goroutines: types, limits, and does every request return? | 1 user, limits of 1 session and 1 message, a payload of 2 messages (more than the limit), 3 requests, 1 crash, failing calls |
| `file_torn`, `file_lost` | two concurrent saves, without faults | 1 user, 3 requests |
| `breaker_safe` | is the breaker invisible until needed, and does it keep what it acknowledges? | 2 goroutines, threshold 2, 1 failing call, no bound on requests, 1 session written with and without its message |
| `breaker_live` | does the circuit close for good once the database works? | 2 goroutines, threshold 2, 3 failing calls, no bound on requests |
| `tokens_safe` | two calls, two messages, two workers, edits, cancellations, failing stores and `Close` | a queue of 2, 1 text and the blank one, no bound on the clients |
| `tokens_live` | do calls and `Stop` return? | two calls, a queue of 1 (always full), 1 message |
| `conversation` | one session: what is cached, kept, summarised, paged and selected? | 2 goroutines, 4 requests of all kinds, logs of up to 3 messages of the browser to begin with, 4 summaries, two messages with the same timestamp, both storages, failing calls of the database without bound, pages of 1 to 3 |
| `plugin` | the sessions' rows, the sweep, and who works after the end | 2 goroutines, 2 requests, 2 sessions, 2 messages, 2 days after which a session expires in 1, both storages, failing calls of the database without bound |
| `browser` | does the local copy follow the server, and keep what was promised? | 2 operations at once, 3 in all, 2 sessions, 1 message, calls lost on both ways, refused and answered 404 by a failing storage without bound, a session vanishing at any time |
| `stream` | does every run end, and is what is shown saved? | 2 runs, any number of chunks, tools, failures and timeouts, cancelling and leaving at any time |

Why these are enough. Every conflict in the code is between two parties on one user, one session or one message; two
goroutines and one or two objects produce it, and the violation runs show that they do. The limits (50 sessions, 500
messages, threshold 5, 100 queued jobs, 4 workers) are constants of the models, reached at 1 or 2 here and arbitrary in the
theorems. `MaxRequests` and `MaxCrashes` bound the file runs: a third request is the one that meets what the first two
left behind. In `conversation` a fourth one is needed: two compactions, a change between them, and a read. In `plugin` the background
goroutines add to two requests; in `browser` every operation is a conversation of up to six messages, so that three
of them already take 1.5 million states. In `stream` the conflict is between the current run and one before it. `MaxFaults` bounds the failing calls: with 1 in `breaker_safe` a half-committed write already ends up in both
storages, and duplicates count without a fault, so the threshold of 2 is reached. The passing runs take between a few seconds and a minute and a half
each; the largest are `breaker_safe` with 5.5 million distinct states and `browser` with 1.5 million. Deadlock is not checked where the system stops: after the last
request of a bounded run (`conversation`, `plugin`, `browser` and `stream` among them), and after `Close` in `TokenCounting`, where callers blocked in `Submit` do stay blocked.

Symmetry is used in safety runs only, over goroutines, operations, calls, workers and texts that no definition tells apart.

### What the violation runs show

* `file_torn` (`ReadableAtRest`): the code says "Atomic write: write to temp file, then rename". With two saves of one
  user, the second truncates or overwrites the temporary file while the first renames it; the run ends with nobody
  working and a file that does not parse. From then on, once the cache is lost, every request of that user fails.
* `file_lost` (`SavesBuildOnFile`): "Update cache after successful write to prevent lost updates"; the user's lock is
  released by `loadUserHistory`, so two requests start from one history and the later save drops the earlier one's work.

`KeepsContract`, `PublishedWhole`, `CacheCoherent` and `AcknowledgedIsStored` are therefore stated for goroutines that stay apart (`ApartSpec`:
no two serve one user at a time, and `Close` runs alone), the case in which they hold. The code has no lock that keeps them apart: it is an
assumption about when requests arrive, and a plugin that serves one request after the other meets it (`OneGoroutineIsApart`). Further disagreements have no run of their own. `deepCopyHistory` is said to make "a deep copy", and leaves out the three
fields that mark a summary: after a save of a session that holds one the cache and the file differ in them, and whatever is loaded and saved
again loses them on disk too. `CacheCoherent` therefore allows for either of the two (the history as it was read, or its copy). `maxMessagesPerSession` is checked by `AddMessage`
only. `LimitsHold` states what holds: no history ever has too many sessions, and none has more messages in a session than the limit or than a client has sent with it whole. And `DBStorage.UpdateMessage` resets the count of an edited message "so lazy counting
recalculates on next token stats read", but a call that read the old text may store the old text's count after it, and a positive count is
never recomputed. `StaleOnlyIfChanged` states what holds: only an edit or deletion that a call overlaps can spoil a count.

### What `conversation`, `plugin`, `browser` and `stream` show

The properties say what the code guarantees; each names the exceptions the code makes, and TLC showed that none can be left out.

* `StaleIsExplained`: a stale page in the cache is about to be removed, or was put there by a read that a write overtook, or
  one of the writes went by that do not remove it: `CreateSession`, clearing all, the sweep, a rename, a token count, and an edit that
  the database has made when the touch of the session fails, after which `handleUpdateMessage` reports the failure and leaves the cache alone. It then
  stays until it expires or another write removes it.
* `SavedIsKept`: on the database nothing that was saved is lost. (That a request is acknowledged does not say so: a message of a whole
  session whose saving fails is logged and the request answered with success.) In memory a rename writes back only what is not compacted,
  and a message added between its read and its write is dropped; so does an update of a whole session.
* `SummariesStandForMessages`, `SummarizedTwiceOnlyByOverlap`: compactions that overlap do summarise the same messages twice,
  and only those; a deletion during a compaction leaves a summary of nothing.
* `PagesTile` (`PagesVisitAll`, `SearchPagesTile`): the database's cursor is a timestamp, so messages with the timestamp of the last one of a page are skipped.
  The handler asks for one message more than the page, but storage caps what it returns at 100: the property is
  about limits below the cap, and at the cap there is never a next page. A search in memory shows all hits once only if
  they fit on one page.
* `CacheAnswersLikeStorage`: a cached page answers any request smaller than itself correctly, and a larger one as if there
  were no more messages.
* `BudgetIsSpent`, `WindowKeepsNewest`: pinned messages, error messages and the minimum of the window exceed the budget, and nothing else does.
* `OneActive`: two sessions are active after a create, an update or a rename, never after activations alone.
  (Activating a session that does not exist deactivates all others in memory; the database rolls back.)
* `TotalAddsUp`: on the database the total is that of what arrived, repeated requests included, until somebody writes another total
  into the row; a session that came with a total does not count.
* `RetentionIsKept`: a sweep can take a session in use after a compaction, which sets `updated_at` back to the oldest message
  summarised, after an old session or message is sent, and between the two statements of an edit, or for good if the second of them fails.
* `OnlyStragglersWork`: after the storage is closed only the first cleanup, for which nobody waits, and a loop whose `Stop` gave up
  are still at work.
* `Settled`: creations and deletions that had the tab to themselves are final. A session created while the server could not be reached
  is lost to the next read of the history, or as soon as a request is told that it is missing and it cannot be recreated. And a session the server has leaves the mirror when
  it is opened or renamed while the server's storage fails, since both handlers answer every error with 404; the next read of the history brings it back.
* `MirrorFollowsServer`: also after rejected writes, and for writes that run at the same time, as long as none of them fails. Not when a
  snapshot is put back while others are at work, when a create is carried out but its answer lost (the second
  attempt is refused because the session exists, and the tab rolls back), when the sign-in expires at the availability check, or after such a 404.
* `AcknowledgedIsStored`: an acknowledged message is on the server until its session goes, through retries and recovery.
* `Watched`, `StreamsEnd`: a run is always watched by a timer, or awaits something that ends, with two exceptions. If the save of the
  placeholder is refused (sign-in expired, session gone), `startStream` throws with `isStreaming` set and no timer: the page shows a stream until the user
  cancels it. And a run whose predecessor was cancelled or overtaken while its own placeholder was being saved loses its first timer to the
  predecessor's, which does nothing when it fires. Also a message sent twice in haste starts two runs, since `isStreaming` is set only after the first save.
* `LastWordIsSaved`: the text shown in the end is the one saved, also when the first stream fails while its tools are at work and the run
  nevertheless goes on. But words of a stream that calls tools are only shown, those before the call and those after it: they are never saved, neither if the second
  stream then brings none nor if the tools fail and late words replace the failure on the page. And a page left
  while the placeholder is being saved saves "timed out" fifteen seconds later, since the answer it then asks for is ignored.

Three further observations were made while modelling and have no run of their own. `isStorageError` exempts "already exists", but the
database reports a duplicate as "failed to create session", so a repeated create counts against the database
(`PrimaryRejectsDuplicate`). `handleGetHistory` relies on sessions "already sorted by updatedAt descending from storage", which the memory storage does not do.
And a gauge may contradict the breaker's flag for good, since the two are set in two steps (`TripBreaker`, `RaiseGauge`, `CloseBreaker`, `LowerGauge`).

### Fairness

* `FileStorage!FairSpec`: weak fairness of every goroutine that has a request. A goroutine waits only for a user's lock,
  and whoever holds one has no blocking step before its release; the Go scheduler runs runnable goroutines. Arrivals,
  crashes and faults are not forced: a call that may fail may also succeed.
* `ResilientStorage!FairSpec`: weak fairness of goroutines and clock, and strong fairness of a goroutine's starting a `list`:
  the circuit has no timer of its own and is closed by traffic, so recovery needs users who keep reading, and strong
  because a goroutine may always be found busy with other requests instead. Failing calls stop by the bound: `Recovers` says the
  circuit closes *after the last failure*. The workload of `breaker_live` has no `create`: a client that repeats a duplicate create
  for ever keeps stamping `lastFailure` and the circuit stays open.
* `TokenCounting!FairSpec`: weak fairness of calls, workers and the end of `Stop`; strong fairness of a sender on the job channel
  (Go queues blocked senders first in, first out) and of a stopping worker's exit (a `select` between two ready channels picks at random).
  No fairness of cancellation or of clients.
* `Streaming!FairSpec`: weak fairness of the answer to a save, of the tools (a call of a tool is given thirty seconds by
  `MCPIntegrationService`), and of the two timers. No fairness of the model or the user. A chunk that changes nothing in the model's state is a stutter: the assumption
  is that a stream has finitely many chunks, which its token limit ensures.
* `Conversation`, `Plugin` and `Browser` state no fairness: their properties are safety properties.

## 4. Theorems

All for every value of the constants that satisfies the named assumptions: any number of users, goroutines, sessions,
calls and workers, without bound on requests, and with `Faults` either way. The assumptions are `HistoryAssumption` (finite identifiers, `None` is no
datum), `PayloadAssumption` (what a client sends is a session or a message, of any size), `FileAssumption` (`None` is no user and no goroutine; a file that does not parse is no history),
`ResilientAssumption`, `TokenAssumption`, `NoneIsNoJob`, `SessionsAssumption`, `StoredAssumption` (rows a plugin may find: one active session, finitely many messages),
`StreamingAssumption`, `CapAssumption` (a page holds a message), `ConversationAssumption` (identifiers are unique in what a browser sends, which
`dedupeMessagesByID` sees to; a browser sends no summaries, which no handler checks; `None`, no cursor, is no identifier), `BrowserAssumption` and `NoneAssumption` (types of the constants,
`None` is no datum); TLC evaluates them on every run.

**FileStorage.** `TypeCorrect` and `LimitsAlwaysHold`, from the inductive invariant
`TypeOK /\ LimitsHold /\ ControlOK /\ CopiesLimited`. `LimitsHold` alone is not inductive: a file gets its content from a
goroutine's private copy, or from `Close`'s copy of the cache, so the copies must be within the limits too
(`CopiesLimited`), and for that each label must say which copies hold a history, and that what a request carries has been sent (`ControlOK`). The lemma about
`Outcomes` (an operation keeps a history within the limits) carries the cardinality argument, once per operation.

For any number of goroutines that stay apart (`ApartSpec`) the invariant is strengthened with `Apart`, `PublishedWhole`,
`CacheCoherent` and `SequentialOK`, which relates the copy, the temporary file, the file and the cache at each label of each goroutine.
A step is checked twice: for the goroutine that makes it, and, by the lemma `OthersSequential`, for the others, of whose users it
leaves the files alone (`Elsewhere`).
From it follow `ApartKeepsFileWhole`, `ApartKeepsCacheCoherent`, `ApartStoresWhatItAcknowledges` and the
refinement `ApartKeepsContract`: under the mapping `Stored` (what the file gives its readers, who get copies; a missing file is an empty history) only `Rename` is a step of
`ChatHistory`, every other step a stutter. The hypothesis is needed: `file_torn` and `file_lost` refute the statements without it.

**ResilientStorage.** `TypeCorrect`; `CircuitOpensAfterThreshold`, `BreakerIsTransparent` and `NoAcknowledgedMessageIsDropped`, with
`StepsOK`, which says what a goroutine knows between two atomics (what its count was, that a goroutine past the
primary has its effect there, unless it was erased, and that nothing is about to be counted before the first failing call).
`BreakerIsTransparent` does not ask that no error was counted but that none has happened (`faulted`), so an answer wrongly counted refutes it.

**TokenCounting.** `TypeCorrect`; `StaleCountsComeFromOverlap` and `CallsEnsureCounts`, from `CallsOK` (what a call picked, has still to
send and to receive), `JobsOK` (a job carries the text its call read) and `PickedOK` (an unchanged picked message is awaited or
counted). `NoJobIsLost`, from `JobsOnce` (no job is
under way twice, nor while it is still to be submitted or its answer waits) and `JobsPlaced` (what is awaited is under way or answered); `JobsAccounted` only counts
the places of what is awaited, and says nothing of jobs whose call has given up, which still take room in the queue.

**Plugin.** `TypeCorrect`, `OneSessionIsActive`, `OnlyStragglersAreAtWork` and `RetentionAlwaysKept`, from one inductive invariant of three parts.
`RowsInv` holds the types, `OneActive`, and what a request carries along from one storage call to the next (`RequestsOK`): the row a
rename will write back was read today. `UsedOK` is what retention needs and `RetentionIsKept` alone does not say: `updated_at` is no older than the
last use if the plugin's own clock wrote it last; an edit whose second statement is still to come, or has failed, is remembered as such (`"edit"`). `LifecycleInv` says that whatever `Dispose` has awaited has exited or its `Stop` gave up (`StopsOK`), from which `OnlyStragglersWork`
follows. The retention is any number of days.
`TotalAlwaysAddsUp` is about a sum over a set of messages of any size, so it rests on the lemmas about sums below. Its invariant adds `TotalsOK`: a row nobody has overwritten
adds up, and the total of a session about to be created is zero; a row found at the start counts as overwritten if an earlier instance left it so.

**Browser.** `TypeCorrect`, `CreationsAndDeletionsAreFinal`, `AcknowledgedMessagesAreStored` and `MirrorFollows`. What an operation in progress may still do it carries along: the
snapshot it would put back, the history it would post, the answer it has not looked at. So each property gets a part that says of these what the property says
of server, mirror and cache: `KeptOK` and `LackedOK` (nothing in progress can undo what `fate` calls final), `AckedOK` (what will be acknowledged is stored),
`AlignedOK` (unless excused, whatever may still be written agrees with the server). Both finality and agreement depend on which operations had the tab to themselves, hence
`AloneOK` (alone means alone until now) and `LoneOK` (what such an operation has done to mirror and server is still so).

**Conversation.** `TypeCorrect` (identifiers are unique in the log), `StaleOnlyIfExplained`, `SavedStays`, `SummariesStand`, `TwiceOnlyByOverlap`, `CacheAnswers`, `BudgetAlwaysSpent`, `WindowIsNewest`
and `PagesAlwaysTile`, for logs, pages, budgets and batches of any size. A request acts on what it read earlier; `missed` says which changes it has overlooked. `CurrentOK` says that without a missed change a page or a
rename still holds what is in the log; `CompactsOK` what of a compaction no other request can undo: the summaries it knew of are still there, what they cover is not in its batch,
and on the database its batch exists. `WritesOK` says what a request carries to its next storage call. A rename in memory can bring back an older
log, so `SnapshotsOK` relates the log and all such copies: no message has two summaries of which one knew the other (`Apart`), summaries know
what is there (`KnowsOwn`), and two copies agree on what a summary covers. A step leaves a grown version of the log, or one with messages of the browser only, or what a rename has read, or
adds a summary: of the first three kinds there is one lemma each, not one per action. The last four say what is read from a log,
and need of the invariant only that the log is well typed with unique identifiers; the rest is about the operators.
`CacheAnswers` rests on lemmas about the first page; `BudgetAlwaysSpent` and `WindowIsNewest` on those about selections below.
`PagesAlwaysTile` is an induction over the pages turned (`Turned`): what is shown so far is a beginning of the session, newest first, without repetition, but for
messages with the timestamp of a cut; as long as there are more pages each shows something new, so that `Visited` comes to an end within as many turns as
there are messages. What lies behind a cursor (`BehindIs`) is an end of the ordered session for either storage. The pages of a search are put together by `TakeOn`.

**Messages.** Lemmas, in `Messages_proofs`: the operators pick elements at positions of their own (`Picks`), so that a sorted, filtered or cut log has each message once; both sorts
keep every message and put them in order (`ExchangeSortOrders`: after row i the first i places are final); a sum over a finite set does not depend on how it is formed (`SumAnyhow`), grows by what is added and is taken over images and parts. `Selected` says what the
selection within a budget is after each message looked at (nothing pinned is left out, the others fit, what is left out would not have fitted), `ByTokenBudgetFacts` and
`ContextWindowFacts` what the two selections promise. The library's induction
theorems cannot be used here (they take an operator); `Induct` and `InductOverSubsets` make the induction on sets, from the well-foundedness of the natural numbers.

**Streaming.** `TypeCorrect`, `StreamsAreWatched` and `LastWordsAreSaved`, for any number of runs. `Watched` needs `WaitedFor` (a run the page waits for has not
been aborted, so that it does not ignore the results of its tools). `LastWordIsSaved` speaks of the end only; its strengthening `SavesOK` says for every
moment where a text comes from that is shown and not yet saved: from a stream that is still live and will save it, or from one that has called tools.

**Only model-checked.** Liveness (`RequestsReturn`, `Recovers`, `CallsReturn`, `StopReturns`, `StreamsEnd`): the prover has no rules for
fairness or `ENABLED`. Of several goroutines on one user's file only types and limits are proved: the other properties fail there.

## 5. What is not modelled

Of the modelled components: `ResilientStorage.Close`, the token service's unused `SubmitAsync` and
`RecalculateSessionTokens`, `Start` (called once by the constructor), the formatting of files and reports, log and metric
calls other than the gauge, `context` deadlines inside a database call (they are failing calls). An `fsync`: the crash is of the
process, not of the machine. A restart with another data directory.

Of the rest:

* `DBStorage.SaveMessages`, the batch insert, which no handler calls; the text query of a search, of which only the hits are given; transactions that abort
  half-way (a transaction is one step or a failing call).
* `context/summarizer.go`, `truncate.go` and the context cache: prompts and the cutting of one text, in a package that no part of the running plugin calls yet.
* `factory.go`, `config_resolver.go`, `migrator.go`: decisions taken once at start from environment, an ini file and SQL scripts. Which storage results is the constant or
  variable `backend`.
* `CheckHealth`, the rate limiter, validation and identity, metrics and telemetry but for the gauge.
* In the browser: the migration of an old `localStorage`, the cache of single sessions, `updateSession` (uncalled), the lists the other hooks keep for rendering,
  settings, permissions, the user interface.

## 6. Plan

Done: every component's module, and a theorem for every safety property the runs check but the two they refute; what is left to TLC is named above.

Next, in this order:

1. What still holds of two saves of one user that do overlap: whether a file once torn is always repaired by the next save that nothing overlaps.
2. `config_resolver.go` as a decision table, and `useChatSession`'s lists against those of `Browser`, if a hazard turns up that the present modules do not reach.

No module that is proved about, or that one uses, contains a `RECURSIVE` operator.
