------------------------------- MODULE Browser -------------------------------
(***************************************************************************)
(* One browser tab: ChatStorageService (src/services) with its copy of the *)
(* history in localStorage and its cache of the last history read, in      *)
(* front of the plugin's HTTP interface over a database.                   *)
(*                                                                         *)
(* Operations of the tab run at the same time, one of them at a time       *)
(* between two awaits.  What operation p awaits is op[p].at:               *)
(*   "idle"    nothing: there is no operation                              *)
(*   "check"   whether the backend is available                            *)
(*   "call"    its request, which has not reached the server               *)
(*   "answer"  the answer of the server, or the failure of the request     *)
(* What the request is for is op[p].goal:                                  *)
(*   "read", "post"   getUserHistory, saveUserHistory                      *)
(*   "open"           getSession                                           *)
(*   "write"          what the operation is about                          *)
(*   "recreate"       a session the server has lost                        *)
(*   "again"          the write, after that                                *)
(* Of a session only its messages are kept, of a message that it is there. *)
(***************************************************************************)
EXTENDS Naturals, FiniteSets

CONSTANTS
    None,        \* no session, no history, no answer
    Procs,       \* operations of the tab that may be in progress
    SessionIds,
    Messages,
    Owner,       \* Owner[m]: the session message m belongs to
    Present,     \* the sessions there are to begin with
    MaxRequests  \* bound: operations begun

ASSUME BrowserAssumption ==
    /\ Owner \in [Messages -> SessionIds]
    /\ Present \subseteq SessionIds
    /\ MaxRequests \in Nat

Histories == [SessionIds -> {None} \cup SUBSET Messages]

Kinds == {"load", "switch", "open", "create", "add", "edit", "rename", "delete", "clear"}
Goals == {"read", "post", "open", "write", "recreate", "again"}
\* "unfound" is "missing" said of a session the storage failed to look up: the
\* tab cannot tell them apart.
Answers == {"ok", "missing", "unfound", "refused", "lost"}
NotFound == {"missing", "unfound"}

ASSUME NoneAssumption ==
    /\ None \notin SessionIds \cup Messages
    /\ \A S \in SUBSET Messages : S # None
    /\ \A h \in Histories : h # None
    /\ None \notin Kinds \cup Goals \cup Answers

VARIABLES
    server,   \* the sessions of the user on the server
    mirror,   \* and in localStorage
    cache,    \* None, or the history getUserHistory returns without asking
    avail,    \* the backend is known to be available
    op,       \* the operation each p is
    left,     \* operations still to be begun
    known,    \* the sessions the user has been shown
    fate,     \* history: what the last creation or deletion of each session came to
    excused,  \* history: mirror and server have a reason to differ
    acked     \* history: messages the server has acknowledged

vars == <<server, mirror, cache, avail, op, left, known, fate, excused, acked>>

Sessions(h) == {s \in SessionIds : h[s] # None}
With(h, s, messages) == [h EXCEPT ![s] = messages]
Without(h, s) == [h EXCEPT ![s] = None]
Empty == [s \in SessionIds |-> None]

Add(h, m) == IF h[Owner[m]] = None THEN h ELSE [h EXCEPT ![Owner[m]] = @ \cup {m}]

-----------------------------------------------------------------------------
(***************************************************************************)
(* Operations                                                              *)
(***************************************************************************)

\* alone: no other operation was in progress since it began; served: a request
\* of it created or removed sessions; outdated: what the answer on its way says is
\* there was removed on the server since.
Idle == [at |-> "idle", goal |-> None, kind |-> None, s |-> None, m |-> None,
         tries |-> 0, snapshot |-> None, data |-> None, copy |-> None, answer |-> None,
         alone |-> TRUE, served |-> FALSE, outdated |-> FALSE]

\* isBackendAvailable: only that it is available is remembered, and then it does
\* not wait.
Available == IF avail THEN "call" ELSE "check"

Operation(kind, goal, s) ==
    [Idle EXCEPT !.at = Available, !.kind = kind, !.goal = goal, !.s = s]

\* What the operation does to a history: the mirror.
Applied(r, h) ==
    CASE r.kind = "create" -> With(h, r.s, {})
      [] r.kind = "add" -> Add(h, r.m)
      [] r.kind = "delete" -> Without(h, r.s)
      [] r.kind = "clear" -> Empty
      [] r.kind \in {"edit", "rename"} -> h

Readers == {"load", "switch", "open"}

\* p becomes r.  An operation that reads or clears the history while others are
\* in progress is a reason for the mirror to differ.
Begin(p, r) ==
    LET others == {q \in Procs : op[q].at # "idle"}
        entangled == \E k \in {r.kind} \cup {op[q].kind : q \in others} :
                        k \in Readers \cup {"clear"}
    IN
    /\ op[p].at = "idle"
    /\ left > 0
    /\ left' = left - 1
    /\ op' = [q \in Procs |->
                CASE q = p -> [r EXCEPT !.alone = others = {}]
                  [] q \in others -> [op[q] EXCEPT !.alone = FALSE]
                  [] OTHER -> op[q]]
    /\ excused' = (excused \/ (others # {} /\ entangled))
    /\ UNCHANGED <<server, avail, known, acked>>

\* p goes on as r.
Become(p, r) == op' = [op EXCEPT ![p] = r]

Excuse(reason) == excused' = (excused \/ reason)

\* The server, and what was shown and remembered, stay.
Continue(p, r) ==
    /\ Become(p, r)
    /\ UNCHANGED <<server, left, known, acked>>

\* getUserHistory.
Load(p) ==
    /\ cache = None
    /\ Begin(p, Operation("load", "read", None))
    /\ UNCHANGED <<mirror, cache, fate>>

\* getSession, whose own cache is left out.
OpenSession(p, s) ==
    /\ s \in known
    /\ Begin(p, Operation("open", "open", s))
    /\ UNCHANGED <<mirror, cache, fate>>

\* ChatHistoryService.switchToSession: getUserHistory, saveUserHistory of what
\* it returned, getSession.  saveUserHistory clears the cache.
SwitchToSession(p, s) ==
    /\ s \in known
    /\ IF cache = None
       THEN Begin(p, Operation("switch", "read", s)) /\ UNCHANGED cache
       ELSE /\ cache[s] # None
            /\ Begin(p, [Operation("switch", "post", s) EXCEPT !.data = cache])
            /\ cache' = None
    /\ UNCHANGED <<mirror, fate>>

\* Mutation: the snapshot is taken when the mirror has been changed.
OptimisticLate(p, r) ==
    /\ Begin(p, [r EXCEPT !.snapshot = Applied(r, mirror)])
    /\ mirror' = Applied(r, mirror)
    /\ cache' = None

\* The beginning all writes share but clearAllHistory, which the program never
\* calls optimistic.
Optimistic(p, r) ==
    /\ Begin(p, [r EXCEPT !.snapshot = mirror])
    /\ mirror' = Applied(r, mirror)
    /\ cache' = None

\* Session identifiers are never used twice.
CreateSession(p, s) ==
    /\ fate[s] = "fresh"
    /\ Optimistic(p, Operation("create", "write", s))
    /\ fate' = [fate EXCEPT ![s] = "open"]

AddMessage(p, m) ==
    /\ Owner[m] \in known
    /\ Optimistic(p, [Operation("add", "write", Owner[m]) EXCEPT !.m = m])
    /\ UNCHANGED fate

UpdateMessage(p, m) ==
    /\ Owner[m] \in known
    /\ Optimistic(p, [Operation("edit", "write", Owner[m]) EXCEPT !.m = m])
    /\ UNCHANGED fate

RenameSession(p, s) ==
    /\ s \in known
    /\ Optimistic(p, Operation("rename", "write", s))
    /\ UNCHANGED fate

\* Mutation: the deletion leaves the cache alone.
DeleteSessionCached(p, s) ==
    LET r == Operation("delete", "write", s) IN
    /\ s \in known
    /\ Begin(p, [r EXCEPT !.snapshot = mirror])
    /\ mirror' = Applied(r, mirror)
    /\ fate' = [fate EXCEPT ![s] = "open"]
    /\ UNCHANGED cache

DeleteSession(p, s) ==
    /\ s \in known
    /\ Optimistic(p, Operation("delete", "write", s))
    /\ fate' = [fate EXCEPT ![s] = "open"]

\* Where the sessions used so far end, all at once.
Every(outcome) == [s \in SessionIds |-> IF fate[s] = "fresh" THEN "fresh" ELSE outcome]

ClearAllHistory(p) ==
    /\ Begin(p, Operation("clear", "write", None))
    /\ cache' = None
    /\ fate' = Every("open")
    /\ UNCHANGED mirror

-----------------------------------------------------------------------------
(***************************************************************************)
(* The server, and what may happen to a request                            *)
(***************************************************************************)

\* What the handler makes of the user's sessions.
Served(r) ==
    LET write == Applied(r, server) IN
    CASE r.goal \in {"read", "open"} -> server
      [] r.goal = "post" ->
            [s \in SessionIds |->
                IF r.data[s] = None THEN server[s]
                ELSE r.data[s] \cup (IF server[s] = None THEN {} ELSE server[s])]
      [] r.goal = "recreate" \/ r.kind = "create" ->
            IF server[r.s] # None THEN server
            ELSE With(server, r.s, IF r.goal = "recreate" THEN r.copy ELSE {})
      [] r.goal \in {"write", "again"} /\ r.kind # "create" ->
            IF r.kind # "clear" /\ server[r.s] = None THEN server ELSE write

\* And what it answers while the storage does not fail: "missing" for a session
\* not found, "refused" for any other error.
Result(r) ==
    LET lacking == r.s # None /\ server[r.s] = None IN
    CASE r.goal = "recreate" \/ r.kind = "create" -> IF lacking THEN "ok" ELSE "refused"
      [] r.goal \in {"read", "post"} \/ r.kind = "clear" -> "ok"
      [] OTHER -> CASE lacking -> "missing"
                    [] ~lacking /\ r.kind = "edit" /\ r.m \notin server[r.s] -> "refused"
                    [] OTHER -> "ok"

\* Sessions of a listing come without their messages.
Listing == [s \in SessionIds |-> IF server[s] = None THEN None ELSE {}]

\* gone: the sessions the server has just removed.
Forget(gone) == acked' = {m \in acked : Owner[m] \notin gone}

Noticed(r, gone) ==
    IF r.answer = "ok" /\ (\/ r.goal = "read" /\ gone # {}
                           \/ r.kind \in {"create", "add"} /\ r.s \in gone)
    THEN [r EXCEPT !.outdated = TRUE] ELSE r

\* The server carries out the request; the answer may be lost on its way.
Serve(p) ==
    LET r == op[p]
        gone == Sessions(server) \ Sessions(Served(r))
    IN
    /\ r.at = "call"
    /\ server' = Served(r)
    /\ Forget(gone)
    /\ \E answer \in {Result(r), "lost"} :
          op' = [q \in Procs |->
                   IF q # p THEN Noticed(op[q], gone)
                   ELSE [r EXCEPT !.at = "answer", !.answer = answer, !.outdated = FALSE,
                                  !.served = @ \/ Sessions(server') # Sessions(server),
                                  !.data = IF r.goal = "read" THEN Listing ELSE @]]
    /\ UNCHANGED <<mirror, cache, avail, left, known, fate, excused>>

\* To open or to rename a session the handler looks it up first, and any error
\* of the storage is a session not found.
LooksUp(r) == r.goal = "open" \/ r.kind = "rename"

\* The request does not reach the server, or the server or the proxy in front
\* of it refuses it, or the storage fails.
CallFails(p) ==
    /\ op[p].at = "call"
    /\ \E answer \in {"lost", "refused"} \cup (IF LooksUp(op[p]) THEN {"unfound"} ELSE {}) :
          Continue(p, [op[p] EXCEPT !.at = "answer", !.answer = answer,
                                   !.outdated = FALSE])
    /\ UNCHANGED <<mirror, cache, avail, fate, excused>>

\* Another tab deletes a session, or the sweep does.
Vanish(s) ==
    /\ server[s] # None
    /\ server' = Without(server, s)
    /\ Forget({s})
    /\ op' = [q \in Procs |-> Noticed(op[q], {s})]
    /\ fate' = [fate EXCEPT ![s] = "open"]
    /\ excused' = TRUE
    /\ UNCHANGED <<mirror, cache, avail, left, known>>

CacheExpires ==
    /\ cache # None
    /\ cache' = None
    /\ UNCHANGED <<server, mirror, avail, op, left, known, fate, excused, acked>>

-----------------------------------------------------------------------------
(***************************************************************************)
(* Going on                                                                *)
(***************************************************************************)

\* The read of the history ends with history, which a switch then saves.
HistoryRead(p, history) ==
    LET r == op[p]
        posts == r.kind = "switch" /\ history[r.s] # None
    IN
    /\ Become(p, IF ~posts THEN Idle
                 ELSE [r EXCEPT !.goal = "post", !.at = Available, !.data = history,
                                !.answer = None, !.outdated = FALSE])
    /\ cache' = IF posts THEN None ELSE history
    /\ known' = known \cup Sessions(history)
    /\ UNCHANGED <<server, left, acked>>

\* The history is saved, on the server or only here.
HistorySaved(p) ==
    /\ mirror' = op[p].data
    /\ cache' = op[p].data
    /\ Continue(p, [op[p] EXCEPT !.goal = "open", !.at = Available, !.data = None,
                                 !.answer = None])

\* getSession falls back to getUserHistory.
OpenFromHistory(p) ==
    /\ Continue(p, IF cache # None THEN Idle
                   ELSE [op[p] EXCEPT !.kind = "load", !.goal = "read", !.at = Available,
                                      !.answer = None])
    /\ UNCHANGED <<mirror, cache>>

\* What an operation does without the server.
Fallback(p) ==
    CASE op[p].goal = "read" -> HistoryRead(p, mirror) /\ UNCHANGED mirror
      [] op[p].goal = "post" -> HistorySaved(p)
      [] op[p].goal = "open" -> OpenFromHistory(p)

\* The backend answers the check; another operation may have found it available.
CheckSucceeds(p) ==
    /\ op[p].at = "check"
    /\ avail' = TRUE
    /\ Continue(p, [op[p] EXCEPT !.at = "call"])
    /\ UNCHANGED <<mirror, cache, fate, excused>>

ReadWithoutServer(p) ==
    /\ op[p].at = "check"
    /\ op[p].goal # "write"
    /\ Fallback(p)
    /\ UNCHANGED <<avail, fate, excused>>

\* All the writes have been applied but the clearing of the history.
WriteWithoutServer(p) ==
    LET r == op[p] IN
    /\ r.at = "check"
    /\ r.goal = "write"
    /\ mirror' = IF r.kind = "clear" THEN Empty ELSE mirror
    /\ fate' = CASE r.alone /\ r.kind = "clear" -> Every("hidden")
                 [] r.alone /\ r.kind = "create" -> [fate EXCEPT ![r.s] = "kept"]
                 [] r.alone /\ r.kind = "delete" -> [fate EXCEPT ![r.s] = "hidden"]
                 [] OTHER -> fate
    /\ known' = IF r.kind = "create" THEN known \cup {r.s} ELSE known
    /\ Become(p, Idle)
    /\ Excuse(TRUE)
    /\ UNCHANGED <<server, cache, avail, left, acked>>

\* The user is no longer signed in.  This is thrown outside the handler that
\* would undo what was applied.
CheckThrows(p) ==
    /\ op[p].at = "check"
    /\ Continue(p, Idle)
    /\ Excuse(op[p].goal = "write")
    /\ UNCHANGED <<mirror, cache, avail, fate>>

-----------------------------------------------------------------------------
(***************************************************************************)
(* Answers                                                                 *)
(***************************************************************************)

Answered(p, goal) == op[p].at = "answer" /\ op[p].goal = goal

\* Mutation: everything is tried again.
RetryAnything(p) ==
    /\ op[p].at = "answer"
    /\ op[p].answer # "ok"
    /\ op[p].tries = 0
    /\ Continue(p, [op[p] EXCEPT !.at = "call", !.tries = 1, !.answer = None])
    /\ UNCHANGED <<mirror, cache, avail, fate, excused>>

\* retryOnce: a write is tried again, whatever has gone wrong.
Retry(p) ==
    /\ \E goal \in {"write", "recreate", "again"} : Answered(p, goal)
    /\ op[p].answer # "ok"
    /\ op[p].tries = 0
    /\ Continue(p, [op[p] EXCEPT !.at = "call", !.tries = 1, !.answer = None])
    /\ UNCHANGED <<mirror, cache, avail, fate, excused>>

\* The operation has failed, or what it awaits has, with one of the answers.
Fails(p, goal, answers) ==
    /\ Answered(p, goal)
    /\ op[p].answer \in answers
    /\ goal \in {"write", "recreate", "again"} => op[p].tries = 1

\* Of what was done without the server nothing is left where it differs.
NotOnlyHere == [s \in SessionIds |-> IF fate[s] \in {"kept", "hidden"} THEN "open" ELSE fate[s]]

\* syncLocalMirrorWithBackend.
ReadSucceeds(p) ==
    LET history == op[p].data IN
    /\ Answered(p, "read")
    /\ op[p].answer = "ok"
    /\ HistoryRead(p, history)
    /\ mirror' = history
    /\ fate' = NotOnlyHere
    /\ excused' = (excused /\ ~(op[p].alone /\ ~op[p].outdated))
    /\ UNCHANGED avail

\* A failed request is as good as no server, an error of the server is thrown.
ReadFails(p) ==
    /\ \E goal \in {"read", "post", "open"} : Fails(p, goal, {"lost"})
    /\ Fallback(p)
    /\ UNCHANGED <<avail, fate, excused>>

ReadThrows(p) ==
    /\ \E goal \in {"read", "post", "open"} : Fails(p, goal, {"refused"})
    /\ Continue(p, Idle)
    /\ UNCHANGED <<mirror, cache, avail, fate, excused>>

PostSucceeds(p) ==
    /\ Answered(p, "post")
    /\ op[p].answer = "ok"
    /\ HistorySaved(p)
    /\ UNCHANGED <<avail, fate, excused>>

OpenSucceeds(p) ==
    /\ Answered(p, "open")
    /\ op[p].answer = "ok"
    /\ Continue(p, Idle)
    /\ UNCHANGED <<mirror, cache, avail, fate, excused>>

\* The mirror's copy of a session the server lacks, or is misled to be said to
\* lack, goes.
Purge(s, misled) ==
    /\ mirror' = Without(mirror, s)
    /\ fate' = [fate EXCEPT ![s] = IF @ = "kept" \/ (misled /\ @ = "there")
                                  THEN "open" ELSE @]

Misled(r) == r.answer = "unfound"

OpenMissing(p) ==
    /\ Fails(p, "open", NotFound)
    /\ Purge(op[p].s, Misled(op[p]))
    /\ Continue(p, Idle)
    /\ Excuse(Misled(op[p]))
    /\ UNCHANGED <<cache, avail>>

Acknowledged(r) ==
    IF r.kind = "add" /\ ~r.outdated THEN acked \cup {r.m} ELSE acked

\* What the server answered is applied once more.
WriteSucceeds(p) ==
    LET r == op[p] IN
    /\ Answered(p, "write")
    /\ r.answer = "ok"
    /\ mirror' = Applied(r, mirror)
    /\ fate' = CASE r.alone /\ r.kind = "create" /\ ~r.outdated ->
                        [fate EXCEPT ![r.s] = "there"]
                 [] r.alone /\ r.kind = "delete" -> [fate EXCEPT ![r.s] = "gone"]
                 [] r.alone /\ r.kind = "clear" -> Every("gone")
                 [] OTHER -> fate
    /\ known' = IF r.kind = "create" THEN known \cup {r.s} ELSE known
    /\ acked' = Acknowledged(r)
    /\ Become(p, Idle)
    /\ UNCHANGED <<server, cache, avail, left, excused>>

\* Everything but a missing session: localStorage becomes as it was when the
\* operation began, whoever has changed it since.
WriteRejected(p) ==
    LET r == op[p] IN
    /\ Fails(p, "write", {"refused", "lost"})
    /\ avail' = FALSE
    /\ mirror' = IF r.snapshot = None THEN mirror ELSE r.snapshot
    /\ Continue(p, Idle)
    /\ Excuse(~r.alone \/ r.served)
    /\ UNCHANGED <<cache, fate>>

\* A rename of a missing session is rejected, a deletion is as good as done.
SessionMissing(p) ==
    LET r == op[p] IN
    /\ Fails(p, "write", NotFound)
    /\ r.kind \in {"rename", "delete"}
    /\ IF r.kind = "rename" THEN Purge(r.s, Misled(r))
       ELSE /\ mirror' = Without(mirror, r.s)
            /\ fate' = IF r.alone THEN [fate EXCEPT ![r.s] = "gone"] ELSE fate
    /\ Continue(p, Idle)
    /\ Excuse(Misled(r))
    /\ UNCHANGED <<cache, avail>>

\* recoverMissingBackendSession, from the mirror's copy if there is one.
Recover(p) ==
    LET r == op[p] IN
    /\ Fails(p, "write", {"missing"})
    /\ r.kind \in {"add", "edit"}
    /\ Continue(p, IF mirror[r.s] = None THEN Idle
                   ELSE [r EXCEPT !.at = "call", !.goal = "recreate", !.tries = 0,
                                  !.copy = mirror[r.s], !.answer = None])
    /\ UNCHANGED <<mirror, cache, avail, fate, excused>>

\* Mutation: the recovered session is taken to hold the message.
RecoveredWith(p) ==
    /\ Answered(p, "recreate")
    /\ op[p].answer = "ok"
    /\ mirror' = With(mirror, op[p].s, op[p].copy)
    /\ cache' = None
    /\ acked' = Acknowledged(op[p])
    /\ Become(p, Idle)
    /\ UNCHANGED <<server, avail, left, known, fate, excused>>

Recovered(p) ==
    /\ Answered(p, "recreate")
    /\ op[p].answer = "ok"
    /\ mirror' = With(mirror, op[p].s, op[p].copy)
    /\ cache' = None
    /\ Continue(p, [op[p] EXCEPT !.at = "call", !.goal = "again", !.tries = 0,
                                 !.copy = None, !.answer = None])
    /\ UNCHANGED <<avail, fate, excused>>

RecoverFails(p) ==
    /\ Fails(p, "recreate", {"refused", "lost"})
    /\ Purge(op[p].s, FALSE)
    /\ Continue(p, Idle)
    /\ Excuse(op[p].served)
    /\ UNCHANGED <<cache, avail>>

\* The user is no longer signed in.
RecoverThrows(p) ==
    /\ Fails(p, "recreate", {"refused"})
    /\ Continue(p, Idle)
    /\ UNCHANGED <<mirror, cache, avail, fate, excused>>

AgainSucceeds(p) ==
    /\ Answered(p, "again")
    /\ op[p].answer = "ok"
    /\ mirror' = Applied(op[p], mirror)
    /\ acked' = Acknowledged(op[p])
    /\ Become(p, Idle)
    /\ UNCHANGED <<server, cache, avail, left, known, fate, excused>>

AgainThrows(p) ==
    /\ Fails(p, "again", {"missing", "refused", "lost"})
    /\ Continue(p, Idle)
    /\ UNCHANGED <<mirror, cache, avail, fate, excused>>

-----------------------------------------------------------------------------
Init ==
    /\ server = [s \in SessionIds |-> IF s \in Present THEN {} ELSE None]
    /\ mirror = server
    /\ cache = None
    /\ avail = FALSE
    /\ op = [p \in Procs |-> Idle]
    /\ left = MaxRequests
    /\ known = Present
    /\ fate = [s \in SessionIds |-> IF s \in Present THEN "open" ELSE "fresh"]
    /\ excused = FALSE
    /\ acked = {}

Request(p) ==
    \/ Load(p) \/ ClearAllHistory(p)
    \/ \E s \in SessionIds :
          \/ OpenSession(p, s) \/ SwitchToSession(p, s)
          \/ CreateSession(p, s) \/ RenameSession(p, s) \/ DeleteSession(p, s)
    \/ \E m \in Messages : AddMessage(p, m) \/ UpdateMessage(p, m)

Proceed(p) ==
    \/ CheckSucceeds(p) \/ ReadWithoutServer(p) \/ WriteWithoutServer(p) \/ CheckThrows(p)
    \/ Serve(p) \/ CallFails(p) \/ Retry(p)
    \/ ReadSucceeds(p) \/ ReadFails(p) \/ ReadThrows(p)
    \/ PostSucceeds(p) \/ OpenSucceeds(p) \/ OpenMissing(p)
    \/ WriteSucceeds(p) \/ WriteRejected(p) \/ SessionMissing(p)
    \/ Recover(p) \/ Recovered(p) \/ RecoverFails(p) \/ RecoverThrows(p)
    \/ AgainSucceeds(p) \/ AgainThrows(p)

Next ==
    \/ \E p \in Procs : Request(p) \/ Proceed(p)
    \/ \E s \in SessionIds : Vanish(s)
    \/ CacheExpires

Spec == Init /\ [][Next]_vars

-----------------------------------------------------------------------------
(***************************************************************************)
(* Properties                                                              *)
(***************************************************************************)

Operations ==
    [at : {"idle", "check", "call", "answer"}, goal : Goals \cup {None},
     kind : Kinds \cup {None}, s : SessionIds \cup {None}, m : Messages \cup {None},
     tries : {0, 1}, snapshot : Histories \cup {None},
     data : Histories \cup {None}, copy : {None} \cup SUBSET Messages,
     answer : Answers \cup {None}, alone : BOOLEAN, served : BOOLEAN, outdated : BOOLEAN]

Writing == {"write", "recreate", "again"}

\* What an operation carries along fits what it is and what it awaits.
Fits(r) ==
    /\ r.at = "idle" => r = Idle
    /\ r.at # "idle" =>
          \/ r.kind = "load" /\ r.goal = "read"
          \/ r.kind = "switch" /\ r.goal \in {"read", "post", "open"} /\ r.s # None
          \/ r.kind = "open" /\ r.goal = "open" /\ r.s # None
          \/ r.kind \in {"create", "rename", "delete"} /\ r.goal = "write" /\ r.s # None
          \/ /\ r.kind \in {"add", "edit"} /\ r.goal \in Writing
             /\ r.m \in Messages /\ r.s = Owner[r.m]
          \/ r.kind = "clear" /\ r.goal = "write" /\ r.s = None
    /\ r.at = "check" => r.goal \notin {"recreate", "again"}
    /\ r.at = "answer" <=> r.answer # None
    /\ r.tries = 1 => r.goal \in Writing
    /\ r.snapshot # None <=> r.goal \in Writing /\ r.kind # "clear"
    /\ r.goal = "post" \/ (r.goal = "read" /\ r.answer = "ok") => r.data # None
    /\ r.goal = "recreate" => r.copy # None
    /\ r.answer = "missing" => r.goal \in {"open", "write", "again"} /\ r.s # None
    /\ r.answer = "unfound" => LooksUp(r)

\* Every variable has its type.
TypeOK ==
    /\ server \in Histories
    /\ mirror \in Histories
    /\ cache \in Histories \cup {None}
    /\ avail \in BOOLEAN
    /\ op \in [Procs -> Operations]
    /\ \A p \in Procs : Fits(op[p])
    /\ left \in 0..MaxRequests
    /\ known \subseteq SessionIds
    /\ fate \in [SessionIds -> {"fresh", "open", "there", "gone", "kept", "hidden"}]
    /\ excused \in BOOLEAN
    /\ acked \subseteq Messages

\* A creation or a deletion that had the tab to itself is final, whatever is
\* rejected, rolled back, read late or answered from the cache afterwards: what
\* the server acknowledged holds in all three places until somebody removes
\* the session, or it is opened or renamed while the storage fails, which the
\* tab takes for its end; what was done while the server could not be reached
\* holds in the mirror until the history is read, or a request is told that the
\* session is missing.
Settled ==
    LET read == IF cache = None THEN {} ELSE {cache} IN
    \A s \in SessionIds :
        /\ fate[s] = "there" => \A h \in {server, mirror} \cup read : h[s] # None
        /\ fate[s] = "gone" => \A h \in {server, mirror} \cup read : h[s] = None
        /\ fate[s] = "kept" => mirror[s] # None
        /\ fate[s] = "hidden" => mirror[s] = None

\* "Keep local mirror aligned with canonical backend history": when the tab is
\* at rest, the mirror and the cache list the sessions of the server, also when
\* writes were rejected, and when they ran at the same time.  Until the next
\* undisturbed read they may not if a session vanished, a write was made
\* without the server or by a user signed out, a write was rejected while
\* others were in progress or after it was carried out, the history was read or
\* cleared while others were in progress, or opening or renaming a session ended
\* with "not found" because the storage had failed.
MirrorFollowsServer ==
    (\A p \in Procs : op[p].at = "idle") /\ ~excused =>
        /\ Sessions(mirror) = Sessions(server)
        /\ cache # None => Sessions(cache) = Sessions(server)

\* A message the server has acknowledged is on the server until its session is
\* removed, also if the answer to the first attempt was lost, or the session
\* was and has been recreated from a mirror that others change.
AcknowledgedIsStored == acked \subseteq UNION {server[s] : s \in Sessions(server)}
=============================================================================
