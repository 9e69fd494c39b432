---------------------------- MODULE FileStorage ----------------------------
(***************************************************************************)
(* FileStorage (pkg/storage/file_storage.go): one JSON file per user, a    *)
(* cache of parsed histories, and requests served by concurrent            *)
(* goroutines.  Every mutator loads a copy of the history, changes the     *)
(* copy and saves it.  loadUserHistory holds the user's lock;              *)
(* saveUserHistory holds none, and every save of a user goes through the   *)
(* same temporary file.                                                    *)
(*                                                                         *)
(* A goroutine p is at pc[p]:                                              *)
(*   "idle"   no request                                                   *)
(*   "next"   between two users of a sweep (cleanup, token count, Close)   *)
(*   "load"   about to enter loadUserHistory                               *)
(*   "fill"   file read, user lock held, cache not yet filled              *)
(*   "open"   about to open and truncate the temporary file                *)
(*   "write"  temporary file open                                          *)
(*   "rename" written and closed                                           *)
(*   "remove" rename failed                                                *)
(*   "publish" renamed, cache not yet updated                              *)
(***************************************************************************)
EXTENDS History

CONSTANTS
    Users,
    Procs,        \* goroutines serving requests
    Truncated,    \* content of a file just opened for writing
    Torn,         \* any content that does not parse
    Workload,     \* the kinds of requests that arrive
    Faults,       \* TRUE if file system calls may fail
    MaxRequests,  \* bound on the requests started
    MaxCrashes    \* bound on the process crashes

ASSUME FileAssumption ==
    /\ {Truncated, Torn} \cap (Histories \cup {None}) = {}
    /\ None \notin Users \cup Procs
    /\ Faults \in BOOLEAN

VARIABLES
    disk,      \* disk[u]: the content of user_<u>.json
    tmp,       \* tmp[u]: the content of user_<u>.json.tmp
    cache,     \* cache[u]: the parsed history in fs.cache
    userLock,  \* userLock[u]: who holds the lock in fs.userLocks
    pc, user, req,
    copy,      \* copy[p]: p's private copy of the history of user[p]
    fd,        \* fd[p]: the file p's open descriptor now points to
    todo,      \* todo[p]: the users a sweep has still to visit
    snap,      \* snap[p]: the copy of the cache that Close saves
    sent,      \* history variable: the message sets of the sessions clients sent whole
    started, crashes

files == <<disk, tmp>>
bounds == <<sent, started, crashes>>
vars == <<disk, tmp, cache, userLock, pc, user, req, copy, fd, todo, snap, bounds>>

Readable == Histories \cup {None}
Content == Readable \cup {Truncated, Torn}
CloseRequest == [kind |-> "close"]
Nobody == [u \in Users |-> None]

Init ==
    /\ disk = Nobody
    /\ tmp = Nobody
    /\ cache = Nobody
    /\ userLock = Nobody
    /\ pc = [p \in Procs |-> "idle"]
    /\ user = [p \in Procs |-> None]
    /\ req = [p \in Procs |-> None]
    /\ copy = [p \in Procs |-> None]
    /\ fd = [p \in Procs |-> "none"]
    /\ todo = [p \in Procs |-> {}]
    /\ snap = [p \in Procs |-> Nobody]
    /\ sent = {}
    /\ started = 0
    /\ crashes = 0

\* A missing file is a new user's empty history.
Parse(c) == IF c = None THEN EmptyHistory ELSE c

\* What loadUserHistory gives its caller when the file's content is c.
Loaded(c) == Copied(Parse(c))

Goto(p, label) == pc' = [pc EXCEPT ![p] = label]

-----------------------------------------------------------------------------
\* A request arrives.  ClearAllHistory saves an empty history without loading.
Begin(p, u, r) ==
    /\ pc[p] = "idle"
    /\ r.kind \in Workload
    /\ started < MaxRequests
    /\ started' = started + 1
    /\ user' = [user EXCEPT ![p] = u]
    /\ req' = [req EXCEPT ![p] = r]
    /\ sent' = IF r.kind \in {"create", "update"}
               THEN sent \cup {MessagesIn(r.data)} ELSE sent
    /\ IF r.kind = "clear"
       THEN copy' = [copy EXCEPT ![p] = EmptyHistory] /\ Goto(p, "open")
       ELSE UNCHANGED copy /\ Goto(p, "load")
    /\ UNCHANGED <<files, cache, userLock, fd, todo, snap, crashes>>

CachedUsers == {u \in Users : cache[u] # None}

CachedCopies ==
    [u \in Users |-> IF cache[u] = None THEN None ELSE Copied(cache[u])]

\* DeleteExpiredSessions and UpdateMessageTokenCount list the cached users
\* once, and Close copies the whole cache.
BeginSweep(p, r) ==
    /\ pc[p] = "idle"
    /\ r.kind \in Workload
    /\ started < MaxRequests
    /\ started' = started + 1
    /\ req' = [req EXCEPT ![p] = r]
    /\ todo' = [todo EXCEPT ![p] = CachedUsers]
    /\ snap' = IF r = CloseRequest THEN [snap EXCEPT ![p] = CachedCopies] ELSE snap
    /\ Goto(p, "next")
    /\ UNCHANGED <<files, cache, userLock, user, copy, fd, sent, crashes>>

\* The sweep takes its next user, in the order of a map iteration.
NextUser(p, u) ==
    /\ pc[p] = "next"
    /\ u \in todo[p]
    /\ todo' = [todo EXCEPT ![p] = @ \ {u}]
    /\ user' = [user EXCEPT ![p] = u]
    /\ IF req[p] = CloseRequest
       THEN copy' = [copy EXCEPT ![p] = snap[p][u]] /\ Goto(p, "open")
       ELSE UNCHANGED copy /\ Goto(p, "load")
    /\ UNCHANGED <<files, cache, userLock, req, fd, snap, bounds>>

\* A finished sweep returns; Close first replaces the cache and the lock map.
EndSweep(p) ==
    /\ pc[p] = "next"
    /\ todo[p] = {}
    /\ IF req[p] = CloseRequest
       THEN cache' = Nobody /\ userLock' = Nobody
       ELSE UNCHANGED <<cache, userLock>>
    /\ Goto(p, "idle")
    /\ req' = [req EXCEPT ![p] = None]
    /\ snap' = [snap EXCEPT ![p] = Nobody]
    /\ UNCHANGED <<files, user, copy, fd, todo, bounds>>

\* p is done with user[p]: it returns, or its sweep goes on.
Leave(p, sweeping) ==
    /\ Goto(p, IF sweeping THEN "next" ELSE "idle")
    /\ user' = [user EXCEPT ![p] = None]
    /\ req' = IF sweeping THEN req ELSE [req EXCEPT ![p] = None]
    /\ copy' = [copy EXCEPT ![p] = None]

\* UpdateMessageTokenCount stops at the user that holds the message; cleanup
\* and Close ignore the outcome of a save and go on.
LeaveUnsaved(p) ==
    /\ Leave(p, req[p].kind \in {"expire", "count"})
    /\ todo' = todo

LeaveSaved(p) ==
    /\ Leave(p, req[p].kind \in {"expire", "close"})
    /\ todo' = IF req[p].kind = "count" THEN [todo EXCEPT ![p] = {}] ELSE todo

\* p holds its copy h of the history, which deepCopyHistory made, and runs the
\* body of its operation.
Operate(p, h) ==
    \/ /\ Outcomes(req[p], h) = {}
       /\ LeaveUnsaved(p)
    \/ \E h2 \in Outcomes(req[p], h) :
          /\ copy' = [copy EXCEPT ![p] = h2]
          /\ Goto(p, "open")
          /\ UNCHANGED <<user, req, todo>>

-----------------------------------------------------------------------------
(***************************************************************************)
(* loadUserHistory                                                         *)
(***************************************************************************)

CanLoad(p) == pc[p] = "load" /\ userLock[user[p]] = None

LoadHit(p) ==
    /\ CanLoad(p)
    /\ cache[user[p]] # None
    /\ Operate(p, Copied(cache[user[p]]))
    /\ UNCHANGED <<files, cache, userLock, fd, snap, bounds>>

\* Mutation: whatever bytes the file holds are taken for a history.
LoadMissUnparsed(p) ==
    /\ CanLoad(p)
    /\ cache[user[p]] = None
    /\ userLock' = [userLock EXCEPT ![user[p]] = p]
    /\ copy' = [copy EXCEPT ![p] = Parse(disk[user[p]])]
    /\ Goto(p, "fill")
    /\ UNCHANGED <<files, cache, user, req, fd, todo, snap, bounds>>

\* Not cached: the file is read under the user's lock.
LoadMiss(p) ==
    /\ CanLoad(p)
    /\ cache[user[p]] = None
    /\ disk[user[p]] \in Readable
    /\ userLock' = [userLock EXCEPT ![user[p]] = p]
    /\ copy' = [copy EXCEPT ![p] = Parse(disk[user[p]])]
    /\ Goto(p, "fill")
    /\ UNCHANGED <<files, cache, user, req, fd, todo, snap, bounds>>

\* Mutation: a file that cannot be read is taken for a new user's.
LoadFailsAsNewUser(p) ==
    /\ CanLoad(p)
    /\ cache[user[p]] = None
    /\ Faults \/ disk[user[p]] \notin Readable
    /\ userLock' = [userLock EXCEPT ![user[p]] = p]
    /\ copy' = [copy EXCEPT ![p] = EmptyHistory]
    /\ Goto(p, "fill")
    /\ UNCHANGED <<files, cache, user, req, fd, todo, snap, bounds>>

\* Mutation: the error path keeps the user's lock.
LoadFailsLocked(p) ==
    /\ CanLoad(p)
    /\ cache[user[p]] = None
    /\ Faults \/ disk[user[p]] \notin Readable
    /\ userLock' = [userLock EXCEPT ![user[p]] = p]
    /\ LeaveUnsaved(p)
    /\ UNCHANGED <<files, cache, fd, snap, bounds>>

\* The file cannot be read or does not parse: nothing is cached.
LoadFails(p) ==
    /\ CanLoad(p)
    /\ cache[user[p]] = None
    /\ Faults \/ disk[user[p]] \notin Readable
    /\ LeaveUnsaved(p)
    /\ UNCHANGED <<files, cache, userLock, fd, snap, bounds>>

\* The history read goes to the cache as it is, a copy of it to the operation,
\* and the lock is released; after a Close the lock in the map is another one.
LoadFill(p) ==
    /\ pc[p] = "fill"
    /\ cache' = [cache EXCEPT ![user[p]] = copy[p]]
    /\ userLock' = [userLock EXCEPT ![user[p]] = IF @ = p THEN None ELSE @]
    /\ Operate(p, Copied(copy[p]))
    /\ UNCHANGED <<files, fd, snap, bounds>>

-----------------------------------------------------------------------------
(***************************************************************************)
(* saveUserHistory                                                         *)
(***************************************************************************)

\* os.WriteFile opens with O_CREATE|O_TRUNC: whoever already has the file open
\* keeps writing to the same file.
OpenTmp(p) ==
    /\ pc[p] = "open"
    /\ tmp' = [tmp EXCEPT ![user[p]] = Truncated]
    /\ fd' = [fd EXCEPT ![p] = "tmp"]
    /\ Goto(p, "write")
    /\ UNCHANGED <<disk, cache, userLock, user, req, copy, todo, snap, bounds>>

OpenFails(p) ==
    /\ Faults
    /\ pc[p] = "open"
    /\ LeaveSaved(p)
    /\ UNCHANGED <<files, cache, userLock, fd, snap, bounds>>

\* A file that held old after new is written from its start: the tail of a
\* longer old content stays.
Overwritten(old, new) ==
    IF old \in {Truncated, new} THEN {new} ELSE {new, Torn}

\* The write goes where the descriptor points: the temporary file, the
\* published file if another goroutine renamed it meanwhile, or a file that no
\* longer has a name.
OldContent(p) == IF fd[p] = "tmp" THEN tmp[user[p]] ELSE disk[user[p]]

Put(p, c) ==
    /\ tmp' = IF fd[p] = "tmp" THEN [tmp EXCEPT ![user[p]] = c] ELSE tmp
    /\ disk' = IF fd[p] = "disk" THEN [disk EXCEPT ![user[p]] = c] ELSE disk
    /\ fd' = [fd EXCEPT ![p] = "none"]

Write(p) ==
    /\ pc[p] = "write"
    /\ \E c \in Overwritten(OldContent(p), copy[p]) : Put(p, c)
    /\ Goto(p, "rename")
    /\ UNCHANGED <<cache, userLock, user, req, copy, todo, snap, bounds>>

\* Mutation: the error of the write is dropped.
WriteFailsUnnoticed(p) ==
    /\ Faults
    /\ pc[p] = "write"
    /\ \E c \in {OldContent(p), Torn} : Put(p, c)
    /\ Goto(p, "rename")
    /\ UNCHANGED <<cache, userLock, user, req, copy, todo, snap, bounds>>

\* The disk is full: some of the content may be written; the file stays.
WriteFails(p) ==
    /\ Faults
    /\ pc[p] = "write"
    /\ \E c \in {OldContent(p), Torn} : Put(p, c)
    /\ LeaveSaved(p)
    /\ UNCHANGED <<cache, userLock, snap, bounds>>

\* The file a descriptor of user u points to after a rename, and after a
\* removal, of the temporary file.
Renamed(u) ==
    [q \in Procs |-> CASE user[q] = u /\ fd[q] = "tmp"  -> "disk"
                       [] user[q] = u /\ fd[q] = "disk" -> "gone"
                       [] OTHER                         -> fd[q]]

Removed(u) ==
    [q \in Procs |-> IF user[q] = u /\ fd[q] = "tmp" THEN "gone" ELSE fd[q]]

Rename(p) ==
    LET u == user[p] IN
    /\ pc[p] = "rename"
    /\ tmp[u] # None
    /\ disk' = [disk EXCEPT ![u] = tmp[u]]
    /\ tmp' = [tmp EXCEPT ![u] = None]
    /\ fd' = Renamed(u)
    /\ Goto(p, "publish")
    /\ UNCHANGED <<cache, userLock, user, req, copy, todo, snap, bounds>>

\* Mutation: the error of the rename is dropped.
RenameFailsUnnoticed(p) ==
    /\ pc[p] = "rename"
    /\ Faults \/ tmp[user[p]] = None
    /\ Goto(p, "publish")
    /\ UNCHANGED <<files, cache, userLock, user, req, copy, fd, todo, snap, bounds>>

\* The temporary file is gone, or the call fails.
RenameFails(p) ==
    /\ pc[p] = "rename"
    /\ Faults \/ tmp[user[p]] = None
    /\ Goto(p, "remove")
    /\ UNCHANGED <<files, cache, userLock, user, req, copy, fd, todo, snap, bounds>>

\* Mutation: the cache was updated before the rename, and stays so.
RemovePublished(p) ==
    LET u == user[p] IN
    /\ pc[p] = "remove"
    /\ tmp' = [tmp EXCEPT ![u] = None]
    /\ cache' = [cache EXCEPT ![u] = Copied(copy[p])]
    /\ fd' = Removed(u)
    /\ LeaveSaved(p)
    /\ UNCHANGED <<disk, userLock, snap, bounds>>

\* Clean-up by name, whoever wrote the file.
Remove(p) ==
    LET u == user[p] IN
    /\ pc[p] = "remove"
    /\ tmp' = [tmp EXCEPT ![u] = None]
    /\ fd' = Removed(u)
    /\ LeaveSaved(p)
    /\ UNCHANGED <<disk, cache, userLock, snap, bounds>>

\* The cache takes a copy of what was saved.
Publish(p) ==
    /\ pc[p] = "publish"
    /\ cache' = [cache EXCEPT ![user[p]] = Copied(copy[p])]
    /\ LeaveSaved(p)
    /\ UNCHANGED <<files, userLock, fd, snap, bounds>>

-----------------------------------------------------------------------------
\* The plugin process dies and is restarted: only the files survive.
Crash ==
    /\ crashes < MaxCrashes
    /\ crashes' = crashes + 1
    /\ cache' = Nobody
    /\ userLock' = Nobody
    /\ pc' = [p \in Procs |-> "idle"]
    /\ user' = [p \in Procs |-> None]
    /\ req' = [p \in Procs |-> None]
    /\ copy' = [p \in Procs |-> None]
    /\ fd' = [p \in Procs |-> "none"]
    /\ todo' = [p \in Procs |-> {}]
    /\ snap' = [p \in Procs |-> Nobody]
    /\ UNCHANGED <<files, sent, started>>

Load(p) == LoadHit(p) \/ LoadMiss(p) \/ LoadFails(p) \/ LoadFill(p)

Save(p) ==
    \/ OpenTmp(p) \/ OpenFails(p) \/ Write(p) \/ WriteFails(p)
    \/ Rename(p) \/ RenameFails(p) \/ Remove(p) \/ Publish(p)

\* What a goroutine that has a request does next.
Step(p) == Load(p) \/ Save(p) \/ EndSweep(p) \/ \E u \in Users : NextUser(p, u)

Arrive(p) ==
    \/ \E u \in Users, r \in UserRequests : Begin(p, u, r)
    \/ \E r \in SweepRequests \cup {CloseRequest} : BeginSweep(p, r)

Next == Crash \/ \E p \in Procs : Step(p) \/ Arrive(p)

Spec == Init /\ [][Next]_vars

\* The scheduler runs every goroutine that can run.
FairSpec == Spec /\ \A p \in Procs : WF_vars(Step(p))

\* No two goroutines serve the same user at a time, and Close, which acts on a
\* copy of the cache, runs alone.  No lock of the code enforces it; requests
\* that follow each other behave so.
Apart ==
    \A p, q \in Procs : p # q =>
        /\ user[p] # None => user[p] # user[q]
        /\ req[p] = CloseRequest => pc[q] = "idle"

ApartSpec == Init /\ [][Next /\ Apart']_vars

-----------------------------------------------------------------------------
(***************************************************************************)
(* Properties                                                              *)
(***************************************************************************)

Labels == {"idle", "next", "load", "fill", "open", "write", "rename", "remove",
           "publish"}

\* Every variable has its type: in particular no cache entry is ever a history
\* that did not parse, and a goroutine that saves has a whole history to save.
TypeOK ==
    /\ disk \in [Users -> Content]
    /\ tmp \in [Users -> Content]
    /\ cache \in [Users -> Readable]
    /\ userLock \in [Users -> Procs \cup {None}]
    /\ pc \in [Procs -> Labels]
    /\ user \in [Procs -> Users \cup {None}]
    /\ req \in [Procs -> Requests \cup {CloseRequest, None}]
    /\ copy \in [Procs -> Readable]
    /\ fd \in [Procs -> {"none", "tmp", "disk", "gone"}]
    /\ todo \in [Procs -> SUBSET Users]
    /\ snap \in [Procs -> [Users -> Readable]]
    /\ sent \subseteq SUBSET MsgIds
    /\ started \in Nat
    /\ crashes \in Nat

\* Limits under any interleaving: the session and message limits are checked
\* on a private copy without a lock; still no cached, published or temporary
\* history ever has too many sessions, and none grows past the message limit
\* but by a session a client has sent whole, however saves race, fail or are
\* cut by a crash.
Limited(c) == c \in Histories => WithinLimits(c, sent)

LimitsHold ==
    \A u \in Users : Limited(disk[u]) /\ Limited(tmp[u]) /\ Limited(cache[u])

\* What a goroutine knows at each label, and that the copies it holds are within
\* the limits too: with TypeOK and LimitsHold, an inductive invariant.  What a
\* request carries has been sent.
ControlOK ==
    \A p \in Procs :
        /\ pc[p] \notin {"idle", "next"} => user[p] \in Users
        /\ pc[p] # "idle" => req[p] \in Requests \cup {CloseRequest}
        /\ pc[p] \in {"load", "fill"} => req[p] \in Requests
        /\ pc[p] = "next" => req[p] \in SweepRequests \cup {CloseRequest}
        /\ pc[p] # "idle" /\ req[p].kind \in {"create", "update"} =>
              MessagesIn(req[p].data) \in sent
        /\ pc[p] \notin {"idle", "next", "load"} => copy[p] \in Histories
        /\ pc[p] # "idle" /\ req[p] = CloseRequest =>
              \A u \in todo[p] : snap[p][u] \in Histories

CopiesLimited ==
    \A p \in Procs : Limited(copy[p]) /\ \A u \in Users : Limited(snap[p][u])

\* The published file always parses: "Atomic write: write to temp file, then
\* rename" (saveUserHistory).
PublishedWhole == \A u \in Users : disk[u] \in Readable

\* Between two saves of a user the cache holds what the file says, as it was
\* read ("Cache the loaded history atomically", loadUserHistory), or the copy of
\* it that the last save made ("Update cache after successful write",
\* saveUserHistory), in which no message is marked as a summary.
CacheCoherent ==
    \A u \in Users :
        (cache[u] # None /\ ~ \E p \in Procs : user[p] = u /\ pc[p] = "publish")
            => cache[u] \in {Parse(disk[u]), Loaded(disk[u])}

\* A save that is acknowledged is the content of the file at that moment, so a
\* crash right after the answer loses nothing.
AcknowledgedIsStored ==
    [][\A p \in Procs :
         (pc[p] = "publish" /\ pc'[p] # "publish") => disk[user[p]] = copy[p]]_vars

\* What the file gives its readers, who get copies.
Stored == [u \in Users |-> Loaded(disk[u])]

Contract == INSTANCE ChatHistory WITH store <- Stored

\* Every change of a user's file is the effect of one request on the history
\* the file held before: no update is lost, none is applied twice or in part.
KeepsContract == Contract!ChatHistorySpec

\* With goroutines apart: how the copy, the temporary file, the file and the
\* cache relate at each label.  Inductive together with the invariant above.
Sequential(p) ==
    LET u == user[p] IN
    /\ pc[p] = "fill" => copy[p] = Parse(disk[u])
    /\ pc[p] \in {"open", "write", "rename"} =>
          IF req[p] = CloseRequest
          THEN copy[p] = Loaded(disk[u])
          ELSE copy[p] \in Outcomes(req[p], Loaded(disk[u]))
    /\ pc[p] = "write" => fd[p] = "tmp" /\ tmp[u] = Truncated
    /\ pc[p] = "rename" => tmp[u] = copy[p]
    /\ pc[p] = "publish" => disk[u] = copy[p]
    /\ pc[p] # "idle" /\ req[p] = CloseRequest =>
          \A v \in Users : snap[p][v] # None => snap[p][v] = Loaded(disk[v])

SequentialOK == \A p \in Procs : Sequential(p)

\* With no request in progress the file parses: a torn file would make every
\* later request of the user fail, for good once the process restarts.
AtRest == \A p \in Procs : pc[p] = "idle"

ReadableAtRest == AtRest => PublishedWhole

\* A save builds on what the file holds when it is renamed into place: "to
\* prevent lost updates" (saveUserHistory).
SavesBuildOnFile ==
    [][\A p \in Procs :
         LET u == user[p] IN
         (pc[p] = "rename" /\ pc'[p] = "publish" /\ req[p] # CloseRequest
            /\ tmp[u] = copy[p] /\ disk[u] \in Readable)
           => copy[p] \in Outcomes(req[p], Loaded(disk[u]))]_vars

\* Every request returns, also when files cannot be read or written: no error
\* path keeps a user's lock.
RequestsReturn == \A p \in Procs : pc[p] # "idle" ~> pc[p] = "idle"
=============================================================================
