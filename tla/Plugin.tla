------------------------------- MODULE Plugin -------------------------------
(***************************************************************************)
(* An instance of the plugin (pkg/plugin/app.go) from NewApp to the end of *)
(* Dispose: its handlers at work on the sessions (module Sessions), and    *)
(* the background services that Dispose stops before it closes what they   *)
(* use: the cleanup scheduler (pkg/storage/cleanup.go) that sweeps the     *)
(* sessions, and the session preloader (pkg/cache/session_preloader.go)    *)
(* that reads their messages into the message cache.                       *)
(*                                                                         *)
(* Start of either service launches two goroutines: one works once and     *)
(* nobody waits for it, one works at every tick until it is told to stop.  *)
(* Stop tells it, and waits for it for ten seconds.  A goroutine is        *)
(*   "waiting"   for a tick or the signal to stop (the loop of cleanup)    *)
(*   "working"   on its way to the storage, or, the preloader, between the *)
(*               storage and the cache                                     *)
(*   "exited"                                                              *)
(***************************************************************************)
EXTENDS Sessions, SequencesExt

VARIABLES
    work,     \* where each goroutine of the services is
    dispose,  \* what Dispose does next; "open" before it is called
    overrun   \* services whose Stop gave up waiting

lifecycle == <<work, dispose, overrun>>
allVars == <<vars, lifecycle>>

Services == {"cleanup", "preloader"}
Loop(x) == <<x, "loop">>

\* The goroutines, without the preloader's first: its page is as any other's
\* (see Conversation), and it neither delays Dispose nor touches a session.
Background == {Loop(x) : x \in Services} \cup {<<"cleanup", "first">>}

\* What Dispose does, in order.  To await a service is to have told it to stop;
\* the cache is closed when Dispose goes on to the storage.
Phases == <<"open", "await cleanup", "await preloader", "close storage", "closed">>

Order(phase) == CHOOSE i \in DOMAIN Phases : Phases[i] = phase
Done(phase) == Order(dispose) > Order(phase)

Await(x) == IF x = "cleanup" THEN "await cleanup" ELSE "await preloader"
Stopping(x) == Order(dispose) >= Order(Await(x))

\* MemoryStorage.Close does nothing.
StorageServes == ~Done("close storage") \/ backend = "memory"

-----------------------------------------------------------------------------
(***************************************************************************)
(* Handlers                                                                *)
(***************************************************************************)

\* New requests go to the instance that replaces one being disposed of.
Arrive(p) == dispose = "open" /\ Begin(p) /\ UNCHANGED lifecycle

Handle(p) == StorageServes /\ Proceed(p) /\ UNCHANGED lifecycle

\* The database is closed: whatever the handler still wants to do fails.
HandleFails(p) ==
    /\ ~StorageServes
    /\ req[p].at # "idle"
    /\ Continue(p, Idle)
    /\ UNCHANGED <<left, lifecycle>>

-----------------------------------------------------------------------------
(***************************************************************************)
(* Services                                                                *)
(***************************************************************************)

GoesTo(g, label) == work' = [work EXCEPT ![g] = label]

\* A tick may still lie in the channel when the loop is told to stop.
WakeCleanup ==
    /\ work[Loop("cleanup")] = "waiting"
    /\ GoesTo(Loop("cleanup"), "working")
    /\ UNCHANGED <<vars, dispose, overrun>>

ExitCleanup ==
    /\ work[Loop("cleanup")] = "waiting"
    /\ Stopping("cleanup")
    /\ GoesTo(Loop("cleanup"), "exited")
    /\ UNCHANGED <<vars, dispose, overrun>>

\* runCleanup, which Stop does not cancel, and which only logs a failure.
RunCleanup(g) ==
    /\ g[1] = "cleanup"
    /\ work[g] = "working"
    /\ \/ StorageServes /\ Sweep
       \/ (~StorageServes \/ MayFail) /\ UNCHANGED vars
    /\ GoesTo(g, IF g[2] = "first" THEN "exited" ELSE "waiting")
    /\ UNCHANGED <<dispose, overrun>>

\* The preloader's loop, which reads pages and caches them, has been cancelled.
ExitPreloader ==
    /\ work[Loop("preloader")] = "working"
    /\ Stopping("preloader")
    /\ GoesTo(Loop("preloader"), "exited")
    /\ UNCHANGED <<vars, dispose, overrun>>

-----------------------------------------------------------------------------
(***************************************************************************)
(* Dispose                                                                 *)
(***************************************************************************)

GoOn == dispose' = Phases[Order(dispose) + 1]

\* Dispose tells the cleanup scheduler to stop.
BeginDispose ==
    /\ dispose = "open"
    /\ GoOn
    /\ UNCHANGED <<vars, work, overrun>>

CloseStorage ==
    /\ dispose = "close storage"
    /\ GoOn
    /\ UNCHANGED <<vars, work, overrun>>

\* Mutation: Stop does not wait.
StopReturnsAtOnce(x) ==
    /\ dispose = Await(x)
    /\ GoOn
    /\ UNCHANGED <<vars, work, overrun>>

\* The loop of the service has closed its channel.  Dispose then closes the token
\* service (see TokenCounting) and tells the preloader to stop, or closes the
\* message cache.
StopReturns(x) ==
    /\ dispose = Await(x)
    /\ work[Loop(x)] = "exited"
    /\ GoOn
    /\ UNCHANGED <<vars, work, overrun>>

\* Ten seconds are over.
StopTimesOut(x) ==
    /\ dispose = Await(x)
    /\ work[Loop(x)] # "exited"
    /\ GoOn
    /\ overrun' = overrun \cup {x}
    /\ UNCHANGED <<vars, work>>

Dispose == CloseStorage \/ \E x \in Services : StopReturns(x) \/ StopTimesOut(x)

-----------------------------------------------------------------------------
\* NewApp: the first sweep is on its way.
PluginInit ==
    /\ Init
    /\ work = [g \in Background |-> IF g = Loop("cleanup") THEN "waiting" ELSE "working"]
    /\ dispose = "open"
    /\ overrun = {}

DayPasses == Tick /\ UNCHANGED lifecycle

PluginNext ==
    \/ DayPasses
    \/ \E p \in Procs : Arrive(p) \/ Handle(p) \/ HandleFails(p)
    \/ WakeCleanup \/ ExitCleanup \/ ExitPreloader
    \/ \E g \in Background : RunCleanup(g)
    \/ BeginDispose \/ Dispose

PluginSpec == PluginInit /\ [][PluginNext]_allVars

-----------------------------------------------------------------------------
(***************************************************************************)
(* Properties                                                              *)
(***************************************************************************)

\* Every variable has its type.
TypeOK ==
    /\ backend \in {"db", "memory"}
    /\ table \in [SessionIds -> Row \cup {None}]
    /\ now \in 0..MaxTime
    /\ req \in [Procs -> Requests]
    /\ left \in 0..MaxRequests
    /\ past \in [SessionIds -> Past]
    /\ work \in [Background -> {"waiting", "working", "exited"}]
    /\ dispose \in ToSet(Phases)
    /\ overrun \subseteq Services

\* "DeleteExpiredSessions deletes sessions older than retentionDays": a sweep
\* takes no session somebody wrote to within that time, but for the cases that
\* Sweepable names.
RetentionIsKept ==
    [][\A g \in Background : RunCleanup(g) =>
          \A s \in SessionIds : table'[s] # table[s] => Sweepable(s)]_allVars

\* "Stop token service background worker before closing storage", "Stop session
\* preloader before closing cache": once what a service uses is closed, only a
\* goroutine that works once, for which no Stop waits, or the loop of a service
\* whose Stop gave up waiting may still be at work.
OnlyStragglersWork ==
    \A x \in Services :
        Done(IF x = "cleanup" THEN "close storage" ELSE Await(x)) /\ x \notin overrun
            => work[Loop(x)] = "exited"
=============================================================================
