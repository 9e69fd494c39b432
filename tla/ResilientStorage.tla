-------------------------- MODULE ResilientStorage --------------------------
(***************************************************************************)
(* ResilientStorage (pkg/storage/resilient_storage.go): a circuit breaker  *)
(* in front of the database (primary), with the memory storage (fallback)  *)
(* behind it.  Every operation has the same shape, written out once here;  *)
(* the breaker's state is three separate atomics and a mutex-guarded time, *)
(* so goroutines interleave between any two of them.                       *)
(*                                                                         *)
(* A goroutine p is at pc[p]:                                              *)
(*   "check"    about to load degraded                                     *)
(*   "read"     degraded was set; about to read lastFailure                *)
(*   "compare"  about to compare it with the clock                         *)
(*   "primary"  about to call the primary                                  *)
(*   "count"    recordFailure: about to add to failures                    *)
(*   "stamp"    about to set lastFailure                                   *)
(*   "trip"     about to compare with the threshold and swap degraded      *)
(*   "alarm"    opened the circuit; about to set the gauge to 1            *)
(*   "fallback" about to call the fallback                                 *)
(*   "reset"    recordSuccess: about to clear failures                     *)
(*   "close"    about to swap degraded                                     *)
(*   "calm"     closed the circuit; about to set the gauge to 0            *)
(***************************************************************************)
EXTENDS Integers, FiniteSets

CONSTANTS
    Procs,         \* goroutines serving requests
    Sessions,
    Messages,
    Owner,         \* the session each message is sent to
    Threshold,     \* failures before the circuit opens (5 in the code)
    ResetTimeout,  \* clock ticks before the primary is tried again (30 s)
    Workload,      \* the kinds of requests that arrive
    MaxFaults,     \* bound on the failing primary calls
    None           \* no request

ASSUME ResilientAssumption ==
    /\ Owner \in [Messages -> Sessions]
    /\ Threshold \in Nat \ {0}
    /\ ResetTimeout \in Nat
    /\ MaxFaults \in Nat

VARIABLES
    primary, fallback,   \* what each storage holds
    failures,            \* the atomic counter, up to Threshold: all it is compared with
    degraded,            \* the atomic flag
    age,                 \* ticks since lastFailure, up to Elapsed
    gauge,               \* aichat_storage_degraded
    pc, req,
    seen,                \* seen[p]: ticks since the lastFailure p has read
    count,               \* count[p]: what p's addition to failures returned
    faults,              \* primary calls that have failed
    errors,              \* history: errors the breaker counted, up to Threshold
    faulted,             \* history: a primary call has failed or rejected a duplicate
    acked,               \* history: messages whose storing was acknowledged
    erased               \* history: messages some request takes away

breaker == <<failures, degraded, age, gauge>>
local == <<seen, count>>
history == <<errors, faulted, acked, erased>>
vars == <<primary, fallback, breaker, pc, req, local, faults, history>>

Elapsed == ResetTimeout + 1

Store == [sessions : SUBSET Sessions, messages : SUBSET Messages]
EmptyStore == [sessions |-> {}, messages |-> {}]

MessagesOf(S) == {m \in Messages : Owner[m] \in S}

\* A session comes with messages, as a client sent it or as a rename read it.
SessionWrites ==
    {r \in [kind : {"create", "update"}, session : Sessions, data : SUBSET Messages] :
        r.data \subseteq MessagesOf({r.session})}

\* "get" stands for every request that needs a session and changes none of what
\* is kept here, "add" for those that save a message.
Requests ==
    [kind : {"get", "delete"}, session : Sessions]
      \cup SessionWrites
      \cup [kind : {"add"}, message : Messages]
      \cup [kind : {"expire"}, old : SUBSET Sessions]
      \cup [kind : {"list", "clear", "ping"}]

Init ==
    /\ primary = EmptyStore
    /\ fallback = EmptyStore
    /\ failures = 0
    /\ degraded = FALSE
    /\ age = Elapsed
    /\ gauge = 0
    /\ pc = [p \in Procs |-> "idle"]
    /\ req = [p \in Procs |-> None]
    /\ seen = [p \in Procs |-> Elapsed]
    /\ count = [p \in Procs |-> 0]
    /\ faults = 0
    /\ errors = 0
    /\ faulted = FALSE
    /\ acked = {}
    /\ erased = {}

Goto(p, label) == pc' = [pc EXCEPT ![p] = label]

-----------------------------------------------------------------------------
(***************************************************************************)
(* The two storages, each request one atomic step.                         *)
(***************************************************************************)

\* Whether a storage that holds db carries out request r; otherwise it answers
\* "session already exists" or "session not found".
Serves(db, r) ==
    CASE r.kind = "create"                      -> r.session \notin db.sessions
      [] r.kind \in {"get", "delete", "update"} -> r.session \in db.sessions
      [] r.kind = "add"                         -> Owner[r.message] \in db.sessions
      [] OTHER                                  -> TRUE

\* The messages that request r may take away.
TakenBy(r) ==
    CASE r.kind = "delete" -> MessagesOf({r.session})
      [] r.kind = "update" -> MessagesOf({r.session}) \ r.data
      [] r.kind = "expire" -> MessagesOf(r.old)
      [] r.kind = "clear"  -> Messages
      [] OTHER             -> {}

Without(db, S) == [sessions |-> db.sessions \ S,
                   messages |-> db.messages \ MessagesOf(S)]

\* What a storage that held db may hold after request r.  Of the sessions that
\* one of the two finds expired the other may find some in use.
Effects(db, r) ==
    CASE r.kind = "add"    -> {[db EXCEPT !.messages = @ \cup {r.message}]}
      [] r.kind = "delete" -> {Without(db, {r.session})}
      [] r.kind = "expire" -> {Without(db, S) : S \in SUBSET r.old}
      [] r.kind = "clear"  -> {EmptyStore}
      [] OTHER             -> {db}

\* The database writes the row of a session, without its messages.
PrimaryEffects(db, r) ==
    IF r.kind = "create" THEN {[db EXCEPT !.sessions = @ \cup {r.session}]}
    ELSE Effects(db, r)

\* The memory storage keeps the whole session it is given, messages included.
FallbackEffects(db, r) ==
    CASE r.kind = "create" -> {[sessions |-> db.sessions \cup {r.session},
                                messages |-> db.messages \cup r.data]}
      [] r.kind = "update" ->
            {[db EXCEPT !.messages = (@ \ MessagesOf({r.session})) \cup r.data]}
      [] OTHER             -> Effects(db, r)

-----------------------------------------------------------------------------
\* Ping always goes to the primary, every other request asks the breaker.
Begin(p, r) ==
    /\ pc[p] = "idle"
    /\ r.kind \in Workload
    /\ req' = [req EXCEPT ![p] = r]
    /\ Goto(p, IF r.kind = "ping" THEN "primary" ELSE "check")
    /\ erased' = erased \cup TakenBy(r)
    /\ UNCHANGED <<primary, fallback, breaker, local, faults, errors, faulted, acked>>

\* p answers its request and forgets it.
Answer(p, ok) ==
    /\ Goto(p, "idle")
    /\ req' = [req EXCEPT ![p] = None]
    /\ seen' = [seen EXCEPT ![p] = Elapsed]
    /\ count' = [count EXCEPT ![p] = 0]
    /\ acked' = IF ok /\ req[p].kind = "add" THEN acked \cup {req[p].message}
                ELSE acked

(***************************************************************************)
(* isCircuitOpen                                                           *)
(***************************************************************************)

CheckDegraded(p) ==
    /\ pc[p] = "check"
    /\ Goto(p, IF degraded THEN "read" ELSE "primary")
    /\ UNCHANGED <<primary, fallback, breaker, req, local, faults, history>>

ReadLastFailure(p) ==
    /\ pc[p] = "read"
    /\ seen' = [seen EXCEPT ![p] = age]
    /\ Goto(p, "compare")
    /\ UNCHANGED <<primary, fallback, breaker, req, count, faults, history>>

\* After the reset timeout every caller tries the primary again.
CompareTimeout(p) ==
    /\ pc[p] = "compare"
    /\ Goto(p, IF seen[p] > ResetTimeout THEN "primary" ELSE "fallback")
    /\ UNCHANGED <<primary, fallback, breaker, req, local, faults, history>>

(***************************************************************************)
(* The call of the primary                                                 *)
(***************************************************************************)

PrimarySucceeds(p) ==
    /\ pc[p] = "primary"
    /\ Serves(primary, req[p])
    /\ primary' \in PrimaryEffects(primary, req[p])
    /\ Goto(p, "reset")
    /\ UNCHANGED <<fallback, breaker, req, local, faults, history>>

\* Mutation: "not found" is taken for a failure.
PrimaryRefusesCounted(p) ==
    /\ pc[p] = "primary"
    /\ ~ Serves(primary, req[p])
    /\ req[p].kind # "create"
    /\ Goto(p, "count")
    /\ UNCHANGED <<primary, fallback, breaker, req, local, faults, history>>

\* "not found" is answered as it is: neither a failure nor a success.
PrimaryRefuses(p) ==
    /\ pc[p] = "primary"
    /\ ~ Serves(primary, req[p])
    /\ req[p].kind # "create"
    /\ Answer(p, FALSE)
    /\ UNCHANGED <<primary, fallback, breaker, faults, errors, faulted, erased>>

\* DBStorage reports a session that exists as "failed to create session:
\* UNIQUE constraint failed", which isStorageError takes for a failure.
PrimaryRejectsDuplicate(p) ==
    /\ pc[p] = "primary"
    /\ ~ Serves(primary, req[p])
    /\ req[p].kind = "create"
    /\ faulted' = TRUE
    /\ Goto(p, "count")
    /\ UNCHANGED <<primary, fallback, breaker, req, local, faults, errors, acked, erased>>

\* The call fails, before or after the database has carried it out.
PrimaryFails(p) ==
    /\ pc[p] = "primary"
    /\ faults < MaxFaults
    /\ faults' = faults + 1
    /\ faulted' = TRUE
    /\ \/ UNCHANGED primary
       \/ Serves(primary, req[p]) /\ primary' \in PrimaryEffects(primary, req[p])
    /\ Goto(p, "count")
    /\ UNCHANGED <<fallback, breaker, req, local, errors, acked, erased>>

(***************************************************************************)
(* recordFailure                                                           *)
(***************************************************************************)

OneMore(n) == IF n < Threshold THEN n + 1 ELSE n

CountFailure(p) ==
    /\ pc[p] = "count"
    /\ failures' = OneMore(failures)
    /\ count' = [count EXCEPT ![p] = OneMore(failures)]
    /\ errors' = OneMore(errors)
    /\ Goto(p, "stamp")
    /\ UNCHANGED <<primary, fallback, degraded, age, gauge, req, seen, faults,
                   faulted, acked, erased>>

StampFailure(p) ==
    /\ pc[p] = "stamp"
    /\ age' = 0
    /\ Goto(p, "trip")
    /\ UNCHANGED <<primary, fallback, failures, degraded, gauge, req, local,
                   faults, history>>

\* Where recordFailure returns to: Ping answers nil, the others use the fallback.
AfterFailure(p) ==
    IF req[p].kind = "ping"
    THEN Answer(p, TRUE)
    ELSE Goto(p, "fallback") /\ UNCHANGED <<req, local, acked>>

\* Mutation: an off-by-one in the threshold.
TripBreakerEarly(p) ==
    /\ pc[p] = "trip"
    /\ degraded' = (degraded \/ count[p] >= Threshold - 1)
    /\ IF count[p] >= Threshold - 1 /\ ~ degraded
       THEN Goto(p, "alarm") /\ UNCHANGED <<req, local, acked>>
       ELSE AfterFailure(p)
    /\ UNCHANGED <<primary, fallback, failures, age, gauge, faults, errors, faulted, erased>>

TripBreaker(p) ==
    /\ pc[p] = "trip"
    /\ degraded' = (degraded \/ count[p] >= Threshold)
    /\ IF count[p] >= Threshold /\ ~ degraded
       THEN Goto(p, "alarm") /\ UNCHANGED <<req, local, acked>>
       ELSE AfterFailure(p)
    /\ UNCHANGED <<primary, fallback, failures, age, gauge, faults, errors, faulted, erased>>

\* Mutation: the gauge is incremented instead of set.
RaiseGaugeByOne(p) ==
    /\ pc[p] = "alarm"
    /\ gauge' = gauge + 1
    /\ AfterFailure(p)
    /\ UNCHANGED <<primary, fallback, failures, degraded, age, faults, errors, faulted, erased>>

RaiseGauge(p) ==
    /\ pc[p] = "alarm"
    /\ gauge' = 1
    /\ AfterFailure(p)
    /\ UNCHANGED <<primary, fallback, failures, degraded, age, faults, errors, faulted, erased>>

(***************************************************************************)
(* The call of the fallback                                                *)
(***************************************************************************)

\* Mutation: the fallback's own error is dropped.
FallbackUnchecked(p) ==
    /\ pc[p] = "fallback"
    /\ fallback' \in IF Serves(fallback, req[p])
                     THEN FallbackEffects(fallback, req[p]) ELSE {fallback}
    /\ Answer(p, TRUE)
    /\ UNCHANGED <<primary, breaker, faults, errors, faulted, erased>>

Fallback(p) ==
    /\ pc[p] = "fallback"
    /\ fallback' \in IF Serves(fallback, req[p])
                     THEN FallbackEffects(fallback, req[p]) ELSE {fallback}
    /\ Answer(p, Serves(fallback, req[p]))
    /\ UNCHANGED <<primary, breaker, faults, errors, faulted, erased>>

(***************************************************************************)
(* recordSuccess.  Loading failures and storing zero when it is positive   *)
(* leaves what storing zero at the second of the two instants leaves.      *)
(***************************************************************************)

ResetFailures(p) ==
    /\ pc[p] = "reset"
    /\ failures' = 0
    /\ Goto(p, "close")
    /\ UNCHANGED <<primary, fallback, degraded, age, gauge, req, local, faults, history>>

\* Mutation: a success clears the counter only.
CloseBreakerNever(p) ==
    /\ pc[p] = "close"
    /\ Answer(p, TRUE)
    /\ UNCHANGED <<primary, fallback, breaker, faults, errors, faulted, erased>>

CloseBreaker(p) ==
    /\ pc[p] = "close"
    /\ degraded' = FALSE
    /\ IF degraded
       THEN Goto(p, "calm") /\ UNCHANGED <<req, local, acked>>
       ELSE Answer(p, TRUE)
    /\ UNCHANGED <<primary, fallback, failures, age, gauge, faults, errors, faulted, erased>>

LowerGauge(p) ==
    /\ pc[p] = "calm"
    /\ gauge' = 0
    /\ Answer(p, TRUE)
    /\ UNCHANGED <<primary, fallback, failures, degraded, age, faults, errors, faulted, erased>>

-----------------------------------------------------------------------------
Older(a) == IF a < Elapsed THEN a + 1 ELSE a

\* The clock runs.
Tick ==
    /\ \/ age < Elapsed
       \/ \E p \in Procs : seen[p] < Elapsed
    /\ age' = Older(age)
    /\ seen' = [p \in Procs |-> Older(seen[p])]
    /\ UNCHANGED <<primary, fallback, failures, degraded, gauge, pc, req, count,
                   faults, history>>

\* What a goroutine that has a request does next.
Step(p) ==
    \/ CheckDegraded(p) \/ ReadLastFailure(p) \/ CompareTimeout(p)
    \/ PrimarySucceeds(p) \/ PrimaryRefuses(p) \/ PrimaryRejectsDuplicate(p)
    \/ PrimaryFails(p)
    \/ CountFailure(p) \/ StampFailure(p) \/ TripBreaker(p) \/ RaiseGauge(p)
    \/ Fallback(p)
    \/ ResetFailures(p) \/ CloseBreaker(p) \/ LowerGauge(p)

Next ==
    \/ Tick
    \/ \E p \in Procs : Step(p) \/ \E r \in Requests : Begin(p, r)

Spec == Init /\ [][Next]_vars

\* The scheduler runs every goroutine, the clock advances, and clients keep
\* asking for the list of their sessions.
FairSpec ==
    /\ Spec
    /\ WF_vars(Tick)
    /\ \A p \in Procs : WF_vars(Step(p)) /\ SF_vars(Begin(p, [kind |-> "list"]))

-----------------------------------------------------------------------------
(***************************************************************************)
(* Properties                                                              *)
(***************************************************************************)

Labels == {"idle", "check", "read", "compare", "primary", "count", "stamp", "trip",
           "alarm", "fallback", "reset", "close", "calm"}

\* Every variable has its type.
TypeOK ==
    /\ primary \in Store /\ fallback \in Store
    /\ failures \in 0..Threshold
    /\ degraded \in BOOLEAN
    /\ age \in 0..Elapsed
    /\ gauge \in {0, 1}
    /\ pc \in [Procs -> Labels]
    /\ req \in [Procs -> Requests \cup {None}]
    /\ \A p \in Procs : pc[p] # "idle" => req[p] \in Requests
    /\ seen \in [Procs -> 0..Elapsed]
    /\ count \in [Procs -> 0..Threshold]
    /\ faults \in 0..MaxFaults
    /\ errors \in 0..Threshold
    /\ faulted \in BOOLEAN
    /\ acked \subseteq Messages
    /\ erased \subseteq Messages

\* The circuit opens only after Threshold counted errors ("failures before
\* opening circuit"), also when goroutines count, reset and trip in any order.
OpensAfterThreshold == degraded => errors = Threshold

\* Until a call of the database fails, or a session is created twice, the breaker
\* is invisible: the circuit is closed, nothing has gone to memory, and what was
\* acknowledged is in the database, however often and by however many goroutines
\* it is asked for what it does not hold.
HealthyIsTransparent ==
    ~ faulted => /\ ~ degraded
                 /\ fallback = EmptyStore
                 /\ acked \subseteq erased \cup primary.messages

\* An acknowledged message is held by one of the two storages, whichever answered
\* and however the breaker moved meanwhile, until a request takes it away: it
\* deletes or clears its session, finds the session expired, or writes the
\* session back without the message (UpdateSession: on the memory storage alone
\* this replaces the messages).
AcknowledgedIsHeld ==
    acked \subseteq erased \cup primary.messages \cup fallback.messages

\* What a goroutine knows at each label: makes the three invariants above
\* inductive.
StepsOK ==
    /\ failures <= errors
    /\ ~ faulted => errors = 0 /\ \A p \in Procs : pc[p] # "count"
    /\ \A p \in Procs :
        /\ count[p] <= errors
        /\ pc[p] \in {"read", "compare", "stamp", "trip", "alarm", "fallback"}
              => errors > 0
        /\ pc[p] \in {"reset", "close", "calm"} /\ req[p].kind = "add" =>
              req[p].message \in erased \cup primary.messages
        /\ pc[p] # "idle" => TakenBy(req[p]) \subseteq erased

\* Once the database stops failing, the circuit closes and stays closed, as long
\* as clients keep asking for something the database can answer.
Recovers == <>[] ~ degraded
=============================================================================
