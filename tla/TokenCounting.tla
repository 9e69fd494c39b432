--------------------------- MODULE TokenCounting ---------------------------
(***************************************************************************)
(* Lazy token counting of one session: GetSessionTokenStats and            *)
(* EnsureTokenCounts (pkg/storage/token_service.go), the background worker *)
(* they submit jobs to (pkg/tokens/worker.go), and the clients that        *)
(* meanwhile add, edit and delete the messages being counted.              *)
(*                                                                         *)
(* A call of GetSessionTokenStats is at pc[c]:                             *)
(*   "idle"    not yet made                                                *)
(*   "submit"  has read the session; submitting one job per message        *)
(*   "wait"    receiving the results in the order of the messages          *)
(*   "report"  about to read the session again                             *)
(*   "done"    answered                                                    *)
(* Each job's result channel has one place, box[c][m].                     *)
(***************************************************************************)
EXTENDS Integers, Sequences, FiniteSets

CONSTANTS
    N,          \* the session's messages are 1..N, oldest first
    Texts,      \* message contents
    Blank,      \* the empty content of a message that is still streaming
    None,       \* no message, no count, no job, no result
    Calls,      \* the calls of GetSessionTokenStats, each made once
    Workers,    \* worker goroutines (4 in the code)
    QueueSize,  \* capacity of the job channel (100 in the code)
    Faults      \* TRUE if UpdateMessageTokenCount may fail

ASSUME TokenAssumption ==
    /\ N \in Nat
    /\ None \notin Texts
    /\ QueueSize \in Nat \ {0}
    /\ Faults \in BOOLEAN

Ids == 1..N

Countable == Texts \ {Blank}

Job == [call : Calls, id : Ids, text : Countable]

ASSUME NoneIsNoJob == None \notin Job

VARIABLES
    text,     \* text[m]: the content of message m
    counted,  \* counted[m]: the text its stored token_count is the count of
    pc,
    asked,    \* asked[c][m]: the content c has read of a message to count
    unsent,   \* unsent[c]: messages c has still to submit
    awaited,  \* awaited[c]: messages whose result c has still to receive
    box,      \* box[c][m]: the text whose count is in the result channel
    queue,    \* the job channel
    job,      \* job[w]: what worker w is counting
    gone,     \* workers that have returned
    phase,    \* "open", "stopping" once stopCh is closed, "stopped"
    changed,  \* history: messages edited or deleted while c was being made
    spoilt    \* history: calls that were cancelled or could not store a count

messages == <<text, counted>>
caller == <<pc, asked, unsent, awaited>>
pool == <<queue, job, gone, phase>>
history == <<changed, spoilt>>
vars == <<messages, caller, box, pool, history>>

Nothing == [m \in Ids |-> None]

Init ==
    /\ text = Nothing
    /\ counted = Nothing
    /\ pc = [c \in Calls |-> "idle"]
    /\ asked = [c \in Calls |-> Nothing]
    /\ unsent = [c \in Calls |-> {}]
    /\ awaited = [c \in Calls |-> {}]
    /\ box = [c \in Calls |-> Nothing]
    /\ queue = <<>>
    /\ job = [w \in Workers |-> None]
    /\ gone = {}
    /\ phase = "open"
    /\ changed = [c \in Calls |-> {}]
    /\ spoilt = {}

Goto(c, label) == pc' = [pc EXCEPT ![c] = label]

IsFirst(m, S) == m \in S /\ \A k \in S : m <= k

-----------------------------------------------------------------------------
(***************************************************************************)
(* Clients                                                                 *)
(***************************************************************************)

\* Messages S change under the calls that are being made.
ChangedWith(S) ==
    [c \in Calls |-> IF pc[c] \in {"idle", "done"} THEN changed[c] ELSE changed[c] \cup S]

\* A message arrives with the count the client sent, which is zero.
AddMessage(m, t) ==
    /\ text[m] = None
    /\ text' = [text EXCEPT ![m] = t]
    /\ UNCHANGED <<counted, caller, box, pool, history>>

\* Mutation: the edit leaves the old count.
UpdateMessageKeepsCount(m, t) ==
    /\ text[m] # None
    /\ text' = [text EXCEPT ![m] = t]
    /\ changed' = ChangedWith({m})
    /\ UNCHANGED <<counted, caller, box, pool, spoilt>>

\* An edit resets the count.
UpdateMessage(m, t) ==
    /\ text[m] # None
    /\ text' = [text EXCEPT ![m] = t]
    /\ counted' = [counted EXCEPT ![m] = None]
    /\ changed' = ChangedWith({m})
    /\ UNCHANGED <<caller, box, pool, spoilt>>

\* The messages go with their session.
DeleteSession ==
    /\ text # Nothing
    /\ text' = Nothing
    /\ counted' = Nothing
    /\ changed' = ChangedWith(Ids)
    /\ UNCHANGED <<caller, box, pool, spoilt>>

-----------------------------------------------------------------------------
(***************************************************************************)
(* GetSessionTokenStats and EnsureTokenCounts                              *)
(***************************************************************************)

\* Mutation: blank messages are counted too.
UncountedOrBlank(m) == text[m] # None /\ counted[m] = None

Uncounted(m) == text[m] \notin {None, Blank} /\ counted[m] = None

\* The session is read; the messages without a count are picked.
Read(c) ==
    LET todo == {m \in Ids : Uncounted(m)} IN
    /\ pc[c] = "idle"
    /\ asked' = [asked EXCEPT ![c] = [m \in Ids |-> IF m \in todo THEN text[m] ELSE None]]
    /\ unsent' = [unsent EXCEPT ![c] = todo]
    /\ awaited' = [awaited EXCEPT ![c] = todo]
    /\ Goto(c, IF todo = {} THEN "report" ELSE "submit")
    /\ UNCHANGED <<messages, box, pool, history>>

\* Mutation: SubmitAsync in place of Submit, its answer ignored.
SubmitOrDrop(c, m) ==
    /\ pc[c] = "submit"
    /\ IsFirst(m, unsent[c])
    /\ queue' = IF Len(queue) < QueueSize
                THEN Append(queue, [call |-> c, id |-> m, text |-> asked[c][m]])
                ELSE queue
    /\ unsent' = [unsent EXCEPT ![c] = @ \ {m}]
    /\ Goto(c, IF unsent[c] = {m} THEN "wait" ELSE "submit")
    /\ UNCHANGED <<messages, asked, awaited, box, job, gone, phase, history>>

\* Blocks while the job channel is full, whatever happens to the request's
\* context and to the worker.
Submit(c, m) ==
    /\ pc[c] = "submit"
    /\ IsFirst(m, unsent[c])
    /\ Len(queue) < QueueSize
    /\ queue' = Append(queue, [call |-> c, id |-> m, text |-> asked[c][m]])
    /\ unsent' = [unsent EXCEPT ![c] = @ \ {m}]
    /\ Goto(c, IF unsent[c] = {m} THEN "wait" ELSE "submit")
    /\ UNCHANGED <<messages, asked, awaited, box, job, gone, phase, history>>

\* Mutation: the loop ends with the first result.
ReceiveOne(c, m) ==
    /\ pc[c] = "wait"
    /\ IsFirst(m, awaited[c])
    /\ box[c][m] # None
    /\ box' = [box EXCEPT ![c][m] = None]
    /\ awaited' = [awaited EXCEPT ![c] = {}]
    /\ Goto(c, "report")
    /\ UNCHANGED <<asked, unsent, pool>>

\* c receives the result of the message it waits for.
Receive(c, m) ==
    /\ pc[c] = "wait"
    /\ IsFirst(m, awaited[c])
    /\ box[c][m] # None
    /\ box' = [box EXCEPT ![c][m] = None]
    /\ awaited' = [awaited EXCEPT ![c] = @ \ {m}]
    /\ Goto(c, IF awaited[c] = {m} THEN "report" ELSE "wait")
    /\ UNCHANGED <<asked, unsent, pool>>

\* UpdateMessageTokenCount stores it by message identifier alone.
Persist(c, m) ==
    /\ Receive(c, m)
    /\ text[m] # None
    /\ counted' = [counted EXCEPT ![m] = box[c][m]]
    /\ UNCHANGED <<text, history>>

\* The database fails, or the message was deleted meanwhile: only logged.
PersistFails(c, m) ==
    /\ Receive(c, m)
    /\ Faults \/ text[m] = None
    /\ spoilt' = spoilt \cup {c}
    /\ UNCHANGED <<messages, changed>>

\* The request's context is done: the results still to come are not awaited.
Cancel(c) ==
    /\ pc[c] = "wait"
    /\ awaited' = [awaited EXCEPT ![c] = {}]
    /\ spoilt' = spoilt \cup {c}
    /\ Goto(c, "report")
    /\ UNCHANGED <<messages, asked, unsent, box, pool, changed>>

\* The session is read again and its counts are summed.
Report(c) ==
    /\ pc[c] = "report"
    /\ Goto(c, "done")
    /\ UNCHANGED <<messages, asked, unsent, awaited, box, pool, history>>

-----------------------------------------------------------------------------
(***************************************************************************)
(* BackgroundWorker                                                        *)
(***************************************************************************)

Idle(w) == w \notin gone /\ job[w] = None

\* Also after Stop: the select of an idle worker picks either channel.
Take(w) ==
    /\ Idle(w)
    /\ queue # <<>>
    /\ job' = [job EXCEPT ![w] = Head(queue)]
    /\ queue' = Tail(queue)
    /\ UNCHANGED <<messages, caller, box, gone, phase, history>>

\* Mutation: the worker checks stopCh between counting and answering.
CountUnlessStopping(w) ==
    /\ job[w] # None
    /\ box' = IF phase = "open" /\ box[job[w].call][job[w].id] = None
              THEN [box EXCEPT ![job[w].call][job[w].id] = job[w].text]
              ELSE box
    /\ job' = [job EXCEPT ![w] = None]
    /\ UNCHANGED <<messages, caller, queue, gone, phase, history>>

\* The registry falls back to an estimate, so counting always succeeds.  A
\* result that finds its channel full is dropped.
Count(w) ==
    /\ job[w] # None
    /\ box' = IF box[job[w].call][job[w].id] = None
              THEN [box EXCEPT ![job[w].call][job[w].id] = job[w].text]
              ELSE box
    /\ job' = [job EXCEPT ![w] = None]
    /\ UNCHANGED <<messages, caller, queue, gone, phase, history>>

\* Mutation: Stop sends one value on stopCh instead of closing it.
ExitOnce(w) ==
    /\ Idle(w)
    /\ phase # "open"
    /\ gone = {}
    /\ gone' = gone \cup {w}
    /\ UNCHANGED <<messages, caller, box, queue, job, phase, history>>

Exit(w) ==
    /\ Idle(w)
    /\ phase # "open"
    /\ gone' = gone \cup {w}
    /\ UNCHANGED <<messages, caller, box, queue, job, phase, history>>

-----------------------------------------------------------------------------
\* Dispose closes the service: stopCh is closed, then every worker awaited.
Close ==
    /\ phase = "open"
    /\ phase' = "stopping"
    /\ UNCHANGED <<messages, caller, box, queue, job, gone, history>>

CloseReturns ==
    /\ phase = "stopping"
    /\ gone = Workers
    /\ phase' = "stopped"
    /\ UNCHANGED <<messages, caller, box, queue, job, gone, history>>

Client ==
    \/ \E m \in Ids, t \in Texts : AddMessage(m, t) \/ UpdateMessage(m, t)
    \/ DeleteSession

\* What a call that has been made does next.
Proceed(c) ==
    \/ \E m \in Ids : Submit(c, m) \/ Persist(c, m) \/ PersistFails(c, m)
    \/ Report(c)

Work(w) == Take(w) \/ Count(w) \/ Exit(w)

Next ==
    \/ Client \/ Close \/ CloseReturns
    \/ \E c \in Calls : Read(c) \/ Proceed(c) \/ Cancel(c)
    \/ \E w \in Workers : Work(w)

Spec == Init /\ [][Next]_vars

\* The scheduler runs every goroutine.  Senders blocked on a full channel are
\* served in order, and a select between two ready channels picks at random:
\* neither a sender nor a stopping worker is passed over for ever.
FairSpec ==
    /\ Spec
    /\ WF_vars(CloseReturns)
    /\ \A c \in Calls :
        /\ WF_vars(Proceed(c))
        /\ SF_vars(\E m \in Ids : Submit(c, m))
    /\ \A w \in Workers : WF_vars(Work(w)) /\ SF_vars(Exit(w))

-----------------------------------------------------------------------------
(***************************************************************************)
(* Properties                                                              *)
(***************************************************************************)

\* Every variable has its type: what is asked for and counted is never blank
\* or missing, and no worker leaves with a job.
TypeOK ==
    /\ text \in [Ids -> Texts \cup {None}]
    /\ counted \in [Ids -> Countable \cup {None}]
    /\ pc \in [Calls -> {"idle", "submit", "wait", "report", "done"}]
    /\ asked \in [Calls -> [Ids -> Countable \cup {None}]]
    /\ unsent \in [Calls -> SUBSET Ids]
    /\ awaited \in [Calls -> SUBSET Ids]
    /\ box \in [Calls -> [Ids -> Countable \cup {None}]]
    /\ queue \in Seq(Job)
    /\ job \in [Workers -> Job \cup {None}]
    /\ gone \subseteq Workers
    /\ \A w \in gone : job[w] = None
    /\ phase \in {"open", "stopping", "stopped"}
    /\ changed \in [Calls -> SUBSET Ids]
    /\ spoilt \subseteq Calls

\* A stored count that is not the count of the message's text can only come
\* from a call during which the message was edited or deleted: results are not
\* mixed up, and an edit with no call under way leaves no old count.
StaleOnlyIfChanged ==
    \A m \in Ids : counted[m] \in {None, text[m]} \/
        \E c \in Calls : m \in changed[c] /\ asked[c][m] = counted[m]

\* "EnsureTokenCounts ensures all messages have token counts computed": a call
\* that was not cancelled and stored its counts leaves none of the messages it
\* picked uncounted, but for those changed while it ran.  Other calls, that
\* count the same messages at the same time, do not disturb this.
EnsuresCounts ==
    \A c \in Calls : pc[c] = "report" /\ c \notin spoilt =>
        \A m \in Ids : asked[c][m] # None /\ m \notin changed[c] => counted[m] # None

\* The job of message m for call c, and where it is.
Wanted(c, m) == [call |-> c, id |-> m, text |-> asked[c][m]]

Places(c, m) ==
    LET mine == Wanted(c, m) IN
    {<<"queue", i>> : i \in {k \in DOMAIN queue : queue[k] = mine}}
      \cup {<<"worker", w>> : w \in {v \in Workers : job[v] = mine}}
      \cup {<<"box", t>> : t \in {box[c][m]} \cap {asked[c][m]}}

\* What the picked messages, the jobs, the results and the counts have to do
\* with each other while a call is being made; with the three properties above,
\* an inductive invariant.
Running == {"submit", "wait", "report"}

CallsOK ==
    \A c \in Calls :
        /\ pc[c] = "idle" => asked[c] = Nothing
        /\ pc[c] \in {"idle", "report", "done"} => awaited[c] = {}
        /\ pc[c] # "submit" => unsent[c] = {}
        /\ unsent[c] \subseteq awaited[c]
        /\ \A m \in Ids :
              /\ m \in awaited[c] => asked[c][m] # None
              /\ box[c][m] \in {None, asked[c][m]}

JobsOK ==
    /\ \A i \in DOMAIN queue : queue[i].text = asked[queue[i].call][queue[i].id]
    /\ \A w \in Workers :
          job[w] # None => job[w].text = asked[job[w].call][job[w].id]

PickedOK ==
    \A c \in Calls : pc[c] \in Running =>
        \A m \in Ids : asked[c][m] # None /\ m \notin changed[c] =>
            /\ text[m] = asked[c][m]
            /\ m \in awaited[c] \/ counted[m] # None \/ c \in spoilt

\* No two jobs are the same, and none that is under way is of a message that is
\* still to be submitted or has its answer waiting.
UnderWay ==
    {queue[i] : i \in DOMAIN queue} \cup {job[w] : w \in {v \in Workers : job[v] # None}}

JobsOnce ==
    /\ \A i, k \in DOMAIN queue : queue[i] = queue[k] => i = k
    /\ \A v, w \in Workers : job[v] = job[w] /\ job[v] # None => v = w
    /\ \A i \in DOMAIN queue, w \in Workers : queue[i] # job[w]
    /\ \A j \in UnderWay : j.id \notin unsent[j.call] /\ box[j.call][j.id] = None
    /\ \A c \in Calls, m \in Ids : box[c][m] # None => m \notin unsent[c]

\* And what is awaited is under way or answered.
JobsPlaced ==
    \A c \in Calls : \A m \in awaited[c] \ unsent[c] :
        Wanted(c, m) \in UnderWay \/ box[c][m] # None

\* A submitted job that is awaited is queued, with a worker, or answered, and
\* only one of these, also while the worker stops: so the answer is never
\* dropped and is never that of another message.
JobsAccounted ==
    \A c \in Calls : pc[c] \in {"submit", "wait"} =>
        \A m \in awaited[c] \ unsent[c] : Cardinality(Places(c, m)) = 1

\* While the service is open every call is answered, whether or not its client
\* waits for it, although calls share the queue and the workers.
CallsReturn ==
    \A c \in Calls : pc[c] = "submit" ~> (pc[c] = "done" \/ phase # "open")

\* "Stop signals all workers to stop and waits for them to finish": it does not
\* wait for ever, whatever the queue holds and callers still submit.
StopReturns == phase = "stopping" ~> phase = "stopped"
=============================================================================
