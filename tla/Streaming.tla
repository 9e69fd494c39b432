------------------------------ MODULE Streaming ------------------------------
(***************************************************************************)
(* Answers of the language model in one chat page: useStreamChat           *)
(* (src/hooks) and sendMessage (src/pages/ChatPage.tsx).                   *)
(*                                                                         *)
(* A run is one call of startStream.  Where run r is, is stage[r]:         *)
(*   "none"     it has not been started                                    *)
(*   "adding"   it awaits that its placeholder message is saved            *)
(*   "refused"  that has failed, and the run is over                       *)
(*   "open"     its first stream has been subscribed                       *)
(*   "tools"    that has ended with tool calls, whose results it awaits    *)
(*   "final"    a second stream, with the results, has been subscribed     *)
(*   "dropped"  the results are not used                                   *)
(* A stream is a run and "first" or "final".  The texts of a message are   *)
(* told apart by where they come from: "words" of the first stream, the    *)
(* "answer" of the final one, a "failure" the program reports.  What comes *)
(* of a request to save a text is in Browser.                              *)
(***************************************************************************)
EXTENDS Naturals

CONSTANTS
    None,     \* no run, no stream
    MaxRuns   \* bound: messages sent

ASSUME StreamingAssumption == MaxRuns \in Nat /\ None \notin Nat

VARIABLES
    pending,     \* messages being sent, whose runs have not been started
    started,     \* runs that have been
    current,     \* runIdRef: None after a cancellation
    stage,
    live,        \* the streams that may still deliver something
    sub,         \* subscriptionRef
    aborter,     \* abortControllerRef, as the run it is for
    aborted,     \* the runs whose signal is aborted
    firstTimer,  \* firstTokenTimerRef, as the run that is timed out, and
    idleTimer,   \* inactivityTimerRef
    streaming,   \* isStreaming
    mounted,     \* the page is shown
    said,        \* the streams that have delivered text
    shown,       \* the last text given to updateMessage for the placeholder, and
    kept,        \* the last one it was to save
    robbed       \* history: runs whose watchdog has been replaced by another's

refs == <<current, sub, aborter, aborted>>
timers == <<firstTimer, idleTimer>>
texts == <<said, shown, kept>>
sending == <<pending, started>>
vars == <<sending, refs, timers, texts, stage, live, streaming, mounted, robbed>>

Runs == 1..MaxRuns
Streams == Runs \X {"first", "final"}
Texts == {"blank", "words", "answer", "failure"}

-----------------------------------------------------------------------------
(***************************************************************************)
(* What handlers share                                                     *)
(***************************************************************************)

\* Mutation: a run is only stopped by its signal.
ActiveUntilAborted(r) == r \notin aborted

\* isRunActive.
Active(r) == r = current /\ r \notin aborted

Unsubscribe == live' = live \ {sub}

Abort == aborted' = aborted \cup ({aborter} \ {None})

\* clearWatchdogs.
ClearWatchdogs == firstTimer' = None /\ idleTimer' = None

\* updateMessage, with and without a request to save.
Show(r, text) == shown' = [shown EXCEPT ![r] = text] /\ UNCHANGED kept

Save(r, text) ==
    /\ shown' = [shown EXCEPT ![r] = text]
    /\ kept' = [kept EXCEPT ![r] = text]

\* The end of a run by one of its streams or tools; the signal is not aborted.
Finish ==
    /\ streaming' = FALSE
    /\ aborter' = None
    /\ ClearWatchdogs
    /\ UNCHANGED robbed

\* startFirstTokenWatchdog replaces whatever timer there is.
WatchFirst(r) ==
    /\ firstTimer' = r
    /\ robbed' = robbed \cup ({firstTimer} \ {None, r})
    /\ UNCHANGED idleTimer

-----------------------------------------------------------------------------
(***************************************************************************)
(* The user                                                                *)
(***************************************************************************)

\* sendMessage, until it awaits that the user's message is saved.  Until its run
\* starts another may be sent.
Send ==
    /\ mounted
    /\ ~streaming
    /\ pending + started < MaxRuns
    /\ pending' = pending + 1
    /\ UNCHANGED <<started, refs, timers, texts, stage, live, streaming, mounted, robbed>>

SendFails ==
    /\ pending > 0
    /\ pending' = pending - 1
    /\ UNCHANGED <<started, refs, timers, texts, stage, live, streaming, mounted, robbed>>

\* startStream, until it awaits that the placeholder is saved.
Start ==
    LET r == started + 1 IN
    /\ pending > 0
    /\ pending' = pending - 1
    /\ started' = r
    /\ current' = r
    /\ Unsubscribe
    /\ sub' = None
    /\ Abort
    /\ aborter' = r
    /\ ClearWatchdogs
    /\ streaming' = TRUE
    /\ stage' = [stage EXCEPT ![r] = "adding"]
    /\ UNCHANGED <<texts, mounted, robbed>>

\* Mutation: the controller that was aborted is kept.
CancelAborting ==
    /\ mounted
    /\ streaming
    /\ current' = None
    /\ Unsubscribe
    /\ sub' = None
    /\ Abort
    /\ ClearWatchdogs
    /\ streaming' = FALSE
    /\ UNCHANGED <<sending, aborter, texts, stage, mounted, robbed>>

\* cancelStream: a run that has not yet subscribed is invalidated, not stopped.
Cancel ==
    /\ mounted
    /\ streaming
    /\ current' = None
    /\ Unsubscribe
    /\ sub' = None
    /\ Abort
    /\ aborter' = None
    /\ ClearWatchdogs
    /\ streaming' = FALSE
    /\ UNCHANGED <<sending, texts, stage, mounted, robbed>>

\* The page is left.
Leave ==
    /\ mounted
    /\ mounted' = FALSE
    /\ Unsubscribe
    /\ Abort
    /\ ClearWatchdogs
    /\ UNCHANGED <<sending, current, sub, aborter, texts, stage, streaming, robbed>>

-----------------------------------------------------------------------------
(***************************************************************************)
(* A run between its streams                                               *)
(***************************************************************************)

\* Whether the run is still active is not asked.
PlaceholderSaved(r) ==
    /\ stage[r] = "adding"
    /\ stage' = [stage EXCEPT ![r] = "open"]
    /\ WatchFirst(r)
    /\ live' = live \cup {<<r, "first">>}
    /\ sub' = <<r, "first">>
    /\ UNCHANGED <<sending, current, aborter, aborted, texts, streaming, mounted>>

\* The sign-in has expired or the session is gone: startStream throws.
PlaceholderRefused(r) ==
    /\ stage[r] = "adding"
    /\ stage' = [stage EXCEPT ![r] = "refused"]
    /\ UNCHANGED <<sending, refs, timers, texts, live, streaming, mounted, robbed>>

ToolsReturn(r) ==
    /\ stage[r] = "tools"
    /\ Active(r)
    /\ stage' = [stage EXCEPT ![r] = "final"]
    /\ WatchFirst(r)
    /\ live' = live \cup {<<r, "final">>}
    /\ sub' = <<r, "final">>
    /\ UNCHANGED <<sending, current, aborter, aborted, texts, streaming, mounted>>

ToolsThrow(r) ==
    /\ stage[r] = "tools"
    /\ Active(r)
    /\ stage' = [stage EXCEPT ![r] = "dropped"]
    /\ Finish
    /\ Save(r, "failure")
    /\ UNCHANGED <<sending, current, sub, aborted, said, live, mounted>>

ToolsIgnored(r) ==
    /\ stage[r] = "tools"
    /\ ~Active(r)
    /\ stage' = [stage EXCEPT ![r] = "dropped"]
    /\ UNCHANGED <<sending, refs, timers, texts, live, streaming, mounted, robbed>>

-----------------------------------------------------------------------------
(***************************************************************************)
(* Streams                                                                 *)
(***************************************************************************)

\* A chunk of a run that is not active is ignored.
Arrives(s) == s \in live /\ Active(s[1])

\* resetInactivityWatchdog, which a chunk of any kind comes to.
WatchIdle(r) ==
    /\ firstTimer' = None
    /\ idleTimer' = r
    /\ robbed' = robbed \ {r}

\* A part of a tool call, or nothing of interest.
Chunk(r) ==
    /\ Arrives(<<r, "first">>)
    /\ WatchIdle(r)
    /\ UNCHANGED <<sending, refs, texts, stage, live, streaming, mounted>>

\* Also after the chunk that called tools.
Words(r) ==
    /\ Arrives(<<r, "first">>)
    /\ WatchIdle(r)
    /\ said' = said \cup {<<r, "first">>}
    /\ Show(r, "words")
    /\ UNCHANGED <<sending, refs, stage, live, streaming, mounted>>

\* The chunk with the reason "tool_calls".
CallTools(r) ==
    /\ stage[r] = "open"
    /\ Arrives(<<r, "first">>)
    /\ stage' = [stage EXCEPT ![r] = "tools"]
    /\ ClearWatchdogs
    /\ robbed' = robbed \ {r}
    /\ UNCHANGED <<sending, refs, texts, live, streaming, mounted>>

FinalWords(r) ==
    /\ Arrives(<<r, "final">>)
    /\ WatchIdle(r)
    /\ said' = said \cup {<<r, "final">>}
    /\ Show(r, "answer")
    /\ UNCHANGED <<sending, refs, stage, live, streaming, mounted>>

Ends(s) == Arrives(s) /\ live' = live \ {s}

\* Mutation: the watchdogs are cleared whether or not the run goes on.
FirstCompletesUnwatched(r) ==
    /\ Ends(<<r, "first">>)
    /\ sub' = None
    /\ IF stage[r] = "open"
       THEN /\ Finish
            /\ IF <<r, "first">> \in said THEN Save(r, "words") ELSE UNCHANGED <<shown, kept>>
       ELSE ClearWatchdogs /\ UNCHANGED <<aborter, shown, kept, streaming, robbed>>
    /\ UNCHANGED <<sending, current, aborted, said, stage, mounted>>

\* With tool calls the run goes on, but sub is cleared even if it is already
\* the final stream.
FirstCompletes(r) ==
    /\ Ends(<<r, "first">>)
    /\ sub' = None
    /\ IF stage[r] = "open"
       THEN /\ Finish
            /\ IF <<r, "first">> \in said THEN Save(r, "words") ELSE UNCHANGED <<shown, kept>>
       ELSE UNCHANGED <<aborter, timers, shown, kept, streaming, robbed>>
    /\ UNCHANGED <<sending, current, aborted, said, stage, mounted>>

FinalCompletes(r) ==
    /\ Ends(<<r, "final">>)
    /\ sub' = None
    /\ Finish
    /\ IF <<r, "final">> \in said THEN Save(r, "answer") ELSE UNCHANGED <<shown, kept>>
    /\ UNCHANGED <<sending, current, aborted, said, stage, mounted>>

\* Mutation: the failure is only shown.
FailsShown(s) ==
    /\ Ends(s)
    /\ Finish
    /\ Show(s[1], "failure")
    /\ UNCHANGED <<sending, current, sub, aborted, said, stage, mounted>>

\* An error of either stream.  If tools are at work the run goes on after them.
Fails(s) ==
    /\ Ends(s)
    /\ Finish
    /\ Save(s[1], "failure")
    /\ UNCHANGED <<sending, current, sub, aborted, said, stage, mounted>>

EndIgnored(s) ==
    /\ s \in live
    /\ ~Active(s[1])
    /\ live' = live \ {s}
    /\ UNCHANGED <<sending, refs, timers, texts, stage, streaming, mounted, robbed>>

-----------------------------------------------------------------------------
(***************************************************************************)
(* Timers                                                                  *)
(***************************************************************************)

\* timeoutStream.
TimesOut(r) ==
    /\ r = current
    /\ Unsubscribe
    /\ sub' = None
    /\ Abort
    /\ aborter' = None
    /\ ClearWatchdogs
    /\ streaming' = FALSE
    /\ Save(r, "failure")
    /\ UNCHANGED <<sending, current, said, stage, mounted, robbed>>

FirstTimerFires == firstTimer # None /\ TimesOut(firstTimer)
IdleTimerFires == idleTimer # None /\ TimesOut(idleTimer)

\* The timer of a run that is not the current one; such a run leaves no other.
StaleTimerFires ==
    /\ firstTimer \notin {None, current}
    /\ firstTimer' = None
    /\ UNCHANGED <<sending, refs, idleTimer, texts, stage, live, streaming, mounted, robbed>>

-----------------------------------------------------------------------------
Init ==
    /\ pending = 0
    /\ started = 0
    /\ current = None
    /\ stage = [r \in Runs |-> "none"]
    /\ live = {}
    /\ sub = None
    /\ aborter = None
    /\ aborted = {}
    /\ firstTimer = None
    /\ idleTimer = None
    /\ streaming = FALSE
    /\ mounted = TRUE
    /\ said = {}
    /\ shown = [r \in Runs |-> "blank"]
    /\ kept = [r \in Runs |-> "blank"]
    /\ robbed = {}

User == Send \/ SendFails \/ Start \/ Cancel \/ Leave

Answered(r) == PlaceholderSaved(r) \/ PlaceholderRefused(r)
Tools(r) == ToolsReturn(r) \/ ToolsThrow(r) \/ ToolsIgnored(r)
Timers == FirstTimerFires \/ IdleTimerFires \/ StaleTimerFires

Model(r) ==
    \/ Chunk(r) \/ Words(r) \/ CallTools(r) \/ FirstCompletes(r)
    \/ FinalWords(r) \/ FinalCompletes(r)

Next ==
    \/ User
    \/ \E r \in Runs : Answered(r) \/ Tools(r) \/ Model(r)
    \/ \E s \in Streams : Fails(s) \/ EndIgnored(s)
    \/ Timers

Spec == Init /\ [][Next]_vars

\* A request to save is answered, tools have a timeout of their own, and timers
\* fire.  The language model may fall silent.
FairSpec ==
    /\ Spec
    /\ \A r \in Runs : WF_vars(Answered(r)) /\ WF_vars(Tools(r))
    /\ WF_vars(FirstTimerFires)
    /\ WF_vars(IdleTimerFires)

-----------------------------------------------------------------------------
(***************************************************************************)
(* Properties                                                              *)
(***************************************************************************)

LiveOK ==
    /\ live \subseteq Streams
    /\ \A r \in Runs :
          /\ <<r, "first">> \in live => stage[r] \in {"open", "tools", "final", "dropped"}
          /\ <<r, "final">> \in live => stage[r] = "final"

ControllersOK ==
    /\ aborter \in {current, None}
    /\ aborted \subseteq 1..started
    /\ mounted => aborter \notin aborted

\* Every variable has its type; a stream delivers only at a stage that has
\* subscribed it; while the page is shown the controller kept is of the current
\* run and has not been aborted; timers but a stale first one are the current run's.
TypeOK ==
    /\ pending \in Nat /\ started \in Nat /\ pending + started <= MaxRuns
    /\ current \in (1..started) \cup {None}
    /\ stage \in [Runs -> {"none", "adding", "refused", "open", "tools", "final", "dropped"}]
    /\ \A r \in Runs : stage[r] = "none" <=> r > started
    /\ LiveOK
    /\ sub \in Streams \cup {None}
    /\ ControllersOK
    /\ firstTimer \in Runs \cup {None}
    /\ idleTimer \in {current, None}
    /\ streaming \in BOOLEAN /\ mounted \in BOOLEAN
    /\ said \subseteq Streams
    /\ shown \in [Runs -> Texts] /\ kept \in [Runs -> Texts]
    /\ robbed \subseteq Runs

\* While the page shows that an answer is on its way something is left that will
\* end it: a save, tools or a timer of the run.  Not if the save of the
\* placeholder was refused, nor if an earlier run, cancelled or overtaken before
\* its own placeholder was saved, has put its timer in the place of this one's.
Watched ==
    streaming /\ mounted =>
        /\ current # None
        /\ \/ stage[current] \in {"adding", "tools", "refused"}
           \/ current \in {firstTimer, idleTimer} \cup robbed

\* What is on its way comes to an end even if the language model falls silent,
\* with the same exceptions.
StreamsEnd ==
    \A r \in Runs :
        streaming /\ mounted /\ current = r
            ~> \/ ~streaming \/ ~mounted \/ current # r
               \/ stage[r] = "refused" \/ r \in robbed

\* When a run that was neither cancelled nor left is over, the text saved is the
\* one shown, in whatever order streams, tools and timers have ended.  Only words
\* of a stream that has called tools are never saved: those before are lost if
\* the model then says nothing, those after stay on the page in the place of the
\* answer or the failure that is saved.
LastWordIsSaved ==
    mounted /\ current # None /\ ~streaming /\ stage[current] # "tools"
      /\ (\A s \in live : s[1] # current) =>
        \/ kept[current] = shown[current]
        \/ stage[current] \in {"final", "dropped"} /\ shown[current] = "words"
=============================================================================
