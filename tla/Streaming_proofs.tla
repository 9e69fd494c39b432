--------------------------- MODULE Streaming_proofs ---------------------------
(***************************************************************************)
(* Theorems about Streaming, for any number of runs.                       *)
(***************************************************************************)
EXTENDS Streaming, TLAPS

-----------------------------------------------------------------------------
(***************************************************************************)
(* The inductive invariant                                                 *)
(***************************************************************************)

\* A run the page waits for has not been aborted, so that it does not ignore
\* the results of its tools.
WaitedFor == streaming /\ mounted => current \notin aborted

\* A text that is shown and not saved is of a stream that may still save it, or
\* what was said in a stream that has called tools.
SavesOK ==
    /\ \A r \in Runs : stage[r] = "none" => kept[r] = shown[r]
    /\ mounted /\ current # None /\ kept[current] # shown[current] =>
          /\ current \notin aborted
          /\ \/ /\ shown[current] = "words"
                /\ stage[current] = "open"
                /\ <<current, "first">> \in live \cap said
             \/ /\ shown[current] = "words"
                /\ stage[current] \in {"tools", "final", "dropped"}
             \/ /\ shown[current] = "answer"
                /\ stage[current] = "final"
                /\ <<current, "final">> \in live \cap said

Inv == TypeOK /\ WaitedFor /\ Watched /\ SavesOK

LEMMA NoneIsNoRun == \A n \in Nat : None \notin 1..n
  BY StreamingAssumption

LEMMA InitInv == Init => Inv
<1> SUFFICES ASSUME Init PROVE Inv
  OBVIOUS
<1> USE StreamingAssumption DEF Init
<1>1. LiveOK /\ ControllersOK BY DEF LiveOK, ControllersOK
<1>2. \A r \in Runs : stage[r] = "none" <=> r > started BY DEF Runs
<1>3. TypeOK
  <2>1. pending \in Nat /\ started \in Nat /\ pending + started <= MaxRuns
    OBVIOUS
  <2>2. stage \in [Runs -> {"none", "adding", "refused", "open", "tools", "final", "dropped"}]
    OBVIOUS
  <2>3. shown \in [Runs -> Texts] /\ kept \in [Runs -> Texts]
    BY DEF Texts
  <2> QED BY <1>1, <1>2, <2>1, <2>2, <2>3 DEF TypeOK
<1>4. WaitedFor /\ Watched /\ SavesOK BY DEF WaitedFor, Watched, SavesOK
<1> QED BY <1>3, <1>4 DEF Inv

USE DEF sending, refs, timers, texts

LEMMA UserInv == Inv /\ User => Inv'
<1> SUFFICES ASSUME Inv, User PROVE Inv'
  OBVIOUS
<1> USE StreamingAssumption DEF Inv, TypeOK, Runs, Streams, Texts
<1>1. CASE Send
  <2> USE <1>1 DEF Send
  <2>1. LiveOK' BY DEF LiveOK
  <2>2. ControllersOK' BY NoneIsNoRun DEF ControllersOK
  <2>3. TypeOK' BY <2>1, <2>2
  <2>4. WaitedFor' /\ Watched' BY DEF ControllersOK, WaitedFor, Watched
  <2>5. SavesOK' BY DEF ControllersOK, LiveOK, SavesOK
  <2> QED BY <2>3, <2>4, <2>5
<1>2. CASE SendFails
  <2> USE <1>2 DEF SendFails
  <2>1. LiveOK' BY DEF LiveOK
  <2>2. ControllersOK' BY NoneIsNoRun DEF ControllersOK
  <2>3. TypeOK' BY <2>1, <2>2
  <2>4. WaitedFor' /\ Watched' BY DEF ControllersOK, WaitedFor, Watched
  <2>5. SavesOK' BY DEF ControllersOK, LiveOK, SavesOK
  <2> QED BY <2>3, <2>4, <2>5
<1>3. CASE Start
  <2> USE <1>3 DEF Start, Unsubscribe, Abort, ClearWatchdogs
  <2>1. LiveOK' BY DEF LiveOK
  <2>2. ControllersOK'
    <3>1. aborted' \subseteq 1..started BY NoneIsNoRun DEF ControllersOK
    <3>2. started + 1 \notin 1..started /\ 1..started \subseteq 1..(started + 1)
      OBVIOUS
    <3> QED BY <3>1, <3>2 DEF ControllersOK
  <2>3. TypeOK' BY <2>1, <2>2
  <2>4. WaitedFor' /\ Watched' BY DEF ControllersOK, WaitedFor, Watched
  <2>5. SavesOK' BY DEF ControllersOK, LiveOK, SavesOK
  <2> QED BY <2>3, <2>4, <2>5
<1>4. CASE Cancel
  <2> USE <1>4 DEF Cancel, Unsubscribe, Abort, ClearWatchdogs
  <2>1. LiveOK' BY DEF LiveOK
  <2>2. ControllersOK' BY NoneIsNoRun DEF ControllersOK
  <2>3. TypeOK' BY <2>1, <2>2
  <2>4. WaitedFor' /\ Watched' BY DEF ControllersOK, WaitedFor, Watched
  <2>5. SavesOK' BY DEF ControllersOK, LiveOK, SavesOK
  <2> QED BY <2>3, <2>4, <2>5
<1>5. CASE Leave
  <2> USE <1>5 DEF Leave, Unsubscribe, Abort, ClearWatchdogs
  <2>1. LiveOK' BY DEF LiveOK
  <2>2. ControllersOK' BY NoneIsNoRun DEF ControllersOK
  <2>3. TypeOK' BY <2>1, <2>2
  <2>4. WaitedFor' /\ Watched' BY DEF ControllersOK, WaitedFor, Watched
  <2>5. SavesOK' BY DEF ControllersOK, LiveOK, SavesOK
  <2> QED BY <2>3, <2>4, <2>5
<1> QED BY <1>1, <1>2, <1>3, <1>4, <1>5 DEF User

LEMMA RunInv == ASSUME NEW r \in Runs, Inv, Answered(r) \/ Tools(r) PROVE Inv'
<1> USE StreamingAssumption DEF Inv, TypeOK, Runs, Streams, Texts
<1>1. CASE PlaceholderSaved(r)
  <2> USE <1>1 DEF PlaceholderSaved, WatchFirst
  <2>1. LiveOK' BY DEF LiveOK
  <2>2. ControllersOK' BY NoneIsNoRun DEF ControllersOK
  <2>3. TypeOK' BY <2>1, <2>2
  <2>4. WaitedFor' /\ Watched' BY DEF ControllersOK, WaitedFor, Watched
  <2>5. SavesOK' BY DEF ControllersOK, LiveOK, SavesOK
  <2> QED BY <2>3, <2>4, <2>5
<1>2. CASE PlaceholderRefused(r)
  <2> USE <1>2 DEF PlaceholderRefused
  <2>1. LiveOK' BY DEF LiveOK
  <2>2. ControllersOK' BY NoneIsNoRun DEF ControllersOK
  <2>3. TypeOK' BY <2>1, <2>2
  <2>4. WaitedFor' /\ Watched' BY DEF ControllersOK, WaitedFor, Watched
  <2>5. SavesOK' BY DEF ControllersOK, LiveOK, SavesOK
  <2> QED BY <2>3, <2>4, <2>5
<1>3. CASE ToolsReturn(r)
  <2> USE <1>3 DEF ToolsReturn, WatchFirst, Active
  <2>1. LiveOK' BY DEF LiveOK
  <2>2. ControllersOK' BY NoneIsNoRun DEF ControllersOK
  <2>3. TypeOK' BY <2>1, <2>2
  <2>4. WaitedFor' /\ Watched' BY DEF ControllersOK, WaitedFor, Watched
  <2>5. SavesOK' BY DEF ControllersOK, LiveOK, SavesOK
  <2> QED BY <2>3, <2>4, <2>5
<1>4. CASE ToolsThrow(r)
  <2> USE <1>4 DEF ToolsThrow, Finish, ClearWatchdogs, Save, Active
  <2>1. LiveOK' BY DEF LiveOK
  <2>2. ControllersOK' BY NoneIsNoRun DEF ControllersOK
  <2>3. TypeOK' BY <2>1, <2>2
  <2>4. WaitedFor' /\ Watched' BY DEF ControllersOK, WaitedFor, Watched
  <2>5. SavesOK' BY DEF ControllersOK, LiveOK, SavesOK
  <2> QED BY <2>3, <2>4, <2>5
<1>5. CASE ToolsIgnored(r)
  <2> USE <1>5 DEF ToolsIgnored, Active
  <2>1. LiveOK' BY DEF LiveOK
  <2>2. ControllersOK' BY NoneIsNoRun DEF ControllersOK
  <2>3. TypeOK' BY <2>1, <2>2
  <2>4. WaitedFor' /\ Watched' BY DEF ControllersOK, WaitedFor, Watched
  <2>5. SavesOK' BY DEF ControllersOK, LiveOK, SavesOK
  <2> QED BY <2>3, <2>4, <2>5
<1> QED BY <1>1, <1>2, <1>3, <1>4, <1>5 DEF Answered, Tools

LEMMA ModelInv == ASSUME NEW r \in Runs, Inv, Model(r) PROVE Inv'
<1> USE StreamingAssumption DEF Inv, TypeOK, Runs, Streams, Texts
<1>1. CASE Chunk(r)
  <2> USE <1>1 DEF Chunk, Arrives, WatchIdle, Active
  <2>1. LiveOK' BY DEF LiveOK
  <2>2. ControllersOK' BY NoneIsNoRun DEF ControllersOK
  <2>3. TypeOK' BY <2>1, <2>2
  <2>4. WaitedFor' /\ Watched' BY DEF ControllersOK, WaitedFor, Watched
  <2>5. SavesOK' BY DEF ControllersOK, LiveOK, SavesOK
  <2> QED BY <2>3, <2>4, <2>5
<1>2. CASE Words(r)
  <2> USE <1>2 DEF Words, Arrives, WatchIdle, Active, Show
  <2>1. LiveOK' BY DEF LiveOK
  <2>2. ControllersOK' BY NoneIsNoRun DEF ControllersOK
  <2>3. TypeOK' BY <2>1, <2>2
  <2>4. WaitedFor' /\ Watched' BY DEF ControllersOK, WaitedFor, Watched
  <2>5. SavesOK' BY DEF ControllersOK, LiveOK, SavesOK
  <2> QED BY <2>3, <2>4, <2>5
<1>3. CASE CallTools(r)
  <2> USE <1>3 DEF CallTools, Arrives, ClearWatchdogs, Active
  <2>1. LiveOK' BY DEF LiveOK
  <2>2. ControllersOK' BY NoneIsNoRun DEF ControllersOK
  <2>3. TypeOK' BY <2>1, <2>2
  <2>4. WaitedFor' /\ Watched' BY DEF ControllersOK, WaitedFor, Watched
  <2>5. SavesOK' BY DEF ControllersOK, LiveOK, SavesOK
  <2> QED BY <2>3, <2>4, <2>5
<1>4. CASE FirstCompletes(r)
  <2> USE <1>4 DEF FirstCompletes, Ends, Arrives, Finish, ClearWatchdogs, Active, Save
  <2>1. LiveOK' BY DEF LiveOK
  <2>2. ControllersOK' BY NoneIsNoRun DEF ControllersOK
  <2>3. TypeOK' BY <2>1, <2>2
  <2>4. WaitedFor' /\ Watched' BY DEF ControllersOK, WaitedFor, Watched
  <2>5. SavesOK' BY DEF ControllersOK, LiveOK, SavesOK
  <2> QED BY <2>3, <2>4, <2>5
<1>5. CASE FinalWords(r)
  <2> USE <1>5 DEF FinalWords, Arrives, WatchIdle, Active, Show
  <2>1. LiveOK' BY DEF LiveOK
  <2>2. ControllersOK' BY NoneIsNoRun DEF ControllersOK
  <2>3. TypeOK' BY <2>1, <2>2
  <2>4. WaitedFor' /\ Watched' BY DEF ControllersOK, WaitedFor, Watched
  <2>5. SavesOK' BY DEF ControllersOK, LiveOK, SavesOK
  <2> QED BY <2>3, <2>4, <2>5
<1>6. CASE FinalCompletes(r)
  <2> USE <1>6 DEF FinalCompletes, Ends, Arrives, Finish, ClearWatchdogs, Active, Save
  <2>1. LiveOK' BY DEF LiveOK
  <2>2. ControllersOK' BY NoneIsNoRun DEF ControllersOK
  <2>3. TypeOK' BY <2>1, <2>2
  <2>4. WaitedFor' /\ Watched' BY DEF ControllersOK, WaitedFor, Watched
  <2>5. SavesOK' BY DEF ControllersOK, LiveOK, SavesOK
  <2> QED BY <2>3, <2>4, <2>5
<1> QED BY <1>1, <1>2, <1>3, <1>4, <1>5, <1>6 DEF Model

LEMMA EndInv == ASSUME NEW s \in Streams, Inv, Fails(s) \/ EndIgnored(s) PROVE Inv'
<1> USE StreamingAssumption DEF Inv, TypeOK, Runs, Streams, Texts
<1>1. CASE Fails(s)
  <2> USE <1>1 DEF Fails, Ends, Arrives, Finish, ClearWatchdogs, Active, Save
  <2>1. LiveOK' BY DEF LiveOK
  <2>2. ControllersOK' BY NoneIsNoRun DEF ControllersOK
  <2>3. TypeOK' BY <2>1, <2>2
  <2>4. WaitedFor' /\ Watched' BY DEF ControllersOK, WaitedFor, Watched
  <2>5. SavesOK' BY DEF ControllersOK, LiveOK, SavesOK
  <2> QED BY <2>3, <2>4, <2>5
<1>2. CASE EndIgnored(s)
  <2> USE <1>2 DEF EndIgnored, Active
  <2>1. LiveOK' BY DEF LiveOK
  <2>2. ControllersOK' BY NoneIsNoRun DEF ControllersOK
  <2>3. TypeOK' BY <2>1, <2>2
  <2>4. WaitedFor' /\ Watched' BY DEF ControllersOK, WaitedFor, Watched
  <2>5. SavesOK' BY DEF ControllersOK, LiveOK, SavesOK
  <2> QED BY <2>3, <2>4, <2>5
<1> QED BY <1>1, <1>2

LEMMA TimersInv == Inv /\ Timers => Inv'
<1> SUFFICES ASSUME Inv, Timers PROVE Inv'
  OBVIOUS
<1> USE StreamingAssumption DEF Inv, TypeOK, Runs, Streams, Texts
<1>1. ASSUME NEW r \in Runs, TimesOut(r) PROVE Inv'
  <2> USE <1>1 DEF TimesOut, Unsubscribe, Abort, ClearWatchdogs, Save
  <2>1. LiveOK' BY DEF LiveOK
  <2>2. ControllersOK' BY NoneIsNoRun DEF ControllersOK
  <2>3. TypeOK' BY <2>1, <2>2
  <2>4. WaitedFor' /\ Watched' BY DEF ControllersOK, WaitedFor, Watched
  <2>5. SavesOK' BY DEF ControllersOK, LiveOK, SavesOK
  <2> QED BY <2>3, <2>4, <2>5
<1>2. CASE StaleTimerFires
  <2> USE <1>2 DEF StaleTimerFires
  <2>1. LiveOK' BY DEF LiveOK
  <2>2. ControllersOK' BY NoneIsNoRun DEF ControllersOK
  <2>3. TypeOK' BY <2>1, <2>2
  <2>4. WaitedFor' /\ Watched' BY DEF ControllersOK, WaitedFor, Watched
  <2>5. SavesOK' BY DEF ControllersOK, LiveOK, SavesOK
  <2> QED BY <2>3, <2>4, <2>5
<1>3. firstTimer \in Runs \cup {None} /\ idleTimer \in Runs \cup {None}
  OBVIOUS
<1> QED BY <1>1, <1>2, <1>3 DEF Timers, FirstTimerFires, IdleTimerFires

THEOREM Invariant == Spec => []Inv
<1>1. Inv /\ [Next]_vars => Inv'
  <2> SUFFICES ASSUME Inv, [Next]_vars PROVE Inv'
    OBVIOUS
  <2>1. CASE UNCHANGED vars
    BY <2>1 DEF vars, Inv, TypeOK, LiveOK, ControllersOK, WaitedFor, Watched, SavesOK
  <2>2. CASE Next
    BY <2>2, UserInv, RunInv, ModelInv, EndInv, TimersInv DEF Next
  <2> QED BY <2>1, <2>2
<1> QED BY <1>1, InitInv, PTL DEF Spec

-----------------------------------------------------------------------------
(***************************************************************************)
(* Theorems                                                                *)
(***************************************************************************)

\* Every variable of useStreamChat has its type, whatever runs overlap.
THEOREM TypeCorrect == Spec => []TypeOK
BY Invariant, PTL DEF Inv

\* The page never shows a stream that nothing is left to end, but for a refused
\* placeholder and a watchdog that an earlier run has replaced.
THEOREM StreamsAreWatched == Spec => []Watched
BY Invariant, PTL DEF Inv

\* The text a run leaves on the page is the one it gave to be saved.
THEOREM LastWordsAreSaved == Spec => []LastWordIsSaved
<1>1. Inv => LastWordIsSaved
  BY StreamingAssumption DEF Inv, TypeOK, LiveOK, SavesOK, LastWordIsSaved
<1> QED BY <1>1, Invariant, PTL
=============================================================================
