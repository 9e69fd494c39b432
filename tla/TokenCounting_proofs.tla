------------------------ MODULE TokenCounting_proofs ------------------------
(***************************************************************************)
(* Proofs about TokenCounting for any number of messages, texts, calls and *)
(* workers and any queue size: its types, that a stale count is always due *)
(* to a call that overlapped an edit, that a call leaves nothing it picked *)
(* uncounted, and that every job awaited is in exactly one place.          *)
(***************************************************************************)
EXTENDS TokenCounting, FiniteSetTheorems, TLAPS

IInv == TypeOK /\ CallsOK /\ JobsOK /\ PickedOK /\ StaleOnlyIfChanged

\* Nothing has been written, asked or submitted yet.
LEMMA InitInv == Init => IInv
  <1> SUFFICES ASSUME Init PROVE IInv
    OBVIOUS
  <1>1. TypeOK
    BY DEF Init, TypeOK, Nothing, Job
  <1>2. CallsOK /\ PickedOK /\ StaleOnlyIfChanged
    BY DEF Init, CallsOK, PickedOK, StaleOnlyIfChanged, Nothing, Running
  <1>3. JobsOK
    BY DEF Init, JobsOK
  <1> QED
    BY <1>1, <1>2, <1>3 DEF IInv

-----------------------------------------------------------------------------
\* A client's write disturbs what is known of a message only by changing it
\* under the calls being made.
LEMMA ClientInv == IInv /\ Client => IInv'
  <1> USE DEF IInv, messages, caller, pool, history, Running
  <1>1. ASSUME NEW m \in Ids, NEW t \in Texts, IInv, AddMessage(m, t) PROVE IInv'
    <2>1. TypeOK'
      BY <1>1 DEF AddMessage, TypeOK
    <2>2. CallsOK' /\ JobsOK'
      BY <1>1 DEF AddMessage, CallsOK, JobsOK
    <2>3. PickedOK'
      BY <1>1 DEF AddMessage, TypeOK, CallsOK, PickedOK
    <2>4. StaleOnlyIfChanged'
      BY <1>1 DEF AddMessage, TypeOK, StaleOnlyIfChanged
    <2> QED
      BY <2>1, <2>2, <2>3, <2>4
  <1>2. ASSUME NEW m \in Ids, NEW t \in Texts, IInv, UpdateMessage(m, t) PROVE IInv'
    <2>1. TypeOK'
      BY <1>2 DEF UpdateMessage, TypeOK, ChangedWith
    <2>2. CallsOK' /\ JobsOK'
      BY <1>2 DEF UpdateMessage, CallsOK, JobsOK
    <2>3. PickedOK'
      BY <1>2 DEF UpdateMessage, TypeOK, PickedOK, ChangedWith
    <2>4. StaleOnlyIfChanged'
      BY <1>2 DEF UpdateMessage, TypeOK, StaleOnlyIfChanged, ChangedWith
    <2> QED
      BY <2>1, <2>2, <2>3, <2>4
  <1>3. ASSUME IInv, DeleteSession PROVE IInv'
    <2>1. TypeOK'
      BY <1>3 DEF DeleteSession, TypeOK, ChangedWith, Nothing
    <2>2. CallsOK' /\ JobsOK'
      BY <1>3 DEF DeleteSession, CallsOK, JobsOK
    <2>3. PickedOK'
      BY <1>3 DEF DeleteSession, TypeOK, PickedOK, ChangedWith
    <2>4. StaleOnlyIfChanged'
      BY <1>3 DEF DeleteSession, TypeOK, StaleOnlyIfChanged, Nothing
    <2> QED
      BY <2>1, <2>2, <2>3, <2>4
  <1> QED
    BY <1>1, <1>2, <1>3 DEF Client

\* The messages a call picks have the text it reads.  No job of a call that has
\* not read anything exists.
LEMMA ReadInv == ASSUME NEW c \in Calls PROVE IInv /\ Read(c) => IInv'
  <1> USE DEF IInv, messages, caller, pool, history, Running
  <1> SUFFICES ASSUME IInv, Read(c) PROVE IInv'
    OBVIOUS
  <1> DEFINE todo == {m \in Ids : Uncounted(m)}
  <1>0. /\ pc[c] = "idle"
        /\ asked' = [asked EXCEPT ![c] = [m \in Ids |-> IF m \in todo THEN text[m] ELSE None]]
        /\ unsent' = [unsent EXCEPT ![c] = todo]
        /\ awaited' = [awaited EXCEPT ![c] = todo]
        /\ pc' = [pc EXCEPT ![c] = IF todo = {} THEN "report" ELSE "submit"]
        /\ UNCHANGED <<messages, box, pool, history>>
    BY DEF Read, Goto
  <1>1. todo \subseteq Ids /\ \A m \in todo : text[m] \in Countable /\ text[m] # None
    BY TokenAssumption DEF Uncounted, TypeOK, Countable
  <1> HIDE DEF todo
  <1>2. TypeOK'
    BY <1>0, <1>1 DEF TypeOK
  <1>3. CallsOK'
    BY <1>0, <1>1 DEF TypeOK, CallsOK, Nothing
  <1>4. JobsOK'
    <2>0. \A j \in Job : j.text = asked[j.call][j.id] => j.call # c
      <3>1. \A m \in Ids : asked[c][m] = None
        BY <1>0 DEF CallsOK, Nothing
      <3> QED
        BY <3>1, TokenAssumption DEF Job, Countable
    <2>1. \A i \in DOMAIN queue : queue[i] \in Job /\ queue[i].call # c
      <3>1. \A i \in DOMAIN queue : queue[i] \in Job
        BY DEF TypeOK
      <3> QED
        BY <2>0, <3>1 DEF JobsOK
    <2>2. \A w \in Workers : job[w] # None => job[w] \in Job /\ job[w].call # c
      BY <2>0 DEF TypeOK, JobsOK
    <2> QED
      BY <1>0, <2>1, <2>2 DEF TypeOK, JobsOK, Job
  <1>5. PickedOK'
    BY <1>0, <1>1 DEF TypeOK, PickedOK
  <1>6. StaleOnlyIfChanged'
    BY <1>0 DEF TypeOK, CallsOK, StaleOnlyIfChanged, Nothing
  <1> QED
    BY <1>2, <1>3, <1>4, <1>5, <1>6

\* A job carries the text its call has picked.
LEMMA SubmitInv ==
    ASSUME NEW c \in Calls, NEW m \in Ids PROVE IInv /\ Submit(c, m) => IInv'
  <1> USE DEF IInv, messages, caller, pool, history, Running
  <1> SUFFICES ASSUME IInv, Submit(c, m) PROVE IInv'
    OBVIOUS
  <1> DEFINE new == [call |-> c, id |-> m, text |-> asked[c][m]]
  <1>0. /\ pc[c] = "submit" /\ m \in unsent[c]
        /\ queue' = Append(queue, new)
        /\ unsent' = [unsent EXCEPT ![c] = unsent[c] \ {m}]
        /\ pc' = [pc EXCEPT ![c] = IF unsent[c] = {m} THEN "wait" ELSE "submit"]
        /\ UNCHANGED <<messages, asked, awaited, box, job, gone, phase, history>>
    BY DEF Submit, IsFirst, Goto, TypeOK
  <1>1. new \in Job
    BY <1>0 DEF TypeOK, CallsOK, Job
  <1>2. new.text = asked[new.call][new.id]
    OBVIOUS
  <1> HIDE DEF new
  <1>3. TypeOK'
    BY <1>0, <1>1 DEF TypeOK
  <1>4. CallsOK'
    BY <1>0 DEF TypeOK, CallsOK
  <1>5. JobsOK'
    <2>1. \A i \in DOMAIN queue' :
             queue'[i] = new \/ (i \in DOMAIN queue /\ queue'[i] = queue[i])
      <3>1. queue \in Seq(Job)
        BY DEF TypeOK
      <3>2. /\ DOMAIN queue = 1..Len(queue) /\ Len(queue) \in Nat
            /\ DOMAIN queue' = 1..(Len(queue) + 1)
            /\ queue'[Len(queue) + 1] = new
        BY <1>0, <1>1, <3>1
      <3>3. \A i \in 1..Len(queue) : queue'[i] = queue[i]
        BY <1>0, <1>1, <3>1
      <3> QED
        BY <3>2, <3>3
    <2> QED
      BY <1>0, <1>2, <2>1 DEF JobsOK
  <1>6. PickedOK' /\ StaleOnlyIfChanged'
    BY <1>0 DEF TypeOK, PickedOK, StaleOnlyIfChanged
  <1> QED
    BY <1>3, <1>4, <1>5, <1>6

-----------------------------------------------------------------------------
\* Receiving a result keeps the types and what is known of calls and jobs.
LEMMA ReceiveInv ==
    ASSUME NEW c \in Calls, NEW m \in Ids, IInv, Receive(c, m)
    PROVE  /\ CallsOK' /\ JobsOK'
           /\ m \in awaited[c] /\ box[c][m] = asked[c][m] /\ asked[c][m] # None
           /\ pc[c] = "wait"
           /\ awaited' = [awaited EXCEPT ![c] = awaited[c] \ {m}]
           /\ pc' = [pc EXCEPT ![c] = IF awaited[c] = {m} THEN "report" ELSE "wait"]
           /\ pc' \in [Calls -> {"idle", "submit", "wait", "report", "done"}]
           /\ awaited' \in [Calls -> SUBSET Ids]
           /\ box' \in [Calls -> [Ids -> Countable \cup {None}]]
  <1> USE DEF IInv, pool
  <1>0. /\ pc[c] = "wait" /\ m \in awaited[c] /\ box[c][m] # None
        /\ box' = [box EXCEPT ![c][m] = None]
        /\ awaited' = [awaited EXCEPT ![c] = awaited[c] \ {m}]
        /\ pc' = [pc EXCEPT ![c] = IF awaited[c] = {m} THEN "report" ELSE "wait"]
        /\ UNCHANGED <<asked, unsent, queue, job, gone, phase>>
    BY DEF Receive, IsFirst, Goto, TypeOK
  <1>1. box[c][m] = asked[c][m] /\ asked[c][m] # None
    BY <1>0 DEF CallsOK
  <1>2. /\ pc' \in [Calls -> {"idle", "submit", "wait", "report", "done"}]
        /\ awaited' \in [Calls -> SUBSET Ids]
        /\ box' \in [Calls -> [Ids -> Countable \cup {None}]]
    BY <1>0 DEF TypeOK
  <1>3. CallsOK'
    BY <1>0 DEF TypeOK, CallsOK
  <1>4. JobsOK'
    BY <1>0 DEF JobsOK
  <1> QED
    BY <1>0, <1>1, <1>2, <1>3, <1>4

\* The count stored is that of the text picked: stale only if the message was
\* changed since.
LEMMA PersistInv ==
    ASSUME NEW c \in Calls, NEW m \in Ids PROVE IInv /\ Persist(c, m) => IInv'
  <1> USE DEF IInv, messages, caller, pool, history, Running
  <1> SUFFICES ASSUME IInv, Persist(c, m) PROVE IInv'
    OBVIOUS
  <1>r. /\ m \in awaited[c] /\ box[c][m] = asked[c][m] /\ asked[c][m] # None
        /\ pc[c] = "wait"
        /\ awaited' = [awaited EXCEPT ![c] = awaited[c] \ {m}]
        /\ pc' = [pc EXCEPT ![c] = IF awaited[c] = {m} THEN "report" ELSE "wait"]
        /\ pc' \in [Calls -> {"idle", "submit", "wait", "report", "done"}]
        /\ awaited' \in [Calls -> SUBSET Ids]
        /\ box' \in [Calls -> [Ids -> Countable \cup {None}]]
    BY ReceiveInv DEF Persist
  <1>0. /\ counted' = [counted EXCEPT ![m] = asked[c][m]]
        /\ UNCHANGED <<text, asked, unsent, pool, history>>
    BY <1>r DEF Persist, Receive
  <1>1. CallsOK' /\ JobsOK'
    BY ReceiveInv DEF Persist
  <1>2. TypeOK'
    <2>1. counted' \in [Ids -> Countable \cup {None}]
      BY <1>0, <1>r DEF TypeOK
    <2> QED
      BY <1>0, <1>r, <2>1 DEF TypeOK
  <1>3. PickedOK'
    <2> SUFFICES ASSUME NEW d \in Calls, pc'[d] \in Running,
                        NEW k \in Ids, asked[d][k] # None, k \notin changed[d]
                 PROVE  /\ text[k] = asked[d][k]
                        /\ k \in awaited'[d] \/ counted'[k] # None \/ d \in spoilt
      BY <1>0 DEF PickedOK
    <2>1. pc[d] \in Running
      BY <1>r DEF TypeOK
    <2>2. /\ text[k] = asked[d][k]
          /\ k \in awaited[d] \/ counted[k] # None \/ d \in spoilt
      BY <2>1 DEF PickedOK
    <2>3. k \in awaited[d] => k \in awaited'[d] \/ k = m
      BY <1>r DEF TypeOK
    <2>4. counted[k] # None \/ k = m => counted'[k] # None
      BY <1>0, <1>r DEF TypeOK
    <2> QED
      BY <2>2, <2>3, <2>4
  <1>4. StaleOnlyIfChanged'
    <2> SUFFICES ASSUME NEW k \in Ids
                 PROVE  counted'[k] \in {None, text[k]} \/
                          \E d \in Calls : k \in changed[d] /\ asked[d][k] = counted'[k]
      BY <1>0 DEF StaleOnlyIfChanged
    <2>1. CASE k # m
      BY <1>0, <2>1 DEF TypeOK, StaleOnlyIfChanged
    <2>2. CASE k = m
      <3>1. counted'[m] = asked[c][m]
        BY <1>0 DEF TypeOK
      <3>2. m \notin changed[c] => text[m] = asked[c][m]
        BY <1>r DEF PickedOK
      <3> QED
        BY <2>2, <3>1, <3>2
    <2> QED
      BY <2>1, <2>2
  <1> QED
    BY <1>1, <1>2, <1>3, <1>4

\* A count that is not stored spoils the call.
LEMMA PersistFailsInv ==
    ASSUME NEW c \in Calls, NEW m \in Ids PROVE IInv /\ PersistFails(c, m) => IInv'
  <1> USE DEF IInv, messages, caller, pool, history, Running
  <1> SUFFICES ASSUME IInv, PersistFails(c, m) PROVE IInv'
    OBVIOUS
  <1>r. /\ m \in awaited[c] /\ box[c][m] = asked[c][m] /\ asked[c][m] # None
        /\ pc[c] = "wait"
        /\ awaited' = [awaited EXCEPT ![c] = awaited[c] \ {m}]
        /\ pc' = [pc EXCEPT ![c] = IF awaited[c] = {m} THEN "report" ELSE "wait"]
        /\ pc' \in [Calls -> {"idle", "submit", "wait", "report", "done"}]
        /\ awaited' \in [Calls -> SUBSET Ids]
        /\ box' \in [Calls -> [Ids -> Countable \cup {None}]]
    BY ReceiveInv DEF PersistFails
  <1>0. /\ spoilt' = spoilt \cup {c}
        /\ UNCHANGED <<text, counted, asked, unsent, pool, changed>>
    BY DEF PersistFails, Receive
  <1>1. CallsOK' /\ JobsOK'
    BY ReceiveInv DEF PersistFails
  <1>2. TypeOK'
    BY <1>0, <1>r DEF TypeOK
  <1>3. PickedOK'
    BY <1>0, <1>r DEF TypeOK, PickedOK
  <1>4. StaleOnlyIfChanged'
    BY <1>0 DEF StaleOnlyIfChanged
  <1> QED
    BY <1>1, <1>2, <1>3, <1>4

\* A call that gives up is spoilt, one that answers is no longer being made.
LEMMA EndInv == ASSUME NEW c \in Calls PROVE IInv /\ (Cancel(c) \/ Report(c)) => IInv'
  <1> USE DEF IInv, messages, caller, pool, history, Running
  <1>1. ASSUME IInv, Cancel(c) PROVE IInv'
    <2>0. /\ pc[c] = "wait"
          /\ awaited' = [awaited EXCEPT ![c] = {}]
          /\ spoilt' = spoilt \cup {c}
          /\ pc' = [pc EXCEPT ![c] = "report"]
          /\ UNCHANGED <<messages, asked, unsent, box, pool, changed>>
      BY <1>1 DEF Cancel, Goto
    <2>1. TypeOK' /\ CallsOK'
      BY <1>1, <2>0 DEF TypeOK, CallsOK
    <2>2. JobsOK' /\ StaleOnlyIfChanged'
      BY <1>1, <2>0 DEF JobsOK, StaleOnlyIfChanged
    <2>3. PickedOK'
      BY <1>1, <2>0 DEF TypeOK, PickedOK
    <2> QED
      BY <2>1, <2>2, <2>3
  <1>2. ASSUME IInv, Report(c) PROVE IInv'
    <2>0. /\ pc[c] = "report"
          /\ pc' = [pc EXCEPT ![c] = "done"]
          /\ UNCHANGED <<messages, asked, unsent, awaited, box, pool, history>>
      BY <1>2 DEF Report, Goto
    <2>1. TypeOK' /\ CallsOK'
      BY <1>2, <2>0 DEF TypeOK, CallsOK
    <2>2. JobsOK' /\ StaleOnlyIfChanged'
      BY <1>2, <2>0 DEF JobsOK, StaleOnlyIfChanged
    <2>3. PickedOK'
      BY <1>2, <2>0 DEF TypeOK, PickedOK
    <2> QED
      BY <2>1, <2>2, <2>3
  <1> QED
    BY <1>1, <1>2

-----------------------------------------------------------------------------
\* A worker moves a job from the queue to the result channel of its call.
LEMMA WorkInv == ASSUME NEW w \in Workers PROVE IInv /\ Work(w) => IInv'
  <1> USE DEF IInv, messages, caller, pool, history, Running
  <1>1. ASSUME IInv, Take(w) PROVE IInv'
    <2>0. /\ w \notin gone /\ queue # <<>>
          /\ job' = [job EXCEPT ![w] = Head(queue)]
          /\ queue' = Tail(queue)
          /\ UNCHANGED <<messages, caller, box, gone, phase, history>>
      BY <1>1 DEF Take, Idle
    <2>1. /\ Head(queue) \in Job /\ Tail(queue) \in Seq(Job)
          /\ Head(queue).text = asked[Head(queue).call][Head(queue).id]
          /\ \A i \in DOMAIN Tail(queue) :
                i + 1 \in DOMAIN queue /\ Tail(queue)[i] = queue[i + 1]
      BY <1>1, <2>0 DEF TypeOK, JobsOK
    <2>2. TypeOK'
      BY <1>1, <2>0, <2>1 DEF TypeOK
    <2>3. CallsOK' /\ PickedOK' /\ StaleOnlyIfChanged'
      BY <1>1, <2>0 DEF CallsOK, PickedOK, StaleOnlyIfChanged
    <2>4. JobsOK'
      BY <1>1, <2>0, <2>1 DEF TypeOK, JobsOK
    <2> QED
      BY <2>2, <2>3, <2>4
  <1>2. ASSUME IInv, Count(w) PROVE IInv'
    <2> DEFINE to == job[w].call
               id == job[w].id
    <2>0. /\ job[w] # None
          /\ job' = [job EXCEPT ![w] = None]
          /\ UNCHANGED <<messages, caller, queue, gone, phase, history>>
          /\ \/ box' = [box EXCEPT ![to][id] = job[w].text]
             \/ box' = box
      BY <1>2 DEF Count
    <2>1. /\ to \in Calls /\ id \in Ids /\ job[w].text \in Countable
          /\ job[w].text = asked[to][id]
      BY <1>2, <2>0 DEF TypeOK, JobsOK, Job
    <2> HIDE DEF to, id
    <2>b. /\ box' \in [Calls -> [Ids -> Countable \cup {None}]]
          /\ \A c \in Calls, m \in Ids : box'[c][m] = box[c][m] \/ box'[c][m] = asked[c][m]
      <3>1. box \in [Calls -> [Ids -> Countable \cup {None}]]
        BY <1>2 DEF TypeOK
      <3>2. CASE box' = box
        BY <3>1, <3>2
      <3>3. CASE box' = [box EXCEPT ![to][id] = job[w].text]
        <4>1. box' \in [Calls -> [Ids -> Countable \cup {None}]]
          BY <2>1, <3>1, <3>3
        <4>2. ASSUME NEW c \in Calls, NEW m \in Ids
              PROVE  box'[c][m] = box[c][m] \/ box'[c][m] = asked[c][m]
          BY <2>1, <3>1, <3>3
        <4> QED
          BY <4>1, <4>2
      <3> QED
        BY <2>0, <3>2, <3>3
    <2>j. job' \in [Workers -> Job \cup {None}] /\ \A v \in gone : job'[v] = None
      BY <1>2, <2>0 DEF TypeOK
    <2>2. TypeOK'
      BY <1>2, <2>0, <2>b, <2>j DEF TypeOK
    <2>3. CallsOK'
      BY <1>2, <2>0, <2>b DEF CallsOK
    <2>4. JobsOK' /\ PickedOK' /\ StaleOnlyIfChanged'
      BY <1>2, <2>0 DEF TypeOK, JobsOK, PickedOK, StaleOnlyIfChanged
    <2> QED
      BY <2>2, <2>3, <2>4
  <1>3. ASSUME IInv, Exit(w) PROVE IInv'
    <2>1. TypeOK'
      BY <1>3 DEF Exit, Idle, TypeOK
    <2>2. CallsOK' /\ JobsOK' /\ PickedOK' /\ StaleOnlyIfChanged'
      BY <1>3 DEF Exit, CallsOK, JobsOK, PickedOK, StaleOnlyIfChanged
    <2> QED
      BY <2>1, <2>2
  <1> QED
    BY <1>1, <1>2, <1>3 DEF Work

\* Closing touches no call and no count.
LEMMA CloseInv == IInv /\ (Close \/ CloseReturns \/ UNCHANGED vars) => IInv'
  <1> USE DEF IInv, messages, caller, pool, history, vars
  <1> SUFFICES ASSUME IInv, Close \/ CloseReturns \/ UNCHANGED vars PROVE IInv'
    OBVIOUS
  <1>1. TypeOK'
    BY DEF Close, CloseReturns, TypeOK
  <1>2. CallsOK' /\ JobsOK' /\ PickedOK' /\ StaleOnlyIfChanged'
    BY DEF Close, CloseReturns, CallsOK, JobsOK, PickedOK, StaleOnlyIfChanged
  <1> QED
    BY <1>1, <1>2

\* Every step keeps the invariant.
LEMMA NextInv == IInv /\ [Next]_vars => IInv'
  <1> SUFFICES ASSUME IInv, [Next]_vars PROVE IInv'
    OBVIOUS
  <1>1. CASE Client
    BY <1>1, ClientInv
  <1>2. CASE Close \/ CloseReturns \/ UNCHANGED vars
    BY <1>2, CloseInv
  <1>3. ASSUME NEW c \in Calls, Read(c) \/ Proceed(c) \/ Cancel(c) PROVE IInv'
    BY <1>3, ReadInv, SubmitInv, PersistInv, PersistFailsInv, EndInv DEF Proceed
  <1>4. ASSUME NEW w \in Workers, Work(w) PROVE IInv'
    BY <1>4, WorkInv
  <1> QED
    BY <1>1, <1>2, <1>3, <1>4 DEF Next

\* The inductive invariant.
LEMMA SpecInv == Spec => []IInv
  BY InitInv, NextInv, PTL DEF Spec

-----------------------------------------------------------------------------
(***************************************************************************)
(* Where the jobs are.                                                     *)
(***************************************************************************)
AInv == JobsOnce /\ JobsPlaced

\* Call, message and picked text make the job.
LEMMA JobsAreWanted ==
    ASSUME IInv
    PROVE  \A j \in UnderWay : j \in Job /\ j # None /\ j = Wanted(j.call, j.id)
  <1> USE NoneIsNoJob DEF IInv
  <1>1. \A j \in Job : j.text = asked[j.call][j.id] => j = Wanted(j.call, j.id)
    BY DEF Job, Wanted
  <1>2. \A i \in DOMAIN queue : queue[i] \in Job /\ queue[i] = Wanted(queue[i].call, queue[i].id)
    <2>1. \A i \in DOMAIN queue : queue[i] \in Job
      BY DEF TypeOK
    <2> QED
      BY <1>1, <2>1 DEF JobsOK
  <1>3. \A w \in Workers : job[w] # None =>
           job[w] \in Job /\ job[w] = Wanted(job[w].call, job[w].id)
    BY <1>1 DEF TypeOK, JobsOK
  <1> QED
    BY <1>2, <1>3 DEF UnderWay

\* What moves no job and changes no call keeps the jobs where they are.
LEMMA StillAccounted ==
    ASSUME AInv, UNCHANGED <<asked, unsent, awaited, box, queue, job>>
    PROVE  AInv'
  <1>1. UnderWay' = UnderWay
    BY DEF UnderWay
  <1>2. JobsOnce'
    BY <1>1 DEF AInv, JobsOnce
  <1>3. JobsPlaced'
    BY <1>1 DEF AInv, JobsPlaced, Wanted
  <1> QED
    BY <1>2, <1>3 DEF AInv

\* A call that begins has no jobs.
LEMMA ReadAccounted ==
    ASSUME NEW c \in Calls, IInv, AInv, Read(c)
    PROVE  AInv'
  <1> USE DEF IInv, AInv, caller, pool
  <1> DEFINE todo == {m \in Ids : Uncounted(m)}
  <1>0. /\ \A m \in Ids : asked[c][m] = None
        /\ unsent' = [unsent EXCEPT ![c] = todo]
        /\ awaited' = [awaited EXCEPT ![c] = todo]
        /\ \A d \in Calls : d # c => asked'[d] = asked[d]
        /\ UNCHANGED <<box, queue, job>>
    BY DEF Read, CallsOK, Nothing, TypeOK
  <1> HIDE DEF todo
  <1>1. \A j \in UnderWay : j \in Job /\ j.call # c
    <2>1. \A j \in Job : j.text # None
      BY TokenAssumption DEF Job, Countable
    <2>2. \A j \in UnderWay : j \in Job /\ j.text = asked[j.call][j.id]
      BY JobsAreWanted DEF Wanted
    <2> QED
      BY <1>0, <2>1, <2>2 DEF Job
  <1>2. \A m \in Ids : box[c][m] = None
    BY <1>0 DEF CallsOK
  <1>3. UnderWay' = UnderWay
    BY <1>0 DEF UnderWay
  <1>4. JobsOnce'
    <2>1. \A j \in UnderWay' : j.id \notin unsent'[j.call] /\ box'[j.call][j.id] = None
      BY <1>0, <1>1, <1>3 DEF JobsOnce, TypeOK, Job
    <2>2. \A d \in Calls, m \in Ids : box'[d][m] # None => m \notin unsent'[d]
      BY <1>0, <1>2 DEF JobsOnce, TypeOK
    <2> QED
      BY <1>0, <2>1, <2>2 DEF JobsOnce
  <1>5. JobsPlaced'
    <2> SUFFICES ASSUME NEW d \in Calls, NEW m \in awaited'[d] \ unsent'[d]
                 PROVE  Wanted(d, m)' \in UnderWay' \/ box'[d][m] # None
      BY DEF JobsPlaced
    <2>1. d # c /\ awaited'[d] = awaited[d] /\ unsent'[d] = unsent[d]
      BY <1>0 DEF TypeOK
    <2> QED
      BY <1>0, <1>3, <2>1 DEF JobsPlaced, Wanted
  <1> QED
    BY <1>4, <1>5

\* The new job is like no other: its message was still to be submitted.
LEMMA SubmitAccounted ==
    ASSUME NEW c \in Calls, NEW m \in Ids, IInv, AInv, Submit(c, m)
    PROVE  AInv'
  <1> USE DEF IInv, AInv
  <1> DEFINE new == Wanted(c, m)
  <1>0. /\ m \in unsent[c]
        /\ queue' = Append(queue, new)
        /\ unsent' = [unsent EXCEPT ![c] = unsent[c] \ {m}]
        /\ UNCHANGED <<asked, awaited, box, job>>
    BY DEF Submit, IsFirst, TypeOK, Wanted
  <1>1. /\ new \in Job /\ new # None
        /\ new.call = c /\ new.id = m
    BY <1>0, NoneIsNoJob DEF TypeOK, CallsOK, Job, Wanted
  <1>2. new \notin UnderWay /\ box[c][m] = None
    BY <1>0, <1>1 DEF JobsOnce
  <1> HIDE DEF new
  <1>3. /\ Len(queue) \in Nat
        /\ DOMAIN queue = 1..Len(queue) /\ DOMAIN queue' = 1..(Len(queue) + 1)
        /\ queue'[Len(queue) + 1] = new
        /\ \A i \in 1..Len(queue) : queue'[i] = queue[i]
    <2>1. queue \in Seq(Job)
      BY DEF TypeOK
    <2> QED
      BY <1>0, <1>1, <2>1
  <1>4. UnderWay' = UnderWay \cup {new}
    <2>1. {queue'[i] : i \in DOMAIN queue'} = {queue[i] : i \in DOMAIN queue} \cup {new}
      BY <1>3
    <2> QED
      BY <1>0, <2>1 DEF UnderWay
  <1>5. JobsOnce'
    <2>q. \A i \in DOMAIN queue : queue[i] # new
      BY <1>2 DEF UnderWay
    <2>w. \A w \in Workers : job[w] # new
      BY <1>1, <1>2 DEF UnderWay
    <2>1. \A i, k \in DOMAIN queue' : queue'[i] = queue'[k] => i = k
      BY <1>3, <2>q DEF JobsOnce
    <2>2. \A i \in DOMAIN queue', w \in Workers : queue'[i] # job'[w]
      BY <1>0, <1>3, <2>w DEF JobsOnce
    <2>3. \A j \in UnderWay' : j.id \notin unsent'[j.call] /\ box'[j.call][j.id] = None
      <3>1. \A j \in UnderWay : j \in Job
        BY JobsAreWanted
      <3> QED
        BY <1>0, <1>1, <1>2, <1>4, <3>1 DEF JobsOnce, TypeOK, Job
    <2>4. \A d \in Calls, k \in Ids : box'[d][k] # None => k \notin unsent'[d]
      BY <1>0 DEF JobsOnce, TypeOK
    <2> QED
      BY <1>0, <2>1, <2>2, <2>3, <2>4 DEF JobsOnce
  <1>6. JobsPlaced'
    <2> SUFFICES ASSUME NEW d \in Calls, NEW k \in awaited'[d] \ unsent'[d]
                 PROVE  Wanted(d, k)' \in UnderWay' \/ box'[d][k] # None
      BY DEF JobsPlaced
    <2>1. CASE d = c /\ k = m
      BY <1>0, <1>4, <2>1 DEF new, Wanted
    <2>2. CASE ~(d = c /\ k = m)
      BY <1>0, <1>4, <2>2 DEF JobsPlaced, TypeOK, Wanted
    <2> QED
      BY <2>1, <2>2
  <1> QED
    BY <1>5, <1>6

\* The result that is received was awaited, and is no more.
LEMMA ReceiveAccounted ==
    ASSUME NEW c \in Calls, NEW m \in Ids, IInv, AInv, Receive(c, m)
    PROVE  AInv'
  <1> USE DEF IInv, AInv, pool
  <1>0. /\ box' = [box EXCEPT ![c][m] = None]
        /\ awaited' = [awaited EXCEPT ![c] = awaited[c] \ {m}]
        /\ UNCHANGED <<asked, unsent, queue, job>>
    BY DEF Receive, TypeOK
  <1>1. /\ box'[c][m] = None
        /\ \A d \in Calls, k \in Ids : ~(d = c /\ k = m) => box'[d][k] = box[d][k]
    BY <1>0 DEF TypeOK
  <1>2. UnderWay' = UnderWay
    BY <1>0 DEF UnderWay
  <1>3. JobsOnce'
    <2>1. \A j \in UnderWay : j \in Job
      BY JobsAreWanted
    <2>2. \A j \in UnderWay' : j.id \notin unsent'[j.call] /\ box'[j.call][j.id] = None
      BY <1>0, <1>1, <1>2, <2>1 DEF JobsOnce, Job
    <2> QED
      BY <1>0, <1>1, <2>2 DEF JobsOnce
  <1>4. JobsPlaced'
    BY <1>0, <1>1, <1>2 DEF JobsPlaced, TypeOK, Wanted
  <1> QED
    BY <1>3, <1>4

\* Nothing is awaited any more.
LEMMA CancelAccounted ==
    ASSUME NEW c \in Calls, IInv, AInv, Cancel(c)
    PROVE  AInv'
  <1> USE DEF IInv, AInv, pool
  <1>0. /\ awaited' = [awaited EXCEPT ![c] = {}]
        /\ UNCHANGED <<asked, unsent, box, queue, job>>
    BY DEF Cancel
  <1>1. UnderWay' = UnderWay
    BY <1>0 DEF UnderWay
  <1>2. JobsOnce'
    BY <1>0, <1>1 DEF JobsOnce
  <1>3. JobsPlaced'
    BY <1>0, <1>1 DEF JobsPlaced, TypeOK, Wanted
  <1> QED
    BY <1>2, <1>3

\* The first job of the queue goes to a worker that had none.
LEMMA TakeAccounted ==
    ASSUME NEW w \in Workers, IInv, AInv, Take(w)
    PROVE  AInv'
  <1> USE DEF IInv, AInv, caller
  <1>0. /\ job[w] = None /\ queue # <<>>
        /\ job' = [job EXCEPT ![w] = Head(queue)]
        /\ queue' = Tail(queue)
        /\ UNCHANGED <<asked, unsent, awaited, box>>
    BY DEF Take, Idle
  <1>1. queue \in Seq(Job) /\ job \in [Workers -> Job \cup {None}]
    BY DEF TypeOK
  <1>2. /\ Len(queue) \in Nat /\ Len(queue) > 0
        /\ DOMAIN queue = 1..Len(queue) /\ DOMAIN queue' = 1..(Len(queue) - 1)
        /\ \A i \in 1..(Len(queue) - 1) : queue'[i] = queue[i + 1]
        /\ Head(queue) = queue[1] /\ queue[1] \in Job
    BY <1>0, <1>1
  <1>3. /\ job'[w] = queue[1]
        /\ \A v \in Workers : v # w => job'[v] = job[v]
        /\ queue[1] # None
    BY <1>0, <1>1, <1>2, NoneIsNoJob
  <1>4. \A j : j \in UnderWay' <=> j \in UnderWay
    <2>1. ASSUME NEW i \in DOMAIN queue PROVE queue[i] \in UnderWay'
      <3>1. CASE i = 1
        BY <1>3, <3>1 DEF UnderWay
      <3>2. CASE i # 1
        <4>1. i - 1 \in DOMAIN queue' /\ queue'[i - 1] = queue[i]
          BY <1>2, <3>2
        <4> QED
          BY <4>1 DEF UnderWay
      <3> QED
        BY <3>1, <3>2
    <2>2. ASSUME NEW v \in Workers, job[v] # None PROVE job[v] \in UnderWay'
      BY <1>0, <1>3, <2>2 DEF UnderWay
    <2>3. ASSUME NEW i \in DOMAIN queue' PROVE queue'[i] \in UnderWay
      <3>1. i + 1 \in DOMAIN queue /\ queue'[i] = queue[i + 1]
        BY <1>2
      <3> QED
        BY <3>1 DEF UnderWay
    <2>4. ASSUME NEW v \in Workers, job'[v] # None PROVE job'[v] \in UnderWay
      <3>1. queue[1] \in UnderWay
        BY <1>2 DEF UnderWay
      <3> QED
        BY <1>3, <2>4, <3>1 DEF UnderWay
    <2> QED
      BY <2>1, <2>2, <2>3, <2>4 DEF UnderWay
  <1>5. JobsOnce'
    <2>1. \A i, k \in DOMAIN queue' : queue'[i] = queue'[k] => i = k
      BY <1>2 DEF JobsOnce
    <2>2. \A u, v \in Workers : job'[u] = job'[v] /\ job'[u] # None => u = v
      BY <1>2, <1>3 DEF JobsOnce
    <2>3. \A i \in DOMAIN queue', v \in Workers : queue'[i] # job'[v]
      BY <1>2, <1>3 DEF JobsOnce
    <2>4. \A j \in UnderWay' : j.id \notin unsent'[j.call] /\ box'[j.call][j.id] = None
      BY <1>0, <1>4 DEF JobsOnce
    <2> QED
      BY <1>0, <2>1, <2>2, <2>3, <2>4 DEF JobsOnce
  <1>6. JobsPlaced'
    BY <1>0, <1>4 DEF JobsPlaced, Wanted
  <1> QED
    BY <1>5, <1>6

\* The answer finds its channel empty, and no other job is for that channel.
LEMMA CountAccounted ==
    ASSUME NEW w \in Workers, IInv, AInv, Count(w)
    PROVE  AInv'
  <1> USE DEF IInv, AInv, caller
  <1> DEFINE j == job[w]
  <1>0. /\ j # None
        /\ job' = [job EXCEPT ![w] = None]
        /\ UNCHANGED <<asked, unsent, awaited, queue>>
    BY DEF Count
  <1>1. /\ j \in UnderWay /\ j \in Job /\ j = Wanted(j.call, j.id)
        /\ j.call \in Calls /\ j.id \in Ids /\ j.text \in Countable /\ j.text # None
    BY <1>0, JobsAreWanted, TokenAssumption DEF UnderWay, Job, Countable
  <1>2. box' = [box EXCEPT ![j.call][j.id] = j.text]
    <2>1. box[j.call][j.id] = None
      BY <1>1 DEF JobsOnce
    <2> QED
      BY <2>1 DEF Count
  <1>3. j.id \notin unsent[j.call]
    BY <1>1 DEF JobsOnce
  <1>4. /\ \A v \in Workers : job'[v] = IF v = w THEN None ELSE job[v]
        /\ \A v \in Workers : v # w => job[v] # j
        /\ \A i \in DOMAIN queue : queue[i] # j
    BY <1>0 DEF TypeOK, JobsOnce
  <1> HIDE DEF j
  <1>5. \A c \in Calls, m \in Ids :
           box'[c][m] = IF c = j.call /\ m = j.id THEN j.text ELSE box[c][m]
    BY <1>1, <1>2 DEF TypeOK
  <1>6. UnderWay' = UnderWay \ {j}
    <2>1. \A k \in UnderWay' : k \in UnderWay /\ k # j
      BY <1>0, <1>4 DEF UnderWay
    <2>2. \A k \in UnderWay : k # j => k \in UnderWay'
      BY <1>0, <1>4 DEF UnderWay, j
    <2> QED
      BY <2>1, <2>2
  <1>7. JobsOnce'
    <2>1. \A k \in UnderWay' : k.id \notin unsent'[k.call] /\ box'[k.call][k.id] = None
      <3> SUFFICES ASSUME NEW k \in UnderWay, k # j
                   PROVE  k.id \notin unsent[k.call] /\ box'[k.call][k.id] = None
        BY <1>0, <1>6
      <3>1. k \in Job /\ k = Wanted(k.call, k.id)
        BY JobsAreWanted
      <3>2. ~(k.call = j.call /\ k.id = j.id)
        BY <1>1, <3>1
      <3>3. k.id \notin unsent[k.call] /\ box[k.call][k.id] = None
        BY DEF JobsOnce
      <3> QED
        BY <1>5, <3>1, <3>2, <3>3 DEF Job
    <2>2. \A c \in Calls, m \in Ids : box'[c][m] # None => m \notin unsent'[c]
      BY <1>0, <1>3, <1>5 DEF JobsOnce
    <2>3. \A u, v \in Workers : job'[u] = job'[v] /\ job'[u] # None => u = v
      BY <1>4 DEF JobsOnce
    <2>4. \A i \in DOMAIN queue', v \in Workers : queue'[i] # job'[v]
      <3>1. \A i \in DOMAIN queue : queue[i] # None
        BY JobsAreWanted DEF UnderWay
      <3> QED
        BY <1>0, <1>4, <3>1 DEF JobsOnce
    <2> QED
      BY <1>0, <2>1, <2>2, <2>3, <2>4 DEF JobsOnce
  <1>8. JobsPlaced'
    <2> SUFFICES ASSUME NEW c \in Calls, NEW m \in awaited[c] \ unsent[c]
                 PROVE  Wanted(c, m) \in UnderWay \ {j} \/ box'[c][m] # None
      BY <1>0, <1>6 DEF JobsPlaced, Wanted
    <2>0. m \in Ids
      BY DEF TypeOK
    <2>1. CASE Wanted(c, m) = j
      <3>1. c = j.call /\ m = j.id
        BY <2>1 DEF Wanted
      <3> QED
        BY <1>1, <1>5, <3>1
    <2>2. CASE Wanted(c, m) # j
      BY <1>1, <1>5, <2>0, <2>2 DEF JobsPlaced
    <2> QED
      BY <2>1, <2>2
  <1> QED
    BY <1>7, <1>8

\* Every step keeps the jobs accounted for.
LEMMA NextAccounted == IInv /\ AInv /\ [Next]_vars => AInv'
  <1> USE DEF messages, caller, pool, history, vars
  <1> SUFFICES ASSUME IInv, AInv, [Next]_vars PROVE AInv'
    OBVIOUS
  <1>1. CASE Client
    BY <1>1, StillAccounted DEF Client, AddMessage, UpdateMessage, DeleteSession
  <1>2. CASE Close \/ CloseReturns \/ UNCHANGED vars
    BY <1>2, StillAccounted DEF Close, CloseReturns
  <1>3. ASSUME NEW c \in Calls, Read(c) \/ Proceed(c) \/ Cancel(c) PROVE AInv'
    <2>1. CASE Read(c)
      BY <2>1, ReadAccounted
    <2>2. ASSUME NEW m \in Ids, Submit(c, m) \/ Persist(c, m) \/ PersistFails(c, m)
          PROVE  AInv'
      BY <2>2, SubmitAccounted, ReceiveAccounted DEF Persist, PersistFails
    <2>3. CASE Report(c)
      BY <2>3, StillAccounted DEF Report
    <2>4. CASE Cancel(c)
      BY <2>4, CancelAccounted
    <2> QED
      BY <1>3, <2>1, <2>2, <2>3, <2>4 DEF Proceed
  <1>4. ASSUME NEW w \in Workers, Work(w) PROVE AInv'
    <2>1. CASE Take(w)
      BY <2>1, TakeAccounted
    <2>2. CASE Count(w)
      BY <2>2, CountAccounted
    <2>3. CASE Exit(w)
      BY <2>3, StillAccounted DEF Exit
    <2> QED
      BY <1>4, <2>1, <2>2, <2>3 DEF Work
  <1> QED
    BY <1>1, <1>2, <1>3, <1>4 DEF Next

\* Of an awaited job there is one place: it is somewhere, and it is under way
\* once or answered.
LEMMA OnePlace == IInv /\ AInv => JobsAccounted
  <1> USE DEF IInv, AInv
  <1> SUFFICES ASSUME IInv, AInv, NEW c \in Calls, NEW m \in awaited[c] \ unsent[c]
               PROVE  Cardinality(Places(c, m)) = 1
    BY DEF JobsAccounted
  <1> DEFINE mine == Wanted(c, m)
             P == Places(c, m)
  <1>0. /\ m \in Ids /\ asked[c][m] # None /\ mine # None
        /\ mine.call = c /\ mine.id = m
        /\ box[c][m] \in {None, asked[c][m]}
    BY NoneIsNoJob DEF TypeOK, CallsOK, Wanted, Job
  <1>p. \A x : x \in P <=> \/ \E i \in DOMAIN queue : queue[i] = mine /\ x = <<"queue", i>>
                           \/ \E w \in Workers : job[w] = mine /\ x = <<"worker", w>>
                           \/ box[c][m] = asked[c][m] /\ x = <<"box", box[c][m]>>
    BY DEF Places
  <1>1. \E x : P = {x}
    <2> HIDE DEF P, mine
    <2>1. mine \in UnderWay => box[c][m] # asked[c][m]
      BY <1>0 DEF JobsOnce
    <2>2. CASE box[c][m] # None
      <3>1. mine \notin UnderWay /\ box[c][m] = asked[c][m]
        BY <1>0, <2>1, <2>2
      <3>2. \A x : x \in P <=> x = <<"box", box[c][m]>>
        BY <1>0, <1>p, <3>1 DEF UnderWay
      <3>3. P = {<<"box", box[c][m]>>}
        BY <3>2
      <3> QED
        BY <3>3
    <2>3. CASE box[c][m] = None
      <3>1. mine \in UnderWay /\ box[c][m] # asked[c][m]
        BY <1>0, <2>3 DEF JobsPlaced, mine
      <3>2. ASSUME NEW i \in DOMAIN queue, queue[i] = mine PROVE \E x : P = {x}
        <4>1. \A x : x \in P <=> x = <<"queue", i>>
          BY <1>p, <3>1, <3>2 DEF JobsOnce
        <4>2. P = {<<"queue", i>>}
          BY <4>1
        <4> QED
          BY <4>2
      <3>3. ASSUME NEW w \in Workers, job[w] = mine PROVE \E x : P = {x}
        <4>1. \A x : x \in P <=> x = <<"worker", w>>
          BY <1>0, <1>p, <3>1, <3>3 DEF JobsOnce
        <4>2. P = {<<"worker", w>>}
          BY <4>1
        <4> QED
          BY <4>2
      <3> QED
        BY <3>1, <3>2, <3>3 DEF UnderWay
    <2> QED
      BY <2>2, <2>3
  <1> QED
    BY <1>1, FS_Singleton

-----------------------------------------------------------------------------
\* Types: no blank or missing message is ever counted, and no worker returns
\* with a job in hand.
THEOREM TypeCorrect == Spec => []TypeOK
  <1>1. IInv => TypeOK
    BY DEF IInv
  <1> QED
    BY <1>1, SpecInv, PTL

\* A stored count that is not the count of the message's text comes from a call
\* that overlapped an edit or a deletion of the message.
THEOREM StaleCountsComeFromOverlap == Spec => []StaleOnlyIfChanged
  <1>1. IInv => StaleOnlyIfChanged
    BY DEF IInv
  <1> QED
    BY <1>1, SpecInv, PTL

\* EnsureTokenCounts keeps its promise to every call that is neither cancelled
\* nor unable to store a count, whatever other calls and clients do.
THEOREM CallsEnsureCounts == Spec => []EnsuresCounts
  <1>1. IInv => EnsuresCounts
    BY DEF IInv, EnsuresCounts, CallsOK, PickedOK, Running
  <1> QED
    BY <1>1, SpecInv, PTL

\* Every job that a call submitted and still awaits is in one place: none is
\* lost between queue, worker and result channel, none is made twice, and no
\* answer finds its channel full.
THEOREM NoJobIsLost == Spec => []JobsAccounted
  <1>1. Init => AInv
    <2> SUFFICES ASSUME Init PROVE AInv
      OBVIOUS
    <2>1. UnderWay = {}
      BY DEF Init, UnderWay
    <2> QED
      BY <2>1 DEF Init, AInv, JobsOnce, JobsPlaced, Nothing
  <1> QED
    BY <1>1, SpecInv, NextAccounted, OnePlace, PTL DEF Spec
=============================================================================
