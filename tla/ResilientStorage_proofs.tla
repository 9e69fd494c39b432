----------------------- MODULE ResilientStorage_proofs -----------------------
(***************************************************************************)
(* Theorems about ResilientStorage, for every value of its constants.      *)
(***************************************************************************)
EXTENDS ResilientStorage, TLAPS

\* The breaker is invisible until it counts an error.
UncountedIsTransparent ==
    errors = 0 => /\ ~ degraded
                  /\ fallback = EmptyStore
                  /\ acked \subseteq erased \cup primary.messages

\* The inductive invariant: the properties and what each goroutine knows, which is
\* that an error is only counted once the database has failed.
Inv ==
    TypeOK /\ StepsOK /\ OpensAfterThreshold /\ UncountedIsTransparent
      /\ AcknowledgedIsHeld

\* What the requests carry.
LEMMA RequestFields ==
    ASSUME NEW r \in Requests
    PROVE  /\ r.kind \in {"create", "get", "update", "delete", "add", "expire",
                          "list", "clear", "ping"}
           /\ r.kind \in {"create", "get", "update", "delete"} => r.session \in Sessions
           /\ r.kind \in {"create", "update"} => r.data \subseteq MessagesOf({r.session})
           /\ r.kind = "add" => r.message \in Messages
           /\ TakenBy(r) \subseteq Messages
<1>1. MessagesOf({}) \subseteq Messages /\ \A S : MessagesOf(S) \subseteq Messages
  BY DEF MessagesOf
<1>2. TakenBy(r) \subseteq Messages
  BY <1>1 DEF TakenBy
<1> HIDE DEF MessagesOf
<1> QED BY <1>2 DEF Requests, SessionWrites

\* What a storage holds after request r.
After(db, r) == PrimaryEffects(db, r) \cup FallbackEffects(db, r)

\* A storage that carries out a request keeps every message but those the
\* request takes away, and holds the message it was sent.
LEMMA EffectOK ==
    ASSUME NEW db \in Store, NEW r \in Requests, Serves(db, r), NEW new \in After(db, r)
    PROVE  /\ new \in Store
           /\ r.kind = "add" => r.message \in new.messages
           /\ db.messages \subseteq new.messages \cup TakenBy(r)
<1> USE RequestFields DEF Store, EmptyStore, Without, Effects, TakenBy
<1>1. CASE new \in Effects(db, r)
  <2>1. CASE r.kind = "add"
    <3>1. new = [db EXCEPT !.messages = @ \cup {r.message}] /\ r.message \in Messages
      BY <1>1, <2>1
    <3> QED BY <2>1, <3>1
  <2>2. CASE r.kind = "delete"
    BY <1>1, <2>2 DEF MessagesOf
  <2>3. CASE r.kind = "expire"
    <3>1. PICK S \in SUBSET r.old : new = Without(db, S)
      BY <1>1, <2>3
    <3> QED BY <2>3, <3>1 DEF MessagesOf
  <2>4. CASE r.kind = "clear"
    BY <1>1, <2>4
  <2>5. CASE r.kind \notin {"add", "delete", "expire", "clear"}
    BY <1>1, <2>5
  <2> QED BY <2>1, <2>2, <2>3, <2>4, <2>5
<1>2. CASE r.kind = "create"
  BY <1>1, <1>2 DEF After, PrimaryEffects, FallbackEffects, MessagesOf
<1>3. CASE r.kind = "update"
  BY <1>1, <1>3 DEF After, PrimaryEffects, FallbackEffects, MessagesOf
<1>4. CASE r.kind \notin {"create", "update"}
  BY <1>1, <1>4 DEF After, PrimaryEffects, FallbackEffects
<1> QED BY <1>2, <1>3, <1>4

\* Hence what a storage held it still holds, or a request takes it away.
LEMMA EffectKeepsMessages ==
    ASSUME Inv, NEW p \in Procs, pc[p] # "idle", NEW db \in Store,
           Serves(db, req[p]), NEW new \in After(db, req[p])
    PROVE  /\ new \in Store
           /\ req[p].kind = "add" => req[p].message \in new.messages
           /\ db.messages \subseteq new.messages \cup erased
<1>1. req[p] \in Requests /\ TakenBy(req[p]) \subseteq erased
  BY DEF Inv, TypeOK, StepsOK
<1> QED
  BY <1>1, EffectOK

\* Answering a request acknowledges at most the message it carries.
LEMMA AnswerOK ==
    ASSUME Inv, NEW p \in Procs, pc[p] # "idle", NEW ok, Answer(p, ok)
    PROVE  /\ acked' \subseteq Messages
           /\ pc' \in [Procs -> Labels]
           /\ req' \in [Procs -> Requests \cup {None}]
           /\ \A q \in Procs : pc'[q] # "idle" => req'[q] \in Requests
           /\ seen' \in [Procs -> 0..Elapsed]
           /\ count' \in [Procs -> 0..Threshold]
<1>1. req[p] \in Requests
  BY DEF Inv, TypeOK
<1>2. acked' \subseteq Messages
  BY <1>1, RequestFields DEF Inv, TypeOK, Answer
<1>3. Elapsed \in 0..Elapsed /\ 0 \in 0..Threshold
  BY ResilientAssumption DEF Elapsed
<1> QED
  BY <1>2, <1>3 DEF Inv, TypeOK, Answer, Goto, Labels

\* The initial states satisfy the invariant.
LEMMA InitInv == Init => Inv
<1> SUFFICES ASSUME Init PROVE Inv
  OBVIOUS
<1> USE ResilientAssumption DEF Init, Elapsed, EmptyStore
<1>1. TypeOK
  <2>1. ResetTimeout + 1 \in 0..(ResetTimeout + 1) /\ 0 \in 0..Threshold
    OBVIOUS
  <2>2. primary \in Store /\ fallback \in Store
    BY DEF Store
  <2>3. /\ pc \in [Procs -> Labels]
        /\ req \in [Procs -> Requests \cup {None}]
        /\ \A p \in Procs : pc[p] # "idle" => req[p] \in Requests
    BY DEF Labels
  <2>4. seen \in [Procs -> 0..Elapsed] /\ count \in [Procs -> 0..Threshold]
    BY <2>1, Zenon
  <2>5. /\ failures \in 0..Threshold /\ errors \in 0..Threshold
        /\ faults \in 0..MaxFaults /\ age \in 0..Elapsed
    BY <2>1
  <2>6. /\ degraded \in BOOLEAN /\ gauge \in {0, 1} /\ faulted \in BOOLEAN
        /\ acked \subseteq Messages /\ erased \subseteq Messages
    BY Zenon
  <2> HIDE DEF Init, Elapsed
  <2> QED BY <2>2, <2>3, <2>4, <2>5, <2>6 DEF TypeOK
<1>2. StepsOK /\ OpensAfterThreshold /\ UncountedIsTransparent /\ AcknowledgedIsHeld
  BY DEF StepsOK, OpensAfterThreshold, UncountedIsTransparent, AcknowledgedIsHeld
<1> QED BY <1>1, <1>2 DEF Inv

\* Every step keeps the invariant.
LEMMA NextInv == Inv /\ [Next]_vars => Inv'
<1> SUFFICES ASSUME Inv, [Next]_vars PROVE Inv'
  OBVIOUS
<1> USE ResilientAssumption DEF Inv, Goto, breaker, local, history
<1>1. ASSUME NEW p \in Procs, NEW r \in Requests, Begin(p, r)
      PROVE  Inv'
  <2> USE <1>1 DEF Begin
  <2>0. /\ erased \subseteq erased' /\ erased' \subseteq Messages
        /\ TakenBy(r) \subseteq erased'
    BY RequestFields DEF TypeOK
  <2>1. TypeOK'
    <3>1. pc' \in [Procs -> Labels] /\ req' \in [Procs -> Requests \cup {None}]
      BY DEF TypeOK, Labels
    <3>2. \A q \in Procs : pc'[q] # "idle" => req'[q] \in Requests
      BY DEF TypeOK
    <3> QED BY <2>0, <3>1, <3>2 DEF TypeOK, Elapsed
  <2>2. StepsOK'
    <3>1. \A q \in Procs \ {p} : pc'[q] = pc[q] /\ req'[q] = req[q]
      BY DEF TypeOK
    <3>2. req'[p] = r /\ pc'[p] \in {"primary", "check"}
      BY DEF TypeOK
    <3>3. UNCHANGED <<failures, errors, faulted, count, primary>>
      OBVIOUS
    <3> HIDE <1>1 DEF Begin
    <3> QED BY <2>0, <3>1, <3>2, <3>3 DEF StepsOK
  <2>3. OpensAfterThreshold'
    BY DEF TypeOK, StepsOK, OpensAfterThreshold
  <2>4. AcknowledgedIsHeld'
    BY DEF TypeOK, StepsOK, AcknowledgedIsHeld
  <2>5. UncountedIsTransparent'
    BY <2>3, <2>4 DEF TypeOK, StepsOK, UncountedIsTransparent, AcknowledgedIsHeld,
                      OpensAfterThreshold, EmptyStore
  <2> QED BY <2>1, <2>2, <2>3, <2>4, <2>5
<1>2. ASSUME NEW p \in Procs, CheckDegraded(p)
      PROVE  Inv'
  <2> USE <1>2 DEF CheckDegraded
  <2>1. TypeOK'
    BY DEF TypeOK, Labels, Elapsed
  <2>2. StepsOK'
    BY DEF TypeOK, StepsOK, OpensAfterThreshold
  <2>3. OpensAfterThreshold'
    BY DEF TypeOK, StepsOK, OpensAfterThreshold
  <2>4. AcknowledgedIsHeld'
    BY DEF TypeOK, StepsOK, AcknowledgedIsHeld
  <2>5. UncountedIsTransparent'
    BY <2>3, <2>4 DEF TypeOK, StepsOK, UncountedIsTransparent, AcknowledgedIsHeld,
                      OpensAfterThreshold, EmptyStore
  <2> QED BY <2>1, <2>2, <2>3, <2>4, <2>5
<1>3. ASSUME NEW p \in Procs, ReadLastFailure(p)
      PROVE  Inv'
  <2> USE <1>3 DEF ReadLastFailure
  <2>1. TypeOK'
    BY DEF TypeOK, Labels, Elapsed
  <2>2. StepsOK'
    BY DEF TypeOK, StepsOK, OpensAfterThreshold
  <2>3. OpensAfterThreshold'
    BY DEF TypeOK, StepsOK, OpensAfterThreshold
  <2>4. AcknowledgedIsHeld'
    BY DEF TypeOK, StepsOK, AcknowledgedIsHeld
  <2>5. UncountedIsTransparent'
    BY <2>3, <2>4 DEF TypeOK, StepsOK, UncountedIsTransparent, AcknowledgedIsHeld,
                      OpensAfterThreshold, EmptyStore
  <2> QED BY <2>1, <2>2, <2>3, <2>4, <2>5
<1>4. ASSUME NEW p \in Procs, CompareTimeout(p)
      PROVE  Inv'
  <2> USE <1>4 DEF CompareTimeout
  <2>1. TypeOK'
    BY DEF TypeOK, Labels, Elapsed
  <2>2. StepsOK'
    BY DEF TypeOK, StepsOK, OpensAfterThreshold
  <2>3. OpensAfterThreshold'
    BY DEF TypeOK, StepsOK, OpensAfterThreshold
  <2>4. AcknowledgedIsHeld'
    BY DEF TypeOK, StepsOK, AcknowledgedIsHeld
  <2>5. UncountedIsTransparent'
    BY <2>3, <2>4 DEF TypeOK, StepsOK, UncountedIsTransparent, AcknowledgedIsHeld,
                      OpensAfterThreshold, EmptyStore
  <2> QED BY <2>1, <2>2, <2>3, <2>4, <2>5
<1>5. ASSUME NEW p \in Procs, PrimarySucceeds(p)
      PROVE  Inv'
  <2> USE <1>5 DEF PrimarySucceeds
  <2>0. /\ primary' \in Store /\ primary.messages \subseteq primary'.messages \cup erased
        /\ req[p].kind = "add" => req[p].message \in primary'.messages
    BY EffectKeepsMessages DEF TypeOK, After
  <2>1. TypeOK'
    BY <2>0 DEF TypeOK, Labels, Elapsed
  <2>2. StepsOK'
    <3>1. pc'[p] = "reset"
      BY DEF TypeOK
    <3>2. \A q \in Procs \ {p} : pc'[q] = pc[q]
      BY DEF TypeOK
    <3>3. UNCHANGED <<failures, errors, faulted, count, req, erased>> /\ pc[p] = "primary"
      OBVIOUS
    <3> HIDE <1>5 DEF PrimarySucceeds
    <3> QED BY <2>0, <3>1, <3>2, <3>3 DEF StepsOK
  <2>3. OpensAfterThreshold'
    BY DEF TypeOK, StepsOK, OpensAfterThreshold
  <2>4. AcknowledgedIsHeld'
    BY <2>0 DEF TypeOK, StepsOK, AcknowledgedIsHeld
  <2>5. UncountedIsTransparent'
    BY <2>0, <2>3, <2>4 DEF TypeOK, StepsOK, UncountedIsTransparent, AcknowledgedIsHeld,
                      OpensAfterThreshold, EmptyStore
  <2> QED BY <2>1, <2>2, <2>3, <2>4, <2>5
<1>6. ASSUME NEW p \in Procs, PrimaryRefuses(p)
      PROVE  Inv'
  <2> USE <1>6 DEF PrimaryRefuses, Answer
  <2>1. TypeOK'
    BY DEF TypeOK, Labels, Elapsed
  <2>2. StepsOK'
    BY DEF TypeOK, StepsOK, OpensAfterThreshold
  <2>3. OpensAfterThreshold'
    BY DEF TypeOK, StepsOK, OpensAfterThreshold
  <2>4. AcknowledgedIsHeld'
    BY DEF TypeOK, StepsOK, AcknowledgedIsHeld
  <2>5. UncountedIsTransparent'
    BY <2>3, <2>4 DEF TypeOK, StepsOK, UncountedIsTransparent, AcknowledgedIsHeld,
                      OpensAfterThreshold, EmptyStore
  <2> QED BY <2>1, <2>2, <2>3, <2>4, <2>5
<1>7. ASSUME NEW p \in Procs, PrimaryRejectsDuplicate(p)
      PROVE  Inv'
  <2> USE <1>7 DEF PrimaryRejectsDuplicate
  <2>1. TypeOK'
    BY DEF TypeOK, Labels, Elapsed
  <2>2. StepsOK'
    BY DEF TypeOK, StepsOK, OpensAfterThreshold
  <2>3. OpensAfterThreshold'
    BY DEF TypeOK, StepsOK, OpensAfterThreshold
  <2>4. AcknowledgedIsHeld'
    BY DEF TypeOK, StepsOK, AcknowledgedIsHeld
  <2>5. UncountedIsTransparent'
    BY <2>3, <2>4 DEF TypeOK, StepsOK, UncountedIsTransparent, AcknowledgedIsHeld,
                      OpensAfterThreshold, EmptyStore
  <2> QED BY <2>1, <2>2, <2>3, <2>4, <2>5
<1>8. ASSUME NEW p \in Procs, PrimaryFails(p)
      PROVE  Inv'
  <2> USE <1>8 DEF PrimaryFails
  <2>0. /\ primary' \in Store /\ primary.messages \subseteq primary'.messages \cup erased
    BY EffectKeepsMessages DEF TypeOK, After
  <2>1. TypeOK'
    BY <2>0 DEF TypeOK, Labels, Elapsed
  <2>2. StepsOK'
    <3>1. pc'[p] = "count"
      BY DEF TypeOK
    <3>2. \A q \in Procs \ {p} : pc'[q] = pc[q]
      BY DEF TypeOK
    <3>3. UNCHANGED <<failures, errors, count, req, erased>> /\ faulted' /\ pc[p] = "primary"
      OBVIOUS
    <3> HIDE <1>8 DEF PrimaryFails
    <3> QED BY <2>0, <3>1, <3>2, <3>3 DEF StepsOK
  <2>3. OpensAfterThreshold'
    BY DEF TypeOK, StepsOK, OpensAfterThreshold
  <2>4. AcknowledgedIsHeld'
    BY <2>0 DEF TypeOK, StepsOK, AcknowledgedIsHeld
  <2>5. UncountedIsTransparent'
    BY <2>0, <2>3, <2>4 DEF TypeOK, StepsOK, UncountedIsTransparent, AcknowledgedIsHeld,
                      OpensAfterThreshold, EmptyStore
  <2> QED BY <2>1, <2>2, <2>3, <2>4, <2>5
<1>9. ASSUME NEW p \in Procs, CountFailure(p)
      PROVE  Inv'
  <2> USE <1>9 DEF CountFailure, OneMore
  <2>1. TypeOK'
    BY DEF TypeOK, Labels, Elapsed
  <2>2. StepsOK'
    BY DEF TypeOK, StepsOK, OpensAfterThreshold
  <2>3. OpensAfterThreshold'
    BY DEF TypeOK, StepsOK, OpensAfterThreshold
  <2>4. AcknowledgedIsHeld'
    BY DEF TypeOK, StepsOK, AcknowledgedIsHeld
  <2>5. UncountedIsTransparent'
    BY <2>3, <2>4 DEF TypeOK, StepsOK, UncountedIsTransparent, AcknowledgedIsHeld,
                      OpensAfterThreshold, EmptyStore
  <2> QED BY <2>1, <2>2, <2>3, <2>4, <2>5
<1>10. ASSUME NEW p \in Procs, StampFailure(p)
      PROVE  Inv'
  <2> USE <1>10 DEF StampFailure
  <2>1. TypeOK'
    BY DEF TypeOK, Labels, Elapsed
  <2>2. StepsOK'
    BY DEF TypeOK, StepsOK, OpensAfterThreshold
  <2>3. OpensAfterThreshold'
    BY DEF TypeOK, StepsOK, OpensAfterThreshold
  <2>4. AcknowledgedIsHeld'
    BY DEF TypeOK, StepsOK, AcknowledgedIsHeld
  <2>5. UncountedIsTransparent'
    BY <2>3, <2>4 DEF TypeOK, StepsOK, UncountedIsTransparent, AcknowledgedIsHeld,
                      OpensAfterThreshold, EmptyStore
  <2> QED BY <2>1, <2>2, <2>3, <2>4, <2>5
<1>11. ASSUME NEW p \in Procs, TripBreaker(p)
      PROVE  Inv'
  <2> USE <1>11 DEF TripBreaker, AfterFailure, Answer
  <2>1. TypeOK'
    BY DEF TypeOK, Labels, Elapsed
  <2>2. StepsOK'
    BY DEF TypeOK, StepsOK, OpensAfterThreshold
  <2>3. OpensAfterThreshold'
    BY DEF TypeOK, StepsOK, OpensAfterThreshold
  <2>4. AcknowledgedIsHeld'
    BY DEF TypeOK, StepsOK, AcknowledgedIsHeld
  <2>5. UncountedIsTransparent'
    BY <2>3, <2>4 DEF TypeOK, StepsOK, UncountedIsTransparent, AcknowledgedIsHeld,
                      OpensAfterThreshold, EmptyStore
  <2> QED BY <2>1, <2>2, <2>3, <2>4, <2>5
<1>12. ASSUME NEW p \in Procs, RaiseGauge(p)
      PROVE  Inv'
  <2> USE <1>12 DEF RaiseGauge, AfterFailure, Answer
  <2>1. TypeOK'
    BY DEF TypeOK, Labels, Elapsed
  <2>2. StepsOK'
    BY DEF TypeOK, StepsOK, OpensAfterThreshold
  <2>3. OpensAfterThreshold'
    BY DEF TypeOK, StepsOK, OpensAfterThreshold
  <2>4. AcknowledgedIsHeld'
    BY DEF TypeOK, StepsOK, AcknowledgedIsHeld
  <2>5. UncountedIsTransparent'
    BY <2>3, <2>4 DEF TypeOK, StepsOK, UncountedIsTransparent, AcknowledgedIsHeld,
                      OpensAfterThreshold, EmptyStore
  <2> QED BY <2>1, <2>2, <2>3, <2>4, <2>5
<1>13. ASSUME NEW p \in Procs, Fallback(p)
      PROVE  Inv'
  <2> USE <1>13 DEF Fallback, Answer
  <2>0. /\ fallback' \in Store /\ fallback.messages \subseteq fallback'.messages \cup erased
        /\ Serves(fallback, req[p]) /\ req[p].kind = "add" =>
              req[p].message \in fallback'.messages
    <3>1. CASE Serves(fallback, req[p])
      BY <3>1, EffectKeepsMessages DEF TypeOK, After
    <3>2. CASE ~ Serves(fallback, req[p])
      BY <3>2 DEF TypeOK
    <3> QED BY <3>1, <3>2
  <2>1. TypeOK'
    <3> HIDE DEF Answer
    <3> QED BY <2>0, AnswerOK DEF TypeOK
  <2>2. StepsOK'
    BY DEF TypeOK, StepsOK, OpensAfterThreshold
  <2>3. OpensAfterThreshold'
    BY DEF TypeOK, StepsOK, OpensAfterThreshold
  <2>4. AcknowledgedIsHeld'
    BY <2>0 DEF TypeOK, StepsOK, AcknowledgedIsHeld
  <2>5. UncountedIsTransparent'
    BY <2>3, <2>4 DEF TypeOK, StepsOK, UncountedIsTransparent, AcknowledgedIsHeld,
                      OpensAfterThreshold, EmptyStore
  <2> QED BY <2>1, <2>2, <2>3, <2>4, <2>5
<1>14. ASSUME NEW p \in Procs, ResetFailures(p)
      PROVE  Inv'
  <2> USE <1>14 DEF ResetFailures
  <2>1. TypeOK'
    BY DEF TypeOK, Labels, Elapsed
  <2>2. StepsOK'
    BY DEF TypeOK, StepsOK, OpensAfterThreshold
  <2>3. OpensAfterThreshold'
    BY DEF TypeOK, StepsOK, OpensAfterThreshold
  <2>4. AcknowledgedIsHeld'
    BY DEF TypeOK, StepsOK, AcknowledgedIsHeld
  <2>5. UncountedIsTransparent'
    BY <2>3, <2>4 DEF TypeOK, StepsOK, UncountedIsTransparent, AcknowledgedIsHeld,
                      OpensAfterThreshold, EmptyStore
  <2> QED BY <2>1, <2>2, <2>3, <2>4, <2>5
<1>15. ASSUME NEW p \in Procs, CloseBreaker(p)
      PROVE  Inv'
  <2> USE <1>15 DEF CloseBreaker, Answer
  <2>1. TypeOK'
    <3>1. CASE degraded
      BY <3>1 DEF TypeOK, Labels
    <3>2. CASE ~ degraded
      <4> HIDE DEF Answer
      <4> QED BY <3>2, AnswerOK DEF TypeOK
    <3> QED BY <3>1, <3>2
  <2>2. StepsOK'
    BY DEF TypeOK, StepsOK, OpensAfterThreshold
  <2>3. OpensAfterThreshold'
    BY DEF TypeOK, StepsOK, OpensAfterThreshold
  <2>4. AcknowledgedIsHeld'
    BY DEF TypeOK, StepsOK, AcknowledgedIsHeld
  <2>5. UncountedIsTransparent'
    BY <2>3, <2>4 DEF TypeOK, StepsOK, UncountedIsTransparent, AcknowledgedIsHeld,
                      OpensAfterThreshold, EmptyStore
  <2> QED BY <2>1, <2>2, <2>3, <2>4, <2>5
<1>16. ASSUME NEW p \in Procs, LowerGauge(p)
      PROVE  Inv'
  <2> USE <1>16 DEF LowerGauge, Answer
  <2>1. TypeOK'
    <3> HIDE DEF Answer
    <3> QED BY AnswerOK DEF TypeOK
  <2>2. StepsOK'
    BY DEF TypeOK, StepsOK, OpensAfterThreshold
  <2>3. OpensAfterThreshold'
    BY DEF TypeOK, StepsOK, OpensAfterThreshold
  <2>4. AcknowledgedIsHeld'
    BY DEF TypeOK, StepsOK, AcknowledgedIsHeld
  <2>5. UncountedIsTransparent'
    BY <2>3, <2>4 DEF TypeOK, StepsOK, UncountedIsTransparent, AcknowledgedIsHeld,
                      OpensAfterThreshold, EmptyStore
  <2> QED BY <2>1, <2>2, <2>3, <2>4, <2>5
<1>17. ASSUME Tick
      PROVE  Inv'
  <2> USE <1>17 DEF Tick, Older
  <2>1. TypeOK'
    BY DEF TypeOK, Labels, Elapsed
  <2>2. StepsOK'
    BY DEF TypeOK, StepsOK, OpensAfterThreshold
  <2>3. OpensAfterThreshold'
    BY DEF TypeOK, StepsOK, OpensAfterThreshold
  <2>4. AcknowledgedIsHeld'
    BY DEF TypeOK, StepsOK, AcknowledgedIsHeld
  <2>5. UncountedIsTransparent'
    BY <2>3, <2>4 DEF TypeOK, StepsOK, UncountedIsTransparent, AcknowledgedIsHeld,
                      OpensAfterThreshold, EmptyStore
  <2> QED BY <2>1, <2>2, <2>3, <2>4, <2>5
<1>18. CASE UNCHANGED vars
  BY <1>18 DEF vars, TypeOK, StepsOK, OpensAfterThreshold, UncountedIsTransparent,
               AcknowledgedIsHeld
<1> QED
  BY <1>1, <1>2, <1>3, <1>4, <1>5, <1>6, <1>7, <1>8, <1>9, <1>10, <1>11, <1>12, <1>13, <1>14, <1>15, <1>16, <1>17, <1>18
     DEF Next, Step

\* Every variable has its type in every reachable state.
THEOREM TypeCorrect == Spec => []TypeOK
<1>1. Inv => TypeOK
  BY DEF Inv
<1> QED BY <1>1, InitInv, NextInv, PTL DEF Spec

\* The circuit never opens before Threshold errors were counted, whatever the
\* number of goroutines and the order in which they count, reset and trip.
THEOREM CircuitOpensAfterThreshold == Spec => []OpensAfterThreshold
<1>1. Inv => OpensAfterThreshold
  BY DEF Inv
<1> QED BY <1>1, InitInv, NextInv, PTL DEF Spec

\* While the database answers, the breaker and the memory storage play no part.
THEOREM BreakerIsTransparent == Spec => []HealthyIsTransparent
<1>1. Inv => HealthyIsTransparent
  BY DEF Inv, StepsOK, UncountedIsTransparent, HealthyIsTransparent
<1> QED BY <1>1, InitInv, NextInv, PTL DEF Spec

\* No acknowledged message is dropped between the two storages.
THEOREM NoAcknowledgedMessageIsDropped == Spec => []AcknowledgedIsHeld
<1>1. Inv => AcknowledgedIsHeld
  BY DEF Inv
<1> QED BY <1>1, InitInv, NextInv, PTL DEF Spec
=============================================================================
