------------------------- MODULE FileStorage_proofs -------------------------
(***************************************************************************)
(* Theorems about FileStorage, for every value of its constants.           *)
(***************************************************************************)
EXTENDS FileStorage, FiniteSetTheorems, TLAPS

-----------------------------------------------------------------------------
(***************************************************************************)
(* What the operations return                                              *)
(***************************************************************************)

\* Every operation turns a history into histories.
LEMMA OutcomesAreHistories ==
    ASSUME NEW r \in Requests, NEW h \in Histories
    PROVE  Outcomes(r, h) \subseteq Histories
<1> USE HistoryAssumption, PayloadAssumption
<1>1. CASE r.kind = "get"
  BY <1>1 DEF Outcomes
<1>2. CASE r.kind = "create"
  <2>1. r.sess \in SessionIds /\ r.data \in Session
    BY <1>2 DEF Requests, UserRequests, ReadRequests, SessionRequests,
                MessageRequests, SweepRequests
  <2> QED BY <1>2, <2>1 DEF Outcomes, CreateSession, Histories
<1>3. CASE r.kind = "update"
  <2>1. r.sess \in SessionIds /\ r.data \in Session
    BY <1>3 DEF Requests, UserRequests, ReadRequests, SessionRequests,
                MessageRequests, SweepRequests
  <2> QED BY <1>3, <2>1 DEF Outcomes, UpdateSession, Histories
<1>4. CASE r.kind = "delete"
  <2>1. r.sess \in SessionIds
    BY <1>4 DEF Requests, UserRequests, ReadRequests, SessionRequests,
                MessageRequests, SweepRequests
  <2> QED BY <1>4, <2>1 DEF Outcomes, DeleteSession, Histories
<1>5. CASE r.kind = "activate"
  <2>1. Activate(h, r.sess) \in Histories
    BY DEF Activate, Histories, Session
  <2> QED BY <1>5, <2>1 DEF Outcomes, SetActiveSession
<1>6. CASE r.kind = "add"
  <2>1. /\ r.sess \in SessionIds /\ r.msg \in MsgIds
        /\ r.data \in Msg /\ r.expired \in BOOLEAN
    BY <1>6 DEF Requests, UserRequests, ReadRequests, SessionRequests,
                MessageRequests, SweepRequests
  <2>2. ASSUME NEW s \in SessionsIn(h)
        PROVE  PutMessage(h[s], r.msg, r.data, r.expired) \in Session
    BY <2>1 DEF PutMessage, SessionsIn, Histories, Session
  <2>3. Outcomes(r, h) = AddMessage(h, r.sess, r.msg, r.data, r.expired)
    BY <1>6 DEF Outcomes
  <2>4. AddMessage(h, r.sess, r.msg, r.data, r.expired) \subseteq Histories
    BY <2>1, <2>2 DEF AddMessage, Histories
  <2> QED BY <2>3, <2>4
<1>7. CASE r.kind = "edit"
  <2>1. /\ r.sess \in SessionIds /\ r.msg \in MsgIds /\ r.content \in Contents
    BY <1>7 DEF Requests, UserRequests, ReadRequests, SessionRequests,
                MessageRequests, SweepRequests
  <2>2. ASSUME NEW s \in SessionsIn(h), r.msg \in MessagesIn(h[s])
        PROVE  PutMessage(h[s], r.msg, Edited(h[s].msgs[r.msg], r.content), FALSE)
                 \in Session
    <3>1. h[s] \in Session /\ h[s].msgs[r.msg] \in Msg
      BY <2>1, <2>2 DEF SessionsIn, MessagesIn, Histories, Session
    <3>2. Edited(h[s].msgs[r.msg], r.content) \in Msg
      BY <2>1, <3>1 DEF Edited, Msg
    <3> QED BY <2>1, <3>1, <3>2 DEF PutMessage, Session
  <2>3. Outcomes(r, h) = UpdateMessage(h, r.sess, r.msg, r.content)
    BY <1>7 DEF Outcomes
  <2>4. UpdateMessage(h, r.sess, r.msg, r.content) \subseteq Histories
    BY <2>1, <2>2 DEF UpdateMessage, Histories
  <2> QED BY <2>3, <2>4
<1>8. CASE r.kind = "count"
  <2>1. /\ r.msg \in MsgIds /\ r.content \in Contents
    BY <1>8 DEF Requests, UserRequests, ReadRequests, SessionRequests,
                MessageRequests, SweepRequests
  <2>2. ASSUME NEW s \in SessionsIn(h), r.msg \in MessagesIn(h[s])
        PROVE  SetTokens(h[s], r.msg, r.content) \in Session
    <3>1. h[s] \in Session /\ h[s].msgs[r.msg] \in Msg
      BY <2>1, <2>2 DEF SessionsIn, MessagesIn, Histories, Session
    <3>2. Counted(h[s].msgs[r.msg], r.content) \in Msg
      BY <2>1, <3>1 DEF Counted, Msg
    <3> QED BY <2>1, <3>1, <3>2 DEF SetTokens, PutMessage, Session
  <2> QED BY <1>8, <2>1, <2>2 DEF Outcomes, UpdateMessageTokenCount, Histories, SessionsIn
<1>9. CASE r.kind = "expire"
  <2>1. DropExpired(h) \in Histories
    BY DEF DropExpired, Histories
  <2> QED BY <1>9, <2>1 DEF Outcomes, DeleteExpired
<1>10. CASE r.kind = "clear"
  BY <1>10 DEF Outcomes, EmptyHistory, Histories
<1> QED
  BY <1>1, <1>2, <1>3, <1>4, <1>5, <1>6, <1>7, <1>8, <1>9, <1>10
     DEF Requests, UserRequests, ReadRequests, SessionRequests,
         MessageRequests, SweepRequests

\* A session is within the message limit, or has the messages of one that was
\* sent whole.
Small(sess, X) ==
    Cardinality(MessagesIn(sess)) <= MaxMessages \/ MessagesIn(sess) \in X

\* Writing message m leaves at most that one message more.
LEMMA PutMessageSize ==
    ASSUME NEW sess \in Session, NEW m \in MsgIds, NEW d \in Msg,
           NEW e \in BOOLEAN, NEW X,
           Small(sess, X),
           m \in MessagesIn(sess) \/ Cardinality(MessagesIn(sess)) < MaxMessages
    PROVE  Small(PutMessage(sess, m, d, e), X)
<1> USE HistoryAssumption
<1>1. MessagesIn(PutMessage(sess, m, d, e)) = MessagesIn(sess) \cup {m}
  BY DEF MessagesIn, PutMessage, Session
<1>2. IsFiniteSet(MessagesIn(sess))
  BY FS_Subset DEF MessagesIn
<1>3. Cardinality(MessagesIn(sess)) \in Nat
  BY <1>2, FS_CardinalityType
<1>4. CASE m \in MessagesIn(sess)
  <2>1. MessagesIn(PutMessage(sess, m, d, e)) = MessagesIn(sess)
    BY <1>1, <1>4
  <2> QED BY <2>1 DEF Small
<1>5. CASE m \notin MessagesIn(sess)
  <2>1. Cardinality(MessagesIn(PutMessage(sess, m, d, e)))
          = Cardinality(MessagesIn(sess)) + 1
    BY <1>1, <1>2, <1>5, FS_AddElement
  <2>2. Cardinality(MessagesIn(PutMessage(sess, m, d, e))) <= MaxMessages
    BY <1>3, <1>5, <2>1
  <2> QED BY <2>2 DEF Small
<1> QED BY <1>4, <1>5

\* Replacing one of its sessions by a small one, or by nothing, keeps a history
\* within the limits.
LEMMA ReplaceWithinLimits ==
    ASSUME NEW h \in Histories, NEW s \in SessionIds,
           NEW x \in Session \cup {None}, NEW X,
           WithinLimits(h, X),
           x # None => Small(x, X),
           \/ x = None
           \/ s \in SessionsIn(h)
           \/ Cardinality(SessionsIn(h)) < MaxSessions
    PROVE  WithinLimits([h EXCEPT ![s] = x], X)
<1> USE HistoryAssumption
<1> DEFINE g == [h EXCEPT ![s] = x]
<1>1. IsFiniteSet(SessionsIn(h)) /\ IsFiniteSet(SessionsIn(g))
  BY FS_Subset DEF SessionsIn
<1>2. Cardinality(SessionsIn(h)) \in Nat /\ Cardinality(SessionsIn(g)) \in Nat
  BY <1>1, FS_CardinalityType
<1>3. Cardinality(SessionsIn(g)) <= MaxSessions
  <2>1. CASE x = None \/ s \in SessionsIn(h)
    <3>1. SessionsIn(g) \subseteq SessionsIn(h)
      BY <2>1 DEF SessionsIn, Histories
    <3>2. Cardinality(SessionsIn(g)) <= Cardinality(SessionsIn(h))
      BY <1>1, <3>1, FS_Subset
    <3> HIDE DEF g
    <3> QED BY <1>2, <3>2 DEF WithinLimits
  <2>2. CASE x # None /\ s \notin SessionsIn(h)
    <3>1. SessionsIn(g) = SessionsIn(h) \cup {s}
      BY <2>2 DEF SessionsIn, Histories
    <3>2. Cardinality(SessionsIn(g)) = Cardinality(SessionsIn(h)) + 1
      BY <1>1, <2>2, <3>1, FS_AddElement
    <3> QED BY <1>2, <2>2, <3>2
  <2> QED BY <2>1, <2>2
<1>4. ASSUME NEW t \in SessionsIn(g)
      PROVE  Small(g[t], X)
  <2>1. CASE t = s
    BY <2>1, <1>4 DEF SessionsIn, Histories, Small
  <2>2. CASE t # s
    BY <2>2, <1>4 DEF SessionsIn, Histories, WithinLimits, Small
  <2> QED BY <2>1, <2>2
<1> QED BY <1>3, <1>4 DEF WithinLimits, Small

\* A history obtained by dropping sessions, or by changing nothing that counts,
\* is within the limits of the one it came from.
LEMMA ShrinkWithinLimits ==
    ASSUME NEW h \in Histories, NEW g \in Histories, NEW X, WithinLimits(h, X),
           SessionsIn(g) \subseteq SessionsIn(h),
           \A s \in SessionsIn(g) : MessagesIn(g[s]) = MessagesIn(h[s])
    PROVE  WithinLimits(g, X)
<1>1. IsFiniteSet(SessionsIn(h))
  BY HistoryAssumption, FS_Subset DEF SessionsIn
<1>2. Cardinality(SessionsIn(g)) <= Cardinality(SessionsIn(h))
  BY <1>1, FS_Subset
<1>3. Cardinality(SessionsIn(h)) \in Nat /\ Cardinality(SessionsIn(g)) \in Nat
  BY <1>1, FS_Subset, FS_CardinalityType
<1> QED BY <1>2, <1>3, HistoryAssumption DEF WithinLimits

\* Every operation keeps a history within the limits.
LEMMA OutcomesWithinLimits ==
    ASSUME NEW r \in Requests, NEW h \in Histories, NEW X, WithinLimits(h, X),
           r.kind \in {"create", "update"} => MessagesIn(r.data) \in X,
           NEW g \in Outcomes(r, h)
    PROVE  WithinLimits(g, X)
<1> USE HistoryAssumption, PayloadAssumption
<1>0. g \in Histories
  BY OutcomesAreHistories
<1>1. CASE r.kind = "get"
  BY <1>1 DEF Outcomes
<1>2. CASE r.kind \in {"create", "update"}
  <2>1. /\ r.sess \in SessionIds /\ r.data \in Session /\ r.data # None
        /\ Small(r.data, X)
    BY <1>2 DEF Requests, UserRequests, ReadRequests, SessionRequests,
                MessageRequests, SweepRequests, Small
  <2>2. /\ g = [h EXCEPT ![r.sess] = r.data]
        /\ r.sess \in SessionsIn(h) \/ Cardinality(SessionsIn(h)) < MaxSessions
    BY <1>2 DEF Outcomes, CreateSession, UpdateSession
  <2> QED BY <2>1, <2>2, ReplaceWithinLimits
<1>3. CASE r.kind = "delete"
  <2>1. r.sess \in SessionIds /\ g = [h EXCEPT ![r.sess] = None]
    BY <1>3 DEF Outcomes, DeleteSession, SessionsIn
  <2> QED BY <2>1, ReplaceWithinLimits
<1>4. CASE r.kind = "activate"
  <2>1. g = Activate(h, r.sess)
    BY <1>4 DEF Outcomes, SetActiveSession
  <2>2. /\ SessionsIn(g) \subseteq SessionsIn(h)
        /\ \A s \in SessionsIn(g) : MessagesIn(g[s]) = MessagesIn(h[s])
    BY <2>1 DEF Activate, SessionsIn, MessagesIn, Histories, Session
  <2> QED BY <1>0, <2>2, ShrinkWithinLimits
<1>5. CASE r.kind \in {"add", "edit"}
  <2> DEFINE e == IF r.kind = "add" THEN r.expired ELSE FALSE
             d == IF r.kind = "add" THEN r.data
                  ELSE Edited(h[r.sess].msgs[r.msg], r.content)
             new == PutMessage(h[r.sess], r.msg, d, e)
  <2>1. /\ r.msg \in MsgIds /\ e \in BOOLEAN
        /\ r.kind = "add" => r.data \in Msg
        /\ r.kind = "edit" => r.content \in Contents
    BY <1>5 DEF Requests, UserRequests, ReadRequests, SessionRequests,
                MessageRequests, SweepRequests
  <2>2. /\ g = [h EXCEPT ![r.sess] = new]
        /\ r.sess \in SessionsIn(h)
        /\ \/ r.msg \in MessagesIn(h[r.sess])
           \/ r.kind = "add" /\ Cardinality(MessagesIn(h[r.sess])) < MaxMessages
    BY <1>5 DEF Outcomes, AddMessage, UpdateMessage
  <2>3. /\ r.sess \in SessionIds /\ h[r.sess] \in Session
        /\ Small(h[r.sess], X)
    BY <2>2 DEF SessionsIn, Histories, WithinLimits, Small
  <2>4. d \in Msg
    <3>1. CASE r.kind = "add"
      BY <2>1, <3>1
    <3>2. CASE r.kind = "edit"
      <4>1. r.msg \in MessagesIn(h[r.sess])
        BY <2>2, <3>2
      <4>2. h[r.sess].msgs[r.msg] \in Msg
        BY <2>1, <2>3, <4>1 DEF MessagesIn, Session
      <4> QED BY <2>1, <3>2, <4>2 DEF Edited, Msg
    <3> QED BY <1>5, <3>1, <3>2
  <2> HIDE DEF d, e
  <2>5. new \in Session
    BY <2>1, <2>3, <2>4 DEF PutMessage, Session
  <2>6. Small(new, X)
    BY <2>1, <2>2, <2>3, <2>4, PutMessageSize
  <2> HIDE DEF new
  <2> QED BY <2>2, <2>3, <2>5, <2>6, ReplaceWithinLimits
<1>6. CASE r.kind = "count"
  <2>1. /\ r.msg \in MsgIds /\ r.content \in Contents
    BY <1>6 DEF Requests, UserRequests, ReadRequests, SessionRequests,
                MessageRequests, SweepRequests
  <2>2. PICK s \in SessionsIn(h) :
          /\ r.msg \in MessagesIn(h[s])
          /\ g = [h EXCEPT ![s] = SetTokens(h[s], r.msg, r.content)]
    BY <1>6 DEF Outcomes, UpdateMessageTokenCount
  <2>3. s \in SessionIds /\ h[s] \in Session
    BY DEF SessionsIn, Histories
  <2>4. h[s].msgs[r.msg] \in Msg
    BY <2>1, <2>2, <2>3 DEF MessagesIn, Session
  <2>5. Counted(h[s].msgs[r.msg], r.content) \in Msg
    BY <2>1, <2>4 DEF Counted, Msg
  <2>6. SetTokens(h[s], r.msg, r.content) \in Session
    BY <2>1, <2>3, <2>5 DEF SetTokens, PutMessage, Session
  <2>7. MessagesIn(SetTokens(h[s], r.msg, r.content)) = MessagesIn(h[s])
    BY <2>1, <2>2, <2>3, <2>5 DEF SetTokens, PutMessage, MessagesIn, Session
  <2> QED
    BY <2>2, <2>3, <2>6, <2>7, ReplaceWithinLimits DEF WithinLimits, Small
<1>7. CASE r.kind = "expire"
  <2>1. g = DropExpired(h)
    BY <1>7 DEF Outcomes, DeleteExpired
  <2>2. /\ SessionsIn(g) \subseteq SessionsIn(h)
        /\ \A s \in SessionsIn(g) : MessagesIn(g[s]) = MessagesIn(h[s])
    BY <2>1 DEF DropExpired, SessionsIn, MessagesIn, Histories
  <2> QED BY <1>0, <2>2, ShrinkWithinLimits
<1>8. CASE r.kind = "clear"
  <2>1. g = EmptyHistory
    BY <1>8 DEF Outcomes
  <2>2. SessionsIn(g) = {}
    BY <2>1 DEF EmptyHistory, SessionsIn
  <2> QED BY <1>0, <2>2, ShrinkWithinLimits
<1> QED
  BY <1>1, <1>2, <1>3, <1>4, <1>5, <1>6, <1>7, <1>8
     DEF Requests, UserRequests, ReadRequests, SessionRequests,
         MessageRequests, SweepRequests

-----------------------------------------------------------------------------
(***************************************************************************)
(* Any number of goroutines                                                *)
(***************************************************************************)

Inv == TypeOK /\ LimitsHold /\ ControlOK /\ CopiesLimited

\* What the kind of a request says about it.
LEMMA RequestKinds ==
    /\ UserRequests \subseteq Requests
    /\ SweepRequests \subseteq Requests
    /\ CloseRequest \notin Requests
    /\ \A r \in Requests \cup {CloseRequest} :
          /\ r.kind \in {"expire", "count"} => r \in SweepRequests
          /\ r.kind = "close" => r = CloseRequest
    /\ \A r \in SweepRequests \cup {CloseRequest} :
          r.kind \notin {"create", "update"}
  BY DEF Requests, UserRequests, ReadRequests, SessionRequests,
         MessageRequests, SweepRequests, CloseRequest

\* A user without a file has a well-formed history within the limits (loadUserHistory's new user).
LEMMA EmptyHistoryOK ==
    EmptyHistory \in Histories /\ \A X : WithinLimits(EmptyHistory, X)
<1>1. SessionsIn(EmptyHistory) = {}
  BY DEF EmptyHistory, SessionsIn
<1>2. EmptyHistory \in Histories
  BY DEF EmptyHistory, Histories
<1> QED BY <1>1, <1>2, FS_EmptySet, HistoryAssumption DEF WithinLimits

\* A history stays within the limits when more has been sent.
LEMMA MoreSent ==
    ASSUME NEW h, NEW X, NEW Y, X \subseteq Y, WithinLimits(h, X)
    PROVE  WithinLimits(h, Y)
  BY DEF WithinLimits

\* deepCopyHistory keeps the sessions and the identifiers of their messages; a
\* copy of a copy is no different.
LEMMA CopiedOK ==
    ASSUME NEW h \in Histories
    PROVE  /\ Copied(h) \in Histories
           /\ Copied(Copied(h)) = Copied(h)
           /\ \A X : WithinLimits(h, X) => WithinLimits(Copied(h), X)
<1> USE HistoryAssumption
<1>1. ASSUME NEW x \in Msg \cup {None}
      PROVE  /\ CopiedMessage(x) \in Msg \cup {None}
             /\ CopiedMessage(x) = None <=> x = None
             /\ CopiedMessage(CopiedMessage(x)) = CopiedMessage(x)
  BY DEF CopiedMessage, Msg
<1> HIDE DEF CopiedMessage
<1>2. ASSUME NEW x \in Session
      PROVE  /\ CopiedSession(x) \in Session
             /\ MessagesIn(CopiedSession(x)) = MessagesIn(x)
             /\ CopiedSession(CopiedSession(x)) = CopiedSession(x)
  <2> DEFINE ms == [m \in MsgIds |-> CopiedMessage(x.msgs[m])]
  <2>0. x.msgs \in [MsgIds -> Msg \cup {None}]
    BY DEF Session
  <2>1. ms \in [MsgIds -> Msg \cup {None}]
    BY <1>1, <2>0
  <2>2. CopiedSession(x) = [x EXCEPT !.msgs = ms]
    BY DEF CopiedSession
  <2>3. \A m \in MsgIds : ms[m] = None <=> x.msgs[m] = None
    BY <1>1, <2>0
  <2>4. ms = [m \in MsgIds |-> CopiedMessage(ms[m])]
    BY <1>1, <2>0
  <2> HIDE DEF ms
  <2>5. CopiedSession(x) \in Session /\ CopiedSession(x).msgs = ms
    BY <2>1, <2>2 DEF Session
  <2>6. MessagesIn(CopiedSession(x)) = MessagesIn(x)
    BY <2>3, <2>5 DEF MessagesIn
  <2>7. CopiedSession(CopiedSession(x)) = [CopiedSession(x) EXCEPT !.msgs = ms]
    BY <2>4, <2>5 DEF CopiedSession
  <2>8. [CopiedSession(x) EXCEPT !.msgs = ms] = CopiedSession(x)
    BY <2>2, <2>5 DEF Session
  <2> QED BY <2>5, <2>6, <2>7, <2>8
<1>3. CopiedSession(None) = None
  BY DEF CopiedSession
<1> HIDE DEF CopiedSession
<1>4. \A s \in SessionIds : h[s] \in Session \cup {None}
  BY DEF Histories
<1>5. /\ Copied(h) \in Histories
      /\ SessionsIn(Copied(h)) = SessionsIn(h)
      /\ \A s \in SessionsIn(h) : MessagesIn(Copied(h)[s]) = MessagesIn(h[s])
  BY <1>2, <1>3, <1>4 DEF Copied, Histories, SessionsIn
<1>6. Copied(Copied(h)) = Copied(h)
  BY <1>2, <1>3, <1>4 DEF Copied
<1>7. \A X : WithinLimits(h, X) => WithinLimits(Copied(h), X)
  BY <1>5, ShrinkWithinLimits
<1> QED BY <1>5, <1>6, <1>7

\* NewFileStorage establishes the invariant.
LEMMA InitInv == Init => Inv
<1> SUFFICES ASSUME Init PROVE Inv
  OBVIOUS
<1> USE HistoryAssumption DEF Init, Nobody
<1>1. TypeOK
  BY DEF TypeOK, Labels, Content, Readable
<1>2. LimitsHold /\ CopiesLimited
  BY DEF LimitsHold, CopiesLimited, Limited
<1>3. ControlOK
  BY DEF ControlOK
<1> QED BY <1>1, <1>2, <1>3 DEF Inv

\* What running the body of an operation on user[p]'s history leaves.
Operated(p, label, w, r, c) ==
    /\ pc' = [pc EXCEPT ![p] = label]
    /\ user' = [user EXCEPT ![p] = w]
    /\ req' = [req EXCEPT ![p] = r]
    /\ copy' = [copy EXCEPT ![p] = c]
    /\ todo' = todo
    /\ \/ /\ label = "open" /\ w = user[p] /\ r = req[p]
          /\ c \in Histories /\ WithinLimits(c, sent)
       \/ label = "next" /\ w = None /\ r = req[p] /\ c = None /\ r \in SweepRequests
       \/ label = "idle" /\ w = None /\ r = None /\ c = None

\* The body of an operation, run on a history h within the limits.
LEMMA OperateOK ==
    ASSUME Inv, NEW p \in Procs, pc[p] \in {"load", "fill"},
           NEW h \in Histories, WithinLimits(h, sent), Operate(p, h)
    PROVE  \E label, w, r, c : Operated(p, label, w, r, c)
<1>0. /\ req[p] \in Requests /\ TypeOK
      /\ req[p].kind \in {"create", "update"} => MessagesIn(req[p].data) \in sent
  BY DEF Inv, ControlOK
<1>1. CASE LeaveUnsaved(p)
  <2>1. CASE req[p].kind \in {"expire", "count"}
    <3>1. req[p] \in SweepRequests
      BY <1>0, <2>1, RequestKinds
    <3>2. Operated(p, "next", None, req[p], None)
      BY <1>0, <1>1, <2>1, <3>1
         DEF Operated, LeaveUnsaved, Leave, Goto, TypeOK
    <3> QED BY <3>2
  <2>2. CASE req[p].kind \notin {"expire", "count"}
    <3>1. Operated(p, "idle", None, None, None)
      BY <1>1, <2>2 DEF Operated, LeaveUnsaved, Leave, Goto
    <3> QED BY <3>1
  <2> QED BY <2>1, <2>2
<1>2. ASSUME NEW h2 \in Outcomes(req[p], h),
             copy' = [copy EXCEPT ![p] = h2], Goto(p, "open"),
             UNCHANGED <<user, req, todo>>
      PROVE  Operated(p, "open", user[p], req[p], h2)
  <2>1. h2 \in Histories /\ WithinLimits(h2, sent)
    BY <1>0, OutcomesAreHistories, OutcomesWithinLimits
  <2> QED BY <1>0, <1>2, <2>1 DEF Operated, Goto, TypeOK
<1> QED
  BY <1>1, <1>2 DEF Operate

\* Every step of every goroutine, a crash included, preserves the invariant.
LEMMA NextInv == Inv /\ [Next]_vars => Inv'
<1> SUFFICES ASSUME Inv, [Next]_vars PROVE Inv'
  OBVIOUS
<1> USE HistoryAssumption, FileAssumption
<1> USE DEF Inv, Goto, files, bounds
<1>1. ASSUME NEW p \in Procs, NEW u \in Users, NEW r \in UserRequests, Begin(p, u, r)
      PROVE  Inv'
  <2> USE <1>1 DEF Begin
  <2>0. r \in Requests /\ r # CloseRequest
    BY RequestKinds
  <2>1. /\ sent \subseteq sent' /\ sent' \subseteq SUBSET MsgIds
        /\ r.kind \in {"create", "update"} => MessagesIn(r.data) \in sent'
    BY DEF TypeOK, MessagesIn
  <2>2. \A c : Limited(c) => (c \in Histories => WithinLimits(c, sent'))
    BY <2>1, MoreSent DEF Limited
  <2>3. LimitsHold'
    BY <2>2 DEF LimitsHold, Limited
  <2>4. /\ req' = [req EXCEPT ![p] = r] /\ user' = [user EXCEPT ![p] = u]
        /\ todo' = todo /\ snap' = snap /\ started' \in Nat
    BY DEF TypeOK
  <2>5. PICK label \in {"open", "load"}, c \in {copy[p], EmptyHistory} :
          /\ pc' = [pc EXCEPT ![p] = label] /\ copy' = [copy EXCEPT ![p] = c]
          /\ label = "open" => c = EmptyHistory
    BY DEF TypeOK
  <2>6. c \in Readable /\ Limited(c)
    BY <2>5, EmptyHistoryOK DEF TypeOK, Readable, CopiesLimited, Limited
  <2>7. TypeOK'
    <3>1. /\ pc' \in [Procs -> Labels] /\ copy' \in [Procs -> Readable]
          /\ user' \in [Procs -> Users \cup {None}]
          /\ req' \in [Procs -> Requests \cup {CloseRequest, None}]
      BY <2>0, <2>4, <2>5, <2>6 DEF TypeOK, Labels
    <3> QED BY <2>1, <2>4, <3>1 DEF TypeOK
  <2>8. CopiesLimited'
    BY <2>2, <2>4, <2>5, <2>6 DEF TypeOK, CopiesLimited, Limited
  <2>9. ControlOK'
    BY <2>0, <2>1, <2>4, <2>5, EmptyHistoryOK DEF TypeOK, ControlOK
  <2> QED BY <2>3, <2>7, <2>8, <2>9
<1>2. ASSUME NEW p \in Procs, NEW r \in SweepRequests \cup {CloseRequest}, BeginSweep(p, r)
      PROVE  Inv'
  <2> USE <1>2 DEF BeginSweep, CachedUsers
  <2>0. /\ CachedCopies \in [Users -> Readable]
        /\ \A u \in Users : Limited(CachedCopies[u])
        /\ \A u \in Users : cache[u] # None => CachedCopies[u] \in Histories
    BY CopiedOK DEF CachedCopies, TypeOK, Readable, LimitsHold, Limited
  <2> HIDE DEF CachedCopies
  <2>5. /\ snap' = snap \/ snap' = [snap EXCEPT ![p] = CachedCopies]
        /\ r = CloseRequest => snap' = [snap EXCEPT ![p] = CachedCopies]
        /\ copy' = copy /\ user' = user /\ sent' = sent /\ pc' = [pc EXCEPT ![p] = "next"]
        /\ req' = [req EXCEPT ![p] = r]
        /\ todo' = [todo EXCEPT ![p] = {u \in Users : cache[u] # None}]
    OBVIOUS
  <2>1. TypeOK'
    BY <2>0, RequestKinds DEF TypeOK, Labels, Content
  <2>2. LimitsHold'
    BY DEF TypeOK, LimitsHold, Limited, CopiesLimited, ControlOK
  <2>3. ControlOK'
    <3>1. /\ r \in Requests \cup {CloseRequest}
          /\ r.kind \notin {"create", "update"}
      BY RequestKinds
    <3>2. r = CloseRequest => \A u \in todo'[p] : snap'[p][u] \in Histories
      <4> SUFFICES ASSUME r = CloseRequest, NEW u \in todo'[p]
                   PROVE  snap'[p][u] \in Histories
        OBVIOUS
      <4> HIDE DEF BeginSweep
      <4>1. snap'[p] = CachedCopies
        BY <2>5 DEF TypeOK
      <4>2. u \in Users /\ cache[u] # None
        BY <2>5 DEF TypeOK
      <4>3. CachedCopies[u] \in Histories
        BY ONLY <2>0, <4>2
      <4> QED BY <4>1, <4>3
    <3> HIDE DEF BeginSweep
    <3> QED BY <2>5, <3>1, <3>2 DEF TypeOK, ControlOK
  <2>4. CopiesLimited'
    <3> HIDE DEF BeginSweep
    <3>1. \A q \in Procs, u \in Users :
            snap'[q][u] = snap[q][u] \/ snap'[q][u] = CachedCopies[u]
      <4>1. CASE snap' = snap
        BY <4>1
      <4>2. ASSUME snap' = [snap EXCEPT ![p] = CachedCopies],
                   NEW q \in Procs
            PROVE  snap'[q] = snap[q] \/ snap'[q] = CachedCopies
        BY <4>2 DEF TypeOK
      <4>3. snap' = snap \/ snap' = [snap EXCEPT ![p] = CachedCopies]
        BY <2>5
      <4> QED BY ONLY <4>1, <4>2, <4>3
    <3> QED BY <2>0, <2>5, <3>1 DEF CopiesLimited, Limited
  <2> QED BY <2>1, <2>2, <2>3, <2>4
<1>3. ASSUME NEW p \in Procs, NEW u \in Users, NextUser(p, u)
      PROVE  Inv'
  <2> USE <1>3 DEF NextUser
  <2>0. LimitsHold'
    BY DEF LimitsHold, Limited
  <2>1. CASE req[p] = CloseRequest
    <3>0. snap[p][u] \in Histories /\ Limited(snap[p][u])
      BY <2>1 DEF ControlOK, CopiesLimited
    <3>1. TypeOK'
      BY <2>1, <3>0 DEF TypeOK, Labels, Readable
    <3>2. CopiesLimited'
      BY <2>1, <3>0 DEF TypeOK, CopiesLimited, Limited
    <3>3. ControlOK'
      BY <2>1, <3>0 DEF TypeOK, ControlOK
    <3> QED BY <2>0, <3>1, <3>2, <3>3
  <2>2. CASE req[p] # CloseRequest
    <3>1. TypeOK'
      BY <2>2 DEF TypeOK, Labels
    <3>2. ControlOK'
      BY <2>2, RequestKinds DEF TypeOK, ControlOK
    <3> QED BY <2>0, <2>2, <3>1, <3>2 DEF CopiesLimited, Limited
  <2> QED BY <2>1, <2>2
<1>4. ASSUME NEW p \in Procs, EndSweep(p)
      PROVE  Inv'
  <2> USE <1>4 DEF EndSweep, Nobody
  <2>1. TypeOK'
    BY RequestKinds DEF TypeOK, Labels, Content, Readable
  <2>2. LimitsHold'
    BY DEF TypeOK, LimitsHold, Limited, CopiesLimited, ControlOK
  <2>3. ControlOK'
    BY RequestKinds DEF TypeOK, ControlOK, Readable
  <2>4. CopiesLimited'
    BY DEF TypeOK, LimitsHold, Limited, CopiesLimited, ControlOK
  <2> QED BY <2>1, <2>2, <2>3, <2>4
<1>5. ASSUME NEW p \in Procs, LoadHit(p)
      PROVE  Inv'
  <2> USE <1>5 DEF LoadHit, CanLoad
  <2>1. /\ Operate(p, Copied(cache[user[p]])) /\ pc[p] \in {"load", "fill"}
        /\ user[p] \in Users /\ req[p] \in Requests /\ copy[p] \in Readable
    BY DEF ControlOK, TypeOK
  <2>2. cache[user[p]] \in Histories
    BY <2>1 DEF TypeOK, Readable, ControlOK
  <2>3. WithinLimits(cache[user[p]], sent)
    BY <2>1, <2>2 DEF LimitsHold, CopiesLimited, Limited
  <2>4. PICK label, w, r, c : Operated(p, label, w, r, c)
    <3>1. Copied(cache[user[p]]) \in Histories /\ WithinLimits(Copied(cache[user[p]]), sent)
      BY <2>2, <2>3, CopiedOK
    <3> QED BY <2>1, <3>1, OperateOK DEF Inv
  <2>5. TypeOK'
    <3>1. /\ label \in Labels /\ w \in Users \cup {None}
          /\ r \in Requests \cup {None} /\ c \in Readable
      BY <2>1, <2>4, RequestKinds DEF Operated, Labels, Readable
    <3>2. /\ cache' \in [Users -> Readable]
          /\ userLock' \in [Users -> Procs \cup {None}]
      BY <2>1, <2>2 DEF TypeOK, Readable
    <3> QED BY <2>4, <3>1, <3>2 DEF Operated, TypeOK
  <2>6. LimitsHold'
    BY <2>1, <2>2, <2>3 DEF TypeOK, LimitsHold, Limited
  <2>7. ControlOK'
    BY <2>1, <2>4, RequestKinds DEF Operated, TypeOK, ControlOK
  <2>8. CopiesLimited'
    BY <2>4 DEF Operated, TypeOK, CopiesLimited, Limited
  <2> QED BY <2>5, <2>6, <2>7, <2>8
<1>6. ASSUME NEW p \in Procs, LoadMiss(p)
      PROVE  Inv'
  <2> USE <1>6 DEF LoadMiss, CanLoad, Parse
  <2>0. user[p] \in Users /\ req[p] \in Requests
    BY DEF ControlOK
  <2>1. Parse(disk[user[p]]) \in Histories /\ Limited(Parse(disk[user[p]]))
    BY <2>0, EmptyHistoryOK DEF Readable, LimitsHold, Limited
  <2> HIDE DEF Parse
  <2>2. TypeOK'
    BY <2>0, <2>1 DEF TypeOK, Labels, Readable
  <2>3. ControlOK'
    BY <2>0, <2>1 DEF TypeOK, ControlOK
  <2>4. CopiesLimited'
    BY <2>1 DEF TypeOK, CopiesLimited, Limited
  <2> QED BY <2>2, <2>3, <2>4 DEF LimitsHold, Limited
<1>7. ASSUME NEW p \in Procs, LoadFails(p)
      PROVE  Inv'
  <2> USE <1>7 DEF LoadFails, CanLoad, LeaveUnsaved, Leave
  <2>1. TypeOK'
    BY RequestKinds DEF TypeOK, Labels, Content, Readable
  <2>2. LimitsHold'
    BY DEF TypeOK, LimitsHold, Limited, CopiesLimited, ControlOK
  <2>3. ControlOK'
    BY RequestKinds DEF TypeOK, ControlOK, Readable
  <2>4. CopiesLimited'
    BY DEF TypeOK, LimitsHold, Limited, CopiesLimited, ControlOK
  <2> QED BY <2>1, <2>2, <2>3, <2>4
<1>8. ASSUME NEW p \in Procs, LoadFill(p)
      PROVE  Inv'
  <2> USE <1>8 DEF LoadFill
  <2>1. /\ Operate(p, Copied(copy[p])) /\ pc[p] \in {"load", "fill"}
        /\ user[p] \in Users /\ req[p] \in Requests /\ copy[p] \in Readable
    BY DEF ControlOK, TypeOK
  <2>2. copy[p] \in Histories
    BY <2>1 DEF TypeOK, Readable, ControlOK
  <2>3. WithinLimits(copy[p], sent)
    BY <2>1, <2>2 DEF LimitsHold, CopiesLimited, Limited
  <2>4. PICK label, w, r, c : Operated(p, label, w, r, c)
    <3>1. Copied(copy[p]) \in Histories /\ WithinLimits(Copied(copy[p]), sent)
      BY <2>2, <2>3, CopiedOK
    <3> QED BY <2>1, <3>1, OperateOK DEF Inv
  <2>5. TypeOK'
    <3>1. /\ label \in Labels /\ w \in Users \cup {None}
          /\ r \in Requests \cup {None} /\ c \in Readable
      BY <2>1, <2>4, RequestKinds DEF Operated, Labels, Readable
    <3>2. /\ cache' \in [Users -> Readable]
          /\ userLock' \in [Users -> Procs \cup {None}]
      BY <2>1, <2>2 DEF TypeOK, Readable
    <3> QED BY <2>4, <3>1, <3>2 DEF Operated, TypeOK
  <2>6. LimitsHold'
    BY <2>1, <2>2, <2>3 DEF TypeOK, LimitsHold, Limited
  <2>7. ControlOK'
    BY <2>1, <2>4, RequestKinds DEF Operated, TypeOK, ControlOK
  <2>8. CopiesLimited'
    BY <2>4 DEF Operated, TypeOK, CopiesLimited, Limited
  <2> QED BY <2>5, <2>6, <2>7, <2>8
<1>9. ASSUME NEW p \in Procs, OpenTmp(p)
      PROVE  Inv'
  <2> USE <1>9 DEF OpenTmp
  <2>1. TypeOK'
    BY DEF TypeOK, Labels, Content, Readable
  <2>2. LimitsHold'
    BY DEF TypeOK, LimitsHold, Limited, CopiesLimited, ControlOK
  <2>3. ControlOK'
    BY DEF TypeOK, ControlOK, Readable
  <2>4. CopiesLimited'
    BY DEF TypeOK, LimitsHold, Limited, CopiesLimited, ControlOK
  <2> QED BY <2>1, <2>2, <2>3, <2>4
<1>10. ASSUME NEW p \in Procs, OpenFails(p)
      PROVE  Inv'
  <2> USE <1>10 DEF OpenFails, LeaveSaved, Leave
  <2>1. TypeOK'
    BY RequestKinds DEF TypeOK, Labels, Content, Readable
  <2>2. LimitsHold'
    BY DEF TypeOK, LimitsHold, Limited, CopiesLimited, ControlOK
  <2>3. ControlOK'
    BY RequestKinds DEF TypeOK, ControlOK, Readable
  <2>4. CopiesLimited'
    BY DEF TypeOK, LimitsHold, Limited, CopiesLimited, ControlOK
  <2> QED BY <2>1, <2>2, <2>3, <2>4
<1>11. ASSUME NEW p \in Procs, Write(p)
      PROVE  Inv'
  <2> USE <1>11 DEF Write, Put
  <2>0. user[p] \in Users /\ copy[p] \in Histories
    BY DEF ControlOK
  <2>1. PICK c \in Overwritten(OldContent(p), copy[p]) : Put(p, c)
    OBVIOUS
  <2>2. c \in Content /\ Limited(c)
    BY <2>0, <2>1 DEF TypeOK, Overwritten, OldContent, Content, Readable, LimitsHold,
                      CopiesLimited, Limited
  <2>3. TypeOK'
    BY <2>0, <2>1, <2>2, RequestKinds DEF TypeOK, Labels, Content, Readable
  <2>4. LimitsHold'
    BY <2>0, <2>1, <2>2 DEF TypeOK, LimitsHold, Limited
  <2>5. ControlOK'
    BY RequestKinds DEF TypeOK, ControlOK
  <2>6. CopiesLimited'
    BY DEF TypeOK, CopiesLimited, Limited
  <2> QED BY <2>3, <2>4, <2>5, <2>6
<1>12. ASSUME NEW p \in Procs, WriteFails(p)
      PROVE  Inv'
  <2> USE <1>12 DEF WriteFails, Put, LeaveSaved, Leave
  <2>0. user[p] \in Users /\ copy[p] \in Histories
    BY DEF ControlOK
  <2>1. PICK c \in {OldContent(p), Torn} : Put(p, c)
    OBVIOUS
  <2>2. c \in Content /\ Limited(c)
    BY <2>0, <2>1 DEF TypeOK, OldContent, Content, Readable, LimitsHold,
                      CopiesLimited, Limited
  <2>3. TypeOK'
    BY <2>0, <2>1, <2>2, RequestKinds DEF TypeOK, Labels, Content, Readable
  <2>4. LimitsHold'
    BY <2>0, <2>1, <2>2 DEF TypeOK, LimitsHold, Limited
  <2>5. ControlOK'
    BY RequestKinds DEF TypeOK, ControlOK
  <2>6. CopiesLimited'
    BY DEF TypeOK, CopiesLimited, Limited
  <2> QED BY <2>3, <2>4, <2>5, <2>6
<1>13. ASSUME NEW p \in Procs, Rename(p)
      PROVE  Inv'
  <2> USE <1>13 DEF Rename, Renamed
  <2>1. TypeOK'
    BY DEF TypeOK, Labels, Content, Readable
  <2>2. LimitsHold'
    BY DEF TypeOK, LimitsHold, Limited, CopiesLimited, ControlOK
  <2>3. ControlOK'
    BY DEF TypeOK, ControlOK, Readable
  <2>4. CopiesLimited'
    BY DEF TypeOK, LimitsHold, Limited, CopiesLimited, ControlOK
  <2> QED BY <2>1, <2>2, <2>3, <2>4
<1>14. ASSUME NEW p \in Procs, RenameFails(p)
      PROVE  Inv'
  <2> USE <1>14 DEF RenameFails
  <2>1. TypeOK'
    BY DEF TypeOK, Labels, Content, Readable
  <2>2. LimitsHold'
    BY DEF TypeOK, LimitsHold, Limited, CopiesLimited, ControlOK
  <2>3. ControlOK'
    BY DEF TypeOK, ControlOK, Readable
  <2>4. CopiesLimited'
    BY DEF TypeOK, LimitsHold, Limited, CopiesLimited, ControlOK
  <2> QED BY <2>1, <2>2, <2>3, <2>4
<1>15. ASSUME NEW p \in Procs, Remove(p)
      PROVE  Inv'
  <2> USE <1>15 DEF Remove, Removed, LeaveSaved, Leave
  <2>1. TypeOK'
    BY RequestKinds DEF TypeOK, Labels, Content, Readable
  <2>2. LimitsHold'
    BY DEF TypeOK, LimitsHold, Limited, CopiesLimited, ControlOK
  <2>3. ControlOK'
    BY RequestKinds DEF TypeOK, ControlOK, Readable
  <2>4. CopiesLimited'
    BY DEF TypeOK, LimitsHold, Limited, CopiesLimited, ControlOK
  <2> QED BY <2>1, <2>2, <2>3, <2>4
<1>16. ASSUME NEW p \in Procs, Publish(p)
      PROVE  Inv'
  <2> USE <1>16 DEF Publish, LeaveSaved, Leave
  <2>0. Copied(copy[p]) \in Histories /\ Limited(Copied(copy[p]))
    BY CopiedOK DEF ControlOK, CopiesLimited, Limited
  <2>1. TypeOK'
    BY <2>0, RequestKinds DEF TypeOK, Labels, Content, Readable
  <2>2. LimitsHold'
    BY <2>0 DEF TypeOK, LimitsHold, Limited, CopiesLimited, ControlOK
  <2>3. ControlOK'
    BY RequestKinds DEF TypeOK, ControlOK, Readable
  <2>4. CopiesLimited'
    BY DEF TypeOK, LimitsHold, Limited, CopiesLimited, ControlOK
  <2> QED BY <2>1, <2>2, <2>3, <2>4
<1>17. ASSUME Crash
      PROVE  Inv'
  <2> USE <1>17 DEF Crash, Nobody
  <2>1. TypeOK'
    BY DEF TypeOK, Labels, Content, Readable
  <2>2. LimitsHold'
    BY DEF TypeOK, LimitsHold, Limited, CopiesLimited, ControlOK
  <2>3. ControlOK'
    BY DEF TypeOK, ControlOK, Readable
  <2>4. CopiesLimited'
    BY DEF TypeOK, LimitsHold, Limited, CopiesLimited, ControlOK
  <2> QED BY <2>1, <2>2, <2>3, <2>4
<1>18. ASSUME UNCHANGED vars
      PROVE  Inv'
  BY <1>18 DEF vars, TypeOK, LimitsHold, Limited, ControlOK, CopiesLimited
<1> QED
  BY <1>1, <1>2, <1>3, <1>4, <1>5, <1>6, <1>7, <1>8, <1>9, <1>10, <1>11, <1>12, <1>13, <1>14, <1>15, <1>16, <1>17, <1>18
     DEF Next, Step, Arrive, Load, Save

\* Every variable has its type in every reachable state.
THEOREM TypeCorrect == Spec => []TypeOK
<1>1. Inv => TypeOK
  BY DEF Inv
<1> QED BY <1>1, InitInv, NextInv, PTL DEF Spec

\* However many goroutines load, change and save the same user's history, and
\* whatever fails or crashes, no history in the cache, in the file or in the
\* temporary file has too many sessions, and none more messages than the limit
\* but in a session that a client sent with all of them.
THEOREM LimitsAlwaysHold == Spec => []LimitsHold
<1>1. Inv => LimitsHold
  BY DEF Inv
<1> QED BY <1>1, InitInv, NextInv, PTL DEF Spec

-----------------------------------------------------------------------------
(***************************************************************************)
(* Goroutines that stay apart: no two on one user at a time                *)
(***************************************************************************)

SeqInv == Inv /\ Apart /\ PublishedWhole /\ CacheCoherent /\ SequentialOK

\* NewFileStorage establishes the invariant of goroutines apart.
LEMMA InitSeqInv == Init => SeqInv
<1> SUFFICES ASSUME Init PROVE SeqInv
  OBVIOUS
<1>1. Apart /\ PublishedWhole /\ CacheCoherent /\ SequentialOK
  BY DEF Init, Nobody, PublishedWhole, CacheCoherent, SequentialOK, Sequential, Apart, CloseRequest, Readable
<1> QED BY <1>1, InitInv DEF SeqInv

\* A step of p leaves alone what belongs to the others and their users, and
\* the files of all if p is only about to begin.
Elsewhere(p) ==
    /\ \A q \in Procs \ {p} :
          /\ pc'[q] = pc[q] /\ user'[q] = user[q] /\ req'[q] = req[q]
          /\ copy'[q] = copy[q] /\ snap'[q] = snap[q] /\ fd'[q] = fd[q]
    /\ \A u \in Users : u # user[p] => disk'[u] = disk[u] /\ tmp'[u] = tmp[u]
    /\ pc[p] = "idle" => disk' = disk

\* Hence what is known of the others stays known.
LEMMA OthersSequential ==
    ASSUME SeqInv, NEW p \in Procs, Elsewhere(p)
    PROVE  \A q \in Procs \ {p} : Sequential(q)'
<1> SUFFICES ASSUME NEW q \in Procs \ {p} PROVE Sequential(q)'
  OBVIOUS
<1>1. /\ pc'[q] = pc[q] /\ user'[q] = user[q] /\ req'[q] = req[q]
      /\ copy'[q] = copy[q] /\ snap'[q] = snap[q] /\ fd'[q] = fd[q]
  BY DEF Elsewhere
<1>2. pc[q] \notin {"idle", "next"} => user[q] \in Users
  BY DEF SeqInv, Inv, ControlOK
<1>3. ASSUME pc[q] \notin {"idle", "next"}
      PROVE  disk'[user[q]] = disk[user[q]] /\ tmp'[user[q]] = tmp[user[q]]
  <2>1. user[q] # None
    BY <1>2, <1>3, HistoryAssumption, FileAssumption
  <2>2. user[q] # user[p]
    BY <2>1 DEF SeqInv, Apart
  <2> QED
    BY <1>2, <1>3, <2>2 DEF Elsewhere
<1>4. ASSUME pc[q] # "idle", req[q] = CloseRequest
      PROVE  disk' = disk
  BY <1>4 DEF SeqInv, Apart, Elsewhere
<1>5. Sequential(q)
  BY DEF SeqInv, SequentialOK
<1>6. ASSUME pc[q] \notin {"idle", "next"}
      PROVE  Loaded(disk[user[q]])' = Loaded(disk[user[q]])
  BY <1>1, <1>3, <1>6 DEF Loaded, Parse
<1>7. pc[q] # "idle" /\ req[q] = CloseRequest =>
          \A v \in Users : snap'[q][v] # None => snap'[q][v] = Loaded(disk'[v])
  BY <1>1, <1>4, <1>5 DEF Sequential
<1> HIDE DEF Loaded
<1> QED
  BY <1>1, <1>3, <1>5, <1>6, <1>7 DEF Sequential

\* The history a caller gets is well-formed, and copying it again changes
\* nothing; Parse is the history the copy is made of.
LEMMA LoadedOK ==
    ASSUME NEW c \in Readable
    PROVE  /\ Parse(c) \in Histories /\ Loaded(c) \in Histories
           /\ Copied(Parse(c)) = Loaded(c) /\ Copied(Loaded(c)) = Loaded(c)
           /\ c # None => Loaded(c) = Copied(c)
<1>1. Parse(c) \in Histories
  BY EmptyHistoryOK DEF Parse, Readable
<1>2. c # None => Parse(c) = c
  BY DEF Parse
<1> QED BY <1>1, <1>2, CopiedOK DEF Loaded

\* Every step keeps it: for the goroutine that makes it, and for the others.
LEMMA NextSeqInv ==
    ASSUME SeqInv, [Next /\ Apart']_vars
    PROVE  SeqInv'
<1>0. Inv /\ Inv' /\ TypeOK /\ TypeOK' /\ ControlOK /\ Apart'
  BY NextInv DEF SeqInv, Inv, Apart, vars, files, bounds
<1> USE <1>0, HistoryAssumption, FileAssumption
<1> USE DEF SeqInv, Goto, files, bounds
<1>1. ASSUME NEW p \in Procs, NEW u \in Users, NEW r \in UserRequests, Begin(p, u, r)
      PROVE  SeqInv'
  <2> USE <1>1 DEF Begin
  <2>1. PublishedWhole'
    BY RequestKinds DEF PublishedWhole, TypeOK, ControlOK, SequentialOK, Sequential, Readable
  <2>2. CacheCoherent'
    <3>1. cache' = cache /\ disk' = disk
      OBVIOUS
    <3>2. ASSUME NEW q \in Procs, pc[q] = "publish"
          PROVE  pc'[q] = "publish" /\ user'[q] = user[q]
      BY <3>2 DEF TypeOK
    <3> QED BY <3>1, <3>2 DEF CacheCoherent
  <2>3. Sequential(p)'
    <3>0. r # CloseRequest
      BY RequestKinds
    <3>1. CASE r.kind = "clear"
      <4>1. \A h : EmptyHistory \in Outcomes(r, h)
        BY <3>1 DEF Outcomes
      <4>2. pc' = [pc EXCEPT ![p] = "open"] /\ copy' = [copy EXCEPT ![p] = EmptyHistory]
        BY <3>1
      <4> HIDE DEF Parse
      <4> QED BY <3>0, <4>1, <4>2 DEF SequentialOK, Sequential, TypeOK
    <3>2. CASE r.kind # "clear"
      <4>1. pc' = [pc EXCEPT ![p] = "load"]
        BY <3>2
      <4> QED BY <3>0, <4>1 DEF SequentialOK, Sequential, TypeOK
    <3> QED BY <3>1, <3>2
  <2>4. Elsewhere(p)
    BY DEF Elsewhere, Renamed, Removed, SequentialOK, Sequential, TypeOK, Apart
  <2> QED BY <2>1, <2>2, <2>3, <2>4, OthersSequential DEF SequentialOK
<1>2. ASSUME NEW p \in Procs, NEW r \in SweepRequests \cup {CloseRequest}, BeginSweep(p, r)
      PROVE  SeqInv'
  <2> USE <1>2 DEF BeginSweep, CachedUsers
  <2>1. PublishedWhole'
    BY RequestKinds DEF PublishedWhole, TypeOK, ControlOK, SequentialOK, Sequential, Readable
  <2>2. CacheCoherent'
    <3>1. cache' = cache /\ disk' = disk
      OBVIOUS
    <3>2. ASSUME NEW q \in Procs, pc[q] = "publish"
          PROVE  pc'[q] = "publish" /\ user'[q] = user[q]
      BY <3>2 DEF TypeOK
    <3> QED BY <3>1, <3>2 DEF CacheCoherent
  <2>0. ASSUME r = CloseRequest, NEW v \in Users, CachedCopies[v] # None
        PROVE  CachedCopies[v] = Loaded(disk[v])
    <3>1. CachedCopies[v] = Copied(cache[v]) /\ cache[v] # None
      BY <2>0 DEF CachedCopies
    <3>2. ~ \E q \in Procs : user[q] = v /\ pc[q] = "publish"
      BY <2>0 DEF Apart, TypeOK
    <3> QED BY <3>1, <3>2, LoadedOK DEF CacheCoherent, PublishedWhole
  <2> HIDE DEF CachedCopies
  <2>3. Sequential(p)'
    <3>1. /\ pc'[p] = "next" /\ req'[p] = r /\ disk' = disk
          /\ r = CloseRequest => snap'[p] = CachedCopies
      BY DEF TypeOK
    <3> QED BY <2>0, <3>1 DEF Sequential
  <2>4. Elsewhere(p)
    BY DEF Elsewhere, Renamed, Removed, SequentialOK, Sequential, TypeOK, Apart
  <2> QED BY <2>1, <2>2, <2>3, <2>4, OthersSequential DEF SequentialOK
<1>3. ASSUME NEW p \in Procs, NEW u \in Users, NextUser(p, u)
      PROVE  SeqInv'
  <2> USE <1>3 DEF NextUser
  <2>1. PublishedWhole'
    BY RequestKinds DEF PublishedWhole, TypeOK, ControlOK, SequentialOK, Sequential, Readable
  <2>2. CacheCoherent'
    <3>1. cache' = cache /\ disk' = disk
      OBVIOUS
    <3>2. ASSUME NEW q \in Procs, pc[q] = "publish"
          PROVE  pc'[q] = "publish" /\ user'[q] = user[q]
      BY <3>2 DEF TypeOK
    <3> QED BY <3>1, <3>2 DEF CacheCoherent
  <2>3. Sequential(p)'
    <3>1. user'[p] = u /\ req' = req /\ snap' = snap /\ disk' = disk
      BY DEF TypeOK
    <3>2. CASE req[p] = CloseRequest
      <4>1. snap[p][u] \in Histories
        BY <3>2 DEF ControlOK
      <4>2. snap[p][u] = Loaded(disk[u])
        BY <3>2, <4>1 DEF SequentialOK, Sequential
      <4>3. pc'[p] = "open" /\ copy'[p] = snap[p][u]
        BY <3>2 DEF TypeOK
      <4>4. \A v \in Users : snap[p][v] # None => snap[p][v] = Loaded(disk[v])
        BY <3>2 DEF SequentialOK, Sequential
      <4> QED BY <3>1, <3>2, <4>2, <4>3, <4>4 DEF Sequential
    <3>3. CASE req[p] # CloseRequest
      <4>1. pc'[p] = "load"
        BY <3>3 DEF TypeOK
      <4> QED BY <3>1, <3>3, <4>1 DEF Sequential
    <3> QED BY <3>2, <3>3
  <2>4. Elsewhere(p)
    BY DEF Elsewhere, Renamed, Removed, SequentialOK, Sequential, TypeOK, Apart
  <2> QED BY <2>1, <2>2, <2>3, <2>4, OthersSequential DEF SequentialOK
<1>4. ASSUME NEW p \in Procs, EndSweep(p)
      PROVE  SeqInv'
  <2> USE <1>4 DEF EndSweep, Nobody
  <2>1. PublishedWhole'
    BY RequestKinds DEF PublishedWhole, TypeOK, ControlOK, SequentialOK, Sequential, Readable
  <2>2. CacheCoherent'
    BY DEF Apart, CacheCoherent, TypeOK, ControlOK, SequentialOK, Sequential, Readable
  <2>3. Sequential(p)'
    BY RequestKinds DEF SequentialOK, Sequential, TypeOK, ControlOK
  <2>4. Elsewhere(p)
    BY DEF Elsewhere, Renamed, Removed, SequentialOK, Sequential, TypeOK, Apart
  <2> QED BY <2>1, <2>2, <2>3, <2>4, OthersSequential DEF SequentialOK
<1>5. ASSUME NEW p \in Procs, LoadHit(p)
      PROVE  SeqInv'
  <2> USE <1>5 DEF LoadHit, CanLoad, Operate, LeaveUnsaved, Leave
  <2>1. PublishedWhole'
    BY RequestKinds DEF PublishedWhole, TypeOK, ControlOK, SequentialOK, Sequential, Readable
  <2>2. CacheCoherent'
    BY DEF Apart, CacheCoherent, TypeOK, ControlOK, SequentialOK, Sequential, Readable
  <2>3. Sequential(p)'
    <3>1. /\ user[p] \in Users /\ req[p] # CloseRequest /\ disk' = disk
          /\ cache[user[p]] \in {Parse(disk[user[p]]), Loaded(disk[user[p]])}
      BY RequestKinds DEF ControlOK, CacheCoherent, Apart
    <3>0. Copied(cache[user[p]]) = Loaded(disk[user[p]])
      BY <3>1, LoadedOK DEF PublishedWhole
    <3>2. CASE LeaveUnsaved(p)
      <4>1. pc'[p] = "idle" \/ (pc'[p] = "next" /\ req'[p] = req[p])
        BY <3>2 DEF TypeOK
      <4> QED BY <3>1, <4>1 DEF Sequential
    <3>3. CASE ~ LeaveUnsaved(p)
      <4>1. /\ pc'[p] = "open" /\ user' = user /\ req' = req
            /\ copy'[p] \in Outcomes(req[p], Copied(cache[user[p]]))
        BY <3>3 DEF TypeOK
      <4> QED BY <3>0, <3>1, <4>1 DEF Sequential
    <3> QED BY <3>2, <3>3
  <2>4. Elsewhere(p)
    BY DEF Elsewhere, Renamed, Removed, SequentialOK, Sequential, TypeOK, Apart
  <2> QED BY <2>1, <2>2, <2>3, <2>4, OthersSequential DEF SequentialOK
<1>6. ASSUME NEW p \in Procs, LoadMiss(p)
      PROVE  SeqInv'
  <2> USE <1>6 DEF LoadMiss, CanLoad
  <2>1. PublishedWhole'
    BY RequestKinds DEF PublishedWhole, TypeOK, ControlOK, SequentialOK, Sequential, Readable
  <2>2. CacheCoherent'
    BY DEF Apart, CacheCoherent, TypeOK, ControlOK, SequentialOK, Sequential, Readable
  <2>3. Sequential(p)'
    BY RequestKinds DEF SequentialOK, Sequential, TypeOK, ControlOK
  <2>4. Elsewhere(p)
    BY DEF Elsewhere, Renamed, Removed, SequentialOK, Sequential, TypeOK, Apart
  <2> QED BY <2>1, <2>2, <2>3, <2>4, OthersSequential DEF SequentialOK
<1>7. ASSUME NEW p \in Procs, LoadFails(p)
      PROVE  SeqInv'
  <2> USE <1>7 DEF LoadFails, CanLoad, LeaveUnsaved, Leave
  <2>1. PublishedWhole'
    BY RequestKinds DEF PublishedWhole, TypeOK, ControlOK, SequentialOK, Sequential, Readable
  <2>2. CacheCoherent'
    BY DEF Apart, CacheCoherent, TypeOK, ControlOK, SequentialOK, Sequential, Readable
  <2>3. Sequential(p)'
    <3>1. /\ disk' = disk /\ snap' = snap
          /\ pc'[p] = "idle" \/ (pc'[p] = "next" /\ req'[p] = req[p])
      BY DEF TypeOK
    <3> QED BY <3>1 DEF SequentialOK, Sequential, Loaded, Parse
  <2>4. Elsewhere(p)
    BY DEF Elsewhere, Renamed, Removed, SequentialOK, Sequential, TypeOK, Apart
  <2> QED BY <2>1, <2>2, <2>3, <2>4, OthersSequential DEF SequentialOK
<1>8. ASSUME NEW p \in Procs, LoadFill(p)
      PROVE  SeqInv'
  <2> USE <1>8 DEF LoadFill, Operate, LeaveUnsaved, Leave
  <2>1. PublishedWhole'
    BY RequestKinds DEF PublishedWhole, TypeOK, ControlOK, SequentialOK, Sequential, Readable
  <2>2. CacheCoherent'
    <3>1. user[p] \in Users /\ copy[p] = Parse(disk[user[p]])
      BY DEF ControlOK, SequentialOK, Sequential
    <3>2. disk' = disk /\ cache' = [cache EXCEPT ![user[p]] = copy[p]]
      OBVIOUS
    <3>3. ASSUME NEW q \in Procs, pc[q] = "publish"
          PROVE  pc'[q] = "publish" /\ user'[q] = user[q]
      BY <3>3 DEF TypeOK
    <3> QED BY <3>1, <3>2, <3>3 DEF CacheCoherent, TypeOK, Loaded, Parse
  <2>3. Sequential(p)'
    BY RequestKinds DEF Apart, CacheCoherent, SequentialOK, Sequential, Loaded, TypeOK, ControlOK
  <2>4. Elsewhere(p)
    BY DEF Elsewhere, Renamed, Removed, SequentialOK, Sequential, TypeOK, Apart
  <2> QED BY <2>1, <2>2, <2>3, <2>4, OthersSequential DEF SequentialOK
<1>9. ASSUME NEW p \in Procs, OpenTmp(p)
      PROVE  SeqInv'
  <2> USE <1>9 DEF OpenTmp
  <2>1. PublishedWhole'
    BY RequestKinds DEF PublishedWhole, TypeOK, ControlOK, SequentialOK, Sequential, Readable
  <2>2. CacheCoherent'
    BY DEF Apart, CacheCoherent, TypeOK, ControlOK, SequentialOK, Sequential, Readable
  <2>3. Sequential(p)'
    BY RequestKinds DEF SequentialOK, Sequential, TypeOK, ControlOK
  <2>4. Elsewhere(p)
    BY DEF Elsewhere, Renamed, Removed, SequentialOK, Sequential, TypeOK, Apart
  <2> QED BY <2>1, <2>2, <2>3, <2>4, OthersSequential DEF SequentialOK
<1>10. ASSUME NEW p \in Procs, OpenFails(p)
      PROVE  SeqInv'
  <2> USE <1>10 DEF OpenFails, LeaveSaved, Leave
  <2>1. PublishedWhole'
    BY RequestKinds DEF PublishedWhole, TypeOK, ControlOK, SequentialOK, Sequential, Readable
  <2>2. CacheCoherent'
    BY DEF Apart, CacheCoherent, TypeOK, ControlOK, SequentialOK, Sequential, Readable
  <2>3. Sequential(p)'
    <3>1. /\ disk' = disk /\ snap' = snap
          /\ pc'[p] = "idle" \/ (pc'[p] = "next" /\ req'[p] = req[p])
      BY DEF TypeOK
    <3> QED BY <3>1 DEF SequentialOK, Sequential, Loaded, Parse
  <2>4. Elsewhere(p)
    BY DEF Elsewhere, Renamed, Removed, SequentialOK, Sequential, TypeOK, Apart
  <2> QED BY <2>1, <2>2, <2>3, <2>4, OthersSequential DEF SequentialOK
<1>11. ASSUME NEW p \in Procs, Write(p)
      PROVE  SeqInv'
  <2> USE <1>11 DEF Write, Put, OldContent, Overwritten
  <2>1. PublishedWhole'
    BY RequestKinds DEF PublishedWhole, TypeOK, ControlOK, SequentialOK, Sequential, Readable
  <2>2. CacheCoherent'
    BY DEF Apart, CacheCoherent, TypeOK, ControlOK, SequentialOK, Sequential, Readable
  <2>3. Sequential(p)'
    <3>1. user[p] \in Users /\ fd[p] = "tmp" /\ tmp[user[p]] = Truncated
      BY DEF ControlOK, SequentialOK, Sequential
    <3>2. /\ pc'[p] = "rename" /\ user' = user /\ req' = req /\ copy' = copy
          /\ snap' = snap /\ disk' = disk /\ tmp'[user[p]] = copy[p]
      BY <3>1 DEF TypeOK
    <3> QED BY <3>2 DEF SequentialOK, Sequential, Loaded, Parse
  <2>4. Elsewhere(p)
    BY DEF Elsewhere, Renamed, Removed, SequentialOK, Sequential, TypeOK, Apart
  <2> QED BY <2>1, <2>2, <2>3, <2>4, OthersSequential DEF SequentialOK
<1>12. ASSUME NEW p \in Procs, WriteFails(p)
      PROVE  SeqInv'
  <2> USE <1>12 DEF WriteFails, Put, OldContent, LeaveSaved, Leave
  <2>1. PublishedWhole'
    BY RequestKinds DEF PublishedWhole, TypeOK, ControlOK, SequentialOK, Sequential, Readable
  <2>2. CacheCoherent'
    BY DEF Apart, CacheCoherent, TypeOK, ControlOK, SequentialOK, Sequential, Readable
  <2>3. Sequential(p)'
    <3>1. fd[p] = "tmp"
      BY DEF SequentialOK, Sequential
    <3>2. /\ disk' = disk /\ snap' = snap
          /\ pc'[p] = "idle" \/ (pc'[p] = "next" /\ req'[p] = req[p])
      BY <3>1 DEF TypeOK
    <3> QED BY <3>2 DEF SequentialOK, Sequential, Loaded, Parse
  <2>4. Elsewhere(p)
    BY DEF Elsewhere, Renamed, Removed, SequentialOK, Sequential, TypeOK, Apart
  <2> QED BY <2>1, <2>2, <2>3, <2>4, OthersSequential DEF SequentialOK
<1>13. ASSUME NEW p \in Procs, Rename(p)
      PROVE  SeqInv'
  <2> USE <1>13 DEF Rename
  <2>1. PublishedWhole'
    BY RequestKinds DEF PublishedWhole, TypeOK, ControlOK, SequentialOK, Sequential, Readable
  <2>2. CacheCoherent'
    BY DEF Apart, CacheCoherent, TypeOK, ControlOK, SequentialOK, Sequential, Readable
  <2>3. Sequential(p)'
    <3>1. user[p] \in Users /\ copy[p] \in Histories /\ tmp[user[p]] = copy[p]
      BY DEF ControlOK, SequentialOK, Sequential
    <3>2. Loaded(disk'[user[p]]) = Copied(copy[p]) /\ disk'[user[p]] = copy[p]
      BY <3>1, LoadedOK DEF TypeOK, Readable
    <3>3. \A v \in Users : v # user[p] => disk'[v] = disk[v]
      BY <3>1 DEF TypeOK
    <3>4. /\ pc'[p] = "publish" /\ user' = user /\ req' = req /\ copy' = copy
          /\ snap' = snap
      BY DEF TypeOK
    <3>5. ASSUME req[p] = CloseRequest, NEW v \in Users, snap[p][v] # None
          PROVE  snap[p][v] = Loaded(disk'[v])
      <4>1. snap[p][v] = Loaded(disk[v]) /\ copy[p] = Loaded(disk[user[p]])
        BY <3>5 DEF SequentialOK, Sequential
      <4>2. Copied(copy[p]) = copy[p]
        BY <3>1, <4>1, LoadedOK DEF PublishedWhole
      <4> QED BY <3>2, <3>3, <4>1, <4>2
    <3> HIDE DEF Rename
    <3> QED BY <3>2, <3>4, <3>5 DEF Sequential
  <2>4. Elsewhere(p)
    <3>1. user[p] \in Users
      BY DEF ControlOK
    <3>2. ASSUME NEW q \in Procs \ {p}
          PROVE  fd'[q] = fd[q]
      <4>1. user[q] # user[p]
        BY <3>1 DEF Apart
      <4> QED BY <4>1 DEF Renamed
    <3> QED BY <3>1, <3>2 DEF Elsewhere, TypeOK
  <2> QED BY <2>1, <2>2, <2>3, <2>4, OthersSequential DEF SequentialOK
<1>14. ASSUME NEW p \in Procs, RenameFails(p)
      PROVE  SeqInv'
  <2> USE <1>14 DEF RenameFails
  <2>1. PublishedWhole'
    BY RequestKinds DEF PublishedWhole, TypeOK, ControlOK, SequentialOK, Sequential, Readable
  <2>2. CacheCoherent'
    BY DEF Apart, CacheCoherent, TypeOK, ControlOK, SequentialOK, Sequential, Readable
  <2>3. Sequential(p)'
    <3>1. /\ disk' = disk /\ snap' = snap /\ req' = req
          /\ pc'[p] = "remove"
      BY DEF TypeOK
    <3> QED BY <3>1 DEF SequentialOK, Sequential, Loaded, Parse
  <2>4. Elsewhere(p)
    BY DEF Elsewhere, Renamed, Removed, SequentialOK, Sequential, TypeOK, Apart
  <2> QED BY <2>1, <2>2, <2>3, <2>4, OthersSequential DEF SequentialOK
<1>15. ASSUME NEW p \in Procs, Remove(p)
      PROVE  SeqInv'
  <2> USE <1>15 DEF Remove, LeaveSaved, Leave
  <2>1. PublishedWhole'
    BY RequestKinds DEF PublishedWhole, TypeOK, ControlOK, SequentialOK, Sequential, Readable
  <2>2. CacheCoherent'
    BY DEF Apart, CacheCoherent, TypeOK, ControlOK, SequentialOK, Sequential, Readable
  <2>3. Sequential(p)'
    <3>1. /\ disk' = disk /\ snap' = snap
          /\ pc'[p] = "idle" \/ (pc'[p] = "next" /\ req'[p] = req[p])
      BY DEF TypeOK
    <3> QED BY <3>1 DEF SequentialOK, Sequential, Loaded, Parse
  <2>4. Elsewhere(p)
    <3>1. user[p] \in Users
      BY DEF ControlOK
    <3>2. ASSUME NEW q \in Procs \ {p}
          PROVE  fd'[q] = fd[q]
      <4>1. user[q] # user[p]
        BY <3>1 DEF Apart
      <4> QED BY <4>1 DEF Removed
    <3> QED BY <3>1, <3>2 DEF Elsewhere, TypeOK
  <2> QED BY <2>1, <2>2, <2>3, <2>4, OthersSequential DEF SequentialOK
<1>16. ASSUME NEW p \in Procs, Publish(p)
      PROVE  SeqInv'
  <2> USE <1>16 DEF Publish, LeaveSaved, Leave
  <2>1. PublishedWhole'
    BY RequestKinds DEF PublishedWhole, TypeOK, ControlOK, SequentialOK, Sequential, Readable
  <2>2. CacheCoherent'
    <3>1. user[p] \in Users /\ copy[p] \in Histories /\ copy[p] = disk[user[p]]
      BY DEF ControlOK, SequentialOK, Sequential
    <3>2. Copied(copy[p]) = Loaded(disk[user[p]])
      BY <3>1, LoadedOK DEF Readable
    <3> QED BY <3>1, <3>2 DEF Apart, CacheCoherent, TypeOK, SequentialOK, Parse, Loaded
  <2>3. Sequential(p)'
    <3>1. /\ disk' = disk /\ snap' = snap
          /\ pc'[p] = "idle" \/ (pc'[p] = "next" /\ req'[p] = req[p])
      BY DEF TypeOK
    <3> QED BY <3>1 DEF SequentialOK, Sequential, Loaded, Parse
  <2>4. Elsewhere(p)
    BY DEF Elsewhere, Renamed, Removed, SequentialOK, Sequential, TypeOK, Apart
  <2> QED BY <2>1, <2>2, <2>3, <2>4, OthersSequential DEF SequentialOK
<1>17. ASSUME Crash
      PROVE  SeqInv'
  <2> USE <1>17 DEF Crash, Nobody
  <2>1. PublishedWhole'
    BY RequestKinds DEF PublishedWhole, TypeOK, ControlOK, SequentialOK, Sequential, Readable
  <2>2. CacheCoherent'
    BY DEF Apart, CacheCoherent, TypeOK, ControlOK, SequentialOK, Sequential, Readable
  <2>3. SequentialOK'
    BY DEF SequentialOK, Sequential
  <2> QED BY <2>1, <2>2, <2>3
<1>18. ASSUME UNCHANGED vars
      PROVE  SeqInv'
  BY <1>18 DEF vars, PublishedWhole, CacheCoherent, SequentialOK, Sequential, Loaded, Parse
<1> QED
  BY <1>1, <1>2, <1>3, <1>4, <1>5, <1>6, <1>7, <1>8, <1>9, <1>10, <1>11, <1>12, <1>13, <1>14, <1>15, <1>16, <1>17, <1>18
     DEF Next, Step, Arrive, Load, Save

\* Any number of goroutines that stay apart, with failing file system calls and
\* process crashes: every user's file always parses.
THEOREM ApartKeepsFileWhole == ApartSpec => []PublishedWhole
<1>1. SeqInv => PublishedWhole
  BY DEF SeqInv
<1>2. SeqInv /\ [Next /\ Apart']_vars => SeqInv'
  BY NextSeqInv
<1> QED BY <1>1, <1>2, InitSeqInv, PTL DEF ApartSpec

\* ... and the cache agrees with the file.
THEOREM ApartKeepsCacheCoherent == ApartSpec => []CacheCoherent
<1>1. SeqInv => CacheCoherent
  BY DEF SeqInv
<1>2. SeqInv /\ [Next /\ Apart']_vars => SeqInv'
  BY NextSeqInv
<1> QED BY <1>1, <1>2, InitSeqInv, PTL DEF ApartSpec

\* ... and what is acknowledged is in the file.
THEOREM ApartStoresWhatItAcknowledges == ApartSpec => AcknowledgedIsStored
<1>1. SeqInv /\ [Next /\ Apart']_vars =>
        [\A p \in Procs :
           (pc[p] = "publish" /\ pc'[p] # "publish") => disk[user[p]] = copy[p]]_vars
  BY DEF SeqInv, SequentialOK, Sequential
<1>2. SeqInv /\ [Next /\ Apart']_vars => SeqInv'
  BY NextSeqInv
<1> QED BY <1>1, <1>2, InitSeqInv, PTL DEF ApartSpec, AcknowledgedIsStored

\* A plugin that serves one request at a time is always apart.
THEOREM OneGoroutineIsApart ==
    ASSUME \A p, q \in Procs : p = q
    PROVE  Spec => ApartSpec
<1>1. [Next]_vars => [Next /\ Apart']_vars
  BY DEF Apart
<1> QED BY <1>1, PTL DEF Spec, ApartSpec

-----------------------------------------------------------------------------
(***************************************************************************)
(* Goroutines apart implement the contract                                 *)
(***************************************************************************)

\* The abstract contract computes the same outcomes as the detailed module: both use the operations of History.
LEMMA ContractOutcomes ==
    \A r, h : Contract!Outcomes(r, h) = Outcomes(r, h)
  BY DEF Contract!Outcomes, Outcomes, Contract!CreateSession, CreateSession,
         Contract!UpdateSession, UpdateSession, Contract!DeleteSession, DeleteSession,
         Contract!SetActiveSession, SetActiveSession, Contract!Activate, Activate,
         Contract!AddMessage, AddMessage, Contract!UpdateMessage, UpdateMessage,
         Contract!UpdateMessageTokenCount, UpdateMessageTokenCount,
         Contract!DeleteExpired, DeleteExpired, Contract!DropExpired, DropExpired,
         Contract!PutMessage, PutMessage, Contract!SetTokens, SetTokens,
         Contract!SessionsIn, SessionsIn, Contract!MessagesIn, MessagesIn,
         Contract!Edited, Edited, Contract!Counted, Counted,
         Contract!EmptyHistory, EmptyHistory

\* Both copy histories in the same way.
LEMMA ContractCopied == \A h : Contract!Copied(h) = Copied(h)
  BY DEF Contract!Copied, Copied, Contract!CopiedSession, CopiedSession,
         Contract!CopiedMessage, CopiedMessage

\* The abstract contract serves the same requests as the detailed module.
LEMMA ContractRequests == Contract!Requests = Requests
  BY DEF Contract!Requests, Requests, Contract!UserRequests, UserRequests,
         Contract!ReadRequests, ReadRequests, Contract!SessionRequests,
         SessionRequests, Contract!MessageRequests, MessageRequests,
         Contract!SweepRequests, SweepRequests

\* No file on disk stands for the empty abstract histories.
LEMMA ContractInit == Init => Contract!ChatHistoryInit
<1>1. Loaded(None) = EmptyHistory
  BY DEF Loaded, Parse, Copied, CopiedSession, EmptyHistory
<1> QED
  BY <1>1 DEF Init, Nobody, Contract!ChatHistoryInit, Stored,
              Contract!EmptyHistory, EmptyHistory

\* A step that renames the temporary file is the effect of one request on the
\* stored history; every other step leaves the stored histories alone.
LEMMA ContractStep ==
    ASSUME SeqInv, [Next]_vars
    PROVE  [Contract!ChatHistoryNext]_Stored
<1> USE DEF SeqInv, Inv, files, bounds
<1>1. ASSUME NEW p \in Procs, Rename(p)
      PROVE  [Contract!ChatHistoryNext]_Stored
  <2> DEFINE u == user[p]
  <2>1. /\ u \in Users /\ copy[p] \in Histories /\ tmp[u] = copy[p]
        /\ req[p] \in Requests \cup {CloseRequest}
    BY <1>1 DEF Rename, ControlOK, SequentialOK, Sequential
  <2>2. disk' = [disk EXCEPT ![u] = copy[p]]
    BY <1>1, <2>1 DEF Rename
  <2>3. Parse(copy[p]) = copy[p]
    BY <2>1, HistoryAssumption DEF Parse
  <2>4. Stored' = [Stored EXCEPT ![u] = Copied(copy[p])] /\ Stored[u] = Loaded(disk[u])
    BY <2>1, <2>2, <2>3 DEF Stored, Loaded, TypeOK
  <2>5. CASE req[p] = CloseRequest
    <3>1. copy[p] = Stored[u]
      BY <1>1, <2>4, <2>5 DEF Rename, SequentialOK, Sequential
    <3>2. Copied(copy[p]) = copy[p]
      BY <2>1, <2>4, <3>1, LoadedOK DEF PublishedWhole
    <3>3. Stored' = Stored
      BY <2>4, <3>1, <3>2 DEF Stored
    <3> QED BY <3>3
  <2>6. CASE req[p] # CloseRequest
    <3>1. copy[p] \in Outcomes(req[p], Stored[u])
      BY <1>1, <2>4, <2>6 DEF Rename, SequentialOK, Sequential
    <3>0. req[p] \in Contract!Requests /\ copy[p] \in Contract!Outcomes(req[p], Stored[u])
      BY <2>1, <2>6, <3>1, ContractRequests, ContractOutcomes
    <3>2. Contract!Serve(u)
      BY <2>4, <3>0, ContractCopied DEF Contract!Serve
    <3>3. Contract!ChatHistoryNext
      BY <2>1, <3>2 DEF Contract!ChatHistoryNext
    <3> QED BY <3>3
  <2> QED BY <2>5, <2>6
<1>2. ASSUME NEW p \in Procs, Write(p) \/ WriteFails(p)
      PROVE  disk' = disk
  BY <1>2 DEF Write, WriteFails, Put, SequentialOK, Sequential
<1>3. ASSUME disk' = disk
      PROVE  [Contract!ChatHistoryNext]_Stored
  BY <1>3 DEF Stored
<1> QED
  BY <1>1, <1>2, <1>3
     DEF Next, Step, Arrive, Load, Save, vars, Begin, BeginSweep, NextUser,
         EndSweep, LoadHit, LoadMiss, LoadFails, LoadFill, OpenTmp, OpenFails,
         RenameFails, Remove, Publish, Crash

\* As long as its goroutines stay apart FileStorage implements ChatHistory:
\* whatever call fails and wherever the process dies, the histories in the files
\* change only by the whole effect of one request.
THEOREM ApartKeepsContract == ApartSpec => KeepsContract
<1>1. SeqInv /\ [Next /\ Apart']_vars => [Contract!ChatHistoryNext]_Stored
  BY ContractStep
<1>2. SeqInv /\ [Next /\ Apart']_vars => SeqInv'
  BY NextSeqInv
<1> QED
  BY <1>1, <1>2, InitSeqInv, ContractInit, PTL
     DEF ApartSpec, KeepsContract, Contract!ChatHistorySpec
======================================================================================================================================================
