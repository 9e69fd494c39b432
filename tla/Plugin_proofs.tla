---------------------------- MODULE Plugin_proofs ----------------------------
(***************************************************************************)
(* Theorems about Plugin and Sessions, for every value of their constants. *)
(***************************************************************************)
EXTENDS Plugin, Messages_proofs, NaturalsInduction

-----------------------------------------------------------------------------
(***************************************************************************)
(* The inductive invariant                                                 *)
(***************************************************************************)

\* The part of TypeOK about the sessions.
SessionsTypeOK ==
    /\ backend \in {"db", "memory"}
    /\ table \in [SessionIds -> Row \cup {None}]
    /\ now \in 0..MaxTime
    /\ req \in [Procs -> Requests]
    /\ left \in 0..MaxRequests
    /\ past \in [SessionIds -> Past]

\* And about the services.
LifecycleTypeOK ==
    /\ work \in [Background -> {"waiting", "working", "exited"}]
    /\ dispose \in ToSet(Phases)
    /\ overrun \subseteq Services

\* What a request carries at each place; the row of a rename was read today.
RequestOK(r) ==
    /\ r.at # "idle" => r.session \in SessionIds
    /\ r.at \in {"create", "update", "rename"} => r.row \in Row
    /\ r.at \in {"save", "summarize"} => r.messages # {}
    /\ r.at = "rename" => r.row.updated = now

RequestsOK == \A p \in Procs : RequestOK(req[p])

\* updated_at is no older than the last use of a session if the plugin's clock
\* wrote it last.
UsedOK ==
    \A s \in SessionIds :
        /\ past[s].used <= now
        /\ Exists(s) /\ past[s].by = "clock" => past[s].used <= table[s].updated

SessionsInv == SessionsTypeOK /\ RequestsOK /\ UsedOK /\ OneActive

\* A service that has been waited for has exited.
StopsOK ==
    \A x \in Services :
        Done(Await(x)) /\ x \notin overrun => work[Loop(x)] = "exited"

LifecycleInv == LifecycleTypeOK /\ StopsOK

Inv == SessionsInv /\ LifecycleInv

-----------------------------------------------------------------------------
(***************************************************************************)
(* Operators                                                               *)
(***************************************************************************)

\* The oldest of some timestamps is one of them.
LEMMA MinOK ==
    ASSUME NEW S, S \subseteq Nat, S # {}
    PROVE  Min(S) \in S
<1>1. PICK x \in S : \A y \in S : ~ (<<y, x>> \in OpToRel(<, Nat))
  BY NatLessThanWellFounded, WFMin
<1>2. ASSUME NEW y \in S PROVE x =< y
  <2>1. <<y, x>> \in Nat \X Nat /\ ~ (y < x)
    BY <1>1 DEF OpToRel
  <2> QED BY <2>1
<1> QED BY <1>2 DEF Min

\* Requests have their type.
LEMMA RequestType ==
    ASSUME NEW at \in Labels,
           NEW kind \in {None, "create", "put", "history", "rename", "edit", "compact"},
           NEW s \in SessionIds \cup {None}, NEW row \in Row \cup {None},
           NEW messages \in SUBSET Messages
    PROVE  Request(at, kind, s, row, messages) \in Requests
  BY DEF Request, Requests

LEMMA IdleOK == Idle \in Requests /\ RequestOK(Idle)
  BY DEF Idle, Requests, Labels, RequestOK

\* A request that goes on to save its messages, or ends.
LEMMA SavingOK ==
    ASSUME NEW r \in Requests, RequestOK(r), r.at # "idle"
    PROVE  Saving(r) \in Requests /\ RequestOK(Saving(r))
<1>1. CASE r.messages = {}
  BY <1>1, IdleOK DEF Saving, Idle
<1>2. CASE r.messages # {}
  <2>1. Saving(r) = Goto(r, "save")
    BY <1>2 DEF Saving
  <2>2. Goto(r, "save") \in Requests
    BY DEF Goto, Requests, Labels
  <2>3. /\ Goto(r, "save").at = "save"
        /\ Goto(r, "save").session = r.session
        /\ Goto(r, "save").messages = r.messages
    BY DEF Goto, Requests
  <2> QED BY <1>2, <2>1, <2>2, <2>3 DEF RequestOK
<1> QED BY <1>1, <1>2

LEMMA RefusedOK ==
    ASSUME NEW r \in Requests, RequestOK(r), r.at # "idle"
    PROVE  Refused(r) \in Requests /\ RequestOK(Refused(r))
  BY SavingOK, IdleOK DEF Refused, Idle

-----------------------------------------------------------------------------
(***************************************************************************)
(* The two ways a handler goes on                                          *)
(***************************************************************************)

\* Going on without a write keeps the invariant.
LEMMA ContinueOK ==
    ASSUME SessionsInv, NEW p \in Procs, NEW r \in Requests, RequestOK(r),
           Continue(p, r), left' \in 0..MaxRequests
    PROVE  SessionsInv'
<1> USE DEF SessionsInv, Continue
<1>1. SessionsTypeOK'
  BY DEF SessionsTypeOK
<1>2. /\ req'[p] = r
      /\ \A q \in Procs \ {p} : req'[q] = req[q]
  BY DEF SessionsTypeOK
<1>3. RequestsOK'
  BY <1>2 DEF RequestsOK, RequestOK
<1>4. UsedOK'
  BY <1>2 DEF UsedOK, Exists
<1>5. OneActive'
  BY DEF OneActive, Exists
<1> QED BY <1>1, <1>3, <1>4, <1>5

\* A write keeps the invariant if it tells when the session was used, and
\* activates no session without being remembered as a write of the whole row.
LEMMA WriteOK ==
    ASSUME SessionsInv, NEW p \in Procs, NEW r \in Requests, RequestOK(r),
           NEW s \in SessionIds, NEW row \in Row, NEW h \in Past,
           Write(p, s, row, h, r), left' \in 0..MaxRequests,
           h.used <= now, h.by = "clock" => h.used <= row.updated,
           row.active /\ ~h.whole => Exists(s) /\ table[s].active /\ ~past[s].whole
    PROVE  SessionsInv'
<1> USE DEF SessionsInv, Write
<1>1. SessionsTypeOK'
  BY DEF SessionsTypeOK
<1>2. /\ req'[p] = r
      /\ \A q \in Procs \ {p} : req'[q] = req[q]
      /\ table'[s] = row /\ past'[s] = h
      /\ \A t \in SessionIds \ {s} : table'[t] = table[t] /\ past'[t] = past[t]
      /\ now' = now
  BY DEF SessionsTypeOK
<1>3. RequestsOK'
  BY <1>2 DEF RequestsOK, RequestOK
<1>4. UsedOK'
  <2>1. ASSUME NEW t \in SessionIds \ {s}
        PROVE  /\ past'[t].used <= now'
               /\ Exists(t)' /\ past'[t].by = "clock" => past'[t].used <= table'[t].updated
    BY <1>2, <2>1 DEF UsedOK, Exists
  <2>2. /\ past'[s].used <= now'
        /\ Exists(s)' /\ past'[s].by = "clock" => past'[s].used <= table'[s].updated
    BY <1>2
  <2> QED BY <2>1, <2>2 DEF UsedOK
<1>5. OneActive'
  <2> SUFFICES ASSUME NEW t \in SessionIds, NEW u \in SessionIds, t # u,
                      Exists(t)', table'[t].active, Exists(u)', table'[u].active,
                      ~past'[t].whole, ~past'[u].whole
               PROVE  FALSE
    BY DEF OneActive
  <2>1. CASE t # s /\ u # s
    BY <1>2, <2>1 DEF OneActive, Exists
  <2>2. CASE t = s
    BY <1>2, <2>2 DEF OneActive, Exists
  <2>3. CASE u = s
    BY <1>2, <2>3 DEF OneActive, Exists
  <2> QED BY <2>1, <2>2, <2>3
<1> QED BY <1>1, <1>3, <1>4, <1>5

-----------------------------------------------------------------------------
(***************************************************************************)
(* The steps of Sessions                                                   *)
(***************************************************************************)

LEMMA ArrivesOK ==
    ASSUME SessionsTypeOK, NEW p \in Procs, Arrives(p)
    PROVE  left' \in 0..MaxRequests /\ req[p].at = "idle"
  BY SessionsAssumption DEF SessionsTypeOK, Arrives

\* A session the browser sends has its type.
LEMMA SentOK ==
    ASSUME SessionsTypeOK, NEW s \in SessionIds, NEW messages \in SUBSET Messages,
           NEW row \in Sent(s, messages)
    PROVE  row \in Row
<1>1. PICK fresh \in BOOLEAN :
         row = [active |-> fresh, updated |-> IF fresh THEN now ELSE 0,
                total |-> IF fresh /\ Exists(s) THEN table[s].total ELSE 0,
                messages |-> messages, covered |-> {}, summaries |-> 0]
  BY DEF Sent
<1>2. (IF fresh THEN now ELSE 0) \in 0..MaxTime
  BY SessionsAssumption DEF SessionsTypeOK
<1>3. (IF fresh /\ Exists(s) THEN table[s].total ELSE 0) \in Nat
  BY DEF SessionsTypeOK, Exists, Row
<1> QED BY <1>1, <1>2, <1>3 DEF Row

\* The first steps of the requests that bring or read a session.
LEMMA SendOK ==
    ASSUME SessionsInv, NEW p \in Procs, NEW s \in SessionIds,
           NEW messages \in SUBSET Messages,
           PostSession(p, s, messages) \/ PutSession(p, s, messages)
             \/ PostHistory(p, s, messages)
    PROVE  SessionsInv'
<1>1. Arrives(p)
  BY DEF PostSession, PutSession, PostHistory
<1>2. PICK row \in Sent(s, messages),
           at \in {"create", "update"}, kind \in {"create", "put", "history"} :
         \/ Continue(p, Request(at, kind, s, row, messages))
         \/ Continue(p, Request(at, kind, s, [row EXCEPT !.total = 0], messages))
  BY DEF PostSession, PutSession, PostHistory
<1>3. row \in Row /\ [row EXCEPT !.total = 0] \in Row
  BY SentOK DEF SessionsInv, Row
<1>4. ASSUME NEW x \in Row
      PROVE  /\ Request(at, kind, s, x, messages) \in Requests
             /\ RequestOK(Request(at, kind, s, x, messages))
  BY <1>4, RequestType DEF Labels, RequestOK, Request
<1>5. left' \in 0..MaxRequests /\ req[p].at = "idle"
  BY <1>1, ArrivesOK DEF SessionsInv
<1> QED BY <1>2, <1>3, <1>4, <1>5, ContinueOK

LEMMA RenameSessionOK ==
    ASSUME SessionsInv, NEW p \in Procs, NEW s \in SessionIds, RenameSession(p, s)
    PROVE  SessionsInv'
<1> DEFINE row == [table[s] EXCEPT !.updated = now, !.messages = @ \ table[s].covered]
           r == Request("rename", "rename", s, row, {})
<1>1. row \in Row /\ row.updated = now
  BY DEF RenameSession, SessionsInv, SessionsTypeOK, Exists, Row
<1>2. r \in Requests /\ RequestOK(r)
  BY <1>1, RequestType DEF Labels, RequestOK, Request
<1>3. left' \in 0..MaxRequests /\ req[p].at = "idle"
  BY ArrivesOK DEF SessionsInv, RenameSession
<1> QED BY <1>2, <1>3, ContinueOK DEF RenameSession

LEMMA CompactSessionOK ==
    ASSUME SessionsInv, NEW p \in Procs, NEW s \in SessionIds, CompactSession(p, s)
    PROVE  SessionsInv'
<1> DEFINE batch == table[s].messages \ table[s].covered
           r == Request("summarize", "compact", s, None, batch)
<1>1. batch \in SUBSET Messages
  BY DEF CompactSession, SessionsInv, SessionsTypeOK, Exists, Row
<1>2. batch # {}
  BY FS_EmptySet DEF CompactSession
<1>3. r \in Requests /\ RequestOK(r)
  BY <1>1, <1>2, RequestType DEF Labels, RequestOK, Request
<1>4. left' \in 0..MaxRequests /\ req[p].at = "idle"
  BY ArrivesOK DEF SessionsInv, CompactSession
<1> QED BY <1>3, <1>4, ContinueOK DEF CompactSession

LEMMA CreateSessionOK ==
    ASSUME SessionsInv, NEW p \in Procs, CreateSession(p)
    PROVE  SessionsInv'
<1> DEFINE r == req[p]
           row == IF backend = "db" THEN [r.row EXCEPT !.messages = {}] ELSE r.row
           h == [used |-> now, by |-> "sent", whole |-> TRUE, overwritten |-> row.total # 0]
<1>1. r \in Requests /\ RequestOK(r) /\ r.at = "create" /\ left' \in 0..MaxRequests
  BY DEF SessionsInv, SessionsTypeOK, RequestsOK, CreateSession
<1>2. r.session \in SessionIds /\ row \in Row
  BY <1>1 DEF RequestOK, Row
<1>5. now \in 0..MaxTime /\ now <= now
  BY SessionsAssumption DEF SessionsInv, SessionsTypeOK
<1>6. h \in Past /\ h.used <= now /\ h.whole /\ h.by = "sent"
  BY <1>5 DEF Past
<1>3. CASE Exists(r.session)
  BY <1>1, <1>3, RefusedOK, ContinueOK DEF CreateSession
<1>4. CASE ~Exists(r.session)
  <2>1. Saving(r) \in Requests /\ RequestOK(Saving(r))
    BY <1>1, SavingOK
  <2>2. Write(p, r.session, row, h, Saving(r))
    BY <1>4 DEF CreateSession
  <2> HIDE DEF r, row, h
  <2> QED BY <1>1, <1>2, <1>6, <2>1, <2>2, WriteOK DEF r
<1> QED BY <1>3, <1>4

\* Writing a row whole, by a browser's update or by a rename.
LEMMA OverwriteOK ==
    ASSUME SessionsInv, NEW p \in Procs, NEW s \in SessionIds, Exists(s),
           NEW row \in Row, NEW by \in {"clock", "sent"},
           by = "clock" => row.updated = now,
           NEW r \in Requests, RequestOK(r),
           Write(p, s, Overwritten(s, row), WrittenWhole(s, row, by), r),
           left' \in 0..MaxRequests
    PROVE  SessionsInv'
<1>1. Overwritten(s, row) \in Row /\ Overwritten(s, row).updated = row.updated
  BY DEF Overwritten, SessionsInv, SessionsTypeOK, Exists, Row
<1>2. past[s].overwritten \in BOOLEAN /\ now \in 0..MaxTime
  BY DEF SessionsInv, SessionsTypeOK, Past
<1>3. /\ WrittenWhole(s, row, by) \in Past
      /\ WrittenWhole(s, row, by).used = now
      /\ WrittenWhole(s, row, by).by = by
      /\ WrittenWhole(s, row, by).whole
  BY <1>2 DEF WrittenWhole, Past
<1>4. now <= now
  BY <1>2, SessionsAssumption
<1> QED BY <1>1, <1>3, <1>4, WriteOK

LEMMA UpdateSessionOK ==
    ASSUME SessionsInv, NEW p \in Procs, UpdateSession(p)
    PROVE  SessionsInv'
<1>1. /\ req[p] \in Requests /\ RequestOK(req[p]) /\ req[p].at = "update"
      /\ left' \in 0..MaxRequests
  BY DEF SessionsInv, SessionsTypeOK, RequestsOK, UpdateSession
<1>2. req[p].session \in SessionIds /\ req[p].row \in Row
  BY <1>1 DEF RequestOK
<1>3. CASE ~Exists(req[p].session)
  BY <1>1, <1>3, RefusedOK, ContinueOK DEF UpdateSession
<1>4. CASE Exists(req[p].session)
  BY <1>1, <1>2, <1>4, SavingOK, OverwriteOK DEF UpdateSession
<1> QED BY <1>3, <1>4

LEMMA WriteBackOK ==
    ASSUME SessionsInv, NEW p \in Procs, WriteBack(p)
    PROVE  SessionsInv'
<1>1. /\ req[p] \in Requests /\ RequestOK(req[p]) /\ req[p].at = "rename"
      /\ left' \in 0..MaxRequests
  BY DEF SessionsInv, SessionsTypeOK, RequestsOK, WriteBack
<1>2. /\ req[p].session \in SessionIds /\ req[p].row \in Row
      /\ req[p].row.updated = now
  BY <1>1 DEF RequestOK
<1>3. CASE ~Exists(req[p].session)
  BY <1>1, <1>3, IdleOK, ContinueOK DEF WriteBack
<1>4. CASE Exists(req[p].session)
  BY <1>1, <1>2, <1>4, IdleOK, OverwriteOK DEF WriteBack
<1> QED BY <1>3, <1>4

\* A row that takes in a message, or knows it already.
LEMMA InsertOK ==
    ASSUME SessionsInv, NEW p \in Procs, NEW m \in Messages,
           NEW r \in Requests, RequestOK(r),
           Insert(p, m, r), left' \in 0..MaxRequests
    PROVE  SessionsInv'
<1> DEFINE s == Owner[m]
           h == IF m \in table[s].messages THEN past[s]
                ELSE [past[s] EXCEPT !.used = now, !.by = "sent"]
<1>1. s \in SessionIds /\ Stamp[m] \in 0..MaxTime /\ Size[m] \in Nat
  BY SessionsAssumption
<1>2. CASE ~Exists(s)
  BY <1>2, ContinueOK DEF Insert
<1>3. CASE Exists(s)
  <2>1. table[s] \in Row /\ past[s] \in Past /\ now \in 0..MaxTime
    BY <1>1, <1>3 DEF SessionsInv, SessionsTypeOK, Exists
  <2>2. Inserted(s, m) \in Row /\ Inserted(s, m).active = table[s].active
    <3>1. CASE m \in table[s].messages
      BY <2>1, <3>1 DEF Inserted
    <3>2. CASE m \notin table[s].messages
      <4>1. /\ table[s].messages \cup {m} \in SUBSET Messages
            /\ table[s].total + Size[m] \in Nat
        BY <1>1, <2>1 DEF Row
      <4>2. Inserted(s, m) = [table[s] EXCEPT !.messages = table[s].messages \cup {m},
                                 !.updated = Stamp[m], !.total = table[s].total + Size[m]]
        BY <3>2, <2>1 DEF Inserted, Row
      <4> HIDE DEF s
      <4> QED BY <1>1, <2>1, <4>1, <4>2 DEF Row
    <3> QED BY <3>1, <3>2
  <2>3. h \in Past /\ h.whole = past[s].whole
    BY <2>1 DEF Past
  <2>4. h.used <= now
    <3>1. CASE m \in table[s].messages
      BY <1>1, <3>1 DEF SessionsInv, UsedOK
    <3>2. CASE m \notin table[s].messages
      BY <2>1, <3>2, SessionsAssumption DEF Past
    <3> QED BY <3>1, <3>2
  <2>5. h.by = "clock" => h.used <= Inserted(s, m).updated
    <3>1. CASE m \in table[s].messages
      BY <1>1, <1>3, <3>1 DEF SessionsInv, UsedOK, Inserted
    <3>2. CASE m \notin table[s].messages
      BY <2>1, <3>2 DEF Past
    <3> QED BY <3>1, <3>2
  <2>6. Write(p, s, Inserted(s, m), h, r)
    BY <1>3 DEF Insert
  <2> HIDE DEF s, h
  <2> QED BY <1>1, <1>3, <2>2, <2>3, <2>4, <2>5, <2>6, WriteOK
<1> QED BY <1>2, <1>3

LEMMA AddMessageOK ==
    ASSUME SessionsInv, NEW p \in Procs, NEW m \in Messages, AddMessage(p, m)
    PROVE  SessionsInv'
<1>1. left' \in 0..MaxRequests /\ req[p].at = "idle"
  BY ArrivesOK DEF SessionsInv, AddMessage
<1> QED BY <1>1, IdleOK, InsertOK DEF AddMessage

\* A request that has a message behind it.
LEMMA ChosenOK ==
    ASSUME NEW r \in Requests, RequestOK(r), r.at = "save"
    PROVE  /\ Chosen(r) \in Messages
           /\ ChosenDone(r) \in Requests /\ RequestOK(ChosenDone(r))
<1> DEFINE rest == [r EXCEPT !.messages = @ \ {Chosen(r)}]
<1>1. Chosen(r) \in r.messages
  BY DEF RequestOK, Chosen
<1>2. rest \in Requests /\ rest.at = "save" /\ rest.session = r.session
  BY DEF Requests
<1>3. ChosenDone(r) = Saving(rest)
  BY DEF ChosenDone
<1> HIDE DEF rest
<1>4. Saving(rest) \in Requests /\ RequestOK(Saving(rest))
  <2>1. CASE rest.messages = {}
    BY <2>1, IdleOK DEF Saving
  <2>2. CASE rest.messages # {}
    BY <1>2, <2>2, SavingOK DEF RequestOK
  <2> QED BY <2>1, <2>2
<1> QED BY <1>1, <1>3, <1>4 DEF Requests

LEMMA SaveMessageOK ==
    ASSUME SessionsInv, NEW p \in Procs, SaveMessage(p)
    PROVE  SessionsInv'
<1>1. req[p] \in Requests /\ RequestOK(req[p]) /\ req[p].at = "save"
        /\ left' \in 0..MaxRequests
  BY DEF SessionsInv, SessionsTypeOK, RequestsOK, SaveMessage
<1>2. Insert(p, Chosen(req[p]), ChosenDone(req[p]))
  BY DEF SaveMessage
<1> QED BY <1>1, <1>2, ChosenOK, InsertOK

LEMMA TouchedOK ==
    ASSUME SessionsInv, NEW s \in SessionIds, Exists(s)
    PROVE  /\ Touched(s) \in Row /\ table[s] \in Row /\ now \in 0..MaxTime
           /\ Touched(s).updated = now /\ Touched(s).active = table[s].active
           /\ past[s] \in Past /\ past[s].used <= now /\ now <= now
<1>1. table[s] \in Row /\ now \in 0..MaxTime /\ past[s] \in Past
  BY DEF SessionsInv, SessionsTypeOK, Exists
<1>2. past[s].used <= now
  BY DEF SessionsInv, UsedOK
<1>3. now <= now
  BY <1>1, SessionsAssumption
<1> QED BY <1>1, <1>2, <1>3 DEF Touched, Row

LEMMA UpdateMessageOK ==
    ASSUME SessionsInv, NEW p \in Procs, NEW s \in SessionIds, NEW m \in Messages,
           UpdateMessage(p, s, m)
    PROVE  SessionsInv'
<1> DEFINE h(by) == [past[s] EXCEPT !.used = now, !.by = by]
           r == Request("touch", "edit", s, None, {})
<1>1. left' \in 0..MaxRequests /\ Exists(s)
  BY ArrivesOK DEF SessionsInv, UpdateMessage
<1>2. ASSUME NEW by \in {"clock", "edit"}
      PROVE  h(by) \in Past /\ h(by).used = now /\ h(by).by = by /\ h(by).whole = past[s].whole
  BY <1>1, TouchedOK DEF Past
<1>3. r \in Requests /\ RequestOK(r)
  BY RequestType DEF Labels, RequestOK, Request
<1>4. CASE backend = "db"
  <2>1. Write(p, s, table[s], h("edit"), r)
    BY <1>4 DEF UpdateMessage
  <2> HIDE DEF h, r
  <2> QED BY <1>1, <1>2, <1>3, <2>1, TouchedOK, WriteOK
<1>5. CASE backend # "db"
  <2>1. Write(p, s, Touched(s), h("clock"), Idle)
    BY <1>5 DEF UpdateMessage
  <2> HIDE DEF h, r
  <2> QED BY <1>1, <1>2, <2>1, IdleOK, TouchedOK, WriteOK
<1> QED BY <1>4, <1>5

LEMMA TouchOK ==
    ASSUME SessionsInv, NEW p \in Procs, Touch(p)
    PROVE  SessionsInv'
<1> DEFINE s == req[p].session
           h == [past[s] EXCEPT !.by = "clock"]
<1>1. s \in SessionIds /\ left' \in 0..MaxRequests
  BY DEF SessionsInv, SessionsTypeOK, RequestsOK, RequestOK, Touch
<1>2. CASE ~Exists(s)
  BY <1>1, <1>2, IdleOK, ContinueOK DEF Touch
<1>3. CASE Exists(s)
  <2>1. h \in Past /\ h.used = past[s].used /\ h.whole = past[s].whole
    BY <1>1, <1>3, TouchedOK DEF Past
  <2>2. Write(p, s, Touched(s), h, Idle)
    BY <1>3 DEF Touch
  <2>3. req[p].session = s
    OBVIOUS
  <2> HIDE DEF s, h
  <2> QED BY <1>1, <1>3, <2>1, <2>2, <2>3, IdleOK, TouchedOK, WriteOK
<1> QED BY <1>2, <1>3

LEMMA SaveSummaryOK ==
    ASSUME SessionsInv, NEW p \in Procs, SaveSummary(p)
    PROVE  SessionsInv'
<1> DEFINE s == req[p].session
           oldest == Min({Stamp[m] : m \in req[p].messages})
           row == [table[s] EXCEPT !.updated = oldest, !.total = @ + SummaryTokens,
                                   !.summaries = @ + 1,
                                   !.covered = @ \cup req[p].messages]
           h == [past[s] EXCEPT !.by = "summary"]
<1>1. /\ req[p] \in Requests /\ RequestOK(req[p]) /\ req[p].at = "summarize"
      /\ left' \in 0..MaxRequests
  BY DEF SessionsInv, SessionsTypeOK, RequestsOK, SaveSummary
<1>2. s \in SessionIds /\ req[p].messages # {} /\ req[p].messages \subseteq Messages
  BY <1>1 DEF RequestOK, Requests
<1>3. oldest \in 0..MaxTime
  <2>1. {Stamp[m] : m \in req[p].messages} \subseteq 0..MaxTime
    BY <1>2, SessionsAssumption
  <2>2. {Stamp[m] : m \in req[p].messages} # {}
    <3>1. PICK x \in req[p].messages : TRUE
      BY <1>2
    <3>2. Stamp[x] \in {Stamp[m] : m \in req[p].messages}
      BY <3>1
    <3> HIDE DEF s, oldest, row, h
    <3> QED BY <3>2, Zenon
  <2>3. {Stamp[m] : m \in req[p].messages} \subseteq Nat
    BY <2>1, SessionsAssumption
  <2>4. oldest \in {Stamp[m] : m \in req[p].messages}
    BY <2>2, <2>3, MinOK, Zenon
  <2> QED BY <2>1, <2>4
<1>4. CASE ~Exists(s)
  BY <1>1, <1>4, IdleOK, ContinueOK DEF SaveSummary
<1>5. CASE Exists(s)
  <2>1. table[s] \in Row /\ past[s] \in Past /\ past[s].used <= now
    BY <1>2, <1>5, TouchedOK
  <2>2. Write(p, s, row, h, Idle)
    BY <1>5 DEF SaveSummary
  <2> HIDE DEF oldest
  <2>3. row \in Row /\ row.active = table[s].active
    <3>1. /\ table[s].total + SummaryTokens \in Nat
          /\ table[s].summaries + 1 \in Nat
          /\ table[s].covered \cup req[p].messages \in SUBSET Messages
      BY <1>2, <2>1, SessionsAssumption DEF Row
    <3>2. row = [table[s] EXCEPT !.updated = oldest,
                    !.total = table[s].total + SummaryTokens,
                    !.summaries = table[s].summaries + 1,
                    !.covered = table[s].covered \cup req[p].messages]
      BY <2>1 DEF Row
    <3> HIDE DEF s, row
    <3> QED BY <1>3, <2>1, <3>1, <3>2 DEF Row
  <2>4. h \in Past /\ h.used = past[s].used /\ h.by = "summary" /\ h.whole = past[s].whole
    BY <2>1 DEF Past
  <2> HIDE DEF s, row, h
  <2> QED BY <1>1, <1>2, <1>5, <2>1, <2>2, <2>3, <2>4, IdleOK, WriteOK
<1> QED BY <1>4, <1>5

\* A call of the database fails.
LEMMA FailedOK ==
    ASSUME NEW r \in Requests, RequestOK(r), r.at # "idle"
    PROVE  Failed(r) \in Requests /\ RequestOK(Failed(r))
  BY RefusedOK, ChosenOK, IdleOK DEF Failed

LEMMA CallFailsOK ==
    ASSUME SessionsInv, NEW p \in Procs, CallFails(p)
    PROVE  SessionsInv'
<1>1. /\ req[p] \in Requests /\ RequestOK(req[p]) /\ req[p].at # "idle"
      /\ left' \in 0..MaxRequests /\ Continue(p, Failed(req[p]))
  BY DEF SessionsInv, SessionsTypeOK, RequestsOK, CallFails
<1> QED BY <1>1, FailedOK, ContinueOK

LEMMA SetActiveSessionOK ==
    ASSUME SessionsInv, NEW p \in Procs, NEW s \in SessionIds, SetActiveSession(p, s)
    PROVE  SessionsInv'
<1>1. left' \in 0..MaxRequests /\ UNCHANGED <<backend, now, req>>
  BY ArrivesOK DEF SessionsInv, SetActiveSession
<1>2. CASE UNCHANGED <<table, past>>
  BY <1>1, <1>2 DEF SessionsInv, SessionsTypeOK, RequestsOK, RequestOK, UsedOK,
                    OneActive, Exists
<1>3. CASE /\ table' = [t \in SessionIds |->
                          IF Exists(t) THEN [table[t] EXCEPT !.active = (t = s)] ELSE None]
           /\ past' = [t \in SessionIds |-> [past[t] EXCEPT !.whole = FALSE]]
  <2>1. ASSUME NEW t \in SessionIds
        PROVE  /\ past[t] \in Past /\ past'[t] \in Past
               /\ past'[t].used = past[t].used /\ past'[t].by = past[t].by
    BY <1>3 DEF SessionsInv, SessionsTypeOK, Past
  <2>2. ASSUME NEW t \in SessionIds, Exists(t)
        PROVE  /\ table'[t] \in Row
               /\ table'[t].updated = table[t].updated
               /\ table'[t].active = (t = s)
    <3>1. table[t] \in Row
      BY <2>2 DEF SessionsInv, SessionsTypeOK, Exists
    <3>2. table'[t] = [table[t] EXCEPT !.active = (t = s)]
      BY <1>3, <2>2
    <3>3. (t = s) \in BOOLEAN
      OBVIOUS
    <3> QED BY <3>1, <3>2, <3>3 DEF Row
  <2>3. ASSUME NEW t \in SessionIds, ~Exists(t)
        PROVE  table'[t] = None
    BY <1>3, <2>3
  <2>4. SessionsTypeOK'
    <3>1. \A t \in SessionIds : table'[t] \in Row \cup {None}
      BY <2>2, <2>3
    <3>2. table' \in [SessionIds -> Row \cup {None}]
      BY <1>3, <3>1
    <3>3. past' \in [SessionIds -> Past]
      BY <1>3, <2>1
    <3> QED BY <1>1, <3>2, <3>3 DEF SessionsInv, SessionsTypeOK
  <2>5. RequestsOK'
    BY <1>1 DEF SessionsInv, RequestsOK, RequestOK
  <2>6. UsedOK'
    BY <1>1, <2>1, <2>2, <2>3 DEF SessionsInv, UsedOK, Exists
  <2>7. OneActive'
    BY <2>2, <2>3 DEF OneActive, Exists
  <2> QED BY <2>4, <2>5, <2>6, <2>7 DEF SessionsInv
<1> QED BY <1>2, <1>3 DEF SetActiveSession

\* Sessions disappear.
LEMMA DropOK ==
    ASSUME SessionsInv, NEW gone, Drop(gone), UNCHANGED <<backend, now, req>>,
           left' \in 0..MaxRequests
    PROVE  SessionsInv'
<1>1. Forgotten \in Past /\ Forgotten.used = 0 /\ Forgotten.by = "sent"
  BY SessionsAssumption DEF Forgotten, Past
<1>2. 0 <= now
  BY SessionsAssumption DEF SessionsInv, SessionsTypeOK
<1>3. \A s \in SessionIds : \/ table'[s] = None /\ past'[s] = Forgotten
                            \/ table'[s] = table[s] /\ past'[s] = past[s]
  BY DEF Drop
<1>4. SessionsTypeOK'
  <2>1. table' \in [SessionIds -> Row \cup {None}]
    BY DEF SessionsInv, SessionsTypeOK, Drop
  <2>2. past' \in [SessionIds -> Past]
    BY <1>1 DEF SessionsInv, SessionsTypeOK, Drop
  <2> QED BY <2>1, <2>2 DEF SessionsInv, SessionsTypeOK
<1>5. RequestsOK'
  BY DEF SessionsInv, RequestsOK, RequestOK
<1>6. UsedOK'
  BY <1>1, <1>2, <1>3 DEF SessionsInv, UsedOK, Exists
<1>7. OneActive'
  BY <1>3 DEF SessionsInv, OneActive, Exists
<1> QED BY <1>4, <1>5, <1>6, <1>7 DEF SessionsInv

LEMMA TickOK ==
    ASSUME SessionsInv, Tick
    PROVE  SessionsInv'
<1>1. now \in 0..MaxTime /\ now' \in 0..MaxTime /\ now <= now'
  BY SessionsAssumption DEF SessionsInv, SessionsTypeOK, Tick
<1>2. SessionsTypeOK'
  BY <1>1 DEF SessionsInv, SessionsTypeOK, Tick
<1>3. RequestsOK'
  BY DEF RequestsOK, RequestOK, Tick
<1>4. UsedOK'
  <2> SUFFICES ASSUME NEW s \in SessionIds
               PROVE  /\ past'[s].used <= now'
                      /\ Exists(s)' /\ past'[s].by = "clock" =>
                            past'[s].used <= table'[s].updated
    BY DEF UsedOK
  <2>1. past[s].used \in 0..MaxTime /\ past[s].used <= now
    BY DEF SessionsInv, SessionsTypeOK, UsedOK, Past
  <2> QED BY <1>1, <2>1, SessionsAssumption
          DEF SessionsInv, UsedOK, Tick, Exists
<1>5. OneActive'
  BY DEF SessionsInv, OneActive, Exists, Tick
<1> QED BY <1>2, <1>3, <1>4, <1>5 DEF SessionsInv

\* Every step of a handler keeps the invariant.
LEMMA HandlerOK ==
    ASSUME SessionsInv, NEW p \in Procs, Begin(p) \/ Proceed(p)
    PROVE  SessionsInv'
<1>1. CASE Begin(p)
  <2>1. ASSUME NEW s \in SessionIds, NEW messages \in Payloads,
               PostSession(p, s, messages) \/ PutSession(p, s, messages)
                 \/ PostHistory(p, s, messages)
        PROVE  SessionsInv'
    BY <2>1, SendOK, StoredAssumption
  <2>2. ASSUME NEW s \in SessionIds, DeleteSession(p, s)
        PROVE  SessionsInv'
    BY <2>2, DropOK, ArrivesOK DEF SessionsInv, DeleteSession
  <2>3. ASSUME ClearAll(p)
        PROVE  SessionsInv'
    BY <2>3, DropOK, ArrivesOK DEF SessionsInv, ClearAll
  <2>4. ASSUME NEW m \in Messages, AddMessage(p, m) \/ UpdateMessage(p, Owner[m], m)
        PROVE  SessionsInv'
    <3>1. Owner[m] \in SessionIds
      BY SessionsAssumption
    <3> QED BY <2>4, <3>1, AddMessageOK, UpdateMessageOK
  <2> QED BY <1>1, <2>1, <2>2, <2>3, <2>4, RenameSessionOK, CompactSessionOK,
             SetActiveSessionOK
          DEF Begin
<1>2. CASE Proceed(p)
  BY <1>2, CreateSessionOK, UpdateSessionOK, WriteBackOK, SaveMessageOK, TouchOK,
     SaveSummaryOK, CallFailsOK
     DEF Proceed
<1> QED BY <1>1, <1>2

-----------------------------------------------------------------------------
(***************************************************************************)
(* The steps of Plugin                                                     *)
(***************************************************************************)

\* The phases come in their order.
LEMMA PhasesOK ==
    /\ ToSet(Phases) = {"open", "await cleanup", "await preloader", "close storage",
                        "closed"}
    /\ Order("open") = 1 /\ Order("await cleanup") = 2 /\ Order("await preloader") = 3
    /\ Order("close storage") = 4 /\ Order("closed") = 5
    /\ Phases[2] = "await cleanup" /\ Phases[3] = "await preloader"
    /\ Phases[4] = "close storage" /\ Phases[5] = "closed"
<1>1. DOMAIN Phases = 1..5 /\ 1..5 = {1, 2, 3, 4, 5}
  BY DEF Phases
<1>2. /\ Phases[1] = "open" /\ Phases[2] = "await cleanup"
      /\ Phases[3] = "await preloader" /\ Phases[4] = "close storage"
      /\ Phases[5] = "closed"
  BY DEF Phases
<1>3. ToSet(Phases) = {Phases[i] : i \in {1, 2, 3, 4, 5}}
  BY <1>1 DEF ToSet
<1>4. ASSUME NEW phase, NEW i \in DOMAIN Phases,
             \A j \in DOMAIN Phases : Phases[j] = phase <=> j = i
      PROVE  Order(phase) = i
  BY <1>4 DEF Order
<1>5. Order("open") = 1
  <2>1. 1 \in DOMAIN Phases /\ \A j \in DOMAIN Phases : Phases[j] = "open" <=> j = 1
    BY <1>1, <1>2
  <2> QED BY <1>4, <2>1, Zenon
<1>6. Order("await cleanup") = 2
  <2>1. 2 \in DOMAIN Phases /\ \A j \in DOMAIN Phases : Phases[j] = "await cleanup" <=> j = 2
    BY <1>1, <1>2
  <2> QED BY <1>4, <2>1, Zenon
<1>7. Order("await preloader") = 3
  <2>1. 3 \in DOMAIN Phases /\ \A j \in DOMAIN Phases : Phases[j] = "await preloader" <=> j = 3
    BY <1>1, <1>2
  <2> QED BY <1>4, <2>1, Zenon
<1>8. Order("close storage") = 4
  <2>1. 4 \in DOMAIN Phases /\ \A j \in DOMAIN Phases : Phases[j] = "close storage" <=> j = 4
    BY <1>1, <1>2
  <2> QED BY <1>4, <2>1, Zenon
<1>9. Order("closed") = 5
  <2>1. 5 \in DOMAIN Phases /\ \A j \in DOMAIN Phases : Phases[j] = "closed" <=> j = 5
    BY <1>1, <1>2
  <2> QED BY <1>4, <2>1, Zenon
<1> QED BY <1>2, <1>3, <1>5, <1>6, <1>7, <1>8, <1>9

\* Dispose is at one of the five.
LEMMA DisposeOK ==
    ASSUME LifecycleTypeOK
    PROVE  \/ dispose = "open" /\ Order(dispose) = 1
           \/ dispose = "await cleanup" /\ Order(dispose) = 2
           \/ dispose = "await preloader" /\ Order(dispose) = 3
           \/ dispose = "close storage" /\ Order(dispose) = 4
           \/ dispose = "closed" /\ Order(dispose) = 5
<1>1. dispose \in {"open", "await cleanup", "await preloader", "close storage", "closed"}
  BY PhasesOK DEF LifecycleTypeOK
<1>2. CASE dispose = "open"
  BY <1>2, PhasesOK
<1>3. CASE dispose = "await cleanup"
  BY <1>3, PhasesOK
<1>4. CASE dispose = "await preloader"
  BY <1>4, PhasesOK
<1>5. CASE dispose = "close storage"
  BY <1>5, PhasesOK
<1>6. CASE dispose = "closed"
  BY <1>6, PhasesOK
<1> QED BY <1>1, <1>2, <1>3, <1>4, <1>5, <1>6

\* So its number is one of the five, and tells the phase.
LEMMA OrderOK ==
    ASSUME LifecycleTypeOK
    PROVE  /\ Order(dispose) \in {1, 2, 3, 4, 5}
           /\ Order(dispose) = 2 => dispose = "await cleanup"
           /\ Order(dispose) = 3 => dispose = "await preloader"
           /\ Order(dispose) = 5 => dispose = "closed"
<1> DEFINE n == Order(dispose)
<1>1. \/ n = 1
      \/ n = 2 /\ dispose = "await cleanup"
      \/ n = 3 /\ dispose = "await preloader"
      \/ n = 4
      \/ n = 5 /\ dispose = "closed"
  BY DisposeOK, Zenon
<1> HIDE DEF n
<1>2. n \in {1, 2, 3, 4, 5}
  BY <1>1
<1>3. 1 # 2 /\ 1 # 3 /\ 1 # 5 /\ 2 # 3 /\ 2 # 5 /\ 3 # 5 /\ 4 # 2 /\ 4 # 3 /\ 4 # 5
  OBVIOUS
<1>4. /\ n = 2 => dispose = "await cleanup"
      /\ n = 3 => dispose = "await preloader"
      /\ n = 5 => dispose = "closed"
  BY <1>1, <1>3, Zenon
<1> QED BY <1>2, <1>4, Zenon DEF n

\* The storage is closed in the last phase.
LEMMA ServesOK == StorageServes <=> ~(Order(dispose) > 4) \/ backend = "memory"
<1>1. Order("close storage") = 4
  BY PhasesOK
<1>2. Done("close storage") <=> Order(dispose) > 4
  BY <1>1, Zenon DEF Done
<1> QED BY <1>2, Zenon DEF StorageServes

\* The next phase has the next number.
LEMMA NextPhaseOK ==
    ASSUME LifecycleTypeOK, dispose # "closed", GoOn
    PROVE  dispose' \in ToSet(Phases) /\ Order(dispose') = Order(dispose) + 1
<1>1. dispose' = Phases[Order(dispose) + 1]
  BY DEF GoOn
<1>2. Order(dispose) \in {1, 2, 3, 4}
  BY OrderOK
<1>3. ASSUME NEW i \in {1, 2, 3, 4}
      PROVE  Order(Phases[i + 1]) = i + 1 /\ Phases[i + 1] \in ToSet(Phases)
  <2>1. i + 1 \in {2, 3, 4, 5}
    OBVIOUS
  <2>2. ASSUME NEW j \in {2, 3, 4, 5}
        PROVE  Order(Phases[j]) = j /\ Phases[j] \in ToSet(Phases)
    <3>1. CASE j = 2
      BY <3>1, PhasesOK, Zenon
    <3>2. CASE j = 3
      BY <3>2, PhasesOK, Zenon
    <3>3. CASE j = 4
      BY <3>3, PhasesOK, Zenon
    <3>4. CASE j = 5
      BY <3>4, PhasesOK, Zenon
    <3> QED BY <3>1, <3>2, <3>3, <3>4
  <2> QED BY <2>1, <2>2, Zenon
<1> QED BY <1>1, <1>2, <1>3, Zenon

\* What Dispose waits for, and the place of each in the order.
LEMMA AwaitOK ==
    ASSUME NEW x \in Services
    PROVE  /\ \/ x = "cleanup" /\ Await(x) = "await cleanup" /\ Order(Await(x)) = 2
              \/ x = "preloader" /\ Await(x) = "await preloader" /\ Order(Await(x)) = 3
           /\ Loop(x) \in Background
<1>1. Loop(x) \in Background
  BY DEF Background
<1>2. CASE x = "cleanup"
  <2>1. Await(x) = "await cleanup"
    BY <1>2 DEF Await
  <2> QED BY <1>1, <1>2, <2>1, PhasesOK
<1>3. CASE x = "preloader"
  <2>1. Await(x) = "await preloader"
    BY <1>3 DEF Await
  <2> QED BY <1>1, <1>3, <2>1, PhasesOK
<1> QED BY <1>2, <1>3 DEF Services

\* The step leaves the services alone.
LEMMA LifecycleStays ==
    ASSUME LifecycleInv, UNCHANGED lifecycle
    PROVE  LifecycleInv'
  BY DEF LifecycleInv, LifecycleTypeOK, StopsOK, lifecycle, Done

\* The step leaves the sessions alone.
LEMMA SessionsStay ==
    ASSUME SessionsInv, UNCHANGED vars
    PROVE  SessionsInv'
<1>1. RequestsOK'
  BY DEF SessionsInv, RequestsOK, RequestOK, vars
<1>2. SessionsTypeOK' /\ UsedOK' /\ OneActive'
  BY DEF SessionsInv, SessionsTypeOK, UsedOK, OneActive, Exists, vars
<1> QED BY <1>1, <1>2 DEF SessionsInv

\* A goroutine moves that has not exited.
LEMMA WorkOK ==
    ASSUME LifecycleInv, NEW g \in Background, work[g] # "exited",
           NEW label \in {"waiting", "working", "exited"}, GoesTo(g, label),
           UNCHANGED <<dispose, overrun>>
    PROVE  LifecycleInv'
<1>1. LifecycleTypeOK'
  BY DEF LifecycleInv, LifecycleTypeOK, GoesTo
<1>2. ASSUME NEW h \in Background, work[h] = "exited" PROVE work'[h] = "exited"
  BY <1>2 DEF LifecycleInv, LifecycleTypeOK, GoesTo
<1>3. \A x \in Services : Loop(x) \in Background
  BY AwaitOK
<1>4. StopsOK'
  BY <1>2, <1>3 DEF LifecycleInv, StopsOK, Done
<1> QED BY <1>1, <1>4 DEF LifecycleInv

\* Dispose goes on, if the service it awaits has exited or is left behind.
LEMMA GoOnOK ==
    ASSUME LifecycleInv, dispose # "closed", GoOn, UNCHANGED <<backend, work>>,
           overrun \subseteq overrun', overrun' \subseteq Services,
           \A x \in Services : dispose = Await(x) =>
              work[Loop(x)] = "exited" \/ x \in overrun'
    PROVE  LifecycleInv'
<1>2. dispose' \in ToSet(Phases) /\ Order(dispose') = Order(dispose) + 1
  BY NextPhaseOK DEF LifecycleInv
<1>3. ASSUME NEW x \in Services, Done(Await(x))', x \notin overrun'
      PROVE  work'[Loop(x)] = "exited"
  <2>1. Order(dispose) + 1 > Order(Await(x))
    BY <1>2, <1>3 DEF Done
  <2>2. CASE dispose = Await(x)
    BY <1>3, <2>2
  <2>3. CASE dispose # Await(x)
    <3>1. Order(dispose) # Order(Await(x))
      <4>1. CASE Await(x) = "await cleanup" /\ Order(Await(x)) = 2
        BY <2>3, <4>1, OrderOK, Zenon DEF LifecycleInv
      <4>2. CASE Await(x) = "await preloader" /\ Order(Await(x)) = 3
        BY <2>3, <4>2, OrderOK, Zenon DEF LifecycleInv
      <4> QED BY <4>1, <4>2, AwaitOK, Zenon
    <3>2. Order(Await(x)) \in {2, 3} /\ Order(dispose) \in {1, 2, 3, 4, 5}
      BY AwaitOK, OrderOK DEF LifecycleInv
    <3>3. Done(Await(x))
      BY <2>1, <3>1, <3>2 DEF Done
    <3> QED BY <1>3, <3>3 DEF LifecycleInv, StopsOK
  <2> QED BY <2>2, <2>3
<1>4. LifecycleTypeOK'
  BY <1>2 DEF LifecycleInv, LifecycleTypeOK
<1>5. StopsOK'
  BY <1>3 DEF StopsOK
<1> QED BY <1>4, <1>5 DEF LifecycleInv

\* What is remembered of a session to begin with.
Began(s) ==
    /\ past[s].by = "sent"
    /\ past[s].used = IF Exists(s) THEN table[s].updated ELSE 0
    /\ Exists(s) => past[s].overwritten = ~TotalIsSum(table[s])

LEMMA PastBegins ==
    ASSUME Init
    PROVE  past \in [SessionIds -> Past] /\ \A s \in SessionIds : Began(s)
<1>1. table \in Stored
  BY DEF Init
<1>2. Forgotten \in Past /\ Forgotten.by = "sent" /\ Forgotten.used = 0
  BY SessionsAssumption DEF Forgotten, Past
<1>3. ASSUME NEW s \in SessionIds
      PROVE  past[s] \in Past /\ Began(s)
  <2>1. CASE ~Exists(s)
    <3>1. past[s] = Forgotten
      BY <2>1 DEF Init
    <3> QED BY <1>2, <2>1, <3>1 DEF Began
  <2>2. CASE Exists(s)
    <3> DEFINE wrong == ~TotalIsSum(table[s])
    <3>1. past[s] = [Forgotten EXCEPT !.used = table[s].updated, !.overwritten = wrong]
      BY <2>2 DEF Init
    <3>2. wrong \in BOOLEAN
      OBVIOUS
    <3>3. table[s].updated \in 0..MaxTime
      BY <1>1, <2>2, StoredAssumption DEF Exists, Row
    <3> HIDE DEF wrong
    <3>4. /\ past[s] \in Past /\ past[s].by = "sent"
          /\ past[s].used = table[s].updated /\ past[s].overwritten = wrong
      BY <1>2, <3>1, <3>2, <3>3 DEF Past
    <3> QED BY <2>2, <3>4 DEF Began, wrong
  <2> QED BY <2>1, <2>2
<1>4. past \in [SessionIds -> Past]
  <2> DEFINE start(s) == IF Exists(s)
                         THEN [Forgotten EXCEPT !.used = table[s].updated,
                                                !.overwritten = ~TotalIsSum(table[s])]
                         ELSE Forgotten
  <2>1. past = [s \in SessionIds |-> start(s)]
    BY DEF Init
  <2> HIDE DEF start
  <2> QED BY <1>3, <2>1
<1> QED BY <1>3, <1>4

LEMMA InitInv == PluginInit => Inv
<1> SUFFICES ASSUME PluginInit PROVE Inv
  OBVIOUS
<1>0. /\ backend \in {"db", "memory"} /\ table \in Stored /\ now = 1
      /\ req = [p \in Procs |-> Idle] /\ left = MaxRequests
      /\ work = [g \in Background |-> IF g = Loop("cleanup") THEN "waiting" ELSE "working"]
      /\ dispose = "open" /\ overrun = {}
  BY DEF PluginInit, Init
<1>a. past \in [SessionIds -> Past] /\ \A s \in SessionIds : Began(s)
  BY PastBegins DEF PluginInit
<1>1. SessionsTypeOK
  <2>1. now \in 0..MaxTime /\ left \in 0..MaxRequests
    BY <1>0, SessionsAssumption
  <2>2. table \in [SessionIds -> Row \cup {None}]
    BY <1>0, StoredAssumption
  <2>3. req \in [Procs -> Requests]
    BY <1>0, IdleOK
  <2> QED BY <1>0, <1>a, <2>1, <2>2, <2>3 DEF SessionsTypeOK
<1>2. RequestsOK
  BY <1>0, IdleOK DEF RequestsOK
<1>3. UsedOK
  BY <1>0, <1>a, StoredAssumption DEF UsedOK, Began, Exists
<1>4. OneActive
  BY <1>0, StoredAssumption DEF OneActive, Exists
<1>5. LifecycleInv
  <2>1. LifecycleTypeOK
    BY <1>0, PhasesOK DEF LifecycleTypeOK
  <2>2. ASSUME NEW x \in Services PROVE ~Done(Await(x))
    <3>1. Order(dispose) = 1
      BY <1>0, PhasesOK
    <3>2. Order(Await(x)) \in {2, 3}
      BY AwaitOK
    <3> QED BY <3>1, <3>2 DEF Done
  <2> QED BY <2>1, <2>2 DEF LifecycleInv, StopsOK
<1> QED BY <1>1, <1>2, <1>3, <1>4, <1>5 DEF Inv, SessionsInv

LEMMA NextInv == Inv /\ [PluginNext]_allVars => Inv'
<1> SUFFICES ASSUME Inv, [PluginNext]_allVars PROVE Inv'
  OBVIOUS
<1>0. SessionsInv /\ LifecycleInv
  BY DEF Inv
\* The steps that leave the sessions as they are.
<1>a. ASSUME UNCHANGED vars, LifecycleInv'
      PROVE  Inv'
  BY <1>0, <1>a, SessionsStay DEF Inv
<1>1. CASE UNCHANGED allVars
  BY <1>0, <1>1, <1>a, LifecycleStays DEF allVars
<1>2. CASE DayPasses
  <2>1. LifecycleInv' /\ Tick
    BY <1>0, <1>2, LifecycleStays DEF DayPasses
  <2> QED BY <1>0, <2>1, TickOK DEF Inv
<1>3. ASSUME NEW p \in Procs, Arrive(p) \/ Handle(p)
      PROVE  Inv'
  <2>1. LifecycleInv' /\ (Begin(p) \/ Proceed(p))
    BY <1>0, <1>3, LifecycleStays DEF Arrive, Handle
  <2> QED BY <1>0, <2>1, HandlerOK DEF Inv
<1>4. ASSUME NEW p \in Procs, HandleFails(p)
      PROVE  Inv'
  <2>1. Continue(p, Idle) /\ left' \in 0..MaxRequests /\ LifecycleInv'
    BY <1>0, <1>4, LifecycleStays DEF HandleFails, SessionsInv, SessionsTypeOK
  <2> QED BY <1>0, <2>1, IdleOK, ContinueOK DEF Inv
<1>5. CASE WakeCleanup \/ ExitCleanup
  <2>1. Loop("cleanup") \in Background
    BY AwaitOK DEF Services
  <2>2. LifecycleInv'
    BY <1>0, <1>5, <2>1, WorkOK DEF WakeCleanup, ExitCleanup
  <2> QED BY <1>5, <1>a, <2>2 DEF WakeCleanup, ExitCleanup
<1>6. CASE ExitPreloader
  <2>1. Loop("preloader") \in Background
    BY AwaitOK DEF Services
  <2>2. LifecycleInv'
    BY <1>0, <1>6, <2>1, WorkOK DEF ExitPreloader
  <2> QED BY <1>6, <1>a, <2>2 DEF ExitPreloader
<1>7. ASSUME NEW g \in Background, RunCleanup(g)
      PROVE  Inv'
  <2>1. LifecycleInv' /\ UNCHANGED dispose
    BY <1>0, <1>7, WorkOK DEF RunCleanup
  <2>2. CASE Sweep
    <3>1. SessionsInv'
      BY <1>0, <2>2, DropOK DEF Sweep, SessionsInv, SessionsTypeOK
    <3> QED BY <2>1, <3>1 DEF Inv
  <2>3. CASE UNCHANGED vars
    BY <1>a, <2>1, <2>3
  <2> QED BY <1>7, <2>2, <2>3 DEF RunCleanup
<1>8. CASE BeginDispose \/ CloseStorage
  <2>1. dispose \in {"open", "close storage"} /\ GoOn /\ UNCHANGED <<vars, work, overrun>>
    BY <1>8 DEF BeginDispose, CloseStorage
  <2>2. \A x \in Services : dispose # Await(x)
    BY <2>1, AwaitOK
  <2>3. LifecycleInv'
    BY <1>0, <2>1, <2>2, GoOnOK DEF LifecycleInv, LifecycleTypeOK, vars
  <2> QED BY <1>a, <2>1, <2>3
<1>9. ASSUME NEW x \in Services, StopReturns(x) \/ StopTimesOut(x)
      PROVE  Inv'
  <2>1. dispose = Await(x) /\ GoOn /\ UNCHANGED <<vars, work>>
    BY <1>9 DEF StopReturns, StopTimesOut
  <2>2. overrun \subseteq overrun' /\ overrun' \subseteq Services
    BY <1>0, <1>9 DEF StopReturns, StopTimesOut, LifecycleInv, LifecycleTypeOK
  <2>3. dispose # "closed" /\ \A y \in Services : dispose = Await(y) => y = x
    BY <2>1, AwaitOK
  <2>4. work[Loop(x)] = "exited" \/ x \in overrun'
    BY <1>9 DEF StopReturns, StopTimesOut
  <2>5. LifecycleInv'
    BY <1>0, <2>1, <2>2, <2>3, <2>4, GoOnOK DEF vars
  <2> QED BY <1>a, <2>1, <2>3, <2>5
<1> QED BY <1>1, <1>2, <1>3, <1>4, <1>5, <1>6, <1>7, <1>8, <1>9 DEF PluginNext, Dispose

-----------------------------------------------------------------------------
(***************************************************************************)
(* Totals                                                                  *)
(***************************************************************************)

\* A row whose total nobody has written over has the total it should have.
Counted(row, h) ==
    /\ IsFiniteSet(row.messages)
    /\ ~h.overwritten => TotalIsSum(row)

\* A session that is about to be created comes without summaries.
NewRow(r) == r.at = "create" => r.row.summaries = 0

TotalsOK ==
    /\ backend = "db" =>
          \A s \in SessionIds : Exists(s) => Counted(table[s], past[s])
    /\ \A p \in Procs : NewRow(req[p])

LEMMA SumIs ==
    ASSUME NEW row \in Row
    PROVE  TotalIsSum(row) <=> row.total = Total(Size, row.messages)
                                             + row.summaries * SummaryTokens
  BY DEF TotalIsSum, Total

\* A row without messages.
LEMMA EmptyCounted ==
    ASSUME NEW row \in Row, row.messages = {}, row.total = 0, row.summaries = 0
    PROVE  IsFiniteSet(row.messages) /\ TotalIsSum(row)
<1>1. Total(Size, {}) = 0 /\ IsFiniteSet({})
  BY TotalOfNone, FS_EmptySet
<1>2. 0 * SummaryTokens = 0
  BY SessionsAssumption
<1> QED BY <1>1, <1>2, SumIs

\* A message more.
LEMMA InsertedCounted ==
    ASSUME NEW s \in SessionIds, table[s] \in Row, NEW m \in Messages,
           IsFiniteSet(table[s].messages)
    PROVE  /\ IsFiniteSet(Inserted(s, m).messages)
           /\ TotalIsSum(table[s]) => TotalIsSum(Inserted(s, m))
<1>1. CASE m \in table[s].messages
  BY <1>1 DEF Inserted
<1>2. CASE m \notin table[s].messages
  <2> DEFINE row == table[s]
             new == Inserted(s, m)
             old == row.messages
             n == row.summaries * SummaryTokens
  <2>1. /\ row.total \in Nat /\ old \subseteq Messages /\ n \in Nat
        /\ Size[m] \in Nat /\ Stamp[m] \in 0..MaxTime
    BY SessionsAssumption DEF Row
  <2>2. /\ new.messages = old \cup {m} /\ new.total = row.total + Size[m]
        /\ new.summaries = row.summaries
    BY <1>2 DEF Inserted, Row
  <2>3. new \in Row
    <3>1. old \cup {m} \in SUBSET Messages /\ row.total + Size[m] \in Nat
      BY <2>1
    <3>2. new = [row EXCEPT !.messages = old \cup {m}, !.updated = Stamp[m],
                            !.total = row.total + Size[m]]
      BY <1>2 DEF Inserted, Row
    <3> HIDE DEF old, new
    <3> QED BY <2>1, <3>1, <3>2 DEF Row
  <2>4. \A x \in old \cup {m} : Size[x] \in Int
    BY <2>1, SessionsAssumption
  <2> HIDE DEF new
  <2>5. TotalIsSum(row) => row.total = Total(Size, old) + n
    BY SumIs
  <2>6. TotalIsSum(new) <=> new.total = Total(Size, new.messages) + n
    BY <2>2, <2>3, SumIs
  <2> HIDE DEF row, old, n
  <2>7. IsFiniteSet(old)
    BY DEF old, row
  <2>8. Total(Size, old \cup {m}) = Total(Size, old) + Size[m]
    BY <1>2, <2>4, <2>7, TotalOfMore DEF old, row
  <2>9. Total(Size, old) \in Int
    BY <2>4, <2>7, TotalType
  <2>10. IsFiniteSet(new.messages)
    BY <2>2, <2>7, FS_AddElement
  <2>11. TotalIsSum(row) => TotalIsSum(new)
    BY <2>1, <2>2, <2>5, <2>6, <2>8, <2>9
  <2> QED BY <2>10, <2>11 DEF new, row
<1> QED BY <1>1, <1>2

\* The step leaves the rows, and brings a request that creates nothing new, or
\* a row without summaries.
LEMMA ContinueCounted ==
    ASSUME SessionsTypeOK, TotalsOK, NEW p \in Procs, NEW r, NewRow(r), Continue(p, r)
    PROVE  TotalsOK'
<1>1. \A q \in Procs : req'[q] = r \/ req'[q] = req[q]
  BY DEF SessionsTypeOK, Continue
<1>2. \A q \in Procs : NewRow(req'[q])
  BY <1>1 DEF TotalsOK
<1>3. UNCHANGED <<backend, table, past>>
  BY DEF Continue
<1> QED BY <1>2, <1>3 DEF TotalsOK, Exists

LEMMA WriteCounted ==
    ASSUME SessionsTypeOK, TotalsOK, NEW p \in Procs, NEW s \in SessionIds,
           NEW row, NEW h, NEW r, NewRow(r), Write(p, s, row, h, r),
           backend = "db" => Counted(row, h)
    PROVE  TotalsOK'
<1>1. /\ \A q \in Procs : req'[q] = r \/ req'[q] = req[q]
      /\ \A t \in SessionIds : \/ table'[t] = row /\ past'[t] = h
                               \/ table'[t] = table[t] /\ past'[t] = past[t]
      /\ backend' = backend
  <2>1. \A t \in SessionIds : t = s \/ t # s
    OBVIOUS
  <2> QED BY <2>1 DEF Write, SessionsTypeOK
<1>2. \A q \in Procs : NewRow(req'[q])
  BY <1>1 DEF TotalsOK
<1>3. ASSUME backend = "db", NEW t \in SessionIds, table'[t] # None
      PROVE  Counted(table'[t], past'[t])
  BY <1>1, <1>3 DEF TotalsOK, Exists
<1> QED BY <1>1, <1>2, <1>3 DEF TotalsOK, Exists

\* Requests that do not create.
LEMMA NotNew ==
    ASSUME NEW r, r.at # "create" \/ NewRow(r), r \in Requests
    PROVE  NewRow(Idle) /\ NewRow(Saving(r)) /\ NewRow(Refused(r))
<1>1. NewRow(Idle)
  BY DEF NewRow, Idle
<1>2. NewRow(Saving(r))
  BY <1>1 DEF Saving, NewRow, Goto, Requests
<1> QED BY <1>1, <1>2 DEF Refused

LEMMA ChosenNotNew ==
    ASSUME NEW r \in Requests, r.at = "save"
    PROVE  NewRow(ChosenDone(r))
<1> DEFINE rest == [r EXCEPT !.messages = @ \ {Chosen(r)}]
<1>1. rest \in Requests /\ rest.at = "save"
  BY DEF Requests
<1>2. ChosenDone(r) = Saving(rest)
  BY DEF ChosenDone
<1> HIDE DEF rest
<1> QED BY <1>1, <1>2, NotNew

\* What a handler knows of a request it serves.
LEMMA ServedRequest ==
    ASSUME SessionsTypeOK, RequestsOK, TotalsOK, NEW p \in Procs
    PROVE  /\ req[p] \in Requests /\ RequestOK(req[p]) /\ NewRow(req[p])
           /\ req[p].at # "idle" => req[p].session \in SessionIds
           /\ NewRow(Idle)
           /\ NewRow(Saving(req[p])) /\ NewRow(Refused(req[p]))
<1>1. req[p] \in Requests /\ RequestOK(req[p]) /\ NewRow(req[p])
  BY DEF SessionsTypeOK, RequestsOK, TotalsOK
<1> QED BY <1>1, NotNew DEF RequestOK

LEMMA SendCounted ==
    ASSUME SessionsTypeOK, RequestsOK, TotalsOK, NEW p \in Procs, NEW s \in SessionIds,
           NEW messages \in SUBSET Messages,
           PostSession(p, s, messages) \/ PutSession(p, s, messages)
             \/ PostHistory(p, s, messages)
    PROVE  TotalsOK'
<1>1. CASE PostSession(p, s, messages)
  <2>1. PICK row \in Sent(s, messages) :
           Continue(p, Request("create", "create", s, [row EXCEPT !.total = 0], messages))
    BY <1>1 DEF PostSession
  <2>2. row \in Row /\ row.summaries = 0
    BY SentOK DEF Sent
  <2>3. NewRow(Request("create", "create", s, [row EXCEPT !.total = 0], messages))
    BY <2>2 DEF NewRow, Request, Row
  <2> QED BY <2>1, <2>3, ContinueCounted
<1>2. CASE PutSession(p, s, messages)
  <2>1. PICK row \in Sent(s, messages) :
           Continue(p, Request("update", "put", s, row, messages))
    BY <1>2 DEF PutSession
  <2>2. NewRow(Request("update", "put", s, row, messages))
    BY DEF NewRow, Request
  <2> QED BY <2>1, <2>2, ContinueCounted
<1>3. CASE PostHistory(p, s, messages)
  <2>1. PICK row \in Sent(s, messages), at \in {"create", "update"} :
           Continue(p, Request(at, "history", s, row, messages))
    BY <1>3 DEF PostHistory
  <2>2. row.summaries = 0
    BY DEF Sent
  <2>3. NewRow(Request(at, "history", s, row, messages))
    BY <2>2 DEF NewRow, Request
  <2> QED BY <2>1, <2>3, ContinueCounted
<1> QED BY <1>1, <1>2, <1>3

LEMMA CreateSessionCounted ==
    ASSUME SessionsTypeOK, RequestsOK, TotalsOK, NEW p \in Procs, CreateSession(p)
    PROVE  TotalsOK'
<1> DEFINE r == req[p]
           row == IF backend = "db" THEN [r.row EXCEPT !.messages = {}] ELSE r.row
           h == [used |-> now, by |-> "sent", whole |-> TRUE, overwritten |-> row.total # 0]
<1>1. r.at = "create"
  BY DEF CreateSession
<1>2. CASE Exists(r.session)
  <2>1. Continue(p, Refused(r))
    BY <1>2 DEF CreateSession
  <2> QED BY <2>1, ServedRequest, ContinueCounted
<1>3. CASE ~Exists(r.session)
  <2>1. Write(p, r.session, row, h, Saving(r))
    BY <1>3 DEF CreateSession
  <2>2. r.row \in Row /\ r.row.summaries = 0
    BY <1>1, ServedRequest DEF RequestOK, NewRow
  <2>3. backend = "db" =>
           row \in Row /\ row.messages = {} /\ row.summaries = 0
    BY <2>2 DEF Row
  <2>a. ~h.overwritten => row.total = 0
    OBVIOUS
  <2> HIDE DEF row, h
  <2>4. backend = "db" => Counted(row, h)
    BY <2>3, <2>a, EmptyCounted, FS_EmptySet DEF Counted
  <2>5. r.session \in SessionIds /\ NewRow(Saving(r))
    BY <1>1, ServedRequest
  <2> HIDE DEF r
  <2> QED BY <2>1, <2>4, <2>5, WriteCounted
<1> QED BY <1>2, <1>3

\* Writing a row whole writes another total, or the one there was.
LEMMA OverwriteCounted ==
    ASSUME SessionsTypeOK, TotalsOK, NEW p \in Procs, NEW s \in SessionIds, Exists(s),
           NEW row \in Row, NEW by, NEW r, NewRow(r),
           Write(p, s, Overwritten(s, row), WrittenWhole(s, row, by), r)
    PROVE  TotalsOK'
<1> DEFINE new == Overwritten(s, row)
           h == WrittenWhole(s, row, by)
<1>1. table[s] \in Row /\ past[s].overwritten \in BOOLEAN
  BY DEF SessionsTypeOK, Exists, Past
<1>2. ASSUME backend = "db" PROVE Counted(new, h)
  <2>1. Counted(table[s], past[s])
    BY <1>2 DEF TotalsOK
  <2>2. /\ new \in Row /\ new.messages = table[s].messages
        /\ new.summaries = table[s].summaries /\ new.total = row.total
    BY <1>1, <1>2 DEF Overwritten, Row
  <2>3. ~h.overwritten => ~past[s].overwritten /\ row.total = table[s].total
    BY <1>1 DEF WrittenWhole
  <2> HIDE DEF new, h
  <2>4. ~h.overwritten => TotalIsSum(new)
    <3>1. TotalIsSum(table[s]) <=>
             table[s].total = Total(Size, table[s].messages)
                                + table[s].summaries * SummaryTokens
      BY <1>1, SumIs
    <3>2. TotalIsSum(new) <=>
             new.total = Total(Size, new.messages) + new.summaries * SummaryTokens
      BY <2>2, SumIs
    <3> QED BY <2>1, <2>2, <2>3, <3>1, <3>2 DEF Counted
  <2>5. IsFiniteSet(new.messages)
    BY <2>1, <2>2 DEF Counted
  <2> QED BY <2>4, <2>5 DEF Counted
<1> HIDE DEF new, h
<1>3. Write(p, s, new, h, r)
  BY DEF new, h
<1> QED BY <1>2, <1>3, WriteCounted

LEMMA InsertCounted ==
    ASSUME SessionsTypeOK, TotalsOK, NEW p \in Procs, NEW m \in Messages,
           NEW r, NewRow(r), Insert(p, m, r)
    PROVE  TotalsOK'
<1> DEFINE s == Owner[m]
           h == IF m \in table[s].messages THEN past[s]
                ELSE [past[s] EXCEPT !.used = now, !.by = "sent"]
<1>1. s \in SessionIds
  BY SessionsAssumption
<1>2. CASE ~Exists(s)
  BY <1>2, ContinueCounted DEF Insert
<1>3. CASE Exists(s)
  <2>1. table[s] \in Row /\ past[s] \in Past
    BY <1>1, <1>3 DEF SessionsTypeOK, Exists
  <2>2. Write(p, s, Inserted(s, m), h, r)
    BY <1>3 DEF Insert
  <2>3. h.overwritten = past[s].overwritten
    BY <2>1 DEF Past
  <2> HIDE DEF s, h
  <2>4. ASSUME backend = "db" PROVE Counted(Inserted(s, m), h)
    <3>1. Counted(table[s], past[s])
      BY <1>1, <1>3, <2>4 DEF TotalsOK
    <3>2. /\ IsFiniteSet(Inserted(s, m).messages)
          /\ TotalIsSum(table[s]) => TotalIsSum(Inserted(s, m))
      BY <1>1, <2>1, <3>1, InsertedCounted DEF Counted
    <3> QED BY <2>3, <3>1, <3>2 DEF Counted
  <2> QED BY <1>1, <2>2, <2>4, WriteCounted
<1> QED BY <1>2, <1>3

\* A row and what is remembered of it change, but not what adds up.
LEMMA AlikeCounted ==
    ASSUME NEW old \in Row, NEW new \in Row, new.messages = old.messages,
           new.summaries = old.summaries, new.total = old.total,
           NEW g, NEW h, h.overwritten = g.overwritten, Counted(old, g)
    PROVE  Counted(new, h)
  BY SumIs DEF Counted

LEMMA TouchCounted ==
    ASSUME SessionsTypeOK, TotalsOK, NEW p \in Procs, NEW s \in SessionIds, Exists(s),
           NEW row \in {table[s], Touched(s)}, NEW h, h.overwritten = past[s].overwritten,
           NEW r, NewRow(r), Write(p, s, row, h, r)
    PROVE  TotalsOK'
<1>1. table[s] \in Row /\ now \in 0..MaxTime
  BY DEF SessionsTypeOK, Exists
<1>2. /\ row \in Row /\ row.messages = table[s].messages
      /\ row.summaries = table[s].summaries /\ row.total = table[s].total
  BY <1>1 DEF Touched, Row
<1>3. backend = "db" => Counted(row, h)
  BY <1>1, <1>2, AlikeCounted DEF TotalsOK
<1> QED BY <1>3, WriteCounted

LEMMA SaveSummaryCounted ==
    ASSUME SessionsTypeOK, RequestsOK, TotalsOK, NEW p \in Procs, SaveSummary(p)
    PROVE  TotalsOK'
<1> DEFINE s == req[p].session
           oldest == Min({Stamp[m] : m \in req[p].messages})
           row == [table[s] EXCEPT !.updated = oldest, !.total = @ + SummaryTokens,
                                   !.summaries = @ + 1,
                                   !.covered = @ \cup req[p].messages]
           h == [past[s] EXCEPT !.by = "summary"]
<1>1. s \in SessionIds
  BY ServedRequest DEF SaveSummary
<1>2. CASE ~Exists(s)
  BY <1>2, ServedRequest, ContinueCounted DEF SaveSummary
<1>3. CASE Exists(s)
  <2>1. table[s] \in Row /\ past[s] \in Past
    BY <1>1, <1>3 DEF SessionsTypeOK, Exists
  <2>2. Write(p, s, row, h, Idle)
    BY <1>3 DEF SaveSummary
  <2>3. h.overwritten = past[s].overwritten
    BY <2>1 DEF Past
  <2>4. /\ row.messages = table[s].messages
        /\ row.total = table[s].total + SummaryTokens
        /\ row.summaries = table[s].summaries + 1
    BY <2>1 DEF Row
  <2> DEFINE n == table[s].summaries
             all == table[s].messages
  <2>5. (n + 1) * SummaryTokens = n * SummaryTokens + SummaryTokens
    BY <2>1, SessionsAssumption DEF Row
  <2> HIDE DEF s, row, h
  <2>6. ASSUME backend = "db" PROVE Counted(row, h)
    <3>1. Counted(table[s], past[s])
      BY <1>1, <1>3, <2>6 DEF TotalsOK
    <3>2. IsFiniteSet(all) /\ all \subseteq Messages /\ n \in Nat
          /\ SummaryTokens \in Nat /\ n * SummaryTokens \in Nat
      BY <2>1, <3>1, SessionsAssumption DEF Counted, Row
    <3>3. Total(Size, all) \in Int
      BY <3>2, TotalType, SessionsAssumption
    <3> HIDE DEF n, all
    <3>4. TotalIsSum(table[s]) => table[s].total = Total(Size, all) + n * SummaryTokens
      BY <2>1, SumIs DEF n, all
    <3>5. TotalIsSum(row) <=> row.total = Total(Size, all) + (n + 1) * SummaryTokens
      BY <2>4 DEF TotalIsSum, Total, n, all
    <3>6. TotalIsSum(table[s]) => TotalIsSum(row)
      BY <2>4, <2>5, <3>2, <3>3, <3>4, <3>5
    <3>7. IsFiniteSet(row.messages)
      BY <2>4, <3>2 DEF all
    <3> QED BY <2>3, <3>1, <3>6, <3>7 DEF Counted
  <2> QED BY <1>1, <2>2, <2>6, NotNew, ServedRequest, WriteCounted
<1> QED BY <1>2, <1>3

LEMMA SetActiveSessionCounted ==
    ASSUME SessionsTypeOK, TotalsOK, NEW p \in Procs, NEW s \in SessionIds,
           SetActiveSession(p, s)
    PROVE  TotalsOK'
<1>1. UNCHANGED <<backend, req>>
  BY DEF SetActiveSession
<1>2. CASE UNCHANGED <<table, past>>
  BY <1>1, <1>2 DEF TotalsOK, Exists
<1>3. CASE /\ table' = [t \in SessionIds |->
                          IF Exists(t) THEN [table[t] EXCEPT !.active = (t = s)] ELSE None]
           /\ past' = [t \in SessionIds |-> [past[t] EXCEPT !.whole = FALSE]]
  <2>1. ASSUME NEW t \in SessionIds, table'[t] # None, backend = "db"
        PROVE  Counted(table'[t], past'[t])
    <3>1. Exists(t) /\ table'[t] = [table[t] EXCEPT !.active = (t = s)]
      BY <1>3, <2>1
    <3>2. table[t] \in Row /\ past[t] \in Past
      BY <3>1 DEF SessionsTypeOK, Exists
    <3>3. /\ table'[t] \in Row /\ table'[t].messages = table[t].messages
          /\ table'[t].summaries = table[t].summaries /\ table'[t].total = table[t].total
      <4>1. (t = s) \in BOOLEAN
        OBVIOUS
      <4> QED BY <3>1, <3>2, <4>1 DEF Row
    <3>4. past'[t].overwritten = past[t].overwritten
      BY <1>3, <3>2 DEF Past
    <3>5. Counted(table[t], past[t])
      BY <2>1, <3>1 DEF TotalsOK
    <3> QED BY <3>2, <3>3, <3>4, <3>5, AlikeCounted
  <2> QED BY <1>1, <2>1 DEF TotalsOK, Exists
<1> QED BY <1>2, <1>3 DEF SetActiveSession

LEMMA DropCounted ==
    ASSUME TotalsOK, NEW gone, Drop(gone), UNCHANGED <<backend, req>>
    PROVE  TotalsOK'
<1>1. \A s \in SessionIds :
         table'[s] = None \/ (table'[s] = table[s] /\ past'[s] = past[s])
  BY DEF Drop
<1> QED BY <1>1 DEF TotalsOK, Exists

LEMMA HandlerCounted ==
    ASSUME SessionsTypeOK, RequestsOK, TotalsOK, NEW p \in Procs, Begin(p) \/ Proceed(p)
    PROVE  TotalsOK'
<1> DEFINE r == req[p]
           s == r.session
<1>0. /\ NewRow(r) /\ NewRow(Idle) /\ NewRow(Saving(r)) /\ NewRow(Refused(r))
      /\ r.at # "idle" => s \in SessionIds
      /\ r.at \in {"update", "rename"} => r.row \in Row
      /\ r \in Requests /\ RequestOK(r)
  BY ServedRequest DEF RequestOK
<1>1. ASSUME NEW t \in SessionIds, NEW messages \in Payloads,
             PostSession(p, t, messages) \/ PutSession(p, t, messages)
               \/ PostHistory(p, t, messages)
      PROVE  TotalsOK'
  BY <1>1, SendCounted, StoredAssumption
<1>2. ASSUME NEW t \in SessionIds, RenameSession(p, t) PROVE TotalsOK'
  <2> DEFINE next == Request("rename", "rename", t,
                       [table[t] EXCEPT !.updated = now, !.messages = @ \ table[t].covered], {})
  <2>1. NewRow(next)
    BY DEF NewRow, Request
  <2>2. Continue(p, next)
    BY <1>2 DEF RenameSession
  <2> HIDE DEF next
  <2> QED BY <2>1, <2>2, ContinueCounted
<1>3. ASSUME NEW t \in SessionIds, CompactSession(p, t) PROVE TotalsOK'
  <2> DEFINE next == Request("summarize", "compact", t, None,
                             table[t].messages \ table[t].covered)
  <2>1. NewRow(next)
    BY DEF NewRow, Request
  <2>2. Continue(p, next)
    BY <1>3 DEF CompactSession
  <2> HIDE DEF next
  <2> QED BY <2>1, <2>2, ContinueCounted
<1>4. ASSUME NEW t \in SessionIds, SetActiveSession(p, t) PROVE TotalsOK'
  BY <1>4, SetActiveSessionCounted
<1>5. ASSUME NEW t \in SessionIds, DeleteSession(p, t) \/ ClearAll(p) PROVE TotalsOK'
  BY <1>5, DropCounted DEF DeleteSession, ClearAll
<1>6. ASSUME NEW m \in Messages, AddMessage(p, m) PROVE TotalsOK'
  BY <1>0, <1>6, InsertCounted DEF AddMessage
<1>7. ASSUME NEW m \in Messages, UpdateMessage(p, Owner[m], m) PROVE TotalsOK'
  <2> DEFINE t == Owner[m]
             h(by) == [past[t] EXCEPT !.used = now, !.by = by]
             next == Request("touch", "edit", t, None, {})
  <2>1. t \in SessionIds /\ Exists(t)
    BY <1>7, SessionsAssumption DEF UpdateMessage
  <2>2. \A by \in {"edit", "clock"} : h(by).overwritten = past[t].overwritten
    BY <2>1 DEF SessionsTypeOK, Past
  <2>3. NewRow(next)
    BY DEF NewRow, Request
  <2>4. Write(p, t, table[t], h("edit"), next) \/ Write(p, t, Touched(t), h("clock"), Idle)
    BY <1>7 DEF UpdateMessage
  <2> HIDE DEF t, h, next
  <2> QED BY <1>0, <2>1, <2>2, <2>3, <2>4, TouchCounted
<1>8. ASSUME ClearAll(p) PROVE TotalsOK'
  BY <1>8, DropCounted DEF ClearAll
<1>9. CASE CreateSession(p)
  BY <1>9, CreateSessionCounted
<1>10. CASE UpdateSession(p)
  <2>1. CASE ~Exists(s)
    BY <1>0, <1>10, <2>1, ContinueCounted DEF UpdateSession
  <2>2. CASE Exists(s)
    <3>1. Write(p, s, Overwritten(s, r.row), WrittenWhole(s, r.row, "sent"), Saving(r))
      BY <1>10, <2>2 DEF UpdateSession
    <3>2. s \in SessionIds /\ r.row \in Row
      BY <1>0, <1>10 DEF UpdateSession
    <3> HIDE DEF r, s
    <3> QED BY <1>0, <2>2, <3>1, <3>2, OverwriteCounted
  <2> QED BY <2>1, <2>2
<1>11. CASE WriteBack(p)
  <2>1. CASE ~Exists(s)
    BY <1>0, <1>11, <2>1, ContinueCounted DEF WriteBack
  <2>2. CASE Exists(s)
    <3>1. Write(p, s, Overwritten(s, r.row), WrittenWhole(s, r.row, "clock"), Idle)
      BY <1>11, <2>2 DEF WriteBack
    <3>2. s \in SessionIds /\ r.row \in Row
      BY <1>0, <1>11 DEF WriteBack
    <3> HIDE DEF r, s
    <3> QED BY <1>0, <2>2, <3>1, <3>2, OverwriteCounted
  <2> QED BY <2>1, <2>2
<1>12. CASE SaveMessage(p)
  <2>1. r.at = "save" /\ Insert(p, Chosen(r), ChosenDone(r))
    BY <1>12 DEF SaveMessage
  <2>2. Chosen(r) \in Messages /\ NewRow(ChosenDone(r))
    BY <1>0, <2>1, ChosenOK, ChosenNotNew
  <2> HIDE DEF r, s
  <2> QED BY <2>1, <2>2, InsertCounted
<1>13. CASE Touch(p)
  <2> DEFINE h == [past[s] EXCEPT !.by = "clock"]
  <2>1. CASE ~Exists(s)
    BY <1>0, <1>13, <2>1, ContinueCounted DEF Touch
  <2>2. CASE Exists(s)
    <3>1. s \in SessionIds /\ Write(p, s, Touched(s), h, Idle)
      BY <1>0, <1>13, <2>2 DEF Touch
    <3>2. h.overwritten = past[s].overwritten
      BY <3>1 DEF SessionsTypeOK, Past
    <3> HIDE DEF s, h
    <3> QED BY <1>0, <2>2, <3>1, <3>2, TouchCounted
  <2> QED BY <2>1, <2>2
<1>14. CASE SaveSummary(p)
  BY <1>14, SaveSummaryCounted
<1>17. CASE CallFails(p)
  <2>1. Continue(p, Failed(r)) /\ NewRow(Failed(r))
    BY <1>0, <1>17, ChosenNotNew DEF CallFails, Failed
  <2> HIDE DEF r, s
  <2> QED BY <2>1, ContinueCounted
<1> HIDE DEF r, s
<1>15. CASE Begin(p)
  BY <1>1, <1>2, <1>3, <1>4, <1>5, <1>6, <1>7, <1>8, <1>15 DEF Begin
<1>16. CASE Proceed(p)
  BY <1>9, <1>10, <1>11, <1>12, <1>13, <1>14, <1>16, <1>17 DEF Proceed
<1> QED BY <1>15, <1>16

LEMMA InitTotals == PluginInit => TotalsOK
<1> SUFFICES ASSUME PluginInit PROVE TotalsOK
  OBVIOUS
<1>1. table \in Stored /\ req = [p \in Procs |-> Idle] /\ Init
  BY DEF PluginInit, Init
<1>2. \A s \in SessionIds : Began(s)
  BY <1>1, PastBegins
<1>3. \A s \in SessionIds : Exists(s) => IsFiniteSet(table[s].messages)
  BY <1>1, StoredAssumption DEF Exists
<1>4. \A s \in SessionIds : Exists(s) => Counted(table[s], past[s])
  BY <1>2, <1>3 DEF Began, Counted
<1>5. NewRow(Idle)
  BY DEF NewRow, Idle
<1> QED BY <1>1, <1>4, <1>5 DEF TotalsOK

LEMMA NextTotals == Inv /\ TotalsOK /\ [PluginNext]_allVars => TotalsOK'
<1> SUFFICES ASSUME Inv, TotalsOK, [PluginNext]_allVars PROVE TotalsOK'
  OBVIOUS
<1>0. SessionsTypeOK /\ RequestsOK
  BY DEF Inv, SessionsInv
\* Steps of the services and of Dispose, and days.
<1>1. ASSUME UNCHANGED <<backend, table, req, past>> PROVE TotalsOK'
  BY <1>1 DEF TotalsOK, Exists
<1>2. ASSUME NEW p \in Procs, Arrive(p) \/ Handle(p) PROVE TotalsOK'
  BY <1>0, <1>2, HandlerCounted DEF Arrive, Handle
<1>3. ASSUME NEW p \in Procs, HandleFails(p) PROVE TotalsOK'
  BY <1>0, <1>3, ServedRequest, ContinueCounted DEF HandleFails
<1>4. ASSUME NEW g \in Background, RunCleanup(g) PROVE TotalsOK'
  <2>1. CASE Sweep
    BY <2>1, DropCounted DEF Sweep
  <2>2. CASE UNCHANGED vars
    BY <1>1, <2>2 DEF vars
  <2> QED BY <1>4, <2>1, <2>2 DEF RunCleanup
<1>5. CASE UNCHANGED vars
  BY <1>1, <1>5 DEF vars
<1>6. CASE DayPasses
  BY <1>1, <1>6 DEF DayPasses, Tick
<1>7. CASE UNCHANGED allVars \/ WakeCleanup \/ ExitCleanup \/ ExitPreloader \/ BeginDispose
             \/ Dispose
  BY <1>5, <1>7 DEF allVars, WakeCleanup, ExitCleanup, ExitPreloader, BeginDispose,
                    Dispose, CloseStorage, StopReturns, StopTimesOut
<1> QED BY <1>2, <1>3, <1>4, <1>6, <1>7 DEF PluginNext

-----------------------------------------------------------------------------
(***************************************************************************)
(* The theorems                                                            *)
(***************************************************************************)

LEMMA InvAlways == PluginSpec => []Inv
  BY InitInv, NextInv, PTL DEF PluginSpec

\* Every variable of the sessions, the services and Dispose keeps its type: no
\* handler, sweep or tick leaves a row, a request or a day that is none.
THEOREM TypeCorrect == PluginSpec => []TypeOK
<1>1. Inv => TypeOK
  BY DEF Inv, SessionsInv, SessionsTypeOK, LifecycleInv, LifecycleTypeOK, TypeOK
<1> QED BY <1>1, InvAlways, PTL

\* Whatever the handlers interleave, two sessions are active together only if a
\* create, an update or a rename wrote one of them whole since SetActiveSession
\* last ran: SetActiveSession itself never leaves two.
THEOREM OneSessionIsActive == PluginSpec => []OneActive
<1>1. Inv => OneActive
  BY DEF Inv, SessionsInv
<1> QED BY <1>1, InvAlways, PTL

\* Dispose closes nothing under a loop it waits for: once the storage, or the
\* message cache, is closed, a loop that uses it has exited, or its Stop gave up
\* after ten seconds.
THEOREM OnlyStragglersAreAtWork == PluginSpec => []OnlyStragglersWork
<1>1. ASSUME Inv, NEW x \in Services,
             Done(IF x = "cleanup" THEN "close storage" ELSE Await(x)), x \notin overrun
      PROVE  work[Loop(x)] = "exited"
  <2>1. Done(Await(x))
    <3>1. CASE x = "cleanup"
      <4>1. Done("close storage")
        BY <1>1, <3>1, Zenon
      <4>2. Order("close storage") = 4
        BY PhasesOK
      <4>3. Order(dispose) > 4
        BY <4>1, <4>2, Zenon DEF Done
      <4>4. Order(Await(x)) = 2
        <5>1. "cleanup" # "preloader"
          OBVIOUS
        <5> QED BY <3>1, <5>1, AwaitOK, Zenon
      <4>5. Order(dispose) \in {1, 2, 3, 4, 5}
        BY <1>1, OrderOK DEF Inv, LifecycleInv
      <4> QED BY <4>3, <4>4, <4>5 DEF Done
    <3>2. CASE x # "cleanup"
      BY <1>1, <3>2, Zenon
    <3> QED BY <3>1, <3>2
  <2> QED BY <1>1, <2>1 DEF Inv, LifecycleInv, StopsOK
<1>2. Inv => OnlyStragglersWork
  BY <1>1 DEF OnlyStragglersWork
<1> QED BY <1>2, InvAlways, PTL

\* A sweep takes no session somebody used within the retention, unless its
\* updated_at is a summary's, an older one the browser sent, or the edit that
\* would have set it has not yet touched the row, or failed to:
\* DeleteExpiredSessions goes by updated_at alone, and every other write sets it
\* to the day it is made.
THEOREM RetentionAlwaysKept == PluginSpec => RetentionIsKept
<1>1. ASSUME Inv, NEW g \in Background, RunCleanup(g),
             NEW s \in SessionIds, table'[s] # table[s]
      PROVE  Sweepable(s)
  <2>1. StorageServes /\ Sweep
    BY <1>1 DEF RunCleanup, vars
  <2>2. s \in Expired
    <3>1. table' = [t \in SessionIds |-> IF t \in Expired THEN None ELSE table[t]]
      BY <2>1 DEF Sweep, Drop
    <3> QED BY <1>1, <3>1
  <2>3. Exists(s) /\ table[s].updated < now - Retention
    BY <2>2 DEF Expired
  <2>4. /\ past[s].used \in 0..MaxTime
        /\ past[s].by \in {"clock", "sent", "summary", "edit"}
        /\ table[s].updated \in 0..MaxTime /\ now \in 0..MaxTime
    <3>1. table[s] \in Row /\ past[s] \in Past
      BY <1>1, <2>3 DEF Inv, SessionsInv, SessionsTypeOK, Exists
    <3> QED BY <1>1, <3>1 DEF Row, Past, Inv, SessionsInv, SessionsTypeOK
  <2>5. CASE past[s].by = "clock"
    <3>1. past[s].used <= table[s].updated
      BY <1>1, <2>3, <2>5 DEF Inv, SessionsInv, UsedOK
    <3> QED BY <2>3, <2>4, <3>1, SessionsAssumption DEF Sweepable
  <2>6. CASE past[s].by \in {"sent", "edit"}
    BY <2>3, <2>4, <2>6, SessionsAssumption DEF Sweepable
  <2>7. CASE past[s].by = "summary"
    BY <2>7 DEF Sweepable
  <2> QED BY <2>4, <2>5, <2>6, <2>7
<1>2. Inv /\ [PluginNext]_allVars =>
         [\A g \in Background : RunCleanup(g) =>
             \A s \in SessionIds : table'[s] # table[s] => Sweepable(s)]_allVars
  BY <1>1
<1> QED BY <1>2, InvAlways, PTL DEF PluginSpec, RetentionIsKept

\* On a database a session's total is that of the messages and summaries that
\* arrived, each counted once however often it is sent, until somebody writes
\* another total over it, a session sent by the browser, or a rename whose copy
\* of the row was overtaken.
THEOREM TotalAlwaysAddsUp == PluginSpec => []TotalAddsUp
<1>1. TotalsOK => TotalAddsUp
  BY DEF TotalsOK, TotalAddsUp, Counted
<1> QED BY <1>1, InvAlways, InitTotals, NextTotals, PTL DEF PluginSpec
=============================================================================
