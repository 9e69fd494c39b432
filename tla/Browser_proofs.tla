--------------------------- MODULE Browser_proofs ---------------------------
(***************************************************************************)
(* Proofs about Browser for any number of operations in progress, sessions *)
(* and messages: its types, that a creation or a deletion is final, that   *)
(* acknowledged messages are stored, and that the mirror follows the       *)
(* server.                                                                 *)
(*                                                                         *)
(* What an operation in progress may still do to the mirror, the cache and *)
(* the server it carries along: its snapshot, its data, its answer.  The   *)
(* invariant says of these what the properties say of the three places.    *)
(***************************************************************************)
EXTENDS Browser, TLAPS

Active(p) == op[p].at # "idle"

\* An operation is alone while no other is in progress.
AloneOK == \A p, q \in Procs : Active(p) /\ op[p].alone /\ q # p => ~Active(q)

\* h and g list the same sessions.
Same(h, g) == \A s \in SessionIds : h[s] = None <=> g[s] = None

\* What an operation that is alone has already done to the mirror and the
\* server is still so.
LoneOK ==
    \A p \in Procs : op[p].alone =>
        LET r == op[p] IN
        /\ r.kind \in {"create", "delete", "clear"} => cache = None
        /\ r.kind = "create" =>
              /\ mirror[r.s] # None
              /\ r.answer = "ok" /\ ~r.outdated => server[r.s] # None
        /\ r.kind = "delete" =>
              /\ mirror[r.s] = None
              /\ r.answer \in {"ok", "missing"} => server[r.s] = None
        /\ r.kind = "clear" /\ r.answer = "ok" => \A s \in SessionIds : server[s] = None
        /\ r.goal = "read" /\ r.answer = "ok" /\ ~r.outdated => Same(r.data, server)

\* What r may still write keeps session s, which is there or kept.
Keeps(r, s) ==
    /\ r.kind # "clear"
    /\ ~(r.kind = "delete" /\ r.s = s)
    /\ r.snapshot # None => r.snapshot[s] # None
    /\ r.goal = "post" => r.data[s] # None
    /\ fate[s] = "there" =>
          /\ r.goal = "read" /\ r.answer = "ok" => r.data[s] # None
          /\ r.s = s => r.answer # "missing" /\ r.goal # "recreate"

KeptOK ==
    \A s \in SessionIds : fate[s] \in {"there", "kept"} =>
        /\ mirror[s] # None
        /\ cache # None => cache[s] # None
        /\ fate[s] = "there" => server[s] # None
        /\ \A p \in Procs : Keeps(op[p], s)

\* What r may still write lacks session s, which is fresh, gone or hidden.
Lacks(r, s) ==
    /\ ~(r.kind = "create" /\ r.s = s)
    /\ ~(r.goal = "recreate" /\ r.s = s)
    /\ r.snapshot # None => r.snapshot[s] = None
    /\ r.goal = "post" => r.data[s] = None
    /\ fate[s] # "hidden" /\ r.goal = "read" /\ r.answer = "ok" => r.data[s] = None
    /\ fate[s] = "fresh" => r.s # s

LackedOK ==
    \A s \in SessionIds : fate[s] \in {"fresh", "gone", "hidden"} =>
        /\ mirror[s] = None
        /\ cache # None => cache[s] = None
        /\ fate[s] # "hidden" => server[s] = None
        /\ fate[s] = "fresh" => s \notin known
        /\ \A p \in Procs : Lacks(op[p], s)

\* What is or will be acknowledged is on the server.
Stored(m) == server[Owner[m]] # None /\ m \in server[Owner[m]]

AckedOK ==
    /\ \A m \in acked : Stored(m)
    /\ \A p \in Procs :
          /\ op[p].kind = "add" /\ op[p].goal \in {"write", "again"}
          /\ op[p].answer = "ok" /\ ~op[p].outdated
          => Stored(op[p].m)

\* Whether s is being created or deleted.
Pending(s) == \E p \in Procs : op[p].kind \in {"create", "delete"} /\ op[p].s = s

Clearing == \E p \in Procs : op[p].kind = "clear"

\* What an operation may still do when mirror and server have no reason to
\* differ.
AlignedBy(p) ==
    LET r == op[p] IN
    /\ r.kind \in Readers \cup {"clear"} => r.alone
    /\ r.goal \notin {"recreate", "again"}
    /\ r.goal = "write" => cache = None
    /\ r.kind = "create" =>
          /\ r.s \notin known
          /\ fate[r.s] # "fresh"
          /\ \A q \in Procs : q # p => op[q].s # r.s
          /\ mirror[r.s] # None
          /\ r.answer = "ok" => server[r.s] # None
    /\ r.kind = "delete" =>
          /\ mirror[r.s] = None
          /\ r.answer = "ok" => server[r.s] = None
    /\ r.answer = "missing" => mirror[r.s] = None /\ server[r.s] = None
    /\ r.snapshot # None /\ r.alone /\ ~r.served => Same(r.snapshot, server)
    /\ r.kind = "clear" /\ ~r.served => Same(mirror, server)
    /\ r.kind = "clear" /\ r.answer = "ok" => \A s \in SessionIds : server[s] = None
    /\ r.goal = "post" \/ (r.goal = "read" /\ r.answer = "ok") => Same(r.data, server)

AlignedOK ==
    ~excused =>
        /\ cache # None => Same(cache, server)
        /\ ~Clearing => \A s \in SessionIds :
              ~Pending(s) => (mirror[s] = None <=> server[s] = None)
        /\ \A p \in Procs : AlignedBy(p)

IInv == TypeOK /\ AloneOK /\ LoneOK /\ KeptOK /\ LackedOK /\ AckedOK /\ AlignedOK

Types == {"fresh", "open", "there", "gone", "kept", "hidden"}

\* Nothing is in progress, and both places hold the same.
LEMMA InitInv == Init => IInv
  <1> SUFFICES ASSUME Init PROVE IInv
    OBVIOUS
  <1>o. \A p \in Procs : op[p] = Idle
    BY DEF Init
  <1>i. /\ Idle.at = "idle" /\ Idle.goal = None /\ Idle.kind = None /\ Idle.s = None
        /\ Idle.snapshot = None /\ Idle.answer = None
    BY DEF Idle
  <1>n. /\ None \notin Kinds \cup Goals \cup Answers /\ None \notin SessionIds
    BY NoneAssumption
  <1>1. TypeOK
    <2>1. server \in Histories /\ mirror \in Histories
      BY DEF Init, Histories
    <2>2. Idle \in Operations
      BY DEF Idle, Operations
    <2>3. Fits(Idle)
      BY <1>n DEF Fits, Idle, Kinds, Goals, Answers, Writing
    <2>4. op \in [Procs -> Operations] /\ \A p \in Procs : Fits(op[p])
      BY <1>o, <2>2, <2>3 DEF Init
    <2>5. /\ fate \in [SessionIds -> Types] /\ known \subseteq SessionIds
          /\ left \in 0..MaxRequests
      BY BrowserAssumption DEF Init, Types
    <2> QED
      BY <2>1, <2>4, <2>5 DEF Init, TypeOK, Types
  <1>2. AloneOK
    BY <1>o, <1>i DEF AloneOK, Active
  <1>3. LoneOK
    BY <1>o, <1>i, <1>n DEF LoneOK, Kinds, Goals, Answers
  <1>4. KeptOK
    BY DEF Init, KeptOK
  <1>5. LackedOK
    BY <1>o, <1>i, <1>n DEF Init, LackedOK, Lacks, Kinds, Goals
  <1>6. AckedOK
    BY <1>o, <1>i, <1>n DEF Init, AckedOK, Kinds
  <1>7. AlignedOK
    <2>1. \A p \in Procs : AlignedBy(p)
      BY <1>o, <1>i, <1>n DEF AlignedBy, Kinds, Goals, Answers, Readers
    <2> QED
      BY <2>1 DEF Init, AlignedOK
  <1> QED
    BY <1>1, <1>2, <1>3, <1>4, <1>5, <1>6, <1>7 DEF IInv

\* None is no name, and the idle operation fits.
LEMMA IdleFacts ==
    /\ None \notin Kinds \cup Goals \cup Answers /\ None \notin SessionIds
    /\ Idle.at = "idle" /\ Idle.goal = None /\ Idle.kind = None /\ Idle.s = None
    /\ Idle.snapshot = None /\ Idle.answer = None
    /\ Idle \in Operations /\ Fits(Idle)
  <1>1. None \notin Kinds \cup Goals \cup Answers /\ None \notin SessionIds
    BY NoneAssumption
  <1>2. Idle \in Operations
    BY DEF Idle, Operations
  <1>3. Fits(Idle)
    BY <1>1 DEF Idle, Fits, Writing, Kinds, Goals, Answers
  <1> QED
    BY <1>1, <1>2, <1>3 DEF Idle

LEMMA TimelyFacts ==
    ASSUME NEW r \in Operations PROVE [r EXCEPT !.outdated = FALSE] \in Operations
  BY DEF Operations

\* Where an operation goes, and what it carries there.
LEMMA MovedFacts ==
    ASSUME NEW o \in Operations, NEW at \in {"idle", "check", "call", "answer"},
           NEW goal \in Goals \cup {None}, NEW data \in Histories \cup {None},
           NEW answer \in Answers \cup {None}
    PROVE  [o EXCEPT !.goal = goal, !.at = at, !.data = data, !.answer = answer] \in Operations
  BY ZenonT(30) DEF Operations

\* What Fits says, by what an operation is.
LEMMA FitsFacts ==
    ASSUME NEW r \in Operations, Fits(r)
    PROVE  /\ r.at = "idle" <=> r.kind = None
           /\ r.at = "idle" <=> r.goal = None
           /\ r.at # "idle" => (r.kind \in Readers <=> r.goal \in {"read", "post", "open"})
           /\ r.kind \in {"create", "delete", "rename", "clear"} => r.goal = "write"
           /\ r.kind \in {"create", "delete", "rename", "add", "edit", "switch", "open"} =>
                 r.s \in SessionIds
           /\ r.goal \in {"recreate", "again"} => r.kind \in {"add", "edit"}
           /\ r.kind \in {"add", "edit"} => r.m \in Messages /\ r.s = Owner[r.m]
  <1>1. /\ None \notin Kinds \cup Goals \cup Answers /\ None \notin SessionIds
        /\ Idle.goal = None /\ Idle.kind = None
    BY NoneAssumption DEF Idle
  <1>2. r.s \in SessionIds \cup {None}
    BY DEF Operations
  <1>3. CASE r.at = "idle"
    BY <1>1, <1>3 DEF Fits, Kinds, Goals
  <1>4. CASE r.at # "idle"
    BY <1>1, <1>2, <1>4, BrowserAssumption DEF Fits, Kinds, Goals, Readers, Writing
  <1> QED
    BY <1>3, <1>4

\* No operation becomes alone, and none begins.
LEMMA StillAlone ==
    ASSUME AloneOK,
           \A q \in Procs : Active(q)' => Active(q) /\ op'[q].alone = op[q].alone
    PROVE  AloneOK'
  BY DEF AloneOK

-----------------------------------------------------------------------------
(***************************************************************************)
(* Operations that go on                                                   *)
(***************************************************************************)

\* r is what o becomes without learning anything: nothing it carries is new.
GoesOn(o, r) ==
    /\ r.kind = o.kind \/ (r.kind = "load" /\ o.kind \in Readers)
    /\ r.goal = o.goal \/ r.goal = "read"
    /\ r.at # "idle" /\ r.answer \notin {"ok", "missing"}
    /\ r.s = o.s /\ r.m = o.m /\ r.snapshot = o.snapshot /\ r.data = o.data
    /\ r.alone = o.alone /\ r.served = o.served

LEMMA GoesOnInv ==
    ASSUME IInv, NEW p \in Procs, Active(p),
           NEW r \in Operations, Fits(r),
           op' = [op EXCEPT ![p] = r],
           UNCHANGED <<server, mirror, cache, left, known, fate, acked>>,
           avail' \in BOOLEAN, excused' \in BOOLEAN, excused => excused',
           \/ GoesOn(op[p], r)
           \/ r = Idle /\ (op[p].kind \notin {"create", "delete", "clear"} \/ excused')
    PROVE  IInv'
  <1> USE DEF IInv
  <1>i. /\ Idle.at = "idle" /\ Idle.goal = None /\ Idle.kind = None /\ Idle.s = None
        /\ Idle.snapshot = None /\ Idle.answer = None
    BY DEF Idle
  <1>n. /\ None \notin Kinds \cup Goals \cup Answers /\ None \notin SessionIds
    BY NoneAssumption
  <1>o. op'[p] = r /\ \A q \in Procs : q # p => op'[q] = op[q]
    BY DEF TypeOK
  <1>1. TypeOK'
    BY <1>o DEF TypeOK
  <1>2. AloneOK'
    BY <1>o, <1>i, StillAlone DEF Active, GoesOn
  <1>3. LoneOK'
    BY <1>o, <1>i, <1>n DEF LoneOK, GoesOn, Kinds, Goals, Answers, Same
  <1>4. KeptOK'
    <2> SUFFICES ASSUME NEW s \in SessionIds, fate[s] \in {"there", "kept"}, NEW q \in Procs
                 PROVE  Keeps(op[q], s) => Keeps(op'[q], s)
      BY DEF KeptOK, Keeps
    <2> QED
      BY <1>o, <1>i, <1>n DEF Keeps, GoesOn, Kinds, Goals, Answers, Readers
  <1>5. LackedOK'
    <2> SUFFICES ASSUME NEW s \in SessionIds, NEW q \in Procs
                 PROVE  Lacks(op[q], s) => Lacks(op'[q], s)
      BY DEF LackedOK, Lacks
    <2> QED
      BY <1>o, <1>i, <1>n DEF Lacks, GoesOn, Kinds, Goals, Answers
  <1>6. AckedOK'
    BY <1>o, <1>i, <1>n DEF AckedOK, GoesOn, Stored, Kinds, Goals, Answers
  <1>7. AlignedOK'
    <2> SUFFICES ASSUME ~excused, ~excused' PROVE AlignedOK'
      BY DEF AlignedOK
    <2>1. ASSUME NEW q \in Procs, AlignedBy(q) PROVE AlignedBy(q)'
      <3>1. \A k \in Procs : op'[k].s = op[k].s \/ op'[k].s = None
        BY <1>o, <1>i DEF GoesOn
      <3>2. CASE q # p
        <4>1. op[q].kind = "create" => op[q].s # None
          BY <1>n, FitsFacts DEF TypeOK
        <4> QED
          BY <1>o, <2>1, <3>1, <3>2, <4>1 DEF AlignedBy, Same
      <3>3. CASE q = p /\ r = Idle
        BY <1>o, <1>i, <1>n, <3>3 DEF AlignedBy, Kinds, Goals, Answers, Readers
      <3>4. CASE q = p /\ GoesOn(op[p], r)
        BY <1>o, <1>n, <2>1, <3>4 DEF AlignedBy, GoesOn, Kinds, Goals, Answers, Readers, Same
      <3> QED
        BY <3>2, <3>3, <3>4
    <2>2. Clearing' <=> Clearing
      BY <1>o, <1>i, <1>n DEF Clearing, GoesOn, Kinds, Readers
    <2>3. \A s : Pending(s)' <=> Pending(s)
      BY <1>o, <1>i, <1>n DEF Pending, GoesOn, Kinds, Readers
    <2> QED
      BY <2>1, <2>2, <2>3 DEF AlignedOK, Same
  <1> QED
    BY <1>1, <1>2, <1>3, <1>4, <1>5, <1>6, <1>7

\* The check, the failed request, its repetition, the ends of operations that
\* change nothing.
LEMMA GoingOnInv ==
    ASSUME IInv, NEW p \in Procs,
           \/ CheckSucceeds(p) \/ CheckThrows(p) \/ CallFails(p) \/ Retry(p)
           \/ ReadThrows(p) \/ OpenSucceeds(p) \/ RecoverThrows(p) \/ AgainThrows(p)
    PROVE  IInv'
  <1> USE DEF Continue, Become, Answered, Fails, Excuse
  <1> DEFINE o == op[p]
  <1>o. o \in Operations /\ Fits(o) /\ excused \in BOOLEAN /\ avail \in BOOLEAN
    BY DEF IInv, TypeOK
  <1>i. Idle \in Operations /\ Fits(Idle)
    BY NoneAssumption DEF Idle, Operations, Fits, Writing, Kinds, Goals, Answers
  <1>n. None \notin {"ok", "missing", "lost", "refused", "unfound"}
    BY NoneAssumption DEF Answers
  <1>1. CASE CheckSucceeds(p)
    <2> DEFINE r == [o EXCEPT !.at = "call"]
    <2>0. /\ Active(p) /\ o.at = "check"
          /\ op' = [op EXCEPT ![p] = r]
          /\ UNCHANGED <<server, mirror, cache, left, known, fate, acked, excused>>
          /\ avail' = TRUE
      BY <1>1 DEF CheckSucceeds, Active
    <2>1. r \in Operations /\ Fits(r) /\ GoesOn(o, r)
      BY <1>o, <1>n, <2>0 DEF Operations, Fits, GoesOn
    <2> QED
      BY <1>o, <2>0, <2>1, GoesOnInv
  <1>2. CASE CallFails(p)
    <2>0. PICK answer \in {"lost", "refused"} \cup (IF LooksUp(o) THEN {"unfound"} ELSE {}) :
             op' = [op EXCEPT ![p] = [o EXCEPT !.at = "answer", !.answer = answer,
                                               !.outdated = FALSE]]
      BY <1>2 DEF CallFails
    <2> DEFINE r == [o EXCEPT !.at = "answer", !.answer = answer, !.outdated = FALSE]
    <2>1. /\ Active(p) /\ o.at = "call"
          /\ UNCHANGED <<server, mirror, cache, left, known, fate, acked, excused, avail>>
      BY <1>2 DEF CallFails, Active
    <2>2. r \in Operations
      BY <1>o DEF Operations, Answers
    <2>3. GoesOn(o, r)
      BY <1>o, <1>n, <2>1 DEF Operations, GoesOn
    <2>4. Fits(r)
      BY <1>o, <1>n, <2>1 DEF Operations, Fits, Answers, LooksUp
    <2> QED
      BY <1>o, <2>0, <2>1, <2>2, <2>3, <2>4, GoesOnInv
  <1>3. CASE Retry(p)
    <2> DEFINE r == [o EXCEPT !.at = "call", !.tries = 1, !.answer = None]
    <2>0. /\ Active(p) /\ o.at = "answer" /\ o.goal \in Writing
          /\ op' = [op EXCEPT ![p] = r]
          /\ UNCHANGED <<server, mirror, cache, left, known, fate, acked, excused, avail>>
      BY <1>3 DEF Retry, Active, Writing
    <2>1. r \in Operations
      BY <1>o DEF Operations
    <2>2. GoesOn(o, r)
      BY <1>o, <1>n, <2>0 DEF Operations, GoesOn
    <2>3. Fits(r)
      BY <1>o, <1>n, <2>0 DEF Operations, Fits
    <2> QED
      BY <1>o, <2>0, <2>1, <2>2, <2>3, GoesOnInv
  <1>4. CASE CheckThrows(p) \/ ReadThrows(p) \/ OpenSucceeds(p) \/ RecoverThrows(p) \/ AgainThrows(p)
    <2>1. /\ Active(p)
          /\ op' = [op EXCEPT ![p] = Idle]
          /\ UNCHANGED <<server, mirror, cache, left, known, fate, acked, avail>>
          /\ excused' \in BOOLEAN /\ (excused => excused')
      BY <1>o, <1>4 DEF CheckThrows, ReadThrows, OpenSucceeds, RecoverThrows, AgainThrows, Active
    <2>2. o.kind \notin {"create", "delete", "clear"} \/ excused'
      BY <1>o, <1>4, FitsFacts
         DEF CheckThrows, ReadThrows, OpenSucceeds, RecoverThrows, AgainThrows
    <2> QED
      BY <1>o, <1>i, <2>1, <2>2, GoesOnInv
  <1> QED
    BY <1>1, <1>2, <1>3, <1>4

\* getSession becomes a read of the history.
LEMMA OpenFromHistoryInv ==
    ASSUME IInv, NEW p \in Procs, op[p].goal = "open",
           OpenFromHistory(p), UNCHANGED <<avail, fate, excused>>
    PROVE  IInv'
  <1> USE DEF OpenFromHistory, Continue, Become
  <1> DEFINE o == op[p]
             r == [o EXCEPT !.kind = "load", !.goal = "read", !.at = Available, !.answer = None]
  <1>o. o \in Operations /\ Fits(o) /\ excused \in BOOLEAN /\ avail \in BOOLEAN
    BY DEF IInv, TypeOK
  <1>n. /\ None \notin {"ok", "missing", "unfound"} /\ Available \in {"call", "check"}
    BY NoneAssumption DEF Answers, Available
  <1>0. Active(p) /\ o.kind \in Readers /\ o.kind \notin {"create", "delete", "clear"}
    BY <1>o, NoneAssumption, FitsFacts DEF Active, Goals, Readers
  <1>1. CASE cache # None
    <2>1. op' = [op EXCEPT ![p] = Idle]
      BY <1>1
    <2>2. Idle \in Operations /\ Fits(Idle)
      BY NoneAssumption DEF Idle, Operations, Fits, Writing, Kinds, Goals, Answers
    <2> QED
      BY <1>o, <1>0, <2>1, <2>2, GoesOnInv
  <1>2. CASE cache = None
    <2>1. op' = [op EXCEPT ![p] = r]
      BY <1>2
    <2>2. r \in Operations
      BY <1>o, <1>n DEF Operations, Kinds, Goals
    <2>3. GoesOn(o, r)
      BY <1>o, <1>n, <1>0 DEF Operations, GoesOn
    <2>4. Fits(r)
      BY <1>o, <1>n, <1>0 DEF Fits, Operations, Writing
    <2> QED
      BY <1>o, <1>0, <2>1, <2>2, <2>3, <2>4, GoesOnInv
  <1> QED
    BY <1>1, <1>2

-----------------------------------------------------------------------------
(***************************************************************************)
(* Operations that end                                                     *)
(***************************************************************************)

\* What the end of p has to come to: where a session's fate becomes final the
\* three places agree with it and no other operation is in progress, and
\* mirror and server agree on what p was creating or deleting.
EndsWell(p) ==
    /\ mirror' \in Histories /\ cache' \in {None, cache}
    /\ known' \subseteq SessionIds /\ acked' \subseteq Messages
    /\ fate' \in [SessionIds -> Types]
    /\ avail' \in BOOLEAN /\ excused' \in BOOLEAN
    /\ \A s \in SessionIds :
          /\ fate'[s] \in {fate[s], "open"} \/ (op[p].alone /\ cache' = None)
          /\ fate'[s] \in {"there", "kept"} => mirror'[s] # None
          /\ fate'[s] = "there" => server[s] # None
          /\ fate'[s] \in {"fresh", "gone", "hidden"} => mirror'[s] = None
          /\ fate'[s] \in {"fresh", "gone"} => server[s] = None
          /\ fate'[s] = "fresh" => s \notin known'
          /\ fate'[s] = "fresh" <=> fate[s] = "fresh"
    /\ \A m \in acked' : Stored(m)
    /\ ~excused' =>
          /\ ~excused
          /\ \A q \in Procs : q # p /\ op[q].kind = "create" => op[q].s \notin known'
          /\ \/ op[p].alone /\ Same(mirror', server)
             \/ /\ op[p].kind # "clear"
                /\ Same(mirror', mirror)
                /\ op[p].kind \in {"create", "delete"} =>
                     (mirror'[op[p].s] = None <=> server[op[p].s] = None)

LEMMA EndsInv ==
    ASSUME IInv, NEW p \in Procs, Active(p), EndsWell(p),
           op' = [op EXCEPT ![p] = Idle],
           UNCHANGED <<server, left>>
    PROVE  IInv'
  <1> USE DEF IInv, EndsWell
  <1>i. /\ None \notin Kinds \cup Goals \cup Answers /\ None \notin SessionIds
        /\ Idle.at = "idle" /\ Idle.goal = None /\ Idle.kind = None /\ Idle.s = None
        /\ Idle.snapshot = None /\ Idle.answer = None
        /\ Idle \in Operations /\ Fits(Idle)
    BY IdleFacts
  <1>o. op'[p] = Idle /\ \A q \in Procs : q # p => op'[q] = op[q]
    BY DEF TypeOK
  <1>a. \A q \in Procs : op[q].alone /\ q # p => op[q] = Idle
    BY DEF AloneOK, Active, TypeOK, Fits
  <1>b. \A q \in Procs : op[p].alone /\ q # p => op[q] = Idle
    BY DEF AloneOK, Active, TypeOK, Fits
  <1>1. TypeOK'
    BY <1>o, <1>i DEF TypeOK, Types
  <1>2. AloneOK'
    BY <1>o, <1>i, StillAlone DEF Active
  <1>3. LoneOK'
    <2>1. \A q \in Procs : op'[q].alone => op'[q] = Idle
      BY <1>o, <1>a
    <2> QED
      BY <2>1, <1>i DEF LoneOK, Kinds, Goals, Answers
  <1>4. KeptOK'
    <2> SUFFICES ASSUME NEW s \in SessionIds, fate'[s] \in {"there", "kept"}
                 PROVE  /\ cache' # None => cache'[s] # None
                        /\ \A q \in Procs : Keeps(op[q], s)'
      BY DEF KeptOK
    <2>0. fate'[s] = fate[s] \/ (op[p].alone /\ cache' = None)
      OBVIOUS
    <2>1. CASE op[p].alone /\ cache' = None
      <3>1. \A q \in Procs : op'[q] = Idle
        BY <1>o, <1>b, <2>1
      <3> QED
        BY <1>i, <2>1, <3>1 DEF Keeps, Kinds, Goals
    <2>2. CASE fate'[s] = fate[s]
      <3>1. ASSUME NEW q \in Procs PROVE Keeps(op[q], s)'
        <4>1. CASE q = p
          BY <1>o, <1>i, <4>1 DEF Keeps, Kinds, Goals
        <4>2. CASE q # p
          BY <1>o, <2>2, <4>2 DEF KeptOK, Keeps
        <4> QED
          BY <4>1, <4>2
      <3> QED
        BY <2>2, <3>1 DEF KeptOK
    <2> QED
      BY <2>0, <2>1, <2>2
  <1>5. LackedOK'
    <2> SUFFICES ASSUME NEW s \in SessionIds, fate'[s] \in {"fresh", "gone", "hidden"}
                 PROVE  /\ cache' # None => cache'[s] = None
                        /\ \A q \in Procs : Lacks(op[q], s)'
      BY DEF LackedOK
    <2>0. fate'[s] = fate[s] \/ (op[p].alone /\ cache' = None)
      OBVIOUS
    <2>1. CASE op[p].alone /\ cache' = None
      <3>1. \A q \in Procs : op'[q] = Idle
        BY <1>o, <1>b, <2>1
      <3> QED
        BY <1>i, <2>1, <3>1 DEF Lacks, Kinds, Goals
    <2>2. CASE fate'[s] = fate[s]
      <3>1. ASSUME NEW q \in Procs PROVE Lacks(op[q], s)'
        <4>1. CASE q = p
          BY <1>o, <1>i, <4>1 DEF Lacks, Kinds, Goals
        <4>2. CASE q # p
          BY <1>o, <2>2, <4>2 DEF LackedOK, Lacks
        <4> QED
          BY <4>1, <4>2
      <3> QED
        BY <2>2, <3>1 DEF LackedOK
    <2> QED
      BY <2>0, <2>1, <2>2
  <1>6. AckedOK'
    BY <1>o, <1>i DEF AckedOK, Stored, Kinds
  <1>7. AlignedOK'
    <2> SUFFICES ASSUME ~excused, ~excused' PROVE AlignedOK'
      BY DEF AlignedOK
    <2>c. cache' # None => Same(cache', server)
      BY DEF AlignedOK
    <2>1. CASE op[p].alone /\ Same(mirror', server)
      <3>1. \A q \in Procs : op'[q] = Idle
        BY <1>o, <1>b, <2>1
      <3>2. \A q \in Procs : AlignedBy(q)'
        BY <1>i, <3>1 DEF AlignedBy, Readers, Kinds, Goals, Answers
      <3> QED
        BY <2>1, <2>c, <3>2 DEF AlignedOK, Same
    <2>2. CASE /\ op[p].kind # "clear"
               /\ Same(mirror', mirror)
               /\ op[p].kind \in {"create", "delete"} =>
                    (mirror'[op[p].s] = None <=> server[op[p].s] = None)
      <3>1. ASSUME NEW q \in Procs PROVE AlignedBy(q)'
        <4>1. CASE q = p
          BY <1>o, <1>i, <4>1 DEF AlignedBy, Readers, Kinds, Goals, Answers
        <4>2. CASE q # p
          <5>1. AlignedBy(q) /\ op[q] \in Operations /\ Fits(op[q])
            BY DEF AlignedOK, TypeOK
          <5>2. /\ op[q].kind \in {"create", "delete"} => op[q].s \in SessionIds
                /\ op[q].answer = "missing" => op[q].s \in SessionIds
            BY <5>1, FitsFacts DEF Fits, Operations
          <5>3. \A k \in Procs : op'[k].s = op[k].s \/ op'[k].s = None
            BY <1>o, <1>i
          <5>4. op[q].kind = "create" =>
                  op[q].s \notin known' /\ fate'[op[q].s] # "fresh" /\ op[q].s # None
            BY <1>i, <4>2, <5>1, <5>2 DEF AlignedBy
          <5> QED
            BY <1>o, <2>2, <4>2, <5>1, <5>2, <5>3, <5>4 DEF AlignedBy, Same
        <4> QED
          BY <4>1, <4>2
      <3>2. ~Clearing' => ~Clearing
        BY <1>o, <2>2 DEF Clearing
      <3>3. ASSUME NEW s \in SessionIds, ~Clearing, ~Pending(s)'
            PROVE  mirror'[s] = None <=> server[s] = None
        <4>1. CASE Pending(s)
          <5>1. op[p].kind \in {"create", "delete"} /\ op[p].s = s
            BY <1>o, <3>3, <4>1 DEF Pending
          <5> QED
            BY <2>2, <5>1
        <4>2. CASE ~Pending(s)
          BY <2>2, <3>3, <4>2 DEF AlignedOK, Same
        <4> QED
          BY <4>1, <4>2
      <3> QED
        BY <2>c, <3>1, <3>2, <3>3 DEF AlignedOK, Same
    <2> QED
      BY <2>1, <2>2
  <1> QED
    BY <1>1, <1>2, <1>3, <1>4, <1>5, <1>6, <1>7

\* Applied changes only the session the operation is about.
LEMMA AppliedFacts ==
    ASSUME NEW r \in Operations, Fits(r), NEW h \in Histories, r.kind \notin Readers \cup {None}
    PROVE  /\ Applied(r, h) \in Histories
           /\ r.kind = "create" => \A s \in SessionIds :
                 Applied(r, h)[s] = IF s = r.s THEN {} ELSE h[s]
           /\ r.kind = "delete" => \A s \in SessionIds :
                 Applied(r, h)[s] = IF s = r.s THEN None ELSE h[s]
           /\ r.kind = "clear" => \A s \in SessionIds : Applied(r, h)[s] = None
           /\ r.kind = "add" =>
                 /\ \A s \in SessionIds :
                       /\ Applied(r, h)[s] = None <=> h[s] = None
                       /\ h[s] # None => h[s] \subseteq Applied(r, h)[s]
                 /\ h[r.s] # None => r.m \in Applied(r, h)[r.s]
           /\ r.kind \in {"edit", "rename"} => Applied(r, h) = h
  <1> USE BrowserAssumption
  <1>0. r.kind \in {"create", "delete", "clear", "add", "edit", "rename"}
    BY DEF Operations, Kinds, Readers
  <1>1. CASE r.kind = "create"
    <2>1. r.s \in SessionIds
      BY <1>1, FitsFacts
    <2> QED
      BY <1>1, <2>1 DEF Applied, With, Histories
  <1>2. CASE r.kind = "delete"
    <2>1. r.s \in SessionIds
      BY <1>2, FitsFacts
    <2> QED
      BY <1>2, <2>1 DEF Applied, Without, Histories
  <1>3. CASE r.kind = "clear"
    BY <1>3 DEF Applied, Empty, Histories
  <1>4. CASE r.kind = "add"
    <2>1. r.m \in Messages /\ r.s = Owner[r.m] /\ r.s \in SessionIds
      BY <1>4, FitsFacts
    <2>2. Applied(r, h) = IF h[r.s] = None THEN h ELSE [h EXCEPT ![r.s] = h[r.s] \cup {r.m}]
      BY <1>4, <2>1 DEF Applied, Add, Histories
    <2>3. CASE h[r.s] = None
      BY <1>4, <2>2, <2>3
    <2>4. CASE h[r.s] # None
      <3>1. h[r.s] \in SUBSET Messages /\ h[r.s] \cup {r.m} \in SUBSET Messages
        BY <2>1, <2>4 DEF Histories
      <3>2. h[r.s] \cup {r.m} # None
        BY <3>1, NoneAssumption
      <3>3. Applied(r, h) \in Histories
        BY <2>1, <2>2, <2>4, <3>1 DEF Histories
      <3>4. \A s \in SessionIds :
               Applied(r, h)[s] = IF s = r.s THEN h[r.s] \cup {r.m} ELSE h[s]
        BY <2>1, <2>2, <2>4 DEF Histories
      <3> QED
        BY <1>4, <2>1, <2>4, <3>2, <3>3, <3>4
    <2> QED
      BY <2>3, <2>4
  <1>5. CASE r.kind \in {"edit", "rename"}
    BY <1>5 DEF Applied
  <1> QED
    BY <1>0, <1>1, <1>2, <1>3, <1>4, <1>5

\* A write whose answer has come is applied once more: what it has done to the
\* server is still so, if it was alone.
LEMMA WriteSucceedsInv ==
    ASSUME IInv, NEW p \in Procs, WriteSucceeds(p) PROVE IInv'
  <1> USE DEF IInv
  <1> DEFINE r == op[p]
  <1>i. /\ None \notin Kinds \cup Goals \cup Answers /\ None \notin SessionIds
        /\ {} # None
    BY IdleFacts, NoneAssumption
  <1>0. /\ r.at = "answer" /\ r.goal = "write" /\ r.answer = "ok"
        /\ mirror' = Applied(r, mirror)
        /\ acked' = Acknowledged(r)
        /\ known' = IF r.kind = "create" THEN known \cup {r.s} ELSE known
        /\ op' = [op EXCEPT ![p] = Idle]
        /\ UNCHANGED <<server, cache, avail, left, excused>>
    BY DEF WriteSucceeds, Answered, Become
  <1>f. fate' = CASE r.alone /\ r.kind = "create" /\ ~r.outdated -> [fate EXCEPT ![r.s] = "there"]
                  [] r.alone /\ r.kind = "delete" -> [fate EXCEPT ![r.s] = "gone"]
                  [] r.alone /\ r.kind = "clear" -> Every("gone")
                  [] OTHER -> fate
    BY DEF WriteSucceeds
  <1>1. /\ r \in Operations /\ Fits(r) /\ Active(p)
        /\ r.kind \notin Readers \cup {None}
        /\ r.kind \in {"create", "delete", "clear", "add", "edit", "rename"}
    BY <1>0, <1>i, FitsFacts DEF TypeOK, Active, Readers, Operations, Kinds, Goals
  <1>2. /\ r.kind \in {"create", "delete"} => r.s \in SessionIds
        /\ r.kind = "add" => r.m \in Messages /\ r.s = Owner[r.m]
    BY <1>1, FitsFacts
  <1>t. /\ mirror \in Histories /\ mirror' \in Histories
        /\ fate \in [SessionIds -> Types]
    BY <1>0, <1>1, AppliedFacts DEF TypeOK, Types
  <1>l. r.alone =>
          /\ r.kind \in {"create", "delete", "clear"} => cache = None
          /\ r.kind = "create" /\ ~r.outdated => server[r.s] # None
          /\ r.kind = "delete" => server[r.s] = None
          /\ r.kind = "clear" => \A s \in SessionIds : server[s] = None
    BY <1>0 DEF LoneOK
  <1>k. \A s \in SessionIds : fate[s] \in {"there", "kept"} =>
          /\ mirror[s] # None /\ (fate[s] = "there" => server[s] # None)
          /\ r.kind # "clear" /\ ~(r.kind = "delete" /\ r.s = s)
    BY DEF KeptOK, Keeps
  <1>x. \A s \in SessionIds : fate[s] \in {"fresh", "gone", "hidden"} =>
          /\ mirror[s] = None /\ (fate[s] # "hidden" => server[s] = None)
          /\ ~(r.kind = "create" /\ r.s = s)
          /\ fate[s] = "fresh" => s \notin known /\ r.s # s
    BY DEF LackedOK, Lacks
  <1>3. \A s \in SessionIds :
          \/ fate'[s] = fate[s]
          \/ r.alone /\ r.kind = "create" /\ ~r.outdated /\ s = r.s /\ fate'[s] = "there"
          \/ r.alone /\ r.kind = "delete" /\ s = r.s /\ fate'[s] = "gone"
          \/ r.alone /\ r.kind = "clear" /\ fate'[s] = "gone" /\ fate[s] # "fresh"
    <2>1. CASE r.alone /\ r.kind = "create" /\ ~r.outdated
      BY <1>f, <1>t, <1>2, <2>1
    <2>2. CASE r.alone /\ r.kind = "delete"
      BY <1>f, <1>t, <1>2, <2>2
    <2>3. CASE r.alone /\ r.kind = "clear"
      BY <1>f, <1>t, <2>3 DEF Every
    <2>4. CASE ~(r.alone /\ ((r.kind = "create" /\ ~r.outdated) \/ r.kind \in {"delete", "clear"}))
      BY <1>f, <2>4
    <2> QED
      BY <2>1, <2>2, <2>3, <2>4
  <1>4. \A s \in SessionIds :
          mirror'[s] = None <=> \/ r.kind = "clear"
                                \/ r.kind = "delete" /\ s = r.s
                                \/ mirror[s] = None /\ ~(r.kind = "create" /\ s = r.s)
    <2>1. CASE r.kind = "create"
      BY <1>0, <1>1, <1>t, <1>i, <2>1, AppliedFacts
    <2>2. CASE r.kind = "delete"
      BY <1>0, <1>1, <1>t, <2>2, AppliedFacts
    <2>3. CASE r.kind = "clear"
      BY <1>0, <1>1, <1>t, <2>3, AppliedFacts
    <2>4. CASE r.kind = "add"
      BY <1>0, <1>1, <1>t, <2>4, AppliedFacts
    <2>5. CASE r.kind \in {"edit", "rename"}
      BY <1>0, <1>1, <1>t, <2>5, AppliedFacts
    <2> QED
      BY <1>1, <2>1, <2>2, <2>3, <2>4, <2>5
  <1>5. EndsWell(p)
    <2>1. /\ fate' \in [SessionIds -> Types] /\ known' \subseteq SessionIds
          /\ acked' \subseteq Messages /\ avail' \in BOOLEAN /\ excused' \in BOOLEAN
      <3>1. fate' \in [SessionIds -> Types]
        <4>1. \A S : [fate EXCEPT ![r.s] = "there"] \in [SessionIds -> Types] /\
                 [fate EXCEPT ![r.s] = "gone"] \in [SessionIds -> Types] /\
                 Every("gone") \in [SessionIds -> Types]
          BY <1>t DEF Types, Every
        <4> QED
          BY <4>1, <1>f, <1>t
      <3>2. known' \subseteq SessionIds
        BY <1>0, <1>2 DEF TypeOK
      <3>3. acked' \subseteq Messages
        BY <1>0, <1>2 DEF TypeOK, Acknowledged
      <3> QED
        BY <1>0, <3>1, <3>2, <3>3 DEF TypeOK
    <2>2. ASSUME NEW s \in SessionIds
          PROVE  /\ fate'[s] \in {fate[s], "open"} \/ (op[p].alone /\ cache' = None)
                 /\ fate'[s] \in {"there", "kept"} => mirror'[s] # None
                 /\ fate'[s] = "there" => server[s] # None
                 /\ fate'[s] \in {"fresh", "gone", "hidden"} => mirror'[s] = None
                 /\ fate'[s] \in {"fresh", "gone"} => server[s] = None
                 /\ fate'[s] = "fresh" => s \notin known'
                 /\ fate'[s] = "fresh" <=> fate[s] = "fresh"
      <3>1. CASE fate'[s] = fate[s]
        BY <3>1, <1>0, <1>4, <1>k, <1>x
      <3>2. CASE r.alone /\ r.kind = "create" /\ ~r.outdated /\ s = r.s /\ fate'[s] = "there"
        BY <3>2, <1>0, <1>4, <1>l, <1>x
      <3>3. CASE r.alone /\ r.kind = "delete" /\ s = r.s /\ fate'[s] = "gone"
        BY <3>3, <1>0, <1>4, <1>l, <1>x
      <3>4. CASE r.alone /\ r.kind = "clear" /\ fate'[s] = "gone" /\ fate[s] # "fresh"
        BY <3>4, <1>0, <1>4, <1>l
      <3> QED
        BY <1>3, <3>1, <3>2, <3>3, <3>4
    <2>3. \A m \in acked' : Stored(m)
      BY <1>0 DEF Acknowledged, AckedOK
    <2>4. ASSUME ~excused
          PROVE  /\ \A q \in Procs : q # p /\ op[q].kind = "create" => op[q].s \notin known'
                 /\ \/ op[p].alone /\ Same(mirror', server)
                    \/ /\ op[p].kind # "clear"
                       /\ Same(mirror', mirror)
                       /\ op[p].kind \in {"create", "delete"} =>
                            (mirror'[op[p].s] = None <=> server[op[p].s] = None)
      <3>1. \A q \in Procs : AlignedBy(q)
        BY <2>4 DEF AlignedOK
      <3>2. \A q \in Procs : q # p /\ op[q].kind = "create" => op[q].s \notin known'
        BY <1>0, <3>1 DEF AlignedBy
      <3>3. CASE r.kind = "clear"
        BY <1>0, <1>4, <3>1, <3>2, <3>3 DEF AlignedBy, Same
      <3>4. CASE r.kind # "clear"
        <4>1. /\ r.kind = "create" => mirror[r.s] # None /\ server[r.s] # None
              /\ r.kind = "delete" => mirror[r.s] = None /\ server[r.s] = None
          BY <1>0, <3>1 DEF AlignedBy
        <4> QED
          BY <1>2, <1>4, <3>2, <3>4, <4>1 DEF Same
      <3> QED
        BY <3>3, <3>4
    <2> QED
      BY <1>0, <1>t, <2>1, <2>2, <2>3, <2>4 DEF EndsWell
  <1> QED
    BY <1>0, <1>1, <1>5, EndsInv

\* After a recovery the write is applied as after any other.
LEMMA AgainSucceedsInv ==
    ASSUME IInv, NEW p \in Procs, AgainSucceeds(p) PROVE IInv'
  <1> USE DEF IInv
  <1> DEFINE r == op[p]
  <1>i. None \notin Kinds \cup Goals \cup Answers
    BY IdleFacts
  <1>0. /\ r.at = "answer" /\ r.goal = "again" /\ r.answer = "ok"
        /\ mirror' = Applied(r, mirror)
        /\ acked' = Acknowledged(r)
        /\ op' = [op EXCEPT ![p] = Idle]
        /\ UNCHANGED <<server, cache, avail, left, known, fate, excused>>
    BY DEF AgainSucceeds, Answered, Become
  <1>1. /\ r \in Operations /\ Fits(r) /\ Active(p)
        /\ r.kind \in {"add", "edit"} /\ r.kind \notin Readers \cup {None}
    BY <1>0, <1>i, FitsFacts DEF TypeOK, Active, Readers, Kinds
  <1>2. /\ mirror' \in Histories
        /\ \A s \in SessionIds : mirror'[s] = None <=> mirror[s] = None
    BY <1>0, <1>1, AppliedFacts DEF TypeOK
  <1>3. EndsWell(p)
    <2>1. acked' \subseteq Messages
      BY <1>0, <1>1, FitsFacts DEF TypeOK, Acknowledged
    <2>2. \A m \in acked' : Stored(m)
      BY <1>0 DEF Acknowledged, AckedOK
    <2>3. ~excused => FALSE
      BY <1>0 DEF AlignedOK, AlignedBy
    <2> QED
      BY <1>0, <1>2, <2>1, <2>2, <2>3 DEF EndsWell, TypeOK, Types, KeptOK, LackedOK
  <1> QED
    BY <1>0, <1>1, <1>3, EndsInv

\* The rollback puts back what agrees with the fates, and with the server if
\* the operation was alone and its requests changed nothing.
LEMMA WriteRejectedInv ==
    ASSUME IInv, NEW p \in Procs, WriteRejected(p) PROVE IInv'
  <1> USE DEF IInv
  <1> DEFINE r == op[p]
  <1>i. None \notin Kinds \cup Goals \cup Answers
    BY IdleFacts
  <1>0. /\ r.at = "answer" /\ r.goal = "write"
        /\ avail' = FALSE
        /\ mirror' = IF r.snapshot = None THEN mirror ELSE r.snapshot
        /\ op' = [op EXCEPT ![p] = Idle]
        /\ excused' = (excused \/ ~r.alone \/ r.served)
        /\ UNCHANGED <<server, cache, left, known, fate, acked>>
    BY DEF WriteRejected, Fails, Answered, Continue, Become, Excuse
  <1>1. /\ r \in Operations /\ Fits(r) /\ Active(p)
        /\ r.kind \notin Readers /\ (r.snapshot = None <=> r.kind = "clear")
    BY <1>0, <1>i, FitsFacts DEF TypeOK, Active, Readers, Kinds, Fits, Writing
  <1>2. r.snapshot \in Histories \cup {None} /\ r.served \in BOOLEAN /\ r.alone \in BOOLEAN
    BY <1>1 DEF Operations
  <1>3. mirror' \in Histories
    BY <1>0, <1>2 DEF TypeOK
  <1>4. \A s \in SessionIds :
          /\ fate[s] \in {"there", "kept"} => mirror'[s] # None
          /\ fate[s] \in {"fresh", "gone", "hidden"} => mirror'[s] = None
    <2>1. ASSUME NEW s \in SessionIds, fate[s] \in {"there", "kept"} PROVE mirror'[s] # None
      BY <1>0, <2>1 DEF KeptOK, Keeps
    <2>2. ASSUME NEW s \in SessionIds, fate[s] \in {"fresh", "gone", "hidden"}
          PROVE  mirror'[s] = None
      BY <1>0, <2>2 DEF LackedOK, Lacks
    <2> QED
      BY <2>1, <2>2
  <1>5. ~excused' => Same(mirror', server)
    <2> SUFFICES ASSUME ~excused, r.alone, ~r.served PROVE Same(mirror', server)
      BY <1>0, <1>2
    <2>1. AlignedBy(p)
      BY DEF AlignedOK
    <2>2. CASE r.snapshot = None
      BY <1>0, <1>1, <2>1, <2>2 DEF AlignedBy
    <2>3. CASE r.snapshot # None
      BY <1>0, <2>1, <2>3 DEF AlignedBy
    <2> QED
      BY <2>2, <2>3
  <1>6. EndsWell(p)
    <2>1. ~excused => \A q \in Procs : op[q].kind = "create" => op[q].s \notin known
      BY DEF AlignedOK, AlignedBy
    <2>2. excused' \in BOOLEAN
      BY <1>0, <1>2 DEF TypeOK
    <2>3. \A m \in acked : Stored(m)
      BY DEF AckedOK
    <2>4. ASSUME NEW s \in SessionIds
          PROVE  /\ fate[s] = "there" => server[s] # None
                 /\ fate[s] \in {"fresh", "gone"} => server[s] = None
                 /\ fate[s] = "fresh" => s \notin known
      BY DEF KeptOK, LackedOK
    <2> QED
      BY <1>0, <1>2, <1>3, <1>4, <1>5, <2>1, <2>2, <2>3, <2>4 DEF EndsWell, TypeOK, Types, Stored
  <1> QED
    BY <1>0, <1>1, <1>6, EndsInv

\* A session the server was said to lack goes from the mirror.  If its fate is
\* that it is there the tab was misled; if nothing is excused the mirror lacks
\* it already.
LEMMA MissingInv ==
    ASSUME IInv, NEW p \in Procs, op[p].at = "answer",
           OpenMissing(p) \/ SessionMissing(p) \/ RecoverFails(p)
    PROVE  IInv'
  <1> USE DEF IInv
  <1> DEFINE r == op[p]
  <1>i. None \notin Kinds \cup Goals \cup Answers
    BY IdleFacts
  <1>g. /\ r.goal = "open" \/ r.goal = "recreate" \/ (r.goal = "write" /\ r.kind \in {"rename", "delete"})
        /\ r.answer \in NotFound \/ (r.goal = "recreate" /\ r.answer # "unfound")
    BY DEF OpenMissing, SessionMissing, RecoverFails, Fails, Answered
  <1>0. /\ r.answer \in NotFound \/ r.goal = "recreate"
        /\ mirror' = [mirror EXCEPT ![r.s] = None]
        /\ op' = [op EXCEPT ![p] = Idle]
        /\ excused' = (excused \/ (r.goal # "recreate" /\ Misled(r)) \/ (r.goal = "recreate" /\ r.served))
        /\ UNCHANGED <<server, cache, avail, left, known, acked>>
    BY DEF OpenMissing, SessionMissing, RecoverFails, Fails, Answered, Continue, Become,
           Purge, Without, Excuse
  <1>f. \/ fate' = [fate EXCEPT ![r.s] = IF fate[r.s] = "kept" \/ (Misled(r) /\ fate[r.s] = "there")
                                        THEN "open" ELSE fate[r.s]]
        \/ /\ r.goal = "write" /\ r.kind = "delete" /\ r.answer = "missing"
           /\ fate' = IF r.alone THEN [fate EXCEPT ![r.s] = "gone"] ELSE fate
    <2>1. fate \in [SessionIds -> Types]
      BY DEF TypeOK, Types
    <2>2. r.answer = "unfound" => r.goal = "open" \/ r.kind = "rename"
      BY <1>g, <1>i DEF TypeOK, Fits, LooksUp
    <2>3. CASE SessionMissing(p) /\ r.kind = "delete"
      BY <2>2, <2>3 DEF SessionMissing, Fails, Answered, NotFound
    <2>4. CASE OpenMissing(p) \/ (SessionMissing(p) /\ r.kind = "rename")
      BY <2>1, <2>4 DEF OpenMissing, SessionMissing, Purge
    <2>5. CASE RecoverFails(p)
      BY <2>1, <2>5 DEF RecoverFails, Purge, Fails, Answered, Misled
    <2> QED
      BY <2>3, <2>4, <2>5 DEF SessionMissing
  <1>1. /\ r \in Operations /\ Fits(r) /\ Active(p)
        /\ r.s \in SessionIds /\ r.kind # "clear" /\ r.kind # "create"
        /\ r.served \in BOOLEAN
    <2>1. r \in Operations /\ Fits(r) /\ Active(p)
      BY <1>0, <1>i DEF TypeOK, Active
    <2>2. r.s \in SessionIds
      BY <1>0, <1>g, <2>1, FitsFacts DEF Fits, Operations, NotFound, LooksUp
    <2>3. r.kind # "clear"
      BY <1>0, <1>g, <1>i, <2>1, <2>2, IdleFacts DEF Fits, Kinds, Goals, Answers
    <2>4. r.kind # "create"
      BY <1>0, <2>1, FitsFacts DEF OpenMissing, SessionMissing, RecoverFails, Fails, Answered, Readers, Active
    <2> QED
      BY <2>1, <2>2, <2>3, <2>4 DEF Operations
  <1>t. /\ mirror \in Histories /\ mirror' \in Histories
        /\ fate \in [SessionIds -> Types] /\ fate' \in [SessionIds -> Types]
        /\ mirror'[r.s] = None /\ \A s \in SessionIds : s # r.s => mirror'[s] = mirror[s]
    <2>1. mirror \in Histories /\ fate \in [SessionIds -> Types]
      BY DEF TypeOK, Types
    <2>2. mirror' \in Histories
      BY <1>0, <2>1 DEF Histories
    <2>3. fate' \in [SessionIds -> Types]
      BY <1>f, <1>1, <2>1 DEF Types
    <2> QED
      BY <1>0, <1>1, <2>1, <2>2, <2>3 DEF Histories
  <1>k. fate[r.s] = "there" => Misled(r)
    BY <1>0, <1>1 DEF KeptOK, Keeps, NotFound, Misled
  <1>2. \A s \in SessionIds :
          \/ fate'[s] = fate[s] /\ (s = r.s => fate[s] \notin {"kept", "there"})
          \/ s = r.s /\ fate'[s] = "open" /\ fate[s] \in {"kept", "there"}
          \/ s = r.s /\ fate'[s] = "gone" /\ r.alone /\ cache = None /\ server[s] = None
             /\ fate[s] # "fresh"
    <2>1. CASE fate' = [fate EXCEPT ![r.s] = IF fate[r.s] = "kept" \/ (Misled(r) /\ fate[r.s] = "there")
                                             THEN "open" ELSE fate[r.s]]
      BY <1>1, <1>t, <1>k, <2>1
    <2>2. CASE /\ r.goal = "write" /\ r.kind = "delete" /\ r.answer = "missing"
               /\ fate' = IF r.alone THEN [fate EXCEPT ![r.s] = "gone"] ELSE fate
      <3>1. r.alone => cache = None /\ server[r.s] = None
        BY <2>2 DEF LoneOK
      <3>2. fate[r.s] \notin {"fresh", "kept", "there"}
        BY <1>1, <2>2 DEF LackedOK, Lacks, KeptOK, Keeps
      <3> QED
        BY <1>1, <1>t, <2>2, <3>1, <3>2
    <2> QED
      BY <1>f, <2>1, <2>2
  <1>3. ASSUME NEW s \in SessionIds
        PROVE  /\ fate'[s] \in {fate[s], "open"} \/ (op[p].alone /\ cache' = None)
               /\ fate'[s] \in {"there", "kept"} => mirror'[s] # None
               /\ fate'[s] = "there" => server[s] # None
               /\ fate'[s] \in {"fresh", "gone", "hidden"} => mirror'[s] = None
               /\ fate'[s] \in {"fresh", "gone"} => server[s] = None
               /\ fate'[s] = "fresh" => s \notin known'
               /\ fate'[s] = "fresh" <=> fate[s] = "fresh"
    <2>1. /\ fate[s] \in {"there", "kept"} => mirror[s] # None
          /\ fate[s] = "there" => server[s] # None
      BY DEF KeptOK
    <2>2. fate[s] \in {"fresh", "gone", "hidden"} =>
             /\ mirror[s] = None
             /\ fate[s] # "hidden" => server[s] = None
             /\ fate[s] = "fresh" => s \notin known
      BY DEF LackedOK
    <2> QED
      BY <1>0, <1>2, <1>t, <2>1, <2>2
  <1>4. ASSUME ~excused'
        PROVE  /\ ~excused
               /\ \A q \in Procs : q # p /\ op[q].kind = "create" => op[q].s \notin known'
               /\ Same(mirror', mirror)
               /\ mirror'[r.s] = None <=> server[r.s] = None
    <2>1. ~excused
      BY <1>0, <1>4
    <2>2. \A q \in Procs : AlignedBy(q)
      BY <2>1 DEF AlignedOK
    <2>0. r.answer = "missing" \/ r.goal = "recreate"
      BY <1>0, <1>4 DEF NotFound, Misled
    <2>3. mirror[r.s] = None /\ server[r.s] = None
      BY <2>0, <2>2 DEF AlignedBy
    <2> QED
      BY <1>0, <1>t, <2>1, <2>2, <2>3 DEF AlignedBy, Same
  <1>5. EndsWell(p)
    <2>1. excused' \in BOOLEAN
      BY <1>0, <1>1 DEF TypeOK
    <2>2. \A m \in acked : Stored(m)
      BY DEF AckedOK
    <2> QED
      BY <1>0, <1>1, <1>t, <1>3, <1>4, <2>1, <2>2 DEF EndsWell, TypeOK
  <1> QED
    BY <1>0, <1>1, <1>5, EndsInv

\* What is done without the server is done to the mirror alone, and excused.
LEMMA WriteWithoutServerInv ==
    ASSUME IInv, NEW p \in Procs, WriteWithoutServer(p) PROVE IInv'
  <1> USE DEF IInv
  <1> DEFINE r == op[p]
  <1>i. None \notin Kinds \cup Goals \cup Answers
    BY IdleFacts
  <1>0. /\ r.at = "check" /\ r.goal = "write"
        /\ mirror' = IF r.kind = "clear" THEN Empty ELSE mirror
        /\ known' = IF r.kind = "create" THEN known \cup {r.s} ELSE known
        /\ op' = [op EXCEPT ![p] = Idle]
        /\ excused' = TRUE
        /\ UNCHANGED <<server, cache, avail, left, acked>>
    BY DEF WriteWithoutServer, Become, Excuse
  <1>f. fate' = CASE r.alone /\ r.kind = "clear" -> Every("hidden")
                  [] r.alone /\ r.kind = "create" -> [fate EXCEPT ![r.s] = "kept"]
                  [] r.alone /\ r.kind = "delete" -> [fate EXCEPT ![r.s] = "hidden"]
                  [] OTHER -> fate
    BY DEF WriteWithoutServer
  <1>1. r \in Operations /\ Fits(r) /\ Active(p)
    BY <1>0, <1>i DEF TypeOK, Active
  <1>2. r.kind \in {"create", "delete"} => r.s \in SessionIds
    BY <1>1, FitsFacts
  <1>t. /\ mirror \in Histories /\ mirror' \in Histories
        /\ \A s \in SessionIds : mirror'[s] = None <=> mirror[s] = None \/ r.kind = "clear"
        /\ fate \in [SessionIds -> Types] /\ known' \subseteq SessionIds
    <2>1. Empty \in Histories /\ \A s \in SessionIds : Empty[s] = None
      BY DEF Empty, Histories
    <2> QED
      BY <1>0, <1>2, <2>1 DEF TypeOK, Types
  <1>l. r.alone =>
          /\ r.kind \in {"create", "delete", "clear"} => cache = None
          /\ r.kind = "create" => mirror[r.s] # None
          /\ r.kind = "delete" => mirror[r.s] = None
    BY DEF LoneOK
  <1>3. \A s \in SessionIds :
          \/ fate'[s] = fate[s]
          \/ r.alone /\ r.kind = "create" /\ s = r.s /\ fate'[s] = "kept"
          \/ r.alone /\ r.kind = "delete" /\ s = r.s /\ fate'[s] = "hidden"
          \/ r.alone /\ r.kind = "clear" /\ fate'[s] = "hidden" /\ fate[s] # "fresh"
    <2>1. CASE r.alone /\ r.kind = "create"
      BY <1>f, <1>t, <1>2, <2>1
    <2>2. CASE r.alone /\ r.kind = "delete"
      BY <1>f, <1>t, <1>2, <2>2
    <2>3. CASE r.alone /\ r.kind = "clear"
      BY <1>f, <1>t, <2>3 DEF Every
    <2>4. CASE ~(r.alone /\ r.kind \in {"create", "delete", "clear"})
      BY <1>f, <2>4
    <2> QED
      BY <2>1, <2>2, <2>3, <2>4
  <1>4. ASSUME NEW s \in SessionIds
        PROVE  /\ fate'[s] \in {fate[s], "open"} \/ (op[p].alone /\ cache' = None)
               /\ fate'[s] \in {"there", "kept"} => mirror'[s] # None
               /\ fate'[s] = "there" => server[s] # None
               /\ fate'[s] \in {"fresh", "gone", "hidden"} => mirror'[s] = None
               /\ fate'[s] \in {"fresh", "gone"} => server[s] = None
               /\ fate'[s] = "fresh" => s \notin known'
               /\ fate'[s] = "fresh" <=> fate[s] = "fresh"
    <2>1. fate[s] \in {"there", "kept"} =>
             /\ mirror[s] # None /\ (fate[s] = "there" => server[s] # None)
             /\ r.kind # "clear"
      BY DEF KeptOK, Keeps
    <2>2. fate[s] \in {"fresh", "gone", "hidden"} =>
             /\ mirror[s] = None /\ (fate[s] # "hidden" => server[s] = None)
             /\ ~(r.kind = "create" /\ r.s = s)
             /\ fate[s] = "fresh" => s \notin known /\ r.s # s
      BY DEF LackedOK, Lacks
    <2>3. CASE fate'[s] = fate[s]
      BY <2>1, <2>2, <2>3, <1>0, <1>t
    <2>4. CASE r.alone /\ r.kind = "create" /\ s = r.s /\ fate'[s] = "kept"
      BY <2>2, <2>4, <1>0, <1>t, <1>l
    <2>5. CASE r.alone /\ r.kind = "delete" /\ s = r.s /\ fate'[s] = "hidden"
      BY <2>2, <2>5, <1>0, <1>t, <1>l
    <2>6. CASE r.alone /\ r.kind = "clear" /\ fate'[s] = "hidden" /\ fate[s] # "fresh"
      BY <2>6, <1>0, <1>t, <1>l
    <2> QED
      BY <1>3, <2>3, <2>4, <2>5, <2>6
  <1>5. EndsWell(p)
    <2>1. fate' \in [SessionIds -> Types]
      <3>1. /\ [fate EXCEPT ![r.s] = "kept"] \in [SessionIds -> Types]
            /\ [fate EXCEPT ![r.s] = "hidden"] \in [SessionIds -> Types]
            /\ Every("hidden") \in [SessionIds -> Types]
        BY <1>t DEF Types, Every
      <3> QED
        BY <1>f, <1>t, <3>1
    <2>2. \A m \in acked : Stored(m)
      BY DEF AckedOK
    <2> QED
      BY <1>0, <1>t, <1>4, <2>1, <2>2 DEF EndsWell, TypeOK
  <1> QED
    BY <1>0, <1>1, <1>5, EndsInv

-----------------------------------------------------------------------------
(***************************************************************************)
(* Reading the history                                                     *)
(***************************************************************************)

\* What is read becomes mirror and cache, and what a switch posts: it has to
\* agree with the fates and, unless something is excused, with the server.
LEMMA HistoryReadInv ==
    ASSUME IInv, NEW p \in Procs, op[p].goal = "read",
           NEW history \in Histories, HistoryRead(p, history), mirror' = history,
           avail' = avail, excused' \in BOOLEAN,
           fate' \in [SessionIds -> Types],
           \A s \in SessionIds :
              /\ fate'[s] = fate[s] \/ (fate'[s] = "open" /\ fate[s] # "fresh")
              /\ fate'[s] \in {"there", "kept"} => history[s] # None
              /\ fate'[s] \in {"fresh", "gone", "hidden"} => history[s] = None,
           ~excused' => op[p].alone /\ Same(history, server)
    PROVE  IInv'
  <1> USE DEF IInv
  <1> DEFINE o == op[p]
             posts == o.kind = "switch" /\ history[o.s] # None
             r == [o EXCEPT !.goal = "post", !.at = Available, !.data = history,
                            !.answer = None, !.outdated = FALSE]
  <1>i. /\ None \notin Kinds \cup Goals \cup Answers /\ None \notin SessionIds
        /\ Idle.at = "idle" /\ Idle.goal = None /\ Idle.kind = None /\ Idle.s = None
        /\ Idle.snapshot = None /\ Idle.answer = None
        /\ Idle \in Operations /\ Fits(Idle)
        /\ history # None
    BY IdleFacts, NoneAssumption
  <1>0. /\ op' = [op EXCEPT ![p] = IF posts THEN r ELSE Idle]
        /\ cache' = IF posts THEN None ELSE history
        /\ known' = known \cup Sessions(history)
        /\ UNCHANGED <<server, left, acked>>
    BY DEF HistoryRead, Become
  <1>1. /\ o \in Operations /\ Fits(o) /\ Active(p) /\ o.at # "idle"
        /\ o.kind \in {"load", "switch"} /\ o.snapshot = None
    BY <1>i, FitsFacts DEF TypeOK, Active, Fits, Kinds, Goals, Writing
  <1>r. posts => /\ r \in Operations /\ Fits(r)
                 /\ r.kind = "switch" /\ r.goal = "post" /\ r.answer = None /\ r.at # "idle"
                 /\ r.s = o.s /\ r.snapshot = None /\ r.data = history /\ r.alone = o.alone
    <2>1. Available \in {"call", "check"}
      BY DEF Available
    <2>2. r \in Operations
      <3>1. "post" \in Goals /\ "open" \in Goals
        BY DEF Goals
      <3>2. /\ "post" \in Goals \cup {None} /\ Available \in {"idle", "check", "call", "answer"}
            /\ history \in Histories \cup {None} /\ None \in Answers \cup {None}
        BY <2>1, <3>1
      <3> DEFINE x == [o EXCEPT !.goal = "post", !.at = Available, !.data = history,
                                !.answer = None]
      <3>3. x \in Operations
        BY <1>1, <3>2, MovedFacts
      <3>4. [x EXCEPT !.outdated = FALSE] \in Operations
        BY <3>3, TimelyFacts, Zenon
      <3>5. r = [x EXCEPT !.outdated = FALSE]
        OBVIOUS
      <3> QED
        BY <3>4, <3>5, Zenon
    <2>3. posts => Fits(r)
      BY <1>1, <1>i, <2>1 DEF Fits, Operations, Writing, Answers
    <2> QED
      BY <1>1, <2>1, <2>2, <2>3 DEF Operations
  <1> DEFINE n == IF posts THEN r ELSE Idle
  <1>o. op'[p] = n /\ \A q \in Procs : q # p => op'[q] = op[q]
    BY <1>0 DEF TypeOK
  <1>n. /\ n \in Operations /\ Fits(n)
        /\ n = Idle \/ /\ n.kind = "switch" /\ n.goal = "post" /\ n.answer = None /\ n.at # "idle"
                       /\ n.s = o.s /\ n.snapshot = None /\ n.data = history
                       /\ n.alone = o.alone /\ cache' = None
    BY <1>0, <1>i, <1>r
  <1> HIDE DEF n, r, posts
  <1>a. \A q \in Procs : op[q].alone /\ q # p => op[q] = Idle
    BY <1>1 DEF AloneOK, Active, TypeOK, Fits
  <1>b. \A q \in Procs : o.alone /\ q # p => op[q] = Idle
    BY <1>1 DEF AloneOK, Active, TypeOK, Fits
  <1>2. TypeOK'
    <2>1. op' \in [Procs -> Operations] /\ \A q \in Procs : Fits(op'[q])
      BY <1>0, <1>o, <1>n DEF TypeOK, n
    <2>2. known' \subseteq SessionIds
      BY <1>0 DEF TypeOK, Sessions
    <2>3. cache' \in Histories \cup {None}
      BY <1>0
    <2> QED
      BY <1>0, <2>1, <2>2, <2>3 DEF TypeOK, Types
  <1>3. AloneOK'
    BY <1>o, <1>n, <1>i, <1>1, StillAlone DEF Active
  <1>4. LoneOK'
    <2> SUFFICES ASSUME NEW q \in Procs, op'[q].alone
                 PROVE  op'[q].kind \notin {"create", "delete", "clear"} /\ op'[q].goal # "read"
      BY <1>i DEF LoneOK
    <2>1. CASE q = p
      BY <1>o, <1>n, <1>i, <2>1 DEF Kinds, Goals
    <2>2. CASE q # p
      BY <1>o, <1>a, <1>i, <2>2 DEF Kinds, Goals
    <2> QED
      BY <2>1, <2>2
  <1>5. KeptOK'
    <2> SUFFICES ASSUME NEW s \in SessionIds, fate'[s] \in {"there", "kept"}, NEW q \in Procs
                 PROVE  /\ mirror'[s] # None
                        /\ cache' # None => cache'[s] # None
                        /\ fate'[s] = "there" => server'[s] # None
                        /\ Keeps(op[q], s)'
      BY DEF KeptOK
    <2>1. fate'[s] = fate[s] /\ history[s] # None
      OBVIOUS
    <2>2. fate[s] = "there" => server[s] # None
      BY DEF KeptOK
    <2>3. Keeps(op[q], s)'
      <3>1. CASE q = p
        <4>1. /\ n.kind \notin {"clear", "delete"} /\ n.snapshot = None
              /\ n.goal \notin {"read", "recreate"} /\ n.answer # "missing"
              /\ n.goal = "post" => n.data[s] # None
          BY <1>n, <1>i, <2>1 DEF Kinds, Goals, Answers
        <4> QED
          BY <1>o, <3>1, <4>1 DEF Keeps
      <3>2. CASE q # p
        BY <1>o, <2>1, <3>2 DEF KeptOK, Keeps
      <3> QED
        BY <3>1, <3>2
    <2> QED
      BY <1>0, <2>1, <2>2, <2>3
  <1>6. LackedOK'
    <2> SUFFICES ASSUME NEW s \in SessionIds, fate'[s] \in {"fresh", "gone", "hidden"},
                        NEW q \in Procs
                 PROVE  /\ mirror'[s] = None
                        /\ cache' # None => cache'[s] = None
                        /\ fate'[s] # "hidden" => server'[s] = None
                        /\ fate'[s] = "fresh" => s \notin known'
                        /\ Lacks(op[q], s)'
      BY DEF LackedOK
    <2>1. fate'[s] = fate[s] /\ history[s] = None
      OBVIOUS
    <2>2. /\ fate[s] # "hidden" => server[s] = None
          /\ fate[s] = "fresh" => s \notin known
      BY <2>1 DEF LackedOK
    <2>3. Lacks(op[q], s)'
      <3>1. CASE q = p
        <4>1. fate[s] = "fresh" => o.s # s
          BY DEF LackedOK, Lacks
        <4> QED
          BY <1>o, <1>n, <1>i, <2>1, <3>1, <4>1 DEF Lacks, Kinds, Goals
      <3>2. CASE q # p
        BY <1>o, <2>1, <3>2 DEF LackedOK, Lacks
      <3> QED
        BY <3>1, <3>2
    <2> QED
      BY <1>0, <2>1, <2>2, <2>3 DEF Sessions
  <1>7. AckedOK'
    BY <1>0, <1>o, <1>n, <1>i DEF AckedOK, Stored, Kinds
  <1>8. AlignedOK'
    <2> SUFFICES ASSUME ~excused' PROVE AlignedOK'
      BY DEF AlignedOK
    <2>1. Same(history, server) /\ o.alone
      OBVIOUS
    <2>2. ASSUME NEW q \in Procs PROVE AlignedBy(q)'
      <3>1. CASE q = p
        <4>1. CASE n = Idle
          BY <1>o, <1>i, <3>1, <4>1 DEF AlignedBy, Readers, Kinds, Goals, Answers
        <4>2. CASE n # Idle
          <5>1. n.alone
            BY <1>n, <2>1, <4>2
          <5> QED
            BY <1>0, <1>o, <1>n, <1>i, <2>1, <3>1, <4>2, <5>1 DEF AlignedBy, Answers, Same
        <4> QED
          BY <4>1, <4>2
      <3>2. CASE q # p
        <4>1. op'[q] = Idle
          BY <1>o, <1>b, <2>1, <3>2
        <4> QED
          BY <1>i, <4>1 DEF AlignedBy, Readers, Kinds, Goals, Answers
      <3> QED
        BY <3>1, <3>2
    <2>3. cache' # None => Same(cache', server')
      BY <1>0, <2>1
    <2> QED
      BY <1>0, <2>1, <2>2, <2>3 DEF AlignedOK, Same
  <1> QED
    BY <1>2, <1>3, <1>4, <1>5, <1>6, <1>7, <1>8

\* The history is saved: what is posted agrees with the fates and the server.
LEMMA HistorySavedInv ==
    ASSUME IInv, NEW p \in Procs, op[p].goal = "post",
           HistorySaved(p), UNCHANGED <<avail, fate, excused>>
    PROVE  IInv'
  <1> USE DEF IInv
  <1> DEFINE o == op[p]
             r == [o EXCEPT !.goal = "open", !.at = Available, !.data = None, !.answer = None]
  <1>i. None \notin Kinds \cup Goals \cup Answers /\ None \notin SessionIds
    BY IdleFacts
  <1>0. /\ op' = [op EXCEPT ![p] = r]
        /\ mirror' = o.data /\ cache' = o.data
        /\ UNCHANGED <<server, left, known, acked, avail, fate, excused>>
    BY DEF HistorySaved, Continue, Become
  <1>1. /\ o \in Operations /\ Fits(o) /\ Active(p) /\ o.at # "idle"
        /\ o.kind = "switch" /\ o.snapshot = None /\ o.data \in Histories /\ o.s \in SessionIds
    <2>1. o \in Operations /\ Fits(o) /\ o.at # "idle"
      BY <1>i, FitsFacts DEF TypeOK, Goals
    <2> QED
      BY <1>i, <2>1, FitsFacts DEF Active, Fits, Kinds, Goals, Writing, Operations
  <1>r. /\ r \in Operations /\ Fits(r)
        /\ r.kind = "switch" /\ r.goal = "open" /\ r.answer = None /\ r.at # "idle"
        /\ r.s = o.s /\ r.snapshot = None /\ r.alone = o.alone
    <2>1. Available \in {"call", "check"}
      BY DEF Available
    <2>2. r \in Operations
      <3>1. "post" \in Goals /\ "open" \in Goals
        BY DEF Goals
      <3> QED
        BY <1>1, <2>1, <3>1, MovedFacts
    <2>3. Fits(r)
      BY <1>1, <1>i, <2>1 DEF Fits, Operations, Writing, Answers
    <2> QED
      BY <1>1, <2>1, <2>2, <2>3 DEF Operations
  <1>o. op'[p] = r /\ \A q \in Procs : q # p => op'[q] = op[q]
    BY <1>0 DEF TypeOK
  <1> HIDE DEF r
  <1>a. \A q \in Procs : op[q].alone /\ q # p => op[q] = Idle
    BY <1>1 DEF AloneOK, Active, TypeOK, Fits
  <1>2. TypeOK'
    BY <1>0, <1>1, <1>o, <1>r DEF TypeOK
  <1>3. AloneOK'
    BY <1>o, <1>r, <1>1, StillAlone DEF Active
  <1>4. LoneOK'
    <2> SUFFICES ASSUME NEW q \in Procs, op'[q].alone
                 PROVE  op'[q].kind \notin {"create", "delete", "clear"} /\ op'[q].goal # "read"
      BY DEF LoneOK
    <2>1. CASE q = p
      BY <1>o, <1>r, <2>1
    <2>2. CASE q # p
      BY <1>o, <1>a, <1>i, IdleFacts, <2>2 DEF Kinds, Goals
    <2> QED
      BY <2>1, <2>2
  <1>5. KeptOK'
    <2> SUFFICES ASSUME NEW s \in SessionIds, fate[s] \in {"there", "kept"}
                 PROVE  o.data[s] # None /\ \A q \in Procs : Keeps(op[q], s)'
      BY <1>0 DEF KeptOK
    <2>1. \A q \in Procs : Keeps(op[q], s)
      BY DEF KeptOK
    <2> QED
      BY <1>0, <1>o, <1>r, <1>i, <2>1 DEF Keeps, Answers
  <1>6. LackedOK'
    <2> SUFFICES ASSUME NEW s \in SessionIds, fate[s] \in {"fresh", "gone", "hidden"}
                 PROVE  o.data[s] = None /\ \A q \in Procs : Lacks(op[q], s)'
      BY <1>0 DEF LackedOK
    <2>1. \A q \in Procs : Lacks(op[q], s)
      BY DEF LackedOK
    <2> QED
      BY <1>0, <1>o, <1>r, <2>1 DEF Lacks
  <1>7. AckedOK'
    BY <1>0, <1>o, <1>r DEF AckedOK, Stored
  <1>8. AlignedOK'
    <2> SUFFICES ASSUME ~excused PROVE AlignedOK'
      BY <1>0 DEF AlignedOK
    <2>1. Same(o.data, server) /\ o.alone
      BY <1>1 DEF AlignedOK, AlignedBy, Readers
    <2>2. ASSUME NEW q \in Procs PROVE AlignedBy(q)'
      <3>1. CASE q = p
        <4>1. r.alone
          BY <1>r, <2>1
        <4> QED
          BY <1>0, <1>o, <1>r, <1>i, <3>1, <4>1 DEF AlignedBy, Answers
      <3>2. CASE q # p
        <4>1. op'[q] = Idle
          BY <1>o, <1>1, <2>1, <3>2 DEF AloneOK, Active, TypeOK, Fits
        <4> QED
          BY <1>i, IdleFacts, <4>1 DEF AlignedBy, Readers, Kinds, Goals, Answers
      <3> QED
        BY <3>1, <3>2
    <2> QED
      BY <1>0, <2>1, <2>2 DEF AlignedOK, Same
  <1> QED
    BY <1>2, <1>3, <1>4, <1>5, <1>6, <1>7, <1>8

\* The answer of the server, or the mirror in its place.
LEMMA ReadingInv ==
    ASSUME IInv, NEW p \in Procs,
           ReadSucceeds(p) \/ ReadFails(p) \/ ReadWithoutServer(p) \/ PostSucceeds(p)
    PROVE  IInv'
  <1> USE DEF IInv
  <1> DEFINE o == op[p]
  <1>o. /\ o \in Operations /\ Fits(o) /\ mirror \in Histories
        /\ fate \in [SessionIds -> Types] /\ excused \in BOOLEAN
    BY DEF TypeOK, Types
  <1>1. CASE ReadSucceeds(p)
    <2> DEFINE history == o.data
    <2>0. /\ o.goal = "read" /\ o.answer = "ok"
          /\ HistoryRead(p, history) /\ mirror' = history
          /\ fate' = NotOnlyHere
          /\ excused' = (excused /\ ~(o.alone /\ ~o.outdated))
          /\ avail' = avail
      BY <1>1 DEF ReadSucceeds, Answered
    <2>1. history \in Histories
      BY <1>o, <2>0 DEF Fits, Operations
    <2>2. /\ fate' \in [SessionIds -> Types]
          /\ \A s \in SessionIds :
                fate'[s] = IF fate[s] \in {"kept", "hidden"} THEN "open" ELSE fate[s]
      BY <1>o, <2>0 DEF NotOnlyHere, Types
    <2>3. ASSUME NEW s \in SessionIds
          PROVE  /\ fate'[s] = fate[s] \/ (fate'[s] = "open" /\ fate[s] # "fresh")
                 /\ fate'[s] \in {"there", "kept"} => history[s] # None
                 /\ fate'[s] \in {"fresh", "gone", "hidden"} => history[s] = None
      <3>1. fate[s] = "there" => history[s] # None
        BY <2>0 DEF KeptOK, Keeps
      <3>2. fate[s] \in {"fresh", "gone"} => history[s] = None
        BY <2>0 DEF LackedOK, Lacks
      <3> QED
        BY <2>2, <3>1, <3>2
    <2>4. ~excused' => o.alone /\ Same(history, server)
      <3>1. CASE o.alone /\ ~o.outdated
        BY <2>0, <3>1 DEF LoneOK
      <3>2. CASE ~excused
        <4>1. o.kind \in Readers
          BY <1>o, <2>0, FitsFacts, IdleFacts DEF Goals
        <4> QED
          BY <2>0, <3>2, <4>1 DEF AlignedOK, AlignedBy
      <3> QED
        BY <2>0, <3>1, <3>2
    <2>5. excused' \in BOOLEAN
      BY <1>o, <2>0
    <2> HIDE DEF history
    <2> QED
      BY <2>0, <2>1, <2>2, <2>3, <2>4, <2>5, HistoryReadInv
  <1>2. CASE ReadFails(p) \/ ReadWithoutServer(p)
    <2>0. /\ o.goal \in {"read", "post", "open"}
          /\ Fallback(p)
          /\ UNCHANGED <<avail, fate, excused>>
      <3>1. CASE ReadFails(p)
        BY <3>1 DEF ReadFails, Fails, Answered
      <3>2. CASE ReadWithoutServer(p)
        BY <3>2, <1>o, IdleFacts, FitsFacts
           DEF ReadWithoutServer, Fits, Operations, Goals
      <3> QED
        BY <1>2, <3>1, <3>2
    <2>1. CASE o.goal = "read"
      <3>0. HistoryRead(p, mirror) /\ mirror' = mirror
        BY <2>0, <2>1 DEF Fallback
      <3>1. ASSUME NEW s \in SessionIds
            PROVE  /\ fate[s] \in {"there", "kept"} => mirror[s] # None
                   /\ fate[s] \in {"fresh", "gone", "hidden"} => mirror[s] = None
        BY DEF KeptOK, LackedOK
      <3>2. ~excused => o.alone /\ Same(mirror, server)
        <4> SUFFICES ASSUME ~excused PROVE o.alone /\ Same(mirror, server)
          OBVIOUS
        <4>1. o.kind \in Readers /\ Active(p)
          BY <1>o, <2>1, FitsFacts, IdleFacts DEF Goals, Active
        <4>2. o.alone
          BY <4>1 DEF AlignedOK, AlignedBy
        <4>3. \A q \in Procs : q # p => op[q] = Idle
          BY <4>1, <4>2 DEF AloneOK, Active, TypeOK, Fits
        <4>4. \A q \in Procs : op[q].kind \notin {"create", "delete", "clear"}
          BY <4>1, <4>3, IdleFacts DEF Readers, Kinds
        <4> QED
          BY <4>2, <4>4 DEF AlignedOK, Clearing, Pending, Same
      <3> QED
        BY <1>o, <2>0, <2>1, <3>0, <3>1, <3>2, HistoryReadInv
    <2>2. CASE o.goal = "post"
      <3>1. HistorySaved(p)
        BY <2>0, <2>2 DEF Fallback
      <3> QED
        BY <2>0, <2>2, <3>1, HistorySavedInv
    <2>3. CASE o.goal = "open"
      <3>1. OpenFromHistory(p)
        BY <2>0, <2>3 DEF Fallback
      <3> QED
        BY <2>0, <2>3, <3>1, OpenFromHistoryInv
    <2> QED
      BY <2>0, <2>1, <2>2, <2>3
  <1>3. CASE PostSucceeds(p)
    BY <1>3, HistorySavedInv DEF PostSucceeds, Answered
  <1> QED
    BY <1>1, <1>2, <1>3

-----------------------------------------------------------------------------
(***************************************************************************)
(* Recovery of a session the server has lost                               *)
(***************************************************************************)

\* The session is recreated only if the mirror has it: its fate is then not
\* that it is gone, and something is excused.
LEMMA RecoverInv ==
    ASSUME IInv, NEW p \in Procs, Recover(p) PROVE IInv'
  <1> USE DEF IInv
  <1> DEFINE o == op[p]
             r == [o EXCEPT !.at = "call", !.goal = "recreate", !.tries = 0,
                            !.copy = mirror[o.s], !.answer = None]
  <1>i. None \notin Kinds \cup Goals \cup Answers /\ None \notin SessionIds
    BY IdleFacts
  <1>0. /\ o.goal = "write" /\ o.answer = "missing" /\ o.kind \in {"add", "edit"}
        /\ op' = [op EXCEPT ![p] = IF mirror[o.s] = None THEN Idle ELSE r]
        /\ UNCHANGED <<server, mirror, cache, avail, left, known, fate, acked, excused>>
    BY DEF Recover, Fails, Answered, Continue, Become
  <1>1. /\ o \in Operations /\ Fits(o) /\ Active(p) /\ o.at # "idle"
        /\ o.s \in SessionIds /\ o.m \in Messages /\ o.s = Owner[o.m]
        /\ avail \in BOOLEAN /\ excused \in BOOLEAN
    BY <1>0, <1>i, FitsFacts DEF TypeOK, Active, Kinds, Goals
  <1>2. CASE mirror[o.s] = None
    <2>1. op' = [op EXCEPT ![p] = Idle]
      BY <1>0, <1>2
    <2> QED
      BY <1>0, <1>1, <2>1, IdleFacts, GoesOnInv
  <1>3. CASE mirror[o.s] # None
    <2>0. mirror[o.s] \in SUBSET Messages
      BY <1>1, <1>3 DEF TypeOK, Histories
    <2>r. /\ r \in Operations
          /\ r.kind = o.kind /\ r.goal = "recreate" /\ r.answer = None /\ r.at = "call"
          /\ r.s = o.s /\ r.m = o.m /\ r.snapshot = o.snapshot /\ r.alone = o.alone
          /\ r.copy = mirror[o.s] /\ r.tries = 0
      <3>1. "recreate" \in Goals
        BY DEF Goals
      <3>2. \A copy \in {None} \cup SUBSET Messages :
               [o EXCEPT !.at = "call", !.goal = "recreate", !.tries = 0, !.copy = copy,
                         !.answer = None] \in Operations
        BY <1>1, <3>1, ZenonT(30) DEF Operations
      <3> QED
        BY <1>1, <2>0, <3>2 DEF Operations
    <2>o. op'[p] = r /\ \A q \in Procs : q # p => op'[q] = op[q]
      BY <1>0, <1>3 DEF TypeOK
    <2> HIDE DEF r
    <2>w. o.snapshot # None /\ o.kind \in {"add", "edit"}
      BY <1>0, <1>1 DEF Fits, Writing
    <2>c. r.copy # None
      BY <1>3, <2>r
    <2>f. Fits(r)
      BY <1>1, <1>i, <2>r, <2>w, <2>c DEF Fits, Writing, Answers
    <2>1. TypeOK'
      BY <1>0, <1>3, <2>r, <2>f, <2>o DEF TypeOK
    <2>2. AloneOK'
      BY <1>1, <2>o, <2>r, StillAlone DEF Active
    <2>3. LoneOK'
      BY <1>0, <1>i, <2>o, <2>r DEF LoneOK, Answers, Same
    <2>4. KeptOK'
      <3> SUFFICES ASSUME NEW s \in SessionIds, fate[s] \in {"there", "kept"}, NEW q \in Procs
                   PROVE  Keeps(op[q], s)'
        BY <1>0 DEF KeptOK
      <3>1. \A k \in Procs : Keeps(op[k], s)
        BY DEF KeptOK
      <3> QED
        BY <1>0, <1>i, <2>o, <2>r, <3>1 DEF Keeps, Answers
    <2>5. LackedOK'
      <3> SUFFICES ASSUME NEW s \in SessionIds, fate[s] \in {"fresh", "gone", "hidden"},
                          NEW q \in Procs
                   PROVE  Lacks(op[q], s)'
        BY <1>0 DEF LackedOK
      <3>1. mirror[s] = None /\ \A k \in Procs : Lacks(op[k], s)
        BY DEF LackedOK
      <3> QED
        BY <1>0, <1>3, <2>o, <2>r, <3>1 DEF Lacks
    <2>6. AckedOK'
      BY <1>0, <2>o, <2>r DEF AckedOK, Stored
    <2>7. AlignedOK'
      BY <1>0, <1>3 DEF AlignedOK, AlignedBy
    <2> QED
      BY <2>1, <2>2, <2>3, <2>4, <2>5, <2>6, <2>7
  <1> QED
    BY <1>2, <1>3

\* The copy that was sent is back in the mirror, and the write is made again.
LEMMA RecoveredInv ==
    ASSUME IInv, NEW p \in Procs, Recovered(p) PROVE IInv'
  <1> USE DEF IInv
  <1> DEFINE o == op[p]
             r == [o EXCEPT !.at = "call", !.goal = "again", !.tries = 0,
                            !.copy = None, !.answer = None]
  <1>i. None \notin Kinds \cup Goals \cup Answers /\ None \notin SessionIds
    BY IdleFacts
  <1>0. /\ o.goal = "recreate"
        /\ op' = [op EXCEPT ![p] = r]
        /\ mirror' = [mirror EXCEPT ![o.s] = o.copy] /\ cache' = None
        /\ UNCHANGED <<server, avail, left, known, fate, acked, excused>>
    BY DEF Recovered, Answered, Continue, Become, With
  <1>1. /\ o \in Operations /\ Fits(o) /\ Active(p) /\ o.at # "idle"
        /\ o.kind \in {"add", "edit"} /\ o.copy \in SUBSET Messages /\ o.copy # None
        /\ o.s \in SessionIds /\ o.m \in Messages /\ o.s = Owner[o.m]
    <2>1. o \in Operations /\ Fits(o)
      BY DEF TypeOK
    <2>2. o.copy # None /\ o.copy \in {None} \cup SUBSET Messages
      BY <1>0, <2>1 DEF Fits, Operations
    <2>3. o.kind \in {"add", "edit"} /\ o.at # "idle"
      BY <1>0, <1>i, <2>1, FitsFacts DEF Goals
    <2> QED
      BY <1>i, <2>1, <2>2, <2>3, FitsFacts DEF Active
  <1>r. /\ r \in Operations
        /\ r.kind = o.kind /\ r.goal = "again" /\ r.answer = None /\ r.at = "call"
        /\ r.s = o.s /\ r.m = o.m /\ r.snapshot = o.snapshot /\ r.alone = o.alone
        /\ r.tries = 0
    <2>1. "again" \in Goals
      BY DEF Goals
    <2>2. r \in Operations
      BY <1>1, <2>1, ZenonT(30) DEF Operations
    <2> QED
      BY <1>1, <2>2 DEF Operations
  <1>f. Fits(r)
    BY <1>0, <1>1, <1>i, <1>r DEF Fits, Writing, Answers
  <1>o. op'[p] = r /\ \A q \in Procs : q # p => op'[q] = op[q]
    BY <1>0 DEF TypeOK
  <1> HIDE DEF r
  <1>m. /\ mirror' \in Histories /\ mirror'[o.s] # None
        /\ \A s \in SessionIds : s # o.s => mirror'[s] = mirror[s]
    BY <1>0, <1>1 DEF TypeOK, Histories
  <1>a. \A q \in Procs : op[q].alone /\ q # p => op[q] = Idle
    BY <1>1 DEF AloneOK, Active, TypeOK, Fits
  <1>2. TypeOK'
    BY <1>0, <1>r, <1>f, <1>o, <1>m DEF TypeOK
  <1>3. AloneOK'
    BY <1>1, <1>o, <1>r, StillAlone DEF Active
  <1>4. LoneOK'
    <2> SUFFICES ASSUME NEW q \in Procs, op'[q].alone
                 PROVE  op'[q].kind \notin {"create", "delete", "clear"} /\ op'[q].goal # "read"
      BY DEF LoneOK
    <2>1. CASE q = p
      BY <1>1, <1>o, <1>r, <2>1
    <2>2. CASE q # p
      BY <1>o, <1>a, <1>i, IdleFacts, <2>2 DEF Kinds, Goals
    <2> QED
      BY <2>1, <2>2
  <1>5. KeptOK'
    <2> SUFFICES ASSUME NEW s \in SessionIds, fate[s] \in {"there", "kept"}
                 PROVE  /\ mirror'[s] # None
                        /\ fate[s] = "there" => server[s] # None
                        /\ \A q \in Procs : Keeps(op[q], s)'
      BY <1>0 DEF KeptOK
    <2>1. /\ mirror[s] # None
          /\ fate[s] = "there" => server[s] # None
          /\ \A q \in Procs : Keeps(op[q], s)
      BY DEF KeptOK
    <2> QED
      BY <1>0, <1>m, <1>o, <1>r, <1>i, <2>1 DEF Keeps, Answers
  <1>6. LackedOK'
    <2> SUFFICES ASSUME NEW s \in SessionIds, fate[s] \in {"fresh", "gone", "hidden"}
                 PROVE  /\ mirror'[s] = None
                        /\ fate[s] # "hidden" => server[s] = None
                        /\ fate[s] = "fresh" => s \notin known
                        /\ \A q \in Procs : Lacks(op[q], s)'
      BY <1>0 DEF LackedOK
    <2>1. /\ mirror[s] = None
          /\ fate[s] # "hidden" => server[s] = None
          /\ fate[s] = "fresh" => s \notin known
          /\ \A q \in Procs : Lacks(op[q], s)
      BY DEF LackedOK
    <2>2. s # o.s
      BY <1>0, <2>1 DEF Lacks
    <2> QED
      BY <1>0, <1>m, <1>o, <1>r, <2>1, <2>2 DEF Lacks
  <1>7. AckedOK'
    BY <1>0, <1>o, <1>r, <1>i DEF AckedOK, Stored, Answers
  <1>8. AlignedOK'
    BY <1>0 DEF AlignedOK, AlignedBy
  <1> QED
    BY <1>2, <1>3, <1>4, <1>5, <1>6, <1>7, <1>8

\* The cached history may always go.
LEMMA CacheExpiresInv == IInv /\ (CacheExpires \/ UNCHANGED vars) => IInv'
  <1> USE DEF IInv
  <1> SUFFICES ASSUME IInv, CacheExpires \/ UNCHANGED vars PROVE IInv'
    OBVIOUS
  <1>0. /\ cache' \in {None, cache}
        /\ UNCHANGED <<server, mirror, avail, op, left, known, fate, excused, acked>>
    BY DEF CacheExpires, vars
  <1>1. TypeOK' /\ AloneOK' /\ AckedOK'
    BY <1>0 DEF TypeOK, AloneOK, Active, AckedOK, Stored
  <1>2. LoneOK' /\ KeptOK' /\ LackedOK'
    BY <1>0 DEF LoneOK, Same, KeptOK, Keeps, LackedOK, Lacks
  <1>3. AlignedOK'
    <2>1. \A p \in Procs : AlignedBy(p) => AlignedBy(p)'
      BY <1>0 DEF AlignedBy, Same
    <2> QED
      BY <1>0, <2>1 DEF AlignedOK, Clearing, Pending, Same
  <1> QED
    BY <1>1, <1>2, <1>3

-----------------------------------------------------------------------------
(***************************************************************************)
(* Operations that begin                                                   *)
(***************************************************************************)

LEMMA DisturbedFacts ==
    ASSUME NEW o \in Operations
    PROVE  LET x == [o EXCEPT !.alone = FALSE] IN
           /\ x \in Operations
           /\ x.at = o.at /\ x.kind = o.kind /\ x.goal = o.goal
           /\ x.s = o.s /\ x.m = o.m /\ x.answer = o.answer
           /\ x.snapshot = o.snapshot /\ x.data = o.data
           /\ x.copy = o.copy /\ x.tries = o.tries
           /\ x.served = o.served /\ x.outdated = o.outdated /\ ~x.alone
  BY DEF Operations

\* The operation r that begins, and what it does at once.
Beginning(r) ==
    /\ r \in Operations /\ Fits(r)
    /\ r.at \in {"check", "call"} /\ r.answer = None /\ ~r.served
    /\ r.goal \in {"read", "open", "post", "write"}
    /\ r.goal = "write" /\ r.kind # "clear" => r.snapshot = mirror
    /\ r.goal = "post" => cache # None /\ r.data = cache
    /\ r.s # None =>
          IF r.kind = "create" THEN fate[r.s] = "fresh" ELSE r.s \in known
    /\ mirror' \in Histories
    /\ \A s \in SessionIds :
          mirror'[s] = None <=> \/ r.kind = "delete" /\ s = r.s
                                \/ mirror[s] = None /\ ~(r.kind = "create" /\ s = r.s)
    /\ cache' \in {None, cache}
    /\ r.goal = "write" => cache' = None
    /\ fate' \in [SessionIds -> Types]
    /\ \A s \in SessionIds :
          fate'[s] = IF \/ r.kind \in {"create", "delete"} /\ s = r.s
                        \/ r.kind = "clear" /\ fate[s] # "fresh"
                     THEN "open" ELSE fate[s]

LEMMA BeginInv ==
    ASSUME IInv, NEW p \in Procs, NEW r, Begin(p, r), Beginning(r)
    PROVE  IInv'
  <1> USE DEF IInv, Beginning
  <1> DEFINE others == {q \in Procs : op[q].at # "idle"}
             entangled == \E k \in {r.kind} \cup {op[q].kind : q \in others} :
                             k \in Readers \cup {"clear"}
             n == [r EXCEPT !.alone = (others = {})]
  <1>i. /\ None \notin Kinds \cup Goals \cup Answers /\ None \notin SessionIds
        /\ Idle.at = "idle" /\ Idle.goal = None /\ Idle.kind = None /\ Idle.s = None
        /\ Idle.snapshot = None /\ Idle.answer = None
        /\ Idle \in Operations /\ Fits(Idle)
    BY IdleFacts
  <1>0. /\ op[p].at = "idle" /\ left > 0 /\ left' = left - 1
        /\ op' = [q \in Procs |->
                    CASE q = p -> n
                      [] q \in others -> [op[q] EXCEPT !.alone = FALSE]
                      [] OTHER -> op[q]]
        /\ excused' = (excused \/ (others # {} /\ entangled))
        /\ UNCHANGED <<server, avail, known, acked>>
    BY DEF Begin
  <1>n. /\ n \in Operations /\ Fits(n)
        /\ n.kind = r.kind /\ n.goal = r.goal /\ n.answer = None /\ n.at # "idle"
        /\ n.s = r.s /\ n.m = r.m /\ n.snapshot = r.snapshot /\ n.data = r.data
        /\ n.served = r.served /\ (n.alone <=> others = {})
    <2>1. \A b \in BOOLEAN : LET x == [r EXCEPT !.alone = b] IN
            /\ x \in Operations
            /\ x.kind = r.kind /\ x.goal = r.goal /\ x.answer = r.answer /\ x.at = r.at
            /\ x.s = r.s /\ x.m = r.m /\ x.snapshot = r.snapshot /\ x.data = r.data
            /\ x.copy = r.copy /\ x.tries = r.tries
            /\ x.served = r.served /\ (x.alone <=> b)
      BY DEF Operations
    <2>2. (others = {}) \in BOOLEAN
      OBVIOUS
    <2>3. /\ n \in Operations
          /\ n.kind = r.kind /\ n.goal = r.goal /\ n.answer = r.answer /\ n.at = r.at
          /\ n.s = r.s /\ n.m = r.m /\ n.snapshot = r.snapshot /\ n.data = r.data
          /\ n.copy = r.copy /\ n.tries = r.tries
          /\ n.served = r.served /\ (n.alone <=> others = {})
      BY <2>1, <2>2
    <2> HIDE DEF n
    <2>4. Fits(n)
      BY <2>3, <1>i DEF Fits, LooksUp
    <2> QED
      BY <2>3, <2>4
  <1>o. op'[p] = n
    BY <1>0
  <1>q. ASSUME NEW q \in Procs, q # p
        PROVE  /\ op'[q] \in Operations /\ Fits(op'[q])
               /\ op'[q].at = op[q].at /\ op'[q].kind = op[q].kind /\ op'[q].goal = op[q].goal
               /\ op'[q].s = op[q].s /\ op'[q].m = op[q].m /\ op'[q].answer = op[q].answer
               /\ op'[q].snapshot = op[q].snapshot /\ op'[q].data = op[q].data
               /\ op'[q].served = op[q].served /\ op'[q].outdated = op[q].outdated
               /\ q \in others => ~op'[q].alone
               /\ q \notin others => op'[q] = Idle /\ op[q] = Idle
    <2>0. op[q] \in Operations /\ Fits(op[q])
      BY DEF TypeOK
    <2>1. CASE q \in others
      <3> DEFINE x == [op[q] EXCEPT !.alone = FALSE]
      <3>1. op'[q] = x
        BY <1>0, <1>q, <2>1
      <3>2. /\ x \in Operations
            /\ x.at = op[q].at /\ x.kind = op[q].kind /\ x.goal = op[q].goal
            /\ x.s = op[q].s /\ x.m = op[q].m /\ x.answer = op[q].answer
            /\ x.snapshot = op[q].snapshot /\ x.data = op[q].data
            /\ x.copy = op[q].copy /\ x.tries = op[q].tries
            /\ x.served = op[q].served /\ x.outdated = op[q].outdated /\ ~x.alone
        BY <2>0, DisturbedFacts
      <3> HIDE DEF x
      <3>3. Fits(x)
        BY <2>0, <2>1, <3>2 DEF Fits, LooksUp
      <3> QED
        BY <2>1, <3>1, <3>2, <3>3
    <2>2. CASE q \notin others
      <3>1. op'[q] = op[q] /\ op[q] = Idle
        BY <1>0, <1>q, <2>0, <2>2 DEF Fits
      <3> QED
        BY <2>2, <3>1, <1>i
    <2> QED
      BY <2>1, <2>2
  <1>p. op[p] = Idle /\ p \notin others
    BY <1>0 DEF TypeOK, Fits
  <1>e. others # {} /\ ~excused' =>
          r.kind \notin Readers \cup {"clear"} /\
          \A q \in others : op[q].kind \notin Readers \cup {"clear"}
    BY <1>0
  <1>x. ~excused' => ~excused
    BY <1>0
  <1>r. r.at # "idle" /\ r.kind \in Kinds
    BY <1>i, FitsFacts DEF Operations
  <1>s. /\ r.kind \in {"create", "delete"} => r.s \in SessionIds /\ r.goal = "write"
        /\ r.kind = "clear" => r.goal = "write"
        /\ r.kind \in {"create", "delete", "clear"} => cache' = None
        /\ r.kind = "create" => mirror'[r.s] # None
        /\ r.kind = "delete" => mirror'[r.s] = None
    <2>1. /\ r.kind \in {"create", "delete"} => r.s \in SessionIds /\ r.goal = "write"
          /\ r.kind = "clear" => r.goal = "write"
      BY FitsFacts
    <2> QED
      BY <2>1
  <1> HIDE DEF n, entangled, others
  <1>1. TypeOK'
    <2>1. op' \in [Procs -> Operations] /\ \A q \in Procs : Fits(op'[q])
      <3>1. \A q \in Procs : op'[q] \in Operations /\ Fits(op'[q])
        BY <1>n, <1>o, <1>q
      <3> QED
        BY <1>0, <3>1
    <2>2. left' \in 0..MaxRequests
      BY <1>0, BrowserAssumption DEF TypeOK
    <2>3. excused' \in BOOLEAN
      BY <1>0 DEF TypeOK
    <2>4. cache' \in Histories \cup {None}
      BY DEF TypeOK
    <2> QED
      BY <1>0, <2>1, <2>2, <2>3, <2>4 DEF TypeOK, Types
  <1>2. AloneOK'
    <2> SUFFICES ASSUME NEW u \in Procs, NEW v \in Procs, op'[u].at # "idle", op'[u].alone,
                        v # u
                 PROVE  op'[v].at = "idle"
      BY DEF AloneOK, Active
    <2>1. u = p
      BY <1>q, <1>i
    <2>2. others = {}
      BY <1>n, <1>o, <2>1
    <2> QED
      BY <1>q, <1>i, <2>1, <2>2
  <1>3. LoneOK'
    <2> SUFFICES ASSUME NEW q \in Procs, op'[q].alone
                 PROVE  /\ op'[q].kind \in {"create", "delete", "clear"} => cache' = None
                        /\ op'[q].kind = "create" => mirror'[op'[q].s] # None
                        /\ op'[q].kind = "delete" => mirror'[op'[q].s] = None
                        /\ op'[q].answer \notin {"ok", "missing"}
      BY DEF LoneOK
    <2>1. CASE q = p
      BY <1>i, <1>n, <1>o, <1>s, <2>1 DEF Answers
    <2>2. CASE q # p
      <3>1. op'[q] = Idle
        BY <1>q, <2>2
      <3> QED
        BY <1>i, <3>1 DEF Kinds, Answers
    <2> QED
      BY <2>1, <2>2
  <1>4. KeptOK'
    <2> SUFFICES ASSUME NEW s \in SessionIds, fate'[s] \in {"there", "kept"}
                 PROVE  /\ mirror'[s] # None
                        /\ cache' # None => cache'[s] # None
                        /\ fate'[s] = "there" => server'[s] # None
                        /\ \A q \in Procs : Keeps(op[q], s)'
      BY DEF KeptOK
    <2>1. /\ fate'[s] = fate[s] /\ r.kind # "clear"
          /\ ~(r.kind \in {"create", "delete"} /\ s = r.s)
      OBVIOUS
    <2>2. /\ mirror[s] # None /\ (cache # None => cache[s] # None)
          /\ fate[s] = "there" => server[s] # None
          /\ \A q \in Procs : Keeps(op[q], s)
      BY <2>1 DEF KeptOK
    <2>3. ASSUME NEW q \in Procs PROVE Keeps(op[q], s)'
      <3>1. CASE q = p
        <4>1. r.snapshot # None => r.snapshot = mirror
          BY DEF Fits, Writing
        <4> QED
          BY <1>i, <1>n, <1>o, <2>1, <2>2, <3>1, <4>1 DEF Keeps, Answers
      <3>2. CASE q # p
        BY <1>q, <2>1, <2>2, <3>2 DEF Keeps
      <3> QED
        BY <3>1, <3>2
    <2> QED
      BY <1>0, <2>1, <2>2, <2>3
  <1>5. LackedOK'
    <2> SUFFICES ASSUME NEW s \in SessionIds, fate'[s] \in {"fresh", "gone", "hidden"}
                 PROVE  /\ mirror'[s] = None
                        /\ cache' # None => cache'[s] = None
                        /\ fate'[s] # "hidden" => server'[s] = None
                        /\ fate'[s] = "fresh" => s \notin known'
                        /\ \A q \in Procs : Lacks(op[q], s)'
      BY DEF LackedOK
    <2>1. fate'[s] = fate[s] /\ ~(r.kind \in {"create", "delete"} /\ s = r.s)
      OBVIOUS
    <2>2. /\ mirror[s] = None /\ (cache # None => cache[s] = None)
          /\ fate[s] # "hidden" => server[s] = None
          /\ fate[s] = "fresh" => s \notin known
          /\ \A q \in Procs : Lacks(op[q], s)
      BY <2>1 DEF LackedOK
    <2>3. ASSUME NEW q \in Procs PROVE Lacks(op[q], s)'
      <3>1. CASE q = p
        <4>1. r.snapshot # None => r.snapshot = mirror
          BY DEF Fits, Writing
        <4>2. fate[s] = "fresh" => r.s # s
          BY <1>i, <2>1, <2>2
        <4> QED
          BY <1>i, <1>n, <1>o, <2>1, <2>2, <3>1, <4>1, <4>2 DEF Lacks, Answers
      <3>2. CASE q # p
        BY <1>q, <2>1, <2>2, <3>2 DEF Lacks
      <3> QED
        BY <3>1, <3>2
    <2> QED
      BY <1>0, <2>1, <2>2, <2>3
  <1>6. AckedOK'
    <2>1. \A q \in Procs : op'[q].answer = "ok" =>
             /\ op'[q].kind = op[q].kind /\ op'[q].goal = op[q].goal /\ op[q].answer = "ok"
             /\ op'[q].m = op[q].m /\ op'[q].outdated = op[q].outdated
      BY <1>i, <1>n, <1>o, <1>q DEF Answers
    <2> QED
      BY <1>0, <2>1 DEF AckedOK, Stored
  <1>7. AlignedOK'
    <2> SUFFICES ASSUME ~excused, ~excused' PROVE AlignedOK'
      BY <1>x DEF AlignedOK
    <2>a. \A q \in Procs : AlignedBy(q)
      BY DEF AlignedOK
    <2>b. others = {} =>
            /\ Same(mirror, server)
            /\ \A q \in Procs : q # p => op'[q] = Idle
      <3> SUFFICES ASSUME others = {} PROVE /\ Same(mirror, server)
                                           /\ \A q \in Procs : q # p => op'[q] = Idle
        OBVIOUS
      <3>1. \A q \in Procs : op[q] = Idle
        BY <1>q, <1>p
      <3>2. \A q \in Procs : op[q].kind \notin {"create", "delete", "clear"}
        BY <1>i, <3>1 DEF Kinds
      <3> QED
        BY <1>q, <3>2 DEF AlignedOK, Clearing, Pending, Same
    <2>c. cache' # None => Same(cache', server)
      BY DEF AlignedOK
    <2>1. ASSUME NEW q \in Procs, q # p
          PROVE  r.kind = "create" => op'[q].s # r.s
      <3> SUFFICES ASSUME r.kind = "create" PROVE op'[q].s # r.s
        OBVIOUS
      <3>1. r.s \in SessionIds /\ fate[r.s] = "fresh"
        BY <1>i, <1>s
      <3>2. Lacks(op[q], r.s)
        BY <3>1 DEF LackedOK
      <3> QED
        BY <1>q, <2>1, <3>1, <3>2 DEF Lacks
    <2>2. AlignedBy(p)'
      <3>1. r.kind \in Readers \cup {"clear"} => n.alone
        BY <1>e, <1>n
      <3>2. r.kind = "create" => r.s \notin known /\ fate'[r.s] # "fresh"
        <4> SUFFICES ASSUME r.kind = "create" PROVE r.s \notin known /\ fate'[r.s] # "fresh"
          OBVIOUS
        <4>1. r.s \in SessionIds /\ fate[r.s] = "fresh"
          BY <1>i, <1>s
        <4>2. r.s \notin known
          BY <4>1 DEF LackedOK
        <4> QED
          BY <4>1, <4>2
      <3>3. n.snapshot # None /\ n.alone => Same(n.snapshot, server)
        <4>1. r.snapshot # None => r.snapshot = mirror
          BY DEF Fits, Writing
        <4> QED
          BY <1>n, <2>b, <4>1
      <3>4. r.kind = "clear" => Same(mirror', server)
        <4>1. r.kind = "clear" => Same(mirror, server)
          BY <1>n, <2>b, <3>1
        <4> QED
          BY <4>1 DEF Same
      <3>5. r.goal = "post" => Same(n.data, server)
        BY <1>n DEF AlignedOK
      <3>6. n.answer \notin {"ok", "missing"} /\ n.goal \notin {"recreate", "again"}
        BY <1>i, <1>n DEF Answers
      <3>7. \A q \in Procs : q # p => (r.kind = "create" => op'[q].s # r.s)
        BY <2>1
      <3>8. n.goal = "write" => cache' = None
        BY <1>n
      <3>9. /\ n.kind = "create" =>
                  /\ n.s \notin known'
                  /\ fate'[n.s] # "fresh"
                  /\ \A q \in Procs : q # p => op'[q].s # n.s
                  /\ mirror'[n.s] # None
            /\ n.kind = "delete" => mirror'[n.s] = None
        BY <1>0, <1>n, <1>s, <3>2, <3>7
      <3>10. /\ n.kind \in Readers \cup {"clear"} => n.alone
             /\ n.kind = "clear" => Same(mirror', server')
             /\ n.goal = "post" => Same(n.data, server')
             /\ n.snapshot # None /\ n.alone => Same(n.snapshot, server')
        BY <1>0, <1>n, <3>1, <3>3, <3>4, <3>5
      <3> HIDE DEF Beginning
      <3> QED
        BY <1>o, <3>6, <3>8, <3>9, <3>10 DEF AlignedBy
    <2>3. ASSUME NEW q \in Procs, q # p PROVE AlignedBy(q)'
      <3>1. CASE q \notin others
        <4>1. op'[q] = Idle
          BY <1>q, <2>3, <3>1
        <4> QED
          BY <1>i, <4>1 DEF AlignedBy, Readers, Kinds, Goals, Answers
      <3>2. CASE q \in others
        <4>0. /\ op[q] \in Operations /\ Fits(op[q]) /\ op[q].at # "idle"
              /\ op[q].kind \notin Readers \cup {"clear"} /\ op[q].goal \notin {"read", "post", "open"}
              /\ ~op'[q].alone
          BY <1>e, <1>q, <2>3, <3>2, FitsFacts DEF TypeOK, others
        <4>1. /\ op[q].kind = "create" => op[q].s \in SessionIds /\ op[q].s # r.s
              /\ op[q].kind = "delete" => op[q].s \in SessionIds
              /\ op[q].answer = "missing" => op[q].s \in SessionIds
          <5>1. /\ op[q].kind \in {"create", "delete"} => op[q].s \in SessionIds
                /\ op[q].answer = "missing" => op[q].s \in SessionIds
            BY <4>0, FitsFacts DEF Fits, Operations
          <5>2. op[q].kind = "create" => op[q].s \notin known /\ fate[op[q].s] # "fresh"
            BY <2>a DEF AlignedBy
          <5> QED
            BY <1>i, <5>1, <5>2
        <4>2. ~(r.kind = "create" /\ op[q].s = r.s)
          BY <1>q, <2>1, <2>3
        <4>3. op[q].kind = "create" => \A k \in Procs : k # q => op'[k].s # op[q].s
          <5>1. op[q].kind = "create" => \A k \in Procs : k # q => op[k].s # op[q].s
            BY <2>a DEF AlignedBy
          <5> QED
            BY <1>n, <1>o, <1>q, <4>1, <5>1
        <4>4. op[q].kind = "create" => fate'[op[q].s] # "fresh" /\ mirror'[op[q].s] # None
          <5>1. op[q].kind = "create" => fate[op[q].s] # "fresh" /\ mirror[op[q].s] # None
            BY <2>a DEF AlignedBy
          <5> QED
            BY <4>1, <5>1
        <4>5. /\ op[q].kind = "delete" => mirror'[op[q].s] = None
              /\ op[q].answer = "missing" => mirror'[op[q].s] = None
          <5>1. /\ op[q].kind = "delete" => mirror[op[q].s] = None
                /\ op[q].answer = "missing" => mirror[op[q].s] = None
            BY <2>a DEF AlignedBy
          <5> QED
            BY <4>1, <4>2, <5>1
        <4>6. /\ op'[q].at = op[q].at /\ op'[q].kind = op[q].kind /\ op'[q].goal = op[q].goal
              /\ op'[q].s = op[q].s /\ op'[q].answer = op[q].answer
          BY <1>q, <2>3
        <4>7. AlignedBy(q)
          BY <2>a
        <4> QED
          BY <1>0, <4>0, <4>3, <4>4, <4>5, <4>6, <4>7 DEF AlignedBy
      <3> QED
        BY <3>1, <3>2
    <2>4. ASSUME NEW s \in SessionIds, ~Clearing', ~Pending(s)'
          PROVE  mirror'[s] = None <=> server'[s] = None
      <3>1. /\ ~(r.kind \in {"create", "delete"} /\ r.s = s)
            /\ \A q \in Procs : q # p => /\ op[q].kind # "clear"
                                         /\ ~(op[q].kind \in {"create", "delete"} /\ op[q].s = s)
        BY <1>n, <1>o, <1>q, <2>4 DEF Clearing, Pending
      <3>2. ~Clearing /\ ~Pending(s)
        BY <1>p, <1>i, <3>1 DEF Clearing, Pending, Kinds
      <3> QED
        BY <1>0, <3>1, <3>2 DEF AlignedOK
    <2> QED
      BY <1>0, <2>c, <2>2, <2>3, <2>4 DEF AlignedOK, Same
  <1> QED
    BY <1>1, <1>2, <1>3, <1>4, <1>5, <1>6, <1>7

\* What an operation that begins carries.
Fresh(r) == /\ r \in Operations /\ r.at \in {"check", "call"}
            /\ r.tries = 0 /\ r.answer = None /\ ~r.served

LEMMA OperationFacts ==
    ASSUME NEW kind \in Kinds, NEW goal \in Goals, NEW s \in SessionIds \cup {None}
    PROVE  LET r == Operation(kind, goal, s) IN
           /\ Fresh(r)
           /\ r.kind = kind /\ r.goal = goal /\ r.s = s
           /\ r.m = None /\ r.snapshot = None /\ r.data = None
  <1> DEFINE r == Operation(kind, goal, s)
  <1>1. /\ r.at = Available /\ r.kind = kind /\ r.goal = goal /\ r.s = s
        /\ r.m = None /\ r.snapshot = None /\ r.data = None
        /\ r.tries = 0 /\ r.answer = None /\ ~r.served
    BY DEF Operation, Idle
  <1>2. Available \in {"check", "call"}
    BY DEF Available
  <1>3. r \in Operations
    BY <1>2, IdleFacts, ZenonT(30) DEF Operation, Operations
  <1> QED
    BY <1>1, <1>2, <1>3 DEF Fresh

LEMMA CarryFacts ==
    ASSUME NEW o, Fresh(o)
    PROVE  /\ \A m \in Messages : LET r == [o EXCEPT !.m = m] IN
                 /\ Fresh(r) /\ r.kind = o.kind /\ r.goal = o.goal /\ r.s = o.s
                 /\ r.m = m /\ r.snapshot = o.snapshot /\ r.data = o.data
           /\ \A h \in Histories : LET r == [o EXCEPT !.snapshot = h] IN
                 /\ Fresh(r) /\ r.kind = o.kind /\ r.goal = o.goal /\ r.s = o.s
                 /\ r.m = o.m /\ r.snapshot = h /\ r.data = o.data
           /\ \A h \in Histories : LET r == [o EXCEPT !.data = h] IN
                 /\ Fresh(r) /\ r.kind = o.kind /\ r.goal = o.goal /\ r.s = o.s
                 /\ r.m = o.m /\ r.snapshot = o.snapshot /\ r.data = h
  <1>1. \A m \in Messages : LET r == [o EXCEPT !.m = m] IN
           /\ Fresh(r) /\ r.kind = o.kind /\ r.goal = o.goal /\ r.s = o.s
           /\ r.m = m /\ r.snapshot = o.snapshot /\ r.data = o.data
    BY DEF Fresh, Operations
  <1>2. \A h \in Histories : LET r == [o EXCEPT !.snapshot = h] IN
           /\ Fresh(r) /\ r.kind = o.kind /\ r.goal = o.goal /\ r.s = o.s
           /\ r.m = o.m /\ r.snapshot = h /\ r.data = o.data
    BY DEF Fresh, Operations
  <1>3. \A h \in Histories : LET r == [o EXCEPT !.data = h] IN
           /\ Fresh(r) /\ r.kind = o.kind /\ r.goal = o.goal /\ r.s = o.s
           /\ r.m = o.m /\ r.snapshot = o.snapshot /\ r.data = h
    BY DEF Fresh, Operations
  <1> QED
    BY <1>1, <1>2, <1>3

LEMMA FreshFits ==
    ASSUME NEW r, Fresh(r), r.kind # None,
           \/ r.kind = "load" /\ r.goal = "read"
           \/ r.kind = "switch" /\ r.goal \in {"read", "post", "open"} /\ r.s # None
           \/ r.kind = "open" /\ r.goal = "open" /\ r.s # None
           \/ r.kind \in {"create", "rename", "delete"} /\ r.goal = "write" /\ r.s # None
           \/ /\ r.kind \in {"add", "edit"} /\ r.goal = "write"
              /\ r.m \in Messages /\ r.s = Owner[r.m]
           \/ r.kind = "clear" /\ r.goal = "write" /\ r.s = None,
           r.snapshot # None <=> r.goal = "write" /\ r.kind # "clear",
           r.goal = "post" => r.data # None
    PROVE  Fits(r)
  BY IdleFacts DEF Fresh, Fits, Writing, Answers

\* The writes that are applied at once.
LEMMA OptimisticInv ==
    ASSUME IInv, NEW p \in Procs, NEW o, Fresh(o), Optimistic(p, o),
           o.kind \in {"create", "add", "edit", "rename", "delete"},
           o.goal = "write", o.s \in SessionIds,
           o.kind \in {"add", "edit"} => o.m \in Messages /\ o.s = Owner[o.m],
           IF o.kind = "create" THEN fate[o.s] = "fresh" ELSE o.s \in known,
           fate' = IF o.kind \in {"create", "delete"} THEN [fate EXCEPT ![o.s] = "open"]
                   ELSE fate
    PROVE  IInv'
  <1> DEFINE r == [o EXCEPT !.snapshot = mirror]
  <1>t. /\ mirror \in Histories /\ fate \in [SessionIds -> Types]
        /\ \A h \in Histories : h # None
    BY NoneAssumption DEF IInv, TypeOK, Types
  <1>0. /\ Begin(p, r) /\ mirror' = Applied(o, mirror) /\ cache' = None
    BY DEF Optimistic, Applied
  <1>1. /\ Fresh(r) /\ r.kind = o.kind /\ r.goal = o.goal /\ r.s = o.s
        /\ r.m = o.m /\ r.snapshot = mirror
    BY <1>t, CarryFacts
  <1> HIDE DEF r
  <1>i. None \notin Kinds \cup Goals \cup Answers /\ None \notin SessionIds
    BY IdleFacts
  <1>2. Fits(r)
    <2>1. r.kind # None /\ r.s # None /\ r.snapshot # None
      BY <1>1, <1>t, <1>i DEF Kinds
    <2> QED
      BY <1>1, <2>1, FreshFits
  <1>3. /\ mirror' \in Histories
        /\ \A s \in SessionIds :
              mirror'[s] = None <=> \/ r.kind = "delete" /\ s = r.s
                                    \/ mirror[s] = None /\ ~(r.kind = "create" /\ s = r.s)
    <2>e. \A S \in SUBSET Messages : S # None
      BY NoneAssumption
    <2>1. CASE o.kind = "create"
      <3>1. mirror' = [mirror EXCEPT ![o.s] = {}]
        BY <1>0, <2>1 DEF Applied, With
      <3>2. {} # None
        BY <2>e
      <3> QED
        BY <1>1, <1>t, <2>1, <3>1, <3>2 DEF Histories
    <2>2. CASE o.kind = "add"
      <3>1. mirror' = Add(mirror, o.m)
        BY <1>0, <2>2 DEF Applied
      <3>2. CASE mirror[o.s] = None
        BY <1>1, <1>t, <2>2, <3>1, <3>2 DEF Add
      <3>3. CASE mirror[o.s] # None
        <4> DEFINE S == mirror[o.s] \cup {o.m}
        <4>1. S \in SUBSET Messages
          BY <1>t, <2>2, <3>3 DEF Histories
        <4>2. S # None
          BY <2>e, <4>1
        <4>3. mirror' = [mirror EXCEPT ![o.s] = S]
          BY <2>2, <3>1, <3>3 DEF Add
        <4> HIDE DEF S
        <4> QED
          BY <1>1, <1>t, <2>2, <3>3, <4>1, <4>2, <4>3 DEF Histories
      <3> QED
        BY <3>2, <3>3
    <2>3. CASE o.kind = "delete"
      <3>1. mirror' = [mirror EXCEPT ![o.s] = None]
        BY <1>0, <2>3 DEF Applied, Without
      <3> QED
        BY <1>1, <1>t, <2>3, <3>1 DEF Histories
    <2>4. CASE o.kind \in {"edit", "rename"}
      <3>1. mirror' = mirror
        BY <1>0, <2>4 DEF Applied
      <3> QED
        BY <1>1, <1>t, <2>4, <3>1
    <2> QED
      BY <2>1, <2>2, <2>3, <2>4
  <1>4. /\ fate' \in [SessionIds -> Types]
        /\ \A s \in SessionIds :
              fate'[s] = IF \/ r.kind \in {"create", "delete"} /\ s = r.s
                            \/ r.kind = "clear" /\ fate[s] # "fresh"
                         THEN "open" ELSE fate[s]
    <2>1. CASE o.kind \in {"create", "delete"}
      BY <1>1, <1>t, <2>1 DEF Types
    <2>2. CASE o.kind \notin {"create", "delete"}
      BY <1>1, <1>t, <2>2 DEF Types
    <2> QED
      BY <2>1, <2>2
  <1>5. Beginning(r)
    BY <1>0, <1>1, <1>2, <1>3, <1>4, <1>i DEF Beginning, Fresh
  <1> QED
    BY <1>0, <1>5, BeginInv

\* Every operation of the user.
LEMMA RequestInv ==
    ASSUME IInv, NEW p \in Procs, Request(p)
    PROVE  IInv'
  <1>t. /\ mirror \in Histories /\ fate \in [SessionIds -> Types] /\ known \subseteq SessionIds
        /\ cache \in Histories \cup {None}
    BY DEF IInv, TypeOK, Types
  <1>i. None \notin Kinds \cup Goals \cup Answers /\ None \notin SessionIds
    BY IdleFacts
  <1>1. CASE Load(p)
    <2> DEFINE r == Operation("load", "read", None)
    <2>1. /\ Fresh(r) /\ r.kind = "load" /\ r.goal = "read" /\ r.s = None /\ r.snapshot = None
      BY OperationFacts DEF Kinds, Goals
    <2>2. Begin(p, r) /\ UNCHANGED <<mirror, cache, fate>>
      BY <1>1 DEF Load
    <2> HIDE DEF r
    <2>3. Fits(r)
      BY <1>i, <2>1, FreshFits DEF Kinds
    <2>4. Beginning(r)
      BY <1>t, <2>1, <2>2, <2>3 DEF Beginning, Fresh
    <2> QED
      BY <2>2, <2>4, BeginInv
  <1>2. CASE ClearAllHistory(p)
    <2> DEFINE r == Operation("clear", "write", None)
    <2>1. /\ Fresh(r) /\ r.kind = "clear" /\ r.goal = "write" /\ r.s = None /\ r.snapshot = None
      BY OperationFacts DEF Kinds, Goals
    <2>2. Begin(p, r) /\ cache' = None /\ fate' = Every("open") /\ UNCHANGED mirror
      BY <1>2 DEF ClearAllHistory
    <2> HIDE DEF r
    <2>3. Fits(r)
      BY <1>i, <2>1, FreshFits DEF Kinds
    <2>4. /\ fate' \in [SessionIds -> Types]
          /\ \A s \in SessionIds : fate'[s] = IF fate[s] # "fresh" THEN "open" ELSE fate[s]
      BY <1>t, <2>2 DEF Every, Types
    <2>5. Beginning(r)
      BY <1>t, <2>1, <2>2, <2>3, <2>4 DEF Beginning, Fresh
    <2> QED
      BY <2>2, <2>5, BeginInv
  <1>3. ASSUME NEW s \in SessionIds, OpenSession(p, s) PROVE IInv'
    <2> DEFINE r == Operation("open", "open", s)
    <2>1. /\ Fresh(r) /\ r.kind = "open" /\ r.goal = "open" /\ r.s = s /\ r.snapshot = None
      BY OperationFacts DEF Kinds, Goals
    <2>2. s \in known /\ Begin(p, r) /\ UNCHANGED <<mirror, cache, fate>>
      BY <1>3 DEF OpenSession
    <2> HIDE DEF r
    <2>3. Fits(r)
      BY <1>i, <2>1, FreshFits DEF Kinds
    <2>4. Beginning(r)
      BY <1>t, <2>1, <2>2, <2>3 DEF Beginning, Fresh
    <2> QED
      BY <2>2, <2>4, BeginInv
  <1>4. ASSUME NEW s \in SessionIds, SwitchToSession(p, s), cache = None PROVE IInv'
    <2> DEFINE r == Operation("switch", "read", s)
    <2>1. /\ Fresh(r) /\ r.kind = "switch" /\ r.goal = "read" /\ r.s = s /\ r.snapshot = None
      BY OperationFacts DEF Kinds, Goals
    <2>2. s \in known /\ Begin(p, r) /\ UNCHANGED <<mirror, cache, fate>>
      BY <1>4 DEF SwitchToSession
    <2> HIDE DEF r
    <2>3. Fits(r)
      BY <1>i, <2>1, FreshFits DEF Kinds
    <2>4. Beginning(r)
      BY <1>t, <2>1, <2>2, <2>3 DEF Beginning, Fresh
    <2> QED
      BY <2>2, <2>4, BeginInv
  <1>5. ASSUME NEW s \in SessionIds, SwitchToSession(p, s), cache # None PROVE IInv'
    <2> DEFINE o == Operation("switch", "post", s)
               r == [o EXCEPT !.data = cache]
    <2>1. /\ Fresh(o) /\ o.kind = "switch" /\ o.goal = "post" /\ o.s = s /\ o.snapshot = None
      BY OperationFacts DEF Kinds, Goals
    <2>2. /\ s \in known /\ Begin(p, r) /\ cache' = None
          /\ UNCHANGED <<mirror, fate>>
      BY <1>5 DEF SwitchToSession
    <2> HIDE DEF o
    <2>3. /\ Fresh(r) /\ r.kind = "switch" /\ r.goal = "post" /\ r.s = s /\ r.snapshot = None
          /\ r.data = cache
      BY <1>5, <1>t, <2>1, CarryFacts
    <2> HIDE DEF r
    <2>4. Fits(r)
      BY <1>5, <1>i, <2>3, FreshFits DEF Kinds
    <2>5. Beginning(r)
      BY <1>5, <1>t, <2>2, <2>3, <2>4 DEF Beginning, Fresh
    <2> QED
      BY <2>2, <2>5, BeginInv
  <1>6. ASSUME NEW s \in SessionIds, CreateSession(p, s) PROVE IInv'
    <2>1. LET o == Operation("create", "write", s) IN
          /\ Fresh(o) /\ o.kind = "create" /\ o.goal = "write" /\ o.s = s
      BY OperationFacts DEF Kinds, Goals
    <2> QED
      BY <1>6, <2>1, OptimisticInv DEF CreateSession
  <1>7. ASSUME NEW s \in SessionIds, RenameSession(p, s) PROVE IInv'
    <2>1. LET o == Operation("rename", "write", s) IN
          /\ Fresh(o) /\ o.kind = "rename" /\ o.goal = "write" /\ o.s = s
      BY OperationFacts DEF Kinds, Goals
    <2> QED
      BY <1>7, <2>1, OptimisticInv DEF RenameSession
  <1>8. ASSUME NEW s \in SessionIds, DeleteSession(p, s) PROVE IInv'
    <2>1. LET o == Operation("delete", "write", s) IN
          /\ Fresh(o) /\ o.kind = "delete" /\ o.goal = "write" /\ o.s = s
      BY OperationFacts DEF Kinds, Goals
    <2> QED
      BY <1>8, <2>1, OptimisticInv DEF DeleteSession
  <1>9. ASSUME NEW m \in Messages, AddMessage(p, m) PROVE IInv'
    <2> DEFINE u == Operation("add", "write", Owner[m])
               o == [u EXCEPT !.m = m]
    <2>0. Owner[m] \in SessionIds
      BY BrowserAssumption
    <2>1. Fresh(u) /\ u.kind = "add" /\ u.goal = "write" /\ u.s = Owner[m]
      BY <2>0, OperationFacts DEF Kinds, Goals
    <2>2. Owner[m] \in known /\ Optimistic(p, o) /\ fate' = fate
      BY <1>9 DEF AddMessage
    <2> HIDE DEF u
    <2>3. Fresh(o) /\ o.kind = "add" /\ o.goal = "write" /\ o.s = Owner[m] /\ o.m = m
      BY <2>1, CarryFacts
    <2> HIDE DEF o
    <2> QED
      BY <2>0, <2>2, <2>3, OptimisticInv
  <1>10. ASSUME NEW m \in Messages, UpdateMessage(p, m) PROVE IInv'
    <2> DEFINE u == Operation("edit", "write", Owner[m])
               o == [u EXCEPT !.m = m]
    <2>0. Owner[m] \in SessionIds
      BY BrowserAssumption
    <2>1. Fresh(u) /\ u.kind = "edit" /\ u.goal = "write" /\ u.s = Owner[m]
      BY <2>0, OperationFacts DEF Kinds, Goals
    <2>2. Owner[m] \in known /\ Optimistic(p, o) /\ fate' = fate
      BY <1>10 DEF UpdateMessage
    <2> HIDE DEF u
    <2>3. Fresh(o) /\ o.kind = "edit" /\ o.goal = "write" /\ o.s = Owner[m] /\ o.m = m
      BY <2>1, CarryFacts
    <2> HIDE DEF o
    <2> QED
      BY <2>0, <2>2, <2>3, OptimisticInv
  <1> QED
    BY <1>1, <1>2, <1>3, <1>4, <1>5, <1>6, <1>7, <1>8, <1>9, <1>10 DEF Request

-----------------------------------------------------------------------------
(***************************************************************************)
(* The server                                                              *)
(***************************************************************************)

\* What removes sessions on the server only marks answers as outdated.
LEMMA NoticedFacts ==
    ASSUME NEW o \in Operations, Fits(o), NEW gone
    PROVE  LET x == Noticed(o, gone) IN
           /\ x \in Operations /\ Fits(x)
           /\ x.at = o.at /\ x.kind = o.kind /\ x.goal = o.goal
           /\ x.s = o.s /\ x.m = o.m /\ x.answer = o.answer
           /\ x.snapshot = o.snapshot /\ x.data = o.data
           /\ x.served = o.served /\ x.alone = o.alone
           /\ ~x.outdated =>
                 /\ ~o.outdated
                 /\ o.answer = "ok" /\ o.goal = "read" => gone = {}
                 /\ o.answer = "ok" /\ o.kind \in {"create", "add"} => o.s \notin gone
           /\ o = Idle => x = Idle
  <1> DEFINE x == Noticed(o, gone)
             seen == o.answer = "ok" /\ (\/ o.goal = "read" /\ gone # {}
                                         \/ o.kind \in {"create", "add"} /\ o.s \in gone)
  <1>1. CASE ~seen
    <2>1. x = o
      BY <1>1 DEF Noticed
    <2> QED
      BY <1>1, <2>1 DEF Operations
  <1>2. CASE seen
    <2> DEFINE y == [o EXCEPT !.outdated = TRUE]
    <2>1. x = y
      BY <1>2 DEF Noticed
    <2>2. /\ y \in Operations
          /\ y.at = o.at /\ y.kind = o.kind /\ y.goal = o.goal
          /\ y.s = o.s /\ y.m = o.m /\ y.answer = o.answer
          /\ y.snapshot = o.snapshot /\ y.data = o.data /\ y.copy = o.copy /\ y.tries = o.tries
          /\ y.served = o.served /\ y.alone = o.alone /\ y.outdated
      BY DEF Operations
    <2>3. o # Idle /\ o.at # "idle"
      <3>1. o # Idle
        BY <1>2, IdleFacts DEF Answers
      <3> QED
        BY <3>1 DEF Fits
    <2> HIDE DEF y
    <2>4. Fits(y)
      BY <2>2, <2>3 DEF Fits, LooksUp
    <2> QED
      BY <2>1, <2>2, <2>3, <2>4
  <1> QED
    BY <1>1, <1>2

\* The operation o when the server has carried out its request.
AnsweredOp(o, answer, served, data) ==
    [o EXCEPT !.at = "answer", !.answer = answer, !.outdated = FALSE,
              !.served = served, !.data = data]

LEMMA AnsweredFacts ==
    ASSUME NEW o \in Operations, NEW answer \in Answers, NEW served \in BOOLEAN,
           NEW data \in Histories \cup {None}
    PROVE  LET x == AnsweredOp(o, answer, served, data) IN
           /\ x \in Operations
           /\ x.at = "answer" /\ x.answer = answer /\ ~x.outdated
           /\ (x.served <=> served) /\ x.data = data
           /\ x.kind = o.kind /\ x.goal = o.goal /\ x.s = o.s /\ x.m = o.m
           /\ x.snapshot = o.snapshot /\ x.copy = o.copy /\ x.tries = o.tries
           /\ x.alone = o.alone
  <1> DEFINE x == AnsweredOp(o, answer, served, data)
  <1>1. x \in Operations
    BY ZenonT(30) DEF Operations, AnsweredOp
  <1>2. /\ x.at = "answer" /\ x.answer = answer /\ ~x.outdated
        /\ (x.served <=> served) /\ x.data = data
        /\ x.kind = o.kind /\ x.goal = o.goal /\ x.s = o.s /\ x.m = o.m
        /\ x.snapshot = o.snapshot /\ x.copy = o.copy /\ x.tries = o.tries
        /\ x.alone = o.alone
    BY DEF Operations, AnsweredOp
  <1> QED
    BY <1>1, <1>2

\* What request r does to the sessions on the server.
Serving(r) ==
    /\ server' \in Histories
    /\ \A s \in SessionIds :
          /\ server[s] # None /\ server'[s] = None =>
                \/ r.kind = "delete" /\ r.s = s
                \/ r.kind = "clear"
          /\ server[s] = None /\ server'[s] # None =>
                \/ r.goal = "post" /\ r.data[s] # None
                \/ r.goal = "recreate" /\ r.s = s
                \/ r.kind = "create" /\ r.s = s
          /\ server[s] # None /\ server'[s] # None => server[s] \subseteq server'[s]

LEMMA ServedFacts ==
    ASSUME TypeOK, NEW r \in Operations, Fits(r), r.at = "call", server' = Served(r)
    PROVE  Serving(r)
  <1>i. /\ None \notin Kinds \cup Goals \cup Answers /\ None \notin SessionIds
        /\ \A S \in SUBSET Messages : S # None
    BY NoneAssumption, IdleFacts
  <1>t. server \in Histories
    BY DEF TypeOK
  <1>f. /\ r.kind \in Kinds
        /\ r.kind \in Readers <=> r.goal \in {"read", "post", "open"}
        /\ r.kind \in {"create", "delete", "rename", "clear"} => r.goal = "write"
        /\ r.kind \in {"create", "delete", "rename", "add", "edit"} => r.s \in SessionIds
        /\ r.goal \in {"recreate", "again"} => r.kind \in {"add", "edit"}
        /\ r.kind \in {"add", "edit"} => r.m \in Messages /\ r.s = Owner[r.m]
        /\ r.goal \in Goals
    BY <1>i, FitsFacts DEF Operations
  <1>1. CASE r.goal \in {"read", "open"}
    <2>1. server' = server
      BY <1>1, <1>f DEF Served, Readers
    <2> QED
      BY <1>t, <2>1 DEF Serving
  <1>2. CASE r.goal = "post"
    <2>1. server' = [s \in SessionIds |->
                       IF r.data[s] = None THEN server[s]
                       ELSE r.data[s] \cup (IF server[s] = None THEN {} ELSE server[s])]
      BY <1>2, <1>f DEF Served, Readers
    <2>2. r.data \in Histories
      BY <1>2 DEF Operations, Fits
    <2>3. ASSUME NEW s \in SessionIds
          PROVE  /\ server'[s] \in {None} \cup SUBSET Messages
                 /\ server'[s] = None <=> r.data[s] = None /\ server[s] = None
                 /\ server[s] # None /\ server'[s] # None => server[s] \subseteq server'[s]
      <3>1. CASE r.data[s] = None
        BY <1>t, <2>1, <3>1 DEF Histories
      <3>2. CASE r.data[s] # None /\ server[s] = None
        <4>1. server'[s] = r.data[s] \cup {}
          BY <2>1, <3>2
        <4>2. r.data[s] \cup {} \in SUBSET Messages
          BY <2>2, <3>2 DEF Histories
        <4> QED
          BY <1>i, <3>2, <4>1, <4>2
      <3>3. CASE r.data[s] # None /\ server[s] # None
        <4>1. server'[s] = r.data[s] \cup server[s]
          BY <2>1, <3>3
        <4>2. r.data[s] \cup server[s] \in SUBSET Messages
          BY <1>t, <2>2, <3>3 DEF Histories
        <4> QED
          BY <1>i, <3>3, <4>1, <4>2
      <3> QED
        BY <3>1, <3>2, <3>3
    <2>4. server' \in Histories
      BY <2>1, <2>3 DEF Histories
    <2> QED
      BY <1>2, <2>3, <2>4 DEF Serving
  <1>3. CASE r.goal = "recreate" \/ r.kind = "create"
    <2>s. r.s \in SessionIds
      BY <1>3, <1>f
    <2>1. CASE server[r.s] # None
      <3>1. server' = server
        BY <1>3, <1>f, <2>1 DEF Served, Readers
      <3> QED
        BY <1>t, <3>1 DEF Serving
    <2>2. CASE server[r.s] = None
      <3> DEFINE S == IF r.goal = "recreate" THEN r.copy ELSE {}
      <3>1. server' = [server EXCEPT ![r.s] = S]
        BY <1>3, <1>f, <2>2 DEF Served, Readers, With
      <3>2. S \in {None} \cup SUBSET Messages
        BY DEF Operations
      <3> HIDE DEF S
      <3> QED
        BY <1>3, <1>t, <2>s, <2>2, <3>1, <3>2 DEF Serving, Histories
    <2> QED
      BY <2>1, <2>2
  <1>4. CASE r.goal \in {"write", "again"} /\ r.kind # "create"
    <2>0. server' = IF r.kind # "clear" /\ server[r.s] = None THEN server
                    ELSE Applied(r, server)
      BY <1>4 DEF Served
    <2>1. CASE r.kind = "clear"
      <3>1. server' = Empty
        BY <2>0, <2>1 DEF Applied
      <3> QED
        BY <2>1, <3>1 DEF Serving, Empty, Histories
    <2>2. CASE r.kind # "clear" /\ server[r.s] = None
      <3>1. server' = server
        BY <2>0, <2>2
      <3> QED
        BY <1>t, <3>1 DEF Serving
    <2>3. CASE r.kind = "delete" /\ server[r.s] # None
      <3>1. server' = [server EXCEPT ![r.s] = None]
        BY <2>0, <2>3 DEF Applied, Without
      <3> QED
        BY <1>f, <1>t, <2>3, <3>1 DEF Serving, Histories
    <2>4. CASE r.kind = "add" /\ server[r.s] # None
      <3> DEFINE S == server[r.s] \cup {r.m}
      <3>1. server' = [server EXCEPT ![r.s] = S]
        BY <1>f, <2>0, <2>4 DEF Applied, Add
      <3>2. S \in SUBSET Messages /\ server[r.s] \subseteq S
        BY <1>f, <1>t, <2>4 DEF Histories
      <3> HIDE DEF S
      <3> QED
        BY <1>i, <1>f, <1>t, <2>4, <3>1, <3>2 DEF Serving, Histories
    <2>5. CASE r.kind \in {"edit", "rename"} /\ server[r.s] # None
      <3>1. server' = server
        BY <2>0, <2>5 DEF Applied
      <3> QED
        BY <1>t, <3>1 DEF Serving
    <2> QED
      BY <1>4, <1>f, <2>1, <2>2, <2>3, <2>4, <2>5 DEF Readers, Kinds
  <1> QED
    BY <1>1, <1>2, <1>3, <1>4, <1>f DEF Goals

\* What the answer to r says of the server.
Says(r, answer) ==
    /\ answer \in Answers \ {"unfound"}
    /\ answer = "ok" =>
          /\ r.kind = "create" => server'[r.s] # None
          /\ r.kind = "delete" => server'[r.s] = None
          /\ r.kind = "clear" => \A s \in SessionIds : server'[s] = None
          /\ r.kind = "add" /\ r.goal \in {"write", "again"} =>
                server'[r.s] # None /\ r.m \in server'[r.s]
    /\ answer = "missing" =>
          /\ r.s \in SessionIds /\ r.goal \in {"open", "write", "again"} /\ r.kind # "create"
          /\ server[r.s] = None /\ server'[r.s] = None

LEMMA ResultFacts ==
    ASSUME TypeOK, NEW r \in Operations, Fits(r), r.at = "call", server' = Served(r),
           NEW answer \in {Result(r), "lost"}
    PROVE  Says(r, answer)
  <1>i. /\ None \notin Kinds \cup Goals \cup Answers /\ None \notin SessionIds
        /\ \A S \in SUBSET Messages : S # None
    BY NoneAssumption, IdleFacts
  <1>t. server \in Histories
    BY DEF TypeOK
  <1>f. /\ r.kind \in Kinds
        /\ r.kind \in Readers <=> r.goal \in {"read", "post", "open"}
        /\ r.kind \in {"create", "delete", "rename", "clear"} => r.goal = "write"
        /\ r.kind \in {"create", "delete", "rename", "add", "edit"} => r.s \in SessionIds
        /\ r.goal \in {"recreate", "again"} => r.kind \in {"add", "edit"}
        /\ r.kind \in {"add", "edit"} => r.m \in Messages /\ r.s = Owner[r.m]
        /\ r.goal \in Goals /\ r.s \in SessionIds \cup {None}
    BY <1>i, FitsFacts DEF Operations
  <1>1. CASE answer = "lost"
    BY <1>1 DEF Says, Answers
  <1>a. CASE answer = Result(r)
    <2> DEFINE lacking == r.s # None /\ server[r.s] = None
    <2>1. CASE r.goal = "recreate" \/ r.kind = "create"
      <3>1. answer = IF lacking THEN "ok" ELSE "refused"
        BY <1>a, <1>f, <2>1 DEF Result, Readers
      <3>2. CASE r.kind = "create"
        <4>1. lacking => server' = [server EXCEPT ![r.s] = {}]
          BY <1>f, <3>2 DEF Served, Readers, With
        <4>2. lacking => server'[r.s] # None
          BY <1>f, <1>i, <1>t, <3>2, <4>1 DEF Histories
        <4> QED
          BY <3>1, <3>2, <4>2 DEF Says, Answers
      <3>3. CASE r.goal = "recreate"
        BY <1>f, <3>1, <3>3 DEF Says, Answers
      <3> QED
        BY <2>1, <3>2, <3>3
    <2>2. CASE r.goal \in {"read", "post"}
      <3>1. answer = "ok"
        BY <1>a, <1>f, <2>2 DEF Result, Readers
      <3> QED
        BY <1>f, <2>2, <3>1 DEF Says, Answers, Readers
    <2>3. CASE r.kind = "clear"
      <3>1. answer = "ok" /\ server' = Empty
        BY <1>a, <1>f, <2>3 DEF Result, Served, Applied
      <3> QED
        BY <2>3, <3>1 DEF Says, Answers, Empty
    <2>4. CASE r.goal \in {"open", "write", "again"} /\ r.kind \notin {"create", "clear"}
      <3>1. answer = CASE lacking -> "missing"
                       [] ~lacking /\ r.kind = "edit" /\ r.m \notin server[r.s] -> "refused"
                       [] OTHER -> "ok"
        BY <1>a, <1>f, <2>4 DEF Result
      <3>2. CASE lacking
        <4>1. answer = "missing"
          BY <3>1, <3>2
        <4>2. server' = server
          BY <2>4, <3>2 DEF Served
        <4> QED
          BY <1>f, <2>4, <3>2, <4>1, <4>2 DEF Says, Answers
      <3>3. CASE ~lacking
        <4>1. answer \in {"ok", "refused"}
          BY <3>1, <3>3
        <4>2. CASE r.kind = "delete"
          <5>1. server' = [server EXCEPT ![r.s] = None]
            BY <1>f, <1>i, <2>4, <3>3, <4>2 DEF Served, Applied, Without
          <5> QED
            BY <1>f, <1>t, <4>1, <4>2, <5>1 DEF Says, Answers, Histories
        <4>3. CASE r.kind = "add"
          <5> DEFINE S == server[r.s] \cup {r.m}
          <5>1. server' = [server EXCEPT ![r.s] = S]
            BY <1>f, <1>i, <2>4, <3>3, <4>3 DEF Served, Applied, Add, Readers
          <5>2. S \in SUBSET Messages /\ r.m \in S
            BY <1>f, <1>i, <1>t, <3>3, <4>3 DEF Histories
          <5> HIDE DEF S
          <5>3. server'[r.s] = S /\ S # None
            BY <1>i, <1>f, <1>t, <4>3, <5>1, <5>2 DEF Histories
          <5> QED
            BY <4>1, <4>3, <5>2, <5>3 DEF Says, Answers
        <4>4. CASE r.kind \notin {"delete", "add"}
          BY <2>4, <4>1, <4>4 DEF Says, Answers
        <4> QED
          BY <4>2, <4>3, <4>4
      <3> QED
        BY <3>2, <3>3
    <2> QED
      BY <1>f, <2>1, <2>2, <2>3, <2>4 DEF Goals
  <1> QED
    BY <1>1, <1>a

\* The server carries out a request.
LEMMA ServeInv ==
    ASSUME IInv, NEW p \in Procs, Serve(p)
    PROVE  IInv'
  <1> USE DEF IInv
  <1> DEFINE r == op[p]
             gone == Sessions(server) \ Sessions(server')
             n == op'[p]
  <1>i. /\ None \notin Kinds \cup Goals \cup Answers /\ None \notin SessionIds
        /\ Idle.at = "idle" /\ Idle.goal = None /\ Idle.kind = None /\ Idle.s = None
        /\ Idle.snapshot = None /\ Idle.answer = None
    BY IdleFacts
  <1>t. /\ server \in Histories /\ op \in [Procs -> Operations]
        /\ \A q \in Procs : op[q] \in Operations /\ Fits(op[q])
        /\ r \in Operations /\ Fits(r)
    BY DEF TypeOK
  <1>0. /\ r.at = "call" /\ server' = Served(r)
        /\ acked' = {m \in acked : Owner[m] \notin gone}
        /\ UNCHANGED <<mirror, cache, avail, left, known, fate, excused>>
    BY DEF Serve, Forget
  <1>1. PICK answer \in {Result(r), "lost"} :
           op' = [q \in Procs |->
                    IF q # p THEN Noticed(op[q], gone)
                    ELSE [r EXCEPT !.at = "answer", !.answer = answer, !.outdated = FALSE,
                                   !.served = @ \/ Sessions(server') # Sessions(server),
                                   !.data = IF r.goal = "read" THEN Listing ELSE @]]
    BY DEF Serve
  <1>v. Serving(r) /\ Says(r, answer)
    BY <1>0, <1>t, ServedFacts, ResultFacts
  <1>n. /\ n \in Operations
        /\ n.at = "answer" /\ n.answer = answer /\ ~n.outdated
        /\ n.served <=> r.served \/ Sessions(server') # Sessions(server)
        /\ n.data = IF r.goal = "read" THEN Listing ELSE r.data
        /\ n.kind = r.kind /\ n.goal = r.goal /\ n.s = r.s /\ n.m = r.m
        /\ n.snapshot = r.snapshot /\ n.copy = r.copy /\ n.tries = r.tries
        /\ n.alone = r.alone
    <2> DEFINE served == r.served \/ Sessions(server') # Sessions(server)
               data == IF r.goal = "read" THEN Listing ELSE r.data
    <2>1. n = AnsweredOp(r, answer, served, data)
      BY <1>1 DEF AnsweredOp
    <2>2. served \in BOOLEAN
      BY <1>t DEF Operations
    <2>3. data \in Histories \cup {None}
      <3>1. Listing \in Histories
        BY DEF Listing, Histories
      <3> QED
        BY <1>t, <3>1 DEF Operations
    <2>4. answer \in Answers
      BY <1>v DEF Says
    <2> HIDE DEF served, data, n, r
    <2>6. /\ n \in Operations
          /\ n.at = "answer" /\ n.answer = answer /\ ~n.outdated
          /\ (n.served <=> served) /\ n.data = data
          /\ n.kind = r.kind /\ n.goal = r.goal /\ n.s = r.s /\ n.m = r.m
          /\ n.snapshot = r.snapshot /\ n.copy = r.copy /\ n.tries = r.tries
          /\ n.alone = r.alone
      BY <1>t, <2>1, <2>2, <2>3, <2>4, AnsweredFacts
    <2> QED
      BY <2>6 DEF served, data
  <1>q. ASSUME NEW q \in Procs, q # p
        PROVE  LET x == op'[q] IN
               /\ x \in Operations /\ Fits(x)
               /\ x.at = op[q].at /\ x.kind = op[q].kind /\ x.goal = op[q].goal
               /\ x.s = op[q].s /\ x.m = op[q].m /\ x.answer = op[q].answer
               /\ x.snapshot = op[q].snapshot /\ x.data = op[q].data
               /\ x.served = op[q].served /\ x.alone = op[q].alone
               /\ ~x.outdated =>
                     /\ ~op[q].outdated
                     /\ op[q].answer = "ok" /\ op[q].kind \in {"create", "add"} =>
                           op[q].s \notin gone
               /\ op[q] = Idle => x = Idle
    <2>1. op'[q] = Noticed(op[q], gone)
      BY <1>1, <1>q
    <2> HIDE DEF gone
    <2> QED
      BY <1>t, <2>1, NoticedFacts
  <1>g. \A s \in SessionIds : s \in gone <=> server[s] # None /\ server'[s] = None
    BY DEF Sessions
  <1>l. /\ \A s \in SessionIds : Listing[s] = None <=> server[s] = None
        /\ r.goal = "read" => server' = server
    <2>1. \A S \in SUBSET Messages : S # None
      BY NoneAssumption
    <2>2. {} # None
      BY <2>1
    <2>3. r.goal = "read" => r.kind \in Readers
      BY <1>0, <1>t, FitsFacts
    <2>4. r.goal = "read" => server' = server
      BY <1>0, <2>3 DEF Served, Readers
    <2> QED
      BY <2>2, <2>4 DEF Listing
  <1> HIDE DEF gone, n
  <1>f. Fits(n)
    <2>1. r.goal = "read" => Listing # None
      <3>1. Listing \in Histories
        BY DEF Listing, Histories
      <3> QED
        BY <3>1, NoneAssumption
    <2>2. answer \in Answers /\ answer # None
      BY <1>i, <1>v DEF Says
    <2>3. answer = "missing" => r.goal \in {"open", "write", "again"} /\ r.s # None
      BY <1>i, <1>v DEF Says
    <2>4. answer # "unfound"
      BY <1>i, <1>v DEF Says
    <2> QED
      BY <1>0, <1>n, <1>t, <2>1, <2>2, <2>3, <2>4 DEF Fits
  <1>2. TypeOK'
    <2>1. \A q \in Procs : op'[q] \in Operations /\ Fits(op'[q])
      BY <1>n, <1>f, <1>q DEF n
    <2>2. op' \in [Procs -> Operations]
      BY <1>1, <2>1
    <2>3. acked' \subseteq Messages
      BY <1>0 DEF TypeOK
    <2> QED
      BY <1>0, <1>v, <2>1, <2>2, <2>3 DEF TypeOK, Serving
  <1>3. AloneOK'
    <2>1. \A q \in Procs : (op'[q].at # "idle" => op[q].at # "idle") /\ op'[q].alone = op[q].alone
      BY <1>0, <1>n, <1>q DEF n
    <2> QED
      BY <2>1, StillAlone DEF Active
  <1>a. \A q \in Procs : q # p /\ op[q].at # "idle" => ~op[q].alone /\ ~r.alone
    BY <1>0 DEF AloneOK, Active
  <1>d. \A q \in Procs : op[q].at = "idle" => op[q] = Idle
    BY <1>t DEF Fits
  <1>4. LoneOK'
    <2> SUFFICES ASSUME NEW q \in Procs, op'[q].alone
                 PROVE  LET x == op'[q] IN
                        /\ x.kind \in {"create", "delete", "clear"} => cache' = None
                        /\ x.kind = "create" =>
                              /\ mirror'[x.s] # None
                              /\ x.answer = "ok" /\ ~x.outdated => server'[x.s] # None
                        /\ x.kind = "delete" =>
                              /\ mirror'[x.s] = None
                              /\ x.answer \in {"ok", "missing"} => server'[x.s] = None
                        /\ x.kind = "clear" /\ x.answer = "ok" =>
                              \A s \in SessionIds : server'[s] = None
                        /\ x.goal = "read" /\ x.answer = "ok" /\ ~x.outdated =>
                              Same(x.data, server')
      BY DEF LoneOK, Same
    <2>1. CASE q = p
      <3>1. op'[q] = n /\ r.alone
        BY <1>n, <2>1 DEF n
      <3>2. /\ r.kind \in {"create", "delete", "clear"} => cache = None
            /\ r.kind = "create" => mirror[r.s] # None
            /\ r.kind = "delete" => mirror[r.s] = None
        BY <3>1 DEF LoneOK
      <3>3. n.goal = "read" => Same(n.data, server')
        BY <1>l, <1>n DEF Same
      <3>4. /\ n.kind = "create" /\ n.answer = "ok" => server'[n.s] # None
            /\ n.kind = "delete" /\ n.answer \in {"ok", "missing"} => server'[n.s] = None
            /\ n.kind = "clear" /\ n.answer = "ok" => \A s \in SessionIds : server'[s] = None
        BY <1>n, <1>v DEF Says
      <3> QED
        BY <1>0, <1>n, <3>1, <3>2, <3>3, <3>4
    <2>2. CASE q # p
      <3>1. op'[q] = Idle
        BY <1>a, <1>d, <1>q, <2>2
      <3> QED
        BY <1>i, <3>1 DEF Kinds, Goals
    <2> QED
      BY <2>1, <2>2
  <1>5. KeptOK'
    <2> SUFFICES ASSUME NEW s \in SessionIds, fate[s] \in {"there", "kept"}
                 PROVE  /\ fate[s] = "there" => server'[s] # None
                        /\ \A q \in Procs : Keeps(op[q], s)'
      BY <1>0 DEF KeptOK
    <2>1. /\ \A q \in Procs : Keeps(op[q], s)
          /\ fate[s] = "there" => server[s] # None
      BY DEF KeptOK
    <2>2. fate[s] = "there" => server'[s] # None
      BY <1>v, <2>1 DEF Serving, Keeps
    <2>3. Keeps(op[p], s)'
      <3>1. Keeps(r, s)
        BY <2>1
      <3>2. n.goal = "read" /\ fate[s] = "there" => n.data[s] # None
        BY <1>n, <1>l, <2>1
      <3>3. n.goal = "post" => n.data[s] # None
        BY <1>n, <3>1 DEF Keeps
      <3>4. fate[s] = "there" /\ n.s = s => n.answer # "missing"
        BY <1>n, <1>v, <2>1 DEF Says
      <3> QED
        BY <1>0, <1>n, <3>1, <3>2, <3>3, <3>4 DEF Keeps, n
    <2>4. ASSUME NEW q \in Procs PROVE Keeps(op[q], s)'
      <3>1. CASE q = p
        BY <2>3, <3>1 DEF Keeps
      <3>2. CASE q # p
        <4>1. Keeps(op[q], s)
          BY <2>1
        <4> QED
          BY <1>0, <1>q, <3>2, <4>1 DEF Keeps
      <3> QED
        BY <3>1, <3>2
    <2> QED
      BY <2>2, <2>4
  <1>6. LackedOK'
    <2> SUFFICES ASSUME NEW s \in SessionIds, fate[s] \in {"fresh", "gone", "hidden"}
                 PROVE  /\ fate[s] # "hidden" => server'[s] = None
                        /\ \A q \in Procs : Lacks(op[q], s)'
      BY <1>0 DEF LackedOK
    <2>1. /\ \A q \in Procs : Lacks(op[q], s)
          /\ fate[s] # "hidden" => server[s] = None
      BY DEF LackedOK
    <2>2. fate[s] # "hidden" => server'[s] = None
      BY <1>v, <2>1 DEF Serving, Lacks
    <2>4. ASSUME NEW q \in Procs PROVE Lacks(op[q], s)'
      <3>0. Lacks(op[q], s)
        BY <2>1
      <3>1. CASE q = p
        <4>1. op'[q] = n
          BY <3>1 DEF n
        <4>2. fate[s] # "hidden" /\ n.goal = "read" => n.data[s] = None
          BY <1>n, <1>l, <2>1
        <4>3. n.goal = "post" => n.data[s] = None
          BY <1>n, <3>0, <3>1 DEF Lacks
        <4> QED
          BY <1>0, <1>n, <3>0, <3>1, <4>1, <4>2, <4>3 DEF Lacks
      <3>2. CASE q # p
        BY <1>0, <1>q, <3>0, <3>2 DEF Lacks
      <3> QED
        BY <3>1, <3>2
    <2> QED
      BY <2>2, <2>4
  <1>7. AckedOK'
    <2>1. ASSUME NEW m \in Messages, Stored(m), Owner[m] \notin gone PROVE Stored(m)'
      <3>1. Owner[m] \in SessionIds
        BY BrowserAssumption
      <3> QED
        BY <1>g, <1>v, <2>1, <3>1 DEF Serving, Stored
    <2>2. \A m \in acked' : Stored(m)'
      <3> SUFFICES ASSUME NEW m \in acked' PROVE Stored(m)'
        OBVIOUS
      <3>1. m \in Messages /\ Stored(m) /\ Owner[m] \notin gone
        BY <1>0 DEF TypeOK, AckedOK
      <3> QED
        BY <2>1, <3>1
    <2>3. ASSUME NEW q \in Procs, op'[q].kind = "add", op'[q].goal \in {"write", "again"},
                 op'[q].answer = "ok", ~op'[q].outdated
          PROVE  Stored(op[q].m)'
      <3>1. CASE q = p
        <4>1. op'[q] = n /\ n.m \in Messages /\ n.s = Owner[n.m]
          BY <1>f, <1>n, <2>3, <3>1, FitsFacts DEF n
        <4>2. server'[n.s] # None /\ n.m \in server'[n.s]
          BY <1>n, <1>v, <2>3, <4>1 DEF Says
        <4> QED
          BY <4>1, <4>2 DEF Stored
      <3>2. CASE q # p
        <4>1. /\ op[q].kind = "add" /\ op[q].goal \in {"write", "again"}
              /\ op[q].answer = "ok" /\ ~op[q].outdated /\ op[q].s \notin gone
              /\ op'[q].m = op[q].m
          BY <1>q, <2>3, <3>2
        <4>2. Stored(op[q].m)
          BY <4>1 DEF AckedOK
        <4>3. op[q].m \in Messages /\ op[q].s = Owner[op[q].m]
          BY <1>t, <4>1, FitsFacts
        <4>4. Stored(op[q].m) => server'[Owner[op[q].m]] # None
                                 /\ op[q].m \in server'[Owner[op[q].m]]
          BY <2>1, <4>1, <4>3 DEF Stored
        <4> QED
          BY <4>1, <4>2, <4>4 DEF Stored
      <3> QED
        BY <3>1, <3>2
    <2> QED
      BY <2>2, <2>3 DEF AckedOK
  <1>8. AlignedOK'
    <2> SUFFICES ASSUME ~excused PROVE AlignedOK'
      BY <1>0 DEF AlignedOK
    <2>a. \A q \in Procs : AlignedBy(q)
      BY DEF AlignedOK
    <2>f. /\ r.kind \in Kinds
          /\ r.kind \in Readers <=> r.goal \in {"read", "post", "open"}
          /\ r.kind \in {"create", "delete", "clear"} => r.goal = "write"
          /\ r.kind \in {"create", "delete"} => r.s \in SessionIds
          /\ r.goal \in {"read", "open", "post", "write"}
      <3>1. AlignedBy(p)
        BY <2>a
      <3>2. r.goal \in Goals \cup {None} /\ r.kind \in Kinds \cup {None}
        BY <1>t DEF Operations
      <3> QED
        BY <1>0, <1>t, <3>1, <3>2, FitsFacts DEF AlignedBy, Goals
    <2>s. r.goal # "write" => Same(server', server)
      <3>1. r.goal = "post" => Same(r.data, server)
        BY <2>a DEF AlignedBy
      <3> QED
        BY <1>v, <2>f, <3>1 DEF Serving, Same
    <2>1. cache' # None => Same(cache', server')
      <3>1. r.goal = "write" => cache = None
        BY <2>a DEF AlignedBy
      <3>2. cache # None => Same(cache, server)
        BY DEF AlignedOK
      <3> QED
        BY <1>0, <2>s, <3>1, <3>2 DEF Same
    <2>2. ASSUME NEW s \in SessionIds,
                 r.kind \notin {"create", "delete"} \/ r.s # s, r.kind # "clear"
          PROVE  server'[s] = None <=> server[s] = None
      BY <1>v, <2>2, <2>f, <2>s DEF Serving, Same
    <2>3. ASSUME NEW s \in SessionIds, ~Clearing', ~Pending(s)'
          PROVE  mirror'[s] = None <=> server'[s] = None
      <3>1. \A q \in Procs : op'[q].kind = op[q].kind /\ op'[q].s = op[q].s
        BY <1>n, <1>q DEF n
      <3>2. ~Clearing /\ ~Pending(s)
        BY <2>3, <3>1 DEF Clearing, Pending
      <3>3. mirror[s] = None <=> server[s] = None
        BY <3>2 DEF AlignedOK
      <3>4. (r.kind \notin {"create", "delete"} \/ r.s # s) /\ r.kind # "clear"
        BY <3>2 DEF Clearing, Pending
      <3> QED
        BY <1>0, <2>2, <3>3, <3>4
    <2>4. AlignedBy(p)'
      <3>0. AlignedBy(p)
        BY <2>a
      <3>1. \A q \in Procs : q # p => op'[q].s = op[q].s
        BY <1>q
      <3>2. n.answer = "missing" => mirror[n.s] = None /\ server'[n.s] = None
        <4> SUFFICES ASSUME n.answer = "missing" PROVE mirror[r.s] = None /\ server'[n.s] = None
          BY <1>n
        <4>1. /\ r.s \in SessionIds /\ r.kind # "create"
              /\ server[r.s] = None /\ server'[n.s] = None
          BY <1>n, <1>v DEF Says
        <4>2. CASE r.kind = "delete"
          BY <3>0, <4>1, <4>2 DEF AlignedBy
        <4>3. CASE r.kind # "delete" /\ (\E q \in Procs : op[q].kind = "delete" /\ op[q].s = r.s)
          <5>1. PICK q \in Procs : op[q].kind = "delete" /\ op[q].s = r.s
            BY <4>3
          <5>2. AlignedBy(q)
            BY <2>a
          <5> QED
            BY <4>1, <5>1, <5>2 DEF AlignedBy
        <4>4. CASE r.kind # "delete" /\ ~(\E q \in Procs : op[q].kind = "delete" /\ op[q].s = r.s)
          <5>1. ASSUME NEW q \in Procs, op[q].kind = "create" PROVE op[q].s # r.s
            <6>1. AlignedBy(q)
              BY <2>a
            <6> QED
              BY <4>1, <5>1, <6>1 DEF AlignedBy
          <5>2. ~Pending(r.s)
            BY <4>1, <4>4, <5>1 DEF Pending
          <5>3. ASSUME NEW q \in Procs, op[q].kind = "clear" PROVE FALSE
            <6>1. AlignedBy(q)
              BY <2>a
            <6>2. op[q].alone
              BY <5>3, <6>1 DEF AlignedBy
            <6>3. op[q].at # "idle"
              BY <1>d, <1>i, <5>3 DEF Kinds
            <6>4. q = p
              BY <1>a, <6>2, <6>3
            <6>5. r.kind = "clear" => r.s = None
              BY <1>0, <1>t, <2>f DEF Fits
            <6> QED
              BY <1>i, <4>1, <5>3, <6>4, <6>5
          <5>4. ~Clearing
            BY <5>3 DEF Clearing
          <5> QED
            BY <4>1, <5>2, <5>4 DEF AlignedOK
        <4> QED
          BY <4>2, <4>3, <4>4
      <3>3. ~n.served => ~r.served /\ Same(server', server)
        <4>1. ~n.served => ~r.served /\ Sessions(server') = Sessions(server)
          BY <1>n
        <4> QED
          BY <4>1 DEF Sessions, Same
      <3>4. /\ n.snapshot # None /\ n.alone /\ ~n.served => Same(n.snapshot, server')
            /\ n.kind = "clear" /\ ~n.served => Same(mirror, server')
        <4>1. /\ r.snapshot # None /\ r.alone /\ ~r.served => Same(r.snapshot, server)
              /\ r.kind = "clear" /\ ~r.served => Same(mirror, server)
          BY <3>0 DEF AlignedBy
        <4> QED
          BY <1>n, <3>3, <4>1 DEF Same
      <3>5. n.goal = "post" \/ n.goal = "read" => Same(n.data, server')
        <4>1. r.goal = "post" => Same(r.data, server)
          BY <3>0 DEF AlignedBy
        <4>2. n.goal = "post" => Same(n.data, server')
          BY <1>n, <2>s, <4>1 DEF Same
        <4>3. n.goal = "read" => Same(n.data, server')
          BY <1>l, <1>n DEF Same
        <4> QED
          BY <4>2, <4>3
      <3>6. /\ n.kind = "create" /\ n.answer = "ok" => server'[n.s] # None
            /\ n.kind = "delete" /\ n.answer = "ok" => server'[n.s] = None
            /\ n.kind = "clear" /\ n.answer = "ok" => \A s \in SessionIds : server'[s] = None
        BY <1>n, <1>v DEF Says
      <3>7. /\ n.kind \in Readers \cup {"clear"} => n.alone
            /\ n.goal \notin {"recreate", "again"}
            /\ n.goal = "write" => cache = None
            /\ n.kind = "create" =>
                  /\ n.s \notin known
                  /\ fate[n.s] # "fresh"
                  /\ \A q \in Procs : q # p => op'[q].s # n.s
                  /\ mirror[n.s] # None
            /\ n.kind = "delete" => mirror[n.s] = None
        BY <1>n, <3>0, <3>1 DEF AlignedBy
      <3> QED
        BY <1>0, <3>2, <3>4, <3>5, <3>6, <3>7 DEF AlignedBy, n
    <2>5. ASSUME NEW q \in Procs, q # p PROVE AlignedBy(q)'
      <3>0. AlignedBy(q) /\ AlignedBy(p)
        BY <2>a
      <3>1. CASE op[q].at = "idle"
        <4>1. op'[q] = Idle
          BY <1>d, <1>q, <2>5, <3>1
        <4> QED
          BY <1>i, <4>1 DEF AlignedBy, Readers, Kinds, Goals, Answers
      <3>2. CASE op[q].at # "idle"
        <4> DEFINE x == op[q]
        <4>1. ~x.alone /\ ~r.alone
          BY <1>a, <2>5, <3>2
        <4>2. /\ x.kind \notin Readers \cup {"clear"} /\ x.goal \notin {"read", "post"}
              /\ r.kind \notin Readers \cup {"clear"} /\ r.goal = "write"
          BY <1>t, <2>f, <3>0, <3>2, <4>1, FitsFacts DEF AlignedBy
        <4>3. /\ x.kind \in {"create", "delete"} => x.s \in SessionIds
              /\ x.answer = "missing" => x.s \in SessionIds
          BY <1>t, FitsFacts DEF Fits, Operations
        <4>4. x.kind = "create" => r.s # x.s
          BY <2>5, <3>0 DEF AlignedBy
        <4>5. r.kind = "create" => r.s # x.s
          BY <2>5, <3>0 DEF AlignedBy
        <4>6. /\ x.kind = "create" /\ x.answer = "ok" => server'[x.s] # None
              /\ x.kind = "delete" /\ x.answer = "ok" => server'[x.s] = None
              /\ x.answer = "missing" => server'[x.s] = None
          <5>1. /\ x.kind = "create" /\ x.answer = "ok" => server[x.s] # None
                /\ x.kind = "delete" /\ x.answer = "ok" => server[x.s] = None
                /\ x.answer = "missing" => server[x.s] = None
            BY <3>0 DEF AlignedBy
          <5> QED
            BY <1>v, <4>2, <4>3, <4>4, <4>5, <5>1 DEF Serving
        <4>7. \A k \in Procs : op'[k].s = op[k].s
          BY <1>n, <1>q DEF n
        <4>8. LET y == op'[q] IN
              /\ y.kind = x.kind /\ y.goal = x.goal /\ y.s = x.s /\ y.answer = x.answer
              /\ y.alone = x.alone
          BY <1>q, <2>5
        <4> QED
          BY <1>0, <3>0, <4>1, <4>2, <4>6, <4>7, <4>8 DEF AlignedBy
      <3> QED
        BY <3>1, <3>2
    <2> QED
      BY <2>1, <2>3, <2>4, <2>5 DEF AlignedOK, Same
  <1> QED
    BY <1>2, <1>3, <1>4, <1>5, <1>6, <1>7, <1>8

\* A session vanishes.
LEMMA VanishInv ==
    ASSUME IInv, NEW v \in SessionIds, Vanish(v)
    PROVE  IInv'
  <1> USE DEF IInv
  <1>i. /\ Idle.at = "idle" /\ Idle.goal = None /\ Idle.kind = None /\ Idle.s = None
        /\ Idle.snapshot = None /\ Idle.answer = None
    BY IdleFacts
  <1>0. /\ server' = [server EXCEPT ![v] = None]
        /\ acked' = {m \in acked : Owner[m] # v}
        /\ op' = [q \in Procs |-> Noticed(op[q], {v})]
        /\ fate' = [fate EXCEPT ![v] = "open"]
        /\ excused' = TRUE
        /\ UNCHANGED <<mirror, cache, avail, left, known>>
    BY DEF Vanish, Without, Forget
  <1>t. /\ server \in Histories /\ fate \in [SessionIds -> Types]
        /\ \A q \in Procs : op[q] \in Operations /\ Fits(op[q])
    BY DEF TypeOK, Types
  <1>s. \A s \in SessionIds : server'[s] = IF s = v THEN None ELSE server[s]
    BY <1>0, <1>t DEF Histories
  <1>f. \A s \in SessionIds : fate'[s] = IF s = v THEN "open" ELSE fate[s]
    BY <1>0, <1>t
  <1>q. ASSUME NEW q \in Procs
        PROVE  LET x == op'[q] IN
               /\ x \in Operations /\ Fits(x)
               /\ x.at = op[q].at /\ x.kind = op[q].kind /\ x.goal = op[q].goal
               /\ x.s = op[q].s /\ x.m = op[q].m /\ x.answer = op[q].answer
               /\ x.snapshot = op[q].snapshot /\ x.data = op[q].data
               /\ x.served = op[q].served /\ x.alone = op[q].alone
               /\ ~x.outdated =>
                     /\ ~op[q].outdated
                     /\ ~(op[q].answer = "ok" /\ op[q].goal = "read")
                     /\ op[q].answer = "ok" /\ op[q].kind \in {"create", "add"} => op[q].s # v
    <2>1. op'[q] = Noticed(op[q], {v})
      BY <1>0
    <2> QED
      BY <1>t, <2>1, NoticedFacts
  <1>1. TypeOK'
    <2>1. \A q \in Procs : op'[q] \in Operations /\ Fits(op'[q])
      BY <1>q
    <2>2. op' \in [Procs -> Operations]
      BY <1>0, <2>1
    <2>3. server' \in Histories /\ fate' \in [SessionIds -> Types]
      BY <1>0, <1>t DEF Histories, Types
    <2>4. acked' \subseteq Messages
      BY <1>0 DEF TypeOK
    <2> QED
      BY <1>0, <2>1, <2>2, <2>3, <2>4 DEF TypeOK, Types
  <1>2. AloneOK'
    BY <1>q, StillAlone DEF Active
  <1>3. LoneOK'
    <2> SUFFICES ASSUME NEW q \in Procs, op'[q].alone
                 PROVE  LET x == op'[q] IN
                        /\ x.kind \in {"create", "delete", "clear"} => cache' = None
                        /\ x.kind = "create" =>
                              /\ mirror'[x.s] # None
                              /\ x.answer = "ok" /\ ~x.outdated => server'[x.s] # None
                        /\ x.kind = "delete" =>
                              /\ mirror'[x.s] = None
                              /\ x.answer \in {"ok", "missing"} => server'[x.s] = None
                        /\ x.kind = "clear" /\ x.answer = "ok" =>
                              \A s \in SessionIds : server'[s] = None
                        /\ ~(x.goal = "read" /\ x.answer = "ok" /\ ~x.outdated)
      BY DEF LoneOK
    <2> DEFINE r == op[q]
    <2>1. /\ r.kind \in {"create", "delete", "clear"} => cache = None
          /\ r.kind = "create" =>
                /\ mirror[r.s] # None
                /\ r.answer = "ok" /\ ~r.outdated => server[r.s] # None
          /\ r.kind = "delete" =>
                /\ mirror[r.s] = None
                /\ r.answer \in {"ok", "missing"} => server[r.s] = None
          /\ r.kind = "clear" /\ r.answer = "ok" => \A s \in SessionIds : server[s] = None
      BY <1>q DEF LoneOK
    <2>2. r.kind \in {"create", "delete"} => r.s \in SessionIds
      BY <1>t, FitsFacts
    <2> DEFINE x == op'[q]
    <2>3. /\ x.kind = r.kind /\ x.goal = r.goal /\ x.s = r.s /\ x.answer = r.answer
          /\ ~x.outdated =>
                /\ ~r.outdated
                /\ ~(r.answer = "ok" /\ r.goal = "read")
                /\ r.answer = "ok" /\ r.kind \in {"create", "add"} => r.s # v
      BY <1>q
    <2> HIDE DEF x, r
    <2>4. r.kind = "create" =>
             /\ mirror'[x.s] # None
             /\ x.answer = "ok" /\ ~x.outdated => server'[x.s] # None
      BY <1>0, <1>s, <2>1, <2>2, <2>3
    <2>5. r.kind = "delete" =>
             /\ mirror'[x.s] = None
             /\ x.answer \in {"ok", "missing"} => server'[x.s] = None
      BY <1>0, <1>s, <2>1, <2>2, <2>3
    <2>6. r.kind = "clear" /\ x.answer = "ok" => \A s \in SessionIds : server'[s] = None
      BY <1>s, <2>1, <2>3
    <2>7. /\ x.kind \in {"create", "delete", "clear"} => cache' = None
          /\ ~(x.goal = "read" /\ x.answer = "ok" /\ ~x.outdated)
      BY <1>0, <2>1, <2>3
    <2> QED
      BY <2>3, <2>4, <2>5, <2>6, <2>7 DEF x
  <1>4. KeptOK'
    <2> SUFFICES ASSUME NEW s \in SessionIds, fate'[s] \in {"there", "kept"}
                 PROVE  /\ mirror[s] # None
                        /\ cache # None => cache[s] # None
                        /\ fate'[s] = "there" => server'[s] # None
                        /\ \A q \in Procs : Keeps(op[q], s)'
      BY <1>0 DEF KeptOK
    <2>1. s # v /\ fate'[s] = fate[s] /\ server'[s] = server[s]
      BY <1>f, <1>s
    <2>2. /\ mirror[s] # None /\ (cache # None => cache[s] # None)
          /\ fate[s] = "there" => server[s] # None
          /\ \A q \in Procs : Keeps(op[q], s)
      BY <2>1 DEF KeptOK
    <2>3. ASSUME NEW q \in Procs PROVE Keeps(op[q], s)'
      <3>1. Keeps(op[q], s)
        BY <2>2
      <3> QED
        BY <1>q, <2>1, <3>1 DEF Keeps
    <2> QED
      BY <2>1, <2>2, <2>3
  <1>5. LackedOK'
    <2> SUFFICES ASSUME NEW s \in SessionIds, fate'[s] \in {"fresh", "gone", "hidden"}
                 PROVE  /\ mirror[s] = None
                        /\ cache # None => cache[s] = None
                        /\ fate'[s] # "hidden" => server'[s] = None
                        /\ fate'[s] = "fresh" => s \notin known
                        /\ \A q \in Procs : Lacks(op[q], s)'
      BY <1>0 DEF LackedOK
    <2>1. s # v /\ fate'[s] = fate[s] /\ server'[s] = server[s]
      BY <1>f, <1>s
    <2>2. /\ mirror[s] = None /\ (cache # None => cache[s] = None)
          /\ fate[s] # "hidden" => server[s] = None
          /\ fate[s] = "fresh" => s \notin known
          /\ \A q \in Procs : Lacks(op[q], s)
      BY <2>1 DEF LackedOK
    <2>3. ASSUME NEW q \in Procs PROVE Lacks(op[q], s)'
      <3>1. Lacks(op[q], s)
        BY <2>2
      <3> QED
        BY <1>q, <2>1, <3>1 DEF Lacks
    <2> QED
      BY <2>1, <2>2, <2>3
  <1>6. AckedOK'
    <2>1. \A m \in Messages : Owner[m] \in SessionIds
      BY BrowserAssumption
    <2>2. \A m \in acked' : Stored(m)'
      <3>1. \A m \in acked' : m \in Messages /\ Owner[m] # v /\ Stored(m)
        BY <1>0 DEF TypeOK, AckedOK
      <3> QED
        BY <1>s, <2>1, <3>1 DEF Stored
    <2>3. ASSUME NEW q \in Procs, op'[q].kind = "add", op'[q].goal \in {"write", "again"},
                 op'[q].answer = "ok", ~op'[q].outdated
          PROVE  Stored(op[q].m)'
      <3>1. /\ op[q].kind = "add" /\ op[q].goal \in {"write", "again"}
            /\ op[q].answer = "ok" /\ ~op[q].outdated /\ op[q].s # v
            /\ op'[q].m = op[q].m
        BY <1>q, <2>3
      <3>2. Stored(op[q].m)
        BY <3>1 DEF AckedOK
      <3>3. op[q].m \in Messages /\ op[q].s = Owner[op[q].m]
        BY <1>t, <3>1, FitsFacts
      <3> QED
        BY <1>s, <2>1, <3>1, <3>2, <3>3 DEF Stored
    <2> QED
      BY <2>2, <2>3 DEF AckedOK
  <1>7. AlignedOK'
    BY <1>0 DEF AlignedOK
  <1> QED
    BY <1>1, <1>2, <1>3, <1>4, <1>5, <1>6, <1>7

-----------------------------------------------------------------------------
(***************************************************************************)
(* The theorems                                                            *)
(***************************************************************************)

LEMMA ProceedInv ==
    ASSUME IInv, NEW p \in Procs, Proceed(p) PROVE IInv'
  <1>1. CASE \/ CheckSucceeds(p) \/ CheckThrows(p) \/ CallFails(p) \/ Retry(p)
             \/ ReadThrows(p) \/ OpenSucceeds(p) \/ RecoverThrows(p) \/ AgainThrows(p)
    BY <1>1, GoingOnInv
  <1>2. CASE ReadSucceeds(p) \/ ReadFails(p) \/ ReadWithoutServer(p) \/ PostSucceeds(p)
    BY <1>2, ReadingInv
  <1>3. CASE OpenMissing(p) \/ SessionMissing(p) \/ RecoverFails(p)
    <2>1. op[p].at = "answer"
      BY <1>3 DEF OpenMissing, SessionMissing, RecoverFails, Fails, Answered
    <2> QED
      BY <1>3, <2>1, MissingInv
  <1>4. CASE Serve(p)
    BY <1>4, ServeInv
  <1>5. CASE WriteWithoutServer(p) \/ WriteSucceeds(p) \/ WriteRejected(p)
    BY <1>5, WriteWithoutServerInv, WriteSucceedsInv, WriteRejectedInv
  <1>6. CASE Recover(p) \/ Recovered(p) \/ AgainSucceeds(p)
    BY <1>6, RecoverInv, RecoveredInv, AgainSucceedsInv
  <1> QED
    BY <1>1, <1>2, <1>3, <1>4, <1>5, <1>6 DEF Proceed

LEMMA NextInv == IInv /\ [Next]_vars => IInv'
  <1> SUFFICES ASSUME IInv, [Next]_vars PROVE IInv'
    OBVIOUS
  <1>1. CASE \E p \in Procs : Request(p)
    BY <1>1, RequestInv
  <1>2. CASE \E p \in Procs : Proceed(p)
    BY <1>2, ProceedInv
  <1>3. CASE \E s \in SessionIds : Vanish(s)
    BY <1>3, VanishInv
  <1>4. CASE CacheExpires \/ UNCHANGED vars
    BY <1>4, CacheExpiresInv
  <1> QED
    BY <1>1, <1>2, <1>3, <1>4 DEF Next

LEMMA SpecInv == Spec => []IInv
  BY InitInv, NextInv, PTL DEF Spec

\* Every variable has its type, and what an operation of the tab carries along,
\* through every await of ChatStorageService, fits what it is doing.
THEOREM TypeCorrect == Spec => []TypeOK
  <1>1. IInv => TypeOK
    BY DEF IInv
  <1> QED
    BY <1>1, SpecInv, PTL

\* A creation or a deletion of a session that had the tab to itself is final: no
\* rollback, late answer, cached history or migration brings a deleted session
\* back or loses a created one, in the mirror, the cache or on the server.
THEOREM CreationsAndDeletionsAreFinal == Spec => []Settled
  <1>1. IInv => Settled
    BY DEF IInv, KeptOK, LackedOK, Settled
  <1> QED
    BY <1>1, SpecInv, PTL

\* A message addMessage has had acknowledged is on the server until its session
\* is removed, however often the request was retried or the session recreated.
THEOREM AcknowledgedMessagesAreStored == Spec => []AcknowledgedIsStored
  <1>1. IInv => AcknowledgedIsStored
    <2> SUFFICES ASSUME IInv, NEW m \in acked
                 PROVE  \E s \in Sessions(server) : m \in server[s]
      BY DEF AcknowledgedIsStored
    <2>1. m \in Messages /\ Stored(m)
      BY DEF IInv, TypeOK, AckedOK
    <2>2. Owner[m] \in Sessions(server)
      BY <2>1, BrowserAssumption DEF Stored, Sessions
    <2> QED
      BY <2>1, <2>2 DEF Stored
  <1> QED
    BY <1>1, SpecInv, PTL

\* With the tab at rest and no reason recorded for them to differ, localStorage
\* and the cache of getUserHistory list the sessions the server has.
THEOREM MirrorFollows == Spec => []MirrorFollowsServer
  <1>1. IInv => MirrorFollowsServer
    <2> SUFFICES ASSUME IInv, \A p \in Procs : op[p].at = "idle", ~excused
                 PROVE  /\ Sessions(mirror) = Sessions(server)
                        /\ cache # None => Sessions(cache) = Sessions(server)
      BY DEF MirrorFollowsServer
    <2>1. \A p \in Procs : op[p].kind = None
      BY FitsFacts DEF IInv, TypeOK
    <2>2. ~Clearing /\ \A s \in SessionIds : ~Pending(s)
      BY <2>1, IdleFacts DEF Clearing, Pending, Kinds
    <2>3. Same(mirror, server) /\ (cache # None => Same(cache, server))
      BY <2>2 DEF IInv, AlignedOK, Same
    <2> QED
      BY <2>3 DEF Same, Sessions
  <1> QED
    BY <1>1, SpecInv, PTL
=============================================================================
