------------------------- MODULE Conversation_proofs -------------------------
(***************************************************************************)
(* Proofs about Conversation for any number of requests, messages and      *)
(* summaries, any page size and any budget of a compaction: its types,     *)
(* with messages unique in the log; what the cache and the storage hold    *)
(* while requests overlap; and what summaries stand for.                   *)
(*                                                                         *)
(* A request that has read the log acts later on what it has read.  The    *)
(* invariant says what of it still holds by then: all of it if no change   *)
(* was missed (Current), and of a compaction or a write back what no other *)
(* request can undo (Compacts, SnapshotsOK).  Every step but one leaves a  *)
(* log that is a grown version of the last one, or holds messages of the   *)
(* browser only, or is what a rename has read; the one is SaveSummary.     *)
(***************************************************************************)
EXTENDS Conversation, Messages_proofs

\* Two versions of a message: counted or pinned in the meantime.
Like(m, n) ==
    /\ m.id = n.id
    /\ m.ts = n.ts
    /\ m.summary = n.summary
    /\ m.covers = n.covers
    /\ m.knew = n.knew

\* new has versions of the messages of old, and messages of the browser that
\* are not among these.
Grown(old, new) ==
    /\ \A m \in ToSet(new) : \/ \E n \in ToSet(old) : Like(m, n)
                             \/ ~m.summary /\ m.id \notin Ids(old)
    /\ \A n \in ToSet(old) : \E m \in ToSet(new) : Like(m, n)

\* No message has two summaries of which one knew of the other.
Apart(s) ==
    \A m, n \in ToSet(s) :
        m.id # n.id /\ m.covers \cap n.covers # {} => m.id \notin n.knew

\* What its summaries knew of is in s.
KnowsOwn(s) == \A m \in ToSet(s) : m.knew \subseteq Ids(s)

\* The same message covers the same in s and in t.
Agree(s, t) ==
    \A m \in ToSet(s), n \in ToSet(t) :
        m.id = n.id => m.covers = n.covers /\ m.knew = n.knew

\* The log, and what requests are about to write back in its place.
SnapshotsOK ==
    /\ Apart(log) /\ KnowsOwn(log)
    /\ \A p \in Procs : req[p].at = "rename" =>
          Apart(req[p].msgs) /\ KnowsOwn(req[p].msgs) /\ Agree(req[p].msgs, log)
    /\ \A p, q \in Procs : req[p].at = "rename" /\ req[q].at = "rename" =>
          Agree(req[p].msgs, req[q].msgs)

\* What a browser sends are no summaries.
Writes(r) ==
    /\ r.at \in {"create", "update", "save"} => \A m \in ToSet(r.msgs) : ~m.summary
    /\ r.at = "save" => r.msgs # <<>>
    /\ r.at = "create" => r.kind \in {"create", "history"}
    /\ r.at = "update" => r.kind \in {"put", "history"}

WritesOK == \A p \in Procs : Writes(req[p])

\* What a request has read is what there is, unless it has missed a change.
Current(b, ex, lg, r) ==
    "change" \notin r.missed =>
        /\ r.at = "cache" => ex /\ r.msgs = FromStorage(b, lg, None, r.limit).messages
        /\ r.at = "rename" => /\ r.msgs = FilterCompacted(lg)
                              /\ r.covered = BuildSummarizedIDSet(lg)

CurrentOK == \A p \in Procs : Current(backend, exists, log, req[p])

\* What the summaries that a compaction knows of cover is left out of its
\* batch, and on the database what it has chosen stays, unless the session was
\* deleted.
Compacts(b, lg, r) ==
    /\ r.at \in {"choose", "summarize"} /\ "removal" \notin r.missed =>
          /\ r.known \subseteq Ids(lg)
          /\ \A m \in ToSet(lg) : m.id \in r.known => m.covers \subseteq r.covered
    /\ r.at = "summarize" =>
          /\ Len(r.msgs) >= 2
          /\ \A m \in ToSet(r.msgs) : ~m.summary /\ m.id \notin r.covered
          /\ b = "db" /\ "removal" \notin r.missed =>
                \A m \in ToSet(r.msgs) : \E n \in ToSet(lg) : n.id = m.id /\ n.ts = m.ts
    /\ r.at \in {"compact", "choose", "summarize"} => r.passes > 0

CompactsOK == \A p \in Procs : Compacts(backend, log, req[p])

IInv ==
    /\ TypeOK /\ SnapshotsOK /\ WritesOK /\ CurrentOK /\ CompactsOK
    /\ StaleIsExplained /\ SavedIsKept /\ SummariesStandForMessages

-----------------------------------------------------------------------------
(***************************************************************************)
(* Pages                                                                   *)
(***************************************************************************)

\* The first page is the beginning of the messages, newest first: as the
\* storage returns it ...
LEMMA FirstPageOfStorage ==
    ASSUME NEW b, NEW lg, NEW limit \in Nat
    PROVE  GetSessionMessages(b, lg, None, limit) =
               Take(Sorted(b, "newest", lg), IF limit > Cap THEN Cap ELSE limit)
  BY DEF GetSessionMessages, Behind

\* ... and as the handler answers with it, which asks for one message more.
LEMMA FirstPageOfHandler ==
    ASSUME NEW S, \A m \in S : m.ts \in Int, NEW lg \in Seq(S), NEW b, NEW limit \in Nat
    PROVE  /\ FromStorage(b, lg, None, limit).messages =
                 Take(Sorted(b, "newest", lg), IF limit > Cap THEN Cap ELSE limit)
           /\ FromStorage(b, lg, None, limit).hasMore <=> limit < Cap /\ limit < Len(lg)
  <1> DEFINE all == Sorted(b, "newest", lg)
             m == IF limit + 1 > Cap THEN Cap ELSE limit + 1
             c == IF limit > Cap THEN Cap ELSE limit
             page == Take(all, m)
  <1>1. Cap \in Nat /\ m \in Nat /\ c \in Nat /\ limit + 1 \in Nat
    BY CapAssumption
  <1>2. all \in Seq(S) /\ Len(all) = Len(lg)
    BY SortedFacts
  <1>3. GetSessionMessages(b, lg, None, limit + 1) = page
    BY <1>1, FirstPageOfStorage
  <1>4. FromStorage(b, lg, None, limit) =
           [messages |-> Take(page, limit), hasMore |-> Len(page) > limit]
    BY <1>3 DEF FromStorage, Answer
  <1> HIDE DEF all
  <1>5. Len(page) = IF m < Len(all) THEN m ELSE Len(all)
    BY <1>1, <1>2, TakeFacts
  <1>6. Take(page, limit) = Take(all, IF limit < m THEN limit ELSE m)
    BY <1>1, <1>2, TakeTake
  <1>7. (IF limit < m THEN limit ELSE m) = c
    BY <1>1
  <1> HIDE DEF page
  <1>8. Len(lg) \in Nat
    OBVIOUS
  <1>9. Len(page) > limit <=> limit < Cap /\ limit < Len(lg)
    BY <1>1, <1>2, <1>5, <1>8
  <1> DEFINE answer == FromStorage(b, lg, None, limit)
  <1>10. answer.messages = Take(page, limit)
    BY <1>4
  <1>11. answer.hasMore = (Len(page) > limit)
    BY <1>4
  <1> HIDE DEF answer, c
  <1>12. answer.messages = Take(all, c)
    BY <1>6, <1>7, <1>10
  <1>13. answer.hasMore <=> limit < Cap /\ limit < Len(lg)
    BY <1>9, <1>11
  <1> QED
    BY <1>12, <1>13 DEF answer, all, c

\* A page that holds the first messages answers like the storage, or there are
\* more messages than it holds and it is asked for all it has.
LEMMA PageAnswersLikeStorage ==
    ASSUME NEW S, \A m \in S : m.ts \in Int, NEW lg \in Seq(S), NEW b,
           NEW read \in Nat, NEW limit \in 1..Cap
    PROVE  LET page == FromStorage(b, lg, None, read).messages
           IN \/ Answer(page, limit) = FromStorage(b, lg, None, limit)
              \/ limit >= Len(page) /\ Len(lg) > Len(page)
  <1> DEFINE all == Sorted(b, "newest", lg)
             c == IF read > Cap THEN Cap ELSE read
             page == Take(all, c)
  <1>1. Cap \in Nat /\ c \in Nat /\ c <= Cap /\ limit \in Nat /\ Len(lg) \in Nat /\ limit <= Cap
    BY CapAssumption
  <1>2. all \in Seq(S) /\ Len(all) = Len(lg)
    BY SortedFacts
  <1>3. FromStorage(b, lg, None, read).messages = page
    BY FirstPageOfHandler
  <1>4. /\ FromStorage(b, lg, None, limit).messages =
              Take(all, IF limit > Cap THEN Cap ELSE limit)
        /\ FromStorage(b, lg, None, limit).hasMore <=> limit < Cap /\ limit < Len(lg)
    BY <1>1, FirstPageOfHandler
  <1> HIDE DEF all, c
  <1>5. FromStorage(b, lg, None, limit) = [messages |-> Take(all, limit),
                                           hasMore |-> limit < Cap /\ limit < Len(lg)]
    <2>1. \A x, y, z : [messages |-> x, hasMore |-> y].messages = x
      OBVIOUS
    <2>2. (IF limit > Cap THEN Cap ELSE limit) = limit
      BY <1>1
    <2> DEFINE got == GetSessionMessages(b, lg, None, limit + 1)
    <2>3. FromStorage(b, lg, None, limit) =
             [messages |-> Take(got, limit), hasMore |-> Len(got) > limit]
      BY DEF FromStorage, Answer
    <2>4. Take(got, limit) = Take(all, limit)
      BY <1>4, <2>2, <2>3
    <2> HIDE DEF got
    <2>5. FromStorage(b, lg, None, limit).hasMore = (Len(got) > limit)
      BY <2>3
    <2>6. (Len(got) > limit) <=> limit < Cap /\ limit < Len(lg)
      BY <1>4, <2>5
    <2>7. (Len(got) > limit) = (limit < Cap /\ limit < Len(lg))
      BY <2>6
    <2> QED
      BY <2>3, <2>4, <2>7
  <1>6. Len(page) = IF c < Len(lg) THEN c ELSE Len(lg)
    BY <1>1, <1>2, TakeFacts
  <1>7. Answer(page, limit) = [messages |-> Take(page, limit), hasMore |-> Len(page) > limit]
    BY DEF Answer
  <1>8. Take(page, limit) = Take(all, IF limit < c THEN limit ELSE c)
    BY <1>1, <1>2, TakeTake
  <1>9. CASE limit < Len(page)
    <2>1. limit < c /\ limit < Len(lg) /\ limit < Cap
      BY <1>1, <1>6, <1>9
    <2>2. Take(page, limit) = Take(all, limit)
      BY <1>8, <2>1
    <2>3. (Len(page) > limit) = (limit < Cap /\ limit < Len(lg))
      BY <1>1, <1>6, <1>9, <2>1
    <2> HIDE DEF page
    <2>4. Answer(page, limit) = FromStorage(b, lg, None, limit)
      BY <1>5, <1>7, <2>2, <2>3
    <2> QED
      BY <1>3, <2>4
  <1>10. CASE limit >= Len(page) /\ Len(page) = Len(lg)
    <2>1. c >= Len(all) /\ limit >= Len(all) /\ (IF limit < c THEN limit ELSE c) \in Nat
          /\ (IF limit < c THEN limit ELSE c) >= Len(all)
      BY <1>1, <1>2, <1>6, <1>10
    <2>2. Take(page, limit) = all /\ Take(all, limit) = all
      BY <1>1, <1>2, <1>8, <2>1, TakeAll
    <2>3. (Len(page) > limit) = (limit < Cap /\ limit < Len(lg))
      BY <1>1, <1>6, <1>10
    <2> HIDE DEF page
    <2>4. Answer(page, limit) = FromStorage(b, lg, None, limit)
      BY <1>5, <1>7, <2>2, <2>3
    <2> QED
      BY <1>3, <2>4
  <1>11. CASE limit >= Len(page) /\ Len(page) # Len(lg)
    <2>1. Len(lg) > Len(page)
      BY <1>1, <1>6, <1>11
    <2> HIDE DEF page
    <2> QED
      BY <1>3, <1>11, <2>1
  <1>12. Len(page) \in Nat
    BY <1>1, <1>6
  <1> HIDE DEF page
  <1> QED
    BY <1>1, <1>9, <1>10, <1>11, <1>12

-----------------------------------------------------------------------------
(***************************************************************************)
(* Pages one after the other                                               *)
(***************************************************************************)

\* All messages between two positions have the timestamp of the first.
SameTime(b, newest, j, p) == \A i \in (j + 1)..p : b = "db" /\ newest[i].ts = newest[j].ts

\* Behind a message are those that follow it, newest first, but on the database
\* not those with its timestamp.
LEMMA BehindIs ==
    ASSUME NEW S, \A m \in S : m.ts \in Int /\ m.id # None, NEW lg \in Seq(S), Unique(lg),
           NEW b \in {"db", "memory"}, NEW j \in 1..Len(lg)
    PROVE  LET newest == Sorted(b, "newest", lg)
           IN \E p \in j..Len(lg) :
                 /\ SameTime(b, newest, j, p)
                 /\ Behind(b, lg, newest[j].id) = SubSeq(newest, p + 1, Len(lg))
  <1> DEFINE newest == Sorted(b, "newest", lg)
             N == Len(lg)
             id == newest[j].id
             at == {i \in DOMAIN newest : newest[i].id = id}
             below == {i \in DOMAIN newest : at # {} /\ newest[i].ts < Message(lg, id).ts}
  <1>1. newest \in Seq(S) /\ Len(newest) = N /\ Picks(newest, lg)
    BY SortedFacts
  <1>2. Unique(newest)
    BY <1>1, PicksUnique
  <1>3. Ordered("newest", newest)
    BY SortedOrders
  <1>4. Behind(b, lg, id) =
           CASE id = None -> newest
             [] id # None /\ b = "db" -> Only(newest, below)
             [] id # None /\ b = "memory" ->
                   SubSeq(newest, IF at = {} THEN 1 ELSE Max(at) + 1, Len(newest))
    BY DEF Behind
  <1> HIDE DEF newest
  <1>5. N \in Nat /\ DOMAIN newest = 1..N /\ j \in DOMAIN newest /\ j \in Nat /\ j <= N
    BY <1>1
  <1>6. \A i \in DOMAIN newest : newest[i] \in S /\ newest[i].ts \in Int
    BY <1>1
  <1>7. id # None
    BY <1>5, <1>6
  <1>8. at = {j}
    BY <1>2, <1>5 DEF Unique, IsInjective
  <1>9. CASE b = "memory"
    <2>1. Behind(b, lg, id) = SubSeq(newest, IF at = {} THEN 1 ELSE Max(at) + 1, Len(newest))
      BY <1>4, <1>7, <1>9
    <2>2. Max(at) = j
      BY <1>5, <1>8 DEF Max
    <2>3. at # {}
      BY <1>8
    <2>4. Behind(b, lg, id) = SubSeq(newest, j + 1, N)
      BY <1>1, <2>1, <2>2, <2>3
    <2>5. j \in j..N /\ \A i \in (j + 1)..j : FALSE
      BY <1>5
    <2> HIDE DEF at, below, id
    <2>6. SameTime(b, newest, j, j)
      BY <2>5 DEF SameTime
    <2> QED
      BY <2>4, <2>5, <2>6 DEF id, newest
  <1>10. CASE b = "db"
    <2>1. Behind(b, lg, id) = Only(newest, below)
      BY <1>4, <1>7, <1>10
    <2>2. Message(lg, id).ts = newest[j].ts
      <3>1. PICK f \in [DOMAIN newest -> DOMAIN lg] : \A a \in DOMAIN newest : newest[a] = lg[f[a]]
        BY <1>1 DEF Picks
      <3> DEFINE k == CHOOSE i \in DOMAIN lg : lg[i].id = id
      <3>2. f[j] \in DOMAIN lg /\ lg[f[j]] = newest[j]
        BY <1>5, <3>1
      <3>3. k \in DOMAIN lg /\ lg[k].id = id
        BY <3>2
      <3> HIDE DEF k
      <3>4. k = f[j]
        BY <3>2, <3>3 DEF Unique, IsInjective
      <3>5. Message(lg, id) = lg[k]
        BY DEF Message, k
      <3> QED
        BY <3>2, <3>4, <3>5
    <2> DEFINE ts == newest[j].ts
               Back == {i \in 1..N : newest[i].ts >= ts}
    <2>3. ts \in Int
      BY <1>5, <1>6
    <2>4. below = {i \in 1..N : newest[i].ts < ts}
      BY <1>5, <1>8, <2>2
    <2>5. j \in Back /\ Back \in SUBSET Nat /\ \A i \in Back : i <= N
      BY <1>5, <2>3
    <2>6. PICK p \in Back : \A i \in Back : i <= p
      <3> HIDE DEF Back
      <3>1. Back # {}
        BY <2>5
      <3>2. Back \in SUBSET (0..N)
        BY <1>5, <2>5
      <3> DEFINE p == Max(Back)
      <3>3. p \in Back /\ \A i \in Back : p >= i
        BY <1>5, <3>1, <3>2, GreatestExists
      <3>4. \A i \in Back : i \in Nat
        BY <2>5
      <3> HIDE DEF p
      <3>5. \A i \in Back : i <= p
        BY <3>3, <3>4
      <3> QED
        BY <3>3, <3>5
    <2>7. p \in j..N
      BY <1>5, <2>5, <2>6
    <2>8. \A i, k \in 1..N : i < k => newest[k].ts <= newest[i].ts
      <3>1. ASSUME NEW i \in 1..N, NEW k \in 1..N, i < k PROVE newest[k].ts <= newest[i].ts
        <4>1. ~Newer(newest[k], newest[i])
          BY <1>3, <1>5, <3>1 DEF Ordered, Before
        <4>2. newest[i].ts \in Int /\ newest[k].ts \in Int
          BY <1>5, <1>6, <3>1
        <4>3. ~(newest[k].ts > newest[i].ts)
          BY <4>1 DEF Newer
        <4> QED
          BY <4>2, <4>3
      <3> QED
        BY <3>1
    <2>9. below = (p + 1)..N
      <3>1. ASSUME NEW i \in 1..N PROVE newest[i].ts < ts <=> p + 1 <= i
        <4>1. i \in Int /\ newest[i].ts \in Int /\ newest[p].ts >= ts /\ p \in 1..N /\ newest[p].ts \in Int
          BY <1>5, <1>6, <2>6
        <4>2. CASE i <= p
          <5>1. newest[p].ts <= newest[i].ts
            <6>1. i < p \/ i = p
              BY <4>1, <4>2
            <6> QED
              BY <2>8, <4>1, <6>1
          <5> QED
            BY <2>3, <4>1, <4>2, <5>1
        <4>3. CASE i > p
          <5>1. i \notin Back
            BY <2>6, <4>1, <4>3
          <5> QED
            BY <2>3, <4>1, <4>3, <5>1
        <4> QED
          BY <4>1, <4>2, <4>3
      <3>2. \A i : i \in (p + 1)..N <=> i \in 1..N /\ p + 1 <= i
        BY <1>5, <2>7
      <3> HIDE DEF ts, below
      <3> QED
        BY <2>4, <3>1, <3>2
    <2>10. p \in 0..Len(newest)
      BY <1>1, <1>5, <2>7
    <2>11. Only(newest, (p + 1)..Len(newest)) = SubSeq(newest, p + 1, Len(newest))
      BY <1>1, <2>10, OnlyEnd
    <2>12. Behind(b, lg, id) = SubSeq(newest, p + 1, N)
      BY <1>1, <2>1, <2>9, <2>11
    <2>13. \A i \in (j + 1)..p : newest[i].ts = ts
      <3> TAKE i \in (j + 1)..p
      <3>1. i \in 1..N /\ i \in Int /\ j < i /\ (i < p \/ i = p) /\ p \in 1..N
        BY <1>5, <2>7
      <3>2. newest[i].ts <= ts
        BY <1>5, <2>8, <3>1
      <3>3. newest[p].ts <= newest[i].ts /\ newest[p].ts >= ts
        BY <1>6, <1>5, <2>6, <2>8, <3>1
      <3> QED
        BY <1>5, <1>6, <2>3, <3>1, <3>2, <3>3
    <2> HIDE DEF at, below, id, Back
    <2>14. SameTime(b, newest, j, p)
      BY <1>10, <2>13 DEF SameTime
    <2> HIDE DEF ts
    <2> QED
      BY <2>7, <2>12, <2>14 DEF id, newest
  <1> QED
    BY <1>9, <1>10

\* What the handler answers.
Page(S) == [messages : Seq(S), hasMore : BOOLEAN]

\* The page shows what is between two positions, and is the last one or ends
\* with the message at the second.
Shows(page, newest, p, q) ==
    /\ \A m \in ToSet(page.messages) : \E i \in (p + 1)..q : m = newest[i]
    /\ \A i \in (p + 1)..q : newest[i] \in ToSet(page.messages)
    /\ page.hasMore => p < q /\ Last(page.messages) = newest[q]
    /\ ~page.hasMore => q = Len(newest)

\* A page shows the messages behind the cursor up to some position, and is the
\* last one or ends with the message there.
LEMMA PageIs ==
    ASSUME NEW S, NEW newest \in Seq(S), Distinct(newest), NEW p \in 0..Len(newest),
           NEW b, NEW lg, NEW cursor,
           Behind(b, lg, cursor) = SubSeq(newest, p + 1, Len(newest)), NEW limit \in 1..(Cap - 1)
    PROVE  LET page == FromStorage(b, lg, cursor, limit)
           IN /\ page \in Page(S)
              /\ Distinct(page.messages)
              /\ \E q \in p..Len(newest) : Shows(page, newest, p, q)
  <1> DEFINE N == Len(newest)
             u == SubSeq(newest, p + 1, N)
             v == Take(u, limit + 1)
             w == Take(v, limit)
             page == FromStorage(b, lg, cursor, limit)
             q == p + Len(w)
  <1>1. /\ Cap \in Nat /\ limit \in Nat /\ limit + 1 \in Nat /\ limit + 1 <= Cap /\ limit >= 1
        /\ N \in Nat /\ p \in Nat /\ p <= N
    BY CapAssumption
  <1>2. page = [messages |-> w, hasMore |-> Len(v) > limit]
    <2>1. ~(limit + 1 > Cap)
      BY <1>1
    <2>2. GetSessionMessages(b, lg, cursor, limit + 1) = v
      BY <2>1 DEF GetSessionMessages
    <2> QED
      BY <2>2 DEF FromStorage, Answer
  <1>3. u \in Seq(S) /\ Len(u) = N - p /\ \A n \in 1..Len(u) : u[n] = newest[p + n]
    BY EndFacts
  <1> HIDE DEF u, N
  <1>4. Len(v) = IF limit + 1 < N - p THEN limit + 1 ELSE N - p
    BY <1>1, <1>3, TakeFacts
  <1>5. w = Take(u, limit)
    <2>1. w = Take(u, IF limit < limit + 1 THEN limit ELSE limit + 1)
      BY <1>1, <1>3, TakeTake
    <2>2. limit < limit + 1
      BY <1>1
    <2> QED
      BY <2>1, <2>2
  <1> HIDE DEF v, w
  <1>6. /\ w \in Seq(S) /\ Len(w) = IF limit < N - p THEN limit ELSE N - p
        /\ \A n \in 1..Len(w) : n \in 1..Len(u) /\ w[n] = u[n]
    BY <1>1, <1>3, <1>5, TakeFacts
  <1>7. /\ Len(w) \in Nat /\ p + Len(w) <= N /\ DOMAIN w = 1..Len(w)
        /\ \A n \in 1..Len(w) : w[n] = newest[p + n]
    <2>1. Len(w) \in Nat /\ p + Len(w) <= N
      BY <1>1, <1>6
    <2>2. DOMAIN w = 1..Len(w)
      BY <1>6
    <2>3. \A n \in 1..Len(w) : w[n] = newest[p + n]
      BY <1>3, <1>6
    <2> QED
      BY <2>1, <2>2, <2>3
  <1>8. Len(v) > limit => Len(w) = limit
    BY <1>1, <1>4, <1>6
  <1>9. ~(Len(v) > limit) => p + Len(w) = N
    BY <1>1, <1>4, <1>6
  <1>10. q \in p..N
    BY <1>1, <1>7
  <1>11. page.messages = w /\ page.hasMore = (Len(v) > limit)
    BY <1>2
  <1>12. page \in Page(S)
    BY <1>2, <1>6 DEF Page
  <1> HIDE DEF page
  <1>13. Distinct(w)
    <2> SUFFICES ASSUME NEW a \in 1..Len(w), NEW c \in 1..Len(w), w[a] = w[c]
                 PROVE  a = c
      BY <1>7 DEF Distinct
    <2>1. newest[p + a] = newest[p + c]
      BY <1>7
    <2>2. p + a \in DOMAIN newest /\ p + c \in DOMAIN newest
      BY <1>1, <1>7 DEF N
    <2>3. p + a = p + c
      BY <2>1, <2>2 DEF Distinct
    <2> QED
      BY <1>1, <1>7, <2>3
  <1>14. \A m \in ToSet(w) : \E i \in (p + 1)..q : m = newest[i]
    <2> TAKE m \in ToSet(w)
    <2>1. PICK n \in 1..Len(w) : m = w[n]
      BY <1>7 DEF ToSet
    <2>2. p + n \in (p + 1)..q /\ m = newest[p + n]
      BY <1>1, <1>7, <2>1
    <2> QED
      BY <2>2
  <1>15. \A i \in (p + 1)..q : newest[i] \in ToSet(w)
    <2> TAKE i \in (p + 1)..q
    <2>1. i - p \in 1..Len(w) /\ p + (i - p) = i
      BY <1>1, <1>7
    <2>2. w[i - p] = newest[i]
      BY <1>7, <2>1
    <2> QED
      BY <1>7, <2>1, <2>2 DEF ToSet
  <1>16. Len(v) > limit => p < q /\ Last(w) = newest[q]
    <2> SUFFICES ASSUME Len(v) > limit
                 PROVE  p < q /\ Last(w) = newest[q]
      OBVIOUS
    <2>1. Len(w) \in 1..Len(w) /\ p < q
      BY <1>1, <1>8
    <2> QED
      BY <1>7, <2>1 DEF Last
  <1>17. ~(Len(v) > limit) => q = N
    BY <1>9
  <1> HIDE DEF q
  <1>18. Shows(page, newest, p, q)
    BY <1>11, <1>14, <1>15, <1>16, <1>17 DEF Shows, N
  <1> QED
    BY <1>10, <1>11, <1>12, <1>13, <1>18 DEF page, N

\* The client goes on where the last page it has ends.
TurnPage(b, lg, limit, pages) ==
    LET last == Last(pages) IN
    IF last.hasMore THEN Append(pages, FromStorage(b, lg, Last(last.messages).id, limit))
    ELSE pages

\* The pages a client has, turn by turn.
Walks(W, b, lg, limit) ==
    /\ Visited(b, lg, limit) = W[Len(lg)]
    /\ W[0] = <<FromStorage(b, lg, None, limit)>>
    /\ \A n \in 1..Len(lg) : W[n] = TurnPage(b, lg, limit, W[n - 1])

LEMMA VisitedSteps ==
    ASSUME NEW b, NEW lg, NEW limit, Len(lg) \in Nat
    PROVE  \E W : Walks(W, b, lg, limit)
  <1> DEFINE N == Len(lg)
             first == <<FromStorage(b, lg, None, limit)>>
             Step(w) == TurnPage(b, lg, limit, w)
             Goes(f, m) == f = [n \in 0..m |-> IF n = 0 THEN first ELSE Step(f[n - 1])]
             T == {m \in Nat : \E f : Goes(f, m)}
             W == CHOOSE f : Goes(f, N)
  <1>1. Visited(b, lg, limit) = W[N]
    BY DEF Visited, TurnPage
  <1>2. N \in Nat
    OBVIOUS
  <1> HIDE DEF Step, N, first
  <1>3. 0 \in T
    <2> DEFINE f == [n \in 0..0 |-> first]
    <2>1. \A n \in 0..0 : n = 0
      OBVIOUS
    <2>2. f = [n \in 0..0 |-> IF n = 0 THEN first ELSE Step(f[n - 1])]
      BY <2>1
    <2> HIDE DEF f
    <2> QED
      BY <2>2
  <1>4. ASSUME NEW m \in T PROVE m + 1 \in T
    <2>1. m \in Nat
      BY <1>4
    <2>2. PICK f : Goes(f, m)
      BY <1>4
    <2> DEFINE g == [n \in 0..(m + 1) |-> IF n = m + 1 THEN Step(f[m]) ELSE f[n]]
    <2>3. \A n \in 0..(m + 1) : \/ n = 0
                                \/ n \in 1..m /\ n - 1 \in 0..m
                                \/ n = m + 1 /\ n # 0 /\ n - 1 = m
      BY <2>1
    <2>4. \A n \in 0..m : n \in 0..(m + 1) /\ n # m + 1
      BY <2>1
    <2>5. \A n \in 0..m : g[n] = f[n]
      BY <2>4
    <2>6. m \in 0..m /\ 0 \in 0..m /\ m + 1 \in 0..(m + 1) /\ \A n \in 1..m : n \in 0..m /\ n # 0
      BY <2>1
    <2>7. g[0] = first
      BY <2>2, <2>5, <2>6
    <2>8. \A n \in 1..m : g[n] = Step(f[n - 1])
      BY <2>2, <2>5, <2>6
    <2>9. g[m + 1] = Step(f[m])
      BY <2>6
    <2>10. \A n \in 0..(m + 1) : g[n] = IF n = 0 THEN first ELSE Step(g[n - 1])
      <3> TAKE n \in 0..(m + 1)
      <3>1. CASE n = 0
        BY <2>7, <3>1
      <3>2. CASE n \in 1..m /\ n - 1 \in 0..m
        <4>1. n # 0 /\ g[n] = Step(f[n - 1]) /\ g[n - 1] = f[n - 1]
          BY <2>5, <2>6, <2>8, <3>2
        <4> HIDE DEF g
        <4> QED
          BY <4>1
      <3>3. CASE n = m + 1 /\ n # 0 /\ n - 1 = m
        BY <2>5, <2>6, <2>9, <3>3
      <3> QED
        BY <2>3, <3>1, <3>2, <3>3
    <2>11. g = [n \in 0..(m + 1) |-> g[n]]
      OBVIOUS
    <2> HIDE DEF g
    <2>12. g = [n \in 0..(m + 1) |-> IF n = 0 THEN first ELSE Step(g[n - 1])]
      BY <2>10, <2>11
    <2>13. m + 1 \in Nat
      BY <2>1
    <2> QED
      BY <2>12, <2>13
  <1>5. T = Nat
    <2> HIDE DEF T
    <2>1. T \in SUBSET Nat
      BY DEF T
    <2> QED
      BY <2>1, <1>3, <1>4, Induct
  <1>6. \E f : Goes(f, N)
    BY <1>2, <1>5
  <1>7. Goes(W, N)
    <2> HIDE DEF Goes
    <2> QED
      BY <1>6
  <1> HIDE DEF W
  <1>8. W[0] = first
    <2>1. 0 \in 0..N
      BY <1>2
    <2> QED
      BY <1>7, <2>1
  <1>9. \A n \in 1..N : W[n] = Step(W[n - 1])
    <2>1. \A n \in 1..N : n \in 0..N /\ n # 0
      BY <1>2
    <2> QED
      BY <1>7, <2>1
  <1> QED
    BY <1>1, <1>8, <1>9 DEF Walks, Step, N, first

\* What one page shows, and one more.
LEMMA ShownFirst ==
    ASSUME NEW page
    PROVE  Shown(<<page>>) = page.messages
  <1> DEFINE P == <<page>>
             ss == [i \in DOMAIN P |-> P[i].messages]
  <1>1. DOMAIN P = 1..1 /\ P[1] = page
    OBVIOUS
  <1>2. Len(ss) = 1 /\ ss[1] = page.messages
    BY <1>1
  <1> HIDE DEF ss
  <1>3. FlattenSeq(ss) = page.messages
    BY <1>2, FlattenOne
  <1> QED
    BY <1>3 DEF Shown, ss

LEMMA ShownMore ==
    ASSUME NEW S, NEW P \in Seq(Page(S)), P # <<>>, NEW page \in Page(S)
    PROVE  Shown(Append(P, page)) = Shown(P) \o page.messages
  <1> DEFINE Q == Append(P, page)
             N == Len(P)
             ss == [i \in DOMAIN P |-> P[i].messages]
             tt == [i \in DOMAIN Q |-> Q[i].messages]
             s == page.messages
  <1>1. /\ N \in Nat /\ N # 0 /\ DOMAIN P = 1..N /\ DOMAIN Q = 1..(N + 1)
        /\ Q[N + 1] = page /\ \A i \in 1..N : Q[i] = P[i]
    OBVIOUS
  <1>2. s \in Seq(S) /\ \A i \in 1..N : P[i].messages \in Seq(S)
    <2>1. \A i \in 1..N : P[i] \in Page(S)
      BY <1>1
    <2>2. \A x \in Page(S) : x.messages \in Seq(S)
      BY DEF Page
    <2> QED
      BY <2>1, <2>2
  <1>3. ss \in Seq(Seq(S)) /\ Len(ss) = N /\ DOMAIN ss = 1..N
    <2> HIDE DEF N
    <2>1. ss = [i \in 1..N |-> P[i].messages]
      BY <1>1
    <2> QED
      BY <1>1, <1>2, <2>1
  <1>4. tt = [i \in 1..(N + 1) |-> Q[i].messages]
    BY <1>1
  <1>5. \A i \in 1..N : ss[i] = P[i].messages
    BY <1>1
  <1> HIDE DEF Q, N, ss, tt, s
  <1>6. tt = Append(ss, s)
    <2> DEFINE uu == Append(ss, s)
    <2>1. uu \in Seq(Seq(S)) /\ Len(uu) = N + 1
      BY <1>2, <1>3
    <2>2. DOMAIN uu = 1..(N + 1) /\ \A f \in Seq(Seq(S)) : f = [i \in DOMAIN f |-> f[i]]
      BY <1>1, <2>1
    <2>3. \A i \in 1..(N + 1) : uu[i] = Q[i].messages
      <3> TAKE i \in 1..(N + 1)
      <3>1. CASE i = N + 1
        BY <1>1, <1>2, <1>3, <3>1 DEF s
      <3>2. CASE i # N + 1
        <4>1. i \in 1..N
          BY <1>1, <3>2
        <4>2. uu[i] = ss[i]
          BY <1>2, <1>3, <4>1
        <4> QED
          BY <1>1, <1>5, <4>1, <4>2
      <3> QED
        BY <3>1, <3>2
    <2> HIDE DEF uu
    <2>4. tt = uu
      BY <1>4, <2>1, <2>2, <2>3
    <2> QED
      BY <2>4 DEF uu
  <1>7. ss # <<>>
    BY <1>1, <1>3
  <1>8. FlattenSeq(Append(ss, s)) = FlattenSeq(ss) \o s
    BY <1>2, <1>3, <1>7, FlattenMore
  <1> QED
    BY <1>6, <1>8 DEF Shown, Q, ss, tt, s

\* Where pages end.
LEMMA CutsMore ==
    ASSUME NEW S, NEW P \in Seq(Page(S)), P # <<>>, NEW page
    PROVE  /\ Cuts(P) \subseteq Cuts(Append(P, page))
           /\ Last(P).hasMore => Last(Last(P).messages).ts \in Cuts(P)
  <1>1. /\ Len(P) \in Nat /\ Len(P) \in DOMAIN P /\ DOMAIN P \subseteq DOMAIN Append(P, page)
        /\ \A i \in DOMAIN P : Append(P, page)[i] = P[i]
    OBVIOUS
  <1> HIDE DEF Page
  <1> QED
    BY <1>1 DEF Cuts, Last

\* What holds when n pages have followed the first, or there are fewer.
Turned(b, newest, P, n) ==
    /\ P # <<>>
    /\ Distinct(Shown(P))
    /\ \E q \in 0..Len(newest) :
          /\ \A m \in ToSet(Shown(P)) : \E i \in 1..q : m = newest[i]
          /\ \A i \in 1..q : \/ newest[i] \in ToSet(Shown(P))
                             \/ b = "db" /\ newest[i].ts \in Cuts(P)
          /\ Last(P).hasMore => n < q /\ Last(Last(P).messages) = newest[q]
          /\ ~Last(P).hasMore => q = Len(newest)

\* It holds of the first page, and as long as there are more.
LEMMA TurnsFirst ==
    ASSUME NEW S, \A m \in S : m.ts \in Int, NEW lg \in Seq(S), Unique(lg), NEW b,
           NEW limit \in 1..(Cap - 1)
    PROVE  LET P == <<FromStorage(b, lg, None, limit)>>
           IN /\ P \in Seq(Page(S)) /\ Shown(P) \in Seq(S)
              /\ Turned(b, Sorted(b, "newest", lg), P, 0)
  <1> DEFINE newest == Sorted(b, "newest", lg)
             N == Len(newest)
             page == FromStorage(b, lg, None, limit)
             P == <<page>>
  <1>1. newest \in Seq(S) /\ Picks(newest, lg)
    BY SortedFacts
  <1>2. Distinct(newest)
    BY <1>1, UniqueDistinct, PicksDistinct
  <1>3. Behind(b, lg, None) = newest
    BY DEF Behind
  <1> HIDE DEF newest
  <1>4. Behind(b, lg, None) = SubSeq(newest, 0 + 1, Len(newest))
    BY <1>1, <1>3, EndFromStart
  <1>5. 0 \in 0..Len(newest)
    BY <1>1
  <1>6. /\ page \in Page(S)
        /\ Distinct(page.messages)
        /\ \E q \in 0..Len(newest) : Shows(page, newest, 0, q)
    BY <1>1, <1>2, <1>4, <1>5, PageIs
  <1> HIDE DEF page
  <1>7. P \in Seq(Page(S)) /\ P # <<>> /\ Last(P) = page
    <2> HIDE DEF Page
    <2> QED
      BY <1>6 DEF Last
  <1>8. Shown(P) = page.messages
    BY ShownFirst
  <1>9. page.messages \in Seq(S)
    BY <1>6 DEF Page
  <1> HIDE DEF P
  <1>10. Turned(b, newest, P, 0)
    <2>1. 0 + 1 = 1
      OBVIOUS
    <2>2. PICK q \in 0..Len(newest) :
             /\ \A m \in ToSet(page.messages) : \E i \in 1..q : m = newest[i]
             /\ \A i \in 1..q : newest[i] \in ToSet(page.messages)
             /\ page.hasMore => 0 < q /\ Last(page.messages) = newest[q]
             /\ ~page.hasMore => q = Len(newest)
      BY <1>6, <2>1 DEF Shows
    <2> QED
      BY <1>6, <1>7, <1>8, <2>2 DEF Turned
  <1> QED
    BY <1>7, <1>8, <1>9, <1>10 DEF P, page, newest

LEMMA TurnsOn ==
    ASSUME NEW S, \A m \in S : m.ts \in Int /\ m.id # None, NEW lg \in Seq(S), Unique(lg),
           NEW b \in {"db", "memory"}, NEW limit \in 1..(Cap - 1),
           NEW n \in Nat, NEW P \in Seq(Page(S)), Shown(P) \in Seq(S),
           Turned(b, Sorted(b, "newest", lg), P, n), Last(P).hasMore
    PROVE  LET Q == Append(P, FromStorage(b, lg, Last(Last(P).messages).id, limit))
           IN /\ Q \in Seq(Page(S)) /\ Shown(Q) \in Seq(S)
              /\ Turned(b, Sorted(b, "newest", lg), Q, n + 1)
  <1> DEFINE newest == Sorted(b, "newest", lg)
             N == Len(newest)
             id == Last(Last(P).messages).id
             page == FromStorage(b, lg, id, limit)
             Q == Append(P, page)
  <1>1. newest \in Seq(S) /\ Picks(newest, lg) /\ Len(lg) = N /\ N \in Nat
    BY SortedFacts
  <1>2. Distinct(newest)
    BY <1>1, UniqueDistinct, PicksDistinct
  <1>3. PICK q \in 0..N :
           /\ \A m \in ToSet(Shown(P)) : \E i \in 1..q : m = newest[i]
           /\ \A i \in 1..q : \/ newest[i] \in ToSet(Shown(P))
                              \/ b = "db" /\ newest[i].ts \in Cuts(P)
           /\ n < q /\ Last(Last(P).messages) = newest[q]
    BY DEF Turned
  <1>4. P # <<>> /\ Distinct(Shown(P))
    BY DEF Turned
  <1>5. q \in 1..N /\ id = newest[q].id
    BY <1>1, <1>3
  <1>6. PICK p \in q..N :
           /\ SameTime(b, newest, q, p)
           /\ Behind(b, lg, newest[q].id) = SubSeq(newest, p + 1, Len(lg))
    <2>1. q \in 1..Len(lg)
      BY <1>1, <1>5
    <2> QED
      BY <1>1, <2>1, BehindIs
  <1> HIDE DEF newest, id
  <1>7. p \in 0..N /\ Behind(b, lg, id) = SubSeq(newest, p + 1, N)
    BY <1>1, <1>5, <1>6
  <1>8. /\ page \in Page(S)
        /\ Distinct(page.messages)
        /\ \E r \in p..N  : Shows(page, newest, p, r)
    BY <1>1, <1>2, <1>7, PageIs
  <1> HIDE DEF page
  <1>9. PICK r \in p..N :
              /\ \A m \in ToSet(page.messages) : \E i \in (p + 1)..r : m = newest[i]
              /\ \A i \in (p + 1)..r : newest[i] \in ToSet(page.messages)
              /\ page.hasMore => p < r /\ Last(page.messages) = newest[r]
              /\ ~page.hasMore => r = N
    BY <1>8 DEF Shows
  <1>10. page.messages \in Seq(S)
    BY <1>8 DEF Page
  <1>11. Q \in Seq(Page(S)) /\ Q # <<>> /\ Last(Q) = page
    <2>1. Q \in Seq(Page(S)) /\ Len(Q) = Len(P) + 1 /\ Q[Len(P) + 1] = page
      BY <1>8
    <2>2. Len(P) + 1 # 0
      OBVIOUS
    <2> HIDE DEF Q
    <2> QED
      BY <2>1, <2>2 DEF Last
  <1>12. Shown(Q) = Shown(P) \o page.messages
    BY <1>4, <1>8, ShownMore
  <1>13. Cuts(P) \subseteq Cuts(Q) /\ newest[q].ts \in Cuts(P)
    <2>1. Last(Last(P).messages).ts \in Cuts(P) /\ Cuts(P) \subseteq Cuts(Q)
      BY <1>4, CutsMore
    <2> QED
      BY <1>3, <2>1
  <1>14. ToSet(Shown(P)) \cap ToSet(page.messages) = {}
    <2> SUFFICES ASSUME NEW m \in ToSet(Shown(P)), m \in ToSet(page.messages)
                 PROVE  FALSE
      OBVIOUS
    <2>1. PICK i \in 1..q : m = newest[i]
      BY <1>3
    <2>2. PICK k \in (p + 1)..r : m = newest[k]
      BY <1>9
    <2>3. i \in 1..N /\ k \in 1..N /\ i # k
      BY <1>1, <1>5
    <2>4. DOMAIN newest = 1..N
      BY <1>1
    <2> QED
      BY <1>2, <2>1, <2>2, <2>3, <2>4 DEF Distinct
  <1> HIDE DEF Q
  <1>15. /\ Shown(Q) \in Seq(S)
         /\ Distinct(Shown(Q))
         /\ ToSet(Shown(Q)) = ToSet(Shown(P)) \cup ToSet(page.messages)
    BY <1>4, <1>8, <1>10, <1>12, <1>14, Concatenated
  <1>16. r \in 0..N
    BY <1>1, <1>5
  <1>17. \A m \in ToSet(Shown(Q)) : \E i \in 1..r : m = newest[i]
    <2> TAKE m \in ToSet(Shown(Q))
    <2>1. CASE m \in ToSet(Shown(P))
      <3>1. PICK i \in 1..q : m = newest[i]
        BY <1>3, <2>1
      <3>2. i \in 1..r
        BY <1>1, <1>5
      <3> QED
        BY <3>1, <3>2
    <2>2. CASE m \in ToSet(page.messages)
      <3>1. PICK i \in (p + 1)..r : m = newest[i]
        BY <1>9, <2>2
      <3>2. i \in 1..r
        BY <1>1, <1>5
      <3> QED
        BY <3>1, <3>2
    <2> QED
      BY <1>15, <2>1, <2>2
  <1>18. \A i \in 1..r : newest[i] \in ToSet(Shown(Q)) \/ (b = "db" /\ newest[i].ts \in Cuts(Q))
    <2> TAKE i \in 1..r
    <2>1. i \in 1..q \/ i \in (q + 1)..p \/ i \in (p + 1)..r
      BY <1>1, <1>5
    <2>2. CASE i \in 1..q
      BY <1>3, <1>13, <1>15, <2>2
    <2>3. CASE i \in (q + 1)..p
      BY <1>6, <1>13, <2>3 DEF SameTime
    <2>4. CASE i \in (p + 1)..r
      BY <1>9, <1>15, <2>4
    <2> QED
      BY <2>1, <2>2, <2>3, <2>4
  <1>19. page.hasMore => n + 1 < r
    <2> SUFFICES ASSUME page.hasMore PROVE n + 1 < r
      OBVIOUS
    <2>1. p < r /\ n < q
      BY <1>3, <1>9
    <2> QED
      BY <1>1, <1>5, <2>1
  <1>20. Turned(b, newest, Q, n + 1)
    BY <1>9, <1>11, <1>15, <1>16, <1>17, <1>18, <1>19 DEF Turned
  <1> QED
    BY <1>11, <1>15, <1>20 DEF Q, page, id, newest

\* At the end there are no more pages.
LEMMA VisitedFacts ==
    ASSUME NEW S, \A m \in S : m.ts \in Int /\ m.id # None, NEW lg \in Seq(S), Unique(lg),
           NEW b \in {"db", "memory"}, NEW limit \in 1..(Cap - 1)
    PROVE  LET pages == Visited(b, lg, limit)
           IN /\ Shown(pages) \in Seq(S)
              /\ Unique(Shown(pages))
              /\ \A m \in ToSet(lg) : m \in ToSet(Shown(pages)) \/ (b = "db" /\ m.ts \in Cuts(pages))
  <1> DEFINE N == Len(lg)
             newest == Sorted(b, "newest", lg)
             pages == Visited(b, lg, limit)
             Good(P, n) == P \in Seq(Page(S)) /\ Shown(P) \in Seq(S) /\ Turned(b, newest, P, n)
             Step(w) == TurnPage(b, lg, limit, w)
  <1>1. newest \in Seq(S) /\ Len(newest) = N /\ Picks(newest, lg) /\ N \in Nat
    BY SortedFacts
  <1>2. PICK W : Walks(W, b, lg, limit)
    <2>1. Len(lg) \in Nat
      BY <1>1
    <2> QED
      BY <2>1, VisitedSteps
  <1> DEFINE T == {n \in Nat : n <= N => Good(W[n], n)}
  <1>3. Good(W[0], 0)
    <2>1. \A m \in S : m.ts \in Int
      OBVIOUS
    <2> HIDE DEF newest
    <2> QED
      BY <1>2, <2>1, TurnsFirst DEF Walks, newest
  <1>4. ASSUME NEW P, NEW n \in Nat, Good(P, n)
        PROVE  Good(Step(P), n + 1)
    <2>1. CASE Last(P).hasMore
      <3>1. Step(P) = Append(P, FromStorage(b, lg, Last(Last(P).messages).id, limit))
        BY <2>1 DEF TurnPage
      <3> HIDE DEF Step, newest
      <3> QED
        BY <1>4, <2>1, <3>1, TurnsOn DEF newest
    <2>2. CASE ~Last(P).hasMore
      <3>1. Step(P) = P
        BY <2>2 DEF TurnPage
      <3>2. Turned(b, newest, P, n + 1)
        BY <1>4, <2>2 DEF Turned
      <3> HIDE DEF Step, newest
      <3> QED
        BY <1>4, <3>1, <3>2
    <2> QED
      BY <2>1, <2>2
  <1>16. /\ pages = W[N]
         /\ \A n \in 1..N : W[n] = Step(W[n - 1])
    BY <1>2 DEF Walks
  <1> HIDE DEF Good, Step, newest, N, pages
  <1>5. 0 \in T
    BY <1>3
  <1>6. ASSUME NEW n \in T PROVE n + 1 \in T
    <2> SUFFICES ASSUME n + 1 <= N PROVE Good(W[n + 1], n + 1)
      OBVIOUS
    <2>1. n \in Nat /\ n <= N /\ n + 1 \in 1..N /\ (n + 1) - 1 = n
      BY <1>1, <1>6
    <2>2. Good(W[n], n)
      BY <1>6, <2>1
    <2>3. W[n + 1] = Step(W[(n + 1) - 1])
      BY <1>16, <2>1
    <2>4. W[n + 1] = Step(W[n])
      BY <2>1, <2>3
    <2> QED
      BY <1>4, <2>1, <2>2, <2>4
  <1>7. T = Nat
    <2> HIDE DEF T
    <2>1. T \in SUBSET Nat
      BY DEF T
    <2> QED
      BY <2>1, <1>5, <1>6, Induct
  <1>8. Good(pages, N)
    <2>1. N \in T
      <3> HIDE DEF T
      <3> QED
        BY <1>1, <1>7
    <2>2. N <= N
      BY <1>1
    <2> QED
      BY <1>16, <2>1, <2>2
  <1> DEFINE seen == Shown(pages)
  <1>9. seen \in Seq(S) /\ Distinct(seen)
    BY <1>8 DEF Good, Turned
  <1>10. /\ \A m \in ToSet(seen) : \E i \in 1..N : m = newest[i]
         /\ \A i \in 1..N : newest[i] \in ToSet(seen) \/ (b = "db" /\ newest[i].ts \in Cuts(pages))
    <2>1. PICK q \in 0..N :
              /\ \A m \in ToSet(seen) : \E i \in 1..q : m = newest[i]
              /\ \A i \in 1..q : \/ newest[i] \in ToSet(seen)
                                 \/ b = "db" /\ newest[i].ts \in Cuts(pages)
              /\ Last(pages).hasMore => N < q
              /\ ~Last(pages).hasMore => q = N
      BY <1>1, <1>8 DEF Good, Turned
    <2>2. ~(N < q)
      BY <1>1
    <2>3. q = N
      BY <2>1, <2>2
    <2> HIDE DEF seen
    <2> QED
      BY <2>1, <2>3
  <1> HIDE DEF seen
  <1>11. Unique(newest)
    BY <1>1, PicksUnique
  <1>12. DOMAIN newest = 1..N
    BY <1>1
  <1>13. Unique(seen)
    <2> SUFFICES ASSUME NEW a \in DOMAIN seen, NEW c \in DOMAIN seen, seen[a].id = seen[c].id
                 PROVE  a = c
      BY DEF Unique, IsInjective
    <2>1. seen[a] \in ToSet(seen) /\ seen[c] \in ToSet(seen)
      BY DEF ToSet
    <2>2. PICK i \in 1..N : seen[a] = newest[i]
      BY <1>10, <2>1
    <2>3. PICK k \in 1..N : seen[c] = newest[k]
      BY <1>10, <2>1
    <2>4. i = k
      BY <1>11, <1>12, <2>2, <2>3 DEF Unique, IsInjective
    <2> QED
      BY <1>9, <2>2, <2>3, <2>4 DEF Distinct
  <1>14. ToSet(newest) = ToSet(lg)
    BY <1>1, PicksAll DEF N
  <1>15. \A m \in ToSet(lg) : \E i \in 1..N : m = newest[i]
    BY <1>12, <1>14 DEF ToSet
  <1> QED
    BY <1>9, <1>10, <1>13, <1>15 DEF seen, pages

\* The pages of a search.
LEMMA SearchTiles ==
    ASSUME NEW S, NEW hits \in Seq(S), NEW b, NEW limit \in Nat \ {0},
           b # "memory" \/ Len(hits) < limit
    PROVE  FlattenSeq([n \in 1..Len(hits) |-> SearchMessages(b, hits, limit, (n - 1) * limit)])
              = hits
  <1> DEFINE N == Len(hits)
             page(n) == Take(SubSeq(hits, (n - 1) * limit + 1, N), limit)
             pages == [n \in 1..N |-> SearchMessages(b, hits, limit, (n - 1) * limit)]
  <1>1. N \in Nat /\ limit \in Nat /\ limit >= 1
    OBVIOUS
  <1>2. ~(b = "memory" /\ N >= limit)
    BY <1>1
  <1>3. \A n \in 1..N : SearchMessages(b, hits, limit, (n - 1) * limit) = page(n)
    BY <1>2 DEF SearchMessages
  <1> HIDE DEF page
  <1>4. pages = [n \in 1..N |-> page(n)]
    BY <1>3
  <1> HIDE DEF pages
  <1>5. Len(pages) = N
    BY <1>1, <1>4
  <1>6. CASE N = 0
    <2>1. pages = <<>> /\ hits = <<>>
      BY <1>4, <1>6
    <2>2. FlattenSeq(pages) = pages
      BY <1>5, <1>6 DEF FlattenSeq
    <2> QED
      BY <2>1, <2>2 DEF pages
  <1>7. CASE N # 0
    <2>1. Len(pages) \in Nat \ {0}
      BY <1>1, <1>5, <1>7
    <2>2. PICK F : /\ FlattenSeq(pages) = F[Len(pages)]
                   /\ F[1] = pages[1]
                   /\ \A n \in 2..Len(pages) : F[n] = F[n - 1] \o pages[n]
      BY <2>1, FlattenSteps
    <2> HIDE DEF N
    <2> DEFINE upto(k) == k * limit
               T == {k \in Nat : upto(k + 1) >= k + 1 /\
                        (k + 1 <= N => F[k + 1] = Take(hits, upto(k + 1)))}
    <2>3. \A k \in Nat : upto(k) \in Nat /\ upto(k + 1) = upto(k) + limit
      BY <1>1
    <2>4. \A n \in 1..N : pages[n] = page(n)
      BY <1>4
    <2>5. 0 \in T
      <3>1. upto(0) = 0 /\ upto(0 + 1) = limit /\ (1 - 1) * limit = 0 /\ 0 + 1 = 1
        BY <1>1
      <3>2. F[1] = Take(SubSeq(hits, 0 + 1, N), limit)
        <4>1. 1 \in 1..N
          BY <1>1, <1>7
        <4>2. F[1] = page(1)
          BY <2>2, <2>4, <4>1
        <4> HIDE DEF upto
        <4> QED
          BY <3>1, <4>2 DEF page
      <3>3. SubSeq(hits, 0 + 1, N) = hits
        BY EndFromStart DEF N
      <3> HIDE DEF upto
      <3>4. F[0 + 1] = Take(hits, upto(0 + 1))
        BY <3>1, <3>2, <3>3
      <3> QED
        BY <1>1, <3>1, <3>4
    <2>6. ASSUME NEW k \in T PROVE k + 1 \in T
      <3> DEFINE n == k + 1
      <3>1. k \in Nat /\ n \in Nat /\ n >= 1 /\ (n + 1) - 1 = n
        BY <2>6
      <3>2. upto(n) >= n /\ (n <= N => F[n] = Take(hits, upto(n)))
        BY <2>6
      <3> HIDE DEF n
      <3>3. upto(n) \in Nat /\ upto(n + 1) = upto(n) + limit
        BY <2>3, <3>1
      <3>4. page(n + 1) = Take(SubSeq(hits, upto(n) + 1, N), limit)
        BY <3>1 DEF page
      <3> HIDE DEF upto
      <3>5. upto(n + 1) >= n + 1
        BY <1>1, <3>1, <3>2, <3>3
      <3>6. ASSUME n + 1 <= N PROVE F[n + 1] = Take(hits, upto(n + 1))
        <4>1. n + 1 \in 2..N /\ n + 1 \in 1..N /\ n <= N
          BY <1>1, <3>1, <3>6
        <4>2. F[n + 1] = F[(n + 1) - 1] \o pages[n + 1]
          BY <1>5, <2>2, <4>1
        <4>3. F[n + 1] = Take(hits, upto(n)) \o page(n + 1)
          BY <2>4, <3>1, <3>2, <4>1, <4>2
        <4>4. Take(hits, upto(n)) \o Take(SubSeq(hits, upto(n) + 1, N), limit) =
                 Take(hits, upto(n) + limit)
          BY <1>1, <3>3, TakeOn DEF N
        <4> QED
          BY <3>3, <3>4, <4>3, <4>4
      <3> QED
        BY <3>1, <3>5, <3>6 DEF n
    <2>7. T = Nat
      <3> HIDE DEF T
      <3>1. T \in SUBSET Nat
        BY DEF T
      <3> QED
        BY <3>1, <2>5, <2>6, Induct
    <2>8. F[N] = Take(hits, upto(N)) /\ upto(N) >= N /\ upto(N) \in Nat
      <3>1. N - 1 \in Nat /\ (N - 1) + 1 = N /\ N <= N
        BY <1>1, <1>7
      <3>2. N - 1 \in T
        <4> HIDE DEF T
        <4> QED
          BY <2>7, <3>1
      <3>3. upto(N) \in Nat
        BY <1>1, <2>3
      <3> HIDE DEF upto
      <3>4. upto((N - 1) + 1) >= (N - 1) + 1 /\
               ((N - 1) + 1 <= N => F[(N - 1) + 1] = Take(hits, upto((N - 1) + 1)))
        BY <3>2
      <3> HIDE DEF T
      <3> QED
        BY <3>1, <3>3, <3>4
    <2> HIDE DEF upto, T
    <2>9. Take(hits, upto(N)) = hits
      BY <2>8, TakeAll DEF N
    <2>10. FlattenSeq(pages) = hits
      BY <1>5, <2>2, <2>8, <2>9
    <2> QED
      BY <2>10 DEF pages, N
  <1> QED
    BY <1>6, <1>7

-----------------------------------------------------------------------------
(***************************************************************************)
(* Messages and sequences of them                                          *)
(***************************************************************************)

LEMMA MessageFields ==
    ASSUME NEW m \in ChatMessage
    PROVE  /\ m.id \in Originals \cup SummaryIds
           /\ m.ts \in Int
           /\ m.summary \in BOOLEAN
           /\ m.summary <=> m.id \in SummaryIds
           /\ m.covers \subseteq Originals
           /\ m.knew \subseteq SummaryIds
           /\ ~m.summary => m.covers = {} /\ m.knew = {}
  BY DEF ChatMessage

LEMMA OriginalIsMessage ==
    ASSUME NEW m \in Original
    PROVE  m \in ChatMessage /\ ~m.summary /\ m.id \in Originals
  BY ConversationAssumption DEF Original, ChatMessage

LEMMA Elements ==
    ASSUME NEW s \in ChatMessages
    PROVE  /\ s \in Seq(ChatMessage)
           /\ Unique(s)
           /\ ToSet(s) \subseteq ChatMessage
           /\ \A m, n \in ToSet(s) : m.id = n.id => m = n
  <1>1. s \in Seq(ChatMessage) /\ Unique(s)
    BY DEF ChatMessages
  <1>2. ToSet(s) \subseteq ChatMessage
    BY <1>1 DEF ToSet
  <1>3. \A m, n \in ToSet(s) : m.id = n.id => m = n
    BY <1>1 DEF ToSet, Unique, IsInjective
  <1> QED
    BY <1>1, <1>2, <1>3

LEMMA PicksMessages ==
    ASSUME NEW s \in ChatMessages, NEW t \in Seq(ChatMessage), Picks(t, s)
    PROVE  t \in ChatMessages
  BY PicksUnique DEF ChatMessages

LEMMA EmptyFacts ==
    /\ <<>> \in ChatMessages
    /\ ToSet(<<>>) = {}
    /\ Ids(<<>>) = {}
  BY DEF ChatMessages, Unique, IsInjective, ToSet, Ids

LEMMA AppendFacts ==
    ASSUME NEW s \in ChatMessages, NEW m \in ChatMessage, m.id \notin Ids(s)
    PROVE  /\ Append(s, m) \in ChatMessages
           /\ ToSet(Append(s, m)) = ToSet(s) \cup {m}
           /\ Ids(Append(s, m)) = Ids(s) \cup {m.id}
  <1> DEFINE t == Append(s, m)
             l == Len(s)
  <1>1. /\ s \in Seq(ChatMessage)
        /\ \A i, k \in DOMAIN s : s[i].id = s[k].id => i = k
    BY DEF ChatMessages, Unique, IsInjective
  <1>2. /\ t \in Seq(ChatMessage) /\ l \in Nat
        /\ DOMAIN s = 1..l /\ DOMAIN t = 1..(l + 1)
        /\ \A i \in 1..l : t[i] = s[i]
        /\ t[l + 1] = m
    BY <1>1
  <1> HIDE DEF t, l
  <1>3. \A i \in 1..(l + 1) : i \in 1..l \/ i = l + 1
    BY <1>2
  <1>4. \A i \in 1..l : i \in 1..(l + 1) /\ s[i].id # m.id
    BY <1>2 DEF Ids
  <1>5. l + 1 \in 1..(l + 1)
    BY <1>2
  <1>6. \A i, k \in DOMAIN t : t[i].id = t[k].id => i = k
    BY <1>1, <1>2, <1>3, <1>4
  <1>7. ToSet(t) = ToSet(s) \cup {m}
    BY <1>2, <1>3, <1>4, <1>5 DEF ToSet
  <1>8. Ids(t) = Ids(s) \cup {m.id}
    BY <1>7, IdsOfSet
  <1>9. t \in ChatMessages
    BY <1>2, <1>6 DEF ChatMessages, Unique, IsInjective
  <1> QED
    BY <1>7, <1>8, <1>9 DEF t

LEMMA MessageIs ==
    ASSUME NEW s \in ChatMessages, NEW id \in Ids(s)
    PROVE  /\ Message(s, id) \in ToSet(s)
           /\ Message(s, id) \in ChatMessage
           /\ Message(s, id).id = id
  <1>1. \E i \in DOMAIN s : s[i].id = id
    BY DEF Ids
  <1>2. Message(s, id) \in ToSet(s) /\ Message(s, id).id = id
    BY <1>1 DEF Message, ToSet
  <1> QED
    BY <1>2, Elements

LEMMA GrownIds ==
    ASSUME NEW old, NEW new, Grown(old, new)
    PROVE  Ids(old) \subseteq Ids(new)
  <1>1. \A m \in ToSet(old) : \E n \in ToSet(new) : n.id = m.id
    BY DEF Grown, Like
  <1>2. \A x \in Ids(old) : \E m \in ToSet(old) : x = m.id
    BY IdsOfSet
  <1>3. \A m \in ToSet(new) : m.id \in Ids(new)
    BY IdsOfSet
  <1> QED
    BY <1>1, <1>2, <1>3

\* What is covered stays covered.
LEMMA CoveredIs ==
    ASSUME NEW s
    PROVE  BuildSummarizedIDSet(s) = UNION {m.covers : m \in {n \in ToSet(s) : n.summary}}
  BY DEF BuildSummarizedIDSet, ToSet

LEMMA GrownCovered ==
    ASSUME NEW old, NEW new, Grown(old, new)
    PROVE  BuildSummarizedIDSet(old) \subseteq BuildSummarizedIDSet(new)
  <1>1. ASSUME NEW m \in ToSet(old), m.summary
        PROVE  \E n \in ToSet(new) : n.summary /\ n.covers = m.covers
    BY <1>1 DEF Grown, Like
  <1> QED
    BY <1>1, CoveredIs

LEMMA GrownSelf ==
    ASSUME NEW s
    PROVE  Grown(s, s)
  BY DEF Grown, Like

-----------------------------------------------------------------------------
(***************************************************************************)
(* Changes of the log                                                      *)
(***************************************************************************)

\* A message is added once.
LEMMA AppendedFacts ==
    ASSUME log \in ChatMessages, NEW m \in ChatMessage, ~m.summary
    PROVE  /\ Appended(m) \in ChatMessages
           /\ Grown(log, Appended(m))
           /\ m.id \in Ids(Appended(m))
  <1>1. CASE m.id \in Ids(log)
    BY <1>1, GrownSelf DEF Appended
  <1>2. CASE m.id \notin Ids(log)
    <2> DEFINE new == Append(log, m)
    <2>1. Appended(m) = new
      BY <1>2 DEF Appended
    <2>2. /\ new \in ChatMessages
          /\ ToSet(new) = ToSet(log) \cup {m}
          /\ Ids(new) = Ids(log) \cup {m.id}
      BY <1>2, AppendFacts
    <2> HIDE DEF new
    <2>3. \A n \in ToSet(log) : Like(n, n)
      BY DEF Like
    <2>4. Grown(log, new)
      BY <1>2, <2>2, <2>3 DEF Grown
    <2> QED
      BY <2>1, <2>2, <2>4
  <1> QED
    BY <1>1, <1>2

\* A message gives way to a version of it.
LEMMA ChangedFacts ==
    ASSUME log \in ChatMessages, NEW m \in ChatMessage, m.id \in Ids(log),
           Like(m, Message(log, m.id))
    PROVE  /\ Changed(m) \in ChatMessages
           /\ Grown(log, Changed(m))
  <1> DEFINE new == Changed(m)
  <1>1. log \in Seq(ChatMessage) /\ \A i, k \in DOMAIN log : log[i].id = log[k].id => i = k
    BY DEF ChatMessages, Unique, IsInjective
  <1>2. new = [i \in DOMAIN log |-> IF log[i].id = m.id THEN m ELSE log[i]]
    BY DEF Changed
  <1>3. DOMAIN log = 1..Len(log) /\ Len(log) \in Nat /\ \A i \in DOMAIN log : log[i] \in ChatMessage
    BY <1>1
  <1> HIDE DEF new
  <1>4. new \in Seq(ChatMessage) /\ DOMAIN new = DOMAIN log
    BY <1>2, <1>3
  <1>5. \A i \in DOMAIN log : Like(new[i], log[i])
    <2> TAKE i \in DOMAIN log
    <2>1. CASE log[i].id = m.id
      <3>1. log[i] \in ToSet(log)
        BY DEF ToSet
      <3>2. log[i] = Message(log, m.id)
        BY <2>1, <3>1, MessageIs, Elements
      <3>3. new[i] = m
        BY <1>2, <2>1
      <3> QED
        BY <3>2, <3>3
    <2>2. CASE log[i].id # m.id
      <3>1. new[i] = log[i]
        BY <1>2, <2>2
      <3> QED
        BY <3>1 DEF Like
    <2> QED
      BY <2>1, <2>2
  <1>6. \A i, k \in DOMAIN new : new[i].id = new[k].id => i = k
    BY <1>1, <1>4, <1>5 DEF Like
  <1>7. new \in ChatMessages
    BY <1>4, <1>6 DEF ChatMessages, Unique, IsInjective
  <1>8. Grown(log, new)
    <2>1. \A x \in ToSet(new) : \E y \in ToSet(log) : Like(x, y)
      BY <1>4, <1>5 DEF ToSet
    <2>2. \A y \in ToSet(log) : \E x \in ToSet(new) : Like(x, y)
      BY <1>4, <1>5 DEF ToSet
    <2> QED
      BY <2>1, <2>2 DEF Grown
  <1> QED
    BY <1>7, <1>8 DEF new

\* Pinning a message, or counting its tokens, makes a version of it.
LEMMA CountedFacts ==
    ASSUME NEW m \in ChatMessage, NEW n \in Nat
    PROVE  LET c == [m EXCEPT !.tok = n]
           IN c \in ChatMessage /\ c.id = m.id /\ Like(c, m)
  BY DEF ChatMessage, Like

LEMMA PinnedFacts ==
    ASSUME NEW m \in ChatMessage, NEW b \in BOOLEAN
    PROVE  LET c == [m EXCEPT !.pinned = b]
           IN c \in ChatMessage /\ c.id = m.id /\ Like(c, m)
  BY DEF ChatMessage, Like

\* What the browser sends with the session are no summaries.
LEMMA PayloadFacts ==
    ASSUME NEW s \in Payloads
    PROVE  /\ s \in ChatMessages
           /\ \A m \in ToSet(s) : ~m.summary
  <1>1. s \in Seq(Sent) /\ Unique(s)
    BY ConversationAssumption
  <1>2. \A m \in Sent : m \in ChatMessage /\ ~m.summary
    BY ConversationAssumption, OriginalIsMessage
  <1>3. s \in Seq(ChatMessage)
    BY <1>1, <1>2
  <1> QED
    BY <1>1, <1>2, <1>3 DEF ChatMessages, ToSet

LEMMA StoredFacts ==
    ASSUME NEW s \in Stored
    PROVE  /\ s \in ChatMessages
           /\ \A m \in ToSet(s) : ~m.summary
  <1>1. s \in Seq(Original) /\ Unique(s)
    BY ConversationAssumption
  <1>2. \A m \in Original : m \in ChatMessage /\ ~m.summary
    BY OriginalIsMessage
  <1>3. s \in Seq(ChatMessage)
    BY <1>1, <1>2
  <1> QED
    BY <1>1, <1>2, <1>3 DEF ChatMessages, ToSet

\* Messages of the browser alone have no summaries to speak of.
LEMMA OriginalsAlone ==
    ASSUME NEW s \in ChatMessages, \A m \in ToSet(s) : ~m.summary
    PROVE  /\ Apart(s)
           /\ KnowsOwn(s)
           /\ Ids(s) \subseteq Originals
           /\ \A m \in ToSet(s) : m.id \in Originals /\ m.covers = {} /\ m.knew = {}
           /\ \A t \in ChatMessages : Agree(s, t)
  <1>1. ASSUME NEW m \in ToSet(s)
        PROVE  m.id \in Originals /\ m.covers = {} /\ m.knew = {}
    <2>1. m \in ChatMessage /\ ~m.summary
      BY Elements
    <2> QED
      BY <2>1, MessageFields
  <1>2. Apart(s) /\ KnowsOwn(s)
    BY <1>1 DEF Apart, KnowsOwn
  <1>3. Ids(s) \subseteq Originals
    BY <1>1, IdsOfSet
  <1>4. ASSUME NEW t \in ChatMessages, NEW m \in ToSet(s), NEW n \in ToSet(t), m.id = n.id
        PROVE  m.covers = n.covers /\ m.knew = n.knew
    <2>1. n \in ChatMessage
      BY Elements
    <2>2. n.id \in Originals
      BY <1>1, <1>4
    <2>3. n.covers = {} /\ n.knew = {}
      BY <2>1, <2>2, MessageFields, ConversationAssumption
    <2> QED
      BY <1>1, <2>3
  <1>5. \A t \in ChatMessages : Agree(s, t)
    BY <1>4 DEF Agree
  <1> QED
    BY <1>1, <1>2, <1>3, <1>5

-----------------------------------------------------------------------------
(***************************************************************************)
(* Requests                                                                *)
(***************************************************************************)

LEMMA RequestFields ==
    ASSUME NEW r \in RequestType
    PROVE  /\ r.at \in Labels
           /\ r.kind \in {None} \cup Kinds
           /\ r.msgs \in ChatMessages
           /\ r.limit \in Nat
           /\ r.known \subseteq SummaryIds
           /\ r.covered \subseteq Originals
           /\ r.passes \in Nat
           /\ r.missed \subseteq {"change", "removal"}
  BY DEF RequestType

LEMMA IdleFacts ==
    /\ Idle \in RequestType
    /\ Idle.at = "idle" /\ Idle.msgs = <<>> /\ Idle.passes = 0 /\ Idle.missed = {}
  <1>1. <<>> \in ChatMessages
    BY EmptyFacts
  <1> QED
    BY <1>1 DEF Idle, RequestType, Labels

LEMMA GotoFacts ==
    ASSUME NEW r \in RequestType, NEW label \in Labels
    PROVE  /\ Goto(r, label) \in RequestType
           /\ Goto(r, label).at = label
           /\ Goto(r, label).kind = r.kind
           /\ Goto(r, label).msgs = r.msgs
           /\ Goto(r, label).limit = r.limit
           /\ Goto(r, label).known = r.known
           /\ Goto(r, label).covered = r.covered
           /\ Goto(r, label).passes = r.passes
           /\ Goto(r, label).missed = r.missed
  BY DEF Goto, RequestType

LEMMA MissingFacts ==
    ASSUME NEW r \in RequestType, NEW what \in SUBSET {"change", "removal"}
    PROVE  /\ Missing(r, what) \in RequestType
           /\ Missing(r, what).at = r.at
           /\ Missing(r, what).kind = r.kind
           /\ Missing(r, what).msgs = r.msgs
           /\ Missing(r, what).limit = r.limit
           /\ Missing(r, what).known = r.known
           /\ Missing(r, what).covered = r.covered
           /\ Missing(r, what).passes = r.passes
           /\ r.at \in HasRead => Missing(r, what).missed = r.missed \cup what
  BY DEF Missing, RequestType

LEMMA WithPasses ==
    ASSUME NEW r \in RequestType, NEW n \in Nat
    PROVE  LET c == [r EXCEPT !.passes = n]
           IN /\ c \in RequestType
              /\ c.at = r.at /\ c.msgs = r.msgs /\ c.passes = n /\ c.missed = r.missed
  BY DEF RequestType

\* What a request does that has written its session.
LEMMA SavingFacts ==
    ASSUME NEW r \in RequestType, \A m \in ToSet(r.msgs) : ~m.summary
    PROVE  /\ Saving(r) \in RequestType
           /\ Saving(r).at \in {"idle", "invalidate", "save"}
           /\ Writes(Saving(r))
           /\ r.kind # "create" => \/ Saving(r).at = "invalidate"
                                   \/ Saving(r).at = "save" /\ Saving(r).kind # "create"
  <1>1. CASE r.msgs # <<>>
    <2>1. Saving(r) = Goto(r, "save") /\ "save" \in Labels
      BY <1>1 DEF Saving, Labels
    <2>2. /\ Goto(r, "save") \in RequestType
          /\ Goto(r, "save").at = "save"
          /\ Goto(r, "save").kind = r.kind
          /\ Goto(r, "save").msgs = r.msgs
      BY <2>1, GotoFacts
    <2> QED
      BY <1>1, <2>1, <2>2 DEF Writes
  <1>2. CASE r.msgs = <<>> /\ r.kind = "create"
    BY <1>2, IdleFacts DEF Saving, Writes
  <1>3. CASE r.msgs = <<>> /\ r.kind # "create"
    <2>1. Saving(r) = Goto(Idle, "invalidate") /\ "invalidate" \in Labels
      BY <1>3 DEF Saving, Labels
    <2>2. Goto(Idle, "invalidate") \in RequestType /\ Goto(Idle, "invalidate").at = "invalidate"
      BY <2>1, IdleFacts, GotoFacts
    <2> QED
      BY <2>1, <2>2 DEF Writes
  <1> QED
    BY <1>1, <1>2, <1>3

LEMMA DifferenceFacts ==
    ASSUME NEW new
    PROVE  /\ Difference(new) \in SUBSET {"change", "removal"}
           /\ "change" \notin Difference(new) => new = log
           /\ "removal" \notin Difference(new) => Ids(log) \subseteq Ids(new)
           /\ new = log => Difference(new) = {}
  BY DEF Difference

-----------------------------------------------------------------------------
(***************************************************************************)
(* Steps                                                                   *)
(***************************************************************************)

\* What the invariant says of the requests and the log.
RInv == WritesOK /\ CurrentOK /\ CompactsOK /\ SnapshotsOK

Typed == log \in ChatMessages /\ req \in [Procs -> RequestType]

\* A step that leaves the log alone.
LEMMA Continues ==
    ASSUME Typed, NEW p \in Procs, NEW r \in RequestType, Continue(p, r)
    PROVE  /\ backend' = backend /\ exists' = exists /\ log' = log
           /\ req' \in [Procs -> RequestType]
           /\ req'[p] = r
           /\ \A q \in Procs : q # p => req'[q] = req[q]
  BY DEF Typed, Continue, store

LEMMA ContinueKeeps ==
    ASSUME Typed, RInv, NEW p \in Procs, NEW r \in RequestType, Continue(p, r),
           Writes(r), Current(backend, exists, log, r), Compacts(backend, log, r),
           r.at = "rename" => ToSet(r.msgs) \subseteq ToSet(log) /\ KnowsOwn(r.msgs)
    PROVE  RInv'
  <1>1. /\ backend' = backend /\ exists' = exists /\ log' = log
        /\ req'[p] = r
        /\ \A q \in Procs : q # p => req'[q] = req[q]
    BY Continues
  <1>2. WritesOK'
    BY <1>1 DEF RInv, WritesOK
  <1>3. CurrentOK'
    BY <1>1 DEF RInv, CurrentOK
  <1>4. CompactsOK'
    BY <1>1 DEF RInv, CompactsOK
  <1>5. \A m, n \in ToSet(log) : m.id = n.id => m = n
    BY Elements DEF Typed
  <1>6. r.at = "rename" =>
            /\ Apart(r.msgs) /\ KnowsOwn(r.msgs) /\ Agree(r.msgs, log)
            /\ \A q \in Procs : req[q].at = "rename" =>
                  Agree(r.msgs, req[q].msgs) /\ Agree(req[q].msgs, r.msgs)
    <2> HAVE r.at = "rename"
    <2>1. ToSet(r.msgs) \subseteq ToSet(log) /\ KnowsOwn(r.msgs)
      OBVIOUS
    <2>2. Apart(r.msgs)
      BY <2>1 DEF RInv, SnapshotsOK, Apart
    <2>3. Agree(r.msgs, log)
      BY <1>5, <2>1 DEF Agree
    <2>4. ASSUME NEW q \in Procs, req[q].at = "rename"
          PROVE  Agree(r.msgs, req[q].msgs) /\ Agree(req[q].msgs, r.msgs)
      <3>1. Agree(req[q].msgs, log)
        BY <2>4 DEF RInv, SnapshotsOK
      <3> QED
        BY <2>1, <3>1 DEF Agree
    <2> QED
      BY <2>1, <2>2, <2>3, <2>4
  <1>7. Agree(r.msgs, r.msgs)
    <2>1. r.msgs \in ChatMessages
      BY RequestFields
    <2> QED
      BY <2>1, Elements DEF Agree
  <1>8. SnapshotsOK'
    <2>1. Apart(log') /\ KnowsOwn(log')
      BY <1>1 DEF RInv, SnapshotsOK
    <2>2. ASSUME NEW q \in Procs, req'[q].at = "rename"
          PROVE  Apart(req'[q].msgs) /\ KnowsOwn(req'[q].msgs) /\ Agree(req'[q].msgs, log')
      BY <1>1, <1>6, <2>2 DEF RInv, SnapshotsOK
    <2>3. ASSUME NEW o \in Procs, NEW q \in Procs,
                 req'[o].at = "rename", req'[q].at = "rename"
          PROVE  Agree(req'[o].msgs, req'[q].msgs)
      <3>1. CASE o # p /\ q # p
        BY <1>1, <2>3, <3>1 DEF RInv, SnapshotsOK
      <3>2. CASE o = p /\ q # p
        BY <1>1, <1>6, <2>3, <3>2
      <3>3. CASE o # p /\ q = p
        BY <1>1, <1>6, <2>3, <3>3
      <3>4. CASE o = p /\ q = p
        BY <1>1, <1>7, <3>4
      <3> QED
        BY <3>1, <3>2, <3>3, <3>4
    <2> QED
      BY <2>1, <2>2, <2>3 DEF SnapshotsOK
  <1> QED
    BY <1>2, <1>3, <1>4, <1>8 DEF RInv

\* Most requests have nothing to say of the log.
Quiet == {"idle", "create", "update", "save", "invalidate"}

LEMMA QuietFacts ==
    ASSUME NEW r, r.at \in Quiet, NEW b, NEW ex, NEW lg
    PROVE  Current(b, ex, lg, r) /\ Compacts(b, lg, r) /\ r.at # "rename"
  BY DEF Quiet, Current, Compacts

LEMMA QuietKeeps ==
    ASSUME Typed, RInv, NEW p \in Procs, NEW r \in RequestType, Continue(p, r),
           Writes(r), r.at \in Quiet
    PROVE  RInv'
  BY QuietFacts, ContinueKeeps

\* A step that makes the log new, in which what happens to the requests that
\* go on is what.
Moves(new, what) ==
    /\ log' = new
    /\ backend' = backend
    /\ \A q \in Procs :
          \/ req'[q] = Missing(req[q], what)
          \/ req'[q].at \in {"idle", "invalidate", "save"} /\ Writes(req'[q])

LEMMA MovesKeep ==
    ASSUME Typed, RInv, NEW new \in ChatMessages,
           NEW what \in SUBSET {"change", "removal"}, Moves(new, what),
           "change" \notin what => new = log /\ (exists => exists'),
           "removal" \notin what => Ids(log) \subseteq Ids(new),
           Apart(new), KnowsOwn(new), Agree(new, log),
           \A q \in Procs : req[q].at = "rename" => Agree(req[q].msgs, new),
           backend = "db" /\ "removal" \notin what =>
               \A n \in ToSet(log) : \E m \in ToSet(new) : m.id = n.id /\ m.ts = n.ts
    PROVE  RInv'
  <1> DEFINE Same(q) == req'[q] = Missing(req[q], what)
             Other(q) == req'[q].at \in {"idle", "invalidate", "save"} /\ Writes(req'[q])
  <1>1. log' = new /\ backend' = backend /\ \A q \in Procs : Same(q) \/ Other(q)
    BY DEF Moves
  <1>2. ASSUME NEW q \in Procs, Same(q)
        PROVE  /\ req'[q].at = req[q].at
               /\ req'[q].kind = req[q].kind
               /\ req'[q].msgs = req[q].msgs
               /\ req'[q].limit = req[q].limit
               /\ req'[q].known = req[q].known
               /\ req'[q].covered = req[q].covered
               /\ req'[q].passes = req[q].passes
               /\ req[q].at \in HasRead => req'[q].missed = req[q].missed \cup what
    <2>1. req[q] \in RequestType
      BY DEF Typed
    <2> QED
      BY <1>2, <2>1, MissingFacts
  <1>3. ASSUME NEW q \in Procs, Other(q)
        PROVE  req'[q].at \in Quiet /\ Writes(req'[q])
    BY <1>3 DEF Quiet
  <1> HIDE DEF Same, Other
  <1>4. ASSUME NEW q \in Procs PROVE Writes(req'[q])
    <2>1. CASE Same(q)
      BY <1>2, <2>1 DEF RInv, WritesOK, Writes
    <2> QED
      BY <1>1, <1>3, <2>1
  <1>5. ASSUME NEW q \in Procs PROVE Current(backend', exists', log', req'[q])
    <2>1. CASE Same(q)
      <3>1. CASE req[q].at \in HasRead /\ "change" \notin what
        <4>1. log' = log /\ (exists => exists') /\ backend' = backend
          BY <1>1, <3>1
        <4>2. Current(backend, exists, log, req[q])
          BY DEF RInv, CurrentOK
        <4> QED
          BY <1>2, <2>1, <3>1, <4>1, <4>2 DEF Current
      <3>2. CASE req[q].at \in HasRead /\ "change" \in what
        BY <1>2, <2>1, <3>2 DEF Current
      <3>3. CASE req[q].at \notin HasRead
        BY <1>2, <2>1, <3>3 DEF Current, HasRead
      <3> QED
        BY <3>1, <3>2, <3>3
    <2> QED
      BY <1>1, <1>3, <2>1, QuietFacts
  <1>6. ASSUME NEW q \in Procs PROVE Compacts(backend', log', req'[q])
    <2>1. CASE Same(q)
      <3>1. Compacts(backend, log, req[q])
        BY DEF RInv, CompactsOK
      <3>2. CASE req[q].at \in {"choose", "summarize"} /\ "removal" \notin req'[q].missed
        <4>1. "removal" \notin what /\ "removal" \notin req[q].missed
          BY <1>2, <2>1, <3>2 DEF HasRead
        <4>2. req[q].known \subseteq Ids(new)
          BY <3>1, <3>2, <4>1 DEF Compacts
        <4>3. ASSUME NEW m \in ToSet(new), m.id \in req[q].known
              PROVE  m.covers \subseteq req[q].covered
          <5>1. m.id \in Ids(log)
            BY <3>1, <3>2, <4>1, <4>3 DEF Compacts
          <5>2. PICK n \in ToSet(log) : n.id = m.id
            BY <5>1, IdsOfSet
          <5>3. m.covers = n.covers
            BY <5>2 DEF Agree
          <5>4. n.covers \subseteq req[q].covered
            BY <3>1, <3>2, <4>1, <4>3, <5>2 DEF Compacts
          <5> QED
            BY <5>3, <5>4
        <4>4. ASSUME req[q].at = "summarize", backend = "db", NEW m \in ToSet(req[q].msgs)
              PROVE  \E n \in ToSet(new) : n.id = m.id /\ n.ts = m.ts
          <5>1. PICK n \in ToSet(log) : n.id = m.id /\ n.ts = m.ts
            BY <3>1, <4>1, <4>4 DEF Compacts
          <5>2. PICK o \in ToSet(new) : o.id = n.id /\ o.ts = n.ts
            BY <4>1, <4>4
          <5> QED
            BY <5>1, <5>2
        <4> QED
          BY <1>1, <1>2, <2>1, <3>1, <3>2, <4>2, <4>3, <4>4 DEF Compacts
      <3>3. CASE req[q].at \in {"choose", "summarize"} /\ "removal" \in req'[q].missed
        BY <1>2, <2>1, <3>1, <3>3 DEF Compacts
      <3>4. CASE req[q].at \notin {"choose", "summarize"}
        BY <1>2, <2>1, <3>1, <3>4 DEF Compacts
      <3> QED
        BY <3>2, <3>3, <3>4
    <2> QED
      BY <1>1, <1>3, <2>1, QuietFacts
  <1>7. ASSUME NEW q \in Procs, req'[q].at = "rename"
        PROVE  req[q].at = "rename" /\ req'[q].msgs = req[q].msgs
    BY <1>1, <1>2, <1>3, <1>7 DEF Quiet
  <1>8. SnapshotsOK'
    BY <1>1, <1>7 DEF RInv, SnapshotsOK
  <1> QED
    BY <1>4, <1>5, <1>6, <1>8 DEF RInv, WritesOK, CurrentOK, CompactsOK

\* A step that commits a new log is such a step.
LEMMA Commits ==
    ASSUME Typed, NEW p \in Procs, NEW r \in RequestType, NEW new \in ChatMessages,
           Commit(p, new, r), backend' = backend,
           r.at \in {"idle", "invalidate", "save"}, Writes(r)
    PROVE  /\ Moves(new, Difference(new))
           /\ req' \in [Procs -> RequestType]
           /\ req'[p] = r
           /\ \A q \in Procs : q # p => req'[q] = Missing(req[q], Difference(new))
  <1>1. Difference(new) \in SUBSET {"change", "removal"}
    BY DifferenceFacts
  <1>2. \A q \in Procs : Missing(req[q], Difference(new)) \in RequestType
    BY <1>1, MissingFacts DEF Typed
  <1>3. /\ log' = new
        /\ req' = [q \in Procs |-> IF q = p THEN r ELSE Missing(req[q], Difference(new))]
    BY DEF Commit
  <1>4. req' \in [Procs -> RequestType]
    BY <1>2, <1>3
  <1> QED
    BY <1>3, <1>4 DEF Moves

\* What a grown log keeps.
LEMMA GrownKeeps ==
    ASSUME Typed, SnapshotsOK, NEW new \in ChatMessages, Grown(log, new)
    PROVE  /\ Ids(log) \subseteq Ids(new)
           /\ Apart(new) /\ KnowsOwn(new) /\ Agree(new, log)
           /\ \A q \in Procs : req[q].at = "rename" => Agree(req[q].msgs, new)
           /\ \A n \in ToSet(log) : \E m \in ToSet(new) : m.id = n.id /\ m.ts = n.ts
  <1>1. Ids(log) \subseteq Ids(new)
    BY GrownIds
  <1>2. /\ ToSet(log) \subseteq ChatMessage
        /\ \A m, n \in ToSet(log) : m.id = n.id => m = n
        /\ ToSet(new) \subseteq ChatMessage
        /\ \A m, n \in ToSet(new) : m.id = n.id => m = n
    BY Elements DEF Typed
  <1>3. \A m \in ToSet(new) : \/ \E n \in ToSet(log) : Like(m, n)
                              \/ /\ ~m.summary /\ m.id \notin Ids(log)
                                 /\ m.covers = {} /\ m.knew = {}
    <2> TAKE m \in ToSet(new)
    <2>1. m \in ChatMessage
      BY <1>2
    <2> QED
      BY <2>1, MessageFields DEF Grown
  <1>4. \A m \in ToSet(log) : m.id \in Ids(log)
    BY IdsOfSet
  <1>5. Apart(new)
    <2> SUFFICES ASSUME NEW m \in ToSet(new), NEW n \in ToSet(new),
                        m.id # n.id, m.covers \cap n.covers # {}
                 PROVE  m.id \notin n.knew
      BY DEF Apart
    <2>1. PICK m0 \in ToSet(log) : Like(m, m0)
      BY <1>3
    <2>2. PICK n0 \in ToSet(log) : Like(n, n0)
      BY <1>3
    <2>3. Apart(log)
      BY DEF SnapshotsOK
    <2> QED
      BY <2>1, <2>2, <2>3 DEF Apart, Like
  <1>6. KnowsOwn(new)
    <2> SUFFICES ASSUME NEW m \in ToSet(new) PROVE m.knew \subseteq Ids(new)
      BY DEF KnowsOwn
    <2>1. CASE m.knew = {}
      BY <2>1
    <2>2. CASE \E n \in ToSet(log) : Like(m, n)
      <3>1. KnowsOwn(log)
        BY DEF SnapshotsOK
      <3> QED
        BY <1>1, <2>2, <3>1 DEF KnowsOwn, Like
    <2> QED
      BY <1>3, <2>1, <2>2
  <1>7. ASSUME NEW s \in ChatMessages, Agree(s, log)
        PROVE  Agree(s, new)
    <2> SUFFICES ASSUME NEW m \in ToSet(s), NEW n \in ToSet(new), m.id = n.id
                 PROVE  m.covers = n.covers /\ m.knew = n.knew
      BY DEF Agree
    <2>1. CASE \E n0 \in ToSet(log) : Like(n, n0)
      BY <1>7, <2>1 DEF Agree, Like
    <2>2. CASE ~n.summary /\ n.covers = {} /\ n.knew = {}
      <3>1. m \in ChatMessage /\ n \in ChatMessage
        BY <1>2, Elements
      <3>2. ~m.summary
        BY <2>2, <3>1, MessageFields
      <3> QED
        BY <2>2, <3>1, <3>2, MessageFields
    <2> QED
      BY <1>3, <2>1, <2>2
  <1>8. Agree(new, log)
    <2>1. Agree(log, log)
      BY <1>2 DEF Agree
    <2>2. Agree(log, new)
      BY <1>7, <2>1 DEF Typed
    <2> QED
      BY <2>2 DEF Agree
  <1>9. \A q \in Procs : req[q].at = "rename" => Agree(req[q].msgs, new)
    <2> SUFFICES ASSUME NEW q \in Procs, req[q].at = "rename"
                 PROVE  Agree(req[q].msgs, new)
      OBVIOUS
    <2>1. req[q].msgs \in ChatMessages
      BY RequestFields DEF Typed
    <2>2. Agree(req[q].msgs, log)
      BY DEF SnapshotsOK
    <2> QED
      BY <1>7, <2>1, <2>2
  <1>10. \A n \in ToSet(log) : \E m \in ToSet(new) : m.id = n.id /\ m.ts = n.ts
    BY DEF Grown, Like
  <1> QED
    BY <1>1, <1>5, <1>6, <1>8, <1>9, <1>10

LEMMA GrownMoves ==
    ASSUME Typed, RInv, NEW new \in ChatMessages, Grown(log, new),
           Moves(new, Difference(new)), exists => exists'
    PROVE  RInv'
  <1>1. /\ Ids(log) \subseteq Ids(new)
        /\ Apart(new) /\ KnowsOwn(new) /\ Agree(new, log)
        /\ \A q \in Procs : req[q].at = "rename" => Agree(req[q].msgs, new)
        /\ \A n \in ToSet(log) : \E m \in ToSet(new) : m.id = n.id /\ m.ts = n.ts
    BY GrownKeeps DEF RInv
  <1>2. /\ Difference(new) \in SUBSET {"change", "removal"}
        /\ "change" \notin Difference(new) => new = log
    BY DifferenceFacts
  <1> DEFINE what == Difference(new)
  <1> HIDE DEF what
  <1>3. Moves(new, what) /\ what \in SUBSET {"change", "removal"}
        /\ ("change" \notin what => new = log)
    BY <1>2 DEF what
  <1> QED
    BY <1>1, <1>3, MovesKeep

\* A log of messages of the browser in the place of another.
LEMMA OriginalsMove ==
    ASSUME Typed, RInv, NEW new \in ChatMessages, \A m \in ToSet(new) : ~m.summary,
           NEW what \in SUBSET {"change", "removal"}, Moves(new, what),
           "change" \notin what => new = log /\ (exists => exists'),
           "removal" \notin what => Ids(log) \subseteq Ids(new),
           backend = "db" => log = <<>> \/ "removal" \in what
    PROVE  RInv'
  <1>1. /\ Apart(new)
        /\ KnowsOwn(new)
        /\ \A t \in ChatMessages : Agree(new, t)
    BY OriginalsAlone
  <1>2. Agree(new, log)
    BY <1>1 DEF Typed
  <1>3. ASSUME NEW q \in Procs PROVE Agree(req[q].msgs, new)
    <2>1. req[q].msgs \in ChatMessages
      BY RequestFields DEF Typed
    <2> QED
      BY <1>1, <2>1 DEF Agree
  <1>4. backend = "db" /\ "removal" \notin what =>
               \A n \in ToSet(log) : \E m \in ToSet(new) : m.id = n.id /\ m.ts = n.ts
    BY EmptyFacts
  <1> QED
    BY <1>1, <1>2, <1>3, <1>4, MovesKeep

\* The summary a compaction is about to save.
LEMMA SummaryFacts ==
    ASSUME Typed, RInv, NEW p \in Procs, req[p].at = "summarize", Unused # {}
    PROVE  LET s == Summary(req[p])
           IN /\ s \in ChatMessage
              /\ s.id \in Unused
              /\ s.covers = Ids(req[p].msgs)
              /\ \A m \in ToSet(req[p].msgs) : s.ts <= m.ts
              /\ s.knew = IF "removal" \in req[p].missed THEN {} ELSE req[p].known
  <1> DEFINE r == req[p]
             n == Len(r.msgs)
             f == [i \in 1..n |-> r.msgs[i].ts]
             T == {r.msgs[i].ts : i \in DOMAIN r.msgs}
             s == Summary(r)
  <1>1. r \in RequestType
    BY DEF Typed
  <1>2. r.msgs \in ChatMessages /\ r.known \subseteq SummaryIds
    BY <1>1, RequestFields
  <1>3. r.msgs \in Seq(ChatMessage) /\ ToSet(r.msgs) \subseteq ChatMessage
    BY <1>2, Elements
  <1>4. Compacts(backend, log, r)
    BY DEF RInv, CompactsOK
  <1>5. n >= 2 /\ \A m \in ToSet(r.msgs) : ~m.summary
    BY <1>4 DEF Compacts
  <1> HIDE DEF r
  <1>6. n \in Nat \ {0} /\ DOMAIN r.msgs = 1..n
    BY <1>3, <1>5
  <1>7. \A i \in 1..n : r.msgs[i] \in ChatMessage /\ r.msgs[i].ts \in Int
    <2> TAKE i \in 1..n
    <2>1. r.msgs[i] \in ChatMessage
      BY <1>3, <1>6
    <2> QED
      BY <2>1, MessageFields
  <1>8. f \in [1..n -> Int]
    BY <1>7
  <1>9. T = {f[i] : i \in 1..n}
    BY <1>6
  <1> HIDE DEF n
  <1>10. Min(T) \in T /\ \A i \in 1..n : Min(T) <= f[i]
    <2> HIDE DEF f, T
    <2> QED
      BY <1>6, <1>8, <1>9, LeastExists
  <1>11. Min(T) \in Int
    <2> HIDE DEF f
    <2> QED
      BY <1>8, <1>9, <1>10
  <1>12. \A m \in ToSet(r.msgs) : Min(T) <= m.ts
    BY <1>6, <1>10 DEF ToSet
  <1>13. Ids(r.msgs) \subseteq Originals
    <2>1. \A m \in ToSet(r.msgs) : m.id \in Originals
      <3> TAKE m \in ToSet(r.msgs)
      <3>1. m \in ChatMessage /\ ~m.summary
        BY <1>3, <1>5
      <3> QED
        BY <3>1, MessageFields
    <2> QED
      BY <2>1, IdsOfSet
  <1> HIDE DEF T
  <1>14. s = [id |-> CHOOSE x \in Unused : TRUE, ts |-> Min(T), tok |-> SummaryTokens,
              pinned |-> FALSE, summary |-> TRUE, error |-> FALSE, covers |-> Ids(r.msgs),
              knew |-> IF "removal" \in r.missed THEN {} ELSE r.known]
    BY DEF Summary, T
  <1>15. (CHOOSE x \in Unused : TRUE) \in Unused /\ Unused \subseteq SummaryIds
    BY DEF Unused
  <1> DEFINE x == CHOOSE x \in Unused : TRUE
             k == IF "removal" \in r.missed THEN {} ELSE r.known
  <1>16. x \in SummaryIds /\ k \in SUBSET SummaryIds /\ SummaryTokens \in Nat
    BY <1>2, <1>15, ConversationAssumption
  <1> HIDE DEF x, k
  <1>17. s = [id |-> x, ts |-> Min(T), tok |-> SummaryTokens,
              pinned |-> FALSE, summary |-> TRUE, error |-> FALSE, covers |-> Ids(r.msgs),
              knew |-> k]
    BY <1>14 DEF x, k
  <1> HIDE DEF s
  <1>18. /\ s.id = x /\ s.ts = Min(T) /\ s.summary = TRUE /\ s.covers = Ids(r.msgs) /\ s.knew = k
    BY <1>17
  <1>19. s \in ChatMessage
    <2>1. s \in [id : Originals \cup SummaryIds, ts : Int, tok : Nat, pinned : BOOLEAN,
            summary : BOOLEAN, error : BOOLEAN,
            covers : SUBSET Originals, knew : SUBSET SummaryIds]
      BY <1>11, <1>13, <1>16, <1>17
    <2> QED
      BY <1>16, <1>18, <2>1 DEF ChatMessage
  <1>20. s.id \in Unused
    BY <1>15, <1>18 DEF x
  <1>21. \A m \in ToSet(r.msgs) : s.ts <= m.ts
    BY <1>12, <1>18
  <1>22. s.knew = IF "removal" \in r.missed THEN {} ELSE r.known
    BY <1>18 DEF k
  <1> QED
    BY <1>18, <1>19, <1>20, <1>21, <1>22 DEF s, r

\* Saving it keeps what the requests rely on.
LEMMA SummaryMoves ==
    ASSUME Typed, RInv, NEW p \in Procs, req[p].at = "summarize", Unused # {},
           NEW new, new = Append(log, Summary(req[p])),
           Moves(new, Difference(new)), exists => exists'
    PROVE  RInv' /\ new \in ChatMessages
  <1> DEFINE s == Summary(req[p])
             r == req[p]
  <1>1. /\ s \in ChatMessage
        /\ s.id \in Unused
        /\ s.covers = Ids(r.msgs)
        /\ s.knew = IF "removal" \in r.missed THEN {} ELSE r.known
    BY SummaryFacts
  <1>2. new = Append(log, s)
    OBVIOUS
  <1> HIDE DEF s
  <1>3. s.id \notin Ids(log) /\ \A q \in Procs : s.id \notin Ids(req[q].msgs)
    BY <1>1 DEF Unused
  <1>4. log \in ChatMessages
    BY DEF Typed
  <1>5. /\ new \in ChatMessages
        /\ ToSet(new) = ToSet(log) \cup {s}
        /\ Ids(new) = Ids(log) \cup {s.id}
    BY <1>1, <1>2, <1>3, <1>4, AppendFacts
  <1>6. Compacts(backend, log, r) /\ SnapshotsOK
    BY DEF RInv, CompactsOK
  <1>7. \A m \in ToSet(log) : m.id \in Ids(log) /\ m.id # s.id
    BY <1>3, IdsOfSet
  <1>8. KnowsOwn(new)
    <2>1. s.knew \subseteq Ids(log)
      BY <1>1, <1>6 DEF Compacts
    <2>2. KnowsOwn(log)
      BY <1>6 DEF SnapshotsOK
    <2> QED
      BY <1>5, <2>1, <2>2 DEF KnowsOwn
  <1>9. Apart(new)
    <2> SUFFICES ASSUME NEW m \in ToSet(new), NEW n \in ToSet(new),
                        m.id # n.id, m.covers \cap n.covers # {}
                 PROVE  m.id \notin n.knew
      BY DEF Apart
    <2>1. CASE m \in ToSet(log) /\ n \in ToSet(log)
      BY <1>6, <2>1 DEF SnapshotsOK, Apart
    <2>2. CASE m = s /\ n \in ToSet(log)
      <3>1. n.knew \subseteq Ids(log)
        BY <1>6, <2>2 DEF SnapshotsOK, KnowsOwn
      <3> QED
        BY <1>3, <2>2, <3>1
    <2>3. CASE m \in ToSet(log) /\ n = s
      <3> SUFFICES ASSUME m.id \in s.knew PROVE FALSE
        BY <2>3
      <3>1. "removal" \notin r.missed /\ m.id \in r.known
        BY <1>1
      <3>2. m.covers \subseteq r.covered
        BY <1>6, <2>3, <3>1 DEF Compacts
      <3>3. \A x \in Ids(r.msgs) : x \notin r.covered
        <4>1. \A o \in ToSet(r.msgs) : o.id \notin r.covered
          BY <1>6 DEF Compacts
        <4> QED
          BY <4>1, IdsOfSet
      <3> QED
        BY <1>1, <2>3, <3>2, <3>3
    <2>4. CASE m = s /\ n = s
      BY <2>4
    <2> QED
      BY <1>5, <2>1, <2>2, <2>3, <2>4
  <1>10. \A m, n \in ToSet(log) : m.id = n.id => m = n
    BY <1>4, Elements
  <1>11. Agree(new, log)
    BY <1>5, <1>7, <1>10 DEF Agree
  <1>12. ASSUME NEW q \in Procs, req[q].at = "rename" PROVE Agree(req[q].msgs, new)
    <2>1. Agree(req[q].msgs, log)
      BY <1>6, <1>12 DEF SnapshotsOK
    <2>2. \A m \in ToSet(req[q].msgs) : m.id # s.id
      BY <1>3, IdsOfSet
    <2> QED
      BY <1>5, <2>1, <2>2 DEF Agree
  <1>13. \A n \in ToSet(log) : \E m \in ToSet(new) : m.id = n.id /\ m.ts = n.ts
    BY <1>5
  <1>14. /\ Difference(new) \in SUBSET {"change", "removal"}
         /\ "change" \notin Difference(new) => new = log
    BY DifferenceFacts
  <1> DEFINE what == Difference(new)
  <1> HIDE DEF what
  <1>15. /\ Moves(new, what) /\ what \in SUBSET {"change", "removal"}
         /\ "change" \notin what => new = log
    BY <1>14 DEF what
  <1>16. Ids(log) \subseteq Ids(new)
    BY <1>5
  <1>17. RInv'
    BY <1>5, <1>8, <1>9, <1>11, <1>12, <1>13, <1>15, <1>16, MovesKeep
  <1> QED
    BY <1>5, <1>17

\* The same messages, though a message may have been replaced under its
\* identifier.
Alike(new, s) ==
    /\ Ids(new) = Ids(s)
    /\ \A m \in ToSet(new) : \E n \in ToSet(s) :
          m.id = n.id /\ m.covers = n.covers /\ m.knew = n.knew
    /\ \A n \in ToSet(s) : \E m \in ToSet(new) :
          m.id = n.id /\ m.covers = n.covers /\ m.summary = n.summary

\* What the memory storage's own slice holds by the time it is written back.
LEMMA RefreshedFacts ==
    ASSUME Typed, NEW s \in ChatMessages, Agree(s, log)
    PROVE  Refreshed(s) \in ChatMessages /\ Alike(Refreshed(s), s)
  <1> DEFINE new == Refreshed(s)
             Now(m) == IF m.id \in Ids(log) THEN Message(log, m.id) ELSE m
  <1>1. s \in Seq(ChatMessage) /\ \A i, k \in DOMAIN s : s[i].id = s[k].id => i = k
    BY DEF ChatMessages, Unique, IsInjective
  <1>2. new = [i \in DOMAIN s |-> Now(s[i])]
    BY DEF Refreshed
  <1>3. \A m \in ToSet(s) : /\ Now(m) \in ChatMessage
                            /\ Now(m).id = m.id
                            /\ Now(m).covers = m.covers
                            /\ Now(m).knew = m.knew
                            /\ Now(m).summary = m.summary
    <2> TAKE m \in ToSet(s)
    <2>1. m \in ChatMessage
      BY Elements
    <2>2. CASE m.id \in Ids(log)
      <3>1. Now(m) = Message(log, m.id)
        BY <2>2
      <3>2. /\ Message(log, m.id) \in ToSet(log)
            /\ Message(log, m.id) \in ChatMessage
            /\ Message(log, m.id).id = m.id
        BY <2>2, MessageIs DEF Typed
      <3> HIDE DEF Now
      <3>3. Now(m) \in ChatMessage /\ Now(m).id = m.id
        BY <3>1, <3>2
      <3>4. Now(m).covers = m.covers /\ Now(m).knew = m.knew
        BY <3>1, <3>2 DEF Agree
      <3>5. Now(m).summary = m.summary
        <4>1. /\ m.summary \in BOOLEAN /\ (m.summary <=> m.id \in SummaryIds)
              /\ Now(m).summary \in BOOLEAN /\ (Now(m).summary <=> Now(m).id \in SummaryIds)
          BY <2>1, <3>3, MessageFields
        <4>2. Now(m).summary <=> m.summary
          BY <3>3, <4>1
        <4> QED
          BY <4>1, <4>2
      <3> QED
        BY <3>3, <3>4, <3>5
    <2>3. CASE m.id \notin Ids(log)
      BY <2>1, <2>3
    <2> QED
      BY <2>2, <2>3
  <1> HIDE DEF new, Now
  <1>4. \A i \in DOMAIN s : s[i] \in ToSet(s)
    BY DEF ToSet
  <1>5. DOMAIN s = 1..Len(s) /\ Len(s) \in Nat /\ \A i \in DOMAIN s : Now(s[i]) \in ChatMessage
    BY <1>1, <1>3, <1>4
  <1>6. new \in Seq(ChatMessage) /\ DOMAIN new = DOMAIN s /\ \A i \in DOMAIN s : new[i] = Now(s[i])
    BY <1>2, <1>5
  <1>7. \A i, k \in DOMAIN new : new[i].id = new[k].id => i = k
    BY <1>1, <1>3, <1>4, <1>6
  <1>8. new \in ChatMessages
    BY <1>6, <1>7 DEF ChatMessages, Unique, IsInjective
  <1>9. ToSet(new) = {Now(m) : m \in ToSet(s)}
    BY <1>6 DEF ToSet
  <1>10. Ids(new) = Ids(s)
    <2>1. {m.id : m \in ToSet(new)} = {m.id : m \in ToSet(s)}
      BY <1>3, <1>9
    <2> QED
      BY <2>1, IdsOfSet
  <1>11. Alike(new, s)
    BY <1>3, <1>9, <1>10 DEF Alike
  <1> QED
    BY <1>8, <1>11 DEF new

LEMMA AlikeSelf ==
    ASSUME NEW s
    PROVE  Alike(s, s)
  BY DEF Alike

\* Writing it back keeps what the requests rely on.
LEMMA AlikeMoves ==
    ASSUME Typed, RInv, backend # "db", NEW p \in Procs, req[p].at = "rename",
           NEW new \in ChatMessages, Alike(new, req[p].msgs),
           Moves(new, Difference(new)), exists => exists'
    PROVE  RInv'
  <1> DEFINE s == req[p].msgs
             what == Difference(new)
  <1>1. /\ Apart(s) /\ KnowsOwn(s) /\ Agree(s, log)
        /\ \A q \in Procs : req[q].at = "rename" => Agree(req[q].msgs, s)
    BY DEF RInv, SnapshotsOK
  <1> HIDE DEF s, what
  <1>2. Ids(new) = Ids(s) /\ \A m \in ToSet(new) : \E n \in ToSet(s) :
                                m.id = n.id /\ m.covers = n.covers /\ m.knew = n.knew
    BY DEF Alike, s
  <1>3. Apart(new)
    BY <1>1, <1>2 DEF Apart
  <1>4. KnowsOwn(new)
    BY <1>1, <1>2 DEF KnowsOwn
  <1>5. Agree(new, log)
    BY <1>1, <1>2 DEF Agree
  <1>6. \A q \in Procs : req[q].at = "rename" => Agree(req[q].msgs, new)
    BY <1>1, <1>2 DEF Agree
  <1>7. /\ what \in SUBSET {"change", "removal"}
        /\ "change" \notin what => new = log
        /\ "removal" \notin what => Ids(log) \subseteq Ids(new)
        /\ Moves(new, what)
    BY DifferenceFacts DEF what
  <1> QED
    BY <1>3, <1>4, <1>5, <1>6, <1>7, MovesKeep

-----------------------------------------------------------------------------
(***************************************************************************)
(* The initial states                                                      *)
(***************************************************************************)

LEMMA InitOK ==
    ASSUME Init
    PROVE  IInv
  <1>1. log \in Stored /\ kept = Ids(log) /\ cache = None /\ req = [p \in Procs |-> Idle]
    BY DEF Init
  <1>2. log \in ChatMessages /\ \A m \in ToSet(log) : ~m.summary
    BY <1>1, StoredFacts
  <1>3. /\ Apart(log) /\ KnowsOwn(log) /\ Ids(log) \subseteq Originals
    BY <1>2, OriginalsAlone
  <1>4. \A p \in Procs : req[p] = Idle
    BY <1>1
  <1>5. Idle \in RequestType /\ Idle.at = "idle"
    BY IdleFacts
  <1>6. TypeOK
    <2>1. req \in [Procs -> RequestType]
      BY <1>1, <1>5
    <2>2. ~exists => log = <<>>
      BY DEF Init
    <2>3. exists \in BOOLEAN
      <3>1. exists \in (IF log = <<>> THEN BOOLEAN ELSE {TRUE})
        BY DEF Init
      <3>2. CASE log = <<>>
        BY <3>1, <3>2
      <3>3. CASE log # <<>>
        BY <3>1, <3>3
      <3> QED
        BY <3>2, <3>3
    <2>4. left \in 0..MaxRequests
      BY ConversationAssumption DEF Init
    <2>5. backend \in {"db", "memory"} /\ lapsed \in BOOLEAN /\ rewritten \in BOOLEAN
          /\ astray \subseteq SummaryIds
      BY DEF Init
    <2> QED
      BY <1>1, <1>2, <1>3, <2>1, <2>2, <2>3, <2>4, <2>5 DEF TypeOK
  <1>7. WritesOK /\ CurrentOK /\ CompactsOK /\ SnapshotsOK
    <2>1. \A p \in Procs : req[p].at \in Quiet /\ req[p].at = "idle"
      BY <1>4, <1>5 DEF Quiet
    <2>2. WritesOK
      BY <2>1 DEF WritesOK, Writes
    <2>3. CurrentOK /\ CompactsOK
      BY <2>1, QuietFacts DEF CurrentOK, CompactsOK
    <2>4. SnapshotsOK
      BY <1>3, <2>1 DEF SnapshotsOK
    <2> QED
      BY <2>2, <2>3, <2>4
  <1>8. StaleIsExplained
    BY <1>1 DEF StaleIsExplained
  <1>9. SavedIsKept
    BY <1>1 DEF SavedIsKept
  <1>10. SummariesStandForMessages
    <2>1. \A i \in DOMAIN log : log[i] \in ToSet(log)
      BY DEF ToSet
    <2> QED
      BY <1>2, <2>1 DEF SummariesStandForMessages
  <1> QED
    BY <1>6, <1>7, <1>8, <1>9, <1>10 DEF IInv

-----------------------------------------------------------------------------
(***************************************************************************)
(* Steps that leave the log alone                                          *)
(***************************************************************************)

LEMMA IInvParts ==
    IInv => TypeOK /\ RInv /\ Typed /\ StaleIsExplained /\ SavedIsKept
              /\ SummariesStandForMessages
  BY DEF IInv, RInv, Typed, TypeOK

LEMMA ContinueTypes ==
    ASSUME TypeOK, NEW p \in Procs, NEW r \in RequestType, Continue(p, r),
           cache' \in {None} \cup [page : ChatMessages, limit : Nat],
           left' \in 0..MaxRequests, lapsed' \in BOOLEAN,
           kept' = kept, rewritten' = rewritten, astray' = astray
    PROVE  TypeOK'
  <1>1. Typed
    BY DEF TypeOK, Typed
  <1>2. /\ backend' = backend /\ exists' = exists /\ log' = log
        /\ req' \in [Procs -> RequestType]
    BY <1>1, Continues
  <1> QED
    BY <1>2 DEF TypeOK

LEMMA ContinueRecords ==
    ASSUME TypeOK, SavedIsKept, SummariesStandForMessages, backend' = backend, log' = log,
           kept' = kept, rewritten' = rewritten, astray' = astray
    PROVE  SavedIsKept' /\ SummariesStandForMessages'
  <1>1. SavedIsKept'
    BY DEF SavedIsKept
  <1>2. SummariesStandForMessages'
    BY DEF SummariesStandForMessages
  <1> QED
    BY <1>1, <1>2

\* A request that is going to remove the cached page.
Removes(r) == r.at = "invalidate" \/ (r.at = "save" /\ r.kind # "create")

LEMMA ContinueExplains ==
    ASSUME TypeOK, StaleIsExplained, NEW p \in Procs, NEW r \in RequestType, Continue(p, r),
           cache' = cache, lapsed' = lapsed, Removes(req[p]) => Removes(r)
    PROVE  StaleIsExplained'
  <1>1. Typed
    BY DEF TypeOK, Typed
  <1>2. /\ backend' = backend /\ exists' = exists /\ log' = log
        /\ req'[p] = r /\ \A q \in Procs : q # p => req'[q] = req[q]
    BY <1>1, Continues
  <1>3. SUFFICES ASSUME cache # None
                 PROVE  \/ exists' /\ (cache.page = FirstPage(cache.limit))'
                        \/ lapsed'
                        \/ \E q \in Procs : \/ req'[q].at = "invalidate"
                                            \/ req'[q].at = "save" /\ req'[q].kind # "create"
    BY DEF StaleIsExplained
  <1>4. CASE exists /\ cache.page = FirstPage(cache.limit)
    <2>1. (cache.page = FirstPage(cache.limit))'
      BY <1>2, <1>4 DEF FirstPage
    <2> QED
      BY <1>2, <1>4, <2>1
  <1>5. CASE lapsed
    BY <1>5
  <1>6. CASE \E q \in Procs : \/ req[q].at = "invalidate"
                              \/ req[q].at = "save" /\ req[q].kind # "create"
    <2>1. PICK q \in Procs : Removes(req[q])
      BY <1>6 DEF Removes
    <2>2. Removes(req'[q])
      BY <1>2, <2>1
    <2> QED
      BY <2>2 DEF Removes
  <1> QED
    BY <1>3, <1>4, <1>5, <1>6 DEF StaleIsExplained

\* A request goes on, and nothing else changes.
LEMMA ContinuesAlone ==
    ASSUME IInv, NEW p \in Procs, NEW r \in RequestType, Continue(p, r),
           Writes(r), Current(backend, exists, log, r), Compacts(backend, log, r),
           r.at = "rename" => ToSet(r.msgs) \subseteq ToSet(log) /\ KnowsOwn(r.msgs),
           UNCHANGED <<cache, history>>, left' \in 0..MaxRequests,
           Removes(req[p]) => Removes(r)
    PROVE  IInv'
  <1>1. TypeOK /\ RInv /\ Typed /\ StaleIsExplained /\ SavedIsKept
           /\ SummariesStandForMessages
    BY IInvParts
  <1>2. /\ cache' = cache /\ lapsed' = lapsed /\ kept' = kept
        /\ rewritten' = rewritten /\ astray' = astray
    BY DEF history
  <1>3. backend' = backend /\ log' = log
    BY <1>1, Continues
  <1>4. TypeOK'
    BY <1>1, <1>2, ContinueTypes DEF TypeOK
  <1>5. RInv'
    BY <1>1, ContinueKeeps
  <1>6. StaleIsExplained'
    BY <1>1, <1>2, ContinueExplains
  <1>7. SavedIsKept' /\ SummariesStandForMessages'
    BY <1>1, <1>2, <1>3, ContinueRecords
  <1> QED
    BY <1>4, <1>5, <1>6, <1>7 DEF IInv, RInv

LEMMA ContinuesQuietly ==
    ASSUME IInv, NEW p \in Procs, NEW r \in RequestType, Continue(p, r),
           Writes(r), Current(backend, exists, log, r), Compacts(backend, log, r),
           r.at = "rename" => ToSet(r.msgs) \subseteq ToSet(log) /\ KnowsOwn(r.msgs),
           UNCHANGED <<cache, history>>, left' \in 0..MaxRequests,
           req[p].at \notin {"invalidate", "save"}
    PROVE  IInv'
  <1>1. ~Removes(req[p])
    BY DEF Removes
  <1> QED
    BY <1>1, ContinuesAlone

LEMMA ArrivesFacts ==
    ASSUME TypeOK, NEW p \in Procs, Arrives(p)
    PROVE  req[p].at = "idle" /\ left' \in 0..MaxRequests
  <1>1. req[p].at = "idle" /\ left \in 0..MaxRequests /\ left > 0 /\ left' = left - 1
    BY DEF Arrives, TypeOK
  <1>2. MaxRequests \in Nat
    BY ConversationAssumption
  <1> QED
    BY <1>1, <1>2

\* A request arrives, and nothing else changes.
LEMMA ArrivesQuietly ==
    ASSUME IInv, NEW p \in Procs, NEW r \in RequestType, Arrives(p), Continue(p, r),
           Writes(r), Current(backend, exists, log, r), Compacts(backend, log, r),
           r.at = "rename" => ToSet(r.msgs) \subseteq ToSet(log) /\ KnowsOwn(r.msgs),
           UNCHANGED <<cache, history>>
    PROVE  IInv'
  <1>1. req[p].at = "idle" /\ left' \in 0..MaxRequests
    BY ArrivesFacts, IInvParts
  <1> QED
    BY <1>1, ContinuesQuietly

\* The first page is a part of the log.
LEMMA FirstPageType ==
    ASSUME NEW s \in ChatMessages, NEW b, NEW limit \in Nat
    PROVE  /\ FromStorage(b, s, None, limit).messages \in ChatMessages
           /\ GetSessionMessages(b, s, None, limit) = FromStorage(b, s, None, limit).messages
  <1>1. s \in Seq(ChatMessage) /\ \A m \in ChatMessage : m.ts \in Int
    BY Elements, MessageFields
  <1> DEFINE all == Sorted(b, "newest", s)
             c == IF limit > Cap THEN Cap ELSE limit
             page == Take(all, c)
  <1>2. all \in Seq(ChatMessage) /\ Picks(all, s)
    BY <1>1, SortedFacts
  <1>3. c \in Nat
    BY CapAssumption
  <1>4. FromStorage(b, s, None, limit).messages = page
    BY <1>1, FirstPageOfHandler
  <1>5. GetSessionMessages(b, s, None, limit) = page
    BY FirstPageOfStorage
  <1> HIDE DEF all, c
  <1>6. page \in Seq(ChatMessage) /\ Picks(page, all)
    BY <1>2, <1>3, TakeFacts
  <1> HIDE DEF page
  <1>7. page \in ChatMessages
    BY <1>2, <1>6, PicksTransitive, PicksMessages
  <1> QED
    BY <1>4, <1>5, <1>7

LEMMA ReadPageKeeps ==
    ASSUME IInv, NEW p \in Procs, NEW limit \in Limits, ReadPage(p, limit)
    PROVE  IInv'
  <1> DEFINE s == FromStorage(backend, log, None, limit).messages
             g == Goto(Idle, "cache")
             r == [g EXCEPT !.limit = limit, !.msgs = s]
  <1>1. limit \in Nat /\ log \in ChatMessages
    BY ConversationAssumption, IInvParts DEF Typed
  <1>2. s \in ChatMessages
    BY <1>1, FirstPageType
  <1>3. g \in RequestType /\ g.at = "cache" /\ g.missed = {}
    BY IdleFacts, GotoFacts DEF Labels
  <1>4. Arrives(p) /\ exists /\ Continue(p, r) /\ UNCHANGED <<cache, history>>
    BY DEF ReadPage
  <1> HIDE DEF g
  <1>5. r \in RequestType /\ r.at = "cache" /\ r.msgs = s /\ r.limit = limit /\ r.missed = {}
    <2> HIDE DEF s
    <2> QED
      BY <1>1, <1>2, <1>3 DEF RequestType
  <1> HIDE DEF r
  <1>6. Writes(r) /\ Compacts(backend, log, r) /\ r.at # "rename"
    BY <1>5 DEF Writes, Compacts
  <1>7. Current(backend, exists, log, r)
    BY <1>4, <1>5 DEF Current
  <1> QED
    BY <1>4, <1>5, <1>6, <1>7, ArrivesQuietly

LEMMA PreloadKeeps ==
    ASSUME IInv, NEW p \in Procs, Preload(p)
    PROVE  IInv'
  <1> DEFINE s == GetSessionMessages(backend, log, None, PreloadLimit)
             g == Goto(Idle, "cache")
             r == [g EXCEPT !.limit = PreloadLimit, !.msgs = s]
  <1>1. PreloadLimit \in Nat /\ log \in ChatMessages /\ (~exists => log = <<>>)
    BY ConversationAssumption, IInvParts DEF TypeOK
  <1>2. s \in ChatMessages /\ s = FromStorage(backend, log, None, PreloadLimit).messages
    BY <1>1, FirstPageType
  <1>3. g \in RequestType /\ g.at = "cache" /\ g.missed = {}
    BY IdleFacts, GotoFacts DEF Labels
  <1>4. Arrives(p) /\ exists /\ Continue(p, r) /\ UNCHANGED <<cache, history>>
    BY <1>1 DEF Preload
  <1> HIDE DEF g
  <1>5. r \in RequestType /\ r.at = "cache" /\ r.msgs = s /\ r.limit = PreloadLimit /\ r.missed = {}
    <2> HIDE DEF s
    <2> QED
      BY <1>1, <1>2, <1>3 DEF RequestType
  <1> HIDE DEF r
  <1>6. Writes(r) /\ Compacts(backend, log, r) /\ r.at # "rename"
    BY <1>5 DEF Writes, Compacts
  <1>7. Current(backend, exists, log, r)
    BY <1>2, <1>4, <1>5 DEF Current
  <1> QED
    BY <1>4, <1>5, <1>6, <1>7, ArrivesQuietly

LEMMA BringKeeps ==
    ASSUME IInv, NEW p \in Procs, NEW label \in {"create", "update"}, NEW kind \in Kinds,
           NEW s \in Payloads, Bring(p, label, kind, s),
           label = "create" => kind # "put", label = "update" => kind # "create"
    PROVE  IInv'
  <1> DEFINE g == Goto(Idle, label)
             r == [g EXCEPT !.kind = kind, !.msgs = s]
  <1>1. s \in ChatMessages /\ \A m \in ToSet(s) : ~m.summary
    BY PayloadFacts
  <1>2. g \in RequestType /\ g.at = label /\ g.missed = {}
    BY IdleFacts, GotoFacts DEF Labels
  <1>3. Arrives(p) /\ Continue(p, r) /\ UNCHANGED <<cache, history>>
    BY DEF Bring
  <1> HIDE DEF g
  <1>4. r \in RequestType /\ r.at = label /\ r.msgs = s /\ r.kind = kind
    BY <1>1, <1>2 DEF RequestType
  <1> HIDE DEF r
  <1>5. r.at \in Quiet
    BY <1>4 DEF Quiet
  <1>6. Writes(r)
    BY <1>1, <1>4 DEF Writes, Kinds
  <1> QED
    BY <1>3, <1>4, <1>5, <1>6, QuietFacts, ArrivesQuietly

LEMMA RenameSessionKeeps ==
    ASSUME IInv, NEW p \in Procs, RenameSession(p)
    PROVE  IInv'
  <1> DEFINE s == FilterCompacted(log)
             c == BuildSummarizedIDSet(log)
             g == Goto(Idle, "rename")
             r == [g EXCEPT !.msgs = s, !.covered = c]
  <1>1. log \in ChatMessages /\ KnowsOwn(log)
    BY IInvParts DEF TypeOK, IInv, SnapshotsOK
  <1>2. log \in Seq(ChatMessage) /\ ToSet(log) \subseteq ChatMessage
    BY <1>1, Elements
  <1>3. /\ s \in Seq(ChatMessage)
        /\ Picks(s, log)
        /\ ToSet(s) = {m \in ToSet(log) : m.id \notin c}
    BY <1>2, FilterCompactedFacts
  <1>4. s \in ChatMessages
    BY <1>1, <1>3, PicksMessages
  <1>5. c \subseteq Originals
    <2>1. c = UNION {m.covers : m \in {n \in ToSet(log) : n.summary}}
      BY CoveredIs
    <2>2. \A m \in ToSet(log) : m.covers \subseteq Originals
      BY <1>2, MessageFields
    <2> QED
      BY <2>1, <2>2
  <1>6. g \in RequestType /\ g.at = "rename" /\ g.missed = {}
    BY IdleFacts, GotoFacts DEF Labels
  <1>7. Arrives(p) /\ Continue(p, r) /\ UNCHANGED <<cache, history>>
    BY DEF RenameSession
  <1>8. KnowsOwn(s)
    <2> SUFFICES ASSUME NEW m \in ToSet(s), NEW x \in m.knew PROVE x \in Ids(s)
      BY DEF KnowsOwn
    <2>1. m \in ToSet(log) /\ m \in ChatMessage
      BY <1>2, <1>3
    <2>2. x \in SummaryIds /\ x \in Ids(log)
      BY <1>1, <2>1, MessageFields DEF KnowsOwn
    <2>3. PICK n \in ToSet(log) : n.id = x
      BY <2>2, IdsOfSet
    <2>4. x \notin c
      BY <1>5, <2>2, ConversationAssumption
    <2>5. n \in ToSet(s)
      BY <1>3, <2>3, <2>4
    <2> QED
      BY <2>3, <2>5, IdsOfSet
  <1> HIDE DEF g, s, c
  <1>9. r \in RequestType /\ r.at = "rename" /\ r.msgs = s /\ r.covered = c
    BY <1>4, <1>5, <1>6 DEF RequestType
  <1> HIDE DEF r
  <1>10. Writes(r) /\ Compacts(backend, log, r)
    BY <1>9 DEF Writes, Compacts
  <1>11. Current(backend, exists, log, r)
    BY <1>9 DEF Current, s, c
  <1>12. ToSet(r.msgs) \subseteq ToSet(log) /\ KnowsOwn(r.msgs)
    BY <1>3, <1>8, <1>9
  <1> QED
    BY <1>7, <1>9, <1>10, <1>11, <1>12, ArrivesQuietly

\* A compaction begins.
LEMMA BeginsToCompact ==
    ASSUME NEW n \in Nat \ {0}, NEW b, NEW ex, NEW lg
    PROVE  LET r == [Goto(Idle, "compact") EXCEPT !.passes = n]
           IN /\ r \in RequestType /\ r.at = "compact"
              /\ Writes(r) /\ Current(b, ex, lg, r) /\ Compacts(b, lg, r)
  <1> DEFINE g == Goto(Idle, "compact")
             r == [g EXCEPT !.passes = n]
  <1>1. g \in RequestType /\ g.at = "compact"
    BY IdleFacts, GotoFacts DEF Labels
  <1> HIDE DEF g
  <1>2. r \in RequestType /\ r.at = "compact" /\ r.passes = n
    BY <1>1, WithPasses
  <1> HIDE DEF r
  <1>3. Writes(r) /\ Current(b, ex, lg, r) /\ Compacts(b, lg, r)
    BY <1>2 DEF Writes, Current, Compacts
  <1> QED
    BY <1>2, <1>3 DEF r, g

LEMMA CompactionArrives ==
    ASSUME IInv, NEW p \in Procs, CompactSession(p) \/ ReadTokenStats(p)
    PROVE  IInv'
  <1>1. PICK n \in Nat \ {0} : /\ Arrives(p)
                               /\ Continue(p, [Goto(Idle, "compact") EXCEPT !.passes = n])
                               /\ UNCHANGED <<cache, history>>
    <2>1. CASE CompactSession(p)
      <3>1. 1 \in Nat \ {0}
        OBVIOUS
      <3> QED
        BY <2>1, <3>1 DEF CompactSession
    <2>2. CASE ReadTokenStats(p)
      <3>1. MaxPasses \in Nat \ {0}
        BY ConversationAssumption
      <3> QED
        BY <2>2, <3>1 DEF ReadTokenStats
    <2> QED
      BY <2>1, <2>2
  <1> DEFINE r == [Goto(Idle, "compact") EXCEPT !.passes = n]
  <1>2. /\ r \in RequestType /\ r.at = "compact"
        /\ Writes(r) /\ Current(backend, exists, log, r) /\ Compacts(backend, log, r)
    BY BeginsToCompact
  <1>3. Continue(p, r)
    BY <1>1
  <1> HIDE DEF r
  <1> QED
    BY <1>1, <1>2, <1>3, ArrivesQuietly

LEMMA IdleIsQuiet ==
    /\ Idle \in RequestType /\ Idle.at \in Quiet /\ Writes(Idle)
    /\ Goto(Idle, "invalidate") \in RequestType
    /\ Goto(Idle, "invalidate").at = "invalidate"
    /\ Goto(Idle, "invalidate").at \in Quiet
    /\ Writes(Goto(Idle, "invalidate"))
  <1>1. Idle \in RequestType /\ Idle.at = "idle" /\ "invalidate" \in Labels
    BY IdleFacts DEF Labels
  <1>2. Goto(Idle, "invalidate") \in RequestType /\ Goto(Idle, "invalidate").at = "invalidate"
    BY <1>1, GotoFacts
  <1> QED
    BY <1>1, <1>2 DEF Quiet, Writes

\* A request gives up.
LEMMA GivesUp ==
    ASSUME IInv, NEW p \in Procs, Continue(p, Idle), UNCHANGED <<cache, left, history>>,
           req[p].at \notin {"invalidate", "save"}
    PROVE  IInv'
  <1>1. left' \in 0..MaxRequests
    BY IInvParts DEF TypeOK
  <1> QED
    BY <1>1, IdleIsQuiet, QuietFacts, ContinuesQuietly

LEMMA DropPageKeeps ==
    ASSUME IInv, NEW p \in Procs, DropPage(p)
    PROVE  IInv'
  <1>1. Continue(p, Idle) /\ UNCHANGED <<cache, left, history>> /\ req[p].at = "cache"
    BY DEF DropPage
  <1> QED
    BY <1>1, GivesUp

LEMMA CompactionFailsKeeps ==
    ASSUME IInv, NEW p \in Procs, CompactionFails(p)
    PROVE  IInv'
  <1>1. /\ Continue(p, Idle) /\ UNCHANGED <<cache, left, history>>
        /\ req[p].at \in {"compact", "choose", "summarize"}
    BY DEF CompactionFails
  <1> QED
    BY <1>1, GivesUp

LEMMA CachePageKeeps ==
    ASSUME IInv, NEW p \in Procs, CachePage(p)
    PROVE  IInv'
  <1> DEFINE r == req[p]
             c == [page |-> r.msgs, limit |-> r.limit]
  <1>1. TypeOK /\ RInv /\ Typed /\ SavedIsKept /\ SummariesStandForMessages
    BY IInvParts
  <1>2. /\ r.at = "cache" /\ cache' = c /\ lapsed' = ("change" \in r.missed)
        /\ Continue(p, Idle) /\ left' = left /\ kept' = kept
        /\ rewritten' = rewritten /\ astray' = astray
    BY DEF CachePage
  <1>3. r \in RequestType
    BY <1>1 DEF Typed
  <1>4. r.msgs \in ChatMessages /\ r.limit \in Nat
    BY <1>3, RequestFields
  <1>5. backend' = backend /\ exists' = exists /\ log' = log
    BY <1>1, <1>2, IdleIsQuiet, Continues
  <1>6. TypeOK'
    <2>1. cache' \in {None} \cup [page : ChatMessages, limit : Nat]
      BY <1>2, <1>4
    <2>2. left' \in 0..MaxRequests /\ lapsed' \in BOOLEAN
      BY <1>1, <1>2 DEF TypeOK
    <2> QED
      BY <1>1, <1>2, <2>1, <2>2, IdleIsQuiet, ContinueTypes
  <1>7. RInv'
    BY <1>1, <1>2, IdleIsQuiet, QuietKeeps
  <1>8. SavedIsKept' /\ SummariesStandForMessages'
    BY <1>1, <1>2, <1>5, ContinueRecords
  <1>9. StaleIsExplained'
    <2>1. CASE "change" \in r.missed
      BY <1>2, <2>1 DEF StaleIsExplained
    <2>2. CASE "change" \notin r.missed
      <3>1. Current(backend, exists, log, r)
        BY <1>1 DEF RInv, CurrentOK
      <3>2. exists /\ r.msgs = FromStorage(backend, log, None, r.limit).messages
        BY <1>2, <2>2, <3>1 DEF Current
      <3>3. cache'.page = r.msgs /\ cache'.limit = r.limit
        BY <1>2
      <3>4. (cache.page = FirstPage(cache.limit))'
        BY <1>5, <3>2, <3>3 DEF FirstPage
      <3> QED
        BY <1>5, <3>2, <3>4 DEF StaleIsExplained
    <2> QED
      BY <2>1, <2>2
  <1> QED
    BY <1>6, <1>7, <1>8, <1>9 DEF IInv, RInv

LEMMA InvalidateKeeps ==
    ASSUME IInv, NEW p \in Procs, Invalidate(p)
    PROVE  IInv'
  <1> DEFINE again == [Goto(Idle, "compact") EXCEPT !.passes = req[p].passes]
  <1>1. TypeOK /\ RInv /\ Typed /\ SavedIsKept /\ SummariesStandForMessages
    BY IInvParts
  <1>2. /\ cache' = None /\ lapsed' = FALSE /\ left' = left /\ kept' = kept
        /\ rewritten' = rewritten /\ astray' = astray
    BY DEF Invalidate
  <1>3. \E r \in RequestType :
            /\ Continue(p, r) /\ Writes(r) /\ Current(backend, exists, log, r)
            /\ Compacts(backend, log, r) /\ r.at # "rename"
    <2>1. CASE req[p].passes > 0 /\ exists /\ Usage >= Full
      <3>1. Continue(p, again)
        BY <2>1 DEF Invalidate
      <3>2. req[p].passes \in Nat \ {0}
        <4>1. req[p] \in RequestType
          BY <1>1 DEF Typed
        <4>2. req[p].passes \in Nat
          BY <4>1, RequestFields
        <4> QED
          BY <2>1, <4>2
      <3>3. /\ again \in RequestType /\ again.at = "compact"
            /\ Writes(again) /\ Current(backend, exists, log, again)
            /\ Compacts(backend, log, again)
        BY <3>2, BeginsToCompact
      <3> HIDE DEF again
      <3> QED
        BY <3>1, <3>3
    <2>2. CASE ~(req[p].passes > 0 /\ exists /\ Usage >= Full)
      <3>1. Continue(p, Idle)
        BY <2>2 DEF Invalidate
      <3> QED
        BY <3>1, IdleIsQuiet, QuietFacts
    <2> QED
      BY <2>1, <2>2
  <1>4. PICK r \in RequestType :
            /\ Continue(p, r) /\ Writes(r) /\ Current(backend, exists, log, r)
            /\ Compacts(backend, log, r) /\ r.at # "rename"
    BY <1>3
  <1>5. backend' = backend /\ exists' = exists /\ log' = log
    BY <1>1, <1>4, Continues
  <1>6. TypeOK'
    <2>1. left' \in 0..MaxRequests
      BY <1>1, <1>2 DEF TypeOK
    <2> QED
      BY <1>1, <1>2, <1>4, <2>1, ContinueTypes
  <1>7. RInv'
    BY <1>1, <1>4, ContinueKeeps
  <1>8. SavedIsKept' /\ SummariesStandForMessages'
    BY <1>1, <1>2, <1>5, ContinueRecords
  <1>9. StaleIsExplained'
    BY <1>2 DEF StaleIsExplained
  <1> QED
    BY <1>6, <1>7, <1>8, <1>9 DEF IInv, RInv

\* A compaction has chosen its batch.
LEMMA BatchFacts ==
    ASSUME Typed, NEW r \in RequestType, r.passes > 0, r.at \in {"compact", "choose"},
           "removal" \notin r.missed =>
               /\ r.known \subseteq Ids(log)
               /\ \A m \in ToSet(log) : m.id \in r.known => m.covers \subseteq r.covered
    PROVE  /\ Batch(r, r.covered) \in RequestType
           /\ Batch(r, r.covered).at \in {"idle", "summarize"}
           /\ Writes(Batch(r, r.covered))
           /\ \A ex \in BOOLEAN : Current(backend, ex, log, Batch(r, r.covered))
           /\ Compacts(backend, log, Batch(r, r.covered))
  <1> DEFINE batch == OldestNonSummary(backend, log, r.covered, BatchTokens)
             g == Goto(r, "summarize")
             c == [g EXCEPT !.msgs = batch]
  <1>1. /\ log \in Seq(ChatMessage) /\ \A m \in ChatMessage : m.ts \in Int
    BY Elements, MessageFields DEF Typed
  <1>2. /\ batch \in Seq(ChatMessage)
        /\ Picks(batch, log)
        /\ \A m \in ToSet(batch) : ~m.summary /\ m.id \notin r.covered
    BY <1>1, OldestNonSummaryFacts
  <1>3. Batch(r, r.covered) = IF Len(batch) < 2 THEN Idle ELSE c
    BY DEF Batch
  <1> HIDE DEF batch
  <1>4. batch \in ChatMessages
    BY <1>2, PicksMessages DEF Typed
  <1>5. /\ g \in RequestType /\ g.at = "summarize" /\ g.known = r.known
        /\ g.covered = r.covered /\ g.passes = r.passes /\ g.missed = r.missed
    BY GotoFacts DEF Labels
  <1> HIDE DEF g
  <1>6. /\ c \in RequestType /\ c.at = "summarize" /\ c.known = r.known /\ c.msgs = batch
        /\ c.covered = r.covered /\ c.passes = r.passes /\ c.missed = r.missed
    BY <1>4, <1>5 DEF RequestType
  <1> HIDE DEF c
  <1>7. CASE Len(batch) < 2
    BY <1>3, <1>7, IdleIsQuiet, IdleFacts, QuietFacts
  <1>8. CASE ~(Len(batch) < 2)
    <2>1. Batch(r, r.covered) = c
      BY <1>3, <1>8
    <2>2. Len(batch) >= 2
      BY <1>2, <1>8
    <2>3. \A m \in ToSet(batch) : \E n \in ToSet(log) : n.id = m.id /\ n.ts = m.ts
      BY <1>2, PicksAmong
    <2>4. Compacts(backend, log, c)
      BY <1>2, <1>6, <2>2, <2>3 DEF Compacts
    <2>5. Writes(c) /\ \A ex \in BOOLEAN : Current(backend, ex, log, c)
      BY <1>6 DEF Writes, Current
    <2> QED
      BY <1>6, <2>1, <2>4, <2>5
  <1> QED
    BY <1>7, <1>8

LEMMA ReadCoveredKeeps ==
    ASSUME IInv, NEW p \in Procs, ReadCovered(p)
    PROVE  IInv'
  <1> DEFINE covered == BuildSummarizedIDSet(log)
             known == Ids(log) \cap SummaryIds
             o == req[p]
             r == [o EXCEPT !.covered = covered, !.known = known]
  <1>1. TypeOK /\ RInv /\ Typed
    BY IInvParts
  <1>2. /\ o.at = "compact"
        /\ Continue(p, IF backend = "db" THEN Goto(r, "choose") ELSE Batch(r, covered))
        /\ UNCHANGED <<cache, left, history>>
    BY DEF ReadCovered
  <1>3. o \in RequestType /\ Compacts(backend, log, o)
    BY <1>1 DEF Typed, RInv, CompactsOK
  <1>4. o.passes > 0
    BY <1>2, <1>3 DEF Compacts
  <1> HIDE DEF o
  <1>5. covered = UNION {m.covers : m \in {n \in ToSet(log) : n.summary}}
    BY CoveredIs
  <1>6. ToSet(log) \subseteq ChatMessage
    BY <1>1, Elements DEF Typed
  <1>7. covered \subseteq Originals
    <2>1. \A m \in ToSet(log) : m.covers \subseteq Originals
      BY <1>6, MessageFields
    <2> QED
      BY <1>5, <2>1
  <1> HIDE DEF covered
  <1>8. /\ r \in RequestType /\ r.at = o.at /\ r.known = known /\ r.covered = covered
        /\ r.passes = o.passes /\ r.missed = o.missed
    BY <1>3, <1>7 DEF RequestType
  <1> HIDE DEF r
  <1>9. /\ r.known \subseteq Ids(log)
        /\ \A m \in ToSet(log) : m.id \in r.known => m.covers \subseteq r.covered
    <2> SUFFICES ASSUME NEW m \in ToSet(log), m.id \in known
                 PROVE  m.covers \subseteq covered
      BY <1>8
    <2>1. m.summary
      BY <1>6, MessageFields
    <2> QED
      BY <1>5, <2>1
  <1>10. left' \in 0..MaxRequests /\ req[p].at \notin {"invalidate", "save"}
    BY <1>1, <1>2 DEF TypeOK, o
  <1>11. CASE backend = "db"
    <2> DEFINE g == Goto(r, "choose")
    <2>1. /\ g \in RequestType /\ g.at = "choose" /\ g.known = r.known
          /\ g.covered = r.covered /\ g.passes = r.passes
      BY <1>8, GotoFacts DEF Labels
    <2>2. Continue(p, g)
      BY <1>2, <1>11
    <2> HIDE DEF g
    <2>3. Writes(g) /\ Current(backend, exists, log, g) /\ Compacts(backend, log, g)
      BY <1>4, <1>8, <1>9, <2>1 DEF Writes, Current, Compacts
    <2> QED
      BY <1>2, <1>10, <2>1, <2>2, <2>3, ContinuesQuietly
  <1>12. CASE backend # "db"
    <2> DEFINE g == Batch(r, r.covered)
    <2>1. /\ g \in RequestType /\ g.at \in {"idle", "summarize"} /\ Writes(g)
          /\ \A ex \in BOOLEAN : Current(backend, ex, log, g)
          /\ Compacts(backend, log, g)
      BY <1>1, <1>2, <1>4, <1>8, <1>9, BatchFacts
    <2>2. Continue(p, g)
      BY <1>2, <1>8, <1>12
    <2> HIDE DEF g
    <2>3. Current(backend, exists, log, g)
      BY <1>1, <2>1 DEF TypeOK
    <2> QED
      BY <1>2, <1>10, <2>1, <2>2, <2>3, ContinuesQuietly
  <1> QED
    BY <1>11, <1>12

LEMMA ChooseBatchKeeps ==
    ASSUME IInv, NEW p \in Procs, ChooseBatch(p)
    PROVE  IInv'
  <1> DEFINE r == req[p]
             g == Batch(r, r.covered)
  <1>1. TypeOK /\ RInv /\ Typed
    BY IInvParts
  <1>2. r.at = "choose" /\ Continue(p, g) /\ UNCHANGED <<cache, left, history>>
    BY DEF ChooseBatch
  <1>3. r \in RequestType /\ Compacts(backend, log, r)
    BY <1>1 DEF Typed, RInv, CompactsOK
  <1>4. left' \in 0..MaxRequests /\ req[p].at \notin {"invalidate", "save"}
    BY <1>1, <1>2 DEF TypeOK
  <1> HIDE DEF r
  <1>5. /\ g \in RequestType /\ g.at \in {"idle", "summarize"} /\ Writes(g)
        /\ \A ex \in BOOLEAN : Current(backend, ex, log, g)
        /\ Compacts(backend, log, g)
    BY <1>1, <1>2, <1>3, BatchFacts DEF Compacts
  <1> HIDE DEF g
  <1>6. Current(backend, exists, log, g)
    BY <1>1, <1>5 DEF TypeOK
  <1> QED
    BY <1>2, <1>4, <1>5, <1>6, ContinuesQuietly

-----------------------------------------------------------------------------
(***************************************************************************)
(* Steps that change the log                                               *)
(***************************************************************************)

LEMMA MovesExplain ==
    ASSUME StaleIsExplained, NEW new, log' = new, backend' = backend, cache' = cache,
           lapsed => lapsed', new = log => (exists => exists'),
           \A q \in Procs : Removes(req[q]) => Removes(req'[q]),
           new # log /\ cache # None => lapsed' \/ \E q \in Procs : Removes(req'[q])
    PROVE  StaleIsExplained'
  <1>1. SUFFICES ASSUME cache # None
                 PROVE  \/ exists' /\ (cache.page = FirstPage(cache.limit))'
                        \/ lapsed'
                        \/ \E q \in Procs : Removes(req'[q])
    BY DEF StaleIsExplained, Removes
  <1>2. CASE new # log
    BY <1>1, <1>2
  <1>3. CASE new = log /\ exists /\ cache.page = FirstPage(cache.limit)
    <2>1. (cache.page = FirstPage(cache.limit))'
      BY <1>3 DEF FirstPage
    <2> QED
      BY <1>3, <2>1
  <1>4. CASE lapsed
    BY <1>4
  <1>5. CASE \E q \in Procs : Removes(req[q])
    BY <1>5
  <1> QED
    BY <1>1, <1>2, <1>3, <1>4, <1>5 DEF StaleIsExplained, Removes

LEMMA GrownRecords ==
    ASSUME Typed, SavedIsKept, SummariesStandForMessages,
           NEW new \in ChatMessages, Grown(log, new), log' = new, backend' = backend,
           kept' \subseteq kept \cup Ids(new), rewritten => rewritten', astray \subseteq astray'
    PROVE  SavedIsKept' /\ SummariesStandForMessages'
  <1>1. Ids(log) \subseteq Ids(new) /\ BuildSummarizedIDSet(log) \subseteq BuildSummarizedIDSet(new)
    BY GrownIds, GrownCovered
  <1>2. SavedIsKept'
    BY <1>1 DEF SavedIsKept
  <1>3. SummariesStandForMessages'
    <2> SUFFICES ASSUME NEW i \in DOMAIN new, new[i].summary
                 PROVE  /\ new[i].covers \cap SummaryIds = {}
                        /\ backend = "db" /\ new[i].id \notin astray' =>
                              /\ Cardinality(new[i].covers) >= 2
                              /\ new[i].covers \subseteq Ids(new)
                              /\ \A k \in DOMAIN new :
                                    new[k].id \in new[i].covers => new[k].ts >= new[i].ts
      BY DEF SummariesStandForMessages
    <2>1. \A k \in DOMAIN new : new[k] \in ToSet(new)
      BY DEF ToSet
    <2>2. PICK n \in ToSet(log) : Like(new[i], n)
      BY <2>1 DEF Grown
    <2>3. PICK j \in DOMAIN log : log[j] = n
      BY DEF ToSet
    <2>4. /\ log[j].summary /\ log[j].id = new[i].id /\ log[j].ts = new[i].ts
          /\ log[j].covers = new[i].covers
      BY <2>2, <2>3 DEF Like
    <2>5. new[i].covers \cap SummaryIds = {}
      BY <2>4 DEF SummariesStandForMessages
    <2>6. ASSUME backend = "db", new[i].id \notin astray'
          PROVE  /\ Cardinality(new[i].covers) >= 2
                 /\ new[i].covers \subseteq Ids(log)
                 /\ \A k \in DOMAIN log :
                       log[k].id \in new[i].covers => log[k].ts >= new[i].ts
      <3>1. log[j].id \notin astray
        BY <2>4, <2>6
      <3> QED
        BY <2>4, <2>6, <3>1 DEF SummariesStandForMessages
    <2>7. ASSUME backend = "db", new[i].id \notin astray',
                 NEW k \in DOMAIN new, new[k].id \in new[i].covers
          PROVE  new[k].ts >= new[i].ts
      <3>1. new[k].id \in Ids(log)
        BY <2>6, <2>7
      <3>2. PICK o \in ToSet(log) : Like(new[k], o)
        BY <2>1, <3>1 DEF Grown
      <3>3. PICK l \in DOMAIN log : log[l] = o
        BY DEF ToSet
      <3>4. log[l].id = new[k].id /\ log[l].ts = new[k].ts
        BY <3>2, <3>3 DEF Like
      <3> QED
        BY <2>6, <2>7, <3>4
    <2> QED
      BY <1>1, <2>5, <2>6, <2>7
  <1> QED
    BY <1>2, <1>3

\* A step after which the log is a grown one.
LEMMA GrownStep ==
    ASSUME IInv, NEW new \in ChatMessages, Grown(log, new), Moves(new, Difference(new)),
           req' \in [Procs -> RequestType],
           exists' \in BOOLEAN, exists => exists', ~exists' => new = <<>>,
           cache' = cache, left' \in 0..MaxRequests,
           lapsed' \in BOOLEAN, lapsed => lapsed',
           kept' \subseteq Originals, kept' \subseteq kept \cup Ids(new),
           rewritten' \in BOOLEAN, rewritten => rewritten', astray' = astray,
           \A q \in Procs : Removes(req[q]) => Removes(req'[q]),
           new # log /\ cache # None => lapsed' \/ \E q \in Procs : Removes(req'[q])
    PROVE  IInv'
  <1>1. TypeOK /\ RInv /\ Typed /\ StaleIsExplained /\ SavedIsKept
           /\ SummariesStandForMessages
    BY IInvParts
  <1>2. log' = new /\ backend' = backend
    BY DEF Moves
  <1>3. TypeOK'
    BY <1>1, <1>2 DEF TypeOK
  <1>4. RInv'
    BY <1>1, GrownMoves
  <1>5. StaleIsExplained'
    BY <1>1, <1>2, MovesExplain
  <1>6. SavedIsKept' /\ SummariesStandForMessages'
    BY <1>1, <1>2, GrownRecords
  <1> QED
    BY <1>3, <1>4, <1>5, <1>6 DEF IInv, RInv

\* The other requests only take note.
LEMMA OthersRemove ==
    ASSUME Typed, NEW p \in Procs, NEW r, NEW what \in SUBSET {"change", "removal"},
           req'[p] = r, \A q \in Procs : q # p => req'[q] = Missing(req[q], what),
           Removes(req[p]) => Removes(r)
    PROVE  \A q \in Procs : Removes(req[q]) => Removes(req'[q])
  <1> TAKE q \in Procs
  <1>1. CASE q = p
    BY <1>1
  <1>2. CASE q # p
    <2>1. req[q] \in RequestType
      BY DEF Typed
    <2>2. Missing(req[q], what).at = req[q].at /\ Missing(req[q], what).kind = req[q].kind
      BY <2>1, MissingFacts
    <2> QED
      BY <1>2, <2>2 DEF Removes
  <1> QED
    BY <1>1, <1>2

\* A request commits a grown log.
LEMMA GrownCommit ==
    ASSUME IInv, NEW p \in Procs, NEW r \in RequestType,
           NEW new \in ChatMessages, Grown(log, new), Commit(p, new, r),
           r.at \in {"idle", "invalidate", "save"}, Writes(r),
           backend' = backend,
           exists' \in BOOLEAN, exists => exists', ~exists' => new = <<>>,
           cache' = cache, left' \in 0..MaxRequests,
           lapsed' \in BOOLEAN, lapsed => lapsed',
           kept' \subseteq Originals, kept' \subseteq kept \cup Ids(new),
           rewritten' \in BOOLEAN, rewritten => rewritten', astray' = astray,
           Removes(req[p]) => Removes(r),
           new # log /\ cache # None => lapsed' \/ Removes(r)
    PROVE  IInv'
  <1>1. Typed
    BY IInvParts
  <1>2. /\ Moves(new, Difference(new))
        /\ req' \in [Procs -> RequestType]
        /\ req'[p] = r
        /\ \A q \in Procs : q # p => req'[q] = Missing(req[q], Difference(new))
    BY <1>1, Commits
  <1>3. Difference(new) \in SUBSET {"change", "removal"}
    BY DifferenceFacts
  <1>4. \A q \in Procs : Removes(req[q]) => Removes(req'[q])
    <2> DEFINE what == Difference(new)
    <2>1. what \in SUBSET {"change", "removal"}
          /\ \A q \in Procs : q # p => req'[q] = Missing(req[q], what)
      BY <1>2, <1>3
    <2> HIDE DEF what
    <2> QED
      BY <1>1, <1>2, <2>1, OthersRemove
  <1>5. new # log /\ cache # None => lapsed' \/ \E q \in Procs : Removes(req'[q])
    BY <1>2
  <1> QED
    BY <1>2, <1>4, <1>5, GrownStep

\* A request whose last act is to remove the page.
LEMMA LastlyInvalidates ==
    /\ Goto(Idle, "invalidate") \in RequestType
    /\ Goto(Idle, "invalidate").at = "invalidate"
    /\ Writes(Goto(Idle, "invalidate"))
    /\ Removes(Goto(Idle, "invalidate"))
  BY IdleIsQuiet DEF Removes

LEMMA AddMessageKeeps ==
    ASSUME IInv, NEW p \in Procs, NEW m \in Sent, AddMessage(p, m)
    PROVE  IInv'
  <1> DEFINE new == Appended(m)
             r == Goto(Idle, "invalidate")
  <1>1. TypeOK /\ log \in ChatMessages
    BY IInvParts DEF TypeOK
  <1>2. m \in ChatMessage /\ ~m.summary /\ m.id \in Originals
    BY ConversationAssumption, OriginalIsMessage
  <1>3. new \in ChatMessages /\ Grown(log, new) /\ m.id \in Ids(new)
    BY <1>1, <1>2, AppendedFacts
  <1>4. r \in RequestType /\ r.at = "invalidate" /\ Writes(r) /\ Removes(r)
    BY LastlyInvalidates
  <1>5. /\ Arrives(p) /\ exists /\ Commit(p, new, r) /\ kept' = kept \cup {m.id}
        /\ backend' = backend /\ exists' = exists /\ cache' = cache /\ lapsed' = lapsed
        /\ rewritten' = rewritten /\ astray' = astray
    BY DEF AddMessage
  <1> HIDE DEF new, r
  <1>6. left' \in 0..MaxRequests
    BY <1>1, <1>5, ArrivesFacts
  <1>7. /\ lapsed \in BOOLEAN /\ rewritten \in BOOLEAN /\ exists \in BOOLEAN
        /\ kept \subseteq Originals
    BY <1>1 DEF TypeOK
  <1> QED
    BY <1>2, <1>3, <1>4, <1>5, <1>6, <1>7, GrownCommit

\* A message of the log gives way to a version of it.
LEMMA VersionCommits ==
    ASSUME IInv, NEW p \in Procs, NEW id \in Ids(log), NEW m \in ChatMessage,
           m.id = id, Like(m, Message(log, id)), Arrives(p),
           NEW r \in {Idle, Goto(Idle, "invalidate")}, Commit(p, Changed(m), r),
           lapsed' \in BOOLEAN, lapsed => lapsed',
           Changed(m) # log /\ cache # None => lapsed' \/ Removes(r),
           UNCHANGED <<backend, exists, cache, kept, rewritten, astray>>
    PROVE  IInv'
  <1> DEFINE new == Changed(m)
  <1>1. TypeOK /\ log \in ChatMessages
    BY IInvParts DEF TypeOK
  <1>2. new \in ChatMessages /\ Grown(log, new)
    BY <1>1, ChangedFacts
  <1>3. r \in RequestType /\ r.at \in {"idle", "invalidate", "save"} /\ Writes(r)
    BY IdleFacts, LastlyInvalidates, IdleIsQuiet
  <1>4. /\ Commit(p, new, r) /\ backend' = backend /\ exists' = exists /\ cache' = cache
        /\ kept' = kept /\ rewritten' = rewritten /\ astray' = astray
        /\ new # log /\ cache # None => lapsed' \/ Removes(r)
    OBVIOUS
  <1> HIDE DEF new
  <1>5. left' \in 0..MaxRequests /\ ~Removes(req[p])
    BY <1>1, ArrivesFacts DEF Removes
  <1>6. exists
    BY <1>1, EmptyFacts DEF TypeOK
  <1>7. /\ lapsed \in BOOLEAN /\ rewritten \in BOOLEAN /\ exists \in BOOLEAN
        /\ kept \subseteq Originals
    BY <1>1 DEF TypeOK
  <1> QED
    BY <1>2, <1>3, <1>4, <1>5, <1>6, <1>7, GrownCommit

\* It does, and the page is removed.
LEMMA VersionInvalidates ==
    ASSUME IInv, NEW p \in Procs, NEW id \in Ids(log), NEW m \in ChatMessage,
           m.id = id, Like(m, Message(log, id)), Arrives(p),
           Commit(p, Changed(m), Goto(Idle, "invalidate")),
           UNCHANGED <<backend, exists, cache, history>>
    PROVE  IInv'
  <1>1. Removes(Goto(Idle, "invalidate"))
    BY LastlyInvalidates
  <1>2. lapsed' \in BOOLEAN /\ lapsed' = lapsed
        /\ UNCHANGED <<backend, exists, cache, kept, rewritten, astray>>
    BY IInvParts DEF history, TypeOK
  <1> QED
    BY <1>1, <1>2, VersionCommits

LEMMA EditedFacts ==
    ASSUME IInv, NEW id \in Ids(log)
    PROVE  \E m \in ChatMessage :
              m.id = id /\ Like(m, Message(log, id)) /\ Edited(id) = Changed(m)
  <1> DEFINE m == [Message(log, id) EXCEPT !.tok = 0]
  <1>1. log \in ChatMessages
    BY IInvParts DEF TypeOK
  <1>2. Message(log, id) \in ChatMessage /\ Message(log, id).id = id
    BY <1>1, MessageIs
  <1>3. m \in ChatMessage /\ m.id = id /\ Like(m, Message(log, id))
    <2>1. 0 \in Nat
      OBVIOUS
    <2> QED
      BY <1>2, <2>1, CountedFacts
  <1>4. Edited(id) = Changed(m)
    BY DEF Edited
  <1> HIDE DEF m
  <1> QED
    BY <1>3, <1>4

LEMMA UpdateMessageKeeps ==
    ASSUME IInv, NEW p \in Procs, NEW id \in Ids(log), UpdateMessage(p, id)
    PROVE  IInv'
  <1>1. PICK m \in ChatMessage :
            m.id = id /\ Like(m, Message(log, id)) /\ Edited(id) = Changed(m)
    BY EditedFacts
  <1>2. /\ Arrives(p) /\ Commit(p, Changed(m), Goto(Idle, "invalidate"))
        /\ UNCHANGED <<backend, exists, cache, history>>
    BY <1>1 DEF UpdateMessage
  <1> QED
    BY <1>1, <1>2, VersionInvalidates

LEMMA UpdateMessageFailsKeeps ==
    ASSUME IInv, NEW p \in Procs, NEW id \in Ids(log), UpdateMessageFails(p, id)
    PROVE  IInv'
  <1>1. PICK m \in ChatMessage :
            m.id = id /\ Like(m, Message(log, id)) /\ Edited(id) = Changed(m)
    BY EditedFacts
  <1>2. /\ Arrives(p) /\ Commit(p, Changed(m), Idle)
        /\ lapsed' = (lapsed \/ (cache # None /\ Changed(m) # log))
        /\ UNCHANGED <<backend, exists, cache, kept, rewritten, astray>>
    BY <1>1 DEF UpdateMessageFails, LapsesWith
  <1>3. lapsed \in BOOLEAN
    BY IInvParts DEF TypeOK
  <1>4. lapsed' \in BOOLEAN /\ (lapsed => lapsed')
        /\ (Changed(m) # log /\ cache # None => lapsed')
    BY <1>2, <1>3
  <1> QED
    BY <1>1, <1>2, <1>4, VersionCommits

LEMMA TogglePinKeeps ==
    ASSUME IInv, NEW p \in Procs, NEW id \in Ids(log), NEW b \in BOOLEAN, TogglePin(p, id, b)
    PROVE  IInv'
  <1> DEFINE m == [Message(log, id) EXCEPT !.pinned = b]
  <1>1. log \in ChatMessages
    BY IInvParts DEF TypeOK
  <1>2. Message(log, id) \in ChatMessage /\ Message(log, id).id = id
    BY <1>1, MessageIs
  <1>3. m \in ChatMessage /\ m.id = id /\ Like(m, Message(log, id))
    BY <1>2, PinnedFacts
  <1>4. /\ Arrives(p) /\ Commit(p, Changed(m), Goto(Idle, "invalidate"))
        /\ UNCHANGED <<backend, exists, cache, history>>
    BY DEF TogglePin
  <1> HIDE DEF m
  <1> QED
    BY <1>3, <1>4, VersionInvalidates

LEMMA CountTokensKeeps ==
    ASSUME IInv, NEW id \in Ids(log), CountTokens(id)
    PROVE  IInv'
  <1> DEFINE m == [Message(log, id) EXCEPT !.tok = Size[id]]
             new == Changed(m)
             what == Difference(new)
  <1>1. TypeOK /\ Typed /\ log \in ChatMessages
    BY IInvParts DEF TypeOK
  <1>2. Message(log, id) \in ChatMessage /\ Message(log, id).id = id
    BY <1>1, MessageIs
  <1>3. id \notin SummaryIds
    BY DEF CountTokens
  <1>4. Size[id] \in Nat
    <2>1. id \in Originals
      BY <1>2, <1>3, MessageFields
    <2> QED
      BY <2>1, ConversationAssumption
  <1>5. m \in ChatMessage /\ m.id = id /\ Like(m, Message(log, id))
    BY <1>2, <1>4, CountedFacts
  <1>6. /\ log' = new
        /\ req' = [q \in Procs |-> Missing(req[q], what)]
        /\ lapsed' = (lapsed \/ (cache # None /\ new # log))
        /\ backend' = backend /\ exists' = exists /\ cache' = cache /\ left' = left
        /\ kept' = kept /\ rewritten' = rewritten /\ astray' = astray
    BY DEF CountTokens, LapsesWith
  <1> HIDE DEF m
  <1>7. new \in ChatMessages /\ Grown(log, new)
    BY <1>1, <1>5, ChangedFacts
  <1> HIDE DEF new
  <1>8. what \in SUBSET {"change", "removal"}
    BY DifferenceFacts
  <1>9. Moves(new, what)
    BY <1>6 DEF Moves
  <1> HIDE DEF what
  <1>10. ASSUME NEW q \in Procs
         PROVE  /\ Missing(req[q], what) \in RequestType
                /\ Missing(req[q], what).at = req[q].at /\ Missing(req[q], what).kind = req[q].kind
    <2>1. req[q] \in RequestType
      BY <1>1 DEF Typed
    <2> QED
      BY <1>8, <2>1, MissingFacts
  <1>11. req' \in [Procs -> RequestType]
    BY <1>6, <1>10
  <1>12. \A q \in Procs : Removes(req[q]) => Removes(req'[q])
    BY <1>6, <1>10 DEF Removes
  <1>13. exists
    BY <1>1, EmptyFacts DEF TypeOK
  <1>14. /\ lapsed \in BOOLEAN /\ rewritten \in BOOLEAN /\ exists \in BOOLEAN
         /\ kept \subseteq Originals /\ left \in 0..MaxRequests
    BY <1>1 DEF TypeOK
  <1>15. Moves(new, Difference(new))
    BY <1>9 DEF what
  <1>16. lapsed' \in BOOLEAN /\ (lapsed => lapsed') /\ (new # log /\ cache # None => lapsed')
    BY <1>6, <1>14
  <1> QED
    BY <1>6, <1>7, <1>11, <1>12, <1>13, <1>14, <1>15, <1>16, GrownStep

LEMMA RestKeeps ==
    ASSUME RInv, UNCHANGED <<backend, exists, log, req>>
    PROVE  RInv'
  BY DEF RInv, WritesOK, CurrentOK, CompactsOK, SnapshotsOK

LEMMA EvictKeeps ==
    ASSUME IInv, Evict
    PROVE  IInv'
  <1>1. TypeOK /\ RInv /\ SavedIsKept /\ SummariesStandForMessages
    BY IInvParts
  <1>2. /\ cache' = None /\ lapsed' = FALSE /\ UNCHANGED <<backend, exists, log, req>>
        /\ UNCHANGED <<left, kept, rewritten, astray>>
    BY DEF Evict, store
  <1>3. TypeOK'
    BY <1>1, <1>2 DEF TypeOK
  <1>4. RInv'
    BY <1>1, <1>2, RestKeeps
  <1>5. StaleIsExplained'
    BY <1>2 DEF StaleIsExplained
  <1>6. SavedIsKept' /\ SummariesStandForMessages'
    BY <1>1, <1>2, ContinueRecords
  <1> QED
    BY <1>3, <1>4, <1>5, <1>6 DEF IInv, RInv

\* A request whose session the storage refuses.
LEMMA RefusedKeeps ==
    ASSUME IInv, NEW p \in Procs, req[p].at \in {"create", "update"}, Refused(p, req[p])
    PROVE  IInv'
  <1> DEFINE r == req[p]
  <1>1. TypeOK /\ r \in RequestType /\ Writes(r)
    BY IInvParts DEF TypeOK, RInv, WritesOK
  <1>2. /\ Continue(p, IF r.kind = "history" THEN Saving(r) ELSE Idle)
        /\ UNCHANGED <<cache, left, history>>
    BY DEF Refused
  <1>3. \A m \in ToSet(r.msgs) : ~m.summary
    BY <1>1 DEF Writes
  <1>4. CASE r.kind = "history"
    <2> DEFINE s == Saving(r)
    <2>1. s \in RequestType /\ s.at \in {"idle", "invalidate", "save"} /\ Writes(s)
      BY <1>1, <1>3, SavingFacts
    <2>2. Continue(p, s)
      BY <1>2, <1>4
    <2> HIDE DEF s
    <2>3. s.at \in Quiet
      BY <2>1 DEF Quiet
    <2>4. left' \in 0..MaxRequests /\ req[p].at \notin {"invalidate", "save"}
      BY <1>1, <1>2 DEF TypeOK
    <2> QED
      BY <1>2, <2>1, <2>2, <2>3, <2>4, QuietFacts, ContinuesQuietly
  <1>5. CASE r.kind # "history"
    BY <1>2, <1>5, GivesUp
  <1> QED
    BY <1>4, <1>5

LEMMA CreateSessionKeeps ==
    ASSUME IInv, NEW p \in Procs, CreateSession(p)
    PROVE  IInv'
  <1> DEFINE o == req[p]
             new == IF backend = "db" THEN <<>> ELSE o.msgs
             r == Saving(o)
  <1>1. TypeOK /\ o \in RequestType /\ Writes(o) /\ o.at = "create"
    BY IInvParts DEF TypeOK, RInv, WritesOK, CreateSession
  <1> DEFINE Takes == /\ ~exists /\ exists' = TRUE /\ Commit(p, new, r) /\ kept' = Ids(new)
                      /\ lapsed' = (lapsed \/ (cache # None /\ new # log))
                      /\ backend' = backend /\ cache' = cache /\ left' = left
                      /\ rewritten' = rewritten /\ astray' = astray
  <1>2. CASE Refused(p, o)
    BY <1>1, <1>2, RefusedKeeps
  <1>3. CASE Takes
    <2>1. Takes
      BY <1>3
    <2>2. \A m \in ToSet(o.msgs) : ~m.summary
      BY <1>1 DEF Writes
    <2>3. r \in RequestType /\ r.at \in {"idle", "invalidate", "save"} /\ Writes(r)
      BY <1>1, <2>2, SavingFacts
    <2>4. ~Removes(o)
      BY <1>1 DEF Removes
    <2>5. o.msgs \in ChatMessages
      BY <1>1, RequestFields
    <2> HIDE DEF o, r
    <2>6. new \in ChatMessages /\ \A m \in ToSet(new) : ~m.summary
      BY <2>2, <2>5, EmptyFacts
    <2> HIDE DEF new
    <2>7. log = <<>>
      BY <1>1, <1>3 DEF TypeOK
    <2>8. Grown(log, new)
      BY <2>6, <2>7, EmptyFacts DEF Grown
    <2>9. Ids(new) \subseteq Originals
      BY <2>6, OriginalsAlone
    <2>10. /\ lapsed \in BOOLEAN /\ rewritten \in BOOLEAN /\ left \in 0..MaxRequests
      BY <1>1 DEF TypeOK
    <2>11. lapsed' \in BOOLEAN /\ (lapsed => lapsed') /\ (new # log /\ cache # None => lapsed')
      BY <2>1, <2>10
    <2>12. ~Removes(req[p])
      BY <2>4 DEF o
    <2> QED
      BY <1>3, <2>1, <2>3, <2>6, <2>8, <2>9, <2>10, <2>11, <2>12, GrownCommit
  <1>4. Refused(p, o) \/ Takes
    BY DEF CreateSession, LapsesWith
  <1> QED
    BY <1>2, <1>3, <1>4

LEMMA TailFacts ==
    ASSUME NEW s \in ChatMessages, s # <<>>
    PROVE  /\ Head(s) \in ToSet(s) /\ Head(s) \in ChatMessage
           /\ Tail(s) \in ChatMessages
           /\ ToSet(Tail(s)) \subseteq ToSet(s)
  <1> DEFINE t == Tail(s)
             l == Len(s)
  <1>1. /\ s \in Seq(ChatMessage)
        /\ \A i, k \in DOMAIN s : s[i].id = s[k].id => i = k
    BY DEF ChatMessages, Unique, IsInjective
  <1>2. /\ t \in Seq(ChatMessage) /\ l \in Nat \ {0}
        /\ DOMAIN s = 1..l /\ DOMAIN t = 1..(l - 1)
        /\ \A i \in 1..(l - 1) : t[i] = s[i + 1]
        /\ Head(s) = s[1]
    BY <1>1
  <1>3. Head(s) \in ToSet(s) /\ Head(s) \in ChatMessage
    BY <1>1, <1>2 DEF ToSet
  <1> HIDE DEF t, l
  <1>4. \A i \in 1..(l - 1) : i + 1 \in 1..l /\ i \in Int
    BY <1>2
  <1>5. \A i, k \in DOMAIN t : t[i].id = t[k].id => i = k
    <2> TAKE i, k \in DOMAIN t
    <2> HAVE t[i].id = t[k].id
    <2>1. /\ i \in 1..(l - 1) /\ k \in 1..(l - 1)
          /\ i + 1 \in DOMAIN s /\ k + 1 \in DOMAIN s
          /\ t[i] = s[i + 1] /\ t[k] = s[k + 1]
      BY <1>2, <1>4
    <2>2. s[i + 1].id = s[k + 1].id
      BY <2>1
    <2>3. i + 1 = k + 1
      BY <1>1, <2>1, <2>2
    <2> QED
      BY <2>1, <2>3
  <1>6. t \in ChatMessages
    BY <1>2, <1>5 DEF ChatMessages, Unique, IsInjective
  <1>7. ToSet(t) \subseteq ToSet(s)
    BY <1>2, <1>4 DEF ToSet
  <1> QED
    BY <1>3, <1>6, <1>7 DEF t

\* A request that has a message behind it has more of them to save, or it is
\* about to remove the page, or it has created the session.
LEMMA FirstDoneFacts ==
    ASSUME NEW o \in RequestType, o.at = "save", Writes(o)
    PROVE  /\ Head(o.msgs) \in ChatMessage /\ ~Head(o.msgs).summary
           /\ Head(o.msgs).id \in Originals
           /\ FirstDone(o) \in RequestType /\ Writes(FirstDone(o))
           /\ FirstDone(o).at \in {"idle", "invalidate", "save"}
           /\ o.kind # "create" => Removes(FirstDone(o))
           /\ Removes(o) => Removes(FirstDone(o))
  <1> DEFINE m == Head(o.msgs)
             rest == [o EXCEPT !.msgs = Tail(o.msgs)]
             r == Saving(rest)
  <1>1. /\ o.msgs # <<>> /\ o.msgs \in ChatMessages
        /\ \A n \in ToSet(o.msgs) : ~n.summary
    BY RequestFields DEF Writes
  <1>2. /\ m \in ToSet(o.msgs) /\ m \in ChatMessage /\ Tail(o.msgs) \in ChatMessages
        /\ ToSet(Tail(o.msgs)) \subseteq ToSet(o.msgs)
    BY <1>1, TailFacts
  <1>3. ~m.summary /\ m.id \in Originals
    BY <1>1, <1>2, MessageFields
  <1>4. r = FirstDone(o)
    BY DEF FirstDone
  <1> HIDE DEF m
  <1>5. rest \in RequestType /\ rest.msgs = Tail(o.msgs) /\ rest.kind = o.kind
    BY <1>2 DEF RequestType
  <1> HIDE DEF rest
  <1>6. /\ r \in RequestType /\ r.at \in {"idle", "invalidate", "save"} /\ Writes(r)
        /\ o.kind # "create" => Removes(r)
    <2>1. \A n \in ToSet(rest.msgs) : ~n.summary
      BY <1>1, <1>2, <1>5
    <2> QED
      BY <1>5, <2>1, SavingFacts DEF Removes
  <1> HIDE DEF r
  <1>7. Removes(o) => Removes(r)
    BY <1>6 DEF Removes
  <1> QED
    BY <1>2, <1>3, <1>4, <1>6, <1>7 DEF m

LEMMA SaveMessageKeeps ==
    ASSUME IInv, NEW p \in Procs, SaveMessage(p)
    PROVE  IInv'
  <1> DEFINE o == req[p]
             m == Head(o.msgs)
             new == Appended(m)
             r == FirstDone(o)
  <1>1. TypeOK /\ Typed /\ o \in RequestType /\ Writes(o) /\ o.at = "save"
    BY IInvParts DEF TypeOK, RInv, WritesOK, SaveMessage
  <1>2. /\ exists /\ Commit(p, new, r) /\ kept' = kept \cup {m.id}
        /\ IF o.kind = "create" THEN lapsed' = (lapsed \/ (cache # None /\ new # log))
           ELSE lapsed' = lapsed
        /\ backend' = backend /\ exists' = exists /\ cache' = cache /\ left' = left
        /\ rewritten' = rewritten /\ astray' = astray
    BY DEF SaveMessage, LapsesWith
  <1>3. /\ m \in ChatMessage /\ ~m.summary /\ m.id \in Originals
        /\ r \in RequestType /\ r.at \in {"idle", "invalidate", "save"} /\ Writes(r)
        /\ o.kind # "create" => Removes(r)
        /\ Removes(o) => Removes(r)
    BY <1>1, FirstDoneFacts
  <1> HIDE DEF m, r
  <1>4. /\ lapsed \in BOOLEAN /\ rewritten \in BOOLEAN /\ left \in 0..MaxRequests
        /\ exists \in BOOLEAN /\ kept \subseteq Originals /\ log \in ChatMessages
    BY <1>1 DEF TypeOK
  <1>5. new \in ChatMessages /\ Grown(log, new) /\ m.id \in Ids(new)
    BY <1>3, <1>4, AppendedFacts
  <1> HIDE DEF new
  <1>6. kept' \subseteq Originals /\ kept' \subseteq kept \cup Ids(new)
    BY <1>2, <1>3, <1>4, <1>5
  <1>7. lapsed' \in BOOLEAN /\ (lapsed => lapsed')
        /\ (new # log /\ cache # None => lapsed' \/ Removes(r))
    <2>1. CASE o.kind = "create"
      <3>1. lapsed' = (lapsed \/ (cache # None /\ new # log))
        BY <1>2, <2>1
      <3> QED
        BY <1>4, <3>1
    <2>2. CASE o.kind # "create"
      <3>1. lapsed' = lapsed
        BY <1>2, <2>2
      <3> QED
        BY <1>3, <1>4, <2>2, <3>1
    <2> QED
      BY <2>1, <2>2
  <1> HIDE DEF o
  <1>8. Removes(req[p]) => Removes(r)
    BY <1>3 DEF o
  <1> QED
    BY <1>2, <1>3, <1>4, <1>5, <1>6, <1>7, <1>8, GrownCommit

LEMMA SaveMessageFailsKeeps ==
    ASSUME IInv, NEW p \in Procs, SaveMessageFails(p)
    PROVE  IInv'
  <1> DEFINE r == FirstDone(req[p])
  <1>1. TypeOK /\ req[p] \in RequestType /\ Writes(req[p]) /\ req[p].at = "save"
    BY IInvParts DEF TypeOK, RInv, WritesOK, SaveMessageFails
  <1>2. Continue(p, r) /\ UNCHANGED <<cache, history>> /\ left' = left
    BY DEF SaveMessageFails
  <1>3. /\ r \in RequestType /\ r.at \in {"idle", "invalidate", "save"} /\ Writes(r)
        /\ Removes(req[p]) => Removes(r)
    BY <1>1, FirstDoneFacts
  <1> HIDE DEF r
  <1>4. r.at \in Quiet /\ left' \in 0..MaxRequests
    BY <1>1, <1>2, <1>3 DEF Quiet, TypeOK
  <1> QED
    BY <1>2, <1>3, <1>4, QuietFacts, ContinuesAlone

LEMMA UpdateSessionKeeps ==
    ASSUME IInv, NEW p \in Procs, UpdateSession(p)
    PROVE  IInv'
  <1> DEFINE o == req[p]
             new == IF backend = "db" THEN log ELSE o.msgs
             r == Saving(o)
             what == Difference(new)
  <1>1. /\ TypeOK /\ RInv /\ Typed /\ StaleIsExplained
        /\ o \in RequestType /\ Writes(o) /\ o.at = "update"
    BY IInvParts DEF TypeOK, RInv, WritesOK, UpdateSession
  <1> DEFINE Takes == /\ exists /\ Commit(p, new, r)
                      /\ rewritten' = (rewritten \/ backend = "memory")
                      /\ backend' = backend /\ exists' = exists /\ cache' = cache
                      /\ left' = left /\ lapsed' = lapsed /\ kept' = kept /\ astray' = astray
  <1>2. CASE Refused(p, o)
    BY <1>1, <1>2, RefusedKeeps
  <1>3. Refused(p, o) \/ Takes
    BY DEF UpdateSession
  <1>4. \A m \in ToSet(o.msgs) : ~m.summary
    BY <1>1 DEF Writes
  <1>5. o.kind # "create"
    BY <1>1 DEF Writes
  <1>6. /\ r \in RequestType /\ r.at \in {"idle", "invalidate", "save"} /\ Writes(r)
        /\ Removes(r)
    BY <1>1, <1>4, <1>5, SavingFacts DEF Removes
  <1>7. o.msgs \in ChatMessages
    BY <1>1, RequestFields
  <1> HIDE DEF r
  <1>8. /\ lapsed \in BOOLEAN /\ rewritten \in BOOLEAN /\ left \in 0..MaxRequests
        /\ exists \in BOOLEAN /\ kept \subseteq Originals /\ log \in ChatMessages
        /\ astray \subseteq SummaryIds /\ backend \in {"db", "memory"}
    BY <1>1 DEF TypeOK
  <1>9. CASE Takes /\ backend = "db"
    <2>1. new = log
      BY <1>9
    <2>2. new \in ChatMessages /\ Grown(log, new)
      BY <1>8, <2>1, GrownSelf
    <2>3. Commit(p, new, r) /\ rewritten' \in BOOLEAN /\ (rewritten => rewritten')
      BY <1>8, <1>9
    <2> HIDE DEF new
    <2> QED
      BY <1>6, <1>8, <1>9, <2>2, <2>3, GrownCommit
  <1>10. CASE Takes /\ backend # "db"
    <2>1. new = o.msgs
      BY <1>10
    <2>2. new \in ChatMessages /\ \A m \in ToSet(new) : ~m.summary
      BY <1>4, <1>7, <2>1
    <2>3. Commit(p, new, r) /\ rewritten' = TRUE
      BY <1>8, <1>10
    <2> HIDE DEF new
    <2>4. /\ Moves(new, what)
          /\ req' \in [Procs -> RequestType]
          /\ req'[p] = r
          /\ \A q \in Procs : q # p => req'[q] = Missing(req[q], what)
      BY <1>1, <1>6, <1>10, <2>2, <2>3, Commits
    <2>5. /\ what \in SUBSET {"change", "removal"}
          /\ "change" \notin what => new = log
          /\ "removal" \notin what => Ids(log) \subseteq Ids(new)
      BY DifferenceFacts
    <2> HIDE DEF what
    <2>6. log' = new /\ backend' = backend
      BY <2>4 DEF Moves
    <2>7. RInv'
      BY <1>1, <1>10, <2>2, <2>4, <2>5, OriginalsMove
    <2>8. TypeOK'
      BY <1>1, <1>10, <2>2, <2>3, <2>4, <2>6 DEF TypeOK
    <2>9. \A q \in Procs : Removes(req[q]) => Removes(req'[q])
      BY <1>1, <1>6, <2>4, <2>5, OthersRemove
    <2>10. StaleIsExplained'
      BY <1>1, <1>6, <1>10, <2>4, <2>6, <2>9, MovesExplain
    <2>11. SavedIsKept'
      BY <1>8, <1>10, <2>3, <2>6 DEF SavedIsKept
    <2>12. SummariesStandForMessages'
      <3>1. \A i \in DOMAIN new : new[i] \in ToSet(new)
        BY DEF ToSet
      <3> QED
        BY <2>2, <2>6, <3>1 DEF SummariesStandForMessages
    <2> QED
      BY <2>7, <2>8, <2>10, <2>11, <2>12 DEF IInv, RInv
  <1> QED
    BY <1>2, <1>3, <1>9, <1>10

\* What the memory storage has in the place of the messages just read.
LEMMA AlikeRecords ==
    ASSUME TypeOK, SavedIsKept, backend # "db",
           NEW s, s = FilterCompacted(log), NEW new \in ChatMessages, Alike(new, s),
           log' = new, backend' = backend, kept' = kept, rewritten => rewritten'
    PROVE  SavedIsKept'
  <1> DEFINE c == BuildSummarizedIDSet(log)
  <1>1. log \in Seq(ChatMessage) /\ ToSet(log) \subseteq ChatMessage
    BY Elements DEF TypeOK
  <1>2. ToSet(s) = {m \in ToSet(log) : m.id \notin c}
    BY <1>1, FilterCompactedFacts
  <1>3. c = UNION {m.covers : m \in {n \in ToSet(log) : n.summary}}
    BY CoveredIs
  <1>4. BuildSummarizedIDSet(new) = UNION {m.covers : m \in {n \in ToSet(new) : n.summary}}
    BY CoveredIs
  <1> HIDE DEF c
  <1>5. c \subseteq BuildSummarizedIDSet(new)
    <2> SUFFICES ASSUME NEW x \in c PROVE x \in BuildSummarizedIDSet(new)
      OBVIOUS
    <2>1. PICK m \in ToSet(log) : m.summary /\ x \in m.covers
      BY <1>3
    <2>2. m.id \notin c
      <3>1. m.id \in SummaryIds
        BY <1>1, <2>1, MessageFields
      <3>2. c \subseteq Originals
        <4>1. \A n \in ToSet(log) : n.covers \subseteq Originals
          BY <1>1, MessageFields
        <4> QED
          BY <1>3, <4>1
      <3> QED
        BY <3>1, <3>2, ConversationAssumption
    <2>3. m \in ToSet(s)
      BY <1>2, <2>1, <2>2
    <2>4. PICK n \in ToSet(new) : n.covers = m.covers /\ n.summary = m.summary
      BY <2>3 DEF Alike
    <2> QED
      BY <1>4, <2>1, <2>4
  <1>6. Ids(log) \subseteq Ids(new) \cup c
    <2> SUFFICES ASSUME NEW m \in ToSet(log), m.id \notin c PROVE m.id \in Ids(new)
      BY IdsOfSet
    <2>1. m \in ToSet(s)
      BY <1>2
    <2>2. m.id \in Ids(s)
      BY <2>1, IdsOfSet
    <2> QED
      BY <2>2 DEF Alike
  <1>7. backend = "memory"
    BY DEF TypeOK
  <1>8. \A id \in kept : id \in Ids(log) \/ rewritten \/ id \in c
    BY DEF SavedIsKept, c
  <1> QED
    BY <1>5, <1>6, <1>7, <1>8 DEF SavedIsKept

LEMMA WriteBackKeeps ==
    ASSUME IInv, NEW p \in Procs, WriteBack(p)
    PROVE  IInv'
  <1> DEFINE o == req[p]
             s == o.msgs
  <1>1. /\ TypeOK /\ RInv /\ Typed /\ StaleIsExplained /\ SavedIsKept
        /\ o \in RequestType /\ o.at = "rename"
    BY IInvParts DEF TypeOK, WriteBack
  <1>2. /\ rewritten' = (rewritten \/ (backend = "memory" /\ "change" \in o.missed))
        /\ backend' = backend /\ exists' = exists /\ cache' = cache /\ left' = left
        /\ kept' = kept /\ astray' = astray
    BY DEF WriteBack
  <1>3. PICK new \in IF backend = "db" \/ ~exists THEN {log}
                     ELSE {s} \cup (IF o.covered = {} THEN {Refreshed(s)} ELSE {}) :
            Commit(p, new, Idle) /\ LapsesWith(new)
    BY DEF WriteBack
  <1>4. lapsed' = (lapsed \/ (cache # None /\ new # log))
    BY <1>3 DEF LapsesWith
  <1>5. s \in ChatMessages /\ Agree(s, log)
    <2>1. Agree(s, log)
      BY <1>1 DEF RInv, SnapshotsOK
    <2> QED
      BY <1>1, <2>1, RequestFields
  <1>6. /\ lapsed \in BOOLEAN /\ rewritten \in BOOLEAN /\ left \in 0..MaxRequests
        /\ exists \in BOOLEAN /\ kept \subseteq Originals /\ log \in ChatMessages
        /\ astray \subseteq SummaryIds /\ (~exists => log = <<>>)
    BY <1>1 DEF TypeOK
  <1>7. /\ lapsed' \in BOOLEAN /\ (lapsed => lapsed') /\ (new # log /\ cache # None => lapsed')
        /\ rewritten' \in BOOLEAN /\ (rewritten => rewritten')
    BY <1>2, <1>4, <1>6
  <1>8. Idle \in RequestType /\ Idle.at = "idle" /\ Writes(Idle)
    BY IdleIsQuiet, IdleFacts
  <1>9. ~Removes(o)
    BY <1>1 DEF Removes
  <1>10. CASE backend = "db" \/ ~exists
    <2>1. new = log
      BY <1>3, <1>10
    <2>2. new \in ChatMessages /\ Grown(log, new)
      BY <1>6, <2>1, GrownSelf
    <2>3. Commit(p, new, Idle)
      BY <1>3
    <2> QED
      BY <1>2, <1>6, <1>7, <1>8, <1>9, <2>1, <2>2, <2>3, GrownCommit
  <1>11. CASE backend # "db" /\ exists
    <2> DEFINE what == Difference(new)
    <2>1. new = s \/ new = Refreshed(s)
      BY <1>3, <1>11
    <2>2. new \in ChatMessages /\ Alike(new, s)
      BY <1>1, <1>5, <2>1, RefreshedFacts, AlikeSelf
    <2>3. /\ Moves(new, what)
          /\ req' \in [Procs -> RequestType]
          /\ req'[p] = Idle
          /\ \A q \in Procs : q # p => req'[q] = Missing(req[q], what)
      BY <1>1, <1>2, <1>3, <1>8, <2>2, Commits
    <2>4. what \in SUBSET {"change", "removal"}
      BY DifferenceFacts
    <2>5. log' = new
      BY <2>3 DEF Moves
    <2>6. RInv'
      BY <1>1, <1>2, <1>11, <2>2, <2>3, AlikeMoves
    <2> HIDE DEF what
    <2>7. TypeOK'
      BY <1>1, <1>2, <1>7, <1>11, <2>2, <2>3, <2>5 DEF TypeOK
    <2>8. \A q \in Procs : Removes(req[q]) => Removes(req'[q])
      BY <1>1, <1>9, <2>3, <2>4, OthersRemove
    <2>9. StaleIsExplained'
      BY <1>1, <1>2, <1>7, <2>5, <2>8, MovesExplain
    <2>10. SavedIsKept'
      <3>1. CASE "change" \in o.missed
        <4>1. backend = "memory"
          BY <1>1, <1>11 DEF TypeOK
        <4> QED
          BY <1>2, <3>1, <4>1 DEF SavedIsKept
      <3>2. CASE "change" \notin o.missed
        <4>1. Current(backend, exists, log, o)
          BY <1>1 DEF RInv, CurrentOK
        <4>2. s = FilterCompacted(log)
          BY <1>1, <3>2, <4>1 DEF Current
        <4> HIDE DEF s
        <4> QED
          BY <1>1, <1>2, <1>7, <1>11, <2>2, <2>5, <4>2, AlikeRecords
      <3> QED
        BY <3>1, <3>2
    <2>11. SummariesStandForMessages'
      <3>1. \A i \in DOMAIN new : new[i].covers \subseteq Originals
        <4> TAKE i \in DOMAIN new
        <4>1. new[i] \in ToSet(new)
          BY DEF ToSet
        <4>2. new[i] \in ChatMessage
          BY <2>2, <4>1, Elements
        <4> QED
          BY <4>2, MessageFields
      <3> QED
        BY <1>2, <1>11, <2>5, <3>1, ConversationAssumption DEF SummariesStandForMessages
    <2> QED
      BY <2>6, <2>7, <2>9, <2>10, <2>11 DEF IInv, RInv
  <1> QED
    BY <1>10, <1>11

\* A session goes.
LEMMA RemoveSessionKeeps ==
    ASSUME IInv, NEW p \in Procs, NEW r \in RequestType, RemoveSession(p, r),
           r.at \in {"idle", "invalidate"}, backend' = backend, cache' = cache,
           left' \in 0..MaxRequests, lapsed' \in BOOLEAN, lapsed => lapsed',
           ~Removes(req[p]), cache # None => lapsed' \/ Removes(r)
    PROVE  IInv'
  <1> DEFINE what == {"change", "removal"}
             new == <<>>
  <1>1. /\ TypeOK /\ RInv /\ Typed /\ StaleIsExplained
    BY IInvParts
  <1>2. /\ exists' = FALSE /\ log' = new /\ kept' = {} /\ rewritten' = FALSE /\ astray' = {}
        /\ req' = [q \in Procs |-> IF q = p THEN r ELSE Missing(req[q], what)]
    BY DEF RemoveSession
  <1>3. \A q \in Procs : Missing(req[q], what) \in RequestType
    BY <1>1, MissingFacts DEF Typed
  <1>4. /\ new \in ChatMessages /\ \A m \in ToSet(new) : ~m.summary
    BY EmptyFacts
  <1>5. Writes(r)
    BY DEF Writes
  <1>6. what \in SUBSET {"change", "removal"} /\ "change" \in what /\ "removal" \in what
    OBVIOUS
  <1> HIDE DEF what, new
  <1>7. req' \in [Procs -> RequestType]
    BY <1>2, <1>3
  <1>8. req'[p] = r /\ \A q \in Procs : q # p => req'[q] = Missing(req[q], what)
    BY <1>2
  <1>9. Moves(new, what)
    BY <1>2, <1>5 DEF Moves
  <1>10. RInv'
    BY <1>1, <1>4, <1>6, <1>9, OriginalsMove
  <1>11. TypeOK'
    BY <1>1, <1>2, <1>4, <1>7 DEF TypeOK, new
  <1>12. \A q \in Procs : Removes(req[q]) => Removes(req'[q])
    BY <1>1, <1>6, <1>8, OthersRemove
  <1>13. StaleIsExplained'
    <2>1. cache # None => lapsed' \/ \E q \in Procs : Removes(req'[q])
      BY <1>8
    <2> QED
      BY <2>1 DEF StaleIsExplained, Removes
  <1>14. SavedIsKept'
    BY <1>2 DEF SavedIsKept
  <1>15. SummariesStandForMessages'
    BY <1>2 DEF SummariesStandForMessages, new
  <1> QED
    BY <1>10, <1>11, <1>13, <1>14, <1>15 DEF IInv, RInv

LEMMA DeleteSessionKeeps ==
    ASSUME IInv, NEW p \in Procs, DeleteSession(p)
    PROVE  IInv'
  <1> DEFINE r == Goto(Idle, "invalidate")
  <1>1. /\ Arrives(p) /\ RemoveSession(p, r) /\ backend' = backend /\ cache' = cache
        /\ lapsed' = lapsed
    BY DEF DeleteSession
  <1>2. r \in RequestType /\ r.at = "invalidate" /\ Removes(r)
    BY LastlyInvalidates
  <1> HIDE DEF r
  <1>3. TypeOK
    BY IInvParts
  <1>4. req[p].at = "idle" /\ left' \in 0..MaxRequests /\ lapsed \in BOOLEAN
    BY <1>1, <1>3, ArrivesFacts DEF TypeOK
  <1>5. ~Removes(req[p])
    BY <1>4 DEF Removes
  <1> QED
    BY <1>1, <1>2, <1>4, <1>5, RemoveSessionKeeps

LEMMA ClearAllKeeps ==
    ASSUME IInv, NEW p \in Procs, ClearAll(p)
    PROVE  IInv'
  <1>1. /\ Arrives(p) /\ RemoveSession(p, Idle) /\ backend' = backend /\ cache' = cache
        /\ lapsed' = (lapsed \/ cache # None)
    BY DEF ClearAll
  <1>2. Idle \in RequestType /\ Idle.at = "idle"
    BY IdleFacts
  <1>3. TypeOK
    BY IInvParts
  <1>4. req[p].at = "idle" /\ left' \in 0..MaxRequests /\ lapsed \in BOOLEAN
    BY <1>1, <1>3, ArrivesFacts DEF TypeOK
  <1>5. ~Removes(req[p])
    BY <1>4 DEF Removes
  <1>6. lapsed' \in BOOLEAN /\ (lapsed => lapsed') /\ (cache # None => lapsed')
    BY <1>1, <1>4
  <1> QED
    BY <1>1, <1>2, <1>4, <1>5, <1>6, RemoveSessionKeeps

\* Two messages have two identifiers.
LEMMA TwoAtLeast ==
    ASSUME NEW s \in ChatMessages, Len(s) >= 2
    PROVE  Cardinality(Ids(s)) >= 2
  <1>1. /\ s \in Seq(ChatMessage)
        /\ \A i, k \in DOMAIN s : s[i].id = s[k].id => i = k
    BY DEF ChatMessages, Unique, IsInjective
  <1>2. Len(s) \in Nat /\ DOMAIN s = 1..Len(s) /\ 1 \in DOMAIN s /\ 2 \in DOMAIN s
    BY <1>1
  <1>3. Ids(s) = {s[i].id : i \in 1..Len(s)}
    BY <1>2 DEF Ids
  <1>4. IsFiniteSet(1..Len(s))
    BY <1>2, FS_Interval
  <1>5. IsFiniteSet(Ids(s))
    <2> DEFINE f == [i \in 1..Len(s) |-> s[i].id]
    <2>1. f \in Surjection(1..Len(s), Ids(s))
      BY <1>3 DEF Surjection
    <2> QED
      BY <1>4, <2>1, FS_Surjection
  <1>6. {s[1].id, s[2].id} \subseteq Ids(s) /\ s[1].id # s[2].id
    BY <1>1, <1>2 DEF Ids
  <1> DEFINE a == s[1].id
             b == s[2].id
  <1>7. {a, b} \subseteq Ids(s) /\ a # b
    BY <1>6
  <1> HIDE DEF a, b
  <1> DEFINE A == {a}
             x == Cardinality(A)
             y == Cardinality(A \cup {b})
             z == Cardinality(Ids(s))
  <1>8. IsFiniteSet(A) /\ x = 1
    BY FS_Singleton
  <1>9. b \notin A /\ A \cup {b} \subseteq Ids(s)
    BY <1>7
  <1> HIDE DEF A
  <1>10. y = x + 1
    BY <1>8, <1>9, FS_AddElement
  <1>11. y <= z /\ z \in Nat
    BY <1>5, <1>9, FS_Subset, FS_CardinalityType
  <1> HIDE DEF x, y, z
  <1>12. z >= 2
    BY <1>8, <1>10, <1>11
  <1> QED
    BY <1>12 DEF z

\* What a new summary stands for is there.
LEMMA SummaryRecords ==
    ASSUME IInv, NEW p \in Procs, req[p].at = "summarize", Unused # {},
           NEW new, new = Append(log, Summary(req[p])),
           log' = new, backend' = backend, kept' = kept, rewritten' = rewritten,
           astray' = IF "removal" \in req[p].missed THEN astray \cup {Summary(req[p]).id} ELSE astray
    PROVE  SavedIsKept' /\ SummariesStandForMessages'
  <1> DEFINE s == Summary(req[p])
             r == req[p]
  <1>1. /\ TypeOK /\ Typed /\ RInv /\ SavedIsKept /\ SummariesStandForMessages
        /\ log \in ChatMessages /\ r \in RequestType
    BY IInvParts DEF TypeOK
  <1>2. /\ s \in ChatMessage
        /\ s.id \in Unused
        /\ s.covers = Ids(r.msgs)
        /\ \A m \in ToSet(r.msgs) : s.ts <= m.ts
    BY <1>1, SummaryFacts
  <1>3. /\ r.msgs \in ChatMessages /\ Compacts(backend, log, r)
    BY <1>1, RequestFields DEF RInv, CompactsOK
  <1>4. new = Append(log, s) /\ astray' = IF "removal" \in r.missed THEN astray \cup {s.id} ELSE astray
    OBVIOUS
  <1>5. "removal" \notin r.missed => astray' = astray
    BY <1>4
  <1>6. astray \subseteq astray' /\ ("removal" \in r.missed => s.id \in astray')
    BY <1>4
  <1> HIDE DEF s, r
  <1>7. s.id \notin Ids(log) /\ s.id \in SummaryIds
    BY <1>2 DEF Unused
  <1>8. /\ new \in ChatMessages
        /\ ToSet(new) = ToSet(log) \cup {s}
        /\ Ids(new) = Ids(log) \cup {s.id}
    BY <1>1, <1>2, <1>4, <1>7, AppendFacts
  <1>9. BuildSummarizedIDSet(log) \subseteq BuildSummarizedIDSet(new)
    <2>1. BuildSummarizedIDSet(log) = UNION {m.covers : m \in {n \in ToSet(log) : n.summary}}
      BY CoveredIs
    <2>2. BuildSummarizedIDSet(new) = UNION {m.covers : m \in {n \in ToSet(new) : n.summary}}
      BY CoveredIs
    <2> QED
      BY <1>8, <2>1, <2>2
  <1>10. SavedIsKept'
    BY <1>1, <1>8, <1>9 DEF SavedIsKept
  <1> DEFINE Stands(m) ==
                 /\ m.covers \cap SummaryIds = {}
                 /\ backend = "db" /\ m.id \notin astray' =>
                       /\ Cardinality(m.covers) >= 2
                       /\ m.covers \subseteq Ids(new)
                       /\ \A n \in ToSet(new) : n.id \in m.covers => n.ts >= m.ts
  <1>11. ASSUME NEW m \in ToSet(new) PROVE m.covers \cap SummaryIds = {}
    <2>1. m \in ChatMessage
      BY <1>8, Elements
    <2> QED
      BY <2>1, MessageFields, ConversationAssumption
  <1>12. ASSUME NEW m \in ToSet(log), m.summary PROVE Stands(m)
    <2>1. PICK j \in DOMAIN log : log[j] = m
      BY DEF ToSet
    <2>2. m.covers \cap SummaryIds = {}
      BY <1>8, <1>11
    <2>3. ASSUME backend = "db", m.id \notin astray'
          PROVE  /\ Cardinality(m.covers) >= 2
                 /\ m.covers \subseteq Ids(log)
                 /\ \A k \in DOMAIN log : log[k].id \in m.covers => log[k].ts >= m.ts
      BY <1>1, <1>6, <1>12, <2>1, <2>3 DEF SummariesStandForMessages
    <2>4. ASSUME backend = "db", m.id \notin astray', NEW n \in ToSet(new), n.id \in m.covers
          PROVE  n.ts >= m.ts
      <3>1. n # s
        BY <1>7, <2>2, <2>4
      <3>2. PICK k \in DOMAIN log : log[k] = n
        BY <1>8, <3>1 DEF ToSet
      <3> QED
        BY <2>3, <2>4, <3>2
    <2> QED
      BY <1>8, <2>2, <2>3, <2>4
  <1>13. Stands(s)
    <2>1. s.covers \cap SummaryIds = {}
      BY <1>8, <1>11
    <2>2. ASSUME backend = "db", s.id \notin astray'
          PROVE  /\ Len(r.msgs) >= 2
                 /\ \A m \in ToSet(r.msgs) : \E n \in ToSet(log) : n.id = m.id /\ n.ts = m.ts
      <3>1. r.at = "summarize" /\ "removal" \notin r.missed
        BY <1>6, <2>2 DEF r
      <3> QED
        BY <1>3, <2>2, <3>1 DEF Compacts
    <2>3. ASSUME backend = "db", s.id \notin astray'
          PROVE  Cardinality(s.covers) >= 2 /\ s.covers \subseteq Ids(new)
      <3>1. Cardinality(s.covers) >= 2
        BY <1>2, <1>3, <2>2, <2>3, TwoAtLeast
      <3>2. \A m \in ToSet(r.msgs) : m.id \in Ids(log)
        BY <2>2, <2>3, IdsOfSet
      <3>3. Ids(r.msgs) \subseteq Ids(log)
        BY <3>2, IdsOfSet
      <3> QED
        BY <1>2, <1>8, <3>1, <3>3
    <2>4. ASSUME backend = "db", s.id \notin astray', NEW n \in ToSet(new), n.id \in s.covers
          PROVE  n.ts >= s.ts
      <3>1. PICK m \in ToSet(r.msgs) : m.id = n.id
        BY <1>2, <2>4, IdsOfSet
      <3>2. PICK l \in ToSet(log) : l.id = m.id /\ l.ts = m.ts
        BY <2>2, <2>4
      <3>3. l = n
        BY <1>8, <3>1, <3>2, Elements
      <3>4. s.ts <= m.ts /\ n.ts = m.ts
        BY <1>2, <3>2, <3>3
      <3>5. n.ts \in Int /\ s.ts \in Int
        <4>1. n \in ChatMessage /\ s \in ChatMessage
          BY <1>2, <1>8, Elements
        <4> QED
          BY <4>1, MessageFields
      <3> QED
        BY <3>4, <3>5
    <2> QED
      BY <2>1, <2>3, <2>4
  <1>14. SummariesStandForMessages'
    <2>1. \A i \in DOMAIN new : new[i] \in ToSet(new)
      BY DEF ToSet
    <2>2. \A i \in DOMAIN new : new[i].summary => Stands(new[i])
      BY <1>8, <1>12, <1>13, <2>1
    <2> QED
      BY <2>1, <2>2 DEF SummariesStandForMessages
  <1> QED
    BY <1>10, <1>14

LEMMA SaveSummaryKeeps ==
    ASSUME IInv, NEW p \in Procs, SaveSummary(p)
    PROVE  IInv'
  <1> DEFINE s == Summary(req[p])
             new == Append(log, s)
             g == Goto(Idle, "invalidate")
             r == [g EXCEPT !.passes = req[p].passes - 1]
             what == Difference(new)
  <1>1. /\ TypeOK /\ RInv /\ Typed /\ StaleIsExplained
        /\ req[p] \in RequestType
    BY IInvParts DEF TypeOK
  <1>2. /\ req[p].at = "summarize" /\ exists /\ Unused # {}
        /\ Commit(p, new, r)
        /\ astray' = IF "removal" \in req[p].missed THEN astray \cup {s.id} ELSE astray
        /\ backend' = backend /\ exists' = exists /\ cache' = cache /\ left' = left
        /\ lapsed' = lapsed /\ kept' = kept /\ rewritten' = rewritten
    BY DEF SaveSummary
  <1>3. s \in ChatMessage /\ s.id \in Unused
    BY <1>1, <1>2, SummaryFacts
  <1>4. s.id \notin Ids(log) /\ s.id \in SummaryIds
    BY <1>3 DEF Unused
  <1>5. req[p].passes \in Nat /\ req[p].passes > 0
    <2>1. Compacts(backend, log, req[p])
      BY <1>1 DEF RInv, CompactsOK
    <2> QED
      BY <1>1, <1>2, <2>1, RequestFields DEF Compacts
  <1>6. g \in RequestType /\ g.at = "invalidate"
    BY LastlyInvalidates
  <1> HIDE DEF g
  <1>7. r \in RequestType /\ r.at = "invalidate"
    <2>1. req[p].passes - 1 \in Nat
      BY <1>5
    <2> QED
      BY <1>6, <2>1 DEF RequestType
  <1> HIDE DEF r
  <1>8. Writes(r) /\ Removes(r)
    BY <1>7 DEF Writes, Removes
  <1>9. new \in ChatMessages
    <2> HIDE DEF s
    <2> QED
      BY <1>1, <1>3, <1>4, AppendFacts DEF Typed
  <1>10. new = Append(log, Summary(req[p]))
    OBVIOUS
  <1>11. astray' = IF "removal" \in req[p].missed THEN astray \cup {Summary(req[p]).id} ELSE astray
    BY <1>2
  <1> HIDE DEF s, new
  <1>12. /\ Moves(new, what)
         /\ req' \in [Procs -> RequestType]
         /\ req'[p] = r
         /\ \A q \in Procs : q # p => req'[q] = Missing(req[q], what)
    BY <1>1, <1>2, <1>7, <1>8, <1>9, Commits
  <1>13. RInv'
    BY <1>1, <1>2, <1>10, <1>12, SummaryMoves
  <1>14. what \in SUBSET {"change", "removal"}
    BY DifferenceFacts
  <1> HIDE DEF what
  <1>15. log' = new /\ backend' = backend
    BY <1>12 DEF Moves
  <1>16. TypeOK'
    <2>1. astray' \subseteq SummaryIds
      BY <1>1, <1>2, <1>4 DEF TypeOK
    <2> QED
      BY <1>1, <1>2, <1>9, <1>12, <1>15, <2>1 DEF TypeOK
  <1>17. \A q \in Procs : Removes(req[q]) => Removes(req'[q])
    BY <1>1, <1>8, <1>12, <1>14, OthersRemove
  <1>18. StaleIsExplained'
    BY <1>1, <1>2, <1>8, <1>12, <1>15, <1>17, MovesExplain
  <1>19. SavedIsKept' /\ SummariesStandForMessages'
    BY <1>2, <1>10, <1>11, <1>15, SummaryRecords
  <1> QED
    BY <1>13, <1>16, <1>18, <1>19 DEF IInv, RInv

-----------------------------------------------------------------------------
(***************************************************************************)
(* Theorems                                                                *)
(***************************************************************************)

LEMMA RequestKeeps ==
    ASSUME IInv, NEW p \in Procs, Request(p)
    PROVE  IInv'
  <1>1. CASE \E limit \in Limits : ReadPage(p, limit)
    BY <1>1, ReadPageKeeps
  <1>2. CASE Preload(p)
    BY <1>2, PreloadKeeps
  <1>3. CASE \E m \in Sent : AddMessage(p, m)
    BY <1>3, AddMessageKeeps
  <1>4. CASE \E id \in Ids(log) : UpdateMessage(p, id) \/ UpdateMessageFails(p, id)
    BY <1>4, UpdateMessageKeeps, UpdateMessageFailsKeeps
  <1>5. CASE \E id \in Ids(log), isPinned \in BOOLEAN : TogglePin(p, id, isPinned)
    BY <1>5, TogglePinKeeps
  <1>6. ASSUME NEW s \in Payloads, PostSession(p, s) PROVE IInv'
    BY <1>6, BringKeeps DEF PostSession, Kinds
  <1>7. ASSUME NEW s \in Payloads, PutSession(p, s) PROVE IInv'
    BY <1>7, BringKeeps DEF PutSession, Kinds
  <1>8. ASSUME NEW s \in Payloads, PostHistory(p, s) PROVE IInv'
    <2>1. Bring(p, "update", "history", s) \/ Bring(p, "create", "history", s)
      BY <1>8 DEF PostHistory
    <2> QED
      BY <2>1, BringKeeps DEF Kinds
  <1>9. CASE RenameSession(p)
    BY <1>9, RenameSessionKeeps
  <1>10. CASE DeleteSession(p)
    BY <1>10, DeleteSessionKeeps
  <1>11. CASE ClearAll(p)
    BY <1>11, ClearAllKeeps
  <1>12. CASE CompactSession(p) \/ ReadTokenStats(p)
    BY <1>12, CompactionArrives
  <1> QED
    BY <1>1, <1>2, <1>3, <1>4, <1>5, <1>6, <1>7, <1>8, <1>9, <1>10, <1>11, <1>12 DEF Request

LEMMA ProceedKeeps ==
    ASSUME IInv, NEW p \in Procs, Proceed(p)
    PROVE  IInv'
  BY CachePageKeeps, DropPageKeeps, InvalidateKeeps, CreateSessionKeeps, UpdateSessionKeeps,
     SaveMessageKeeps, WriteBackKeeps, ReadCoveredKeeps, ChooseBatchKeeps, SaveSummaryKeeps,
     SaveMessageFailsKeeps, CompactionFailsKeeps DEF Proceed

LEMMA StutterKeeps ==
    ASSUME IInv, UNCHANGED vars
    PROVE  IInv'
  BY DEF vars, store, history, IInv, TypeOK, SnapshotsOK, WritesOK, CurrentOK, CompactsOK,
         StaleIsExplained, FirstPage, SavedIsKept, SummariesStandForMessages

\* The inductive invariant: what every request relies on is there, whatever
\* the other requests have done since it has read the log.
THEOREM Invariant == Spec => []IInv
  <1>1. Init => IInv
    BY InitOK
  <1>2. IInv /\ [Next]_vars => IInv'
    <2> SUFFICES ASSUME IInv, [Next]_vars PROVE IInv'
      OBVIOUS
    <2>1. ASSUME NEW p \in Procs, Request(p) \/ Proceed(p) PROVE IInv'
      BY <2>1, RequestKeeps, ProceedKeeps
    <2>2. ASSUME NEW id \in Ids(log), CountTokens(id) PROVE IInv'
      BY <2>2, CountTokensKeeps
    <2>3. CASE Evict
      BY <2>3, EvictKeeps
    <2>4. CASE UNCHANGED vars
      BY <2>4, StutterKeeps
    <2> QED
      BY <2>1, <2>2, <2>3, <2>4 DEF Next
  <1> QED
    BY <1>1, <1>2, PTL DEF Spec

\* However requests that add, save and write back messages interleave, a
\* session never has the same message twice, and summaries and messages of the
\* browser are never taken for each other.
THEOREM TypeCorrect == Spec => []TypeOK
  <1>1. IInv => TypeOK
    BY DEF IInv
  <1> QED
    BY <1>1, Invariant, PTL

\* A page in the cache differs from the storage only while the request that
\* changed the session has yet to remove it, after a read that a change
\* overtook, or after one of the changes that leave the cache alone.
THEOREM StaleOnlyIfExplained == Spec => []StaleIsExplained
  <1>1. IInv => StaleIsExplained
    BY DEF IInv
  <1> QED
    BY <1>1, Invariant, PTL

\* A message that was acknowledged stays in the database until its session
\* goes; in memory it may give way to a summary of it, or to a request that
\* writes a whole session over one it has not just read.
THEOREM SavedStays == Spec => []SavedIsKept
  <1>1. IInv => SavedIsKept
    BY DEF IInv
  <1> QED
    BY <1>1, Invariant, PTL

\* Summaries stand for two messages or more, never for summaries, and on the
\* database these are stored beside them unless they were deleted meanwhile.
THEOREM SummariesStand == Spec => []SummariesStandForMessages
  <1>1. IInv => SummariesStandForMessages
    BY DEF IInv
  <1> QED
    BY <1>1, Invariant, PTL

\* A compaction summarises a message again only if it could not know of the
\* first summary.
THEOREM TwiceOnlyByOverlap == Spec => []SummarizedTwiceOnlyByOverlap
  <1>1. IInv => SummarizedTwiceOnlyByOverlap
    <2> SUFFICES ASSUME IInv, NEW i \in DOMAIN log, NEW k \in DOMAIN log, i # k,
                        log[i].covers \cap log[k].covers # {}
                 PROVE  log[i].id \notin log[k].knew
      BY DEF SummarizedTwiceOnlyByOverlap
    <2>1. log \in ChatMessages /\ Apart(log)
      BY DEF IInv, TypeOK, SnapshotsOK
    <2>2. log[i].id # log[k].id
      BY <2>1 DEF ChatMessages, Unique, IsInjective
    <2>3. log[i] \in ToSet(log) /\ log[k] \in ToSet(log)
      BY DEF ToSet
    <2> QED
      BY <2>1, <2>2, <2>3 DEF Apart
  <1> QED
    BY <1>1, Invariant, PTL

\* A request that finds an up-to-date page in the cache gets the answer of the
\* storage, but for one as long as the page: to this it hides that there are
\* more messages.
THEOREM CacheAnswers == Spec => []CacheAnswersLikeStorage
  <1>1. IInv => CacheAnswersLikeStorage
    <2> SUFFICES ASSUME IInv, cache # None, exists, cache.page = FirstPage(cache.limit),
                        NEW limit \in 1..Cap
                 PROVE  \/ Answer(cache.page, limit) = FromStorage(backend, log, None, limit)
                        \/ limit >= Len(cache.page) /\ Len(log) > Len(cache.page)
      BY DEF CacheAnswersLikeStorage
    <2>1. log \in Seq(ChatMessage) /\ cache.limit \in Nat
      BY Elements DEF IInv, TypeOK
    <2>2. \A m \in ChatMessage : m.ts \in Int
      BY MessageFields
    <2>3. cache.page = FromStorage(backend, log, None, cache.limit).messages
      BY DEF FirstPage
    <2> QED
      BY <2>1, <2>2, <2>3, PageAnswersLikeStorage
  <1> QED
    BY <1>1, Invariant, PTL

LEMMA MaxOfTwo ==
    ASSUME NEW a \in Int, NEW b \in Int
    PROVE  Max({a, b}) >= a /\ Max({a, b}) >= b /\ Max({a, b}) \in {a, b}
  <1>1. \E x \in {a, b} : \A y \in {a, b} : x >= y
    <2>1. CASE a >= b
      <3>1. \A y \in {a, b} : a >= y
        BY <2>1
      <3> QED
        BY <3>1
    <2>2. CASE ~(a >= b)
      <3>1. \A y \in {a, b} : b >= y
        BY <2>2
      <3> QED
        BY <3>1
    <2> QED
      BY <2>1, <2>2
  <1>2. Max({a, b}) \in {a, b} /\ \A y \in {a, b} : Max({a, b}) >= y
    BY <1>1 DEF Max
  <1> QED
    BY <1>2

LEMMA LogFields ==
    ASSUME IInv
    PROVE  /\ log \in Seq(ChatMessage) /\ Distinct(log)
           /\ \A m \in ChatMessage : m.tok \in Nat /\ m.ts \in Int
  <1>1. log \in ChatMessages
    BY DEF IInv, TypeOK
  <1> QED
    BY <1>1, UniqueDistinct DEF ChatMessages, ChatMessage

\* Whatever the session has gone through, the selection within a budget holds
\* every pinned message, exceeds the budget for these only, and leaves out
\* nothing that would have fitted.
THEOREM BudgetAlwaysSpent == Spec => []BudgetIsSpent
  <1>1. IInv => BudgetIsSpent
    <2> SUFFICES ASSUME IInv, NEW budget \in 0..Full
                 PROVE  LET selection == ByTokenBudget(backend, log, budget)
                            visible == ToSet(FilterCompacted(log))
                            pinned == Pinned(selection)
                        IN /\ \A m \in visible \ ToSet(selection) :
                                ~m.pinned /\ Tokens(selection) + m.tok > budget
                           /\ Tokens(selection) <= Max({budget, Tokens(pinned)})
                           /\ \A i, k \in DOMAIN selection : i < k => ~Newer(selection[i], selection[k])
      BY DEF BudgetIsSpent
    <2> DEFINE selection == ByTokenBudget(backend, log, budget)
               pinned == Pinned(selection)
    <2>1. budget \in Int
      BY ConversationAssumption
    <2>2. /\ selection \in Seq(ChatMessage) /\ Distinct(selection)
          /\ Ordered("oldest", selection)
          /\ \A m \in ToSet(FilterCompacted(log)) \ ToSet(selection) :
                ~m.pinned /\ Tokens(selection) + m.tok > budget
          /\ Tokens(selection) <= budget \/ Tokens(selection) = Tokens(pinned)
      <3>1. log \in Seq(ChatMessage) /\ Distinct(log)
        BY LogFields
      <3>2. \A m \in ChatMessage : m.tok \in Nat /\ m.ts \in Int
        BY LogFields
      <3> QED
        BY <2>1, <3>1, <3>2, ByTokenBudgetFacts
    <2> HIDE DEF selection
    <2>3. PICK P \in SUBSET DOMAIN selection : pinned = Only(selection, P)
      <3> DEFINE Q == {i \in DOMAIN selection : selection[i].pinned}
      <3>1. Q \in SUBSET DOMAIN selection
        OBVIOUS
      <3>2. pinned = Only(selection, Q)
        BY DEF Pinned
      <3> HIDE DEF Q
      <3> QED
        BY <3>1, <3>2
    <2>4. pinned \in Seq(ChatMessage) /\ Distinct(pinned)
      BY <2>2, <2>3, OnlyDistinct
    <2> HIDE DEF pinned
    <2>5. Tokens(pinned) \in Int /\ Tokens(selection) \in Int
      <3>1. \A m \in ChatMessage : m.tok \in Nat
        BY LogFields
      <3>2. Tokens(pinned) \in Nat
        BY <2>4, <3>1, TokensAre
      <3>3. Tokens(selection) \in Nat
        BY <2>2, <3>1, TokensAre
      <3> QED
        BY <3>2, <3>3
    <2>6. Tokens(selection) <= Max({budget, Tokens(pinned)})
      <3> DEFINE tp == Tokens(pinned)
                 ts == Tokens(selection)
                 max == Max({budget, tp})
      <3>1. max >= budget /\ max >= tp /\ max \in {budget, tp}
        BY <2>1, <2>5, MaxOfTwo
      <3>2. ts <= budget \/ ts = tp
        BY <2>2
      <3>3. ts \in Int /\ tp \in Int
        BY <2>5
      <3> HIDE DEF max, tp, ts
      <3>4. ts <= max
        BY <2>1, <3>1, <3>2, <3>3
      <3> QED
        BY <3>4 DEF max, tp, ts
    <2>7. ASSUME NEW i \in DOMAIN selection, NEW k \in DOMAIN selection, i < k
          PROVE  ~Newer(selection[i], selection[k])
      <3>1. ~Older(selection[k], selection[i])
        BY <2>2, <2>7 DEF Ordered, Before
      <3>2. selection[i] \in ChatMessage /\ selection[k] \in ChatMessage
        BY <2>2
      <3>3. selection[i].ts \in Int /\ selection[k].ts \in Int
        BY <3>2, LogFields
      <3> QED
        BY <3>1, <3>3 DEF Newer, Older
    <2> QED
      BY <2>2, <2>6, <2>7 DEF pinned, selection
  <1> QED
    BY <1>1, Invariant, PTL

\* And the window made of it for the model holds all error messages and the
\* newest others, at least the minimum of them, in chronological order.
THEOREM WindowIsNewest == Spec => []WindowKeepsNewest
  <1>1. IInv => WindowKeepsNewest
    <2> SUFFICES ASSUME IInv, NEW budget \in 0..Full, NEW least \in 1..2
                 PROVE  LET window == ContextWindow(backend, log, least, budget)
                            errors == ErrorMessages(window)
                            regular == RegularMessages(window)
                        IN /\ \A m \in ToSet(ByTokenBudget(backend, log, budget)) \ ToSet(window) :
                                /\ ~m.error
                                /\ Len(regular) >= least
                                /\ \A i \in DOMAIN regular : ~Newer(m, regular[i])
                           /\ \/ Len(regular) <= least
                              \/ Tokens(window) <= Max({budget, Tokens(errors)})
                           /\ \A i, k \in DOMAIN window : i < k => ~Newer(window[i], window[k])
      BY DEF WindowKeepsNewest
    <2> DEFINE window == ContextWindow(backend, log, least, budget)
               errors == ErrorMessages(window)
               regular == RegularMessages(window)
    <2>1. budget \in Nat /\ least \in Nat
      BY ConversationAssumption
    <2>2. /\ window \in Seq(ChatMessage) /\ Distinct(window)
          /\ Ordered("oldest", window)
          /\ \A m \in ToSet(ByTokenBudget(backend, log, budget)) \ ToSet(window) :
                /\ ~m.error
                /\ Len(regular) >= least
                /\ \A i \in DOMAIN regular : ~Newer(m, regular[i])
          /\ \/ Len(regular) <= least
             \/ Tokens(window) <= budget
             \/ Tokens(window) <= Tokens(errors)
          /\ Tokens(errors) \in Nat
      <3>1. log \in Seq(ChatMessage) /\ Distinct(log)
        BY LogFields
      <3>2. \A m \in ChatMessage : m.tok \in Nat /\ m.ts \in Int
        BY LogFields
      <3> QED
        BY <2>1, <3>1, <3>2, ContextWindowFacts
    <2> HIDE DEF window
    <2>3. Tokens(window) \in Nat
      <3>1. \A m \in ChatMessage : m.tok \in Nat
        BY LogFields
      <3> QED
        BY <2>2, <3>1, TokensAre
    <2>4. Len(regular) <= least \/ Tokens(window) <= Max({budget, Tokens(errors)})
      <3> DEFINE te == Tokens(errors)
                 tw == Tokens(window)
                 max == Max({budget, te})
                 few == Len(regular) <= least
      <3>1. budget \in Int /\ te \in Int /\ tw \in Int
        BY <2>1, <2>2, <2>3
      <3>2. few \/ tw <= budget \/ tw <= te
        BY <2>2
      <3> HIDE DEF te, tw, few
      <3>3. max >= budget /\ max >= te /\ max \in {budget, te}
        BY <3>1, MaxOfTwo
      <3> HIDE DEF max
      <3>4. few \/ tw <= max
        BY <3>1, <3>2, <3>3
      <3> QED
        BY <3>4 DEF max, te, tw, few
    <2>5. ASSUME NEW i \in DOMAIN window, NEW k \in DOMAIN window, i < k
          PROVE  ~Newer(window[i], window[k])
      <3>1. ~Older(window[k], window[i])
        BY <2>2, <2>5 DEF Ordered, Before
      <3>2. window[i] \in ChatMessage /\ window[k] \in ChatMessage
        BY <2>2
      <3>3. window[i].ts \in Int /\ window[k].ts \in Int
        BY <3>2, LogFields
      <3> QED
        BY <3>1, <3>3 DEF Newer, Older
    <2> HIDE DEF errors, regular
    <2> QED
      BY <2>2, <2>4, <2>5 DEF window, errors, regular
  <1> QED
    BY <1>1, Invariant, PTL

\* Who turns the pages of a session, or of a search, sees all messages once,
\* but for those with the timestamp at which a page ends on the database, and
\* for searches of several pages in memory.
THEOREM PagesAlwaysTile == Spec => []PagesTile
  <1>1. IInv => PagesTile
    <2> SUFFICES ASSUME IInv PROVE PagesVisitAll /\ SearchPagesTile
      BY DEF PagesTile
    <2>1. log \in Seq(ChatMessage) /\ Unique(log) /\ backend \in {"db", "memory"}
      BY DEF IInv, TypeOK, ChatMessages
    <2>2. \A m \in ChatMessage : m.ts \in Int /\ m.id # None
      BY MessageFields, ConversationAssumption
    <2>3. ASSUME NEW limit \in 1..(Cap - 1)
          PROVE  LET pages == Visited(backend, log, limit)
                 IN /\ Unique(Shown(pages))
                    /\ \A m \in ToSet(log) : m \in ToSet(Shown(pages)) \/ (backend = "db" /\ m.ts \in Cuts(pages))
      <3> DEFINE pages == Visited(backend, log, limit)
                 cuts == Cuts(pages)
                 seen == Shown(pages)
      <3>1. Unique(seen) /\ \A m \in ToSet(log) : m \in ToSet(seen) \/ (backend = "db" /\ m.ts \in cuts)
        <4>1. Unique(seen)
          BY <2>1, <2>2, VisitedFacts
        <4>2. ASSUME NEW m \in ToSet(log), m \notin ToSet(seen)
              PROVE  backend = "db" /\ m.ts \in cuts
          BY <2>1, <2>2, <4>2, VisitedFacts
        <4> HIDE DEF seen, cuts
        <4> QED
          BY <4>1, <4>2
      <3> HIDE DEF seen, cuts
      <3> QED
        BY <3>1 DEF seen, cuts
    <2>4. PagesVisitAll
      BY <2>3 DEF PagesVisitAll
    <2>5. ASSUME NEW found \in 0..Len(log), NEW limit \in 1..(Cap - 1),
                 backend = "db" \/ Len(Take(log, found)) < limit
          PROVE  LET hits == Take(log, found)
                 IN FlattenSeq([n \in 1..Len(hits) |->
                        SearchMessages(backend, hits, limit, (n - 1) * limit)]) = hits
      <3> DEFINE hits == Take(log, found)
      <3>1. found \in Nat /\ limit \in Nat \ {0}
        BY <2>1, CapAssumption
      <3>2. hits \in Seq(ChatMessage)
        BY <2>1, <3>1, TakeFacts
      <3>3. backend # "memory" \/ Len(hits) < limit
        BY <2>5
      <3> HIDE DEF hits
      <3>4. FlattenSeq([n \in 1..Len(hits) |->
               SearchMessages(backend, hits, limit, (n - 1) * limit)]) = hits
        BY <3>1, <3>2, <3>3, SearchTiles
      <3> QED
        BY <3>4 DEF hits
    <2>6. SearchPagesTile
      BY <2>5 DEF SearchPagesTile
    <2> QED
      BY <2>4, <2>6
  <1> QED
    BY <1>1, Invariant, PTL
=============================================================================
