------------------------------ MODULE Messages ------------------------------
(***************************************************************************)
(* The messages of one session, as the two storages that can compact a     *)
(* session keep them (DBStorage and MemoryStorage of pkg/storage), in what *)
(* order they are read, and what is selected from them: the batch for a    *)
(* compaction, and the messages for the model's context.                   *)
(*                                                                         *)
(* A log is the sequence of a session's messages in their order of         *)
(* arrival.  A message is a record with fields                             *)
(*   id       unique in the log                                            *)
(*   ts       its timestamp, which messages may share                      *)
(*   tok      its token_count, zero until it is counted                    *)
(*   pinned, summary, error                                                *)
(*   covers   the identifiers a summary replaces                           *)
(* SQL leaves the order of equal timestamps open: a database is taken to   *)
(* return them in their order of arrival, and no property depends on it.   *)
(***************************************************************************)
EXTENDS Integers, Sequences, FiniteSets, FiniteSetsExt, SequencesExt

Ids(log) == {log[i].id : i \in DOMAIN log}

\* Identifiers are unique in a log.
Unique(log) == IsInjective([i \in DOMAIN log |-> log[i].id])

Message(log, id) == log[CHOOSE i \in DOMAIN log : log[i].id = id]

Tokens(log) == MapThenSumSet(LAMBDA i : log[i].tok, DOMAIN log)

Take(s, n) == SubSeq(s, 1, IF n < Len(s) THEN n ELSE Len(s))

-----------------------------------------------------------------------------
\* The elements of s at the places given to their positions.
Arranged(s, place) ==
    [n \in 1..Cardinality(DOMAIN place) |-> s[CHOOSE i \in DOMAIN place : place[i] = n]]

\* The elements of s at the positions in I, in their order.
Only(s, I) == Arranged(s, [i \in I |-> Cardinality({k \in I : k <= i})])

\* What summaries stand for is left out of what is read.
BuildSummarizedIDSet(log) ==
    UNION {log[i].covers : i \in {k \in DOMAIN log : log[k].summary}}

FilterCompacted(log) ==
    Only(log, {i \in DOMAIN log : log[i].id \notin BuildSummarizedIDSet(log)})

Newer(m, n) == m.ts > n.ts
Older(m, n) == m.ts < n.ts

Before(order, m, n) == IF order = "newest" THEN Newer(m, n) ELSE Older(m, n)

\* ORDER BY timestamp ASC or DESC, and sort.Slice on a short slice.
SortBy(order, log) ==
    LET Ahead(k, i) == Before(order, log[k], log[i])
        ahead(i) == {k \in DOMAIN log : Ahead(k, i) \/ (k <= i /\ ~Ahead(i, k))}
    IN Arranged(log, [i \in DOMAIN log |-> Cardinality(ahead(i))])

\* The nested loops that swap what they find out of order: equal timestamps
\* may change places.
Exchanged(order, s, i, k) ==
    IF i < k /\ Before(order, s[k], s[i])
    THEN [n \in DOMAIN s |-> s[IF n = i THEN k ELSE IF n = k THEN i ELSE n]]
    ELSE s

Exchanges(order, log) ==
    LET n == Len(log)
        steps[t \in 0..(n * n)] ==
            IF t = 0 THEN log
            ELSE Exchanged(order, steps[t - 1], 1 + ((t - 1) \div n), 1 + ((t - 1) % n))
    IN steps

ExchangeSort(order, log) == Exchanges(order, log)[Len(log) * Len(log)]

Sorted(b, order, log) ==
    IF b = "db" THEN SortBy(order, log) ELSE ExchangeSort(order, log)

-----------------------------------------------------------------------------
(***************************************************************************)
(* Batches and selections                                                  *)
(***************************************************************************)

\* The longest beginning of s within budget, but at least least messages.
LongestPrefix(s, least, budget) ==
    Take(s, Max({n \in 0..Len(s) : n <= least \/ Tokens(Take(s, n)) <= budget}))

\* Mutation: summaries are summarised again.
OldestWithSummaries(b, log, covered, limit) ==
    LET left == {i \in DOMAIN log : log[i].id \notin covered} IN
    LongestPrefix(Sorted(b, "oldest", Only(log, left)), 1, limit)

\* GetOldestNonSummaryMessages: the first of them even if it alone is longer
\* than the limit.
OldestNonSummary(b, log, covered, limit) ==
    LET left == {i \in DOMAIN log : ~log[i].summary /\ log[i].id \notin covered} IN
    LongestPrefix(Sorted(b, "oldest", Only(log, left)), 1, limit)

Pinned(s) == Only(s, {i \in DOMAIN s : s[i].pinned})
Unpinned(s) == Only(s, {i \in DOMAIN s : ~s[i].pinned})

ErrorMessages(s) == Only(s, {i \in DOMAIN s : s[i].error})
RegularMessages(s) == Only(s, {i \in DOMAIN s : ~s[i].error})

\* Mutation: pinned messages are not charged to the budget.
AddIfFitsFreePins(budget, sel, m) ==
    IF Tokens(Unpinned(sel)) + m.tok <= budget THEN Append(sel, m) ELSE sel

AddIfFits(budget, sel, m) ==
    IF Tokens(sel) + m.tok <= budget THEN Append(sel, m) ELSE sel

\* What is selected once the first n of the others have been looked at.
Filled(budget, pinned, others) ==
    LET sel[n \in 0..Len(others)] ==
            IF n = 0 THEN pinned ELSE AddIfFits(budget, sel[n - 1], others[n])
    IN sel

\* GetMessagesByTokenBudget: every pinned message, then the others from the
\* newest on, passing over those that do not fit; oldest first.
ByTokenBudget(b, log, budget) ==
    LET newest == Sorted(b, "newest", FilterCompacted(log))
        others == Unpinned(newest)
    IN ExchangeSort("oldest", Filled(budget, Pinned(newest), others)[Len(others)])

\* SlidingWindow.SelectMessages: the newest messages, at least least of them,
\* up to the first that exceeds the budget; oldest first.
SelectMessages(log, least, budget) ==
    Reverse(LongestPrefix(SortBy("newest", log), least, budget))

\* Mutation: the error messages are not charged to the budget of the others.
ContextWindowFreeErrors(b, log, least, budget) ==
    LET chosen == ByTokenBudget(b, log, budget)
        selected == SelectMessages(RegularMessages(chosen), least, budget)
    IN ExchangeSort("oldest", selected \o ErrorMessages(chosen))

\* ContextBuilder: the error messages among those the storage selects are
\* kept, the window is applied to the others.
ContextWindow(b, log, least, budget) ==
    LET chosen == ByTokenBudget(b, log, budget)
        errors == ErrorMessages(chosen)
        rest == budget - Tokens(errors)
        selected == SelectMessages(RegularMessages(chosen), least, IF rest < 0 THEN 0 ELSE rest)
    IN IF errors = <<>> THEN selected ELSE ExchangeSort("oldest", selected \o errors)
=============================================================================
