------------------------- MODULE VerificationHistory -------------------------
(***************************************************************************)
(* getVerificationHistory (sdk/src/verify.ts) over the events a contract   *)
(* publishes, and an application that follows the history: it asks again   *)
(* from the ledger of the newest entry it has.                             *)
(*                                                                         *)
(* The RPC node learns of a ledger some time after it closes, keeps its    *)
(* events for a while, and answers with the oldest matching ones it has,   *)
(* up to the limit.  A request can fail, and then it is sent again.        *)
(***************************************************************************)
EXTENDS Naturals, Sequences, FiniteSets

CONSTANTS
  PageLimits,     \* values of opts.limit
  NoFilter,       \* opts.successFilter is undefined
  Undecodable,    \* the body of an event another contract version published
  LastLedger,     \* bound: the last ledger of the model
  MaxEvents       \* bound: events published

Kinds == {TRUE, FALSE, Undecodable}
Filters == {TRUE, FALSE, NoFilter}

ASSUME LimitsAssumption == PageLimits \subseteq Nat \ {0}
ASSUME HistoryBoundsAssumption == LastLedger \in Nat /\ MaxEvents \in Nat

VARIABLES
  log,        \* the events published, in order: their ledger and success field
  current,    \* the ledger now open
  ingested,   \* the last ledger the node has
  kept,       \* the first ledger whose events the node still has
  limit,      \* the application's opts.limit
  filter,     \* the application's opts.successFilter
  start,      \* the startLedger it asks with next
  page,       \* the last answer: the positions in log of its entries
  seen,       \* positions in log of every entry it got
  lost,       \* history: positions the node dropped before the application saw them
  more        \* history: matching positions the node had beyond the last page

historyVars == <<log, current, ingested, kept, limit, filter, start, page, seen, lost, more>>

Matches(i) ==
  log[i].success # Undecodable /\ (filter = NoFilter \/ log[i].success = filter)

\* The positions of the events the node answers from.
Available == {i \in DOMAIN log : log[i].ledger \in kept..ingested /\ log[i].ledger >= start}

\* getEvents answers with the oldest of them; the limit is the node's, so it
\* comes before the filter.
GetEvents == {i \in Available : Cardinality({j \in Available : j < i}) < limit}

\* Fault: the entries are left in the node's order.
EntriesOldestFirst(events) ==
  [k \in 1..Cardinality(events) |->
     CHOOSE i \in events : Cardinality({j \in events : j < i}) = k - 1]

\* The list of the loop over response.events, reversed: the newest comes first.
Entries(events) ==
  [k \in 1..Cardinality(events) |->
     CHOOSE i \in events : Cardinality({j \in events : j > i}) = k - 1]

----------------------------------------------------------------------------
Publish(success) ==
  /\ Len(log) < MaxEvents
  /\ log' = Append(log, [ledger |-> current, success |-> success])
  /\ UNCHANGED <<current, ingested, kept, limit, filter, start, page, seen, lost, more>>

CloseOpenLedger ==
  /\ current < LastLedger
  /\ current' = current + 1
  /\ UNCHANGED <<log, ingested, kept, limit, filter, start, page, seen, lost, more>>

Ingest ==
  /\ ingested + 1 < current
  /\ ingested' = ingested + 1
  /\ UNCHANGED <<log, current, kept, limit, filter, start, page, seen, lost, more>>

Prune ==
  /\ kept <= ingested
  /\ kept' = kept + 1
  /\ lost' = lost \cup {i \in DOMAIN log : log[i].ledger = kept /\ i \notin seen}
  /\ UNCHANGED <<log, current, ingested, limit, filter, start, page, seen, more>>

Deliver(events) ==
  /\ page' = Entries(events)
  /\ seen' = seen \cup events
  /\ start' = IF events = {} THEN start ELSE log[Entries(events)[1]].ledger
  /\ more' = {i \in Available : Matches(i)} \ events
  /\ UNCHANGED <<log, current, ingested, kept, limit, filter, lost>>

\* Fault: every event is asked for and the newest ones are kept.
GetVerificationHistoryNewest ==
  LET matching == {i \in Available : Matches(i)}
  IN  Deliver({i \in matching : Cardinality({j \in matching : j > i}) < limit})

\* The events the loop leaves out fail to decode or to pass the filter.  The
\* application's next request starts at the ledger of its newest entry.
GetVerificationHistory == Deliver({i \in GetEvents : Matches(i)})

HistoryInit ==
  /\ log = <<>> /\ current = 1 /\ ingested = 0 /\ kept = 1
  /\ limit \in PageLimits /\ filter \in Filters
  /\ start = 0 /\ page = <<>> /\ seen = {} /\ lost = {} /\ more = {}

HistoryNext ==
  \/ \E success \in Kinds : Publish(success)
  \/ CloseOpenLedger \/ Ingest \/ Prune
  \/ GetVerificationHistory

HistorySpec == HistoryInit /\ [][HistoryNext]_historyVars

----------------------------------------------------------------------------
\* An application that asks again from the ledger of its newest entry misses
\* nothing on the way but what the node had dropped, even when a page ends
\* within a ledger (verify.ts:944-969: the limit keeps the oldest events).
FollowingMissesNothing ==
  \A i \in DOMAIN log : Matches(i) /\ log[i].ledger < start => i \in seen \cup lost

\* The doc of opts.limit (verify.ts:903-906): fewer entries than the limit come
\* back only when the requested range has no more.  It fails when a filter is
\* set: the node spends the limit on events the loop then leaves out.
FewerOnlyIfNoMore == Len(page) < limit => more = {}
=============================================================================
