---------------------------- MODULE SourceLedger ----------------------------
(***************************************************************************)
(* How a batch is reconciled with the source: _build_source_control of      *)
(* src/pipeline_control/control.py, summarize_bronze_transactions of        *)
(* manifest.py, and the control rules of 4_process_cdc_raw_vault.py.        *)
(*                                                                          *)
(* A source transaction writes its ledger row together with its changes,    *)
(* and with it a boundary: the WAL position at that moment, which is before *)
(* its commit.  Its CDC events reach several topics; each topic is in       *)
(* commit order, but the topics arrive in Bronze independently, and the     *)
(* connector may deliver again what it delivered before.  A batch cuts      *)
(* every topic at the offset it has listed.  The control frozen into its    *)
(* manifest must show whole transactions of the ledger and nothing else, or *)
(* the batch can only be superseded.                                        *)
(***************************************************************************)
EXTENDS Integers, Sequences, FiniteSets

CONSTANTS
    Topics,
    Sessions,    \* number of database sessions that may write at the same time
    Shapes,      \* events a transaction has in each topic
    None,        \* no batch
    MaxCommits,  \* bound: committed transactions
    MaxFaults    \* bound: writes outside the workload, and redeliveries

VARIABLES
    wal,       \* the WAL insert position
    open,      \* transactions in progress
    commits,   \* committed transactions, in commit order; the index is the txid
    topic,     \* Kafka topics: the txid of each event
    bronze,    \* events of each topic that are Bronze objects
    batch,     \* the unfinished batch
    high,      \* the high watermark of the latest published batch, per topic
    missed,    \* events at or below it that the listing of their batch missed
    boundary,  \* the highest boundary position of a published ledger row
    faults     \* faults so far

source == <<wal, open, commits>>
vars == <<source, topic, bronze, batch, high, missed, boundary, faults>>

Transaction == [shape: Shapes, boundary: Nat, recorded: BOOLEAN]

ASSUME LedgerAssumption ==
    /\ IsFiniteSet(Topics)
    /\ Shapes \subseteq [Topics -> Nat]
    /\ \A s \in Shapes : \E t \in Topics : s[t] > 0
    /\ Sessions \in Nat /\ MaxCommits \in Nat /\ MaxFaults \in Nat

Init ==
    /\ wal = 0
    /\ open = {}
    /\ commits = <<>>
    /\ topic = [t \in Topics |-> <<>>]
    /\ bronze = [t \in Topics |-> 0]
    /\ batch = None
    /\ high = [t \in Topics |-> 0]
    /\ missed = {}
    /\ boundary = 0
    /\ faults = 0

-----------------------------------------------------------------------------
(* The source.                                                              *)
(* Changes are made and, by execute_event, a ledger row: its boundary is    *)
(* read now.  A write outside the workload, the rows the connector reads    *)
(* when it is first started among them, has no ledger row.                  *)
Begin(shape, recorded) ==
    /\ Cardinality(open) < Sessions
    /\ Len(commits) + Cardinality(open) < MaxCommits
    /\ recorded \/ faults < MaxFaults
    /\ faults' = IF recorded THEN faults ELSE faults + 1
    /\ wal' = wal + 1
    /\ open' = open \cup {[shape |-> shape, boundary |-> wal + 1, recorded |-> recorded]}
    /\ UNCHANGED <<commits, topic, bronze, batch, high, missed, boundary>>

Events(txid, n) == [i \in 1 .. n |-> txid]

Deliver(txid, shape) == topic' = [t \in Topics |-> topic[t] \o Events(txid, shape[t])]

(* The connector streams whole transactions in commit order.                *)
Commit(x) ==
    /\ commits' = Append(commits, x)
    /\ Deliver(Len(commits) + 1, x.shape)
    /\ open' = open \ {x}
    /\ UNCHANGED <<wal, bronze, batch, high, missed, boundary, faults>>

(* The action raises, or the process dies, before the commit.               *)
Rollback(x) ==
    /\ faults < MaxFaults
    /\ faults' = faults + 1
    /\ open' = open \ {x}
    /\ UNCHANGED <<wal, commits, topic, bronze, batch, high, missed, boundary>>

(* The connector restarts before it saved how far it was.                   *)
Redeliver ==
    /\ commits # <<>>
    /\ faults < MaxFaults
    /\ faults' = faults + 1
    /\ Deliver(Len(commits), commits[Len(commits)].shape)
    /\ UNCHANGED <<source, bronze, batch, high, missed, boundary>>

Arrive(t) ==
    /\ bronze[t] < Len(topic[t])
    /\ bronze' = [bronze EXCEPT ![t] = @ + 1]
    /\ UNCHANGED <<source, topic, batch, high, missed, boundary, faults>>

-----------------------------------------------------------------------------
(* _build_source_control for the objects above the published watermarks and *)
(* up to a listing.                                                         *)
Largest(S) == CHOOSE n \in S : \A m \in S : m <= n

(* Mutant: the listing counts what is in Kafka.                             *)
KafkaOffsets == {l \in [Topics -> UNION {0 .. Len(topic[t]) : t \in Topics}] :
                    \A t \in Topics : high[t] <= l[t] /\ l[t] <= Len(topic[t])}

Listings == {l \in [Topics -> UNION {0 .. bronze[t] : t \in Topics}] :
                \A t \in Topics : high[t] <= l[t] /\ l[t] <= bronze[t]}

(* The pages of a listing are read one after the other: an event that lands *)
(* behind the page being read is missed, one that lands ahead of it is not. *)
(* Bound: one event, counted as a fault.                                    *)
Holes(listing) ==
    {{}} \cup UNION {{{<<t, o>>} : o \in high[t] + 1 .. listing[t] - 1} : t \in Topics}

Between(t, txid, low, top) == {<<t, o>> : o \in {p \in low + 1 .. top : topic[t][p] = txid}}

(* The events of a transaction in an interval of every topic, but a hole.   *)
EventsIn(txid, low, top, hole) ==
    (UNION {Between(t, txid, low[t], top[t]) : t \in Topics}) \ hole

Count(txid, low, top, hole) == Cardinality(EventsIn(txid, low, top, hole))

(* expected_cdc_event_count: a transaction's changes, numbered per topic.   *)
Changes(shape) == UNION {{t} \X (1 .. shape[t]) : t \in Topics}
Size(txid) == Cardinality(Changes(commits[txid].shape))

Zero == [t \in Topics |-> 0]
Txids == DOMAIN commits

Observed(listing, hole) == {i \in Txids : Count(i, high, listing, hole) > 0}

(* Mutant: the published boundary is not asked for.                         *)
RecordedFromStart == {i \in Txids : commits[i].recorded}

(* The ledger rows above the published boundary.                            *)
Recorded == {i \in Txids : commits[i].recorded /\ commits[i].boundary > boundary}

(* Mutant: only the transactions that were seen are looked up.              *)
OnlyObserved(listing, hole) == Recorded \cap Observed(listing, hole)

(* _ledger_rows_through_observed_boundary.                                  *)
ThroughObservedBoundary(listing, hole) ==
    {i \in Recorded : \E j \in Recorded \cap Observed(listing, hole) :
                          commits[i].boundary <= commits[j].boundary}

(* Mutant: a transaction with more events than expected passes.             *)
BalancedAtLeast(listing, hole) ==
    /\ \A i \in ThroughObservedBoundary(listing, hole) :
        Count(i, high, listing, hole) >= Size(i)
    /\ Observed(listing, hole) \subseteq ThroughObservedBoundary(listing, hole)

(* SOURCE_LEDGER_TO_BRONZE_EVENTS, SOURCE_TRANSACTION_COMPLETENESS and      *)
(* UNTRACKED_SOURCE_EVENTS; the second implies the first.                   *)
Balanced(listing, hole) ==
    /\ \A i \in ThroughObservedBoundary(listing, hole) :
        Count(i, high, listing, hole) = Size(i)
    /\ Observed(listing, hole) \subseteq ThroughObservedBoundary(listing, hole)

SealListing(listing, hole) ==
    /\ batch = None
    /\ \E t \in Topics : listing[t] > 0
    /\ hole # {} => faults < MaxFaults
    /\ batch' = [high |-> listing, missed |-> hole, balanced |-> Balanced(listing, hole),
                 boundary |-> Largest({boundary} \cup
                     {commits[i].boundary : i \in ThroughObservedBoundary(listing, hole)})]
    /\ faults' = IF hole = {} THEN faults ELSE faults + 1
    /\ UNCHANGED <<source, topic, bronze, high, missed, boundary>>

(* A listing may be behind what has landed when the ledger is read.         *)
Seal == \E listing \in Listings : \E hole \in Holes(listing) : SealListing(listing, hole)

(* The listing is complete and nothing lands during it.                     *)
SealAll == SealListing(bronze, {})

(* Mutant: a failed control does not stop the batch.                        *)
MayPublishAny == TRUE

(* The rules pass, as far as the source is concerned.                       *)
MayPublish == batch.balanced

Publish ==
    /\ batch # None
    /\ MayPublish
    /\ high' = batch.high
    /\ missed' = missed \cup batch.missed
    /\ boundary' = batch.boundary
    /\ batch' = None
    /\ UNCHANGED <<source, topic, bronze, faults>>

(* Mutant: the boundary of a superseded batch counts as published.          *)
SupersedeButKeepBoundary ==
    /\ batch # None
    /\ batch' = None
    /\ boundary' = batch.boundary
    /\ UNCHANGED <<source, topic, bronze, high, missed, faults>>

Supersede ==
    /\ batch # None
    /\ batch' = None
    /\ UNCHANGED <<source, topic, bronze, high, missed, boundary, faults>>

-----------------------------------------------------------------------------
Next ==
    \/ \E shape \in Shapes, recorded \in BOOLEAN : Begin(shape, recorded)
    \/ \E x \in open : Commit(x) \/ Rollback(x)
    \/ Redeliver
    \/ \E t \in Topics : Arrive(t)
    \/ Seal \/ Publish \/ Supersede

(* Transactions end, events arrive, every batch is published or given up,   *)
(* somebody seals again when nothing is landing, and a batch of everything  *)
(* that landed is not given up again and again if it can be published.      *)
Fairness ==
    /\ WF_vars(\E x \in open : Commit(x))
    /\ \A t \in Topics : WF_vars(Arrive(t))
    /\ WF_vars(Publish \/ Supersede)
    /\ SF_vars(batch # None /\ batch.high = bronze /\ batch.missed = {} /\ Publish)
    /\ SF_vars(SealAll)

Spec == Init /\ [][Next]_vars /\ Fairness

-----------------------------------------------------------------------------
(* Positions, events and watermarks are well formed.                        *)
TypeOK ==
    /\ wal \in Nat
    /\ open \subseteq Transaction
    /\ commits \in Seq(Transaction)
    /\ \A t \in Topics : \A o \in DOMAIN topic[t] : topic[t][o] \in Txids
    /\ \A t \in Topics : high[t] <= bronze[t] /\ bronze[t] <= Len(topic[t])
    /\ \A e \in missed : e[2] < high[e[1]]
    /\ boundary <= wal
    /\ faults \in 0 .. MaxFaults

Published(txid) == Count(txid, Zero, high, missed) > 0

(* A transaction is published whole or not at all, with the changes it      *)
(* declared and once each, however its topics arrive, whatever is listed    *)
(* and whatever the connector delivers twice; and none that is missing from *)
(* the ledger is published.                                                 *)
TransactionsAreWhole ==
    \A i \in Txids : Published(i) => commits[i].recorded /\ Count(i, Zero, high, missed) = Size(i)

(* A transaction that read its boundary before another one's and committed  *)
(* after it: its ledger row is below a boundary that may be published       *)
(* already, and then no batch ever looks for it.                            *)
Overtaken(i) == \E j \in 1 .. i - 1 : commits[j].boundary > commits[i].boundary

(* What is published is one moment of the source: with a transaction, all   *)
(* that committed before it are published, even those that share no topic   *)
(* with it.  Only around a transaction that was overtaken, or that is not   *)
(* in the ledger, something earlier can be left out.                        *)
PublishedIsOneMoment ==
    \A i, j \in Txids :
        /\ i < j /\ Published(j)
        /\ commits[i].recorded
        /\ ~ Overtaken(i) /\ ~ Overtaken(j)
        => Published(i)

(* No ledger row at or below the published boundary was passed over.        *)
NothingBelowBoundary ==
    \A i \in Txids :
        commits[i].recorded /\ ~ Overtaken(i) =>
            (Published(i) <=> commits[i].boundary <= boundary)

Delivered(i) == Count(i, Zero, [t \in Topics |-> Len(topic[t])], {})
Clean ==
    \A i \in Txids : commits[i].recorded /\ ~ Overtaken(i) /\ Delivered(i) = Size(i)

(* A batch fails its control for a lasting reason only: an event without a  *)
(* ledger row, an overtaken transaction or a repeated delivery.  Without    *)
(* these, whatever was sealed, published and superseded before, a listing   *)
(* of everything that was streamed is balanced.                             *)
WholeStreamBalances ==
    Clean /\ (\A t \in Topics : bronze[t] = Len(topic[t])) => Balanced(bronze, {})

(* ... and so everything that was committed is published in the end.        *)
EverythingIsPublished == <>[](Clean => \A i \in Txids : Published(i))
=============================================================================
