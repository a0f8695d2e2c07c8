------------------------- MODULE RawVaultSatellites -------------------------
(***************************************************************************)
(* The Satellite tables that src/scripts/4_process_cdc_raw_vault.py loads   *)
(* batch by batch from one Bronze partition.  A Satellite holds one row per *)
(* source event that changed the state of its entity; a batch sees only the *)
(* events of its own interval and compares the first of each entity with    *)
(* the state that other batches have persisted.                             *)
(*                                                                          *)
(* Loading is not atomic.  A job stages a table, merges it, and goes on to  *)
(* the next; it may die between any two steps, it is started again for the  *)
(* same batch, and a job of a batch that was failed or superseded in the    *)
(* meantime may still be running beside its successor's.                    *)
(***************************************************************************)
EXTENDS Integers, Sequences

CONSTANTS
    Events,      \* source events: [entity |-> e, state |-> a state per table]
    Tables,      \* Satellite tables
    None,        \* the event does not concern the table; no table; no batch
    Jobs,        \* Spark processes
    Batches,     \* batch ids
    MaxEvents    \* bound: events in the Bronze partition

VARIABLES
    log,    \* the Bronze partition: events in offset order, from 1
    batch,  \* the control plane's rows: interval (low, high] and state
    order,  \* batches in the order they were created
    rows,   \* Satellite rows: [event |-> offset, batch |-> load_batch_id]
    job     \* what each Spark process works on

vars == <<log, batch, order, rows, job>>

BatchRow == [low: Nat, high: Nat, state: {"NONE", "OPEN", "PUBLISHED", "SUPERSEDED"}]
Row == [event: Nat, batch: Batches]
Idle == [batch |-> None, done |-> {}, table |-> None, staged |-> {}, audited |-> FALSE]

ASSUME RawVaultAssumption ==
    /\ MaxEvents \in Nat
    /\ Tables # {}
    /\ None \notin Tables /\ None \notin Batches
    /\ \A e \in Events : Tables \subseteq DOMAIN e.state

Init ==
    /\ log = <<>>
    /\ batch = [b \in Batches |-> [low |-> 0, high |-> 0, state |-> "NONE"]]
    /\ order = <<>>
    /\ rows = [t \in Tables |-> {}]
    /\ job = [j \in Jobs |-> Idle]

-----------------------------------------------------------------------------
(* What a Satellite holds.  The events of one entity have increasing LSNs   *)
(* in offset order, so the offset stands for the source position.           *)
Concerning(t) == {o \in DOMAIN log : log[o].state[t] # None}

SameEntity(o, q) == log[o].entity = log[q].entity

Before(S, o) == {q \in S : q < o /\ SameEntity(q, o)}

(* The events of S that change the state their entity has in S.             *)
ChangesIn(S, t) ==
    {o \in S : \A q \in Before(S, o) :
                  (\A r \in Before(S, o) : r <= q) => log[q].state[t] # log[o].state[t]}

(* The Satellite of the whole history, as one load of it would build it.    *)
History(t) == ChangesIn(Concerning(t), t)

Recorded(t) == {r.event : r \in rows[t]}

-----------------------------------------------------------------------------
(* What one batch stages.                                                   *)
InBatch(b, t) == {o \in Concerning(t) : batch[b].low < o /\ o <= batch[b].high}

Build(b, t) == ChangesIn(InBatch(b, t), t)

FirstOfEntity(b, t) == {o \in Build(b, t) : Before(Build(b, t), o) = {}}

(* Mutant: the rows a failed attempt of the batch left count as persisted.  *)
PersistedByAny(b, t) == Recorded(t)

PersistedByOthers(b, t) == {r.event : r \in {s \in rows[t] : s.batch # b}}

OutOfOrder(b, t) ==
    \E o \in FirstOfEntity(b, t), q \in PersistedByOthers(b, t) : SameEntity(o, q) /\ o <= q

(* Mutant: the first state of a batch is not compared with what is there.   *)
FilterNothing(b, t) == Build(b, t)

(* filter_against_persisted_state, when it does not raise.                  *)
Filtered(b, t) ==
    {o \in Build(b, t) :
        o \in FirstOfEntity(b, t) => o \in ChangesIn(PersistedByOthers(b, t) \cup {o}, t)}

-----------------------------------------------------------------------------
(* The control plane and the source.  OPEN stands for CREATED, RUNNING and  *)
(* FAILED: ControlPlane has them, and here a job may outlive its attempt.   *)
Produce ==
    /\ Len(log) < MaxEvents
    /\ \E e \in Events : log' = Append(log, e)
    /\ UNCHANGED <<batch, order, rows, job>>

Published == {b \in Batches : batch[b].state = "PUBLISHED"}

Seal(b) ==
    /\ batch[b].state = "NONE"
    /\ \A c \in Batches : batch[c].state # "OPEN"
    /\ \E low \in {0} \cup {batch[c].high : c \in Published}, high \in 0 .. Len(log) :
        /\ \A c \in Published : batch[c].high <= low
        /\ low <= high
        /\ batch' = [batch EXCEPT ![b] = [low |-> low, high |-> high, state |-> "OPEN"]]
    /\ order' = Append(order, b)
    /\ UNCHANGED <<log, rows, job>>

Supersede(b) ==
    /\ batch[b].state = "OPEN"
    /\ batch' = [batch EXCEPT ![b].state = "SUPERSEDED"]
    /\ UNCHANGED <<log, order, rows, job>>

(* A batch is loaded while it is open, and again when it is the newest.     *)
MayLoad(b) ==
    \/ batch[b].state = "OPEN"
    \/ batch[b].state = "PUBLISHED" /\ order[Len(order)] = b

StartJob(j, b) ==
    /\ job[j] = Idle
    /\ MayLoad(b)
    /\ job' = [job EXCEPT ![j].batch = b]
    /\ UNCHANGED <<log, batch, order, rows>>

JobDies(j) ==
    /\ job[j] # Idle
    /\ job' = [job EXCEPT ![j] = Idle]
    /\ UNCHANGED <<log, batch, order, rows>>

-----------------------------------------------------------------------------
(* run_satellites                                                           *)

(* Compute the rows of the next table and checkpoint them, or raise.        *)
Stage(j, t) ==
    /\ job[j].batch # None
    /\ job[j].table = None
    /\ t \notin job[j].done
    /\ LET b == job[j].batch IN
       job' = [job EXCEPT ![j] =
                 IF OutOfOrder(b, t) THEN Idle
                 ELSE [@ EXCEPT !.table = t, !.staged = Filtered(b, t)]]
    /\ UNCHANGED <<log, batch, order, rows>>

NewRows(j) == {[event |-> o, batch |-> job[j].batch] : o \in job[j].staged}

(* Mutant: the load_batch_id of a row is not set.                           *)
InsertedUnlabelled(j, t) ==
    {[event |-> o, batch |-> None] : o \in job[j].staged \ Recorded(t)}

(* Mutant: rows match on the event and the batch, not on the event alone.   *)
InsertedByBatch(j, t) == NewRows(j)

(* MERGE ... ON source_event_id WHEN NOT MATCHED THEN INSERT.               *)
Inserted(j, t) == {r \in NewRows(j) : r.event \notin Recorded(t)}

Merge(j) ==
    /\ job[j].table # None
    /\ LET t == job[j].table IN
       /\ rows' = [rows EXCEPT ![t] = @ \cup Inserted(j, t)]
       /\ job' = [job EXCEPT ![j].done = @ \cup {t}, ![j].table = None, ![j].staged = {}]
    /\ UNCHANGED <<log, batch, order>>

(* bounded_reconciliation_rows: stage every table again; no staged key may  *)
(* be missing from its target.  Otherwise the audit fails, and with it the  *)
(* attempt.                                                                 *)
NoKeyIsMissing(b) ==
    \A t \in Tables : ~ OutOfOrder(b, t) /\ Filtered(b, t) \subseteq Recorded(t)

Reconcile(j) ==
    /\ job[j].done = Tables
    /\ ~ job[j].audited
    /\ NoKeyIsMissing(job[j].batch)
    /\ job' = [job EXCEPT ![j].audited = TRUE]
    /\ UNCHANGED <<log, batch, order, rows>>

(* publish_batch after this attempt's audit.                                *)
Publish(j) ==
    /\ job[j].audited
    /\ batch[job[j].batch].state = "OPEN"
    /\ batch' = [batch EXCEPT ![job[j].batch].state = "PUBLISHED"]
    /\ job' = [job EXCEPT ![j] = Idle]
    /\ UNCHANGED <<log, order, rows>>

-----------------------------------------------------------------------------
Next ==
    \/ Produce
    \/ \E b \in Batches : Seal(b) \/ Supersede(b)
    \/ \E j \in Jobs : JobDies(j) \/ Merge(j) \/ Reconcile(j) \/ Publish(j)
    \/ \E j \in Jobs, b \in Batches : StartJob(j, b)
    \/ \E j \in Jobs, t \in Tables : Stage(j, t)

Spec == Init /\ [][Next]_vars

-----------------------------------------------------------------------------
(* Batches, rows and jobs are well formed.                                  *)
TypeOK ==
    /\ log \in Seq(Events)
    /\ batch \in [Batches -> BatchRow]
    /\ order \in Seq(Batches)
    /\ rows \in [Tables -> SUBSET Row]
    /\ job \in [Jobs -> [batch: Batches \cup {None}, done: SUBSET Tables,
                         table: Tables \cup {None}, staged: SUBSET Nat, audited: BOOLEAN]]

(* A Satellite appends a row only for an event that changes the state, also *)
(* against the batch before; and what is published lacks none of them.  So  *)
(* the tables are a function of the events, not of how they were cut into   *)
(* batches, retried, superseded or loaded twice at once.                    *)
SatelliteIsHistory ==
    \A t \in Tables :
        /\ Recorded(t) \subseteq History(t)
        /\ \A b \in Published : {o \in History(t) : o <= batch[b].high} \subseteq Recorded(t)

(* No event has two rows in a table, whichever batches or jobs loaded it.   *)
OneRowPerEvent == \A t \in Tables : \A r, s \in rows[t] : r.event = s.event => r = s

(* Once an interval is published its rows stay as they are: replays, later  *)
(* batches and belated jobs neither add to it nor relabel it.               *)
PublishedRowsAreFinal ==
    [][\A t \in Tables, b \in Published :
          {r \in rows'[t] : r.event <= batch[b].high}
              = {r \in rows[t] : r.event <= batch[b].high}]_vars

(* A retry or a replay never meets the out-of-order check of                *)
(* filter_against_persisted_state on account of its own earlier attempts;   *)
(* only rows of a superseded batch can make it raise.                       *)
RetriesAreAccepted ==
    \A b \in Batches, t \in Tables :
        batch[b].state \in {"OPEN", "PUBLISHED"} /\ MayLoad(b) /\ OutOfOrder(b, t) =>
            \E r \in rows[t] : batch[r.batch].state = "SUPERSEDED"

(* control.py:250 tells the operator of an unfinished batch to "retry or    *)
(* supersede it before creating another batch".  Of a superseded batch the  *)
(* next one covers the same events, meets the rows it left under another    *)
(* load_batch_id, and is refused as out of order with no other job around.  *)
SuccessorsAreAccepted ==
    (\A j \in Jobs : job[j] = Idle) =>
        \A b \in Batches, t \in Tables : batch[b].state = "OPEN" => ~ OutOfOrder(b, t)
=============================================================================
