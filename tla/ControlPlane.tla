---------------------------- MODULE ControlPlane ----------------------------
(***************************************************************************)
(* The batch control plane of src/pipeline_control: the PostgreSQL tables   *)
(* of init/001_schema.sql, the immutable manifest and audit objects in      *)
(* MinIO, and the six operations of control.py that change them.            *)
(*                                                                          *)
(* The module is an open system: any operation may be called at any time,   *)
(* for any batch and any Airflow run, as a CLI user, a retried task or a    *)
(* second scheduler could.  Each operation is one database transaction.     *)
(* create and start hold an advisory lock and every other operation locks   *)
(* the rows it decides on (SELECT ... FOR UPDATE), so a transaction is one  *)
(* step; the two places where an operation is NOT atomic are modelled: the  *)
(* Bronze listing is taken before the lock (Listings), and the manifest     *)
(* object is written before the rows are committed (CreateBatchCrashes).    *)
(* Calls that answer from existing rows change nothing and are no actions.  *)
(***************************************************************************)
EXTENDS Integers, Sequences

CONSTANTS
    Batches,        \* pipeline_batch.batch_id values a caller may pass
    Runs,           \* Airflow run ids
    Partitions,     \* (topic, partition) pairs
    Tasks,          \* EXPECTED_RAW_VAULT_TASKS
    ReconcileTask,  \* "reconcile_source_bronze_silver", the task with an audit
    None,           \* SQL NULL, or an object that is not in the bucket
    MaxObjects,     \* bound: Bronze objects per partition
    LedgerOutcomes  \* bound: what sealing may find of the source ledger

VARIABLES
    bronze,      \* objects landed per partition: offsets 0 .. bronze[p] - 1
    store,       \* manifest objects in MinIO, by batch id
    auditStore,  \* audit evidence objects in MinIO, by the attempt's run id
    batch,       \* pipeline_batch with its pipeline_batch_partition rows
    attempt,     \* pipeline_attempt, by its unique airflow_run_id
    evidence,    \* pipeline_task_evidence: the checksum each task proved
    audit,       \* pipeline_attempt_audit.state
    intervals,   \* pipeline_published_interval
    events,      \* pipeline_batch_state_event, in event order
    clock        \* the last timestamp given to a manifest, batch or publish

objects == <<bronze, store, auditStore>>
attemptTables == <<attempt, evidence, audit>>
batchTables == <<batch, intervals, events>>
vars == <<objects, attemptTables, batchTables, clock>>

-----------------------------------------------------------------------------
(* A manifest: per partition the interval (low, high], the seal time that   *)
(* makes its bytes unique, and whether the frozen workload-ledger control   *)
(* found every expected source event.  A partition absent from the listing  *)
(* is absent from the manifest: its high is -1.  The SHA-256 of a manifest  *)
(* is the manifest itself.                                                  *)
Manifest == [low: [Partitions -> Int], high: [Partitions -> Int],
             created_at: Nat, balanced: BOOLEAN]

BatchStates == {"CREATED", "RUNNING", "VALIDATED", "PUBLISHED", "FAILED", "SUPERSEDED"}
Verdicts == {"NONE", "PASS", "FAIL"}

BatchRow == [state: BatchStates \cup {"NONE"}, manifest: Manifest \cup {None},
             created_at: Nat, published_at: Nat]
AttemptRow == [state: {"NONE", "RUNNING", "SUCCESS", "FAILED"},
               batch: Batches \cup {None}, number: Nat,
               manifest: Manifest \cup {None}]
Interval == [batch: Batches, part: Partitions, low: Int, high: Int]

ASSUME ControlPlaneAssumption ==
    /\ ReconcileTask \in Tasks
    /\ MaxObjects \in Nat
    /\ LedgerOutcomes \subseteq BOOLEAN
    /\ None \notin Batches
    /\ None \notin Manifest

ALLOWED_BATCH_TRANSITIONS ==
    { <<"CREATED", "RUNNING">>, <<"FAILED", "RUNNING">>, <<"RUNNING", "VALIDATED">>,
      <<"VALIDATED", "PUBLISHED">>, <<"RUNNING", "FAILED">>,
      <<"CREATED", "SUPERSEDED">>, <<"FAILED", "SUPERSEDED">> }

Rows == {b \in Batches : batch[b].state # "NONE"}
InState(state) == {b \in Batches : batch[b].state = state}
Unfinished == {b \in Rows : batch[b].state \notin {"PUBLISHED", "SUPERSEDED"}}
RunningAttempts == {r \in Runs : attempt[r].state = "RUNNING"}
AttemptsOf(b) == {r \in Runs : attempt[r].batch = b}

-----------------------------------------------------------------------------
Init ==
    /\ bronze = [p \in Partitions |-> 0]
    /\ store = [b \in Batches |-> None]
    /\ auditStore = [r \in Runs |-> "NONE"]
    /\ batch = [b \in Batches |->
                  [state |-> "NONE", manifest |-> None, created_at |-> 0, published_at |-> 0]]
    /\ attempt = [r \in Runs |->
                    [state |-> "NONE", batch |-> None, number |-> 0, manifest |-> None]]
    /\ evidence = [r \in Runs |-> [t \in Tasks |-> None]]
    /\ audit = [r \in Runs |-> "NONE"]
    /\ intervals = {}
    /\ events = [b \in Batches |-> <<>>]
    /\ clock = 0

(* The Bronze writer lands the next Kafka offset of a partition.            *)
BronzeLand(p) ==
    /\ bronze[p] < MaxObjects
    /\ bronze' = [bronze EXCEPT ![p] = @ + 1]
    /\ UNCHANGED <<store, auditStore, attemptTables, batchTables, clock>>

-----------------------------------------------------------------------------
(* create_or_get_batch                                                      *)

(* What discover_bronze_objects may have returned: the listing is paginated *)
(* and taken before the advisory lock is waited for, so each partition may  *)
(* be any prefix of what has landed since; an empty listing is refused.     *)
Listings ==
    {listing \in [Partitions -> 0 .. MaxObjects] :
        /\ \A p \in Partitions : listing[p] <= bronze[p]
        /\ \E p \in Partitions : listing[p] > 0}

(* Mutant: the oldest published batch is taken.                             *)
IsFirstPublished(b) ==
    /\ b \in InState("PUBLISHED")
    /\ \A c \in InState("PUBLISHED") : batch[c].published_at >= batch[b].published_at

IsLatestPublished(b) ==
    /\ b \in InState("PUBLISHED")
    /\ \A c \in InState("PUBLISHED") : batch[c].published_at <= batch[b].published_at

(* Mutant: the low watermark comes from the newest batch, published or not. *)
PreviousHighOfNewestRow(p) ==
    LET newest == {b \in Rows : \A c \in Rows : batch[c].created_at <= batch[b].created_at}
    IN IF newest = {} THEN -1 ELSE batch[CHOOSE b \in newest : TRUE].manifest.high[p]

(* previous_highs.get((topic, partition), -1): only the partitions of the   *)
(* batch with the greatest published_at are looked at.                      *)
PreviousHigh(p) ==
    IF \E b \in Batches : IsLatestPublished(b) /\ batch[b].manifest.high[p] >= 0
    THEN batch[CHOOSE b \in Batches : IsLatestPublished(b)].manifest.high[p]
    ELSE -1

(* Mutant: the high watermark is one past the last listed offset.           *)
BuildManifestPastEnd(listing, balanced) ==
    [low |-> [p \in Partitions |-> IF listing[p] > 0 THEN PreviousHigh(p) ELSE -1],
     high |-> [p \in Partitions |-> IF listing[p] > 0 THEN listing[p] ELSE -1],
     created_at |-> clock + 1,
     balanced |-> balanced]

BuildManifest(listing, balanced) ==
    [low |-> [p \in Partitions |-> IF listing[p] > 0 THEN PreviousHigh(p) ELSE -1],
     high |-> [p \in Partitions |-> listing[p] - 1],
     created_at |-> clock + 1,
     balanced |-> balanced]

NotRegressed(m) == \A p \in Partitions : m.high[p] >= 0 => m.low[p] <= m.high[p]

(* The checks made under the advisory lock before a manifest is built.      *)
MaySeal(b) ==
    /\ batch[b].state = "NONE"
    /\ RunningAttempts = {}
    /\ Unfinished = {}

(* write_immutable_manifest: put once; the same bytes again are accepted.   *)
WriteManifest(b, m) ==
    /\ store[b] \in {None, m}
    /\ store' = [store EXCEPT ![b] = m]

SealManifest(b, m) ==
    /\ MaySeal(b)
    /\ NotRegressed(m)
    /\ WriteManifest(b, m)
    /\ clock' = clock + 1
    /\ UNCHANGED <<bronze, auditStore, attemptTables, intervals>>

CreateBatch(b) ==
    \E listing \in Listings, balanced \in LedgerOutcomes :
        LET m == BuildManifest(listing, balanced) IN
        /\ SealManifest(b, m)
        /\ batch' = [batch EXCEPT ![b] = [state |-> "CREATED", manifest |-> m,
                                          created_at |-> clock + 1, published_at |-> 0]]
        /\ events' = [events EXCEPT ![b] = <<"CREATED">>]

(* The process or the database connection dies after the manifest object is *)
(* put and before the transaction commits.                                  *)
CreateBatchCrashes(b) ==
    \E listing \in Listings, balanced \in LedgerOutcomes :
        /\ SealManifest(b, BuildManifest(listing, balanced))
        /\ UNCHANGED <<batch, events>>

-----------------------------------------------------------------------------
(* start_attempt                                                            *)

(* Mutant: failed attempts do not count.                                    *)
LastUnfailedAttemptNumber(b) ==
    LET numbers == {0} \cup {attempt[r].number :
                                r \in {s \in AttemptsOf(b) : attempt[s].state # "FAILED"}}
    IN CHOOSE n \in numbers : \A m \in numbers : m <= n

LastAttemptNumber(b) ==
    LET numbers == {0} \cup {attempt[r].number : r \in AttemptsOf(b)}
    IN CHOOSE n \in numbers : \A m \in numbers : m <= n

(* Mutant: any published batch may be replayed.                             *)
MayReplayAny(b) == TRUE

(* A published batch is replayed only while no batch was created after it.  *)
MayReplay(b) == \A c \in Rows : batch[c].created_at <= batch[b].created_at

(* Mutant: the check for another running attempt is missing.                *)
MayStartBesideAnother(b) ==
    /\ batch[b].state \in {"CREATED", "FAILED", "PUBLISHED"}
    /\ batch[b].state = "PUBLISHED" => MayReplay(b)

MayStart(b) ==
    /\ batch[b].state \in {"CREATED", "FAILED", "PUBLISHED"}
    /\ RunningAttempts = {}
    /\ batch[b].state = "PUBLISHED" => MayReplay(b)

StartAttempt(b, r) ==
    /\ attempt[r].state = "NONE"
    /\ MayStart(b)
    /\ attempt' = [attempt EXCEPT ![r] =
                     [state |-> "RUNNING", batch |-> b,
                      number |-> LastAttemptNumber(b) + 1,
                      manifest |-> batch[b].manifest]]
    /\ IF batch[b].state = "PUBLISHED"
       THEN UNCHANGED <<batch, events>>
       ELSE /\ batch' = [batch EXCEPT ![b].state = "RUNNING"]
            /\ events' = [events EXCEPT ![b] = Append(@, "RUNNING")]
    /\ UNCHANGED <<objects, evidence, audit, intervals, clock>>

-----------------------------------------------------------------------------
(* persist_audit_evidence of the Spark job, then record_task_success        *)

VerdictsFor(m) == IF m.balanced THEN {"PASS", "FAIL"} ELSE {"FAIL"}

(* The reconcile job writes the attempt's audit object once.  The job is    *)
(* not stopped by a failed attempt: it may finish late.                     *)
WriteAuditEvidence(r) ==
    /\ attempt[r].state # "NONE"
    /\ auditStore[r] = "NONE"
    /\ \E verdict \in VerdictsFor(attempt[r].manifest) :
        auditStore' = [auditStore EXCEPT ![r] = verdict]
    /\ UNCHANGED <<bronze, store, attemptTables, batchTables, clock>>

(* Both record_task_success and publish_batch require this.                 *)
AttemptIsLive(r) ==
    /\ attempt[r].state = "RUNNING"
    /\ batch[attempt[r].batch].state \in {"RUNNING", "PUBLISHED"}

ProvedManifest(r) == store[attempt[r].batch]

(* The reconcile task's evidence is the stored audit; a failed audit is     *)
(* committed too, before the operation raises.                              *)
RecordAudit(r) ==
    /\ auditStore[r] # "NONE"
    /\ audit[r] \in {"NONE", auditStore[r]}
    /\ audit' = [audit EXCEPT ![r] = auditStore[r]]

RecordEvidence(r, t) ==
    evidence' = [evidence EXCEPT ![r][t] = ProvedManifest(r)]

RecordTaskSuccess(r, t) ==
    /\ AttemptIsLive(r)
    /\ ProvedManifest(r) = attempt[r].manifest
    /\ IF t = ReconcileTask
       THEN /\ RecordAudit(r)
            /\ IF auditStore[r] = "PASS" THEN RecordEvidence(r, t) ELSE UNCHANGED evidence
       ELSE RecordEvidence(r, t) /\ UNCHANGED audit
    /\ UNCHANGED <<objects, attempt, batchTables, clock>>

-----------------------------------------------------------------------------
(* publish_batch                                                            *)

(* Mutant: publish trusts the audit and asks for no task's evidence.        *)
AuditIsComplete(r) == audit[r] = "PASS"

EvidenceIsComplete(r) ==
    /\ \A t \in Tasks : evidence[r][t] = attempt[r].manifest
    /\ audit[r] = "PASS"

(* The rows inserted into pipeline_published_interval.                      *)
IntervalsOf(b) ==
    {[batch |-> b, part |-> p, low |-> batch[b].manifest.low[p],
      high |-> batch[b].manifest.high[p]] :
        p \in {q \in Partitions : batch[b].manifest.high[q] > batch[b].manifest.low[q]}}

Overlap(i, j) == i.part = j.part /\ i.low < j.high /\ j.low < i.high

(* Mutant: the exclusion constraint is dropped from the schema.             *)
NoExclusion(b) == TRUE

(* EXCLUDE USING gist (topic, partition_id, offset_range WITH &&).          *)
MeetsExclusion(b) ==
    \A i \in IntervalsOf(b), j \in intervals : j.batch # b => ~Overlap(i, j)

(* Mutant: the transition through VALIDATED is not recorded.                *)
FirstPublishUnvalidated(r) ==
    LET b == attempt[r].batch IN
    /\ batch[b].state = "RUNNING"
    /\ MeetsExclusion(b)
    /\ intervals' = intervals \cup IntervalsOf(b)
    /\ batch' = [batch EXCEPT ![b].state = "PUBLISHED", ![b].published_at = clock + 1]
    /\ events' = [events EXCEPT ![b] = Append(@, "PUBLISHED")]
    /\ clock' = clock + 1

FirstPublish(r) ==
    LET b == attempt[r].batch IN
    /\ batch[b].state = "RUNNING"
    /\ MeetsExclusion(b)
    /\ intervals' = intervals \cup IntervalsOf(b)
    /\ batch' = [batch EXCEPT ![b].state = "PUBLISHED", ![b].published_at = clock + 1]
    /\ events' = [events EXCEPT ![b] = @ \o <<"VALIDATED", "PUBLISHED">>]
    /\ clock' = clock + 1

(* A replay of a published batch only closes its attempt.                   *)
ReplayPublish(r) ==
    /\ batch[attempt[r].batch].state = "PUBLISHED"
    /\ UNCHANGED <<batchTables, clock>>

PublishBatch(r) ==
    /\ AttemptIsLive(r)
    /\ EvidenceIsComplete(r)
    /\ FirstPublish(r) \/ ReplayPublish(r)
    /\ attempt' = [attempt EXCEPT ![r].state = "SUCCESS"]
    /\ UNCHANGED <<objects, evidence, audit>>

-----------------------------------------------------------------------------
(* Mutant: a failed attempt fails its batch even when that is published.    *)
FailAirflowRunAndBatch(r) ==
    /\ attempt[r].state = "RUNNING"
    /\ attempt' = [attempt EXCEPT ![r].state = "FAILED"]
    /\ batch' = [batch EXCEPT ![attempt[r].batch].state = "FAILED"]
    /\ events' = [events EXCEPT ![attempt[r].batch] = Append(@, "FAILED")]
    /\ UNCHANGED <<objects, evidence, audit, intervals, clock>>

(* Mutant: a state the CHECK constraint of pipeline_attempt does not list.  *)
CancelAirflowRun(r) ==
    /\ attempt[r].state = "RUNNING"
    /\ attempt' = [attempt EXCEPT ![r].state = "CANCELLED"]
    /\ batch' = [batch EXCEPT ![attempt[r].batch].state = "FAILED"]
    /\ UNCHANGED <<objects, evidence, audit, intervals, events, clock>>

(* Mutant: the batch of a failed attempt is left running.                   *)
FailAirflowAttemptOnly(r) ==
    /\ attempt[r].state = "RUNNING"
    /\ attempt' = [attempt EXCEPT ![r].state = "FAILED"]
    /\ UNCHANGED <<objects, evidence, audit, batchTables, clock>>

(* fail_airflow_run: only a running attempt fails, and it takes its batch   *)
(* with it unless that batch is already published.                          *)
FailAirflowRun(r) ==
    /\ attempt[r].state = "RUNNING"
    /\ attempt' = [attempt EXCEPT ![r].state = "FAILED"]
    /\ LET b == attempt[r].batch IN
       IF batch[b].state = "RUNNING"
       THEN /\ batch' = [batch EXCEPT ![b].state = "FAILED"]
            /\ events' = [events EXCEPT ![b] = Append(@, "FAILED")]
       ELSE UNCHANGED <<batch, events>>
    /\ UNCHANGED <<objects, evidence, audit, intervals, clock>>

(* supersede_batch: an operator gives an unpublished batch up.  The row is  *)
(* locked; the advisory lock is not taken.                                  *)
SupersedeBatch(b) ==
    /\ batch[b].state \in {"CREATED", "FAILED"}
    /\ batch' = [batch EXCEPT ![b].state = "SUPERSEDED"]
    /\ events' = [events EXCEPT ![b] = Append(@, "SUPERSEDED")]
    /\ UNCHANGED <<objects, attemptTables, intervals, clock>>

-----------------------------------------------------------------------------
Next ==
    \/ \E p \in Partitions : BronzeLand(p)
    \/ \E b \in Batches : CreateBatch(b) \/ CreateBatchCrashes(b) \/ SupersedeBatch(b)
    \/ \E b \in Batches, r \in Runs : StartAttempt(b, r)
    \/ \E r \in Runs : WriteAuditEvidence(r) \/ PublishBatch(r) \/ FailAirflowRun(r)
    \/ \E r \in Runs, t \in Tasks : RecordTaskSuccess(r, t)

Spec == Init /\ [][Next]_vars

-----------------------------------------------------------------------------
(* The tables and objects hold values of the declared columns and formats.  *)
TypeOK ==
    /\ bronze \in [Partitions -> Nat]
    /\ store \in [Batches -> Manifest \cup {None}]
    /\ auditStore \in [Runs -> Verdicts]
    /\ batch \in [Batches -> BatchRow]
    /\ attempt \in [Runs -> AttemptRow]
    /\ evidence \in [Runs -> [Tasks -> Manifest \cup {None}]]
    /\ audit \in [Runs -> Verdicts]
    /\ intervals \subseteq Interval
    /\ events \in [Batches -> Seq(BatchStates)]
    /\ clock \in Nat

(* One writer at a time: at most one attempt runs, at most one batch is     *)
(* unfinished, a running batch has a running attempt, and a running attempt *)
(* belongs to a running or a published batch.  Every Spark write, manifest  *)
(* and watermark rests on it; seal, start, fail, publish and supersede are  *)
(* separate transactions that could interleave to break it.                 *)
SingleWriter ==
    /\ \A r, s \in RunningAttempts : r = s
    /\ \A b, c \in Unfinished : b = c
    /\ \A b \in InState("RUNNING") : \E r \in RunningAttempts : attempt[r].batch = b
    /\ \A r \in RunningAttempts : batch[attempt[r].batch].state \in {"RUNNING", "PUBLISHED"}

(* While a published batch is replayed, no batch created after it exists:   *)
(* a running replay keeps new manifests from being sealed, and an older     *)
(* published batch is not replayed over a newer one.                        *)
ReplayIsOfNewestBatch ==
    \A r \in RunningAttempts, b \in Rows :
        batch[b].created_at <= batch[attempt[r].batch].created_at

Covered(p, top) ==
    \A o \in 0 .. top : \E i \in intervals : i.part = p /\ i.low < o /\ o <= i.high

(* The published intervals of a partition leave no hole below any of them:  *)
(* every Bronze offset up to a published watermark was in a published       *)
(* batch, through failures, supersessions and lagging listings.             *)
PublishedWithoutGap == \A i \in intervals : Covered(i.part, i.high)

(* No Bronze offset is in two published batches.                            *)
PublishedOnce == \A i, j \in intervals : i # j => ~Overlap(i, j)

(* A batch in the warehouse earned it: some successful attempt has every    *)
(* task's evidence for the manifest that is still in the bucket, its stored *)
(* audit passed, and the manifest's frozen ledger control was balanced.     *)
PublishedWasAudited ==
    \A b \in InState("PUBLISHED") :
        /\ batch[b].manifest = store[b]
        /\ store[b].balanced
        /\ \E r \in AttemptsOf(b) :
            /\ attempt[r].state = "SUCCESS"
            /\ auditStore[r] = "PASS"
            /\ \A t \in Tasks : evidence[r][t] = store[b]

(* A batch's attempts are numbered 1, 2, ... without repetition, so an      *)
(* attempt's audit and evidence rows are never another attempt's.           *)
AttemptsAreNumbered ==
    \A b \in Batches : \A r, s \in AttemptsOf(b) :
        /\ attempt[r].number = attempt[s].number => r = s
        /\ \A n \in 1 .. attempt[r].number : \E q \in AttemptsOf(b) : attempt[q].number = n

(* The append-only history of a batch is a path of the state machine from   *)
(* CREATED, and ends in the state the batch row shows.                      *)
HistoryIsLegal ==
    \A b \in Rows :
        /\ events[b] # <<>>
        /\ events[b][1] = "CREATED"
        /\ events[b][Len(events[b])] = batch[b].state
        /\ \A n \in 1 .. Len(events[b]) - 1 :
            <<events[b][n], events[b][n + 1]>> \in ALLOWED_BATCH_TRANSITIONS

(* What is published stays: no later step, a failed or repeated replay      *)
(* included, changes a published batch row or removes or adds an interval   *)
(* of it.                                                                   *)
PublishedStays ==
    /\ intervals \subseteq intervals'
    /\ \A b \in InState("PUBLISHED") :
        /\ batch'[b] = batch[b]
        /\ \A i \in intervals' \ intervals : i.batch # b
PublishedIsFinal == [][PublishedStays]_vars

(* The offsets the published intervals deliver to the warehouse.            *)
Delivered ==
    [p \in Partitions |->
        UNION {i.low + 1 .. i.high : i \in {j \in intervals : j.part = p}}]

Feed == INSTANCE PublishedFeed WITH landed <- bronze, delivered <- Delivered

(* The control plane implements the feed: what is published of a partition  *)
(* is at every moment a prefix of the Bronze objects that landed there, and *)
(* it only grows.                                                           *)
ImplementsFeed == Feed!Spec

(* The exclusion constraint refuses a publish only after a listing lost a   *)
(* partition: while every published manifest still names each partition     *)
(* published before it, the low watermarks alone keep an unfinished batch   *)
(* apart from what is published.                                            *)
NoPartitionWasLost ==
    \A b \in InState("PUBLISHED"), i \in intervals :
        batch[i.batch].published_at <= batch[b].published_at =>
            batch[b].manifest.high[i.part] >= 0
ExclusionIsALastResort == NoPartitionWasLost => \A b \in Unfinished : MeetsExclusion(b)

(* "The latest PUBLISHED batch may be replayed with a new Airflow run":     *)
(* with no attempt running and no batch unfinished, a start of it is        *)
(* accepted.  It fails after a newer batch was superseded.                  *)
LatestPublishedMayBeReplayed ==
    \A b \in Batches :
        /\ IsLatestPublished(b)
        /\ RunningAttempts = {}
        /\ Unfinished = {}
        => MayStart(b)

(* "Create one immutable manifest or return the existing batch              *)
(* idempotently": whenever a batch may be sealed and Bronze can be listed,  *)
(* some manifest for it can be written.  It fails after a crash between the *)
(* object write and the commit.                                             *)
CreateIsRepeatable ==
    \A b \in Batches :
        MaySeal(b) =>
            \A listing \in Listings, balanced \in LedgerOutcomes :
                store[b] \in {None, BuildManifest(listing, balanced)}
=============================================================================
