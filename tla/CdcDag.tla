------------------------------- MODULE CdcDag -------------------------------
(***************************************************************************)
(* The Airflow DAG src/dags/cdc_raw_vault_dag.py driving the control plane: *)
(* one chain of tasks per DAG run, each an operation of control.py or a     *)
(* phase of the Spark job scripts/4_process_cdc_raw_vault.py.  Airflow      *)
(* tries a task again after a failure, of whatever kind, `retries` times,   *)
(* then fails the DAG run and calls on_failure_callback, asynchronously:    *)
(* the callback may come after the run was cleared, or be lost.  An         *)
(* operator triggers runs, clears a failed one as a whole or from the task  *)
(* it failed at, and supersedes batches.                                    *)
(*                                                                          *)
(* ControlPlane is an open system; here its operations happen only when the *)
(* DAG or the operator calls them, and in their repeatable form: a call     *)
(* that finds its work done answers from the rows.                          *)
(***************************************************************************)
EXTENDS ControlPlane

CONSTANTS
    Phases,     \* Tasks in the order of the DAG's chain
    Retries,    \* DEFAULT_ARGS["retries"]
    MaxFaults   \* bound: dead tries and lost callbacks

VARIABLES
    dag,     \* the DAG run and the task it is at, by Airflow run id
    done,    \* Spark phases completed by a run
    faults   \* faults so far

dagVars == <<vars, dag, done, faults>>

(* The chain: create, start, then a job and its evidence per phase, publish. *)
Create == 1
Start == 2
Jobs == {2 * i + 1 : i \in DOMAIN Phases}
Evidences == {2 * i + 2 : i \in DOMAIN Phases}
Publish == 2 * Len(Phases) + 3
Chain == Create .. Publish

(* Mutant: the phases are chained in the wrong order.                       *)
PhaseAtReversed(pos) == Phases[Len(Phases) + 1 - ((pos - 1) \div 2)]

PhaseAt(pos) == Phases[(pos - 1) \div 2]

DagRun == [state: {"NONE", "RUNNING", "SUCCESS", "FAILED"}, batch: Batches \cup {None},
           pos: Chain, tries: 0 .. Retries, callback: {"NONE", "PENDING", "LOST"}]

ASSUME DagAssumption ==
    /\ Phases \in Seq(Tasks)
    /\ Tasks = {Phases[i] : i \in DOMAIN Phases}
    /\ \A i \in DOMAIN Phases : Phases[i] = ReconcileTask => i = Len(Phases)
    /\ Retries \in Nat
    /\ MaxFaults \in Nat

DagInit ==
    /\ Init
    /\ dag = [r \in Runs |-> [state |-> "NONE", batch |-> None, pos |-> Create,
                              tries |-> 0, callback |-> "NONE"]]
    /\ done = [r \in Runs |-> {}]
    /\ faults = 0

(* max_active_runs=1: a triggered or cleared run waits in the queue.        *)
NoRunIsActive == \A r \in Runs : dag[r].state # "RUNNING"

-----------------------------------------------------------------------------
(* What each task does when it gets to run.                                 *)

CreateTask(r) ==
    IF batch[dag[r].batch].state = "NONE" THEN CreateBatch(dag[r].batch) ELSE UNCHANGED vars

StartAnswers(r) == attempt[r].state # "NONE" \/ MayStart(dag[r].batch)

(* The run's attempt is returned as it is, whatever its state.              *)
StartTask(r) ==
    /\ StartAnswers(r)
    /\ IF attempt[r].state = "NONE" THEN StartAttempt(dag[r].batch, r) ELSE UNCHANGED vars

(* A Spark phase checks the manifest, never the attempt; the same audit is  *)
(* written again as the same bytes.                                         *)
JobTask(r) ==
    /\ done' = [done EXCEPT ![r] = @ \cup {PhaseAt(dag[r].pos)}]
    /\ IF PhaseAt(dag[r].pos) = ReconcileTask /\ auditStore[r] = "NONE"
       THEN WriteAuditEvidence(r)
       ELSE UNCHANGED vars

EvidenceTask(r) == RecordTaskSuccess(r, PhaseAt(dag[r].pos))

(* Mutant: a published batch is published again for any of its attempts.    *)
PublishTaskByBatch(r) ==
    IF batch[attempt[r].batch].state = "PUBLISHED" THEN UNCHANGED vars ELSE PublishBatch(r)

PublishTask(r) ==
    IF attempt[r].state = "SUCCESS" /\ batch[attempt[r].batch].state = "PUBLISHED"
    THEN UNCHANGED vars
    ELSE PublishBatch(r)

Operation(r) ==
    \/ dag[r].pos = Create /\ CreateTask(r) /\ UNCHANGED done
    \/ dag[r].pos = Start /\ StartTask(r) /\ UNCHANGED done
    \/ dag[r].pos \in Jobs /\ JobTask(r)
    \/ dag[r].pos \in Evidences /\ EvidenceTask(r) /\ UNCHANGED done
    \/ dag[r].pos = Publish /\ PublishTask(r) /\ UNCHANGED done

(* The reconcile evidence is committed and then raises if the audit failed. *)
CommitsAndRaises(r) ==
    dag[r].pos \in Evidences /\ PhaseAt(dag[r].pos) = ReconcileTask /\ auditStore[r] = "FAIL"

(* The calls that raise and roll back.  Creating raises while another batch *)
(* or attempt is in the way, when the listing is empty or ends below what   *)
(* was published, and when a crash left another manifest in the bucket.     *)
Raises(r) ==
    LET b == dag[r].batch IN
    \/ /\ dag[r].pos = Create
       /\ batch[b].state = "NONE"
       /\ \/ ~MaySeal(b)
          \/ store[b] # None
          \/ Listings = {}
          \/ \E listing \in Listings : ~NotRegressed(BuildManifest(listing, TRUE))
    \/ dag[r].pos = Start /\ ~StartAnswers(r)
    \/ /\ dag[r].pos \in Evidences
       /\ \/ ~AttemptIsLive(r)
          \/ ProvedManifest(r) # attempt[r].manifest
    \/ /\ dag[r].pos = Publish
       /\ ~(attempt[r].state = "SUCCESS" /\ batch[attempt[r].batch].state = "PUBLISHED")
       /\ \/ ~AttemptIsLive(r)
          \/ ~EvidenceIsComplete(r)
          \/ batch[attempt[r].batch].state = "RUNNING" /\ ~MeetsExclusion(attempt[r].batch)

-----------------------------------------------------------------------------
(* The scheduler                                                            *)

Advance(r) ==
    dag' = IF dag[r].pos = Publish
           THEN [dag EXCEPT ![r].state = "SUCCESS"]
           ELSE [dag EXCEPT ![r].pos = @ + 1, ![r].tries = 0]

(* Mutant: one try too many.                                                *)
TryAgainOnceMore(r) ==
    dag' = IF dag[r].tries <= Retries
           THEN [dag EXCEPT ![r].tries = @ + 1]
           ELSE [dag EXCEPT ![r].state = "FAILED", ![r].tries = 0, ![r].callback = "PENDING"]

TryAgainOrFail(r) ==
    dag' = IF dag[r].tries < Retries
           THEN [dag EXCEPT ![r].tries = @ + 1]
           ELSE [dag EXCEPT ![r].state = "FAILED", ![r].tries = 0, ![r].callback = "PENDING"]

Fault == faults < MaxFaults /\ faults' = faults + 1

TaskSucceeds(r) ==
    /\ dag[r].state = "RUNNING"
    /\ ~CommitsAndRaises(r)
    /\ Operation(r)
    /\ Advance(r)
    /\ UNCHANGED faults

TaskRaises(r) ==
    /\ dag[r].state = "RUNNING"
    /\ \/ Raises(r) /\ UNCHANGED <<vars, done>>
       \/ CommitsAndRaises(r) /\ Operation(r)
    /\ TryAgainOrFail(r)
    /\ UNCHANGED faults

(* The try dies: before its effect, after it with the acknowledgement lost, *)
(* or, creating, between the manifest object and the commit.                *)
TaskDies(r) ==
    /\ dag[r].state = "RUNNING"
    /\ \/ UNCHANGED <<vars, done>>
       \/ Operation(r)
       \/ dag[r].pos = Create /\ CreateBatchCrashes(dag[r].batch) /\ UNCHANGED done
    /\ TryAgainOrFail(r)
    /\ Fault

(* record_dag_failure: fail_airflow_run does nothing for an attempt that is *)
(* not running.                                                             *)
Callback(r) ==
    /\ dag[r].callback = "PENDING"
    /\ dag' = [dag EXCEPT ![r].callback = "NONE"]
    /\ IF attempt[r].state = "RUNNING" THEN FailAirflowRun(r) ELSE UNCHANGED vars
    /\ UNCHANGED <<done, faults>>

(* The callback's process dies, or its database call raises and is logged.  *)
CallbackIsLost(r) ==
    /\ dag[r].callback = "PENDING"
    /\ dag' = [dag EXCEPT ![r].callback = "LOST"]
    /\ Fault
    /\ UNCHANGED <<vars, done>>

-----------------------------------------------------------------------------
(* The operator                                                             *)

Trigger(r, b) ==
    /\ NoRunIsActive
    /\ dag[r].state = "NONE"
    /\ dag' = [dag EXCEPT ![r].state = "RUNNING", ![r].batch = b]
    /\ UNCHANGED <<vars, done, faults>>

ClearFrom(r, pos) ==
    /\ NoRunIsActive
    /\ dag[r].state = "FAILED"
    /\ dag' = [dag EXCEPT ![r].state = "RUNNING", ![r].pos = pos,
                          ![r].callback = IF @ = "LOST" THEN "NONE" ELSE @]
    /\ UNCHANGED <<vars, done, faults>>

Clear(r) == ClearFrom(r, Create) \/ ClearFrom(r, dag[r].pos)

Supersede(b) == SupersedeBatch(b) /\ UNCHANGED <<dag, done, faults>>

Land(p) == BronzeLand(p) /\ UNCHANGED <<dag, done, faults>>

-----------------------------------------------------------------------------
Task(r) == TaskSucceeds(r) \/ TaskRaises(r)

DagNext ==
    \/ \E r \in Runs : Task(r) \/ TaskDies(r) \/ Callback(r) \/ CallbackIsLost(r) \/ Clear(r)
    \/ \E r \in Runs, b \in Batches : Trigger(r, b)
    \/ \E b \in Batches : Supersede(b)
    \/ \E p \in Partitions : Land(p)

DagSpec == DagInit /\ [][DagNext]_dagVars

(* The scheduler runs every task it may and handles the callbacks it does   *)
(* not lose.  The operator ends by clearing every failed run as a whole,    *)
(* and by triggering an unused run for a batch that is not finished.        *)
FairDagSpec ==
    /\ DagSpec
    /\ \A r \in Runs :
        /\ WF_dagVars(Task(r))
        /\ WF_dagVars(Callback(r))
        /\ SF_dagVars(ClearFrom(r, Create))
        /\ SF_dagVars(\E b \in Unfinished : Trigger(r, b))

-----------------------------------------------------------------------------
(* DAG runs, phases and the fault counter have the expected shape.          *)
DagTypeOK ==
    /\ dag \in [Runs -> DagRun]
    /\ done \in [Runs -> SUBSET Tasks]
    /\ faults \in 0 .. MaxFaults

(* The evidence rows do not prove that Spark ran: record_task_success and   *)
(* publish_batch read the manifest and the audit only.  It is the chain     *)
(* that makes them true, through retries, clears and late callbacks: the    *)
(* attempt's audit was written after every load phase of the same run, and  *)
(* a batch is published only by an attempt whose run completed every phase. *)
PublishedWasLoaded ==
    /\ \A r \in Runs : auditStore[r] # "NONE" => done[r] = Tasks
    /\ \A b \in InState("PUBLISHED") :
        \E r \in AttemptsOf(b) : attempt[r].state = "SUCCESS" /\ done[r] = Tasks

(* Airflow and the control plane tell the same story: a green DAG run has   *)
(* published its batch under its own attempt, and an attempt runs only      *)
(* while its DAG run does or a failure callback is owed for it or was lost. *)
RunsAgreeWithAttempts ==
    \A r \in Runs :
        /\ dag[r].state = "SUCCESS" =>
            /\ attempt[r].state = "SUCCESS"
            /\ attempt[r].batch = dag[r].batch
            /\ batch[dag[r].batch].state = "PUBLISHED"
        /\ attempt[r].state = "RUNNING" =>
            dag[r].state = "RUNNING" \/ dag[r].callback \in {"PENDING", "LOST"}

(* A run that can still take the batch on.                                  *)
CanTake(r, b) ==
    dag[r].state = "NONE" \/ (dag[r].batch = b /\ attempt[r].state = "NONE")

(* Nothing stays in the way for ever: in the end no attempt runs, lost      *)
(* callbacks included, and a batch is left unfinished only when no DAG run  *)
(* is left to take it on.                                                   *)
BatchesSettle ==
    <>[](/\ RunningAttempts = {}
         /\ \A b \in Unfinished, r \in Runs : ~CanTake(r, b))
=============================================================================
