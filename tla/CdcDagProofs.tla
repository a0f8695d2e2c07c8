---------------------------- MODULE CdcDagProofs ----------------------------
(***************************************************************************)
(* The DAG is a user of the control plane: every one of its steps is a step *)
(* of ControlPlane or leaves the control plane alone.  So all that is       *)
(* proved of ControlPlane holds under the DAG; and what only the DAG gives, *)
(* that a published batch was loaded, is proved from the order of its chain.*)
(***************************************************************************)
EXTENDS CdcDag, CoverageProofs

(* DAG runs have the expected shape, and one that was triggered a batch.    *)
DagInv ==
    /\ DagTypeOK
    /\ \A r \in Runs : dag[r].state # "NONE" => dag[r].batch \in Batches

-----------------------------------------------------------------------------
(* A job or an evidence task belongs to a phase, and a phase is a task.     *)
LEMMA PhaseType ==
    ASSUME NEW pos \in Jobs \cup Evidences
    PROVE  /\ (pos - 1) \div 2 \in DOMAIN Phases
           /\ PhaseAt(pos) \in Tasks
<1>1. PICK i \in DOMAIN Phases : pos = 2 * i + 1 \/ pos = 2 * i + 2
  BY DEF Jobs, Evidences
<1>2. i \in Nat /\ DOMAIN Phases = 1 .. Len(Phases) /\ Len(Phases) \in Nat
  BY DagAssumption
<1>3. (pos - 1) \div 2 = i
  BY <1>1, <1>2
<1> QED
  BY <1>3, DagAssumption DEF PhaseAt

(* The operation of a task is one of the control plane's, or none; and a    *)
(* run's completed phases only grow.                                        *)
LEMMA OperationIsNext ==
    ASSUME DagInv, NEW r \in Runs, dag[r].state = "RUNNING", Operation(r)
    PROVE  /\ [Next]_vars
           /\ done' \in [Runs -> SUBSET Tasks]
           /\ \A q \in Runs : done[q] \subseteq done'[q]
<1> USE DEF DagInv, DagTypeOK
<1>1. dag[r].batch \in Batches
  OBVIOUS
<1>2. CASE dag[r].pos = Create /\ CreateTask(r) /\ UNCHANGED done
  BY <1>1, <1>2 DEF CreateTask, Next
<1>3. CASE dag[r].pos = Start /\ StartTask(r) /\ UNCHANGED done
  BY <1>1, <1>3 DEF StartTask, Next
<1>4. CASE dag[r].pos \in Jobs /\ JobTask(r)
  <2>1. PhaseAt(dag[r].pos) \in Tasks
    BY <1>4, PhaseType
  <2> QED
    BY <1>4, <2>1 DEF JobTask, Next
<1>5. CASE dag[r].pos \in Evidences /\ EvidenceTask(r) /\ UNCHANGED done
  <2>1. PhaseAt(dag[r].pos) \in Tasks
    BY <1>5, PhaseType
  <2> QED
    BY <1>5, <2>1 DEF EvidenceTask, Next
<1>6. CASE dag[r].pos = Publish /\ PublishTask(r) /\ UNCHANGED done
  BY <1>6 DEF PublishTask, Next
<1> QED
  BY <1>2, <1>3, <1>4, <1>5, <1>6 DEF Operation

(* The scheduler keeps the shape of the DAG run it moves on.                *)
LEMMA SchedulerType ==
    ASSUME DagInv, NEW r \in Runs, dag[r].state = "RUNNING", Advance(r) \/ TryAgainOrFail(r)
    PROVE  /\ dag' \in [Runs -> DagRun]
           /\ \A q \in Runs : dag'[q].state # "NONE" => dag'[q].batch \in Batches
<1> USE DEF DagInv, DagTypeOK
<1>1. /\ dag[r].pos \in Nat /\ dag[r].pos \in 1 .. Publish
      /\ dag[r].tries \in 0 .. Retries /\ Retries \in Nat /\ Publish \in Nat
  BY DagAssumption DEF DagRun, Chain, Create, Publish
<1>2. CASE Advance(r)
  <2>1. CASE dag[r].pos = Publish
    BY <1>2, <2>1 DEF Advance, DagRun
  <2>2. CASE dag[r].pos # Publish
    <3> DEFINE row == [dag[r] EXCEPT !.pos = dag[r].pos + 1, !.tries = 0]
    <3>0. dag[r].pos + 1 \in Chain /\ 0 \in 0 .. Retries
      BY <1>1, <2>2 DEF Chain, Create
    <3>1. row \in DagRun /\ row.batch = dag[r].batch
      BY <3>0 DEF DagRun
    <3>2. dag' = [dag EXCEPT ![r] = row]
      BY <1>2, <2>2 DEF Advance
    <3> QED
      BY <3>1, <3>2
  <2> QED
    BY <2>1, <2>2
<1>3. CASE TryAgainOrFail(r)
  <2>1. CASE dag[r].tries < Retries
    BY <1>1, <1>3, <2>1 DEF TryAgainOrFail, DagRun
  <2>2. CASE ~(dag[r].tries < Retries)
    <3> DEFINE row == [dag[r] EXCEPT !.state = "FAILED", !.tries = 0, !.callback = "PENDING"]
    <3>0. 0 \in 0 .. Retries
      BY <1>1
    <3>1. row \in DagRun /\ row.batch = dag[r].batch
      BY <3>0 DEF DagRun
    <3>2. dag' = [dag EXCEPT ![r] = row]
      BY <1>3, <2>2 DEF TryAgainOrFail
    <3> QED
      BY <3>1, <3>2
  <2> QED
    BY <2>1, <2>2
<1> QED
  BY <1>2, <1>3

LEMMA FaultType ==
    ASSUME faults \in 0 .. MaxFaults, Fault \/ UNCHANGED faults
    PROVE  faults' \in 0 .. MaxFaults
BY DagAssumption DEF Fault

LEMMA DagInvInit == DagInit => DagInv
<1> SUFFICES ASSUME DagInit PROVE DagInv
  OBVIOUS
<1>1. Create \in Chain /\ 0 \in 0 .. Retries /\ 0 \in 0 .. MaxFaults
  BY DagAssumption DEF Create, Chain, Publish
<1> QED
  BY <1>1 DEF DagInit, DagInv, DagTypeOK, DagRun

(* Every step of the DAG is one of the control plane or leaves it alone,    *)
(* and keeps the shape of the DAG's own state.                              *)
LEMMA DagStep ==
    ASSUME DagInv, [DagNext]_dagVars
    PROVE  DagInv' /\ [Next]_vars
<1> USE DEF DagInv, DagTypeOK
<1>1. ASSUME NEW r \in Runs, Task(r)
      PROVE  DagInv' /\ [Next]_vars
  <2>1. dag[r].state = "RUNNING" /\ (Advance(r) \/ TryAgainOrFail(r)) /\ UNCHANGED faults
    BY <1>1 DEF Task, TaskSucceeds, TaskRaises
  <2>2. Operation(r) \/ UNCHANGED <<vars, done>>
    BY <1>1 DEF Task, TaskSucceeds, TaskRaises
  <2> QED
    BY <2>1, <2>2, OperationIsNext, SchedulerType, FaultType
<1>2. ASSUME NEW r \in Runs, TaskDies(r)
      PROVE  DagInv' /\ [Next]_vars
  <2>1. dag[r].state = "RUNNING" /\ TryAgainOrFail(r) /\ Fault
    BY <1>2 DEF TaskDies
  <2>2. \/ Operation(r) \/ UNCHANGED <<vars, done>>
        \/ CreateBatchCrashes(dag[r].batch) /\ UNCHANGED done
    BY <1>2 DEF TaskDies
  <2>3. CreateBatchCrashes(dag[r].batch) => Next
    BY <2>1 DEF Next
  <2> QED
    BY <2>1, <2>2, <2>3, OperationIsNext, SchedulerType, FaultType
<1>3. ASSUME NEW r \in Runs, Callback(r) \/ CallbackIsLost(r)
      PROVE  DagInv' /\ [Next]_vars
  <2>1. FailAirflowRun(r) \/ UNCHANGED vars
    BY <1>3 DEF Callback, CallbackIsLost
  <2>2. dag' \in [Runs -> DagRun] /\ \A q \in Runs : /\ dag'[q].state = dag[q].state
                                                     /\ dag'[q].batch = dag[q].batch
    BY <1>3 DEF Callback, CallbackIsLost, DagRun
  <2> QED
    BY <1>3, <2>1, <2>2, FaultType DEF Callback, CallbackIsLost, Next
<1>4. ASSUME NEW r \in Runs, NEW pos \in Chain, ClearFrom(r, pos)
      PROVE  DagInv' /\ [Next]_vars
  <2>1. dag' \in [Runs -> DagRun] /\ \A q \in Runs : /\ dag'[q].batch = dag[q].batch
                                                     /\ q # r => dag'[q].state = dag[q].state
    <3> DEFINE callback == IF dag[r].callback = "LOST" THEN "NONE" ELSE dag[r].callback
    <3> DEFINE row == [dag[r] EXCEPT !.state = "RUNNING", !.pos = pos, !.callback = callback]
    <3>1. row \in DagRun /\ row.batch = dag[r].batch
      BY DEF DagRun
    <3>2. dag' = [dag EXCEPT ![r] = row]
      BY <1>4 DEF ClearFrom
    <3> QED
      BY <3>1, <3>2
  <2> QED
    BY <1>4, <2>1 DEF ClearFrom
<1>5. ASSUME NEW r \in Runs, Clear(r)
      PROVE  DagInv' /\ [Next]_vars
  <2>1. Create \in Chain /\ dag[r].pos \in Chain
    BY DagAssumption DEF Create, Chain, Publish, DagRun
  <2> QED
    BY <1>5, <1>4, <2>1 DEF Clear
<1>6. ASSUME NEW r \in Runs, NEW b \in Batches, Trigger(r, b)
      PROVE  DagInv' /\ [Next]_vars
  BY <1>6 DEF Trigger, DagRun
<1>7. ASSUME NEW b \in Batches, Supersede(b)
      PROVE  DagInv' /\ [Next]_vars
  BY <1>7 DEF Supersede, Next
<1>8. ASSUME NEW p \in Partitions, Land(p)
      PROVE  DagInv' /\ [Next]_vars
  BY <1>8 DEF Land, Next
<1>9. CASE UNCHANGED dagVars
  BY <1>9 DEF dagVars
<1> QED
  BY <1>1, <1>2, <1>3, <1>5, <1>6, <1>7, <1>8, <1>9 DEF DagNext

(* DAG runs, phases and the fault counter keep their shape.                 *)
THEOREM DagTypeCorrect == DagSpec => []DagTypeOK
<1>1. DagInv => DagTypeOK
  BY DEF DagInv
<1> QED
  BY <1>1, DagInvInit, DagStep, PTL DEF DagSpec

(* The DAG, with its retries, clears and callbacks, never does anything to  *)
(* the tables that the open control plane does not allow.                   *)
THEOREM DagImplementsControlPlane == DagSpec => Spec
<1>1. DagInit => Init
  BY DEF DagInit
<1> QED
  BY <1>1, DagInvInit, DagStep, PTL DEF DagSpec, Spec

-----------------------------------------------------------------------------
(* What the chain adds to the evidence rows                                 *)

(* A run past the job of a phase has completed the phase, wherever it was   *)
(* cleared to; and the audit object is written by the last phase.           *)
PassedIsDone ==
    \A r \in Runs, i \in DOMAIN Phases : 2 * i + 1 < dag[r].pos => Phases[i] \in done[r]
AuditedIsLoaded == \A r \in Runs : auditStore[r] # "NONE" => done[r] = Tasks

LoadInv == PassedIsDone /\ AuditedIsLoaded

(* The position of a job, and of a phase in the chain.                      *)
LEMMA JobOfPhase ==
    ASSUME NEW i \in DOMAIN Phases
    PROVE  /\ i \in Nat /\ Len(Phases) \in Nat /\ i <= Len(Phases)
           /\ 2 * i + 1 \in Jobs
           /\ PhaseAt(2 * i + 1) = Phases[i]
<1>1. DOMAIN Phases = 1 .. Len(Phases) /\ Len(Phases) \in Nat
  BY DagAssumption
<1>2. i \in Nat /\ i <= Len(Phases)
  BY <1>1
<1>3. ((2 * i + 1) - 1) \div 2 = i
  BY <1>2
<1> QED
  BY <1>1, <1>2, <1>3 DEF Jobs, PhaseAt

LEMMA OperationLoads ==
    ASSUME DagInv, LoadInv, NEW r \in Runs, dag[r].state = "RUNNING", Operation(r),
           [Next]_vars, TypeInv,
           done' \in [Runs -> SUBSET Tasks], \A q \in Runs : done[q] \subseteq done'[q]
    PROVE  /\ AuditedIsLoaded'
           /\ \A i \in DOMAIN Phases : 2 * i + 1 = dag[r].pos => Phases[i] \in done'[r]
<1> USE DEF DagInv, DagTypeOK, LoadInv, objects
<1>1. \A q \in Runs : done[q] = Tasks => done'[q] = Tasks
  OBVIOUS
<1>2. UNCHANGED auditStore => AuditedIsLoaded'
  BY <1>1 DEF AuditedIsLoaded
<1>3. CASE dag[r].pos = Create /\ CreateTask(r)
  <2>1. UNCHANGED auditStore
    BY <1>3 DEF CreateTask, CreateBatch, SealManifest, vars
  <2>2. \A i \in DOMAIN Phases : 2 * i + 1 # dag[r].pos
    BY <1>3, JobOfPhase, DagAssumption DEF Create
  <2> QED
    BY <1>2, <2>1, <2>2
<1>4. CASE dag[r].pos = Start /\ StartTask(r)
  <2>1. UNCHANGED auditStore
    BY <1>4 DEF StartTask, StartAttempt, vars
  <2>2. \A i \in DOMAIN Phases : 2 * i + 1 # dag[r].pos
    BY <1>4, JobOfPhase, DagAssumption DEF Start
  <2> QED
    BY <1>2, <2>1, <2>2
<1>5. CASE dag[r].pos \in Jobs /\ JobTask(r)
  <2>1. PICK k \in DOMAIN Phases : dag[r].pos = 2 * k + 1
    BY <1>5 DEF Jobs
  <2>2. PhaseAt(dag[r].pos) = Phases[k]
    BY <2>1, JobOfPhase
  <2>3. Phases[k] \in done'[r]
    BY <1>5, <2>2 DEF JobTask
  <2>4. \A i \in DOMAIN Phases : 2 * i + 1 = dag[r].pos => i = k
    BY <2>1, JobOfPhase
  <2>5. CASE Phases[k] = ReconcileTask
    <3>1. k = Len(Phases)
      BY <2>5, DagAssumption
    <3>2. \A i \in DOMAIN Phases : i # k => 2 * i + 1 < 2 * k + 1
      BY <3>1, JobOfPhase
    <3>3. \A i \in DOMAIN Phases : Phases[i] \in done'[r]
      BY <2>1, <2>3, <3>2 DEF PassedIsDone
    <3>4. done'[r] = Tasks
      BY <3>3, DagAssumption
    <3>5. \A q \in Runs \ {r} : auditStore'[q] = auditStore[q]
      BY <1>5 DEF JobTask, WriteAuditEvidence, TypeInv, TypeOK, vars
    <3> QED
      BY <1>1, <2>3, <2>4, <3>4, <3>5 DEF AuditedIsLoaded
  <2>6. CASE Phases[k] # ReconcileTask
    <3>1. UNCHANGED auditStore
      BY <1>5, <2>2, <2>6 DEF JobTask, vars
    <3> QED
      BY <1>2, <2>3, <2>4, <3>1
  <2> QED
    BY <2>5, <2>6
<1>6. CASE dag[r].pos \in Evidences /\ EvidenceTask(r)
  <2>1. UNCHANGED auditStore
    BY <1>6 DEF EvidenceTask, RecordTaskSuccess
  <2>2. \A i \in DOMAIN Phases : 2 * i + 1 # dag[r].pos
    <3>1. PICK k \in DOMAIN Phases : dag[r].pos = 2 * k + 2
      BY <1>6 DEF Evidences
    <3> QED
      BY <3>1, JobOfPhase
  <2> QED
    BY <1>2, <2>1, <2>2
<1>7. CASE dag[r].pos = Publish /\ PublishTask(r)
  <2>1. UNCHANGED auditStore
    BY <1>7 DEF PublishTask, PublishBatch, vars
  <2>2. \A i \in DOMAIN Phases : 2 * i + 1 # dag[r].pos
    BY <1>7, JobOfPhase DEF Publish
  <2> QED
    BY <1>2, <2>1, <2>2
<1> QED
  BY <1>3, <1>4, <1>5, <1>6, <1>7 DEF Operation

(* The scheduler goes one task on at most, and only past what was done.     *)
LEMMA SchedulerLoads ==
    ASSUME DagInv, LoadInv, NEW r \in Runs,
           \/ Advance(r) /\ \A i \in DOMAIN Phases :
                                2 * i + 1 = dag[r].pos => Phases[i] \in done'[r]
           \/ TryAgainOrFail(r),
           \A q \in Runs : done[q] \subseteq done'[q]
    PROVE  PassedIsDone'
<1> USE DEF DagInv, DagTypeOK, LoadInv
<1>1. \A q \in Runs \ {r} : dag'[q] = dag[q]
  BY DEF Advance, TryAgainOrFail
<1>2. dag[r].pos \in Nat
  BY DagAssumption DEF DagRun, Chain, Create, Publish
<1>3. CASE TryAgainOrFail(r)
  <2>1. dag'[r].pos = dag[r].pos
    BY <1>3 DEF TryAgainOrFail, DagRun
  <2> QED
    BY <1>1, <2>1 DEF PassedIsDone
<1>4. CASE Advance(r) /\ \A i \in DOMAIN Phases :
                            2 * i + 1 = dag[r].pos => Phases[i] \in done'[r]
  <2>1. dag'[r].pos \in {dag[r].pos, dag[r].pos + 1}
    BY <1>4 DEF Advance, DagRun
  <2>2. ASSUME NEW i \in DOMAIN Phases, 2 * i + 1 < dag'[r].pos
        PROVE  Phases[i] \in done'[r]
    <3>1. i \in Nat
      BY JobOfPhase
    <3>2. 2 * i + 1 < dag[r].pos \/ 2 * i + 1 = dag[r].pos
      BY <1>2, <2>1, <2>2, <3>1
    <3> QED
      BY <1>4, <3>2 DEF PassedIsDone
  <2> QED
    BY <1>1, <2>2 DEF PassedIsDone
<1> QED
  BY <1>3, <1>4

LEMMA LoadInvInit == DagInit => LoadInv
<1> SUFFICES ASSUME DagInit PROVE LoadInv
  OBVIOUS
<1>1. ASSUME NEW i \in DOMAIN Phases
      PROVE  ~(2 * i + 1 < Create)
  BY JobOfPhase DEF Create
<1> QED
  BY <1>1 DEF DagInit, Init, LoadInv, PassedIsDone, AuditedIsLoaded

LEMMA LoadInvNext ==
    ASSUME DagInv, TypeInv, LoadInv, [DagNext]_dagVars
    PROVE  LoadInv'
<1> USE DEF DagInv, DagTypeOK, LoadInv, objects
<1>0. ASSUME UNCHANGED <<auditStore, done>>, \A r \in Runs : dag'[r].pos = dag[r].pos
      PROVE  LoadInv'
  BY <1>0 DEF PassedIsDone, AuditedIsLoaded
<1>1. ASSUME NEW r \in Runs, dag[r].state = "RUNNING", Operation(r),
             Advance(r) \/ TryAgainOrFail(r)
      PROVE  LoadInv'
  <2>1. /\ [Next]_vars /\ done' \in [Runs -> SUBSET Tasks]
        /\ \A q \in Runs : done[q] \subseteq done'[q]
    BY <1>1, OperationIsNext
  <2>2. /\ AuditedIsLoaded'
        /\ \A i \in DOMAIN Phases : 2 * i + 1 = dag[r].pos => Phases[i] \in done'[r]
    BY <1>1, <2>1, OperationLoads
  <2> QED
    BY <1>1, <2>1, <2>2, SchedulerLoads
<1>2. ASSUME NEW r \in Runs, TryAgainOrFail(r), UNCHANGED <<auditStore, done>>
      PROVE  LoadInv'
  BY <1>2, SchedulerLoads DEF AuditedIsLoaded
<1>3. ASSUME NEW r \in Runs, Task(r) \/ TaskDies(r)
      PROVE  LoadInv'
  <2>1. dag[r].state = "RUNNING" /\ (Advance(r) \/ TryAgainOrFail(r))
    BY <1>3 DEF Task, TaskSucceeds, TaskRaises, TaskDies
  <2>2. CASE Operation(r)
    BY <1>1, <2>1, <2>2
  <2>3. CASE ~Operation(r)
    <3>1. TryAgainOrFail(r) /\ UNCHANGED <<auditStore, done>>
      BY <1>3, <2>3 DEF Task, TaskSucceeds, TaskRaises, TaskDies, CreateBatchCrashes,
                        SealManifest, vars
    <3> QED
      BY <1>2, <3>1
  <2> QED
    BY <2>2, <2>3
<1>4. ASSUME NEW r \in Runs, Callback(r) \/ CallbackIsLost(r)
      PROVE  LoadInv'
  <2>1. UNCHANGED <<auditStore, done>>
    BY <1>4 DEF Callback, CallbackIsLost, FailAirflowRun, vars
  <2>2. \A q \in Runs : dag'[q].pos = dag[q].pos
    BY <1>4 DEF Callback, CallbackIsLost, DagRun
  <2> QED
    BY <1>0, <2>1, <2>2
<1>5. ASSUME NEW r \in Runs, NEW pos, pos \in {Create, dag[r].pos}, ClearFrom(r, pos)
      PROVE  LoadInv'
  <2>1. UNCHANGED <<auditStore, done>>
    BY <1>5 DEF ClearFrom, vars
  <2>2. dag'[r].pos = pos /\ \A q \in Runs \ {r} : dag'[q] = dag[q]
    BY <1>5 DEF ClearFrom, DagRun
  <2>3. ASSUME NEW i \in DOMAIN Phases
        PROVE  ~(2 * i + 1 < Create)
    BY JobOfPhase DEF Create
  <2> QED
    BY <1>5, <2>1, <2>2, <2>3 DEF PassedIsDone, AuditedIsLoaded
<1>6. ASSUME NEW r \in Runs, NEW b \in Batches, Trigger(r, b)
      PROVE  LoadInv'
  BY <1>6, <1>0 DEF Trigger, DagRun, vars
<1>7. ASSUME NEW b \in Batches, Supersede(b)
      PROVE  LoadInv'
  BY <1>7, <1>0 DEF Supersede, SupersedeBatch
<1>8. ASSUME NEW p \in Partitions, Land(p)
      PROVE  LoadInv'
  BY <1>8, <1>0 DEF Land, BronzeLand
<1>9. CASE UNCHANGED dagVars
  BY <1>9, <1>0 DEF dagVars, vars
<1> QED
  BY <1>3, <1>4, <1>5, <1>6, <1>7, <1>8, <1>9 DEF DagNext, Clear

(* A batch is published only by an attempt whose DAG run completed every    *)
(* Spark phase, and audited only after them, although neither publish_batch *)
(* nor record_task_success asks: through retries, clears from any task and  *)
(* callbacks that come late.                                                *)
THEOREM PublishedIsLoaded == DagSpec => []PublishedWasLoaded
<1>1. DagInit => DagInv /\ LoadInv /\ TypeInv /\ AuditInv
  BY DagInvInit, LoadInvInit, TypeInvInit, AuditInvInit DEF DagInit
<1>2. DagInv /\ LoadInv /\ TypeInv /\ AuditInv /\ [DagNext]_dagVars
        => (DagInv /\ LoadInv /\ TypeInv /\ AuditInv)'
  BY DagStep, LoadInvNext, TypeInvNext, AuditInvNext
<1>3. LoadInv /\ AuditInv => PublishedWasLoaded
  BY DEF LoadInv, AuditInv, AuditedIsLoaded, PublishedWasAudited, PublishedWasLoaded,
         AttemptsOf
<1> QED
  BY <1>1, <1>2, <1>3, PTL DEF DagSpec

-----------------------------------------------------------------------------
(* DAG runs and attempts                                                    *)

(* An attempt belongs to a run that was triggered, and to its batch.        *)
AttemptsAreTriggered ==
    \A r \in Runs : attempt[r].state # "NONE" =>
        dag[r].state # "NONE" /\ attempt[r].batch = dag[r].batch

AgreeInv == AttemptsAreTriggered /\ RunsAgreeWithAttempts

(* What AgreeInv asks of one run after a step.                              *)
AgreesAfter(r) ==
    /\ attempt'[r].state # "NONE" =>
        dag'[r].state # "NONE" /\ attempt'[r].batch = dag'[r].batch
    /\ dag'[r].state = "SUCCESS" =>
        /\ attempt'[r].state = "SUCCESS"
        /\ batch'[dag'[r].batch].state = "PUBLISHED"
    /\ attempt'[r].state = "RUNNING" =>
        dag'[r].state = "RUNNING" \/ dag'[r].callback \in {"PENDING", "LOST"}

(* It is enough to look at the run the step is about: what another one has  *)
(* published stays.                                                         *)
LEMMA AgreeFrame ==
    ASSUME DagInv, AgreeInv, PublishedStays, NEW r \in Runs, AgreesAfter(r),
           \A q \in Runs \ {r} : dag'[q] = dag[q] /\ attempt'[q] = attempt[q]
    PROVE  AgreeInv'
<1>1. ASSUME NEW q \in Runs \ {r}
      PROVE  AgreesAfter(q)
  <2>1. dag[q].state = "SUCCESS" => batch'[dag[q].batch].state = "PUBLISHED"
    BY DEF DagInv, AgreeInv, RunsAgreeWithAttempts, PublishedStays, InState
  <2> QED
    BY <2>1 DEF AgreesAfter, AgreeInv, AttemptsAreTriggered, RunsAgreeWithAttempts
<1>2. \A q \in Runs : AgreesAfter(q)
  BY <1>1
<1> QED
  BY <1>2 DEF AgreesAfter, AgreeInv, AttemptsAreTriggered, RunsAgreeWithAttempts

(* The operation of a task touches the attempt of its own run only; and the *)
(* publish task ends with attempt and batch closed.                         *)
LEMMA OperationAttempts ==
    ASSUME DagInv, TypeInv, AgreeInv, NEW r \in Runs, dag[r].state = "RUNNING", Operation(r)
    PROVE  /\ \A q \in Runs \ {r} : attempt'[q] = attempt[q]
           /\ attempt'[r].state # "NONE" => attempt'[r].batch = dag[r].batch
           /\ dag[r].pos = Publish =>
                /\ attempt'[r].state = "SUCCESS"
                /\ batch'[dag[r].batch].state = "PUBLISHED"
<1> USE DEF DagInv, DagTypeOK, objects, attemptTables, batchTables
<1>0. attempt[r].state # "NONE" => attempt[r].batch = dag[r].batch
  BY DEF AgreeInv, AttemptsAreTriggered
<1>1. CASE dag[r].pos \in Jobs \cup Evidences
  <2>1. dag[r].pos # Create /\ dag[r].pos # Start /\ dag[r].pos # Publish
    <3>1. PICK i \in DOMAIN Phases : dag[r].pos = 2 * i + 1 \/ dag[r].pos = 2 * i + 2
      BY <1>1 DEF Jobs, Evidences
    <3>2. i \in Nat /\ Len(Phases) \in Nat /\ i <= Len(Phases) /\ i # 0
      BY DagAssumption
    <3> QED
      BY <3>1, <3>2 DEF Create, Start, Publish
  <2>2. UNCHANGED attempt
    BY <2>1 DEF Operation, JobTask, EvidenceTask, RecordTaskSuccess, WriteAuditEvidence, vars
  <2> QED
    BY <1>0, <2>1, <2>2
<1>2. Len(Phases) \in Nat
  BY DagAssumption
<1>3. CASE dag[r].pos = Create
  <2>1. CreateTask(r) \/ dag[r].pos \in Jobs \cup Evidences
    BY <1>2, <1>3 DEF Operation, Create, Start, Publish
  <2>2. CASE CreateTask(r)
    <3>1. UNCHANGED attempt
      BY <2>2 DEF CreateTask, CreateBatch, SealManifest, vars
    <3> QED
      BY <1>0, <1>2, <1>3, <3>1 DEF Create, Publish
  <2> QED
    BY <1>1, <2>1, <2>2
<1>4. CASE dag[r].pos = Start
  <2>1. StartTask(r) \/ dag[r].pos \in Jobs \cup Evidences
    BY <1>2, <1>4 DEF Operation, Create, Start, Publish
  <2>2. CASE StartTask(r)
    <3>1. CASE UNCHANGED vars
      BY <1>0, <1>2, <1>4, <3>1 DEF vars, Start, Publish
    <3>2. CASE StartAttempt(dag[r].batch, r)
      <4>1. /\ attempt'[r].batch = dag[r].batch
            /\ \A q \in Runs \ {r} : attempt'[q] = attempt[q]
        BY <3>2 DEF StartAttempt, TypeInv, TypeOK
      <4> QED
        BY <1>2, <1>4, <4>1 DEF Start, Publish
    <3> QED
      BY <2>2, <3>1, <3>2 DEF StartTask
  <2> QED
    BY <1>1, <2>1, <2>2
<1>5. CASE dag[r].pos = Publish
  <2>1. PublishTask(r) \/ dag[r].pos \in Jobs \cup Evidences
    BY <1>2, <1>5 DEF Operation, Create, Start, Publish
  <2>2. CASE PublishTask(r)
    <3>1. CASE attempt[r].state = "SUCCESS" /\ batch[attempt[r].batch].state = "PUBLISHED"
      BY <1>0, <2>2, <3>1 DEF PublishTask, vars
    <3>2. CASE PublishBatch(r)
      <4>1. attempt[r].state = "RUNNING" /\ attempt[r].batch = dag[r].batch
        BY <1>0, <3>2 DEF PublishBatch, AttemptIsLive
      <4>2. /\ attempt'[r].state = "SUCCESS" /\ attempt'[r].batch = attempt[r].batch
            /\ \A q \in Runs \ {r} : attempt'[q] = attempt[q]
        BY <3>2 DEF PublishBatch, TypeInv, TypeOK, AttemptRow
      <4>3. batch'[dag[r].batch].state = "PUBLISHED"
        <5>1. dag[r].batch \in Batches
          OBVIOUS
        <5> QED
          BY <3>2, <4>1, <5>1
             DEF PublishBatch, FirstPublish, ReplayPublish, TypeInv, TypeOK, BatchRow
      <4> QED
        BY <4>1, <4>2, <4>3
    <3> QED
      BY <2>2, <3>1, <3>2 DEF PublishTask
  <2> QED
    BY <1>1, <2>1, <2>2
<1> QED
  BY <1>1, <1>3, <1>4, <1>5 DEF Operation

(* Where the scheduler takes a DAG run.                                     *)
LEMMA SchedulerStates ==
    ASSUME DagInv, NEW r \in Runs, dag[r].state = "RUNNING", Advance(r) \/ TryAgainOrFail(r)
    PROVE  /\ \A q \in Runs \ {r} : dag'[q] = dag[q]
           /\ dag'[r].batch = dag[r].batch
           /\ \/ dag'[r].state = "RUNNING"
              \/ dag'[r].state = "FAILED" /\ dag'[r].callback = "PENDING"
              \/ dag'[r].state = "SUCCESS" /\ dag[r].pos = Publish /\ Advance(r)
BY DEF DagInv, DagTypeOK, DagRun, Advance, TryAgainOrFail

LEMMA AgreeInvInit == DagInit => AgreeInv
BY DEF DagInit, Init, AgreeInv, AttemptsAreTriggered, RunsAgreeWithAttempts

LEMMA AgreeInvNext ==
    ASSUME DagInv, TypeInv, AgreeInv, PublishedStays, [DagNext]_dagVars
    PROVE  AgreeInv'
<1> USE DEF DagInv, DagTypeOK, objects, attemptTables, batchTables
<1>1. ASSUME NEW r \in Runs, Task(r) \/ TaskDies(r)
      PROVE  AgreeInv'
  <2>1. dag[r].state = "RUNNING" /\ (Advance(r) \/ TryAgainOrFail(r))
    BY <1>1 DEF Task, TaskSucceeds, TaskRaises, TaskDies
  <2>2. /\ \A q \in Runs \ {r} : dag'[q] = dag[q]
        /\ dag'[r].batch = dag[r].batch
        /\ \/ dag'[r].state = "RUNNING"
           \/ dag'[r].state = "FAILED" /\ dag'[r].callback = "PENDING"
           \/ dag'[r].state = "SUCCESS" /\ dag[r].pos = Publish /\ Advance(r)
    BY <2>1, SchedulerStates
  <2>3. CASE Operation(r)
    <3>1. /\ \A q \in Runs \ {r} : attempt'[q] = attempt[q]
          /\ attempt'[r].state # "NONE" => attempt'[r].batch = dag[r].batch
          /\ dag[r].pos = Publish =>
               /\ attempt'[r].state = "SUCCESS"
               /\ batch'[dag[r].batch].state = "PUBLISHED"
      BY <2>1, <2>3, OperationAttempts
    <3>2. AgreesAfter(r)
      BY <2>2, <3>1 DEF AgreesAfter
    <3> QED
      BY <2>2, <3>1, <3>2, AgreeFrame
  <2>4. CASE ~Operation(r)
    <3>1. TryAgainOrFail(r) /\ UNCHANGED attempt
      BY <1>1, <2>4 DEF Task, TaskSucceeds, TaskRaises, TaskDies, CreateBatchCrashes,
                        SealManifest, vars
    <3>2. dag'[r].state # "SUCCESS"
      BY <2>1, <3>1 DEF TryAgainOrFail, DagRun
    <3>3. AgreesAfter(r)
      BY <2>2, <3>1, <3>2 DEF AgreesAfter, AgreeInv, AttemptsAreTriggered
    <3> QED
      BY <2>2, <3>1, <3>3, AgreeFrame
  <2> QED
    BY <2>3, <2>4
<1>2. ASSUME NEW r \in Runs, Callback(r)
      PROVE  AgreeInv'
  <2>1. /\ \A q \in Runs \ {r} : dag'[q] = dag[q]
        /\ dag'[r].state = dag[r].state /\ dag'[r].batch = dag[r].batch
    BY <1>2 DEF Callback, DagRun
  <2>2. /\ \A q \in Runs \ {r} : attempt'[q] = attempt[q]
        /\ attempt'[r].batch = attempt[r].batch
        /\ attempt'[r].state = IF attempt[r].state = "RUNNING" THEN "FAILED"
                               ELSE attempt[r].state
    BY <1>2 DEF Callback, FailAirflowRun, vars, TypeInv, TypeOK, AttemptRow
  <2>3. dag[r].state = "SUCCESS" =>
          batch[dag[r].batch].state = "PUBLISHED" /\ attempt[r].state = "SUCCESS"
    BY DEF AgreeInv, RunsAgreeWithAttempts
  <2>4. dag[r].state = "SUCCESS" => batch'[dag[r].batch].state = "PUBLISHED"
    BY <2>3 DEF PublishedStays, InState
  <2>5. AgreesAfter(r)
    BY <2>1, <2>2, <2>3, <2>4 DEF AgreesAfter, AgreeInv, AttemptsAreTriggered
  <2> QED
    BY <2>1, <2>2, <2>5, AgreeFrame
<1>3. ASSUME NEW r \in Runs, CallbackIsLost(r)
      PROVE  AgreeInv'
  <2>1. /\ \A q \in Runs \ {r} : dag'[q] = dag[q]
        /\ dag'[r].state = dag[r].state /\ dag'[r].batch = dag[r].batch
        /\ dag'[r].callback = "LOST" /\ UNCHANGED <<attempt, batch>>
    BY <1>3 DEF CallbackIsLost, DagRun, vars
  <2>2. AgreesAfter(r)
    BY <2>1 DEF AgreesAfter, AgreeInv, AttemptsAreTriggered, RunsAgreeWithAttempts
  <2> QED
    BY <2>1, <2>2, AgreeFrame
<1>4. ASSUME NEW r \in Runs, NEW pos, ClearFrom(r, pos)
      PROVE  AgreeInv'
  <2>1. /\ \A q \in Runs \ {r} : dag'[q] = dag[q]
        /\ dag'[r].state = "RUNNING" /\ dag'[r].batch = dag[r].batch
        /\ dag[r].state = "FAILED" /\ UNCHANGED attempt
    BY <1>4 DEF ClearFrom, DagRun, vars
  <2>2. AgreesAfter(r)
    BY <2>1 DEF AgreesAfter, AgreeInv, AttemptsAreTriggered
  <2> QED
    BY <2>1, <2>2, AgreeFrame
<1>5. ASSUME NEW r \in Runs, NEW b \in Batches, Trigger(r, b)
      PROVE  AgreeInv'
  <2>1. /\ \A q \in Runs \ {r} : dag'[q] = dag[q]
        /\ dag[r].state = "NONE" /\ dag'[r].state = "RUNNING" /\ UNCHANGED attempt
    BY <1>5 DEF Trigger, DagRun, vars
  <2>2. attempt[r].state = "NONE"
    BY <2>1 DEF AgreeInv, AttemptsAreTriggered
  <2>3. AgreesAfter(r)
    BY <2>1, <2>2 DEF AgreesAfter
  <2> QED
    BY <2>1, <2>3, AgreeFrame
<1>6. ASSUME UNCHANGED <<dag, attempt>>
      PROVE  AgreeInv'
  <2>1. \A r \in Runs : dag[r].state = "SUCCESS" => batch'[dag[r].batch].state = "PUBLISHED"
    BY DEF AgreeInv, RunsAgreeWithAttempts, PublishedStays, InState
  <2> QED
    BY <1>6, <2>1 DEF AgreeInv, AttemptsAreTriggered, RunsAgreeWithAttempts
<1>7. ASSUME NEW b \in Batches, Supersede(b)
      PROVE  AgreeInv'
  BY <1>7, <1>6 DEF Supersede, SupersedeBatch
<1>8. ASSUME NEW p \in Partitions, Land(p)
      PROVE  AgreeInv'
  BY <1>8, <1>6 DEF Land, BronzeLand
<1>9. CASE UNCHANGED dagVars
  BY <1>9, <1>6 DEF dagVars, vars
<1> QED
  BY <1>1, <1>2, <1>3, <1>4, <1>5, <1>7, <1>8, <1>9 DEF DagNext, Clear

(* A green DAG run published its batch under its own attempt, and an        *)
(* attempt runs only while its DAG run does or a failure callback is owed   *)
(* for it or was lost.                                                      *)
THEOREM RunsAlwaysAgree == DagSpec => []RunsAgreeWithAttempts
<1>1. DagInit => DagInv /\ AgreeInv
  BY DagInvInit, AgreeInvInit
<1>2. TypeInv /\ SingleWriter /\ CoverageInv /\ DagInv /\ AgreeInv /\ [DagNext]_dagVars
        => (DagInv /\ AgreeInv)'
  BY DagStep, PublishedStaysNext, AgreeInvNext
<1>3. AgreeInv => RunsAgreeWithAttempts
  BY DEF AgreeInv
<1> QED
  BY <1>1, <1>2, <1>3, DagImplementsControlPlane, CoverageInvariant, PTL DEF DagSpec
=============================================================================
