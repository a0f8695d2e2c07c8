-------------------------- MODULE ControlPlaneProofs --------------------------
(***************************************************************************)
(* Theorems about the control plane, for every set of batches, runs and     *)
(* partitions and every bound.                                              *)
(***************************************************************************)
EXTENDS ControlPlane, SequenceTheorems, TLAPS

-----------------------------------------------------------------------------
(* Type correctness                                                         *)

AttemptNumbers(b) == {0} \cup {attempt[r].number : r \in AttemptsOf(b)}

(* A batch row carries a manifest.                                          *)
SealedRows == \A b \in Rows : batch[b].manifest \in Manifest

(* An attempt that exists belongs to a row and carries a manifest.          *)
SealedAttempts ==
    \A r \in Runs :
        IF attempt[r].state = "NONE" THEN attempt[r].batch = None
        ELSE attempt[r].batch \in Rows /\ attempt[r].manifest \in Manifest

(* The attempts of a batch have a greatest number.                          *)
HaveLastAttempt ==
    \A b \in Batches : \E n \in AttemptNumbers(b) : \A m \in AttemptNumbers(b) : m <= n

TypeInv == TypeOK /\ SealedRows /\ SealedAttempts /\ HaveLastAttempt

LEMMA PreviousHighType ==
    ASSUME TypeInv, NEW p \in Partitions
    PROVE  PreviousHigh(p) \in Int
<1>1. CASE \E b \in Batches : IsLatestPublished(b) /\ batch[b].manifest.high[p] >= 0
  <2> DEFINE c == CHOOSE b \in Batches : IsLatestPublished(b)
  <2>1. c \in Batches /\ IsLatestPublished(c)
    BY <1>1
  <2>2. batch[c].manifest \in Manifest
    BY <2>1 DEF IsLatestPublished, InState, TypeInv, SealedRows, Rows
  <2>3. batch[c].manifest.high[p] \in Int
    BY <2>2 DEF Manifest
  <2> QED
    BY <1>1, <2>3 DEF PreviousHigh
<1>2. CASE ~ \E b \in Batches : IsLatestPublished(b) /\ batch[b].manifest.high[p] >= 0
  BY <1>2 DEF PreviousHigh
<1> QED
  BY <1>1, <1>2

LEMMA BuildManifestType ==
    ASSUME TypeInv, NEW listing \in Listings, NEW balanced \in LedgerOutcomes
    PROVE  BuildManifest(listing, balanced) \in Manifest
<1>1. listing \in [Partitions -> 0 .. MaxObjects]
  BY DEF Listings
<1>2. [p \in Partitions |-> IF listing[p] > 0 THEN PreviousHigh(p) ELSE -1]
        \in [Partitions -> Int]
  BY PreviousHighType
<1>3. [p \in Partitions |-> listing[p] - 1] \in [Partitions -> Int]
  BY <1>1, ControlPlaneAssumption
<1>4. balanced \in BOOLEAN /\ clock + 1 \in Nat
  BY ControlPlaneAssumption DEF TypeInv, TypeOK
<1> QED
  BY <1>2, <1>3, <1>4 DEF BuildManifest, Manifest

LEMMA LastAttemptNumberType ==
    ASSUME TypeInv, NEW b \in Batches
    PROVE  /\ LastAttemptNumber(b) \in Nat
           /\ LastAttemptNumber(b) \in AttemptNumbers(b)
           /\ \A m \in AttemptNumbers(b) : m <= LastAttemptNumber(b)
<1>1. \E n \in AttemptNumbers(b) : \A m \in AttemptNumbers(b) : m <= n
  BY DEF TypeInv, HaveLastAttempt
<1>2. AttemptNumbers(b) \subseteq Nat
  BY DEF AttemptNumbers, AttemptsOf, TypeInv, TypeOK, AttemptRow
<1>3. LastAttemptNumber(b) =
        CHOOSE n \in AttemptNumbers(b) : \A m \in AttemptNumbers(b) : m <= n
  BY DEF LastAttemptNumber, AttemptNumbers
<1> QED
  BY <1>1, <1>2, <1>3

(* A step that keeps every attempt's batch and number keeps the maximum.    *)
LEMMA LastAttemptFrame ==
    ASSUME HaveLastAttempt,
           \A r \in Runs : /\ attempt'[r].batch = attempt[r].batch
                           /\ attempt'[r].number = attempt[r].number
    PROVE  HaveLastAttempt'
<1>1. \A b \in Batches : AttemptNumbers(b)' = AttemptNumbers(b)
  BY DEF AttemptNumbers, AttemptsOf
<1> QED
  BY <1>1 DEF HaveLastAttempt

(* Moving a row to another state, and recording states, keep the types.     *)
LEMMA SetStateType ==
    ASSUME batch \in [Batches -> BatchRow], NEW b \in Rows, NEW state \in BatchStates,
           batch' = [batch EXCEPT ![b].state = state]
    PROVE  /\ batch' \in [Batches -> BatchRow]
           /\ Rows' = Rows
           /\ \A c \in Batches : batch'[c].manifest = batch[c].manifest
<1>1. /\ batch' = [batch EXCEPT ![b] = [batch[b] EXCEPT !.state = state]]
      /\ [batch[b] EXCEPT !.state = state] \in BatchRow
  BY DEF Rows, BatchRow
<1>2. batch' \in [Batches -> BatchRow]
  BY <1>1 DEF Rows
<1> QED
  BY <1>1, <1>2 DEF Rows, BatchRow, BatchStates

LEMMA RecordEventType ==
    ASSUME events \in [Batches -> Seq(BatchStates)], NEW b \in Rows,
           NEW suffix \in Seq(BatchStates), events' = [events EXCEPT ![b] = @ \o suffix]
    PROVE  events' \in [Batches -> Seq(BatchStates)]
<1>1. b \in Batches /\ events[b] \o suffix \in Seq(BatchStates)
  BY DEF Rows
<1> QED
  BY <1>1

LEMMA TypeInvInit == Init => TypeInv
<1> SUFFICES ASSUME Init PROVE TypeInv
  OBVIOUS
<1>1. TypeOK
  <2>1. bronze \in [Partitions -> Nat] /\ intervals \subseteq Interval /\ clock \in Nat
    BY DEF Init
  <2>2. store \in [Batches -> Manifest \cup {None}]
    BY DEF Init
  <2>3. auditStore \in [Runs -> Verdicts] /\ audit \in [Runs -> Verdicts]
    BY DEF Init, Verdicts
  <2>4. batch \in [Batches -> BatchRow]
    BY DEF Init, BatchRow
  <2>5. attempt \in [Runs -> AttemptRow]
    BY DEF Init, AttemptRow
  <2>6. evidence \in [Runs -> [Tasks -> Manifest \cup {None}]]
    BY DEF Init
  <2>7. events \in [Batches -> Seq(BatchStates)]
    BY DEF Init
  <2> QED
    BY <2>1, <2>2, <2>3, <2>4, <2>5, <2>6, <2>7 DEF TypeOK
<1>2. Rows = {}
  BY DEF Init, Rows
<1>3. SealedRows /\ SealedAttempts
  BY <1>2 DEF Init, SealedRows, SealedAttempts
<1>4. \A b \in Batches : AttemptNumbers(b) = {0}
  BY ControlPlaneAssumption DEF Init, AttemptNumbers, AttemptsOf
<1> QED
  BY <1>1, <1>3, <1>4 DEF TypeInv, HaveLastAttempt

LEMMA TypeInvNext == TypeInv /\ [Next]_vars => TypeInv'
<1> SUFFICES ASSUME TypeInv, [Next]_vars
             PROVE  TypeInv'
  OBVIOUS
<1> USE DEF TypeInv, objects, attemptTables, batchTables
<1>1. ASSUME NEW p \in Partitions, BronzeLand(p)
      PROVE  TypeInv'
  BY <1>1, LastAttemptFrame DEF BronzeLand, TypeOK, SealedRows, SealedAttempts, Rows
<1>2. ASSUME NEW b \in Batches, CreateBatch(b)
      PROVE  TypeInv'
  <2>1. PICK m \in Manifest :
        /\ SealManifest(b, m)
        /\ batch' = [batch EXCEPT ![b] = [state |-> "CREATED", manifest |-> m,
                                          created_at |-> clock + 1, published_at |-> 0]]
        /\ events' = [events EXCEPT ![b] = <<"CREATED">>]
    BY <1>2, BuildManifestType DEF CreateBatch
  <2>2. batch' \in [Batches -> BatchRow]
    <3>1. [state |-> "CREATED", manifest |-> m, created_at |-> clock + 1, published_at |-> 0]
             \in BatchRow
      BY DEF TypeOK, BatchRow, BatchStates
    <3> QED
      BY <2>1, <3>1 DEF TypeOK
  <2>3. store' \in [Batches -> Manifest \cup {None}]
    BY <2>1 DEF TypeOK, SealManifest, WriteManifest
  <2>4. events' \in [Batches -> Seq(BatchStates)]
    BY <2>1 DEF TypeOK, BatchStates
  <2>5. TypeOK'
    BY <2>1, <2>2, <2>3, <2>4 DEF TypeOK, SealManifest
  <2>6. Rows' = Rows \cup {b}
    BY <2>1 DEF TypeOK, Rows
  <2>7. SealedRows' /\ SealedAttempts'
    BY <2>1, <2>6 DEF TypeOK, SealManifest, SealedRows, SealedAttempts
  <2> QED
    BY <2>1, <2>5, <2>7, LastAttemptFrame DEF SealManifest
<1>3. ASSUME NEW b \in Batches, CreateBatchCrashes(b)
      PROVE  TypeInv'
  <2>1. PICK m \in Manifest : SealManifest(b, m) /\ UNCHANGED <<batch, events>>
    BY <1>3, BuildManifestType DEF CreateBatchCrashes
  <2>2. store' \in [Batches -> Manifest \cup {None}]
    BY <2>1 DEF TypeOK, SealManifest, WriteManifest
  <2>3. SealedRows' /\ SealedAttempts' /\ HaveLastAttempt'
    BY <2>1, LastAttemptFrame DEF SealManifest, SealedRows, SealedAttempts, Rows
  <2> QED
    BY <2>1, <2>2, <2>3 DEF TypeOK, SealManifest
<1>4. ASSUME NEW b \in Batches, SupersedeBatch(b)
      PROVE  TypeInv'
  <2>1. /\ batch' \in [Batches -> BatchRow]
        /\ Rows' = Rows
        /\ \A c \in Batches : batch'[c].manifest = batch[c].manifest
    BY <1>4 DEF SupersedeBatch, TypeOK, BatchRow, BatchStates, Rows
  <2>2. events' \in [Batches -> Seq(BatchStates)]
    BY <1>4 DEF SupersedeBatch, TypeOK, BatchStates
  <2>3. SealedRows' /\ SealedAttempts' /\ HaveLastAttempt'
    BY <1>4, <2>1, LastAttemptFrame DEF SupersedeBatch, SealedRows, SealedAttempts, Rows
  <2> QED
    BY <1>4, <2>1, <2>2, <2>3 DEF SupersedeBatch, TypeOK
<1>5. ASSUME NEW b \in Batches, NEW r \in Runs, StartAttempt(b, r)
      PROVE  TypeInv'
  <2> DEFINE n == LastAttemptNumber(b)
  <2>1. n \in Nat /\ \A m \in AttemptNumbers(b) : m <= n
    BY LastAttemptNumberType
  <2>2. /\ attempt[r].state = "NONE"
        /\ attempt' = [attempt EXCEPT ![r] = [state |-> "RUNNING", batch |-> b,
                          number |-> n + 1, manifest |-> batch[b].manifest]]
    BY <1>5 DEF StartAttempt
  <2> HIDE DEF n
  <2>3. b \in Rows /\ batch[b].manifest \in Manifest
    BY <1>5 DEF StartAttempt, MayStart, Rows, SealedRows
  <2>4. attempt' \in [Runs -> AttemptRow]
    BY <2>1, <2>2, <2>3 DEF TypeOK, AttemptRow
  <2>5. /\ batch' \in [Batches -> BatchRow]
        /\ Rows' = Rows
        /\ \A c \in Batches : batch'[c].manifest = batch[c].manifest
    <3>1. CASE UNCHANGED batch
      BY <3>1 DEF TypeOK, Rows
    <3>2. CASE batch' = [batch EXCEPT ![b].state = "RUNNING"]
      BY <2>3, <3>2, SetStateType DEF TypeOK, BatchStates
    <3> QED
      BY <1>5, <3>1, <3>2 DEF StartAttempt
  <2>6. events' \in [Batches -> Seq(BatchStates)]
    <3>1. CASE UNCHANGED events
      BY <3>1 DEF TypeOK
    <3>2. CASE events' = [events EXCEPT ![b] = Append(@, "RUNNING")]
      BY <3>2 DEF TypeOK, BatchStates
    <3> QED
      BY <1>5, <3>1, <3>2 DEF StartAttempt
  <2>7. TypeOK'
    BY <1>5, <2>4, <2>5, <2>6 DEF StartAttempt, TypeOK
  <2>8. SealedRows' /\ SealedAttempts'
    BY <2>2, <2>3, <2>5 DEF TypeOK, SealedRows, SealedAttempts, Rows
  <2>9. ASSUME NEW c \in Batches
        PROVE  \E k \in AttemptNumbers(c)' : \A m \in AttemptNumbers(c)' : m <= k
    <3>1. CASE c = b
      <4>1. AttemptNumbers(b)' \subseteq AttemptNumbers(b) \cup {n + 1}
        BY <2>2 DEF AttemptNumbers, AttemptsOf, TypeOK
      <4>2. n + 1 \in AttemptNumbers(b)'
        BY <2>2 DEF AttemptNumbers, AttemptsOf, TypeOK
      <4>3. \A m \in AttemptNumbers(b) : m \in Nat
        BY DEF AttemptNumbers, AttemptsOf, TypeOK, AttemptRow
      <4> QED
        BY <2>1, <3>1, <4>1, <4>2, <4>3
    <3>2. CASE c # b
      <4>1. r \notin AttemptsOf(c) /\ AttemptsOf(c)' = AttemptsOf(c)
        BY <2>2, <3>2, ControlPlaneAssumption DEF AttemptsOf, TypeOK, SealedAttempts
      <4>2. AttemptNumbers(c)' = AttemptNumbers(c)
        BY <2>2, <4>1 DEF AttemptNumbers, AttemptsOf, TypeOK
      <4> QED
        BY <4>2 DEF HaveLastAttempt
    <3> QED
      BY <3>1, <3>2
  <2> QED
    BY <2>7, <2>8, <2>9 DEF HaveLastAttempt
<1>6. ASSUME NEW r \in Runs, WriteAuditEvidence(r)
      PROVE  TypeInv'
  <2>1. auditStore' \in [Runs -> Verdicts]
    BY <1>6 DEF WriteAuditEvidence, VerdictsFor, Verdicts, TypeOK
  <2> QED
    BY <1>6, <2>1, LastAttemptFrame
       DEF WriteAuditEvidence, TypeOK, SealedRows, SealedAttempts, Rows
<1>7. ASSUME NEW r \in Runs, NEW t \in Tasks, RecordTaskSuccess(r, t)
      PROVE  TypeInv'
  <2>1. ProvedManifest(r) \in Manifest
    BY <1>7 DEF RecordTaskSuccess, AttemptIsLive, SealedAttempts
  <2>2. evidence' \in [Runs -> [Tasks -> Manifest \cup {None}]]
    <3>1. CASE UNCHANGED evidence
      BY <3>1 DEF TypeOK
    <3>2. CASE RecordEvidence(r, t)
      <4> DEFINE row == [evidence[r] EXCEPT ![t] = ProvedManifest(r)]
      <4>1. evidence' = [evidence EXCEPT ![r] = row]
        BY <3>2 DEF RecordEvidence
      <4>2. row \in [Tasks -> Manifest \cup {None}]
        BY <2>1 DEF TypeOK
      <4> QED
        BY <4>1, <4>2 DEF TypeOK
    <3> QED
      BY <1>7, <3>1, <3>2 DEF RecordTaskSuccess
  <2>3. audit' \in [Runs -> Verdicts]
    BY <1>7 DEF RecordTaskSuccess, RecordAudit, TypeOK
  <2> QED
    BY <1>7, <2>2, <2>3, LastAttemptFrame
       DEF RecordTaskSuccess, TypeOK, SealedRows, SealedAttempts, Rows
<1>8. ASSUME NEW r \in Runs, PublishBatch(r)
      PROVE  TypeInv'
  <2>1. /\ attempt[r].state = "RUNNING" /\ attempt[r].batch \in Rows
        /\ attempt' = [attempt EXCEPT ![r].state = "SUCCESS"]
    BY <1>8 DEF PublishBatch, AttemptIsLive, SealedAttempts
  <2>2. attempt' \in [Runs -> AttemptRow]
    BY <2>1 DEF TypeOK, AttemptRow
  <2>3. /\ batch' \in [Batches -> BatchRow]
        /\ Rows' = Rows
        /\ \A c \in Batches : batch'[c].manifest = batch[c].manifest
    <3>1. CASE ReplayPublish(r)
      BY <3>1 DEF ReplayPublish, TypeOK, Rows
    <3>2. CASE FirstPublish(r)
      <4> DEFINE b == attempt[r].batch
                 row == [batch[b] EXCEPT !.state = "PUBLISHED", !.published_at = clock + 1]
      <4>1. b \in Batches /\ batch' = [batch EXCEPT ![b] = row]
        BY <2>1, <3>2 DEF FirstPublish, Rows
      <4>2. row \in BatchRow /\ row.manifest = batch[b].manifest /\ row.state = "PUBLISHED"
        <5>1. batch[b] \in BatchRow /\ clock + 1 \in Nat
          BY <4>1 DEF TypeOK
        <5> HIDE DEF b
        <5> QED
          BY <5>1 DEF BatchRow, BatchStates
      <4> HIDE DEF b, row
      <4>3. b \in Rows
        BY <2>1 DEF b
      <4> QED
        BY <4>1, <4>2, <4>3 DEF TypeOK, Rows
    <3> QED
      BY <1>8, <3>1, <3>2 DEF PublishBatch
  <2>4. IntervalsOf(attempt[r].batch) \subseteq Interval
    BY <2>1 DEF IntervalsOf, Interval, SealedRows, Manifest, Rows
  <2>5. events' \in [Batches -> Seq(BatchStates)]
    <3>1. CASE ReplayPublish(r)
      BY <3>1 DEF ReplayPublish, TypeOK
    <3>2. CASE FirstPublish(r)
      <4>1. <<"VALIDATED", "PUBLISHED">> \in Seq(BatchStates)
        BY DEF BatchStates
      <4> QED
        BY <2>1, <3>2, <4>1, RecordEventType DEF FirstPublish, TypeOK
    <3> QED
      BY <1>8, <3>1, <3>2 DEF PublishBatch
  <2>6. intervals' \subseteq Interval /\ clock' \in Nat
    BY <1>8, <2>4 DEF PublishBatch, FirstPublish, ReplayPublish, TypeOK
  <2>7. TypeOK'
    BY <1>8, <2>2, <2>3, <2>5, <2>6 DEF PublishBatch, TypeOK
  <2>8. SealedRows' /\ SealedAttempts'
    <3>1. \A q \in Runs : /\ attempt'[q].batch = attempt[q].batch
                           /\ attempt'[q].manifest = attempt[q].manifest
                           /\ (attempt'[q].state = "NONE" <=> attempt[q].state = "NONE")
      BY <2>1 DEF TypeOK, AttemptRow
    <3>2. SealedRows'
      BY <2>3 DEF SealedRows, Rows
    <3>3. SealedAttempts'
      BY <2>3, <3>1 DEF SealedAttempts
    <3> QED
      BY <3>2, <3>3
  <2>9. HaveLastAttempt'
    BY <2>1, LastAttemptFrame DEF TypeOK
  <2> QED
    BY <2>7, <2>8, <2>9
<1>9. ASSUME NEW r \in Runs, FailAirflowRun(r)
      PROVE  TypeInv'
  <2>1. /\ attempt[r].state = "RUNNING" /\ attempt[r].batch \in Rows
        /\ attempt' = [attempt EXCEPT ![r].state = "FAILED"]
    BY <1>9 DEF FailAirflowRun, SealedAttempts
  <2>2. attempt' \in [Runs -> AttemptRow]
    BY <2>1 DEF TypeOK, AttemptRow
  <2>3. /\ batch' \in [Batches -> BatchRow]
        /\ Rows' = Rows
        /\ \A c \in Batches : batch'[c].manifest = batch[c].manifest
    <3>1. CASE UNCHANGED batch
      BY <3>1 DEF TypeOK, Rows
    <3>2. CASE batch' = [batch EXCEPT ![attempt[r].batch].state = "FAILED"]
      BY <2>1, <3>2, SetStateType DEF TypeOK, BatchStates
    <3> QED
      BY <1>9, <3>1, <3>2 DEF FailAirflowRun
  <2>4. events' \in [Batches -> Seq(BatchStates)]
    <3>1. CASE UNCHANGED events
      BY <3>1 DEF TypeOK
    <3>2. CASE events' = [events EXCEPT ![attempt[r].batch] = Append(@, "FAILED")]
      BY <2>1, <3>2 DEF TypeOK, BatchStates, Rows
    <3> QED
      BY <1>9, <3>1, <3>2 DEF FailAirflowRun
  <2>5. TypeOK'
    BY <1>9, <2>2, <2>3, <2>4 DEF FailAirflowRun, TypeOK
  <2>6. SealedRows' /\ SealedAttempts'
    <3>1. \A q \in Runs : /\ attempt'[q].batch = attempt[q].batch
                           /\ attempt'[q].manifest = attempt[q].manifest
                           /\ (attempt'[q].state = "NONE" <=> attempt[q].state = "NONE")
      BY <2>1 DEF TypeOK, AttemptRow
    <3>2. SealedRows'
      BY <2>3 DEF SealedRows, Rows
    <3>3. SealedAttempts'
      BY <2>3, <3>1 DEF SealedAttempts
    <3> QED
      BY <3>2, <3>3
  <2>7. HaveLastAttempt'
    BY <2>1, LastAttemptFrame DEF TypeOK
  <2> QED
    BY <2>5, <2>6, <2>7
<1>10. ASSUME UNCHANGED vars
       PROVE  TypeInv'
  BY <1>10, LastAttemptFrame DEF vars, TypeOK, SealedRows, SealedAttempts, Rows
<1> QED
  BY <1>1, <1>2, <1>3, <1>4, <1>5, <1>6, <1>7, <1>8, <1>9, <1>10 DEF Next

(* Every table and object keeps its declared type.                          *)
THEOREM TypeCorrect == Spec => []TypeOK
<1>1. TypeInv => TypeOK
  BY DEF TypeInv
<1> QED
  BY <1>1, TypeInvInit, TypeInvNext, PTL DEF Spec

-----------------------------------------------------------------------------
(* One writer at a time.  SingleWriter is inductive relative to TypeInv.    *)

(* A step that changes neither the batch states nor the attempts' states    *)
(* and batches keeps SingleWriter.                                          *)
LEMMA SingleWriterFrame ==
    ASSUME SingleWriter, UNCHANGED <<batch, attempt>>
    PROVE  SingleWriter'
BY DEF SingleWriter, RunningAttempts, Unfinished, InState, Rows

LEMMA SingleWriterNext == TypeInv /\ SingleWriter /\ [Next]_vars => SingleWriter'
<1> SUFFICES ASSUME TypeInv, SingleWriter, [Next]_vars
             PROVE  SingleWriter'
  OBVIOUS
<1> USE DEF objects, attemptTables, batchTables
<1>1. ASSUME NEW p \in Partitions, BronzeLand(p)
      PROVE  SingleWriter'
  BY <1>1, SingleWriterFrame DEF BronzeLand
<1>2. ASSUME NEW b \in Batches, CreateBatch(b)
      PROVE  SingleWriter'
  <2>1. /\ MaySeal(b) /\ UNCHANGED attempt
        /\ batch'[b].state = "CREATED" /\ \A c \in Batches \ {b} : batch'[c] = batch[c]
    <3>1. PICK m \in Manifest :
            /\ SealManifest(b, m)
            /\ batch' = [batch EXCEPT ![b] = [state |-> "CREATED", manifest |-> m,
                             created_at |-> clock + 1, published_at |-> 0]]
      BY <1>2, BuildManifestType DEF CreateBatch
    <3> QED
      BY <3>1 DEF SealManifest, TypeInv, TypeOK
  <2> QED
    <3>1. RunningAttempts' = {} /\ InState("RUNNING")' = {}
      BY <2>1 DEF MaySeal, RunningAttempts, Unfinished, InState, Rows
    <3>2. Unfinished' = {b}
      BY <2>1 DEF MaySeal, Unfinished, Rows
    <3> QED
      BY <3>1, <3>2 DEF SingleWriter
<1>3. ASSUME NEW b \in Batches, CreateBatchCrashes(b)
      PROVE  SingleWriter'
  BY <1>3, SingleWriterFrame DEF CreateBatchCrashes, SealManifest
<1>4. ASSUME NEW b \in Batches, SupersedeBatch(b)
      PROVE  SingleWriter'
  <2>1. /\ UNCHANGED attempt
        /\ batch[b].state \in {"CREATED", "FAILED"} /\ batch'[b].state = "SUPERSEDED"
        /\ \A c \in Batches \ {b} : batch'[c] = batch[c]
    BY <1>4 DEF SupersedeBatch, TypeInv, TypeOK, BatchRow
  <2> QED
    BY <2>1 DEF SingleWriter, RunningAttempts, Unfinished, InState, Rows, TypeInv,
                SealedAttempts
<1>5. ASSUME NEW b \in Batches, NEW r \in Runs, StartAttempt(b, r)
      PROVE  SingleWriter'
  <2>1. /\ RunningAttempts = {}
        /\ attempt'[r].state = "RUNNING" /\ attempt'[r].batch = b
        /\ \A q \in Runs \ {r} : attempt'[q] = attempt[q]
    BY <1>5 DEF StartAttempt, MayStart, TypeInv, TypeOK
  <2>2. RunningAttempts' = {r}
    BY <2>1 DEF RunningAttempts
  <2>3. /\ batch[b].state \in {"CREATED", "FAILED", "PUBLISHED"}
        /\ IF batch[b].state = "PUBLISHED" THEN UNCHANGED batch
           ELSE /\ batch'[b].state = "RUNNING"
                /\ \A c \in Batches \ {b} : batch'[c] = batch[c]
    BY <1>5 DEF StartAttempt, MayStart, TypeInv, TypeOK, BatchRow
  <2>4. InState("RUNNING") = {}
    BY <2>1 DEF SingleWriter
  <2>5. Unfinished' = Unfinished
    BY <2>3 DEF Unfinished, Rows
  <2> QED
    BY <2>1, <2>2, <2>3, <2>4, <2>5 DEF SingleWriter, InState
<1>6. ASSUME NEW r \in Runs, WriteAuditEvidence(r)
      PROVE  SingleWriter'
  BY <1>6, SingleWriterFrame DEF WriteAuditEvidence
<1>7. ASSUME NEW r \in Runs, NEW t \in Tasks, RecordTaskSuccess(r, t)
      PROVE  SingleWriter'
  BY <1>7, SingleWriterFrame DEF RecordTaskSuccess
<1>8. ASSUME NEW r \in Runs, PublishBatch(r)
      PROVE  SingleWriter'
  <2> DEFINE b == attempt[r].batch
  <2>1. /\ r \in RunningAttempts /\ b \in Batches
        /\ attempt'[r].state = "SUCCESS"
        /\ \A q \in Runs \ {r} : attempt'[q] = attempt[q]
    BY <1>8 DEF PublishBatch, AttemptIsLive, RunningAttempts, TypeInv, TypeOK, AttemptRow,
                SealedAttempts, Rows
  <2>2. batch'[b].state = "PUBLISHED" /\ \A c \in Batches \ {b} : batch'[c] = batch[c]
    BY <1>8, <2>1 DEF PublishBatch, FirstPublish, ReplayPublish, TypeInv, TypeOK, BatchRow
  <2>3. RunningAttempts' = {}
    BY <2>1 DEF RunningAttempts, SingleWriter
  <2>4. InState("RUNNING")' = {}
    BY <2>1, <2>2 DEF InState, SingleWriter
  <2>5. Unfinished' \subseteq Unfinished
    BY <2>2 DEF Unfinished, Rows
  <2> QED
    BY <2>3, <2>4, <2>5 DEF SingleWriter
<1>9. ASSUME NEW r \in Runs, FailAirflowRun(r)
      PROVE  SingleWriter'
  <2> DEFINE b == attempt[r].batch
  <2>1. /\ r \in RunningAttempts /\ b \in Batches
        /\ attempt'[r].state = "FAILED"
        /\ \A q \in Runs \ {r} : attempt'[q] = attempt[q]
    BY <1>9 DEF FailAirflowRun, RunningAttempts, TypeInv, TypeOK, AttemptRow, SealedAttempts,
                Rows
  <2>2. /\ IF batch[b].state = "RUNNING" THEN batch'[b].state = "FAILED"
           ELSE batch'[b] = batch[b]
        /\ \A c \in Batches \ {b} : batch'[c] = batch[c]
    BY <1>9, <2>1 DEF FailAirflowRun, TypeInv, TypeOK, BatchRow
  <2>3. RunningAttempts' = {}
    BY <2>1 DEF RunningAttempts, SingleWriter
  <2>4. InState("RUNNING")' = {}
    BY <2>1, <2>2 DEF InState, SingleWriter
  <2>5. Unfinished' \subseteq Unfinished
    BY <2>2 DEF Unfinished, Rows
  <2> QED
    BY <2>3, <2>4, <2>5 DEF SingleWriter
<1>10. ASSUME UNCHANGED vars
       PROVE  SingleWriter'
  BY <1>10, SingleWriterFrame DEF vars
<1> QED
  BY <1>1, <1>2, <1>3, <1>4, <1>5, <1>6, <1>7, <1>8, <1>9, <1>10 DEF Next

(* At most one attempt runs and at most one batch is unfinished, and they   *)
(* belong together, whatever operations are called and in whatever order.   *)
THEOREM OneWriterAtATime == Spec => []SingleWriter
<1>1. Init => SingleWriter
  BY DEF Init, SingleWriter, RunningAttempts, Unfinished, InState, Rows
<1> QED
  BY <1>1, TypeInvInit, TypeInvNext, SingleWriterNext, PTL DEF Spec

-----------------------------------------------------------------------------
(* What a published batch went through.  publish_batch reads evidence rows  *)
(* and an audit row that earlier transactions wrote from objects in the     *)
(* bucket; the invariant ties rows and objects together, so that what the   *)
(* last transaction sees is true of the objects too.                        *)

(* A batch row names the manifest that is in the bucket.                    *)
StoredRows == \A b \in Rows : batch[b].manifest = store[b]

(* An attempt works on the manifest of its batch.                           *)
StoredAttempts ==
    \A r \in Runs : attempt[r].state # "NONE" => attempt[r].manifest = store[attempt[r].batch]

(* An audit row repeats the audit object, which belongs to an attempt and   *)
(* passed only over a balanced manifest.                                    *)
StoredAudits ==
    \A r \in Runs :
        /\ audit[r] \in {"NONE", auditStore[r]}
        /\ auditStore[r] # "NONE" => attempt[r].state # "NONE"
        /\ auditStore[r] = "PASS" => attempt[r].manifest.balanced

AuditInv == StoredRows /\ StoredAttempts /\ StoredAudits /\ PublishedWasAudited

-----------------------------------------------------------------------------
(* A step that publishes nothing, and leaves published batches and their    *)
(* successful attempts alone, keeps PublishedWasAudited.                    *)
LEMMA AuditedFrame ==
    ASSUME PublishedWasAudited,
           InState("PUBLISHED")' \subseteq InState("PUBLISHED"),
           \A b \in InState("PUBLISHED") :
               batch'[b].manifest = batch[b].manifest /\ store'[b] = store[b],
           \A r \in Runs : attempt[r].state = "SUCCESS" /\ auditStore[r] = "PASS" =>
               /\ attempt'[r] = attempt[r] /\ auditStore'[r] = auditStore[r]
               /\ evidence'[r] = evidence[r]
    PROVE  PublishedWasAudited'
<1> SUFFICES ASSUME NEW b \in InState("PUBLISHED")'
             PROVE  /\ batch'[b].manifest = store'[b]
                    /\ store'[b].balanced
                    /\ \E r \in AttemptsOf(b)' :
                        /\ attempt'[r].state = "SUCCESS"
                        /\ auditStore'[r] = "PASS"
                        /\ \A t \in Tasks : evidence'[r][t] = store'[b]
  BY DEF PublishedWasAudited
<1>1. b \in InState("PUBLISHED")
  OBVIOUS
<1>2. PICK r \in AttemptsOf(b) :
        /\ attempt[r].state = "SUCCESS"
        /\ auditStore[r] = "PASS"
        /\ \A t \in Tasks : evidence[r][t] = store[b]
  BY <1>1 DEF PublishedWasAudited
<1>3. r \in AttemptsOf(b)'
  BY <1>2 DEF AttemptsOf
<1> QED
  BY <1>1, <1>2, <1>3 DEF PublishedWasAudited, AttemptsOf

(* Sealing writes the manifest of a batch that has no row and no attempt.   *)
LEMMA SealAudit ==
    ASSUME TypeInv, AuditInv, NEW b \in Batches, NEW m \in Manifest, SealManifest(b, m)
    PROVE  /\ b \notin Rows /\ store'[b] = m
           /\ \A c \in Rows : store'[c] = store[c]
           /\ StoredAttempts' /\ StoredAudits'
<1>1. b \notin Rows /\ store'[b] = m /\ \A c \in Rows : store'[c] = store[c]
  BY DEF SealManifest, MaySeal, WriteManifest, Rows, TypeInv, TypeOK
<1>2. \A r \in Runs : attempt[r].state # "NONE" => attempt[r].batch \in Rows
  BY DEF TypeInv, SealedAttempts
<1> QED
  BY <1>1, <1>2 DEF SealManifest, AuditInv, StoredAttempts, StoredAudits, attemptTables

LEMMA AuditInvInit == Init => AuditInv
BY DEF Init, AuditInv, StoredRows, StoredAttempts, StoredAudits, PublishedWasAudited,
       InState, Rows

LEMMA AuditInvNext ==
    ASSUME TypeInv, AuditInv, [Next]_vars
    PROVE  AuditInv'
<1> USE DEF AuditInv, objects, attemptTables, batchTables
<1> DEFINE Keeps == UNCHANGED <<store, auditStore, batch, attempt, evidence, audit>>
<1>0. ASSUME Keeps PROVE AuditInv'
  BY <1>0, AuditedFrame DEF StoredRows, StoredAttempts, StoredAudits, InState, Rows
<1>1. ASSUME NEW p \in Partitions, BronzeLand(p)
      PROVE  AuditInv'
  BY <1>1, <1>0 DEF BronzeLand
<1>2. ASSUME NEW b \in Batches, CreateBatch(b)
      PROVE  AuditInv'
  <2>1. PICK m \in Manifest :
        /\ SealManifest(b, m)
        /\ batch' = [batch EXCEPT ![b] = [state |-> "CREATED", manifest |-> m,
                                          created_at |-> clock + 1, published_at |-> 0]]
    BY <1>2, BuildManifestType DEF CreateBatch
  <2>2. /\ b \notin Rows /\ store'[b] = m /\ \A c \in Rows : store'[c] = store[c]
        /\ StoredAttempts' /\ StoredAudits'
    BY <2>1, SealAudit
  <2>3. /\ batch'[b].manifest = m /\ batch'[b].state = "CREATED"
        /\ \A c \in Batches \ {b} : batch'[c] = batch[c]
    BY <2>1 DEF TypeInv, TypeOK
  <2>4. StoredRows'
    BY <2>2, <2>3 DEF StoredRows, Rows
  <2>5. PublishedWasAudited'
    <3>1. InState("PUBLISHED")' \subseteq InState("PUBLISHED")
      BY <2>3 DEF InState
    <3>2. \A c \in InState("PUBLISHED") : c \in Rows /\ c # b
      BY <2>2 DEF InState, Rows
    <3>3. UNCHANGED <<auditStore, attempt, evidence, audit>>
      BY <2>1 DEF SealManifest
    <3> QED
      BY <2>2, <2>3, <3>1, <3>2, <3>3, AuditedFrame DEF Rows
  <2> QED
    BY <2>2, <2>4, <2>5
<1>3. ASSUME NEW b \in Batches, CreateBatchCrashes(b)
      PROVE  AuditInv'
  <2>1. PICK m \in Manifest : SealManifest(b, m) /\ UNCHANGED batch
    BY <1>3, BuildManifestType DEF CreateBatchCrashes
  <2>2. /\ \A c \in Rows : store'[c] = store[c]
        /\ StoredAttempts' /\ StoredAudits'
    BY <2>1, SealAudit
  <2>3. \A c \in InState("PUBLISHED") : c \in Rows
    BY DEF InState, Rows
  <2>4. StoredRows' /\ PublishedWasAudited'
    BY <2>1, <2>2, <2>3, AuditedFrame DEF SealManifest, StoredRows, InState, Rows
  <2> QED
    BY <2>2, <2>4
<1>4. ASSUME NEW b \in Batches, SupersedeBatch(b)
      PROVE  AuditInv'
  <2>1. /\ b \in Rows /\ UNCHANGED <<objects, attemptTables>>
        /\ batch' = [batch EXCEPT ![b].state = "SUPERSEDED"]
    BY <1>4 DEF SupersedeBatch, Rows
  <2>2. Rows' = Rows /\ \A c \in Batches : batch'[c].manifest = batch[c].manifest
    BY <2>1, SetStateType DEF TypeInv, TypeOK, BatchStates
  <2>3. InState("PUBLISHED")' \subseteq InState("PUBLISHED")
    BY <2>1 DEF InState, TypeInv, TypeOK, BatchRow
  <2>4. PublishedWasAudited'
    BY <2>1, <2>2, <2>3, AuditedFrame DEF InState
  <2> QED
    BY <2>1, <2>2, <2>4 DEF StoredRows, StoredAttempts, StoredAudits, Rows
<1>5. ASSUME NEW b \in Batches, NEW r \in Runs, StartAttempt(b, r)
      PROVE  AuditInv'
  <2>1. /\ attempt[r].state = "NONE" /\ b \in Rows
        /\ attempt'[r].state = "RUNNING" /\ attempt'[r].batch = b
        /\ attempt'[r].manifest = batch[b].manifest
        /\ \A q \in Runs \ {r} : attempt'[q] = attempt[q]
        /\ UNCHANGED <<objects, evidence, audit>>
    BY <1>5 DEF StartAttempt, MayStart, Rows, TypeInv, TypeOK
  <2>2. /\ Rows' = Rows
        /\ \A c \in Batches : batch'[c].manifest = batch[c].manifest
        /\ InState("PUBLISHED")' \subseteq InState("PUBLISHED")
    <3>1. CASE UNCHANGED batch
      BY <3>1 DEF Rows, InState
    <3>2. CASE batch' = [batch EXCEPT ![b].state = "RUNNING"]
      <4>1. Rows' = Rows /\ \A c \in Batches : batch'[c].manifest = batch[c].manifest
        BY <2>1, <3>2, SetStateType DEF TypeInv, TypeOK, BatchStates
      <4>2. InState("PUBLISHED")' \subseteq InState("PUBLISHED")
        BY <3>2 DEF InState, TypeInv, TypeOK, BatchRow
      <4> QED
        BY <4>1, <4>2
    <3> QED
      BY <1>5, <3>1, <3>2 DEF StartAttempt
  <2>3. StoredRows' /\ StoredAttempts'
    BY <2>1, <2>2 DEF StoredRows, StoredAttempts, Rows
  <2>4. StoredAudits'
    BY <2>1 DEF StoredAudits
  <2>5. PublishedWasAudited'
    <3>1. \A q \in Runs : attempt[q].state = "SUCCESS" => attempt'[q] = attempt[q]
      BY <2>1
    <3> QED
      BY <2>1, <2>2, <3>1, AuditedFrame DEF InState
  <2> QED
    BY <2>3, <2>4, <2>5
<1>6. ASSUME NEW r \in Runs, WriteAuditEvidence(r)
      PROVE  AuditInv'
  <2>1. /\ UNCHANGED <<store, batch, attempt, evidence, audit>>
        /\ attempt[r].state # "NONE" /\ auditStore[r] = "NONE"
        /\ \A q \in Runs \ {r} : auditStore'[q] = auditStore[q]
        /\ auditStore'[r] \in VerdictsFor(attempt[r].manifest)
    BY <1>6 DEF WriteAuditEvidence, TypeInv, TypeOK
  <2>2. StoredAudits'
    BY <2>1 DEF StoredAudits, VerdictsFor
  <2>3. PublishedWasAudited'
    <3>1. \A q \in Runs : auditStore[q] = "PASS" => auditStore'[q] = auditStore[q]
      BY <2>1
    <3> QED
      BY <2>1, <3>1, AuditedFrame DEF InState
  <2> QED
    BY <2>1, <2>2, <2>3 DEF StoredRows, StoredAttempts, Rows
<1>7. ASSUME NEW r \in Runs, NEW t \in Tasks, RecordTaskSuccess(r, t)
      PROVE  AuditInv'
  <2>1. /\ UNCHANGED <<objects, attempt, batch>> /\ attempt[r].state = "RUNNING"
        /\ \A q \in Runs \ {r} : audit'[q] = audit[q] /\ evidence'[q] = evidence[q]
        /\ audit'[r] \in {audit[r], auditStore[r]}
    BY <1>7 DEF RecordTaskSuccess, AttemptIsLive, RecordAudit, RecordEvidence, TypeInv, TypeOK
  <2>2. PublishedWasAudited'
    BY <2>1, AuditedFrame DEF InState
  <2>3. StoredAudits'
    BY <2>1 DEF StoredAudits
  <2> QED
    BY <2>1, <2>2, <2>3 DEF StoredRows, StoredAttempts, Rows
<1>8. ASSUME NEW r \in Runs, PublishBatch(r)
      PROVE  AuditInv'
  <2>1. PICK b \in Rows : b = attempt[r].batch
    BY <1>8 DEF PublishBatch, AttemptIsLive, TypeInv, SealedAttempts
  <2>2. /\ UNCHANGED <<objects, evidence, audit>>
        /\ attempt[r].state = "RUNNING" /\ attempt'[r].state = "SUCCESS"
        /\ \A q \in Runs \ {r} : attempt'[q] = attempt[q]
        /\ \A q \in Runs : /\ attempt'[q].batch = attempt[q].batch
                           /\ attempt'[q].manifest = attempt[q].manifest
                           /\ attempt[q].state # "NONE" <=> attempt'[q].state # "NONE"
    BY <1>8 DEF PublishBatch, AttemptIsLive, TypeInv, TypeOK, AttemptRow
  <2>3. /\ \A t \in Tasks : evidence[r][t] = store[b]
        /\ auditStore[r] = "PASS" /\ store[b].balanced
    BY <1>8, <2>1, <2>2
       DEF PublishBatch, EvidenceIsComplete, StoredAttempts, StoredAudits
  <2>4. /\ \A c \in Batches : batch'[c].manifest = batch[c].manifest
        /\ \A c \in Batches \ {b} : batch'[c] = batch[c]
        /\ Rows' = Rows
    <3>1. CASE ReplayPublish(r)
      BY <3>1 DEF ReplayPublish, Rows
    <3>2. CASE FirstPublish(r)
      <4> DEFINE row == [batch[b] EXCEPT !.state = "PUBLISHED", !.published_at = clock + 1]
      <4>1. batch' = [batch EXCEPT ![b] = row]
        BY <2>1, <3>2 DEF FirstPublish
      <4>2. row.manifest = batch[b].manifest /\ row.state = "PUBLISHED"
        BY DEF TypeInv, TypeOK, BatchRow, Rows
      <4> HIDE DEF row
      <4> QED
        BY <4>1, <4>2 DEF TypeInv, TypeOK, Rows
    <3> QED
      BY <1>8, <3>1, <3>2 DEF PublishBatch
  <2>5. StoredRows' /\ StoredAttempts' /\ StoredAudits'
    BY <2>2, <2>4 DEF StoredRows, StoredAttempts, StoredAudits, Rows
  <2>6. ASSUME NEW c \in InState("PUBLISHED")'
        PROVE  /\ batch'[c].manifest = store'[c]
               /\ store'[c].balanced
               /\ \E q \in AttemptsOf(c)' :
                    /\ attempt'[q].state = "SUCCESS"
                    /\ auditStore'[q] = "PASS"
                    /\ \A t \in Tasks : evidence'[q][t] = store'[c]
    <3>1. CASE c = b
      <4>1. r \in AttemptsOf(c)'
        BY <2>1, <2>2, <3>1 DEF AttemptsOf
      <4> QED
        BY <2>1, <2>2, <2>3, <2>4, <3>1, <4>1 DEF StoredRows, Rows
    <3>2. CASE c # b
      <4>1. c \in InState("PUBLISHED")
        BY <2>4, <3>2 DEF InState
      <4>2. PICK q \in AttemptsOf(c) :
              /\ attempt[q].state = "SUCCESS"
              /\ auditStore[q] = "PASS"
              /\ \A t \in Tasks : evidence[q][t] = store[c]
        BY <4>1 DEF PublishedWasAudited
      <4>3. q # r /\ q \in AttemptsOf(c)'
        BY <2>2, <4>2 DEF AttemptsOf
      <4> QED
        BY <2>2, <2>4, <3>2, <4>1, <4>2, <4>3 DEF PublishedWasAudited, AttemptsOf, InState
    <3> QED
      BY <3>1, <3>2
  <2>7. PublishedWasAudited'
    BY <2>6 DEF PublishedWasAudited
  <2> QED
    BY <2>5, <2>7
<1>9. ASSUME NEW r \in Runs, FailAirflowRun(r)
      PROVE  AuditInv'
  <2>1. PICK b \in Rows : b = attempt[r].batch
    BY <1>9 DEF FailAirflowRun, TypeInv, SealedAttempts
  <2>2. /\ UNCHANGED <<objects, evidence, audit>>
        /\ attempt[r].state = "RUNNING" /\ attempt'[r].state = "FAILED"
        /\ \A q \in Runs \ {r} : attempt'[q] = attempt[q]
        /\ \A q \in Runs : /\ attempt'[q].batch = attempt[q].batch
                           /\ attempt'[q].manifest = attempt[q].manifest
                           /\ attempt[q].state # "NONE" <=> attempt'[q].state # "NONE"
    BY <1>9 DEF FailAirflowRun, TypeInv, TypeOK, AttemptRow
  <2>3. /\ Rows' = Rows
        /\ \A c \in Batches : batch'[c].manifest = batch[c].manifest
        /\ InState("PUBLISHED")' \subseteq InState("PUBLISHED")
    <3>1. CASE UNCHANGED batch
      BY <3>1 DEF Rows, InState
    <3>2. CASE batch' = [batch EXCEPT ![b].state = "FAILED"]
      <4>1. Rows' = Rows /\ \A c \in Batches : batch'[c].manifest = batch[c].manifest
        BY <3>2, SetStateType DEF TypeInv, TypeOK, BatchStates
      <4>2. InState("PUBLISHED")' \subseteq InState("PUBLISHED")
        BY <3>2 DEF InState, TypeInv, TypeOK, BatchRow
      <4> QED
        BY <4>1, <4>2
    <3> QED
      BY <1>9, <2>1, <3>1, <3>2 DEF FailAirflowRun
  <2>4. StoredRows' /\ StoredAttempts' /\ StoredAudits'
    BY <2>2, <2>3 DEF StoredRows, StoredAttempts, StoredAudits, Rows
  <2>5. PublishedWasAudited'
    <3>1. \A q \in Runs : attempt[q].state = "SUCCESS" => attempt'[q] = attempt[q]
      BY <2>2
    <3> QED
      BY <2>2, <2>3, <3>1, AuditedFrame DEF InState
  <2> QED
    BY <2>4, <2>5
<1>10. ASSUME UNCHANGED vars
       PROVE  AuditInv'
  BY <1>10, <1>0 DEF vars
<1> QED
  BY <1>1, <1>2, <1>3, <1>4, <1>5, <1>6, <1>7, <1>8, <1>9, <1>10 DEF Next

(* A published batch earned it: one of its attempts succeeded with every    *)
(* task's evidence for the manifest that is still in the bucket, a stored   *)
(* audit that passed, and a balanced ledger control, whatever retries,      *)
(* crashes and late jobs came between.                                      *)
THEOREM PublishedIsAudited == Spec => []PublishedWasAudited
<1>1. AuditInv => PublishedWasAudited
  BY DEF AuditInv
<1>2. TypeInv /\ AuditInv /\ [Next]_vars => AuditInv'
  BY AuditInvNext
<1> QED
  BY <1>1, <1>2, TypeInvInit, TypeInvNext, AuditInvInit, PTL DEF Spec

-----------------------------------------------------------------------------
(* The order of things in the control plane: batches are created one after  *)
(* the other, attempts are counted without a gap, and the state history of  *)
(* a batch is a path of its state machine.                                  *)

(* An unfinished batch is the newest one: sealing waits for every other to  *)
(* be published or superseded.  Without it a replay could be overtaken.     *)
CreatedInOrder ==
    /\ \A b \in Rows : batch[b].created_at <= clock
    /\ \A b \in Unfinished, c \in Rows : batch[c].created_at <= batch[b].created_at

OrderInv == CreatedInOrder /\ ReplayIsOfNewestBatch /\ AttemptsAreNumbered

(* A history that is a path from CREATED to state s.                        *)
LegalPath(h, s) ==
    /\ h # <<>>
    /\ h[1] = "CREATED"
    /\ h[Len(h)] = s
    /\ \A n \in 1 .. Len(h) - 1 : <<h[n], h[n + 1]>> \in ALLOWED_BATCH_TRANSITIONS

-----------------------------------------------------------------------------
(* Steps that change no attempt's batch and number, and give no batch a     *)
(* new creation time, keep the order.                                       *)
LEMMA NumbersFrame ==
    ASSUME AttemptsAreNumbered,
           \A r \in Runs : /\ attempt'[r].batch = attempt[r].batch
                           /\ attempt'[r].number = attempt[r].number
    PROVE  AttemptsAreNumbered'
<1>1. \A b \in Batches : AttemptsOf(b)' = AttemptsOf(b)
  BY DEF AttemptsOf
<1>2. \A b \in Batches : \A r \in AttemptsOf(b) : attempt'[r].number = attempt[r].number
  BY DEF AttemptsOf
<1> QED
  BY <1>1, <1>2 DEF AttemptsAreNumbered

LEMMA OrderFrame ==
    ASSUME TypeInv, CreatedInOrder, ReplayIsOfNewestBatch,
           Rows' = Rows, Unfinished' \subseteq Unfinished,
           \A b \in Batches : batch'[b].created_at = batch[b].created_at,
           clock' \in Nat, clock <= clock',
           \A r \in RunningAttempts' :
               r \in RunningAttempts /\ attempt'[r].batch = attempt[r].batch
    PROVE  CreatedInOrder' /\ ReplayIsOfNewestBatch'
<1>1. Rows \subseteq Batches /\ Unfinished \subseteq Rows
  BY DEF Rows, Unfinished
<1>2. \A b \in Rows : batch[b].created_at \in Nat /\ clock \in Nat
  BY DEF Rows, TypeInv, TypeOK, BatchRow
<1>3. CreatedInOrder'
  BY <1>1, <1>2 DEF CreatedInOrder
<1>4. \A r \in RunningAttempts : attempt[r].batch \in Batches
  BY <1>1 DEF RunningAttempts, TypeInv, SealedAttempts
<1> QED
  BY <1>1, <1>3, <1>4 DEF ReplayIsOfNewestBatch

(* Moving a row to another state, seen from the other columns.              *)
LEMMA SetStateColumns ==
    ASSUME TypeInv, NEW b \in Rows, NEW state \in BatchStates,
           batch' = [batch EXCEPT ![b].state = state]
    PROVE  /\ Rows' = Rows
           /\ batch'[b].state = state
           /\ \A c \in Batches \ {b} : batch'[c] = batch[c]
           /\ \A c \in Batches : batch'[c].created_at = batch[c].created_at
<1>1. batch'[b].state = state /\ \A c \in Batches \ {b} : batch'[c] = batch[c]
  BY DEF TypeInv, TypeOK, BatchRow, Rows
<1>2. batch'[b].created_at = batch[b].created_at
  BY DEF TypeInv, TypeOK, BatchRow, Rows
<1> QED
  BY <1>1, <1>2, SetStateType DEF TypeInv, TypeOK

LEMMA OrderInvInit == Init => OrderInv
<1> SUFFICES ASSUME Init PROVE OrderInv
  OBVIOUS
<1>1. Rows = {} /\ RunningAttempts = {} /\ \A b \in Batches : AttemptsOf(b) = {}
  BY ControlPlaneAssumption DEF Init, Rows, RunningAttempts, AttemptsOf
<1> QED
  BY <1>1 DEF OrderInv, CreatedInOrder, ReplayIsOfNewestBatch, AttemptsAreNumbered, Unfinished

(* The next number is one more than the greatest, and so keeps the count    *)
(* without a gap and without repetition.                                    *)
LEMMA StartIsNumbered ==
    ASSUME TypeInv, AttemptsAreNumbered, NEW b \in Batches, NEW r \in Runs,
           StartAttempt(b, r)
    PROVE  AttemptsAreNumbered'
<1> DEFINE last == LastAttemptNumber(b)
<1>1. last \in Nat /\ last \in AttemptNumbers(b) /\ \A m \in AttemptNumbers(b) : m <= last
  BY LastAttemptNumberType
<1>2. /\ attempt[r].state = "NONE"
      /\ attempt'[r].batch = b /\ attempt'[r].number = last + 1
      /\ \A q \in Runs \ {r} : attempt'[q] = attempt[q]
  BY DEF StartAttempt, TypeInv, TypeOK
<1> HIDE DEF last
<1>3. attempt[r].batch = None
  BY <1>2 DEF TypeInv, SealedAttempts
<1>4. \A c \in Batches : r \notin AttemptsOf(c)
  BY <1>3, ControlPlaneAssumption DEF AttemptsOf
<1>5. AttemptsOf(b)' = AttemptsOf(b) \cup {r}
  BY <1>2 DEF AttemptsOf
<1>6. \A c \in Batches \ {b} : AttemptsOf(c)' = AttemptsOf(c)
  BY <1>2, <1>4 DEF AttemptsOf
<1>7. \A c \in Batches : \A q \in AttemptsOf(c) :
        /\ attempt'[q].number = attempt[q].number
        /\ attempt[q].number \in Nat
  BY <1>2, <1>4 DEF AttemptsOf, TypeInv, TypeOK, AttemptRow
<1>8. \A q \in AttemptsOf(b) : attempt[q].number <= last
  BY <1>1 DEF AttemptNumbers
<1>9. \A n \in 1 .. last : \E q \in AttemptsOf(b) : attempt[q].number = n
  <2>1. CASE last = 0
    BY <2>1
  <2>2. CASE last # 0
    BY <1>1, <2>2 DEF AttemptNumbers, AttemptsAreNumbered
  <2> QED
    BY <2>1, <2>2
<1> SUFFICES ASSUME NEW c \in Batches, NEW q \in AttemptsOf(c)', NEW s \in AttemptsOf(c)'
             PROVE  /\ attempt'[q].number = attempt'[s].number => q = s
                    /\ \A n \in 1 .. attempt'[q].number :
                         \E p \in AttemptsOf(c)' : attempt'[p].number = n
  BY DEF AttemptsAreNumbered
<1>10. CASE c = b
  <2>1. attempt'[q].number = attempt'[s].number => q = s
    <3>1. \A p \in AttemptsOf(b) : attempt'[p].number # last + 1
      BY <1>1, <1>7, <1>8
    <3>2. \A p, o \in AttemptsOf(b) : attempt[p].number = attempt[o].number => p = o
      BY DEF AttemptsAreNumbered
    <3> QED
      BY <1>2, <1>5, <1>7, <1>10, <3>1, <3>2
  <2>2. ASSUME NEW n \in 1 .. attempt'[q].number
        PROVE  \E p \in AttemptsOf(c)' : attempt'[p].number = n
    <3>1. n \in 1 .. last \/ n = last + 1
      BY <1>1, <1>2, <1>5, <1>7, <1>8, <1>10
    <3> QED
      BY <1>2, <1>5, <1>7, <1>9, <1>10, <3>1
  <2> QED
    BY <2>1, <2>2
<1>11. CASE c # b
  BY <1>6, <1>7, <1>11 DEF AttemptsAreNumbered
<1> QED
  BY <1>10, <1>11

LEMMA OrderInvNext ==
    ASSUME TypeInv, OrderInv, [Next]_vars
    PROVE  OrderInv'
<1> USE DEF OrderInv, objects, attemptTables, batchTables
<1>0. ASSUME UNCHANGED <<batch, attempt, clock>>
      PROVE  OrderInv'
  BY <1>0, NumbersFrame DEF CreatedInOrder, ReplayIsOfNewestBatch, Rows, Unfinished,
                             RunningAttempts
<1>1. ASSUME NEW p \in Partitions, BronzeLand(p)
      PROVE  OrderInv'
  BY <1>1, <1>0 DEF BronzeLand
<1>2. ASSUME NEW b \in Batches, CreateBatch(b)
      PROVE  OrderInv'
  <2>1. PICK m \in Manifest :
        /\ SealManifest(b, m)
        /\ batch' = [batch EXCEPT ![b] = [state |-> "CREATED", manifest |-> m,
                                          created_at |-> clock + 1, published_at |-> 0]]
    BY <1>2, BuildManifestType DEF CreateBatch
  <2>2. /\ batch'[b].state = "CREATED" /\ batch'[b].created_at = clock + 1
        /\ \A c \in Batches \ {b} : batch'[c] = batch[c]
    BY <2>1 DEF TypeInv, TypeOK
  <2>3. /\ clock' = clock + 1 /\ UNCHANGED attempt
        /\ RunningAttempts = {} /\ Unfinished = {}
    BY <2>1 DEF SealManifest, MaySeal
  <2>4. Rows' = Rows \cup {b} /\ Unfinished' = {b}
    BY <2>2, <2>3 DEF Rows, Unfinished
  <2>5. clock \in Nat /\ \A c \in Rows : batch[c].created_at \in Nat /\ c \in Batches
    BY DEF TypeInv, TypeOK, BatchRow, Rows
  <2>6. CreatedInOrder'
    BY <2>2, <2>3, <2>4, <2>5 DEF CreatedInOrder
  <2>7. ReplayIsOfNewestBatch'
    BY <2>3 DEF ReplayIsOfNewestBatch, RunningAttempts
  <2> QED
    BY <2>3, <2>6, <2>7, NumbersFrame
<1>3. ASSUME NEW b \in Batches, CreateBatchCrashes(b)
      PROVE  OrderInv'
  <2>1. UNCHANGED <<batch, attempt>> /\ clock' = clock + 1
    BY <1>3 DEF CreateBatchCrashes, SealManifest
  <2>2. Rows' = Rows /\ Unfinished' = Unfinished /\ RunningAttempts' = RunningAttempts
    BY <2>1 DEF Rows, Unfinished, RunningAttempts
  <2>3. clock \in Nat
    BY DEF TypeInv, TypeOK
  <2> QED
    BY <2>1, <2>2, <2>3, OrderFrame, NumbersFrame
<1>4. ASSUME NEW b \in Batches, SupersedeBatch(b)
      PROVE  OrderInv'
  <2>1. b \in Rows /\ UNCHANGED <<attempt, clock>>
        /\ batch' = [batch EXCEPT ![b].state = "SUPERSEDED"]
    BY <1>4 DEF SupersedeBatch, Rows
  <2>2. /\ Rows' = Rows /\ batch'[b].state = "SUPERSEDED"
        /\ \A c \in Batches \ {b} : batch'[c] = batch[c]
        /\ \A c \in Batches : batch'[c].created_at = batch[c].created_at
    BY <2>1, SetStateColumns DEF BatchStates
  <2>3. Unfinished' \subseteq Unfinished /\ RunningAttempts' = RunningAttempts
    BY <2>1, <2>2 DEF Unfinished, Rows, RunningAttempts
  <2>4. clock \in Nat
    BY DEF TypeInv, TypeOK
  <2> QED
    BY <2>1, <2>2, <2>3, <2>4, OrderFrame, NumbersFrame
<1>5. ASSUME NEW b \in Batches, NEW r \in Runs, StartAttempt(b, r)
      PROVE  OrderInv'
  <2>1. /\ MayStart(b) /\ b \in Rows /\ RunningAttempts = {} /\ UNCHANGED clock
        /\ attempt'[r].batch = b
        /\ \A q \in Runs \ {r} : attempt'[q] = attempt[q]
    BY <1>5 DEF StartAttempt, MayStart, Rows, TypeInv, TypeOK
  <2>2. /\ Rows' = Rows
        /\ \A c \in Batches : batch'[c].created_at = batch[c].created_at
        /\ Unfinished' = Unfinished
    <3>1. CASE batch[b].state = "PUBLISHED"
      BY <1>5, <3>1 DEF StartAttempt, Rows, Unfinished
    <3>2. CASE batch[b].state # "PUBLISHED"
      <4>1. batch' = [batch EXCEPT ![b].state = "RUNNING"]
        BY <1>5, <3>2 DEF StartAttempt
      <4>2. /\ Rows' = Rows /\ batch'[b].state = "RUNNING"
            /\ \A c \in Batches \ {b} : batch'[c] = batch[c]
            /\ \A c \in Batches : batch'[c].created_at = batch[c].created_at
        BY <2>1, <4>1, SetStateColumns DEF BatchStates
      <4>3. b \in Unfinished
        BY <2>1, <3>2 DEF MayStart, Unfinished
      <4> QED
        BY <4>2, <4>3 DEF Unfinished, Rows
    <3> QED
      BY <3>1, <3>2
  <2>3. \A c \in Rows : batch[c].created_at <= batch[b].created_at
    BY <2>1 DEF MayStart, MayReplay, CreatedInOrder, Unfinished
  <2>4. RunningAttempts' \subseteq {r}
    BY <2>1 DEF RunningAttempts
  <2>5. ReplayIsOfNewestBatch'
    BY <2>1, <2>2, <2>3, <2>4 DEF ReplayIsOfNewestBatch, Rows
  <2>6. CreatedInOrder'
    BY <2>1, <2>2 DEF CreatedInOrder, Rows, Unfinished
  <2> QED
    BY <1>5, <2>5, <2>6, StartIsNumbered
<1>6. ASSUME NEW r \in Runs, WriteAuditEvidence(r)
      PROVE  OrderInv'
  BY <1>6, <1>0 DEF WriteAuditEvidence
<1>7. ASSUME NEW r \in Runs, NEW t \in Tasks, RecordTaskSuccess(r, t)
      PROVE  OrderInv'
  BY <1>7, <1>0 DEF RecordTaskSuccess
<1>8. ASSUME NEW r \in Runs, PublishBatch(r)
      PROVE  OrderInv'
  <2>1. PICK b \in Rows : b = attempt[r].batch
    BY <1>8 DEF PublishBatch, AttemptIsLive, TypeInv, SealedAttempts
  <2>2. /\ attempt'[r].state = "SUCCESS"
        /\ \A q \in Runs : /\ attempt'[q].batch = attempt[q].batch
                           /\ attempt'[q].number = attempt[q].number
        /\ \A q \in Runs \ {r} : attempt'[q] = attempt[q]
    BY <1>8 DEF PublishBatch, TypeInv, TypeOK, AttemptRow
  <2>3. /\ Rows' = Rows /\ Unfinished' \subseteq Unfinished
        /\ \A c \in Batches : batch'[c].created_at = batch[c].created_at
        /\ clock' \in Nat /\ clock <= clock'
    <3>1. CASE ReplayPublish(r)
      BY <3>1 DEF ReplayPublish, Rows, Unfinished, TypeInv, TypeOK
    <3>2. CASE FirstPublish(r)
      <4> DEFINE row == [batch[b] EXCEPT !.state = "PUBLISHED", !.published_at = clock + 1]
      <4>1. batch' = [batch EXCEPT ![b] = row] /\ clock' = clock + 1
        BY <2>1, <3>2 DEF FirstPublish
      <4>2. row.created_at = batch[b].created_at /\ row.state = "PUBLISHED"
        BY DEF TypeInv, TypeOK, BatchRow, Rows
      <4> HIDE DEF row
      <4> QED
        BY <4>1, <4>2 DEF TypeInv, TypeOK, Rows, Unfinished
    <3> QED
      BY <1>8, <3>1, <3>2 DEF PublishBatch
  <2>4. \A q \in RunningAttempts' : q \in RunningAttempts
    BY <2>2 DEF RunningAttempts
  <2> QED
    BY <2>2, <2>3, <2>4, OrderFrame, NumbersFrame DEF RunningAttempts
<1>9. ASSUME NEW r \in Runs, FailAirflowRun(r)
      PROVE  OrderInv'
  <2>1. PICK b \in Rows : b = attempt[r].batch
    BY <1>9 DEF FailAirflowRun, TypeInv, SealedAttempts
  <2>2. /\ UNCHANGED clock /\ attempt'[r].state = "FAILED"
        /\ \A q \in Runs : /\ attempt'[q].batch = attempt[q].batch
                           /\ attempt'[q].number = attempt[q].number
        /\ \A q \in Runs \ {r} : attempt'[q] = attempt[q]
    BY <1>9 DEF FailAirflowRun, TypeInv, TypeOK, AttemptRow
  <2>3. /\ Rows' = Rows /\ Unfinished' = Unfinished
        /\ \A c \in Batches : batch'[c].created_at = batch[c].created_at
    <3>1. CASE batch[b].state # "RUNNING"
      BY <1>9, <2>1, <3>1 DEF FailAirflowRun, Rows, Unfinished
    <3>2. CASE batch[b].state = "RUNNING"
      <4>1. batch' = [batch EXCEPT ![b].state = "FAILED"]
        BY <1>9, <2>1, <3>2 DEF FailAirflowRun
      <4>2. /\ Rows' = Rows /\ batch'[b].state = "FAILED"
            /\ \A c \in Batches \ {b} : batch'[c] = batch[c]
            /\ \A c \in Batches : batch'[c].created_at = batch[c].created_at
        BY <4>1, SetStateColumns DEF BatchStates
      <4> QED
        BY <3>2, <4>2 DEF Unfinished, Rows
    <3> QED
      BY <3>1, <3>2
  <2>4. \A q \in RunningAttempts' : q \in RunningAttempts
    BY <2>2 DEF RunningAttempts
  <2>5. clock \in Nat
    BY DEF TypeInv, TypeOK
  <2> QED
    BY <2>2, <2>3, <2>4, <2>5, OrderFrame, NumbersFrame DEF RunningAttempts
<1>10. ASSUME UNCHANGED vars
       PROVE  OrderInv'
  BY <1>10, <1>0 DEF vars
<1> QED
  BY <1>1, <1>2, <1>3, <1>4, <1>5, <1>6, <1>7, <1>8, <1>9, <1>10 DEF Next

(* While a published batch is replayed no batch created after it exists.    *)
THEOREM ReplayedIsNewest == Spec => []ReplayIsOfNewestBatch
<1>1. TypeInv /\ OrderInv /\ [Next]_vars => OrderInv'
  BY OrderInvNext
<1>2. OrderInv => ReplayIsOfNewestBatch
  BY DEF OrderInv
<1> QED
  BY <1>1, <1>2, TypeInvInit, TypeInvNext, OrderInvInit, PTL DEF Spec

(* The attempts of a batch are numbered 1, 2, ... without repetition.       *)
THEOREM NumbersHaveNoGap == Spec => []AttemptsAreNumbered
<1>1. TypeInv /\ OrderInv /\ [Next]_vars => OrderInv'
  BY OrderInvNext
<1>2. OrderInv => AttemptsAreNumbered
  BY DEF OrderInv
<1> QED
  BY <1>1, <1>2, TypeInvInit, TypeInvNext, OrderInvInit, PTL DEF Spec

-----------------------------------------------------------------------------
(* The history of a batch                                                   *)

LEMMA HistoryIsAPath ==
    HistoryIsLegal <=> \A b \in Rows : LegalPath(events[b], batch[b].state)
BY DEF HistoryIsLegal, LegalPath

(* One allowed transition more is a path again.                             *)
LEMMA PathGrows ==
    ASSUME NEW h \in Seq(BatchStates), NEW s \in BatchStates, NEW t \in BatchStates,
           LegalPath(h, s), <<s, t>> \in ALLOWED_BATCH_TRANSITIONS
    PROVE  LegalPath(Append(h, t), t)
<1>1. Len(h) \in Nat /\ Len(h) # 0
  BY EmptySeq, LenProperties DEF LegalPath
<1>2. /\ Append(h, t) # <<>>
      /\ Len(Append(h, t)) = Len(h) + 1
      /\ \A i \in 1 .. Len(h) : Append(h, t)[i] = h[i]
      /\ Append(h, t)[Len(h) + 1] = t
  BY AppendProperties
<1>3. ASSUME NEW n \in 1 .. Len(h)
      PROVE  <<Append(h, t)[n], Append(h, t)[n + 1]>> \in ALLOWED_BATCH_TRANSITIONS
  <2>1. CASE n = Len(h)
    BY <1>2, <2>1 DEF LegalPath
  <2>2. CASE n # Len(h)
    BY <1>1, <1>2, <2>2 DEF LegalPath
  <2> QED
    BY <2>1, <2>2
<1> QED
  BY <1>1, <1>2, <1>3 DEF LegalPath

(* A step that changes the state of one batch, to where it may go, and      *)
(* records it.                                                              *)
LEMMA RecordedStep ==
    ASSUME TypeInv, HistoryIsLegal, NEW b \in Rows, NEW t \in BatchStates,
           <<batch[b].state, t>> \in ALLOWED_BATCH_TRANSITIONS,
           batch' = [batch EXCEPT ![b].state = t],
           events' = [events EXCEPT ![b] = Append(@, t)]
    PROVE  HistoryIsLegal'
<1>1. b \in Batches /\ events[b] \in Seq(BatchStates) /\ batch[b].state \in BatchStates
  BY DEF Rows, TypeInv, TypeOK, BatchRow
<1>2. LegalPath(Append(events[b], t), t)
  BY <1>1, HistoryIsAPath, PathGrows
<1>3. /\ Rows' = Rows /\ batch'[b].state = t
      /\ \A c \in Batches \ {b} : batch'[c] = batch[c]
  BY SetStateColumns
<1>4. /\ events'[b] = Append(events[b], t)
      /\ \A c \in Batches \ {b} : events'[c] = events[c]
  BY <1>1 DEF TypeInv, TypeOK
<1>5. \A c \in Rows' : LegalPath(events'[c], batch'[c].state)
  BY <1>2, <1>3, <1>4, HistoryIsAPath DEF Rows
<1> QED
  BY <1>5 DEF HistoryIsLegal, LegalPath

LEMMA HistoryFrame ==
    ASSUME HistoryIsLegal, UNCHANGED <<batch, events>>
    PROVE  HistoryIsLegal'
BY DEF HistoryIsLegal, Rows

LEMMA HistoryNext ==
    ASSUME TypeInv, HistoryIsLegal, [Next]_vars
    PROVE  HistoryIsLegal'
<1> USE DEF objects, attemptTables, batchTables
<1>1. ASSUME NEW p \in Partitions, BronzeLand(p)
      PROVE  HistoryIsLegal'
  BY <1>1, HistoryFrame DEF BronzeLand
<1>2. ASSUME NEW b \in Batches, CreateBatch(b)
      PROVE  HistoryIsLegal'
  <2>1. PICK m \in Manifest :
        /\ batch' = [batch EXCEPT ![b] = [state |-> "CREATED", manifest |-> m,
                                          created_at |-> clock + 1, published_at |-> 0]]
        /\ events' = [events EXCEPT ![b] = <<"CREATED">>]
    BY <1>2, BuildManifestType DEF CreateBatch
  <2>2. /\ batch'[b].state = "CREATED" /\ events'[b] = <<"CREATED">>
        /\ \A c \in Batches \ {b} : batch'[c] = batch[c] /\ events'[c] = events[c]
    BY <2>1 DEF TypeInv, TypeOK
  <2>3. LegalPath(<<"CREATED">>, "CREATED")
    BY DEF LegalPath
  <2>4. \A c \in Rows' : LegalPath(events'[c], batch'[c].state)
    BY <2>2, <2>3, HistoryIsAPath DEF Rows
  <2> QED
    BY <2>4 DEF HistoryIsLegal, LegalPath
<1>3. ASSUME NEW b \in Batches, CreateBatchCrashes(b)
      PROVE  HistoryIsLegal'
  BY <1>3, HistoryFrame DEF CreateBatchCrashes
<1>4. ASSUME NEW b \in Batches, SupersedeBatch(b)
      PROVE  HistoryIsLegal'
  <2>1. b \in Rows /\ <<batch[b].state, "SUPERSEDED">> \in ALLOWED_BATCH_TRANSITIONS
    BY <1>4 DEF SupersedeBatch, Rows, ALLOWED_BATCH_TRANSITIONS
  <2> QED
    BY <1>4, <2>1, RecordedStep DEF SupersedeBatch, BatchStates
<1>5. ASSUME NEW b \in Batches, NEW r \in Runs, StartAttempt(b, r)
      PROVE  HistoryIsLegal'
  <2>1. CASE batch[b].state = "PUBLISHED"
    BY <1>5, <2>1, HistoryFrame DEF StartAttempt
  <2>2. CASE batch[b].state # "PUBLISHED"
    <3>1. b \in Rows /\ <<batch[b].state, "RUNNING">> \in ALLOWED_BATCH_TRANSITIONS
      BY <1>5, <2>2 DEF StartAttempt, MayStart, Rows, ALLOWED_BATCH_TRANSITIONS
    <3> QED
      BY <1>5, <2>2, <3>1, RecordedStep DEF StartAttempt, BatchStates
  <2> QED
    BY <2>1, <2>2
<1>6. ASSUME NEW r \in Runs, WriteAuditEvidence(r)
      PROVE  HistoryIsLegal'
  BY <1>6, HistoryFrame DEF WriteAuditEvidence
<1>7. ASSUME NEW r \in Runs, NEW t \in Tasks, RecordTaskSuccess(r, t)
      PROVE  HistoryIsLegal'
  BY <1>7, HistoryFrame DEF RecordTaskSuccess
<1>8. ASSUME NEW r \in Runs, PublishBatch(r)
      PROVE  HistoryIsLegal'
  <2>1. PICK b \in Rows : b = attempt[r].batch
    BY <1>8 DEF PublishBatch, AttemptIsLive, TypeInv, SealedAttempts
  <2>2. CASE ReplayPublish(r)
    BY <2>2, HistoryFrame DEF ReplayPublish
  <2>3. CASE FirstPublish(r)
    <3>1. b \in Batches /\ events[b] \in Seq(BatchStates) /\ batch[b].state = "RUNNING"
      BY <2>1, <2>3 DEF FirstPublish, Rows, TypeInv, TypeOK
    <3> DEFINE path == Append(Append(events[b], "VALIDATED"), "PUBLISHED")
    <3>2. LegalPath(path, "PUBLISHED")
      <4>1. /\ "RUNNING" \in BatchStates /\ "VALIDATED" \in BatchStates
            /\ "PUBLISHED" \in BatchStates
            /\ <<"RUNNING", "VALIDATED">> \in ALLOWED_BATCH_TRANSITIONS
            /\ <<"VALIDATED", "PUBLISHED">> \in ALLOWED_BATCH_TRANSITIONS
        BY DEF BatchStates, ALLOWED_BATCH_TRANSITIONS
      <4>2. LegalPath(Append(events[b], "VALIDATED"), "VALIDATED")
        BY <3>1, <4>1, HistoryIsAPath, PathGrows
      <4>3. Append(events[b], "VALIDATED") \in Seq(BatchStates)
        BY <3>1, <4>1
      <4> QED
        BY <4>1, <4>2, <4>3, PathGrows
    <3>3. events[b] \o <<"VALIDATED", "PUBLISHED">> = path
      <4>1. "VALIDATED" \in BatchStates /\ "PUBLISHED" \in BatchStates
        BY DEF BatchStates
      <4> QED
        BY <3>1, <4>1
    <3>4. /\ events'[b] = path
          /\ \A c \in Batches \ {b} : events'[c] = events[c]
      BY <2>1, <2>3, <3>1, <3>3 DEF FirstPublish, TypeInv, TypeOK
    <3>5. /\ batch'[b].state = "PUBLISHED"
          /\ \A c \in Batches \ {b} : batch'[c] = batch[c]
      BY <2>1, <2>3, <3>1 DEF FirstPublish, TypeInv, TypeOK, BatchRow
    <3> HIDE DEF path
    <3>6. \A c \in Rows' : LegalPath(events'[c], batch'[c].state)
      BY <3>2, <3>4, <3>5, HistoryIsAPath DEF Rows
    <3> QED
      BY <3>6 DEF HistoryIsLegal, LegalPath
  <2> QED
    BY <1>8, <2>2, <2>3 DEF PublishBatch
<1>9. ASSUME NEW r \in Runs, FailAirflowRun(r)
      PROVE  HistoryIsLegal'
  <2>1. PICK b \in Rows : b = attempt[r].batch
    BY <1>9 DEF FailAirflowRun, TypeInv, SealedAttempts
  <2>2. CASE batch[b].state # "RUNNING"
    BY <1>9, <2>1, <2>2, HistoryFrame DEF FailAirflowRun
  <2>3. CASE batch[b].state = "RUNNING"
    <3>1. <<batch[b].state, "FAILED">> \in ALLOWED_BATCH_TRANSITIONS
      BY <2>3 DEF ALLOWED_BATCH_TRANSITIONS
    <3> QED
      BY <1>9, <2>1, <2>3, <3>1, RecordedStep DEF FailAirflowRun, BatchStates
  <2> QED
    BY <2>2, <2>3
<1>10. ASSUME UNCHANGED vars
       PROVE  HistoryIsLegal'
  BY <1>10, HistoryFrame DEF vars
<1> QED
  BY <1>1, <1>2, <1>3, <1>4, <1>5, <1>6, <1>7, <1>8, <1>9, <1>10 DEF Next

(* The append-only history of a batch is a path of the state machine and    *)
(* ends in the state its row shows, under any order of calls.               *)
THEOREM HistoryIsAlwaysLegal == Spec => []HistoryIsLegal
<1>1. Init => HistoryIsLegal
  <2>1. Init => Rows = {}
    BY DEF Init, Rows
  <2> QED
    BY <2>1 DEF HistoryIsLegal
<1>2. TypeInv /\ HistoryIsLegal /\ [Next]_vars => HistoryIsLegal'
  BY HistoryNext
<1> QED
  BY <1>1, <1>2, TypeInvInit, TypeInvNext, PTL DEF Spec
=============================================================================
