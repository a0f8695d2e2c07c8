---------------------------- MODULE CoverageProofs ----------------------------
(***************************************************************************)
(* What the control plane publishes: the intervals leave no hole and do not *)
(* overlap, published batches stay as they are, and the whole implements    *)
(* PublishedFeed.                                                           *)
(***************************************************************************)
EXTENDS ControlPlaneProofs

(* Every sealed interval starts where coverage is already complete, and it  *)
(* ends inside Bronze.                                                      *)
SealedAboveCoverage ==
    \A b \in Rows, p \in Partitions :
        /\ -1 <= batch[b].manifest.low[p]
        /\ batch[b].manifest.low[p] <= batch[b].manifest.high[p]
        /\ batch[b].manifest.high[p] < bronze[p]
        /\ Covered(p, batch[b].manifest.low[p])

(* A published batch's high watermark is covered, with or without an        *)
(* interval of its own.                                                     *)
PublishedIsCovered ==
    \A b \in InState("PUBLISHED"), p \in Partitions : Covered(p, batch[b].manifest.high[p])

(* Interval rows are the non-empty intervals of published manifests.        *)
IntervalsArePublished ==
    \A i \in intervals :
        /\ i.batch \in InState("PUBLISHED")
        /\ i \in IntervalsOf(i.batch)

(* The inductive invariant behind the coverage theorems.                    *)
CoverageInv ==
    SealedAboveCoverage /\ PublishedIsCovered /\ IntervalsArePublished /\ PublishedOnce

-----------------------------------------------------------------------------
LEMMA PreviousHighIsCovered ==
    ASSUME TypeInv, CoverageInv, NEW p \in Partitions
    PROVE  -1 <= PreviousHigh(p) /\ Covered(p, PreviousHigh(p))
<1>1. CASE \E b \in Batches : IsLatestPublished(b) /\ batch[b].manifest.high[p] >= 0
  <2> DEFINE c == CHOOSE b \in Batches : IsLatestPublished(b)
  <2>1. c \in Batches /\ IsLatestPublished(c)
    BY <1>1
  <2>2. c \in InState("PUBLISHED") /\ c \in Rows /\ batch[c].manifest \in Manifest
    BY <2>1 DEF IsLatestPublished, InState, TypeInv, SealedRows, Rows
  <2>3. Covered(p, batch[c].manifest.high[p])
    BY <2>2 DEF CoverageInv, PublishedIsCovered
  <2>4. /\ -1 <= batch[c].manifest.low[p]
        /\ batch[c].manifest.low[p] <= batch[c].manifest.high[p]
        /\ batch[c].manifest.low[p] \in Int /\ batch[c].manifest.high[p] \in Int
    BY <2>2 DEF CoverageInv, SealedAboveCoverage, Manifest
  <2> QED
    BY <1>1, <2>3, <2>4 DEF PreviousHigh
<1>2. CASE ~ \E b \in Batches : IsLatestPublished(b) /\ batch[b].manifest.high[p] >= 0
  BY <1>2 DEF PreviousHigh, Covered
<1> QED
  BY <1>1, <1>2

(* Coverage is kept when no interval is removed.                            *)
LEMMA CoveredIsStable ==
    ASSUME intervals \subseteq intervals', NEW p, NEW top, Covered(p, top)
    PROVE  Covered(p, top)'
BY DEF Covered

(* A step that changes neither batches nor intervals, and takes nothing out *)
(* of Bronze, keeps CoverageInv.                                            *)
LEMMA CoverageFrame ==
    ASSUME TypeInv, CoverageInv, UNCHANGED <<batch, intervals>>,
           bronze' \in [Partitions -> Nat],
           \A p \in Partitions : bronze[p] <= bronze'[p]
    PROVE  CoverageInv'
<1>1. SealedAboveCoverage'
  <2> SUFFICES ASSUME NEW b \in Rows, NEW p \in Partitions
               PROVE  /\ -1 <= batch[b].manifest.low[p]
                      /\ batch[b].manifest.low[p] <= batch[b].manifest.high[p]
                      /\ batch[b].manifest.high[p] < bronze'[p]
                      /\ Covered(p, batch[b].manifest.low[p])
    BY DEF SealedAboveCoverage, Rows, Covered
  <2>1. batch[b].manifest.high[p] \in Int /\ bronze[p] \in Nat /\ bronze'[p] \in Nat
    BY DEF TypeInv, TypeOK, SealedRows, Manifest
  <2> QED
    BY <2>1 DEF CoverageInv, SealedAboveCoverage
<1>2. PublishedIsCovered' /\ IntervalsArePublished' /\ PublishedOnce'
  BY DEF CoverageInv, PublishedIsCovered, IntervalsArePublished, PublishedOnce, Covered,
         InState, IntervalsOf
<1> QED
  BY <1>1, <1>2 DEF CoverageInv

(* A step that only moves one unpublished row to an unpublished state, or   *)
(* leaves the rows alone, keeps CoverageInv.                                *)
LEMMA CoverageStateChange ==
    ASSUME TypeInv, CoverageInv, UNCHANGED <<intervals, bronze>>,
           NEW b \in Rows, b \notin InState("PUBLISHED"),
           batch'[b].state \notin {"NONE", "PUBLISHED"},
           batch'[b].manifest = batch[b].manifest,
           \A c \in Batches \ {b} : batch'[c] = batch[c]
    PROVE  CoverageInv'
<1>1. /\ Rows' = Rows /\ InState("PUBLISHED")' = InState("PUBLISHED")
      /\ \A c \in Batches : batch'[c].manifest = batch[c].manifest
  BY DEF Rows, InState
<1>2. \A p, top : Covered(p, top)' <=> Covered(p, top)
  BY DEF Covered
<1>3. SealedAboveCoverage'
  BY <1>1, <1>2 DEF CoverageInv, SealedAboveCoverage, Rows
<1>4. PublishedIsCovered'
  BY <1>1, <1>2 DEF CoverageInv, PublishedIsCovered, InState
<1>5. IntervalsArePublished'
  <2>1. \A c \in Batches : IntervalsOf(c)' = IntervalsOf(c)
    BY <1>1 DEF IntervalsOf
  <2> QED
    BY <1>1, <2>1 DEF CoverageInv, IntervalsArePublished, InState
<1>6. PublishedOnce'
  BY DEF CoverageInv, PublishedOnce
<1> QED
  BY <1>3, <1>4, <1>5, <1>6 DEF CoverageInv

-----------------------------------------------------------------------------
LEMMA BuildManifestIsCovered ==
    ASSUME TypeInv, CoverageInv, NEW listing \in Listings, NEW balanced \in LedgerOutcomes,
           NEW p \in Partitions,
           NotRegressed(BuildManifest(listing, balanced))
    PROVE  LET m == BuildManifest(listing, balanced) IN
           /\ -1 <= m.low[p]
           /\ m.low[p] <= m.high[p]
           /\ m.high[p] < bronze[p]
           /\ Covered(p, m.low[p])
<1>1. /\ listing \in [Partitions -> 0 .. MaxObjects]
      /\ listing[p] <= bronze[p]
  BY DEF Listings
<1>2. listing[p] \in Nat /\ bronze[p] \in Nat
  BY <1>1, ControlPlaneAssumption DEF TypeInv, TypeOK
<1> DEFINE m == BuildManifest(listing, balanced)
<1>3. /\ m.low[p] = IF listing[p] > 0 THEN PreviousHigh(p) ELSE -1
      /\ m.high[p] = listing[p] - 1
  BY DEF BuildManifest
<1>4. PreviousHigh(p) \in Int
  BY PreviousHighType
<1>5. m.high[p] >= 0 => m.low[p] <= m.high[p]
  BY DEF NotRegressed
<1>6. -1 <= PreviousHigh(p) /\ Covered(p, PreviousHigh(p)) /\ Covered(p, -1)
  BY PreviousHighIsCovered DEF Covered
<1> HIDE DEF m
<1>7. CASE listing[p] > 0
  BY <1>1, <1>2, <1>3, <1>4, <1>5, <1>6, <1>7 DEF m
<1>8. CASE listing[p] = 0
  BY <1>1, <1>2, <1>3, <1>6, <1>8 DEF m
<1> QED
  BY <1>2, <1>7, <1>8


LEMMA CoverageNext == TypeInv /\ SingleWriter /\ CoverageInv /\ [Next]_vars => CoverageInv'
<1> SUFFICES ASSUME TypeInv, SingleWriter, CoverageInv, [Next]_vars
             PROVE  CoverageInv'
  OBVIOUS
<1> USE DEF objects, attemptTables, batchTables
<1>0. bronze \in [Partitions -> Nat] /\ \A p \in Partitions : bronze[p] <= bronze[p]
  BY DEF TypeInv, TypeOK
<1>1. ASSUME NEW p \in Partitions, BronzeLand(p)
      PROVE  CoverageInv'
  <2>1. bronze' \in [Partitions -> Nat] /\ \A q \in Partitions : bronze[q] <= bronze'[q]
    BY <1>1 DEF BronzeLand, TypeInv, TypeOK
  <2> QED
    BY <1>1, <2>1, CoverageFrame DEF BronzeLand
<1>2. ASSUME NEW b \in Batches, CreateBatch(b)
      PROVE  CoverageInv'
  <2>1. PICK listing \in Listings, balanced \in LedgerOutcomes :
          /\ SealManifest(b, BuildManifest(listing, balanced))
          /\ batch' = [batch EXCEPT ![b] =
                [state |-> "CREATED", manifest |-> BuildManifest(listing, balanced),
                 created_at |-> clock + 1, published_at |-> 0]]
    BY <1>2 DEF CreateBatch
  <2> DEFINE m == BuildManifest(listing, balanced)
  <2>2. \A p \in Partitions : /\ -1 <= m.low[p]
                               /\ m.low[p] <= m.high[p]
                               /\ m.high[p] < bronze[p]
                               /\ Covered(p, m.low[p])
    BY <2>1, BuildManifestIsCovered DEF SealManifest
  <2> HIDE DEF m
  <2>3. /\ batch[b].state = "NONE" /\ UNCHANGED <<intervals, bronze>>
        /\ batch'[b].state = "CREATED" /\ batch'[b].manifest = m
        /\ \A c \in Batches \ {b} : batch'[c] = batch[c]
    BY <2>1 DEF SealManifest, MaySeal, TypeInv, TypeOK, m
  <2>4. Rows' = Rows \cup {b} /\ InState("PUBLISHED")' = InState("PUBLISHED")
        /\ b \notin Rows
    BY <2>3 DEF Rows, InState
  <2>5. \A p, top : Covered(p, top)' <=> Covered(p, top)
    BY <2>3 DEF Covered
  <2>6. SealedAboveCoverage'
    BY <2>2, <2>3, <2>4, <2>5 DEF CoverageInv, SealedAboveCoverage, Rows
  <2>7. PublishedIsCovered'
    BY <2>3, <2>4, <2>5 DEF CoverageInv, PublishedIsCovered, InState, Rows
  <2>8. IntervalsArePublished'
    <3>1. \A c \in InState("PUBLISHED") : IntervalsOf(c)' = IntervalsOf(c)
      BY <2>3, <2>4 DEF IntervalsOf, InState
    <3> QED
      BY <2>3, <2>4, <3>1 DEF CoverageInv, IntervalsArePublished
  <2>9. PublishedOnce'
    BY <2>3 DEF CoverageInv, PublishedOnce
  <2> QED
    BY <2>6, <2>7, <2>8, <2>9 DEF CoverageInv
<1>3. ASSUME NEW b \in Batches, CreateBatchCrashes(b)
      PROVE  CoverageInv'
  BY <1>0, <1>3, CoverageFrame DEF CreateBatchCrashes, SealManifest
<1>4. ASSUME NEW b \in Batches, SupersedeBatch(b)
      PROVE  CoverageInv'
  <2>1. /\ UNCHANGED <<intervals, bronze>>
        /\ b \in Rows /\ b \notin InState("PUBLISHED")
        /\ batch'[b].state = "SUPERSEDED" /\ batch'[b].manifest = batch[b].manifest
        /\ \A c \in Batches \ {b} : batch'[c] = batch[c]
    BY <1>4 DEF SupersedeBatch, TypeInv, TypeOK, BatchRow, Rows, InState
  <2> QED
    BY <2>1, CoverageStateChange
<1>5. ASSUME NEW b \in Batches, NEW r \in Runs, StartAttempt(b, r)
      PROVE  CoverageInv'
  <2>1. CASE batch[b].state = "PUBLISHED"
    BY <1>0, <1>5, <2>1, CoverageFrame DEF StartAttempt
  <2>2. CASE batch[b].state # "PUBLISHED"
    <3>1. /\ UNCHANGED <<intervals, bronze>>
          /\ b \in Rows /\ b \notin InState("PUBLISHED")
          /\ batch'[b].state = "RUNNING" /\ batch'[b].manifest = batch[b].manifest
          /\ \A c \in Batches \ {b} : batch'[c] = batch[c]
      BY <1>5, <2>2 DEF StartAttempt, MayStart, TypeInv, TypeOK, BatchRow, Rows, InState
    <3> QED
      BY <3>1, CoverageStateChange
  <2> QED
    BY <2>1, <2>2
<1>6. ASSUME NEW r \in Runs, WriteAuditEvidence(r)
      PROVE  CoverageInv'
  BY <1>0, <1>6, CoverageFrame DEF WriteAuditEvidence
<1>7. ASSUME NEW r \in Runs, NEW t \in Tasks, RecordTaskSuccess(r, t)
      PROVE  CoverageInv'
  BY <1>0, <1>7, CoverageFrame DEF RecordTaskSuccess
<1>8. ASSUME NEW r \in Runs, PublishBatch(r)
      PROVE  CoverageInv'
  <2>1. CASE ReplayPublish(r)
    BY <1>0, <1>8, <2>1, CoverageFrame DEF PublishBatch, ReplayPublish
  <2>2. CASE FirstPublish(r)
    <3> DEFINE b == attempt[r].batch
    <3>1. /\ b \in Rows /\ batch[b].state = "RUNNING" /\ MeetsExclusion(b)
          /\ UNCHANGED bronze /\ intervals' = intervals \cup IntervalsOf(b)
          /\ batch'[b].state = "PUBLISHED" /\ batch'[b].manifest = batch[b].manifest
          /\ \A c \in Batches \ {b} : batch'[c] = batch[c]
      <4>1. b \in Rows
        BY <1>8 DEF PublishBatch, AttemptIsLive, TypeInv, SealedAttempts
      <4>2. batch[b] \in BatchRow /\ b \in Batches /\ batch \in [Batches -> BatchRow]
        BY <4>1 DEF Rows, TypeInv, TypeOK
      <4>3. /\ batch[b].state = "RUNNING" /\ MeetsExclusion(b)
            /\ batch' = [batch EXCEPT ![b].state = "PUBLISHED", ![b].published_at = clock + 1]
            /\ intervals' = intervals \cup IntervalsOf(b) /\ UNCHANGED bronze
        BY <1>8, <2>2 DEF PublishBatch, FirstPublish
      <4> HIDE DEF b
      <4> QED
        BY <4>1, <4>2, <4>3 DEF BatchRow
    <3> HIDE DEF b
    <3>2. /\ Rows' = Rows /\ InState("PUBLISHED")' = InState("PUBLISHED") \cup {b}
          /\ \A c \in Batches : batch'[c].manifest = batch[c].manifest
      BY <3>1 DEF Rows, InState
    <3>3. SealedAboveCoverage'
      BY <3>1, <3>2, CoveredIsStable DEF CoverageInv, SealedAboveCoverage, Rows
    <3>4. PublishedIsCovered'
      <4>1. ASSUME NEW p \in Partitions
            PROVE  \A o \in 0 .. batch[b].manifest.high[p] :
                      \E i \in intervals' : i.part = p /\ i.low < o /\ o <= i.high
        <5> DEFINE low == batch[b].manifest.low[p]
                   high == batch[b].manifest.high[p]
        <5>1. /\ low \in Int /\ high \in Int /\ -1 <= low /\ low <= high
              /\ Covered(p, low)
          BY <3>1 DEF CoverageInv, SealedAboveCoverage, TypeInv, SealedRows, Manifest
        <5>2. low < high => [batch |-> b, part |-> p, low |-> low, high |-> high]
                               \in intervals'
          BY <3>1 DEF IntervalsOf
        <5> HIDE DEF low, high
        <5>3. \A o \in 0 .. high : \E i \in intervals' : i.part = p /\ i.low < o /\ o <= i.high
          BY <3>1, <5>1, <5>2 DEF Covered
        <5> QED
          BY <5>3 DEF high
      <4>2. ASSUME NEW c \in InState("PUBLISHED"), NEW p \in Partitions
            PROVE  \A o \in 0 .. batch[c].manifest.high[p] :
                      \E i \in intervals' : i.part = p /\ i.low < o /\ o <= i.high
        BY <3>1 DEF CoverageInv, PublishedIsCovered, Covered
      <4> QED
        BY <3>2, <4>1, <4>2 DEF PublishedIsCovered, Covered, InState
    <3>5. IntervalsArePublished'
      <4>1. \A c \in Batches : IntervalsOf(c)' = IntervalsOf(c)
        BY <3>2 DEF IntervalsOf
      <4>2. \A i \in IntervalsOf(b) : i.batch = b
        BY DEF IntervalsOf
      <4> QED
        BY <3>1, <3>2, <4>1, <4>2 DEF CoverageInv, IntervalsArePublished, InState, Rows
    <3>6. PublishedOnce'
      <4>1. \A i \in intervals : i.batch # b
        BY <3>1 DEF CoverageInv, IntervalsArePublished, InState
      <4>2. \A i, j \in IntervalsOf(b) : i # j => i.part # j.part
        BY DEF IntervalsOf
      <4>3. \A i, j : Overlap(i, j) <=> Overlap(j, i)
        BY DEF Overlap
      <4> QED
        BY <3>1, <4>1, <4>2, <4>3 DEF CoverageInv, PublishedOnce, MeetsExclusion, Overlap
    <3> QED
      BY <3>3, <3>4, <3>5, <3>6 DEF CoverageInv
  <2> QED
    BY <1>8, <2>1, <2>2 DEF PublishBatch
<1>9. ASSUME NEW r \in Runs, FailAirflowRun(r)
      PROVE  CoverageInv'
  <2> DEFINE b == attempt[r].batch
  <2>1. CASE batch[b].state # "RUNNING"
    BY <1>0, <1>9, <2>1, CoverageFrame DEF FailAirflowRun
  <2>2. CASE batch[b].state = "RUNNING"
    <3>1. /\ UNCHANGED <<intervals, bronze>>
          /\ b \in Rows /\ b \notin InState("PUBLISHED")
          /\ batch'[b].state = "FAILED" /\ batch'[b].manifest = batch[b].manifest
          /\ \A c \in Batches \ {b} : batch'[c] = batch[c]
      <4>1. b \in Rows
        BY <1>9 DEF FailAirflowRun, TypeInv, SealedAttempts
      <4>2. batch[b] \in BatchRow /\ b \in Batches /\ batch \in [Batches -> BatchRow]
        BY <4>1 DEF Rows, TypeInv, TypeOK
      <4>3. /\ batch' = [batch EXCEPT ![b].state = "FAILED"]
            /\ UNCHANGED <<intervals, bronze>>
        BY <1>9, <2>2 DEF FailAirflowRun
      <4> HIDE DEF b
      <4> QED
        BY <2>2, <4>1, <4>2, <4>3 DEF BatchRow, InState
    <3> QED
      BY <3>1, CoverageStateChange
  <2> QED
    BY <2>1, <2>2
<1>10. ASSUME UNCHANGED vars
       PROVE  CoverageInv'
  BY <1>0, <1>10, CoverageFrame DEF vars
<1> QED
  BY <1>1, <1>2, <1>3, <1>4, <1>5, <1>6, <1>7, <1>8, <1>9, <1>10 DEF Next

LEMMA CoverageInvariant == Spec => [](TypeInv /\ SingleWriter /\ CoverageInv)
<1>1. Init => CoverageInv
  BY DEF Init, CoverageInv, SealedAboveCoverage, PublishedIsCovered, IntervalsArePublished,
         PublishedOnce, Rows, InState
<1>2. Init => SingleWriter
  BY DEF Init, SingleWriter, RunningAttempts, Unfinished, InState, Rows
<1> QED
  BY <1>1, <1>2, TypeInvInit, TypeInvNext, SingleWriterNext, CoverageNext, PTL DEF Spec

(* Every Bronze offset below a published watermark was published.           *)
THEOREM NoGapIsPublished == Spec => []PublishedWithoutGap
<1>1. CoverageInv => PublishedWithoutGap
  BY DEF CoverageInv, IntervalsArePublished, PublishedIsCovered, PublishedWithoutGap,
         IntervalsOf
<1> QED
  BY <1>1, CoverageInvariant, PTL

(* No Bronze offset is published by two batches.                            *)
THEOREM NothingIsPublishedTwice == Spec => []PublishedOnce
<1>1. CoverageInv => PublishedOnce
  BY DEF CoverageInv
<1> QED
  BY <1>1, CoverageInvariant, PTL

-----------------------------------------------------------------------------
(* Finality.  Only FirstPublish adds intervals, and to a running batch.     *)

LEMMA PublishedStaysNext ==
    ASSUME TypeInv, CoverageInv, [Next]_vars
    PROVE  PublishedStays
<1> USE DEF objects, attemptTables, batchTables
<1>1. CASE UNCHANGED <<batch, intervals>>
  BY <1>1 DEF PublishedStays
<1>2. ASSUME NEW b \in Batches, batch[b].state # "PUBLISHED", UNCHANGED intervals,
             \A c \in Batches \ {b} : batch'[c] = batch[c]
      PROVE  PublishedStays
  BY <1>2 DEF PublishedStays, InState
<1>3. ASSUME NEW b \in Batches, CreateBatch(b)
      PROVE  PublishedStays
  <2>1. /\ batch[b].state # "PUBLISHED" /\ UNCHANGED intervals
        /\ \A c \in Batches \ {b} : batch'[c] = batch[c]
    BY <1>3 DEF CreateBatch, SealManifest, MaySeal, TypeInv, TypeOK
  <2> QED
    BY <1>2, <2>1
<1>4. ASSUME NEW b \in Batches, SupersedeBatch(b)
      PROVE  PublishedStays
  <2>1. /\ batch[b].state # "PUBLISHED" /\ UNCHANGED intervals
        /\ \A c \in Batches \ {b} : batch'[c] = batch[c]
    BY <1>4 DEF SupersedeBatch, TypeInv, TypeOK
  <2> QED
    BY <1>2, <2>1
<1>5. ASSUME NEW b \in Batches, NEW r \in Runs, StartAttempt(b, r)
      PROVE  PublishedStays
  <2>1. CASE batch[b].state = "PUBLISHED"
    BY <1>1, <1>5, <2>1 DEF StartAttempt
  <2>2. CASE batch[b].state # "PUBLISHED"
    <3>1. UNCHANGED intervals /\ \A c \in Batches \ {b} : batch'[c] = batch[c]
      BY <1>5, <2>2 DEF StartAttempt, TypeInv, TypeOK
    <3> QED
      BY <1>2, <2>2, <3>1
  <2> QED
    BY <2>1, <2>2
<1>6. ASSUME NEW r \in Runs, PublishBatch(r)
      PROVE  PublishedStays
  <2>1. CASE ReplayPublish(r)
    BY <1>1, <2>1 DEF ReplayPublish
  <2>2. CASE FirstPublish(r)
    <3> DEFINE b == attempt[r].batch
    <3>1. b \in Batches /\ batch[b].state = "RUNNING"
      BY <1>6, <2>2 DEF PublishBatch, FirstPublish, AttemptIsLive, TypeInv, SealedAttempts, Rows
    <3>2. /\ intervals' = intervals \cup IntervalsOf(b)
          /\ \A c \in Batches \ {b} : batch'[c] = batch[c]
      BY <2>2 DEF FirstPublish, TypeInv, TypeOK
    <3>3. \A i \in IntervalsOf(b) : i.batch = b
      BY DEF IntervalsOf
    <3> QED
      BY <3>1, <3>2, <3>3 DEF PublishedStays, InState
  <2> QED
    BY <1>6, <2>1, <2>2 DEF PublishBatch
<1>7. ASSUME NEW r \in Runs, FailAirflowRun(r)
      PROVE  PublishedStays
  <2> DEFINE b == attempt[r].batch
  <2>1. CASE batch[b].state # "RUNNING"
    BY <1>1, <1>7, <2>1 DEF FailAirflowRun
  <2>2. CASE batch[b].state = "RUNNING"
    <3>1. b \in Batches
      BY <1>7 DEF FailAirflowRun, TypeInv, SealedAttempts, Rows
    <3>2. UNCHANGED intervals /\ \A c \in Batches \ {b} : batch'[c] = batch[c]
      BY <1>7, <2>2 DEF FailAirflowRun, TypeInv, TypeOK
    <3> QED
      BY <1>2, <2>2, <3>1, <3>2
  <2> QED
    BY <2>1, <2>2
<1> QED
  BY <1>1, <1>3, <1>4, <1>5, <1>6, <1>7
     DEF Next, vars, BronzeLand, CreateBatchCrashes, SealManifest, WriteAuditEvidence,
         RecordTaskSuccess

(* A published batch and its intervals never change again.                  *)
THEOREM WhatIsPublishedStays == Spec => PublishedIsFinal
<1>1. TypeInv /\ CoverageInv /\ [Next]_vars => [PublishedStays]_vars
  BY PublishedStaysNext
<1> QED
  BY <1>1, CoverageInvariant, PTL DEF Spec, PublishedIsFinal

-----------------------------------------------------------------------------
(* Refinement of PublishedFeed                                              *)

LEMMA DeliveredOffsets ==
    ASSUME NEW p \in Partitions, NEW o
    PROVE  o \in Delivered[p] <=>
              \E i \in intervals : i.part = p /\ o \in i.low + 1 .. i.high
BY DEF Delivered

(* The delivered offsets of a partition are 0 .. n - 1 for some n within    *)
(* what has landed.                                                         *)
DeliveredIsPrefix == \A p \in Partitions : Feed!IsPrefix(Delivered[p], bronze[p])

LEMMA CoveredIsDelivered ==
    ASSUME TypeInv, NEW p \in Partitions, NEW top \in Int, Covered(p, top)
    PROVE  0 .. top \subseteq Delivered[p]
<1> SUFFICES ASSUME NEW o \in 0 .. top PROVE o \in Delivered[p]
  OBVIOUS
<1>1. PICK i \in intervals : i.part = p /\ i.low < o /\ o <= i.high
  BY DEF Covered
<1>2. i.low \in Int /\ i.high \in Int
  BY DEF TypeInv, TypeOK, Interval
<1> QED
  BY <1>1, <1>2, DeliveredOffsets

LEMMA PrefixNext ==
    ASSUME TypeInv, CoverageInv, DeliveredIsPrefix, [Next]_vars, TypeInv'
    PROVE  DeliveredIsPrefix' /\ [Feed!Next]_(Feed!feedVars)
<1> USE DEF objects, attemptTables, batchTables
<1>1. CASE UNCHANGED <<intervals, bronze>>
  <2>1. Delivered' = Delivered
    BY <1>1 DEF Delivered
  <2> QED
    BY <1>1, <2>1 DEF DeliveredIsPrefix, Feed!IsPrefix, Feed!feedVars
<1>2. ASSUME NEW p \in Partitions, BronzeLand(p)
      PROVE  DeliveredIsPrefix' /\ [Feed!Next]_(Feed!feedVars)
  <2>1. Delivered' = Delivered /\ bronze' = [bronze EXCEPT ![p] = @ + 1]
    BY <1>2 DEF Delivered, BronzeLand
  <2>2. \A q \in Partitions : bronze[q] \in Nat /\ bronze'[q] \in Nat /\ bronze[q] <= bronze'[q]
    BY <2>1 DEF TypeInv, TypeOK
  <2>3. DeliveredIsPrefix'
    BY <2>1, <2>2 DEF DeliveredIsPrefix, Feed!IsPrefix
  <2>4. Feed!Land(p)
    BY <2>1 DEF Feed!Land
  <2> QED
    BY <2>3, <2>4 DEF Feed!Next
<1>3. ASSUME NEW r \in Runs, PublishBatch(r), FirstPublish(r)
      PROVE  DeliveredIsPrefix' /\ [Feed!Next]_(Feed!feedVars)
  <2> DEFINE b == attempt[r].batch
  <2>1. /\ b \in Rows /\ UNCHANGED bronze
        /\ intervals' = intervals \cup IntervalsOf(b)
    BY <1>3 DEF PublishBatch, FirstPublish, AttemptIsLive, TypeInv, SealedAttempts
  <2> HIDE DEF b
  <2>2. ASSUME NEW p \in Partitions
        PROVE  /\ Delivered[p] \subseteq Delivered'[p]
               /\ Feed!IsPrefix(Delivered'[p], bronze[p])
    <3> DEFINE low == batch[b].manifest.low[p]
               high == batch[b].manifest.high[p]
    <3>1. /\ low \in Int /\ high \in Int /\ bronze[p] \in Nat
          /\ -1 <= low /\ low <= high /\ high < bronze[p]
          /\ 0 .. low \subseteq Delivered[p]
      BY <2>1, CoveredIsDelivered
         DEF CoverageInv, SealedAboveCoverage, TypeInv, TypeOK, SealedRows, Manifest
    <3>2. \A o : o \in Delivered'[p] <=>
                    \E i \in intervals' : i.part = p /\ o \in i.low + 1 .. i.high
      BY DEF Delivered
    <3>3. \A i \in IntervalsOf(b) : i.part = p =>
             i = [batch |-> b, part |-> p, low |-> low, high |-> high] /\ low < high
      BY DEF IntervalsOf
    <3>4. low < high => [batch |-> b, part |-> p, low |-> low, high |-> high]
                           \in IntervalsOf(b)
      BY DEF IntervalsOf
    <3> HIDE DEF low, high
    <3>5. Delivered'[p] = Delivered[p] \cup (low + 1 .. high)
      <4>1. ASSUME NEW o \in Delivered'[p]
            PROVE  o \in Delivered[p] \cup (low + 1 .. high)
        BY <2>1, <3>2, <3>3, DeliveredOffsets
      <4>2. ASSUME NEW o \in Delivered[p]
            PROVE  o \in Delivered'[p]
        BY <2>1, <3>2, DeliveredOffsets
      <4>3. ASSUME NEW o \in low + 1 .. high
            PROVE  o \in Delivered'[p]
        BY <2>1, <3>1, <3>2, <3>4
      <4> QED
        BY <4>1, <4>2, <4>3
    <3>6. PICK n \in 0 .. bronze[p] : Delivered[p] = 0 .. n - 1
      BY DEF DeliveredIsPrefix, Feed!IsPrefix
    <3>7. Delivered'[p] = 0 .. (IF high + 1 <= n THEN n ELSE high + 1) - 1
      BY <3>1, <3>5, <3>6
    <3> DEFINE top == IF high + 1 <= n THEN n ELSE high + 1
    <3>8. top \in 0 .. bronze[p]
      BY <3>1, <3>6
    <3>9. Delivered'[p] = 0 .. top - 1
      BY <3>7
    <3> HIDE DEF top
    <3>10. Feed!IsPrefix(Delivered'[p], bronze[p])
      BY <3>8, <3>9 DEF Feed!IsPrefix
    <3> QED
      BY <3>5, <3>10
  <2>3. DeliveredIsPrefix'
    BY <2>1, <2>2 DEF DeliveredIsPrefix
  <2>4. Delivered' \in [Partitions -> SUBSET Nat]
    <3>1. \A p \in Partitions : bronze[p] \in Nat
      BY DEF TypeInv, TypeOK
    <3>2. \A p \in Partitions : Delivered'[p] \subseteq Nat
      BY <2>2, <3>1 DEF Feed!IsPrefix
    <3>3. Delivered' = [p \in Partitions |-> Delivered'[p]]
      BY DEF Delivered
    <3> QED
      BY <3>2, <3>3
  <2>5. Feed!Deliver
    BY <2>1, <2>2, <2>4 DEF Feed!Deliver
  <2> QED
    BY <2>3, <2>5 DEF Feed!Next
<1> QED
  BY <1>1, <1>2, <1>3
     DEF Next, vars, CreateBatch, CreateBatchCrashes, SealManifest, SupersedeBatch,
         StartAttempt, WriteAuditEvidence, RecordTaskSuccess, PublishBatch, ReplayPublish,
         FailAirflowRun

(* The control plane implements the published feed.                         *)
THEOREM ControlPlaneImplementsFeed == Spec => ImplementsFeed
<1>1. Init => Feed!Init /\ DeliveredIsPrefix
  BY DEF Init, Feed!Init, Delivered, DeliveredIsPrefix, Feed!IsPrefix
<1>2. TypeInv /\ TypeInv' /\ CoverageInv /\ DeliveredIsPrefix /\ [Next]_vars
        => DeliveredIsPrefix' /\ [Feed!Next]_(Feed!feedVars)
  BY PrefixNext
<1> QED
  BY <1>1, <1>2, CoverageInvariant, PTL DEF Spec, ImplementsFeed, Feed!Spec

-----------------------------------------------------------------------------
(* When the watermarks alone keep batches apart.  A low watermark is taken  *)
(* from the newest published manifest; as long as that manifest names every *)
(* partition, it is the greatest published offset of each, and the          *)
(* exclusion constraint of the schema has nothing to refuse.                *)

(* Publish times are past, distinct, and one of them is the last.           *)
PublishTimes ==
    /\ \A b \in InState("PUBLISHED") : batch[b].published_at <= clock
    /\ \A b, c \in InState("PUBLISHED") :
        batch[b].published_at = batch[c].published_at => b = c
    /\ InState("PUBLISHED") # {} => \E b \in Batches : IsLatestPublished(b)

(* An unfinished batch was sealed at the watermark of the newest published  *)
(* one, which is still the newest.                                          *)
SealedAtWatermark ==
    \A b \in Unfinished, c \in Batches, p \in Partitions :
        IsLatestPublished(c) /\ batch[b].manifest.high[p] >= 0 =>
            batch[c].manifest.high[p] <= batch[b].manifest.low[p]

(* A published manifest ends at or above every interval published before.   *)
HighestIsLatest ==
    \A b \in InState("PUBLISHED"), i \in intervals :
        batch[i.batch].published_at <= batch[b].published_at =>
            i.high <= batch[b].manifest.high[i.part]

ExclusionInv ==
    /\ PublishTimes
    /\ SealedAtWatermark
    /\ NoPartitionWasLost => HighestIsLatest

-----------------------------------------------------------------------------
LEMMA ManifestOffsets ==
    ASSUME TypeInv, CoverageInv, NEW b \in Rows, NEW p \in Partitions
    PROVE  /\ batch[b].manifest.low[p] \in Int /\ batch[b].manifest.high[p] \in Int
           /\ -1 <= batch[b].manifest.low[p]
           /\ batch[b].manifest.low[p] <= batch[b].manifest.high[p]
BY DEF TypeInv, SealedRows, Manifest, CoverageInv, SealedAboveCoverage

LEMMA IntervalOffsets ==
    ASSUME TypeInv, CoverageInv, NEW i \in intervals
    PROVE  /\ i.part \in Partitions /\ i.low \in Int /\ i.high \in Int
           /\ i.batch \in InState("PUBLISHED")
BY DEF TypeInv, TypeOK, Interval, CoverageInv, IntervalsArePublished

LEMMA PublishTimeType ==
    ASSUME TypeInv, NEW b \in Batches
    PROVE  batch[b].published_at \in Nat /\ clock \in Nat
BY DEF TypeInv, TypeOK, BatchRow

(* With every partition still named, a sealed batch starts where all that   *)
(* is published ends.                                                       *)
LEMMA ExclusionFollows ==
    ASSUME TypeInv, CoverageInv, ExclusionInv
    PROVE  ExclusionIsALastResort
<1> SUFFICES ASSUME NoPartitionWasLost, NEW b \in Unfinished, NEW i \in IntervalsOf(b),
                    NEW j \in intervals, Overlap(i, j)
             PROVE  FALSE
  BY DEF ExclusionIsALastResort, MeetsExclusion
<1>1. /\ j.part \in Partitions /\ j.high \in Int /\ j.batch \in InState("PUBLISHED")
      /\ i.part = j.part /\ i.low < j.high
  BY IntervalOffsets DEF Overlap
<1>2. b \in Rows
  BY DEF Unfinished
<1>3. /\ i.low = batch[b].manifest.low[j.part]
      /\ batch[b].manifest.low[j.part] < batch[b].manifest.high[j.part]
  BY <1>1 DEF IntervalsOf
<1>4. /\ batch[b].manifest.low[j.part] \in Int /\ batch[b].manifest.high[j.part] \in Int
      /\ batch[b].manifest.high[j.part] >= 0
  BY <1>1, <1>2, <1>3, ManifestOffsets
<1>5. PICK c \in Batches : IsLatestPublished(c)
  BY <1>1 DEF ExclusionInv, PublishTimes
<1>6. /\ c \in InState("PUBLISHED") /\ c \in Rows
      /\ batch[j.batch].published_at <= batch[c].published_at
  BY <1>1, <1>5 DEF IsLatestPublished, InState, Rows
<1>7. j.high <= batch[c].manifest.high[j.part] /\ batch[c].manifest.high[j.part] \in Int
  BY <1>1, <1>6, ManifestOffsets DEF ExclusionInv, HighestIsLatest
<1>8. batch[c].manifest.high[j.part] <= batch[b].manifest.low[j.part]
  BY <1>1, <1>4, <1>5 DEF ExclusionInv, SealedAtWatermark
<1> QED
  BY <1>1, <1>3, <1>4, <1>7, <1>8

-----------------------------------------------------------------------------
(* Steps that publish nothing and seal nothing.                             *)
LEMMA ExclusionFrame ==
    ASSUME TypeInv, CoverageInv, ExclusionInv, UNCHANGED intervals, clock' \in Nat,
           clock <= clock', InState("PUBLISHED")' = InState("PUBLISHED"),
           \A c \in InState("PUBLISHED") : batch'[c] = batch[c],
           Unfinished' \subseteq Unfinished,
           \A c \in Unfinished : batch'[c].manifest = batch[c].manifest
    PROVE  ExclusionInv'
<1>1. \A c : IsLatestPublished(c)' <=> IsLatestPublished(c)
  BY DEF IsLatestPublished
<1>2. PublishTimes'
  <2>1. \A c \in InState("PUBLISHED") : c \in Batches
    BY DEF InState
  <2> QED
    BY <1>1, <2>1, PublishTimeType DEF ExclusionInv, PublishTimes
<1>3. SealedAtWatermark'
  BY <1>1 DEF ExclusionInv, SealedAtWatermark, IsLatestPublished
<1>4. \A i \in intervals : i.batch \in InState("PUBLISHED")
  BY IntervalOffsets
<1>5. NoPartitionWasLost' => NoPartitionWasLost
  BY <1>4 DEF NoPartitionWasLost
<1>6. HighestIsLatest => HighestIsLatest'
  BY <1>4 DEF HighestIsLatest
<1> QED
  BY <1>2, <1>3, <1>5, <1>6 DEF ExclusionInv

(* A batch leaves the unpublished states for another of them.               *)
LEMMA ExclusionStateChange ==
    ASSUME TypeInv, CoverageInv, ExclusionInv, UNCHANGED <<intervals, clock>>,
           NEW b \in Rows, b \notin InState("PUBLISHED"),
           NEW state \in BatchStates \ {"PUBLISHED"},
           b \in Unfinished \/ state = "SUPERSEDED",
           batch' = [batch EXCEPT ![b].state = state]
    PROVE  ExclusionInv'
<1>1. /\ Rows' = Rows /\ batch'[b].state = state
      /\ \A c \in Batches : batch'[c].manifest = batch[c].manifest
      /\ \A c \in Batches \ {b} : batch'[c] = batch[c]
  <2>1. /\ Rows' = Rows
        /\ \A c \in Batches : batch'[c].manifest = batch[c].manifest
    BY SetStateType DEF TypeInv, TypeOK
  <2>2. batch'[b].state = state /\ \A c \in Batches \ {b} : batch'[c] = batch[c]
    BY DEF TypeInv, TypeOK, BatchRow, Rows
  <2> QED
    BY <2>1, <2>2
<1>2. /\ InState("PUBLISHED")' = InState("PUBLISHED")
      /\ \A c \in InState("PUBLISHED") : batch'[c] = batch[c]
  BY <1>1 DEF InState, Rows
<1>3. Unfinished' \subseteq Unfinished /\ Unfinished \subseteq Batches
  BY <1>1 DEF Unfinished, Rows
<1>4. clock' \in Nat /\ clock <= clock'
  BY DEF TypeInv, TypeOK
<1> QED
  BY <1>1, <1>2, <1>3, <1>4, ExclusionFrame

(* A new manifest starts at the newest watermark of the partitions it       *)
(* lists.                                                                   *)
LEMMA BuiltAtWatermark ==
    ASSUME TypeInv, CoverageInv, ExclusionInv, NEW listing \in Listings,
           NEW balanced \in LedgerOutcomes, NEW c \in Batches, IsLatestPublished(c),
           NEW p \in Partitions,
           BuildManifest(listing, balanced).high[p] >= 0
    PROVE  batch[c].manifest.high[p] <= BuildManifest(listing, balanced).low[p]
<1>0. listing \in [Partitions -> 0 .. MaxObjects]
  BY DEF Listings
<1>1. listing[p] \in Nat
  BY <1>0, ControlPlaneAssumption
<1>2. BuildManifest(listing, balanced).low[p] = PreviousHigh(p)
  <2>1. listing[p] - 1 >= 0
    BY DEF BuildManifest
  <2>2. listing[p] > 0
    BY <1>1, <2>1
  <2> QED
    BY <2>2 DEF BuildManifest
<1>3. \A d \in Batches : IsLatestPublished(d) => d = c
  <2> SUFFICES ASSUME NEW d \in Batches, IsLatestPublished(d) PROVE d = c
    OBVIOUS
  <2>1. c \in InState("PUBLISHED") /\ d \in InState("PUBLISHED")
    BY DEF IsLatestPublished
  <2>2. batch[d].published_at <= batch[c].published_at
        /\ batch[c].published_at <= batch[d].published_at
    BY <2>1 DEF IsLatestPublished
  <2> QED
    BY <2>1, <2>2, PublishTimeType DEF ExclusionInv, PublishTimes
<1>4. (CHOOSE d \in Batches : IsLatestPublished(d)) = c
  BY <1>3
<1>5. c \in Rows
  BY DEF IsLatestPublished, InState, Rows
<1>6. batch[c].manifest.high[p] \in Int /\ -1 <= batch[c].manifest.high[p]
  BY <1>5, ManifestOffsets
<1>7. CASE batch[c].manifest.high[p] >= 0
  <2>1. \E d \in Batches : IsLatestPublished(d) /\ batch[d].manifest.high[p] >= 0
    BY <1>7
  <2>2. PreviousHigh(p) = batch[CHOOSE d \in Batches : IsLatestPublished(d)].manifest.high[p]
    BY <2>1 DEF PreviousHigh
  <2>3. PreviousHigh(p) = batch[c].manifest.high[p]
    BY <1>4, <2>2
  <2> QED
    BY <1>2, <1>6, <2>3
<1>8. CASE ~(batch[c].manifest.high[p] >= 0)
  BY <1>2, <1>3, <1>6, <1>8 DEF PreviousHigh
<1> QED
  BY <1>7, <1>8

(* The newest batch ends at or above all that was published before it.      *)
LEMMA PublishIsHighest ==
    ASSUME TypeInv, SingleWriter, CoverageInv, ExclusionInv, NEW b \in Unfinished,
           batch' = [batch EXCEPT ![b] = [batch[b] EXCEPT !.state = "PUBLISHED",
                                                         !.published_at = clock + 1]],
           intervals' = intervals \cup IntervalsOf(b), clock' = clock + 1
    PROVE  ExclusionInv'
<1>1. b \in Batches /\ b \in Rows /\ b \notin InState("PUBLISHED")
  BY DEF Unfinished, Rows, InState
<1> DEFINE row == [batch[b] EXCEPT !.state = "PUBLISHED", !.published_at = clock + 1]
<1>2. /\ row.state = "PUBLISHED" /\ row.published_at = clock + 1
      /\ row.manifest = batch[b].manifest
  BY <1>1 DEF TypeInv, TypeOK, BatchRow
<1> HIDE DEF row
<1>3. batch' = [batch EXCEPT ![b] = row]
  BY DEF row
<1>4. /\ batch'[b].state = "PUBLISHED" /\ batch'[b].published_at = clock + 1
      /\ batch'[b].manifest = batch[b].manifest
      /\ \A c \in Batches \ {b} : batch'[c] = batch[c]
  <2>1. batch'[b] = row /\ \A c \in Batches \ {b} : batch'[c] = batch[c]
    BY <1>1, <1>3 DEF TypeInv, TypeOK
  <2> QED
    BY <1>2, <2>1
<1>5. InState("PUBLISHED")' = InState("PUBLISHED") \cup {b}
  BY <1>1, <1>4 DEF InState
<1>6. \A c \in InState("PUBLISHED") :
        /\ c \in Batches /\ c # b /\ batch'[c] = batch[c]
        /\ batch[c].published_at \in Nat /\ batch[c].published_at <= clock
  BY <1>1, <1>4, PublishTimeType DEF InState, ExclusionInv, PublishTimes
<1>7. clock \in Nat
  BY DEF TypeInv, TypeOK
<1>8. PublishTimes'
  <2>1. IsLatestPublished(b)'
    BY <1>4, <1>5, <1>6, <1>7 DEF IsLatestPublished
  <2>2. \A c \in InState("PUBLISHED")' : batch'[c].published_at <= clock'
    BY <1>4, <1>5, <1>6, <1>7
  <2>3. \A c, d \in InState("PUBLISHED")' :
          batch'[c].published_at = batch'[d].published_at => c = d
    BY <1>4, <1>5, <1>6, <1>7 DEF ExclusionInv, PublishTimes
  <2> QED
    BY <1>1, <2>1, <2>2, <2>3 DEF PublishTimes
<1>9. Unfinished' = {}
  <2>1. \A c \in Unfinished : c = b
    BY DEF SingleWriter
  <2> QED
    BY <1>1, <1>4, <2>1 DEF Unfinished, Rows
<1>10. \A i \in IntervalsOf(b) : i.batch = b /\ i.high = batch[b].manifest.high[i.part]
  BY DEF IntervalsOf
<1>11. ASSUME NoPartitionWasLost'
       PROVE  HighestIsLatest'
  <2>1. NoPartitionWasLost
    BY <1>5, <1>6, <1>11, IntervalOffsets DEF NoPartitionWasLost
  <2> SUFFICES ASSUME NEW c \in InState("PUBLISHED")', NEW i \in intervals',
                      batch'[i.batch].published_at <= batch'[c].published_at
               PROVE  i.high <= batch'[c].manifest.high[i.part]
    BY DEF HighestIsLatest
  <2>2. CASE i \in IntervalsOf(b)
    <3>1. i.part \in Partitions
      BY <2>2 DEF IntervalsOf
    <3>2. c = b
      BY <1>4, <1>5, <1>6, <1>7, <1>10, <2>2
    <3> QED
      BY <1>1, <1>4, <1>10, <2>2, <3>1, <3>2, ManifestOffsets
  <2>3. CASE i \in intervals
    <3>1. /\ i.part \in Partitions /\ i.high \in Int /\ i.batch \in InState("PUBLISHED")
      BY <2>3, IntervalOffsets
    <3>2. CASE c # b
      BY <1>5, <1>6, <2>1, <2>3, <3>1, <3>2 DEF ExclusionInv, HighestIsLatest
    <3>3. CASE c = b
      <4>1. batch[b].manifest.high[i.part] >= 0
        BY <1>4, <1>5, <1>11, <2>3, <3>1, <3>3 DEF NoPartitionWasLost
      <4>2. PICK d \in Batches : IsLatestPublished(d)
        BY <3>1 DEF ExclusionInv, PublishTimes
      <4>3. /\ d \in InState("PUBLISHED") /\ d \in Rows
            /\ batch[i.batch].published_at <= batch[d].published_at
        BY <3>1, <4>2 DEF IsLatestPublished, InState, Rows
      <4>4. i.high <= batch[d].manifest.high[i.part]
        BY <2>1, <2>3, <4>3 DEF ExclusionInv, HighestIsLatest
      <4>5. batch[d].manifest.high[i.part] <= batch[b].manifest.low[i.part]
        BY <3>1, <4>1, <4>2 DEF ExclusionInv, SealedAtWatermark
      <4>6. /\ batch[b].manifest.low[i.part] <= batch[b].manifest.high[i.part]
            /\ batch[b].manifest.low[i.part] \in Int /\ batch[b].manifest.high[i.part] \in Int
            /\ batch[d].manifest.high[i.part] \in Int
        BY <1>1, <3>1, <4>3, ManifestOffsets
      <4> QED
        BY <1>4, <3>1, <3>3, <4>4, <4>5, <4>6
    <3> QED
      BY <3>2, <3>3
  <2> QED
    BY <2>2, <2>3
<1> QED
  BY <1>8, <1>9, <1>11 DEF ExclusionInv, SealedAtWatermark

LEMMA ExclusionInit == Init => ExclusionInv
<1> SUFFICES ASSUME Init PROVE ExclusionInv
  OBVIOUS
<1>1. InState("PUBLISHED") = {} /\ Unfinished = {}
  BY DEF Init, InState, Unfinished, Rows
<1> QED
  BY <1>1 DEF ExclusionInv, PublishTimes, SealedAtWatermark, HighestIsLatest

LEMMA ExclusionNext ==
    ASSUME TypeInv, SingleWriter, CoverageInv, ExclusionInv, [Next]_vars
    PROVE  ExclusionInv'
<1> USE DEF objects, attemptTables, batchTables
<1>0. ASSUME UNCHANGED <<batch, intervals>>, clock' \in Nat, clock <= clock'
      PROVE  ExclusionInv'
  <2>1. InState("PUBLISHED")' = InState("PUBLISHED") /\ Unfinished' = Unfinished
    BY <1>0 DEF InState, Unfinished, Rows
  <2> QED
    BY <1>0, <2>1, ExclusionFrame
<1>1. clock \in Nat /\ clock <= clock /\ clock + 1 \in Nat /\ clock <= clock + 1
  BY DEF TypeInv, TypeOK
<1>2. ASSUME NEW p \in Partitions, BronzeLand(p)
      PROVE  ExclusionInv'
  BY <1>0, <1>1, <1>2 DEF BronzeLand
<1>3. ASSUME NEW b \in Batches, CreateBatch(b)
      PROVE  ExclusionInv'
  <2>1. PICK listing \in Listings, balanced \in LedgerOutcomes :
          /\ SealManifest(b, BuildManifest(listing, balanced))
          /\ batch' = [batch EXCEPT ![b] =
                [state |-> "CREATED", manifest |-> BuildManifest(listing, balanced),
                 created_at |-> clock + 1, published_at |-> 0]]
    BY <1>3 DEF CreateBatch
  <2> DEFINE m == BuildManifest(listing, balanced)
  <2>2. \A c \in Batches, p \in Partitions : IsLatestPublished(c) /\ m.high[p] >= 0 =>
            batch[c].manifest.high[p] <= m.low[p]
    BY BuiltAtWatermark
  <2> HIDE DEF m
  <2>3. /\ batch[b].state = "NONE" /\ UNCHANGED intervals /\ clock' = clock + 1
        /\ Unfinished = {}
        /\ batch'[b].state = "CREATED" /\ batch'[b].manifest = m
        /\ \A c \in Batches \ {b} : batch'[c] = batch[c]
    BY <2>1 DEF SealManifest, MaySeal, TypeInv, TypeOK, m
  <2>4. /\ InState("PUBLISHED")' = InState("PUBLISHED") /\ Unfinished' = {b}
        /\ \A c \in InState("PUBLISHED") : c \in Batches /\ batch'[c] = batch[c]
    BY <2>3 DEF Rows, InState, Unfinished
  <2>5. \A c : IsLatestPublished(c)' <=> IsLatestPublished(c)
    BY <2>4 DEF IsLatestPublished
  <2>6. PublishTimes'
    BY <1>1, <2>3, <2>4, <2>5, PublishTimeType DEF ExclusionInv, PublishTimes
  <2>7. SealedAtWatermark'
    BY <2>2, <2>3, <2>4, <2>5 DEF SealedAtWatermark, IsLatestPublished
  <2>8. NoPartitionWasLost' => HighestIsLatest'
    <3>1. \A i \in intervals : i.batch \in InState("PUBLISHED")
      BY IntervalOffsets
    <3>2. NoPartitionWasLost' => NoPartitionWasLost
      BY <2>3, <2>4, <3>1 DEF NoPartitionWasLost
    <3>3. HighestIsLatest => HighestIsLatest'
      BY <2>3, <2>4, <3>1 DEF HighestIsLatest
    <3> QED
      BY <3>2, <3>3 DEF ExclusionInv
  <2> QED
    BY <2>6, <2>7, <2>8 DEF ExclusionInv
<1>4. ASSUME NEW b \in Batches, CreateBatchCrashes(b)
      PROVE  ExclusionInv'
  BY <1>0, <1>1, <1>4 DEF CreateBatchCrashes, SealManifest
<1>5. ASSUME NEW b \in Batches, SupersedeBatch(b)
      PROVE  ExclusionInv'
  <2>1. b \in Rows /\ b \notin InState("PUBLISHED")
    BY <1>5 DEF SupersedeBatch, Rows, InState
  <2> QED
    BY <1>5, <2>1, ExclusionStateChange DEF SupersedeBatch, BatchStates
<1>6. ASSUME NEW b \in Batches, NEW r \in Runs, StartAttempt(b, r)
      PROVE  ExclusionInv'
  <2>1. CASE batch[b].state = "PUBLISHED"
    BY <1>0, <1>1, <1>6, <2>1 DEF StartAttempt
  <2>2. CASE batch[b].state # "PUBLISHED"
    <3>1. b \in Unfinished /\ b \in Rows /\ b \notin InState("PUBLISHED")
      BY <1>6, <2>2 DEF StartAttempt, MayStart, Rows, InState, Unfinished
    <3> QED
      BY <1>6, <2>2, <3>1, ExclusionStateChange DEF StartAttempt, BatchStates
  <2> QED
    BY <2>1, <2>2
<1>7. ASSUME NEW r \in Runs, WriteAuditEvidence(r)
      PROVE  ExclusionInv'
  BY <1>0, <1>1, <1>7 DEF WriteAuditEvidence
<1>8. ASSUME NEW r \in Runs, NEW t \in Tasks, RecordTaskSuccess(r, t)
      PROVE  ExclusionInv'
  BY <1>0, <1>1, <1>8 DEF RecordTaskSuccess
<1>9. ASSUME NEW r \in Runs, PublishBatch(r)
      PROVE  ExclusionInv'
  <2>1. PICK b \in Rows : b = attempt[r].batch
    BY <1>9 DEF PublishBatch, AttemptIsLive, TypeInv, SealedAttempts
  <2>2. CASE ReplayPublish(r)
    BY <1>0, <1>1, <2>2 DEF ReplayPublish
  <2>3. CASE FirstPublish(r)
    <3>1. /\ batch' = [batch EXCEPT ![b] = [batch[b] EXCEPT !.state = "PUBLISHED",
                                                           !.published_at = clock + 1]]
          /\ intervals' = intervals \cup IntervalsOf(b) /\ clock' = clock + 1
      BY <2>1, <2>3 DEF FirstPublish
    <3>2. b \in Unfinished
      BY <2>1, <2>3 DEF FirstPublish, Unfinished
    <3> QED
      BY <3>1, <3>2, PublishIsHighest
  <2> QED
    BY <1>9, <2>2, <2>3 DEF PublishBatch
<1>10. ASSUME NEW r \in Runs, FailAirflowRun(r)
       PROVE  ExclusionInv'
  <2>1. PICK b \in Rows : b = attempt[r].batch
    BY <1>10 DEF FailAirflowRun, TypeInv, SealedAttempts
  <2>2. CASE batch[b].state # "RUNNING"
    BY <1>0, <1>1, <1>10, <2>1, <2>2 DEF FailAirflowRun
  <2>3. CASE batch[b].state = "RUNNING"
    <3>1. b \in Unfinished /\ b \notin InState("PUBLISHED")
      BY <2>3 DEF Unfinished, InState
    <3> QED
      BY <1>10, <2>1, <2>3, <3>1, ExclusionStateChange DEF FailAirflowRun, BatchStates
  <2> QED
    BY <2>2, <2>3
<1>11. ASSUME UNCHANGED vars
       PROVE  ExclusionInv'
  BY <1>0, <1>1, <1>11 DEF vars
<1> QED
  BY <1>2, <1>3, <1>4, <1>5, <1>6, <1>7, <1>8, <1>9, <1>10, <1>11 DEF Next

(* While every published manifest names each partition published before it, *)
(* the exclusion constraint refuses no publish: the watermarks are enough.  *)
THEOREM WatermarksAreEnough == Spec => []ExclusionIsALastResort
<1>1. TypeInv /\ SingleWriter /\ CoverageInv /\ ExclusionInv /\ [Next]_vars => ExclusionInv'
  BY ExclusionNext
<1>2. TypeInv /\ CoverageInv /\ ExclusionInv => ExclusionIsALastResort
  BY ExclusionFollows
<1> QED
  BY <1>1, <1>2, CoverageInvariant, ExclusionInit, PTL DEF Spec
=============================================================================
