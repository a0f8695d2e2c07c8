---------------------------- MODULE RawVaultProofs ----------------------------
(***************************************************************************)
(* The Satellites hold the history of the events, for every number of       *)
(* events, batches and jobs.  First what one batch computes, then why jobs  *)
(* that die, run twice or outlive their batch do not spoil it.              *)
(***************************************************************************)
EXTENDS RawVaultSatellites, WellFoundedInduction, TLAPS

-----------------------------------------------------------------------------
(* Extremes of sets of offsets                                              *)

LEMMA LeastOf ==
    ASSUME NEW S \in SUBSET Nat, S # {}
    PROVE  \E x \in S : \A y \in S : x <= y
<1> DEFINE R == OpToRel(<, Nat)
<1>1. R = {ss \in Nat \X Nat : ss[1] < ss[2]}
  BY DEF OpToRel
<1>2. \A x, y \in Nat : <<x, y>> \in R <=> x < y
  BY <1>1
<1>3. IsWellFoundedOn(R, Nat)
  BY NatLessThanWellFounded
<1> HIDE DEF R
<1>4. PICK x \in S : \A y \in S : <<y, x>> \notin R
  BY <1>3, WFMin
<1>5. x \in Nat /\ \A y \in S : y \in Nat
  OBVIOUS
<1>6. ASSUME NEW y \in S
      PROVE  x <= y
  <2>1. y \in Nat /\ ~(y < x)
    BY <1>2, <1>4, <1>5
  <2> QED
    BY <1>5, <2>1
<1> QED
  BY <1>6

LEMMA GreatestOf ==
    ASSUME NEW S \in SUBSET Nat, S # {}, NEW n \in Nat, \A s \in S : s <= n
    PROVE  \E x \in S : \A y \in S : y <= x
<1> DEFINE T == {n - s : s \in S}
<1>1. \A s \in S : s \in Nat
  OBVIOUS
<1>2. T \in SUBSET Nat /\ T # {}
  <2>1. ASSUME NEW s \in S
        PROVE  n - s \in Nat
    BY <1>1
  <2> QED
    BY <2>1
<1>3. PICK m \in T : \A k \in T : m <= k
  BY <1>2, LeastOf
<1>4. PICK x \in S : m = n - x
  OBVIOUS
<1>5. \A y \in S : n - x <= n - y
  BY <1>3, <1>4
<1>6. \A y \in S : y <= x
  BY <1>1, <1>5
<1> QED
  BY <1>6

-----------------------------------------------------------------------------
(* Changes                                                                  *)

IsLastBefore(S, o, q) == q \in Before(S, o) /\ \A r \in Before(S, o) : r <= q

LEMMA ChangesMeans ==
    ASSUME NEW S, NEW t, NEW o
    PROVE  o \in ChangesIn(S, t) <=>
             o \in S /\ \A q : IsLastBefore(S, o, q) => log[q].state[t] # log[o].state[t]
BY DEF ChangesIn, IsLastBefore

LEMMA Offsets ==
    ASSUME TypeOK, NEW t
    PROVE  /\ Len(log) \in Nat
           /\ \A o \in Concerning(t) : o \in Nat /\ 1 <= o /\ o <= Len(log)
           /\ History(t) \subseteq Concerning(t)
<1>1. Len(log) \in Nat /\ DOMAIN log = 1 .. Len(log)
  BY DEF TypeOK
<1> QED
  BY <1>1 DEF Concerning, History, ChangesIn

(* The last event before another one, if there is any.                      *)
LEMMA HasLast ==
    ASSUME TypeOK, NEW t, NEW S \in SUBSET Concerning(t), NEW o \in Concerning(t),
           Before(S, o) # {}
    PROVE  \E q : IsLastBefore(S, o, q)
<1>1. Before(S, o) \in SUBSET Nat /\ o \in Nat /\ \A q \in Before(S, o) : q <= o
  BY Offsets DEF Before
<1>2. \E q \in Before(S, o) : \A r \in Before(S, o) : r <= q
  BY <1>1, GreatestOf
<1> QED
  BY <1>2 DEF IsLastBefore

(* At every event the state of its entity is the one the last change left.  *)
LEMMA ChangeBehindState ==
    ASSUME TypeOK, NEW t, NEW o \in Concerning(t)
    PROVE  \E h \in History(t) :
             /\ h <= o /\ SameEntity(h, o) /\ log[h].state[t] = log[o].state[t]
             /\ \A g \in History(t) : SameEntity(g, o) /\ g <= o => g <= h
<1> DEFINE Behind(p, h) == /\ h <= p /\ SameEntity(h, p) /\ log[h].state[t] = log[p].state[t]
                           /\ \A g \in History(t) : SameEntity(g, p) /\ g <= p => g <= h
           Bad == {p \in Concerning(t) : ~ \E h \in History(t) : Behind(p, h)}
<1>1. SUFFICES ASSUME Bad # {} PROVE FALSE
  OBVIOUS
<1>2. Bad \in SUBSET Nat
  BY Offsets
<1>3. PICK p \in Bad : \A q \in Bad : p <= q
  BY <1>1, <1>2, LeastOf
<1>4. p \in Concerning(t) /\ p \in Nat
  BY Offsets
<1>5. p \notin History(t)
  <2>1. SUFFICES ASSUME p \in History(t) PROVE Behind(p, p)
    BY <1>3
  <2> QED
    BY <1>4 DEF SameEntity
<1>6. PICK q : IsLastBefore(Concerning(t), p, q) /\ log[q].state[t] = log[p].state[t]
  BY <1>4, <1>5, ChangesMeans DEF History
<1>7. q \in Concerning(t) /\ q \in Nat /\ q < p /\ SameEntity(q, p)
  BY <1>6, Offsets DEF IsLastBefore, Before
<1>8. q \notin Bad
  BY <1>3, <1>4, <1>7
<1>9. PICK h \in History(t) : Behind(q, h)
  BY <1>7, <1>8
<1>10. h \in Nat /\ \A g \in History(t) : g \in Nat /\ g \in Concerning(t)
  BY Offsets
<1>11. ASSUME NEW g \in History(t), SameEntity(g, p), g <= p
       PROVE  g <= h
  <2>1. g < p
    BY <1>4, <1>5, <1>10, <1>11
  <2>2. g <= q
    BY <1>6, <1>10, <1>11, <2>1 DEF IsLastBefore, Before
  <2> QED
    BY <1>7, <1>9, <1>11, <2>2 DEF SameEntity
<1>12. Behind(p, h)
  BY <1>4, <1>6, <1>7, <1>9, <1>10, <1>11 DEF SameEntity
<1> QED
  BY <1>3, <1>12

(* Whether an event is a change can be told from the changes before it.     *)
LEMMA ChangesDecide ==
    ASSUME TypeOK, NEW t, NEW o \in Concerning(t)
    PROVE  o \in History(t) <=>
             \A q : IsLastBefore(History(t), o, q) => log[q].state[t] # log[o].state[t]
<1>0. /\ o \in Nat /\ \A p \in Concerning(t) : p \in Nat
      /\ History(t) \subseteq Concerning(t)
  BY Offsets
<1>1. ASSUME NEW p, IsLastBefore(Concerning(t), o, p)
      PROVE  \E h : /\ IsLastBefore(History(t), o, h)
                    /\ log[h].state[t] = log[p].state[t]
  <2>1. p \in Concerning(t) /\ p < o /\ SameEntity(p, o)
    BY <1>1 DEF IsLastBefore, Before
  <2>2. PICK h \in History(t) :
          /\ h <= p /\ SameEntity(h, p) /\ log[h].state[t] = log[p].state[t]
          /\ \A g \in History(t) : SameEntity(g, p) /\ g <= p => g <= h
    BY <2>1, ChangeBehindState
  <2>3. h \in Before(History(t), o)
    <3>1. h < o
      <4>1. h \in Nat /\ p \in Nat
        BY <1>0, <2>1
      <4> QED
        BY <1>0, <2>1, <2>2, <4>1
    <3>2. SameEntity(h, o)
      BY <2>1, <2>2 DEF SameEntity
    <3> QED
      BY <3>1, <3>2 DEF Before
  <2>4. ASSUME NEW g \in Before(History(t), o)
        PROVE  g <= h
    <3>1. g \in History(t) /\ SameEntity(g, o) /\ g \in Before(Concerning(t), o)
      BY <1>0, <2>4 DEF Before
    <3>2. g <= p
      BY <1>1, <3>1 DEF IsLastBefore
    <3> QED
      BY <2>1, <2>2, <3>1, <3>2 DEF SameEntity
  <2> QED
    BY <2>2, <2>3, <2>4 DEF IsLastBefore
<1>2. ASSUME NEW q, IsLastBefore(History(t), o, q)
      PROVE  \E p : /\ IsLastBefore(Concerning(t), o, p)
                    /\ log[q].state[t] = log[p].state[t]
  <2>1. Before(Concerning(t), o) # {}
    BY <1>0, <1>2 DEF IsLastBefore, Before
  <2>2. PICK p : IsLastBefore(Concerning(t), o, p)
    BY <2>1, HasLast
  <2>3. PICK h : IsLastBefore(History(t), o, h) /\ log[h].state[t] = log[p].state[t]
    BY <1>1, <2>2
  <2>4. h = q
    <3>1. h \in Nat /\ q \in Nat
      BY <1>0, <1>2, <2>3 DEF IsLastBefore, Before
    <3>2. h <= q /\ q <= h
      BY <1>2, <2>3 DEF IsLastBefore
    <3> QED
      BY <3>1, <3>2
  <2> QED
    BY <2>2, <2>3, <2>4
<1>3. o \in History(t) <=>
        \A p : IsLastBefore(Concerning(t), o, p) => log[p].state[t] # log[o].state[t]
  BY ChangesMeans DEF History
<1> QED
  BY <1>1, <1>2, <1>3

-----------------------------------------------------------------------------
(* What one batch computes                                                  *)

(* The changes that fall into a batch's interval.                           *)
Interval(b, t) == {o \in History(t) : batch[b].low < o /\ o <= batch[b].high}

(* Rows are of changes and carry the batch whose interval they lie in.      *)
RowsSound ==
    \A t \in Tables : \A r \in rows[t] :
        /\ r.event \in History(t)
        /\ batch[r.batch].state # "NONE"
        /\ batch[r.batch].low < r.event /\ r.event <= batch[r.batch].high

(* Where a batch starts, the tables have everything before.                 *)
BelowIsRecorded(b) ==
    \A t \in Tables : \A o \in History(t) : o <= batch[b].low => o \in Recorded(t)

LEMMA OthersHoldThePast ==
    ASSUME TypeOK, RowsSound, NEW b \in Batches, BelowIsRecorded(b), NEW t \in Tables,
           NEW o \in Concerning(t), Before(InBatch(b, t), o) = {},
           batch[b].low < o, o <= batch[b].high
    PROVE  Before(PersistedByOthers(b, t) \cup {o}, o) = Before(History(t), o)
<1>0. /\ batch[b].low \in Nat /\ batch[b].high \in Nat
      /\ o \in Nat /\ \A p \in Concerning(t) : p \in Nat
      /\ History(t) \subseteq Concerning(t)
  BY Offsets DEF TypeOK, BatchRow
<1>1. ASSUME NEW q \in Before(PersistedByOthers(b, t) \cup {o}, o)
      PROVE  q \in Before(History(t), o)
  <2>1. q \in PersistedByOthers(b, t) \cup {o} /\ q < o /\ SameEntity(q, o)
    BY <1>1 DEF Before
  <2>2. q \in PersistedByOthers(b, t)
    BY <1>0, <2>1
  <2>3. q \in History(t)
    BY <2>2 DEF PersistedByOthers, RowsSound
  <2> QED
    BY <2>1, <2>3 DEF Before
<1>2. ASSUME NEW q \in Before(History(t), o)
      PROVE  q \in Before(PersistedByOthers(b, t) \cup {o}, o)
  <2>1. q \in History(t) /\ q \in Concerning(t) /\ q < o /\ SameEntity(q, o)
    BY <1>0, <1>2 DEF Before
  <2>2. q \in Nat
    BY <1>0, <2>1
  <2>3. q <= batch[b].low
    <3>1. q \notin InBatch(b, t)
      BY <2>1 DEF Before
    <3>2. ~(batch[b].low < q /\ q <= batch[b].high)
      BY <2>1, <3>1 DEF InBatch
    <3> QED
      BY <1>0, <2>1, <2>2, <3>2
  <2>4. q \in Recorded(t)
    BY <2>1, <2>3 DEF BelowIsRecorded
  <2>5. PICK r \in rows[t] : q = r.event
    BY <2>4 DEF Recorded
  <2>6. r.batch # b
    <3>1. SUFFICES ASSUME r.batch = b PROVE FALSE
      OBVIOUS
    <3>2. batch[b].low < q
      BY <2>5, <3>1 DEF RowsSound
    <3> QED
      BY <1>0, <2>2, <2>3, <3>2
  <2>7. q \in PersistedByOthers(b, t)
    BY <2>5, <2>6 DEF PersistedByOthers
  <2> QED
    BY <2>1, <2>7 DEF Before
<1> QED
  BY <1>1, <1>2

(* After the first event of an entity the batch sees what the history sees. *)
LEMMA BatchSeesTheLast ==
    ASSUME TypeOK, NEW b \in Batches, NEW t,
           NEW o \in InBatch(b, t), Before(InBatch(b, t), o) # {}, NEW q
    PROVE  IsLastBefore(InBatch(b, t), o, q) <=> IsLastBefore(Concerning(t), o, q)
<1>0. /\ batch[b].low \in Nat /\ batch[b].high \in Nat
      /\ o \in Concerning(t) /\ o \in Nat /\ o <= batch[b].high
      /\ \A p \in Concerning(t) : p \in Nat
  BY Offsets DEF TypeOK, BatchRow, InBatch
<1>1. PICK l : IsLastBefore(InBatch(b, t), o, l)
  <2>1. InBatch(b, t) \in SUBSET Concerning(t)
    BY DEF InBatch
  <2> QED
    BY <1>0, <2>1, HasLast
<1>2. l \in Concerning(t) /\ l \in Nat /\ l < o /\ SameEntity(l, o) /\ batch[b].low < l
  BY <1>0, <1>1 DEF IsLastBefore, Before, InBatch
<1>3. ASSUME NEW r \in Before(Concerning(t), o)
      PROVE  r <= l
  <2>1. r \in Concerning(t) /\ r \in Nat /\ r < o /\ SameEntity(r, o)
    BY <1>0, <1>3 DEF Before
  <2>2. CASE r <= batch[b].low
    BY <1>0, <1>2, <2>1, <2>2
  <2>3. CASE batch[b].low < r
    <3>1. r <= batch[b].high
      BY <1>0, <2>1
    <3>2. r \in Before(InBatch(b, t), o)
      BY <2>1, <2>3, <3>1 DEF Before, InBatch
    <3> QED
      BY <1>1, <3>2 DEF IsLastBefore
  <2> QED
    BY <1>0, <2>1, <2>2, <2>3
<1>4. IsLastBefore(Concerning(t), o, l)
  BY <1>2, <1>3 DEF IsLastBefore, Before
<1>5. ASSUME IsLastBefore(InBatch(b, t), o, q)
      PROVE  q = l
  <2>1. q \in Concerning(t)
    BY <1>5 DEF IsLastBefore, Before, InBatch
  <2>2. q \in Nat
    BY <1>0, <2>1
  <2>3. q <= l /\ l <= q
    BY <1>1, <1>5 DEF IsLastBefore
  <2> QED
    BY <1>2, <2>2, <2>3
<1>6. ASSUME IsLastBefore(Concerning(t), o, q)
      PROVE  q = l
  <2>1. q \in Concerning(t)
    BY <1>6 DEF IsLastBefore, Before
  <2>2. q \in Nat
    BY <1>0, <2>1
  <2>3. q <= l /\ l <= q
    BY <1>4, <1>6 DEF IsLastBefore
  <2> QED
    BY <1>2, <2>2, <2>3
<1> QED
  BY <1>1, <1>4, <1>5, <1>6

(* Then the batch has a row of the entity to compare with.                  *)
LEMMA NotTheFirst ==
    ASSUME TypeOK, NEW b \in Batches, NEW t,
           NEW o \in InBatch(b, t), Before(InBatch(b, t), o) # {}
    PROVE  o \notin FirstOfEntity(b, t)
<1>0. \A p \in InBatch(b, t) : p \in Nat
  BY Offsets DEF InBatch
<1>1. Before(InBatch(b, t), o) \in SUBSET Nat
  BY <1>0 DEF Before
<1>2. PICK m \in Before(InBatch(b, t), o) : \A r \in Before(InBatch(b, t), o) : m <= r
  BY <1>1, LeastOf
<1>3. m \in InBatch(b, t) /\ m < o /\ SameEntity(m, o) /\ m \in Nat /\ o \in Nat
  BY <1>0, <1>2 DEF Before
<1>4. Before(InBatch(b, t), m) = {}
  <2>1. SUFFICES ASSUME NEW r \in Before(InBatch(b, t), m) PROVE FALSE
    OBVIOUS
  <2>2. r \in InBatch(b, t) /\ r < m /\ SameEntity(r, m)
    BY <2>1 DEF Before
  <2>3. r \in Nat
    BY <1>0, <2>2
  <2>4. r < o
    BY <1>3, <2>2, <2>3
  <2>5. r \in Before(InBatch(b, t), o)
    BY <1>3, <2>2, <2>4 DEF Before, SameEntity
  <2>6. m <= r
    BY <1>2, <2>5
  <2> QED
    BY <1>3, <2>2, <2>3, <2>6
<1>5. m \in Build(b, t)
  BY <1>3, <1>4 DEF Build, ChangesIn
<1>6. m \in Before(Build(b, t), o)
  BY <1>3, <1>5 DEF Before
<1> QED
  BY <1>6 DEF FirstOfEntity

(* filter_against_persisted_state keeps exactly the changes: what a batch   *)
(* stages is the share of the history that falls into its interval.         *)
LEMMA FilteredIsHistory ==
    ASSUME TypeOK, RowsSound, NEW b \in Batches, BelowIsRecorded(b), NEW t \in Tables
    PROVE  Filtered(b, t) = Interval(b, t)
<1>0. /\ Filtered(b, t) \subseteq InBatch(b, t)
      /\ Interval(b, t) \subseteq InBatch(b, t)
      /\ InBatch(b, t) \subseteq Concerning(t)
      /\ Build(b, t) \subseteq InBatch(b, t)
  BY Offsets DEF Filtered, Interval, Build, ChangesIn, InBatch
<1>1. ASSUME NEW o \in InBatch(b, t)
      PROVE  o \in Filtered(b, t) <=> o \in Interval(b, t)
  <2>1. o \in Concerning(t) /\ batch[b].low < o /\ o <= batch[b].high
    BY DEF InBatch
  <2>2. o \in Interval(b, t) <=> o \in History(t)
    BY <2>1 DEF Interval
  <2>3. CASE Before(InBatch(b, t), o) = {}
    <3> DEFINE P == PersistedByOthers(b, t) \cup {o}
    <3>1. o \in Build(b, t)
      BY <2>3 DEF Build, ChangesIn
    <3>2. Before(Build(b, t), o) = {}
      BY <1>0, <2>3 DEF Before
    <3>3. o \in FirstOfEntity(b, t)
      BY <3>1, <3>2 DEF FirstOfEntity
    <3>4. o \in Filtered(b, t) <=> o \in ChangesIn(P, t)
      BY <3>1, <3>3 DEF Filtered
    <3>5. Before(P, o) = Before(History(t), o)
      BY <2>1, <2>3, OthersHoldThePast
    <3>6. o \in P
      OBVIOUS
    <3> HIDE DEF P
    <3>7. o \in ChangesIn(P, t) <=>
            \A q : IsLastBefore(P, o, q) => log[q].state[t] # log[o].state[t]
      BY <3>6, ChangesMeans
    <3>8. \A q : IsLastBefore(P, o, q) <=> IsLastBefore(History(t), o, q)
      BY <3>5 DEF IsLastBefore
    <3>9. o \in History(t) <=>
            \A q : IsLastBefore(History(t), o, q) => log[q].state[t] # log[o].state[t]
      BY <2>1, ChangesDecide
    <3> QED
      BY <2>2, <3>4, <3>7, <3>8, <3>9
  <2>4. CASE Before(InBatch(b, t), o) # {}
    <3>1. o \notin FirstOfEntity(b, t)
      BY <2>4, NotTheFirst
    <3>2. o \in Filtered(b, t) <=> o \in Build(b, t)
      BY <3>1 DEF Filtered
    <3>3. \A q : IsLastBefore(InBatch(b, t), o, q) <=> IsLastBefore(Concerning(t), o, q)
      BY <2>4, BatchSeesTheLast
    <3>4. o \in Build(b, t) <=>
            \A q : IsLastBefore(InBatch(b, t), o, q) => log[q].state[t] # log[o].state[t]
      BY ChangesMeans DEF Build
    <3>5. o \in History(t) <=>
            \A q : IsLastBefore(Concerning(t), o, q) => log[q].state[t] # log[o].state[t]
      BY <2>1, ChangesMeans DEF History
    <3> QED
      BY <2>2, <3>2, <3>3, <3>4, <3>5
  <2> QED
    BY <2>3, <2>4
<1> QED
  BY <1>0, <1>1

-----------------------------------------------------------------------------
(* Types                                                                    *)

JobRow == [batch: Batches \cup {None}, done: SUBSET Tables,
           table: Tables \cup {None}, staged: SUBSET Nat, audited: BOOLEAN]

LEMMA IdleIsJob == Idle \in JobRow
BY DEF Idle, JobRow

LEMMA FilteredType ==
    ASSUME TypeOK, NEW b, NEW t
    PROVE  Filtered(b, t) \in SUBSET Nat
BY Offsets DEF Filtered, Build, ChangesIn, InBatch

(* A process without a batch has staged and done nothing.                   *)
IdleWithoutBatch == \A j \in Jobs : job[j].batch = None => job[j] = Idle

(* Every step keeps the tables, batches and jobs well formed.               *)
LEMMA TypeStep == TypeOK /\ IdleWithoutBatch /\ [Next]_vars => TypeOK'
<1> SUFFICES ASSUME TypeOK, IdleWithoutBatch, [Next]_vars PROVE TypeOK'
  OBVIOUS
<1>0. /\ log \in Seq(Events) /\ batch \in [Batches -> BatchRow]
      /\ order \in Seq(Batches) /\ rows \in [Tables -> SUBSET Row]
      /\ job \in [Jobs -> JobRow]
  BY DEF TypeOK, JobRow
<1> SUFFICES /\ log' \in Seq(Events) /\ batch' \in [Batches -> BatchRow]
             /\ order' \in Seq(Batches) /\ rows' \in [Tables -> SUBSET Row]
             /\ job' \in [Jobs -> JobRow]
  BY DEF TypeOK, JobRow
<1>1. CASE Produce
  BY <1>0, <1>1 DEF Produce
<1>2. ASSUME NEW b \in Batches, Seal(b)
      PROVE  /\ batch' \in [Batches -> BatchRow] /\ order' \in Seq(Batches)
             /\ UNCHANGED <<log, rows, job>>
  <2>1. PICK low \in {0} \cup {batch[c].high : c \in Published}, high \in 0 .. Len(log) :
          batch' = [batch EXCEPT ![b] = [low |-> low, high |-> high, state |-> "OPEN"]]
    BY <1>2 DEF Seal
  <2>2. \A c \in Published : batch[c].high \in Nat
    BY <1>0 DEF Published, BatchRow
  <2>3. low \in Nat /\ high \in Nat
    BY <1>0, <2>2
  <2>4. [low |-> low, high |-> high, state |-> "OPEN"] \in BatchRow
    BY <2>3 DEF BatchRow
  <2> QED
    BY <1>0, <1>2, <2>1, <2>4 DEF Seal
<1>3. ASSUME NEW b \in Batches, Supersede(b)
      PROVE  batch' \in [Batches -> BatchRow] /\ UNCHANGED <<log, order, rows, job>>
  BY <1>0, <1>3 DEF Supersede, BatchRow
<1>4. ASSUME NEW j \in Jobs, JobDies(j)
      PROVE  job' \in [Jobs -> JobRow] /\ UNCHANGED <<log, batch, order, rows>>
  BY <1>0, <1>4, IdleIsJob DEF JobDies
<1>5. ASSUME NEW j \in Jobs, Merge(j)
      PROVE  /\ rows' \in [Tables -> SUBSET Row] /\ job' \in [Jobs -> JobRow]
             /\ UNCHANGED <<log, batch, order>>
  <2>1. PICK t \in Tables : t = job[j].table
    BY <1>0, <1>5 DEF Merge, JobRow
  <2>2. job[j].batch \in Batches \cup {None} /\ job[j].staged \in SUBSET Nat
    BY <1>0 DEF JobRow
  <2>3. CASE job[j].batch \in Batches
    <3>1. Inserted(j, t) \in SUBSET Row
      BY <2>2, <2>3 DEF Inserted, NewRows, Row
    <3>2. rows' = [rows EXCEPT ![t] = rows[t] \cup Inserted(j, t)]
      BY <1>5, <2>1 DEF Merge
    <3> QED
      BY <1>0, <1>5, <2>1, <3>1, <3>2 DEF Merge, JobRow
  <2>4. CASE job[j].batch = None
    <3>1. job[j].table = None
      BY <2>4 DEF IdleWithoutBatch, Idle
    <3> QED
      BY <1>5, <3>1 DEF Merge
  <2> QED
    BY <2>2, <2>3, <2>4
<1>6. ASSUME NEW j \in Jobs, Reconcile(j)
      PROVE  job' \in [Jobs -> JobRow] /\ UNCHANGED <<log, batch, order, rows>>
  BY <1>0, <1>6 DEF Reconcile, JobRow
<1>7. ASSUME NEW j \in Jobs, Publish(j)
      PROVE  /\ batch' \in [Batches -> BatchRow] /\ job' \in [Jobs -> JobRow]
             /\ UNCHANGED <<log, order, rows>>
  BY <1>0, <1>7, IdleIsJob DEF Publish, BatchRow
<1>8. ASSUME NEW j \in Jobs, NEW b \in Batches, StartJob(j, b)
      PROVE  job' \in [Jobs -> JobRow] /\ UNCHANGED <<log, batch, order, rows>>
  BY <1>0, <1>8 DEF StartJob, JobRow
<1>9. ASSUME NEW j \in Jobs, NEW t \in Tables, Stage(j, t)
      PROVE  job' \in [Jobs -> JobRow] /\ UNCHANGED <<log, batch, order, rows>>
  BY <1>0, <1>9, FilteredType, IdleIsJob DEF Stage, JobRow
<1>10. CASE UNCHANGED vars
  BY <1>0, <1>10 DEF vars
<1>11. CASE Next
  BY <1>0, <1>11, <1>1, <1>2, <1>3, <1>4, <1>5, <1>6, <1>7, <1>8, <1>9 DEF Next, Produce
<1> QED
  BY <1>10, <1>11

LEMMA IdleStep == TypeOK /\ IdleWithoutBatch /\ [Next]_vars => IdleWithoutBatch'
<1> SUFFICES ASSUME TypeOK, IdleWithoutBatch, [Next]_vars, NEW k \in Jobs, job'[k].batch = None
             PROVE  job'[k] = Idle
  BY DEF IdleWithoutBatch
<1>0. job \in [Jobs -> JobRow] /\ (job[k].batch = None => job[k] = Idle) /\ None \notin Batches
  BY RawVaultAssumption DEF TypeOK, JobRow, IdleWithoutBatch
<1>1. CASE job' = job
  BY <1>0, <1>1
<1>2. ASSUME NEW j \in Jobs, JobDies(j) \/ Publish(j)
      PROVE  job'[k] = Idle
  BY <1>0, <1>2 DEF JobDies, Publish
<1>3. ASSUME NEW j \in Jobs, Merge(j)
      PROVE  job'[k] = Idle
  <2>1. k # j => job'[k] = job[k]
    BY <1>0, <1>3 DEF Merge
  <2>2. k = j => job'[k].batch = job[k].batch /\ job[k].table # None
    BY <1>0, <1>3 DEF Merge, JobRow
  <2>3. Idle.table = None
    BY DEF Idle
  <2> QED
    BY <1>0, <2>1, <2>2, <2>3
<1>4. ASSUME NEW j \in Jobs, Reconcile(j)
      PROVE  job'[k] = Idle
  <2>1. k # j => job'[k] = job[k]
    BY <1>0, <1>4 DEF Reconcile
  <2>2. k = j => job'[k].batch = job[k].batch /\ job[k].done = Tables /\ ~ job[k].audited
    BY <1>0, <1>4 DEF Reconcile, JobRow
  <2>3. CASE k = j
    <3>1. job[k] = Idle /\ job[k].done = Tables
      BY <1>0, <2>2, <2>3
    <3>2. Tables = {}
      BY <3>1 DEF Idle
    <3> QED
      BY <3>2, RawVaultAssumption
  <2> QED
    BY <1>0, <2>1, <2>3
<1>5. ASSUME NEW j \in Jobs, NEW b \in Batches, StartJob(j, b)
      PROVE  job'[k] = Idle
  <2>1. k # j => job'[k] = job[k]
    BY <1>0, <1>5 DEF StartJob
  <2>2. k = j => job'[k].batch = b
    BY <1>0, <1>5 DEF StartJob, JobRow
  <2> QED
    BY <1>0, <2>1, <2>2
<1>6. ASSUME NEW j \in Jobs, NEW t \in Tables, Stage(j, t)
      PROVE  job'[k] = Idle
  <2>1. k # j => job'[k] = job[k]
    BY <1>0, <1>6 DEF Stage
  <2>2. k = j => job[k].batch # None /\ (job'[k] = Idle \/ job'[k].batch = job[k].batch)
    BY <1>0, <1>6 DEF Stage, JobRow
  <2> QED
    BY <1>0, <2>1, <2>2
<1>7. CASE Next
  BY <1>1, <1>2, <1>3, <1>4, <1>5, <1>6, <1>7 DEF Next, Produce, Seal, Supersede
<1> QED
  BY <1>1, <1>7 DEF vars

-----------------------------------------------------------------------------
(* The inductive invariant                                                  *)

IntervalsSound ==
    \A b \in Batches : /\ batch[b].low <= batch[b].high /\ batch[b].high <= Len(log)
                       /\ BelowIsRecorded(b)

JobSound(j) ==
    job[j].batch # None =>
        /\ batch[job[j].batch].state # "NONE"
        /\ job[j].table # None => job[j].staged = Interval(job[j].batch, job[j].table)
        /\ \A t \in job[j].done : Interval(job[j].batch, t) \subseteq Recorded(t)
        /\ job[j].audited => job[j].done = Tables

JobsSound == \A j \in Jobs : JobSound(j)

PublishedComplete ==
    \A t \in Tables, b \in Published :
        \A o \in History(t) : o <= batch[b].high => o \in Recorded(t)

(* Batches are open one at a time, and published in the order of intervals. *)
OpenIsLast ==
    \A b \in Batches :
        batch[b].state # "NONE" => /\ order # <<>>
                                   /\ batch[b].state = "OPEN" => b = order[Len(order)]

LastIsAbove ==
    \A b \in Published :
        b # order[Len(order)] => batch[b].high <= batch[order[Len(order)]].low

LoadInv ==
    /\ TypeOK /\ IdleWithoutBatch
    /\ RowsSound /\ IntervalsSound /\ JobsSound /\ PublishedComplete
    /\ OneRowPerEvent /\ OpenIsLast /\ LastIsAbove

LEMMA LoadInit == Init => LoadInv
<1> SUFFICES ASSUME Init PROVE LoadInv
  OBVIOUS
<1> USE RawVaultAssumption
<1>1. TypeOK /\ IdleWithoutBatch
  BY IdleIsJob DEF Init, TypeOK, IdleWithoutBatch, JobRow, BatchRow
<1>2. \A t : History(t) = {}
  BY DEF Init, History, ChangesIn, Concerning
<1>3. /\ Published = {}
      /\ \A b \in Batches : batch[b] = [low |-> 0, high |-> 0, state |-> "NONE"]
      /\ \A t \in Tables : rows[t] = {}
      /\ Len(log) = 0
  BY DEF Init, Published
<1>4. RowsSound /\ IntervalsSound /\ PublishedComplete
  BY <1>2, <1>3 DEF RowsSound, IntervalsSound, BelowIsRecorded, PublishedComplete
<1>5. OneRowPerEvent /\ OpenIsLast /\ LastIsAbove
  BY <1>3 DEF OneRowPerEvent, OpenIsLast, LastIsAbove
<1>6. JobsSound
  BY DEF Init, JobsSound, JobSound, Idle
<1> QED
  BY <1>1, <1>4, <1>5, <1>6 DEF LoadInv

(* What no step takes from a process: its batch's changes stay the same     *)
(* and stay recorded.                                                       *)
Kept ==
    /\ \A b \in Batches :
          batch[b].state # "NONE" =>
             /\ batch'[b].state # "NONE"
             /\ \A t \in Tables : Interval(b, t)' = Interval(b, t)
    /\ \A t \in Tables : Recorded(t) \subseteq Recorded(t)'

LEMMA JobIsKept ==
    ASSUME TypeOK, NEW j \in Jobs, JobSound(j), Kept, job'[j] = job[j]
    PROVE  JobSound(j)'
<1>1. PICK b \in Batches \cup {None} : b = job[j].batch
  BY DEF TypeOK
<1>2. PICK t \in Tables \cup {None} : t = job[j].table
  BY DEF TypeOK
<1>3. job[j].done \in SUBSET Tables
  BY DEF TypeOK
<1>4. ASSUME b # None
      PROVE  /\ batch'[b].state # "NONE"
             /\ \A u \in Tables : Interval(b, u)' = Interval(b, u)
  BY <1>1, <1>4 DEF JobSound, Kept
<1>5. ASSUME b # None, t # None
      PROVE  job'[j].staged = Interval(b, t)'
  BY <1>1, <1>2, <1>4, <1>5 DEF JobSound
<1>6. ASSUME b # None, NEW u \in job[j].done
      PROVE  Interval(b, u)' \subseteq Recorded(u)'
  <2>1. Interval(b, u) \subseteq Recorded(u)
    BY <1>1, <1>6 DEF JobSound
  <2>2. u \in Tables
    BY <1>3
  <2> QED
    BY <1>4, <1>6, <2>1, <2>2 DEF Kept
<1>7. b # None => (job[j].audited => job[j].done = Tables)
  BY <1>1 DEF JobSound
<1> QED
  BY <1>1, <1>2, <1>4, <1>5, <1>6, <1>7 DEF JobSound

LEMMA SameHistory ==
    ASSUME log' = log, NEW t
    PROVE  History(t)' = History(t)
BY DEF History, ChangesIn, Concerning, Before, SameEntity

LEMMA SameInterval ==
    ASSUME log' = log, NEW b, batch'[b].low = batch[b].low, batch'[b].high = batch[b].high, NEW t
    PROVE  Interval(b, t)' = Interval(b, t)
BY SameHistory DEF Interval

LEMMA SameRecorded ==
    ASSUME rows' = rows, NEW t
    PROVE  Recorded(t)' = Recorded(t)
BY DEF Recorded

-----------------------------------------------------------------------------
(* Steps that only move a process                                           *)

LEMMA TablesStay ==
    ASSUME LoadInv, UNCHANGED <<log, batch, order, rows>>
    PROVE  /\ RowsSound' /\ IntervalsSound' /\ PublishedComplete'
           /\ OneRowPerEvent' /\ OpenIsLast' /\ LastIsAbove'
           /\ Kept
<1>1. /\ \A t : History(t)' = History(t) /\ Recorded(t)' = Recorded(t)
      /\ \A b, t : Interval(b, t)' = Interval(b, t)
      /\ Published' = Published
  BY SameHistory, SameRecorded, SameInterval DEF Published
<1>2. RowsSound' /\ IntervalsSound' /\ PublishedComplete'
  BY <1>1 DEF LoadInv, RowsSound, IntervalsSound, PublishedComplete, BelowIsRecorded
<1>3. OneRowPerEvent' /\ OpenIsLast' /\ LastIsAbove'
  BY <1>1 DEF LoadInv, OneRowPerEvent, OpenIsLast, LastIsAbove
<1>4. Kept
  BY <1>1 DEF Kept
<1> QED
  BY <1>2, <1>3, <1>4

LEMMA OthersAreKept ==
    ASSUME LoadInv, Kept, NEW j \in Jobs, \A k \in Jobs \ {j} : job'[k] = job[k], JobSound(j)'
    PROVE  JobsSound'
<1>1. ASSUME NEW k \in Jobs, k # j
      PROVE  JobSound(k)'
  BY <1>1, JobIsKept DEF LoadInv, JobsSound
<1> QED
  BY <1>1 DEF JobsSound

LEMMA IdleIsSound ==
    ASSUME NEW j \in Jobs, job'[j] = Idle
    PROVE  JobSound(j)'
BY DEF JobSound, Idle

LEMMA StartJobStep ==
    ASSUME LoadInv, NEW j \in Jobs, NEW b \in Batches, StartJob(j, b)
    PROVE  JobsSound'
<1>1. Kept
  BY TablesStay DEF StartJob
<1>2. job \in [Jobs -> JobRow]
  BY DEF LoadInv, TypeOK, JobRow
<1>3. /\ \A k \in Jobs \ {j} : job'[k] = job[k]
      /\ job'[j] = [Idle EXCEPT !.batch = b]
  BY <1>2 DEF StartJob
<1>4. batch'[b].state # "NONE"
  BY DEF StartJob, MayLoad
<1>5. JobSound(j)'
  BY <1>3, <1>4 DEF JobSound, Idle
<1> QED
  BY <1>1, <1>3, <1>5, OthersAreKept

LEMMA JobDiesStep ==
    ASSUME LoadInv, NEW j \in Jobs, JobDies(j)
    PROVE  JobsSound'
<1>1. Kept
  BY TablesStay DEF JobDies
<1>2. (\A k \in Jobs \ {j} : job'[k] = job[k]) /\ job'[j] = Idle
  BY DEF JobDies, LoadInv, TypeOK
<1> QED
  BY <1>1, <1>2, IdleIsSound, OthersAreKept

LEMMA StageStep ==
    ASSUME LoadInv, NEW j \in Jobs, NEW t \in Tables, Stage(j, t)
    PROVE  JobsSound'
<1>0. Kept
  BY TablesStay DEF Stage
<1>1. PICK b \in Batches : b = job[j].batch
  BY DEF LoadInv, TypeOK, Stage
<1>2. job \in [Jobs -> JobRow] /\ UNCHANGED <<log, batch, order, rows>>
  BY DEF LoadInv, TypeOK, JobRow, Stage
<1>3. \A k \in Jobs \ {j} : job'[k] = job[k]
  BY <1>2 DEF Stage
<1>4. CASE OutOfOrder(b, t)
  <2>1. job'[j] = Idle
    BY <1>1, <1>2, <1>4 DEF Stage
  <2> QED
    BY <1>0, <1>3, <2>1, IdleIsSound, OthersAreKept
<1>5. CASE ~ OutOfOrder(b, t)
  <2>1. job'[j] = [job[j] EXCEPT !.table = t, !.staged = Filtered(b, t)]
    BY <1>1, <1>2, <1>5 DEF Stage
  <2>2. /\ job'[j].batch = b /\ job'[j].table = t /\ job'[j].staged = Filtered(b, t)
        /\ job'[j].done = job[j].done /\ job'[j].audited = job[j].audited
    BY <1>1, <1>2, <2>1 DEF JobRow
  <2>3. Filtered(b, t) = Interval(b, t)
    BY FilteredIsHistory DEF LoadInv, IntervalsSound
  <2>4. Interval(b, t)' = Interval(b, t)
    BY <1>2, SameInterval
  <2>5. b # None /\ JobSound(j)
    BY RawVaultAssumption DEF LoadInv, JobsSound
  <2>6. batch'[b].state # "NONE" /\ (job[j].audited => job[j].done = Tables)
    BY <1>1, <1>2, <2>5 DEF JobSound
  <2>7. ASSUME NEW u \in job[j].done
        PROVE  Interval(b, u)' \subseteq Recorded(u)'
    <3>1. Interval(b, u) \subseteq Recorded(u)
      BY <1>1, <2>5, <2>7 DEF JobSound
    <3> QED
      BY <1>2, <3>1, SameInterval, SameRecorded
  <2>8. JobSound(j)'
    BY <2>2, <2>3, <2>4, <2>6, <2>7 DEF JobSound
  <2> QED
    BY <1>0, <1>3, <2>8, OthersAreKept
<1> QED
  BY <1>4, <1>5

LEMMA ReconcileStep ==
    ASSUME LoadInv, NEW j \in Jobs, Reconcile(j)
    PROVE  JobsSound'
<1>0. Kept
  BY TablesStay DEF Reconcile
<1>1. PICK b \in Batches \cup {None} : b = job[j].batch
  BY DEF LoadInv, TypeOK
<1>2. job \in [Jobs -> JobRow] /\ UNCHANGED <<log, batch, order, rows>>
  BY DEF LoadInv, TypeOK, JobRow, Reconcile
<1>3. /\ \A k \in Jobs \ {j} : job'[k] = job[k]
      /\ job'[j] = [job[j] EXCEPT !.audited = TRUE]
  BY <1>2 DEF Reconcile
<1>4. /\ job'[j].batch = b /\ job'[j].table = job[j].table /\ job'[j].staged = job[j].staged
      /\ job'[j].done = Tables /\ job[j].done = Tables
  BY <1>1, <1>2, <1>3 DEF JobRow, Reconcile
<1>5. PICK t \in Tables \cup {None} : t = job[j].table
  BY <1>2 DEF JobRow
<1>6. ASSUME b # None
      PROVE  /\ batch'[b].state # "NONE"
             /\ t # None => job[j].staged = Interval(b, t)
             /\ \A u \in Tables : Interval(b, u) \subseteq Recorded(u)
  BY <1>1, <1>2, <1>4, <1>5, <1>6 DEF LoadInv, JobsSound, JobSound
<1>7. \A u : Interval(b, u)' = Interval(b, u) /\ Recorded(u)' = Recorded(u)
  BY <1>2, SameInterval, SameRecorded
<1>8. JobSound(j)'
  BY <1>4, <1>5, <1>6, <1>7 DEF JobSound
<1> QED
  BY <1>0, <1>3, <1>8, OthersAreKept

-----------------------------------------------------------------------------
(* Steps of the control plane                                               *)

(* An open batch gets another state; its interval stays.                    *)
Closes(b, state) ==
    /\ batch[b].state = "OPEN"
    /\ batch' = [batch EXCEPT ![b].state = state]
    /\ UNCHANGED <<log, order, rows>>

LEMMA ClosedBatch ==
    ASSUME LoadInv, NEW b \in Batches, NEW s \in {"PUBLISHED", "SUPERSEDED"}, Closes(b, s)
    PROVE  /\ \A c \in Batches : /\ batch'[c].low = batch[c].low
                                 /\ batch'[c].high = batch[c].high
                                 /\ c # b => batch'[c] = batch[c]
           /\ batch'[b].state = s
BY DEF LoadInv, TypeOK, Closes, BatchRow

LEMMA CloseStep ==
    ASSUME LoadInv, NEW b \in Batches, NEW s \in {"PUBLISHED", "SUPERSEDED"}, Closes(b, s)
    PROVE  /\ RowsSound' /\ IntervalsSound' /\ OneRowPerEvent' /\ OpenIsLast'
           /\ Kept
<1>1. /\ \A c \in Batches : /\ batch'[c].low = batch[c].low
                            /\ batch'[c].high = batch[c].high
                            /\ c # b => batch'[c] = batch[c]
      /\ batch'[b].state = s /\ s # "NONE" /\ s # "OPEN"
  BY ClosedBatch
<1>2. log' = log /\ order' = order /\ rows' = rows /\ batch[b].state = "OPEN"
  BY DEF Closes
<1>3. /\ \A t : History(t)' = History(t) /\ Recorded(t)' = Recorded(t)
      /\ \A c \in Batches, t \in Tables : Interval(c, t)' = Interval(c, t)
  BY <1>1, <1>2, SameHistory, SameRecorded, SameInterval
<1>4. RowsSound'
  <2>1. \A t \in Tables : \A r \in rows[t] : r.batch \in Batches
    BY DEF LoadInv, TypeOK, Row
  <2> QED
    BY <1>1, <1>2, <1>3, <2>1 DEF LoadInv, RowsSound
<1>5. IntervalsSound'
  BY <1>1, <1>2, <1>3 DEF LoadInv, IntervalsSound, BelowIsRecorded
<1>6. OneRowPerEvent' /\ OpenIsLast'
  BY <1>1, <1>2 DEF LoadInv, OneRowPerEvent, OpenIsLast
<1>7. Kept
  BY <1>1, <1>3 DEF Kept
<1> QED
  BY <1>4, <1>5, <1>6, <1>7

LEMMA SupersedeStep ==
    ASSUME LoadInv, NEW b \in Batches, Supersede(b)
    PROVE  PublishedComplete' /\ LastIsAbove' /\ JobsSound' /\ Closes(b, "SUPERSEDED")
<1>0. Closes(b, "SUPERSEDED") /\ job' = job
  BY DEF Supersede, Closes
<1>1. /\ \A c \in Batches : /\ batch'[c].low = batch[c].low
                            /\ batch'[c].high = batch[c].high
                            /\ c # b => batch'[c] = batch[c]
      /\ batch'[b].state = "SUPERSEDED"
  BY <1>0, ClosedBatch
<1>2. log' = log /\ order' = order /\ rows' = rows /\ batch[b].state = "OPEN"
  BY <1>0 DEF Closes
<1>3. Published' = Published
  BY <1>1, <1>2 DEF Published
<1>4. PublishedComplete'
  <2>1. \A t : History(t)' = History(t) /\ Recorded(t)' = Recorded(t)
    BY <1>2, SameHistory, SameRecorded
  <2>2. \A c \in Published : batch'[c].high = batch[c].high
    BY <1>1 DEF Published
  <2> QED
    BY <1>3, <2>1, <2>2 DEF LoadInv, PublishedComplete
<1>5. LastIsAbove'
  <2>1. \A c \in Published : order # <<>>
    BY DEF LoadInv, OpenIsLast, Published
  <2>2. ASSUME order # <<>>
        PROVE  order[Len(order)] \in Batches
    BY <2>2 DEF LoadInv, TypeOK
  <2>3. \A c \in Published : batch'[c].high = batch[c].high /\ c \in Batches
    BY <1>1 DEF Published
  <2>4. \A c \in Published : batch'[order[Len(order)]].low = batch[order[Len(order)]].low
    BY <1>1, <2>1, <2>2
  <2> QED
    BY <1>2, <1>3, <2>3, <2>4 DEF LoadInv, LastIsAbove
<1>6. JobsSound'
  <2>1. Kept
    BY <1>0, CloseStep
  <2>2. \A j \in Jobs : JobSound(j)'
    BY <1>0, <2>1, JobIsKept DEF LoadInv, JobsSound
  <2> QED
    BY <2>2 DEF JobsSound
<1> QED
  BY <1>0, <1>4, <1>5, <1>6

LEMMA PublishStep ==
    ASSUME LoadInv, NEW j \in Jobs, Publish(j)
    PROVE  \E b \in Batches : /\ Closes(b, "PUBLISHED")
                              /\ PublishedComplete' /\ LastIsAbove' /\ JobsSound'
<1>0. job \in [Jobs -> JobRow] /\ None \notin Batches
  BY RawVaultAssumption DEF LoadInv, TypeOK, JobRow
<1>1. job[j].batch # None
  BY DEF LoadInv, IdleWithoutBatch, Publish, Idle
<1>2. PICK b \in Batches : b = job[j].batch
  BY <1>0, <1>1 DEF JobRow
<1>3. Closes(b, "PUBLISHED")
  BY <1>2 DEF Publish, Closes
<1>4. /\ \A c \in Batches : /\ batch'[c].low = batch[c].low
                            /\ batch'[c].high = batch[c].high
                            /\ c # b => batch'[c] = batch[c]
      /\ batch'[b].state = "PUBLISHED"
  BY <1>3, ClosedBatch
<1>5. log' = log /\ order' = order /\ rows' = rows /\ batch[b].state = "OPEN"
  BY <1>3 DEF Closes
<1>6. Published' = Published \cup {b}
  BY <1>4, <1>5 DEF Published
<1>7. \A t : History(t)' = History(t) /\ Recorded(t)' = Recorded(t)
  BY <1>5, SameHistory, SameRecorded
<1>8. \A t \in Tables : Interval(b, t) \subseteq Recorded(t)
  <2>1. job[j].audited
    BY DEF Publish
  <2> QED
    BY <1>1, <1>2, <2>1 DEF LoadInv, JobsSound, JobSound
<1>9. ASSUME NEW t \in Tables, NEW o \in History(t), o <= batch[b].high
      PROVE  o \in Recorded(t)
  <2>1. o \in Nat /\ batch[b].low \in Nat
    BY Offsets DEF LoadInv, TypeOK, BatchRow
  <2>2. CASE o <= batch[b].low
    BY <2>2 DEF LoadInv, IntervalsSound, BelowIsRecorded
  <2>3. CASE batch[b].low < o
    BY <1>8, <1>9, <2>3 DEF Interval
  <2> QED
    BY <2>1, <2>2, <2>3
<1>10. PublishedComplete'
  <2>1. \A c \in Published : batch'[c].high = batch[c].high
    BY <1>4 DEF Published
  <2> QED
    BY <1>4, <1>6, <1>7, <1>9, <2>1 DEF LoadInv, PublishedComplete
<1>11. LastIsAbove'
  <2>1. b = order[Len(order)]
    BY <1>5 DEF LoadInv, OpenIsLast
  <2>2. \A c \in Published : batch'[c].high = batch[c].high
    BY <1>4 DEF Published
  <2> QED
    BY <1>4, <1>5, <1>6, <2>1, <2>2 DEF LoadInv, LastIsAbove
<1>12. JobsSound'
  <2>1. Kept
    BY <1>3, CloseStep
  <2>2. (\A k \in Jobs \ {j} : job'[k] = job[k]) /\ job'[j] = Idle
    BY <1>0 DEF Publish
  <2> QED
    BY <2>1, <2>2, IdleIsSound, OthersAreKept
<1> QED
  BY <1>3, <1>10, <1>11, <1>12

LEMMA SealStep ==
    ASSUME LoadInv, NEW b \in Batches, Seal(b)
    PROVE  /\ RowsSound' /\ IntervalsSound' /\ JobsSound' /\ PublishedComplete'
           /\ OneRowPerEvent' /\ OpenIsLast' /\ LastIsAbove'
<1>0. batch \in [Batches -> BatchRow] /\ order \in Seq(Batches)
  BY DEF LoadInv, TypeOK
<1>1. PICK low \in {0} \cup {batch[c].high : c \in Published}, high \in 0 .. Len(log) :
        /\ \A c \in Published : batch[c].high <= low
        /\ low <= high
        /\ batch' = [batch EXCEPT ![b] = [low |-> low, high |-> high, state |-> "OPEN"]]
  BY DEF Seal
<1>2. /\ batch'[b].low = low /\ batch'[b].high = high /\ batch'[b].state = "OPEN"
      /\ \A c \in Batches : c # b => batch'[c] = batch[c]
  BY <1>0, <1>1
<1>3. /\ log' = log /\ rows' = rows /\ job' = job /\ order' = Append(order, b)
      /\ batch[b].state = "NONE" /\ \A c \in Batches : batch[c].state # "OPEN"
  BY DEF Seal
<1>4. order' # <<>> /\ order'[Len(order')] = b
  BY <1>0, <1>3
<1>5. Published' = Published /\ b \notin Published
  BY <1>2, <1>3 DEF Published
<1>6. \A t : History(t)' = History(t) /\ Recorded(t)' = Recorded(t)
  BY <1>3, SameHistory, SameRecorded
<1>7. Kept
  <2>1. \A c \in Batches, t \in Tables : c # b => Interval(c, t)' = Interval(c, t)
    BY <1>2, <1>3, SameInterval
  <2> QED
    BY <1>2, <1>3, <1>6, <2>1 DEF Kept
<1>8. RowsSound'
  <2>1. \A t \in Tables : \A r \in rows[t] : r.batch \in Batches /\ r.batch # b
    BY <1>3 DEF LoadInv, TypeOK, Row, RowsSound
  <2> QED
    BY <1>2, <1>3, <1>6, <2>1 DEF LoadInv, RowsSound
<1>9. IntervalsSound'
  <2>1. ASSUME NEW t \in Tables, NEW o \in History(t), o <= low
        PROVE  o \in Recorded(t)
    <3>1. o \in Nat /\ 1 <= o
      BY Offsets DEF LoadInv
    <3>2. CASE low = 0
      BY <2>1, <3>1, <3>2
    <3>3. CASE \E c \in Published : low = batch[c].high
      BY <2>1, <3>3 DEF LoadInv, PublishedComplete
    <3> QED
      BY <3>2, <3>3
  <2>2. (BelowIsRecorded(b))'
    BY <1>2, <1>6, <2>1 DEF BelowIsRecorded
  <2>3. ASSUME NEW c \in Batches, c # b
        PROVE  (BelowIsRecorded(c))'
    BY <1>2, <1>6, <2>3 DEF BelowIsRecorded, LoadInv, IntervalsSound
  <2>4. high <= Len(log)
    BY Offsets DEF LoadInv
  <2> QED
    BY <1>1, <1>2, <1>3, <2>2, <2>3, <2>4 DEF LoadInv, IntervalsSound
<1>10. JobsSound'
  <2>1. \A j \in Jobs : JobSound(j)'
    BY <1>3, <1>7, JobIsKept DEF LoadInv, JobsSound
  <2> QED
    BY <2>1 DEF JobsSound
<1>11. \A c \in Published : batch'[c] = batch[c]
  BY <1>2, <1>5 DEF Published
<1>12. PublishedComplete' /\ OneRowPerEvent'
  BY <1>3, <1>5, <1>6, <1>11 DEF LoadInv, PublishedComplete, OneRowPerEvent
<1>13. OpenIsLast' /\ LastIsAbove'
  BY <1>1, <1>2, <1>3, <1>4, <1>5, <1>11 DEF OpenIsLast, LastIsAbove
<1> QED
  BY <1>8, <1>9, <1>10, <1>12, <1>13

-----------------------------------------------------------------------------
(* Bronze grows                                                             *)

(* What has been a change stays one, and nothing before it becomes one.     *)
LEMMA HistoryGrows ==
    ASSUME TypeOK, Produce, NEW t, NEW o \in 1 .. Len(log)
    PROVE  o \in History(t)' <=> o \in History(t)
<1>1. PICK e \in Events : log' = Append(log, e)
  BY DEF Produce
<1>2. /\ Len(log) \in Nat /\ DOMAIN log = 1 .. Len(log)
      /\ DOMAIN log' = 1 .. Len(log) + 1
      /\ \A p \in 1 .. Len(log) : log'[p] = log[p]
  BY <1>1 DEF TypeOK
<1>3. \A p \in 1 .. Len(log) : p \in Concerning(t)' <=> p \in Concerning(t)
  BY <1>2 DEF Concerning
<1>4. ASSUME NEW p
      PROVE  p \in Before(Concerning(t), o)' <=> p \in Before(Concerning(t), o)
  <2>1. ASSUME p \in Concerning(t)' \/ p \in Concerning(t), p < o
        PROVE  p \in 1 .. Len(log)
    <3>1. p \in 1 .. Len(log) + 1
      BY <1>2, <2>1 DEF Concerning
    <3> QED
      BY <1>2, <2>1, <3>1
  <2> QED
    BY <1>2, <1>3, <2>1 DEF Before, SameEntity
<1>5. \A p \in Before(Concerning(t), o) : p \in 1 .. Len(log)
  BY <1>2 DEF Before, Concerning
<1> QED
  BY <1>2, <1>3, <1>4, <1>5 DEF History, ChangesIn

LEMMA ProduceStep ==
    ASSUME LoadInv, Produce
    PROVE  /\ RowsSound' /\ IntervalsSound' /\ JobsSound' /\ PublishedComplete'
           /\ OneRowPerEvent' /\ OpenIsLast' /\ LastIsAbove'
<1>1. /\ Len(log) \in Nat /\ Len(log') = Len(log) + 1
      /\ batch' = batch /\ order' = order /\ rows' = rows /\ job' = job
  BY DEF LoadInv, TypeOK, Produce
<1>2. ASSUME NEW t, NEW o \in History(t)', NEW n \in Nat, o <= n, n <= Len(log)
      PROVE  o \in History(t)
  <2>1. o \in DOMAIN log'
    BY DEF History, ChangesIn, Concerning
  <2>2. PICK e \in Events : log' = Append(log, e)
    BY DEF Produce
  <2>3. o \in 1 .. Len(log) + 1
    BY <2>1, <2>2 DEF LoadInv, TypeOK
  <2>4. o \in 1 .. Len(log)
    BY <1>1, <1>2, <2>3
  <2> QED
    BY <2>4, HistoryGrows DEF LoadInv
<1>3. ASSUME NEW t, NEW o \in History(t)
      PROVE  o \in History(t)'
  <2>1. o \in 1 .. Len(log)
    BY Offsets DEF LoadInv
  <2> QED
    BY <2>1, HistoryGrows DEF LoadInv
<1>4. \A b \in Batches : /\ batch[b].high \in Nat /\ batch[b].low \in Nat
                         /\ batch[b].high <= Len(log) /\ batch[b].low <= Len(log)
  BY <1>1 DEF LoadInv, TypeOK, BatchRow, IntervalsSound
<1>5. \A t : Recorded(t)' = Recorded(t)
  BY <1>1, SameRecorded
<1>6. ASSUME NEW b \in Batches, NEW t
      PROVE  Interval(b, t)' = Interval(b, t)
  <2>1. \A o \in History(t)' : o <= batch[b].high => o \in History(t)
    BY <1>2, <1>4
  <2> QED
    BY <1>1, <1>3, <2>1 DEF Interval
<1>7. Kept /\ Published' = Published
  BY <1>1, <1>5, <1>6 DEF Kept, Published
<1>8. RowsSound'
  BY <1>1, <1>3 DEF LoadInv, RowsSound
<1>9. IntervalsSound'
  <2>1. ASSUME NEW b \in Batches
        PROVE  (BelowIsRecorded(b))'
    <3>1. \A t \in Tables : \A o \in History(t)' : o <= batch[b].low => o \in History(t)
      BY <1>2, <1>4
    <3> QED
      BY <1>1, <1>5, <3>1 DEF BelowIsRecorded, LoadInv, IntervalsSound
  <2>2. \A b \in Batches : batch[b].low <= batch[b].high /\ batch[b].high <= Len(log')
    BY <1>1, <1>4 DEF LoadInv, IntervalsSound
  <2> QED
    BY <1>1, <2>1, <2>2 DEF IntervalsSound
<1>10. PublishedComplete'
  <2>1. ASSUME NEW b \in Published, NEW t \in Tables, NEW o \in History(t)', o <= batch[b].high
        PROVE  o \in Recorded(t)
    <3>1. b \in Batches
      BY DEF Published
    <3>2. o \in History(t)
      BY <1>2, <1>4, <2>1, <3>1
    <3> QED
      BY <2>1, <3>2 DEF LoadInv, PublishedComplete
  <2> QED
    BY <1>1, <1>5, <1>7, <2>1 DEF PublishedComplete
<1>11. JobsSound'
  <2>1. \A j \in Jobs : JobSound(j)'
    BY <1>1, <1>7, JobIsKept DEF LoadInv, JobsSound
  <2> QED
    BY <2>1 DEF JobsSound
<1>12. OneRowPerEvent' /\ OpenIsLast' /\ LastIsAbove'
  BY <1>1, <1>7 DEF LoadInv, OneRowPerEvent, OpenIsLast, LastIsAbove
<1> QED
  BY <1>8, <1>9, <1>10, <1>11, <1>12

-----------------------------------------------------------------------------
(* Rows are merged                                                          *)

(* A merge adds the changes of the batch that are not there, under its id.  *)
Merged(j, b, t) ==
    /\ b = job[j].batch /\ b # None /\ batch[b].state # "NONE"
    /\ \A u \in Tables : u # t => rows'[u] = rows[u]
    /\ rows[t] \subseteq rows'[t]
    /\ \A r \in rows'[t] \ rows[t] :
         r = [event |-> r.event, batch |-> b] /\ r.event \in Interval(b, t) \ Recorded(t)
    /\ Interval(b, t) \subseteq Recorded(t)'
    /\ \A k \in Jobs \ {j} : job'[k] = job[k]
    /\ job'[j] = [batch |-> b, done |-> job[j].done \cup {t}, table |-> None,
                  staged |-> {}, audited |-> job[j].audited]

LEMMA MergeMeans ==
    ASSUME LoadInv, NEW j \in Jobs, Merge(j)
    PROVE  \E b \in Batches, t \in Tables : Merged(j, b, t)
<1>0. /\ job \in [Jobs -> JobRow] /\ rows \in [Tables -> SUBSET Row]
      /\ None \notin Batches /\ None \notin Tables
  BY RawVaultAssumption DEF LoadInv, TypeOK, JobRow
<1>1. job[j].batch # None
  BY DEF LoadInv, IdleWithoutBatch, Merge, Idle
<1>2. PICK b \in Batches : b = job[j].batch
  BY <1>0, <1>1 DEF JobRow
<1>3. PICK t \in Tables : t = job[j].table
  BY <1>0 DEF JobRow, Merge
<1>4. batch[b].state # "NONE" /\ job[j].staged = Interval(b, t)
  BY <1>0, <1>1, <1>2, <1>3 DEF LoadInv, JobsSound, JobSound
<1>5. rows' = [rows EXCEPT ![t] = rows[t] \cup Inserted(j, t)]
  BY <1>3 DEF Merge
<1>6. rows'[t] = rows[t] \cup Inserted(j, t) /\ \A u \in Tables : u # t => rows'[u] = rows[u]
  BY <1>0, <1>5
<1>7. NewRows(j) = {[event |-> o, batch |-> b] : o \in Interval(b, t)}
  BY <1>2, <1>4 DEF NewRows
<1>8. \A r \in Inserted(j, t) :
        r = [event |-> r.event, batch |-> b] /\ r.event \in Interval(b, t) \ Recorded(t)
  BY <1>7 DEF Inserted
<1>9. ASSUME NEW o \in Interval(b, t)
      PROVE  o \in Recorded(t)'
  <2>1. CASE o \in Recorded(t)
    BY <1>6, <2>1 DEF Recorded
  <2>2. CASE o \notin Recorded(t)
    <3>1. [event |-> o, batch |-> b] \in Inserted(j, t)
      BY <1>7, <2>2 DEF Inserted
    <3>2. [event |-> o, batch |-> b] \in rows'[t]
      BY <1>6, <3>1
    <3> QED
      BY <3>2 DEF Recorded
  <2> QED
    BY <2>1, <2>2
<1>10. /\ \A k \in Jobs \ {j} : job'[k] = job[k]
       /\ job'[j] = [batch |-> b, done |-> job[j].done \cup {t}, table |-> None,
                     staged |-> {}, audited |-> job[j].audited]
  BY <1>0, <1>2, <1>3 DEF Merge, JobRow
<1> QED
  BY <1>0, <1>2, <1>3, <1>4, <1>6, <1>8, <1>9, <1>10 DEF Merged

LEMMA MergeStep ==
    ASSUME LoadInv, NEW j \in Jobs, Merge(j)
    PROVE  /\ RowsSound' /\ IntervalsSound' /\ JobsSound' /\ PublishedComplete'
           /\ OneRowPerEvent' /\ OpenIsLast' /\ LastIsAbove'
<1>1. PICK b \in Batches, t \in Tables : Merged(j, b, t)
  BY MergeMeans
<1>2. log' = log /\ batch' = batch /\ order' = order
  BY DEF Merge
<1>3. /\ \A u : History(u)' = History(u)
      /\ \A c, u : Interval(c, u)' = Interval(c, u)
      /\ Published' = Published
  BY <1>2, SameHistory, SameInterval DEF Published
<1>4. \A u \in Tables : rows[u] \subseteq rows'[u]
  BY <1>1 DEF Merged
<1>5. \A u \in Tables : Recorded(u) \subseteq Recorded(u)'
  BY <1>4 DEF Recorded
<1>6. RowsSound'
  <2>1. ASSUME NEW u \in Tables, NEW r \in rows'[u]
        PROVE  /\ r.event \in History(u)
               /\ batch[r.batch].state # "NONE"
               /\ batch[r.batch].low < r.event /\ r.event <= batch[r.batch].high
    <3>1. CASE r \in rows[u]
      BY <3>1 DEF LoadInv, RowsSound
    <3>2. CASE r \notin rows[u]
      <4>1. u = t /\ r.batch = b /\ r.event \in Interval(b, t)
        BY <1>1, <2>1, <3>2 DEF Merged
      <4> QED
        BY <1>1, <4>1 DEF Merged, Interval
    <3> QED
      BY <3>1, <3>2
  <2> QED
    BY <1>2, <1>3, <2>1 DEF RowsSound
<1>7. IntervalsSound' /\ PublishedComplete'
  BY <1>2, <1>3, <1>5 DEF LoadInv, IntervalsSound, BelowIsRecorded, PublishedComplete
<1>8. Kept
  BY <1>2, <1>3, <1>5 DEF Kept
<1>9. JobSound(j)'
  <2>1. \A u \in job[j].done : Interval(b, u) \subseteq Recorded(u)
    BY <1>1 DEF Merged, LoadInv, JobsSound, JobSound
  <2>2. job[j].done \in SUBSET Tables
    BY DEF LoadInv, TypeOK
  <2>3. \A u \in job[j].done \cup {t} : Interval(b, u)' \subseteq Recorded(u)'
    BY <1>1, <1>3, <1>5, <2>1, <2>2 DEF Merged
  <2>4. job[j].audited => job[j].done \cup {t} = Tables
    BY <1>1 DEF Merged, LoadInv, JobsSound, JobSound
  <2> QED
    BY <1>1, <1>2, <2>3, <2>4 DEF Merged, JobSound
<1>10. JobsSound'
  BY <1>1, <1>8, <1>9, OthersAreKept DEF Merged
<1>11. OneRowPerEvent'
  <2>1. ASSUME NEW u \in Tables, NEW r \in rows'[u], NEW s \in rows'[u], r.event = s.event
        PROVE  r = s
    <3>1. CASE r \in rows[u] /\ s \in rows[u]
      BY <2>1, <3>1 DEF LoadInv, OneRowPerEvent
    <3>2. CASE r \notin rows[u] /\ s \in rows[u]
      BY <1>1, <2>1, <3>2 DEF Merged, Recorded
    <3>3. CASE r \in rows[u] /\ s \notin rows[u]
      BY <1>1, <2>1, <3>3 DEF Merged, Recorded
    <3>4. CASE r \notin rows[u] /\ s \notin rows[u]
      <4>1. r = [event |-> r.event, batch |-> b] /\ s = [event |-> s.event, batch |-> b]
        BY <1>1, <3>4 DEF Merged
      <4> QED
        BY <2>1, <4>1
    <3> QED
      BY <3>1, <3>2, <3>3, <3>4
  <2> QED
    BY <2>1 DEF OneRowPerEvent
<1>12. OpenIsLast' /\ LastIsAbove'
  BY <1>2, <1>3 DEF LoadInv, OpenIsLast, LastIsAbove
<1> QED
  BY <1>6, <1>7, <1>10, <1>11, <1>12

-----------------------------------------------------------------------------
(* Theorems                                                                 *)

(* The part of the invariant besides the types.                             *)
Soundness ==
    /\ RowsSound /\ IntervalsSound /\ JobsSound /\ PublishedComplete
    /\ OneRowPerEvent /\ OpenIsLast /\ LastIsAbove

LEMMA LoadStep == LoadInv /\ [Next]_vars => LoadInv'
<1> SUFFICES ASSUME LoadInv, [Next]_vars
             PROVE  Soundness'
  BY TypeStep, IdleStep DEF LoadInv, Soundness
<1>1. CASE Produce
  BY <1>1, ProduceStep DEF Soundness
<1>2. ASSUME NEW b \in Batches, Seal(b)
      PROVE  Soundness'
  BY <1>2, SealStep DEF Soundness
<1>3. ASSUME NEW b \in Batches, Supersede(b)
      PROVE  Soundness'
  BY <1>3, SupersedeStep, CloseStep DEF Soundness
<1>4. ASSUME NEW j \in Jobs, JobDies(j)
      PROVE  Soundness'
  BY <1>4, JobDiesStep, TablesStay DEF Soundness, JobDies
<1>5. ASSUME NEW j \in Jobs, Merge(j)
      PROVE  Soundness'
  BY <1>5, MergeStep DEF Soundness
<1>6. ASSUME NEW j \in Jobs, Reconcile(j)
      PROVE  Soundness'
  BY <1>6, ReconcileStep, TablesStay DEF Soundness, Reconcile
<1>7. ASSUME NEW j \in Jobs, Publish(j)
      PROVE  Soundness'
  <2>1. PICK b \in Batches : Closes(b, "PUBLISHED") /\ PublishedComplete' /\ LastIsAbove' /\ JobsSound'
    BY <1>7, PublishStep
  <2> QED
    BY <2>1, CloseStep DEF Soundness
<1>8. ASSUME NEW j \in Jobs, NEW b \in Batches, StartJob(j, b)
      PROVE  Soundness'
  BY <1>8, StartJobStep, TablesStay DEF Soundness, StartJob
<1>9. ASSUME NEW j \in Jobs, NEW t \in Tables, Stage(j, t)
      PROVE  Soundness'
  BY <1>9, StageStep, TablesStay DEF Soundness, Stage
<1>10. CASE UNCHANGED vars
  <2>1. UNCHANGED <<log, batch, order, rows>> /\ job' = job
    BY <1>10 DEF vars
  <2>2. \A j \in Jobs : JobSound(j)'
    BY <2>1, TablesStay, JobIsKept DEF LoadInv, JobsSound
  <2> QED
    BY <2>1, <2>2, TablesStay DEF Soundness, JobsSound
<1>11. CASE Next
  BY <1>1, <1>2, <1>3, <1>4, <1>5, <1>6, <1>7, <1>8, <1>9, <1>11 DEF Next
<1> QED
  BY <1>10, <1>11

LEMMA LoadSafe == Spec => []LoadInv
<1> QED
  BY LoadInit, LoadStep, PTL DEF Spec

(* Batches, Satellite rows and Spark processes are well formed.             *)
THEOREM SatelliteTypeCorrect == Spec => []TypeOK
<1>1. LoadInv => TypeOK
  BY DEF LoadInv
<1> QED
  BY <1>1, LoadSafe, PTL

(* However the events are cut into batches, and however often a batch is    *)
(* loaded, by however many processes at once, a Satellite holds only        *)
(* changes, and all of them as far as anything is published.                *)
THEOREM SatellitesAreHistory == Spec => []SatelliteIsHistory
<1>1. LoadInv => SatelliteIsHistory
  <2> SUFFICES ASSUME LoadInv, NEW t \in Tables
               PROVE  /\ Recorded(t) \subseteq History(t)
                      /\ \A b \in Published :
                              {o \in History(t) : o <= batch[b].high} \subseteq Recorded(t)
    BY DEF SatelliteIsHistory
  <2>2. Recorded(t) \subseteq History(t)
    BY DEF LoadInv, RowsSound, Recorded
  <2> QED
    BY <2>2 DEF LoadInv, PublishedComplete
<1> QED
  BY <1>1, LoadSafe, PTL

(* MERGE on source_event_id keeps one row per event whoever runs it.        *)
THEOREM EventsHaveOneRow == Spec => []OneRowPerEvent
<1>1. LoadInv => OneRowPerEvent
  BY DEF LoadInv
<1> QED
  BY <1>1, LoadSafe, PTL

(* A process that outlives its batch, or replays it, finds every change up  *)
(* to the published watermark in place and adds nothing there.              *)
THEOREM PublishedRowsStay == Spec => PublishedRowsAreFinal
<1> DEFINE Final == \A t \in Tables, b \in Published :
                       {r \in rows'[t] : r.event <= batch[b].high}
                           = {r \in rows[t] : r.event <= batch[b].high}
<1>1. ASSUME LoadInv, NEW j \in Jobs, Merge(j)
      PROVE  Final
  <2>1. PICK b \in Batches, t \in Tables : Merged(j, b, t)
    BY <1>1, MergeMeans
  <2>2. ASSUME NEW c \in Published, NEW r \in rows'[t] \ rows[t], r.event <= batch[c].high
        PROVE  FALSE
    <3>1. r.event \in History(t) /\ r.event \notin Recorded(t)
      BY <2>1, <2>2 DEF Merged, Interval
    <3> QED
      BY <1>1, <2>2, <3>1 DEF LoadInv, PublishedComplete
  <2> QED
    BY <2>1, <2>2 DEF Merged
<1>2. (rows' = rows) => Final
  OBVIOUS
<1>3. LoadInv /\ [Next]_vars => [Final]_vars
  <2> SUFFICES ASSUME LoadInv, [Next]_vars
               PROVE  Final
    OBVIOUS
  <2> HIDE DEF Final
  <2>1. CASE \E j \in Jobs : Merge(j)
    BY <1>1, <2>1
  <2>2. CASE ~ \E j \in Jobs : Merge(j)
    BY <1>2, <2>2 DEF Next, vars, Produce, Seal, Supersede, StartJob, JobDies, Stage, Reconcile, Publish
  <2> QED
    BY <2>1, <2>2
<1> QED
  BY <1>3, LoadSafe, PTL DEF Spec, PublishedRowsAreFinal

(* The newest batch can be loaded again after any of its own failures: an   *)
(* event that would be out of order belongs to a superseded batch.          *)
THEOREM RetriesAreNeverRefused == Spec => []RetriesAreAccepted
<1>1. LoadInv => RetriesAreAccepted
  <2> SUFFICES ASSUME LoadInv, NEW b \in Batches, NEW t \in Tables, MayLoad(b),
                        batch[b].state \in {"OPEN", "PUBLISHED"}, OutOfOrder(b, t)
                 PROVE  \E r \in rows[t] : batch[r.batch].state = "SUPERSEDED"
    BY DEF RetriesAreAccepted
  <2>2. PICK o \in FirstOfEntity(b, t), r \in rows[t] : r.batch # b /\ o <= r.event
    BY DEF OutOfOrder, PersistedByOthers
  <2>3. PICK c \in Batches : c = r.batch
    BY DEF LoadInv, TypeOK, Row
  <2>4. /\ batch[c].state \in {"OPEN", "PUBLISHED", "SUPERSEDED"}
        /\ batch[c].low < r.event /\ r.event <= batch[c].high
    <3>1. batch[c].state # "NONE"
      BY <2>3 DEF LoadInv, RowsSound
    <3>2. batch[c] \in BatchRow
      BY DEF LoadInv, TypeOK
    <3> QED
      BY <2>3, <3>1, <3>2 DEF LoadInv, RowsSound, BatchRow
  <2>5. b = order[Len(order)]
    BY DEF MayLoad, LoadInv, OpenIsLast
  <2>6. batch[c].state # "OPEN"
    BY <2>2, <2>3, <2>5 DEF LoadInv, OpenIsLast
  <2>7. batch[c].state # "PUBLISHED"
    <3>1. SUFFICES ASSUME batch[c].state = "PUBLISHED" PROVE FALSE
      OBVIOUS
    <3>2. batch[c].high <= batch[b].low
      BY <2>2, <2>3, <2>5, <3>1 DEF LoadInv, LastIsAbove, Published
    <3>3. batch[b].low < o /\ o \in Nat
      <4>1. o \in InBatch(b, t)
        BY DEF FirstOfEntity, Build, ChangesIn
      <4> QED
        BY <4>1, Offsets DEF LoadInv, InBatch
    <3>4. batch[c].high \in Nat /\ batch[b].low \in Nat
      BY DEF LoadInv, TypeOK, BatchRow
    <3>5. r.event \in Nat
      BY DEF LoadInv, TypeOK, Row
    <3> QED
      BY <2>2, <2>4, <3>2, <3>3, <3>4, <3>5
  <2> QED
    BY <2>3, <2>4, <2>6, <2>7
<1> QED
  BY <1>1, LoadSafe, PTL
=============================================================================
