--------------------------- MODULE CurrentGoldProofs ---------------------------
(***************************************************************************)
(* Theorems about the way from the source to the current Gold models, for   *)
(* every history of transactions, number of batches and choice of cuts.     *)
(*                                                                          *)
(* First what the rows of a Satellite are: the changes of state of the      *)
(* source's whole history, as far as the batches go.  Then why a loan never *)
(* loses its context in a batch that is published.  The current rows of     *)
(* what is published are then the source at one moment.                     *)
(***************************************************************************)
EXTENDS CurrentGold, FiniteSetTheorems, SequenceTheorems, WellFoundedInduction,
        TLAPS

-----------------------------------------------------------------------------
(* The invariant                                                            *)

(* Positions are in the order of transactions and of commit times.          *)
Times ==
    /\ \A i \in DOMAIN wal : /\ wal[i].transaction \in DOMAIN TimeOf
                             /\ wal[i].time = TimeOf[wal[i].transaction]
    /\ \A i, k \in DOMAIN wal : i <= k => wal[i].transaction <= wal[k].transaction

(* What a row of each kind may contain.                                     *)
Shape(c) ==
    /\ c.state.status = "ACTIVE" <=> c.state.details # "NULL"
    /\ c.entity \in Customers <=> c.state.context = "NULL"
    /\ c.entity # Lifecycle => c.state.status = "ACTIVE"

Shapes == \A i \in DOMAIN wal : Shape(wal[i])

(* The fixture is set up first.                                             *)
SetupFirst ==
    wal # <<>> => /\ Len(wal) >= 3
                  /\ wal[1].entity = Lifecycle
                  /\ wal[2].entity = Relation
                  /\ wal[3].entity = Application

(* A loan appears in the transaction that approves its application.         *)
LoansAreApproved ==
    \A f \in DOMAIN wal :
        wal[f].entity = Loan /\ (\A k \in Of(DOMAIN wal, Loan) : f <= k) =>
            \E a \in Of(DOMAIN wal, Application) : wal[a].transaction = wal[f].transaction

SourceInv == Times /\ Shapes /\ SetupFirst /\ LoansAreApproved

Sealed(b) == batch[b].state # "NONE"

(* A batch starts where the one published before it ends, and ends in each  *)
(* topic at a change of it.                                                 *)
Cuts ==
    /\ \A b \in Batches : Sealed(b) => \A t \in Topics :
        /\ batch[b].low[t] <= batch[b].high[t]
        /\ batch[b].high[t] <= Len(wal)
        /\ batch[b].high[t] = 0 \/ Topic(wal[batch[b].high[t]].entity) = t
    /\ \A b \in InState("OPEN") :
        /\ \A t \in Topics : batch[b].low[t] = Boundary(t)
        /\ \A c \in InState("OPEN") : c = b

(* The changes of state in the whole history.                               *)
History(s) == StateChanges(Concerning(s), s)

IsPublished(i) == i <= Boundary(Topic(wal[i].entity))

(* A row is a change of its batch's interval.                               *)
RowsSound ==
    \A s \in Satellites : \A r \in rows[s] :
        /\ r.event \in History(s)
        /\ Sealed(r.batch)
        /\ r.event \in InBatch(r.batch)

(* All changes that are published have their rows.                          *)
PublishedComplete ==
    \A s \in Satellites : \A i \in History(s) : IsPublished(i) => i \in Recorded(s)

(* With a change, its transaction and all before it are published.          *)
PublishedClosed ==
    \A i, k \in DOMAIN wal :
        wal[i].transaction <= wal[k].transaction /\ IsPublished(k) => IsPublished(i)

(* The entities of what is published, or loaded by an open batch, have Hubs. *)
HubsComplete ==
    \A i \in DOMAIN wal :
        wal[i].state.status = "ACTIVE" =>
            /\ IsPublished(i) => wal[i].entity \in hubs
            /\ \A b \in InState("OPEN") :
                 "core" \in batch[b].loaded /\ i \in InBatch(b) => wal[i].entity \in hubs

(* So does the loan have a Link, which names its application.               *)
LoanIsLinked ==
    \A i \in Of(DOMAIN wal, Loan) :
        /\ IsPublished(i) => Of(links, Loan) # {}
        /\ \A b \in InState("OPEN") :
             "core" \in batch[b].loaded /\ Balanced(b) /\ i \in InBatch(b) =>
                 Of(links, Loan) # {}

GoldInv ==
    /\ TypeOK /\ SourceInv /\ Cuts /\ RowsSound
    /\ PublishedComplete /\ PublishedClosed /\ HubsComplete /\ LoanIsLinked

-----------------------------------------------------------------------------
(* Sets of positions                                                        *)

LEMMA LeastOf ==
    ASSUME NEW S \in SUBSET Nat, S # {}
    PROVE  \E x \in S : \A y \in S : x <= y
<1> DEFINE R == OpToRel(<, Nat)
<1>1. R = {ss \in Nat \X Nat : ss[1] < ss[2]}
  BY DEF OpToRel
<1>2. \A x, y \in Nat : <<x, y>> \in R <=> x < y
  BY <1>1
<1>3. IsWellFoundedOn(R, Nat)
  BY NatLessThanWellFounded
<1> HIDE DEF R
<1>4. PICK x \in S : \A y \in S : <<y, x>> \notin R
  BY <1>3, WFMin
<1>5. x \in Nat /\ \A y \in S : y \in Nat
  OBVIOUS
<1>6. ASSUME NEW y \in S
      PROVE  x <= y
  <2>1. y \in Nat /\ ~ (y < x)
    BY <1>2, <1>4, <1>5
  <2> QED
    BY <1>5, <2>1
<1> QED
  BY <1>6

(* The maximum of a bounded set, and that nothing else is one.              *)
LEMMA MaxMeans ==
    ASSUME NEW S \in SUBSET Nat, S # {}, NEW n \in Nat, \A x \in S : x <= n
    PROVE  /\ Max(S) \in S /\ Max(S) \in Nat /\ \A y \in S : y <= Max(S)
           /\ \A m \in S : (\A y \in S : y <= m) => m = Max(S)
<1> DEFINE T == {n - x : x \in S}
<1>1. \A x \in S : x \in Nat
  OBVIOUS
<1>2. T \in SUBSET Nat /\ T # {}
  <2>1. ASSUME NEW x \in S
        PROVE  n - x \in Nat
    BY <1>1
  <2> QED
    BY <2>1
<1>3. PICK m \in T : \A k \in T : m <= k
  BY <1>2, LeastOf
<1>4. PICK x \in S : m = n - x
  OBVIOUS
<1>5. \A y \in S : n - x <= n - y
  BY <1>3, <1>4
<1>6. \A y \in S : x >= y
  BY <1>1, <1>5
<1>7. Max(S) \in S /\ \A y \in S : Max(S) >= y
  BY <1>6 DEF Max
<1>8. Max(S) \in Nat /\ \A y \in S : y <= Max(S)
  BY <1>1, <1>7
<1>9. ASSUME NEW k \in S, \A y \in S : y <= k
      PROVE  k = Max(S)
  <2>1. k \in Nat /\ Max(S) <= k /\ k <= Max(S)
    BY <1>1, <1>7, <1>8, <1>9
  <2> QED
    BY <1>8, <2>1
<1> QED
  BY <1>7, <1>8, <1>9

LEMMA AtMostThree ==
    ASSUME NEW x, NEW y, NEW z
    PROVE  Cardinality({x, y, z}) # 4
<1>1. IsFiniteSet({x}) /\ Cardinality({x}) = 1
  BY FS_Singleton
<1>2. {x, y} = {x} \cup {y} /\ {x, y, z} = {x, y} \cup {z}
  OBVIOUS
<1>3. IsFiniteSet({x, y}) /\ Cardinality({x, y}) \in {1, 2}
  BY <1>1, <1>2, FS_AddElement
<1>4. Cardinality({x, y, z}) \in {1, 2, 3}
  BY <1>2, <1>3, FS_AddElement
<1> QED
  BY <1>4

LEMMA EntitiesDiffer ==
    /\ Lifecycle # Relation /\ Lifecycle # Application /\ Lifecycle # Loan
    /\ Relation # Application /\ Relation # Loan /\ Application # Loan
<1>1. Cardinality({Lifecycle, Relation, Application, Loan}) = 4
  BY GoldAssumption DEF Entities
<1>2. ASSUME Lifecycle = Relation \/ Lifecycle = Application \/ Lifecycle = Loan
      PROVE  FALSE
  <2>1. {Lifecycle, Relation, Application, Loan} = {Relation, Application, Loan}
    BY <1>2
  <2> QED
    BY <1>1, <2>1, AtMostThree
<1>3. ASSUME Relation = Application \/ Relation = Loan
      PROVE  FALSE
  <2>1. {Lifecycle, Relation, Application, Loan} = {Lifecycle, Application, Loan}
    BY <1>3
  <2> QED
    BY <1>1, <2>1, AtMostThree
<1>4. ASSUME Application = Loan
      PROVE  FALSE
  <2>1. {Lifecycle, Relation, Application, Loan} = {Lifecycle, Relation, Loan}
    BY <1>4
  <2> QED
    BY <1>1, <2>1, AtMostThree
<1> QED
  BY <1>2, <1>3, <1>4

LEMMA TopicType ==
    /\ \A x : Topic(x) \in Topics
    /\ Topic(Application) = "loan_applications" /\ Topic(Loan) = "loans"
    /\ \A c \in Customers : Topic(c) = "customers"
BY EntitiesDiffer DEF Topic, Topics, Customers

LEMMA PositionType ==
    ASSUME TypeOK
    PROVE  /\ Len(wal) \in Nat /\ DOMAIN wal = 1 .. Len(wal)
           /\ \A i \in DOMAIN wal : i \in Nat /\ i \in 1 .. Len(wal) /\ wal[i] \in Change
<1>1. wal \in Seq(Change)
  BY DEF TypeOK
<1>2. Len(wal) \in Nat /\ DOMAIN wal = 1 .. Len(wal)
  BY <1>1
<1>3. \A i \in 1 .. Len(wal) : i \in Nat
  BY <1>2
<1> QED
  BY <1>1, <1>2, <1>3

LEMMA BatchType ==
    ASSUME TypeOK, NEW b \in Batches
    PROVE  /\ batch[b].low \in [Topics -> Nat] /\ batch[b].high \in [Topics -> Nat]
           /\ \A t \in Topics : batch[b].low[t] \in Nat /\ batch[b].high[t] \in Nat
           /\ batch[b].loaded \in SUBSET Phases
           /\ batch[b].state \in {"NONE", "OPEN", "PUBLISHED", "SUPERSEDED"}
BY DEF TypeOK, BatchRow

(* The last of an entity's positions in a set.                              *)
LEMMA LastMeans ==
    ASSUME TypeOK, NEW S \in SUBSET DOMAIN wal, NEW x, Of(S, x) # {}
    PROVE  /\ Max(Of(S, x)) \in S /\ wal[Max(Of(S, x))].entity = x
           /\ \A y \in Of(S, x) : y <= Max(Of(S, x))
           /\ \A m \in Of(S, x) : (\A y \in Of(S, x) : y <= m) => m = Max(Of(S, x))
<1>1. Of(S, x) \in SUBSET Nat /\ \A y \in Of(S, x) : y <= Len(wal)
  BY PositionType DEF Of
<1>2. Len(wal) \in Nat
  BY PositionType
<1> DEFINE O == Of(S, x)
<1>3. /\ Max(O) \in O /\ \A y \in O : y <= Max(O)
      /\ \A m \in O : (\A y \in O : y <= m) => m = Max(O)
  <2> HIDE DEF O
  <2>1. O \in SUBSET Nat /\ O # {} /\ \A y \in O : y <= Len(wal)
    BY <1>1 DEF O
  <2> QED
    BY <1>2, <2>1, MaxMeans
<1> QED
  BY <1>3 DEF Of

-----------------------------------------------------------------------------
(* Changes of state                                                         *)

Before(S, i) == {k \in S : k < i /\ wal[k].entity = wal[i].entity}
IsLastBefore(S, i, q) == q \in Before(S, i) /\ \A r \in Before(S, i) : r <= q

(* The last position of an entity before another, if there is any.          *)
LEMMA HasLast ==
    ASSUME TypeOK, NEW S \in SUBSET DOMAIN wal, NEW i, Before(S, i) # {}
    PROVE  /\ IsLastBefore(S, i, Max(Before(S, i)))
           /\ \A q : IsLastBefore(S, i, q) => q = Max(Before(S, i))
<1> DEFINE B == Before(S, i)
<1>1. B \in SUBSET Nat /\ B # {} /\ \A y \in B : y <= Len(wal)
  BY PositionType DEF Before
<1>2. Len(wal) \in Nat
  BY PositionType
<1>3. /\ Max(B) \in B /\ \A y \in B : y <= Max(B)
      /\ \A m \in B : (\A y \in B : y <= m) => m = Max(B)
  <2> HIDE DEF B
  <2> QED
    BY <1>1, <1>2, MaxMeans
<1> QED
  BY <1>3 DEF IsLastBefore

LEMMA ChangesMeans ==
    ASSUME TypeOK, NEW S \in SUBSET DOMAIN wal, NEW s, NEW i
    PROVE  i \in StateChanges(S, s) <=>
             i \in S /\ \A q : IsLastBefore(S, i, q) => wal[q].state[s] # wal[i].state[s]
<1>1. i \in StateChanges(S, s) <=>
        /\ i \in S
        /\ Before(S, i) = {} \/ wal[Max(Before(S, i))].state[s] # wal[i].state[s]
  BY DEF StateChanges, Before
<1>2. CASE Before(S, i) = {}
  BY <1>1, <1>2 DEF IsLastBefore
<1>3. CASE Before(S, i) # {}
  <2>1. /\ IsLastBefore(S, i, Max(Before(S, i)))
        /\ \A q : IsLastBefore(S, i, q) => q = Max(Before(S, i))
    BY <1>3, HasLast
  <2> QED
    BY <1>1, <1>3, <2>1
<1> QED
  BY <1>2, <1>3

LEMMA HistoryType ==
    ASSUME TypeOK, NEW s
    PROVE  /\ Concerning(s) \subseteq DOMAIN wal /\ History(s) \subseteq Concerning(s)
           /\ \A i \in Concerning(s) : i \in Nat
BY PositionType DEF History, StateChanges, Concerning

(* At every position the state of its entity is the one the last change     *)
(* left.                                                                    *)
LEMMA ChangeBehindState ==
    ASSUME TypeOK, NEW s, NEW o \in Concerning(s)
    PROVE  \E h \in History(s) :
             /\ h <= o /\ wal[h].entity = wal[o].entity /\ wal[h].state[s] = wal[o].state[s]
             /\ \A g \in History(s) : wal[g].entity = wal[o].entity /\ g <= o => g <= h
<1> DEFINE Behind(p, h) ==
             /\ h <= p /\ wal[h].entity = wal[p].entity /\ wal[h].state[s] = wal[p].state[s]
             /\ \A g \in History(s) : wal[g].entity = wal[p].entity /\ g <= p => g <= h
           Bad == {p \in Concerning(s) : ~ \E h \in History(s) : Behind(p, h)}
<1>1. SUFFICES ASSUME Bad # {} PROVE FALSE
  OBVIOUS
<1>2. Bad \in SUBSET Nat
  BY HistoryType
<1>3. PICK p \in Bad : \A q \in Bad : p <= q
  BY <1>1, <1>2, LeastOf
<1>4. p \in Concerning(s) /\ p \in Nat
  BY HistoryType
<1>5. p \notin History(s)
  <2>1. SUFFICES ASSUME p \in History(s) PROVE Behind(p, p)
    BY <1>3
  <2> QED
    BY <1>4
<1>6. PICK q : IsLastBefore(Concerning(s), p, q) /\ wal[q].state[s] = wal[p].state[s]
  <2>1. Concerning(s) \in SUBSET DOMAIN wal
    BY HistoryType
  <2> QED
    BY <1>4, <1>5, <2>1, ChangesMeans DEF History
<1>7. q \in Concerning(s) /\ q \in Nat /\ q < p /\ wal[q].entity = wal[p].entity
  BY <1>6, HistoryType DEF IsLastBefore, Before
<1>8. q \notin Bad
  BY <1>3, <1>4, <1>7
<1>9. PICK h \in History(s) : Behind(q, h)
  BY <1>7, <1>8
<1>10. h \in Nat /\ \A g \in History(s) : g \in Nat /\ g \in Concerning(s)
  BY HistoryType
<1>11. ASSUME NEW g \in History(s), wal[g].entity = wal[p].entity, g <= p
       PROVE  g <= h
  <2>1. g < p
    BY <1>4, <1>5, <1>10, <1>11
  <2>2. g <= q
    BY <1>6, <1>10, <1>11, <2>1 DEF IsLastBefore, Before
  <2> QED
    BY <1>7, <1>9, <1>11, <2>2
<1>12. Behind(p, h)
  BY <1>4, <1>6, <1>7, <1>9, <1>10, <1>11
<1> QED
  BY <1>3, <1>12

(* Whether a position is a change can be told from the changes before it.   *)
LEMMA ChangesDecide ==
    ASSUME TypeOK, NEW s, NEW o \in Concerning(s)
    PROVE  o \in History(s) <=>
             \A q : IsLastBefore(History(s), o, q) => wal[q].state[s] # wal[o].state[s]
<1>0. /\ o \in Nat /\ \A p \in Concerning(s) : p \in Nat
      /\ History(s) \subseteq Concerning(s) /\ Concerning(s) \in SUBSET DOMAIN wal
  BY HistoryType
<1>1. ASSUME NEW p, IsLastBefore(Concerning(s), o, p)
      PROVE  \E h : /\ IsLastBefore(History(s), o, h)
                    /\ wal[h].state[s] = wal[p].state[s]
  <2>1. p \in Concerning(s) /\ p < o /\ wal[p].entity = wal[o].entity
    BY <1>1 DEF IsLastBefore, Before
  <2>2. PICK h \in History(s) :
          /\ h <= p /\ wal[h].entity = wal[p].entity /\ wal[h].state[s] = wal[p].state[s]
          /\ \A g \in History(s) : wal[g].entity = wal[p].entity /\ g <= p => g <= h
    BY <2>1, ChangeBehindState
  <2>3. h \in Before(History(s), o)
    <3>1. h \in Nat /\ p \in Nat
      BY <1>0, <2>1
    <3>2. h < o
      BY <1>0, <2>1, <2>2, <3>1
    <3> QED
      BY <2>1, <2>2, <3>2 DEF Before
  <2>4. ASSUME NEW g \in Before(History(s), o)
        PROVE  g <= h
    <3>1. g \in History(s) /\ wal[g].entity = wal[o].entity /\ g \in Before(Concerning(s), o)
      BY <1>0, <2>4 DEF Before
    <3>2. g <= p
      BY <1>1, <3>1 DEF IsLastBefore
    <3> QED
      BY <2>1, <2>2, <3>1, <3>2
  <2> QED
    BY <2>2, <2>3, <2>4 DEF IsLastBefore
<1>2. ASSUME NEW q, IsLastBefore(History(s), o, q)
      PROVE  \E p : /\ IsLastBefore(Concerning(s), o, p)
                    /\ wal[q].state[s] = wal[p].state[s]
  <2>1. Before(Concerning(s), o) # {}
    BY <1>0, <1>2 DEF IsLastBefore, Before
  <2>2. PICK p : IsLastBefore(Concerning(s), o, p)
    BY <1>0, <2>1, HasLast
  <2>3. PICK h : IsLastBefore(History(s), o, h) /\ wal[h].state[s] = wal[p].state[s]
    BY <1>1, <2>2
  <2>4. h = q
    <3>1. h \in Nat /\ q \in Nat
      BY <1>0, <1>2, <2>3 DEF IsLastBefore, Before
    <3>2. h <= q /\ q <= h
      BY <1>2, <2>3 DEF IsLastBefore
    <3> QED
      BY <3>1, <3>2
  <2> QED
    BY <2>2, <2>3, <2>4
<1>3. o \in History(s) <=>
        \A p : IsLastBefore(Concerning(s), o, p) => wal[p].state[s] # wal[o].state[s]
  BY <1>0, ChangesMeans DEF History
<1> QED
  BY <1>1, <1>2, <1>3

-----------------------------------------------------------------------------
(* What a batch loads                                                       *)

(* The changes of a batch that reach a Satellite.                           *)
Share(b, s) == {i \in InBatch(b) \cap Concerning(s) : s = "context" => Resolved(b, i)}

(* The changes of state among them, seen from the whole history.            *)
Due(b, s) == {i \in History(s) \cap InBatch(b) : s = "context" => Resolved(b, i)}

(* Where a batch starts, the Satellites have everything before.             *)
BelowIsRecorded(b) ==
    \A s \in Satellites : \A i \in History(s) :
        i <= batch[b].low[Topic(wal[i].entity)] => i \in Recorded(s)

LEMMA InBatchMeans ==
    ASSUME TypeOK, NEW b \in Batches, NEW i
    PROVE  i \in InBatch(b) <=>
             /\ i \in DOMAIN wal
             /\ batch[b].low[Topic(wal[i].entity)] < i
             /\ i <= batch[b].high[Topic(wal[i].entity)]
BY DEF InBatch

LEMMA ShareType ==
    ASSUME TypeOK, NEW b \in Batches, NEW s
    PROVE  /\ Share(b, s) \in SUBSET DOMAIN wal /\ Share(b, s) \subseteq Concerning(s)
           /\ Share(b, s) \subseteq InBatch(b)
           /\ \A i \in Share(b, s) : i \in Nat
           /\ Staged(b, s) = StateChanges(Share(b, s), s) /\ Staged(b, s) \subseteq Share(b, s)
           /\ Due(b, s) \subseteq Share(b, s)
<1>1. Share(b, s) \in SUBSET DOMAIN wal /\ Share(b, s) \subseteq Concerning(s)
      /\ Share(b, s) \subseteq InBatch(b)
  BY HistoryType DEF Share
<1>2. Staged(b, s) = StateChanges(Share(b, s), s)
  BY DEF Staged, Share
<1>3. Staged(b, s) \subseteq Share(b, s)
  BY <1>2 DEF StateChanges
<1>4. Due(b, s) \subseteq Share(b, s)
  BY HistoryType DEF Due, Share
<1> QED
  BY <1>1, <1>2, <1>3, <1>4, HistoryType

(* A change of the same entity as one in the share is in it too, if it is   *)
(* in the batch.                                                            *)
LEMMA ShareIsClosed ==
    ASSUME TypeOK, NEW b \in Batches, NEW s, NEW o \in Share(b, s),
           NEW q \in Concerning(s), wal[q].entity = wal[o].entity, q \in InBatch(b)
    PROVE  q \in Share(b, s)
BY DEF Share, Resolved

LEMMA OthersHoldThePast ==
    ASSUME TypeOK, RowsSound, NEW b \in Batches, BelowIsRecorded(b), NEW s \in Satellites,
           NEW o \in Share(b, s), Before(Share(b, s), o) = {}
    PROVE  Before(RecordedByOthers(b, s) \cup {o}, o) = Before(History(s), o)
<1>0. /\ o \in Nat /\ o \in InBatch(b) /\ \A p \in Concerning(s) : p \in Nat
      /\ History(s) \subseteq Concerning(s) /\ Concerning(s) \subseteq DOMAIN wal
  BY ShareType, HistoryType
<1>1. ASSUME NEW q \in Before(RecordedByOthers(b, s) \cup {o}, o)
      PROVE  q \in Before(History(s), o)
  <2>1. q \in RecordedByOthers(b, s) \cup {o} /\ q < o /\ wal[q].entity = wal[o].entity
    BY <1>1 DEF Before
  <2>2. q \in RecordedByOthers(b, s)
    BY <1>0, <2>1
  <2>3. q \in History(s)
    BY <2>2 DEF RecordedByOthers, RowsSound
  <2> QED
    BY <2>1, <2>3 DEF Before
<1>2. ASSUME NEW q \in Before(History(s), o)
      PROVE  q \in Before(RecordedByOthers(b, s) \cup {o}, o)
  <2>1. q \in History(s) /\ q \in Concerning(s) /\ q < o /\ wal[q].entity = wal[o].entity
    BY <1>0, <1>2 DEF Before
  <2>2. q \notin InBatch(b)
    <3>1. SUFFICES ASSUME q \in InBatch(b) PROVE FALSE
      OBVIOUS
    <3>2. q \in Share(b, s)
      BY <2>1, <3>1, ShareIsClosed
    <3> QED
      BY <2>1, <3>2 DEF Before
  <2> DEFINE t == Topic(wal[o].entity)
  <2>3. q \in Nat /\ q \in DOMAIN wal /\ batch[b].low[t] \in Nat /\ batch[b].high[t] \in Nat
    BY <1>0, <2>1, BatchType, TopicType
  <2>4. batch[b].low[t] < o /\ o <= batch[b].high[t]
    BY <1>0, InBatchMeans
  <2>5. ~ (batch[b].low[t] < q /\ q <= batch[b].high[t])
    BY <2>1, <2>2, <2>3, InBatchMeans
  <2>6. q <= batch[b].low[Topic(wal[q].entity)]
    <3> HIDE DEF t
    <3>1. q <= batch[b].low[t]
      BY <1>0, <2>1, <2>3, <2>4, <2>5
    <3> QED
      BY <2>1, <3>1 DEF t
  <2>7. q \in Recorded(s)
    BY <2>1, <2>6 DEF BelowIsRecorded
  <2>8. PICK r \in rows[s] : q = r.event
    BY <2>7 DEF Recorded
  <2>9. r.batch # b
    BY <2>2, <2>8 DEF RowsSound
  <2>10. q \in RecordedByOthers(b, s)
    BY <2>8, <2>9 DEF RecordedByOthers
  <2> QED
    BY <2>1, <2>10 DEF Before
<1> QED
  BY <1>1, <1>2

(* After the first change of an entity the batch sees what the history sees. *)
LEMMA BatchSeesTheLast ==
    ASSUME TypeOK, NEW b \in Batches, NEW s,
           NEW o \in Share(b, s), Before(Share(b, s), o) # {}, NEW q
    PROVE  IsLastBefore(Share(b, s), o, q) <=> IsLastBefore(Concerning(s), o, q)
<1> DEFINE l == Max(Before(Share(b, s), o))
<1>0. /\ o \in Nat /\ o \in InBatch(b) /\ o \in Concerning(s)
      /\ \A p \in Concerning(s) : p \in Nat
      /\ Concerning(s) \in SUBSET DOMAIN wal /\ Share(b, s) \in SUBSET DOMAIN wal
      /\ Share(b, s) \subseteq Concerning(s) /\ Share(b, s) \subseteq InBatch(b)
  BY ShareType, HistoryType
<1>1. /\ IsLastBefore(Share(b, s), o, l)
      /\ \A p : IsLastBefore(Share(b, s), o, p) => p = l
  BY <1>0, HasLast
<1> HIDE DEF l
<1>2. l \in Share(b, s) /\ l \in Nat /\ l < o /\ wal[l].entity = wal[o].entity
  BY <1>0, <1>1 DEF IsLastBefore, Before
<1>3. ASSUME NEW r \in Before(Concerning(s), o)
      PROVE  r <= l
  <2>1. r \in Concerning(s) /\ r \in Nat /\ r < o /\ wal[r].entity = wal[o].entity
    BY <1>0, <1>3 DEF Before
  <2> DEFINE t == Topic(wal[o].entity)
  <2>2. r \in DOMAIN wal /\ batch[b].low[t] \in Nat /\ batch[b].high[t] \in Nat
    BY <1>0, <2>1, BatchType, TopicType
  <2>3. batch[b].low[t] < l /\ o <= batch[b].high[t]
    BY <1>0, <1>2, InBatchMeans
  <2>4. CASE r \in InBatch(b)
    <3>1. r \in Before(Share(b, s), o)
      BY <2>1, <2>4, ShareIsClosed DEF Before
    <3> QED
      BY <1>1, <3>1 DEF IsLastBefore
  <2>5. CASE r \notin InBatch(b)
    <3>1. ~ (batch[b].low[t] < r /\ r <= batch[b].high[t])
      BY <2>1, <2>2, <2>5, InBatchMeans
    <3> HIDE DEF t
    <3> QED
      BY <1>0, <1>2, <2>1, <2>2, <2>3, <3>1
  <2> QED
    BY <2>4, <2>5
<1>4. l \in Before(Concerning(s), o)
  BY <1>0, <1>2 DEF Before
<1>5. IsLastBefore(Concerning(s), o, l)
  BY <1>3, <1>4 DEF IsLastBefore
<1>6. ASSUME IsLastBefore(Concerning(s), o, q)
      PROVE  q = l
  <2>1. q \in Nat
    BY <1>0, <1>6 DEF IsLastBefore, Before
  <2>2. q <= l /\ l <= q
    BY <1>5, <1>6 DEF IsLastBefore
  <2> QED
    BY <1>2, <2>1, <2>2
<1> QED
  BY <1>1, <1>5, <1>6

(* Then the batch has staged an earlier row of the entity.                  *)
LEMMA NotTheFirst ==
    ASSUME TypeOK, NEW b \in Batches, NEW s,
           NEW o \in Share(b, s), Before(Share(b, s), o) # {}
    PROVE  ~ IsFirst(o, Staged(b, s))
<1> DEFINE S == Share(b, s)
<1>0. S \in SUBSET DOMAIN wal /\ \A p \in S : p \in Nat
  BY ShareType
<1>1. Staged(b, s) = StateChanges(S, s) /\ o \in S /\ Before(S, o) # {}
  BY ShareType
<1> HIDE DEF S
<1>2. Before(S, o) \in SUBSET Nat
  BY <1>0 DEF Before
<1>3. PICK m \in Before(S, o) : \A r \in Before(S, o) : m <= r
  BY <1>1, <1>2, LeastOf
<1>4. m \in S /\ m < o /\ wal[m].entity = wal[o].entity /\ m \in Nat /\ o \in Nat
  BY <1>0, <1>1, <1>3 DEF Before
<1>5. \A q : ~ IsLastBefore(S, m, q)
  <2>1. SUFFICES ASSUME NEW r \in Before(S, m) PROVE FALSE
    BY DEF IsLastBefore
  <2>2. r \in S /\ r < m /\ wal[r].entity = wal[m].entity /\ r \in Nat
    BY <1>0, <2>1 DEF Before
  <2>3. r < o
    BY <1>4, <2>2
  <2>4. r \in Before(S, o)
    BY <1>4, <2>2, <2>3 DEF Before
  <2>5. m <= r
    BY <1>3, <2>4
  <2> QED
    BY <1>4, <2>2, <2>5
<1>6. m \in StateChanges(S, s)
  BY <1>0, <1>4, <1>5, ChangesMeans
<1> QED
  BY <1>1, <1>4, <1>6 DEF IsFirst

(* filter_against_persisted_state keeps exactly the changes: what a batch   *)
(* loads is its share of the changes of the whole history.                  *)
LEMMA FilteredIsHistory ==
    ASSUME TypeOK, RowsSound, NEW b \in Batches, BelowIsRecorded(b), NEW s \in Satellites
    PROVE  Filtered(b, s) = Due(b, s)
<1>0. /\ Share(b, s) \in SUBSET DOMAIN wal /\ Share(b, s) \subseteq Concerning(s)
      /\ Staged(b, s) = StateChanges(Share(b, s), s) /\ Staged(b, s) \subseteq Share(b, s)
      /\ Due(b, s) \subseteq Share(b, s) /\ Filtered(b, s) \subseteq Share(b, s)
      /\ Concerning(s) \in SUBSET DOMAIN wal /\ History(s) \subseteq Concerning(s)
      /\ \A p \in Concerning(s) : p \in Nat
  BY ShareType, HistoryType DEF Filtered
<1>1. ASSUME NEW o \in Share(b, s)
      PROVE  o \in Filtered(b, s) <=> o \in Due(b, s)
  <2>1. o \in Due(b, s) <=> o \in History(s)
    BY DEF Due, Share
  <2>2. CASE Before(Share(b, s), o) = {}
    <3> DEFINE P == RecordedByOthers(b, s) \cup {o}
    <3>1. o \in Staged(b, s)
      BY <1>0, <2>2, ChangesMeans DEF IsLastBefore
    <3>2. IsFirst(o, Staged(b, s))
      <4>1. SUFFICES ASSUME NEW k \in Staged(b, s), wal[k].entity = wal[o].entity PROVE o <= k
        BY DEF IsFirst
      <4>2. k \in Nat /\ o \in Nat /\ k \in Share(b, s)
        BY <1>0
      <4>3. ~ (k < o)
        BY <2>2, <4>1, <4>2 DEF Before
      <4> QED
        BY <4>2, <4>3
    <3>3. o \in Filtered(b, s) <=> o \in StateChanges(P, s)
      BY <3>1, <3>2 DEF Filtered
    <3>4. Before(P, o) = Before(History(s), o)
      BY <2>2, OthersHoldThePast
    <3>5. P \in SUBSET DOMAIN wal /\ o \in P
      BY <1>0 DEF RecordedByOthers, RowsSound
    <3> HIDE DEF P
    <3>6. o \in StateChanges(P, s) <=>
            \A q : IsLastBefore(P, o, q) => wal[q].state[s] # wal[o].state[s]
      BY <3>5, ChangesMeans
    <3>7. \A q : IsLastBefore(P, o, q) <=> IsLastBefore(History(s), o, q)
      BY <3>4 DEF IsLastBefore
    <3>8. o \in History(s) <=>
            \A q : IsLastBefore(History(s), o, q) => wal[q].state[s] # wal[o].state[s]
      BY <1>0, ChangesDecide
    <3> QED
      BY <2>1, <3>3, <3>6, <3>7, <3>8
  <2>3. CASE Before(Share(b, s), o) # {}
    <3>1. ~ IsFirst(o, Staged(b, s))
      BY <2>3, NotTheFirst
    <3>2. o \in Filtered(b, s) <=> o \in Staged(b, s)
      BY <3>1 DEF Filtered
    <3>3. \A q : IsLastBefore(Share(b, s), o, q) <=> IsLastBefore(Concerning(s), o, q)
      BY <2>3, BatchSeesTheLast
    <3>4. o \in Staged(b, s) <=>
            \A q : IsLastBefore(Share(b, s), o, q) => wal[q].state[s] # wal[o].state[s]
      BY <1>0, ChangesMeans
    <3>5. o \in History(s) <=>
            \A q : IsLastBefore(Concerning(s), o, q) => wal[q].state[s] # wal[o].state[s]
      BY <1>0, ChangesMeans DEF History
    <3> QED
      BY <2>1, <3>2, <3>3, <3>4, <3>5
  <2> QED
    BY <2>2, <2>3
<1> QED
  BY <1>0, <1>1

-----------------------------------------------------------------------------
(* Boundaries                                                               *)

LEMMA BoundaryMeans ==
    ASSUME TypeOK, Cuts, NEW t \in Topics
    PROVE  /\ Boundary(t) \in Nat /\ Boundary(t) <= Len(wal)
           /\ \A b \in InState("PUBLISHED") : batch[b].high[t] <= Boundary(t)
           /\ Boundary(t) = 0 \/ Topic(wal[Boundary(t)].entity) = t
<1> DEFINE S == {0} \cup {batch[b].high[t] : b \in InState("PUBLISHED")}
<1>1. \A b \in InState("PUBLISHED") :
        batch[b].high[t] \in Nat /\ batch[b].high[t] <= Len(wal)
  BY BatchType DEF Cuts, Sealed, InState
<1>2. Len(wal) \in Nat
  BY PositionType
<1>3. S \in SUBSET Nat /\ S # {} /\ \A x \in S : x <= Len(wal)
  BY <1>1, <1>2
<1>4. Boundary(t) = Max(S)
  BY DEF Boundary
<1>5. /\ \A b \in InState("PUBLISHED") : batch[b].high[t] \in S
      /\ \A x \in S : x = 0 \/ \E b \in InState("PUBLISHED") : x = batch[b].high[t]
  OBVIOUS
<1> HIDE DEF S
<1>6. Max(S) \in S /\ Max(S) \in Nat /\ \A y \in S : y <= Max(S)
  BY <1>2, <1>3, MaxMeans
<1>7. \A b \in InState("PUBLISHED") :
        batch[b].high[t] = 0 \/ Topic(wal[batch[b].high[t]].entity) = t
  BY DEF Cuts, Sealed, InState
<1>8. Boundary(t) = 0 \/ Topic(wal[Boundary(t)].entity) = t
  BY <1>4, <1>5, <1>6, <1>7
<1> QED
  BY <1>3, <1>4, <1>5, <1>6, <1>8

LEMMA NothingIsPublished ==
    ASSUME InState("PUBLISHED") = {}, NEW t \in Topics
    PROVE  Boundary(t) = 0
<1>1. {0} \cup {batch[b].high[t] : b \in InState("PUBLISHED")} = {0}
  OBVIOUS
<1>2. Max({0}) = 0
  BY DEF Max
<1> QED
  BY <1>1, <1>2 DEF Boundary

LEMMA BoundaryStays ==
    ASSUME InState("PUBLISHED")' = InState("PUBLISHED"), NEW t \in Topics,
           \A b \in InState("PUBLISHED") : batch'[b].high = batch[b].high
    PROVE  Boundary(t)' = Boundary(t)
<1>1. {batch'[b].high[t] : b \in InState("PUBLISHED")'}
        = {batch[b].high[t] : b \in InState("PUBLISHED")}
  OBVIOUS
<1> QED
  BY <1>1 DEF Boundary

LEMMA PublishMoves ==
    ASSUME GoldInv, NEW b \in Batches, Publish(b), NEW t \in Topics
    PROVE  Boundary(t)' = batch[b].high[t]
<1> USE DEF GoldInv
<1>1. /\ \A c \in Batches : batch'[c].high = batch[c].high
      /\ InState("PUBLISHED")' = InState("PUBLISHED") \cup {b}
      /\ b \in InState("OPEN")
  BY DEF Publish, TypeOK, BatchRow, InState
<1> DEFINE S == {0} \cup {batch'[c].high[t] : c \in InState("PUBLISHED")'}
           top == batch[b].high[t]
<1>2. top \in Nat /\ batch[b].low[t] \in Nat
  BY BatchType
<1>3. Boundary(t) \in Nat /\ Boundary(t) <= top
  <2>1. batch[b].low[t] = Boundary(t) /\ batch[b].low[t] <= top
    BY <1>1 DEF Cuts, Sealed, InState
  <2> QED
    BY <1>2, <2>1
<1>4. \A c \in InState("PUBLISHED") : batch[c].high[t] \in Nat /\ batch[c].high[t] <= top
  <2>1. ASSUME NEW c \in InState("PUBLISHED")
        PROVE  batch[c].high[t] \in Nat /\ batch[c].high[t] <= top
    <3>1. c \in Batches /\ batch[c].high[t] <= Boundary(t)
      BY BoundaryMeans DEF InState
    <3>2. batch[c].high[t] \in Nat
      BY <3>1, BatchType
    <3> QED
      BY <1>2, <1>3, <3>1, <3>2
  <2> QED
    BY <2>1
<1>5. top \in S /\ S \in SUBSET Nat /\ \A x \in S : x <= top
  <2>1. \A c \in InState("PUBLISHED")' : batch'[c].high = batch[c].high
    BY <1>1 DEF InState
  <2>2. ASSUME NEW x \in S
        PROVE  x \in Nat /\ x <= top
    <3>1. CASE x = 0
      BY <1>2, <3>1
    <3>2. CASE \E c \in InState("PUBLISHED")' : x = batch'[c].high[t]
      BY <1>1, <1>2, <1>4, <2>1, <3>2
    <3> QED
      BY <3>1, <3>2
  <2>3. top \in S
    BY <1>1
  <2> HIDE DEF S
  <2> QED
    BY <2>2, <2>3
<1>6. Boundary(t)' = Max(S)
  BY DEF Boundary
<1> HIDE DEF S, top
<1>7. top = Max(S)
  BY <1>2, <1>5, MaxMeans
<1> QED
  BY <1>6, <1>7 DEF top

-----------------------------------------------------------------------------
(* Steps that leave the source and the cuts alone                           *)

SameCuts ==
    /\ wal' = wal
    /\ \A c \in Batches : batch'[c].low = batch[c].low /\ batch'[c].high = batch[c].high

SameStates == \A c \in Batches : batch'[c].state = batch[c].state

LEMMA SameWal ==
    ASSUME wal' = wal
    PROVE  /\ \A s : Concerning(s)' = Concerning(s) /\ History(s)' = History(s)
           /\ \A x : Of(DOMAIN wal, x)' = Of(DOMAIN wal, x)
           /\ SourceInv' <=> SourceInv
<1>1. \A s : Concerning(s)' = Concerning(s) /\ History(s)' = History(s)
  BY DEF Concerning, History, StateChanges
<1>2. \A x : Of(DOMAIN wal, x)' = Of(DOMAIN wal, x)
  BY DEF Of
<1>3. SourceInv' <=> SourceInv
  BY DEF SourceInv, Times, Shapes, SetupFirst, LoansAreApproved, Of
<1> QED
  BY <1>1, <1>2, <1>3

LEMMA SameBatch ==
    ASSUME wal' = wal, NEW b, batch'[b].low = batch[b].low, batch'[b].high = batch[b].high
    PROVE  InBatch(b)' = InBatch(b) /\ (Balanced(b)' <=> Balanced(b))
<1>1. InBatch(b)' = InBatch(b)
  BY DEF InBatch
<1>2. Balanced(b)' <=> Balanced(b)
  BY <1>1 DEF Balanced
<1> QED
  BY <1>1, <1>2

LEMMA SameInState ==
    ASSUME SameStates
    PROVE  \A x : InState(x)' = InState(x)
BY DEF SameStates, InState

LEMMA FrameStep ==
    ASSUME GoldInv, SameCuts, SameStates
    PROVE  /\ SourceInv' /\ Cuts' /\ PublishedClosed'
           /\ \A s : History(s)' = History(s)
           /\ \A b \in Batches : InBatch(b)' = InBatch(b) /\ (Balanced(b)' <=> Balanced(b))
           /\ \A i \in DOMAIN wal : IsPublished(i)' <=> IsPublished(i)
           /\ \A x : InState(x)' = InState(x)
           /\ \A b \in Batches : Sealed(b)' <=> Sealed(b)
<1> USE DEF GoldInv
<1>1. SourceInv' /\ \A s : History(s)' = History(s)
  BY SameWal DEF SameCuts
<1>2. \A b \in Batches : InBatch(b)' = InBatch(b) /\ (Balanced(b)' <=> Balanced(b))
  BY SameBatch DEF SameCuts
<1>3. \A x : InState(x)' = InState(x)
  BY SameInState
<1>4. \A t \in Topics : Boundary(t)' = Boundary(t)
  BY <1>3, BoundaryStays DEF SameCuts, InState
<1>5. \A i \in DOMAIN wal : IsPublished(i)' <=> IsPublished(i)
  BY <1>4, TopicType DEF IsPublished, SameCuts
<1>6. \A b \in Batches : Sealed(b)' <=> Sealed(b)
  BY DEF Sealed, SameStates
<1>7. PublishedClosed'
  BY <1>5 DEF PublishedClosed, SameCuts
<1>8. Cuts'
  <2>1. \A b \in Batches : Sealed(b)' => \A t \in Topics :
          /\ batch'[b].low[t] <= batch'[b].high[t]
          /\ batch'[b].high[t] <= Len(wal')
          /\ batch'[b].high[t] = 0 \/ Topic(wal'[batch'[b].high[t]].entity) = t
    BY <1>6 DEF Cuts, SameCuts
  <2>2. \A b \in InState("OPEN")' :
          /\ \A t \in Topics : batch'[b].low[t] = Boundary(t)'
          /\ \A c \in InState("OPEN")' : c = b
    <3>1. ASSUME NEW b \in InState("OPEN")
          PROVE  /\ \A t \in Topics : batch'[b].low[t] = Boundary(t)'
                 /\ \A c \in InState("OPEN") : c = b
      <4>1. batch'[b].low = batch[b].low
        BY DEF SameCuts, InState
      <4> QED
        BY <1>4, <4>1 DEF Cuts
    <3> QED
      BY <1>3, <3>1
  <2> QED
    BY <2>1, <2>2 DEF Cuts
<1> QED
  BY <1>1, <1>2, <1>3, <1>5, <1>6, <1>7, <1>8

-----------------------------------------------------------------------------
(* The source commits                                                       *)

LEMMA TransactionsType ==
    ASSUME TypeOK, Times
    PROVE  /\ Transactions \in Nat
           /\ \A i \in DOMAIN wal : /\ wal[i].transaction \in Nat
                                    /\ wal[i].transaction <= Transactions
<1>1. CASE wal = <<>>
  BY <1>1 DEF Transactions
<1>2. CASE wal # <<>>
  <2>1. Len(wal) \in DOMAIN wal /\ \A i \in DOMAIN wal : i <= Len(wal)
    BY <1>2, PositionType DEF TypeOK
  <2>2. \A i \in DOMAIN wal : wal[i].transaction \in Nat
    BY PositionType DEF Change
  <2>3. \A i \in DOMAIN wal : wal[i].transaction <= wal[Len(wal)].transaction
    BY <2>1 DEF Times
  <2> QED
    BY <1>2, <2>1, <2>2, <2>3 DEF Transactions
<1> QED
  BY <1>1, <1>2

LEMMA CommitMeans ==
    ASSUME TypeOK, Times, NEW changes \in Seq(Entities \X State), Commit(changes)
    PROVE  /\ Transactions + 1 \in DOMAIN TimeOf
           /\ wal' \in Seq(Change)
           /\ Len(wal') = Len(wal) + Len(changes)
           /\ \A i \in DOMAIN wal : i \in DOMAIN wal' /\ wal'[i] = wal[i]
           /\ \A j \in DOMAIN changes :
                /\ Len(wal) + j \in DOMAIN wal'
                /\ wal'[Len(wal) + j].entity = changes[j][1]
                /\ wal'[Len(wal) + j].state = changes[j][2]
                /\ wal'[Len(wal) + j].transaction = Transactions + 1
                /\ wal'[Len(wal) + j].time = TimeOf[Transactions + 1]
           /\ \A i \in DOMAIN wal' \ DOMAIN wal :
                \E j \in DOMAIN changes : i = Len(wal) + j
<1> DEFINE n == Transactions + 1
           row(j) == [entity |-> changes[j][1], state |-> changes[j][2],
                      transaction |-> n, time |-> TimeOf[n]]
           more == [j \in DOMAIN changes |-> row(j)]
<1>1. n \in 1 .. Len(TimeOf) /\ TimeOf \in Seq(Nat) /\ n \in Nat
  BY TransactionsType, GoldAssumption DEF Commit
<1>2. n \in DOMAIN TimeOf /\ TimeOf[n] \in Nat
  BY <1>1
<1>3. DOMAIN changes = 1 .. Len(changes) /\ Len(changes) \in Nat
  OBVIOUS
<1>4. \A j \in DOMAIN changes : row(j) \in Change
  <2> HIDE DEF n
  <2>1. ASSUME NEW j \in DOMAIN changes
        PROVE  changes[j][1] \in Entities /\ changes[j][2] \in State
    <3>1. changes[j] \in Entities \X State
      OBVIOUS
    <3> QED
      BY <3>1
  <2> QED
    BY <1>1, <1>2, <2>1 DEF Change
<1>12. \A j \in DOMAIN changes :
         /\ row(j).entity = changes[j][1] /\ row(j).state = changes[j][2]
         /\ row(j).transaction = n /\ row(j).time = TimeOf[n]
  OBVIOUS
<1>5. wal' = wal \o more
  BY DEF Commit
<1> HIDE DEF row, n
<1>6. more \in Seq(Change) /\ Len(more) = Len(changes) /\ \A j \in DOMAIN changes : more[j] = row(j)
  BY <1>3, <1>4
<1> HIDE DEF more
<1>7. wal \in Seq(Change) /\ Len(wal) \in Nat /\ DOMAIN wal = 1 .. Len(wal)
  BY PositionType DEF TypeOK
<1>8. /\ wal' \in Seq(Change) /\ Len(wal') = Len(wal) + Len(changes)
      /\ DOMAIN wal' = 1 .. Len(wal) + Len(changes)
  BY <1>3, <1>5, <1>6, <1>7, ConcatProperties
<1>9. \A i \in DOMAIN wal : i \in DOMAIN wal' /\ wal'[i] = wal[i]
  BY <1>3, <1>5, <1>6, <1>7, <1>8, ConcatProperties
<1>10. ASSUME NEW j \in DOMAIN changes
       PROVE  Len(wal) + j \in DOMAIN wal' /\ wal'[Len(wal) + j] = row(j)
  <2>1. j \in Nat /\ 1 <= j /\ j <= Len(changes)
    BY <1>3
  <2>2. Len(wal) + j \in 1 .. Len(wal) + Len(changes) /\ ~ (Len(wal) + j <= Len(wal))
        /\ Len(wal) + j - Len(wal) = j
    BY <1>3, <1>7, <2>1
  <2>3. wal'[Len(wal) + j] = more[Len(wal) + j - Len(wal)]
    BY <1>5, <1>6, <1>7, <2>2, ConcatProperties
  <2> QED
    BY <1>6, <1>8, <2>2, <2>3
<1>11. ASSUME NEW i \in DOMAIN wal' \ DOMAIN wal
       PROVE  \E j \in DOMAIN changes : i = Len(wal) + j
  <2>1. i - Len(wal) \in 1 .. Len(changes) /\ i = Len(wal) + (i - Len(wal))
    BY <1>3, <1>7, <1>8
  <2> QED
    BY <1>3, <2>1
<1> QED
  BY <1>2, <1>8, <1>9, <1>10, <1>11, <1>12 DEF n

(* What the changes of one transaction must be like.                        *)
Sound(changes) ==
    /\ \A j \in DOMAIN changes : Shape([entity |-> changes[j][1], state |-> changes[j][2]])
    /\ wal = <<>> => /\ Len(changes) = 3 /\ changes[1][1] = Lifecycle
                     /\ changes[2][1] = Relation /\ changes[3][1] = Application
    /\ \A j \in DOMAIN changes : changes[j][1] = Loan =>
         \/ Of(DOMAIN wal, Loan) # {}
         \/ \E m \in DOMAIN changes : changes[m][1] = Application

LEMMA CommitKeepsSource ==
    ASSUME GoldInv, NEW changes \in Seq(Entities \X State), Sound(changes), Commit(changes)
    PROVE  SourceInv'
<1> USE DEF GoldInv, SourceInv
<1> DEFINE n == Transactions + 1
<1>0. /\ n \in DOMAIN TimeOf /\ n \in Nat
      /\ \A i \in DOMAIN wal : wal[i].transaction \in Nat /\ wal[i].transaction < n
  BY CommitMeans, TransactionsType
<1>1. /\ Len(wal') = Len(wal) + Len(changes)
      /\ \A i \in DOMAIN wal : i \in DOMAIN wal' /\ wal'[i] = wal[i]
      /\ \A j \in DOMAIN changes :
           /\ Len(wal) + j \in DOMAIN wal'
           /\ wal'[Len(wal) + j].entity = changes[j][1]
           /\ wal'[Len(wal) + j].state = changes[j][2]
           /\ wal'[Len(wal) + j].transaction = n
           /\ wal'[Len(wal) + j].time = TimeOf[n]
      /\ \A i \in DOMAIN wal' \ DOMAIN wal : \E j \in DOMAIN changes : i = Len(wal) + j
  BY CommitMeans
<1> HIDE DEF n
<1>2. /\ Len(wal) \in Nat /\ DOMAIN wal = 1 .. Len(wal)
      /\ \A i \in DOMAIN wal : i \in Nat /\ i <= Len(wal)
      /\ DOMAIN changes = 1 .. Len(changes) /\ Len(changes) \in Nat
      /\ \A j \in DOMAIN changes : j \in Nat /\ j >= 1
  BY PositionType
<1>3. Times'
  <2>1. ASSUME NEW i \in DOMAIN wal'
        PROVE  wal'[i].transaction \in DOMAIN TimeOf /\ wal'[i].time = TimeOf[wal'[i].transaction]
    <3>1. CASE i \in DOMAIN wal
      BY <1>1, <3>1 DEF Times
    <3>2. CASE i \notin DOMAIN wal
      <4>1. PICK j \in DOMAIN changes : i = Len(wal) + j
        BY <1>1, <3>2
      <4>2. wal'[i].transaction = n /\ wal'[i].time = TimeOf[n]
        BY <1>1, <4>1
      <4> QED
        BY <1>0, <4>2
    <3> QED
      BY <3>1, <3>2
  <2>2. ASSUME NEW i \in DOMAIN wal', NEW k \in DOMAIN wal', i <= k
        PROVE  wal'[i].transaction <= wal'[k].transaction
    <3>1. CASE k \in DOMAIN wal
      <4>1. i \in DOMAIN wal
        <5>1. SUFFICES ASSUME i \notin DOMAIN wal PROVE FALSE
          OBVIOUS
        <5>2. PICK j \in DOMAIN changes : i = Len(wal) + j
          BY <1>1, <5>1
        <5> QED
          BY <1>2, <2>2, <3>1, <5>2
      <4> QED
        BY <1>1, <2>2, <3>1, <4>1 DEF Times
    <3>2. CASE k \notin DOMAIN wal
      <4>1. PICK j \in DOMAIN changes : k = Len(wal) + j
        BY <1>1, <3>2
      <4>2. wal'[k].transaction = n
        BY <1>1, <4>1
      <4>3. CASE i \in DOMAIN wal
        BY <1>0, <1>1, <4>2, <4>3
      <4>4. CASE i \notin DOMAIN wal
        <5>1. PICK h \in DOMAIN changes : i = Len(wal) + h
          BY <1>1, <4>4
        <5>2. wal'[i].transaction = n
          BY <1>1, <5>1
        <5> QED
          BY <1>0, <4>2, <5>2
      <4> QED
        BY <4>3, <4>4
    <3> QED
      BY <3>1, <3>2
  <2> QED
    BY <2>1, <2>2 DEF Times
<1>4. Shapes'
  <2>1. ASSUME NEW i \in DOMAIN wal'
        PROVE  Shape(wal'[i])
    <3>1. CASE i \in DOMAIN wal
      BY <1>1, <3>1 DEF Shapes
    <3>2. CASE i \notin DOMAIN wal
      <4>1. PICK j \in DOMAIN changes : i = Len(wal) + j
        BY <1>1, <3>2
      <4>2. wal'[i].entity = changes[j][1] /\ wal'[i].state = changes[j][2]
        BY <1>1, <4>1
      <4>3. Shape([entity |-> changes[j][1], state |-> changes[j][2]])
        BY DEF Sound
      <4> QED
        BY <4>2, <4>3 DEF Shape
    <3> QED
      BY <3>1, <3>2
  <2>2. \A i \in DOMAIN wal' : Shape(wal'[i])
    BY <2>1
  <2> QED
    BY <2>2 DEF Shapes, Shape
<1>5. SetupFirst'
  <2>1. CASE wal = <<>>
    <3>1. /\ Len(changes) = 3 /\ changes[1][1] = Lifecycle
          /\ changes[2][1] = Relation /\ changes[3][1] = Application
      BY <2>1 DEF Sound
    <3>2. Len(wal) = 0
      BY <2>1
    <3>3. ASSUME NEW j \in {1, 2, 3}
          PROVE  wal'[j].entity = changes[j][1]
      <4>1. j \in DOMAIN changes /\ Len(wal) + j = j
        BY <1>2, <3>1, <3>2
      <4>2. wal'[Len(wal) + j].entity = changes[j][1]
        BY <1>1, <4>1
      <4> QED
        BY <4>1, <4>2
    <3>4. Len(wal') >= 3
      BY <1>1, <3>1, <3>2
    <3> QED
      BY <3>1, <3>3, <3>4 DEF SetupFirst
  <2>2. CASE wal # <<>>
    <3>1. /\ Len(wal) >= 3 /\ wal[1].entity = Lifecycle
          /\ wal[2].entity = Relation /\ wal[3].entity = Application
      BY <2>2 DEF SetupFirst
    <3>2. 1 \in DOMAIN wal /\ 2 \in DOMAIN wal /\ 3 \in DOMAIN wal
      BY <1>2, <3>1
    <3>3. wal'[1] = wal[1] /\ wal'[2] = wal[2] /\ wal'[3] = wal[3] /\ Len(wal') >= 3
      BY <1>1, <1>2, <3>1, <3>2
    <3> QED
      BY <3>1, <3>3 DEF SetupFirst
  <2> QED
    BY <2>1, <2>2
<1>6. LoansAreApproved'
  <2> SUFFICES ASSUME NEW f \in DOMAIN wal', wal'[f].entity = Loan,
                      \A k \in Of(DOMAIN wal, Loan)' : f <= k
               PROVE  \E a \in Of(DOMAIN wal, Application)' :
                          wal'[a].transaction = wal'[f].transaction
    BY DEF LoansAreApproved
  <2>1. \A x : Of(DOMAIN wal, x) \subseteq Of(DOMAIN wal, x)'
    BY <1>1 DEF Of
  <2>2. CASE f \in DOMAIN wal
    <3>1. wal[f].entity = Loan /\ \A k \in Of(DOMAIN wal, Loan) : f <= k
      BY <1>1, <2>1, <2>2
    <3>2. PICK a \in Of(DOMAIN wal, Application) : wal[a].transaction = wal[f].transaction
      BY <2>2, <3>1 DEF LoansAreApproved
    <3>3. wal'[a] = wal[a] /\ wal'[f] = wal[f]
      BY <1>1, <2>2, <3>2 DEF Of
    <3> QED
      BY <2>1, <3>2, <3>3
  <2>3. CASE f \notin DOMAIN wal
    <3>1. PICK j \in DOMAIN changes : f = Len(wal) + j
      BY <1>1, <2>3
    <3>2. changes[j][1] = Loan /\ wal'[f].transaction = n
      BY <1>1, <3>1
    <3>3. Of(DOMAIN wal, Loan) = {}
      <4>1. SUFFICES ASSUME NEW k \in Of(DOMAIN wal, Loan) PROVE FALSE
        OBVIOUS
      <4>2. k \in DOMAIN wal /\ f <= k
        BY <2>1, <4>1 DEF Of
      <4> QED
        BY <1>2, <3>1, <4>2
    <3>4. PICK m \in DOMAIN changes : changes[m][1] = Application
      BY <3>2, <3>3 DEF Sound
    <3>5. /\ Len(wal) + m \in DOMAIN wal'
          /\ wal'[Len(wal) + m].entity = Application /\ wal'[Len(wal) + m].transaction = n
      BY <1>1, <3>4
    <3>6. Len(wal) + m \in Of(DOMAIN wal, Application)'
      BY <3>5 DEF Of
    <3> QED
      BY <3>2, <3>5, <3>6
  <2> QED
    BY <2>2, <2>3
<1> QED
  BY <1>3, <1>4, <1>5, <1>6

(* The history only grows at its end: what is in it, in a batch, or         *)
(* published, stays so.                                                     *)
Grows ==
    /\ \A i \in DOMAIN wal : i \in DOMAIN wal' /\ wal'[i] = wal[i]
    /\ \A i \in DOMAIN wal' \ DOMAIN wal : i > Len(wal) /\ i \in Nat
    /\ \A i \in DOMAIN wal' \ DOMAIN wal, k \in DOMAIN wal :
         ~ (wal'[i].transaction <= wal[k].transaction)

LEMMA CommitGrows ==
    ASSUME GoldInv, NEW changes \in Seq(Entities \X State), Commit(changes)
    PROVE  Grows
<1> USE DEF GoldInv, SourceInv
<1>1. ASSUME NEW i \in DOMAIN wal' \ DOMAIN wal
      PROVE  i > Len(wal) /\ i \in Nat /\ wal'[i].transaction = Transactions + 1
  <2>1. PICK j \in DOMAIN changes : i = Len(wal) + j
    BY CommitMeans
  <2>2. j \in Nat /\ j >= 1 /\ Len(wal) \in Nat
    BY PositionType
  <2>3. wal'[i].transaction = Transactions + 1
    BY <2>1, CommitMeans
  <2> QED
    BY <2>1, <2>2, <2>3
<1>2. ASSUME NEW i \in DOMAIN wal' \ DOMAIN wal, NEW k \in DOMAIN wal
      PROVE  ~ (wal'[i].transaction <= wal[k].transaction)
  <2>1. /\ Transactions \in Nat /\ wal[k].transaction \in Nat
        /\ wal[k].transaction <= Transactions
    BY TransactionsType
  <2> QED
    BY <1>1, <2>1
<1>3. \A i \in DOMAIN wal : i \in DOMAIN wal' /\ wal'[i] = wal[i]
  BY CommitMeans
<1> QED
  BY <1>1, <1>2, <1>3 DEF Grows

LEMMA HistoryGrows ==
    ASSUME TypeOK, TypeOK', Grows, NEW s, NEW i \in DOMAIN wal
    PROVE  /\ i \in Concerning(s)' <=> i \in Concerning(s)
           /\ i \in History(s)' <=> i \in History(s)
<1>1. \A k \in DOMAIN wal : k \in Concerning(s)' <=> k \in Concerning(s)
  BY DEF Grows, Concerning
<1> DEFINE old == {k \in Concerning(s) : k < i /\ wal[k].entity = wal[i].entity}
           new == {k \in Concerning(s)' : k < i /\ wal'[k].entity = wal'[i].entity}
<1>2. ASSUME NEW k \in Concerning(s)', k < i
      PROVE  k \in DOMAIN wal
  <2>1. k \in DOMAIN wal'
    BY DEF Concerning
  <2>2. ~ (k > Len(wal) /\ k \in Nat)
    BY <1>2, PositionType
  <2> QED
    BY <2>1, <2>2 DEF Grows
<1>3. Concerning(s) \subseteq DOMAIN wal
  BY DEF Concerning
<1>4. new = old
  BY <1>1, <1>2, <1>3 DEF Grows
<1>5. i \in History(s) <=>
        /\ i \in Concerning(s)
        /\ old = {} \/ wal[Max(old)].state[s] # wal[i].state[s]
  BY DEF History, StateChanges
<1>6. i \in History(s)' <=>
        /\ i \in Concerning(s)'
        /\ new = {} \/ wal'[Max(new)].state[s] # wal'[i].state[s]
  BY DEF History, StateChanges
<1>7. old # {} => Max(old) \in DOMAIN wal
  <2>1. SUFFICES ASSUME old # {} PROVE Max(old) \in DOMAIN wal
    OBVIOUS
  <2>2. old \in SUBSET Nat /\ Len(wal) \in Nat /\ \A k \in old : k <= Len(wal)
    BY <1>3, PositionType
  <2>3. old \subseteq DOMAIN wal
    BY <1>3
  <2> HIDE DEF old
  <2>4. Max(old) \in old
    BY <2>1, <2>2, MaxMeans
  <2> QED
    BY <2>3, <2>4
<1> HIDE DEF old, new
<1>8. wal'[i] = wal[i] /\ \A k \in DOMAIN wal : wal'[k] = wal[k]
  BY DEF Grows
<1> QED
  BY <1>1, <1>4, <1>5, <1>6, <1>7, <1>8

LEMMA CommitStep ==
    ASSUME GoldInv, NEW changes \in Seq(Entities \X State), Sound(changes), Commit(changes)
    PROVE  GoldInv'
<1> USE DEF GoldInv
<1>1. batch' = batch /\ hubs' = hubs /\ links' = links /\ rows' = rows
  BY DEF Commit
<1>2. SourceInv'
  BY CommitKeepsSource
<1>3. wal' \in Seq(Change) /\ Grows /\ Len(wal) <= Len(wal')
  <2>1. Len(wal') = Len(wal) + Len(changes) /\ Len(changes) \in Nat /\ Len(wal) \in Nat
    BY CommitMeans, PositionType DEF SourceInv
  <2>2. wal' \in Seq(Change) /\ Grows
    BY CommitMeans, CommitGrows DEF SourceInv
  <2> QED
    BY <2>1, <2>2
<1>4. TypeOK'
  <2>1. links' \subseteq DOMAIN wal'
    BY <1>1, <1>3 DEF TypeOK, Grows
  <2> QED
    BY <1>1, <1>3, <2>1 DEF TypeOK
<1>5. /\ \A x : InState(x)' = InState(x)
      /\ \A b : Sealed(b)' <=> Sealed(b)
      /\ \A t \in Topics : Boundary(t)' = Boundary(t)
      /\ \A s : Recorded(s)' = Recorded(s)
  <2>1. \A x : InState(x)' = InState(x)
    BY <1>1 DEF InState
  <2> QED
    BY <1>1, <2>1, BoundaryStays DEF Sealed, Recorded
<1>6. \A i \in DOMAIN wal : i \in DOMAIN wal' /\ wal'[i] = wal[i]
  BY <1>3 DEF Grows
<1>7. ASSUME NEW i \in DOMAIN wal'
      PROVE  IsPublished(i)' <=> i \in DOMAIN wal /\ IsPublished(i)
  <2>1. CASE i \in DOMAIN wal
    BY <1>5, <1>6, <2>1, TopicType DEF IsPublished
  <2>2. CASE i \notin DOMAIN wal
    <3>1. PICK u \in Topics : u = Topic(wal'[i].entity)
      BY TopicType
    <3>2. i > Len(wal) /\ i \in Nat /\ Len(wal) \in Nat
      BY <1>3, <2>2, PositionType DEF Grows
    <3>3. Boundary(u)' = Boundary(u) /\ Boundary(u) \in Nat /\ Boundary(u) <= Len(wal)
      BY <1>5, <3>1, BoundaryMeans
    <3>4. IsPublished(i)' <=> i <= Boundary(u)'
      BY <3>1 DEF IsPublished
    <3> QED
      BY <2>2, <3>2, <3>3, <3>4
  <2> QED
    BY <2>1, <2>2
<1>8. ASSUME NEW b \in Batches, Sealed(b)
      PROVE  InBatch(b)' = InBatch(b)
  <2>1. ASSUME NEW i \in DOMAIN wal' \ DOMAIN wal
        PROVE  i \notin InBatch(b)'
    <3> DEFINE t == Topic(wal'[i].entity)
    <3>1. i > Len(wal) /\ i \in Nat /\ t \in Topics /\ Len(wal) \in Nat
      BY <1>3, TopicType, PositionType DEF Grows
    <3>2. batch[b].high[t] \in Nat /\ batch[b].high[t] <= Len(wal)
      BY <1>8, <3>1, BatchType DEF Cuts
    <3>3. i \in InBatch(b)' => i <= batch[b].high[t]
      BY <1>1 DEF InBatch
    <3> HIDE DEF t
    <3> QED
      BY <3>1, <3>2, <3>3
  <2>2. ASSUME NEW i \in DOMAIN wal
        PROVE  i \in InBatch(b)' <=> i \in InBatch(b)
    BY <1>1, <1>6 DEF InBatch
  <2>3. InBatch(b)' \subseteq DOMAIN wal' /\ InBatch(b) \subseteq DOMAIN wal
    BY DEF InBatch
  <2> QED
    BY <2>1, <2>2, <2>3
<1>9. ASSUME NEW b \in Batches, Sealed(b), Balanced(b)'
      PROVE  Balanced(b)
  <2>1. ASSUME NEW i \in DOMAIN wal, NEW k \in InBatch(b),
               wal[i].transaction <= wal[k].transaction
        PROVE  i <= batch[b].high[Topic(wal[i].entity)]
    <3>1. k \in DOMAIN wal /\ k \in InBatch(b)'
      BY <1>8, <1>9 DEF InBatch
    <3>2. wal'[i] = wal[i] /\ wal'[k] = wal[k] /\ i \in DOMAIN wal'
      BY <1>6, <3>1
    <3>3. i <= batch'[b].high[Topic(wal'[i].entity)]
      BY <1>9, <2>1, <3>1, <3>2 DEF Balanced
    <3> QED
      BY <1>1, <3>2, <3>3
  <2> QED
    BY <2>1 DEF Balanced
<1>10. Cuts'
  <2>1. \A b \in Batches : Sealed(b) => \A t \in Topics :
          /\ batch[b].high[t] <= Len(wal')
          /\ batch[b].high[t] = 0 \/ Topic(wal'[batch[b].high[t]].entity) = t
    <3> SUFFICES ASSUME NEW b \in Batches, Sealed(b), NEW t \in Topics
                 PROVE  /\ batch[b].high[t] <= Len(wal')
                        /\ batch[b].high[t] = 0 \/ Topic(wal'[batch[b].high[t]].entity) = t
      OBVIOUS
    <3>1. /\ batch[b].high[t] \in Nat /\ batch[b].high[t] <= Len(wal)
          /\ batch[b].high[t] = 0 \/ Topic(wal[batch[b].high[t]].entity) = t
          /\ Len(wal) \in Nat /\ DOMAIN wal = 1 .. Len(wal)
      BY BatchType, PositionType DEF Cuts
    <3>2. Len(wal') \in Nat
      BY <1>3
    <3>3. batch[b].high[t] <= Len(wal')
      BY <1>3, <3>1, <3>2
    <3>4. batch[b].high[t] # 0 => batch[b].high[t] \in DOMAIN wal
      BY <3>1
    <3> QED
      BY <1>6, <3>1, <3>3, <3>4
  <2>2. \A b \in InState("OPEN") :
          /\ \A t \in Topics : batch[b].low[t] = Boundary(t)'
          /\ \A c \in InState("OPEN") : c = b
    BY <1>5 DEF Cuts
  <2> QED
    BY <1>1, <1>5, <2>1, <2>2 DEF Cuts
<1>11. RowsSound'
  <2>1. ASSUME NEW s \in Satellites, NEW r \in rows[s]
        PROVE  r.event \in History(s)' /\ Sealed(r.batch)' /\ r.event \in InBatch(r.batch)'
    <3>1. /\ r.batch \in Batches /\ Sealed(r.batch)
          /\ r.event \in History(s) /\ r.event \in InBatch(r.batch)
      BY DEF TypeOK, Row, RowsSound
    <3>2. r.event \in DOMAIN wal
      BY <3>1, HistoryType
    <3> QED
      BY <1>3, <1>4, <1>5, <1>8, <3>1, <3>2, HistoryGrows
  <2> QED
    BY <1>1, <2>1 DEF RowsSound
<1>12. PublishedComplete'
  <2>1. ASSUME NEW s \in Satellites, NEW i \in History(s)', IsPublished(i)'
        PROVE  i \in Recorded(s)
    <3>1. i \in DOMAIN wal'
      BY DEF History, StateChanges, Concerning
    <3>2. i \in DOMAIN wal /\ IsPublished(i)
      BY <1>7, <2>1, <3>1
    <3>3. i \in History(s)
      BY <1>3, <1>4, <3>2, HistoryGrows
    <3> QED
      BY <3>2, <3>3 DEF PublishedComplete
  <2> QED
    BY <1>5, <2>1 DEF PublishedComplete
<1>13. PublishedClosed'
  <2>1. ASSUME NEW i \in DOMAIN wal', NEW k \in DOMAIN wal',
               wal'[i].transaction <= wal'[k].transaction, IsPublished(k)'
        PROVE  IsPublished(i)'
    <3>1. k \in DOMAIN wal /\ IsPublished(k) /\ wal'[k] = wal[k]
      BY <1>6, <1>7, <2>1
    <3>2. i \in DOMAIN wal
      BY <1>3, <2>1, <3>1 DEF Grows
    <3>3. wal[i].transaction <= wal[k].transaction
      BY <1>6, <2>1, <3>1, <3>2
    <3>4. IsPublished(i)
      BY <3>1, <3>2, <3>3 DEF PublishedClosed
    <3> QED
      BY <1>7, <3>2, <3>4
  <2> QED
    BY <2>1 DEF PublishedClosed
<1>14. \A b \in InState("OPEN") : b \in Batches /\ InBatch(b)' = InBatch(b)
         /\ InBatch(b) \subseteq DOMAIN wal /\ (Balanced(b)' => Balanced(b))
  <2>1. \A b \in InState("OPEN") : b \in Batches /\ Sealed(b) /\ InBatch(b) \subseteq DOMAIN wal
    BY DEF InState, Sealed, InBatch
  <2> QED
    BY <1>8, <1>9, <2>1
<1>15. HubsComplete'
  <2>1. ASSUME NEW i \in DOMAIN wal', wal'[i].state.status = "ACTIVE"
        PROVE  /\ IsPublished(i)' => wal'[i].entity \in hubs
               /\ \A b \in InState("OPEN") :
                    "core" \in batch[b].loaded /\ i \in InBatch(b)' => wal'[i].entity \in hubs
    <3>1. CASE i \in DOMAIN wal
      BY <1>6, <1>7, <1>14, <2>1, <3>1 DEF HubsComplete
    <3>2. CASE i \notin DOMAIN wal
      BY <1>7, <1>14, <3>2
    <3> QED
      BY <3>1, <3>2
  <2> QED
    BY <1>1, <1>5, <2>1 DEF HubsComplete
<1>16. LoanIsLinked'
  <2>1. Of(links, Loan)' = Of(links, Loan)
    BY <1>1, <1>6 DEF Of, TypeOK
  <2>2. ASSUME NEW i \in Of(DOMAIN wal, Loan)'
        PROVE  /\ IsPublished(i)' => Of(links, Loan) # {}
               /\ \A b \in InState("OPEN") :
                    "core" \in batch[b].loaded /\ Balanced(b)' /\ i \in InBatch(b)' =>
                        Of(links, Loan) # {}
    <3>1. i \in DOMAIN wal' /\ wal'[i].entity = Loan
      BY DEF Of
    <3>2. CASE i \in DOMAIN wal
      <4>1. i \in Of(DOMAIN wal, Loan)
        BY <1>6, <3>1, <3>2 DEF Of
      <4> QED
        BY <1>7, <1>14, <3>1, <4>1 DEF LoanIsLinked
    <3>3. CASE i \notin DOMAIN wal
      BY <1>7, <1>14, <3>1, <3>3
    <3> QED
      BY <3>2, <3>3
  <2> QED
    BY <1>1, <1>5, <2>1, <2>2 DEF LoanIsLinked
<1> QED
  BY <1>2, <1>4, <1>10, <1>11, <1>12, <1>13, <1>15, <1>16

LEMMA AliveMeans ==
    ASSUME GoldInv, NEW x \in Entities, Alive(x)
    PROVE  /\ wal # <<>> /\ Latest(x) \in State
           /\ Latest(x).status = "ACTIVE" /\ Latest(x).details # "NULL"
           /\ x \notin Customers => Latest(x).context # "NULL"
<1> USE DEF GoldInv, SourceInv
<1> DEFINE i == Max(Of(DOMAIN wal, x))
<1>1. i \in DOMAIN wal /\ wal[i].entity = x
  BY LastMeans DEF Alive
<1>2. Latest(x) = wal[i].state /\ Latest(x).status = "ACTIVE"
  BY DEF Latest, Alive
<1> HIDE DEF i
<1>3. wal[i] \in Change /\ Shape(wal[i])
  BY <1>1, PositionType DEF Shapes
<1> QED
  BY <1>1, <1>2, <1>3 DEF Shape, Change

LEMMA ImageType ==
    ASSUME NEW d \in {"PENDING", "APPROVED", "OLD", "NEW"},
           NEW c \in {"NULL", "IST001", "ANK001"}
    PROVE  /\ Image(d, c) \in State
           /\ Image(d, c).details = d /\ Image(d, c).context = c
           /\ Image(d, c).status = "ACTIVE" /\ Image(d, c).details # "NULL"
BY DEF Image, State

LEMMA SourceStep ==
    ASSUME GoldInv, Source
    PROVE  GoldInv'
<1> USE DEF GoldInv, SourceInv
<1>0. /\ Lifecycle \in Entities /\ Relation \in Entities
      /\ Application \in Entities /\ Loan \in Entities
      /\ Customers = {Lifecycle, Relation}
      /\ Application \notin Customers /\ Loan \notin Customers
  BY EntitiesDiffer DEF Entities, Customers
<1>1. ASSUME NEW x \in Entities, NEW s \in State, x # Loan, wal # <<>>,
             Commit(<< <<x, s>> >>), Shape([entity |-> x, state |-> s])
      PROVE  GoldInv'
  <2> DEFINE c == << <<x, s>> >>
  <2>1. /\ c \in Seq(Entities \X State) /\ DOMAIN c = {1}
        /\ c[1][1] = x /\ c[1][2] = s
    OBVIOUS
  <2>2. Commit(c)
    BY <1>1
  <2> HIDE DEF c
  <2>3. Sound(c)
    BY <1>1, <2>1 DEF Sound
  <2> QED
    BY <2>1, <2>2, <2>3, CommitStep
<1>2. CASE Setup
  <2> DEFINE old == Image("OLD", "NULL")
             new == Image("PENDING", "IST001")
             c == << <<Lifecycle, old>>, <<Relation, old>>, <<Application, new>> >>
  <2>1. old \in State /\ old.context = "NULL" /\ old.details # "NULL" /\ old.status = "ACTIVE"
    BY ImageType
  <2>2. /\ new \in State /\ new.context # "NULL"
        /\ new.details # "NULL" /\ new.status = "ACTIVE"
    <3> HIDE DEF new
    <3>1. new = Image("PENDING", "IST001")
      BY DEF new
    <3>2. new \in State /\ new.context = "IST001" /\ new.details = "PENDING" /\ new.status = "ACTIVE"
      BY <3>1, ImageType
    <3> QED
      BY <3>2
  <2>3. wal = <<>> /\ Commit(c)
    BY <1>2 DEF Setup
  <2> HIDE DEF old, new
  <2>4. /\ c \in Seq(Entities \X State) /\ Len(c) = 3 /\ DOMAIN c = 1 .. 3
        /\ c[1][1] = Lifecycle /\ c[2][1] = Relation /\ c[3][1] = Application
        /\ c[1][2] = old /\ c[2][2] = old /\ c[3][2] = new
    BY <1>0, <2>1, <2>2
  <2> HIDE DEF c
  <2>5. \A j \in DOMAIN c : j \in {1, 2, 3}
    BY <2>4
  <2>6. \A j \in DOMAIN c : c[j][1] # Loan
    BY <2>4, <2>5, EntitiesDiffer
  <2>7. /\ Shape([entity |-> c[1][1], state |-> c[1][2]])
        /\ Shape([entity |-> c[2][1], state |-> c[2][2]])
        /\ Shape([entity |-> c[3][1], state |-> c[3][2]])
    BY <1>0, <2>1, <2>2, <2>4 DEF Shape
  <2>8. \A j \in DOMAIN c : Shape([entity |-> c[j][1], state |-> c[j][2]])
    BY <2>5, <2>7
  <2>9. Sound(c)
    BY <2>4, <2>6, <2>8 DEF Sound
  <2> QED
    BY <2>3, <2>4, <2>9, CommitStep
<1>3. CASE DeleteCustomer
  <2> DEFINE gone == [details |-> "NULL", status |-> "DELETED", context |-> "NULL"]
  <2>1. gone \in State /\ gone.details = "NULL" /\ gone.status # "ACTIVE" /\ gone.context = "NULL"
    BY DEF State
  <2>2. wal # <<>> /\ Commit(<< <<Lifecycle, gone>> >>)
    BY <1>0, <1>3, AliveMeans DEF DeleteCustomer
  <2> HIDE DEF gone
  <2>3. Shape([entity |-> Lifecycle, state |-> gone])
    BY <1>0, <2>1 DEF Shape
  <2> QED
    BY <1>0, <1>1, <2>1, <2>2, <2>3, EntitiesDiffer
<1>4. CASE RecreateCustomer
  <2> DEFINE new == Image("NEW", "NULL")
  <2>1. new \in State /\ new.details # "NULL" /\ new.status = "ACTIVE" /\ new.context = "NULL"
    BY ImageType
  <2>2. wal # <<>> /\ Commit(<< <<Lifecycle, new>> >>)
    BY <1>4 DEF RecreateCustomer
  <2> HIDE DEF new
  <2>3. Shape([entity |-> Lifecycle, state |-> new])
    BY <1>0, <2>1 DEF Shape
  <2> QED
    BY <1>0, <1>1, <2>1, <2>2, <2>3, EntitiesDiffer
<1>5. ASSUME NEW x \in Customers, CustomerChange(x)
      PROVE  GoldInv'
  <2> DEFINE d == IF Latest(x).details = "OLD" THEN "NEW" ELSE "OLD"
             new == Image(d, "NULL")
  <2>1. d \in {"PENDING", "APPROVED", "OLD", "NEW"}
    OBVIOUS
  <2>2. Commit(<< <<x, new>> >>) /\ x \in Entities /\ x # Loan /\ Alive(x)
    BY <1>0, <1>5 DEF CustomerChange
  <2> HIDE DEF d
  <2>3. new \in State /\ new.details # "NULL" /\ new.status = "ACTIVE" /\ new.context = "NULL"
    BY <2>1, ImageType
  <2> HIDE DEF new
  <2>4. Shape([entity |-> x, state |-> new])
    BY <2>3 DEF Shape
  <2> QED
    BY <1>1, <2>2, <2>3, <2>4, AliveMeans
<1>6. CASE MoveApplication
  <2> DEFINE target == IF Latest(Application).context = "IST001" THEN "ANK001" ELSE "IST001"
             new == Image(Latest(Application).details, target)
  <2>1. target \in {"NULL", "IST001", "ANK001"} /\ target # "NULL"
    OBVIOUS
  <2>2. Commit(<< <<Application, new>> >>) /\ Alive(Application)
    BY <1>6 DEF MoveApplication
  <2>3. /\ wal # <<>>
        /\ Latest(Application).details \in {"PENDING", "APPROVED", "OLD", "NEW"}
    BY <1>0, <2>2, AliveMeans DEF State
  <2> HIDE DEF target
  <2>4. new \in State /\ new.details # "NULL" /\ new.status = "ACTIVE" /\ new.context # "NULL"
    BY <2>1, <2>3, ImageType
  <2> HIDE DEF new
  <2>5. Shape([entity |-> Application, state |-> new])
    BY <1>0, <2>4 DEF Shape
  <2> QED
    BY <1>0, <1>1, <2>2, <2>3, <2>4, <2>5, EntitiesDiffer
<1>7. CASE ApproveLoan
  <2> DEFINE branch == Latest(Application).context
             new == Image("APPROVED", branch)
             loan == Image("OLD", branch)
             c == << <<Application, new>>, <<Loan, loan>> >>
  <2>1. Alive(Application) /\ Commit(c)
    BY <1>7 DEF ApproveLoan
  <2>2. wal # <<>> /\ branch \in {"NULL", "IST001", "ANK001"} /\ branch # "NULL"
    BY <1>0, <2>1, AliveMeans DEF State
  <2> HIDE DEF branch
  <2>3. /\ new \in State /\ new.details # "NULL" /\ new.status = "ACTIVE" /\ new.context # "NULL"
        /\ loan \in State /\ loan.details # "NULL"
        /\ loan.status = "ACTIVE" /\ loan.context # "NULL"
    BY <2>2, ImageType
  <2> HIDE DEF new, loan
  <2>4. /\ c \in Seq(Entities \X State) /\ Len(c) = 2 /\ DOMAIN c = 1 .. 2
        /\ c[1][1] = Application /\ c[2][1] = Loan /\ c[1][2] = new /\ c[2][2] = loan
    BY <1>0, <2>3
  <2> HIDE DEF c
  <2>5. \A j \in DOMAIN c : j \in {1, 2}
    BY <2>4
  <2>6. /\ Shape([entity |-> c[1][1], state |-> c[1][2]])
        /\ Shape([entity |-> c[2][1], state |-> c[2][2]])
    BY <1>0, <2>3, <2>4 DEF Shape
  <2>7. \A j \in DOMAIN c : Shape([entity |-> c[j][1], state |-> c[j][2]])
    BY <2>5, <2>6
  <2>8. 1 \in DOMAIN c /\ c[1][1] = Application
    BY <2>4
  <2>9. Sound(c)
    BY <2>2, <2>7, <2>8 DEF Sound
  <2> QED
    BY <2>1, <2>4, <2>9, CommitStep
<1>8. CASE InstallmentChange
  <2> DEFINE branch == Latest(Loan).context
             new == Image("NEW", branch)
             c == << <<Loan, new>> >>
  <2>1. Alive(Loan) /\ Commit(c)
    BY <1>8 DEF InstallmentChange
  <2>2. wal # <<>> /\ branch \in {"NULL", "IST001", "ANK001"} /\ branch # "NULL"
    BY <1>0, <2>1, AliveMeans DEF State
  <2> HIDE DEF branch
  <2>3. new \in State /\ new.details # "NULL" /\ new.status = "ACTIVE" /\ new.context # "NULL"
    BY <2>2, ImageType
  <2> HIDE DEF new
  <2>4. /\ c \in Seq(Entities \X State) /\ DOMAIN c = {1}
        /\ c[1][1] = Loan /\ c[1][2] = new
    BY <1>0, <2>3
  <2> HIDE DEF c
  <2>5. Shape([entity |-> c[1][1], state |-> c[1][2]])
    BY <1>0, <2>3, <2>4 DEF Shape
  <2>6. Sound(c)
    BY <2>1, <2>2, <2>4, <2>5 DEF Sound, Alive
  <2> QED
    BY <2>1, <2>4, <2>6, CommitStep
<1> QED
  BY <1>2, <1>3, <1>4, <1>5, <1>6, <1>7, <1>8 DEF Source

-----------------------------------------------------------------------------
(* A batch is sealed, given up, tried again                                 *)

LEMMA SealStep ==
    ASSUME GoldInv, NEW b \in Batches, Seal(b)
    PROVE  GoldInv'
<1> USE DEF GoldInv
<1>1. PICK high \in [Topics -> 0 .. Len(wal)] :
        /\ \A t \in Topics :
            \/ high[t] = Boundary(t)
            \/ high[t] > Boundary(t) /\ Topic(wal[high[t]].entity) = t
        /\ batch' = [batch EXCEPT ![b] =
                       [low |-> [t \in Topics |-> Boundary(t)], high |-> high,
                        loaded |-> {}, state |-> "OPEN"]]
  BY DEF Seal
<1>2. /\ wal' = wal /\ hubs' = hubs /\ links' = links /\ rows' = rows
      /\ batch[b].state = "NONE" /\ InState("OPEN") = {}
  BY DEF Seal
<1> DEFINE low == [t \in Topics |-> Boundary(t)]
           row == [low |-> low, high |-> high, loaded |-> {}, state |-> "OPEN"]
<1>3. /\ low \in [Topics -> Nat] /\ \A t \in Topics : low[t] = Boundary(t)
      /\ high \in [Topics -> Nat] /\ \A t \in Topics : high[t] \in Nat /\ high[t] <= Len(wal)
  BY BoundaryMeans, PositionType
<1> HIDE DEF low
<1>4. /\ row.low = low /\ row.high = high /\ row.loaded = {} /\ row.state = "OPEN"
      /\ row \in BatchRow
  BY <1>3 DEF BatchRow
<1>5. batch' = [batch EXCEPT ![b] = row]
  BY <1>1 DEF low
<1> HIDE DEF row
<1>6. /\ batch' \in [Batches -> BatchRow] /\ batch'[b] = row
      /\ \A c \in Batches \ {b} : batch'[c] = batch[c]
  BY <1>4, <1>5 DEF TypeOK
<1>7. TypeOK'
  BY <1>2, <1>6 DEF TypeOK
<1>8. InState("PUBLISHED")' = InState("PUBLISHED") /\ InState("OPEN")' = {b}
  BY <1>2, <1>4, <1>6 DEF InState
<1>9. \A t \in Topics : Boundary(t)' = Boundary(t)
  <2>1. \A c \in InState("PUBLISHED") : batch'[c].high = batch[c].high
    BY <1>2, <1>6 DEF InState
  <2> QED
    BY <1>8, <2>1, BoundaryStays
<1>10. \A i \in DOMAIN wal : IsPublished(i)' <=> IsPublished(i)
  BY <1>2, <1>9, TopicType DEF IsPublished
<1>11. SourceInv' /\ \A s : History(s)' = History(s)
  BY <1>2, SameWal
<1>12. \A s : Recorded(s)' = Recorded(s)
  BY <1>2 DEF Recorded
<1>13. \A s : History(s) \subseteq DOMAIN wal
  BY HistoryType
<1>14. Cuts'
  <2>1. ASSUME NEW t \in Topics
        PROVE  /\ low[t] <= high[t] /\ high[t] <= Len(wal)
               /\ high[t] = 0 \/ Topic(wal[high[t]].entity) = t
    BY <1>1, <1>3, BoundaryMeans
  <2>2. \A c \in Batches : Sealed(c)' => c = b \/ (batch'[c] = batch[c] /\ Sealed(c))
    BY <1>6 DEF Sealed
  <2>3. \A c \in Batches : Sealed(c)' => \A t \in Topics :
          /\ batch'[c].low[t] <= batch'[c].high[t]
          /\ batch'[c].high[t] <= Len(wal)
          /\ batch'[c].high[t] = 0 \/ Topic(wal[batch'[c].high[t]].entity) = t
    BY <1>4, <1>6, <2>1, <2>2 DEF Cuts
  <2>4. \A t \in Topics : batch'[b].low[t] = Boundary(t)'
    BY <1>3, <1>4, <1>6, <1>9
  <2> QED
    BY <1>2, <1>8, <2>3, <2>4 DEF Cuts
<1>15. RowsSound'
  <2>1. ASSUME NEW s \in Satellites, NEW r \in rows[s]
        PROVE  Sealed(r.batch)' /\ r.event \in InBatch(r.batch)'
    <3>1. r.batch \in Batches /\ Sealed(r.batch) /\ r.event \in InBatch(r.batch)
      BY DEF TypeOK, Row, RowsSound
    <3>2. batch'[r.batch] = batch[r.batch]
      BY <1>2, <1>6, <3>1 DEF Sealed
    <3> QED
      BY <1>2, <3>1, <3>2, SameBatch DEF Sealed
  <2> QED
    BY <1>2, <1>11, <2>1 DEF RowsSound
<1>16. PublishedComplete'
  BY <1>10, <1>11, <1>12, <1>13 DEF PublishedComplete
<1>17. PublishedClosed'
  BY <1>2, <1>10 DEF PublishedClosed
<1>18. batch'[b].loaded = {}
  BY <1>4, <1>6
<1>19. HubsComplete'
  BY <1>2, <1>8, <1>10, <1>18 DEF HubsComplete
<1>20. LoanIsLinked'
  <2>1. \A i \in Of(DOMAIN wal, Loan) : i \in DOMAIN wal
    BY DEF Of
  <2>2. Of(DOMAIN wal, Loan)' = Of(DOMAIN wal, Loan) /\ Of(links, Loan)' = Of(links, Loan)
    BY <1>2 DEF Of
  <2> QED
    BY <1>8, <1>10, <1>18, <2>1, <2>2 DEF LoanIsLinked
<1> QED
  BY <1>7, <1>11, <1>14, <1>15, <1>16, <1>17, <1>19, <1>20

LEMMA SupersedeStep ==
    ASSUME GoldInv, NEW b \in Batches, Supersede(b)
    PROVE  GoldInv'
<1> USE DEF GoldInv
<1>1. /\ wal' = wal /\ hubs' = hubs /\ links' = links /\ rows' = rows
      /\ batch' = [batch EXCEPT ![b].state = "SUPERSEDED"]
      /\ b \in InState("OPEN") /\ batch[b].state = "OPEN"
  BY DEF Supersede, InState
<1>2. /\ batch' \in [Batches -> BatchRow]
      /\ \A c \in Batches : batch'[c].low = batch[c].low /\ batch'[c].high = batch[c].high
      /\ \A c \in Batches \ {b} : batch'[c].state = batch[c].state
      /\ batch'[b].state = "SUPERSEDED"
  BY <1>1 DEF TypeOK, BatchRow
<1>3. TypeOK'
  BY <1>1, <1>2 DEF TypeOK
<1>4. InState("PUBLISHED")' = InState("PUBLISHED") /\ InState("OPEN")' = {}
  <2>1. InState("PUBLISHED")' = InState("PUBLISHED")
    BY <1>1, <1>2 DEF InState
  <2>2. \A c \in InState("OPEN") : c = b
    BY <1>1 DEF Cuts
  <2>3. \A c \in Batches : batch'[c].state # "OPEN"
    BY <1>2, <2>2 DEF InState
  <2> QED
    BY <2>1, <2>3 DEF InState
<1>5. \A t \in Topics : Boundary(t)' = Boundary(t)
  BY <1>2, <1>4, BoundaryStays DEF InState
<1>6. \A i \in DOMAIN wal : IsPublished(i)' <=> IsPublished(i)
  BY <1>1, <1>5, TopicType DEF IsPublished
<1>7. SourceInv' /\ \A s : History(s)' = History(s)
  BY <1>1, SameWal
<1>8. \A s : Recorded(s)' = Recorded(s) /\ History(s) \subseteq DOMAIN wal
  BY <1>1, HistoryType DEF Recorded
<1>9. \A c \in Batches : Sealed(c)' <=> Sealed(c)
  BY <1>1, <1>2 DEF Sealed
<1>10. Cuts'
  BY <1>1, <1>2, <1>4, <1>9 DEF Cuts
<1>11. RowsSound'
  <2>1. ASSUME NEW s \in Satellites, NEW r \in rows[s]
        PROVE  Sealed(r.batch)' /\ r.event \in InBatch(r.batch)'
    <3>1. r.batch \in Batches /\ Sealed(r.batch) /\ r.event \in InBatch(r.batch)
      BY DEF TypeOK, Row, RowsSound
    <3> QED
      BY <1>1, <1>2, <1>9, <3>1, SameBatch
  <2> QED
    BY <1>1, <1>7, <2>1 DEF RowsSound
<1>12. PublishedComplete'
  BY <1>6, <1>7, <1>8 DEF PublishedComplete
<1>13. PublishedClosed'
  BY <1>1, <1>6 DEF PublishedClosed
<1>14. HubsComplete'
  BY <1>1, <1>4, <1>6 DEF HubsComplete
<1>15. LoanIsLinked'
  <2>1. \A i \in Of(DOMAIN wal, Loan) : i \in DOMAIN wal
    BY DEF Of
  <2>2. Of(DOMAIN wal, Loan)' = Of(DOMAIN wal, Loan) /\ Of(links, Loan)' = Of(links, Loan)
    BY <1>1 DEF Of
  <2> QED
    BY <1>4, <1>6, <2>1, <2>2 DEF LoanIsLinked
<1> QED
  BY <1>3, <1>7, <1>10, <1>11, <1>12, <1>13, <1>14, <1>15

(* What a load, or a new attempt, must show besides its rows.               *)
LEMMA LoadFrame ==
    ASSUME GoldInv, TypeOK', SameCuts, SameStates, RowsSound',
           hubs \subseteq hubs', links \subseteq links',
           \A s \in Satellites : rows[s] \subseteq rows'[s],
           \A c \in InState("OPEN") : "core" \in batch'[c].loaded =>
             \/ "core" \in batch[c].loaded
             \/ /\ \A i \in InBatch(c) : wal[i].state.status = "ACTIVE" => wal[i].entity \in hubs'
                /\ \A i \in InBatch(c) : wal[i].entity = Loan /\ Balanced(c) =>
                     Of(links', Loan) # {}
    PROVE  GoldInv'
<1> USE DEF GoldInv
<1>1. /\ SourceInv' /\ Cuts' /\ PublishedClosed' /\ wal' = wal
      /\ \A s : History(s)' = History(s)
      /\ \A b \in Batches : InBatch(b)' = InBatch(b) /\ (Balanced(b)' <=> Balanced(b))
      /\ \A i \in DOMAIN wal : IsPublished(i)' <=> IsPublished(i)
      /\ InState("OPEN")' = InState("OPEN")
  BY FrameStep DEF SameCuts
<1>2. \A c \in InState("OPEN") : c \in Batches
  BY DEF InState
<1>3. PublishedComplete'
  <2>1. \A s \in Satellites : Recorded(s) \subseteq Recorded(s)'
    BY DEF Recorded
  <2>2. \A s : History(s) \subseteq DOMAIN wal
    BY HistoryType
  <2> QED
    BY <1>1, <2>1, <2>2 DEF PublishedComplete
<1>4. HubsComplete'
  <2> SUFFICES ASSUME NEW i \in DOMAIN wal, wal[i].state.status = "ACTIVE"
               PROVE  /\ IsPublished(i) => wal[i].entity \in hubs'
                      /\ \A b \in InState("OPEN") :
                           "core" \in batch'[b].loaded /\ i \in InBatch(b) => wal[i].entity \in hubs'
    BY <1>1, <1>2 DEF HubsComplete
  <2> QED
    BY <1>2 DEF HubsComplete
<1>5. LoanIsLinked'
  <2>1. Of(DOMAIN wal, Loan)' = Of(DOMAIN wal, Loan) /\ Of(links, Loan)' = Of(links', Loan)
        /\ Of(links, Loan) \subseteq Of(links', Loan)
    BY <1>1 DEF Of
  <2> SUFFICES ASSUME NEW i \in Of(DOMAIN wal, Loan)
               PROVE  /\ IsPublished(i) => Of(links', Loan) # {}
                      /\ \A b \in InState("OPEN") :
                           "core" \in batch'[b].loaded /\ Balanced(b) /\ i \in InBatch(b) =>
                               Of(links', Loan) # {}
    <3>1. \A i \in Of(DOMAIN wal, Loan) : i \in DOMAIN wal
      BY DEF Of
    <3> QED
      BY <1>1, <1>2, <2>1, <3>1 DEF LoanIsLinked
  <2>2. wal[i].entity = Loan
    BY DEF Of
  <2>3. IsPublished(i) => Of(links', Loan) # {}
    BY <2>1 DEF LoanIsLinked
  <2>4. ASSUME NEW b \in InState("OPEN"), "core" \in batch'[b].loaded, Balanced(b), i \in InBatch(b)
        PROVE  Of(links', Loan) # {}
    BY <2>1, <2>2, <2>4 DEF LoanIsLinked
  <2> QED
    BY <2>3, <2>4
<1> QED
  BY <1>1, <1>3, <1>4, <1>5

LEMMA NewAttemptStep ==
    ASSUME GoldInv, NEW b \in Batches, NewAttempt(b)
    PROVE  GoldInv'
<1> USE DEF GoldInv
<1>1. /\ wal' = wal /\ hubs' = hubs /\ links' = links /\ rows' = rows
      /\ batch' = [batch EXCEPT ![b].loaded = {}]
  BY DEF NewAttempt
<1>2. /\ batch' \in [Batches -> BatchRow] /\ SameCuts /\ SameStates
      /\ \A c \in Batches : batch'[c].loaded \subseteq batch[c].loaded
  BY <1>1 DEF TypeOK, BatchRow, SameCuts, SameStates
<1>3. TypeOK'
  BY <1>1, <1>2 DEF TypeOK
<1>4. RowsSound'
  BY <1>1, <1>2, FrameStep DEF RowsSound, TypeOK, Row
<1> QED
  BY <1>1, <1>2, <1>3, <1>4, LoadFrame DEF InState

-----------------------------------------------------------------------------
(* Hubs and Links are loaded                                                *)

(* The loan's first change is in the batch with the approval of its         *)
(* application, unless it was published before: the batch never lacks what  *)
(* a loan's context is resolved from.                                       *)
LEMMA CoreLinksTheLoan ==
    ASSUME GoldInv, NEW b \in InState("OPEN"), LoadCore(b), Balanced(b),
           NEW i \in InBatch(b), wal[i].entity = Loan
    PROVE  Of(links', Loan) # {}
<1> USE DEF GoldInv, SourceInv
<1> DEFINE has == HasContext(b)
<1>1. links' = links \cup {k \in has : \A m \in links \cup has :
                              SameContext(k, m) => m \notin links /\ k <= m}
  BY DEF LoadCore
<1>2. b \in Batches /\ has \subseteq InBatch(b) /\ InBatch(b) \subseteq DOMAIN wal
      /\ links \subseteq DOMAIN wal /\ \A t \in Topics : batch[b].low[t] = Boundary(t)
  BY DEF InState, HasContext, InBatch, TypeOK, Cuts
<1> SUFFICES ASSUME Of(links, Loan) = {} PROVE Of(links', Loan) # {}
  BY <1>1 DEF Of
<1>3. i \in Of(DOMAIN wal, Loan) /\ Of(DOMAIN wal, Loan) \in SUBSET Nat
  BY <1>2, PositionType DEF Of
<1>4. PICK f \in Of(DOMAIN wal, Loan) : \A k \in Of(DOMAIN wal, Loan) : f <= k
  BY <1>3, LeastOf
<1>5. f \in DOMAIN wal /\ f \in Nat /\ i \in Nat /\ wal[f].entity = Loan /\ f <= i
  BY <1>3, <1>4, PositionType DEF Of
<1>6. PICK a \in Of(DOMAIN wal, Application) : wal[a].transaction = wal[f].transaction
  BY <1>4, <1>5 DEF LoansAreApproved
<1>7. a \in DOMAIN wal /\ a \in Nat /\ wal[a].entity = Application
  BY <1>6, PositionType DEF Of
<1>8. /\ \A k \in DOMAIN wal : wal[k].transaction \in Nat
      /\ \A t \in Topics : Boundary(t) \in Nat /\ batch[b].high[t] \in Nat
      /\ Topic(Loan) \in Topics /\ Topic(Application) \in Topics
  <2>1. \A k \in DOMAIN wal : wal[k].transaction \in Nat
    BY PositionType DEF Change
  <2> QED
    BY <1>2, <2>1, BoundaryMeans, BatchType, TopicType
<1>9. ~ IsPublished(f)
  BY <1>4 DEF LoanIsLinked
<1>10. ~ IsPublished(a)
  <2>1. wal[f].transaction <= wal[a].transaction
    BY <1>5, <1>6, <1>8
  <2> QED
    BY <1>5, <1>7, <1>9, <2>1 DEF PublishedClosed
<1>11. f \in InBatch(b)
  <2>1. i <= batch[b].high[Topic(Loan)]
    BY <1>2, InBatchMeans
  <2>2. ~ (f <= batch[b].low[Topic(Loan)])
    BY <1>2, <1>5, <1>8, <1>9 DEF IsPublished
  <2>3. batch[b].low[Topic(Loan)] < f /\ f <= batch[b].high[Topic(Loan)]
    BY <1>2, <1>5, <1>8, <2>1, <2>2
  <2> QED
    BY <1>2, <1>5, <2>3, InBatchMeans
<1>12. a \in InBatch(b)
  <2>1. wal[a].transaction <= wal[f].transaction
    BY <1>6, <1>7, <1>8
  <2>2. a <= batch[b].high[Topic(Application)]
    BY <1>7, <1>11, <2>1 DEF Balanced
  <2>3. ~ (a <= batch[b].low[Topic(Application)])
    BY <1>2, <1>7, <1>8, <1>10 DEF IsPublished
  <2>4. batch[b].low[Topic(Application)] < a
    BY <1>2, <1>7, <1>8, <2>3
  <2> QED
    BY <1>2, <1>7, <2>2, <2>4, InBatchMeans
<1>13. Resolved(b, f)
  BY <1>7, <1>12 DEF Resolved, Of
<1>14. wal[f].state.context # "NULL"
  <2>1. Shape(wal[f])
    BY <1>5 DEF Shapes
  <2> QED
    BY <1>5, <2>1, EntitiesDiffer DEF Shape, Customers
<1>15. f \in has
  BY <1>11, <1>13, <1>14 DEF HasContext
<1> HIDE DEF has
<1>16. \A m \in links \cup has : SameContext(f, m) => m \notin links /\ f <= m
  <2> SUFFICES ASSUME NEW m \in links \cup has, wal[m].entity = Loan
               PROVE  m \notin links /\ f <= m
    BY <1>5 DEF SameContext
  <2>1. m \in Of(DOMAIN wal, Loan)
    BY <1>2 DEF Of
  <2>2. m \notin links
    BY DEF Of
  <2> QED
    BY <1>4, <2>1, <2>2
<1>17. f \in links'
  BY <1>1, <1>15, <1>16
<1> QED
  BY <1>5, <1>17 DEF Of

LEMMA LoadCoreStep ==
    ASSUME GoldInv, NEW b \in Batches, LoadCore(b)
    PROVE  GoldInv'
<1> USE DEF GoldInv
<1>1. /\ wal' = wal /\ rows' = rows
      /\ hubs' = hubs \cup {wal[i].entity : i \in {k \in InBatch(b) : wal[k].state.status = "ACTIVE"}}
      /\ batch' = [batch EXCEPT ![b].loaded = batch[b].loaded \cup {"core"}]
  BY DEF LoadCore
<1>2. links \subseteq links' /\ links' \subseteq links \cup HasContext(b)
  BY DEF LoadCore
<1>3. /\ batch' \in [Batches -> BatchRow] /\ SameCuts /\ SameStates
      /\ \A c \in Batches \ {b} : batch'[c].loaded = batch[c].loaded
  BY <1>1 DEF TypeOK, BatchRow, SameCuts, SameStates, Phases
<1>4. InBatch(b) \subseteq DOMAIN wal /\ HasContext(b) \subseteq InBatch(b)
      /\ \A i \in DOMAIN wal : wal[i].entity \in Entities
  BY PositionType DEF InBatch, HasContext, Change
<1>5. hubs' \subseteq Entities
  BY <1>1, <1>4 DEF TypeOK
<1>6. links' \subseteq DOMAIN wal'
  BY <1>1, <1>2, <1>4 DEF TypeOK
<1>7. TypeOK'
  BY <1>1, <1>3, <1>5, <1>6 DEF TypeOK
<1>8. RowsSound'
  BY <1>1, <1>3, FrameStep DEF RowsSound, TypeOK, Row
<1>9. \A i \in InBatch(b) : wal[i].state.status = "ACTIVE" => wal[i].entity \in hubs'
  BY <1>1
<1>10. \A c \in InState("OPEN") : "core" \in batch'[c].loaded =>
             \/ "core" \in batch[c].loaded
             \/ /\ \A i \in InBatch(c) : wal[i].state.status = "ACTIVE" => wal[i].entity \in hubs'
                /\ \A i \in InBatch(c) : wal[i].entity = Loan /\ Balanced(c) =>
                     Of(links', Loan) # {}
  <2> SUFFICES ASSUME NEW c \in InState("OPEN"), "core" \in batch'[c].loaded,
                      "core" \notin batch[c].loaded
               PROVE  /\ \A i \in InBatch(c) :
                            wal[i].state.status = "ACTIVE" => wal[i].entity \in hubs'
                      /\ \A i \in InBatch(c) : wal[i].entity = Loan /\ Balanced(c) =>
                            Of(links', Loan) # {}
    OBVIOUS
  <2>1. c = b
    BY <1>3 DEF InState
  <2>2. \A i \in InBatch(c) : wal[i].entity = Loan /\ Balanced(c) => Of(links', Loan) # {}
    BY <2>1, CoreLinksTheLoan
  <2> QED
    BY <1>9, <2>1, <2>2
<1>11. hubs \subseteq hubs' /\ \A s \in Satellites : rows[s] \subseteq rows'[s]
  BY <1>1
<1> QED
  BY <1>2, <1>3, <1>7, <1>8, <1>10, <1>11, LoadFrame

-----------------------------------------------------------------------------
(* Satellites are loaded                                                    *)

LEMMA LoadableHasThePast ==
    ASSUME GoldInv, NEW b \in InState("OPEN") \cup InState("PUBLISHED")
    PROVE  b \in Batches /\ Sealed(b) /\ BelowIsRecorded(b)
<1> USE DEF GoldInv
<1>1. b \in Batches /\ Sealed(b)
  BY DEF InState, Sealed
<1>2. ASSUME NEW t \in Topics
      PROVE  batch[b].low[t] \in Nat /\ Boundary(t) \in Nat /\ batch[b].low[t] <= Boundary(t)
  <2>1. /\ batch[b].low[t] \in Nat /\ batch[b].high[t] \in Nat /\ Boundary(t) \in Nat
        /\ batch[b].low[t] <= batch[b].high[t]
    BY <1>1, BatchType, BoundaryMeans DEF Cuts
  <2>2. CASE b \in InState("OPEN")
    <3>1. batch[b].low[t] = Boundary(t)
      BY <2>2 DEF Cuts
    <3> QED
      BY <2>1, <3>1
  <2>3. CASE b \in InState("PUBLISHED")
    <3>1. batch[b].high[t] <= Boundary(t)
      BY <2>3, BoundaryMeans
    <3> QED
      BY <2>1, <3>1
  <2> QED
    BY <2>2, <2>3
<1>3. ASSUME NEW s \in Satellites, NEW i \in History(s),
             i <= batch[b].low[Topic(wal[i].entity)]
      PROVE  i \in Recorded(s)
  <2>1. i \in Nat /\ Topic(wal[i].entity) \in Topics
    BY HistoryType, TopicType
  <2>2. IsPublished(i)
    BY <1>2, <1>3, <2>1 DEF IsPublished
  <2> QED
    BY <2>2 DEF PublishedComplete
<1> QED
  BY <1>1, <1>3 DEF BelowIsRecorded

LEMMA LoadSatelliteStep ==
    ASSUME GoldInv, NEW b \in Batches, NEW s \in Satellites, LoadSatellite(b, s)
    PROVE  GoldInv'
<1> USE DEF GoldInv
<1>1. /\ wal' = wal /\ hubs' = hubs /\ links' = links
      /\ rows' = [rows EXCEPT ![s] = rows[s] \cup NewRows(b, s)]
      /\ batch' = [batch EXCEPT ![b].loaded = batch[b].loaded \cup {s}]
      /\ b \in InState("OPEN") \cup InState("PUBLISHED")
  BY DEF LoadSatellite, MayLoad, InState
<1>2. /\ batch' \in [Batches -> BatchRow] /\ SameCuts /\ SameStates
      /\ \A c \in Batches : "core" \in batch'[c].loaded => "core" \in batch[c].loaded
  <2>1. s # "core" /\ s \in Phases
    BY DEF Satellites, Phases
  <2> QED
    BY <1>1, <2>1 DEF TypeOK, BatchRow, SameCuts, SameStates
<1>3. Sealed(b) /\ Filtered(b, s) = Due(b, s)
  BY <1>1, LoadableHasThePast, FilteredIsHistory
<1>4. ASSUME NEW r \in NewRows(b, s)
      PROVE  r \in Row /\ r.batch = b /\ r.event \in History(s) /\ r.event \in InBatch(b)
  <2>1. PICK i \in Filtered(b, s) : r = [event |-> i, batch |-> b]
    BY DEF NewRows
  <2>2. i \in History(s) /\ i \in InBatch(b) /\ i \in Nat
    BY <1>3, HistoryType DEF Due
  <2> QED
    BY <2>1, <2>2 DEF Row
<1>5. /\ rows' \in [Satellites -> SUBSET Row]
      /\ rows'[s] = rows[s] \cup NewRows(b, s)
      /\ \A u \in Satellites \ {s} : rows'[u] = rows[u]
  BY <1>1, <1>4 DEF TypeOK
<1>6. TypeOK'
  BY <1>1, <1>2, <1>5 DEF TypeOK
<1>7. RowsSound'
  <2>1. ASSUME NEW u \in Satellites, NEW r \in rows'[u]
        PROVE  /\ r.batch \in Batches /\ r.event \in History(u)
               /\ Sealed(r.batch) /\ r.event \in InBatch(r.batch)
    <3>1. CASE r \in rows[u]
      BY <3>1 DEF TypeOK, Row, RowsSound
    <3>2. CASE r \notin rows[u]
      <4>1. u = s /\ r \in NewRows(b, s)
        BY <1>5, <2>1, <3>2
      <4> QED
        BY <1>3, <1>4, <4>1
    <3> QED
      BY <3>1, <3>2
  <2> QED
    BY <1>2, <2>1, FrameStep DEF RowsSound
<1>8. \A u \in Satellites : rows[u] \subseteq rows'[u]
  BY <1>5
<1> QED
  BY <1>1, <1>2, <1>6, <1>7, <1>8, LoadFrame DEF InState

-----------------------------------------------------------------------------
(* A batch is published                                                     *)

LEMMA PublishStep ==
    ASSUME GoldInv, NEW b \in Batches, Publish(b)
    PROVE  GoldInv'
<1> USE DEF GoldInv
<1>1. /\ wal' = wal /\ hubs' = hubs /\ links' = links /\ rows' = rows
      /\ batch' = [batch EXCEPT ![b].state = "PUBLISHED"]
      /\ b \in InState("OPEN") /\ batch[b].state = "OPEN"
      /\ "core" \in batch[b].loaded /\ Balanced(b)
      /\ \A s \in Satellites : Filtered(b, s) \subseteq Recorded(s)
  BY DEF Publish, InState, Phases
<1>2. /\ batch' \in [Batches -> BatchRow] /\ SameCuts
      /\ \A c \in Batches \ {b} : batch'[c].state = batch[c].state
      /\ batch'[b].state = "PUBLISHED"
  BY <1>1 DEF TypeOK, BatchRow, SameCuts
<1>3. TypeOK'
  BY <1>1, <1>2 DEF TypeOK
<1>4. InState("OPEN")' = {}
  <2>1. \A c \in InState("OPEN") : c = b
    BY <1>1 DEF Cuts
  <2>2. \A c \in Batches : batch'[c].state # "OPEN"
    BY <1>2, <2>1 DEF InState
  <2> QED
    BY <2>2 DEF InState
<1>5. SourceInv' /\ \A s : History(s)' = History(s)
  BY <1>1, SameWal
<1>6. \A s : Recorded(s)' = Recorded(s) /\ History(s) \subseteq DOMAIN wal
  BY <1>1, HistoryType DEF Recorded
<1>7. \A c \in Batches : Sealed(c)' <=> Sealed(c)
  BY <1>1, <1>2 DEF Sealed
<1>8. ASSUME NEW i \in DOMAIN wal
      PROVE  /\ IsPublished(i)' <=> i <= batch[b].high[Topic(wal[i].entity)]
             /\ IsPublished(i)' <=> IsPublished(i) \/ i \in InBatch(b)
  <2> DEFINE t == Topic(wal[i].entity)
  <2>1. t \in Topics /\ i \in Nat
    BY TopicType, PositionType
  <2>2. /\ Boundary(t)' = batch[b].high[t] /\ batch[b].low[t] = Boundary(t)
        /\ batch[b].low[t] <= batch[b].high[t]
        /\ batch[b].low[t] \in Nat /\ batch[b].high[t] \in Nat
    BY <1>1, <2>1, PublishMoves, BatchType DEF Cuts, Sealed
  <2>3. i \in InBatch(b) <=> batch[b].low[t] < i /\ i <= batch[b].high[t]
    BY InBatchMeans
  <2>4. (IsPublished(i)' <=> i <= Boundary(t)') /\ (IsPublished(i) <=> i <= Boundary(t))
    BY <1>1 DEF IsPublished
  <2> HIDE DEF t
  <2>5. IsPublished(i)' <=> i <= batch[b].high[t]
    BY <2>2, <2>4
  <2>6. IsPublished(i)' <=> IsPublished(i) \/ i \in InBatch(b)
    BY <2>1, <2>2, <2>3, <2>4
  <2> QED
    BY <2>5, <2>6 DEF t
<1>9. Cuts'
  BY <1>1, <1>2, <1>4, <1>7 DEF Cuts, SameCuts
<1>10. RowsSound'
  <2>1. ASSUME NEW s \in Satellites, NEW r \in rows[s]
        PROVE  Sealed(r.batch)' /\ r.event \in InBatch(r.batch)'
    <3>1. r.batch \in Batches /\ Sealed(r.batch) /\ r.event \in InBatch(r.batch)
      BY DEF TypeOK, Row, RowsSound
    <3> QED
      BY <1>1, <1>2, <1>7, <3>1, SameBatch DEF SameCuts
  <2> QED
    BY <1>1, <1>5, <2>1 DEF RowsSound
<1>11. PublishedComplete'
  <2>1. ASSUME NEW s \in Satellites, NEW i \in History(s), i \in InBatch(b)
        PROVE  i \in Recorded(s)
    <3>1. Filtered(b, s) = Due(b, s)
      BY <1>1, LoadableHasThePast, FilteredIsHistory
    <3>2. Resolved(b, i)
      <4>1. SUFFICES ASSUME wal[i].entity = Loan PROVE Of(links, Loan) # {}
        BY DEF Resolved
      <4>2. i \in Of(DOMAIN wal, Loan)
        BY <1>6, <4>1 DEF Of
      <4> QED
        BY <1>1, <2>1, <4>2 DEF LoanIsLinked
    <3>3. i \in Due(b, s)
      BY <2>1, <3>2 DEF Due
    <3> QED
      BY <1>1, <3>1, <3>3
  <2>2. ASSUME NEW s \in Satellites, NEW i \in History(s), IsPublished(i)'
        PROVE  i \in Recorded(s)
    <3>1. IsPublished(i) \/ i \in InBatch(b)
      BY <1>6, <1>8, <2>2
    <3> QED
      BY <2>1, <3>1 DEF PublishedComplete
  <2> QED
    BY <1>5, <1>6, <2>2 DEF PublishedComplete
<1>12. PublishedClosed'
  <2>1. ASSUME NEW i \in DOMAIN wal, NEW k \in DOMAIN wal,
               wal[i].transaction <= wal[k].transaction, IsPublished(k)'
        PROVE  IsPublished(i)'
    <3>1. CASE IsPublished(k)
      BY <1>8, <2>1, <3>1 DEF PublishedClosed
    <3>2. CASE k \in InBatch(b)
      <4>1. i <= batch[b].high[Topic(wal[i].entity)]
        BY <1>1, <2>1, <3>2 DEF Balanced
      <4> QED
        BY <1>8, <4>1
    <3> QED
      BY <1>8, <2>1, <3>1, <3>2
  <2> QED
    BY <1>1, <2>1 DEF PublishedClosed
<1>13. HubsComplete'
  BY <1>1, <1>4, <1>8 DEF HubsComplete
<1>14. LoanIsLinked'
  <2>1. \A i \in Of(DOMAIN wal, Loan) : i \in DOMAIN wal
    BY DEF Of
  <2>2. Of(DOMAIN wal, Loan)' = Of(DOMAIN wal, Loan) /\ Of(links, Loan)' = Of(links, Loan)
    BY <1>1 DEF Of
  <2>3. \A i \in Of(DOMAIN wal, Loan) : IsPublished(i)' => Of(links, Loan) # {}
    BY <1>1, <1>8, <2>1 DEF LoanIsLinked
  <2> QED
    BY <1>4, <2>2, <2>3 DEF LoanIsLinked
<1> QED
  BY <1>3, <1>5, <1>9, <1>10, <1>11, <1>12, <1>13, <1>14

-----------------------------------------------------------------------------
(* The invariant holds                                                      *)

LEMMA InitGoldInv == Init => GoldInv
<1> SUFFICES ASSUME Init PROVE GoldInv
  OBVIOUS
<1>1. /\ wal = <<>> /\ hubs = {} /\ links = {} /\ \A s \in Satellites : rows[s] = {}
      /\ \A b \in Batches : batch[b].state = "NONE"
  BY DEF Init
<1>2. TypeOK
  <2>1. [t \in Topics |-> 0] \in [Topics -> Nat]
    OBVIOUS
  <2>2. batch \in [Batches -> BatchRow]
    BY <2>1 DEF Init, BatchRow
  <2>3. wal \in Seq(Change)
    BY <1>1
  <2> QED
    BY <1>1, <2>2, <2>3 DEF TypeOK, Init
<1>3. DOMAIN wal = {}
  BY <1>1
<1>4. SourceInv
  BY <1>1, <1>3 DEF SourceInv, Times, Shapes, SetupFirst, LoansAreApproved
<1>5. Cuts /\ InState("OPEN") = {}
  BY <1>1 DEF Cuts, Sealed, InState
<1>6. RowsSound /\ PublishedClosed /\ HubsComplete /\ LoanIsLinked
  BY <1>1, <1>3 DEF RowsSound, PublishedClosed, HubsComplete, LoanIsLinked, Of
<1>7. PublishedComplete
  BY <1>3 DEF PublishedComplete, History, StateChanges, Concerning
<1> QED
  BY <1>2, <1>4, <1>5, <1>6, <1>7 DEF GoldInv

LEMMA GoldInvStep == GoldInv /\ [Next]_vars => GoldInv'
<1> SUFFICES ASSUME GoldInv, [Next]_vars
             PROVE  GoldInv'
  OBVIOUS
<1>1. CASE Source
  BY <1>1, SourceStep
<1>2. ASSUME NEW b \in Batches, LoadCore(b)
      PROVE  GoldInv'
  BY <1>2, LoadCoreStep
<1>3. ASSUME NEW b \in Batches, NEW s \in Satellites, LoadSatellite(b, s)
      PROVE  GoldInv'
  BY <1>3, LoadSatelliteStep
<1>4. ASSUME NEW b \in Batches, Seal(b)
      PROVE  GoldInv'
  BY <1>4, SealStep
<1>5. ASSUME NEW b \in Batches, NewAttempt(b)
      PROVE  GoldInv'
  BY <1>5, NewAttemptStep
<1>6. ASSUME NEW b \in Batches, Supersede(b)
      PROVE  GoldInv'
  BY <1>6, SupersedeStep
<1>7. ASSUME NEW b \in Batches, Publish(b)
      PROVE  GoldInv'
  BY <1>7, PublishStep
<1>8. CASE UNCHANGED vars
  <2>1. wal' = wal /\ batch' = batch /\ hubs' = hubs /\ links' = links /\ rows' = rows
    BY <1>8 DEF vars
  <2>2. TypeOK' /\ SameCuts /\ SameStates
    BY <2>1 DEF GoldInv, TypeOK, SameCuts, SameStates
  <2>3. RowsSound'
    BY <2>1, <2>2, FrameStep DEF GoldInv, RowsSound, TypeOK, Row
  <2> QED
    BY <2>1, <2>2, <2>3, LoadFrame
<1> QED
  BY <1>1, <1>2, <1>3, <1>4, <1>5, <1>6, <1>7, <1>8 DEF Next, Load

(* The inductive invariant of the way to Gold: the Satellites hold the      *)
(* source's changes of state, complete as far as anything is published, and *)
(* what is published is a prefix of whole transactions.                     *)
THEOREM GoldInvariant == Spec => []GoldInv
BY InitGoldInv, GoldInvStep, PTL DEF Spec

(* Changes, batches, Hubs, Links and Satellite rows keep their shape, and   *)
(* every row has the label of a batch.                                      *)
THEOREM GoldTypeCorrect == Spec => []TypeOK
<1>1. GoldInv => TypeOK
  BY DEF GoldInv
<1> QED
  BY <1>1, GoldInvariant, PTL

-----------------------------------------------------------------------------
(* The current rows                                                         *)

(* The two rankings agree, because commit times follow the source position. *)
LEMMA LaterIsAbove ==
    ASSUME GoldInv, NEW i \in DOMAIN wal, NEW k \in DOMAIN wal
    PROVE  Later(i, k) <=> i > k
<1> USE DEF GoldInv, SourceInv
<1>1. i \in Nat /\ k \in Nat
  BY PositionType
<1>2. \A n \in DOMAIN TimeOf : TimeOf[n] \in Nat
  BY GoldAssumption
<1>3. ASSUME NEW g \in DOMAIN wal, NEW h \in DOMAIN wal, g <= h
      PROVE  wal[g].time <= wal[h].time
  <2>1. wal[g].transaction <= wal[h].transaction
    BY <1>3 DEF Times
  <2>2. /\ wal[g].transaction \in DOMAIN TimeOf /\ wal[h].transaction \in DOMAIN TimeOf
        /\ wal[g].time = TimeOf[wal[g].transaction] /\ wal[h].time = TimeOf[wal[h].transaction]
    BY DEF Times
  <2> QED
    BY <2>1, <2>2, GoldAssumption
<1>4. wal[i].time \in Nat /\ wal[k].time \in Nat
  BY PositionType DEF Change
<1>5. CASE i <= k
  BY <1>1, <1>3, <1>4, <1>5 DEF Later
<1>6. CASE k < i
  <2>1. wal[k].time <= wal[i].time
    BY <1>1, <1>3, <1>6
  <2> QED
    BY <1>1, <1>4, <1>6, <2>1 DEF Later
<1> QED
  BY <1>1, <1>5, <1>6

(* The current row is the last that is recorded.                            *)
LEMMA CurrentMeans ==
    ASSUME GoldInv, NEW s \in Satellites, NEW x
    PROVE  /\ Recorded(s) \subseteq History(s) /\ Recorded(s) \in SUBSET DOMAIN wal
           /\ Current(s, x) = {m \in Of(Recorded(s), x) : \A k \in Of(Recorded(s), x) : k <= m}
           /\ Of(Recorded(s), x) # {} =>
                \E m \in Current(s, x) : Current(s, x) = {m}
<1> USE DEF GoldInv
<1>1. Recorded(s) \subseteq History(s) /\ Recorded(s) \in SUBSET DOMAIN wal
  BY HistoryType DEF RowsSound, Recorded
<1> DEFINE S == Of(Recorded(s), x)
<1>2. S \subseteq DOMAIN wal /\ \A i \in S : i \in Nat
  BY <1>1, PositionType DEF Of
<1>3. Current(s, x) = {i \in S : \A k \in S : i = k \/ IF s = "details" THEN Later(i, k) ELSE i > k}
  BY DEF Current
<1>4. ASSUME NEW i \in S, NEW k \in S
      PROVE  (i = k \/ IF s = "details" THEN Later(i, k) ELSE i > k) <=> k <= i
  <2>1. i \in DOMAIN wal /\ k \in DOMAIN wal /\ i \in Nat /\ k \in Nat
    BY <1>2
  <2>2. Later(i, k) <=> i > k
    BY <2>1, LaterIsAbove
  <2> QED
    BY <2>1, <2>2
<1>5. Current(s, x) = {m \in S : \A k \in S : k <= m}
  BY <1>3, <1>4
<1>6. ASSUME S # {}
      PROVE  \E m \in Current(s, x) : Current(s, x) = {m}
  <2>1. /\ Max(S) \in S /\ \A y \in S : y <= Max(S)
        /\ \A m \in S : (\A y \in S : y <= m) => m = Max(S)
    BY <1>1, <1>6, LastMeans DEF Of
  <2> HIDE DEF S
  <2> QED
    BY <1>5, <2>1
<1> QED
  BY <1>1, <1>5, <1>6

(* What is published is recorded, so the current row is not before it.      *)
LEMMA NeverBehindFollows == GoldInv => GoldNeverFallsBehind
<1> SUFFICES ASSUME GoldInv, NEW x \in Entities, NEW s \in Satellites,
                    NEW seen, seen = Of({i \in Concerning(s) : i <= Boundary(Topic(wal[i].entity))}, x),
                    seen # {}
             PROVE  \E k \in Current(s, x) : \A i \in StateChanges(seen, s) : i <= k
  BY DEF GoldNeverFallsBehind
<1> USE DEF GoldInv
<1>1. /\ seen \in SUBSET DOMAIN wal /\ seen \subseteq Concerning(s) /\ \A i \in seen : i \in Nat
      /\ Concerning(s) \in SUBSET DOMAIN wal
      /\ \A i \in Concerning(s) : i \in seen <=> IsPublished(i) /\ wal[i].entity = x
  BY HistoryType DEF Of, IsPublished
<1>2. ASSUME NEW i \in StateChanges(seen, s)
      PROVE  i \in Of(Recorded(s), x)
  <2>1. i \in seen /\ \A q : IsLastBefore(seen, i, q) => wal[q].state[s] # wal[i].state[s]
    BY <1>1, <1>2, ChangesMeans
  <2>2. Before(seen, i) = Before(Concerning(s), i)
    <3>1. ASSUME NEW q \in Concerning(s), q < i, wal[q].entity = wal[i].entity
          PROVE  q \in seen
      <4>1. IsPublished(i) /\ wal[i].entity = x /\ q \in Nat /\ i \in Nat
        BY <1>1, <2>1, HistoryType
      <4>2. Boundary(Topic(x)) \in Nat
        BY BoundaryMeans, TopicType
      <4>3. IsPublished(q)
        BY <3>1, <4>1, <4>2 DEF IsPublished
      <4> QED
        BY <1>1, <3>1, <4>1, <4>3
    <3> QED
      BY <1>1, <3>1 DEF Before
  <2>3. i \in History(s)
    <3>1. \A q : IsLastBefore(Concerning(s), i, q) => wal[q].state[s] # wal[i].state[s]
      BY <2>1, <2>2 DEF IsLastBefore
    <3> QED
      BY <1>1, <2>1, <3>1, ChangesMeans DEF History
  <2> QED
    BY <1>1, <2>1, <2>3 DEF PublishedComplete, Of
<1>3. Of(Recorded(s), x) # {}
  <2>1. PICK m \in seen : \A y \in seen : m <= y
    BY <1>1, LeastOf
  <2>2. Before(seen, m) = {}
    <3>1. SUFFICES ASSUME NEW q \in Before(seen, m) PROVE FALSE
      OBVIOUS
    <3>2. q \in seen /\ q < m /\ m <= q /\ q \in Nat /\ m \in Nat
      BY <1>1, <2>1, <3>1 DEF Before
    <3> QED
      BY <3>2
  <2>3. m \in StateChanges(seen, s)
    BY <1>1, <2>2, ChangesMeans DEF IsLastBefore
  <2> QED
    BY <1>2, <2>3
<1>4. PICK m \in Current(s, x) : Current(s, x) = {m}
  BY <1>3, CurrentMeans
<1>5. \A k \in Of(Recorded(s), x) : k <= m
  BY <1>4, CurrentMeans
<1> QED
  BY <1>2, <1>4, <1>5

(* Gold never falls behind what is published: half-loaded, superseded and   *)
(* replayed batches never make the current row of a Satellite an older one, *)
(* and no published loan is without its context.                            *)
THEOREM GoldStaysAhead == Spec => []GoldNeverFallsBehind
BY GoldInvariant, NeverBehindFollows, PTL

-----------------------------------------------------------------------------
(* Gold is the source                                                       *)

(* What is published is the history up to one position.                     *)
LEMMA ThroughMeans ==
    ASSUME GoldInv
    PROVE  /\ PublishedThrough \in Nat /\ PublishedThrough <= Len(wal)
           /\ 1 .. PublishedThrough \in SUBSET DOMAIN wal
           /\ \A i \in DOMAIN wal : IsPublished(i) <=> i <= PublishedThrough
<1> USE DEF GoldInv
<1> DEFINE S == {Boundary(t) : t \in Topics}
           P == PublishedThrough
<1>1. \A t \in Topics : Boundary(t) \in Nat /\ Boundary(t) <= Len(wal)
  BY BoundaryMeans
<1>2. Len(wal) \in Nat
  BY PositionType
<1>3. S \in SUBSET Nat /\ S # {} /\ \A y \in S : y <= Len(wal)
  BY <1>1 DEF Topics
<1>4. P = Max(S)
  BY DEF PublishedThrough
<1>5. P \in S /\ P \in Nat /\ \A y \in S : y <= P
  <2> HIDE DEF S, P
  <2> QED
    BY <1>2, <1>3, <1>4, MaxMeans
<1>6. PICK t \in Topics : P = Boundary(t)
  BY <1>5
<1>7. \A u \in Topics : Boundary(u) <= P
  BY <1>5
<1> HIDE DEF S, P
<1>8. P <= Len(wal)
  BY <1>1, <1>6
<1>9. ASSUME NEW i \in DOMAIN wal
      PROVE  IsPublished(i) <=> i <= P
  <2>1. i \in Nat /\ i >= 1 /\ Topic(wal[i].entity) \in Topics /\ DOMAIN wal = 1 .. Len(wal)
    BY PositionType, TopicType
  <2>2. IsPublished(i) => i <= P
    BY <1>1, <1>5, <1>7, <2>1 DEF IsPublished
  <2>3. ASSUME i <= P
        PROVE  IsPublished(i)
    <3>1. P \in DOMAIN wal /\ P # 0
      BY <1>2, <1>5, <1>8, <2>1, <2>3
    <3>2. Topic(wal[P].entity) = t
      BY <1>6, <3>1, BoundaryMeans
    <3>3. IsPublished(P)
      BY <1>5, <1>6, <3>2 DEF IsPublished
    <3>4. wal[i].transaction <= wal[P].transaction
      BY <2>3, <3>1 DEF SourceInv, Times
    <3> QED
      BY <3>1, <3>3, <3>4 DEF PublishedClosed
  <2> QED
    BY <2>2, <2>3
<1>10. 1 .. P \in SUBSET DOMAIN wal
  <2>1. DOMAIN wal = 1 .. Len(wal)
    BY PositionType
  <2> QED
    BY <1>2, <1>5, <1>8, <2>1
<1> QED
  BY <1>5, <1>8, <1>9, <1>10 DEF P

(* An entity's rows in the source, and the last of them.                    *)
Seen(x) == Of(1 .. PublishedThrough, x)
Last(x) == wal[Max(Seen(x))].state
IsThere(x) == Seen(x) # {} /\ Last(x).status = "ACTIVE"

LEMMA SeenMeans ==
    ASSUME GoldInv, NEW x, Seen(x) # {}
    PROVE  \E o \in Seen(x) :
             /\ o \in DOMAIN wal /\ wal[o].entity = x /\ Last(x) = wal[o].state
             /\ IsPublished(o) /\ \A y \in Seen(x) : y <= o
             /\ wal[o] \in Change /\ Shape(wal[o])
<1> DEFINE o == Max(Seen(x))
<1>1. 1 .. PublishedThrough \in SUBSET DOMAIN wal /\ PublishedThrough \in Nat
  BY ThroughMeans
<1>2. /\ o \in 1 .. PublishedThrough /\ wal[o].entity = x
      /\ \A y \in Seen(x) : y <= o
  BY <1>1, LastMeans DEF Seen, GoldInv
<1>3. Last(x) = wal[o].state
  BY DEF Last
<1> HIDE DEF o
<1>4. o \in DOMAIN wal /\ IsPublished(o) /\ o \in Seen(x)
  BY <1>1, <1>2, ThroughMeans DEF Seen, Of
<1>5. wal[o] \in Change /\ Shape(wal[o])
  BY <1>4, PositionType DEF GoldInv, SourceInv, Shapes
<1> QED
  BY <1>2, <1>3, <1>4, <1>5

(* While nothing is ahead, the rows of an entity in a Satellite are its     *)
(* changes that are published.                                              *)
LEMMA RecordedMeans ==
    ASSUME GoldInv, NothingIsAhead, NEW s \in Satellites, NEW x, NEW i
    PROVE  i \in Of(Recorded(s), x) <=> i \in History(s) /\ i \in Seen(x)
<1> USE DEF GoldInv
<1>1. PublishedThrough \in Nat
  BY ThroughMeans
<1>2. ASSUME i \in Recorded(s)
      PROVE  i \in History(s) /\ i \in 1 .. PublishedThrough
  <2>1. i \in History(s) /\ i \in DOMAIN wal /\ i \in Nat /\ i \in 1 .. Len(wal)
    BY <1>2, CurrentMeans, PositionType
  <2>2. IsPublished(i)
    BY <1>2 DEF NothingIsAhead, IsPublished
  <2>3. i <= PublishedThrough
    BY <2>1, <2>2, ThroughMeans
  <2> QED
    BY <1>1, <2>1, <2>3
<1>3. ASSUME i \in History(s), i \in 1 .. PublishedThrough
      PROVE  i \in Recorded(s)
  <2>1. i \in DOMAIN wal /\ i <= PublishedThrough
    BY <1>1, <1>3, HistoryType
  <2>2. IsPublished(i)
    BY <2>1, ThroughMeans
  <2> QED
    BY <1>3, <2>2 DEF PublishedComplete
<1> QED
  BY <1>2, <1>3 DEF Seen, Of

(* The current row of a Satellite has the state of the entity's last        *)
(* published change that concerns it.                                       *)
LEMMA CurrentIsLast ==
    ASSUME GoldInv, NothingIsAhead, NEW s \in Satellites, NEW x,
           NEW o \in Seen(x), o \in Concerning(s), \A y \in Seen(x) : y <= o
    PROVE  CurrentState(s, x) = {wal[o].state[s]} /\ Current(s, x) # {}
<1> USE DEF GoldInv
<1>1. PublishedThrough \in Nat /\ o \in 1 .. PublishedThrough /\ wal[o].entity = x
  BY ThroughMeans DEF Seen, Of
<1>2. PICK h \in History(s) :
        /\ h <= o /\ wal[h].entity = wal[o].entity /\ wal[h].state[s] = wal[o].state[s]
        /\ \A g \in History(s) : wal[g].entity = wal[o].entity /\ g <= o => g <= h
  BY ChangeBehindState
<1>3. h \in Nat /\ h \in DOMAIN wal /\ h >= 1
  BY HistoryType, PositionType
<1>4. h \in Of(Recorded(s), x)
  <2>1. h \in 1 .. PublishedThrough
    BY <1>1, <1>2, <1>3
  <2>2. h \in Seen(x)
    BY <1>1, <1>2, <2>1 DEF Seen, Of
  <2> QED
    BY <2>2, RecordedMeans
<1>5. ASSUME NEW g \in Of(Recorded(s), x)
      PROVE  g <= h
  <2>1. g \in History(s) /\ g \in Seen(x)
    BY RecordedMeans
  <2>2. wal[g].entity = x /\ g <= o
    BY <2>1 DEF Seen, Of
  <2> QED
    BY <1>1, <1>2, <2>1, <2>2
<1>6. h \in Current(s, x) /\ \E m \in Current(s, x) : Current(s, x) = {m}
  BY <1>4, <1>5, CurrentMeans
<1>7. Current(s, x) = {h}
  BY <1>6
<1> QED
  BY <1>2, <1>7 DEF CurrentState

LEMMA NothingIsCurrent ==
    ASSUME GoldInv, NothingIsAhead, NEW s \in Satellites, NEW x, Seen(x) = {}
    PROVE  CurrentState(s, x) = {}
<1>1. Of(Recorded(s), x) = {}
  BY RecordedMeans
<1> QED
  BY <1>1, CurrentMeans DEF CurrentState

LEMMA SatelliteNames == "details" \in Satellites /\ "status" \in Satellites /\ "context" \in Satellites
BY DEF Satellites

(* Gold takes an entity for active if the source has it.                    *)
LEMMA ActiveMeans ==
    ASSUME GoldInv, NothingIsAhead, NEW x \in Entities
    PROVE  Active(x) <=> IsThere(x)
<1>1. CASE Seen(x) = {}
  BY <1>1, NothingIsCurrent, SatelliteNames DEF Active, IsThere
<1>2. CASE Seen(x) # {}
  <2>1. PICK o \in Seen(x) :
             /\ o \in DOMAIN wal /\ wal[o].entity = x /\ Last(x) = wal[o].state
             /\ \A y \in Seen(x) : y <= o /\ wal[o] \in Change
    BY <1>2, SeenMeans
  <2>2. wal[o].state \in State /\ wal[o].state.status \in {"ACTIVE", "DELETED"}
    BY <2>1 DEF Change, State
  <2>3. o \in Concerning("status")
    BY <2>1, <2>2 DEF Concerning
  <2>4. CurrentState("status", x) = {wal[o].state["status"]}
    BY <2>1, <2>3, CurrentIsLast, SatelliteNames
  <2>5. CurrentState("status", x) = {Last(x).status}
    BY <2>1, <2>4
  <2> QED
    BY <1>2, <2>5 DEF Active, IsThere
<1> QED
  BY <1>1, <1>2

(* Of such an entity Gold has the source's values, and its Hub.             *)
LEMMA ThereMeans ==
    ASSUME GoldInv, NothingIsAhead, NEW x \in Entities, IsThere(x)
    PROVE  /\ CurrentState("details", x) = {Last(x).details} /\ Current("details", x) # {}
           /\ CurrentContext(x) = {Last(x).context}
           /\ x \in hubs
<1>1. PICK o \in Seen(x) :
             /\ o \in DOMAIN wal /\ wal[o].entity = x /\ Last(x) = wal[o].state
             /\ IsPublished(o) /\ \A y \in Seen(x) : y <= o
             /\ wal[o] \in Change /\ Shape(wal[o])
  BY SeenMeans DEF IsThere
<1>2. wal[o].state.status = "ACTIVE" /\ wal[o].state.details # "NULL"
  BY <1>1 DEF IsThere, Shape
<1>3. x \in hubs
  BY <1>1, <1>2 DEF GoldInv, HubsComplete
<1>4. CurrentState("details", x) = {Last(x).details} /\ Current("details", x) # {}
  <2>1. o \in Concerning("details")
    BY <1>1, <1>2 DEF Concerning
  <2>2. CurrentState("details", x) = {wal[o].state["details"]} /\ Current("details", x) # {}
    BY <1>1, <2>1, CurrentIsLast, SatelliteNames
  <2> QED
    BY <1>1, <2>2
<1>5. CurrentContext(x) = {Last(x).context}
  <2>1. CASE x \in Customers
    BY <1>1, <2>1 DEF CurrentContext, Shape
  <2>2. CASE x \notin Customers
    <3>1. wal[o].state.context # "NULL"
      BY <1>1, <2>2 DEF Shape
    <3>2. o \in Concerning("context")
      BY <1>1, <3>1 DEF Concerning
    <3>3. CurrentState("context", x) = {wal[o].state["context"]}
      BY <1>1, <3>2, CurrentIsLast, SatelliteNames
    <3> QED
      BY <1>1, <2>2, <3>3 DEF CurrentContext
  <2> QED
    BY <2>1, <2>2
<1> QED
  BY <1>3, <1>4, <1>5

(* The inner joins lose nothing: the fixture's customer and application     *)
(* come before every loan and are never deleted.                            *)
LEMMA JoinsLoseNothing ==
    ASSUME GoldInv, NothingIsAhead, NEW x \in {Application, Loan}, IsThere(x)
    PROVE  IsThere(Relation) /\ (x = Loan => Application \in hubs)
<1> USE DEF GoldInv, SourceInv
<1>1. PICK o \in Seen(x) : o \in DOMAIN wal /\ wal[o].entity = x
  BY SeenMeans DEF IsThere
<1>2. PublishedThrough \in Nat /\ o \in 1 .. PublishedThrough /\ wal # <<>>
  BY <1>1, ThroughMeans DEF Seen, Of
<1>3. /\ Len(wal) >= 3 /\ wal[1].entity = Lifecycle
      /\ wal[2].entity = Relation /\ wal[3].entity = Application
  BY <1>2 DEF SetupFirst
<1>4. o # 1 /\ o # 2 /\ (x = Loan => o # 3)
  BY <1>1, <1>3, EntitiesDiffer
<1>5. o \in Nat /\ o >= 1 /\ o <= PublishedThrough
  BY <1>2
<1>6. 2 \in 1 .. PublishedThrough /\ (x = Loan => 3 \in 1 .. PublishedThrough)
  BY <1>2, <1>4, <1>5
<1>7. Seen(Relation) # {}
  BY <1>3, <1>6 DEF Seen, Of
<1>8. PICK r \in Seen(Relation) :
        wal[r].entity = Relation /\ Last(Relation) = wal[r].state /\ Shape(wal[r])
  BY <1>7, SeenMeans
<1>9. IsThere(Relation)
  BY <1>7, <1>8, EntitiesDiffer DEF IsThere, Shape
<1>10. ASSUME x = Loan
       PROVE  Application \in hubs
  <2>1. 3 \in DOMAIN wal /\ 3 <= PublishedThrough
    BY <1>2, <1>6, <1>10, ThroughMeans
  <2>2. IsPublished(3) /\ Shape(wal[3])
    BY <2>1, ThroughMeans DEF Shapes
  <2>3. wal[3].state.status = "ACTIVE"
    BY <1>3, <2>2, EntitiesDiffer DEF Shape
  <2> QED
    BY <1>3, <2>1, <2>2, <2>3 DEF HubsComplete
<1> QED
  BY <1>9, <1>10

LEMMA GoldHasWhatIsThere ==
    ASSUME GoldInv, NothingIsAhead
    PROVE  dim_customer_current \cup fct_current = {x \in Entities : IsThere(x)}
<1>1. ASSUME NEW c \in Customers
      PROVE  c \in dim_customer_current <=> IsThere(c)
  <2>1. c \in Entities
    BY DEF Customers, Entities
  <2> QED
    BY <2>1, ActiveMeans, ThereMeans DEF dim_customer_current
<1>2. ASSUME NEW x \in {Application, Loan}
      PROVE  x \in fct_current <=> IsThere(x)
  <2>1. x \in Entities /\ Relation \in Customers
    BY DEF Customers, Entities
  <2>2. Active(x) <=> IsThere(x)
    BY <2>1, ActiveMeans
  <2>3. IsThere(x) => Joined(x)
    BY <1>1, <2>1, <2>2, ThereMeans, JoinsLoseNothing DEF Joined
  <2> QED
    BY <2>2, <2>3 DEF fct_current, Joined
<1>3. /\ dim_customer_current \subseteq Customers /\ fct_current \subseteq {Application, Loan}
      /\ Entities = Customers \cup {Application, Loan}
  BY DEF dim_customer_current, fct_current, Customers, Entities
<1> QED
  BY <1>1, <1>2, <1>3

LEMMA GoldFollows == GoldInv => GoldIsTheSource
<1> SUFFICES ASSUME GoldInv, NothingIsAhead
             PROVE  Gold = SourceRows(PublishedThrough)
  BY DEF GoldIsTheSource
<1> DEFINE row(x) == [entity |-> x, details |-> Last(x).details, context |-> Last(x).context]
           there == {x \in Entities : IsThere(x)}
           view(x) == {[entity |-> x, details |-> d, context |-> c] :
                          d \in CurrentState("details", x), c \in CurrentContext(x)}
<1>1. SourceRows(PublishedThrough) = {row(x) : x \in there}
  BY DEF SourceRows, IsThere, Seen, Last
<1>2. Gold = UNION {view(x) : x \in there}
  BY GoldHasWhatIsThere DEF Gold
<1>3. ASSUME NEW x \in there
      PROVE  view(x) = {row(x)}
  <2>1. CurrentState("details", x) = {Last(x).details} /\ CurrentContext(x) = {Last(x).context}
    BY ThereMeans
  <2> QED
    BY <2>1
<1> HIDE DEF row, view, there
<1>4. UNION {view(x) : x \in there} = {row(x) : x \in there}
  BY <1>3
<1> QED
  BY <1>1, <1>2, <1>4

(* While nothing beyond the published batches is loaded, the current Gold   *)
(* models are the source as it was after the last published transaction,    *)
(* however the topics were cut and however often the batches were loaded.   *)
THEOREM GoldShowsTheSource == Spec => []GoldIsTheSource
BY GoldInvariant, GoldFollows, PTL
=============================================================================
