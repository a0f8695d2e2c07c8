------------------------- MODULE SourceLedgerProofs -------------------------
(***************************************************************************)
(* Theorems about the reconciliation of batches with the source ledger, for *)
(* every number of topics, sessions, transactions and faults.               *)
(*                                                                          *)
(* A batch freezes its control while the source goes on.  What the control  *)
(* said stays true until the batch is published: the topics only grow above *)
(* the listing, and whatever commits later below the batch's boundary has   *)
(* been overtaken by the transaction the boundary belongs to.               *)
(***************************************************************************)
EXTENDS SourceLedger, FiniteSetTheorems, SequenceTheorems, TLAPS

(* A batch: its listing, what the listing missed, and its frozen control.   *)
Batch == [high: [Topics -> Nat], missed: SUBSET (Topics \X Nat),
          balanced: BOOLEAN, boundary: Nat]

StateTypes ==
    /\ wal \in Nat
    /\ open \subseteq Transaction
    /\ commits \in Seq(Transaction)
    /\ topic \in [Topics -> Seq(Nat)]
    /\ bronze \in [Topics -> Nat]
    /\ high \in [Topics -> Nat]
    /\ missed \subseteq Topics \X Nat
    /\ boundary \in Nat
    /\ faults \in 0 .. MaxFaults
    /\ batch = None \/ batch \in Batch

(* Offsets are within each other; an event is one of a committed            *)
(* transaction; a missed event lies below the watermark.                    *)
Offsets ==
    /\ \A t \in Topics : high[t] <= bronze[t] /\ bronze[t] <= Len(topic[t])
    /\ \A t \in Topics : \A o \in DOMAIN topic[t] : topic[t][o] \in Txids
    /\ \A t \in Topics : \A o \in Nat : <<t, o>> \in missed => o < high[t]

(* A topic is in commit order, also after a redelivery.                     *)
InCommitOrder ==
    \A t \in Topics : \A o, p \in DOMAIN topic[t] : o <= p => topic[t][o] <= topic[t][p]

(* Every transaction read a WAL position of its own as its boundary.        *)
Boundaries ==
    /\ \A x \in open : x.boundary \in 1 .. wal
    /\ \A x, y \in open : x.boundary = y.boundary => x = y
    /\ \A i \in Txids : commits[i].boundary \in 1 .. wal
    /\ \A i, j \in Txids : commits[i].boundary = commits[j].boundary => i = j
    /\ \A x \in open, i \in Txids : commits[i].boundary # x.boundary

(* A published boundary is that of a committed transaction.                 *)
IsBoundary(n) == n = 0 \/ \E j \in Txids : commits[j].boundary = n

BoundaryInv == boundary <= wal /\ IsBoundary(boundary)

(* An event that was missed has a published one behind it.                  *)
MissedInv ==
    \A t \in Topics : \A o \in Nat : <<t, o>> \in missed =>
        \E h \in Nat : o < h /\ h <= high[t] /\ <<t, h>> \notin missed

(* What is published of a transaction, and what the batch would add.        *)
Pub(i) == EventsIn(i, Zero, high, missed)
New(i) == EventsIn(i, high, batch.high, batch.missed)

PublishedInv ==
    \A i \in Txids :
        /\ Pub(i) # {} => /\ commits[i].recorded
                          /\ commits[i].boundary <= boundary
                          /\ Cardinality(Pub(i)) = Size(i)
        /\ commits[i].recorded /\ ~ Overtaken(i) /\ commits[i].boundary <= boundary =>
               Pub(i) # {}

(* The batch lies between the watermarks and Bronze.                        *)
BatchOffsets ==
    batch # None =>
        /\ \A t \in Topics : high[t] <= batch.high[t] /\ batch.high[t] <= bronze[t]
        /\ \A t \in Topics : \A o \in Nat : <<t, o>> \in batch.missed =>
              high[t] < o /\ o < batch.high[t]
        /\ boundary <= batch.boundary /\ batch.boundary <= wal
        /\ IsBoundary(batch.boundary)

(* What a balanced control promises, still, when the batch is published.    *)
BatchBalance ==
    batch # None /\ batch.balanced =>
        \A i \in Txids :
            /\ New(i) # {} => /\ commits[i].recorded
                              /\ boundary < commits[i].boundary
                              /\ commits[i].boundary <= batch.boundary
                              /\ Cardinality(New(i)) = Size(i)
            /\ /\ commits[i].recorded /\ ~ Overtaken(i)
               /\ boundary < commits[i].boundary /\ commits[i].boundary <= batch.boundary
               => New(i) # {}

LedgerInv ==
    /\ StateTypes /\ Offsets /\ InCommitOrder /\ Boundaries /\ BoundaryInv
    /\ MissedInv /\ PublishedInv /\ BatchOffsets /\ BatchBalance

-----------------------------------------------------------------------------
(* The operators                                                            *)

LEMMA FiniteFamily ==
    ASSUME NEW S, IsFiniteSet(S), NEW f, \A x \in S : IsFiniteSet(f[x])
    PROVE  IsFiniteSet(UNION {f[x] : x \in S})
<1> DEFINE T == {f[x] : x \in S}
           g == [x \in S |-> f[x]]
<1>1. g \in Surjection(S, T)
  BY DEF Surjection
<1>2. IsFiniteSet(T)
  BY <1>1, FS_Surjection
<1>3. \A x \in T : IsFiniteSet(x)
  OBVIOUS
<1> QED
  BY <1>2, <1>3, FS_UNION

(* An event of a transaction in an interval.                                *)
LEMMA EventsMeans ==
    ASSUME NEW i, NEW low, NEW top, NEW hole, NEW e
    PROVE  e \in EventsIn(i, low, top, hole) <=>
             /\ e \notin hole
             /\ \E t \in Topics : \E o \in low[t] + 1 .. top[t] : topic[t][o] = i /\ e = <<t, o>>
<1>1. ASSUME NEW t \in Topics
      PROVE  e \in Between(t, i, low[t], top[t]) <=>
               \E o \in low[t] + 1 .. top[t] : topic[t][o] = i /\ e = <<t, o>>
  BY DEF Between
<1> DEFINE all == UNION {Between(t, i, low[t], top[t]) : t \in Topics}
<1>2. e \in all <=> \E t \in Topics : e \in Between(t, i, low[t], top[t])
  OBVIOUS
<1>3. EventsIn(i, low, top, hole) = all \ hole
  BY DEF EventsIn
<1> HIDE DEF all
<1> QED
  BY <1>1, <1>2, <1>3

LEMMA EventsAreFinite ==
    ASSUME NEW i, NEW low \in [Topics -> Nat], NEW top \in [Topics -> Nat], NEW hole
    PROVE  IsFiniteSet(EventsIn(i, low, top, hole))
<1> DEFINE f == [t \in Topics |-> Between(t, i, low[t], top[t])]
<1>1. ASSUME NEW t \in Topics
      PROVE  IsFiniteSet(f[t])
  <2>1. low[t] + 1 \in Int /\ top[t] \in Int
    OBVIOUS
  <2>2. IsFiniteSet(low[t] + 1 .. top[t])
    BY <2>1, FS_Interval
  <2>3. IsFiniteSet({t} \X (low[t] + 1 .. top[t]))
    BY <2>2, FS_Singleton, FS_Product
  <2>4. f[t] \in SUBSET ({t} \X (low[t] + 1 .. top[t]))
    BY DEF Between
  <2> QED
    BY <2>3, <2>4, FS_Subset
<1>2. EventsIn(i, low, top, hole) \in SUBSET UNION {f[t] : t \in Topics}
  BY DEF EventsIn
<1> HIDE DEF f
<1>3. IsFiniteSet(UNION {f[t] : t \in Topics})
  BY <1>1, FiniteFamily, LedgerAssumption
<1> QED
  BY <1>2, <1>3, FS_Subset

LEMMA TransactionType ==
    ASSUME StateTypes
    PROVE  /\ Len(commits) \in Nat /\ Txids = 1 .. Len(commits)
           /\ \A i \in Txids : /\ i \in Nat
                               /\ commits[i] \in Transaction
                               /\ commits[i].boundary \in Nat
                               /\ commits[i].shape \in Shapes
<1>1. Len(commits) \in Nat /\ Txids = 1 .. Len(commits)
  BY DEF StateTypes, Txids
<1>2. \A i \in Txids : i \in Nat /\ commits[i] \in Transaction
  BY <1>1 DEF StateTypes
<1> QED
  BY <1>1, <1>2 DEF Transaction

(* Every transaction of the ledger has changes.                             *)
LEMMA SizeIsPositive ==
    ASSUME StateTypes, NEW i \in Txids
    PROVE  Size(i) \in Nat /\ Size(i) # 0
<1> DEFINE shape == commits[i].shape
           f == [t \in Topics |-> {t} \X (1 .. shape[t])]
<1>1. shape \in Shapes /\ shape \in [Topics -> Nat]
  BY TransactionType, LedgerAssumption
<1>2. PICK t \in Topics : shape[t] > 0
  BY <1>1, LedgerAssumption
<1> HIDE DEF shape
<1>3. ASSUME NEW u \in Topics
      PROVE  IsFiniteSet(f[u])
  <2>1. shape[u] \in Int /\ 1 \in Int
    BY <1>1
  <2> QED
    BY <2>1, FS_Interval, FS_Singleton, FS_Product
<1>4. Changes(shape) = UNION {f[u] : u \in Topics}
  BY DEF Changes
<1> HIDE DEF f
<1>5. IsFiniteSet(Changes(shape))
  BY <1>3, <1>4, FiniteFamily, LedgerAssumption
<1>6. 1 \in 1 .. shape[t]
  BY <1>1, <1>2
<1>7. <<t, 1>> \in Changes(shape)
  BY <1>6 DEF Changes
<1> QED
  BY <1>5, <1>7, FS_EmptySet, FS_CardinalityType DEF Size, shape

(* Counting is the same as looking.                                         *)
LEMMA CountMeans ==
    ASSUME NEW i, NEW low \in [Topics -> Nat], NEW top \in [Topics -> Nat], NEW hole
    PROVE  /\ Count(i, low, top, hole) \in Nat
           /\ Count(i, low, top, hole) > 0 <=> EventsIn(i, low, top, hole) # {}
<1> DEFINE E == EventsIn(i, low, top, hole)
<1>1. IsFiniteSet(E)
  BY EventsAreFinite
<1> HIDE DEF E
<1>2. Cardinality(E) \in Nat /\ (Cardinality(E) = 0 <=> E = {})
  BY <1>1, FS_EmptySet, FS_CardinalityType
<1> QED
  BY <1>2 DEF E, Count

LEMMA ZeroType == Zero \in [Topics -> Nat] /\ \A t \in Topics : Zero[t] = 0
BY DEF Zero

LEMMA PublishedMeans ==
    ASSUME StateTypes, NEW i
    PROVE  Published(i) <=> Pub(i) # {}
BY CountMeans, ZeroType DEF Published, Pub, StateTypes

(* The largest boundary of a batch.                                         *)
LEMMA LargestOf ==
    ASSUME NEW S \in SUBSET Nat, S # {}, NEW n \in Nat, \A s \in S : s <= n
    PROVE  Largest(S) \in S /\ \A m \in S : m <= Largest(S)
<1> DEFINE T == {n - s : s \in S}
           R == OpToRel(<, Nat)
<1>1. R = {ss \in Nat \X Nat : ss[1] < ss[2]}
  BY DEF OpToRel
<1>2. \A x, y \in Nat : <<x, y>> \in R <=> x < y
  BY <1>1
<1>3. IsWellFoundedOn(R, Nat)
  BY NatLessThanWellFounded
<1> HIDE DEF R
<1>4. \A s \in S : s \in Nat /\ n - s \in Nat
  OBVIOUS
<1>5. T \in SUBSET Nat /\ T # {}
  BY <1>4
<1>6. PICK m \in T : \A k \in T : <<k, m>> \notin R
  BY <1>3, <1>5, WFMin
<1>7. PICK x \in S : m = n - x
  OBVIOUS
<1>8. ASSUME NEW y \in S
      PROVE  y <= x
  <2>1. n - y \in Nat /\ m \in Nat /\ ~(n - y < m)
    BY <1>2, <1>4, <1>5, <1>6
  <2> QED
    BY <1>4, <1>7, <2>1
<1>9. \E x_1 \in S : \A y \in S : y <= x_1
  BY <1>8
<1> QED
  BY <1>9 DEF Largest

-----------------------------------------------------------------------------
(* Steps of the source and of the connector                                 *)

(* Transactions and events are only added.                                  *)
Grows ==
    /\ Txids \subseteq Txids'
    /\ \A i \in Txids : commits'[i] = commits[i]
    /\ \A t \in Topics :
        /\ Len(topic[t]) <= Len(topic'[t])
        /\ \A o \in DOMAIN topic[t] : topic'[t][o] = topic[t][o]

LEMMA TopicType ==
    ASSUME StateTypes, NEW t \in Topics
    PROVE  /\ Len(topic[t]) \in Nat /\ DOMAIN topic[t] = 1 .. Len(topic[t])
           /\ \A o \in DOMAIN topic[t] : topic[t][o] \in Nat
           /\ bronze[t] \in Nat /\ high[t] \in Nat
BY DEF StateTypes

LEMMA DeliverAppends ==
    ASSUME StateTypes, NEW txid \in Nat, NEW shape \in [Topics -> Nat], Deliver(txid, shape)
    PROVE  /\ topic' \in [Topics -> Seq(Nat)]
           /\ \A t \in Topics :
                /\ Len(topic'[t]) = Len(topic[t]) + shape[t]
                /\ DOMAIN topic'[t] = 1 .. Len(topic[t]) + shape[t]
                /\ \A o \in 1 .. Len(topic[t]) : topic'[t][o] = topic[t][o]
                /\ \A o \in DOMAIN topic'[t] : o > Len(topic[t]) => topic'[t][o] = txid
<1>1. ASSUME NEW t \in Topics
      PROVE  /\ topic'[t] \in Seq(Nat)
             /\ Len(topic'[t]) = Len(topic[t]) + shape[t]
             /\ DOMAIN topic'[t] = 1 .. Len(topic[t]) + shape[t]
             /\ \A o \in 1 .. Len(topic[t]) : topic'[t][o] = topic[t][o]
             /\ \A o \in DOMAIN topic'[t] : o > Len(topic[t]) => topic'[t][o] = txid
  <2>1. topic'[t] = topic[t] \o Events(txid, shape[t])
    BY DEF Deliver
  <2>2. topic[t] \in Seq(Nat) /\ shape[t] \in Nat
    BY DEF StateTypes
  <2> DEFINE n == shape[t]
             events == Events(txid, n)
  <2>3. n \in Nat
    BY <2>2
  <2> HIDE DEF n
  <2>4. events \in Seq(Nat) /\ Len(events) = n /\ \A k \in 1 .. n : events[k] = txid
    BY <2>3 DEF Events
  <2> HIDE DEF events
  <2>5. topic'[t] = topic[t] \o events
    BY <2>1 DEF events, n
  <2>6. /\ topic'[t] \in Seq(Nat)
        /\ Len(topic'[t]) = Len(topic[t]) + n
        /\ Len(topic[t]) \in Nat
    <3>1. topic[t] \o events \in Seq(Nat) /\ Len(topic[t] \o events) = Len(topic[t]) + Len(events)
      BY <2>2, <2>4, ConcatProperties
    <3> QED
      BY <2>2, <2>4, <2>5, <3>1
  <2>9. DOMAIN topic'[t] = 1 .. Len(topic[t]) + n
    BY <2>3, <2>6
  <2>7. \A o \in 1 .. Len(topic[t]) + n :
          topic'[t][o] = IF o <= Len(topic[t]) THEN topic[t][o] ELSE events[o - Len(topic[t])]
    BY <2>2, <2>3, <2>4, <2>5
  <2>8. \A o \in 1 .. Len(topic[t]) + n : o > Len(topic[t]) => o - Len(topic[t]) \in 1 .. n
    BY <2>3, <2>6
  <2> QED
    <3>1. \A o \in 1 .. Len(topic[t]) : o \in 1 .. Len(topic[t]) + n /\ o <= Len(topic[t])
      BY <2>3, <2>6
    <3>2. \A o \in 1 .. Len(topic[t]) : topic'[t][o] = topic[t][o]
      BY <2>7, <3>1
    <3>3. \A o \in 1 .. Len(topic[t]) + n : o > Len(topic[t]) => ~(o <= Len(topic[t]))
      BY <2>3, <2>6
    <3>4. \A o \in DOMAIN topic'[t] : o > Len(topic[t]) => topic'[t][o] = txid
      BY <2>4, <2>7, <2>8, <2>9, <3>3
    <3> QED
      BY <2>6, <2>9, <3>2, <3>4 DEF n
<1>2. topic' = [t \in Topics |-> topic'[t]]
  BY DEF Deliver
<1> QED
  BY <1>1, <1>2

(* What was published or listed of a transaction does not change.           *)
LEMMA EventsAreKept ==
    ASSUME StateTypes, Offsets, Grows, UNCHANGED <<batch, high, missed>>, NEW i
    PROVE  /\ Pub(i)' = Pub(i)
           /\ batch # None /\ BatchOffsets => New(i)' = New(i)
<1>1. ASSUME NEW t \in Topics, NEW low \in Nat, NEW top \in Nat, top <= Len(topic[t])
      PROVE  {p \in low + 1 .. top : topic'[t][p] = i} = {p \in low + 1 .. top : topic[t][p] = i}
  <2>1. \A p \in low + 1 .. top : p \in DOMAIN topic[t]
    BY <1>1, TopicType
  <2> QED
    BY <2>1 DEF Grows
<1>2. Pub(i)' = Pub(i)
  <2>1. ASSUME NEW t \in Topics
        PROVE  Between(t, i, Zero[t], high[t])' = Between(t, i, Zero[t], high[t])
    <3>1. Zero[t] \in Nat /\ high[t] \in Nat /\ high[t] <= Len(topic[t]) /\ high'[t] = high[t]
      BY TopicType, ZeroType DEF Offsets
    <3> QED
      BY <1>1, <3>1 DEF Between, Zero
  <2>2. UNION {Between(t, i, Zero[t], high[t])' : t \in Topics}
          = UNION {Between(t, i, Zero[t], high[t]) : t \in Topics}
    BY <2>1
  <2>3. /\ Pub(i) = (UNION {Between(t, i, Zero[t], high[t]) : t \in Topics}) \ missed
        /\ Pub(i)' = (UNION {Between(t, i, Zero[t], high[t])' : t \in Topics}) \ missed
    BY DEF Pub, EventsIn
  <2> QED
    BY <2>2, <2>3
<1>3. ASSUME batch # None, BatchOffsets
      PROVE  New(i)' = New(i)
  <2>1. ASSUME NEW t \in Topics
        PROVE  Between(t, i, high[t], batch.high[t])' = Between(t, i, high[t], batch.high[t])
    <3>1. /\ high[t] \in Nat /\ batch.high[t] \in Nat /\ batch.high[t] <= Len(topic[t])
          /\ high'[t] = high[t] /\ batch'.high[t] = batch.high[t]
      BY <1>3, TopicType DEF Offsets, BatchOffsets, StateTypes, Batch
    <3> QED
      BY <1>1, <3>1 DEF Between
  <2>2. UNION {Between(t, i, high[t], batch.high[t])' : t \in Topics}
          = UNION {Between(t, i, high[t], batch.high[t]) : t \in Topics}
    BY <2>1
  <2>3. /\ New(i) = (UNION {Between(t, i, high[t], batch.high[t]) : t \in Topics}) \ batch.missed
        /\ New(i)' = (UNION {Between(t, i, high[t], batch.high[t])' : t \in Topics}) \ batch.missed
    BY DEF New, EventsIn
  <2> QED
    BY <2>2, <2>3
<1> QED
  BY <1>2, <1>3

LEMMA SizeIsKept ==
    ASSUME Grows, NEW i \in Txids
    PROVE  Size(i)' = Size(i)
BY DEF Grows, Size, Changes

LEMMA OvertakenIsKept ==
    ASSUME StateTypes, Grows, NEW i \in Txids
    PROVE  Overtaken(i)' = Overtaken(i)
<1>1. \A j \in 1 .. i - 1 : j \in Txids
  BY TransactionType
<1> QED
  BY <1>1 DEF Grows, Overtaken

(* A transaction that commits below a boundary was overtaken.               *)
LEMMA LateIsOvertaken ==
    ASSUME StateTypes, StateTypes', Grows, Boundaries', NEW k \in Txids' \ Txids,
           NEW n \in Nat, IsBoundary(n), commits'[k].boundary <= n
    PROVE  Overtaken(k)'
<1>1. /\ k \in 1 .. Len(commits') /\ Txids' = 1 .. Len(commits') /\ Len(commits') \in Nat
      /\ Txids = 1 .. Len(commits) /\ Len(commits) \in Nat
  BY TransactionType DEF StateTypes, Txids
<1>2. commits'[k].boundary \in 1 .. wal' /\ wal' \in Nat
  BY DEF Boundaries, StateTypes
<1>3. PICK j \in Txids : commits[j].boundary = n
  BY <1>2 DEF IsBoundary
<1>4. j \in Txids' /\ commits'[j].boundary = n
  BY <1>3 DEF Grows
<1>5. j # k /\ j \in 1 .. k - 1
  BY <1>1, <1>3
<1>6. commits'[j].boundary # commits'[k].boundary
  BY <1>4, <1>5 DEF Boundaries
<1>7. commits'[j].boundary > commits'[k].boundary
  BY <1>2, <1>4, <1>6
<1> QED
  BY <1>5, <1>7 DEF Overtaken

(* A new transaction has neither published nor listed events.               *)
LEMMA NewHasNoEvents ==
    ASSUME StateTypes, Offsets, NEW k, k \notin Txids
    PROVE  /\ Pub(k) = {}
           /\ batch # None /\ BatchOffsets => New(k) = {}
<1>1. ASSUME NEW t \in Topics, NEW low \in Nat, NEW top \in Nat, top <= Len(topic[t]),
             NEW o \in low + 1 .. top
      PROVE  topic[t][o] # k
  <2>1. o \in DOMAIN topic[t]
    BY <1>1, TopicType
  <2> QED
    BY <2>1 DEF Offsets
<1>2. ASSUME NEW e \in Pub(k)
      PROVE  FALSE
  <2>1. PICK t \in Topics : \E o \in Zero[t] + 1 .. high[t] : topic[t][o] = k
    BY <1>2, EventsMeans DEF Pub
  <2>2. Zero[t] \in Nat /\ high[t] \in Nat /\ high[t] <= Len(topic[t])
    BY TopicType, ZeroType DEF Offsets
  <2> QED
    BY <1>1, <2>1, <2>2
<1>3. ASSUME batch # None, BatchOffsets, NEW e \in New(k)
      PROVE  FALSE
  <2>1. PICK t \in Topics : \E o \in high[t] + 1 .. batch.high[t] : topic[t][o] = k
    BY <1>3, EventsMeans DEF New
  <2>2. high[t] \in Nat /\ batch.high[t] \in Nat /\ batch.high[t] <= Len(topic[t])
    BY <1>3, TopicType DEF Offsets, BatchOffsets, StateTypes, Batch
  <2> QED
    BY <1>1, <2>1, <2>2
<1> QED
  BY <1>2, <1>3

(* Whatever is added behind them, the watermarks and the batch stay sound.  *)
LEMMA GrowthIsHarmless ==
    ASSUME LedgerInv, StateTypes', Boundaries', Grows,
           UNCHANGED <<batch, high, missed, boundary>>,
           wal <= wal', \A t \in Topics : bronze[t] <= bronze'[t]
    PROVE  BoundaryInv' /\ MissedInv' /\ PublishedInv' /\ BatchOffsets' /\ BatchBalance'
<1> USE DEF LedgerInv
<1>1. \A n : IsBoundary(n) => IsBoundary(n)'
  BY DEF IsBoundary, Grows
<1>2. boundary \in Nat /\ wal \in Nat /\ wal' \in Nat
  BY DEF StateTypes
<1>3. BoundaryInv'
  <2>1. IsBoundary(boundary)' /\ boundary <= wal'
    BY <1>1, <1>2 DEF BoundaryInv, IsBoundary
  <2> QED
    BY <2>1 DEF BoundaryInv
<1>4. MissedInv'
  BY DEF MissedInv
<1>5. ASSUME NEW i \in Txids
      PROVE  /\ Pub(i)' = Pub(i) /\ Size(i)' = Size(i) /\ Overtaken(i)' = Overtaken(i)
             /\ commits'[i] = commits[i]
             /\ batch # None => New(i)' = New(i)
  BY EventsAreKept, SizeIsKept, OvertakenIsKept DEF Grows
<1>6. ASSUME NEW k \in Txids' \ Txids
      PROVE  /\ Pub(k)' = {}
             /\ batch # None => New(k)' = {}
  <2>1. Pub(k) = {} /\ (batch # None => New(k) = {})
    BY <1>6, NewHasNoEvents
  <2> QED
    BY <2>1, EventsAreKept
<1>7. PublishedInv'
  <2>1. ASSUME NEW i \in Txids', i \in Txids
        PROVE  /\ Pub(i)' # {} => /\ commits'[i].recorded
                                  /\ commits'[i].boundary <= boundary
                                  /\ Cardinality(Pub(i)') = Size(i)'
               /\ commits'[i].recorded /\ ~ Overtaken(i)' /\ commits'[i].boundary <= boundary =>
                      Pub(i)' # {}
    BY <1>5, <2>1 DEF PublishedInv
  <2>2. ASSUME NEW i \in Txids', i \notin Txids
        PROVE  /\ Pub(i)' = {}
               /\ commits'[i].boundary <= boundary => Overtaken(i)'
    BY <1>2, <1>6, <2>2, LateIsOvertaken DEF BoundaryInv
  <2> QED
    BY <2>1, <2>2 DEF PublishedInv
<1>8. BatchOffsets'
  <2> SUFFICES ASSUME batch # None PROVE BatchOffsets'
    BY DEF BatchOffsets
  <2>1. batch.boundary \in Nat /\ batch.boundary <= wal'
    BY <1>2 DEF BatchOffsets, StateTypes, Batch
  <2>2. ASSUME NEW t \in Topics
        PROVE  high[t] <= batch.high[t] /\ batch.high[t] <= bronze'[t]
    <3>1. batch.high[t] \in Nat /\ bronze[t] \in Nat /\ bronze'[t] \in Nat
      BY DEF StateTypes, Batch
    <3> QED
      BY <3>1 DEF BatchOffsets
  <2>3. IsBoundary(batch.boundary)'
    BY <1>1 DEF BatchOffsets, IsBoundary
  <2> QED
    BY <2>1, <2>2, <2>3 DEF BatchOffsets
<1>9. BatchBalance'
  <2> SUFFICES ASSUME batch # None, batch.balanced PROVE BatchBalance'
    BY DEF BatchBalance
  <2>1. ASSUME NEW i \in Txids', i \in Txids
        PROVE  /\ New(i)' # {} => /\ commits'[i].recorded
                                  /\ boundary < commits'[i].boundary
                                  /\ commits'[i].boundary <= batch.boundary
                                  /\ Cardinality(New(i)') = Size(i)'
               /\ /\ commits'[i].recorded /\ ~ Overtaken(i)'
                  /\ boundary < commits'[i].boundary /\ commits'[i].boundary <= batch.boundary
                  => New(i)' # {}
    BY <1>5, <2>1 DEF BatchBalance
  <2>2. batch.boundary \in Nat /\ IsBoundary(batch.boundary)
    BY DEF BatchOffsets, StateTypes, Batch
  <2>3. ASSUME NEW i \in Txids', i \notin Txids
        PROVE  /\ New(i)' = {}
               /\ commits'[i].boundary <= batch.boundary => Overtaken(i)'
    BY <1>6, <2>2, <2>3, LateIsOvertaken
  <2> QED
    BY <2>1, <2>3 DEF BatchBalance
<1> QED
  BY <1>3, <1>4, <1>7, <1>8, <1>9

LEMMA BeginStep ==
    ASSUME LedgerInv, NEW shape \in Shapes, NEW recorded \in BOOLEAN, Begin(shape, recorded)
    PROVE  LedgerInv'
<1> DEFINE x == [shape |-> shape, boundary |-> wal + 1, recorded |-> recorded]
<1> USE DEF LedgerInv
<1>1. wal \in Nat /\ faults \in Nat /\ MaxFaults \in Nat
  BY LedgerAssumption DEF StateTypes
<1>2. x \in Transaction /\ x.boundary = wal + 1
  BY <1>1 DEF Transaction
<1> HIDE DEF x
<1>3. /\ wal' = wal + 1 /\ open' = open \cup {x}
      /\ faults' = (IF recorded THEN faults ELSE faults + 1)
      /\ recorded \/ faults < MaxFaults
      /\ UNCHANGED <<commits, topic, bronze, batch, high, missed, boundary>>
  BY DEF Begin, x
<1>4. StateTypes'
  <2>1. faults' \in 0 .. MaxFaults
    BY <1>1, <1>3 DEF StateTypes
  <2> QED
    BY <1>1, <1>2, <1>3, <2>1 DEF StateTypes
<1>5. Grows
  BY <1>3, TopicType DEF Grows, Txids
<1>6. Offsets'
  BY <1>3 DEF Offsets, Txids
<1>7. InCommitOrder'
  BY <1>3 DEF InCommitOrder
<1>8. Boundaries'
  <2>1. \A y \in open : y.boundary \in 1 .. wal' /\ y.boundary # x.boundary
    BY <1>1, <1>2, <1>3 DEF Boundaries
  <2>2. \A i \in Txids : commits[i].boundary \in 1 .. wal' /\ commits[i].boundary # x.boundary
    BY <1>1, <1>2, <1>3 DEF Boundaries
  <2>3. x.boundary \in 1 .. wal'
    BY <1>1, <1>2, <1>3
  <2>4. Txids' = Txids
    BY <1>3 DEF Txids
  <2> QED
    BY <1>3, <2>1, <2>2, <2>3, <2>4 DEF Boundaries
<1>9. wal <= wal' /\ \A t \in Topics : bronze[t] <= bronze'[t]
  BY <1>1, <1>3, TopicType
<1> QED
  BY <1>3, <1>4, <1>5, <1>6, <1>7, <1>8, <1>9, GrowthIsHarmless

(* An append of the newest transaction keeps Offsets and the order.         *)
LEMMA DeliverStep ==
    ASSUME StateTypes, Offsets, InCommitOrder, StateTypes', Txids \subseteq Txids',
           \A i \in Txids : commits'[i] = commits[i],
           NEW txid \in Txids', \A i \in Txids : i <= txid,
           NEW shape \in [Topics -> Nat], Deliver(txid, shape),
           UNCHANGED <<bronze, high, missed>>
    PROVE  Grows /\ Offsets' /\ InCommitOrder'
<1>0. txid \in Nat
  BY DEF StateTypes, Txids
<1>1. \A t \in Topics :
        /\ Len(topic[t]) \in Nat /\ shape[t] \in Nat
        /\ Len(topic'[t]) = Len(topic[t]) + shape[t]
        /\ DOMAIN topic'[t] = 1 .. Len(topic[t]) + shape[t]
        /\ DOMAIN topic[t] = 1 .. Len(topic[t])
        /\ \A o \in 1 .. Len(topic[t]) : topic'[t][o] = topic[t][o]
        /\ \A o \in DOMAIN topic'[t] : o > Len(topic[t]) => topic'[t][o] = txid
  BY <1>0, DeliverAppends, TopicType
<1>2. Grows
  BY <1>1 DEF Grows
<1>3. ASSUME NEW t \in Topics, NEW o \in DOMAIN topic'[t]
      PROVE  IF o <= Len(topic[t]) THEN o \in DOMAIN topic[t] /\ topic'[t][o] = topic[t][o]
             ELSE topic'[t][o] = txid
  BY <1>1
<1>4. Offsets'
  <2>1. \A t \in Topics : high[t] <= bronze[t] /\ bronze[t] <= Len(topic'[t])
    BY <1>1, TopicType DEF Offsets
  <2>2. \A t \in Topics : \A o \in DOMAIN topic'[t] : topic'[t][o] \in Txids'
    BY <1>3 DEF Offsets
  <2> QED
    BY <2>1, <2>2 DEF Offsets
<1>5. ASSUME NEW t \in Topics, NEW o \in DOMAIN topic'[t], NEW p \in DOMAIN topic'[t], o <= p
      PROVE  topic'[t][o] <= topic'[t][p]
  <2>1. CASE p <= Len(topic[t])
    <3>1. o <= Len(topic[t])
      BY <1>1, <1>5, <2>1
    <3> QED
      BY <1>3, <1>5, <2>1, <3>1 DEF InCommitOrder
  <2>2. CASE ~(p <= Len(topic[t])) /\ o <= Len(topic[t])
    <3>1. topic'[t][o] = topic[t][o] /\ topic[t][o] \in Txids /\ topic'[t][p] = txid
      BY <1>3, <2>2 DEF Offsets
    <3> QED
      BY <3>1
  <2>3. CASE ~(p <= Len(topic[t])) /\ ~(o <= Len(topic[t]))
    BY <1>0, <1>3, <2>3
  <2> QED
    BY <2>1, <2>2, <2>3
<1> QED
  BY <1>2, <1>4, <1>5 DEF InCommitOrder

LEMMA CommitStep ==
    ASSUME LedgerInv, NEW x \in open, Commit(x)
    PROVE  LedgerInv'
<1> USE DEF LedgerInv
<1>1. x \in Transaction /\ x.shape \in [Topics -> Nat]
  BY LedgerAssumption DEF StateTypes, Transaction
<1>2. /\ commits' = Append(commits, x) /\ Deliver(Len(commits) + 1, x.shape)
      /\ open' = open \ {x}
      /\ UNCHANGED <<wal, bronze, batch, high, missed, boundary, faults>>
  BY DEF Commit
<1>3. /\ commits' \in Seq(Transaction) /\ commits \in Seq(Transaction)
      /\ Len(commits) \in Nat /\ Txids = 1 .. Len(commits) /\ Txids' = 1 .. Len(commits) + 1
      /\ commits'[Len(commits) + 1] = x
      /\ \A i \in Txids : commits'[i] = commits[i]
  BY <1>1, <1>2 DEF StateTypes, Txids
<1>4. StateTypes'
  <2>1. topic' \in [Topics -> Seq(Nat)]
    BY <1>1, <1>2, <1>3, DeliverAppends
  <2> QED
    BY <1>2, <1>3, <2>1 DEF StateTypes
<1>5. Grows /\ Offsets' /\ InCommitOrder'
  <2>1. /\ Txids \subseteq Txids' /\ Len(commits) + 1 \in Txids'
        /\ \A i \in Txids : i <= Len(commits) + 1
    BY <1>3
  <2> QED
    BY <1>1, <1>2, <1>3, <1>4, <2>1, DeliverStep
<1>6. Boundaries'
  <2>1. \A i \in Txids' : \/ i \in Txids /\ commits'[i] = commits[i]
                          \/ i = Len(commits) + 1 /\ commits'[i] = x
    BY <1>3
  <2>2. open' \subseteq open /\ x \notin open' /\ wal' = wal
    BY <1>2
  <2>3. \A i \in Txids' : commits'[i].boundary \in 1 .. wal'
    BY <2>1, <2>2 DEF Boundaries
  <2>4. \A i, j \in Txids' : commits'[i].boundary = commits'[j].boundary => i = j
    BY <2>1 DEF Boundaries
  <2>5. \A y \in open', i \in Txids' : commits'[i].boundary # y.boundary
    BY <2>1, <2>2 DEF Boundaries
  <2>6. /\ \A y \in open' : y.boundary \in 1 .. wal'
        /\ \A y, z \in open' : y.boundary = z.boundary => y = z
    BY <2>2 DEF Boundaries
  <2> QED
    BY <2>3, <2>4, <2>5, <2>6 DEF Boundaries
<1>7. wal <= wal' /\ \A t \in Topics : bronze[t] <= bronze'[t]
  BY <1>2, TopicType DEF StateTypes
<1> QED
  BY <1>2, <1>4, <1>5, <1>6, <1>7, GrowthIsHarmless

LEMMA RollbackStep ==
    ASSUME LedgerInv, NEW x \in open, Rollback(x)
    PROVE  LedgerInv'
<1> USE DEF LedgerInv
<1>1. /\ faults' = faults + 1 /\ faults < MaxFaults
      /\ open' = open \ {x}
      /\ UNCHANGED <<wal, commits, topic, bronze, batch, high, missed, boundary>>
  BY DEF Rollback
<1>2. StateTypes'
  <2>1. faults' \in 0 .. MaxFaults
    BY <1>1, LedgerAssumption DEF StateTypes
  <2> QED
    BY <1>1, <2>1 DEF StateTypes
<1>3. Grows
  BY <1>1, TopicType DEF Grows, Txids
<1>4. Offsets' /\ InCommitOrder'
  BY <1>1 DEF Offsets, InCommitOrder, Txids
<1>5. Boundaries'
  BY <1>1 DEF Boundaries, Txids
<1>6. wal <= wal' /\ \A t \in Topics : bronze[t] <= bronze'[t]
  BY <1>1, TopicType DEF StateTypes
<1> QED
  BY <1>1, <1>2, <1>3, <1>4, <1>5, <1>6, GrowthIsHarmless

LEMMA RedeliverStep ==
    ASSUME LedgerInv, Redeliver
    PROVE  LedgerInv'
<1> USE DEF LedgerInv
<1> DEFINE last == Len(commits)
<1>1. /\ commits # <<>> /\ faults < MaxFaults /\ faults' = faults + 1
      /\ Deliver(last, commits[last].shape)
      /\ UNCHANGED <<wal, open, commits, bronze, batch, high, missed, boundary>>
  BY DEF Redeliver, source
<1>2. last \in Txids /\ last \in Nat /\ Txids' = Txids /\ \A i \in Txids : i <= last
  BY <1>1, TransactionType DEF StateTypes, Txids
<1>3. commits[last].shape \in [Topics -> Nat]
  BY <1>2, TransactionType, LedgerAssumption
<1>4. StateTypes'
  <2>1. faults' \in 0 .. MaxFaults
    BY <1>1, LedgerAssumption DEF StateTypes
  <2>2. topic' \in [Topics -> Seq(Nat)]
    BY <1>1, <1>2, <1>3, DeliverAppends
  <2> QED
    BY <1>1, <2>1, <2>2 DEF StateTypes
<1>5. Grows /\ Offsets' /\ InCommitOrder'
  BY <1>1, <1>2, <1>3, <1>4, DeliverStep
<1>6. Boundaries'
  BY <1>1, <1>2 DEF Boundaries
<1>7. wal <= wal' /\ \A t \in Topics : bronze[t] <= bronze'[t]
  BY <1>1, TopicType DEF StateTypes
<1> QED
  BY <1>1, <1>4, <1>5, <1>6, <1>7, GrowthIsHarmless

LEMMA ArriveStep ==
    ASSUME LedgerInv, NEW t \in Topics, Arrive(t)
    PROVE  LedgerInv'
<1> USE DEF LedgerInv
<1>1. /\ bronze[t] < Len(topic[t]) /\ bronze' = [bronze EXCEPT ![t] = @ + 1]
      /\ UNCHANGED <<wal, open, commits, topic, batch, high, missed, boundary, faults>>
  BY DEF Arrive, source
<1>2. \A u \in Topics : /\ bronze'[u] = IF u = t THEN bronze[u] + 1 ELSE bronze[u]
                        /\ bronze[u] \in Nat /\ high[u] \in Nat /\ Len(topic[u]) \in Nat
  BY <1>1, TopicType DEF StateTypes
<1>3. StateTypes'
  BY <1>1 DEF StateTypes
<1>4. Grows
  BY <1>1, TopicType DEF Grows, Txids
<1>5. Offsets'
  <2>1. \A u \in Topics : high[u] <= bronze'[u] /\ bronze'[u] <= Len(topic[u])
    BY <1>1, <1>2 DEF Offsets
  <2> QED
    BY <1>1, <2>1 DEF Offsets, Txids
<1>6. InCommitOrder' /\ Boundaries'
  BY <1>1 DEF InCommitOrder, Boundaries, Txids
<1>7. wal <= wal' /\ \A u \in Topics : bronze[u] <= bronze'[u]
  BY <1>1, <1>2 DEF StateTypes
<1> QED
  BY <1>1, <1>3, <1>4, <1>5, <1>6, <1>7, GrowthIsHarmless

-----------------------------------------------------------------------------
(* Steps of the control plane                                               *)

(* A balanced control is what BatchBalance says, at the moment it is made.  *)
LEMMA BalancedMeans ==
    ASSUME StateTypes, NEW listing \in [Topics -> Nat], NEW hole, Balanced(listing, hole),
           NEW limit \in Nat, boundary <= limit,
           \A i \in ThroughObservedBoundary(listing, hole) : commits[i].boundary <= limit,
           \/ limit = boundary
           \/ \E i \in ThroughObservedBoundary(listing, hole) : commits[i].boundary = limit,
           NEW i \in Txids
    PROVE  /\ EventsIn(i, high, listing, hole) # {} =>
                /\ commits[i].recorded
                /\ boundary < commits[i].boundary
                /\ commits[i].boundary <= limit
                /\ Count(i, high, listing, hole) = Size(i)
           /\ /\ commits[i].recorded
              /\ boundary < commits[i].boundary /\ commits[i].boundary <= limit
              => EventsIn(i, high, listing, hole) # {}
<1> DEFINE through == ThroughObservedBoundary(listing, hole)
           observed == Observed(listing, hole)
<1>1. /\ boundary \in Nat /\ \A j \in Txids : commits[j].boundary \in Nat
      /\ high \in [Topics -> Nat]
  BY TransactionType DEF StateTypes
<1>2. /\ through = {k \in Recorded : \E j \in Recorded \cap observed :
                                        commits[k].boundary <= commits[j].boundary}
      /\ observed = {k \in Txids : Count(k, high, listing, hole) > 0}
      /\ Recorded = {k \in Txids : commits[k].recorded /\ commits[k].boundary > boundary}
      /\ \A k \in through : Count(k, high, listing, hole) = Size(k)
      /\ observed \subseteq through
  BY DEF ThroughObservedBoundary, Observed, Recorded, Balanced
<1> HIDE DEF through, observed
<1>3. ASSUME EventsIn(i, high, listing, hole) # {}
      PROVE  /\ commits[i].recorded
             /\ boundary < commits[i].boundary
             /\ commits[i].boundary <= limit
             /\ Count(i, high, listing, hole) = Size(i)
  <2>1. i \in observed
    BY <1>1, <1>2, <1>3, CountMeans
  <2>2. i \in through /\ i \in Recorded
    BY <1>2, <2>1
  <2> QED
    BY <1>1, <1>2, <2>2 DEF through
<1>4. ASSUME commits[i].recorded, boundary < commits[i].boundary, commits[i].boundary <= limit
      PROVE  EventsIn(i, high, listing, hole) # {}
  <2>1. i \in Recorded
    BY <1>1, <1>2, <1>4
  <2>2. PICK k \in through : commits[k].boundary = limit
    BY <1>1, <1>4 DEF through
  <2>3. PICK j \in Recorded \cap observed : commits[k].boundary <= commits[j].boundary
    BY <1>2, <2>2
  <2>4. j \in Txids /\ k \in Txids
    BY <1>2, <2>2, <2>3
  <2>5. commits[i].boundary <= commits[j].boundary
    BY <1>1, <1>4, <2>2, <2>3, <2>4
  <2>6. i \in through
    BY <1>2, <2>1, <2>3, <2>5
  <2>7. Count(i, high, listing, hole) = Size(i)
    BY <1>2, <2>6
  <2>8. Count(i, high, listing, hole) # 0
    BY <2>7, SizeIsPositive
  <2> QED
    BY <1>1, <2>8, CountMeans
<1> QED
  BY <1>3, <1>4

LEMMA ListingType ==
    ASSUME StateTypes, NEW listing \in Listings
    PROVE  /\ listing \in [Topics -> Nat]
           /\ \A t \in Topics : high[t] <= listing[t] /\ listing[t] <= bronze[t]
<1>1. \A t \in Topics : bronze[t] \in Nat
  BY DEF StateTypes
<1>2. UNION {0 .. bronze[t] : t \in Topics} \subseteq Nat
  BY <1>1
<1> QED
  BY <1>2 DEF Listings

LEMMA HoleMeans ==
    ASSUME StateTypes, NEW listing \in [Topics -> Nat], NEW hole \in Holes(listing)
    PROVE  /\ hole \in SUBSET (Topics \X Nat)
           /\ \A t \in Topics : \A o \in Nat : <<t, o>> \in hole => high[t] < o /\ o < listing[t]
<1>1. CASE hole = {}
  BY <1>1
<1>2. CASE hole # {}
  <2> DEFINE family == {{{<<t, o>>} : o \in high[t] + 1 .. listing[t] - 1} : t \in Topics}
  <2>1. Holes(listing) = {{}} \cup UNION family
    BY DEF Holes
  <2>2. PICK F \in family : hole \in F
    <3> HIDE DEF family
    <3> QED
      BY <1>2, <2>1
  <2>3. PICK t \in Topics : F = {{<<t, o>>} : o \in high[t] + 1 .. listing[t] - 1}
    OBVIOUS
  <2>4. PICK o \in high[t] + 1 .. listing[t] - 1 : hole = {<<t, o>>}
    BY <2>2, <2>3
  <2>5. high[t] \in Nat /\ listing[t] \in Nat
    BY DEF StateTypes
  <2>6. o \in Nat /\ high[t] < o /\ o < listing[t]
    BY <2>5
  <2> QED
    BY <2>4, <2>6
<1> QED
  BY <1>1, <1>2

LEMMA SealStep ==
    ASSUME LedgerInv, Seal
    PROVE  LedgerInv'
<1> USE DEF LedgerInv
<1>1. PICK listing \in Listings : \E hole \in Holes(listing) : SealListing(listing, hole)
  BY DEF Seal
<1>2. PICK hole \in Holes(listing) : SealListing(listing, hole)
  BY <1>1
<1> DEFINE through == ThroughObservedBoundary(listing, hole)
           all == {boundary} \cup {commits[i].boundary : i \in through}
           limit == Largest(all)
           bal == Balanced(listing, hole)
<1>3. /\ batch' = [high |-> listing, missed |-> hole, balanced |-> bal, boundary |-> limit]
      /\ hole # {} => faults < MaxFaults
      /\ faults' = (IF hole = {} THEN faults ELSE faults + 1)
      /\ UNCHANGED <<wal, open, commits, topic, bronze, high, missed, boundary>>
  BY <1>2 DEF SealListing, source
<1>4. /\ through \subseteq Txids
      /\ boundary \in Nat /\ wal \in Nat /\ boundary <= wal
      /\ \A i \in Txids : commits[i].boundary \in Nat /\ commits[i].boundary <= wal
  <2>1. boundary \in Nat /\ wal \in Nat /\ boundary <= wal
    BY DEF StateTypes, BoundaryInv
  <2>2. through \subseteq Txids
    BY DEF ThroughObservedBoundary, Recorded
  <2>3. \A i \in Txids : commits[i].boundary \in 1 .. wal
    BY DEF Boundaries
  <2> QED
    BY <2>1, <2>2, <2>3
<1> HIDE DEF through
<1>5. limit \in all /\ \A m \in all : m <= limit
  <2>1. all \in SUBSET Nat /\ all # {} /\ \A m \in all : m <= wal
    BY <1>4
  <2> QED
    BY <1>4, <2>1, LargestOf
<1> HIDE DEF limit
<1>6. /\ limit \in Nat /\ boundary <= limit /\ limit <= wal
      /\ \A i \in through : commits[i].boundary <= limit
      /\ limit = boundary \/ \E i \in through : commits[i].boundary = limit
  BY <1>4, <1>5
<1>7. /\ listing \in [Topics -> Nat]
      /\ \A t \in Topics : high[t] <= listing[t] /\ listing[t] <= bronze[t]
  BY ListingType
<1>8. /\ hole \in SUBSET (Topics \X Nat)
      /\ \A t \in Topics : \A o \in Nat : <<t, o>> \in hole => high[t] < o /\ o < listing[t]
  BY <1>7, HoleMeans
<1>9. bal \in BOOLEAN
  BY DEF Balanced
<1> HIDE DEF bal
<1>10. StateTypes'
  <2>1. batch' \in Batch
    BY <1>3, <1>6, <1>7, <1>8, <1>9 DEF Batch
  <2>2. faults' \in 0 .. MaxFaults
    BY <1>3, LedgerAssumption DEF StateTypes
  <2> QED
    BY <1>3, <2>1, <2>2 DEF StateTypes
<1>11. Offsets' /\ InCommitOrder' /\ Boundaries' /\ BoundaryInv' /\ MissedInv'
  BY <1>3 DEF Offsets, InCommitOrder, Boundaries, BoundaryInv, MissedInv, IsBoundary, Txids
<1>12. PublishedInv'
  <2>1. \A i : /\ Pub(i)' = Pub(i) /\ Size(i)' = Size(i) /\ Overtaken(i)' = Overtaken(i)
    BY <1>3 DEF Pub, EventsIn, Between, Zero, Size, Overtaken
  <2> QED
    BY <1>3, <2>1 DEF PublishedInv, Txids
<1>13. BatchOffsets'
  <2>1. IsBoundary(limit)
    <3>1. CASE limit = boundary
      BY <3>1 DEF BoundaryInv
    <3>2. CASE limit # boundary
      BY <1>4, <1>6, <3>2 DEF IsBoundary
    <3> QED
      BY <3>1, <3>2
  <2>2. batch'.high = listing /\ batch'.missed = hole /\ batch'.boundary = limit
    BY <1>3
  <2>3. IsBoundary(batch.boundary)'
    BY <1>3, <2>1, <2>2 DEF IsBoundary, Txids
  <2> QED
    BY <1>3, <1>6, <1>7, <1>8, <2>2, <2>3 DEF BatchOffsets
<1>14. BatchBalance'
  <2> SUFFICES ASSUME bal PROVE BatchBalance'
    BY <1>3 DEF BatchBalance
  <2>1. ASSUME NEW i \in Txids
        PROVE  /\ EventsIn(i, high, listing, hole) # {} =>
                    /\ commits[i].recorded
                    /\ boundary < commits[i].boundary
                    /\ commits[i].boundary <= limit
                    /\ Count(i, high, listing, hole) = Size(i)
               /\ /\ commits[i].recorded
                  /\ boundary < commits[i].boundary /\ commits[i].boundary <= limit
                  => EventsIn(i, high, listing, hole) # {}
    BY <1>6, <1>7, BalancedMeans DEF bal, through
  <2>2. ASSUME NEW i
        PROVE  New(i)' = EventsIn(i, high, listing, hole) /\ Size(i)' = Size(i)
    BY <1>3 DEF New, EventsIn, Between, Size
  <2>3. batch'.boundary = limit /\ Txids' = Txids
    BY <1>3 DEF Txids
  <2> QED
    BY <1>3, <2>1, <2>2, <2>3 DEF BatchBalance, Count
<1> QED
  BY <1>10, <1>11, <1>12, <1>13, <1>14

(* What the batch adds to a transaction, it adds above what is published.   *)
LEMMA PublishAdds ==
    ASSUME LedgerInv, Publish, NEW i
    PROVE  Pub(i)' = Pub(i) \cup New(i)
<1> USE DEF LedgerInv
<1>1. /\ batch # None /\ high' = batch.high /\ missed' = missed \cup batch.missed
      /\ topic' = topic
  BY DEF Publish
<1>2. \A t \in Topics : /\ high[t] \in Nat /\ batch.high[t] \in Nat
                        /\ high[t] <= batch.high[t] /\ Zero[t] = 0
  BY <1>1, ZeroType DEF StateTypes, Batch, BatchOffsets
<1>3. \A e : e \in Pub(i)' <=>
        /\ e \notin missed \cup batch.missed
        /\ \E t \in Topics : \E o \in 1 .. batch.high[t] : topic[t][o] = i /\ e = <<t, o>>
  <2>1. Pub(i)' = EventsIn(i, Zero, batch.high, missed \cup batch.missed)
    BY <1>1 DEF Pub, EventsIn, Between, Zero
  <2>2. \A t \in Topics : Zero[t] + 1 = 1
    BY <1>2
  <2> QED
    BY <2>1, <2>2, EventsMeans
<1>4. \A e : e \in Pub(i) <=>
        /\ e \notin missed
        /\ \E t \in Topics : \E o \in 1 .. high[t] : topic[t][o] = i /\ e = <<t, o>>
  <2>1. \A t \in Topics : Zero[t] + 1 = 1
    BY <1>2
  <2> QED
    BY <2>1, EventsMeans DEF Pub
<1>5. \A e : e \in New(i) <=>
        /\ e \notin batch.missed
        /\ \E t \in Topics : \E o \in high[t] + 1 .. batch.high[t] : topic[t][o] = i /\ e = <<t, o>>
  BY EventsMeans DEF New
<1>6. ASSUME NEW t \in Topics, NEW o \in 1 .. batch.high[t], topic[t][o] = i
      PROVE  <<t, o>> \in Pub(i)' <=> <<t, o>> \in Pub(i) \cup New(i)
  <2>1. o \in Nat /\ 1 <= o /\ o <= batch.high[t]
    BY <1>2
  <2>2. CASE o <= high[t]
    <3>1. o \in 1 .. high[t]
      BY <1>2, <2>1, <2>2
    <3>2. <<t, o>> \notin batch.missed
      BY <1>1, <1>2, <2>1, <2>2 DEF BatchOffsets
    <3>3. <<t, o>> \notin New(i)
      <4>1. SUFFICES ASSUME NEW u \in Topics, NEW p \in high[u] + 1 .. batch.high[u],
                            <<t, o>> = <<u, p>>
                     PROVE  FALSE
        BY <1>5
      <4>2. u = t /\ p = o
        BY <4>1
      <4> QED
        BY <1>2, <2>1, <2>2, <4>1, <4>2
    <3> QED
      BY <1>3, <1>4, <1>6, <3>1, <3>2, <3>3
  <2>3. CASE ~(o <= high[t])
    <3>1. o \in high[t] + 1 .. batch.high[t]
      BY <1>2, <2>1, <2>3
    <3>2. <<t, o>> \notin missed
      BY <1>1, <1>2, <2>1, <2>3 DEF Offsets
    <3>3. <<t, o>> \notin Pub(i)
      <4>1. SUFFICES ASSUME NEW u \in Topics, NEW p \in 1 .. high[u], <<t, o>> = <<u, p>>
                     PROVE  FALSE
        BY <1>4
      <4>2. u = t /\ p = o
        BY <4>1
      <4> QED
        BY <1>2, <2>1, <2>3, <4>1, <4>2
    <3> QED
      BY <1>3, <1>5, <1>6, <3>1, <3>2, <3>3
  <2> QED
    BY <2>2, <2>3
<1>7. ASSUME NEW e, e \in Pub(i)' \/ e \in Pub(i) \/ e \in New(i)
      PROVE  \E t \in Topics : \E o \in 1 .. batch.high[t] : topic[t][o] = i /\ e = <<t, o>>
  <2>1. \A t \in Topics : /\ 1 .. high[t] \subseteq 1 .. batch.high[t]
                          /\ high[t] + 1 .. batch.high[t] \subseteq 1 .. batch.high[t]
    BY <1>2
  <2>2. CASE e \in Pub(i)'
    BY <1>3, <2>2
  <2>3. CASE e \in Pub(i)
    BY <1>4, <2>1, <2>3
  <2>4. CASE e \in New(i)
    BY <1>5, <2>1, <2>4
  <2> QED
    BY <1>7, <2>2, <2>3, <2>4
<1>8. \A e : e \in Pub(i)' <=> e \in Pub(i) \cup New(i)
  BY <1>6, <1>7
<1> QED
  BY <1>8

LEMMA PublishStep ==
    ASSUME LedgerInv, Publish
    PROVE  LedgerInv'
<1> USE DEF LedgerInv
<1>1. /\ batch # None /\ batch.balanced
      /\ high' = batch.high /\ missed' = missed \cup batch.missed
      /\ boundary' = batch.boundary /\ batch' = None
      /\ UNCHANGED <<wal, open, commits, topic, bronze, faults>>
  BY DEF Publish, MayPublish, source
<1>2. /\ batch.high \in [Topics -> Nat] /\ batch.missed \in SUBSET (Topics \X Nat)
      /\ batch.boundary \in Nat /\ boundary \in Nat /\ high \in [Topics -> Nat]
  BY <1>1 DEF StateTypes, Batch
<1>3. /\ \A t \in Topics : high[t] <= batch.high[t] /\ batch.high[t] <= bronze[t]
      /\ \A t \in Topics : \A o \in Nat : <<t, o>> \in batch.missed =>
            high[t] < o /\ o < batch.high[t]
      /\ boundary <= batch.boundary /\ batch.boundary <= wal /\ IsBoundary(batch.boundary)
  BY <1>1 DEF BatchOffsets
<1>4. StateTypes'
  BY <1>1, <1>2 DEF StateTypes
<1>5. Offsets'
  <2>1. ASSUME NEW t \in Topics, NEW o \in Nat, <<t, o>> \in missed'
        PROVE  o < batch.high[t]
    <3>1. CASE <<t, o>> \in missed
      <4>1. o < high[t]
        BY <3>1 DEF Offsets
      <4> QED
        BY <1>2, <1>3, <4>1
    <3>2. CASE <<t, o>> \in batch.missed
      BY <1>3, <3>2
    <3> QED
      BY <1>1, <2>1, <3>1, <3>2
  <2> QED
    BY <1>1, <1>3, <2>1 DEF Offsets, Txids
<1>6. InCommitOrder' /\ Boundaries' /\ BatchOffsets' /\ BatchBalance'
  BY <1>1 DEF InCommitOrder, Boundaries, BatchOffsets, BatchBalance, Txids
<1>7. BoundaryInv'
  BY <1>1, <1>3 DEF BoundaryInv, IsBoundary, Txids
<1>8. MissedInv'
  <2>1. SUFFICES ASSUME NEW t \in Topics, NEW o \in Nat, <<t, o>> \in missed'
                 PROVE  \E h \in Nat : o < h /\ h <= batch.high[t] /\ <<t, h>> \notin missed'
    BY <1>1 DEF MissedInv
  <2>2. high[t] \in Nat /\ batch.high[t] \in Nat
    BY <1>2
  <2>3. CASE <<t, o>> \in missed
    <3>1. PICK h \in Nat : o < h /\ h <= high[t] /\ <<t, h>> \notin missed
      BY <2>3 DEF MissedInv
    <3>2. h <= batch.high[t] /\ ~(high[t] < h)
      BY <1>3, <2>2, <3>1
    <3>3. <<t, h>> \notin batch.missed
      BY <1>3, <3>2
    <3> QED
      BY <1>1, <3>1, <3>2, <3>3
  <2>4. CASE <<t, o>> \in batch.missed
    <3>1. high[t] < o /\ o < batch.high[t]
      BY <1>3, <2>4
    <3>2. ~(batch.high[t] < high[t]) /\ ~(batch.high[t] < batch.high[t])
      BY <1>3, <2>2
    <3>3. <<t, batch.high[t]>> \notin missed /\ <<t, batch.high[t]>> \notin batch.missed
      BY <1>3, <2>2, <3>2 DEF Offsets
    <3> QED
      BY <1>1, <2>2, <3>1, <3>3
  <2> QED
    BY <1>1, <2>1, <2>3, <2>4
<1>9. PublishedInv'
  <2>1. SUFFICES ASSUME NEW i \in Txids
                 PROVE  /\ Pub(i)' # {} => /\ commits[i].recorded
                                           /\ commits[i].boundary <= batch.boundary
                                           /\ Cardinality(Pub(i)') = Size(i)
                        /\ commits[i].recorded /\ ~ Overtaken(i)
                           /\ commits[i].boundary <= batch.boundary => Pub(i)' # {}
    <3>1. \A j : Size(j)' = Size(j) /\ Overtaken(j)' = Overtaken(j)
      BY <1>1 DEF Size, Overtaken
    <3> QED
      BY <1>1, <3>1 DEF PublishedInv, Txids
  <2>2. Pub(i)' = Pub(i) \cup New(i)
    BY PublishAdds
  <2>3. commits[i].boundary \in Nat
    BY TransactionType
  <2>4. /\ New(i) # {} => /\ commits[i].recorded
                          /\ boundary < commits[i].boundary
                          /\ commits[i].boundary <= batch.boundary
                          /\ Cardinality(New(i)) = Size(i)
        /\ /\ commits[i].recorded /\ ~ Overtaken(i)
           /\ boundary < commits[i].boundary /\ commits[i].boundary <= batch.boundary
           => New(i) # {}
    BY <1>1 DEF BatchBalance
  <2>5. /\ Pub(i) # {} => /\ commits[i].recorded
                          /\ commits[i].boundary <= boundary
                          /\ Cardinality(Pub(i)) = Size(i)
        /\ commits[i].recorded /\ ~ Overtaken(i) /\ commits[i].boundary <= boundary =>
               Pub(i) # {}
    BY DEF PublishedInv
  <2>6. CASE New(i) # {}
    <3>1. Pub(i) = {}
      BY <1>2, <2>3, <2>4, <2>5, <2>6
    <3>2. Pub(i)' = New(i)
      BY <2>2, <3>1
    <3> QED
      BY <2>4, <2>6, <3>2
  <2>7. CASE New(i) = {}
    <3>1. Pub(i)' = Pub(i)
      BY <2>2, <2>7
    <3>2. commits[i].boundary <= boundary => commits[i].boundary <= batch.boundary
      BY <1>2, <1>3, <2>3
    <3>3. ASSUME commits[i].recorded, ~ Overtaken(i), commits[i].boundary <= batch.boundary
          PROVE  commits[i].boundary <= boundary
      BY <1>2, <2>3, <2>4, <2>7, <3>3
    <3> QED
      BY <2>5, <3>1, <3>2, <3>3
  <2> QED
    BY <2>6, <2>7
<1> QED
  BY <1>4, <1>5, <1>6, <1>7, <1>8, <1>9

LEMMA SupersedeStep ==
    ASSUME LedgerInv, Supersede
    PROVE  LedgerInv'
<1> USE DEF LedgerInv
<1>1. /\ batch' = None
      /\ UNCHANGED <<wal, open, commits, topic, bronze, high, missed, boundary, faults>>
  BY DEF Supersede, source
<1>2. StateTypes' /\ Offsets' /\ InCommitOrder' /\ Boundaries' /\ BoundaryInv' /\ MissedInv'
  BY <1>1 DEF StateTypes, Offsets, InCommitOrder, Boundaries, BoundaryInv, MissedInv,
              IsBoundary, Txids
<1>3. PublishedInv'
  <2>1. \A i : Pub(i)' = Pub(i) /\ Size(i)' = Size(i) /\ Overtaken(i)' = Overtaken(i)
    BY <1>1 DEF Pub, EventsIn, Between, Zero, Size, Overtaken
  <2> QED
    BY <1>1, <2>1 DEF PublishedInv, Txids
<1>4. BatchOffsets' /\ BatchBalance'
  BY <1>1 DEF BatchOffsets, BatchBalance
<1> QED
  BY <1>2, <1>3, <1>4

LEMMA StutterStep ==
    ASSUME LedgerInv, UNCHANGED vars
    PROVE  LedgerInv'
<1> USE DEF LedgerInv
<1>1. UNCHANGED <<wal, open, commits, topic, bronze, batch, high, missed, boundary, faults>>
  BY DEF vars, source
<1>2. StateTypes' /\ Offsets' /\ InCommitOrder' /\ Boundaries' /\ BoundaryInv' /\ MissedInv'
  BY <1>1 DEF StateTypes, Offsets, InCommitOrder, Boundaries, BoundaryInv, MissedInv,
              IsBoundary, Txids
<1>3. /\ \A i : Pub(i)' = Pub(i) /\ Size(i)' = Size(i) /\ Overtaken(i)' = Overtaken(i)
      /\ \A i : New(i)' = New(i)
  BY <1>1 DEF Pub, New, EventsIn, Between, Zero, Size, Overtaken
<1>4. PublishedInv'
  BY <1>1, <1>3 DEF PublishedInv, Txids
<1>5. BatchOffsets' /\ BatchBalance'
  BY <1>1, <1>3 DEF BatchOffsets, BatchBalance, IsBoundary, Txids
<1> QED
  BY <1>2, <1>4, <1>5

-----------------------------------------------------------------------------
(* The invariant                                                            *)

LEMMA InitLedgerInv == Init => LedgerInv
<1> SUFFICES ASSUME Init PROVE LedgerInv
  OBVIOUS
<1>1. Txids = {} /\ commits = <<>> /\ commits \in Seq(Transaction)
  BY DEF Init, Txids
<1>2. StateTypes
  BY <1>1, LedgerAssumption DEF Init, StateTypes
<1>3. Offsets /\ InCommitOrder /\ Boundaries /\ BoundaryInv /\ MissedInv
  BY <1>1 DEF Init, Offsets, InCommitOrder, Boundaries, BoundaryInv, IsBoundary, MissedInv
<1>4. PublishedInv /\ BatchOffsets /\ BatchBalance
  BY <1>1 DEF Init, PublishedInv, BatchOffsets, BatchBalance
<1> QED
  BY <1>2, <1>3, <1>4 DEF LedgerInv

LEMMA LedgerInvStep == LedgerInv /\ [Next]_vars => LedgerInv'
<1> SUFFICES ASSUME LedgerInv, [Next]_vars PROVE LedgerInv'
  OBVIOUS
<1>1. ASSUME NEW shape \in Shapes, NEW recorded \in BOOLEAN, Begin(shape, recorded)
      PROVE  LedgerInv'
  BY <1>1, BeginStep
<1>2. ASSUME NEW x \in open, Commit(x) \/ Rollback(x)
      PROVE  LedgerInv'
  BY <1>2, CommitStep, RollbackStep
<1>3. CASE Redeliver
  BY <1>3, RedeliverStep
<1>4. ASSUME NEW t \in Topics, Arrive(t)
      PROVE  LedgerInv'
  BY <1>4, ArriveStep
<1>5. CASE Seal
  BY <1>5, SealStep
<1>6. CASE Publish
  BY <1>6, PublishStep
<1>7. CASE Supersede
  BY <1>7, SupersedeStep
<1>8. CASE UNCHANGED vars
  BY <1>8, StutterStep
<1> QED
  BY <1>1, <1>2, <1>3, <1>4, <1>5, <1>6, <1>7, <1>8 DEF Next

(* The frozen control of a batch stays true until it is published.          *)
THEOREM LedgerInvariant == Spec => []LedgerInv
<1>1. Init => LedgerInv
  BY InitLedgerInv
<1>2. LedgerInv /\ [Next]_vars => LedgerInv'
  BY LedgerInvStep
<1> QED
  BY <1>1, <1>2, PTL DEF Spec

-----------------------------------------------------------------------------
(* What follows                                                             *)

LEMMA TypesFollow == LedgerInv => TypeOK
<1> SUFFICES ASSUME LedgerInv PROVE TypeOK
  OBVIOUS
<1> USE DEF LedgerInv
<1>1. ASSUME NEW e \in missed
      PROVE  e[2] < high[e[1]]
  <2>1. e = <<e[1], e[2]>> /\ e[1] \in Topics /\ e[2] \in Nat
    BY <1>1 DEF StateTypes
  <2> QED
    BY <1>1, <2>1 DEF Offsets
<1> QED
  BY <1>1 DEF TypeOK, StateTypes, Offsets, BoundaryInv

(* Positions, offsets and watermarks stay within each other.                *)
THEOREM LedgerTypeCorrect == Spec => []TypeOK
BY LedgerInvariant, TypesFollow, PTL

LEMMA WholeFollows == LedgerInv => TransactionsAreWhole
BY PublishedMeans DEF LedgerInv, PublishedInv, TransactionsAreWhole, Pub, Count

(* Transactions are published whole or not at all.                          *)
THEOREM WholeTransactions == Spec => []TransactionsAreWhole
BY LedgerInvariant, WholeFollows, PTL

LEMMA BelowFollows == LedgerInv => NothingBelowBoundary
BY PublishedMeans DEF LedgerInv, PublishedInv, NothingBelowBoundary

(* No ledger row at or below the published boundary was passed over.        *)
THEOREM NothingPassedOver == Spec => []NothingBelowBoundary
BY LedgerInvariant, BelowFollows, PTL

LEMMA OneMomentFollows == LedgerInv => PublishedIsOneMoment
<1> SUFFICES ASSUME LedgerInv, NEW i \in Txids, NEW j \in Txids,
                    i < j, Published(j), commits[i].recorded, ~ Overtaken(i), ~ Overtaken(j)
             PROVE  Published(i)
  BY DEF PublishedIsOneMoment
<1> USE DEF LedgerInv
<1>1. /\ i \in 1 .. j - 1 /\ commits[i].boundary \in Nat /\ commits[j].boundary \in Nat
      /\ boundary \in Nat
  BY TransactionType DEF StateTypes
<1>2. ~(commits[i].boundary > commits[j].boundary)
  BY <1>1 DEF Overtaken
<1>3. commits[j].boundary <= boundary
  BY PublishedMeans DEF PublishedInv
<1>4. commits[i].boundary <= boundary
  BY <1>1, <1>2, <1>3
<1> QED
  BY <1>4, PublishedMeans DEF PublishedInv

(* What is published is one moment of the source.                           *)
THEOREM OneMomentIsPublished == Spec => []PublishedIsOneMoment
BY LedgerInvariant, OneMomentFollows, PTL

(* All events of a transaction, and those a listing of everything finds.    *)
All(i) == EventsIn(i, Zero, [t \in Topics |-> Len(topic[t])], {})
Rest(i) == EventsIn(i, high, bronze, {})

LEMMA AllMeans ==
    ASSUME LedgerInv, \A t \in Topics : bronze[t] = Len(topic[t]), NEW i, NEW e
    PROVE  /\ e \in All(i) <=>
                \E t \in Topics : \E o \in 1 .. bronze[t] : topic[t][o] = i /\ e = <<t, o>>
           /\ e \in Rest(i) <=>
                \E t \in Topics : \E o \in high[t] + 1 .. bronze[t] :
                    topic[t][o] = i /\ e = <<t, o>>
           /\ e \in Pub(i) <=>
                /\ e \notin missed
                /\ \E t \in Topics : \E o \in 1 .. high[t] : topic[t][o] = i /\ e = <<t, o>>
<1> DEFINE len == [t \in Topics |-> Len(topic[t])]
<1>1. \A t \in Topics : Zero[t] + 1 = 1 /\ len[t] = bronze[t]
  BY ZeroType
<1>2. All(i) = EventsIn(i, Zero, len, {})
  BY DEF All
<1> HIDE DEF len
<1> QED
  BY <1>1, <1>2, EventsMeans DEF Rest, Pub

(* When everything is listed, a transaction that is not published is found  *)
(* with all its events: had one of them been passed over, a transaction     *)
(* behind it would be published, and so this one.                           *)
LEMMA UnpublishedIsFound ==
    ASSUME LedgerInv, Clean, \A t \in Topics : bronze[t] = Len(topic[t]),
           NEW i \in Txids, Pub(i) = {}
    PROVE  Rest(i) = All(i)
<1> USE DEF LedgerInv
<1>1. ASSUME NEW t \in Topics, NEW o \in 1 .. high[t], topic[t][o] = i
      PROVE  FALSE
  <2>1. /\ o \in Nat /\ high[t] \in Nat /\ high[t] <= Len(topic[t])
        /\ DOMAIN topic[t] = 1 .. Len(topic[t]) /\ Len(topic[t]) \in Nat
    BY TopicType DEF Offsets
  <2>2. <<t, o>> \in missed
    BY <1>1, AllMeans
  <2>3. PICK h \in Nat : o < h /\ h <= high[t] /\ <<t, h>> \notin missed
    BY <2>1, <2>2 DEF MissedInv
  <2>4. o \in DOMAIN topic[t] /\ h \in DOMAIN topic[t] /\ o <= h /\ h \in 1 .. high[t]
    BY <2>1, <2>3
  <2> DEFINE j == topic[t][h]
  <2>5. j \in Txids /\ i <= j
    BY <1>1, <2>4 DEF Offsets, InCommitOrder
  <2>6. <<t, h>> \in Pub(j)
    BY <2>3, <2>4, AllMeans
  <2>7. i \in Nat /\ j \in Nat
    BY <2>5, TransactionType
  <2>8. i < j
    BY <2>5, <2>6, <2>7
  <2>9. commits[i].recorded /\ ~ Overtaken(i) /\ ~ Overtaken(j)
    BY <2>5 DEF Clean
  <2>10. Published(j)
    BY <2>6, PublishedMeans
  <2>11. Published(i)
    BY <2>5, <2>8, <2>9, <2>10, OneMomentFollows DEF PublishedIsOneMoment
  <2> QED
    BY <2>11, PublishedMeans
<1>2. ASSUME NEW t \in Topics, NEW o \in 1 .. bronze[t], topic[t][o] = i
      PROVE  o \in high[t] + 1 .. bronze[t]
  <2>1. o \in Nat /\ high[t] \in Nat /\ bronze[t] \in Nat /\ 1 <= o /\ o <= bronze[t]
    BY TopicType
  <2>2. ~(o <= high[t])
    BY <1>1, <1>2, <2>1
  <2> QED
    BY <2>1, <2>2
<1>3. \A t \in Topics : high[t] + 1 .. bronze[t] \subseteq 1 .. bronze[t]
  BY TopicType
<1>4. \A e : e \in All(i) <=> e \in Rest(i)
  BY <1>2, <1>3, AllMeans
<1> QED
  BY <1>4

LEMMA StreamFollows == LedgerInv => WholeStreamBalances
<1> SUFFICES ASSUME LedgerInv, Clean, \A t \in Topics : bronze[t] = Len(topic[t])
             PROVE  Balanced(bronze, {})
  BY DEF WholeStreamBalances
<1> USE DEF LedgerInv
<1>1. /\ high \in [Topics -> Nat] /\ bronze \in [Topics -> Nat] /\ boundary \in Nat
      /\ [t \in Topics |-> Len(topic[t])] \in [Topics -> Nat]
  BY TopicType DEF StateTypes
<1>2. ASSUME NEW i \in Txids
      PROVE  /\ commits[i].recorded /\ ~ Overtaken(i) /\ commits[i].boundary \in Nat
             /\ Cardinality(All(i)) = Size(i)
  BY TransactionType DEF Clean, Delivered, Count, All
<1>3. ASSUME NEW i \in ThroughObservedBoundary(bronze, {})
      PROVE  Count(i, high, bronze, {}) = Size(i)
  <2>1. i \in Txids /\ commits[i].boundary > boundary
    BY DEF ThroughObservedBoundary, Recorded
  <2>2. ~(commits[i].boundary <= boundary)
    BY <1>1, <1>2, <2>1
  <2>3. Pub(i) = {}
    BY <2>1, <2>2 DEF PublishedInv
  <2>4. Rest(i) = All(i)
    BY <2>1, <2>3, UnpublishedIsFound
  <2> QED
    BY <1>2, <2>1, <2>4 DEF Rest, Count
<1>4. ASSUME NEW i \in Observed(bronze, {})
      PROVE  i \in ThroughObservedBoundary(bronze, {})
  <2>1. i \in Txids /\ Rest(i) # {}
    BY <1>1, CountMeans DEF Observed, Rest
  <2>2. Pub(i) = {}
    <3>1. SUFFICES ASSUME Pub(i) # {} PROVE FALSE
      OBVIOUS
    <3>2. Cardinality(Pub(i)) = Cardinality(All(i))
      BY <1>2, <2>1, <3>1 DEF PublishedInv
    <3>3. IsFiniteSet(All(i))
      BY <1>1, ZeroType, EventsAreFinite DEF All
    <3>4. Pub(i) \in SUBSET All(i)
      <4>1. \A t \in Topics : 1 .. high[t] \subseteq 1 .. bronze[t]
        BY TopicType DEF Offsets
      <4> QED
        BY <4>1, AllMeans
    <3>5. Pub(i) = All(i)
      BY <3>2, <3>3, <3>4, FS_Subset
    <3>6. PICK t \in Topics : \E o \in high[t] + 1 .. bronze[t] : topic[t][o] = i
      BY <2>1, AllMeans
    <3>10. PICK o \in high[t] + 1 .. bronze[t] : topic[t][o] = i
      BY <3>6
    <3>7. o \in 1 .. bronze[t] /\ o \notin 1 .. high[t]
      BY TopicType
    <3>8. <<t, o>> \in All(i)
      BY <3>10, <3>7, AllMeans
    <3>9. <<t, o>> \notin Pub(i)
      <4>1. SUFFICES ASSUME NEW u \in Topics, NEW p \in 1 .. high[u], <<t, o>> = <<u, p>>
                     PROVE  FALSE
        BY AllMeans
      <4>2. u = t /\ p = o
        BY <4>1
      <4> QED
        BY <3>7, <4>1, <4>2
    <3> QED
      BY <3>5, <3>8, <3>9
  <2>3. ~(commits[i].boundary <= boundary)
    BY <1>2, <2>1, <2>2 DEF PublishedInv
  <2>4. commits[i].boundary > boundary
    BY <1>1, <1>2, <2>1, <2>3
  <2>5. i \in Recorded /\ commits[i].boundary <= commits[i].boundary
    BY <1>2, <2>1, <2>4 DEF Recorded
  <2> QED
    BY <2>5 DEF ThroughObservedBoundary
<1> QED
  BY <1>3, <1>4 DEF Balanced

(* Without an event outside the ledger, an overtaken transaction or a       *)
(* repeated delivery, a listing of everything is balanced.                  *)
THEOREM StreamBalances == Spec => []WholeStreamBalances
BY LedgerInvariant, StreamFollows, PTL
=============================================================================
