------------------------- MODULE BronzeWriterProofs -------------------------
(***************************************************************************)
(* Proofs about the Bronze writer, for any number of writers, partitions,   *)
(* records and faults.  The inductive invariant WriterInv says of every     *)
(* writer how far Bronze is known to be complete: up to its read position,  *)
(* or up to the record it has in hand.                                      *)
(***************************************************************************)
EXTENDS BronzeWriter, TLAPS

(* All records of p below n are in Bronze.                                  *)
Complete(p, n) == \A o \in Offsets : o < n => o \in Landed(p)

LogIsBounded == \A p \in Partitions : Len(log[p]) <= MaxOffset

KeepsUp(w) ==
    IF hand[w] = None
    THEN \A p \in assigned[w] : Complete(p, position[w][p])
    ELSE /\ \A p \in assigned[w] \ {hand[w].part} : Complete(p, position[w][p])
         /\ Complete(hand[w].part, hand[w].offset)
         /\ position[w][hand[w].part] = hand[w].offset + 1
         /\ hand[w].stage = "persisted" => hand[w].offset \in Landed(hand[w].part)

TypeInv == TypeOK /\ LogIsBounded
WriterInv ==
    /\ TypeInv
    /\ CommittedIsPersisted
    /\ BronzeHasNoHole
    /\ \A w \in Writers : KeepsUp(w)

-----------------------------------------------------------------------------
LEMMA TypeInit == Init => TypeInv
  BY BronzeWriterAssumption DEF Init, TypeInv, TypeOK, LogIsBounded, Offsets

(* An exit leaves the process' own state well formed.                       *)
LEMMA ExitType ==
    ASSUME TypeOK, NEW w \in Writers, Exit(w)
    PROVE  /\ up' \subseteq Writers
           /\ assigned' \in [Writers -> SUBSET Partitions]
           /\ position' = position
           /\ hand' \in [Writers -> Hand \cup {None}]
  BY DEF TypeOK, Exit

(* Only the stage of the record in hand changes.                            *)
LEMMA StageType ==
    ASSUME TypeOK, NEW w \in Writers, hand[w] # None,
           hand' = [hand EXCEPT ![w].stage = "persisted"]
    PROVE  /\ hand' \in [Writers -> Hand \cup {None}]
           /\ hand'[w] = [part |-> hand[w].part, offset |-> hand[w].offset,
                          stage |-> "persisted"]
           /\ \A v \in Writers \ {w} : hand'[v] = hand[v]
  <1>1. hand[w] \in Hand
    BY DEF TypeOK
  <1>2. [hand[w] EXCEPT !.stage = "persisted"] =
          [part |-> hand[w].part, offset |-> hand[w].offset, stage |-> "persisted"]
    BY <1>1 DEF Hand
  <1>3. [part |-> hand[w].part, offset |-> hand[w].offset, stage |-> "persisted"] \in Hand
    BY <1>1 DEF Hand
  <1>4. hand' = [hand EXCEPT ![w] =
                   [part |-> hand[w].part, offset |-> hand[w].offset,
                    stage |-> "persisted"]]
    BY <1>2
  <1> QED
    BY <1>3, <1>4 DEF TypeOK

LEMMA PutOnceType ==
    ASSUME TypeOK, NEW w \in Writers, hand[w] # None,
           PutOnce(w, hand[w].part, hand[w].offset)
    PROVE  /\ object' \in [Partitions -> [Offsets -> Writers \cup {None, Foreign}]]
           /\ up' \subseteq Writers
           /\ assigned' \in [Writers -> SUBSET Partitions]
           /\ position' = position
           /\ hand' \in [Writers -> Hand \cup {None}]
  <1> DEFINE p == hand[w].part
             o == hand[w].offset
  <1>1. p \in Partitions /\ o \in Offsets
    BY DEF TypeOK, Hand
  <1>2. CASE object[p][o] = Foreign
    BY <1>2, ExitType DEF PutOnce, TypeOK
  <1>3. CASE object[p][o] # Foreign
    <2>1. hand' \in [Writers -> Hand \cup {None}]
      BY <1>3, StageType DEF PutOnce
    <2>2. object' \in [Partitions -> [Offsets -> Writers \cup {None, Foreign}]]
      <3>1. CASE object[p][o] = None
        <4>1. object' = [object EXCEPT ![p] = [object[p] EXCEPT ![o] = w]]
          BY <1>3, <3>1 DEF PutOnce
        <4>2. [object[p] EXCEPT ![o] = w] \in [Offsets -> Writers \cup {None, Foreign}]
          BY <1>1 DEF TypeOK
        <4> QED
          BY <1>1, <4>1, <4>2 DEF TypeOK
      <3>2. CASE object[p][o] # None
        BY <1>3, <3>2 DEF PutOnce, TypeOK
      <3> QED
        BY <3>1, <3>2
    <2> QED
      BY <1>3, <2>1, <2>2 DEF PutOnce, TypeOK, consumer
  <1> QED
    BY <1>2, <1>3

LEMMA TypeNext == TypeInv /\ [Next]_vars => TypeInv'
  <1> SUFFICES ASSUME TypeInv, [Next]_vars PROVE TypeInv'
    OBVIOUS
  <1> USE BronzeWriterAssumption DEF TypeInv, TypeOK, LogIsBounded, Offsets
  <1>1. CASE UNCHANGED vars
    BY <1>1 DEF vars, kafka, consumer
  <1>2. ASSUME NEW p \in Partitions, Produce(p) PROVE TypeInv'
    <2>1. PICK kind \in Kinds : log' = [log EXCEPT ![p] = Append(@, kind)]
      BY <1>2 DEF Produce
    <2>2. kind \in {"event", "poison"}
      BY <2>1
    <2> QED
      BY <1>2, <2>1, <2>2 DEF Produce, consumer
  <1>3. ASSUME NEW w \in Writers, Start(w) PROVE TypeInv'
    BY <1>3 DEF Start, kafka, consumer
  <1>4. ASSUME NEW w \in Writers, Crash(w) PROVE TypeInv'
    BY <1>4, ExitType DEF Crash, kafka
  <1>5. ASSUME NEW w \in Writers, Poll(w) PROVE TypeInv'
    <2>1. PICK p \in assigned[w] :
            /\ position[w][p] < Len(log[p])
            /\ hand' = [hand EXCEPT ![w] =
                  [part |-> p, offset |-> position[w][p], stage |-> "polled"]]
            /\ position' = [position EXCEPT ![w][p] = @ + 1]
      BY <1>5 DEF Poll
    <2>2. p \in Partitions /\ Len(log[p]) \in Nat /\ Len(log[p]) <= MaxOffset
      OBVIOUS
    <2>3. position[w][p] \in Offsets /\ position[w][p] + 1 \in 0 .. MaxOffset
      BY <2>1, <2>2
    <2> QED
      BY <1>5, <2>1, <2>2, <2>3 DEF Poll, kafka, Hand
  <1>6. ASSUME NEW w \in Writers, Persist(w) PROVE TypeInv'
    <2>1. CASE log[hand[w].part][hand[w].offset + 1] = "poison"
      BY <1>6, <2>1, ExitType DEF Persist, kafka
    <2>2. CASE log[hand[w].part][hand[w].offset + 1] # "poison"
      <3>1. hand[w] # None /\ PutOnce(w, hand[w].part, hand[w].offset)
        BY <1>6, <2>2 DEF Persist
      <3> QED
        BY <1>6, <3>1, PutOnceType DEF Persist, kafka
    <2> QED
      BY <2>1, <2>2
  <1>7. ASSUME NEW w \in Writers, Commit(w) PROVE TypeInv'
    <2>1. hand[w].part \in Partitions /\ hand[w].offset + 1 \in 0 .. MaxOffset
      BY <1>7 DEF Commit, Hand
    <2>2. CASE owner[hand[w].part] = w
      <3>1. /\ committed' = [committed EXCEPT ![hand[w].part] = hand[w].offset + 1]
            /\ hand' = [hand EXCEPT ![w] = None]
            /\ UNCHANGED <<log, owner, object, up, assigned, position, faults>>
        BY <1>7, <2>2 DEF Commit, consumer
      <3>2. committed' \in [Partitions -> 0 .. MaxOffset]
        BY <2>1, <3>1
      <3>3. hand' \in [Writers -> Hand \cup {None}]
        BY <3>1
      <3> QED
        BY <3>1, <3>2, <3>3
    <2>3. CASE owner[hand[w].part] # w
      BY <1>7, <2>3, ExitType DEF Commit
    <2> QED
      BY <2>2, <2>3
  <1>8. ASSUME NEW w \in Writers, NEW p \in Partitions, Assign(w, p) PROVE TypeInv'
    BY <1>8 DEF Assign, StartOffset
  <1>9. ASSUME NEW w \in Writers, NEW p \in Partitions, Revoke(w, p) PROVE TypeInv'
    BY <1>9 DEF Revoke, kafka
  <1>10. ASSUME ResetOffsets PROVE TypeInv'
    BY <1>10 DEF ResetOffsets, consumer
  <1> QED
    BY <1>1, <1>2, <1>3, <1>4, <1>5, <1>6, <1>7, <1>8, <1>9, <1>10 DEF Next, Step

(* The writer's state is well formed, for every value of the constants.     *)
THEOREM WriterTypeCorrect == Spec => []TypeOK
  <1>1. Spec => []TypeInv
    BY TypeInit, TypeNext, PTL DEF Spec
  <1>2. TypeInv => TypeOK
    BY DEF TypeInv
  <1> QED
    BY <1>1, <1>2, PTL

-----------------------------------------------------------------------------
LEMMA PutIntoEmpty ==
    ASSUME TypeOK, NEW w \in Writers, NEW p \in Partitions, NEW o \in Offsets,
           object' = [object EXCEPT ![p][o] = w]
    PROVE  \A q \in Partitions : \A r \in Offsets :
              object'[q][r] = IF q = p /\ r = o THEN w ELSE object[q][r]
  <1>1. object' = [object EXCEPT ![p] = [object[p] EXCEPT ![o] = w]]
    OBVIOUS
  <1>2. object \in [Partitions -> [Offsets -> Writers \cup {None, Foreign}]]
    BY DEF TypeOK
  <1>3. object'[p] = [object[p] EXCEPT ![o] = w]
    BY <1>1, <1>2
  <1>4. ASSUME NEW q \in Partitions, q # p PROVE object'[q] = object[q]
    BY <1>1, <1>2, <1>4
  <1>5. object[p] \in [Offsets -> Writers \cup {None, Foreign}]
    BY <1>2
  <1>6. \A r \in Offsets : object'[p][r] = IF r = o THEN w ELSE object[p][r]
    BY <1>3, <1>5
  <1> QED
    BY <1>4, <1>6

(* Only a put into an empty key changes the bucket.                         *)
LEMMA ObjectsStayNext == TypeInv /\ [Next]_vars => ObjectsStay
  <1> SUFFICES ASSUME TypeInv, [Next]_vars PROVE ObjectsStay
    OBVIOUS
  <1>1. CASE UNCHANGED object
    BY <1>1 DEF ObjectsStay
  <1>2. ASSUME NEW w \in Writers, Persist(w) PROVE ObjectsStay
    <2>1. hand[w].part \in Partitions /\ hand[w].offset \in Offsets
      BY <1>2 DEF Persist, TypeInv, TypeOK, Hand
    <2>2. \/ UNCHANGED object
          \/ /\ object[hand[w].part][hand[w].offset] = None
             /\ object' = [object EXCEPT ![hand[w].part][hand[w].offset] = w]
      BY <1>2 DEF Persist, PutOnce
    <2> QED
      BY <2>1, <2>2, PutIntoEmpty DEF ObjectsStay, TypeInv
  <1>3. UNCHANGED object \/ \E w \in Writers : Persist(w)
    BY DEF Next, Step, vars, Produce, Start, Crash, Assign, Revoke, Poll, Commit, ResetOffsets
  <1> QED
    BY <1>1, <1>2, <1>3

(* No object of the bucket is ever replaced.                                *)
THEOREM BronzeIsImmutable == Spec => ObjectsAreImmutable
  <1>1. Spec => []TypeInv
    BY TypeInit, TypeNext, PTL DEF Spec
  <1>2. TypeInv /\ [Next]_vars => [ObjectsStay]_vars
    BY ObjectsStayNext
  <1> QED
    BY <1>1, <1>2, PTL DEF Spec, ObjectsAreImmutable

LEMMA CompleteStays ==
    ASSUME TypeInv, ObjectsStay, NEW p \in Partitions, NEW n, Complete(p, n)
    PROVE  Complete(p, n)'
  BY BronzeWriterAssumption DEF TypeInv, TypeOK, ObjectsStay, Complete, Landed

LEMMA LandedStays ==
    ASSUME TypeInv, ObjectsStay, NEW p \in Partitions
    PROVE  Landed(p) \subseteq Landed(p)'
  BY BronzeWriterAssumption DEF TypeInv, TypeOK, ObjectsStay, Landed

LEMMA CommittedStays ==
    ASSUME TypeInv, ObjectsStay, CommittedIsPersisted, UNCHANGED committed
    PROVE  CommittedIsPersisted'
  BY LandedStays DEF CommittedIsPersisted

LEMMA KeepsUpStays ==
    ASSUME TypeInv, ObjectsStay, NEW w \in Writers, KeepsUp(w),
           hand'[w] = hand[w], assigned'[w] \subseteq assigned[w], position'[w] = position[w]
    PROVE  KeepsUp(w)'
  <1>1. assigned[w] \subseteq Partitions
    BY DEF TypeInv, TypeOK
  <1>2. CASE hand[w] = None
    BY <1>1, <1>2, CompleteStays DEF KeepsUp
  <1>3. CASE hand[w] # None
    <2>1. hand[w].part \in Partitions
      BY <1>3 DEF TypeInv, TypeOK, Hand
    <2>2. Complete(hand[w].part, hand[w].offset)'
      BY <1>3, <2>1, CompleteStays DEF KeepsUp
    <2>3. \A p \in assigned'[w] \ {hand'[w].part} : Complete(p, position[w][p])'
      BY <1>1, <1>3, CompleteStays DEF KeepsUp
    <2>4. hand[w].stage = "persisted" => hand[w].offset \in Landed(hand[w].part)'
      BY <1>3, <2>1, LandedStays DEF KeepsUp
    <2> QED
      BY <1>3, <2>2, <2>3, <2>4 DEF KeepsUp
  <1> QED
    BY <1>2, <1>3

LEMMA ExitKeepsUp ==
    ASSUME TypeInv, ObjectsStay, NEW w \in Writers, Exit(w), \A v \in Writers : KeepsUp(v)
    PROVE  \A v \in Writers : KeepsUp(v)'
  <1>1. KeepsUp(w)'
    BY DEF Exit, KeepsUp, TypeInv, TypeOK
  <1>2. ASSUME NEW v \in Writers, v # w PROVE KeepsUp(v)'
    BY <1>2, KeepsUpStays DEF Exit, TypeInv, TypeOK
  <1> QED
    BY <1>1, <1>2

LEMMA WriterInit == Init => WriterInv
  <1> SUFFICES ASSUME Init PROVE WriterInv
    OBVIOUS
  <1>1. \A p \in Partitions : Landed(p) = {}
    BY BronzeWriterAssumption DEF Init, Landed
  <1>2. \A w \in Writers : KeepsUp(w)
    BY DEF Init, KeepsUp
  <1> QED
    BY <1>1, <1>2, TypeInit, BronzeWriterAssumption
       DEF Init, WriterInv, CommittedIsPersisted, BronzeHasNoHole, Offsets

LEMMA WriterNext == WriterInv /\ [Next]_vars => WriterInv'
  <1> SUFFICES ASSUME WriterInv, [Next]_vars PROVE WriterInv'
    OBVIOUS
  <1>1. TypeInv /\ TypeInv' /\ ObjectsStay
    BY TypeNext, ObjectsStayNext DEF WriterInv
  <1>2. CASE UNCHANGED vars
    BY <1>1, <1>2, CommittedStays, KeepsUpStays
       DEF vars, kafka, consumer, WriterInv, BronzeHasNoHole, Landed
  <1>3. ASSUME NEW p \in Partitions, Produce(p) PROVE WriterInv'
    BY <1>1, <1>3, CommittedStays, KeepsUpStays
       DEF Produce, consumer, WriterInv, BronzeHasNoHole, Landed
  <1>4. ASSUME NEW w \in Writers, Start(w) PROVE WriterInv'
    BY <1>1, <1>4, CommittedStays, KeepsUpStays
       DEF Start, kafka, consumer, WriterInv, BronzeHasNoHole, Landed
  <1>5. ASSUME NEW w \in Writers, Crash(w) PROVE WriterInv'
    BY <1>1, <1>5, CommittedStays, ExitKeepsUp
       DEF Crash, kafka, WriterInv, BronzeHasNoHole, Landed
  <1>6. ASSUME NEW w \in Writers, NEW p \in Partitions, Revoke(w, p) PROVE WriterInv'
    <2>1. \A v \in Writers : assigned'[v] \subseteq assigned[v]
      BY <1>1, <1>6 DEF Revoke, TypeInv, TypeOK
    <2> QED
      BY <1>1, <1>6, <2>1, CommittedStays, KeepsUpStays
         DEF Revoke, kafka, WriterInv, BronzeHasNoHole, Landed
  <1>7. ASSUME NEW w \in Writers, NEW p \in Partitions, Assign(w, p) PROVE WriterInv'
    <2>1. /\ UNCHANGED <<log, committed, object, up, hand>> /\ hand[w] = None
          /\ assigned' = [assigned EXCEPT ![w] = @ \cup {p}]
          /\ position' = [position EXCEPT ![w][p] = committed[p]]
      BY <1>7 DEF Assign, StartOffset
    <2>2. ASSUME NEW v \in Writers, v # w PROVE KeepsUp(v)'
      BY <1>1, <2>1, <2>2, KeepsUpStays DEF TypeInv, TypeOK, WriterInv
    <2>3. Complete(p, committed[p])
      BY DEF WriterInv, CommittedIsPersisted, Complete
    <2>4. ASSUME NEW q \in assigned'[w] PROVE Complete(q, position[w][q])'
      <3>1. q \in Partitions /\ (q = p \/ q \in assigned[w])
        BY <1>1, <2>1 DEF TypeInv, TypeOK
      <3>2. position'[w][q] = IF q = p THEN committed[p] ELSE position[w][q]
        BY <1>1, <2>1, <3>1 DEF TypeInv, TypeOK
      <3>3. Complete(q, position'[w][q])
        BY <2>1, <2>3, <3>1, <3>2 DEF WriterInv, KeepsUp
      <3> QED
        BY <1>1, <3>1, <3>3, CompleteStays
    <2>5. KeepsUp(w)'
      BY <2>1, <2>4 DEF KeepsUp
    <2> QED
      BY <1>1, <2>1, <2>2, <2>5, CommittedStays DEF WriterInv, BronzeHasNoHole, Landed
  <1>8. ASSUME ResetOffsets PROVE WriterInv'
    <2>1. CommittedIsPersisted'
      BY <1>8 DEF ResetOffsets, CommittedIsPersisted, Offsets
    <2> QED
      BY <1>1, <1>8, <2>1, KeepsUpStays
         DEF ResetOffsets, consumer, WriterInv, BronzeHasNoHole, Landed
  <1>9. ASSUME NEW w \in Writers, Poll(w) PROVE WriterInv'
    <2>1. PICK p \in assigned[w] :
            /\ position[w][p] < Len(log[p])
            /\ hand' = [hand EXCEPT ![w] =
                  [part |-> p, offset |-> position[w][p], stage |-> "polled"]]
            /\ position' = [position EXCEPT ![w][p] = @ + 1]
      BY <1>9 DEF Poll
    <2>2. hand[w] = None /\ UNCHANGED <<committed, object, assigned>>
      BY <1>9 DEF Poll, kafka
    <2>3. ASSUME NEW v \in Writers, v # w PROVE KeepsUp(v)'
      BY <1>1, <2>1, <2>2, <2>3, KeepsUpStays DEF TypeInv, TypeOK, WriterInv
    <2>4. /\ p \in Partitions /\ assigned[w] \subseteq Partitions
          /\ position'[w] = [position[w] EXCEPT ![p] = position[w][p] + 1]
          /\ position[w] \in [Partitions -> 0 .. MaxOffset]
          /\ hand'[w] = [part |-> p, offset |-> position[w][p], stage |-> "polled"]
      BY <1>1, <2>1 DEF TypeInv, TypeOK
    <2>5. \A q \in assigned[w] : Complete(q, position[w][q])
      BY <2>2 DEF WriterInv, KeepsUp
    <2>6. hand'[w] # None
      <3>1. Len(log[p]) \in Nat /\ Len(log[p]) <= MaxOffset
        BY <1>1, <2>4 DEF TypeInv, TypeOK, LogIsBounded
      <3>2. position[w][p] \in Offsets
        BY <2>1, <2>4, <3>1, BronzeWriterAssumption DEF Offsets
      <3>3. hand'[w] \in Hand
        BY <2>4, <3>2 DEF Hand
      <3> QED
        BY <3>3, BronzeWriterAssumption
    <2>7. KeepsUp(w)'
      <3>1. ASSUME NEW q \in assigned'[w] \ {hand'[w].part}
            PROVE  Complete(q, position[w][q])'
        <4>1. q \in Partitions /\ q # p /\ Complete(q, position[w][q])
          BY <2>2, <2>4, <2>5, <3>1
        <4>2. position'[w][q] = position[w][q]
          BY <2>4, <4>1
        <4>3. Landed(q) \subseteq Landed(q)'
          BY <1>1, <4>1, LandedStays
        <4> QED
          BY <4>1, <4>2, <4>3 DEF Complete
      <3>2. \A o \in Offsets : o < position[w][p] => o \in Landed(p)'
        <4>1. Complete(p, position[w][p])
          BY <2>5
        <4>2. Landed(p) \subseteq Landed(p)'
          BY <1>1, <2>4, LandedStays
        <4> QED
          BY <4>1, <4>2 DEF Complete
      <3>3. position'[w][p] = position[w][p] + 1
        BY <2>4
      <3> QED
        BY <2>4, <2>6, <3>1, <3>2, <3>3 DEF KeepsUp, Complete
    <2> QED
      BY <1>1, <2>2, <2>3, <2>7, CommittedStays DEF WriterInv, BronzeHasNoHole, Landed
  <1>10. ASSUME NEW w \in Writers, Persist(w) PROVE WriterInv'
    <2>0. PICK p \in Partitions, o \in Offsets : p = hand[w].part /\ o = hand[w].offset
      BY <1>1, <1>10 DEF Persist, TypeInv, TypeOK, Hand
    <2>1. /\ hand[w] # None /\ hand[w] \in Hand
          /\ UNCHANGED <<committed, log>>
      BY <1>1, <1>10 DEF Persist, TypeInv, TypeOK, kafka
    <2>2. CommittedIsPersisted'
      BY <1>1, <2>1, CommittedStays DEF WriterInv
    <2>3. CASE Exit(w) /\ UNCHANGED object
      BY <1>1, <2>2, <2>3, ExitKeepsUp DEF WriterInv, BronzeHasNoHole, Landed
    <2>4. CASE /\ object[p][o] # Foreign
               /\ IF object[p][o] = None THEN object' = [object EXCEPT ![p][o] = w]
                                         ELSE UNCHANGED object
               /\ hand' = [hand EXCEPT ![w].stage = "persisted"]
               /\ UNCHANGED <<up, consumer>>
      <3>1. o \in Landed(p)'
        BY <1>1, <2>1, <2>4 DEF Landed, TypeInv, TypeOK
      <3>2. \A r \in Offsets : r < o => r \in Landed(p)'
        <4>1. Complete(p, o)
          BY <2>0, <2>1 DEF WriterInv, KeepsUp
        <4>2. Landed(p) \subseteq Landed(p)'
          BY <1>1, LandedStays
        <4> QED
          BY <4>1, <4>2 DEF Complete
      <3>3. \A q \in Partitions : Landed(q)' \subseteq
                                     IF q = p THEN Landed(p) \cup {o} ELSE Landed(q)
        BY <1>1, <2>1, <2>4, PutIntoEmpty DEF Landed, TypeInv
      <3>4. BronzeHasNoHole'
        BY <1>1, <3>1, <3>2, <3>3, LandedStays DEF WriterInv, BronzeHasNoHole
      <3>5. /\ hand'[w] = [part |-> p, offset |-> o, stage |-> "persisted"]
            /\ \A v \in Writers \ {w} : hand'[v] = hand[v]
            /\ hand'[w] # None
        <4>1. TypeOK
          BY <1>1 DEF TypeInv
        <4>2. /\ hand'[w] = [part |-> p, offset |-> o, stage |-> "persisted"]
              /\ \A v \in Writers \ {w} : hand'[v] = hand[v]
          BY <2>0, <2>1, <2>4, <4>1, StageType
        <4>3. hand'[w] \in Hand
          BY <2>1, <4>2 DEF Hand
        <4> QED
          BY <4>2, <4>3, BronzeWriterAssumption
      <3>6. UNCHANGED <<assigned, position>>
        BY <2>4 DEF consumer
      <3>7. ASSUME NEW v \in Writers, v # w PROVE KeepsUp(v)'
        BY <1>1, <3>5, <3>6, <3>7, KeepsUpStays DEF WriterInv
      <3>8. KeepsUp(w)'
        <4>1. \A q \in assigned[w] \ {p} : q \in Partitions /\ Complete(q, position[w][q])
          BY <1>1, <2>0, <2>1 DEF WriterInv, KeepsUp, TypeInv, TypeOK
        <4>2. ASSUME NEW q \in assigned'[w] \ {p} PROVE Complete(q, position[w][q])'
          BY <1>1, <3>6, <4>1, CompleteStays
        <4>3. position[w][p] = o + 1
          BY <2>0, <2>1 DEF WriterInv, KeepsUp
        <4>4. Complete(p, o)'
          BY <3>2 DEF Complete
        <4> QED
          BY <3>1, <3>5, <3>6, <4>2, <4>3, <4>4 DEF KeepsUp
      <3> QED
        BY <1>1, <2>2, <3>4, <3>7, <3>8 DEF WriterInv
    <2> QED
      BY <1>10, <2>0, <2>3, <2>4 DEF Persist, PutOnce
  <1>11. ASSUME NEW w \in Writers, Commit(w) PROVE WriterInv'
    <2>0. PICK p \in Partitions, o \in Offsets : p = hand[w].part /\ o = hand[w].offset
      BY <1>1, <1>11 DEF Commit, TypeInv, TypeOK, Hand
    <2>1. /\ hand[w] # None /\ hand[w].stage = "persisted"
          /\ UNCHANGED object
      BY <1>11 DEF Commit
    <2>2. Complete(p, o) /\ o \in Landed(p) /\ position[w][p] = o + 1
      BY <2>0, <2>1 DEF WriterInv, KeepsUp
    <2>3. Complete(p, o + 1)
      BY <2>1, <2>2, BronzeWriterAssumption DEF Complete, Offsets
    <2>4. CASE Exit(w) /\ UNCHANGED committed
      BY <1>1, <2>1, <2>4, ExitKeepsUp, CommittedStays DEF WriterInv, BronzeHasNoHole, Landed
    <2>5. CASE /\ committed' = [committed EXCEPT ![p] = o + 1]
               /\ hand' = [hand EXCEPT ![w] = None]
               /\ UNCHANGED <<up, consumer>>
      <3>1. CommittedIsPersisted'
        BY <1>1, <2>1, <2>3, <2>5
           DEF WriterInv, CommittedIsPersisted, Complete, Landed, TypeInv, TypeOK
      <3>2. UNCHANGED <<assigned, position>>
        BY <2>5 DEF consumer
      <3>3. ASSUME NEW v \in Writers, v # w PROVE KeepsUp(v)'
        BY <1>1, <2>5, <3>2, <3>3, KeepsUpStays DEF WriterInv, TypeInv, TypeOK
      <3>4. KeepsUp(w)'
        <4>1. \A q \in assigned[w] : q \in Partitions /\ Complete(q, position[w][q])
          BY <1>1, <2>0, <2>1, <2>2, <2>3 DEF WriterInv, KeepsUp, TypeInv, TypeOK
        <4>2. \A q \in assigned'[w] : Complete(q, position[w][q])'
          BY <1>1, <3>2, <4>1, CompleteStays
        <4>3. hand'[w] = None
          BY <1>1, <2>5 DEF TypeInv, TypeOK
        <4> QED
          BY <4>2, <4>3 DEF KeepsUp
      <3> QED
        BY <1>1, <2>1, <3>1, <3>3, <3>4 DEF WriterInv, BronzeHasNoHole, Landed
    <2> QED
      BY <1>11, <2>0, <2>4, <2>5 DEF Commit
  <1> QED
    BY <1>2, <1>3, <1>4, <1>5, <1>6, <1>7, <1>8, <1>9, <1>10, <1>11 DEF Next, Step

LEMMA WriterInvariant == Spec => []WriterInv
  BY WriterInit, WriterNext, PTL DEF Spec

(* The group never commits past a record that is not in Bronze.             *)
THEOREM NoRecordIsPassedOver == Spec => []CommittedIsPersisted
  <1>1. WriterInv => CommittedIsPersisted
    BY DEF WriterInv
  <1> QED
    BY <1>1, WriterInvariant, PTL

(* Bronze holds a prefix of every partition.                                *)
THEOREM BronzeIsAPrefix == Spec => []BronzeHasNoHole
  <1>1. WriterInv => BronzeHasNoHole
    BY DEF WriterInv
  <1> QED
    BY <1>1, WriterInvariant, PTL
=============================================================================
