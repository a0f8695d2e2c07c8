---------------------------- MODULE BronzeWriter ----------------------------
(***************************************************************************)
(* The Bronze CDC writer of src/cdc/bronze/writer.py: a consumer group that *)
(* turns every Kafka record into one MinIO object, at a key that its topic, *)
(* partition and offset determine.                                          *)
(*                                                                          *)
(* A writer is a loop of three steps: poll a record, persist it, commit its *)
(* offset.  It may die between any two of them, docker restarts it, and the *)
(* group coordinator may hand a partition to another writer while the old   *)
(* owner still has one of its records in hand; the coordinator refuses a    *)
(* commit of a writer that does not own the partition.  An error of any     *)
(* step ends the process: run() has no handler.                             *)
(***************************************************************************)
EXTENDS Integers, Sequences

CONSTANTS
    Writers,     \* processes of the consumer group
    Partitions,  \* (topic, partition) pairs
    None,        \* no object, no owner, no record in hand
    Foreign,     \* an object with another event's payload under the same key
    Leftovers,   \* what the bucket may hold at first: subset of {None, Foreign}
    Kinds,       \* kinds of record on the topics: subset of {"event", "poison"}
    MaxOffset,   \* bound: records per partition
    MaxFaults    \* bound: crashes, lost sessions and offset resets

VARIABLES
    log,        \* records per partition
    committed,  \* committed offset of the group, per partition
    owner,      \* the writer the coordinator accepts commits from
    object,     \* the bucket: whose object is at an offset's key
    up,         \* writers that are running
    assigned,   \* the partitions a writer believes to be its own
    position,   \* next offset a writer reads, per partition
    hand,       \* the record a writer works on
    faults      \* faults so far

kafka == <<log, committed, owner>>
consumer == <<assigned, position>>
vars == <<kafka, object, up, consumer, hand, faults>>

Offsets == 0 .. MaxOffset - 1
Hand == [part: Partitions, offset: Offsets, stage: {"polled", "persisted"}]

ASSUME BronzeWriterAssumption ==
    /\ MaxOffset \in Nat
    /\ Leftovers \subseteq {None, Foreign}
    /\ Kinds \subseteq {"event", "poison"}
    /\ None \notin Writers /\ Foreign \notin Writers /\ None # Foreign
    /\ None \notin Hand

Init ==
    /\ log = [p \in Partitions |-> <<>>]
    /\ committed = [p \in Partitions |-> 0]
    /\ owner = [p \in Partitions |-> None]
    /\ object \in [Partitions -> [Offsets -> Leftovers]]
    /\ up = {}
    /\ assigned = [w \in Writers |-> {}]
    /\ position = [w \in Writers |-> [p \in Partitions |-> 0]]
    /\ hand = [w \in Writers |-> None]
    /\ faults = 0

-----------------------------------------------------------------------------
(* Debezium appends a record.                                               *)
Produce(p) ==
    /\ Len(log[p]) < MaxOffset
    /\ \E kind \in Kinds : log' = [log EXCEPT ![p] = Append(@, kind)]
    /\ UNCHANGED <<committed, owner, object, up, consumer, hand, faults>>

(* The process ends, by an exception, a signal or a kill; finally: close(). *)
Exit(w) ==
    /\ up' = up \ {w}
    /\ assigned' = [assigned EXCEPT ![w] = {}]
    /\ hand' = [hand EXCEPT ![w] = None]
    /\ UNCHANGED position

Start(w) ==
    /\ w \notin up
    /\ up' = up \cup {w}
    /\ UNCHANGED <<kafka, object, consumer, hand, faults>>

Crash(w) ==
    /\ w \in up
    /\ faults < MaxFaults
    /\ faults' = faults + 1
    /\ Exit(w)
    /\ UNCHANGED <<kafka, object>>

(* Mutant: a partition without a committed offset starts at its end.        *)
StartOffsetLatest(p) == IF committed[p] = 0 THEN Len(log[p]) ELSE committed[p]

(* auto.offset.reset is earliest.                                           *)
StartOffset(p) == committed[p]

Unowned(p) == ~ \E w \in up : owner[p] = w /\ p \in assigned[w]

(* The coordinator assigns p to w, which learns of it inside poll().  Taking *)
(* p from a writer that still consumes it is a fault: its session expired   *)
(* or its record took longer than max.poll.interval.ms.                     *)
Assign(w, p) ==
    /\ w \in up
    /\ hand[w] = None
    /\ ~(owner[p] = w /\ p \in assigned[w])
    /\ IF Unowned(p)
       THEN UNCHANGED faults
       ELSE faults < MaxFaults /\ faults' = faults + 1
    /\ owner' = [owner EXCEPT ![p] = w]
    /\ assigned' = [assigned EXCEPT ![w] = @ \cup {p}]
    /\ position' = [position EXCEPT ![w][p] = StartOffset(p)]
    /\ UNCHANGED <<log, committed, object, up, hand>>

(* A writer learns, inside poll(), that a partition was taken from it.      *)
Revoke(w, p) ==
    /\ hand[w] = None
    /\ p \in assigned[w]
    /\ owner[p] # w
    /\ assigned' = [assigned EXCEPT ![w] = @ \ {p}]
    /\ UNCHANGED <<kafka, object, up, position, hand, faults>>

-----------------------------------------------------------------------------
Poll(w) ==
    /\ w \in up
    /\ hand[w] = None
    /\ \E p \in assigned[w] :
        /\ position[w][p] < Len(log[p])
        /\ hand' = [hand EXCEPT ![w] =
                      [part |-> p, offset |-> position[w][p], stage |-> "polled"]]
        /\ position' = [position EXCEPT ![w][p] = @ + 1]
    /\ UNCHANGED <<kafka, object, up, assigned, faults>>

(* Mutant: the put has no If-None-Match and replaces what is there.         *)
PutOver(w, p, o) ==
    /\ object' = [object EXCEPT ![p][o] = w]
    /\ hand' = [hand EXCEPT ![w].stage = "persisted"]
    /\ UNCHANGED <<up, consumer>>

(* Mutant: the precondition failure of a replayed record is not handled.    *)
PutOrFail(w, p, o) ==
    IF object[p][o] # None
    THEN Exit(w) /\ UNCHANGED object
    ELSE /\ object' = [object EXCEPT ![p][o] = w]
         /\ hand' = [hand EXCEPT ![w].stage = "persisted"]
         /\ UNCHANGED <<up, consumer>>

(* persist_record: a conditional put; an object that exists must be of the  *)
(* same event, or the writer fails.                                         *)
PutOnce(w, p, o) ==
    IF object[p][o] = Foreign
    THEN Exit(w) /\ UNCHANGED object
    ELSE /\ IF object[p][o] = None THEN object' = [object EXCEPT ![p][o] = w]
                                   ELSE UNCHANGED object
         /\ hand' = [hand EXCEPT ![w].stage = "persisted"]
         /\ UNCHANGED <<up, consumer>>

(* build_record, which raises for a record it cannot decode or whose schema *)
(* is not allowed, then persist_record.                                     *)
Persist(w) ==
    /\ hand[w] # None
    /\ hand[w].stage = "polled"
    /\ LET p == hand[w].part
           o == hand[w].offset IN
       IF log[p][o + 1] = "poison" THEN Exit(w) /\ UNCHANGED object ELSE PutOnce(w, p, o)
    /\ UNCHANGED <<kafka, faults>>

(* Mutant: the offset may be committed before the object is confirmed.      *)
CommitEarly(w) ==
    /\ hand[w] # None
    /\ committed' = [committed EXCEPT ![hand[w].part] = hand[w].offset + 1]
    /\ hand' = [hand EXCEPT ![w] = None]
    /\ UNCHANGED <<log, owner, object, up, consumer, faults>>

(* Mutant: the committed offset is one too high.                            *)
CommitNext(w) ==
    /\ hand[w] # None
    /\ hand[w].stage = "persisted"
    /\ committed' = [committed EXCEPT ![hand[w].part] = hand[w].offset + 2]
    /\ hand' = [hand EXCEPT ![w] = None]
    /\ UNCHANGED <<log, owner, object, up, consumer, faults>>

(* A synchronous commit; the coordinator fences a writer that lost p.       *)
Commit(w) ==
    /\ hand[w] # None
    /\ hand[w].stage = "persisted"
    /\ LET p == hand[w].part IN
       IF owner[p] = w
       THEN /\ committed' = [committed EXCEPT ![p] = hand[w].offset + 1]
            /\ hand' = [hand EXCEPT ![w] = None]
            /\ UNCHANGED <<up, consumer>>
       ELSE Exit(w) /\ UNCHANGED committed
    /\ UNCHANGED <<log, owner, object, faults>>

(* The documented replay: with every writer stopped, an operator resets the *)
(* group to the earliest offsets.                                           *)
ResetOffsets ==
    /\ up = {}
    /\ faults < MaxFaults
    /\ faults' = faults + 1
    /\ committed' = [p \in Partitions |-> 0]
    /\ owner' = [p \in Partitions |-> None]
    /\ UNCHANGED <<log, object, up, consumer, hand>>

-----------------------------------------------------------------------------
Step(w) == Poll(w) \/ Persist(w) \/ Commit(w)

Next ==
    \/ \E p \in Partitions : Produce(p)
    \/ \E w \in Writers : Start(w) \/ Crash(w) \/ Step(w)
    \/ \E w \in Writers, p \in Partitions : Assign(w, p) \/ Revoke(w, p)
    \/ ResetOffsets

(* docker restarts a writer that ended (restart: unless-stopped), the       *)
(* coordinator assigns each partition nobody consumes and tells a writer    *)
(* what it lost, and a running process goes on.                             *)
Fairness ==
    /\ \A w \in Writers : WF_vars(Start(w)) /\ WF_vars(Step(w))
    /\ \A p \in Partitions : WF_vars(\E w \in Writers : Unowned(p) /\ Assign(w, p))
    /\ \A w \in Writers, p \in Partitions : WF_vars(Revoke(w, p))

Spec == Init /\ [][Next]_vars
FairSpec == Spec /\ Fairness

-----------------------------------------------------------------------------
(* The broker's, the bucket's and the processes' state is well formed.      *)
TypeOK ==
    /\ log \in [Partitions -> Seq({"event", "poison"})]
    /\ committed \in [Partitions -> 0 .. MaxOffset]
    /\ owner \in [Partitions -> Writers \cup {None}]
    /\ object \in [Partitions -> [Offsets -> Writers \cup {None, Foreign}]]
    /\ up \subseteq Writers
    /\ assigned \in [Writers -> SUBSET Partitions]
    /\ position \in [Writers -> [Partitions -> 0 .. MaxOffset]]
    /\ hand \in [Writers -> Hand \cup {None}]
    /\ faults \in Nat

Landed(p) == {o \in Offsets : object[p][o] \in Writers}

(* Every offset the group has committed is in Bronze with its own payload:  *)
(* no crash, lost session, replay or conflicting object makes the group     *)
(* pass over a record.                                                      *)
CommittedIsPersisted ==
    \A p \in Partitions : \A o \in Offsets : o < committed[p] => o \in Landed(p)

(* Bronze holds a prefix of every partition, with never a hole below an     *)
(* object, however many writers work at once: the control plane's BronzeLand *)
(* and its watermarks take this for granted.                                *)
BronzeHasNoHole ==
    \A p \in Partitions : \A o \in Landed(p) : \A q \in Offsets : q < o => q \in Landed(p)

(* An object is never replaced, not even by the same event ingested again,  *)
(* and a conflicting object fails closed.                                   *)
ObjectsStay ==
    \A p \in Partitions : \A o \in Offsets :
        object[p][o] # None => object'[p][o] = object[p][o]
ObjectsAreImmutable == [][ObjectsStay]_vars

Clean ==
    \A p \in Partitions :
        /\ \A o \in Offsets : object[p][o] # Foreign
        /\ \A n \in 1 .. Len(log[p]) : log[p][n] # "poison"

(* While every record can be decoded and no key is taken, each record is    *)
(* eventually in Bronze and committed, after any finite number of crashes,  *)
(* lost sessions and replays.                                               *)
CatchesUp ==
    []Clean => \A p \in Partitions : \A o \in Offsets :
                  (o < Len(log[p])) ~> (o < committed[p])
=============================================================================
