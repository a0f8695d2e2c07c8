----------------------------- MODULE CurrentGold -----------------------------
(***************************************************************************)
(* From the core banking source to the current Gold models of dbt: three    *)
(* source tables whose changes reach Bronze in a topic each, batches that   *)
(* cut the topics where their listings ended, the Links and Satellites of   *)
(* scripts/4_process_cdc_raw_vault.py, and the views of src/dbt/models that *)
(* pick one current row per business key.                                   *)
(*                                                                          *)
(* RawVaultSatellites has one topic, and jobs that overlap; here one job    *)
(* loads at a time and the topics are what matters: a loan finds its        *)
(* application only in the same batch or in the Link of an earlier one, and *)
(* Gold joins rows that were loaded by different phases.  dbt reads the     *)
(* Satellites whenever it is run: what it would build is a state function.  *)
(***************************************************************************)
EXTENDS Integers, Sequences, FiniteSetsExt

CONSTANTS
    Lifecycle, Relation,  \* the fixture's customers, one with an application
    Application, Loan,    \* that application and the loan it becomes
    Batches,              \* batch ids
    None,                 \* no batch
    TimeOf                \* commit time of each transaction the bound allows

VARIABLES
    wal,    \* committed row changes in source position order
    batch,  \* batches: the cut (low, high] of each topic, state, loads done
    hubs,   \* business keys in the Hubs
    links,  \* Link rows, by the change that arrived first with the context
    rows    \* Satellite rows: [event |-> position, batch |-> load_batch_id]

vars == <<wal, batch, hubs, links, rows>>

Entities == {Lifecycle, Relation, Application, Loan}
Customers == {Lifecycle, Relation}
Topics == {"customers", "loan_applications", "loans"}
Topic(x) == IF x \in Customers THEN "customers"
            ELSE IF x = Application THEN "loan_applications" ELSE "loans"

(* The Satellite families, in the order run_satellites loads them, and the  *)
(* state a change gives its entity in each; NULL where it is not concerned. *)
Satellites == {"details", "status", "context"}
State == [details: {"NULL", "PENDING", "APPROVED", "OLD", "NEW"},
          status: {"ACTIVE", "DELETED"}, context: {"NULL", "IST001", "ANK001"}]
Change == [entity: Entities, state: State, transaction: Nat, time: Nat]
Phases == {"core"} \cup Satellites

BatchRow == [low: [Topics -> Nat], high: [Topics -> Nat], loaded: SUBSET Phases,
             state: {"NONE", "OPEN", "PUBLISHED", "SUPERSEDED"}]
Row == [event: Nat, batch: Batches]

ASSUME GoldAssumption ==
    /\ Cardinality(Entities) = 4
    /\ None \notin Batches
    /\ TimeOf \in Seq(Nat)
    /\ \A i, k \in DOMAIN TimeOf : i <= k => TimeOf[i] <= TimeOf[k]

Init ==
    /\ wal = <<>>
    /\ batch = [b \in Batches |-> [low |-> [t \in Topics |-> 0], high |-> [t \in Topics |-> 0],
                                   loaded |-> {}, state |-> "NONE"]]
    /\ hubs = {}
    /\ links = {}
    /\ rows = [s \in Satellites |-> {}]

-----------------------------------------------------------------------------
(* The source: transactions of the workload, as row changes.  REPLICA       *)
(* IDENTITY FULL gives a deletion the row's last image.                     *)

Of(S, x) == {i \in S : wal[i].entity = x}
Latest(x) == wal[Max(Of(DOMAIN wal, x))].state
Alive(x) == Of(DOMAIN wal, x) # {} /\ Latest(x).status = "ACTIVE"

Transactions == IF wal = <<>> THEN 0 ELSE wal[Len(wal)].transaction

(* Commit timestamps do not go back, but two commits may share one.         *)
Commit(changes) ==
    /\ Transactions < Len(TimeOf)
    /\ LET n == Transactions + 1 IN
       wal' = wal \o [i \in DOMAIN changes |->
                         [entity |-> changes[i][1], state |-> changes[i][2],
                          transaction |-> n, time |-> TimeOf[n]]]
    /\ UNCHANGED <<batch, hubs, links, rows>>

Image(details, context) == [details |-> details, status |-> "ACTIVE", context |-> context]

Setup ==
    /\ wal = <<>>
    /\ Commit(<< <<Lifecycle, Image("OLD", "NULL")>>, <<Relation, Image("OLD", "NULL")>>,
                 <<Application, Image("PENDING", "IST001")>> >>)

CustomerChange(c) ==
    /\ Alive(c)
    /\ LET details == IF Latest(c).details = "OLD" THEN "NEW" ELSE "OLD"
       IN Commit(<< <<c, Image(details, "NULL")>> >>)

DeleteCustomer ==
    /\ Alive(Lifecycle)
    /\ Commit(<< <<Lifecycle, [details |-> "NULL", status |-> "DELETED", context |-> "NULL"]>> >>)

RecreateCustomer ==
    /\ wal # <<>> /\ ~Alive(Lifecycle)
    /\ Commit(<< <<Lifecycle, Image("NEW", "NULL")>> >>)

MoveApplication ==
    /\ Alive(Application)
    /\ LET a == Latest(Application)
           target == IF a.context = "IST001" THEN "ANK001" ELSE "IST001"
       IN Commit(<< <<Application, Image(a.details, target)>> >>)

ApproveLoan ==
    /\ Alive(Application) /\ Latest(Application).details = "PENDING"
    /\ LET branch == Latest(Application).context IN
       Commit(<< <<Application, Image("APPROVED", branch)>>, <<Loan, Image("OLD", branch)>> >>)

InstallmentChange ==
    /\ Alive(Loan) /\ Latest(Loan).details = "OLD"
    /\ Commit(<< <<Loan, Image("NEW", Latest(Loan).context)>> >>)

-----------------------------------------------------------------------------
(* Batches: the cut of each topic is any change of it that has committed;   *)
(* how far a topic has arrived is part of the choice.                       *)
InState(state) == {b \in Batches : batch[b].state = state}
Boundary(t) == Max({0} \cup {batch[b].high[t] : b \in InState("PUBLISHED")})

Seal(b) ==
    /\ batch[b].state = "NONE"
    /\ InState("OPEN") = {}
    /\ \E high \in [Topics -> 0 .. Len(wal)] :
        /\ \A t \in Topics :
            \/ high[t] = Boundary(t)
            \/ high[t] > Boundary(t) /\ Topic(wal[high[t]].entity) = t
        /\ \E t \in Topics : high[t] > Boundary(t)
        /\ batch' = [batch EXCEPT ![b] =
                       [low |-> [t \in Topics |-> Boundary(t)], high |-> high,
                        loaded |-> {}, state |-> "OPEN"]]
    /\ UNCHANGED <<wal, hubs, links, rows>>

InBatch(b) ==
    {i \in DOMAIN wal : LET t == Topic(wal[i].entity) IN
        batch[b].low[t] < i /\ i <= batch[b].high[t]}

(* The frozen ledger control: with a transaction, all of it and all before  *)
(* it (SourceLedger shows what makes a batch balance).                      *)
Balanced(b) ==
    \A i \in DOMAIN wal :
        (\E k \in InBatch(b) : wal[i].transaction <= wal[k].transaction) =>
            i <= batch[b].high[Topic(wal[i].entity)]

(* An open batch, or the one published last, may be loaded again.           *)
MayLoad(b) ==
    \/ batch[b].state = "OPEN"
    \/ /\ batch[b].state = "PUBLISHED"
       /\ InState("OPEN") = {}
       /\ \A t \in Topics : batch[b].high[t] = Boundary(t)

NewAttempt(b) ==
    /\ MayLoad(b)
    /\ batch[b].loaded # {}
    /\ batch' = [batch EXCEPT ![b].loaded = {}]
    /\ UNCHANGED <<wal, hubs, links, rows>>

Supersede(b) ==
    /\ batch[b].state = "OPEN"
    /\ batch' = [batch EXCEPT ![b].state = "SUPERSEDED"]
    /\ UNCHANGED <<wal, hubs, links, rows>>

-----------------------------------------------------------------------------
(* The Raw Vault phases.                                                    *)

(* The context of a loan is hashed with its application's number, which the *)
(* loan does not carry: it comes from the batch's changes of the            *)
(* application, or from the loan's newest Link; else the change is dropped. *)
Resolved(b, i) ==
    wal[i].entity = Loan =>
        \/ Of(InBatch(b), Application) # {}
        \/ Of(links, Loan) # {}

HasContext(b) ==
    {i \in InBatch(b) : wal[i].state.context # "NULL" /\ Resolved(b, i)}

SameContext(i, k) ==
    wal[i].entity = wal[k].entity /\ wal[i].state.context = wal[k].state.context

LoadCore(b) ==
    /\ MayLoad(b)
    /\ "core" \notin batch[b].loaded
    /\ hubs' = hubs \cup {wal[i].entity : i \in {k \in InBatch(b) : wal[k].state.status = "ACTIVE"}}
    /\ links' = links \cup
        {i \in HasContext(b) : \A k \in links \cup HasContext(b) :
            SameContext(i, k) => k \notin links /\ i <= k}
    /\ batch' = [batch EXCEPT ![b].loaded = @ \cup {"core"}]
    /\ UNCHANGED <<wal, rows>>

(* Mutant: a context that returns is taken for known.                       *)
NewStates(S, s) ==
    {i \in S : \A k \in S : k < i /\ wal[k].entity = wal[i].entity =>
        wal[k].state[s] # wal[i].state[s]}

(* The changes of S that change what their entity's state is in S.          *)
StateChanges(S, s) ==
    {i \in S : LET before == {k \in S : k < i /\ wal[k].entity = wal[i].entity} IN
        before = {} \/ wal[Max(before)].state[s] # wal[i].state[s]}

Concerning(s) == {i \in DOMAIN wal : wal[i].state[s] # "NULL"}

Staged(b, s) ==
    StateChanges({i \in InBatch(b) \cap Concerning(s) : s = "context" => Resolved(b, i)}, s)

IsFirst(i, S) == \A k \in S : wal[k].entity = wal[i].entity => i <= k

Recorded(s) == {r.event : r \in rows[s]}
RecordedByOthers(b, s) == {r.event : r \in {q \in rows[s] : q.batch # b}}

OutOfOrder(b, s) ==
    \E i \in Staged(b, s), k \in RecordedByOthers(b, s) :
        IsFirst(i, Staged(b, s)) /\ wal[k].entity = wal[i].entity /\ i <= k

Filtered(b, s) ==
    {i \in Staged(b, s) : IsFirst(i, Staged(b, s)) =>
        i \in StateChanges(RecordedByOthers(b, s) \cup {i}, s)}

Previous(s) ==
    CASE s = "details" -> "core" [] s = "status" -> "details" [] s = "context" -> "status"

(* Mutant: the rows are not labelled with their batch.                      *)
NewRowsUnlabelled(b, s) ==
    {[event |-> i, batch |-> None] : i \in Filtered(b, s) \ Recorded(s)}

NewRows(b, s) == {[event |-> i, batch |-> b] : i \in Filtered(b, s) \ Recorded(s)}

(* An out-of-order batch raises instead, and changes nothing.               *)
LoadSatellite(b, s) ==
    /\ MayLoad(b)
    /\ Previous(s) \in batch[b].loaded
    /\ s \notin batch[b].loaded
    /\ ~OutOfOrder(b, s)
    /\ rows' = [rows EXCEPT ![s] = @ \cup NewRows(b, s)]
    /\ batch' = [batch EXCEPT ![b].loaded = @ \cup {s}]
    /\ UNCHANGED <<wal, hubs, links>>

(* The audit stages every table again and misses no key; the rest of        *)
(* publishing is ControlPlane's.                                            *)
Publish(b) ==
    /\ batch[b].state = "OPEN"
    /\ batch[b].loaded = Phases
    /\ Balanced(b)
    /\ \A s \in Satellites : Filtered(b, s) \subseteq Recorded(s)
    /\ batch' = [batch EXCEPT ![b].state = "PUBLISHED"]
    /\ UNCHANGED <<wal, hubs, links, rows>>

-----------------------------------------------------------------------------
Source ==
    \/ Setup \/ DeleteCustomer \/ RecreateCustomer
    \/ \E c \in Customers : CustomerChange(c)
    \/ MoveApplication \/ ApproveLoan \/ InstallmentChange

Load == \E b \in Batches : LoadCore(b) \/ \E s \in Satellites : LoadSatellite(b, s)

Next ==
    \/ Source
    \/ Load
    \/ \E b \in Batches : Seal(b) \/ NewAttempt(b) \/ Supersede(b) \/ Publish(b)

Spec == Init /\ [][Next]_vars

-----------------------------------------------------------------------------
(* The dbt models.                                                          *)

(* Mutant: the source position does not break ties of effective_from.       *)
LaterByTimeOnly(i, k) == wal[i].time > wal[k].time \/ (wal[i].time = wal[k].time /\ i < k)

(* Details rank by effective_from, then by source position.                 *)
Later(i, k) == wal[i].time > wal[k].time \/ (wal[i].time = wal[k].time /\ i > k)

(* The current row: details as above, status and context by source position. *)
Current(s, x) ==
    LET S == Of(Recorded(s), x)
    IN {i \in S : \A k \in S : i = k \/ IF s = "details" THEN Later(i, k) ELSE i > k}

CurrentState(s, x) == {wal[i].state[s] : i \in Current(s, x)}

Active(x) == CurrentState("status", x) = {"ACTIVE"}

(* A relation row ends with its DELETED image; the workload deletes none.   *)
CurrentContext(x) == IF x \in Customers THEN {"NULL"} ELSE CurrentState("context", x)

dim_customer_current == {c \in Customers \cap hubs : Active(c) /\ Current("details", c) # {}}

(* The inner joins of fct_loan_applications_current and fct_loans_current.  *)
Joined(x) ==
    /\ x \in hubs
    /\ Active(x)
    /\ x = Loan => Application \in hubs
    /\ Relation \in dim_customer_current

fct_current == {x \in {Application, Loan} : Joined(x)}

Gold ==
    UNION {{[entity |-> x, details |-> d, context |-> c] :
                d \in CurrentState("details", x), c \in CurrentContext(x)} :
            x \in dim_customer_current \cup fct_current}

-----------------------------------------------------------------------------
(* Changes, batches and rows are well formed, and no row is unlabelled.     *)
TypeOK ==
    /\ wal \in Seq(Change)
    /\ batch \in [Batches -> BatchRow]
    /\ hubs \subseteq Entities
    /\ links \subseteq DOMAIN wal
    /\ rows \in [Satellites -> SUBSET Row]

(* The source's rows after its first n row changes.                         *)
SourceRows(n) ==
    LET last(x) == wal[Max(Of(1 .. n, x))].state
        there == {x \in Entities : Of(1 .. n, x) # {} /\ last(x).status = "ACTIVE"}
    IN {[entity |-> x, details |-> last(x).details, context |-> last(x).context] : x \in there}

PublishedThrough == Max({Boundary(t) : t \in Topics})

NothingIsAhead ==
    \A s \in Satellites : \A i \in Recorded(s) : i <= Boundary(Topic(wal[i].entity))

(* While nothing beyond the published batches has been loaded, the current  *)
(* Gold models are the source as it was after the last published            *)
(* transaction: no deleted, missing, outdated or torn row, whatever the     *)
(* batches cut, however often they were loaded, though their phases rank by *)
(* different columns and a loan's application comes from elsewhere.         *)
GoldIsTheSource == NothingIsAhead => Gold = SourceRows(PublishedThrough)

(* Gold never falls behind what is published, even while another batch is   *)
(* half loaded or after a superseded one was: the current row of every      *)
(* entity in every Satellite is the last change published, or a later one.  *)
(* A loan whose context was dropped for want of its application would be    *)
(* published without any.                                                   *)
GoldNeverFallsBehind ==
    \A x \in Entities, s \in Satellites :
        LET published == Of({i \in Concerning(s) : i <= Boundary(Topic(wal[i].entity))}, x)
        IN published # {} =>
            \E k \in Current(s, x) : \A i \in StateChanges(published, s) : i <= k
=============================================================================
