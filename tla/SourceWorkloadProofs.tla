------------------------ MODULE SourceWorkloadProofs ------------------------
(***************************************************************************)
(* Theorems about the synthetic workload, for every number of runs,         *)
(* processes, customers, applications, installments and crashes.            *)
(*                                                                          *)
(* A scenario reads the row it works on, and commits later.  The row lock   *)
(* alone has to keep true, until the commit, all that the scenario found:   *)
(* that is the claim of a process, the heart of the invariant.              *)
(***************************************************************************)
EXTENDS SourceWorkload, FiniteSetTheorems, SequenceTheorems, TLAPS

Statuses == {"NONE", "RUNNING", "COMPLETED", "FAILED"}
Busy == {"next", "wait", "commit", "failing", "failed"}

(* The rows that can be: with these tables, numbers and values.             *)
CustomerIds == 1 .. Customers + 2
ApplicationIds == 1 .. Applications + 1
LoanIds == (1 .. Applications) \cup (Applications + 2 .. 2 * Applications + 2)
RateIds == Nat \ {0}

DbRows ==
    ({"customers"} \X CustomerIds \X {"ACTIVE", "PASSIVE"})
    \cup ({"addresses"} \X (CustomerIds \X {1, 2}) \X {"OPEN", "CLOSED"})
    \cup ({"contacts"} \X ((1 .. Customers) \X {"EMAIL", "PHONE"}) \X {"LIVE"})
    \cup ({"relations"} \X (1 .. Customers) \X {"LIVE"})
    \cup ({"applications"} \X ApplicationIds \X {"PENDING", "APPROVED", "REJECTED"})
    \cup ({"loans"} \X LoanIds \X {"ACTIVE", "DELINQUENT"})
    \cup ({"installments"} \X (LoanIds \X (1 .. Installments)) \X {"PENDING", "PAID", "OVERDUE"})
    \cup ({"collaterals"} \X (1 .. Applications) \X {"ACTIVE"})
    \cup ({"rates"} \X RateIds \X {"OPEN", "CLOSED"})

Names == {<<p[1], p[2]>> : p \in DbRows}

(* The numbers a scenario may work on.                                      *)
Numbers(e) ==
    CASE e = "initial_snapshot" -> {1}
      [] e = "customer_address_status_change" -> CustomerIds
      [] e = "secondary_contact_delete" -> 1 .. Customers
      [] e = "loan_application_approval" -> ApplicationIds
      [] e = "installment_payment_and_delinquency" -> LoanIds
      [] e = "base_rate_change" -> RateIds
      [] e \in Fixtures -> {LIFECYCLE_CUSTOMER}

WorkerRow == [pc: Busy \cup {"idle"}, run: Runs \cup {None}, at: Nat,
              seen: SUBSET Nat, row: {None} \cup RowNames]
EventRow == [status: Statuses, count: Nat, txid: Nat]

StateTypes ==
    /\ db \subseteq DbRows
    /\ run \in [Runs -> Statuses]
    /\ ledger \in [Runs -> Seq(EventRow)]
    /\ wal \in [Runs -> Seq(Seq(SUBSET Names))]
    /\ \A r \in Runs : Len(ledger[r]) = Len(Plan(r)) /\ Len(wal[r]) = Len(Plan(r))
    /\ worker \in [Workers -> WorkerRow]
    /\ shared \subseteq Runs
    /\ faults \in 0 .. MaxFaults

(* A process is at an event of its run, or at the end of it; it has locked  *)
(* a row if it is about to commit, one the event may work on.               *)
WorkerInv ==
    \A w \in Workers :
        /\ IsAt(w, "idle") => worker[w].run = None
        /\ ~ IsAt(w, "idle") =>
            /\ worker[w].run \in Runs
            /\ worker[w].at \in 1 .. Len(Plan(worker[w].run)) + 1
        /\ worker[w].pc \in {"wait", "commit", "failing"} => HasEvent(w)
        /\ IsAt(w, "wait") => worker[w].seen \subseteq Numbers(Key(w))
        /\ ~ IsAt(w, "commit") => worker[w].row = None
        /\ IsAt(w, "commit") => \E t \in Numbers(Key(w)) : worker[w].row = RowName(Key(w), t)

(* Two processes never hold one row.                                        *)
Exclusive ==
    \A v, w \in Workers : worker[v].row = worker[w].row /\ worker[v].row # None => v = w

(* A run that only one process works on is carried out in order.            *)
RunInv(r) ==
    /\ \A v, w \in WorkingOn(r) : v = w
    /\ run[r] = "COMPLETED" =>
        WorkingOn(r) = {} /\ \A i \in DOMAIN Plan(r) : ledger[r][i].status = "COMPLETED"
    /\ \A w \in WorkingOn(r) :
        /\ \A i \in DOMAIN Plan(r) : i < worker[w].at => ledger[r][i].status = "COMPLETED"
        /\ worker[w].pc \in {"wait", "commit", "failing"} =>
              ledger[r][worker[w].at].status # "COMPLETED"
    /\ \A i \in DOMAIN Plan(r) :
        IF ledger[r][i].status = "COMPLETED"
        THEN ledger[r][i].txid = 1 /\ Len(wal[r][i]) = 1
        ELSE ledger[r][i].txid = 0 /\ wal[r][i] = <<>>

ControlInv == \A r \in Runs \ shared : RunInv(r)

(* The ledger names transactions of the source, with their size.            *)
LedgerInv ==
    \A r \in Runs : \A i \in DOMAIN Plan(r) :
        /\ ledger[r][i].txid \in 0 .. Len(wal[r][i])
        /\ ledger[r][i].txid # 0 =>
            ledger[r][i].count = Cardinality(wal[r][i][ledger[r][i].txid])

UniqueKeys == \A p, q \in db : p[1] = q[1] /\ p[2] = q[2] => p = q

(* The first rows of the source come from the snapshot, and until then      *)
(* nothing else is carried out.                                             *)
IsLoaded == Rows(db, "customers") # {}
SnapshotFirst ==
    IF IsLoaded
    THEN /\ \A c \in 1 .. Customers : Exists(db, c)
         /\ \A a \in 1 .. Applications : \E s \in Rows(db, "applications") : s[2] = a
    ELSE /\ db = {<<"rates", 1, "OPEN">>}
         /\ \A w \in Workers : ~ IsAt(w, "idle") => Mode[worker[w].run] = "snapshot"

(* A customer that was changed once is PASSIVE, has one more address, and   *)
(* no other one open.                                                       *)
AddressBook ==
    \A r \in Rows(db, "addresses") :
        IF r[2][2] = 1 /\ r[3] = "OPEN" THEN <<"customers", r[2][1], "ACTIVE">> \in db
        ELSE <<"customers", r[2][1], "PASSIVE">> \in db

(* The fixture's application belongs to the customer that is never deleted. *)
FixtureBook ==
    ~ Exists(db, RELATION_CUSTOMER) =>
        ~ \E s \in Rows(db, "applications") : s[2] = FIXTURE_APPLICATION

(* Loans belong to approved applications, one each; nothing of an active    *)
(* loan has been paid, and an installment belongs to a loan.                *)
LoanBook ==
    /\ \A r \in Rows(db, "loans") :
        /\ <<"applications", ApplicationOf(r[2]), "APPROVED">> \in db
        /\ \A s \in Rows(db, "loans") : ApplicationOf(s[2]) = ApplicationOf(r[2]) => s = r
        /\ r[3] = "ACTIVE" => PendingInstallments(db, r[2]) = 1 .. Installments
    /\ \A r \in Rows(db, "installments") : \E s \in Rows(db, "loans") : s[2] = r[2][1]

(* The open base rate is the one with the greatest number.                  *)
RateBook ==
    /\ \E r \in Rows(db, "rates") : r[3] = "OPEN"
    /\ \A r, s \in Rows(db, "rates") : r[3] = "OPEN" => s[2] <= r[2]

DbInv == UniqueKeys /\ SnapshotFirst /\ AddressBook /\ FixtureBook /\ LoanBook /\ RateBook

(* What a process found when it locked its row still holds.                 *)
Claims ==
    \A w \in Workers : IsAt(w, "commit") =>
        /\ worker[w].row[2] \in Qualifying(Key(w), db)
        /\ ~ Refused(Key(w), db, worker[w].row[2])

WorkloadInv ==
    StateTypes /\ WorkerInv /\ Exclusive /\ ControlInv /\ LedgerInv /\ DbInv /\ Claims

-----------------------------------------------------------------------------
(* The operators                                                            *)

LEMMA PlanType ==
    ASSUME NEW r \in Runs
    PROVE  /\ Plan(r) \in Seq(EventKeys)
           /\ Len(Plan(r)) \in Nat \ {0} /\ DOMAIN Plan(r) = 1 .. Len(Plan(r))
           /\ \A i \in DOMAIN Plan(r) :
                /\ Plan(r)[i] \in EventKeys
                /\ Plan(r)[i] = "initial_snapshot" <=> Mode[r] = "snapshot"
<1>1. Mode[r] \in {"snapshot", "changes", "setup", "delete"}
  BY WorkloadAssumption DEF Fixtures
<1>2. CASE Mode[r] = "snapshot"
  <2>1. Plan(r) = <<"initial_snapshot">>
    BY <1>2 DEF Plan
  <2> QED
    BY <1>2, <2>1 DEF EventKeys
<1>3. CASE Mode[r] = "changes"
  <2>1. Plan(r) = Changes
    BY <1>3 DEF Plan
  <2>2. /\ Len(Changes) = 5 /\ DOMAIN Changes = 1 .. 5
        /\ \A i \in 1 .. 5 : Changes[i] \in EventKeys /\ Changes[i] # "initial_snapshot"
    BY DEF EventKeys, Changes
  <2>3. Changes \in Seq(EventKeys)
    BY <2>2 DEF Changes
  <2> QED
    BY <1>3, <2>1, <2>2, <2>3
<1>4. CASE Mode[r] \in Fixtures
  <2>1. Plan(r) = <<Mode[r]>>
    BY <1>4 DEF Plan, Fixtures
  <2> QED
    BY <1>4, <2>1 DEF EventKeys, Fixtures
<1> QED
  BY <1>1, <1>2, <1>3, <1>4 DEF Fixtures

LEMMA EventNames ==
    ASSUME NEW e \in EventKeys
    PROVE  e \in {"initial_snapshot", "customer_address_status_change",
                  "secondary_contact_delete", "loan_application_approval",
                  "installment_payment_and_delinquency", "base_rate_change",
                  "setup", "delete"}
BY DEF EventKeys, Changes, Fixtures

LEMMA NumbersType ==
    ASSUME NEW e \in EventKeys
    PROVE  /\ Numbers(e) \subseteq Nat /\ {TableOf(e)} \X Numbers(e) \subseteq RowNames
           /\ e \in {"customer_address_status_change", "secondary_contact_delete"} =>
                \A n \in Numbers(e) : n <= Customers + 2
<1>1. Customers \in Nat /\ Applications \in Nat /\ Applications <= Customers
  BY WorkloadAssumption
<1>2. /\ CustomerIds \subseteq Nat /\ \A n \in CustomerIds : n <= Customers + 2
      /\ ApplicationIds \subseteq Nat /\ LoanIds \subseteq Nat /\ RateIds \subseteq Nat
      /\ 1 .. Customers \subseteq Nat /\ \A n \in 1 .. Customers : n <= Customers + 2
      /\ LIFECYCLE_CUSTOMER \in Nat
  BY <1>1 DEF CustomerIds, ApplicationIds, LoanIds, RateIds, LIFECYCLE_CUSTOMER
<1>3. TableOf(e) \in {"customers", "contacts", "applications", "loans", "rates"}
  BY EventNames DEF TableOf
<1>4. Numbers(e) \subseteq Nat
  BY <1>2, EventNames DEF Numbers, Fixtures
<1>5. {TableOf(e)} \X Numbers(e) \subseteq RowNames
  BY <1>3, <1>4 DEF RowNames
<1>7. CASE e = "customer_address_status_change"
  <2>1. Numbers(e) = CustomerIds
    BY <1>7 DEF Numbers, Fixtures
  <2> QED
    BY <1>2, <1>4, <1>5, <2>1
<1>6. CASE e = "secondary_contact_delete"
  <2>1. Numbers(e) = 1 .. Customers
    BY <1>6 DEF Numbers, Fixtures
  <2> QED
    BY <1>2, <1>4, <1>5, <2>1
<1> QED
  BY <1>4, <1>5, <1>6, <1>7

LEMMA LeastOf ==
    ASSUME NEW S \in SUBSET Nat, S # {}
    PROVE  \E x \in S : \A y \in S : x <= y
<1> DEFINE R == OpToRel(<, Nat)
<1>1. R = {ss \in Nat \X Nat : ss[1] < ss[2]}
  BY DEF OpToRel
<1>2. \A x, y \in Nat : <<x, y>> \in R <=> x < y
  BY <1>1
<1>3. IsWellFoundedOn(R, Nat)
  BY NatLessThanWellFounded
<1> HIDE DEF R
<1>4. PICK x \in S : \A y \in S : <<y, x>> \notin R
  BY <1>3, WFMin
<1>5. x \in Nat /\ \A y \in S : y \in Nat
  OBVIOUS
<1>6. ASSUME NEW y \in S
      PROVE  x <= y
  <2>1. y \in Nat /\ ~(y < x)
    BY <1>2, <1>4, <1>5
  <2> QED
    BY <1>5, <2>1
<1> QED
  BY <1>6

LEMMA LowestOf ==
    ASSUME NEW S \in SUBSET Nat, S # {}
    PROVE  Lowest(S) \in S /\ \A m \in S : Lowest(S) <= m
BY LeastOf DEF Lowest

LEMMA HighestOf ==
    ASSUME NEW S \in SUBSET Nat, S # {}, NEW n \in Nat, \A s \in S : s <= n
    PROVE  Highest(S) \in S
<1> DEFINE T == {n - s : s \in S}
<1>1. \A s \in S : s \in Nat /\ n - s \in Nat
  OBVIOUS
<1>2. T \in SUBSET Nat /\ T # {}
  BY <1>1
<1>3. PICK m \in T : \A k \in T : m <= k
  BY <1>2, LeastOf
<1>4. PICK x \in S : m = n - x
  OBVIOUS
<1>5. \A y \in S : n - x <= n - y
  BY <1>3, <1>4
<1>6. \A y \in S : x >= y
  BY <1>1, <1>5
<1> QED
  BY <1>6 DEF Highest

LEMMA FirstOf ==
    ASSUME NEW e \in EventKeys, NEW S \in SUBSET Numbers(e), S # {}
    PROVE  First(e, S) \in S
<1>1. S \in SUBSET Nat /\ Customers + 2 \in Nat
  BY NumbersType, WorkloadAssumption
<1>2. CASE e \in {"customer_address_status_change", "secondary_contact_delete"}
  <2>1. \A s \in S : s <= Customers + 2
    BY <1>2, NumbersType
  <2> QED
    BY <1>1, <1>2, <2>1, HighestOf DEF First
<1>3. CASE e \notin {"customer_address_status_change", "secondary_contact_delete"}
  BY <1>1, <1>3, LowestOf DEF First
<1> QED
  BY <1>2, <1>3

(* What a row of each table looks like.                                     *)
LEMMA RowShapes ==
    ASSUME NEW d \in SUBSET DbRows, NEW p \in d
    PROVE  /\ p = <<p[1], p[2], p[3]>>
           /\ p[1] = "customers" => p[2] \in CustomerIds /\ p[3] \in {"ACTIVE", "PASSIVE"}
           /\ p[1] = "addresses" => /\ p[2] = <<p[2][1], p[2][2]>>
                                    /\ p[2][1] \in CustomerIds /\ p[2][2] \in {1, 2}
                                    /\ p[3] \in {"OPEN", "CLOSED"}
           /\ p[1] = "contacts" => /\ p[2] = <<p[2][1], p[2][2]>>
                                   /\ p[2][1] \in 1 .. Customers /\ p[2][2] \in {"EMAIL", "PHONE"}
                                   /\ p[3] = "LIVE"
           /\ p[1] = "applications" => /\ p[2] \in ApplicationIds
                                       /\ p[3] \in {"PENDING", "APPROVED", "REJECTED"}
           /\ p[1] = "loans" => p[2] \in LoanIds /\ p[3] \in {"ACTIVE", "DELINQUENT"}
           /\ p[1] = "installments" => /\ p[2] = <<p[2][1], p[2][2]>>
                                       /\ p[2][1] \in LoanIds /\ p[2][2] \in 1 .. Installments
                                       /\ p[3] \in {"PENDING", "PAID", "OVERDUE"}
           /\ p[1] = "rates" => p[2] \in RateIds /\ p[3] \in {"OPEN", "CLOSED"}
BY DEF DbRows

LEMMA CandidatesType ==
    ASSUME db \subseteq DbRows, NEW e \in EventKeys
    PROVE  /\ Candidates(e, db) \subseteq Numbers(e)
           /\ Qualifying(e, db) \subseteq Numbers(e)
<1>1. Qualifying(e, db) \subseteq Numbers(e)
  BY EventNames, RowShapes DEF Qualifying, Numbers, Rows, Fixtures
<1>2. Candidates(e, db) \subseteq Numbers(e)
  <2>1. CASE e = "initial_snapshot"
    BY <2>1 DEF Candidates, Numbers, Fixtures
  <2>2. CASE e # "initial_snapshot"
    <3>1. ASSUME e \in {"customer_address_status_change", "setup"}
          PROVE  Candidates(e, db) \subseteq Qualifying(e, db)
      BY <3>1 DEF Candidates
    <3>2. ASSUME e \notin {"customer_address_status_change", "setup"}
          PROVE  Candidates(e, db) \subseteq Qualifying(e, db)
      BY <2>2, <3>2 DEF Candidates
    <3> QED
      BY <1>1, <3>1, <3>2
  <2> QED
    BY <2>1, <2>2
<1> QED
  BY <1>1, <1>2

-----------------------------------------------------------------------------
(* Steps of the processes                                                   *)

LEMMA WorkerType ==
    ASSUME WorkloadInv, NEW w \in Workers
    PROVE  /\ worker[w] \in WorkerRow
           /\ ~ IsAt(w, "idle") =>
                /\ worker[w].run \in Runs /\ worker[w].run # None
                /\ worker[w].at \in Nat /\ worker[w].at >= 1
                /\ worker[w].at <= Len(Plan(worker[w].run)) + 1
           /\ ~ IsAt(w, "idle") /\ HasEvent(w) =>
                worker[w].at \in DOMAIN Plan(worker[w].run) /\ Key(w) \in EventKeys
<1> USE DEF WorkloadInv
<1>1. worker[w] \in WorkerRow
  BY DEF StateTypes
<1>2. ASSUME ~ IsAt(w, "idle")
      PROVE  /\ worker[w].run \in Runs /\ worker[w].run # None
             /\ worker[w].at \in Nat /\ worker[w].at >= 1
             /\ worker[w].at <= Len(Plan(worker[w].run)) + 1
  <2>1. worker[w].run \in Runs /\ worker[w].at \in 1 .. Len(Plan(worker[w].run)) + 1
    BY <1>2 DEF WorkerInv
  <2>2. Len(Plan(worker[w].run)) \in Nat
    BY <2>1, PlanType
  <2> QED
    BY <2>1, <2>2, WorkloadAssumption
<1>3. ASSUME ~ IsAt(w, "idle"), HasEvent(w)
      PROVE  worker[w].at \in DOMAIN Plan(worker[w].run) /\ Key(w) \in EventKeys
  BY <1>2, <1>3, PlanType DEF HasEvent, Key
<1> QED
  BY <1>1, <1>2, <1>3

(* What a query leaves: an error, a wait, or a locked row that qualifies.   *)
Fails(w) ==
    worker'[w] = [worker[w] EXCEPT !.pc = "failing", !.seen = {}]
Waits(w, found) ==
    worker'[w] = [worker[w] EXCEPT !.pc = "wait", !.seen = found]
Locks(w, t) ==
    /\ worker'[w] = [worker[w] EXCEPT !.pc = "commit", !.seen = {}, !.row = RowName(Key(w), t)]
    /\ t \in Numbers(Key(w)) /\ t \in Qualifying(Key(w), db) /\ ~ Refused(Key(w), db, t)
    /\ \A v \in Workers \ {w} : worker[v].row # RowName(Key(w), t)

LEMMA QueryMeans ==
    ASSUME WorkloadInv, NEW w \in Workers, ~ IsAt(w, "idle"), HasEvent(w),
           NEW found \in SUBSET Numbers(Key(w)), Query(w, found)
    PROVE  /\ \A v \in Workers \ {w} : worker'[v] = worker[v]
           /\ DOMAIN worker' = Workers /\ worker' = [v \in Workers |-> worker'[v]]
           /\ Fails(w) \/ Waits(w, found) \/ \E t \in found : Locks(w, t)
<1> DEFINE e == Key(w)
           left == Left(w, found)
           t == First(e, left)
<1>1. worker \in [Workers -> WorkerRow]
  BY DEF WorkloadInv, StateTypes
<1>2. e \in EventKeys
  BY WorkerType
<1>3. left \subseteq found /\ Held(w, found) \subseteq found
  BY DEF Left, Held
<1>4. worker' = [worker EXCEPT ![w] =
         IF left = {} THEN [worker[w] EXCEPT !.pc = "failing", !.seen = {}]
         ELSE IF t \in Held(w, found) THEN [worker[w] EXCEPT !.pc = "wait", !.seen = found]
         ELSE IF Refused(e, db, t) THEN [worker[w] EXCEPT !.pc = "failing", !.seen = {}]
         ELSE [worker[w] EXCEPT !.pc = "commit", !.seen = {}, !.row = RowName(e, t)]]
  BY DEF Query
<1>5. left # {} => t \in left
  BY <1>2, <1>3, FirstOf
<1>6. t \in left /\ t \notin Held(w, found) => t \in found /\ t \in Qualifying(e, db)
  BY DEF Left
<1>7. t \in found /\ t \notin Held(w, found) => RowName(e, t) \notin LockedByOthers(w)
  BY DEF Held
<1>8. RowName(e, t) \notin LockedByOthers(w) /\ t \in found =>
        \A v \in Workers \ {w} : worker[v].row # RowName(e, t)
  <2>1. SUFFICES ASSUME t \in found, NEW v \in Workers \ {w}, worker[v].row = RowName(e, t)
                 PROVE  RowName(e, t) \in LockedByOthers(w)
    OBVIOUS
  <2>2. RowName(e, t) \in RowNames
    BY <1>2, <2>1, NumbersType DEF RowName
  <2>3. worker[v].row # None
    BY <2>1, <2>2, WorkloadAssumption
  <2> QED
    BY <2>1, <2>3 DEF LockedByOthers
<1> HIDE DEF e, left, t
<1>9. CASE left = {}
  BY <1>1, <1>4, <1>9 DEF Fails
<1>10. CASE left # {} /\ t \in Held(w, found)
  BY <1>1, <1>4, <1>10 DEF Waits
<1>11. CASE left # {} /\ t \notin Held(w, found) /\ Refused(e, db, t)
  BY <1>1, <1>4, <1>11 DEF Fails
<1>12. CASE left # {} /\ t \notin Held(w, found) /\ ~ Refused(e, db, t)
  <2>1. worker'[w] = [worker[w] EXCEPT !.pc = "commit", !.seen = {}, !.row = RowName(e, t)]
    BY <1>1, <1>4, <1>12
  <2>2. t \in found /\ t \in Qualifying(e, db)
        /\ \A v \in Workers \ {w} : worker[v].row # RowName(e, t)
    BY <1>5, <1>6, <1>7, <1>8, <1>12
  <2>3. Locks(w, t)
    BY <1>12, <2>1, <2>2 DEF Locks, e
  <2>4. \A v \in Workers \ {w} : worker'[v] = worker[v]
    BY <1>1, <1>4
  <2>5. DOMAIN worker' = Workers /\ worker' = [v \in Workers |-> worker'[v]]
    BY <1>1, <1>4
  <2> QED
    BY <2>2, <2>3, <2>4, <2>5
<1> QED
  BY <1>9, <1>10, <1>11, <1>12

(* A step of a run leaves the other runs alone.                             *)
LEMMA OtherRuns ==
    ASSUME ControlInv, NEW q \in Runs, shared \subseteq shared',
           \A r \in Runs \ {q} : run'[r] = run[r] /\ ledger'[r] = ledger[r] /\ wal'[r] = wal[r],
           \A w \in Workers : \/ worker'[w] = worker[w]
                              \/ worker[w].run \in {q, None} /\ worker'[w].run \in {q, None},
           q \notin shared' => RunInv(q)'
    PROVE  ControlInv'
<1> SUFFICES ASSUME NEW r \in Runs \ shared', r # q
             PROVE  RunInv(r)'
  BY DEF ControlInv
<1>1. r \in Runs /\ r # None /\ r \notin shared /\ RunInv(r)
  BY WorkloadAssumption DEF ControlInv
<1>2. WorkingOn(r)' = WorkingOn(r) /\ \A w \in WorkingOn(r) : worker'[w] = worker[w]
  BY <1>1 DEF WorkingOn
<1>3. run'[r] = run[r] /\ ledger'[r] = ledger[r] /\ wal'[r] = wal[r]
  OBVIOUS
<1> QED
  BY <1>1, <1>2, <1>3 DEF RunInv

(* A step that changes no row of the source and one process, and locks no   *)
(* row but one that it may work on.                                         *)
LEMMA OneProcess ==
    ASSUME WorkloadInv, db' = db, NEW w \in Workers,
           \A v \in Workers \ {w} : worker'[v] = worker[v],
           IsAt(w, "idle")' => worker'[w].run = None,
           ~ IsAt(w, "idle")' =>
                /\ worker'[w].run \in Runs
                /\ worker'[w].at \in 1 .. Len(Plan(worker'[w].run)) + 1
                /\ ~ IsLoaded => Mode[worker'[w].run] = "snapshot",
           worker'[w].pc \in {"wait", "commit", "failing"} => HasEvent(w)',
           IsAt(w, "wait")' => worker'[w].seen \subseteq Numbers(Key(w)'),
           ~ IsAt(w, "commit")' => worker'[w].row = None,
           IsAt(w, "commit")' => \E t \in Numbers(Key(w)') :
                /\ worker'[w].row = RowName(Key(w)', t)
                /\ t \in Qualifying(Key(w)', db) /\ ~ Refused(Key(w)', db, t)
                /\ \A v \in Workers \ {w} : worker[v].row # worker'[w].row
    PROVE  WorkerInv' /\ Exclusive' /\ DbInv' /\ Claims'
<1> USE DEF WorkloadInv
<1>1. \A v \in Workers \ {w} :
        /\ \A pc : IsAt(v, pc)' <=> IsAt(v, pc)
        /\ Key(v)' = Key(v) /\ (HasEvent(v)' <=> HasEvent(v))
  BY DEF IsAt, Key, HasEvent
<1>2. WorkerInv'
  <2>1. ASSUME NEW v \in Workers, v # w
        PROVE  /\ IsAt(v, "idle")' => worker'[v].run = None
               /\ ~ IsAt(v, "idle")' =>
                    /\ worker'[v].run \in Runs
                    /\ worker'[v].at \in 1 .. Len(Plan(worker'[v].run)) + 1
               /\ worker'[v].pc \in {"wait", "commit", "failing"} => HasEvent(v)'
               /\ IsAt(v, "wait")' => worker'[v].seen \subseteq Numbers(Key(v)')
               /\ ~ IsAt(v, "commit")' => worker'[v].row = None
               /\ IsAt(v, "commit")' =>
                    \E t \in Numbers(Key(v)') : worker'[v].row = RowName(Key(v)', t)
    BY <1>1, <2>1 DEF WorkerInv
  <2> QED
    BY <2>1 DEF WorkerInv
<1>3. Exclusive'
  BY DEF Exclusive
<1>4. DbInv'
  <2>1. SnapshotFirst'
    BY <1>1 DEF DbInv, SnapshotFirst, IsLoaded
  <2> QED
    BY <2>1 DEF DbInv, UniqueKeys, AddressBook, FixtureBook, LoanBook, RateBook
<1>5. Claims'
  <2>1. ASSUME NEW v \in Workers, IsAt(v, "commit")', v # w
        PROVE  worker'[v].row[2] \in Qualifying(Key(v)', db) /\ ~ Refused(Key(v)', db, worker'[v].row[2])
    BY <1>1, <2>1 DEF Claims
  <2>2. ASSUME IsAt(w, "commit")'
        PROVE  worker'[w].row[2] \in Qualifying(Key(w)', db) /\ ~ Refused(Key(w)', db, worker'[w].row[2])
    <3>1. PICK t \in Numbers(Key(w)') :
                /\ worker'[w].row = RowName(Key(w)', t)
                /\ t \in Qualifying(Key(w)', db) /\ ~ Refused(Key(w)', db, t)
      BY <2>2
    <3>2. worker'[w].row[2] = t
      BY <3>1 DEF RowName
    <3> QED
      BY <3>1, <3>2
  <2> QED
    BY <2>1, <2>2 DEF Claims
<1> QED
  BY <1>2, <1>3, <1>4, <1>5

LEMMA StartRunStep ==
    ASSUME WorkloadInv, NEW w \in Workers, NEW r \in Runs, StartRun(w, r)
    PROVE  WorkloadInv'
<1> USE DEF WorkloadInv
<1> DEFINE x == [Idle EXCEPT !.pc = "next", !.run = r, !.at = 1]
<1>0. /\ x \in WorkerRow /\ x.pc = "next" /\ x.run = r /\ x.at = 1 /\ x.row = None
  BY DEF Idle, WorkerRow, Busy
<1> HIDE DEF x
<1>1. /\ IsAt(w, "idle") /\ run[r] # "COMPLETED"
      /\ Mode[r] # "snapshot" => Rows(db, "customers") # {}
      /\ WorkingOn(r) # {} => faults < MaxFaults
      /\ run' = [run EXCEPT ![r] = "RUNNING"]
      /\ worker' = [worker EXCEPT ![w] = x]
      /\ shared' = (IF WorkingOn(r) = {} THEN shared ELSE shared \cup {r})
      /\ faults' = (IF WorkingOn(r) = {} THEN faults ELSE faults + 1)
      /\ db' = db /\ ledger' = ledger /\ wal' = wal
  BY DEF StartRun, MayStartRun, x
<1>2. /\ worker \in [Workers -> WorkerRow]
      /\ worker'[w] = x /\ \A v \in Workers \ {w} : worker'[v] = worker[v]
  BY <1>1 DEF StateTypes
<1>3. StateTypes'
  <2>1. worker' \in [Workers -> WorkerRow]
    BY <1>0, <1>1, <1>2
  <2>2. run' \in [Runs -> Statuses]
    BY <1>1 DEF StateTypes, Statuses
  <2>3. shared' \subseteq Runs /\ faults' \in 0 .. MaxFaults
    BY <1>1, WorkloadAssumption DEF StateTypes
  <2> QED
    BY <1>1, <2>1, <2>2, <2>3 DEF StateTypes
<1>4. x.at \in 1 .. Len(Plan(r)) + 1
  BY <1>0, PlanType
<1>5. WorkerInv' /\ Exclusive' /\ DbInv' /\ Claims'
  <2>1. /\ ~ IsAt(w, "idle")' /\ ~ IsAt(w, "wait")' /\ ~ IsAt(w, "commit")'
        /\ worker'[w].run = r /\ worker'[w].at = x.at /\ worker'[w].row = None
        /\ worker'[w].pc \notin {"wait", "commit", "failing"}
    BY <1>0, <1>2 DEF IsAt
  <2>2. ~ IsLoaded => Mode[r] = "snapshot"
    BY <1>1 DEF IsLoaded
  <2> QED
    BY <1>1, <1>2, <1>4, <2>1, <2>2, OneProcess
<1>6. ControlInv'
  <2>1. \A q \in Runs \ {r} : run'[q] = run[q] /\ ledger'[q] = ledger[q] /\ wal'[q] = wal[q]
    BY <1>1 DEF StateTypes
  <2>2. worker[w].run = None /\ worker'[w].run = r /\ shared \subseteq shared'
    BY <1>0, <1>1, <1>2 DEF WorkerInv
  <2>3. ASSUME r \notin shared'
        PROVE  RunInv(r)'
    <3>1. WorkingOn(r) = {} /\ RunInv(r)
      BY <1>1, <2>3 DEF ControlInv
    <3>2. WorkingOn(r)' = {w}
      BY <1>0, <1>2, <3>1 DEF WorkingOn
    <3>3. run'[r] = "RUNNING"
      BY <1>1 DEF StateTypes
    <3>4. \A i \in DOMAIN Plan(r) : ~(i < worker'[w].at)
      BY <1>0, <1>2, PlanType
    <3> QED
      BY <1>0, <1>1, <1>2, <3>1, <3>2, <3>3, <3>4 DEF RunInv
  <2> QED
    BY <1>2, <2>1, <2>2, <2>3, OtherRuns
<1>7. LedgerInv'
  BY <1>1 DEF LedgerInv
<1> QED
  BY <1>3, <1>5, <1>6, <1>7

LEMMA SkipEventStep ==
    ASSUME WorkloadInv, NEW w \in Workers, SkipEvent(w)
    PROVE  WorkloadInv'
<1> USE DEF WorkloadInv
<1> DEFINE r == worker[w].run
           x == [worker[w] EXCEPT !.at = @ + 1]
<1>1. /\ IsAt(w, "next") /\ HasEvent(w) /\ ledger[r][worker[w].at].status = "COMPLETED"
      /\ worker' = [worker EXCEPT ![w] = x]
      /\ UNCHANGED <<db, run, ledger, wal, shared, faults>>
  BY DEF SkipEvent, IsCompleted
<1>2. /\ worker \in [Workers -> WorkerRow] /\ worker[w] \in WorkerRow /\ ~ IsAt(w, "idle")
      /\ r \in Runs /\ worker[w].at \in DOMAIN Plan(r) /\ worker[w].pc = "next"
      /\ worker[w].row = None
  BY <1>1, WorkerType DEF StateTypes, IsAt, WorkerInv
<1>3. /\ x.at = worker[w].at + 1 /\ x.run = r /\ x.pc = "next" /\ x.row = None
      /\ x \in WorkerRow
  BY <1>2 DEF WorkerRow
<1>4. /\ worker'[w] = x /\ \A v \in Workers \ {w} : worker'[v] = worker[v]
      /\ worker' \in [Workers -> WorkerRow]
  BY <1>1, <1>2, <1>3
<1> HIDE DEF x
<1>5. StateTypes'
  BY <1>1, <1>4 DEF StateTypes
<1>6. worker[w].at \in Nat /\ x.at \in 1 .. Len(Plan(r)) + 1
  BY <1>2, <1>3, PlanType
<1>7. WorkerInv' /\ Exclusive' /\ DbInv' /\ Claims'
  <2>1. /\ ~ IsAt(w, "idle")' /\ ~ IsAt(w, "wait")' /\ ~ IsAt(w, "commit")'
        /\ worker'[w].run = r /\ worker'[w].at = x.at /\ worker'[w].row = None
        /\ worker'[w].pc \notin {"wait", "commit", "failing"}
    BY <1>3, <1>4 DEF IsAt
  <2>2. ~ IsLoaded => Mode[r] = "snapshot"
    BY <1>2 DEF DbInv, SnapshotFirst
  <2> QED
    BY <1>1, <1>2, <1>4, <1>6, <2>1, <2>2, OneProcess
<1>8. ControlInv'
  <2>1. ASSUME r \notin shared'
        PROVE  RunInv(r)'
    <3>1. RunInv(r) /\ w \in WorkingOn(r)
      BY <1>1, <1>2, <2>1 DEF ControlInv, WorkingOn
    <3>2. WorkingOn(r)' = WorkingOn(r)
      BY <1>3, <1>4 DEF WorkingOn
    <3>3. WorkingOn(r) = {w}
      BY <3>1 DEF RunInv
    <3>4. ASSUME NEW i \in DOMAIN Plan(r), i < x.at
          PROVE  ledger[r][i].status = "COMPLETED"
      <4>1. i \in Nat
        BY <1>2, PlanType
      <4>2. i < worker[w].at \/ i = worker[w].at
        BY <1>3, <1>6, <3>4, <4>1
      <4> QED
        BY <1>1, <3>1, <4>2 DEF RunInv
    <3> QED
      BY <1>1, <1>3, <1>4, <3>1, <3>2, <3>3, <3>4 DEF RunInv
  <2> QED
    BY <1>1, <1>2, <1>3, <1>4, <2>1, OtherRuns
<1>9. LedgerInv'
  BY <1>1 DEF LedgerInv
<1> QED
  BY <1>5, <1>7, <1>8, <1>9

(* A query, of an event that is not completed, keeps the processes sound.   *)
LEMMA QueryStep ==
    ASSUME WorkloadInv, NEW w \in Workers, ~ IsAt(w, "idle"), ~ IsAt(w, "commit"), HasEvent(w),
           NEW found \in SUBSET Numbers(Key(w)), Query(w, found), db' = db
    PROVE  /\ worker' \in [Workers -> WorkerRow]
           /\ \A v \in Workers \ {w} : worker'[v] = worker[v]
           /\ worker'[w].run = worker[w].run /\ worker'[w].at = worker[w].at
           /\ WorkerInv' /\ Exclusive' /\ DbInv' /\ Claims'
<1> USE DEF WorkloadInv
<1> DEFINE r == worker[w].run
<1>1. /\ worker[w] \in WorkerRow /\ r \in Runs /\ worker[w].at \in DOMAIN Plan(r)
      /\ worker[w].at \in 1 .. Len(Plan(r)) + 1
      /\ Key(w) \in EventKeys /\ worker[w].row = None
  BY WorkerType DEF WorkerInv
<1>2. /\ \A v \in Workers \ {w} : worker'[v] = worker[v]
      /\ worker' = [v \in Workers |-> worker'[v]]
      /\ Fails(w) \/ Waits(w, found) \/ \E t \in found : Locks(w, t)
  BY QueryMeans
<1>3. found \subseteq Nat
  BY <1>1, NumbersType
<1>4. /\ worker'[w] \in WorkerRow /\ worker'[w].run = r /\ worker'[w].at = worker[w].at
      /\ worker'[w].pc # "idle"
      /\ worker'[w].pc = "wait" => worker'[w].seen = found
      /\ worker'[w].pc # "commit" => worker'[w].row = None
      /\ worker'[w].pc = "commit" => \E t \in found : Locks(w, t)
  <2>1. CASE Fails(w)
    BY <1>1, <2>1 DEF Fails, WorkerRow, Busy
  <2>2. CASE Waits(w, found)
    BY <1>1, <1>3, <2>2 DEF Waits, WorkerRow, Busy
  <2>3. ASSUME NEW t \in found, Locks(w, t)
        PROVE  /\ worker'[w] \in WorkerRow /\ worker'[w].run = r /\ worker'[w].at = worker[w].at
               /\ worker'[w].pc = "commit"
    <3>1. RowName(Key(w), t) \in RowNames
      BY <1>1, <2>3, NumbersType DEF Locks, RowName
    <3> QED
      BY <1>1, <2>3, <3>1 DEF Locks, WorkerRow, Busy
  <2> QED
    BY <1>2, <2>1, <2>2, <2>3
<1>5. worker' \in [Workers -> WorkerRow]
  <2>1. \A v \in Workers : worker'[v] \in WorkerRow
    BY <1>2, <1>4 DEF StateTypes
  <2> QED
    BY <1>2, <2>1
<1>6. Key(w)' = Key(w) /\ (HasEvent(w)' <=> HasEvent(w))
  BY <1>4 DEF Key, HasEvent
<1>7. WorkerInv' /\ Exclusive' /\ DbInv' /\ Claims'
  <2>1. /\ ~ IsAt(w, "idle")'
        /\ IsAt(w, "wait")' => worker'[w].seen \subseteq Numbers(Key(w)')
        /\ ~ IsAt(w, "commit")' => worker'[w].row = None
    BY <1>4, <1>6 DEF IsAt
  <2>2. ASSUME IsAt(w, "commit")'
        PROVE  \E t \in Numbers(Key(w)') :
                /\ worker'[w].row = RowName(Key(w)', t)
                /\ t \in Qualifying(Key(w)', db) /\ ~ Refused(Key(w)', db, t)
                /\ \A v \in Workers \ {w} : worker[v].row # worker'[w].row
    <3>1. PICK t \in found : Locks(w, t)
      BY <1>4, <2>2 DEF IsAt
    <3>2. worker'[w].row = RowName(Key(w), t)
      BY <1>1, <3>1 DEF Locks, WorkerRow
    <3> QED
      BY <1>6, <3>1, <3>2 DEF Locks
  <2>3. ~ IsLoaded => Mode[r] = "snapshot"
    BY DEF DbInv, SnapshotFirst
  <2> QED
    BY <1>1, <1>2, <1>4, <1>6, <2>1, <2>2, <2>3, OneProcess
<1> QED
  BY <1>2, <1>4, <1>5, <1>7

(* Setting the status of an event that is not completed.                    *)
LEMMA MarkEvent ==
    ASSUME WorkloadInv, NEW r \in Runs, NEW i \in DOMAIN Plan(r), NEW s \in Statuses,
           s # "COMPLETED",
           ledger' = [ledger EXCEPT ![r][i].status = s], wal' = wal
    PROVE  /\ ledger' \in [Runs -> Seq(EventRow)]
           /\ \A q \in Runs : Len(ledger'[q]) = Len(ledger[q])
           /\ \A q \in Runs \ {r} : ledger'[q] = ledger[q]
           /\ \A j \in DOMAIN Plan(r) :
                /\ ledger'[r][j].txid = ledger[r][j].txid
                /\ j # i => ledger'[r][j].status = ledger[r][j].status
           /\ ledger'[r][i].status = s
           /\ LedgerInv'
<1> USE DEF WorkloadInv
<1> DEFINE x == [ledger[r][i] EXCEPT !.status = s]
<1>1. /\ ledger \in [Runs -> Seq(EventRow)] /\ ledger[r] \in Seq(EventRow)
      /\ Len(ledger[r]) = Len(Plan(r)) /\ DOMAIN Plan(r) = 1 .. Len(Plan(r))
      /\ i \in DOMAIN ledger[r] /\ DOMAIN ledger[r] = DOMAIN Plan(r)
      /\ ledger[r][i] \in EventRow
  BY PlanType DEF StateTypes
<1>2. /\ x \in EventRow /\ x.status = s /\ x.txid = ledger[r][i].txid
      /\ x.count = ledger[r][i].count
  BY <1>1 DEF EventRow
<1>3. ledger' = [ledger EXCEPT ![r] = [ledger[r] EXCEPT ![i] = x]]
  BY <1>1
<1> HIDE DEF x
<1>4. /\ [ledger[r] EXCEPT ![i] = x] \in Seq(EventRow)
      /\ Len([ledger[r] EXCEPT ![i] = x]) = Len(ledger[r])
      /\ \A j \in DOMAIN Plan(r) : [ledger[r] EXCEPT ![i] = x][j] = IF j = i THEN x ELSE ledger[r][j]
  BY <1>1, <1>2
<1>5. /\ ledger' \in [Runs -> Seq(EventRow)] /\ Len(ledger'[r]) = Len(ledger[r])
      /\ \A q \in Runs \ {r} : ledger'[q] = ledger[q]
      /\ ledger'[r] = [ledger[r] EXCEPT ![i] = x]
  BY <1>1, <1>3, <1>4
<1>6. \A j \in DOMAIN Plan(r) :
        /\ ledger'[r][j].txid = ledger[r][j].txid /\ ledger'[r][j].count = ledger[r][j].count
        /\ j # i => ledger'[r][j].status = ledger[r][j].status
        /\ j = i => ledger'[r][j].status = s
  BY <1>2, <1>4, <1>5
<1>7. LedgerInv'
  <2>1. \A q \in Runs : \A j \in DOMAIN Plan(q) :
          ledger'[q][j].txid = ledger[q][j].txid /\ ledger'[q][j].count = ledger[q][j].count
    BY <1>5, <1>6
  <2> QED
    BY <2>1 DEF LedgerInv
<1> QED
  BY <1>5, <1>6, <1>7

(* ... keeps the order of the runs, as a process on it goes on or stops.    *)
LEMMA MarkedRun ==
    ASSUME WorkloadInv, WorkerInv', NEW w \in Workers, NEW r \in Runs, worker[w].run = r,
           NEW i \in DOMAIN Plan(r), i = worker[w].at,
           r \notin shared => ledger[r][i].status # "COMPLETED",
           \A q \in Runs \ {r} : ledger'[q] = ledger[q],
           \A j \in DOMAIN Plan(r) :
                /\ ledger'[r][j].txid = ledger[r][j].txid
                /\ j # i => ledger'[r][j].status = ledger[r][j].status,
           ledger'[r][i].status # "COMPLETED",
           wal' = wal, run' = run, shared' = shared,
           \A v \in Workers \ {w} : worker'[v] = worker[v],
           worker'[w].run = r, worker'[w].at = worker[w].at
    PROVE  ControlInv'
<1> USE DEF WorkloadInv
<1>2. ASSUME r \notin shared'
      PROVE  RunInv(r)'
  <2>1. RunInv(r) /\ w \in WorkingOn(r) /\ ledger[r][i].status # "COMPLETED"
    BY <1>2 DEF ControlInv, WorkingOn
  <2>2. WorkingOn(r)' = WorkingOn(r) /\ WorkingOn(r) = {w}
    BY <2>1 DEF WorkingOn, RunInv
  <2>3. run[r] # "COMPLETED"
    BY <2>1 DEF RunInv
  <2>4. \A j \in DOMAIN Plan(r) : j < i => j # i
    BY PlanType
  <2>5. ledger'[r][worker'[w].at].status # "COMPLETED"
    OBVIOUS
  <2>6. \A j \in DOMAIN Plan(r) : j < worker'[w].at => ledger'[r][j].status = "COMPLETED"
    BY <2>1, <2>4 DEF RunInv
  <2>7. \A j \in DOMAIN Plan(r) :
          IF ledger'[r][j].status = "COMPLETED"
          THEN ledger'[r][j].txid = 1 /\ Len(wal[r][j]) = 1
          ELSE ledger'[r][j].txid = 0 /\ wal[r][j] = <<>>
    BY <2>1 DEF RunInv
  <2> QED
    BY <2>2, <2>3, <2>5, <2>6, <2>7 DEF RunInv
<1> QED
  BY <1>2, OtherRuns

LEMMA BeginEventStep ==
    ASSUME WorkloadInv, NEW w \in Workers, BeginEvent(w)
    PROVE  WorkloadInv'
<1> USE DEF WorkloadInv
<1>1. PICK r \in Runs : r = worker[w].run
  BY WorkerType DEF BeginEvent, IsAt
<1>2. /\ worker[w].pc = "next" /\ HasEvent(w) /\ ~ IsAt(w, "idle") /\ ~ IsAt(w, "commit")
      /\ ledger[r][worker[w].at].status # "COMPLETED"
      /\ Query(w, Candidates(Key(w), db))
      /\ UNCHANGED <<db, run, wal, shared, faults>>
  BY <1>1 DEF BeginEvent, IsAt, IsCompleted
<1>3. PICK i \in DOMAIN Plan(r) : i = worker[w].at
  BY <1>1, <1>2 DEF HasEvent
<1>4. ledger' = [ledger EXCEPT ![r][i].status = "RUNNING"]
  BY <1>1, <1>3 DEF BeginEvent
<1>5. Candidates(Key(w), db) \in SUBSET Numbers(Key(w))
  BY <1>2, WorkerType, CandidatesType DEF StateTypes
<1>6. /\ worker' \in [Workers -> WorkerRow]
      /\ \A v \in Workers \ {w} : worker'[v] = worker[v]
      /\ worker'[w].run = r /\ worker'[w].at = i
      /\ WorkerInv' /\ Exclusive' /\ DbInv' /\ Claims'
  BY <1>1, <1>2, <1>3, <1>5, QueryStep
<1>7. "RUNNING" \in Statuses
  BY DEF Statuses
<1>8. /\ ledger' \in [Runs -> Seq(EventRow)]
      /\ \A q \in Runs : Len(ledger'[q]) = Len(ledger[q])
      /\ \A q \in Runs \ {r} : ledger'[q] = ledger[q]
      /\ \A j \in DOMAIN Plan(r) :
            /\ ledger'[r][j].txid = ledger[r][j].txid
            /\ j # i => ledger'[r][j].status = ledger[r][j].status
      /\ ledger'[r][i].status = "RUNNING"
      /\ LedgerInv'
  BY <1>2, <1>4, <1>7, MarkEvent
<1>9. ControlInv'
  <2>1. wal' = wal /\ run' = run /\ shared' = shared /\ ledger'[r][i].status # "COMPLETED"
    BY <1>2, <1>8
  <2> QED
    BY <1>1, <1>2, <1>3, <1>6, <1>8, <2>1, MarkedRun
<1>10. StateTypes'
  BY <1>2, <1>6, <1>8 DEF StateTypes
<1> QED
  BY <1>6, <1>8, <1>9, <1>10

LEMMA WakeUpStep ==
    ASSUME WorkloadInv, NEW w \in Workers, WakeUp(w)
    PROVE  WorkloadInv'
<1> USE DEF WorkloadInv
<1>1. PICK r \in Runs : r = worker[w].run
  BY WorkerType DEF WakeUp, IsAt
<1>2. /\ worker[w].pc = "wait" /\ HasEvent(w) /\ ~ IsAt(w, "idle") /\ ~ IsAt(w, "commit")
      /\ worker[w].seen \in SUBSET Numbers(Key(w))
      /\ Query(w, worker[w].seen)
      /\ UNCHANGED <<db, run, ledger, wal, shared, faults>>
  BY DEF WakeUp, IsAt, WorkerInv
<1>3. /\ worker' \in [Workers -> WorkerRow]
      /\ \A v \in Workers \ {w} : worker'[v] = worker[v]
      /\ worker'[w].run = worker[w].run /\ worker'[w].at = worker[w].at
      /\ WorkerInv' /\ Exclusive' /\ DbInv' /\ Claims'
  BY <1>2, QueryStep
<1>4. StateTypes'
  BY <1>2, <1>3 DEF StateTypes
<1>5. ControlInv'
  <2>1. ASSUME r \notin shared'
        PROVE  RunInv(r)'
    <3>1. RunInv(r) /\ w \in WorkingOn(r)
      BY <1>1, <1>2, <2>1 DEF ControlInv, WorkingOn
    <3>2. WorkingOn(r)' = WorkingOn(r) /\ WorkingOn(r) = {w}
      BY <1>3, <3>1 DEF WorkingOn, RunInv
    <3>3. ledger[r][worker[w].at].status # "COMPLETED"
      BY <1>2, <3>1 DEF RunInv
    <3> QED
      BY <1>2, <1>3, <3>1, <3>2, <3>3 DEF RunInv
  <2> QED
    BY <1>1, <1>2, <1>3, <2>1, OtherRuns
<1>6. LedgerInv'
  BY <1>2 DEF LedgerInv
<1> QED
  BY <1>3, <1>4, <1>5, <1>6

LEMMA FailEventStep ==
    ASSUME WorkloadInv, NEW w \in Workers, FailEvent(w)
    PROVE  WorkloadInv'
<1> USE DEF WorkloadInv
<1>1. PICK r \in Runs : r = worker[w].run
  BY WorkerType DEF FailEvent, IsAt
<1>2. /\ worker[w].pc = "failing" /\ HasEvent(w) /\ ~ IsAt(w, "idle") /\ worker[w].row = None
      /\ worker' = [worker EXCEPT ![w].pc = "failed"]
      /\ UNCHANGED <<db, run, wal, shared, faults>>
  BY DEF FailEvent, GoTo, IsAt, WorkerInv
<1>3. PICK i \in DOMAIN Plan(r) : i = worker[w].at
  BY <1>1, <1>2 DEF HasEvent
<1>4. ledger' = [ledger EXCEPT ![r][i].status = "FAILED"]
  BY <1>1, <1>3 DEF FailEvent
<1>5. worker[w] \in WorkerRow /\ worker \in [Workers -> WorkerRow]
  BY DEF StateTypes
<1>6. /\ worker' \in [Workers -> WorkerRow]
      /\ \A v \in Workers \ {w} : worker'[v] = worker[v]
      /\ worker'[w].run = r /\ worker'[w].at = i /\ worker'[w].row = None
      /\ worker'[w].pc = "failed"
  BY <1>1, <1>2, <1>3, <1>5 DEF WorkerRow, Busy
<1>7. WorkerInv' /\ Exclusive' /\ DbInv' /\ Claims'
  <2>1. /\ ~ IsAt(w, "idle")' /\ ~ IsAt(w, "wait")' /\ ~ IsAt(w, "commit")'
        /\ worker'[w].pc \notin {"wait", "commit", "failing"}
    BY <1>6 DEF IsAt
  <2>2. i \in 1 .. Len(Plan(r)) + 1
    BY PlanType
  <2>3. ~ IsLoaded => Mode[r] = "snapshot"
    BY <1>1, <1>2 DEF DbInv, SnapshotFirst
  <2> QED
    BY <1>2, <1>6, <2>1, <2>2, <2>3, OneProcess
<1>8. "FAILED" \in Statuses
  BY DEF Statuses
<1>9. /\ ledger' \in [Runs -> Seq(EventRow)]
      /\ \A q \in Runs : Len(ledger'[q]) = Len(ledger[q])
      /\ \A q \in Runs \ {r} : ledger'[q] = ledger[q]
      /\ \A j \in DOMAIN Plan(r) :
            /\ ledger'[r][j].txid = ledger[r][j].txid
            /\ j # i => ledger'[r][j].status = ledger[r][j].status
      /\ ledger'[r][i].status = "FAILED"
      /\ LedgerInv'
  BY <1>2, <1>4, <1>8, MarkEvent
<1>10. r \notin shared => ledger[r][i].status # "COMPLETED"
  BY <1>1, <1>2, <1>3 DEF ControlInv, RunInv, WorkingOn
<1>11. ControlInv'
  <2>1. wal' = wal /\ run' = run /\ shared' = shared /\ ledger'[r][i].status # "COMPLETED"
    BY <1>2, <1>9
  <2> QED
    BY <1>1, <1>3, <1>6, <1>7, <1>9, <1>10, <2>1, MarkedRun
<1>12. StateTypes'
  BY <1>2, <1>6, <1>9 DEF StateTypes
<1> QED
  BY <1>7, <1>9, <1>11, <1>12

(* A process stops; the status of its run may change.                       *)
LEMMA StopStep ==
    ASSUME WorkloadInv, NEW w \in Workers, NEW r \in Runs, worker[w].run = r,
           worker' = [worker EXCEPT ![w] = Idle],
           run' \in [Runs -> Statuses], \A q \in Runs \ {r} : run'[q] = run[q],
           run'[r] = "COMPLETED" =>
               run[r] = "COMPLETED" \/ \A i \in DOMAIN Plan(r) : i < worker[w].at,
           UNCHANGED <<db, ledger, wal, shared>>, faults' \in 0 .. MaxFaults
    PROVE  WorkloadInv'
<1> USE DEF WorkloadInv
<1>1. /\ worker \in [Workers -> WorkerRow] /\ Idle \in WorkerRow
      /\ Idle.run = None /\ Idle.row = None /\ Idle.pc = "idle"
  BY DEF StateTypes, WorkerRow, Idle
<1>2. /\ worker' \in [Workers -> WorkerRow] /\ worker'[w] = Idle
      /\ \A v \in Workers \ {w} : worker'[v] = worker[v]
  BY <1>1
<1>3. StateTypes'
  BY <1>2 DEF StateTypes
<1>4. WorkerInv' /\ Exclusive' /\ DbInv' /\ Claims'
  <2>1. IsAt(w, "idle")' /\ ~ IsAt(w, "wait")' /\ ~ IsAt(w, "commit")'
    BY <1>1, <1>2 DEF IsAt
  <2> QED
    BY <1>1, <1>2, <2>1, OneProcess
<1>5. ControlInv'
  <2>1. ASSUME r \notin shared'
        PROVE  RunInv(r)'
    <3>1. RunInv(r) /\ w \in WorkingOn(r) /\ r # None
      BY <2>1, WorkloadAssumption DEF ControlInv, WorkingOn
    <3>2. WorkingOn(r) = {w}
      BY <3>1 DEF RunInv
    <3>3. WorkingOn(r)' = {}
      BY <1>1, <1>2, <3>1, <3>2 DEF WorkingOn
    <3>4. run[r] # "COMPLETED"
      BY <3>1 DEF RunInv
    <3>5. run'[r] = "COMPLETED" => \A i \in DOMAIN Plan(r) : ledger[r][i].status = "COMPLETED"
      BY <3>1, <3>4 DEF RunInv
    <3> QED
      BY <3>1, <3>3, <3>5 DEF RunInv
  <2> QED
    BY <1>1, <1>2, <2>1, OtherRuns
<1>6. LedgerInv'
  BY DEF LedgerInv
<1> QED
  BY <1>3, <1>4, <1>5, <1>6

LEMMA FailRunStep ==
    ASSUME WorkloadInv, NEW w \in Workers, FailRun(w)
    PROVE  WorkloadInv'
<1>1. PICK r \in Runs : r = worker[w].run
  BY WorkerType DEF FailRun, IsAt
<1>2. /\ run' = [run EXCEPT ![r] = "FAILED"] /\ worker' = [worker EXCEPT ![w] = Idle]
      /\ UNCHANGED <<db, ledger, wal, shared, faults>>
  BY <1>1 DEF FailRun
<1>3. /\ run' \in [Runs -> Statuses] /\ run'[r] = "FAILED"
      /\ \A q \in Runs \ {r} : run'[q] = run[q] /\ faults' \in 0 .. MaxFaults
  BY <1>2 DEF WorkloadInv, StateTypes, Statuses
<1>4. faults' \in 0 .. MaxFaults
  BY <1>2 DEF WorkloadInv, StateTypes
<1> QED
  BY <1>1, <1>2, <1>3, <1>4, StopStep

LEMMA FinishRunStep ==
    ASSUME WorkloadInv, NEW w \in Workers, FinishRun(w)
    PROVE  WorkloadInv'
<1>1. PICK r \in Runs : r = worker[w].run
  BY WorkerType DEF FinishRun, IsAt
<1>2. /\ run' = [run EXCEPT ![r] = "COMPLETED"] /\ worker' = [worker EXCEPT ![w] = Idle]
      /\ UNCHANGED <<db, ledger, wal, shared, faults>>
      /\ worker[w].pc = "next" /\ ~ IsAt(w, "idle") /\ worker[w].at \notin DOMAIN Plan(r)
  BY <1>1 DEF FinishRun, IsAt, HasEvent
<1>3. /\ run' \in [Runs -> Statuses]
      /\ \A q \in Runs \ {r} : run'[q] = run[q]
      /\ faults' \in 0 .. MaxFaults
  BY <1>2 DEF WorkloadInv, StateTypes, Statuses
<1>4. ASSUME NEW i \in DOMAIN Plan(r)
      PROVE  i < worker[w].at
  <2>1. /\ worker[w].at \in 1 .. Len(Plan(r)) + 1 /\ DOMAIN Plan(r) = 1 .. Len(Plan(r))
        /\ Len(Plan(r)) \in Nat
    BY <1>1, <1>2, PlanType DEF WorkloadInv, WorkerInv
  <2> QED
    BY <1>2, <2>1
<1> QED
  BY <1>1, <1>2, <1>3, <1>4, StopStep

LEMMA CrashStep ==
    ASSUME WorkloadInv, NEW w \in Workers, Crash(w)
    PROVE  WorkloadInv'
<1>1. PICK r \in Runs : r = worker[w].run
  BY WorkerType DEF Crash
<1>2. /\ faults < MaxFaults /\ faults' = faults + 1 /\ worker' = [worker EXCEPT ![w] = Idle]
      /\ UNCHANGED <<db, run, ledger, wal, shared>>
  BY DEF Crash
<1>3. run' \in [Runs -> Statuses] /\ faults' \in 0 .. MaxFaults
  BY <1>2, WorkloadAssumption DEF WorkloadInv, StateTypes
<1> QED
  BY <1>1, <1>2, <1>3, StopStep

-----------------------------------------------------------------------------
(* What a scenario has found, and what its transaction changes              *)

Claimed(e, d, t) ==
    CASE e = "initial_snapshot" -> t = 1 /\ ~ Exists(d, 1)
      [] e = "customer_address_status_change" -> <<"customers", t, "ACTIVE">> \in d
      [] e = "secondary_contact_delete" -> <<"contacts", <<t, "PHONE">>, "LIVE">> \in d
      [] e = "loan_application_approval" -> <<"applications", t, "PENDING">> \in d
      [] e = "installment_payment_and_delinquency" ->
            <<"loans", t, "ACTIVE">> \in d /\ ~(Cardinality(PendingInstallments(d, t)) < 2)
      [] e = "base_rate_change" -> <<"rates", t, "OPEN">> \in d
      [] e = "setup" ->
            t = LIFECYCLE_CUSTOMER /\ ~ Exists(d, LIFECYCLE_CUSTOMER) /\ ~ Exists(d, RELATION_CUSTOMER)
      [] e = "delete" ->
            /\ t = LIFECYCLE_CUSTOMER /\ Exists(d, LIFECYCLE_CUSTOMER)
            /\ ~ \E r \in Rows(d, "addresses") : r[2][1] = t

LEMMA ClaimIs ==
    ASSUME NEW d \in SUBSET DbRows, NEW e \in EventKeys, NEW t
    PROVE  t \in Qualifying(e, d) /\ ~ Refused(e, d, t) <=> Claimed(e, d, t)
<1>1. CASE e = "initial_snapshot"
  BY <1>1 DEF Qualifying, Refused, Claimed, Exists
<1>2. CASE e = "customer_address_status_change"
  BY <1>2, RowShapes DEF Qualifying, Refused, Claimed, Rows
<1>3. CASE e = "secondary_contact_delete"
  BY <1>3, RowShapes DEF Qualifying, Refused, Claimed, Rows
<1>4. CASE e = "loan_application_approval"
  BY <1>4, RowShapes DEF Qualifying, Refused, Claimed, Rows
<1>5. CASE e = "installment_payment_and_delinquency"
  BY <1>5, RowShapes DEF Qualifying, Refused, Claimed, Rows
<1>6. CASE e = "base_rate_change"
  BY <1>6, RowShapes DEF Qualifying, Refused, Claimed, Rows
<1>7. CASE e = "setup"
  BY <1>7 DEF Qualifying, Refused, Claimed
<1>8. CASE e = "delete"
  BY <1>8 DEF Qualifying, Refused, Claimed
<1> QED
  BY EventNames, <1>1, <1>2, <1>3, <1>4, <1>5, <1>6, <1>7, <1>8

(* Only the locked row, what hangs on it, and new rows.                     *)
MayTouch(e, t, f, p) ==
    /\ p[1] = "customers" =>
        /\ TableOf(e) = "customers"
        /\ p[2] = t \/ (e = "setup" /\ p[2] = RELATION_CUSTOMER /\ p \in f.new)
    /\ p[1] = "addresses" => e = "customer_address_status_change" /\ p[2][1] = t
    /\ p[1] = "contacts" => e = "secondary_contact_delete" /\ p[2] = <<t, "PHONE">>
    /\ p[1] = "applications" =>
        \/ e = "loan_application_approval" /\ p[2] = t
        \/ e = "setup" /\ p[2] = FIXTURE_APPLICATION /\ p \in f.new
    /\ p[1] = "loans" =>
        \/ e = "loan_application_approval" /\ p[2] = GeneratedLoan(t) /\ p \in f.new
        \/ e = "installment_payment_and_delinquency" /\ p[2] = t
    /\ p[1] = "installments" =>
        \/ e = "loan_application_approval" /\ p[2][1] = GeneratedLoan(t) /\ p \in f.new
        \/ e = "installment_payment_and_delinquency" /\ p[2][1] = t
    /\ p[1] = "rates" => e = "base_rate_change"
    /\ p[1] = "rates" /\ p \in f.gone => p[2] = t

Footprint(e, t, f) == \A p \in f.gone \cup f.new : MayTouch(e, t, f, p)

(* No key twice.                                                            *)
Fresh(f) ==
    /\ \A p \in f.new, q \in db : p[1] = q[1] /\ p[2] = q[2] => q \in f.gone
    /\ \A p, q \in f.new : p[1] = q[1] /\ p[2] = q[2] => p = q

(* Only the fixtures delete a customer.                                     *)
Replaces(e, f) ==
    \A p \in f.gone : p[1] \in {"customers", "applications", "loans"} =>
        e = "delete" \/ \E q \in f.new : q[1] = p[1] /\ q[2] = p[2]

Counted(f) == f.count \in Nat /\ f.count = Cardinality(Touched(f))

IsSound(f) ==
    /\ f.gone \subseteq db /\ f.new \subseteq DbRows
    /\ Fresh(f) /\ Counted(f)

LEMMA SumOfDisjoint ==
    ASSUME NEW S, NEW T, IsFiniteSet(S), IsFiniteSet(T), S \cap T = {}
    PROVE  /\ IsFiniteSet(S \cup T)
           /\ Cardinality(S \cup T) = Cardinality(S) + Cardinality(T)
<1>1. Cardinality(S) \in Nat /\ Cardinality(T) \in Nat
  BY FS_CardinalityType
<1>2. Cardinality(S \cap T) = 0
  BY FS_EmptySet
<1>3. /\ IsFiniteSet(S \cup T)
      /\ Cardinality(S \cup T) = Cardinality(S) + Cardinality(T) - Cardinality(S \cap T)
  BY FS_Union
<1> QED
  BY <1>1, <1>2, <1>3

LEMMA TwoElements ==
    ASSUME NEW a, NEW b, a # b
    PROVE  IsFiniteSet({a, b}) /\ Cardinality({a, b}) = 2
<1>1. {a, b} = {a} \cup {b} /\ {a} \cap {b} = {}
  OBVIOUS
<1>2. /\ IsFiniteSet({a}) /\ Cardinality({a}) = 1
      /\ IsFiniteSet({b}) /\ Cardinality({b}) = 1
  BY FS_Singleton
<1>3. Cardinality({a} \cup {b}) = 1 + 1 /\ IsFiniteSet({a} \cup {b})
  BY <1>1, <1>2, SumOfDisjoint
<1> QED
  BY <1>1, <1>3

LEMMA ThreeElements ==
    ASSUME NEW a, NEW b, NEW c, a # b, a # c, b # c
    PROVE  IsFiniteSet({a, b, c}) /\ Cardinality({a, b, c}) = 3
<1>1. {a, b, c} = {a, b} \cup {c} /\ {a, b} \cap {c} = {}
  OBVIOUS
<1>2. IsFiniteSet({a, b}) /\ Cardinality({a, b}) = 2
  BY TwoElements
<1>3. IsFiniteSet({c}) /\ Cardinality({c}) = 1
  BY FS_Singleton
<1>4. Cardinality({a, b} \cup {c}) = 2 + 1 /\ IsFiniteSet({a, b} \cup {c})
  BY <1>1, <1>2, <1>3, SumOfDisjoint
<1> QED
  BY <1>1, <1>4

(* A row that is in the tables may be there.                                *)
LEMMA NamesOf ==
    ASSUME NEW S \in SUBSET DbRows
    PROVE  {<<r[1], r[2]>> : r \in S} \subseteq Names
BY DEF Names

LEMMA ContactDeleteIs ==
    ASSUME db \subseteq DbRows, DbInv, NEW t, Claimed("secondary_contact_delete", db, t)
    PROVE  LET f == ContactDelete(t) e == "secondary_contact_delete"
           IN  IsSound(f) /\ Footprint(e, t, f) /\ Replaces(e, f)
<1> DEFINE f == ContactDelete(t)
           p == <<"contacts", <<t, "PHONE">>, "LIVE">>
<1>1. f.gone = {p} /\ f.new = {} /\ f.count = 1 /\ p \in db
  BY DEF ContactDelete, Claimed
<1>2. p[1] = "contacts" /\ p[2] = <<t, "PHONE">>
  OBVIOUS
<1> HIDE DEF f, p
<1>3. Touched(f) = {<<p[1], p[2]>>}
  BY <1>1 DEF Touched
<1>4. Counted(f)
  <2>1. Cardinality(Touched(f)) = 1
    BY <1>3, FS_Singleton
  <2> QED
    BY <1>1, <2>1 DEF Counted
<1>5. IsSound(f)
  BY <1>1, <1>4 DEF IsSound, Fresh
<1>6. Footprint("secondary_contact_delete", t, f) /\ Replaces("secondary_contact_delete", f)
  BY <1>1, <1>2 DEF Footprint, MayTouch, Replaces
<1> QED
  BY <1>5, <1>6 DEF f

LEMMA RateChangeIs ==
    ASSUME db \subseteq DbRows, DbInv, NEW t \in RateIds, Claimed("base_rate_change", db, t)
    PROVE  LET f == RateChange(t) e == "base_rate_change"
           IN  IsSound(f) /\ Footprint(e, t, f) /\ Replaces(e, f)
<1> DEFINE f == RateChange(t)
           p == <<"rates", t, "OPEN">>
           q == <<"rates", t, "CLOSED">>
           n == <<"rates", t + 1, "OPEN">>
<1>1. f.gone = {p} /\ f.new = {q, n} /\ f.count = 2 /\ p \in db
  BY DEF RateChange, Claimed
<1>2. /\ p[1] = "rates" /\ p[2] = t /\ p[3] = "OPEN"
      /\ q[1] = "rates" /\ q[2] = t /\ n[1] = "rates" /\ n[2] = t + 1
      /\ t \in Nat /\ t # t + 1 /\ t + 1 \in RateIds
  BY DEF RateIds
<1>3. q \in DbRows /\ n \in DbRows
  BY <1>2 DEF DbRows
<1> HIDE DEF f, p, q, n
<1>4. Touched(f) = {<<"rates", t>>, <<"rates", t + 1>>}
  BY <1>1, <1>2 DEF Touched
<1>5. Counted(f)
  <2>1. <<"rates", t>> # <<"rates", t + 1>>
    BY <1>2
  <2>2. Cardinality(Touched(f)) = 2
    BY <1>4, <2>1, TwoElements
  <2> QED
    BY <1>1, <2>2 DEF Counted
<1>6. ASSUME NEW r \in db, r[1] = "rates"
      PROVE  r[2] \in Nat /\ r[2] # t + 1
  <2>1. r[2] \in Nat
    BY <1>6, RowShapes DEF RateIds
  <2>2. r[2] <= t
    BY <1>1, <1>2, <1>6 DEF DbInv, RateBook, Rows
  <2> QED
    BY <1>2, <2>1, <2>2
<1>7. Fresh(f)
  <2>1. ASSUME NEW r \in db, r[1] = "rates", r[2] = t
        PROVE  r = p
    BY <1>1, <1>2, <2>1 DEF DbInv, UniqueKeys
  <2> QED
    BY <1>1, <1>2, <1>6, <2>1 DEF Fresh
<1>8. IsSound(f)
  BY <1>1, <1>3, <1>5, <1>7 DEF IsSound
<1>9. Footprint("base_rate_change", t, f) /\ Replaces("base_rate_change", f)
  BY <1>1, <1>2 DEF Footprint, MayTouch, Replaces
<1> QED
  BY <1>8, <1>9 DEF f

LEMMA SetupIs ==
    ASSUME db \subseteq DbRows, DbInv, NEW t, Claimed("setup", db, t)
    PROVE  IsSound(Setup) /\ Footprint("setup", t, Setup) /\ Replaces("setup", Setup)
<1> DEFINE f == Setup
           p == <<"customers", LIFECYCLE_CUSTOMER, "ACTIVE">>
           q == <<"customers", RELATION_CUSTOMER, "ACTIVE">>
           n == <<"applications", FIXTURE_APPLICATION, "PENDING">>
<1>1. /\ f.gone = {} /\ f.new = {p, q, n} /\ f.count = 3
      /\ t = LIFECYCLE_CUSTOMER /\ ~ Exists(db, LIFECYCLE_CUSTOMER) /\ ~ Exists(db, RELATION_CUSTOMER)
  BY DEF Setup, Claimed
<1>2. /\ p[1] = "customers" /\ p[2] = LIFECYCLE_CUSTOMER
      /\ q[1] = "customers" /\ q[2] = RELATION_CUSTOMER
      /\ n[1] = "applications" /\ n[2] = FIXTURE_APPLICATION
  OBVIOUS
<1>3. /\ LIFECYCLE_CUSTOMER \in CustomerIds /\ RELATION_CUSTOMER \in CustomerIds
      /\ FIXTURE_APPLICATION \in ApplicationIds /\ LIFECYCLE_CUSTOMER # RELATION_CUSTOMER
  BY WorkloadAssumption
     DEF LIFECYCLE_CUSTOMER, RELATION_CUSTOMER, FIXTURE_APPLICATION, CustomerIds, ApplicationIds
<1>4. p \in DbRows /\ q \in DbRows /\ n \in DbRows
  BY <1>3 DEF DbRows
<1> HIDE DEF f, p, q, n
<1>5. Counted(f)
  <2> DEFINE a == <<"customers", LIFECYCLE_CUSTOMER>>
             b == <<"customers", RELATION_CUSTOMER>>
             c == <<"applications", FIXTURE_APPLICATION>>
  <2>1. Touched(f) = {a, b, c}
    BY <1>1, <1>2 DEF Touched
  <2>2. a # b /\ a # c /\ b # c
    BY <1>3
  <2> HIDE DEF a, b, c
  <2>3. Cardinality({a, b, c}) = 3
    BY <2>2, ThreeElements
  <2> QED
    BY <1>1, <2>1, <2>3 DEF Counted
<1>6. Fresh(f)
  <2>1. ASSUME NEW r \in db
        PROVE  /\ r[1] = "customers" => r[2] # LIFECYCLE_CUSTOMER /\ r[2] # RELATION_CUSTOMER
               /\ r[1] = "applications" => r[2] # FIXTURE_APPLICATION
    BY <1>1 DEF Exists, Rows, DbInv, FixtureBook
  <2>2. \A a, b \in f.new : a[1] = b[1] /\ a[2] = b[2] => a = b
    BY <1>1, <1>2, <1>3
  <2>3. \A a \in f.new, b \in db : ~ (a[1] = b[1] /\ a[2] = b[2])
    BY <1>1, <1>2, <2>1
  <2> QED
    BY <2>2, <2>3 DEF Fresh
<1>7. IsSound(f)
  BY <1>1, <1>4, <1>5, <1>6 DEF IsSound
<1>8. Footprint("setup", t, f) /\ Replaces("setup", f)
  <2>1. TableOf("setup") = "customers"
    BY DEF TableOf
  <2>2. MayTouch("setup", t, f, p)
    BY <1>1, <1>2, <2>1 DEF MayTouch
  <2>3. MayTouch("setup", t, f, q)
    BY <1>1, <1>2, <2>1 DEF MayTouch
  <2>4. MayTouch("setup", t, f, n)
    BY <1>1, <1>2, <2>1 DEF MayTouch
  <2>5. Footprint("setup", t, f)
    BY <1>1, <2>2, <2>3, <2>4 DEF Footprint
  <2> QED
    BY <1>1, <2>5 DEF Replaces
<1> QED
  BY <1>7, <1>8 DEF f

LEMMA DeleteIs ==
    ASSUME db \subseteq DbRows, DbInv, NEW t, Claimed("delete", db, t)
    PROVE  LET f == Effect("delete", db, t)
           IN  IsSound(f) /\ Footprint("delete", t, f) /\ Replaces("delete", f)
<1> DEFINE f == Effect("delete", db, t)
<1>1. /\ f.gone = LifecycleRows(db) /\ f.new = {} /\ f.count = 1
      /\ t = LIFECYCLE_CUSTOMER /\ Exists(db, LIFECYCLE_CUSTOMER)
  BY DEF Effect, Claimed
<1>2. PICK p \in db : p[1] = "customers" /\ p[2] = LIFECYCLE_CUSTOMER
  BY <1>1 DEF Exists, Rows
<1>3. LifecycleRows(db) = {p}
  BY <1>2 DEF LifecycleRows, Rows, DbInv, UniqueKeys
<1> HIDE DEF f
<1>4. Counted(f)
  <2>1. Touched(f) = {<<p[1], p[2]>>}
    BY <1>1, <1>3 DEF Touched
  <2>2. Cardinality(Touched(f)) = 1
    BY <2>1, FS_Singleton
  <2> QED
    BY <1>1, <2>2 DEF Counted
<1>5. IsSound(f)
  BY <1>1, <1>3, <1>4 DEF IsSound, Fresh
<1>6. Footprint("delete", t, f) /\ Replaces("delete", f)
  <2>1. TableOf("delete") = "customers"
    BY DEF TableOf
  <2>2. MayTouch("delete", t, f, p)
    BY <1>1, <1>2, <2>1 DEF MayTouch
  <2>3. Footprint("delete", t, f)
    BY <1>1, <1>3, <2>2 DEF Footprint
  <2> QED
    BY <2>3 DEF Replaces
<1> QED
  BY <1>5, <1>6 DEF f

(* An active customer has at most its first address open.                   *)
LEMMA OneOpenAddress ==
    ASSUME db \subseteq DbRows, DbInv, NEW c, <<"customers", c, "ACTIVE">> \in db
    PROVE  /\ \A r \in OpenAddresses(db, c) : r = <<"addresses", <<c, 1>>, "OPEN">>
           /\ \A r \in Rows(db, "addresses") : r[2] # <<c, 2>>
<1> DEFINE a == <<"customers", c, "ACTIVE">>
           b == <<"customers", c, "PASSIVE">>
<1>1. b \notin db
  <2>1. a[1] = b[1] /\ a[2] = b[2] /\ a # b
    OBVIOUS
  <2> QED
    BY <2>1 DEF DbInv, UniqueKeys
<1>2. ASSUME NEW r \in Rows(db, "addresses"), r[2][1] = c
      PROVE  r[2][2] = 1 /\ r[3] = "OPEN"
  <2>1. r \in Rows(db, "addresses") /\ <<"customers", r[2][1], "PASSIVE">> \notin db
    BY <1>1, <1>2
  <2> QED
    BY <2>1 DEF DbInv, AddressBook
<1>3. ASSUME NEW r \in OpenAddresses(db, c)
      PROVE  r = <<"addresses", <<c, 1>>, "OPEN">>
  <2>1. r \in Rows(db, "addresses") /\ r[2][1] = c /\ r \in db /\ r[1] = "addresses"
    BY DEF OpenAddresses, Rows
  <2>2. r = <<r[1], r[2], r[3]>> /\ r[2] = <<r[2][1], r[2][2]>>
    BY <2>1, RowShapes
  <2> QED
    BY <1>2, <2>1, <2>2
<1>4. ASSUME NEW r \in Rows(db, "addresses"), r[2] = <<c, 2>>
      PROVE  FALSE
  <2>1. r[2][1] = c /\ r[2][2] = 2
    BY <1>4
  <2> QED
    BY <1>2, <2>1
<1> QED
  BY <1>3, <1>4

LEMMA CustomerChangeIs ==
    ASSUME db \subseteq DbRows, DbInv, NEW t \in CustomerIds,
           Claimed("customer_address_status_change", db, t)
    PROVE  LET f == CustomerChange(db, t) e == "customer_address_status_change"
           IN  IsSound(f) /\ Footprint(e, t, f) /\ Replaces(e, f)
<1> DEFINE f == CustomerChange(db, t)
           e == "customer_address_status_change"
           p == <<"customers", t, "ACTIVE">>
           q == <<"customers", t, "PASSIVE">>
           n == <<"addresses", <<t, 2>>, "OPEN">>
           o == <<"addresses", <<t, 1>>, "OPEN">>
           c == <<"addresses", <<t, 1>>, "CLOSED">>
           open == OpenAddresses(db, t)
<1>1. /\ f.gone = {p} \cup open
      /\ f.new = {q, n} \cup {<<"addresses", r[2], "CLOSED">> : r \in open}
      /\ f.count = 1 + Cardinality(open) + 1 /\ p \in db
  BY DEF CustomerChange, Claimed
<1>2. /\ p[1] = "customers" /\ p[2] = t /\ q[1] = "customers" /\ q[2] = t
      /\ n[1] = "addresses" /\ n[2] = <<t, 2>> /\ n[2][1] = t
      /\ o[1] = "addresses" /\ o[2] = <<t, 1>> /\ o[2][1] = t
      /\ c[1] = "addresses" /\ c[2] = <<t, 1>> /\ c[2][1] = t
      /\ c = <<"addresses", o[2], "CLOSED">>
      /\ <<t, 1>> # <<t, 2>> /\ p # q
  OBVIOUS
<1>3. (\A r \in open : r = o) /\ (\A r \in Rows(db, "addresses") : r[2] # <<t, 2>>)
  BY <1>1, OneOpenAddress
<1>4. q \in DbRows /\ n \in DbRows /\ c \in DbRows
  BY DEF DbRows
<1>5. open \subseteq db
  BY DEF OpenAddresses, Rows
<1>6. TableOf(e) = "customers"
  BY DEF TableOf
<1>7. \A r \in db : r[1] = "customers" /\ r[2] = t => r = p
  BY <1>1, <1>2 DEF DbInv, UniqueKeys
<1>8. \A r \in db : r[1] = "addresses" => r[2] # <<t, 2>>
  BY <1>3 DEF Rows
<1>9. \A r \in db : r[1] = "addresses" /\ r[2] = <<t, 1>> /\ o \in db => r = o
  BY <1>2 DEF DbInv, UniqueKeys
<1> HIDE DEF f, p, q, n, o, c, open
<1> DEFINE a1 == <<"customers", t>>
           a2 == <<"addresses", <<t, 2>>>>
           a3 == <<"addresses", <<t, 1>>>>
<1>10. a1 # a2 /\ a1 # a3 /\ a2 # a3
  BY <1>2
<1>11. CASE open = {}
  <2>1. f.gone = {p} /\ f.new = {q, n} /\ f.count = 2
    BY <1>1, <1>11, FS_EmptySet
  <2>2. Touched(f) = {a1, a2}
    BY <1>2, <2>1 DEF Touched
  <2> HIDE DEF a1, a2, a3
  <2>3. Cardinality({a1, a2}) = 2
    BY <1>10, TwoElements
  <2>4. Counted(f)
    BY <2>1, <2>2, <2>3 DEF Counted
  <2>5. Fresh(f)
    BY <1>2, <1>7, <1>8, <2>1 DEF Fresh
  <2>6. IsSound(f) /\ Replaces(e, f)
    BY <1>1, <1>2, <1>4, <2>1, <2>4, <2>5 DEF IsSound, Replaces
  <2>7. Footprint(e, t, f)
    BY <1>2, <1>6, <2>1 DEF Footprint, MayTouch
  <2> QED
    BY <2>6, <2>7 DEF f
<1>12. CASE open # {}
  <2>1. open = {o}
    BY <1>3, <1>12
  <2>2. f.gone = {p, o} /\ f.new = {q, n, c}
    BY <1>1, <1>2, <2>1
  <2>3. f.count = 3 /\ o \in db
    <3>1. Cardinality(open) = 1
      BY <2>1, FS_Singleton
    <3> QED
      BY <1>1, <1>5, <2>1, <3>1
  <2>4. Touched(f) = {a1, a2, a3}
    BY <1>2, <2>2 DEF Touched
  <2> HIDE DEF a1, a2, a3
  <2>5. Cardinality({a1, a2, a3}) = 3
    BY <1>10, ThreeElements
  <2>6. Counted(f)
    BY <2>3, <2>4, <2>5 DEF Counted
  <2>7. Fresh(f)
    <3>1. \A r \in db : /\ r[1] = q[1] /\ r[2] = q[2] => r = p
                        /\ ~(r[1] = n[1] /\ r[2] = n[2])
                        /\ r[1] = c[1] /\ r[2] = c[2] => r = o
      BY <1>2, <1>7, <1>8, <1>9, <2>3
    <3>2. \A x, y \in f.new : x[1] = y[1] /\ x[2] = y[2] => x = y
      BY <1>2, <2>2
    <3> QED
      BY <2>2, <3>1, <3>2 DEF Fresh
  <2>8. IsSound(f) /\ Replaces(e, f)
    BY <1>1, <1>2, <1>4, <2>2, <2>3, <2>6, <2>7 DEF IsSound, Replaces
  <2>9. Footprint(e, t, f)
    BY <1>2, <1>6, <2>2 DEF Footprint, MayTouch
  <2> QED
    BY <2>8, <2>9 DEF f
<1> QED
  BY <1>11, <1>12

LEMMA InstallmentChangeIs ==
    ASSUME db \subseteq DbRows, DbInv, NEW t \in LoanIds,
           Claimed("installment_payment_and_delinquency", db, t)
    PROVE  LET f == InstallmentChange(db, t) e == "installment_payment_and_delinquency"
           IN  /\ IsSound(f) /\ Footprint(e, t, f) /\ Replaces(e, f)
               /\ <<"loans", t, "ACTIVE">> \in f.gone /\ <<"loans", t, "DELINQUENT">> \in f.new
               /\ \A p \in f.new : p[1] = "loans" => p[3] # "ACTIVE"
<1> DEFINE f == InstallmentChange(db, t)
           e == "installment_payment_and_delinquency"
           paid == Lowest(PendingInstallments(db, t))
           overdue == Lowest(PendingInstallments(db, t) \ {paid})
           l == <<"loans", t, "ACTIVE">>
           m == <<"loans", t, "DELINQUENT">>
           p == <<"installments", <<t, paid>>, "PENDING">>
           o == <<"installments", <<t, overdue>>, "PENDING">>
           pp == <<"installments", <<t, paid>>, "PAID">>
           oo == <<"installments", <<t, overdue>>, "OVERDUE">>
<1>1. /\ f.gone = {l} \cup {<<"installments", <<t, n>>, "PENDING">> : n \in {paid, overdue}}
      /\ f.new = {pp, oo, m} /\ f.count = 3 /\ l \in db
  BY DEF InstallmentChange, Claimed
<1>2. f.gone = {l, p, o}
  BY <1>1
<1>3. PendingInstallments(db, t) = 1 .. Installments
  <2>1. l[1] = "loans" /\ l[2] = t /\ l[3] = "ACTIVE"
    OBVIOUS
  <2> HIDE DEF l
  <2>2. l \in Rows(db, "loans")
    BY <1>1, <2>1 DEF Rows
  <2> QED
    BY <2>1, <2>2 DEF DbInv, LoanBook
<1>4. /\ Installments \in Nat /\ 1 \in 1 .. Installments /\ 2 \in 1 .. Installments
      /\ 1 .. Installments \subseteq Nat
  BY WorkloadAssumption
<1>5. paid \in 1 .. Installments
  BY <1>3, <1>4, LowestOf
<1>6. (1 .. Installments) \ {paid} \in SUBSET Nat /\ (1 .. Installments) \ {paid} # {}
  BY <1>4
<1>7. overdue \in (1 .. Installments) \ {paid}
  BY <1>3, <1>6, LowestOf
<1>8. p \in db /\ o \in db
  BY <1>3, <1>5, <1>7 DEF PendingInstallments
<1> HIDE DEF paid, overdue
<1>9. m \in DbRows /\ pp \in DbRows /\ oo \in DbRows
  BY <1>5, <1>7 DEF DbRows
<1>10. /\ l[1] = "loans" /\ l[2] = t /\ m[1] = "loans" /\ m[2] = t /\ m[3] = "DELINQUENT"
       /\ p[1] = "installments" /\ p[2] = <<t, paid>> /\ p[2][1] = t
       /\ o[1] = "installments" /\ o[2] = <<t, overdue>> /\ o[2][1] = t
       /\ pp[1] = "installments" /\ pp[2] = <<t, paid>> /\ pp[2][1] = t
       /\ oo[1] = "installments" /\ oo[2] = <<t, overdue>> /\ oo[2][1] = t
       /\ <<t, paid>> # <<t, overdue>>
  BY <1>7
<1> HIDE DEF f, l, m, p, o, pp, oo
<1>11. Counted(f)
  <2> DEFINE a1 == <<"loans", t>>
             a2 == <<"installments", <<t, paid>>>>
             a3 == <<"installments", <<t, overdue>>>>
  <2>1. a1 # a2 /\ a1 # a3 /\ a2 # a3
    BY <1>10
  <2>2. Touched(f) = {a1, a2, a3}
    BY <1>1, <1>2, <1>10 DEF Touched
  <2> HIDE DEF a1, a2, a3
  <2>3. Cardinality({a1, a2, a3}) = 3
    BY <2>1, ThreeElements
  <2> QED
    BY <1>1, <2>2, <2>3 DEF Counted
<1>12. Fresh(f)
  <2>1. \A r \in db : /\ r[1] = m[1] /\ r[2] = m[2] => r = l
                      /\ r[1] = pp[1] /\ r[2] = pp[2] => r = p
                      /\ r[1] = oo[1] /\ r[2] = oo[2] => r = o
    BY <1>1, <1>8, <1>10 DEF DbInv, UniqueKeys
  <2>2. \A x, y \in f.new : x[1] = y[1] /\ x[2] = y[2] => x = y
    BY <1>1, <1>10
  <2> QED
    BY <1>1, <1>2, <2>1, <2>2 DEF Fresh
<1>13. IsSound(f)
  BY <1>1, <1>2, <1>8, <1>9, <1>11, <1>12 DEF IsSound
<1>14. Footprint(e, t, f)
  BY <1>1, <1>2, <1>10 DEF Footprint, MayTouch
<1>15. Replaces(e, f)
  BY <1>1, <1>2, <1>10 DEF Replaces
<1>16. l \in f.gone /\ m \in f.new /\ \A x \in f.new : x[1] = "loans" => x[3] # "ACTIVE"
  BY <1>1, <1>2, <1>10
<1> QED
  BY <1>13, <1>14, <1>15, <1>16 DEF f, l, m

LEMMA GeneratedLoans ==
    ASSUME NEW a \in ApplicationIds
    PROVE  GeneratedLoan(a) \in LoanIds /\ ApplicationOf(GeneratedLoan(a)) = a
<1>1. Applications \in Nat
  BY WorkloadAssumption
<1>2. /\ GeneratedLoan(a) \in Applications + 2 .. 2 * Applications + 2
      /\ ~(GeneratedLoan(a) <= Applications) /\ GeneratedLoan(a) - FIXTURE_APPLICATION = a
  BY <1>1 DEF GeneratedLoan, FIXTURE_APPLICATION, ApplicationIds
<1>3. GeneratedLoan(a) \in LoanIds
  BY <1>2 DEF LoanIds
<1> QED
  BY <1>2, <1>3 DEF ApplicationOf

LEMMA InstallmentNames ==
    ASSUME NEW L, IsFiniteSet(L)
    PROVE  /\ IsFiniteSet({"installments"} \X (L \X (1 .. Installments)))
           /\ Cardinality({"installments"} \X (L \X (1 .. Installments)))
                = Cardinality(L) * Installments
           /\ Cardinality(L) \in Nat
<1> DEFINE N == 1 .. Installments
           P == L \X N
           Q == {"installments"}
<1>1. Installments \in Nat
  BY WorkloadAssumption
<1>2. IsFiniteSet(N) /\ Cardinality(N) = Installments
  <2>1. IsFiniteSet(N) /\ Cardinality(N) = IF 1 > Installments THEN 0 ELSE Installments - 1 + 1
    BY <1>1, FS_Interval
  <2> QED
    BY <1>1, <2>1
<1> HIDE DEF N
<1>3. IsFiniteSet(P) /\ Cardinality(P) = Cardinality(L) * Installments
  BY <1>2, FS_Product
<1>4. IsFiniteSet(Q) /\ Cardinality(Q) = 1
  BY FS_Singleton
<1> HIDE DEF P, Q
<1>5. IsFiniteSet(Q \X P) /\ Cardinality(Q \X P) = 1 * Cardinality(P) /\ Cardinality(P) \in Nat
  BY <1>3, <1>4, FS_Product, FS_CardinalityType
<1>6. Cardinality(L) \in Nat
  BY FS_CardinalityType
<1>7. Cardinality(Q \X P) = Cardinality(P)
  BY <1>5
<1> QED
  BY <1>3, <1>5, <1>6, <1>7 DEF N, P, Q

(* The rows of a loan.                                                      *)
LEMMA LoanRowsAre ==
    ASSUME NEW l \in LoanIds
    PROVE  /\ LoanRows(l) \subseteq DbRows
           /\ \A p \in LoanRows(l) :
                \/ p = <<"loans", l, "ACTIVE">> /\ p[1] = "loans" /\ p[2] = l /\ p[3] = "ACTIVE"
                \/ /\ p[1] = "installments" /\ p[2] = <<p[2][1], p[2][2]>> /\ p[2][1] = l
                   /\ p[2][2] \in 1 .. Installments /\ p = <<"installments", p[2], "PENDING">>
           /\ <<"loans", l, "ACTIVE">> \in LoanRows(l)
           /\ \A n \in 1 .. Installments : <<"installments", <<l, n>>, "PENDING">> \in LoanRows(l)
<1>1. <<"loans", l, "ACTIVE">> \in DbRows
  BY DEF DbRows
<1>2. \A n \in 1 .. Installments : <<"installments", <<l, n>>, "PENDING">> \in DbRows
  BY DEF DbRows
<1> QED
  BY <1>1, <1>2 DEF LoanRows

LEMMA LoanApprovalIs ==
    ASSUME db \subseteq DbRows, DbInv, NEW t \in ApplicationIds,
           Claimed("loan_application_approval", db, t)
    PROVE  LET f == LoanApproval(t) e == "loan_application_approval"
           IN  /\ IsSound(f) /\ Footprint(e, t, f) /\ Replaces(e, f)
               /\ \A s \in Rows(db, "loans") : ApplicationOf(s[2]) # t
<1> DEFINE f == LoanApproval(t)
           e == "loan_application_approval"
           g == GeneratedLoan(t)
           p == <<"applications", t, "PENDING">>
           q == <<"applications", t, "APPROVED">>
           l == <<"loans", g, "ACTIVE">>
<1>1. f.gone = {p} /\ f.new = {q} \cup LoanRows(g) /\ f.count = 2 + Installments /\ p \in db
  BY DEF LoanApproval, Claimed
<1>2. g \in LoanIds /\ ApplicationOf(g) = t
  BY GeneratedLoans
<1> HIDE DEF g
<1>3. /\ p[1] = "applications" /\ p[2] = t /\ q[1] = "applications" /\ q[2] = t /\ p # q
      /\ l[1] = "loans" /\ l[2] = g
  OBVIOUS
<1>4. \A s \in Rows(db, "loans") : ApplicationOf(s[2]) # t
  <2>1. q \notin db
    BY <1>1, <1>3 DEF DbInv, UniqueKeys
  <2> QED
    BY <2>1 DEF DbInv, LoanBook
<1>5. \A s \in db : /\ s[1] = "loans" => s[2] # g
                    /\ s[1] = "installments" => s[2][1] # g
                    /\ s[1] = "applications" /\ s[2] = t => s = p
  <2>1. \A s \in Rows(db, "loans") : s[2] # g
    BY <1>2, <1>4
  <2>2. \A s \in db : s[1] = "loans" => s[2] # g
    BY <2>1 DEF Rows
  <2>3. \A s \in db : s[1] = "installments" => s[2][1] # g
    BY <2>1 DEF DbInv, LoanBook, Rows
  <2>4. \A s \in db : s[1] = "applications" /\ s[2] = t => s = p
    BY <1>1, <1>3 DEF DbInv, UniqueKeys
  <2> QED
    BY <2>2, <2>3, <2>4
<1>6. q \in DbRows
  BY DEF DbRows
<1> HIDE DEF f, p, q
<1>7. ASSUME NEW x \in LoanRows(g)
      PROVE  \/ x = l
             \/ /\ x[1] = "installments" /\ x[2] = <<x[2][1], x[2][2]>> /\ x[2][1] = g
                /\ x[2][2] \in 1 .. Installments /\ x = <<"installments", x[2], "PENDING">>
  BY <1>2, LoanRowsAre
<1>8. \A x \in LoanRows(g) : x[1] \in {"loans", "installments"}
  BY <1>3, <1>7
<1>9. Counted(f)
  <2> DEFINE a1 == <<"applications", t>>
             a2 == <<"loans", g>>
             I == {"installments"} \X ({g} \X (1 .. Installments))
  <2>1. a1 # a2 /\ {a1, a2} \cap I = {}
    OBVIOUS
  <2>2. Touched(f) = {a1, a2} \cup I
    <3>1. ASSUME NEW x \in f.gone \cup f.new
          PROVE  <<x[1], x[2]>> \in {a1, a2} \cup I
      <4>1. CASE x \in {p, q}
        BY <1>3, <4>1
      <4>2. CASE x \in LoanRows(g)
        BY <1>3, <1>7, <4>2
      <4> QED
        BY <1>1, <4>1, <4>2
    <3>2. a1 \in Touched(f)
      BY <1>1, <1>3 DEF Touched
    <3>3. a2 \in Touched(f)
      <4>1. l \in f.new
        BY <1>1, <1>2, LoanRowsAre
      <4> QED
        BY <1>3, <4>1 DEF Touched
    <3>4. ASSUME NEW i \in I
          PROVE  i \in Touched(f)
      <4>1. PICK n \in 1 .. Installments : i = <<"installments", <<g, n>>>>
        OBVIOUS
      <4>2. <<"installments", <<g, n>>, "PENDING">> \in f.new
        BY <1>1, <1>2, LoanRowsAre
      <4> QED
        BY <4>1, <4>2 DEF Touched
    <3> HIDE DEF a1, a2, I
    <3>5. Touched(f) \subseteq {a1, a2} \cup I
      BY <3>1 DEF Touched
    <3> QED
      BY <3>2, <3>3, <3>4, <3>5
  <2>3. IsFiniteSet(I) /\ Cardinality(I) = Installments
    <3>1. IsFiniteSet({g}) /\ Cardinality({g}) = 1
      BY FS_Singleton
    <3>2. IsFiniteSet(I) /\ Cardinality(I) = Cardinality({g}) * Installments
      BY <3>1, InstallmentNames
    <3> QED
      BY <3>1, <3>2, WorkloadAssumption
  <2> HIDE DEF a1, a2, I
  <2>4. IsFiniteSet({a1, a2}) /\ Cardinality({a1, a2}) = 2
    BY <2>1, TwoElements
  <2>5. Cardinality({a1, a2} \cup I) = Cardinality({a1, a2}) + Cardinality(I)
    BY <2>1, <2>3, <2>4, SumOfDisjoint
  <2>6. Cardinality({a1, a2} \cup I) = 2 + Installments /\ 2 + Installments \in Nat
    BY <2>3, <2>4, <2>5, WorkloadAssumption
  <2> QED
    BY <1>1, <2>2, <2>6 DEF Counted
<1>10. Fresh(f)
  <2>1. ASSUME NEW x \in f.new, NEW r \in db, x[1] = r[1], x[2] = r[2]
        PROVE  r \in f.gone
    <3>1. CASE x = q
      BY <1>1, <1>3, <1>5, <2>1, <3>1
    <3>2. CASE x \in LoanRows(g)
      <4>1. x[1] = "loans" => x[2] = g
        BY <1>3, <1>7, <3>2
      <4>2. x[1] = "installments" => x[2][1] = g
        BY <1>3, <1>7, <3>2
      <4> QED
        BY <1>5, <1>8, <2>1, <3>2, <4>1, <4>2
    <3> QED
      BY <1>1, <3>1, <3>2
  <2>2. ASSUME NEW x \in f.new, NEW y \in f.new, x[1] = y[1], x[2] = y[2]
        PROVE  x = y
    <3>1. CASE x = q
      BY <1>1, <1>3, <1>8, <2>2, <3>1
    <3>2. CASE y = q
      BY <1>1, <1>3, <1>8, <2>2, <3>2
    <3>3. CASE x \in LoanRows(g) /\ y \in LoanRows(g)
      BY <1>3, <1>7, <2>2, <3>3
    <3> QED
      BY <1>1, <3>1, <3>2, <3>3
  <2> QED
    BY <2>1, <2>2 DEF Fresh
<1>11. IsSound(f)
  BY <1>1, <1>2, <1>6, <1>9, <1>10, LoanRowsAre DEF IsSound
<1>12. Footprint(e, t, f)
  <2>1. ASSUME NEW x \in {p, q}
        PROVE  MayTouch(e, t, f, x)
    BY <1>3 DEF MayTouch
  <2>2. ASSUME NEW x \in LoanRows(g)
        PROVE  MayTouch(e, t, f, x)
    <3>1. x \in f.new
      BY <1>1
    <3>2. CASE x = l
      BY <1>3, <3>1, <3>2 DEF MayTouch, g
    <3>3. CASE x[1] = "installments" /\ x[2][1] = g
      BY <3>1, <3>3 DEF MayTouch, g
    <3> QED
      BY <1>7, <3>2, <3>3
  <2> QED
    BY <1>1, <2>1, <2>2 DEF Footprint
<1>13. Replaces(e, f)
  BY <1>1, <1>3 DEF Replaces
<1> QED
  BY <1>4, <1>11, <1>12, <1>13 DEF f

(* The rows of the snapshot, and their number.                              *)
SnapshotRow(p) ==
    \/ p[1] = "customers" /\ p[2] \in 1 .. Customers /\ p = <<"customers", p[2], "ACTIVE">>
    \/ /\ p[1] = "addresses" /\ p[2] = <<p[2][1], 1>> /\ p[2][1] \in 1 .. Customers
       /\ p[2][2] = 1 /\ p = <<"addresses", p[2], "OPEN">>
    \/ /\ p[1] = "contacts" /\ p[2] = <<p[2][1], p[2][2]>> /\ p[2][1] \in 1 .. Customers
       /\ p[2][2] \in {"EMAIL", "PHONE"} /\ p = <<"contacts", p[2], "LIVE">>
    \/ p[1] = "relations" /\ p[2] \in Represented /\ p = <<"relations", p[2], "LIVE">>
    \/ /\ p[1] = "applications" /\ p[2] \in 1 .. Applications
       /\ p = <<"applications", p[2], Decision(p[2])>> /\ p[3] = Decision(p[2])
    \/ p[1] = "loans" /\ p[2] \in Approved /\ p = <<"loans", p[2], "ACTIVE">>
    \/ /\ p[1] = "installments" /\ p[2] = <<p[2][1], p[2][2]>> /\ p[2][1] \in Approved
       /\ p[2][2] \in 1 .. Installments /\ p = <<"installments", p[2], "PENDING">>
    \/ p[1] = "collaterals" /\ p[2] \in Secured /\ p = <<"collaterals", p[2], "ACTIVE">>

LEMMA SnapshotNumbers ==
    /\ Customers \in Nat /\ Applications \in Nat /\ Installments \in Nat
    /\ 1 \in 1 .. Customers /\ 1 .. Applications \subseteq 1 .. Customers
    /\ Represented \subseteq 1 .. Customers /\ Approved \subseteq 1 .. Applications
    /\ Approved \subseteq LoanIds /\ Secured \subseteq Approved
    /\ 1 .. Customers \subseteq CustomerIds /\ 1 .. Applications \subseteq ApplicationIds
    /\ \A a \in LoanIds : a \in 1 .. Applications => ApplicationOf(a) = a
    /\ \A i \in 1 .. Applications : Decision(i) \in {"PENDING", "APPROVED", "REJECTED"}
<1>1. /\ Customers \in Nat /\ Applications \in Nat /\ Installments \in Nat
      /\ Applications \in 1 .. Customers
  BY WorkloadAssumption
<1>2. 1 .. Customers \subseteq CustomerIds /\ 1 .. Applications \subseteq ApplicationIds
  BY <1>1 DEF CustomerIds, ApplicationIds
<1>3. 1 \in 1 .. Customers /\ 1 .. Applications \subseteq 1 .. Customers
  BY <1>1
<1>4. Represented \subseteq 1 .. Customers
  <2>1. 1 .. Customers - 1 \subseteq 1 .. Customers
    BY <1>1
  <2> QED
    BY <2>1 DEF Represented
<1>5. Approved \subseteq 1 .. Applications /\ Approved \subseteq LoanIds /\ Secured \subseteq Approved
  BY DEF Approved, Secured, LoanIds
<1>6. \A a \in LoanIds : a \in 1 .. Applications => ApplicationOf(a) = a
  BY <1>1 DEF ApplicationOf
<1>7. \A i \in 1 .. Applications : Decision(i) \in {"PENDING", "APPROVED", "REJECTED"}
  BY DEF Decision
<1> QED
  BY <1>1, <1>2, <1>3, <1>4, <1>5, <1>6, <1>7

LEMMA SnapshotRowsAre ==
    /\ \A p \in SnapshotRows : SnapshotRow(p) /\ p \in DbRows
    /\ \A c \in 1 .. Customers : /\ <<"customers", c, "ACTIVE">> \in SnapshotRows
                                 /\ <<"addresses", <<c, 1>>, "OPEN">> \in SnapshotRows
                                 /\ \A y \in {"EMAIL", "PHONE"} :
                                        <<"contacts", <<c, y>>, "LIVE">> \in SnapshotRows
    /\ \A c \in Represented : <<"relations", c, "LIVE">> \in SnapshotRows
    /\ \A i \in 1 .. Applications : <<"applications", i, Decision(i)>> \in SnapshotRows
    /\ \A i \in Approved : LoanRows(i) \subseteq SnapshotRows
    /\ \A i \in Secured : <<"collaterals", i, "ACTIVE">> \in SnapshotRows
<1>1. ASSUME NEW p \in SnapshotRows
      PROVE  SnapshotRow(p) /\ p \in DbRows
  <2>1. CASE \E c \in 1 .. Customers : p = <<"customers", c, "ACTIVE">>
    BY <2>1, SnapshotNumbers DEF SnapshotRow, DbRows
  <2>2. CASE \E c \in 1 .. Customers : p = <<"addresses", <<c, 1>>, "OPEN">>
    BY <2>2, SnapshotNumbers DEF SnapshotRow, DbRows
  <2>3. CASE \E c \in 1 .. Customers, y \in {"EMAIL", "PHONE"} : p = <<"contacts", <<c, y>>, "LIVE">>
    BY <2>3 DEF SnapshotRow, DbRows
  <2>4. CASE \E c \in Represented : p = <<"relations", c, "LIVE">>
    BY <2>4, SnapshotNumbers DEF SnapshotRow, DbRows
  <2>5. CASE \E i \in 1 .. Applications : p = <<"applications", i, Decision(i)>>
    BY <2>5, SnapshotNumbers DEF SnapshotRow, DbRows
  <2>6. CASE \E i \in Approved : p \in LoanRows(i)
    <3>1. PICK i \in Approved : p \in LoanRows(i)
      BY <2>6
    <3>2. i \in LoanIds
      BY SnapshotNumbers
    <3>3. p \in DbRows
      BY <3>1, <3>2, LoanRowsAre
    <3>4. CASE p = <<"loans", i, "ACTIVE">>
      BY <3>3, <3>4 DEF SnapshotRow
    <3>5. CASE /\ p[1] = "installments" /\ p[2] = <<p[2][1], p[2][2]>> /\ p[2][1] = i
               /\ p[2][2] \in 1 .. Installments /\ p = <<"installments", p[2], "PENDING">>
      BY <3>3, <3>5 DEF SnapshotRow
    <3> QED
      BY <3>1, <3>2, <3>4, <3>5, LoanRowsAre
  <2>7. CASE \E i \in Secured : p = <<"collaterals", i, "ACTIVE">>
    BY <2>7, SnapshotNumbers DEF SnapshotRow, DbRows
  <2> QED
    BY <2>1, <2>2, <2>3, <2>4, <2>5, <2>6, <2>7 DEF SnapshotRows
<1>2. \A c \in 1 .. Customers : /\ <<"customers", c, "ACTIVE">> \in SnapshotRows
                                /\ <<"addresses", <<c, 1>>, "OPEN">> \in SnapshotRows
                                /\ \A y \in {"EMAIL", "PHONE"} :
                                        <<"contacts", <<c, y>>, "LIVE">> \in SnapshotRows
  BY DEF SnapshotRows
<1>3. /\ \A c \in Represented : <<"relations", c, "LIVE">> \in SnapshotRows
      /\ \A i \in 1 .. Applications : <<"applications", i, Decision(i)>> \in SnapshotRows
      /\ \A i \in Secured : <<"collaterals", i, "ACTIVE">> \in SnapshotRows
  BY DEF SnapshotRows
<1>4. \A i \in Approved : LoanRows(i) \subseteq SnapshotRows
  BY DEF SnapshotRows
<1> QED
  BY <1>1, <1>2, <1>3, <1>4

LEMMA TableNames ==
    ASSUME NEW table, NEW S, IsFiniteSet(S)
    PROVE  /\ IsFiniteSet({table} \X S) /\ Cardinality({table} \X S) = Cardinality(S)
           /\ Cardinality(S) \in Nat
<1> DEFINE T == {table}
<1>1. IsFiniteSet(T) /\ Cardinality(T) = 1
  BY FS_Singleton
<1>2. Cardinality(S) \in Nat
  BY FS_CardinalityType
<1> HIDE DEF T
<1>3. IsFiniteSet(T \X S) /\ Cardinality(T \X S) = 1 * Cardinality(S)
  BY <1>1, FS_Product
<1>4. Cardinality(T \X S) = Cardinality(S)
  BY <1>2, <1>3
<1> QED
  BY <1>2, <1>3, <1>4 DEF T

LEMMA FiniteIds ==
    ASSUME NEW n \in Nat
    PROVE  IsFiniteSet(1 .. n) /\ Cardinality(1 .. n) = n
<1>1. IsFiniteSet(1 .. n) /\ Cardinality(1 .. n) = IF 1 > n THEN 0 ELSE n - 1 + 1
  BY FS_Interval
<1> QED
  BY <1>1

LEMMA SnapshotCounted == Counted(Snapshot)
<1> DEFINE C == 1 .. Customers
           N1 == {"customers"} \X C
           N2 == {"addresses"} \X (C \X {1})
           N3 == {"contacts"} \X (C \X {"EMAIL", "PHONE"})
           N4 == {"relations"} \X Represented
           N5 == {"applications"} \X (1 .. Applications)
           N6 == {"loans"} \X Approved
           N7 == {"installments"} \X (Approved \X (1 .. Installments))
           N8 == {"collaterals"} \X Secured
           A == Cardinality(Approved)
           R == Cardinality(Represented)
           S == Cardinality(Secured)
<1>1. /\ Customers \in Nat /\ Applications \in Nat /\ Installments \in Nat
      /\ Represented \subseteq C /\ Approved \subseteq 1 .. Applications /\ Secured \subseteq Approved
  BY SnapshotNumbers
<1>2. IsFiniteSet(C) /\ Cardinality(C) = Customers
  BY <1>1, FiniteIds
<1>3. IsFiniteSet(1 .. Applications) /\ Cardinality(1 .. Applications) = Applications
  BY <1>1, FiniteIds
<1>4. IsFiniteSet(Represented) /\ IsFiniteSet(Approved) /\ IsFiniteSet(Secured)
  BY <1>1, <1>2, <1>3, FS_Subset
<1>5. IsFiniteSet(N1) /\ Cardinality(N1) = Customers
  BY <1>2, TableNames
<1>6. IsFiniteSet(N2) /\ Cardinality(N2) = Customers
  <2> DEFINE P == C \X {1}
  <2>1. IsFiniteSet({1}) /\ Cardinality({1}) = 1
    BY FS_Singleton
  <2> HIDE DEF C
  <2>2. IsFiniteSet(P) /\ Cardinality(P) = Cardinality(C) * 1
    BY <1>2, <2>1, FS_Product
  <2>3. Cardinality(P) = Customers
    BY <1>1, <1>2, <2>2
  <2> HIDE DEF P
  <2>4. IsFiniteSet({"addresses"} \X P) /\ Cardinality({"addresses"} \X P) = Customers
    BY <2>2, <2>3, TableNames
  <2> QED
    BY <2>4 DEF P
<1>7. IsFiniteSet(N3) /\ Cardinality(N3) = 2 * Customers
  <2> DEFINE T == {"EMAIL", "PHONE"}
             P == C \X T
  <2>1. IsFiniteSet(T) /\ Cardinality(T) = 2
    <3>1. "EMAIL" # "PHONE"
      OBVIOUS
    <3> QED
      BY <3>1, TwoElements
  <2> HIDE DEF C, T
  <2>2. IsFiniteSet(P) /\ Cardinality(P) = Cardinality(C) * 2
    BY <1>2, <2>1, FS_Product
  <2>3. Cardinality(P) = 2 * Customers
    BY <1>1, <1>2, <2>2
  <2> HIDE DEF P
  <2>4. IsFiniteSet({"contacts"} \X P) /\ Cardinality({"contacts"} \X P) = 2 * Customers
    BY <2>2, <2>3, TableNames
  <2> QED
    BY <2>4 DEF P, T
<1>8. IsFiniteSet(N4) /\ Cardinality(N4) = R /\ R \in Nat
  BY <1>4, TableNames
<1>9. IsFiniteSet(N5) /\ Cardinality(N5) = Applications
  BY <1>3, TableNames
<1>10. IsFiniteSet(N6) /\ Cardinality(N6) = A /\ A \in Nat
  BY <1>4, TableNames
<1>11. IsFiniteSet(N7) /\ Cardinality(N7) = A * Installments
  BY <1>4, InstallmentNames
<1>12. IsFiniteSet(N8) /\ Cardinality(N8) = S /\ S \in Nat
  BY <1>4, TableNames
<1>13. /\ N1 \cap N2 = {} /\ (N1 \cup N2) \cap N3 = {} /\ (N1 \cup N2 \cup N3) \cap N4 = {}
       /\ (N1 \cup N2 \cup N3 \cup N4) \cap N5 = {}
       /\ (N1 \cup N2 \cup N3 \cup N4 \cup N5) \cap N6 = {}
       /\ (N1 \cup N2 \cup N3 \cup N4 \cup N5 \cup N6) \cap N7 = {}
       /\ (N1 \cup N2 \cup N3 \cup N4 \cup N5 \cup N6 \cup N7) \cap N8 = {}
  <2>1. /\ \A x \in N1 : x[1] = "customers"
        /\ \A x \in N2 : x[1] = "addresses"
        /\ \A x \in N3 : x[1] = "contacts"
        /\ \A x \in N4 : x[1] = "relations"
        /\ \A x \in N5 : x[1] = "applications"
        /\ \A x \in N6 : x[1] = "loans"
        /\ \A x \in N7 : x[1] = "installments"
        /\ \A x \in N8 : x[1] = "collaterals"
    OBVIOUS
  <2> HIDE DEF N1, N2, N3, N4, N5, N6, N7, N8
  <2> QED
    BY <2>1
<1>14. Touched(Snapshot) = N1 \cup N2 \cup N3 \cup N4 \cup N5 \cup N6 \cup N7 \cup N8
  <2> DEFINE N == N1 \cup N2 \cup N3 \cup N4 \cup N5 \cup N6 \cup N7 \cup N8
  <2>1. ASSUME NEW p \in SnapshotRows
        PROVE  <<p[1], p[2]>> \in N
    <3>1. SnapshotRow(p)
      BY SnapshotRowsAre
    <3> QED
      BY <3>1 DEF SnapshotRow
  <2>2. Touched(Snapshot) = {<<p[1], p[2]>> : p \in SnapshotRows}
    BY DEF Touched, Snapshot
  <2>3. ASSUME NEW x, NEW y, NEW z, <<x, y, z>> \in SnapshotRows
        PROVE  <<x, y>> \in Touched(Snapshot)
    <3> DEFINE p == <<x, y, z>>
    <3>1. p \in SnapshotRows /\ p[1] = x /\ p[2] = y
      BY <2>3
    <3> HIDE DEF p
    <3> QED
      BY <2>2, <3>1
  <2>4. \A c \in C : <<"customers", c>> \in Touched(Snapshot)
    BY <2>3, SnapshotRowsAre
  <2>5. \A c \in C : <<"addresses", <<c, 1>>>> \in Touched(Snapshot)
    BY <2>3, SnapshotRowsAre
  <2>6. \A c \in C : \A y \in {"EMAIL", "PHONE"} : <<"contacts", <<c, y>>>> \in Touched(Snapshot)
    BY <2>3, SnapshotRowsAre
  <2>7. \A c \in Represented : <<"relations", c>> \in Touched(Snapshot)
    BY <2>3, SnapshotRowsAre
  <2>8. \A i \in 1 .. Applications : <<"applications", i>> \in Touched(Snapshot)
    BY <2>3, SnapshotRowsAre
  <2>9. \A i \in Approved : <<"loans", i>> \in Touched(Snapshot)
    <3>1. \A i \in Approved : <<"loans", i, "ACTIVE">> \in SnapshotRows
      BY SnapshotNumbers, SnapshotRowsAre, LoanRowsAre
    <3> QED
      BY <2>3, <3>1
  <2>10. \A i \in Approved : \A n \in 1 .. Installments :
            <<"installments", <<i, n>>>> \in Touched(Snapshot)
    <3>1. \A i \in Approved : \A n \in 1 .. Installments :
              <<"installments", <<i, n>>, "PENDING">> \in SnapshotRows
      BY SnapshotNumbers, SnapshotRowsAre, LoanRowsAre
    <3> QED
      BY <2>3, <3>1
  <2>11. \A i \in Secured : <<"collaterals", i>> \in Touched(Snapshot)
    BY <2>3, SnapshotRowsAre
  <2>12. N1 \cup N2 \cup N3 \cup N4 \subseteq Touched(Snapshot)
    <3>1. N1 \cup N4 \subseteq Touched(Snapshot)
      BY <2>4, <2>7
    <3>2. N2 \subseteq Touched(Snapshot)
      BY <2>5
    <3>3. N3 \subseteq Touched(Snapshot)
      <4>1. SUFFICES ASSUME NEW x \in N3
                     PROVE  x \in Touched(Snapshot)
        OBVIOUS
      <4>2. PICK c \in C : \E y \in {"EMAIL", "PHONE"} : x = <<"contacts", <<c, y>>>>
        OBVIOUS
      <4> QED
        BY <2>6, <4>2
    <3> QED
      BY <3>1, <3>2, <3>3
  <2>13. N5 \cup N6 \cup N7 \cup N8 \subseteq Touched(Snapshot)
    BY <2>8, <2>9, <2>10, <2>11
  <2>14. Touched(Snapshot) \subseteq N
    BY <2>1, <2>2
  <2> HIDE DEF N1, N2, N3, N4, N5, N6, N7, N8
  <2> QED
    BY <2>12, <2>13, <2>14
<1> HIDE DEF N1, N2, N3, N4, N5, N6, N7, N8
<1> DEFINE U2 == N1 \cup N2
           U3 == U2 \cup N3
           U4 == U3 \cup N4
           U5 == U4 \cup N5
           U6 == U5 \cup N6
           U7 == U6 \cup N7
           U8 == U7 \cup N8
<1>15. IsFiniteSet(U2) /\ Cardinality(U2) = Customers + Customers
  BY <1>5, <1>6, <1>13, SumOfDisjoint
<1>16. U2 \cap N3 = {} /\ U3 \cap N4 = {} /\ U4 \cap N5 = {} /\ U5 \cap N6 = {}
       /\ U6 \cap N7 = {} /\ U7 \cap N8 = {} /\ Touched(Snapshot) = U8
  BY <1>13, <1>14
<1> HIDE DEF U2
<1>17. IsFiniteSet(U3) /\ Cardinality(U3) = Cardinality(U2) + Cardinality(N3)
  BY <1>7, <1>15, <1>16, SumOfDisjoint
<1> HIDE DEF U3
<1>18. IsFiniteSet(U4) /\ Cardinality(U4) = Cardinality(U3) + Cardinality(N4)
  BY <1>8, <1>16, <1>17, SumOfDisjoint
<1> HIDE DEF U4
<1>19. IsFiniteSet(U5) /\ Cardinality(U5) = Cardinality(U4) + Cardinality(N5)
  BY <1>9, <1>16, <1>18, SumOfDisjoint
<1> HIDE DEF U5
<1>20. IsFiniteSet(U6) /\ Cardinality(U6) = Cardinality(U5) + Cardinality(N6)
  BY <1>10, <1>16, <1>19, SumOfDisjoint
<1> HIDE DEF U6
<1>21. IsFiniteSet(U7) /\ Cardinality(U7) = Cardinality(U6) + Cardinality(N7)
  BY <1>11, <1>16, <1>20, SumOfDisjoint
<1> HIDE DEF U7
<1>22. IsFiniteSet(U8) /\ Cardinality(U8) = Cardinality(U7) + Cardinality(N8)
  BY <1>12, <1>16, <1>21, SumOfDisjoint
<1>23. A * (1 + Installments) = A + A * Installments /\ A * Installments \in Nat
  BY <1>1, <1>10
<1>24. Snapshot.count = Customers + Customers + 2 * Customers + R + Applications
                        + A * (1 + Installments) + S
  BY DEF Snapshot
<1>25. Cardinality(Touched(Snapshot)) = Customers + Customers + 2 * Customers + R + Applications
                                       + A + A * Installments + S
  BY <1>7, <1>8, <1>9, <1>10, <1>11, <1>12, <1>15, <1>16, <1>17, <1>18, <1>19, <1>20, <1>21, <1>22
<1> HIDE DEF A, R, S, U8
<1> DEFINE M == A * Installments
<1>26. Snapshot.count = Customers + Customers + 2 * Customers + R + Applications + (A + M) + S
  BY <1>23, <1>24
<1> HIDE DEF M
<1>27. M \in Nat /\ A \in Nat /\ R \in Nat /\ S \in Nat /\ Customers \in Nat /\ Applications \in Nat
  BY <1>1, <1>8, <1>10, <1>12, <1>23 DEF M
<1>28. Cardinality(Touched(Snapshot)) = Customers + Customers + 2 * Customers + R + Applications
                                       + A + M + S
  BY <1>25 DEF M
<1> QED
  BY <1>26, <1>27, <1>28 DEF Counted

LEMMA SnapshotIs ==
    ASSUME db = {<<"rates", 1, "OPEN">>}
    PROVE  IsSound(Snapshot)
<1>1. Snapshot.gone = {} /\ Snapshot.new = SnapshotRows
  BY DEF Snapshot
<1>2. ASSUME NEW p \in SnapshotRows, NEW q \in SnapshotRows, p[1] = q[1], p[2] = q[2]
      PROVE  p = q
  <2>1. SnapshotRow(p) /\ SnapshotRow(q)
    BY SnapshotRowsAre
  <2> QED
    BY <1>2, <2>1 DEF SnapshotRow
<1>3. \A p \in SnapshotRows : p[1] # "rates"
  <2>1. \A p \in SnapshotRows : SnapshotRow(p)
    BY SnapshotRowsAre
  <2> QED
    BY <2>1 DEF SnapshotRow
<1>4. Fresh(Snapshot)
  BY <1>1, <1>2, <1>3 DEF Fresh
<1> QED
  BY <1>1, <1>4, SnapshotCounted, SnapshotRowsAre DEF IsSound

-----------------------------------------------------------------------------
(* A commit                                                                 *)

LEMMA EffectIs ==
    ASSUME db \subseteq DbRows, DbInv, NEW e \in EventKeys, e # "initial_snapshot",
           NEW t \in Numbers(e), Claimed(e, db, t), NEW f, f = Effect(e, db, t)
    PROVE  IsSound(f) /\ Footprint(e, t, f) /\ Replaces(e, f)
<1>1. CASE e = "customer_address_status_change"
  <2>1. f = CustomerChange(db, t) /\ t \in CustomerIds
    BY <1>1 DEF Effect, Numbers, Fixtures
  <2> QED
    BY <1>1, <2>1, CustomerChangeIs
<1>2. CASE e = "secondary_contact_delete"
  <2>1. f = ContactDelete(t)
    BY <1>2 DEF Effect
  <2> QED
    BY <1>2, <2>1, ContactDeleteIs
<1>3. CASE e = "loan_application_approval"
  <2>1. f = LoanApproval(t) /\ t \in ApplicationIds
    BY <1>3 DEF Effect, Numbers, Fixtures
  <2> QED
    BY <1>3, <2>1, LoanApprovalIs
<1>4. CASE e = "installment_payment_and_delinquency"
  <2>1. f = InstallmentChange(db, t) /\ t \in LoanIds
    BY <1>4 DEF Effect, Numbers, Fixtures
  <2> QED
    BY <1>4, <2>1, InstallmentChangeIs
<1>5. CASE e = "base_rate_change"
  <2>1. f = RateChange(t) /\ t \in RateIds
    BY <1>5 DEF Effect, Numbers, Fixtures
  <2> QED
    BY <1>5, <2>1, RateChangeIs
<1>6. CASE e = "setup"
  <2>1. f = Setup
    BY <1>6 DEF Effect
  <2> QED
    BY <1>6, <2>1, SetupIs
<1>7. CASE e = "delete"
  BY <1>7, DeleteIs
<1> QED
  BY EventNames, <1>1, <1>2, <1>3, <1>4, <1>5, <1>6, <1>7

(* A scenario of a loaded source changes db.                                *)
Commits(e, t, f) ==
    /\ e \in EventKeys /\ e # "initial_snapshot" /\ t \in Numbers(e) /\ Claimed(e, db, t)
    /\ f = Effect(e, db, t) /\ db' = (db \ f.gone) \cup f.new

LEMMA CommitMeans ==
    ASSUME db \subseteq DbRows, DbInv, NEW e, NEW t, NEW f, Commits(e, t, f)
    PROVE  /\ e \in EventKeys /\ e # "initial_snapshot"
           /\ f.gone \subseteq db /\ f.new \subseteq DbRows /\ db' \subseteq DbRows
           /\ \A p : p \in db' <=> (p \in db /\ p \notin f.gone) \/ p \in f.new
           /\ Fresh(f) /\ Replaces(e, f)
           /\ \A p \in f.gone \cup f.new : MayTouch(e, t, f, p)
           /\ UniqueKeys'
<1>1. IsSound(f) /\ Footprint(e, t, f) /\ Replaces(e, f)
  BY EffectIs DEF Commits
<1>2. db' = (db \ f.gone) \cup f.new
  BY DEF Commits
<1>3. /\ f.gone \subseteq db /\ f.new \subseteq DbRows /\ db' \subseteq DbRows
      /\ \A p : p \in db' <=> (p \in db /\ p \notin f.gone) \/ p \in f.new
  BY <1>1, <1>2 DEF IsSound
<1>4. UniqueKeys'
  BY <1>1, <1>3 DEF IsSound, Fresh, DbInv, UniqueKeys
<1> QED
  BY <1>1, <1>3, <1>4 DEF Commits, IsSound, Footprint

LEMMA CommitKeepsRows ==
    ASSUME db \subseteq DbRows, DbInv, IsLoaded, NEW e, NEW t, NEW f, Commits(e, t, f)
    PROVE  SnapshotFirst' /\ IsLoaded'
<1>1. /\ e \in EventKeys /\ e # "initial_snapshot" /\ Replaces(e, f)
      /\ \A p : p \in db' <=> (p \in db /\ p \notin f.gone) \/ p \in f.new
      /\ \A p \in f.gone \cup f.new : MayTouch(e, t, f, p)
      /\ f.gone \subseteq db
  BY CommitMeans
<1>2. /\ \A c \in 1 .. Customers : Exists(db, c)
      /\ \A a \in 1 .. Applications : \E s \in Rows(db, "applications") : s[2] = a
  BY DEF DbInv, SnapshotFirst
<1>3. ASSUME NEW c \in 1 .. Customers
      PROVE  \E q \in db' : q[1] = "customers" /\ q[2] = c
  <2>1. PICK p \in db : p[1] = "customers" /\ p[2] = c
    BY <1>2 DEF Exists, Rows
  <2>2. CASE p \notin f.gone
    BY <1>1, <2>1, <2>2
  <2>3. CASE p \in f.gone
    <3>1. e # "delete"
      <4>1. SUFFICES ASSUME e = "delete" PROVE FALSE
        OBVIOUS
      <4>2. t = LIFECYCLE_CUSTOMER
        BY <4>1 DEF Commits, Claimed
      <4>3. p[2] = t
        BY <1>1, <2>1, <2>3, <4>1 DEF MayTouch
      <4> QED
        BY <2>1, <4>2, <4>3, SnapshotNumbers DEF LIFECYCLE_CUSTOMER
    <3>2. PICK q \in f.new : q[1] = p[1] /\ q[2] = p[2]
      BY <1>1, <2>1, <2>3, <3>1 DEF Replaces
    <3> QED
      BY <1>1, <2>1, <3>2
  <2> QED
    BY <2>2, <2>3
<1>4. ASSUME NEW a \in 1 .. Applications
      PROVE  \E q \in db' : q[1] = "applications" /\ q[2] = a
  <2>1. PICK p \in db : p[1] = "applications" /\ p[2] = a
    BY <1>2 DEF Rows
  <2>2. CASE p \notin f.gone
    BY <1>1, <2>1, <2>2
  <2>3. CASE p \in f.gone
    <3>1. e # "delete"
      BY <1>1, <2>1, <2>3 DEF MayTouch
    <3>2. PICK q \in f.new : q[1] = p[1] /\ q[2] = p[2]
      BY <1>1, <2>1, <2>3, <3>1 DEF Replaces
    <3> QED
      BY <1>1, <2>1, <3>2
  <2> QED
    BY <2>2, <2>3
<1>5. IsLoaded'
  <2>1. \E q \in db' : q[1] = "customers"
    BY <1>3, SnapshotNumbers
  <2> QED
    BY <2>1 DEF IsLoaded, Rows
<1>6. \A c \in 1 .. Customers : Exists(db', c)
  BY <1>3 DEF Exists, Rows
<1>7. \A a \in 1 .. Applications : \E s \in Rows(db', "applications") : s[2] = a
  BY <1>4 DEF Rows
<1> QED
  BY <1>5, <1>6, <1>7 DEF SnapshotFirst

LEMMA CommitKeepsAddresses ==
    ASSUME db \subseteq DbRows, DbInv, NEW e, NEW t, NEW f, Commits(e, t, f)
    PROVE  AddressBook'
<1>1. /\ e \in EventKeys /\ e # "initial_snapshot"
      /\ \A p : p \in db' <=> (p \in db /\ p \notin f.gone) \/ p \in f.new
      /\ \A p \in f.gone \cup f.new : MayTouch(e, t, f, p)
      /\ f.gone \subseteq db
  BY CommitMeans
<1> DEFINE Owner(r) == IF r[2][2] = 1 /\ r[3] = "OPEN" THEN <<"customers", r[2][1], "ACTIVE">>
                       ELSE <<"customers", r[2][1], "PASSIVE">>
<1>2. \A r \in db : r[1] = "addresses" => Owner(r) \in db
  BY DEF DbInv, AddressBook, Rows
<1>3. (\A r \in db' : r[1] = "addresses" => Owner(r) \in db') => AddressBook'
  BY DEF AddressBook, Rows
<1>4. \A r : Owner(r)[1] = "customers" /\ Owner(r)[2] = r[2][1]
  OBVIOUS
<1>5. CASE e = "customer_address_status_change"
  <2> DEFINE p == <<"customers", t, "ACTIVE">>
             q == <<"customers", t, "PASSIVE">>
  <2>1. /\ p \in db /\ q \in f.new /\ p \in f.gone
        /\ f.gone = {p} \cup OpenAddresses(db, t)
        /\ f.new = {q, <<"addresses", <<t, 2>>, "OPEN">>}
                   \cup {<<"addresses", r[2], "CLOSED">> : r \in OpenAddresses(db, t)}
    BY <1>5 DEF Commits, Claimed, Effect, CustomerChange
  <2>2. ASSUME NEW r \in db', r[1] = "addresses", r[2][1] = t
        PROVE  ~(r[2][2] = 1 /\ r[3] = "OPEN")
    <3>1. SUFFICES ASSUME r[3] = "OPEN", r[2][2] = 1 PROVE FALSE
      OBVIOUS
    <3>2. CASE r \in db /\ r \notin f.gone
      <4>1. r \in OpenAddresses(db, t)
        BY <2>2, <3>1, <3>2 DEF OpenAddresses, Rows
      <4> QED
        BY <2>1, <3>2, <4>1
    <3>3. CASE r \in f.new
      BY <2>1, <2>2, <3>1, <3>3
    <3> QED
      BY <1>1, <3>2, <3>3
  <2>3. ASSUME NEW r \in db', r[1] = "addresses", r[2][1] # t
        PROVE  Owner(r) \in db'
    <3>1. r \in db
      BY <1>1, <2>3 DEF MayTouch
    <3>2. Owner(r) \in db
      BY <1>2, <2>3, <3>1
    <3> HIDE DEF Owner
    <3>3. Owner(r) \notin f.gone
      BY <1>1, <1>4, <1>5, <2>3 DEF MayTouch
    <3> QED
      BY <1>1, <3>2, <3>3
  <2>4. q \in db'
    BY <1>1, <2>1
  <2>5. ASSUME NEW r \in db', r[1] = "addresses", r[2][1] = t
        PROVE  Owner(r) \in db'
    BY <2>2, <2>4, <2>5
  <2> QED
    BY <1>3, <2>3, <2>5
<1>6. CASE e # "customer_address_status_change"
  <2>1. ASSUME NEW r \in db', r[1] = "addresses"
        PROVE  Owner(r) \in db'
    <3>1. r \in db
      BY <1>1, <1>6, <2>1 DEF MayTouch
    <3>2. Owner(r) \in db
      BY <1>2, <2>1, <3>1
    <3> HIDE DEF Owner
    <3>3. Owner(r) \notin f.gone
      <4>1. SUFFICES ASSUME Owner(r) \in f.gone PROVE FALSE
        OBVIOUS
      <4>2. /\ TableOf(e) = "customers"
            /\ r[2][1] = t \/ (e = "setup" /\ r[2][1] = RELATION_CUSTOMER)
        BY <1>1, <1>4, <4>1 DEF MayTouch
      <4>3. e \in {"setup", "delete"}
        BY <1>1, <1>6, <4>2, EventNames DEF TableOf
      <4>4. CASE e = "setup"
        <5>1. ~ Exists(db, t) /\ ~ Exists(db, RELATION_CUSTOMER)
          BY <4>4 DEF Commits, Claimed
        <5> QED
          BY <1>4, <3>2, <4>2, <5>1 DEF Exists, Rows
      <4>5. CASE e = "delete"
        <5>1. ~ \E s \in Rows(db, "addresses") : s[2][1] = t
          BY <4>5 DEF Commits, Claimed
        <5> QED
          BY <2>1, <3>1, <4>2, <4>5, <5>1 DEF Rows
      <4> QED
        BY <4>3, <4>4, <4>5
    <3> QED
      BY <1>1, <3>2, <3>3
  <2> QED
    BY <1>3, <2>1
<1> QED
  BY <1>5, <1>6

LEMMA CommitKeepsFixtures ==
    ASSUME db \subseteq DbRows, DbInv, NEW e, NEW t, NEW f, Commits(e, t, f)
    PROVE  FixtureBook'
<1>1. /\ e \in EventKeys /\ e # "initial_snapshot" /\ Replaces(e, f)
      /\ \A p : p \in db' <=> (p \in db /\ p \notin f.gone) \/ p \in f.new
      /\ \A p \in f.gone \cup f.new : MayTouch(e, t, f, p)
      /\ f.gone \subseteq db
  BY CommitMeans
<1>2. SUFFICES ASSUME NEW s \in db', s[1] = "applications", s[2] = FIXTURE_APPLICATION
               PROVE  \E q \in db' : q[1] = "customers" /\ q[2] = RELATION_CUSTOMER
  BY DEF FixtureBook, Exists, Rows
<1>3. CASE e = "setup"
  <2>1. <<"customers", RELATION_CUSTOMER, "ACTIVE">> \in f.new
    BY <1>3 DEF Commits, Effect, Setup
  <2> QED
    BY <1>1, <2>1
<1>4. CASE e # "setup"
  <2>1. \E r \in db : r[1] = "applications" /\ r[2] = FIXTURE_APPLICATION
    <3>1. CASE s \in db
      BY <1>2, <3>1
    <3>2. CASE s \in f.new
      <4>1. e = "loan_application_approval" /\ s[2] = t
        BY <1>1, <1>2, <1>4, <3>2 DEF MayTouch
      <4>2. <<"applications", t, "PENDING">> \in db
        BY <4>1 DEF Commits, Claimed
      <4> QED
        BY <1>2, <4>1, <4>2
    <3> QED
      BY <1>1, <1>2, <3>1, <3>2
  <2>2. PICK p \in db : p[1] = "customers" /\ p[2] = RELATION_CUSTOMER
    BY <2>1 DEF DbInv, FixtureBook, Exists, Rows
  <2>3. CASE p \notin f.gone
    BY <1>1, <2>2, <2>3
  <2>4. CASE p \in f.gone
    <3>1. e # "delete"
      <4>1. SUFFICES ASSUME e = "delete" PROVE FALSE
        OBVIOUS
      <4>2. t = LIFECYCLE_CUSTOMER
        BY <4>1 DEF Commits, Claimed
      <4>3. p[2] = t
        BY <1>1, <2>2, <2>4, <4>1 DEF MayTouch
      <4> QED
        BY <2>2, <4>2, <4>3, SnapshotNumbers DEF LIFECYCLE_CUSTOMER, RELATION_CUSTOMER
    <3>2. PICK q \in f.new : q[1] = p[1] /\ q[2] = p[2]
      BY <1>1, <2>2, <2>4, <3>1 DEF Replaces
    <3> QED
      BY <1>1, <2>2, <3>2
  <2> QED
    BY <2>3, <2>4
<1> QED
  BY <1>3, <1>4

LEMMA CommitKeepsRates ==
    ASSUME db \subseteq DbRows, DbInv, NEW e, NEW t, NEW f, Commits(e, t, f)
    PROVE  RateBook'
<1>1. /\ e \in EventKeys /\ e # "initial_snapshot" /\ db' \subseteq DbRows
      /\ \A p : p \in db' <=> (p \in db /\ p \notin f.gone) \/ p \in f.new
      /\ \A p \in f.gone \cup f.new : MayTouch(e, t, f, p)
      /\ f.gone \subseteq db
  BY CommitMeans
<1>2. CASE e # "base_rate_change"
  <2>1. \A p : p[1] = "rates" => (p \in db' <=> p \in db)
    BY <1>1, <1>2 DEF MayTouch
  <2>2. Rows(db', "rates") = Rows(db, "rates")
    BY <2>1 DEF Rows
  <2> QED
    BY <2>2 DEF DbInv, RateBook
<1>3. CASE e = "base_rate_change"
  <2> DEFINE p == <<"rates", t, "OPEN">>
             n == <<"rates", t + 1, "OPEN">>
  <2>1. /\ f.gone = {p} /\ f.new = {<<"rates", t, "CLOSED">>, n} /\ p \in db /\ t \in Nat
    BY <1>3 DEF Commits, Claimed, Effect, RateChange, Numbers, Fixtures, RateIds
  <2>2. \A s \in db : s[1] = "rates" => s[2] \in Nat /\ s[2] <= t
    <3>1. p \in Rows(db, "rates") /\ p[2] = t /\ p[3] = "OPEN"
      BY <2>1 DEF Rows
    <3>2. \A s \in Rows(db, "rates") : s[2] <= t
      BY <3>1 DEF DbInv, RateBook
    <3> QED
      BY <3>2, RowShapes DEF Rows, RateIds
  <2>3. n \in db'
    BY <1>1, <2>1
  <2>4. ASSUME NEW r \in db', r[1] = "rates", r[3] = "OPEN"
        PROVE  r[2] = t + 1
    <3>1. CASE r \in f.new
      BY <2>1, <2>4, <3>1
    <3>2. CASE r \in db /\ r \notin f.gone
      <4>1. r[2] \in Nat /\ r[2] <= t
        BY <2>2, <2>4, <3>2
      <4>2. p \in Rows(db, "rates") /\ p[2] = t /\ r \in Rows(db, "rates")
        BY <2>1, <2>4, <3>2 DEF Rows
      <4>3. t <= r[2]
        BY <2>4, <4>2 DEF DbInv, RateBook
      <4>4. r[2] = t /\ r = <<r[1], r[2], r[3]>>
        BY <2>1, <3>2, <4>1, <4>3, RowShapes
      <4> QED
        BY <2>1, <2>4, <3>2, <4>4
    <3> QED
      BY <1>1, <3>1, <3>2
  <2>5. ASSUME NEW s \in db', s[1] = "rates"
        PROVE  s[2] <= t + 1
    <3>1. CASE s \in f.new
      BY <2>1, <3>1
    <3>2. CASE s \in db
      BY <2>1, <2>2, <2>5, <3>2
    <3> QED
      BY <1>1, <3>1, <3>2
  <2>6. \E r \in Rows(db', "rates") : r[3] = "OPEN"
    BY <2>3 DEF Rows
  <2>7. \A r, s \in Rows(db', "rates") : r[3] = "OPEN" => s[2] <= r[2]
    BY <2>4, <2>5 DEF Rows
  <2> QED
    BY <2>6, <2>7 DEF RateBook
<1> QED
  BY <1>2, <1>3

LEMMA LoanIdsOfApplications ==
    ASSUME NEW l \in LoanIds
    PROVE  ApplicationOf(l) \in ApplicationIds
<1>1. Applications \in Nat
  BY WorkloadAssumption
<1> QED
  BY <1>1 DEF LoanIds, ApplicationOf, ApplicationIds, FIXTURE_APPLICATION

LEMMA CommitKeepsLoans ==
    ASSUME db \subseteq DbRows, DbInv, NEW e, NEW t, NEW f, Commits(e, t, f)
    PROVE  LoanBook'
<1>1. /\ e \in EventKeys /\ e # "initial_snapshot" /\ db' \subseteq DbRows
      /\ \A p : p \in db' <=> (p \in db /\ p \notin f.gone) \/ p \in f.new
      /\ \A p \in f.gone \cup f.new : MayTouch(e, t, f, p)
      /\ f.gone \subseteq db /\ UniqueKeys'
  BY CommitMeans
<1> DEFINE Approval(l) == <<"applications", ApplicationOf(l), "APPROVED">>
           Pending(l, n) == <<"installments", <<l, n>>, "PENDING">>
<1>2. /\ \A r \in db : r[1] = "loans" => Approval(r[2]) \in db
      /\ \A r, s \in db : (/\ r[1] = "loans" /\ s[1] = "loans"
                           /\ ApplicationOf(s[2]) = ApplicationOf(r[2])) => s = r
      /\ \A r \in db : r[1] = "loans" /\ r[3] = "ACTIVE" =>
            \A n \in 1 .. Installments : Pending(r[2], n) \in db
      /\ \A r \in db : r[1] = "installments" => \E s \in db : s[1] = "loans" /\ s[2] = r[2][1]
  BY DEF DbInv, LoanBook, Rows, PendingInstallments
<1>3. ASSUME \A r \in db' : r[1] = "loans" => Approval(r[2]) \in db',
             \A r, s \in db' : (/\ r[1] = "loans" /\ s[1] = "loans"
                                /\ ApplicationOf(s[2]) = ApplicationOf(r[2])) => s = r,
             \A r \in db' : r[1] = "loans" /\ r[3] = "ACTIVE" =>
                \A n \in 1 .. Installments : Pending(r[2], n) \in db',
             \A r \in db' : r[1] = "installments" => \E s \in db' : s[1] = "loans" /\ s[2] = r[2][1]
      PROVE  LoanBook'
  <2>1. ASSUME NEW r \in Rows(db', "loans"), r[3] = "ACTIVE"
        PROVE  PendingInstallments(db', r[2]) = 1 .. Installments
    BY <1>3, <2>1 DEF Rows, PendingInstallments
  <2>2. \A r \in Rows(db', "loans") : <<"applications", ApplicationOf(r[2]), "APPROVED">> \in db'
    BY <1>3 DEF Rows
  <2>3. \A r, s \in Rows(db', "loans") : ApplicationOf(s[2]) = ApplicationOf(r[2]) => s = r
    BY <1>3 DEF Rows
  <2>4. \A r \in Rows(db', "installments") : \E s \in Rows(db', "loans") : s[2] = r[2][1]
    BY <1>3 DEF Rows
  <2> QED
    BY <2>1, <2>2, <2>3, <2>4 DEF LoanBook
<1>4. /\ \A l : Approval(l)[1] = "applications" /\ Approval(l)[3] = "APPROVED"
      /\ \A l, n : /\ Pending(l, n)[1] = "installments" /\ Pending(l, n)[2][1] = l
                   /\ Pending(l, n) = <<"installments", <<l, n>>, "PENDING">>
  OBVIOUS
<1>5. ASSUME NEW p \in db, p[1] = "applications", p[3] = "APPROVED"
      PROVE  p \in db'
  <2>1. SUFFICES ASSUME p \in f.gone PROVE FALSE
    BY <1>1
  <2>2. CASE e = "setup"
    <3>1. f.gone = {}
      BY <2>2 DEF Commits, Effect, Setup
    <3> QED
      BY <2>1, <3>1
  <2>3. CASE e = "loan_application_approval"
    <3>1. f.gone = {<<"applications", t, "PENDING">>}
      BY <2>3 DEF Commits, Effect, LoanApproval
    <3> QED
      BY <1>5, <2>1, <3>1
  <2> QED
    BY <1>1, <1>5, <2>1, <2>2, <2>3 DEF MayTouch
<1>6. CASE e \notin {"loan_application_approval", "installment_payment_and_delinquency"}
  <2>1. \A p : p[1] \in {"loans", "installments"} => (p \in db' <=> p \in db)
    BY <1>1, <1>6 DEF MayTouch
  <2>2. \A r \in db' : r[1] = "loans" => r \in db
    BY <2>1
  <2>3. \A r \in db' : r[1] = "installments" => r \in db
    BY <2>1
  <2>4. \A r \in db' : r[1] = "loans" => Approval(r[2]) \in db'
    BY <1>2, <1>4, <1>5, <2>2
  <2>5. \A r, s \in db' : (/\ r[1] = "loans" /\ s[1] = "loans"
                           /\ ApplicationOf(s[2]) = ApplicationOf(r[2])) => s = r
    BY <1>2, <2>2
  <2>6. \A r \in db' : r[1] = "loans" /\ r[3] = "ACTIVE" =>
                \A n \in 1 .. Installments : Pending(r[2], n) \in db'
    BY <1>2, <1>4, <2>1, <2>2
  <2>7. \A r \in db' : r[1] = "installments" => \E s \in db' : s[1] = "loans" /\ s[2] = r[2][1]
    BY <1>2, <2>1, <2>3
  <2> QED
    BY <1>3, <2>4, <2>5, <2>6, <2>7
<1>7. CASE e = "loan_application_approval"
  <2> DEFINE g == GeneratedLoan(t)
             l == <<"loans", g, "ACTIVE">>
             a == <<"applications", t, "APPROVED">>
  <2>1. /\ t \in ApplicationIds /\ Claimed("loan_application_approval", db, t)
        /\ f = LoanApproval(t)
    BY <1>7 DEF Commits, Effect, Numbers, Fixtures
  <2>2. f.new = {a} \cup LoanRows(g) /\ f.gone = {<<"applications", t, "PENDING">>}
    BY <2>1 DEF LoanApproval
  <2>3. g \in LoanIds /\ ApplicationOf(g) = t
    BY <2>1, GeneratedLoans
  <2>4. \A s \in db : s[1] = "loans" => ApplicationOf(s[2]) # t
    BY <2>1, LoanApprovalIs DEF Rows
  <2>5. /\ \A p \in LoanRows(g) :
                \/ p = l /\ p[1] = "loans" /\ p[2] = g /\ p[3] = "ACTIVE"
                \/ /\ p[1] = "installments" /\ p[2] = <<p[2][1], p[2][2]>> /\ p[2][1] = g
                   /\ p[2][2] \in 1 .. Installments /\ p = <<"installments", p[2], "PENDING">>
        /\ l \in LoanRows(g)
        /\ \A n \in 1 .. Installments : Pending(g, n) \in LoanRows(g)
    BY <2>3, LoanRowsAre
  <2>6. /\ l[1] = "loans" /\ l[2] = g /\ a[1] = "applications" /\ Approval(g) = a
    BY <2>3
  <2> HIDE DEF g, l, a
  <2>7. \A r \in db' : r[1] = "loans" => r = l \/ r \in db
    BY <1>1, <2>2, <2>5, <2>6
  <2>8. \A r \in db' : r[1] = "installments" => r[2][1] = g \/ r \in db
    BY <1>1, <2>2, <2>5, <2>6
  <2>9. \A r \in db : r[1] \in {"loans", "installments"} => r \in db'
    BY <1>1, <1>7, <2>2
  <2>10. l \in db' /\ a \in db' /\ \A n \in 1 .. Installments : Pending(g, n) \in db'
    BY <1>1, <2>2, <2>5
  <2>11. \A r \in db' : r[1] = "loans" => Approval(r[2]) \in db'
    BY <1>2, <1>4, <1>5, <2>6, <2>7, <2>10
  <2>12. \A r, s \in db' : (/\ r[1] = "loans" /\ s[1] = "loans"
                            /\ ApplicationOf(s[2]) = ApplicationOf(r[2])) => s = r
    BY <1>2, <2>3, <2>4, <2>6, <2>7
  <2>13. \A r \in db' : r[1] = "loans" /\ r[3] = "ACTIVE" =>
                \A n \in 1 .. Installments : Pending(r[2], n) \in db'
    BY <1>2, <1>4, <2>6, <2>7, <2>9, <2>10
  <2>14. \A r \in db' : r[1] = "installments" => \E s \in db' : s[1] = "loans" /\ s[2] = r[2][1]
    BY <1>2, <2>6, <2>8, <2>9, <2>10
  <2> QED
    BY <1>3, <2>11, <2>12, <2>13, <2>14
<1>8. CASE e = "installment_payment_and_delinquency"
  <2> DEFINE l == <<"loans", t, "ACTIVE">>
             m == <<"loans", t, "DELINQUENT">>
  <2>1. /\ t \in LoanIds /\ Claimed("installment_payment_and_delinquency", db, t)
        /\ f = InstallmentChange(db, t) /\ l \in db
    BY <1>8 DEF Commits, Effect, Numbers, Fixtures, Claimed
  <2>2. l \in f.gone /\ m \in f.new /\ \A p \in f.new : p[1] = "loans" => p[3] # "ACTIVE"
    BY <2>1, InstallmentChangeIs
  <2>3. l[1] = "loans" /\ l[2] = t /\ m[1] = "loans" /\ m[2] = t /\ m[3] = "DELINQUENT"
    OBVIOUS
  <2> HIDE DEF l, m
  <2>4. m \in db'
    BY <1>1, <2>2
  <2>5. \A r \in db' : r[1] = "loans" /\ r[2] = t => r = m
    BY <1>1, <2>3, <2>4 DEF UniqueKeys
  <2>6. \A r \in db' : r[1] = "loans" /\ r[2] # t => r \in db
    BY <1>1, <1>8 DEF MayTouch
  <2>7. \A r \in db : r[1] = "loans" /\ r[2] # t => r \in db'
    BY <1>1, <1>8 DEF MayTouch
  <2>8. \A r \in db' : r[1] = "loans" => \E s \in db : s[1] = "loans" /\ s[2] = r[2]
    BY <2>1, <2>3, <2>6
  <2>9. \A r \in db : r[1] = "loans" => \E s \in db' : s[1] = "loans" /\ s[2] = r[2]
    BY <2>3, <2>4, <2>7
  <2>10. \A r \in db' : r[1] = "loans" => Approval(r[2]) \in db'
    BY <1>2, <1>4, <1>5, <2>8
  <2>11. \A r, s \in db' : (/\ r[1] = "loans" /\ s[1] = "loans"
                            /\ ApplicationOf(s[2]) = ApplicationOf(r[2])) => s = r
    <3>1. SUFFICES ASSUME NEW r \in db', NEW s \in db', r[1] = "loans", s[1] = "loans",
                          ApplicationOf(s[2]) = ApplicationOf(r[2])
                   PROVE  s = r
      OBVIOUS
    <3>2. PICK x \in db : x[1] = "loans" /\ x[2] = r[2]
      BY <2>8, <3>1
    <3>3. PICK y \in db : y[1] = "loans" /\ y[2] = s[2]
      BY <2>8, <3>1
    <3>4. x = y
      BY <1>2, <3>1, <3>2, <3>3
    <3> QED
      BY <1>1, <3>1, <3>2, <3>3, <3>4 DEF UniqueKeys
  <2>12. ASSUME NEW r \in db', r[1] = "loans", r[3] = "ACTIVE", NEW n \in 1 .. Installments
         PROVE  Pending(r[2], n) \in db'
    <3>1. r[2] # t /\ r \in db
      BY <2>3, <2>5, <2>6, <2>12
    <3>2. Pending(r[2], n) \in db
      BY <1>2, <2>12, <3>1
    <3>3. Pending(r[2], n) \notin f.gone
      BY <1>1, <1>4, <1>8, <3>1 DEF MayTouch
    <3> QED
      BY <1>1, <3>2, <3>3
  <2>13. ASSUME NEW r \in db', r[1] = "installments"
         PROVE  \E s \in db' : s[1] = "loans" /\ s[2] = r[2][1]
    <3>1. CASE r \in db
      BY <1>2, <2>9, <2>13, <3>1
    <3>2. CASE r \in f.new
      <4>1. r[2][1] = t
        BY <1>1, <1>8, <2>13, <3>2 DEF MayTouch
      <4> QED
        BY <2>3, <2>4, <4>1
    <3> QED
      BY <1>1, <3>1, <3>2
  <2> QED
    BY <1>3, <2>10, <2>11, <2>12, <2>13
<1> QED
  BY <1>6, <1>7, <1>8

(* What the other processes found is still there, and still as they need it. *)
LEMMA CommitKeepsClaims ==
    ASSUME db \subseteq DbRows, DbInv, NEW e, NEW t, NEW f, Commits(e, t, f), LoanBook',
           NEW k \in EventKeys, k # "initial_snapshot", NEW u, Claimed(k, db, u),
           RowName(k, u) # RowName(e, t)
    PROVE  Claimed(k, db', u)
<1>1. /\ e \in EventKeys /\ e # "initial_snapshot"
      /\ \A p : p \in db' <=> (p \in db /\ p \notin f.gone) \/ p \in f.new
      /\ \A p \in f.gone \cup f.new : MayTouch(e, t, f, p)
      /\ f.gone \subseteq db
  BY CommitMeans
<1>2. TableOf(k) = TableOf(e) => u # t
  BY DEF RowName
<1>3. CASE k = "customer_address_status_change"
  <2> DEFINE p == <<"customers", u, "ACTIVE">>
  <2>2. p \in db /\ TableOf(k) = "customers"
    BY <1>3 DEF Claimed, TableOf
  <2>3. p[1] = "customers" /\ p[2] = u
    OBVIOUS
  <2> HIDE DEF p
  <2>4. p \notin f.gone
    <3>1. SUFFICES ASSUME p \in f.gone PROVE FALSE
      OBVIOUS
    <3>2. e = "setup"
      BY <1>1, <1>2, <2>2, <2>3, <3>1 DEF MayTouch
    <3>3. f.gone = {}
      BY <3>2 DEF Commits, Effect, Setup
    <3> QED
      BY <3>1, <3>3
  <2> QED
    BY <1>1, <1>3, <2>2, <2>4 DEF Claimed, p
<1>4. CASE k = "secondary_contact_delete"
  <2> DEFINE p == <<"contacts", <<u, "PHONE">>, "LIVE">>
  <2>1. p \in db /\ TableOf(k) = "contacts"
    BY <1>4 DEF Claimed, TableOf
  <2>2. p[1] = "contacts" /\ p[2] = <<u, "PHONE">>
    OBVIOUS
  <2>3. p \notin f.gone
    <3>1. SUFFICES ASSUME p \in f.gone PROVE FALSE
      OBVIOUS
    <3>2. e = "secondary_contact_delete" /\ <<u, "PHONE">> = <<t, "PHONE">>
      BY <1>1, <2>2, <3>1 DEF MayTouch
    <3> QED
      BY <1>2, <1>4, <3>2
  <2> QED
    BY <1>1, <1>4, <2>1, <2>3 DEF Claimed
<1>5. CASE k = "loan_application_approval"
  <2> DEFINE p == <<"applications", u, "PENDING">>
  <2>1. p \in db
    BY <1>5 DEF Claimed
  <2>2. p[1] = "applications" /\ p[2] = u
    OBVIOUS
  <2> HIDE DEF p
  <2>3. p \notin f.gone
    <3>1. SUFFICES ASSUME p \in f.gone PROVE FALSE
      OBVIOUS
    <3>2. e \in {"loan_application_approval", "setup"} /\ (e = k => u = t)
      BY <1>1, <1>5, <2>2, <3>1 DEF MayTouch
    <3>3. e = "setup"
      BY <1>2, <1>5, <3>2
    <3>4. f.gone = {}
      BY <3>3 DEF Commits, Effect, Setup
    <3> QED
      BY <3>1, <3>4
  <2> QED
    BY <1>1, <1>5, <2>1, <2>3 DEF Claimed, p
<1>6. CASE k = "installment_payment_and_delinquency"
  <2> DEFINE p == <<"loans", u, "ACTIVE">>
  <2>1. p \in db
    BY <1>6 DEF Claimed
  <2>2. p[1] = "loans" /\ p[2] = u /\ p[3] = "ACTIVE"
    OBVIOUS
  <2> HIDE DEF p
  <2>3. p \notin f.gone
    <3>1. SUFFICES ASSUME p \in f.gone PROVE FALSE
      OBVIOUS
    <3>2. CASE e = "loan_application_approval"
      <4>1. f.gone = {<<"applications", t, "PENDING">>}
        BY <3>2 DEF Commits, Effect, LoanApproval
      <4> QED
        BY <2>2, <3>1, <4>1
    <3>3. CASE e = "installment_payment_and_delinquency" /\ u = t
      BY <1>2, <1>6, <3>3
    <3> QED
      BY <1>1, <2>2, <3>1, <3>2, <3>3 DEF MayTouch
  <2>4. p \in db'
    BY <1>1, <2>1, <2>3
  <2>5. PendingInstallments(db', u) = 1 .. Installments
    <3>1. p \in Rows(db', "loans")
      BY <2>2, <2>4 DEF Rows
    <3> QED
      BY <2>2, <3>1 DEF LoanBook
  <2>6. Installments \in Nat /\ ~(Installments < 2)
    BY WorkloadAssumption
  <2>7. Cardinality(1 .. Installments) = Installments
    BY <2>6, FiniteIds
  <2>8. ~(Cardinality(PendingInstallments(db', u)) < 2)
    BY <2>5, <2>6, <2>7
  <2> QED
    BY <1>6, <2>4, <2>8 DEF Claimed, p
<1>7. CASE k = "base_rate_change"
  <2> DEFINE p == <<"rates", u, "OPEN">>
  <2>1. p \in db
    BY <1>7 DEF Claimed
  <2>2. p[1] = "rates" /\ p[2] = u
    OBVIOUS
  <2> HIDE DEF p
  <2>3. p \notin f.gone
    BY <1>1, <1>2, <1>7, <2>2 DEF MayTouch
  <2> QED
    BY <1>1, <1>7, <2>1, <2>3 DEF Claimed, p
<1>8. LIFECYCLE_CUSTOMER # RELATION_CUSTOMER
  BY SnapshotNumbers DEF LIFECYCLE_CUSTOMER, RELATION_CUSTOMER
<1>9. CASE k = "setup"
  <2>1. /\ u = LIFECYCLE_CUSTOMER /\ TableOf(k) = "customers"
        /\ \A p \in db : p[1] = "customers" => p[2] # LIFECYCLE_CUSTOMER /\ p[2] # RELATION_CUSTOMER
    BY <1>9 DEF Claimed, TableOf, Exists, Rows
  <2>2. e # "setup"
    <3>1. SUFFICES ASSUME e = "setup" PROVE FALSE
      OBVIOUS
    <3>2. t = LIFECYCLE_CUSTOMER
      BY <3>1 DEF Commits, Claimed
    <3> QED
      BY <1>2, <1>9, <2>1, <3>1, <3>2
  <2>3. ASSUME NEW p \in f.new, p[1] = "customers"
        PROVE  p[2] # LIFECYCLE_CUSTOMER /\ p[2] # RELATION_CUSTOMER
    <3>1. TableOf(e) = "customers" /\ p[2] = t /\ t # LIFECYCLE_CUSTOMER
      BY <1>1, <1>2, <2>1, <2>2, <2>3 DEF MayTouch
    <3>2. e # "delete"
      BY <3>1 DEF Commits, Claimed
    <3>3. e = "customer_address_status_change"
      BY <1>1, <2>2, <3>1, <3>2, EventNames DEF TableOf
    <3>4. <<"customers", t, "ACTIVE">> \in db
      BY <3>3 DEF Commits, Claimed
    <3> QED
      BY <2>1, <3>1, <3>4
  <2>4. \A p \in db' : p[1] = "customers" => p[2] # LIFECYCLE_CUSTOMER /\ p[2] # RELATION_CUSTOMER
    BY <1>1, <2>1, <2>3
  <2> QED
    BY <1>9, <2>1, <2>4 DEF Claimed, Exists, Rows
<1>10. CASE k = "delete"
  <2>1. /\ u = LIFECYCLE_CUSTOMER /\ TableOf(k) = "customers"
        /\ \A p \in db : p[1] = "addresses" => p[2][1] # LIFECYCLE_CUSTOMER
    BY <1>10 DEF Claimed, TableOf, Rows
  <2>2. PICK p \in db : p[1] = "customers" /\ p[2] = LIFECYCLE_CUSTOMER
    BY <1>10 DEF Claimed, Exists, Rows
  <2>3. p \in db'
    BY <1>1, <1>2, <1>8, <2>1, <2>2 DEF MayTouch
  <2>4. ASSUME NEW q \in f.new, q[1] = "addresses"
        PROVE  q[2][1] # LIFECYCLE_CUSTOMER
    <3>1. e = "customer_address_status_change" /\ q[2][1] = t
      BY <1>1, <2>4 DEF MayTouch
    <3>2. TableOf(e) = "customers"
      BY <3>1 DEF TableOf
    <3> QED
      BY <1>2, <2>1, <3>1, <3>2
  <2>5. \A q \in db' : q[1] = "addresses" => q[2][1] # LIFECYCLE_CUSTOMER
    BY <1>1, <2>1, <2>4
  <2> QED
    BY <1>10, <2>1, <2>2, <2>3, <2>5 DEF Claimed, Exists, Rows
<1> QED
  BY EventNames, <1>3, <1>4, <1>5, <1>6, <1>7, <1>9, <1>10

LEMMA RowOf ==
    ASSUME NEW d, NEW x, NEW y, NEW z, <<x, y, z>> \in d
    PROVE  \E r \in Rows(d, x) : r[2] = y /\ r[3] = z
<1>1. <<x, y, z>> \in Rows(d, x)
  BY DEF Rows
<1> QED
  BY <1>1

(* The snapshot loads a source that has nothing but a base rate.            *)
LEMMA SnapshotCommit ==
    ASSUME db = {<<"rates", 1, "OPEN">>}, db' = (db \ Snapshot.gone) \cup Snapshot.new
    PROVE  db' \subseteq DbRows /\ DbInv'
<1> DEFINE p == <<"rates", 1, "OPEN">>
<1>1. db' = {p} \cup SnapshotRows /\ p \in DbRows
  BY DEF Snapshot, DbRows, RateIds
<1>2. p[1] = "rates" /\ p[2] = 1 /\ p[3] = "OPEN"
  OBVIOUS
<1>3. \A q \in SnapshotRows : SnapshotRow(q) /\ q \in DbRows
  BY SnapshotRowsAre
<1>4. \A q \in SnapshotRows : q[1] # "rates"
  BY <1>3 DEF SnapshotRow
<1> HIDE DEF p
<1>5. Fresh(Snapshot) /\ Snapshot.new = SnapshotRows
  BY SnapshotIs DEF IsSound, Snapshot
<1>6. UniqueKeys'
  BY <1>1, <1>2, <1>4, <1>5 DEF UniqueKeys, Fresh
<1>7. \A c \in 1 .. Customers : <<"customers", c, "ACTIVE">> \in db'
  BY <1>1, SnapshotRowsAre
<1>8. SnapshotFirst'
  <2>1. \A c \in 1 .. Customers : Exists(db', c)
    <3>1. ASSUME NEW c \in 1 .. Customers
          PROVE  Exists(db', c)
      <4> DEFINE r == <<"customers", c, "ACTIVE">>
      <4>1. r \in db' /\ r[1] = "customers" /\ r[2] = c
        BY <1>7
      <4> HIDE DEF r
      <4> QED
        BY <4>1 DEF Exists, Rows
    <3> QED
      BY <3>1
  <2>2. \A a \in 1 .. Applications : \E s \in Rows(db', "applications") : s[2] = a
    <3>1. ASSUME NEW a \in 1 .. Applications
          PROVE  \E s \in Rows(db', "applications") : s[2] = a
      <4> DEFINE r == <<"applications", a, Decision(a)>>
      <4>1. r \in db' /\ r[1] = "applications" /\ r[2] = a
        BY <1>1, SnapshotRowsAre
      <4> HIDE DEF r
      <4> QED
        BY <4>1 DEF Rows
    <3> QED
      BY <3>1
  <2>3. IsLoaded'
    <3>1. <<"customers", 1, "ACTIVE">> \in Rows(db', "customers")
      BY <1>7, SnapshotNumbers DEF Rows
    <3> QED
      BY <3>1 DEF IsLoaded
  <2> QED
    BY <2>1, <2>2, <2>3 DEF SnapshotFirst
<1>9. AddressBook'
  <2>1. ASSUME NEW r \in Rows(db', "addresses")
        PROVE  r[2][2] = 1 /\ r[3] = "OPEN" /\ r[2][1] \in 1 .. Customers
    <3>1. r \in SnapshotRows /\ r[1] = "addresses"
      BY <1>1, <1>2 DEF Rows
    <3> QED
      BY <1>3, <3>1 DEF SnapshotRow
  <2> QED
    BY <1>7, <2>1 DEF AddressBook
<1>10. FixtureBook'
  <2>1. ASSUME NEW s \in Rows(db', "applications")
        PROVE  s[2] \in 1 .. Applications
    <3>1. s \in SnapshotRows /\ s[1] = "applications"
      BY <1>1, <1>2 DEF Rows
    <3> QED
      BY <1>3, <3>1 DEF SnapshotRow
  <2>2. FIXTURE_APPLICATION \notin 1 .. Applications
    BY SnapshotNumbers DEF FIXTURE_APPLICATION
  <2> QED
    BY <2>1, <2>2 DEF FixtureBook
<1>11. LoanBook'
  <2>1. ASSUME NEW r \in Rows(db', "loans")
        PROVE  /\ r[2] \in Approved /\ r = <<"loans", r[2], "ACTIVE">>
               /\ ApplicationOf(r[2]) = r[2]
    <3>1. r \in SnapshotRows /\ r[1] = "loans"
      BY <1>1, <1>2 DEF Rows
    <3>2. r[2] \in Approved /\ r = <<"loans", r[2], "ACTIVE">>
      BY <1>3, <3>1 DEF SnapshotRow
    <3> QED
      BY <3>2, SnapshotNumbers
  <2>2. ASSUME NEW i \in Approved
        PROVE  /\ <<"applications", i, "APPROVED">> \in db'
               /\ LoanRows(i) \subseteq db' /\ i \in LoanIds
    <3>1. i \in 1 .. Applications /\ Decision(i) = "APPROVED"
      BY DEF Approved
    <3> QED
      BY <1>1, <3>1, SnapshotRowsAre, SnapshotNumbers
  <2>3. ASSUME NEW r \in Rows(db', "installments")
        PROVE  \E s \in Rows(db', "loans") : s[2] = r[2][1]
    <3>1. r \in SnapshotRows /\ r[1] = "installments"
      BY <1>1, <1>2 DEF Rows
    <3>2. r[2][1] \in Approved
      BY <1>3, <3>1 DEF SnapshotRow
    <3>3. PICK i \in Approved : i = r[2][1]
      BY <3>2
    <3>4. <<"loans", i, "ACTIVE">> \in db'
      BY <2>2, LoanRowsAre
    <3> QED
      BY <3>3, <3>4, RowOf
  <2>4. ASSUME NEW r \in Rows(db', "loans")
        PROVE  PendingInstallments(db', r[2]) = 1 .. Installments
    <3>1. \A n \in 1 .. Installments : <<"installments", <<r[2], n>>, "PENDING">> \in db'
      BY <2>1, <2>2, LoanRowsAre
    <3> QED
      BY <3>1 DEF PendingInstallments
  <2>5. \A r \in Rows(db', "loans") : <<"applications", ApplicationOf(r[2]), "APPROVED">> \in db'
    BY <2>1, <2>2
  <2>6. \A r, s \in Rows(db', "loans") : ApplicationOf(s[2]) = ApplicationOf(r[2]) => s = r
    BY <2>1
  <2> QED
    BY <2>3, <2>4, <2>5, <2>6 DEF LoanBook
<1>12. RateBook'
  <2>1. Rows(db', "rates") = {p}
    BY <1>1, <1>2, <1>4 DEF Rows
  <2>2. \A r \in Rows(db', "rates") : r[2] = 1 /\ r[3] = "OPEN"
    BY <1>2, <2>1
  <2>3. \E r \in Rows(db', "rates") : r[3] = "OPEN"
    <3>1. p \in Rows(db', "rates") /\ p[3] = "OPEN"
      BY <1>2, <2>1
    <3> QED
      BY <3>1
  <2>4. ASSUME NEW r \in Rows(db', "rates"), NEW s \in Rows(db', "rates")
        PROVE  s[2] <= r[2]
    <3>1. s[2] = 1 /\ r[2] = 1
      BY <2>2
    <3> QED
      BY <3>1
  <2> QED
    BY <2>3, <2>4 DEF RateBook
<1> QED
  BY <1>1, <1>3, <1>6, <1>8, <1>9, <1>10, <1>11, <1>12 DEF DbInv

(* What a commit does to the source.                                        *)
LEMMA CommittedRows ==
    ASSUME WorkloadInv, NEW w \in Workers, CommitEvent(w)
    PROVE  /\ worker[w].pc = "commit" /\ HasEvent(w) /\ Key(w) \in EventKeys
           /\ db' \subseteq DbRows /\ DbInv'
           /\ LET f == Effect(Key(w), db, worker[w].row[2])
              IN  Counted(f) /\ Touched(f) \subseteq Names
           /\ \A v \in Workers \ {w} : IsAt(v, "commit") =>
                /\ worker[v].row[2] \in Qualifying(Key(v), db')
                /\ ~ Refused(Key(v), db', worker[v].row[2])
<1> USE DEF WorkloadInv
<1> DEFINE f == Effect(Key(w), db, worker[w].row[2])
<1>1. /\ worker[w].pc = "commit" /\ IsAt(w, "commit") /\ ~ IsAt(w, "idle") /\ HasEvent(w)
      /\ db' = (db \ f.gone) \cup f.new
  BY DEF CommitEvent, IsAt, WorkerInv
<1>2. Key(w) \in EventKeys /\ db \subseteq DbRows
  BY <1>1, WorkerType DEF StateTypes
<1>3. ASSUME NEW v \in Workers, IsAt(v, "commit")
      PROVE  \E t \in Numbers(Key(v)) :
                /\ worker[v].row = RowName(Key(v), t) /\ worker[v].row[2] = t
                /\ worker[v].row # None /\ Claimed(Key(v), db, t)
                /\ Key(v) \in EventKeys
  <2>1. ~ IsAt(v, "idle") /\ HasEvent(v)
    BY <1>3 DEF IsAt, WorkerInv
  <2>2. Key(v) \in EventKeys
    BY <2>1, WorkerType
  <2>3. PICK t \in Numbers(Key(v)) : worker[v].row = RowName(Key(v), t)
    BY <1>3 DEF WorkerInv
  <2>4. worker[v].row[2] = t
    BY <2>3 DEF RowName
  <2>5. worker[v].row # None
    <3>1. RowName(Key(v), t) \in RowNames
      BY <2>2, NumbersType DEF RowName
    <3> QED
      BY <2>3, <3>1, WorkloadAssumption
  <2>6. Claimed(Key(v), db, t)
    BY <1>2, <1>3, <2>2, <2>4, ClaimIs DEF Claims
  <2> QED
    BY <2>2, <2>3, <2>4, <2>5, <2>6
<1>4. PICK t \in Numbers(Key(w)) :
        /\ worker[w].row = RowName(Key(w), t) /\ worker[w].row[2] = t
        /\ worker[w].row # None /\ Claimed(Key(w), db, t)
  BY <1>1, <1>3
<1>5. ASSUME NEW v \in Workers \ {w}, IsAt(v, "commit"), IsLoaded
      PROVE  Key(v) # "initial_snapshot"
  <2>1. SUFFICES ASSUME Key(v) = "initial_snapshot"
                 PROVE  FALSE
    OBVIOUS
  <2>2. PICK u \in Numbers(Key(v)) : Claimed(Key(v), db, u)
    BY <1>3, <1>5
  <2>3. ~ Exists(db, 1)
    BY <2>1, <2>2 DEF Claimed
  <2> QED
    BY <1>5, <2>3, SnapshotNumbers DEF DbInv, SnapshotFirst
<1>6. CASE ~ IsLoaded
  <2>1. db = {<<"rates", 1, "OPEN">>}
    BY <1>6 DEF DbInv, SnapshotFirst
  <2>2. ASSUME NEW v \in Workers, IsAt(v, "commit")
        PROVE  worker[v].row = <<"customers", 1>> /\ Key(v) = "initial_snapshot"
               /\ worker[v].row # None
    <3>1. ~ IsAt(v, "idle") /\ HasEvent(v)
      BY <2>2 DEF IsAt, WorkerInv
    <3>2. Mode[worker[v].run] = "snapshot"
      BY <1>6, <3>1 DEF DbInv, SnapshotFirst
    <3>3. Key(v) = "initial_snapshot"
      BY <3>1, <3>2, WorkerType, PlanType DEF Key
    <3>4. PICK u \in Numbers(Key(v)) : worker[v].row = RowName(Key(v), u) /\ worker[v].row # None
      BY <1>3, <2>2
    <3>5. u = 1 /\ TableOf(Key(v)) = "customers"
      BY <3>3 DEF Numbers, TableOf, Fixtures
    <3> QED
      BY <3>3, <3>4, <3>5 DEF RowName
  <2>3. \A v \in Workers \ {w} : ~ IsAt(v, "commit")
    BY <1>1, <2>2 DEF Exclusive
  <2>4. f = Snapshot
    BY <1>1, <2>2 DEF Effect
  <2> HIDE DEF f
  <2>5. IsSound(f)
    BY <2>1, <2>4, SnapshotIs
  <2>6. db' \subseteq DbRows /\ DbInv'
    BY <1>1, <2>1, <2>4, SnapshotCommit
  <2>7. Counted(f) /\ Touched(f) \subseteq Names
    <3>1. f.gone \cup f.new \subseteq DbRows /\ Counted(f)
      BY <1>2, <2>5 DEF IsSound
    <3>2. {<<r[1], r[2]>> : r \in f.gone \cup f.new} \subseteq Names
      BY <3>1, NamesOf
    <3> QED
      BY <3>1, <3>2 DEF Touched
  <2> QED
    BY <1>1, <1>2, <2>3, <2>6, <2>7 DEF f
<1>7. CASE IsLoaded
  <2>1. Key(w) # "initial_snapshot"
    <3>1. SUFFICES ASSUME Key(w) = "initial_snapshot"
                   PROVE  FALSE
      OBVIOUS
    <3>2. ~ Exists(db, 1)
      BY <1>4, <3>1 DEF Claimed
    <3> QED
      BY <1>7, <3>2, SnapshotNumbers DEF DbInv, SnapshotFirst
  <2>2. PICK g : g = f
    OBVIOUS
  <2>3. Commits(Key(w), t, g)
    BY <1>1, <1>2, <1>4, <2>1, <2>2 DEF Commits
  <2>4. IsSound(g)
    BY <1>2, <2>3, EffectIs DEF Commits
  <2>5. db' \subseteq DbRows /\ UniqueKeys'
    BY <1>2, <2>3, CommitMeans
  <2>6. SnapshotFirst'
    BY <1>2, <1>7, <2>3, CommitKeepsRows
  <2>7. AddressBook' /\ FixtureBook'
    BY <1>2, <2>3, CommitKeepsAddresses, CommitKeepsFixtures
  <2>8. LoanBook' /\ RateBook'
    BY <1>2, <2>3, CommitKeepsLoans, CommitKeepsRates
  <2>9. Counted(g) /\ Touched(g) \subseteq Names
    <3>1. g.gone \cup g.new \subseteq DbRows /\ Counted(g)
      BY <1>2, <2>4 DEF IsSound
    <3>2. {<<r[1], r[2]>> : r \in g.gone \cup g.new} \subseteq Names
      BY <3>1, NamesOf
    <3> QED
      BY <3>1, <3>2 DEF Touched
  <2>10. ASSUME NEW v \in Workers \ {w}, IsAt(v, "commit")
         PROVE  /\ worker[v].row[2] \in Qualifying(Key(v), db')
                /\ ~ Refused(Key(v), db', worker[v].row[2])
    <3>1. PICK u \in Numbers(Key(v)) :
                /\ worker[v].row = RowName(Key(v), u) /\ worker[v].row[2] = u
                /\ worker[v].row # None /\ Claimed(Key(v), db, u)
                /\ Key(v) \in EventKeys
      BY <1>3, <2>10
    <3>2. Key(v) # "initial_snapshot"
      BY <1>5, <1>7, <2>10
    <3>3. RowName(Key(v), u) # RowName(Key(w), t)
      BY <1>4, <3>1 DEF Exclusive
    <3>4. Claimed(Key(v), db', u)
      BY <1>2, <2>3, <2>8, <3>1, <3>2, <3>3, CommitKeepsClaims
    <3>5. u \in Qualifying(Key(v), db') /\ ~ Refused(Key(v), db', u)
      BY <2>5, <3>1, <3>4, ClaimIs
    <3> QED
      BY <3>1, <3>5
  <2> HIDE DEF f
  <2>11. DbInv'
    BY <2>5, <2>6, <2>7, <2>8 DEF DbInv
  <2>12. Counted(f) /\ Touched(f) \subseteq Names
    BY <2>2, <2>9
  <2> QED
    BY <1>1, <1>2, <2>5, <2>10, <2>11, <2>12 DEF f
<1> QED
  BY <1>6, <1>7

LEMMA CommitEventStep ==
    ASSUME WorkloadInv, NEW w \in Workers, CommitEvent(w)
    PROVE  WorkloadInv'
<1> USE DEF WorkloadInv
<1> DEFINE x == [worker[w] EXCEPT !.pc = "next", !.at = @ + 1, !.row = None]
<1>1. PICK r \in Runs : r = worker[w].run
  BY WorkerType DEF CommitEvent, IsAt
<1>2. /\ worker[w].pc = "commit" /\ HasEvent(w) /\ ~ IsAt(w, "idle") /\ Key(w) \in EventKeys
      /\ db' \subseteq DbRows /\ DbInv'
      /\ \A v \in Workers \ {w} : IsAt(v, "commit") =>
            /\ worker[v].row[2] \in Qualifying(Key(v), db')
            /\ ~ Refused(Key(v), db', worker[v].row[2])
  BY CommittedRows DEF IsAt
<1>3. PICK i \in DOMAIN Plan(r) : i = worker[w].at
  BY <1>1, <1>2 DEF HasEvent
<1>4. PICK f : /\ f = Effect(Key(w), db, worker[w].row[2])
               /\ Counted(f) /\ Touched(f) \subseteq Names
  BY CommittedRows
<1>5. PICK n : n = Touched(f)
  OBVIOUS
<1>6. PICK z : z = [status |-> "COMPLETED", count |-> f.count, txid |-> Len(wal[r][i]) + 1]
  OBVIOUS
<1>7. /\ wal' = [wal EXCEPT ![r][i] = Append(wal[r][i], n)]
      /\ ledger' = [ledger EXCEPT ![r][i] = z]
      /\ worker' = [worker EXCEPT ![w] = x]
      /\ UNCHANGED <<run, shared, faults>>
  BY <1>1, <1>3, <1>4, <1>5, <1>6 DEF CommitEvent
<1>8. /\ worker \in [Workers -> WorkerRow] /\ worker[w] \in WorkerRow
      /\ ledger \in [Runs -> Seq(EventRow)] /\ ledger[r] \in Seq(EventRow)
      /\ wal \in [Runs -> Seq(Seq(SUBSET Names))] /\ wal[r] \in Seq(Seq(SUBSET Names))
      /\ Len(ledger[r]) = Len(Plan(r)) /\ Len(wal[r]) = Len(Plan(r))
      /\ DOMAIN Plan(r) = 1 .. Len(Plan(r)) /\ Len(Plan(r)) \in Nat
  BY PlanType DEF StateTypes
<1>9. /\ i \in DOMAIN ledger[r] /\ i \in DOMAIN wal[r] /\ wal[r][i] \in Seq(SUBSET Names)
      /\ DOMAIN ledger[r] = DOMAIN Plan(r) /\ DOMAIN wal[r] = DOMAIN Plan(r)
      /\ n \in SUBSET Names /\ i \in Nat /\ i + 1 \in 1 .. Len(Plan(r)) + 1
  BY <1>4, <1>5, <1>8
<1>10. /\ z.status = "COMPLETED" /\ z.count = Cardinality(n) /\ z.txid = Len(wal[r][i]) + 1
       /\ z \in EventRow /\ Len(wal[r][i]) \in Nat
  <2>1. Len(wal[r][i]) \in Nat /\ Len(wal[r][i]) + 1 \in Nat
    BY <1>9
  <2>2. f.count \in Nat /\ f.count = Cardinality(n)
    BY <1>4, <1>5 DEF Counted
  <2>3. "COMPLETED" \in Statuses
    BY DEF Statuses
  <2> QED
    BY <1>6, <2>1, <2>2, <2>3 DEF EventRow
<1>11. /\ x \in WorkerRow /\ x.pc = "next" /\ x.run = r /\ x.at = i + 1 /\ x.row = None
  <2>1. x.pc = "next" /\ x.at = worker[w].at + 1 /\ x.row = None /\ x.run = worker[w].run
    BY <1>8 DEF WorkerRow
  <2>2. PICK k \in Nat : k = worker[w].at + 1
    BY <1>3, <1>9
  <2>3. x = [worker[w] EXCEPT !.pc = "next", !.at = k, !.row = None]
    BY <2>2
  <2>4. "next" \in Busy \cup {"idle"} /\ None \in {None} \cup RowNames
    BY DEF Busy
  <2>5. x \in WorkerRow
    <3> HIDE DEF x
    <3> QED
      BY <1>8, <2>3, <2>4 DEF WorkerRow
  <2> HIDE DEF x
  <2> QED
    BY <1>1, <1>3, <2>1, <2>5
<1> HIDE DEF x
<1>12. /\ worker' \in [Workers -> WorkerRow] /\ worker'[w] = x
       /\ \A v \in Workers \ {w} : worker'[v] = worker[v]
  BY <1>7, <1>8, <1>11
<1>13. PICK s : s = Append(wal[r][i], n)
  OBVIOUS
<1>14. /\ s \in Seq(SUBSET Names) /\ Len(s) = Len(wal[r][i]) + 1
       /\ \A j \in 1 .. Len(wal[r][i]) : s[j] = wal[r][i][j]
       /\ s[Len(wal[r][i]) + 1] = n
  BY <1>9, <1>13
<1>15. /\ wal' \in [Runs -> Seq(Seq(SUBSET Names))] /\ Len(wal'[r]) = Len(wal[r])
       /\ \A q \in Runs \ {r} : wal'[q] = wal[q]
       /\ \A j \in DOMAIN Plan(r) : wal'[r][j] = IF j = i THEN s ELSE wal[r][j]
  <2> DEFINE y == [wal[r] EXCEPT ![i] = s]
  <2>1. /\ y \in Seq(Seq(SUBSET Names)) /\ Len(y) = Len(wal[r])
        /\ \A j \in DOMAIN Plan(r) : y[j] = IF j = i THEN s ELSE wal[r][j]
    BY <1>8, <1>9, <1>14
  <2>2. wal' = [wal EXCEPT ![r] = y]
    BY <1>7, <1>8, <1>13
  <2> HIDE DEF y
  <2> QED
    BY <1>8, <2>1, <2>2
<1>16. /\ ledger' \in [Runs -> Seq(EventRow)] /\ Len(ledger'[r]) = Len(ledger[r])
       /\ \A q \in Runs \ {r} : ledger'[q] = ledger[q]
       /\ \A j \in DOMAIN Plan(r) : ledger'[r][j] = IF j = i THEN z ELSE ledger[r][j]
  <2> DEFINE y == [ledger[r] EXCEPT ![i] = z]
  <2>1. /\ y \in Seq(EventRow) /\ Len(y) = Len(ledger[r])
        /\ \A j \in DOMAIN Plan(r) : y[j] = IF j = i THEN z ELSE ledger[r][j]
    BY <1>8, <1>9, <1>10
  <2>2. ledger' = [ledger EXCEPT ![r] = y]
    BY <1>7, <1>8
  <2> HIDE DEF y
  <2> QED
    BY <1>8, <2>1, <2>2
<1>17. StateTypes'
  <2>1. ASSUME NEW q \in Runs
        PROVE  Len(ledger'[q]) = Len(Plan(q)) /\ Len(wal'[q]) = Len(Plan(q))
    BY <1>8, <1>15, <1>16 DEF StateTypes
  <2> QED
    BY <1>2, <1>7, <1>12, <1>15, <1>16, <2>1 DEF StateTypes
<1>18. \A v \in Workers \ {w} :
        /\ \A pc : IsAt(v, pc)' <=> IsAt(v, pc)
        /\ Key(v)' = Key(v) /\ (HasEvent(v)' <=> HasEvent(v))
  BY <1>12 DEF IsAt, Key, HasEvent
<1>19. WorkerInv'
  <2>1. ASSUME NEW v \in Workers, v # w
        PROVE  /\ IsAt(v, "idle")' => worker'[v].run = None
               /\ ~ IsAt(v, "idle")' =>
                    /\ worker'[v].run \in Runs
                    /\ worker'[v].at \in 1 .. Len(Plan(worker'[v].run)) + 1
               /\ worker'[v].pc \in {"wait", "commit", "failing"} => HasEvent(v)'
               /\ IsAt(v, "wait")' => worker'[v].seen \subseteq Numbers(Key(v)')
               /\ ~ IsAt(v, "commit")' => worker'[v].row = None
               /\ IsAt(v, "commit")' =>
                    \E t \in Numbers(Key(v)') : worker'[v].row = RowName(Key(v)', t)
    BY <1>12, <1>18, <2>1 DEF WorkerInv
  <2>2. /\ ~ IsAt(w, "idle")' /\ ~ IsAt(w, "wait")' /\ ~ IsAt(w, "commit")'
        /\ worker'[w].pc \notin {"wait", "commit", "failing"}
        /\ worker'[w].run = r /\ worker'[w].at = i + 1 /\ worker'[w].row = None
    BY <1>11, <1>12 DEF IsAt
  <2> QED
    BY <1>9, <2>1, <2>2 DEF WorkerInv
<1>20. Exclusive'
  BY <1>11, <1>12 DEF Exclusive
<1>21. Claims'
  <2>1. ~ IsAt(w, "commit")'
    BY <1>11, <1>12 DEF IsAt
  <2> QED
    BY <1>2, <1>12, <1>18, <2>1 DEF Claims
<1>22. LedgerInv'
  <2>1. ASSUME NEW q \in Runs, NEW j \in DOMAIN Plan(q)
        PROVE  /\ ledger'[q][j].txid \in 0 .. Len(wal'[q][j])
               /\ ledger'[q][j].txid # 0 =>
                    ledger'[q][j].count = Cardinality(wal'[q][j][ledger'[q][j].txid])
    <3>1. /\ ledger[q][j].txid \in 0 .. Len(wal[q][j])
          /\ ledger[q][j].txid # 0 =>
                ledger[q][j].count = Cardinality(wal[q][j][ledger[q][j].txid])
      BY DEF LedgerInv
    <3>2. CASE q # r
      BY <1>15, <1>16, <3>1, <3>2
    <3>3. CASE q = r /\ j # i
      BY <1>15, <1>16, <3>1, <3>3
    <3>4. CASE q = r /\ j = i
      <4>1. wal'[q][j] = s /\ ledger'[q][j] = z
        BY <1>15, <1>16, <3>4
      <4>2. z.txid \in 0 .. Len(s) /\ s[z.txid] = n
        BY <1>10, <1>14
      <4> QED
        BY <1>10, <4>1, <4>2
    <3> QED
      BY <3>2, <3>3, <3>4
  <2> QED
    BY <2>1 DEF LedgerInv
<1>23. ControlInv'
  <2>1. ASSUME r \notin shared'
        PROVE  RunInv(r)'
    <3>1. RunInv(r) /\ w \in WorkingOn(r)
      BY <1>1, <1>7, <2>1 DEF ControlInv, WorkingOn
    <3>2. WorkingOn(r)' = WorkingOn(r)
      BY <1>1, <1>11, <1>12 DEF WorkingOn
    <3>3. WorkingOn(r) = {w} /\ run[r] # "COMPLETED"
      BY <3>1 DEF RunInv
    <3>4. ledger[r][i].status # "COMPLETED" /\ wal[r][i] = <<>>
      BY <1>2, <1>3, <3>1 DEF RunInv
    <3>5. z.txid = 1 /\ Len(s) = 1
      BY <1>10, <1>14, <3>4
    <3>6. ASSUME NEW j \in DOMAIN Plan(r), j < worker'[w].at
          PROVE  ledger'[r][j].status = "COMPLETED"
      <4>1. j \in Nat /\ j < i + 1
        BY <1>8, <1>11, <1>12, <3>6
      <4>2. j < i \/ j = i
        BY <1>9, <4>1
      <4> QED
        BY <1>3, <1>10, <1>16, <3>1, <4>2 DEF RunInv
    <3>7. ASSUME NEW j \in DOMAIN Plan(r)
          PROVE  IF ledger'[r][j].status = "COMPLETED"
                 THEN ledger'[r][j].txid = 1 /\ Len(wal'[r][j]) = 1
                 ELSE ledger'[r][j].txid = 0 /\ wal'[r][j] = <<>>
      <4>1. CASE j = i
        BY <1>10, <1>15, <1>16, <3>5, <4>1
      <4>2. CASE j # i
        BY <1>15, <1>16, <3>1, <4>2 DEF RunInv
      <4> QED
        BY <4>1, <4>2
    <3>8. run'[r] # "COMPLETED" /\ worker'[w].pc \notin {"wait", "commit", "failing"}
      BY <1>7, <1>11, <1>12, <3>3
    <3> QED
      BY <3>2, <3>3, <3>6, <3>7, <3>8 DEF RunInv
  <2>2. \A q \in Runs \ {r} : run'[q] = run[q] /\ ledger'[q] = ledger[q] /\ wal'[q] = wal[q]
    BY <1>7, <1>15, <1>16
  <2>3. \A v \in Workers : \/ worker'[v] = worker[v]
                           \/ worker[v].run \in {r, None} /\ worker'[v].run \in {r, None}
    BY <1>1, <1>11, <1>12
  <2>4. shared \subseteq shared'
    BY <1>7
  <2> QED
    BY <2>1, <2>2, <2>3, <2>4, OtherRuns
<1> QED
  BY <1>2, <1>17, <1>19, <1>20, <1>21, <1>22, <1>23

-----------------------------------------------------------------------------
(* The invariant                                                            *)

LEMMA InitWorkloadInv == Init => WorkloadInv
<1> SUFFICES ASSUME Init PROVE WorkloadInv
  OBVIOUS
<1> DEFINE p == <<"rates", 1, "OPEN">>
<1>1. db = {p} /\ p[1] = "rates" /\ p[2] = 1 /\ p[3] = "OPEN" /\ p \in DbRows
  BY DEF Init, DbRows, RateIds
<1> HIDE DEF p
<1>2. \A r \in Runs : /\ DOMAIN Plan(r) = 1 .. Len(Plan(r)) /\ Len(Plan(r)) \in Nat
                      /\ ledger[r] = [i \in DOMAIN Plan(r) |-> NoEvent]
                      /\ wal[r] = [i \in DOMAIN Plan(r) |-> <<>>]
                      /\ run[r] = "NONE"
  BY PlanType DEF Init
<1>3. \A w \in Workers : worker[w] = Idle
  BY DEF Init
<1>4. Idle.pc = "idle" /\ Idle.run = None /\ Idle.row = None /\ Idle \in WorkerRow
  BY DEF Idle, WorkerRow
<1>5. StateTypes
  <2>1. NoEvent \in EventRow
    BY DEF NoEvent, EventRow, Statuses
  <2>2. << >> \in Seq(SUBSET Names)
    OBVIOUS
  <2>3. ASSUME NEW r \in Runs
        PROVE  /\ ledger[r] \in Seq(EventRow) /\ Len(ledger[r]) = Len(Plan(r))
               /\ wal[r] \in Seq(Seq(SUBSET Names)) /\ Len(wal[r]) = Len(Plan(r))
    <3> DEFINE N == Len(Plan(r))
    <3>1. N \in Nat /\ ledger[r] = [i \in 1 .. N |-> NoEvent] /\ wal[r] = [i \in 1 .. N |-> << >>]
      BY <1>2
    <3> HIDE DEF N
    <3>2. ledger[r] \in Seq(EventRow) /\ Len(ledger[r]) = N
      BY <2>1, <3>1
    <3>3. wal[r] \in Seq(Seq(SUBSET Names)) /\ Len(wal[r]) = N
      BY <2>2, <3>1
    <3> QED
      BY <3>2, <3>3 DEF N
  <2>4. ledger \in [Runs -> Seq(EventRow)] /\ wal \in [Runs -> Seq(Seq(SUBSET Names))]
    BY <2>3 DEF Init
  <2>5. run \in [Runs -> Statuses] /\ worker \in [Workers -> WorkerRow]
    BY <1>4 DEF Init, Statuses
  <2>6. shared \subseteq Runs /\ faults \in 0 .. MaxFaults
    BY WorkloadAssumption DEF Init
  <2> QED
    BY <1>1, <2>3, <2>4, <2>5, <2>6 DEF StateTypes
<1>6. WorkerInv /\ Exclusive /\ Claims
  <2>1. \A w \in Workers : /\ IsAt(w, "idle") /\ ~ IsAt(w, "wait") /\ ~ IsAt(w, "commit")
                           /\ worker[w].pc \notin {"wait", "commit", "failing"}
                           /\ worker[w].run = None /\ worker[w].row = None
    BY <1>3, <1>4 DEF IsAt
  <2> QED
    BY <2>1 DEF WorkerInv, Exclusive, Claims
<1>7. \A r \in Runs : \A i \in DOMAIN Plan(r) :
        /\ ledger[r][i].status = "NONE" /\ ledger[r][i].txid = 0 /\ wal[r][i] = << >>
  <2>1. NoEvent.status = "NONE" /\ NoEvent.txid = 0
    BY DEF NoEvent
  <2>2. ASSUME NEW r \in Runs, NEW i \in DOMAIN Plan(r)
        PROVE  ledger[r][i] = NoEvent /\ wal[r][i] = << >>
    BY <1>2
  <2> QED
    BY <2>1, <2>2
<1>8. ControlInv
  <2>1. ASSUME NEW r \in Runs
        PROVE  WorkingOn(r) = {}
    BY <1>3, <1>4, WorkloadAssumption DEF WorkingOn
  <2> QED
    BY <1>2, <1>7, <2>1 DEF ControlInv, RunInv
<1>9. LedgerInv
  <2>1. Len(<< >>) = 0 /\ 0 \in 0 .. 0
    OBVIOUS
  <2> QED
    BY <1>7, <2>1 DEF LedgerInv
<1>10. DbInv
  <2>1. UniqueKeys
    BY <1>1 DEF UniqueKeys
  <2>2. Rows(db, "customers") = {} /\ Rows(db, "addresses") = {} /\ Rows(db, "loans") = {}
        /\ Rows(db, "applications") = {} /\ Rows(db, "installments") = {}
    BY <1>1 DEF Rows
  <2>3. SnapshotFirst
    BY <1>1, <1>3, <1>4, <2>2 DEF SnapshotFirst, IsLoaded, IsAt, p
  <2>4. AddressBook /\ FixtureBook /\ LoanBook
    BY <2>2 DEF AddressBook, FixtureBook, LoanBook
  <2>5. RateBook
    <3>1. Rows(db, "rates") = {p}
      BY <1>1 DEF Rows
    <3>2. \A r \in Rows(db, "rates") : r[2] = 1 /\ r[3] = "OPEN"
      BY <1>1, <3>1
    <3>3. \E r \in Rows(db, "rates") : r[3] = "OPEN"
      BY <1>1, <3>1
    <3>4. ASSUME NEW r \in Rows(db, "rates"), NEW s \in Rows(db, "rates")
          PROVE  s[2] <= r[2]
      <4>1. s[2] = 1 /\ r[2] = 1
        BY <3>2
      <4> QED
        BY <4>1
    <3> QED
      BY <3>3, <3>4 DEF RateBook
  <2> QED
    BY <2>1, <2>3, <2>4, <2>5 DEF DbInv
<1> QED
  BY <1>5, <1>6, <1>8, <1>9, <1>10 DEF WorkloadInv

LEMMA WorkloadInvStep == WorkloadInv /\ [Next]_vars => WorkloadInv'
<1> SUFFICES ASSUME WorkloadInv, [Next]_vars PROVE WorkloadInv'
  OBVIOUS
<1>1. ASSUME NEW w \in Workers, Step(w)
      PROVE  WorkloadInv'
  <2>1. CASE SkipEvent(w)
    BY <2>1, SkipEventStep
  <2>2. CASE BeginEvent(w)
    BY <2>2, BeginEventStep
  <2>3. CASE WakeUp(w)
    BY <2>3, WakeUpStep
  <2>4. CASE CommitEvent(w)
    BY <2>4, CommitEventStep
  <2>5. CASE FailEvent(w)
    BY <2>5, FailEventStep
  <2>6. CASE FailRun(w)
    BY <2>6, FailRunStep
  <2>7. CASE FinishRun(w)
    BY <2>7, FinishRunStep
  <2> QED
    BY <1>1, <2>1, <2>2, <2>3, <2>4, <2>5, <2>6, <2>7 DEF Step
<1>2. ASSUME NEW w \in Workers, Crash(w)
      PROVE  WorkloadInv'
  BY <1>2, CrashStep
<1>3. ASSUME NEW w \in Workers, NEW r \in Runs, StartRun(w, r)
      PROVE  WorkloadInv'
  BY <1>3, StartRunStep
<1>4. CASE UNCHANGED vars
  <2>1. db' = db /\ run' = run /\ ledger' = ledger /\ wal' = wal /\ worker' = worker
        /\ shared' = shared /\ faults' = faults
    BY <1>4 DEF vars
  <2>2. StateTypes' /\ WorkerInv' /\ Exclusive' /\ LedgerInv'
    BY <2>1 DEF WorkloadInv, StateTypes, WorkerInv, Exclusive, LedgerInv, IsAt, HasEvent, Key
  <2>3. ControlInv' /\ Claims'
    BY <2>1 DEF WorkloadInv, ControlInv, RunInv, WorkingOn, Claims, IsAt, Key
  <2>4. DbInv'
    BY <2>1 DEF WorkloadInv, DbInv, UniqueKeys, SnapshotFirst, IsLoaded, AddressBook, FixtureBook,
                LoanBook, RateBook, IsAt
  <2> QED
    BY <2>2, <2>3, <2>4 DEF WorkloadInv
<1> QED
  BY <1>1, <1>2, <1>3, <1>4 DEF Next

(* However many processes work on however many runs, whichever crash: what  *)
(* a process found when it locked its row still holds when it commits.      *)
THEOREM WorkloadInvariant == Spec => []WorkloadInv
BY InitWorkloadInv, WorkloadInvStep, PTL DEF Spec

LEMMA InvImpliesType == WorkloadInv => TypeOK
<1> SUFFICES ASSUME WorkloadInv PROVE TypeOK
  OBVIOUS
<1>1. run \in [Runs -> {"NONE", "RUNNING", "COMPLETED", "FAILED"}]
  BY DEF WorkloadInv, StateTypes, Statuses
<1>2. ASSUME NEW r \in Runs, NEW i \in DOMAIN Plan(r)
      PROVE  /\ ledger[r][i].status \in {"NONE", "RUNNING", "COMPLETED", "FAILED"}
             /\ ledger[r][i].txid \in 0 .. Len(wal[r][i])
  <2>1. ledger[r] \in Seq(EventRow) /\ i \in DOMAIN ledger[r]
    BY PlanType DEF WorkloadInv, StateTypes
  <2>2. ledger[r][i] \in EventRow
    BY <2>1
  <2> QED
    BY <2>2 DEF EventRow, Statuses, WorkloadInv, LedgerInv
<1>3. \A w \in Workers :
        /\ worker[w].pc \in {"idle", "next", "wait", "commit", "failing", "failed"}
        /\ worker[w].run \in Runs \cup {None}
  BY DEF WorkloadInv, StateTypes, WorkerRow, Busy
<1>4. \A p, q \in db : p[1] = q[1] /\ p[2] = q[2] => p = q
  BY DEF WorkloadInv, DbInv, UniqueKeys
<1> QED
  BY <1>1, <1>2, <1>3, <1>4 DEF TypeOK, WorkloadInv, StateTypes

(* Tables, ledger and processes are well formed.                            *)
THEOREM WorkloadTypeCorrect == Spec => []TypeOK
BY WorkloadInvariant, InvImpliesType, PTL

LEMMA InvImpliesHonest == WorkloadInv => CountsAreHonest
BY DEF WorkloadInv, LedgerInv, CountsAreHonest

(* The count a transaction declares is the number of rows it touched, for   *)
(* every number of customers, applications and installments.                *)
THEOREM DeclaredCountsAreHonest == Spec => []CountsAreHonest
BY WorkloadInvariant, InvImpliesHonest, PTL

LEMMA InvImpliesTracked == WorkloadInv => EveryChangeIsTracked
<1> SUFFICES ASSUME WorkloadInv, NEW r \in Runs \ shared, NEW i \in DOMAIN Plan(r), wal[r][i] # << >>
             PROVE  /\ ledger[r][i].status = "COMPLETED" /\ ledger[r][i].txid = 1
                    /\ Len(wal[r][i]) = 1
  BY DEF EveryChangeIsTracked
<1>1. RunInv(r)
  BY DEF WorkloadInv, ControlInv
<1> QED
  BY <1>1 DEF RunInv

(* A run that one process at a time works on carries out each scenario at   *)
(* most once, and the ledger names the transaction that did.                *)
THEOREM ChangesAreTracked == Spec => []EveryChangeIsTracked
BY WorkloadInvariant, InvImpliesTracked, PTL

LEMMA InvImpliesWhole == WorkloadInv => CompletedRunIsWhole
BY DEF WorkloadInv, ControlInv, RunInv, CompletedRunIsWhole

(* A completed run has carried out all its scenarios.                       *)
THEOREM CompletedRunsAreWhole == Spec => []CompletedRunIsWhole
BY WorkloadInvariant, InvImpliesWhole, PTL

LEMMA InvImpliesLoanBook == WorkloadInv => LoanBookIsSound
<1> SUFFICES ASSUME WorkloadInv PROVE LoanBookIsSound
  OBVIOUS
<1> USE DEF WorkloadInv
<1>1. db \subseteq DbRows
  BY DEF StateTypes
<1>2. ASSUME NEW r \in Rows(db, "loans")
      PROVE  /\ \E s \in Rows(db, "applications") : s[2] = ApplicationOf(r[2]) /\ s[3] = "APPROVED"
             /\ \A s \in Rows(db, "loans") : ApplicationOf(s[2]) = ApplicationOf(r[2]) => s = r
             /\ r[3] = "ACTIVE" => Cardinality(PendingInstallments(db, r[2])) >= 2
  <2>1. <<"applications", ApplicationOf(r[2]), "APPROVED">> \in db
    BY DEF DbInv, LoanBook
  <2>2. \E s \in Rows(db, "applications") : s[2] = ApplicationOf(r[2]) /\ s[3] = "APPROVED"
    BY <2>1, RowOf
  <2>3. \A s \in Rows(db, "loans") : ApplicationOf(s[2]) = ApplicationOf(r[2]) => s = r
    BY DEF DbInv, LoanBook
  <2>4. ASSUME r[3] = "ACTIVE"
        PROVE  Cardinality(PendingInstallments(db, r[2])) >= 2
    <3>1. PendingInstallments(db, r[2]) = 1 .. Installments
      BY <2>4 DEF DbInv, LoanBook
    <3>2. Installments \in Nat /\ Installments >= 2 /\ Cardinality(1 .. Installments) = Installments
      BY WorkloadAssumption, FiniteIds
    <3> QED
      BY <3>1, <3>2
  <2> QED
    BY <2>2, <2>3, <2>4
<1>3. Cardinality({r \in Rows(db, "rates") : r[3] = "OPEN"}) = 1
  <2>1. PICK r \in Rows(db, "rates") : r[3] = "OPEN"
    BY DEF DbInv, RateBook
  <2>2. ASSUME NEW s \in Rows(db, "rates"), s[3] = "OPEN"
        PROVE  s = r
    <3>1. s[2] <= r[2] /\ r[2] <= s[2]
      BY <2>1, <2>2 DEF DbInv, RateBook
    <3>2. s[2] \in Nat /\ r[2] \in Nat
      BY <1>1, RowShapes DEF Rows, RateIds
    <3>3. s[2] = r[2]
      BY <3>1, <3>2
    <3> QED
      BY <3>3 DEF DbInv, UniqueKeys, Rows
  <2>3. {s \in Rows(db, "rates") : s[3] = "OPEN"} = {r}
    BY <2>1, <2>2
  <2> QED
    BY <2>3, FS_Singleton
<1>4. ASSUME NEW r \in Rows(db, "customers")
      PROVE  Cardinality(OpenAddresses(db, r[2])) <= 1
  <2> DEFINE c == r[2]
             open == OpenAddresses(db, c)
  <2>1. \A a, b \in open : a = b
    <3>1. SUFFICES ASSUME NEW a \in open, NEW b \in open
                   PROVE  a = b
      OBVIOUS
    <3>2. /\ a \in db /\ b \in db /\ a[1] = "addresses" /\ b[1] = "addresses"
          /\ a[2][1] = c /\ b[2][1] = c /\ a[3] = "OPEN" /\ b[3] = "OPEN"
      BY DEF OpenAddresses, Rows
    <3>3. /\ a[2] = <<a[2][1], a[2][2]>> /\ b[2] = <<b[2][1], b[2][2]>>
          /\ a[2][2] \in {1, 2} /\ b[2][2] \in {1, 2}
      BY <1>1, <3>2, RowShapes
    <3>4. ~(<<"customers", c, "ACTIVE">> \in db /\ <<"customers", c, "PASSIVE">> \in db)
      <4> DEFINE x == <<"customers", c, "ACTIVE">>
                 y == <<"customers", c, "PASSIVE">>
      <4>1. x # y /\ x[1] = y[1] /\ x[2] = y[2]
        OBVIOUS
      <4> QED
        BY <4>1 DEF DbInv, UniqueKeys
    <3>5. a \in Rows(db, "addresses") /\ b \in Rows(db, "addresses")
      BY <3>2 DEF Rows
    <3>6. a[2][2] = b[2][2]
      BY <3>2, <3>3, <3>4, <3>5 DEF DbInv, AddressBook
    <3>7. a[2] = b[2]
      BY <3>2, <3>3, <3>6
    <3> QED
      BY <3>2, <3>7 DEF DbInv, UniqueKeys
  <2> HIDE DEF c, open
  <2>2. CASE open = {}
    <3>1. Cardinality(open) = 0
      BY <2>2, FS_EmptySet
    <3> QED
      BY <3>1 DEF open, c
  <2>3. CASE open # {}
    <3>1. PICK a \in open : open = {a}
      BY <2>1, <2>3
    <3>2. Cardinality(open) = 1
      BY <3>1, FS_Singleton
    <3> QED
      BY <3>2 DEF open, c
  <2> QED
    BY <2>2, <2>3
<1> QED
  BY <1>2, <1>3, <1>4 DEF LoanBookIsSound

(* What any mixture of runs leaves is a sound loan book: no loan without    *)
(* its approved application, no second loan, one open base rate.            *)
THEOREM LoanBookStaysSound == Spec => []LoanBookIsSound
BY WorkloadInvariant, InvImpliesLoanBook, PTL
=============================================================================
