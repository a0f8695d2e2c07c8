--------------------------- MODULE SourceWorkload ---------------------------
(***************************************************************************)
(* The synthetic workload of src/source/workload/workload.py: command-line  *)
(* processes that change the core-banking source and record, in the same    *)
(* transaction, what they changed in the ledger simulator.workload_events.  *)
(* Reconciliation later compares the CDC events of a batch with that        *)
(* ledger, so a wrong count or an unrecorded change fails an honest batch.  *)
(*                                                                          *)
(* A process carries out the scenarios of its run one after the other, one  *)
(* transaction each, and may die at any moment; its run id is used again to *)
(* resume.  Nothing keeps two processes from working on one run id, or two  *)
(* runs from picking the same row: a row selected FOR UPDATE makes the      *)
(* second wait, and after the wait the row may not qualify any more.        *)
(***************************************************************************)
EXTENDS Integers, Sequences, FiniteSets

CONSTANTS
    Mode,          \* the mode, or the fixture step, of each run id
    Workers,       \* processes
    None,          \* no run, no row
    Customers,     \* --customer-count
    Applications,  \* --application-count
    Installments,  \* --installments-per-loan
    MaxFaults      \* bound: crashes, and starts of a run that is being worked on

VARIABLES
    db,      \* the captured tables: rows <<table, key, value>>
    run,     \* simulator.workload_runs.status
    ledger,  \* simulator.workload_events
    wal,     \* per event, the rows its committed transactions touched
    worker,  \* the processes
    shared,  \* run ids two processes have worked on at once
    faults   \* crashes and shared starts so far

vars == <<db, run, ledger, wal, worker, shared, faults>>

Runs == DOMAIN Mode

Fixtures == {"setup", "delete"}

Changes == <<"customer_address_status_change", "secondary_contact_delete",
             "loan_application_approval", "installment_payment_and_delinquency",
             "base_rate_change">>

(* run_snapshot, run_changes, run_current_state_fixture.                    *)
Plan(r) ==
    CASE Mode[r] = "snapshot" -> <<"initial_snapshot">>
      [] Mode[r] = "changes" -> Changes
      [] OTHER -> <<Mode[r]>>

(* Rows a scenario may lock.                                                *)
RowNames == {"customers", "contacts", "applications", "loans", "rates"} \X Nat

EventKeys == {"initial_snapshot"} \cup {Changes[i] : i \in DOMAIN Changes} \cup Fixtures

ASSUME WorkloadAssumption ==
    /\ \A r \in Runs : Mode[r] \in {"snapshot", "changes"} \cup Fixtures
    /\ Customers \in Nat /\ Applications \in 1 .. Customers
    /\ Installments \in Nat /\ Installments >= 2
    /\ MaxFaults \in Nat
    /\ None \notin Runs /\ None \notin RowNames

Idle == [pc |-> "idle", run |-> None, at |-> 0, seen |-> {}, row |-> None]

-----------------------------------------------------------------------------
(* The source rows.  The numbers of the fixtures sort after the generated   *)
(* ones, a generated loan number after those of the snapshot.               *)
LIFECYCLE_CUSTOMER == Customers + 1
RELATION_CUSTOMER == Customers + 2
FIXTURE_APPLICATION == Applications + 1

Rows(d, table) == {r \in d : r[1] = table}

Applicant(a) ==
    IF a = FIXTURE_APPLICATION THEN RELATION_CUSTOMER ELSE ((a - 1) % Customers) + 1

GeneratedLoan(a) == FIXTURE_APPLICATION + a
ApplicationOf(l) == IF l <= Applications THEN l ELSE l - FIXTURE_APPLICATION

Decision(i) ==
    IF i % 5 = 0 THEN "REJECTED" ELSE IF i % 4 = 0 THEN "PENDING" ELSE "APPROVED"
Approved == {i \in 1 .. Applications : Decision(i) = "APPROVED"}
Secured == {i \in Approved : (i - 1) % 3 # 0}
Represented == {i \in 1 .. Customers - 1 : i % 20 = 10}

LoanRows(l) ==
    {<<"loans", l, "ACTIVE">>}
    \cup {<<"installments", <<l, n>>, "PENDING">> : n \in 1 .. Installments}

SnapshotRows ==
    {<<"customers", c, "ACTIVE">> : c \in 1 .. Customers}
    \cup {<<"addresses", <<c, 1>>, "OPEN">> : c \in 1 .. Customers}
    \cup {<<"contacts", <<c, type>>, "LIVE">> : c \in 1 .. Customers, type \in {"EMAIL", "PHONE"}}
    \cup {<<"relations", c, "LIVE">> : c \in Represented}
    \cup {<<"applications", i, Decision(i)>> : i \in 1 .. Applications}
    \cup (UNION {LoanRows(i) : i \in Approved})
    \cup {<<"collaterals", i, "ACTIVE">> : i \in Secured}

-----------------------------------------------------------------------------
(* The scenarios: what a transaction replaces, what it writes, and the      *)
(* _cdc_event_count it declares.  t is the row it has locked.               *)
Snapshot ==
    [gone |-> {}, new |-> SnapshotRows,
     count |-> Customers + Customers + 2 * Customers + Cardinality(Represented)
               + Applications + Cardinality(Approved) * (1 + Installments)
               + Cardinality(Secured)]

OpenAddresses(d, c) == {r \in Rows(d, "addresses") : r[2][1] = c /\ r[3] = "OPEN"}

(* Mutant: one closed address is taken for granted.                         *)
CustomerChangeOfThree(d, c) ==
    [gone |-> {<<"customers", c, "ACTIVE">>} \cup OpenAddresses(d, c),
     new |-> {<<"customers", c, "PASSIVE">>, <<"addresses", <<c, 2>>, "OPEN">>}
             \cup {<<"addresses", r[2], "CLOSED">> : r \in OpenAddresses(d, c)},
     count |-> 3]

CustomerChange(d, c) ==
    [gone |-> {<<"customers", c, "ACTIVE">>} \cup OpenAddresses(d, c),
     new |-> {<<"customers", c, "PASSIVE">>, <<"addresses", <<c, 2>>, "OPEN">>}
             \cup {<<"addresses", r[2], "CLOSED">> : r \in OpenAddresses(d, c)},
     count |-> 1 + Cardinality(OpenAddresses(d, c)) + 1]

ContactDelete(c) ==
    [gone |-> {<<"contacts", <<c, "PHONE">>, "LIVE">>}, new |-> {}, count |-> 1]

LoanApproval(a) ==
    [gone |-> {<<"applications", a, "PENDING">>},
     new |-> {<<"applications", a, "APPROVED">>} \cup LoanRows(GeneratedLoan(a)),
     count |-> 2 + Installments]

PendingInstallments(d, l) ==
    {n \in 1 .. Installments : <<"installments", <<l, n>>, "PENDING">> \in d}

Lowest(S) == CHOOSE n \in S : \A m \in S : n <= m
Highest(S) == CHOOSE n \in S : \A m \in S : n >= m

(* Mutant: the loan keeps its status.                                       *)
InstallmentChangeOnly(d, l) ==
    LET paid == Lowest(PendingInstallments(d, l))
        overdue == Lowest(PendingInstallments(d, l) \ {paid})
    IN [gone |-> {<<"installments", <<l, n>>, "PENDING">> : n \in {paid, overdue}},
        new |-> {<<"installments", <<l, paid>>, "PAID">>,
                 <<"installments", <<l, overdue>>, "OVERDUE">>},
        count |-> 2]

InstallmentChange(d, l) ==
    LET paid == Lowest(PendingInstallments(d, l))
        overdue == Lowest(PendingInstallments(d, l) \ {paid})
    IN [gone |-> {<<"loans", l, "ACTIVE">>}
                 \cup {<<"installments", <<l, n>>, "PENDING">> : n \in {paid, overdue}},
        new |-> {<<"installments", <<l, paid>>, "PAID">>,
                 <<"installments", <<l, overdue>>, "OVERDUE">>, <<"loans", l, "DELINQUENT">>},
        count |-> 3]

RateChange(n) ==
    [gone |-> {<<"rates", n, "OPEN">>},
     new |-> {<<"rates", n, "CLOSED">>, <<"rates", n + 1, "OPEN">>}, count |-> 2]

Setup ==
    [gone |-> {},
     new |-> {<<"customers", LIFECYCLE_CUSTOMER, "ACTIVE">>,
              <<"customers", RELATION_CUSTOMER, "ACTIVE">>, <<"applications", FIXTURE_APPLICATION, "PENDING">>},
     count |-> 3]

LifecycleRows(d) == {r \in Rows(d, "customers") : r[2] = LIFECYCLE_CUSTOMER}

Effect(e, d, t) ==
    CASE e = "initial_snapshot" -> Snapshot
      [] e = "customer_address_status_change" -> CustomerChange(d, t)
      [] e = "secondary_contact_delete" -> ContactDelete(t)
      [] e = "loan_application_approval" -> LoanApproval(t)
      [] e = "installment_payment_and_delinquency" -> InstallmentChange(d, t)
      [] e = "base_rate_change" -> RateChange(t)
      [] e = "setup" -> Setup
      [] e = "delete" -> [gone |-> LifecycleRows(d), new |-> {}, count |-> 1]

Touched(f) == {<<r[1], r[2]>> : r \in f.gone \cup f.new}

-----------------------------------------------------------------------------
(* Which row a scenario works on.                                           *)
TableOf(e) ==
    CASE e = "secondary_contact_delete" -> "contacts"
      [] e = "loan_application_approval" -> "applications"
      [] e = "installment_payment_and_delinquency" -> "loans"
      [] e = "base_rate_change" -> "rates"
      [] OTHER -> "customers"

Exists(d, c) == \E r \in Rows(d, "customers") : r[2] = c

(* The rows that satisfy the conditions on the row itself.  For an insert,  *)
(* the number that must still be free.                                      *)
Qualifying(e, d) ==
    CASE e = "initial_snapshot" -> {1} \ {r[2] : r \in Rows(d, "customers")}
      [] e = "customer_address_status_change" ->
            {r[2] : r \in {s \in Rows(d, "customers") : s[3] = "ACTIVE"}}
      [] e = "secondary_contact_delete" ->
            {r[2][1] : r \in {s \in Rows(d, "contacts") : s[2][2] = "PHONE"}}
      [] e = "loan_application_approval" ->
            {r[2] : r \in {s \in Rows(d, "applications") : s[3] = "PENDING"}}
      [] e = "installment_payment_and_delinquency" ->
            {r[2] : r \in {s \in Rows(d, "loans") : s[3] = "ACTIVE"}}
      [] e = "base_rate_change" -> {r[2] : r \in {s \in Rows(d, "rates") : s[3] = "OPEN"}}
      [] e = "setup" -> {c \in {LIFECYCLE_CUSTOMER} : ~ Exists(d, c)}
      [] e = "delete" -> {c \in {LIFECYCLE_CUSTOMER} : Exists(d, c)}

HasOpenLoan(d, c) ==
    \E r \in Rows(d, "loans") : r[3] # "CLOSED" /\ Applicant(ApplicationOf(r[2])) = c

(* What the scenario's query returns; it takes the first that qualifies.    *)
Candidates(e, d) ==
    CASE e = "initial_snapshot" -> {1}
      [] e = "customer_address_status_change" ->
            {c \in Qualifying(e, d) : ~ HasOpenLoan(d, c)}
      [] e = "setup" -> {c \in Qualifying(e, d) : ~ Exists(d, RELATION_CUSTOMER)}
      [] OTHER -> Qualifying(e, d)

First(e, S) ==
    IF e \in {"customer_address_status_change", "secondary_contact_delete"}
    THEN Highest(S) ELSE Lowest(S)

(* A second number taken, too few installments, a customer in use.          *)
Refused(e, d, t) ==
    \/ e = "setup" /\ Exists(d, RELATION_CUSTOMER)
    \/ /\ e = "installment_payment_and_delinquency"
       /\ Cardinality(PendingInstallments(d, t)) < 2
    \/ /\ e = "delete"
       /\ \E r \in Rows(d, "addresses") : r[2][1] = t

-----------------------------------------------------------------------------
NoEvent == [status |-> "NONE", count |-> 0, txid |-> 0]

Init ==
    /\ db = {<<"rates", 1, "OPEN">>}
    /\ run = [r \in Runs |-> "NONE"]
    /\ ledger = [r \in Runs |-> [i \in DOMAIN Plan(r) |-> NoEvent]]
    /\ wal = [r \in Runs |-> [i \in DOMAIN Plan(r) |-> <<>>]]
    /\ worker = [w \in Workers |-> Idle]
    /\ shared = {}
    /\ faults = 0

WorkingOn(r) == {w \in Workers : worker[w].run = r}
Key(w) == Plan(worker[w].run)[worker[w].at]
IsAt(w, pc) == worker[w].pc = pc
GoTo(w, pc) == worker' = [worker EXCEPT ![w].pc = pc]

(* Mutant: a run that exists is never started again.                        *)
MayStartRunOnce(r) == run[r] = "NONE"

(* A completed run is answered without a change.                            *)
MayStartRun(r) == run[r] # "COMPLETED"

StartRun(w, r) ==
    /\ IsAt(w, "idle")
    /\ MayStartRun(r)
    /\ Mode[r] # "snapshot" => Rows(db, "customers") # {}
    /\ WorkingOn(r) # {} => faults < MaxFaults
    /\ run' = [run EXCEPT ![r] = "RUNNING"]
    /\ worker' = [worker EXCEPT ![w] = [Idle EXCEPT !.pc = "next", !.run = r, !.at = 1]]
    /\ shared' = IF WorkingOn(r) = {} THEN shared ELSE shared \cup {r}
    /\ faults' = IF WorkingOn(r) = {} THEN faults ELSE faults + 1
    /\ UNCHANGED <<db, ledger, wal>>

HasEvent(w) == worker[w].at \in DOMAIN Plan(worker[w].run)

(* Mutant: a completed event is carried out again.                          *)
NeverSkip(w) == FALSE

IsCompleted(w) == ledger[worker[w].run][worker[w].at].status = "COMPLETED"

SkipEvent(w) ==
    /\ IsAt(w, "next") /\ HasEvent(w) /\ IsCompleted(w)
    /\ worker' = [worker EXCEPT ![w].at = @ + 1]
    /\ UNCHANGED <<db, run, ledger, wal, shared, faults>>

LockedByOthers(w) ==
    {worker[v].row : v \in {u \in Workers \ {w} : worker[u].row # None}}

RowName(e, t) == <<TableOf(e), t>>

(* The rows of an answer that are locked, or still qualify.                 *)
Held(w, found) == {t \in found : RowName(Key(w), t) \in LockedByOthers(w)}
Left(w, found) == Held(w, found) \cup (found \cap Qualifying(Key(w), db))

(* The action's query, SELECT ... FOR UPDATE: lock the first row of the     *)
(* answer, wait for it when another transaction holds it and look at it     *)
(* again then, go on to the next when it no longer qualifies, and raise     *)
(* when none is left.                                                       *)
Query(w, found) ==
    LET e == Key(w)
        t == First(e, Left(w, found))
    IN worker' = [worker EXCEPT ![w] =
         IF Left(w, found) = {} THEN [@ EXCEPT !.pc = "failing", !.seen = {}]
         ELSE IF t \in Held(w, found) THEN [@ EXCEPT !.pc = "wait", !.seen = found]
         ELSE IF Refused(e, db, t) THEN [@ EXCEPT !.pc = "failing", !.seen = {}]
         ELSE [@ EXCEPT !.pc = "commit", !.seen = {}, !.row = RowName(e, t)]]

(* The row is marked RUNNING and committed, then the action starts; nobody  *)
(* reads RUNNING, so the two are one step.                                  *)
BeginEvent(w) ==
    /\ IsAt(w, "next") /\ HasEvent(w) /\ ~ IsCompleted(w)
    /\ ledger' = [ledger EXCEPT ![worker[w].run][worker[w].at].status = "RUNNING"]
    /\ Query(w, Candidates(Key(w), db))
    /\ UNCHANGED <<db, run, wal, shared, faults>>

(* The transaction that was waited for has ended.                           *)
WakeUp(w) ==
    /\ IsAt(w, "wait")
    /\ LET left == Left(w, worker[w].seen) IN
       left # {} => First(Key(w), left) \notin Held(w, worker[w].seen)
    /\ Query(w, worker[w].seen)
    /\ UNCHANGED <<db, run, ledger, wal, shared, faults>>

(* The changes and the ledger row, in one transaction.                      *)
CommitEvent(w) ==
    /\ IsAt(w, "commit")
    /\ LET r == worker[w].run
           f == Effect(Key(w), db, worker[w].row[2])
       IN /\ db' = (db \ f.gone) \cup f.new
          /\ wal' = [wal EXCEPT ![r][worker[w].at] = Append(@, Touched(f))]
          /\ ledger' = [ledger EXCEPT ![r][worker[w].at] =
                          [status |-> "COMPLETED", count |-> f.count,
                           txid |-> Len(wal[r][worker[w].at]) + 1]]
          /\ worker' = [worker EXCEPT ![w].pc = "next", ![w].at = @ + 1, ![w].row = None]
    /\ UNCHANGED <<run, shared, faults>>

(* Mutant: the error is recorded and the next event is tried.               *)
FailEventAndGoOn(w) ==
    /\ IsAt(w, "failing")
    /\ ledger' = [ledger EXCEPT ![worker[w].run][worker[w].at].status = "FAILED"]
    /\ worker' = [worker EXCEPT ![w].pc = "next", ![w].at = @ + 1]
    /\ UNCHANGED <<db, run, wal, shared, faults>>

(* The handler of execute_event: whatever the row says by now.              *)
FailEvent(w) ==
    /\ IsAt(w, "failing")
    /\ ledger' = [ledger EXCEPT ![worker[w].run][worker[w].at].status = "FAILED"]
    /\ GoTo(w, "failed")
    /\ UNCHANGED <<db, run, wal, shared, faults>>

FailRun(w) ==
    /\ IsAt(w, "failed")
    /\ run' = [run EXCEPT ![worker[w].run] = "FAILED"]
    /\ worker' = [worker EXCEPT ![w] = Idle]
    /\ UNCHANGED <<db, ledger, wal, shared, faults>>

(* Mutant: a status the CHECK constraint of workload_runs does not list.    *)
FinishRunAsDone(w) ==
    /\ IsAt(w, "next") /\ ~ HasEvent(w)
    /\ run' = [run EXCEPT ![worker[w].run] = "DONE"]
    /\ worker' = [worker EXCEPT ![w] = Idle]
    /\ UNCHANGED <<db, ledger, wal, shared, faults>>

FinishRun(w) ==
    /\ IsAt(w, "next") /\ ~ HasEvent(w)
    /\ run' = [run EXCEPT ![worker[w].run] = "COMPLETED"]
    /\ worker' = [worker EXCEPT ![w] = Idle]
    /\ UNCHANGED <<db, ledger, wal, shared, faults>>

(* The process or its connection is lost; its transaction is rolled back.   *)
Crash(w) ==
    /\ ~ IsAt(w, "idle")
    /\ faults < MaxFaults
    /\ faults' = faults + 1
    /\ worker' = [worker EXCEPT ![w] = Idle]
    /\ UNCHANGED <<db, run, ledger, wal, shared>>

-----------------------------------------------------------------------------
Step(w) ==
    \/ SkipEvent(w) \/ BeginEvent(w) \/ WakeUp(w) \/ CommitEvent(w)
    \/ FailEvent(w) \/ FailRun(w) \/ FinishRun(w)

Next ==
    \/ \E w \in Workers : Step(w) \/ Crash(w)
    \/ \E w \in Workers, r \in Runs : StartRun(w, r)

(* A process that is not killed goes on, and somebody starts every run that *)
(* is not completed again and again.                                        *)
Fairness ==
    /\ \A w \in Workers : WF_vars(Step(w))
    /\ \A r \in Runs : SF_vars(\E w \in Workers : StartRun(w, r))

Spec == Init /\ [][Next]_vars /\ Fairness

-----------------------------------------------------------------------------
(* Tables, ledger and processes are well formed.                            *)
TypeOK ==
    /\ run \in [Runs -> {"NONE", "RUNNING", "COMPLETED", "FAILED"}]
    /\ \A r \in Runs : \A i \in DOMAIN Plan(r) :
        /\ ledger[r][i].status \in {"NONE", "RUNNING", "COMPLETED", "FAILED"}
        /\ ledger[r][i].txid \in 0 .. Len(wal[r][i])
    /\ \A p, q \in db : p[1] = q[1] /\ p[2] = q[2] => p = q
    /\ \A w \in Workers :
        /\ worker[w].pc \in {"idle", "next", "wait", "commit", "failing", "failed"}
        /\ worker[w].run \in Runs \cup {None}
    /\ shared \subseteq Runs
    /\ faults \in 0 .. MaxFaults

(* The ledger declares of each transaction as many CDC events as it changed *)
(* rows, whichever row a scenario finds: a customer of the fixtures has no  *)
(* address to close, an approved loan more installments than another.       *)
CountsAreHonest ==
    \A r \in Runs : \A i \in DOMAIN Plan(r) :
        ledger[r][i].txid # 0 =>
            ledger[r][i].count = Cardinality(wal[r][i][ledger[r][i].txid])

(* Every transaction that changed the source is in the ledger, completed    *)
(* under its own id: through crashes and resumed runs no scenario is        *)
(* carried out twice and no change is untracked.  It takes two processes on *)
(* one run id to break this.                                                *)
EveryChangeIsTracked ==
    \A r \in Runs \ shared : \A i \in DOMAIN Plan(r) :
        wal[r][i] # <<>> =>
            /\ ledger[r][i].status = "COMPLETED"
            /\ ledger[r][i].txid = 1
            /\ Len(wal[r][i]) = 1

(* A completed run has carried out all its scenarios.                       *)
CompletedRunIsWhole ==
    \A r \in Runs \ shared : run[r] = "COMPLETED" =>
        \A i \in DOMAIN Plan(r) : ledger[r][i].status = "COMPLETED"

(* What the scenarios of any mixture of runs leave is a sound loan book:    *)
(* loans belong to approved applications, one loan each; a loan that is     *)
(* still active has the two pending installments the payment scenario       *)
(* needs; one base rate is open; a customer has one open address at most.   *)
LoanBookIsSound ==
    /\ \A r \in Rows(db, "loans") :
        /\ \E s \in Rows(db, "applications") :
            s[2] = ApplicationOf(r[2]) /\ s[3] = "APPROVED"
        /\ \A s \in Rows(db, "loans") : ApplicationOf(s[2]) = ApplicationOf(r[2]) => s = r
        /\ r[3] = "ACTIVE" => Cardinality(PendingInstallments(db, r[2])) >= 2
    /\ Cardinality({r \in Rows(db, "rates") : r[3] = "OPEN"}) = 1
    /\ \A r \in Rows(db, "customers") : Cardinality(OpenAddresses(db, r[2])) <= 1

(* The first scenario of a run that is not completed finds nothing to do.   *)
Unfinished(r) == {i \in DOMAIN Plan(r) : ledger[r][i].status # "COMPLETED"}
HasNothingToDo(r) ==
    /\ Unfinished(r) # {}
    /\ LET e == Plan(r)[Lowest(Unfinished(r))] IN
       \A t \in Candidates(e, db) : t \notin Qualifying(e, db) \/ Refused(e, db, t)

(* In the end every run is completed, and stays so, or the source has no    *)
(* row for the scenario it is at: a crash, a wait or a lost race delays a   *)
(* run and never strands it half done.                                      *)
RunsSettle == <>[](\A r \in Runs : run[r] = "COMPLETED" \/ HasNothingToDo(r))
=============================================================================
