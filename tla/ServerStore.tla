---------------------------- MODULE ServerStore ------------------------------
(***************************************************************************)
(* The server's store (internal/store): opening it, with the migrations    *)
(* statement by statement, and what is recorded in it, by server processes *)
(* that fail or crash at any point and that overlap as two servers do      *)
(* while one replaces the other.                                           *)
(*                                                                         *)
(* SQLite is external: one writer at a time, which works on a copy that    *)
(* commits as a whole or not at all; a reader sees what is committed.  A   *)
(* transaction takes the writer's lock with its first statement, so what a *)
(* process has read before may be out of date by then.                     *)
(***************************************************************************)
EXTENDS Naturals, Sequences

CONSTANTS
  Proc,        \* server processes; one that has ended may be started again
  Job,         \* job identifiers
  JobState,    \* a job's states; the store takes whichever its caller supplies
  Token,       \* enrollment tokens
  MaxAudit,    \* audit records appended in a run
  MaxFaults,   \* crashes and failed calls in a run
  None

ASSUME StoreAssumption ==
  None \notin Proc \cup Job \cup Token /\ MaxAudit \in Nat /\ MaxFaults \in Nat

Table == {"agents", "enrollment", "jobs", "results", "audit", "audit_v2"}
Index == {"audit_job_time", "jobs_state"}
ASSUME NoneAssumption == None \notin JobState

\* An audit record: its time, and whether it names its actor's uid.
AuditRow == [n : 0..MaxAudit, uid : BOOLEAN]

\* A table's shape is the version that gave it its columns, 0 if there is none.
Database == [shape : [Table -> 0..4], index : [Index -> Table \cup {None}],
             ver : SUBSET (1..4), tokens : SUBSET Token, audit : SUBSET AuditRow,
             old : SUBSET AuditRow, jobs : [Job -> JobState \cup {None}],
             results : [Job -> JobState \cup {None}]]

----------------------------------------------------------------------------
(* The migrations, as statements.                                          *)

Create(t, v) == [op |-> "create", t |-> t, v |-> v]
Drop(t) == [op |-> "drop", t |-> t]
AddColumns(t, v) == [op |-> "columns", t |-> t, v |-> v]
IndexOn(i, t) == [op |-> "index", i |-> i, t |-> t]
RenameAudit == [op |-> "rename"]
CopyAudit == [op |-> "copy"]
Version(v) == [op |-> "version", v |-> v]

migrations ==
  << << Create("agents", 1), Create("enrollment", 1), Create("jobs", 1),
        Create("results", 1), Create("audit", 1), Version(1) >>,
     << IndexOn("audit_job_time", "audit"), IndexOn("jobs_state", "jobs"), Version(2) >>,
     << RenameAudit, Create("audit", 3), CopyAudit, Drop("audit_v2"),
        IndexOn("audit_job_time", "audit"), Version(3) >>,
     << Drop("enrollment"), Create("enrollment", 4), AddColumns("agents", 4), Version(4) >> >>

\* Mutant of Accepts: the version row is inserted OR IGNORE.
AcceptsAgain(d, s) ==
  CASE s.op = "create"  -> d.shape[s.t] = 0
    [] s.op = "drop"    -> d.shape[s.t] # 0
    [] s.op = "columns" -> d.shape[s.t] \notin {0, s.v}
    [] s.op = "index"   -> d.index[s.i] = None /\ d.shape[s.t] # 0
    [] s.op = "rename"  -> d.shape["audit"] # 0 /\ d.shape["audit_v2"] = 0
    [] s.op = "copy"    -> d.shape["audit"] # 0 /\ d.shape["audit_v2"] # 0
    [] s.op = "version" -> TRUE

\* SQLite refuses what exists already, what does not exist, and a second row of
\* one primary key.
Accepts(d, s) ==
  CASE s.op = "create"  -> d.shape[s.t] = 0
    [] s.op = "drop"    -> d.shape[s.t] # 0
    [] s.op = "columns" -> d.shape[s.t] \notin {0, s.v}
    [] s.op = "index"   -> d.index[s.i] = None /\ d.shape[s.t] # 0
    [] s.op = "rename"  -> d.shape["audit"] # 0 /\ d.shape["audit_v2"] = 0
    [] s.op = "copy"    -> d.shape["audit"] # 0 /\ d.shape["audit_v2"] # 0
    [] s.op = "version" -> s.v \notin d.ver

\* A table takes its rows and its indexes with it.  The columns that migration 3
\* copies do not include the actor's uid.
Effect(d, s) ==
  CASE s.op \in {"create", "columns"} -> [d EXCEPT !.shape[s.t] = s.v]
    [] s.op = "drop" ->
         [d EXCEPT !.shape[s.t] = 0,
                   !.index = [i \in Index |-> IF @[i] = s.t THEN None ELSE @[i]],
                   !.tokens = IF s.t = "enrollment" THEN {} ELSE @,
                   !.old = IF s.t = "audit_v2" THEN {} ELSE @]
    [] s.op = "index" -> [d EXCEPT !.index[s.i] = s.t]
    [] s.op = "rename" ->
         [d EXCEPT !.shape["audit"] = 0, !.shape["audit_v2"] = d.shape["audit"],
                   !.index = [i \in Index |-> IF @[i] = "audit" THEN "audit_v2" ELSE @[i]],
                   !.old = d.audit, !.audit = {}]
    [] s.op = "copy" -> [d EXCEPT !.audit = {[n |-> r.n, uid |-> FALSE] : r \in d.old}]
    [] s.op = "version" -> [d EXCEPT !.ver = @ \cup {s.v}]

\* What each version's tables and indexes are, as the store's readers take them.
ShapeAt(k) ==
  [t \in Table |->
     CASE k = 0 \/ t = "audit_v2" -> 0
       [] t = "enrollment" /\ k = 4 -> 4
       [] t = "agents" /\ k = 4 -> 4
       [] t = "audit" /\ k >= 3 -> 3
       [] OTHER -> 1]
IndexAt(k) ==
  [i \in Index |-> IF k < 2 THEN None ELSE IF i = "jobs_state" THEN "jobs" ELSE "audit"]

----------------------------------------------------------------------------
VARIABLES
  db,       \* what is committed
  work,     \* the writer's copy
  writer,   \* the process whose transaction holds the lock
  at,       \* where each process is
  mig,      \* the migration each is at
  stmt,     \* the statement of its transaction that is next
  result,   \* the result each is recording
  told,     \* tokens and audit records whose caller was told they are recorded
  accepted, \* the state each job's caller was told it is accepted in
  floor,    \* the latest time RetainAudit was given
  last,     \* the time of the last audit record
  faults    \* crashes and failed calls so far

vars == <<db, work, writer, at, mig, stmt, result, told, accepted, floor, last, faults>>

StoreTypeOK ==
  /\ db \in Database /\ work \in Database
  /\ writer \in Proc \cup {None}
  /\ at \in [Proc -> {"down", "check", "migrate", "open", "result"}]
  /\ mig \in [Proc -> 1..4]
  /\ stmt \in [Proc -> 1..7]
  /\ result \in [Proc -> [job : Job \cup {None}, state : JobState \cup {None}]]
  /\ told \in [tokens : SUBSET Token, audit : SUBSET AuditRow]
  /\ accepted \in [Job -> JobState \cup {None}]
  /\ floor \in 0..MaxAudit /\ last \in 0..MaxAudit
  /\ faults \in 0..MaxFaults

\* A store that is new, or that an earlier build left at its last version with a
\* record in it.
StoreAt(k) ==
  [shape |-> ShapeAt(k), index |-> IndexAt(k), ver |-> 1..k, tokens |-> {},
   audit |-> IF k = 0 THEN {} ELSE {[n |-> 0, uid |-> FALSE]}, old |-> {},
   jobs |-> [j \in Job |-> None], results |-> [j \in Job |-> None]]

Init ==
  /\ db \in {StoreAt(k) : k \in 0..4}
  /\ work = db /\ writer = None
  /\ at = [p \in Proc |-> "down"]
  /\ mig = [p \in Proc |-> 1]
  /\ stmt = [p \in Proc |-> 1]
  /\ result = [p \in Proc |-> [job |-> None, state |-> None]]
  /\ told = [tokens |-> {}, audit |-> db.audit]
  /\ accepted = [j \in Job |-> None]
  /\ floor = 0 /\ last = 0 /\ faults = 0

Goto(p, l) == at' = [at EXCEPT ![p] = l]
records == <<told, accepted, floor, last>>

----------------------------------------------------------------------------
(* Open and migrate.                                                       *)

\* open, up to the loop of migrate.  Creating schema_migrations asks for the lock
\* only when it is not there, and then no other process has come to a migration.
Open(p) ==
  /\ at[p] = "down"
  /\ Goto(p, "check")
  /\ mig' = [mig EXCEPT ![p] = 1]
  /\ UNCHANGED <<db, work, writer, stmt, result, records, faults>>

\* Mutant of NextMigration: the loop runs past the last one.
NextMigrationPast(p) == Goto(p, "check") /\ mig' = [mig EXCEPT ![p] = @ + 1]

\* The loop goes on, and after the last migration the store is validated and open.
NextMigration(p) ==
  IF mig[p] < Len(migrations)
  THEN Goto(p, "check") /\ mig' = [mig EXCEPT ![p] = @ + 1]
  ELSE Goto(p, "open") /\ UNCHANGED mig

\* The loop's SELECT, outside the transaction.
CheckApplied(p) ==
  /\ at[p] = "check"
  /\ \/ mig[p] \in db.ver /\ NextMigration(p) /\ UNCHANGED stmt
     \/ mig[p] \notin db.ver /\ Goto(p, "migrate") /\ stmt' = [stmt EXCEPT ![p] = 1]
                             /\ UNCHANGED mig
  /\ UNCHANGED <<db, work, writer, result, records, faults>>

\* A process's transaction, if it has one, is undone.
Rollback(p) ==
  IF writer = p THEN writer' = None /\ work' = db ELSE UNCHANGED <<writer, work>>

\* Mutant of RunStatement: there is no transaction.
RunStatementAlone(p) ==
  /\ at[p] = "migrate"
  /\ writer = None
  /\ stmt[p] <= Len(migrations[mig[p]])
  /\ LET s == migrations[mig[p]][stmt[p]]
     IN  IF Accepts(db, s)
         THEN db' = Effect(db, s) /\ work' = db' /\ stmt' = [stmt EXCEPT ![p] = @ + 1]
              /\ UNCHANGED at
         ELSE Goto(p, "down") /\ UNCHANGED <<db, work, stmt>>
  /\ UNCHANGED <<mig, writer, result, records, faults>>

\* The next statement of the migration, its version row the last; one that is
\* refused rolls all of them back, and open fails.
RunStatement(p) ==
  /\ at[p] = "migrate"
  /\ writer \in {p, None}
  /\ stmt[p] <= Len(migrations[mig[p]])
  /\ LET d == IF writer = p THEN work ELSE db
         s == migrations[mig[p]][stmt[p]]
     IN  IF Accepts(d, s)
         THEN work' = Effect(d, s) /\ writer' = p /\ stmt' = [stmt EXCEPT ![p] = @ + 1]
              /\ UNCHANGED at
         ELSE Goto(p, "down") /\ Rollback(p) /\ UNCHANGED stmt
  /\ UNCHANGED <<db, mig, result, records, faults>>

CommitMigration(p) ==
  /\ at[p] = "migrate"
  /\ stmt[p] > Len(migrations[mig[p]])
  /\ db' = work /\ writer' = None
  /\ NextMigration(p)
  /\ UNCHANGED <<work, stmt, result, records, faults>>

\* SQLITE_BUSY: another process's transaction holds the lock.
Busy(p) ==
  /\ at[p] \in {"check", "migrate"}
  /\ writer \notin {p, None}
  /\ Goto(p, "down")
  /\ UNCHANGED <<db, work, writer, mig, stmt, result, records, faults>>

\* Any call fails, migrate's injected failure included, or the process dies: a
\* transaction it had is rolled back.
Fails(p) ==
  /\ at[p] # "down"
  /\ faults < MaxFaults
  /\ faults' = faults + 1
  /\ Goto(p, "down")
  /\ Rollback(p)
  /\ UNCHANGED <<db, mig, stmt, result, records>>

----------------------------------------------------------------------------
(* The operations.                                                         *)

\* An operation of an open store that is one statement, or one transaction of
\* which no part can be refused once the first has been accepted.
Write(p, d) ==
  /\ at[p] = "open"
  /\ writer = None
  /\ db' = d /\ work' = d
  /\ UNCHANGED <<writer, at, mig, stmt, result, faults>>

NewRow == [n |-> last + 1, uid |-> TRUE]

AppendAuditRecord(p) ==
  /\ last < MaxAudit
  /\ Write(p, [db EXCEPT !.audit = @ \cup {NewRow}])
  /\ told' = [told EXCEPT !.audit = @ \cup {NewRow}]
  /\ last' = last + 1
  /\ UNCHANGED <<accepted, floor>>

\* A token and its audit record, in one transaction.
IssueEnrollment(p, t) ==
  /\ t \notin db.tokens
  /\ last < MaxAudit
  /\ Write(p, [db EXCEPT !.tokens = @ \cup {t}, !.audit = @ \cup {NewRow}])
  /\ told' = [tokens |-> told.tokens \cup {t}, audit |-> told.audit \cup {NewRow}]
  /\ last' = last + 1
  /\ UNCHANGED <<accepted, floor>>

RetainAudit(p, before) ==
  /\ Write(p, [db EXCEPT !.audit = {r \in @ : r.n >= before}])
  /\ floor' = IF before > floor THEN before ELSE floor
  /\ UNCHANGED <<told, accepted, last>>

RecordAcceptedRequest(p, j, state) ==
  /\ db.jobs[j] = None
  /\ Write(p, [db EXCEPT !.jobs[j] = state])
  /\ accepted' = [accepted EXCEPT ![j] = state]
  /\ UNCHANGED <<told, floor, last>>

\* RecordResult: the job's state first, if there is such a job,
UpdateJob(p, j, state) ==
  /\ at[p] = "open"
  /\ writer = None
  /\ db.jobs[j] # None
  /\ work' = [db EXCEPT !.jobs[j] = state]
  /\ writer' = p
  /\ result' = [result EXCEPT ![p] = [job |-> j, state |-> state]]
  /\ Goto(p, "result")
  /\ UNCHANGED <<db, mig, stmt, records, faults>>

\* Mutant of InsertResult: the two are no transaction.
InsertResultAlone(p) ==
  /\ at[p] = "result"
  /\ LET j == result[p].job
     IN  db' = IF db.results[j] = None THEN [work EXCEPT !.results[j] = result[p].state]
                                       ELSE work
  /\ work' = db' /\ writer' = None
  /\ Goto(p, "open")
  /\ UNCHANGED <<mig, stmt, result, records, faults>>

\* then the result; a job that has one already keeps it, and its state.
InsertResult(p) ==
  /\ at[p] = "result"
  /\ LET j == result[p].job
     IN  db' = IF work.results[j] = None THEN [work EXCEPT !.results[j] = result[p].state]
                                         ELSE db
  /\ work' = db' /\ writer' = None
  /\ Goto(p, "open")
  /\ UNCHANGED <<mig, stmt, result, records, faults>>

----------------------------------------------------------------------------
OpenStep(p) ==
  Open(p) \/ CheckApplied(p) \/ RunStatement(p) \/ CommitMigration(p) \/ InsertResult(p)

Operation(p) ==
  \/ AppendAuditRecord(p)
  \/ \E t \in Token : IssueEnrollment(p, t)
  \/ \E n \in 1..MaxAudit : RetainAudit(p, n)
  \/ \E j \in Job, s \in JobState : RecordAcceptedRequest(p, j, s) \/ UpdateJob(p, j, s)

Next == \E p \in Proc : OpenStep(p) \/ Operation(p) \/ Busy(p) \/ Fails(p)

\* Processes run, and one that has ended is started again.
Fairness == \A p \in Proc : WF_vars(OpenStep(p))

Spec == Init /\ [][Next]_vars
FairSpec == Spec /\ Fairness

----------------------------------------------------------------------------
\* AC-2: a migration interrupted anywhere, or begun by two servers, leaves the
\* store at its last complete step, with that step's tables and indexes (migrate).
StepComplete ==
  \E k \in 0..4 : db.ver = 1..k /\ db.shape = ShapeAt(k) /\ db.index = IndexAt(k)

\* What a caller was told is recorded is there with its actor until RetainAudit is
\* given a later time, although a server that has read an old version list begins
\* the migrations that drop and copy its table again (migrate).
RecordsSurvive ==
  /\ told.tokens \subseteq db.tokens
  /\ \A r \in told.audit : r.n >= floor => r \in db.audit

\* AC-7: a job's state and its result commit together.  A job with a result is in
\* that result's state, and one without is as it was accepted, whichever results
\* came second, failed half-way or raced (RecordAcceptedRequest, RecordResult).
TerminalWithResult ==
  \A j \in Job :
    db.jobs[j] = IF db.results[j] # None THEN db.results[j] ELSE accepted[j]

\* ADR-0008 section 5: the next start resumes where the last one stopped.  Once
\* calls no longer fail and results no longer take the lock, every server comes to
\* have its store open at the last version, whatever the migrations of the other
\* have done to its own (open, migrate).
Opens ==
  <>[](\A p \in Proc : at[p] # "result") =>
    <>[](\A p \in Proc : at[p] = "open" /\ db.ver = 1..Len(migrations))
=============================================================================
