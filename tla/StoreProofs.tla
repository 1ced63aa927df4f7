---------------------------- MODULE StoreProofs ------------------------------
(***************************************************************************)
(* Proofs about the server's store (ServerStore), for any processes, jobs, *)
(* tokens and number of faults: the committed store is always at its last  *)
(* complete migration, loses nothing that a caller was told is recorded,   *)
(* and has a job in its result's state or in that it was accepted in.      *)
(*                                                                         *)
(* The argument is about the writer's copy.  A migration that is due makes *)
(* of it, statement by statement, what the next version is (Within).  One  *)
(* that another process has applied meanwhile may do anything to it, the   *)
(* audit records lose their actors and the tokens their table, but it is   *)
(* never committed: its version row is there already, and is the last to   *)
(* be inserted.                                                            *)
(***************************************************************************)
EXTENDS ServerStore, TLAPS

\* The tables and the indexes after the first i statements of migration m.
ShapeIn(m, i) ==
  [t \in Table |->
     IF m = 1
     THEN IF \/ t = "agents" /\ i >= 1
             \/ t = "enrollment" /\ i >= 2
             \/ t = "jobs" /\ i >= 3
             \/ t = "results" /\ i >= 4
             \/ t = "audit" /\ i >= 5
          THEN 1 ELSE 0
     ELSE IF m = 3 /\ t = "audit" /\ i >= 1 THEN (IF i = 1 THEN 0 ELSE 3)
     ELSE IF m = 3 /\ t = "audit_v2" THEN (IF i \in 1..3 THEN 1 ELSE 0)
     ELSE IF m = 4 /\ t = "enrollment" /\ i >= 1 THEN (IF i = 1 THEN 0 ELSE 4)
     ELSE IF m = 4 /\ t = "agents" /\ i >= 3 THEN 4
     ELSE ShapeAt(m - 1)[t]]

IndexIn(m, i) ==
  [x \in Index |->
     IF m = 2 /\ x = "audit_job_time" /\ i >= 1 THEN "audit"
     ELSE IF m = 2 /\ x = "jobs_state" /\ i >= 2 THEN "jobs"
     ELSE IF m = 3 /\ x = "audit_job_time" /\ i \in 1..3 THEN "audit_v2"
     ELSE IF m = 3 /\ x = "audit_job_time" /\ i = 4 THEN None
     ELSE IndexAt(m - 1)[x]]

\* w is what the first i statements of migration m make of d: the audit records are
\* in the renamed table between its renaming and the copy, and in their own otherwise.
Within(d, w, m, i) ==
  /\ w.shape = ShapeIn(m, i) /\ w.index = IndexIn(m, i)
  /\ w.jobs = d.jobs /\ w.results = d.results
  /\ IF m = 3 /\ i \in {1, 2} THEN w.old = d.audit ELSE w.audit = d.audit

\* No audit record of d names its actor.
Actorless(d) == \A r \in d.audit : r = [n |-> r.n, uid |-> FALSE]

\* Before the last migration nothing was recorded that names an actor, and no token.
NothingEarly == db.ver # 1..4 => told.tokens = {} /\ Actorless(db)

\* A process has found or committed every migration before the one it is at.
VersionsBehind ==
  \A p \in Proc :
    /\ at[p] \in {"check", "migrate"} => 1..(mig[p] - 1) \subseteq db.ver
    /\ at[p] \in {"open", "result"} => db.ver = 1..4

\* The lock is held from a transaction's first statement to its end.
LockHeld ==
  /\ \A p \in Proc : writer = p <=> at[p] = "result" \/ (at[p] = "migrate" /\ stmt[p] > 1)
  /\ \A p \in Proc : at[p] = "migrate" => stmt[p] <= Len(migrations[mig[p]]) + 1

\* What the writer's copy is in a migration, and in RecordResult.
Migrating(p) ==
  /\ stmt[p] <= Len(migrations[mig[p]]) => work.ver = db.ver
  /\ stmt[p] > Len(migrations[mig[p]]) => mig[p] \notin db.ver /\ work.ver = db.ver \cup {mig[p]}
  /\ mig[p] \notin db.ver => Within(db, work, mig[p], stmt[p] - 1)

Recording(p) ==
  /\ result[p].job \in Job /\ result[p].state \in JobState
  /\ work = [db EXCEPT !.jobs[result[p].job] = result[p].state]

CopyKnown ==
  \A p \in Proc : writer = p => /\ at[p] = "migrate" => Migrating(p)
                                /\ at[p] = "result" => Recording(p)

DInv == /\ StoreTypeOK /\ StepComplete /\ RecordsSurvive /\ TerminalWithResult
        /\ NothingEarly /\ VersionsBehind /\ LockHeld /\ CopyKnown
----------------------------------------------------------------------------
(* The statements.                                                         *)

\* How many there are of each migration (migrations).
LEMMA MigrationLengths ==
  /\ Len(migrations) = 4
  /\ Len(migrations[1]) = 6 /\ Len(migrations[2]) = 3
  /\ Len(migrations[3]) = 6 /\ Len(migrations[4]) = 4
  BY DEF migrations

\* What they are, in their order (migrations).
LEMMA MigrationStatements ==
  /\ migrations[1][1] = Create("agents", 1) /\ migrations[1][2] = Create("enrollment", 1)
  /\ migrations[1][3] = Create("jobs", 1) /\ migrations[1][4] = Create("results", 1)
  /\ migrations[1][5] = Create("audit", 1) /\ migrations[1][6] = Version(1)
  /\ migrations[2][1] = IndexOn("audit_job_time", "audit")
  /\ migrations[2][2] = IndexOn("jobs_state", "jobs") /\ migrations[2][3] = Version(2)
  /\ migrations[3][1] = RenameAudit /\ migrations[3][2] = Create("audit", 3)
  /\ migrations[3][3] = CopyAudit /\ migrations[3][4] = Drop("audit_v2")
  /\ migrations[3][5] = IndexOn("audit_job_time", "audit") /\ migrations[3][6] = Version(3)
  /\ migrations[4][1] = Drop("enrollment") /\ migrations[4][2] = Create("enrollment", 4)
  /\ migrations[4][3] = AddColumns("agents", 4) /\ migrations[4][4] = Version(4)
  BY DEF migrations

\* A statement makes a copy with these fields of d, and leaves its jobs and results.
Makes(d, s, shape, index, ver, audit, old) ==
  LET e == Effect(d, s) IN
  /\ e \in Database
  /\ e.shape = shape /\ e.index = index /\ e.ver = ver /\ e.audit = audit /\ e.old = old
  /\ e.jobs = d.jobs /\ e.results = d.results

\* A table is created, and nothing else changes (CREATE TABLE).
LEMMA CreateEffect ==
  ASSUME NEW d \in Database, NEW t \in Table, NEW v \in 0..4
  PROVE  Makes(d, Create(t, v), [d.shape EXCEPT ![t] = v], d.index, d.ver,
               d.audit, d.old)
  <1>1. Create(t, v).op = "create" /\ Create(t, v).t = t /\ Create(t, v).v = v
    BY DEF Create
  <1>2. Effect(d, Create(t, v)) = [d EXCEPT !.shape[t] = v]
    BY <1>1 DEF Effect
  <1>3. QED
    BY <1>2 DEF Database, Makes

\* A table is given columns, and nothing else changes (ALTER TABLE ADD COLUMN).
LEMMA ColumnsEffect ==
  ASSUME NEW d \in Database, NEW t \in Table, NEW v \in 0..4
  PROVE  Makes(d, AddColumns(t, v), [d.shape EXCEPT ![t] = v], d.index, d.ver,
               d.audit, d.old)
  <1>1. AddColumns(t, v).op = "columns" /\ AddColumns(t, v).t = t /\ AddColumns(t, v).v = v
    BY DEF AddColumns
  <1>2. Effect(d, AddColumns(t, v)) = [d EXCEPT !.shape[t] = v]
    BY <1>1 DEF Effect
  <1>3. QED
    BY <1>2 DEF Database, Makes

\* A table is dropped with its indexes, and with its rows (DROP TABLE).
LEMMA DropEffect ==
  ASSUME NEW d \in Database, NEW t \in Table
  PROVE  Makes(d, Drop(t), [d.shape EXCEPT ![t] = 0],
               [i \in Index |-> IF d.index[i] = t THEN None ELSE d.index[i]],
               d.ver, d.audit, IF t = "audit_v2" THEN {} ELSE d.old)
  <1> DEFINE x == [i \in Index |-> IF d.index[i] = t THEN None ELSE d.index[i]]
             k == IF t = "enrollment" THEN {} ELSE d.tokens
             o == IF t = "audit_v2" THEN {} ELSE d.old
             h == [d.shape EXCEPT ![t] = 0]
  <1>1. Drop(t).op = "drop" /\ Drop(t).t = t
    BY DEF Drop
  <1>2. Effect(d, Drop(t)) = [d EXCEPT !.shape[t] = 0, !.index = x, !.tokens = k, !.old = o]
    BY <1>1 DEF Effect
  <1>3. Effect(d, Drop(t)) = [d EXCEPT !.shape = h, !.index = x, !.tokens = k, !.old = o]
    BY <1>2 DEF Database
  <1>4. /\ h \in [Table -> 0..4] /\ x \in [Index -> Table \cup {None}]
        /\ k \in SUBSET Token /\ o \in SUBSET AuditRow
    BY DEF Database
  <1> HIDE DEF h, x, k, o
  <1>5. Effect(d, Drop(t)) \in Database
    BY <1>3, <1>4 DEF Database
  <1>6. QED
    BY <1>3, <1>5 DEF Database, Makes, x, h, o

\* An index is created (CREATE INDEX).
LEMMA IndexEffect ==
  ASSUME NEW d \in Database, NEW x \in Index, NEW t \in Table
  PROVE  Makes(d, IndexOn(x, t), d.shape, [d.index EXCEPT ![x] = t], d.ver,
               d.audit, d.old)
  <1>1. IndexOn(x, t).op = "index" /\ IndexOn(x, t).i = x /\ IndexOn(x, t).t = t
    BY DEF IndexOn
  <1>2. Effect(d, IndexOn(x, t)) = [d EXCEPT !.index[x] = t]
    BY <1>1 DEF Effect
  <1>3. QED
    BY <1>2 DEF Database, Makes

\* The audit table takes its rows and its indexes to its new name (ALTER TABLE
\* audit RENAME TO audit_v2).
LEMMA RenameEffect ==
  ASSUME NEW d \in Database
  PROVE  Makes(d, RenameAudit,
               [d.shape EXCEPT !["audit"] = 0, !["audit_v2"] = d.shape["audit"]],
               [i \in Index |-> IF d.index[i] = "audit" THEN "audit_v2" ELSE d.index[i]],
               d.ver, {}, d.audit)
  <1> DEFINE x == [i \in Index |-> IF d.index[i] = "audit" THEN "audit_v2" ELSE d.index[i]]
             h == [d.shape EXCEPT !["audit"] = 0, !["audit_v2"] = d.shape["audit"]]
  <1>1. RenameAudit.op = "rename"
    BY DEF RenameAudit
  <1>2. Effect(d, RenameAudit)
          = [d EXCEPT !.shape["audit"] = 0, !.shape["audit_v2"] = d.shape["audit"],
                      !.index = x, !.old = d.audit, !.audit = {}]
    BY <1>1 DEF Effect
  <1>3. Effect(d, RenameAudit)
          = [d EXCEPT !.shape = h, !.index = x, !.old = d.audit, !.audit = {}]
    BY <1>2 DEF Database
  <1>4. h \in [Table -> 0..4] /\ x \in [Index -> Table \cup {None}]
    BY DEF Database, Table
  <1> HIDE DEF h, x
  <1>5. QED
    BY <1>3, <1>4 DEF Database, Makes, h, x

\* Every record of the renamed table is copied, without its actor (INSERT ... SELECT).
LEMMA CopyEffect ==
  ASSUME NEW d \in Database
  PROVE  Makes(d, CopyAudit, d.shape, d.index, d.ver,
               {[n |-> r.n, uid |-> FALSE] : r \in d.old}, d.old)
  <1> DEFINE a == {[n |-> r.n, uid |-> FALSE] : r \in d.old}
  <1>1. CopyAudit.op = "copy"
    BY DEF CopyAudit
  <1>2. Effect(d, CopyAudit) = [d EXCEPT !.audit = a]
    BY <1>1 DEF Effect
  <1>3. a \in SUBSET AuditRow
    <2>1. ASSUME NEW r \in d.old PROVE [n |-> r.n, uid |-> FALSE] \in AuditRow
      <3>1. r \in AuditRow
        BY DEF Database
      <3>2. QED
        BY <3>1 DEF AuditRow
    <2>2. QED
      BY <2>1
  <1> HIDE DEF a
  <1>4. QED
    BY <1>2, <1>3 DEF Database, Makes, a

\* The version row is inserted (INSERT INTO schema_migrations).
LEMMA VersionEffect ==
  ASSUME NEW d \in Database, NEW v \in 1..4
  PROVE  Makes(d, Version(v), d.shape, d.index, d.ver \cup {v}, d.audit, d.old)
  <1>1. Version(v).op = "version" /\ Version(v).v = v
    BY DEF Version
  <1>2. Effect(d, Version(v)) = [d EXCEPT !.ver = @ \cup {v}]
    BY <1>1 DEF Effect
  <1>3. QED
    BY <1>2 DEF Database, Makes

\* A second version row is refused (the primary key of schema_migrations).
LEMMA VersionRefused ==
  ASSUME NEW d \in Database, NEW v \in 1..4, Accepts(d, Version(v)) PROVE v \notin d.ver
  <1>1. Version(v).op = "version" /\ Version(v).v = v
    BY DEF Version
  <1>2. QED
    BY <1>1 DEF Accepts

----------------------------------------------------------------------------
(* The migrations.                                                         *)

\* The tables, indexes and versions that statements name.
LEMMA Named ==
  /\ "agents" \in Table /\ "enrollment" \in Table /\ "jobs" \in Table /\ "results" \in Table
  /\ "audit" \in Table /\ "audit_v2" \in Table
  /\ "audit_job_time" \in Index /\ "jobs_state" \in Index
  /\ 1 \in 0..4 /\ 3 \in 0..4 /\ 4 \in 0..4
  /\ 1 \in 1..4 /\ 2 \in 1..4 /\ 3 \in 1..4 /\ 4 \in 1..4
  BY DEF Table, Index

\* Statement i of migration m adds the version if it is the last, and takes a copy
\* that is within the migration one statement further.
Advances(d, w, m, i) ==
  LET e == Effect(w, migrations[m][i]) IN
  /\ e \in Database
  /\ e.ver = IF i = Len(migrations[m]) THEN w.ver \cup {m} ELSE w.ver
  /\ Actorless(d) /\ Within(d, w, m, i - 1) => Within(d, e, m, i)

\* Migration 1 creates the tables (migrations).
LEMMA Migration1 ==
  ASSUME NEW d \in Database, NEW w \in Database, NEW i \in 1..6
  PROVE  Advances(d, w, 1, i)
  <1> USE MigrationLengths
      DEF Makes, Advances, Within, ShapeIn, IndexIn, ShapeAt, IndexAt, Table, Index
  <1>1. CASE i = 1
    <2>1. migrations[1][1] = Create("agents", 1)
      BY MigrationStatements
    <2>2. Makes(w, Create("agents", 1), [w.shape EXCEPT !["agents"] = 1], w.index, w.ver, w.audit, w.old)
      BY Named, CreateEffect, Zenon
    <2>3. QED
      BY <1>1, <2>1, <2>2
  <1>2. CASE i = 2
    <2>1. migrations[1][2] = Create("enrollment", 1)
      BY MigrationStatements
    <2>2. Makes(w, Create("enrollment", 1), [w.shape EXCEPT !["enrollment"] = 1], w.index, w.ver, w.audit, w.old)
      BY Named, CreateEffect, Zenon
    <2>3. QED
      BY <1>2, <2>1, <2>2
  <1>3. CASE i = 3
    <2>1. migrations[1][3] = Create("jobs", 1)
      BY MigrationStatements
    <2>2. Makes(w, Create("jobs", 1), [w.shape EXCEPT !["jobs"] = 1], w.index, w.ver, w.audit, w.old)
      BY Named, CreateEffect, Zenon
    <2>3. QED
      BY <1>3, <2>1, <2>2
  <1>4. CASE i = 4
    <2>1. migrations[1][4] = Create("results", 1)
      BY MigrationStatements
    <2>2. Makes(w, Create("results", 1), [w.shape EXCEPT !["results"] = 1], w.index, w.ver, w.audit, w.old)
      BY Named, CreateEffect, Zenon
    <2>3. QED
      BY <1>4, <2>1, <2>2
  <1>5. CASE i = 5
    <2>1. migrations[1][5] = Create("audit", 1)
      BY MigrationStatements
    <2>2. Makes(w, Create("audit", 1), [w.shape EXCEPT !["audit"] = 1], w.index, w.ver, w.audit, w.old)
      BY Named, CreateEffect, Zenon
    <2>3. QED
      BY <1>5, <2>1, <2>2
  <1>6. CASE i = 6
    <2>1. migrations[1][6] = Version(1)
      BY MigrationStatements
    <2>2. Makes(w, Version(1), w.shape, w.index, w.ver \cup {1}, w.audit, w.old)
      BY Named, VersionEffect, Zenon
    <2>3. QED
      BY <1>6, <2>1, <2>2
  <1>7. QED
    BY <1>1, <1>2, <1>3, <1>4, <1>5, <1>6

\* Migration 2 creates the indexes (migrations).
LEMMA Migration2 ==
  ASSUME NEW d \in Database, NEW w \in Database, NEW i \in 1..3
  PROVE  Advances(d, w, 2, i)
  <1> USE MigrationLengths
      DEF Makes, Advances, Within, ShapeIn, IndexIn, ShapeAt, IndexAt, Table, Index
  <1>1. CASE i = 1
    <2>1. migrations[2][1] = IndexOn("audit_job_time", "audit")
      BY MigrationStatements
    <2>2. Makes(w, IndexOn("audit_job_time", "audit"), w.shape, [w.index EXCEPT !["audit_job_time"] = "audit"], w.ver, w.audit, w.old)
      BY Named, IndexEffect, Zenon
    <2>3. QED
      BY <1>1, <2>1, <2>2
  <1>2. CASE i = 2
    <2>1. migrations[2][2] = IndexOn("jobs_state", "jobs")
      BY MigrationStatements
    <2>2. Makes(w, IndexOn("jobs_state", "jobs"), w.shape, [w.index EXCEPT !["jobs_state"] = "jobs"], w.ver, w.audit, w.old)
      BY Named, IndexEffect, Zenon
    <2>3. QED
      BY <1>2, <2>1, <2>2
  <1>3. CASE i = 3
    <2>1. migrations[2][3] = Version(2)
      BY MigrationStatements
    <2>2. Makes(w, Version(2), w.shape, w.index, w.ver \cup {2}, w.audit, w.old)
      BY Named, VersionEffect, Zenon
    <2>3. QED
      BY <1>3, <2>1, <2>2
  <1>4. QED
    BY <1>1, <1>2, <1>3

\* Migration 3 gives the audit table its columns and, of a store that names no actor
\* yet, keeps every record (migrations).
LEMMA Migration3 ==
  ASSUME NEW d \in Database, NEW w \in Database, NEW i \in 1..6
  PROVE  Advances(d, w, 3, i)
  <1> USE MigrationLengths
      DEF Makes, Advances, Within, ShapeIn, IndexIn, ShapeAt, IndexAt, Table, Index
  <1>1. CASE i = 1
    <2>1. migrations[3][1] = RenameAudit
      BY MigrationStatements
    <2>2. Makes(w, RenameAudit, [w.shape EXCEPT !["audit"] = 0, !["audit_v2"] = w.shape["audit"]],
                   [x \in Index |-> IF w.index[x] = "audit" THEN "audit_v2" ELSE w.index[x]],
                   w.ver, {}, w.audit)
      BY Named, RenameEffect, Zenon
    <2>3. QED
      BY <1>1, <2>1, <2>2
  <1>2. CASE i = 2
    <2>1. migrations[3][2] = Create("audit", 3)
      BY MigrationStatements
    <2>2. Makes(w, Create("audit", 3), [w.shape EXCEPT !["audit"] = 3], w.index, w.ver, w.audit, w.old)
      BY Named, CreateEffect, Zenon
    <2>3. QED
      BY <1>2, <2>1, <2>2
  <1>3. CASE i = 3
    <2>1. migrations[3][3] = CopyAudit
      BY MigrationStatements
    <2>2. Makes(w, CopyAudit, w.shape, w.index, w.ver, {[n |-> r.n, uid |-> FALSE] : r \in w.old}, w.old)
      BY Named, CopyEffect, Zenon
    <2>3. Actorless(d) /\ w.old = d.audit
            => {[n |-> r.n, uid |-> FALSE] : r \in w.old} = d.audit
      BY DEF Actorless
    <2>4. QED
      BY <1>3, <2>1, <2>2, <2>3
  <1>4. CASE i = 4
    <2>1. migrations[3][4] = Drop("audit_v2")
      BY MigrationStatements
    <2>2. Makes(w, Drop("audit_v2"), [w.shape EXCEPT !["audit_v2"] = 0],
                   [x \in Index |-> IF w.index[x] = "audit_v2" THEN None ELSE w.index[x]],
                   w.ver, w.audit, IF "audit_v2" = "audit_v2" THEN {} ELSE w.old)
      BY Named, DropEffect, Zenon
    <2>3. QED
      BY <1>4, <2>1, <2>2
  <1>5. CASE i = 5
    <2>1. migrations[3][5] = IndexOn("audit_job_time", "audit")
      BY MigrationStatements
    <2>2. Makes(w, IndexOn("audit_job_time", "audit"), w.shape, [w.index EXCEPT !["audit_job_time"] = "audit"], w.ver, w.audit, w.old)
      BY Named, IndexEffect, Zenon
    <2>3. QED
      BY <1>5, <2>1, <2>2
  <1>6. CASE i = 6
    <2>1. migrations[3][6] = Version(3)
      BY MigrationStatements
    <2>2. Makes(w, Version(3), w.shape, w.index, w.ver \cup {3}, w.audit, w.old)
      BY Named, VersionEffect, Zenon
    <2>3. QED
      BY <1>6, <2>1, <2>2
  <1>7. QED
    BY <1>1, <1>2, <1>3, <1>4, <1>5, <1>6

\* Migration 4 makes the token table anew and gives the agents columns (migrations).
LEMMA Migration4 ==
  ASSUME NEW d \in Database, NEW w \in Database, NEW i \in 1..4
  PROVE  Advances(d, w, 4, i)
  <1> USE MigrationLengths
      DEF Makes, Advances, Within, ShapeIn, IndexIn, ShapeAt, IndexAt, Table, Index
  <1>1. CASE i = 1
    <2>1. migrations[4][1] = Drop("enrollment")
      BY MigrationStatements
    <2>2. Makes(w, Drop("enrollment"), [w.shape EXCEPT !["enrollment"] = 0],
                   [x \in Index |-> IF w.index[x] = "enrollment" THEN None ELSE w.index[x]],
                   w.ver, w.audit, IF "enrollment" = "audit_v2" THEN {} ELSE w.old)
      BY Named, DropEffect, Zenon
    <2>3. QED
      BY <1>1, <2>1, <2>2
  <1>2. CASE i = 2
    <2>1. migrations[4][2] = Create("enrollment", 4)
      BY MigrationStatements
    <2>2. Makes(w, Create("enrollment", 4), [w.shape EXCEPT !["enrollment"] = 4], w.index, w.ver, w.audit, w.old)
      BY Named, CreateEffect, Zenon
    <2>3. QED
      BY <1>2, <2>1, <2>2
  <1>3. CASE i = 3
    <2>1. migrations[4][3] = AddColumns("agents", 4)
      BY MigrationStatements
    <2>2. Makes(w, AddColumns("agents", 4), [w.shape EXCEPT !["agents"] = 4], w.index, w.ver, w.audit, w.old)
      BY Named, ColumnsEffect, Zenon
    <2>3. QED
      BY <1>3, <2>1, <2>2
  <1>4. CASE i = 4
    <2>1. migrations[4][4] = Version(4)
      BY MigrationStatements
    <2>2. Makes(w, Version(4), w.shape, w.index, w.ver \cup {4}, w.audit, w.old)
      BY Named, VersionEffect, Zenon
    <2>3. QED
      BY <1>4, <2>1, <2>2
  <1>5. QED
    BY <1>1, <1>2, <1>3, <1>4

\* So does every statement of every migration (migrations).
LEMMA MigrationAdvances ==
  ASSUME NEW d \in Database, NEW w \in Database, NEW m \in 1..4,
         NEW i \in 1..Len(migrations[m])
  PROVE  Advances(d, w, m, i)
  <1>1. CASE m = 1
    BY <1>1, MigrationLengths, Migration1
  <1>2. CASE m = 2
    BY <1>2, MigrationLengths, Migration2
  <1>3. CASE m = 3
    BY <1>3, MigrationLengths, Migration3
  <1>4. CASE m = 4
    BY <1>4, MigrationLengths, Migration4
  <1>5. QED
    BY <1>1, <1>2, <1>3, <1>4

\* The last statement of a migration is its version row (migrations).
LEMMA VersionLast ==
  ASSUME NEW m \in 1..4 PROVE migrations[m][Len(migrations[m])] = Version(m)
  BY MigrationLengths, MigrationStatements

\* A migration is as long as it is.
LEMMA LengthBounds == \A m \in 1..4 : Len(migrations[m]) \in 3..6
  BY MigrationLengths

\* A store at a version is within the next migration, before its first statement,
\* and after its last statement it has the tables and indexes of the next version.
LEMMA WithinEnds ==
  ASSUME NEW m \in 1..4, NEW d \in Database, NEW w \in Database
  PROVE  /\ d.shape = ShapeAt(m - 1) /\ d.index = IndexAt(m - 1) => Within(d, d, m, 0)
         /\ Within(d, w, m, Len(migrations[m]))
              => w.shape = ShapeAt(m) /\ w.index = IndexAt(m) /\ w.audit = d.audit
  <1>1. ShapeIn(m, 0) = ShapeAt(m - 1) /\ IndexIn(m, 0) = IndexAt(m - 1)
    BY DEF ShapeIn, IndexIn, ShapeAt, IndexAt, Table, Index
  <1>2. /\ ShapeIn(m, Len(migrations[m])) = ShapeAt(m)
        /\ IndexIn(m, Len(migrations[m])) = IndexAt(m)
    <2> USE DEF ShapeIn, IndexIn, ShapeAt, IndexAt, Table, Index
    <2>1. ShapeIn(1, 6) = ShapeAt(1) /\ IndexIn(1, 6) = IndexAt(1)
      OBVIOUS
    <2>2. ShapeIn(2, 3) = ShapeAt(2) /\ IndexIn(2, 3) = IndexAt(2)
      OBVIOUS
    <2>3. ShapeIn(3, 6) = ShapeAt(3) /\ IndexIn(3, 6) = IndexAt(3)
      OBVIOUS
    <2>4. ShapeIn(4, 4) = ShapeAt(4) /\ IndexIn(4, 4) = IndexAt(4)
      OBVIOUS
    <2> HIDE DEF ShapeIn, IndexIn, ShapeAt, IndexAt
    <2>5. m = 1 \/ m = 2 \/ m = 3 \/ m = 4
      OBVIOUS
    <2>6. QED
      BY <2>1, <2>2, <2>3, <2>4, <2>5, MigrationLengths
  <1>3. 0 \notin {1, 2} /\ Len(migrations[m]) \notin {1, 2}
    BY LengthBounds
  <1>4. QED
    BY <1>1, <1>2, <1>3 DEF Within

\* A process that is at a migration the store lacks has found the store at the
\* version before it (CheckApplied).
LEMMA DueMigration ==
  ASSUME DInv, NEW p \in Proc, at[p] = "migrate", mig[p] \notin db.ver
  PROVE  /\ db.ver = 1..(mig[p] - 1) /\ db.ver # 1..4
         /\ db.shape = ShapeAt(mig[p] - 1) /\ db.index = IndexAt(mig[p] - 1)
  <1>1. PICK k \in 0..4 : db.ver = 1..k /\ db.shape = ShapeAt(k) /\ db.index = IndexAt(k)
    BY DEF DInv, StepComplete
  <1>2. mig[p] \in 1..4 /\ 1..(mig[p] - 1) \subseteq 1..k /\ mig[p] \notin 1..k
    BY <1>1 DEF DInv, StoreTypeOK, VersionsBehind
  <1>3. k = mig[p] - 1
    <2>1. k < mig[p]
      BY <1>2
    <2>2. mig[p] = 1 \/ mig[p] - 1 \in 1..k
      BY <1>2
    <2>3. QED
      BY <1>2, <2>1, <2>2
  <1>4. 4 \notin 1..k
    BY <1>2, <1>3
  <1>5. QED
    BY <1>1, <1>3, <1>4

\* A store that has the last version has them all (migrate).
LEMMA LastVersion ==
  ASSUME StepComplete, 4 \in db.ver PROVE db.ver = 1..4
  BY DEF StepComplete

----------------------------------------------------------------------------
(* The steps.  Committed is what the store promises of db.                 *)

Committed == StepComplete /\ RecordsSurvive /\ TerminalWithResult /\ NothingEarly

\* A step that leaves the store and what was told of it breaks no promise (migrate,
\* up to its commit).
LEMMA CommittedKept ==
  ASSUME Committed, UNCHANGED <<db, told, accepted, floor>> PROVE Committed'
  BY DEF Committed, StepComplete, RecordsSurvive, TerminalWithResult, NothingEarly, Actorless

\* A store that is new or that an earlier build left is at a version (open).
LEMMA StoreInit == Init => DInv
  <1> SUFFICES ASSUME Init PROVE DInv
    OBVIOUS
  <1>1. PICK k \in 0..4 : db = StoreAt(k)
    BY DEF Init
  <1>2. /\ db.ver = 1..k /\ db.shape = ShapeAt(k) /\ db.index = IndexAt(k)
        /\ db.jobs = [j \in Job |-> None] /\ db.results = [j \in Job |-> None]
        /\ db.audit = IF k = 0 THEN {} ELSE {[n |-> 0, uid |-> FALSE]}
    BY <1>1 DEF StoreAt
  <1>3. StoreTypeOK
    <2>1. ShapeAt(k) \in [Table -> 0..4] /\ IndexAt(k) \in [Index -> Table \cup {None}]
      BY DEF ShapeAt, IndexAt, Table, Index
    <2>2. 1..k \in SUBSET (1..4)
      OBVIOUS
    <2>3. (IF k = 0 THEN {} ELSE {[n |-> 0, uid |-> FALSE]}) \in SUBSET AuditRow
      BY StoreAssumption DEF AuditRow
    <2>4. StoreAt(k) \in Database
      BY <2>1, <2>2, <2>3 DEF StoreAt, Database
    <2>5. told \in [tokens : SUBSET Token, audit : SUBSET AuditRow]
      BY <1>2, <2>3 DEF Init
    <2>6. QED
      BY <1>1, <2>4, <2>5, StoreAssumption DEF Init, StoreTypeOK
  <1>4. StepComplete
    BY <1>2 DEF StepComplete
  <1>5. RecordsSurvive /\ NothingEarly
    BY <1>2 DEF Init, RecordsSurvive, NothingEarly, Actorless
  <1>6. TerminalWithResult
    BY <1>2 DEF Init, TerminalWithResult
  <1>7. VersionsBehind /\ LockHeld /\ CopyKnown
    BY StoreAssumption DEF Init, VersionsBehind, LockHeld, CopyKnown
  <1>8. QED
    BY <1>3, <1>4, <1>5, <1>6, <1>7 DEF DInv

\* A process that starts has no transaction and relies on no version (open).
LEMMA OpeningStep ==
  ASSUME DInv, NEW p \in Proc, Open(p) PROVE DInv'
  <1> USE DEF DInv, Open, Goto, records
  <1>1. StoreTypeOK'
    BY DEF StoreTypeOK
  <1>2. VersionsBehind'
    BY DEF VersionsBehind, StoreTypeOK
  <1>3. LockHeld'
    BY DEF LockHeld, StoreTypeOK
  <1>4. CopyKnown'
    BY DEF CopyKnown, LockHeld, StoreTypeOK, Migrating, Recording
  <1>5. QED
    BY <1>1, <1>2, <1>3, <1>4, CommittedKept DEF Committed

\* A process goes on from a version that is there, and to a migration that is not
\* (migrate).
LEMMA CheckStep ==
  ASSUME DInv, NEW p \in Proc, CheckApplied(p) PROVE DInv'
  <1> USE MigrationLengths DEF DInv, CheckApplied, NextMigration, Goto, records
  <1>1. StoreTypeOK'
    <2>1. at' \in [Proc -> {"down", "check", "migrate", "open", "result"}]
      BY DEF StoreTypeOK
    <2>2. mig \in [Proc -> 1..4] /\ stmt \in [Proc -> 1..7]
      BY DEF StoreTypeOK
    <2>3. \/ mig' = mig
          \/ mig' = [mig EXCEPT ![p] = mig[p] + 1] /\ mig[p] < 4
      OBVIOUS
    <2>4. mig' \in [Proc -> 1..4]
      BY <2>2, <2>3
    <2>5. stmt' = stmt \/ stmt' = [stmt EXCEPT ![p] = 1]
      OBVIOUS
    <2>6. stmt' \in [Proc -> 1..7]
      BY <2>2, <2>5
    <2>7. QED
      BY <2>1, <2>4, <2>6 DEF StoreTypeOK
  <1>2. VersionsBehind'
    <2>1. mig[p] \in 1..4 /\ 1..(mig[p] - 1) \subseteq db.ver
      BY DEF StoreTypeOK, VersionsBehind
    <2>2. mig[p] \in db.ver => 1..mig[p] \subseteq db.ver
      BY <2>1
    <2>3. mig[p] \in db.ver /\ mig[p] = 4 => db.ver = 1..4
      BY LastVersion
    <2>4. QED
      BY <2>1, <2>2, <2>3 DEF VersionsBehind, StoreTypeOK
  <1>3. LockHeld'
    BY LengthBounds DEF LockHeld, StoreTypeOK
  <1>4. CopyKnown'
    BY DEF CopyKnown, LockHeld, StoreTypeOK, Migrating, Recording
  <1>5. QED
    BY <1>1, <1>2, <1>3, <1>4, CommittedKept DEF Committed

\* A failed open, statement or process gives up its transaction (migrate's rollback).
LEMMA RollbackStep ==
  ASSUME DInv, NEW p \in Proc, Goto(p, "down"), Rollback(p), faults' \in 0..MaxFaults,
         UNCHANGED <<db, mig, stmt, result, told, accepted, floor, last>>
  PROVE  DInv'
  <1> USE StoreAssumption DEF DInv, Goto, Rollback
  <1>1. StoreTypeOK'
    BY DEF StoreTypeOK
  <1>2. VersionsBehind'
    BY DEF VersionsBehind, StoreTypeOK
  <1>3. LockHeld'
    BY DEF LockHeld, StoreTypeOK
  <1>4. CopyKnown'
    BY DEF CopyKnown, StoreTypeOK, Migrating, Recording, LockHeld
  <1>5. QED
    BY <1>1, <1>2, <1>3, <1>4, CommittedKept DEF Committed

\* A statement that is accepted takes the lock, if the process has not got it, and
\* its copy one statement further; the version row is accepted only where the store
\* has not got the version (migrate).
LEMMA AcceptedStep ==
  ASSUME DInv, NEW p \in Proc, RunStatement(p), at' = at, writer' = p
  PROVE  DInv'
  <1> DEFINE m == mig[p]
             i == stmt[p]
             d == IF writer = p THEN work ELSE db
             s == migrations[m][i]
  <1>1. /\ at[p] = "migrate" /\ writer \in {p, None} /\ i <= Len(migrations[m])
        /\ Accepts(d, s) /\ work' = Effect(d, s) /\ stmt' = [stmt EXCEPT ![p] = i + 1]
        /\ UNCHANGED <<db, mig, result, told, accepted, floor, last, faults>>
    BY DEF RunStatement, Goto, records, DInv, StoreTypeOK
  <1>2. m \in 1..4 /\ i \in 1..Len(migrations[m]) /\ Len(migrations[m]) \in 3..6
    BY <1>1, LengthBounds DEF DInv, StoreTypeOK
  <1>3. /\ d \in Database /\ db \in Database /\ d.ver = db.ver
        /\ m \notin db.ver => Within(db, d, m, i - 1)
    <2>1. CASE writer = p
      <3>1. Migrating(p)
        BY <1>1, <2>1 DEF DInv, CopyKnown
      <3>2. QED
        BY <1>1, <2>1, <3>1 DEF DInv, StoreTypeOK, Migrating
    <2>2. CASE writer # p
      <3>1. i = 1
        BY <1>1, <1>2, <2>2 DEF DInv, LockHeld
      <3>2. m \notin db.ver => Within(db, db, m, 0)
        BY <1>1, <1>2, DueMigration, WithinEnds DEF DInv, StoreTypeOK
      <3>3. QED
        BY <2>2, <3>1, <3>2 DEF DInv, StoreTypeOK
    <2>3. QED
      BY <2>1, <2>2
  <1>4. m \notin db.ver => Actorless(db)
    BY <1>1, DueMigration DEF DInv, NothingEarly
  <1>5. Advances(db, d, m, i)
    BY <1>2, <1>3, MigrationAdvances
  <1> HIDE DEF d
  <1>6. /\ work' \in Database
        /\ i < Len(migrations[m]) => work'.ver = db.ver
        /\ i = Len(migrations[m]) => work'.ver = db.ver \cup {m} /\ m \notin db.ver
        /\ m \notin db.ver => Within(db, work', m, i)
    <2>1. i = Len(migrations[m]) => m \notin db.ver
      BY <1>1, <1>2, <1>3, VersionLast, VersionRefused
    <2>2. QED
      BY <1>1, <1>2, <1>3, <1>4, <1>5, <2>1 DEF Advances
  <1>7. StoreTypeOK'
    <2>1. i + 1 \in 1..7
      <3>1. PICK n \in 3..6 : n = Len(migrations[m])
        BY <1>2
      <3>2. i \in 1..n
        BY <1>2, <3>1
      <3>3. QED
        BY <3>2
    <2>2. stmt' \in [Proc -> 1..7]
      BY <1>1, <2>1 DEF DInv, StoreTypeOK
    <2>3. QED
      BY <1>1, <1>6, <2>2 DEF DInv, StoreTypeOK
  <1>8. VersionsBehind'
    BY <1>1 DEF DInv, VersionsBehind
  <1>9. LockHeld'
    BY <1>1, <1>2, StoreAssumption DEF DInv, LockHeld, StoreTypeOK
  <1>10. CopyKnown'
    <2>1. Migrating(p)'
      BY <1>1, <1>2, <1>6 DEF Migrating, DInv, StoreTypeOK
    <2>2. QED
      BY <1>1, <2>1 DEF CopyKnown
  <1>11. QED
    BY <1>1, <1>7, <1>8, <1>9, <1>10, CommittedKept DEF Committed, DInv

\* The next statement is accepted, or undoes the transaction (migrate).
LEMMA StatementStep ==
  ASSUME DInv, NEW p \in Proc, RunStatement(p) PROVE DInv'
  <1>1. CASE at' = at /\ writer' = p
    BY <1>1, AcceptedStep
  <1>2. CASE ~(at' = at /\ writer' = p)
    <2>1. Goto(p, "down") /\ Rollback(p) /\ UNCHANGED <<db, mig, stmt, result, records, faults>>
      BY <1>2 DEF RunStatement
    <2>2. QED
      BY <2>1, RollbackStep DEF records, DInv, StoreTypeOK
  <1>3. QED
    BY <1>1, <1>2

\* A commit comes after the version row, so the migration was due, and what it
\* commits is the next version, with every record (migrate).
LEMMA CommitStep ==
  ASSUME DInv, NEW p \in Proc, CommitMigration(p) PROVE DInv'
  <1> DEFINE m == mig[p]
  <1>1. /\ at[p] = "migrate" /\ stmt[p] > Len(migrations[m])
        /\ db' = work /\ writer' = None /\ NextMigration(p)
        /\ UNCHANGED <<work, stmt, result, told, accepted, floor, last, faults>>
    BY DEF CommitMigration, records
  <1>2. m \in 1..4 /\ Len(migrations[m]) \in 3..6 /\ stmt[p] \in 1..7
    BY LengthBounds DEF DInv, StoreTypeOK
  <1>3. writer = p /\ stmt[p] - 1 = Len(migrations[m])
    <2>1. stmt[p] > 1 /\ stmt[p] <= Len(migrations[m]) + 1
      <3>1. PICK n \in 3..6 : n = Len(migrations[m])
        BY <1>2
      <3>2. stmt[p] > n
        BY <1>1, <3>1
      <3>3. stmt[p] <= Len(migrations[m]) + 1
        BY <1>1 DEF DInv, LockHeld
      <3>4. QED
        BY <1>2, <3>2, <3>3
    <2>2. writer = p
      BY <1>1, <2>1 DEF DInv, LockHeld
    <2>3. QED
      BY <1>1, <1>2, <2>1, <2>2
  <1>4. /\ m \notin db.ver /\ work.ver = db.ver \cup {m}
        /\ Within(db, work, m, Len(migrations[m]))
    BY <1>1, <1>3 DEF DInv, CopyKnown, Migrating
  <1>5. db.ver = 1..(m - 1) /\ db.ver # 1..4
    BY <1>1, <1>4, DueMigration
  <1>6. /\ work.ver = 1..m /\ work.shape = ShapeAt(m) /\ work.index = IndexAt(m)
        /\ work.audit = db.audit /\ work.jobs = db.jobs /\ work.results = db.results
    <2>1. 1..(m - 1) \cup {m} = 1..m
      BY <1>2
    <2>2. QED
      BY <1>2, <1>4, <1>5, <2>1, WithinEnds DEF Within, DInv, StoreTypeOK
  <1>7. StepComplete'
    BY <1>1, <1>2, <1>6 DEF StepComplete
  <1>8. RecordsSurvive' /\ TerminalWithResult' /\ NothingEarly'
    BY <1>1, <1>5, <1>6 DEF DInv, RecordsSurvive, TerminalWithResult, NothingEarly, Actorless
  <1>9. /\ at' \in {[at EXCEPT ![p] = l] : l \in {"check", "open"}}
        /\ at'[p] = "check" => mig' = [mig EXCEPT ![p] = m + 1] /\ m < 4
        /\ at'[p] = "open" => mig' = mig /\ m = 4
    BY <1>1, <1>2, MigrationLengths DEF NextMigration, Goto, DInv, StoreTypeOK
  <1>10. StoreTypeOK'
    <2>1. at' \in [Proc -> {"down", "check", "migrate", "open", "result"}]
      BY <1>9 DEF DInv, StoreTypeOK
    <2>2. mig' \in [Proc -> 1..4]
      BY <1>2, <1>9 DEF DInv, StoreTypeOK
    <2>3. QED
      BY <1>1, <2>1, <2>2 DEF DInv, StoreTypeOK
  <1>11. VersionsBehind'
    <2>1. ASSUME NEW q \in Proc, q # p
          PROVE  /\ at'[q] = at[q] /\ mig'[q] = mig[q] /\ db.ver \subseteq db'.ver
                 /\ at[q] \notin {"open", "result"}
      BY <1>1, <1>4, <1>5, <1>9, <2>1 DEF DInv, VersionsBehind, StoreTypeOK
    <2>2. db'.ver = 1..m
      BY <1>1, <1>6
    <2>3. at'[p] = "check" => mig'[p] - 1 = m
      BY <1>2, <1>9 DEF DInv, StoreTypeOK
    <2>4. at'[p] \in {"check", "open"}
      BY <1>9 DEF DInv, StoreTypeOK
    <2>5. QED
      BY <1>9, <2>1, <2>2, <2>3, <2>4 DEF DInv, VersionsBehind
  <1>12. LockHeld'
    <2>1. at \in [Proc -> {"down", "check", "migrate", "open", "result"}]
      BY DEF DInv, StoreTypeOK
    <2>2. at'[p] \in {"check", "open"} /\ mig \in [Proc -> 1..4]
      BY <1>9, <2>1 DEF DInv, StoreTypeOK
    <2>3. ASSUME NEW q \in Proc, q # p PROVE at'[q] = at[q] /\ mig'[q] = mig[q]
      BY <1>9, <2>1, <2>2, <2>3
    <2>4. stmt' = stmt /\ writer' # p /\ writer' = None /\ writer = p
      BY <1>1, <1>3, StoreAssumption
    <2>5. ASSUME NEW q \in Proc
          PROVE  /\ writer' = q <=> at'[q] = "result" \/ (at'[q] = "migrate" /\ stmt'[q] > 1)
                 /\ at'[q] = "migrate" => stmt'[q] <= Len(migrations[mig'[q]]) + 1
      <3>1. CASE q = p
        BY <2>2, <2>4, <3>1
      <3>2. CASE q # p
        <4>1. at'[q] = at[q] /\ mig'[q] = mig[q]
          BY <2>3, <3>2
        <4>2. writer' # q /\ writer # q
          BY <2>4, <3>2, StoreAssumption
        <4>3. QED
          BY <2>4, <4>1, <4>2 DEF DInv, LockHeld
      <3>3. QED
        BY <3>1, <3>2
    <2>6. QED
      BY <2>5 DEF LockHeld
  <1>13. CopyKnown'
    BY <1>1, StoreAssumption DEF CopyKnown
  <1>14. QED
    BY <1>7, <1>8, <1>10, <1>11, <1>12, <1>13 DEF DInv

\* Another process's transaction, or a failure, ends the attempt (migrate's errors).
LEMMA FailureStep ==
  ASSUME DInv, NEW p \in Proc, Busy(p) \/ Fails(p) PROVE DInv'
  <1>1. CASE Busy(p)
    BY <1>1, RollbackStep DEF Busy, Rollback, records, DInv, StoreTypeOK
  <1>2. CASE Fails(p)
    BY <1>2, RollbackStep, StoreAssumption DEF Fails, records, DInv, StoreTypeOK
  <1>3. QED
    BY <1>1, <1>2

----------------------------------------------------------------------------
(* Operations: only of an open store, which has every version.             *)

\* A write of one transaction keeps the schema; what it does to the records is left
\* to show (AppendAuditRecord, IssueEnrollment, RetainAudit, RecordAcceptedRequest).
LEMMA WriteStep ==
  ASSUME DInv, NEW p \in Proc, NEW d \in Database, Write(p, d),
         d.ver = db.ver, d.shape = db.shape, d.index = db.index,
         told' \in [tokens : SUBSET Token, audit : SUBSET AuditRow],
         accepted' \in [Job -> JobState \cup {None}],
         floor' \in 0..MaxAudit, last' \in 0..MaxAudit,
         RecordsSurvive', TerminalWithResult'
  PROVE  DInv'
  <1> USE DEF DInv, Write
  <1>1. StoreTypeOK'
    BY DEF StoreTypeOK
  <1>2. StepComplete'
    BY DEF StepComplete
  <1>3. NothingEarly' /\ VersionsBehind'
    BY DEF NothingEarly, VersionsBehind
  <1>4. LockHeld' /\ CopyKnown'
    BY StoreAssumption DEF LockHeld, CopyKnown
  <1>5. QED
    BY <1>1, <1>2, <1>3, <1>4

\* A new audit record has its actor (AppendAuditRecord, IssueEnrollment).
LEMMA NewRowType == last \in 0..MaxAudit /\ last < MaxAudit => NewRow \in AuditRow
  BY StoreAssumption DEF NewRow, AuditRow

\* An audit record is added (AppendAuditRecord).
LEMMA AppendStep ==
  ASSUME DInv, NEW p \in Proc, AppendAuditRecord(p) PROVE DInv'
  <1> DEFINE d == [db EXCEPT !.audit = @ \cup {NewRow}]
  <1>1. NewRow \in AuditRow /\ db \in Database
    BY NewRowType DEF AppendAuditRecord, DInv, StoreTypeOK
  <1>2. /\ d \in Database /\ d.audit = db.audit \cup {NewRow} /\ d.tokens = db.tokens
        /\ d.ver = db.ver /\ d.shape = db.shape /\ d.index = db.index
        /\ d.jobs = db.jobs /\ d.results = db.results
    BY <1>1 DEF Database
  <1> HIDE DEF d
  <1>3. /\ Write(p, d) /\ db' = d /\ last' = last + 1 /\ last < MaxAudit /\ floor' = floor
        /\ accepted' = accepted
        /\ told' = [told EXCEPT !.audit = @ \cup {NewRow}]
    BY DEF AppendAuditRecord, Write, d
  <1>4. /\ told' \in [tokens : SUBSET Token, audit : SUBSET AuditRow]
        /\ told'.tokens = told.tokens /\ told'.audit = told.audit \cup {NewRow}
    BY <1>1, <1>3 DEF DInv, StoreTypeOK
  <1>5. RecordsSurvive'
    BY <1>2, <1>3, <1>4 DEF DInv, RecordsSurvive
  <1>6. TerminalWithResult'
    BY <1>2, <1>3 DEF DInv, TerminalWithResult
  <1>7. /\ floor' \in 0..MaxAudit /\ last' \in 0..MaxAudit
        /\ accepted' \in [Job -> JobState \cup {None}]
    BY <1>3, StoreAssumption DEF DInv, StoreTypeOK
  <1>8. QED
    BY <1>2, <1>3, <1>4, <1>5, <1>6, <1>7, WriteStep

\* A token and its audit record are added together (IssueEnrollment).
LEMMA IssueStep ==
  ASSUME DInv, NEW p \in Proc, NEW t \in Token, IssueEnrollment(p, t) PROVE DInv'
  <1> DEFINE d == [db EXCEPT !.tokens = @ \cup {t}, !.audit = @ \cup {NewRow}]
  <1>1. NewRow \in AuditRow /\ db \in Database
    BY NewRowType DEF IssueEnrollment, DInv, StoreTypeOK
  <1>2. /\ d \in Database /\ d.audit = db.audit \cup {NewRow} /\ d.tokens = db.tokens \cup {t}
        /\ d.ver = db.ver /\ d.shape = db.shape /\ d.index = db.index
        /\ d.jobs = db.jobs /\ d.results = db.results
    BY <1>1 DEF Database
  <1> HIDE DEF d
  <1>3. /\ Write(p, d) /\ db' = d /\ last' = last + 1 /\ last < MaxAudit /\ floor' = floor
        /\ accepted' = accepted
        /\ told' = [tokens |-> told.tokens \cup {t}, audit |-> told.audit \cup {NewRow}]
    BY DEF IssueEnrollment, Write, d
  <1>4. told' \in [tokens : SUBSET Token, audit : SUBSET AuditRow]
    BY <1>1, <1>3 DEF DInv, StoreTypeOK
  <1>5. RecordsSurvive'
    BY <1>2, <1>3 DEF DInv, RecordsSurvive
  <1>6. TerminalWithResult'
    BY <1>2, <1>3 DEF DInv, TerminalWithResult
  <1>7. /\ floor' \in 0..MaxAudit /\ last' \in 0..MaxAudit
        /\ accepted' \in [Job -> JobState \cup {None}]
    BY <1>3, StoreAssumption DEF DInv, StoreTypeOK
  <1>8. QED
    BY <1>2, <1>3, <1>4, <1>5, <1>6, <1>7, WriteStep

\* Retention takes audit records of before its time, of which floor is a bound
\* (RetainAudit).
LEMMA RetainStep ==
  ASSUME DInv, NEW p \in Proc, NEW n \in 1..MaxAudit, RetainAudit(p, n) PROVE DInv'
  <1> DEFINE d == [db EXCEPT !.audit = {r \in @ : r.n >= n}]
  <1>1. db \in Database
    BY DEF DInv, StoreTypeOK
  <1>2. /\ d \in Database /\ d.audit = {r \in db.audit : r.n >= n} /\ d.tokens = db.tokens
        /\ d.ver = db.ver /\ d.shape = db.shape /\ d.index = db.index
        /\ d.jobs = db.jobs /\ d.results = db.results
    BY <1>1 DEF Database
  <1> HIDE DEF d
  <1>3. /\ Write(p, d) /\ db' = d /\ told' = told /\ last' = last /\ accepted' = accepted
        /\ floor' = IF n > floor THEN n ELSE floor
    BY DEF RetainAudit, Write, d
  <1>4. RecordsSurvive'
    <2>1. ASSUME NEW r \in told.audit, r.n >= floor' PROVE r \in db.audit /\ r.n >= n
      <3>1. r.n \in 0..MaxAudit /\ floor \in 0..MaxAudit
        BY DEF DInv, StoreTypeOK, AuditRow
      <3>2. r.n >= floor /\ r.n >= n
        BY <1>3, <2>1, <3>1, StoreAssumption
      <3>3. QED
        BY <3>2 DEF DInv, RecordsSurvive
    <2>2. QED
      BY <1>2, <1>3, <2>1 DEF DInv, RecordsSurvive
  <1>5. TerminalWithResult'
    BY <1>2, <1>3 DEF DInv, TerminalWithResult
  <1>6. /\ floor' \in 0..MaxAudit /\ last' \in 0..MaxAudit
        /\ told' \in [tokens : SUBSET Token, audit : SUBSET AuditRow]
        /\ accepted' \in [Job -> JobState \cup {None}]
    BY <1>3, StoreAssumption DEF DInv, StoreTypeOK
  <1>7. QED
    BY <1>2, <1>3, <1>4, <1>5, <1>6, WriteStep

\* A job that is accepted was not there, so it has no result (RecordAcceptedRequest).
LEMMA AcceptStep ==
  ASSUME DInv, NEW p \in Proc, NEW j \in Job, NEW s \in JobState,
         RecordAcceptedRequest(p, j, s)
  PROVE  DInv'
  <1> DEFINE d == [db EXCEPT !.jobs[j] = s]
  <1>1. db \in Database
    BY DEF DInv, StoreTypeOK
  <1>2. /\ d \in Database /\ d.audit = db.audit /\ d.tokens = db.tokens
        /\ d.ver = db.ver /\ d.shape = db.shape /\ d.index = db.index
        /\ d.jobs = [db.jobs EXCEPT ![j] = s] /\ d.results = db.results
    BY <1>1 DEF Database
  <1> HIDE DEF d
  <1>3. /\ Write(p, d) /\ db' = d /\ UNCHANGED <<told, floor, last>> /\ db.jobs[j] = None
        /\ accepted' = [accepted EXCEPT ![j] = s]
    BY DEF RecordAcceptedRequest, Write, records, d
  <1>4. RecordsSurvive'
    BY <1>2, <1>3 DEF DInv, RecordsSurvive
  <1>5. TerminalWithResult'
    <2>1. db.results[j] = None
      BY <1>3 DEF DInv, TerminalWithResult
    <2>2. db.jobs \in [Job -> JobState \cup {None}] /\ accepted \in [Job -> JobState \cup {None}]
      BY <1>1 DEF DInv, StoreTypeOK, Database
    <2>3. QED
      BY <1>2, <1>3, <2>1, <2>2 DEF DInv, TerminalWithResult
  <1>6. /\ floor' \in 0..MaxAudit /\ last' \in 0..MaxAudit
        /\ told' \in [tokens : SUBSET Token, audit : SUBSET AuditRow]
        /\ accepted' \in [Job -> JobState \cup {None}]
    BY <1>3 DEF DInv, StoreTypeOK
  <1>7. QED
    BY <1>2, <1>3, <1>4, <1>5, <1>6, WriteStep

\* RecordResult's first statement takes the lock, and its copy differs from the store
\* in the job's state (RecordResult).
LEMMA UpdateStep ==
  ASSUME DInv, NEW p \in Proc, NEW j \in Job, NEW s \in JobState, UpdateJob(p, j, s)
  PROVE  DInv'
  <1>1. /\ at[p] = "open" /\ writer = None /\ work' = [db EXCEPT !.jobs[j] = s]
        /\ writer' = p /\ at' = [at EXCEPT ![p] = "result"]
        /\ result' = [result EXCEPT ![p] = [job |-> j, state |-> s]]
        /\ UNCHANGED <<db, mig, stmt, told, accepted, floor, last, faults>>
    BY DEF UpdateJob, Goto, records
  <1>2. work' \in Database
    BY <1>1 DEF DInv, StoreTypeOK, Database
  <1>3. StoreTypeOK'
    BY <1>1, <1>2 DEF DInv, StoreTypeOK
  <1>4. VersionsBehind'
    BY <1>1 DEF DInv, VersionsBehind, StoreTypeOK
  <1>5. LockHeld'
    BY <1>1, StoreAssumption DEF DInv, LockHeld, StoreTypeOK
  <1>6. CopyKnown'
    <2>1. Recording(p)' /\ at'[p] = "result"
      BY <1>1 DEF DInv, StoreTypeOK, Recording
    <2>2. QED
      BY <1>1, <2>1 DEF CopyKnown
  <1>7. QED
    BY <1>1, <1>3, <1>4, <1>5, <1>6, CommittedKept DEF Committed, DInv

\* The result goes in with the state, for a job that has none; a second result
\* leaves both as they were (RecordResult).
LEMMA InsertStep ==
  ASSUME DInv, NEW p \in Proc, InsertResult(p) PROVE DInv'
  <1> DEFINE j == result[p].job
             s == result[p].state
  <1>1. /\ at[p] = "result" /\ writer' = None /\ at' = [at EXCEPT ![p] = "open"]
        /\ db' = IF work.results[j] = None THEN [work EXCEPT !.results[j] = s] ELSE db
        /\ work' = db' /\ UNCHANGED <<mig, stmt, result, told, accepted, floor, last, faults>>
    BY DEF InsertResult, Goto, records
  <1>2. /\ writer = p /\ j \in Job /\ s \in JobState /\ db \in Database
        /\ work = [db EXCEPT !.jobs[j] = s]
    BY <1>1 DEF DInv, StoreTypeOK, LockHeld, CopyKnown, Recording
  <1> HIDE DEF j, s
  <1>3. /\ db' \in Database /\ db'.ver = db.ver /\ db'.shape = db.shape /\ db'.index = db.index
        /\ db'.audit = db.audit /\ db'.tokens = db.tokens
        /\ \/ db'.jobs = db.jobs /\ db'.results = db.results
           \/ /\ db'.jobs = [db.jobs EXCEPT ![j] = s]
              /\ db'.results = [db.results EXCEPT ![j] = s]
    <2>1. CASE work.results[j] = None
      BY <1>1, <1>2, <2>1 DEF Database
    <2>2. CASE work.results[j] # None
      BY <1>1, <1>2, <2>2
    <2>3. QED
      BY <2>1, <2>2
  <1>4. StoreTypeOK'
    BY <1>1, <1>3 DEF DInv, StoreTypeOK
  <1>5. StepComplete' /\ RecordsSurvive' /\ NothingEarly'
    BY <1>1, <1>3 DEF DInv, StepComplete, RecordsSurvive, NothingEarly, Actorless
  <1>6. TerminalWithResult'
    BY <1>1, <1>2, <1>3, NoneAssumption DEF DInv, TerminalWithResult, Database
  <1>7. VersionsBehind'
    BY <1>1, <1>3 DEF DInv, VersionsBehind, StoreTypeOK
  <1>8. LockHeld' /\ CopyKnown'
    BY <1>1, <1>2, StoreAssumption DEF DInv, LockHeld, CopyKnown, StoreTypeOK
  <1>9. QED
    BY <1>4, <1>5, <1>6, <1>7, <1>8 DEF DInv

----------------------------------------------------------------------------
\* The store's invariant holds wherever its processes fail and however they
\* overlap (package store).
THEOREM StoreInvariance == Spec => []DInv
  <1>1. DInv /\ [Next]_vars => DInv'
    <2> SUFFICES ASSUME DInv, [Next]_vars PROVE DInv'
      OBVIOUS
    <2>1. CASE UNCHANGED vars
      BY <2>1 DEF vars, DInv, StoreTypeOK, StepComplete, RecordsSurvive, TerminalWithResult,
                  NothingEarly, Actorless, VersionsBehind, LockHeld, CopyKnown, Migrating,
                  Recording
    <2>2. CASE Next
      BY <2>2, OpeningStep, CheckStep, StatementStep, CommitStep, FailureStep, AppendStep,
         IssueStep, RetainStep, AcceptStep, UpdateStep, InsertStep DEF Next, OpenStep, Operation
    <2>3. QED
      BY <2>1, <2>2
  <1>2. QED
    BY StoreInit, <1>1, PTL DEF Spec

\* The store and the writer's copy are always of their types (the schema's columns).
THEOREM StoreTypeAlways == Spec => []StoreTypeOK
  <1>1. DInv => StoreTypeOK
    BY DEF DInv
  <1>2. QED
    BY <1>1, StoreInvariance, PTL

\* The committed store is at its last complete migration, with its tables and
\* indexes, whichever processes failed in the middle of one or ran one twice
\* (migrate).
THEOREM StepCompleteAlways == Spec => []StepComplete
  <1>1. DInv => StepComplete
    BY DEF DInv
  <1>2. QED
    BY <1>1, StoreInvariance, PTL

\* A token or an audit record that a caller was told of is there, with its actor,
\* until retention is given a later time (migrate, RetainAudit).
THEOREM RecordsSurviveAlways == Spec => []RecordsSurvive
  <1>1. DInv => RecordsSurvive
    BY DEF DInv
  <1>2. QED
    BY <1>1, StoreInvariance, PTL

\* A job with a result is in that result's state, and one without in the state it
\* was accepted in (RecordResult).
THEOREM TerminalWithResultAlways == Spec => []TerminalWithResult
  <1>1. DInv => TerminalWithResult
    BY DEF DInv
  <1>2. QED
    BY <1>1, StoreInvariance, PTL
=============================================================================
