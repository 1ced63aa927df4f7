---------------------------- MODULE AgentLedger ------------------------------
(***************************************************************************)
(* The agent's ledger (internal/ledger): opening it, with a schema that is *)
(* created statement by statement and in no transaction, and the record of *)
(* each job in it.  The processes that open it crash anywhere, as          *)
(* cmd/keystone-ledger-crash does on purpose, and two of them may overlap. *)
(*                                                                         *)
(* What calls the ledger is not in the repository yet, so the operations   *)
(* come in any order: a command delivered again, a start tried again, a    *)
(* retention in between.  SQLite is external: every call is one statement, *)
(* which a primary key or a foreign key refuses as a whole.                *)
(***************************************************************************)
EXTENDS Naturals, Sequences

CONSTANTS
  Proc,       \* processes that open the ledger
  Job,        \* job identifiers
  MaxTime,    \* the agent's clock
  MaxFaults,  \* crashes and failed statements in a run
  None

ASSUME LedgerAssumption ==
  None \notin Proc \cup Job /\ MaxTime \in Nat \ {0} /\ MaxFaults \in Nat

\* What migrate creates, in its order, the version row last.
Schema == <<"schema_migrations", "receipts", "starts", "terminal_results",
            "result_pubacks", "version">>

Terminal == {"Completed", "Failed"}
ASSUME NoneAssumption == None \notin Terminal /\ None \notin 1..MaxTime

\* Where a process is when it has no ledger, and when it has it open.
Down == 0
Opened == Len(Schema) + 1

VARIABLES
  created,   \* the part of the schema that is there
  receipts,  \* when each job's receipt was recorded, None for a job with none
  starts,    \* jobs with a row in starts
  results,   \* each job's row in terminal_results
  pubacks,   \* jobs with a row in result_pubacks
  at,        \* the statement of migrate each process is at, Down or Opened
  now,       \* the agent's clock
  attempts,  \* how often a caller was told that it may start the job
  told,      \* what callers were told is recorded: receipts, starts, results, acks
  floor,     \* the latest time RetainReceipts was given
  faults

rows == <<receipts, starts, results, pubacks>>
ghosts == <<attempts, told, floor>>
vars == <<created, rows, at, now, ghosts, faults>>

Told == [receipts : SUBSET (Job \X (1..MaxTime)), starts : SUBSET Job,
         results : SUBSET (Job \X Terminal), acks : SUBSET Job]

LedgerTypeOK ==
  /\ created \subseteq {Schema[i] : i \in 1..Len(Schema)}
  /\ receipts \in [Job -> 1..MaxTime \cup {None}]
  /\ starts \subseteq Job /\ pubacks \subseteq Job
  /\ results \in [Job -> Terminal \cup {None}]
  /\ at \in [Proc -> Down..Opened]
  /\ now \in 1..MaxTime
  /\ attempts \in [Job -> 0..2]
  /\ told \in Told
  /\ floor \in 0..MaxTime
  /\ faults \in 0..MaxFaults

Init ==
  /\ created = {}
  /\ receipts = [j \in Job |-> None] /\ starts = {}
  /\ results = [j \in Job |-> None] /\ pubacks = {}
  /\ at = [p \in Proc |-> Down]
  /\ now = 1 /\ floor = 0 /\ faults = 0
  /\ attempts = [j \in Job |-> 0]
  /\ told = [receipts |-> {}, starts |-> {}, results |-> {}, acks |-> {}]

Goto(p, l) == at' = [at EXCEPT ![p] = l]

----------------------------------------------------------------------------
(* Opening.                                                                *)

\* Mutant of Open: a ledger with a migration table is taken to be migrated.
OpenTrusting(p) ==
  /\ at[p] = Down
  /\ Goto(p, IF "schema_migrations" \in created THEN Opened ELSE 1)
  /\ UNCHANGED <<created, rows, now, ghosts, faults>>

Open(p) ==
  /\ at[p] = Down
  /\ Goto(p, 1)
  /\ UNCHANGED <<created, rows, now, ghosts, faults>>

\* Mutant of migrate: a plain CREATE TABLE, refused when the table is there.
migratePlain(p) ==
  /\ at[p] \in 1..Len(Schema)
  /\ IF Schema[at[p]] \in created
     THEN Goto(p, Down) /\ UNCHANGED created
     ELSE /\ created' = created \cup {Schema[at[p]]}
          /\ Goto(p, at[p] + 1)
  /\ UNCHANGED <<rows, now, ghosts, faults>>

\* One statement of migrate, each of which is at once committed, and each of
\* which (IF NOT EXISTS, OR IGNORE) passes over what is there; after the last the
\* file is validated and open.
migrate(p) ==
  /\ at[p] \in 1..Len(Schema)
  /\ created' = created \cup {Schema[at[p]]}
  /\ Goto(p, at[p] + 1)
  /\ UNCHANGED <<rows, now, ghosts, faults>>

\* SQLITE_BUSY: another process's statement holds the file, and Open fails.  An
\* operation that meets it is refused.
Busy(p) ==
  /\ at[p] \in 1..Len(Schema)
  /\ \E q \in Proc \ {p} : at[q] # Down
  /\ Goto(p, Down)
  /\ UNCHANGED <<created, rows, now, ghosts, faults>>

\* A statement fails, or the process ends without closing the ledger.
Crash(p) ==
  /\ at[p] # Down
  /\ faults < MaxFaults
  /\ faults' = faults + 1
  /\ Goto(p, Down)
  /\ UNCHANGED <<created, rows, now, ghosts>>

----------------------------------------------------------------------------
(* Operations.  One whose row is refused changes nothing.                  *)

Ready(p, table) == at[p] = Opened /\ table \in created

\* Mutant of RecordReceipt: the row of a command delivered again replaces the first.
RecordReceiptOver(p, j) ==
  /\ Ready(p, "receipts")
  /\ receipts' = [receipts EXCEPT ![j] = now]
  /\ told' = [told EXCEPT !.receipts = @ \cup {<<j, now>>}]
  /\ UNCHANGED <<created, starts, results, pubacks, at, now, attempts, floor, faults>>

RecordReceipt(p, j) ==
  /\ Ready(p, "receipts")
  /\ receipts[j] = None
  /\ receipts' = [receipts EXCEPT ![j] = now]
  /\ told' = [told EXCEPT !.receipts = @ \cup {<<j, now>>}]
  /\ UNCHANGED <<created, starts, results, pubacks, at, now, attempts, floor, faults>>

\* Mutant of RecordStart: job_id is no primary key of starts.
RecordStartAgain(p, j) ==
  /\ Ready(p, "starts")
  /\ receipts[j] # None
  /\ starts' = starts \cup {j}
  /\ attempts' = [attempts EXCEPT ![j] = @ + 1]
  /\ told' = [told EXCEPT !.starts = @ \cup {j}]
  /\ UNCHANGED <<created, receipts, results, pubacks, at, now, floor, faults>>

RecordStart(p, j) ==
  /\ Ready(p, "starts")
  /\ receipts[j] # None
  /\ j \notin starts
  /\ starts' = starts \cup {j}
  /\ attempts' = [attempts EXCEPT ![j] = @ + 1]
  /\ told' = [told EXCEPT !.starts = @ \cup {j}]
  /\ UNCHANGED <<created, receipts, results, pubacks, at, now, floor, faults>>

RecordTerminalResult(p, j, state) ==
  /\ Ready(p, "terminal_results")
  /\ receipts[j] # None
  /\ results[j] = None
  /\ results' = [results EXCEPT ![j] = state]
  /\ told' = [told EXCEPT !.results = @ \cup {<<j, state>>}]
  /\ UNCHANGED <<created, receipts, starts, pubacks, at, now, attempts, floor, faults>>

RecordResultPubAck(p, j) ==
  /\ Ready(p, "result_pubacks")
  /\ results[j] # None
  /\ j \notin pubacks
  /\ pubacks' = pubacks \cup {j}
  /\ told' = [told EXCEPT !.acks = @ \cup {j}]
  /\ UNCHANGED <<created, receipts, starts, results, at, now, attempts, floor, faults>>

Old(before) == {j \in Job : receipts[j] # None /\ receipts[j] < before}

\* Mutant of RetainReceipts: the foreign keys cascade.
RetainReceiptsCascade(p, before) ==
  /\ Ready(p, "receipts")
  /\ receipts' = [j \in Job |-> IF j \in Old(before) THEN None ELSE receipts[j]]
  /\ starts' = starts \ Old(before)
  /\ results' = [j \in Job |-> IF j \in Old(before) THEN None ELSE results[j]]
  /\ pubacks' = pubacks \ Old(before)
  /\ floor' = IF before > floor THEN before ELSE floor
  /\ UNCHANGED <<created, at, now, attempts, told, faults>>

\* The DELETE is one statement: one receipt that a start or a result refers to
\* keeps every old receipt, its own and the others.
RetainReceipts(p, before) ==
  /\ Ready(p, "receipts")
  /\ \A j \in Old(before) : j \notin starts /\ results[j] = None
  /\ receipts' = [j \in Job |-> IF j \in Old(before) THEN None ELSE receipts[j]]
  /\ floor' = IF before > floor THEN before ELSE floor
  /\ UNCHANGED <<created, starts, results, pubacks, at, now, attempts, told, faults>>

Tick ==
  /\ now < MaxTime
  /\ now' = now + 1
  /\ UNCHANGED <<created, rows, at, ghosts, faults>>

----------------------------------------------------------------------------
Opening(p) == Open(p) \/ migrate(p)

Operation(p) ==
  \/ \E j \in Job : RecordReceipt(p, j)
  \/ \E j \in Job : RecordStart(p, j)
  \/ \E j \in Job, s \in Terminal : RecordTerminalResult(p, j, s)
  \/ \E j \in Job : RecordResultPubAck(p, j)
  \/ \E n \in 1..MaxTime : RetainReceipts(p, n)

Next == Tick \/ \E p \in Proc : Opening(p) \/ Operation(p) \/ Busy(p) \/ Crash(p)

\* Processes run, and one that has ended is started again.
Fairness == \A p \in Proc : WF_vars(Opening(p))

Spec == Init /\ [][Next]_vars
FairSpec == Spec /\ Fairness

----------------------------------------------------------------------------
\* ARCH-JOB-003: no job is given leave to start twice, although its command is
\* delivered again, its process crashes on either side of a write, and retention
\* forgets receipts (RecordStart, RetainReceipts).
StartedOnce == \A j \in Job : attempts[j] <= 1

\* ADR-0008 section 7 and AC-12: a receipt stays as it was first recorded until
\* retention is given a later time, and retention takes no start, result or
\* acknowledgement, nor the receipt that a start or a result refers to
\* (RecordReceipt, RetainReceipts).
ObservationsKept ==
  /\ \A r \in told.receipts : r[2] >= floor => receipts[r[1]] = r[2]
  /\ told.starts \subseteq starts /\ told.acks \subseteq pubacks
  /\ \A r \in told.results : results[r[1]] = r[2]
  /\ \A j \in starts \cup {r[1] : r \in told.results} : receipts[j] # None

\* ARCH-JOB-002: a ledger that is open has all of its tables, although a process
\* died between any two statements that create them (Open, migrate).
OpenComplete ==
  (\E p \in Proc : at[p] = Opened) => \A i \in 1..Len(Schema) : Schema[i] \in created

\* Whatever an interrupted migrate left, later ones finish it: once nothing fails
\* and no statement of migrate finds the file locked any more, every process has
\* the ledger open (Open, migrate).
Reopens ==
  <>[][\A p \in Proc : ~Busy(p)]_vars => <>[](\A p \in Proc : at[p] = Opened)
=============================================================================
