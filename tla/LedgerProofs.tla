---------------------------- MODULE LedgerProofs -----------------------------
(***************************************************************************)
(* Proofs about the agent's ledger (AgentLedger), for any processes, jobs, *)
(* clock and number of faults: a job is given leave to start once, what    *)
(* was observed stays, and an open ledger has all of its tables.           *)
(*                                                                         *)
(* None of the three is inductive.  LInv adds what each rests on: how many *)
(* leaves were given is what the row in starts says, a start or a result   *)
(* refers to a receipt, and a process past a statement of migrate leaves   *)
(* what that statement created.                                            *)
(***************************************************************************)
EXTENDS AgentLedger, TLAPS

\* A job's row in starts says whether leave to start it was given, once.
LeavesCounted == \A j \in Job : attempts[j] = IF j \in starts THEN 1 ELSE 0

\* The foreign keys: a start or a result refers to a receipt.
Referenced == \A j \in Job : j \in starts \/ results[j] # None => receipts[j] # None

\* A process that is past a statement of migrate has what it created.
Passed == \A p \in Proc : \A i \in 1..Len(Schema) : i < at[p] => Schema[i] \in created

\* What callers were told, as long as retention is not given a later time.
ToldKept ==
  /\ \A r \in told.receipts : r[2] >= floor => receipts[r[1]] = r[2]
  /\ told.starts \subseteq starts /\ told.acks \subseteq pubacks
  /\ \A r \in told.results : results[r[1]] = r[2]

LInv == LedgerTypeOK /\ LeavesCounted /\ Referenced /\ Passed /\ ToldKept

----------------------------------------------------------------------------
\* migrate executes six statements (Schema).
LEMMA SchemaLength == Len(Schema) = 6
  BY DEF Schema

\* A new ledger is empty and nobody was told anything of it (Open).
LEMMA LedgerInit == Init => LInv
  <1> SUFFICES ASSUME Init PROVE LInv
    OBVIOUS
  <1>1. LedgerTypeOK
    BY LedgerAssumption, SchemaLength DEF Init, LedgerTypeOK, Told, Down, Opened
  <1>2. LeavesCounted /\ Referenced /\ Passed /\ ToldKept
    BY SchemaLength DEF Init, LeavesCounted, Referenced, Passed, ToldKept, Down
  <1>3. QED
    BY <1>1, <1>2 DEF LInv

----------------------------------------------------------------------------
(* Opening: the rows and what was told of them are left alone.             *)

\* Starting to open creates nothing (Open).
LEMMA OpenStep ==
  ASSUME LInv, NEW p \in Proc, Open(p) PROVE LInv'
  <1> USE SchemaLength DEF LInv, Open, Goto, rows, ghosts, Down, Opened
  <1>1. LedgerTypeOK'
    BY DEF LedgerTypeOK
  <1>2. Passed'
    BY DEF Passed, LedgerTypeOK
  <1>3. LeavesCounted' /\ Referenced' /\ ToldKept'
    BY DEF LeavesCounted, Referenced, ToldKept
  <1>4. QED
    BY <1>1, <1>2, <1>3

\* A statement of migrate creates what a process past it must find (migrate).
LEMMA MigrateStep ==
  ASSUME LInv, NEW p \in Proc, migrate(p) PROVE LInv'
  <1> USE SchemaLength DEF LInv, migrate, Goto, rows, ghosts, Down, Opened
  <1>1. LedgerTypeOK'
    BY DEF LedgerTypeOK
  <1>2. Passed'
    BY DEF Passed, LedgerTypeOK
  <1>3. LeavesCounted' /\ Referenced' /\ ToldKept'
    BY DEF LeavesCounted, Referenced, ToldKept
  <1>4. QED
    BY <1>1, <1>2, <1>3

\* A crash or a locked file takes the process and nothing that is on disk (main of
\* keystone-ledger-crash, Open).
LEMMA CrashStep ==
  ASSUME LInv, NEW p \in Proc, Busy(p) \/ Crash(p) PROVE LInv'
  <1> USE SchemaLength, LedgerAssumption
      DEF LInv, Busy, Crash, Goto, rows, ghosts, Down, Opened
  <1>1. LedgerTypeOK'
    BY DEF LedgerTypeOK
  <1>2. Passed'
    BY DEF Passed, LedgerTypeOK
  <1>3. LeavesCounted' /\ Referenced' /\ ToldKept'
    BY DEF LeavesCounted, Referenced, ToldKept
  <1>4. QED
    BY <1>1, <1>2, <1>3

\* The clock moves and the ledger does not (Config.Now).
LEMMA TickStep ==
  ASSUME LInv, Tick PROVE LInv'
  <1> USE LedgerAssumption DEF LInv, Tick, rows, ghosts
  <1>1. LedgerTypeOK'
    BY DEF LedgerTypeOK
  <1>2. LeavesCounted' /\ Referenced' /\ Passed' /\ ToldKept'
    BY DEF LeavesCounted, Referenced, Passed, ToldKept
  <1>3. QED
    BY <1>1, <1>2

----------------------------------------------------------------------------
(* Operations.                                                             *)

\* A receipt is recorded where there was none, so no earlier one is replaced:
\* a job that was told of at or after floor has its receipt still
\* (RecordReceipt).
LEMMA ReceiptStep ==
  ASSUME LInv, NEW p \in Proc, NEW j \in Job, RecordReceipt(p, j) PROVE LInv'
  <1> USE LedgerAssumption, NoneAssumption DEF LInv, RecordReceipt
  <1>1. LedgerTypeOK'
    <2>1. told' \in Told
      <3>1. <<j, now>> \in Job \X (1..MaxTime)
        BY DEF LedgerTypeOK
      <3>2. told.receipts \cup {<<j, now>>} \in SUBSET (Job \X (1..MaxTime))
        BY <3>1 DEF LedgerTypeOK, Told
      <3>3. QED
        BY <3>2 DEF LedgerTypeOK, Told
    <2>2. QED
      BY <2>1 DEF LedgerTypeOK
  <1>2. LeavesCounted' /\ Passed'
    BY DEF LeavesCounted, Passed
  <1>3. Referenced'
    BY DEF Referenced, LedgerTypeOK
  <1>4. ToldKept'
    <2>1. ASSUME NEW r \in told'.receipts, r[2] >= floor PROVE receipts'[r[1]] = r[2]
      <3>1. CASE r = <<j, now>>
        BY <3>1 DEF LedgerTypeOK
      <3>2. CASE r \in told.receipts
        <4>1. r \in Job \X (1..MaxTime) /\ receipts[r[1]] = r[2]
          BY <2>1, <3>2 DEF ToldKept, LedgerTypeOK, Told
        <4>2. r[1] # j
          BY <4>1
        <4>3. QED
          BY <4>1, <4>2 DEF LedgerTypeOK
      <3>3. QED
        BY <2>1, <3>1, <3>2 DEF LedgerTypeOK, Told
    <2>2. QED
      BY <2>1 DEF ToldKept, LedgerTypeOK, Told
  <1>5. QED
    BY <1>1, <1>2, <1>3, <1>4

\* Leave to start is given with the job's row in starts, of which the primary
\* key admits one (RecordStart).
LEMMA StartStep ==
  ASSUME LInv, NEW p \in Proc, NEW j \in Job, RecordStart(p, j) PROVE LInv'
  <1> USE DEF LInv, RecordStart
  <1>1. LedgerTypeOK'
    <2>1. told' \in Told
      BY DEF LedgerTypeOK, Told
    <2>2. QED
      BY <2>1 DEF LedgerTypeOK, LeavesCounted
  <1>2. LeavesCounted'
    BY DEF LeavesCounted, LedgerTypeOK
  <1>3. Referenced' /\ Passed'
    BY DEF Referenced, Passed
  <1>4. ToldKept'
    BY DEF ToldKept, LedgerTypeOK, Told
  <1>5. QED
    BY <1>1, <1>2, <1>3, <1>4

\* A result is recorded where there was none (RecordTerminalResult).
LEMMA ResultStep ==
  ASSUME LInv, NEW p \in Proc, NEW j \in Job, NEW s \in Terminal,
         RecordTerminalResult(p, j, s)
  PROVE  LInv'
  <1> USE NoneAssumption DEF LInv, RecordTerminalResult
  <1>1. LedgerTypeOK'
    <2>1. told' \in Told
      <3>1. <<j, s>> \in Job \X Terminal
        BY DEF LedgerTypeOK
      <3>2. told.results \cup {<<j, s>>} \in SUBSET (Job \X Terminal)
        BY <3>1 DEF LedgerTypeOK, Told
      <3>3. QED
        BY <3>2 DEF LedgerTypeOK, Told
    <2>2. QED
      BY <2>1 DEF LedgerTypeOK
  <1>2. LeavesCounted' /\ Passed'
    BY DEF LeavesCounted, Passed
  <1>3. Referenced'
    BY DEF Referenced, LedgerTypeOK
  <1>4. ToldKept'
    <2>1. ASSUME NEW r \in told'.results PROVE results'[r[1]] = r[2]
      <3>1. CASE r = <<j, s>>
        BY <3>1 DEF LedgerTypeOK
      <3>2. CASE r \in told.results
        <4>1. r \in Job \X Terminal /\ results[r[1]] = r[2]
          BY <3>2 DEF ToldKept, LedgerTypeOK, Told
        <4>2. r[1] # j
          BY <4>1
        <4>3. QED
          BY <4>1, <4>2 DEF LedgerTypeOK
      <3>3. QED
        BY <2>1, <3>1, <3>2 DEF LedgerTypeOK, Told
    <2>2. QED
      BY <2>1 DEF ToldKept, LedgerTypeOK, Told
  <1>5. QED
    BY <1>1, <1>2, <1>3, <1>4

\* An acknowledgement is a row of its own (RecordResultPubAck).
LEMMA PubAckStep ==
  ASSUME LInv, NEW p \in Proc, NEW j \in Job, RecordResultPubAck(p, j) PROVE LInv'
  <1> USE DEF LInv, RecordResultPubAck
  <1>1. LedgerTypeOK'
    BY DEF LedgerTypeOK, Told
  <1>2. LeavesCounted' /\ Referenced' /\ Passed'
    BY DEF LeavesCounted, Referenced, Passed
  <1>3. ToldKept'
    BY DEF ToldKept, LedgerTypeOK, Told
  <1>4. QED
    BY <1>1, <1>2, <1>3

\* Retention takes receipts older than its time, of which floor is a bound, and
\* none at all when a start or a result refers to one of them (RetainReceipts).
LEMMA RetainStep ==
  ASSUME LInv, NEW p \in Proc, NEW n \in 1..MaxTime, RetainReceipts(p, n) PROVE LInv'
  <1> USE LedgerAssumption, NoneAssumption DEF LInv, RetainReceipts
  <1>1. LedgerTypeOK'
    BY DEF LedgerTypeOK
  <1>2. LeavesCounted' /\ Passed'
    BY DEF LeavesCounted, Passed
  <1>3. Referenced'
    BY DEF Referenced, LedgerTypeOK
  <1>4. ToldKept'
    <2>1. ASSUME NEW r \in told.receipts, r[2] >= floor' PROVE receipts'[r[1]] = r[2]
      <3>1. r \in Job \X (1..MaxTime) /\ r[2] >= floor /\ r[2] >= n
        BY <2>1 DEF LedgerTypeOK, Told
      <3>2. receipts[r[1]] = r[2]
        BY <3>1 DEF ToldKept
      <3>3. r[1] \notin Old(n)
        BY <3>1, <3>2 DEF Old
      <3>4. QED
        BY <3>1, <3>2, <3>3
    <2>2. QED
      BY <2>1 DEF ToldKept
  <1>5. QED
    BY <1>1, <1>2, <1>3, <1>4

----------------------------------------------------------------------------
\* The ledger's invariant holds whatever order its operations come in, and
\* wherever its processes crash (package ledger).
THEOREM LedgerInvariance == Spec => []LInv
  <1>1. LInv /\ [Next]_vars => LInv'
    <2> SUFFICES ASSUME LInv, [Next]_vars PROVE LInv'
      OBVIOUS
    <2>1. CASE UNCHANGED vars
      BY <2>1 DEF vars, rows, ghosts, LInv, LedgerTypeOK, LeavesCounted, Referenced,
                  Passed, ToldKept
    <2>2. CASE Next
      BY <2>2, OpenStep, MigrateStep, CrashStep, TickStep, ReceiptStep, StartStep,
         ResultStep, PubAckStep, RetainStep DEF Next, Opening, Operation
    <2>3. QED
      BY <2>1, <2>2
  <1>2. QED
    BY LedgerInit, <1>1, PTL DEF Spec

\* The state of the ledger is always of its types (the schema's CHECKs and keys).
THEOREM LedgerTypeAlways == Spec => []LedgerTypeOK
  <1>1. LInv => LedgerTypeOK
    BY DEF LInv
  <1>2. QED
    BY <1>1, LedgerInvariance, PTL

\* No job is given leave to start twice, over any number of deliveries, retries,
\* crashes and retentions (RecordStart, RetainReceipts).
THEOREM StartedOnceAlways == Spec => []StartedOnce
  <1>1. LInv => StartedOnce
    BY DEF LInv, LeavesCounted, StartedOnce
  <1>2. QED
    BY <1>1, LedgerInvariance, PTL

\* What a caller was told is recorded stays recorded, as it was first, until
\* retention is given a later time, and what a start or a result refers to stays
\* for good (RecordReceipt, RetainReceipts).
THEOREM ObservationsKeptAlways == Spec => []ObservationsKept
  <1>1. LInv => ObservationsKept
    <2> SUFFICES ASSUME LInv PROVE ObservationsKept
      OBVIOUS
    <2>1. ASSUME NEW r \in told.results PROVE r[1] \in Job /\ receipts[r[1]] # None
      <3>1. r \in Job \X Terminal /\ results[r[1]] = r[2]
        BY DEF LInv, ToldKept, LedgerTypeOK, Told
      <3>2. QED
        BY <3>1, NoneAssumption DEF LInv, Referenced
    <2>2. \A j \in starts : receipts[j] # None
      BY DEF LInv, Referenced, LedgerTypeOK
    <2>3. QED
      BY <2>1, <2>2 DEF LInv, ToldKept, ObservationsKept
  <1>2. QED
    BY <1>1, LedgerInvariance, PTL

\* An open ledger has all of its tables, wherever a process died while it created
\* them and however many created them at once (Open, migrate).
THEOREM OpenCompleteAlways == Spec => []OpenComplete
  <1>1. LInv => OpenComplete
    BY SchemaLength DEF LInv, Passed, OpenComplete, Opened
  <1>2. QED
    BY <1>1, LedgerInvariance, PTL
=============================================================================
