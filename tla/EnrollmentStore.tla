--------------------------- MODULE EnrollmentStore ---------------------------
(***************************************************************************)
(* The enrollment part of the server's SQLite store (internal/store): the  *)
(* enrollment and agents tables and the audit table.  Each operator below  *)
(* is one transaction, so its conjuncts happen together or not at all.     *)
(***************************************************************************)
EXTENDS EnrollmentEnv

VARIABLES
  record,   \* the enrollment row of each token
  agents,   \* the agents row of each agent: the keys it is active with
  audit     \* audit records that are durable

storeVars == <<record, agents, audit>>

Record == [state : {"absent", "issued", "spent"},
           halves : Key \cup {None}, jwt : JWT \cup {None}]
AuditRecord == [action : {"issued", "credential", "activated", "reached"}, tok : Token]
                 \cup [action : {"denied"}, tok : Token, why : Reason]
Audited(a, t) == [action |-> a, tok |-> t]
Denial(t, r) == [action |-> "denied", tok |-> t, why |-> r]

StoreTypeOK ==
  /\ record \in [Token -> Record]
  /\ agents \in [Token -> Key \cup {None}]
  /\ audit \subseteq AuditRecord

StoreInit ==
  /\ record = [t \in Token |-> [state |-> "absent", halves |-> None, jwt |-> None]]
  /\ agents = [t \in Token |-> None]
  /\ audit = {}

AppendAuditRecord(r) == audit' = audit \cup {r}

IssueEnrollment(t) ==
  /\ record[t].state = "absent"
  /\ record' = [record EXCEPT ![t].state = "issued"]
  /\ AppendAuditRecord(Audited("issued", t))
  /\ UNCHANGED agents

\* Mutant of Recordable: the WHERE clause without `nats_public_key IS NULL`.
RecordableTwice(t) == record[t].state = "issued"

\* The UPDATE's WHERE clause: otherwise ErrAlreadyRecorded.
Recordable(t) == record[t].state = "issued" /\ record[t].halves = None

RecordCredential(t, j) ==
  /\ record' = [record EXCEPT ![t].halves = j.sub, ![t].jwt = j]
  /\ AppendAuditRecord(Audited("credential", t))
  /\ UNCHANGED agents

\* Activate's own check, in its transaction: otherwise ErrNotActivatable.
Activatable(t) == record[t].state = "issued" /\ record[t].jwt # None

Activate(t) ==
  /\ record' = [record EXCEPT ![t].state = "spent"]
  /\ agents' = [agents EXCEPT ![t] = record[t].halves]
  /\ AppendAuditRecord(Audited("activated", t))
=============================================================================
