-------------------------- MODULE EnrollmentSafety ---------------------------
(***************************************************************************)
(* Enrollment's safety, proved from one inductive invariant: whatever a    *)
(* handler remembers, a reply says, a process accepted or a disk holds is  *)
(* still true of the store, because the store only ever grows.             *)
(*                                                                         *)
(* Four results need more.  Durable follows an identity from the disk to   *)
(* activation, Keyed an identity back to the keys beside it, Gated what a  *)
(* held activation keeps from being answered, Lapsed an expiry to every    *)
(* request that is read after it.  The first three say what they ask of    *)
(* the installation.                                                       *)
(***************************************************************************)
EXTENDS EnrollmentTypes

\* Reply r to token t is true of the token's row and of the audit log.
Truthful(row, log, t, r) ==
  /\ r.kind = "credential" => r.jwt = row.jwt
  /\ r.kind = "confirmation" => row.state = "spent"
  /\ r.kind = "denied" => Denial(t, r.why) \in log

\* What a handler read before it acts is out of date only where the row was empty.
Snapshots ==
  \A s \in Server : handling[s] # None =>
    /\ handling[s].rec.jwt # None => handling[s].rec.jwt = record[handling[s].req.tok].jwt
    /\ handling[s].rec.state = "spent" => record[handling[s].req.tok].state = "spent"

Answers ==
  \A s \in Server : answer[s] # None =>
    Truthful(record[answer[s].tok], audit, answer[s].tok, answer[s].reply)

Delivered ==
  \A p \in Proc : \A i \in 1..Len(replies[p]) :
    Truthful(record[BundleOf[p]], audit, BundleOf[p], replies[p][i])

Accepted ==
  \A p \in Proc : got[p] # None => got[p] = record[BundleOf[p]].jwt

Written ==
  \A h \in Host : disk[h].identity # None =>
    /\ disk[h].identity.jwt = record[disk[h].identity.agent].jwt
    /\ disk[h].identity.digest = record[disk[h].identity.agent].halves

Ended ==
  \A p \in Proc :
    /\ pc[p] = "refused" => \/ BundleOf[p] \in late
                            \/ p \in agentLate
                            \/ \E r \in Reason : Denial(BundleOf[p], r) \in audit
    /\ pc[p] \in {"finish", "done"} => record[BundleOf[p]].state = "spent"

Safe == Snapshots /\ Answers /\ Delivered /\ Accepted /\ Written /\ Ended

IInv == TypeInv /\ Safe

----------------------------------------------------------------------------
(* The store only grows.                                                   *)

StoreGrows ==
  /\ \A t \in Token :
       /\ record[t].jwt # None =>
            record'[t].jwt = record[t].jwt /\ record'[t].halves = record[t].halves
       /\ record[t].state = "spent" => record'[t].state = "spent"
       /\ agents[t] # None => agents'[t] = agents[t]
  /\ audit \subseteq audit'

LEMMA StoreUnchangedGrows ==
  ASSUME UNCHANGED storeVars
  PROVE  StoreGrows
BY DEF storeVars, StoreGrows

LEMMA AuditOnlyGrows ==
  ASSUME NEW a, AppendAuditRecord(a), UNCHANGED <<record, agents>>
  PROVE  StoreGrows
BY DEF AppendAuditRecord, StoreGrows

LEMMA RequestStepGrows ==
  ASSUME TypeInv, NEW s \in Server, RequestStep(s)
  PROVE  StoreGrows
<1>1. CASE FirstCredential(s)
  <2>1. handling[s] # None /\ handling[s].req.tok \in Token /\ Recordable(handling[s].req.tok)
    BY <1>1, HandlingType DEF FirstCredential, Minting, Admitted
  <2>2. record[handling[s].req.tok].jwt = None
    BY <2>1, RecordFacts DEF Recordable
  <2> QED
    BY <1>1, <2>1, <2>2 DEF FirstCredential, RecordCredential, AppendAuditRecord, Recordable,
      StoreGrows, TypeInv, TypeOK, StoreTypeOK, Record
<1>2. CASE Refuse(s)
  BY <1>2, AuditOnlyGrows DEF Refuse, Deny
<1>3. CASE LostRace(s)
  BY <1>3, AuditOnlyGrows, StoreUnchangedGrows DEF LostRace, Deny
<1>4. CASE OnRequest(s) \/ RepeatCredential(s) \/ Confirm(s) \/ SendReply(s)
  BY <1>4, StoreUnchangedGrows DEF OnRequest, RepeatCredential, Confirm, SendReply
<1> QED
  BY <1>1, <1>2, <1>3, <1>4 DEF RequestStep

LEMMA PresenceStepGrows ==
  ASSUME TypeInv, NEW s \in Server, PresenceStep(s)
  PROVE  StoreGrows
<1>1. CASE ActivateStep(s)
  <2>1. proving[s].tok \in Token
    BY <1>1 DEF ActivateStep, TypeInv, TypeOK, ServiceTypeOK, Proving
  <2>2. CASE Activatable(proving[s].tok) /\ Activate(proving[s].tok)
    <3>1. agents[proving[s].tok] = None
      BY <2>1, <2>2 DEF Activatable, TypeInv, RecordOK
    <3> QED
      BY <2>1, <2>2, <3>1 DEF Activatable, Activate, AppendAuditRecord, StoreGrows, TypeInv, TypeOK,
        StoreTypeOK, Record
  <2> QED
    BY <1>1, <2>2, StoreUnchangedGrows DEF ActivateStep
<1>2. CASE RecordReached(s)
  BY <1>2, AuditOnlyGrows DEF RecordReached
<1>3. CASE OnPresence(s) \/ HoldEnds(s)
  BY <1>3, StoreUnchangedGrows DEF OnPresence, HoldEnds
<1> QED
  BY <1>1, <1>2, <1>3 DEF PresenceStep

LEMMA CreateGrows ==
  ASSUME TypeInv, NEW t \in Token, Create(t)
  PROVE  StoreGrows
BY DEF Create, IssueEnrollment, AppendAuditRecord, StoreGrows, TypeInv, TypeOK, StoreTypeOK, Record

LEMMA NextGrows == TypeInv /\ [Next]_vars => StoreGrows
<1> SUFFICES ASSUME TypeInv, [Next]_vars PROVE StoreGrows
  OBVIOUS
<1>1. ASSUME NEW s \in Server, ServerStart(s) \/ ServerFault(s) PROVE StoreGrows
  BY <1>1, StoreUnchangedGrows DEF ServerStart, ServerFault, RequestFails, ActivateFails, ServerCrash
<1>2. ASSUME NEW p \in Proc, Stray(p) PROVE StoreGrows
  BY <1>2, StoreUnchangedGrows DEF Stray
<1>3. CASE Clock
  BY <1>3, StoreUnchangedGrows DEF Clock
<1>4. CASE UNCHANGED vars
  BY <1>4, StoreUnchangedGrows DEF vars
<1> QED
  BY <1>1, <1>2, <1>3, <1>4, CreateGrows, RequestStepGrows, PresenceStepGrows,
     StoreUnchangedGrows DEF Next

\* What S1 recorded is authoritative and spent is final, in every behaviour
\* (store.go RecordCredential and Activate).
THEOREM RecordsAreFinal == Spec => RecordedIsFinal
<1>1. TypeInv /\ [Next]_vars =>
        [\A t \in Token :
           /\ record[t].jwt # None =>
                record'[t].jwt = record[t].jwt /\ record'[t].halves = record[t].halves
           /\ record[t].state = "spent" => record'[t].state = "spent"
           /\ agents[t] # None => agents'[t] = agents[t]]_vars
  BY NextGrows DEF StoreGrows
<1> QED
  BY <1>1, TypeInit, TypeNext, PTL DEF Spec, RecordedIsFinal

----------------------------------------------------------------------------
(* The inductive invariant.                                                *)

LEMMA SafeInit == Init => Safe
BY DEF Init, EnvInit, StoreInit, ServiceInit, AgentInit, Safe, Snapshots, Answers, Delivered,
  Accepted, Written, Ended

\* A reply that was true stays true.
LEMMA TruthfulGrows ==
  ASSUME TypeInv, StoreGrows, NEW t \in Token, NEW r \in Reply,
         Truthful(record[t], audit, t, r)
  PROVE  Truthful(record'[t], audit', t, r)
BY ReplyFacts, NoneAssumption DEF Truthful, StoreGrows

LEMMA FrameSnapshots ==
  ASSUME IInv, StoreGrows,
         \A s \in Server : handling'[s] = None \/ handling'[s] = handling[s]
  PROVE  Snapshots'
<1> SUFFICES ASSUME NEW s \in Server, handling'[s] # None
             PROVE  /\ handling'[s].rec.jwt # None =>
                         handling'[s].rec.jwt = record'[handling'[s].req.tok].jwt
                    /\ handling'[s].rec.state = "spent" =>
                         record'[handling'[s].req.tok].state = "spent"
  BY DEF Snapshots
<1>1. handling'[s] = handling[s] /\ handling[s].req.tok \in Token
  BY HandlingType DEF IInv
<1> QED
  BY <1>1 DEF IInv, Safe, Snapshots, StoreGrows

LEMMA FrameAnswers ==
  ASSUME IInv, StoreGrows,
         \A s \in Server : answer'[s] = None \/ answer'[s] = answer[s]
  PROVE  Answers'
<1> SUFFICES ASSUME NEW s \in Server, answer'[s] # None
             PROVE  Truthful(record'[answer'[s].tok], audit', answer'[s].tok, answer'[s].reply)
  BY DEF Answers
<1>1. answer'[s] = answer[s] /\ answer[s].tok \in Token /\ answer[s].reply \in Reply
  BY DEF IInv, TypeInv, TypeOK, ServiceTypeOK, Answer
<1> QED
  BY <1>1, TruthfulGrows DEF IInv, Safe, Answers

LEMMA FrameDelivered ==
  ASSUME IInv, StoreGrows,
         \A p \in Proc : \A i \in 1..Len(replies'[p]) :
           \E j \in 1..Len(replies[p]) : replies'[p][i] = replies[p][j]
  PROVE  Delivered'
<1> SUFFICES ASSUME NEW p \in Proc, NEW i \in 1..Len(replies'[p])
             PROVE  Truthful(record'[BundleOf[p]], audit', BundleOf[p], replies'[p][i])
  BY DEF Delivered
<1>1. PICK j \in 1..Len(replies[p]) : replies'[p][i] = replies[p][j]
  OBVIOUS
<1>2. replies[p][j] \in Reply /\ BundleOf[p] \in Token
  BY EnvAssumption, ElementOfSeq DEF IInv, TypeInv, TypeOK, EnvTypeOK
<1> QED
  BY <1>1, <1>2, TruthfulGrows DEF IInv, Safe, Delivered

LEMMA FrameAccepted ==
  ASSUME IInv, StoreGrows, \A p \in Proc : got'[p] = None \/ got'[p] = got[p]
  PROVE  Accepted'
BY EnvAssumption DEF IInv, Safe, Accepted, StoreGrows

LEMMA FrameWritten ==
  ASSUME IInv, StoreGrows, \A h \in Host : disk'[h].identity = disk[h].identity
  PROVE  Written'
<1> SUFFICES ASSUME NEW h \in Host, disk'[h].identity # None
             PROVE  /\ disk'[h].identity.jwt = record'[disk'[h].identity.agent].jwt
                    /\ disk'[h].identity.digest = record'[disk'[h].identity.agent].halves
  BY DEF Written
<1>1. disk[h].identity # None /\ disk[h].identity.agent \in Token /\ disk[h].identity.jwt \in JWT
  BY DEF IInv, TypeInv, TypeOK, AgentTypeOK, Disk, IdentityArtifact
<1> QED
  BY <1>1, NoneAssumption DEF IInv, Safe, Written, StoreGrows

LEMMA FrameEnded ==
  ASSUME IInv, StoreGrows, late \subseteq late', agentLate \subseteq agentLate',
         \A p \in Proc : pc'[p] \in {"refused", "finish", "done"} =>
           pc'[p] = pc[p] \/ (pc[p] = "finish" /\ pc'[p] = "done")
  PROVE  Ended'
BY EnvAssumption DEF IInv, Safe, Ended, StoreGrows

\* A step that leaves the agents alone, in what their part of the invariant says.
LEMMA FrameAgentSafe ==
  ASSUME IInv, StoreGrows, UNCHANGED agentVars, UNCHANGED clockVars
  PROVE  Accepted' /\ Written' /\ Ended'
BY FrameAccepted, FrameWritten, FrameEnded DEF agentVars, clockVars

LEMMA SameReplies ==
  ASSUME UNCHANGED replies
  PROVE  \A p \in Proc : \A i \in 1..Len(replies'[p]) :
           \E j \in 1..Len(replies[p]) : replies'[p][i] = replies[p][j]
OBVIOUS

LEMMA DecideSafe ==
  ASSUME IInv, StoreGrows, NEW s \in Server, handling[s] # None, NEW r \in Reply, Decide(s, r),
         UNCHANGED agentVars,
         Truthful(record'[handling[s].req.tok], audit', handling[s].req.tok, r)
  PROVE  Safe'
<1>1. Snapshots'
  BY FrameSnapshots DEF Decide, IInv, TypeInv, TypeOK, ServiceTypeOK
<1>2. Answers'
  <2> SUFFICES ASSUME NEW x \in Server, answer'[x] # None
               PROVE  Truthful(record'[answer'[x].tok], audit', answer'[x].tok, answer'[x].reply)
    BY DEF Answers
  <2>1. CASE x = s
    BY <2>1 DEF Decide, IInv, TypeInv, TypeOK, ServiceTypeOK
  <2>2. CASE x # s
    <3>1. answer'[x] = answer[x]
      BY <2>2 DEF Decide, IInv, TypeInv, TypeOK, ServiceTypeOK
    <3>2. answer[x].tok \in Token /\ answer[x].reply \in Reply
      BY <3>1 DEF IInv, TypeInv, TypeOK, ServiceTypeOK, Answer
    <3> QED
      BY <3>1, <3>2, TruthfulGrows DEF IInv, Safe, Answers
  <2> QED BY <2>1, <2>2
<1>3. Delivered'
  BY FrameDelivered, SameReplies DEF Decide, netVars
<1>4. Accepted' /\ Written' /\ Ended'
  BY FrameAgentSafe DEF Decide
<1> QED
  BY <1>1, <1>2, <1>3, <1>4 DEF Safe

LEMMA DenySafe ==
  ASSUME IInv, NEW s \in Server, handling[s] # None, NEW r \in Reason, Deny(s, r),
         UNCHANGED agentVars
  PROVE  Safe'
<1>1. StoreGrows
  BY AuditOnlyGrows DEF Deny
<1>2. DeniedReply(r) \in Reply
  BY DEF Reply
<1>3. Truthful(record'[handling[s].req.tok], audit', handling[s].req.tok, DeniedReply(r))
  BY DEF Deny, AppendAuditRecord, Truthful, DeniedReply
<1> QED
  BY <1>1, <1>2, <1>3, DecideSafe DEF Deny

LEMMA NoReplySafe ==
  ASSUME IInv, NEW s \in Server, NoReply(s), UNCHANGED <<storeVars, agentVars>>
  PROVE  Safe'
<1>1. StoreGrows
  BY StoreUnchangedGrows
<1>2. Snapshots'
  BY <1>1, FrameSnapshots DEF NoReply, IInv, TypeInv, TypeOK, ServiceTypeOK
<1>3. Answers' /\ Delivered'
  BY <1>1, FrameAnswers, FrameDelivered, SameReplies DEF NoReply, netVars
<1> QED
  BY <1>1, <1>2, <1>3, FrameAgentSafe DEF NoReply, Safe

LEMMA RequestStepSafe ==
  ASSUME IInv, NEW s \in Server, RequestStep(s), UNCHANGED agentVars
  PROVE  Safe'
<1> DEFINE t == handling[s].req.tok
<1>0. StoreGrows
  BY RequestStepGrows DEF IInv
<1>1. CASE OnRequest(s)
  <2>1. Snapshots'
    <3> SUFFICES ASSUME NEW x \in Server, handling'[x] # None
                 PROVE  /\ handling'[x].rec.jwt # None =>
                             handling'[x].rec.jwt = record'[handling'[x].req.tok].jwt
                        /\ handling'[x].rec.state = "spent" =>
                             record'[handling'[x].req.tok].state = "spent"
      BY DEF Snapshots
    <3>1. record' = record
      BY <1>1 DEF OnRequest, storeVars
    <3>2. CASE x = s
      BY <1>1, <3>1, <3>2 DEF OnRequest, IInv, TypeInv, TypeOK, ServiceTypeOK
    <3>3. CASE x # s
      BY <1>1, <3>1, <3>3 DEF OnRequest, IInv, TypeInv, TypeOK, ServiceTypeOK, Safe, Snapshots
    <3> QED BY <3>2, <3>3
  <2>2. Answers' /\ Delivered'
    BY <1>0, <1>1, FrameAnswers, FrameDelivered, SameReplies DEF OnRequest
  <2> QED
    BY <1>0, <1>1, <2>1, <2>2, FrameAgentSafe DEF OnRequest, Safe
<1>2. CASE Refuse(s)
  BY <1>2, HandlingType, DenySafe DEF Refuse, Handling, IInv
<1>3. CASE RepeatCredential(s)
  <2>1. handling[s] # None /\ handling[s].rec.jwt # None /\ handling[s].rec.jwt \in JWT
    BY <1>3, HandlingType DEF RepeatCredential, Admitted, Record, IInv
  <2>2. CredentialReply(handling[s].rec.jwt) \in Reply
    BY <2>1 DEF Reply
  <2>3. Truthful(record'[t], audit', t, CredentialReply(handling[s].rec.jwt))
    BY <1>3, <2>1 DEF RepeatCredential, storeVars, Truthful, CredentialReply, IInv, Safe, Snapshots
  <2> QED
    BY <1>0, <1>3, <2>1, <2>2, <2>3, DecideSafe DEF RepeatCredential
<1>4. CASE FirstCredential(s)
  <2>1. handling[s] # None /\ t \in Token /\ Mint(s) \in JWT
    BY <1>4, HandlingType DEF FirstCredential, Minting, Admitted, Mint, JWT, IInv
  <2>2. CredentialReply(Mint(s)) \in Reply
    BY <2>1 DEF Reply
  <2>3. record'[t].jwt = Mint(s)
    BY <1>4, <2>1 DEF FirstCredential, RecordCredential, IInv, TypeInv, TypeOK, StoreTypeOK, Record
  <2>4. Truthful(record'[t], audit', t, CredentialReply(Mint(s)))
    BY <2>3 DEF Truthful, CredentialReply
  <2> QED
    BY <1>0, <1>4, <2>1, <2>2, <2>4, DecideSafe DEF FirstCredential
<1>5. CASE LostRace(s)
  <2>1. handling[s] # None /\ "different public halves" \in Reason
    BY <1>5 DEF LostRace, Minting, Admitted, Reason
  <2>2. CASE /\ record[t].halves = handling[s].req.key
             /\ Decide(s, CredentialReply(record[t].jwt))
             /\ UNCHANGED <<storeVars, faults>>
    <3>1. CredentialReply(record[t].jwt) \in Reply
      BY <2>1, <2>2, HandlingType, RecordFacts DEF Reply, IInv
    <3>2. Truthful(record'[t], audit', t, CredentialReply(record[t].jwt))
      BY <2>2 DEF storeVars, Truthful, CredentialReply
    <3> QED
      BY <1>0, <2>1, <2>2, <3>1, <3>2, DecideSafe
  <2> QED
    BY <1>5, <2>1, <2>2, DenySafe DEF LostRace
<1>6. CASE Confirm(s)
  <2>1. handling[s] # None /\ ConfirmationReply \in Reply
    BY <1>6 DEF Confirm, Admitted, Reply
  <2>2. CASE handling[s].rec.state = "spent" /\ Decide(s, ConfirmationReply)
    <3>1. Truthful(record'[t], audit', t, ConfirmationReply)
      BY <1>6, <2>1, <2>2 DEF Confirm, storeVars, Truthful, ConfirmationReply, IInv, Safe, Snapshots
    <3> QED
      BY <1>0, <2>1, <2>2, <3>1, DecideSafe
  <2> QED
    BY <1>6, <2>2, NoReplySafe DEF Confirm
<1>7. CASE SendReply(s)
  <2>1. PICK R \in SUBSET (subscribed \cap Holders(answer[s].tok)) :
          replies' = Enqueue(replies, R, answer[s].reply)
    BY <1>7 DEF SendReply
  <2>2. answer[s].reply \in Reply
    BY <1>7 DEF SendReply, IInv, TypeInv, TypeOK, ServiceTypeOK, Answer
  <2>3. Delivered'
    <3> SUFFICES ASSUME NEW p \in Proc, NEW i \in 1..Len(replies'[p])
                 PROVE  Truthful(record'[BundleOf[p]], audit', BundleOf[p], replies'[p][i])
      BY DEF Delivered
    <3>1. \/ p \in R /\ replies'[p][i] = answer[s].reply
          \/ i \in 1..Len(replies[p]) /\ replies'[p][i] = replies[p][i]
      <4>1. replies[p] \in Seq(Reply)
        BY DEF IInv, TypeInv, TypeOK, EnvTypeOK
      <4>2. \/ p \in R /\ replies'[p] = Append(replies[p], answer[s].reply)
            \/ replies'[p] = replies[p]
        BY <2>1 DEF Enqueue, IInv, TypeInv, TypeOK, EnvTypeOK
      <4> QED
        BY <2>2, <4>1, <4>2, AppendElement
    <3>2. record' = record /\ audit' = audit
      BY <1>7 DEF SendReply, storeVars
    <3>3. CASE p \in R /\ replies'[p][i] = answer[s].reply
      <4>1. BundleOf[p] = answer[s].tok
        BY <3>3 DEF Holders
      <4> QED
        BY <1>7, <3>2, <3>3, <4>1 DEF SendReply, IInv, Safe, Answers
    <3>4. CASE i \in 1..Len(replies[p]) /\ replies'[p][i] = replies[p][i]
      BY <3>2, <3>4 DEF IInv, Safe, Delivered
    <3> QED BY <3>1, <3>3, <3>4
  <2>4. Answers'
    BY <1>0, <1>7, FrameAnswers DEF SendReply, IInv, TypeInv, TypeOK, ServiceTypeOK
  <2>5. Snapshots'
    BY <1>0, <1>7, FrameSnapshots DEF SendReply
  <2> QED
    BY <1>0, <1>7, <2>3, <2>4, <2>5, FrameAgentSafe DEF SendReply, Safe
<1> QED
  BY <1>1, <1>2, <1>3, <1>4, <1>5, <1>6, <1>7 DEF RequestStep

LEMMA OtherServerSafe ==
  ASSUME IInv, NEW s \in Server, PresenceStep(s) \/ ServerStart(s) \/ ServerFault(s),
         UNCHANGED agentVars
  PROVE  Safe'
<1>0. StoreGrows
  BY PresenceStepGrows, StoreUnchangedGrows
    DEF IInv, ServerStart, ServerFault, RequestFails, ActivateFails, ServerCrash
<1>1. UNCHANGED <<replies, clockVars>>
  BY DEF PresenceStep, OnPresence, ActivateStep, RecordReached, HoldEnds, ServerStart, ServerFault,
    RequestFails, NoReply, ActivateFails, ServerCrash, netVars
<1>2. \A x \in Server : handling'[x] = None \/ handling'[x] = handling[x]
  BY DEF PresenceStep, OnPresence, ActivateStep, RecordReached, HoldEnds, ServerStart, ServerFault,
    RequestFails, NoReply, ActivateFails, ServerCrash, serviceVars, IInv, TypeInv, TypeOK, ServiceTypeOK
<1>3. \A x \in Server : answer'[x] = None \/ answer'[x] = answer[x]
  BY DEF PresenceStep, OnPresence, ActivateStep, RecordReached, HoldEnds, ServerStart, ServerFault,
    RequestFails, NoReply, ActivateFails, ServerCrash, serviceVars, IInv, TypeInv, TypeOK, ServiceTypeOK
<1> QED
  BY <1>0, <1>1, <1>2, <1>3, FrameSnapshots, FrameAnswers, FrameDelivered, SameReplies,
     FrameAgentSafe DEF Safe

LEMMA ExitReplies ==
  ASSUME IInv, NEW p \in Proc, NEW l, Exit(p, l)
  PROVE  /\ \A q \in Proc : \A i \in 1..Len(replies'[q]) :
              \E j \in 1..Len(replies[q]) : replies'[q][i] = replies[q][j]
         /\ \A q \in Proc : got'[q] = None \/ got'[q] = got[q]
         /\ \A q \in Proc : pc'[q] = IF q = p THEN l ELSE pc[q]
<1>1. \A q \in Proc : replies'[q] = IF q = p THEN <<>> ELSE replies[q]
  BY DEF Exit, IInv, TypeInv, TypeOK, EnvTypeOK
<1>2. Len(<<>>) = 0
  BY EmptySeq
<1>3. \A q \in Proc : \A i \in 1..Len(replies'[q]) :
        \E j \in 1..Len(replies[q]) : replies'[q][i] = replies[q][j]
  BY <1>1, <1>2
<1> QED
  BY <1>3 DEF Exit, Goto, IInv, TypeInv, TypeOK, AgentTypeOK

LEMMA ReceiveReplies ==
  ASSUME IInv, NEW p \in Proc, replies[p] # <<>>, Receive(p)
  PROVE  /\ \A q \in Proc : \A i \in 1..Len(replies'[q]) :
              \E j \in 1..Len(replies[q]) : replies'[q][i] = replies[q][j]
         /\ Head(replies[p]) \in Reply
         /\ Truthful(record[BundleOf[p]], audit, BundleOf[p], Head(replies[p]))
<1>1. replies[p] \in Seq(Reply)
  BY DEF IInv, TypeInv, TypeOK, EnvTypeOK
<1>2. /\ Head(replies[p]) \in Reply /\ Head(replies[p]) = replies[p][1] /\ 1 \in 1..Len(replies[p])
      /\ \A i \in 1..Len(Tail(replies[p])) :
           i + 1 \in 1..Len(replies[p]) /\ Tail(replies[p])[i] = replies[p][i + 1]
  BY <1>1, TailElement
<1>3. Truthful(record[BundleOf[p]], audit, BundleOf[p], Head(replies[p]))
  BY <1>2 DEF IInv, Safe, Delivered
<1>4. \A q \in Proc : replies'[q] = IF q = p THEN Tail(replies[p]) ELSE replies[q]
  BY DEF Receive, IInv, TypeInv, TypeOK, EnvTypeOK
<1>5. \A q \in Proc : \A i \in 1..Len(replies'[q]) :
        \E j \in 1..Len(replies[q]) : replies'[q][i] = replies[q][j]
  BY <1>2, <1>4
<1> QED
  BY <1>2, <1>3, <1>5

\* A refusal read from the reply channel has its audit record.
LEMMA DeniedRecorded ==
  ASSUME IInv, NEW p \in Proc, replies[p] # <<>>, Head(replies[p]).kind = "denied"
  PROVE  \E r \in Reason : Denial(BundleOf[p], r) \in audit
<1>1. replies[p] \in Seq(Reply)
  BY DEF IInv, TypeInv, TypeOK, EnvTypeOK
<1>2. Head(replies[p]) \in Reply /\ Head(replies[p]) = replies[p][1] /\ 1 \in 1..Len(replies[p])
  BY <1>1, TailElement
<1>3. Truthful(record[BundleOf[p]], audit, BundleOf[p], Head(replies[p]))
  BY <1>2 DEF IInv, Safe, Delivered
<1> QED
  BY <1>2, <1>3, ReplyFacts DEF Truthful

LEMMA ProcStepSafe ==
  ASSUME IInv, NEW p \in Proc, ProcStep(p) \/ AgentFails(p),
         UNCHANGED <<storeVars, serviceVars>>
  PROVE  Safe'
<1>0. StoreGrows
  BY StoreUnchangedGrows
<1>a. Snapshots' /\ Answers'
  BY <1>0, FrameSnapshots, FrameAnswers DEF serviceVars
<1>b. HostOf[p] \in Host /\ BundleOf[p] \in Token
  BY EnvAssumption
<1>c. record' = record /\ audit' = audit
  BY DEF storeVars
\* The refusals: what explains the exit is on record.
<1>d. ASSUME RefusedExit(p),
             \/ BundleOf[p] \in late
             \/ p \in agentLate
             \/ \E r \in Reason : Denial(BundleOf[p], r) \in audit
      PROVE  Safe'
  <2>1. Delivered' /\ Accepted' /\ Written'
    BY <1>0, <1>d, ExitReplies, FrameDelivered, FrameAccepted, FrameWritten DEF RefusedExit, Exit
  <2>2. Ended'
    <3>1. late' = late /\ agentLate' = agentLate
      BY <1>d DEF RefusedExit, Exit, clockVars
    <3>2. \A q \in Proc : pc'[q] = IF q = p THEN "refused" ELSE pc[q]
      BY <1>d, ExitReplies DEF RefusedExit
    <3> QED
      BY <1>d, <1>c, <3>1, <3>2 DEF IInv, Safe, Ended
  <2> QED BY <1>a, <2>1, <2>2 DEF Safe
\* Any other end.
<1>e. ASSUME NEW l, Exit(p, l), l = "failed" \/ (l = "done" /\ pc[p] = "finish")
      PROVE  Safe'
  <2>1. Delivered' /\ Accepted' /\ Written'
    BY <1>0, <1>e, ExitReplies, FrameDelivered, FrameAccepted, FrameWritten DEF Exit
  <2>2. Ended'
    BY <1>0, <1>e, ExitReplies, FrameEnded DEF Exit, clockVars
  <2> QED BY <1>a, <2>1, <2>2 DEF Safe
\* A step that neither ends the process nor reads a reply.
<1>f. ASSUME NEW l, Goto(p, l), l \notin {"refused", "finish", "done"},
             UNCHANGED <<replies, got, clockVars>>,
             \A h \in Host : disk'[h].identity = disk[h].identity
      PROVE  Safe'
  <2>1. Delivered' /\ Accepted' /\ Written'
    BY <1>0, <1>f, SameReplies, FrameDelivered, FrameAccepted, FrameWritten
  <2>2. Ended'
    BY <1>0, <1>f, FrameEnded DEF Goto, clockVars, IInv, TypeInv, TypeOK, AgentTypeOK
  <2> QED BY <1>a, <2>1, <2>2 DEF Safe
<1>1. CASE Enroll(p)
  BY <1>1, <1>f DEF Enroll, quiet, netVars
<1>2. CASE ReadKeys(p)
  <2>1. CASE (Goto(p, "write") \/ Goto(p, "bootstrap")) /\ UNCHANGED <<quiet, got, disk>>
    BY <2>1, <1>f DEF quiet, netVars
  <2> QED BY <1>2, <1>e, <2>1 DEF ReadKeys, LocalExit
<1>3. CASE WriteKeys(p)
  <2>1. \A h \in Host : disk'[h].identity = disk[h].identity
    BY <1>3, <1>b DEF WriteKeys, IInv, TypeInv, TypeOK, AgentTypeOK, Disk
  <2> QED BY <1>3, <1>f, <2>1 DEF WriteKeys, Step, quiet, netVars
<1>4. CASE Bootstrap(p)
  BY <1>4, <1>f DEF Bootstrap, Step
<1>5. CASE BootstrapRefused(p)
  BY <1>5, <1>d DEF BootstrapRefused
<1>6. CASE ReadIdentity(p)
  <2>1. CASE (Goto(p, "request") \/ Goto(p, "permanent")) /\ UNCHANGED <<quiet, keys, got, disk>>
    BY <2>1, <1>f DEF quiet, netVars
  <2> QED BY <1>6, <1>e, <2>1 DEF ReadIdentity, LocalExit
<1>7. CASE RequestCredential(p)
  BY <1>7, <1>f DEF RequestCredential, SendRequest, Step
<1>8. CASE AwaitCredential(p)
  <2> DEFINE r == Head(replies[p])
  <2>1. CASE r.kind = "denied" /\ RefusedExit(p)
    BY <1>8, <1>d, <2>1, DeniedRecorded DEF AwaitCredential
  <2>2. CASE LocalExit(p)
    BY <2>2, <1>e DEF LocalExit
  <2>3. CASE /\ r.kind = "credential"
             /\ Goto(p, "store")
             /\ got' = [got EXCEPT ![p] = r.jwt]
             /\ Receive(p)
             /\ UNCHANGED <<clockVars, disk>>
    <3>1. Truthful(record[BundleOf[p]], audit, BundleOf[p], r)
      BY <1>8, <2>3, ReceiveReplies DEF AwaitCredential
    <3>2. r.jwt = record[BundleOf[p]].jwt
      BY <2>3, <3>1 DEF Truthful
    <3>3. Accepted'
      BY <1>c, <2>3, <3>2 DEF IInv, TypeInv, TypeOK, AgentTypeOK, Safe, Accepted
    <3>4. Delivered'
      BY <1>0, <1>8, <2>3, ReceiveReplies, FrameDelivered DEF AwaitCredential
    <3>5. Written' /\ Ended'
      BY <1>0, <2>3, FrameWritten, FrameEnded DEF Goto, clockVars, IInv, TypeInv, TypeOK, AgentTypeOK
    <3> QED BY <1>a, <3>3, <3>4, <3>5 DEF Safe
  <2>4. CASE /\ Goto(p, "request")
             /\ Receive(p)
             /\ UNCHANGED <<clockVars, got, disk>>
    <3>1. Delivered'
      BY <1>0, <1>8, <2>4, ReceiveReplies, FrameDelivered DEF AwaitCredential
    <3>2. Accepted' /\ Written' /\ Ended'
      BY <1>0, <2>4, FrameAccepted, FrameWritten, FrameEnded
        DEF Goto, clockVars, IInv, TypeInv, TypeOK, AgentTypeOK
    <3> QED BY <1>a, <3>1, <3>2 DEF Safe
  <2> QED BY <1>8, <2>1, <2>2, <2>3, <2>4 DEF AwaitCredential
<1>9. CASE AwaitTimeout(p)
  BY <1>9, <1>f DEF AwaitTimeout, Step, quiet, netVars
<1>10. CASE DeadlineRefused(p)
  BY <1>10, <1>d DEF DeadlineRefused
<1>11. CASE WriteIdentity(p)
  <2>1. pc[p] = "store" /\ got[p] \in JWT /\ got[p].sub = keys[p]
    BY <1>11 DEF WriteIdentity, Step, IInv, TypeInv, Held
  <2>2. got[p] = record[BundleOf[p]].jwt /\ keys[p] = record[BundleOf[p]].halves
    BY <1>b, <2>1, NoneAssumption DEF IInv, Safe, Accepted, TypeInv, RecordOK
  <2>3. \A h \in Host : disk'[h].identity =
          IF h = HostOf[p] THEN [agent |-> BundleOf[p], jwt |-> got[p], digest |-> keys[p]]
          ELSE disk[h].identity
    BY <1>11, <1>b DEF WriteIdentity, IInv, TypeInv, TypeOK, AgentTypeOK, Disk
  <2>4. Written'
    BY <1>c, <2>2, <2>3 DEF IInv, Safe, Written
  <2>5. Delivered' /\ Accepted'
    BY <1>0, <1>11, SameReplies, FrameDelivered, FrameAccepted DEF WriteIdentity, quiet, netVars
  <2>6. Ended'
    BY <1>0, <1>11, FrameEnded
      DEF WriteIdentity, Step, Goto, quiet, clockVars, IInv, TypeInv, TypeOK, AgentTypeOK
  <2> QED BY <1>a, <2>4, <2>5, <2>6 DEF Safe
<1>12. CASE OpenLedger(p)
  <2>1. \A h \in Host : disk'[h].identity = disk[h].identity
    BY <1>12, <1>b DEF OpenLedger, IInv, TypeInv, TypeOK, AgentTypeOK, Disk
  <2> QED BY <1>12, <1>f, <2>1 DEF OpenLedger, Step, quiet, netVars
<1>13. CASE Permanent(p)
  BY <1>13, <1>f DEF Permanent, quiet, netVars
<1>14. CASE ProvePresence(p)
  BY <1>14, <1>f DEF ProvePresence, SendPresence, Step
<1>15. CASE RequestConfirmation(p)
  BY <1>15, <1>f DEF RequestConfirmation, SendRequest, Step
<1>16. CASE AwaitConfirmation(p)
  <2> DEFINE r == Head(replies[p])
  <2>1. CASE r.kind = "denied" /\ RefusedExit(p)
    BY <1>16, <1>d, <2>1, DeniedRecorded DEF AwaitConfirmation
  <2>2. CASE /\ Goto(p, IF r.kind = "confirmation" THEN "finish" ELSE "confirm")
             /\ Receive(p)
             /\ UNCHANGED <<clockVars, got, disk>>
    <3>1. Truthful(record[BundleOf[p]], audit, BundleOf[p], r)
      BY <1>16, <2>2, ReceiveReplies DEF AwaitConfirmation
    <3>2. Delivered'
      BY <1>0, <1>16, <2>2, ReceiveReplies, FrameDelivered DEF AwaitConfirmation
    <3>3. Accepted' /\ Written'
      BY <1>0, <2>2, FrameAccepted, FrameWritten
    <3>4. Ended'
      BY <1>c, <2>2, <3>1 DEF Truthful, Goto, clockVars, IInv, TypeInv, TypeOK, AgentTypeOK, Safe, Ended
    <3> QED BY <1>a, <3>2, <3>3, <3>4 DEF Safe
  <2> QED BY <1>16, <2>1, <2>2 DEF AwaitConfirmation
<1>17. CASE Finish(p)
  BY <1>17, <1>e DEF Finish
<1>18. CASE AgentFails(p)
  BY <1>18, <1>e DEF AgentFails
<1> QED
  BY <1>1, <1>2, <1>3, <1>4, <1>5, <1>6, <1>7, <1>8, <1>9, <1>10, <1>11, <1>12, <1>13, <1>14,
     <1>15, <1>16, <1>17, <1>18 DEF ProcStep

\* A step that leaves the servers, the reply channels and the processes alone.
LEMMA QuietSafe ==
  ASSUME IInv, StoreGrows, UNCHANGED <<serviceVars, replies, pc, got, disk>>,
         late \subseteq late', agentLate \subseteq agentLate'
  PROVE  Safe'
BY FrameSnapshots, FrameAnswers, FrameDelivered, SameReplies, FrameAccepted, FrameWritten,
   FrameEnded DEF serviceVars, Safe

LEMMA SafeNext == IInv /\ [Next]_vars => Safe'
<1> SUFFICES ASSUME IInv, [Next]_vars PROVE Safe'
  OBVIOUS
<1>0. StoreGrows
  BY NextGrows DEF IInv
<1>1. ASSUME NEW t \in Token, Create(t) PROVE Safe'
  BY <1>0, <1>1, QuietSafe DEF Create, netVars, clockVars
<1>2. ASSUME NEW p \in Proc, Stray(p) PROVE Safe'
  BY <1>0, <1>2, QuietSafe DEF Stray, clockVars, agentVars
<1>3. CASE Clock
  BY <1>0, <1>3, QuietSafe DEF Clock, Expire, Disconnect, AgentExpire, netVars, clockVars, agentVars
<1>4. ASSUME NEW h \in Host, ServeStep(h), UNCHANGED <<storeVars, serviceVars>> PROVE Safe'
  BY <1>0, <1>4, QuietSafe DEF ServeStep, ServeStart, ServePresence, SendPresence, ServeStop,
    netVars, clockVars, agentVars
<1>5. CASE UNCHANGED vars
  BY <1>0, <1>5, QuietSafe DEF vars, netVars, clockVars, agentVars
<1> QED
  BY <1>1, <1>2, <1>3, <1>4, <1>5, RequestStepSafe, OtherServerSafe, ProcStepSafe DEF Next

\* The inductive invariant holds in every reachable state.
THEOREM Invariance == Spec => []IInv
<1>1. Init => IInv
  BY TypeInit, SafeInit DEF IInv
<1>2. IInv /\ [Next]_vars => IInv'
  BY TypeNext, SafeNext DEF IInv
<1> QED
  BY <1>1, <1>2, PTL DEF Spec

----------------------------------------------------------------------------
(* What follows.                                                           *)

\* One token yields one identity: every copy of its JWT anywhere is the one the
\* store recorded, for any number of servers, retries, crashes and losses
\* (service.go credential, agent.go credential).
THEOREM OneCredentialAlways == Spec => []OneCredential
<1>1. IInv => OneCredential
  <2> SUFFICES ASSUME IInv PROVE OneCredential
    OBVIOUS
  <2>1. \A s \in Server : (answer[s] # None /\ answer[s].reply.kind = "credential") =>
          answer[s].reply.jwt = record[answer[s].tok].jwt
    BY DEF IInv, Safe, Answers, Truthful
  <2>2. \A p \in Proc : \A i \in 1..Len(replies[p]) :
          replies[p][i].kind = "credential" => replies[p][i].jwt = record[BundleOf[p]].jwt
    BY DEF IInv, Safe, Delivered, Truthful
  <2> QED
    BY <2>1, <2>2 DEF OneCredential, IInv, Safe, Accepted, Written
<1> QED
  BY <1>1, Invariance, PTL

\* No one is refused off the record (service.go respond).
THEOREM RefusalRecordedAlways == Spec => []RefusalRecorded
<1>1. IInv => RefusalRecorded
  BY DEF IInv, Safe, Delivered, Truthful, Ended, RefusalRecorded
<1> QED
  BY <1>1, Invariance, PTL

----------------------------------------------------------------------------
(* Durable identities.                                                     *)

\* What the next results need of the installation.
OneTokenPerHost == \A p, q \in Proc : HostOf[p] = HostOf[q] => BundleOf[p] = BundleOf[q]
OneProcessPerHost == \A p, q \in Proc : HostOf[p] = HostOf[q] => p = q
OneServer == \A s, x \in Server : s = x

\* Agent t's identity artifact is on one of the disks d.
Stored(d, t) == \E h \in Host : d[h].identity # None /\ d[h].identity.agent = t

\* A host's identity is that of its processes, and is there from S2 on.
Local ==
  \A p \in Proc :
    /\ DiskOf(p).identity # None => DiskOf(p).identity.agent = BundleOf[p]
    /\ pc[p] \in Identified \cup {"finish", "done"} => DiskOf(p).identity # None

\* Every presence, loaded identity, activation in hand and spent token is of an
\* agent whose identity is stored.
Durable ==
  /\ \A s \in Server : \A i \in 1..Len(presences[s]) : Stored(disk, presences[s][i].tok)
  /\ \A h \in Host : serving[h] # None => Stored(disk, serving[h].tok)
  /\ \A s \in Server : proving[s] # None => Stored(disk, proving[s].tok)
  /\ \A t \in Token : record[t].state = "spent" => Stored(disk, t)

\* A process that has its keys has those on its disk, and an identity there was
\* written for them.
KeyedFor(p) ==
  /\ pc[p] = "write" => DiskOf(p).keys = None
  /\ pc[p] \in Running \ {"keys", "write"} =>
       DiskOf(p).keys = [agent |-> BundleOf[p], key |-> keys[p]]
  /\ DiskOf(p).identity # None =>
       /\ DiskOf(p).keys # None
       /\ DiskOf(p).keys.agent = BundleOf[p]
       /\ DiskOf(p).keys.key = DiskOf(p).identity.digest
Keyed == \A p \in Proc : KeyedFor(p)

\* No confirmation of token t has been decided, delivered or taken.
Untold(t) ==
  /\ \A s \in Server : answer[s] # None /\ answer[s].tok = t =>
       answer[s].reply.kind # "confirmation"
  /\ \A p \in Holders(t) :
       /\ pc[p] \notin {"finish", "done"}
       /\ \A i \in 1..Len(replies[p]) : replies[p][i].kind # "confirmation"

\* A token on its way to activation is not spent, and one whose activation is held
\* is not confirmed.
Gated ==
  \A s \in Server, t \in Token : proving[s] # None /\ proving[s].tok = t =>
    /\ proving[s].at = "admitted" => record[t].state # "spent"
    /\ GateHeld(s) => Untold(t)

\* Only S2 writes an identity artifact, and it names its own agent.
LEMMA IdentityMoves ==
  ASSUME TypeInv, [Next]_vars, NEW h \in Host
  PROVE  \/ disk'[h].identity = disk[h].identity
         \/ \E p \in Proc : /\ HostOf[p] = h /\ pc[p] = "store"
                            /\ disk'[h].identity # None
                            /\ disk'[h].identity.agent = BundleOf[p]
<1>1. CASE UNCHANGED disk
  BY <1>1
<1>2. ASSUME NEW p \in Proc, WriteIdentity(p)
      PROVE  \/ disk'[h].identity = disk[h].identity
             \/ \E q \in Proc : /\ HostOf[q] = h /\ pc[q] = "store"
                                /\ disk'[h].identity # None
                                /\ disk'[h].identity.agent = BundleOf[q]
  <2>1. CASE h # HostOf[p]
    BY <1>2, <2>1 DEF WriteIdentity, TypeInv, TypeOK, AgentTypeOK
  <2>2. CASE h = HostOf[p]
    <3>1. /\ pc[p] = "store"
          /\ disk'[h].identity = [agent |-> BundleOf[p], jwt |-> got[p], digest |-> keys[p]]
      BY <1>2, <2>2 DEF WriteIdentity, Step, TypeInv, TypeOK, AgentTypeOK, Disk
    <3>2. disk'[h].identity \in IdentityArtifact
      <4>1. got[p] \in JWT /\ keys[p] \in Key /\ BundleOf[p] \in Token
        BY <3>1, EnvAssumption DEF TypeInv, Held, Running, Unconfirmed
      <4> QED
        BY <3>1, <4>1 DEF IdentityArtifact
    <3>3. disk'[h].identity # None
      BY <3>2, ArtifactAssumption
    <3> QED
      BY <2>2, <3>1, <3>3
  <2> QED
    BY <2>1, <2>2
<1>3. ASSUME NEW p \in Proc, WriteKeys(p) \/ OpenLedger(p)
      PROVE  disk'[h].identity = disk[h].identity
  <2>1. HostOf[p] \in Host /\ disk[h] \in Disk /\ disk \in [Host -> Disk]
    BY EnvAssumption DEF TypeInv, TypeOK, AgentTypeOK
  <2>2. CASE WriteKeys(p)
    BY <2>1, <2>2 DEF WriteKeys, Disk
  <2>3. CASE OpenLedger(p)
    BY <2>1, <2>3 DEF OpenLedger, Disk
  <2> QED
    BY <1>3, <2>2, <2>3
<1>4. ASSUME NEW p \in Proc, ProcStep(p) \/ AgentFails(p),
             ~WriteIdentity(p), ~WriteKeys(p), ~OpenLedger(p)
      PROVE  UNCHANGED disk
  BY <1>4 DEF ProcStep, AgentFails, Enroll, ReadKeys, Bootstrap, BootstrapRefused, ReadIdentity,
    RequestCredential, AwaitCredential, AwaitTimeout, DeadlineRefused, Permanent, ProvePresence,
    RequestConfirmation, AwaitConfirmation, Finish, RefusedExit, LocalExit, Exit
<1>5. ASSUME NEW x \in Host, ServeStep(x) PROVE UNCHANGED disk
  BY <1>5 DEF ServeStep, ServeStart, ServePresence, ServeStop, agentVars
<1> QED
  BY <1>1, <1>2, <1>3, <1>4, <1>5 DEF Next, Create, Stray, Clock, agentVars, vars

\* A process is past S2 only by having written its identity or found it.
LEMMA IdentifiedMoves ==
  ASSUME TypeInv, [Next]_vars, NEW p \in Proc, pc'[p] \in Identified \cup {"finish", "done"}
  PROVE  pc[p] \in Identified \cup {"finish", "done"} \/ disk'[HostOf[p]].identity # None
<1>0. HostOf[p] \in Host /\ BundleOf[p] \in Token
  BY EnvAssumption
<1>1. CASE pc'[p] = pc[p]
  BY <1>1
<1>2. CASE ProcStep(p) \/ AgentFails(p)
  <2>1. CASE WriteIdentity(p)
    <3>1. /\ pc[p] = "store"
          /\ disk'[HostOf[p]].identity = [agent |-> BundleOf[p], jwt |-> got[p], digest |-> keys[p]]
      BY <1>0, <2>1 DEF WriteIdentity, Step, TypeInv, TypeOK, AgentTypeOK, Disk
    <3>2. got[p] \in JWT /\ keys[p] \in Key
      BY <3>1 DEF TypeInv, Held, Running, Unconfirmed
    <3>3. disk'[HostOf[p]].identity \in IdentityArtifact
      BY <1>0, <3>1, <3>2 DEF IdentityArtifact
    <3> QED
      BY <3>3, ArtifactAssumption
  <2>2. CASE ReadIdentity(p)
    BY <1>0, <2>2 DEF ReadIdentity, LocalExit, Exit, Goto, DiskOf, Identified, TypeInv, TypeOK,
      AgentTypeOK
  <2>3. CASE \/ Enroll(p) \/ ReadKeys(p) \/ WriteKeys(p) \/ Bootstrap(p) \/ BootstrapRefused(p)
             \/ RequestCredential(p) \/ AwaitCredential(p) \/ DeadlineRefused(p) \/ AgentFails(p)
    BY <2>3 DEF Enroll, ReadKeys, WriteKeys, Bootstrap, BootstrapRefused, RequestCredential,
      AwaitCredential, DeadlineRefused, AgentFails, RefusedExit, LocalExit, Exit, Step, Goto,
      Identified, TypeInv, TypeOK, AgentTypeOK
  <2>4. CASE \/ AwaitTimeout(p) \/ OpenLedger(p) \/ Permanent(p) \/ ProvePresence(p)
             \/ RequestConfirmation(p) \/ AwaitConfirmation(p) \/ Finish(p)
    BY <2>4 DEF AwaitTimeout, OpenLedger, Permanent, ProvePresence, RequestConfirmation,
      AwaitConfirmation, Finish, Step, Goto, Identified, TypeInv, TypeOK, AgentTypeOK
  <2> QED
    BY <1>2, <2>1, <2>2, <2>3, <2>4 DEF ProcStep
<1>3. ASSUME NEW q \in Proc, q # p, ProcStep(q) \/ AgentFails(q) PROVE pc'[p] = pc[p]
  BY <1>3 DEF ProcStep, AgentFails, Enroll, ReadKeys, WriteKeys, Bootstrap, BootstrapRefused,
    ReadIdentity, RequestCredential, AwaitCredential, AwaitTimeout, DeadlineRefused, WriteIdentity,
    OpenLedger, Permanent, ProvePresence, RequestConfirmation, AwaitConfirmation, Finish,
    RefusedExit, LocalExit, Exit, Step, Goto, TypeInv, TypeOK, AgentTypeOK
<1>4. ASSUME NEW x \in Host, ServeStep(x) PROVE pc'[p] = pc[p]
  BY <1>4 DEF ServeStep, ServeStart, ServePresence, ServeStop, agentVars
<1> QED
  BY <1>1, <1>2, <1>3, <1>4 DEF Next, Create, Stray, Clock, agentVars, vars

\* A stored identity stays stored, and belongs to its host.
LEMMA LocalNext ==
  ASSUME TypeInv, OneTokenPerHost, Local, [Next]_vars
  PROVE  Local' /\ \A t \in Token : Stored(disk, t) => Stored(disk', t)
<1>1. ASSUME NEW p \in Proc, disk'[HostOf[p]].identity # None
      PROVE  disk'[HostOf[p]].identity.agent = BundleOf[p]
  <2>1. HostOf[p] \in Host
    BY EnvAssumption
  <2>2. CASE disk'[HostOf[p]].identity = disk[HostOf[p]].identity
    BY <1>1, <2>2 DEF Local, DiskOf
  <2>3. CASE \E q \in Proc : HostOf[q] = HostOf[p] /\ disk'[HostOf[p]].identity.agent = BundleOf[q]
    BY <2>3 DEF OneTokenPerHost
  <2> QED
    BY <2>1, <2>2, <2>3, IdentityMoves
<1>2. \A h \in Host : disk[h].identity # None => disk'[h].identity # None
  BY IdentityMoves
<1>3. ASSUME NEW p \in Proc, pc'[p] \in Identified \cup {"finish", "done"}
      PROVE  disk'[HostOf[p]].identity # None
  <2>1. HostOf[p] \in Host
    BY EnvAssumption
  <2> QED
    BY <1>2, <1>3, <2>1, IdentifiedMoves DEF Local, DiskOf
<1>4. Local'
  BY <1>1, <1>3 DEF Local, DiskOf
<1>5. ASSUME NEW t \in Token, NEW h \in Host, disk[h].identity # None, disk[h].identity.agent = t
      PROVE  disk'[h].identity # None /\ disk'[h].identity.agent = t
  <2>1. CASE disk'[h].identity = disk[h].identity
    BY <1>5, <2>1
  <2>2. CASE \E p \in Proc : HostOf[p] = h /\ disk'[h].identity.agent = BundleOf[p]
    BY <1>2, <1>5, <2>2 DEF Local, DiskOf
  <2> QED
    BY <1>2, <2>1, <2>2, IdentityMoves
<1>6. ASSUME NEW t \in Token, Stored(disk, t) PROVE Stored(disk', t)
  <2>1. PICK h \in Host : disk[h].identity # None /\ disk[h].identity.agent = t
    BY <1>6 DEF Stored
  <2>2. disk'[h].identity # None /\ disk'[h].identity.agent = t
    BY <1>5, <2>1
  <2> QED
    BY <2>2 DEF Stored
<1> QED
  BY <1>4, <1>6

\* A presence that joins a queue comes from a process past S2, or from a service
\* that loaded its identity.
LEMMA PresenceMoves ==
  ASSUME TypeInv, [Next]_vars, NEW s \in Server, NEW i \in 1..Len(presences'[s])
  PROVE  \/ \E j \in 1..Len(presences[s]) : presences'[s][i] = presences[s][j]
         \/ \E p \in Proc : pc[p] \in Identified /\ presences'[s][i].tok = BundleOf[p]
         \/ \E h \in Host : serving[h] # None /\ presences'[s][i] = serving[h]
<1>0. presences \in [Server -> Seq(Presence)] /\ presences[s] \in Seq(Presence)
  BY DEF TypeInv, TypeOK, EnvTypeOK
<1>1. CASE UNCHANGED presences
  BY <1>1
<1>2. ASSUME NEW m \in Presence, SendPresence(m)
      PROVE  presences'[s][i] = m \/ \E j \in 1..Len(presences[s]) : presences'[s][i] = presences[s][j]
  <2>1. PICK S : presences' = Enqueue(presences, S, m)
    BY <1>2 DEF SendPresence
  <2>2. presences'[s] = presences[s] \/ presences'[s] = Append(presences[s], m)
    BY <1>0, <2>1 DEF Enqueue
  <2> QED
    BY <1>0, <1>2, <2>2, AppendElement
<1>3. ASSUME NEW p \in Proc, ProvePresence(p)
      PROVE  \/ \E j \in 1..Len(presences[s]) : presences'[s][i] = presences[s][j]
             \/ pc[p] \in Identified /\ presences'[s][i].tok = BundleOf[p]
  <2>1. pc[p] \in Identified
    BY <1>3 DEF ProvePresence, Step, Identified
  <2>2. keys[p] \in Key
    BY <2>1 DEF TypeInv, Held, Running, Identified
  <2>3. [tok |-> BundleOf[p], key |-> keys[p]] \in Presence
    BY <2>2, EnvAssumption DEF Presence
  <2>4. SendPresence([tok |-> BundleOf[p], key |-> keys[p]])
    BY <1>3 DEF ProvePresence
  <2> QED
    BY <1>2, <2>1, <2>3, <2>4
<1>4. ASSUME NEW h \in Host, ServePresence(h)
      PROVE  \/ \E j \in 1..Len(presences[s]) : presences'[s][i] = presences[s][j]
             \/ serving[h] # None /\ presences'[s][i] = serving[h]
  <2>1. serving[h] # None /\ serving[h] \in Presence /\ SendPresence(serving[h])
    BY <1>4 DEF ServePresence, TypeInv, TypeOK, AgentTypeOK
  <2> QED
    BY <1>2, <2>1
<1>5. ASSUME NEW x \in Server, OnPresence(x) \/ ServerCrash(x)
      PROVE  \E j \in 1..Len(presences[s]) : presences'[s][i] = presences[s][j]
  <2>1. CASE OnPresence(x)
    <3>1. presences'[s] = presences[s] \/ (presences'[s] = Tail(presences[s]) /\ presences[s] # <<>>)
      BY <1>0, <2>1 DEF OnPresence
    <3>2. CASE presences'[s] = Tail(presences[s]) /\ presences[s] # <<>>
      <4>1. i + 1 \in 1..Len(presences[s]) /\ presences'[s][i] = presences[s][i + 1]
        BY <1>0, <3>2, TailElement
      <4> QED
        BY <4>1
    <3> QED
      BY <3>1, <3>2
  <2>2. CASE ServerCrash(x)
    <3>1. presences'[s] = presences[s] \/ presences'[s] = <<>>
      BY <1>0, <2>2 DEF ServerCrash
    <3>2. Len(<<>>) = 0
      BY EmptySeq
    <3> QED
      BY <3>1, <3>2
  <2> QED
    BY <1>5, <2>1, <2>2
<1>6. ASSUME NEW p \in Proc, ProcStep(p) \/ AgentFails(p), ~ProvePresence(p)
      PROVE  UNCHANGED presences
  BY <1>6 DEF ProcStep, AgentFails, Enroll, ReadKeys, WriteKeys, Bootstrap, BootstrapRefused,
    ReadIdentity, RequestCredential, AwaitCredential, AwaitTimeout, DeadlineRefused, WriteIdentity,
    OpenLedger, Permanent, RequestConfirmation, AwaitConfirmation, Finish, RefusedExit, LocalExit,
    Exit, SendRequest, quiet, netVars
<1>7. ASSUME NEW x \in Server, ~OnPresence(x), ~ServerCrash(x),
             RequestStep(x) \/ PresenceStep(x) \/ ServerStart(x) \/ ServerFault(x)
      PROVE  UNCHANGED presences
  BY <1>7 DEF RequestStep, OnRequest, Refuse, RepeatCredential, FirstCredential, LostRace, Confirm,
    SendReply, Deny, Decide, NoReply, PresenceStep, ActivateStep, RecordReached, HoldEnds,
    ServerStart, ServerFault, RequestFails, ActivateFails, netVars
<1>8. ASSUME NEW h \in Host, ServeStep(h), ~ServePresence(h) PROVE UNCHANGED presences
  BY <1>8 DEF ServeStep, ServeStart, ServeStop, netVars
<1>9. CASE (\E t \in Token : Create(t)) \/ (\E p \in Proc : Stray(p)) \/ Clock \/ UNCHANGED vars
  BY <1>1, <1>9 DEF Create, Stray, Clock, Expire, Disconnect, AgentExpire, netVars, vars
<1> QED
  BY <1>1, <1>3, <1>4, <1>5, <1>6, <1>7, <1>8, <1>9 DEF Next

\* A service serves the identity it loaded from its disk.
LEMMA ServingMoves ==
  ASSUME TypeInv, [Next]_vars, NEW h \in Host, serving'[h] # None
  PROVE  \/ serving'[h] = serving[h]
         \/ disk[h].identity # None /\ serving'[h].tok = disk[h].identity.agent
<1>1. ASSUME NEW x \in Host, ServeStep(x)
      PROVE  \/ serving'[h] = serving[h]
             \/ disk[h].identity # None /\ serving'[h].tok = disk[h].identity.agent
  <2>1. serving \in [Host -> Presence \cup {None}]
    BY DEF TypeInv, TypeOK, AgentTypeOK
  <2> QED
    BY <1>1, <2>1 DEF ServeStep, ServeStart, ServePresence, ServeStop, Enrolled, agentVars
<1>2. ASSUME NEW p \in Proc, ProcStep(p) \/ AgentFails(p) PROVE UNCHANGED serving
  BY <1>2 DEF ProcStep, AgentFails, Enroll, ReadKeys, WriteKeys, Bootstrap, BootstrapRefused,
    ReadIdentity, RequestCredential, AwaitCredential, AwaitTimeout, DeadlineRefused, WriteIdentity,
    OpenLedger, Permanent, ProvePresence, RequestConfirmation, AwaitConfirmation, Finish,
    RefusedExit, LocalExit, Exit, quiet
<1> QED
  BY <1>1, <1>2 DEF Next, Create, Stray, Clock, agentVars, vars

\* onPresence takes in hand what a presence in its queue asks for, and Activate
\* spends only what onPresence has in hand.
LEMMA ProvingMoves ==
  ASSUME TypeInv, [Next]_vars
  PROVE  /\ \A s \in Server : proving'[s] # None =>
              \/ proving[s] # None /\ proving'[s].tok = proving[s].tok
              \/ presences[s] # <<>> /\ proving'[s].tok = Head(presences[s]).tok
         /\ \A t \in Token : record'[t].state = "spent" =>
              \/ record[t].state = "spent"
              \/ \E s \in Server : proving[s] # None /\ proving[s].tok = t
<1> DEFINE G == /\ \A s \in Server : proving'[s] # None =>
                     \/ proving[s] # None /\ proving'[s].tok = proving[s].tok
                     \/ presences[s] # <<>> /\ proving'[s].tok = Head(presences[s]).tok
                /\ \A t \in Token : record'[t].state = "spent" =>
                     \/ record[t].state = "spent"
                     \/ \E s \in Server : proving[s] # None /\ proving[s].tok = t
<1>0. /\ record \in [Token -> Record] /\ proving \in [Server -> Proving \cup {None}]
      /\ handling \in [Server -> Handling \cup {None}]
  BY DEF TypeInv, TypeOK, StoreTypeOK, ServiceTypeOK
<1>1. ASSUME UNCHANGED <<record, proving>> PROVE G
  BY <1>1
<1>2. ASSUME NEW t \in Token, Create(t) PROVE G
  BY <1>0, <1>2 DEF Create, IssueEnrollment, serviceVars, Record
<1>3. ASSUME NEW s \in Server, FirstCredential(s) PROVE G
  BY <1>0, <1>3 DEF FirstCredential, RecordCredential, Decide, Record
<1>4. ASSUME NEW s \in Server, RequestStep(s), ~FirstCredential(s) PROVE G
  BY <1>1, <1>4 DEF RequestStep, OnRequest, Refuse, RepeatCredential, LostRace, Confirm, SendReply,
    Deny, Decide, NoReply, storeVars
<1>5. ASSUME NEW s \in Server, OnPresence(s) \/ HoldEnds(s) \/ ActivateFails(s) \/ ServerCrash(s)
      PROVE  G
  BY <1>0, <1>5 DEF OnPresence, HoldEnds, ActivateFails, ServerCrash, storeVars
<1>6. ASSUME NEW s \in Server, RecordReached(s) PROVE G
  BY <1>0, <1>6 DEF RecordReached, Proving
<1>7. ASSUME NEW s \in Server, ActivateStep(s) PROVE G
  <2>1. proving[s] # None /\ proving[s].tok \in Token
    BY <1>0, <1>7 DEF ActivateStep, Proving
  <2>2. \A t \in Token \ {proving[s].tok} : record'[t] = record[t]
    BY <1>0, <1>7 DEF ActivateStep, Activate, storeVars
  <2>3. \A x \in Server : proving'[x] # None => proving[x] # None /\ proving'[x].tok = proving[x].tok
    BY <1>0, <1>7 DEF ActivateStep, Proving
  <2> QED
    BY <2>1, <2>2, <2>3
<1>8. ASSUME NEW s \in Server, ServerStart(s) \/ RequestFails(s) PROVE G
  BY <1>1, <1>8 DEF ServerStart, RequestFails, NoReply, storeVars, serviceVars
<1>9. G
  <2> HIDE DEF G
  <2>1. ASSUME NEW s \in Server,
               RequestStep(s) \/ PresenceStep(s) \/ ServerStart(s) \/ ServerFault(s)
        PROVE  G
    BY <2>1, <1>3, <1>4, <1>5, <1>6, <1>7, <1>8 DEF PresenceStep, ServerFault
  <2>2. CASE (\E p \in Proc : Stray(p)) \/ Clock \/ UNCHANGED vars
    BY <1>1, <2>2 DEF Stray, Clock, vars, storeVars, serviceVars
  <2> QED
    BY <1>1, <1>2, <2>1, <2>2 DEF Next, storeVars, serviceVars
<1> QED
  BY <1>9

\* Durable is kept: each link of the chain from S2 to S4 leads to a stored identity.
LEMMA DurableNext ==
  ASSUME TypeInv, OneTokenPerHost, Local, Durable, [Next]_vars
  PROVE  Durable'
<1>1. \A t \in Token : Stored(disk, t) => Stored(disk', t)
  BY LocalNext
<1>2. ASSUME NEW h \in Host, disk[h].identity # None
      PROVE  disk[h].identity.agent \in Token /\ Stored(disk, disk[h].identity.agent)
  BY <1>2 DEF Stored, TypeInv, TypeOK, AgentTypeOK, Disk, IdentityArtifact
<1>3. ASSUME NEW s \in Server, NEW j \in 1..Len(presences[s])
      PROVE  presences[s][j].tok \in Token /\ Stored(disk, presences[s][j].tok)
  <2>1. presences[s] \in Seq(Presence)
    BY DEF TypeInv, TypeOK, EnvTypeOK
  <2>2. presences[s][j] \in Presence
    BY <2>1, ElementOfSeq
  <2> QED
    BY <2>2 DEF Presence, Durable
<1>4. ASSUME NEW h \in Host, serving[h] # None
      PROVE  serving[h].tok \in Token /\ Stored(disk, serving[h].tok)
  BY <1>4 DEF Durable, TypeInv, TypeOK, AgentTypeOK, Presence
<1>5. ASSUME NEW s \in Server, proving[s] # None
      PROVE  proving[s].tok \in Token /\ Stored(disk, proving[s].tok)
  BY <1>5 DEF Durable, TypeInv, TypeOK, ServiceTypeOK, Proving
<1>6. ASSUME NEW s \in Server, NEW i \in 1..Len(presences'[s])
      PROVE  Stored(disk', presences'[s][i].tok)
  <2>1. CASE \E j \in 1..Len(presences[s]) : presences'[s][i] = presences[s][j]
    BY <1>1, <1>3, <2>1
  <2>2. ASSUME NEW p \in Proc, pc[p] \in Identified, presences'[s][i].tok = BundleOf[p]
        PROVE  Stored(disk', presences'[s][i].tok)
    <3>1. BundleOf[p] \in Token /\ HostOf[p] \in Host /\ disk[HostOf[p]].identity # None
          /\ disk[HostOf[p]].identity.agent = BundleOf[p]
      BY <2>2, EnvAssumption DEF Local, DiskOf
    <3> QED
      BY <1>1, <1>2, <2>2, <3>1
  <2>3. CASE \E h \in Host : serving[h] # None /\ presences'[s][i] = serving[h]
    BY <1>1, <1>4, <2>3
  <2> QED
    BY <2>1, <2>2, <2>3, PresenceMoves
<1>7. ASSUME NEW h \in Host, serving'[h] # None PROVE Stored(disk', serving'[h].tok)
  <2>1. CASE serving'[h] = serving[h]
    BY <1>1, <1>4, <1>7, <2>1
  <2>2. CASE disk[h].identity # None /\ serving'[h].tok = disk[h].identity.agent
    BY <1>1, <1>2, <2>2
  <2> QED
    BY <1>7, <2>1, <2>2, ServingMoves
<1>8. ASSUME NEW s \in Server, proving'[s] # None PROVE Stored(disk', proving'[s].tok)
  <2>1. CASE proving[s] # None /\ proving'[s].tok = proving[s].tok
    BY <1>1, <1>5, <2>1
  <2>2. CASE presences[s] # <<>> /\ proving'[s].tok = Head(presences[s]).tok
    <3>1. Head(presences[s]) = presences[s][1] /\ 1 \in 1..Len(presences[s])
      BY <2>2, TailElement DEF TypeInv, TypeOK, EnvTypeOK
    <3> QED
      BY <1>1, <1>3, <2>2, <3>1
  <2> QED
    BY <1>8, <2>1, <2>2, ProvingMoves
<1>9. ASSUME NEW t \in Token, record'[t].state = "spent" PROVE Stored(disk', t)
  <2>1. CASE record[t].state = "spent"
    BY <1>1, <2>1 DEF Durable
  <2>2. CASE \E s \in Server : proving[s] # None /\ proving[s].tok = t
    BY <1>1, <1>5, <2>2
  <2> QED
    BY <1>9, <2>1, <2>2, ProvingMoves
<1> QED
  BY <1>6, <1>7, <1>8, <1>9 DEF Durable

\* No process has started, and no token exists.
LEMMA DurableInit == Init => Local /\ Durable
<1> SUFFICES ASSUME Init PROVE Local /\ Durable
  OBVIOUS
<1> USE DEF Init, EnvInit, StoreInit, ServiceInit, AgentInit
<1>1. Local
  BY EnvAssumption DEF Local, DiskOf, Identified
<1>2. \A s \in Server : Len(presences[s]) = 0
  BY EmptySeq
<1> QED
  BY <1>1, <1>2 DEF Durable

\* S4 never happens for an agent that could not survive a restart: a spent token's
\* agent is active with the halves S1 recorded, and its identity is on a disk,
\* wherever the bundle was copied to and however its presences were delayed or
\* repeated.  A host is given one token's bundle (service.go onPresence, agent.go
\* credential).
THEOREM ActiveIdentityDurableAlways ==
  ASSUME OneTokenPerHost
  PROVE  Spec => []ActiveIdentityDurable
<1>1. Init => IInv /\ Local /\ Durable
  BY TypeInit, SafeInit, DurableInit DEF IInv
<1>2. IInv /\ Local /\ Durable /\ [Next]_vars => (IInv /\ Local /\ Durable)'
  BY TypeNext, SafeNext, LocalNext, DurableNext DEF IInv
<1>3. IInv /\ Durable => ActiveIdentityDurable
  <2> SUFFICES ASSUME IInv, Durable, NEW t \in Token, record[t].state = "spent"
               PROVE  /\ agents[t] = record[t].halves
                      /\ \E h \in Host : /\ disk[h].identity # None
                                         /\ disk[h].identity.agent = t
                                         /\ disk[h].identity.jwt = record[t].jwt
    BY DEF ActiveIdentityDurable
  <2>1. agents[t] = record[t].halves
    BY DEF IInv, TypeInv, RecordOK
  <2>2. PICK h \in Host : disk[h].identity # None /\ disk[h].identity.agent = t
    BY DEF Durable, Stored
  <2>3. disk[h].identity.jwt = record[t].jwt
    BY <2>2 DEF IInv, Safe, Written
  <2> QED
    BY <2>1, <2>2, <2>3
<1> QED
  BY <1>1, <1>2, <1>3, PTL DEF Spec

----------------------------------------------------------------------------
(* Exit 0.                                                                 *)

\* A process and its host's disk are changed by that process only.
LEMMA OthersApart ==
  ASSUME TypeInv, OneProcessPerHost, NEW p \in Proc, NEW q \in Proc, q # p,
         ProcStep(p) \/ AgentFails(p)
  PROVE  pc'[q] = pc[q] /\ keys'[q] = keys[q] /\ disk'[HostOf[q]] = disk[HostOf[q]]
<1>0. /\ HostOf[q] # HostOf[p] /\ HostOf[p] \in Host /\ HostOf[q] \in Host
      /\ pc \in [Proc -> Idle \cup Running] /\ keys \in [Proc -> Key \cup {None}]
      /\ disk \in [Host -> Disk]
  BY EnvAssumption DEF OneProcessPerHost, TypeInv, TypeOK, AgentTypeOK
<1>1. pc'[q] = pc[q]
  BY <1>0 DEF ProcStep, AgentFails, Enroll, ReadKeys, WriteKeys, Bootstrap, BootstrapRefused,
    ReadIdentity, RequestCredential, AwaitCredential, AwaitTimeout, DeadlineRefused, WriteIdentity,
    OpenLedger, Permanent, ProvePresence, RequestConfirmation, AwaitConfirmation, Finish,
    RefusedExit, LocalExit, Exit, Step, Goto
<1>2. keys'[q] = keys[q]
  BY <1>0 DEF ProcStep, AgentFails, Enroll, ReadKeys, WriteKeys, Bootstrap, BootstrapRefused,
    ReadIdentity, RequestCredential, AwaitCredential, AwaitTimeout, DeadlineRefused, WriteIdentity,
    OpenLedger, Permanent, ProvePresence, RequestConfirmation, AwaitConfirmation, Finish,
    RefusedExit, LocalExit, Exit
<1>3. disk'[HostOf[q]] = disk[HostOf[q]]
  BY <1>0 DEF ProcStep, AgentFails, Enroll, ReadKeys, WriteKeys, Bootstrap, BootstrapRefused,
    ReadIdentity, RequestCredential, AwaitCredential, AwaitTimeout, DeadlineRefused, WriteIdentity,
    OpenLedger, Permanent, ProvePresence, RequestConfirmation, AwaitConfirmation, Finish,
    RefusedExit, LocalExit, Exit
<1> QED
  BY <1>1, <1>2, <1>3

\* A process's own steps keep its keys, its key artifact and its identity together
\* (agent.go keys and credential).
LEMMA KeyedStep ==
  ASSUME TypeInv, NEW p \in Proc, KeyedFor(p), ProcStep(p) \/ AgentFails(p)
  PROVE  KeyedFor(p)'
<1>0. /\ HostOf[p] \in Host /\ BundleOf[p] \in Token
      /\ pc \in [Proc -> Idle \cup Running] /\ keys \in [Proc -> Key \cup {None}]
      /\ disk \in [Host -> Disk] /\ disk[HostOf[p]] \in Disk
  BY EnvAssumption DEF TypeInv, TypeOK, AgentTypeOK
\* The process moves on with its keys, or ends.
<1>1. ASSUME disk'[HostOf[p]] = disk[HostOf[p]], pc'[p] # "write",
             pc'[p] \in Running \ {"keys", "write"} =>
               pc[p] \in Running \ {"keys", "write"} /\ keys'[p] = keys[p]
      PROVE  KeyedFor(p)'
  BY <1>1 DEF KeyedFor, DiskOf
<1>2. ASSUME NEW l \in Idle, Exit(p, l) PROVE KeyedFor(p)'
  <2>1. pc'[p] = l /\ disk' = disk
    BY <1>0, <1>2 DEF Exit, Goto
  <2>2. l \notin Running
    BY DEF Idle, Running, Unconfirmed, Identified
  <2> QED
    BY <1>1, <2>1, <2>2 DEF Running, Unconfirmed
<1>3. {"refused", "failed", "done"} \subseteq Idle
  BY DEF Idle
<1>4. CASE Enroll(p)
  <2>1. pc'[p] = "keys" /\ disk' = disk
    BY <1>0, <1>4 DEF Enroll, Goto
  <2> QED
    BY <1>1, <2>1
<1>5. CASE ReadKeys(p)
  <2>1. CASE DiskOf(p).keys = None /\ Goto(p, "write") /\ UNCHANGED disk
    <3>1. pc'[p] = "write" /\ disk' = disk
      BY <1>0, <2>1 DEF Goto
    <3> QED
      BY <2>1, <3>1 DEF KeyedFor, DiskOf
  <2>2. CASE /\ DiskOf(p).keys # None /\ DiskOf(p).keys.agent = BundleOf[p]
             /\ Goto(p, "bootstrap") /\ UNCHANGED disk
             /\ keys' = [keys EXCEPT ![p] = DiskOf(p).keys.key]
    <3>1. pc'[p] = "bootstrap" /\ disk' = disk /\ keys'[p] = DiskOf(p).keys.key
      BY <1>0, <2>2 DEF Goto
    <3>2. DiskOf(p).keys \in KeyArtifact
      BY <1>0, <2>2 DEF DiskOf, Disk
    <3>3. DiskOf(p).keys = [agent |-> BundleOf[p], key |-> keys'[p]]
      BY <2>2, <3>1, <3>2 DEF KeyArtifact
    <3> QED
      BY <3>1, <3>3 DEF KeyedFor, DiskOf
  <2> QED
    BY <1>2, <1>3, <1>5, <2>1, <2>2 DEF ReadKeys, LocalExit
<1>6. CASE WriteKeys(p)
  <2>1. /\ pc[p] = "write" /\ pc'[p] = "bootstrap" /\ keys'[p] = p
        /\ disk'[HostOf[p]].identity = disk[HostOf[p]].identity
        /\ disk'[HostOf[p]].keys = [agent |-> BundleOf[p], key |-> p]
    BY <1>0, <1>6 DEF WriteKeys, Step, Goto, Disk
  <2>2. disk[HostOf[p]].identity = None
    BY <2>1 DEF KeyedFor, DiskOf
  <2> QED
    BY <2>1, <2>2 DEF KeyedFor, DiskOf
<1>7. CASE WriteIdentity(p)
  <2>1. /\ pc[p] = "store" /\ pc'[p] = "ledger" /\ keys' = keys
        /\ disk'[HostOf[p]].keys = disk[HostOf[p]].keys
        /\ disk'[HostOf[p]].identity = [agent |-> BundleOf[p], jwt |-> got[p], digest |-> keys[p]]
    BY <1>0, <1>7 DEF WriteIdentity, Step, Goto, Disk
  <2>2. disk[HostOf[p]].keys = [agent |-> BundleOf[p], key |-> keys[p]]
    BY <2>1 DEF KeyedFor, DiskOf, Running, Unconfirmed
  <2>3. keys[p] \in Key
    BY <2>1 DEF TypeInv, Held, Running, Unconfirmed
  <2>4. [agent |-> BundleOf[p], key |-> keys[p]] \in KeyArtifact
    BY <1>0, <2>3 DEF KeyArtifact
  <2>5. disk[HostOf[p]].keys # None
    BY <2>2, <2>4, ArtifactAssumption
  <2> QED
    BY <2>1, <2>2, <2>5 DEF KeyedFor, DiskOf
<1>8. CASE OpenLedger(p)
  <2>1. /\ pc[p] = "ledger" /\ pc'[p] = "written" /\ keys' = keys
        /\ disk'[HostOf[p]].keys = disk[HostOf[p]].keys
        /\ disk'[HostOf[p]].identity = disk[HostOf[p]].identity
    BY <1>0, <1>8 DEF OpenLedger, Step, Goto, Disk
  <2> QED
    BY <2>1 DEF KeyedFor, DiskOf, Running, Identified
<1>9. ASSUME NEW l \in Running \ {"keys", "write"}, Goto(p, l), pc[p] \in Running \ {"keys", "write"},
             UNCHANGED <<keys, disk>>
      PROVE  KeyedFor(p)'
  <2>1. pc'[p] = l
    BY <1>0, <1>9 DEF Goto
  <2> QED
    BY <1>1, <1>9, <2>1
<1>10. CASE \/ Bootstrap(p) \/ RequestCredential(p) \/ AwaitTimeout(p) \/ Permanent(p)
            \/ ProvePresence(p) \/ RequestConfirmation(p)
  BY <1>9, <1>10 DEF Bootstrap, RequestCredential, AwaitTimeout, Permanent, ProvePresence,
    RequestConfirmation, Step, Running, Unconfirmed, Identified
<1>11. CASE ReadIdentity(p) \/ AwaitCredential(p) \/ AwaitConfirmation(p)
  BY <1>2, <1>3, <1>9, <1>11 DEF ReadIdentity, AwaitCredential, AwaitConfirmation, RefusedExit,
    LocalExit, Running, Unconfirmed, Identified
<1>12. CASE BootstrapRefused(p) \/ DeadlineRefused(p) \/ Finish(p) \/ AgentFails(p)
  BY <1>2, <1>3, <1>12 DEF BootstrapRefused, DeadlineRefused, Finish, AgentFails, RefusedExit
<1> QED
  BY <1>4, <1>5, <1>6, <1>7, <1>8, <1>10, <1>11, <1>12 DEF ProcStep

\* No two processes share a host, so none disturbs another's.
LEMMA KeyedNext ==
  ASSUME TypeInv, OneProcessPerHost, Keyed, [Next]_vars
  PROVE  Keyed'
<1>1. \A q \in Proc : KeyedFor(q)
  BY DEF Keyed
<1>2. ASSUME UNCHANGED <<pc, keys, disk>> PROVE \A q \in Proc : KeyedFor(q)'
  BY <1>1, <1>2 DEF KeyedFor, DiskOf
<1>3. ASSUME NEW p \in Proc, ProcStep(p) \/ AgentFails(p), NEW q \in Proc PROVE KeyedFor(q)'
  <2>1. CASE q = p
    BY <1>1, <1>3, <2>1, KeyedStep
  <2>2. CASE q # p
    <3>1. pc'[q] = pc[q] /\ keys'[q] = keys[q] /\ disk'[HostOf[q]] = disk[HostOf[q]]
      BY <1>3, <2>2, OthersApart
    <3> QED
      BY <1>1, <3>1 DEF KeyedFor, DiskOf
  <2> QED
    BY <2>1, <2>2
<1>4. ASSUME NEW h \in Host, ServeStep(h) PROVE UNCHANGED <<pc, keys, disk>>
  BY <1>4 DEF ServeStep, ServeStart, ServePresence, ServeStop, agentVars
<1>5. \A q \in Proc : KeyedFor(q)'
  BY <1>2, <1>3, <1>4 DEF Next, Create, Stray, Clock, agentVars, vars
<1> QED
  BY <1>5 DEF Keyed

\* Exit 0 means what the operator takes it to mean: the agent of this host is
\* active, its token is spent, and the artifacts on its disk load as that identity.
\* No two enroll processes run on one host; any number of hosts may hold the bundle
\* (agent.go confirm, reconnect.go LoadEnrolled).
THEOREM SuccessMeansActiveAlways ==
  ASSUME OneProcessPerHost
  PROVE  Spec => []SuccessMeansActive
<1>0. OneTokenPerHost
  BY DEF OneProcessPerHost, OneTokenPerHost
<1>1. Init => IInv /\ Local /\ Keyed
  <2> SUFFICES ASSUME Init PROVE Keyed
    BY TypeInit, SafeInit, DurableInit DEF IInv
  <2> QED
    BY EnvAssumption DEF Init, AgentInit, Keyed, KeyedFor, DiskOf, Running, Unconfirmed, Identified
<1>2. IInv /\ Local /\ Keyed /\ [Next]_vars => (IInv /\ Local /\ Keyed)'
  BY <1>0, TypeNext, SafeNext, LocalNext, KeyedNext DEF IInv
<1>3. IInv /\ Local /\ Keyed => SuccessMeansActive
  <2> SUFFICES ASSUME IInv, Local, Keyed, NEW p \in Proc, pc[p] \in {"finish", "done"}
               PROVE  /\ record[BundleOf[p]].state = "spent"
                      /\ Enrolled(HostOf[p])
                      /\ agents[BundleOf[p]] = DiskOf(p).keys.key
    BY DEF SuccessMeansActive
  <2>1. BundleOf[p] \in Token /\ HostOf[p] \in Host
    BY EnvAssumption
  <2>2. record[BundleOf[p]].state = "spent"
    BY DEF IInv, Safe, Ended
  <2>3. agents[BundleOf[p]] = record[BundleOf[p]].halves
    BY <2>1, <2>2 DEF IInv, TypeInv, RecordOK
  <2>4. DiskOf(p).identity # None /\ DiskOf(p).identity.agent = BundleOf[p]
    BY DEF Local
  <2>5. DiskOf(p).identity.digest = record[BundleOf[p]].halves
    BY <2>1, <2>4 DEF IInv, Safe, Written, DiskOf
  <2> QED
    BY <2>2, <2>3, <2>4, <2>5 DEF Keyed, KeyedFor, Enrolled, DiskOf
<1> QED
  BY <1>1, <1>2, <1>3, PTL DEF Spec

----------------------------------------------------------------------------
(* The hold after activation.                                              *)

\* No confirmation exists of a token that is not spent.
LEMMA UntoldWhileIssued ==
  ASSUME IInv, NEW t \in Token, record[t].state # "spent"
  PROVE  Untold(t)
<1>1. \A s \in Server : answer[s] # None /\ answer[s].tok = t => answer[s].reply.kind # "confirmation"
  BY DEF IInv, Safe, Answers, Truthful
<1>2. ASSUME NEW p \in Holders(t)
      PROVE  /\ pc[p] \notin {"finish", "done"}
             /\ \A i \in 1..Len(replies[p]) : replies[p][i].kind # "confirmation"
  <2>1. p \in Proc /\ BundleOf[p] = t
    BY DEF Holders
  <2> QED
    BY <2>1 DEF IInv, Safe, Ended, Delivered, Truthful
<1> QED
  BY <1>1, <1>2 DEF Untold

\* A step that decides, delivers and takes no confirmation leaves a token untold.
LEMMA UntoldKept ==
  ASSUME NEW t, Untold(t),
         \A s \in Server : answer'[s] # None => \/ answer'[s] = answer[s]
                                                \/ answer'[s].reply.kind # "confirmation",
         \A p \in Holders(t) : \A i \in 1..Len(replies'[p]) :
           \/ \E j \in 1..Len(replies[p]) : replies'[p][i] = replies[p][j]
           \/ replies'[p][i].kind # "confirmation",
         \A p \in Holders(t) : pc'[p] \in {"finish", "done"} => pc[p] \in {"finish", "done"}
  PROVE  Untold(t)'
BY DEF Untold, Holders

\* Nobody confirms but Confirm, and nobody finishes without a confirmation
\* (service.go handle, agent.go confirm).
LEMMA UntoldNext ==
  ASSUME IInv, [Next]_vars, NEW t \in Token, Untold(t), \A s \in Server : ~Confirm(s)
  PROVE  Untold(t)'
<1> DEFINE A == \A s \in Server : answer'[s] # None =>
                  answer'[s] = answer[s] \/ answer'[s].reply.kind # "confirmation"
           R == \A p \in Holders(t) : \A i \in 1..Len(replies'[p]) :
                  \/ \E j \in 1..Len(replies[p]) : replies'[p][i] = replies[p][j]
                  \/ replies'[p][i].kind # "confirmation"
           P == \A p \in Holders(t) : pc'[p] \in {"finish", "done"} => pc[p] \in {"finish", "done"}
<1>0. /\ Holders(t) \subseteq Proc /\ answer \in [Server -> Answer \cup {None}]
      /\ replies \in [Proc -> Seq(Reply)] /\ pc \in [Proc -> Idle \cup Running]
  BY DEF Holders, IInv, TypeInv, TypeOK, EnvTypeOK, ServiceTypeOK, AgentTypeOK
<1>1. ASSUME UNCHANGED replies PROVE R
  BY <1>1
\* The servers.
<1>2. ASSUME NEW s \in Server, NEW r, Decide(s, r), r.kind # "confirmation" PROVE A /\ R
  BY <1>0, <1>1, <1>2 DEF Decide, netVars
<1>3. ASSUME NEW s \in Server, RequestStep(s), UNCHANGED agentVars PROVE Untold(t)'
  <2>0. P
    BY <1>3 DEF agentVars
  <2>1. CASE OnRequest(s)
    <3>1. A /\ R
      BY <1>1, <2>1 DEF OnRequest
    <3> QED
      BY <2>0, <3>1, UntoldKept
  <2>2. CASE Refuse(s) \/ RepeatCredential(s) \/ FirstCredential(s) \/ LostRace(s)
    <3>1. A /\ R
      BY <1>2, <2>2 DEF Refuse, RepeatCredential, FirstCredential, LostRace, Deny, DeniedReply,
        CredentialReply
    <3> QED
      BY <2>0, <3>1, UntoldKept
  <2>3. CASE SendReply(s)
    <3>1. answer[s] # None /\ A
      BY <1>0, <2>3 DEF SendReply
    <3>2. PICK S \in SUBSET (subscribed \cap Holders(answer[s].tok)) :
            replies' = Enqueue(replies, S, answer[s].reply)
      BY <2>3 DEF SendReply
    <3>3. answer[s].reply \in Reply
      BY <1>0, <3>1 DEF Answer
    <3>4. ASSUME NEW p \in Holders(t), NEW i \in 1..Len(replies'[p])
          PROVE  \/ \E j \in 1..Len(replies[p]) : replies'[p][i] = replies[p][j]
                 \/ replies'[p][i].kind # "confirmation"
      <4>1. p \in Proc /\ BundleOf[p] = t /\ replies[p] \in Seq(Reply)
        BY <1>0 DEF Holders
      <4>2. CASE replies'[p] = replies[p]
        BY <4>2
      <4>3. CASE p \in S /\ replies'[p] = Append(replies[p], answer[s].reply)
        <5>1. answer[s].tok = t
          BY <3>2, <4>1, <4>3 DEF Holders
        <5>2. answer[s].reply.kind # "confirmation"
          BY <3>1, <5>1 DEF Untold
        <5> QED
          BY <3>3, <4>1, <4>3, <5>2, AppendElement
      <4> QED
        BY <1>0, <3>2, <4>1, <4>2, <4>3 DEF Enqueue
    <3> QED
      BY <2>0, <3>1, <3>4, UntoldKept
  <2> QED
    BY <1>3, <2>1, <2>2, <2>3 DEF RequestStep
<1>4. ASSUME NEW s \in Server, PresenceStep(s) \/ ServerStart(s) \/ ServerFault(s),
             UNCHANGED agentVars
      PROVE  Untold(t)'
  <2>1. A /\ R
    BY <1>0, <1>1, <1>4 DEF PresenceStep, OnPresence, ActivateStep, RecordReached, HoldEnds,
      ServerStart, ServerFault, RequestFails, NoReply, ActivateFails, ServerCrash, netVars, serviceVars
  <2>2. P
    BY <1>4 DEF agentVars
  <2> QED
    BY <2>1, <2>2, UntoldKept
\* The processes.
<1>5. ASSUME NEW p \in Proc, ProcStep(p) \/ AgentFails(p), UNCHANGED <<storeVars, serviceVars>>
      PROVE  Untold(t)'
  <2>1. A
    BY <1>5 DEF serviceVars
  <2>2. R
    <3>1. ASSUME NEW l, Exit(p, l) PROVE R
      BY <1>0, <3>1, ExitReplies
    <3>2. ASSUME replies[p] # <<>>, Receive(p) PROVE R
      BY <1>0, <3>2, ReceiveReplies
    <3>3. CASE AwaitCredential(p) \/ AwaitConfirmation(p)
      BY <3>1, <3>2, <3>3 DEF AwaitCredential, AwaitConfirmation, RefusedExit, LocalExit
    <3>4. CASE \/ BootstrapRefused(p) \/ DeadlineRefused(p) \/ Finish(p) \/ AgentFails(p)
      BY <3>1, <3>4 DEF BootstrapRefused, DeadlineRefused, Finish, AgentFails, RefusedExit
    <3>5. CASE ReadKeys(p) \/ ReadIdentity(p)
      BY <1>1, <3>1, <3>5 DEF ReadKeys, ReadIdentity, LocalExit, quiet, netVars
    <3>6. CASE \/ Enroll(p) \/ WriteKeys(p) \/ Bootstrap(p) \/ RequestCredential(p)
               \/ AwaitTimeout(p) \/ WriteIdentity(p) \/ OpenLedger(p) \/ Permanent(p)
               \/ ProvePresence(p) \/ RequestConfirmation(p)
      BY <1>1, <3>6 DEF Enroll, WriteKeys, Bootstrap, RequestCredential, AwaitTimeout,
        WriteIdentity, OpenLedger, Permanent, ProvePresence, RequestConfirmation, SendRequest,
        SendPresence, quiet, netVars
    <3> QED
      BY <1>5, <3>3, <3>4, <3>5, <3>6 DEF ProcStep
  <2>3. P
    <3>1. ASSUME NEW q \in Proc, q # p PROVE pc'[q] = pc[q]
      BY <1>0, <1>5, <3>1 DEF ProcStep, AgentFails, Enroll, ReadKeys, WriteKeys, Bootstrap,
        BootstrapRefused, ReadIdentity, RequestCredential, AwaitCredential, AwaitTimeout,
        DeadlineRefused, WriteIdentity, OpenLedger, Permanent, ProvePresence, RequestConfirmation,
        AwaitConfirmation, Finish, RefusedExit, LocalExit, Exit, Step, Goto
    <3>2. ASSUME p \in Holders(t), pc'[p] \in {"finish", "done"} PROVE pc[p] \in {"finish", "done"}
      <4>1. CASE AwaitConfirmation(p)
        <5>1. replies[p] # <<>> /\ replies[p] \in Seq(Reply)
          BY <1>0, <4>1 DEF AwaitConfirmation
        <5>2. Head(replies[p]) = replies[p][1] /\ 1 \in 1..Len(replies[p])
          BY <5>1, TailElement
        <5>3. Head(replies[p]).kind # "confirmation"
          BY <3>2, <5>2 DEF Untold
        <5> QED
          BY <1>0, <3>2, <4>1, <5>3 DEF AwaitConfirmation, RefusedExit, Exit, Goto
      <4>2. CASE Finish(p)
        BY <4>2 DEF Finish
      <4>3. CASE ProcStep(p) \/ AgentFails(p)
        BY <1>0, <3>2, <4>1, <4>2, <4>3 DEF ProcStep, AgentFails, Enroll, ReadKeys, WriteKeys,
          Bootstrap, BootstrapRefused, ReadIdentity, RequestCredential, AwaitCredential,
          AwaitTimeout, DeadlineRefused, WriteIdentity, OpenLedger, Permanent, ProvePresence,
          RequestConfirmation, RefusedExit, LocalExit, Exit, Step, Goto
      <4> QED
        BY <1>5, <4>3
    <3> QED
      BY <1>0, <3>1, <3>2
  <2> QED
    BY <2>1, <2>2, <2>3, UntoldKept
<1>6. ASSUME UNCHANGED <<answer, replies, pc>> PROVE Untold(t)'
  BY <1>6 DEF Untold, Holders
<1>7. ASSUME NEW h \in Host, ServeStep(h) PROVE UNCHANGED <<replies, pc>>
  BY <1>7 DEF ServeStep, ServeStart, ServePresence, ServeStop, SendPresence, netVars, agentVars
<1>8. CASE (\E x \in Token : Create(x)) \/ (\E p \in Proc : Stray(p)) \/ Clock \/ UNCHANGED vars
  BY <1>6, <1>8 DEF Create, Stray, Clock, Expire, Disconnect, AgentExpire, netVars, serviceVars,
    agentVars, vars
<1> QED
  BY <1>3, <1>4, <1>5, <1>6, <1>7, <1>8 DEF Next, serviceVars


\* Only ActivateStep spends a token, and only the presence callback moves what it
\* has in hand.
LEMMA OnlyActivateSpends ==
  ASSUME TypeInv, [Next]_vars,
         \A s \in Server : ~OnPresence(s) /\ ~ActivateStep(s) /\ ~RecordReached(s)
  PROVE  /\ \A s \in Server : proving'[s] = None \/ proving'[s] = proving[s]
         /\ \A t \in Token : record'[t].state = "spent" => record[t].state = "spent"
<1> DEFINE G == /\ \A s \in Server : proving'[s] = None \/ proving'[s] = proving[s]
                /\ \A t \in Token : record'[t].state = "spent" => record[t].state = "spent"
<1>0. /\ record \in [Token -> Record] /\ proving \in [Server -> Proving \cup {None}]
      /\ handling \in [Server -> Handling \cup {None}]
  BY DEF TypeInv, TypeOK, StoreTypeOK, ServiceTypeOK
<1>1. ASSUME UNCHANGED <<record, proving>> PROVE G
  BY <1>1
<1>2. ASSUME NEW t \in Token, Create(t) PROVE G
  BY <1>0, <1>2 DEF Create, IssueEnrollment, serviceVars, Record
<1>3. ASSUME NEW s \in Server, FirstCredential(s) PROVE G
  BY <1>0, <1>3 DEF FirstCredential, RecordCredential, Decide, Record
<1>4. ASSUME NEW s \in Server, RequestStep(s), ~FirstCredential(s) PROVE G
  BY <1>1, <1>4 DEF RequestStep, OnRequest, Refuse, RepeatCredential, LostRace, Confirm, SendReply,
    Deny, Decide, NoReply, storeVars
<1>5. ASSUME NEW s \in Server, HoldEnds(s) \/ ActivateFails(s) \/ ServerCrash(s) PROVE G
  BY <1>0, <1>5 DEF HoldEnds, ActivateFails, ServerCrash, storeVars
<1>6. ASSUME NEW s \in Server, ServerStart(s) \/ RequestFails(s) PROVE G
  BY <1>1, <1>6 DEF ServerStart, RequestFails, NoReply, storeVars, serviceVars
<1>7. G
  <2> HIDE DEF G
  <2>1. ASSUME NEW s \in Server,
               RequestStep(s) \/ PresenceStep(s) \/ ServerStart(s) \/ ServerFault(s)
        PROVE  G
    BY <2>1, <1>3, <1>4, <1>5, <1>6 DEF PresenceStep, ServerFault
  <2>2. CASE (\E p \in Proc : Stray(p)) \/ Clock \/ UNCHANGED vars
    BY <1>1, <2>2 DEF Stray, Clock, vars, storeVars, serviceVars
  <2> QED
    BY <1>1, <1>2, <2>1, <2>2 DEF Next, storeVars, serviceVars
<1> QED
  BY <1>7

\* One server: its presence callback alone spends tokens, one at a time, and its
\* gate keeps its own confirmations back (service.go handle and onPresence).
LEMMA GatedNext ==
  ASSUME IInv, OneServer, Gated, [Next]_vars
  PROVE  Gated'
<1>0. /\ proving \in [Server -> Proving \cup {None}] /\ record \in [Token -> Record]
      /\ \A s \in Server : proving[s] # None => proving[s] \in Proving
  BY DEF IInv, TypeInv, TypeOK, StoreTypeOK, ServiceTypeOK
<1> SUFFICES ASSUME NEW s \in Server, NEW t \in Token, proving'[s] # None, proving'[s].tok = t
             PROVE  /\ proving'[s].at = "admitted" => record'[t].state # "spent"
                    /\ proving'[s].at \in {"reached", "hold"} => Untold(t)'
  BY DEF Gated, GateHeld
<1>1. ASSUME \A x \in Server : ~Confirm(x), Untold(t) PROVE Untold(t)'
  BY <1>1, UntoldNext
<1>2. ASSUME proving[s] # None, proving[s].tok = t
      PROVE  /\ proving[s].at = "admitted" => record[t].state # "spent"
             /\ proving[s].at \in {"reached", "hold"} => Untold(t)
  BY <1>2 DEF Gated, GateHeld
<1>3. CASE \E x \in Server : Confirm(x)
  <2>1. Confirm(s)
    BY <1>3 DEF OneServer
  <2>2. ~GateHeld(s) /\ proving' = proving /\ record' = record
    BY <2>1 DEF Confirm, GateOpen, Decide, NoReply, storeVars
  <2>3. proving[s] # None => proving[s].at \notin {"reached", "hold"}
    BY <2>2 DEF GateHeld
  <2> QED
    BY <1>2, <2>2, <2>3
<1>4. CASE \A x \in Server : ~Confirm(x)
  <2>1. CASE OnPresence(s)
    <3>1. UNCHANGED record
      BY <2>1 DEF OnPresence, storeVars
    <3>2. CASE proving'[s] = proving[s]
      BY <1>1, <1>2, <1>4, <3>1, <3>2
    <3>3. CASE proving'[s] # proving[s]
      <4>1. PICK m : Proves(m) /\ proving' = [proving EXCEPT ![s] = [tok |-> m.tok, at |-> "admitted"]]
        BY <1>0, <2>1, <3>3 DEF OnPresence
      <4>2. proving'[s] = [tok |-> m.tok, at |-> "admitted"]
        BY <1>0, <4>1
      <4>3. record[t].state = "issued"
        BY <4>1, <4>2 DEF Proves, Activatable
      <4> QED
        BY <3>1, <4>2, <4>3
    <3> QED
      BY <3>2, <3>3
  <2>2. CASE ActivateStep(s)
    <3>1. /\ proving[s] # None /\ proving[s].tok = t /\ proving'[s].at = "reached"
          /\ Activatable(t)
      BY <1>0, <2>2 DEF ActivateStep, Proving
    <3>2. Untold(t)
      BY <3>1, UntoldWhileIssued DEF Activatable
    <3> QED
      BY <1>1, <1>4, <3>1, <3>2
  <2>3. CASE RecordReached(s)
    <3>1. /\ proving[s] # None /\ proving[s].tok = t /\ proving[s].at = "reached"
          /\ proving'[s].at = "hold"
      BY <1>0, <2>3 DEF RecordReached, Proving
    <3> QED
      BY <1>1, <1>2, <1>4, <3>1
  <2>4. CASE ~OnPresence(s) /\ ~ActivateStep(s) /\ ~RecordReached(s)
    <3>1. \A x \in Server : ~OnPresence(x) /\ ~ActivateStep(x) /\ ~RecordReached(x)
      BY <2>4 DEF OneServer
    <3>2. proving'[s] = proving[s] /\ (record'[t].state = "spent" => record[t].state = "spent")
      BY <3>1, OnlyActivateSpends DEF IInv
    <3> QED
      BY <1>1, <1>2, <1>4, <3>2
  <2> QED
    BY <2>1, <2>2, <2>3, <2>4
<1> QED
  BY <1>3, <1>4

\* While a server holds a token's activation, no confirmation of that token has
\* been answered, for any number of hosts and processes, although the handler read
\* the record before it waited at the gate.  One server runs (service.go handle and
\* onPresence).
THEOREM HeldUnconfirmedAlways ==
  ASSUME OneServer
  PROVE  Spec => []HeldUnconfirmed
<1>1. Init => IInv /\ Gated
  <2> SUFFICES ASSUME Init PROVE Gated
    BY TypeInit, SafeInit DEF IInv
  <2> QED
    BY DEF Init, ServiceInit, Gated
<1>2. IInv /\ Gated /\ [Next]_vars => (IInv /\ Gated)'
  BY TypeNext, SafeNext, GatedNext DEF IInv
<1>3. IInv /\ Gated => HeldUnconfirmed
  <2> SUFFICES ASSUME IInv, Gated, NEW s \in Server, GateHeld(s), NEW p \in Holders(proving[s].tok)
               PROVE  /\ pc[p] \notin {"finish", "done"}
                      /\ ConfirmationReply \notin {replies[p][i] : i \in 1..Len(replies[p])}
    BY DEF HeldUnconfirmed
  <2>1. proving[s] # None /\ proving[s].tok \in Token
    BY DEF GateHeld, IInv, TypeInv, TypeOK, ServiceTypeOK, Proving
  <2>2. Untold(proving[s].tok)
    BY <2>1 DEF Gated
  <2> QED
    BY <2>2 DEF Untold, ConfirmationReply
<1> QED
  BY <1>1, <1>2, <1>3, PTL DEF Spec

----------------------------------------------------------------------------
(* Expiry.                                                                 *)

\* The token has expired unused, and no handler that admits its request is at work.
Lapsed(t) ==
  /\ t \in late /\ record[t].jwt = None
  /\ \A s \in Server :
       handling[s] # None /\ handling[s].req.tok = t => handling[s].verdict # "admit"

\* No step takes an expiry back.
LEMMA LateGrows == [Next]_vars => late \subseteq late'
<1> SUFFICES ASSUME [Next]_vars PROVE late \subseteq late'
  OBVIOUS
<1>1. ASSUME NEW s \in Server,
             RequestStep(s) \/ PresenceStep(s) \/ ServerStart(s) \/ ServerFault(s)
      PROVE  late' = late
  BY <1>1 DEF RequestStep, OnRequest, Refuse, RepeatCredential, FirstCredential, LostRace, Confirm,
    SendReply, PresenceStep, OnPresence, ActivateStep, RecordReached, HoldEnds, ServerStart,
    ServerFault, RequestFails, ActivateFails, ServerCrash, Deny, Decide, NoReply, clockVars
<1>2. ASSUME NEW p \in Proc, RefusedExit(p) \/ LocalExit(p)
      PROVE  late' = late
  BY <1>2 DEF RefusedExit, LocalExit, Exit, clockVars
<1>3. ASSUME NEW p \in Proc, AgentFails(p)
      PROVE  late' = late
  BY <1>3 DEF AgentFails, Exit, clockVars
<1>4. ASSUME NEW p \in Proc, ProcStep(p)
      PROVE  late' = late
  <2>1. CASE Enroll(p) \/ ReadKeys(p) \/ WriteKeys(p) \/ Bootstrap(p) \/ BootstrapRefused(p)
             \/ ReadIdentity(p) \/ RequestCredential(p)
    BY <1>2, <2>1 DEF Enroll, ReadKeys, WriteKeys, Bootstrap, BootstrapRefused, ReadIdentity,
      RequestCredential, quiet, clockVars
  <2>2. CASE AwaitCredential(p) \/ AwaitTimeout(p) \/ DeadlineRefused(p) \/ WriteIdentity(p)
             \/ OpenLedger(p) \/ Permanent(p)
    BY <1>2, <2>2 DEF AwaitCredential, AwaitTimeout, DeadlineRefused, WriteIdentity, OpenLedger,
      Permanent, quiet, clockVars
  <2>3. CASE ProvePresence(p) \/ RequestConfirmation(p) \/ AwaitConfirmation(p) \/ Finish(p)
    BY <1>2, <2>3 DEF ProvePresence, RequestConfirmation, AwaitConfirmation, Finish, Exit, quiet,
      clockVars
  <2> QED
    BY <1>4, <2>1, <2>2, <2>3 DEF ProcStep
<1>5. ASSUME NEW h \in Host, ServeStep(h)
      PROVE  late' = late
  BY <1>5 DEF ServeStep, ServeStart, ServePresence, ServeStop, clockVars
<1>6. ASSUME NEW t \in Token, Create(t)
      PROVE  late' = late
  BY <1>6 DEF Create, clockVars
<1>7. ASSUME NEW p \in Proc, Stray(p)
      PROVE  late' = late
  BY <1>7 DEF Stray, clockVars
<1>8. CASE Clock
  BY <1>8 DEF Clock, Expire, Disconnect, AgentExpire, clockVars
<1>9. CASE UNCHANGED vars
  BY <1>9 DEF vars, clockVars
<1> QED
  BY <1>1, <1>3, <1>4, <1>5, <1>6, <1>7, <1>8, <1>9 DEF Next

\* A lapsed token stays lapsed: what is read of it from now on is refused, since
\* handle checks expiry before it admits, and only an admitted request records.
LEMMA LapsedNext ==
  ASSUME TypeInv, NEW t \in Token, Lapsed(t), [Next]_vars
  PROVE  Lapsed(t)'
<1>0. /\ record \in [Token -> Record] /\ handling \in [Server -> Handling \cup {None}]
  BY DEF TypeInv, TypeOK, StoreTypeOK, ServiceTypeOK
<1> DEFINE G == /\ record'[t].jwt = None
                /\ \A s \in Server : handling'[s] # None /\ handling'[s].req.tok = t =>
                                       handling'[s].verdict # "admit"
<1>1. ASSUME record' = record, \A s \in Server : handling'[s] = None \/ handling'[s] = handling[s]
      PROVE  G
  BY <1>1 DEF Lapsed
<1>2. ASSUME NEW c \in Token, Create(c) PROVE G
  BY <1>0, <1>2 DEF Create, IssueEnrollment, serviceVars, Record, Lapsed
<1>3. ASSUME NEW s \in Server, OnRequest(s) PROVE G
  <2>1. record' = record /\ \A x \in Server \ {s} : handling'[x] = handling[x]
    BY <1>0, <1>3 DEF OnRequest, storeVars
  <2>2. ASSUME handling'[s].req.tok = t PROVE handling'[s].verdict # "admit"
    <3> DEFINE req == Head(requests[s])
    <3>1. handling'[s] = [req |-> req, rec |-> record[req.tok],
                          verdict |-> Verdict(record[req.tok], req, req.tok \in late)]
      BY <1>0, <1>3 DEF OnRequest
    <3>2. ASSUME NEW e \in BOOLEAN, e PROVE Verdict(record[req.tok], req, e) # "admit"
      BY <3>2 DEF Verdict
    <3> HIDE DEF req
    <3>3. req.tok = t /\ handling'[s].verdict = Verdict(record[req.tok], req, req.tok \in late)
      BY <2>2, <3>1
    <3>4. (req.tok \in late) \in BOOLEAN /\ req.tok \in late
      BY <3>3 DEF Lapsed
    <3> QED
      BY <3>2, <3>3, <3>4
  <2> QED
    BY <2>1, <2>2 DEF Lapsed
<1>4. ASSUME NEW s \in Server, FirstCredential(s) PROVE G
  <2>1. handling[s] # None /\ handling[s].verdict = "admit" /\ handling[s].req.tok # t
    BY <1>4 DEF FirstCredential, Minting, Admitted, Lapsed
  <2>2. record'[t] = record[t]
    BY <1>0, <1>4, <2>1 DEF FirstCredential, RecordCredential
  <2>3. \A x \in Server : handling'[x] = None \/ handling'[x] = handling[x]
    BY <1>0, <1>4 DEF FirstCredential, Decide
  <2> QED
    BY <2>2, <2>3 DEF Lapsed
<1>5. ASSUME NEW s \in Server,
             Refuse(s) \/ RepeatCredential(s) \/ LostRace(s) \/ Confirm(s) \/ SendReply(s)
      PROVE  G
  BY <1>0, <1>1, <1>5 DEF Refuse, RepeatCredential, LostRace, Confirm, SendReply, Deny, Decide,
    NoReply, storeVars
<1>6. ASSUME NEW s \in Server, ActivateStep(s) PROVE G
  BY <1>0, <1>6 DEF ActivateStep, Activate, storeVars, Record, Lapsed
<1>7. ASSUME NEW s \in Server,
             OnPresence(s) \/ RecordReached(s) \/ HoldEnds(s) \/ ServerStart(s) \/ ServerFault(s)
      PROVE  G
  BY <1>0, <1>1, <1>7 DEF OnPresence, RecordReached, HoldEnds, ServerStart, ServerFault,
    RequestFails, ActivateFails, ServerCrash, NoReply, storeVars, serviceVars
<1>8. G
  <2> HIDE DEF G
  <2>1. ASSUME NEW s \in Server,
               RequestStep(s) \/ PresenceStep(s) \/ ServerStart(s) \/ ServerFault(s)
        PROVE  G
    BY <2>1, <1>3, <1>4, <1>5, <1>6, <1>7 DEF RequestStep, PresenceStep
  <2>2. CASE (\E p \in Proc : Stray(p)) \/ Clock \/ UNCHANGED vars
    BY <1>1, <2>2 DEF Stray, Clock, vars, storeVars, serviceVars
  <2> QED
    BY <1>1, <1>2, <2>1, <2>2 DEF Next, storeVars, serviceVars
<1> QED
  BY <1>8, LateGrows DEF Lapsed

\* Expiry ends an unused token: once the server's clock has passed it with nothing
\* recorded and no request for it in hand, nothing is ever recorded, for any number
\* of servers, processes and queued or repeated requests (service.go handle).
THEOREM ExpiredIssuesNothingAlways == Spec => ExpiredIssuesNothing
<1> SUFFICES ASSUME NEW t \in Token
             PROVE  Spec => []((/\ t \in late /\ record[t].jwt = None
                                /\ \A s \in Server : handling[s] # None => handling[s].req.tok # t)
                                 => [](record[t].jwt = None))
  BY DEF ExpiredIssuesNothing
<1>1. (/\ t \in late /\ record[t].jwt = None
       /\ \A s \in Server : handling[s] # None => handling[s].req.tok # t) => Lapsed(t)
  BY DEF Lapsed
<1>2. TypeInv /\ Lapsed(t) /\ [Next]_vars => Lapsed(t)'
  BY LapsedNext
<1>3. Lapsed(t) => record[t].jwt = None
  BY DEF Lapsed
<1> QED
  BY <1>1, <1>2, <1>3, TypeInit, TypeNext, PTL DEF Spec
=============================================================================
