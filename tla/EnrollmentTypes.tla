--------------------------- MODULE EnrollmentTypes ---------------------------
(***************************************************************************)
(* Enrollment, proved for every set of tokens, processes, hosts and        *)
(* servers, every queue limit and every number of faults.                  *)
(***************************************************************************)
EXTENDS Enrollment, SequenceTheorems, TLAPS

\* A process past the key artifact has keys, and one about to write its identity
\* has the JWT it accepted for them.
Held ==
  \A p \in Proc :
    /\ pc[p] \in Running \ {"keys", "write"} => keys[p] \in Key
    /\ pc[p] = "store" => got[p] \in JWT /\ got[p].sub = keys[p]

\* A record's JWT and halves come together, and only from S1 on; the agents
\* table follows the spent tokens.
RecordOK ==
  \A t \in Token :
    /\ record[t].jwt = None => record[t].halves = None /\ record[t].state # "spent"
    /\ record[t].jwt # None => /\ record[t].halves = record[t].jwt.sub
                               /\ record[t].state # "absent"
    /\ agents[t] = IF record[t].state = "spent" THEN record[t].halves ELSE None

TypeInv == TypeOK /\ Held /\ RecordOK

----------------------------------------------------------------------------
(* Queues.                                                                 *)

\* Enqueue keeps every queue a sequence of messages.
LEMMA EnqueueType ==
  ASSUME NEW D, NEW M, NEW q \in [D -> Seq(M)], NEW S, NEW m \in M
  PROVE  Enqueue(q, S, m) \in [D -> Seq(M)]
BY AppendProperties DEF Enqueue

\* What is pending after Append was pending before, or is the new message.
LEMMA AppendElement ==
  ASSUME NEW M, NEW q \in Seq(M), NEW m \in M, NEW i \in 1..Len(Append(q, m))
  PROVE  \/ Append(q, m)[i] = m
         \/ i \in 1..Len(q) /\ Append(q, m)[i] = q[i]
BY AppendProperties, LenProperties

\* What is pending after a message is taken was pending before.
LEMMA TailElement ==
  ASSUME NEW M, NEW q \in Seq(M), q # <<>>
  PROVE  /\ Head(q) \in M /\ Head(q) = q[1] /\ 1 \in 1..Len(q)
         /\ Tail(q) \in Seq(M)
         /\ \A i \in 1..Len(Tail(q)) : i + 1 \in 1..Len(q) /\ Tail(q)[i] = q[i + 1]
BY HeadTailProperties, LenProperties, EmptySeq

----------------------------------------------------------------------------
(* Types.                                                                  *)

LEMMA TypeInit == Init => TypeInv
<1> SUFFICES ASSUME Init PROVE TypeInv
  OBVIOUS
<1> USE DEF Init, EnvInit, StoreInit, ServiceInit, AgentInit
<1>1. EnvTypeOK
  BY EnvAssumption, EmptySeq DEF EnvTypeOK
<1>2. StoreTypeOK
  BY DEF StoreTypeOK, Record
<1>3. ServiceTypeOK
  BY DEF ServiceTypeOK
<1>4. AgentTypeOK
  BY DEF AgentTypeOK, Disk, Idle
<1>5. Held
  BY DEF Held, Running, Unconfirmed, Identified
<1>6. RecordOK
  BY DEF RecordOK
<1> QED
  BY <1>1, <1>2, <1>3, <1>4, <1>5, <1>6 DEF TypeInv, TypeOK

LEMMA FaultType ==
  ASSUME EnvTypeOK, UNCHANGED faults \/ Fault
  PROVE  faults' \in 0..MaxFaults
BY EnvAssumption DEF EnvTypeOK, Fault

LEMMA FrameAgent ==
  ASSUME TypeInv, UNCHANGED agentVars
  PROVE  AgentTypeOK' /\ Held'
BY DEF TypeInv, TypeOK, AgentTypeOK, Held, agentVars

LEMMA FrameStore ==
  ASSUME TypeInv, UNCHANGED storeVars
  PROVE  StoreTypeOK' /\ RecordOK'
BY DEF TypeInv, TypeOK, StoreTypeOK, RecordOK, storeVars

\* What a handler carries has its type.
LEMMA HandlingType ==
  ASSUME TypeInv, NEW s \in Server, handling[s] # None
  PROVE  /\ handling[s] \in Handling
         /\ handling[s].req \in Request
         /\ handling[s].req.tok \in Token
         /\ handling[s].req.key \in Key
         /\ handling[s].rec \in Record
         /\ record[handling[s].req.tok] \in Record
BY DEF TypeInv, TypeOK, ServiceTypeOK, StoreTypeOK, Handling, Request

LEMMA DecideType ==
  ASSUME TypeInv, NEW s \in Server, handling[s] # None, NEW r \in Reply, Decide(s, r),
         UNCHANGED faults \/ Fault
  PROVE  ServiceTypeOK' /\ EnvTypeOK'
<1>1. ServiceTypeOK'
  BY HandlingType DEF TypeInv, TypeOK, Decide, ServiceTypeOK, Answer
<1>2. EnvTypeOK'
  BY FaultType DEF TypeInv, TypeOK, Decide, EnvTypeOK, netVars, clockVars
<1> QED BY <1>1, <1>2

LEMMA DenyType ==
  ASSUME TypeInv, NEW s \in Server, handling[s] # None, NEW r \in Reason, Deny(s, r),
         UNCHANGED faults \/ Fault, UNCHANGED agentVars
  PROVE  TypeInv'
<1>1. DeniedReply(r) \in Reply
  BY DEF Reply
<1>2. ServiceTypeOK' /\ EnvTypeOK'
  BY <1>1, DecideType DEF Deny
<1>3. Denial(handling[s].req.tok, r) \in AuditRecord
  BY HandlingType DEF AuditRecord, Denial
<1>4. StoreTypeOK' /\ RecordOK'
  BY <1>3 DEF TypeInv, TypeOK, Deny, AppendAuditRecord, StoreTypeOK, RecordOK
<1> QED
  BY <1>2, <1>4, FrameAgent DEF TypeInv, TypeOK

LEMMA NoReplyType ==
  ASSUME TypeInv, NEW s \in Server, NoReply(s), UNCHANGED faults \/ Fault
  PROVE  ServiceTypeOK' /\ EnvTypeOK'
<1>1. ServiceTypeOK'
  BY DEF TypeInv, TypeOK, NoReply, ServiceTypeOK
<1>2. EnvTypeOK'
  BY FaultType DEF TypeInv, TypeOK, NoReply, EnvTypeOK, netVars, clockVars
<1> QED BY <1>1, <1>2

\* A record with halves has the JWT minted against them, and only such a record.
LEMMA RecordFacts ==
  ASSUME TypeInv, NEW t \in Token
  PROVE  /\ record[t].halves # None => record[t].jwt \in JWT
         /\ record[t].jwt # None => record[t].jwt \in JWT /\ record[t].halves \in Key
         /\ None \notin Key
BY EnvAssumption DEF TypeInv, TypeOK, StoreTypeOK, RecordOK, Record, JWT, Key

LEMMA RequestStepType ==
  ASSUME TypeInv, NEW s \in Server, RequestStep(s), UNCHANGED agentVars
  PROVE  TypeInv'
<1> DEFINE t == handling[s].req.tok
<1>1. CASE OnRequest(s)
  <2>1. PICK req \in Request : req = Head(requests[s]) /\ Tail(requests[s]) \in Seq(Request)
    BY <1>1, TailElement DEF OnRequest, TypeInv, TypeOK, EnvTypeOK
  <2>2. Verdict(record[req.tok], req, req.tok \in late) \in Reason \cup {"admit"}
    BY DEF Verdict, Reason
  <2>3. record[req.tok] \in Record
    BY DEF TypeInv, TypeOK, StoreTypeOK, Request
  <2>4. ServiceTypeOK'
    BY <1>1, <2>1, <2>2, <2>3 DEF OnRequest, TypeInv, TypeOK, ServiceTypeOK, Handling
  <2>5. EnvTypeOK'
    BY <1>1, <2>1 DEF OnRequest, TypeInv, TypeOK, EnvTypeOK, clockVars
  <2> QED
    BY <1>1, <2>4, <2>5, FrameStore, FrameAgent DEF OnRequest, TypeInv, TypeOK
<1>2. CASE Refuse(s)
  <2>1. handling[s].verdict \in Reason
    BY <1>2, HandlingType DEF Refuse, Handling
  <2> QED
    BY <1>2, <2>1, DenyType DEF Refuse
<1>3. CASE RepeatCredential(s)
  <2>1. handling[s] # None /\ CredentialReply(handling[s].rec.jwt) \in Reply
    BY <1>3, HandlingType DEF RepeatCredential, Admitted, Record, Reply
  <2> QED
    BY <1>3, <2>1, DecideType, FrameStore, FrameAgent DEF RepeatCredential, TypeInv, TypeOK
<1>4. CASE FirstCredential(s)
  <2>1. handling[s] # None /\ t \in Token /\ Mint(s) \in JWT /\ CredentialReply(Mint(s)) \in Reply
    BY <1>4, HandlingType DEF FirstCredential, Minting, Admitted, Mint, JWT, Reply
  <2>2. ServiceTypeOK' /\ EnvTypeOK'
    BY <1>4, <2>1, DecideType DEF FirstCredential
  <2>3. record' = [record EXCEPT ![t].halves = Mint(s).sub, ![t].jwt = Mint(s)]
        /\ Mint(s).sub \in Key /\ record[t].state = "issued"
    BY <1>4, <2>1 DEF FirstCredential, RecordCredential, Recordable, JWT
  <2>4. Audited("credential", t) \in AuditRecord
    BY <2>1 DEF Audited, AuditRecord
  <2>5. StoreTypeOK'
    BY <1>4, <2>1, <2>3, <2>4 DEF FirstCredential, RecordCredential, AppendAuditRecord,
         TypeInv, TypeOK, StoreTypeOK, Record
  <2>6. RecordOK'
    BY <1>4, <2>1, <2>3, NoneAssumption DEF FirstCredential, RecordCredential,
         TypeInv, TypeOK, StoreTypeOK, RecordOK, Record
  <2> QED
    BY <2>2, <2>5, <2>6, FrameAgent DEF TypeInv, TypeOK
<1>5. CASE LostRace(s)
  <2>1. handling[s] # None /\ "different public halves" \in Reason
    BY <1>5 DEF LostRace, Minting, Admitted, Reason
  <2>2. CASE /\ record[t].halves = handling[s].req.key
             /\ Decide(s, CredentialReply(record[t].jwt))
             /\ UNCHANGED <<storeVars, faults>>
    <3>1. CredentialReply(record[t].jwt) \in Reply
      BY <2>1, <2>2, HandlingType, RecordFacts DEF Reply
    <3> QED
      BY <2>1, <2>2, <3>1, DecideType, FrameStore, FrameAgent DEF TypeInv, TypeOK
  <2>3. CASE Deny(s, "different public halves") /\ (UNCHANGED faults \/ Fault)
    BY <2>1, <2>3, DenyType
  <2> QED
    BY <1>5, <2>2, <2>3 DEF LostRace
<1>6. CASE Confirm(s)
  <2>1. handling[s] # None /\ ConfirmationReply \in Reply
    BY <1>6 DEF Confirm, Admitted, Reply
  <2>2. ServiceTypeOK' /\ EnvTypeOK'
    BY <1>6, <2>1, DecideType, NoReplyType DEF Confirm
  <2> QED
    BY <1>6, <2>2, FrameStore, FrameAgent DEF Confirm, TypeInv, TypeOK
<1>7. CASE SendReply(s)
  <2>1. PICK R \in SUBSET (subscribed \cap Holders(answer[s].tok)) :
          /\ UNCHANGED faults \/ Fault
          /\ replies' = Enqueue(replies, R, answer[s].reply)
    BY <1>7 DEF SendReply, Reaches
  <2>2. answer[s].reply \in Reply
    BY <1>7 DEF SendReply, TypeInv, TypeOK, ServiceTypeOK, Answer
  <2>3. replies' \in [Proc -> Seq(Reply)]
    BY <2>1, <2>2, EnqueueType DEF TypeInv, TypeOK, EnvTypeOK
  <2>4. EnvTypeOK'
    BY <1>7, <2>1, <2>3, FaultType DEF SendReply, TypeInv, TypeOK, EnvTypeOK, clockVars
  <2>5. ServiceTypeOK'
    BY <1>7 DEF SendReply, TypeInv, TypeOK, ServiceTypeOK
  <2> QED
    BY <1>7, <2>4, <2>5, FrameStore, FrameAgent DEF SendReply, TypeInv, TypeOK
<1> QED
  BY <1>1, <1>2, <1>3, <1>4, <1>5, <1>6, <1>7 DEF RequestStep

LEMMA PresenceStepType ==
  ASSUME TypeInv, NEW s \in Server, PresenceStep(s), UNCHANGED agentVars
  PROVE  TypeInv'
<1>1. CASE OnPresence(s)
  <2>1. PICK m \in Presence : m = Head(presences[s]) /\ Tail(presences[s]) \in Seq(Presence)
    BY <1>1, TailElement DEF OnPresence, TypeInv, TypeOK, EnvTypeOK
  <2>2. UNCHANGED faults \/ Fault
    BY <1>1 DEF OnPresence
  <2>3. [tok |-> m.tok, at |-> "admitted"] \in Proving
    BY DEF Presence, Proving
  <2>4. ServiceTypeOK'
    BY <1>1, <2>1, <2>3 DEF OnPresence, TypeInv, TypeOK, ServiceTypeOK
  <2>5. EnvTypeOK'
    BY <1>1, <2>1, <2>2, FaultType DEF OnPresence, TypeInv, TypeOK, EnvTypeOK, clockVars
  <2> QED
    BY <1>1, <2>4, <2>5, FrameStore, FrameAgent DEF OnPresence, TypeInv, TypeOK
<1>2. CASE ActivateStep(s)
  <2> DEFINE t == proving[s].tok
  <2>1. proving[s] \in Proving /\ t \in Token
    BY <1>2 DEF ActivateStep, TypeInv, TypeOK, ServiceTypeOK, Proving
  <2>2. [proving[s] EXCEPT !.at = "reached"] \in Proving
    BY <2>1 DEF Proving
  <2>3. ServiceTypeOK'
    BY <1>2, <2>1, <2>2 DEF ActivateStep, TypeInv, TypeOK, ServiceTypeOK
  <2>4. EnvTypeOK'
    BY <1>2 DEF ActivateStep, TypeInv, TypeOK, EnvTypeOK, netVars, clockVars
  <2>5. CASE Activatable(t) /\ Activate(t)
    <3>1. Audited("activated", t) \in AuditRecord
      BY <2>1 DEF Audited, AuditRecord
    <3>2. StoreTypeOK'
      BY <2>1, <2>5, <3>1 DEF Activate, AppendAuditRecord, TypeInv, TypeOK, StoreTypeOK, Record
    <3>3. RecordOK'
      BY <2>1, <2>5 DEF Activatable, Activate, TypeInv, TypeOK, StoreTypeOK, RecordOK, Record
    <3> QED
      BY <2>3, <2>4, <3>2, <3>3, FrameAgent DEF TypeInv, TypeOK
  <2>6. CASE UNCHANGED storeVars
    BY <2>3, <2>4, <2>6, FrameStore, FrameAgent DEF TypeInv, TypeOK
  <2> QED
    BY <1>2, <2>5, <2>6 DEF ActivateStep
<1>3. CASE RecordReached(s)
  <2>1. proving[s] \in Proving /\ Audited("reached", proving[s].tok) \in AuditRecord
    BY <1>3 DEF RecordReached, TypeInv, TypeOK, ServiceTypeOK, Proving, Audited, AuditRecord
  <2>2. [proving[s] EXCEPT !.at = "hold"] \in Proving
    BY <2>1 DEF Proving
  <2>3. ServiceTypeOK'
    BY <1>3, <2>2 DEF RecordReached, TypeInv, TypeOK, ServiceTypeOK
  <2>4. EnvTypeOK'
    BY <1>3 DEF RecordReached, TypeInv, TypeOK, EnvTypeOK, netVars, clockVars
  <2>5. StoreTypeOK' /\ RecordOK'
    BY <1>3, <2>1 DEF RecordReached, AppendAuditRecord, TypeInv, TypeOK, StoreTypeOK, RecordOK
  <2> QED
    BY <2>3, <2>4, <2>5, FrameAgent DEF TypeInv, TypeOK
<1>4. CASE HoldEnds(s)
  <2>1. ServiceTypeOK' /\ EnvTypeOK'
    BY <1>4 DEF HoldEnds, TypeInv, TypeOK, ServiceTypeOK, EnvTypeOK, netVars, clockVars
  <2> QED
    BY <1>4, <2>1, FrameStore, FrameAgent DEF HoldEnds, TypeInv, TypeOK
<1> QED
  BY <1>1, <1>2, <1>3, <1>4 DEF PresenceStep

LEMMA ServerChangeType ==
  ASSUME TypeInv, NEW s \in Server, ServerStart(s) \/ ServerFault(s), UNCHANGED agentVars
  PROVE  TypeInv'
<1>1. CASE RequestFails(s)
  BY <1>1, NoReplyType, FrameStore, FrameAgent DEF RequestFails, TypeInv, TypeOK
<1>2. CASE ActivateFails(s)
  <2>1. ServiceTypeOK'
    BY <1>2 DEF ActivateFails, TypeInv, TypeOK, ServiceTypeOK
  <2>2. EnvTypeOK'
    BY <1>2, FaultType DEF ActivateFails, TypeInv, TypeOK, EnvTypeOK, netVars, clockVars
  <2> QED
    BY <1>2, <2>1, <2>2, FrameStore, FrameAgent DEF ActivateFails, TypeInv, TypeOK
<1>3. CASE ServerCrash(s)
  <2>1. ServiceTypeOK'
    BY <1>3 DEF ServerCrash, TypeInv, TypeOK, ServiceTypeOK
  <2>2. EnvTypeOK'
    BY <1>3, FaultType, EmptySeq DEF ServerCrash, TypeInv, TypeOK, EnvTypeOK, clockVars
  <2> QED
    BY <1>3, <2>1, <2>2, FrameStore, FrameAgent DEF ServerCrash, TypeInv, TypeOK
<1>4. CASE ServerStart(s)
  <2>1. ServiceTypeOK' /\ EnvTypeOK'
    BY <1>4 DEF ServerStart, TypeInv, TypeOK, ServiceTypeOK, EnvTypeOK, serviceVars, clockVars
  <2> QED
    BY <1>4, <2>1, FrameStore, FrameAgent DEF ServerStart, TypeInv, TypeOK
<1> QED
  BY <1>1, <1>2, <1>3, <1>4 DEF ServerFault

LEMMA FrameServer ==
  ASSUME TypeInv, UNCHANGED <<storeVars, serviceVars>>
  PROVE  StoreTypeOK' /\ RecordOK' /\ ServiceTypeOK'
BY FrameStore DEF TypeInv, TypeOK, ServiceTypeOK, serviceVars

LEMMA QuietEnv ==
  ASSUME TypeInv, UNCHANGED <<netVars, clockVars>>, UNCHANGED faults \/ Fault
  PROVE  EnvTypeOK'
BY FaultType DEF TypeInv, TypeOK, EnvTypeOK, netVars, clockVars

LEMMA ExitType ==
  ASSUME TypeInv, NEW p \in Proc, NEW l \in Idle, Exit(p, l), UNCHANGED faults \/ Fault,
         bundle' = bundle \/ bundle' = [bundle EXCEPT ![p] = "removed"],
         UNCHANGED <<storeVars, serviceVars>>
  PROVE  TypeInv'
<1>1. EnvTypeOK'
  BY FaultType, EmptySeq DEF TypeInv, TypeOK, EnvTypeOK, Exit, clockVars
<1>2. AgentTypeOK'
  BY DEF TypeInv, TypeOK, AgentTypeOK, Exit, Goto
<1>3. l \notin Running
  BY DEF Idle, Running, Unconfirmed, Identified
<1>4. Held'
  BY <1>3 DEF TypeInv, TypeOK, AgentTypeOK, Held, Exit, Goto, Running, Unconfirmed
<1> QED
  BY <1>1, <1>2, <1>4, FrameServer DEF TypeInv, TypeOK

\* A process moves on with the keys it has.
LEMMA MoveType ==
  ASSUME TypeInv, NEW p \in Proc, NEW l \in Running \ {"keys", "write", "store"},
         pc[p] \in Running \ {"keys", "write"}, Goto(p, l),
         UNCHANGED <<keys, got, bundle, serving>>
  PROVE  /\ pc' \in [Proc -> Idle \cup Running]
         /\ keys' \in [Proc -> Key \cup {None}]
         /\ got' \in [Proc -> JWT \cup {None}]
         /\ bundle' \in [Proc -> {"none", "present", "removed"}]
         /\ serving' \in [Host -> Presence \cup {None}]
         /\ Held'
BY DEF TypeInv, TypeOK, AgentTypeOK, Held, Goto

LEMMA SendRequestType ==
  ASSUME TypeInv, NEW p \in Proc, NEW k \in RequestKind, keys[p] \in Key, SendRequest(p, k),
         UNCHANGED clockVars
  PROVE  EnvTypeOK'
<1>1. [tok |-> BundleOf[p], key |-> keys[p], kind |-> k] \in Request
  BY EnvAssumption DEF Request
<1>2. PICK S : /\ UNCHANGED faults \/ Fault
               /\ requests' = Enqueue(requests, S,
                                 [tok |-> BundleOf[p], key |-> keys[p], kind |-> k])
  BY DEF SendRequest, Reaches
<1>3. requests' \in [Server -> Seq(Request)]
  BY <1>1, <1>2, EnqueueType DEF TypeInv, TypeOK, EnvTypeOK
<1> QED
  BY <1>2, <1>3, FaultType DEF SendRequest, TypeInv, TypeOK, EnvTypeOK, clockVars

LEMMA SendPresenceType ==
  ASSUME TypeInv, NEW m \in Presence, SendPresence(m), UNCHANGED clockVars
  PROVE  EnvTypeOK'
<1>1. PICK S : /\ UNCHANGED faults \/ Fault
               /\ presences' = Enqueue(presences, S, m)
  BY DEF SendPresence, Reaches
<1>2. presences' \in [Server -> Seq(Presence)]
  BY <1>1, EnqueueType DEF TypeInv, TypeOK, EnvTypeOK
<1> QED
  BY <1>1, <1>2, FaultType DEF SendPresence, TypeInv, TypeOK, EnvTypeOK, clockVars

LEMMA ReceiveType ==
  ASSUME TypeInv, NEW p \in Proc, replies[p] # <<>>, Receive(p),
         UNCHANGED <<online, subscribed, requests, presences, clockVars, faults>>
  PROVE  EnvTypeOK' /\ Head(replies[p]) \in Reply
<1>1. Tail(replies[p]) \in Seq(Reply) /\ Head(replies[p]) \in Reply
  BY TailElement DEF TypeInv, TypeOK, EnvTypeOK
<1> QED
  BY <1>1 DEF Receive, TypeInv, TypeOK, EnvTypeOK, clockVars

\* Only a credential reply carries a JWT.
LEMMA ReplyFacts ==
  ASSUME NEW r \in Reply
  PROVE  /\ r.kind \in {"credential", "confirmation", "denied"}
         /\ r.kind = "credential" => r.jwt \in JWT
         /\ r.kind = "denied" => r.why \in Reason
BY DEF Reply, CredentialReply, ConfirmationReply, DeniedReply

LEMMA ProcStepType ==
  ASSUME TypeInv, NEW p \in Proc, ProcStep(p) \/ AgentFails(p),
         UNCHANGED <<storeVars, serviceVars>>
  PROVE  TypeInv'
<1> USE DEF TypeInv, TypeOK
<1>a. HostOf[p] \in Host /\ BundleOf[p] \in Token
  BY EnvAssumption
<1>b. /\ {"refused", "failed", "done"} \subseteq Idle
      /\ {"keys", "write", "bootstrap", "identity", "request", "awaiting", "store"} \subseteq Running
      /\ {"ledger", "written", "permanent", "prove", "proved", "confirm", "ask", "confirming",
          "finish"} \subseteq Running
  BY DEF Idle, Running, Unconfirmed, Identified
<1>c. ASSUME RefusedExit(p) \/ LocalExit(p) PROVE TypeInv'
  BY <1>b, <1>c, ExitType DEF RefusedExit, LocalExit
<1>1. CASE Enroll(p)
  <2>1. AgentTypeOK' /\ Held'
    BY <1>1, <1>b DEF Enroll, AgentTypeOK, Held, Goto, quiet
  <2> QED BY <1>1, <2>1, QuietEnv, FrameServer DEF Enroll, quiet
<1>2. CASE ReadKeys(p)
  <2>1. CASE Goto(p, "write") /\ UNCHANGED <<quiet, keys, got, disk>>
    <3>1. AgentTypeOK' /\ Held'
      BY <1>b, <2>1 DEF AgentTypeOK, Held, Goto, quiet
    <3> QED BY <2>1, <3>1, QuietEnv, FrameServer DEF quiet
  <2>2. CASE /\ DiskOf(p).keys # None
             /\ Goto(p, "bootstrap")
             /\ keys' = [keys EXCEPT ![p] = DiskOf(p).keys.key]
             /\ UNCHANGED <<quiet, got, disk>>
    <3>1. DiskOf(p).keys.key \in Key
      BY <1>a, <2>2 DEF DiskOf, AgentTypeOK, Disk, KeyArtifact
    <3>2. AgentTypeOK' /\ Held'
      BY <1>b, <2>2, <3>1 DEF AgentTypeOK, Held, Goto, quiet
    <3> QED BY <2>2, <3>2, QuietEnv, FrameServer DEF quiet
  <2> QED BY <1>2, <1>c, <2>1, <2>2 DEF ReadKeys
<1>3. CASE WriteKeys(p)
  <2>1. [agent |-> BundleOf[p], key |-> p] \in KeyArtifact /\ p \in Key
    BY <1>a DEF KeyArtifact, Key
  <2>2. AgentTypeOK'
    BY <1>3, <1>a, <1>b, <2>1 DEF WriteKeys, Step, Goto, AgentTypeOK, Disk, quiet
  <2>3. Held'
    BY <1>3, <2>1 DEF WriteKeys, Step, Goto, AgentTypeOK, Held
  <2> QED BY <1>3, <2>2, <2>3, QuietEnv, FrameServer DEF WriteKeys, quiet
<1>4. CASE Bootstrap(p)
  <2>1. AgentTypeOK' /\ Held'
    BY <1>4, <1>b, MoveType DEF Bootstrap, Step, AgentTypeOK
  <2>2. EnvTypeOK'
    BY <1>4 DEF Bootstrap, EnvTypeOK, clockVars
  <2> QED BY <2>1, <2>2, FrameServer
<1>5. CASE BootstrapRefused(p)
  BY <1>5, <1>c DEF BootstrapRefused
<1>6. CASE ReadIdentity(p)
  <2>1. CASE /\ pc[p] = "identity" /\ (Goto(p, "request") \/ Goto(p, "permanent"))
             /\ UNCHANGED <<quiet, keys, got, disk>>
    <3>1. AgentTypeOK' /\ Held'
      BY <1>b, <2>1, MoveType DEF AgentTypeOK, quiet
    <3> QED BY <2>1, <3>1, QuietEnv, FrameServer DEF quiet
  <2> QED BY <1>6, <1>c, <2>1 DEF ReadIdentity
<1>7. CASE RequestCredential(p)
  <2>1. AgentTypeOK' /\ Held'
    BY <1>7, <1>b, MoveType DEF RequestCredential, Step, AgentTypeOK
  <2>2. keys[p] \in Key
    BY <1>7, <1>b DEF RequestCredential, Step, Held
  <2>3. EnvTypeOK'
    BY <1>7, <2>2, SendRequestType DEF RequestCredential, RequestKind
  <2> QED BY <2>1, <2>3, FrameServer
<1>8. CASE AwaitCredential(p)
  <2> DEFINE r == Head(replies[p])
  <2>1. r \in Reply
    BY <1>8, TailElement DEF AwaitCredential, EnvTypeOK
  <2>2. CASE /\ r.kind = "credential" /\ r.jwt.sub = keys[p]
             /\ Goto(p, "store")
             /\ got' = [got EXCEPT ![p] = r.jwt]
             /\ Receive(p)
             /\ UNCHANGED <<online, subscribed, requests, presences, clockVars, faults,
                            bundle, serving, keys, disk>>
    <3>1. r.jwt \in JWT
      BY <2>1, <2>2, ReplyFacts
    <3>2. AgentTypeOK'
      BY <1>b, <2>2, <3>1 DEF AgentTypeOK, Goto
    <3>3. Held'
      BY <1>8, <1>b, <2>2, <3>1 DEF AwaitCredential, AgentTypeOK, Held, Goto
    <3>4. EnvTypeOK'
      BY <1>8, <2>2, ReceiveType DEF AwaitCredential
    <3> QED BY <3>2, <3>3, <3>4, FrameServer
  <2>3. CASE /\ Goto(p, "request")
             /\ Receive(p)
             /\ UNCHANGED <<online, subscribed, requests, presences, clockVars, faults,
                            bundle, serving, keys, got, disk>>
    <3>1. AgentTypeOK' /\ Held'
      BY <1>8, <1>b, <2>3, MoveType DEF AwaitCredential, AgentTypeOK
    <3>2. EnvTypeOK'
      BY <1>8, <2>3, ReceiveType DEF AwaitCredential
    <3> QED BY <3>1, <3>2, FrameServer
  <2> QED BY <1>8, <1>c, <2>2, <2>3 DEF AwaitCredential
<1>9. CASE AwaitTimeout(p)
  <2>1. AgentTypeOK' /\ Held'
    BY <1>9, <1>b, MoveType DEF AwaitTimeout, Step, AgentTypeOK, quiet
  <2> QED BY <1>9, <2>1, QuietEnv, FrameServer DEF AwaitTimeout, quiet
<1>10. CASE DeadlineRefused(p)
  BY <1>10, <1>c DEF DeadlineRefused
<1>11. CASE WriteIdentity(p)
  <2>1. [agent |-> BundleOf[p], jwt |-> got[p], digest |-> keys[p]] \in IdentityArtifact
    BY <1>11, <1>a, <1>b DEF WriteIdentity, Step, Held, IdentityArtifact
  <2>2. disk' \in [Host -> Disk]
    BY <1>11, <1>a, <2>1 DEF WriteIdentity, AgentTypeOK, Disk
  <2>3. AgentTypeOK' /\ Held'
    BY <1>11, <1>b, <2>2, MoveType DEF WriteIdentity, Step, AgentTypeOK, quiet
  <2> QED BY <1>11, <2>3, QuietEnv, FrameServer DEF WriteIdentity, quiet
<1>12. CASE OpenLedger(p)
  <2>1. disk' \in [Host -> Disk]
    BY <1>12, <1>a DEF OpenLedger, AgentTypeOK, Disk
  <2>2. AgentTypeOK' /\ Held'
    BY <1>12, <1>b, <2>1, MoveType DEF OpenLedger, Step, AgentTypeOK, quiet
  <2> QED BY <1>12, <2>2, QuietEnv, FrameServer DEF OpenLedger, quiet
<1>13. CASE Permanent(p)
  <2>1. AgentTypeOK' /\ Held'
    BY <1>13, <1>b, MoveType DEF Permanent, AgentTypeOK, quiet
  <2> QED BY <1>13, <2>1, QuietEnv, FrameServer DEF Permanent, quiet
<1>14. CASE ProvePresence(p)
  <2>1. AgentTypeOK' /\ Held'
    BY <1>14, <1>b, MoveType DEF ProvePresence, Step, AgentTypeOK
  <2>2. [tok |-> BundleOf[p], key |-> keys[p]] \in Presence
    BY <1>14, <1>a, <1>b DEF ProvePresence, Step, Held, Presence
  <2>3. EnvTypeOK'
    BY <1>14, <2>2, SendPresenceType DEF ProvePresence
  <2> QED BY <2>1, <2>3, FrameServer
<1>15. CASE RequestConfirmation(p)
  <2>1. AgentTypeOK' /\ Held'
    BY <1>15, <1>b, MoveType DEF RequestConfirmation, Step, AgentTypeOK
  <2>2. keys[p] \in Key
    BY <1>15, <1>b DEF RequestConfirmation, Step, Held
  <2>3. EnvTypeOK'
    BY <1>15, <2>2, SendRequestType DEF RequestConfirmation, RequestKind
  <2> QED BY <2>1, <2>3, FrameServer
<1>16. CASE AwaitConfirmation(p)
  <2>1. CASE /\ Goto(p, "finish") \/ Goto(p, "confirm")
             /\ Receive(p)
             /\ UNCHANGED <<online, subscribed, requests, presences, clockVars, faults,
                            bundle, serving, keys, got, disk>>
    <3>1. AgentTypeOK' /\ Held'
      BY <1>16, <1>b, <2>1, MoveType DEF AwaitConfirmation, AgentTypeOK
    <3>2. EnvTypeOK'
      BY <1>16, <2>1, ReceiveType DEF AwaitConfirmation
    <3> QED BY <3>1, <3>2, FrameServer
  <2> QED BY <1>16, <1>c, <2>1 DEF AwaitConfirmation
<1>17. CASE Finish(p)
  BY <1>17, <1>b, ExitType DEF Finish
<1>18. CASE AgentFails(p)
  BY <1>18, <1>b, ExitType DEF AgentFails
<1> QED
  BY <1>1, <1>2, <1>3, <1>4, <1>5, <1>6, <1>7, <1>8, <1>9, <1>10, <1>11, <1>12, <1>13, <1>14,
     <1>15, <1>16, <1>17, <1>18 DEF ProcStep

LEMMA ServeStepType ==
  ASSUME TypeInv, NEW h \in Host, ServeStep(h), UNCHANGED <<storeVars, serviceVars>>
  PROVE  TypeInv'
<1> USE DEF TypeInv, TypeOK
<1>1. CASE ServeStart(h)
  <2>1. [tok |-> disk[h].identity.agent, key |-> disk[h].keys.key] \in Presence
    BY <1>1 DEF ServeStart, Enrolled, AgentTypeOK, Disk, KeyArtifact, IdentityArtifact, Presence
  <2>2. AgentTypeOK' /\ Held'
    BY <1>1, <2>1 DEF ServeStart, AgentTypeOK, Held
  <2> QED BY <1>1, <2>2, QuietEnv, FrameServer DEF ServeStart
<1>2. CASE ServePresence(h)
  <2>1. serving[h] \in Presence
    BY <1>2 DEF ServePresence, AgentTypeOK
  <2>2. EnvTypeOK'
    BY <1>2, <2>1, SendPresenceType DEF ServePresence
  <2> QED BY <1>2, <2>2, FrameAgent, FrameServer DEF ServePresence
<1>3. CASE ServeStop(h)
  <2>1. AgentTypeOK' /\ Held'
    BY <1>3 DEF ServeStop, AgentTypeOK, Held
  <2> QED BY <1>3, <2>1, QuietEnv, FrameServer DEF ServeStop
<1> QED
  BY <1>1, <1>2, <1>3 DEF ServeStep

LEMMA EnvironmentType ==
  ASSUME TypeInv,
         (\E t \in Token : Create(t)) \/ (\E p \in Proc : Stray(p)) \/ Clock
  PROVE  TypeInv'
<1> USE DEF TypeInv, TypeOK
<1>1. ASSUME NEW t \in Token, Create(t) PROVE TypeInv'
  <2>1. Audited("issued", t) \in AuditRecord
    BY DEF Audited, AuditRecord
  <2>2. StoreTypeOK'
    BY <1>1, <2>1 DEF Create, IssueEnrollment, AppendAuditRecord, StoreTypeOK, Record
  <2>3. RecordOK'
    BY <1>1 DEF Create, IssueEnrollment, StoreTypeOK, RecordOK, Record
  <2>4. AgentTypeOK' /\ Held'
    BY <1>1 DEF Create, AgentTypeOK, Held
  <2>5. ServiceTypeOK'
    BY <1>1 DEF Create, ServiceTypeOK, serviceVars
  <2> QED BY <1>1, <2>2, <2>3, <2>4, <2>5, QuietEnv DEF Create
<1>2. ASSUME NEW p \in Proc, Stray(p) PROVE TypeInv'
  <2>1. PICK kind \in StrayKinds, k \in Stranger :
          requests' = Enqueue(requests, online, [tok |-> BundleOf[p], key |-> k, kind |-> kind])
    BY <1>2 DEF Stray
  <2>2. [tok |-> BundleOf[p], key |-> k, kind |-> kind] \in Request
    BY EnvAssumption, CompositionAssumption DEF Request, Key
  <2>3. requests' \in [Server -> Seq(Request)]
    BY <2>1, <2>2, EnqueueType DEF EnvTypeOK
  <2>4. EnvTypeOK'
    BY <1>2, <2>3, FaultType DEF Stray, EnvTypeOK, clockVars
  <2> QED BY <1>2, <2>4, FrameAgent, FrameServer DEF Stray
<1>3. CASE Clock
  <2>1. EnvTypeOK'
    BY <1>3, EnvAssumption DEF Clock, Expire, Disconnect, AgentExpire, EnvTypeOK, netVars, clockVars
  <2> QED BY <1>3, <2>1, FrameAgent, FrameServer DEF Clock
<1> QED
  BY <1>1, <1>2, <1>3

LEMMA Stutter ==
  ASSUME TypeInv, UNCHANGED vars
  PROVE  TypeInv'
BY QuietEnv, FrameAgent, FrameServer DEF vars, TypeInv, TypeOK

LEMMA TypeNext == TypeInv /\ [Next]_vars => TypeInv'
BY EnvironmentType, RequestStepType, PresenceStepType, ServerChangeType, ProcStepType,
   ServeStepType, Stutter DEF Next

\* Every variable keeps its type: in particular, no message is sent, no artifact
\* written and no record kept with keys or a JWT the process or the store does
\* not have (agent.go Enroll, service.go credential).
THEOREM TypeCorrect == Spec => []TypeOK
<1>1. TypeInv => TypeOK
  BY DEF TypeInv
<1> QED
  BY <1>1, TypeInit, TypeNext, PTL DEF Spec
=============================================================================
