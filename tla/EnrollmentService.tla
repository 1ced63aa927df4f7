-------------------------- MODULE EnrollmentService --------------------------
(***************************************************************************)
(* The server's end of enrollment (internal/enrollment service.go and      *)
(* issue.go).  Each server handles requests on one NATS connection and     *)
(* presences on another: each subscription's callback runs serially, and   *)
(* the two interleave, on one server and across servers that overlap.      *)
(*                                                                         *)
(* A callback reads the token's record, acts on that copy later and then   *)
(* publishes, and other steps come between: `handling`, `answer` and       *)
(* `proving` hold what it carries from one to the next.                    *)
(***************************************************************************)
EXTENDS EnrollmentStore

CONSTANT HoldAfterActivation  \* the fault point between S4's commit and S6

ASSUME ServiceAssumption == HoldAfterActivation \in BOOLEAN

VARIABLES
  handling,  \* onRequest between its read of the record and its effect
  answer,    \* the reply onRequest has decided on and not yet published
  proving    \* onPresence between its checks and its return

serviceVars == <<handling, answer, proving>>

Handling == [req : Request, rec : Record, verdict : Reason \cup {"admit"}]
Answer == [tok : Token, reply : Reply]
Proving == [tok : Token, at : {"admitted", "reached", "hold"}]

ServiceTypeOK ==
  /\ handling \in [Server -> Handling \cup {None}]
  /\ answer \in [Server -> Answer \cup {None}]
  /\ proving \in [Server -> Proving \cup {None}]

ServiceInit ==
  /\ handling = [s \in Server |-> None]
  /\ answer = [s \in Server |-> None]
  /\ proving = [s \in Server |-> None]

Holders(t) == {p \in Proc : BundleOf[p] = t}

----------------------------------------------------------------------------
\* Mutant of Verdict: expiry is checked only once a credential is recorded.
VerdictLate(rec, req, expired) ==
  IF rec.state = "absent" THEN "unknown token"
  ELSE IF req.kind \in BadKind THEN "malformed request"
  ELSE IF rec.state = "spent" /\ req.kind # "confirmation" THEN "token spent"
  ELSE IF rec.jwt # None /\ req.key # rec.halves THEN "different public halves"
  ELSE IF rec.jwt # None /\ expired THEN "token expired"
  ELSE "admit"

\* handle's checks, in the order of ADR-0003 section 5.
Verdict(rec, req, expired) ==
  IF rec.state = "absent" THEN "unknown token"
  ELSE IF req.kind = "malformed" THEN "malformed request"
  ELSE IF rec.state = "spent" /\ req.kind # "confirmation" THEN "token spent"
  ELSE IF expired THEN "token expired"
  ELSE IF req.kind = "incomplete" THEN "incomplete public halves"
  ELSE IF req.kind = "unsigned" THEN "request signature"
  ELSE IF rec.jwt # None /\ req.key # rec.halves THEN "different public halves"
  ELSE IF req.kind = "unknown" THEN "malformed request"
  ELSE "admit"

\* onRequest: take the next request, read its token's record, decide.
OnRequest(s) ==
  /\ s \in online
  /\ handling[s] = None
  /\ answer[s] = None
  /\ requests[s] # <<>>
  /\ LET req == Head(requests[s])
         rec == record[req.tok]
     IN handling' = [handling EXCEPT ![s] =
          [req |-> req, rec |-> rec, verdict |-> Verdict(rec, req, req.tok \in late)]]
  /\ requests' = [requests EXCEPT ![s] = Tail(@)]
  /\ UNCHANGED <<online, subscribed, presences, replies, clockVars, faults, storeVars, answer, proving>>

\* handle has returned reply r for the request in hand.
Decide(s, r) ==
  /\ handling' = [handling EXCEPT ![s] = None]
  /\ answer' = [answer EXCEPT ![s] = [tok |-> handling[s].req.tok, reply |-> r]]
  /\ UNCHANGED <<netVars, clockVars, proving>>

\* handle has returned neither a reply nor a reason.
NoReply(s) ==
  /\ handling' = [handling EXCEPT ![s] = None]
  /\ UNCHANGED <<netVars, clockVars, answer, proving>>

\* Mutant of Deny: the denial is answered although its record was not written.
DenyUnrecorded(s, r) == Decide(s, DeniedReply(r)) /\ UNCHANGED storeVars

\* respond's denial: its audit record is durable before the reply exists.  If it
\* cannot be written, RequestFails: no reply.
Deny(s, r) ==
  /\ AppendAuditRecord(Denial(handling[s].req.tok, r))
  /\ Decide(s, DeniedReply(r))
  /\ UNCHANGED <<record, agents>>

Refuse(s) ==
  /\ handling[s] # None
  /\ handling[s].verdict # "admit"
  /\ Deny(s, handling[s].verdict)
  /\ UNCHANGED faults

Admitted(s, kind) ==
  /\ handling[s] # None
  /\ handling[s].verdict = "admit"
  /\ handling[s].req.kind = kind

\* credential, when the record read already holds a JWT: the same one again.
RepeatCredential(s) ==
  /\ Admitted(s, "credential")
  /\ handling[s].rec.jwt # None
  /\ Decide(s, CredentialReply(handling[s].rec.jwt))
  /\ UNCHANGED <<storeVars, faults>>

\* credential, when the record read holds none: the JWT it mints for the request.
Minting(s) == Admitted(s, "credential") /\ handling[s].rec.jwt = None
Mint(s) == [sub |-> handling[s].req.key, name |-> handling[s].req.tok, by |-> s]

FirstCredential(s) ==
  /\ Minting(s)
  /\ Recordable(handling[s].req.tok)
  /\ RecordCredential(handling[s].req.tok, Mint(s))
  /\ Decide(s, CredentialReply(Mint(s)))
  /\ UNCHANGED faults

\* Mutant of LostRace: the loser of the race answers with the JWT it minted.
LostRaceOwnMint(s) ==
  /\ Minting(s)
  /\ ~Recordable(handling[s].req.tok)
  /\ Decide(s, CredentialReply(Mint(s)))
  /\ UNCHANGED <<storeVars, faults>>

\* ErrAlreadyRecorded: another server recorded first, and its halves are
\* authoritative.  The record is read again and compared; a read that fails
\* counts as different halves.
LostRace(s) ==
  LET again == record[handling[s].req.tok]
  IN /\ Minting(s)
     /\ ~Recordable(handling[s].req.tok)
     /\ \/ /\ again.halves = handling[s].req.key
           /\ Decide(s, CredentialReply(again.jwt))
           /\ UNCHANGED <<storeVars, faults>>
        \/ /\ again.halves # handling[s].req.key
           /\ Deny(s, "different public halves")
           /\ UNCHANGED faults
        \/ /\ Fault
           /\ Deny(s, "different public halves")

\* The hold's gate: taken for writing around the activation of any token.
GateHeld(s) == proving[s] # None /\ proving[s].at \in {"reached", "hold"}

\* Mutant of GateOpen: confirmations do not wait for a held activation.
GateIgnored(s) == TRUE

\* gate.RLock returns.
GateOpen(s) == ~GateHeld(s)

\* A confirmation waits at the gate and is then answered from the record read
\* before it waited: no reply unless that record was spent.
Confirm(s) ==
  /\ Admitted(s, "confirmation")
  /\ GateOpen(s)
  /\ IF handling[s].rec.state = "spent" THEN Decide(s, ConfirmationReply) ELSE NoReply(s)
  /\ UNCHANGED <<storeVars, faults>>

\* reply: it reaches every process connected with this token's bundle, for the
\* reply subject is the token's and not one process's.
SendReply(s) ==
  LET listening == subscribed \cap Holders(answer[s].tok)
  IN /\ answer[s] # None
     /\ \E R \in SUBSET listening :
          /\ Reaches(R, listening)
          /\ replies' = Enqueue(replies, R, answer[s].reply)
     /\ answer' = [answer EXCEPT ![s] = None]
     /\ UNCHANGED <<online, subscribed, requests, presences, clockVars, storeVars,
                    handling, proving>>

\* The store fails (SQLITE_BUSY, an I/O error), or minting or the denial's audit
\* record does: the callback logs and returns with no reply.
RequestFails(s) ==
  /\ handling[s] # None
  /\ Fault
  /\ NoReply(s)
  /\ UNCHANGED storeVars

----------------------------------------------------------------------------
\* onPresence's checks against the record: awaiting activation, and signed by
\* the key S1 recorded.
Proves(m) == Activatable(m.tok) /\ record[m.tok].halves = m.key

\* onPresence up to its gate.  A presence whose timestamp is more than
\* PresenceStaleness from the server's clock is ignored, as one that proves
\* nothing is.
OnPresence(s) ==
  /\ s \in online
  /\ proving[s] = None
  /\ presences[s] # <<>>
  /\ LET m == Head(presences[s])
     IN \/ /\ Proves(m)
           /\ proving' = [proving EXCEPT ![s] = [tok |-> m.tok, at |-> "admitted"]]
           /\ UNCHANGED faults
        \/ /\ ~Proves(m)
           /\ UNCHANGED <<proving, faults>>
        \/ /\ Proves(m)
           /\ Fault
           /\ UNCHANGED proving
  /\ presences' = [presences EXCEPT ![s] = Tail(@)]
  /\ UNCHANGED <<online, subscribed, requests, replies, clockVars, storeVars, handling,
                 answer>>

\* S4 and S5, in one transaction.  With the hold enabled the gate is held from
\* before the commit.
ActivateStep(s) ==
  /\ proving[s] # None
  /\ proving[s].at = "admitted"
  /\ IF Activatable(proving[s].tok)
     THEN /\ Activate(proving[s].tok)
          /\ proving' = [proving EXCEPT ![s] =
               IF HoldAfterActivation THEN [@ EXCEPT !.at = "reached"] ELSE None]
     ELSE /\ proving' = [proving EXCEPT ![s] = None]
          /\ UNCHANGED storeVars
  /\ UNCHANGED <<netVars, clockVars, faults, handling, answer>>

\* The activation transaction fails; the callback logs and returns.
ActivateFails(s) ==
  /\ proving[s] # None
  /\ proving[s].at = "admitted"
  /\ Fault
  /\ proving' = [proving EXCEPT ![s] = None]
  /\ UNCHANGED <<netVars, clockVars, storeVars, handling, answer>>

\* reachedAfterActivation: retried, with the gate held, until it is durable.
RecordReached(s) ==
  /\ proving[s] # None
  /\ proving[s].at = "reached"
  /\ AppendAuditRecord(Audited("reached", proving[s].tok))
  /\ proving' = [proving EXCEPT ![s].at = "hold"]
  /\ UNCHANGED <<netVars, clockVars, faults, record, agents, handling, answer>>

\* The hold ends and the gate is released.
HoldEnds(s) ==
  /\ proving[s] # None
  /\ proving[s].at = "hold"
  /\ proving' = [proving EXCEPT ![s] = None]
  /\ UNCHANGED <<netVars, clockVars, faults, storeVars, handling, answer>>

----------------------------------------------------------------------------
\* Server.Start returns: both subscriptions are established at the broker.
ServerStart(s) ==
  /\ s \notin online
  /\ online' = online \cup {s}
  /\ UNCHANGED <<subscribed, requests, presences, replies, clockVars, faults,
                 storeVars, serviceVars>>

\* The server is killed or stops.  What is pending at its subscriptions is
\* gone; the store keeps what was committed.
ServerCrash(s) ==
  /\ s \in online
  /\ Fault
  /\ online' = online \ {s}
  /\ requests' = [requests EXCEPT ![s] = <<>>]
  /\ presences' = [presences EXCEPT ![s] = <<>>]
  /\ handling' = [handling EXCEPT ![s] = None]
  /\ answer' = [answer EXCEPT ![s] = None]
  /\ proving' = [proving EXCEPT ![s] = None]
  /\ UNCHANGED <<subscribed, replies, clockVars, storeVars>>
=============================================================================
