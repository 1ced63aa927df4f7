----------------------------- MODULE Enrollment ------------------------------
(***************************************************************************)
(* Enrollment, whole: the store, the servers' callbacks, the agents and    *)
(* the broker between them.  Stages S0 to S6 are those of ADR-0003.        *)
(***************************************************************************)
EXTENDS EnrollmentService, EnrollmentAgent

CONSTANT StrayKinds  \* requests another holder of a bundle may publish

ASSUME CompositionAssumption == StrayKinds \subseteq RequestKind

vars == <<netVars, clockVars, faults, storeVars, serviceVars, agentVars>>

Init == EnvInit /\ StoreInit /\ ServiceInit /\ AgentInit

\* S0, `enroll.create`: the token is recorded, and only then is the bundle
\* returned.  The connection may fail before the operator has it.
Create(t) ==
  /\ online # {}
  /\ IssueEnrollment(t)
  /\ \/ /\ bundle' = [p \in Proc |-> IF p \in Holders(t) THEN "present" ELSE bundle[p]]
        /\ UNCHANGED faults
     \/ /\ Fault
        /\ UNCHANGED bundle
  /\ UNCHANGED <<netVars, clockVars, serviceVars, pc, keys, got, disk, serving>>

\* Another holder of a copy of p's bundle publishes a request, for keys of its
\* own or one the service cannot use.
Stray(p) ==
  /\ bundle[p] = "present"
  /\ \E kind \in StrayKinds, k \in Stranger :
       requests' = Enqueue(requests, online, [tok |-> BundleOf[p], key |-> k, kind |-> kind])
  /\ Fault
  /\ UNCHANGED <<online, subscribed, presences, replies, clockVars, storeVars, serviceVars,
                 agentVars>>

Clock ==
  \/ \E t \in Token : Expire(t) /\ UNCHANGED <<storeVars, serviceVars, agentVars>>
  \/ \E p \in Proc : Disconnect(p) /\ UNCHANGED <<storeVars, serviceVars, agentVars>>
  \/ \E p \in Proc : AgentExpire(p) /\ UNCHANGED <<storeVars, serviceVars, agentVars>>

\* One step of server s.
RequestStep(s) ==
  \/ OnRequest(s)
  \/ Refuse(s)
  \/ RepeatCredential(s)
  \/ FirstCredential(s)
  \/ LostRace(s)
  \/ Confirm(s)
  \/ SendReply(s)

PresenceStep(s) ==
  \/ OnPresence(s)
  \/ ActivateStep(s)
  \/ RecordReached(s)
  \/ HoldEnds(s)

ServerFault(s) ==
  \/ RequestFails(s)
  \/ ActivateFails(s)
  \/ ServerCrash(s)

\* One step of process p.
ProcStep(p) ==
  \/ Enroll(p)
  \/ ReadKeys(p)
  \/ WriteKeys(p)
  \/ Bootstrap(p)
  \/ BootstrapRefused(p)
  \/ ReadIdentity(p)
  \/ RequestCredential(p)
  \/ AwaitCredential(p)
  \/ AwaitTimeout(p)
  \/ DeadlineRefused(p)
  \/ WriteIdentity(p)
  \/ OpenLedger(p)
  \/ Permanent(p)
  \/ ProvePresence(p)
  \/ RequestConfirmation(p)
  \/ AwaitConfirmation(p)
  \/ Finish(p)

ServeStep(h) == ServeStart(h) \/ ServePresence(h) \/ ServeStop(h)

Next ==
  \/ \E t \in Token : Create(t)
  \/ \E p \in Proc : Stray(p)
  \/ Clock
  \/ \E s \in Server :
       /\ RequestStep(s) \/ PresenceStep(s) \/ ServerStart(s) \/ ServerFault(s)
       /\ UNCHANGED agentVars
  \/ \E p \in Proc :
       /\ ProcStep(p) \/ AgentFails(p)
       /\ UNCHANGED <<storeVars, serviceVars>>
  \/ \E h \in Host : ServeStep(h) /\ UNCHANGED <<storeVars, serviceVars>>

Spec == Init /\ [][Next]_vars

----------------------------------------------------------------------------
(* Safety.                                                                 *)

TypeOK == EnvTypeOK /\ StoreTypeOK /\ ServiceTypeOK /\ AgentTypeOK

\* Every copy of a token's permanent credential -- in a reply decided or on its
\* way, in a process's memory, in an identity artifact -- is the one JWT the store holds
\* for it, minted against the recorded halves: one token yields one identity,
\* whatever retries, crashes and overlapping servers do (service.go credential,
\* store.go RecordCredential).
OneCredential ==
  /\ \A s \in Server : (answer[s] # None /\ answer[s].reply.kind = "credential") =>
       answer[s].reply.jwt = record[answer[s].tok].jwt
  /\ \A p \in Proc : \A i \in 1..Len(replies[p]) :
       replies[p][i].kind = "credential" => replies[p][i].jwt = record[BundleOf[p]].jwt
  /\ \A p \in Proc : got[p] # None => got[p] = record[BundleOf[p]].jwt
  /\ \A h \in Host : disk[h].identity # None =>
       LET id == disk[h].identity
       IN id.jwt = record[id.agent].jwt /\ id.digest = record[id.agent].halves

\* A spent token has its agent active with the halves S1 recorded, and some host
\* holds the identity artifact durably: S4 never happens for an agent that
\* could not survive a restart (service.go onPresence, store.go Activate).
ActiveIdentityDurable ==
  \A t \in Token : record[t].state = "spent" =>
    /\ agents[t] = record[t].halves
    /\ \E h \in Host : /\ disk[h].identity # None
                       /\ disk[h].identity.agent = t
                       /\ disk[h].identity.jwt = record[t].jwt

\* Exit 0 means that the agent on this host is active, its token is spent, and
\* the artifacts on its disk load as that identity after a restart (agent.go
\* confirm, reconnect.go LoadEnrolled), although replies are shared by every
\* process that holds the bundle.
SuccessMeansActive ==
  \A p \in Proc : pc[p] \in {"finish", "done"} =>
    /\ record[BundleOf[p]].state = "spent"
    /\ Enrolled(HostOf[p])
    /\ agents[BundleOf[p]] = DiskOf(p).keys.key

\* No one is refused off the record: a denial in a reply channel has its audit
\* record, and exit 10 is explained by one or by an expiry (service.go respond).
RefusalRecorded ==
  /\ \A p \in Proc : \A i \in 1..Len(replies[p]) :
       replies[p][i].kind = "denied" => Denial(BundleOf[p], replies[p][i].why) \in audit
  /\ \A p \in Proc : pc[p] = "refused" =>
       \/ BundleOf[p] \in late
       \/ p \in agentLate
       \/ \E r \in Reason : Denial(BundleOf[p], r) \in audit

\* While a server holds a token's activation, no confirmation of that token has
\* been answered, although the handler read the record before it waited at the
\* gate (service.go handle and onPresence; one server).
HeldUnconfirmed ==
  \A s \in Server : GateHeld(s) =>
    \A p \in Holders(proving[s].tok) :
      /\ pc[p] \notin {"finish", "done"}
      /\ ConfirmationReply \notin {replies[p][i] : i \in 1..Len(replies[p])}

\* What S1 records is authoritative from then on, and spent is final: no step
\* changes the halves or the JWT of a record that has them, takes a spent
\* token back, or touches an active agent's row.
RecordedIsFinal ==
  [][\A t \in Token :
       /\ record[t].jwt # None =>
            record'[t].jwt = record[t].jwt /\ record'[t].halves = record[t].halves
       /\ record[t].state = "spent" => record'[t].state = "spent"
       /\ agents[t] # None => agents'[t] = agents[t]]_vars

----------------------------------------------------------------------------
(* The abstract token: what enrollment promises of one token.              *)

Stage(t) == IF record[t].state = "absent" THEN "none"
            ELSE IF record[t].jwt = None THEN "pending"
            ELSE IF record[t].state = "issued" THEN "issued" ELSE "active"

Abstract == INSTANCE OneUseToken WITH
  Owner <- Key,
  stage <- [t \in Token |-> Stage(t)],
  owner <- [t \in Token |-> record[t].halves]

\* Enrollment implements the one-use token: none, pending, issued to one owner,
\* active for that owner, each step taken once and never undone.
ImplementsOneUseToken == Abstract!Spec

----------------------------------------------------------------------------
(* Liveness.                                                               *)

\* Callbacks run whenever a message is pending, a stopped server is started
\* again, the operator runs enroll again while the bundle is there, and a reply
\* that keeps being available to a waiting process is one day read before the
\* timer fires.
Fairness ==
  /\ \A t \in Token : WF_vars(Create(t))
  /\ \A s \in Server :
       /\ WF_vars(RequestStep(s) /\ UNCHANGED agentVars)
       /\ WF_vars(PresenceStep(s) /\ UNCHANGED agentVars)
       /\ WF_vars(ServerStart(s) /\ UNCHANGED agentVars)
  /\ \A p \in Proc :
       /\ WF_vars(ProcStep(p) /\ UNCHANGED <<storeVars, serviceVars>>)
       /\ SF_vars(AwaitCredential(p) /\ UNCHANGED <<storeVars, serviceVars>>)
       /\ SF_vars(AwaitConfirmation(p) /\ UNCHANGED <<storeVars, serviceVars>>)

FairSpec == Spec /\ Fairness

\* After any finite number of crashes, losses and store failures, a process
\* that holds a bundle ends enrolled, unless a clock ends the token first
\* (ADR-0003 section 7).
Converges ==
  \A p \in Proc : bundle[p] = "present" ~>
    \/ pc[p] = "done"
    \/ BundleOf[p] \in late
    \/ p \in agentLate

\* Expiry ends a token that was not used: once the server's clock has passed it
\* with no credential recorded and no request for it in hand, none is ever
\* recorded, whatever is still queued, repeated or restarted (service.go
\* handle).
ExpiredIssuesNothing ==
  \A t \in Token :
    []((/\ t \in late /\ record[t].jwt = None
        /\ \A s \in Server : handling[s] # None => handling[s].req.tok # t)
         => [](record[t].jwt = None))

----------------------------------------------------------------------------
(* What the documents say and the code does not do.                        *)

\* LEDGER-1: "the durable agent ledger must exist before the server can reach
\* S4" (agent.go credential writes the identity first, then opens the ledger).
LedgerBeforeActive ==
  \A t \in Token : record[t].state = "spent" =>
    \A h \in Host : (disk[h].identity # None /\ disk[h].identity.agent = t) => disk[h].ledger

\* ADR-0003 section 12: "the agent's clock is deliberately not load-bearing.
\* Expiry is enforced by the server and the broker" (agent.go Enroll takes its
\* deadline from the agent's clock).
RefusedByServerOnly ==
  \A p \in Proc : pc[p] = "refused" =>
    \/ BundleOf[p] \in late
    \/ \E r \in Reason : Denial(BundleOf[p], r) \in audit

\* KEY-2: the key artifact is durable before S1, "and restart after that write
\* must present the same public halves" (agent.go keys).
KeysDurable ==
  \A p \in Proc : keys[p] # None => DiskOf(p).keys = [agent |-> BundleOf[p], key |-> keys[p]]
=============================================================================
