--------------------------- MODULE EnrollmentAgent ---------------------------
(***************************************************************************)
(* The agent's end of enrollment: `keystone-agent enroll` (agent.go,       *)
(* artifact.go and cmd/keystone-agent) and the enrolled agent that proves  *)
(* presence (reconnect.go).  A process's program counter names what it     *)
(* does next; a host's disk survives every crash, and WriteAtomic makes an *)
(* artifact visible whole or not at all, so a write is one step.           *)
(***************************************************************************)
EXTENDS EnrollmentEnv

CONSTANTS
  AgentHolds,  \* enabled fault points of the agent, by the step they precede
  Served       \* hosts on which the agent service may run

ASSUME AgentAssumption ==
  /\ AgentHolds \subseteq {"bootstrap", "store", "written", "proved"}
  /\ Served \subseteq Host

VARIABLES
  pc,       \* the next step of each enroll process
  keys,     \* the keys each process has in memory
  got,      \* the JWT a process has accepted and not yet written
  disk,     \* each host's artifacts
  bundle,   \* the bundle file of each process
  serving   \* the identity each host's agent service has loaded

agentVars == <<pc, keys, got, disk, bundle, serving>>

Idle == {"off", "done", "refused", "failed"}
Unconfirmed == {"keys", "write", "bootstrap", "identity", "request", "awaiting", "store"}
Identified == {"ledger", "written", "permanent", "prove", "proved", "confirm", "ask",
               "confirming"}
Running == Unconfirmed \cup Identified \cup {"finish"}

KeyArtifact == [agent : Token, key : Key]
IdentityArtifact == [agent : Token, jwt : JWT, digest : Key]
Disk == [keys : KeyArtifact \cup {None}, identity : IdentityArtifact \cup {None},
         ledger : BOOLEAN]

\* A missing artifact is not an artifact.
ASSUME ArtifactAssumption == None \notin KeyArtifact /\ None \notin IdentityArtifact

AgentTypeOK ==
  /\ pc \in [Proc -> Idle \cup Running]
  /\ keys \in [Proc -> Key \cup {None}]
  /\ got \in [Proc -> JWT \cup {None}]
  /\ disk \in [Host -> Disk]
  /\ bundle \in [Proc -> {"none", "present", "removed"}]
  /\ serving \in [Host -> Presence \cup {None}]

AgentInit ==
  /\ pc = [p \in Proc |-> "off"]
  /\ keys = [p \in Proc |-> None]
  /\ got = [p \in Proc |-> None]
  /\ disk = [h \in Host |-> [keys |-> None, identity |-> None, ledger |-> FALSE]]
  /\ bundle = [p \in Proc |-> "none"]
  /\ serving = [h \in Host |-> None]

DiskOf(p) == disk[HostOf[p]]
Goto(p, l) == pc' = [pc EXCEPT ![p] = l]
Step(p, from, to) == pc[p] = from /\ Goto(p, to)

\* The process ends with an exit code: its memory and connections go.
Exit(p, l) ==
  /\ Goto(p, l)
  /\ keys' = [keys EXCEPT ![p] = None]
  /\ got' = [got EXCEPT ![p] = None]
  /\ subscribed' = subscribed \ {p}
  /\ replies' = [replies EXCEPT ![p] = <<>>]
  /\ UNCHANGED <<online, requests, presences, clockVars, disk, serving>>

\* ErrRefused: exit 10.
RefusedExit(p) == Exit(p, "refused") /\ UNCHANGED <<bundle, faults>>

\* A local error (exit 1) at a step the code finds something wrong.
LocalExit(p) == Exit(p, "failed") /\ UNCHANGED <<bundle, faults>>

quiet == <<netVars, clockVars, faults, bundle, serving>>

----------------------------------------------------------------------------
\* The operator runs `keystone-agent enroll`, again after any earlier end that
\* left the bundle in place.
Enroll(p) ==
  /\ pc[p] \in Idle
  /\ bundle[p] = "present"
  /\ Goto(p, "keys")
  /\ UNCHANGED <<quiet, keys, got, disk>>

\* keys: an artifact for this agent is used, another agent's is ErrArtifact.
ReadKeys(p) ==
  /\ pc[p] = "keys"
  /\ \/ /\ DiskOf(p).keys = None
        /\ Goto(p, "write")
        /\ UNCHANGED <<quiet, keys, got, disk>>
     \/ /\ DiskOf(p).keys # None
        /\ DiskOf(p).keys.agent = BundleOf[p]
        /\ Goto(p, "bootstrap")
        /\ keys' = [keys EXCEPT ![p] = DiskOf(p).keys.key]
        /\ UNCHANGED <<quiet, got, disk>>
     \/ /\ DiskOf(p).keys # None
        /\ DiskOf(p).keys.agent # BundleOf[p]
        /\ LocalExit(p)

\* Mutant of WriteKeys: the keys stay in memory and are not written.
WriteKeysNot(p) ==
  /\ Step(p, "write", "bootstrap")
  /\ keys' = [keys EXCEPT ![p] = p]
  /\ UNCHANGED <<quiet, got, disk>>

\* GenerateAgentKeys and WriteKeyArtifact: durable before anything is sent.
WriteKeys(p) ==
  /\ Step(p, "write", "bootstrap")
  /\ keys' = [keys EXCEPT ![p] = p]
  /\ disk' = [disk EXCEPT ![HostOf[p]].keys = [agent |-> BundleOf[p], key |-> p]]
  /\ UNCHANGED <<quiet, got>>

\* bootstrap: connect with the bundle and subscribe to the reply subject.
Bootstrap(p) ==
  /\ Step(p, "bootstrap", "identity")
  /\ subscribed' = subscribed \cup {p}
  /\ UNCHANGED <<online, requests, presences, replies, clockVars, faults,
                 bundle, serving, keys, got, disk>>

\* The broker refuses an expired bootstrap credential.
BootstrapRefused(p) ==
  /\ pc[p] = "bootstrap"
  /\ BundleOf[p] \in late
  /\ RefusedExit(p)

\* ReadIdentityArtifact: none, so ask for a credential; one for these keys and
\* this agent, so go on to S3; anything else is a local error.
ReadIdentity(p) ==
  LET id == DiskOf(p).identity
  IN /\ pc[p] = "identity"
     /\ \/ /\ id = None
           /\ Goto(p, "request")
           /\ UNCHANGED <<quiet, keys, got, disk>>
        \/ /\ id # None
           /\ id.digest = keys[p] /\ id.agent = BundleOf[p]
           /\ Goto(p, "permanent")
           /\ UNCHANGED <<quiet, keys, got, disk>>
        \/ /\ id # None
           /\ id.digest # keys[p] \/ id.agent # BundleOf[p]
           /\ LocalExit(p)

SendRequest(p, kind) ==
  /\ LET listening == IF p \in subscribed THEN online ELSE {}
     IN \E S \in SUBSET listening :
       /\ Reaches(S, listening)
       /\ requests' = Enqueue(requests, S, [tok |-> BundleOf[p], key |-> keys[p], kind |-> kind])
  /\ UNCHANGED <<online, subscribed, presences, replies>>

SendPresence(m) ==
  /\ \E S \in SUBSET online :
       /\ Reaches(S, online)
       /\ presences' = Enqueue(presences, S, m)
  /\ UNCHANGED <<online, subscribed, requests, replies>>

RequestCredential(p) ==
  /\ Step(p, "request", "awaiting")
  /\ SendRequest(p, "credential")
  /\ UNCHANGED <<clockVars, bundle, serving, keys, got, disk>>

Receive(p) == replies' = [replies EXCEPT ![p] = Tail(@)]

\* Mutant of AwaitCredential: any reply that is not a denial is the credential.
AwaitCredentialAny(p) ==
  /\ pc[p] = "awaiting"
  /\ replies[p] # <<>>
  /\ LET r == Head(replies[p])
     IN \/ /\ r.kind = "denied"
           /\ RefusedExit(p)
        \/ /\ r.kind # "denied"
           /\ Goto(p, "store")
           /\ got' = [got EXCEPT ![p] = r.jwt]
           /\ Receive(p)
           /\ UNCHANGED <<online, subscribed, requests, presences, clockVars, faults,
                          bundle, serving, keys, disk>>

\* await in credential: a denial refuses; a JWT for this process's key and agent
\* is taken, one for another is a local error; any other reply is passed over
\* and the request repeated.
AwaitCredential(p) ==
  /\ pc[p] = "awaiting"
  /\ replies[p] # <<>>
  /\ LET r == Head(replies[p])
     IN \/ /\ r.kind = "denied"
           /\ RefusedExit(p)
        \/ /\ r.kind = "credential"
           /\ r.jwt.sub # keys[p] \/ r.jwt.name # BundleOf[p]
           /\ LocalExit(p)
        \/ /\ r.kind = "credential"
           /\ r.jwt.sub = keys[p] /\ r.jwt.name = BundleOf[p]
           /\ Goto(p, "store")
           /\ got' = [got EXCEPT ![p] = r.jwt]
           /\ Receive(p)
           /\ UNCHANGED <<online, subscribed, requests, presences, clockVars, faults,
                          bundle, serving, keys, disk>>
        \/ /\ r.kind = "confirmation"
           /\ Goto(p, "request")
           /\ Receive(p)
           /\ UNCHANGED <<online, subscribed, requests, presences, clockVars, faults,
                          bundle, serving, keys, got, disk>>

\* replyWait or confirmPeriod passes, and the request is repeated.
AwaitTimeout(p) ==
  /\ \/ Step(p, "awaiting", "request")
     \/ Step(p, "confirming", "confirm")
  /\ UNCHANGED <<quiet, keys, got, disk>>

\* The context's deadline, set from the agent's own clock, ends a wait for a
\* reply or an enabled hold.
DeadlineRefused(p) ==
  /\ pc[p] \in {"awaiting", "confirming"} \cup AgentHolds
  /\ p \in agentLate
  /\ RefusedExit(p)

\* Mutant of WriteIdentity: the identity is not made durable before S3.
WriteIdentityNot(p) ==
  /\ Step(p, "store", "ledger")
  /\ UNCHANGED <<quiet, keys, got, disk>>

\* S2: the identity artifact, then the ledger.
WriteIdentity(p) ==
  /\ Step(p, "store", "ledger")
  /\ disk' = [disk EXCEPT ![HostOf[p]].identity =
                [agent |-> BundleOf[p], jwt |-> got[p], digest |-> keys[p]]]
  /\ UNCHANGED <<quiet, keys, got>>

OpenLedger(p) ==
  /\ Step(p, "ledger", "written")
  /\ disk' = [disk EXCEPT ![HostOf[p]].ledger = TRUE]
  /\ UNCHANGED <<quiet, keys, got>>

\* S3's connection, with the permanent identity.
Permanent(p) ==
  /\ pc[p] \in {"written", "permanent"}
  /\ Goto(p, "prove")
  /\ UNCHANGED <<quiet, keys, got, disk>>

\* Mutant of ProvePresence: the rounds repeat the request and not the proof.
ProvePresenceOnce(p) ==
  \/ /\ Step(p, "prove", "proved")
     /\ SendPresence([tok |-> BundleOf[p], key |-> keys[p]])
     /\ UNCHANGED <<clockVars, bundle, serving, keys, got, disk>>
  \/ /\ pc[p] \in {"proved", "confirm"}
     /\ Goto(p, "ask")
     /\ UNCHANGED <<quiet, keys, got, disk>>

\* One presence before the holds, and one at the head of every round.
ProvePresence(p) ==
  /\ \/ Step(p, "prove", "proved")
     \/ Step(p, "proved", "ask")
     \/ Step(p, "confirm", "ask")
  /\ SendPresence([tok |-> BundleOf[p], key |-> keys[p]])
  /\ UNCHANGED <<clockVars, bundle, serving, keys, got, disk>>

RequestConfirmation(p) ==
  /\ Step(p, "ask", "confirming")
  /\ SendRequest(p, "confirmation")
  /\ UNCHANGED <<clockVars, bundle, serving, keys, got, disk>>

\* Mutant of AwaitConfirmation: any reply that is not a denial confirms.
AwaitConfirmationAny(p) ==
  /\ pc[p] = "confirming"
  /\ replies[p] # <<>>
  /\ LET r == Head(replies[p])
     IN \/ /\ r.kind = "denied"
           /\ RefusedExit(p)
        \/ /\ r.kind # "denied"
           /\ Goto(p, "finish")
           /\ Receive(p)
           /\ UNCHANGED <<online, subscribed, requests, presences, clockVars, faults,
                          bundle, serving, keys, got, disk>>

\* await in confirm: only a confirmation of active and spent ends it.
AwaitConfirmation(p) ==
  /\ pc[p] = "confirming"
  /\ replies[p] # <<>>
  /\ LET r == Head(replies[p])
     IN \/ /\ r.kind = "denied"
           /\ RefusedExit(p)
        \/ /\ r.kind # "denied"
           /\ Goto(p, IF r.kind = "confirmation" THEN "finish" ELSE "confirm")
           /\ Receive(p)
           /\ UNCHANGED <<online, subscribed, requests, presences, clockVars, faults,
                          bundle, serving, keys, got, disk>>

\* Enroll returned nil: the bundle is removed and the process exits 0.
Finish(p) ==
  /\ pc[p] = "finish"
  /\ bundle' = [bundle EXCEPT ![p] = "removed"]
  /\ Exit(p, "done")
  /\ UNCHANGED faults

\* The process is killed, or a connection, a write or the bundle's removal
\* fails: exit 1 or none, with the artifacts written so far left on disk.
AgentFails(p) ==
  /\ pc[p] \in Running
  /\ Fault
  /\ Exit(p, "failed")
  /\ UNCHANGED bundle

----------------------------------------------------------------------------
\* LoadEnrolled: an identity, and the keys it was written for.
Enrolled(h) ==
  /\ disk[h].identity # None
  /\ disk[h].keys # None
  /\ disk[h].keys.agent = disk[h].identity.agent
  /\ disk[h].keys.key = disk[h].identity.digest

\* `keystone-agent` with no arguments starts, and holds what it loaded.
ServeStart(h) ==
  /\ h \in Served
  /\ serving[h] = None
  /\ Enrolled(h)
  /\ serving' = [serving EXCEPT ![h] =
       [tok |-> disk[h].identity.agent, key |-> disk[h].keys.key]]
  /\ UNCHANGED <<netVars, clockVars, faults, pc, keys, got, disk, bundle>>

\* Run proves presence every PresencePeriod.
ServePresence(h) ==
  /\ serving[h] # None
  /\ SendPresence(serving[h])
  /\ UNCHANGED <<clockVars, agentVars>>

ServeStop(h) ==
  /\ serving[h] # None
  /\ serving' = [serving EXCEPT ![h] = None]
  /\ UNCHANGED <<netVars, clockVars, faults, pc, keys, got, disk, bundle>>
=============================================================================
