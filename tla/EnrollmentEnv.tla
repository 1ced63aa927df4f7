---------------------------- MODULE EnrollmentEnv ----------------------------
(***************************************************************************)
(* What the enrollment server and the agents run on: two clocks, a fault   *)
(* budget, and the core NATS subjects between them.                        *)
(*                                                                         *)
(* The broker is external (github.com/nats-io): it is modelled from how    *)
(* internal/enrollment uses it.  Core NATS is at most once and keeps       *)
(* nothing for a subscriber that is not connected.  A published message is *)
(* appended to the pending queue of each connected subscription, or lost   *)
(* on the way; a subscription whose queue is full drops it.  The server    *)
(* subscribes without a queue group, so two servers that overlap during a  *)
(* restart both receive every request and every presence.                  *)
(*                                                                         *)
(* An agent identifier is created with its token, one for one (issue.go),  *)
(* so a token stands for both.  The three key pairs an enroll process      *)
(* generates are named by that process: a process generates keys only when *)
(* the key artifact does not exist, which happens at most once.            *)
(***************************************************************************)
EXTENDS Naturals, Sequences, FiniteSets

CONSTANTS
  Token,      \* token identifiers, and the agent identifiers assigned with them
  Proc,       \* enroll processes; p also names the keys p generates
  Stranger,   \* keys of other holders of a copy of a bundle
  Host,       \* agent hosts: one set of artifact paths each
  Server,     \* keystone-server processes on one store
  HostOf,     \* the host a process runs on
  BundleOf,   \* the token of the bundle a process is given
  None,       \* no value: NULL in the store, ErrNotExist on a disk
  Expiring,   \* tokens that may expire in a run
  Skewed,     \* processes whose own clock may pass the bundle's expiry
  MaxQueue,   \* pending messages of one subscription before it drops
  MaxFaults   \* crashes, local errors, store errors and lost messages in a run

ASSUME EnvAssumption ==
  /\ HostOf \in [Proc -> Host]
  /\ BundleOf \in [Proc -> Token]
  /\ None \notin Proc \cup Stranger \cup Token \cup Server
  /\ Expiring \subseteq Token
  /\ Skewed \subseteq Proc
  /\ MaxQueue \in Nat \ {0}
  /\ MaxFaults \in Nat

Key == Proc \cup Stranger

\* A permanent user JWT: the NATS key it is minted against, the agent it names,
\* and the server that minted it, which tells two mints for one token apart.
JWT == [sub : Key, name : Token, by : Server]

\* NULL is not a JWT.
ASSUME NoneAssumption == None \notin JWT

\* Requests on ks.enroll.<token>.request.  "malformed" is an envelope or payload
\* that does not decode, "incomplete" lacks a usable public half, "unsigned" is
\* not signed by the key it carries, "unknown" asks for neither kind.
BadKind == {"malformed", "incomplete", "unsigned", "unknown"}
RequestKind == {"credential", "confirmation"} \cup BadKind
Request == [tok : Token, key : Key, kind : RequestKind]

\* Signed presence on ks.out.<agent>.presence.
Presence == [tok : Token, key : Key]

\* Replies on ks.enroll.<token>.reply.  The wire carries no reason for a
\* denial; `why` records it so that a property can look for its audit record.
Reason == {"unknown token", "malformed request", "token spent", "token expired",
           "incomplete public halves", "request signature", "different public halves"}
CredentialReply(j) == [kind |-> "credential", jwt |-> j, why |-> None]
ConfirmationReply == [kind |-> "confirmation", jwt |-> None, why |-> None]
DeniedReply(r) == [kind |-> "denied", jwt |-> None, why |-> r]
Reply == {CredentialReply(j) : j \in JWT} \cup {ConfirmationReply}
           \cup {DeniedReply(r) : r \in Reason}

VARIABLES
  online,     \* servers whose two subscriptions are established
  subscribed, \* processes connected with their bundle and subscribed to replies
  requests,   \* pending queue of each server's request subscription
  presences,  \* pending queue of each server's presence subscription
  replies,    \* the reply channel of each enroll process
  late,       \* tokens expired by the server's and the broker's clock
  agentLate,  \* processes whose own clock has passed the bundle's expiry
  faults      \* faults spent

netVars == <<online, subscribed, requests, presences, replies>>
clockVars == <<late, agentLate>>

EnvTypeOK ==
  /\ online \subseteq Server
  /\ subscribed \subseteq Proc
  /\ requests \in [Server -> Seq(Request)]
  /\ presences \in [Server -> Seq(Presence)]
  /\ replies \in [Proc -> Seq(Reply)]
  /\ late \subseteq Token
  /\ agentLate \subseteq Proc
  /\ faults \in 0..MaxFaults

EnvInit ==
  /\ online = {}
  /\ subscribed = {}
  /\ requests = [s \in Server |-> <<>>]
  /\ presences = [s \in Server |-> <<>>]
  /\ replies = [p \in Proc |-> <<>>]
  /\ late = {}
  /\ agentLate = {}
  /\ faults = 0

Fault == faults < MaxFaults /\ faults' = faults + 1

\* The queues after message m reaches subscribers S, each dropping at its limit.
Enqueue(queue, S, m) ==
  [x \in DOMAIN queue |->
     IF x \in S /\ Len(queue[x]) < MaxQueue THEN Append(queue[x], m) ELSE queue[x]]

\* The message reaches every connected subscriber, or a fault keeps it from some.
Reaches(S, connected) ==
  /\ S \subseteq connected
  /\ IF S = connected THEN UNCHANGED faults ELSE Fault

\* The token expires: for the server's record and for the broker's JWT check,
\* whose clocks ADR-0003 section 12 assumes agree.
Expire(t) ==
  /\ t \in Expiring \ late
  /\ late' = late \cup {t}
  /\ UNCHANGED <<netVars, agentLate, faults>>

\* The broker ends the connection of an expired bootstrap identity.
Disconnect(p) ==
  /\ p \in subscribed
  /\ BundleOf[p] \in late
  /\ subscribed' = subscribed \ {p}
  /\ UNCHANGED <<online, requests, presences, replies, clockVars, faults>>

\* The agent's own clock, which nothing synchronises, passes the same instant.
AgentExpire(p) ==
  /\ p \in Skewed \ agentLate
  /\ agentLate' = agentLate \cup {p}
  /\ UNCHANGED <<netVars, late, faults>>
=============================================================================
