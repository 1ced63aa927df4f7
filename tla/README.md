# Keystone Core in TLA+

Keystone Core runs commands on a fleet of agents over NATS.  At this commit the
running parts are enrollment, by which an agent gets its permanent identity from
a one-use token, and the operator socket, by which an operator asks for such a
token.  The job path exists as tables, grants and wire formats, called by tests
and by small command-line harnesses only.  These modules model both: the running
parts as they run, the job path with its operations in any order a caller may
choose.

Paths below are relative to the repository root, `internal/enrollment` unless
another is given.

## The system

| Component | State | Operations | Talks to |
|---|---|---|---|
| Token issuing (`issue.go`, `operation.go`) | none of its own | `enroll.create` | operator socket, store |
| Enrollment service (`service.go`) | the record a callback has read; the hold's gate | `onRequest`, `onPresence` | broker, store |
| Enrolling agent (`agent.go`, `artifact.go`, `cmd/keystone-agent`) | keys in memory, the JWT received; on disk the key artifact, the identity artifact, the ledger, the bundle | `Enroll` | broker |
| Enrolled agent (`reconnect.go`) | the identity loaded | `Run`: presence every period | broker |
| Store (`internal/store`) | SQLite: enrollment, agents, audit; jobs and results | one transaction per operation | |
| Agent ledger (`internal/ledger`) | SQLite: receipts, starts, results, publish acknowledgements | one statement per operation | |
| Operator socket (`internal/operator`) | the socket's path; two counting channels, a lookup queue, one goroutine per connection | `Listen`, `Serve`, `handle`, `serveAuthorized`, `Close` | group database, store, handlers |
| NATS identities (`internal/natsauth`) | credential files, the account signing seed | minting, grants, deployment files | broker |
| Wire format (`internal/protocol`) | none | framing, signatures, encryption | |
| Configuration, command line, repository tools | none | | |

What is hard here:

- **Messages.**  Requests, replies and presence are core NATS: lost, dropped at a
  full queue, or delivered to nobody.  The reply subject belongs to the token, so
  every holder of the bundle hears every reply.
- **Crashes.**  The agent makes three files durable one after the other, the
  server commits and answers in separate steps, and enrollment is rerun from
  wherever it stopped.  A migration, the ledger's schema and the operator socket
  may each be left half made.
- **Interleaving.**  The two callbacks of a server run on two connections, and two
  servers overlap during a restart: `cmd/keystone-server` starts the enrollment
  service before it finds the operator socket taken.
- **Stale reads.**  A handler decides on the record it read, waits at a gate,
  mints, and records later.
- **Clocks.**  A token expires for the server, the broker and the agent by three
  clocks.
- **Bounds.**  Operator connections before and after authorization are counted by
  channels, whose tokens are returned on many paths; a group lookup may hang.  An
  envelope is parsed under a budget that every field shrinks.
- **Names.**  The listener works on a path, not on a socket: what is there may
  change between two calls.  An identifier becomes part of the subjects that an
  identity is granted.

`PROJECT.json` lists each hazard at its line.

## Modules

| Module | Models |
|---|---|
| `EnrollmentEnv` | the broker (external), the clocks, the fault budget; message types |
| `EnrollmentStore` | the enrollment, agents and audit tables; an operator per transaction |
| `EnrollmentService` | `service.go`, on any number of servers |
| `EnrollmentAgent` | `keystone-agent enroll` and the enrolled agent |
| `Enrollment` | the composition, its properties, the refinement mapping |
| `OneUseToken` | what a token promises: none, pending, issued to one owner, active |
| `MCEnrollment` | small instances for TLC |
| `OperatorServer` | the operator socket's connections, and its properties |
| `OperatorListener` | how a server takes the operator socket and gives it up |
| `ServerStore` | opening and migrating the store; issuing, audit, retention, jobs and results |
| `AgentLedger` | opening the agent's ledger, and its operations |
| `Envelope` | the wire format: framing, decoding, headers, signatures, sealed payloads |
| `Grants` | subjects, grants, permissions, user JWTs and credential files |
| `Messaging` | the composition of the two: a server's credentials and minting, envelopes published, altered, delivered and judged |
| `MCMessaging` | a small instance of it for TLC |
| `EnrollmentTypes`, `EnrollmentSafety`, `EnrollmentRefinement` | theorems and proofs about enrollment |
| `OperatorProofs`, `ListenerProofs` | about the operator socket's connections, and its listener |
| `StoreProofs`, `LedgerProofs`, `MessagingProofs` | about the two databases, and about grants and messages |

### How enrollment is modelled

`OnRequest` reads the record and decides the verdict of `handle`'s checks, in
their order.  What happens next is a separate step on that copy: a denial and its
audit record (`Refuse`), the recorded JWT again (`RepeatCredential`), a new one
(`FirstCredential`), or the loser's side of a race between servers (`LostRace`,
with its second read and that read's failure).  `Confirm` waits at the gate and
then answers from the copy.  The reply is published in a step of its own
(`SendReply`), so a crash may come between.  `OnPresence` likewise checks first
and activates later; with the hold configured, `RecordReached` and `HoldEnds`
keep the gate.  `RequestFails` and `ActivateFails` stand for every store or
minting error, all of which end the callback without a reply.

An enroll process is a program counter through `Enroll`: read keys, write keys,
connect, read identity, request, await, write identity, open ledger, connect,
prove, ask, await confirmation, remove the bundle.  A host's disk survives every
end of a process.  `WriteAtomic` writes a temporary file, syncs and renames, so a
write is one step.  A fault point (`AgentHolds`) stops a process before the named
step, where the deadline may end it.

Abstractions:

- A token and its agent identifier are created together, one for one, and are one
  model value.  Three key pairs are one value, named by the process that
  generates them: a process generates keys at most once, since it does so only
  when there is no artifact and never deletes one.  Keys of other holders of a
  bundle are the set `Stranger`.
- A JWT is its key, its agent and the server that minted it; the last tells two
  mints for one token apart.
- Envelopes and signatures appear as request kinds: malformed, incomplete,
  unsigned, unknown.  A reply is the server's; what does not verify is ignored by
  the agent and would be a stutter.
- A denial carries no reason on the wire.  The model keeps it in `why`, which no
  agent reads, so that a property can look for its audit record.
- The stages before a token exists are Init: a server that cannot open its store,
  keys or broker connection does not start.

`OperatorServer` follows `handle` statement by statement: the slot taken by
`Serve`, the two selects, the result channel of capacity one, the denial recorded
before it is written, the authorized slot taken before the other is returned, and
the deferred calls, which return the slot before they close the connection.
Members join and leave the admin group at any time; a lookup answers by the group
at the moment it asks, fails, or never returns.  A connection is used once, and a
restart closes all of them.

### How the operator socket is taken

A process of `OperatorListener` takes one step per system call of `Listen`:
`PrepareDirectory`, `InspectPath` (lstat), `Dial` (connect), `RemoveStale`
(unlink), `Bind` and `ListenUnix` (the two halves of `net.ListenUnix`, between
which a connection is refused), `Chown`, `Chmod`; and `CloseUnlink` then
`CloseSocket`, the order of Go's listener.  Every call but the last works on
whatever the path names by then.  The directory may at first be absent, or
writable by others who plant a file or a socket; an administrator may repair it.
A signal before the handler is installed is a crash.

`ServingReachable` excludes the one case the code leaves open: two processes in
`Listen` at once.  The second may connect after the first has bound and before it
listens, take the socket for stale and remove it, and the first then serves where
nobody reaches it.  ADR-0009 section 8 rests the unlink on the directory's owner,
which keeps others out but not a second server, and has such a server recognised by
the connection it accepts, which one that has bound and not yet listened does not.
`LiveSocketKept` states the rule, REC-3, without the exclusion, and the run
`takeover` shows it broken (see the findings).  `raced` records that two have been
in `Listen` together, and `Recovers` says that the socket comes
back afterwards all the same.  A process that starts while another serves, stops
or has crashed is not in that case, and is checked.  `TamperedKept` has no
exclusion: it is about the unlink, the chown and the chmod of every process, racing
or not.

### How the two databases are modelled

In `ServerStore` a migration is a sequence of statements on the shapes of the
tables, their indexes and their rows.  `CheckApplied` reads the version outside
the transaction, as `migrate` does; the first `RunStatement` takes SQLite's
writer lock, and what it finds decides whether a migration that another server
has finished meanwhile is refused.  A statement that fails, a lock conflict
(`Busy`) and a crash all roll back and end the process.  Init is a store at any
version, as an earlier build left it.  Rows are kept where a migration moves
them: the enrollment tokens, which migration 4 drops with their table, and the
audit records, which migration 3 copies without their actor's uid.  `told` is
what callers were told is recorded, and `last` the time of the latest audit
record, which retention does not take back.  A job is accepted in whatever state its
caller supplies, kept in `accepted`, and a result moves it to whatever state the
result carries; the store has no notion of a terminal one, so `TerminalWithResult`
says that the job's state is its result's if it has one, and otherwise as accepted.
`RecordResult` is its two statements; the
other operations cannot be refused once their first statement is accepted and are
one step.

In `AgentLedger` each statement of `migrate` commits by itself.  While another
process has the ledger, any of them may find the file locked, as often as it
happens, and `Open` then fails (`Busy`).  An operation that
a primary or foreign key refuses changes nothing and is a disabled action.
Retention is one DELETE, so a single old receipt with a start or a result keeps
every old receipt.  AC-12 of `docs/dossiers/C02-I-acceptance-evidence.md` says
"Receipt retention removes records older than the supplied floor"; the contract
test does so with unreferenced receipts only.  `ObservationsKept` states the side
that matters to a job: nothing a start or a result refers to goes.

### How messages are modelled

Bytes are numbers and byte strings are sequences, so that a boundary between
fields can be moved and a length can be wrong.  Lengths are scaled: a prefix is
one byte, identifiers have at most two, a signature is two (its halves) and a
sealed payload has an overhead of two.  `Split`, `Decode` and `CheckHeaders` keep
the order of their refusals.  The loops of `Frame` and `Split`, of a fixed nine
turns, are written out by threes (`Framed3`, `Take3`).  Cryptography is symbolic: a signature half or a box
is an entry's number in the record of what was signed or sealed, so whoever alters
a message can move it and cannot make one.  A header's version is text that is
parsed, with its leading zeros.

A subject is a sequence of tokens, a permission is what `permissionFor` renders,
and `Permits` reads it as the broker does: with no allow list everything that is
not denied is allowed.  A server opens on any three files of two deployments, among
them credentials of an earlier build, with another's seed or signed by the account's
own key, and seeds that are a user's or the account's own.  It mints identities, as
often as asked, for identifiers that include a wildcard and a service's name.  Each
principal then publishes on every subject its grants permit; the last message may be
altered in one place; everyone whose permissions let it hear the subject, pull it
from its stream or read the publisher's inbox does, and judges it.

An enrollment request says that it is from its token's agent (`AgentOf`), not from
the bootstrap identity that publishes it.  `SignerOf` decides by class whose key
signs and verifies: the service's for replies, commands and cancellations, the
sender's own for the rest.  On enrollment and presence subjects (`Enrolling`) the
receivers are those of `wire.go`: after decoding they compare class and sender and,
in enrollment, the token, verify, and read no headers.  There is no job service at
this commit, so the other classes are made as by `cmd/keystone-vector-producer` and
judged as by `cmd/keystone-vector-verifier`: headers, signature, and the payload,
with the recipient's key, which that command may be run without.  The bound of the
enrollment receivers and that of the verifier are one constant, `MaxEnvelope`.
Checks of `Open` on the broker's CA and the service's own keys only refuse, and are
left out.

## Runs

| Run | Instance | Shows |
|---|---|---|
| `contend` | two processes on two hosts with one bundle, one server, the agent service, malformed requests, one fault | one identity for one token, refusals on record, and success that means what it says, although replies are shared |
| `overlap` | one process, two servers, a stranger with the bundle, one fault | both servers read, mint and record: still one credential in every copy; `RecordedIsFinal`; the refinement of `OneUseToken` |
| `converge` | one process with holds on both sides, expiry and a skewed clock, two faults, fairness | the same safety, a held activation is unconfirmed, enrollment ends whatever two faults do, an expired unused token never yields a credential |
| `operator` | two connections, one slot before and one after authorization, one worker, two acts, fairness | slots accounted, no service to outsiders, denials on record, one request in flight, authorization ends; while the worker's lookups return, every queued one is taken up, also behind connections that timed out |
| `listener` | two servers, three crashes, stops, plants or repairs, fairness | who serves is at the path with its group and mode, nothing foreign is removed or given a group or mode, some server comes to serve for good |
| `store` | two servers, every earlier version, one job of two states, one token, two audit records, one fault, fairness | a migration is whole or absent, what was recorded outlives it, a job is in its result's state or as accepted, every server opens |
| `agent_ledger` | two processes, two jobs, two clock ticks, two faults, fairness | no job starts twice, observations stay, an open ledger is complete, an interrupted one is completed |
| `wire` | four identifiers, one token, two deployments, two messages of three payload sizes | principals hear and send only what they are entitled to, what is accepted is what was sent, and all of that up to the limit, a server that starts can serve |
| `ledger`, `skew`, `keys`, `takeover` | one finding each | see below |

**Bounds.**  `MaxFaults` counts crashes, losses, store errors and strays together:
one in `contend` and `overlap`, so that it may come at every step, and two in
`converge`, where a fault during recovery matters.  `MaxQueue` is 1: a full queue
drops, so a small one meets the drop and the loss that larger ones only postpone, and the faults
already lose whatever a longer queue would have kept.  Two processes, hosts or
servers suffice for the races in the code, each of which is between two parties.
One token suffices because no transaction or handler touches two tokens, except
through the gate, which holds confirmations of any token.  Of the requests that are
refused for their form `contend` leaves out "incomplete", whose check stands next to
that of "unsigned" and refuses in the same way.  In `operator`,
`MaxActs` (frames, hangups, membership changes, restarts) is 2: two pipelined
frames, or a frame and a hangup, or a revocation in the middle of a lookup.  Two
connections and one worker fill the slots and the queue behind the worker; with
two workers the properties hold as well, but two connections never lack a slot.  In
`listener`, `MaxActs` 3 lets both servers end and something else happen between.
In `store`, one fault may come at any statement, and `MaxAudit` 2 gives a record
on either side of a retention; one job and one token suffice, as no transaction
touches two.  In `agent_ledger` two jobs are needed, since one's start decides
whether the other's receipt is deleted.  In `wire`, two messages let an alteration
put a part of one into the other; the classes and payloads make envelopes of 16 to
21 bytes against a `MaxEnvelope` of 20, and a sealed payload that no prefix can
count, which is not sent.

Deadlock is not checked: enrollment ends when the bundle is removed, a connection
ends when it is closed, and the bounded acts and messages of the other runs are
used up.

**Fairness.**  Callbacks run when messages are pending.  A stopped server is
started again (the service manager), and the operator issues the token and runs
`enroll` again while its bundle is there, which is what ADR-0003 section 7 tells
an operator to do after any failure.  `AwaitCredential` and `AwaitConfirmation`
are strongly fair: reply and timer race in one `select`, and a process whose
replies keep arriving one day reads one before its timer.  Without that, an
infinite run of lost races is a counterexample that says nothing of the code.
Faults have no fairness.  In `OperatorServer` goroutines and timers run, and
nothing is assumed of the membership workers.  `LookupsTakenUp` has as hypothesis
that some one worker runs and the lookups it makes return; that every queue entry
then moves, and no connection that has gone away holds that worker, is the
conclusion.  In the listener, store and ledger modules processes run and
the service manager starts them again, faults and operations have no fairness.
`Recovers` has as hypothesis that processes stop overlapping in `Listen`, without
which two that are always started together may refuse each other for ever;
`Opens` that results stop taking the store's lock, without which a server that
starts may always find it taken and exit; `Reopens`, likewise, that no statement of
`migrate` finds the ledger locked any more.

## Findings

- **The ledger may not exist when an agent becomes active** (`ledger`).
  `credential` writes the identity, then opens the ledger.  A process that dies
  between the two is run again, finds the identity and skips `credential`, so it
  proves presence and is activated with no ledger.  LEDGER-1 says the ledger must
  exist before S4.
- **The agent's clock refuses** (`skew`).  `Enroll` takes its deadline from the
  agent's clock; ADR-0003 section 12 says that clock decides nothing.
- **Two enroll processes on one host** (`keys`).  `keys` reads and then writes
  with nothing between to exclude another process; the later write replaces the
  keys the earlier one presents.  KEY-2 says the written keys are the ones
  presented after a restart.
- **Two servers that start together** (`takeover`).  `net.ListenUnix` binds and then
  listens.  A server that connects in between is refused, takes the socket for stale,
  and removes it after the other has begun to accept on it.  REC-3 says that a socket
  that accepts connections is left in place and the second server exits, and ADR-0009
  section 8 that `ECONNREFUSED` tells a stale socket from a live one.  Nothing at this
  commit keeps two servers from starting at once.

## Proofs

Every invariant and every action property that a passing run checks is proved; only
liveness stays with TLC (below).  The proofs are for arbitrary sets of tokens, processes,
hosts, servers, strangers, jobs, connections, workers, deployments, identifiers
and payloads, any maps from process to host and bundle, any queue, slot, fault,
message and envelope bounds, every fault point.  They hold under the named assumptions of the
modules: types of the constants; that `None` is none of the values it stands
beside (`NoneAssumption`, `ArtifactAssumption` and others); that connections and
workers are finitely many; that a deployment is not called as a user's key is
tagged, and that no wildcard is a valid identifier (`NameAssumption`), which the
identifier grammar says; that names and payloads are byte strings
(`MessagingAssumption`); that the agent identifiers `Issue` makes are valid ones
(`IssueAssumption`), which it checks.  TLC evaluates all of them on the runs.

| Theorem | States |
|---|---|
| `TypeCorrect` | `Spec => []TypeOK` |
| `Invariance` | `Spec => []IInv` |
| `OneCredentialAlways` | `Spec => []OneCredential` |
| `RefusalRecordedAlways` | `Spec => []RefusalRecorded` |
| `RecordsAreFinal` | `Spec => RecordedIsFinal` |
| `ActiveIdentityDurableAlways` | if a host is given one token's bundle, `Spec => []ActiveIdentityDurable` |
| `SuccessMeansActiveAlways` | if a host runs one enroll process, `Spec => []SuccessMeansActive` |
| `HeldUnconfirmedAlways` | if one server runs, `Spec => []HeldUnconfirmed` |
| `ExpiredIssuesNothingAlways` | `Spec => ExpiredIssuesNothing` |
| `Refinement` | `Spec => ImplementsOneUseToken` |
| `OperatorInvariance`, `SlotInvariance`, `AnswerInvariance` | `Spec => []OInv`, `[]Slots`, `[]AInv` of `OperatorServer` |
| `OutsiderUnservedAlways`, `DenialsOnRecordAlways`, `SlotsAccountedAlways`, `OneInFlightAlways`, `OperatorTypeAlways` | `OutsiderUnserved`, `DenialsOnRecord`, `SlotsAccounted`, `OneInFlight`, `OperatorTypeOK` |
| `ListenerInvariance` | `Spec => []SInv` of `OperatorListener` |
| `ServingReachableAlways`, `ListenerTypeAlways` | `ServingReachable`, `ListenerTypeOK` |
| `TamperedAlwaysKept` | `Spec => TamperedKept` |
| `StoreInvariance` | `Spec => []DInv` of `ServerStore` |
| `StepCompleteAlways`, `RecordsSurviveAlways`, `TerminalWithResultAlways`, `StoreTypeAlways` | `StepComplete`, `RecordsSurvive`, `TerminalWithResult`, `StoreTypeOK` |
| `LedgerInvariance` | `Spec => []LInv` of `AgentLedger` |
| `StartedOnceAlways`, `ObservationsKeptAlways`, `OpenCompleteAlways`, `LedgerTypeAlways` | `StartedOnce`, `ObservationsKept`, `OpenComplete`, `LedgerTypeOK` |
| `MessagingInvariance` | `Spec => []MInv` of `Messaging` |
| `PrincipalsApartAlways`, `ServesAsConfiguredAlways` | `PrincipalsApart`, `ServesAsConfigured` |
| `TakeFieldCharges` | what one field of an envelope costs, for any bytes and budget |
| `SplitSound` | any bytes: `Split` refuses with a known error, or they are the frame of the nine fields it returns |
| `SplitFrame` | any nine fields: `Split` returns them from their frame if it fits `MaxEnvelope`, and reports it as too large if not |
| `SignedInputDetermines` | two lists of nine fields with the same signed bytes agree in the first eight |
| `WireInvariance` | `Spec => []WireInv` of `Messaging` |
| `AuthenticAlways`, `HonestAcceptedAlways`, `MessagingTypeAlways` | `Authentic`, `HonestAccepted`, `MessagingTypeOK` |

TLC checked each inductive invariant on the instances of the runs before it was
proved (of `MInv` and `WireInv`, all but that `sent`, `signed` and `sealed` are
sequences of something).

### Enrollment

`EnrollmentTypes` proves types from an invariant that adds two facts: a process
past its keys holds keys (`Held`), and a record has halves exactly when it has a
JWT and only when it is not absent (`RecordOK`), which the table's CHECKs state.
Types need the first because a request carries the sender's keys, and the second
because activation copies the recorded halves to the agent's row.

`EnrollmentSafety` rests on one observation: the store only grows.  Every step
leaves a recorded JWT and its halves alone, never takes a spent token back and
never removes an audit record (`StoreGrows`).  So a copy that was true when it
was made stays true, and `IInv` says that every copy was: the record a handler
read is an earlier form of the record, a decided reply, a reply in a channel, a
JWT in memory and an identity artifact carry the JWT the store holds, and a
denial has its audit record.  `OneCredential` alone is not inductive, since it
does not say what a handler's copy may hold.  Each action is then checked
against each part of `IInv` it can disturb.

Four results add to `IInv`:

- `ActiveIdentityDurable` is about the end of a chain: an identity is written, a
  presence is sent, queued, admitted and activated, each in a step of its own.
  `Durable` says at each link that the identity is on a disk.  `OneTokenPerHost`
  is what the artifact paths mean: two enrollments of different tokens that run
  on one host at once replace each other's artifacts.  Processes with copies of
  the same bundle may share a host.
- `SuccessMeansActive` needs `Keyed`: a process that has its keys has those on the
  disk, and an identity there was written for them.  `OneProcessPerHost` is the
  hypothesis that the third finding (`keys`) shows to be necessary.
- `HeldUnconfirmed` needs `Gated`: a token on its way to activation is not spent,
  so no handler has read it as spent, and one whose activation is held has not
  been confirmed.  `OneServer` is a hypothesis because the gate is a lock in one
  process: a second server on the store answers without it.
- `ExpiredIssuesNothing` needs `Lapsed`, which lets requests be read after the
  expiry as long as none of them is admitted.

`EnrollmentRefinement` maps a record to its abstract stage and owner, and shows
that issuing, recording and activating are the abstract steps and everything else
stutters.

### Operator socket

`OperatorProofs` carries what a lookup knew across the changes of membership that
may follow it: a member that has connected is in `been`, only connections that
exist are queued or looked up, so a result of "member", and every stage after
admission, is of a connection in `been` (`Known`, `Asked`, `Justified`).  `Ending`
adds that a connection on record as denied is on its way out and that nothing is
read before admission.  Both properties are conjuncts of `OInv`; neither is
inductive without the others, since neither speaks of results not yet received.

`Slots` counts.  A step moves one goroutine, so the number of goroutines at a set
of places changes by what the move gains and loses (`HoldingMoves`), and each step
changes its counter by as much.  `AInv` says of each place what it means for the
last request: `acting` has one request more read than answered, `created` one
token more issued than told of.  Without it `OneInFlight` is not inductive, since
the answer to come is known by the place alone.

`ListenerProofs`: past `prepareDirectory` the directory is safe and past `Lstat`
nobody can plant anything at the path, which gives `TamperedKept` with any number
of racing processes.  As long as no two were in `Listen` at once, one is in it, it
takes the path only when nobody serves, and what it bound stays there
(`OneListens`, `NobodyServed`, `OwnsPath`), which gives `ServingReachable`.

### Databases

`StoreProofs` is about the writer's copy.  `Within` says what the first statements
of a migration make of the committed store, so that after the last one it is the
next version.  A migration that another process has applied meanwhile spoils the
copy, its tokens and actors, and is harmless because its version row, inserted
last, is refused: `Migrating` claims nothing of the copy but its versions then.
`NothingEarly` says why migrations 3 and 4, which lose actors and tokens, lose
nothing anyone was told of.

`LedgerProofs`: how often leave to start a job was given is what its row in
`starts` says (`LeavesCounted`), starts and results refer to receipts
(`Referenced`), and a process past a statement of `migrate` leaves what it created
(`Passed`).

### Messages

The first half of `MessagingProofs` is about patterns.  A grant and a subject are tuples of tokens,
and lemmas on `Matches` say which tokens must agree; from them follows, for each
kind of identity and each of its grants, that whoever may publish on a subject is
its sender (`MaySend`), whoever may subscribe to it or pull it is its receiver
(`MayHear`), and whoever hears an inbox owns it (`OwnInbox`).  `MInv` carries the
rest: a server's credentials and minter are of one deployment, what it minted is
of a valid name and has the grants of its kind, and what was sent was sent by its
subject's sender while its token lasted.  That minted names are valid is what
keeps `*` out of a grant and a service's name out of an inbox.

The second half is about bytes.  `TakeField` inverts `Framed`, so three of it
invert three, and three threes give both directions: what was framed is read back
(`SplitFrame`), and what is read was framed (`SplitSound`).  The second is what
lets a proof speak of an altered message at all, since nothing else is known of its
bytes: if `Decode` accepts them, they are the frame of the envelope it returns.
`SignedInput` is the frame of the first eight fields with nothing after it, so it
determines them.

`Authentic` then needs to know which message a signature belongs to.  `Wire` says
that the halves of the j-th message are the (2j-1)-th and the 2j-th that were ever
made, by the key its class and sender name, over its signed input, and that its nonce is its own.  An
envelope that verifies has two halves, perhaps of two messages; each is over
the same input, so the two messages have one nonce and are one, and the fields of
that message are those of the envelope (`VerifiedSent`), among them the class, the
sender and the token that the receiver compared with the subject's.  A box shows its number
(`Numbered`), so the payload names the box that was sealed with it.  `OnItsWay`
carries from sending to delivery that what nothing altered is what was sent, for
`HonestAccepted`, which also needs the first half: an encrypted message is heard
by its recipient only, so whoever hears it can open it, and whoever may publish on an
enrollment or presence subject is the one its receiver expects (`OnEnrolling`).  `WireInv` is all of this
with `MInv`, which alone of its parts is inductive without the others.

### Only model-checked

- `Converges`, `AuthorizationEnds`, `LookupsTakenUp`, `Recovers`, `Opens` and
  `Reopens` are liveness under fairness, which is beyond the prover.
- What `ParseUint` makes of text of any length is a recursive function, and so an
  induction over data, which the installed provers cannot do.  The proofs use its
  value on one digit, which is what `Headers` writes.
- The findings, which are counterexamples.

## Not modelled

- Cryptographic primitives, key derivation and key encodings, TLS and the encoding
  of JWTs: library calls, ideal in the model.
- Revocation and the assembly of operator and account JWTs in `natsauth`: done
  once, with the operator's key, before a deployment runs.  Connection and storage
  limits: constants.
- Configuration: sequential parsing and validation of one file, whose results are
  the constants of the modules.
- The command line's arguments and wording, and the fault journal of the agent,
  which only a test harness reads.
- The repository's tools (`tools/`): linters of documents and imports, not part of
  the product.
- The broker, SQLite, the file system and the group database: external, modelled
  as the code uses them.

## Plan

The running parts are modelled and their safety is proved.  What could come next:

1. `Recovers`, `Opens` and `Reopens` on larger instances, since they stay with TLC.
2. The job service, when the repository has one: it would compose `AgentLedger`,
   `ServerStore` and `Messaging`, whose proved properties are what it may rely on.
