--------------------------- MODULE OperatorServer ----------------------------
(***************************************************************************)
(* The operator socket's connections (internal/operator server.go): one    *)
(* goroutine per accepted connection, a fixed pool of membership workers,  *)
(* and two counting channels that bound the connections before and after   *)
(* authorization.                                                          *)
(*                                                                         *)
(* A connection is used once; a client that comes back is another one.     *)
(* Each is by a peer the kernel let connect: a member of the admin group,  *)
(* one whose session outlived its membership, or root.  The group database *)
(* is external: membership changes at any time, and a lookup may fail or   *)
(* never return.                                                           *)
(***************************************************************************)
EXTENDS Naturals, Sequences, FiniteSets

CONSTANTS
  Conn,             \* connections
  Worker,           \* membership workers, MaxUnauthorizedConnections of them
  MaxAuthorized,    \* MaxAuthorizedConnections
  MaxActs,          \* frames sent, hangups, membership changes, restarts in a run
  None

ASSUME OperatorAssumption ==
  /\ IsFiniteSet(Conn) /\ IsFiniteSet(Worker)
  /\ None \notin Conn
  /\ MaxAuthorized \in Nat \ {0}
  /\ MaxActs \in Nat

MaxUnauthorized == Cardinality(Worker)

\* A request is a good enroll.create, one an operation or the dispatcher
\* refuses, or a length prefix above MaxFrameBytes.
Frame == {"create", "refusable", "oversized"}
Answer == {"created", "refused", "frame_too_large", "connection_limit",
           "authorization_denied"}

VARIABLES
  at,          \* where each connection's goroutine is
  unauth,      \* tokens in the channel of pre-authorization slots
  authorized,  \* tokens in the channel of authorized slots
  lookups,     \* the queue of membership requests
  working,     \* the request each worker is looking up
  result,      \* each connection's result channel, of capacity one
  members,     \* connections whose peer is a member of the admin group now
  been,        \* connections whose peer was a member at some time since connecting
  audit,       \* denials on record
  sent,        \* frames each client has written
  read,        \* how many of them the server has read
  issued,      \* tokens issued for each connection
  answers,     \* frames the server has written to each client
  gone,        \* connections whose client has hung up
  acts         \* frames sent, hangups, membership changes, restarts so far

vars == <<at, unauth, authorized, lookups, working, result, members, been, audit, sent,
          read, issued, answers, gone, acts>>

slots == <<unauth, authorized>>
pool == <<lookups, working>>
client == <<sent, gone, acts>>
group == <<members, been>>

\* Pre-authorization: the goroutine holds an unauth slot.  "turned" is one that
\* returns without having been authorized.
PreAuth == {"accepted", "waiting", "decided", "denying", "turned"}
\* The goroutine holds an authorized slot; in "admitted" it holds both.
Served == {"admitted", "reading", "acting", "created", "refused", "leaving"}
Place == {"new", "backlog", "closing", "closed"} \cup PreAuth \cup Served

OperatorTypeOK ==
  /\ at \in [Conn -> Place]
  /\ unauth \in 0..MaxUnauthorized
  /\ authorized \in 0..MaxAuthorized
  /\ lookups \in Seq(Conn) /\ Len(lookups) <= MaxUnauthorized
  /\ working \in [Worker -> Conn \cup {None}]
  /\ result \in [Conn -> {"empty", "member", "outsider", "error"}]
  /\ members \subseteq Conn /\ been \subseteq Conn
  /\ audit \subseteq Conn /\ gone \subseteq Conn
  /\ sent \in [Conn -> Seq(Frame)]
  /\ read \in [Conn -> 0..MaxActs]
  /\ issued \in [Conn -> 0..MaxActs]
  /\ answers \in [Conn -> Seq(Answer)]
  /\ acts \in 0..MaxActs

Init ==
  /\ at = [c \in Conn |-> "new"]
  /\ unauth = 0 /\ authorized = 0
  /\ lookups = <<>>
  /\ working = [w \in Worker |-> None]
  /\ result = [c \in Conn |-> "empty"]
  /\ members \in SUBSET Conn
  /\ been = {} /\ audit = {} /\ gone = {} /\ acts = 0
  /\ sent = [c \in Conn |-> <<>>]
  /\ read = [c \in Conn |-> 0]
  /\ issued = [c \in Conn |-> 0]
  /\ answers = [c \in Conn |-> <<>>]

Act == acts < MaxActs /\ acts' = acts + 1

Goto(c, l) == at' = [at EXCEPT ![c] = l]
Step(c, from, to) == at[c] = from /\ Goto(c, to)

\* A frame written to a client that has hung up reaches no one.
Write(c, a) ==
  answers' = IF c \in gone THEN answers ELSE [answers EXCEPT ![c] = Append(@, a)]

----------------------------------------------------------------------------
(* The peers.                                                              *)

Connect(c) ==
  /\ Step(c, "new", "backlog")
  /\ been' = IF c \in members THEN been \cup {c} ELSE been
  /\ UNCHANGED <<slots, pool, result, members, audit, client, read, issued, answers>>

\* The client writes whenever it likes, before it is authorized too.
SendFrame(c, f) ==
  /\ at[c] \notin {"new", "closed"}
  /\ c \notin gone
  /\ Act
  /\ sent' = [sent EXCEPT ![c] = Append(@, f)]
  /\ UNCHANGED <<at, slots, pool, result, group, audit, gone, read, issued, answers>>

Hangup(c) ==
  /\ at[c] \notin {"new", "closed"}
  /\ c \notin gone
  /\ Act
  /\ gone' = gone \cup {c}
  /\ UNCHANGED <<at, slots, pool, result, group, audit, sent, read, issued, answers>>

Revoke(c) ==
  /\ c \in members
  /\ Act
  /\ members' = members \ {c}
  /\ UNCHANGED <<at, slots, pool, result, been, audit, sent, gone, read, issued, answers>>

Grant(c) ==
  /\ c \notin members
  /\ Act
  /\ members' = members \cup {c}
  /\ been' = IF at[c] = "new" THEN been ELSE been \cup {c}
  /\ UNCHANGED <<at, slots, pool, result, audit, sent, gone, read, issued, answers>>

----------------------------------------------------------------------------
(* Before authorization.                                                   *)

\* Mutant of Accept: no limit before authorization.
AcceptUnlimited(c) ==
  /\ Step(c, "backlog", "accepted")
  /\ unauth' = unauth + 1
  /\ UNCHANGED <<authorized, pool, result, group, audit, client, read, issued, answers>>

\* Serve: a connection beyond the limit is closed without a response.
Accept(c) ==
  /\ at[c] = "backlog"
  /\ IF unauth < MaxUnauthorized
     THEN unauth' = unauth + 1 /\ Goto(c, "accepted")
     ELSE Goto(c, "closed") /\ UNCHANGED unauth
  /\ UNCHANGED <<authorized, pool, result, group, audit, client, read, issued, answers>>

\* handle queues the lookup, when the queue has room.
QueueLookup(c) ==
  /\ Step(c, "accepted", "waiting")
  /\ Len(lookups) < MaxUnauthorized
  /\ lookups' = Append(lookups, c)
  /\ UNCHANGED <<slots, working, result, group, audit, client, read, issued, answers>>

\* Mutant of AuthorizationTimeout: only the wait for the result is bounded.
TimeoutWaitingOnly(c) ==
  /\ Step(c, "waiting", "turned")
  /\ UNCHANGED <<slots, pool, result, group, audit, client, read, issued, answers>>

\* The authorization timeout ends either select; the request stays queued, or
\* with its worker.  SO_PEERCRED may also fail before the first.
AuthorizationTimeout(c) ==
  /\ at[c] \in {"accepted", "waiting"}
  /\ Goto(c, "turned")
  /\ UNCHANGED <<slots, pool, result, group, audit, client, read, issued, answers>>

TakeLookup(w) ==
  /\ working[w] = None
  /\ lookups # <<>>
  /\ working' = [working EXCEPT ![w] = Head(lookups)]
  /\ lookups' = Tail(lookups)
  /\ UNCHANGED <<at, slots, result, group, audit, client, read, issued, answers>>

\* Mutant of FinishLookup: the result channel has no buffer.
FinishLookupUnbuffered(w) ==
  /\ working[w] # None
  /\ at[working[w]] = "waiting"
  /\ result' = [result EXCEPT ![working[w]] =
                  IF working[w] \in members THEN "member" ELSE "outsider"]
  /\ working' = [working EXCEPT ![w] = None]
  /\ UNCHANGED <<at, slots, lookups, group, audit, client, read, issued, answers>>

\* currentMembership, at the moment the worker asks; the buffered result channel
\* takes the answer whether or not anyone still waits for it.
FinishLookup(w) ==
  /\ working[w] # None
  /\ \E r \in {IF working[w] \in members THEN "member" ELSE "outsider", "error"} :
       result' = [result EXCEPT ![working[w]] = r]
  /\ working' = [working EXCEPT ![w] = None]
  /\ UNCHANGED <<at, slots, lookups, group, audit, client, read, issued, answers>>

ReceiveResult(c) ==
  /\ Step(c, "waiting", "decided")
  /\ result[c] # "empty"
  /\ UNCHANGED <<slots, pool, result, group, audit, client, read, issued, answers>>

\* Mutant of Admissible: a lookup that failed does not deny.
AdmissibleUnlessOutsider(c) == result[c] # "outsider"

Admissible(c) == result[c] = "member"

\* Mutant of RecordDenial: the denial is written when the record is not.
RecordDenialOrNot(c) ==
  /\ at[c] = "decided"
  /\ ~Admissible(c)
  /\ Goto(c, "denying")
  /\ \/ audit' = audit \cup {c}
     \/ UNCHANGED audit
  /\ UNCHANGED <<slots, pool, result, group, client, read, issued, answers>>

\* A denial is on record before it is written; if it cannot be recorded the
\* connection is closed unanswered.
RecordDenial(c) ==
  /\ at[c] = "decided"
  /\ ~Admissible(c)
  /\ \/ Goto(c, "denying") /\ audit' = audit \cup {c}
     \/ Goto(c, "turned") /\ UNCHANGED audit
  /\ UNCHANGED <<slots, pool, result, group, client, read, issued, answers>>

WriteDenial(c) ==
  /\ Step(c, "denying", "turned")
  /\ Write(c, "authorization_denied")
  /\ UNCHANGED <<slots, pool, result, group, audit, client, read, issued>>

Admit(c) ==
  /\ at[c] = "decided"
  /\ Admissible(c)
  /\ \/ /\ authorized < MaxAuthorized
        /\ authorized' = authorized + 1
        /\ Goto(c, "admitted")
        /\ UNCHANGED answers
     \/ /\ authorized = MaxAuthorized
        /\ Goto(c, "turned")
        /\ Write(c, "connection_limit")
        /\ UNCHANGED authorized
  /\ UNCHANGED <<unauth, pool, result, group, audit, client, read, issued>>

\* Mutant of EndPreAuth: the slot goes back at the end of the connection only.
EndPreAuthLate(c) ==
  /\ Step(c, "admitted", "reading")
  /\ UNCHANGED <<slots, pool, result, group, audit, client, read, issued, answers>>

\* The pre-authorization slot goes back once the authorized one is held.
EndPreAuth(c) ==
  /\ Step(c, "admitted", "reading")
  /\ unauth' = unauth - 1
  /\ UNCHANGED <<authorized, pool, result, group, audit, client, read, issued, answers>>

----------------------------------------------------------------------------
(* After authorization.                                                    *)

\* serveAuthorized reads the next frame; it takes an oversized one's prefix only.
ReadFrame(c) ==
  /\ at[c] = "reading"
  /\ read[c] < Len(sent[c])
  /\ read' = [read EXCEPT ![c] = @ + 1]
  /\ IF sent[c][read[c] + 1] = "oversized"
     THEN Goto(c, "leaving") /\ Write(c, "frame_too_large")
     ELSE Goto(c, "acting") /\ UNCHANGED answers
  /\ UNCHANGED <<slots, pool, result, group, audit, client, issued>>

\* The end of the stream, or an error, in place of a frame.
ReadEnds(c) ==
  /\ Step(c, "reading", "leaving")
  /\ c \in gone
  /\ UNCHANGED <<slots, pool, result, group, audit, client, read, issued, answers>>

\* Mutant of Dispatch: the next frame is read before this one is answered.
DispatchPipelined(c) ==
  /\ at[c] = "acting"
  /\ sent[c][read[c]] = "create"
  /\ issued' = [issued EXCEPT ![c] = @ + 1]
  /\ \/ Goto(c, "created")
     \/ Goto(c, "reading")
  /\ UNCHANGED <<slots, pool, result, group, audit, client, read, answers>>

\* dispatch: enroll.create records its token before it has a response, or fails
\* and closes the connection unanswered; anything else is refused.
Dispatch(c) ==
  /\ at[c] = "acting"
  /\ \/ /\ sent[c][read[c]] = "create"
        /\ issued' = [issued EXCEPT ![c] = @ + 1]
        /\ Goto(c, "created")
     \/ /\ sent[c][read[c]] = "create"
        /\ Goto(c, "leaving")
        /\ UNCHANGED issued
     \/ /\ sent[c][read[c]] = "refusable"
        /\ Goto(c, "refused")
        /\ UNCHANGED issued
  /\ UNCHANGED <<slots, pool, result, group, audit, client, read, answers>>

\* The response; one that cannot be written ends the connection, an error frame
\* that cannot does not.
WriteResponse(c) ==
  /\ at[c] \in {"created", "refused"}
  /\ Write(c, at[c])
  /\ Goto(c, IF c \in gone /\ at[c] = "created" THEN "leaving" ELSE "reading")
  /\ UNCHANGED <<slots, pool, result, group, audit, client, read, issued>>

----------------------------------------------------------------------------
\* handle's deferred calls: the slot goes back, and then the connection closes.
Release(c) ==
  /\ \/ /\ at[c] = "turned"
        /\ unauth' = unauth - 1
        /\ UNCHANGED authorized
     \/ /\ at[c] = "leaving"
        /\ authorized' = authorized - 1
        /\ UNCHANGED unauth
  /\ Goto(c, "closing")
  /\ UNCHANGED <<pool, result, group, audit, client, read, issued, answers>>

Close(c) ==
  /\ Step(c, "closing", "closed")
  /\ UNCHANGED <<slots, pool, result, group, audit, client, read, issued, answers>>

\* The process stops, on a signal or by a crash, with whatever its goroutines
\* were doing, and is started again: the channels and workers are new ones.
Restart ==
  /\ Act
  /\ at' = [c \in Conn |-> IF at[c] = "new" THEN "new" ELSE "closed"]
  /\ unauth' = 0 /\ authorized' = 0
  /\ lookups' = <<>>
  /\ working' = [w \in Worker |-> None]
  /\ UNCHANGED <<result, group, audit, sent, gone, read, issued, answers>>

\* The goroutine of c takes a step.
HandleStep(c) ==
  \/ QueueLookup(c) \/ AuthorizationTimeout(c) \/ ReceiveResult(c)
  \/ RecordDenial(c) \/ WriteDenial(c) \/ Admit(c) \/ EndPreAuth(c)
  \/ ReadFrame(c) \/ ReadEnds(c) \/ Dispatch(c) \/ WriteResponse(c)
  \/ Release(c) \/ Close(c)

PeerStep(c) ==
  \/ Connect(c)
  \/ \E f \in Frame : SendFrame(c, f)
  \/ Hangup(c) \/ Revoke(c) \/ Grant(c)

Next ==
  \/ \E c \in Conn : PeerStep(c) \/ Accept(c) \/ HandleStep(c)
  \/ \E w \in Worker : TakeLookup(w) \/ FinishLookup(w)
  \/ Restart

\* Goroutines run, and the timer fires.  Nothing is assumed of the workers: a
\* group database may take any time to answer.
Fairness == \A c \in Conn : WF_vars(Accept(c)) /\ WF_vars(HandleStep(c))

Spec == Init /\ [][Next]_vars
FairSpec == Spec /\ Fairness

----------------------------------------------------------------------------
\* No path through handle leaks a slot or returns one twice: the channels hold
\* exactly the connections in each stage, the one crossing over counted in both
\* (handle's flag and deferred receives).
SlotsAccounted ==
  /\ unauth = Cardinality({c \in Conn : at[c] \in PreAuth \cup {"admitted"}})
  /\ authorized = Cardinality({c \in Conn : at[c] \in Served})

\* Nothing is read, done or told to a peer that was a member at no time since it
\* connected, whatever it sent ahead and whichever lookups failed or came late
\* (ADR-0009 section 3; handle).
OutsiderUnserved ==
  \A c \in Conn \ been :
    /\ read[c] = 0 /\ issued[c] = 0
    /\ \A i \in 1..Len(answers[c]) : answers[c][i] = "authorization_denied"

\* A denial a peer has seen is on record, and no connection on record was
\* served (DENY-4; handle).
DenialsOnRecord ==
  \A c \in Conn :
    /\ (\E i \in 1..Len(answers[c]) : answers[c][i] = "authorization_denied") => c \in audit
    /\ c \in audit => read[c] = 0 /\ issued[c] = 0

Expected(f) == CASE f = "create" -> "created" [] f = "refusable" -> "refused"
                 [] f = "oversized" -> "frame_too_large"

\* LIM-5: answers are in the order of requests, one for one, and a connection
\* leaves at most one operation behind whose outcome its client was not told
\* (serveAuthorized).
OneInFlight ==
  \A c \in Conn : read[c] > 0 =>
    /\ Len(answers[c]) \in {read[c], read[c] - 1} \/ c \in gone
    /\ \A i \in 1..Len(answers[c]) : answers[c][i] = Expected(sent[c][i])
    /\ c \notin gone =>
         issued[c] - Cardinality({i \in 1..Len(answers[c]) : answers[c][i] = "created"}) \in {0, 1}

\* LIM-2: a connection awaiting authorization is not awaiting it for ever, even
\* if every lookup hangs (handle's two selects).
AuthorizationEnds ==
  \A c \in Conn : at[c] \in PreAuth ~> at[c] \notin PreAuth

Queued(c) == \E i \in 1..Len(lookups) : lookups[i] = c

\* If the lookups of a single worker return, whichever one it is, every queued
\* lookup is taken up, although the other workers may hang for ever and the
\* connections that asked may have timed out (membershipWorker; handle's result
\* channel, whose buffer lets go of a worker nobody waits for).
LookupsTakenUp ==
  (\E w \in Worker : WF_vars(TakeLookup(w)) /\ WF_vars(FinishLookup(w))) =>
    \A c \in Conn : Queued(c) ~> ~Queued(c)
=============================================================================
