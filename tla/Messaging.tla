------------------------------ MODULE Messaging ------------------------------
(***************************************************************************)
(* Messages between principals: a server opened on credential files, the   *)
(* identities it mints, and envelopes that are signed, published where the *)
(* grants permit, altered on the way, and judged where they arrive.        *)
(* Enrollment and presence envelopes are made and judged as in             *)
(* internal/enrollment (wire.go and its callers); the other classes have   *)
(* no service yet, and are made and judged as by                           *)
(* cmd/keystone-vector-producer and cmd/keystone-vector-verifier.          *)
(*                                                                         *)
(* The broker is external: it enforces permissions and expiry, keeps the   *)
(* streams KS_CMD and KS_RES for their pull consumers, and acknowledges    *)
(* what is published to them in the publisher's inbox.                     *)
(***************************************************************************)
EXTENDS Envelope, Grants

CONSTANTS
  Dep,          \* deployments whose files are on the server's host
  AgentId,      \* identifiers for which an agent identity is asked
  Token,        \* enrollment tokens
  CodeOf,       \* the bytes of those identifiers
  AgentOf,      \* the agent identifier that Issue made for each token
  Plain,        \* payloads
  MaxMessages,  \* messages sent in a run
  None

ASSUME MessagingAssumption ==
  /\ CodeOf \in [AgentId \cup Token -> Seq(Nat)] /\ Plain \subseteq Seq(Nat)
  /\ Services \cap Token = {} /\ AgentId \cap Token = {}
  /\ MaxMessages \in Nat

\* A deployment is no user's tag, and the identifier grammar has no wildcards.
ASSUME NameAssumption ==
  /\ "user" \notin Dep
  /\ \A n \in DOMAIN CodeOf \cap {"*", ">"} : ~ValidIdentifier(CodeOf[n])

VARIABLES
  server,    \* the credentials and minter of the server that runs, or None
  users,     \* JWTs it has minted for agents and tokens
  expired,   \* tokens whose JWT has expired
  sent,      \* the messages sent, as their senders made them
  msg,       \* the one on its way: its number, headers, bytes, whether altered
  heard,     \* who heard what from whom, of the last message
  verdicts   \* what they made of it

vars == <<signed, sealed, server, users, expired, sent, msg, heard, verdicts>>

Init ==
  /\ signed = <<>> /\ sealed = <<>>
  /\ server = None /\ users = {} /\ expired = {}
  /\ sent = <<>> /\ msg = None /\ heard = {} /\ verdicts = {}

Code(n) ==
  CASE n = "command-publisher" -> <<31>>
    [] n = "enrollment-service" -> <<32>>
    [] n = "result-consumer" -> <<33>>
    [] n = "presence-consumer" -> <<34>>
    [] n = "monitoring-role" -> <<35>>
    [] OTHER -> CodeOf[n]

ValidateAgentIdentifier(id) == ValidIdentifier(Code(id)) /\ ~ReservedSender(Code(id))

\* Issue makes its identifiers of random hexadecimal digits.
ASSUME IssueAssumption ==
  AgentOf \in [Token -> AgentId] /\ \A t \in Token : ValidateAgentIdentifier(AgentOf[t])

----------------------------------------------------------------------------
(* The server's credentials, and the identities it mints.                  *)

\* The files that a configuration may name: every service's credentials, some
\* written by an earlier build that granted less, some signed by the account's own
\* key, or with another identity's seed; and the seeds of both account keys and of
\* a user, of which Write puts only the signing key's beside the server.
Jwts == {ServiceIdentity(d, p) : d \in Dep, p \in Services}
EarlierJwts == {[j EXCEPT !.sub = permissionFor({inboxSubtree(j.name)})] : j \in Jwts}
SelfSignedJwts == {[j EXCEPT !.account = <<>>, !.issuer = j.account] : j \in Jwts}
Files ==
  {[jwt |-> j, seed |-> j.key] : j \in Jwts \cup EarlierJwts \cup SelfSignedJwts} \cup
  {[jwt |-> j, seed |-> <<d, "monitoring-role">>] : j \in Jwts, d \in Dep}
Seeds ==
  {AccountKey(d) : d \in Dep} \cup {SigningKey(d) : d \in Dep} \cup
  {<<d, "monitoring-role">> : d \in Dep}

\* Mutant of Open: the seed is not compared with the credentials' issuer.
OpenUnmatched(enrollment, presence, seed) ==
  /\ server = None
  /\ ReadServiceCredential("enrollment-service", enrollment)
  /\ ReadServiceCredential("presence-consumer", presence)
  /\ NewMinterAccepts(enrollment.jwt.account, seed)
  /\ presence.jwt.account = enrollment.jwt.account
  /\ server' = [enrollment |-> enrollment.jwt, presence |-> presence.jwt,
                minter |-> [account |-> enrollment.jwt.account, signing |-> seed]]
  /\ UNCHANGED <<signed, sealed, users, expired, sent, msg, heard, verdicts>>

\* Open, on any files: what it refuses, it leaves down.  Its checks of the broker's
\* CA and of the service's own keys, which nothing here depends on, only refuse.
Open(enrollment, presence, seed) ==
  /\ server = None
  /\ ReadServiceCredential("enrollment-service", enrollment)
  /\ ReadServiceCredential("presence-consumer", presence)
  /\ NewMinterAccepts(enrollment.jwt.account, seed)
  /\ presence.jwt.account = enrollment.jwt.account
  /\ enrollment.jwt.issuer = seed /\ presence.jwt.issuer = seed
  /\ server' = [enrollment |-> enrollment.jwt, presence |-> presence.jwt,
                minter |-> [account |-> enrollment.jwt.account, signing |-> seed]]
  /\ UNCHANGED <<signed, sealed, users, expired, sent, msg, heard, verdicts>>

\* Minter.Agent and Minter.Bootstrap, for an agent's own key and for a new one.  A
\* name that is minted again gets the same claims; its keys are not told apart.
Mint(name, g, expires) ==
  /\ server # None
  /\ ValidateAgentIdentifier(name)
  /\ users' = users \cup {[jwt |-> Claims(<<"user", name>>, name, g, server.minter),
                           expires |-> expires]}
  /\ UNCHANGED <<signed, sealed, server, expired, sent, msg, heard, verdicts>>

MintAgent(id) == Mint(id, agentGrants(id), FALSE)

MintBootstrap(t) == Mint(t, bootstrapGrants(t), TRUE)

Expire(t) ==
  /\ t \notin expired
  /\ \E u \in users : u.jwt.name = t
  /\ expired' = expired \cup {t}
  /\ UNCHANGED <<signed, sealed, server, users, sent, msg, heard, verdicts>>

\* The identities on the broker to which the server connects.
Home == CHOOSE d \in Dep : Admits(d, server.enrollment)
Principals ==
  IF server = None THEN {}
  ELSE {ServiceIdentity(Home, p) : p \in Services} \cup
       {u.jwt : u \in {v \in users : Admits(Home, v.jwt) /\ ~(v.expires /\ v.jwt.name \in expired)}}

\* An identity by its name and by whether it was minted for a user.
Who(q) == <<q.name, IF q.key[1] = "user" THEN "user" ELSE "service">>

----------------------------------------------------------------------------
(* Sending.                                                                *)

Named == {a \in AgentId : ValidateAgentIdentifier(a)}
Subjects ==
  {agentSubject(a, c) : a \in Named, c \in {"result", "event", "presence"}} \cup
  {jobSubject(a, c) : a \in Named, c \in {"cmd", "cancel"}} \cup
  {tokenEnrollment(t, c) : t \in Token, c \in {"request", "reply"}}

InStream(s) == s[4] \in {"cmd", "cancel", "result"}

\* SignerOf: the service's key signs replies, commands and cancellations, the
\* sender's own key the rest, that of a request too, which presents it.  A key is
\* named by its owner's bytes, the service's by none.
KeyOwner(class, sender) ==
  IF class \in {Class["reply"], Class["cmd"], Class["cancel"]} THEN <<>> ELSE sender

\* For whom a result, a command or a cancellation is sealed.
Recipient(s) == IF s[2] = "out" THEN "result-consumer" ELSE s[3]

\* Who an envelope says it is from: the bundle's agent before it is one.
Speaker(from, s) == IF s[4] = "request" THEN AgentOf[s[3]] ELSE from

\* The envelope of a class, before it is sealed and signed.  Seal in wire.go sets a
\* correlation and no job, the vector producer a job and no correlation.
Compose(from, s, plain) ==
  [version |-> Version, class |-> Class[s[4]],
   job |-> IF InStream(s) \/ s[4] = "event" THEN <<24, 25>> ELSE <<>>,
   corr |-> IF s[2] = "enroll" THEN Code(s[3]) ELSE <<>>,
   sender |-> Code(Speaker(from, s)), ts |-> <<60>>, nonce |-> <<61 + Len(sent)>>,
   payload |-> plain, sig |-> <<>>]

\* Sealed if its class is, then signed, encoded and published; one that cannot be
\* framed is not sent.
Publish(i, s, plain) ==
  /\ msg = None
  /\ Len(sent) < MaxMessages
  /\ i \in Principals /\ Permits(i.pub, s)
  /\ LET c == Compose(i.name, s, plain)
         boxed == IF Encrypted(c.class) THEN [c EXCEPT !.payload = BoxOf(plain)] ELSE c
         e == SignEnvelope(boxed)
     IN  /\ Framable(fieldValues(e))
         /\ IF Encrypted(c.class) THEN Seal(Recipient(s), plain) ELSE UNCHANGED sealed
         /\ Sign(KeyOwner(c.class, c.sender), boxed)
         /\ sent' = Append(sent, [from |-> i.name, who |-> Who(i), subject |-> s, env |-> e, plain |-> plain,
                                  late |-> i.name \in expired])
         /\ msg' = [n |-> Len(sent) + 1, headers |-> Headers(e), bytes |-> Frame(fieldValues(e)),
                    altered |-> FALSE]
  /\ heard' = {} /\ verdicts' = {}
  /\ UNCHANGED <<server, users, expired>>

----------------------------------------------------------------------------
(* On the way.                                                             *)

\* Fields with a boundary moved one byte, with one field or one half of the
\* signature of another message, of another version, or of no known class.
OtherFields(f) ==
  {[f EXCEPT ![i] = Append(@, Head(f[i + 1])), ![i + 1] = Tail(@)] :
     i \in {k \in 1..(Fields - 1) : f[k + 1] # <<>>}} \cup
  {[f EXCEPT ![i] = Front(@), ![i + 1] = <<Last(f[i])>> \o @] :
     i \in {k \in 1..(Fields - 1) : f[k] # <<>>}} \cup
  {[f EXCEPT ![i] = fieldValues(sent[m].env)[i]] : i \in 1..Fields, m \in 1..Len(sent)} \cup
  {[f EXCEPT ![Fields][i] = fieldValues(sent[m].env)[Fields][i]] : i \in 1..2, m \in 1..Len(sent)} \cup
  {[f EXCEPT ![1] = <<Version + 1>>], [f EXCEPT ![2] = <<9>>]}

\* Bytes that are cut short, run on, or begin with a wrong length.
OtherBytes(b) ==
  {SubSeq(b, 1, Len(b) - 1), Append(b, 0), [b EXCEPT ![1] = @ + 1]} \cup
  {Frame(f) : f \in OtherFields(Split(b).fields)}

\* Headers lost, written otherwise, or those of another class or job.
OtherHeaders(h) ==
  {<<>>, [h EXCEPT !["version"] = <<0>> \o @], [h EXCEPT !["version"] = <<2>>],
   [h EXCEPT !["class"] = Class["event"]]} \cup
  {[h EXCEPT !["job"] = <<25>>] : k \in DOMAIN h \cap {"job"}}

\* Once, and the last message, so that others have been seen before it.
Alter ==
  /\ msg # None /\ ~msg.altered /\ msg.n = MaxMessages /\ Len(msg.bytes) <= MaxEnvelope
  /\ \/ \E b \in OtherBytes(msg.bytes) \ {msg.bytes} : msg' = [msg EXCEPT !.bytes = b, !.altered = TRUE]
     \/ \E h \in OtherHeaders(msg.headers) : msg' = [msg EXCEPT !.headers = h, !.altered = TRUE]
  /\ UNCHANGED <<signed, sealed, server, users, expired, sent, heard, verdicts>>

----------------------------------------------------------------------------
(* Arriving.                                                               *)

\* An identity hears a subject that it may subscribe to, or pulls what a stream
\* kept of it through a consumer whose MSG.NEXT it may publish.
Pulls(q, s) ==
  /\ InStream(s)
  /\ Permits(q.sub, <<"_KSINBOX", q.name, "pull">>)
  /\ Permits(q.pub, IF s[2] = "job" THEN consumerNext("KS_CMD", CommandConsumer(s[3]))
                                    ELSE consumerNext("KS_RES", ResultConsumerName))
Hears(q, s) == Permits(q.sub, s) \/ Pulls(q, s)

\* late: its sender's JWT had expired when it was sent, or the hearer's has now.
Hearing(q, s, m) ==
  [from |-> m.who, subject |-> s, to |-> Who(q), late |-> m.late \/ q.name \in expired]

\* The subjects whose receivers are the enrollment service and its agents, and who
\* speaks on them.
Enrolling(s) == s[2] = "enroll" \/ s[4] = "presence"
SpeakerOn(s) == Speaker(IF s[4] = "reply" THEN "enrollment-service" ELSE s[3], s)

\* OpenEnvelope of wire.go and its callers: the class, the sender and the token are
\* the subject's.
Expected(s, e) ==
  /\ e.class = Class[s[4]] /\ e.sender = Code(SpeakerOn(s))
  /\ s[2] = "enroll" => e.corr = Code(s[3])

\* Decode, then what the receiver expects or, in the verifier, the headers; the
\* signature, and the payload of an encrypted class, which here every receiver of
\* one has a key for.
Verdict(q) ==
  LET e == Decode(msg.bytes)
      s == sent[msg.n].subject
  IN  IF DecodeError(msg.bytes) # "nil" THEN DecodeError(msg.bytes)
      ELSE IF Enrolling(s) /\ ~Expected(s, e) THEN "envelope refused"
      ELSE IF ~Enrolling(s) /\ ~CheckHeaders(e, msg.headers) THEN "malformed envelope"
      ELSE IF ~VerifyEnvelope(KeyOwner(e.class, e.sender), e) THEN "signature invalid"
      ELSE IF Encrypted(e.class) /\ Opened(q.name, e) = {} THEN "decryption failed"
      ELSE "accepted"

PlainOf(q) ==
  LET e == Decode(msg.bytes)
  IN  IF Encrypted(e.class) THEN sealed[CHOOSE n \in Opened(q.name, e) : TRUE].plain ELSE e.payload

Judgement(q) ==
  [n |-> msg.n, to |-> q.name, subject |-> sent[msg.n].subject, verdict |-> Verdict(q),
   altered |-> msg.altered, bytes |-> msg.bytes, headers |-> msg.headers, plain |-> IF Verdict(q) = "accepted" THEN PlainOf(q) ELSE <<>>]

\* Everyone who hears the message judges it, and those who hear the inbox of the
\* sender hear the stream's acknowledgement there.
Deliver ==
  /\ msg # None
  /\ LET m == sent[msg.n]
         inbox == <<"_KSINBOX", m.from, "ack">>
         hearers == {q \in Principals : Hears(q, m.subject)}
         acked == {q \in Principals : InStream(m.subject) /\ Permits(q.sub, inbox)}
     IN  /\ heard' = {Hearing(q, m.subject, m) : q \in hearers} \cup
                     {Hearing(q, inbox, m) : q \in acked}
         /\ verdicts' = {Judgement(q) : q \in hearers}
  /\ msg' = None
  /\ UNCHANGED <<signed, sealed, server, users, expired, sent>>

Lost ==
  /\ msg # None
  /\ msg' = None
  /\ UNCHANGED <<signed, sealed, server, users, expired, sent, heard, verdicts>>

----------------------------------------------------------------------------
Next ==
  \/ server = None /\ \E e \in Files, p \in Files, s \in Seeds : Open(e, p, s)
  \/ \E id \in AgentId : MintAgent(id)
  \/ \E t \in Token : MintBootstrap(t) \/ Expire(t)
  \/ \E i \in Principals, s \in Subjects, b \in Plain : Publish(i, s, b)
  \/ Alter
  \/ Deliver
  \/ Lost

Spec == Init /\ [][Next]_vars
----------------------------------------------------------------------------
MessagingTypeOK ==
  /\ server # None => /\ server.minter.signing \in Seeds
                      /\ {server.enrollment, server.presence} \subseteq Jwts
  /\ \A u \in users : u.jwt.name \in Named \cup Token
  /\ expired \subseteq Token
  /\ Len(sent) \in 0..MaxMessages
  /\ Len(signed) = 2 * Len(sent) /\ Len(sealed) <= Len(sent)
  /\ msg # None => msg.n = Len(sent)
  /\ \A v \in verdicts : v.verdict \in Refusal \cup {"envelope refused", "accepted"}

\* ADR-0004 sections 4 and 6, ARCH-NATS-003: whoever hears a message was meant to,
\* and whoever sent it was entitled to: commands come from the command publisher
\* and go to their agent, an agent's output goes to that output's one consumer,
\* enrollment stays between a token's holder and the service while the token
\* lasts, and nobody reads another's inbox (serviceGrants, agentGrants,
\* permissionFor, ValidateAgentIdentifier).
Service(n) == <<n, "service">>
User(n) == <<n, "user">>
Entitled(h) ==
  LET s == h.subject
  IN  IF s[1] = "_KSINBOX" THEN h.to = h.from
      ELSE CASE s[2] = "job" -> h.from = Service("command-publisher") /\ h.to = User(s[3])
             [] s[2] = "out" ->
                  /\ h.from = User(s[3])
                  /\ <<s[4], h.to>> \in {<<"result", Service("result-consumer")>>,
                                         <<"event", Service("monitoring-role")>>,
                                         <<"presence", Service("presence-consumer")>>}
             [] s[2] = "enroll" ->
                  /\ ~h.late
                  /\ {h.from, h.to} = {User(s[3]), Service("enrollment-service")}
                  /\ h.from = User(s[3]) <=> s[4] = "request"
PrincipalsApart == \A h \in heard : Entitled(h)

\* ADR-0005 sections 1 and 4: whatever was altered on the way, an envelope that is
\* accepted is byte for byte one that was sent, and its payload is what the sender
\* sealed for this receiver.  On an enrollment or a presence subject it is of that
\* subject's class, agent and token, and elsewhere of the class by which it
\* travelled (Split, Decode, OpenEnvelope, CheckHeaders, SignedInput,
\* VerifyEnvelope).
Authentic ==
  \A v \in verdicts : v.verdict = "accepted" =>
    \E m \in 1..Len(sent) :
      /\ v.bytes = Frame(fieldValues(sent[m].env))
      /\ v.plain = sent[m].plain
      /\ Encrypted(sent[m].env.class) => v.to = Recipient(sent[m].subject)
      /\ Enrolling(v.subject) => Expected(v.subject, sent[m].env)
      /\ ~Enrolling(v.subject) /\ "class" \in DOMAIN v.headers =>
           v.headers["class"] = sent[m].env.class

\* An envelope that arrives as it was sent is accepted, up to the last byte of the
\* receiver's bound, and refused as too large beyond it (Frame, Split, Decode).
HonestAccepted ==
  \A v \in verdicts : ~v.altered =>
    v.verdict = IF Len(v.bytes) <= MaxEnvelope THEN "accepted" ELSE "payload too large"

\* ROLE-1 and C05 section 3.3: a server that starts, whatever files its
\* configuration names, can hear every request and presence and answer it, and
\* what it mints is admitted by the broker that admits its own credentials
\* (ReadServiceCredential, NewMinter, Open).
ServesAsConfigured ==
  server # None =>
    /\ \E d \in Dep : /\ Admits(d, server.enrollment) /\ Admits(d, server.presence)
                     /\ \A u \in users : Admits(d, u.jwt)
    /\ \A t \in Token : /\ Permits(server.enrollment.sub, tokenEnrollment(t, "request"))
                        /\ Permits(server.enrollment.pub, tokenEnrollment(t, "reply"))
    /\ \A a \in Named : Permits(server.presence.sub, agentSubject(a, "presence"))
=============================================================================
