------------------------------- MODULE Grants --------------------------------
(***************************************************************************)
(* NATS identities (internal/natsauth): subjects, what each principal is   *)
(* granted, the user JWTs that carry it, and who may hold them.            *)
(*                                                                         *)
(* A subject or a pattern is a sequence of tokens.  A key is named by the  *)
(* deployment that generated it.                                           *)
(***************************************************************************)
EXTENDS Naturals, Sequences

Services == {"command-publisher", "enrollment-service", "result-consumer",
             "presence-consumer", "monitoring-role"}

----------------------------------------------------------------------------
(* Subjects.                                                               *)

agentSubject(id, class) == <<"ks", "out", id, class>>
jobSubject(id, class) == <<"ks", "job", id, class>>
tokenEnrollment(token, class) == <<"ks", "enroll", token, class>>
inboxSubtree(name) == <<"_KSINBOX", name, ">">>
\* ks-cmd-<id> and ks-res, the durable consumers of the two streams.
CommandConsumer(id) == <<"ks-cmd", id>>
ResultConsumerName == <<"ks-res", "">>
consumerNext(stream, consumer) == <<"$JS.API.CONSUMER.MSG.NEXT", stream>> \o consumer
consumerAck(stream, consumer) == <<"$JS.ACK", stream>> \o consumer \o <<">">>
advisorySubjects ==
  {<<"$JS.EVENT.ADVISORY", "CONSUMER", "MAX_DELIVERIES", "KS_CMD", "*">>,
   <<"$JS.EVENT.ADVISORY", "CONSUMER", "MSG_TERMINATED", "KS_CMD", "*">>,
   <<"$JS.EVENT.ADVISORY", "API", "LIMIT_REACHED">>}

\* NATS matching: * is one token, > is the rest, of at least one.
Matches(pattern, s) ==
  LET n == Len(pattern)
      rest == pattern[n] = ">"
  IN  /\ IF rest THEN Len(s) >= n ELSE Len(s) = n
      /\ \A i \in 1..(IF rest THEN n - 1 ELSE n) : pattern[i] \in {"*", s[i]}

----------------------------------------------------------------------------
(* Grants and permissions.                                                 *)

serviceGrants(p) ==
  CASE p = "command-publisher" ->
         [pub |-> {jobSubject("*", "cmd"), jobSubject("*", "cancel")}, sub |-> {inboxSubtree(p)}]
    [] p = "enrollment-service" ->
         [pub |-> {tokenEnrollment("*", "reply")}, sub |-> {tokenEnrollment("*", "request")}]
    [] p = "result-consumer" ->
         [pub |-> {consumerNext("KS_RES", ResultConsumerName), consumerAck("KS_RES", ResultConsumerName)},
          sub |-> {inboxSubtree(p)}]
    [] p = "presence-consumer" -> [pub |-> {}, sub |-> {agentSubject("*", "presence")}]
    [] p = "monitoring-role" ->
         [pub |-> {}, sub |-> {agentSubject("*", "event")} \cup advisorySubjects]

agentGrants(id) ==
  [pub |-> {agentSubject(id, "result"), agentSubject(id, "event"), agentSubject(id, "presence"),
            consumerNext("KS_CMD", CommandConsumer(id)), consumerAck("KS_CMD", CommandConsumer(id))},
   sub |-> {jobSubject(id, ">"), inboxSubtree(id)}]

bootstrapGrants(token) ==
  [pub |-> {tokenEnrollment(token, "request")}, sub |-> {tokenEnrollment(token, "reply")}]

\* Mutant of permissionFor: no grants leave the permission empty.
permissionForNone(allow) == [allow |-> allow, deny |-> {}]

permissionFor(allow) ==
  IF allow = {} THEN [allow |-> {}, deny |-> {<<">">>}] ELSE [allow |-> allow, deny |-> {}]

\* How the broker reads a permission: with nothing allowed, all but the denied is.
Permits(perm, s) ==
  /\ perm.allow = {} \/ \E g \in perm.allow : Matches(g, s)
  /\ ~\E g \in perm.deny : Matches(g, s)

----------------------------------------------------------------------------
(* User JWTs, and the minter that signs them.                              *)

\* A JWT's claims: the user's key, name, account and issuer, and its permissions.
Claims(key, name, g, minter) ==
  [key |-> key, name |-> name, account |-> minter.account, issuer |-> minter.signing,
   pub |-> permissionFor(g.pub), sub |-> permissionFor(g.sub)]

\* NewMinter takes any account's seed, and no user's, but that of the account itself.
IsAccountKey(k) == k # <<>> /\ k[2] \in {"account", "signing"}
NewMinterAccepts(account, seed) ==
  IsAccountKey(account) /\ IsAccountKey(seed) /\ seed # account

\* A deployment's two account keys, and its services' identities.
AccountKey(d) == <<d, "account">>
SigningKey(d) == <<d, "signing">>
ServiceIdentity(d, p) ==
  Claims(<<d, p>>, p, serviceGrants(p), [account |-> AccountKey(d), signing |-> SigningKey(d)])

\* Mutant of ReadServiceCredential: the name is taken for the role.
ReadServiceCredentialNamed(p, f) == f.seed = f.jwt.key /\ f.jwt.name = p

\* A credentials file is its JWT and the key whose seed it holds.  A JWT that the
\* account's own key signed names no account.
ReadServiceCredential(p, f) ==
  /\ f.seed = f.jwt.key
  /\ f.jwt.name = p /\ f.jwt.account # <<>>
  /\ f.jwt.pub = permissionFor(serviceGrants(p).pub)
  /\ f.jwt.sub = permissionFor(serviceGrants(p).sub)

\* The broker of a deployment admits the users of its account, signed by its key.
Admits(d, jwt) == jwt.account = AccountKey(d) /\ jwt.issuer = SigningKey(d)
=============================================================================
