--------------------------- MODULE MessagingProofs ---------------------------
(***************************************************************************)
(* Who hears whom on the broker, what a server that starts can do, and     *)
(* what a receiver makes of a message: proved for any deployments, agents, *)
(* tokens, payloads and number of messages.                                *)
(*                                                                         *)
(* The first argument is about patterns.  Each grant is a tuple of tokens, *)
(* and so is each subject: the lemmas on Matches say which tokens must     *)
(* agree.  From them follow the senders and the hearers of each subject,   *)
(* and the invariant carries to delivery that the sender was one.          *)
(*                                                                         *)
(* The second is about bytes.  Framing is injective and Split its inverse, *)
(* so the signed bytes determine every field but the signature; the record *)
(* of what was signed and sealed then says which message was accepted.     *)
(***************************************************************************)
EXTENDS Messaging, SequenceTheorems, TLAPS

----------------------------------------------------------------------------
(* Matching.                                                               *)

\* A pattern of four tokens, the last of them no rest.
LEMMA MatchesFour ==
  ASSUME NEW a, NEW b, NEW c, NEW d, NEW w, NEW x, NEW y, NEW z, d # ">"
  PROVE  Matches(<<a, b, c, d>>, <<w, x, y, z>>) <=>
           a \in {"*", w} /\ b \in {"*", x} /\ c \in {"*", y} /\ d \in {"*", z}
<1> DEFINE g == <<a, b, c, d>>
           s == <<w, x, y, z>>
<1>1. Len(g) = 4 /\ Len(s) = 4 /\ g[1] = a /\ g[2] = b /\ g[3] = c /\ g[4] = d
      /\ s[1] = w /\ s[2] = x /\ s[3] = y /\ s[4] = z
  OBVIOUS
<1> HIDE DEF g, s
<1>2. Matches(g, s) <=> \A i \in 1..4 : g[i] \in {"*", s[i]}
  BY <1>1 DEF Matches
<1>3. (\A i \in 1..4 : g[i] \in {"*", s[i]}) <=>
        /\ g[1] \in {"*", s[1]} /\ g[2] \in {"*", s[2]}
        /\ g[3] \in {"*", s[3]} /\ g[4] \in {"*", s[4]}
  OBVIOUS
<1> QED
  BY <1>1, <1>2, <1>3 DEF g, s

\* A pattern of three tokens and a rest, and a subject of four tokens.
LEMMA MatchesThreeRest ==
  ASSUME NEW a, NEW b, NEW c, NEW w, NEW x, NEW y, NEW z
  PROVE  Matches(<<a, b, c, ">">>, <<w, x, y, z>>) <=>
           a \in {"*", w} /\ b \in {"*", x} /\ c \in {"*", y}
<1> DEFINE g == <<a, b, c, ">">>
           s == <<w, x, y, z>>
<1>1. Len(g) = 4 /\ Len(s) = 4 /\ g[1] = a /\ g[2] = b /\ g[3] = c /\ g[4] = ">"
      /\ s[1] = w /\ s[2] = x /\ s[3] = y
  OBVIOUS
<1> HIDE DEF g, s
<1>2. Matches(g, s) <=> \A i \in 1..3 : g[i] \in {"*", s[i]}
  BY <1>1 DEF Matches
<1>3. (\A i \in 1..3 : g[i] \in {"*", s[i]}) <=>
        g[1] \in {"*", s[1]} /\ g[2] \in {"*", s[2]} /\ g[3] \in {"*", s[3]}
  OBVIOUS
<1> QED
  BY <1>1, <1>2, <1>3 DEF g, s

\* A pattern of two tokens and a rest, and a subject of four tokens.
LEMMA MatchesTwoRest ==
  ASSUME NEW a, NEW b, NEW w, NEW x, NEW y, NEW z
  PROVE  Matches(<<a, b, ">">>, <<w, x, y, z>>) <=> a \in {"*", w} /\ b \in {"*", x}
<1> DEFINE g == <<a, b, ">">>
           s == <<w, x, y, z>>
<1>1. Len(g) = 3 /\ Len(s) = 4 /\ g[1] = a /\ g[2] = b /\ g[3] = ">" /\ s[1] = w /\ s[2] = x
  OBVIOUS
<1> HIDE DEF g, s
<1>2. Matches(g, s) <=> \A i \in 1..2 : g[i] \in {"*", s[i]}
  BY <1>1 DEF Matches
<1>3. (\A i \in 1..2 : g[i] \in {"*", s[i]}) <=> g[1] \in {"*", s[1]} /\ g[2] \in {"*", s[2]}
  OBVIOUS
<1> QED
  BY <1>1, <1>2, <1>3 DEF g, s

\* The same, and a subject of three tokens.
LEMMA MatchesInbox ==
  ASSUME NEW a, NEW b, NEW w, NEW x, NEW y
  PROVE  Matches(<<a, b, ">">>, <<w, x, y>>) <=> a \in {"*", w} /\ b \in {"*", x}
<1> DEFINE g == <<a, b, ">">>
           s == <<w, x, y>>
<1>1. Len(g) = 3 /\ Len(s) = 3 /\ g[1] = a /\ g[2] = b /\ g[3] = ">" /\ s[1] = w /\ s[2] = x
  OBVIOUS
<1> HIDE DEF g, s
<1>2. Matches(g, s) <=> \A i \in 1..2 : g[i] \in {"*", s[i]}
  BY <1>1 DEF Matches
<1>3. (\A i \in 1..2 : g[i] \in {"*", s[i]}) <=> g[1] \in {"*", s[1]} /\ g[2] \in {"*", s[2]}
  OBVIOUS
<1> QED
  BY <1>1, <1>2, <1>3 DEF g, s

\* Patterns of another length, and the rest of everything.
LEMMA MatchesLength ==
  ASSUME NEW a, NEW b, NEW c, NEW d, NEW e, NEW w, NEW x, NEW y, NEW z
  PROVE  /\ ~Matches(<<a, b, c, d, e>>, <<w, x, y, z>>)
         /\ ~Matches(<<a, b, c, d, e>>, <<w, x, y>>)
         /\ ~Matches(<<a, b, c, d>>, <<w, x, y>>)
         /\ c # ">" => ~Matches(<<a, b, c>>, <<w, x, y, z>>)
         /\ Matches(<<">">>, <<w, x, y, z>>) /\ Matches(<<">">>, <<w, x, y>>)
BY DEF Matches

\* A pattern of three tokens, the last of them no rest.
LEMMA MatchesThree ==
  ASSUME NEW a, NEW b, NEW c, NEW w, NEW x, NEW y, c # ">", a \notin {"*", w}
  PROVE  ~Matches(<<a, b, c>>, <<w, x, y>>)
<1>1. Matches(<<a, b, c>>, <<w, x, y>>) => \A i \in 1..3 : <<a, b, c>>[i] \in {"*", <<w, x, y>>[i]}
  BY DEF Matches
<1>2. <<a, b, c>>[1] = a /\ <<w, x, y>>[1] = w /\ 1 \in 1..3
  OBVIOUS
<1> QED
  BY <1>1, <1>2

\* Tuples put together.
LEMMA TupleFour ==
  ASSUME NEW a, NEW b, NEW c, NEW d
  PROVE  <<a, b>> \o <<c, d>> = <<a, b, c, d>>
<1> DEFINE S == {a, b, c, d}
           u == <<a, b>>
           v == <<c, d>>
           t == <<a, b, c, d>>
<1>1. u \in Seq(S) /\ v \in Seq(S) /\ t \in Seq(S) /\ Len(u) = 2 /\ Len(v) = 2 /\ Len(t) = 4
      /\ u[1] = a /\ u[2] = b /\ v[1] = c /\ v[2] = d
      /\ t[1] = a /\ t[2] = b /\ t[3] = c /\ t[4] = d
  OBVIOUS
<1> HIDE DEF S, u, v, t
<1>2. /\ u \o v \in Seq(S) /\ Len(u \o v) = Len(u) + Len(v)
      /\ \A i \in 1..(Len(u) + Len(v)) :
           (u \o v)[i] = IF i <= Len(u) THEN u[i] ELSE v[i - Len(u)]
  BY <1>1, ConcatProperties, Zenon
<1>3. Len(u \o v) = Len(t) /\ \A i \in 1..Len(u \o v) : (u \o v)[i] = t[i]
  BY <1>1, <1>2
<1>4. u \o v = t
  BY <1>1, <1>2, <1>3, SeqEqual
<1> QED
  BY <1>4 DEF u, v, t

LEMMA TupleFive ==
  ASSUME NEW a, NEW b, NEW c, NEW d, NEW e
  PROVE  <<a, b, c, d>> \o <<e>> = <<a, b, c, d, e>>
<1> DEFINE S == {a, b, c, d, e}
           u == <<a, b, c, d>>
           v == <<e>>
           t == <<a, b, c, d, e>>
<1>1. u \in Seq(S) /\ v \in Seq(S) /\ t \in Seq(S) /\ Len(u) = 4 /\ Len(v) = 1 /\ Len(t) = 5
      /\ u[1] = a /\ u[2] = b /\ u[3] = c /\ u[4] = d /\ v[1] = e
      /\ t[1] = a /\ t[2] = b /\ t[3] = c /\ t[4] = d /\ t[5] = e
  OBVIOUS
<1> HIDE DEF S, u, v, t
<1>2. /\ u \o v \in Seq(S) /\ Len(u \o v) = Len(u) + Len(v)
      /\ \A i \in 1..(Len(u) + Len(v)) :
           (u \o v)[i] = IF i <= Len(u) THEN u[i] ELSE v[i - Len(u)]
  BY <1>1, ConcatProperties, Zenon
<1>3. Len(u \o v) = Len(t) /\ \A i \in 1..Len(u \o v) : (u \o v)[i] = t[i]
  BY <1>1, <1>2
<1>4. u \o v = t
  BY <1>1, <1>2, <1>3, SeqEqual
<1> QED
  BY <1>4 DEF u, v, t

\* Consumer subjects and acknowledgement patterns, written out.
LEMMA ConsumerTuples ==
  ASSUME NEW st, NEW id
  PROVE  /\ consumerNext(st, CommandConsumer(id)) = <<"$JS.API.CONSUMER.MSG.NEXT", st, "ks-cmd", id>>
         /\ consumerNext(st, ResultConsumerName) = <<"$JS.API.CONSUMER.MSG.NEXT", st, "ks-res", "">>
         /\ consumerAck(st, CommandConsumer(id)) = <<"$JS.ACK", st, "ks-cmd", id, ">">>
         /\ consumerAck(st, ResultConsumerName) = <<"$JS.ACK", st, "ks-res", "", ">">>
<1>1. <<"$JS.ACK", st>> \o <<"ks-cmd", id>> = <<"$JS.ACK", st, "ks-cmd", id>>
  BY TupleFour
<1>2. <<"$JS.ACK", st>> \o <<"ks-res", "">> = <<"$JS.ACK", st, "ks-res", "">>
  BY TupleFour
<1>3. consumerAck(st, CommandConsumer(id)) = <<"$JS.ACK", st, "ks-cmd", id, ">">>
  BY <1>1, TupleFive, Zenon DEF consumerAck, CommandConsumer
<1>4. consumerAck(st, ResultConsumerName) = <<"$JS.ACK", st, "ks-res", "", ">">>
  BY <1>2, TupleFive, Zenon DEF consumerAck, ResultConsumerName
<1>5. consumerNext(st, CommandConsumer(id)) = <<"$JS.API.CONSUMER.MSG.NEXT", st, "ks-cmd", id>>
  BY TupleFour, Zenon DEF consumerNext, CommandConsumer
<1>6. consumerNext(st, ResultConsumerName) = <<"$JS.API.CONSUMER.MSG.NEXT", st, "ks-res", "">>
  BY TupleFour, Zenon DEF consumerNext, ResultConsumerName
<1> QED
  BY <1>3, <1>4, <1>5, <1>6

\* What permissionFor makes of grants permits what they match, and nothing if there
\* are none.
LEMMA PermitsGrants ==
  ASSUME NEW G, NEW w, NEW x, NEW y, NEW z
  PROVE  /\ Permits(permissionFor(G), <<w, x, y, z>>) <=> \E g \in G : Matches(g, <<w, x, y, z>>)
         /\ Permits(permissionFor(G), <<w, x, y>>) <=> \E g \in G : Matches(g, <<w, x, y>>)
<1>1. Matches(<<">">>, <<w, x, y, z>>) /\ Matches(<<">">>, <<w, x, y>>)
  BY MatchesLength
<1>2. CASE G = {}
  <2>1. permissionFor(G) = [allow |-> {}, deny |-> {<<">">>}]
    BY <1>2 DEF permissionFor
  <2> QED
    BY <1>1, <1>2, <2>1 DEF Permits
<1>3. CASE G # {}
  <2>1. permissionFor(G) = [allow |-> G, deny |-> {}]
    BY <1>3 DEF permissionFor
  <2> QED
    BY <1>3, <2>1 DEF Permits
<1> QED
  BY <1>2, <1>3

----------------------------------------------------------------------------
(* What each identity may publish and hear, of subjects of four tokens.    *)

\* The services (serviceGrants).
LEMMA ServicePublishes ==
  ASSUME NEW p \in Services, NEW w, NEW x, NEW y, NEW z,
         NEW g \in serviceGrants(p).pub, Matches(g, <<w, x, y, z>>)
  PROVE  \/ p = "command-publisher" /\ w = "ks" /\ x = "job"
         \/ p = "enrollment-service" /\ w = "ks" /\ x = "enroll" /\ z = "reply"
         \/ p = "result-consumer" /\ w = "$JS.API.CONSUMER.MSG.NEXT" /\ x = "KS_RES"
<1>1. CASE p = "command-publisher"
  <2>1. g = <<"ks", "job", "*", "cmd">> \/ g = <<"ks", "job", "*", "cancel">>
    BY <1>1 DEF serviceGrants, jobSubject
  <2> QED
    BY <1>1, <2>1, MatchesFour
<1>2. CASE p = "enrollment-service"
  <2>1. g = <<"ks", "enroll", "*", "reply">>
    BY <1>2 DEF serviceGrants, tokenEnrollment
  <2> QED
    BY <1>2, <2>1, MatchesFour
<1>3. CASE p = "result-consumer"
  <2>1. g = <<"$JS.API.CONSUMER.MSG.NEXT", "KS_RES", "ks-res", "">>
        \/ g = <<"$JS.ACK", "KS_RES", "ks-res", "", ">">>
    BY <1>3, ConsumerTuples DEF serviceGrants
  <2>2. ~Matches(<<"$JS.ACK", "KS_RES", "ks-res", "", ">">>, <<w, x, y, z>>)
    BY MatchesLength
  <2>3. "" # ">"
    OBVIOUS
  <2>4. ASSUME NEW e, e # ">"
        PROVE  Matches(<<"$JS.API.CONSUMER.MSG.NEXT", "KS_RES", "ks-res", e>>, <<w, x, y, z>>) =>
                 w = "$JS.API.CONSUMER.MSG.NEXT" /\ x = "KS_RES"
    BY <2>4, MatchesFour
  <2>5. Matches(<<"$JS.API.CONSUMER.MSG.NEXT", "KS_RES", "ks-res", "">>, <<w, x, y, z>>) =>
          w = "$JS.API.CONSUMER.MSG.NEXT" /\ x = "KS_RES"
    BY <2>3, <2>4, Zenon
  <2> QED
    BY <1>3, <2>1, <2>2, <2>5
<1>4. CASE p \in {"presence-consumer", "monitoring-role"}
  BY <1>4 DEF serviceGrants
<1> QED
  BY <1>1, <1>2, <1>3, <1>4 DEF Services

LEMMA ServiceHears ==
  ASSUME NEW p \in Services, NEW w, NEW x, NEW y, NEW z,
         NEW g \in serviceGrants(p).sub
  PROVE  /\ Matches(g, <<w, x, y, z>>) =>
              \/ w = "_KSINBOX"
              \/ p = "enrollment-service" /\ w = "ks" /\ x = "enroll" /\ z = "request"
              \/ p = "presence-consumer" /\ w = "ks" /\ x = "out" /\ z = "presence"
              \/ p = "monitoring-role" /\ w = "ks" /\ x = "out" /\ z = "event"
         /\ Matches(g, <<"_KSINBOX", x, y>>) => x = p
<1>1. CASE p \in {"command-publisher", "result-consumer"}
  <2>1. g = <<"_KSINBOX", p, ">">> /\ p # "*"
    BY <1>1 DEF serviceGrants, inboxSubtree
  <2>2. Matches(<<"_KSINBOX", p, ">">>, <<w, x, y, z>>) => w = "_KSINBOX"
    BY MatchesTwoRest
  <2>3. Matches(<<"_KSINBOX", p, ">">>, <<"_KSINBOX", x, y>>) => x = p
    BY <2>1, MatchesInbox
  <2> QED
    BY <2>1, <2>2, <2>3
<1>2. CASE p = "enrollment-service"
  <2>1. g = <<"ks", "enroll", "*", "request">>
    BY <1>2 DEF serviceGrants, tokenEnrollment
  <2>2. Matches(<<"ks", "enroll", "*", "request">>, <<w, x, y, z>>) =>
          w = "ks" /\ x = "enroll" /\ z = "request"
    BY MatchesFour
  <2>3. ~Matches(<<"ks", "enroll", "*", "request">>, <<"_KSINBOX", x, y>>)
    BY MatchesLength
  <2> QED
    BY <1>2, <2>1, <2>2, <2>3
<1>3. CASE p = "presence-consumer"
  <2>1. g = <<"ks", "out", "*", "presence">>
    BY <1>3 DEF serviceGrants, agentSubject
  <2>2. Matches(<<"ks", "out", "*", "presence">>, <<w, x, y, z>>) =>
          w = "ks" /\ x = "out" /\ z = "presence"
    BY MatchesFour
  <2>3. ~Matches(<<"ks", "out", "*", "presence">>, <<"_KSINBOX", x, y>>)
    BY MatchesLength
  <2> QED
    BY <1>3, <2>1, <2>2, <2>3
<1>4. CASE p = "monitoring-role"
  <2>1. CASE g = <<"ks", "out", "*", "event">>
    <3>1. Matches(<<"ks", "out", "*", "event">>, <<w, x, y, z>>) =>
            w = "ks" /\ x = "out" /\ z = "event"
      BY MatchesFour
    <3>2. ~Matches(<<"ks", "out", "*", "event">>, <<"_KSINBOX", x, y>>)
      BY MatchesLength
    <3> QED
      BY <1>4, <2>1, <3>1, <3>2
  <2>2. CASE g \in advisorySubjects
    <3>1. \/ \E b, c, d, e : g = <<"$JS.EVENT.ADVISORY", b, c, d, e>>
          \/ g = <<"$JS.EVENT.ADVISORY", "API", "LIMIT_REACHED">>
      BY <2>2 DEF advisorySubjects
    <3>2. ASSUME NEW b, NEW c, NEW d, NEW e
          PROVE  /\ ~Matches(<<"$JS.EVENT.ADVISORY", b, c, d, e>>, <<w, x, y, z>>)
                 /\ ~Matches(<<"$JS.EVENT.ADVISORY", b, c, d, e>>, <<"_KSINBOX", x, y>>)
      BY MatchesLength
    <3>3. ~Matches(<<"$JS.EVENT.ADVISORY", "API", "LIMIT_REACHED">>, <<w, x, y, z>>)
      BY MatchesLength
    <3>4. ~Matches(<<"$JS.EVENT.ADVISORY", "API", "LIMIT_REACHED">>, <<"_KSINBOX", x, y>>)
      BY MatchesThree
    <3> QED
      BY <3>1, <3>2, <3>3, <3>4
  <2> QED
    BY <1>4, <2>1, <2>2 DEF serviceGrants, agentSubject
<1> QED
  BY <1>1, <1>2, <1>3, <1>4 DEF Services

\* An agent (agentGrants).
LEMMA AgentPublishes ==
  ASSUME NEW id, id \notin {"*", ">"}, NEW w, NEW x, NEW y, NEW z,
         NEW g \in agentGrants(id).pub, Matches(g, <<w, x, y, z>>)
  PROVE  \/ w = "ks" /\ x = "out" /\ y = id
         \/ w = "$JS.API.CONSUMER.MSG.NEXT" /\ x = "KS_CMD" /\ z = id
<1>1. \/ \E c \in {"result", "event", "presence"} : g = <<"ks", "out", id, c>>
      \/ g = <<"$JS.API.CONSUMER.MSG.NEXT", "KS_CMD", "ks-cmd", id>>
      \/ g = <<"$JS.ACK", "KS_CMD", "ks-cmd", id, ">">>
  BY ConsumerTuples DEF agentGrants, agentSubject
<1>2. ASSUME NEW c \in {"result", "event", "presence"}, Matches(<<"ks", "out", id, c>>, <<w, x, y, z>>)
      PROVE  w = "ks" /\ x = "out" /\ y = id
  BY <1>2, MatchesFour
<1>3. Matches(<<"$JS.API.CONSUMER.MSG.NEXT", "KS_CMD", "ks-cmd", id>>, <<w, x, y, z>>) =>
        w = "$JS.API.CONSUMER.MSG.NEXT" /\ x = "KS_CMD" /\ z = id
  BY MatchesFour
<1>4. ~Matches(<<"$JS.ACK", "KS_CMD", "ks-cmd", id, ">">>, <<w, x, y, z>>)
  BY MatchesLength
<1> QED
  BY <1>1, <1>2, <1>3, <1>4

LEMMA AgentHears ==
  ASSUME NEW id, id \notin {"*", ">"}, NEW w, NEW x, NEW y, NEW z,
         NEW g \in agentGrants(id).sub
  PROVE  /\ Matches(g, <<w, x, y, z>>) => w = "_KSINBOX" \/ (w = "ks" /\ x = "job" /\ y = id)
         /\ Matches(g, <<"_KSINBOX", x, y>>) => x = id
<1>1. g = <<"ks", "job", id, ">">> \/ g = <<"_KSINBOX", id, ">">>
  BY DEF agentGrants, jobSubject, inboxSubtree
<1>2. Matches(<<"ks", "job", id, ">">>, <<w, x, y, z>>) => w = "ks" /\ x = "job" /\ y = id
  BY MatchesThreeRest
<1>3. ~Matches(<<"ks", "job", id, ">">>, <<"_KSINBOX", x, y>>)
  BY MatchesLength
<1>4. Matches(<<"_KSINBOX", id, ">">>, <<w, x, y, z>>) => w = "_KSINBOX"
  BY MatchesTwoRest
<1>5. Matches(<<"_KSINBOX", id, ">">>, <<"_KSINBOX", x, y>>) => x = id
  BY MatchesInbox
<1> QED
  BY <1>1, <1>2, <1>3, <1>4, <1>5

\* A token's holder (bootstrapGrants).
LEMMA HolderPublishes ==
  ASSUME NEW t, t \notin {"*", ">"}, NEW w, NEW x, NEW y, NEW z,
         NEW g \in bootstrapGrants(t).pub, Matches(g, <<w, x, y, z>>)
  PROVE  w = "ks" /\ x = "enroll" /\ y = t /\ z = "request"
<1>1. g = <<"ks", "enroll", t, "request">>
  BY DEF bootstrapGrants, tokenEnrollment
<1> QED
  BY <1>1, MatchesFour

LEMMA HolderHears ==
  ASSUME NEW t, t \notin {"*", ">"}, NEW w, NEW x, NEW y, NEW z,
         NEW g \in bootstrapGrants(t).sub
  PROVE  /\ Matches(g, <<w, x, y, z>>) => w = "ks" /\ x = "enroll" /\ y = t /\ z = "reply"
         /\ ~Matches(g, <<w, x, y>>)
<1>1. g = <<"ks", "enroll", t, "reply">>
  BY DEF bootstrapGrants, tokenEnrollment
<1>2. Matches(<<"ks", "enroll", t, "reply">>, <<w, x, y, z>>) =>
        w = "ks" /\ x = "enroll" /\ y = t /\ z = "reply"
  BY MatchesFour
<1>3. ~Matches(<<"ks", "enroll", t, "reply">>, <<w, x, y>>)
  BY MatchesLength
<1> QED
  BY <1>1, <1>2, <1>3

----------------------------------------------------------------------------
(* The identities on one broker.                                           *)

\* A minted identity is of an identifier that is no wildcard and no service's name
\* (ValidateAgentIdentifier).
LEMMA ValidNames ==
  ASSUME NEW n \in AgentId \cup Token, ValidateAgentIdentifier(n)
  PROVE  n \notin {"*", ">"} /\ n \notin Services
<1>1. n \notin Services
  <2> SUFFICES ASSUME n \in Services PROVE FALSE
    OBVIOUS
  <2>1. \E k \in 31..35 : Code(n) = <<k>>
    BY DEF Code, Services
  <2>2. ReservedSender(Code(n))
    BY <2>1 DEF ReservedSender, ReservedByte
  <2> QED
    BY <2>2 DEF ValidateAgentIdentifier
<1>2. n \notin {"*", ">"}
  <2> SUFFICES ASSUME n \in {"*", ">"} PROVE FALSE
    OBVIOUS
  <2>1. Code(n) = CodeOf[n]
    BY DEF Code
  <2>2. n \in DOMAIN CodeOf
    BY MessagingAssumption
  <2> QED
    BY <2>1, <2>2, NameAssumption DEF ValidateAgentIdentifier
<1> QED
  BY <1>1, <1>2

\* The three kinds of identity, by what an identity can do and who it is.
AsService(q, p) ==
  /\ q.name = p /\ Who(q) = Service(p)
  /\ q.pub = permissionFor(serviceGrants(p).pub) /\ q.sub = permissionFor(serviceGrants(p).sub)
AsAgent(q, id) ==
  /\ q.name = id /\ Who(q) = User(id)
  /\ q.pub = permissionFor(agentGrants(id).pub) /\ q.sub = permissionFor(agentGrants(id).sub)
AsHolder(q, t) ==
  /\ q.name = t /\ Who(q) = User(t)
  /\ q.pub = permissionFor(bootstrapGrants(t).pub) /\ q.sub = permissionFor(bootstrapGrants(t).sub)

Holders == {t \in Token : ValidateAgentIdentifier(t)}

\* Names of the three kinds are apart, and none is a wildcard.
LEMMA NamesApart ==
  /\ \A n \in Named : n \in AgentId /\ n \notin Token \cup Services \cup {"*", ">"}
  /\ \A n \in Holders : n \in Token /\ n \notin AgentId \cup Services \cup {"*", ">"}
  /\ \A p \in Services : p \notin Token
<1>1. \A n \in Named : n \in AgentId /\ n \notin Services \cup {"*", ">"}
  BY ValidNames DEF Named
<1>2. \A n \in Holders : n \in Token /\ n \notin Services \cup {"*", ">"}
  BY ValidNames DEF Holders
<1> QED
  BY <1>1, <1>2, MessagingAssumption

\* The one who sends on a subject, and the one who receives.
Sender(s) ==
  IF s[2] = "job" THEN Service("command-publisher")
  ELSE IF s[2] = "out" \/ s[4] = "request" THEN User(s[3])
  ELSE Service("enrollment-service")
Receiver(s) ==
  IF s[2] = "job" \/ s[4] = "reply" THEN User(s[3])
  ELSE Service(CASE s[4] = "result" -> "result-consumer"
                 [] s[4] = "event" -> "monitoring-role"
                 [] s[4] = "presence" -> "presence-consumer"
                 [] s[4] = "request" -> "enrollment-service")

\* A subject written out.
LEMMA SubjectTuples ==
  ASSUME NEW s \in Subjects
  PROVE  \E x, y, z :
           /\ s = <<"ks", x, y, z>> /\ s[1] = "ks" /\ s[2] = x /\ s[3] = y /\ s[4] = z
           /\ \/ x = "out" /\ y \in Named /\ z \in {"result", "event", "presence"}
              \/ x = "job" /\ y \in Named /\ z \in {"cmd", "cancel"}
              \/ x = "enroll" /\ y \in Token /\ z \in {"request", "reply"}
<1>1. CASE \E a \in Named, c \in {"result", "event", "presence"} : s = agentSubject(a, c)
  <2>1. PICK a \in Named, c \in {"result", "event", "presence"} : s = <<"ks", "out", a, c>>
    BY <1>1 DEF agentSubject
  <2>2. s[1] = "ks" /\ s[2] = "out" /\ s[3] = a /\ s[4] = c
    BY <2>1
  <2> QED
    BY <2>1, <2>2
<1>2. CASE \E a \in Named, c \in {"cmd", "cancel"} : s = jobSubject(a, c)
  <2>1. PICK a \in Named, c \in {"cmd", "cancel"} : s = <<"ks", "job", a, c>>
    BY <1>2 DEF jobSubject
  <2>2. s[1] = "ks" /\ s[2] = "job" /\ s[3] = a /\ s[4] = c
    BY <2>1
  <2> QED
    BY <2>1, <2>2
<1>3. CASE \E t \in Token, c \in {"request", "reply"} : s = tokenEnrollment(t, c)
  <2>1. PICK t \in Token, c \in {"request", "reply"} : s = <<"ks", "enroll", t, c>>
    BY <1>3 DEF tokenEnrollment
  <2>2. s[1] = "ks" /\ s[2] = "enroll" /\ s[3] = t /\ s[4] = c
    BY <2>1
  <2> QED
    BY <2>1, <2>2
<1> QED
  BY <1>1, <1>2, <1>3 DEF Subjects

\* Whoever may publish on a subject is its sender (serviceGrants, agentGrants,
\* bootstrapGrants, permissionFor).
LEMMA MaySend ==
  ASSUME NEW q, NEW s \in Subjects, Permits(q.pub, s),
         (\E p \in Services : AsService(q, p)) \/ (\E id \in Named : AsAgent(q, id))
           \/ (\E t \in Holders : AsHolder(q, t))
  PROVE  Who(q) = Sender(s) /\ q.name = Sender(s)[1]
<1>1. PICK x, y, z : /\ s = <<"ks", x, y, z>> /\ s[1] = "ks" /\ s[2] = x /\ s[3] = y /\ s[4] = z
                     /\ \/ x = "out" /\ y \in Named /\ z \in {"result", "event", "presence"}
                        \/ x = "job" /\ y \in Named /\ z \in {"cmd", "cancel"}
                        \/ x = "enroll" /\ y \in Token /\ z \in {"request", "reply"}
  BY SubjectTuples
<1>2. Permits(q.pub, <<"ks", x, y, z>>)
  BY <1>1
<1>3. ASSUME NEW p \in Services, AsService(q, p)
      PROVE  Who(q) = Sender(s)
  <2>1. PICK g \in serviceGrants(p).pub : Matches(g, <<"ks", x, y, z>>)
    BY <1>2, <1>3, PermitsGrants DEF AsService
  <2>2. \/ p = "command-publisher" /\ x = "job"
        \/ p = "enrollment-service" /\ x = "enroll" /\ z = "reply"
    BY <2>1, ServicePublishes
  <2> QED
    BY <1>1, <1>3, <2>2 DEF AsService, Sender
<1>4. ASSUME NEW id \in Named, AsAgent(q, id)
      PROVE  Who(q) = Sender(s)
  <2>1. PICK g \in agentGrants(id).pub : Matches(g, <<"ks", x, y, z>>)
    BY <1>2, <1>4, PermitsGrants DEF AsAgent
  <2>2. id \notin {"*", ">"}
    BY NamesApart
  <2>3. x = "out" /\ y = id
    BY <2>1, <2>2, AgentPublishes
  <2> QED
    BY <1>1, <1>4, <2>3 DEF AsAgent, Sender
<1>5. ASSUME NEW t \in Holders, AsHolder(q, t)
      PROVE  Who(q) = Sender(s)
  <2>1. PICK g \in bootstrapGrants(t).pub : Matches(g, <<"ks", x, y, z>>)
    BY <1>2, <1>5, PermitsGrants DEF AsHolder
  <2>2. t \notin {"*", ">"}
    BY NamesApart
  <2>3. x = "enroll" /\ y = t /\ z = "request"
    BY <2>1, <2>2, HolderPublishes
  <2> QED
    BY <1>1, <1>5, <2>3 DEF AsHolder, Sender
<1>6. Who(q) = Sender(s)
  BY <1>3, <1>4, <1>5
<1>7. Who(q)[1] = q.name
  BY DEF Who
<1> QED
  BY <1>6, <1>7

\* Whoever may subscribe to a subject, or pull it from its stream, is its receiver.
LEMMA MayHear ==
  ASSUME NEW q, NEW s \in Subjects, Hears(q, s),
         (\E p \in Services : AsService(q, p)) \/ (\E id \in Named : AsAgent(q, id))
           \/ (\E t \in Holders : AsHolder(q, t))
  PROVE  Who(q) = Receiver(s)
<1>1. PICK x, y, z : /\ s = <<"ks", x, y, z>> /\ s[1] = "ks" /\ s[2] = x /\ s[3] = y /\ s[4] = z
                     /\ \/ x = "out" /\ y \in Named /\ z \in {"result", "event", "presence"}
                        \/ x = "job" /\ y \in Named /\ z \in {"cmd", "cancel"}
                        \/ x = "enroll" /\ y \in Token /\ z \in {"request", "reply"}
  BY SubjectTuples
<1>2. \/ Permits(q.sub, <<"ks", x, y, z>>)
      \/ x = "job" /\ Permits(q.pub, <<"$JS.API.CONSUMER.MSG.NEXT", "KS_CMD", "ks-cmd", y>>)
      \/ x = "out" /\ z = "result" /\ Permits(q.pub, <<"$JS.API.CONSUMER.MSG.NEXT", "KS_RES", "ks-res", "">>)
  <2>1. CASE Permits(q.sub, s)
    BY <1>1, <2>1
  <2>2. CASE Pulls(q, s) /\ x = "job"
    <3>1. Permits(q.pub, consumerNext("KS_CMD", CommandConsumer(y)))
      BY <1>1, <2>2 DEF Pulls
    <3>2. consumerNext("KS_CMD", CommandConsumer(y)) = <<"$JS.API.CONSUMER.MSG.NEXT", "KS_CMD", "ks-cmd", y>>
      BY ConsumerTuples
    <3> QED
      BY <2>2, <3>1, <3>2
  <2>3. CASE Pulls(q, s) /\ x # "job"
    <3>1. Permits(q.pub, consumerNext("KS_RES", ResultConsumerName)) /\ z \in {"cmd", "cancel", "result"}
      BY <1>1, <2>3 DEF Pulls, InStream
    <3>2. consumerNext("KS_RES", ResultConsumerName) = <<"$JS.API.CONSUMER.MSG.NEXT", "KS_RES", "ks-res", "">>
      BY ConsumerTuples
    <3>3. x = "out" /\ z = "result"
      BY <1>1, <2>3, <3>1
    <3> QED
      BY <3>1, <3>2, <3>3
  <2> QED
    BY <2>1, <2>2, <2>3 DEF Hears
<1>3. ASSUME NEW p \in Services, AsService(q, p)
      PROVE  Who(q) = Receiver(s)
  <2>1. CASE Permits(q.sub, <<"ks", x, y, z>>)
    <3>1. PICK g \in serviceGrants(p).sub : Matches(g, <<"ks", x, y, z>>)
      BY <1>3, <2>1, PermitsGrants DEF AsService
    <3>2. "ks" # "_KSINBOX"
      OBVIOUS
    <3>3. \A w : Matches(g, <<w, x, y, z>>) =>
            \/ w = "_KSINBOX"
            \/ p = "enrollment-service" /\ w = "ks" /\ x = "enroll" /\ z = "request"
            \/ p = "presence-consumer" /\ w = "ks" /\ x = "out" /\ z = "presence"
            \/ p = "monitoring-role" /\ w = "ks" /\ x = "out" /\ z = "event"
      BY <1>3, <3>1, ServiceHears, Zenon
    <3>4. \/ p = "enrollment-service" /\ x = "enroll" /\ z = "request"
          \/ p = "presence-consumer" /\ x = "out" /\ z = "presence"
          \/ p = "monitoring-role" /\ x = "out" /\ z = "event"
      BY <3>1, <3>2, <3>3
    <3> QED
      BY <1>1, <1>3, <3>4 DEF AsService, Receiver
  <2>2. ASSUME NEW v, NEW c, NEW i, Permits(q.pub, <<"$JS.API.CONSUMER.MSG.NEXT", v, c, i>>)
        PROVE  p = "result-consumer" /\ v = "KS_RES"
    <3>1. PICK g \in serviceGrants(p).pub : Matches(g, <<"$JS.API.CONSUMER.MSG.NEXT", v, c, i>>)
      BY <1>3, <2>2, PermitsGrants DEF AsService
    <3> QED
      BY <3>1, ServicePublishes
  <2>3. ~Permits(q.pub, <<"$JS.API.CONSUMER.MSG.NEXT", "KS_CMD", "ks-cmd", y>>)
    BY <2>2
  <2>4. CASE /\ x = "out" /\ z = "result"
             /\ Permits(q.pub, <<"$JS.API.CONSUMER.MSG.NEXT", "KS_RES", "ks-res", "">>)
    <3>1. p = "result-consumer"
      BY <2>2, <2>4, Zenon
    <3> QED
      BY <1>1, <1>3, <2>4, <3>1 DEF AsService, Receiver
  <2> QED
    BY <1>2, <2>1, <2>3, <2>4
<1>4. ASSUME NEW id \in Named, AsAgent(q, id)
      PROVE  Who(q) = Receiver(s)
  <2>1. id \notin {"*", ">"}
    BY NamesApart
  <2>2. CASE Permits(q.sub, <<"ks", x, y, z>>)
    <3>1. PICK g \in agentGrants(id).sub : Matches(g, <<"ks", x, y, z>>)
      BY <1>4, <2>2, PermitsGrants DEF AsAgent
    <3>2. x = "job" /\ y = id
      BY <2>1, <3>1, AgentHears
    <3> QED
      BY <1>1, <1>4, <3>2 DEF AsAgent, Receiver
  <2>3. ASSUME NEW v, NEW c, NEW i, Permits(q.pub, <<"$JS.API.CONSUMER.MSG.NEXT", v, c, i>>)
        PROVE  v = "KS_CMD" /\ i = id
    <3>1. PICK g \in agentGrants(id).pub : Matches(g, <<"$JS.API.CONSUMER.MSG.NEXT", v, c, i>>)
      BY <1>4, <2>3, PermitsGrants DEF AsAgent
    <3> QED
      BY <2>1, <3>1, AgentPublishes
  <2>4. CASE x = "job" /\ Permits(q.pub, <<"$JS.API.CONSUMER.MSG.NEXT", "KS_CMD", "ks-cmd", y>>)
    <3>1. y = id
      BY <2>3, <2>4
    <3> QED
      BY <1>1, <1>4, <2>4, <3>1 DEF AsAgent, Receiver
  <2>5. "KS_RES" # "KS_CMD"
    OBVIOUS
  <2>6. ~Permits(q.pub, <<"$JS.API.CONSUMER.MSG.NEXT", "KS_RES", "ks-res", "">>)
    BY <2>3, <2>5, Zenon
  <2> QED
    BY <1>2, <2>2, <2>4, <2>6
<1>5. ASSUME NEW t \in Holders, AsHolder(q, t)
      PROVE  Who(q) = Receiver(s)
  <2>1. t \notin {"*", ">"}
    BY NamesApart
  <2>2. CASE Permits(q.sub, <<"ks", x, y, z>>)
    <3>1. PICK g \in bootstrapGrants(t).sub : Matches(g, <<"ks", x, y, z>>)
      BY <1>5, <2>2, PermitsGrants DEF AsHolder
    <3>2. x = "enroll" /\ y = t /\ z = "reply"
      BY <2>1, <3>1, HolderHears
    <3> QED
      BY <1>1, <1>5, <3>2 DEF AsHolder, Receiver
  <2>3. ASSUME NEW v, NEW c, NEW i
        PROVE  ~Permits(q.pub, <<"$JS.API.CONSUMER.MSG.NEXT", v, c, i>>)
    <3> SUFFICES ASSUME Permits(q.pub, <<"$JS.API.CONSUMER.MSG.NEXT", v, c, i>>)
                 PROVE  FALSE
      OBVIOUS
    <3>1. PICK g \in bootstrapGrants(t).pub : Matches(g, <<"$JS.API.CONSUMER.MSG.NEXT", v, c, i>>)
      BY <1>5, PermitsGrants DEF AsHolder
    <3> QED
      BY <2>1, <3>1, HolderPublishes
  <2>4. ~Permits(q.pub, <<"$JS.API.CONSUMER.MSG.NEXT", "KS_CMD", "ks-cmd", y>>)
    BY <2>3, Zenon
  <2>5. ~Permits(q.pub, <<"$JS.API.CONSUMER.MSG.NEXT", "KS_RES", "ks-res", "">>)
    BY <2>3, Zenon
  <2> QED
    BY <1>2, <2>2, <2>4, <2>5
<1> QED
  BY <1>3, <1>4, <1>5

\* Whoever may subscribe to an inbox is a service or an agent of that name.
LEMMA OwnInbox ==
  ASSUME NEW q, NEW n, NEW r, Permits(q.sub, <<"_KSINBOX", n, r>>),
         (\E p \in Services : AsService(q, p)) \/ (\E id \in Named : AsAgent(q, id))
           \/ (\E t \in Holders : AsHolder(q, t))
  PROVE  (n \in Services /\ Who(q) = Service(n)) \/ (n \in Named /\ Who(q) = User(n))
<1>1. ASSUME NEW p \in Services, AsService(q, p)
      PROVE  n \in Services /\ Who(q) = Service(n)
  <2>1. PICK g \in serviceGrants(p).sub : Matches(g, <<"_KSINBOX", n, r>>)
    BY <1>1, PermitsGrants DEF AsService
  <2>2. n = p
    BY <2>1, ServiceHears
  <2> QED
    BY <1>1, <2>2 DEF AsService
<1>2. ASSUME NEW id \in Named, AsAgent(q, id)
      PROVE  n \in Named /\ Who(q) = User(n)
  <2>1. PICK g \in agentGrants(id).sub : Matches(g, <<"_KSINBOX", n, r>>)
    BY <1>2, PermitsGrants DEF AsAgent
  <2>2. id \notin {"*", ">"}
    BY NamesApart
  <2>3. n = id
    BY <2>1, <2>2, AgentHears
  <2> QED
    BY <1>2, <2>3 DEF AsAgent
<1>3. ASSUME NEW t \in Holders, AsHolder(q, t)
      PROVE  FALSE
  <2>1. PICK g \in bootstrapGrants(t).sub : Matches(g, <<"_KSINBOX", n, r>>)
    BY <1>3, PermitsGrants DEF AsHolder
  <2>2. t \notin {"*", ">"}
    BY NamesApart
  <2> QED
    BY <2>1, <2>2, HolderHears
<1> QED
  BY <1>1, <1>2, <1>3

----------------------------------------------------------------------------
(* The invariant.                                                          *)

\* A server that runs holds the credentials of one deployment, and its minter
\* signs for it (ReadServiceCredential, NewMinter, Open).
OpenedOn(d) ==
  /\ server.enrollment = ServiceIdentity(d, "enrollment-service")
  /\ server.presence = ServiceIdentity(d, "presence-consumer")
  /\ server.minter = [account |-> AccountKey(d), signing |-> SigningKey(d)]

\* What it has minted is for valid names, with the grants of their kind, and a
\* token's expires (Minter.Agent, Minter.Bootstrap).
MintedAgent(u) ==
  \E id \in Named :
    u.jwt = Claims(<<"user", id>>, id, agentGrants(id), server.minter) /\ ~u.expires
MintedHolder(u) ==
  \E t \in Holders :
    u.jwt = Claims(<<"user", t>>, t, bootstrapGrants(t), server.minter) /\ u.expires

\* Every message was sent by the sender of its subject, in time.
SentWell(m) ==
  m.subject \in Subjects /\ m.who = Sender(m.subject) /\ m.from = m.who[1] /\ ~m.late

Credentials ==
  /\ server # None => \E d \in Dep : OpenedOn(d)
  /\ users # {} => server # None
  /\ \A u \in users : MintedAgent(u) \/ MintedHolder(u)
  /\ expired \subseteq Token
Traffic ==
  /\ \E S : sent \in Seq(S)
  /\ \A k \in 1..Len(sent) : SentWell(sent[k])
  /\ msg # None => "n" \in DOMAIN msg /\ msg.n \in 1..Len(sent)
MInv == Credentials /\ Traffic /\ PrincipalsApart

\* Initially nothing runs and nothing was sent.
LEMMA MInvInit == Init => MInv
<1> SUFFICES ASSUME Init PROVE MInv
  OBVIOUS
<1>1. Credentials
  BY DEF Init, Credentials
<1>2. sent \in Seq({}) /\ Len(sent) = 0 /\ msg = None
  BY DEF Init
<1>3. Traffic
  BY <1>2 DEF Traffic
<1> QED
  BY <1>1, <1>3 DEF MInv, PrincipalsApart, Init

\* Every identity on the broker is of one of the three kinds, and not expired.
LEMMA PrincipalKinds ==
  ASSUME Credentials, NEW q \in Principals
  PROVE  /\ \/ \E p \in Services : AsService(q, p)
            \/ \E id \in Named : AsAgent(q, id)
            \/ \E t \in Holders : AsHolder(q, t)
         /\ q.name \notin expired
<1>1. server # None
  BY DEF Principals
<1>2. CASE \E p \in Services : q = ServiceIdentity(Home, p)
  <2>1. PICK p \in Services : q = ServiceIdentity(Home, p)
    BY <1>2
  <2>2. \E d \in Dep : Admits(d, server.enrollment)
    <3>1. PICK d \in Dep : server.enrollment = ServiceIdentity(d, "enrollment-service")
      BY <1>1 DEF Credentials, OpenedOn
    <3>2. Admits(d, server.enrollment)
      BY <3>1 DEF Admits, ServiceIdentity, Claims
    <3> QED
      BY <3>2
  <2>3. Home \in Dep
    BY <2>2 DEF Home
  <2>4. Home # "user"
    BY <2>3, NameAssumption
  <2>5. q.key = <<Home, p>> /\ q.name = p
        /\ q.pub = permissionFor(serviceGrants(p).pub) /\ q.sub = permissionFor(serviceGrants(p).sub)
    BY <2>1 DEF ServiceIdentity, Claims
  <2>6. q.key[1] # "user"
    BY <2>4, <2>5
  <2>7. Who(q) = Service(p)
    BY <2>5, <2>6 DEF Who, Service
  <2>8. AsService(q, p)
    BY <2>5, <2>7 DEF AsService
  <2>9. q.name \notin expired
    BY <2>5, NamesApart DEF Credentials
  <2> QED
    BY <2>8, <2>9
<1>3. CASE \E u \in users : q = u.jwt /\ ~(u.expires /\ u.jwt.name \in expired)
  <2>1. PICK u \in users : q = u.jwt /\ ~(u.expires /\ u.jwt.name \in expired)
    BY <1>3
  <2>2. CASE MintedAgent(u)
    <3>1. PICK id \in Named : u.jwt = Claims(<<"user", id>>, id, agentGrants(id), server.minter)
      BY <2>2 DEF MintedAgent
    <3>2. q.key = <<"user", id>> /\ q.name = id
          /\ q.pub = permissionFor(agentGrants(id).pub) /\ q.sub = permissionFor(agentGrants(id).sub)
      BY <2>1, <3>1 DEF Claims
    <3>3. Who(q) = User(id)
      BY <3>2 DEF Who, User
    <3>4. AsAgent(q, id)
      BY <3>2, <3>3 DEF AsAgent
    <3>5. q.name \notin expired
      BY <3>2, NamesApart DEF Credentials
    <3> QED
      BY <3>4, <3>5
  <2>3. CASE MintedHolder(u)
    <3>1. PICK t \in Holders :
            u.jwt = Claims(<<"user", t>>, t, bootstrapGrants(t), server.minter) /\ u.expires
      BY <2>3 DEF MintedHolder
    <3>2. q.key = <<"user", t>> /\ q.name = t
          /\ q.pub = permissionFor(bootstrapGrants(t).pub) /\ q.sub = permissionFor(bootstrapGrants(t).sub)
      BY <2>1, <3>1 DEF Claims
    <3>3. Who(q) = User(t)
      BY <3>2 DEF Who, User
    <3>4. AsHolder(q, t)
      BY <3>2, <3>3 DEF AsHolder
    <3>5. q.name \notin expired
      BY <2>1, <3>1
    <3> QED
      BY <3>4, <3>5
  <2> QED
    BY <2>1, <2>2, <2>3 DEF Credentials
<1> QED
  BY <1>1, <1>2, <1>3 DEF Principals

\* What is heard by its receiver from its sender, in time, is heard as entitled.
LEMMA HearingEntitled ==
  ASSUME NEW h, h.subject \in Subjects, h.from = Sender(h.subject),
         h.to = Receiver(h.subject), ~h.late
  PROVE  Entitled(h)
<1>1. PICK x, y, z : /\ h.subject[1] = "ks" /\ h.subject[2] = x /\ h.subject[3] = y /\ h.subject[4] = z
                     /\ \/ x = "out" /\ y \in Named /\ z \in {"result", "event", "presence"}
                        \/ x = "job" /\ y \in Named /\ z \in {"cmd", "cancel"}
                        \/ x = "enroll" /\ y \in Token /\ z \in {"request", "reply"}
  BY SubjectTuples
<1>2. CASE x = "job"
  BY <1>1, <1>2 DEF Entitled, Sender, Receiver
<1>3. CASE x = "out"
  <2>1. h.from = User(y)
    BY <1>1, <1>3 DEF Sender
  <2>2. <<z, h.to>> \in {<<"result", Service("result-consumer")>>,
                         <<"event", Service("monitoring-role")>>,
                         <<"presence", Service("presence-consumer")>>}
    <3>1. CASE z = "result"
      BY <1>1, <1>3, <3>1 DEF Receiver
    <3>2. CASE z = "event"
      BY <1>1, <1>3, <3>2 DEF Receiver
    <3>3. CASE z = "presence"
      BY <1>1, <1>3, <3>3 DEF Receiver
    <3> QED
      BY <1>1, <1>3, <3>1, <3>2, <3>3
  <2> QED
    BY <1>1, <1>3, <2>1, <2>2 DEF Entitled
<1>4. CASE x = "enroll"
  <2>1. User(y) # Service("enrollment-service")
    BY DEF User, Service
  <2>2. /\ z = "request" => h.from = User(y) /\ h.to = Service("enrollment-service")
        /\ z = "reply" => h.from = Service("enrollment-service") /\ h.to = User(y)
    BY <1>1, <1>4 DEF Sender, Receiver
  <2>3. {h.from, h.to} = {User(y), Service("enrollment-service")} /\ (h.from = User(y) <=> z = "request")
    BY <1>1, <1>4, <2>1, <2>2
  <2> QED
    BY <1>1, <1>4, <2>3 DEF Entitled
<1> QED
  BY <1>1, <1>2, <1>3, <1>4

\* A credentials file that is read as a service's holds the identity of some
\* deployment's (ReadServiceCredential).
LEMMA ReadIdentity ==
  ASSUME NEW p \in Services, NEW f \in Files, ReadServiceCredential(p, f)
  PROVE  \E d \in Dep : f.jwt = ServiceIdentity(d, p)
<1>1. f.jwt \in Jwts \cup EarlierJwts \cup SelfSignedJwts
  BY DEF Files
<1>2. f.jwt.name = p /\ f.jwt.sub = permissionFor(serviceGrants(p).sub) /\ f.jwt.account # <<>>
  BY DEF ReadServiceCredential
<1>3. CASE f.jwt \in Jwts
  <2>1. PICK d \in Dep, r \in Services : f.jwt = ServiceIdentity(d, r)
    BY <1>3 DEF Jwts
  <2>2. r = p
    BY <1>2, <2>1 DEF ServiceIdentity, Claims
  <2> QED
    BY <2>1, <2>2
<1>4. CASE f.jwt \in EarlierJwts
  <2>1. PICK j \in Jwts : f.jwt = [j EXCEPT !.sub = permissionFor({inboxSubtree(j.name)})]
    BY <1>4 DEF EarlierJwts
  <2>2. PICK d \in Dep, r \in Services : j = ServiceIdentity(d, r)
    BY DEF Jwts
  <2>3. f.jwt.name = r
    BY <2>1, <2>2 DEF ServiceIdentity, Claims
  <2>4. f.jwt = [j EXCEPT !.sub = f.jwt.sub] /\ f.jwt.sub = j.sub
    BY <1>2, <2>1, <2>2, <2>3 DEF ServiceIdentity, Claims
  <2>5. f.jwt = j
    BY <2>2, <2>4 DEF ServiceIdentity, Claims
  <2> QED
    BY <1>2, <2>2, <2>3, <2>5
<1>5. CASE f.jwt \in SelfSignedJwts
  <2>1. PICK j \in Jwts : f.jwt = [j EXCEPT !.account = <<>>, !.issuer = j.account]
    BY <1>5 DEF SelfSignedJwts
  <2>2. PICK d \in Dep, r \in Services : j = ServiceIdentity(d, r)
    BY DEF Jwts
  <2>3. f.jwt.account = <<>>
    BY <2>1, <2>2 DEF ServiceIdentity, Claims
  <2> QED
    BY <1>2, <2>3
<1> QED
  BY <1>1, <1>3, <1>4, <1>5

\* Open keeps the invariant: the accounts and the issuer are of one deployment.
LEMMA OpenKeeps ==
  ASSUME MInv, NEW e \in Files, NEW p \in Files, NEW s \in Seeds, Open(e, p, s)
  PROVE  MInv'
<1>1. PICK d \in Dep : e.jwt = ServiceIdentity(d, "enrollment-service")
  BY ReadIdentity DEF Open, Services
<1>2. PICK c \in Dep : p.jwt = ServiceIdentity(c, "presence-consumer")
  BY ReadIdentity DEF Open, Services
<1>3. e.jwt.account = AccountKey(d) /\ p.jwt.account = AccountKey(c) /\ e.jwt.issuer = SigningKey(d)
  BY <1>1, <1>2 DEF ServiceIdentity, Claims
<1>4. c = d /\ s = SigningKey(d)
  BY <1>3 DEF Open, AccountKey
<1>5. /\ server'.enrollment = e.jwt /\ server'.presence = p.jwt
      /\ server'.minter = [account |-> AccountKey(d), signing |-> SigningKey(d)]
  BY <1>3, <1>4 DEF Open
<1>6. OpenedOn(d)'
  BY <1>1, <1>2, <1>4, <1>5 DEF OpenedOn
<1>7. users' = {} /\ expired' = expired
  BY DEF Open, MInv, Credentials
<1>8. Credentials'
  BY <1>6, <1>7 DEF Credentials, MInv
<1>9. Traffic' /\ PrincipalsApart'
  BY DEF Open, MInv, Traffic, PrincipalsApart
<1> QED
  BY <1>8, <1>9 DEF MInv

\* Minting keeps it, for an agent's grants and for a token's.
LEMMA MintKeeps ==
  ASSUME MInv, NEW n, NEW g, NEW x, Mint(n, g, x),
         \/ n \in AgentId /\ g = agentGrants(n) /\ x = FALSE
         \/ n \in Token /\ g = bootstrapGrants(n) /\ x = TRUE
  PROVE  MInv'
<1>1. /\ users' = users \cup {[jwt |-> Claims(<<"user", n>>, n, g, server.minter), expires |-> x]}
      /\ server # None /\ UNCHANGED <<server, expired, sent, msg, heard>>
      /\ ValidateAgentIdentifier(n)
  BY DEF Mint
<1>2. ASSUME NEW u \in users'
      PROVE  MintedAgent(u)' \/ MintedHolder(u)'
  <2>1. CASE u \in users
    BY <1>1, <2>1 DEF MInv, Credentials, MintedAgent, MintedHolder
  <2>2. CASE u = [jwt |-> Claims(<<"user", n>>, n, g, server.minter), expires |-> x]
    <3>1. u.jwt = Claims(<<"user", n>>, n, g, server'.minter) /\ u.expires = x
      BY <1>1, <2>2
    <3>2. CASE n \in AgentId /\ g = agentGrants(n) /\ x = FALSE
      <4>1. n \in Named
        BY <1>1, <3>2 DEF Named
      <4> QED
        BY <3>1, <3>2, <4>1 DEF MintedAgent
    <3>3. CASE n \in Token /\ g = bootstrapGrants(n) /\ x = TRUE
      <4>1. n \in Holders
        BY <1>1, <3>3 DEF Holders
      <4> QED
        BY <3>1, <3>3, <4>1 DEF MintedHolder
    <3> QED
      BY <3>2, <3>3
  <2> QED
    BY <1>1, <2>1, <2>2
<1>3. Credentials'
  BY <1>1, <1>2 DEF MInv, Credentials, OpenedOn
<1>4. Traffic' /\ PrincipalsApart'
  BY <1>1 DEF MInv, Traffic, PrincipalsApart
<1> QED
  BY <1>3, <1>4 DEF MInv

\* Publishing keeps it: the principal is permitted, so it is the subject's sender.
LEMMA PublishKeeps ==
  ASSUME MInv, NEW i \in Principals, NEW s \in Subjects, NEW b, Publish(i, s, b)
  PROVE  MInv'
<1>1. Permits(i.pub, s) /\ UNCHANGED <<server, users, expired>> /\ heard' = {}
  BY DEF Publish
<1>2. PICK m : /\ sent' = Append(sent, m) /\ msg'.n = Len(sent) + 1 /\ "n" \in DOMAIN msg'
               /\ m.from = i.name /\ m.who = Who(i) /\ m.subject = s /\ m.late = (i.name \in expired)
  BY DEF Publish
<1>3. Who(i) = Sender(s) /\ i.name = Sender(s)[1] /\ i.name \notin expired
  BY <1>1, PrincipalKinds, MaySend DEF MInv
<1>4. SentWell(m)
  BY <1>2, <1>3 DEF SentWell
<1>5. PICK S : sent \in Seq(S)
  BY DEF MInv, Traffic
<1>6. sent \in Seq(S \cup {m}) /\ m \in S \cup {m} /\ Len(sent) \in Nat
  BY <1>5
<1>7. /\ Append(sent, m) \in Seq(S \cup {m}) /\ Len(Append(sent, m)) = Len(sent) + 1
      /\ \A k \in 1..Len(sent) : Append(sent, m)[k] = sent[k]
      /\ Append(sent, m)[Len(sent) + 1] = m
  BY <1>6, AppendProperties
<1>8. \A k \in 1..Len(sent') : SentWell(sent'[k])
  BY <1>2, <1>4, <1>6, <1>7 DEF MInv, Traffic
<1>9. Traffic'
  <2>1. \E T : sent' \in Seq(T)
    BY <1>2, <1>7
  <2>2. "n" \in DOMAIN msg' /\ msg'.n \in 1..Len(sent')
    BY <1>2, <1>6, <1>7
  <2> QED
    BY <1>8, <2>1, <2>2 DEF Traffic, SentWell
<1>10. Credentials'
  BY <1>1 DEF MInv, Credentials, OpenedOn, MintedAgent, MintedHolder
<1> QED
  BY <1>1, <1>9, <1>10 DEF MInv, PrincipalsApart

\* Delivery keeps it: a hearer is permitted, so it is the subject's receiver, or the
\* owner of the inbox.
LEMMA DeliverKeeps ==
  ASSUME MInv, Deliver
  PROVE  MInv'
<1> DEFINE m == sent[msg.n]
           inbox == <<"_KSINBOX", m.from, "ack">>
<1>1. msg # None /\ msg' = None /\ UNCHANGED <<server, users, expired, sent>>
  BY DEF Deliver
<1>2. SentWell(m)
  BY <1>1 DEF MInv, Traffic
<1>3. heard' = {Hearing(q, m.subject, m) : q \in {r \in Principals : Hears(r, m.subject)}} \cup
               {Hearing(q, inbox, m) : q \in {r \in Principals : InStream(m.subject) /\ Permits(r.sub, inbox)}}
  BY DEF Deliver
<1>4. m.subject \in Subjects /\ m.who = Sender(m.subject) /\ m.from = m.who[1] /\ ~m.late
  BY <1>2 DEF SentWell
<1> HIDE DEF m
<1>5. ASSUME NEW q \in Principals, Hears(q, m.subject)
      PROVE  Entitled(Hearing(q, m.subject, m))
  <2>1. Who(q) = Receiver(m.subject) /\ q.name \notin expired
    BY <1>4, <1>5, PrincipalKinds, MayHear DEF MInv
  <2> DEFINE h == Hearing(q, m.subject, m)
  <2>2. h.subject = m.subject /\ h.from = m.who /\ h.to = Who(q) /\ h.late = (m.late \/ q.name \in expired)
    BY DEF Hearing
  <2> HIDE DEF h
  <2>3. Entitled(h)
    BY <1>4, <2>1, <2>2, HearingEntitled
  <2> QED
    BY <2>3 DEF h
<1>6. ASSUME NEW q \in Principals, InStream(m.subject), Permits(q.sub, inbox)
      PROVE  Entitled(Hearing(q, inbox, m))
  <2>1. (m.from \in Services /\ Who(q) = Service(m.from)) \/ (m.from \in Named /\ Who(q) = User(m.from))
    BY <1>6, PrincipalKinds, OwnInbox DEF MInv
  <2>2. \/ m.who = Service("command-publisher") /\ m.from = "command-publisher"
        \/ m.who = User(m.from) /\ m.from \in Named
    <3>1. PICK x, y, z : /\ m.subject[2] = x /\ m.subject[3] = y /\ m.subject[4] = z
                         /\ \/ x = "out" /\ y \in Named /\ z \in {"result", "event", "presence"}
                            \/ x = "job" /\ y \in Named /\ z \in {"cmd", "cancel"}
                            \/ x = "enroll" /\ y \in Token /\ z \in {"request", "reply"}
      BY <1>4, SubjectTuples
    <3>2. CASE x = "job"
      BY <1>4, <3>1, <3>2 DEF Sender, Service
    <3>3. CASE x = "out"
      BY <1>4, <3>1, <3>3 DEF Sender, User
    <3>4. x # "enroll"
      BY <1>6, <3>1 DEF InStream
    <3> QED
      BY <3>1, <3>2, <3>3, <3>4
  <2>3. Who(q) = m.who
    BY <2>1, <2>2, NamesApart DEF Services
  <2> DEFINE h == Hearing(q, inbox, m)
  <2>4. h.subject = inbox /\ h.from = m.who /\ h.to = Who(q)
    BY DEF Hearing
  <2>5. inbox[1] = "_KSINBOX"
    OBVIOUS
  <2> HIDE DEF h, inbox
  <2>6. Entitled(h)
    BY <2>3, <2>4, <2>5 DEF Entitled
  <2> QED
    BY <2>6 DEF h
<1>7. \A h \in heard' : Entitled(h)
  BY <1>3, <1>5, <1>6
<1>8. Credentials'
  BY <1>1 DEF MInv, Credentials, OpenedOn, MintedAgent, MintedHolder
<1>9. Traffic'
  BY <1>1 DEF MInv, Traffic
<1> QED
  BY <1>7, <1>8, <1>9 DEF MInv, PrincipalsApart

\* Every step keeps the invariant.
LEMMA MInvStep == MInv /\ [Next]_vars => MInv'
<1> SUFFICES ASSUME MInv, [Next]_vars PROVE MInv'
  OBVIOUS
<1>1. ASSUME NEW e \in Files, NEW p \in Files, NEW s \in Seeds, Open(e, p, s)
      PROVE  MInv'
  BY <1>1, OpenKeeps
<1>2. ASSUME NEW id \in AgentId, MintAgent(id)
      PROVE  MInv'
  BY <1>2, MintKeeps DEF MintAgent
<1>3. ASSUME NEW t \in Token, MintBootstrap(t)
      PROVE  MInv'
  BY <1>3, MintKeeps DEF MintBootstrap
<1>4. ASSUME NEW t \in Token, Expire(t)
      PROVE  MInv'
  <2>1. expired' \subseteq Token /\ UNCHANGED <<server, users, sent, msg, heard>>
    BY <1>4 DEF Expire, MInv, Credentials
  <2>2. Credentials'
    BY <2>1 DEF MInv, Credentials, OpenedOn, MintedAgent, MintedHolder
  <2> QED
    BY <2>1, <2>2 DEF MInv, Traffic, PrincipalsApart
<1>5. ASSUME NEW i \in Principals, NEW s \in Subjects, NEW b \in Plain, Publish(i, s, b)
      PROVE  MInv'
  BY <1>5, PublishKeeps
<1>6. CASE Alter \/ Lost
  <2>1. /\ msg # None /\ UNCHANGED <<server, users, expired, sent, heard>>
        /\ msg' = None \/ (DOMAIN msg' = DOMAIN msg /\ msg'.n = msg.n)
    BY <1>6 DEF Alter, Lost, MInv, Traffic
  <2>2. Credentials'
    BY <2>1 DEF MInv, Credentials, OpenedOn, MintedAgent, MintedHolder
  <2> QED
    BY <2>1, <2>2 DEF MInv, Traffic, PrincipalsApart
<1>7. CASE Deliver
  BY <1>7, DeliverKeeps
<1>8. CASE UNCHANGED vars
  <2>1. Credentials'
    BY <1>8 DEF vars, MInv, Credentials, OpenedOn, MintedAgent, MintedHolder
  <2> QED
    BY <1>8, <2>1 DEF vars, MInv, Traffic, PrincipalsApart
<1> QED
  BY <1>1, <1>2, <1>3, <1>4, <1>5, <1>6, <1>7, <1>8 DEF Next

\* In every reachable state a server holds one deployment's credentials, what it
\* minted is granted by kind, and what was sent was sent by its subject's sender.
THEOREM MessagingInvariance == Spec => []MInv
BY MInvInit, MInvStep, PTL DEF Spec

\* ADR-0004 sections 4 and 6: for any deployments, identifiers, tokens and messages,
\* whoever hears a message was meant to, and whoever sent it was entitled to
\* (serviceGrants, agentGrants, bootstrapGrants, permissionFor, Minter, Open).
THEOREM PrincipalsApartAlways == Spec => []PrincipalsApart
<1>1. MInv => PrincipalsApart
  BY DEF MInv
<1> QED
  BY <1>1, MessagingInvariance, PTL

\* What a single grant matches is permitted.
LEMMA PermitsOne ==
  ASSUME NEW g, NEW s, Matches(g, s)
  PROVE  Permits(permissionFor({g}), s)
<1>1. permissionFor({g}) = [allow |-> {g}, deny |-> {}]
  BY DEF permissionFor
<1> QED
  BY <1>1 DEF Permits

\* The grants of the server's two services reach every token and every agent.
LEMMA ServerReaches ==
  ASSUME NEW d, NEW n
  PROVE  /\ Permits(ServiceIdentity(d, "enrollment-service").sub, tokenEnrollment(n, "request"))
         /\ Permits(ServiceIdentity(d, "enrollment-service").pub, tokenEnrollment(n, "reply"))
         /\ Permits(ServiceIdentity(d, "presence-consumer").sub, agentSubject(n, "presence"))
<1>1. /\ ServiceIdentity(d, "enrollment-service").sub = permissionFor({<<"ks", "enroll", "*", "request">>})
      /\ ServiceIdentity(d, "enrollment-service").pub = permissionFor({<<"ks", "enroll", "*", "reply">>})
      /\ ServiceIdentity(d, "presence-consumer").sub = permissionFor({<<"ks", "out", "*", "presence">>})
  BY DEF ServiceIdentity, Claims, serviceGrants, tokenEnrollment, agentSubject
<1>2. Matches(<<"ks", "enroll", "*", "request">>, <<"ks", "enroll", n, "request">>)
  BY MatchesFour
<1>3. Matches(<<"ks", "enroll", "*", "reply">>, <<"ks", "enroll", n, "reply">>)
  BY MatchesFour
<1>4. Matches(<<"ks", "out", "*", "presence">>, <<"ks", "out", n, "presence">>)
  BY MatchesFour
<1>5. Permits(ServiceIdentity(d, "enrollment-service").sub, tokenEnrollment(n, "request"))
  BY <1>1, <1>2, PermitsOne DEF tokenEnrollment
<1>6. Permits(ServiceIdentity(d, "enrollment-service").pub, tokenEnrollment(n, "reply"))
  BY <1>1, <1>3, PermitsOne DEF tokenEnrollment
<1>7. Permits(ServiceIdentity(d, "presence-consumer").sub, agentSubject(n, "presence"))
  BY <1>1, <1>4, PermitsOne DEF agentSubject
<1> QED
  BY <1>5, <1>6, <1>7

\* ROLE-1 and C05 section 3.3: for any files, a server that starts can hear and
\* answer what it serves, and its broker admits what it mints
\* (ReadServiceCredential, NewMinter, Open, Minter).
THEOREM ServesAsConfiguredAlways == Spec => []ServesAsConfigured
<1>1. Credentials => ServesAsConfigured
  <2> SUFFICES ASSUME Credentials, server # None PROVE ServesAsConfigured
    BY DEF ServesAsConfigured
  <2>1. PICK d \in Dep : OpenedOn(d)
    BY DEF Credentials
  <2>2. Admits(d, server.enrollment) /\ Admits(d, server.presence)
    BY <2>1 DEF OpenedOn, Admits, ServiceIdentity, Claims
  <2>3. server.minter.account = AccountKey(d) /\ server.minter.signing = SigningKey(d)
    BY <2>1 DEF OpenedOn
  <2>4. \A u \in users : Admits(d, u.jwt)
    <3>1. ASSUME NEW u \in users
          PROVE  \E k, n, g : u.jwt = Claims(k, n, g, server.minter)
      BY DEF Credentials, MintedAgent, MintedHolder
    <3>2. ASSUME NEW u \in users
          PROVE  u.jwt.account = server.minter.account /\ u.jwt.issuer = server.minter.signing
      <4>1. PICK k, n, g : u.jwt = Claims(k, n, g, server.minter)
        BY <3>1
      <4> QED
        BY <4>1 DEF Claims
    <3> QED
      BY <2>3, <3>2 DEF Admits
  <2>5. \A t \in Token : /\ Permits(server.enrollment.sub, tokenEnrollment(t, "request"))
                         /\ Permits(server.enrollment.pub, tokenEnrollment(t, "reply"))
    BY <2>1, ServerReaches DEF OpenedOn
  <2>6. \A a \in Named : Permits(server.presence.sub, agentSubject(a, "presence"))
    BY <2>1, ServerReaches DEF OpenedOn
  <2> QED
    BY <2>2, <2>4, <2>5, <2>6 DEF ServesAsConfigured
<1> QED
  BY <1>1, MessagingInvariance, PTL DEF MInv

----------------------------------------------------------------------------
(* One framed field.                                                       *)

LEMMA PartOf ==
  ASSUME NEW q \in Seq(Nat), NEW m \in Nat, NEW k \in Nat, 1 <= m, m <= k + 1, k <= Len(q)
  PROVE  /\ SubSeq(q, m, k) \in Seq(Nat) /\ Len(SubSeq(q, m, k)) = k - m + 1
         /\ \A i \in 1..(k - m + 1) : SubSeq(q, m, k)[i] = q[m + i - 1]
<1>1. m \in Int /\ k \in Int /\ Len(q) \in Nat
  BY LenProperties
<1>2. \A j \in m..k : q[j] \in Nat
  BY <1>1, ElementOfSeq
<1>3. /\ SubSeq(q, m, k) \in Seq(Nat) /\ Len(SubSeq(q, m, k)) = IF m <= k THEN k - m + 1 ELSE 0
      /\ \A i \in 1..(k - m + 1) : SubSeq(q, m, k)[i] = q[m + i - 1]
  BY <1>1, <1>2, SubSeqProperties
<1> QED
  BY <1>1, <1>3

\* The field and the rest, of bytes that hold a field of n bytes.
LEMMA FieldOf ==
  ASSUME NEW q \in Seq(Nat), NEW n \in Nat, n + 1 <= Len(q)
  PROVE  /\ SubSeq(q, 2, n + 1) \in Seq(Nat) /\ Len(SubSeq(q, 2, n + 1)) = n
         /\ \A i \in 1..n : SubSeq(q, 2, n + 1)[i] = q[1 + i]
<1>1. PICK m \in Nat, k \in Nat : m = 2 /\ k = n + 1
  OBVIOUS
<1>2. 1 <= m /\ m <= k + 1 /\ k <= Len(q)
  BY <1>1
<1>3. /\ SubSeq(q, m, k) \in Seq(Nat) /\ Len(SubSeq(q, m, k)) = k - m + 1
      /\ \A i \in 1..(k - m + 1) : SubSeq(q, m, k)[i] = q[m + i - 1]
  BY <1>2, PartOf
<1>4. k - m + 1 = n /\ \A i \in 1..n : m + i - 1 = 1 + i
  BY <1>1
<1> QED
  BY <1>1, <1>3, <1>4

LEMMA RestOf ==
  ASSUME NEW q \in Seq(Nat), NEW n \in Nat, n + 1 <= Len(q)
  PROVE  /\ SubSeq(q, n + 2, Len(q)) \in Seq(Nat) /\ Len(SubSeq(q, n + 2, Len(q))) = Len(q) - n - 1
         /\ \A i \in 1..(Len(q) - n - 1) : SubSeq(q, n + 2, Len(q))[i] = q[1 + n + i]
<1>0. Len(q) \in Nat
  BY LenProperties
<1>1. PICK m \in Nat, k \in Nat : m = n + 2 /\ k = Len(q)
  BY <1>0
<1>2. 1 <= m /\ m <= k + 1 /\ k <= Len(q)
  BY <1>1
<1>3. /\ SubSeq(q, m, k) \in Seq(Nat) /\ Len(SubSeq(q, m, k)) = k - m + 1
      /\ \A i \in 1..(k - m + 1) : SubSeq(q, m, k)[i] = q[m + i - 1]
  BY <1>2, PartOf
<1>4. k - m + 1 = Len(q) - n - 1 /\ \A i \in 1..(Len(q) - n - 1) : m + i - 1 = 1 + n + i
  BY <1>1
<1> QED
  BY <1>1, <1>3, <1>4

\* A framed field: its length, then its bytes, then the rest.
LEMMA FramedBytes ==
  ASSUME NEW v \in Seq(Nat), NEW r \in Seq(Nat)
  PROVE  /\ Framed(v, r) \in Seq(Nat) /\ Len(Framed(v, r)) = 1 + Len(v) + Len(r)
         /\ Framed(v, r)[1] = Len(v)
         /\ \A i \in 1..Len(v) : Framed(v, r)[1 + i] = v[i]
         /\ \A i \in 1..Len(r) : Framed(v, r)[1 + Len(v) + i] = r[i]
<1> DEFINE p == <<Len(v)>>
           h == p \o v
           t == h \o r
<1>1. Len(v) \in Nat /\ Len(r) \in Nat
  BY LenProperties
<1>2. p \in Seq(Nat) /\ Len(p) = 1 /\ p[1] = Len(v)
  BY <1>1
<1> HIDE DEF p
<1>3. /\ h \in Seq(Nat) /\ Len(h) = Len(p) + Len(v)
      /\ \A i \in 1..(Len(p) + Len(v)) : h[i] = IF i <= Len(p) THEN p[i] ELSE v[i - Len(p)]
  BY <1>2, ConcatProperties, Zenon
<1>4. Len(h) = 1 + Len(v) /\ h[1] = Len(v) /\ \A i \in 1..Len(v) : h[1 + i] = v[i]
  BY <1>1, <1>2, <1>3
<1> HIDE DEF h
<1>a. h \in Seq(Nat)
  BY <1>3
<1>5. /\ t \in Seq(Nat) /\ Len(t) = Len(h) + Len(r)
      /\ \A i \in 1..(Len(h) + Len(r)) : t[i] = IF i <= Len(h) THEN h[i] ELSE r[i - Len(h)]
  BY <1>a, ConcatProperties, Zenon
<1>6. Len(t) = 1 + Len(v) + Len(r) /\ t[1] = Len(v)
  BY <1>1, <1>4, <1>5
<1>7. \A i \in 1..Len(v) : t[1 + i] = v[i]
  BY <1>1, <1>4, <1>5
<1>8. \A i \in 1..Len(r) : t[1 + Len(v) + i] = r[i]
  BY <1>1, <1>4, <1>5
<1>9. t = Framed(v, r)
  BY DEF Framed, t, h, p
<1> QED
  BY <1>5, <1>6, <1>7, <1>8, <1>9

\* Reading it back gives the field and the rest.
LEMMA FramedReads ==
  ASSUME NEW v \in Seq(Nat), NEW r \in Seq(Nat)
  PROVE  /\ SubSeq(Framed(v, r), 2, Len(v) + 1) = v
         /\ SubSeq(Framed(v, r), Len(v) + 2, Len(Framed(v, r))) = r
<1> DEFINE t == Framed(v, r)
           a == SubSeq(t, 2, Len(v) + 1)
           b == SubSeq(t, Len(v) + 2, Len(t))
<1>1. Len(v) \in Nat /\ Len(r) \in Nat
  BY LenProperties
<1>2. /\ t \in Seq(Nat) /\ Len(t) = 1 + Len(v) + Len(r)
      /\ \A i \in 1..Len(v) : t[1 + i] = v[i]
      /\ \A i \in 1..Len(r) : t[1 + Len(v) + i] = r[i]
  BY FramedBytes
<1> HIDE DEF t
<1>3. Len(v) + 1 <= Len(t) /\ Len(t) - Len(v) - 1 = Len(r)
  BY <1>1, <1>2
<1>4. a \in Seq(Nat) /\ Len(a) = Len(v) /\ \A i \in 1..Len(v) : a[i] = t[1 + i]
  BY <1>1, <1>2, <1>3, FieldOf
<1>5. b \in Seq(Nat) /\ Len(b) = Len(r) /\ \A i \in 1..Len(r) : b[i] = t[1 + Len(v) + i]
  <2>1. /\ b \in Seq(Nat) /\ Len(b) = Len(t) - Len(v) - 1
        /\ \A i \in 1..(Len(t) - Len(v) - 1) : b[i] = t[1 + Len(v) + i]
    BY <1>1, <1>2, <1>3, RestOf
  <2> HIDE DEF b
  <2> QED
    BY <1>3, <2>1
<1> HIDE DEF a, b
<1>6. \A i \in 1..Len(a) : a[i] = v[i]
  BY <1>2, <1>4
<1>7. \A i \in 1..Len(b) : b[i] = r[i]
  BY <1>2, <1>5
<1>8. a = v
  BY <1>4, <1>6, SeqEqual
<1>9. b = r
  BY <1>5, <1>7, SeqEqual
<1> QED
  BY <1>8, <1>9 DEF a, b, t

\* Bytes that begin with a length and go on for that long are a framed field.
LEMMA BytesFramed ==
  ASSUME NEW q \in Seq(Nat), 1 <= Len(q), q[1] <= Len(q) - 1
  PROVE  /\ SubSeq(q, 2, q[1] + 1) \in Seq(Nat) /\ Len(SubSeq(q, 2, q[1] + 1)) = q[1]
         /\ SubSeq(q, q[1] + 2, Len(q)) \in Seq(Nat)
         /\ q = Framed(SubSeq(q, 2, q[1] + 1), SubSeq(q, q[1] + 2, Len(q)))
<1> DEFINE n == q[1]
           v == SubSeq(q, 2, n + 1)
           r == SubSeq(q, n + 2, Len(q))
           t == Framed(v, r)
<1>1. Len(q) \in Nat
  BY LenProperties
<1>2. 1 \in 1..Len(q)
  BY <1>1
<1>3. n \in Nat
  BY <1>2, ElementOfSeq
<1> HIDE DEF n
<1>4. n + 1 <= Len(q)
  BY <1>1, <1>3 DEF n
<1>5. v \in Seq(Nat) /\ Len(v) = n /\ \A i \in 1..n : v[i] = q[1 + i]
  BY <1>3, <1>4, FieldOf
<1>6. r \in Seq(Nat) /\ Len(r) = Len(q) - n - 1 /\ \A i \in 1..(Len(q) - n - 1) : r[i] = q[1 + n + i]
  BY <1>3, <1>4, RestOf
<1> HIDE DEF v, r
<1>7. Len(r) \in Nat
  BY <1>1, <1>3, <1>4, <1>6
<1>8. /\ t \in Seq(Nat) /\ Len(t) = 1 + Len(v) + Len(r) /\ t[1] = Len(v)
      /\ \A i \in 1..Len(v) : t[1 + i] = v[i]
      /\ \A i \in 1..Len(r) : t[1 + Len(v) + i] = r[i]
  BY <1>5, <1>6, FramedBytes
<1> HIDE DEF t
<1>9. Len(t) = Len(q)
  BY <1>1, <1>3, <1>5, <1>6, <1>8
<1>10. ASSUME NEW i \in 1..Len(t) PROVE t[i] = q[i]
  <2>1. CASE i = 1
    BY <1>5, <1>8, <2>1 DEF n
  <2>2. CASE 2 <= i /\ i <= n + 1
    <3>1. i - 1 \in 1..n /\ 1 + (i - 1) = i
      BY <1>3, <2>2
    <3>2. t[1 + (i - 1)] = v[i - 1] /\ v[i - 1] = q[1 + (i - 1)]
      BY <1>5, <1>8, <3>1, Zenon
    <3> QED
      BY <3>1, <3>2
  <2>3. CASE n + 2 <= i
    <3>1. i - n - 1 \in 1..(Len(q) - n - 1) /\ 1 + n + (i - n - 1) = i
      BY <1>1, <1>3, <1>9, <2>3
    <3>2. t[1 + n + (i - n - 1)] = r[i - n - 1] /\ r[i - n - 1] = q[1 + n + (i - n - 1)]
      BY <1>5, <1>6, <1>8, <3>1, Zenon
    <3> QED
      BY <3>1, <3>2
  <2> QED
    BY <1>1, <1>3, <1>9, <2>1, <2>2, <2>3
<1>11. t = q
  BY <1>8, <1>9, <1>10, SeqEqual
<1> QED
  BY <1>5, <1>6, <1>11 DEF v, r, t, n

----------------------------------------------------------------------------
(* One step of the parse, and three.                                       *)

Parse(e, b, r, f) == [err |-> e, budget |-> b, rest |-> r, fields |-> f]
Parsing(b, r, f) == Parse("nil", b, r, f)

\* A parse refused stays refused.
LEMMA ParseRefused ==
  ASSUME NEW x, NEW b, NEW r, NEW f, NEW e
  PROVE  [Parse(x, b, r, f) EXCEPT !.err = e] = Parse(e, b, r, f)
BY DEF Parse

LEMMA TakeRefused ==
  ASSUME NEW e \in Refusal, NEW b, NEW r, NEW f
  PROVE  TakeField(Parse(e, b, r, f)) = Parse(e, b, r, f) /\ Take3(Parse(e, b, r, f)) = Parse(e, b, r, f)
<1>1. TakeField(Parse(e, b, r, f)) = Parse(e, b, r, f)
  <2>1. Parse(e, b, r, f).err # "nil"
    BY DEF Parse, Refusal
  <2> QED
    BY <2>1, Zenon DEF TakeField
<1> QED
  BY <1>1, Zenon DEF Take3

\* TakeField on a parse without an error.
LEMMA TakeCases ==
  ASSUME NEW b, NEW r, NEW f
  PROVE  TakeField(Parsing(b, r, f)) =
           IF Len(r) < PrefixBytes THEN Parse("malformed envelope", b, r, f)
           ELSE IF OverBudget(r[1], b) THEN Parse("payload too large", b, r, f)
           ELSE IF Len(r) - PrefixBytes < r[1] THEN Parse("malformed envelope", b, r, f)
           ELSE Parsing(b - PrefixBytes - r[1], SubSeq(r, r[1] + 2, Len(r)),
                      Append(f, SubSeq(r, 2, r[1] + 1)))
<1> DEFINE s == Parsing(b, r, f)
<1>1. s.err = "nil" /\ s.budget = b /\ s.rest = r /\ s.fields = f
  BY DEF Parse, Parsing
<1>2. \A e : [s EXCEPT !.err = e] = Parse(e, b, r, f)
  BY ParseRefused DEF Parsing
<1> HIDE DEF s
<1>3. TakeField(s) =
           IF Len(r) < PrefixBytes THEN Parse("malformed envelope", b, r, f)
           ELSE IF OverBudget(r[1], b) THEN Parse("payload too large", b, r, f)
           ELSE IF Len(r) - PrefixBytes < r[1] THEN Parse("malformed envelope", b, r, f)
           ELSE Parsing(b - PrefixBytes - r[1], SubSeq(r, r[1] + 2, Len(r)),
                      Append(f, SubSeq(r, 2, r[1] + 1)))
  BY <1>1, <1>2, Zenon DEF TakeField, Parse, Parsing
<1> QED
  BY <1>3 DEF s

\* What a step makes of a parse: it is refused as it stands, with a known error; or
\* the rest began with a whole field, which is taken and charged to the budget.
Refused(s, b, r, f) == \E e \in Refusal : s = Parse(e, b, r, f)
Taken(s, b, r, f) ==
  \E c \in Nat, t \in Seq(Nat), v \in Seq(Nat) :
    /\ s = Parsing(c, t, Append(f, v))
    /\ b = c + PrefixBytes + Len(v)
    /\ r = Framed(v, t)

\* Split's loop body: a field is refused with a known error, and leaves the
\* parse as it was but for that, or it is taken whole, and the budget pays for its
\* prefix and for each of its bytes.  No length, however wrong, is taken past the
\* budget or past the bytes that are there.
THEOREM TakeFieldCharges ==
  ASSUME NEW b \in Nat, NEW r \in Seq(Nat), NEW f
  PROVE  \/ Refused(TakeField(Parsing(b, r, f)), b, r, f)
         \/ Taken(TakeField(Parsing(b, r, f)), b, r, f)
<1> DEFINE n == r[1]
           t == SubSeq(r, n + 2, Len(r))
           v == SubSeq(r, 2, n + 1)
           s == TakeField(Parsing(b, r, f))
<1>1. "malformed envelope" \in Refusal /\ "payload too large" \in Refusal
  BY DEF Refusal
<1>2. s = IF Len(r) < PrefixBytes THEN Parse("malformed envelope", b, r, f)
          ELSE IF OverBudget(n, b) THEN Parse("payload too large", b, r, f)
          ELSE IF Len(r) - PrefixBytes < n THEN Parse("malformed envelope", b, r, f)
          ELSE Parsing(b - PrefixBytes - n, t, Append(f, v))
  BY TakeCases, Zenon
<1> HIDE DEF s
<1>3. CASE Len(r) < PrefixBytes \/ OverBudget(n, b) \/ Len(r) - PrefixBytes < n
  <2>1. s = Parse("malformed envelope", b, r, f) \/ s = Parse("payload too large", b, r, f)
    BY <1>2, <1>3, Zenon
  <2> QED
    BY <1>1, <2>1 DEF s, Refused
<1>4. CASE ~(Len(r) < PrefixBytes) /\ ~OverBudget(n, b) /\ ~(Len(r) - PrefixBytes < n)
  <2>1. s = Parsing(b - PrefixBytes - n, t, Append(f, v))
    BY <1>2, <1>4, Zenon
  <2>2. Len(r) \in Nat
    BY LenProperties
  <2>3. 1 <= Len(r) /\ 1 \in 1..Len(r)
    BY <1>4, <2>2 DEF PrefixBytes
  <2>4. n \in Nat
    BY <2>3, ElementOfSeq
  <2>5. n <= Len(r) - 1 /\ b - PrefixBytes - n \in Nat
    <3> HIDE DEF n
    <3> QED
      BY <1>4, <2>2, <2>4 DEF PrefixBytes, OverBudget
  <2>6. v \in Seq(Nat) /\ Len(v) = n /\ t \in Seq(Nat) /\ r = Framed(v, t)
    BY <2>3, <2>5, BytesFramed
  <2> HIDE DEF n, v, t
  <2>7. b = (b - PrefixBytes - n) + PrefixBytes + Len(v)
    BY <2>4, <2>6 DEF PrefixBytes
  <2> QED
    BY <2>1, <2>5, <2>6, <2>7 DEF s, Taken
<1> QED
  BY <1>3, <1>4

\* On bytes that are framed, the field is taken if the budget can pay for it, and
\* otherwise they are too large.
TooLarge(s) == \E b, r, f : s = Parse("payload too large", b, r, f)

LEMMA TooLargeStays ==
  ASSUME NEW s, TooLarge(s)
  PROVE  TakeField(s) = s /\ Take3(s) = s
<1>1. PICK b, r, f : s = Parse("payload too large", b, r, f)
  BY DEF TooLarge
<1>2. "payload too large" \in Refusal
  BY DEF Refusal
<1> QED
  BY <1>1, <1>2, TakeRefused, Zenon

LEMMA TakeFramed ==
  ASSUME NEW b \in Nat, NEW v \in Seq(Nat), NEW t \in Seq(Nat), NEW f
  PROVE  /\ PrefixBytes + Len(v) <= b =>
              TakeField(Parsing(b, Framed(v, t), f)) = Parsing(b - PrefixBytes - Len(v), t, Append(f, v))
         /\ ~(PrefixBytes + Len(v) <= b) => TooLarge(TakeField(Parsing(b, Framed(v, t), f)))
<1> DEFINE r == Framed(v, t)
<1>1. r \in Seq(Nat) /\ Len(r) = 1 + Len(v) + Len(t) /\ r[1] = Len(v)
  BY FramedBytes
<1>2. SubSeq(r, 2, Len(v) + 1) = v /\ SubSeq(r, Len(v) + 2, Len(r)) = t
  BY FramedReads
<1>3. Len(v) \in Nat /\ Len(t) \in Nat
  BY LenProperties
<1> HIDE DEF r
<1>4. TakeField(Parsing(b, r, f)) =
          IF Len(r) < PrefixBytes THEN Parse("malformed envelope", b, r, f)
          ELSE IF OverBudget(Len(v), b) THEN Parse("payload too large", b, r, f)
          ELSE IF Len(r) - PrefixBytes < Len(v) THEN Parse("malformed envelope", b, r, f)
          ELSE Parsing(b - PrefixBytes - Len(v), t, Append(f, v))
  BY <1>1, <1>2, TakeCases, Zenon
<1>5. ~(Len(r) < PrefixBytes) /\ ~(Len(r) - PrefixBytes < Len(v))
  BY <1>1, <1>3 DEF PrefixBytes
<1>6. OverBudget(Len(v), b) <=> ~(PrefixBytes + Len(v) <= b)
  BY <1>3 DEF OverBudget, PrefixBytes
<1>7. /\ PrefixBytes + Len(v) <= b =>
           TakeField(Parsing(b, r, f)) = Parsing(b - PrefixBytes - Len(v), t, Append(f, v))
      /\ ~(PrefixBytes + Len(v) <= b) => TakeField(Parsing(b, r, f)) = Parse("payload too large", b, r, f)
  BY <1>4, <1>5, <1>6, Zenon
<1>8. TooLarge(Parse("payload too large", b, r, f))
  BY DEF TooLarge
<1> QED
  BY <1>7, <1>8, Zenon DEF r

Append3(f, u, v, w) == Append(Append(Append(f, u), v), w)

Extended3(n, f, u, v, w) ==
  /\ n \in Seq(Seq(Nat)) /\ Len(n) = Len(f) + 3
  /\ \A i \in 1..Len(f) : n[i] = f[i]
  /\ n[Len(f) + 1] = u /\ n[Len(f) + 2] = v /\ n[Len(f) + 3] = w

LEMMA AppendThree ==
  ASSUME NEW f \in Seq(Seq(Nat)), NEW u \in Seq(Nat), NEW v \in Seq(Nat), NEW w \in Seq(Nat)
  PROVE  Extended3(Append3(f, u, v, w), f, u, v, w)
<1> DEFINE g == Append(f, u)
           h == Append(g, v)
           k == Append(h, w)
<1>1. Len(f) \in Nat
  BY LenProperties
<1>2. g \in Seq(Seq(Nat)) /\ Len(g) = Len(f) + 1 /\ (\A i \in 1..Len(f) : g[i] = f[i]) /\ g[Len(f) + 1] = u
  BY AppendProperties
<1> HIDE DEF g
<1>3. h \in Seq(Seq(Nat)) /\ Len(h) = Len(g) + 1 /\ (\A i \in 1..Len(g) : h[i] = g[i]) /\ h[Len(g) + 1] = v
  BY <1>2, AppendProperties
<1> HIDE DEF h
<1>4. k \in Seq(Seq(Nat)) /\ Len(k) = Len(h) + 1 /\ (\A i \in 1..Len(h) : k[i] = h[i]) /\ k[Len(h) + 1] = w
  BY <1>3, AppendProperties
<1> HIDE DEF k
<1>5. Len(g) = Len(f) + 1 /\ Len(h) = Len(f) + 2 /\ Len(k) = Len(f) + 3
  BY <1>1, <1>2, <1>3, <1>4
<1>6. \A i \in 1..Len(f) : k[i] = f[i]
  BY <1>1, <1>2, <1>3, <1>4, <1>5
<1>7. k[Len(f) + 1] = u
  <2>1. Len(f) + 1 \in 1..Len(g) /\ Len(f) + 1 \in 1..Len(h)
    BY <1>1, <1>5
  <2> QED
    BY <1>2, <1>3, <1>4, <2>1
<1>8. k[Len(f) + 2] = v
  <2>1. Len(f) + 2 \in 1..Len(h) /\ Len(g) + 1 = Len(f) + 2
    BY <1>1, <1>5
  <2> QED
    BY <1>3, <1>4, <2>1
<1>9. k[Len(f) + 3] = w
  <2>1. Len(h) + 1 = Len(f) + 3
    BY <1>1, <1>5
  <2> QED
    BY <1>4, <2>1
<1> QED
  BY <1>4, <1>5, <1>6, <1>7, <1>8, <1>9 DEF Append3, Extended3, g, h, k

\* Three fields are refused, or framed and taken.
Refused3(s) == \E e \in Refusal : \E c, t, g : s = Parse(e, c, t, g)
Taken3(s, r, f) ==
  \E c \in Nat, t \in Seq(Nat), u \in Seq(Nat), v \in Seq(Nat), w \in Seq(Nat) :
    s = Parsing(c, t, Append3(f, u, v, w)) /\ r = Framed(u, Framed(v, Framed(w, t)))

LEMMA TakeThree ==
  ASSUME NEW b \in Nat, NEW r \in Seq(Nat), NEW f
  PROVE  Refused3(Take3(Parsing(b, r, f))) \/ Taken3(Take3(Parsing(b, r, f)), r, f)
<1> DEFINE s == TakeField(Parsing(b, r, f))
<1>1. Take3(Parsing(b, r, f)) = TakeField(TakeField(s))
  BY DEF Take3
<1>2. ASSUME NEW x, NEW c, NEW t, NEW g, Refused(x, c, t, g)
      PROVE  TakeField(x) = x /\ Refused3(x)
  <2>1. PICK e \in Refusal : x = Parse(e, c, t, g)
    BY <1>2 DEF Refused
  <2>2. TakeField(x) = x
    BY <2>1, TakeRefused
  <2>3. Refused3(x)
    BY <2>1 DEF Refused3
  <2> QED
    BY <2>2, <2>3
<1>3. CASE Refused(s, b, r, f)
  BY <1>1, <1>2, <1>3, Zenon
<1>4. CASE Taken(s, b, r, f)
  <2>1. PICK c \in Nat, t \in Seq(Nat), u \in Seq(Nat) : s = Parsing(c, t, Append(f, u)) /\ r = Framed(u, t)
    BY <1>4 DEF Taken
  <2> DEFINE g == Append(f, u)
             x == TakeField(Parsing(c, t, g))
  <2>2. CASE Refused(x, c, t, g)
    BY <1>1, <1>2, <2>1, <2>2, Zenon
  <2>3. CASE Taken(x, c, t, g)
    <3>1. PICK d \in Nat, q \in Seq(Nat), v \in Seq(Nat) : x = Parsing(d, q, Append(g, v)) /\ t = Framed(v, q)
      BY <2>3 DEF Taken
    <3> DEFINE h == Append(g, v)
               y == TakeField(Parsing(d, q, h))
    <3>2. Take3(Parsing(b, r, f)) = y
      BY <1>1, <2>1, <3>1, Zenon
    <3>3. CASE Refused(y, d, q, h)
      BY <1>2, <3>2, <3>3, Zenon
    <3>4. CASE Taken(y, d, q, h)
      <4>1. PICK k \in Nat, p \in Seq(Nat), w \in Seq(Nat) : y = Parsing(k, p, Append(h, w)) /\ q = Framed(w, p)
        BY <3>4 DEF Taken
      <4>2. y = Parsing(k, p, Append3(f, u, v, w)) /\ r = Framed(u, Framed(v, Framed(w, p)))
        BY <2>1, <3>1, <4>1, Zenon DEF Append3
      <4> HIDE DEF y
      <4>3. Taken3(y, r, f)
        BY <4>2 DEF Taken3
      <4> QED
        BY <3>2, <4>3, Zenon
    <3>5. Refused(y, d, q, h) \/ Taken(y, d, q, h)
      BY TakeFieldCharges
    <3> QED
      BY <3>3, <3>4, <3>5
  <2>4. Refused(x, c, t, g) \/ Taken(x, c, t, g)
    BY TakeFieldCharges
  <2> QED
    BY <2>2, <2>3, <2>4
<1>5. Refused(s, b, r, f) \/ Taken(s, b, r, f)
  BY TakeFieldCharges
<1> QED
  BY <1>3, <1>4, <1>5

\* Three framed fields are taken if the budget can pay for them, else too large.
Cost(u, v, w) == 3 * PrefixBytes + Len(u) + Len(v) + Len(w)

LEMMA TakeThreeFramed ==
  ASSUME NEW b \in Nat, NEW u \in Seq(Nat), NEW v \in Seq(Nat), NEW w \in Seq(Nat), NEW t \in Seq(Nat),
         NEW f
  PROVE  /\ Cost(u, v, w) <= b =>
              Take3(Parsing(b, Framed(u, Framed(v, Framed(w, t))), f)) =
                Parsing(b - Cost(u, v, w), t, Append3(f, u, v, w))
         /\ ~(Cost(u, v, w) <= b) => TooLarge(Take3(Parsing(b, Framed(u, Framed(v, Framed(w, t))), f)))
<1> DEFINE n == Cost(u, v, w)
           r2 == Framed(w, t)
           r1 == Framed(v, r2)
           r == Framed(u, r1)
           s == TakeField(Parsing(b, r, f))
           c == b - PrefixBytes - Len(u)
           d == c - PrefixBytes - Len(v)
           k == d - PrefixBytes - Len(w)
           g == Append(f, u)
           h == Append(g, v)
           x == TakeField(Parsing(c, r1, g))
           y == TakeField(Parsing(d, r2, h))
<1>1. Len(u) \in Nat /\ Len(v) \in Nat /\ Len(w) \in Nat
  BY LenProperties
<1>2. r2 \in Seq(Nat)
  BY FramedBytes
<1>3. r1 \in Seq(Nat)
  BY <1>2, FramedBytes
<1>4. Take3(Parsing(b, r, f)) = TakeField(TakeField(s))
  BY DEF Take3
<1>5. /\ PrefixBytes + Len(u) <= b => s = Parsing(c, r1, g)
      /\ ~(PrefixBytes + Len(u) <= b) => TooLarge(s)
  BY <1>3, TakeFramed, Zenon
<1> HIDE DEF r, s, r1, r2, c
<1>6. CASE ~(PrefixBytes + Len(u) <= b)
  <2>1. TooLarge(Take3(Parsing(b, r, f)))
    BY <1>4, <1>5, <1>6, TooLargeStays, Zenon
  <2>2. ~(n <= b)
    BY <1>1, <1>6 DEF PrefixBytes, Cost
  <2> QED
    BY <2>1, <2>2, Zenon DEF r, r1, r2
<1>7. CASE PrefixBytes + Len(u) <= b
  <2>1. c \in Nat
    BY <1>1, <1>7 DEF PrefixBytes, c
  <2>2. /\ PrefixBytes + Len(v) <= c => x = Parsing(d, r2, h)
        /\ ~(PrefixBytes + Len(v) <= c) => TooLarge(x)
    BY <1>2, <2>1, TakeFramed, Zenon DEF r1
  <2> HIDE DEF d, g, x
  <2>3. CASE ~(PrefixBytes + Len(v) <= c)
    <3>1. TooLarge(Take3(Parsing(b, r, f)))
      BY <1>4, <1>5, <1>7, <2>2, <2>3, TooLargeStays, Zenon DEF x
    <3>2. ~(n <= b)
      BY <1>1, <2>3 DEF PrefixBytes, Cost, c
    <3> QED
      BY <3>1, <3>2, Zenon DEF r, r1, r2
  <2>4. CASE PrefixBytes + Len(v) <= c
    <3>1. d \in Nat
      BY <1>1, <2>1, <2>4 DEF PrefixBytes, d
    <3>2. /\ PrefixBytes + Len(w) <= d => y = Parsing(k, t, Append(h, w))
          /\ ~(PrefixBytes + Len(w) <= d) => TooLarge(y)
      BY <3>1, TakeFramed, Zenon DEF r2
    <3> HIDE DEF h, k, y
    <3>3. Take3(Parsing(b, r, f)) = y
      BY <1>4, <1>5, <1>7, <2>2, <2>4, Zenon DEF x, y
    <3>4. (n <= b <=> PrefixBytes + Len(w) <= d) /\ k = b - n
      BY <1>1 DEF PrefixBytes, Cost, c, d, k
    <3>5. n <= b => y = Parsing(b - n, t, Append3(f, u, v, w))
      BY <3>2, <3>4, Zenon DEF Append3, h, g
    <3> QED
      BY <3>2, <3>3, <3>4, <3>5, Zenon DEF r, r1, r2
  <2> QED
    BY <2>3, <2>4
<1> QED
  BY <1>6, <1>7

----------------------------------------------------------------------------
(* All nine fields.                                                        *)

\* The fields of an envelope, any bytes.
NineFields == {f \in Seq(Seq(Nat)) : Len(f) = Fields}

LEMMA NineFieldsAre ==
  ASSUME NEW f \in NineFields
  PROVE  \A i \in 1..Fields : f[i] \in Seq(Nat) /\ Len(f[i]) \in Nat
<1>1. f \in Seq(Seq(Nat)) /\ Len(f) = Fields
  BY DEF NineFields
<1>2. \A i \in 1..Fields : f[i] \in Seq(Nat)
  BY <1>1, ElementOfSeq
<1> QED
  BY <1>2, LenProperties

\* Three framed fields before a rest, and what they cost.
LEMMA FramedThree ==
  ASSUME NEW u \in Seq(Nat), NEW v \in Seq(Nat), NEW w \in Seq(Nat), NEW t \in Seq(Nat)
  PROVE  /\ Framed(u, Framed(v, Framed(w, t))) \in Seq(Nat)
         /\ Len(Framed(u, Framed(v, Framed(w, t)))) =
              Cost(u, v, w) + Len(t)
<1> DEFINE x == Framed(w, t)
           y == Framed(v, x)
           z == Framed(u, y)
<1>1. x \in Seq(Nat) /\ Len(x) = 1 + Len(w) + Len(t)
  BY FramedBytes
<1> HIDE DEF x
<1>2. y \in Seq(Nat) /\ Len(y) = 1 + Len(v) + Len(x)
  BY <1>1, FramedBytes
<1> HIDE DEF y
<1>3. z \in Seq(Nat) /\ Len(z) = 1 + Len(u) + Len(y)
  BY <1>2, FramedBytes
<1> HIDE DEF z
<1>4. Len(u) \in Nat /\ Len(v) \in Nat /\ Len(w) \in Nat /\ Len(t) \in Nat
  BY LenProperties
<1>5. Len(z) = Cost(u, v, w) + Len(t)
  BY <1>1, <1>2, <1>3, <1>4 DEF PrefixBytes, Cost
<1> QED
  BY <1>3, <1>5 DEF x, y, z

\* What three fields of a list cost, and the bytes they are framed to.
Cost3(f, i) == Cost(f[i], f[i + 1], f[i + 2])

LEMMA FramedThreeBytes ==
  ASSUME NEW f \in NineFields, NEW i \in {1, 4, 7}, NEW t \in Seq(Nat)
  PROVE  /\ Framed3(f, i, t) \in Seq(Nat) /\ Cost3(f, i) \in Nat
         /\ Len(Framed3(f, i, t)) = Cost3(f, i) + Len(t)
<1>1. i \in 1..Fields /\ i + 1 \in 1..Fields /\ i + 2 \in 1..Fields
  BY DEF Fields
<1>2. PICK u, v, w : u = f[i] /\ v = f[i + 1] /\ w = f[i + 2]
  OBVIOUS
<1>3. u \in Seq(Nat) /\ v \in Seq(Nat) /\ w \in Seq(Nat)
  BY <1>1, <1>2, NineFieldsAre, Zenon
<1>4. Framed3(f, i, t) = Framed(u, Framed(v, Framed(w, t))) /\ Cost3(f, i) = Cost(u, v, w)
  BY <1>2, Zenon DEF Framed3, Cost3
<1>5. /\ Framed3(f, i, t) \in Seq(Nat)
      /\ Len(Framed3(f, i, t)) = Cost(u, v, w) + Len(t)
  BY <1>3, <1>4, FramedThree
<1>6. Len(u) \in Nat /\ Len(v) \in Nat /\ Len(w) \in Nat /\ Len(t) \in Nat
  BY <1>3, LenProperties
<1> QED
  BY <1>4, <1>5, <1>6 DEF PrefixBytes, Cost

\* What is framed is bytes, as many as the fields cost.
LEMMA FrameBytes ==
  ASSUME NEW f \in NineFields
  PROVE  /\ Framed3(f, 7, <<>>) \in Seq(Nat) /\ Framed3(f, 4, Framed3(f, 7, <<>>)) \in Seq(Nat)
         /\ Cost3(f, 1) \in Nat /\ Cost3(f, 4) \in Nat /\ Cost3(f, 7) \in Nat
         /\ Frame(f) \in Seq(Nat) /\ Len(Frame(f)) = Cost3(f, 1) + Cost3(f, 4) + Cost3(f, 7)
<1> DEFINE x == Framed3(f, 7, <<>>)
           y == Framed3(f, 4, x)
           z == Framed3(f, 1, y)
<1>1. <<>> \in Seq(Nat) /\ Len(<<>>) = 0
  OBVIOUS
<1>2. x \in Seq(Nat) /\ Cost3(f, 7) \in Nat /\ Len(x) = Cost3(f, 7) + Len(<<>>)
  BY <1>1, FramedThreeBytes
<1> HIDE DEF x
<1>3. y \in Seq(Nat) /\ Cost3(f, 4) \in Nat /\ Len(y) = Cost3(f, 4) + Len(x)
  BY <1>2, FramedThreeBytes
<1> HIDE DEF y
<1>4. z \in Seq(Nat) /\ Cost3(f, 1) \in Nat /\ Len(z) = Cost3(f, 1) + Len(y)
  BY <1>3, FramedThreeBytes
<1> HIDE DEF z
<1>5. Len(z) = Cost3(f, 1) + Cost3(f, 4) + Cost3(f, 7)
  BY <1>1, <1>2, <1>3, <1>4
<1>6. z = Frame(f)
  BY DEF Frame, x, y, z
<1> QED
  BY <1>2, <1>3, <1>4, <1>5, <1>6 DEF x, y

\* Split: the parse of nine fields, and then nothing may be left.
Start(b) == Parsing(MaxEnvelope, b, <<>>)
Nine(b) == Take3(Take3(Take3(Start(b))))

LEMMA SplitNine ==
  ASSUME NEW b
  PROVE  /\ \A e \in Refusal : \A c, t, g : Nine(b) = Parse(e, c, t, g) => Split(b).err = e
         /\ \A c, t, g : Nine(b) = Parsing(c, t, g) /\ t # <<>> => Split(b).err = "malformed envelope"
         /\ \A c, g : Nine(b) = Parsing(c, <<>>, g) => Split(b).err = "nil" /\ Split(b).fields = g
<1> DEFINE s == Nine(b)
<1>1. Split(b) = IF s.err = "nil" /\ s.rest # <<>> THEN [s EXCEPT !.err = "malformed envelope"] ELSE s
  BY Zenon DEF Split, Nine, Start, Parsing, Parse
<1> HIDE DEF s
<1>2. ASSUME NEW e \in Refusal, NEW c, NEW t, NEW g, s = Parse(e, c, t, g)
      PROVE  Split(b).err = e
  <2>1. s.err = e /\ e # "nil"
    BY <1>2 DEF Parse, Refusal
  <2> QED
    BY <1>1, <2>1
<1>3. ASSUME NEW c, NEW t, NEW g, s = Parsing(c, t, g), t # <<>>
      PROVE  Split(b).err = "malformed envelope"
  BY <1>1, <1>3 DEF Parse, Parsing
<1>4. ASSUME NEW c, NEW g, s = Parsing(c, <<>>, g)
      PROVE  Split(b).err = "nil" /\ Split(b).fields = g
  BY <1>1, <1>4 DEF Parse, Parsing
<1> QED
  BY <1>2, <1>3, <1>4 DEF s

\* The nine fields that were taken, by threes.
HasFields(n, a, b, c, d, e, f, g, h, k) ==
  /\ n \in NineFields
  /\ n[1] = a /\ n[2] = b /\ n[3] = c /\ n[4] = d /\ n[5] = e
  /\ n[6] = f /\ n[7] = g /\ n[8] = h /\ n[9] = k

LEMMA AppendNine ==
  ASSUME NEW a \in Seq(Nat), NEW b \in Seq(Nat), NEW c \in Seq(Nat), NEW d \in Seq(Nat), NEW e \in Seq(Nat),
         NEW f \in Seq(Nat), NEW g \in Seq(Nat), NEW h \in Seq(Nat), NEW k \in Seq(Nat)
  PROVE  HasFields(Append3(Append3(Append3(<<>>, a, b, c), d, e, f), g, h, k), a, b, c, d, e, f, g, h, k)
<1> DEFINE o == <<>>
           x == Append3(o, a, b, c)
           y == Append3(x, d, e, f)
           z == Append3(y, g, h, k)
<1>1. o \in Seq(Seq(Nat)) /\ Len(o) = 0
  OBVIOUS
<1> HIDE DEF o
<1>2. Extended3(x, o, a, b, c)
  BY <1>1, AppendThree
<1> HIDE DEF x
<1>3. x \in Seq(Seq(Nat)) /\ Len(x) = 3 /\ x[1] = a /\ x[2] = b /\ x[3] = c
  BY <1>1, <1>2 DEF Extended3
<1>4. Extended3(y, x, d, e, f)
  BY <1>3, AppendThree
<1> HIDE DEF y
<1>5. /\ y \in Seq(Seq(Nat)) /\ Len(y) = 6 /\ y[1] = a /\ y[2] = b /\ y[3] = c
      /\ y[4] = d /\ y[5] = e /\ y[6] = f
  BY <1>3, <1>4 DEF Extended3
<1>6. Extended3(z, y, g, h, k)
  BY <1>5, AppendThree
<1> HIDE DEF z
<1>7. /\ z \in Seq(Seq(Nat)) /\ Len(z) = 9 /\ z[1] = a /\ z[2] = b /\ z[3] = c /\ z[4] = d /\ z[5] = e
      /\ z[6] = f /\ z[7] = g /\ z[8] = h /\ z[9] = k
  BY <1>5, <1>6 DEF Extended3
<1>8. HasFields(z, a, b, c, d, e, f, g, h, k)
  BY <1>7 DEF HasFields, NineFields, Fields
<1> QED
  BY <1>8 DEF o, x, y, z

\* The three threes by number.
LEMMA FramedThreeAt ==
  ASSUME NEW f, NEW t
  PROVE  /\ Framed3(f, 1, t) = Framed(f[1], Framed(f[2], Framed(f[3], t)))
         /\ Framed3(f, 4, t) = Framed(f[4], Framed(f[5], Framed(f[6], t)))
         /\ Framed3(f, 7, t) = Framed(f[7], Framed(f[8], Framed(f[9], t)))
BY DEF Framed3

\* Split accepts b, and b is the frame of the nine fields it returns.
SplitWhole(b) == /\ Split(b).err = "nil" /\ Split(b).fields \in NineFields
                 /\ b = Frame(Split(b).fields)

\* Split, on any bytes at all: it refuses them with a known error, or they are
\* exactly the frame of the nine fields it returns, with nothing before, between or
\* after them (Split, Frame).
THEOREM SplitSound ==
  ASSUME NEW b \in Seq(Nat)
  PROVE  Split(b).err \in Refusal \/ SplitWhole(b)
<1> DEFINE s1 == Take3(Start(b))
           s2 == Take3(s1)
           s3 == Take3(s2)
<1>0. MaxEnvelope \in Nat
  BY EnvelopeAssumption
<1>1. Nine(b) = s3
  BY DEF Nine
<1>2. ASSUME NEW s, Refused3(s)
      PROVE  /\ Take3(s) = s
             /\ Nine(b) = s => Split(b).err \in Refusal
  <2>1. PICK e \in Refusal : \E c, t, g : s = Parse(e, c, t, g)
    BY <1>2 DEF Refused3
  <2>2. Take3(s) = s
    BY <2>1, TakeRefused
  <2>3. Nine(b) = s => Split(b).err = e
    BY <2>1, SplitNine
  <2> QED
    BY <2>2, <2>3
<1>3. Refused3(s1) \/ Taken3(s1, b, <<>>)
  BY <1>0, TakeThree DEF Start
<1>4. CASE Refused3(s1)
  BY <1>1, <1>2, <1>4, Zenon
<1>5. CASE Taken3(s1, b, <<>>)
  <2>1. PICK c1 \in Nat, t1 \in Seq(Nat), u1 \in Seq(Nat), v1 \in Seq(Nat), w1 \in Seq(Nat) :
          s1 = Parsing(c1, t1, Append3(<<>>, u1, v1, w1)) /\ b = Framed(u1, Framed(v1, Framed(w1, t1)))
    BY <1>5 DEF Taken3
  <2> DEFINE f1 == Append3(<<>>, u1, v1, w1)
  <2> HIDE DEF s1
  <2>2. Refused3(s2) \/ Taken3(s2, t1, f1)
    BY <2>1, TakeThree
  <2>3. CASE Refused3(s2)
    BY <1>1, <1>2, <2>3, Zenon
  <2>4. CASE Taken3(s2, t1, f1)
    <3>1. PICK c2 \in Nat, t2 \in Seq(Nat), u2 \in Seq(Nat), v2 \in Seq(Nat), w2 \in Seq(Nat) :
            s2 = Parsing(c2, t2, Append3(f1, u2, v2, w2)) /\ t1 = Framed(u2, Framed(v2, Framed(w2, t2)))
      BY <2>4 DEF Taken3
    <3> DEFINE f2 == Append3(f1, u2, v2, w2)
    <3> HIDE DEF s2
    <3>2. Refused3(s3) \/ Taken3(s3, t2, f2)
      BY <3>1, TakeThree
    <3>3. CASE Refused3(s3)
      BY <1>1, <1>2, <3>3, Zenon
    <3>4. CASE Taken3(s3, t2, f2)
      <4>1. PICK c3 \in Nat, t3 \in Seq(Nat), u3 \in Seq(Nat), v3 \in Seq(Nat), w3 \in Seq(Nat) :
              s3 = Parsing(c3, t3, Append3(f2, u3, v3, w3)) /\ t2 = Framed(u3, Framed(v3, Framed(w3, t3)))
        BY <3>4 DEF Taken3
      <4> DEFINE f3 == Append3(f2, u3, v3, w3)
      <4> HIDE DEF s3
      <4>2. CASE t3 # <<>>
        <5>1. Split(b).err = "malformed envelope"
          BY <1>1, <4>1, <4>2, SplitNine, Zenon
        <5> QED
          BY <5>1 DEF Refusal
      <4>3. CASE t3 = <<>>
        <5>1. Split(b).err = "nil" /\ Split(b).fields = f3
          BY <1>1, <4>1, <4>3, SplitNine, Zenon
        <5>2. HasFields(f3, u1, v1, w1, u2, v2, w2, u3, v3, w3)
          BY AppendNine
        <5> HIDE DEF f3
        <5>3. /\ Framed3(f3, 1, t1) = b /\ Framed3(f3, 4, t2) = t1 /\ Framed3(f3, 7, <<>>) = t2
          <6>1. Framed3(f3, 1, t1) = Framed(u1, Framed(v1, Framed(w1, t1)))
            BY <5>2, FramedThreeAt DEF HasFields
          <6>2. Framed3(f3, 4, t2) = Framed(u2, Framed(v2, Framed(w2, t2)))
            BY <5>2, FramedThreeAt DEF HasFields
          <6>3. Framed3(f3, 7, t3) = Framed(u3, Framed(v3, Framed(w3, t3)))
            BY <5>2, FramedThreeAt DEF HasFields
          <6> QED
            BY <2>1, <3>1, <4>1, <4>3, <6>1, <6>2, <6>3
        <5>4. b = Frame(f3)
          BY <5>3 DEF Frame
        <5> QED
          BY <5>1, <5>2, <5>4 DEF SplitWhole, HasFields
      <4> QED
        BY <4>2, <4>3
    <3> QED
      BY <3>2, <3>3, <3>4
  <2> QED
    BY <2>2, <2>3, <2>4
<1> QED
  BY <1>3, <1>4, <1>5

\* Split returns the nine fields that Frame was given when the frame fits the bound,
\* to its last byte, and reports a larger one as too large (Frame, Split).
THEOREM SplitFrame ==
  ASSUME NEW f \in NineFields
  PROVE  IF Len(Frame(f)) <= MaxEnvelope
         THEN Split(Frame(f)).err = "nil" /\ Split(Frame(f)).fields = f
         ELSE Split(Frame(f)).err = "payload too large"
<1> DEFINE t3 == <<>>
           t2 == Framed(f[7], Framed(f[8], Framed(f[9], t3)))
           t1 == Framed(f[4], Framed(f[5], Framed(f[6], t2)))
           b == Framed(f[1], Framed(f[2], Framed(f[3], t1)))
           n1 == Cost(f[1], f[2], f[3])
           n2 == Cost(f[4], f[5], f[6])
           n3 == Cost(f[7], f[8], f[9])
           f0 == <<>>
           f1 == Append3(f0, f[1], f[2], f[3])
           f2 == Append3(f1, f[4], f[5], f[6])
           f3 == Append3(f2, f[7], f[8], f[9])
           m == MaxEnvelope
           m1 == m - n1
           m2 == m1 - n2
           m3 == m2 - n3
           s1 == Take3(Parsing(m, b, f0))
           s2 == Take3(Parsing(m1, t1, f1))
           s3 == Take3(Parsing(m2, t2, f2))
<1>0. m \in Nat /\ t3 \in Seq(Nat)
  BY EnvelopeAssumption
<1>1. Frame(f) = b
  BY FramedThreeAt DEF Frame
<1>2. /\ f[1] \in Seq(Nat) /\ f[2] \in Seq(Nat) /\ f[3] \in Seq(Nat) /\ f[4] \in Seq(Nat) /\ f[5] \in Seq(Nat)
      /\ f[6] \in Seq(Nat) /\ f[7] \in Seq(Nat) /\ f[8] \in Seq(Nat) /\ f[9] \in Seq(Nat)
  BY NineFieldsAre DEF Fields
<1>3. /\ t2 \in Seq(Nat) /\ t1 \in Seq(Nat) /\ n1 \in Nat /\ n2 \in Nat /\ n3 \in Nat
      /\ Len(b) = n1 + n2 + n3
  <2>1. Cost3(f, 1) = n1 /\ Cost3(f, 4) = n2 /\ Cost3(f, 7) = n3
    BY DEF Cost3
  <2>2. Framed3(f, 7, <<>>) = t2 /\ Framed3(f, 4, Framed3(f, 7, <<>>)) = t1
    BY FramedThreeAt
  <2> HIDE DEF n1, n2, n3, t2, t1, b
  <2> QED
    BY <1>1, <2>1, <2>2, FrameBytes
<1>4. Nine(b) = Take3(Take3(s1))
  BY DEF Nine, Start
<1>5. HasFields(f3, f[1], f[2], f[3], f[4], f[5], f[6], f[7], f[8], f[9])
  BY <1>2, AppendNine
<1> HIDE DEF t3, f0, m, m1, m2, m3
<1>6. (n1 <= m => s1 = Parsing(m1, t1, f1)) /\ (~(n1 <= m) => TooLarge(s1))
  <2>1. m \in Nat /\ f[1] \in Seq(Nat) /\ f[2] \in Seq(Nat) /\ f[3] \in Seq(Nat) /\ t1 \in Seq(Nat)
    BY <1>0, <1>2, <1>3
  <2> HIDE DEF t1
  <2> QED
    BY <2>1, TakeThreeFramed, Zenon DEF m1
<1>7. m1 \in Nat => (n2 <= m1 => s2 = Parsing(m2, t2, f2)) /\ (~(n2 <= m1) => TooLarge(s2))
  <2>1. f[4] \in Seq(Nat) /\ f[5] \in Seq(Nat) /\ f[6] \in Seq(Nat) /\ t2 \in Seq(Nat)
    BY <1>2, <1>3
  <2> HIDE DEF t2, f1
  <2> QED
    BY <2>1, TakeThreeFramed, Zenon DEF m2
<1>8. m2 \in Nat => (n3 <= m2 => s3 = Parsing(m3, t3, f3)) /\ (~(n3 <= m2) => TooLarge(s3))
  <2>1. f[7] \in Seq(Nat) /\ f[8] \in Seq(Nat) /\ f[9] \in Seq(Nat) /\ t3 \in Seq(Nat)
    BY <1>0, <1>2
  <2> HIDE DEF f2
  <2> QED
    BY <2>1, TakeThreeFramed, Zenon DEF m3
<1> HIDE DEF n1, n2, n3, s1, s2, s3, t1, t2, b, f1, f2, f3
<1>9. ASSUME NEW s, TooLarge(s)
      PROVE  Take3(s) = s /\ (Nine(b) = s => Split(b).err = "payload too large")
  <2>1. Take3(s) = s
    BY <1>9, TooLargeStays
  <2>2. PICK c, t, g : s = Parse("payload too large", c, t, g)
    BY <1>9 DEF TooLarge
  <2>3. "payload too large" \in Refusal
    BY DEF Refusal
  <2> QED
    BY <2>1, <2>2, <2>3, SplitNine, Zenon
<1>10. CASE ~(Len(b) <= m)
  <2>1. \/ ~(n1 <= m)
        \/ n1 <= m /\ m1 \in Nat /\ ~(n2 <= m1)
        \/ n1 <= m /\ m1 \in Nat /\ n2 <= m1 /\ m2 \in Nat /\ ~(n3 <= m2)
    BY <1>0, <1>3, <1>10 DEF m1, m2
  <2>2. Split(b).err = "payload too large"
    BY <1>4, <1>6, <1>7, <1>8, <1>9, <2>1, Zenon DEF s2, s3
  <2> QED
    BY <1>1, <1>10, <2>2 DEF m
<1>11. CASE Len(b) <= m
  <2>1. n1 <= m /\ m1 \in Nat /\ n2 <= m1 /\ m2 \in Nat /\ n3 <= m2
    BY <1>0, <1>3, <1>11 DEF m1, m2
  <2>2. Nine(b) = Parsing(m3, t3, f3)
    BY <1>4, <1>6, <1>7, <1>8, <2>1, Zenon DEF s2, s3
  <2>3. Split(b).err = "nil" /\ Split(b).fields = f3
    BY <2>2, SplitNine, Zenon DEF t3
  <2>4. Len(f) = 9 /\ f \in Seq(Seq(Nat)) /\ Len(f3) = 9 /\ f3 \in Seq(Seq(Nat))
    BY <1>5 DEF HasFields, NineFields, Fields
  <2>5. \A i \in 1..9 : f3[i] = f[i]
    BY <1>5 DEF HasFields
  <2>6. f3 = f
    BY <2>4, <2>5, SeqEqual
  <2> QED
    BY <1>1, <1>11, <2>3, <2>6 DEF m
<1> QED
  BY <1>10, <1>11

----------------------------------------------------------------------------
(* What a signature is over.                                               *)

\* Bytes without their last k.
Cut(r, k) == SubSeq(r, 1, Len(r) - k)

LEMMA CutBytes ==
  ASSUME NEW r \in Seq(Nat), NEW k \in Nat, k <= Len(r)
  PROVE  /\ Cut(r, k) \in Seq(Nat) /\ Len(Cut(r, k)) = Len(r) - k
         /\ \A i \in 1..(Len(r) - k) : Cut(r, k)[i] = r[i]
<1>1. Len(r) \in Nat
  BY LenProperties
<1>0. Len(r) - k \in Nat
  BY <1>1
<1>2. PICK m \in Nat, j \in Nat : m = 1 /\ j = Len(r) - k
  BY <1>0
<1>3. 1 <= m /\ m <= j + 1 /\ j <= Len(r)
  BY <1>1, <1>2
<1>4. /\ SubSeq(r, m, j) \in Seq(Nat) /\ Len(SubSeq(r, m, j)) = j - m + 1
      /\ \A i \in 1..(j - m + 1) : SubSeq(r, m, j)[i] = r[m + i - 1]
  BY <1>3, PartOf
<1>5. j - m + 1 = Len(r) - k /\ \A i \in 1..(Len(r) - k) : m + i - 1 = i
  BY <1>2
<1> QED
  BY <1>2, <1>4, <1>5 DEF Cut

\* Cutting the rest cuts the framed bytes.
LEMMA CutFramed ==
  ASSUME NEW v \in Seq(Nat), NEW r \in Seq(Nat), NEW k \in Nat, k <= Len(r)
  PROVE  /\ k <= Len(Framed(v, r)) /\ Cut(r, k) \in Seq(Nat)
         /\ Cut(Framed(v, r), k) = Framed(v, Cut(r, k))
<1> DEFINE t == Framed(v, r)
           c == Cut(r, k)
           x == Cut(t, k)
           y == Framed(v, c)
<1>1. Len(v) \in Nat /\ Len(r) \in Nat
  BY LenProperties
<1>2. /\ t \in Seq(Nat) /\ Len(t) = 1 + Len(v) + Len(r) /\ t[1] = Len(v)
      /\ \A i \in 1..Len(v) : t[1 + i] = v[i]
      /\ \A i \in 1..Len(r) : t[1 + Len(v) + i] = r[i]
  BY FramedBytes
<1>3. c \in Seq(Nat) /\ Len(c) = Len(r) - k /\ \A i \in 1..(Len(r) - k) : c[i] = r[i]
  BY CutBytes
<1> HIDE DEF t, c
<1>4. k <= Len(t)
  BY <1>1, <1>2
<1>5. x \in Seq(Nat) /\ Len(x) = Len(t) - k /\ \A i \in 1..(Len(t) - k) : x[i] = t[i]
  BY <1>2, <1>4, CutBytes
<1>6. /\ y \in Seq(Nat) /\ Len(y) = 1 + Len(v) + Len(c) /\ y[1] = Len(v)
      /\ \A i \in 1..Len(v) : y[1 + i] = v[i]
      /\ \A i \in 1..Len(c) : y[1 + Len(v) + i] = c[i]
  BY <1>3, FramedBytes
<1> HIDE DEF x, y
<1>7. Len(x) = Len(y) /\ Len(x) = 1 + Len(v) + (Len(r) - k)
  BY <1>1, <1>2, <1>3, <1>5, <1>6
<1>8. ASSUME NEW i \in 1..Len(x) PROVE x[i] = y[i]
  <2>1. x[i] = t[i]
    BY <1>5
  <2>2. CASE i = 1
    BY <1>2, <1>6, <2>1, <2>2
  <2>3. CASE 2 <= i /\ i <= 1 + Len(v)
    <3>1. i - 1 \in 1..Len(v) /\ 1 + (i - 1) = i
      BY <1>1, <2>3
    <3>2. t[1 + (i - 1)] = v[i - 1] /\ y[1 + (i - 1)] = v[i - 1]
      BY <1>2, <1>6, <3>1, Zenon
    <3> QED
      BY <2>1, <3>1, <3>2
  <2>4. CASE 2 + Len(v) <= i
    <3> DEFINE j == i - Len(v) - 1
    <3>1. j \in 1..Len(r) /\ j \in 1..(Len(r) - k) /\ j \in 1..Len(c) /\ 1 + Len(v) + j = i
      BY <1>1, <1>3, <1>7, <2>4
    <3> HIDE DEF j
    <3>2. t[1 + Len(v) + j] = r[j] /\ y[1 + Len(v) + j] = c[j] /\ c[j] = r[j]
      BY <1>2, <1>3, <1>6, <3>1, Zenon
    <3> QED
      BY <2>1, <3>1, <3>2
  <2> QED
    BY <1>1, <1>7, <2>2, <2>3, <2>4
<1>9. x = y
  BY <1>5, <1>6, <1>7, <1>8, SeqEqual
<1> QED
  BY <1>3, <1>4, <1>9 DEF x, y, t, c

\* SignedInput is the framed bytes of the first eight fields, prefixes included.
Framed8(f) == Framed3(f, 1, Framed3(f, 4, Framed(f[7], Framed(f[8], <<>>))))

LEMMA SignedInputFramed ==
  ASSUME NEW f \in NineFields
  PROVE  SignedInput(f) = Framed8(f)
<1> DEFINE o == <<>>
           k == PrefixBytes + Len(f[9])
           p == Framed(f[9], o)
           p8 == Framed(f[8], p)
           p7 == Framed(f[7], p8)
           p6 == Framed(f[6], p7)
           p5 == Framed(f[5], p6)
           p4 == Framed(f[4], p5)
           p3 == Framed(f[3], p4)
           p2 == Framed(f[2], p3)
           p1 == Framed(f[1], p2)
<1>1. /\ f[1] \in Seq(Nat) /\ f[2] \in Seq(Nat) /\ f[3] \in Seq(Nat) /\ f[4] \in Seq(Nat) /\ f[5] \in Seq(Nat)
      /\ f[6] \in Seq(Nat) /\ f[7] \in Seq(Nat) /\ f[8] \in Seq(Nat) /\ f[9] \in Seq(Nat)
  BY NineFieldsAre DEF Fields
<1>2. Len(f[9]) \in Nat /\ k \in Nat /\ o \in Seq(Nat) /\ Len(o) = 0
  BY NineFieldsAre DEF Fields, PrefixBytes
<1>3. Frame(f) = p1
  BY FramedThreeAt DEF Frame
<1>4. p \in Seq(Nat) /\ Len(p) = 1 + Len(f[9]) + Len(o)
  BY <1>1, <1>2, FramedBytes
<1>5. k <= Len(p) /\ Len(p) - k = 0
  BY <1>2, <1>4 DEF PrefixBytes
<1>6. Cut(p, k) = o
  <2>1. Cut(p, k) \in Seq(Nat) /\ Len(Cut(p, k)) = 0
    BY <1>2, <1>4, <1>5, CutBytes
  <2> QED
    BY <2>1, EmptySeq
<1> HIDE DEF k, p, o
<1>7. ASSUME NEW v \in Seq(Nat), NEW r \in Seq(Nat), k <= Len(r)
      PROVE  /\ Framed(v, r) \in Seq(Nat) /\ k <= Len(Framed(v, r))
             /\ Cut(Framed(v, r), k) = Framed(v, Cut(r, k))
  BY <1>2, <1>7, FramedBytes, CutFramed
<1>8. p8 \in Seq(Nat) /\ k <= Len(p8) /\ Cut(p8, k) = Framed(f[8], Cut(p, k))
  BY <1>1, <1>4, <1>5, <1>7
<1> HIDE DEF p8
<1>9. p7 \in Seq(Nat) /\ k <= Len(p7) /\ Cut(p7, k) = Framed(f[7], Cut(p8, k))
  BY <1>1, <1>8, <1>7
<1> HIDE DEF p7
<1>10. p6 \in Seq(Nat) /\ k <= Len(p6) /\ Cut(p6, k) = Framed(f[6], Cut(p7, k))
  BY <1>1, <1>9, <1>7
<1> HIDE DEF p6
<1>11. p5 \in Seq(Nat) /\ k <= Len(p5) /\ Cut(p5, k) = Framed(f[5], Cut(p6, k))
  BY <1>1, <1>10, <1>7
<1> HIDE DEF p5
<1>12. p4 \in Seq(Nat) /\ k <= Len(p4) /\ Cut(p4, k) = Framed(f[4], Cut(p5, k))
  BY <1>1, <1>11, <1>7
<1> HIDE DEF p4
<1>13. p3 \in Seq(Nat) /\ k <= Len(p3) /\ Cut(p3, k) = Framed(f[3], Cut(p4, k))
  BY <1>1, <1>12, <1>7
<1> HIDE DEF p3
<1>14. p2 \in Seq(Nat) /\ k <= Len(p2) /\ Cut(p2, k) = Framed(f[2], Cut(p3, k))
  BY <1>1, <1>13, <1>7
<1> HIDE DEF p2
<1>15. p1 \in Seq(Nat) /\ k <= Len(p1) /\ Cut(p1, k) = Framed(f[1], Cut(p2, k))
  BY <1>1, <1>14, <1>7
<1> HIDE DEF p1
<1>16. Len(p1) \in Nat
  BY <1>15, LenProperties
<1>17. Len(p1) - PrefixBytes - Len(f[Fields]) = Len(p1) - k
  BY <1>2, <1>16 DEF k, PrefixBytes, Fields
<1>18. SignedInput(f) = Cut(p1, k)
  BY <1>3, <1>17, Zenon DEF SignedInput, Cut
<1>19. Cut(p1, k) = Framed(f[1], Framed(f[2], Framed(f[3],
                      Framed(f[4], Framed(f[5], Framed(f[6], Framed(f[7], Framed(f[8], o))))))))
  BY <1>6, <1>8, <1>9, <1>10, <1>11, <1>12, <1>13, <1>14, <1>15
<1>20. Framed8(f) = Framed(f[1], Framed(f[2], Framed(f[3],
                      Framed(f[4], Framed(f[5], Framed(f[6], Framed(f[7], Framed(f[8], o))))))))
  BY FramedThreeAt DEF Framed8, o
<1> QED
  BY <1>18, <1>19, <1>20

\* Fields read back from framed bytes, one after the other.
First(q) == SubSeq(q, 2, q[1] + 1)
After(q) == SubSeq(q, q[1] + 2, Len(q))
ReadsFour(q, u, v, w, x, t) ==
  /\ First(q) = u /\ First(After(q)) = v
  /\ First(After(After(q))) = w /\ First(After(After(After(q)))) = x
  /\ After(After(After(After(q)))) = t

LEMMA FramedFour ==
  ASSUME NEW u \in Seq(Nat), NEW v \in Seq(Nat), NEW w \in Seq(Nat), NEW x \in Seq(Nat), NEW t \in Seq(Nat)
  PROVE  /\ Framed(u, Framed(v, Framed(w, Framed(x, t)))) \in Seq(Nat)
         /\ ReadsFour(Framed(u, Framed(v, Framed(w, Framed(x, t)))), u, v, w, x, t)
<1>1. ASSUME NEW y \in Seq(Nat), NEW z \in Seq(Nat)
      PROVE  First(Framed(y, z)) = y /\ After(Framed(y, z)) = z /\ Framed(y, z) \in Seq(Nat)
  <2>1. Framed(y, z)[1] = Len(y) /\ Framed(y, z) \in Seq(Nat)
    BY FramedBytes
  <2>2. /\ SubSeq(Framed(y, z), 2, Len(y) + 1) = y
        /\ SubSeq(Framed(y, z), Len(y) + 2, Len(Framed(y, z))) = z
    BY FramedReads
  <2> QED
    BY <2>1, <2>2 DEF First, After
<1>2. First(Framed(x, t)) = x /\ After(Framed(x, t)) = t /\ Framed(x, t) \in Seq(Nat)
  BY <1>1
<1> DEFINE a == Framed(x, t)
<1> HIDE DEF a
<1>3. First(Framed(w, a)) = w /\ After(Framed(w, a)) = a /\ Framed(w, a) \in Seq(Nat)
  BY <1>1, <1>2 DEF a
<1> DEFINE b == Framed(w, a)
<1> HIDE DEF b
<1>4. First(Framed(v, b)) = v /\ After(Framed(v, b)) = b /\ Framed(v, b) \in Seq(Nat)
  BY <1>1, <1>3 DEF b
<1> DEFINE c == Framed(v, b)
<1> HIDE DEF c
<1>5. First(Framed(u, c)) = u /\ After(Framed(u, c)) = c /\ Framed(u, c) \in Seq(Nat)
  BY <1>1, <1>4 DEF c
<1>6. /\ Framed(u, c) \in Seq(Nat)
      /\ ReadsFour(Framed(u, c), u, v, w, x, t)
  BY <1>2, <1>3, <1>4, <1>5, Zenon DEF ReadsFour, a, b, c
<1> QED
  BY <1>6 DEF a, b, c

\* ADR-0005 section 1, SignedInput: the bytes that are signed determine the first
\* eight fields and nothing else, so no boundary between two fields can be moved
\* under a signature, and the signature is not over itself.
THEOREM SignedInputDetermines ==
  ASSUME NEW f \in NineFields, NEW g \in NineFields
  PROVE  SignedInput(f) = SignedInput(g) <=> \A i \in 1..(Fields - 1) : f[i] = g[i]
<1> DEFINE SameFields == /\ f[1] = g[1] /\ f[2] = g[2] /\ f[3] = g[3] /\ f[4] = g[4]
                         /\ f[5] = g[5] /\ f[6] = g[6] /\ f[7] = g[7] /\ f[8] = g[8]
<1>1. (\A i \in 1..(Fields - 1) : f[i] = g[i]) <=> SameFields
  BY DEF Fields
<1>2. ASSUME NEW h \in NineFields
      PROVE  \E t : /\ ReadsFour(SignedInput(h), h[1], h[2], h[3], h[4], t)
                    /\ ReadsFour(t, h[5], h[6], h[7], h[8], <<>>)
  <2> DEFINE o == <<>>
             t == Framed(h[5], Framed(h[6], Framed(h[7], Framed(h[8], o))))
             q == Framed(h[1], Framed(h[2], Framed(h[3], Framed(h[4], t))))
  <2>1. /\ h[1] \in Seq(Nat) /\ h[2] \in Seq(Nat) /\ h[3] \in Seq(Nat) /\ h[4] \in Seq(Nat)
        /\ h[5] \in Seq(Nat) /\ h[6] \in Seq(Nat) /\ h[7] \in Seq(Nat) /\ h[8] \in Seq(Nat)
    BY NineFieldsAre DEF Fields
  <2>2. o \in Seq(Nat)
    OBVIOUS
  <2>3. SignedInput(h) = q
    BY SignedInputFramed, FramedThreeAt DEF Framed8
  <2> HIDE DEF o
  <2>4. t \in Seq(Nat) /\ ReadsFour(t, h[5], h[6], h[7], h[8], o)
    BY <2>1, <2>2, FramedFour, Zenon
  <2> HIDE DEF t
  <2>5. ReadsFour(q, h[1], h[2], h[3], h[4], t)
    BY <2>1, <2>4, FramedFour, Zenon
  <2> HIDE DEF q
  <2> QED
    BY <2>3, <2>4, <2>5, Zenon DEF o
<1>3. ASSUME SignedInput(f) = SignedInput(g)
      PROVE  SameFields
  <2> DEFINE o == <<>>
  <2>1. PICK t : ReadsFour(SignedInput(f), f[1], f[2], f[3], f[4], t) /\ ReadsFour(t, f[5], f[6], f[7], f[8], o)
    BY <1>2
  <2>2. PICK s : ReadsFour(SignedInput(g), g[1], g[2], g[3], g[4], s) /\ ReadsFour(s, g[5], g[6], g[7], g[8], o)
    BY <1>2
  <2> HIDE DEF o
  <2>3. s = t
    BY <1>3, <2>1, <2>2 DEF ReadsFour
  <2> QED
    BY <1>3, <2>1, <2>2, <2>3 DEF ReadsFour
<1>4. ASSUME SameFields
      PROVE  SignedInput(f) = SignedInput(g)
  <2>1. /\ SignedInput(f) = Framed(f[1], Framed(f[2], Framed(f[3],
                      Framed(f[4], Framed(f[5], Framed(f[6], Framed(f[7], Framed(f[8], <<>>))))))))
        /\ SignedInput(g) = Framed(g[1], Framed(g[2], Framed(g[3],
                      Framed(g[4], Framed(g[5], Framed(g[6], Framed(g[7], Framed(g[8], <<>>))))))))
    BY SignedInputFramed, FramedThreeAt DEF Framed8
  <2> QED
    BY <1>4, <2>1
<1> QED
  BY <1>1, <1>3, <1>4

----------------------------------------------------------------------------
(* Decoding what was framed.                                               *)

\* The nine values of an envelope.
LEMMA FieldValuesAre ==
  ASSUME NEW e
  PROVE  LET f == fieldValues(e)
         IN  /\ Len(f) = 9
             /\ f[1] = <<e.version>> /\ f[2] = e.class /\ f[3] = e.job /\ f[4] = e.corr /\ f[5] = e.sender
             /\ f[6] = e.ts /\ f[7] = e.nonce /\ f[8] = e.payload /\ f[9] = e.sig
BY DEF fieldValues

LEMMA FieldValuesNine ==
  ASSUME NEW e, e.version \in Nat, e.class \in Seq(Nat), e.job \in Seq(Nat), e.corr \in Seq(Nat),
         e.sender \in Seq(Nat), e.ts \in Seq(Nat), e.nonce \in Seq(Nat), e.payload \in Seq(Nat),
         e.sig \in Seq(Nat)
  PROVE  fieldValues(e) \in NineFields
<1>1. <<e.version>> \in Seq(Nat)
  OBVIOUS
<1>2. fieldValues(e) \in Seq(Seq(Nat))
  BY <1>1 DEF fieldValues
<1>3. Len(fieldValues(e)) = 9
  BY FieldValuesAre
<1> QED
  BY <1>2, <1>3 DEF NineFields, Fields

\* Every refusal of nine fields is a known one.
LEMMA FieldErrorKnown ==
  ASSUME NEW f
  PROVE  FieldError(f) \in Refusal \cup {"nil"}
BY DEF FieldError, Refusal

\* Nine fields without an error: a version, a known class, the widths.
LEMMA FieldErrorNil ==
  ASSUME NEW f, FieldError(f) = "nil"
  PROVE  /\ Len(f[1]) = 1 /\ f[1][1] = 1 /\ Known(f[2]) /\ Len(f[9]) = 2
BY DEF FieldError, VersionBytes, Version, SignatureBytes

LEMMA FieldErrorNone ==
  ASSUME NEW f, Len(f[1]) = 1, f[1][1] = 1, Known(f[2]), Len(f[6]) = 1, Len(f[7]) = 1, Len(f[9]) = 2,
         \A i \in {3, 4} : Len(f[i]) = 0 \/ ValidIdentifier(f[i]),
         ValidIdentifier(f[5]) \/ ReservedSender(f[5]),
         Encrypted(f[2]) => Len(f[4]) = 0
  PROVE  FieldError(f) = "nil"
BY DEF FieldError, VersionBytes, Version, SignatureBytes, TimestampBytes, NonceBytes

\* Nine fields that agree one by one.
LEMMA SameNine ==
  ASSUME NEW f \in NineFields, NEW g \in NineFields,
         g[1] = f[1], g[2] = f[2], g[3] = f[3], g[4] = f[4], g[5] = f[5],
         g[6] = f[6], g[7] = f[7], g[8] = f[8], g[9] = f[9]
  PROVE  g = f
<1>1. f \in Seq(Seq(Nat)) /\ g \in Seq(Seq(Nat)) /\ Len(f) = 9 /\ Len(g) = 9
  BY DEF NineFields, Fields
<1>2. \A i \in 1..Len(g) : g[i] = f[i]
  BY <1>1
<1>3. PICK S : f \in Seq(S) /\ g \in Seq(S)
  BY <1>1, Zenon
<1>4. Len(g) = Len(f)
  BY <1>1
<1> QED
  BY <1>2, <1>3, <1>4, SeqEqual, Zenon

\* The values of the envelope that Decode makes of such fields.
LEMMA ValuesOf ==
  ASSUME NEW f \in NineFields, FieldError(f) = "nil", NEW e,
         e.version = f[1][1], e.class = f[2], e.job = f[3], e.corr = f[4], e.sender = f[5],
         e.ts = f[6], e.nonce = f[7], e.payload = f[8], e.sig = f[9]
  PROVE  fieldValues(e) = f
<1> DEFINE g == fieldValues(e)
<1>1. /\ f[1] \in Seq(Nat) /\ f[2] \in Seq(Nat) /\ f[3] \in Seq(Nat) /\ f[4] \in Seq(Nat) /\ f[5] \in Seq(Nat)
      /\ f[6] \in Seq(Nat) /\ f[7] \in Seq(Nat) /\ f[8] \in Seq(Nat) /\ f[9] \in Seq(Nat)
  BY NineFieldsAre DEF Fields
<1>2. f[1] = <<e.version>> /\ e.version \in Nat
  <2>1. Len(f[1]) = 1
    BY FieldErrorNil
  <2>2. PICK v \in Seq(Nat) : v = f[1]
    BY <1>1
  <2>3. v = <<v[1]>> /\ v[1] \in Nat
    BY <2>1, <2>2
  <2> QED
    BY <2>2, <2>3
<1>3. g \in NineFields
  BY <1>1, <1>2, FieldValuesNine
<1>4. /\ Len(g) = 9 /\ g[1] = <<e.version>> /\ g[2] = e.class /\ g[3] = e.job /\ g[4] = e.corr /\ g[5] = e.sender
      /\ g[6] = e.ts /\ g[7] = e.nonce /\ g[8] = e.payload /\ g[9] = e.sig
  BY FieldValuesAre
<1> HIDE DEF g
<1>5. /\ g[1] = f[1] /\ g[2] = f[2] /\ g[3] = f[3] /\ g[4] = f[4] /\ g[5] = f[5]
      /\ g[6] = f[6] /\ g[7] = f[7] /\ g[8] = f[8] /\ g[9] = f[9]
  BY <1>2, <1>4
<1>6. g = f
  BY <1>3, <1>5, SameNine
<1> QED
  BY <1>6 DEF g

\* What Decode accepts is an envelope whose values are the fields framed.
LEMMA DecodeValues ==
  ASSUME NEW b \in Seq(Nat), DecodeError(b) = "nil"
  PROVE  /\ fieldValues(Decode(b)) \in NineFields /\ b = Frame(fieldValues(Decode(b)))
         /\ FieldError(fieldValues(Decode(b))) = "nil"
<1>1. PICK f : f = Split(b).fields
  OBVIOUS
<1>2. PICK e : e = Decode(b)
  OBVIOUS
<1>3. Split(b).err = "nil" /\ FieldError(f) = "nil"
  <2>1. "nil" \notin Refusal
    BY DEF Refusal
  <2> QED
    BY <1>1, <2>1 DEF DecodeError
<1>4. f \in NineFields /\ b = Frame(f)
  <2>1. "nil" \notin Refusal
    BY DEF Refusal
  <2> QED
    BY <1>1, <1>3, <2>1, SplitSound DEF SplitWhole
<1>5. /\ e.version = f[1][1] /\ e.class = f[2] /\ e.job = f[3] /\ e.corr = f[4] /\ e.sender = f[5]
      /\ e.ts = f[6] /\ e.nonce = f[7] /\ e.payload = f[8] /\ e.sig = f[9]
  BY <1>1, <1>2 DEF Decode
<1>6. fieldValues(e) = f
  BY <1>3, <1>4, <1>5, ValuesOf
<1> QED
  BY <1>2, <1>3, <1>4, <1>6

\* Decode of what was framed within the bound, and beyond it.
LEMMA DecodeFrame ==
  ASSUME NEW f \in NineFields, FieldError(f) = "nil"
  PROVE  IF Len(Frame(f)) <= MaxEnvelope
         THEN DecodeError(Frame(f)) = "nil" /\ fieldValues(Decode(Frame(f))) = f
         ELSE DecodeError(Frame(f)) = "payload too large"
<1>1. PICK b : b = Frame(f)
  OBVIOUS
<1>2. b \in Seq(Nat)
  BY <1>1, FrameBytes
<1>3. CASE Len(b) <= MaxEnvelope
  <2>1. Split(b).err = "nil" /\ Split(b).fields = f
    BY <1>1, <1>3, SplitFrame
  <2>2. DecodeError(b) = "nil"
    BY <2>1 DEF DecodeError
  <2>3. PICK e : e = Decode(b)
    OBVIOUS
  <2>4. /\ e.version = f[1][1] /\ e.class = f[2] /\ e.job = f[3] /\ e.corr = f[4] /\ e.sender = f[5]
        /\ e.ts = f[6] /\ e.nonce = f[7] /\ e.payload = f[8] /\ e.sig = f[9]
    BY <2>1, <2>3 DEF Decode
  <2>5. fieldValues(e) = f
    BY <2>4, ValuesOf
  <2> QED
    BY <1>1, <1>3, <2>2, <2>3, <2>5
<1>4. CASE ~(Len(b) <= MaxEnvelope)
  <2>1. Split(b).err = "payload too large"
    BY <1>1, <1>4, SplitFrame
  <2>2. DecodeError(b) = "payload too large"
    BY <2>1 DEF DecodeError
  <2> QED
    BY <1>1, <1>4, <2>2
<1> QED
  BY <1>3, <1>4

LEMMA DecodeErrorKnown ==
  ASSUME NEW b \in Seq(Nat)
  PROVE  DecodeError(b) \in Refusal \cup {"nil"}
<1>1. Split(b).err \in Refusal \cup {"nil"}
  BY SplitSound DEF SplitWhole
<1> QED
  BY <1>1, FieldErrorKnown DEF DecodeError

\* A version's text reads back as the version.
LEMMA ParseFormat == ParseUint(FormatUint(Version)) = Version
<1> DEFINE t == <<1>>
           F(v) == [i \in 0..Len(t) |-> IF i = 0 THEN 0 ELSE 10 * v[i - 1] + t[i]]
           v0 == [i \in 0..1 |-> IF i = 0 THEN 0 ELSE 1]
           value == CHOOSE v : v = F(v)
<1>1. Len(t) = 1 /\ t[1] = 1 /\ t # <<>> /\ \A i \in 1..Len(t) : t[i] \in 0..9
  OBVIOUS
<1>2. v0 = F(v0)
  BY <1>1
<1>3. ASSUME NEW v, v = F(v)
      PROVE  v[1] = 1
  <2>1. v = [i \in 0..1 |-> IF i = 0 THEN 0 ELSE 10 * v[i - 1] + t[i]]
    BY <1>1, <1>3
  <2>2. v[0] = 0
    BY <2>1
  <2>3. v[1] = 10 * v[1 - 1] + t[1]
    BY <2>1
  <2> QED
    BY <1>1, <2>2, <2>3
<1> HIDE DEF F
<1>4. value = F(value)
  BY <1>2
<1>5. value[Len(t)] = 1
  BY <1>1, <1>3, <1>4
<1>6. ParseUint(t) = value[Len(t)]
  BY <1>1 DEF ParseUint, F
<1> QED
  BY <1>5, <1>6 DEF FormatUint, Version

----------------------------------------------------------------------------
(* The record of what was signed, sealed and sent.                         *)

\* A sequence, of whatever.
Listed(q) == \E S : q \in Seq(S)

\* The j-th message: its envelope as Compose, Seal and SignEnvelope make it ...
Made(m, j) ==
  /\ m.env.version = Version /\ m.env.class = Class[m.subject[4]]
  /\ m.env.job \in {<<>>, <<24, 25>>}
  /\ m.env.corr = IF m.subject[2] = "enroll" THEN Code(m.subject[3]) ELSE <<>>
  /\ m.env.sender = Code(Speaker(m.from, m.subject))
  /\ m.env.ts = <<60>> /\ m.env.nonce = <<60 + j>> /\ m.env.sig = <<2 * j - 1, 2 * j>>
  /\ m.env.payload \in Seq(Nat)
  /\ Framable(fieldValues(m.env))
\* ... the two halves of its signature, among those made ...
SignedBy(m, j, halves) ==
  LET k == KeyOwner(m.env.class, m.env.sender)
  IN  /\ halves[2 * j - 1] = Halves(k, SignedInput(fieldValues(m.env)))[1]
      /\ halves[2 * j] = Halves(k, SignedInput(fieldValues(m.env)))[2]
\* ... and its payload, in a box for its recipient if its class is encrypted.
Boxed(m, boxes) ==
  IF Encrypted(m.env.class)
  THEN \E n \in 1..Len(boxes) :
         /\ boxes[n].to = Recipient(m.subject) /\ boxes[n].plain = m.plain
         /\ boxes[n].bytes = m.env.payload
  ELSE m.env.payload = m.plain
\* A box shows its number.
Numbered(boxes) ==
  \A n \in 1..Len(boxes) :
    boxes[n].bytes \in Seq(Nat) /\ Len(boxes[n].bytes) >= 2 /\ boxes[n].bytes[1] = n

Names == Services \cup {u.jwt.name : u \in users}

Wire ==
  /\ Listed(signed) /\ Listed(sealed) /\ Numbered(sealed)
  /\ Len(sent) <= MaxMessages /\ Len(signed) = 2 * Len(sent) /\ Len(sealed) <= Len(sent)
  /\ \A j \in 1..Len(sent) :
       /\ Made(sent[j], j) /\ SignedBy(sent[j], j, signed) /\ Boxed(sent[j], sealed)
       /\ sent[j].from \in Names

\* The message on its way is bytes, and those that were sent if nothing altered it.
Coming(n, h, b, a) == [n |-> n, headers |-> h, bytes |-> b, altered |-> a]
AsSent(m, h, b) == h = Headers(m.env) /\ b = Frame(fieldValues(m.env))
OnItsWay ==
  msg # None =>
    \E h, b, a : /\ msg = Coming(Len(sent), h, b, a) /\ b \in Seq(Nat)
                 /\ a = FALSE => AsSent(sent[Len(sent)], h, b)

\* What was judged is judged as it should be.
Judged == /\ \A v \in verdicts : v.verdict \in Refusal \cup {"envelope refused", "accepted"}
          /\ Authentic /\ HonestAccepted

LEMMA AppendListed ==
  ASSUME NEW q, Listed(q), NEW x
  PROVE  /\ Listed(Append(q, x)) /\ Len(q) \in Nat /\ Len(Append(q, x)) = Len(q) + 1
         /\ \A k \in 1..Len(q) : Append(q, x)[k] = q[k]
         /\ Append(q, x)[Len(q) + 1] = x
<1>1. PICK S : q \in Seq(S)
  BY DEF Listed
<1>2. q \in Seq(S \cup {x}) /\ x \in S \cup {x} /\ Len(q) \in Nat
  BY <1>1
<1>3. /\ Append(q, x) \in Seq(S \cup {x}) /\ Len(Append(q, x)) = Len(q) + 1
      /\ \A k \in 1..Len(q) : Append(q, x)[k] = q[k]
      /\ Append(q, x)[Len(q) + 1] = x
  BY <1>2, AppendProperties
<1> QED
  BY <1>2, <1>3 DEF Listed

WithPair(z, q, x, y) ==
  /\ Listed(z) /\ Len(q) \in Nat /\ Len(z) = Len(q) + 2
  /\ \A k \in 1..Len(q) : z[k] = q[k]
  /\ z[Len(q) + 1] = x /\ z[Len(q) + 2] = y

LEMMA PairListed ==
  ASSUME NEW q, Listed(q), NEW x, NEW y
  PROVE  WithPair(q \o <<x, y>>, q, x, y)
<1>1. PICK S : q \in Seq(S)
  BY DEF Listed
<1>2. PICK T : T = S \cup {x, y}
  OBVIOUS
<1>3. q \in Seq(T) /\ Len(q) \in Nat
  BY <1>1, <1>2
<1>4. PICK p : p = <<x, y>>
  OBVIOUS
<1>5. p \in Seq(T) /\ Len(p) = 2 /\ p[1] = x /\ p[2] = y
  BY <1>2, <1>4
<1>6. /\ q \o p \in Seq(T) /\ Len(q \o p) = Len(q) + Len(p)
      /\ \A i \in 1..(Len(q) + Len(p)) : (q \o p)[i] = IF i <= Len(q) THEN q[i] ELSE p[i - Len(q)]
  BY <1>3, <1>5, ConcatProperties, Zenon
<1>7. \A k \in 1..Len(q) : (q \o p)[k] = q[k]
  BY <1>3, <1>5, <1>6
<1>8. (q \o p)[Len(q) + 1] = x /\ (q \o p)[Len(q) + 2] = y
  BY <1>3, <1>5, <1>6
<1>9. Listed(q \o p) /\ Len(q \o p) = Len(q) + 2
  BY <1>5, <1>6 DEF Listed
<1> QED
  BY <1>3, <1>4, <1>7, <1>8, <1>9 DEF WithPair

\* The bytes of a name, and of a class.
LEMMA CodeBytes ==
  ASSUME NEW n \in Services \cup AgentId \cup Token
  PROVE  Code(n) \in Seq(Nat)
<1>1. CASE n \in Services
  <2>1. \E k \in 31..35 : Code(n) = <<k>>
    BY <1>1 DEF Code, Services
  <2> QED
    BY <2>1
<1>2. CASE n \notin Services
  <2>1. Code(n) = CodeOf[n]
    BY <1>2 DEF Code, Services
  <2> QED
    BY <1>2, <2>1, MessagingAssumption
<1> QED
  BY <1>1, <1>2

LEMMA CodeSender ==
  ASSUME NEW n \in Services \cup Named \cup Holders
  PROVE  Code(n) \in Seq(Nat) /\ (ValidIdentifier(Code(n)) \/ ReservedSender(Code(n)))
<1>1. CASE n \in Services
  <2>1. PICK k \in 31..35 : Code(n) = <<k>>
    BY <1>1 DEF Code, Services
  <2> QED
    BY <1>1, <2>1, CodeBytes DEF ReservedSender, ReservedByte
<1>2. CASE n \in Named \cup Holders
  BY <1>2, CodeBytes DEF Named, Holders, ValidateAgentIdentifier
<1> QED
  BY <1>1, <1>2

LEMMA ClassBytes ==
  ASSUME NEW s \in Subjects
  PROVE  Class[s[4]] \in Seq(Nat) /\ Known(Class[s[4]]) /\ (Encrypted(Class[s[4]]) <=> InStream(s))
<1>1. s[4] \in {"result", "event", "presence", "cmd", "cancel", "request", "reply"}
  BY SubjectTuples
<1>2. PICK z \in {"result", "event", "presence", "cmd", "cancel", "request", "reply"} : z = s[4]
  BY <1>1
<1>3. Class[z] \in Seq(Nat) /\ z \in DOMAIN Class
  <2>1. (\E k \in 1..7 : Class[z] = <<k>>) /\ z \in DOMAIN Class
    BY DEF Class
  <2> QED
    BY <2>1
<1>4. Known(Class[z])
  BY <1>3 DEF Known
<1>5. Encrypted(Class[z]) <=> z \in {"cmd", "cancel", "result"}
  BY DEF Encrypted, Class
<1> QED
  BY <1>2, <1>3, <1>4, <1>5 DEF InStream

\* The names of the users are those that were minted.
LEMMA NamesKnown ==
  ASSUME Credentials, NEW n \in Names
  PROVE  n \in Services \cup Named \cup Holders
<1>1. CASE n \in Services
  BY <1>1
<1>2. CASE \E u \in users : n = u.jwt.name
  <2>1. PICK u \in users : n = u.jwt.name
    BY <1>2
  <2>2. CASE MintedAgent(u)
    BY <2>1, <2>2 DEF MintedAgent, Claims
  <2>3. CASE MintedHolder(u)
    BY <2>1, <2>3 DEF MintedHolder, Claims
  <2> QED
    BY <2>2, <2>3 DEF Credentials
<1> QED
  BY <1>1, <1>2 DEF Names

\* Whoever an envelope says it is from has a known name too (Issue).
LEMMA SpeakerKnown ==
  ASSUME NEW n \in Services \cup Named \cup Holders, NEW s \in Subjects
  PROVE  Speaker(n, s) \in Services \cup Named \cup Holders
<1>1. CASE s[4] = "request"
  <2>1. s[3] \in Token
    BY <1>1, SubjectTuples
  <2>2. AgentOf[s[3]] \in Named
    BY <2>1, IssueAssumption DEF Named
  <2> QED
    BY <1>1, <2>2 DEF Speaker
<1>2. CASE s[4] # "request"
  BY <1>2 DEF Speaker
<1> QED
  BY <1>1, <1>2

\* A message that was made has nine fields of bytes.
LEMMA MadeNine ==
  ASSUME NEW m, NEW j \in Nat \ {0}, Made(m, j), m.subject \in Subjects,
         m.from \in Services \cup Named \cup Holders
  PROVE  fieldValues(m.env) \in NineFields
<1>1. PICK e : e = m.env
  OBVIOUS
<1>2. m.subject[2] = "enroll" => m.subject[3] \in Token
  BY SubjectTuples
<1>3. e.corr \in Seq(Nat)
  <2>1. CASE m.subject[2] = "enroll"
    <3>1. e.corr = Code(m.subject[3])
      BY <1>1, <2>1 DEF Made
    <3> QED
      BY <1>2, <2>1, <3>1, CodeBytes
  <2>2. CASE m.subject[2] # "enroll"
    <3>1. e.corr = <<>>
      BY <1>1, <2>2 DEF Made
    <3> QED
      BY <3>1
  <2> QED
    BY <2>1, <2>2
<1>4. e.sender \in Seq(Nat)
  BY <1>1, SpeakerKnown, CodeSender DEF Made
<1>5. e.class \in Seq(Nat)
  BY <1>1, ClassBytes DEF Made
<1>6. e.version \in Nat /\ e.job \in Seq(Nat) /\ e.ts \in Seq(Nat) /\ e.payload \in Seq(Nat)
  <2>1. e.version = 1 /\ (e.job = <<>> \/ e.job = <<24, 25>>) /\ e.ts = <<60>> /\ e.payload \in Seq(Nat)
    BY <1>1 DEF Made, Version
  <2>2. <<>> \in Seq(Nat) /\ <<24, 25>> \in Seq(Nat) /\ <<60>> \in Seq(Nat)
    OBVIOUS
  <2>3. e.job \in Seq(Nat) /\ e.ts \in Seq(Nat)
    BY <2>1, <2>2, Zenon
  <2> QED
    BY <2>1, <2>3
<1>7. e.nonce \in Seq(Nat)
  <2>1. e.nonce = <<60 + j>> /\ 60 + j \in Nat
    BY <1>1 DEF Made
  <2> QED
    BY <2>1
<1>8. e.sig \in Seq(Nat)
  <2>1. e.sig = <<2 * j - 1, 2 * j>> /\ 2 * j - 1 \in Nat /\ 2 * j \in Nat
    BY <1>1 DEF Made
  <2> QED
    BY <2>1
<1>9. fieldValues(e) \in NineFields
  BY <1>3, <1>4, <1>5, <1>6, <1>7, <1>8, FieldValuesNine
<1> QED
  BY <1>1, <1>9

\* And Decode finds nothing wrong with them, if its token, if any, is an identifier.
LEMMA MadeDecodes ==
  ASSUME NEW m, NEW j \in Nat \ {0}, Made(m, j), m.subject \in Subjects,
         m.from \in Services \cup Named \cup Holders,
         m.subject[2] = "enroll" => m.subject[3] \in Holders
  PROVE  FieldError(fieldValues(m.env)) = "nil"
<1>1. PICK e : e = m.env
  OBVIOUS
<1>2. PICK f : f = fieldValues(e)
  OBVIOUS
<1>3. /\ f[1] = <<e.version>> /\ f[2] = e.class /\ f[3] = e.job /\ f[4] = e.corr /\ f[5] = e.sender
      /\ f[6] = e.ts /\ f[7] = e.nonce /\ f[8] = e.payload /\ f[9] = e.sig
  BY <1>2, FieldValuesAre
<1>4. Len(f[1]) = 1 /\ f[1][1] = 1 /\ Len(f[6]) = 1 /\ Len(f[7]) = 1 /\ Len(f[9]) = 2
  <2>1. e.version = 1 /\ e.ts = <<60>> /\ e.nonce = <<60 + j>> /\ e.sig = <<2 * j - 1, 2 * j>>
    BY <1>1 DEF Made, Version
  <2> QED
    BY <1>3, <2>1
<1>5. Known(f[2]) /\ (Encrypted(f[2]) <=> InStream(m.subject))
  BY <1>1, <1>3, ClassBytes DEF Made
<1>6. Len(f[3]) = 0 \/ ValidIdentifier(f[3])
  <2>1. CASE e.job = <<>>
    BY <1>3, <2>1
  <2>2. CASE e.job = <<24, 25>>
    BY <1>3, <2>2 DEF ValidIdentifier, MaxIdentifier, IdByte
  <2> QED
    BY <1>1, <2>1, <2>2 DEF Made
<1>7. Len(f[4]) = 0 \/ ValidIdentifier(f[4])
  <2>1. CASE m.subject[2] = "enroll"
    <3>1. e.corr = Code(m.subject[3])
      BY <1>1, <2>1 DEF Made
    <3> QED
      BY <1>3, <2>1, <3>1 DEF Holders, ValidateAgentIdentifier
  <2>2. CASE m.subject[2] # "enroll"
    <3>1. e.corr = <<>>
      BY <1>1, <2>2 DEF Made
    <3> QED
      BY <1>3, <3>1
  <2> QED
    BY <2>1, <2>2
<1>8. ValidIdentifier(f[5]) \/ ReservedSender(f[5])
  BY <1>1, <1>3, SpeakerKnown, CodeSender DEF Made
<1>9. Encrypted(f[2]) => Len(f[4]) = 0
  <2>1. InStream(m.subject) => m.subject[2] # "enroll"
    BY SubjectTuples DEF InStream
  <2>2. m.subject[2] # "enroll" => e.corr = <<>>
    BY <1>1 DEF Made
  <2> QED
    BY <1>3, <1>5, <2>1, <2>2
<1>10. FieldError(f) = "nil"
  BY <1>4, <1>5, <1>6, <1>7, <1>8, <1>9, FieldErrorNone
<1> QED
  BY <1>1, <1>2, <1>10

----------------------------------------------------------------------------
(* Publishing.                                                             *)

\* An envelope written out.
Env(v, c, jb, r, sn, t, n, p, g) ==
  [version |-> v, class |-> c, job |-> jb, corr |-> r, sender |-> sn, ts |-> t, nonce |-> n,
   payload |-> p, sig |-> g]

LEMMA EnvWith ==
  ASSUME NEW v, NEW c, NEW jb, NEW r, NEW sn, NEW t, NEW n, NEW p, NEW g, NEW x
  PROVE  [Env(v, c, jb, r, sn, t, n, p, g) EXCEPT !.payload = x] = Env(v, c, jb, r, sn, t, n, x, g)
BY DEF Env

LEMMA EnvIs ==
  ASSUME NEW v, NEW c, NEW jb, NEW r, NEW sn, NEW t, NEW n, NEW p, NEW g
  PROVE  LET e == Env(v, c, jb, r, sn, t, n, p, g)
         IN  /\ e.version = v /\ e.class = c /\ e.job = jb /\ e.corr = r /\ e.sender = sn
             /\ e.ts = t /\ e.nonce = n /\ e.payload = p /\ e.sig = g
BY DEF Env

\* The signature is over all but the signature.
LEMMA SignedAlike ==
  ASSUME NEW d, NEW e, fieldValues(d) \in NineFields, fieldValues(e) \in NineFields,
         d.version = e.version, d.class = e.class, d.job = e.job, d.corr = e.corr, d.sender = e.sender,
         d.ts = e.ts, d.nonce = e.nonce, d.payload = e.payload
  PROVE  SignedInput(fieldValues(d)) = SignedInput(fieldValues(e))
<1>1. PICK f : f = fieldValues(d)
  OBVIOUS
<1>2. PICK g : g = fieldValues(e)
  OBVIOUS
<1>3. /\ f[1] = <<d.version>> /\ f[2] = d.class /\ f[3] = d.job /\ f[4] = d.corr /\ f[5] = d.sender
      /\ f[6] = d.ts /\ f[7] = d.nonce /\ f[8] = d.payload
  BY <1>1, FieldValuesAre
<1>4. /\ g[1] = <<e.version>> /\ g[2] = e.class /\ g[3] = e.job /\ g[4] = e.corr /\ g[5] = e.sender
      /\ g[6] = e.ts /\ g[7] = e.nonce /\ g[8] = e.payload
  BY <1>2, FieldValuesAre
<1>5. /\ f[1] = g[1] /\ f[2] = g[2] /\ f[3] = g[3] /\ f[4] = g[4]
      /\ f[5] = g[5] /\ f[6] = g[6] /\ f[7] = g[7] /\ f[8] = g[8]
  BY <1>3, <1>4
<1>6. \A k \in 1..(Fields - 1) : f[k] = g[k]
  BY <1>5 DEF Fields
<1>7. SignedInput(f) = SignedInput(g)
  BY <1>1, <1>2, <1>6, SignedInputDetermines
<1> QED
  BY <1>1, <1>2, <1>7

\* A new box's bytes.
LEMMA BoxBytes ==
  ASSUME NEW p \in Seq(Nat), Listed(sealed)
  PROVE  BoxOf(p) \in Seq(Nat) /\ Len(BoxOf(p)) >= 2 /\ BoxOf(p)[1] = Len(sealed) + 1
<1>1. PICK n \in Nat : n = Len(sealed) + 1
  <2>1. Len(sealed) \in Nat
    BY DEF Listed
  <2> QED
    BY <2>1
<1>2. PICK h : h = <<n, n>>
  OBVIOUS
<1>3. h \in Seq(Nat) /\ Len(h) = 2 /\ h[1] = n
  BY <1>2
<1>4. PICK z : z = [i \in 1..Len(p) |-> 0]
  OBVIOUS
<1>5. z \in Seq(Nat) /\ Len(z) \in Nat
  <2>1. Len(p) \in Nat
    BY LenProperties
  <2> QED
    BY <1>4, <2>1
<1>6. /\ h \o z \in Seq(Nat) /\ Len(h \o z) = Len(h) + Len(z)
      /\ \A i \in 1..(Len(h) + Len(z)) : (h \o z)[i] = IF i <= Len(h) THEN h[i] ELSE z[i - Len(h)]
  BY <1>3, <1>5, ConcatProperties, Zenon
<1>7. Len(h \o z) >= 2 /\ (h \o z)[1] = n
  BY <1>3, <1>5, <1>6
<1>8. BoxOf(p) = h \o z
  BY <1>1, <1>2, <1>4 DEF BoxOf
<1> QED
  BY <1>1, <1>6, <1>7, <1>8

\* What Publish makes: the message with its envelope, its halves and its box.
Publishes(m, s, b) ==
  /\ sent' = Append(sent, m)
  /\ msg' = Coming(Len(sent) + 1, Headers(m.env), Frame(fieldValues(m.env)), FALSE)
  /\ m.subject = s /\ m.plain = b
  /\ signed' = signed \o Halves(KeyOwner(m.env.class, m.env.sender), SignedInput(fieldValues(m.env)))
  /\ IF Encrypted(m.env.class)
     THEN /\ sealed' = Append(sealed, [to |-> Recipient(s), plain |-> b, bytes |-> m.env.payload])
          /\ m.env.payload = BoxOf(b)
     ELSE sealed' = sealed /\ m.env.payload = b

LEMMA PublishMakes ==
  ASSUME MInv, Wire, NEW i \in Principals, NEW s \in Subjects, NEW b \in Plain, Publish(i, s, b)
  PROVE  \E m : m.from = i.name /\ Made(m, Len(sent) + 1) /\ Publishes(m, s, b)
<1> DEFINE c == Compose(i.name, s, b)
           boxed == IF Encrypted(c.class) THEN [c EXCEPT !.payload = BoxOf(b)] ELSE c
           e == SignEnvelope(boxed)
           m == [from |-> i.name, who |-> Who(i), subject |-> s, env |-> e, plain |-> b,
                 late |-> i.name \in expired]
           j == Len(sent) + 1
<1>1. /\ Framable(fieldValues(e))
      /\ IF Encrypted(c.class) THEN Seal(Recipient(s), b) ELSE UNCHANGED sealed
      /\ Sign(KeyOwner(c.class, c.sender), boxed)
      /\ sent' = Append(sent, m)
      /\ msg' = [n |-> j, headers |-> Headers(e), bytes |-> Frame(fieldValues(e)), altered |-> FALSE]
  BY Zenon DEF Publish
<1>2. i.name \in Services \cup Named \cup Holders
  BY PrincipalKinds DEF MInv, AsService, AsAgent, AsHolder
<1>3. PICK v, cl, jb, r, sn, t, n :
        /\ v = Version /\ cl = Class[s[4]] /\ jb = (IF InStream(s) \/ s[4] = "event" THEN <<24, 25>> ELSE <<>>)
        /\ r = (IF s[2] = "enroll" THEN Code(s[3]) ELSE <<>>) /\ sn = Code(Speaker(i.name, s))
        /\ t = <<60>> /\ n = <<61 + Len(sent)>>
  OBVIOUS
<1>4. PICK p : p = IF Encrypted(cl) THEN BoxOf(b) ELSE b
  OBVIOUS
<1>5. PICK g : g = <<Len(signed) + 1, Len(signed) + 2>>
  OBVIOUS
<1>6. c = Env(v, cl, jb, r, sn, t, n, b, <<>>)
  BY <1>3 DEF Compose, Env
<1>7. c.class = cl /\ c.sender = sn
  BY <1>6, EnvIs
<1> HIDE DEF c
<1>8. boxed = Env(v, cl, jb, r, sn, t, n, p, <<>>)
  BY <1>4, <1>6, <1>7, EnvWith
<1> HIDE DEF boxed
<1>9. e = Env(v, cl, jb, r, sn, t, n, p, g)
  <2>1. PICK d, o : d = Env(v, cl, jb, r, sn, t, n, p, o) /\ d = boxed
    BY <1>8
  <2>2. e = [d EXCEPT !.sig = g]
    BY <1>5, <2>1, Zenon DEF SignEnvelope, e
  <2>3. [Env(v, cl, jb, r, sn, t, n, p, o) EXCEPT !.sig = g] = Env(v, cl, jb, r, sn, t, n, p, g)
    BY DEF Env
  <2> HIDE DEF e
  <2> QED
    BY <2>1, <2>2, <2>3
<1> HIDE DEF e
<1>10. /\ e.version = v /\ e.class = cl /\ e.job = jb /\ e.corr = r /\ e.sender = sn
       /\ e.ts = t /\ e.nonce = n /\ e.payload = p /\ e.sig = g
  BY <1>9, EnvIs
<1>11. /\ boxed.version = v /\ boxed.class = cl /\ boxed.job = jb /\ boxed.corr = r /\ boxed.sender = sn
       /\ boxed.ts = t /\ boxed.nonce = n /\ boxed.payload = p /\ boxed.sig = <<>>
  BY <1>8, EnvIs
<1>12. m.from = i.name /\ m.subject = s /\ m.plain = b /\ m.env = e
  OBVIOUS
<1> HIDE DEF m
<1>13. /\ Len(sent) \in Nat /\ Len(signed) = 2 * Len(sent) /\ b \in Seq(Nat) /\ Listed(sealed)
  <2>1. Len(sent) \in Nat
    BY DEF MInv, Traffic
  <2> QED
    BY <2>1, MessagingAssumption DEF Wire
<1>14. j \in Nat \ {0} /\ 60 + j = 61 + Len(sent) /\ 2 * j - 1 = Len(signed) + 1 /\ 2 * j = Len(signed) + 2
  BY <1>13
<1>15. p \in Seq(Nat)
  BY <1>4, <1>13, BoxBytes
<1> HIDE DEF j
<1>16. n = <<60 + j>> /\ g = <<2 * j - 1, 2 * j>>
  BY <1>3, <1>5, <1>14
<1>17. jb \in {<<>>, <<24, 25>>}
  BY <1>3
<1>18. Made(m, j)
  BY <1>1, <1>3, <1>10, <1>12, <1>15, <1>16, <1>17 DEF Made
<1>19. fieldValues(e) \in NineFields
  BY <1>2, <1>12, <1>14, <1>18, MadeNine
<1>20. fieldValues(boxed) \in NineFields
  <2>1. PICK f : f = fieldValues(e)
    OBVIOUS
  <2>2. /\ f[1] = <<e.version>> /\ f[2] = e.class /\ f[3] = e.job /\ f[4] = e.corr /\ f[5] = e.sender
        /\ f[6] = e.ts /\ f[7] = e.nonce /\ f[8] = e.payload /\ f[9] = e.sig
    BY <2>1, FieldValuesAre
  <2>3. /\ f[2] \in Seq(Nat) /\ f[3] \in Seq(Nat) /\ f[4] \in Seq(Nat) /\ f[5] \in Seq(Nat)
        /\ f[6] \in Seq(Nat) /\ f[7] \in Seq(Nat) /\ f[8] \in Seq(Nat)
    BY <1>19, <2>1, NineFieldsAre DEF Fields
  <2>4. boxed.version \in Nat
    BY <1>3, <1>11 DEF Version
  <2>5. boxed.sig \in Seq(Nat)
    BY <1>11
  <2>6. /\ boxed.class \in Seq(Nat) /\ boxed.job \in Seq(Nat) /\ boxed.corr \in Seq(Nat) /\ boxed.sender \in Seq(Nat)
        /\ boxed.ts \in Seq(Nat) /\ boxed.nonce \in Seq(Nat) /\ boxed.payload \in Seq(Nat)
    BY <1>10, <1>11, <2>2, <2>3, Zenon
  <2> QED
    BY <2>4, <2>5, <2>6, FieldValuesNine
<1>21. SignedInput(fieldValues(boxed)) = SignedInput(fieldValues(e))
  BY <1>10, <1>11, <1>19, <1>20, SignedAlike
<1>22. signed' = signed \o Halves(KeyOwner(e.class, e.sender), SignedInput(fieldValues(e)))
  BY <1>1, <1>7, <1>10, <1>21 DEF Sign
<1>23. CASE Encrypted(cl)
  <2>1. sealed' = Append(sealed, [to |-> Recipient(s), plain |-> b, bytes |-> BoxOf(b)]) /\ p = BoxOf(b)
    BY <1>1, <1>4, <1>7, <1>23, Zenon DEF Seal
  <2> QED
    BY <1>1, <1>10, <1>12, <1>18, <1>22, <1>23, <2>1 DEF Publishes, Coming, j
<1>24. CASE ~Encrypted(cl)
  <2>1. sealed' = sealed /\ p = b
    BY <1>1, <1>4, <1>7, <1>24
  <2> QED
    BY <1>1, <1>10, <1>12, <1>18, <1>22, <1>24, <2>1 DEF Publishes, Coming, j
<1> QED
  BY <1>23, <1>24

\* An identity on the broker has a known name.
LEMMA PrincipalNamed ==
  ASSUME Credentials, NEW q \in Principals
  PROVE  q.name \in Names
<1>1. CASE \E p \in Services : q = ServiceIdentity(Home, p)
  BY <1>1 DEF Names, ServiceIdentity, Claims
<1>2. CASE \E u \in users : q = u.jwt
  BY <1>2 DEF Names
<1> QED
  BY <1>1, <1>2 DEF Principals

\* Publish keeps the record of what was signed, sealed and sent.
LEMMA PublishWire ==
  ASSUME MInv, Wire, NEW i \in Principals, NEW s \in Subjects, NEW b \in Plain, Publish(i, s, b)
  PROVE  Wire' /\ OnItsWay' /\ Judged'
<1>1. PICK m : m.from = i.name /\ Made(m, Len(sent) + 1) /\ Publishes(m, s, b)
  BY PublishMakes
<1>2. /\ UNCHANGED users /\ verdicts' = {} /\ Len(sent) < MaxMessages
  BY DEF Publish
<1>3. /\ sent' = Append(sent, m)
      /\ msg' = Coming(Len(sent) + 1, Headers(m.env), Frame(fieldValues(m.env)), FALSE)
      /\ m.subject = s /\ m.plain = b
  BY <1>1 DEF Publishes
<1>4. PICK x, y : /\ Halves(KeyOwner(m.env.class, m.env.sender), SignedInput(fieldValues(m.env))) = <<x, y>>
                  /\ signed' = signed \o <<x, y>>
  BY <1>1 DEF Publishes, Halves
<1>5. PICK j \in Nat \ {0} : j = Len(sent) + 1 /\ Len(sent) \in Nat
  BY DEF MInv, Traffic
<1>6. /\ Len(sent') = j /\ sent'[j] = m /\ \A k \in 1..Len(sent) : sent'[k] = sent[k]
  <2>1. Listed(sent)
    BY DEF MInv, Traffic, Listed
  <2> QED
    BY <1>3, <1>5, <2>1, AppendListed
<1>7. /\ Listed(signed') /\ Len(signed') = 2 * j /\ signed'[2 * j - 1] = x /\ signed'[2 * j] = y
      /\ \A k \in 1..Len(signed) : signed'[k] = signed[k]
  <2>1. Listed(signed) /\ Len(signed) = 2 * Len(sent)
    BY DEF Wire
  <2>2. /\ Listed(signed') /\ Len(signed) \in Nat /\ Len(signed') = Len(signed) + 2
        /\ \A k \in 1..Len(signed) : signed'[k] = signed[k]
        /\ signed'[Len(signed) + 1] = x /\ signed'[Len(signed) + 2] = y
    <3>1. WithPair(signed', signed, x, y)
      BY <1>4, <2>1, PairListed
    <3> QED
      BY <3>1 DEF WithPair
  <2>3. 2 * j = Len(signed) + 2 /\ 2 * j - 1 = Len(signed) + 1
    BY <1>5, <2>1
  <2> QED
    BY <2>2, <2>3
<1>8. SignedBy(m, j, signed')
  <2>1. <<x, y>>[1] = x /\ <<x, y>>[2] = y
    OBVIOUS
  <2> QED
    BY <1>4, <1>7, <2>1 DEF SignedBy
<1>9. ASSUME NEW k \in 1..Len(sent)
      PROVE  SignedBy(sent[k], k, signed')
  <2>1. 2 * k - 1 \in 1..Len(signed) /\ 2 * k \in 1..Len(signed)
    BY <1>5 DEF Wire
  <2>2. SignedBy(sent[k], k, signed)
    BY DEF Wire
  <2> QED
    BY <1>7, <2>1, <2>2 DEF SignedBy
<1>10. /\ Listed(sealed') /\ Numbered(sealed') /\ Len(sealed') <= j
       /\ \A n \in 1..Len(sealed) : n \in 1..Len(sealed') /\ sealed'[n] = sealed[n]
       /\ Boxed(m, sealed')
  <2>1. Listed(sealed) /\ Numbered(sealed) /\ Len(sealed) <= Len(sent) /\ Len(sealed) \in Nat
    BY DEF Wire, Listed
  <2>2. CASE Encrypted(m.env.class)
    <3>1. PICK x1 : x1 = [to |-> Recipient(s), plain |-> b, bytes |-> m.env.payload]
      OBVIOUS
    <3>2. sealed' = Append(sealed, x1) /\ m.env.payload = BoxOf(b)
      BY <1>1, <2>2, <3>1 DEF Publishes
    <3>3. x1.to = Recipient(s) /\ x1.plain = b /\ x1.bytes = m.env.payload
      BY <3>1
    <3>4. /\ Listed(sealed') /\ Len(sealed') = Len(sealed) + 1
          /\ \A k \in 1..Len(sealed) : sealed'[k] = sealed[k]
          /\ sealed'[Len(sealed) + 1] = x1
      BY <2>1, <3>2, AppendListed
    <3>5. b \in Seq(Nat)
      BY MessagingAssumption
    <3>6. x1.bytes \in Seq(Nat) /\ Len(x1.bytes) >= 2 /\ x1.bytes[1] = Len(sealed) + 1
      BY <2>1, <3>2, <3>3, <3>5, BoxBytes
    <3>7. Numbered(sealed')
      BY <2>1, <3>4, <3>6 DEF Numbered
    <3>8. Boxed(m, sealed')
      <4>1. Len(sealed) + 1 \in 1..Len(sealed')
        BY <2>1, <3>4
      <4> QED
        BY <1>3, <2>2, <3>3, <3>4, <4>1 DEF Boxed
    <3> QED
      BY <1>5, <2>1, <3>4, <3>7, <3>8
  <2>3. CASE ~Encrypted(m.env.class)
    <3>1. sealed' = sealed /\ m.env.payload = b
      BY <1>1, <2>3 DEF Publishes
    <3> QED
      BY <1>3, <1>5, <2>1, <2>3, <3>1 DEF Boxed
  <2> QED
    BY <2>2, <2>3
<1>11. ASSUME NEW k \in 1..Len(sent)
       PROVE  Boxed(sent[k], sealed')
  <2>1. Boxed(sent[k], sealed)
    BY DEF Wire
  <2> QED
    BY <1>10, <2>1 DEF Boxed
<1>12. i.name \in Names /\ Names' = Names
  BY <1>2, PrincipalNamed DEF MInv, Names
<1>13. ASSUME NEW k \in 1..Len(sent')
       PROVE  /\ Made(sent'[k], k) /\ SignedBy(sent'[k], k, signed') /\ Boxed(sent'[k], sealed')
              /\ sent'[k].from \in Names'
  <2>1. CASE k = j
    BY <1>1, <1>5, <1>6, <1>8, <1>10, <1>12, <2>1
  <2>2. CASE k \in 1..Len(sent)
    BY <1>6, <1>9, <1>11, <1>12, <2>2 DEF Wire
  <2> QED
    BY <1>5, <1>6, <2>1, <2>2
<1>14. Wire'
  <2>1. Len(sent') <= MaxMessages /\ Len(signed') = 2 * Len(sent') /\ Len(sealed') <= Len(sent')
    BY <1>2, <1>5, <1>6, <1>7, <1>10, MessagingAssumption
  <2> QED
    BY <1>7, <1>10, <1>13, <2>1 DEF Wire
<1>15. OnItsWay'
  <2>1. fieldValues(m.env) \in NineFields
    <3>1. i.name \in Services \cup Named \cup Holders
      BY <1>12, NamesKnown DEF MInv
    <3> QED
      BY <1>1, <1>3, <1>5, <3>1, MadeNine
  <2>2. Frame(fieldValues(m.env)) \in Seq(Nat)
    BY <2>1, FrameBytes
  <2>3. AsSent(sent'[Len(sent')], Headers(m.env), Frame(fieldValues(m.env)))
    BY <1>6 DEF AsSent
  <2>4. msg' = Coming(Len(sent'), Headers(m.env), Frame(fieldValues(m.env)), FALSE)
    BY <1>3, <1>5, <1>6
  <2> QED
    BY <2>2, <2>3, <2>4 DEF OnItsWay
<1>16. Judged'
  BY <1>2 DEF Judged, Authentic, HonestAccepted
<1> QED
  BY <1>14, <1>15, <1>16

----------------------------------------------------------------------------
(* Altering.                                                               *)

\* A sequence with one element replaced.
LEMMA WithElement ==
  ASSUME NEW S, NEW q \in Seq(S), NEW n \in Nat, Len(q) = n, NEW k \in 1..n, NEW x \in S
  PROVE  [q EXCEPT ![k] = x] \in Seq(S) /\ Len([q EXCEPT ![k] = x]) = n
BY ExceptSeq

\* A list of fields with one of them replaced.
LEMMA WithField ==
  ASSUME NEW f \in NineFields, NEW k \in 1..9, NEW v \in Seq(Nat)
  PROVE  [f EXCEPT ![k] = v] \in NineFields
<1>1. f \in Seq(Seq(Nat)) /\ Len(f) = 9 /\ 9 \in Nat
  BY DEF NineFields, Fields
<1>2. PICK S, n : S = Seq(Nat) /\ n = 9
  OBVIOUS
<1>3. f \in Seq(S) /\ n \in Nat /\ Len(f) = n /\ k \in 1..n /\ v \in S
  BY <1>1, <1>2
<1>4. [f EXCEPT ![k] = v] \in Seq(S) /\ Len([f EXCEPT ![k] = v]) = n
  BY <1>3, WithElement
<1> QED
  BY <1>2, <1>4 DEF NineFields, Fields

\* Whatever OtherFields makes of nine fields is nine fields.
LEMMA OtherNine ==
  ASSUME NEW f \in NineFields, Len(f[9]) = 2,
         \A m \in 1..Len(sent) : fieldValues(sent[m].env) \in NineFields /\ Len(fieldValues(sent[m].env)[9]) = 2,
         NEW g \in OtherFields(f)
  PROVE  g \in NineFields
<1> DEFINE Moved == {[f EXCEPT ![i] = Append(@, Head(f[i + 1])), ![i + 1] = Tail(@)] :
                    i \in {k \in 1..(Fields - 1) : f[k + 1] # <<>>}}
           MovedOn == {[f EXCEPT ![i] = Front(@), ![i + 1] = <<Last(f[i])>> \o @] :
                      i \in {k \in 1..(Fields - 1) : f[k] # <<>>}}
           Replaced == {[f EXCEPT ![i] = fieldValues(sent[m].env)[i]] : i \in 1..Fields, m \in 1..Len(sent)}
           Mixed == {[f EXCEPT ![Fields][i] = fieldValues(sent[m].env)[Fields][i]] : i \in 1..2, m \in 1..Len(sent)}
           Unknown == {[f EXCEPT ![1] = <<Version + 1>>], [f EXCEPT ![2] = <<9>>]}
<1>0. \A i \in 1..9 : f[i] \in Seq(Nat)
  BY NineFieldsAre DEF Fields
<1>1. CASE g \in Moved
  <2>1. PICK i \in 1..(Fields - 1) :
          f[i + 1] # <<>> /\ g = [f EXCEPT ![i] = Append(@, Head(f[i + 1])), ![i + 1] = Tail(@)]
    BY <1>1, Zenon
  <2>2. PICK u, v : u = f[i] /\ v = f[i + 1]
    OBVIOUS
  <2>3. i \in 1..9 /\ i + 1 \in 1..9 /\ i # i + 1
    BY DEF Fields
  <2>4. u \in Seq(Nat) /\ v \in Seq(Nat) /\ v # <<>>
    BY <1>0, <2>1, <2>2, <2>3
  <2>5. Head(v) \in Nat /\ Tail(v) \in Seq(Nat)
    BY <2>4, HeadTailProperties
  <2>6. PICK w : w = Append(u, Head(v))
    OBVIOUS
  <2>7. w \in Seq(Nat)
    BY <2>4, <2>5, <2>6, AppendProperties
  <2>8. PICK h : h = [f EXCEPT ![i] = w]
    OBVIOUS
  <2>9. h \in NineFields
    BY <2>3, <2>7, <2>8, WithField
  <2>10. h[i + 1] = v
    BY <2>2, <2>3, <2>8 DEF NineFields
  <2>11. PICK t : t = Tail(v)
    OBVIOUS
  <2>12. [h EXCEPT ![i + 1] = t] \in NineFields
    BY <2>3, <2>5, <2>9, <2>11, WithField
  <2>13. g = [h EXCEPT ![i + 1] = t]
    BY <2>1, <2>2, <2>6, <2>8, <2>10, <2>11
  <2> QED
    BY <2>12, <2>13
<1>2. CASE g \in Replaced
  <2>1. PICK i \in 1..Fields, m \in 1..Len(sent) : g = [f EXCEPT ![i] = fieldValues(sent[m].env)[i]]
    BY <1>2
  <2>2. PICK v : v = fieldValues(sent[m].env)[i]
    OBVIOUS
  <2>3. v \in Seq(Nat) /\ i \in 1..9
    BY <2>2, NineFieldsAre DEF Fields
  <2> QED
    BY <2>1, <2>2, <2>3, WithField
<1>3. CASE g \in Mixed
  <2>1. PICK i \in 1..2, m \in 1..Len(sent) : g = [f EXCEPT ![Fields][i] = fieldValues(sent[m].env)[Fields][i]]
    BY <1>3
  <2>2. PICK v : v = fieldValues(sent[m].env)[9]
    OBVIOUS
  <2>3. v \in Seq(Nat) /\ Len(v) = 2
    BY <2>2, NineFieldsAre DEF Fields
  <2>4. PICK x : x = v[i]
    OBVIOUS
  <2>5. x \in Nat
    BY <2>3, <2>4, ElementOfSeq
  <2>6. PICK s : s = [f[9] EXCEPT ![i] = x]
    OBVIOUS
  <2>7. s \in Seq(Nat)
    <3>1. PICK w : w = f[9]
      OBVIOUS
    <3>2. w \in Seq(Nat) /\ Len(w) = 2
      BY <1>0, <3>1
    <3>3. [w EXCEPT ![i] = x] \in Seq(Nat)
      BY <2>5, <3>2, ExceptSeq
    <3> QED
      BY <2>6, <3>1, <3>3
  <2>8. g = [f EXCEPT ![9] = s]
    BY <2>1, <2>2, <2>4, <2>6 DEF Fields
  <2>9. PICK k \in 1..9 : k = 9
    OBVIOUS
  <2>10. [f EXCEPT ![k] = s] \in NineFields
    BY <2>7, WithField
  <2> QED
    BY <2>8, <2>9, <2>10
<1>4. CASE g \in Unknown
  <2>1. PICK v, w : v = <<Version + 1>> /\ w = <<9>>
    OBVIOUS
  <2>2. v \in Seq(Nat) /\ w \in Seq(Nat)
    BY <2>1 DEF Version
  <2>3. PICK j \in 1..9, k \in 1..9 : j = 1 /\ k = 2
    OBVIOUS
  <2>4. [f EXCEPT ![j] = v] \in NineFields /\ [f EXCEPT ![k] = w] \in NineFields
    BY <2>2, WithField
  <2> QED
    BY <1>4, <2>1, <2>3, <2>4
<1>5. CASE g \in MovedOn
  <2>1. PICK i \in 1..(Fields - 1) :
          f[i] # <<>> /\ g = [f EXCEPT ![i] = Front(@), ![i + 1] = <<Last(f[i])>> \o @]
    BY <1>5, Zenon
  <2>2. PICK u, v : u = f[i] /\ v = f[i + 1]
    OBVIOUS
  <2>3. i \in 1..9 /\ i + 1 \in 1..9 /\ i # i + 1
    BY DEF Fields
  <2>4. u \in Seq(Nat) /\ v \in Seq(Nat) /\ u # <<>>
    BY <1>0, <2>1, <2>2, <2>3
  <2>5. Len(u) \in Nat /\ 1 <= Len(u)
    BY <2>4, EmptySeq
  <2>6. PICK w, z : w = Front(u) /\ z = Last(u)
    OBVIOUS
  <2>7. w \in Seq(Nat)
    <3>1. Cut(u, 1) \in Seq(Nat)
      BY <2>4, <2>5, CutBytes
    <3> QED
      BY <2>6, <3>1 DEF Cut, Front
  <2>8. z \in Nat
    BY <2>4, <2>5, <2>6, ElementOfSeq DEF Last
  <2>9. PICK h : h = [f EXCEPT ![i] = w]
    OBVIOUS
  <2>10. h \in NineFields
    BY <2>3, <2>7, <2>9, WithField
  <2>11. h[i + 1] = v
    BY <2>2, <2>3, <2>9 DEF NineFields
  <2>12. PICK t : t = <<z>> \o v
    OBVIOUS
  <2>13. t \in Seq(Nat)
    BY <2>4, <2>8, <2>12
  <2>14. [h EXCEPT ![i + 1] = t] \in NineFields
    BY <2>3, <2>10, <2>13, WithField
  <2>15. g = [h EXCEPT ![i + 1] = t]
    BY <2>1, <2>2, <2>6, <2>9, <2>11, <2>12
  <2> QED
    BY <2>14, <2>15
<1>6. g \in Moved \cup MovedOn \cup Replaced \cup Mixed \cup Unknown
  BY SMT DEF OtherFields
<1> HIDE DEF Moved, MovedOn, Replaced, Mixed, Unknown
<1> QED
  BY <1>1, <1>2, <1>3, <1>4, <1>5, <1>6

\* Whatever OtherBytes makes of a framed envelope is bytes.
LEMMA OtherBytesAre ==
  ASSUME NEW f \in NineFields, Len(f[9]) = 2, Len(Frame(f)) <= MaxEnvelope,
         \A m \in 1..Len(sent) : fieldValues(sent[m].env) \in NineFields /\ Len(fieldValues(sent[m].env)[9]) = 2,
         NEW b \in OtherBytes(Frame(f))
  PROVE  b \in Seq(Nat)
<1>1. PICK a : a = Frame(f)
  OBVIOUS
<1>2. a \in Seq(Nat) /\ Len(a) \in Nat /\ 1 <= Len(a)
  <2>1. a \in Seq(Nat) /\ Len(a) = Cost3(f, 1) + Cost3(f, 4) + Cost3(f, 7)
    BY <1>1, FrameBytes
  <2>2. Cost3(f, 4) \in Nat /\ Cost3(f, 7) \in Nat
    BY FrameBytes
  <2>3. Cost3(f, 1) >= 1 /\ Cost3(f, 1) \in Nat
    <3>1. Cost3(f, 1) = Cost(f[1], f[2], f[3])
      BY DEF Cost3
    <3>2. Len(f[1]) \in Nat /\ Len(f[2]) \in Nat /\ Len(f[3]) \in Nat
      BY NineFieldsAre DEF Fields
    <3>3. PICK u \in Nat, v \in Nat, w \in Nat : u = Len(f[1]) /\ v = Len(f[2]) /\ w = Len(f[3])
      BY <3>2
    <3>4. Cost3(f, 1) = 3 * PrefixBytes + u + v + w
      BY <3>1, <3>3, Zenon DEF Cost
    <3> QED
      BY <3>4 DEF PrefixBytes
  <2> QED
    BY <2>1, <2>2, <2>3
<1>3. CASE b = SubSeq(a, 1, Len(a) - 1)
  <2>1. 1 \in Nat /\ 1 <= Len(a)
    BY <1>2
  <2>2. Cut(a, 1) \in Seq(Nat)
    BY <1>2, <2>1, CutBytes
  <2> QED
    BY <1>3, <2>2 DEF Cut
<1>4. CASE b = Append(a, 0)
  BY <1>2, <1>4, AppendProperties
<1>5. CASE b = [a EXCEPT ![1] = @ + 1]
  <2>1. PICK x : x = a[1] + 1
    OBVIOUS
  <2>2. x \in Nat
    BY <1>2, <2>1, ElementOfSeq
  <2>3. b = [a EXCEPT ![1] = x]
    BY <1>5, <2>1
  <2> QED
    BY <1>2, <2>2, <2>3, ExceptSeq
<1>6. CASE \E g \in OtherFields(Split(a).fields) : b = Frame(g)
  <2>1. Split(a).fields = f
    BY <1>1, SplitFrame
  <2>2. PICK g \in OtherFields(f) : b = Frame(g)
    BY <1>6, <2>1
  <2>3. g \in NineFields
    BY OtherNine
  <2> QED
    BY <2>2, <2>3, FrameBytes
<1>7. b \in {SubSeq(a, 1, Len(a) - 1), Append(a, 0), [a EXCEPT ![1] = @ + 1]} \cup
           {Frame(g) : g \in OtherFields(Split(a).fields)}
  BY <1>1, Zenon DEF OtherBytes
<1> QED
  BY <1>3, <1>4, <1>5, <1>6, <1>7, Zenon

\* Every message sent has nine fields of bytes, the last of two.
LEMMA SentNine ==
  ASSUME MInv, Wire
  PROVE  \A m \in 1..Len(sent) : fieldValues(sent[m].env) \in NineFields /\ Len(fieldValues(sent[m].env)[9]) = 2
<1> SUFFICES ASSUME NEW j \in 1..Len(sent)
             PROVE  fieldValues(sent[j].env) \in NineFields /\ Len(fieldValues(sent[j].env)[9]) = 2
  OBVIOUS
<1>1. j \in Nat \ {0} /\ Made(sent[j], j) /\ sent[j].from \in Names
  BY DEF Wire
<1>2. sent[j].subject \in Subjects
  BY DEF MInv, Traffic, SentWell
<1>3. sent[j].from \in Services \cup Named \cup Holders
  BY <1>1, NamesKnown DEF MInv
<1>4. fieldValues(sent[j].env) \in NineFields
  BY <1>1, <1>2, <1>3, MadeNine
<1>5. sent[j].env.sig = <<2 * j - 1, 2 * j>>
  BY <1>1 DEF Made
<1>6. fieldValues(sent[j].env)[9] = sent[j].env.sig
  BY FieldValuesAre
<1> QED
  BY <1>4, <1>5, <1>6

\* Alter keeps all of it.
LEMMA AlterWire ==
  ASSUME MInv, Wire, OnItsWay, Judged, Alter
  PROVE  Wire' /\ OnItsWay' /\ Judged'
<1>1. /\ msg # None /\ ~msg.altered /\ Len(msg.bytes) <= MaxEnvelope
      /\ UNCHANGED <<signed, sealed, server, users, expired, sent, heard, verdicts>>
  BY DEF Alter
<1>2. PICK h, b, a : /\ msg = Coming(Len(sent), h, b, a) /\ b \in Seq(Nat)
                     /\ a = FALSE => AsSent(sent[Len(sent)], h, b)
  BY <1>1 DEF OnItsWay
<1>3. msg.headers = h /\ msg.bytes = b /\ msg.altered = a /\ msg.n = Len(sent)
  BY <1>2 DEF Coming
<1>4. Wire'
  BY <1>1 DEF Wire, Names
<1>5. Judged'
  BY <1>1 DEF Judged, Authentic, HonestAccepted
<1>6. CASE \E x \in OtherBytes(msg.bytes) : msg' = [msg EXCEPT !.bytes = x, !.altered = TRUE]
  <2>1. PICK x \in OtherBytes(b) : msg' = [msg EXCEPT !.bytes = x, !.altered = TRUE]
    BY <1>3, <1>6
  <2>2. PICK y : y = TRUE /\ msg' = Coming(Len(sent), h, x, y)
    <3>1. PICK y : y = TRUE
      OBVIOUS
    <3>2. PICK q : q = [msg EXCEPT !.bytes = x]
      OBVIOUS
    <3>3. q = Coming(Len(sent), h, x, a)
      BY <1>2, <3>2 DEF Coming
    <3>4. msg' = [q EXCEPT !.altered = y]
      BY <2>1, <3>1, <3>2
    <3>5. msg' = Coming(Len(sent), h, x, y)
      BY <3>3, <3>4 DEF Coming
    <3> QED
      BY <3>1, <3>5
  <2>3. PICK j : j = Len(sent) /\ j \in 1..Len(sent)
    BY <1>1, <1>3 DEF MInv, Traffic
  <2>4. PICK f : f = fieldValues(sent[j].env)
    OBVIOUS
  <2>5. b = Frame(f)
    BY <1>1, <1>2, <1>3, <2>3, <2>4 DEF AsSent
  <2>6. f \in NineFields /\ Len(f[9]) = 2
    BY <2>3, <2>4, SentNine
  <2>7. x \in Seq(Nat)
    BY <1>1, <1>3, <2>5, <2>6, SentNine, OtherBytesAre
  <2>8. Len(sent') = Len(sent)
    BY <1>1
  <2> QED
    BY <1>4, <1>5, <2>2, <2>7, <2>8 DEF OnItsWay
<1>7. CASE \E x \in OtherHeaders(msg.headers) : msg' = [msg EXCEPT !.headers = x, !.altered = TRUE]
  <2>1. PICK x : msg' = [msg EXCEPT !.headers = x, !.altered = TRUE]
    BY <1>7
  <2>2. PICK y : y = TRUE /\ msg' = Coming(Len(sent), x, b, y)
    <3>1. PICK y : y = TRUE
      OBVIOUS
    <3>2. PICK q : q = [msg EXCEPT !.headers = x]
      OBVIOUS
    <3>3. q = Coming(Len(sent), x, b, a)
      BY <1>2, <3>2 DEF Coming
    <3>4. msg' = [q EXCEPT !.altered = y]
      BY <2>1, <3>1, <3>2
    <3>5. msg' = Coming(Len(sent), x, b, y)
      BY <3>3, <3>4 DEF Coming
    <3> QED
      BY <3>1, <3>5
  <2>3. Len(sent') = Len(sent)
    BY <1>1
  <2> QED
    BY <1>2, <1>4, <1>5, <2>2, <2>3 DEF OnItsWay
<1> QED
  BY <1>6, <1>7 DEF Alter

----------------------------------------------------------------------------
(* Judging.                                                                *)

LEMMA HalvesAre ==
  ASSUME NEW k, NEW x
  PROVE  /\ Halves(k, x)[1].alg = "ed25519" /\ Halves(k, x)[1].over = x
         /\ Halves(k, x)[2].alg = "mldsa65" /\ Halves(k, x)[2].over = x
BY DEF Halves

\* The halves made are pairs, one for each message.
LEMMA HalfOf ==
  ASSUME Wire, Len(sent) \in Nat, NEW n \in DOMAIN signed
  PROVE  \E j \in 1..Len(sent) :
           /\ n = IF signed[n].alg = "ed25519" THEN 2 * j - 1 ELSE 2 * j
           /\ signed[n].alg \in {"ed25519", "mldsa65"}
           /\ signed[n].over = SignedInput(fieldValues(sent[j].env))
<1>1. n \in 1..(2 * Len(sent))
  BY DEF Wire, Listed
<1>2. PICK j \in 1..Len(sent) : n = 2 * j - 1 \/ n = 2 * j
  <2>1. \E j \in 1..Len(sent) : n = 2 * j - 1 \/ n = 2 * j
    <3>1. (n + 1) \div 2 \in 1..Len(sent) /\ (n = 2 * ((n + 1) \div 2) - 1 \/ n = 2 * ((n + 1) \div 2))
      BY <1>1
    <3> QED
      BY <3>1
  <2> QED
    BY <2>1
<1>3. SignedBy(sent[j], j, signed)
  BY DEF Wire
<1>4. PICK k, x : k = KeyOwner(sent[j].env.class, sent[j].env.sender) /\ x = SignedInput(fieldValues(sent[j].env))
  OBVIOUS
<1>5. signed[2 * j - 1] = Halves(k, x)[1] /\ signed[2 * j] = Halves(k, x)[2]
  BY <1>3, <1>4 DEF SignedBy
<1>6. CASE n = 2 * j - 1
  <2>1. signed[n].alg = "ed25519" /\ signed[n].over = x
    BY <1>5, <1>6, HalvesAre
  <2> QED
    BY <1>4, <1>6, <2>1
<1>7. CASE n = 2 * j
  <2>1. signed[n].alg = "mldsa65" /\ signed[n].over = x
    BY <1>5, <1>7, HalvesAre
  <2> QED
    BY <1>4, <1>7, <2>1
<1> QED
  BY <1>2, <1>6, <1>7

\* An envelope that verifies is one that was sent, in all its fields.
LEMMA VerifiedSent ==
  ASSUME MInv, Wire, NEW e, fieldValues(e) \in NineFields, FieldError(fieldValues(e)) = "nil",
         NEW k, VerifyEnvelope(k, e)
  PROVE  \E j \in 1..Len(sent) : fieldValues(e) = fieldValues(sent[j].env)
<1>1. PICK f : f = fieldValues(e)
  OBVIOUS
<1>2. Len(sent) \in Nat
  BY DEF MInv, Traffic
<1>3. PICK x : x = SignedInput(f)
  OBVIOUS
<1>4. PICK g : g = e.sig
  OBVIOUS
<1>5. f[9] = g
  BY <1>1, <1>4, FieldValuesAre
<1>6. Len(g) = 2 /\ g \in Seq(Nat)
  BY <1>1, <1>5, FieldErrorNil, NineFieldsAre DEF Fields
<1>7. /\ g[1] \in DOMAIN signed /\ signed[g[1]] = Halves(k, x)[1]
      /\ g[2] \in DOMAIN signed /\ signed[g[2]] = Halves(k, x)[2]
  BY <1>1, <1>3, <1>4 DEF VerifyEnvelope, HalfVerifies
<1>8. /\ signed[g[1]].alg = "ed25519" /\ signed[g[1]].over = x
      /\ signed[g[2]].alg = "mldsa65" /\ signed[g[2]].over = x
  BY <1>7, HalvesAre
<1>9. PICK i \in 1..Len(sent) : g[1] = 2 * i - 1 /\ x = SignedInput(fieldValues(sent[i].env))
  BY <1>2, <1>7, <1>8, HalfOf
<1>10. PICK j \in 1..Len(sent) : g[2] = 2 * j /\ x = SignedInput(fieldValues(sent[j].env))
  BY <1>2, <1>7, <1>8, HalfOf
<1>11. PICK u, v : u = fieldValues(sent[i].env) /\ v = fieldValues(sent[j].env)
  OBVIOUS
<1>12. u \in NineFields /\ v \in NineFields
  BY <1>11, SentNine
<1>13. SignedInput(f) = SignedInput(u) /\ SignedInput(f) = SignedInput(v)
  BY <1>3, <1>9, <1>10, <1>11
<1>14. (\A n \in 1..(Fields - 1) : f[n] = u[n]) /\ (\A n \in 1..(Fields - 1) : f[n] = v[n])
  BY <1>1, <1>12, <1>13, SignedInputDetermines
<1>15. /\ f[1] = u[1] /\ f[2] = u[2] /\ f[3] = u[3] /\ f[4] = u[4] /\ f[5] = u[5] /\ f[6] = u[6]
       /\ f[7] = u[7] /\ f[8] = u[8] /\ f[7] = v[7]
  BY <1>14 DEF Fields
<1>16. Made(sent[i], i) /\ Made(sent[j], j)
  BY DEF Wire
<1>17. u[7] = <<60 + i>> /\ v[7] = <<60 + j>> /\ u[9] = <<2 * i - 1, 2 * i>>
  <2>1. u[7] = sent[i].env.nonce /\ v[7] = sent[j].env.nonce /\ u[9] = sent[i].env.sig
    BY <1>11, FieldValuesAre
  <2> QED
    BY <1>16, <2>1 DEF Made
<1>18. i = j
  <2>1. <<60 + i>>[1] = <<60 + j>>[1]
    BY <1>15, <1>17
  <2> QED
    BY <2>1
<1>19. g = <<2 * i - 1, 2 * i>>
  <2>1. g = <<g[1], g[2]>>
    BY <1>6
  <2> QED
    BY <1>9, <1>10, <1>18, <2>1
<1>20. f[9] = u[9]
  BY <1>5, <1>17, <1>19
<1>21. f = u
  BY <1>1, <1>12, <1>15, <1>20, SameNine
<1> QED
  BY <1>1, <1>11, <1>21

\* A box is found by its bytes.
LEMMA BoxFound ==
  ASSUME Wire, NEW m \in 1..Len(sealed), NEW n \in 1..Len(sealed), sealed[m].bytes = sealed[n].bytes
  PROVE  m = n
<1>1. sealed[m].bytes[1] = m /\ sealed[n].bytes[1] = n
  BY DEF Wire, Numbered
<1> QED
  BY <1>1

LEMMA VerdictIs ==
  ASSUME NEW q, NEW e, e = Decode(msg.bytes), NEW d, d = DecodeError(msg.bytes),
         NEW s, s = sent[msg.n].subject
  PROVE  Verdict(q) =
           IF d # "nil" THEN d
           ELSE IF Enrolling(s) /\ ~Expected(s, e) THEN "envelope refused"
           ELSE IF ~Enrolling(s) /\ ~CheckHeaders(e, msg.headers) THEN "malformed envelope"
           ELSE IF ~VerifyEnvelope(KeyOwner(e.class, e.sender), e) THEN "signature invalid"
           ELSE IF Encrypted(e.class) /\ Opened(q.name, e) = {} THEN "decryption failed"
           ELSE "accepted"
BY Zenon DEF Verdict

LEMMA VerdictKnown ==
  ASSUME NEW q, msg.bytes \in Seq(Nat)
  PROVE  Verdict(q) \in Refusal \cup {"envelope refused", "accepted"}
<1>1. PICK e, d, s : e = Decode(msg.bytes) /\ d = DecodeError(msg.bytes) /\ s = sent[msg.n].subject
  OBVIOUS
<1>2. d \in Refusal \cup {"nil"}
  BY <1>1, DecodeErrorKnown
<1>3. Verdict(q) \in {d, "envelope refused", "malformed envelope", "signature invalid", "decryption failed", "accepted"}
      /\ (d = "nil" => Verdict(q) # d)
  BY <1>1, VerdictIs
<1> QED
  BY <1>2, <1>3 DEF Refusal

\* What was accepted is a message that was sent, whole, for this receiver.
SentAs(m, s, b, h, to, p) ==
  /\ b = Frame(fieldValues(m.env))
  /\ p = m.plain
  /\ Encrypted(m.env.class) => to = Recipient(m.subject)
  /\ Enrolling(s) => Expected(s, m.env)
  /\ ~Enrolling(s) /\ "class" \in DOMAIN h => h["class"] = m.env.class

LEMMA JudgedAuthentic ==
  ASSUME MInv, Wire, msg.bytes \in Seq(Nat), NEW q, Verdict(q) = "accepted",
         NEW s, s = sent[msg.n].subject
  PROVE  \E j \in 1..Len(sent) : SentAs(sent[j], s, msg.bytes, msg.headers, q.name, PlainOf(q))
<1>1. PICK e : e = Decode(msg.bytes)
  OBVIOUS
<1>2. /\ DecodeError(msg.bytes) = "nil"
      /\ Enrolling(s) => Expected(s, e)
      /\ ~Enrolling(s) => CheckHeaders(e, msg.headers)
      /\ VerifyEnvelope(KeyOwner(e.class, e.sender), e)
      /\ Encrypted(e.class) => Opened(q.name, e) # {}
  <2>1. PICK d : d = DecodeError(msg.bytes)
    OBVIOUS
  <2>2. d \in Refusal \cup {"nil"}
    BY <2>1, DecodeErrorKnown
  <2>3. d # "accepted"
    BY <2>2 DEF Refusal
  <2>4. Verdict(q) =
          IF d # "nil" THEN d
          ELSE IF Enrolling(s) /\ ~Expected(s, e) THEN "envelope refused"
          ELSE IF ~Enrolling(s) /\ ~CheckHeaders(e, msg.headers) THEN "malformed envelope"
          ELSE IF ~VerifyEnvelope(KeyOwner(e.class, e.sender), e) THEN "signature invalid"
          ELSE IF Encrypted(e.class) /\ Opened(q.name, e) = {} THEN "decryption failed"
          ELSE "accepted"
    BY <1>1, <2>1, Zenon DEF Verdict
  <2> QED
    BY <2>1, <2>3, <2>4
<1>3. PICK b : b = msg.bytes
  OBVIOUS
<1>4. fieldValues(e) \in NineFields /\ b = Frame(fieldValues(e)) /\ FieldError(fieldValues(e)) = "nil"
  BY <1>1, <1>2, <1>3, DecodeValues
<1>5. PICK j \in 1..Len(sent) : fieldValues(e) = fieldValues(sent[j].env)
  BY <1>2, <1>4, VerifiedSent
<1>6. PICK m : m = sent[j]
  OBVIOUS
<1>7. /\ e.class = m.env.class /\ e.payload = m.env.payload
      /\ e.sender = m.env.sender /\ e.corr = m.env.corr
  <2>1. PICK f : f = fieldValues(e) /\ f = fieldValues(m.env)
    BY <1>5, <1>6
  <2>2. f[2] = e.class /\ f[4] = e.corr /\ f[5] = e.sender /\ f[8] = e.payload
    BY <2>1, FieldValuesAre
  <2>3. f[2] = m.env.class /\ f[4] = m.env.corr /\ f[5] = m.env.sender /\ f[8] = m.env.payload
    BY <2>1, FieldValuesAre
  <2> QED
    BY <2>2, <2>3
<1>8. Made(m, j) /\ Boxed(m, sealed)
  BY <1>6 DEF Wire
<1>9. PlainOf(q) = m.plain /\ (Encrypted(m.env.class) => q.name = Recipient(m.subject))
  <2>1. PICK n : /\ Opened(q.name, e) # {} => n \in Opened(q.name, e)
                 /\ PlainOf(q) = IF Encrypted(e.class) THEN sealed[n].plain ELSE e.payload
    <3> DEFINE d == Decode(msg.bytes)
               n == CHOOSE i \in Opened(q.name, d) : TRUE
    <3>1. Opened(q.name, d) # {} => n \in Opened(q.name, d)
      OBVIOUS
    <3>2. PlainOf(q) = IF Encrypted(d.class) THEN sealed[n].plain ELSE d.payload
      BY Zenon DEF PlainOf
    <3> HIDE DEF n
    <3> QED
      BY <1>1, <3>1, <3>2
  <2>3. CASE Encrypted(e.class)
    <3>1. n \in Opened(q.name, e)
      BY <1>2, <2>1, <2>3
    <3>2. n \in 1..Len(sealed) /\ sealed[n].to = q.name /\ sealed[n].bytes = e.payload
      BY <3>1 DEF Opened, Wire, Listed
    <3>3. PICK i \in 1..Len(sealed) : /\ sealed[i].to = Recipient(m.subject) /\ sealed[i].plain = m.plain
                                     /\ sealed[i].bytes = m.env.payload
      BY <1>7, <1>8, <2>3 DEF Boxed
    <3>4. n = i
      BY <1>7, <3>2, <3>3, BoxFound
    <3> QED
      BY <2>1, <2>3, <3>2, <3>3, <3>4
  <2>4. CASE ~Encrypted(e.class)
    <3>1. m.env.payload = m.plain
      BY <1>7, <1>8, <2>4 DEF Boxed
    <3> QED
      BY <1>7, <2>1, <2>4, <3>1
  <2> QED
    BY <2>3, <2>4
<1>10. ~Enrolling(s) /\ "class" \in DOMAIN msg.headers => msg.headers["class"] = m.env.class
  BY <1>2, <1>7 DEF CheckHeaders
<1>11. Enrolling(s) => Expected(s, m.env)
  BY <1>2, <1>7, Zenon DEF Expected
<1>12. SentAs(m, s, msg.bytes, msg.headers, q.name, PlainOf(q))
  BY <1>3, <1>4, <1>5, <1>6, <1>9, <1>10, <1>11 DEF SentAs
<1> QED
  BY <1>6, <1>12

\* An envelope's own headers agree with it.
LEMMA HeadersAgree ==
  ASSUME NEW m, m.version = Version, NEW e, e.version = Version, e.class = m.class, e.job = m.job
  PROVE  CheckHeaders(e, Headers(m))
<1>1. PICK t : t = FormatUint(Version) /\ ParseUint(t) = Version
  BY ParseFormat
<1>2. Headers(m) = IF m.class \in {Class["cmd"], Class["cancel"], Class["result"]}
                   THEN [version |-> t, class |-> m.class, job |-> m.job]
                   ELSE [version |-> t, class |-> m.class]
  BY <1>1 DEF Headers
<1>3. PICK h : h = Headers(m)
  OBVIOUS
<1>4. CASE h = [version |-> t, class |-> m.class, job |-> m.job]
  <2>1. h["version"] = t /\ h["class"] = m.class /\ h["job"] = m.job
    BY <1>4
  <2> QED
    BY <1>1, <1>3, <2>1 DEF CheckHeaders
<1>5. CASE h = [version |-> t, class |-> m.class]
  <2>1. h["version"] = t /\ h["class"] = m.class /\ "job" \notin DOMAIN h
    BY <1>5
  <2> QED
    BY <1>1, <1>3, <2>1 DEF CheckHeaders
<1> QED
  BY <1>2, <1>3, <1>4, <1>5

\* Whoever hears an encrypted message is its recipient, and a token that hears or
\* is heard is an identifier.
LEMMA HearerIs ==
  ASSUME MInv, NEW s \in Subjects, NEW q \in Principals, Hears(q, s)
  PROVE  /\ InStream(s) => q.name = Recipient(s)
         /\ s[2] = "enroll" /\ s[4] = "reply" => s[3] \in Holders
<1>1. Who(q) = Receiver(s)
  BY PrincipalKinds, MayHear DEF MInv
<1>2. Who(q)[1] = q.name
  BY DEF Who
<1>3. PICK x, y, z : /\ s[2] = x /\ s[3] = y /\ s[4] = z
                     /\ \/ x = "out" /\ y \in Named /\ z \in {"result", "event", "presence"}
                        \/ x = "job" /\ y \in Named /\ z \in {"cmd", "cancel"}
                        \/ x = "enroll" /\ y \in Token /\ z \in {"request", "reply"}
  BY SubjectTuples
<1>4. ASSUME InStream(s)
      PROVE  q.name = Recipient(s)
  <2>0. z \in {"cmd", "cancel", "result"}
    BY <1>3, <1>4 DEF InStream
  <2>1. x = "job" \/ (x = "out" /\ z = "result")
    BY <1>3, <2>0
  <2>2. CASE x = "job"
    <3>1. Receiver(s) = User(y) /\ Recipient(s) = y
      BY <1>3, <2>2 DEF Receiver, Recipient
    <3> QED
      BY <1>1, <1>2, <3>1 DEF User
  <2>3. CASE x = "out" /\ z = "result"
    <3>1. Receiver(s) = Service("result-consumer") /\ Recipient(s) = "result-consumer"
      BY <1>3, <2>3 DEF Receiver, Recipient
    <3> QED
      BY <1>1, <1>2, <3>1 DEF Service
  <2> QED
    BY <2>1, <2>2, <2>3
<1>5. ASSUME s[2] = "enroll", s[4] = "reply"
      PROVE  s[3] \in Holders
  <2>1. Receiver(s) = User(y) /\ y \in Token
    BY <1>3, <1>5 DEF Receiver
  <2>2. q.name = y
    BY <1>1, <1>2, <2>1 DEF User
  <2>3. q.name \in Services \cup Named \cup Holders
    BY PrincipalKinds DEF MInv, AsService, AsAgent, AsHolder
  <2> QED
    BY <1>3, <2>1, <2>2, <2>3, NamesApart
<1> QED
  BY <1>4, <1>5

\* The sender that SpeakerOn expects is the one who sends on the subject.
LEMMA OnEnrolling ==
  ASSUME NEW s \in Subjects, Enrolling(s), NEW n, n = Sender(s)[1]
  PROVE  Speaker(n, s) = SpeakerOn(s)
<1>1. PICK x, y, z : /\ s[2] = x /\ s[3] = y /\ s[4] = z
                     /\ \/ x = "out" /\ y \in Named /\ z \in {"result", "event", "presence"}
                        \/ x = "job" /\ y \in Named /\ z \in {"cmd", "cancel"}
                        \/ x = "enroll" /\ y \in Token /\ z \in {"request", "reply"}
  BY SubjectTuples
<1>2. CASE z = "request"
  BY <1>1, <1>2 DEF Speaker, SpeakerOn
<1>3. CASE z = "reply"
  <2>1. Sender(s) = Service("enrollment-service")
    BY <1>1, <1>3 DEF Sender
  <2> QED
    BY <1>1, <1>3, <2>1 DEF Service, Speaker, SpeakerOn
<1>4. CASE z = "presence"
  <2>1. Sender(s) = User(y)
    BY <1>1, <1>4 DEF Sender
  <2> QED
    BY <1>1, <1>4, <2>1 DEF User, Speaker, SpeakerOn
<1> QED
  BY <1>1, <1>2, <1>3, <1>4 DEF Enrolling

\* A message that arrives as it was sent is accepted by whoever hears it, within the
\* bound, and refused as too large beyond it.
LEMMA JudgedHonest ==
  ASSUME MInv, Wire, NEW j \in 1..Len(sent), msg.n = j, AsSent(sent[j], msg.headers, msg.bytes),
         NEW q \in Principals, Hears(q, sent[j].subject)
  PROVE  Verdict(q) = IF Len(msg.bytes) <= MaxEnvelope THEN "accepted" ELSE "payload too large"
<1>1. PICK m : m = sent[j]
  OBVIOUS
<1>2. /\ Made(m, j) /\ SignedBy(m, j, signed) /\ Boxed(m, sealed) /\ m.from \in Names
      /\ j \in Nat \ {0}
  BY <1>1 DEF Wire
<1>3. m.subject \in Subjects /\ m.who = Sender(m.subject) /\ m.from = m.who[1]
  BY <1>1 DEF MInv, Traffic, SentWell
<1>4. m.from \in Services \cup Named \cup Holders
  BY <1>2, NamesKnown DEF MInv
<1>5. PICK s : s = m.subject
  OBVIOUS
<1>6. s[2] = "enroll" => s[3] \in Holders
  <2> SUFFICES ASSUME s[2] = "enroll" PROVE s[3] \in Holders
    OBVIOUS
  <2>1. s[3] \in Token /\ s[4] \in {"request", "reply"}
    BY <1>3, <1>5, SubjectTuples
  <2>2. CASE s[4] = "reply"
    BY <1>1, <1>3, <1>5, <2>2, HearerIs
  <2>3. CASE s[4] = "request"
    <3>1. Sender(s) = User(s[3])
      BY <2>3 DEF Sender
    <3>2. m.from = s[3]
      BY <1>3, <1>5, <3>1 DEF User
    <3> QED
      BY <1>4, <2>1, <3>2, NamesApart
  <2> QED
    BY <2>1, <2>2, <2>3
<1>7. PICK f : f = fieldValues(m.env)
  OBVIOUS
<1>8. f \in NineFields /\ FieldError(f) = "nil"
  BY <1>2, <1>3, <1>4, <1>5, <1>6, <1>7, MadeNine, MadeDecodes
<1>9. PICK b : b = msg.bytes
  OBVIOUS
<1>10. b = Frame(f) /\ msg.headers = Headers(m.env)
  BY <1>1, <1>7, <1>9 DEF AsSent
<1>11. PICK e, d : e = Decode(b) /\ d = DecodeError(b)
  OBVIOUS
<1>12. CASE ~(Len(b) <= MaxEnvelope)
  <2>1. d = "payload too large"
    BY <1>8, <1>10, <1>11, <1>12, DecodeFrame
  <2>2. Verdict(q) = d
    BY <1>1, <1>5, <1>9, <1>11, <2>1, VerdictIs
  <2> QED
    BY <1>9, <1>12, <2>1, <2>2
<1>13. CASE Len(b) <= MaxEnvelope
  <2>1. d = "nil" /\ fieldValues(e) = f
    BY <1>8, <1>10, <1>11, <1>13, DecodeFrame
  <2>2. /\ <<e.version>> = <<m.env.version>> /\ e.class = m.env.class /\ e.job = m.env.job /\ e.corr = m.env.corr
        /\ e.sender = m.env.sender /\ e.payload = m.env.payload /\ e.sig = m.env.sig
    <3>1. /\ f[1] = <<e.version>> /\ f[2] = e.class /\ f[3] = e.job /\ f[4] = e.corr /\ f[5] = e.sender
          /\ f[8] = e.payload /\ f[9] = e.sig
      BY <2>1, FieldValuesAre
    <3>2. /\ f[1] = <<m.env.version>> /\ f[2] = m.env.class /\ f[3] = m.env.job /\ f[4] = m.env.corr
          /\ f[5] = m.env.sender /\ f[8] = m.env.payload /\ f[9] = m.env.sig
      BY <1>7, FieldValuesAre
    <3> QED
      BY <3>1, <3>2
  <2>3. e.version = Version /\ m.env.version = Version
    <3>1. m.env.version = Version
      BY <1>2 DEF Made
    <3>2. <<e.version>>[1] = e.version /\ <<m.env.version>>[1] = m.env.version
      OBVIOUS
    <3> QED
      BY <2>2, <3>1, <3>2
  <2>4. CheckHeaders(e, msg.headers)
    BY <1>10, <2>2, <2>3, HeadersAgree
  <2>5. Enrolling(s) => Expected(s, e)
    <3> SUFFICES ASSUME Enrolling(s) PROVE Expected(s, e)
      OBVIOUS
    <3>1. Speaker(m.from, s) = SpeakerOn(s)
      BY <1>3, <1>5, OnEnrolling
    <3>2. e.class = Class[s[4]] /\ e.sender = Code(SpeakerOn(s))
      BY <1>2, <1>5, <2>2, <3>1 DEF Made
    <3>3. s[2] = "enroll" => e.corr = Code(s[3])
      BY <1>2, <1>5, <2>2 DEF Made
    <3> QED
      BY <3>2, <3>3 DEF Expected
  <2>6. PICK k : k = KeyOwner(e.class, e.sender)
    OBVIOUS
  <2>7. VerifyEnvelope(k, e)
    <3>1. Known(e.class) /\ Framable(f)
      <4>1. Known(m.env.class)
        BY <1>2, <1>3, ClassBytes DEF Made
      <4> QED
        BY <1>2, <1>7, <2>2, <4>1 DEF Made
    <3>2. e.sig = <<2 * j - 1, 2 * j>>
      BY <1>2, <2>2 DEF Made
    <3>3. Len(e.sig) = 2 /\ e.sig[1] = 2 * j - 1 /\ e.sig[2] = 2 * j
      BY <3>2
    <3>4. 2 * j - 1 \in DOMAIN signed /\ 2 * j \in DOMAIN signed
      <4>1. DOMAIN signed = 1..Len(signed) /\ Len(signed) = 2 * Len(sent) /\ Len(sent) \in Nat
        BY DEF Wire, Listed, MInv, Traffic
      <4> QED
        BY <4>1
    <3>5. /\ signed[2 * j - 1] = Halves(k, SignedInput(f))[1]
          /\ signed[2 * j] = Halves(k, SignedInput(f))[2]
      BY <1>2, <1>7, <2>2, <2>6 DEF SignedBy
    <3>6. \A i \in 1..2 : HalfVerifies(i, e.sig, k, SignedInput(f))
      BY <3>3, <3>4, <3>5 DEF HalfVerifies
    <3> QED
      BY <2>1, <3>1, <3>3, <3>6 DEF VerifyEnvelope, SignatureBytes
  <2>8. Encrypted(e.class) => Opened(q.name, e) # {}
    <3> SUFFICES ASSUME Encrypted(e.class) PROVE Opened(q.name, e) # {}
      OBVIOUS
    <3>1. PICK n \in 1..Len(sealed) : /\ sealed[n].to = Recipient(m.subject) /\ sealed[n].bytes = m.env.payload
      BY <1>2, <2>2 DEF Boxed
    <3>2. InStream(s)
      BY <1>2, <1>3, <1>5, <2>2, ClassBytes DEF Made
    <3>3. q.name = Recipient(s)
      BY <1>1, <1>3, <1>5, <3>2, HearerIs
    <3>4. e.corr = <<>>
      <4>1. s[2] # "enroll"
        BY <1>3, <1>5, <3>2, SubjectTuples DEF InStream
      <4> QED
        BY <1>2, <1>5, <2>2, <4>1 DEF Made
    <3>5. Len(sealed[n].bytes) >= 2 /\ n \in DOMAIN sealed
      BY DEF Wire, Numbered, Listed
    <3>6. n \in Opened(q.name, e)
      BY <1>5, <2>2, <3>1, <3>3, <3>4, <3>5 DEF Opened, SealOverheadBytes
    <3> QED
      BY <3>6
  <2>9. Verdict(q) = "accepted"
    BY <1>1, <1>5, <1>9, <1>11, <2>1, <2>4, <2>5, <2>6, <2>7, <2>8, VerdictIs
  <2> QED
    BY <1>9, <1>13, <2>9
<1> QED
  BY <1>12, <1>13

\* Delivery keeps all of it: what its hearers make of the message is right.
LEMMA DeliverWire ==
  ASSUME MInv, Wire, OnItsWay, Deliver
  PROVE  Wire' /\ OnItsWay' /\ Judged'
<1>1. msg # None /\ msg' = None /\ UNCHANGED <<signed, sealed, users, sent>>
  BY DEF Deliver
<1>2. PICK h, b, a : /\ msg = Coming(Len(sent), h, b, a) /\ b \in Seq(Nat)
                     /\ a = FALSE => AsSent(sent[Len(sent)], h, b)
  BY <1>1 DEF OnItsWay
<1>3. msg.headers = h /\ msg.bytes = b /\ msg.altered = a /\ msg.n = Len(sent)
  BY <1>2 DEF Coming
<1>4. PICK j : j = msg.n /\ j \in 1..Len(sent)
  BY <1>1 DEF MInv, Traffic
<1>5. Wire'
  BY <1>1 DEF Wire, Names
<1>6. OnItsWay'
  BY <1>1 DEF OnItsWay
<1>7. verdicts' = {Judgement(q) : q \in {r \in Principals : Hears(r, sent[j].subject)}}
  BY <1>4 DEF Deliver
<1>8. ASSUME NEW v \in verdicts'
      PROVE  /\ v.verdict \in Refusal \cup {"envelope refused", "accepted"}
             /\ v.verdict = "accepted" => \E i \in 1..Len(sent) : SentAs(sent[i], v.subject, v.bytes, v.headers, v.to, v.plain)
             /\ ~v.altered => v.verdict = IF Len(v.bytes) <= MaxEnvelope THEN "accepted" ELSE "payload too large"
  <2>1. PICK q \in Principals : Hears(q, sent[j].subject) /\ v = Judgement(q)
    BY <1>7
  <2>2. /\ v.verdict = Verdict(q) /\ v.bytes = msg.bytes /\ v.headers = msg.headers /\ v.to = q.name
        /\ v.subject = sent[j].subject /\ v.altered = msg.altered
        /\ v.plain = IF Verdict(q) = "accepted" THEN PlainOf(q) ELSE <<>>
    BY <1>4, <2>1 DEF Judgement
  <2>3. v.verdict \in Refusal \cup {"envelope refused", "accepted"}
    BY <1>2, <1>3, <2>2, VerdictKnown
  <2>4. ASSUME v.verdict = "accepted"
        PROVE  \E i \in 1..Len(sent) : SentAs(sent[i], v.subject, v.bytes, v.headers, v.to, v.plain)
    <3>1. \E i \in 1..Len(sent) : SentAs(sent[i], v.subject, msg.bytes, msg.headers, q.name, PlainOf(q))
      BY <1>2, <1>3, <1>4, <2>2, <2>4, JudgedAuthentic
    <3> QED
      BY <2>2, <2>4, <3>1
  <2>5. ASSUME ~v.altered
        PROVE  v.verdict = IF Len(v.bytes) <= MaxEnvelope THEN "accepted" ELSE "payload too large"
    <3>1. AsSent(sent[j], msg.headers, msg.bytes)
      BY <1>2, <1>3, <1>4, <2>2, <2>5
    <3> QED
      BY <1>4, <2>1, <2>2, <3>1, JudgedHonest
  <2> QED
    BY <2>3, <2>4, <2>5
<1>9. Judged'
  <2>1. \A v \in verdicts' : v.verdict = "accepted" =>
          \E i \in 1..Len(sent') : SentAs(sent'[i], v.subject, v.bytes, v.headers, v.to, v.plain)
    BY <1>1, <1>8
  <2>2. Authentic'
    BY <2>1 DEF Authentic, SentAs
  <2>3. HonestAccepted'
    BY <1>8 DEF HonestAccepted
  <2> QED
    BY <1>8, <2>2, <2>3 DEF Judged
<1> QED
  BY <1>5, <1>6, <1>9

\* The wire's invariant, and every step.
WireInv == MInv /\ Wire /\ OnItsWay /\ Judged

LEMMA WireInvInit == Init => WireInv
<1> SUFFICES ASSUME Init PROVE WireInv
  OBVIOUS
<1>1. MInv
  BY MInvInit
<1>2. signed = <<>> /\ sealed = <<>> /\ sent = <<>> /\ msg = None /\ verdicts = {}
  BY DEF Init
<1>3. Len(<<>>) = 0 /\ <<>> \in Seq({})
  OBVIOUS
<1>4. Listed(signed) /\ Listed(sealed)
  BY <1>2, <1>3 DEF Listed
<1>5. Len(signed) = 0 /\ Len(sealed) = 0 /\ Len(sent) = 0
  BY <1>2, <1>3
<1>6. Wire
  BY <1>4, <1>5, MessagingAssumption DEF Wire, Numbered
<1>7. OnItsWay
  BY <1>2 DEF OnItsWay
<1>8. Judged
  BY <1>2 DEF Judged, Authentic, HonestAccepted
<1> QED
  BY <1>1, <1>6, <1>7, <1>8 DEF WireInv

LEMMA QuietWire ==
  ASSUME Wire, OnItsWay, Judged, UNCHANGED <<signed, sealed, sent, verdicts>>,
         msg' = msg \/ msg' = None, users \subseteq users'
  PROVE  Wire' /\ OnItsWay' /\ Judged'
<1>1. Wire'
  <2>1. Names \subseteq Names'
    BY DEF Names
  <2> QED
    BY <2>1 DEF Wire
<1>2. OnItsWay'
  BY DEF OnItsWay
<1>3. Judged'
  BY DEF Judged, Authentic, HonestAccepted
<1> QED
  BY <1>1, <1>2, <1>3

LEMMA WireInvStep == WireInv /\ [Next]_vars => WireInv'
<1> SUFFICES ASSUME WireInv, [Next]_vars PROVE WireInv'
  OBVIOUS
<1>1. MInv /\ Wire /\ OnItsWay /\ Judged
  BY DEF WireInv
<1>2. MInv'
  BY <1>1, MInvStep
<1>3. ASSUME NEW e \in Files, NEW p \in Files, NEW s \in Seeds, Open(e, p, s)
      PROVE  Wire' /\ OnItsWay' /\ Judged'
  BY <1>1, <1>3, QuietWire DEF Open
<1>4. ASSUME NEW n, NEW g, NEW x, Mint(n, g, x)
      PROVE  Wire' /\ OnItsWay' /\ Judged'
  BY <1>1, <1>4, QuietWire DEF Mint
<1>5. ASSUME NEW t \in Token, Expire(t)
      PROVE  Wire' /\ OnItsWay' /\ Judged'
  BY <1>1, <1>5, QuietWire DEF Expire
<1>6. ASSUME NEW i \in Principals, NEW s \in Subjects, NEW b \in Plain, Publish(i, s, b)
      PROVE  Wire' /\ OnItsWay' /\ Judged'
  BY <1>1, <1>6, PublishWire
<1>7. ASSUME Alter
      PROVE  Wire' /\ OnItsWay' /\ Judged'
  BY <1>1, <1>7, AlterWire
<1>8. ASSUME Deliver
      PROVE  Wire' /\ OnItsWay' /\ Judged'
  BY <1>1, <1>8, DeliverWire
<1>9. ASSUME Lost
      PROVE  Wire' /\ OnItsWay' /\ Judged'
  BY <1>1, <1>9, QuietWire DEF Lost
<1>10. ASSUME UNCHANGED vars
      PROVE  Wire' /\ OnItsWay' /\ Judged'
  BY <1>1, <1>10, QuietWire DEF vars
<1>11. Wire' /\ OnItsWay' /\ Judged'
  BY <1>3, <1>4, <1>5, <1>6, <1>7, <1>8, <1>9, <1>10 DEF Next, MintAgent, MintBootstrap
<1> QED
  BY <1>2, <1>11 DEF WireInv

\* In every reachable state what was signed and sealed is the record of what was
\* sent, the message on its way is bytes, those that were sent if nothing altered
\* it, and what was judged was judged right (Sign, Seal, Frame, Split, Verify).
THEOREM WireInvariance == Spec => []WireInv
BY WireInvInit, WireInvStep, PTL DEF Spec

\* ADR-0005 sections 1 and 4: for any names, payloads and number of messages, and
\* whatever was altered on the way, an envelope that is accepted is byte for byte
\* one that was sent, its payload is what the sender sealed for this receiver, and
\* it is of the subject's class, agent and token on an enrollment or a presence
\* subject, and of the class by which it travelled elsewhere (Split, Decode,
\* OpenEnvelope, CheckHeaders, SignedInput, VerifyEnvelope).
THEOREM AuthenticAlways == Spec => []Authentic
<1>1. WireInv => Authentic
  BY DEF WireInv, Judged
<1> QED
  BY <1>1, WireInvariance, PTL

\* For any bound on envelopes and on fields, one that arrives as it was sent is
\* accepted up to the last byte of the receiver's bound, and refused as too large
\* beyond it (Frame, Split, Decode, Headers, VerifyEnvelope, OpenEnvelope).
THEOREM HonestAcceptedAlways == Spec => []HonestAccepted
<1>1. WireInv => HonestAccepted
  BY DEF WireInv, Judged
<1> QED
  BY <1>1, WireInvariance, PTL

\* The server holds known credentials, every user has a valid name, each message has
\* two halves and at most one box, and every verdict is a known one (Open, Minter,
\* SignEnvelope, Seal, and the verifier's classes of refusal).
THEOREM MessagingTypeAlways == Spec => []MessagingTypeOK
<1>1. WireInv => MessagingTypeOK
  <2> SUFFICES ASSUME WireInv PROVE MessagingTypeOK
    OBVIOUS
  <2>1. Credentials /\ Traffic /\ Wire /\ OnItsWay /\ Judged
    BY DEF WireInv, MInv
  <2>2. server # None => /\ server.minter.signing \in Seeds
                         /\ {server.enrollment, server.presence} \subseteq Jwts
    <3> SUFFICES ASSUME server # None
                 PROVE  /\ server.minter.signing \in Seeds
                        /\ {server.enrollment, server.presence} \subseteq Jwts
      OBVIOUS
    <3>1. PICK d \in Dep : OpenedOn(d)
      BY <2>1 DEF Credentials
    <3>2. server.minter.signing = SigningKey(d)
      BY <3>1 DEF OpenedOn
    <3>3. server.minter.signing \in Seeds
      BY <3>2 DEF Seeds
    <3>4. {server.enrollment, server.presence} \subseteq Jwts
      BY <3>1 DEF OpenedOn, Jwts, Services
    <3> QED
      BY <3>3, <3>4
  <2>3. \A u \in users : u.jwt.name \in Named \cup Token
    <3> SUFFICES ASSUME NEW u \in users PROVE u.jwt.name \in Named \cup Token
      OBVIOUS
    <3>1. CASE MintedAgent(u)
      BY <3>1 DEF MintedAgent, Claims
    <3>2. CASE MintedHolder(u)
      BY <3>2 DEF MintedHolder, Claims, Holders
    <3> QED
      BY <2>1, <3>1, <3>2 DEF Credentials
  <2>4. Len(sent) \in 0..MaxMessages
    BY <2>1, MessagingAssumption DEF Traffic, Wire
  <2>5. msg # None => msg.n = Len(sent)
    BY <2>1 DEF OnItsWay, Coming
  <2> QED
    BY <2>1, <2>2, <2>3, <2>4, <2>5 DEF MessagingTypeOK, Credentials, Wire, Judged
<1> QED
  BY <1>1, WireInvariance, PTL
=============================================================================
