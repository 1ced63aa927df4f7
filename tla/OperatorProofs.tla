--------------------------- MODULE OperatorProofs ----------------------------
(***************************************************************************)
(* Who the operator socket serves and what it records, proved for any      *)
(* number of connections, workers, slots and acts of the peers.            *)
(*                                                                         *)
(* Admission follows a lookup that may have run long before, for a peer    *)
(* whose membership has changed since.  The invariant carries what the     *)
(* lookup knew: a peer that is a member after connecting is in `been`, a   *)
(* connection in the queue or with a worker has connected, so a result of  *)
(* "member" and every stage after it put the connection in `been`.         *)
(*                                                                         *)
(* Two more invariants follow.  Slots counts the goroutines at the places  *)
(* that hold a slot.  AInv ties each answer to its request: an answer is   *)
(* written from the place the goroutine stands at, so AInv says what that  *)
(* place means for the last request read and for the tokens issued.        *)
(***************************************************************************)
EXTENDS OperatorServer, SequenceTheorems, FiniteSetTheorems, TLAPS

Result == {"empty", "member", "outsider", "error"}

\* What the argument needs of types; the counters are no part of it.
Shape ==
  /\ at \in [Conn -> Place]
  /\ lookups \in Seq(Conn)
  /\ working \in [Worker -> Conn \cup {None}]
  /\ result \in [Conn -> Result]
  /\ members \subseteq Conn
  /\ sent \in [Conn -> Seq(Frame)]
  /\ read \in [Conn -> Nat]
  /\ issued \in [Conn -> Nat]
  /\ answers \in [Conn -> Seq(Answer)]

\* A member that has connected was one since it connected.
Known == \A c \in members : at[c] # "new" => c \in been

\* Only connections that exist are looked up.
Asked ==
  /\ \A i \in 1..Len(lookups) : at[lookups[i]] # "new"
  /\ \A w \in Worker : working[w] # None => at[working[w]] # "new"

\* A result of "member", and every stage that follows admission, is a member's.
Justified ==
  \A c \in Conn : result[c] = "member" \/ at[c] \in Served => c \in been

\* A denial on record belongs to a connection that is ending.
Ending ==
  \A c \in Conn :
    /\ at[c] = "denying" => c \in audit
    /\ c \in audit => at[c] \in {"denying", "turned", "closing", "closed"}
    /\ at[c] \notin Served \cup {"closing", "closed"} => read[c] = 0 /\ issued[c] = 0

OInv == Shape /\ Known /\ Asked /\ Justified /\ Ending /\ OutsiderUnserved /\ DenialsOnRecord
----------------------------------------------------------------------------
\* No connection exists yet, so nothing has been asked, served or denied.
LEMMA InitHolds == Init => OInv
<1> SUFFICES ASSUME Init PROVE OInv
  OBVIOUS
<1>1. \A c \in Conn : at[c] = "new" /\ result[c] = "empty" /\ read[c] = 0 /\ issued[c] = 0
                      /\ answers[c] = <<>>
  BY DEF Init
<1>2. lookups = <<>> /\ audit = {}
  BY DEF Init
<1>3. Shape
  BY DEF Init, Shape, Place, Result
<1>4. Known /\ Asked /\ Justified /\ Ending
  BY <1>1, <1>2, <1>3 DEF Init, Shape, Known, Asked, Justified, Ending, Served, PreAuth
<1>5. OutsiderUnserved /\ DenialsOnRecord
  BY <1>1, <1>2 DEF OutsiderUnserved, DenialsOnRecord
<1> QED
  BY <1>3, <1>4, <1>5 DEF OInv

\* A frame written to c is the last of c's answers, if c hears it, and nobody
\* else's.
LEMMA WriteEffect ==
  ASSUME Shape, NEW c \in Conn, NEW a \in Answer, Write(c, a)
  PROVE  /\ answers' \in [Conn -> Seq(Answer)]
         /\ \A d \in Conn \ {c} : answers'[d] = answers[d]
         /\ \A i \in 1..Len(answers'[c]) :
              \/ answers'[c][i] = a
              \/ i \in 1..Len(answers[c]) /\ answers'[c][i] = answers[c][i]
<1>1. CASE c \in gone
  BY <1>1 DEF Write, Shape
<1>2. CASE c \notin gone
  <2>1. answers' = [answers EXCEPT ![c] = Append(@, a)]
    BY <1>2 DEF Write
  <2>2. answers[c] \in Seq(Answer)
    BY DEF Shape
  <2>3. /\ Append(answers[c], a) \in Seq(Answer)
        /\ Len(Append(answers[c], a)) = Len(answers[c]) + 1
        /\ \A i \in 1..Len(answers[c]) : Append(answers[c], a)[i] = answers[c][i]
        /\ Append(answers[c], a)[Len(answers[c]) + 1] = a
    BY <2>2, AppendProperties
  <2>4. answers'[c] = Append(answers[c], a) /\ Len(answers[c]) \in Nat
    BY <2>1, <2>2 DEF Shape
  <2>5. answers' \in [Conn -> Seq(Answer)] /\ \A d \in Conn \ {c} : answers'[d] = answers[d]
    BY <2>1, <2>3 DEF Shape
  <2>6. ASSUME NEW i \in 1..Len(answers'[c])
        PROVE  \/ answers'[c][i] = a
               \/ i \in 1..Len(answers[c]) /\ answers'[c][i] = answers[c][i]
    <3>1. i \in 1..(Len(answers[c]) + 1)
      BY <2>3, <2>4
    <3> QED
      BY <2>3, <2>4, <3>1
  <2> QED
    BY <2>5, <2>6
<1> QED
  BY <1>1, <1>2

\* A step that only moves one goroutine keeps the invariant if the place it moves
\* to is justified.
LEMMA Moves ==
  ASSUME OInv, NEW c \in Conn, NEW l \in Place \ {"new", "denying"},
         at[c] # "new", Goto(c, l),
         l \in Served => c \in been,
         c \in audit => l \in {"turned", "closing", "closed"},
         l \notin Served \cup {"closing", "closed"} =>
           at[c] \notin Served \cup {"closing", "closed"},
         UNCHANGED <<lookups, working, result, group, audit, sent, read, issued, answers>>
  PROVE  OInv'
<1>1. Shape'
  BY DEF OInv, Shape, Goto, group
<1>2. \A d \in Conn : at'[d] = IF d = c THEN l ELSE at[d]
  BY DEF OInv, Shape, Goto
<1>3. Known'
  BY <1>2 DEF OInv, Known, Shape, group
<1>4. Asked'
  <2>1. \A i \in 1..Len(lookups) : lookups[i] \in Conn
    BY DEF OInv, Shape
  <2>2. \A w \in Worker : working[w] \in Conn \cup {None}
    BY DEF OInv, Shape
  <2> QED
    BY <1>2, <2>1, <2>2 DEF OInv, Asked
<1>5. Justified'
  BY <1>2 DEF OInv, Justified, group
<1>6. Ending'
  BY <1>2 DEF OInv, Ending
<1>7. OutsiderUnserved' /\ DenialsOnRecord'
  BY DEF OInv, OutsiderUnserved, DenialsOnRecord, group
<1> QED
  BY <1>1, <1>3, <1>4, <1>5, <1>6, <1>7 DEF OInv

\* What peers and the group database do: connect, write, hang up, join and leave.
LEMMA PeerSteps == ASSUME OInv, NEW c \in Conn, PeerStep(c) PROVE OInv'
<1>1. CASE Connect(c)
  <2>1. /\ at' = [at EXCEPT ![c] = "backlog"] /\ at[c] = "new"
        /\ been' = (IF c \in members THEN been \cup {c} ELSE been)
        /\ UNCHANGED <<lookups, working, result, members, audit, sent, read, issued, answers>>
    BY <1>1 DEF Connect, Step, Goto, pool, client
  <2>2. Shape'
    BY <2>1 DEF OInv, Shape, Place
  <2>3. \A d \in Conn : at'[d] = IF d = c THEN "backlog" ELSE at[d]
    BY <2>1 DEF OInv, Shape
  <2>4. Known' /\ Justified'
    BY <2>1, <2>3 DEF OInv, Shape, Known, Justified, Served
  <2>5. Asked'
    <3>1. \A i \in 1..Len(lookups) : lookups[i] \in Conn
      BY DEF OInv, Shape
    <3>2. \A w \in Worker : working[w] \in Conn \cup {None}
      BY DEF OInv, Shape
    <3> QED
      BY <2>1, <2>3, <3>1, <3>2 DEF OInv, Asked
  <2>6. Ending'
    BY <2>1, <2>3 DEF OInv, Ending, Served
  <2>7. OutsiderUnserved' /\ DenialsOnRecord'
    BY <2>1 DEF OInv, OutsiderUnserved, DenialsOnRecord
  <2> QED
    BY <2>2, <2>4, <2>5, <2>6, <2>7 DEF OInv
<1>2. CASE \E f \in Frame : SendFrame(c, f)
  <2> PICK f \in Frame : SendFrame(c, f)
    BY <1>2
  <2>1. /\ sent' = [sent EXCEPT ![c] = Append(@, f)]
        /\ UNCHANGED <<at, lookups, working, result, members, been, audit, read, issued, answers>>
    BY DEF SendFrame, pool, group
  <2>2. sent[c] \in Seq(Frame)
    BY DEF OInv, Shape
  <2>3. Append(sent[c], f) \in Seq(Frame)
    BY <2>2, AppendProperties
  <2>4. Shape'
    BY <2>1, <2>3 DEF OInv, Shape
  <2> QED
    BY <2>1, <2>4 DEF OInv, Known, Asked, Justified, Ending, OutsiderUnserved, DenialsOnRecord
<1>3. CASE Hangup(c)
  <2>1. UNCHANGED <<at, lookups, working, result, members, been, audit, sent, read, issued, answers>>
    BY <1>3 DEF Hangup, pool, group
  <2> QED
    BY <2>1 DEF OInv, Shape, Known, Asked, Justified, Ending, OutsiderUnserved, DenialsOnRecord
<1>4. CASE Revoke(c) \/ Grant(c)
  <2>1. /\ UNCHANGED <<at, lookups, working, result, audit, sent, read, issued, answers>>
        /\ been \subseteq been' /\ members' \subseteq Conn
        /\ \A d \in members' : at[d] # "new" => d \in members \/ d \in been'
    BY <1>4 DEF Revoke, Grant, pool, OInv, Shape
  <2> QED
    BY <2>1 DEF OInv, Shape, Known, Asked, Justified, Ending, OutsiderUnserved, DenialsOnRecord
<1> QED
  BY <1>1, <1>2, <1>3, <1>4 DEF PeerStep

\* The queue and the workers.
LEMMA LookupSteps ==
  ASSUME OInv, NEW w \in Worker, TakeLookup(w) \/ FinishLookup(w)
  PROVE  OInv'
<1>1. CASE TakeLookup(w)
  <2>1. /\ lookups # <<>>
        /\ working' = [working EXCEPT ![w] = Head(lookups)] /\ lookups' = Tail(lookups)
        /\ UNCHANGED <<at, result, members, been, audit, sent, read, issued, answers>>
    BY <1>1 DEF TakeLookup, group, client
  <2>2. /\ Head(lookups) \in Conn /\ Head(lookups) = lookups[1] /\ 1 \in 1..Len(lookups)
        /\ Tail(lookups) \in Seq(Conn)
        /\ \A i \in 1..Len(Tail(lookups)) :
             i + 1 \in 1..Len(lookups) /\ Tail(lookups)[i] = lookups[i + 1]
    BY <2>1, HeadTailProperties DEF OInv, Shape
  <2>3. Shape'
    BY <2>1, <2>2 DEF OInv, Shape
  <2>4. Asked'
    BY <2>1, <2>2 DEF OInv, Shape, Asked
  <2> QED
    BY <2>1, <2>3, <2>4 DEF OInv, Known, Justified, Ending, OutsiderUnserved, DenialsOnRecord
<1>2. CASE FinishLookup(w)
  <2> DEFINE k == working[w]
  <2>1. PICK r \in {IF k \in members THEN "member" ELSE "outsider", "error"} :
          result' = [result EXCEPT ![k] = r]
    BY <1>2 DEF FinishLookup
  <2>2. /\ k # None /\ working' = [working EXCEPT ![w] = None]
        /\ UNCHANGED <<at, lookups, members, been, audit, sent, read, issued, answers>>
    BY <1>2 DEF FinishLookup, group, client
  <2>3. k \in Conn /\ at[k] # "new"
    BY <2>2 DEF OInv, Shape, Asked
  <2>4. Shape'
    BY <2>1, <2>2 DEF OInv, Shape, Result
  <2>5. r = "member" => k \in been
    BY <2>3, <2>1 DEF OInv, Known
  <2>6. Justified'
    BY <2>1, <2>2, <2>3, <2>5 DEF OInv, Shape, Justified
  <2>7. Asked'
    BY <2>2 DEF OInv, Shape, Asked
  <2> QED
    BY <2>2, <2>4, <2>6, <2>7 DEF OInv, Known, Ending, OutsiderUnserved, DenialsOnRecord
<1> QED
  BY <1>1, <1>2

\* A step of a connection that may be served and is not on record: it reads, acts
\* or is told something that is no denial.
LEMMA Serves ==
  ASSUME OInv, NEW c \in Conn, NEW l \in Place \ {"new", "denying"},
         at[c] # "new", c \in been, c \notin audit, Goto(c, l),
         l \notin Served \cup {"closing", "closed"} => read'[c] = 0 /\ issued'[c] = 0,
         read' \in [Conn -> Nat], issued' \in [Conn -> Nat],
         answers' \in [Conn -> Seq(Answer)],
         \A d \in Conn \ {c} :
           read'[d] = read[d] /\ issued'[d] = issued[d] /\ answers'[d] = answers[d],
         \A i \in 1..Len(answers'[c]) : answers'[c][i] # "authorization_denied",
         UNCHANGED <<lookups, working, result, group, audit, sent>>
  PROVE  OInv'
<1>1. Shape'
  BY DEF OInv, Shape, Goto, group
<1>2. \A d \in Conn : at'[d] = IF d = c THEN l ELSE at[d]
  BY DEF OInv, Shape, Goto
<1>3. Known'
  BY <1>2 DEF OInv, Known, Shape, group
<1>4. Asked'
  <2>1. \A i \in 1..Len(lookups) : lookups[i] \in Conn
    BY DEF OInv, Shape
  <2>2. \A w \in Worker : working[w] \in Conn \cup {None}
    BY DEF OInv, Shape
  <2> QED
    BY <1>2, <2>1, <2>2 DEF OInv, Asked
<1>5. Justified'
  BY <1>2 DEF OInv, Justified, group
<1>6. Ending'
  BY <1>2 DEF OInv, Ending
<1>7. OutsiderUnserved'
  <2> SUFFICES ASSUME NEW d \in Conn \ been
               PROVE  /\ read'[d] = 0 /\ issued'[d] = 0
                      /\ \A i \in 1..Len(answers'[d]) :
                           answers'[d][i] = "authorization_denied"
    BY DEF OutsiderUnserved, group
  <2>1. read'[d] = read[d] /\ issued'[d] = issued[d] /\ answers'[d] = answers[d]
    OBVIOUS
  <2> QED
    BY <2>1 DEF OInv, OutsiderUnserved
<1>8. DenialsOnRecord'
  BY DEF OInv, DenialsOnRecord
<1> QED
  BY <1>1, <1>3, <1>4, <1>5, <1>6, <1>7, <1>8 DEF OInv

\* A connection not on record has been told of no denial, so a frame that is none
\* leaves it so.
LEMMA NoDenial ==
  ASSUME OInv, NEW c \in Conn, c \notin audit,
         NEW a \in Answer \ {"authorization_denied"}, Write(c, a)
  PROVE  /\ answers' \in [Conn -> Seq(Answer)]
         /\ \A d \in Conn \ {c} : answers'[d] = answers[d]
         /\ \A i \in 1..Len(answers'[c]) : answers'[c][i] # "authorization_denied"
<1>1. \A i \in 1..Len(answers[c]) : answers[c][i] # "authorization_denied"
  BY DEF OInv, DenialsOnRecord
<1> QED
  BY <1>1, WriteEffect DEF OInv

\* The accept loop, and handle up to the return of the pre-authorization slot.
LEMMA PreAuthSteps ==
  ASSUME OInv, NEW c \in Conn,
         \/ Accept(c) \/ QueueLookup(c) \/ AuthorizationTimeout(c) \/ ReceiveResult(c)
         \/ RecordDenial(c) \/ WriteDenial(c) \/ Admit(c) \/ EndPreAuth(c)
  PROVE  OInv'
<1> USE DEF pool, group, client
<1>1. CASE Accept(c)
  <2>1. PICK l \in {"accepted", "closed"} : Goto(c, l)
    BY <1>1 DEF Accept
  <2> QED
    BY <1>1, <2>1, Moves DEF Accept, OInv, Ending, Place, PreAuth, Served
<1>2. CASE QueueLookup(c)
  <2>1. /\ at' = [at EXCEPT ![c] = "waiting"] /\ at[c] = "accepted"
        /\ lookups' = Append(lookups, c)
        /\ UNCHANGED <<working, result, members, been, audit, sent, read, issued, answers>>
    BY <1>2 DEF QueueLookup, Step, Goto
  <2>2. \A d \in Conn : at'[d] = IF d = c THEN "waiting" ELSE at[d]
    BY <2>1 DEF OInv, Shape
  <2>3. /\ lookups' \in Seq(Conn)
        /\ \A i \in 1..Len(lookups') :
             \/ lookups'[i] = c
             \/ i \in 1..Len(lookups) /\ lookups'[i] = lookups[i]
    <3>1. /\ Append(lookups, c) \in Seq(Conn)
          /\ Len(Append(lookups, c)) = Len(lookups) + 1
          /\ \A i \in 1..Len(lookups) : Append(lookups, c)[i] = lookups[i]
          /\ Append(lookups, c)[Len(lookups) + 1] = c
      BY AppendProperties DEF OInv, Shape
    <3>2. Len(lookups) \in Nat
      BY DEF OInv, Shape
    <3>3. ASSUME NEW i \in 1..Len(lookups')
          PROVE  \/ lookups'[i] = c
                 \/ i \in 1..Len(lookups) /\ lookups'[i] = lookups[i]
      <4>1. i \in 1..(Len(lookups) + 1)
        BY <2>1, <3>1
      <4> QED
        BY <2>1, <3>1, <3>2, <4>1
    <3> QED
      BY <2>1, <3>1, <3>3
  <2>4. Shape'
    BY <2>1, <2>3 DEF OInv, Shape, Place, PreAuth
  <2>5. Asked'
    <3>1. \A i \in 1..Len(lookups) : lookups[i] \in Conn
      BY DEF OInv, Shape
    <3>2. \A w \in Worker : working[w] \in Conn \cup {None}
      BY DEF OInv, Shape
    <3> QED
      BY <2>1, <2>2, <2>3, <3>1, <3>2 DEF OInv, Asked
  <2>6. Known' /\ Justified'
    BY <2>1, <2>2 DEF OInv, Shape, Known, Justified, Served
  <2>7. Ending'
    BY <2>1, <2>2 DEF OInv, Ending, Served
  <2> QED
    BY <2>1, <2>4, <2>5, <2>6, <2>7 DEF OInv, OutsiderUnserved, DenialsOnRecord
<1>3. CASE AuthorizationTimeout(c)
  BY <1>3, Moves DEF AuthorizationTimeout, OInv, Ending, Place, PreAuth, Served
<1>4. CASE ReceiveResult(c)
  BY <1>4, Moves DEF ReceiveResult, Step, OInv, Ending, Place, PreAuth, Served
<1>5. CASE RecordDenial(c)
  <2>1. CASE Goto(c, "turned") /\ UNCHANGED audit
    BY <1>5, <2>1, Moves DEF RecordDenial, OInv, Ending, Place, PreAuth, Served
  <2>2. CASE Goto(c, "denying") /\ audit' = audit \cup {c}
    <3>1. /\ at' = [at EXCEPT ![c] = "denying"] /\ at[c] = "decided"
          /\ UNCHANGED <<lookups, working, result, members, been, sent, read, issued, answers>>
      BY <1>5, <2>2 DEF RecordDenial, Goto
    <3>2. \A d \in Conn : at'[d] = IF d = c THEN "denying" ELSE at[d]
      BY <3>1 DEF OInv, Shape
    <3>3. Shape'
      BY <3>1 DEF OInv, Shape, Place, PreAuth
    <3>4. Known' /\ Justified'
      BY <3>1, <3>2 DEF OInv, Shape, Known, Justified, Served
    <3>5. Asked'
      <4>1. \A i \in 1..Len(lookups) : lookups[i] \in Conn
        BY DEF OInv, Shape
      <4>2. \A w \in Worker : working[w] \in Conn \cup {None}
        BY DEF OInv, Shape
      <4> QED
        BY <3>1, <3>2, <4>1, <4>2 DEF OInv, Asked
    <3>6. read[c] = 0 /\ issued[c] = 0
      BY <3>1 DEF OInv, Ending, Served
    <3>7. Ending'
      BY <2>2, <3>1, <3>2, <3>6 DEF OInv, Ending, Served
    <3>8. OutsiderUnserved' /\ DenialsOnRecord'
      BY <2>2, <3>1, <3>6 DEF OInv, OutsiderUnserved, DenialsOnRecord
    <3> QED
      BY <3>3, <3>4, <3>5, <3>7, <3>8 DEF OInv
  <2> QED
    BY <1>5, <2>1, <2>2 DEF RecordDenial
<1>6. CASE WriteDenial(c)
  <2>1. /\ Goto(c, "turned") /\ at[c] = "denying" /\ Write(c, "authorization_denied")
        /\ UNCHANGED <<lookups, working, result, members, been, audit, sent, read, issued>>
    BY <1>6 DEF WriteDenial, Step
  <2>2. "authorization_denied" \in Answer
    BY DEF Answer
  <2>3. /\ answers' \in [Conn -> Seq(Answer)]
        /\ \A d \in Conn \ {c} : answers'[d] = answers[d]
        /\ \A i \in 1..Len(answers'[c]) :
             \/ answers'[c][i] = "authorization_denied"
             \/ i \in 1..Len(answers[c]) /\ answers'[c][i] = answers[c][i]
    BY <2>1, <2>2, WriteEffect DEF OInv
  <2>4. c \in audit
    BY <2>1 DEF OInv, Ending
  <2>5. \A d \in Conn : at'[d] = IF d = c THEN "turned" ELSE at[d]
    BY <2>1 DEF OInv, Shape, Goto
  <2>6. Shape'
    BY <2>1, <2>3 DEF OInv, Shape, Goto, Place, PreAuth
  <2>7. Known' /\ Justified' /\ Ending'
    BY <2>1, <2>5 DEF OInv, Shape, Known, Justified, Ending, Served
  <2>8. Asked'
    <3>1. \A i \in 1..Len(lookups) : lookups[i] \in Conn
      BY DEF OInv, Shape
    <3>2. \A w \in Worker : working[w] \in Conn \cup {None}
      BY DEF OInv, Shape
    <3> QED
      BY <2>1, <2>5, <3>1, <3>2 DEF OInv, Asked
  <2>9. OutsiderUnserved' /\ DenialsOnRecord'
    BY <2>1, <2>3, <2>4 DEF OInv, OutsiderUnserved, DenialsOnRecord
  <2> QED
    BY <2>6, <2>7, <2>8, <2>9 DEF OInv
<1>7. CASE Admit(c)
  <2>1. at[c] = "decided" /\ c \in been /\ c \notin audit /\ read[c] = 0 /\ issued[c] = 0
    BY <1>7 DEF Admit, Admissible, OInv, Justified, Ending, Served
  <2>2. CASE Goto(c, "admitted") /\ UNCHANGED answers
    BY <1>7, <2>1, <2>2, Moves DEF Admit, Place, Served
  <2>3. CASE Goto(c, "turned") /\ Write(c, "connection_limit")
    <3>1. /\ answers' \in [Conn -> Seq(Answer)]
          /\ \A d \in Conn \ {c} : answers'[d] = answers[d]
          /\ \A i \in 1..Len(answers'[c]) : answers'[c][i] # "authorization_denied"
      BY <2>1, <2>3, NoDenial DEF Answer
    <3>2. UNCHANGED <<lookups, working, result, members, been, audit, sent, read, issued>>
      BY <1>7 DEF Admit
    <3>3. read' \in [Conn -> Nat] /\ issued' \in [Conn -> Nat]
      BY <3>2 DEF OInv, Shape
    <3> QED
      BY <2>1, <2>3, <3>1, <3>2, <3>3, Serves DEF Place, PreAuth
  <2> QED
    BY <1>7, <2>2, <2>3 DEF Admit
<1>8. CASE EndPreAuth(c)
  BY <1>8, Moves DEF EndPreAuth, Step, OInv, Ending, Justified, Place, PreAuth, Served
<1> QED
  BY <1>1, <1>2, <1>3, <1>4, <1>5, <1>6, <1>7, <1>8

\* serveAuthorized and handle's deferred calls.
LEMMA ServingSteps ==
  ASSUME OInv, NEW c \in Conn,
         \/ ReadFrame(c) \/ ReadEnds(c) \/ Dispatch(c) \/ WriteResponse(c)
         \/ Release(c) \/ Close(c)
  PROVE  OInv'
<1> USE DEF pool, group, client
<1>1. at[c] \in Served => c \in been /\ c \notin audit
  BY DEF OInv, Justified, Ending, Served
<1>2. c \notin audit => \A i \in 1..Len(answers[c]) : answers[c][i] # "authorization_denied"
  BY DEF OInv, DenialsOnRecord
<1>3. CASE ReadFrame(c)
  <2>1. /\ at[c] = "reading" /\ read' = [read EXCEPT ![c] = @ + 1]
        /\ UNCHANGED <<lookups, working, result, members, been, audit, sent, issued>>
    BY <1>3 DEF ReadFrame
  <2>2. c \in been /\ c \notin audit
    BY <1>1, <2>1 DEF Served
  <2>3. PICK l \in {"leaving", "acting"} : Goto(c, l)
    BY <1>3 DEF ReadFrame
  <2>4. /\ answers' \in [Conn -> Seq(Answer)]
        /\ \A d \in Conn \ {c} : answers'[d] = answers[d]
        /\ \A i \in 1..Len(answers'[c]) : answers'[c][i] # "authorization_denied"
    <3>1. CASE Write(c, "frame_too_large")
      BY <2>2, <3>1, NoDenial DEF Answer
    <3>2. CASE UNCHANGED answers
      BY <1>2, <2>2, <3>2 DEF OInv, Shape
    <3> QED
      BY <1>3, <3>1, <3>2 DEF ReadFrame
  <2>5. /\ read' \in [Conn -> Nat] /\ issued' \in [Conn -> Nat]
        /\ \A d \in Conn \ {c} : read'[d] = read[d] /\ issued'[d] = issued[d]
    BY <2>1 DEF OInv, Shape
  <2> QED
    BY <2>1, <2>2, <2>3, <2>4, <2>5, Serves DEF Place, Served
<1>4. CASE ReadEnds(c)
  BY <1>1, <1>4, Moves DEF ReadEnds, Step, Place, Served
<1>5. CASE Dispatch(c)
  <2>1. /\ at[c] = "acting"
        /\ UNCHANGED <<lookups, working, result, members, been, audit, sent, read, answers>>
    BY <1>5 DEF Dispatch
  <2>2. c \in been /\ c \notin audit
    BY <1>1, <2>1 DEF Served
  <2>3. PICK l \in {"created", "leaving", "refused"} : Goto(c, l)
    BY <1>5 DEF Dispatch
  <2>4. issued' = [issued EXCEPT ![c] = @ + 1] \/ UNCHANGED issued
    BY <1>5 DEF Dispatch
  <2>5. /\ read' \in [Conn -> Nat] /\ issued' \in [Conn -> Nat]
        /\ \A d \in Conn \ {c} : read'[d] = read[d] /\ issued'[d] = issued[d]
    <3>1. read \in [Conn -> Nat] /\ issued \in [Conn -> Nat]
      BY DEF OInv, Shape
    <3>2. CASE issued' = [issued EXCEPT ![c] = @ + 1]
      BY <2>1, <3>1, <3>2
    <3>3. CASE UNCHANGED issued
      BY <2>1, <3>1, <3>3
    <3> QED
      BY <2>4, <3>2, <3>3
  <2>6. /\ answers' \in [Conn -> Seq(Answer)]
        /\ \A d \in Conn \ {c} : answers'[d] = answers[d]
        /\ \A i \in 1..Len(answers'[c]) : answers'[c][i] # "authorization_denied"
    BY <1>2, <2>1, <2>2 DEF OInv, Shape
  <2> QED
    BY <2>1, <2>2, <2>3, <2>5, <2>6, Serves DEF Place, Served
<1>6. CASE WriteResponse(c)
  <2>1. /\ at[c] \in {"created", "refused"} /\ Write(c, at[c])
        /\ UNCHANGED <<lookups, working, result, members, been, audit, sent, read, issued>>
    BY <1>6 DEF WriteResponse
  <2>2. c \in been /\ c \notin audit
    BY <1>1, <2>1 DEF Served
  <2>3. PICK l \in {"leaving", "reading"} : Goto(c, l)
    BY <1>6 DEF WriteResponse
  <2>4. at[c] \in Answer \ {"authorization_denied"}
    BY <2>1 DEF Answer
  <2>5. /\ answers' \in [Conn -> Seq(Answer)]
        /\ \A d \in Conn \ {c} : answers'[d] = answers[d]
        /\ \A i \in 1..Len(answers'[c]) : answers'[c][i] # "authorization_denied"
    BY <2>1, <2>2, <2>4, NoDenial
  <2>6. read' \in [Conn -> Nat] /\ issued' \in [Conn -> Nat]
    BY <2>1 DEF OInv, Shape
  <2> QED
    BY <2>1, <2>2, <2>3, <2>5, <2>6, Serves DEF Place, Served
<1>7. CASE Release(c)
  BY <1>7, Moves DEF Release, Place, Served
<1>8. CASE Close(c)
  BY <1>8, Moves DEF Close, Step, Place, Served
<1> QED
  BY <1>3, <1>4, <1>5, <1>6, <1>7, <1>8

\* A restart forgets queue and workers; what was read, told and recorded stays.
LEMMA RestartStep == ASSUME OInv, Restart PROVE OInv'
<1>1. /\ at' = [c \in Conn |-> IF at[c] = "new" THEN "new" ELSE "closed"]
      /\ lookups' = <<>> /\ working' = [w \in Worker |-> None]
      /\ UNCHANGED <<result, members, been, audit, sent, read, issued, answers>>
  BY DEF Restart, group
<1>2. Shape'
  BY <1>1 DEF OInv, Shape, Place
<1>3. Known' /\ Asked' /\ Justified'
  BY <1>1 DEF OInv, Shape, Known, Asked, Justified, Served
<1>4. Ending'
  BY <1>1 DEF OInv, Ending, Served
<1> QED
  BY <1>1, <1>2, <1>3, <1>4 DEF OInv, OutsiderUnserved, DenialsOnRecord

\* The invariant holds in every behaviour of the operator socket: peers, accept
\* loop, goroutines, workers and restarts.
THEOREM OperatorInvariance == Spec => []OInv
<1>1. ASSUME OInv, [Next]_vars PROVE OInv'
  <2>1. CASE \E c \in Conn : PeerStep(c) \/ Accept(c) \/ HandleStep(c)
    BY <1>1, <2>1, PeerSteps, PreAuthSteps, ServingSteps DEF HandleStep
  <2>2. CASE \E w \in Worker : TakeLookup(w) \/ FinishLookup(w)
    BY <1>1, <2>2, LookupSteps
  <2>3. CASE Restart
    BY <1>1, <2>3, RestartStep
  <2>4. CASE UNCHANGED vars
    BY <1>1, <2>4 DEF vars, OInv, Shape, Known, Asked, Justified, Ending, OutsiderUnserved,
                      DenialsOnRecord
  <2> QED
    BY <1>1, <2>1, <2>2, <2>3, <2>4 DEF Next
<1> QED
  BY <1>1, InitHolds, PTL DEF Spec

\* handle serves no peer that was a member at no time since it connected, for any
\* number of connections, however lookups fail or lag.
THEOREM OutsiderUnservedAlways == Spec => []OutsiderUnserved
<1>1. OInv => OutsiderUnserved
  BY DEF OInv
<1> QED
  BY <1>1, OperatorInvariance, PTL

\* handle answers no denial that is not on record, and serves no connection that
\* is (DENY-4), for any number of connections.
THEOREM DenialsOnRecordAlways == Spec => []DenialsOnRecord
<1>1. OInv => DenialsOnRecord
  BY DEF OInv
<1> QED
  BY <1>1, OperatorInvariance, PTL

----------------------------------------------------------------------------
(* Slots.                                                                  *)

\* The connections whose goroutines are at places of S.
Holding(S) == {c \in Conn : at[c] \in S}

Unauthorized == PreAuth \cup {"admitted"}

Slots ==
  /\ SlotsAccounted
  /\ unauth \in 0..MaxUnauthorized /\ authorized \in 0..MaxAuthorized

\* One goroutine moves: a set of places loses it, gains it, or neither.
LEMMA HoldingMoves ==
  ASSUME at \in [Conn -> Place], NEW S, NEW c \in Conn, NEW l, Goto(c, l)
  PROVE  /\ Cardinality(Holding(S)) \in Nat
         /\ at[c] \in S => Cardinality(Holding(S)) > 0
         /\ Cardinality(Holding(S)') = Cardinality(Holding(S))
                                       + (IF l \in S THEN 1 ELSE 0)
                                       - (IF at[c] \in S THEN 1 ELSE 0)
<1>1. \A d \in Conn : at'[d] = IF d = c THEN l ELSE at[d]
  BY DEF Goto
<1>2. IsFiniteSet(Holding(S)) /\ Cardinality(Holding(S)) \in Nat
  BY FS_Subset, FS_CardinalityType, OperatorAssumption DEF Holding
<1>3. Holding(S)' = IF l \in S THEN Holding(S) \cup {c} ELSE Holding(S) \ {c}
  BY <1>1 DEF Holding
<1>4. c \in Holding(S) <=> at[c] \in S
  BY DEF Holding
<1>5. at[c] \in S => Cardinality(Holding(S)) > 0
  BY <1>2, <1>4, FS_EmptySet
<1>6. CASE l \in S
  <2>1. Cardinality(Holding(S) \cup {c}) =
          IF c \in Holding(S) THEN Cardinality(Holding(S)) ELSE Cardinality(Holding(S)) + 1
    BY <1>2, FS_AddElement
  <2>2. Holding(S)' = Holding(S) \cup {c}
    BY <1>3, <1>6
  <2>3. CASE at[c] \in S
    BY <1>2, <1>4, <1>5, <1>6, <2>1, <2>2, <2>3
  <2>4. CASE at[c] \notin S
    BY <1>2, <1>4, <1>6, <2>1, <2>2, <2>4
  <2> QED
    BY <2>3, <2>4
<1>7. CASE l \notin S
  <2>1. Cardinality(Holding(S) \ {c}) =
          IF c \in Holding(S) THEN Cardinality(Holding(S)) - 1 ELSE Cardinality(Holding(S))
    BY <1>2, FS_RemoveElement
  <2>2. Holding(S)' = Holding(S) \ {c}
    BY <1>3, <1>7
  <2>3. CASE at[c] \in S
    BY <1>2, <1>4, <1>5, <1>7, <2>1, <2>2, <2>3
  <2>4. CASE at[c] \notin S
    BY <1>2, <1>4, <1>7, <2>1, <2>2, <2>4
  <2> QED
    BY <2>3, <2>4
<1> QED
  BY <1>2, <1>5, <1>6, <1>7

\* A step that moves one goroutine keeps the slots if it takes and gives back what
\* the move changes.
LEMMA SlotMoves ==
  ASSUME Shape, Slots, NEW c \in Conn, NEW l, Goto(c, l),
         unauth' = unauth + (IF l \in Unauthorized THEN 1 ELSE 0)
                          - (IF at[c] \in Unauthorized THEN 1 ELSE 0),
         authorized' = authorized + (IF l \in Served THEN 1 ELSE 0)
                                  - (IF at[c] \in Served THEN 1 ELSE 0),
         unauth' <= MaxUnauthorized, authorized' <= MaxAuthorized
  PROVE  Slots'
<1>1. at \in [Conn -> Place]
  BY DEF Shape
<1>2. /\ unauth = Cardinality(Holding(Unauthorized))
      /\ authorized = Cardinality(Holding(Served))
  BY DEF Slots, SlotsAccounted, Holding, Unauthorized
<1>3. /\ unauth \in Nat /\ authorized \in Nat
      /\ unauth' = Cardinality(Holding(Unauthorized)')
      /\ authorized' = Cardinality(Holding(Served)')
      /\ at[c] \in Unauthorized => unauth > 0
      /\ at[c] \in Served => authorized > 0
  BY <1>1, <1>2, HoldingMoves
<1>4. SlotsAccounted'
  BY <1>3 DEF SlotsAccounted, Holding, Unauthorized
<1>5. MaxUnauthorized \in Nat /\ MaxAuthorized \in Nat
  BY OperatorAssumption, FS_CardinalityType DEF MaxUnauthorized
<1>6. unauth' \in 0..MaxUnauthorized /\ authorized' \in 0..MaxAuthorized
  BY <1>3, <1>5
<1> QED
  BY <1>4, <1>6 DEF Slots

\* handle takes a slot on the way in and gives it back on every way out (Serve,
\* handle).
LEMMA SlotSteps ==
  ASSUME Shape, Slots, NEW c \in Conn, PeerStep(c) \/ Accept(c) \/ HandleStep(c)
  PROVE  Slots'
<1> USE DEF slots
<1>1. /\ unauth \in 0..MaxUnauthorized /\ authorized \in 0..MaxAuthorized
      /\ MaxUnauthorized \in Nat /\ MaxAuthorized \in Nat
  BY OperatorAssumption, FS_CardinalityType DEF Slots, MaxUnauthorized
<1>2. ASSUME UNCHANGED <<at, slots>> PROVE Slots'
  BY <1>2 DEF Slots, SlotsAccounted
<1>3. ASSUME NEW l, Goto(c, l), UNCHANGED slots,
             l \in Unauthorized <=> at[c] \in Unauthorized, l \in Served <=> at[c] \in Served
      PROVE  Slots'
  <2>1. /\ unauth' = unauth + (IF l \in Unauthorized THEN 1 ELSE 0)
                            - (IF at[c] \in Unauthorized THEN 1 ELSE 0)
        /\ authorized' = authorized + (IF l \in Served THEN 1 ELSE 0)
                                    - (IF at[c] \in Served THEN 1 ELSE 0)
    BY <1>1, <1>3
  <2>2. unauth' <= MaxUnauthorized /\ authorized' <= MaxAuthorized
    BY <1>1, <1>3
  <2> QED
    BY <1>3, <2>1, <2>2, SlotMoves
<1>4. CASE PeerStep(c)
  <2>1. CASE Connect(c)
    BY <1>3, <2>1 DEF Connect, Step, Unauthorized, PreAuth, Served
  <2> QED
    BY <1>2, <1>4, <2>1 DEF PeerStep, SendFrame, Hangup, Revoke, Grant
<1>5. CASE Accept(c)
  <2>1. CASE unauth < MaxUnauthorized
    <3>1. at[c] = "backlog" /\ unauth' = unauth + 1 /\ Goto(c, "accepted") /\ authorized' = authorized
      BY <1>5, <2>1 DEF Accept
    <3> QED
      BY <1>1, <2>1, <3>1, SlotMoves DEF Unauthorized, PreAuth, Served
  <2>2. CASE ~(unauth < MaxUnauthorized)
    BY <1>3, <1>5, <2>2 DEF Accept, Unauthorized, PreAuth, Served
  <2> QED
    BY <2>1, <2>2
<1>6. CASE QueueLookup(c) \/ AuthorizationTimeout(c) \/ ReceiveResult(c) \/ WriteDenial(c)
           \/ ReadEnds(c) \/ Close(c)
  BY <1>3, <1>6 DEF QueueLookup, AuthorizationTimeout, ReceiveResult, WriteDenial, ReadEnds,
                    Close, Step, Unauthorized, PreAuth, Served
<1>7. CASE RecordDenial(c)
  BY <1>3, <1>7 DEF RecordDenial, Unauthorized, PreAuth, Served
<1>8. CASE Admit(c)
  <2>1. CASE authorized < MaxAuthorized /\ authorized' = authorized + 1 /\ Goto(c, "admitted")
    <3>1. at[c] = "decided" /\ unauth' = unauth
      BY <1>8 DEF Admit
    <3> QED
      BY <1>1, <2>1, <3>1, SlotMoves DEF Unauthorized, PreAuth, Served
  <2>2. CASE Goto(c, "turned") /\ UNCHANGED authorized
    BY <1>3, <1>8, <2>2 DEF Admit, Unauthorized, PreAuth, Served
  <2> QED
    BY <1>8, <2>1, <2>2 DEF Admit
<1>9. CASE EndPreAuth(c)
  <2>1. at[c] = "admitted" /\ Goto(c, "reading") /\ unauth' = unauth - 1 /\ authorized' = authorized
    BY <1>9 DEF EndPreAuth, Step
  <2> QED
    BY <1>1, <2>1, SlotMoves DEF Unauthorized, PreAuth, Served
<1>10. CASE ReadFrame(c)
  BY <1>3, <1>10 DEF ReadFrame, Unauthorized, PreAuth, Served
<1>11. CASE Dispatch(c)
  BY <1>3, <1>11 DEF Dispatch, Unauthorized, PreAuth, Served
<1>12. CASE WriteResponse(c)
  BY <1>3, <1>12 DEF WriteResponse, Unauthorized, PreAuth, Served
<1>13. CASE Release(c)
  <2>1. CASE at[c] = "turned" /\ unauth' = unauth - 1 /\ UNCHANGED authorized
    <3>1. Goto(c, "closing")
      BY <1>13 DEF Release
    <3> QED
      BY <1>1, <2>1, <3>1, SlotMoves DEF Unauthorized, PreAuth, Served
  <2>2. CASE at[c] = "leaving" /\ authorized' = authorized - 1 /\ UNCHANGED unauth
    <3>1. Goto(c, "closing")
      BY <1>13 DEF Release
    <3> QED
      BY <1>1, <2>2, <3>1, SlotMoves DEF Unauthorized, PreAuth, Served
  <2> QED
    BY <1>13, <2>1, <2>2 DEF Release
<1> QED
  BY <1>4, <1>5, <1>6, <1>7, <1>8, <1>9, <1>10, <1>11, <1>12, <1>13 DEF HandleStep

\* The slots are accounted for in every behaviour, and within their channels'
\* capacities (newServer, Serve, handle).
THEOREM SlotInvariance == Spec => []Slots
<1>1. Init => Slots
  <2> SUFFICES ASSUME Init PROVE Slots
    OBVIOUS
  <2>1. {c \in Conn : at[c] \in PreAuth \cup {"admitted"}} = {}
        /\ {c \in Conn : at[c] \in Served} = {}
    BY DEF Init, PreAuth, Served
  <2>2. MaxUnauthorized \in Nat /\ MaxAuthorized \in Nat
    BY OperatorAssumption, FS_CardinalityType DEF MaxUnauthorized
  <2>3. Cardinality({}) = 0
    BY FS_EmptySet
  <2>4. unauth = 0 /\ authorized = 0
    BY DEF Init
  <2>5. SlotsAccounted
    BY <2>1, <2>3, <2>4 DEF SlotsAccounted
  <2>6. unauth \in 0..MaxUnauthorized /\ authorized \in 0..MaxAuthorized
    BY <2>2, <2>4
  <2> QED
    BY <2>5, <2>6 DEF Slots
<1>2. OInv /\ Slots /\ [Next]_vars => Slots'
  <2> SUFFICES ASSUME OInv, Slots, [Next]_vars PROVE Slots'
    OBVIOUS
  <2>1. Shape
    BY DEF OInv
  <2>2. CASE \E c \in Conn : PeerStep(c) \/ Accept(c) \/ HandleStep(c)
    BY <2>1, <2>2, SlotSteps
  <2>3. CASE UNCHANGED <<at, slots>>
    BY <2>3 DEF slots, Slots, SlotsAccounted
  <2>4. CASE Restart
    <3>1. /\ {c \in Conn : at'[c] \in PreAuth \cup {"admitted"}} = {}
          /\ {c \in Conn : at'[c] \in Served} = {}
      BY <2>4 DEF Restart, PreAuth, Served
    <3>2. MaxUnauthorized \in Nat /\ MaxAuthorized \in Nat
      BY OperatorAssumption, FS_CardinalityType DEF MaxUnauthorized
    <3>3. Cardinality({}) = 0
      BY FS_EmptySet
    <3>4. unauth' = 0 /\ authorized' = 0
      BY <2>4 DEF Restart
    <3>5. SlotsAccounted'
      BY <3>1, <3>3, <3>4 DEF SlotsAccounted
    <3>6. unauth' \in 0..MaxUnauthorized /\ authorized' \in 0..MaxAuthorized
      BY <3>2, <3>4
    <3> QED
      BY <3>5, <3>6 DEF Slots
  <2> QED
    BY <2>2, <2>3, <2>4 DEF Next, TakeLookup, FinishLookup, vars, slots
<1> QED
  BY <1>1, <1>2, OperatorInvariance, PTL DEF Spec

\* The two channels hold exactly the connections in each stage: no path through
\* handle leaks a slot or returns one twice, for any number of connections and any
\* limits (handle).
THEOREM SlotsAccountedAlways == Spec => []SlotsAccounted
<1>1. Slots => SlotsAccounted
  BY DEF Slots
<1> QED
  BY <1>1, SlotInvariance, PTL

----------------------------------------------------------------------------
(* Requests and answers.                                                   *)

\* How many tokens a sequence of answers tells of.
Created(s) == Cardinality({i \in 1..Len(s) : s[i] = "created"})

\* Not told anything yet.
Fresh == {"new", "backlog", "accepted", "waiting", "decided"}

\* A connection's requests are counted: none is read that was not sent, and none is
\* carried out that was not read.
Paced(c) ==
  /\ Len(sent[c]) <= acts /\ read[c] <= Len(sent[c]) /\ issued[c] <= read[c]
  /\ at[c] = "acting" => issued[c] < read[c]

\* A request that is being answered is the last one read.
AtHand(c) ==
  /\ at[c] \in {"acting", "created", "refused"} => read[c] > 0
  /\ at[c] = "created" => sent[c][read[c]] = "create"
  /\ at[c] = "refused" => sent[c][read[c]] = "refusable"

\* The answers so far are those of the requests so far, but for one that is being
\* answered, or that was when the connection ended.
InOrder(c) ==
  /\ at[c] \in Fresh => answers[c] = <<>>
  /\ at[c] \in Served \/ read[c] > 0 =>
       /\ Len(answers[c]) <= read[c]
       /\ \A i \in 1..Len(answers[c]) : answers[c][i] = Expected(sent[c][i])

\* As long as the client listens, none of them is missing.
NoneMissing(c) ==
  c \notin gone /\ (at[c] \in Served \/ read[c] > 0) =>
    /\ Len(answers[c]) \in {read[c], read[c] - 1}
    /\ at[c] \in {"admitted", "reading"} => Len(answers[c]) = read[c]
    /\ at[c] \in {"acting", "created", "refused"} => Len(answers[c]) = read[c] - 1
    /\ issued[c] - Created(answers[c]) \in {0, 1}
    /\ at[c] \in {"admitted", "reading", "acting", "refused"} => issued[c] = Created(answers[c])
    /\ at[c] = "created" => issued[c] = Created(answers[c]) + 1

Answered(c) == Paced(c) /\ AtHand(c) /\ InOrder(c) /\ NoneMissing(c)
AInv == acts \in 0..MaxActs /\ \A c \in Conn : Answered(c)

\* One more answer tells of one more token if it is "created", and of no more if it
\* is anything else.
LEMMA CreatedAppend ==
  ASSUME NEW s \in Seq(Answer), NEW a \in Answer
  PROVE  /\ Created(s) \in Nat
         /\ a = "created" => Created(Append(s, a)) = Created(s) + 1
         /\ a # "created" => Created(Append(s, a)) = Created(s)
<1> DEFINE T(t) == {i \in 1..Len(t) : t[i] = "created"}
<1>1. Len(s) \in Nat
  BY LenProperties
<1>2. IsFiniteSet(1..Len(s))
  BY <1>1, FS_Interval
<1>3. IsFiniteSet(T(s)) /\ Cardinality(T(s)) \in Nat
  BY <1>2, FS_Subset, FS_CardinalityType
<1>4. /\ Len(Append(s, a)) = Len(s) + 1
      /\ \A i \in 1..Len(s) : Append(s, a)[i] = s[i]
      /\ Append(s, a)[Len(s) + 1] = a
  BY AppendProperties
<1>5. ASSUME a = "created" PROVE Cardinality(T(Append(s, a))) = Cardinality(T(s)) + 1
  <2>1. T(Append(s, a)) = T(s) \cup {Len(s) + 1}
    BY <1>1, <1>4, <1>5
  <2>2. Len(s) + 1 \notin T(s)
    BY <1>1
  <2> HIDE DEF T
  <2> QED
    BY <1>3, <2>1, <2>2, FS_AddElement
<1>6. ASSUME a # "created" PROVE T(Append(s, a)) = T(s)
  BY <1>1, <1>4, <1>6
<1>7. Created(s) = Cardinality(T(s)) /\ Created(Append(s, a)) = Cardinality(T(Append(s, a)))
  BY DEF Created
<1> QED
  BY <1>3, <1>5, <1>6, <1>7

\* A connection that has been told nothing has been told of no token.
LEMMA CreatedNone == Created(<<>>) = 0
<1>1. {i \in 1..Len(<<>>) : <<>>[i] = "created"} = {}
  OBVIOUS
<1> QED
  BY <1>1, FS_EmptySet DEF Created

\* What is known of a connection holds as long as the connection is left alone.
LEMMA Bystander ==
  ASSUME NEW d \in Conn, Shape, Answered(d), acts \in Nat, acts' \in Nat, acts' >= acts,
         at'[d] = at[d], sent'[d] = sent[d], read'[d] = read[d], issued'[d] = issued[d],
         answers'[d] = answers[d], d \in gone' <=> d \in gone
  PROVE  Answered(d)'
<1>1. Len(sent[d]) \in Nat
  BY LenProperties DEF Shape
<1>2. Paced(d)'
  BY <1>1 DEF Answered, Paced
<1>3. AtHand(d)' /\ InOrder(d)' /\ NoneMissing(d)'
  BY DEF Answered, AtHand, InOrder, NoneMissing
<1> QED
  BY <1>2, <1>3 DEF Answered

\* A step of one connection's goroutine or client keeps the invariant if it keeps
\* what is known of that connection.
LEMMA OneConnection ==
  ASSUME NEW c \in Conn, Shape, AInv, acts' \in 0..MaxActs, acts' >= acts, Answered(c)',
         \A d \in Conn \ {c} :
           /\ at'[d] = at[d] /\ sent'[d] = sent[d] /\ read'[d] = read[d]
           /\ issued'[d] = issued[d] /\ answers'[d] = answers[d]
           /\ d \in gone' <=> d \in gone
  PROVE  AInv'
<1>1. MaxActs \in Nat
  BY OperatorAssumption
<1>2. acts \in Nat /\ acts' \in Nat
  BY <1>1 DEF AInv
<1>3. \A d \in Conn \ {c} : Answered(d)'
  BY <1>2, Bystander DEF AInv
<1> QED
  BY <1>3 DEF AInv

\* What the steps of one connection start from.
LEMMA Facts ==
  ASSUME NEW c \in Conn, Shape, Ending, AInv
  PROVE  /\ at[c] \in Place
         /\ read[c] \in Nat /\ issued[c] \in Nat
         /\ sent[c] \in Seq(Frame) /\ Len(sent[c]) \in Nat
         /\ answers[c] \in Seq(Answer) /\ Len(answers[c]) \in Nat
         /\ \A i \in 1..Len(sent[c]) : sent[c][i] \in Frame
         /\ Paced(c) /\ AtHand(c) /\ InOrder(c) /\ NoneMissing(c)
         /\ at[c] \notin Served \cup {"closing", "closed"} => read[c] = 0 /\ issued[c] = 0
         /\ acts \in Nat /\ acts \in 0..MaxActs /\ MaxActs \in Nat
<1>1. MaxActs \in Nat /\ acts \in 0..MaxActs /\ acts \in Nat
  BY OperatorAssumption DEF AInv
<1>2. sent[c] \in Seq(Frame) /\ answers[c] \in Seq(Answer) /\ at[c] \in Place
      /\ read[c] \in Nat /\ issued[c] \in Nat
  BY DEF Shape
<1>3. Len(sent[c]) \in Nat /\ Len(answers[c]) \in Nat /\ \A i \in 1..Len(sent[c]) : sent[c][i] \in Frame
  BY <1>2, LenProperties, ElementOfSeq
<1>4. Paced(c) /\ AtHand(c) /\ InOrder(c) /\ NoneMissing(c)
  BY DEF AInv, Answered
<1> QED
  BY <1>1, <1>2, <1>3, <1>4 DEF Ending

\* The answer to a request.
LEMMA ExpectedAnswers ==
  /\ Expected("create") = "created"
  /\ Expected("refusable") = "refused"
  /\ Expected("oversized") = "frame_too_large"
BY DEF Expected

\* A goroutine that moves on without reading, acting or writing.
LEMMA QuietMove ==
  ASSUME Shape, Ending, AInv, NEW c \in Conn, NEW l, Goto(c, l),
         l \notin {"acting", "created", "refused"},
         l \in Fresh => at[c] \in Fresh,
         l \in Served => at[c] \in Served,
         l \in {"admitted", "reading"} => at[c] = "admitted",
         UNCHANGED <<sent, gone, acts, read, issued, answers>>
  PROVE  AInv'
<1> USE Facts
<1>1. at'[c] = l /\ \A d \in Conn \ {c} : at'[d] = at[d]
  BY DEF Goto, Shape
<1>2. Paced(c)' /\ AtHand(c)' /\ InOrder(c)'
  BY <1>1 DEF Paced, AtHand, InOrder
<1>3. NoneMissing(c)'
  BY <1>1 DEF NoneMissing
<1>4. acts' \in 0..MaxActs /\ acts' >= acts
  OBVIOUS
<1> QED
  BY <1>1, <1>2, <1>3, <1>4, OneConnection DEF Answered

\* The client's own steps: frames written ahead of the answers, a hangup, and
\* whatever becomes of its membership (PeerStep).
LEMMA PeerAnswered ==
  ASSUME Shape, Ending, AInv, NEW c \in Conn, PeerStep(c)
  PROVE  AInv'
<1> USE Facts
<1> USE DEF client, group, slots, pool
<1>1. CASE Connect(c)
  BY <1>1, QuietMove DEF Connect, Step, Fresh, Served
<1>2. ASSUME NEW f \in Frame, SendFrame(c, f) PROVE AInv'
  <2>1. /\ sent'[c] = Append(sent[c], f) /\ acts' = acts + 1 /\ acts < MaxActs
        /\ UNCHANGED <<at, gone, read, issued, answers>>
        /\ \A d \in Conn \ {c} : sent'[d] = sent[d]
    BY <1>2 DEF SendFrame, Act, Shape
  <2>2. /\ Len(sent'[c]) = Len(sent[c]) + 1
        /\ \A i \in 1..Len(sent[c]) : sent'[c][i] = sent[c][i]
    BY <2>1, AppendProperties
  <2>3. Paced(c)'
    BY <2>1, <2>2 DEF Paced
  <2>4. read[c] <= Len(sent[c])
    BY DEF Paced
  <2>5. AtHand(c)'
    BY <2>1, <2>2, <2>4 DEF AtHand
  <2>6. InOrder(c)'
    BY <2>1, <2>2, <2>4 DEF InOrder
  <2>7. NoneMissing(c)'
    BY <2>1 DEF NoneMissing
  <2>8. acts' \in 0..MaxActs /\ acts' >= acts
    BY <2>1
  <2> QED
    BY <2>1, <2>3, <2>5, <2>6, <2>7, <2>8, OneConnection DEF Answered
<1>3. CASE Hangup(c)
  <2>1. /\ acts' = acts + 1 /\ acts < MaxActs /\ gone' = gone \cup {c}
        /\ UNCHANGED <<at, sent, read, issued, answers>>
    BY <1>3 DEF Hangup, Act
  <2>2. Paced(c)' /\ AtHand(c)' /\ InOrder(c)' /\ NoneMissing(c)'
    BY <2>1 DEF Paced, AtHand, InOrder, NoneMissing
  <2>3. acts' \in 0..MaxActs /\ acts' >= acts
    BY <2>1
  <2> QED
    BY <2>1, <2>2, <2>3, OneConnection DEF Answered
<1>4. CASE Revoke(c) \/ Grant(c)
  <2>1. /\ acts' = acts + 1 /\ acts < MaxActs
        /\ UNCHANGED <<at, sent, gone, read, issued, answers>>
    BY <1>4 DEF Revoke, Grant, Act
  <2>2. acts' \in 0..MaxActs /\ acts' >= acts /\ acts' \in Nat
    BY <2>1
  <2>3. Answered(c)'
    BY <2>1, <2>2, Bystander DEF AInv
  <2> QED
    BY <2>1, <2>2, <2>3, OneConnection
<1> QED
  BY <1>1, <1>2, <1>3, <1>4 DEF PeerStep

\* Before authorization a connection is told at most that it is turned away.
LEMMA EarlyAnswered ==
  ASSUME Shape, Ending, AInv, NEW c \in Conn,
         \/ Accept(c) \/ QueueLookup(c) \/ AuthorizationTimeout(c) \/ ReceiveResult(c)
         \/ RecordDenial(c) \/ WriteDenial(c) \/ Admit(c) \/ EndPreAuth(c)
  PROVE  AInv'
<1> USE Facts
<1> USE DEF client
<1>1. CASE Accept(c)
  BY <1>1, QuietMove DEF Accept, Fresh, Served
<1>2. CASE QueueLookup(c) \/ AuthorizationTimeout(c) \/ ReceiveResult(c) \/ EndPreAuth(c)
  BY <1>2, QuietMove DEF QueueLookup, AuthorizationTimeout, ReceiveResult, EndPreAuth, Step,
                         Fresh, Served
<1>3. CASE RecordDenial(c)
  BY <1>3, QuietMove DEF RecordDenial, Fresh, Served
<1>4. ASSUME NEW a \in Answer, Write(c, a), Goto(c, "turned"),
             at[c] \notin Served \cup {"closing", "closed"},
             UNCHANGED <<sent, gone, acts, read, issued>>
      PROVE  AInv'
  <2>1. \A d \in Conn \ {c} : answers'[d] = answers[d]
    BY <1>4, WriteEffect
  <2>2. at'[c] = "turned" /\ \A d \in Conn \ {c} : at'[d] = at[d]
    BY <1>4 DEF Goto, Shape
  <2>3. read'[c] = 0 /\ issued'[c] = 0
    BY <1>4
  <2>4. Paced(c)' /\ AtHand(c)'
    BY <1>4, <2>2, <2>3 DEF Paced, AtHand
  <2>5. InOrder(c)' /\ NoneMissing(c)'
    BY <2>2, <2>3 DEF InOrder, NoneMissing, Fresh, Served
  <2>6. acts' \in 0..MaxActs /\ acts' >= acts
    BY <1>4
  <2> QED
    BY <1>4, <2>1, <2>2, <2>4, <2>5, <2>6, OneConnection DEF Answered
<1>5. CASE WriteDenial(c)
  BY <1>4, <1>5 DEF WriteDenial, Step, Answer, Served
<1>6. CASE Admit(c)
  <2>1. CASE Goto(c, "turned") /\ Write(c, "connection_limit")
    BY <1>4, <1>6, <2>1 DEF Admit, Answer, Served
  <2>2. CASE Goto(c, "admitted") /\ UNCHANGED answers
    <3>1. at[c] = "decided" /\ UNCHANGED <<sent, gone, acts, read, issued, answers>>
      BY <1>6, <2>2 DEF Admit
    <3>2. read[c] = 0 /\ issued[c] = 0
      BY <3>1 DEF Served
    <3>3. answers[c] = <<>>
      BY <3>1 DEF InOrder, Fresh
    <3>4. at'[c] = "admitted" /\ \A d \in Conn \ {c} : at'[d] = at[d]
      BY <2>2 DEF Goto, Shape
    <3>5. Len(answers[c]) = 0 /\ Created(answers[c]) = 0
      BY <3>3, CreatedNone
    <3>6. Paced(c)' /\ AtHand(c)'
      BY <3>1, <3>2, <3>4 DEF Paced, AtHand
    <3>7. InOrder(c)' /\ NoneMissing(c)'
      BY <3>1, <3>2, <3>4, <3>5 DEF InOrder, NoneMissing, Fresh
    <3>8. acts' \in 0..MaxActs /\ acts' >= acts
      BY <3>1
    <3> QED
      BY <3>1, <3>4, <3>6, <3>7, <3>8, OneConnection DEF Answered
  <2> QED
    BY <1>6, <2>1, <2>2 DEF Admit
<1> QED
  BY <1>1, <1>2, <1>3, <1>5, <1>6

\* One frame is read, carried out and answered before the next is read
\* (serveAuthorized, dispatch).
LEMMA ServedAnswered ==
  ASSUME Shape, Ending, AInv, NEW c \in Conn,
         \/ ReadFrame(c) \/ ReadEnds(c) \/ Dispatch(c) \/ WriteResponse(c)
         \/ Release(c) \/ Close(c)
  PROVE  AInv'
<1> USE Facts
<1> USE DEF client
<1>1. CASE Release(c)
  BY <1>1, QuietMove DEF Release, Fresh, Served
<1>2. CASE ReadEnds(c) \/ Close(c)
  BY <1>2, QuietMove DEF ReadEnds, Close, Step, Fresh, Served
\* An answer that is heard is the one due: it is the next, and belongs to the last
\* request read.
<1>3. ASSUME NEW a \in Answer, NEW l, Goto(c, l), Write(c, a), c \notin gone,
             l \in {"reading", "leaving"}, at[c] \in Served,
             UNCHANGED <<sent, gone, acts, issued>>,
             \A d \in Conn \ {c} : read'[d] = read[d],
             read'[c] = Len(answers[c]) + 1, read'[c] <= Len(sent[c]), issued[c] <= read'[c],
             a = Expected(sent[c][read'[c]]),
             issued[c] = Created(answers[c]) + (IF a = "created" THEN 1 ELSE 0)
      PROVE  AInv'
  <2>1. /\ answers'[c] = Append(answers[c], a)
        /\ \A d \in Conn \ {c} : answers'[d] = answers[d]
    BY <1>3 DEF Write, Shape
  <2>2. /\ Len(answers'[c]) = Len(answers[c]) + 1
        /\ \A i \in 1..Len(answers[c]) : answers'[c][i] = answers[c][i]
        /\ answers'[c][Len(answers[c]) + 1] = a
    BY <2>1, AppendProperties
  <2>3. at'[c] = l /\ \A d \in Conn \ {c} : at'[d] = at[d]
    BY <1>3 DEF Goto, Shape
  <2>4. Created(answers[c]) \in Nat /\ Created(answers'[c]) = issued[c]
    <3>1. CASE a = "created"
      BY <1>3, <2>1, <3>1, CreatedAppend
    <3>2. CASE a # "created"
      BY <1>3, <2>1, <3>2, CreatedAppend
    <3> QED
      BY <3>1, <3>2
  <2>5. Paced(c)'
    BY <1>3, <2>3 DEF Paced
  <2>6. AtHand(c)'
    BY <1>3, <2>3 DEF AtHand
  <2>7. ASSUME NEW i \in 1..Len(answers'[c]) PROVE answers'[c][i] = Expected(sent'[c][i])
    <3>1. CASE i = Len(answers[c]) + 1
      BY <1>3, <2>2, <3>1
    <3>2. CASE i # Len(answers[c]) + 1
      <4>1. i \in 1..Len(answers[c])
        BY <2>2, <3>2
      <4> QED
        BY <1>3, <2>2, <4>1 DEF InOrder
    <3> QED
      BY <3>1, <3>2
  <2>8. InOrder(c)'
    BY <1>3, <2>2, <2>3, <2>7 DEF InOrder, Fresh
  <2>9. NoneMissing(c)'
    BY <1>3, <2>2, <2>3, <2>4 DEF NoneMissing
  <2>10. acts' \in 0..MaxActs /\ acts' >= acts
    BY <1>3
  <2> QED
    BY <1>3, <2>1, <2>3, <2>5, <2>6, <2>8, <2>9, <2>10, OneConnection DEF Answered
\* A step that tells the client nothing.
<1>4. ASSUME NEW l, Goto(c, l), UNCHANGED <<sent, gone, acts, answers>>,
             \A d \in Conn \ {c} : read'[d] = read[d] /\ issued'[d] = issued[d],
             Paced(c)', AtHand(c)', InOrder(c)', NoneMissing(c)'
      PROVE  AInv'
  <2>1. \A d \in Conn \ {c} : at'[d] = at[d]
    BY <1>4 DEF Goto, Shape
  <2>2. acts' \in 0..MaxActs /\ acts' >= acts
    BY <1>4
  <2> QED
    BY <1>4, <2>1, <2>2, OneConnection DEF Answered
<1>5. CASE ReadFrame(c)
  <2>1. /\ at[c] = "reading" /\ read[c] < Len(sent[c]) /\ read'[c] = read[c] + 1
        /\ \A d \in Conn \ {c} : read'[d] = read[d]
        /\ UNCHANGED <<sent, gone, acts, issued>>
    BY <1>5 DEF ReadFrame, Shape
  <2>2. issued[c] <= read[c]
    BY DEF Paced
  <2>3. CASE sent[c][read[c] + 1] = "oversized" /\ c \notin gone
    <3>1. Goto(c, "leaving") /\ Write(c, "frame_too_large") /\ "frame_too_large" \in Answer
      BY <1>5, <2>3 DEF ReadFrame, Answer
    <3>2. Len(answers[c]) = read[c] /\ issued[c] = Created(answers[c])
      BY <2>1, <2>3 DEF NoneMissing, Served
    <3>3. "frame_too_large" = Expected(sent[c][read'[c]])
      BY <2>1, <2>3, ExpectedAnswers
    <3>4. issued[c] = Created(answers[c]) + (IF "frame_too_large" = "created" THEN 1 ELSE 0)
      BY <3>2
    <3>5. read'[c] = Len(answers[c]) + 1 /\ read'[c] <= Len(sent[c]) /\ issued[c] <= read'[c]
      BY <2>1, <2>2, <3>2
    <3> QED
      BY <1>3, <2>1, <2>3, <3>1, <3>3, <3>4, <3>5 DEF Served
  <2>4. CASE ~(sent[c][read[c] + 1] = "oversized" /\ c \notin gone)
    <3>1. PICK l \in {"leaving", "acting"} :
            /\ Goto(c, l) /\ UNCHANGED answers
            /\ l = "leaving" => c \in gone
      BY <1>5, <2>4 DEF ReadFrame, Write
    <3>2. at'[c] = l
      BY <3>1 DEF Goto, Shape
    <3>3. Paced(c)'
      BY <2>1, <2>2, <3>1, <3>2 DEF Paced
    <3>4. AtHand(c)'
      BY <2>1, <3>1, <3>2 DEF AtHand
    <3>5. InOrder(c)'
      BY <2>1, <3>1, <3>2 DEF InOrder, Fresh, Served
    <3>6. NoneMissing(c)'
      BY <2>1, <3>1, <3>2, CreatedAppend DEF NoneMissing, Served
    <3> QED
      BY <1>4, <2>1, <3>1, <3>3, <3>4, <3>5, <3>6
  <2> QED
    BY <2>3, <2>4
<1>6. CASE Dispatch(c)
  <2>1. /\ at[c] = "acting" /\ UNCHANGED <<sent, gone, acts, answers, read>>
        /\ \A d \in Conn \ {c} : issued'[d] = issued[d]
    BY <1>6 DEF Dispatch, Shape
  <2>2. PICK l \in {"created", "leaving", "refused"} :
          /\ Goto(c, l)
          /\ issued'[c] = issued[c] + (IF l = "created" THEN 1 ELSE 0)
          /\ l = "created" => sent[c][read[c]] = "create"
          /\ l = "refused" => sent[c][read[c]] = "refusable"
    BY <1>6 DEF Dispatch, Shape
  <2>3. at'[c] = l
    BY <2>2 DEF Goto, Shape
  <2>4. Paced(c)'
    BY <2>1, <2>2, <2>3 DEF Paced
  <2>5. AtHand(c)'
    BY <2>1, <2>2, <2>3 DEF AtHand
  <2>6. InOrder(c)'
    BY <2>1, <2>3 DEF InOrder, Fresh, Served
  <2>7. Created(answers[c]) \in Nat
    BY CreatedAppend DEF Answer
  <2>8. NoneMissing(c)'
    BY <2>1, <2>2, <2>3, <2>7 DEF NoneMissing, Served
  <2> QED
    BY <1>4, <2>1, <2>2, <2>4, <2>5, <2>6, <2>8
<1>7. CASE WriteResponse(c)
  <2>1. /\ at[c] \in {"created", "refused"} /\ Write(c, at[c]) /\ at[c] \in Answer
        /\ UNCHANGED <<sent, gone, acts, read, issued>>
    BY <1>7 DEF WriteResponse, Answer
  <2>2. CASE c \notin gone
    <3>1. Goto(c, "reading")
      BY <1>7, <2>2 DEF WriteResponse
    <3>2. /\ read[c] > 0 /\ Len(answers[c]) = read[c] - 1 /\ at[c] \in Served
          /\ issued[c] = Created(answers[c]) + (IF at[c] = "created" THEN 1 ELSE 0)
      BY <2>1, <2>2 DEF AtHand, NoneMissing, Served
    <3>3. at[c] = Expected(sent[c][read'[c]])
      BY <2>1, ExpectedAnswers DEF AtHand
    <3>4. read'[c] = Len(answers[c]) + 1 /\ read'[c] <= Len(sent[c]) /\ issued[c] <= read'[c]
      BY <2>1, <3>2 DEF Paced
    <3>5. \A d \in Conn \ {c} : read'[d] = read[d]
      BY <2>1
    <3> QED
      BY <1>3, <2>1, <2>2, <3>1, <3>2, <3>3, <3>4, <3>5
  <2>3. CASE c \in gone
    <3>1. PICK l \in {"reading", "leaving"} : Goto(c, l)
      BY <1>7 DEF WriteResponse
    <3>2. at'[c] = l
      BY <3>1 DEF Goto, Shape
    <3>3. UNCHANGED answers
      BY <2>1, <2>3 DEF Write
    <3>4. Paced(c)' /\ AtHand(c)'
      BY <2>1, <3>2 DEF Paced, AtHand
    <3>5. InOrder(c)' /\ NoneMissing(c)'
      BY <2>1, <2>3, <3>2, <3>3 DEF InOrder, NoneMissing, Fresh, Served
    <3> QED
      BY <1>4, <2>1, <3>1, <3>3, <3>4, <3>5
  <2> QED
    BY <2>2, <2>3
<1> QED
  BY <1>1, <1>2, <1>5, <1>6, <1>7

\* A connection's requests are answered in order in every behaviour, and none is
\* left unanswered but the last (serveAuthorized).
THEOREM AnswerInvariance == Spec => []AInv
<1>1. Init => AInv
  <2> SUFFICES ASSUME Init PROVE AInv
    OBVIOUS
  <2>1. acts \in 0..MaxActs
    BY OperatorAssumption DEF Init
  <2>2. ASSUME NEW c \in Conn PROVE Answered(c)
    <3>1. /\ at[c] = "new" /\ sent[c] = <<>> /\ read[c] = 0 /\ issued[c] = 0 /\ answers[c] = <<>>
          /\ acts = 0
      BY DEF Init
    <3>2. Len(sent[c]) = 0
      BY <3>1
    <3> QED
      BY <3>1, <3>2 DEF Answered, Paced, AtHand, InOrder, NoneMissing, Fresh, Served
  <2> QED
    BY <2>1, <2>2 DEF AInv
<1>2. OInv /\ AInv /\ [Next]_vars => AInv'
  <2> SUFFICES ASSUME OInv, AInv, [Next]_vars PROVE AInv'
    OBVIOUS
  <2>1. Shape /\ Ending
    BY DEF OInv
  <2>2. CASE \E c \in Conn : PeerStep(c) \/ Accept(c) \/ HandleStep(c)
    BY <2>1, <2>2, PeerAnswered, EarlyAnswered, ServedAnswered DEF HandleStep
  <2>3. CASE UNCHANGED <<at, client, read, issued, answers>>
    BY <2>3 DEF client, AInv, Answered, Paced, AtHand, InOrder, NoneMissing
  <2>4. CASE Restart
    <3>1. /\ acts' = acts + 1 /\ acts < MaxActs
          /\ UNCHANGED <<sent, gone, read, issued, answers>>
      BY <2>4 DEF Restart, Act
    <3>2. acts \in Nat /\ acts' \in 0..MaxActs /\ acts' \in Nat /\ acts' >= acts
      BY <3>1, OperatorAssumption DEF AInv
    <3>3. ASSUME NEW c \in Conn PROVE Answered(c)'
      <4>1. CASE at[c] = "new"
        <5>1. at'[c] = at[c]
          BY <2>4, <4>1 DEF Restart
        <5> QED
          BY <2>1, <3>1, <3>2, <5>1, Bystander DEF AInv
      <4>2. CASE at[c] # "new"
        <5>1. at'[c] = "closed"
          BY <2>4, <4>2 DEF Restart
        <5>2. Paced(c)' /\ AtHand(c)'
          BY <2>1, <3>1, <5>1, Facts DEF Paced, AtHand
        <5>3. InOrder(c)' /\ NoneMissing(c)'
          BY <2>1, <3>1, <5>1, Facts DEF InOrder, NoneMissing, Fresh, Served
        <5> QED
          BY <5>2, <5>3 DEF Answered
      <4> QED
        BY <4>1, <4>2
    <3> QED
      BY <3>2, <3>3 DEF AInv
  <2> QED
    BY <2>2, <2>3, <2>4 DEF Next, TakeLookup, FinishLookup, vars, client, slots, group
<1> QED
  BY <1>1, <1>2, OperatorInvariance, PTL DEF Spec

\* Answers are in the order of requests, one for one, and a connection leaves at
\* most one operation behind whose outcome its client was not told (LIM-5), for any
\* number of connections and requests (serveAuthorized).
THEOREM OneInFlightAlways == Spec => []OneInFlight
<1>1. AInv => OneInFlight
  <2> SUFFICES ASSUME AInv, NEW c \in Conn, read[c] > 0
               PROVE  /\ Len(answers[c]) \in {read[c], read[c] - 1} \/ c \in gone
                      /\ \A i \in 1..Len(answers[c]) : answers[c][i] = Expected(sent[c][i])
                      /\ c \notin gone => issued[c] - Created(answers[c]) \in {0, 1}
    BY DEF OneInFlight, Created
  <2> QED
    BY DEF AInv, Answered, InOrder, NoneMissing
<1> QED
  BY <1>1, AnswerInvariance, PTL

----------------------------------------------------------------------------
(* Types.                                                                  *)

\* The queue of lookups is a channel of MaxUnauthorizedConnections (newServer).
Within ==
  /\ Len(lookups) <= MaxUnauthorized
  /\ been \subseteq Conn /\ audit \subseteq Conn /\ gone \subseteq Conn

\* The queue never holds more than its channel can.
LEMMA WithinKept == OInv /\ Within /\ [Next]_vars => Within'
<1> SUFFICES ASSUME OInv, Within, [Next]_vars PROVE Within'
  OBVIOUS
<1>1. lookups \in Seq(Conn) /\ MaxUnauthorized \in Nat /\ Len(lookups) \in Nat
  BY OperatorAssumption, FS_CardinalityType, LenProperties DEF OInv, Shape, MaxUnauthorized
<1>2. Len(lookups') <= MaxUnauthorized
  <2>1. CASE \E c \in Conn : QueueLookup(c)
    <3>1. PICK c \in Conn : QueueLookup(c)
      BY <2>1
    <3>2. lookups' = Append(lookups, c) /\ Len(lookups) < MaxUnauthorized
      BY <3>1 DEF QueueLookup
    <3>3. Len(lookups') = Len(lookups) + 1
      BY <1>1, <3>2, AppendProperties
    <3> QED
      BY <1>1, <3>2, <3>3
  <2>2. CASE \E w \in Worker : TakeLookup(w)
    <3>1. lookups # <<>> /\ lookups' = Tail(lookups)
      BY <2>2 DEF TakeLookup
    <3>2. Len(lookups') = Len(lookups) - 1
      BY <1>1, <3>1, HeadTailProperties
    <3> QED
      BY <1>1, <3>2 DEF Within
  <2>3. CASE Restart
    <3>1. Len(lookups') = 0
      BY <2>3 DEF Restart
    <3> QED
      BY <1>1, <3>1
  <2>4. CASE UNCHANGED lookups
    BY <2>4 DEF Within
  <2> QED
    BY <2>1, <2>2, <2>3, <2>4
    DEF Next, PeerStep, HandleStep, FinishLookup, vars, pool, Connect, SendFrame, Hangup, Revoke,
        Grant, Accept, AuthorizationTimeout, ReceiveResult, RecordDenial, WriteDenial, Admit,
        EndPreAuth, ReadFrame, ReadEnds, Dispatch, WriteResponse, Release, Close
<1>3. been' \subseteq Conn
  <2>1. been' = been \/ \E c \in Conn : been' = been \cup {c}
    BY DEF Next, PeerStep, HandleStep, TakeLookup, FinishLookup, vars, group, Connect, SendFrame,
           Hangup, Revoke, Grant, Accept, QueueLookup, AuthorizationTimeout, ReceiveResult,
           RecordDenial, WriteDenial, Admit, EndPreAuth, ReadFrame, ReadEnds, Dispatch,
           WriteResponse, Release, Close, Restart
  <2> QED
    BY <2>1 DEF Within
<1>4. audit' \subseteq Conn
  <2>1. audit' = audit \/ \E c \in Conn : audit' = audit \cup {c}
    BY DEF Next, PeerStep, HandleStep, TakeLookup, FinishLookup, vars, Connect, SendFrame,
           Hangup, Revoke, Grant, Accept, QueueLookup, AuthorizationTimeout, ReceiveResult,
           RecordDenial, WriteDenial, Admit, EndPreAuth, ReadFrame, ReadEnds, Dispatch,
           WriteResponse, Release, Close, Restart
  <2> QED
    BY <2>1 DEF Within
<1>5. gone' \subseteq Conn
  <2>1. gone' = gone \/ \E c \in Conn : gone' = gone \cup {c}
    BY DEF Next, PeerStep, HandleStep, TakeLookup, FinishLookup, vars, client, Connect, SendFrame,
           Hangup, Revoke, Grant, Accept, QueueLookup, AuthorizationTimeout, ReceiveResult,
           RecordDenial, WriteDenial, Admit, EndPreAuth, ReadFrame, ReadEnds, Dispatch,
           WriteResponse, Release, Close, Restart
  <2> QED
    BY <2>1 DEF Within
<1> QED
  BY <1>2, <1>3, <1>4, <1>5 DEF Within

\* No slot, queue or count leaves its range: the channels' capacities are never
\* passed, and a server carries out no more than it was sent (newServer, handle).
THEOREM OperatorTypeAlways == Spec => []OperatorTypeOK
<1>1. Init => Within
  <2> SUFFICES ASSUME Init PROVE Within
    OBVIOUS
  <2>1. Len(lookups) = 0 /\ MaxUnauthorized \in Nat
    BY OperatorAssumption, FS_CardinalityType DEF Init, MaxUnauthorized
  <2> QED
    BY <2>1 DEF Init, Within
<1>2. OInv /\ Slots /\ AInv /\ Within => OperatorTypeOK
  <2> SUFFICES ASSUME OInv, Slots, AInv, Within PROVE OperatorTypeOK
    OBVIOUS
  <2>1. Shape /\ Ending
    BY DEF OInv
  <2>2. ASSUME NEW c \in Conn PROVE read[c] \in 0..MaxActs /\ issued[c] \in 0..MaxActs
    BY <2>1, Facts DEF Paced
  <2>3. read \in [Conn -> 0..MaxActs] /\ issued \in [Conn -> 0..MaxActs]
    BY <2>1, <2>2 DEF Shape
  <2> QED
    BY <2>1, <2>3 DEF Shape, Slots, AInv, Within, OperatorTypeOK, Result
<1> QED
  BY <1>1, <1>2, WithinKept, OperatorInvariance, SlotInvariance, AnswerInvariance, PTL DEF Spec
=============================================================================
