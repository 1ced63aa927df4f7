------------------------ MODULE EnrollmentRefinement -------------------------
(***************************************************************************)
(* Enrollment implements the one-use token, for every value of the         *)
(* constants: S0 is Issue, S1's write is Bind, S4's is Spend, and no other *)
(* step of a server, an agent, the broker or a clock is visible.           *)
(***************************************************************************)
EXTENDS EnrollmentSafety

LEMMA RefineInit == Init => Abstract!Init
BY DEF Init, StoreInit, Abstract!Init, Stage

LEMMA RefineCreate ==
  ASSUME TypeInv, NEW t \in Token, Create(t)
  PROVE  Abstract!Next
<1>1. record[t].state = "absent" /\ record[t].jwt = None
  BY DEF Create, IssueEnrollment, TypeInv, RecordOK
<1>2. record' = [record EXCEPT ![t].state = "issued"]
  BY DEF Create, IssueEnrollment
<1>3. \A x \in Token : /\ record'[x].jwt = record[x].jwt /\ record'[x].halves = record[x].halves
                       /\ record'[x].state = IF x = t THEN "issued" ELSE record[x].state
  BY <1>2 DEF TypeInv, TypeOK, StoreTypeOK, Record
<1>4. Abstract!Issue(t)
  BY <1>1, <1>3 DEF Abstract!Issue, Stage
<1> QED
  BY <1>4 DEF Abstract!Next

LEMMA RefineFirstCredential ==
  ASSUME TypeInv, NEW s \in Server, FirstCredential(s)
  PROVE  Abstract!Next
<1>1. PICK t \in Token, k \in Key : /\ t = handling[s].req.tok /\ k = handling[s].req.key
                                   /\ Mint(s) \in JWT /\ Mint(s).sub = k
  BY HandlingType DEF FirstCredential, Minting, Admitted, Mint, JWT
<1>2. record[t].state = "issued" /\ record[t].jwt = None
  BY <1>1, RecordFacts DEF FirstCredential, Recordable
<1>3. record' = [record EXCEPT ![t].halves = k, ![t].jwt = Mint(s)]
  BY <1>1 DEF FirstCredential, RecordCredential
<1>4. \A x \in Token : /\ record'[x].jwt = IF x = t THEN Mint(s) ELSE record[x].jwt
                       /\ record'[x].halves = IF x = t THEN k ELSE record[x].halves
                       /\ record'[x].state = record[x].state
  BY <1>1, <1>3 DEF TypeInv, TypeOK, StoreTypeOK, Record
<1>5. Mint(s) # None
  BY <1>1, NoneAssumption
<1>6. Abstract!Bind(t, k)
  <2>1. Stage(t) = "pending"
    BY <1>2 DEF Stage
  <2>2. \A x \in Token : Stage(x)' = IF x = t THEN "issued" ELSE Stage(x)
    BY <1>2, <1>4, <1>5 DEF Stage
  <2>3. [x \in Token |-> Stage(x)]' = [[x \in Token |-> Stage(x)] EXCEPT ![t] = "issued"]
    BY <2>2
  <2>4. [x \in Token |-> record[x].halves]' = [[x \in Token |-> record[x].halves] EXCEPT ![t] = k]
    BY <1>4
  <2> QED
    BY <2>1, <2>3, <2>4 DEF Abstract!Bind
<1> QED
  BY <1>1, <1>6 DEF Abstract!Next

LEMMA RefineActivate ==
  ASSUME TypeInv, NEW t \in Token, Activatable(t), Activate(t)
  PROVE  Abstract!Next
<1>1. record[t].state = "issued" /\ record[t].jwt # None
  BY DEF Activatable
<1>2. \A x \in Token : /\ record'[x].jwt = record[x].jwt /\ record'[x].halves = record[x].halves
                       /\ record'[x].state = IF x = t THEN "spent" ELSE record[x].state
  BY DEF Activate, TypeInv, TypeOK, StoreTypeOK, Record
<1>3. Abstract!Spend(t)
  BY <1>1, <1>2 DEF Abstract!Spend, Stage
<1> QED
  BY <1>3 DEF Abstract!Next

LEMMA RefineStutter ==
  ASSUME UNCHANGED record
  PROVE  UNCHANGED <<[t \in Token |-> Stage(t)], [t \in Token |-> record[t].halves]>>
BY DEF Stage

\* Every step of the system is a step of the one-use token or leaves it alone.
LEMMA RefineNext ==
  TypeInv /\ [Next]_vars =>
    [Abstract!Next]_<<[t \in Token |-> Stage(t)], [t \in Token |-> record[t].halves]>>
<1> SUFFICES ASSUME TypeInv, [Next]_vars
             PROVE  Abstract!Next \/ UNCHANGED record
  BY RefineStutter
<1>1. ASSUME NEW s \in Server, RequestStep(s) PROVE Abstract!Next \/ UNCHANGED record
  <2>1. CASE ~FirstCredential(s)
    BY <1>1, <2>1 DEF RequestStep, OnRequest, Refuse, Deny, RepeatCredential, LostRace, Confirm,
      SendReply, storeVars
  <2> QED BY <2>1, RefineFirstCredential
<1>2. ASSUME NEW s \in Server, PresenceStep(s) PROVE Abstract!Next \/ UNCHANGED record
  <2>1. CASE ActivateStep(s)
    <3>1. proving[s].tok \in Token
      BY <2>1 DEF ActivateStep, TypeInv, TypeOK, ServiceTypeOK, Proving
    <3> QED BY <2>1, <3>1, RefineActivate DEF ActivateStep, storeVars
  <2> QED
    BY <1>2, <2>1 DEF PresenceStep, OnPresence, RecordReached, HoldEnds, storeVars
<1>3. ASSUME NEW s \in Server, ServerStart(s) \/ ServerFault(s) PROVE UNCHANGED record
  BY <1>3 DEF ServerStart, ServerFault, RequestFails, ActivateFails, ServerCrash, storeVars
<1>4. ASSUME (\E p \in Proc : Stray(p)) \/ Clock \/ UNCHANGED vars PROVE UNCHANGED record
  BY <1>4 DEF Stray, Clock, vars, storeVars
<1>5. CASE UNCHANGED storeVars
  BY <1>5 DEF storeVars
<1> QED
  BY <1>1, <1>2, <1>3, <1>4, <1>5, RefineCreate DEF Next

\* Enrollment implements the one-use token (ADR-0003 section 6; store.go
\* IssueEnrollment, RecordCredential, Activate and the handlers that call them).
THEOREM Refinement == Spec => ImplementsOneUseToken
BY RefineInit, RefineNext, TypeInit, TypeNext, PTL DEF Spec, ImplementsOneUseToken, Abstract!Spec
=============================================================================
