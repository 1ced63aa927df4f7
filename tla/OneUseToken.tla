----------------------------- MODULE OneUseToken -----------------------------
(***************************************************************************)
(* What enrollment promises of a token (ADR-0003 section 6): it is issued  *)
(* once, admits exactly one owner, becomes active for that owner at most   *)
(* once, and goes no further.                                              *)
(***************************************************************************)
CONSTANTS Token, Owner, None

VARIABLES
  stage,  \* the server's stage of each token
  owner   \* the keys the token's identity is bound to

Init == stage = [t \in Token |-> "none"] /\ owner = [t \in Token |-> None]

Issue(t) ==
  /\ stage[t] = "none"
  /\ stage' = [stage EXCEPT ![t] = "pending"]
  /\ UNCHANGED owner

Bind(t, k) ==
  /\ stage[t] = "pending"
  /\ stage' = [stage EXCEPT ![t] = "issued"]
  /\ owner' = [owner EXCEPT ![t] = k]

Spend(t) ==
  /\ stage[t] = "issued"
  /\ stage' = [stage EXCEPT ![t] = "active"]
  /\ UNCHANGED owner

Next ==
  \E t \in Token : Issue(t) \/ Spend(t) \/ \E k \in Owner : Bind(t, k)

Spec == Init /\ [][Next]_<<stage, owner>>
=============================================================================
