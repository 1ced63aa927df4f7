----------------------------- MODULE MCMessaging -----------------------------
(***************************************************************************)
(* Messaging on a small instance: two agents' identifiers and two that the *)
(* grammar or the reserved names refuse, one token, two deployments.       *)
(***************************************************************************)
EXTENDS Messaging

CONSTANTS d1, d2

Identifiers == {"a1", "a2", "*", "command-publisher"}
Tokens == {"t1"}
Codes ==
  [n \in Identifiers \cup Tokens |->
     CASE n = "a1" -> <<21>> [] n = "a2" -> <<22>> [] n = "t1" -> <<23>>
       [] n = "*" -> <<90>> [] n = "command-publisher" -> <<31>>]
AgentOfToken == [t \in Tokens |-> "a1"]

\* The two deployments are alike.
SwapDeployments == Permutations({d1, d2})

Payloads == {<<>>, <<50>>, <<50, 51, 52>>}
=============================================================================
