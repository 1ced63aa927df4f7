---------------------------- MODULE MCEnrollment -----------------------------
(***************************************************************************)
(* Enrollment on small instances.  Processes are model values; the maps    *)
(* from process to host and to token are definitions a configuration picks.*)
(***************************************************************************)
EXTENDS Enrollment, TLC

CONSTANTS k1, p1, p2, h1, h2, t1, s1, s2

\* Two hosts given the same bundle; two processes on one host; one of each.
TwoHosts == p1 :> h1 @@ p2 :> h2
OneHost == p1 :> h1 @@ p2 :> h1
OneBundle == p1 :> t1 @@ p2 :> t1
AloneHost == p1 :> h1
AloneBundle == p1 :> t1

\* Servers are interchangeable, and so are the two hosts with their processes.
SwapHosts ==
  {f \in Permutations({p1, p2, h1, h2}) : f[p1] \in {p1, p2} /\ f[h1] = IF f[p1] = p1 THEN h1 ELSE h2}
SwapServers == Permutations({s1, s2})
=============================================================================
