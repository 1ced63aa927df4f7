--------------------------- MODULE ListenerProofs ----------------------------
(***************************************************************************)
(* Proofs about the operator socket's listener (OperatorListener), for any *)
(* number of server processes: one that serves is reachable at the path    *)
(* unless two were in Listen at once, and no process touches what is no    *)
(* socket of root's, or the path in a directory others may write.          *)
(*                                                                         *)
(* Both rest on what a process may still rely on at a later call: a        *)
(* directory found safe stays safe, and so nobody plants anything at the   *)
(* path that was looked at; and as long as no two processes are in Listen  *)
(* at once, no socket is served while another process is past its connect. *)
(***************************************************************************)
EXTENDS OperatorListener, TLAPS

\* Past prepareDirectory the directory is safe,
DirectorySafe == \A s \in Server : at[s] \notin {"down", "prepare"} => dir = "safe"

\* and past Lstat nothing but servers' sockets comes to the path.
NothingPlanted ==
  \A s \in Server : at[s] \notin {"down", "prepare", "inspect"} => path \notin Tampered

\* The calls of Listen that may remove or replace what is at the path.
Taking == {"remove", "bind", "bound", "own", "mode", "abandon"}

\* As long as no two processes were in Listen at once, one is in it,
OneListens ==
  \A s, t \in Server : at[s] \in Listening /\ at[t] \in Listening => s = t

\* it takes the path only when nobody serves,
NobodyServed == \A s, t \in Server : at[s] \in Taking => at[t] # "serving"

\* and what it bound stays at the path, permitted call by call.
OwnsPath ==
  \A s \in Server :
    /\ at[s] \in {"bound", "own", "mode", "serving"} => path = s
    /\ at[s] \in {"bound", "own"} => perm[s] = {}
    /\ at[s] = "mode" => perm[s] = {"group"}
    /\ at[s] = "serving" => perm[s] = {"group", "mode"}

Unraced == ~raced => OneListens /\ NobodyServed /\ OwnsPath

SInv == ListenerTypeOK /\ DirectorySafe /\ NothingPlanted /\ Unraced

----------------------------------------------------------------------------
\* Before any process starts there is nothing to rely on (Listen).
LEMMA ListenerInit == Init => SInv
  <1> SUFFICES ASSUME Init PROVE SInv
    OBVIOUS
  <1>1. ListenerTypeOK
    <2>1. path \in Server \cup Tampered \cup {None}
      <3>1. CASE dir = "absent"
        BY <3>1 DEF Init
      <3>2. CASE dir # "absent"
        BY <3>2 DEF Init
      <3>3. QED
        BY <3>1, <3>2
    <2>2. at \in [Server -> Place] /\ perm \in [Server -> SUBSET {"group", "mode"}]
      BY DEF Init, Place
    <2>3. acts \in 0..MaxActs
      BY ListenerAssumption DEF Init
    <2>4. QED
      BY <2>1, <2>2, <2>3 DEF Init, ListenerTypeOK
  <1>2. DirectorySafe /\ NothingPlanted /\ Unraced
    BY DEF Init, DirectorySafe, NothingPlanted, Unraced, OneListens, NobodyServed,
           OwnsPath, Listening, Taking
  <1>3. QED
    BY <1>1, <1>2 DEF SInv

\* A process that enters Listen while another is in it makes a race of it (Listen).
LEMMA StartStep ==
  ASSUME SInv, NEW s \in Server, Start(s) PROVE SInv'
  <1> USE DEF SInv, Start, Step, Goto
  <1>1. ListenerTypeOK'
    BY DEF ListenerTypeOK, Place, Listening
  <1>2. DirectorySafe' /\ NothingPlanted'
    BY DEF ListenerTypeOK, DirectorySafe, NothingPlanted
  <1>3. ASSUME ~raced' PROVE OneListens' /\ NobodyServed' /\ OwnsPath'
    <2>1. ~raced /\ \A t \in Server \ {s} : at[t] \notin Listening
      BY <1>3
    <2>2. QED
      BY <2>1 DEF ListenerTypeOK, Unraced, OneListens, NobodyServed, OwnsPath, Taking
  <1>4. QED
    BY <1>1, <1>2, <1>3 DEF Unraced

\* A directory others may write is refused, and one that is there or is made is
\* safe from then on (prepareDirectory).
LEMMA PrepareStep ==
  ASSUME SInv, NEW s \in Server, PrepareDirectory(s) PROVE SInv'
  <1> USE DEF SInv, PrepareDirectory, Refuse, Goto
  <1>1. ListenerTypeOK'
    BY DEF ListenerTypeOK, Place, Listening
  <1>2. DirectorySafe' /\ NothingPlanted'
    BY DEF ListenerTypeOK, DirectorySafe, NothingPlanted
  <1>3. Unraced'
    BY DEF ListenerTypeOK, Unraced, OneListens, NobodyServed, OwnsPath, Listening, Taking
  <1>4. QED
    BY <1>1, <1>2, <1>3

\* Only nothing or a server's socket at the path lets a process go on, and with
\* nothing there nobody serves (recoverStaleSocket).
LEMMA InspectStep ==
  ASSUME SInv, NEW s \in Server, InspectPath(s) PROVE SInv'
  <1> USE ListenerAssumption, TamperedAssumption DEF SInv, InspectPath, Refuse, Goto
  <1>1. /\ at' \in {[at EXCEPT ![s] = l] : l \in {"bind", "dial", "down"}}
        /\ at'[s] = "bind" => path = None
        /\ at'[s] = "dial" => path \in Server
    BY DEF ListenerTypeOK
  <1>2. ListenerTypeOK'
    BY <1>1 DEF ListenerTypeOK, Place, Listening
  <1>3. DirectorySafe' /\ NothingPlanted'
    BY <1>1 DEF ListenerTypeOK, DirectorySafe, NothingPlanted
  <1>4. Unraced'
    BY <1>1 DEF ListenerTypeOK, Unraced, OneListens, NobodyServed, OwnsPath, Listening,
                Taking
  <1>5. QED
    BY <1>2, <1>3, <1>4

\* A refused connection means that what is at the path serves nobody, and then,
\* without a race, nobody serves (recoverStaleSocket).
LEMMA DialStep ==
  ASSUME SInv, NEW s \in Server, Dial(s) PROVE SInv'
  <1> USE DEF SInv, Dial, Refuse, Goto
  <1>1. ListenerTypeOK'
    BY DEF ListenerTypeOK, Place, Listening
  <1>2. DirectorySafe' /\ NothingPlanted'
    BY DEF ListenerTypeOK, DirectorySafe, NothingPlanted
  <1>3. ASSUME ~raced, at'[s] = "remove", NEW t \in Server PROVE at[t] # "serving"
    BY <1>3 DEF ListenerTypeOK, Live, Unraced, OwnsPath
  <1>4. Unraced'
    BY <1>3 DEF ListenerTypeOK, Unraced, OneListens, NobodyServed, OwnsPath, Listening,
                Taking
  <1>5. QED
    BY <1>1, <1>2, <1>4

\* What is unlinked is nobody's socket to be served at (recoverStaleSocket).
LEMMA RemoveStep ==
  ASSUME SInv, NEW s \in Server, RemoveStale(s) PROVE SInv'
  <1> USE ListenerAssumption, TamperedAssumption DEF SInv, RemoveStale, Refuse, Goto
  <1>1. ListenerTypeOK'
    BY DEF ListenerTypeOK, Place, Listening
  <1>2. DirectorySafe' /\ NothingPlanted'
    BY DEF ListenerTypeOK, DirectorySafe, NothingPlanted
  <1>3. Unraced'
    BY DEF ListenerTypeOK, Unraced, OneListens, NobodyServed, OwnsPath, Listening, Taking
  <1>4. QED
    BY <1>1, <1>2, <1>3

\* bind makes the process's own socket, with neither group nor mode (ListenUnix).
LEMMA BindStep ==
  ASSUME SInv, NEW s \in Server, Bind(s) PROVE SInv'
  <1> USE ListenerAssumption, TamperedAssumption DEF SInv, Bind, Refuse, Goto
  <1>1. ListenerTypeOK'
    BY DEF ListenerTypeOK, Place, Listening
  <1>2. DirectorySafe' /\ NothingPlanted'
    BY DEF ListenerTypeOK, DirectorySafe, NothingPlanted
  <1>3. Unraced'
    BY DEF ListenerTypeOK, Unraced, OneListens, NobodyServed, OwnsPath, Listening, Taking
  <1>4. QED
    BY <1>1, <1>2, <1>3

\* listen leaves the path alone (ListenUnix).
LEMMA ListenUnixStep ==
  ASSUME SInv, NEW s \in Server, ListenUnix(s) PROVE SInv'
  <1> USE DEF SInv, ListenUnix, Step, Goto
  <1>1. ListenerTypeOK'
    BY DEF ListenerTypeOK, Place, Listening
  <1>2. DirectorySafe' /\ NothingPlanted'
    BY DEF ListenerTypeOK, DirectorySafe, NothingPlanted
  <1>3. Unraced'
    BY DEF ListenerTypeOK, Unraced, OneListens, NobodyServed, OwnsPath, Listening, Taking
  <1>4. QED
    BY <1>1, <1>2, <1>3

\* Without a race chown and chmod meet the process's own socket, and after both
\* it is served with the group and the mode it needs (Listen).
LEMMA PermitStep ==
  ASSUME SInv, NEW s \in Server, Chown(s) \/ Chmod(s) PROVE SInv'
  <1> USE ListenerAssumption, TamperedAssumption DEF SInv, Chown, Chmod, Permit, Goto
  <1>1. ListenerTypeOK'
    BY DEF ListenerTypeOK, Place, Listening
  <1>2. DirectorySafe' /\ NothingPlanted'
    BY DEF ListenerTypeOK, DirectorySafe, NothingPlanted
  <1>3. ASSUME ~raced PROVE OneListens' /\ NobodyServed' /\ OwnsPath'
    <2>1. /\ path = s /\ path # None
          /\ \A t \in Server \ {s} : at[t] \notin Listening /\ at[t] # "serving"
      BY <1>3 DEF ListenerTypeOK, Unraced, OneListens, NobodyServed, OwnsPath, Listening,
                  Taking
    <2>2. OneListens' /\ NobodyServed'
      BY <1>3, <2>1 DEF ListenerTypeOK, OneListens, NobodyServed, Listening, Taking
    <2>3. OwnsPath'
      BY <1>3, <2>1 DEF ListenerTypeOK, Unraced, OwnsPath, Listening
    <2>4. QED
      BY <2>2, <2>3
  <1>4. QED
    BY <1>1, <1>2, <1>3 DEF Unraced

\* Close unlinks the path, and without a race it is the path of nobody else who
\* serves (Close).
LEMMA CloseStep ==
  ASSUME SInv, NEW s \in Server, Abandon(s) \/ Stop(s) \/ CloseSocket(s) PROVE SInv'
  <1> USE ListenerAssumption, TamperedAssumption
      DEF SInv, Abandon, Stop, CloseSocket, CloseUnlink, Act, Step, Goto
  <1>1. ListenerTypeOK'
    BY DEF ListenerTypeOK, Place, Listening
  <1>2. DirectorySafe' /\ NothingPlanted'
    BY DEF ListenerTypeOK, DirectorySafe, NothingPlanted
  <1>3. Unraced'
    BY DEF ListenerTypeOK, Unraced, OneListens, NobodyServed, OwnsPath, Listening, Taking
  <1>4. QED
    BY <1>1, <1>2, <1>3

\* A crash leaves the path, the directory and the other processes as they are
\* (run's exits and signals without a handler).
LEMMA CrashStep ==
  ASSUME SInv, NEW s \in Server, Crash(s) PROVE SInv'
  <1> USE ListenerAssumption DEF SInv, Crash, Act, Goto
  <1>1. ListenerTypeOK'
    BY DEF ListenerTypeOK, Place, Listening
  <1>2. DirectorySafe' /\ NothingPlanted'
    BY DEF ListenerTypeOK, DirectorySafe, NothingPlanted
  <1>3. Unraced'
    BY DEF ListenerTypeOK, Unraced, OneListens, NobodyServed, OwnsPath, Listening, Taking
  <1>4. QED
    BY <1>1, <1>2, <1>3

\* Nobody plants anything while a process relies on the directory, and the
\* administrator clears no server's socket (prepareDirectory).
LEMMA EnvironmentStep ==
  ASSUME SInv, Environment PROVE SInv'
  <1> USE ListenerAssumption, TamperedAssumption
      DEF SInv, Environment, Plant, RepairDirectory, ClearPath, Act
  <1>1. ListenerTypeOK'
    BY DEF ListenerTypeOK
  <1>2. DirectorySafe' /\ NothingPlanted'
    BY DEF ListenerTypeOK, DirectorySafe, NothingPlanted
  <1>3. Unraced'
    BY DEF ListenerTypeOK, DirectorySafe, Unraced, OneListens, NobodyServed, OwnsPath
  <1>4. QED
    BY <1>1, <1>2, <1>3

----------------------------------------------------------------------------
\* What a process relies on at each call holds however processes start, stop,
\* crash and overlap (Listen, Close).
THEOREM ListenerInvariance == Spec => []SInv
  <1>1. SInv /\ [Next]_vars => SInv'
    <2> SUFFICES ASSUME SInv, [Next]_vars PROVE SInv'
      OBVIOUS
    <2>1. CASE UNCHANGED vars
      BY <2>1 DEF vars, SInv, ListenerTypeOK, DirectorySafe, NothingPlanted, Unraced,
                  OneListens, NobodyServed, OwnsPath
    <2>2. CASE Next
      BY <2>2, StartStep, PrepareStep, InspectStep, DialStep, RemoveStep, BindStep,
         ListenUnixStep, PermitStep, CloseStep, CrashStep, EnvironmentStep
         DEF Next, ListenStep
    <2>3. QED
      BY <2>1, <2>2
  <1>2. QED
    BY ListenerInit, <1>1, PTL DEF Spec

\* The listener's state is always of its types (Server).
THEOREM ListenerTypeAlways == Spec => []ListenerTypeOK
  <1>1. SInv => ListenerTypeOK
    BY DEF SInv
  <1>2. QED
    BY <1>1, ListenerInvariance, PTL

\* A serving server is the one at the path, with the group and the mode that admit
\* its operators, unless two processes were in Listen at once (recoverStaleSocket).
THEOREM ServingReachableAlways == Spec => []ServingReachable
  <1>1. SInv => ServingReachable
    BY DEF SInv, Unraced, OwnsPath, ServingReachable
  <1>2. QED
    BY <1>1, ListenerInvariance, PTL

\* No process removes what is no socket of root's or gives it a group or a mode,
\* and none touches the path in a directory that others may write, races or not
\* (Listen, Close).
THEOREM TamperedAlwaysKept == Spec => TamperedKept
  <1> DEFINE Touched == (at' # at /\ path' # path) \/ (\E s \in Server : Permits(s))
             Kept == Touched => dir = "safe" /\ path \notin Tampered
  <1>1. SInv /\ [Next]_vars => [Kept]_vars
    <2> SUFFICES ASSUME SInv, Next, Touched
                 PROVE  dir = "safe" /\ path \notin Tampered
      OBVIOUS
    <2>1. CASE at' # at /\ path' # path
      <3>1. ~Environment
        BY <2>1 DEF Environment, Plant, RepairDirectory, ClearPath
      <3>2. PICK s \in Server : RemoveStale(s) \/ Bind(s) \/ Abandon(s) \/ Stop(s)
        BY <2>1, <3>1 DEF Next, ListenStep, Start, PrepareDirectory, InspectPath, Dial,
                          ListenUnix, Chown, Chmod, Permit, CloseSocket, Crash
      <3>3. at[s] \in {"remove", "bind", "abandon", "serving"}
        BY <3>2 DEF RemoveStale, Bind, Abandon, Stop
      <3>4. QED
        BY <3>3 DEF SInv, DirectorySafe, NothingPlanted
    <2>2. CASE \E s \in Server : Permits(s)
      BY <2>2 DEF Permits, SInv, DirectorySafe, NothingPlanted
    <2>3. QED
      BY <2>1, <2>2
  <1>2. QED
    BY ListenerInvariance, <1>1, PTL DEF Spec, TamperedKept
=============================================================================
