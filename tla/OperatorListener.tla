-------------------------- MODULE OperatorListener ---------------------------
(***************************************************************************)
(* How a server comes by the operator socket and gives it up: Listen with  *)
(* prepareDirectory and recoverStaleSocket, Serve's end and Close          *)
(* (internal/operator server.go), for server processes that start, stop    *)
(* and crash at any time, next to each other too.                          *)
(*                                                                         *)
(* Every call works on the socket's path, not on the socket: what Lstat    *)
(* saw need not be what connect, unlink, chown or chmod meet.              *)
(***************************************************************************)
EXTENDS Naturals, FiniteSets

CONSTANTS
  Server,     \* server processes; one that has ended may be started again
  MaxActs,    \* crashes, stops, repairs and plants in a run
  None

ASSUME ListenerAssumption == None \notin Server /\ MaxActs \in Nat

\* What is at the path and is no server's: anything but a socket, or a socket
\* of another owner than root.
Tampered == {"file", "foreign"}
ASSUME TamperedAssumption == Tampered \cap (Server \cup {None}) = {}

VARIABLES
  at,      \* where each process is
  dir,     \* the socket's directory: absent, safe, or writable by others
  path,    \* what is at the path: nothing, a server's socket, or a tampered object
  perm,    \* of each server's socket, which of its group and its mode are set
  raced,   \* two processes have been in Listen at once
  acts     \* crashes, stops, repairs and plants so far

vars == <<at, dir, path, perm, raced, acts>>

\* Inside Listen; "abandon" is its Close after a failed chown or chmod.
Listening == {"prepare", "inspect", "dial", "remove", "bind", "bound", "own", "mode",
              "abandon"}
Place == {"down", "serving", "closing"} \cup Listening

\* The kernel completes connections from listen(2) to the close of the socket.
Live(s) == at[s] \in {"own", "mode", "abandon", "serving", "closing"}

ListenerTypeOK ==
  /\ at \in [Server -> Place]
  /\ dir \in {"absent", "safe", "unsafe"}
  /\ path \in Server \cup Tampered \cup {None}
  /\ perm \in [Server -> SUBSET {"group", "mode"}]
  /\ raced \in BOOLEAN
  /\ acts \in 0..MaxActs

Init ==
  /\ at = [s \in Server |-> "down"]
  /\ dir \in {"absent", "safe", "unsafe"}
  /\ path \in IF dir = "absent" THEN {None} ELSE Server \cup Tampered \cup {None}
  /\ perm = [s \in Server |-> {}]
  /\ raced = FALSE
  /\ acts = 0

Goto(s, l) == at' = [at EXCEPT ![s] = l]
Step(s, from, to) == at[s] = from /\ Goto(s, to)
Act == acts < MaxActs /\ acts' = acts + 1

\* A call that fails makes Listen return, and the process exits non-zero.
Refuse(s) == Goto(s, "down")

----------------------------------------------------------------------------
(* Listen.                                                                 *)

\* run has come as far as Listen.
Start(s) ==
  /\ Step(s, "down", "prepare")
  /\ raced' = (raced \/ \E t \in Server \ {s} : at[t] \in Listening)
  /\ UNCHANGED <<dir, path, perm, acts>>

\* Mutant of PrepareDirectory: it takes any directory.
PrepareAnyDirectory(s) ==
  /\ Step(s, "prepare", "inspect")
  /\ dir' = IF dir = "absent" THEN "safe" ELSE dir
  /\ UNCHANGED <<path, perm, raced, acts>>

\* prepareDirectory: one it creates is safe; one that others may write, or that
\* is none, is refused.
PrepareDirectory(s) ==
  /\ at[s] = "prepare"
  /\ IF dir = "unsafe" THEN Refuse(s) ELSE Goto(s, "inspect")
  /\ dir' = IF dir = "absent" THEN "safe" ELSE dir
  /\ UNCHANGED <<path, perm, raced, acts>>

\* recoverStaleSocket's Lstat.
InspectPath(s) ==
  /\ at[s] = "inspect"
  /\ CASE path = None     -> Goto(s, "bind")
       [] path \in Server -> Goto(s, "dial")
       [] OTHER           -> Refuse(s)
  /\ UNCHANGED <<dir, path, perm, raced, acts>>

\* Mutant of Dial: a connection that succeeds proves nothing.
DialCareless(s) ==
  /\ Step(s, "dial", "remove")
  /\ UNCHANGED <<dir, path, perm, raced, acts>>

\* recoverStaleSocket's connect.  ECONNREFUSED comes from a socket on which
\* nobody listens, not yet or no more, and from an object that is no socket.  A
\* connection, a missing path or a full backlog is no proof of a stale socket.
Dial(s) ==
  /\ at[s] = "dial"
  /\ \/ path \notin {t \in Server : Live(t)} \cup {None} /\ Goto(s, "remove")
     \/ path \in {t \in Server : Live(t)} \cup {None, "foreign"} /\ Refuse(s)
  /\ UNCHANGED <<dir, path, perm, raced, acts>>

\* Mutant of RemoveStale: it leaves the socket where it is.
RemoveNothing(s) ==
  /\ Step(s, "remove", "bind")
  /\ UNCHANGED <<dir, path, perm, raced, acts>>

\* recoverStaleSocket's unlink, of whatever is at the path by now.
RemoveStale(s) ==
  /\ at[s] = "remove"
  /\ IF path = None THEN Refuse(s) ELSE Goto(s, "bind")
  /\ path' = None
  /\ UNCHANGED <<dir, perm, raced, acts>>

\* ListenUnix: bind(2) makes the socket, and fails if the path is taken.
Bind(s) ==
  /\ at[s] = "bind"
  /\ \/ path = None /\ path' = s /\ perm' = [perm EXCEPT ![s] = {}] /\ Goto(s, "bound")
     \/ path # None /\ Refuse(s) /\ UNCHANGED <<path, perm>>
  /\ UNCHANGED <<dir, raced, acts>>

\* ListenUnix: listen(2).
ListenUnix(s) ==
  /\ Step(s, "bound", "own")
  /\ UNCHANGED <<dir, path, perm, raced, acts>>

\* Chown and Chmod of whatever is at the path; a path that is gone fails them.
Permit(s, from, what, to) ==
  /\ at[s] = from
  /\ Goto(s, IF path = None THEN "abandon" ELSE to)
  /\ perm' = IF path \in Server THEN [perm EXCEPT ![path] = @ \cup {what}] ELSE perm
  /\ UNCHANGED <<dir, path, raced, acts>>

Chown(s) == Permit(s, "own", "group", "mode")

\* Mutant of Chmod: the mode admits everyone.
ChmodWorld(s) == Permit(s, "mode", "world", "serving")

Chmod(s) == Permit(s, "mode", "mode", "serving")

\* Close: the listener unlinks its path, whoever's socket is there, and then
\* closes its own.
CloseUnlink(s) == Goto(s, "closing") /\ path' = None /\ UNCHANGED <<dir, perm, raced>>

\* Listen closes what it cannot permit.
Abandon(s) == at[s] = "abandon" /\ CloseUnlink(s) /\ UNCHANGED acts

\* SIGINT or SIGTERM, once there is a handler for them.
Stop(s) == at[s] = "serving" /\ CloseUnlink(s) /\ Act

CloseSocket(s) ==
  /\ Step(s, "closing", "down")
  /\ UNCHANGED <<dir, path, perm, raced, acts>>

\* A crash, or a signal before run has a handler for it: the socket stays.
Crash(s) ==
  /\ at[s] # "down"
  /\ Act
  /\ Goto(s, "down")
  /\ UNCHANGED <<dir, path, perm, raced>>

----------------------------------------------------------------------------
(* Others.                                                                 *)

\* Whoever may write the directory puts what it likes at the path.
Plant(o) ==
  /\ dir = "unsafe"
  /\ Act
  /\ path' = o
  /\ UNCHANGED <<at, dir, perm, raced>>

\* The administrator closes the directory to others, or clears the path.
RepairDirectory ==
  /\ dir = "unsafe"
  /\ Act
  /\ dir' = "safe"
  /\ UNCHANGED <<at, path, perm, raced>>

ClearPath ==
  /\ path \in Tampered
  /\ Act
  /\ path' = None
  /\ UNCHANGED <<at, dir, perm, raced>>

----------------------------------------------------------------------------
ListenStep(s) ==
  \/ PrepareDirectory(s) \/ InspectPath(s) \/ Dial(s) \/ RemoveStale(s)
  \/ Bind(s) \/ ListenUnix(s) \/ Chown(s) \/ Chmod(s) \/ Abandon(s) \/ CloseSocket(s)

Environment ==
  \/ \E o \in Tampered \cup {None} : Plant(o)
  \/ RepairDirectory
  \/ ClearPath

Next ==
  \/ \E s \in Server : Start(s) \/ ListenStep(s) \/ Stop(s) \/ Crash(s)
  \/ Environment

\* Processes run, and one that has ended is started again.
Fairness == \A s \in Server : WF_vars(Start(s)) /\ WF_vars(ListenStep(s))

Spec == Init /\ [][Next]_vars
FairSpec == Spec /\ Fairness

----------------------------------------------------------------------------
\* REC-3: a serving server is the one at the path, with the group and mode that
\* admit its operators, and so no second one serves; unless two processes were in
\* Listen at once, when the second may take the first's new socket for a stale one
\* (recoverStaleSocket).
ServingReachable ==
  \A s \in Server : at[s] = "serving" /\ ~raced => path = s /\ perm[s] = {"group", "mode"}

\* s comes back from its chown or its chmod.
Permits(s) == at[s] \in {"own", "mode"} /\ at'[s] \notin {at[s], "down"}

\* REC-1, REC-2, REC-5: no process removes an object that is no socket of root's,
\* or gives it a group or a mode, and none touches the path in a directory others
\* may write, whatever they put there meanwhile and however processes overlap
\* (Listen, Close).
TamperedKept ==
  [][(at' # at /\ path' # path) \/ (\E s \in Server : Permits(s))
       => dir = "safe" /\ path \notin Tampered]_vars

\* REC-3, for processes that start together: no process removes a socket that
\* accepts connections (recoverStaleSocket's unlink).
LiveSocketKept ==
  [][\A s \in Server : at[s] = "remove" /\ at'[s] = "bind" =>
       path \notin {t \in Server : Live(t)}]_vars

\* REC-4: whatever crashed, stopped or raced before, once processes no longer
\* overlap in Listen some server comes to serve at the path for good, if only the
\* directory and the path are safe (Listen).
Recovers ==
  <>[](Cardinality({s \in Server : at[s] \in Listening}) <= 1) =>
  <>[](\/ dir = "unsafe" \/ path \in Tampered
       \/ \E s \in Server : at[s] = "serving" /\ path = s /\ perm[s] = {"group", "mode"})
=============================================================================
