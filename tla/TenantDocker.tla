---------------------------- MODULE TenantDocker ----------------------------
(***************************************************************************)
(* What Docker holds for one tenant - its Postgres container, the private  *)
(* network, the instance and its tunnel sidecar - and the commands that    *)
(* change it.  They run in the command pool without a lock, so any two may *)
(* be between two Docker calls at the same time.                           *)
(*                                                                         *)
(* Each step of a command is one Docker call.  A call is refused when what *)
(* it needs is not there (404) or in the way (409); a fault is a call that *)
(* raises for another reason, and it may have taken effect before it did.  *)
(***************************************************************************)
EXTENDS Naturals, FiniteSets

CONSTANTS
  Ops,          \* requests
  NoOp,
  Containers,   \* bound: container ids in use at a time
  NoContainer,
  MaxActive,    \* bound: commands at work at a time
  MaxFaults     \* bound: commands one of whose calls fails

ASSUME TenantAssumption ==
  /\ Containers \subseteq Nat /\ NoContainer \notin Containers /\ NoOp \notin Ops
  /\ MaxActive \in Nat /\ MaxFaults \in Nat

VARIABLES
  name,      \* [Containers -> its name, or "none" for no such container]
  status,    \* [Containers -> Docker's status]
  network,   \* the private network exists
  attached,  \* containers attached to it
  kind,      \* [Ops -> the command]
  pc,        \* [Ops -> the Docker call it makes next]
  ctr,       \* [Ops -> the container it has in hand]
  prev,      \* [Ops -> the container set aside; for instances, the sidecar]
  result,    \* [Ops -> how it ended]
  faulty,    \* commands one of whose calls has failed
  alone,     \* commands that no other command has overlapped
  latest     \* the request for an instance that came last

docker == <<name, status, network, attached>>
history == <<alone, latest>>
vars == <<docker, kind, pc, ctr, prev, result, faulty, history>>

DbNames == {"pg", "pg_old"}
Present(c) == c # NoContainer /\ name[c] # "none"
Named(n) == {c \in Containers : name[c] = n}
Find(n) == IF Named(n) = {} THEN NoContainer ELSE CHOOSE c \in Named(n) : TRUE
Up(c) == status[c] = "running"
Active == {o \in Ops : pc[o] # "idle"}

\* the id of a new container: the least one that nothing refers to any more
Unused == {c \in Containers : ~Present(c) /\ \A o \in Ops : ctr[o] # c /\ prev[o] # c}
Fresh == {c \in Unused : \A other \in Unused : c <= other}

-----------------------------------------------------------------------------
(* The steps of a command. *)

At(o, step) == pc[o] = step
Holding(o, c, p) == ctr' = [ctr EXCEPT ![o] = c] /\ prev' = [prev EXCEPT ![o] = p]
GoWith(o, step, c, p) ==
  pc' = [pc EXCEPT ![o] = step] /\ Holding(o, c, p) /\ UNCHANGED result
GoTo(o, step) == GoWith(o, step, ctr[o], prev[o])
EndWith(o, how, c, p) ==
  /\ pc' = [pc EXCEPT ![o] = "idle"] /\ result' = [result EXCEPT ![o] = how]
  /\ Holding(o, c, p)
End(o, how) == EndWith(o, how, NoContainer, NoContainer)

NoFault == UNCHANGED faulty
Fault(o) ==
  /\ o \notin faulty /\ Cardinality(faulty) < MaxFaults
  /\ faulty' = faulty \cup {o}

\* a call with effect A that is possible or refused, and what follows when it
\* returns, is refused, or fails
Call(o, possible, A, Returned, Refused, Failed) ==
  \/ possible /\ A /\ Returned /\ NoFault
  \/ ~possible /\ UNCHANGED docker /\ Refused /\ NoFault
  \/ Fault(o) /\ Failed /\ (UNCHANGED docker \/ (possible /\ A))

\* a call that only asks
Ask(o, Returned, Failed) ==
  /\ UNCHANGED docker
  /\ (Returned /\ NoFault) \/ (Fault(o) /\ Failed)

-----------------------------------------------------------------------------
(* What the calls do. *)

Create(c, n) ==
  /\ name' = [name EXCEPT ![c] = n] /\ status' = [status EXCEPT ![c] = "created"]
  /\ UNCHANGED network
Start(c) == status' = [status EXCEPT ![c] = "running"] /\ UNCHANGED <<name, network, attached>>
Stop(c) ==
  /\ status' = [status EXCEPT ![c] = IF Up(c) THEN "exited" ELSE @]
  /\ UNCHANGED <<name, network, attached>>
Rename(c, n) == name' = [name EXCEPT ![c] = n] /\ UNCHANGED <<status, network, attached>>
Remove(c) ==
  /\ name' = [name EXCEPT ![c] = "none"] /\ status' = [status EXCEPT ![c] = "none"]
  /\ attached' = attached \ {c}
  /\ UNCHANGED network

Startable(c) == Present(c) /\ (c \in attached => network)
=============================================================================
