------------------------------ MODULE TenantDb ------------------------------
(***************************************************************************)
(* The Postgres container of one tenant (agent/commands/tenantdb.py):      *)
(* ensure, with and without recreate, start, stop and remove.              *)
(***************************************************************************)
EXTENDS TenantDocker

DbKinds == {"ensure", "recreate", "start", "stop", "remove"}

DbSteps ==
  {"net", "netCreate", "pull", "oldGet", "oldRemove", "curGet", "stop", "rename",
   "get", "create", "start", "wait", "commit", "pbGet", "pbRemove", "pbRename", "pbStart",
   "sGet", "stGet", "stStop", "rmGet", "rmCtr", "rmDisc", "rmNet", "rmVol"}

DbFirst(k) ==
  CASE k \in {"ensure", "recreate"} -> "net"
    [] k = "start" -> "sGet"
    [] k = "stop" -> "stGet"
    [] k = "remove" -> "rmGet"

\* a container found under a name is taken in hand, and the step depends on it
Look(o, n, found, missing) ==
  Ask(o, IF Named(n) = {} THEN missing ELSE GoWith(o, found, Find(n), prev[o]),
      End(o, "error"))

-----------------------------------------------------------------------------
(* ensure: the network, and setting the present container aside. *)

AfterNetwork(o) == GoTo(o, IF kind[o] = "recreate" THEN "pull" ELSE "get")

NetGet(o) ==
  /\ At(o, "net")
  /\ Ask(o, IF network THEN AfterNetwork(o) ELSE GoTo(o, "netCreate"), End(o, "error"))

NetCreate(o) ==
  /\ At(o, "netCreate")
  /\ Call(o, ~network, network' = TRUE /\ UNCHANGED <<name, status, attached>>,
          AfterNetwork(o), End(o, "error"), End(o, "error"))

Pull(o) ==
  /\ At(o, "pull")
  /\ Ask(o, GoTo(o, "oldGet"), End(o, "error"))

OldGet(o) == At(o, "oldGet") /\ Look(o, "pg_old", "oldRemove", GoTo(o, "curGet"))

OldRemove(o) ==
  /\ At(o, "oldRemove")
  /\ Call(o, Present(ctr[o]), Remove(ctr[o]),
          GoTo(o, "curGet"), GoTo(o, "curGet"), End(o, "error"))

CurGet(o) ==
  /\ At(o, "curGet")
  /\ Ask(o, GoWith(o, IF Named("pg") = {} THEN "get" ELSE "stop", ctr[o], Find("pg")),
         End(o, "error"))

SetAside_Running(c) == UNCHANGED docker      \* mutant: renames without a stop
SetAside(c) == Stop(c)

StopCurrent(o) ==
  /\ At(o, "stop")
  /\ Call(o, Present(prev[o]), SetAside(prev[o]),
          GoTo(o, "rename"), End(o, "error"), End(o, "error"))

RenameCurrent(o) ==
  /\ At(o, "rename")
  /\ Call(o, Present(prev[o]) /\ Named("pg_old") = {}, Rename(prev[o], "pg_old"),
          GoTo(o, "get"), End(o, "error"), End(o, "error"))

-----------------------------------------------------------------------------
(* ensure: the container, started and ready; putting the old one back. *)

Failed_Always(o) == GoTo(o, "pbGet")      \* mutant: nothing was set aside
Failed(o) ==
  IF prev[o] = NoContainer THEN End(o, "error") ELSE GoTo(o, "pbGet")

GetOrCreate(o) ==
  /\ At(o, "get")
  /\ Ask(o, GoWith(o, IF Named("pg") = {} THEN "create" ELSE "start", Find("pg"), prev[o]),
         Failed(o))

\* a network that is gone is missed at the start, not here
CreateDb(o) ==
  /\ At(o, "create")
  /\ \E c \in Fresh :
       Call(o, Named("pg") = {}, Create(c, "pg") /\ attached' = attached \cup {c},
            GoWith(o, "start", c, prev[o]), Failed(o), Failed(o))

\* start, unless it is running already
StartDb_IfNew(c) == IF status[c] = "created" THEN Start(c) ELSE UNCHANGED docker
                                             \* mutant: not one that was stopped
StartDb(c) == IF Up(c) THEN UNCHANGED docker ELSE Start(c)

StartAndWait(o) ==
  /\ At(o, "start")
  /\ Call(o, Startable(ctr[o]), StartDb(ctr[o]), GoTo(o, "wait"), Failed(o), Failed(o))

Ready(o) == IF prev[o] = NoContainer THEN End(o, "ok") ELSE GoTo(o, "commit")

\* _wait_ready and the chown: an exec is refused unless the container runs
WaitReady(o) ==
  /\ At(o, "wait")
  /\ Call(o, Present(ctr[o]) /\ Up(ctr[o]), UNCHANGED docker, Ready(o), Failed(o), Failed(o))

Commit(o) ==
  /\ At(o, "commit")
  /\ Call(o, Present(prev[o]), Remove(prev[o]), End(o, "ok"), End(o, "ok"), End(o, "error"))

PutBackGet(o) == At(o, "pbGet") /\ Look(o, "pg", "pbRemove", GoTo(o, "pbRename"))

PutBackRemove(o) ==
  /\ At(o, "pbRemove")
  /\ Call(o, Present(ctr[o]), Remove(ctr[o]),
          GoTo(o, "pbRename"), GoTo(o, "pbRename"), End(o, "error"))

AfterPutBack_Stopped(o) == End(o, "error")     \* mutant: does not start it again
AfterPutBack(o) == GoTo(o, "pbStart")

PutBackRename(o) ==
  /\ At(o, "pbRename")
  /\ Call(o, Present(prev[o]) /\ Named("pg") = {}, Rename(prev[o], "pg"),
          AfterPutBack(o), End(o, "error"), End(o, "error"))

PutBackStart(o) ==
  /\ At(o, "pbStart")
  /\ Call(o, Startable(prev[o]), Start(prev[o]),
          End(o, "error"), End(o, "error"), End(o, "error"))

-----------------------------------------------------------------------------
(* start, stop, remove. *)

StartGet(o) == At(o, "sGet") /\ Look(o, "pg", "start", End(o, "error"))

StopGet(o) == At(o, "stGet") /\ Look(o, "pg", "stStop", End(o, "ok"))

StopDb(o) ==
  /\ At(o, "stStop")
  /\ Call(o, Present(ctr[o]), Stop(ctr[o]), End(o, "ok"), End(o, "ok"), End(o, "error"))

RemoveGet(o) == At(o, "rmGet") /\ Look(o, "pg", "rmCtr", GoTo(o, "rmDisc"))

RemoveDb(o) ==
  /\ At(o, "rmCtr")
  /\ Call(o, Present(ctr[o]), Remove(ctr[o]),
          GoTo(o, "rmDisc"), GoTo(o, "rmDisc"), End(o, "error"))

ActiveEndpoints == {c \in attached : Up(c)}

(* What is still attached and runs is disconnected; looking at the network   *)
(* may fail, and a disconnect that does is passed over.                      *)
DisconnectAll(o) ==
  /\ At(o, "rmDisc")
  /\ Call(o, network,
          attached' = attached \ ActiveEndpoints /\ UNCHANGED <<name, status, network>>,
          GoTo(o, "rmNet"), GoTo(o, "rmVol"), End(o, "error") \/ GoTo(o, "rmNet"))

RemoveNetwork(o) ==
  /\ At(o, "rmNet")
  /\ IF ~network
       THEN UNCHANGED docker /\ GoTo(o, "rmVol") /\ NoFault
       ELSE Call(o, ActiveEndpoints = {},
                 network' = FALSE /\ UNCHANGED <<name, status, attached>>,
                 GoTo(o, "rmVol"), End(o, "error"), End(o, "error"))

(* A volume that a container refers to, running or not, is not removed. *)
VolumesFree == \A c \in Containers : name[c] \notin DbNames

VolumesBusy_Ignored(o) == End(o, "ok")    \* mutant: the refusal is suppressed
VolumesBusy(o) == End(o, "error")

RemoveVolumes(o) ==
  /\ At(o, "rmVol")
  /\ Call(o, VolumesFree, UNCHANGED docker, End(o, "ok"), VolumesBusy(o), End(o, "error"))

DbStep(o) ==
  \/ NetGet(o) \/ NetCreate(o) \/ Pull(o) \/ OldGet(o) \/ OldRemove(o) \/ CurGet(o)
  \/ StopCurrent(o) \/ RenameCurrent(o) \/ GetOrCreate(o) \/ CreateDb(o) \/ StartAndWait(o)
  \/ WaitReady(o) \/ Commit(o) \/ PutBackGet(o) \/ PutBackRemove(o) \/ PutBackRename(o)
  \/ PutBackStart(o) \/ StartGet(o) \/ StopGet(o) \/ StopDb(o) \/ RemoveGet(o) \/ RemoveDb(o)
  \/ DisconnectAll(o) \/ RemoveNetwork(o) \/ RemoveVolumes(o)
=============================================================================
