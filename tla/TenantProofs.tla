---------------------------- MODULE TenantProofs ----------------------------
(***************************************************************************)
(* Proofs about the commands for one tenant, for any number of requests    *)
(* that overlap, of containers and of commands with a failing call: one    *)
(* server at most runs on the data, a failed recreate puts the old one     *)
(* back, a retry succeeds, a remove is complete and a failed provision     *)
(* leaves nothing running.                                                 *)
(***************************************************************************)
EXTENDS Tenant, FiniteSetTheorems, TLAPS

-----------------------------------------------------------------------------
(* The parts of the inductive invariant. *)

NoHandle == Containers \cup {NoContainer}

(* What Docker holds: two containers never have one name.                    *)
DockerOK ==
  /\ name \in [Containers -> DbNames \cup {"saas", "saas_cf", "none"}]
  /\ status \in [Containers -> {"none", "created", "running", "exited"}]
  /\ network \in BOOLEAN /\ attached \subseteq Containers
  /\ \A c \in Containers : name[c] = "none" <=> status[c] = "none"
  /\ \A c \in attached : name[c] # "none"
  /\ \A c, d \in Containers : name[c] = name[d] /\ name[c] # "none" => c = d

OpsOK ==
  /\ kind \in [Ops -> Kinds]
  /\ pc \in [Ops -> DbSteps \cup InstanceSteps \cup {"idle"}]
  /\ ctr \in [Ops -> NoHandle] /\ prev \in [Ops -> NoHandle]
  /\ result \in [Ops -> {"none", "ok", "error", "crashed"}]
  /\ faulty \subseteq Ops /\ alone \subseteq Ops /\ wasUp \subseteq Ops
  /\ latest \in Ops \cup {NoOp} /\ crossed \in BOOLEAN

(* Which command makes which call, and with what in hand.                    *)
Course(k, step, c, p) ==
  /\ step \in {"net", "netCreate", "get", "create"} => k \in {"ensure", "recreate"}
  /\ step \in {"pull", "oldGet", "oldRemove", "curGet", "stop", "rename", "commit",
               "pbGet", "pbRemove", "pbRename", "pbStart"} => k = "recreate"
  /\ step \in {"start", "wait"} => k \in {"ensure", "recreate", "start"}
  /\ step = "sGet" => k = "start"
  /\ step \in {"stGet", "stStop"} => k = "stop"
  /\ step \in {"rmGet", "rmCtr", "rmDisc", "rmNet", "rmVol"} => k = "remove"
  /\ step \in InstanceSteps \ {"deCf", "deMain"} => k \in ProvisionKinds
  /\ step \in {"iConnect", "iUndo"} => k = "provision"
  /\ step \in {"deCf", "deMain"} => k = "deprovision"
  /\ step \in {"stop", "rename", "commit", "pbGet", "pbRemove", "pbRename", "pbStart"} =>
       p # NoContainer
  /\ step \in {"oldRemove", "start", "wait", "commit", "pbRemove", "stStop", "rmCtr", "swRemove",
               "cfRemove", "iConnect", "iStart", "iUndo", "sidecar", "deCf", "deMain"} =>
       c # NoContainer
  /\ step \in {"prepare", "swGet", "cfGet", "iCreate"} => c = NoContainer
  /\ k \in {"ensure", "start"} => p = NoContainer
OnCourse == \A o \in Ops : pc[o] # "idle" => Course(kind[o], pc[o], ctr[o], prev[o])

(* A command without a result is at work or has not come yet; what an        *)
(* answered provision named is a container.                                  *)
Begun ==
  /\ \A o \in Ops : result[o] # "none" => pc[o] = "idle"
  /\ \A o \in alone \cup wasUp \cup faulty : result[o] # "none" \/ pc[o] # "idle"
  /\ \A o \in Ops : result[o] = "ok" /\ kind[o] \in ProvisionKinds => ctr[o] # NoContainer

(* The commands for Postgres hold containers of Postgres, and a provision    *)
(* its own, unless they are gone.                                            *)
Names(step, c, p) ==
  /\ step \in DbSteps /\ c # NoContainer => name[c] \in DbNames \cup {"none"}
  /\ step \in DbSteps /\ p # NoContainer => name[p] \in DbNames \cup {"none"}
  /\ step \in {"iConnect", "iStart", "iUndo", "sidecar"} => name[c] \in {"saas", "none"}
Holds == \A o \in Ops : Names(pc[o], ctr[o], prev[o])

(* Until a recreate meets another command that starts Postgres: what is set  *)
(* aside does not run, and what is about to be started is not set aside.     *)
Apart == \A o, p \in Active : o # p => ~Crosses(kind[o], kind[p])
SetAsideIsDown ==
  /\ \A c \in Containers : name[c] = "pg_old" => ~Up(c)
  /\ \A o \in Ops :
       /\ pc[o] = "start" => name[ctr[o]] # "pg_old"
       /\ pc[o] = "pbStart" => name[prev[o]] # "pg_old"
       /\ pc[o] = "rename" => ~Up(prev[o])
Uncrossed == ~crossed => Apart /\ SetAsideIsDown

(* Only its own provision starts an instance, and then undoes it.            *)
Provisioning == {"iConnect", "iStart", "iUndo"}
OwnInstance ==
  /\ \A o, p \in Ops :
       o # p /\ pc[o] \in Provisioning /\ pc[p] \in Provisioning => ctr[o] # ctr[p]
  /\ \A o \in Ops :
       /\ pc[o] \in {"iConnect", "iStart"} => ~Up(ctr[o])
       /\ pc[o] = "iUndo" /\ Up(ctr[o]) => o \in faulty

(* What a command without company knows.                                     *)
Free(n) == \A c \in Containers : name[c] # n
LoneEnsure(o) ==
  /\ pc[o] = "netCreate" => ~network
  /\ pc[o] \notin {"net", "netCreate"} => network
  /\ pc[o] = "oldRemove" => name[ctr[o]] = "pg_old"
  /\ pc[o] \in {"curGet", "stop", "rename"} => Free("pg_old")
  /\ pc[o] \in {"stop", "rename"} => name[prev[o]] = "pg"
  /\ pc[o] \in {"get", "create", "start", "wait", "commit", "pbGet", "pbRemove", "pbRename"}
       /\ prev[o] # NoContainer => name[prev[o]] = "pg_old"
  /\ pc[o] \in {"create", "pbRename"} => Free("pg")
  /\ pc[o] = "get" /\ kind[o] = "recreate" => Free("pg")
  /\ pc[o] \in {"start", "wait", "commit", "pbRemove"} => name[ctr[o]] = "pg"
  /\ pc[o] \in {"wait", "commit"} => Up(ctr[o])
  /\ pc[o] \in {"pbGet", "pbRemove", "pbRename", "pbStart"} => o \in faulty
  /\ pc[o] = "pbStart" => name[prev[o]] = "pg"

LoneRecreate(o) ==
  /\ pc[o] \in {"net", "netCreate", "pull", "oldGet", "oldRemove", "curGet"} => DbUp
  /\ pc[o] \in {"get", "create", "start", "wait"} => prev[o] # NoContainer

LoneProvision(o) ==
  /\ pc[o] = "swRemove" => name[ctr[o]] = "saas"
  /\ pc[o] \in {"cfGet", "cfRemove", "iCreate"} => Free("saas")
  /\ pc[o] \in {"iConnect", "iStart", "sidecar"} => name[ctr[o]] = "saas"
  /\ pc[o] \in {"iStart", "sidecar"} /\ kind[o] = "provision" => network /\ ctr[o] \in attached
  /\ pc[o] \in {"iStart", "sidecar"} /\ kind[o] = "provisionPlain" => ctr[o] \notin attached
  /\ pc[o] = "sidecar" => Up(ctr[o])
  /\ pc[o] = "iUndo" => ~network

Lone(o) ==
  /\ Active = {o}
  /\ kind[o] \in {"ensure", "recreate"} => LoneEnsure(o)
  /\ kind[o] = "recreate" /\ o \in wasUp => LoneRecreate(o)
  /\ kind[o] \in ProvisionKinds /\ o \notin faulty => LoneProvision(o)
  /\ pc[o] = "rmVol" => ~network
Alone == \A o \in alone : pc[o] # "idle" => Lone(o)

TenantInv ==
  DockerOK /\ OpsOK /\ OnCourse /\ Begun /\ Holds /\ Uncrossed /\ OwnInstance /\ Alone

-----------------------------------------------------------------------------
(* How a command moves on. *)

Steps == DbSteps \cup InstanceSteps

LEMMA FindNamed ==
  ASSUME NEW n
  PROVE  /\ Named(n) = {} => Find(n) = NoContainer
         /\ Named(n) # {} => Find(n) \in Named(n)
         /\ Find(n) \in NoHandle
BY DEF Find, Named, NoHandle

(* It goes on to a call it may make, or ends; only its own variables change. *)
Continues(o, step, c, p) ==
  step \in Steps /\ c \in NoHandle /\ p \in NoHandle /\ Course(kind[o], step, c, p)
    /\ GoWith(o, step, c, p)
Answers(o, how, c, p) ==
  /\ how \in {"ok", "error"} /\ c \in NoHandle /\ p \in NoHandle
  /\ how = "ok" /\ kind[o] \in ProvisionKinds => c # NoContainer
  /\ EndWith(o, how, c, p)
MovesOn(o) ==
  \/ \E step \in Steps, c, p \in NoHandle : Continues(o, step, c, p)
  \/ \E how \in {"ok", "error"}, c, p \in NoHandle : Answers(o, how, c, p)

LEMMA StepMoves ==
  ASSUME TenantInv, NEW o \in Ops, Step(o)
  PROVE  MovesOn(o)
<1>y. /\ TenantAssumption /\ kind[o] \in Kinds /\ ctr[o] \in NoHandle /\ prev[o] \in NoHandle
      /\ pc[o] # "idle" => Course(kind[o], pc[o], ctr[o], prev[o])
      /\ NoContainer \in NoHandle /\ \A c \in Fresh : c \in NoHandle /\ c # NoContainer
  BY TenantAssumption DEF TenantInv, OpsOK, OnCourse, NoHandle, Fresh, Unused, TenantAssumption
<1>f. \A n : Find(n) \in NoHandle /\ (Named(n) # {} => Find(n) # NoContainer)
  BY FindNamed, <1>y DEF Named, TenantAssumption
<1>g. ASSUME NEW step, NEW c, NEW p, GoWith(o, step, c, p), step \in Steps, c \in NoHandle,
             p \in NoHandle, Course(kind[o], step, c, p)
      PROVE  MovesOn(o)
  BY <1>g DEF MovesOn, Continues
<1>e. ASSUME NEW how, NEW c, NEW p, EndWith(o, how, c, p), how \in {"ok", "error"},
             c \in NoHandle, p \in NoHandle,
             how = "ok" /\ kind[o] \in ProvisionKinds => c # NoContainer
      PROVE  MovesOn(o)
  BY <1>e DEF MovesOn, Answers
<1> USE DEF Call, Ask, At, GoTo, End, Course, Steps, DbSteps, InstanceSteps, Kinds, DbKinds,
            InstanceKinds, ProvisionKinds
<1>1. CASE NetGet(o)  BY <1>1, <1>y, <1>f, <1>g, <1>e DEF NetGet, AfterNetwork
<1>2. CASE NetCreate(o)  BY <1>2, <1>y, <1>f, <1>g, <1>e DEF NetCreate, AfterNetwork
<1>3. CASE Pull(o)  BY <1>3, <1>y, <1>f, <1>g, <1>e DEF Pull
<1>4. CASE OldGet(o)  BY <1>4, <1>y, <1>f, <1>g, <1>e DEF OldGet, Look
<1>5. CASE OldRemove(o)  BY <1>5, <1>y, <1>f, <1>g, <1>e DEF OldRemove
<1>6. CASE CurGet(o)  BY <1>6, <1>y, <1>f, <1>g, <1>e DEF CurGet
<1>7. CASE StopCurrent(o)  BY <1>7, <1>y, <1>f, <1>g, <1>e DEF StopCurrent, SetAside
<1>8. CASE RenameCurrent(o)  BY <1>8, <1>y, <1>f, <1>g, <1>e DEF RenameCurrent
<1>9. CASE GetOrCreate(o)  BY <1>9, <1>y, <1>f, <1>g, <1>e DEF GetOrCreate, Failed
<1>10. CASE CreateDb(o)  BY <1>10, <1>y, <1>f, <1>g, <1>e DEF CreateDb, Failed
<1>11. CASE StartAndWait(o)  BY <1>11, <1>y, <1>f, <1>g, <1>e DEF StartAndWait, StartDb, Failed
<1>12. CASE WaitReady(o)  BY <1>12, <1>y, <1>f, <1>g, <1>e DEF WaitReady, Ready, Failed
<1>13. CASE Commit(o)  BY <1>13, <1>y, <1>f, <1>g, <1>e DEF Commit
<1>14. CASE PutBackGet(o)  BY <1>14, <1>y, <1>f, <1>g, <1>e DEF PutBackGet, Look
<1>15. CASE PutBackRemove(o)  BY <1>15, <1>y, <1>f, <1>g, <1>e DEF PutBackRemove
<1>16. CASE PutBackRename(o)  BY <1>16, <1>y, <1>f, <1>g, <1>e DEF PutBackRename, AfterPutBack
<1>17. CASE PutBackStart(o)  BY <1>17, <1>y, <1>f, <1>g, <1>e DEF PutBackStart
<1>18. CASE StartGet(o)  BY <1>18, <1>y, <1>f, <1>g, <1>e DEF StartGet, Look
<1>19. CASE StopGet(o)  BY <1>19, <1>y, <1>f, <1>g, <1>e DEF StopGet, Look
<1>20. CASE StopDb(o)  BY <1>20, <1>y, <1>f, <1>g, <1>e DEF StopDb
<1>21. CASE RemoveGet(o)  BY <1>21, <1>y, <1>f, <1>g, <1>e DEF RemoveGet, Look
<1>22. CASE RemoveDb(o)  BY <1>22, <1>y, <1>f, <1>g, <1>e DEF RemoveDb
<1>23. CASE DisconnectAll(o)  BY <1>23, <1>y, <1>f, <1>g, <1>e DEF DisconnectAll
<1>24. CASE RemoveNetwork(o)  BY <1>24, <1>y, <1>f, <1>g, <1>e DEF RemoveNetwork
<1>25. CASE RemoveVolumes(o)  BY <1>25, <1>y, <1>f, <1>g, <1>e DEF RemoveVolumes, VolumesBusy
<1>26. CASE Prepare(o)  BY <1>26, <1>y, <1>f, <1>g, <1>e DEF Prepare
<1>27. CASE SweepInstance(o)
  BY <1>27, <1>y, <1>f, <1>g, <1>e DEF SweepInstance, SweepGet, SweepRemove, Stale
<1>28. CASE SweepSidecar(o)
  BY <1>28, <1>y, <1>f, <1>g, <1>e DEF SweepSidecar, SweepGet, SweepRemove
<1>29. CASE CreateInstance(o)  BY <1>29, <1>y, <1>f, <1>g, <1>e DEF CreateInstance
<1>30. CASE ConnectInstance(o)  BY <1>30, <1>y, <1>f, <1>g, <1>e DEF ConnectInstance
<1>31. CASE StartInstance(o)  BY <1>31, <1>y, <1>f, <1>g, <1>e DEF StartInstance, NotStarted
<1>32. CASE UndoInstance(o)  BY <1>32, <1>y, <1>f, <1>g, <1>e DEF UndoInstance
<1>33. CASE NoSidecar(o)  BY <1>33, <1>y, <1>f, <1>g, <1>e DEF NoSidecar
<1>34. CASE SpawnSidecar(o)  BY <1>34, <1>y, <1>f, <1>g, <1>e DEF SpawnSidecar
<1>35. CASE RemoveSidecarById(o)  BY <1>35, <1>y, <1>f, <1>g, <1>e DEF RemoveSidecarById
<1>36. CASE RemoveInstanceById(o)  BY <1>36, <1>y, <1>f, <1>g, <1>e DEF RemoveInstanceById
<1> QED
  BY <1>1, <1>2, <1>3, <1>4, <1>5, <1>6, <1>7, <1>8, <1>9, <1>10, <1>11, <1>12, <1>13, <1>14,
       <1>15, <1>16, <1>17, <1>18, <1>19, <1>20, <1>21, <1>22, <1>23, <1>24, <1>25, <1>26, <1>27,
       <1>28, <1>29, <1>30, <1>31, <1>32, <1>33, <1>34, <1>35, <1>36
  DEF Step, DbStep, InstanceStep

-----------------------------------------------------------------------------
(* What a call does to what Docker holds. *)

Creates(c, n) ==
  /\ c \in Unused /\ n \in {"pg", "saas", "saas_cf"} /\ Named(n) = {}
  /\ name' = [name EXCEPT ![c] = n]
  /\ status' = [status EXCEPT ![c] = IF n = "saas_cf" THEN "running" ELSE "created"]
  /\ network' = network /\ attached' \in {attached, attached \cup {c}}
Starts(o, c) ==
  /\ (pc[o] \in {"start", "iStart"} /\ c = ctr[o]) \/ (pc[o] = "pbStart" /\ c = prev[o])
  /\ Present(c) /\ Start(c)
Renames(o) ==
  \/ pc[o] = "rename" /\ Present(prev[o]) /\ Named("pg_old") = {} /\ Rename(prev[o], "pg_old")
  \/ pc[o] = "pbRename" /\ Present(prev[o]) /\ Named("pg") = {} /\ Rename(prev[o], "pg")
Wires(o) ==
  /\ UNCHANGED <<name, status>> /\ network' \in BOOLEAN
  /\ \/ attached' \subseteq attached
     \/ pc[o] = "iConnect" /\ Present(ctr[o]) /\ attached' = attached \cup {ctr[o]}

Effect(o) ==
  \/ UNCHANGED docker
  \/ \E c \in Unused, n \in {"pg", "saas", "saas_cf"} : Creates(c, n)
  \/ \E c \in Containers : Starts(o, c)
  \/ \E c \in Containers : Present(c) /\ Stop(c)
  \/ \E c \in Containers : Present(c) /\ Remove(c)
  \/ Renames(o)
  \/ Wires(o)

LEMMA StepEffect ==
  ASSUME TenantInv, NEW o \in Ops, Step(o)
  PROVE  Effect(o)
<1>y. /\ DockerOK /\ ctr[o] \in NoHandle /\ prev[o] \in NoHandle /\ NoContainer \notin Containers
      /\ pc[o] # "idle" => Course(kind[o], pc[o], ctr[o], prev[o])
  BY TenantAssumption DEF TenantInv, OpsOK, OnCourse, TenantAssumption
<1>n. \A c \in NoHandle : Present(c) => c \in Containers  BY DEF NoHandle, Present
<1>c. ASSUME NEW c \in Fresh, NEW n \in {"pg", "saas", "saas_cf"}, Creates(c, n)  PROVE Effect(o)
  BY <1>c DEF Effect, Creates
<1>s. ASSUME NEW c \in NoHandle, Starts(o, c)  PROVE Effect(o)
  BY <1>s, <1>n DEF Effect, Starts
<1>t. ASSUME NEW c \in NoHandle, Present(c), Stop(c) \/ Remove(c)  PROVE Effect(o)
  BY <1>t, <1>n DEF Effect
<1>r. Renames(o) \/ Wires(o) \/ UNCHANGED docker => Effect(o)  BY DEF Effect
<1> USE DEF Call, Ask, At
<1>1. CASE NetGet(o)  BY <1>1, <1>y, <1>r DEF NetGet, AfterNetwork
<1>2. CASE NetCreate(o)
  BY <1>2, <1>y, <1>r DEF NetCreate, Wires, DockerOK
<1>3. CASE Pull(o)  BY <1>3, <1>y, <1>r DEF Pull
<1>4. CASE OldGet(o)  BY <1>4, <1>y, <1>r DEF OldGet, Look
<1>5. CASE OldRemove(o)
  BY <1>5, <1>y, <1>r, <1>t DEF OldRemove
<1>6. CASE CurGet(o)  BY <1>6, <1>y, <1>r DEF CurGet
<1>7. CASE StopCurrent(o)
  BY <1>7, <1>y, <1>r, <1>t DEF StopCurrent, SetAside
<1>8. CASE RenameCurrent(o)
  BY <1>8, <1>y, <1>r DEF RenameCurrent, Renames
<1>9. CASE GetOrCreate(o)  BY <1>9, <1>y, <1>r DEF GetOrCreate, Failed
<1>10. CASE CreateDb(o)
  BY <1>10, <1>y, <1>r, <1>c DEF CreateDb, Creates, Create, Fresh
<1>11. CASE StartAndWait(o)
  BY <1>11, <1>y, <1>r, <1>s DEF StartAndWait, StartDb, Starts, Startable
<1>12. CASE WaitReady(o)  BY <1>12, <1>y, <1>r DEF WaitReady, Ready, Failed
<1>13. CASE Commit(o)
  BY <1>13, <1>y, <1>r, <1>t DEF Commit
<1>14. CASE PutBackGet(o)  BY <1>14, <1>y, <1>r DEF PutBackGet, Look
<1>15. CASE PutBackRemove(o)
  BY <1>15, <1>y, <1>r, <1>t DEF PutBackRemove
<1>16. CASE PutBackRename(o)
  BY <1>16, <1>y, <1>r DEF PutBackRename, Renames
<1>17. CASE PutBackStart(o)
  BY <1>17, <1>y, <1>r, <1>s DEF PutBackStart, Starts, Startable
<1>18. CASE StartGet(o)  BY <1>18, <1>y, <1>r DEF StartGet, Look
<1>19. CASE StopGet(o)  BY <1>19, <1>y, <1>r DEF StopGet, Look
<1>20. CASE StopDb(o)
  BY <1>20, <1>y, <1>r, <1>t DEF StopDb
<1>21. CASE RemoveGet(o)  BY <1>21, <1>y, <1>r DEF RemoveGet, Look
<1>22. CASE RemoveDb(o)
  BY <1>22, <1>y, <1>r, <1>t DEF RemoveDb
<1>23. CASE DisconnectAll(o)
  BY <1>23, <1>y, <1>r DEF DisconnectAll, Wires, DockerOK
<1>24. CASE RemoveNetwork(o)
  BY <1>24, <1>y, <1>r DEF RemoveNetwork, Wires, DockerOK
<1>25. CASE RemoveVolumes(o)  BY <1>25, <1>y, <1>r DEF RemoveVolumes, VolumesBusy
<1>26. CASE Prepare(o)  BY <1>26, <1>y, <1>r DEF Prepare
<1>27. CASE SweepInstance(o)
  BY <1>27, <1>y, <1>r, <1>t DEF SweepInstance, SweepGet, SweepRemove, Stale
<1>28. CASE SweepSidecar(o)
  BY <1>28, <1>y, <1>r, <1>t DEF SweepSidecar, SweepGet, SweepRemove
<1>29. CASE CreateInstance(o)
  BY <1>29, <1>y, <1>r, <1>c DEF CreateInstance, Creates, Create, Fresh
<1>30. CASE ConnectInstance(o)
  BY <1>30, <1>y, <1>r DEF ConnectInstance, Wires, DockerOK
<1>31. CASE StartInstance(o)
  BY <1>31, <1>y, <1>r, <1>s DEF StartInstance, Starts, Startable
<1>32. CASE UndoInstance(o)
  BY <1>32, <1>y, <1>r, <1>t DEF UndoInstance
<1>33. CASE NoSidecar(o)  BY <1>33, <1>y, <1>r DEF NoSidecar
<1>34. CASE SpawnSidecar(o)
  BY <1>34, <1>y, <1>r, <1>c DEF SpawnSidecar, Creates, Fresh
<1>35. CASE RemoveSidecarById(o)
  BY <1>35, <1>y, <1>r, <1>t DEF RemoveSidecarById
<1>36. CASE RemoveInstanceById(o)
  BY <1>36, <1>y, <1>r, <1>t DEF RemoveInstanceById
<1> QED
  BY <1>1, <1>2, <1>3, <1>4, <1>5, <1>6, <1>7, <1>8, <1>9, <1>10, <1>11, <1>12, <1>13, <1>14,
       <1>15, <1>16, <1>17, <1>18, <1>19, <1>20, <1>21, <1>22, <1>23, <1>24, <1>25, <1>26, <1>27,
       <1>28, <1>29, <1>30, <1>31, <1>32, <1>33, <1>34, <1>35, <1>36
  DEF Step, DbStep, InstanceStep

LEMMA DockerKept ==
  ASSUME TenantInv, NEW o \in Ops, Effect(o)
  PROVE  DockerOK'
<1>y. /\ DockerOK /\ NoContainer \notin Containers /\ prev[o] \in NoHandle /\ ctr[o] \in NoHandle
      /\ \A c \in NoHandle : Present(c) => c \in Containers
  BY TenantAssumption DEF TenantInv, OpsOK, TenantAssumption, NoHandle, Present
<1> USE DEF DockerOK, DbNames, Present
<1>1. UNCHANGED docker => DockerOK'  BY <1>y DEF docker
<1>2. ASSUME NEW c \in Unused, NEW n \in {"pg", "saas", "saas_cf"}, Creates(c, n)  PROVE DockerOK'
  BY <1>2, <1>y DEF Creates, Named, Unused
<1>3. ASSUME NEW c \in Containers, Starts(o, c)  PROVE DockerOK'
  BY <1>3, <1>y DEF Starts, Start
<1>4. ASSUME NEW c \in Containers, Present(c), Stop(c)  PROVE DockerOK'
  BY <1>4, <1>y DEF Stop, Up
<1>5. ASSUME NEW c \in Containers, Present(c), Remove(c)  PROVE DockerOK'
  BY <1>5, <1>y DEF Remove
<1>6. Renames(o) => DockerOK'  BY <1>y DEF Renames, Rename, Named
<1>7. Wires(o) => DockerOK'  BY <1>y DEF Wires
<1> QED  BY <1>1, <1>2, <1>3, <1>4, <1>5, <1>6, <1>7 DEF Effect

-----------------------------------------------------------------------------
(* The four kinds of step: a command begins, it makes a call, the agent dies, *)
(* nothing happens.                                                           *)

Unmoved(q) == pc'[q] = pc[q] /\ ctr'[q] = ctr[q] /\ prev'[q] = prev[q] /\ result'[q] = result[q]

LEMMA StepFrame ==
  ASSUME TenantInv, NEW o \in Ops, Step(o)
  PROVE  /\ UNCHANGED <<kind, alone, latest, crossed, wasUp>>
         /\ \A q \in Ops : q # o => Unmoved(q)
         /\ pc' \in [Ops -> Steps \cup {"idle"}]
         /\ ctr' \in [Ops -> NoHandle] /\ prev' \in [Ops -> NoHandle]
         /\ result' \in [Ops -> {"none", "ok", "error", "crashed"}]
         /\ pc'[o] # "idle" => /\ Course(kind[o], pc'[o], ctr'[o], prev'[o])
                               /\ result'[o] = result[o]
         /\ pc'[o] = "idle" => result'[o] \in {"ok", "error"}
         /\ result'[o] = "ok" /\ result[o] # "ok" /\ kind[o] \in ProvisionKinds =>
              ctr'[o] # NoContainer
<1>y. /\ pc \in [Ops -> Steps \cup {"idle"}] /\ ctr \in [Ops -> NoHandle]
      /\ prev \in [Ops -> NoHandle]
      /\ result \in [Ops -> {"none", "ok", "error", "crashed"}]
  BY DEF TenantInv, OpsOK, Steps
<1>u. UNCHANGED <<kind, alone, latest, crossed, wasUp>>  BY DEF Step
<1>i. "idle" \notin Steps  BY DEF Steps, DbSteps, InstanceSteps
<1>1. ASSUME NEW step \in Steps, NEW c \in NoHandle, NEW p \in NoHandle, Continues(o, step, c, p)
      PROVE  /\ \A q \in Ops : q # o => Unmoved(q)
             /\ pc' \in [Ops -> Steps \cup {"idle"}]
             /\ ctr' \in [Ops -> NoHandle] /\ prev' \in [Ops -> NoHandle]
             /\ result' = result
             /\ pc'[o] = step /\ ctr'[o] = c /\ prev'[o] = p /\ Course(kind[o], step, c, p)
  BY <1>1, <1>y DEF Continues, GoWith, Holding, Unmoved
<1>2. ASSUME NEW how \in {"ok", "error"}, NEW c \in NoHandle, NEW p \in NoHandle,
             Answers(o, how, c, p)
      PROVE  /\ \A q \in Ops : q # o => Unmoved(q)
             /\ pc' \in [Ops -> Steps \cup {"idle"}]
             /\ ctr' \in [Ops -> NoHandle] /\ prev' \in [Ops -> NoHandle]
             /\ result' \in [Ops -> {"none", "ok", "error", "crashed"}]
             /\ pc'[o] = "idle" /\ ctr'[o] = c /\ result'[o] = how
             /\ how = "ok" /\ kind[o] \in ProvisionKinds => c # NoContainer
  BY <1>2, <1>y DEF Answers, EndWith, Holding, Unmoved
<1>3. CASE \E step \in Steps, c, p \in NoHandle : Continues(o, step, c, p)
  BY <1>1, <1>3, <1>y, <1>u, <1>i
<1>4. CASE \E how \in {"ok", "error"}, c, p \in NoHandle : Answers(o, how, c, p)
  BY <1>2, <1>4, <1>y, <1>u
<1> QED  BY <1>3, <1>4, StepMoves DEF MovesOn

LEMMA StepFaults ==
  ASSUME NEW o \in Ops, Step(o)
  PROVE  faulty' = faulty \/ (o \notin faulty /\ faulty' = faulty \cup {o})
<1>f. (NoFault => faulty' = faulty) /\ (Fault(o) => o \notin faulty /\ faulty' = faulty \cup {o})
  BY DEF NoFault, Fault
<1> USE DEF Call, Ask
<1>1. CASE NetGet(o)  BY <1>1, <1>f DEF NetGet, AfterNetwork
<1>2. CASE NetCreate(o)  BY <1>2, <1>f DEF NetCreate, AfterNetwork
<1>3. CASE Pull(o)  BY <1>3, <1>f DEF Pull
<1>4. CASE OldGet(o)  BY <1>4, <1>f DEF OldGet, Look
<1>5. CASE OldRemove(o)  BY <1>5, <1>f DEF OldRemove
<1>6. CASE CurGet(o)  BY <1>6, <1>f DEF CurGet
<1>7. CASE StopCurrent(o)  BY <1>7, <1>f DEF StopCurrent, SetAside
<1>8. CASE RenameCurrent(o)  BY <1>8, <1>f DEF RenameCurrent
<1>9. CASE GetOrCreate(o)  BY <1>9, <1>f DEF GetOrCreate, Failed
<1>10. CASE CreateDb(o)  BY <1>10, <1>f DEF CreateDb, Failed
<1>11. CASE StartAndWait(o)  BY <1>11, <1>f DEF StartAndWait, StartDb, Failed
<1>12. CASE WaitReady(o)  BY <1>12, <1>f DEF WaitReady, Ready, Failed
<1>13. CASE Commit(o)  BY <1>13, <1>f DEF Commit
<1>14. CASE PutBackGet(o)  BY <1>14, <1>f DEF PutBackGet, Look
<1>15. CASE PutBackRemove(o)  BY <1>15, <1>f DEF PutBackRemove
<1>16. CASE PutBackRename(o)  BY <1>16, <1>f DEF PutBackRename, AfterPutBack
<1>17. CASE PutBackStart(o)  BY <1>17, <1>f DEF PutBackStart
<1>18. CASE StartGet(o)  BY <1>18, <1>f DEF StartGet, Look
<1>19. CASE StopGet(o)  BY <1>19, <1>f DEF StopGet, Look
<1>20. CASE StopDb(o)  BY <1>20, <1>f DEF StopDb
<1>21. CASE RemoveGet(o)  BY <1>21, <1>f DEF RemoveGet, Look
<1>22. CASE RemoveDb(o)  BY <1>22, <1>f DEF RemoveDb
<1>23. CASE DisconnectAll(o)  BY <1>23, <1>f DEF DisconnectAll
<1>24. CASE RemoveNetwork(o)  BY <1>24, <1>f DEF RemoveNetwork
<1>25. CASE RemoveVolumes(o)  BY <1>25, <1>f DEF RemoveVolumes, VolumesBusy
<1>26. CASE Prepare(o)  BY <1>26, <1>f DEF Prepare
<1>27. CASE SweepInstance(o)  BY <1>27, <1>f DEF SweepInstance, SweepGet, SweepRemove, Stale
<1>28. CASE SweepSidecar(o)  BY <1>28, <1>f DEF SweepSidecar, SweepGet, SweepRemove
<1>29. CASE CreateInstance(o)  BY <1>29, <1>f DEF CreateInstance
<1>30. CASE ConnectInstance(o)  BY <1>30, <1>f DEF ConnectInstance
<1>31. CASE StartInstance(o)  BY <1>31, <1>f DEF StartInstance, NotStarted
<1>32. CASE UndoInstance(o)  BY <1>32, <1>f DEF UndoInstance
<1>33. CASE NoSidecar(o)  BY <1>33, <1>f DEF NoSidecar
<1>34. CASE SpawnSidecar(o)  BY <1>34, <1>f DEF SpawnSidecar
<1>35. CASE RemoveSidecarById(o)  BY <1>35, <1>f DEF RemoveSidecarById
<1>36. CASE RemoveInstanceById(o)  BY <1>36, <1>f DEF RemoveInstanceById
<1> QED
  BY <1>1, <1>2, <1>3, <1>4, <1>5, <1>6, <1>7, <1>8, <1>9, <1>10, <1>11, <1>12, <1>13, <1>14,
       <1>15, <1>16, <1>17, <1>18, <1>19, <1>20, <1>21, <1>22, <1>23, <1>24, <1>25, <1>26, <1>27,
       <1>28, <1>29, <1>30, <1>31, <1>32, <1>33, <1>34, <1>35, <1>36
  DEF Step, DbStep, InstanceStep

LEMMA StepAt ==
  ASSUME NEW o \in Ops, Step(o)
  PROVE  pc[o] \in Steps
<1> USE DEF At, Steps, DbSteps, InstanceSteps
<1>1. CASE NetGet(o)  BY <1>1 DEF NetGet, AfterNetwork
<1>2. CASE NetCreate(o)  BY <1>2 DEF NetCreate, AfterNetwork
<1>3. CASE Pull(o)  BY <1>3 DEF Pull
<1>4. CASE OldGet(o)  BY <1>4 DEF OldGet, Look
<1>5. CASE OldRemove(o)  BY <1>5 DEF OldRemove
<1>6. CASE CurGet(o)  BY <1>6 DEF CurGet
<1>7. CASE StopCurrent(o)  BY <1>7 DEF StopCurrent, SetAside
<1>8. CASE RenameCurrent(o)  BY <1>8 DEF RenameCurrent
<1>9. CASE GetOrCreate(o)  BY <1>9 DEF GetOrCreate, Failed
<1>10. CASE CreateDb(o)  BY <1>10 DEF CreateDb, Failed
<1>11. CASE StartAndWait(o)  BY <1>11 DEF StartAndWait, StartDb, Failed
<1>12. CASE WaitReady(o)  BY <1>12 DEF WaitReady, Ready, Failed
<1>13. CASE Commit(o)  BY <1>13 DEF Commit
<1>14. CASE PutBackGet(o)  BY <1>14 DEF PutBackGet, Look
<1>15. CASE PutBackRemove(o)  BY <1>15 DEF PutBackRemove
<1>16. CASE PutBackRename(o)  BY <1>16 DEF PutBackRename, AfterPutBack
<1>17. CASE PutBackStart(o)  BY <1>17 DEF PutBackStart
<1>18. CASE StartGet(o)  BY <1>18 DEF StartGet, Look
<1>19. CASE StopGet(o)  BY <1>19 DEF StopGet, Look
<1>20. CASE StopDb(o)  BY <1>20 DEF StopDb
<1>21. CASE RemoveGet(o)  BY <1>21 DEF RemoveGet, Look
<1>22. CASE RemoveDb(o)  BY <1>22 DEF RemoveDb
<1>23. CASE DisconnectAll(o)  BY <1>23 DEF DisconnectAll
<1>24. CASE RemoveNetwork(o)  BY <1>24 DEF RemoveNetwork
<1>25. CASE RemoveVolumes(o)  BY <1>25 DEF RemoveVolumes, VolumesBusy
<1>26. CASE Prepare(o)  BY <1>26 DEF Prepare
<1>27. CASE SweepInstance(o)  BY <1>27 DEF SweepInstance, SweepGet, SweepRemove, Stale
<1>28. CASE SweepSidecar(o)  BY <1>28 DEF SweepSidecar, SweepGet, SweepRemove
<1>29. CASE CreateInstance(o)  BY <1>29 DEF CreateInstance
<1>30. CASE ConnectInstance(o)  BY <1>30 DEF ConnectInstance
<1>31. CASE StartInstance(o)  BY <1>31 DEF StartInstance, NotStarted
<1>32. CASE UndoInstance(o)  BY <1>32 DEF UndoInstance
<1>33. CASE NoSidecar(o)  BY <1>33 DEF NoSidecar
<1>34. CASE SpawnSidecar(o)  BY <1>34 DEF SpawnSidecar
<1>35. CASE RemoveSidecarById(o)  BY <1>35 DEF RemoveSidecarById
<1>36. CASE RemoveInstanceById(o)  BY <1>36 DEF RemoveInstanceById
<1> QED
  BY <1>1, <1>2, <1>3, <1>4, <1>5, <1>6, <1>7, <1>8, <1>9, <1>10, <1>11, <1>12, <1>13, <1>14,
       <1>15, <1>16, <1>17, <1>18, <1>19, <1>20, <1>21, <1>22, <1>23, <1>24, <1>25, <1>26, <1>27,
       <1>28, <1>29, <1>30, <1>31, <1>32, <1>33, <1>34, <1>35, <1>36
  DEF Step, DbStep, InstanceStep

(* What begins makes its first call, with nothing in hand unless it was told *)
(* to deprovision.                                                           *)
Begins(o, k, step, c, p) ==
  /\ k \in Kinds /\ step \in Steps /\ c \in NoHandle /\ p \in NoHandle
  /\ Course(k, step, c, p)
  /\ step \in {"net", "sGet", "stGet", "rmGet", "prepare", "deCf"}
  /\ step # "deCf" => c = NoContainer /\ p = NoContainer
  /\ Begin(o, k, step, c, p)

LEMMA NextIs ==
  ASSUME TenantInv, [Next]_tenantVars
  PROVE  \/ \E o \in Ops : Step(o)
         \/ \E o \in Ops, k \in Kinds, step \in Steps, c, p \in NoHandle : Begins(o, k, step, c, p)
         \/ Crash
         \/ UNCHANGED tenantVars
<1>n. NoContainer \in NoHandle  BY DEF NoHandle
<1>1. ASSUME NEW o \in Ops, NEW k \in Kinds, Request(o, k)
      PROVE  Begins(o, k, First(k), NoContainer, NoContainer) /\ First(k) \in Steps
  <2>1. Begin(o, k, First(k), NoContainer, NoContainer)  BY <1>1 DEF Request
  <2>k. k \in DbKinds \cup ProvisionKinds  BY <1>1 DEF Request
  <2>2. /\ First(k) \in {"net", "sGet", "stGet", "rmGet", "prepare"}
        /\ Course(k, First(k), NoContainer, NoContainer)
    BY <2>k DEF First, DbFirst, DbKinds, ProvisionKinds, Course, InstanceSteps
  <2> QED  BY <2>1, <2>2, <1>n DEF Begins, Steps, DbSteps, InstanceSteps
<1>2. ASSUME NEW o \in Ops, RequestDeprovision(o)
      PROVE  \E c, p \in NoHandle : Begins(o, "deprovision", "deCf", c, p)
  <2>1. PICK p \in Ops : /\ result[p] = "ok" /\ kind[p] \in ProvisionKinds
                         /\ Begin(o, "deprovision", "deCf", ctr[p], prev[p])
    BY <1>2 DEF RequestDeprovision
  <2>2. ctr[p] # NoContainer /\ ctr[p] \in NoHandle /\ prev[p] \in NoHandle
    BY <2>1 DEF TenantInv, Begun, OpsOK
  <2>3. Course("deprovision", "deCf", ctr[p], prev[p])
    BY <2>2 DEF Course, InstanceSteps
  <2> QED
    BY <2>1, <2>2, <2>3 DEF Begins, Kinds, InstanceKinds, Steps, InstanceSteps
<1> QED
  BY <1>1, <1>2, <1>n DEF Next, Kinds, InstanceKinds, Steps, InstanceSteps

-----------------------------------------------------------------------------
(* Types, and what was named the course of a command. *)

LEMMA BeginFrame ==
  ASSUME TenantInv, NEW o \in Ops, NEW k \in Kinds, NEW step \in Steps, NEW c \in NoHandle,
         NEW p \in NoHandle, Begins(o, k, step, c, p)
  PROVE  /\ pc' = [pc EXCEPT ![o] = step] /\ ctr' = [ctr EXCEPT ![o] = c]
         /\ prev' = [prev EXCEPT ![o] = p] /\ kind' = [kind EXCEPT ![o] = k]
         /\ pc'[o] = step /\ ctr'[o] = c /\ prev'[o] = p /\ kind'[o] = k
         /\ \A q \in Ops : q # o => Unmoved(q) /\ kind'[q] = kind[q]
         /\ UNCHANGED <<docker, faulty, result>> /\ result[o] = "none" /\ pc[o] = "idle"
         /\ step # "idle"
BY DEF TenantInv, OpsOK, Begins, Begin, GoWith, Holding, Unmoved, Steps, DbSteps, InstanceSteps

LEMMA CrashFrame ==
  ASSUME TenantInv, Crash
  PROVE  /\ \A q \in Ops : pc'[q] = "idle" /\ (result[q] # "none" => result'[q] = result[q])
         /\ \A q \in Ops : pc[q] = "idle" => ctr'[q] = ctr[q] /\ result'[q] = result[q]
         /\ \A q \in Ops : pc[q] # "idle" => result'[q] = "crashed"
         /\ UNCHANGED <<docker, kind, faulty, alone, latest, crossed, wasUp>>
BY DEF TenantInv, Begun, OpsOK, Crash, Active

LEMMA DockerStep == TenantInv /\ [Next]_tenantVars => DockerOK'
<1> SUFFICES ASSUME TenantInv, [Next]_tenantVars PROVE DockerOK'  OBVIOUS
<1>1. ASSUME NEW o \in Ops, Step(o) PROVE DockerOK'  BY <1>1, StepEffect, DockerKept
<1>2. UNCHANGED docker => DockerOK'  BY DEF TenantInv, DockerOK, docker, Named
<1>3. Crash \/ UNCHANGED tenantVars => UNCHANGED docker  BY DEF Crash, tenantVars, vars
<1> QED  BY <1>1, <1>2, <1>3, NextIs, BeginFrame

LEMMA OpsStep == TenantInv /\ [Next]_tenantVars => OpsOK'
<1> SUFFICES ASSUME TenantInv, [Next]_tenantVars PROVE OpsOK'  OBVIOUS
<1>y. OpsOK /\ NoContainer \in NoHandle  BY DEF TenantInv, NoHandle
<1>1. ASSUME NEW o \in Ops, Step(o) PROVE OpsOK'
  <2>1. faulty' \subseteq Ops  BY <1>1, <1>y, StepFaults DEF OpsOK
  <2> QED  BY <1>1, <1>y, <2>1, StepFrame DEF OpsOK, Steps
<1>2. ASSUME NEW o \in Ops, NEW k \in Kinds, NEW step \in Steps, NEW c \in NoHandle,
             NEW p \in NoHandle, Begins(o, k, step, c, p)
      PROVE  OpsOK'
  <2>1. /\ pc' \in [Ops -> Steps \cup {"idle"}] /\ ctr' \in [Ops -> NoHandle]
        /\ prev' \in [Ops -> NoHandle] /\ kind' \in [Ops -> Kinds]
    <3>1. /\ pc' = [pc EXCEPT ![o] = step] /\ ctr' = [ctr EXCEPT ![o] = c]
          /\ prev' = [prev EXCEPT ![o] = p] /\ kind' = [kind EXCEPT ![o] = k]
      BY <1>2, BeginFrame
    <3> QED  BY <1>y, <3>1 DEF OpsOK, Steps
  <2>2. /\ alone' \subseteq Ops /\ crossed' \in BOOLEAN /\ wasUp' \subseteq Ops
        /\ latest' \in Ops \cup {NoOp} /\ UNCHANGED <<faulty, result>>
    <3>1. alone' \subseteq Ops  BY <1>2, <1>y DEF Begins, Begin, OpsOK
    <3>2. crossed' \in BOOLEAN
      <4> DEFINE Meets == \E other \in Active : Crosses(k, kind[other])
      <4>1. crossed' = (crossed \/ Meets)  BY <1>2 DEF Begins, Begin
      <4>2. Meets \in BOOLEAN  OBVIOUS
      <4> HIDE DEF Meets
      <4> QED  BY <4>1, <4>2, <1>y DEF OpsOK
    <3>3. wasUp' \subseteq Ops  BY <1>2, <1>y DEF Begins, Begin, OpsOK
    <3>4. latest' \in Ops \cup {NoOp} /\ UNCHANGED <<faulty, result>>
      BY <1>2, <1>y DEF Begins, Begin, OpsOK, GoWith
    <3> QED  BY <3>1, <3>2, <3>3, <3>4
  <2> QED  BY <1>y, <2>1, <2>2 DEF OpsOK, Steps
<1>3. CASE Crash
  <2>1. /\ pc' \in [Ops -> {"idle"}] /\ ctr' \in [Ops -> NoHandle] /\ prev' \in [Ops -> NoHandle]
        /\ result' \in [Ops -> {"none", "ok", "error", "crashed"}]
    BY <1>3, <1>y DEF Crash, OpsOK
  <2> QED  BY <1>3, <1>y, <2>1, CrashFrame DEF OpsOK
<1>4. CASE UNCHANGED tenantVars  BY <1>4, <1>y DEF tenantVars, vars, history, OpsOK
<1> QED  BY <1>1, <1>2, <1>3, <1>4, NextIs

LEMMA CourseStep == TenantInv /\ [Next]_tenantVars => OnCourse' /\ Begun'
<1> SUFFICES ASSUME TenantInv, [Next]_tenantVars PROVE OnCourse' /\ Begun'  OBVIOUS
<1>y. OpsOK /\ OnCourse /\ Begun  BY DEF TenantInv
<1>1. ASSUME NEW o \in Ops, Step(o) PROVE OnCourse' /\ Begun'
  <2>0. pc[o] # "idle" /\ result[o] = "none"
    BY <1>1, <1>y, StepAt DEF Steps, DbSteps, InstanceSteps, Begun
  <2>1. OnCourse'  BY <1>1, <1>y, StepFrame DEF OnCourse, Unmoved
  <2>2. Begun'
    <3>1. \A q \in Ops : result'[q] # "none" => pc'[q] = "idle"
      BY <1>1, <1>y, <2>0, StepFrame DEF Begun, Unmoved
    <3>2. \A q \in alone' \cup wasUp' \cup faulty' : result'[q] # "none" \/ pc'[q] # "idle"
      BY <1>1, <1>y, <2>0, StepFrame, StepFaults DEF Begun, Unmoved, OpsOK
    <3>3. \A q \in Ops : result'[q] = "ok" /\ kind'[q] \in ProvisionKinds => ctr'[q] # NoContainer
      BY <1>1, <1>y, <2>0, StepFrame DEF Begun, Unmoved
    <3> QED  BY <3>1, <3>2, <3>3 DEF Begun
  <2> QED  BY <2>1, <2>2
<1>2. ASSUME NEW o \in Ops, NEW k \in Kinds, NEW step \in Steps, NEW c \in NoHandle,
             NEW p \in NoHandle, Begins(o, k, step, c, p)
      PROVE  OnCourse' /\ Begun'
  <2>0. /\ alone' \subseteq alone \cup {o} /\ wasUp' \subseteq wasUp \cup {o}
        /\ Course(k, step, c, p)
    BY <1>2, <1>y DEF Begins, Begin
  <2>1. OnCourse'  BY <1>2, <1>y, <2>0, BeginFrame DEF OnCourse, Unmoved
  <2>2. Begun'
    <3>1. \A q \in Ops : result'[q] # "none" => pc'[q] = "idle"
      BY <1>2, <1>y, BeginFrame DEF Begun, Unmoved
    <3>2. \A q \in alone' \cup wasUp' \cup faulty' : result'[q] # "none" \/ pc'[q] # "idle"
      BY <1>2, <1>y, <2>0, BeginFrame DEF Begun, Unmoved, OpsOK
    <3>3. \A q \in Ops : result'[q] = "ok" /\ kind'[q] \in ProvisionKinds => ctr'[q] # NoContainer
      BY <1>2, <1>y, BeginFrame DEF Begun, Unmoved
    <3> QED  BY <3>1, <3>2, <3>3 DEF Begun
  <2> QED  BY <2>1, <2>2
<1>3. CASE Crash
  <2>1. OnCourse'  BY <1>3, CrashFrame DEF OnCourse
  <2>2. Begun'  BY <1>3, <1>y, CrashFrame DEF Begun, OpsOK
  <2> QED  BY <2>1, <2>2
<1>4. CASE UNCHANGED tenantVars
  BY <1>4, <1>y DEF tenantVars, vars, history, OnCourse, Begun
<1> QED  BY <1>1, <1>2, <1>3, <1>4, NextIs

-----------------------------------------------------------------------------
(* Containers in hand. *)

LEMMA NameKept ==
  ASSUME TenantInv, NEW o \in Ops, Effect(o), NEW q \in Ops, NEW c \in Containers,
         c \in {ctr[q], prev[q]}
  PROVE  /\ name[c] \in DbNames \cup {"none"} => name'[c] \in DbNames \cup {"none"}
         /\ name[c] \in {"saas", "none"} => name'[c] \in {"saas", "none"}
<1>y. DockerOK /\ Names(pc[o], ctr[o], prev[o])  BY DEF TenantInv, Holds
<1>u. c \notin Unused  BY DEF Unused
<1>1. ~Renames(o) => name'[c] \in {name[c], "none"}
  BY <1>u, <1>y DEF Effect, docker, Creates, Starts, Start, Stop, Remove, Wires, DockerOK
<1>2. CASE Renames(o)
  <2>1. pc[o] \in {"rename", "pbRename"} /\ Present(prev[o]) /\ name[prev[o]] \in DbNames
    BY <1>2, <1>y DEF Renames, Names, DbSteps, Present
  <2> QED  BY <1>2, <1>y, <2>1 DEF Renames, Rename, DockerOK, DbNames, Present
<1> QED  BY <1>1, <1>2


\* where a step takes its own command
LEMMA Moves ==
  ASSUME OpsOK, NEW o \in Ops
  PROVE  /\ \A step, c, p : GoWith(o, step, c, p) =>
              pc'[o] = step /\ ctr'[o] = c /\ prev'[o] = p /\ UNCHANGED result
         /\ \A how, c, p : EndWith(o, how, c, p) => pc'[o] = "idle" /\ result'[o] = how
BY DEF OpsOK, GoWith, EndWith, Holding

\* the command that makes the step
LEMMA OwnNames ==
  ASSUME TenantInv, NEW o \in Ops, Step(o)
  PROVE  Names(pc[o], ctr[o], prev[o])'
<1>y. /\ DockerOK /\ OpsOK /\ Names(pc[o], ctr[o], prev[o]) /\ NoContainer \notin Containers
      /\ ctr[o] \in NoHandle /\ prev[o] \in NoHandle /\ Course(kind[o], pc[o], ctr[o], prev[o])
  BY TenantAssumption, StepAt DEF TenantInv, OpsOK, Holds, OnCourse, TenantAssumption, Steps,
      DbSteps, InstanceSteps
<1>k. \A c \in {ctr[o], prev[o]} : c # NoContainer =>
        /\ name[c] \in DbNames \cup {"none"} => name'[c] \in DbNames \cup {"none"}
        /\ name[c] \in {"saas", "none"} => name'[c] \in {"saas", "none"}
  BY <1>y, NameKept, StepEffect DEF NoHandle
<1>f. \A n \in DbNames : Named(n) # {} => Find(n) \in Containers /\ name[Find(n)] \in DbNames
  BY FindNamed DEF Named
<1>c. \A c \in Fresh : \A n : c \in Containers /\ (name' = [name EXCEPT ![c] = n] => name'[c] = n)
  BY <1>y DEF Fresh, Unused, DockerOK
<1>m. /\ \A step, c, p : GoWith(o, step, c, p) => pc'[o] = step /\ ctr'[o] = c /\ prev'[o] = p
      /\ \A how, c, p : EndWith(o, how, c, p) => pc'[o] = "idle"
  BY <1>y, Moves
<1>d. "pg" \in DbNames /\ "pg_old" \in DbNames  BY DEF DbNames
<1>n. \A n : Named(n) = {} => Find(n) = NoContainer  BY FindNamed
<1> SUFFICES ASSUME pc'[o] \in DbSteps \cup {"iConnect", "iStart", "iUndo", "sidecar"}
             PROVE  Names(pc[o], ctr[o], prev[o])'
  BY DEF Names
<1> USE DEF Call, Ask, At, GoTo, End, Course, DbSteps, Names, docker
<1>1. CASE NetGet(o)  BY <1>1, <1>y, <1>k, <1>f, <1>c, <1>m, <1>d, <1>n DEF NetGet, AfterNetwork
<1>2. CASE NetCreate(o)
  BY <1>2, <1>y, <1>k, <1>f, <1>c, <1>m, <1>d, <1>n DEF NetCreate, AfterNetwork
<1>3. CASE Pull(o)  BY <1>3, <1>y, <1>k, <1>f, <1>c, <1>m, <1>d, <1>n DEF Pull
<1>4. CASE OldGet(o)  BY <1>4, <1>y, <1>k, <1>f, <1>c, <1>m, <1>d, <1>n DEF OldGet, Look
<1>5. CASE OldRemove(o)  BY <1>5, <1>y, <1>k, <1>f, <1>c, <1>m, <1>d, <1>n DEF OldRemove
<1>6. CASE CurGet(o)  BY <1>6, <1>y, <1>k, <1>f, <1>c, <1>m, <1>d, <1>n DEF CurGet
<1>7. CASE StopCurrent(o)
  BY <1>7, <1>y, <1>k, <1>f, <1>c, <1>m, <1>d, <1>n DEF StopCurrent, SetAside
<1>8. CASE RenameCurrent(o)  BY <1>8, <1>y, <1>k, <1>f, <1>c, <1>m, <1>d, <1>n DEF RenameCurrent
<1>9. CASE GetOrCreate(o)
  BY <1>9, <1>y, <1>k, <1>f, <1>c, <1>m, <1>d, <1>n DEF GetOrCreate, Failed
<1>10. CASE CreateDb(o)
  BY <1>10, <1>y, <1>k, <1>f, <1>c, <1>m, <1>d, <1>n DEF CreateDb, Failed, Create
<1>11. CASE StartAndWait(o)
  BY <1>11, <1>y, <1>k, <1>f, <1>c, <1>m, <1>d, <1>n DEF StartAndWait, StartDb, Failed
<1>12. CASE WaitReady(o)
  BY <1>12, <1>y, <1>k, <1>f, <1>c, <1>m, <1>d, <1>n DEF WaitReady, Ready, Failed
<1>13. CASE Commit(o)  BY <1>13, <1>y, <1>k, <1>f, <1>c, <1>m, <1>d, <1>n DEF Commit
<1>14. CASE PutBackGet(o)  BY <1>14, <1>y, <1>k, <1>f, <1>c, <1>m, <1>d, <1>n DEF PutBackGet, Look
<1>15. CASE PutBackRemove(o)  BY <1>15, <1>y, <1>k, <1>f, <1>c, <1>m, <1>d, <1>n DEF PutBackRemove
<1>16. CASE PutBackRename(o)
  BY <1>16, <1>y, <1>k, <1>f, <1>c, <1>m, <1>d, <1>n DEF PutBackRename, AfterPutBack
<1>17. CASE PutBackStart(o)  BY <1>17, <1>y, <1>k, <1>f, <1>c, <1>m, <1>d, <1>n DEF PutBackStart
<1>18. CASE StartGet(o)  BY <1>18, <1>y, <1>k, <1>f, <1>c, <1>m, <1>d, <1>n DEF StartGet, Look
<1>19. CASE StopGet(o)  BY <1>19, <1>y, <1>k, <1>f, <1>c, <1>m, <1>d, <1>n DEF StopGet, Look
<1>20. CASE StopDb(o)  BY <1>20, <1>y, <1>k, <1>f, <1>c, <1>m, <1>d, <1>n DEF StopDb
<1>21. CASE RemoveGet(o)  BY <1>21, <1>y, <1>k, <1>f, <1>c, <1>m, <1>d, <1>n DEF RemoveGet, Look
<1>22. CASE RemoveDb(o)  BY <1>22, <1>y, <1>k, <1>f, <1>c, <1>m, <1>d, <1>n DEF RemoveDb
<1>23. CASE DisconnectAll(o)  BY <1>23, <1>y, <1>k, <1>f, <1>c, <1>m, <1>d, <1>n DEF DisconnectAll
<1>24. CASE RemoveNetwork(o)  BY <1>24, <1>y, <1>k, <1>f, <1>c, <1>m, <1>d, <1>n DEF RemoveNetwork
<1>25. CASE RemoveVolumes(o)
  BY <1>25, <1>y, <1>k, <1>f, <1>c, <1>m, <1>d, <1>n DEF RemoveVolumes, VolumesBusy
<1>26. CASE Prepare(o)  BY <1>26, <1>y, <1>k, <1>f, <1>c, <1>m, <1>d, <1>n DEF Prepare
<1>27. CASE SweepInstance(o)
  BY <1>27, <1>y, <1>k, <1>f, <1>c, <1>m, <1>d, <1>n DEF SweepInstance, SweepGet, SweepRemove, Stale
<1>28. CASE SweepSidecar(o)
  BY <1>28, <1>y, <1>k, <1>f, <1>c, <1>m, <1>d, <1>n DEF SweepSidecar, SweepGet, SweepRemove
<1>29. CASE CreateInstance(o)
  BY <1>29, <1>y, <1>k, <1>f, <1>c, <1>m, <1>d, <1>n DEF CreateInstance, Create
<1>30. CASE ConnectInstance(o)
  BY <1>30, <1>y, <1>k, <1>f, <1>c, <1>m, <1>d, <1>n DEF ConnectInstance
<1>31. CASE StartInstance(o)
  BY <1>31, <1>y, <1>k, <1>f, <1>c, <1>m, <1>d, <1>n DEF StartInstance, NotStarted
<1>32. CASE UndoInstance(o)  BY <1>32, <1>y, <1>k, <1>f, <1>c, <1>m, <1>d, <1>n DEF UndoInstance
<1>33. CASE NoSidecar(o)  BY <1>33, <1>y, <1>k, <1>f, <1>c, <1>m, <1>d, <1>n DEF NoSidecar
<1>34. CASE SpawnSidecar(o)  BY <1>34, <1>y, <1>k, <1>f, <1>c, <1>m, <1>d, <1>n DEF SpawnSidecar
<1>35. CASE RemoveSidecarById(o)
  BY <1>35, <1>y, <1>k, <1>f, <1>c, <1>m, <1>d, <1>n DEF RemoveSidecarById
<1>36. CASE RemoveInstanceById(o)
  BY <1>36, <1>y, <1>k, <1>f, <1>c, <1>m, <1>d, <1>n DEF RemoveInstanceById
<1> QED
  BY <1>1, <1>2, <1>3, <1>4, <1>5, <1>6, <1>7, <1>8, <1>9, <1>10, <1>11, <1>12, <1>13, <1>14,
       <1>15, <1>16, <1>17, <1>18, <1>19, <1>20, <1>21, <1>22, <1>23, <1>24, <1>25, <1>26, <1>27,
       <1>28, <1>29, <1>30, <1>31, <1>32, <1>33, <1>34, <1>35, <1>36
  DEF Step, DbStep, InstanceStep

LEMMA HoldsStep == TenantInv /\ [Next]_tenantVars => Holds'
<1> SUFFICES ASSUME TenantInv, [Next]_tenantVars PROVE Holds'  OBVIOUS
<1>y. OpsOK /\ OnCourse /\ Holds  BY DEF TenantInv
<1>1. ASSUME NEW o \in Ops, Step(o) PROVE Holds'
  <2>1. ASSUME NEW q \in Ops, q # o PROVE Names(pc[q], ctr[q], prev[q])'
    <3>1. UNCHANGED <<pc[q], ctr[q], prev[q]>>  BY <1>1, <2>1, StepFrame DEF Unmoved
    <3>2. Effect(o)  BY <1>1, StepEffect
    <3>3. \A c \in {ctr[q], prev[q]} : c \in Containers =>
            /\ name[c] \in DbNames \cup {"none"} => name'[c] \in DbNames \cup {"none"}
            /\ name[c] \in {"saas", "none"} => name'[c] \in {"saas", "none"}
      BY <3>2, NameKept
    <3>4. /\ Names(pc[q], ctr[q], prev[q]) /\ ctr[q] \in NoHandle /\ prev[q] \in NoHandle
          /\ pc[q] \in {"iConnect", "iStart", "iUndo", "sidecar"} => ctr[q] # NoContainer
      BY <1>y DEF OpsOK, Holds, OnCourse, Course
    <3> QED  BY <3>1, <3>3, <3>4 DEF Names, NoHandle
  <2> QED  BY <1>1, <2>1, OwnNames DEF Holds
<1>2. ASSUME NEW o \in Ops, NEW k \in Kinds, NEW step \in Steps, NEW c \in NoHandle,
             NEW p \in NoHandle, Begins(o, k, step, c, p)
      PROVE  Holds'
  <2>1. /\ UNCHANGED name /\ pc'[o] = step /\ ctr'[o] = c /\ prev'[o] = p
        /\ \A q \in Ops : q # o => Unmoved(q)
    BY <1>2, BeginFrame DEF docker
  <2>2. Names(step, c, p)  BY <1>2 DEF Begins, Names, DbSteps
  <2>3. \A q \in Ops : q # o => Names(pc[q], ctr[q], prev[q])'
    BY <1>y, <2>1 DEF Holds, Names, Unmoved
  <2>4. Names(pc[o], ctr[o], prev[o])'  BY <2>1, <2>2 DEF Names
  <2> QED  BY <2>3, <2>4 DEF Holds
<1>3. CASE Crash  BY <1>3, CrashFrame DEF Holds, Names, DbSteps
<1>4. CASE UNCHANGED tenantVars  BY <1>4, <1>y DEF tenantVars, vars, docker, Holds, Names
<1> QED  BY <1>1, <1>2, <1>3, <1>4, NextIs

-----------------------------------------------------------------------------
(* One server. *)

\* a container in hand runs only when it is started by the one who holds it
LEMMA StaysDown ==
  ASSUME TenantInv, NEW o \in Ops, Effect(o), NEW q \in Ops, NEW c \in Containers,
         c \in {ctr[q], prev[q]}, \A d \in Containers : Starts(o, d) => d # c, Up(c)'
  PROVE  Up(c)
<1>y. DockerOK /\ c \notin Unused  BY DEF TenantInv, Unused
<1> QED
  BY <1>y DEF Effect, docker, Creates, Starts, Start, Stop, Remove, Renames, Rename, Wires, DockerOK, Up

LEMMA OwnSetAside ==
  ASSUME TenantInv, NEW o \in Ops, Step(o)
  PROVE  /\ pc'[o] = "start" => name'[ctr'[o]] # "pg_old"
         /\ pc'[o] = "pbStart" => name'[prev'[o]] # "pg_old"
         /\ pc'[o] = "rename" => status'[prev'[o]] # "running"
<1>y. /\ DockerOK /\ OpsOK /\ Names(pc[o], ctr[o], prev[o]) /\ NoContainer \notin Containers
      /\ ctr[o] \in NoHandle /\ prev[o] \in NoHandle /\ Course(kind[o], pc[o], ctr[o], prev[o])
  BY TenantAssumption, StepAt
  DEF TenantInv, OpsOK, Holds, OnCourse, TenantAssumption, Steps, DbSteps, InstanceSteps
<1>m. /\ \A step, c, p : GoWith(o, step, c, p) => pc'[o] = step /\ ctr'[o] = c /\ prev'[o] = p
      /\ \A how, c, p : EndWith(o, how, c, p) => pc'[o] = "idle"
  BY <1>y, Moves
<1>f. Named("pg") # {} => Find("pg") \in Containers /\ name[Find("pg")] = "pg"
  BY FindNamed DEF Named
<1>c. \A c \in Fresh : \A n : c \in Containers /\ (name' = [name EXCEPT ![c] = n] => name'[c] = n)
  BY <1>y DEF Fresh, Unused, DockerOK
<1>p. Present(prev[o]) => prev[o] \in Containers  BY <1>y DEF Present, NoHandle
<1> USE DEF Call, Ask, At, GoTo, End, Course, docker
<1>1. CASE NetGet(o)  BY <1>1, <1>y, <1>m, <1>f, <1>c, <1>p DEF NetGet, AfterNetwork
<1>2. CASE NetCreate(o)  BY <1>2, <1>y, <1>m, <1>f, <1>c, <1>p DEF NetCreate, AfterNetwork
<1>3. CASE Pull(o)  BY <1>3, <1>y, <1>m, <1>f, <1>c, <1>p DEF Pull
<1>4. CASE OldGet(o)  BY <1>4, <1>y, <1>m, <1>f, <1>c, <1>p DEF OldGet, Look
<1>5. CASE OldRemove(o)  BY <1>5, <1>y, <1>m, <1>f, <1>c, <1>p DEF OldRemove
<1>6. CASE CurGet(o)  BY <1>6, <1>y, <1>m, <1>f, <1>c, <1>p DEF CurGet
<1>7. CASE StopCurrent(o)
  BY <1>7, <1>y, <1>m, <1>f, <1>c, <1>p DEF StopCurrent, SetAside, Stop, Up, DockerOK
<1>8. CASE RenameCurrent(o)  BY <1>8, <1>y, <1>m, <1>f, <1>c, <1>p DEF RenameCurrent
<1>9. CASE GetOrCreate(o)  BY <1>9, <1>y, <1>m, <1>f, <1>c, <1>p DEF GetOrCreate, Failed
<1>10. CASE CreateDb(o)  BY <1>10, <1>y, <1>m, <1>f, <1>c, <1>p DEF CreateDb, Failed, Create
<1>11. CASE StartAndWait(o)
  BY <1>11, <1>y, <1>m, <1>f, <1>c, <1>p DEF StartAndWait, StartDb, Failed
<1>12. CASE WaitReady(o)  BY <1>12, <1>y, <1>m, <1>f, <1>c, <1>p DEF WaitReady, Ready, Failed
<1>13. CASE Commit(o)  BY <1>13, <1>y, <1>m, <1>f, <1>c, <1>p DEF Commit
<1>14. CASE PutBackGet(o)  BY <1>14, <1>y, <1>m, <1>f, <1>c, <1>p DEF PutBackGet, Look
<1>15. CASE PutBackRemove(o)  BY <1>15, <1>y, <1>m, <1>f, <1>c, <1>p DEF PutBackRemove
<1>16. CASE PutBackRename(o)
  BY <1>16, <1>y, <1>m, <1>f, <1>c, <1>p DEF PutBackRename, AfterPutBack, Rename, DockerOK
<1>17. CASE PutBackStart(o)  BY <1>17, <1>y, <1>m, <1>f, <1>c, <1>p DEF PutBackStart
<1>18. CASE StartGet(o)  BY <1>18, <1>y, <1>m, <1>f, <1>c, <1>p DEF StartGet, Look
<1>19. CASE StopGet(o)  BY <1>19, <1>y, <1>m, <1>f, <1>c, <1>p DEF StopGet, Look
<1>20. CASE StopDb(o)  BY <1>20, <1>y, <1>m, <1>f, <1>c, <1>p DEF StopDb
<1>21. CASE RemoveGet(o)  BY <1>21, <1>y, <1>m, <1>f, <1>c, <1>p DEF RemoveGet, Look
<1>22. CASE RemoveDb(o)  BY <1>22, <1>y, <1>m, <1>f, <1>c, <1>p DEF RemoveDb
<1>23. CASE DisconnectAll(o)  BY <1>23, <1>y, <1>m, <1>f, <1>c, <1>p DEF DisconnectAll
<1>24. CASE RemoveNetwork(o)  BY <1>24, <1>y, <1>m, <1>f, <1>c, <1>p DEF RemoveNetwork
<1>25. CASE RemoveVolumes(o)
  BY <1>25, <1>y, <1>m, <1>f, <1>c, <1>p DEF RemoveVolumes, VolumesBusy
<1>26. CASE Prepare(o)  BY <1>26, <1>y, <1>m, <1>f, <1>c, <1>p DEF Prepare
<1>27. CASE SweepInstance(o)
  BY <1>27, <1>y, <1>m, <1>f, <1>c, <1>p DEF SweepInstance, SweepGet, SweepRemove, Stale
<1>28. CASE SweepSidecar(o)
  BY <1>28, <1>y, <1>m, <1>f, <1>c, <1>p DEF SweepSidecar, SweepGet, SweepRemove
<1>29. CASE CreateInstance(o)  BY <1>29, <1>y, <1>m, <1>f, <1>c, <1>p DEF CreateInstance
<1>30. CASE ConnectInstance(o)  BY <1>30, <1>y, <1>m, <1>f, <1>c, <1>p DEF ConnectInstance
<1>31. CASE StartInstance(o)  BY <1>31, <1>y, <1>m, <1>f, <1>c, <1>p DEF StartInstance, NotStarted
<1>32. CASE UndoInstance(o)  BY <1>32, <1>y, <1>m, <1>f, <1>c, <1>p DEF UndoInstance
<1>33. CASE NoSidecar(o)  BY <1>33, <1>y, <1>m, <1>f, <1>c, <1>p DEF NoSidecar
<1>34. CASE SpawnSidecar(o)  BY <1>34, <1>y, <1>m, <1>f, <1>c, <1>p DEF SpawnSidecar
<1>35. CASE RemoveSidecarById(o)  BY <1>35, <1>y, <1>m, <1>f, <1>c, <1>p DEF RemoveSidecarById
<1>36. CASE RemoveInstanceById(o)  BY <1>36, <1>y, <1>m, <1>f, <1>c, <1>p DEF RemoveInstanceById
<1> QED
  BY <1>1, <1>2, <1>3, <1>4, <1>5, <1>6, <1>7, <1>8, <1>9, <1>10, <1>11, <1>12, <1>13, <1>14,
       <1>15, <1>16, <1>17, <1>18, <1>19, <1>20, <1>21, <1>22, <1>23, <1>24, <1>25, <1>26, <1>27,
       <1>28, <1>29, <1>30, <1>31, <1>32, <1>33, <1>34, <1>35, <1>36
  DEF Step, DbStep, InstanceStep

LEMMA UncrossedStep == TenantInv /\ [Next]_tenantVars => Uncrossed'
<1> SUFFICES ASSUME TenantInv, [Next]_tenantVars, ~crossed' PROVE Apart' /\ SetAsideIsDown'
  BY DEF Uncrossed
<1>y. OpsOK /\ OnCourse /\ Holds /\ DockerOK /\ Uncrossed  BY DEF TenantInv
<1>1. ASSUME NEW o \in Ops, Step(o) PROVE Apart' /\ SetAsideIsDown'
  <2>0. /\ ~crossed /\ Apart /\ SetAsideIsDown /\ Effect(o) /\ pc[o] # "idle"
        /\ Course(kind[o], pc[o], ctr[o], prev[o]) /\ Names(pc[o], ctr[o], prev[o])
    BY <1>1, <1>y, StepFrame, StepEffect, StepAt
    DEF Uncrossed, Steps, DbSteps, InstanceSteps, OnCourse, Holds
  <2>1. Apart'  BY <1>1, <1>y, <2>0, StepFrame DEF Apart, Active, Unmoved
  <2>2. ASSUME NEW q \in Ops, q # o, pc[q] \in {"start", "pbStart", "rename"}
        PROVE  /\ ~(pc[o] \in {"start", "pbStart"} /\ kind[q] = "recreate")
               /\ pc[o] # "rename"
    <3>1. ~Crosses(kind[o], kind[q])  BY <2>0, <2>2 DEF Apart, Active
    <3>2. Course(kind[q], pc[q], ctr[q], prev[q])  BY <1>y, <2>2 DEF OnCourse
    <3> QED  BY <2>0, <2>2, <3>1, <3>2 DEF Course, Crosses, StartsDb
  <2>3. \A c \in Containers : name'[c] = "pg_old" => status'[c] # "running"
    <3>1. ASSUME NEW c \in Containers, Starts(o, c)
          PROVE  name[c] # "pg_old" /\ UNCHANGED name /\ \A d \in Containers : d # c => status'[d] = status[d]
      BY <2>0, <3>1, <1>y DEF Starts, Start, SetAsideIsDown, Names, DockerOK
    <3>2. CASE \E c \in Containers : Starts(o, c)
      BY <2>0, <3>1, <3>2 DEF SetAsideIsDown, Up
    <3>3. Renames(o) => \A c \in Containers : name'[c] = "pg_old" => status'[c] # "running"
      BY <2>0, <1>y DEF Renames, Rename, SetAsideIsDown, DockerOK, Up
    <3>4. ASSUME ~Renames(o), ~\E c \in Containers : Starts(o, c)
          PROVE  \A c \in Containers : name'[c] = "pg_old" => name[c] = "pg_old" /\ (~Up(c) => ~Up(c)')
      BY <2>0, <3>4, <1>y DEF Effect, docker, Creates, Stop, Remove, Wires, DockerOK, Up
    <3> QED  BY <2>0, <3>2, <3>3, <3>4 DEF SetAsideIsDown, Up
  <2>4. ASSUME NEW q \in Ops, q # o
        PROVE  /\ pc'[q] = "start" => name'[ctr'[q]] # "pg_old"
               /\ pc'[q] = "pbStart" => name'[prev'[q]] # "pg_old"
               /\ pc'[q] = "rename" => status'[prev'[q]] # "running"
    <3>0. UNCHANGED <<pc[q], ctr[q], prev[q]>>  BY <1>1, <2>4, StepFrame DEF Unmoved
    <3> SUFFICES ASSUME pc[q] \in {"start", "pbStart", "rename"}
                 PROVE  /\ pc[q] = "start" => name'[ctr[q]] # "pg_old"
                        /\ pc[q] = "pbStart" => name'[prev[q]] # "pg_old"
                        /\ pc[q] = "rename" => status'[prev[q]] # "running"
      BY <3>0
    <3>1. /\ Course(kind[q], pc[q], ctr[q], prev[q]) /\ Names(pc[q], ctr[q], prev[q])
          /\ ctr[q] \in NoHandle /\ prev[q] \in NoHandle
      BY <1>y DEF OnCourse, Holds, OpsOK
    <3>2. /\ pc[q] = "start" => ctr[q] \in Containers
          /\ pc[q] \in {"rename", "pbStart"} => prev[q] \in Containers /\ kind[q] = "recreate"
      BY <3>1 DEF Course, NoHandle
    <3>3. ASSUME NEW c \in Containers, c \in {ctr[q], prev[q]}, name[c] # "pg_old"
          PROVE  name'[c] # "pg_old"
      BY <2>0, <2>2, <2>4, <3>3, <1>y
      DEF Effect, docker, Creates, Starts, Start, Stop, Remove, Renames, Rename, Wires, DockerOK, Unused
    <3>4. pc[q] = "rename" => \A c \in Containers : Starts(o, c) => c # prev[q]
      BY <2>0, <2>2, <2>4, <3>1, <3>2 DEF Starts, Names, DbSteps, DbNames, Present
    <3>5. pc[q] = "rename" => status'[prev[q]] # "running"
      BY <2>0, <3>2, <3>4, StaysDown DEF SetAsideIsDown, Up
    <3> QED  BY <2>0, <3>2, <3>3, <3>5 DEF SetAsideIsDown
  <2>5. SetAsideIsDown'  BY <1>1, <2>3, <2>4, OwnSetAside DEF SetAsideIsDown, Up
  <2> QED  BY <2>1, <2>5
<1>2. ASSUME NEW o \in Ops, NEW k \in Kinds, NEW step \in Steps, NEW c \in NoHandle,
             NEW p \in NoHandle, Begins(o, k, step, c, p)
      PROVE  Apart' /\ SetAsideIsDown'
  <2>1. /\ UNCHANGED <<name, status>> /\ pc'[o] = step /\ kind'[o] = k /\ pc[o] = "idle"
        /\ \A q \in Ops : q # o => Unmoved(q) /\ kind'[q] = kind[q]
    BY <1>2, BeginFrame DEF docker
  <2>2. /\ step \notin {"start", "pbStart", "rename"}
        /\ ~crossed /\ \A q \in Active : ~Crosses(k, kind[q])
    BY <1>2 DEF Begins, Begin
  <2>3. Apart /\ SetAsideIsDown  BY <1>y, <2>2 DEF Uncrossed
  <2>4. Apart'
    BY <2>1, <2>2, <2>3 DEF Apart, Active, Unmoved, Crosses
  <2>5. SetAsideIsDown'
    BY <2>1, <2>2, <2>3 DEF SetAsideIsDown, Unmoved, Up
  <2> QED  BY <2>4, <2>5
<1>3. CASE Crash
  <2>1. UNCHANGED docker /\ ~crossed /\ SetAsideIsDown /\ \A q \in Ops : pc'[q] = "idle"
    BY <1>3, <1>y, CrashFrame DEF Uncrossed
  <2> QED  BY <2>1 DEF Apart, SetAsideIsDown, Active, Up, docker
<1>4. CASE UNCHANGED tenantVars
  BY <1>4, <1>y DEF tenantVars, vars, docker, Uncrossed, Apart, SetAsideIsDown, Active, Up
<1> QED  BY <1>1, <1>2, <1>3, <1>4, NextIs

-----------------------------------------------------------------------------
(* Instances. *)

LEMMA OwnProvision ==
  ASSUME TenantInv, NEW o \in Ops, Step(o), pc'[o] \in Provisioning
  PROVE  /\ (pc[o] \in Provisioning /\ ctr'[o] = ctr[o]) \/ ctr'[o] \in Unused
         /\ pc'[o] \in {"iConnect", "iStart"} => status'[ctr'[o]] # "running"
         /\ pc'[o] = "iUndo" /\ status'[ctr'[o]] = "running" => o \in faulty'
<1>y. /\ DockerOK /\ OpsOK /\ Names(pc[o], ctr[o], prev[o]) /\ NoContainer \notin Containers
      /\ ctr[o] \in NoHandle /\ prev[o] \in NoHandle /\ Course(kind[o], pc[o], ctr[o], prev[o])
  BY TenantAssumption, StepAt
  DEF TenantInv, OpsOK, Holds, OnCourse, TenantAssumption, Steps, DbSteps, InstanceSteps
<1>m. /\ \A step, c, p : GoWith(o, step, c, p) => pc'[o] = step /\ ctr'[o] = c /\ prev'[o] = p
      /\ \A how, c, p : EndWith(o, how, c, p) => pc'[o] = "idle"
  BY <1>y, Moves
<1>c. \A c \in Fresh : c \in Unused /\ c \in Containers
  BY DEF Fresh, Unused
<1>p. OwnInstance  BY DEF TenantInv
<1>f. (Fault(o) => o \in faulty') /\ faulty \subseteq faulty'
  BY StepFaults DEF Fault
<1> USE DEF Call, Ask, At, GoTo, End, docker, OwnInstance, Provisioning, Up
<1>1. CASE NetGet(o)  BY <1>1, <1>y, <1>m, <1>c, <1>p, <1>f DEF NetGet, AfterNetwork
<1>2. CASE NetCreate(o)  BY <1>2, <1>y, <1>m, <1>c, <1>p, <1>f DEF NetCreate, AfterNetwork
<1>3. CASE Pull(o)  BY <1>3, <1>y, <1>m, <1>c, <1>p, <1>f DEF Pull
<1>4. CASE OldGet(o)  BY <1>4, <1>y, <1>m, <1>c, <1>p, <1>f DEF OldGet, Look
<1>5. CASE OldRemove(o)  BY <1>5, <1>y, <1>m, <1>c, <1>p, <1>f DEF OldRemove
<1>6. CASE CurGet(o)  BY <1>6, <1>y, <1>m, <1>c, <1>p, <1>f DEF CurGet
<1>7. CASE StopCurrent(o)  BY <1>7, <1>y, <1>m, <1>c, <1>p, <1>f DEF StopCurrent, SetAside
<1>8. CASE RenameCurrent(o)  BY <1>8, <1>y, <1>m, <1>c, <1>p, <1>f DEF RenameCurrent
<1>9. CASE GetOrCreate(o)  BY <1>9, <1>y, <1>m, <1>c, <1>p, <1>f DEF GetOrCreate, Failed
<1>10. CASE CreateDb(o)  BY <1>10, <1>y, <1>m, <1>c, <1>p, <1>f DEF CreateDb, Failed
<1>11. CASE StartAndWait(o)
  BY <1>11, <1>y, <1>m, <1>c, <1>p, <1>f DEF StartAndWait, StartDb, Failed
<1>12. CASE WaitReady(o)  BY <1>12, <1>y, <1>m, <1>c, <1>p, <1>f DEF WaitReady, Ready, Failed
<1>13. CASE Commit(o)  BY <1>13, <1>y, <1>m, <1>c, <1>p, <1>f DEF Commit
<1>14. CASE PutBackGet(o)  BY <1>14, <1>y, <1>m, <1>c, <1>p, <1>f DEF PutBackGet, Look
<1>15. CASE PutBackRemove(o)  BY <1>15, <1>y, <1>m, <1>c, <1>p, <1>f DEF PutBackRemove
<1>16. CASE PutBackRename(o)
  BY <1>16, <1>y, <1>m, <1>c, <1>p, <1>f DEF PutBackRename, AfterPutBack
<1>17. CASE PutBackStart(o)  BY <1>17, <1>y, <1>m, <1>c, <1>p, <1>f DEF PutBackStart
<1>18. CASE StartGet(o)  BY <1>18, <1>y, <1>m, <1>c, <1>p, <1>f DEF StartGet, Look
<1>19. CASE StopGet(o)  BY <1>19, <1>y, <1>m, <1>c, <1>p, <1>f DEF StopGet, Look
<1>20. CASE StopDb(o)  BY <1>20, <1>y, <1>m, <1>c, <1>p, <1>f DEF StopDb
<1>21. CASE RemoveGet(o)  BY <1>21, <1>y, <1>m, <1>c, <1>p, <1>f DEF RemoveGet, Look
<1>22. CASE RemoveDb(o)  BY <1>22, <1>y, <1>m, <1>c, <1>p, <1>f DEF RemoveDb
<1>23. CASE DisconnectAll(o)  BY <1>23, <1>y, <1>m, <1>c, <1>p, <1>f DEF DisconnectAll
<1>24. CASE RemoveNetwork(o)  BY <1>24, <1>y, <1>m, <1>c, <1>p, <1>f DEF RemoveNetwork
<1>25. CASE RemoveVolumes(o)
  BY <1>25, <1>y, <1>m, <1>c, <1>p, <1>f DEF RemoveVolumes, VolumesBusy
<1>26. CASE Prepare(o)  BY <1>26, <1>y, <1>m, <1>c, <1>p, <1>f DEF Prepare
<1>27. CASE SweepInstance(o)
  BY <1>27, <1>y, <1>m, <1>c, <1>p, <1>f DEF SweepInstance, SweepGet, SweepRemove, Stale
<1>28. CASE SweepSidecar(o)
  BY <1>28, <1>y, <1>m, <1>c, <1>p, <1>f DEF SweepSidecar, SweepGet, SweepRemove
<1>29. CASE CreateInstance(o)
  BY <1>29, <1>y, <1>m, <1>c, <1>p, <1>f DEF CreateInstance, Create, DockerOK
<1>30. CASE ConnectInstance(o)  BY <1>30, <1>y, <1>m, <1>c, <1>p, <1>f DEF ConnectInstance
<1>31. CASE StartInstance(o)  BY <1>31, <1>y, <1>m, <1>c, <1>p, <1>f DEF StartInstance, NotStarted
<1>32. CASE UndoInstance(o)  BY <1>32, <1>y, <1>m, <1>c, <1>p, <1>f DEF UndoInstance
<1>33. CASE NoSidecar(o)  BY <1>33, <1>y, <1>m, <1>c, <1>p, <1>f DEF NoSidecar
<1>34. CASE SpawnSidecar(o)  BY <1>34, <1>y, <1>m, <1>c, <1>p, <1>f DEF SpawnSidecar
<1>35. CASE RemoveSidecarById(o)  BY <1>35, <1>y, <1>m, <1>c, <1>p, <1>f DEF RemoveSidecarById
<1>36. CASE RemoveInstanceById(o)  BY <1>36, <1>y, <1>m, <1>c, <1>p, <1>f DEF RemoveInstanceById
<1> QED
  BY <1>1, <1>2, <1>3, <1>4, <1>5, <1>6, <1>7, <1>8, <1>9, <1>10, <1>11, <1>12, <1>13, <1>14,
       <1>15, <1>16, <1>17, <1>18, <1>19, <1>20, <1>21, <1>22, <1>23, <1>24, <1>25, <1>26, <1>27,
       <1>28, <1>29, <1>30, <1>31, <1>32, <1>33, <1>34, <1>35, <1>36
  DEF Step, DbStep, InstanceStep

LEMMA OwnInstanceStep == TenantInv /\ [Next]_tenantVars => OwnInstance'
<1> SUFFICES ASSUME TenantInv, [Next]_tenantVars PROVE OwnInstance'  OBVIOUS
<1>y. OpsOK /\ OnCourse /\ Holds /\ DockerOK /\ OwnInstance  BY DEF TenantInv
<1>1. ASSUME NEW o \in Ops, Step(o) PROVE OwnInstance'
  <2>0. /\ Effect(o) /\ faulty \subseteq faulty'
        /\ Course(kind[o], pc[o], ctr[o], prev[o]) /\ Names(pc[o], ctr[o], prev[o])
        /\ \A q \in Ops : q # o => Unmoved(q)
    BY <1>1, <1>y, StepFrame, StepEffect, StepAt, StepFaults
    DEF Steps, DbSteps, InstanceSteps, OnCourse, Holds
  <2>1. ASSUME NEW p \in Ops, NEW q \in Ops, p # q, pc'[p] \in Provisioning, pc'[q] \in Provisioning
        PROVE  ctr'[p] # ctr'[q]
    BY <1>1, <1>y, <2>0, <2>1, OwnProvision DEF OwnInstance, Unmoved, Unused
  <2>2. ASSUME NEW q \in Ops, q # o, pc[q] \in Provisioning, status'[ctr[q]] = "running"
        PROVE  status[ctr[q]] = "running"
    <3>1. ctr[q] \in Containers /\ name[ctr[q]] \in {"saas", "none"}
      BY <1>y, <2>2 DEF Provisioning, OnCourse, Course, Holds, Names, OpsOK, NoHandle
    <3>2. ASSUME NEW c \in Containers, Starts(o, c) PROVE c # ctr[q]
      BY <1>y, <2>0, <2>2, <3>1, <3>2
      DEF Starts, Names, DbSteps, DbNames, Present, OwnInstance, Provisioning, Course
    <3> QED  BY <2>0, <2>2, <3>1, <3>2, StaysDown DEF Up
  <2>3. ASSUME NEW q \in Ops
        PROVE  /\ pc'[q] \in {"iConnect", "iStart"} => status'[ctr'[q]] # "running"
               /\ pc'[q] = "iUndo" /\ status'[ctr'[q]] = "running" => q \in faulty'
    <3>1. CASE q = o  BY <1>1, <3>1, OwnProvision DEF Provisioning
    <3>2. CASE q # o
      BY <1>y, <2>0, <2>2, <3>2 DEF Unmoved, Provisioning, OwnInstance, Up
    <3> QED  BY <3>1, <3>2
  <2> QED  BY <2>1, <2>3 DEF OwnInstance, Up
<1>2. ASSUME NEW o \in Ops, NEW k \in Kinds, NEW step \in Steps, NEW c \in NoHandle,
             NEW p \in NoHandle, Begins(o, k, step, c, p)
      PROVE  OwnInstance'
  <2>1. /\ UNCHANGED <<status, faulty>> /\ pc'[o] = step /\ step \notin Provisioning
        /\ \A q \in Ops : q # o => Unmoved(q)
    BY <1>2, BeginFrame DEF docker, Begins, Provisioning
  <2> QED  BY <1>y, <2>1 DEF OwnInstance, Unmoved, Up, Provisioning
<1>3. CASE Crash  BY <1>3, CrashFrame DEF OwnInstance, Provisioning
<1>4. CASE UNCHANGED tenantVars
  BY <1>4, <1>y DEF tenantVars, vars, docker, OwnInstance, Up
<1> QED  BY <1>1, <1>2, <1>3, <1>4, NextIs

-----------------------------------------------------------------------------
(* Commands without company. *)

\* what a call is made in, and what it can do to its own command
Known(o) ==
  /\ DockerOK /\ OpsOK /\ Names(pc[o], ctr[o], prev[o]) /\ NoContainer \notin Containers
  /\ Course(kind[o], pc[o], ctr[o], prev[o])
  /\ ctr[o] \in NoHandle /\ prev[o] \in NoHandle
  /\ \A c \in NoHandle : c # NoContainer => c \in Containers
  /\ \A c \in Fresh : c \in Containers /\ name[c] = "none" /\ c # ctr[o] /\ c # prev[o]
  /\ \A step, c, p : GoWith(o, step, c, p) =>
       pc'[o] = step /\ ctr'[o] = c /\ prev'[o] = p /\ UNCHANGED result
  /\ \A how, c, p : EndWith(o, how, c, p) => pc'[o] = "idle" /\ result'[o] = how
  /\ Fault(o) => o \notin faulty /\ o \in faulty'
  /\ NoFault => faulty' = faulty
  /\ faulty \subseteq faulty'

LEMMA StepKnown ==
  ASSUME TenantInv, NEW o \in Ops, Step(o)
  PROVE  Known(o)
<1>1. /\ DockerOK /\ OpsOK /\ Names(pc[o], ctr[o], prev[o]) /\ NoContainer \notin Containers
      /\ ctr[o] \in NoHandle /\ prev[o] \in NoHandle /\ Course(kind[o], pc[o], ctr[o], prev[o])
  BY TenantAssumption, StepAt
  DEF TenantInv, OpsOK, Holds, OnCourse, TenantAssumption, Steps, DbSteps, InstanceSteps
<1>2. \A c \in NoHandle : c # NoContainer => c \in Containers  BY DEF NoHandle
<1>3. \A c \in Fresh : c \in Containers /\ name[c] = "none" /\ c # ctr[o] /\ c # prev[o]
  BY <1>1 DEF Fresh, Unused, Present, DockerOK
<1>4. /\ \A step, c, p : GoWith(o, step, c, p) =>
           pc'[o] = step /\ ctr'[o] = c /\ prev'[o] = p /\ UNCHANGED result
      /\ \A how, c, p : EndWith(o, how, c, p) => pc'[o] = "idle" /\ result'[o] = how
  BY <1>1, Moves
<1>5. (Fault(o) => o \notin faulty /\ o \in faulty') /\ (NoFault => faulty' = faulty)
      /\ faulty \subseteq faulty'
  BY StepFaults DEF Fault, NoFault
<1> QED  BY <1>1, <1>2, <1>3, <1>4, <1>5 DEF Known

\* what is found under a name
LEMMA Seen ==
  /\ \A n : Named(n) = {} <=> Free(n)
  /\ \A n : Named(n) # {} => Find(n) \in Containers /\ name[Find(n)] = n
  /\ \A n : Named(n) = {} => Find(n) = NoContainer
BY FindNamed DEF Named, Free

LEMMA OneEach ==
  ASSUME DockerOK, NEW c \in Containers, NEW d \in Containers, name[c] = name[d], name[c] # "none"
  PROVE  c = d
BY DEF DockerOK

LEMMA RemoveDoes ==
  ASSUME DockerOK, NEW c \in Containers, Remove(c)
  PROVE  /\ name'[c] = "none" /\ status'[c] = "none" /\ c \notin attached'
         /\ network' = network /\ attached' \subseteq attached
         /\ \A d \in Containers : d # c => name'[d] = name[d] /\ status'[d] = status[d]
BY DEF DockerOK, Remove

LEMMA StartDoes ==
  ASSUME DockerOK, NEW c \in Containers, Start(c)
  PROVE  /\ status'[c] = "running" /\ UNCHANGED <<name, network, attached>>
         /\ \A d \in Containers : d # c => status'[d] = status[d]
BY DEF DockerOK, Start

LEMMA RenameDoes ==
  ASSUME DockerOK, NEW c \in Containers, NEW n, Rename(c, n)
  PROVE  /\ name'[c] = n /\ UNCHANGED <<status, network, attached>>
         /\ \A d \in Containers : d # c => name'[d] = name[d]
BY DEF DockerOK, Rename

LEMMA CreateDoes ==
  ASSUME DockerOK, NEW c \in Containers, NEW n, Create(c, n)
  PROVE  /\ name'[c] = n /\ status'[c] = "created" /\ network' = network
         /\ \A d \in Containers : d # c => name'[d] = name[d] /\ status'[d] = status[d]
BY DEF DockerOK, Create

EnsureCall(o) ==
  \/ NetGet(o) \/ NetCreate(o) \/ Pull(o) \/ OldGet(o) \/ OldRemove(o) \/ CurGet(o)
  \/ StopCurrent(o) \/ RenameCurrent(o) \/ GetOrCreate(o) \/ CreateDb(o) \/ StartAndWait(o)
  \/ WaitReady(o) \/ Commit(o) \/ PutBackGet(o) \/ PutBackRemove(o) \/ PutBackRename(o)
  \/ PutBackStart(o)

LEMMA EnsureCalls ==
  ASSUME TenantInv, NEW o \in Ops, Step(o), kind[o] \in {"ensure", "recreate"}
  PROVE  EnsureCall(o)
<1>y. Course(kind[o], pc[o], ctr[o], prev[o])
  BY StepAt DEF TenantInv, OnCourse, Steps, DbSteps, InstanceSteps
<1> USE DEF At, Course, ProvisionKinds, InstanceSteps
<1>1. CASE NetGet(o)
  BY <1>1 DEF EnsureCall
<1>2. CASE NetCreate(o)
  BY <1>2 DEF EnsureCall
<1>3. CASE Pull(o)
  BY <1>3 DEF EnsureCall
<1>4. CASE OldGet(o)
  BY <1>4 DEF EnsureCall
<1>5. CASE OldRemove(o)
  BY <1>5 DEF EnsureCall
<1>6. CASE CurGet(o)
  BY <1>6 DEF EnsureCall
<1>7. CASE StopCurrent(o)
  BY <1>7 DEF EnsureCall
<1>8. CASE RenameCurrent(o)
  BY <1>8 DEF EnsureCall
<1>9. CASE GetOrCreate(o)
  BY <1>9 DEF EnsureCall
<1>10. CASE CreateDb(o)
  BY <1>10 DEF EnsureCall
<1>11. CASE StartAndWait(o)
  BY <1>11 DEF EnsureCall
<1>12. CASE WaitReady(o)
  BY <1>12 DEF EnsureCall
<1>13. CASE Commit(o)
  BY <1>13 DEF EnsureCall
<1>14. CASE PutBackGet(o)
  BY <1>14 DEF EnsureCall
<1>15. CASE PutBackRemove(o)
  BY <1>15 DEF EnsureCall
<1>16. CASE PutBackRename(o)
  BY <1>16 DEF EnsureCall
<1>17. CASE PutBackStart(o)
  BY <1>17 DEF EnsureCall
<1>18. CASE StartGet(o)  BY <1>18, <1>y DEF StartGet, Look
<1>19. CASE StopGet(o)  BY <1>19, <1>y DEF StopGet, Look
<1>20. CASE StopDb(o)  BY <1>20, <1>y DEF StopDb
<1>21. CASE RemoveGet(o)  BY <1>21, <1>y DEF RemoveGet, Look
<1>22. CASE RemoveDb(o)  BY <1>22, <1>y DEF RemoveDb
<1>23. CASE DisconnectAll(o)  BY <1>23, <1>y DEF DisconnectAll
<1>24. CASE RemoveNetwork(o)  BY <1>24, <1>y DEF RemoveNetwork
<1>25. CASE RemoveVolumes(o)  BY <1>25, <1>y DEF RemoveVolumes, VolumesBusy
<1>26. CASE Prepare(o)  BY <1>26, <1>y DEF Prepare
<1>27. CASE SweepInstance(o)  BY <1>27, <1>y DEF SweepInstance, SweepGet, SweepRemove
<1>28. CASE SweepSidecar(o)  BY <1>28, <1>y DEF SweepSidecar, SweepGet, SweepRemove
<1>29. CASE CreateInstance(o)  BY <1>29, <1>y DEF CreateInstance
<1>30. CASE ConnectInstance(o)  BY <1>30, <1>y DEF ConnectInstance
<1>31. CASE StartInstance(o)  BY <1>31, <1>y DEF StartInstance, NotStarted
<1>32. CASE UndoInstance(o)  BY <1>32, <1>y DEF UndoInstance
<1>33. CASE NoSidecar(o)  BY <1>33, <1>y DEF NoSidecar
<1>34. CASE SpawnSidecar(o)  BY <1>34, <1>y DEF SpawnSidecar
<1>35. CASE RemoveSidecarById(o)  BY <1>35, <1>y DEF RemoveSidecarById
<1>36. CASE RemoveInstanceById(o)  BY <1>36, <1>y DEF RemoveInstanceById
<1> QED
  BY <1>1, <1>2, <1>3, <1>4, <1>5, <1>6, <1>7, <1>8, <1>9, <1>10, <1>11, <1>12, <1>13, <1>14,
       <1>15, <1>16, <1>17, <1>18, <1>19, <1>20, <1>21, <1>22, <1>23, <1>24, <1>25, <1>26, <1>27,
       <1>28, <1>29, <1>30, <1>31, <1>32, <1>33, <1>34, <1>35, <1>36
  DEF Step, DbStep, InstanceStep

ProvisionCall(o) ==
  \/ Prepare(o) \/ SweepInstance(o) \/ SweepSidecar(o) \/ CreateInstance(o)
  \/ ConnectInstance(o) \/ StartInstance(o) \/ UndoInstance(o) \/ NoSidecar(o)
  \/ SpawnSidecar(o)

LEMMA ProvisionCalls ==
  ASSUME TenantInv, NEW o \in Ops, Step(o), kind[o] \in ProvisionKinds
  PROVE  ProvisionCall(o)
<1>y. Course(kind[o], pc[o], ctr[o], prev[o])
  BY StepAt DEF TenantInv, OnCourse, Steps, DbSteps, InstanceSteps
<1> USE DEF At, Course, ProvisionKinds, InstanceSteps
<1>1. CASE NetGet(o)  BY <1>1, <1>y DEF NetGet, AfterNetwork
<1>2. CASE NetCreate(o)  BY <1>2, <1>y DEF NetCreate, AfterNetwork
<1>3. CASE Pull(o)  BY <1>3, <1>y DEF Pull
<1>4. CASE OldGet(o)  BY <1>4, <1>y DEF OldGet, Look
<1>5. CASE OldRemove(o)  BY <1>5, <1>y DEF OldRemove
<1>6. CASE CurGet(o)  BY <1>6, <1>y DEF CurGet
<1>7. CASE StopCurrent(o)  BY <1>7, <1>y DEF StopCurrent, SetAside
<1>8. CASE RenameCurrent(o)  BY <1>8, <1>y DEF RenameCurrent
<1>9. CASE GetOrCreate(o)  BY <1>9, <1>y DEF GetOrCreate, Failed
<1>10. CASE CreateDb(o)  BY <1>10, <1>y DEF CreateDb, Failed
<1>11. CASE StartAndWait(o)  BY <1>11, <1>y DEF StartAndWait, StartDb, Failed
<1>12. CASE WaitReady(o)  BY <1>12, <1>y DEF WaitReady, Ready, Failed
<1>13. CASE Commit(o)  BY <1>13, <1>y DEF Commit
<1>14. CASE PutBackGet(o)  BY <1>14, <1>y DEF PutBackGet, Look
<1>15. CASE PutBackRemove(o)  BY <1>15, <1>y DEF PutBackRemove
<1>16. CASE PutBackRename(o)  BY <1>16, <1>y DEF PutBackRename, AfterPutBack
<1>17. CASE PutBackStart(o)  BY <1>17, <1>y DEF PutBackStart
<1>18. CASE StartGet(o)  BY <1>18, <1>y DEF StartGet, Look
<1>19. CASE StopGet(o)  BY <1>19, <1>y DEF StopGet, Look
<1>20. CASE StopDb(o)  BY <1>20, <1>y DEF StopDb
<1>21. CASE RemoveGet(o)  BY <1>21, <1>y DEF RemoveGet, Look
<1>22. CASE RemoveDb(o)  BY <1>22, <1>y DEF RemoveDb
<1>23. CASE DisconnectAll(o)  BY <1>23, <1>y DEF DisconnectAll
<1>24. CASE RemoveNetwork(o)  BY <1>24, <1>y DEF RemoveNetwork
<1>25. CASE RemoveVolumes(o)  BY <1>25, <1>y DEF RemoveVolumes, VolumesBusy
<1>26. CASE Prepare(o)
  BY <1>26 DEF ProvisionCall
<1>27. CASE SweepInstance(o)
  BY <1>27 DEF ProvisionCall
<1>28. CASE SweepSidecar(o)
  BY <1>28 DEF ProvisionCall
<1>29. CASE CreateInstance(o)
  BY <1>29 DEF ProvisionCall
<1>30. CASE ConnectInstance(o)
  BY <1>30 DEF ProvisionCall
<1>31. CASE StartInstance(o)
  BY <1>31 DEF ProvisionCall
<1>32. CASE UndoInstance(o)
  BY <1>32 DEF ProvisionCall
<1>33. CASE NoSidecar(o)
  BY <1>33 DEF ProvisionCall
<1>34. CASE SpawnSidecar(o)
  BY <1>34 DEF ProvisionCall
<1>35. CASE RemoveSidecarById(o)  BY <1>35, <1>y DEF RemoveSidecarById
<1>36. CASE RemoveInstanceById(o)  BY <1>36, <1>y DEF RemoveInstanceById
<1> QED
  BY <1>1, <1>2, <1>3, <1>4, <1>5, <1>6, <1>7, <1>8, <1>9, <1>10, <1>11, <1>12, <1>13, <1>14,
       <1>15, <1>16, <1>17, <1>18, <1>19, <1>20, <1>21, <1>22, <1>23, <1>24, <1>25, <1>26, <1>27,
       <1>28, <1>29, <1>30, <1>31, <1>32, <1>33, <1>34, <1>35, <1>36
  DEF Step, DbStep, InstanceStep

LEMMA OwnEnsure ==
  ASSUME TenantInv, NEW o \in Ops, Step(o), kind[o] \in {"ensure", "recreate"}, LoneEnsure(o),
         pc'[o] # "idle"
  PROVE  LoneEnsure(o)'
<1>y. Known(o) /\ DockerOK  BY StepKnown DEF Known
<1>l. kind[o] \in {"ensure", "recreate"} /\ LoneEnsure(o) /\ pc'[o] # "idle" /\ UNCHANGED kind
  BY DEF Step
<1> USE DEF Call, Ask, At, GoTo, End, docker, Known, Free, Course, Present, Up
<1>1. CASE NetGet(o)  BY <1>1, <1>y, <1>l, Seen DEF NetGet, LoneEnsure, AfterNetwork
<1>2. CASE NetCreate(o)  BY <1>2, <1>y, <1>l, Seen DEF NetCreate, LoneEnsure, AfterNetwork
<1>3. CASE Pull(o)  BY <1>3, <1>y, <1>l, Seen DEF Pull, LoneEnsure
<1>4. CASE OldGet(o)  BY <1>4, <1>y, <1>l, Seen DEF OldGet, LoneEnsure, Look
<1>5. CASE OldRemove(o)
  <2>0. /\ pc[o] = "oldRemove" /\ ctr[o] \in Containers /\ name[ctr[o]] = "pg_old" /\ network
    BY <1>5, <1>y, <1>l DEF OldRemove, LoneEnsure
  <2>1. Remove(ctr[o]) /\ pc'[o] = "curGet" /\ prev'[o] = prev[o]
    BY <1>5, <2>0, <1>y, <1>l DEF OldRemove
  <2>2. \A d \in Containers : d # ctr[o] => name[d] # "pg_old"  BY <2>0, <1>y, OneEach
  <2>3. Free("pg_old")' /\ network'
    <3>1. /\ network' = network
          /\ name'[ctr[o]] = "none" /\ \A d \in Containers : d # ctr[o] => name'[d] = name[d]
      BY <2>0, <2>1, <1>y, RemoveDoes
    <3> QED  BY <2>0, <2>2, <3>1
  <2> QED  BY <2>1, <2>3 DEF LoneEnsure
<1>6. CASE CurGet(o)  BY <1>6, <1>y, <1>l, Seen DEF CurGet, LoneEnsure
<1>7. CASE StopCurrent(o)
  <2>0. /\ pc[o] = "stop" /\ prev[o] \in Containers /\ name[prev[o]] = "pg" /\ network
        /\ Free("pg_old")
    BY <1>7, <1>y, <1>l DEF StopCurrent, LoneEnsure
  <2>1. Stop(prev[o]) /\ pc'[o] = "rename" /\ prev'[o] = prev[o]
    BY <1>7, <2>0, <1>y, <1>l DEF StopCurrent, SetAside
  <2>2. UNCHANGED <<name, network>>  BY <2>1 DEF Stop
  <2> QED  BY <2>0, <2>1, <2>2 DEF LoneEnsure
<1>8. CASE RenameCurrent(o)
  <2>0. /\ pc[o] = "rename" /\ prev[o] \in Containers /\ name[prev[o]] = "pg" /\ network
        /\ Named("pg_old") = {} /\ kind[o] = "recreate"
    BY <1>8, <1>y, <1>l, Seen DEF RenameCurrent, LoneEnsure
  <2>1. Rename(prev[o], "pg_old") /\ pc'[o] = "get" /\ prev'[o] = prev[o]
    BY <1>8, <2>0, <1>y, <1>l DEF RenameCurrent
  <2>2. network' = network /\ name'[prev[o]] = "pg_old" /\ Free("pg")'
    <3>1. /\ name'[prev[o]] = "pg_old" /\ network' = network
          /\ \A d \in Containers : d # prev[o] => name'[d] = name[d]
      BY <2>0, <2>1, <1>y, RenameDoes
    <3>2. \A d \in Containers : d # prev[o] => name[d] # "pg"  BY <2>0, <1>y, OneEach
    <3> QED  BY <3>1, <3>2
  <2> QED  BY <2>0, <2>1, <2>2 DEF LoneEnsure
<1>9. CASE GetOrCreate(o)  BY <1>9, <1>y, <1>l, Seen DEF GetOrCreate, LoneEnsure, Failed
<1>10. CASE CreateDb(o)
  <2>0. /\ pc[o] = "create" /\ Named("pg") = {} /\ network
        /\ prev[o] # NoContainer => prev[o] \in Containers /\ name[prev[o]] = "pg_old"
    BY <1>10, <1>y, <1>l, Seen DEF CreateDb, LoneEnsure
  <2>1. PICK c \in Fresh :
          /\ Create(c, "pg") \/ (UNCHANGED docker /\ Fault(o))
          /\ \/ GoWith(o, "start", c, prev[o]) /\ Create(c, "pg")
             \/ Fault(o) /\ Failed(o)
    BY <1>10, <2>0 DEF CreateDb
  <2>2. network' = network /\ (prev[o] # NoContainer => name'[prev[o]] = "pg_old")
    BY <2>0, <2>1, <1>y, CreateDoes
  <2>3. CASE GoWith(o, "start", c, prev[o]) /\ Create(c, "pg")
    <3>1. pc'[o] = "start" /\ prev'[o] = prev[o] /\ ctr'[o] = c /\ name'[c] = "pg"
      BY <2>3, <1>y, CreateDoes
    <3> QED  BY <2>0, <2>2, <3>1 DEF LoneEnsure
  <2>4. CASE Fault(o) /\ Failed(o)
    <3>1. pc'[o] = "pbGet" /\ prev'[o] = prev[o] /\ o \in faulty'
      BY <2>4, <1>y, <1>l DEF Failed
    <3> QED  BY <2>0, <2>2, <3>1 DEF LoneEnsure
  <2> QED  BY <2>1, <2>3, <2>4
<1>11. CASE StartAndWait(o)
  <2>0. /\ pc[o] = "start" /\ ctr[o] \in Containers /\ name[ctr[o]] = "pg" /\ network
        /\ prev[o] # NoContainer => name[prev[o]] = "pg_old"
    BY <1>11, <1>y, <1>l DEF StartAndWait, LoneEnsure
  <2>1. \/ StartDb(ctr[o]) /\ GoTo(o, "wait")
        \/ Fault(o) /\ Failed(o) /\ (UNCHANGED docker \/ StartDb(ctr[o]))
    BY <1>11, <2>0, <1>y DEF StartAndWait, Startable
  <2>2. /\ UNCHANGED <<name, network>>
        /\ StartDb(ctr[o]) => status'[ctr[o]] = "running"
    <3>1. Start(ctr[o]) \/ UNCHANGED docker  BY <2>1 DEF StartDb
    <3>2. UNCHANGED <<name, network>>  BY <3>1 DEF Start
    <3>3. StartDb(ctr[o]) => status'[ctr[o]] = "running"  BY <2>0, <1>y, StartDoes DEF StartDb
    <3> QED  BY <3>2, <3>3
  <2>3. CASE StartDb(ctr[o]) /\ GoTo(o, "wait")
    <3>1. pc'[o] = "wait" /\ prev'[o] = prev[o] /\ ctr'[o] = ctr[o]  BY <2>3, <1>y
    <3> QED  BY <2>0, <2>2, <2>3, <3>1 DEF LoneEnsure
  <2>4. CASE Fault(o) /\ Failed(o)
    <3>1. pc'[o] = "pbGet" /\ prev'[o] = prev[o] /\ o \in faulty'
      BY <2>4, <1>y, <1>l DEF Failed
    <3> QED  BY <2>0, <2>2, <3>1 DEF LoneEnsure
  <2> QED  BY <2>1, <2>3, <2>4
<1>12. CASE WaitReady(o)
  <2>0. /\ pc[o] = "wait" /\ ctr[o] \in Containers /\ name[ctr[o]] = "pg" /\ network
        /\ Up(ctr[o]) /\ (prev[o] # NoContainer => name[prev[o]] = "pg_old")
    BY <1>12, <1>y, <1>l DEF WaitReady, LoneEnsure
  <2>1. UNCHANGED <<name, status, network>>
    BY <1>12 DEF WaitReady
  <2>2. Ready(o) \/ (Fault(o) /\ Failed(o))
    BY <1>12, <2>0, <1>y DEF WaitReady
  <2>3. \/ pc'[o] = "commit" /\ prev'[o] = prev[o] /\ ctr'[o] = ctr[o]
        \/ pc'[o] = "pbGet" /\ prev'[o] = prev[o] /\ o \in faulty'
    BY <2>2, <1>y, <1>l DEF Ready, Failed
  <2> QED  BY <2>0, <2>1, <2>3 DEF LoneEnsure
<1>13. CASE Commit(o)  BY <1>13, <1>y, <1>l, Seen DEF Commit, LoneEnsure
<1>14. CASE PutBackGet(o)  BY <1>14, <1>y, <1>l, Seen DEF PutBackGet, LoneEnsure, Look
<1>15. CASE PutBackRemove(o)
  <2>0. /\ pc[o] = "pbRemove" /\ ctr[o] \in Containers /\ name[ctr[o]] = "pg" /\ network
        /\ o \in faulty /\ prev[o] \in Containers /\ name[prev[o]] = "pg_old"
    BY <1>15, <1>y, <1>l DEF PutBackRemove, LoneEnsure
  <2>1. Remove(ctr[o]) /\ pc'[o] = "pbRename" /\ prev'[o] = prev[o]
    <3>1. ~Fault(o)  BY <2>0, <1>y
    <3>2. Present(ctr[o])  BY <2>0, <1>y DEF DockerOK
    <3>3. Remove(ctr[o]) /\ GoTo(o, "pbRename")  BY <1>15, <3>1, <3>2 DEF PutBackRemove
    <3> QED  BY <3>3, <1>y
  <2>2. Free("pg")' /\ network' /\ name'[prev[o]] = "pg_old"
    <3>1. /\ network' = network /\ name'[ctr[o]] = "none"
          /\ \A d \in Containers : d # ctr[o] => name'[d] = name[d]
      BY <2>0, <2>1, <1>y, RemoveDoes
    <3>2. \A d \in Containers : d # ctr[o] => name[d] # "pg"  BY <2>0, <1>y, OneEach
    <3> QED  BY <2>0, <3>1, <3>2
  <2> QED  BY <2>0, <2>1, <2>2, <1>y DEF LoneEnsure
<1>16. CASE PutBackRename(o)
  <2>0. /\ pc[o] = "pbRename" /\ Named("pg") = {} /\ network
        /\ o \in faulty /\ prev[o] \in Containers /\ name[prev[o]] = "pg_old"
    BY <1>16, <1>y, <1>l, Seen DEF PutBackRename, LoneEnsure
  <2>1. Rename(prev[o], "pg") /\ pc'[o] = "pbStart" /\ prev'[o] = prev[o]
    BY <1>16, <2>0, <1>y, <1>l DEF PutBackRename, AfterPutBack
  <2>2. network' /\ name'[prev[o]] = "pg"  BY <2>0, <2>1, <1>y, RenameDoes
  <2> QED  BY <2>0, <2>1, <2>2, <1>y DEF LoneEnsure
<1>17. CASE PutBackStart(o)  BY <1>17, <1>y, <1>l, Seen DEF PutBackStart, LoneEnsure, Startable
<1> QED
  BY <1>1, <1>2, <1>3, <1>4, <1>5, <1>6, <1>7, <1>8, <1>9, <1>10, <1>11, <1>12, <1>13, <1>14,
       <1>15, <1>16, <1>17, EnsureCalls, <1>l DEF EnsureCall


LEMMA OwnRecreate ==
  ASSUME TenantInv, NEW o \in Ops, Step(o), kind[o] = "recreate", o \in wasUp,
         LoneEnsure(o), LoneRecreate(o), pc'[o] # "idle"
  PROVE  LoneRecreate(o)'
<1>y. Known(o) /\ DockerOK  BY StepKnown DEF Known
<1>l. /\ kind[o] = "recreate" /\ LoneEnsure(o) /\ LoneRecreate(o) /\ pc'[o] # "idle"
      /\ UNCHANGED <<kind, wasUp>>
  BY DEF Step
<1>u. DbUp /\ UNCHANGED <<name, status>> => DbUp'  BY DEF DbUp, Named, Up
<1> USE DEF Call, Ask, At, GoTo, End, docker, Known, Free, Course, Present, Up
<1>1. CASE NetGet(o)  BY <1>1, <1>y, <1>u, <1>l, Seen DEF NetGet, LoneRecreate, AfterNetwork
<1>2. CASE NetCreate(o)  BY <1>2, <1>y, <1>u, <1>l, Seen DEF NetCreate, LoneRecreate, AfterNetwork
<1>3. CASE Pull(o)  BY <1>3, <1>y, <1>u, <1>l, Seen DEF Pull, LoneRecreate
<1>4. CASE OldGet(o)  BY <1>4, <1>y, <1>u, <1>l, Seen DEF OldGet, LoneRecreate, Look
<1>5. CASE OldRemove(o)
  <2>0. /\ pc[o] = "oldRemove" /\ ctr[o] \in Containers /\ name[ctr[o]] = "pg_old" /\ DbUp
    BY <1>5, <1>y, <1>l DEF OldRemove, LoneEnsure, LoneRecreate
  <2>1. Remove(ctr[o]) /\ pc'[o] = "curGet" /\ prev'[o] = prev[o]
    BY <1>5, <2>0, <1>y, <1>l DEF OldRemove
  <2>2. PICK c \in Containers : name[c] = "pg" /\ status[c] = "running"
    BY <2>0 DEF DbUp, Named
  <2>3. name'[c] = "pg" /\ status'[c] = "running"  BY <2>0, <2>1, <2>2, <1>y, RemoveDoes
  <2>4. DbUp'  BY <2>3 DEF DbUp, Named
  <2> QED  BY <2>1, <2>4 DEF LoneRecreate
<1>6. CASE CurGet(o)
  <2>0. pc[o] = "curGet" /\ DbUp  BY <1>6, <1>l DEF CurGet, LoneRecreate
  <2>1. Named("pg") # {}  BY <2>0 DEF DbUp
  <2>2. pc'[o] = "stop"  BY <1>6, <2>1, <1>y, <1>l DEF CurGet
  <2> QED  BY <2>2 DEF LoneRecreate
<1>7. CASE StopCurrent(o)  BY <1>7, <1>y, <1>u, <1>l, Seen DEF StopCurrent, LoneRecreate, SetAside
<1>8. CASE RenameCurrent(o)  BY <1>8, <1>y, <1>u, <1>l, Seen DEF RenameCurrent, LoneRecreate
<1>9. CASE GetOrCreate(o)  BY <1>9, <1>y, <1>u, <1>l, Seen DEF GetOrCreate, LoneRecreate, Failed
<1>10. CASE CreateDb(o)  BY <1>10, <1>y, <1>u, <1>l, Seen DEF CreateDb, LoneRecreate, Failed
<1>11. CASE StartAndWait(o)
  BY <1>11, <1>y, <1>u, <1>l, Seen DEF StartAndWait, LoneRecreate, StartDb, Failed, Startable
<1>12. CASE WaitReady(o)  BY <1>12, <1>y, <1>u, <1>l, Seen DEF WaitReady, LoneRecreate, Ready, Failed
<1>13. CASE Commit(o)  BY <1>13, <1>y, <1>u, <1>l, Seen DEF Commit, LoneRecreate
<1>14. CASE PutBackGet(o)  BY <1>14, <1>y, <1>u, <1>l, Seen DEF PutBackGet, LoneRecreate, Look
<1>15. CASE PutBackRemove(o)  BY <1>15, <1>y, <1>u, <1>l, Seen DEF PutBackRemove, LoneRecreate
<1>16. CASE PutBackRename(o)  BY <1>16, <1>y, <1>u, <1>l, Seen DEF PutBackRename, LoneRecreate, AfterPutBack
<1>17. CASE PutBackStart(o)  BY <1>17, <1>y, <1>u, <1>l, Seen DEF PutBackStart, LoneRecreate, Startable
<1> QED
  BY <1>1, <1>2, <1>3, <1>4, <1>5, <1>6, <1>7, <1>8, <1>9, <1>10, <1>11, <1>12, <1>13, <1>14,
       <1>15, <1>16, <1>17, EnsureCalls, <1>l DEF EnsureCall

LEMMA OwnProvisionAlone ==
  ASSUME TenantInv, NEW o \in Ops, Step(o), kind[o] \in ProvisionKinds,
         LoneProvision(o), o \notin faulty', pc'[o] # "idle"
  PROVE  LoneProvision(o)'
<1>y. Known(o) /\ DockerOK  BY StepKnown DEF Known
<1>l. /\ kind[o] \in ProvisionKinds /\ LoneProvision(o) /\ pc'[o] # "idle" /\ UNCHANGED kind
      /\ o \notin faulty' /\ ~Fault(o)
  BY <1>y DEF Step, Known
<1> USE DEF Call, Ask, At, GoTo, End, docker, Known, Free, Course, Present, Up
<1>1. CASE Prepare(o)  BY <1>1, <1>y, <1>l, Seen DEF Prepare, LoneProvision
<1>2. CASE SweepInstance(o)
  <2>1. CASE SweepGet(o, "swGet", Stale, "swRemove", "cfGet")
    BY <2>1, <1>y, Seen, <1>l DEF SweepGet, Stale, LoneProvision
  <2>2. CASE SweepRemove(o, "swRemove", "cfGet")
    <3>1. pc[o] = "swRemove" /\ ctr[o] \in Containers /\ name[ctr[o]] = "saas"
      BY <2>2, <1>y, <1>l DEF SweepRemove, LoneProvision
    <3>2. Remove(ctr[o]) /\ pc'[o] = "cfGet"
      BY <2>2, <3>1, <1>y, <1>l DEF SweepRemove
    <3>3. Free("saas")'
      <4>1. \A d \in Containers : d # ctr[o] => name[d] # "saas"  BY <3>1, <1>y, OneEach
      <4> QED  BY <3>1, <3>2, <4>1, <1>y, RemoveDoes
    <3> QED  BY <3>2, <3>3 DEF LoneProvision
  <2> QED  BY <1>2, <2>1, <2>2 DEF SweepInstance
<1>3. CASE SweepSidecar(o)
  <2>1. CASE SweepGet(o, "cfGet", "saas_cf", "cfRemove", "iCreate")
    BY <2>1, <1>y, Seen, <1>l DEF SweepGet, LoneProvision
  <2>2. CASE SweepRemove(o, "cfRemove", "iCreate")
    <3>1. pc[o] = "cfRemove" /\ ctr[o] \in Containers /\ Free("saas")
      BY <2>2, <1>y, <1>l DEF SweepRemove, LoneProvision
    <3>2. (Remove(ctr[o]) \/ UNCHANGED name) /\ pc'[o] = "iCreate"
      BY <2>2, <3>1, <1>y, <1>l DEF SweepRemove
    <3>3. Free("saas")'
      <4>1. CASE UNCHANGED name  BY <3>1, <4>1
      <4>2. CASE Remove(ctr[o])  BY <3>1, <4>2, <1>y, RemoveDoes
      <4> QED  BY <3>2, <4>1, <4>2
    <3> QED  BY <3>2, <3>3 DEF LoneProvision
  <2> QED  BY <1>3, <2>1, <2>2 DEF SweepSidecar
<1>4. CASE CreateInstance(o)
  <2>0. pc[o] = "iCreate" /\ Named("saas") = {}
    BY <1>4, <1>l, Seen DEF CreateInstance, LoneProvision
  <2>1. PICK c \in Fresh :
          /\ Create(c, "saas") /\ UNCHANGED attached
          /\ GoWith(o, IF kind[o] = "provision" THEN "iConnect" ELSE "iStart", c, prev[o])
    BY <1>4, <2>0, <1>y, <1>l DEF CreateInstance
  <2>2. /\ ctr'[o] = c /\ pc'[o] = IF kind[o] = "provision" THEN "iConnect" ELSE "iStart"
    BY <2>1, <1>y
  <2>3. name'[c] = "saas" /\ c \notin attached'  BY <2>1, <1>y, CreateDoes DEF DockerOK
  <2> QED  BY <2>2, <2>3, <1>l DEF LoneProvision, ProvisionKinds
<1>5. CASE ConnectInstance(o)  BY <1>5, <1>y, <1>l, Seen DEF ConnectInstance, LoneProvision
<1>6. CASE StartInstance(o)
  <2>0. /\ pc[o] = "iStart" /\ ctr[o] \in Containers /\ name[ctr[o]] = "saas"
        /\ ctr[o] \in attached => network
        /\ kind[o] = "provision" => network /\ ctr[o] \in attached
        /\ kind[o] = "provisionPlain" => ctr[o] \notin attached
    BY <1>6, <1>y, <1>l DEF StartInstance, LoneProvision, ProvisionKinds
  <2>1. Start(ctr[o]) /\ GoTo(o, "sidecar")
    BY <1>6, <2>0, <1>y, <1>l DEF StartInstance, Startable
  <2>2. /\ ctr'[o] = ctr[o] /\ pc'[o] = "sidecar" /\ UNCHANGED <<name, network, attached>>
        /\ status'[ctr[o]] = "running"
    BY <2>0, <2>1, <1>y, StartDoes
  <2> QED  BY <2>0, <2>2, <1>l DEF LoneProvision
<1>7. CASE UndoInstance(o)  BY <1>7, <1>y, <1>l, Seen DEF UndoInstance, LoneProvision
<1>8. CASE NoSidecar(o)  BY <1>8, <1>y, <1>l, Seen DEF NoSidecar, LoneProvision
<1>9. CASE SpawnSidecar(o)  BY <1>9, <1>y, <1>l, Seen DEF SpawnSidecar, LoneProvision
<1> QED
  BY <1>1, <1>2, <1>3, <1>4, <1>5, <1>6, <1>7, <1>8, <1>9, ProvisionCalls, <1>l DEF ProvisionCall

\* the volumes are removed after the network
LEMMA OwnRemove ==
  ASSUME TenantInv, NEW o \in Ops, Step(o), pc[o] = "rmVol" => ~network, pc'[o] = "rmVol"
  PROVE  ~network'
<1>y. /\ DockerOK /\ OpsOK /\ Names(pc[o], ctr[o], prev[o]) /\ NoContainer \notin Containers
      /\ ctr[o] \in NoHandle /\ prev[o] \in NoHandle /\ Course(kind[o], pc[o], ctr[o], prev[o])
  BY TenantAssumption, StepAt
  DEF TenantInv, OpsOK, Holds, OnCourse, TenantAssumption, Steps, DbSteps, InstanceSteps
<1>m. /\ \A step, c, p : GoWith(o, step, c, p) => pc'[o] = step /\ ctr'[o] = c /\ prev'[o] = p
      /\ \A how, c, p : EndWith(o, how, c, p) => pc'[o] = "idle"
  BY <1>y, Moves
<1> USE DEF Call, Ask, At, GoTo, End, Course, docker
<1>1. CASE NetGet(o)  BY <1>1, <1>y, <1>m DEF NetGet, AfterNetwork
<1>2. CASE NetCreate(o)  BY <1>2, <1>y, <1>m DEF NetCreate, AfterNetwork
<1>3. CASE Pull(o)  BY <1>3, <1>y, <1>m DEF Pull
<1>4. CASE OldGet(o)  BY <1>4, <1>y, <1>m DEF OldGet, Look
<1>5. CASE OldRemove(o)  BY <1>5, <1>y, <1>m DEF OldRemove
<1>6. CASE CurGet(o)  BY <1>6, <1>y, <1>m DEF CurGet
<1>7. CASE StopCurrent(o)  BY <1>7, <1>y, <1>m DEF StopCurrent, SetAside
<1>8. CASE RenameCurrent(o)  BY <1>8, <1>y, <1>m DEF RenameCurrent
<1>9. CASE GetOrCreate(o)  BY <1>9, <1>y, <1>m DEF GetOrCreate, Failed
<1>10. CASE CreateDb(o)  BY <1>10, <1>y, <1>m DEF CreateDb, Failed
<1>11. CASE StartAndWait(o)  BY <1>11, <1>y, <1>m DEF StartAndWait, StartDb, Failed
<1>12. CASE WaitReady(o)  BY <1>12, <1>y, <1>m DEF WaitReady, Ready, Failed
<1>13. CASE Commit(o)  BY <1>13, <1>y, <1>m DEF Commit
<1>14. CASE PutBackGet(o)  BY <1>14, <1>y, <1>m DEF PutBackGet, Look
<1>15. CASE PutBackRemove(o)  BY <1>15, <1>y, <1>m DEF PutBackRemove
<1>16. CASE PutBackRename(o)  BY <1>16, <1>y, <1>m DEF PutBackRename, AfterPutBack
<1>17. CASE PutBackStart(o)  BY <1>17, <1>y, <1>m DEF PutBackStart
<1>18. CASE StartGet(o)  BY <1>18, <1>y, <1>m DEF StartGet, Look
<1>19. CASE StopGet(o)  BY <1>19, <1>y, <1>m DEF StopGet, Look
<1>20. CASE StopDb(o)  BY <1>20, <1>y, <1>m DEF StopDb
<1>21. CASE RemoveGet(o)  BY <1>21, <1>y, <1>m DEF RemoveGet, Look
<1>22. CASE RemoveDb(o)  BY <1>22, <1>y, <1>m DEF RemoveDb
<1>23. CASE DisconnectAll(o)  BY <1>23, <1>y, <1>m DEF DisconnectAll
<1>24. CASE RemoveNetwork(o)  BY <1>24, <1>y, <1>m DEF RemoveNetwork
<1>25. CASE RemoveVolumes(o)  BY <1>25, <1>y, <1>m DEF RemoveVolumes, VolumesBusy
<1>26. CASE Prepare(o)  BY <1>26, <1>y, <1>m DEF Prepare
<1>27. CASE SweepInstance(o)  BY <1>27, <1>y, <1>m DEF SweepInstance, SweepGet, SweepRemove, Stale
<1>28. CASE SweepSidecar(o)  BY <1>28, <1>y, <1>m DEF SweepSidecar, SweepGet, SweepRemove
<1>29. CASE CreateInstance(o)  BY <1>29, <1>y, <1>m DEF CreateInstance
<1>30. CASE ConnectInstance(o)  BY <1>30, <1>y, <1>m DEF ConnectInstance
<1>31. CASE StartInstance(o)  BY <1>31, <1>y, <1>m DEF StartInstance, NotStarted
<1>32. CASE UndoInstance(o)  BY <1>32, <1>y, <1>m DEF UndoInstance
<1>33. CASE NoSidecar(o)  BY <1>33, <1>y, <1>m DEF NoSidecar
<1>34. CASE SpawnSidecar(o)  BY <1>34, <1>y, <1>m DEF SpawnSidecar
<1>35. CASE RemoveSidecarById(o)  BY <1>35, <1>y, <1>m DEF RemoveSidecarById
<1>36. CASE RemoveInstanceById(o)  BY <1>36, <1>y, <1>m DEF RemoveInstanceById
<1> QED
  BY <1>1, <1>2, <1>3, <1>4, <1>5, <1>6, <1>7, <1>8, <1>9, <1>10, <1>11, <1>12, <1>13, <1>14,
       <1>15, <1>16, <1>17, <1>18, <1>19, <1>20, <1>21, <1>22, <1>23, <1>24, <1>25, <1>26, <1>27,
       <1>28, <1>29, <1>30, <1>31, <1>32, <1>33, <1>34, <1>35, <1>36
  DEF Step, DbStep, InstanceStep

LEMMA AloneStep == TenantInv /\ [Next]_tenantVars => Alone'
<1> SUFFICES ASSUME TenantInv, [Next]_tenantVars PROVE Alone'  OBVIOUS
<1>y. OpsOK /\ OnCourse /\ Begun /\ Alone  BY DEF TenantInv
<1>1. ASSUME NEW o \in Ops, Step(o) PROVE Alone'
  <2>0. /\ UNCHANGED <<kind, alone, wasUp>> /\ pc[o] # "idle" /\ faulty \subseteq faulty'
        /\ \A q \in Ops : q # o => Unmoved(q)
    BY <1>1, StepFrame, StepAt, StepFaults DEF Steps, DbSteps, InstanceSteps
  <2>1. SUFFICES ASSUME NEW q \in alone', pc'[q] # "idle" PROVE Lone(q)'
    BY DEF Alone
  <2>2. q = o /\ Lone(o)
    <3>1. q \in Ops /\ pc[q] # "idle" /\ q \in alone  BY <1>y, <2>0, <2>1 DEF OpsOK, Unmoved
    <3>2. Lone(q)  BY <1>y, <3>1 DEF Alone
    <3> QED  BY <2>0, <3>2 DEF Lone, Active
  <2>3. Active' = {o}  BY <2>0, <2>1, <2>2 DEF Lone, Active, Unmoved
  <2>4. kind[o] \in {"ensure", "recreate"} => LoneEnsure(o)'
    BY <1>1, <2>1, <2>2, OwnEnsure DEF Lone
  <2>5. kind[o] = "recreate" /\ o \in wasUp => LoneRecreate(o)'
    BY <1>1, <2>1, <2>2, OwnRecreate DEF Lone
  <2>6. kind[o] \in ProvisionKinds /\ o \notin faulty' => LoneProvision(o)'
    BY <1>1, <2>0, <2>1, <2>2, OwnProvisionAlone DEF Lone
  <2>7. pc'[o] = "rmVol" => ~network'  BY <1>1, <2>2, OwnRemove DEF Lone
  <2> QED  BY <2>0, <2>2, <2>3, <2>4, <2>5, <2>6, <2>7 DEF Lone
<1>2. ASSUME NEW o \in Ops, NEW k \in Kinds, NEW step \in Steps, NEW c \in NoHandle,
             NEW p \in NoHandle, Begins(o, k, step, c, p)
      PROVE  Alone'
  <2>0. /\ UNCHANGED <<docker, faulty>> /\ pc'[o] = step /\ kind'[o] = k /\ ctr'[o] = c
        /\ pc[o] = "idle" /\ result[o] = "none"
        /\ \A q \in Ops : q # o => Unmoved(q) /\ kind'[q] = kind[q]
    BY <1>2, BeginFrame
  <2>1. /\ Course(k, step, c, p)
        /\ step \in {"net", "sGet", "stGet", "rmGet", "prepare", "deCf"}
        /\ alone' = IF Active = {} THEN alone \cup {o} ELSE alone \ Active
        /\ wasUp' = IF DbUp THEN wasUp \cup {o} ELSE wasUp
    BY <1>2 DEF Begins, Begin
  <2>2. o \notin alone /\ o \notin wasUp  BY <1>y, <2>0 DEF Begun
  <2>3. SUFFICES ASSUME NEW q \in alone', pc'[q] # "idle" PROVE Lone(q)'
    BY DEF Alone
  <2>4. q = o /\ Active = {}
    BY <1>y, <2>0, <2>1, <2>2, <2>3 DEF Active, Unmoved, OpsOK
  <2>5. Active' = {o}  BY <2>0, <2>1, <2>3, <2>4 DEF Active, Unmoved
  <2>6. k \in {"ensure", "recreate"} => step = "net"
    BY <2>1 DEF Course, InstanceSteps, ProvisionKinds
  <2>7. k \in ProvisionKinds => step = "prepare"
    BY <2>1 DEF Course, InstanceSteps, ProvisionKinds
  <2>8. k = "recreate" /\ o \in wasUp' => DbUp'
    BY <2>0, <2>1, <2>2 DEF DbUp, Named, Up, docker
  <2> QED
    BY <2>0, <2>1, <2>4, <2>5, <2>6, <2>7, <2>8 DEF Lone, LoneEnsure, LoneRecreate, LoneProvision
<1>3. CASE Crash  BY <1>3, <1>y, CrashFrame DEF Alone, OpsOK
<1>4. CASE UNCHANGED tenantVars
  BY <1>4, <1>y DEF tenantVars, vars, docker, history, Alone, Lone, LoneEnsure, LoneRecreate, LoneProvision,
     Active, Free, DbUp, Named, Up
<1> QED  BY <1>1, <1>2, <1>3, <1>4, NextIs

-----------------------------------------------------------------------------
(* How commands end. *)

\* only its own step gives a request an answer
LEMMA EndsByStep ==
  ASSUME TenantInv, [Next]_tenantVars, NEW o \in Ops, result[o] = "none",
         result'[o] \in {"ok", "error"}
  PROVE  Step(o) /\ pc[o] # "idle"
<1>1. ASSUME NEW q \in Ops, Step(q) PROVE q = o /\ pc[o] # "idle"
  BY <1>1, StepFrame, StepAt DEF Unmoved, Steps, DbSteps, InstanceSteps
<1>2. ASSUME NEW q \in Ops, NEW k \in Kinds, NEW step \in Steps, NEW c \in NoHandle,
             NEW p \in NoHandle, Begins(q, k, step, c, p)
      PROVE  FALSE
  BY <1>2, BeginFrame
<1>3. ~Crash  BY CrashFrame DEF TenantInv, OpsOK
<1>4. ~UNCHANGED tenantVars  BY DEF tenantVars, vars
<1> QED  BY <1>1, <1>2, <1>3, <1>4, NextIs

LEMMA RecreateFails ==
  ASSUME TenantInv, NEW o \in Ops, Step(o), kind[o] = "recreate", LoneEnsure(o),
         LoneRecreate(o), result[o] = "none", result'[o] = "error", pc[o] \notin {"stop", "rename"}
  PROVE  DbUp'
<1>y. Known(o) /\ DockerOK  BY StepKnown DEF Known
<1>l. /\ kind[o] = "recreate" /\ LoneEnsure(o) /\ LoneRecreate(o)
      /\ result[o] = "none" /\ result'[o] = "error" /\ pc[o] \notin {"stop", "rename"}
  OBVIOUS
<1>u. DbUp /\ UNCHANGED <<name, status>> => DbUp'  BY DEF DbUp, Named, Up
<1> USE DEF Call, Ask, At, GoTo, End, docker, Known, Free, Course, Present, Up
<1>1. CASE NetGet(o)  BY <1>1, <1>y, <1>u, <1>l, Seen DEF NetGet, LoneRecreate, AfterNetwork
<1>2. CASE NetCreate(o)  BY <1>2, <1>y, <1>u, <1>l, Seen DEF NetCreate, LoneRecreate, AfterNetwork
<1>3. CASE Pull(o)  BY <1>3, <1>y, <1>u, <1>l, Seen DEF Pull, LoneRecreate
<1>4. CASE OldGet(o)  BY <1>4, <1>y, <1>u, <1>l, Seen DEF OldGet, LoneRecreate, Look
<1>5. CASE OldRemove(o)
  <2>0. /\ pc[o] = "oldRemove" /\ ctr[o] \in Containers /\ name[ctr[o]] = "pg_old" /\ DbUp
    BY <1>5, <1>y, <1>l DEF OldRemove, LoneEnsure, LoneRecreate
  <2>1. Remove(ctr[o]) \/ UNCHANGED docker  BY <1>5 DEF OldRemove
  <2>2. PICK c \in Containers : name[c] = "pg" /\ status[c] = "running"
    BY <2>0 DEF DbUp, Named
  <2>3. name'[c] = "pg" /\ status'[c] = "running"  BY <2>0, <2>1, <2>2, <1>y, RemoveDoes
  <2> QED  BY <2>3 DEF DbUp, Named
<1>6. CASE CurGet(o)  BY <1>6, <1>y, <1>u, <1>l, Seen DEF CurGet, LoneRecreate
<1>7. CASE StopCurrent(o)  BY <1>7, <1>y, <1>u, <1>l, Seen DEF StopCurrent, LoneRecreate, SetAside
<1>8. CASE RenameCurrent(o)  BY <1>8, <1>y, <1>u, <1>l, Seen DEF RenameCurrent, LoneRecreate
<1>9. CASE GetOrCreate(o)  BY <1>9, <1>y, <1>u, <1>l, Seen DEF GetOrCreate, LoneRecreate, Failed
<1>10. CASE CreateDb(o)  BY <1>10, <1>y, <1>u, <1>l, Seen DEF CreateDb, LoneRecreate, Failed
<1>11. CASE StartAndWait(o)
  BY <1>11, <1>y, <1>u, <1>l, Seen DEF StartAndWait, LoneRecreate, StartDb, Failed, Startable
<1>12. CASE WaitReady(o)  BY <1>12, <1>y, <1>u, <1>l, Seen DEF WaitReady, LoneRecreate, Ready, Failed
<1>13. CASE Commit(o)
  <2>0. /\ ctr[o] \in Containers /\ name[ctr[o]] = "pg" /\ status[ctr[o]] = "running"
        /\ prev[o] \in Containers /\ name[prev[o]] = "pg_old"
    BY <1>13, <1>y, <1>l DEF Commit, LoneEnsure
  <2>1. Remove(prev[o]) \/ UNCHANGED docker  BY <1>13 DEF Commit
  <2>2. name'[ctr[o]] = "pg" /\ status'[ctr[o]] = "running"  BY <2>0, <2>1, <1>y, RemoveDoes
  <2> QED  BY <2>0, <2>2 DEF DbUp, Named
<1>14. CASE PutBackGet(o)
  BY <1>14, <1>y, <1>l DEF PutBackGet, Look, LoneRecreate, LoneEnsure
<1>15. CASE PutBackRemove(o)
  BY <1>15, <1>y, <1>l DEF PutBackRemove, LoneRecreate, LoneEnsure
<1>16. CASE PutBackRename(o)
  <2>0. /\ prev[o] \in Containers /\ name[prev[o]] = "pg_old" /\ Named("pg") = {} /\ o \in faulty
    BY <1>16, <1>y, <1>l, Seen DEF PutBackRename, LoneEnsure
  <2>1. GoTo(o, "pbStart")  BY <1>16, <2>0, <1>y DEF PutBackRename, AfterPutBack
  <2> QED  BY <2>1, <1>y, <1>l
<1>17. CASE PutBackStart(o)
  <2>0. /\ prev[o] \in Containers /\ name[prev[o]] = "pg" /\ network /\ o \in faulty
    BY <1>17, <1>y, <1>l DEF PutBackStart, LoneEnsure
  <2>1. Start(prev[o])  BY <1>17, <2>0, <1>y DEF PutBackStart, Startable
  <2>2. name'[prev[o]] = "pg" /\ status'[prev[o]] = "running"  BY <2>0, <2>1, <1>y, StartDoes
  <2> QED  BY <2>0, <2>2 DEF DbUp, Named
<1> QED
  BY <1>1, <1>2, <1>3, <1>4, <1>5, <1>6, <1>7, <1>8, <1>9, <1>10, <1>11, <1>12, <1>13, <1>14,
       <1>15, <1>16, <1>17, EnsureCalls, <1>l DEF EnsureCall

LEMMA EnsureSucceeds ==
  ASSUME TenantInv, NEW o \in Ops, Step(o), kind[o] \in {"ensure", "recreate"},
         LoneEnsure(o), result[o] = "none", result'[o] \in {"ok", "error"}, o \notin faulty'
  PROVE  result'[o] = "ok" /\ DbUp'
<1>y. Known(o) /\ DockerOK  BY StepKnown DEF Known
<1>l. /\ kind[o] \in {"ensure", "recreate"} /\ LoneEnsure(o)
      /\ result[o] = "none" /\ result'[o] \in {"ok", "error"}
      /\ o \notin faulty /\ ~Fault(o)
  BY <1>y DEF Known
<1> USE DEF Call, Ask, At, GoTo, End, docker, Known, Free, Course, Present, Up
<1>1. CASE NetGet(o)  BY <1>1, <1>y, <1>l, Seen DEF NetGet, LoneEnsure, AfterNetwork
<1>2. CASE NetCreate(o)  BY <1>2, <1>y, <1>l, Seen DEF NetCreate, LoneEnsure, AfterNetwork
<1>3. CASE Pull(o)  BY <1>3, <1>y, <1>l, Seen DEF Pull, LoneEnsure
<1>4. CASE OldGet(o)  BY <1>4, <1>y, <1>l, Seen DEF OldGet, LoneEnsure, Look
<1>5. CASE OldRemove(o)  BY <1>5, <1>y, <1>l, Seen DEF OldRemove, LoneEnsure
<1>6. CASE CurGet(o)  BY <1>6, <1>y, <1>l, Seen DEF CurGet, LoneEnsure
<1>7. CASE StopCurrent(o)  BY <1>7, <1>y, <1>l, Seen DEF StopCurrent, LoneEnsure, SetAside
<1>8. CASE RenameCurrent(o)  BY <1>8, <1>y, <1>l, Seen DEF RenameCurrent, LoneEnsure
<1>9. CASE GetOrCreate(o)  BY <1>9, <1>y, <1>l, Seen DEF GetOrCreate, LoneEnsure, Failed
<1>10. CASE CreateDb(o)  BY <1>10, <1>y, <1>l, Seen DEF CreateDb, LoneEnsure, Failed
<1>11. CASE StartAndWait(o)
  BY <1>11, <1>y, <1>l, Seen DEF StartAndWait, LoneEnsure, StartDb, Failed, Startable
<1>12. CASE WaitReady(o)
  <2>0. ctr[o] \in Containers /\ name[ctr[o]] = "pg" /\ status[ctr[o]] = "running"
    BY <1>12, <1>y, <1>l DEF WaitReady, LoneEnsure
  <2>1. UNCHANGED docker /\ result'[o] = "ok"
    BY <1>12, <2>0, <1>y, <1>l DEF WaitReady, Ready
  <2> QED  BY <2>0, <2>1 DEF DbUp, Named
<1>13. CASE Commit(o)
  <2>0. /\ ctr[o] \in Containers /\ name[ctr[o]] = "pg" /\ status[ctr[o]] = "running"
        /\ prev[o] \in Containers /\ name[prev[o]] = "pg_old"
    BY <1>13, <1>y, <1>l DEF Commit, LoneEnsure
  <2>1. (Remove(prev[o]) \/ UNCHANGED docker) /\ result'[o] = "ok"
    BY <1>13, <1>y, <1>l DEF Commit
  <2>2. name'[ctr[o]] = "pg" /\ status'[ctr[o]] = "running"  BY <2>0, <2>1, <1>y, RemoveDoes
  <2> QED  BY <2>0, <2>1, <2>2 DEF DbUp, Named
<1>14. CASE PutBackGet(o)  BY <1>14, <1>y, <1>l, Seen DEF PutBackGet, LoneEnsure, Look
<1>15. CASE PutBackRemove(o)  BY <1>15, <1>y, <1>l, Seen DEF PutBackRemove, LoneEnsure
<1>16. CASE PutBackRename(o)  BY <1>16, <1>y, <1>l, Seen DEF PutBackRename, LoneEnsure, AfterPutBack
<1>17. CASE PutBackStart(o)  BY <1>17, <1>y, <1>l, Seen DEF PutBackStart, LoneEnsure, Startable
<1> QED
  BY <1>1, <1>2, <1>3, <1>4, <1>5, <1>6, <1>7, <1>8, <1>9, <1>10, <1>11, <1>12, <1>13, <1>14,
       <1>15, <1>16, <1>17, EnsureCalls, <1>l DEF EnsureCall

LEMMA ProvisionSucceeds ==
  ASSUME TenantInv, NEW o \in Ops, Step(o), kind[o] \in ProvisionKinds,
         LoneProvision(o), kind[o] = "provision" => network,
         result[o] = "none", result'[o] \in {"ok", "error"}, o \notin faulty'
  PROVE  /\ result'[o] = "ok"
         /\ \E c \in Named("saas")' : Up(c)' /\ (kind[o] = "provision" => c \in attached')
<1>y. Known(o) /\ DockerOK  BY StepKnown DEF Known
<1>l. /\ kind[o] \in ProvisionKinds /\ LoneProvision(o) /\ (kind[o] = "provision" => network)
      /\ result[o] = "none" /\ result'[o] \in {"ok", "error"}
      /\ o \notin faulty /\ ~Fault(o)
  BY <1>y DEF Known
<1> USE DEF Call, Ask, At, GoTo, End, docker, Known, Free, Course, Present, Up
<1>1. CASE Prepare(o)  BY <1>1, <1>y, <1>l, Seen DEF Prepare, LoneProvision, ProvisionKinds
<1>2. CASE SweepInstance(o)
  BY <1>2, <1>y, <1>l, Seen DEF SweepInstance, LoneProvision, ProvisionKinds, SweepGet, SweepRemove, Stale
<1>3. CASE SweepSidecar(o)  BY <1>3, <1>y, <1>l, Seen DEF SweepSidecar, LoneProvision,
    ProvisionKinds, SweepGet, SweepRemove
<1>4. CASE CreateInstance(o)  BY <1>4, <1>y, <1>l, Seen DEF CreateInstance, LoneProvision, ProvisionKinds
<1>5. CASE ConnectInstance(o)  BY <1>5, <1>y, <1>l, Seen DEF ConnectInstance, LoneProvision, ProvisionKinds
<1>6. CASE StartInstance(o)  BY <1>6, <1>y, <1>l, Seen DEF StartInstance, LoneProvision,
    ProvisionKinds, NotStarted, Startable
<1>7. CASE UndoInstance(o)  BY <1>7, <1>y, <1>l, Seen DEF UndoInstance, LoneProvision, ProvisionKinds
<1>8. CASE NoSidecar(o)
  <2>0. ctr[o] \in Containers /\ name[ctr[o]] = "saas" /\ status[ctr[o]] = "running"
    BY <1>8, <1>y, <1>l DEF NoSidecar, LoneProvision
  <2>1. /\ result'[o] = "ok" /\ UNCHANGED attached
        /\ name'[ctr[o]] = "saas" /\ status'[ctr[o]] = "running"
    BY <1>8, <2>0, <1>y, <1>l DEF NoSidecar, DockerOK
  <2>2. kind[o] = "provision" => ctr[o] \in attached
    BY <1>8, <1>l DEF NoSidecar, LoneProvision
  <2> QED  BY <2>0, <2>1, <2>2 DEF Named
<1>9. CASE SpawnSidecar(o)
  <2>0. ctr[o] \in Containers /\ name[ctr[o]] = "saas" /\ status[ctr[o]] = "running"
    BY <1>9, <1>y, <1>l DEF SpawnSidecar, LoneProvision
  <2>1. /\ result'[o] = "ok" /\ UNCHANGED attached
        /\ name'[ctr[o]] = "saas" /\ status'[ctr[o]] = "running"
    BY <1>9, <2>0, <1>y, <1>l DEF SpawnSidecar, DockerOK
  <2>2. kind[o] = "provision" => ctr[o] \in attached
    BY <1>9, <1>l DEF SpawnSidecar, LoneProvision
  <2> QED  BY <2>0, <2>1, <2>2 DEF Named
<1> QED
  BY <1>1, <1>2, <1>3, <1>4, <1>5, <1>6, <1>7, <1>8, <1>9, ProvisionCalls, <1>l DEF ProvisionCall

LEMMA RemoveSucceeds ==
  ASSUME TenantInv, NEW o \in Ops, Step(o), kind[o] = "remove",
         pc[o] = "rmVol" => ~network, result[o] = "none", result'[o] = "ok"
  PROVE  Named("pg")' \cup Named("pg_old")' = {} /\ ~network'
<1>y. Known(o) /\ DockerOK  BY StepKnown DEF Known
<1>l. /\ kind[o] = "remove" /\ (pc[o] = "rmVol" => ~network)
      /\ result[o] = "none" /\ result'[o] = "ok"
  OBVIOUS
<1> USE DEF Call, Ask, At, GoTo, End, docker, Known, Free, Course, Present, Up, ProvisionKinds,
    InstanceSteps
<1>1. CASE NetGet(o)  BY <1>1, <1>y, <1>l, Seen DEF NetGet, AfterNetwork
<1>2. CASE NetCreate(o)  BY <1>2, <1>y, <1>l, Seen DEF NetCreate, AfterNetwork
<1>3. CASE Pull(o)  BY <1>3, <1>y, <1>l, Seen DEF Pull
<1>4. CASE OldGet(o)  BY <1>4, <1>y, <1>l, Seen DEF OldGet, Look
<1>5. CASE OldRemove(o)  BY <1>5, <1>y, <1>l, Seen DEF OldRemove
<1>6. CASE CurGet(o)  BY <1>6, <1>y, <1>l, Seen DEF CurGet
<1>7. CASE StopCurrent(o)  BY <1>7, <1>y, <1>l, Seen DEF StopCurrent, SetAside
<1>8. CASE RenameCurrent(o)  BY <1>8, <1>y, <1>l, Seen DEF RenameCurrent
<1>9. CASE GetOrCreate(o)  BY <1>9, <1>y, <1>l, Seen DEF GetOrCreate, Failed
<1>10. CASE CreateDb(o)  BY <1>10, <1>y, <1>l, Seen DEF CreateDb, Failed
<1>11. CASE StartAndWait(o)
  BY <1>11, <1>y, <1>l, Seen DEF StartAndWait, StartDb, Failed, Startable
<1>12. CASE WaitReady(o)  BY <1>12, <1>y, <1>l, Seen DEF WaitReady, Ready, Failed
<1>13. CASE Commit(o)  BY <1>13, <1>y, <1>l, Seen DEF Commit
<1>14. CASE PutBackGet(o)  BY <1>14, <1>y, <1>l, Seen DEF PutBackGet, Look
<1>15. CASE PutBackRemove(o)  BY <1>15, <1>y, <1>l, Seen DEF PutBackRemove
<1>16. CASE PutBackRename(o)  BY <1>16, <1>y, <1>l, Seen DEF PutBackRename, AfterPutBack
<1>17. CASE PutBackStart(o)  BY <1>17, <1>y, <1>l, Seen DEF PutBackStart, Startable
<1>18. CASE StartGet(o)  BY <1>18, <1>y, <1>l, Seen DEF StartGet, Look
<1>19. CASE StopGet(o)  BY <1>19, <1>y, <1>l, Seen DEF StopGet, Look
<1>20. CASE StopDb(o)  BY <1>20, <1>y, <1>l, Seen DEF StopDb
<1>21. CASE RemoveGet(o)  BY <1>21, <1>y, <1>l, Seen DEF RemoveGet, Look
<1>22. CASE RemoveDb(o)  BY <1>22, <1>y, <1>l, Seen DEF RemoveDb
<1>23. CASE DisconnectAll(o)  BY <1>23, <1>y, <1>l, Seen DEF DisconnectAll
<1>24. CASE RemoveNetwork(o)  BY <1>24, <1>y, <1>l, Seen DEF RemoveNetwork
<1>25. CASE RemoveVolumes(o)
  <2>1. UNCHANGED docker /\ VolumesFree /\ pc[o] = "rmVol"
    BY <1>25, <1>y, <1>l DEF RemoveVolumes, VolumesBusy
  <2> QED  BY <2>1, <1>l DEF VolumesFree, DbNames, Named
<1>26. CASE Prepare(o)  BY <1>26, <1>y, <1>l, Seen DEF Prepare
<1>27. CASE SweepInstance(o)
  BY <1>27, <1>y, <1>l, Seen DEF SweepInstance, SweepGet, SweepRemove, Stale
<1>28. CASE SweepSidecar(o)  BY <1>28, <1>y, <1>l, Seen DEF SweepSidecar, SweepGet, SweepRemove
<1>29. CASE CreateInstance(o)  BY <1>29, <1>y, <1>l, Seen DEF CreateInstance
<1>30. CASE ConnectInstance(o)  BY <1>30, <1>y, <1>l, Seen DEF ConnectInstance
<1>31. CASE StartInstance(o)  BY <1>31, <1>y, <1>l, Seen DEF StartInstance, NotStarted, Startable
<1>32. CASE UndoInstance(o)  BY <1>32, <1>y, <1>l, Seen DEF UndoInstance
<1>33. CASE NoSidecar(o)  BY <1>33, <1>y, <1>l, Seen DEF NoSidecar
<1>34. CASE SpawnSidecar(o)  BY <1>34, <1>y, <1>l, Seen DEF SpawnSidecar
<1>35. CASE RemoveSidecarById(o)  BY <1>35, <1>y, <1>l, Seen DEF RemoveSidecarById
<1>36. CASE RemoveInstanceById(o)  BY <1>36, <1>y, <1>l, Seen DEF RemoveInstanceById
<1> QED
  BY <1>1, <1>2, <1>3, <1>4, <1>5, <1>6, <1>7, <1>8, <1>9, <1>10, <1>11, <1>12, <1>13, <1>14,
       <1>15, <1>16, <1>17, <1>18, <1>19, <1>20, <1>21, <1>22, <1>23, <1>24, <1>25, <1>26, <1>27,
       <1>28, <1>29, <1>30, <1>31, <1>32, <1>33, <1>34, <1>35, <1>36
  DEF Step, DbStep, InstanceStep

LEMMA ProvisionFails ==
  ASSUME TenantInv, NEW o \in Ops, Step(o), kind[o] = "provision",
         result[o] = "none", result'[o] = "error"
  PROVE  ctr[o] \notin {c \in Containers : Up(c)}'
<1>y. Known(o) /\ DockerOK  BY StepKnown DEF Known
<1>l. /\ kind[o] = "provision" /\ result[o] = "none" /\ result'[o] = "error"
      /\ kind[o] \in ProvisionKinds /\ OwnInstance
  BY DEF ProvisionKinds, TenantInv
<1> USE DEF Call, Ask, At, GoTo, End, docker, Known, Free, Course, Present, Up
<1>1. CASE Prepare(o)  BY <1>1, <1>y, <1>l, Seen DEF Prepare
<1>2. CASE SweepInstance(o)
  BY <1>2, <1>y, <1>l, Seen DEF SweepInstance, SweepGet, SweepRemove, Stale
<1>3. CASE SweepSidecar(o)  BY <1>3, <1>y, <1>l, Seen DEF SweepSidecar, SweepGet, SweepRemove
<1>4. CASE CreateInstance(o)  BY <1>4, <1>y, <1>l, Seen DEF CreateInstance
<1>5. CASE ConnectInstance(o)  BY <1>5, <1>y, <1>l, Seen DEF ConnectInstance
<1>6. CASE StartInstance(o)  BY <1>6, <1>y, <1>l, Seen DEF StartInstance, NotStarted, Startable
<1>7. CASE UndoInstance(o)
  <2>0. pc[o] = "iUndo" /\ ctr[o] \in Containers  BY <1>7, <1>y DEF UndoInstance
  <2>1. CASE Remove(ctr[o])  BY <2>0, <2>1, <1>y, RemoveDoes
  <2>2. CASE UNCHANGED docker /\ ~Present(ctr[o])
    BY <2>0, <2>2, <1>y DEF DockerOK
  <2>3. CASE UNCHANGED docker /\ Fault(o)
    BY <2>0, <2>3, <1>y, <1>l DEF OwnInstance
  <2> QED  BY <1>7, <2>1, <2>2, <2>3 DEF UndoInstance
<1>8. CASE NoSidecar(o)  BY <1>8, <1>y, <1>l, Seen DEF NoSidecar
<1>9. CASE SpawnSidecar(o)  BY <1>9, <1>y, <1>l, Seen DEF SpawnSidecar
<1> QED
  BY <1>1, <1>2, <1>3, <1>4, <1>5, <1>6, <1>7, <1>8, <1>9, ProvisionCalls, <1>l DEF ProvisionCall

-----------------------------------------------------------------------------
(* The theorems. *)

LEMMA InitTenantInv == Init => TenantInv
<1> SUFFICES ASSUME Init PROVE TenantInv  OBVIOUS
<1>y. TenantAssumption  BY TenantAssumption
<1> DEFINE least == {c \in Containers : \A other \in Containers : c <= other}
<1>0. PICK db \in {"none", "running"}, there \in {{}, least} :
        /\ db = "none" => there = {}
        /\ name = [c \in Containers |-> IF c \in there THEN "pg" ELSE "none"]
        /\ status = [c \in Containers |-> IF c \in there THEN db ELSE "none"]
        /\ attached = there /\ network = (there # {})
  BY DEF Init
<1>1. /\ kind = [o \in Ops |-> "ensure"] /\ pc = [o \in Ops |-> "idle"]
      /\ ctr = [o \in Ops |-> NoContainer] /\ prev = [o \in Ops |-> NoContainer]
      /\ result = [o \in Ops |-> "none"]
      /\ faulty = {} /\ alone = {} /\ wasUp = {} /\ latest = NoOp /\ crossed = FALSE
  BY DEF Init
<1>l. there \subseteq Containers /\ \A c, d \in there : c = d
  <2>1. there \subseteq least  BY <1>0
  <2>2. ASSUME NEW c \in least, NEW d \in least PROVE c = d
    <3>1. c \in Nat /\ d \in Nat  BY <1>y DEF TenantAssumption
    <3>2. c <= d /\ d <= c  OBVIOUS
    <3> QED  BY <3>1, <3>2
  <2> QED  BY <2>1, <2>2
<1> HIDE DEF least
<1>2. DockerOK  BY <1>0, <1>l DEF DockerOK, DbNames
<1>3. OpsOK  BY <1>1 DEF OpsOK, NoHandle, Kinds, DbKinds
<1>4. OnCourse /\ Begun /\ OwnInstance /\ Alone
  BY <1>1 DEF OnCourse, Begun, OwnInstance, Alone, Provisioning
<1>5. Holds  BY <1>1 DEF Holds, Names, DbSteps
<1>6. Uncrossed  BY <1>0, <1>1 DEF Uncrossed, Apart, SetAsideIsDown, Active
<1> QED  BY <1>2, <1>3, <1>4, <1>5, <1>6 DEF TenantInv

(* The invariant the theorems below are read from. *)
THEOREM TenantInvariant == Spec => []TenantInv
<1>1. TenantInv /\ [Next]_tenantVars => TenantInv'
  BY DockerStep, OpsStep, CourseStep, HoldsStep, UncrossedStep, OwnInstanceStep, AloneStep
  DEF TenantInv
<1> QED  BY InitTenantInv, <1>1, PTL DEF Spec

LEMMA AtMostOne ==
  ASSUME NEW S, \A x, y \in S : x = y
  PROVE  Cardinality(S) <= 1
<1>1. CASE S = {}  BY <1>1, FS_EmptySet
<1>2. ASSUME NEW x \in S PROVE Cardinality(S) <= 1
  <2>1. S = {x}  BY <1>2
  <2>2. Cardinality({x}) = 1  BY FS_Singleton
  <2> QED  BY <2>1, <2>2
<1> QED  BY <1>1, <1>2

(* Every variable has its type, no two containers have one name, and a call  *)
(* that works on a container has one in hand.  (tenantdb.py 70-288;          *)
(* instance.py 230-420) *)
THEOREM TenantTypes == Spec => []TypeOK
<1>1. ASSUME TenantInv PROVE TypeOK
  <2>1. DockerOK /\ OpsOK /\ OnCourse  BY <1>1 DEF TenantInv
  <2>2. \A n \in DbNames \cup {"saas", "saas_cf"} : Cardinality(Named(n)) <= 1
    <3>1. ASSUME NEW n \in DbNames \cup {"saas", "saas_cf"}
          PROVE  \A c, d \in Named(n) : c = d
      BY <2>1, <3>1 DEF DockerOK, Named, DbNames
    <3> QED  BY <3>1, AtMostOne
  <2>3. HandlesHeld  BY <2>1 DEF OnCourse, Course, HandlesHeld
  <2>4. \A c \in attached : Present(c)
    BY <2>1, TenantAssumption DEF DockerOK, Present, TenantAssumption
  <2> QED  BY <2>1, <2>2, <2>3, <2>4 DEF TypeOK, DockerOK, OpsOK, NoHandle
<1> QED  BY TenantInvariant, <1>1, PTL

(* However many commands overlap, whichever calls fail and wherever the      *)
(* agent dies, two servers never run on the tenant's data, unless a recreate *)
(* overlaps a command that starts Postgres.  (tenantdb.py 144-166)           *)
THEOREM TenantOneServer == Spec => []OneServer
<1>1. ASSUME TenantInv, ~crossed
      PROVE  Cardinality({c \in Containers : name[c] \in DbNames /\ Up(c)}) <= 1
  <2>1. \A c, d \in {e \in Containers : name[e] \in DbNames /\ Up(e)} : c = d
    BY <1>1 DEF TenantInv, Uncrossed, SetAsideIsDown, DockerOK, DbNames
  <2> QED  BY <2>1, AtMostOne
<1>2. TenantInv => OneServer  BY <1>1 DEF OneServer
<1> QED  BY TenantInvariant, <1>2, PTL

(* A recreate that fails puts the old container back: with one failing call, *)
(* not that of the stop or the rename, Postgres runs afterwards if it ran    *)
(* before.  (tenantdb.py 119-166) *)
THEOREM TenantRecreateRestores == Spec => FailedRecreateServes
<1>1. ASSUME TenantInv, [Next]_tenantVars, NEW o \in alone \cap wasUp,
             kind[o] = "recreate", Ends(o, "error"), pc[o] \notin {"stop", "rename"}
      PROVE  DbUp'
  <2>1. o \in Ops /\ result[o] = "none" /\ result'[o] = "error"
    BY <1>1 DEF TenantInv, OpsOK, Ends
  <2>2. Step(o) /\ pc[o] # "idle"  BY <1>1, <2>1, EndsByStep
  <2>3. LoneEnsure(o) /\ LoneRecreate(o)  BY <1>1, <2>2 DEF TenantInv, Alone, Lone
  <2> QED  BY <1>1, <2>1, <2>2, <2>3, RecreateFails
<1>2. TenantInv /\ [Next]_tenantVars =>
        [\A o \in alone \cap wasUp :
           kind[o] = "recreate" /\ Ends(o, "error") /\ pc[o] \notin {"stop", "rename"} => DbUp']_tenantVars
  BY <1>1
<1> QED  BY TenantInvariant, <1>2, PTL DEF Spec, FailedRecreateServes

(* An ensure or a provision without a failure and without company succeeds,  *)
(* whatever was left behind.  (tenantdb.py 79-81; instance.py 256-258)       *)
THEOREM TenantRetrySucceeds == Spec => RetrySucceeds
<1>1. ASSUME TenantInv, [Next]_tenantVars, NEW o \in alone \ faulty', EndsByItself(o)
      PROVE  /\ kind[o] \in {"ensure", "recreate"} => Ends(o, "ok") /\ DbUp'
             /\ kind[o] \in ProvisionKinds /\ (kind[o] = "provision" => network) =>
                  /\ Ends(o, "ok")
                  /\ \E c \in Named("saas")' : Up(c)' /\ (kind[o] = "provision" => c \in attached')
  <2>1. o \in Ops /\ result[o] = "none" /\ result'[o] \in {"ok", "error"}
    BY <1>1 DEF TenantInv, OpsOK, EndsByItself, Ends
  <2>2. Step(o) /\ pc[o] # "idle"  BY <1>1, <2>1, EndsByStep
  <2>3. o \notin faulty  BY <1>1, <2>1, <2>2, StepFaults
  <2>4. /\ kind[o] \in {"ensure", "recreate"} => LoneEnsure(o)
        /\ kind[o] \in ProvisionKinds => LoneProvision(o)
    BY <1>1, <2>2, <2>3 DEF TenantInv, Alone, Lone
  <2>5. kind[o] \in {"ensure", "recreate"} => Ends(o, "ok") /\ DbUp'
    BY <1>1, <2>1, <2>2, <2>4, EnsureSucceeds DEF Ends
  <2>6. kind[o] \in ProvisionKinds /\ (kind[o] = "provision" => network) =>
          /\ Ends(o, "ok")
          /\ \E c \in Named("saas")' : Up(c)' /\ (kind[o] = "provision" => c \in attached')
    BY <1>1, <2>1, <2>2, <2>4, ProvisionSucceeds DEF Ends
  <2> QED  BY <2>5, <2>6
<1>2. TenantInv /\ [Next]_tenantVars =>
        [\A o \in alone \ faulty' :
           EndsByItself(o) =>
             /\ kind[o] \in {"ensure", "recreate"} => Ends(o, "ok") /\ DbUp'
             /\ kind[o] \in ProvisionKinds /\ (kind[o] = "provision" => network) =>
                  /\ Ends(o, "ok")
                  /\ \E c \in Named("saas")' : Up(c)' /\ (kind[o] = "provision" => c \in attached')
        ]_tenantVars
  BY <1>1
<1> QED  BY TenantInvariant, <1>2, PTL DEF Spec, RetrySucceeds

(* A remove without company that reports success leaves no container of the  *)
(* tenant's Postgres and no network.  (tenantdb.py 249-273) *)
THEOREM TenantRemovedIsGone == Spec => RemovedIsGone
<1>1. ASSUME TenantInv, [Next]_tenantVars, NEW o \in alone, kind[o] = "remove", Ends(o, "ok")
      PROVE  Named("pg")' \cup Named("pg_old")' = {} /\ ~network'
  <2>1. o \in Ops /\ result[o] = "none" /\ result'[o] = "ok"
    BY <1>1 DEF TenantInv, OpsOK, Ends
  <2>2. Step(o) /\ pc[o] # "idle"  BY <1>1, <2>1, EndsByStep
  <2>3. pc[o] = "rmVol" => ~network  BY <1>1, <2>2 DEF TenantInv, Alone, Lone
  <2> QED  BY <1>1, <2>1, <2>2, <2>3, RemoveSucceeds
<1>2. TenantInv /\ [Next]_tenantVars =>
        [\A o \in alone :
           kind[o] = "remove" /\ Ends(o, "ok") =>
             Named("pg")' \cup Named("pg_old")' = {} /\ ~network']_tenantVars
  BY <1>1
<1> QED  BY TenantInvariant, <1>2, PTL DEF Spec, RemovedIsGone

(* A provision on the private network that fails leaves no instance of its   *)
(* own running, whatever runs beside it.  (instance.py 278-284) *)
THEOREM TenantFailedInstanceIsDown == Spec => FailedInstanceIsDown
<1>1. ASSUME TenantInv, [Next]_tenantVars, NEW o \in Ops, kind[o] = "provision", Ends(o, "error")
      PROVE  ctr[o] \notin {c \in Containers : Up(c)}'
  <2>1. result[o] = "none" /\ result'[o] = "error"  BY <1>1 DEF Ends
  <2>2. Step(o)  BY <1>1, <2>1, EndsByStep
  <2> QED  BY <1>1, <2>1, <2>2, ProvisionFails
<1>2. TenantInv /\ [Next]_tenantVars =>
        [\A o \in Ops :
           kind[o] = "provision" /\ Ends(o, "error") =>
             ctr[o] \notin {c \in Containers : Up(c)}']_tenantVars
  BY <1>1
<1> QED  BY TenantInvariant, <1>2, PTL DEF Spec, FailedInstanceIsDown
=============================================================================
