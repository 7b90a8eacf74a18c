------------------------------- MODULE Tenant -------------------------------
(***************************************************************************)
(* The commands for one tenant together: its Postgres (TenantDb) and its   *)
(* instance (Provision) share containers' names, the private network and   *)
(* the pool of threads, and nothing orders two of them.                    *)
(***************************************************************************)
EXTENDS TenantDb, Provision

VARIABLES
  crossed,  \* a recreate has overlapped a command that starts Postgres
  wasUp     \* commands that found Postgres running when they came

tenantVars == <<vars, crossed, wasUp>>

Kinds == DbKinds \cup InstanceKinds

\* a step that works on a container has one in hand
HandlesHeld ==
  \A o \in Ops :
    /\ pc[o] \in {"stop", "rename", "commit", "pbGet", "pbRemove", "pbRename", "pbStart"}
         => prev[o] # NoContainer
    /\ pc[o] \in {"oldRemove", "start", "wait", "pbRemove", "stStop", "rmCtr", "swRemove",
                  "cfRemove", "iConnect", "iStart", "iUndo", "sidecar", "deMain"}
         => ctr[o] # NoContainer

TypeOK ==
  /\ name \in [Containers -> DbNames \cup {"saas", "saas_cf", "none"}]
  /\ status \in [Containers -> {"none", "created", "running", "exited"}]
  /\ \A c \in Containers : name[c] = "none" <=> status[c] = "none"
  /\ \A n \in DbNames \cup {"saas", "saas_cf"} : Cardinality(Named(n)) <= 1
  /\ network \in BOOLEAN
  /\ attached \subseteq Containers /\ \A c \in attached : Present(c)
  /\ kind \in [Ops -> Kinds]
  /\ HandlesHeld
  /\ pc \in [Ops -> DbSteps \cup InstanceSteps \cup {"idle"}]
  /\ ctr \in [Ops -> Containers \cup {NoContainer}]
  /\ prev \in [Ops -> Containers \cup {NoContainer}]
  /\ result \in [Ops -> {"none", "ok", "error", "crashed"}]
  /\ faulty \subseteq Ops /\ alone \subseteq Ops /\ wasUp \subseteq Ops
  /\ latest \in Ops \cup {NoOp}
  /\ crossed \in BOOLEAN

(* The tenant is new, or its Postgres runs. *)
Init ==
  \E db \in {"none", "running"} :
    LET there == IF db = "none" THEN {} ELSE {c \in Containers : \A other \in Containers : c <= other}
    IN /\ name = [c \in Containers |-> IF c \in there THEN "pg" ELSE "none"]
       /\ status = [c \in Containers |-> IF c \in there THEN db ELSE "none"]
       /\ attached = there /\ network = (there # {})
       /\ kind = [o \in Ops |-> "ensure"] /\ pc = [o \in Ops |-> "idle"]
       /\ ctr = [o \in Ops |-> NoContainer] /\ prev = [o \in Ops |-> NoContainer]
       /\ result = [o \in Ops |-> "none"]
       /\ faulty = {} /\ alone = {} /\ wasUp = {} /\ latest = NoOp /\ crossed = FALSE

-----------------------------------------------------------------------------
DbUp == \E c \in Named("pg") : Up(c)
StartsDb(k) == k \in {"ensure", "recreate", "start"}

\* the pair of kinds may end with two containers on one data volume
Crosses(k, l) ==
  StartsDb(k) /\ StartsDb(l) /\ (k = "recreate" \/ l = "recreate")

First(k) == IF k \in DbKinds THEN DbFirst(k) ELSE "prepare"

Begin(o, k, step, c, p) ==
  /\ result[o] = "none" /\ pc[o] = "idle"
  /\ Cardinality(Active) < MaxActive
  /\ kind' = [kind EXCEPT ![o] = k]
  /\ GoWith(o, step, c, p)
  /\ alone' = IF Active = {} THEN alone \cup {o} ELSE alone \ Active
  /\ crossed' = (crossed \/ \E other \in Active : Crosses(k, kind[other]))
  /\ wasUp' = IF DbUp THEN wasUp \cup {o} ELSE wasUp
  /\ latest' = IF k \in InstanceKinds THEN o ELSE latest
  /\ UNCHANGED <<docker, faulty>>

Request(o, k) ==
  /\ k \in DbKinds \cup ProvisionKinds
  /\ Begin(o, k, First(k), NoContainer, NoContainer)

\* deprovision names the containers of an answer
RequestDeprovision(o) ==
  \E p \in Ops :
    /\ result[p] = "ok" /\ kind[p] \in ProvisionKinds
    /\ Begin(o, "deprovision", "deCf", ctr[p], prev[p])

Step(o) == (DbStep(o) \/ InstanceStep(o)) /\ UNCHANGED <<kind, alone, latest, crossed, wasUp>>

(* The agent dies: every command stops where it is. *)
Crash ==
  /\ Active # {} /\ \A o \in Ops : result[o] # "crashed"      \* bound: once
  /\ pc' = [o \in Ops |-> "idle"]
  /\ result' = [o \in Ops |-> IF o \in Active THEN "crashed" ELSE result[o]]
  /\ ctr' = [o \in Ops |-> IF o \in Active THEN NoContainer ELSE ctr[o]]
  /\ prev' = [o \in Ops |-> IF o \in Active THEN NoContainer ELSE prev[o]]
  /\ UNCHANGED <<docker, kind, faulty, alone, latest, crossed, wasUp>>

Next ==
  \/ \E o \in Ops : RequestDeprovision(o) \/ Step(o) \/ \E k \in Kinds : Request(o, k)
  \/ Crash

Spec == Init /\ [][Next]_tenantVars

-----------------------------------------------------------------------------
(* Properties. *)

(* All the containers of a tenant mount one data volume: two servers never   *)
(* run on it, whatever fails and wherever the agent dies, unless a recreate  *)
(* overlaps another command that starts Postgres.  (tenantdb.py 144-166)     *)
OneServer == ~crossed => Cardinality({c \in Containers : name[c] \in DbNames /\ Up(c)}) <= 1

Ends(o, how) == result[o] = "none" /\ result'[o] = how
EndsByItself(o) == Ends(o, "ok") \/ Ends(o, "error")

(* CHANGELOG 30: a recreate puts the old container back when the new one     *)
(* does not start.  With one failure in it Postgres runs afterwards if it    *)
(* ran before - unless it is the stop or the rename of the old container     *)
(* that fails, which nothing undoes.  (tenantdb.py 119-166)                  *)
FailedRecreateServes ==
  [][\A o \in alone \cap wasUp :
       kind[o] = "recreate" /\ Ends(o, "error") /\ pc[o] \notin {"stop", "rename"} => DbUp']_tenantVars

(* Whatever earlier commands, failures and deaths of the agent left behind,  *)
(* an ensure or a provision without a failure and without company succeeds   *)
(* and leaves its container running.  (tenantdb.py 79-81; instance.py        *)
(* 256-258, "Idempotent re-provision")                                       *)
RetrySucceeds ==
  [][\A o \in alone \ faulty' :
       EndsByItself(o) =>
         /\ kind[o] \in {"ensure", "recreate"} => Ends(o, "ok") /\ DbUp'
         /\ kind[o] \in ProvisionKinds /\ (kind[o] = "provision" => network) =>
              /\ Ends(o, "ok")
              /\ \E c \in Named("saas")' : Up(c)' /\ (kind[o] = "provision" => c \in attached')
     ]_tenantVars

(* A remove that reports success leaves no container of the tenant's         *)
(* Postgres, under whichever name, and no network.  (tenantdb.py 249-273)    *)
RemovedIsGone ==
  [][\A o \in alone :
       kind[o] = "remove" /\ Ends(o, "ok") => Named("pg")' \cup Named("pg_old")' = {} /\ ~network']_tenantVars

(* A provision on the private network that fails leaves no instance of its   *)
(* own running, whatever runs beside it.  (instance.py 278-284)              *)
FailedInstanceIsDown ==
  [][\A o \in Ops :
       kind[o] = "provision" /\ Ends(o, "error") => ctr[o] \notin {c \in Containers : Up(c)}']_tenantVars

(* instance.py 256-258: "Idempotent re-provision: a stale container with     *)
(* this name (a prior attempt that got far enough to create it, then         *)
(* failed/timed out)".  The container that the latest request for an         *)
(* instance reported is there.                                               *)
LatestProvisionStands ==
  latest # NoOp /\ kind[latest] \in ProvisionKinds /\ result[latest] = "ok"
    => name[ctr[latest]] = "saas"
=============================================================================
