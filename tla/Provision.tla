----------------------------- MODULE Provision -----------------------------
(***************************************************************************)
(* The instance of one tenant (agent/commands/instance.py): provision, on  *)
(* the tenant's private network or not, and deprovision.                   *)
(***************************************************************************)
EXTENDS TenantDocker

\* "provision" has extra_networks, "provisionPlain" has none
ProvisionKinds == {"provision", "provisionPlain"}
InstanceKinds == ProvisionKinds \cup {"deprovision"}

InstanceSteps ==
  {"prepare", "swGet", "swRemove", "cfGet", "cfRemove", "iCreate", "iConnect", "iStart",
   "iUndo", "sidecar", "deCf", "deMain"}

-----------------------------------------------------------------------------
(* Directories, image, ownership, the probe for addons and odoo.conf: what   *)
(* fails of the image, the ownership and the probe is passed over.           *)

Prepare(o) ==
  /\ At(o, "prepare")
  /\ Ask(o, GoTo(o, "swGet"), End(o, "error"))

(* The sweep for stale names: every exception is passed over. *)
SweepGet(o, step, n, found, next) ==
  /\ At(o, step)
  /\ Ask(o, IF Named(n) = {} THEN GoTo(o, next) ELSE GoWith(o, found, Find(n), prev[o]),
         GoTo(o, next))

SweepRemove(o, step, next) ==
  /\ At(o, step)
  /\ LET Continue == GoWith(o, next, NoContainer, NoContainer)
     IN Call(o, Present(ctr[o]), Remove(ctr[o]), Continue, Continue, Continue)

Stale == "saas"
SweepInstance(o) ==
  \/ SweepGet(o, "swGet", Stale, "swRemove", "cfGet") \/ SweepRemove(o, "swRemove", "cfGet")
SweepSidecar(o) ==
  \/ SweepGet(o, "cfGet", "saas_cf", "cfRemove", "iCreate")
  \/ SweepRemove(o, "cfRemove", "iCreate")

-----------------------------------------------------------------------------
(* The container.  Without extra_networks create and start are one call of   *)
(* the library, two of Docker, and nothing is undone.                        *)

CreateInstance(o) ==
  /\ At(o, "iCreate")
  /\ \E c \in Fresh :
       Call(o, Named("saas") = {}, Create(c, "saas") /\ UNCHANGED attached,
            GoWith(o, IF kind[o] = "provision" THEN "iConnect" ELSE "iStart", c, prev[o]),
            End(o, "error"), End(o, "error"))

ConnectInstance(o) ==
  /\ At(o, "iConnect")
  /\ Call(o, network /\ Present(ctr[o]),
          attached' = attached \cup {ctr[o]} /\ UNCHANGED <<name, status, network>>,
          GoTo(o, "iStart"), GoTo(o, "iUndo"), GoTo(o, "iUndo"))

NotStarted_Kept(o) == End(o, "error")   \* mutant: the container stays
NotStarted(o) == IF kind[o] = "provision" THEN GoTo(o, "iUndo") ELSE End(o, "error")

StartInstance(o) ==
  /\ At(o, "iStart")
  /\ Call(o, Startable(ctr[o]), Start(ctr[o]), GoTo(o, "sidecar"), NotStarted(o), NotStarted(o))

UndoInstance(o) ==
  /\ At(o, "iUndo")
  /\ Call(o, Present(ctr[o]), Remove(ctr[o]), End(o, "error"), End(o, "error"), End(o, "error"))

(* The sidecar, with a token: best effort, and its id is part of the answer. *)
NoSidecar(o) == At(o, "sidecar") /\ UNCHANGED docker /\ NoFault
                /\ EndWith(o, "ok", ctr[o], NoContainer)

SpawnSidecar(o) ==
  /\ At(o, "sidecar")
  /\ \E c \in Fresh :
       LET Run == /\ name' = [name EXCEPT ![c] = "saas_cf"]
                  /\ status' = [status EXCEPT ![c] = "running"]
                  /\ UNCHANGED <<network, attached>>
       IN Call(o, Named("saas_cf") = {}, Run, EndWith(o, "ok", ctr[o], c),
               EndWith(o, "ok", ctr[o], NoContainer), EndWith(o, "ok", ctr[o], NoContainer))

-----------------------------------------------------------------------------
(* deprovision: by the ids of an earlier answer, whatever fails. *)

RemoveSidecarById(o) ==
  /\ At(o, "deCf")
  /\ Call(o, Present(prev[o]), Remove(prev[o]),
          GoTo(o, "deMain"), GoTo(o, "deMain"), GoTo(o, "deMain"))

RemoveInstanceById(o) ==
  /\ At(o, "deMain")
  /\ Call(o, Present(ctr[o]), Remove(ctr[o]), End(o, "ok"), End(o, "ok"), End(o, "ok"))

InstanceStep(o) ==
  \/ Prepare(o) \/ SweepInstance(o) \/ SweepSidecar(o) \/ CreateInstance(o) \/ ConnectInstance(o)
  \/ StartInstance(o) \/ UndoInstance(o) \/ NoSidecar(o) \/ SpawnSidecar(o)
  \/ RemoveSidecarById(o) \/ RemoveInstanceById(o)
=============================================================================
