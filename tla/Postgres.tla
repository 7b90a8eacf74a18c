------------------------------ MODULE Postgres ------------------------------
(***************************************************************************)
(* The server's own Postgres container (agent/commands/postgres.py):       *)
(* bootstrap, enable_pitr and retune, one at a time under a non-blocking   *)
(* lock, against a Docker daemon whose calls may fail.  An operation is a  *)
(* sequence of Docker calls, each a step; between two of them the agent    *)
(* may die and Docker may restart a container.                             *)
(*                                                                         *)
(* A fault of an operation is a call that raises, before or after it took  *)
(* effect (a client that timed out), a deadline that has passed, or a      *)
(* replacement that does not get ready.                                    *)
(***************************************************************************)
EXTENDS Naturals, FiniteSets

CONSTANTS
  Ops,         \* requests
  NoOp,
  Containers,  \* bound: container ids Docker may hand out
  NoContainer,
  MaxFaults    \* bound: faults in one operation

ASSUME PostgresAssumption ==
  /\ NoOp \notin Ops /\ NoContainer \notin Containers
  /\ MaxFaults \in Nat

VARIABLES
  name,         \* [Containers -> its name: unused, berth_postgres, rollback, removed]
  status,       \* [Containers -> Docker's status]
  wal,          \* containers whose command has archive_mode=on
  served,       \* containers that were accepted as the server's Postgres
  holder,       \* the operation that holds _mutation_lock
  kind,         \* its method
  pc,           \* the Docker call it makes next
  existing,     \* the container found under the name
  wasRunning,   \* existing.status == "running" at the reload
  archiving,    \* wal_archiving of the replacement
  replacement,  \* the container it created, or found when rolling back
  faults,       \* faults so far
  result,       \* [Ops -> how each request ended]
  promised,     \* WAL archiving has been enabled
  upBefore,     \* Postgres was running when the operation began
  flapped,      \* containers whose process ended on its own
  late          \* <<o, call>>: o's stop or rename of the old container took effect and raised

docker == <<name, status, wal>>
locals == <<existing, wasRunning, archiving, replacement>>
history == <<served, promised, upBefore, flapped, late>>
vars == <<docker, holder, kind, pc, locals, faults, result, history>>

Kinds == {"bootstrap", "enable_pitr", "retune"}
Steps == {"idle", "get", "reload", "start", "image", "stop", "rename", "undo", "run", "wait",
          "commit", "remove", "discard", "rbGet", "rbRemove", "rbRename", "rbStart"}

TypeOK ==
  /\ name \in [Containers -> {"unused", "main", "rollback", "removed"}]
  /\ status \in [Containers -> {"none", "created", "running", "restarting", "exited"}]
  /\ wal \subseteq Containers /\ served \subseteq Containers
  /\ holder \in Ops \cup {NoOp} /\ kind \in Kinds /\ pc \in Steps
  /\ (holder = NoOp) <=> (pc = "idle")
  /\ existing \in Containers \cup {NoContainer}
  /\ replacement \in Containers \cup {NoContainer}
  /\ wasRunning \in BOOLEAN /\ archiving \in BOOLEAN
  /\ faults \in 0..MaxFaults
  /\ result \in [Ops -> {"none", "busy", "ok", "error", "crashed"}]
  /\ promised \in BOOLEAN /\ upBefore \in BOOLEAN
  /\ flapped \subseteq Containers /\ late \subseteq Ops \X {"stop", "rename"}

Present(c) == name[c] \in {"main", "rollback"}
Main == {c \in Containers : name[c] = "main"}
Running == {c \in Containers : status[c] = "running"}

(* A server without the container, or with one, running or stopped, with or *)
(* without WAL archiving.                                                    *)
Init ==
  /\ \E present \in SUBSET Containers, up \in BOOLEAN, w \in BOOLEAN :
       /\ \A c, d \in present : c = d
       /\ name = [c \in Containers |-> IF c \in present THEN "main" ELSE "unused"]
       /\ status = [c \in Containers |->
                      IF c \notin present THEN "none" ELSE IF up THEN "running" ELSE "exited"]
       /\ wal = IF w THEN present ELSE {}
       /\ served = present
       /\ promised = (wal # {})
  /\ holder = NoOp /\ kind = "bootstrap" /\ pc = "idle"
  /\ existing = NoContainer /\ replacement = NoContainer
  /\ wasRunning = FALSE /\ archiving = FALSE
  /\ faults = 0 /\ upBefore = FALSE /\ flapped = {} /\ late = {}
  /\ result = [o \in Ops |-> "none"]

-----------------------------------------------------------------------------
(* The frame of an operation. *)

At(step) == holder # NoOp /\ pc = step
GoTo(step) == pc' = step /\ UNCHANGED <<holder, result, promised>>

End_Locked(how) ==       \* mutant: no release in a finally
  /\ pc' = "idle" /\ UNCHANGED holder
  /\ result' = [result EXCEPT ![holder] = how]
  /\ promised' = (promised \/ (how = "ok" /\ kind = "enable_pitr"))
End(how) ==
  /\ pc' = "idle" /\ holder' = NoOp
  /\ result' = [result EXCEPT ![holder] = how]
  /\ promised' = (promised \/ (how = "ok" /\ kind = "enable_pitr"))

NoFault == faults' = faults
Fault == faults < MaxFaults /\ faults' = faults + 1

SetStatus(c, s) == status' = [status EXCEPT ![c] = s] /\ UNCHANGED <<name, wal>>
Rename(c, n) == name' = [name EXCEPT ![c] = n] /\ UNCHANGED <<status, wal>>
Remove(c) ==
  /\ name' = [name EXCEPT ![c] = "removed"] /\ status' = [status EXCEPT ![c] = "none"]
  /\ UNCHANGED wal

\* a Docker call with effect A that goes on to B when it returns and to C
\* when it raises, before A or after it
Call(A, B, C) ==
  \/ A /\ B /\ NoFault
  \/ Fault /\ C /\ (A \/ UNCHANGED docker)

Recorded(call) ==
  late' = IF faults' # faults /\ docker' # docker THEN late \cup {<<holder, call>>} ELSE late

Request(o, k) ==
  /\ result[o] = "none" /\ o # holder
  /\ IF holder # NoOp
       THEN /\ result' = [result EXCEPT ![o] = "busy"]
            /\ UNCHANGED <<holder, kind, pc, faults, upBefore>>
       ELSE /\ holder' = o /\ kind' = k /\ pc' = "get" /\ faults' = 0
            /\ upBefore' = (Main \cap Running # {})
            /\ UNCHANGED result
  /\ UNCHANGED <<docker, locals, served, promised, flapped, late>>

-----------------------------------------------------------------------------
(* Looking at what is there. *)

\* _get_existing: any error reads as "no such container"
Found == IF Main = {} THEN NoContainer ELSE CHOOSE c \in Main : TRUE

Get ==
  /\ At("get")
  /\ \/ existing' = Found /\ NoFault
     \/ existing' = NoContainer /\ Fault
  /\ archiving' = (kind = "enable_pitr")
  /\ GoTo(IF existing' = NoContainer THEN "run" ELSE "reload")
  /\ UNCHANGED <<docker, kind, wasRunning, replacement, served, upBefore, flapped, late>>

\* was_running
IsUp(c) == status[c] = "running"

\* wal_archiving of the replacement: retune takes it from the old command
Wanted_Fresh(c) == kind = "enable_pitr"     \* mutant: not looked up
Wanted(c) == kind = "enable_pitr" \/ c \in wal

Reload ==
  /\ At("reload")
  /\ wasRunning' = IsUp(existing) /\ archiving' = Wanted(existing)
  /\ \/ Fault /\ End("error")
     \/ /\ NoFault
        /\ IF kind = "bootstrap"
             THEN IF status[existing] = "running" THEN End("ok") ELSE GoTo("start")
             ELSE IF kind = "enable_pitr" /\ existing \in wal THEN End("ok") ELSE GoTo("image")
  /\ UNCHANGED <<docker, kind, existing, replacement, served, upBefore, flapped, late>>

StartExisting ==
  /\ At("start")
  /\ Call(SetStatus(existing, "running"), End("ok"), End("error"))
  /\ UNCHANGED <<kind, locals, served, upBefore, flapped, late>>

-----------------------------------------------------------------------------
(* Setting the old container aside. *)

\* _ensure_image_available, and the first look at the deadline
AfterImage_NoStop == "rename"        \* mutant: renames without stopping
AfterImage == IF wasRunning THEN "stop" ELSE "rename"

Image ==
  /\ At("image")
  /\ \/ NoFault /\ GoTo(AfterImage)
     \/ Fault /\ End("error")
  /\ UNCHANGED <<docker, kind, locals, served, upBefore, flapped, late>>

StopExisting ==
  /\ At("stop")
  /\ Call(SetStatus(existing, "exited"), GoTo("rename"), End("error")) /\ Recorded("stop")
  /\ UNCHANGED <<kind, locals, served, upBefore, flapped>>

OnRenameFailure == IF wasRunning THEN GoTo("undo") ELSE End("error")

RenameExisting ==
  /\ At("rename")
  /\ Call(Rename(existing, "rollback"), GoTo("run"), OnRenameFailure) /\ Recorded("rename")
  /\ UNCHANGED <<kind, locals, served, upBefore, flapped>>

\* the start after a failed rename: its own failure is suppressed
Undo ==
  /\ At("undo")
  /\ Call(SetStatus(existing, "running"), End("error"), End("error"))
  /\ UNCHANGED <<kind, locals, served, upBefore, flapped, late>>

-----------------------------------------------------------------------------
(* The new container. *)

OnRunFailure == IF existing = NoContainer THEN End("error") ELSE GoTo("rbGet")

\* containers.run creates a container, whose name must be free, and starts it
Created(c, st) ==
  /\ name[c] = "unused"
  /\ name' = [name EXCEPT ![c] = "main"] /\ status' = [status EXCEPT ![c] = st]
  /\ wal' = IF archiving THEN wal \cup {c} ELSE wal

RunContainer ==
  /\ At("run")
  /\ \/ /\ Main = {} /\ NoFault
        /\ \E c \in Containers :
             /\ Created(c, "running") /\ replacement' = c
             /\ IF kind = "bootstrap"
                  THEN End("ok") /\ served' = served \cup {c}
                  ELSE GoTo("wait") /\ UNCHANGED served
     \/ \* raises: it did nothing, created the container, or started it too
        /\ IF Main = {} THEN Fault ELSE NoFault
        /\ OnRunFailure
        /\ \/ UNCHANGED docker
           \/ Main = {} /\ \E c \in Containers, st \in {"created", "running"} : Created(c, st)
        /\ UNCHANGED <<replacement, served>>
  /\ UNCHANGED <<kind, existing, wasRunning, archiving, upBefore, flapped, late>>

\* _wait_ready_before: pg_isready answers, or the container is not running,
\* or the time is up
Wait ==
  /\ At("wait")
  /\ \/ /\ status[replacement] = "running" /\ NoFault
        /\ IF existing = NoContainer
             THEN served' = served \cup {replacement} /\ End("ok")
             ELSE UNCHANGED served /\ GoTo("commit")
     \/ /\ IF status[replacement] = "running" THEN Fault ELSE NoFault
        /\ GoTo(IF existing = NoContainer THEN "discard" ELSE "rbGet")
        /\ UNCHANGED served
  /\ UNCHANGED <<docker, kind, locals, upBefore, flapped, late>>

\* is there time enough left to finish?
Commit ==
  /\ At("commit")
  /\ \/ NoFault /\ served' = served \cup {replacement} /\ GoTo("remove")
     \/ Fault /\ UNCHANGED served /\ GoTo("rbGet")
  /\ UNCHANGED <<docker, kind, locals, upBefore, flapped, late>>

\* remove() without force: a running container stays, with a warning
RemoveExisting ==
  /\ At("remove")
  /\ IF status[existing] \in {"running", "restarting"}
       THEN UNCHANGED docker /\ NoFault /\ End("ok")
       ELSE Call(Remove(existing), End("ok"), End("ok"))
  /\ UNCHANGED <<kind, locals, served, upBefore, flapped, late>>

\* a new container that never got ready, with no old one to return to
Discard ==
  /\ At("discard")
  /\ Call(Remove(replacement), End("error"), End("error"))
  /\ UNCHANGED <<kind, locals, served, upBefore, flapped, late>>

-----------------------------------------------------------------------------
(* Rolling back. *)

RollbackGet ==
  /\ At("rbGet")
  /\ \/ replacement' = Found /\ NoFault
     \/ replacement' = NoContainer /\ Fault
  /\ GoTo(IF replacement' = NoContainer THEN "rbRename" ELSE "rbRemove")
  /\ UNCHANGED <<docker, kind, existing, wasRunning, archiving, served, upBefore, flapped, late>>

Partial_Old(c) == existing         \* mutant: removes the old definition
Partial(c) == c

RollbackRemove ==
  /\ At("rbRemove")
  /\ Call(Remove(Partial(replacement)), GoTo("rbRename"), GoTo("rbRename"))
  /\ UNCHANGED <<kind, locals, served, upBefore, flapped, late>>

AfterRollback_Stopped == End("error")     \* mutant: leaves the old container stopped
AfterRollback == IF wasRunning THEN GoTo("rbStart") ELSE End("error")

RollbackRename ==
  /\ At("rbRename")
  /\ IF Main = {}
       THEN Call(Rename(existing, "main"), AfterRollback, End("error"))
       ELSE UNCHANGED docker /\ NoFault /\ End("error")
  /\ UNCHANGED <<kind, locals, served, upBefore, flapped, late>>

RollbackStart ==
  /\ At("rbStart")
  /\ Call(SetStatus(existing, "running"), End("error"), End("error"))
  /\ UNCHANGED <<kind, locals, served, upBefore, flapped, late>>

-----------------------------------------------------------------------------
(* The world: the agent dies, a process ends, and Docker's restart policy    *)
(* "unless-stopped" brings it back.                                          *)

Crash ==
  /\ holder # NoOp
  /\ End("crashed")
  /\ UNCHANGED <<docker, kind, locals, faults, served, upBefore, flapped, late>>

ProcessExits(c) ==
  /\ status[c] = "running" /\ c \notin flapped     \* bound: once each
  /\ SetStatus(c, "restarting")
  /\ flapped' = flapped \cup {c}
  /\ UNCHANGED <<holder, kind, pc, locals, faults, result, served, promised, upBefore, late>>

PolicyRestarts(c) ==
  /\ status[c] = "restarting"
  /\ SetStatus(c, "running")
  /\ UNCHANGED <<holder, kind, pc, locals, faults, result, history>>

Operation ==
  Get \/ Reload \/ StartExisting \/ Image \/ StopExisting \/ RenameExisting \/ Undo
  \/ RunContainer \/ Wait \/ Commit \/ RemoveExisting \/ Discard
  \/ RollbackGet \/ RollbackRemove \/ RollbackRename \/ RollbackStart

Next ==
  \/ \E o \in Ops, k \in Kinds : Request(o, k)
  \/ Operation
  \/ Crash
  \/ \E c \in Containers : ProcessExits(c) \/ PolicyRestarts(c)

Spec == Init /\ [][Next]_vars

-----------------------------------------------------------------------------
(* Properties. *)

Stable == flapped = {}
OnTime(o, call) == <<o, call>> \notin late
RenamesOnTime == \A o \in Ops : OnTime(o, "rename")

(* Comment at postgres.py 207, "this stops+removes the existing one and      *)
(* recreates it against the SAME data directory": there are never two       *)
(* Postgres servers on the one data directory.                               *)
SingleWriter == Cardinality(Running) <= 1

(* As long as no container's process ends by itself, and no rename of the    *)
(* old container raises although it was done, there is one server at most,   *)
(* whichever other calls fail, before or after their effect, and wherever    *)
(* the agent dies while one container replaces another.                      *)
(* (postgres.py 369-403)                                                     *)
StableSingleWriter == Stable /\ RenamesOnTime => SingleWriter

(* A container that served is removed only once its successor has been       *)
(* accepted: no failure and no crash leaves the server without a definition  *)
(* to return to.  (postgres.py 364, "Keep the old definition until its       *)
(* replacement is ready")                                                    *)
DefinitionKept == served # {} => \E c \in served : Present(c)

AgentDied == \E o \in Ops : result[o] = "crashed"

(* WAL archiving, once enabled, is part of every later berth_postgres, as    *)
(* long as no process ends by itself, neither a container's nor the agent's, *)
(* in the middle of an operation, no rename of the old container raises      *)
(* although it was done, and MaxFaults is 1.  (postgres.py 269-270, 297-299; *)
(* README 172)                                                               *)
WalKept == promised /\ Stable /\ RenamesOnTime /\ ~AgentDied => Main \subseteq wal

LeftRunning(o) ==
  result[o] = "none" /\ result'[o] = "error" /\ upBefore /\ Stable /\ faults' <= 1
    => Main' \cap Running' # {}

(* An operation in which one thing fails leaves Postgres running if it was,  *)
(* unless that thing is its stop or its rename of the old container, done    *)
(* and yet raising.  (postgres.py 371-403; CHANGELOG 261-263, "failures      *)
(* remove the partial replacement, restore the old name, and restart it")    *)
Restored ==
  [][\A o \in Ops : OnTime(o, "stop")' /\ OnTime(o, "rename")' => LeftRunning(o)]_vars

(* An operation that reports success leaves a container under the name, and  *)
(* enable_pitr one that archives.  (postgres.py 173-258, 294-322)            *)
SuccessServes ==
  [][\A o \in Ops :
       result[o] = "none" /\ result'[o] = "ok" =>
         \E c \in Main' : kind = "enable_pitr" => c \in wal']_vars
=============================================================================
