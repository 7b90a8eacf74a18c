---------------------------- MODULE PostgresProofs ----------------------------
(***************************************************************************)
(* Proofs about the server's Postgres container, for any requests and      *)
(* containers and, where nothing else is said, any number of faults in an  *)
(* operation: there is one server at most, a definition is always left,    *)
(* success is real, one failure is recovered from, and WAL archiving stays *)
(* on.                                                                     *)
(***************************************************************************)
EXTENDS Postgres, FiniteSetTheorems, TLAPS

-----------------------------------------------------------------------------
(* The parts of the inductive invariant. *)

(* What an operation has in hand, by the call it makes next.                 *)
Replacing == existing # NoContainer
InHand ==
  /\ \A c, d \in Main : c = d
  /\ pc \in {"reload", "start", "image", "stop", "rename", "rbStart"} => existing \in Main
  /\ pc = "undo" => Replacing /\ (OnTime(holder, "rename") => existing \in Main)
  /\ pc \in {"wait", "commit", "remove", "discard", "rbRemove"} => replacement \in Main
  /\ pc \in {"commit", "remove", "rbGet", "rbRemove", "rbRename"} => Replacing
  /\ pc \in {"run", "wait", "commit", "remove", "rbGet", "rbRemove", "rbRename"} /\ Replacing =>
       name[existing] = "rollback"
  /\ pc = "run" /\ Replacing => Main = {}
  /\ pc = "discard" => ~Replacing
  /\ pc = "start" => kind = "bootstrap"

(* The request that holds the lock has no result yet.                        *)
Pending == holder # NoOp => result[holder] = "none"

(* Nothing that served is removed before its successor serves.               *)
Kept ==
  /\ \A c \in served : name[c] # "unused"
  /\ pc \in {"wait", "commit", "discard", "rbGet", "rbRemove"} => Main \cap served = {}
  /\ pc = "remove" => replacement \in served
  /\ DefinitionKept

(* The replacement archives if that is asked for, or was so before.          *)
Archives ==
  /\ kind = "enable_pitr" /\ pc \notin {"idle", "get"} => archiving
  /\ pc \in {"wait", "commit", "remove"} /\ archiving => replacement \in wal

(* While no process ends on its own, was_running stays true to Docker and, as *)
(* long as no rename raised although it was done, only berth_postgres runs.   *)
Quiet ==
  Stable =>
    /\ \A c \in Containers :
         status[c] # "restarting" /\ (RenamesOnTime /\ status[c] = "running" => c \in Main)
    /\ pc = "image" => wasRunning = IsUp(existing)
    /\ pc = "rename" => ~IsUp(existing)
    /\ pc \in {"wait", "commit", "remove"} => IsUp(replacement)

(* With one fault at most, an operation that found Postgres running is on a  *)
(* way back to it.                                                           *)
Returns ==
  Stable /\ upBefore /\ pc # "idle" /\ faults <= 1 =>
    /\ pc \notin {"start", "discard"}
    /\ pc = "get" \/ (pc = "run" /\ ~Replacing) => Main \cap Running # {}
    /\ pc \in {"reload", "image", "stop"} => IsUp(existing)
    /\ pc \notin {"get", "reload"} /\ ~(pc = "run" /\ ~Replacing) => wasRunning /\ Replacing
    /\ pc \in {"undo", "rbGet", "rbRemove", "rbRename", "rbStart"} => faults = 1
    /\ pc = "rbRename" => Main = {}

(* With one fault at most in each operation, whatever is berth_postgres, or  *)
(* may be it again, archives once archiving was promised.                    *)
ArchivingKept ==
  /\ Main \subseteq wal
  /\ pc \notin {"run", "rbGet", "rbRemove", "rbRename"} \/ (pc = "run" /\ ~Replacing) => Main # {}
  /\ pc # "discard" /\ (pc = "wait" => Replacing)
  /\ pc \in {"run", "wait", "commit", "remove", "rbGet", "rbRemove", "rbRename"} /\ Replacing =>
       existing \in wal
  /\ pc \in {"image", "stop", "rename"} \/ (pc = "run" /\ Replacing) => archiving
  /\ pc \in {"rbGet", "rbRemove", "rbRename"} => faults = 1
  /\ pc = "rbRename" => Main = {}
KeepsWal ==
  promised /\ Stable /\ RenamesOnTime /\ ~AgentDied /\ MaxFaults <= 1 => ArchivingKept

PostgresInv == TypeOK /\ InHand /\ Pending /\ Kept /\ Archives /\ Quiet /\ Returns /\ KeepsWal

-----------------------------------------------------------------------------
(* Types. *)

LEMMA FoundMain ==
  /\ Main = {} => Found = NoContainer
  /\ Main # {} => Found \in Main
  /\ Found \in Containers \cup {NoContainer}
BY DEF Found, Main

Control ==
  /\ holder \in Ops \cup {NoOp} /\ pc \in Steps
  /\ (holder = NoOp) <=> (pc = "idle")
  /\ result \in [Ops -> {"none", "busy", "ok", "error", "crashed"}]
  /\ promised \in BOOLEAN

DockerType ==
  /\ name \in [Containers -> {"unused", "main", "rollback", "removed"}]
  /\ status \in [Containers -> {"none", "created", "running", "restarting", "exited"}]
  /\ wal \subseteq Containers

LEMMA ControlStep ==
  ASSUME TypeOK, holder # NoOp
  PROVE  /\ \A how \in {"ok", "error", "crashed"} : End(how) => Control'
         /\ \A step \in Steps \ {"idle"} : GoTo(step) => Control'
<1>y. Control /\ holder \in Ops /\ NoOp \notin Ops  BY PostgresAssumption DEF TypeOK, Control
<1>1. ASSUME NEW how \in {"ok", "error", "crashed"}, End(how) PROVE Control'
  <2>1. promised' \in BOOLEAN  BY <1>1, <1>y DEF End, Control
  <2> QED  BY <1>1, <1>y, <2>1 DEF End, Control, Steps
<1>2. ASSUME NEW step \in Steps \ {"idle"}, GoTo(step) PROVE Control'
  BY <1>2, <1>y DEF GoTo, Control
<1> QED  BY <1>1, <1>2

LEMMA DockerStep ==
  ASSUME DockerType, NEW c \in Containers
  PROVE  /\ \A st \in {"running", "restarting", "exited"} : SetStatus(c, st) => DockerType'
         /\ \A n \in {"main", "rollback"} : Rename(c, n) => DockerType'
         /\ Remove(c) => DockerType'
BY DEF DockerType, SetStatus, Rename, Remove

LEMMA TypeStep == PostgresInv /\ [Next]_vars => TypeOK'
<1> SUFFICES ASSUME PostgresInv, [Next]_vars PROVE TypeOK'  OBVIOUS
<1>y. /\ TypeOK /\ InHand /\ PostgresAssumption /\ Control /\ DockerType
      /\ Main \subseteq Containers
  BY PostgresAssumption DEF PostgresInv, TypeOK, Control, DockerType, Main
<1>f. NoFault \/ Fault => faults' \in 0..MaxFaults  BY <1>y DEF NoFault, Fault, TypeOK
<1>s. /\ Steps \ {"idle"} = {"get", "reload", "start", "image", "stop", "rename", "undo", "run",
             "wait", "commit", "remove", "discard", "rbGet", "rbRemove", "rbRename", "rbStart"}
      /\ \A st \in Steps \ {"idle"} : st \in Steps
  BY DEF Steps
\* the types of control, Docker's records, the operation's own variables and the history
<1>t. ASSUME Control', DockerType', NoFault \/ Fault, kind' \in Kinds,
             existing' \in Containers \cup {NoContainer},
             replacement' \in Containers \cup {NoContainer},
             wasRunning' \in BOOLEAN, archiving' \in BOOLEAN, served' \subseteq Containers,
             UNCHANGED <<upBefore, flapped>>, late' \subseteq Ops \X {"stop", "rename"}
      PROVE  TypeOK'
  BY <1>y, <1>f, <1>t DEF TypeOK, Control, DockerType
<1>c. ASSUME holder # NoOp PROVE
        /\ \A how \in {"ok", "error", "crashed"} : End(how) => Control'
        /\ \A step \in {"get", "reload", "start", "image", "stop", "rename", "undo", "run",
             "wait", "commit", "remove", "discard", "rbGet", "rbRemove", "rbRename", "rbStart"} :
             GoTo(step) => Control'
  BY <1>y, <1>c, <1>s, ControlStep
<1>d. ASSUME UNCHANGED docker PROVE DockerType'  BY <1>y, <1>d DEF DockerType, docker
<1>l. ASSUME UNCHANGED late \/ (holder \in Ops /\ \E call \in {"stop", "rename"} : Recorded(call))
      PROVE  late' \subseteq Ops \X {"stop", "rename"}
  BY <1>y, <1>l DEF Recorded, TypeOK
<1>o. holder # NoOp => holder \in Ops  BY <1>y DEF TypeOK
<1>h. ASSUME UNCHANGED <<kind, locals, served, upBefore, flapped>>, Control', DockerType',
             NoFault \/ Fault, late' \subseteq Ops \X {"stop", "rename"}
      PROVE  TypeOK'
  BY <1>t, <1>h, <1>y DEF locals, TypeOK
<1>1. CASE Get
  <2>1. Control'  BY <1>1, <1>c DEF Get, At
  <2>2. existing' \in Containers \cup {NoContainer} /\ archiving' \in BOOLEAN
    BY <1>1, FoundMain DEF Get
  <2> QED  BY <1>1, <1>y, <1>d, <1>t, <1>l, <2>1, <2>2 DEF Get, TypeOK
<1>2. CASE Reload
  <2>1. Control'  BY <1>2, <1>c DEF Reload, At
  <2>2. wasRunning' \in BOOLEAN /\ archiving' \in BOOLEAN  BY <1>2 DEF Reload, IsUp, Wanted
  <2> QED  BY <1>2, <1>y, <1>d, <1>t, <1>l, <2>1, <2>2 DEF Reload, TypeOK
<1>3. CASE StartExisting \/ StopExisting \/ RenameExisting \/ Undo
  <2>1. existing \in Containers  BY <1>3, <1>y DEF StartExisting, StopExisting, RenameExisting,
      Undo, At, InHand, Replacing, TypeOK
  <2>2. Control'
    BY <1>3, <1>c DEF StartExisting, StopExisting, RenameExisting, Undo, At, Call, OnRenameFailure
  <2>3. DockerType'
    BY <1>3, <1>d, <1>y, <2>1, DockerStep DEF StartExisting, StopExisting, RenameExisting, Undo, Call
  <2>4. late' \subseteq Ops \X {"stop", "rename"}
    BY <1>3, <1>l, <1>o DEF StartExisting, StopExisting, RenameExisting, Undo, At
  <2> QED  BY <1>3, <1>h, <2>2, <2>3, <2>4 DEF StartExisting, StopExisting, RenameExisting, Undo, Call
<1>4. CASE Image
  <2>1. Control'  BY <1>4, <1>c DEF Image, At, AfterImage
  <2> QED  BY <1>4, <1>d, <1>h, <1>l, <2>1 DEF Image
<1>5. CASE RunContainer
  <2>1. Control'  BY <1>5, <1>c DEF RunContainer, At, OnRunFailure
  <2>2. DockerType'  BY <1>5, <1>y DEF RunContainer, Created, DockerType, docker
  <2>3. replacement' \in Containers \cup {NoContainer} /\ served' \subseteq Containers
    BY <1>5, <1>y DEF RunContainer, TypeOK
  <2> QED  BY <1>5, <1>y, <1>t, <1>l, <2>1, <2>2, <2>3 DEF RunContainer, TypeOK
<1>6. CASE Wait
  <2>1. Control'  BY <1>6, <1>c DEF Wait, At
  <2>2. served' \subseteq Containers  BY <1>6, <1>y DEF Wait, At, InHand, TypeOK
  <2> QED  BY <1>6, <1>y, <1>d, <1>t, <1>l, <2>1, <2>2 DEF Wait, locals, TypeOK
<1>7. CASE Commit
  <2>1. Control'  BY <1>7, <1>c DEF Commit, At
  <2>2. served' \subseteq Containers  BY <1>7, <1>y DEF Commit, At, InHand, TypeOK
  <2> QED  BY <1>7, <1>y, <1>d, <1>t, <1>l, <2>1, <2>2 DEF Commit, locals, TypeOK
<1>8. CASE RemoveExisting
  <2>0. existing \in Containers  BY <1>8, <1>y DEF RemoveExisting, At, InHand, Replacing, TypeOK
  <2>1. Control'  BY <1>8, <1>c DEF RemoveExisting, At, Call
  <2>2. DockerType'  BY <1>8, <1>d, <1>y, <2>0, DockerStep DEF RemoveExisting, Call
  <2> QED  BY <1>8, <1>h, <1>l, <2>1, <2>2 DEF RemoveExisting, Call
<1>9. CASE Discard
  <2>1. Control'  BY <1>9, <1>c DEF Discard, At, Call
  <2>2. DockerType'  BY <1>9, <1>d, <1>y, DockerStep DEF Discard, At, Call, InHand
  <2> QED  BY <1>9, <1>h, <1>l, <2>1, <2>2 DEF Discard, Call
<1>10. CASE RollbackGet
  <2>1. Control'  BY <1>10, <1>c DEF RollbackGet, At
  <2>2. replacement' \in Containers \cup {NoContainer}  BY <1>10, FoundMain DEF RollbackGet
  <2> QED  BY <1>10, <1>y, <1>d, <1>t, <1>l, <2>1, <2>2 DEF RollbackGet, TypeOK
<1>11. CASE RollbackRemove
  <2>1. Control'  BY <1>11, <1>c DEF RollbackRemove, At, Call
  <2>2. DockerType'
    BY <1>11, <1>d, <1>y, DockerStep DEF RollbackRemove, At, Call, Partial, InHand
  <2> QED  BY <1>11, <1>h, <1>l, <2>1, <2>2 DEF RollbackRemove, Call
<1>12. CASE RollbackRename
  <2>0. existing \in Containers  BY <1>12, <1>y DEF RollbackRename, At, InHand, Replacing, TypeOK
  <2>1. Control'  BY <1>12, <1>c DEF RollbackRename, At, Call, AfterRollback
  <2>2. DockerType'  BY <1>12, <1>d, <1>y, <2>0, DockerStep DEF RollbackRename, Call
  <2> QED  BY <1>12, <1>h, <1>l, <2>1, <2>2 DEF RollbackRename, Call
<1>13. CASE RollbackStart
  <2>1. Control'  BY <1>13, <1>c DEF RollbackStart, At, Call
  <2>2. DockerType'  BY <1>13, <1>d, <1>y, DockerStep DEF RollbackStart, At, Call, InHand
  <2> QED  BY <1>13, <1>h, <1>l, <2>1, <2>2 DEF RollbackStart, Call
<1>14. ASSUME NEW o \in Ops, NEW k \in Kinds, Request(o, k) PROVE TypeOK'
  <2>1. Control'  BY <1>14, <1>y DEF Request, Control, Steps
  <2>2. faults' \in 0..MaxFaults  BY <1>14, <1>y DEF Request, TypeOK
  <2>3. kind' \in Kinds /\ upBefore' \in BOOLEAN  BY <1>14, <1>y DEF Request, TypeOK
  <2> QED  BY <1>14, <1>y, <2>1, <2>2, <2>3 DEF Request, TypeOK, Control, docker, locals
<1>15. CASE Crash
  <2>1. Control'  BY <1>15, <1>c DEF Crash
  <2> QED  BY <1>15, <1>d, <1>h, <1>l, <2>1 DEF Crash, NoFault
<1>16. ASSUME NEW c \in Containers, ProcessExits(c) \/ PolicyRestarts(c) PROVE TypeOK'
  <2>1. DockerType'  BY <1>16, <1>y, DockerStep DEF ProcessExits, PolicyRestarts
  <2>2. UNCHANGED <<holder, kind, pc, locals, faults, result, served, promised, upBefore, late>>
    BY <1>16 DEF ProcessExits, PolicyRestarts, history
  <2>3. flapped' \subseteq Containers  BY <1>16, <1>y DEF ProcessExits, PolicyRestarts, history, TypeOK
  <2> QED  BY <1>y, <2>1, <2>2, <2>3 DEF TypeOK, DockerType, locals
<1>17. CASE UNCHANGED vars  BY <1>17, <1>y DEF vars, docker, locals, history, TypeOK
<1> QED
  BY <1>1, <1>2, <1>3, <1>4, <1>5, <1>6, <1>7, <1>8, <1>9, <1>10, <1>11, <1>12, <1>13, <1>14, <1>15,
     <1>16, <1>17
  DEF Next, Operation

-----------------------------------------------------------------------------
(* Calls that raise although they were done. *)

\* the record only grows
LEMMA LateStep == TypeOK /\ [Next]_vars => late \subseteq late' /\ (RenamesOnTime' => RenamesOnTime)
<1> SUFFICES ASSUME TypeOK, [Next]_vars PROVE late \subseteq late'
  BY DEF RenamesOnTime, OnTime
<1>1. CASE StopExisting \/ RenameExisting  BY <1>1 DEF StopExisting, RenameExisting, Recorded
<1>2. CASE Operation /\ ~StopExisting /\ ~RenameExisting
  BY <1>2 DEF Operation, Get, Reload, StartExisting, Image, Undo, RunContainer, Wait, Commit,
      RemoveExisting, Discard, RollbackGet, RollbackRemove, RollbackRename, RollbackStart
<1>3. ASSUME NEW q \in Ops, NEW k \in Kinds, Request(q, k) PROVE late \subseteq late'
  BY <1>3 DEF Request
<1>4. CASE Crash  BY <1>4 DEF Crash
<1>5. ASSUME NEW c \in Containers, ProcessExits(c) \/ PolicyRestarts(c) PROVE late \subseteq late'
  BY <1>5 DEF ProcessExits, PolicyRestarts, history
<1>6. CASE UNCHANGED vars  BY <1>6 DEF vars, history
<1> QED  BY <1>1, <1>2, <1>3, <1>4, <1>5, <1>6 DEF Next

\* a rename that is not recorded was done or raised, not both
LEMMA RenameOnTime ==
  ASSUME TypeOK, InHand, RenameExisting
  PROVE  \/ Rename(existing, "rollback") /\ GoTo("run") /\ NoFault /\ late' = late
         \/ UNCHANGED docker /\ Fault /\ OnRenameFailure /\ late' = late
         \/ /\ Rename(existing, "rollback") /\ Fault /\ OnRenameFailure
            /\ <<holder, "rename">> \in late' /\ holder \in Ops
<1>1. pc = "rename" /\ holder \in Ops /\ existing \in Containers /\ name[existing] = "main"
  BY DEF RenameExisting, At, InHand, Main, TypeOK
<1>2. Recorded("rename")  BY DEF RenameExisting
<1>3. NoFault => late' = late  BY <1>2 DEF Recorded, NoFault
<1>4. UNCHANGED docker => late' = late  BY <1>2 DEF Recorded
<1>5. Rename(existing, "rollback") /\ Fault => <<holder, "rename">> \in late'
  <2> SUFFICES ASSUME Rename(existing, "rollback"), Fault PROVE <<holder, "rename">> \in late'
    OBVIOUS
  <2>1. name'[existing] # name[existing]  BY <1>1 DEF Rename, TypeOK
  <2>2. docker' # docker  BY <2>1 DEF docker
  <2>3. faults' # faults  BY DEF Fault, TypeOK
  <2> QED  BY <1>2, <2>2, <2>3 DEF Recorded
<1> QED  BY <1>1, <1>3, <1>4, <1>5 DEF RenameExisting, Call

\* likewise a stop of a container that runs
LEMMA StopOnTime ==
  ASSUME TypeOK, InHand, StopExisting, IsUp(existing)
  PROVE  \/ SetStatus(existing, "exited") /\ GoTo("rename") /\ NoFault
         \/ UNCHANGED docker /\ Fault /\ End("error")
         \/ Fault /\ End("error") /\ <<holder, "stop">> \in late'
<1>1. pc = "stop" /\ existing \in Containers /\ status[existing] = "running"
  BY DEF StopExisting, At, InHand, Main, IsUp
<1>2. Recorded("stop")  BY DEF StopExisting
<1>3. SetStatus(existing, "exited") /\ Fault => <<holder, "stop">> \in late'
  <2> SUFFICES ASSUME SetStatus(existing, "exited"), Fault PROVE <<holder, "stop">> \in late'
    OBVIOUS
  <2>1. status'[existing] # status[existing]  BY <1>1 DEF SetStatus, TypeOK
  <2>2. docker' # docker  BY <2>1 DEF docker
  <2>3. faults' # faults  BY DEF Fault, TypeOK
  <2> QED  BY <1>2, <2>2, <2>3 DEF Recorded
<1> QED  BY <1>3 DEF StopExisting, Call

-----------------------------------------------------------------------------
(* What an operation has in hand. *)

LEMMA HandStep == PostgresInv /\ [Next]_vars => InHand'
<1> SUFFICES ASSUME PostgresInv, [Next]_vars PROVE InHand'  OBVIOUS
<1>y. TypeOK /\ InHand /\ PostgresAssumption  BY PostgresAssumption DEF PostgresInv
<1> USE DEF At, GoTo, End, NoFault, Fault, Call, SetStatus, Rename, Remove, docker, locals,
    history, Main, Replacing, OnTime, TypeOK, InHand
<1>1. CASE Get  BY <1>1, <1>y, FoundMain DEF Get
<1>2. CASE Reload  BY <1>2, <1>y DEF Reload, Wanted, IsUp
<1>3. CASE StartExisting  BY <1>3, <1>y DEF StartExisting
<1>4. CASE Image  BY <1>4, <1>y DEF Image, AfterImage
<1>5. CASE StopExisting  BY <1>5, <1>y DEF StopExisting
<1>6. CASE RenameExisting
  <2> HIDE DEF TypeOK
  <2>1. CASE Rename(existing, "rollback") /\ GoTo("run") /\ NoFault
    BY <1>6, <1>y, <2>1 DEF RenameExisting, TypeOK
  <2>2. CASE OnRenameFailure /\ UNCHANGED docker
    BY <1>6, <1>y, <2>2 DEF RenameExisting, OnRenameFailure, TypeOK
  <2>3. CASE OnRenameFailure /\ Rename(existing, "rollback") /\ <<holder, "rename">> \in late'
    BY <1>6, <1>y, <2>3 DEF RenameExisting, OnRenameFailure, TypeOK
  <2> QED  BY <1>6, <1>y, <2>1, <2>2, <2>3, RenameOnTime DEF RenameExisting
<1>7. CASE Undo  BY <1>7, <1>y DEF Undo
<1>8. CASE RunContainer  BY <1>8, <1>y DEF RunContainer, Created, OnRunFailure
<1>9. CASE Wait  BY <1>9, <1>y DEF Wait
<1>10. CASE Commit  BY <1>10, <1>y DEF Commit
<1>11. CASE RemoveExisting  BY <1>11, <1>y DEF RemoveExisting
<1>12. CASE Discard  BY <1>12, <1>y DEF Discard
<1>13. CASE RollbackGet  BY <1>13, <1>y, FoundMain DEF RollbackGet
<1>14. CASE RollbackRemove  BY <1>14, <1>y DEF RollbackRemove, Partial
<1>15. CASE RollbackRename  BY <1>15, <1>y DEF RollbackRename, AfterRollback
<1>16. CASE RollbackStart  BY <1>16, <1>y DEF RollbackStart
<1>17. ASSUME NEW q \in Ops, NEW k \in Kinds, Request(q, k) PROVE InHand'
  BY <1>17, <1>y DEF Request
<1>18. CASE Crash
  BY <1>18, <1>y DEF Crash
<1>19. ASSUME NEW c \in Containers, ProcessExits(c) PROVE InHand'
  BY <1>19, <1>y DEF ProcessExits
<1>20. ASSUME NEW c \in Containers, PolicyRestarts(c) PROVE InHand'
  BY <1>20, <1>y DEF PolicyRestarts
<1>21. CASE UNCHANGED vars
  BY <1>21, <1>y DEF vars
<1> QED
  BY <1>1, <1>2, <1>3, <1>4, <1>5, <1>6, <1>7, <1>8, <1>9, <1>10, <1>11, <1>12, <1>13,
     <1>14, <1>15, <1>16, <1>17, <1>18, <1>19, <1>20, <1>21
  DEF Next, Operation

-----------------------------------------------------------------------------
(* Definitions that served. *)

LEMMA KeptStep == PostgresInv /\ [Next]_vars => Kept'
<1> SUFFICES ASSUME PostgresInv, [Next]_vars PROVE Kept'  OBVIOUS
<1>y. TypeOK /\ InHand /\ Kept /\ PostgresAssumption  BY PostgresAssumption DEF PostgresInv
<1> USE DEF At, GoTo, End, NoFault, Fault, Call, SetStatus, Rename, Remove, docker, locals,
    history, Main, Replacing, TypeOK, InHand, Kept, DefinitionKept, Present
<1>1. CASE Get  BY <1>1, <1>y, FoundMain DEF Get
<1>2. CASE Reload  BY <1>2, <1>y DEF Reload, Wanted, IsUp
<1>3. CASE StartExisting  BY <1>3, <1>y DEF StartExisting
<1>4. CASE Image  BY <1>4, <1>y DEF Image, AfterImage
<1>5. CASE StopExisting  BY <1>5, <1>y DEF StopExisting
<1>6. CASE RenameExisting  BY <1>6, <1>y DEF RenameExisting, OnRenameFailure
<1>7. CASE Undo  BY <1>7, <1>y DEF Undo
<1>8. CASE RunContainer  BY <1>8, <1>y DEF RunContainer, Created, OnRunFailure
<1>9. CASE Wait  BY <1>9, <1>y DEF Wait
<1>10. CASE Commit  BY <1>10, <1>y DEF Commit
<1>11. CASE RemoveExisting  BY <1>11, <1>y DEF RemoveExisting
<1>12. CASE Discard  BY <1>12, <1>y DEF Discard
<1>13. CASE RollbackGet  BY <1>13, <1>y, FoundMain DEF RollbackGet
<1>14. CASE RollbackRemove  BY <1>14, <1>y DEF RollbackRemove, Partial
<1>15. CASE RollbackRename  BY <1>15, <1>y DEF RollbackRename, AfterRollback
<1>16. CASE RollbackStart  BY <1>16, <1>y DEF RollbackStart
<1>17. ASSUME NEW q \in Ops, NEW k \in Kinds, Request(q, k) PROVE Kept'
  BY <1>17, <1>y DEF Request
<1>18. CASE Crash
  BY <1>18, <1>y DEF Crash
<1>19. ASSUME NEW c \in Containers, ProcessExits(c) PROVE Kept'
  BY <1>19, <1>y DEF ProcessExits
<1>20. ASSUME NEW c \in Containers, PolicyRestarts(c) PROVE Kept'
  BY <1>20, <1>y DEF PolicyRestarts
<1>21. CASE UNCHANGED vars
  BY <1>21, <1>y DEF vars
<1> QED
  BY <1>1, <1>2, <1>3, <1>4, <1>5, <1>6, <1>7, <1>8, <1>9, <1>10, <1>11, <1>12, <1>13,
     <1>14, <1>15, <1>16, <1>17, <1>18, <1>19, <1>20, <1>21
  DEF Next, Operation

-----------------------------------------------------------------------------
(* WAL archiving of the replacement. *)

LEMMA ArchivesStep == PostgresInv /\ [Next]_vars => Archives'
<1> SUFFICES ASSUME PostgresInv, [Next]_vars PROVE Archives'  OBVIOUS
<1>y. TypeOK /\ InHand /\ Archives /\ PostgresAssumption  BY PostgresAssumption DEF PostgresInv
<1> USE DEF At, GoTo, End, NoFault, Fault, Call, SetStatus, Rename, Remove, docker, locals,
    history, Main, Replacing, TypeOK, InHand, Archives
<1>1. CASE Get  BY <1>1, <1>y, FoundMain DEF Get
<1>2. CASE Reload  BY <1>2, <1>y DEF Reload, Wanted, IsUp
<1>3. CASE StartExisting  BY <1>3, <1>y DEF StartExisting
<1>4. CASE Image  BY <1>4, <1>y DEF Image, AfterImage
<1>5. CASE StopExisting  BY <1>5, <1>y DEF StopExisting
<1>6. CASE RenameExisting  BY <1>6, <1>y DEF RenameExisting, OnRenameFailure
<1>7. CASE Undo  BY <1>7, <1>y DEF Undo
<1>8. CASE RunContainer  BY <1>8, <1>y DEF RunContainer, Created, OnRunFailure
<1>9. CASE Wait  BY <1>9, <1>y DEF Wait
<1>10. CASE Commit  BY <1>10, <1>y DEF Commit
<1>11. CASE RemoveExisting  BY <1>11, <1>y DEF RemoveExisting
<1>12. CASE Discard  BY <1>12, <1>y DEF Discard
<1>13. CASE RollbackGet  BY <1>13, <1>y, FoundMain DEF RollbackGet
<1>14. CASE RollbackRemove  BY <1>14, <1>y DEF RollbackRemove, Partial
<1>15. CASE RollbackRename  BY <1>15, <1>y DEF RollbackRename, AfterRollback
<1>16. CASE RollbackStart  BY <1>16, <1>y DEF RollbackStart
<1>17. ASSUME NEW q \in Ops, NEW k \in Kinds, Request(q, k) PROVE Archives'
  BY <1>17, <1>y DEF Request
<1>18. CASE Crash
  BY <1>18, <1>y DEF Crash
<1>19. ASSUME NEW c \in Containers, ProcessExits(c) PROVE Archives'
  BY <1>19, <1>y DEF ProcessExits
<1>20. ASSUME NEW c \in Containers, PolicyRestarts(c) PROVE Archives'
  BY <1>20, <1>y DEF PolicyRestarts
<1>21. CASE UNCHANGED vars
  BY <1>21, <1>y DEF vars
<1> QED
  BY <1>1, <1>2, <1>3, <1>4, <1>5, <1>6, <1>7, <1>8, <1>9, <1>10, <1>11, <1>12, <1>13,
     <1>14, <1>15, <1>16, <1>17, <1>18, <1>19, <1>20, <1>21
  DEF Next, Operation

-----------------------------------------------------------------------------
(* What runs. *)

LEMMA QuietStep == PostgresInv /\ [Next]_vars => Quiet'
<1> SUFFICES ASSUME PostgresInv, [Next]_vars PROVE Quiet'  OBVIOUS
<1>y. TypeOK /\ InHand /\ Quiet /\ PostgresAssumption  BY PostgresAssumption DEF PostgresInv
<1>l. RenamesOnTime' => RenamesOnTime  BY <1>y, LateStep
<1> USE DEF At, GoTo, End, NoFault, Fault, Call, SetStatus, Rename, Remove, docker, locals,
    history, Main, Replacing, TypeOK, InHand, Quiet, Stable, IsUp
<1>1. CASE Get  BY <1>1, <1>y, <1>l, FoundMain DEF Get
<1>2. CASE Reload  BY <1>2, <1>y, <1>l DEF Reload, Wanted, IsUp
<1>3. CASE StartExisting  BY <1>3, <1>y, <1>l DEF StartExisting
<1>4. CASE Image  BY <1>4, <1>y, <1>l DEF Image, AfterImage
<1>5. CASE StopExisting  BY <1>5, <1>y, <1>l DEF StopExisting
<1>6. CASE RenameExisting
  <2>1. RenamesOnTime' =>
          \/ Rename(existing, "rollback") /\ GoTo("run") /\ NoFault
          \/ UNCHANGED docker /\ Fault /\ OnRenameFailure
    BY <1>6, <1>y, RenameOnTime DEF RenamesOnTime, OnTime
  <2>2. UNCHANGED <<existing, wasRunning, replacement, flapped>>  BY <1>6 DEF RenameExisting
  <2>3. /\ status' = status /\ pc = "rename"
        /\ pc' \in {"run", "undo", "idle"}
    BY <1>6 DEF RenameExisting, OnRenameFailure
  <2> QED  BY <2>1, <2>2, <2>3, <1>y, <1>l DEF OnRenameFailure
<1>7. CASE Undo
  <2>1. RenamesOnTime => existing \in Main
    BY <1>7, <1>y DEF Undo, RenamesOnTime, OnTime
  <2> QED  BY <1>7, <1>y, <1>l, <2>1 DEF Undo
<1>8. CASE RunContainer  BY <1>8, <1>y, <1>l DEF RunContainer, Created, OnRunFailure
<1>9. CASE Wait  BY <1>9, <1>y, <1>l DEF Wait
<1>10. CASE Commit  BY <1>10, <1>y, <1>l DEF Commit
<1>11. CASE RemoveExisting  BY <1>11, <1>y, <1>l DEF RemoveExisting
<1>12. CASE Discard  BY <1>12, <1>y, <1>l DEF Discard
<1>13. CASE RollbackGet  BY <1>13, <1>y, <1>l, FoundMain DEF RollbackGet
<1>14. CASE RollbackRemove  BY <1>14, <1>y, <1>l DEF RollbackRemove, Partial
<1>15. CASE RollbackRename  BY <1>15, <1>y, <1>l DEF RollbackRename, AfterRollback
<1>16. CASE RollbackStart  BY <1>16, <1>y, <1>l DEF RollbackStart
<1>17. ASSUME NEW q \in Ops, NEW k \in Kinds, Request(q, k) PROVE Quiet'
  BY <1>17, <1>y, <1>l DEF Request
<1>18. CASE Crash
  BY <1>18, <1>y, <1>l DEF Crash
<1>19. ASSUME NEW c \in Containers, ProcessExits(c) PROVE Quiet'
  BY <1>19, <1>y, <1>l DEF ProcessExits
<1>20. ASSUME NEW c \in Containers, PolicyRestarts(c) PROVE Quiet'
  BY <1>20, <1>y, <1>l DEF PolicyRestarts
<1>21. CASE UNCHANGED vars
  BY <1>21, <1>y, <1>l DEF vars
<1> QED
  BY <1>1, <1>2, <1>3, <1>4, <1>5, <1>6, <1>7, <1>8, <1>9, <1>10, <1>11, <1>12, <1>13,
     <1>14, <1>15, <1>16, <1>17, <1>18, <1>19, <1>20, <1>21
  DEF Next, Operation

-----------------------------------------------------------------------------
(* The way back. *)

LEMMA ReturnsStep == PostgresInv /\ [Next]_vars => Returns'
<1> SUFFICES ASSUME PostgresInv, [Next]_vars PROVE Returns'  OBVIOUS
<1>y. TypeOK /\ InHand /\ Quiet /\ Returns /\ PostgresAssumption  BY PostgresAssumption DEF PostgresInv
<1> USE DEF At, GoTo, End, NoFault, Fault, Call, SetStatus, Rename, Remove, docker, locals,
    history, Main, Running, Replacing, TypeOK, InHand, Quiet, Stable, IsUp, Returns
<1>1. CASE Get  BY <1>1, <1>y, FoundMain DEF Get
<1>2. CASE Reload  BY <1>2, <1>y DEF Reload, Wanted, IsUp
<1>3. CASE StartExisting  BY <1>3, <1>y DEF StartExisting
<1>4. CASE Image  BY <1>4, <1>y DEF Image, AfterImage
<1>5. CASE StopExisting  BY <1>5, <1>y DEF StopExisting
<1>6. CASE RenameExisting  BY <1>6, <1>y DEF RenameExisting, OnRenameFailure
<1>7. CASE Undo  BY <1>7, <1>y DEF Undo
<1>8. CASE RunContainer  BY <1>8, <1>y DEF RunContainer, Created, OnRunFailure
<1>9. CASE Wait  BY <1>9, <1>y DEF Wait
<1>10. CASE Commit  BY <1>10, <1>y DEF Commit
<1>11. CASE RemoveExisting  BY <1>11, <1>y DEF RemoveExisting
<1>12. CASE Discard  BY <1>12, <1>y DEF Discard
<1>13. CASE RollbackGet  BY <1>13, <1>y, FoundMain DEF RollbackGet
<1>14. CASE RollbackRemove  BY <1>14, <1>y DEF RollbackRemove, Partial
<1>15. CASE RollbackRename  BY <1>15, <1>y DEF RollbackRename, AfterRollback
<1>16. CASE RollbackStart  BY <1>16, <1>y DEF RollbackStart
<1>17. ASSUME NEW q \in Ops, NEW k \in Kinds, Request(q, k) PROVE Returns'
  <2>1. CASE holder # NoOp
    <3>1. UNCHANGED <<name, status, pc, existing, wasRunning, faults, upBefore, flapped>>
      BY <1>17, <2>1 DEF Request
    <3> QED  BY <1>y, <3>1
  <2>2. CASE holder = NoOp
    <3>1. /\ pc' = "get" /\ UNCHANGED <<name, status>>
          /\ upBefore' = (Main \cap Running # {})
      BY <1>17, <2>2 DEF Request
    <3> QED  BY <3>1
  <2> QED  BY <2>1, <2>2
<1>18. CASE Crash
  BY <1>18, <1>y DEF Crash
<1>19. ASSUME NEW c \in Containers, ProcessExits(c) PROVE Returns'
  BY <1>19, <1>y DEF ProcessExits
<1>20. ASSUME NEW c \in Containers, PolicyRestarts(c) PROVE Returns'
  BY <1>20, <1>y DEF PolicyRestarts
<1>21. CASE UNCHANGED vars
  BY <1>21, <1>y DEF vars
<1> QED
  BY <1>1, <1>2, <1>3, <1>4, <1>5, <1>6, <1>7, <1>8, <1>9, <1>10, <1>11, <1>12, <1>13,
     <1>14, <1>15, <1>16, <1>17, <1>18, <1>19, <1>20, <1>21
  DEF Next, Operation

-----------------------------------------------------------------------------
(* Requests that wait for their result. *)

LEMMA PendingStep == PostgresInv /\ [Next]_vars => Pending'
<1> SUFFICES ASSUME PostgresInv, [Next]_vars PROVE Pending'  OBVIOUS
<1>y. TypeOK /\ Pending /\ PostgresAssumption  BY PostgresAssumption DEF PostgresInv
<1> USE DEF At, GoTo, End, NoFault, Fault, Call, SetStatus, Rename, Remove, docker, locals,
    history, TypeOK, Pending, PostgresAssumption
<1>1. CASE Get  BY <1>1, <1>y, FoundMain DEF Get
<1>2. CASE Reload  BY <1>2, <1>y DEF Reload, Wanted, IsUp
<1>3. CASE StartExisting  BY <1>3, <1>y DEF StartExisting
<1>4. CASE Image  BY <1>4, <1>y DEF Image, AfterImage
<1>5. CASE StopExisting  BY <1>5, <1>y DEF StopExisting
<1>6. CASE RenameExisting  BY <1>6, <1>y DEF RenameExisting, OnRenameFailure
<1>7. CASE Undo  BY <1>7, <1>y DEF Undo
<1>8. CASE RunContainer
  BY <1>8, <1>y DEF RunContainer, OnRunFailure
<1>9. CASE Wait  BY <1>9, <1>y DEF Wait
<1>10. CASE Commit  BY <1>10, <1>y DEF Commit
<1>11. CASE RemoveExisting  BY <1>11, <1>y DEF RemoveExisting
<1>12. CASE Discard  BY <1>12, <1>y DEF Discard
<1>13. CASE RollbackGet  BY <1>13, <1>y, FoundMain DEF RollbackGet
<1>14. CASE RollbackRemove  BY <1>14, <1>y DEF RollbackRemove, Partial
<1>15. CASE RollbackRename  BY <1>15, <1>y DEF RollbackRename, AfterRollback
<1>16. CASE RollbackStart  BY <1>16, <1>y DEF RollbackStart
<1>17. ASSUME NEW q \in Ops, NEW k \in Kinds, Request(q, k) PROVE Pending'
  BY <1>17, <1>y DEF Request
<1>18. CASE Crash
  BY <1>18, <1>y DEF Crash
<1>19. ASSUME NEW c \in Containers, ProcessExits(c) PROVE Pending'
  BY <1>19, <1>y DEF ProcessExits
<1>20. ASSUME NEW c \in Containers, PolicyRestarts(c) PROVE Pending'
  BY <1>20, <1>y DEF PolicyRestarts
<1>21. CASE UNCHANGED vars
  BY <1>21, <1>y DEF vars
<1> QED
  BY <1>1, <1>2, <1>3, <1>4, <1>5, <1>6, <1>7, <1>8, <1>9, <1>10, <1>11, <1>12, <1>13,
     <1>14, <1>15, <1>16, <1>17, <1>18, <1>19, <1>20, <1>21
  DEF Next, Operation

\* that the agent died is never forgotten
LEMMA DiedStep == PostgresInv /\ [Next]_vars /\ AgentDied => AgentDied'
<1> SUFFICES ASSUME PostgresInv, [Next]_vars, AgentDied PROVE AgentDied'  OBVIOUS
<1>y. TypeOK /\ Pending /\ PostgresAssumption  BY PostgresAssumption DEF PostgresInv
<1>1. PICK o \in Ops : result[o] = "crashed"  BY DEF AgentDied
<1>2. ASSUME NEW how, End(how), holder # NoOp PROVE result'[o] = result[o]
  BY <1>1, <1>2, <1>y DEF End, Pending, TypeOK
<1>3. UNCHANGED result => result'[o] = result[o]  OBVIOUS
<1>4. ASSUME NEW step, GoTo(step) PROVE result'[o] = result[o]  BY <1>4 DEF GoTo
<1>5. Operation => result'[o] = result[o]
  <2> USE <1>2, <1>4 DEF At, Call
  <2>1. Get \/ Reload \/ StartExisting \/ Image \/ StopExisting \/ Undo \/ Wait \/ Commit =>
          result'[o] = result[o]
    BY DEF Get, Reload, StartExisting, Image, StopExisting, Undo, Wait, Commit
  <2>2. RenameExisting \/ RunContainer => result'[o] = result[o]
    BY DEF RenameExisting, RunContainer, OnRenameFailure, OnRunFailure
  <2>3. RemoveExisting \/ Discard \/ RollbackGet \/ RollbackRemove \/ RollbackRename \/ RollbackStart =>
          result'[o] = result[o]
    BY DEF RemoveExisting, Discard, RollbackGet, RollbackRemove, RollbackRename, RollbackStart,
        AfterRollback
  <2> QED  BY <2>1, <2>2, <2>3 DEF Operation
<1>6. ASSUME NEW p \in Ops, NEW k \in Kinds, Request(p, k) PROVE result'[o] = result[o]
  BY <1>1, <1>6, <1>y DEF Request, TypeOK
<1>7. Crash => result'[o] = result[o]  BY <1>2 DEF Crash
<1>8. ASSUME NEW c \in Containers, ProcessExits(c) \/ PolicyRestarts(c) PROVE result'[o] = result[o]
  BY <1>8 DEF ProcessExits, PolicyRestarts
<1>9. UNCHANGED vars => result'[o] = result[o]  BY DEF vars
<1> QED  BY <1>1, <1>5, <1>6, <1>7, <1>8, <1>9 DEF Next, AgentDied

-----------------------------------------------------------------------------
(* Archiving stays on. *)

LEMMA WalStep == PostgresInv /\ [Next]_vars => KeepsWal'
<1> SUFFICES ASSUME PostgresInv, [Next]_vars PROVE KeepsWal'  OBVIOUS
<1>y. TypeOK /\ InHand /\ Quiet /\ Archives /\ KeepsWal /\ PostgresAssumption
  BY PostgresAssumption DEF PostgresInv
<1>d. AgentDied => AgentDied'  BY DiedStep
<1>s. flapped \subseteq flapped'
  <2>1. Operation => UNCHANGED flapped
    BY DEF Operation, Get, Reload, StartExisting, Image, StopExisting, RenameExisting, Undo, RunContainer,
           Wait, Commit, RemoveExisting, Discard, RollbackGet, RollbackRemove, RollbackRename, RollbackStart
  <2>2. flapped' = flapped \/ \E c \in Containers : flapped' = flapped \cup {c}
    BY <2>1 DEF Next, Request, Crash, ProcessExits, PolicyRestarts, vars, history
  <2> QED  BY <2>2
<1>l. RenamesOnTime' => RenamesOnTime  BY <1>y, LateStep
\* nothing to show unless the premise holds after the step
<1> SUFFICES ASSUME promised', Stable', RenamesOnTime', ~AgentDied', MaxFaults <= 1
             PROVE  ArchivingKept'
  BY DEF KeepsWal
<1>q. Stable /\ ~AgentDied /\ ~AgentDied' /\ RenamesOnTime /\ RenamesOnTime'
  BY <1>d, <1>s, <1>l DEF Stable
<1>k. promised => ArchivingKept  BY <1>y, <1>q DEF KeepsWal
<1>f. Fault => faults = 0 /\ faults' = 1  BY <1>y DEF Fault, TypeOK
<1>r. pc = "wait" => status[replacement] = "running"  BY <1>y, <1>q DEF Quiet, IsUp
<1> USE DEF At, GoTo, End, NoFault, Call, SetStatus, Rename, Remove, docker, locals, history, Main,
    Replacing, TypeOK, InHand, Archives, IsUp, ArchivingKept
<1>1. CASE Get  BY <1>1, <1>y, <1>k, <1>f, <1>r, FoundMain DEF Get
<1>2. CASE Reload  BY <1>2, <1>y, <1>k, <1>f, <1>r DEF Reload, Wanted, IsUp
<1>3. CASE StartExisting  BY <1>3, <1>y, <1>k, <1>f, <1>r DEF StartExisting
<1>4. CASE Image  BY <1>4, <1>y, <1>k, <1>f, <1>r DEF Image, AfterImage
<1>5. CASE StopExisting  BY <1>5, <1>y, <1>k, <1>f, <1>r DEF StopExisting
<1>6. CASE RenameExisting
  <2>1. \/ Rename(existing, "rollback") /\ GoTo("run") /\ NoFault
        \/ UNCHANGED docker /\ Fault /\ OnRenameFailure
    <3> HIDE DEF TypeOK, InHand
    <3> QED  BY <1>6, <1>y, <1>q, RenameOnTime DEF RenamesOnTime, OnTime
  <2> QED  BY <1>6, <2>1, <1>y, <1>k, <1>f, <1>r DEF RenameExisting, OnRenameFailure
<1>7. CASE Undo
  <2>1. existing \in Main  BY <1>7, <1>y, <1>q DEF Undo, RenamesOnTime, OnTime
  <2> QED  BY <1>7, <2>1, <1>y, <1>k, <1>f, <1>r DEF Undo
<1>8. CASE RunContainer
  <2>1. CASE UNCHANGED docker
    BY <1>8, <2>1, <1>y, <1>k, <1>f DEF RunContainer, Created, OnRunFailure
  <2>2. CASE ~UNCHANGED docker
    <3>1. PICK c \in Containers : name' = [name EXCEPT ![c] = "main"] /\ wal' = IF archiving THEN wal \cup {c} ELSE wal
      BY <1>8, <2>2, <1>y DEF RunContainer, Created
    <3>a. Main = {}
      <4> HIDE DEF Main
      <4> QED  BY <1>8, <2>2 DEF RunContainer
    <3>2. Main = {} /\ Main' = {c}  BY <3>a, <3>1, <1>y
    <3>3. pc = "run" /\ promised  BY <1>8, <2>2, <1>y DEF RunContainer, OnRunFailure, Kinds
    <3>4. Replacing /\ archiving  BY <3>2, <3>3, <1>k
    <3> HIDE DEF Main
    <3> QED
      BY <1>8, <2>2, <1>y, <1>k, <1>f, <3>1, <3>2, <3>3, <3>4 DEF RunContainer, Created, OnRunFailure
  <2> QED  BY <2>1, <2>2
<1>9. CASE Wait
  <2>1. Main' = Main /\ wal' = wal /\ replacement \in Main /\ \A c, d \in Main : c = d  BY <1>9,
      <1>y DEF Wait
  <2> HIDE DEF Main
  <2> QED  BY <1>9, <1>y, <1>k, <1>f, <1>r, <2>1 DEF Wait
<1>10. CASE Commit  BY <1>10, <1>y, <1>k, <1>f, <1>r DEF Commit
<1>11. CASE RemoveExisting
  <2>0. Replacing /\ name[existing] = "rollback" /\ existing \in Containers  BY <1>11,
      <1>y DEF RemoveExisting
  <2>1. Main' = Main  BY <1>11, <1>y, <2>0 DEF RemoveExisting
  <2>2. wal' = wal /\ replacement \in Main /\ \A c, d \in Main : c = d  BY <1>11, <1>y DEF RemoveExisting
  <2>3. pc = "remove" /\ pc' = "idle" /\ (promised \/ kind = "enable_pitr")  BY <1>11,
      <1>y DEF RemoveExisting
  <2>4. Main \subseteq wal  BY <2>2, <2>3, <1>y, <1>k
  <2> HIDE DEF Main
  <2> QED  BY <2>1, <2>2, <2>3, <2>4
<1>12. CASE Discard  BY <1>12, <1>y, <1>k, <1>f, <1>r DEF Discard
<1>13. CASE RollbackGet  BY <1>13, <1>y, <1>k, <1>f, <1>r, FoundMain DEF RollbackGet
<1>14. CASE RollbackRemove
  <2>0. promised /\ pc = "rbRemove" /\ replacement \in Main /\ (\A c,
      d \in Main : c = d)  BY <1>14, <1>y DEF RollbackRemove
  <2>1. Remove(replacement) /\ GoTo("rbRename") /\ NoFault  BY <1>14, <2>0, <1>k,
      <1>f DEF RollbackRemove, Partial
  <2>2. Main' = {}  BY <2>0, <2>1, <1>y
  <2>3. existing' = existing /\ Replacing /\ existing \in wal /\ wal' = wal /\ faults' = 1
    BY <1>14, <2>0, <2>1, <1>y, <1>k DEF RollbackRemove
  <2> HIDE DEF Main
  <2> QED  BY <2>1, <2>2, <2>3
<1>15. CASE RollbackRename
  <2>0. promised /\ pc = "rbRename" /\ Replacing /\ existing \in Containers /\ Main = {}
    BY <1>15, <1>y, <1>k DEF RollbackRename, AfterRollback
  <2>1. Call(Rename(existing, "main"), AfterRollback, End("error")) /\ UNCHANGED <<kind, existing>>
    BY <1>15, <2>0 DEF RollbackRename
  <2>2. ~Fault  BY <2>0, <1>k, <1>f
  <2>3. /\ name' = [name EXCEPT ![existing] = "main"] /\ wal' = wal
        /\ pc' \in {"idle", "rbStart"}
    BY <2>1, <2>2 DEF AfterRollback
  <2>4. Main' = {existing}  BY <2>0, <2>3, <1>y
  <2>5. existing \in wal  BY <2>0, <1>k
  <2> HIDE DEF Main
  <2> QED  BY <2>1, <2>3, <2>4, <2>5
<1>16. CASE RollbackStart  BY <1>16, <1>y, <1>k, <1>f, <1>r DEF RollbackStart
<1>17. ASSUME NEW q \in Ops, NEW k \in Kinds, Request(q, k) PROVE ArchivingKept'
  BY <1>17, <1>y, <1>k, <1>f, <1>r DEF Request
<1>18. CASE Crash
  <2>1. result'[holder] = "crashed" /\ holder \in Ops  BY <1>18, <1>y DEF Crash
  <2> QED  BY <2>1, <1>q DEF AgentDied
<1>19. ASSUME NEW c \in Containers, ProcessExits(c) PROVE ArchivingKept'
  BY <1>19, <1>y, <1>k, <1>f, <1>r DEF ProcessExits
<1>20. ASSUME NEW c \in Containers, PolicyRestarts(c) PROVE ArchivingKept'
  BY <1>20, <1>y, <1>k, <1>f, <1>r DEF PolicyRestarts
<1>21. CASE UNCHANGED vars
  BY <1>21, <1>y, <1>k, <1>f, <1>r DEF vars
<1> QED
  BY <1>1, <1>2, <1>3, <1>4, <1>5, <1>6, <1>7, <1>8, <1>9, <1>10, <1>11, <1>12, <1>13,
     <1>14, <1>15, <1>16, <1>17, <1>18, <1>19, <1>20, <1>21
  DEF Next, Operation

-----------------------------------------------------------------------------
(* An operation that fails. *)

LEMMA RestoredStep ==
  ASSUME PostgresInv, [Next]_vars, NEW o \in Ops, result[o] = "none", result'[o] = "error",
           upBefore, Stable, faults' <= 1, OnTime(o, "stop")', OnTime(o, "rename")'
  PROVE  Main' \cap Running' # {}
<1>0. result[o] = "none" /\ result'[o] = "error" /\ upBefore /\ Stable /\ faults' <= 1  OBVIOUS
<1>h. <<o, "stop">> \notin late' /\ <<o, "rename">> \notin late'  BY DEF OnTime
<1>y. TypeOK /\ InHand /\ Pending /\ Quiet /\ Returns /\ PostgresAssumption
  BY PostgresAssumption DEF PostgresInv
<1> SUFFICES ASSUME Main' \cap Running' = {} PROVE FALSE  OBVIOUS
<1> USE DEF At, GoTo, End, NoFault, Fault, Call, SetStatus, Rename, Remove, docker, locals,
    history, Main, Running, Replacing, InHand, TypeOK, IsUp, Returns, Pending
<1>1. CASE Get  BY <1>1, <1>y, <1>0, FoundMain DEF Get
<1>2. CASE Reload  BY <1>2, <1>y, <1>0 DEF Reload, Wanted, IsUp
<1>3. CASE StartExisting  BY <1>3, <1>y, <1>0 DEF StartExisting
<1>4. CASE Image  BY <1>4, <1>y, <1>0 DEF Image, AfterImage
<1>5. CASE StopExisting
  <2>1. holder = o  BY <1>5, <1>y, <1>0 DEF StopExisting
  <2>2. IsUp(existing) /\ existing \in Main  BY <1>5, <1>y, <1>0, <2>1 DEF StopExisting
  <2>3. UNCHANGED docker
    <3> HIDE DEF TypeOK, InHand, IsUp
    <3> QED  BY <1>5, <1>y, <1>0, <1>h, <2>1, <2>2, StopOnTime
  <2> QED  BY <1>y, <2>2, <2>3
<1>6. CASE RenameExisting  BY <1>6, <1>y, <1>0 DEF RenameExisting, OnRenameFailure
<1>7. CASE Undo
  <2>1. holder = o /\ late' = late  BY <1>7, <1>y, <1>0 DEF Undo
  <2>2. existing \in Main  BY <1>7, <1>y, <1>h, <2>1 DEF Undo, OnTime
  <2> QED  BY <1>7, <1>y, <1>0, <2>1, <2>2 DEF Undo
<1>8. CASE RunContainer  BY <1>8, <1>y, <1>0 DEF RunContainer, Created, OnRunFailure
<1>9. CASE Wait  BY <1>9, <1>y, <1>0 DEF Wait
<1>10. CASE Commit  BY <1>10, <1>y, <1>0 DEF Commit
<1>11. CASE RemoveExisting  BY <1>11, <1>y, <1>0 DEF RemoveExisting
<1>12. CASE Discard  BY <1>12, <1>y, <1>0 DEF Discard
<1>13. CASE RollbackGet  BY <1>13, <1>y, <1>0, FoundMain DEF RollbackGet
<1>14. CASE RollbackRemove  BY <1>14, <1>y, <1>0 DEF RollbackRemove, Partial
<1>15. CASE RollbackRename  BY <1>15, <1>y, <1>0 DEF RollbackRename, AfterRollback
<1>16. CASE RollbackStart  BY <1>16, <1>y, <1>0 DEF RollbackStart
<1>17. ASSUME NEW q \in Ops, NEW k \in Kinds, Request(q, k) PROVE FALSE
  BY <1>17, <1>y, <1>0 DEF Request
<1>18. CASE Crash
  BY <1>18, <1>y, <1>0 DEF Crash
<1>19. ASSUME NEW c \in Containers, ProcessExits(c) PROVE FALSE
  BY <1>19, <1>y, <1>0 DEF ProcessExits
<1>20. ASSUME NEW c \in Containers, PolicyRestarts(c) PROVE FALSE
  BY <1>20, <1>y, <1>0 DEF PolicyRestarts
<1>21. CASE UNCHANGED vars
  BY <1>21, <1>y, <1>0 DEF vars
<1> QED
  BY <1>1, <1>2, <1>3, <1>4, <1>5, <1>6, <1>7, <1>8, <1>9, <1>10, <1>11, <1>12, <1>13,
     <1>14, <1>15, <1>16, <1>17, <1>18, <1>19, <1>20, <1>21
  DEF Next, Operation
-----------------------------------------------------------------------------
(* An operation that succeeds. *)

LEMMA SuccessStep ==
  ASSUME PostgresInv, [Next]_vars, NEW o \in Ops, result[o] = "none", result'[o] = "ok"
  PROVE  \E c \in Main' : kind = "enable_pitr" => c \in wal'
<1>0. result[o] = "none" /\ result'[o] = "ok"  OBVIOUS
<1>y. TypeOK /\ InHand /\ Pending /\ Archives /\ PostgresAssumption
  BY PostgresAssumption DEF PostgresInv
<1> SUFFICES ASSUME \A c \in Main' : kind = "enable_pitr" /\ c \notin wal' PROVE FALSE  OBVIOUS
<1> USE DEF At, GoTo, End, NoFault, Fault, Call, SetStatus, Rename, Remove, docker, locals,
    history, Main, Running, Replacing, InHand, TypeOK, IsUp, Archives, Pending
<1>1. CASE Get  BY <1>1, <1>y, <1>0, FoundMain DEF Get
<1>2. CASE Reload  BY <1>2, <1>y, <1>0 DEF Reload, Wanted, IsUp
<1>3. CASE StartExisting  BY <1>3, <1>y, <1>0 DEF StartExisting
<1>4. CASE Image  BY <1>4, <1>y, <1>0 DEF Image, AfterImage
<1>5. CASE StopExisting  BY <1>5, <1>y, <1>0 DEF StopExisting
<1>6. CASE RenameExisting  BY <1>6, <1>y, <1>0 DEF RenameExisting, OnRenameFailure
<1>7. CASE Undo  BY <1>7, <1>y, <1>0 DEF Undo
<1>8. CASE RunContainer  BY <1>8, <1>y, <1>0 DEF RunContainer, Created, OnRunFailure
<1>9. CASE Wait  BY <1>9, <1>y, <1>0 DEF Wait
<1>10. CASE Commit  BY <1>10, <1>y, <1>0 DEF Commit
<1>11. CASE RemoveExisting  BY <1>11, <1>y, <1>0 DEF RemoveExisting
<1>12. CASE Discard  BY <1>12, <1>y, <1>0 DEF Discard
<1>13. CASE RollbackGet  BY <1>13, <1>y, <1>0, FoundMain DEF RollbackGet
<1>14. CASE RollbackRemove  BY <1>14, <1>y, <1>0 DEF RollbackRemove, Partial
<1>15. CASE RollbackRename  BY <1>15, <1>y, <1>0 DEF RollbackRename, AfterRollback
<1>16. CASE RollbackStart  BY <1>16, <1>y, <1>0 DEF RollbackStart
<1>17. ASSUME NEW q \in Ops, NEW k \in Kinds, Request(q, k) PROVE FALSE
  BY <1>17, <1>y, <1>0 DEF Request
<1>18. CASE Crash
  BY <1>18, <1>y, <1>0 DEF Crash
<1>19. ASSUME NEW c \in Containers, ProcessExits(c) PROVE FALSE
  BY <1>19, <1>y, <1>0 DEF ProcessExits
<1>20. ASSUME NEW c \in Containers, PolicyRestarts(c) PROVE FALSE
  BY <1>20, <1>y, <1>0 DEF PolicyRestarts
<1>21. CASE UNCHANGED vars
  BY <1>21, <1>y, <1>0 DEF vars
<1> QED
  BY <1>1, <1>2, <1>3, <1>4, <1>5, <1>6, <1>7, <1>8, <1>9, <1>10, <1>11, <1>12, <1>13,
     <1>14, <1>15, <1>16, <1>17, <1>18, <1>19, <1>20, <1>21
  DEF Next, Operation
-----------------------------------------------------------------------------
(* The theorems. *)

LEMMA InitPostgresInv == Init => PostgresInv
<1> SUFFICES ASSUME Init PROVE PostgresInv  OBVIOUS
<1>y. PostgresAssumption  BY PostgresAssumption
<1>0. PICK present \in SUBSET Containers, up \in BOOLEAN, w \in BOOLEAN :
        /\ \A c, d \in present : c = d
        /\ name = [c \in Containers |-> IF c \in present THEN "main" ELSE "unused"]
        /\ status = [c \in Containers |->
                       IF c \notin present THEN "none" ELSE IF up THEN "running" ELSE "exited"]
        /\ wal = IF w THEN present ELSE {}
        /\ served = present
        /\ promised = (wal # {})
  BY DEF Init
<1>1. Main = present  BY <1>0 DEF Main
<1>2. /\ holder = NoOp /\ kind = "bootstrap" /\ pc = "idle"
      /\ existing = NoContainer /\ replacement = NoContainer
      /\ wasRunning = FALSE /\ archiving = FALSE
      /\ faults = 0 /\ upBefore = FALSE /\ flapped = {} /\ late = {}
      /\ result = [o \in Ops |-> "none"]
  BY DEF Init
<1>3. TypeOK
  <2>1. DockerType /\ served \subseteq Containers  BY <1>0 DEF DockerType
  <2>2. Control  BY <1>0, <1>2 DEF Control, Steps
  <2>3. kind \in Kinds /\ faults \in 0..MaxFaults  BY <1>y, <1>2 DEF Kinds, PostgresAssumption
  <2> QED  BY <1>2, <2>1, <2>2, <2>3 DEF TypeOK, DockerType, Control
<1>4. InHand  BY <1>0, <1>1, <1>2 DEF InHand
<1>5. Pending  BY <1>2 DEF Pending
<1>6. Kept  BY <1>0, <1>1, <1>2 DEF Kept, DefinitionKept, Present
<1>7. Archives  BY <1>2 DEF Archives
<1>8. Quiet  BY <1>0, <1>1, <1>2 DEF Quiet
<1>9. Returns  BY <1>2 DEF Returns
<1>10. KeepsWal  BY <1>0, <1>1, <1>2 DEF KeepsWal, ArchivingKept
<1> QED  BY <1>3, <1>4, <1>5, <1>6, <1>7, <1>8, <1>9, <1>10 DEF PostgresInv

(* The invariant the theorems below are read from. *)
THEOREM PostgresInvariant == Spec => []PostgresInv
<1>1. PostgresInv /\ [Next]_vars => PostgresInv'
  BY TypeStep, HandStep, PendingStep, KeptStep, ArchivesStep, QuietStep, ReturnsStep, WalStep
  DEF PostgresInv
<1> QED  BY InitPostgresInv, <1>1, PTL DEF Spec

(* Every variable has its type.  (postgres.py 173-467) *)
THEOREM PostgresTypes == Spec => []TypeOK
<1>1. PostgresInv => TypeOK  BY DEF PostgresInv
<1> QED  BY PostgresInvariant, <1>1, PTL

(* Unless a container's process ends by itself, or a rename of the old       *)
(* container raises although it was done, there is one server at most on the *)
(* data directory, whatever else fails, before or after its effect, and      *)
(* wherever the agent dies.  (postgres.py 369-403)                           *)
THEOREM PostgresSingleWriter == Spec => []StableSingleWriter
<1>1. ASSUME PostgresInv, Stable, RenamesOnTime PROVE Cardinality(Running) <= 1
  <2>1. Running \subseteq Main /\ \A c, d \in Main : c = d
    BY <1>1 DEF PostgresInv, Quiet, InHand, Running
  <2>2. CASE Running = {}  BY <2>2, FS_EmptySet
  <2>3. ASSUME NEW c \in Running PROVE Cardinality(Running) <= 1
    <3>1. Running = {c}  BY <2>1, <2>3
    <3>2. Cardinality({c}) = 1  BY FS_Singleton
    <3> QED  BY <3>1, <3>2
  <2> QED  BY <2>2, <2>3
<1>2. PostgresInv => StableSingleWriter  BY <1>1 DEF StableSingleWriter, SingleWriter
<1> QED  BY PostgresInvariant, <1>2, PTL

(* No number of failures, and no crash, leaves a server that had Postgres    *)
(* without a container that served.  (postgres.py 364) *)
THEOREM PostgresDefinitionKept == Spec => []DefinitionKept
<1>1. PostgresInv => DefinitionKept  BY DEF PostgresInv, Kept
<1> QED  BY PostgresInvariant, <1>1, PTL

(* With one fault at most in each operation, no later berth_postgres is      *)
(* without WAL archiving once it was enabled, as long as no process ends by  *)
(* itself and no rename of the old container raises although it was done.    *)
(* With two it can be: when the rename that brings the old container back    *)
(* fails too, the next retune finds no container and creates one afresh.     *)
(* (postgres.py 269-270, 297-299, 371-403)                                   *)
THEOREM PostgresWalKept == ASSUME MaxFaults <= 1 PROVE Spec => []WalKept
<1>1. PostgresInv => WalKept  BY DEF PostgresInv, KeepsWal, ArchivingKept, WalKept
<1> QED  BY PostgresInvariant, <1>1, PTL

(* An operation in which one thing failed leaves Postgres running if it was, *)
(* whatever the others meet, unless what failed is its own stop or rename of *)
(* the old container, which was done and yet raised.  (postgres.py 369-403)  *)
THEOREM PostgresRestored == Spec => Restored
<1>1. ASSUME PostgresInv, [Next]_vars
      PROVE  [\A o \in Ops : OnTime(o, "stop")' /\ OnTime(o, "rename")' => LeftRunning(o)]_vars
  BY <1>1, RestoredStep DEF LeftRunning
<1> QED  BY PostgresInvariant, <1>1, PTL DEF Spec, Restored

(* Success is never reported without a container under the name, nor by      *)
(* enable_pitr without one that archives.  (postgres.py 173-258, 294-322)    *)
THEOREM PostgresSuccessServes == Spec => SuccessServes
<1>1. ASSUME PostgresInv, [Next]_vars
      PROVE  [\A o \in Ops :
                result[o] = "none" /\ result'[o] = "ok" =>
                  \E c \in Main' : kind = "enable_pitr" => c \in wal']_vars
  BY <1>1, SuccessStep
<1> QED  BY PostgresInvariant, <1>1, PTL DEF Spec, SuccessServes
=============================================================================
