-------------------------- MODULE CommandPoolProofs --------------------------
(***************************************************************************)
(* Proofs about CommandPool, for any commands, lookups, limit and pool     *)
(* size.  The inductive invariant is IInv; Slots is what makes the counter *)
(* exact, Order what makes a reply wait for its slot, Home what keeps a    *)
(* command of an earlier connection silent.                                *)
(***************************************************************************)
EXTENDS CommandPool, FiniteSetTheorems, SequenceTheorems, TLAPS

(* A command gets its job at admission; a job in the queue is there once and *)
(* is still queued; a job that ended is reported once, and its slot release  *)
(* is posted then.                                                           *)
Slots ==
  /\ \A c \in Commands : pc[c] = "idle" => c \notin mine /\ job[c] = "none"
  /\ \A i \in 1..Len(poolQ) : job[poolQ[i]] = "queued"
  /\ \A i, k \in 1..Len(poolQ) : poolQ[i] = poolQ[k] => i = k
  /\ \A j \in reporting : job[j] \in Outcome
  /\ \A c \in slotCb : job[c] \in Outcome /\ c \notin reporting
  /\ PendingExact

(* The slot of the command is back, or its release has been overtaken.       *)
Passed(c) == c \in reporting \cup slotCb => c \in early

(* What a reply task is told comes after the job's end, and after the        *)
(* release of its slot unless the wake-up is one that overtook it.           *)
Order ==
  /\ \A c \in wakeCb : job[c] \in Outcome /\ (c \in reporting => c \in early)
  /\ \A c \in resolved : job[c] \in Outcome /\ Passed(c)
  /\ \A c \in Commands : response[c] \in {"result", "error"} => job[c] \in Outcome /\ Passed(c)

(* A reply task that has not ended belongs to the current session and has    *)
(* answered nothing; close() returned only after they all ended.             *)
Home ==
  /\ \A c \in Commands :
       /\ pc[c] # "ended" => response[c] = "none"
       /\ pc[c] \in {"spawned", "waiting"} => c \in mine
  /\ sess = "closed" => \A c \in mine : pc[c] = "ended"

IInv == TypeOK /\ Slots /\ Order /\ Home

-----------------------------------------------------------------------------

LEMMA HoldingFinite ==
  ASSUME TypeOK
  PROVE  IsFiniteSet(Holding) /\ Cardinality(Holding) \in Nat
<1>1. Holding \subseteq Commands  BY DEF Holding, TypeOK
<1> QED  BY <1>1, CommandAssumption, FS_Subset, FS_CardinalityType

(* Admission, the only way into the pool's queue, and its removal, the only  *)
(* way out.                                                                  *)
LEMMA SubmitQueue ==
  ASSUME TypeOK, Slots, NEW j \in Jobs, job[j] = "none", Submit(j)
  PROVE  /\ poolQ' \in Seq(Jobs) /\ job' \in [Jobs -> {"none"} \cup Unfinished \cup Outcome]
         /\ \A i \in 1..Len(poolQ') : job'[poolQ'[i]] = "queued"
         /\ \A i, k \in 1..Len(poolQ') : poolQ'[i] = poolQ'[k] => i = k
         /\ UNCHANGED <<reporting, chained>>
<1>1. /\ Len(poolQ') = Len(poolQ) + 1 /\ Len(poolQ) \in Nat
      /\ \A i \in 1..Len(poolQ) : poolQ'[i] = poolQ[i] /\ poolQ[i] \in Jobs
      /\ poolQ'[Len(poolQ) + 1] = j
  BY DEF TypeOK, Submit
<1>2. \A i \in 1..Len(poolQ) : poolQ[i] # j  BY DEF Slots
<1>3. \A i \in Jobs : job'[i] = IF i = j THEN "queued" ELSE job[i]
  BY DEF TypeOK, Submit
<1>4. poolQ' \in Seq(Jobs) /\ job' \in [Jobs -> {"none"} \cup Unfinished \cup Outcome]
  BY DEF TypeOK, Submit, Unfinished
<1>5. \A i \in 1..Len(poolQ') : job'[poolQ'[i]] = "queued"
  BY <1>1, <1>3 DEF Slots
<1>6. \A i, k \in 1..Len(poolQ') : poolQ'[i] = poolQ'[k] => i = k
  BY <1>1, <1>2 DEF Slots
<1>7. UNCHANGED <<reporting, chained>>  BY DEF Submit
<1> QED  BY <1>4, <1>5, <1>6, <1>7

LEMMA InitIInv == Init => IInv
<1> SUFFICES ASSUME Init PROVE IInv  OBVIOUS
<1>1. TypeOK  BY DEF Init, TypeOK
<1>2. Holding = {}  BY DEF Init, Holding
<1>3. Cardinality(Holding) = 0  BY <1>2, FS_EmptySet
<1>5. Slots  BY <1>3 DEF Init, Slots, PendingExact, Jobs
<1>4. Order /\ Home  BY DEF Init, Order, Home
<1> QED  BY <1>1, <1>4, <1>5 DEF IInv

-----------------------------------------------------------------------------
(* Types. *)

LEMMA TypeStep == TypeOK /\ Slots /\ [Next]_vars => TypeOK'
<1> SUFFICES ASSUME TypeOK, Slots, [Next]_vars PROVE TypeOK'  OBVIOUS
<1> USE DEF TypeOK
<1>1. ASSUME NEW c \in Commands, Dispatch(c) PROVE TypeOK'
  <2>1. CASE RejectParams(c)  BY <2>1 DEF RejectParams, Answer, Answers, sessionVars, poolVars, loopVars
  <2>2. CASE Refuse(c)  BY <2>2 DEF Refuse, Answer, Answers, sessionVars, poolVars, loopVars
  <2>3. CASE Admit(c)
    <3>1. job[c] = "none" /\ c \in Jobs  BY <2>3 DEF Admit, Slots, Jobs
    <3>2. /\ poolQ' \in Seq(Jobs) /\ job' \in [Jobs -> {"none"} \cup Unfinished \cup Outcome]
          /\ UNCHANGED <<reporting, chained>>
      BY <2>3, <3>1, SubmitQueue DEF Admit
    <3> QED  BY <2>3, <3>2 DEF Admit, loopVars
  <2> QED  BY <1>1, <2>1, <2>2, <2>3 DEF Dispatch
<1>2. ASSUME NEW c \in Commands, ReplyStep(c) PROVE TypeOK'
  <2>1. CASE StartReply(c)  BY <2>1 DEF StartReply, sessionVars, poolVars
  <2>2. CASE Reply(c)
    BY <2>2 DEF Reply, Answer, AnswerTo, Answers, sessionVars, poolVars, loopVars
  <2>3. CASE ReplyTimeout(c)
    BY <2>3 DEF ReplyTimeout, OnTimeout, Answer, Answers, sessionVars, poolVars, loopVars
  <2>4. CASE ReplyCancelled(c)  BY <2>4 DEF ReplyCancelled, sessionVars, poolVars, loopVars
  <2> QED  BY <1>2, <2>1, <2>2, <2>3, <2>4 DEF ReplyStep
<1>3. ASSUME NEW c \in Commands, RunSlot(c) PROVE TypeOK'
  BY <1>3 DEF RunSlot, Decremented, sessionVars, poolVars, replyVars
<1>4. ASSUME NEW c \in Commands, RunWake(c) PROVE TypeOK'
  BY <1>4 DEF RunWake, sessionVars, poolVars, replyVars
<1>5. ASSUME NEW l \in Lookups, Lookup(l) PROVE TypeOK'
  <2>1. job[l] = "none" /\ Submit(l) /\ l \in Jobs  BY <1>5 DEF Lookup, Jobs
  <2>2. /\ poolQ' \in Seq(Jobs) /\ job' \in [Jobs -> {"none"} \cup Unfinished \cup Outcome]
        /\ UNCHANGED <<reporting, chained>>
    BY <2>1, SubmitQueue
  <2> QED  BY <1>5, <2>2 DEF Lookup, sessionVars, loopVars, replyVars
<1>6. ASSUME NEW j \in Jobs, PoolPick(j) PROVE TypeOK'
  BY <1>6 DEF PoolPick, Unfinished, sessionVars, loopVars, replyVars
<1>7. ASSUME NEW j \in Jobs, Finish(j) PROVE TypeOK'
  BY <1>7 DEF Finish, OutcomeOf, Outcome, sessionVars, loopVars, replyVars
<1>r. ASSUME NEW j \in Jobs, Report(j) PROVE TypeOK'
  BY <1>r DEF Report, Releases, sessionVars, replyVars
<1>8. CASE SessionStep
  BY <1>8 DEF SessionStep, ConnectionLost, SessionClose, SessionClosed, Reconnect, poolVars,
      loopVars, replyVars
<1>9. CASE UNCHANGED vars
  BY <1>9 DEF vars, sessionVars, poolVars, loopVars, replyVars
<1> QED  BY <1>1, <1>2, <1>3, <1>4, <1>5, <1>6, <1>7, <1>r, <1>8, <1>9 DEF Next

-----------------------------------------------------------------------------
(* The counter. *)

\* what a step does to Holding when it concerns one command, or none
LEMMA HoldingFrame ==
  ASSUME TypeOK, mine' = mine, \A c \in mine :
           (job'[c] \in Unfinished \/ c \in reporting' \/ c \in slotCb')
             <=> (job[c] \in Unfinished \/ c \in reporting \/ c \in slotCb)
  PROVE  Holding' = Holding
BY DEF Holding

LEMMA SlotsStep == TypeOK /\ Slots /\ [Next]_vars => Slots'
<1> SUFFICES ASSUME TypeOK, Slots, [Next]_vars PROVE Slots'  OBVIOUS
<1>h. IsFiniteSet(Holding) /\ Cardinality(Holding) \in Nat  BY HoldingFinite
<1>s. Commands \cap Lookups = {} /\ Commands \subseteq Jobs /\ Lookups \subseteq Jobs
  BY CommandAssumption DEF Jobs
<1>1. ASSUME NEW c \in Commands, Dispatch(c) PROVE Slots'
  <2>1. CASE RejectParams(c) \/ Refuse(c)
    BY <2>1, HoldingFrame
    DEF RejectParams, Refuse, Answer, sessionVars, poolVars, loopVars, TypeOK, Slots, PendingExact
  <2>2. CASE Admit(c)
    <3>1. pc[c] = "idle" /\ c \notin mine /\ job[c] = "none" /\ Submit(c) /\ c \in Jobs
      BY <2>2, <1>s DEF Admit, Slots
    <3>2. \A i \in Commands : job'[i] = IF i = c THEN "queued" ELSE job[i]
      BY <3>1, <1>s DEF Submit, TypeOK
    <3>3. Holding' = Holding \cup {c} /\ c \notin Holding
      BY <2>2, <3>1, <3>2 DEF Admit, Submit, Holding, Unfinished, loopVars, TypeOK
    <3>4. Cardinality(Holding') = Cardinality(Holding) + 1  BY <3>3, <1>h, FS_AddElement
    <3>5. PendingExact'  BY <2>2, <3>4 DEF Admit, PendingExact, Slots
    <3>6. \A i \in Commands : pc'[i] = "idle" => i \notin mine' /\ job'[i] = "none"
      BY <2>2, <3>2 DEF Admit, Slots, TypeOK
    <3>7. /\ \A i \in reporting' : job'[i] \in Outcome
          /\ \A i \in slotCb' : job'[i] \in Outcome /\ i \notin reporting'
      BY <2>2, <3>1, <3>2 DEF Admit, Submit, Slots, TypeOK, loopVars, Outcome
    <3> QED  BY <3>1, <3>5, <3>6, <3>7, SubmitQueue DEF Slots
  <2> QED  BY <1>1, <2>1, <2>2 DEF Dispatch
<1>2. ASSUME NEW c \in Commands, ReplyStep(c) PROVE Slots'
  BY <1>2, HoldingFrame
  DEF ReplyStep, StartReply, Reply, ReplyTimeout, OnTimeout, ReplyCancelled, Answer,
      sessionVars, poolVars, TimerFires, TypeOK, Slots, PendingExact, loopVars
<1>3. ASSUME NEW c \in Commands, RunSlot(c) PROVE Slots'
  <2>1. job[c] \in Outcome /\ c \notin reporting  BY <1>3 DEF RunSlot, Slots
  <2>2. CASE c \in mine
    <3>1. c \in Holding /\ Holding' = Holding \ {c}
      BY <1>3, <2>1, <2>2 DEF RunSlot, Holding, sessionVars, poolVars, Outcome, Unfinished
    <3>2. Cardinality(Holding') = Cardinality(Holding) - 1  BY <3>1, <1>h, FS_RemoveElement
    <3>3. Cardinality(Holding) # 0  BY <3>1, <1>h, FS_EmptySet
    <3> QED  BY <1>3, <1>h, <2>2, <3>2, <3>3
             DEF RunSlot, Decremented, Slots, PendingExact, sessionVars, poolVars, replyVars, TypeOK
  <2>3. CASE c \notin mine
    <3>1. Holding' = Holding  BY <1>3, <2>3 DEF RunSlot, Holding, sessionVars, poolVars
    <3> QED  BY <1>3, <2>3, <3>1
             DEF RunSlot, Decremented, Slots, PendingExact, sessionVars, poolVars, replyVars, TypeOK
  <2> QED  BY <2>2, <2>3
<1>4. ASSUME NEW c \in Commands, RunWake(c) PROVE Slots'
  BY <1>4, HoldingFrame DEF RunWake, sessionVars, poolVars, replyVars, Slots, PendingExact
<1>5. ASSUME NEW l \in Lookups, Lookup(l) PROVE Slots'
  <2>1. job[l] = "none" /\ Submit(l) /\ l \in Jobs  BY <1>5, <1>s DEF Lookup
  <2>2. \A c \in Commands : job'[c] = job[c]  BY <2>1, <1>s DEF Submit, TypeOK
  <2>3. Holding' = Holding
    BY <1>5, <2>1, <2>2 DEF Lookup, Submit, Holding, sessionVars, loopVars, TypeOK
  <2> QED  BY <1>5, <2>1, <2>2, <2>3, SubmitQueue
           DEF Lookup, Submit, Slots, PendingExact, sessionVars, loopVars, replyVars, TypeOK, Outcome
<1>6. ASSUME NEW j \in Jobs, PoolPick(j) PROVE Slots'
  <2>1. /\ Len(poolQ) \in Nat \ {0} /\ j = poolQ[1]
        /\ Len(poolQ') = Len(poolQ) - 1
        /\ \A i \in 1..Len(poolQ') : poolQ'[i] = poolQ[i + 1] /\ i + 1 \in 1..Len(poolQ)
    BY <1>6 DEF PoolPick, TypeOK
  <2>2. job[j] = "queued"  BY <2>1 DEF Slots
  <2>3. \A i \in Jobs : job'[i] = IF i = j THEN "running" ELSE job[i]
    BY <1>6 DEF PoolPick, TypeOK
  <2>a. \A i \in 1..Len(poolQ) : poolQ[i] \in Jobs /\ job[poolQ[i]] = "queued"
    BY DEF Slots, TypeOK
  <2>b. \A i, k \in 1..Len(poolQ) : poolQ[i] = poolQ[k] => i = k  BY DEF Slots
  <2>4. \A i \in 1..Len(poolQ') : poolQ'[i] \in Jobs /\ poolQ'[i] # j /\ job'[poolQ'[i]] = "queued"
    BY <2>1, <2>3, <2>a, <2>b
  <2>5. \A i, k \in 1..Len(poolQ') : poolQ'[i] = poolQ'[k] => i = k
    BY <2>1 DEF Slots
  <2>6. Holding' = Holding
    BY <1>6, <1>s, <2>2, <2>3, HoldingFrame DEF PoolPick, TypeOK, Unfinished, sessionVars, loopVars
  <2> QED  BY <1>6, <1>s, <2>2, <2>3, <2>4, <2>5, <2>6
           DEF PoolPick, Slots, PendingExact, sessionVars, loopVars, replyVars, TypeOK, Outcome
<1>7. ASSUME NEW j \in Jobs, Finish(j) PROVE Slots'
  <2>1. PICK o \in Outcome : job' = [job EXCEPT ![j] = o]
    BY <1>7 DEF Finish, OutcomeOf, Outcome
  <2>2. \A i \in Jobs : job'[i] = IF i = j THEN o ELSE job[i]  BY <2>1 DEF TypeOK
  <2>3. job[j] = "running"  BY <1>7 DEF Finish
  <2>4. Holding' = Holding
    BY <1>7, <1>s, <2>2, <2>3, HoldingFrame
    DEF Finish, TypeOK, Unfinished, Outcome, sessionVars, loopVars
  <2>5. \A i \in 1..Len(poolQ) : poolQ[i] \in Jobs /\ poolQ[i] # j  BY <2>3 DEF TypeOK, Slots
  <2> QED  BY <1>7, <1>s, <2>2, <2>3, <2>4, <2>5
           DEF Finish, Slots, PendingExact, sessionVars, loopVars, replyVars, TypeOK, Outcome
<1>r. ASSUME NEW j \in Jobs, Report(j) PROVE Slots'
  <2>1. Holding' = Holding
    BY <1>r, <1>s, HoldingFrame DEF Report, Releases, TypeOK, Slots, Outcome, Unfinished, sessionVars
  <2> QED  BY <1>r, <1>s, <2>1
           DEF Report, Releases, Slots, PendingExact, sessionVars, replyVars, TypeOK
<1>8. CASE ConnectionLost \/ SessionClose \/ SessionClosed
  BY <1>8, HoldingFrame
  DEF ConnectionLost, SessionClose, SessionClosed, poolVars, loopVars, replyVars, Slots, PendingExact
<1>9. CASE Reconnect
  <2>1. Holding' = {}  BY <1>9 DEF Reconnect, Holding
  <2>2. Cardinality(Holding') = 0  BY <2>1, FS_EmptySet
  <2> QED  BY <1>9, <2>2 DEF Reconnect, poolVars, loopVars, replyVars, Slots, PendingExact
<1>10. CASE UNCHANGED vars
  BY <1>10, HoldingFrame DEF vars, sessionVars, poolVars, loopVars, replyVars, Slots, PendingExact
<1> QED  BY <1>1, <1>2, <1>3, <1>4, <1>5, <1>6, <1>7, <1>r, <1>8, <1>9, <1>10 DEF Next, SessionStep

-----------------------------------------------------------------------------
(* The order of the callbacks, and whose answers. *)

LEMMA OrderStep == TypeOK /\ Slots /\ Order /\ [Next]_vars => Order'
<1> SUFFICES ASSUME TypeOK, Slots, Order, [Next]_vars PROVE Order'  OBVIOUS
<1> USE DEF Passed
<1>s. Commands \cap Lookups = {} /\ Commands \subseteq Jobs  BY CommandAssumption DEF Jobs
<1>1. ASSUME NEW c \in Commands, Dispatch(c) PROVE Order'
  <2>1. CASE RejectParams(c) \/ Refuse(c)
    BY <2>1 DEF RejectParams, Refuse, Answer, sessionVars, poolVars, loopVars, TypeOK, Order
  <2>2. CASE Admit(c)
    <3>1. job[c] = "none" /\ \A i \in Commands : job'[i] = IF i = c THEN "queued" ELSE job[i]
      BY <2>2, <1>s DEF Admit, Submit, Slots, TypeOK
    <3> QED  BY <2>2, <3>1 DEF Admit, Submit, Order, TypeOK, loopVars, Outcome
  <2> QED  BY <1>1, <2>1, <2>2 DEF Dispatch
<1>2. ASSUME NEW c \in Commands, ReplyStep(c) PROVE Order'
  <2>1. CASE StartReply(c)
    BY <2>1 DEF StartReply, sessionVars, poolVars, TypeOK, Order
  <2>2. CASE Reply(c)
    BY <2>2 DEF Reply, Answer, sessionVars, poolVars, loopVars, TypeOK, Order
  <2>3. CASE ReplyTimeout(c)
    BY <2>3 DEF ReplyTimeout, OnTimeout, Answer, sessionVars, poolVars, loopVars, TypeOK, Order
  <2>4. CASE ReplyCancelled(c)
    BY <2>4 DEF ReplyCancelled, sessionVars, poolVars, loopVars, TypeOK, Order
  <2> QED  BY <1>2, <2>1, <2>2, <2>3, <2>4 DEF ReplyStep
<1>3. ASSUME NEW c \in Commands, RunSlot(c) PROVE Order'
  BY <1>3 DEF RunSlot, sessionVars, poolVars, replyVars, TypeOK, Slots, Order
<1>4. ASSUME NEW c \in Commands, RunWake(c) PROVE Order'
  BY <1>4 DEF RunWake, Due, sessionVars, poolVars, replyVars, TypeOK, Order
<1>5. ASSUME NEW l \in Lookups, Lookup(l) PROVE Order'
  <2>1. \A c \in Commands : job'[c] = job[c]  BY <1>5, <1>s DEF Lookup, Submit, TypeOK
  <2> QED  BY <1>5, <2>1 DEF Lookup, Submit, sessionVars, loopVars, replyVars, TypeOK, Order
<1>6. ASSUME NEW j \in Jobs, PoolPick(j) PROVE Order'
  <2>1. job[j] = "queued"  BY <1>6 DEF PoolPick, TypeOK, Slots
  <2>2. \A c \in Commands : job'[c] = IF c = j THEN "running" ELSE job[c]
    BY <1>6, <1>s DEF PoolPick, TypeOK
  <2> QED  BY <1>6, <2>1, <2>2 DEF PoolPick, sessionVars, loopVars, replyVars, TypeOK, Order, Outcome
<1>7. ASSUME NEW j \in Jobs, Finish(j) PROVE Order'
  <2>1. PICK o \in Outcome : job' = [job EXCEPT ![j] = o]
    BY <1>7 DEF Finish, OutcomeOf, Outcome
  <2>2. \A c \in Commands : job'[c] = IF c = j THEN o ELSE job[c]  BY <2>1, <1>s DEF TypeOK
  <2>3. job[j] = "running"  BY <1>7 DEF Finish
  <2> QED  BY <1>7, <2>2, <2>3
           DEF Finish, sessionVars, loopVars, replyVars, TypeOK, Slots, Order, Outcome
<1>r. ASSUME NEW j \in Jobs, Report(j) PROVE Order'
  BY <1>r DEF Report, Releases, sessionVars, replyVars, TypeOK, Slots, Order
<1>8. CASE SessionStep
  BY <1>8 DEF SessionStep, ConnectionLost, SessionClose, SessionClosed, Reconnect,
              poolVars, loopVars, replyVars, Order
<1>9. CASE UNCHANGED vars  BY <1>9 DEF vars, poolVars, loopVars, replyVars, Order
<1> QED  BY <1>1, <1>2, <1>3, <1>4, <1>5, <1>6, <1>7, <1>r, <1>8, <1>9 DEF Next

LEMMA HomeStep == TypeOK /\ Home /\ [Next]_vars => Home'
<1> SUFFICES ASSUME TypeOK, Home, [Next]_vars PROVE Home'  OBVIOUS
<1> USE DEF TypeOK, Home
<1>1. ASSUME NEW c \in Commands, Dispatch(c) PROVE Home'
  BY <1>1 DEF Dispatch, RejectParams, Refuse, Admit, Answer, Receiving, sessionVars
<1>2. ASSUME NEW c \in Commands, ReplyStep(c) PROVE Home'
  BY <1>2 DEF ReplyStep, StartReply, Reply, ReplyTimeout, ReplyCancelled, Answer, Receiving,
              sessionVars
<1>3. ASSUME NEW c \in Commands, RunSlot(c) \/ RunWake(c) PROVE Home'
  BY <1>3 DEF RunSlot, RunWake, sessionVars, replyVars
<1>4. ASSUME NEW l \in Lookups, Lookup(l) PROVE Home'
  BY <1>4 DEF Lookup, sessionVars, replyVars
<1>5. ASSUME NEW j \in Jobs, PoolPick(j) \/ Finish(j) \/ Report(j) PROVE Home'
  BY <1>5 DEF PoolPick, Finish, Report, sessionVars, replyVars
<1>6. CASE ConnectionLost \/ SessionClose \/ SessionClosed
  BY <1>6 DEF ConnectionLost, SessionClose, SessionClosed, Gathered, replyVars
<1>7. CASE Reconnect
  BY <1>7 DEF Reconnect, replyVars
<1>8. CASE UNCHANGED vars  BY <1>8 DEF vars, sessionVars, replyVars
<1> QED  BY <1>1, <1>2, <1>3, <1>4, <1>5, <1>6, <1>7, <1>8 DEF Next, SessionStep

-----------------------------------------------------------------------------
(* The theorems. *)

(* Commands, jobs, callbacks and answers stay in their ranges, and with them *)
(* Slots, Order and Home hold in every reachable state: the inductive        *)
(* invariant of admission and execution.  (gateway.py 457-511, 985-1043)     *)
THEOREM Invariant == Spec => []IInv
<1>1. IInv /\ [Next]_vars => IInv'  BY TypeStep, SlotsStep, OrderStep, HomeStep DEF IInv
<1> QED  BY InitIInv, <1>1, PTL DEF Spec

(* The variables keep their types; in particular the counter of admitted     *)
(* commands never leaves Nat.  (gateway.py 471-488)                          *)
THEOREM TypeCorrect == Spec => []TypeOK
<1>1. IInv => TypeOK  BY DEF IInv
<1> QED  BY <1>1, Invariant, PTL

(* pending is exactly the number of commands of this session whose slot is   *)
(* not back, across timeouts, cancellations and reconnections.  (gateway.py  *)
(* 457-488)                                                                  *)
THEOREM CounterExact == Spec => []PendingExact
<1>1. IInv => PendingExact  BY DEF IInv, Slots
<1> QED  BY <1>1, Invariant, PTL

(* A result or an error is sent only when the slot is free again, unless its *)
(* wake-up was posted in the worker's window between setting the future and  *)
(* running its callbacks.  (gateway.py 476-489, 1003-1011)                   *)
THEOREM ReplyAfterSlot == Spec => []SlotBeforeReply
<1>1. IInv => SlotBeforeReply
  BY DEF IInv, TypeOK, Order, Passed, SlotBeforeReply, Told, Holding, Outcome, Unfinished
<1> QED  BY <1>1, Invariant, PTL

(* Every answer is the only one to its command and goes to the connection    *)
(* the command came from.  (gateway.py 209-221, 1003-1043)                   *)
THEOREM OneAnswerAtHome == Spec => AnsweredOnceAtHome
<1> DEFINE Final == \A c \in Commands :
       response'[c] # response[c] =>
         /\ response[c] = "none"
         /\ response'[c] \in {"invalid", "busy"} \/ c \in mine
<1>1. ASSUME IInv, Next PROVE Final
  <2> USE DEF IInv, TypeOK, Home
  <2>1. ASSUME NEW d \in Commands, Dispatch(d) PROVE Final
    BY <1>1, <2>1 DEF Dispatch, RejectParams, Refuse, Admit, Answer
  <2>2. ASSUME NEW d \in Commands, ReplyStep(d) PROVE Final
    BY <1>1, <2>2 DEF ReplyStep, StartReply, Reply, ReplyTimeout, TimerFires, ReplyCancelled, Answer
  <2>3. CASE UNCHANGED response  BY <2>3
  <2> QED  BY <1>1, <2>1, <2>2, <2>3
           DEF Next, SessionStep, ConnectionLost, SessionClose, SessionClosed, Reconnect, RunSlot,
               RunWake, Lookup, PoolPick, Finish, Report, replyVars
<1>2. IInv /\ [Next]_vars => [Final]_vars  BY <1>1
<1> QED  BY <1>2, Invariant, PTL DEF Spec, AnsweredOnceAtHome

(* A command is refused only when the commands of the session that have no   *)
(* result or error yet, with those whose slot release was overtaken by their *)
(* answer and has not run, are as many as the limit.  (gateway.py 457-489)   *)
THEOREM RefusedAtLimit == Spec => BusyOnlyAtLimit
<1> DEFINE Counted == (mine \ Told) \cup (Holding \cap early)
<1> DEFINE Full == \A c \in Commands :
       response'[c] = "busy" /\ response[c] = "none" => Cardinality(Counted) >= MaxConcurrent
<1>1. ASSUME IInv, AtLimit PROVE Cardinality(Counted) >= MaxConcurrent
  <2>1. Holding \subseteq Counted
    BY <1>1 DEF IInv, TypeOK, Order, Passed, Holding, Told, Outcome, Unfinished
  <2>2. IsFiniteSet(Counted)
    <3>1. Counted \subseteq Commands  BY <1>1 DEF IInv, TypeOK, Told, Holding
    <3> QED  BY <3>1, CommandAssumption, FS_Subset
  <2> HIDE DEF Counted
  <2>3. Cardinality(Holding) <= Cardinality(Counted)  BY <2>1, <2>2, FS_Subset
  <2>4. Cardinality(Counted) \in Nat  BY <2>2, FS_CardinalityType
  <2>5. pending = Cardinality(Holding) /\ pending \in Nat  BY <1>1 DEF IInv, TypeOK, Slots, PendingExact
  <2> QED  BY <1>1, <2>3, <2>4, <2>5, CommandAssumption DEF AtLimit
<1>2. ASSUME IInv, Next PROVE Full
  <2> USE DEF IInv, TypeOK
  <2>1. ASSUME NEW d \in Commands, Dispatch(d) PROVE Full
    BY <1>1, <1>2, <2>1 DEF Dispatch, RejectParams, Refuse, Admit, Answer
  <2>2. ASSUME NEW d \in Commands, ReplyStep(d) PROVE Full
    BY <1>2, <2>2 DEF ReplyStep, StartReply, Reply, AnswerTo, ReplyTimeout, ReplyCancelled, Answer
  <2>3. CASE UNCHANGED response  BY <1>2, <2>3
  <2> QED  BY <1>2, <2>1, <2>2, <2>3
           DEF Next, SessionStep, ConnectionLost, SessionClose, SessionClosed, Reconnect, RunSlot,
               RunWake, Lookup, PoolPick, Finish, Report, replyVars
<1>3. IInv /\ [Next]_vars => [Full]_vars  BY <1>2
<1> QED  BY <1>3, Invariant, PTL DEF Spec, BusyOnlyAtLimit
=============================================================================
