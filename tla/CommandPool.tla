----------------------------- MODULE CommandPool -----------------------------
(***************************************************************************)
(* One-shot commands (agent/gateway.py): admission by the receive loop,    *)
(* execution in _THREAD_POOL, which outlives every session, the reply task *)
(* _execute_and_reply with its protocol timeout, and the callback that     *)
(* gives the admission slot back.                                          *)
(*                                                                         *)
(* A job ends in two steps of its worker: the future is set done, and then *)
(* its callbacks run, in the order they were registered.  They post to the *)
(* event loop the release of the slot and the wake-up of the reply task,   *)
(* which call_soon_threadsafe runs in the order they were posted.  A reply *)
(* task that wraps the future between the two steps finds it done, and     *)
(* posts its own wake-up ahead of the release.                             *)
(***************************************************************************)
EXTENDS Naturals, Sequences, FiniteSets

CONSTANTS
  Commands,       \* requests that run in the pool under admission control
  Lookups,        \* container_exists lookups of exec_pty, not counted
  MaxConcurrent,  \* _MAX_CONCURRENT_COMMANDS
  Workers         \* max_workers of _THREAD_POOL

ASSUME CommandAssumption ==
  /\ IsFiniteSet(Commands)
  /\ Commands \cap Lookups = {}
  /\ MaxConcurrent \in Nat \ {0} /\ Workers \in Nat \ {0}

VARIABLES
  sess,      \* "open", "lost", "closing", "closed"
  mine,      \* commands admitted by the current session
  pending,   \* sess.pending_commands
  job,       \* [Commands and Lookups -> state of the submitted future]
  poolQ,     \* the executor's queue
  reporting, \* jobs that are done and whose worker has not run the callbacks
  chained,   \* commands whose wake-up is registered and has not been posted
  slotCb,    \* commands whose posted slot release has not run yet
  wakeCb,    \* commands whose posted wake-up has not run yet
  early,     \* those whose wake-up was posted ahead of a release still to run
  resolved,  \* commands whose asyncio future is set
  pc,        \* [Commands -> state of the reply task]
  response   \* [Commands -> what the control plane was answered]

poolVars == <<job, poolQ, reporting, chained>>
loopVars == <<slotCb, wakeCb, early, resolved>>
replyVars == <<pc, response>>
sessionVars == <<sess, mine>>
vars == <<sessionVars, pending, poolVars, loopVars, replyVars>>

Jobs == Commands \cup Lookups
Unfinished == {"queued", "running"}
\* a job may raise TimeoutError, as the Postgres commands do (postgres.py 336-441)
Outcome == {"ok", "raised", "raisedTimeout"}
\* what a lookup found out is told apart in PtyStream, not here
OutcomeOf(j) == IF j \in Commands THEN Outcome ELSE {"ok"}
Answers == {"invalid", "busy", "result", "error", "timeout"}

TypeOK ==
  /\ sess \in {"open", "lost", "closing", "closed"}
  /\ mine \subseteq Commands
  /\ pending \in Nat
  /\ job \in [Jobs -> {"none"} \cup Unfinished \cup Outcome]
  /\ poolQ \in Seq(Jobs)
  /\ reporting \subseteq Jobs /\ chained \subseteq Commands
  /\ slotCb \subseteq Commands /\ wakeCb \subseteq Commands /\ early \subseteq Commands
  /\ resolved \subseteq Commands
  /\ pc \in [Commands -> {"idle", "spawned", "waiting", "ended"}]
  /\ response \in [Commands -> {"none"} \cup Answers]

Init ==
  /\ sess = "open" /\ mine = {} /\ pending = 0
  /\ job = [j \in Jobs |-> "none"] /\ poolQ = <<>>
  /\ reporting = {} /\ chained = {}
  /\ slotCb = {} /\ wakeCb = {} /\ early = {} /\ resolved = {}
  /\ pc = [c \in Commands |-> "idle"]
  /\ response = [c \in Commands |-> "none"]

Receiving == sess \in {"open", "lost"}

\* ws.send: raises, and answers nothing, once the connection is lost
Answer(c, what) ==
  /\ pc' = [pc EXCEPT ![c] = "ended"]
  /\ response' = IF sess = "open" THEN [response EXCEPT ![c] = what] ELSE response

Submit(j) ==
  /\ job' = [job EXCEPT ![j] = "queued"]
  /\ poolQ' = Append(poolQ, j)
  /\ UNCHANGED <<reporting, chained>>

-----------------------------------------------------------------------------
(* _dispatch_message *)

AtLimit_OneEarly == pending + 1 >= MaxConcurrent    \* mutant
AtLimit == pending >= MaxConcurrent

RejectParams(c) ==
  /\ Receiving /\ pc[c] = "idle"
  /\ Answer(c, "invalid")
  /\ UNCHANGED <<sessionVars, pending, poolVars, loopVars>>

Refuse(c) ==
  /\ Receiving /\ pc[c] = "idle" /\ AtLimit
  /\ Answer(c, "busy")
  /\ UNCHANGED <<sessionVars, pending, poolVars, loopVars>>

Admit(c) ==
  /\ Receiving /\ pc[c] = "idle" /\ ~AtLimit
  /\ pending' = pending + 1
  /\ Submit(c)
  /\ mine' = mine \cup {c}
  /\ pc' = [pc EXCEPT ![c] = "spawned"]
  /\ UNCHANGED <<sess, loopVars, response>>

\* _validate of a container PTY, after its stream was claimed
Lookup(l) ==
  /\ Receiving /\ job[l] = "none"
  /\ Submit(l)
  /\ UNCHANGED <<sessionVars, pending, loopVars, replyVars>>

-----------------------------------------------------------------------------
(* _THREAD_POOL *)

PoolPick(j) ==
  /\ poolQ # <<>> /\ j = Head(poolQ)
  /\ Cardinality({i \in Jobs : job[i] = "running"} \cup reporting) < Workers
  /\ poolQ' = Tail(poolQ)
  /\ job' = [job EXCEPT ![j] = "running"]
  /\ UNCHANGED <<sessionVars, pending, reporting, chained, loopVars, replyVars>>

\* set_result or set_exception: the future is done under its lock ...
Finish(j) ==
  /\ job[j] = "running"
  /\ \E o \in OutcomeOf(j) : job' = [job EXCEPT ![j] = o]
  /\ reporting' = reporting \cup {j}
  /\ UNCHANGED <<sessionVars, pending, poolQ, chained, loopVars, replyVars>>

\* ... and its callbacks run after that lock is dropped
Releases_Awaited(j) == {j} \cap chained    \* mutant: left to the task that awaits the answer
Releases(j) == {j} \cap Commands

Report(j) ==
  /\ j \in reporting
  /\ reporting' = reporting \ {j}
  /\ slotCb' = slotCb \cup Releases(j)
  /\ wakeCb' = wakeCb \cup ({j} \cap chained)
  /\ chained' = chained \ {j}
  /\ UNCHANGED <<sessionVars, pending, job, poolQ, early, resolved, replyVars>>

-----------------------------------------------------------------------------
(* Callbacks run by the event loop. *)

\* _decrement, on the _Session object that admitted the command
Decremented_Unclamped(c) == pending - 1                                  \* mutant
Decremented_AnySession(c) == IF pending > 0 THEN pending - 1 ELSE pending  \* mutant
Decremented(c) == IF c \in mine /\ pending > 0 THEN pending - 1 ELSE pending

RunSlot(c) ==
  /\ c \in slotCb /\ ~(c \in wakeCb /\ c \in early)
  /\ slotCb' = slotCb \ {c}
  /\ early' = early \ {c}
  /\ pending' = Decremented(c)
  /\ UNCHANGED <<sessionVars, poolVars, wakeCb, resolved, replyVars>>

\* posted after the slot release of the same job, unless it was early
Due_AnyOrder(c) == c \in wakeCb    \* mutant: the callbacks registered the other way round
Due(c) == c \in wakeCb /\ (c \in slotCb => c \in early)

RunWake(c) ==
  /\ Due(c)
  /\ wakeCb' = wakeCb \ {c}
  /\ resolved' = resolved \cup {c}
  /\ UNCHANGED <<sessionVars, pending, poolVars, slotCb, early, replyVars>>

-----------------------------------------------------------------------------
(* _execute_and_reply *)

\* wrap_future: a future that is done posts the wake-up at once
StartReply(c) ==
  /\ Receiving /\ pc[c] = "spawned"
  /\ pc' = [pc EXCEPT ![c] = "waiting"]
  /\ \/ /\ job[c] \in Outcome
        /\ wakeCb' = wakeCb \cup {c}
        /\ early' = early \cup ({c} \cap reporting)
        /\ UNCHANGED chained
     \/ /\ job[c] \notin Outcome
        /\ chained' = chained \cup {c}
        /\ UNCHANGED <<wakeCb, early>>
  /\ UNCHANGED <<sessionVars, pending, job, poolQ, reporting, slotCb, resolved, response>>

\* TimeoutError is asyncio.TimeoutError, whoever raised it
AnswerTo(outcome) ==
  IF outcome = "ok" THEN "result" ELSE IF outcome = "raised" THEN "error" ELSE "timeout"

Reply(c) ==
  /\ Receiving /\ pc[c] = "waiting" /\ c \in resolved
  /\ Answer(c, AnswerTo(job[c]))
  /\ UNCHANGED <<sessionVars, pending, poolVars, loopVars>>

\* the timer runs from the start of the wait, wherever the job is
TimerFires_OnceRunning(c) == pc[c] = "waiting" /\ job[c] # "queued"    \* mutant
TimerFires(c) == pc[c] = "waiting"

OnTimeout(c) == UNCHANGED poolVars

ReplyTimeout(c) ==
  /\ Receiving /\ TimerFires(c)
  /\ Answer(c, "timeout")
  /\ OnTimeout(c)
  /\ UNCHANGED <<sessionVars, pending, loopVars>>

ReplyCancelled(c) ==
  /\ sess = "closing" /\ pc[c] \in {"spawned", "waiting"}
  /\ pc' = [pc EXCEPT ![c] = "ended"]
  /\ UNCHANGED <<sessionVars, pending, poolVars, loopVars, response>>

-----------------------------------------------------------------------------
(* The session: close() cancels the reply tasks, not the jobs. *)

ConnectionLost ==
  /\ sess = "open" /\ sess' = "lost"
  /\ UNCHANGED <<mine, pending, poolVars, loopVars, replyVars>>

SessionClose ==
  /\ sess = "lost" /\ sess' = "closing"
  /\ UNCHANGED <<mine, pending, poolVars, loopVars, replyVars>>

Gathered_NotWaiting == TRUE    \* mutant: does not await the cancelled tasks
Gathered == \A c \in mine : pc[c] = "ended"

SessionClosed ==
  /\ sess = "closing" /\ Gathered
  /\ sess' = "closed"
  /\ UNCHANGED <<mine, pending, poolVars, loopVars, replyVars>>

Reconnect ==
  /\ sess = "closed" /\ sess' = "open"
  /\ mine' = {} /\ pending' = 0
  /\ UNCHANGED <<poolVars, loopVars, replyVars>>

-----------------------------------------------------------------------------

Dispatch(c) == RejectParams(c) \/ Refuse(c) \/ Admit(c)
ReplyStep(c) == StartReply(c) \/ Reply(c) \/ ReplyTimeout(c) \/ ReplyCancelled(c)
SessionStep == ConnectionLost \/ SessionClose \/ SessionClosed \/ Reconnect

Next ==
  \/ \E c \in Commands : Dispatch(c) \/ ReplyStep(c) \/ RunSlot(c) \/ RunWake(c)
  \/ \E l \in Lookups : Lookup(l)
  \/ \E j \in Jobs : PoolPick(j) \/ Finish(j) \/ Report(j)
  \/ SessionStep

(* Reply tasks and callbacks run, timers fire, idle workers take jobs and    *)
(* busy ones report the job they have ended.  That a job ends is not         *)
(* assumed: it is a hypothesis of the property it matters to.                *)
Fairness ==
  /\ \A c \in Commands : WF_vars(ReplyStep(c)) /\ WF_vars(RunSlot(c)) /\ WF_vars(RunWake(c))
  /\ \A j \in Jobs : WF_vars(PoolPick(j)) /\ WF_vars(Report(j))

JobsEnd == \A j \in Jobs : WF_vars(Finish(j))

Spec == Init /\ [][Next]_vars /\ Fairness

-----------------------------------------------------------------------------
(* Properties. *)

Holding == {c \in mine : job[c] \in Unfinished \/ c \in reporting \/ c \in slotCb}

(* The counter is exact: pending is the number of commands this session      *)
(* admitted whose slot is not back yet, timed out or not, and callbacks of   *)
(* an earlier session's jobs never free a slot of this one.  (gateway.py     *)
(* 457-488)                                                                  *)
PendingExact == pending = Cardinality(Holding)

Told == {c \in mine : response[c] \in {"result", "error"}}

(* A result or an error reaches the control plane only when the slot is      *)
(* free again, because the release is registered before the wake-up: except  *)
(* for a reply task that first ran between the end of its job and the        *)
(* worker's callbacks, whose wake-up overtakes the release.  (gateway.py     *)
(* 476-489, 1003-1011)                                                       *)
SlotBeforeReply == \A c \in Told : c \in Holding => c \in early

(* A control plane that counts the commands it has no outcome for, timeouts  *)
(* included, is refused below the limit only by commands it was told of      *)
(* while their overtaken slot release was still to run.  (gateway.py         *)
(* 457-489)                                                                  *)
BusyOnlyAtLimit ==
  [][\A c \in Commands :
       response'[c] = "busy" /\ response[c] = "none" =>
         Cardinality((mine \ Told) \cup (Holding \cap early)) >= MaxConcurrent]_vars

(* Whatever the order of the callbacks, every slot comes back: when all the  *)
(* commands this session admitted have ended, told of, timed out or not, the *)
(* counter returns to zero, unless another is admitted.  (gateway.py         *)
(* 481-489)                                                                  *)
SlotComesBack ==
  (\A c \in mine : job[c] \in Outcome)
    ~> (pending = 0 \/ \E c \in mine : job[c] \in Unfinished)

(* An answer is final, and goes to the session that admitted the command:    *)
(* no command of an earlier connection answers on this one.  (gateway.py     *)
(* 209-221, 1003-1043)                                                       *)
AnsweredOnceAtHome ==
  [][\A c \in Commands :
       response'[c] # response[c] =>
         /\ response[c] = "none"
         /\ response'[c] \in {"invalid", "busy"} \/ c \in mine]_vars

(* Every admitted command is answered while the connection lasts, even when  *)
(* the pool never gets to it in time.  (gateway.py 1003-1026)                *)
AdmittedAnswered ==
  \A c \in Commands :
    pc[c] = "spawned" ~> (response[c] # "none" \/ sess # "open")

=============================================================================
