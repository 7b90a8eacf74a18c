------------------------------ MODULE PtyStream ------------------------------
(***************************************************************************)
(* Interactive PTY sessions (container exec and host shell) over one       *)
(* gateway connection at a time: _handle_pty_session,                      *)
(* _handle_host_pty_session and _run_pty_stream of agent/gateway.py, and   *)
(* run_pty_blocking of commands/container.py and commands/host_shell.py.   *)
(*                                                                         *)
(* Four kinds of actors interleave: the receive loop dispatching frames,   *)
(* the handler task of each stream and its bridge, and, in a pool shared   *)
(* by all sessions, the blocking worker with its reader thread.  Threads   *)
(* reach the event loop only through call_soon_threadsafe, modelled by the *)
(* FIFO posted[h].                                                         *)
(***************************************************************************)
EXTENDS StreamTable

CONSTANTS
  MalformedId,  \* an empty or non-string stream_id
  HostShells,   \* the handlers opened with saas.host.exec_pty
  ThreadCap,    \* maxsize of the bridge -> worker queue
  PtyWorkers,   \* max_workers of _PTY_POOL
  MaxChunks     \* bound: output chunks a worker reads

ASSUME PtyAssumption ==
  /\ MalformedId \notin Ids
  /\ HostShells \subseteq Handlers
  /\ Handlers \subseteq Nat /\ Tunnels = {}
  /\ ThreadCap \in Nat \ {0} /\ PtyWorkers \in Nat /\ MaxChunks \in Nat

VARIABLES
  sess,        \* "open", "lost" (peer gone, frames still queued), "closing", "closed"
  mine,        \* handlers of the current session
  idOf,        \* [Handlers -> Ids or MalformedId], the stream_id of the request
  stopEvents,  \* [Ids -> Handlers or NoHandler], sess.stop_events
  pc,          \* [Handlers -> handler task state]
  bridging,    \* handlers whose bridge task runs
  threadQ,     \* [Handlers -> Seq(Item)], thread_q
  wpc,         \* [Handlers -> worker state]
  poolQ,       \* _PTY_POOL's queue of submitted jobs
  stop,        \* handlers whose stop_event is set
  posted,      \* [Handlers -> Seq(Callback)], callbacks posted by its threads
  started,     \* handlers whose started future is set
  finished,    \* handlers whose async_worker future is set
  out,         \* [Handlers -> Seq(kinds of message sent for it)]
  chunks       \* [Handlers -> Nat], chunks read so far

handlerVars == <<pc, bridging, out>>
workerVars == <<wpc, poolQ, chunks>>
sessionVars == <<sess, mine, idOf>>
loopVars == <<posted, started, finished>>
vars == <<tableVars, sessionVars, stopEvents, handlerVars, threadQ, stop, workerVars, loopVars>>

Callback == [what : {"started", "drained", "chunk", "done"}, n : Nat]
Post(h, what, n) == posted' = [posted EXCEPT ![h] = Append(@, [what |-> what, n |-> n])]

Working == {"startup", "test", "get", "exiting"}   \* states that occupy a pool worker
Relaying == {"test", "get"}                         \* the loop over stdin_q

TypeOK ==
  /\ TableType
  /\ sess \in {"open", "lost", "closing", "closed"}
  /\ mine \subseteq Handlers
  /\ idOf \in [Handlers -> Ids \cup {MalformedId}]
  /\ stopEvents \in [Ids -> Handlers \cup {NoHandler}]
  /\ pc \in [Handlers -> {"idle", "spawned", "validating", "starting", "running", "ended"}]
  /\ bridging \subseteq Handlers
  /\ threadQ \in [Handlers -> Seq(Item)]
  /\ wpc \in [Handlers -> {"none", "queued", "exited"} \cup Working]
  /\ poolQ \in Seq(Handlers)
  /\ stop \subseteq Handlers
  /\ posted \in [Handlers -> Seq(Callback)]
  /\ started \subseteq Handlers /\ finished \subseteq Handlers
  /\ out \in [Handlers -> Seq({"ok", "error", "data", "closed"})]
  /\ chunks \in [Handlers -> Nat]

Init ==
  /\ TableInit
  /\ sess = "open" /\ mine = {}
  /\ idOf = [h \in Handlers |-> MalformedId]
  /\ stopEvents = [id \in Ids |-> NoHandler]
  /\ pc = [h \in Handlers |-> "idle"]
  /\ bridging = {} /\ stop = {} /\ started = {} /\ finished = {}
  /\ threadQ = [h \in Handlers |-> <<>>]
  /\ wpc = [h \in Handlers |-> "none"]
  /\ poolQ = <<>>
  /\ posted = [h \in Handlers |-> <<>>]
  /\ out = [h \in Handlers |-> <<>>]
  /\ chunks = [h \in Handlers |-> 0]

Receiving == sess \in {"open", "lost"}

\* ws.send: after the connection is lost it raises and nothing is sent
Send(h, kind) == out' = IF sess = "open" THEN [out EXCEPT ![h] = Append(@, kind)] ELSE out

GoTo(h, state) == pc' = [pc EXCEPT ![h] = state]

-----------------------------------------------------------------------------
(* The receive loop: one frame at a time. *)

\* handlers are numbered in the order of their requests
NextRequest(h) == pc[h] = "idle" /\ \A g \in Handlers : g < h => pc[g] # "idle"

OpenRefused(h, id) ==
  /\ Receiving /\ NextRequest(h) /\ ClaimError(id)
  /\ GoTo(h, "ended") /\ Send(h, "error")
  /\ mine' = mine \cup {h}
  /\ idOf' = [idOf EXCEPT ![h] = id]
  /\ UNCHANGED <<tableVars, sess, stopEvents, bridging, threadQ, stop, workerVars, loopVars>>

Open(h, id) ==
  /\ Receiving /\ NextRequest(h)
  /\ Claim(h, id)
  /\ GoTo(h, "spawned")
  /\ mine' = mine \cup {h}
  /\ idOf' = [idOf EXCEPT ![h] = id]
  /\ UNCHANGED <<sess, stopEvents, bridging, out, threadQ, stop, workerVars, loopVars>>

Dispatch_Deaf(id, item) ==   \* mutant: queues frames for a closing stream too
  /\ streams[id] # NoHandler
  /\ CtrlData(id, item) \/ CtrlOverflow(id, item) \/ CtrlSignal(id, item)
Dispatch(id, item) == StreamCtrl(id, item)

StreamFrame(id, item) ==
  /\ Receiving
  /\ Dispatch(id, item)
  /\ UNCHANGED <<sessionVars, stopEvents, handlerVars, threadQ, stop, workerVars, loopVars>>

-----------------------------------------------------------------------------
(* The handler task.  Once close() has cancelled it, only HandlerCancelled   *)
(* remains.                                                                  *)

\* _release_stream, with its unconditional pop of the stop event
Release(h) ==
  /\ ReleaseStream(h, idOf[h])
  /\ stopEvents' = [stopEvents EXCEPT ![idOf[h]] = NoHandler]

Reject(h) ==
  /\ Release(h)
  /\ GoTo(h, "ended") /\ Send(h, "error")

Submit(h) ==
  /\ stopEvents' = [stopEvents EXCEPT ![idOf[h]] = h]
  /\ wpc' = [wpc EXCEPT ![h] = "queued"]
  /\ poolQ' = Append(poolQ, h)
  /\ GoTo(h, "starting")

\* cols or rows is infinite: int() raises OverflowError, which the parse does
\* not catch, and the task ends with its id claimed
Die(h) == GoTo(h, "ended") /\ UNCHANGED <<tableVars, stopEvents, out, workerVars>>

HandlerBegin(h) ==
  /\ Receiving /\ pc[h] = "spawned"
  /\ \/ h \in HostShells /\ Submit(h) /\ UNCHANGED <<tableVars, out, chunks>>
     \/ /\ h \notin HostShells /\ GoTo(h, "validating")
        /\ UNCHANGED <<tableVars, stopEvents, out, workerVars>>
     \/ Reject(h) /\ UNCHANGED workerVars   \* cols or rows is not a number
     \/ Die(h)
  /\ UNCHANGED <<sessionVars, bridging, threadQ, stop, loopVars>>

\* the answer of container_exists
ValidateDone(h) ==
  /\ Receiving /\ pc[h] = "validating"
  /\ \/ Submit(h) /\ UNCHANGED <<tableVars, out, chunks>>
     \/ Reject(h) /\ UNCHANGED workerVars
  /\ UNCHANGED <<sessionVars, bridging, threadQ, stop, loopVars>>

StartOk(h) ==
  /\ Receiving /\ pc[h] = "starting" /\ h \in started
  /\ IF sess = "open"
       THEN /\ Send(h, "ok") /\ bridging' = bridging \cup {h} /\ GoTo(h, "running")
            /\ UNCHANGED <<tableVars, stopEvents, stop>>
       ELSE \* the ack raised ConnectionClosed: straight to the finally
            /\ stop' = stop \cup {h} /\ Release(h) /\ GoTo(h, "ended")
            /\ UNCHANGED <<bridging, out>>
  /\ UNCHANGED <<sessionVars, threadQ, workerVars, loopVars>>

\* the worker ended before startup, or _PTY_START_TIMEOUT passed
NotStarted_NoTimeout(h) == h \notin started /\ h \in finished    \* mutant
NotStarted(h) == h \notin started

StartFailed(h) ==
  /\ Receiving /\ pc[h] = "starting" /\ NotStarted(h)
  /\ stop' = stop \cup {h}
  /\ Reject(h)
  /\ UNCHANGED <<sessionVars, bridging, threadQ, workerVars, loopVars>>

Offer_DropsClose(h, item) ==   \* mutant: a full queue drops a close as well
  threadQ' = [threadQ EXCEPT ![h] = IF Len(@) < ThreadCap THEN Append(@, item) ELSE @]

\* _offer: drops on a full queue, but makes room for a close
Offer(h, item) ==
  threadQ' = [threadQ EXCEPT ![h] =
    IF Len(@) < ThreadCap THEN Append(@, item)
    ELSE IF item.tag = "close" THEN Append(Tail(@), item) ELSE @]

Bridge(h) ==
  /\ h \in bridging
  /\ TakeItem(h)
  /\ LET item == Head(ctrlQ[h]) IN
       /\ Offer(h, item)
       /\ IF item.tag = "data" /\ Len(threadQ[h]) >= ThreadCap
            THEN DrainBytes(idOf[h], item.n)
            ELSE UNCHANGED <<streamBytes, totalBytes>>
       /\ bridging' = IF item.tag = "close" THEN bridging \ {h} ELSE bridging
  /\ UNCHANGED <<streams, closing, sessionVars, stopEvents, pc, out, stop, workerVars, loopVars>>

Teardown(h) ==
  /\ Receiving /\ pc[h] = "running" /\ h \in finished
  /\ stop' = stop \cup {h}
  /\ bridging' = bridging \ {h}
  /\ threadQ' = [threadQ EXCEPT ![h] = <<>>]   \* nobody reads it any more
  /\ Release(h)
  /\ GoTo(h, "ended") /\ Send(h, "closed")
  /\ UNCHANGED <<sessionVars, workerVars, loopVars>>

\* CancelledError at whichever await the task had reached
HandlerCancelled(h) ==
  /\ sess = "closing" /\ h \in mine /\ pc[h] # "ended"
  /\ GoTo(h, "ended")
  /\ IF pc[h] \in {"starting", "running"}
       THEN stop' = stop \cup {h} /\ Release(h)
       ELSE UNCHANGED <<stop, tableVars, stopEvents>>
  /\ IF h \in bridging THEN Offer(h, Close) ELSE UNCHANGED threadQ
  /\ bridging' = bridging \ {h}
  /\ UNCHANGED <<sessionVars, out, workerVars, loopVars>>

-----------------------------------------------------------------------------
(* The worker thread, run_pty_blocking, and its reader thread. *)

Become(h, state) == wpc' = [wpc EXCEPT ![h] = state]

PoolPick(h) ==
  /\ poolQ # <<>> /\ h = Head(poolQ)
  /\ Cardinality({w \in Handlers : wpc[w] \in Working}) < PtyWorkers
  /\ poolQ' = Tail(poolQ)
  /\ Become(h, "startup")
  /\ UNCHANGED <<tableVars, sessionVars, stopEvents, handlerVars, threadQ, stop, chunks, loopVars>>

\* exec_create/exec_start or Popen: succeeds, or raises out of the worker
WorkerStartup(h) ==
  /\ wpc[h] = "startup"
  /\ \/ Become(h, "test") /\ Post(h, "started", 0)
     \/ Become(h, "exited") /\ Post(h, "done", 0)
  /\ UNCHANGED <<tableVars, sessionVars, stopEvents, handlerVars, threadQ, stop, poolQ, chunks, started, finished>>

\* while not stop_event.is_set()
StopRequested_Ignored(h) == FALSE    \* mutant: only a close ends the loop
StopRequested(h) == h \in stop

WorkerTest(h) ==
  /\ wpc[h] = "test"
  /\ Become(h, IF StopRequested(h) THEN "exiting" ELSE "get")
  /\ UNCHANGED <<tableVars, sessionVars, stopEvents, handlerVars, threadQ, stop, poolQ, chunks, loopVars>>

\* stdin_q.get(timeout=0.1): back to the test when it stays empty; a host
\* shell worker also leaves the loop when the shell has exited
WorkerEmpty(h) ==
  /\ wpc[h] = "get" /\ threadQ[h] = <<>>
  /\ \/ Become(h, "test") /\ UNCHANGED stop
     \/ h \in HostShells /\ Become(h, "exiting") /\ stop' = stop \cup {h}
  /\ UNCHANGED <<tableVars, sessionVars, stopEvents, handlerVars, threadQ, poolQ, chunks, loopVars>>

\* The write to the PTY is non-blocking and may fail; the bytes count as
\* drained either way, and the finally of the loop sets the stop event.
WorkerItem(h) ==
  /\ wpc[h] = "get" /\ threadQ[h] # <<>>
  /\ LET item == Head(threadQ[h])
         leave == Become(h, "exiting") /\ stop' = stop \cup {h}
         again == Become(h, "test") /\ UNCHANGED stop
     IN \/ item.tag = "data" /\ (leave \/ again) /\ Post(h, "drained", item.n)
        \/ item.tag = "close" /\ leave /\ UNCHANGED posted
        \/ item.tag \notin {"data", "close"} /\ again /\ UNCHANGED posted
  /\ threadQ' = [threadQ EXCEPT ![h] = Tail(@)]
  /\ UNCHANGED <<tableVars, sessionVars, stopEvents, handlerVars, poolQ, chunks, started, finished>>

\* the finally (close, join the reader) and the exit code
WorkerExit(h) ==
  /\ wpc[h] = "exiting"
  /\ Become(h, "exited") /\ Post(h, "done", 0)
  /\ UNCHANGED <<tableVars, sessionVars, stopEvents, handlerVars, threadQ, stop, poolQ, chunks, started, finished>>

ReaderAlive_NotJoined(h) == wpc[h] \in Relaying \cup {"exiting", "exited"}    \* mutant
ReaderAlive(h) == wpc[h] \in Relaying \cup {"exiting"}

ReaderChunk(h) ==
  /\ ReaderAlive(h) /\ chunks[h] < MaxChunks
  /\ chunks' = [chunks EXCEPT ![h] = @ + 1]
  /\ Post(h, "chunk", 0)
  /\ UNCHANGED <<tableVars, sessionVars, stopEvents, handlerVars, threadQ, stop, wpc, poolQ, started, finished>>

ReaderEof(h) ==
  /\ wpc[h] \in Relaying /\ h \notin stop
  /\ stop' = stop \cup {h}
  /\ UNCHANGED <<tableVars, sessionVars, stopEvents, handlerVars, threadQ, workerVars, loopVars>>

-----------------------------------------------------------------------------
(* The event loop runs the oldest callback a handler's threads posted.  A    *)
(* drain charges the _Session object the handler was opened in.              *)

RunCallback(h) ==
  /\ posted[h] # <<>>
  /\ posted' = [posted EXCEPT ![h] = Tail(@)]
  /\ LET cb == Head(posted[h]) IN
       /\ started' = IF cb.what = "started" THEN started \cup {h} ELSE started
       /\ finished' = IF cb.what = "done" THEN finished \cup {h} ELSE finished
       /\ IF cb.what = "drained" /\ h \in mine
            THEN DrainBytes(idOf[h], cb.n) ELSE UNCHANGED <<streamBytes, totalBytes>>
       /\ IF cb.what = "chunk" /\ h \in mine
            THEN Send(h, "data") ELSE UNCHANGED out
  /\ UNCHANGED <<streams, ctrlQ, closing, sessionVars, stopEvents, pc, bridging, threadQ, stop, workerVars>>

-----------------------------------------------------------------------------
(* The session. *)

ConnectionLost ==
  /\ sess = "open" /\ sess' = "lost"
  /\ UNCHANGED <<tableVars, mine, idOf, stopEvents, handlerVars, threadQ, stop, workerVars, loopVars>>

StopAll_TasksOnly == stop    \* mutant: cancels the tasks, leaves the threads
StopAll == stop \cup {h \in Handlers : \E id \in Ids : stopEvents[id] = h}

\* _Session.close() up to its gather: set the events, queue the closes,
\* cancel the tasks
SessionClose ==
  /\ sess = "lost" /\ sess' = "closing"
  /\ stop' = StopAll
  /\ CloseAllStreams
  /\ UNCHANGED <<mine, idOf, stopEvents, handlerVars, threadQ, workerVars, loopVars>>

SessionClosed ==
  /\ sess = "closing" /\ \A h \in mine : pc[h] = "ended"
  /\ sess' = "closed"
  /\ UNCHANGED <<tableVars, mine, idOf, stopEvents, handlerVars, threadQ, stop, workerVars, loopVars>>

Reconnect ==
  /\ sess = "closed" /\ sess' = "open"
  /\ mine' = {}
  /\ NewTable
  /\ stopEvents' = [id \in Ids |-> NoHandler]
  /\ UNCHANGED <<idOf, handlerVars, threadQ, stop, workerVars, loopVars>>

-----------------------------------------------------------------------------

HandlerStep(h) ==
  HandlerBegin(h) \/ ValidateDone(h) \/ StartOk(h) \/ StartFailed(h) \/ Teardown(h)
  \/ HandlerCancelled(h)

WorkerStep(h) ==
  PoolPick(h) \/ WorkerStartup(h) \/ WorkerTest(h) \/ WorkerEmpty(h) \/ WorkerItem(h)
  \/ WorkerExit(h)

ReaderStep(h) == ReaderChunk(h) \/ ReaderEof(h)

Next ==
  \/ \E h \in Handlers, id \in Ids \cup {MalformedId} : OpenRefused(h, id)
  \/ \E h \in Handlers, id \in Ids : Open(h, id)
  \/ \E id \in Ids, item \in Frames : StreamFrame(id, item)
  \/ \E h \in Handlers :
       HandlerStep(h) \/ Bridge(h) \/ WorkerStep(h) \/ ReaderStep(h) \/ RunCallback(h)
  \/ ConnectionLost \/ SessionClose \/ SessionClosed \/ Reconnect

(* Every task, thread and posted callback that can run eventually does, and  *)
(* the Docker calls of a validation or a start return, with a result or an   *)
(* error; the peer, the terminal's output and its end are free.              *)
Fairness ==
  /\ \A h \in Handlers :
       /\ WF_vars(HandlerStep(h)) /\ WF_vars(Bridge(h))
       /\ WF_vars(WorkerStep(h)) /\ WF_vars(RunCallback(h))
  /\ WF_vars(SessionClose) /\ WF_vars(SessionClosed)

Spec == Init /\ [][Next]_vars /\ Fairness

-----------------------------------------------------------------------------
(* Properties. *)

Held(h) == SizeOf(ctrlQ[h]) + SizeOf(threadQ[h]) + SizeOf(posted[h])

(* The accounting is honest: what a stream is charged covers every byte that *)
(* sits in its two queues or in a drain report still on its way, so the byte *)
(* ceilings bound memory and not only a counter; and the session's total is  *)
(* the sum over its streams.  (gateway.py 270-309, 604-642)                  *)
BuffersCharged ==
  /\ \A id \in Registered : Held(streams[id]) <= streamBytes[id]
  /\ TotalIsSum

(* No PTY escapes its session: a job in the pool that was not told to stop   *)
(* belongs to a stream the current session still lists, with its stop event  *)
(* registered under its id, so that close() can reach it.  (gateway.py       *)
(* 209-221, 600-602, 662-742: "otherwise PTYs ... outlive the session")      *)
NoOrphanWorker ==
  \A h \in Handlers :
    wpc[h] \notin {"none", "exited"} /\ h \notin stop =>
      /\ h \in mine /\ Receiving
      /\ streams[idOf[h]] = h /\ stopEvents[idOf[h]] = h

Sent(h, kind) == \E i \in DOMAIN out[h] : out[h][i] = kind

Responses == {"ok", "error"}

(* Each open is answered at most once, and stream_closed is a stream's last  *)
(* message: after its ack and after every chunk of its output, although the  *)
(* chunks are sent by tasks of their own.  (gateway.py 615-642, 669-742)     *)
WireOrder ==
  \A h \in Handlers : \A i, j \in DOMAIN out[h] :
    /\ i < j => out[h][i] # "closed"
    /\ out[h][i] \in Responses /\ out[h][j] \in Responses => i = j
    /\ out[h][j] = "closed" => \E m \in 1..j : out[h][m] = "ok"

(* Whatever handlers, bridges and workers do to the table is a step the      *)
(* table promises: in particular only the owner of an id releases it.        *)
ImplementsTable == [][TableNext]_tableVars

(* A close that got into the control queue of a stream ends the stream, even *)
(* through a full worker queue.  (gateway.py 546-562, 604-614)               *)
CloseEndsStream ==
  \A h \in Handlers :
    (pc[h] # "ended" /\ \E i \in DOMAIN ctrlQ[h] : ctrlQ[h][i] = Close) ~> (pc[h] = "ended")

(* A worker that was told to stop returns its pool thread, whichever session *)
(* started it.  (container.py 382-436, host_shell.py 117-177)                *)
StoppedWorkerExits ==
  \A h \in Handlers : (h \in stop /\ wpc[h] \in Working) ~> (wpc[h] = "exited")

\* the task has ended with its id claimed
Abandoned(h) == pc[h] = "ended" /\ \E id \in Ids : streams[id] = h

(* Every accepted open is answered while the connection lasts, even when     *)
(* the PTY pool has no free worker, provided container_exists returns (the   *)
(* wait for that lookup has no timeout): unless an infinite size killed the  *)
(* task before it began, which leaves its id claimed.  (gateway.py 648-696,  *)
(* 757-760, 777-789)                                                         *)
OpenAnswered ==
  \A h \in Handlers :
    (pc[h] = "spawned") ~> (Sent(h, "ok") \/ Sent(h, "error") \/ sess # "open" \/ Abandoned(h))

(* Comment at gateway.py 286-289, "Enqueue the close once, then stop         *)
(* accepting frames for this stream entirely".  While a stream is marked     *)
(* closing its frames are ignored, so a close must be on its way: in one of  *)
(* its queues, or taken from them by a worker that is leaving.               *)
CloseOnItsWay ==
  \A id \in closing :
    LET h == streams[id] IN
      \/ \E i \in DOMAIN ctrlQ[h] : ctrlQ[h][i] = Close
      \/ \E i \in DOMAIN threadQ[h] : threadQ[h][i] = Close
      \/ h \in stop

(* CHANGELOG.md 487: the order on the wire is ack, stream_data,              *)
(* stream_closed.                                                            *)
AckBeforeData ==
  \A h \in Handlers : \A j \in DOMAIN out[h] :
    out[h][j] = "data" => \E i \in 1..j : out[h][i] = "ok"
=============================================================================
