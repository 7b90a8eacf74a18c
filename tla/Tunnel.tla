------------------------------- MODULE Tunnel -------------------------------
(***************************************************************************)
(* TCP tunnels over one gateway connection: _handle_tcp_tunnel_session of  *)
(* agent/gateway.py with its two tasks, _read_target_to_ws (target to      *)
(* control plane, gated by pause and resume) and _consume_ctrl (control    *)
(* plane to target), and the target's socket.  The control plane numbers   *)
(* the data frames of a stream 1, 2, ... so that a gap is visible.         *)
(***************************************************************************)
EXTENDS StreamTable

CONSTANTS
  HighWater,  \* frames the socket buffers before writer.drain() blocks
  MaxFrames,  \* bound: data frames sent to one stream
  MaxQueue    \* bound: queue length up to which pause, resume and close are sent

ASSUME TunnelAssumption ==
  /\ Handlers \subseteq Nat /\ Tunnels = Handlers
  /\ HighWater \in Nat /\ MaxFrames \in Nat /\ MaxQueue \in Nat

VARIABLES
  sess,       \* "open", "lost", "closing", "closed"
  mine,       \* handlers of the current session
  cancelled,  \* handler tasks with a CancelledError to be delivered
  idOf,       \* [Handlers -> Ids], the stream_id of the request (NoHandler: none yet)
  frames,     \* [Handlers -> Nat], data frames the control plane sent to the stream
  pc,         \* [Handlers -> handler task state]
  reader,     \* [Handlers -> state of _read_target_to_ws]
  consumer,   \* [Handlers -> state of _consume_ctrl]
  writing,    \* [Handlers -> Nat], size of the frame being drained
  wrote,      \* [Handlers -> Nat], number of the last frame written
  paused,     \* handlers whose not_paused event is clear
  fresh,      \* handlers holding a chunk read since the last pause or resume
  leaked,     \* handlers that sent such a chunk while paused
  target,     \* [Handlers -> state of the target's connection]
  unsent,     \* [Handlers -> Nat], frames in the socket's write buffer
  out         \* [Handlers -> responses and stream_closed sent]

sessionVars == <<sess, mine, cancelled>>
streamVars == <<idOf, frames>>
taskVars == <<pc, reader, consumer, writing, wrote>>
gateVars == <<paused, fresh, leaked>>
targetVars == <<target, unsent>>
vars == <<tableVars, sessionVars, streamVars, taskVars, gateVars, targetVars, out>>

TypeOK ==
  /\ TableType
  /\ sess \in {"open", "lost", "closing", "closed"}
  /\ mine \subseteq Handlers /\ cancelled \subseteq Handlers
  /\ idOf \in [Handlers -> Ids \cup {NoHandler}] /\ frames \in [Handlers -> Nat]
  /\ pc \in [Handlers -> {"idle", "opening", "relaying", "closing", "ended"}]
  /\ reader \in [Handlers -> {"off", "top", "wait", "read", "hold", "send", "ended"}]
  /\ consumer \in [Handlers -> {"off", "get", "drain", "ended"}]
  /\ writing \in [Handlers -> Nat] /\ wrote \in [Handlers -> Nat]
  /\ paused \subseteq Handlers /\ fresh \subseteq Handlers /\ leaked \subseteq Handlers
  /\ target \in [Handlers -> {"none", "up", "gone", "closed"}]
  /\ unsent \in [Handlers -> Nat]
  /\ out \in [Handlers -> SUBSET {"ok", "error", "closed"}]

Init ==
  /\ TableInit
  /\ sess = "open" /\ mine = {} /\ cancelled = {}
  /\ idOf = [h \in Handlers |-> NoHandler] /\ frames = [h \in Handlers |-> 0]
  /\ pc = [h \in Handlers |-> "idle"]
  /\ reader = [h \in Handlers |-> "off"] /\ consumer = [h \in Handlers |-> "off"]
  /\ writing = [h \in Handlers |-> 0] /\ wrote = [h \in Handlers |-> 0]
  /\ paused = {} /\ fresh = {} /\ leaked = {}
  /\ target = [h \in Handlers |-> "none"] /\ unsent = [h \in Handlers |-> 0]
  /\ out = [h \in Handlers |-> {}]

Receiving == sess \in {"open", "lost"}

Send(h, kind) == out' = IF sess = "open" THEN [out EXCEPT ![h] = @ \cup {kind}] ELSE out

-----------------------------------------------------------------------------
(* The receive loop. *)

\* handlers are numbered in the order of their requests
NextRequest(h) == pc[h] = "idle" /\ \A g \in Handlers : g < h => pc[g] # "idle"

OpenRefused(h, id) ==
  /\ Receiving /\ NextRequest(h) /\ ClaimError(id)
  /\ pc' = [pc EXCEPT ![h] = "ended"] /\ Send(h, "error")
  /\ UNCHANGED <<tableVars, sessionVars, streamVars, reader, consumer, writing, wrote,
                 gateVars, targetVars>>

Open(h, id) ==
  /\ Receiving /\ NextRequest(h)
  /\ Claim(h, id)
  /\ pc' = [pc EXCEPT ![h] = "opening"]
  /\ mine' = mine \cup {h}
  /\ idOf' = [idOf EXCEPT ![h] = id]
  /\ UNCHANGED <<sess, cancelled, frames, reader, consumer, writing, wrote, gateVars, targetVars, out>>

Dispatch_Deaf(id, item) ==   \* mutant: queues frames for a closing stream too
  \/ CtrlData(id, item) \/ CtrlOverflow(id, item) \/ CtrlSignal(id, item)
Dispatch(id, item) == IF Live(id) THEN StreamCtrl(id, item) ELSE UNCHANGED tableVars

\* the control plane goes on sending to a stream the agent is closing
StreamFrame(id, item) ==
  /\ Receiving /\ streams[id] # NoHandler
  /\ LET h == streams[id] IN
       \/ item.tag = "data" /\ item.k = frames[h] + 1 /\ frames' = [frames EXCEPT ![h] = item.k]
       \/ item.tag # "data" /\ Len(ctrlQ[h]) < MaxQueue /\ UNCHANGED frames
  /\ Dispatch(id, item)
  /\ UNCHANGED <<sessionVars, idOf, taskVars, gateVars, targetVars, out>>

-----------------------------------------------------------------------------
(* The handler task. *)

\* target_port is not a number, or open_connection fails
OpenFailed(h) ==
  /\ pc[h] = "opening" /\ h \notin cancelled
  /\ ReleaseStream(h, idOf[h]) /\ frames' = [frames EXCEPT ![h] = 0]
  /\ pc' = [pc EXCEPT ![h] = "ended"] /\ Send(h, "error")
  /\ UNCHANGED <<sessionVars, idOf, reader, consumer, writing, wrote, gateVars, targetVars>>

\* target_port is infinite: int() raises OverflowError, which the parse does
\* not catch, and the task ends with its id claimed
OpenDies(h) ==
  /\ pc[h] = "opening" /\ h \notin cancelled
  /\ pc' = [pc EXCEPT ![h] = "ended"]
  /\ UNCHANGED <<tableVars, sessionVars, streamVars, reader, consumer, writing, wrote,
                 gateVars, targetVars, out>>

\* The ack is outside any try: when it raises, the task ends with the stream
\* still registered and the writer open.
OpenOk(h) ==
  /\ pc[h] = "opening" /\ h \notin cancelled
  /\ target' = [target EXCEPT ![h] = "up"]
  /\ Send(h, "ok")
  /\ IF sess = "open"
       THEN /\ pc' = [pc EXCEPT ![h] = "relaying"]
            /\ reader' = [reader EXCEPT ![h] = "top"]
            /\ consumer' = [consumer EXCEPT ![h] = "get"]
       ELSE pc' = [pc EXCEPT ![h] = "ended"] /\ UNCHANGED <<reader, consumer>>
  /\ UNCHANGED <<tableVars, sessionVars, streamVars, writing, wrote, gateVars, unsent>>

\* asyncio.wait(..., FIRST_COMPLETED)
AllCompleted(h) == reader[h] = "ended" /\ consumer[h] = "ended"    \* mutant
FirstCompleted(h) == reader[h] = "ended" \/ consumer[h] = "ended"

\* the finally of a write that is cancelled
CancelWrite_NoFinally(h) == UNCHANGED <<streamBytes, totalBytes>>   \* mutant
CancelWrite(h) ==
  IF consumer[h] = "drain"
    THEN DrainBytes(idOf[h], writing[h]) ELSE UNCHANGED <<streamBytes, totalBytes>>

\* One task ended, or the handler was cancelled: cancel both, which drains
\* the frame being written, and close the writer.  The tasks' own variables
\* are gone with them.
TearDown(h) ==
  /\ pc[h] = "relaying"
  /\ FirstCompleted(h) \/ h \in cancelled
  /\ pc' = [pc EXCEPT ![h] = "closing"]
  /\ reader' = [reader EXCEPT ![h] = "ended"]
  /\ consumer' = [consumer EXCEPT ![h] = "ended"]
  /\ CancelWrite(h)
  /\ writing' = [writing EXCEPT ![h] = 0] /\ wrote' = [wrote EXCEPT ![h] = 0]
  /\ paused' = paused \ {h} /\ fresh' = fresh \ {h} /\ UNCHANGED leaked
  /\ cancelled' = cancelled \ {h}
  /\ UNCHANGED <<streams, ctrlQ, closing, sess, mine, streamVars, targetVars, out>>

\* wait_closed() returns once the write buffer is flushed or the peer is gone
Flushed_PeerCloses(h) == target[h] = "gone"     \* mutant: waits for the peer to close
Flushed(h) == unsent[h] = 0 \/ target[h] = "gone"

Closed(h) ==
  /\ pc[h] = "closing" /\ h \notin cancelled
  /\ Flushed(h)
  /\ target' = [target EXCEPT ![h] = "closed"]
  /\ ReleaseStream(h, idOf[h]) /\ frames' = [frames EXCEPT ![h] = 0]
  /\ pc' = [pc EXCEPT ![h] = "ended"] /\ Send(h, "closed")
  /\ UNCHANGED <<sessionVars, idOf, reader, consumer, writing, wrote, gateVars, unsent>>

\* A cancellation while opening, or during wait_closed(): nothing more runs.
HandlerCancelled(h) ==
  /\ h \in cancelled /\ pc[h] \in {"opening", "closing"}
  /\ pc' = [pc EXCEPT ![h] = "ended"]
  /\ cancelled' = cancelled \ {h}
  /\ UNCHANGED <<tableVars, sess, mine, streamVars, reader, consumer, writing, wrote,
                 gateVars, targetVars, out>>

-----------------------------------------------------------------------------
(* _read_target_to_ws *)

Reading(h, from) == pc[h] = "relaying" /\ reader[h] = from
ReaderAt(h, to) == reader' = [reader EXCEPT ![h] = to]

ReaderUnchanged ==
  UNCHANGED <<tableVars, sessionVars, streamVars, pc, consumer, writing, wrote, paused,
              targetVars, out>>

\* a chunk on the wire, or lost with the connection
SendChunk(h, readNow) ==
  /\ ReaderAt(h, IF sess = "open" THEN "top" ELSE "ended")
  /\ leaked' = IF h \in paused /\ (readNow \/ h \in fresh) THEN leaked \cup {h} ELSE leaked
  /\ fresh' = fresh \ {h}
  /\ ReaderUnchanged

ReadTop(h) ==
  /\ Reading(h, "top")
  /\ ReaderAt(h, IF h \in paused THEN "wait" ELSE "read")
  /\ UNCHANGED <<fresh, leaked>> /\ ReaderUnchanged

ReadChunk_NoGate(h) ==   \* mutant: waits for the gate before the read only
  Reading(h, "read") /\ target[h] = "up" /\ SendChunk(h, TRUE)

ReadChunk(h) ==
  /\ Reading(h, "read") /\ target[h] = "up"
  /\ IF h \in paused
       THEN /\ ReaderAt(h, "hold") /\ fresh' = fresh \cup {h}
            /\ UNCHANGED leaked /\ ReaderUnchanged
       ELSE SendChunk(h, TRUE)

\* end of file, or the read raises
ReadEnd(h) ==
  /\ Reading(h, "read")
  /\ ReaderAt(h, "ended")
  /\ UNCHANGED <<fresh, leaked>> /\ ReaderUnchanged

\* woken from the second wait: Event.wait() does not look at the flag again
ReadSend(h) == Reading(h, "send") /\ SendChunk(h, FALSE)

-----------------------------------------------------------------------------
(* _consume_ctrl *)

Consuming(h, at) == pc[h] = "relaying" /\ consumer[h] = at
ConsumerAt(h, to) == consumer' = [consumer EXCEPT ![h] = to]

ConsumeData(h) ==
  /\ Consuming(h, "get") /\ TakeItem(h) /\ Head(ctrlQ[h]).tag = "data"
  /\ ConsumerAt(h, "drain")
  /\ writing' = [writing EXCEPT ![h] = Head(ctrlQ[h]).n]
  /\ wrote' = [wrote EXCEPT ![h] = Head(ctrlQ[h]).k]
  /\ unsent' = IF target[h] = "up" THEN [unsent EXCEPT ![h] = @ + 1] ELSE unsent
  /\ UNCHANGED <<streams, streamBytes, totalBytes, closing, sessionVars, streamVars, pc, reader,
                 gateVars, target, out>>

\* writer.drain() returns, or raises because the connection is gone
DrainDone(h) ==
  /\ Consuming(h, "drain")
  /\ \/ target[h] = "up" /\ unsent[h] <= HighWater /\ ConsumerAt(h, "get")
     \/ target[h] = "gone" /\ ConsumerAt(h, "ended")
  /\ DrainBytes(idOf[h], writing[h])
  /\ writing' = [writing EXCEPT ![h] = 0]
  /\ UNCHANGED <<streams, ctrlQ, closing, sessionVars, streamVars, pc, reader, wrote,
                 gateVars, targetVars, out>>

ConsumeSignal(h) ==
  /\ Consuming(h, "get") /\ TakeItem(h) /\ Head(ctrlQ[h]).tag # "data"
  /\ LET tag == Head(ctrlQ[h]).tag IN
       /\ ConsumerAt(h, IF tag = "close" THEN "ended" ELSE "get")
       /\ paused' = CASE tag = "pause" -> paused \cup {h}
                      [] tag = "resume" -> paused \ {h}
                      [] OTHER -> paused
       /\ fresh' = IF tag \in {"pause", "resume"} THEN fresh \ {h} ELSE fresh
       /\ reader' = IF tag = "resume"
            THEN [reader EXCEPT ![h] = CASE @ = "wait" -> "read" [] @ = "hold" -> "send" [] OTHER -> @]
            ELSE reader
  /\ UNCHANGED <<streams, streamBytes, totalBytes, closing, sessionVars, streamVars, pc, writing,
                 wrote, leaked, targetVars, out>>

-----------------------------------------------------------------------------
(* The target: it takes what the socket holds, or goes away. *)

TargetTakes(h) ==
  /\ target[h] = "up" /\ unsent[h] > 0 /\ pc[h] \in {"relaying", "closing"}
  /\ unsent' = [unsent EXCEPT ![h] = @ - 1]
  /\ UNCHANGED <<tableVars, sessionVars, streamVars, taskVars, gateVars, target, out>>

TargetGone(h) ==
  /\ target[h] = "up" /\ pc[h] \in {"relaying", "closing"}
  /\ target' = [target EXCEPT ![h] = "gone"]
  /\ unsent' = [unsent EXCEPT ![h] = 0]
  /\ UNCHANGED <<tableVars, sessionVars, streamVars, taskVars, gateVars, out>>

-----------------------------------------------------------------------------
(* The session. *)

ConnectionLost ==
  /\ sess = "open" /\ sess' = "lost"
  /\ UNCHANGED <<tableVars, mine, cancelled, streamVars, taskVars, gateVars, targetVars, out>>

SessionClose ==
  /\ sess = "lost" /\ sess' = "closing"
  /\ CloseAllStreams
  /\ cancelled' = {h \in mine : pc[h] # "ended"}
  /\ UNCHANGED <<mine, streamVars, taskVars, gateVars, targetVars, out>>

\* the gather of close() returns
SessionClosed ==
  /\ sess = "closing" /\ \A h \in mine : pc[h] = "ended"
  /\ sess' = "closed"
  /\ UNCHANGED <<tableVars, mine, cancelled, streamVars, taskVars, gateVars, targetVars, out>>

Reconnect ==
  /\ sess = "closed" /\ sess' = "open"
  /\ mine' = {}
  /\ NewTable /\ frames' = [h \in Handlers |-> 0]
  /\ UNCHANGED <<cancelled, idOf, taskVars, gateVars, targetVars, out>>

-----------------------------------------------------------------------------

HandlerStep(h) ==
  OpenFailed(h) \/ OpenDies(h) \/ OpenOk(h) \/ TearDown(h) \/ Closed(h) \/ HandlerCancelled(h)
ReaderStep(h) == ReadTop(h) \/ ReadSend(h)
ConsumerStep(h) == ConsumeData(h) \/ DrainDone(h) \/ ConsumeSignal(h)

Next ==
  \/ \E h \in Handlers, id \in Ids : OpenRefused(h, id) \/ Open(h, id)
  \/ \E id \in Ids, item \in Frames : StreamFrame(id, item)
  \/ \E h \in Handlers :
       \/ HandlerStep(h) \/ ReaderStep(h) \/ ReadChunk(h) \/ ReadEnd(h) \/ ConsumerStep(h)
       \/ TargetTakes(h) \/ TargetGone(h)
  \/ ConnectionLost \/ SessionClose \/ SessionClosed \/ Reconnect

(* The agent's tasks run; nothing is assumed of the target. *)
Fairness ==
  /\ \A h \in Handlers :
       WF_vars(HandlerStep(h)) /\ WF_vars(ReaderStep(h)) /\ WF_vars(ConsumerStep(h))
  /\ WF_vars(SessionClose) /\ WF_vars(SessionClosed)

Spec == Init /\ [][Next]_vars /\ Fairness

(* ... and the targets read what they are sent. *)
DrainingSpec == Spec /\ \A h \in Handlers : WF_vars(TargetTakes(h))

-----------------------------------------------------------------------------
(* Properties. *)

(* A tunnel is charged exactly what waits for its target, so the ceilings    *)
(* bound the agent's memory, and the session total is the sum.  (gateway.py  *)
(* 270-309, 937-948)                                                         *)
ChargedExactly ==
  /\ \A id \in Registered : streamBytes[id] = SizeOf(ctrlQ[streams[id]]) + writing[streams[id]]
  /\ TotalIsSum

IsData(item) == item.tag = "data"

\* a data frame is numbered one after the data frame before it, the first
\* one after last
Consecutive(q, last) ==
  \A i \in DOMAIN q : IsData(q[i]) =>
    \/ q[i].k = last + 1 /\ \A j \in 1..(i - 1) : ~IsData(q[j])
    \/ \E j \in 1..(i - 1) :
         IsData(q[j]) /\ q[i].k = q[j].k + 1 /\ \A m \in (j + 1)..(i - 1) : ~IsData(q[m])

(* No gap: the data frames waiting for a target are the ones that follow the *)
(* last frame written to it.  Past a ceiling the stream is closed, never     *)
(* continued with a frame missing.  (gateway.py 94-98, 859-868)              *)
NoGap == \A h \in Handlers : pc[h] = "relaying" => Consecutive(ctrlQ[h], wrote[h])

(* A chunk read during a pause, or whose read was under way when the pause   *)
(* came, is not sent before a resume.  A chunk that had waited for a resume  *)
(* may still go out when a new pause follows at once.  (gateway.py 909-935)  *)
PauseHolds == leaked = {}

(* The tunnels use the stream table as it promises. *)
ImplementsTable == [][TableNext]_tableVars

(* A close that got into a tunnel's queue ends the tunnel, provided the      *)
(* target reads.  (gateway.py 937-984)                                       *)
CloseEndsTunnel ==
  \A h \in Handlers :
    (pc[h] = "relaying" /\ \E i \in DOMAIN ctrlQ[h] : ctrlQ[h][i] = Close) ~> (pc[h] = "ended")

(* A lost connection leads to a new one: close() of the session returns.     *)
(* (gateway.py 112, "reconnecting on failure", 209-221)                      *)
SessionEnds == (sess = "lost") ~> (sess = "closed")
=============================================================================
