----------------------------- MODULE StreamTable -----------------------------
(***************************************************************************)
(* The stream table of one gateway session (agent/gateway.py): which       *)
(* handler owns which stream id, the control queue between the receive     *)
(* loop and each handler, and the count of bytes buffered towards the      *)
(* targets, per stream and for the session.                                *)
(*                                                                         *)
(* The operators below are the whole of _claim_stream, _stream_ctrl,       *)
(* _drain_stream_bytes and _release_stream.  PtyStream and Tunnel take     *)
(* them as the steps of their handlers; TableSpec is what the table        *)
(* promises on its own, whoever its users are: ids are owned by one        *)
(* handler at a time and the byte ceilings are never exceeded.             *)
(***************************************************************************)
EXTENDS Naturals, Sequences, FiniteSets, Functions

CONSTANTS
  Handlers,    \* handler tasks, one for each request that opens a stream
  NoHandler,   \* "no such key": an id that no handler owns
  Ids,         \* well-formed stream ids
  Tunnels,     \* the handlers opened with tcp.tunnel.open
  Frames,      \* control tuples the control plane's frames may decode to
  MaxStreams,  \* _MAX_ACTIVE_STREAMS
  CtrlCap,     \* maxsize of a PTY's control queue (a tunnel's has none)
  StreamCap,   \* _TUNNEL_MAX_BUFFERED_BYTES
  SessionCap   \* _SESSION_MAX_BUFFERED_BYTES

VARIABLES
  streams,      \* [Ids -> Handlers or NoHandler], sess.streams
  ctrlQ,        \* [Handlers -> Seq(Item)], each handler's own queue
  streamBytes,  \* [Ids -> Nat], sess.stream_bytes (0 for an absent key)
  totalBytes,   \* sess.total_stream_bytes
  closing       \* sess.closing_streams

tableVars == <<streams, ctrlQ, streamBytes, totalBytes, closing>>

-----------------------------------------------------------------------------
(* Control tuples.  n is the size of a data tuple and k numbers the data    *)
(* frames of one stream in the order the control plane sent them.           *)

Tags == {"data", "resize", "pause", "resume", "close"}
Item == [tag : Tags, n : Nat, k : Nat]

Data(n, k) == [tag |-> "data", n |-> n, k |-> k]
Signal(tag) == [tag |-> tag, n |-> 0, k |-> 0]
Close == Signal("close")

ASSUME TableAssumption ==
  /\ NoHandler \notin Handlers
  /\ Tunnels \subseteq Handlers
  /\ Frames \subseteq Item
  /\ \A item \in Frames : item.tag # "data" => item.n = 0
  /\ IsFiniteSet(Ids)
  /\ MaxStreams \in Nat /\ CtrlCap \in Nat
  /\ StreamCap \in Nat /\ SessionCap \in Nat

TableType ==
  /\ streams \in [Ids -> Handlers \cup {NoHandler}]
  /\ ctrlQ \in [Handlers -> Seq(Item)]
  /\ streamBytes \in [Ids -> Nat]
  /\ totalBytes \in Nat
  /\ closing \subseteq Ids

\* the bytes in a queue
SizeOf(q) == SumFunction([i \in DOMAIN q |-> q[i].n])

Registered == {id \in Ids : streams[id] # NoHandler}

TableInit ==
  /\ streams = [id \in Ids |-> NoHandler]
  /\ ctrlQ = [h \in Handlers |-> <<>>]
  /\ streamBytes = [id \in Ids |-> 0]
  /\ totalBytes = 0
  /\ closing = {}

-----------------------------------------------------------------------------
(* _claim_stream *)

ClaimError(id) ==
  id \in Ids => streams[id] # NoHandler \/ Cardinality(Registered) >= MaxStreams

Claim(h, id) ==
  /\ id \in Ids /\ ~ClaimError(id)
  /\ streams' = [streams EXCEPT ![id] = h]
  /\ streamBytes' = [streamBytes EXCEPT ![id] = 0]
  /\ ctrlQ' = [ctrlQ EXCEPT ![h] = <<>>]
  /\ UNCHANGED <<totalBytes, closing>>

(* _stream_ctrl: a frame for an unknown or closing stream changes nothing,  *)
(* so only the frames for a live one are actions.                           *)

Live(id) == streams[id] # NoHandler /\ id \notin closing

HasRoom(h) == h \in Tunnels \/ Len(ctrlQ[h]) < CtrlCap

\* put_nowait under suppress(QueueFull)
PutIfRoom(h, item) ==
  ctrlQ' = IF HasRoom(h) THEN [ctrlQ EXCEPT ![h] = Append(@, item)] ELSE ctrlQ

Overflows_Already(id, n) ==    \* mutant: looks at what is buffered, without the frame
  streamBytes[id] > StreamCap \/ totalBytes > SessionCap
Overflows(id, n) ==
  \/ streamBytes[id] + n > StreamCap
  \/ totalBytes + n > SessionCap

CtrlOverflow_Drops(id, item) ==   \* mutant: drops the frame, keeps the stream
  item.tag = "data" /\ Overflows(id, item.n) /\ UNCHANGED tableVars
CtrlOverflow(id, item) ==
  /\ item.tag = "data" /\ Overflows(id, item.n)
  /\ closing' = closing \cup {id}
  /\ PutIfRoom(streams[id], Close)
  /\ UNCHANGED <<streams, streamBytes, totalBytes>>

CtrlData(id, item) ==
  /\ item.tag = "data" /\ ~Overflows(id, item.n)
  /\ HasRoom(streams[id])
  /\ PutIfRoom(streams[id], item)
  /\ streamBytes' = [streamBytes EXCEPT ![id] = @ + item.n]
  /\ totalBytes' = totalBytes + item.n
  /\ UNCHANGED <<streams, closing>>

CtrlDropped(id, item) ==
  /\ item.tag = "data" /\ ~Overflows(id, item.n)
  /\ ~HasRoom(streams[id])
  /\ UNCHANGED tableVars

CtrlSignal(id, item) ==
  /\ item.tag # "data"
  /\ PutIfRoom(streams[id], item)
  /\ UNCHANGED <<streams, streamBytes, totalBytes, closing>>

StreamCtrl(id, item) ==
  /\ Live(id)
  /\ \/ CtrlOverflow(id, item)
     \/ CtrlData(id, item)
     \/ CtrlDropped(id, item)
     \/ CtrlSignal(id, item)

(* ctrl_q.get() by the consumer of the queue *)
TakeItem(h) ==
  /\ ctrlQ[h] # <<>>
  /\ ctrlQ' = [ctrlQ EXCEPT ![h] = Tail(@)]

(* _drain_stream_bytes *)
Drained_Unclamped(id, n) == n        \* mutant: no min with what is charged
Drained_OneMore(id, n) == n + 1      \* mutant: off by one
Drained(id, n) == IF n < streamBytes[id] THEN n ELSE streamBytes[id]

DrainBytes(id, n) ==
  /\ streamBytes' = [streamBytes EXCEPT ![id] = @ - Drained(id, n)]
  /\ totalBytes' = IF Drained(id, n) > totalBytes
                     THEN 0 ELSE totalBytes - Drained(id, n)

(* _release_stream *)
AfterRelease_Kept(id) == totalBytes    \* mutant: forgets the remaining bytes
AfterRelease(id) == IF streamBytes[id] > totalBytes THEN 0 ELSE totalBytes - streamBytes[id]

StillClosing_Marked(id) == closing     \* mutant: the id stays marked closing
StillClosing(id) == closing \ {id}

ReleaseStream(h, id) ==
  /\ IF streams[id] = h
       THEN /\ streams' = [streams EXCEPT ![id] = NoHandler]
            /\ streamBytes' = [streamBytes EXCEPT ![id] = 0]
            /\ totalBytes' = AfterRelease(id)
       ELSE UNCHANGED <<streams, streamBytes, totalBytes>>
  /\ closing' = StillClosing(id)
  /\ ctrlQ' = [ctrlQ EXCEPT ![h] = <<>>]   \* the queue goes with its handler

(* _Session.close() puts a close into every registered queue that has room. *)
CloseAllStreams ==
  /\ ctrlQ' = [h \in Handlers |->
                 IF (\E id \in Ids : streams[id] = h) /\ HasRoom(h)
                   THEN Append(ctrlQ[h], Close) ELSE ctrlQ[h]]
  /\ UNCHANGED <<streams, streamBytes, totalBytes, closing>>

(* A new connection starts with a new _Session. *)
NewTable ==
  /\ streams' = [id \in Ids |-> NoHandler]
  /\ streamBytes' = [id \in Ids |-> 0]
  /\ totalBytes' = 0
  /\ closing' = {}
  /\ ctrlQ' = [h \in Handlers |-> <<>>]

-----------------------------------------------------------------------------
(* What the table promises, for any consumer: a handler claims one stream,   *)
(* and a consumer may take items from a queue, report bytes drained from a   *)
(* stream, do both, or release a stream that is its own.                     *)

ClaimOne ==
  \E h \in Handlers, id \in Ids :
     (\A other \in Ids : streams[other] # h) /\ Claim(h, id)

Consume ==
  \E h \in Handlers : TakeItem(h) /\ UNCHANGED <<streams, streamBytes, totalBytes, closing>>

Drain ==
  \E id \in Ids, n \in 0..StreamCap :
     /\ DrainBytes(id, n)
     /\ UNCHANGED <<streams, closing>>
     /\ ctrlQ' = ctrlQ \/ \E h \in Handlers : TakeItem(h)

ReleaseOwn ==
  \E h \in Handlers, id \in Ids :
     streams[id] = h /\ ReleaseStream(h, id)

TableNext ==
  \/ ClaimOne
  \/ \E id \in Ids, item \in Frames : StreamCtrl(id, item)
  \/ Consume
  \/ Drain
  \/ ReleaseOwn
  \/ CloseAllStreams
  \/ NewTable

TableSpec == TableInit /\ [][TableNext]_tableVars

-----------------------------------------------------------------------------
(* The ceilings hold whatever the consumers do: no stream is charged more    *)
(* than its own ceiling, the session no more than the aggregate one, and no  *)
(* more than MaxStreams ids are registered.  (gateway.py 276-282, 527)       *)
WithinCeilings ==
  /\ \A id \in Ids : streamBytes[id] <= StreamCap
  /\ totalBytes <= SessionCap
  /\ Cardinality(Registered) <= MaxStreams

(* Only registered streams are charged or marked closing: a released id      *)
(* starts its next life with no bytes held against it and is not deaf to its *)
(* frames.  (gateway.py 534-543)                                             *)
ReleasedIsClean ==
  \A id \in Ids : streams[id] = NoHandler => streamBytes[id] = 0 /\ id \notin closing

(* The session's count is the sum over its streams, although both are kept   *)
(* and clamped apart from each other.  (gateway.py 298-309, 534-543)         *)
TotalIsSum == totalBytes = SumFunction(streamBytes)
=============================================================================
