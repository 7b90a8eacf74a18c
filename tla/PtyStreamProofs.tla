--------------------------- MODULE PtyStreamProofs ---------------------------
(***************************************************************************)
(* Proofs about the PTY sessions, for any number of streams, workers,      *)
(* frames and queue capacities: they use the stream table as TableSpec     *)
(* promises, no worker escapes the session that started it, and what is    *)
(* sent for a stream keeps its order on the wire.                          *)
(***************************************************************************)
EXTENDS PtyStream, StreamTableProofs

-----------------------------------------------------------------------------
(* The parts of the inductive invariant. *)

Active(h) == pc[h] \in {"spawned", "validating", "starting", "running"}

(* An id is registered for the handler that was opened with it, and a        *)
(* handler has its id until it ends; its bridge runs only while it does.     *)
Owns ==
  /\ \A id \in Ids :
       streams[id] # NoHandler => pc[streams[id]] # "idle" /\ idOf[streams[id]] = id
  /\ \A h \in Handlers : Active(h) => h \in mine /\ idOf[h] \in Ids /\ streams[idOf[h]] = h
  /\ \A h \in bridging : pc[h] = "running"
  /\ sess = "closed" => \A h \in mine : pc[h] = "ended"

(* A job enters the pool once, and while it is not told to stop its handler  *)
(* waits for it, under an id that close() stops.                             *)
Tracked ==
  /\ \A h \in Handlers : pc[h] \in {"idle", "spawned", "validating"} => wpc[h] = "none"
  /\ \A h \in Handlers : wpc[h] # "none" => idOf[h] \in Ids
  /\ \A i \in DOMAIN poolQ : wpc[poolQ[i]] = "queued"
  /\ \A i, j \in DOMAIN poolQ : poolQ[i] = poolQ[j] => i = j
  /\ \A h \in Handlers :
       wpc[h] \notin {"none", "exited"} /\ h \notin stop =>
         pc[h] \in {"starting", "running"} /\ Receiving /\ stopEvents[idOf[h]] = h

(* Bytes on their way to a worker, or reported by one, were admitted under   *)
(* the ceiling.                                                              *)
Admitted(q) == \A i \in DOMAIN q : q[i].tag = "data" => q[i].n <= StreamCap
Fits ==
  \A h \in Handlers :
    /\ Admitted(ctrlQ[h]) /\ Admitted(threadQ[h])
    /\ \A i \in DOMAIN posted[h] : posted[h][i].n <= StreamCap

(* The end of a worker is the last thing its threads report.                 *)
DoneIsLast ==
  \A h \in Handlers :
    /\ wpc[h] \in {"none", "queued"} => posted[h] = <<>>
    /\ \A i \in DOMAIN posted[h] :
         posted[h][i].what = "done" =>
           i = Len(posted[h]) /\ wpc[h] = "exited" /\ h \notin finished
    /\ h \in finished => posted[h] = <<>> /\ wpc[h] = "exited"

(* What was sent for a handler, by the state it is in.                       *)
Answered ==
  \A h \in Handlers :
    /\ \A i \in DOMAIN out[h] : out[h][i] = "closed" =>
         /\ i = Len(out[h]) /\ pc[h] = "ended" /\ h \in finished
         /\ \E m \in 1..i : out[h][m] = "ok"
    /\ \A i, j \in DOMAIN out[h] :
         out[h][i] \in Responses /\ out[h][j] \in Responses => i = j
    /\ pc[h] \in {"idle", "spawned", "validating", "starting"} =>
         \A i \in DOMAIN out[h] : out[h][i] \notin Responses
    /\ pc[h] = "running" => \E i \in DOMAIN out[h] : out[h][i] = "ok"

(* A stream is charged for what sits in its queues or is being reported.     *)
(* Once a handler has ended, only a session that takes no more requests can  *)
(* still hear its threads report bytes: the id has no other owner by then.   *)
Underway(h) == SizeOf(threadQ[h]) + SizeOf(posted[h])
LateIsHarmless(h) ==
  Underway(h) # 0 =>
    \/ pc[h] = "running"
    \/ /\ pc[h] = "ended"
       /\ h \in mine => ~Receiving /\ idOf[h] \in Ids /\ streams[idOf[h]] \in {h, NoHandler}
Covers(id) == streams[id] # NoHandler => Held(streams[id]) <= streamBytes[id]
Covered == (\A h \in Handlers : LateIsHarmless(h)) /\ (\A id \in Ids : Covers(id))

PtyInv == TypeOK /\ IInv /\ Owns /\ Tracked /\ Fits /\ DoneIsLast /\ Answered /\ Covered

-----------------------------------------------------------------------------
(* What the sessions do to the stream table, it allows any user to do.       *)

LEMMA OpenTable == PtyInv => \A h \in Handlers, id \in Ids : Open(h, id) => ClaimOne
<1> SUFFICES ASSUME PtyInv, NEW h \in Handlers, NEW id \in Ids, Open(h, id) PROVE ClaimOne
  OBVIOUS
<1>1. pc[h] = "idle" /\ Claim(h, id)  BY DEF Open, NextRequest
<1>2. \A other \in Ids : streams[other] # h
  BY <1>1, TableAssumption DEF PtyInv, Owns
<1> QED  BY <1>1, <1>2 DEF ClaimOne

LEMMA ReleaseTable ==
  ASSUME PtyInv, NEW h \in Handlers, Active(h), Release(h)
  PROVE  ReleaseOwn
BY DEF PtyInv, Owns, Release, ReleaseOwn

LEMMA HandlerTable ==
  ASSUME PtyInv, NEW h \in Handlers, HandlerStep(h) PROVE ReleaseOwn \/ UNCHANGED tableVars
<1>1. CASE HandlerBegin(h)  BY <1>1, ReleaseTable DEF HandlerBegin, Die, Reject, Active
<1>2. CASE ValidateDone(h)  BY <1>2, ReleaseTable DEF ValidateDone, Reject, Active
<1>3. CASE StartOk(h)  BY <1>3, ReleaseTable DEF StartOk, Active
<1>4. CASE StartFailed(h)  BY <1>4, ReleaseTable DEF StartFailed, Reject, Active
<1>5. CASE Teardown(h)  BY <1>5, ReleaseTable DEF Teardown, Active
<1>6. CASE HandlerCancelled(h)  BY <1>6, ReleaseTable DEF HandlerCancelled, Active
<1> QED  BY <1>1, <1>2, <1>3, <1>4, <1>5, <1>6 DEF HandlerStep

LEMMA BridgeTable == ASSUME PtyInv, NEW h \in Handlers, Bridge(h) PROVE Consume \/ Drain
<1> DEFINE item == Head(ctrlQ[h])
<1>1. TakeItem(h) /\ UNCHANGED <<streams, closing>> /\ h \in bridging  BY DEF Bridge
<1>2. ctrlQ[h] \in Seq(Item) /\ ctrlQ[h] # <<>> /\ DOMAIN ctrlQ[h] = 1..Len(ctrlQ[h])
  BY <1>1 DEF PtyInv, TypeOK, TableType, TakeItem
<1>3. item \in Item /\ item = ctrlQ[h][1] /\ 1 \in DOMAIN ctrlQ[h]
  BY <1>2, HeadTailProperties, EmptySeq, LenProperties
<1>4. CASE item.tag = "data" /\ DrainBytes(idOf[h], item.n)
  <2>1. idOf[h] \in Ids  BY <1>1 DEF PtyInv, Owns, Active, TypeOK
  <2>2. item.n \in 0..StreamCap
    <3>1. Admitted(ctrlQ[h])  BY DEF PtyInv, Fits
    <3>2. item.n <= StreamCap /\ item.n \in Nat  BY <1>3, <1>4, <3>1 DEF Admitted, Item
    <3> QED  BY <3>2, TableAssumption
  <2> QED  BY <1>1, <1>4, <2>1, <2>2 DEF Drain
<1>5. CASE UNCHANGED <<streamBytes, totalBytes>>
  BY <1>1, <1>5 DEF Consume
<1> QED  BY <1>4, <1>5 DEF Bridge

LEMMA CallbackTable ==
  ASSUME PtyInv, NEW h \in Handlers, RunCallback(h) PROVE Drain \/ UNCHANGED tableVars
<1> DEFINE cb == Head(posted[h])
<1>1. posted[h] \in Seq(Callback) /\ posted[h] # <<>> /\ UNCHANGED <<streams, ctrlQ, closing>>
  BY DEF PtyInv, TypeOK, RunCallback
<1>2. cb \in Callback /\ cb = posted[h][1] /\ 1 \in DOMAIN posted[h]
  BY <1>1, HeadTailProperties, EmptySeq, LenProperties
<1>3. CASE cb.what = "drained" /\ h \in mine /\ DrainBytes(idOf[h], cb.n)
  <2>1. idOf[h] \in Ids  BY <1>1 DEF PtyInv, Tracked, DoneIsLast
  <2>2. cb.n \in 0..StreamCap
    <3>1. cb.n <= StreamCap  BY <1>2 DEF PtyInv, Fits
    <3>2. cb.n \in Nat  BY <1>2 DEF Callback
    <3> QED  BY <3>1, <3>2, TableAssumption
  <2> QED  BY <1>1, <1>3, <2>1, <2>2 DEF Drain
<1>4. CASE UNCHANGED <<streamBytes, totalBytes>>  BY <1>1, <1>4 DEF tableVars
<1> QED  BY <1>3, <1>4 DEF RunCallback

\* the threads touch the table only through callbacks
LEMMA ThreadTable ==
  ASSUME NEW h \in Handlers, WorkerStep(h) \/ ReaderStep(h) PROVE UNCHANGED tableVars
<1>1. CASE WorkerStep(h)
  BY <1>1 DEF WorkerStep, PoolPick, WorkerStartup, WorkerTest, WorkerEmpty, WorkerItem, WorkerExit
<1>2. CASE ReaderStep(h)  BY <1>2 DEF ReaderStep, ReaderChunk, ReaderEof
<1> QED  BY <1>1, <1>2

LEMMA StepTable == PtyInv /\ [Next]_vars => [TableNext]_tableVars
<1> SUFFICES ASSUME PtyInv, [Next]_vars PROVE TableNext \/ UNCHANGED tableVars  OBVIOUS
<1>1. ASSUME NEW h \in Handlers, NEW id \in Ids \cup {MalformedId}, OpenRefused(h, id)
      PROVE  UNCHANGED tableVars
  BY <1>1 DEF OpenRefused
<1>2. ASSUME NEW h \in Handlers, NEW id \in Ids, Open(h, id) PROVE TableNext
  BY <1>2, OpenTable DEF TableNext
<1>3. ASSUME NEW id \in Ids, NEW item \in Frames, StreamFrame(id, item) PROVE TableNext
  BY <1>3 DEF StreamFrame, Dispatch, TableNext
<1>4. ASSUME NEW h \in Handlers,
             HandlerStep(h) \/ Bridge(h) \/ WorkerStep(h) \/ ReaderStep(h) \/ RunCallback(h)
      PROVE  TableNext \/ UNCHANGED tableVars
  BY <1>4, HandlerTable, BridgeTable, CallbackTable, ThreadTable DEF TableNext
<1>5. CASE ConnectionLost \/ SessionClose \/ SessionClosed \/ Reconnect
  BY <1>5 DEF ConnectionLost, SessionClose, SessionClosed, Reconnect, TableNext
<1>6. CASE UNCHANGED vars  BY <1>6 DEF vars
<1> QED  BY <1>1, <1>2, <1>3, <1>4, <1>5, <1>6 DEF Next

-----------------------------------------------------------------------------
(* Ownership. *)

LEMMA OwnsStep == PtyInv /\ [Next]_vars => Owns'
<1> SUFFICES ASSUME PtyInv, [Next]_vars PROVE Owns'  OBVIOUS
<1>y. TypeOK /\ Owns /\ TableType /\ NoHandler \notin Handlers
  BY TableAssumption DEF PtyInv, TypeOK
<1> USE DEF tableVars, sessionVars, handlerVars, workerVars, loopVars
<1>0. ASSUME UNCHANGED <<streams, pc, sess, mine, idOf>>, bridging' \subseteq bridging PROVE Owns'
  BY <1>y, <1>0 DEF Owns, Active
\* the handler of an active stream ends
<1>e. ASSUME NEW h \in Handlers, Active(h), pc' = [pc EXCEPT ![h] = "ended"],
             UNCHANGED <<sess, mine, idOf>>, bridging' \subseteq bridging \ {h},
             UNCHANGED streams \/ Release(h)
      PROVE  Owns'
  <2>1. streams[idOf[h]] = h /\ idOf[h] \in Ids /\ sess # "closed"  BY <1>y, <1>e DEF Owns, Active
  <2>2. \A id \in Ids : streams'[id] = streams[id] \/ (id = idOf[h] /\ streams'[id] = NoHandler)
    BY <1>e, <1>y, <2>1 DEF Release, ReleaseStream, TableType
  <2>3. \A g \in Handlers \ {h} : pc'[g] = pc[g]  BY <1>e, <1>y DEF TypeOK
  <2>4. pc'[h] = "ended"  BY <1>e, <1>y DEF TypeOK
  <2>5. ASSUME NEW id \in Ids, streams'[id] # NoHandler
        PROVE  pc'[streams'[id]] # "idle" /\ idOf'[streams'[id]] = id
    <3>1. streams'[id] = streams[id] /\ streams[id] \in Handlers  BY <1>y, <2>2, <2>5 DEF TableType
    <3>2. pc[streams[id]] # "idle" /\ idOf[streams[id]] = id  BY <1>y, <2>5, <3>1 DEF Owns
    <3> QED  BY <1>e, <2>3, <2>4, <3>1, <3>2
  <2>6. ASSUME NEW g \in Handlers, pc'[g] \in {"spawned", "validating", "starting", "running"}
        PROVE  g \in mine' /\ idOf'[g] \in Ids /\ streams'[idOf'[g]] = g
    <3>1. g # h /\ Active(g)  BY <2>3, <2>4, <2>6 DEF Active
    <3>2. g \in mine /\ idOf[g] \in Ids /\ streams[idOf[g]] = g  BY <1>y, <3>1 DEF Owns
    <3> QED  BY <1>e, <2>1, <2>2, <3>1, <3>2
  <2>7. \A g \in bridging' : pc'[g] = "running"
    BY <1>e, <1>y, <2>3 DEF Owns, TypeOK
  <2> QED  BY <1>e, <2>1, <2>5, <2>6, <2>7 DEF Owns, Active
\* ... or goes on
<1>g. ASSUME NEW h \in Handlers, Active(h), NEW to \in {"validating", "starting", "running"},
             pc' = [pc EXCEPT ![h] = to], UNCHANGED <<streams, sess, mine, idOf>>,
             bridging' \subseteq bridging \cup {h}, h \in bridging' => to = "running"
      PROVE  Owns'
  <2>1. sess # "closed"  BY <1>y, <1>g DEF Owns, Active
  <2>3. \A g \in Handlers \ {h} : pc'[g] = pc[g]  BY <1>g, <1>y DEF TypeOK
  <2>4. pc'[h] = to  BY <1>g, <1>y DEF TypeOK
  <2>5. ASSUME NEW id \in Ids, streams[id] # NoHandler
        PROVE  pc'[streams[id]] # "idle" /\ idOf[streams[id]] = id
    <3>1. streams[id] \in Handlers  BY <1>y, <2>5 DEF TableType
    <3>2. pc[streams[id]] # "idle" /\ idOf[streams[id]] = id  BY <1>y, <2>5, <3>1 DEF Owns
    <3> QED  BY <2>3, <2>4, <3>1, <3>2
  <2>6. \A g \in bridging' : pc'[g] = "running"
    BY <1>g, <1>y, <2>3, <2>4 DEF Owns, TypeOK
  <2> QED  BY <1>g, <1>y, <2>1, <2>3, <2>5, <2>6 DEF Owns, Active
<1>1. ASSUME NEW h \in Handlers, NEW id \in Ids \cup {MalformedId}, OpenRefused(h, id) PROVE Owns'
  <2>1. /\ pc[h] = "idle" /\ pc' = [pc EXCEPT ![h] = "ended"] /\ mine' = mine \cup {h}
        /\ idOf' = [idOf EXCEPT ![h] = id] /\ UNCHANGED <<streams, sess, bridging>>
        /\ sess # "closed"
    BY <1>1 DEF OpenRefused, NextRequest, GoTo, Receiving
  <2>2. \A i \in Ids : streams[i] # h  BY <1>y, <2>1 DEF Owns
  <2> QED  BY <1>y, <2>1, <2>2 DEF Owns, Active, TypeOK, TableType
<1>2. ASSUME NEW h \in Handlers, NEW id \in Ids, Open(h, id) PROVE Owns'
  <2>1. /\ pc[h] = "idle" /\ pc' = [pc EXCEPT ![h] = "spawned"] /\ mine' = mine \cup {h}
        /\ idOf' = [idOf EXCEPT ![h] = id] /\ UNCHANGED <<sess, bridging>>
        /\ sess # "closed" /\ streams' = [streams EXCEPT ![id] = h] /\ streams[id] = NoHandler
    BY <1>2 DEF Open, NextRequest, GoTo, Receiving, Claim, ClaimError
  <2>2. \A i \in Ids : streams[i] # h  BY <1>y, <2>1 DEF Owns
  <2> QED  BY <1>y, <2>1, <2>2 DEF Owns, Active, TypeOK, TableType
<1>3. ASSUME NEW id \in Ids, NEW item \in Frames, StreamFrame(id, item) PROVE Owns'
  BY <1>3, <1>0
  DEF StreamFrame, Dispatch, StreamCtrl, CtrlOverflow, CtrlData, CtrlDropped, CtrlSignal
<1>4. ASSUME NEW h \in Handlers, HandlerStep(h) PROVE Owns'
  <2>1. CASE HandlerBegin(h)
    <3>1. h \notin bridging  BY <1>y, <2>1 DEF HandlerBegin, Owns
    <3> QED  BY <2>1, <3>1, <1>e, <1>g DEF HandlerBegin, Die, Active, Reject, Submit, GoTo
  <2>2. CASE ValidateDone(h)
    <3>1. h \notin bridging  BY <1>y, <2>2 DEF ValidateDone, Owns
    <3> QED  BY <2>2, <3>1, <1>e, <1>g DEF ValidateDone, Active, Reject, Submit, GoTo
  <2>3. CASE StartOk(h)
    <3>1. h \notin bridging  BY <1>y, <2>3 DEF StartOk, Owns
    <3> QED  BY <2>3, <3>1, <1>e, <1>g DEF StartOk, Active, GoTo
  <2>4. CASE StartFailed(h)
    <3>1. h \notin bridging  BY <1>y, <2>4 DEF StartFailed, Owns
    <3> QED  BY <2>4, <3>1, <1>e DEF StartFailed, Active, Reject, GoTo
  <2>5. CASE Teardown(h)  BY <2>5, <1>e DEF Teardown, Active, GoTo
  <2>6. CASE HandlerCancelled(h)
    <3>1. CASE pc[h] # "idle"
      <4>1. Active(h)  BY <1>y, <2>6, <3>1 DEF HandlerCancelled, Active, TypeOK
      <4> QED  BY <2>6, <4>1, <1>e DEF HandlerCancelled, GoTo
    <3>2. CASE pc[h] = "idle"
      <4>1. UNCHANGED <<streams, sess, mine, idOf>> /\ pc' = [pc EXCEPT ![h] = "ended"]
        BY <2>6, <3>2 DEF HandlerCancelled, GoTo
      <4>2. sess = "closing" /\ bridging' \subseteq bridging /\ h \notin bridging
        BY <1>y, <2>6, <3>2 DEF HandlerCancelled, Owns
      <4>3. \A i \in Ids : streams[i] # h  BY <1>y, <3>2 DEF Owns
      <4> QED  BY <1>y, <4>1, <4>2, <4>3, <3>2 DEF Owns, Active, TypeOK, TableType
    <3> QED  BY <3>1, <3>2
  <2> QED  BY <1>4, <2>1, <2>2, <2>3, <2>4, <2>5, <2>6 DEF HandlerStep
<1>5. ASSUME NEW h \in Handlers, Bridge(h) \/ WorkerStep(h) \/ ReaderStep(h) \/ RunCallback(h)
      PROVE  Owns'
  <2>1. CASE Bridge(h)  BY <2>1, <1>0 DEF Bridge
  <2>2. CASE WorkerStep(h)
    BY <2>2, <1>0
    DEF WorkerStep, PoolPick, WorkerStartup, WorkerTest, WorkerEmpty, WorkerItem, WorkerExit
  <2>3. CASE ReaderStep(h)  BY <2>3, <1>0 DEF ReaderStep, ReaderChunk, ReaderEof
  <2>4. CASE RunCallback(h)  BY <2>4, <1>0 DEF RunCallback
  <2> QED  BY <1>5, <2>1, <2>2, <2>3, <2>4
<1>6. CASE ConnectionLost \/ SessionClose \/ SessionClosed \/ Reconnect
  <2>1. CASE ConnectionLost \/ SessionClose \/ SessionClosed
    BY <2>1, <1>y DEF ConnectionLost, SessionClose, SessionClosed, CloseAllStreams, Owns, Active
  <2>2. CASE Reconnect  BY <2>2, <1>y DEF Reconnect, NewTable, Owns, Active
  <2> QED  BY <1>6, <2>1, <2>2
<1>7. CASE UNCHANGED vars  BY <1>7, <1>0 DEF vars
<1> QED  BY <1>1, <1>2, <1>3, <1>4, <1>5, <1>6, <1>7 DEF Next

-----------------------------------------------------------------------------
(* Types. *)

LEMMA PostType ==
  ASSUME PtyInv, NEW h \in Handlers, NEW what \in {"started", "drained", "chunk", "done"},
         NEW n \in Nat, Post(h, what, n)
  PROVE  posted' \in [Handlers -> Seq(Callback)]
<1>1. [what |-> what, n |-> n] \in Callback  BY DEF Callback
<1>2. posted \in [Handlers -> Seq(Callback)]  BY DEF PtyInv, TypeOK
<1> QED  BY <1>1, <1>2 DEF Post

LEMMA CallbackSizes == \A x \in Callback : x.n \in Nat
BY DEF Callback

LEMMA OfferType ==
  ASSUME PtyInv, NEW h \in Handlers, NEW item \in Item, Offer(h, item)
  PROVE  threadQ' \in [Handlers -> Seq(Item)]
<1>1. threadQ \in [Handlers -> Seq(Item)] /\ ThreadCap \in Nat
  BY PtyAssumption DEF PtyInv, TypeOK
<1>0. threadQ[h] \in Seq(Item) /\ (threadQ[h] = <<>> => Len(threadQ[h]) = 0)  BY <1>1
<1>2. CASE Len(threadQ[h]) < ThreadCap
  BY <1>1, <1>2 DEF Offer
<1>3. CASE ~(Len(threadQ[h]) < ThreadCap) /\ item.tag # "close"
  BY <1>1, <1>3 DEF Offer
<1>4. CASE ~(Len(threadQ[h]) < ThreadCap) /\ item.tag = "close"
  <2>1. Append(Tail(threadQ[h]), item) \in Seq(Item)
    <3>1. threadQ[h] # <<>>  BY <1>0, <1>4, PtyAssumption
    <3>2. Tail(threadQ[h]) \in Seq(Item)  BY <1>0, <3>1, HeadTailProperties
    <3> QED  BY <3>2, AppendProperties
  <2> QED  BY <1>1, <1>4, <2>1 DEF Offer
<1> QED  BY <1>2, <1>3, <1>4

LEMMA SendType ==
  ASSUME PtyInv, NEW h \in Handlers, NEW kind \in {"ok", "error", "data", "closed"}, Send(h, kind)
  PROVE  out' \in [Handlers -> Seq({"ok", "error", "data", "closed"})]
BY DEF PtyInv, TypeOK, Send

LEMMA ReleaseType ==
  ASSUME PtyInv, NEW h \in Handlers, Release(h)
  PROVE  stopEvents' \in [Ids -> Handlers \cup {NoHandler}]
BY DEF PtyInv, TypeOK, Release

LEMMA SubmitType ==
  ASSUME PtyInv, NEW h \in Handlers, Submit(h)
  PROVE  /\ stopEvents' \in [Ids -> Handlers \cup {NoHandler}]
         /\ wpc' \in [Handlers -> {"none", "queued", "exited"} \cup Working]
         /\ poolQ' \in Seq(Handlers)
         /\ pc' \in [Handlers -> {"idle", "spawned", "validating", "starting", "running", "ended"}]
<1>1. poolQ \in Seq(Handlers) /\ poolQ' = Append(poolQ, h)  BY DEF PtyInv, TypeOK, Submit
<1>2. poolQ' \in Seq(Handlers)  BY <1>1, AppendProperties
<1> QED  BY <1>2 DEF PtyInv, TypeOK, Submit, GoTo

LEMMA TypeStep == PtyInv /\ [Next]_vars => TypeOK' /\ IInv'
<1> SUFFICES ASSUME PtyInv, [Next]_vars PROVE TypeOK' /\ IInv'  OBVIOUS
<1>t. IInv' /\ TableType'  BY StepTable, NextIInv DEF PtyInv, IInv
<1>y. TypeOK  BY DEF PtyInv
<1> USE DEF sessionVars, handlerVars, workerVars, loopVars
<1>1. ASSUME NEW h \in Handlers, NEW id \in Ids \cup {MalformedId}, OpenRefused(h, id)
      PROVE  TypeOK'
  BY <1>1, <1>t, <1>y, SendType DEF OpenRefused, GoTo, TypeOK
<1>2. ASSUME NEW h \in Handlers, NEW id \in Ids, Open(h, id) PROVE TypeOK'
  BY <1>2, <1>t, <1>y DEF Open, GoTo, TypeOK
<1>3. ASSUME NEW id \in Ids, NEW item \in Frames, StreamFrame(id, item) PROVE TypeOK'
  BY <1>3, <1>t, <1>y DEF StreamFrame, TypeOK
<1>4. ASSUME NEW h \in Handlers, HandlerStep(h) PROVE TypeOK'
  <2>1. CASE HandlerBegin(h)
    <3>1. CASE Submit(h) /\ UNCHANGED <<out, chunks>>
      BY <2>1, <3>1, <1>t, <1>y, SubmitType DEF HandlerBegin, TypeOK
    <3>2. CASE GoTo(h, "validating") /\ UNCHANGED <<tableVars, stopEvents, out, workerVars>>
      BY <2>1, <3>2, <1>t, <1>y DEF HandlerBegin, GoTo, TypeOK
    <3>3. CASE Reject(h) /\ UNCHANGED workerVars
      BY <2>1, <3>3, <1>t, <1>y, ReleaseType, SendType DEF HandlerBegin, Reject, GoTo, TypeOK
    <3>4. CASE Die(h)
      BY <2>1, <3>4, <1>t, <1>y DEF HandlerBegin, Die, GoTo, TypeOK
    <3> QED  BY <2>1, <3>1, <3>2, <3>3, <3>4 DEF HandlerBegin
  <2>2. CASE ValidateDone(h)
    <3>1. CASE Submit(h) /\ UNCHANGED <<out, chunks>>
      BY <2>2, <3>1, <1>t, <1>y, SubmitType DEF ValidateDone, TypeOK
    <3>2. CASE Reject(h) /\ UNCHANGED workerVars
      BY <2>2, <3>2, <1>t, <1>y, ReleaseType, SendType DEF ValidateDone, Reject, GoTo, TypeOK
    <3> QED  BY <2>2, <3>1, <3>2 DEF ValidateDone
  <2>3. CASE StartOk(h)
    BY <2>3, <1>t, <1>y, ReleaseType, SendType DEF StartOk, GoTo, TypeOK
  <2>4. CASE StartFailed(h)
    BY <2>4, <1>t, <1>y, ReleaseType, SendType DEF StartFailed, Reject, GoTo, TypeOK
  <2>5. CASE Teardown(h)
    BY <2>5, <1>t, <1>y, ReleaseType, SendType DEF Teardown, GoTo, TypeOK
  <2>6. CASE HandlerCancelled(h)
    <3>1. Close \in Item  BY DEF Close, Signal, Item, Tags
    <3>2. threadQ' \in [Handlers -> Seq(Item)]
      BY <2>6, <3>1, <1>y, OfferType DEF HandlerCancelled, TypeOK
    <3>3. stop' \subseteq Handlers /\ stopEvents' \in [Ids -> Handlers \cup {NoHandler}]
      BY <2>6, <1>y, ReleaseType DEF HandlerCancelled, TypeOK
    <3> QED  BY <2>6, <3>2, <3>3, <1>t, <1>y DEF HandlerCancelled, GoTo, TypeOK
  <2> QED  BY <1>4, <2>1, <2>2, <2>3, <2>4, <2>5, <2>6 DEF HandlerStep
<1>5. ASSUME NEW h \in Handlers, Bridge(h) PROVE TypeOK'
  <2>1. ctrlQ[h] \in Seq(Item) /\ ctrlQ[h] # <<>>
    BY <1>5, <1>y DEF Bridge, TakeItem, TypeOK, TableType
  <2>2. Head(ctrlQ[h]) \in Item  BY <2>1, HeadTailProperties
  <2>3. threadQ' \in [Handlers -> Seq(Item)]  BY <1>5, <2>2, OfferType DEF Bridge
  <2>4. bridging' \subseteq Handlers  BY <1>5, <1>y DEF Bridge, TypeOK
  <2> QED  BY <1>5, <2>3, <2>4, <1>t, <1>y DEF Bridge, TypeOK
<1>6. ASSUME NEW h \in Handlers, WorkerStep(h) PROVE TypeOK'
  <2> USE DEF Become, Working
  <2>1. CASE PoolPick(h)
    <3>1. poolQ' \in Seq(Handlers)
      BY <2>1, <1>y, HeadTailProperties DEF PoolPick, TypeOK
    <3> QED  BY <2>1, <3>1, <1>t, <1>y DEF PoolPick, TypeOK
  <2>2. CASE WorkerStartup(h)
    BY <2>2, <1>t, <1>y, PostType DEF WorkerStartup, TypeOK
  <2>3. CASE WorkerTest(h)  BY <2>3, <1>t, <1>y DEF WorkerTest, TypeOK
  <2>4. CASE WorkerEmpty(h)  BY <2>4, <1>t, <1>y DEF WorkerEmpty, TypeOK
  <2>5. CASE WorkerItem(h)
    <3>1. threadQ[h] \in Seq(Item) /\ threadQ[h] # <<>>
      BY <2>5, <1>y DEF WorkerItem, TypeOK
    <3>2. Tail(threadQ[h]) \in Seq(Item) /\ Head(threadQ[h]).n \in Nat
      <4>1. Head(threadQ[h]) \in Item /\ Tail(threadQ[h]) \in Seq(Item)
        BY <3>1, HeadTailProperties
      <4> QED  BY <4>1 DEF Item
    <3>3. threadQ' \in [Handlers -> Seq(Item)]  BY <2>5, <3>2, <1>y DEF WorkerItem, TypeOK
    <3>4. posted' \in [Handlers -> Seq(Callback)]
      BY <2>5, <3>2, <1>y, PostType DEF WorkerItem, TypeOK
    <3>5. wpc' \in [Handlers -> {"none", "queued", "exited"} \cup Working] /\ stop' \subseteq Handlers
      BY <2>5, <1>y DEF WorkerItem, TypeOK
    <3> QED  BY <2>5, <3>3, <3>4, <3>5, <1>t, <1>y DEF WorkerItem, TypeOK
  <2>6. CASE WorkerExit(h)  BY <2>6, <1>t, <1>y, PostType DEF WorkerExit, TypeOK
  <2> QED  BY <1>6, <2>1, <2>2, <2>3, <2>4, <2>5, <2>6 DEF WorkerStep
<1>7. ASSUME NEW h \in Handlers, ReaderStep(h) PROVE TypeOK'
  <2>1. CASE ReaderChunk(h)
    <3>1. posted' \in [Handlers -> Seq(Callback)]  BY <2>1, PostType DEF ReaderChunk
    <3> QED  BY <2>1, <3>1, <1>t, <1>y DEF ReaderChunk, TypeOK
  <2>2. CASE ReaderEof(h)  BY <2>2, <1>t, <1>y DEF ReaderEof, TypeOK
  <2> QED  BY <1>7, <2>1, <2>2 DEF ReaderStep
<1>8. ASSUME NEW h \in Handlers, RunCallback(h) PROVE TypeOK'
  <2>1. posted' \in [Handlers -> Seq(Callback)]
    BY <1>8, <1>y, HeadTailProperties DEF RunCallback, TypeOK
  <2>2. out' \in [Handlers -> Seq({"ok", "error", "data", "closed"})]
    BY <1>8, <1>y, SendType DEF RunCallback, TypeOK
  <2> QED  BY <1>8, <2>1, <2>2, <1>t, <1>y DEF RunCallback, TypeOK
<1>9. CASE ConnectionLost \/ SessionClose \/ SessionClosed \/ Reconnect
  BY <1>9, <1>t, <1>y
  DEF ConnectionLost, SessionClose, StopAll, SessionClosed, Reconnect, TypeOK
<1>10. CASE UNCHANGED vars  BY <1>10, <1>t, <1>y DEF vars, TypeOK
<1> QED  BY <1>t, <1>1, <1>2, <1>3, <1>4, <1>5, <1>6, <1>7, <1>8, <1>9, <1>10 DEF Next

-----------------------------------------------------------------------------
(* Sequences. *)

LEMMA AppendTo ==
  ASSUME NEW S, NEW q \in Seq(S), NEW x \in S
  PROVE  /\ DOMAIN q = 1..Len(q) /\ Len(q) \in Nat
         /\ DOMAIN Append(q, x) = 1..(Len(q) + 1) /\ Len(Append(q, x)) = Len(q) + 1
         /\ \A i \in 1..Len(q) : Append(q, x)[i] = q[i]
         /\ Append(q, x)[Len(q) + 1] = x
BY ONLY AppendProperties, LenProperties

LEMMA TailOf ==
  ASSUME NEW S, NEW q \in Seq(S), q # <<>>
  PROVE  /\ DOMAIN q = 1..Len(q) /\ Len(q) \in Nat \ {0} /\ Head(q) = q[1]
         /\ Tail(q) \in Seq(S)
         /\ DOMAIN Tail(q) = 1..(Len(q) - 1) /\ Len(Tail(q)) = Len(q) - 1
         /\ \A i \in 1..(Len(q) - 1) : i + 1 \in DOMAIN q /\ Tail(q)[i] = q[i + 1]
BY HeadTailProperties, LenProperties, EmptySeq

LEMMA AdmittedQueue ==
  ASSUME NEW q \in Seq(Item), Admitted(q)
  PROVE  /\ \A x \in Item : (x.tag = "data" => x.n <= StreamCap) => Admitted(Append(q, x))
         /\ q # <<>> => /\ Admitted(Tail(q)) /\ Tail(q) \in Seq(Item) /\ Head(q) \in Item
                        /\ Head(q).tag = "data" => Head(q).n <= StreamCap
<1>1. ASSUME NEW x \in Item, x.tag = "data" => x.n <= StreamCap PROVE Admitted(Append(q, x))
  BY <1>1, AppendTo DEF Admitted
<1>2. ASSUME q # <<>>
      PROVE /\ Admitted(Tail(q)) /\ Tail(q) \in Seq(Item) /\ Head(q) \in Item
            /\ Head(q).tag = "data" => Head(q).n <= StreamCap
  <2>1. Head(q) \in Item  BY <1>2, HeadTailProperties
  <2> QED  BY <1>2, <2>1, TailOf DEF Admitted
<1> QED  BY <1>1, <1>2

LEMMA OfferAdmits ==
  ASSUME PtyInv, NEW h \in Handlers, NEW x \in Item, x.tag = "data" => x.n <= StreamCap,
         Offer(h, x), NEW g \in Handlers
  PROVE  Admitted(threadQ'[g])
<1>1. /\ threadQ \in [Handlers -> Seq(Item)] /\ ThreadCap \in Nat \ {0}
      /\ Admitted(threadQ[g]) /\ Admitted(threadQ[h]) /\ threadQ[h] \in Seq(Item)
  BY PtyAssumption DEF PtyInv, TypeOK, Fits
<1>2. CASE g # h  BY <1>1, <1>2 DEF Offer
<1>3. CASE g = h
  <2>1. CASE Len(threadQ[h]) < ThreadCap  BY <1>1, <1>3, <2>1, AdmittedQueue DEF Offer
  <2>2. CASE ~(Len(threadQ[h]) < ThreadCap) /\ x.tag # "close"  BY <1>1, <1>3, <2>2 DEF Offer
  <2>3. CASE ~(Len(threadQ[h]) < ThreadCap) /\ x.tag = "close"
    <3>1. threadQ[h] # <<>>  BY <1>1, <2>3, EmptySeq
    <3>2. Admitted(Tail(threadQ[h])) /\ Tail(threadQ[h]) \in Seq(Item)
      BY <1>1, <3>1, AdmittedQueue
    <3>3. Admitted(Append(Tail(threadQ[h]), x))  BY <3>2, AdmittedQueue
    <3> QED  BY <1>1, <1>3, <2>3, <3>3 DEF Offer
  <2> QED  BY <2>1, <2>2, <2>3
<1> QED  BY <1>2, <1>3

LEMMA PostFits ==
  ASSUME PtyInv, NEW h \in Handlers, NEW what \in {"started", "drained", "chunk", "done"},
         NEW n \in Nat, n <= StreamCap, Post(h, what, n), NEW g \in Handlers
  PROVE  \A i \in DOMAIN posted'[g] : posted'[g][i].n <= StreamCap
<1>1. [what |-> what, n |-> n] \in Callback  BY DEF Callback
<1>2. posted \in [Handlers -> Seq(Callback)] /\ \A i \in DOMAIN posted[g] : posted[g][i].n <= StreamCap
  BY DEF PtyInv, TypeOK, Fits
<1>3. CASE g = h
  <2>1. posted'[g] = Append(posted[g], [what |-> what, n |-> n]) /\ posted[g] \in Seq(Callback)
    BY <1>2, <1>3 DEF Post
  <2> QED  BY <1>1, <1>2, <2>1, AppendTo
<1>4. CASE g # h  BY <1>2, <1>4 DEF Post
<1> QED  BY <1>3, <1>4

-----------------------------------------------------------------------------
(* Sizes on their way. *)

FitsOf(g) ==
  /\ Admitted(ctrlQ[g]) /\ Admitted(threadQ[g])
  /\ \A i \in DOMAIN posted[g] : posted[g][i].n <= StreamCap

LEMMA FitsStep == PtyInv /\ [Next]_vars => Fits'
<1> SUFFICES ASSUME PtyInv, [Next]_vars, NEW g \in Handlers PROVE FitsOf(g)'
  BY DEF Fits, FitsOf
<1>y. /\ TypeOK /\ TableType /\ Fits /\ IInv /\ FitsOf(g) /\ \A h \in Handlers : FitsOf(h)
      /\ StreamCap \in Nat /\ Frames \subseteq Item /\ NoHandler \notin Handlers
  BY TableAssumption DEF PtyInv, TypeOK, Fits, FitsOf
<1>e. Admitted(<<>>)  BY DEF Admitted
<1>c. Close \in Item /\ Close.tag # "data"  BY DEF Close, Signal, Item, Tags
<1> USE DEF tableVars, sessionVars, handlerVars, workerVars, loopVars
<1>0. ASSUME UNCHANGED <<ctrlQ, threadQ, posted>> PROVE FitsOf(g)'  BY <1>y, <1>0 DEF FitsOf
<1>r. ASSUME NEW h \in Handlers, Release(h), threadQ'[g] = threadQ[g] \/ threadQ'[g] = <<>>,
             UNCHANGED posted
      PROVE  FitsOf(g)'
  BY <1>y, <1>e, <1>r DEF FitsOf, TableType, Release, ReleaseStream
<1>1. ASSUME NEW h \in Handlers, NEW id \in Ids \cup {MalformedId}, OpenRefused(h, id) PROVE FitsOf(g)'
  BY <1>1, <1>0 DEF OpenRefused
<1>2. ASSUME NEW h \in Handlers, NEW id \in Ids, Open(h, id) PROVE FitsOf(g)'
  BY <1>2, <1>y, <1>e DEF Open, Claim, FitsOf, TableType
<1>3. ASSUME NEW id \in Ids, NEW item \in Frames, StreamFrame(id, item) PROVE FitsOf(g)'
  <2> DEFINE h == streams[id]
  <2>1. h \in Handlers /\ UNCHANGED <<threadQ, posted>>
    BY <1>3, <1>y DEF StreamFrame, Dispatch, StreamCtrl, Live, TableType
  <2>2. ASSUME NEW x \in Item, x.tag = "data" => x.n <= StreamCap, PutIfRoom(h, x)
        PROVE  FitsOf(g)'
    <3>1. Admitted(Append(ctrlQ[h], x))  BY <1>y, <2>1, <2>2, AdmittedQueue DEF FitsOf, TableType
    <3> QED  BY <1>y, <2>1, <2>2, <3>1 DEF PutIfRoom, FitsOf, TableType
  <2>3. CASE CtrlOverflow(id, item)  BY <1>c, <2>2, <2>3 DEF CtrlOverflow
  <2>4. CASE CtrlData(id, item)
    <3>1. item \in Item /\ item.n \in Nat /\ item.n <= StreamCap
      BY <1>y, <2>4 DEF CtrlData, Overflows, TableType, Item, IInv, WithinCeilings
    <3> QED  BY <2>2, <2>4, <3>1 DEF CtrlData
  <2>5. CASE CtrlDropped(id, item)  BY <1>0, <2>1, <2>5 DEF CtrlDropped
  <2>6. CASE CtrlSignal(id, item)  BY <1>y, <2>2, <2>6 DEF CtrlSignal
  <2> QED  BY <1>3, <2>3, <2>4, <2>5, <2>6 DEF StreamFrame, Dispatch, StreamCtrl
<1>4. ASSUME NEW h \in Handlers, HandlerStep(h) PROVE FitsOf(g)'
  <2>1. CASE HandlerBegin(h)  BY <2>1, <1>0, <1>r DEF HandlerBegin, Die, Reject
  <2>2. CASE ValidateDone(h)  BY <2>2, <1>0, <1>r DEF ValidateDone, Reject
  <2>3. CASE StartOk(h)  BY <2>3, <1>0, <1>r DEF StartOk
  <2>4. CASE StartFailed(h)  BY <2>4, <1>r DEF StartFailed, Reject
  <2>5. CASE Teardown(h)
    BY <2>5, <1>r, <1>y DEF Teardown, TypeOK
  <2>6. CASE HandlerCancelled(h)
    <3>1. Admitted(threadQ'[g])
      BY <2>6, <1>y, <1>c, OfferAdmits DEF HandlerCancelled, FitsOf
    <3>2. Admitted(ctrlQ'[g])
      BY <2>6, <1>y, <1>e DEF HandlerCancelled, Release, ReleaseStream, FitsOf, TableType
    <3> QED  BY <2>6, <3>1, <3>2, <1>y DEF HandlerCancelled, FitsOf
  <2> QED  BY <1>4, <2>1, <2>2, <2>3, <2>4, <2>5, <2>6 DEF HandlerStep
<1>5. ASSUME NEW h \in Handlers, Bridge(h) PROVE FitsOf(g)'
  <2>1. ctrlQ[h] \in Seq(Item) /\ ctrlQ[h] # <<>> /\ Admitted(ctrlQ[h])
    BY <1>5, <1>y DEF Bridge, TakeItem, FitsOf, TableType
  <2>2. /\ Admitted(Tail(ctrlQ[h])) /\ Head(ctrlQ[h]) \in Item
        /\ Head(ctrlQ[h]).tag = "data" => Head(ctrlQ[h]).n <= StreamCap
    BY <2>1, AdmittedQueue
  <2>3. Admitted(threadQ'[g])  BY <1>5, <2>2, OfferAdmits DEF Bridge
  <2>4. Admitted(ctrlQ'[g])  BY <1>5, <1>y, <2>2 DEF Bridge, TakeItem, FitsOf, TableType
  <2> QED  BY <1>5, <1>y, <2>3, <2>4 DEF Bridge, FitsOf
<1>6. ASSUME NEW h \in Handlers, WorkerStep(h) PROVE FitsOf(g)'
  <2>1. CASE PoolPick(h) \/ WorkerTest(h) \/ WorkerEmpty(h)
    BY <2>1, <1>0 DEF PoolPick, WorkerTest, WorkerEmpty
  <2>2. CASE WorkerStartup(h) \/ WorkerExit(h)
    <3>1. UNCHANGED <<ctrlQ, threadQ>>  BY <2>2 DEF WorkerStartup, WorkerExit
    <3> QED  BY <2>2, <3>1, <1>y, PostFits DEF WorkerStartup, WorkerExit, FitsOf
  <2>3. CASE WorkerItem(h)
    <3>1. threadQ[h] \in Seq(Item) /\ threadQ[h] # <<>> /\ Admitted(threadQ[h])
      BY <2>3, <1>y DEF WorkerItem, FitsOf, TypeOK
    <3>2. /\ Admitted(Tail(threadQ[h])) /\ Head(threadQ[h]) \in Item
          /\ Head(threadQ[h]).tag = "data" => Head(threadQ[h]).n <= StreamCap
      BY <3>1, AdmittedQueue
    <3>3. Head(threadQ[h]).n \in Nat  BY <3>2 DEF Item
    <3>4. Admitted(threadQ'[g])  BY <2>3, <3>2, <1>y DEF WorkerItem, FitsOf, TypeOK
    <3>5. \A i \in DOMAIN posted'[g] : posted'[g][i].n <= StreamCap
      BY <2>3, <3>2, <3>3, <1>y, PostFits DEF WorkerItem, FitsOf
    <3> QED  BY <2>3, <3>4, <3>5, <1>y DEF WorkerItem, FitsOf
  <2> QED  BY <1>6, <2>1, <2>2, <2>3 DEF WorkerStep
<1>7. ASSUME NEW h \in Handlers, ReaderStep(h) PROVE FitsOf(g)'
  <2>1. CASE ReaderChunk(h)
    <3>1. UNCHANGED <<ctrlQ, threadQ>> /\ Post(h, "chunk", 0)  BY <2>1 DEF ReaderChunk
    <3> QED  BY <3>1, <1>y, PostFits DEF FitsOf
  <2>2. CASE ReaderEof(h)  BY <2>2, <1>0 DEF ReaderEof
  <2> QED  BY <1>7, <2>1, <2>2 DEF ReaderStep
<1>8. ASSUME NEW h \in Handlers, RunCallback(h) PROVE FitsOf(g)'
  <2>1. posted[h] \in Seq(Callback) /\ posted[h] # <<>>
    BY <1>8, <1>y DEF RunCallback, TypeOK
  <2>2. \A i \in DOMAIN Tail(posted[h]) : Tail(posted[h])[i].n <= StreamCap
    BY <2>1, <1>y, TailOf DEF FitsOf
  <2> QED  BY <1>8, <2>2, <1>y DEF RunCallback, FitsOf, TypeOK
<1>9. CASE ConnectionLost \/ SessionClosed  BY <1>9, <1>0 DEF ConnectionLost, SessionClosed
<1>10. CASE SessionClose
  <2>1. Admitted(Append(ctrlQ[g], Close))  BY <1>y, <1>c, AdmittedQueue DEF FitsOf, TableType
  <2> QED  BY <1>10, <2>1, <1>y DEF SessionClose, CloseAllStreams, FitsOf
<1>11. CASE Reconnect  BY <1>11, <1>y, <1>e DEF Reconnect, NewTable, FitsOf
<1>12. CASE UNCHANGED vars  BY <1>12, <1>0 DEF vars
<1> QED  BY <1>1, <1>2, <1>3, <1>4, <1>5, <1>6, <1>7, <1>8, <1>9, <1>10, <1>11, <1>12 DEF Next

-----------------------------------------------------------------------------
(* Jobs and stop events. *)

PoolOnce ==
  /\ \A i \in DOMAIN poolQ : wpc[poolQ[i]] = "queued"
  /\ \A i, j \in DOMAIN poolQ : poolQ[i] = poolQ[j] => i = j

TrackedOf(g) ==
  /\ pc[g] \in {"idle", "spawned", "validating"} => wpc[g] = "none"
  /\ wpc[g] # "none" => idOf[g] \in Ids
  /\ wpc[g] \notin {"none", "exited"} /\ g \notin stop =>
       pc[g] \in {"starting", "running"} /\ Receiving /\ stopEvents[idOf[g]] = g

LEMMA PoolStep == PtyInv /\ [Next]_vars => PoolOnce'
<1> SUFFICES ASSUME PtyInv, [Next]_vars PROVE PoolOnce'  OBVIOUS
<1>y. TypeOK /\ Tracked /\ PoolOnce /\ poolQ \in Seq(Handlers)
  BY DEF PtyInv, TypeOK, Tracked, PoolOnce
<1>d. DOMAIN poolQ = 1..Len(poolQ) /\ \A i \in DOMAIN poolQ : poolQ[i] \in Handlers
  BY <1>y, LenProperties, ElementOfSeq
<1> USE DEF sessionVars, handlerVars, workerVars, loopVars
<1>0. ASSUME UNCHANGED <<poolQ, wpc>> PROVE PoolOnce'  BY <1>y, <1>0 DEF PoolOnce
\* a worker that has left the queue moves on
<1>w. ASSUME NEW h \in Handlers, wpc[h] # "queued", UNCHANGED poolQ,
             \A g \in Handlers \ {h} : wpc'[g] = wpc[g]
      PROVE  PoolOnce'
  BY <1>y, <1>d, <1>w DEF PoolOnce
<1>s. ASSUME NEW h \in Handlers, wpc[h] = "none", Submit(h) PROVE PoolOnce'
  <2>1. poolQ' = Append(poolQ, h) /\ wpc'[h] = "queued" /\ \A g \in Handlers \ {h} : wpc'[g] = wpc[g]
    BY <1>s, <1>y DEF Submit, TypeOK
  <2>2. \A i \in DOMAIN poolQ : poolQ[i] # h  BY <1>s, <1>y DEF PoolOnce
  <2>3. /\ DOMAIN poolQ' = 1..(Len(poolQ) + 1) /\ poolQ'[Len(poolQ) + 1] = h /\ Len(poolQ) \in Nat
        /\ \A i \in 1..Len(poolQ) : poolQ'[i] = poolQ[i]
    BY <1>y, <2>1, AppendTo
  <2>4. \A i \in DOMAIN poolQ' : i \in DOMAIN poolQ \/ i = Len(poolQ) + 1  BY <1>d, <2>3
  <2> QED  BY <1>y, <1>d, <2>1, <2>2, <2>3, <2>4 DEF PoolOnce
<1>1. ASSUME NEW h \in Handlers, HandlerStep(h) PROVE PoolOnce'
  <2>1. pc[h] \in {"idle", "spawned", "validating"} => wpc[h] = "none"  BY <1>y DEF Tracked
  <2> QED  BY <1>1, <2>1, <1>0, <1>s
           DEF HandlerStep, HandlerBegin, Die, ValidateDone, StartOk, StartFailed, Teardown,
               HandlerCancelled
<1>2. ASSUME NEW h \in Handlers, WorkerStep(h) PROVE PoolOnce'
  <2>1. CASE PoolPick(h)
    <3>1. poolQ # <<>> /\ h = Head(poolQ) /\ poolQ' = Tail(poolQ) /\ wpc' = [wpc EXCEPT ![h] = "startup"]
      BY <2>1 DEF PoolPick, Become
    <3>2. /\ h = poolQ[1] /\ DOMAIN poolQ' = 1..(Len(poolQ) - 1) /\ Len(poolQ) \in Nat \ {0}
          /\ \A i \in 1..(Len(poolQ) - 1) : i + 1 \in DOMAIN poolQ /\ poolQ'[i] = poolQ[i + 1]
      BY <3>1, <1>y, TailOf
    <3>3. \A i \in DOMAIN poolQ' : poolQ'[i] # h /\ poolQ'[i] \in Handlers
      BY <1>y, <1>d, <3>2 DEF PoolOnce
    <3>4. ASSUME NEW i \in DOMAIN poolQ' PROVE wpc'[poolQ'[i]] = "queued"
      <4>1. poolQ'[i] = poolQ[i + 1] /\ i + 1 \in DOMAIN poolQ  BY <3>2
      <4>2. wpc[poolQ'[i]] = "queued"  BY <1>y, <4>1 DEF PoolOnce
      <4>3. \A g \in Handlers \ {h} : wpc'[g] = wpc[g]  BY <1>y, <3>1 DEF TypeOK
      <4> QED  BY <3>3, <4>2, <4>3
    <3>5. ASSUME NEW i \in DOMAIN poolQ', NEW j \in DOMAIN poolQ', poolQ'[i] = poolQ'[j] PROVE i = j
      BY <1>y, <3>2, <3>5 DEF PoolOnce
    <3> QED  BY <3>4, <3>5 DEF PoolOnce
  <2>2. CASE WorkerStartup(h) \/ WorkerTest(h) \/ WorkerEmpty(h) \/ WorkerItem(h) \/ WorkerExit(h)
    <3>1. wpc[h] # "queued" /\ UNCHANGED poolQ /\ \A g \in Handlers \ {h} : wpc'[g] = wpc[g]
      BY <2>2, <1>y
      DEF WorkerStartup, WorkerTest, WorkerEmpty, WorkerItem, WorkerExit, Become, TypeOK
    <3> QED  BY <3>1, <1>w
  <2> QED  BY <1>2, <2>1, <2>2 DEF WorkerStep
<1>3. ASSUME NEW h \in Handlers, Bridge(h) \/ ReaderStep(h) \/ RunCallback(h) PROVE PoolOnce'
  BY <1>3, <1>0 DEF Bridge, ReaderStep, ReaderChunk, ReaderEof, RunCallback
<1>4. ASSUME NEW h \in Handlers, NEW id \in Ids \cup {MalformedId}, OpenRefused(h, id) \/ Open(h, id)
      PROVE PoolOnce'
  BY <1>4, <1>0 DEF OpenRefused, Open
<1>5. ASSUME NEW id \in Ids, NEW item \in Frames, StreamFrame(id, item) PROVE PoolOnce'
  BY <1>5, <1>0 DEF StreamFrame
<1>6. CASE ConnectionLost \/ SessionClose \/ SessionClosed \/ Reconnect
  BY <1>6, <1>0 DEF ConnectionLost, SessionClose, SessionClosed, Reconnect
<1>7. CASE UNCHANGED vars  BY <1>7, <1>0 DEF vars
<1> QED  BY <1>1, <1>2, <1>3, <1>4, <1>5, <1>6, <1>7 DEF Next

LEMMA TrackedStep == PtyInv /\ [Next]_vars => Tracked'
<1> SUFFICES ASSUME PtyInv, [Next]_vars, NEW g \in Handlers PROVE TrackedOf(g)'
  BY PoolStep DEF Tracked, TrackedOf, PoolOnce
<1>y. TypeOK /\ Owns /\ TrackedOf(g) /\ \A h \in Handlers : TrackedOf(h)
  BY DEF PtyInv, Tracked, TrackedOf
<1> USE DEF tableVars, sessionVars, handlerVars, workerVars, loopVars
<1>0. ASSUME pc'[g] = pc[g], wpc'[g] = wpc[g], idOf'[g] = idOf[g], Receiving => Receiving',
             stop \subseteq stop', stopEvents'[idOf[g]] = stopEvents[idOf[g]]
      PROVE  TrackedOf(g)'
  BY <1>y, <1>0 DEF TrackedOf
\* nothing is left to track in a handler whose worker was told to stop
<1>s. ASSUME wpc'[g] = wpc[g], idOf'[g] = idOf[g], wpc[g] \notin {"none", "exited"} => g \in stop',
             pc'[g] \in {"idle", "spawned", "validating"} => wpc[g] = "none"
      PROVE  TrackedOf(g)'
  BY <1>y, <1>s DEF TrackedOf
\* what another stream's end does not take away
<1>r. ASSUME NEW h \in Handlers, Active(h), g # h, Release(h) \/ Submit(h) \/ UNCHANGED stopEvents,
             wpc'[g] = wpc[g], pc'[g] = pc[g], UNCHANGED sessionVars, stop \subseteq stop'
      PROVE  TrackedOf(g)'
  <2>1. CASE Active(g)
    <3>1. idOf[g] # idOf[h] /\ idOf[g] \in Ids  BY <1>y, <1>r, <2>1 DEF Owns
    <3>2. stopEvents'[idOf[g]] = stopEvents[idOf[g]]
      BY <1>y, <1>r, <3>1 DEF Release, Submit, TypeOK
    <3> QED  BY <1>0, <1>r, <3>2 DEF Receiving
  <2>2. CASE ~Active(g)  BY <1>y, <1>r, <2>2 DEF TrackedOf, Active
  <2> QED  BY <2>1, <2>2
<1>1. ASSUME NEW h \in Handlers, NEW id \in Ids \cup {MalformedId}, OpenRefused(h, id) \/ Open(h, id)
      PROVE TrackedOf(g)'
  <2>1. /\ pc[h] = "idle" /\ \A x \in Handlers \ {h} : pc'[x] = pc[x] /\ idOf'[x] = idOf[x]
        /\ UNCHANGED <<sess, wpc, stop, stopEvents>>
    BY <1>1, <1>y DEF OpenRefused, Open, NextRequest, GoTo, TypeOK
  <2> QED  BY <2>1, <1>y DEF TrackedOf, Receiving
<1>2. ASSUME NEW id \in Ids, NEW item \in Frames, StreamFrame(id, item) PROVE TrackedOf(g)'
  BY <1>2, <1>0 DEF StreamFrame, Receiving
<1>3. ASSUME NEW h \in Handlers, HandlerStep(h) PROVE TrackedOf(g)'
  <2>1. CASE g # h
    <3>1. CASE Active(h)
      <4>1. wpc'[g] = wpc[g] /\ pc'[g] = pc[g] /\ UNCHANGED sessionVars /\ stop \subseteq stop'
        BY <1>3, <2>1, <1>y
        DEF HandlerStep, HandlerBegin, Die, ValidateDone, StartOk, StartFailed, Teardown,
            HandlerCancelled, Submit, Reject, GoTo, TypeOK
      <4>2. Release(h) \/ Submit(h) \/ UNCHANGED stopEvents
        BY <1>3
        DEF HandlerStep, HandlerBegin, Die, ValidateDone, StartOk, StartFailed, Teardown,
            HandlerCancelled, Reject
      <4> QED  BY <1>r, <2>1, <3>1, <4>1, <4>2
    <3>2. CASE ~Active(h)
      <4>1. HandlerCancelled(h) /\ pc[h] = "idle"
        BY <1>3, <3>2, <1>y
        DEF HandlerStep, HandlerBegin, Die, ValidateDone, StartOk, StartFailed, Teardown,
            HandlerCancelled, Active, TypeOK
      <4> QED  BY <1>0, <2>1, <4>1, <1>y DEF HandlerCancelled, GoTo, TypeOK, Receiving
    <3> QED  BY <3>1, <3>2
  <2>2. CASE g = h /\ HandlerBegin(h)
    <3>1. wpc[h] = "none"  BY <1>y, <2>2 DEF HandlerBegin, TrackedOf
    <3>2. CASE Submit(h)
      <4>1. pc'[h] = "starting" /\ UNCHANGED sessionVars /\ Receiving /\ idOf[h] \in Ids
        BY <2>2, <3>2, <1>y DEF HandlerBegin, Submit, GoTo, Owns, Active, TypeOK
      <4>2. stopEvents'[idOf[h]] = h  BY <3>2, <4>1, <1>y DEF Submit, TypeOK
      <4> QED  BY <2>2, <4>1, <4>2 DEF TrackedOf, Receiving
    <3>3. CASE UNCHANGED workerVars  BY <2>2, <3>1, <3>3, <1>s DEF HandlerBegin
    <3> QED  BY <2>2, <3>2, <3>3 DEF HandlerBegin, Die
  <2>3. CASE g = h /\ ValidateDone(h)
    <3>1. wpc[h] = "none"  BY <1>y, <2>3 DEF ValidateDone, TrackedOf
    <3>2. CASE Submit(h)
      <4>1. pc'[h] = "starting" /\ UNCHANGED sessionVars /\ Receiving /\ idOf[h] \in Ids
        BY <2>3, <3>2, <1>y DEF ValidateDone, Submit, GoTo, Owns, Active, TypeOK
      <4>2. stopEvents'[idOf[h]] = h  BY <3>2, <4>1, <1>y DEF Submit, TypeOK
      <4> QED  BY <2>3, <4>1, <4>2 DEF TrackedOf, Receiving
    <3>3. CASE UNCHANGED workerVars  BY <2>3, <3>1, <3>3, <1>s DEF ValidateDone
    <3> QED  BY <2>3, <3>2, <3>3 DEF ValidateDone
  <2>4. CASE g = h /\ StartOk(h)
    <3>1. CASE sess = "open"
      <4>1. /\ pc[h] = "starting" /\ pc'[h] = "running"
            /\ UNCHANGED <<wpc, sess, idOf, stop, stopEvents>>
        BY <2>4, <3>1, <1>y DEF StartOk, GoTo, TypeOK
      <4> QED  BY <2>4, <4>1, <1>y DEF TrackedOf, Receiving
    <3>2. CASE sess # "open"
      <4>1. pc'[h] = "ended"  BY <2>4, <3>2, <1>y DEF StartOk, GoTo, TypeOK
      <4> QED  BY <2>4, <3>2, <4>1, <1>s DEF StartOk
    <3> QED  BY <3>1, <3>2
  <2>5. CASE g = h /\ (StartFailed(h) \/ Teardown(h))
    <3>1. pc'[h] = "ended" /\ h \in stop'  BY <2>5, <1>y DEF StartFailed, Reject, Teardown, GoTo, TypeOK
    <3> QED  BY <2>5, <3>1, <1>s DEF StartFailed, Teardown
  <2>6. CASE g = h /\ HandlerCancelled(h)
    <3>1. pc'[h] = "ended" /\ ~Receiving /\ stop \subseteq stop' /\ UNCHANGED <<wpc, idOf>>
      BY <2>6, <1>y DEF HandlerCancelled, GoTo, TypeOK, Receiving
    <3>2. wpc[h] \notin {"none", "exited"} => h \in stop  BY <1>y, <3>1 DEF TrackedOf
    <3> QED  BY <2>6, <3>1, <3>2, <1>s
  <2> QED  BY <1>3, <2>1, <2>2, <2>3, <2>4, <2>5, <2>6 DEF HandlerStep
<1>4. ASSUME NEW h \in Handlers, Bridge(h) \/ ReaderStep(h) \/ RunCallback(h) PROVE TrackedOf(g)'
  BY <1>4, <1>0 DEF Bridge, ReaderStep, ReaderChunk, ReaderEof, RunCallback, Receiving
<1>5. ASSUME NEW h \in Handlers, WorkerStep(h) PROVE TrackedOf(g)'
  <2>1. /\ UNCHANGED <<pc, idOf, sess, stopEvents>> /\ stop \subseteq stop'
        /\ \A x \in Handlers \ {h} : wpc'[x] = wpc[x]
    BY <1>5, <1>y
    DEF WorkerStep, PoolPick, WorkerStartup, WorkerTest, WorkerEmpty, WorkerItem, WorkerExit, Become, TypeOK
  <2>2. wpc[h] \notin {"none", "exited"}
    <3>1. CASE PoolPick(h)
      <4>1. poolQ \in Seq(Handlers) /\ poolQ # <<>> /\ h = Head(poolQ)
        BY <3>1, <1>y DEF PoolPick, TypeOK
      <4>2. 1 \in DOMAIN poolQ /\ h = poolQ[1]
        BY <4>1, HeadTailProperties, EmptySeq, LenProperties
      <4> QED  BY <4>2 DEF PtyInv, Tracked
    <3>2. CASE ~PoolPick(h)
      BY <1>5, <3>2 DEF WorkerStep, WorkerStartup, WorkerTest, WorkerEmpty, WorkerItem, WorkerExit
    <3> QED  BY <3>1, <3>2
  <2>3. CASE g # h  BY <2>1, <2>3, <1>0 DEF Receiving
  <2>4. CASE g = h  BY <2>1, <2>2, <2>4, <1>y DEF TrackedOf, Receiving
  <2> QED  BY <2>3, <2>4
<1>6. CASE ConnectionLost  BY <1>6, <1>0 DEF ConnectionLost, Receiving
<1>7. CASE SessionClose
  <2>1. wpc[g] \notin {"none", "exited"} => g \in stop'
    BY <1>7, <1>y DEF SessionClose, StopAll, TrackedOf
  <2> QED  BY <1>7, <2>1, <1>s, <1>y DEF SessionClose, TrackedOf
<1>8. CASE SessionClosed \/ Reconnect
  <2>1. ~Receiving  BY <1>8 DEF SessionClosed, Reconnect, Receiving
  <2>2. UNCHANGED <<pc, wpc, idOf, stop>>  BY <1>8 DEF SessionClosed, Reconnect
  <2> QED  BY <2>1, <2>2, <1>y DEF TrackedOf
<1>9. CASE UNCHANGED vars  BY <1>9, <1>0 DEF vars, Receiving
<1> QED  BY <1>1, <1>2, <1>3, <1>4, <1>5, <1>6, <1>7, <1>8, <1>9 DEF Next

-----------------------------------------------------------------------------
(* Callbacks. *)

DoneIsLastOf(g) ==
  /\ wpc[g] \in {"none", "queued"} => posted[g] = <<>>
  /\ \A i \in DOMAIN posted[g] :
       posted[g][i].what = "done" =>
         i = Len(posted[g]) /\ wpc[g] = "exited" /\ g \notin finished
  /\ g \in finished => posted[g] = <<>> /\ wpc[g] = "exited"

LEMMA DoneStep == PtyInv /\ [Next]_vars => DoneIsLast'
<1> SUFFICES ASSUME PtyInv, [Next]_vars, NEW g \in Handlers PROVE DoneIsLastOf(g)'
  BY DEF DoneIsLast, DoneIsLastOf
<1>y. TypeOK /\ Tracked /\ DoneIsLastOf(g) /\ \A h \in Handlers : DoneIsLastOf(h)
  BY DEF PtyInv, DoneIsLast, DoneIsLastOf
<1> USE DEF tableVars, sessionVars, handlerVars, workerVars, loopVars
<1>0. ASSUME wpc'[g] = wpc[g], posted'[g] = posted[g], UNCHANGED finished PROVE DoneIsLastOf(g)'
  BY <1>y, <1>0 DEF DoneIsLastOf
\* a live worker goes on, and may report something other than its end
<1>w. ASSUME wpc[g] \notin {"none", "exited"}, wpc'[g] \notin {"none", "queued", "exited"},
             UNCHANGED finished, posted'[g] = posted[g] PROVE DoneIsLastOf(g)'
  BY <1>y, <1>w DEF DoneIsLastOf
<1>p. ASSUME wpc[g] \notin {"none", "queued", "exited"}, UNCHANGED finished,
             NEW what \in {"started", "drained", "chunk", "done"}, NEW n \in Nat, Post(g, what, n),
             wpc'[g] \notin {"none", "queued"}, what = "done" => wpc'[g] = "exited"
      PROVE  DoneIsLastOf(g)'
  <2> DEFINE cb == [what |-> what, n |-> n]
  <2>1. posted[g] \in Seq(Callback) /\ cb \in Callback  BY <1>y DEF TypeOK, Callback
  <2>2. posted'[g] = Append(posted[g], cb)  BY <1>p, <1>y DEF Post, TypeOK
  <2>3. /\ DOMAIN posted'[g] = 1..(Len(posted[g]) + 1) /\ Len(posted'[g]) = Len(posted[g]) + 1
        /\ \A i \in 1..Len(posted[g]) : posted'[g][i] = posted[g][i]
        /\ posted'[g][Len(posted[g]) + 1] = cb /\ DOMAIN posted[g] = 1..Len(posted[g])
        /\ Len(posted[g]) \in Nat
    BY <2>1, <2>2, AppendTo
  <2>4. \A i \in DOMAIN posted[g] : posted[g][i].what # "done"  BY <1>p, <1>y DEF DoneIsLastOf
  <2>5. g \notin finished  BY <1>p, <1>y DEF DoneIsLastOf
  <2>6. ASSUME NEW i \in DOMAIN posted'[g], posted'[g][i].what = "done"
        PROVE  i = Len(posted'[g]) /\ wpc'[g] = "exited" /\ g \notin finished'
    <3>1. i = Len(posted[g]) + 1  BY <2>3, <2>4, <2>6
    <3>2. what = "done"  BY <2>3, <2>6, <3>1
    <3> QED  BY <1>p, <2>3, <2>5, <3>1, <3>2
  <2> QED  BY <1>p, <2>5, <2>6 DEF DoneIsLastOf
<1>1. ASSUME NEW h \in Handlers, HandlerStep(h) PROVE DoneIsLastOf(g)'
  <2>1. pc[h] \in {"idle", "spawned", "validating"} => wpc[h] = "none"  BY <1>y DEF Tracked
  <2>2. ASSUME Submit(h), wpc[h] = "none", UNCHANGED <<posted, finished>> PROVE DoneIsLastOf(g)'
    <3>1. wpc'[h] = "queued" /\ \A x \in Handlers \ {h} : wpc'[x] = wpc[x]
      BY <2>2, <1>y DEF Submit, TypeOK
    <3>2. posted[h] = <<>> /\ h \notin finished  BY <2>2, <1>y DEF DoneIsLastOf
    <3>3. CASE g = h  BY <2>2, <3>1, <3>2, <3>3 DEF DoneIsLastOf
    <3>4. CASE g # h  BY <2>2, <3>1, <3>4, <1>0
    <3> QED  BY <3>3, <3>4
  <2>3. CASE HandlerBegin(h)  BY <2>1, <2>2, <2>3, <1>0 DEF HandlerBegin, Die
  <2>4. CASE ValidateDone(h)  BY <2>1, <2>2, <2>4, <1>0 DEF ValidateDone
  <2>5. CASE StartOk(h) \/ StartFailed(h) \/ Teardown(h) \/ HandlerCancelled(h)
    BY <2>5, <1>0 DEF StartOk, StartFailed, Teardown, HandlerCancelled
  <2> QED  BY <1>1, <2>3, <2>4, <2>5 DEF HandlerStep
<1>2. ASSUME NEW h \in Handlers, WorkerStep(h) PROVE DoneIsLastOf(g)'
  <2>1. CASE g # h
    BY <1>2, <2>1, <1>0, <1>y
    DEF WorkerStep, PoolPick, WorkerStartup, WorkerTest, WorkerEmpty, WorkerItem, WorkerExit,
        Become, Post, TypeOK
  <2>2. CASE g = h /\ PoolPick(h)
    <3>1. poolQ \in Seq(Handlers) /\ poolQ # <<>> /\ h = Head(poolQ)
      BY <2>2, <1>y DEF PoolPick, TypeOK
    <3>2. 1 \in DOMAIN poolQ /\ h = poolQ[1]
      BY <3>1, HeadTailProperties, EmptySeq, LenProperties
    <3>3. wpc[h] = "queued" /\ wpc'[h] = "startup"
      BY <2>2, <3>2, <1>y DEF Tracked, PoolPick, Become, TypeOK
    <3> QED  BY <2>2, <3>3, <1>w DEF PoolPick
  <2>3. CASE g = h /\ WorkerStartup(h)
    BY <2>3, <1>p, <1>y DEF WorkerStartup, Become, TypeOK
  <2>4. CASE g = h /\ (WorkerTest(h) \/ WorkerEmpty(h))
    BY <2>4, <1>w, <1>y DEF WorkerTest, WorkerEmpty, Become, TypeOK
  <2>5. CASE g = h /\ WorkerItem(h)
    <3>1. threadQ[h] \in Seq(Item) /\ threadQ[h] # <<>>  BY <2>5, <1>y DEF WorkerItem, TypeOK
    <3>2. Head(threadQ[h]) \in Item  BY <3>1, HeadTailProperties
    <3>3. Head(threadQ[h]).n \in Nat  BY <3>2 DEF Item
    <3>4. wpc[h] = "get" /\ wpc'[h] \in {"exiting", "test"} /\ UNCHANGED finished
      BY <2>5, <1>y DEF WorkerItem, Become, TypeOK
    <3>5. UNCHANGED posted \/ Post(h, "drained", Head(threadQ[h]).n)  BY <2>5 DEF WorkerItem
    <3> QED  BY <2>5, <3>3, <3>4, <3>5, <1>w, <1>p
  <2>6. CASE g = h /\ WorkerExit(h)
    BY <2>6, <1>p, <1>y DEF WorkerExit, Become, TypeOK
  <2> QED  BY <1>2, <2>1, <2>2, <2>3, <2>4, <2>5, <2>6 DEF WorkerStep
<1>3. ASSUME NEW h \in Handlers, ReaderStep(h) PROVE DoneIsLastOf(g)'
  <2>1. CASE ReaderChunk(h)
    <3>1. CASE g = h
      BY <2>1, <3>1, <1>p, <1>y DEF ReaderChunk, ReaderAlive, Relaying
    <3>2. CASE g # h  BY <2>1, <3>2, <1>0, <1>y DEF ReaderChunk, Post, TypeOK
    <3> QED  BY <3>1, <3>2
  <2>2. CASE ReaderEof(h)  BY <2>2, <1>0 DEF ReaderEof
  <2> QED  BY <1>3, <2>1, <2>2 DEF ReaderStep
<1>4. ASSUME NEW h \in Handlers, RunCallback(h) PROVE DoneIsLastOf(g)'
  <2>1. CASE g # h
    BY <1>4, <2>1, <1>y DEF RunCallback, TypeOK, DoneIsLastOf
  <2>2. CASE g = h
    <3> DEFINE q == posted[h]
    <3>1. q \in Seq(Callback) /\ q # <<>> /\ posted'[h] = Tail(q) /\ wpc' = wpc
      BY <1>4, <1>y DEF RunCallback, TypeOK
    <3>2. /\ DOMAIN q = 1..Len(q) /\ Len(q) \in Nat \ {0} /\ Head(q) = q[1]
          /\ DOMAIN Tail(q) = 1..(Len(q) - 1) /\ Len(Tail(q)) = Len(q) - 1
          /\ \A i \in 1..(Len(q) - 1) : i + 1 \in DOMAIN q /\ Tail(q)[i] = q[i + 1]
      BY <3>1, TailOf
    <3>3. finished' = IF q[1].what = "done" THEN finished \cup {h} ELSE finished
      BY <1>4, <3>2 DEF RunCallback
    <3>4. wpc[h] \notin {"none", "queued"} /\ h \notin finished  BY <3>1, <1>y DEF DoneIsLastOf
    <3>5. CASE q[1].what = "done"
      <4>0. 1 \in DOMAIN posted[h] /\ posted[h][1].what = "done"  BY <3>2, <3>5
      <4>1. Len(q) = 1 /\ wpc[h] = "exited"  BY <4>0, <1>y DEF DoneIsLastOf
      <4>2. Tail(q) = <<>>
        <5>1. Tail(q) \in Seq(Callback) /\ Len(Tail(q)) = 0  BY <3>1, <3>2, <4>1, TailOf
        <5> QED  BY <5>1, EmptySeq
      <4>3. posted'[h] = <<>> /\ wpc'[h] = "exited"  BY <3>1, <4>1, <4>2
      <4> QED  BY <2>2, <3>4, <4>3 DEF DoneIsLastOf
    <3>6. CASE q[1].what # "done"
      <4>1. ASSUME NEW i \in DOMAIN Tail(q), Tail(q)[i].what = "done"
            PROVE  i = Len(Tail(q)) /\ wpc[h] = "exited"
        <5>1. i + 1 \in DOMAIN q /\ q[i + 1].what = "done"  BY <3>2, <4>1
        <5>2. i + 1 = Len(q) /\ wpc[h] = "exited"  BY <5>1, <1>y DEF DoneIsLastOf
        <5> QED  BY <3>2, <5>2
      <4> HIDE DEF q
      <4> QED  BY <2>2, <3>1, <3>3, <3>4, <3>6, <4>1 DEF DoneIsLastOf
    <3> QED  BY <3>5, <3>6
  <2> QED  BY <2>1, <2>2
<1>5. ASSUME NEW h \in Handlers, Bridge(h) PROVE DoneIsLastOf(g)'
  BY <1>5, <1>0 DEF Bridge
<1>6. ASSUME NEW h \in Handlers, NEW id \in Ids \cup {MalformedId}, OpenRefused(h, id) \/ Open(h, id)
      PROVE DoneIsLastOf(g)'
  BY <1>6, <1>0 DEF OpenRefused, Open
<1>7. ASSUME NEW id \in Ids, NEW item \in Frames, StreamFrame(id, item) PROVE DoneIsLastOf(g)'
  BY <1>7, <1>0 DEF StreamFrame
<1>8. CASE ConnectionLost \/ SessionClose \/ SessionClosed \/ Reconnect
  BY <1>8, <1>0 DEF ConnectionLost, SessionClose, SessionClosed, Reconnect
<1>9. CASE UNCHANGED vars  BY <1>9, <1>0 DEF vars
<1> QED  BY <1>1, <1>2, <1>3, <1>4, <1>5, <1>6, <1>7, <1>8, <1>9 DEF Next

-----------------------------------------------------------------------------
(* Messages. *)

AnsweredOf(g) ==
  /\ \A i \in DOMAIN out[g] : out[g][i] = "closed" =>
       /\ i = Len(out[g]) /\ pc[g] = "ended" /\ g \in finished
       /\ \E m \in 1..i : out[g][m] = "ok"
  /\ \A i, j \in DOMAIN out[g] :
       out[g][i] \in Responses /\ out[g][j] \in Responses => i = j
  /\ pc[g] \in {"idle", "spawned", "validating", "starting"} =>
       \A i \in DOMAIN out[g] : out[g][i] \notin Responses
  /\ pc[g] = "running" => \E i \in DOMAIN out[g] : out[g][i] = "ok"

LEMMA AnsweredStep == PtyInv /\ [Next]_vars => Answered'
<1> SUFFICES ASSUME PtyInv, [Next]_vars, NEW g \in Handlers PROVE AnsweredOf(g)'
  BY DEF Answered, AnsweredOf
<1>y. TypeOK /\ AnsweredOf(g) /\ DoneIsLast /\ out[g] \in Seq({"ok", "error", "data", "closed"})
  BY DEF PtyInv, Answered, AnsweredOf, TypeOK
<1> USE DEF tableVars, sessionVars, handlerVars, workerVars, loopVars
<1> DEFINE Before(st) == st \in {"idle", "spawned", "validating", "starting"}
\* nothing is sent
<1>0. ASSUME out'[g] = out[g], finished \subseteq finished',
             \/ pc'[g] = pc[g]
             \/ pc'[g] = "ended"
             \/ Before(pc[g]) /\ Before(pc'[g])
      PROVE  AnsweredOf(g)'
  BY <1>y, <1>0 DEF AnsweredOf
<1>a. ASSUME NEW x \in {"ok", "error", "data", "closed"}, out'[g] = Append(out[g], x)
      PROVE  /\ DOMAIN out[g] = 1..Len(out[g]) /\ Len(out[g]) \in Nat
             /\ DOMAIN out'[g] = 1..(Len(out[g]) + 1) /\ Len(out'[g]) = Len(out[g]) + 1
             /\ \A i \in 1..Len(out[g]) : out'[g][i] = out[g][i]
             /\ out'[g][Len(out[g]) + 1] = x
  BY <1>y, <1>a, AppendTo
\* the response
<1>b. ASSUME Before(pc[g]), NEW x \in Responses, out'[g] = Append(out[g], x),
             pc'[g] = IF x = "ok" THEN "running" ELSE "ended"
      PROVE  AnsweredOf(g)'
  <2>1. \A i \in DOMAIN out[g] : out[g][i] \notin Responses /\ out[g][i] # "closed"
    BY <1>y, <1>b DEF AnsweredOf
  <2>2. x \in {"ok", "error", "data", "closed"}  BY DEF Responses
  <2>3. /\ DOMAIN out[g] = 1..Len(out[g]) /\ Len(out[g]) \in Nat
        /\ DOMAIN out'[g] = 1..(Len(out[g]) + 1)
        /\ \A i \in 1..Len(out[g]) : out'[g][i] = out[g][i]
        /\ out'[g][Len(out[g]) + 1] = x
    BY <1>a, <1>b, <2>2
  <2>4. \A i \in DOMAIN out'[g] : out'[g][i] \in Responses \cup {"closed"} => i = Len(out[g]) + 1
    BY <2>1, <2>3
  <2>5. \A i \in DOMAIN out'[g] : out'[g][i] # "closed"
    BY <2>3, <2>4 DEF Responses
  <2>6. x = "ok" => \E i \in DOMAIN out'[g] : out'[g][i] = "ok"
    <3>1. Len(out[g]) + 1 \in DOMAIN out'[g]  BY <2>3
    <3> QED  BY <2>3, <3>1
  <2>7. pc'[g] = "running" => x = "ok"  BY <1>b
  <2> HIDE DEF Before
  <2> QED  BY <1>b, <2>4, <2>5, <2>6, <2>7 DEF AnsweredOf
\* output
<1>d. ASSUME g \notin finished, out'[g] = Append(out[g], "data"), UNCHANGED pc PROVE AnsweredOf(g)'
  <2>1. \A i \in DOMAIN out[g] : out[g][i] # "closed"  BY <1>y, <1>d DEF AnsweredOf
  <2>2. /\ DOMAIN out[g] = 1..Len(out[g]) /\ Len(out[g]) \in Nat
        /\ DOMAIN out'[g] = 1..(Len(out[g]) + 1)
        /\ \A i \in 1..Len(out[g]) : out'[g][i] = out[g][i]
        /\ out'[g][Len(out[g]) + 1] = "data"
    BY <1>a, <1>d
  <2>3. \A i \in DOMAIN out'[g] :
          \/ i \in DOMAIN out[g] /\ out'[g][i] = out[g][i]
          \/ out'[g][i] = "data"
    BY <2>2
  <2>4. \A i \in DOMAIN out[g] : i \in DOMAIN out'[g] /\ out'[g][i] = out[g][i]  BY <2>2
  <2>5. "data" \notin Responses  BY DEF Responses
  <2> QED  BY <1>y, <1>d, <2>1, <2>3, <2>4, <2>5 DEF AnsweredOf
\* the end
<1>c. ASSUME pc[g] = "running", g \in finished, UNCHANGED finished,
             out'[g] = Append(out[g], "closed"), pc'[g] = "ended"
      PROVE  AnsweredOf(g)'
  <2>1. \A i \in DOMAIN out[g] : out[g][i] # "closed"  BY <1>y, <1>c DEF AnsweredOf
  <2>2. /\ DOMAIN out[g] = 1..Len(out[g]) /\ Len(out[g]) \in Nat
        /\ DOMAIN out'[g] = 1..(Len(out[g]) + 1) /\ Len(out'[g]) = Len(out[g]) + 1
        /\ \A i \in 1..Len(out[g]) : out'[g][i] = out[g][i]
        /\ out'[g][Len(out[g]) + 1] = "closed"
    BY <1>a, <1>c
  <2>3. PICK m \in DOMAIN out[g] : out[g][m] = "ok"  BY <1>y, <1>c DEF AnsweredOf
  <2>4. m \in 1..(Len(out[g]) + 1) /\ out'[g][m] = "ok"  BY <2>2, <2>3
  <2>5. \A i \in DOMAIN out'[g] : out'[g][i] = "closed" => i = Len(out[g]) + 1  BY <2>1, <2>2
  <2>6. \A i \in DOMAIN out'[g] : out'[g][i] \in Responses => i \in DOMAIN out[g] /\ out[g][i] \in Responses
    BY <2>2 DEF Responses
  <2>7. \A i, j \in DOMAIN out[g] : out[g][i] \in Responses /\ out[g][j] \in Responses => i = j
    BY <1>y DEF AnsweredOf
  <2> QED  BY <1>c, <2>2, <2>4, <2>5, <2>6, <2>7 DEF AnsweredOf
<1>1. ASSUME NEW h \in Handlers, NEW id \in Ids \cup {MalformedId}, OpenRefused(h, id) PROVE AnsweredOf(g)'
  <2>1. CASE g = h
    BY <1>1, <2>1, <1>0, <1>b, <1>y DEF OpenRefused, NextRequest, GoTo, Send, Responses, TypeOK
  <2>2. CASE g # h  BY <1>1, <2>2, <1>0, <1>y DEF OpenRefused, GoTo, Send, TypeOK
  <2> QED  BY <2>1, <2>2
<1>2. ASSUME NEW h \in Handlers, NEW id \in Ids, Open(h, id) PROVE AnsweredOf(g)'
  BY <1>2, <1>0, <1>y DEF Open, NextRequest, GoTo, TypeOK
<1>3. ASSUME NEW id \in Ids, NEW item \in Frames, StreamFrame(id, item) PROVE AnsweredOf(g)'
  BY <1>3, <1>0 DEF StreamFrame
<1>4. ASSUME NEW h \in Handlers, HandlerStep(h) PROVE AnsweredOf(g)'
  <2>1. CASE g # h
    <3>1. pc'[g] = pc[g] /\ out'[g] = out[g] /\ UNCHANGED finished
      BY <1>4, <2>1, <1>y
      DEF HandlerStep, HandlerBegin, Die, ValidateDone, StartOk, StartFailed, Teardown,
          HandlerCancelled, Submit, Reject, GoTo, Send, TypeOK
    <3> QED  BY <1>0, <3>1
  <2>2. ASSUME g = h, Before(pc[h]), Reject(h), UNCHANGED finished PROVE AnsweredOf(g)'
    BY <2>2, <1>0, <1>b, <1>y DEF Reject, GoTo, Send, Responses, TypeOK
  <2>3. CASE g = h /\ HandlerBegin(h)
    BY <2>2, <2>3, <1>0, <1>y DEF HandlerBegin, Die, Submit, GoTo, TypeOK
  <2>4. CASE g = h /\ ValidateDone(h)
    BY <2>2, <2>4, <1>0, <1>y DEF ValidateDone, Submit, GoTo, TypeOK
  <2>5. CASE g = h /\ StartOk(h)
    BY <2>5, <1>0, <1>b, <1>y DEF StartOk, GoTo, Send, Responses, TypeOK
  <2>6. CASE g = h /\ StartFailed(h)  BY <2>2, <2>6 DEF StartFailed
  <2>7. CASE g = h /\ Teardown(h)
    BY <2>7, <1>0, <1>c, <1>y DEF Teardown, GoTo, Send, TypeOK
  <2>8. CASE g = h /\ HandlerCancelled(h)
    BY <2>8, <1>0, <1>y DEF HandlerCancelled, GoTo, TypeOK
  <2> QED  BY <1>4, <2>1, <2>3, <2>4, <2>5, <2>6, <2>7, <2>8 DEF HandlerStep
<1>5. ASSUME NEW h \in Handlers, Bridge(h) PROVE AnsweredOf(g)'
  BY <1>5, <1>0 DEF Bridge
<1>6. ASSUME NEW h \in Handlers, WorkerStep(h) \/ ReaderStep(h) PROVE AnsweredOf(g)'
  BY <1>6, <1>0
  DEF WorkerStep, PoolPick, WorkerStartup, WorkerTest, WorkerEmpty, WorkerItem, WorkerExit,
      ReaderStep, ReaderChunk, ReaderEof
<1>7. ASSUME NEW h \in Handlers, RunCallback(h) PROVE AnsweredOf(g)'
  <2>1. h \notin finished /\ UNCHANGED pc /\ finished \subseteq finished'
    BY <1>7, <1>y DEF RunCallback, DoneIsLast
  <2>2. out'[g] = out[g] \/ out'[g] = Append(out[g], "data")
    <3>1. Send(h, "data") \/ UNCHANGED out  BY <1>7 DEF RunCallback
    <3>2. CASE Send(h, "data")  BY <3>2, <1>y DEF Send, TypeOK
    <3> QED  BY <3>1, <3>2
  <2>3. CASE g = h  BY <2>1, <2>2, <2>3, <1>0, <1>d
  <2>4. CASE g # h
    <3>1. out'[g] = out[g]  BY <1>7, <2>4, <1>y DEF RunCallback, Send, TypeOK
    <3> QED  BY <2>1, <3>1, <1>0
  <2> QED  BY <2>3, <2>4
<1>8. CASE ConnectionLost \/ SessionClose \/ SessionClosed \/ Reconnect
  BY <1>8, <1>0 DEF ConnectionLost, SessionClose, SessionClosed, Reconnect
<1>9. CASE UNCHANGED vars  BY <1>9, <1>0 DEF vars
<1> QED  BY <1>1, <1>2, <1>3, <1>4, <1>5, <1>6, <1>7, <1>8, <1>9 DEF Next

-----------------------------------------------------------------------------
(* What is charged. *)

LEMMA OfferSize ==
  ASSUME PtyInv, NEW h \in Handlers, NEW x \in Item, Offer(h, x)
  PROVE  /\ SizeOf(threadQ'[h]) \in Nat /\ SizeOf(threadQ'[h]) <= SizeOf(threadQ[h]) + x.n
         /\ x.tag = "data" /\ Len(threadQ[h]) >= ThreadCap => threadQ'[h] = threadQ[h]
         /\ \A g \in Handlers \ {h} : threadQ'[g] = threadQ[g]
<1>1. /\ threadQ \in [Handlers -> Seq(Item)] /\ ThreadCap \in Nat \ {0}
      /\ threadQ[h] \in Seq(Item) /\ Len(threadQ[h]) \in Nat /\ x.n \in Nat
  BY PtyAssumption, ItemSizes DEF PtyInv, TypeOK
<1>2. SizeOf(threadQ[h]) \in Nat  BY <1>1, ItemSizes, Sizes
<1>6. \A g \in Handlers \ {h} : threadQ'[g] = threadQ[g]  BY <1>1 DEF Offer
<1>3. CASE Len(threadQ[h]) < ThreadCap
  <2>1. threadQ'[h] = Append(threadQ[h], x)  BY <1>1, <1>3 DEF Offer
  <2>2. SizeOf(threadQ'[h]) = SizeOf(threadQ[h]) + x.n  BY <1>1, <2>1, ItemSizes, Sizes
  <2> QED  BY <1>1, <1>2, <1>3, <2>2 DEF Offer
<1>4. CASE ~(Len(threadQ[h]) < ThreadCap) /\ x.tag # "close"
  <2>1. threadQ'[h] = threadQ[h]  BY <1>1, <1>4 DEF Offer
  <2>2. SizeOf(threadQ[h]) <= SizeOf(threadQ[h]) + x.n  BY <1>1, <1>2
  <2> QED  BY <1>2, <1>6, <2>1, <2>2
<1>5. CASE ~(Len(threadQ[h]) < ThreadCap) /\ x.tag = "close"
  <2>1. threadQ[h] # <<>>  BY <1>1, <1>5, EmptySeq
  <2>2. PICK q \in Seq(Item) : q = Tail(threadQ[h])  BY <1>1, <2>1, HeadTailProperties
  <2>3. threadQ'[h] = Append(q, x)  BY <1>1, <1>5, <2>2 DEF Offer
  <2>4. SizeOf(q) \in Nat /\ SizeOf(q) <= SizeOf(threadQ[h])
    <3>1. /\ SizeOf(threadQ[h]) = Head(threadQ[h]).n + SizeOf(q)
          /\ Head(threadQ[h]).n \in Nat /\ SizeOf(q) \in Nat
      BY <1>1, <2>1, <2>2, ItemSizes, Sizes
    <3> QED  BY <3>1
  <2>5. SizeOf(threadQ'[h]) = SizeOf(q) + x.n  BY <2>3, ItemSizes, Sizes
  <2> QED  BY <1>1, <1>2, <1>5, <2>4, <2>5 DEF Offer
<1> QED  BY <1>3, <1>4, <1>5

LEMMA PostSize ==
  ASSUME PtyInv, NEW h \in Handlers, NEW what \in {"started", "drained", "chunk", "done"},
         NEW n \in Nat, Post(h, what, n)
  PROVE  /\ SizeOf(posted'[h]) = SizeOf(posted[h]) + n
         /\ \A g \in Handlers \ {h} : posted'[g] = posted[g]
<1>1. PICK cb \in Callback : cb = [what |-> what, n |-> n]  BY DEF Callback
<1>2. posted \in [Handlers -> Seq(Callback)] /\ posted[h] \in Seq(Callback)  BY DEF PtyInv, TypeOK
<1>3. posted'[h] = Append(posted[h], cb) /\ \A g \in Handlers \ {h} : posted'[g] = posted[g]
  BY <1>1, <1>2 DEF Post
<1>4. SizeOf(posted'[h]) = SizeOf(posted[h]) + cb.n  BY <1>2, <1>3, CallbackSizes, Sizes
<1> QED  BY <1>1, <1>3, <1>4

LEMMA CoveredStep == PtyInv /\ [Next]_vars => Covered'
<1> DEFINE C(h) == SizeOf(ctrlQ[h])
           T(h) == SizeOf(threadQ[h])
           P(h) == SizeOf(posted[h])
<1> SUFFICES ASSUME PtyInv, [Next]_vars PROVE Covered'  OBVIOUS
<1>y. /\ TypeOK /\ TableType /\ Owns /\ IInv /\ NoHandler \notin Handlers /\ Frames \subseteq Item
      /\ \A h \in Handlers : LateIsHarmless(h)
      /\ \A id \in Ids : Covers(id)
      /\ \A item \in Frames : item.tag # "data" => item.n = 0
  BY TableAssumption DEF PtyInv, TypeOK, Covered
<1>c. Close \in Item /\ Close.n = 0 /\ Close.tag = "close"  BY DEF Close, Signal, Item, Tags
<1>t. /\ \A h \in Handlers : ctrlQ[h] \in Seq(Item) /\ threadQ[h] \in Seq(Item) /\ posted[h] \in Seq(Callback)
      /\ \A id \in Ids : streams[id] # NoHandler => streams[id] \in Handlers
      /\ \A id \in Ids : streamBytes[id] \in Nat
  BY <1>y DEF TypeOK, TableType
<1>s. \A h \in Handlers : C(h) \in Nat /\ T(h) \in Nat /\ P(h) \in Nat
  BY <1>t, ItemSizes, CallbackSizes, Sizes
<1>v. \A h \in Handlers : Held(h) = C(h) + T(h) + P(h) /\ Underway(h) = T(h) + P(h)
  BY DEF Held, Underway
<1>o. \A id \in Ids : streams[id] # NoHandler => pc[streams[id]] # "idle" /\ idOf[streams[id]] = id
  BY <1>y DEF Owns
<1>z. \A h \in Handlers : threadQ'[h] \in Seq(Item) /\ posted'[h] \in Seq(Callback)
  BY TypeStep DEF TypeOK
<1> USE DEF tableVars, sessionVars, handlerVars, workerVars, loopVars
<1> HIDE DEF C, T, P
\* a step that moves no bytes
<1>0. ASSUME UNCHANGED <<streams, streamBytes, ctrlQ, threadQ, posted, pc, mine, idOf>>,
             Receiving' => Receiving
      PROVE  Covered'
  BY <1>y, <1>0 DEF Covered, LateIsHarmless, Underway, Covers, Held
\* a step of the task of h
<1>p. ASSUME NEW h \in Handlers, UNCHANGED <<streams, streamBytes, ctrlQ, threadQ, posted, sess>>,
             \A g \in Handlers \ {h} : pc'[g] = pc[g] /\ idOf'[g] = idOf[g],
             mine' \in {mine, mine \cup {h}},
             Underway(h) = 0 \/ pc'[h] = "running"
      PROVE  Covered'
  <2>1. \A id \in Ids : Covers(id)'  BY <1>y, <1>p DEF Covers, Held
  <2>2. ASSUME NEW g \in Handlers PROVE LateIsHarmless(g)'
    <3>1. Underway(g)' = Underway(g)  BY <1>p DEF Underway
    <3>2. CASE g = h  BY <1>p, <3>1, <3>2 DEF LateIsHarmless
    <3>3. CASE g # h
      <4>1. pc'[g] = pc[g] /\ idOf'[g] = idOf[g] /\ (g \in mine' <=> g \in mine)
        BY <1>p, <3>3
      <4> QED  BY <1>p, <1>y, <3>1, <4>1 DEF LateIsHarmless, Receiving
    <3> QED  BY <3>2, <3>3
  <2> QED  BY <2>1, <2>2 DEF Covered
\* bytes of h move, or are dropped
<1>m. ASSUME NEW h \in Handlers, UNCHANGED <<streams, pc, mine, idOf, sess>>,
             Underway(h)' <= Underway(h) \/ pc[h] = "running", Underway(h)' \in Nat,
             \A g \in Handlers \ {h} : threadQ'[g] = threadQ[g] /\ posted'[g] = posted[g]
      PROVE  \A g \in Handlers : LateIsHarmless(g)'
  <2>1. \A g \in Handlers \ {h} : LateIsHarmless(g)'
    BY <1>y, <1>m DEF LateIsHarmless, Underway, Receiving
  <2>2. LateIsHarmless(h)'
    <3>1. CASE pc[h] = "running"  BY <1>m, <3>1 DEF LateIsHarmless
    <3>2. CASE Underway(h)' <= Underway(h)
      <4>1. Underway(h) \in Nat  BY <1>s, <1>v
      <4>2. Underway(h)' # 0 => Underway(h) # 0  BY <1>m, <3>2, <4>1
      <4> QED  BY <1>y, <1>m, <4>2 DEF LateIsHarmless, Receiving
    <3> QED  BY <1>m, <3>1, <3>2
  <2> QED  BY <2>1, <2>2
<1>n. ASSUME NEW h \in Handlers, UNCHANGED <<streams, streamBytes>>, Held(h)' <= Held(h), Held(h)' \in Nat,
             \A g \in Handlers \ {h} : ctrlQ'[g] = ctrlQ[g] /\ threadQ'[g] = threadQ[g] /\ posted'[g] = posted[g]
      PROVE  \A id \in Ids : Covers(id)'
  <2> SUFFICES ASSUME NEW id \in Ids, streams[id] # NoHandler PROVE Held(streams[id])' <= streamBytes[id]
    BY <1>n DEF Covers
  <2>1. CASE streams[id] = h
    <3>1. Held(h) <= streamBytes[id] /\ Held(h) \in Nat /\ streamBytes[id] \in Nat
      BY <1>y, <1>s, <1>t, <1>v, <2>1 DEF Covers
    <3> QED  BY <1>n, <2>1, <3>1
  <2>2. CASE streams[id] # h
    BY <1>n, <1>t, <1>y, <2>2 DEF Covers, Held
  <2> QED  BY <2>1, <2>2
\* h reports n bytes of its own
<1>d. ASSUME NEW h \in Handlers, NEW n \in Nat, idOf[h] \in Ids, streams[idOf[h]] \in {h, NoHandler} \/ n = 0,
             DrainBytes(idOf[h], n), UNCHANGED streams, Held(h) = Held(h)' + n, Held(h)' \in Nat,
             \A g \in Handlers \ {h} : ctrlQ'[g] = ctrlQ[g] /\ threadQ'[g] = threadQ[g] /\ posted'[g] = posted[g]
      PROVE  \A id \in Ids : Covers(id)'
  <2>0. PICK mineId \in Ids : mineId = idOf[h]  BY <1>d
  <2>1. /\ streamBytes' = [streamBytes EXCEPT ![mineId] = @ - Drained(mineId, n)]
        /\ n = 0 => Drained(mineId, n) = 0
    BY <1>d, <1>t, <2>0 DEF DrainBytes, Drained
  <2> SUFFICES ASSUME NEW id \in Ids, streams[id] # NoHandler PROVE Held(streams[id])' <= streamBytes'[id]
    BY <1>d DEF Covers
  <2>2. Held(h) \in Nat /\ streamBytes[id] \in Nat  BY <1>s, <1>t, <1>v
  <2>3. CASE streams[id] = h
    <3>1. id = mineId  BY <1>o, <2>0, <2>3
    <3>2. Held(h) <= streamBytes[id]  BY <1>y, <2>3 DEF Covers
    <3>3. n <= streamBytes[id]  BY <1>d, <2>2, <3>2
    <3>4. Drained(id, n) = n  BY <2>2, <3>3 DEF Drained
    <3>5. streamBytes'[id] = streamBytes[id] - n  BY <2>1, <3>1, <3>4, <1>y DEF TableType
    <3>6. Held(h)' <= streamBytes'[id]  BY <1>d, <2>2, <3>2, <3>5
    <3> QED  BY <1>d, <2>3, <3>6
  <2>4. CASE streams[id] # h
    <3>1. id = mineId => n = 0  BY <1>d, <2>0, <2>4
    <3>2. streamBytes'[id] = streamBytes[id]  BY <1>t, <1>y, <2>1, <3>1 DEF TableType
    <3> QED  BY <1>d, <1>t, <1>y, <2>4, <3>2 DEF Covers, Held
  <2> QED  BY <2>3, <2>4
\* the handler of an active stream ends and releases it
<1>e. ASSUME NEW h \in Handlers, Active(h), Release(h), pc' = [pc EXCEPT ![h] = "ended"],
             UNCHANGED <<sess, mine, idOf, posted>>, ~Receiving \/ Underway(h)' = 0,
             \A g \in Handlers \ {h} : threadQ'[g] = threadQ[g]
      PROVE  Covered'
  <2>0. PICK id \in Ids : id = idOf[h] /\ streams[id] = h  BY <1>e, <1>y DEF Owns
  <2>1. /\ streams' = [streams EXCEPT ![id] = NoHandler] /\ streamBytes' = [streamBytes EXCEPT ![id] = 0]
        /\ ctrlQ' = [ctrlQ EXCEPT ![h] = <<>>]
    BY <1>e, <2>0 DEF Release, ReleaseStream
  <2>2. streams'[id] = NoHandler /\ \A d \in Ids \ {id} : streams'[d] = streams[d] /\ streamBytes'[d] = streamBytes[d]
    BY <2>1, <1>y DEF TableType
  <2>3. ASSUME NEW d \in Ids PROVE Covers(d)'
    <3>1. CASE d = id  BY <2>2, <3>1 DEF Covers
    <3>2. CASE d # id
      <4>1. streams[d] # h  BY <1>o, <1>y, <2>0, <3>2
      <4>2. streams[d] # NoHandler =>
              /\ ctrlQ'[streams[d]] = ctrlQ[streams[d]] /\ threadQ'[streams[d]] = threadQ[streams[d]]
              /\ posted' = posted
        BY <1>e, <1>t, <1>y, <2>1, <4>1 DEF TableType
      <4> QED  BY <1>y, <2>2, <3>2, <4>2 DEF Covers, Held
    <3> QED  BY <3>1, <3>2
  <2>4. LateIsHarmless(h)'
    <3>1. pc'[h] = "ended" /\ idOf'[h] = id  BY <1>e, <1>y, <2>0 DEF TypeOK
    <3> QED  BY <1>e, <2>2, <3>1 DEF LateIsHarmless, Receiving
  <2>5. ASSUME NEW g \in Handlers \ {h} PROVE LateIsHarmless(g)'
    <3>1. pc'[g] = pc[g] /\ Underway(g)' = Underway(g)  BY <1>e, <1>y DEF TypeOK, Underway
    <3> QED  BY <1>e, <1>y, <2>2, <3>1 DEF LateIsHarmless, Receiving
  <2> QED  BY <2>3, <2>4, <2>5 DEF Covered
<1>q. \A h \in Handlers : pc[h] \in {"idle", "spawned", "validating", "starting"} => Underway(h) = 0
  BY <1>y DEF LateIsHarmless
<1>1. ASSUME NEW h \in Handlers, NEW id \in Ids \cup {MalformedId}, OpenRefused(h, id) PROVE Covered'
  <2>1. pc[h] = "idle"  BY <1>1 DEF OpenRefused, NextRequest
  <2> QED  BY <1>1, <2>1, <1>p, <1>q, <1>y DEF OpenRefused, GoTo, TypeOK
<1>2. ASSUME NEW h \in Handlers, NEW id \in Ids, Open(h, id) PROVE Covered'
  <2>1. pc[h] = "idle" /\ Underway(h) = 0  BY <1>2, <1>q DEF Open, NextRequest
  <2>2. /\ streams' = [streams EXCEPT ![id] = h] /\ streamBytes' = [streamBytes EXCEPT ![id] = 0]
        /\ ctrlQ' = [ctrlQ EXCEPT ![h] = <<>>] /\ UNCHANGED <<threadQ, posted>>
        /\ pc' = [pc EXCEPT ![h] = "spawned"] /\ mine' = mine \cup {h}
        /\ idOf' = [idOf EXCEPT ![h] = id] /\ Receiving
    BY <1>2 DEF Open, Claim, GoTo
  <2>3. ASSUME NEW g \in Handlers PROVE LateIsHarmless(g)'
    <3>1. CASE g = h  BY <2>1, <2>2, <3>1 DEF LateIsHarmless, Underway
    <3>2. CASE g # h
      <4>1. pc'[g] = pc[g] /\ (g \in mine' <=> g \in mine)  BY <1>y, <2>2, <3>2 DEF TypeOK
      <4>2. Underway(g)' = Underway(g)  BY <2>2 DEF Underway
      <4> QED  BY <1>y, <2>2, <4>1, <4>2 DEF LateIsHarmless
    <3> QED  BY <3>1, <3>2
  <2>4. ASSUME NEW d \in Ids PROVE Covers(d)'
    <3>1. CASE d = id
      <4>1. streams'[id] = h /\ streamBytes'[id] = 0 /\ ctrlQ'[h] = <<>>  BY <1>y, <2>2 DEF TableType
      <4>2. Held(h)' = 0 + SizeOf(threadQ[h]) + SizeOf(posted[h])
        BY <2>2, <4>1, SizeOfEmpty DEF Held
      <4>3. Held(h)' = 0  BY <2>1, <4>2, <1>s, <1>v DEF T, P
      <4> QED  BY <3>1, <4>1, <4>3 DEF Covers
    <3>2. CASE d # id
      <4>1. streams[d] # h  BY <1>o, <1>y, <2>1
      <4>2. streams'[d] = streams[d] /\ streamBytes'[d] = streamBytes[d]
        BY <1>y, <2>2, <3>2 DEF TableType
      <4>3. streams[d] # NoHandler => ctrlQ'[streams[d]] = ctrlQ[streams[d]]
        BY <1>t, <1>y, <2>2, <4>1 DEF TableType
      <4> QED  BY <1>y, <2>2, <4>2, <4>3 DEF Covers, Held
    <3> QED  BY <3>1, <3>2
  <2> QED  BY <2>3, <2>4 DEF Covered
<1>3. ASSUME NEW id \in Ids, NEW item \in Frames, StreamFrame(id, item) PROVE Covered'
  <2>0. PICK h \in Handlers : h = streams[id]
    BY <1>3, <1>t DEF StreamFrame, Dispatch, StreamCtrl, Live
  <2>1. /\ h # NoHandler /\ item \in Item /\ item.n \in Nat
        /\ UNCHANGED <<threadQ, posted, pc, mine, idOf, sess, streams>>
    BY <1>3, <1>y
    DEF StreamFrame, Dispatch, StreamCtrl, Live, Item, CtrlOverflow, CtrlData, CtrlDropped, CtrlSignal
  <2>2. \A g \in Handlers : LateIsHarmless(g)'
    BY <1>y, <2>1 DEF LateIsHarmless, Underway, Receiving
  <2>3. ASSUME NEW x \in Item, PutIfRoom(h, x),
               streamBytes' = [streamBytes EXCEPT ![id] = @ + x.n]
        PROVE  \A d \in Ids : Covers(d)'
    <3>1. ctrlQ'[h] = Append(ctrlQ[h], x) \/ ctrlQ'[h] = ctrlQ[h]
      BY <1>y, <2>1, <2>3 DEF PutIfRoom, TableType
    <3>2. \A g \in Handlers \ {h} : ctrlQ'[g] = ctrlQ[g]
      BY <1>y, <2>1, <2>3 DEF PutIfRoom, TableType
    <3>3. ASSUME NEW d \in Ids, d # id PROVE Covers(d)'
      <4>1. streamBytes'[d] = streamBytes[d]  BY <1>y, <2>3, <3>3 DEF TableType
      <4>2. streams[d] # NoHandler => streams[d] \in Handlers \ {h}
        BY <1>o, <1>t, <2>0, <3>3
      <4> QED  BY <1>y, <2>1, <3>2, <4>1, <4>2 DEF Covers, Held
    <3>4. Covers(id)'
      <4>1. x.n \in Nat /\ SizeOf(Append(ctrlQ[h], x)) = C(h) + x.n
        BY <1>t, <2>1, ItemSizes, Sizes DEF C
      <4>2. SizeOf(ctrlQ'[h]) <= C(h) + x.n /\ SizeOf(ctrlQ'[h]) \in Nat
        <5>1. C(h) \in Nat  BY <1>s
        <5>2. CASE ctrlQ'[h] = ctrlQ[h]
          <6>1. SizeOf(ctrlQ'[h]) = C(h)  BY <5>2 DEF C
          <6> QED  BY <4>1, <5>1, <6>1
        <5>3. CASE ctrlQ'[h] = Append(ctrlQ[h], x)
          <6>1. SizeOf(ctrlQ'[h]) = C(h) + x.n  BY <4>1, <5>3
          <6> QED  BY <4>1, <5>1, <6>1
        <5> QED  BY <3>1, <5>2, <5>3
      <4>3. Held(h)' = SizeOf(ctrlQ'[h]) + T(h) + P(h)  BY <2>1 DEF Held, T, P
      <4>4. C(h) + T(h) + P(h) <= streamBytes[id]  BY <1>v, <1>y, <2>0, <2>1 DEF Covers
      <4>5. streamBytes'[id] = streamBytes[id] + x.n  BY <1>y, <2>3 DEF TableType
      <4>6. Held(h)' <= streamBytes'[id]
        BY <1>s, <1>t, <2>1, <4>1, <4>2, <4>3, <4>4, <4>5
      <4> QED  BY <2>0, <2>1, <4>6 DEF Covers
    <3> QED  BY <3>3, <3>4
  <2>4. ASSUME NEW x \in Item, x.n = 0, PutIfRoom(h, x), UNCHANGED streamBytes
        PROVE  \A d \in Ids : Covers(d)'
    <3>1. streamBytes' = [streamBytes EXCEPT ![id] = @ + x.n]  BY <1>t, <1>y, <2>4 DEF TableType
    <3> QED  BY <2>3, <2>4, <3>1
  <2>5. ASSUME CtrlOverflow(id, item) PROVE \A d \in Ids : Covers(d)'
    BY <2>0, <2>4, <2>5, <1>c DEF CtrlOverflow
  <2>6. ASSUME CtrlData(id, item) PROVE \A d \in Ids : Covers(d)'
    BY <2>0, <2>1, <2>3, <2>6 DEF CtrlData
  <2>7. ASSUME CtrlDropped(id, item) PROVE \A d \in Ids : Covers(d)'
    BY <1>y, <2>1, <2>7 DEF CtrlDropped, Covers, Held
  <2>8. ASSUME CtrlSignal(id, item) PROVE \A d \in Ids : Covers(d)'
    BY <1>y, <2>1, <2>0, <2>4, <2>8 DEF CtrlSignal
  <2>9. \A d \in Ids : Covers(d)'
    BY <1>3, <2>5, <2>6, <2>7, <2>8 DEF StreamFrame, Dispatch, StreamCtrl
  <2> QED  BY <2>2, <2>9 DEF Covered
<1>4. ASSUME NEW h \in Handlers, HandlerStep(h) PROVE Covered'
  \* ... before its terminal runs
  <2>1. ASSUME Active(h), pc[h] # "running", Reject(h), UNCHANGED <<sess, mine, idOf, posted, threadQ>>
        PROVE  Covered'
    <3>1. Underway(h)' = 0  BY <1>q, <2>1 DEF Active, Underway
    <3> QED  BY <1>e, <2>1, <3>1 DEF Reject, GoTo
  <2>2. ASSUME pc[h] \in {"spawned", "validating"}, Submit(h),
               UNCHANGED <<tableVars, sess, mine, idOf, posted, threadQ>>
        PROVE  Covered'
    <3>1. \A g \in Handlers \ {h} : pc'[g] = pc[g]  BY <1>y, <2>2 DEF Submit, GoTo, TypeOK
    <3> QED  BY <1>p, <1>q, <2>2, <3>1
  <2>3. CASE HandlerBegin(h)
    <3>1. CASE (Submit(h) /\ UNCHANGED tableVars) \/ Reject(h)
      BY <2>1, <2>2, <2>3, <3>1 DEF HandlerBegin, Active
    <3>2. CASE GoTo(h, "validating") /\ UNCHANGED tableVars
      BY <1>p, <1>q, <1>y, <2>3, <3>2 DEF HandlerBegin, GoTo, TypeOK
    <3>3. CASE Die(h)
      <4>1. pc' = [pc EXCEPT ![h] = "ended"]
            /\ UNCHANGED <<tableVars, sess, mine, idOf, posted, threadQ>>
        BY <2>3, <3>3 DEF HandlerBegin, Die, GoTo
      <4>2. pc[h] = "spawned" /\ \A g \in Handlers \ {h} : pc'[g] = pc[g]
        BY <1>y, <2>3, <4>1 DEF HandlerBegin, TypeOK
      <4> QED  BY <1>p, <1>q, <4>1, <4>2
    <3> QED  BY <2>3, <3>1, <3>2, <3>3 DEF HandlerBegin
  <2>4. CASE ValidateDone(h)
    BY <2>1, <2>2, <2>4 DEF ValidateDone, Active
  <2>5. CASE StartOk(h)
    <3>1. CASE sess = "open"
      BY <1>p, <1>y, <2>5, <3>1 DEF StartOk, GoTo, TypeOK
    <3>2. CASE sess # "open"
      <4>1. Underway(h)' = 0  BY <1>q, <2>5 DEF StartOk, Underway
      <4> QED  BY <1>e, <2>5, <3>2, <4>1 DEF StartOk, GoTo, Active
    <3> QED  BY <3>1, <3>2
  <2>6. CASE StartFailed(h)  BY <2>1, <2>6 DEF StartFailed, Active
  <2>7. CASE Teardown(h)
    <3>1. posted[h] = <<>> /\ posted' = posted  BY <2>7 DEF PtyInv, DoneIsLast, Teardown
    <3>2. threadQ'[h] = <<>> /\ \A g \in Handlers \ {h} : threadQ'[g] = threadQ[g]
      BY <1>y, <2>7 DEF Teardown, TypeOK
    <3>3. Underway(h)' = 0  BY <3>1, <3>2, SizeOfEmpty DEF Underway
    <3> QED  BY <1>e, <2>7, <3>1, <3>2, <3>3 DEF Teardown, GoTo, Active
  <2>8. CASE HandlerCancelled(h)
    <3>1. ~Receiving /\ pc' = [pc EXCEPT ![h] = "ended"] /\ UNCHANGED <<sess, mine, idOf, posted>>
      BY <2>8 DEF HandlerCancelled, Receiving, GoTo
    <3>2. CASE pc[h] \in {"starting", "running"}
      <4>1. \A g \in Handlers \ {h} : threadQ'[g] = threadQ[g]
        BY <2>8, <1>y DEF HandlerCancelled, Offer, TypeOK
      <4> QED  BY <1>e, <2>8, <3>1, <3>2, <4>1 DEF HandlerCancelled, Active
    <3>3. CASE pc[h] \notin {"starting", "running"}
      <4>1. Underway(h) = 0  BY <1>q, <1>y, <2>8, <3>3 DEF HandlerCancelled, TypeOK
      <4>2. h \notin bridging  BY <1>y, <3>3 DEF Owns
      <4>3. UNCHANGED <<streams, streamBytes, ctrlQ, threadQ>>
        BY <2>8, <3>3, <4>2 DEF HandlerCancelled
      <4> QED  BY <1>p, <1>y, <3>1, <4>1, <4>3 DEF TypeOK
    <3> QED  BY <3>2, <3>3
  <2> QED  BY <1>4, <2>3, <2>4, <2>5, <2>6, <2>7, <2>8 DEF HandlerStep
<1>5. ASSUME NEW h \in Handlers, Bridge(h) PROVE Covered'
  <2> DEFINE item == Head(ctrlQ[h])
  <2>1. /\ pc[h] = "running" /\ idOf[h] \in Ids /\ streams[idOf[h]] = h
        /\ ctrlQ[h] # <<>> /\ ctrlQ' = [ctrlQ EXCEPT ![h] = Tail(@)] /\ Offer(h, item)
        /\ UNCHANGED <<streams, pc, mine, idOf, sess, posted>>
    BY <1>5, <1>y DEF Bridge, Owns, Active, TakeItem
  <2>2. /\ item \in Item /\ item.n \in Nat /\ SizeOf(Tail(ctrlQ[h])) \in Nat
        /\ C(h) = item.n + SizeOf(Tail(ctrlQ[h]))
    BY <1>t, <2>1, ItemSizes, Sizes DEF C
  <2>3. /\ SizeOf(threadQ'[h]) \in Nat /\ SizeOf(threadQ'[h]) <= T(h) + item.n
        /\ item.tag = "data" /\ Len(threadQ[h]) >= ThreadCap => threadQ'[h] = threadQ[h]
        /\ \A g \in Handlers \ {h} : threadQ'[g] = threadQ[g]
    BY <2>1, <2>2, OfferSize DEF T
  <2>4. ctrlQ'[h] = Tail(ctrlQ[h]) /\ \A g \in Handlers \ {h} : ctrlQ'[g] = ctrlQ[g]
    BY <1>y, <2>1 DEF TableType
  <2>5. Held(h)' = SizeOf(Tail(ctrlQ[h])) + SizeOf(threadQ'[h]) + P(h)
    BY <2>1, <2>4 DEF Held, P
  <2>6. Underway(h)' \in Nat
    BY <1>s, <2>1, <2>3 DEF Underway, P
  <2>7. \A g \in Handlers : LateIsHarmless(g)'  BY <1>m, <2>1, <2>3, <2>6
  <2> HIDE DEF item
  <2>8. CASE item.tag = "data" /\ Len(threadQ[h]) >= ThreadCap
    <3>1. DrainBytes(idOf[h], item.n)  BY <1>5, <2>8 DEF Bridge, item
    <3>2. SizeOf(threadQ'[h]) = T(h)  BY <2>3, <2>8 DEF T
    <3>3. Held(h) = Held(h)' + item.n /\ Held(h)' \in Nat
      BY <1>s, <1>v, <2>2, <2>5, <3>2
    <3>4. \A id \in Ids : Covers(id)'  BY <1>d, <2>1, <2>2, <2>3, <2>4, <3>1, <3>3
    <3> QED  BY <2>7, <3>4 DEF Covered
  <2>9. CASE ~(item.tag = "data" /\ Len(threadQ[h]) >= ThreadCap)
    <3>1. UNCHANGED streamBytes  BY <1>5, <2>9 DEF Bridge, item
    <3>4. C(h) \in Nat /\ T(h) \in Nat /\ P(h) \in Nat /\ Held(h) = C(h) + T(h) + P(h)
      BY <1>s, <1>v
    <3>5. SizeOf(threadQ'[h]) \in Nat /\ SizeOf(threadQ'[h]) <= T(h) + item.n  BY <2>3
    <3>2. Held(h)' <= Held(h) /\ Held(h)' \in Nat  BY <2>2, <2>5, <3>4, <3>5
    <3>3. \A id \in Ids : Covers(id)'  BY <1>n, <2>1, <2>3, <2>4, <3>1, <3>2
    <3> QED  BY <2>7, <3>3 DEF Covered
  <2> QED  BY <2>8, <2>9
\* what the threads of h do: the bytes of h do not grow
<1>u. ASSUME NEW h \in Handlers, UNCHANGED <<streams, streamBytes, ctrlQ, pc, mine, idOf, sess>>,
             Underway(h)' <= Underway(h), Underway(h)' \in Nat,
             \A g \in Handlers \ {h} : threadQ'[g] = threadQ[g] /\ posted'[g] = posted[g]
      PROVE  Covered'
  <2>1. \A g \in Handlers : LateIsHarmless(g)'  BY <1>m, <1>u
  <2>2. Held(h)' = C(h) + Underway(h)' /\ Held(h) = C(h) + Underway(h)
    <3>1. Held(h)' = C(h) + SizeOf(threadQ'[h]) + SizeOf(posted'[h]) /\ Underway(h)' = SizeOf(threadQ'[h]) + SizeOf(posted'[h])
      BY <1>u DEF Held, Underway, C
    <3>2. SizeOf(threadQ'[h]) \in Nat /\ SizeOf(posted'[h]) \in Nat
      BY <1>z, ItemSizes, CallbackSizes, Sizes
    <3> QED  BY <1>s, <1>v, <3>1, <3>2
  <2>3. Held(h)' <= Held(h) /\ Held(h)' \in Nat  BY <1>s, <1>u, <1>v, <2>2
  <2>4. \A id \in Ids : Covers(id)'  BY <1>n, <1>u, <2>3
  <2> QED  BY <2>1, <2>4 DEF Covered
<1>i. ASSUME NEW h \in Handlers, NEW what \in {"started", "chunk", "done"}, Post(h, what, 0),
             UNCHANGED <<tableVars, threadQ, pc, mine, idOf, sess>>
      PROVE  Covered'
  <2>1. SizeOf(posted'[h]) = P(h) + 0 /\ \A g \in Handlers \ {h} : posted'[g] = posted[g]
    BY <1>i, PostSize DEF P
  <2>2. SizeOf(posted'[h]) = P(h)  BY <1>s, <2>1
  <2>3. Underway(h)' = Underway(h) /\ Underway(h) \in Nat
    BY <1>i, <1>s, <1>v, <2>2 DEF Underway, T, P
  <2> QED  BY <1>i, <1>u, <2>1, <2>3
<1>6. ASSUME NEW h \in Handlers, WorkerStep(h) PROVE Covered'
  <2>1. CASE PoolPick(h) \/ WorkerTest(h) \/ WorkerEmpty(h)
    BY <2>1, <1>0 DEF PoolPick, WorkerTest, WorkerEmpty, Receiving
  <2>2. CASE WorkerStartup(h) \/ WorkerExit(h)
    BY <2>2, <1>i DEF WorkerStartup, WorkerExit
  <2>3. CASE WorkerItem(h)
    <3> DEFINE item == Head(threadQ[h])
    <3>1. /\ threadQ[h] # <<>> /\ threadQ' = [threadQ EXCEPT ![h] = Tail(@)]
          /\ UNCHANGED posted \/ Post(h, "drained", item.n)
          /\ UNCHANGED <<tableVars, pc, mine, idOf, sess>>
      BY <2>3 DEF WorkerItem
    <3>2. /\ item.n \in Nat /\ SizeOf(Tail(threadQ[h])) \in Nat
          /\ T(h) = item.n + SizeOf(Tail(threadQ[h]))
      BY <1>t, <3>1, ItemSizes, Sizes DEF T
    <3>3. threadQ'[h] = Tail(threadQ[h]) /\ \A g \in Handlers \ {h} : threadQ'[g] = threadQ[g]
      BY <1>y, <3>1 DEF TypeOK
    <3>4. /\ SizeOf(posted'[h]) \in Nat /\ SizeOf(posted'[h]) <= P(h) + item.n
          /\ \A g \in Handlers \ {h} : posted'[g] = posted[g]
      <4> HIDE DEF item
      <4>1. CASE UNCHANGED posted  BY <1>s, <3>2, <4>1 DEF P
      <4>2. CASE Post(h, "drained", item.n)
        <5>1. SizeOf(posted'[h]) = P(h) + item.n /\ \A g \in Handlers \ {h} : posted'[g] = posted[g]
          BY <3>2, <4>2, PostSize DEF P
        <5> QED  BY <1>s, <3>2, <5>1
      <4> QED  BY <3>1, <4>1, <4>2
    <3>5. Underway(h)' = SizeOf(Tail(threadQ[h])) + SizeOf(posted'[h])  BY <3>3 DEF Underway
    <3>6. Underway(h)' <= Underway(h) /\ Underway(h)' \in Nat
      BY <1>s, <1>v, <3>2, <3>4, <3>5
    <3> QED  BY <1>u, <3>1, <3>3, <3>4, <3>6
  <2> QED  BY <1>6, <2>1, <2>2, <2>3 DEF WorkerStep
<1>7. ASSUME NEW h \in Handlers, ReaderStep(h) PROVE Covered'
  <2>1. CASE ReaderChunk(h)  BY <2>1, <1>i DEF ReaderChunk
  <2>2. CASE ReaderEof(h)  BY <2>2, <1>0 DEF ReaderEof, Receiving
  <2> QED  BY <1>7, <2>1, <2>2 DEF ReaderStep
<1>8. ASSUME NEW h \in Handlers, RunCallback(h) PROVE Covered'
  <2> DEFINE cb == Head(posted[h])
  <2>1. /\ posted[h] # <<>> /\ posted' = [posted EXCEPT ![h] = Tail(@)]
        /\ UNCHANGED <<streams, ctrlQ, threadQ, pc, mine, idOf, sess>>
    BY <1>8 DEF RunCallback
  <2>2. /\ cb.n \in Nat /\ SizeOf(Tail(posted[h])) \in Nat /\ P(h) = cb.n + SizeOf(Tail(posted[h]))
    BY <1>t, <2>1, CallbackSizes, Sizes DEF P
  <2>3. posted'[h] = Tail(posted[h]) /\ \A g \in Handlers \ {h} : posted'[g] = posted[g]
    BY <1>y, <2>1 DEF TypeOK
  <2>4. /\ Underway(h)' = T(h) + SizeOf(Tail(posted[h]))
        /\ Held(h)' = C(h) + T(h) + SizeOf(Tail(posted[h]))
    BY <2>1, <2>3 DEF Underway, Held, C, T
  <2> HIDE DEF cb
  <2>5. /\ Underway(h)' <= Underway(h) /\ Underway(h)' \in Nat
        /\ Held(h)' \in Nat /\ Held(h) = Held(h)' + cb.n
    BY <1>s, <1>v, <2>2, <2>4
  <2>6. \A g \in Handlers : LateIsHarmless(g)'  BY <1>m, <2>1, <2>3, <2>5
  <2>7. CASE cb.what = "drained" /\ h \in mine
    <3>1. DrainBytes(idOf[h], cb.n)  BY <1>8, <2>7 DEF RunCallback, cb
    <3>2. idOf[h] \in Ids  BY <2>1 DEF PtyInv, Tracked, DoneIsLast
    <3>3. streams[idOf[h]] \in {h, NoHandler} \/ cb.n = 0
      <4>1. cb.n # 0 => Underway(h) # 0  BY <1>s, <1>v, <2>2
      <4>2. pc[h] = "running" => streams[idOf[h]] = h  BY <1>y DEF Owns, Active
      <4> QED  BY <1>y, <2>7, <4>1, <4>2 DEF LateIsHarmless
    <3>4. \A id \in Ids : Covers(id)'
      BY <1>d, <2>1, <2>2, <2>3, <2>5, <3>1, <3>2, <3>3
    <3> QED  BY <2>6, <3>4 DEF Covered
  <2>8. CASE ~(cb.what = "drained" /\ h \in mine)
    <3>1. UNCHANGED streamBytes  BY <1>8, <2>8 DEF RunCallback, cb
    <3>2. Held(h)' <= Held(h)  BY <2>2, <2>5
    <3>3. \A id \in Ids : Covers(id)'  BY <1>n, <2>1, <2>3, <2>5, <3>1, <3>2
    <3> QED  BY <2>6, <3>3 DEF Covered
  <2> QED  BY <2>7, <2>8
<1>9. CASE ConnectionLost \/ SessionClose \/ SessionClosed \/ Reconnect
  <2>1. CASE ConnectionLost \/ SessionClosed
    BY <2>1, <1>0 DEF ConnectionLost, SessionClosed, Receiving
  <2>2. CASE SessionClose
    <3>1. /\ UNCHANGED <<streams, streamBytes, threadQ, posted, pc, mine, idOf>> /\ ~Receiving'
          /\ \A h \in Handlers : ctrlQ'[h] = ctrlQ[h] \/ ctrlQ'[h] = Append(ctrlQ[h], Close)
      BY <2>2 DEF SessionClose, CloseAllStreams, Receiving
    <3>2. \A h \in Handlers : LateIsHarmless(h)'
      BY <1>y, <3>1 DEF LateIsHarmless, Underway
    <3>3. ASSUME NEW h \in Handlers PROVE SizeOf(ctrlQ'[h]) = SizeOf(ctrlQ[h])
      <4>1. SizeOf(Append(ctrlQ[h], Close)) = SizeOf(ctrlQ[h]) + Close.n /\ SizeOf(ctrlQ[h]) \in Nat
        BY <1>c, <1>t, ItemSizes, Sizes
      <4>2. SizeOf(Append(ctrlQ[h], Close)) = SizeOf(ctrlQ[h])  BY <1>c, <4>1
      <4> QED  BY <3>1, <4>2
    <3>4. \A id \in Ids : Covers(id)'
      BY <1>t, <1>y, <3>1, <3>3 DEF Covers, Held
    <3> QED  BY <3>2, <3>4 DEF Covered
  <2>3. CASE Reconnect
    BY <1>y, <2>3 DEF Reconnect, NewTable, Covered, LateIsHarmless, Underway, Covers
  <2> QED  BY <1>9, <2>1, <2>2, <2>3
<1>10. CASE UNCHANGED vars  BY <1>10, <1>0 DEF vars, Receiving
<1> QED  BY <1>1, <1>2, <1>3, <1>4, <1>5, <1>6, <1>7, <1>8, <1>9, <1>10 DEF Next

-----------------------------------------------------------------------------
(* The theorems. *)

LEMMA InitPtyInv == Init => PtyInv
<1> SUFFICES ASSUME Init PROVE PtyInv  OBVIOUS
<1>1. IInv /\ TableType  BY InitIInv DEF Init, IInv
<1>2. TypeOK  BY <1>1 DEF Init, TypeOK
<1>3. Owns  BY DEF Init, TableInit, Owns, Active
<1>4. Tracked  BY DEF Init, Tracked
<1>5. Fits  BY DEF Init, TableInit, Fits, Admitted
<1>6. DoneIsLast  BY DEF Init, DoneIsLast
<1>7. Answered  BY DEF Init, Answered
<1>8. Covered  BY SizeOfEmpty DEF Init, TableInit, Covered, LateIsHarmless, Underway, Covers
<1> QED  BY <1>1, <1>2, <1>3, <1>4, <1>5, <1>6, <1>7, <1>8 DEF PtyInv

(* The invariant the theorems below are read from. *)
THEOREM PtyInvariant == Spec => []PtyInv
<1>1. PtyInv /\ [Next]_vars => PtyInv'
  BY TypeStep, OwnsStep, TrackedStep, FitsStep, DoneStep, AnsweredStep, CoveredStep DEF PtyInv
<1> QED  BY InitPtyInv, <1>1, PTL DEF Spec

(* Every variable has its type.  (gateway.py 70-109, 565-812) *)
THEOREM PtyTypes == Spec => []TypeOK
<1>1. PtyInv => TypeOK  BY DEF PtyInv
<1> QED  BY PtyInvariant, <1>1, PTL

(* The PTY sessions implement the stream table: whatever handlers, bridges,  *)
(* workers and reader threads do, in any order, is a step that TableSpec     *)
(* allows.  (gateway.py 270-309, 508-543)                                    *)
THEOREM PtysUseTable == Spec => ImplementsTable
<1> QED  BY PtyInvariant, StepTable, PTL DEF Spec, ImplementsTable

(* So the ceilings bound what PTYs are charged.  (gateway.py 276-282, 527)   *)
THEOREM PtyCeilings == Spec => []WithinCeilings
<1>1. PtyInv => WithinCeilings  BY DEF PtyInv, IInv
<1> QED  BY PtyInvariant, <1>1, PTL

(* A worker that was not told to stop is in reach of close(), for any number *)
(* of streams, ids, workers and reconnections.  (gateway.py 209-221,         *)
(* 600-602, 662-742)                                                         *)
THEOREM PtyNoOrphanWorker == Spec => []NoOrphanWorker
<1>1. PtyInv => NoOrphanWorker
  BY DEF PtyInv, Owns, Active, Tracked, NoOrphanWorker
<1> QED  BY PtyInvariant, <1>1, PTL

(* Each open is answered at most once, and stream_closed comes last, after   *)
(* an ok.  (gateway.py 615-642, 669-742)                                     *)
THEOREM PtyWireOrder == Spec => []WireOrder
<1>1. PtyInv => WireOrder
  <2> SUFFICES ASSUME PtyInv, NEW h \in Handlers, NEW i \in DOMAIN out[h], NEW j \in DOMAIN out[h]
               PROVE  /\ i < j => out[h][i] # "closed"
                      /\ out[h][i] \in Responses /\ out[h][j] \in Responses => i = j
                      /\ out[h][j] = "closed" => \E m \in 1..j : out[h][m] = "ok"
    BY DEF WireOrder
  <2>1. i \in Nat /\ j \in Nat /\ j <= Len(out[h]) /\ Len(out[h]) \in Nat
    BY LenProperties DEF PtyInv, TypeOK
  <2> QED  BY <2>1 DEF PtyInv, Answered
<1> QED  BY PtyInvariant, <1>1, PTL

(* What a stream is charged covers what its queues hold and its worker's     *)
(* unread reports, at every moment and after any ending, and the session is  *)
(* charged the sum; so a ceiling on the charge is a ceiling on the memory.   *)
(* (gateway.py 270-309, 604-642)                                             *)
THEOREM PtyBuffersCharged == Spec => []BuffersCharged
<1>1. PtyInv => BuffersCharged
  BY DEF PtyInv, IInv, Covered, Covers, BuffersCharged, Registered
<1> QED  BY PtyInvariant, <1>1, PTL
=============================================================================
