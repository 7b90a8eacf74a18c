----------------------------- MODULE TunnelProofs -----------------------------
(***************************************************************************)
(* Proofs about the tunnels, for any number of tunnels, frames, ids and    *)
(* limits: they use the stream table as TableSpec promises, so the         *)
(* ceilings are theirs too, no frame is missing from what a target gets,   *)
(* and a pause holds.                                                      *)
(***************************************************************************)
EXTENDS Tunnel, StreamTableProofs

-----------------------------------------------------------------------------
(* The parts of the inductive invariant. *)

Active(h) == pc[h] \in {"opening", "relaying", "closing"}

(* An id is registered for the tunnel that was opened with it, and a tunnel  *)
(* has its id until it ends; close() returns only when all tunnels ended.    *)
Owns ==
  /\ \A id \in Ids :
       streams[id] # NoHandler => pc[streams[id]] # "idle" /\ idOf[streams[id]] = id
  /\ \A h \in Handlers : Active(h) => h \in mine /\ idOf[h] \in Ids /\ streams[idOf[h]] = h
  /\ sess = "closed" => \A h \in mine : pc[h] = "ended"

(* What is being written, or waits to be, was admitted under the ceiling; a  *)
(* signal weighs nothing.                                                    *)
Admissible(x) == IF IsData(x) THEN x.n <= StreamCap ELSE x.n = 0
Admitted(q) == \A i \in DOMAIN q : Admissible(q[i])
Fits == \A h \in Handlers : writing[h] <= StreamCap /\ Admitted(ctrlQ[h])

(* A tunnel is charged what waits in its queue and what is being written,    *)
(* and something is being written only while its consumer drains.            *)
Charged ==
  /\ \A h \in Handlers : writing[h] # 0 => pc[h] = "relaying" /\ consumer[h] = "drain"
  /\ \A id \in Registered : streamBytes[id] = SizeOf(ctrlQ[streams[id]]) + writing[streams[id]]

\* n is the number of the last data frame of q, or last
Latest(q, last, n) ==
  \/ n = last /\ \A j \in DOMAIN q : ~IsData(q[j])
  \/ \E j \in DOMAIN q :
       IsData(q[j]) /\ q[j].k = n /\ \A m \in (j + 1)..Len(q) : ~IsData(q[m])

(* Nothing is missing in a queue; while the stream is not marked closing,    *)
(* nothing is missing behind it either.                                      *)
InOrder ==
  /\ \A h \in Handlers : pc[h] = "idle" => frames[h] = 0 /\ wrote[h] = 0
  /\ \A h \in Handlers : pc[h] \in {"opening", "relaying"} =>
       /\ Consecutive(ctrlQ[h], wrote[h])
       /\ idOf[h] \notin closing => Latest(ctrlQ[h], wrote[h], frames[h])

(* A chunk that must wait for a resume is held. *)
Gated == leaked = {} /\ \A h \in fresh : pc[h] = "relaying" /\ reader[h] = "hold"

TunnelInv == TypeOK /\ IInv /\ Owns /\ Fits /\ Charged /\ InOrder /\ Gated

-----------------------------------------------------------------------------
(* What the tunnels do to the stream table, it allows any user to do: a      *)
(* tunnel claims one id, drains what it was given and releases its own id.   *)

LEMMA OpenTable == TunnelInv => \A h \in Handlers, id \in Ids : Open(h, id) => ClaimOne
<1> SUFFICES ASSUME TunnelInv, NEW h \in Handlers, NEW id \in Ids, Open(h, id) PROVE ClaimOne
  OBVIOUS
<1>1. pc[h] = "idle" /\ Claim(h, id)  BY DEF Open, NextRequest
<1>2. \A other \in Ids : streams[other] # h
  BY <1>1, TableAssumption DEF TunnelInv, Owns
<1> QED  BY <1>1, <1>2 DEF ClaimOne

LEMMA ReleaseTable ==
  ASSUME TunnelInv, NEW h \in Handlers, Active(h), ReleaseStream(h, idOf[h])
  PROVE  ReleaseOwn
BY DEF TunnelInv, Owns, ReleaseOwn

LEMMA DrainTable ==
  ASSUME TunnelInv, NEW h \in Handlers, Active(h), DrainBytes(idOf[h], writing[h]),
         UNCHANGED <<streams, ctrlQ, closing>>
  PROVE  Drain
<1>1. idOf[h] \in Ids /\ writing[h] \in 0..StreamCap
  BY TableAssumption DEF TunnelInv, TypeOK, Owns, Fits
<1> QED  BY <1>1 DEF Drain

LEMMA StepTable == TunnelInv /\ [Next]_vars => [TableNext]_tableVars
<1> SUFFICES ASSUME TunnelInv, [Next]_vars PROVE TableNext \/ UNCHANGED tableVars  OBVIOUS
<1>1. ASSUME NEW h \in Handlers, NEW id \in Ids, OpenRefused(h, id) \/ Open(h, id)
      PROVE  TableNext \/ UNCHANGED tableVars
  BY <1>1, OpenTable DEF OpenRefused, TableNext
<1>2. ASSUME NEW id \in Ids, NEW item \in Frames, StreamFrame(id, item)
      PROVE  TableNext \/ UNCHANGED tableVars
  BY <1>2 DEF StreamFrame, Dispatch, TableNext
<1>3. ASSUME NEW h \in Handlers, HandlerStep(h) PROVE TableNext \/ UNCHANGED tableVars
  <2>1. CASE OpenFailed(h)  BY <2>1, ReleaseTable DEF OpenFailed, Active, TableNext
  <2>2. CASE OpenOk(h)  BY <2>2 DEF OpenOk
  <2>3. CASE TearDown(h)
    BY <2>3, DrainTable DEF TearDown, CancelWrite, Active, TableNext, tableVars
  <2>4. CASE Closed(h)  BY <2>4, ReleaseTable DEF Closed, Active, TableNext
  <2>5. CASE HandlerCancelled(h)  BY <2>5 DEF HandlerCancelled
  <2>6. CASE OpenDies(h)  BY <2>6 DEF OpenDies
  <2> QED  BY <1>3, <2>1, <2>2, <2>3, <2>4, <2>5, <2>6 DEF HandlerStep
<1>4. ASSUME NEW h \in Handlers, ReaderStep(h) \/ ReadChunk(h) \/ ReadEnd(h)
      PROVE  UNCHANGED tableVars
  BY <1>4 DEF ReaderStep, ReadTop, ReadSend, ReadChunk, ReadEnd, SendChunk, ReaderUnchanged
<1>5. ASSUME NEW h \in Handlers, ConsumerStep(h) PROVE TableNext \/ UNCHANGED tableVars
  <2>1. CASE ConsumeData(h)  BY <2>1 DEF ConsumeData, Consume, TableNext
  <2>2. CASE DrainDone(h)  BY <2>2, DrainTable DEF DrainDone, Consuming, Active, TableNext
  <2>3. CASE ConsumeSignal(h)  BY <2>3 DEF ConsumeSignal, Consume, TableNext
  <2> QED  BY <1>5, <2>1, <2>2, <2>3 DEF ConsumerStep
<1>6. ASSUME NEW h \in Handlers, TargetTakes(h) \/ TargetGone(h) PROVE UNCHANGED tableVars
  BY <1>6 DEF TargetTakes, TargetGone
<1>7. CASE ConnectionLost \/ SessionClose \/ SessionClosed \/ Reconnect
  BY <1>7 DEF ConnectionLost, SessionClose, SessionClosed, Reconnect, TableNext
<1>8. CASE UNCHANGED vars  BY <1>8 DEF vars
<1> QED  BY <1>1, <1>2, <1>3, <1>4, <1>5, <1>6, <1>7, <1>8 DEF Next

-----------------------------------------------------------------------------
(* Types. *)

LEMMA TypeStep == TunnelInv /\ [Next]_vars => TypeOK' /\ IInv'
<1> SUFFICES ASSUME TunnelInv, [Next]_vars PROVE TypeOK' /\ IInv'  OBVIOUS
<1>t. IInv' /\ TableType'  BY StepTable, NextIInv DEF TunnelInv, IInv
<1>y. TypeOK /\ Owns  BY DEF TunnelInv
<1> USE DEF TypeOK, sessionVars, streamVars, taskVars, gateVars, targetVars
<1>1. ASSUME NEW h \in Handlers, NEW id \in Ids, OpenRefused(h, id) \/ Open(h, id)
      PROVE  TypeOK'
  BY <1>1, <1>t, <1>y DEF OpenRefused, Open, Send
<1>2. ASSUME NEW id \in Ids, NEW item \in Frames, StreamFrame(id, item)
      PROVE  TypeOK'
  <2>1. frames' \in [Handlers -> Nat]
    <3>1. streams[id] \in Handlers /\ item.k \in Nat
      BY <1>2, <1>y, TableAssumption DEF StreamFrame, TableType, Item
    <3> QED  BY <1>2, <1>y, <3>1 DEF StreamFrame
  <2> QED  BY <1>2, <1>t, <1>y, <2>1 DEF StreamFrame
<1>3. ASSUME NEW h \in Handlers, HandlerStep(h) PROVE TypeOK'
  <2>1. CASE OpenFailed(h)  BY <2>1, <1>t, <1>y DEF OpenFailed, Send
  <2>2. CASE OpenOk(h)  BY <2>2, <1>t, <1>y DEF OpenOk, Send
  <2>3. CASE TearDown(h)  BY <2>3, <1>t, <1>y DEF TearDown
  <2>4. CASE Closed(h)  BY <2>4, <1>t, <1>y DEF Closed, Send
  <2>5. CASE HandlerCancelled(h)  BY <2>5, <1>t, <1>y DEF HandlerCancelled
  <2>6. CASE OpenDies(h)  BY <2>6, <1>t, <1>y DEF OpenDies
  <2> QED  BY <1>3, <2>1, <2>2, <2>3, <2>4, <2>5, <2>6 DEF HandlerStep
<1>4. ASSUME NEW h \in Handlers, ReaderStep(h) \/ ReadChunk(h) \/ ReadEnd(h)
      PROVE  TypeOK'
  BY <1>4, <1>t, <1>y
  DEF ReaderStep, ReadTop, ReadSend, ReadChunk, ReadEnd, SendChunk, ReaderUnchanged, ReaderAt
<1>5. ASSUME NEW h \in Handlers, ConsumerStep(h) PROVE TypeOK'
  <2>1. CASE ConsumeData(h)
    <3>1. Head(ctrlQ[h]).n \in Nat /\ Head(ctrlQ[h]).k \in Nat
      <4>1. Head(ctrlQ[h]) \in Item
        BY <2>1, <1>y, HeadTailProperties DEF ConsumeData, TakeItem, TableType
      <4> QED  BY <4>1 DEF Item
    <3> QED  BY <2>1, <1>t, <1>y, <3>1 DEF ConsumeData, ConsumerAt
  <2>2. CASE DrainDone(h)  BY <2>2, <1>t, <1>y DEF DrainDone, ConsumerAt
  <2>3. CASE ConsumeSignal(h)
    <3>1. paused' \subseteq Handlers /\ fresh' \subseteq Handlers
      BY <2>3, <1>y DEF ConsumeSignal
    <3>2. reader' \in [Handlers -> {"off", "top", "wait", "read", "hold", "send", "ended"}]
      BY <2>3, <1>y DEF ConsumeSignal
    <3>3. consumer' \in [Handlers -> {"off", "get", "drain", "ended"}]
      BY <2>3, <1>y DEF ConsumeSignal, ConsumerAt
    <3> QED  BY <2>3, <1>t, <1>y, <3>1, <3>2, <3>3 DEF ConsumeSignal
  <2> QED  BY <1>5, <2>1, <2>2, <2>3 DEF ConsumerStep
<1>6. ASSUME NEW h \in Handlers, TargetTakes(h) \/ TargetGone(h) PROVE TypeOK'
  BY <1>6, <1>t, <1>y DEF TargetTakes, TargetGone
<1>7. CASE ConnectionLost \/ SessionClose \/ SessionClosed \/ Reconnect
  BY <1>7, <1>t, <1>y DEF ConnectionLost, SessionClose, SessionClosed, Reconnect
<1>8. CASE UNCHANGED vars  BY <1>8, <1>t, <1>y DEF vars
<1> QED  BY <1>t, <1>1, <1>2, <1>3, <1>4, <1>5, <1>6, <1>7, <1>8 DEF Next

-----------------------------------------------------------------------------
(* Ownership. *)

LEMMA OwnsStep == TunnelInv /\ [Next]_vars => Owns'
<1> SUFFICES ASSUME TunnelInv, [Next]_vars PROVE Owns'  OBVIOUS
<1>y. TypeOK /\ Owns /\ TableType /\ NoHandler \notin Handlers
  BY TableAssumption DEF TunnelInv, TypeOK
<1> USE DEF tableVars, sessionVars, streamVars, taskVars, gateVars, targetVars
<1>0. ASSUME UNCHANGED <<streams, pc, sess, mine, idOf>> PROVE Owns'
  BY <1>y, <1>0 DEF Owns, Active
<1>1. ASSUME NEW h \in Handlers, NEW id \in Ids, OpenRefused(h, id) \/ Open(h, id)
      PROVE  Owns'
  <2>1. CASE OpenRefused(h, id)
    BY <2>1, <1>y DEF OpenRefused, NextRequest, Owns, Active, TypeOK, TableType, Receiving
  <2>2. CASE Open(h, id)
    <3>1. streams[id] = NoHandler /\ pc[h] = "idle" /\ sess # "closed"
      BY <2>2 DEF Open, Claim, ClaimError, NextRequest, Receiving
    <3>2. streams' = [streams EXCEPT ![id] = h]  BY <2>2 DEF Open, Claim
    <3> QED  BY <2>2, <1>y, <3>1, <3>2 DEF Open, Owns, Active, TypeOK, TableType
  <2> QED  BY <1>1, <2>1, <2>2
<1>2. ASSUME NEW id \in Ids, NEW item \in Frames, StreamFrame(id, item) PROVE Owns'
  BY <1>2, <1>0
  DEF StreamFrame, Dispatch, StreamCtrl, CtrlOverflow, CtrlData, CtrlDropped, CtrlSignal
<1>3. ASSUME NEW h \in Handlers, HandlerStep(h) PROVE Owns'
  <2>1. ASSUME Active(h), pc' = [pc EXCEPT ![h] = "ended"], UNCHANGED <<sess, mine, idOf>>,
               UNCHANGED streams \/ ReleaseStream(h, idOf[h])
        PROVE  Owns'
    <3>1. streams[idOf[h]] = h /\ idOf[h] \in Ids  BY <2>1, <1>y DEF Owns
    <3>2. \A id \in Ids : streams'[id] = streams[id] \/ (id = idOf[h] /\ streams'[id] = NoHandler)
      BY <2>1, <3>1, <1>y DEF ReleaseStream, TableType
    <3> QED  BY <2>1, <3>1, <3>2, <1>y DEF Owns, Active, TypeOK
  <2>2. CASE OpenFailed(h)  BY <2>1, <2>2 DEF OpenFailed, Active
  <2>3. CASE OpenOk(h)
    <3>1. Active(h) /\ pc'[h] # "idle" /\ \A g \in Handlers \ {h} : pc'[g] = pc[g]
      BY <2>3, <1>y DEF OpenOk, Active, TypeOK
    <3>2. UNCHANGED <<streams, sess, mine, idOf>>  BY <2>3 DEF OpenOk
    <3>3. sess # "closed"  BY <3>1, <1>y DEF Owns, Active
    <3>4. ASSUME NEW id \in Ids, streams[id] # NoHandler
          PROVE  pc'[streams[id]] # "idle" /\ idOf[streams[id]] = id
      <4>1. streams[id] \in Handlers  BY <3>4, <1>y DEF TableType
      <4>2. pc[streams[id]] # "idle" /\ idOf[streams[id]] = id  BY <3>4, <1>y DEF Owns
      <4> QED  BY <3>1, <4>1, <4>2
    <3> QED  BY <3>1, <3>2, <3>3, <3>4, <1>y DEF Owns, Active
  <2>4. CASE TearDown(h)  BY <2>4, <1>y DEF TearDown, Owns, Active, TypeOK
  <2>5. CASE Closed(h)  BY <2>1, <2>5 DEF Closed, Active
  <2>6. CASE HandlerCancelled(h)  BY <2>1, <2>6 DEF HandlerCancelled, Active
  <2>7. CASE OpenDies(h)  BY <2>1, <2>7 DEF OpenDies, Active
  <2> QED  BY <1>3, <2>2, <2>3, <2>4, <2>5, <2>6, <2>7 DEF HandlerStep
<1>4. ASSUME NEW h \in Handlers, ReaderStep(h) \/ ReadChunk(h) \/ ReadEnd(h) PROVE Owns'
  BY <1>4, <1>0
  DEF ReaderStep, ReadTop, ReadSend, ReadChunk, ReadEnd, SendChunk, ReaderUnchanged
<1>5. ASSUME NEW h \in Handlers, ConsumerStep(h) PROVE Owns'
  BY <1>5, <1>0 DEF ConsumerStep, ConsumeData, DrainDone, ConsumeSignal
<1>6. ASSUME NEW h \in Handlers, TargetTakes(h) \/ TargetGone(h) PROVE Owns'
  BY <1>6, <1>0 DEF TargetTakes, TargetGone
<1>7. CASE ConnectionLost \/ SessionClose \/ SessionClosed \/ Reconnect
  <2>1. CASE ConnectionLost \/ SessionClose \/ SessionClosed
    BY <2>1, <1>y DEF ConnectionLost, SessionClose, SessionClosed, CloseAllStreams, Owns, Active
  <2>2. CASE Reconnect  BY <2>2, <1>y DEF Reconnect, NewTable, Owns, Active
  <2> QED  BY <1>7, <2>1, <2>2
<1>8. CASE UNCHANGED vars  BY <1>8, <1>0 DEF vars
<1> QED  BY <1>1, <1>2, <1>3, <1>4, <1>5, <1>6, <1>7, <1>8 DEF Next

-----------------------------------------------------------------------------
(* Pauses. *)

LEMMA GatedStep == TunnelInv /\ [Next]_vars => Gated'
<1> SUFFICES ASSUME TunnelInv, [Next]_vars PROVE Gated'  OBVIOUS
<1>y. TypeOK /\ Gated  BY DEF TunnelInv
<1> USE DEF sessionVars, streamVars, taskVars, gateVars, targetVars
<1>0. ASSUME NEW h \in Handlers, h \notin fresh, UNCHANGED <<fresh, leaked>>,
             \A g \in Handlers \ {h} : pc'[g] = pc[g] /\ reader'[g] = reader[g]
      PROVE  Gated'
  BY <1>y, <1>0 DEF Gated, TypeOK
<1>00. ASSUME UNCHANGED <<fresh, leaked, pc, reader>> PROVE Gated'
  BY <1>y, <1>00 DEF Gated
<1>1. ASSUME NEW h \in Handlers, NEW id \in Ids, OpenRefused(h, id) \/ Open(h, id)
      PROVE  Gated'
  <2>1. h \notin fresh  BY <1>1, <1>y DEF OpenRefused, Open, NextRequest, Gated
  <2> QED  BY <1>1, <2>1, <1>0, <1>y DEF OpenRefused, Open, TypeOK
<1>2. ASSUME NEW id \in Ids, NEW item \in Frames, StreamFrame(id, item) PROVE Gated'
  BY <1>2, <1>00 DEF StreamFrame
<1>3. ASSUME NEW h \in Handlers, HandlerStep(h) PROVE Gated'
  <2>1. CASE OpenFailed(h) \/ OpenDies(h) \/ OpenOk(h) \/ Closed(h) \/ HandlerCancelled(h)
    <3>1. h \notin fresh
      BY <2>1, <1>y DEF OpenFailed, OpenDies, OpenOk, Closed, HandlerCancelled, Gated
    <3> QED  BY <2>1, <3>1, <1>0, <1>y
             DEF OpenFailed, OpenDies, OpenOk, Closed, HandlerCancelled, TypeOK
  <2>2. CASE TearDown(h)  BY <2>2, <1>y DEF TearDown, Gated, TypeOK
  <2> QED  BY <1>3, <2>1, <2>2 DEF HandlerStep
<1>4. ASSUME NEW h \in Handlers, ReaderStep(h) \/ ReadChunk(h) \/ ReadEnd(h) PROVE Gated'
  <2> USE DEF Reading, ReaderAt, ReaderUnchanged
  <2>1. CASE ReadTop(h) \/ ReadEnd(h)
    <3>1. h \notin fresh  BY <2>1, <1>y DEF ReadTop, ReadEnd, Gated
    <3> QED  BY <2>1, <3>1, <1>0, <1>y DEF ReadTop, ReadEnd, TypeOK
  <2>2. CASE ReadSend(h)
    <3>1. h \notin fresh  BY <2>2, <1>y DEF ReadSend, Gated
    <3> QED  BY <2>2, <3>1, <1>y DEF ReadSend, SendChunk, TypeOK, Gated
  <2>3. CASE ReadChunk(h)
    <3>1. h \notin fresh  BY <2>3, <1>y DEF ReadChunk, Gated
    <3> QED  BY <2>3, <3>1, <1>y DEF ReadChunk, SendChunk, TypeOK, Gated
  <2> QED  BY <1>4, <2>1, <2>2, <2>3 DEF ReaderStep
<1>5. ASSUME NEW h \in Handlers, ConsumerStep(h) PROVE Gated'
  <2>1. CASE ConsumeData(h) \/ DrainDone(h)
    BY <2>1, <1>00 DEF ConsumeData, DrainDone
  <2>2. CASE ConsumeSignal(h)
    <3>1. leaked' = leaked /\ pc' = pc  BY <2>2 DEF ConsumeSignal
    <3>2. CASE Head(ctrlQ[h]).tag = "resume"
      <4>1. fresh' = fresh \ {h}  BY <2>2, <3>2 DEF ConsumeSignal
      <4>2. \A g \in Handlers \ {h} : reader'[g] = reader[g]
        BY <2>2, <3>2, <1>y DEF ConsumeSignal, TypeOK
      <4> QED  BY <3>1, <4>1, <4>2, <1>y DEF Gated, TypeOK
    <3>3. CASE Head(ctrlQ[h]).tag # "resume"
      <4>1. fresh' \subseteq fresh /\ reader' = reader  BY <2>2, <3>3 DEF ConsumeSignal
      <4> QED  BY <3>1, <4>1, <1>y DEF Gated
    <3> QED  BY <3>2, <3>3
  <2> QED  BY <1>5, <2>1, <2>2 DEF ConsumerStep
<1>6. ASSUME NEW h \in Handlers, TargetTakes(h) \/ TargetGone(h) PROVE Gated'
  BY <1>6, <1>00 DEF TargetTakes, TargetGone
<1>7. CASE ConnectionLost \/ SessionClose \/ SessionClosed \/ Reconnect
  BY <1>7, <1>00 DEF ConnectionLost, SessionClose, SessionClosed, Reconnect
<1>8. CASE UNCHANGED vars  BY <1>8, <1>00 DEF vars
<1> QED  BY <1>1, <1>2, <1>3, <1>4, <1>5, <1>6, <1>7, <1>8 DEF Next

-----------------------------------------------------------------------------
(* Queues. *)

LEMMA AppendItem ==
  ASSUME NEW q \in Seq(Item), NEW x \in Item
  PROVE  /\ DOMAIN q = 1..Len(q) /\ Len(q) \in Nat
         /\ DOMAIN Append(q, x) = 1..(Len(q) + 1) /\ Len(Append(q, x)) = Len(q) + 1
         /\ \A i \in 1..Len(q) : Append(q, x)[i] = q[i]
         /\ Append(q, x)[Len(q) + 1] = x
BY ONLY AppendProperties, LenProperties

LEMMA TailItem ==
  ASSUME NEW q \in Seq(Item), q # <<>>
  PROVE  /\ DOMAIN q = 1..Len(q) /\ Len(q) \in Nat \ {0} /\ Head(q) = q[1]
         /\ DOMAIN Tail(q) = 1..(Len(q) - 1) /\ Len(Tail(q)) = Len(q) - 1
         /\ \A i \in 1..(Len(q) - 1) : Tail(q)[i] = q[i + 1]
BY HeadTailProperties, LenProperties, EmptySeq

\* a signal put behind the data changes neither order nor numbers
LEMMA AppendSignal ==
  ASSUME NEW q \in Seq(Item), NEW x \in Item, ~IsData(x), NEW last \in Nat, NEW n \in Nat
  PROVE  /\ Admitted(q) /\ x.n = 0 => Admitted(Append(q, x))
         /\ Consecutive(q, last) => Consecutive(Append(q, x), last)
         /\ Latest(q, last, n) => Latest(Append(q, x), last, n)
<1> DEFINE r == Append(q, x)
<1>1. /\ DOMAIN q = 1..Len(q) /\ Len(q) \in Nat /\ DOMAIN r = 1..(Len(q) + 1)
      /\ Len(r) = Len(q) + 1 /\ (\A i \in 1..Len(q) : r[i] = q[i]) /\ r[Len(q) + 1] = x
  BY AppendItem
<1> HIDE DEF r
<1>2. ASSUME Admitted(q), x.n = 0 PROVE Admitted(r)
  BY <1>1, <1>2 DEF Admitted, Admissible
<1>3. ASSUME Consecutive(q, last) PROVE Consecutive(r, last)
  <2> SUFFICES ASSUME NEW i \in DOMAIN r, IsData(r[i])
               PROVE  \/ r[i].k = last + 1 /\ \A j \in 1..(i - 1) : ~IsData(r[j])
                      \/ \E j \in 1..(i - 1) :
                           /\ IsData(r[j]) /\ r[i].k = r[j].k + 1
                           /\ \A m \in (j + 1)..(i - 1) : ~IsData(r[m])
    BY DEF Consecutive
  <2>1. i \in 1..Len(q) /\ r[i] = q[i]  BY <1>1
  <2>2. \A j \in 1..(i - 1) : j \in 1..Len(q) /\ r[j] = q[j]  BY <1>1, <2>1
  <2>3. CASE q[i].k = last + 1 /\ \A j \in 1..(i - 1) : ~IsData(q[j])
    BY <2>1, <2>2, <2>3
  <2>4. CASE \E j \in 1..(i - 1) :
               /\ IsData(q[j]) /\ q[i].k = q[j].k + 1
               /\ \A m \in (j + 1)..(i - 1) : ~IsData(q[m])
    <3>1. PICK j \in 1..(i - 1) :
               /\ IsData(q[j]) /\ q[i].k = q[j].k + 1
               /\ \A m \in (j + 1)..(i - 1) : ~IsData(q[m])
      BY <2>4
    <3>2. \A m \in (j + 1)..(i - 1) : ~IsData(r[m])  BY <2>1, <2>2, <3>1
    <3> QED  BY <2>1, <2>2, <3>1, <3>2
  <2> QED  BY <1>1, <1>3, <2>1, <2>3, <2>4 DEF Consecutive
<1>4. ASSUME Latest(q, last, n) PROVE Latest(r, last, n)
  BY <1>1, <1>4 DEF Latest
<1> QED  BY <1>2, <1>3, <1>4 DEF r

\* the next data frame put behind the last one
LEMMA AppendData ==
  ASSUME NEW q \in Seq(Item), NEW x \in Item, IsData(x), NEW last \in Nat, NEW n \in Nat,
         x.k = n + 1, Consecutive(q, last), Latest(q, last, n)
  PROVE  Consecutive(Append(q, x), last) /\ Latest(Append(q, x), last, n + 1)
<1> DEFINE r == Append(q, x)
<1>1. /\ DOMAIN q = 1..Len(q) /\ Len(q) \in Nat /\ DOMAIN r = 1..(Len(q) + 1)
      /\ Len(r) = Len(q) + 1 /\ (\A i \in 1..Len(q) : r[i] = q[i]) /\ r[Len(q) + 1] = x
  BY AppendItem
<1> HIDE DEF r
<1>2. Latest(r, last, n + 1)
  <2>1. Len(q) + 1 \in DOMAIN r /\ \A m \in (Len(q) + 2)..Len(r) : ~IsData(r[m])  BY <1>1
  <2> QED  BY <1>1, <2>1 DEF Latest
<1>3. Consecutive(r, last)
  <2> SUFFICES ASSUME NEW i \in DOMAIN r, IsData(r[i])
               PROVE  \/ r[i].k = last + 1 /\ \A j \in 1..(i - 1) : ~IsData(r[j])
                      \/ \E j \in 1..(i - 1) :
                           /\ IsData(r[j]) /\ r[i].k = r[j].k + 1
                           /\ \A m \in (j + 1)..(i - 1) : ~IsData(r[m])
    BY DEF Consecutive
  <2>2. \A j \in 1..(i - 1) : j \in 1..Len(q) /\ r[j] = q[j]  BY <1>1
  <2>3. CASE i = Len(q) + 1
    <3>1. CASE n = last /\ \A j \in DOMAIN q : ~IsData(q[j])  BY <1>1, <2>2, <2>3, <3>1
    <3>2. CASE \E j \in DOMAIN q :
                 IsData(q[j]) /\ q[j].k = n /\ \A m \in (j + 1)..Len(q) : ~IsData(q[m])
      <4>1. PICK j \in DOMAIN q :
                 IsData(q[j]) /\ q[j].k = n /\ \A m \in (j + 1)..Len(q) : ~IsData(q[m])
        BY <3>2
      <4>2. \A m \in (j + 1)..(i - 1) : ~IsData(r[m])  BY <1>1, <2>2, <2>3, <4>1
      <4> QED  BY <1>1, <2>2, <2>3, <4>1, <4>2
    <3> QED  BY <3>1, <3>2 DEF Latest
  <2>4. CASE i \in 1..Len(q)
    <3>1. r[i] = q[i]  BY <1>1, <2>4
    <3>2. CASE q[i].k = last + 1 /\ \A j \in 1..(i - 1) : ~IsData(q[j])
      BY <2>2, <3>1, <3>2
    <3>3. CASE \E j \in 1..(i - 1) :
               /\ IsData(q[j]) /\ q[i].k = q[j].k + 1
               /\ \A m \in (j + 1)..(i - 1) : ~IsData(q[m])
      <4>1. PICK j \in 1..(i - 1) :
               /\ IsData(q[j]) /\ q[i].k = q[j].k + 1
               /\ \A m \in (j + 1)..(i - 1) : ~IsData(q[m])
        BY <3>3
      <4>2. \A m \in (j + 1)..(i - 1) : ~IsData(r[m])  BY <1>1, <2>2, <4>1
      <4> QED  BY <2>2, <3>1, <4>1, <4>2
    <3> QED  BY <1>1, <2>4, <3>1, <3>2, <3>3 DEF Consecutive
  <2> QED  BY <1>1, <2>3, <2>4
<1> QED  BY <1>2, <1>3 DEF r

\* what is taken from the front becomes the last written, if it is data
LEMMA TailOrder ==
  ASSUME NEW q \in Seq(Item), q # <<>>, NEW last \in Nat, NEW n \in Nat,
         NEW w, w = IF IsData(Head(q)) THEN Head(q).k ELSE last
  PROVE  /\ Admitted(q) => Admitted(Tail(q))
         /\ Consecutive(q, last) => Consecutive(Tail(q), w)
         /\ Latest(q, last, n) => Latest(Tail(q), w, n)
<1> DEFINE r == Tail(q)
<1>1. /\ DOMAIN q = 1..Len(q) /\ Len(q) \in Nat \ {0} /\ Head(q) = q[1]
      /\ DOMAIN r = 1..(Len(q) - 1) /\ Len(r) = Len(q) - 1
      /\ \A i \in 1..(Len(q) - 1) : r[i] = q[i + 1]
  BY TailItem
<1> HIDE DEF r
<1>2. ASSUME Admitted(q) PROVE Admitted(r)  BY <1>1, <1>2 DEF Admitted
<1>3. ASSUME Consecutive(q, last) PROVE Consecutive(r, w)
  <2> SUFFICES ASSUME NEW i \in DOMAIN r, IsData(r[i])
               PROVE  \/ r[i].k = w + 1 /\ \A j \in 1..(i - 1) : ~IsData(r[j])
                      \/ \E j \in 1..(i - 1) :
                           /\ IsData(r[j]) /\ r[i].k = r[j].k + 1
                           /\ \A m \in (j + 1)..(i - 1) : ~IsData(r[m])
    BY DEF Consecutive
  <2>1. i \in Nat /\ i + 1 \in DOMAIN q /\ r[i] = q[i + 1] /\ (i + 1) - 1 = i  BY <1>1
  <2>2. \A j \in 1..(i - 1) : j + 1 \in 1..i /\ r[j] = q[j + 1]  BY <1>1
  <2>3. CASE q[i + 1].k = last + 1 /\ \A j \in 1..i : ~IsData(q[j])
    <3>1. 1 \in 1..i  BY <1>1
    <3> QED  BY <1>1, <2>1, <2>2, <2>3, <3>1
  <2>4. CASE \E j \in 1..i :
               /\ IsData(q[j]) /\ q[i + 1].k = q[j].k + 1
               /\ \A m \in (j + 1)..i : ~IsData(q[m])
    <3>1. PICK j \in 1..i :
               /\ IsData(q[j]) /\ q[i + 1].k = q[j].k + 1
               /\ \A m \in (j + 1)..i : ~IsData(q[m])
      BY <2>4
    <3>2. CASE j = 1
      <4>1. \A m \in 1..(i - 1) : ~IsData(r[m])
        <5>1. \A m \in 1..(i - 1) : m + 1 \in (j + 1)..i  BY <1>1, <3>2
        <5> QED  BY <2>2, <3>1, <5>1
      <4> QED  BY <1>1, <2>1, <3>1, <3>2, <4>1
    <3>3. CASE j # 1
      <4>1. j - 1 \in 1..(i - 1) /\ r[j - 1] = q[j] /\ (j - 1) + 1 = j  BY <1>1, <3>3
      <4>2. \A m \in j..(i - 1) : ~IsData(r[m])
        <5>1. \A m \in j..(i - 1) : m \in 1..(i - 1) /\ m + 1 \in (j + 1)..i  BY <1>1
        <5> QED  BY <2>2, <3>1, <5>1
      <4> QED  BY <2>1, <3>1, <4>1, <4>2
    <3> QED  BY <3>2, <3>3
  <2>5. \/ q[i + 1].k = last + 1 /\ \A j \in 1..((i + 1) - 1) : ~IsData(q[j])
        \/ \E j \in 1..((i + 1) - 1) :
             /\ IsData(q[j]) /\ q[i + 1].k = q[j].k + 1
             /\ \A m \in (j + 1)..((i + 1) - 1) : ~IsData(q[m])
    BY <1>3, <2>1 DEF Consecutive
  <2> QED  BY <2>1, <2>3, <2>4, <2>5
<1>4. ASSUME Latest(q, last, n) PROVE Latest(r, w, n)
  <2>1. CASE n = last /\ \A j \in DOMAIN q : ~IsData(q[j])
    BY <1>1, <2>1 DEF Latest
  <2>2. CASE \E j \in DOMAIN q :
               IsData(q[j]) /\ q[j].k = n /\ \A m \in (j + 1)..Len(q) : ~IsData(q[m])
    <3>1. PICK j \in DOMAIN q :
               IsData(q[j]) /\ q[j].k = n /\ \A m \in (j + 1)..Len(q) : ~IsData(q[m])
      BY <2>2
    <3>2. CASE j = 1
      <4>1. \A m \in DOMAIN r : ~IsData(r[m])
        <5>1. \A m \in DOMAIN r : m + 1 \in (j + 1)..Len(q) /\ r[m] = q[m + 1]  BY <1>1, <3>2
        <5> QED  BY <3>1, <5>1
      <4> QED  BY <1>1, <3>1, <3>2, <4>1 DEF Latest
    <3>3. CASE j # 1
      <4>1. j - 1 \in DOMAIN r /\ r[j - 1] = q[j] /\ (j - 1) + 1 = j  BY <1>1, <3>3
      <4>2. \A m \in j..Len(r) : ~IsData(r[m])
        <5>1. \A m \in j..Len(r) : m + 1 \in (j + 1)..Len(q) /\ r[m] = q[m + 1]  BY <1>1
        <5> QED  BY <3>1, <5>1
      <4> QED  BY <3>1, <4>1, <4>2 DEF Latest
    <3> QED  BY <3>2, <3>3
  <2> QED  BY <1>4, <2>1, <2>2 DEF Latest
<1> QED  BY <1>2, <1>3, <1>4 DEF r

LEMMA FitsStep == TunnelInv /\ [Next]_vars => Fits'
<1> SUFFICES ASSUME TunnelInv, [Next]_vars PROVE Fits'  OBVIOUS
<1>y. /\ TypeOK /\ TableType /\ Fits /\ IInv /\ Owns
      /\ StreamCap \in Nat /\ Frames \subseteq Item /\ NoHandler \notin Handlers
      /\ \A item \in Frames : ~IsData(item) => item.n = 0
  BY TableAssumption DEF TunnelInv, TypeOK, IsData
<1>e. Admitted(<<>>)  BY DEF Admitted
<1>c. Close \in Item /\ ~IsData(Close) /\ Close.n = 0  BY DEF Close, Signal, Item, Tags, IsData
<1> USE DEF tableVars, sessionVars, streamVars, taskVars, gateVars, targetVars
<1>0. ASSUME UNCHANGED <<ctrlQ, writing>> PROVE Fits'  BY <1>y, <1>0 DEF Fits
<1>r. ASSUME NEW h \in Handlers, ctrlQ' = [ctrlQ EXCEPT ![h] = <<>>], UNCHANGED writing
      PROVE  Fits'
  BY <1>y, <1>e, <1>r DEF Fits, TableType
<1>1. ASSUME NEW h \in Handlers, NEW id \in Ids, OpenRefused(h, id) \/ Open(h, id)
      PROVE  Fits'
  BY <1>1, <1>0, <1>r DEF OpenRefused, Open, Claim
<1>2. ASSUME NEW id \in Ids, NEW item \in Frames, StreamFrame(id, item) PROVE Fits'
  <2>1. CASE Live(id) /\ StreamCtrl(id, item)
    <3> DEFINE h == streams[id]
    <3>1. h \in Handlers /\ writing' = writing  BY <1>2, <1>y DEF StreamFrame, TableType
    <3>2. ASSUME NEW x \in Item, Admitted(Append(ctrlQ[h], x)), PutIfRoom(h, x) PROVE Fits'
      BY <1>y, <3>1, <3>2 DEF PutIfRoom, Fits, TableType
    <3>3. CASE CtrlOverflow(id, item)
      BY <1>y, <1>c, <3>1, <3>2, <3>3, AppendSignal DEF CtrlOverflow, Fits, TableType
    <3>4. CASE CtrlData(id, item)
      <4>1. item \in Item /\ item.n \in Nat /\ item.n <= StreamCap
        BY <1>y, <3>4 DEF CtrlData, Overflows, TableType, Item, IInv, WithinCeilings
      <4>2. Admitted(Append(ctrlQ[h], item))
        <5>1. Admitted(ctrlQ[h]) /\ ctrlQ[h] \in Seq(Item)  BY <1>y, <3>1 DEF Fits, TableType
        <5>2. Admissible(item)  BY <3>4, <4>1 DEF CtrlData, Admissible, IsData
        <5> QED  BY <4>1, <5>1, <5>2, AppendItem DEF Admitted
      <4> QED  BY <3>2, <3>4, <4>1, <4>2 DEF CtrlData
    <3>5. CASE CtrlDropped(id, item)  BY <1>0, <3>1, <3>5 DEF CtrlDropped
    <3>6. CASE CtrlSignal(id, item)
      <4>1. Admitted(Append(ctrlQ[h], item))
        BY <1>y, <3>1, <3>6, AppendSignal DEF CtrlSignal, Fits, TableType, IsData
      <4> QED  BY <1>y, <3>2, <3>6, <4>1 DEF CtrlSignal
    <3> QED  BY <2>1, <3>3, <3>4, <3>5, <3>6 DEF StreamCtrl
  <2>2. CASE ~Live(id)  BY <1>2, <2>2, <1>0 DEF StreamFrame, Dispatch
  <2> QED  BY <1>2, <2>1, <2>2 DEF StreamFrame, Dispatch
<1>3. ASSUME NEW h \in Handlers, HandlerStep(h) PROVE Fits'
  <2>1. CASE OpenFailed(h) \/ Closed(h)
    BY <2>1, <1>r DEF OpenFailed, Closed, ReleaseStream
  <2>2. CASE OpenOk(h) \/ OpenDies(h) \/ HandlerCancelled(h)
    BY <2>2, <1>0 DEF OpenOk, OpenDies, HandlerCancelled
  <2>3. CASE TearDown(h)  BY <2>3, <1>y DEF TearDown, Fits, TypeOK
  <2> QED  BY <1>3, <2>1, <2>2, <2>3 DEF HandlerStep
<1>4. ASSUME NEW h \in Handlers, ReaderStep(h) \/ ReadChunk(h) \/ ReadEnd(h) PROVE Fits'
  BY <1>4, <1>0
  DEF ReaderStep, ReadTop, ReadSend, ReadChunk, ReadEnd, SendChunk, ReaderUnchanged
<1>5. ASSUME NEW h \in Handlers, ConsumerStep(h) PROVE Fits'
  <2>1. CASE ConsumeData(h) \/ ConsumeSignal(h)
    <3>1. ctrlQ[h] \in Seq(Item) /\ ctrlQ[h] # <<>> /\ Admitted(ctrlQ[h])
      BY <2>1, <1>y DEF ConsumeData, ConsumeSignal, TakeItem, Fits, TableType
    <3>2. ctrlQ' = [ctrlQ EXCEPT ![h] = Tail(@)]
      BY <2>1 DEF ConsumeData, ConsumeSignal, TakeItem
    <3>3. Admitted(Tail(ctrlQ[h]))
      BY <3>1, TailItem DEF Admitted
    <3>4. \A g \in Handlers : writing'[g] <= StreamCap
      <4>1. CASE ConsumeData(h)
        <5>1. Head(ctrlQ[h]).n <= StreamCap
          BY <3>1, <4>1, TailItem DEF ConsumeData, Admitted, Admissible, IsData
        <5> QED  BY <4>1, <5>1, <1>y DEF ConsumeData, Fits, TypeOK
      <4>2. CASE ConsumeSignal(h)  BY <4>2, <1>y DEF ConsumeSignal, Fits
      <4> QED  BY <2>1, <4>1, <4>2
    <3> QED  BY <1>y, <3>2, <3>3, <3>4 DEF Fits, TableType
  <2>2. CASE DrainDone(h)  BY <2>2, <1>y DEF DrainDone, Fits, TypeOK
  <2> QED  BY <1>5, <2>1, <2>2 DEF ConsumerStep
<1>6. ASSUME NEW h \in Handlers, TargetTakes(h) \/ TargetGone(h) PROVE Fits'
  BY <1>6, <1>0 DEF TargetTakes, TargetGone
<1>7. CASE ConnectionLost \/ SessionClose \/ SessionClosed \/ Reconnect
  <2>1. CASE ConnectionLost \/ SessionClosed
    BY <2>1, <1>0 DEF ConnectionLost, SessionClosed
  <2>2. CASE SessionClose
    <3>1. \A h \in Handlers : Admitted(Append(ctrlQ[h], Close))
      BY <1>y, <1>c, AppendSignal DEF Fits, TableType
    <3> QED  BY <2>2, <3>1, <1>y DEF SessionClose, CloseAllStreams, Fits
  <2>3. CASE Reconnect  BY <2>3, <1>y, <1>e DEF Reconnect, NewTable, Fits
  <2> QED  BY <1>7, <2>1, <2>2, <2>3
<1>8. CASE UNCHANGED vars  BY <1>8, <1>0 DEF vars
<1> QED  BY <1>1, <1>2, <1>3, <1>4, <1>5, <1>6, <1>7, <1>8 DEF Next

-----------------------------------------------------------------------------
(* What is charged. *)

LEMMA ChargedStep == TunnelInv /\ [Next]_vars => Charged'
<1> DEFINE Writes(h) == writing[h] # 0 => pc[h] = "relaying" /\ consumer[h] = "drain"
           Exact(id) == streams[id] # NoHandler =>
                          streamBytes[id] = SizeOf(ctrlQ[streams[id]]) + writing[streams[id]]
<1> SUFFICES ASSUME TunnelInv, [Next]_vars
             PROVE  (\A h \in Handlers : Writes(h)') /\ (\A id \in Ids : Exact(id)')
  BY DEF Charged, Registered
<1>y. /\ TypeOK /\ TableType /\ Owns /\ Fits /\ IInv /\ Tunnels = Handlers
      /\ Frames \subseteq Item /\ NoHandler \notin Handlers
      /\ \A h \in Handlers : Writes(h)
      /\ \A id \in Ids : Exact(id)
      /\ \A item \in Frames : ~IsData(item) => item.n = 0
  BY TableAssumption, TunnelAssumption DEF TunnelInv, TypeOK, Charged, Registered, IsData
<1>c. Close \in Item /\ Close.n = 0  BY DEF Close, Signal, Item, Tags
<1>t. /\ \A h \in Handlers : writing[h] \in Nat /\ ctrlQ[h] \in Seq(Item)
      /\ \A id \in Ids : streams[id] # NoHandler => streams[id] \in Handlers
      /\ \A id \in Ids : streamBytes[id] \in Nat
  BY <1>y DEF TypeOK, TableType
<1>s. \A h \in Handlers : /\ SizeOf(ctrlQ[h]) \in Nat
                          /\ \A x \in Item : SizeOf(Append(ctrlQ[h], x)) = SizeOf(ctrlQ[h]) + x.n
  BY <1>t, ItemSizes, Sizes
<1>o. \A id, other \in Ids : streams[id] # NoHandler /\ streams[id] = streams[other] => id = other
  BY <1>y DEF Owns
<1> USE DEF tableVars, sessionVars, streamVars, taskVars, gateVars, targetVars
<1> HIDE DEF Writes, Exact
\* a step that neither moves bytes nor starts or ends a write
<1>0. ASSUME UNCHANGED <<streams, streamBytes, ctrlQ, writing, pc, consumer>>
      PROVE  (\A h \in Handlers : Writes(h)') /\ (\A id \in Ids : Exact(id)')
  BY <1>y, <1>0 DEF Writes, Exact
<1>e. ASSUME UNCHANGED <<streams, streamBytes, ctrlQ, writing>> PROVE \A id \in Ids : Exact(id)'
  BY <1>y, <1>e DEF Exact
\* tunnel h, which writes nothing, takes another step
<1>w. ASSUME NEW h \in Handlers, writing' = writing, writing[h] = 0,
             \A g \in Handlers \ {h} : pc'[g] = pc[g] /\ consumer'[g] = consumer[g]
      PROVE  \A g \in Handlers : Writes(g)'
  BY <1>y, <1>w DEF Writes
\* what tunnel h was writing is drained
<1>d. ASSUME NEW h \in Handlers, Active(h), DrainBytes(idOf[h], writing[h]),
             UNCHANGED <<streams, ctrlQ>>, writing' = [writing EXCEPT ![h] = 0]
      PROVE  \A d \in Ids : Exact(d)'
  <2>0. PICK id \in Ids : id = idOf[h]  BY <1>d, <1>y DEF Owns
  <2>1. streams[id] = h /\ h # NoHandler /\ DrainBytes(id, writing[h])
    BY <1>d, <2>0, <1>y DEF Owns
  <2>2. streamBytes[id] = SizeOf(ctrlQ[h]) + writing[h]  BY <2>1, <1>y DEF Exact
  <2>3. writing[h] <= streamBytes[id]  BY <2>2, <1>s, <1>t
  <2>4. Drained(id, writing[h]) = writing[h]
    BY <2>1, <2>2, <2>3, <1>t DEF Drained
  <2>5. streamBytes' = [streamBytes EXCEPT ![id] = @ - writing[h]]
    BY <2>1, <2>4 DEF DrainBytes
  <2>6. ASSUME NEW d \in Ids, d # id PROVE Exact(d)'
    <3>1. streamBytes'[d] = streamBytes[d]  BY <2>5, <2>6, <1>y DEF TableType
    <3>2. streams[d] # NoHandler => writing'[streams[d]] = writing[streams[d]]
      BY <1>d, <2>1, <2>6, <1>o, <1>t, <1>y DEF TypeOK
    <3> QED  BY <1>d, <3>1, <3>2, <1>y DEF Exact
  <2>7. Exact(id)'
    <3>1. streamBytes'[id] = streamBytes[id] - writing[h]
      BY <2>1, <2>5, <1>y DEF TableType
    <3>2. streamBytes'[id] = SizeOf(ctrlQ[h])  BY <2>2, <3>1, <1>s, <1>t
    <3>3. writing'[h] = 0  BY <1>d, <1>y DEF TypeOK
    <3>4. streamBytes'[id] = SizeOf(ctrlQ[h]) + 0  BY <3>2, <1>s
    <3> QED  BY <1>d, <2>1, <3>3, <3>4 DEF Exact
  <2> QED  BY <2>6, <2>7
<1>1. ASSUME NEW h \in Handlers, NEW id \in Ids, OpenRefused(h, id) \/ Open(h, id)
      PROVE  (\A g \in Handlers : Writes(g)') /\ (\A d \in Ids : Exact(d)')
  <2>1. pc[h] = "idle" /\ writing[h] = 0
    BY <1>1, <1>y DEF OpenRefused, Open, NextRequest, Writes
  <2>2. \A g \in Handlers : Writes(g)'
    BY <1>1, <2>1, <1>w, <1>y DEF OpenRefused, Open, TypeOK
  <2>3. CASE OpenRefused(h, id)  BY <1>e, <2>2, <2>3 DEF OpenRefused
  <2>4. CASE Open(h, id)
    <3>1. /\ streams' = [streams EXCEPT ![id] = h] /\ streamBytes' = [streamBytes EXCEPT ![id] = 0]
          /\ ctrlQ' = [ctrlQ EXCEPT ![h] = <<>>] /\ writing' = writing
      BY <2>4 DEF Open, Claim
    <3>2. \A d \in Ids : streams[d] # h  BY <2>1, <1>y DEF Owns
    <3>3. ASSUME NEW d \in Ids, d # id PROVE Exact(d)'
      <4>1. streams'[d] = streams[d] /\ streamBytes'[d] = streamBytes[d]
        BY <3>1, <3>3, <1>y DEF TableType
      <4>2. streams[d] # NoHandler => ctrlQ'[streams[d]] = ctrlQ[streams[d]]
        BY <3>1, <3>2, <1>y, <1>t DEF TableType
      <4> QED  BY <3>1, <4>1, <4>2, <1>y DEF Exact
    <3>4. Exact(id)'
      <4>1. streams'[id] = h /\ streamBytes'[id] = 0 /\ ctrlQ'[h] = <<>> /\ writing'[h] = 0
        BY <2>1, <3>1, <1>y DEF TableType
      <4>2. SizeOf(ctrlQ'[h]) = 0  BY <4>1, SizeOfEmpty
      <4> QED  BY <4>1, <4>2 DEF Exact
    <3> QED  BY <2>2, <3>3, <3>4
  <2> QED  BY <1>1, <2>3, <2>4
<1>2. ASSUME NEW id \in Ids, NEW item \in Frames, StreamFrame(id, item)
      PROVE  (\A g \in Handlers : Writes(g)') /\ (\A d \in Ids : Exact(d)')
  <2> DEFINE h == streams[id]
  <2>1. /\ h \in Handlers /\ h # NoHandler /\ item \in Item /\ item.n \in Nat
        /\ UNCHANGED <<pc, consumer, writing>>
    BY <1>2, <1>y, <1>t DEF StreamFrame, Item
  <2>2. \A g \in Handlers : Writes(g)'  BY <2>1, <1>y DEF Writes
  <2> HIDE DEF h
  \* an item goes into the queue and is charged what it weighs
  <2>3. ASSUME NEW x \in Item, PutIfRoom(h, x), streams' = streams,
               streamBytes' = [streamBytes EXCEPT ![id] = @ + x.n]
        PROVE  \A d \in Ids : Exact(d)'
    <3>1. ctrlQ' = [ctrlQ EXCEPT ![h] = Append(@, x)]
      BY <2>1, <2>3, <1>y DEF PutIfRoom, HasRoom
    <3>2. ASSUME NEW d \in Ids, d # id PROVE Exact(d)'
      <4>1. streamBytes'[d] = streamBytes[d] /\ streams'[d] = streams[d]
        BY <2>3, <3>2, <1>y DEF TableType
      <4>2. streams[d] # NoHandler => ctrlQ'[streams[d]] = ctrlQ[streams[d]]
        BY <2>1, <3>1, <3>2, <1>o, <1>t, <1>y DEF TableType, h
      <4> QED  BY <2>1, <4>1, <4>2, <1>y DEF Exact
    <3>3. Exact(id)'
      <4>1. streamBytes'[id] = streamBytes[id] + x.n  BY <2>3, <1>y DEF TableType
      <4>2. ctrlQ'[h] = Append(ctrlQ[h], x)  BY <2>1, <3>1, <1>y DEF TableType
      <4>3. SizeOf(ctrlQ'[h]) = SizeOf(ctrlQ[h]) + x.n  BY <2>1, <4>2, <1>s
      <4>4. streamBytes[id] = SizeOf(ctrlQ[h]) + writing[h]  BY <2>1, <1>y DEF Exact, h
      <4>5. SizeOf(ctrlQ[h]) \in Nat /\ writing[h] \in Nat /\ x.n \in Nat
        BY <2>1, <1>s, <1>t DEF Item
      <4>6. streamBytes'[id] = SizeOf(ctrlQ'[h]) + writing[h]  BY <4>1, <4>3, <4>4, <4>5
      <4>7. streams'[id] = h  BY <2>3 DEF h
      <4> QED  BY <2>1, <4>6, <4>7 DEF Exact
    <3> QED  BY <3>2, <3>3
  <2>4. ASSUME NEW x \in Item, x.n = 0, PutIfRoom(h, x), UNCHANGED <<streams, streamBytes>>
        PROVE  \A d \in Ids : Exact(d)'
    <3>1. streamBytes' = [streamBytes EXCEPT ![id] = @ + x.n]
      BY <2>4, <1>t, <1>y DEF TableType
    <3> QED  BY <2>3, <2>4, <3>1
  <2>5. CASE ~Live(id)  BY <1>2, <2>2, <2>5, <1>0, <2>1 DEF StreamFrame, Dispatch
  <2>6. CASE CtrlOverflow(id, item)  BY <2>2, <2>4, <2>6, <1>c DEF CtrlOverflow, h
  <2>7. CASE CtrlData(id, item)  BY <2>1, <2>2, <2>3, <2>7 DEF CtrlData, h
  <2>8. CASE CtrlDropped(id, item)  BY <2>1, <2>8, <1>0 DEF CtrlDropped
  <2>9. CASE CtrlSignal(id, item)
    BY <2>1, <2>2, <2>4, <2>9, <1>y DEF CtrlSignal, IsData, h
  <2> QED  BY <1>2, <2>5, <2>6, <2>7, <2>8, <2>9 DEF StreamFrame, Dispatch, StreamCtrl
<1>3. ASSUME NEW h \in Handlers, HandlerStep(h)
      PROVE  (\A g \in Handlers : Writes(g)') /\ (\A d \in Ids : Exact(d)')
  <2>1. CASE OpenFailed(h) \/ Closed(h)
    <3>1. /\ Active(h) /\ pc[h] # "relaying" /\ ReleaseStream(h, idOf[h])
          /\ UNCHANGED <<writing, consumer>> /\ pc' = [pc EXCEPT ![h] = "ended"]
      BY <2>1 DEF OpenFailed, Closed, Active
    <3>2. \A g \in Handlers : Writes(g)'  BY <3>1, <1>w, <1>y DEF Writes, TypeOK
    <3>3. PICK id \in Ids : id = idOf[h] /\ streams[id] = h  BY <3>1, <1>y DEF Owns
    <3>4. /\ streams' = [streams EXCEPT ![id] = NoHandler]
          /\ streamBytes' = [streamBytes EXCEPT ![id] = 0]
          /\ ctrlQ' = [ctrlQ EXCEPT ![h] = <<>>]
      BY <3>1, <3>3 DEF ReleaseStream
    <3>5. ASSUME NEW d \in Ids, d # id PROVE Exact(d)'
      <4>1. streams'[d] = streams[d] /\ streamBytes'[d] = streamBytes[d]
        BY <3>4, <3>5, <1>y DEF TableType
      <4>2. streams[d] # NoHandler => ctrlQ'[streams[d]] = ctrlQ[streams[d]]
        BY <3>3, <3>4, <3>5, <1>o, <1>t, <1>y DEF TableType
      <4> QED  BY <3>1, <4>1, <4>2, <1>y DEF Exact
    <3>6. Exact(id)'  BY <3>3, <3>4, <1>y DEF Exact, TableType
    <3> QED  BY <3>2, <3>5, <3>6
  <2>2. CASE OpenOk(h) \/ OpenDies(h) \/ HandlerCancelled(h)
    <3>1. pc[h] # "relaying" /\ UNCHANGED <<streams, streamBytes, ctrlQ, writing>>
      BY <2>2 DEF OpenOk, OpenDies, HandlerCancelled
    <3>2. \A g \in Handlers \ {h} : pc'[g] = pc[g] /\ consumer'[g] = consumer[g]
      BY <2>2, <1>y DEF OpenOk, OpenDies, HandlerCancelled, TypeOK
    <3>3. writing[h] = 0  BY <3>1, <1>y DEF Writes
    <3> QED  BY <3>1, <3>2, <3>3, <1>e, <1>w
  <2>3. CASE TearDown(h)
    <3>1. /\ Active(h) /\ CancelWrite(h) /\ UNCHANGED <<streams, ctrlQ>>
          /\ writing' = [writing EXCEPT ![h] = 0]
      BY <2>3 DEF TearDown, Active
    <3>2. \A g \in Handlers : Writes(g)'
      BY <2>3, <3>1, <1>y DEF TearDown, Writes, TypeOK
    <3>3. CASE consumer[h] = "drain"  BY <3>1, <3>2, <3>3, <1>d DEF CancelWrite
    <3>4. CASE consumer[h] # "drain"
      <4>1. writing[h] = 0  BY <3>4, <1>y DEF Writes
      <4>2. UNCHANGED <<streams, streamBytes, ctrlQ, writing>>
        BY <3>1, <3>4, <4>1, <1>y DEF CancelWrite, TypeOK
      <4> QED  BY <3>2, <4>2, <1>e
    <3> QED  BY <3>3, <3>4
  <2> QED  BY <1>3, <2>1, <2>2, <2>3 DEF HandlerStep
<1>4. ASSUME NEW h \in Handlers, ReaderStep(h) \/ ReadChunk(h) \/ ReadEnd(h)
      PROVE  (\A g \in Handlers : Writes(g)') /\ (\A d \in Ids : Exact(d)')
  BY <1>4, <1>0
  DEF ReaderStep, ReadTop, ReadSend, ReadChunk, ReadEnd, SendChunk, ReaderUnchanged
<1>5. ASSUME NEW h \in Handlers, ConsumerStep(h)
      PROVE  (\A g \in Handlers : Writes(g)') /\ (\A d \in Ids : Exact(d)')
  <2>1. CASE ConsumeData(h) \/ ConsumeSignal(h)
    <3>1. /\ pc[h] = "relaying" /\ consumer[h] = "get" /\ ctrlQ[h] # <<>>
          /\ ctrlQ' = [ctrlQ EXCEPT ![h] = Tail(@)] /\ UNCHANGED <<pc, streams, streamBytes>>
      BY <2>1 DEF ConsumeData, ConsumeSignal, Consuming, TakeItem
    <3>2. writing[h] = 0  BY <3>1, <1>y DEF Writes
    <3>3. Head(ctrlQ[h]) \in Item /\ (~IsData(Head(ctrlQ[h])) => Head(ctrlQ[h]).n = 0)
      <4>1. /\ Admitted(ctrlQ[h]) /\ 1 \in DOMAIN ctrlQ[h] /\ Head(ctrlQ[h]) = ctrlQ[h][1]
            /\ Head(ctrlQ[h]) \in Item
        BY <3>1, <1>t, <1>y, TailItem, HeadTailProperties DEF Fits
      <4> QED  BY <4>1 DEF Admitted, Admissible
    <3>4. writing' = [writing EXCEPT ![h] = Head(ctrlQ[h]).n]
      <4>1. CASE ConsumeData(h)  BY <4>1 DEF ConsumeData
      <4>2. CASE ConsumeSignal(h)
        BY <3>2, <3>3, <4>2, <1>y DEF ConsumeSignal, IsData, TypeOK
      <4> QED  BY <2>1, <4>1, <4>2
    <3>5. \A g \in Handlers : Writes(g)'
      <4>1. CASE ConsumeData(h)
        BY <3>1, <3>4, <4>1, <1>y DEF ConsumeData, ConsumerAt, Writes, TypeOK
      <4>2. CASE ConsumeSignal(h)
        <5>1. writing' = writing  BY <4>2 DEF ConsumeSignal
        <5>2. \A g \in Handlers \ {h} : pc'[g] = pc[g] /\ consumer'[g] = consumer[g]
          BY <3>1, <4>2, <1>y DEF ConsumeSignal, ConsumerAt, TypeOK
        <5> QED  BY <3>2, <5>1, <5>2, <1>w
      <4> QED  BY <2>1, <4>1, <4>2
    <3>6. ASSUME NEW d \in Ids, streams[d] = h PROVE Exact(d)'
      <4>1. ctrlQ'[h] = Tail(ctrlQ[h]) /\ writing'[h] = Head(ctrlQ[h]).n
        BY <3>1, <3>4, <1>y DEF TypeOK, TableType
      <4>2. SizeOf(ctrlQ[h]) = Head(ctrlQ[h]).n + SizeOf(Tail(ctrlQ[h]))
        BY <3>1, <1>t, ItemSizes, Sizes
      <4>3. streamBytes[d] = SizeOf(ctrlQ[h])
        BY <3>2, <3>6, <1>s, <1>y DEF Exact
      <4>4. SizeOf(Tail(ctrlQ[h])) \in Nat /\ Head(ctrlQ[h]).n \in Nat
        BY <3>1, <1>t, ItemSizes, Sizes
      <4>5. streamBytes[d] = SizeOf(ctrlQ'[h]) + writing'[h]  BY <4>1, <4>2, <4>3, <4>4
      <4> QED  BY <3>1, <3>6, <4>5 DEF Exact
    <3>7. ASSUME NEW d \in Ids, streams[d] # h PROVE Exact(d)'
      <4>1. streams[d] # NoHandler =>
              ctrlQ'[streams[d]] = ctrlQ[streams[d]] /\ writing'[streams[d]] = writing[streams[d]]
        BY <3>1, <3>4, <3>7, <1>t, <1>y DEF TypeOK, TableType
      <4> QED  BY <3>1, <4>1, <1>y DEF Exact
    <3> QED  BY <3>5, <3>6, <3>7
  <2>2. CASE DrainDone(h)
    <3>1. /\ pc[h] = "relaying" /\ UNCHANGED <<pc, streams, ctrlQ>>
          /\ DrainBytes(idOf[h], writing[h]) /\ writing' = [writing EXCEPT ![h] = 0]
      BY <2>2 DEF DrainDone, Consuming
    <3>2. \A g \in Handlers : Writes(g)'
      BY <2>2, <3>1, <1>y DEF DrainDone, ConsumerAt, Writes, TypeOK
    <3> QED  BY <3>1, <3>2, <1>d DEF Active
  <2> QED  BY <1>5, <2>1, <2>2 DEF ConsumerStep
<1>6. ASSUME NEW h \in Handlers, TargetTakes(h) \/ TargetGone(h)
      PROVE  (\A g \in Handlers : Writes(g)') /\ (\A d \in Ids : Exact(d)')
  BY <1>6, <1>0 DEF TargetTakes, TargetGone
<1>7. CASE ConnectionLost \/ SessionClose \/ SessionClosed \/ Reconnect
  <2>1. UNCHANGED <<writing, pc, consumer>>
    BY <1>7 DEF ConnectionLost, SessionClose, SessionClosed, Reconnect
  <2>2. \A h \in Handlers : Writes(h)'  BY <2>1, <1>y DEF Writes
  <2>3. CASE ConnectionLost \/ SessionClosed
    BY <2>3, <1>0 DEF ConnectionLost, SessionClosed
  <2>4. CASE SessionClose
    <3>1. /\ \A h \in Handlers : ctrlQ'[h] = ctrlQ[h] \/ ctrlQ'[h] = Append(ctrlQ[h], Close)
          /\ UNCHANGED <<streams, streamBytes>>
      BY <2>4 DEF SessionClose, CloseAllStreams
    <3>3. ASSUME NEW h \in Handlers PROVE SizeOf(ctrlQ'[h]) = SizeOf(ctrlQ[h])
      <4>1. SizeOf(ctrlQ[h]) \in Nat /\ SizeOf(Append(ctrlQ[h], Close)) = SizeOf(ctrlQ[h]) + Close.n
        BY <1>c, <1>s
      <4>2. SizeOf(Append(ctrlQ[h], Close)) = SizeOf(ctrlQ[h])  BY <4>1, <1>c
      <4> QED  BY <3>1, <4>2
    <3> QED  BY <2>1, <2>2, <3>1, <3>3, <1>t, <1>y DEF Exact
  <2>5. CASE Reconnect  BY <2>2, <2>5 DEF Reconnect, NewTable, Exact
  <2> QED  BY <1>7, <2>3, <2>4, <2>5
<1>8. CASE UNCHANGED vars  BY <1>8, <1>0 DEF vars
<1> QED  BY <1>1, <1>2, <1>3, <1>4, <1>5, <1>6, <1>7, <1>8 DEF Next

-----------------------------------------------------------------------------
(* Order. *)

\* InOrder, for one tunnel
InOrderOf(h) ==
  /\ pc[h] = "idle" => frames[h] = 0 /\ wrote[h] = 0
  /\ pc[h] \in {"opening", "relaying"} =>
       /\ Consecutive(ctrlQ[h], wrote[h])
       /\ idOf[h] \notin closing => Latest(ctrlQ[h], wrote[h], frames[h])

LEMMA OrderStep == TunnelInv /\ [Next]_vars => InOrder'
<1> SUFFICES ASSUME TunnelInv, [Next]_vars PROVE \A h \in Handlers : InOrderOf(h)'
  BY DEF InOrder, InOrderOf
<1>y. /\ TypeOK /\ TableType /\ Owns /\ TunnelAssumption
      /\ Frames \subseteq Item /\ NoHandler \notin Handlers
      /\ \A h \in Handlers : InOrderOf(h)
  BY TableAssumption, TunnelAssumption DEF TunnelInv, TypeOK, InOrder, InOrderOf
<1>e. Consecutive(<<>>, 0) /\ Latest(<<>>, 0, 0)  BY DEF Consecutive, Latest
<1>c. Close \in Item /\ ~IsData(Close)  BY DEF Close, Signal, Item, Tags, IsData
<1> USE DEF tableVars, sessionVars, streamVars, taskVars, gateVars, targetVars
\* a step that does not touch a tunnel's queue, numbers, id and task
<1>0. ASSUME NEW g \in Handlers,
             ctrlQ'[g] = ctrlQ[g], wrote'[g] = wrote[g], frames'[g] = frames[g],
             pc'[g] = pc[g], idOf'[g] = idOf[g],
             pc[g] \in {"opening", "relaying"} /\ idOf[g] \in closing => idOf[g] \in closing'
      PROVE  InOrderOf(g)'
  BY <1>y, <1>0 DEF InOrderOf
<1>1. ASSUME NEW h \in Handlers, NEW id \in Ids, OpenRefused(h, id) \/ Open(h, id),
             NEW g \in Handlers
      PROVE  InOrderOf(g)'
  <2>1. CASE g # h
    BY <1>1, <2>1, <1>0, <1>y DEF OpenRefused, Open, Claim, TypeOK, TableType
  <2>2. CASE g = h /\ OpenRefused(h, id)
    BY <2>2, <1>y DEF OpenRefused, InOrderOf, TypeOK
  <2>3. CASE g = h /\ Open(h, id)
    <3>1. frames'[h] = 0 /\ wrote'[h] = 0
      BY <2>3, <1>y DEF Open, NextRequest, InOrderOf
    <3>2. ctrlQ'[h] = <<>>  BY <2>3, <1>y DEF Open, Claim, TableType
    <3>3. pc'[h] = "opening"  BY <2>3, <1>y DEF Open, TypeOK
    <3> QED  BY <2>3, <1>e, <3>1, <3>2, <3>3 DEF InOrderOf
  <2> QED  BY <1>1, <2>1, <2>2, <2>3
<1>2. ASSUME NEW id \in Ids, NEW item \in Frames, StreamFrame(id, item), NEW g \in Handlers
      PROVE  InOrderOf(g)'
  <2> DEFINE h == streams[id]
  <2>1. /\ h \in Handlers /\ UNCHANGED <<pc, wrote, idOf>> /\ item \in Item
        /\ item.tag \in Tags /\ item.k \in Nat
    BY <1>2, <1>y DEF StreamFrame, TableType, Item
  <2>2. frames' = IF IsData(item) THEN [frames EXCEPT ![h] = item.k] ELSE frames
    BY <1>2 DEF StreamFrame, IsData
  <2>3. IsData(item) => item.k = frames[h] + 1
    BY <1>2 DEF StreamFrame, IsData
  <2>4. CASE g # h
    <3>1. frames'[g] = frames[g]  BY <2>1, <2>2, <2>4, <1>y DEF TypeOK
    <3>2. ctrlQ'[g] = ctrlQ[g] /\ closing \subseteq closing'
      BY <1>2, <2>1, <2>4, <1>y
      DEF StreamFrame, Dispatch, StreamCtrl, CtrlOverflow, CtrlData, CtrlDropped, CtrlSignal,
          PutIfRoom, TableType
    <3> QED  BY <2>1, <3>1, <3>2, <1>0
  <2>5. CASE g = h /\ pc[h] \notin {"opening", "relaying"}
    <3>1. pc[h] # "idle"  BY <1>2, <1>y DEF StreamFrame, Owns
    <3> QED  BY <2>1, <2>5, <3>1 DEF InOrderOf
  <2>6. CASE g = h /\ pc[h] \in {"opening", "relaying"}
    <3>0. /\ ctrlQ[h] \in Seq(Item) /\ wrote[h] \in Nat /\ frames[h] \in Nat
          /\ Consecutive(ctrlQ[h], wrote[h]) /\ pc'[h] # "idle"
          /\ idOf[h] \notin closing => Latest(ctrlQ[h], wrote[h], frames[h])
      BY <2>1, <2>6, <1>y DEF TypeOK, TableType, InOrderOf
    <3>1. idOf[h] = id  BY <1>2, <2>1, <1>y DEF StreamFrame, Owns
    <3>2. Tunnels = Handlers  BY <1>y DEF TunnelAssumption
    <3> HIDE DEF h
    <3>3. ASSUME ctrlQ'[h] = ctrlQ[h] \/ \E x \in Item : ~IsData(x) /\ ctrlQ'[h] = Append(ctrlQ[h], x),
                 frames'[h] = frames[h] \/ id \in closing', closing \subseteq closing'
          PROVE  InOrderOf(g)'
      <4>1. Consecutive(ctrlQ'[h], wrote[h])
        BY <3>0, <3>3, AppendSignal
      <4>2. ASSUME id \notin closing' PROVE Latest(ctrlQ'[h], wrote[h], frames'[h])
        BY <3>0, <3>1, <3>3, <4>2, AppendSignal
      <4> QED  BY <2>1, <2>6, <3>0, <3>1, <4>1, <4>2 DEF InOrderOf
    <3>4. CASE ~Live(id)
      <4>1. id \in closing  BY <1>2, <3>4 DEF StreamFrame, Live
      <4> QED  BY <1>2, <3>3, <3>4, <4>1 DEF StreamFrame, Dispatch
    <3>5. ASSUME NEW x \in Item, PutIfRoom(h, x) PROVE ctrlQ'[h] = Append(ctrlQ[h], x)
      BY <2>1, <3>2, <3>5, <1>y DEF PutIfRoom, HasRoom, TableType
    <3>6. CASE Live(id) /\ CtrlOverflow(id, item)
      BY <1>c, <3>3, <3>5, <3>6 DEF CtrlOverflow, h
    <3>7. CASE Live(id) /\ CtrlData(id, item)
      <4>1. IsData(item) /\ id \notin closing /\ closing' = closing
        BY <3>7 DEF CtrlData, IsData, Live
      <4>2. ctrlQ'[h] = Append(ctrlQ[h], item)  BY <2>1, <3>5, <3>7 DEF CtrlData, h
      <4>3. frames'[h] = frames[h] + 1  BY <2>1, <2>2, <2>3, <4>1, <1>y DEF TypeOK, h
      <4>4. item.k = frames[h] + 1  BY <2>3, <4>1 DEF h
      <4>5. Consecutive(ctrlQ'[h], wrote[h]) /\ Latest(ctrlQ'[h], wrote[h], frames[h] + 1)
        BY <2>1, <3>0, <3>1, <4>1, <4>2, <4>4, AppendData
      <4> QED  BY <2>1, <2>6, <3>0, <4>3, <4>5 DEF InOrderOf
    <3>8. CASE Live(id) /\ CtrlSignal(id, item)
      <4>1. ~IsData(item) /\ closing' = closing  BY <3>8 DEF CtrlSignal, IsData
      <4>2. ctrlQ'[h] = Append(ctrlQ[h], item)  BY <2>1, <3>5, <3>8 DEF CtrlSignal, h
      <4>3. frames' = frames  BY <2>2, <4>1
      <4> QED  BY <2>1, <3>3, <4>1, <4>2, <4>3
    <3>9. ~CtrlDropped(id, item)  BY <2>1, <3>2 DEF CtrlDropped, HasRoom, h
    <3> QED  BY <1>2, <3>4, <3>6, <3>7, <3>8, <3>9 DEF StreamFrame, Dispatch, StreamCtrl
  <2> QED  BY <2>4, <2>5, <2>6
<1>3. ASSUME NEW h \in Handlers, HandlerStep(h), NEW g \in Handlers PROVE InOrderOf(g)'
  <2>1. ASSUME Active(h), pc'[h] \notin {"idle", "opening", "relaying"},
               \A x \in Handlers \ {h} : pc'[x] = pc[x] /\ frames'[x] = frames[x] /\ wrote'[x] = wrote[x],
               UNCHANGED idOf,
               UNCHANGED <<ctrlQ, closing>> \/ ReleaseStream(h, idOf[h])
        PROVE  InOrderOf(g)'
    <3>1. CASE g = h  BY <2>1, <3>1 DEF InOrderOf
    <3>2. CASE g # h
      <4>1. ctrlQ'[g] = ctrlQ[g]  BY <2>1, <3>2, <1>y DEF ReleaseStream, TableType
      <4>2. ASSUME pc[g] \in {"opening", "relaying"}, idOf[g] \in closing PROVE idOf[g] \in closing'
        <5>1. streams[idOf[g]] = g /\ streams[idOf[h]] = h
          BY <2>1, <4>2, <1>y DEF Owns, Active
        <5> QED  BY <2>1, <3>2, <4>2, <5>1 DEF ReleaseStream, StillClosing
      <4> QED  BY <2>1, <3>2, <4>1, <4>2, <1>0
    <3> QED  BY <3>1, <3>2
  <2>2. CASE OpenFailed(h) \/ OpenDies(h) \/ Closed(h) \/ HandlerCancelled(h)
    BY <2>1, <2>2, <1>y DEF OpenFailed, OpenDies, Closed, HandlerCancelled, Active, TypeOK
  <2>3. CASE OpenOk(h)
    <3>1. UNCHANGED <<ctrlQ, closing, wrote, frames, idOf>>  BY <2>3 DEF OpenOk
    <3>2. pc[h] = "opening" /\ pc'[h] # "idle" /\ \A x \in Handlers \ {h} : pc'[x] = pc[x]
      BY <2>3, <1>y DEF OpenOk, TypeOK
    <3> QED  BY <3>1, <3>2, <1>y DEF InOrderOf
  <2>4. CASE TearDown(h)
    BY <2>1, <2>4, <1>y DEF TearDown, Active, TypeOK
  <2> QED  BY <1>3, <2>2, <2>3, <2>4 DEF HandlerStep
<1>4. ASSUME NEW h \in Handlers, ReaderStep(h) \/ ReadChunk(h) \/ ReadEnd(h), NEW g \in Handlers
      PROVE  InOrderOf(g)'
  BY <1>4, <1>0
  DEF ReaderStep, ReadTop, ReadSend, ReadChunk, ReadEnd, SendChunk, ReaderUnchanged
<1>5. ASSUME NEW h \in Handlers, ConsumerStep(h), NEW g \in Handlers PROVE InOrderOf(g)'
  <2>1. CASE ConsumeData(h) \/ ConsumeSignal(h)
    <3> DEFINE w == IF IsData(Head(ctrlQ[h])) THEN Head(ctrlQ[h]).k ELSE wrote[h]
    <3>1. UNCHANGED <<pc, idOf, frames, closing>>  BY <2>1 DEF ConsumeData, ConsumeSignal
    <3>2. ctrlQ' = [ctrlQ EXCEPT ![h] = Tail(@)] /\ ctrlQ[h] # <<>>
      BY <2>1 DEF ConsumeData, ConsumeSignal, TakeItem
    <3>3. wrote' = [wrote EXCEPT ![h] = w]
      BY <2>1, <1>y DEF ConsumeData, ConsumeSignal, IsData, TypeOK
    <3>4. /\ ctrlQ[h] \in Seq(Item) /\ wrote[h] \in Nat /\ frames[h] \in Nat
          /\ Consecutive(ctrlQ[h], wrote[h]) /\ pc[h] = "relaying"
          /\ idOf[h] \notin closing => Latest(ctrlQ[h], wrote[h], frames[h])
      BY <2>1, <1>y DEF ConsumeData, ConsumeSignal, Consuming, TypeOK, TableType, InOrderOf
    <3>5. /\ Consecutive(Tail(ctrlQ[h]), w)
          /\ idOf[h] \notin closing => Latest(Tail(ctrlQ[h]), w, frames[h])
      BY <3>2, <3>4, TailOrder
    <3> HIDE DEF w
    <3>6. CASE g = h
      <4>1. ctrlQ'[h] = Tail(ctrlQ[h]) /\ wrote'[h] = w
        BY <3>2, <3>3, <1>y DEF TypeOK, TableType
      <4> QED  BY <3>1, <3>4, <3>5, <3>6, <4>1 DEF InOrderOf
    <3>7. CASE g # h  BY <3>1, <3>2, <3>3, <3>7, <1>0, <1>y DEF TypeOK, TableType
    <3> QED  BY <3>6, <3>7
  <2>2. CASE DrainDone(h)  BY <2>2, <1>0 DEF DrainDone
  <2> QED  BY <1>5, <2>1, <2>2 DEF ConsumerStep
<1>6. ASSUME NEW h \in Handlers, TargetTakes(h) \/ TargetGone(h), NEW g \in Handlers
      PROVE  InOrderOf(g)'
  BY <1>6, <1>0 DEF TargetTakes, TargetGone
<1>7. ASSUME ConnectionLost \/ SessionClose \/ SessionClosed \/ Reconnect, NEW g \in Handlers
      PROVE  InOrderOf(g)'
  <2>1. CASE ConnectionLost \/ SessionClosed
    BY <2>1, <1>0 DEF ConnectionLost, SessionClosed
  <2>2. CASE SessionClose
    <3>1. ctrlQ'[g] = ctrlQ[g] \/ ctrlQ'[g] = Append(ctrlQ[g], Close)
      BY <2>2 DEF SessionClose, CloseAllStreams
    <3>2. UNCHANGED <<pc, wrote, frames, idOf, closing>>
      BY <2>2 DEF SessionClose, CloseAllStreams
    <3>3. CASE ctrlQ'[g] = ctrlQ[g]  BY <3>2, <3>3, <1>0
    <3>4. CASE ctrlQ'[g] = Append(ctrlQ[g], Close)
      <4>1. ctrlQ[g] \in Seq(Item) /\ wrote[g] \in Nat /\ frames[g] \in Nat
        BY <1>y DEF TypeOK, TableType
      <4> QED  BY <1>y, <1>c, <3>2, <3>4, <4>1, AppendSignal DEF InOrderOf
    <3> QED  BY <3>1, <3>3, <3>4
  <2>3. CASE Reconnect
    <3>1. pc[g] \notin {"opening", "relaying"}
      BY <2>3, <1>y DEF Reconnect, Owns, Active
    <3> QED  BY <2>3, <3>1, <1>y DEF Reconnect, InOrderOf
  <2> QED  BY <1>7, <2>1, <2>2, <2>3
<1>8. ASSUME UNCHANGED vars, NEW g \in Handlers PROVE InOrderOf(g)'
  BY <1>8, <1>0 DEF vars
<1> QED  BY <1>1, <1>2, <1>3, <1>4, <1>5, <1>6, <1>7, <1>8 DEF Next

-----------------------------------------------------------------------------
(* The theorems. *)

LEMMA InitTunnelInv == Init => TunnelInv
<1> SUFFICES ASSUME Init PROVE TunnelInv  OBVIOUS
<1>1. IInv /\ TableType  BY InitIInv DEF Init, IInv
<1>2. TypeOK  BY <1>1 DEF Init, TypeOK
<1>3. Owns  BY DEF Init, TableInit, Owns, Active
<1>4. Fits  BY TableAssumption DEF Init, TableInit, Fits, Admitted
<1>5. InOrder  BY DEF Init, InOrder
<1>6. Gated  BY DEF Init, Gated
<1>7. Charged  BY DEF Init, TableInit, Charged, Registered
<1> QED  BY <1>1, <1>2, <1>3, <1>4, <1>5, <1>6, <1>7 DEF TunnelInv

(* The invariant the theorems below are read from. *)
THEOREM TunnelInvariant == Spec => []TunnelInv
<1>1. TunnelInv /\ [Next]_vars => TunnelInv'
  BY TypeStep, OwnsStep, FitsStep, ChargedStep, OrderStep, GatedStep DEF TunnelInv
<1> QED  BY InitTunnelInv, <1>1, PTL DEF Spec

(* Every variable has its type.  (gateway.py 70-109, 870-984) *)
THEOREM TunnelTypes == Spec => []TypeOK
<1>1. TunnelInv => TypeOK  BY DEF TunnelInv
<1> QED  BY TunnelInvariant, <1>1, PTL

(* The tunnels implement the stream table: whatever their tasks do, in any   *)
(* order, is a step that TableSpec allows.  (gateway.py 270-309, 508-543)    *)
THEOREM TunnelsUseTable == Spec => ImplementsTable
<1> QED  BY TunnelInvariant, StepTable, PTL DEF Spec, ImplementsTable

(* So the ceilings bound what the tunnels buffer.  (gateway.py 276-282, 527) *)
THEOREM TunnelCeilings == Spec => []WithinCeilings
<1>1. TunnelInv => WithinCeilings  BY DEF TunnelInv, IInv
<1> QED  BY TunnelInvariant, <1>1, PTL

(* No data frame is missing between what a target was sent and what waits    *)
(* for it, for any number of frames.  (gateway.py 94-98, 859-868)            *)
THEOREM TunnelNoGap == Spec => []NoGap
<1>1. TunnelInv => NoGap  BY DEF TunnelInv, InOrder, NoGap
<1> QED  BY TunnelInvariant, <1>1, PTL

(* No chunk is sent between a pause that came before the chunk was read, or  *)
(* while it was, and the next resume.  (gateway.py 909-935)                  *)
THEOREM TunnelPauseHolds == Spec => []PauseHolds
<1>1. TunnelInv => PauseHolds  BY DEF TunnelInv, Gated, PauseHolds
<1> QED  BY TunnelInvariant, <1>1, PTL
(* A tunnel is charged, to the byte, what waits in its queue and what is     *)
(* being written, whichever way its tasks end; the session is charged what   *)
(* its tunnels are.  (gateway.py 270-309, 937-948)                           *)
THEOREM TunnelCharged == Spec => []ChargedExactly
<1>1. TunnelInv => ChargedExactly  BY DEF TunnelInv, IInv, Charged, ChargedExactly
<1> QED  BY TunnelInvariant, <1>1, PTL
=============================================================================
