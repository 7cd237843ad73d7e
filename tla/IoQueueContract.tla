--------------------------- MODULE IoQueueContract ---------------------------
(***************************************************************************)
(* What follows from who owns an io_u of IoQueue: the rings of iodepth + 1 *)
(* slots are never full when it would matter, and the queue pair           *)
(* implements FioContract.                                                 *)
(***************************************************************************)
EXTENDS IoQueueProofs

-----------------------------------------------------------------------------
(***************************************************************************)
(* The stretch of the SQ that nvme_queue believes to be in use, from       *)
(* io_sq_head to the tail.  Every command in it is still in the table: one *)
(* that was polled lies before the SQ head its completion reported, which  *)
(* is where io_sq_head moved when it was polled.                           *)
(***************************************************************************)
InFlight == {s \in Slots : Between(io_sq_head, s, io_sq_tail)}

RoomInv ==
  /\ \A s \in InFlight : cmd_io_u[sq[s].cid] = sq[s].u
  /\ \A s, t \in InFlight : s # t => sq[s].cid # sq[t].cid
  /\ \A i \in PostedSlots, s \in InFlight :
       Dist(io_sq_head, cq[i].sqhd) <= Dist(io_sq_head, s) => sq[s].cid # cq[i].cid

-----------------------------------------------------------------------------
(* The stretch of the SQ in use *)

roomVars == <<cmd_io_u, sq, io_sq_head, io_sq_tail, head, ctl_cq_tail, cq>>

\* Steps that leave the rings, the table and the reported heads alone.
LEMMA RoomInvStable ==
  ASSUME RoomInv, UNCHANGED roomVars
  PROVE  RoomInv'
BY DEF RoomInv, roomVars, InFlight, PostedSlots, Between, Dist

\* nvme_queue adds the slot it fills, with an identifier no entry of the table
\* and hence no slot in use and no posted completion has.
LEMMA QueueRoomInv ==
  ASSUME TypeOK, CidInv, RoomInv, NEW u \in IoU, NEW r \in Requests, Queue(u, r)
  PROVE  RoomInv'
<1> DEFINE t == io_sq_tail
<1>1. /\ sq'[t].cid = next_cid /\ sq'[t].u = u
      /\ \A s \in Slots : s # t => sq'[s] = sq[s]
      /\ io_sq_tail' = Advance(t) /\ Advance(t) # io_sq_head
      /\ UNCHANGED <<io_sq_head, head, ctl_cq_tail, cq>>
  BY DEF Queue, SubmitCommand, Busy, next_sq_tail, pollVars, ctlVars, TypeOK
<1>2. /\ cmd_io_u[next_cid] = NoIoU /\ cmd_io_u'[next_cid] = u
      /\ \A c \in Cids : c # next_cid => cmd_io_u'[c] = cmd_io_u[c]
  BY NextCidInCids DEF Queue, Busy, TypeOK
<1>3. t \in Slots /\ io_sq_head \in Slots
  BY DEF TypeOK
<1>4. /\ \A s \in Slots : s \in InFlight' <=> s \in InFlight \/ s = t
      /\ t \notin InFlight
  <2>1. ASSUME NEW s \in Slots
        PROVE  Between(io_sq_head, s, Advance(t)) <=> Between(io_sq_head, s, t) \/ s = t
    BY <1>1, <1>3, BetweenAdvanceEnd
  <2>2. t \notin InFlight
    BY <1>3, DistNat DEF InFlight, Between
  <2> QED
    BY <1>1, <2>1, <2>2 DEF InFlight, Between, Dist
<1>5. PostedSlots' = PostedSlots
  BY <1>1 DEF PostedSlots, Between, Dist
<1>6. InFlight \subseteq Slots /\ InFlight' \subseteq Slots /\ PostedSlots \subseteq Slots
  BY DEF InFlight, PostedSlots
<1>7. /\ \A s \in Slots : sq[s].cid \in Cids /\ sq[s].u \in IoU
  BY DEF TypeOK, Command
<1>8. /\ \A s \in InFlight : sq[s].cid # next_cid
      /\ \A i \in PostedSlots : cq[i].cid # next_cid
  <2>1. \A s \in InFlight : cmd_io_u[sq[s].cid] # NoIoU
    BY <1>6, <1>7, IoUAssumption, Zenon DEF RoomInv
  <2>2. \A i \in PostedSlots : cmd_io_u[cq[i].cid] # NoIoU
    BY Zenon DEF CidInv
  <2> QED
    BY <1>2, <2>1, <2>2, Zenon
<1> HIDE DEF t
<1>9. \A s \in InFlight' : cmd_io_u'[sq'[s].cid] = sq'[s].u
  BY <1>1, <1>2, <1>4, <1>6, <1>7, <1>8 DEF RoomInv
<1>10. \A s, q \in InFlight' : s # q => sq'[s].cid # sq'[q].cid
  BY <1>1, <1>4, <1>6, <1>8 DEF RoomInv
<1>11. \A i \in PostedSlots, s \in InFlight' :
         Dist(io_sq_head, cq[i].sqhd) <= Dist(io_sq_head, s) => sq'[s].cid # cq[i].cid
  BY <1>1, <1>4, <1>6, <1>8 DEF RoomInv
<1> QED
  BY <1>1, <1>5, <1>9, <1>10, <1>11 DEF RoomInv, Dist

\* poll_cq moves io_sq_head to the SQ head the completion reports, beyond the
\* slot of the command it answers.
LEMMA PollEntryRoomInv ==
  ASSUME TypeOK, CqInv, SqInv, RoomInv, PollEntry
  PROVE  RoomInv'
<1> DEFINE h == io_sq_head
           m == cq[head].sqhd
           k == cq[head].cid
<1>1. /\ \A c \in Cids : c # k => cmd_io_u'[c] = cmd_io_u[c]
      /\ io_sq_head' = m /\ UNCHANGED <<sq, cq, io_sq_tail>>
  BY DEF PollEntry, TableWithout, memVars, TypeOK
<1>2. /\ head \in PostedSlots
      /\ \A i \in Slots : i \in PostedSlots' <=> i \in PostedSlots /\ i # head
  BY PollEntryPosted
<1>3. h \in Slots /\ m \in Slots /\ io_sq_tail \in Slots /\ head \in Slots
  BY DEF TypeOK, Completion
<1>4. Dist(h, m) <= Dist(h, io_sq_tail)
  <2>1. /\ Dist(h, ctl_sq_head) <= Dist(h, io_sq_tail)
        /\ Dist(h, m) <= Dist(h, ctl_sq_head)
    BY <1>2 DEF SqInv
  <2>2. /\ Dist(h, ctl_sq_head) \in Nat /\ Dist(h, io_sq_tail) \in Nat
        /\ Dist(h, m) \in Nat
    BY <1>3, DistNat, ZenonT(30) DEF TypeOK
  <2> QED
    BY <2>1, <2>2
<1>5. ASSUME NEW s \in InFlight'
      PROVE  /\ s \in InFlight /\ Dist(h, m) <= Dist(h, s)
             /\ Dist(m, s) = Dist(h, s) - Dist(h, m)
  <2>1. s \in Slots /\ Dist(m, s) < Dist(m, io_sq_tail)
    BY <1>1 DEF InFlight, Between, Dist
  <2>2. Dist(h, m) <= Dist(h, s) /\ Dist(h, s) < Dist(h, io_sq_tail)
    BY <1>3, <1>4, <2>1, DepthFacts DEF Dist, Slots
  <2>3. Dist(m, s) = Dist(h, s) - Dist(h, m)
    BY <1>3, <2>1, <2>2, DistShift
  <2> QED
    BY <2>1, <2>2, <2>3 DEF InFlight, Between
<1>6. \A s \in InFlight' : sq[s].cid # k /\ sq[s].cid \in Cids /\ s \in InFlight
  BY <1>2, <1>5 DEF RoomInv, InFlight, TypeOK, Command
<1>7. \A i \in PostedSlots' : i \in PostedSlots /\ cq[i].sqhd \in Slots
                              /\ Dist(h, m) <= Dist(h, cq[i].sqhd)
  <2> SUFFICES ASSUME NEW i \in PostedSlots'
               PROVE  i \in PostedSlots /\ cq[i].sqhd \in Slots
                      /\ Dist(h, m) <= Dist(h, cq[i].sqhd)
    OBVIOUS
  <2>1. i \in Slots /\ i \in PostedSlots
    BY <1>2 DEF PostedSlots
  <2>2. Dist(head, head) <= Dist(head, i)
    BY <1>3, <2>1, DistNat
  <2>3. Dist(h, m) <= Dist(h, cq[i].sqhd)
    BY <1>2, <2>1, <2>2 DEF SqInv
  <2> QED
    BY <2>1, <2>3 DEF TypeOK, Completion
<1> HIDE DEF h, m, k
<1>8. \A s \in InFlight' : cmd_io_u'[sq[s].cid] = sq[s].u
  BY <1>1, <1>6 DEF RoomInv
<1>9. \A s, t \in InFlight' : s # t => sq[s].cid # sq[t].cid
  BY <1>6 DEF RoomInv
<1>10. ASSUME NEW i \in PostedSlots', NEW s \in InFlight',
              Dist(m, cq[i].sqhd) <= Dist(m, s)
       PROVE  sq[s].cid # cq[i].cid
  <2>1. /\ s \in InFlight /\ s \in Slots /\ i \in PostedSlots
        /\ Dist(m, s) = Dist(h, s) - Dist(h, m)
    BY <1>5, <1>7 DEF InFlight
  <2>2. Dist(m, cq[i].sqhd) = Dist(h, cq[i].sqhd) - Dist(h, m)
    BY <1>3, <1>7, DistShift
  <2>3. /\ Dist(h, s) \in Nat /\ Dist(h, m) \in Nat /\ Dist(h, cq[i].sqhd) \in Nat
    BY <1>3, <1>7, <2>1, DistNat
  <2>4. Dist(h, cq[i].sqhd) <= Dist(h, s)
    BY <1>10, <2>1, <2>2, <2>3
  <2> QED
    BY <2>1, <2>4 DEF RoomInv, h
<1> QED
  BY <1>1, <1>8, <1>9, <1>10 DEF RoomInv, Dist

\* A completion reports the controller's head, and its command is not one of
\* those still waiting beyond it.
LEMMA CtlCompleteRoomInv ==
  ASSUME TypeOK, CqInv, SqInv, CidInv, RoomInv, NEW d \in executing,
         NEW ok \in BOOLEAN, CtlComplete(d, ok)
  PROVE  RoomInv'
<1> DEFINE h == io_sq_head
<1>1. /\ cq'[ctl_cq_tail].cid = d.cid /\ cq'[ctl_cq_tail].sqhd = ctl_sq_head
      /\ \A i \in Slots : i # ctl_cq_tail => cq'[i] = cq[i]
      /\ UNCHANGED <<sq, cmd_io_u, io_sq_head, io_sq_tail>>
  BY DEF CtlComplete, hostVars, TypeOK
<1>2. /\ \A i \in Slots : i \in PostedSlots' <=> i \in PostedSlots \/ i = ctl_cq_tail
      /\ ctl_cq_tail \notin PostedSlots
  BY CtlCompletePosted
<1>3. InFlight' = InFlight
  BY <1>1 DEF InFlight, Between, Dist
<1>4. ASSUME NEW s \in InFlight, Dist(h, ctl_sq_head) <= Dist(h, s)
      PROVE  sq[s].cid # d.cid
  <2>1. s \in Slots /\ h \in Slots /\ ctl_sq_head \in Slots /\ io_sq_tail \in Slots
    BY DEF InFlight, TypeOK
  <2>2. Dist(h, s) < Dist(h, io_sq_tail)
    BY DEF InFlight, Between
  <2>3. Dist(ctl_sq_head, s) = Dist(h, s) - Dist(h, ctl_sq_head)
    BY <1>4, <2>1, DistShift
  <2>4. Dist(ctl_sq_head, io_sq_tail) = Dist(h, io_sq_tail) - Dist(h, ctl_sq_head)
    BY <2>1, DistShift DEF SqInv
  <2>5. /\ Dist(h, s) \in Nat /\ Dist(h, ctl_sq_head) \in Nat
        /\ Dist(h, io_sq_tail) \in Nat
    BY <2>1, DistNat
  <2>6. s \in PendingSlots
    BY <2>1, <2>2, <2>3, <2>4, <2>5 DEF PendingSlots, Between, SqInv
  <2> QED
    BY <2>6 DEF CidInv
<1>5. PostedSlots' \subseteq Slots
  BY DEF PostedSlots
<1>6. \A i \in PostedSlots', s \in InFlight :
        Dist(h, cq'[i].sqhd) <= Dist(h, s) => sq[s].cid # cq'[i].cid
  BY <1>1, <1>2, <1>4, <1>5 DEF RoomInv
<1> QED
  BY <1>1, <1>3, <1>6 DEF RoomInv, Dist

\* Every step keeps the commands in use in the table.
LEMMA NextRoomInv ==
  TypeOK /\ CqInv /\ SqInv /\ CidInv /\ RoomInv /\ [Next]_vars => RoomInv'
<1> SUFFICES ASSUME TypeOK, CqInv, SqInv, CidInv, RoomInv, [Next]_vars PROVE RoomInv'
  OBVIOUS
<1>1. ASSUME NEW u \in IoU, QueueBusy(u) PROVE RoomInv'
  BY <1>1, RoomInvStable DEF roomVars, QueueBusy, hostVars, pollVars, memVars, ctlVars
<1>2. ASSUME NEW u \in IoU, NEW r \in Requests, QueueRejected(u, r) PROVE RoomInv'
  BY <1>2, RoomInvStable DEF roomVars, QueueRejected, hostVars, pollVars, memVars, ctlVars
<1>3. ASSUME NEW u \in IoU, NEW r \in Requests, Queue(u, r) PROVE RoomInv'
  BY <1>3, QueueRoomInv
<1>4. ASSUME NEW call \in Calls, GetEvents(call) PROVE RoomInv'
  <2>1. head' = head
    <3>1. pc = "idle" /\ head' = ic_cq_head
      BY <1>4 DEF GetEvents
    <3> QED
      BY <3>1 DEF CqInv
  <2> QED
    BY <1>4, <2>1, RoomInvStable DEF roomVars, GetEvents, memVars, ctlVars
<1>5. CASE PollEntry
  BY <1>5, PollEntryRoomInv
<1>6. CASE PollExit
  BY <1>6, RoomInvStable DEF roomVars, PollExit, hostVars, memVars, ctlVars
<1>7. CASE PollReturn \/ PollAgain
  BY <1>7, RoomInvStable DEF roomVars, PollReturn, PollAgain, PollEnd, memVars, ctlVars
<1>8. CASE Event
  BY <1>8, RoomInvStable DEF roomVars, Event, hostVars, memVars, ctlVars
<1>9. CASE EventsDone
  BY <1>9, RoomInvStable DEF roomVars, EventsDone, hostVars, memVars, ctlVars
<1>10. CASE CtlFetch
  BY <1>10, RoomInvStable DEF roomVars, CtlFetch, hostVars, pollVars, memVars
<1>11. ASSUME NEW c \in executing, NEW ok \in BOOLEAN, CtlComplete(c, ok) PROVE RoomInv'
  BY <1>11, CtlCompleteRoomInv
<1>12. CASE UNCHANGED vars
  BY <1>12, RoomInvStable DEF roomVars, vars, hostVars, pollVars, memVars, ctlVars
<1> QED
  BY <1>1, <1>2, <1>3, <1>4, <1>5, <1>6, <1>7, <1>8, <1>9, <1>10, <1>11, <1>12
     DEF Next, Exited

-----------------------------------------------------------------------------
(* The inductive invariant, with the owners *)

OwnedInv == IInv /\ OwnInv /\ BatchInv /\ RoomInv

\* Every io_u fio has queued is in one place: the table or the events.
THEOREM Owned == Spec => []OwnedInv
<1>1. Init => OwnInv /\ BatchInv /\ RoomInv
  <2>1. Init => BatchInv
    BY DEF Init, BatchInv, Dist
  <2>2. Init => RoomInv
    BY DepthFacts DEF Init, RoomInv, InFlight, PostedSlots, Between, Dist, Slots
  <2> QED
    BY <2>1, <2>2, InitOwnInv
<1>2. IInv /\ OwnInv /\ BatchInv /\ RoomInv /\ [Next]_vars
        => (OwnInv /\ BatchInv /\ RoomInv)'
  BY NextOwnInv, NextBatchInv, NextRoomInv DEF IInv
<1> QED
  BY <1>1, <1>2, Inductive, PTL DEF Spec, OwnedInv

-----------------------------------------------------------------------------
(* Room in the rings *)

\* There is one slot more than fio has io_us.
LEMMA SlotCount == IsFiniteSet(Slots) /\ Cardinality(Slots) = Cardinality(IoU) + 1
<1>1. 0 \in Int /\ QDepth - 1 \in Int /\ QDepth - 1 >= 0
  BY DepthFacts
<1>2. IsFiniteSet(Slots) /\ Cardinality(Slots) = QDepth - 1 - 0 + 1
  BY <1>1, FS_Interval DEF Slots
<1> QED
  BY <1>2, DepthFacts DEF IoDepth

\* A full stretch of the ring leaves out only the slot before its start.
LEMMA FullStretch ==
  ASSUME NEW a \in Slots, NEW b \in Slots, NEW s \in Slots, Advance(b) = a, s # b
  PROVE  Between(a, s, b)
BY DepthFacts DEF Between, Dist, Slots, Advance

\* If the SQ looked full to nvme_queue, every slot but one would hold a command
\* of an io_u of its own, and fio would own none.
THEOREM SqRoom == Spec => []SqHasRoom
<1>1. ASSUME OwnedInv PROVE SqHasRoom
  <2> SUFFICES ASSUME Queued # IoU, Advance(io_sq_tail) = io_sq_head PROVE FALSE
    BY DEF SqHasRoom, next_sq_tail
  <2> DEFINE Used == Slots \ {io_sq_tail}
             f == [s \in Used |-> sq[s].u]
  <2> USE <1>1 DEF OwnedInv, IInv
  <2>1. io_sq_tail \in Slots /\ io_sq_head \in Slots
    BY DEF TypeOK
  <2>2. Used \subseteq InFlight
    BY <2>1, FullStretch DEF InFlight
  <2>3. \A s \in Used : /\ sq[s].cid \in Tracked /\ cmd_io_u[sq[s].cid] = sq[s].u
                        /\ sq[s].u \in Queued
    <3> SUFFICES ASSUME NEW s \in Used
                 PROVE  /\ sq[s].cid \in Tracked /\ cmd_io_u[sq[s].cid] = sq[s].u
                        /\ sq[s].u \in Queued
      OBVIOUS
    <3>1. sq[s].cid \in Cids /\ sq[s].u \in IoU
      BY DEF TypeOK, Command
    <3>2. cmd_io_u[sq[s].cid] = sq[s].u
      BY <2>2 DEF RoomInv
    <3>3. sq[s].cid \in Tracked
      BY <3>1, <3>2, IoUAssumption DEF Tracked
    <3> QED
      BY <3>1, <3>2, <3>3 DEF OwnInv, Queued
  <2>4. \A s, t \in Used : s # t => sq[s].u # sq[t].u
    <3> SUFFICES ASSUME NEW s \in Used, NEW t \in Used, s # t PROVE sq[s].u # sq[t].u
      OBVIOUS
    <3>1. sq[s].cid # sq[t].cid
      BY <2>2 DEF RoomInv
    <3> QED
      BY <2>3, <3>1 DEF OwnInv
  <2>5. f \in Injection(Used, Queued)
    BY <2>3, <2>4 DEF Injection, IsInjective
  <2>6. /\ IsFiniteSet(Queued) /\ Cardinality(Queued) <= Cardinality(IoU)
        /\ Cardinality(Queued) # Cardinality(IoU)
    BY IoUAssumption, FS_Subset DEF Queued
  <2>7. Cardinality(Used) <= Cardinality(Queued)
    BY <2>5, <2>6, FS_Injection
  <2>8. Cardinality(Used) = Cardinality(IoU)
    <3>1. Cardinality(Used) = Cardinality(Slots) - 1
      BY <2>1, SlotCount, FS_RemoveElement
    <3> QED
      BY <3>1, SlotCount, IoUAssumption, FS_CardinalityType
  <2> QED
    BY <2>6, <2>7, <2>8, IoUAssumption, FS_CardinalityType
<1> QED
  BY <1>1, Owned, PTL

\* If the CQ were full while a command executes, the io_us of the completions
\* in it, those poll_cq has taken since it last rang the doorbell included, and
\* that of the command would be one more than fio has.
THEOREM CqRoom == Spec => []CqNeverFull
<1>1. ASSUME OwnedInv PROVE CqNeverFull
  <2> SUFFICES ASSUME NEW c \in executing, Advance(ctl_cq_tail) = cq_head_db PROVE FALSE
    BY DEF CqNeverFull, CqFull
  <2> USE <1>1 DEF OwnedInv, IInv
  <2> DEFINE Place(i) == nr_events + 1 + Dist(cq_head_db, i)
             Batch == Slots \ (PostedSlots \cup {ctl_cq_tail})
             f == [i \in Slots |-> IF i = ctl_cq_tail THEN c.u
                                   ELSE IF i \in PostedSlots THEN cmd_io_u[cq[i].cid]
                                   ELSE events[Place(i)]]
  <2>1. /\ ctl_cq_tail \in Slots /\ cq_head_db \in Slots /\ head \in Slots
        /\ nr_events \in Nat /\ count \in Nat /\ Len(events) = nr_events + count
    BY DEF TypeOK
  <2>2. /\ c.cid \in Tracked /\ cmd_io_u[c.cid] = c.u
    <3>1. c.cid \in Cids /\ c.u \in IoU
      BY DEF TypeOK, Command
    <3>2. cmd_io_u[c.cid] = c.u
      BY DEF CidInv
    <3> QED
      BY <3>1, <3>2, IoUAssumption DEF Tracked
  <2>3. \A i \in PostedSlots : cq[i].cid \in Tracked /\ cq[i].cid # c.cid /\ i # ctl_cq_tail
    <3> SUFFICES ASSUME NEW i \in PostedSlots
                 PROVE  cq[i].cid \in Tracked /\ cq[i].cid # c.cid /\ i # ctl_cq_tail
      OBVIOUS
    <3>1. i \in Slots /\ cq[i].cid \in Cids
      BY OwnTypes DEF PostedSlots
    <3>2. cmd_io_u[cq[i].cid] # NoIoU /\ cq[i].cid # c.cid
      BY DEF CidInv
    <3>3. i # ctl_cq_tail
      BY <2>1, DistNat DEF PostedSlots, Between
    <3> QED
      BY <3>1, <3>2, <3>3 DEF Tracked
  <2>4. \A i \in Batch : /\ Dist(cq_head_db, i) < count
                         /\ Dist(cq_head_db, i) \in Nat
    BY <2>1, DepthFacts DEF BatchInv, PostedSlots, Between, Dist, Slots, Advance
  <2>5. \A i \in Batch : Place(i) \in Unreaped
    <3> SUFFICES ASSUME NEW i \in Batch PROVE Place(i) \in Unreaped
      OBVIOUS
    <3>1. count # 0
      BY <2>1, <2>4
    <3>2. reaped = 0
      BY <3>1 DEF BatchInv, OwnInv, TypeOK
    <3> QED
      BY <2>1, <2>4, <3>2 DEF Unreaped
  <2>6. Batch # {} => pc # "idle"
    BY <2>1, <2>4 DEF BatchInv
  <2>7. \A i, j \in Batch : i # j => Place(i) # Place(j)
    BY <2>1, DepthFacts DEF Dist, Slots
  <2> HIDE DEF Place, Batch
  <2>8. f \in [Slots -> IoU]
    <3> SUFFICES ASSUME NEW i \in Slots PROVE f[i] \in IoU
      OBVIOUS
    <3>1. CASE i = ctl_cq_tail
      BY <2>2, <3>1, OwnTypes
    <3>2. CASE i \in PostedSlots
      BY <2>3, <3>2, OwnTypes
    <3>3. CASE i \in Batch
      <4>1. events[Place(i)] \in IoU
        BY <2>5, <3>3, OwnTypes DEF Unreaped
      <4> QED
        BY <3>3, <4>1 DEF Batch
    <3> QED
      BY <3>1, <3>2, <3>3 DEF Batch
  <2>9. PICK x, y \in Slots : x # y /\ f[x] = f[y]
    <3>1. Cardinality(IoU) < Cardinality(Slots)
      BY SlotCount, IoUAssumption, FS_CardinalityType
    <3> HIDE DEF f
    <3> QED
      BY <2>8, <3>1, SlotCount, IoUAssumption, FS_PigeonHole, Zenon
  <2> DEFINE Id(i) == IF i = ctl_cq_tail THEN c.cid ELSE cq[i].cid
  <2>10. \A i \in Slots \ Batch : Id(i) \in Tracked /\ f[i] = cmd_io_u[Id(i)]
    BY <2>2, <2>3 DEF Batch
  <2>11. \A i, j \in Slots \ Batch : i # j => Id(i) # Id(j)
    BY <2>3 DEF Batch, CidInv
  <2>12. \A i \in Batch : f[i] = events[Place(i)] /\ pc # "idle" /\ i \in Slots
    BY <2>6 DEF Batch
  <2> HIDE DEF f, Id
  <2>13. CASE x \notin Batch /\ y \notin Batch
    BY <2>9, <2>10, <2>11, <2>13 DEF OwnInv
  <2>14. CASE x \in Batch /\ y \in Batch
    BY <2>5, <2>7, <2>9, <2>12, <2>14 DEF OwnInv
  <2>15. CASE x \in Batch /\ y \notin Batch
    BY <2>5, <2>9, <2>10, <2>12, <2>15 DEF OwnInv
  <2>16. CASE x \notin Batch /\ y \in Batch
    BY <2>5, <2>9, <2>10, <2>12, <2>16 DEF OwnInv
  <2> QED
    BY <2>13, <2>14, <2>15, <2>16
<1> QED
  BY <1>1, Owned, PTL

-----------------------------------------------------------------------------
(***************************************************************************)
(* The contract.  ContractStatus depends on three sets: the io_us whose    *)
(* command the device still has, those fio has queued, and those whose     *)
(* completion carries an error.                                            *)
(***************************************************************************)
AtDevice == {c.u : c \in Outstanding}

Posted == {cmd_io_u[cq[i].cid] : i \in PostedSlots}

StatusOf(u) ==
  IF u \in AtDevice
    THEN IF u \in Queued THEN "device" ELSE "corrupt"
    ELSE IF u \in Queued THEN IF u \in FailedIoU THEN "failed" ELSE "finished"
                         ELSE "fio"

\* The refinement mapping, io_u by io_u.
LEMMA StatusAt == ContractStatus = [u \in IoU |-> StatusOf(u)]
BY DEF ContractStatus, StatusOf, AtDevice, Queued

\* Steps that leave the three sets alone leave the contract's state alone.
LEMMA StatusStays ==
  ASSUME UNCHANGED <<AtDevice, Queued, FailedIoU>>
  PROVE  UNCHANGED ContractStatus
BY DEF ContractStatus, AtDevice, Queued

\* Steps that change them for one io_u move that io_u alone.
LEMMA StatusMoves ==
  ASSUME NEW u \in IoU,
         \A v \in IoU \ {u} : /\ v \in AtDevice' <=> v \in AtDevice
                              /\ v \in Queued' <=> v \in Queued
                              /\ v \in FailedIoU' <=> v \in FailedIoU
  PROVE  ContractStatus' = [ContractStatus EXCEPT ![u] = StatusOf(u)']
<1>1. ContractStatus' = [v \in IoU |-> StatusOf(v)']
  BY DEF ContractStatus, StatusOf, AtDevice, Queued
<1>2. \A v \in IoU \ {u} : StatusOf(v)' = StatusOf(v)
  BY DEF StatusOf
<1> QED
  BY <1>1, <1>2, StatusAt

\* The device holds the io_us of the waiting and of the executing commands.
LEMMA AtDeviceIs ==
  AtDevice = {sq[s].u : s \in PendingSlots} \cup {c.u : c \in executing}
BY DEF AtDevice, Outstanding

\* Under the invariant, an io_u the device has or has answered is queued, and
\* not among the events; and it is not with the device and answered at once.
LEMMA Apart ==
  ASSUME OwnedInv
  PROVE  /\ AtDevice \subseteq Queued /\ Posted \subseteq Queued
         /\ AtDevice \cap Posted = {}
         /\ FailedIoU \subseteq Posted
         /\ pc # "idle" => \A k \in Unreaped : events[k] \notin AtDevice \cup Posted
<1> USE DEF OwnedInv, IInv
<1>1. /\ \A s \in Slots : sq[s].cid \in Cids /\ sq[s].u \in IoU
      /\ \A c \in executing : c.cid \in Cids /\ c.u \in IoU
      /\ \A i \in Slots : cq[i].cid \in Cids
  BY DEF TypeOK, Command, Completion
<1>2. PendingSlots \subseteq Slots /\ PostedSlots \subseteq Slots
  BY DEF PendingSlots, PostedSlots
<1>3. /\ \A s \in PendingSlots : sq[s].cid \in Tracked /\ cmd_io_u[sq[s].cid] = sq[s].u
      /\ \A c \in executing : c.cid \in Tracked /\ cmd_io_u[c.cid] = c.u
      /\ \A i \in PostedSlots : cq[i].cid \in Tracked
  BY <1>1, <1>2, IoUAssumption, ZenonT(30) DEF CidInv, Tracked
<1>4. \A c \in Tracked : cmd_io_u[c] \in Queued
  BY OwnTypes DEF OwnInv, Queued
<1>5. AtDevice \subseteq Queued /\ Posted \subseteq Queued
  BY <1>3, <1>4, AtDeviceIs DEF Posted
<1>6. AtDevice \cap Posted = {}
  <2>1. ASSUME NEW s \in PendingSlots, NEW i \in PostedSlots
        PROVE  sq[s].u # cmd_io_u[cq[i].cid]
    BY <1>3 DEF CidInv, OwnInv
  <2>2. ASSUME NEW c \in executing, NEW i \in PostedSlots
        PROVE  c.u # cmd_io_u[cq[i].cid]
    BY <1>3 DEF CidInv, OwnInv
  <2> QED
    BY <2>1, <2>2, AtDeviceIs DEF Posted
<1>7. FailedIoU \subseteq Posted
  BY DEF FailedIoU, Posted
<1>8. ASSUME pc # "idle", NEW k \in Unreaped
      PROVE  events[k] \notin AtDevice \cup Posted
  <2>1. \A c \in Tracked : events[k] # cmd_io_u[c]
    BY <1>8 DEF OwnInv
  <2> QED
    BY <1>3, <2>1, AtDeviceIs DEF Posted
<1> QED
  BY <1>5, <1>6, <1>7, <1>8

\* The io_us that failed, from the posted slots.
LEMMA FailedIs ==
  \A v : v \in FailedIoU <=> \E i \in PostedSlots : ~cq[i].ok /\ v = cmd_io_u[cq[i].cid]
BY DEF FailedIoU

\* nvme_queue submits the io_u.
LEMMA QueueStep ==
  ASSUME OwnedInv, NEW u \in IoU, NEW r \in Requests, Queue(u, r)
  PROVE  Contract!Submit(u)
<1> USE DEF OwnedInv, IInv
<1>1. /\ sq'[io_sq_tail].u = u
      /\ \A s \in Slots : s # io_sq_tail => sq'[s] = sq[s]
      /\ UNCHANGED <<executing, head, ctl_cq_tail, cq>>
      /\ pc = "idle" /\ pc' = "idle" /\ fio_u[u] # "queued"
      /\ fio_u' = [fio_u EXCEPT ![u] = "queued"]
  BY DEF Queue, SubmitCommand, Offered, pollVars, ctlVars, TypeOK
<1>2. /\ cmd_io_u[next_cid] = NoIoU
      /\ \A c \in Cids : c # next_cid => cmd_io_u'[c] = cmd_io_u[c]
  BY NextCidInCids DEF Queue, Busy, TypeOK
<1>3. /\ io_sq_tail \notin PendingSlots /\ io_sq_tail \in Slots
      /\ \A s \in Slots : s \in PendingSlots' <=> s \in PendingSlots \/ s = io_sq_tail
  BY QueuePending DEF TypeOK
<1>4. PendingSlots \subseteq Slots /\ PendingSlots' \subseteq Slots /\ PostedSlots \subseteq Slots
  BY DEF PendingSlots, PostedSlots
<1>5. \A v : v \in AtDevice' <=> v \in AtDevice \/ v = u
  <2>1. AtDevice' = {sq'[s].u : s \in PendingSlots'} \cup {c.u : c \in executing'}
    BY DEF AtDevice, Outstanding
  <2> QED
    BY <1>1, <1>3, <1>4, <2>1, AtDeviceIs
<1>6. FailedIoU' = FailedIoU
  <2>1. PostedSlots' = PostedSlots
    BY <1>1, ZenonT(30) DEF PostedSlots, Between, Dist
  <2>2. \A i \in PostedSlots : cmd_io_u'[cq[i].cid] = cmd_io_u[cq[i].cid]
    BY <1>2, <1>4 DEF CidInv, TypeOK, Completion
  <2> QED
    BY <1>1, <2>1, <2>2 DEF FailedIoU
<1>7. /\ u \notin Queued /\ u \in Queued'
      /\ \A v \in IoU \ {u} : v \in Queued' <=> v \in Queued
  BY <1>1 DEF Queued, TypeOK
<1>8. u \notin AtDevice
  BY <1>7, Apart
<1>9. StatusOf(u) = "fio" /\ StatusOf(u)' = "device"
  BY <1>5, <1>7, <1>8 DEF StatusOf
<1>10. ContractStatus' = [ContractStatus EXCEPT ![u] = "device"]
  BY <1>5, <1>6, <1>7, <1>9, StatusMoves
<1>11. ContractStatus[u] = "fio"
  BY <1>9, StatusAt
<1> QED
  BY <1>1, <1>10, <1>11, ZenonT(30) DEF Contract!Submit, Contract!Move

\* poll_cq takes a completion without error: no io_u changes hands yet.
LEMMA PollEntryStep ==
  ASSUME OwnedInv, PollEntry
  PROVE  UNCHANGED Contract!contractVars
<1> USE DEF OwnedInv, IInv
<1> DEFINE k == cq[head].cid
<1>1. /\ \A c \in Cids : c # k => cmd_io_u'[c] = cmd_io_u[c]
      /\ UNCHANGED <<sq, cq, executing, ctl_sq_head, sq_tail_db, fio_u, pc>>
      /\ cq[head].ok
  BY DEF PollEntry, TableWithout, memVars, dbVars, ctlVars, TypeOK
<1>2. /\ head \in PostedSlots
      /\ \A i \in Slots : i \in PostedSlots' <=> i \in PostedSlots /\ i # head
  BY PollEntryPosted
<1>3. PostedSlots \subseteq Slots /\ PostedSlots' \subseteq Slots
  BY DEF PostedSlots
<1>4. \A i \in PostedSlots : i # head => cmd_io_u'[cq[i].cid] = cmd_io_u[cq[i].cid]
  BY <1>1, <1>2, <1>3, OwnTypes, ZenonT(30) DEF CidInv
<1> HIDE DEF k
<1>5. \A v : v \in FailedIoU' <=> v \in FailedIoU
  <2>1. \A v : v \in FailedIoU' <=>
          \E i \in PostedSlots' : ~cq'[i].ok /\ v = cmd_io_u'[cq'[i].cid]
    BY DEF FailedIoU
  <2> QED
    BY <1>1, <1>2, <1>3, <1>4, <2>1, FailedIs
<1>6. FailedIoU' = FailedIoU
  BY <1>5
<1>7. AtDevice' = AtDevice /\ Queued' = Queued
  BY <1>1 DEF AtDevice, Outstanding, PendingSlots, Between, Dist, Queued
<1> QED
  BY <1>1, <1>6, <1>7, StatusStays DEF Contract!contractVars

\* The process ends at a completion that carries an error.
LEMMA PollExitStep ==
  ASSUME OwnedInv, PollExit
  PROVE  Contract!Stop
<1> USE DEF OwnedInv, IInv
<1> DEFINE u == cmd_io_u[cq[head].cid]
<1>1. /\ pc = "poll" /\ pc' = "exit" /\ cq[head].p = phase_tag
      /\ UNCHANGED <<sq, cq, executing, ctl_sq_head, sq_tail_db, fio_u, head, ctl_cq_tail,
                     cmd_io_u>>
  BY DEF PollExit, EntryReady, hostVars, memVars, dbVars, ctlVars
<1>2. head \in PostedSlots
  BY <1>1, ReadyPosted
<1>3. ~cq[head].ok
  BY <1>2 DEF PollExit, CidInv
<1>4. u \in FailedIoU /\ u \in Posted
  BY <1>2, <1>3 DEF FailedIoU, Posted
<1>5. u \in IoU /\ StatusOf(u) = "failed"
  BY <1>4, Apart DEF StatusOf, Queued
<1>6. UNCHANGED <<AtDevice, Queued, FailedIoU>>
  BY <1>1 DEF AtDevice, Outstanding, PendingSlots, PostedSlots, Between, Dist, Queued, FailedIoU
<1> HIDE DEF u
<1>7. ContractStatus[u] = "failed" /\ UNCHANGED ContractStatus
  BY <1>5, <1>6, StatusAt, StatusStays
<1> QED
  BY <1>1, <1>5, <1>7 DEF Contract!Stop

\* nvme_event delivers a finished io_u.
LEMMA EventStep ==
  ASSUME OwnedInv, Event
  PROVE  \E u \in IoU : Contract!Deliver(u)
<1> USE DEF OwnedInv, IInv
<1>1. /\ pc = "reap" /\ pc' = "reap" /\ reaped < nr_events
      /\ UNCHANGED <<sq, cq, executing, ctl_sq_head, sq_tail_db, head, ctl_cq_tail, cmd_io_u>>
      /\ fio_u' = [fio_u EXCEPT ![events[reaped + 1]] = "free"]
  BY DEF Event, EventAt, hostVars, memVars, dbVars, ctlVars
<1>2. reaped + 1 \in Unreaped
  BY <1>1, OwnTypes DEF Unreaped
<1>3. PICK u \in Queued : u = events[reaped + 1]
  BY <1>1, <1>2, OwnTypes DEF OwnInv, Queued, Unreaped
<1>4. u \in IoU /\ u \notin AtDevice /\ u \notin FailedIoU
  BY <1>1, <1>2, <1>3, Apart DEF Queued
<1>5. AtDevice' = AtDevice /\ FailedIoU' = FailedIoU
  BY <1>1 DEF AtDevice, Outstanding, PendingSlots, PostedSlots, Between, Dist, FailedIoU
<1>6. /\ u \notin Queued'
      /\ \A v \in IoU \ {u} : v \in Queued' <=> v \in Queued
  BY <1>1, <1>3 DEF Queued, TypeOK
<1>7. StatusOf(u) = "finished" /\ StatusOf(u)' = "fio"
  BY <1>3, <1>4, <1>5, <1>6 DEF StatusOf
<1>8. ContractStatus' = [ContractStatus EXCEPT ![u] = "fio"]
  BY <1>4, <1>5, <1>6, <1>7, StatusMoves
<1>9. ContractStatus[u] = "finished"
  BY <1>4, <1>7, StatusAt
<1>10. Contract!Deliver(u)
  BY <1>1, <1>8, <1>9 DEF Contract!Deliver, Contract!Move
<1> QED
  BY <1>4, <1>10

\* A command the controller fetches stays with the device.
LEMMA CtlFetchStep ==
  ASSUME OwnedInv, CtlFetch
  PROVE  UNCHANGED Contract!contractVars
<1> USE DEF OwnedInv, IInv
<1> DEFINE h == ctl_sq_head
<1>1. /\ ctl_sq_head' = Advance(h) /\ h # sq_tail_db
      /\ executing' = executing \cup {sq[h]}
      /\ UNCHANGED <<sq, cq, cmd_io_u, sq_tail_db, head, ctl_cq_tail, fio_u, pc>>
  BY DEF CtlFetch, hostVars, pollVars, memVars, dbVars
<1>2. h \in Slots /\ sq_tail_db \in Slots
  BY DEF TypeOK
<1>3. h \in PendingSlots
  BY <1>1, <1>2, DistNat DEF PendingSlots, Between
<1>4. \A s \in Slots : s \in PendingSlots' <=> s \in PendingSlots /\ s # h
  <2> SUFFICES ASSUME NEW s \in Slots
               PROVE  s \in PendingSlots' <=> s \in PendingSlots /\ s # h
    OBVIOUS
  <2>1. Between(Advance(h), s, sq_tail_db) <=> Between(h, s, sq_tail_db) /\ s # h
    BY <1>1, <1>2, BetweenAdvanceStart
  <2> QED
    BY <1>1, <2>1 DEF PendingSlots, Between, Dist
<1>5. PendingSlots \subseteq Slots /\ PendingSlots' \subseteq Slots
  BY DEF PendingSlots
<1> HIDE DEF h
<1>6. AtDevice' = AtDevice
  <2>1. AtDevice' = {sq'[s].u : s \in PendingSlots'} \cup {c.u : c \in executing'}
    BY DEF AtDevice, Outstanding
  <2> QED
    BY <1>1, <1>3, <1>4, <1>5, <2>1, AtDeviceIs
<1>7. Queued' = Queued /\ FailedIoU' = FailedIoU
  BY <1>1 DEF Queued, FailedIoU, PostedSlots, Between, Dist
<1> QED
  BY <1>1, <1>6, <1>7, StatusStays DEF Contract!contractVars

\* A completion finishes the io_u of its command, with or without error.
LEMMA CtlCompleteStep ==
  ASSUME OwnedInv, NEW d \in executing, NEW ok \in BOOLEAN, CtlComplete(d, ok)
  PROVE  d.u \in IoU /\ Contract!Finish(d.u)
<1> USE DEF OwnedInv, IInv
<1> DEFINE u == d.u
           q == ctl_cq_tail
<1>1. /\ cq'[q].cid = d.cid /\ cq'[q].ok = ok
      /\ \A i \in Slots : i # q => cq'[i] = cq[i]
      /\ executing' = executing \ {d}
      /\ UNCHANGED <<sq, cmd_io_u, ctl_sq_head, sq_tail_db, fio_u, pc>>
  BY DEF CtlComplete, hostVars, pollVars, dbVars, TypeOK
<1>2. /\ q \notin PostedSlots /\ q \in Slots
      /\ \A i \in Slots : i \in PostedSlots' <=> i \in PostedSlots \/ i = q
  BY CtlCompletePosted DEF TypeOK
<1>3. PostedSlots \subseteq Slots /\ PostedSlots' \subseteq Slots
  BY ZenonT(30) DEF PostedSlots
<1>4. cmd_io_u[d.cid] = u /\ d.cid \in Cids /\ u \in IoU
  BY DEF CidInv, TypeOK, Command
<1>5. d.cid \in Tracked
  BY <1>4, IoUAssumption, Zenon DEF Tracked
<1>6. /\ \A s \in PendingSlots : sq[s].u # u
      /\ \A c \in executing : c # d => c.u # u
  <2>1. /\ \A s \in PendingSlots : sq[s].cid \in Tracked /\ cmd_io_u[sq[s].cid] = sq[s].u
        /\ \A c \in executing : c.cid \in Tracked /\ cmd_io_u[c.cid] = c.u
    BY IoUAssumption DEF CidInv, Tracked, PendingSlots, TypeOK, Command
  <2>2. /\ \A s \in PendingSlots : sq[s].cid # d.cid
        /\ \A c \in executing : c # d => c.cid # d.cid
    BY Zenon DEF CidInv
  <2> QED
    BY <1>4, <1>5, <2>1, <2>2, Zenon DEF OwnInv
<1>7. u \in AtDevice /\ u \in Queued /\ u \notin FailedIoU
  BY AtDeviceIs, Apart
<1> HIDE DEF u, q
<1>8. \A v : v \in AtDevice' <=> v \in AtDevice /\ v # u
  <2>1. AtDevice' = {sq[s].u : s \in PendingSlots} \cup {c.u : c \in executing'}
    BY <1>1 DEF AtDevice, Outstanding, PendingSlots, Between, Dist
  <2>2. d.u = u
    BY ZenonT(30) DEF u
  <2> QED
    BY <1>1, <1>6, <2>1, <2>2, AtDeviceIs
<1>9. \A v : v \in FailedIoU' <=> v \in FailedIoU \/ (~ok /\ v = u)
  <2>1. \A v : v \in FailedIoU' <=>
          \E i \in PostedSlots' : ~cq'[i].ok /\ v = cmd_io_u'[cq'[i].cid]
    BY DEF FailedIoU
  <2> QED
    BY <1>1, <1>2, <1>3, <1>4, <2>1, FailedIs
<1>10. Queued' = Queued
  BY <1>1 DEF Queued
<1>11. StatusOf(u) = "device" /\ StatusOf(u)' = IF ok THEN "finished" ELSE "failed"
  BY <1>7, <1>8, <1>9, <1>10 DEF StatusOf
<1>12. ContractStatus' = [ContractStatus EXCEPT ![u] = IF ok THEN "finished" ELSE "failed"]
  BY <1>4, <1>8, <1>9, <1>10, <1>11, StatusMoves, ZenonT(30)
<1>13. ContractStatus[u] = "device"
  BY <1>4, <1>11, StatusAt
<1>14. Contract!Finish(u)
  BY <1>1, <1>12, <1>13, Zenon DEF Contract!Finish, Contract!Move
<1> QED
  BY <1>4, <1>14, ZenonT(30) DEF u

\* A refused io_u stays with fio.
LEMMA RefusedStep ==
  ASSUME OwnedInv, NEW u \in IoU,
         QueueBusy(u) \/ \E r \in Requests : QueueRejected(u, r)
  PROVE  UNCHANGED Contract!contractVars
<1>1. /\ fio_u[u] # "queued" /\ fio_u' = [fio_u EXCEPT ![u] = fio_u'[u]]
      /\ fio_u'[u] # "queued"
      /\ UNCHANGED <<sq, cq, executing, ctl_sq_head, sq_tail_db, head, ctl_cq_tail, cmd_io_u, pc>>
  BY DEF QueueBusy, QueueRejected, Offered, hostVars, pollVars, memVars, dbVars, ctlVars,
         OwnedInv, IInv, TypeOK
<1>2. Queued' = Queued
  BY <1>1, Zenon DEF Queued, OwnedInv, IInv, TypeOK
<1>3. AtDevice' = AtDevice /\ FailedIoU' = FailedIoU
  BY <1>1, ZenonT(30) DEF AtDevice, Outstanding, PendingSlots, PostedSlots, Between, Dist, FailedIoU
<1> QED
  BY <1>1, <1>2, <1>3, StatusStays DEF Contract!contractVars

statusVars == <<sq, cq, executing, ctl_sq_head, sq_tail_db, head, ctl_cq_tail, cmd_io_u, fio_u>>

\* Every step of the queue pair is a step of the contract, or none.
LEMMA StepKeepsContract ==
  ASSUME OwnedInv, [Next]_vars
  PROVE  [Contract!ContractNext]_(Contract!contractVars)
<1>0. ASSUME UNCHANGED statusVars, pc # "exit", pc' # "exit"
      PROVE  UNCHANGED Contract!contractVars
  <2>1. UNCHANGED <<AtDevice, Queued, FailedIoU>>
    BY <1>0, Zenon DEF statusVars, AtDevice, Outstanding, PendingSlots, PostedSlots, Between, Dist,
                Queued, FailedIoU
  <2> QED
    BY <1>0, <2>1, StatusStays, Zenon DEF Contract!contractVars
<1>1. ASSUME NEW u \in IoU, QueueBusy(u) PROVE UNCHANGED Contract!contractVars
  BY <1>1, RefusedStep
<1>2. ASSUME NEW u \in IoU, NEW r \in Requests, QueueRejected(u, r)
      PROVE  UNCHANGED Contract!contractVars
  BY <1>2, RefusedStep
<1>3. ASSUME NEW u \in IoU, NEW r \in Requests, Queue(u, r) PROVE Contract!ContractNext
  BY <1>3, QueueStep DEF Contract!ContractNext
<1>4. ASSUME NEW call \in Calls, GetEvents(call) PROVE UNCHANGED Contract!contractVars
  <2>1. pc = "idle" /\ pc' = "poll" /\ head' = ic_cq_head
    BY <1>4 DEF GetEvents
  <2>2. head' = head
    BY <2>1 DEF OwnedInv, IInv, CqInv
  <2> QED
    BY <1>0, <1>4, <2>1, <2>2 DEF statusVars, GetEvents, memVars, dbVars, ctlVars
<1>5. CASE PollEntry
  BY <1>5, PollEntryStep
<1>6. CASE PollExit
  BY <1>6, PollExitStep DEF Contract!ContractNext
<1>7. CASE PollReturn \/ PollAgain
  <2>1. pc = "poll" /\ pc' # "exit"
    BY <1>7 DEF PollReturn, PollAgain, PollEnd
  <2>2. UNCHANGED statusVars
    BY <1>7 DEF statusVars, PollReturn, PollAgain, PollEnd, memVars, ctlVars
  <2> QED
    BY <1>0, <2>1, <2>2
<1>8. CASE Event
  BY <1>8, EventStep DEF Contract!ContractNext
<1>9. CASE EventsDone
  <2>1. pc = "reap" /\ pc' = "idle" /\ UNCHANGED statusVars
    BY <1>9 DEF statusVars, EventsDone, hostVars, memVars, dbVars, ctlVars
  <2> QED
    BY <1>0, <2>1
<1>10. CASE CtlFetch
  BY <1>10, CtlFetchStep
<1>11. ASSUME NEW c \in executing, NEW ok \in BOOLEAN, CtlComplete(c, ok)
       PROVE  Contract!ContractNext
  BY <1>11, CtlCompleteStep DEF Contract!ContractNext
<1>12. CASE UNCHANGED vars
  <2>1. UNCHANGED statusVars /\ UNCHANGED pc
    BY <1>12 DEF statusVars, vars, hostVars, pollVars, memVars, dbVars, ctlVars
  <2>2. UNCHANGED <<AtDevice, Queued, FailedIoU>>
    BY <2>1 DEF statusVars, AtDevice, Outstanding, PendingSlots, PostedSlots, Between, Dist,
                Queued, FailedIoU
  <2> QED
    BY <2>1, <2>2, StatusStays DEF Contract!contractVars
<1> QED
  BY <1>1, <1>2, <1>3, <1>4, <1>5, <1>6, <1>7, <1>8, <1>9, <1>10, <1>11, <1>12
     DEF Next, Exited

\* The queue pair implements fio's contract, for every iodepth, every number of
\* identifiers and every workload: an accepted io_u goes to the device once and
\* comes back once, after the device is done with it, and only a failed I/O ends
\* the process.
THEOREM QueueKeepsContract == Spec => KeepsContract
<1>1. Init => Contract!ContractInit
  <2> SUFFICES ASSUME Init PROVE Contract!ContractInit
    OBVIOUS
  <2>1. PendingSlots = {} /\ executing = {} /\ Queued = {}
    BY DepthFacts DEF Init, PendingSlots, Between, Dist, Slots, Queued
  <2>2. AtDevice = {}
    BY <2>1, AtDeviceIs
  <2>3. \A u \in IoU : StatusOf(u) = "fio"
    BY <2>1, <2>2 DEF StatusOf
  <2> QED
    BY <2>3, StatusAt DEF Contract!ContractInit, Init
<1> QED
  BY <1>1, Owned, StepKeepsContract, PTL DEF Spec, KeepsContract, Contract!ContractSafety

=============================================================================
