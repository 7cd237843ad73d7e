---------------------------- MODULE IoQueueRings ----------------------------
(***************************************************************************)
(* The two rings of IoQueue, for every iodepth, every number of command    *)
(* identifiers and every workload: arithmetic on ring indices, type        *)
(* correctness, where the indices of host and controller lie with respect  *)
(* to each other, and what the phase tags say.                             *)
(***************************************************************************)
EXTENDS IoQueue, FiniteSetTheorems, TLAPS

-----------------------------------------------------------------------------
(* Rings *)

\* nvme_init asks for iodepth + 1 slots; the lower bound of two never applies.
LEMMA DepthFacts ==
  /\ IoDepth \in Nat /\ IoDepth >= 1
  /\ QDepth = IoDepth + 1
<1>1. IoDepth \in Nat
  BY IoUAssumption, FS_CardinalityType DEF IoDepth
<1>2. IoDepth # 0
  BY IoUAssumption, FS_EmptySet DEF IoDepth
<1> QED
  BY <1>1, <1>2 DEF QDepth

\* Ring indices stay below the depth.
LEMMA AdvanceInSlots ==
  ASSUME NEW i \in Slots
  PROVE  Advance(i) \in Slots
BY DepthFacts DEF Advance, Slots

\* Distances on the ring.
LEMMA DistNat ==
  ASSUME NEW a \in Slots, NEW b \in Slots
  PROVE  /\ Dist(a, b) \in Nat /\ Dist(a, b) < QDepth
         /\ Dist(a, b) = 0 <=> a = b
BY DepthFacts DEF Dist, Slots

\* The slot after b is one further away.
LEMMA DistAdvance ==
  ASSUME NEW a \in Slots, NEW b \in Slots, Advance(b) # a
  PROVE  Dist(a, Advance(b)) = Dist(a, b) + 1
BY DepthFacts DEF Dist, Slots, Advance

\* Measured from m instead of a, everything beyond m is nearer by the same.
LEMMA DistShift ==
  ASSUME NEW a \in Slots, NEW m \in Slots, NEW x \in Slots,
         Dist(a, m) <= Dist(a, x)
  PROVE  Dist(m, x) = Dist(a, x) - Dist(a, m)
BY DepthFacts DEF Dist, Slots

\* A stretch grows by the slot its end moves over ...
LEMMA BetweenAdvanceEnd ==
  ASSUME NEW a \in Slots, NEW b \in Slots, NEW s \in Slots, Advance(b) # a
  PROVE  Between(a, s, Advance(b)) <=> Between(a, s, b) \/ s = b
BY DepthFacts DEF Between, Dist, Slots, Advance

\* ... and shrinks by the slot its start moves over.
LEMMA BetweenAdvanceStart ==
  ASSUME NEW a \in Slots, NEW b \in Slots, NEW s \in Slots, a # b
  PROVE  Between(Advance(a), s, b) <=> Between(a, s, b) /\ s # a
BY DepthFacts DEF Between, Dist, Slots, Advance

\* The tags are the two values of a bit.
LEMMA NextPhaseBit ==
  ASSUME NEW i, NEW p \in {0, 1}
  PROVE  NextPhase(i, p) \in {0, 1}
BY DEF NextPhase, Flip

\* uint16_t identifiers wrap around.
LEMMA NextCidInCids ==
  ASSUME io_cmd_id \in Cids
  PROVE  next_cid \in Cids
BY CidCountAssumption DEF next_cid, Cids

-----------------------------------------------------------------------------
(* Type correctness *)

\* The state create_io_queue_pair leaves behind is well-typed.
LEMMA InitTypeOK == Init => TypeOK
<1> SUFFICES ASSUME Init PROVE TypeOK
  OBVIOUS
<1>1. 0 \in Slots /\ 0 \in Cids /\ NoCall \in Call
  BY DepthFacts, CidCountAssumption DEF Slots, Cids, NoCall, Call
<1>2. ZeroedCommand \in Command
  <2>1. (CHOOSE u \in IoU : TRUE) \in IoU
    BY IoUAssumption
  <2> QED
    BY <1>1, <2>1 DEF ZeroedCommand, Command
<1>3. ZeroedCompletion \in Completion
  BY <1>1 DEF ZeroedCompletion, Completion
<1>4. Len(events) = 0 /\ events \in Seq(IoU)
  BY DEF Init
<1> QED
  BY <1>1, <1>2, <1>3, <1>4, DepthFacts DEF Init, TypeOK

\* A queued command keeps the types of the rings and of the table.
LEMMA QueueTypeOK ==
  ASSUME TypeOK, NEW u \in IoU, NEW r \in Requests, Queue(u, r)
  PROVE  TypeOK'
<1>1. next_sq_tail \in Slots
  BY AdvanceInSlots DEF TypeOK, next_sq_tail
<1>2. next_cid \in Cids
  BY NextCidInCids DEF TypeOK
<1>3. sq' \in [Slots -> Command]
  BY <1>2 DEF TypeOK, Queue, SubmitCommand, Command, ListPage
<1>4. prp_list' \in [Slots -> IoU \cup {NoIoU}]
  BY DEF TypeOK, Queue, SubmitCommand, ListPage
<1>5. cmd_io_u' \in [Cids -> IoU \cup {NoIoU}]
  BY <1>2 DEF TypeOK, Queue
<1>6. fio_u' \in [IoU -> {"free", "requeued", "queued"}]
  BY DEF TypeOK, Queue
<1> QED
  BY <1>1, <1>2, <1>3, <1>4, <1>5, <1>6 DEF TypeOK, Queue, SubmitCommand, pollVars, ctlVars

\* poll_cq never stores more events than it was asked for.
LEMMA PollEntryTypeOK ==
  ASSUME TypeOK, PollEntry
  PROVE  TypeOK'
<1> DEFINE e == cq[head]
<1>1. e \in Completion /\ cmd_io_u[e.cid] \in IoU
  BY DEF TypeOK, PollEntry, Completion
<1>2. events' \in Seq(IoU) /\ Len(events') = Len(events) + 1
  BY <1>1 DEF TypeOK, PollEntry
<1>3. cmd_io_u' \in [Cids -> IoU \cup {NoIoU}]
  BY Zenon DEF TypeOK, PollEntry, TableWithout
<1>4. io_sq_head' \in Slots
  BY <1>1 DEF PollEntry, Completion
<1>5. head' \in Slots /\ phase_tag' \in {0, 1}
  BY AdvanceInSlots, NextPhaseBit DEF TypeOK, PollEntry
<1>6. /\ count' = count + 1 /\ UNCHANGED <<nr_events, want, pc>>
      /\ nr_events + count + 1 <= want.max
      /\ want \in Call /\ nr_events \in Nat /\ count \in Nat
  BY DepthFacts DEF TypeOK, PollEntry, EntryReady, Call
<1>7. count' \in 0 .. IoDepth /\ nr_events' + count' <= want'.max
  BY <1>6, DepthFacts DEF Call
<1>8. Len(events') = nr_events' + count'
  BY <1>2, <1>6 DEF TypeOK
<1> QED
  BY <1>2, <1>3, <1>4, <1>5, <1>6, <1>7, <1>8
     DEF TypeOK, PollEntry, memVars, dbVars, ctlVars

\* poll_cq hands its count over to nvme_getevents.
LEMMA PollEndTypeOK ==
  ASSUME TypeOK, PollReturn \/ PollAgain
  PROVE  TypeOK'
<1>1. PollEnd /\ pc = "poll" /\ pc' \in {"poll", "reap"}
  BY DEF PollReturn, PollAgain, PollEnd
<1>2. reaped' \in 0 .. IoDepth
  BY DepthFacts DEF TypeOK, PollReturn, PollAgain
<1>3. nr_events' = nr_events + count /\ count' = 0 /\ UNCHANGED want
  BY <1>1 DEF PollEnd
<1>4. nr_events + count <= want.max /\ want.max \in 1 .. IoDepth
  BY <1>1 DEF TypeOK, Call
<1>5. /\ nr_events' \in 0 .. IoDepth /\ count' \in 0 .. IoDepth
      /\ nr_events' + count' <= want'.max
      /\ Len(events') = nr_events' + count'
  BY <1>1, <1>3, <1>4, DepthFacts DEF TypeOK, PollEnd
<1> QED
  BY <1>1, <1>2, <1>3, <1>5 DEF TypeOK, PollEnd, PublishHead, memVars, ctlVars

\* The controller's two steps keep the types of the rings.
LEMMA ControllerTypeOK ==
  ASSUME TypeOK,
         CtlFetch \/ \E c \in executing, ok \in BOOLEAN : CtlComplete(c, ok)
  PROVE  TypeOK'
<1>1. CASE CtlFetch
  <2>1. executing' \subseteq Command /\ ctl_sq_head' \in Slots
    BY <1>1, AdvanceInSlots DEF TypeOK, CtlFetch
  <2> QED
    BY <1>1, <2>1 DEF TypeOK, CtlFetch, hostVars, pollVars, memVars, dbVars
<1>2. ASSUME NEW c \in executing, NEW ok \in BOOLEAN, CtlComplete(c, ok)
      PROVE  TypeOK'
  <2>1. c \in Command
    BY DEF TypeOK
  <2>2. cq' \in [Slots -> Completion]
    BY <1>2, <2>1 DEF TypeOK, CtlComplete, Completion, Command
  <2>3. executing' \subseteq Command
    BY <1>2 DEF TypeOK, CtlComplete
  <2>4. ctl_cq_tail' \in Slots /\ ctl_cq_phase' \in {0, 1}
    BY <1>2, AdvanceInSlots DEF TypeOK, CtlComplete, Flip
  <2> QED
    BY <1>2, <2>2, <2>3, <2>4 DEF TypeOK, CtlComplete, hostVars, pollVars, dbVars
<1> QED
  BY <1>1, <1>2

\* Every step keeps the types.
LEMMA NextTypeOK == TypeOK /\ [Next]_vars => TypeOK'
<1> SUFFICES ASSUME TypeOK, [Next]_vars PROVE TypeOK'
  OBVIOUS
<1>1. ASSUME NEW u \in IoU, QueueBusy(u) PROVE TypeOK'
  BY <1>1 DEF TypeOK, QueueBusy, hostVars, pollVars, memVars, dbVars, ctlVars
<1>2. ASSUME NEW u \in IoU, NEW r \in Requests, QueueRejected(u, r) PROVE TypeOK'
  BY <1>2 DEF TypeOK, QueueRejected, hostVars, pollVars, memVars, dbVars, ctlVars
<1>3. ASSUME NEW u \in IoU, NEW r \in Requests, Queue(u, r) PROVE TypeOK'
  BY <1>3, QueueTypeOK
<1>4. ASSUME NEW call \in Calls, GetEvents(call) PROVE TypeOK'
  <2>1. call \in Call /\ call.max \in Nat /\ call.max >= 1
    BY WorkloadAssumption, DepthFacts DEF Call
  <2>2. events' \in Seq(IoU) /\ Len(events') = 0
    BY <1>4 DEF GetEvents
  <2> QED
    BY <1>4, <2>1, <2>2, DepthFacts DEF TypeOK, GetEvents, memVars, dbVars, ctlVars
<1>5. CASE PollEntry
  BY <1>5, PollEntryTypeOK
<1>6. CASE PollExit
  BY <1>6 DEF TypeOK, PollExit, hostVars, memVars, dbVars, ctlVars
<1>7. CASE PollReturn \/ PollAgain
  BY <1>7, PollEndTypeOK
<1>8. CASE Event
  <2>1. reaped' \in 0 .. IoDepth
    BY <1>8, DepthFacts DEF TypeOK, Event
  <2>2. fio_u' \in [IoU -> {"free", "requeued", "queued"}]
    BY <1>8, Zenon DEF TypeOK, Event
  <2> QED
    BY <1>8, <2>1, <2>2 DEF TypeOK, Event, hostVars, memVars, dbVars, ctlVars
<1>9. CASE EventsDone
  <2>1. NoCall \in Call /\ 0 \in 0 .. IoDepth
    BY DepthFacts DEF NoCall, Call
  <2> QED
    BY <1>9, <2>1 DEF TypeOK, EventsDone, hostVars, memVars, dbVars, ctlVars
<1>10. CASE CtlFetch \/ \E c \in executing, ok \in BOOLEAN : CtlComplete(c, ok)
  BY <1>10, ControllerTypeOK
<1>11. CASE UNCHANGED vars
  BY <1>11 DEF TypeOK, vars, hostVars, pollVars, memVars, dbVars, ctlVars
<1> QED
  BY <1>1, <1>2, <1>3, <1>4, <1>5, <1>6, <1>7, <1>8, <1>9, <1>10, <1>11
     DEF Next, Exited

\* Every index of the rings stays within them, the counters of one getevents
\* call within what fio asked for, and the events array within iodepth
\* entries, for every iodepth.
THEOREM TypeCorrect == Spec => []TypeOK
BY InitTypeOK, NextTypeOK, PTL DEF Spec

-----------------------------------------------------------------------------
(***************************************************************************)
(* The completion ring.  PhaseTagsExact is inductive together with: the    *)
(* controller's tag is the one the host will expect at its tail, and going *)
(* round from the doorbell one meets the host's head before the            *)
(* controller's tail, so that the full-ring test, which looks at the       *)
(* doorbell, also keeps the tail from running into the head.               *)
(***************************************************************************)
CqInv ==
  /\ cq_head_db = ic_cq_head
  /\ (pc \in {"idle", "reap"} \/ count = 0)
       => head = ic_cq_head /\ phase_tag = io_cq_pahse
  /\ Dist(cq_head_db, head) <= Dist(cq_head_db, ctl_cq_tail)
  /\ ctl_cq_phase = ExpectedTag(ctl_cq_tail)
  /\ PhaseTagsExact

(***************************************************************************)
(* The submission ring.  Going round from io_sq_head one meets the SQ head *)
(* reported by each completion not yet polled, in the order they were      *)
(* posted, then the controller's head, then the tail.                      *)
(***************************************************************************)
SqInv ==
  /\ sq_tail_db = io_sq_tail
  /\ Dist(io_sq_head, ctl_sq_head) <= Dist(io_sq_head, io_sq_tail)
  /\ \A i \in PostedSlots :
       Dist(io_sq_head, cq[i].sqhd) <= Dist(io_sq_head, ctl_sq_head)
  /\ \A i, j \in PostedSlots : Dist(head, i) <= Dist(head, j) =>
       Dist(io_sq_head, cq[i].sqhd) <= Dist(io_sq_head, cq[j].sqhd)

-----------------------------------------------------------------------------
(* The completion ring *)

cqVars == <<cq_head_db, ic_cq_head, io_cq_pahse, pc, count, head, phase_tag,
            ctl_cq_tail, ctl_cq_phase, cq>>

\* Steps that leave the completion ring alone.
LEMMA CqInvStable ==
  ASSUME CqInv, UNCHANGED cqVars
  PROVE  CqInv'
BY DEF CqInv, cqVars, PhaseTagsExact, PostedSlots, ExpectedTag, Between, Dist

\* A zeroed CQ has no posted entry.
LEMMA InitCqInv == Init => CqInv
BY DepthFacts
   DEF Init, CqInv, PhaseTagsExact, PostedSlots, ExpectedTag, Between, Dist,
       Flip, Slots, ZeroedCompletion

\* An entry that carries the tag poll_cq expects was posted.
LEMMA ReadyPosted ==
  ASSUME TypeOK, CqInv, cq[head].p = phase_tag
  PROVE  head \in PostedSlots
<1>1. head \in Slots /\ head >= head
  BY DEF TypeOK, Slots
<1> QED
  BY <1>1, Zenon DEF CqInv, PhaseTagsExact, ExpectedTag

\* An entry poll_cq takes was posted, and leaves the posted ones.
LEMMA PollEntryPosted ==
  ASSUME TypeOK, CqInv, PollEntry
  PROVE  /\ head \in PostedSlots /\ head # ctl_cq_tail
         /\ \A i \in Slots : i \in PostedSlots' <=> i \in PostedSlots /\ i # head
<1> USE DEF TypeOK
<1>1. ExpectedTag(head) = phase_tag
  BY DepthFacts DEF ExpectedTag, Slots
<1>2. head \in PostedSlots
  BY <1>1 DEF CqInv, PhaseTagsExact, PollEntry, EntryReady
<1>3. head # ctl_cq_tail
  BY <1>2, DistNat DEF PostedSlots, Between
<1>4. head' = Advance(head) /\ ctl_cq_tail' = ctl_cq_tail
  BY DEF PollEntry, ctlVars
<1> QED
  BY <1>2, <1>3, <1>4, BetweenAdvanceStart DEF PostedSlots

\* A slot the controller posts to was not posted before, and then is.
LEMMA CtlCompletePosted ==
  ASSUME TypeOK, CqInv, NEW c \in executing, NEW ok \in BOOLEAN,
         CtlComplete(c, ok)
  PROVE  /\ ctl_cq_tail \notin PostedSlots
         /\ Advance(ctl_cq_tail) # cq_head_db /\ Advance(ctl_cq_tail) # head
         /\ \A i \in Slots : i \in PostedSlots' <=> i \in PostedSlots \/ i = ctl_cq_tail
<1> USE DEF TypeOK
<1>1. Advance(ctl_cq_tail) # cq_head_db
  BY DEF CtlComplete, CqFull
<1>2. Advance(ctl_cq_tail) # head
  BY <1>1, DepthFacts DEF CqInv, Dist, Slots, Advance
<1>3. head' = head /\ ctl_cq_tail' = Advance(ctl_cq_tail)
  BY DEF CtlComplete, pollVars
<1>4. ctl_cq_tail \notin PostedSlots
  BY DistNat DEF PostedSlots, Between
<1> QED
  BY <1>1, <1>2, <1>3, <1>4, BetweenAdvanceEnd DEF PostedSlots

\* poll_cq moves its position, and the tag it expects, past the entry.
LEMMA PollEntryCqInv ==
  ASSUME TypeOK, CqInv, PollEntry
  PROVE  CqInv'
<1> USE DEF TypeOK
<1>1. head # ctl_cq_tail
  BY PollEntryPosted
<1>2. /\ head' = Advance(head) /\ phase_tag' = NextPhase(head, phase_tag)
      /\ count' # 0 /\ pc' = "poll"
      /\ UNCHANGED <<cq_head_db, ic_cq_head, ctl_cq_tail, ctl_cq_phase, cq>>
  BY DEF PollEntry, dbVars, ctlVars, memVars
<1>3. Dist(cq_head_db, Advance(head)) <= Dist(cq_head_db, ctl_cq_tail)
  BY <1>1, DepthFacts DEF CqInv, Dist, Slots, Advance
<1>4. \A i \in Slots : i # head => ExpectedTag(i)' = ExpectedTag(i)
  BY <1>2, DepthFacts DEF ExpectedTag, Slots, Advance, NextPhase, Flip
<1>5. \A i \in Slots : i = head => ExpectedTag(i)' # ExpectedTag(i)
  BY <1>2, DepthFacts DEF ExpectedTag, Slots, Advance, NextPhase, Flip
<1>6. \A i \in Slots : i \in PostedSlots' <=> i \in PostedSlots /\ i # head
  BY PollEntryPosted
<1>7. PhaseTagsExact'
  <2> SUFFICES ASSUME NEW i \in Slots
               PROVE  i \in PostedSlots' <=> cq[i].p = ExpectedTag(i)'
    BY <1>2 DEF PhaseTagsExact
  <2>1. i \in PostedSlots <=> cq[i].p = ExpectedTag(i)
    BY DEF CqInv, PhaseTagsExact
  <2>2. CASE i # head
    BY <1>4, <1>6, <2>1, <2>2
  <2>3. CASE i = head
    <3>1. cq[i].p = ExpectedTag(i)
      BY <2>3, DepthFacts DEF PollEntry, EntryReady, ExpectedTag, Slots
    <3> QED
      BY <1>5, <1>6, <2>3, <3>1
  <2> QED
    BY <2>2, <2>3
<1> QED
  BY <1>1, <1>2, <1>3, <1>4, <1>7 DEF CqInv

\* The controller posts with the tag the host expects there.
LEMMA CtlCompleteCqInv ==
  ASSUME TypeOK, CqInv, NEW c \in executing, NEW ok \in BOOLEAN,
         CtlComplete(c, ok)
  PROVE  CqInv'
<1> USE DEF TypeOK
<1>1. Advance(ctl_cq_tail) # cq_head_db
  BY CtlCompletePosted
<1>2. Advance(ctl_cq_tail) # head
  BY CtlCompletePosted
<1>3. /\ ctl_cq_tail' = Advance(ctl_cq_tail)
      /\ UNCHANGED <<cq_head_db, ic_cq_head, io_cq_pahse, pc, count, head, phase_tag>>
      /\ \A i \in Slots : cq'[i].p = IF i = ctl_cq_tail THEN ctl_cq_phase ELSE cq[i].p
  BY DEF CtlComplete, hostVars, pollVars, dbVars
<1>4. Dist(cq_head_db, Advance(ctl_cq_tail)) = Dist(cq_head_db, ctl_cq_tail) + 1
  BY <1>1, DistAdvance
<1>5. ctl_cq_phase' = ExpectedTag(Advance(ctl_cq_tail))
  BY <1>2, DepthFacts
     DEF CqInv, CtlComplete, ExpectedTag, Slots, Advance, Flip
<1>6. \A i \in Slots : i \in PostedSlots' <=> i \in PostedSlots \/ i = ctl_cq_tail
  BY CtlCompletePosted
<1>7. PhaseTagsExact'
  BY <1>3, <1>6 DEF CqInv, PhaseTagsExact, ExpectedTag
<1>8. (ctl_cq_phase = ExpectedTag(ctl_cq_tail))'
  BY <1>3, <1>5 DEF ExpectedTag
<1>9. Dist(cq_head_db, head)' <= Dist(cq_head_db, ctl_cq_tail)'
  BY <1>3, <1>4, DistNat DEF CqInv, Dist
<1> QED
  BY <1>3, <1>7, <1>8, <1>9 DEF CqInv

\* Every step keeps the completion ring in order.
LEMMA NextCqInv == TypeOK /\ CqInv /\ [Next]_vars => CqInv'
<1> SUFFICES ASSUME TypeOK, CqInv, [Next]_vars PROVE CqInv'
  OBVIOUS
<1>1. ASSUME NEW u \in IoU, QueueBusy(u) PROVE CqInv'
  BY <1>1, CqInvStable DEF cqVars, QueueBusy, hostVars, pollVars, memVars, dbVars, ctlVars
<1>2. ASSUME NEW u \in IoU, NEW r \in Requests, QueueRejected(u, r) PROVE CqInv'
  BY <1>2, CqInvStable DEF cqVars, QueueRejected, hostVars, pollVars, memVars, dbVars, ctlVars
<1>3. ASSUME NEW u \in IoU, NEW r \in Requests, Queue(u, r) PROVE CqInv'
  BY <1>3, CqInvStable DEF cqVars, Queue, SubmitCommand, pollVars, ctlVars
<1>4. ASSUME NEW call \in Calls, GetEvents(call) PROVE CqInv'
  BY <1>4 DEF GetEvents, CqInv, PhaseTagsExact, PostedSlots, ExpectedTag,
              Between, Dist, memVars, dbVars, ctlVars
<1>5. CASE PollEntry
  BY <1>5, PollEntryCqInv
<1>6. CASE PollExit
  BY <1>6 DEF PollExit, CqInv, PhaseTagsExact, PostedSlots, ExpectedTag,
              Between, Dist, hostVars, memVars, dbVars, ctlVars
<1>7. CASE PollReturn \/ PollAgain
  <2>1. /\ cq_head_db' = head /\ ic_cq_head' = head /\ io_cq_pahse' = phase_tag
        /\ UNCHANGED <<head, phase_tag, ctl_cq_tail, ctl_cq_phase, cq>>
    BY <1>7 DEF PollReturn, PollAgain, PollEnd, PublishHead, CqInv, memVars, ctlVars
  <2>2. Dist(head, head) <= Dist(head, ctl_cq_tail)
    BY DistNat DEF TypeOK
  <2> QED
    BY <2>1, <2>2 DEF CqInv, PhaseTagsExact, PostedSlots, ExpectedTag, Between, Dist
<1>8. CASE Event
  BY <1>8, CqInvStable DEF cqVars, Event, hostVars, memVars, dbVars, ctlVars
<1>9. CASE EventsDone
  BY <1>9 DEF EventsDone, CqInv, PhaseTagsExact, PostedSlots, ExpectedTag,
              Between, Dist, hostVars, memVars, dbVars, ctlVars
<1>10. CASE CtlFetch
  BY <1>10, CqInvStable DEF cqVars, CtlFetch, hostVars, pollVars, memVars, dbVars
<1>11. ASSUME NEW c \in executing, NEW ok \in BOOLEAN, CtlComplete(c, ok) PROVE CqInv'
  BY <1>11, CtlCompleteCqInv
<1>12. CASE UNCHANGED vars
  BY <1>12, CqInvStable DEF cqVars, vars, hostVars, pollVars, memVars, dbVars, ctlVars
<1> QED
  BY <1>1, <1>2, <1>3, <1>4, <1>5, <1>6, <1>7, <1>8, <1>9, <1>10, <1>11, <1>12
     DEF Next, Exited

\* poll_cq takes an entry exactly when the controller has posted it and the
\* host has not taken it before, on every round of the ring.
THEOREM PhaseTags == Spec => []PhaseTagsExact
<1>1. Init => TypeOK /\ CqInv
  BY InitTypeOK, InitCqInv
<1>2. TypeOK /\ CqInv /\ [Next]_vars => (TypeOK /\ CqInv)'
  BY NextTypeOK, NextCqInv
<1>3. CqInv => PhaseTagsExact
  BY DEF CqInv
<1> QED
  BY <1>1, <1>2, <1>3, PTL DEF Spec

-----------------------------------------------------------------------------
(* The submission ring *)

sqVars == <<sq_tail_db, io_sq_tail, io_sq_head, ctl_sq_head, head, ctl_cq_tail, cq>>

\* What TypeOK says of the indices, on its own.
LEMMA IndicesInSlots ==
  ASSUME TypeOK
  PROVE  /\ io_sq_tail \in Slots /\ io_sq_head \in Slots /\ ctl_sq_head \in Slots
         /\ head \in Slots /\ ctl_cq_tail \in Slots
         /\ \A i \in Slots : cq[i].sqhd \in Slots
BY DEF TypeOK, Completion

\* Steps that leave the submission ring and the reported heads alone.
LEMMA SqInvStable ==
  ASSUME SqInv, UNCHANGED sqVars
  PROVE  SqInv'
BY DEF SqInv, sqVars, PostedSlots, Between, Dist

\* The submission ring starts empty.
LEMMA InitSqInv == Init => SqInv
BY DepthFacts DEF Init, SqInv, PostedSlots, Between, Dist, Slots, ZeroedCompletion

\* The tail moves towards io_sq_head without meeting it.
LEMMA QueueSqInv ==
  ASSUME TypeOK, SqInv, NEW u \in IoU, NEW r \in Requests, Queue(u, r)
  PROVE  SqInv'
<1> USE IndicesInSlots
<1>1. /\ io_sq_tail' = Advance(io_sq_tail) /\ sq_tail_db' = io_sq_tail'
      /\ Advance(io_sq_tail) # io_sq_head
      /\ UNCHANGED <<io_sq_head, ctl_sq_head, head, ctl_cq_tail, cq>>
  BY Zenon DEF Queue, SubmitCommand, Busy, next_sq_tail, pollVars, ctlVars
<1>2. Dist(io_sq_head, Advance(io_sq_tail)) = Dist(io_sq_head, io_sq_tail) + 1
  BY <1>1, DistAdvance
<1>3. Dist(io_sq_head, ctl_sq_head) <= Dist(io_sq_head, Advance(io_sq_tail))
  <2>1. Dist(io_sq_head, ctl_sq_head) <= Dist(io_sq_head, io_sq_tail)
    BY DEF SqInv
  <2>2. Dist(io_sq_head, ctl_sq_head) \in Nat /\ Dist(io_sq_head, io_sq_tail) \in Nat
    BY DistNat, Zenon
  <2> QED
    BY <1>2, <2>1, <2>2
<1> QED
  BY <1>1, <1>3, ZenonT(30) DEF SqInv, PostedSlots, Between, Dist

\* io_sq_head moves to the SQ head reported by the oldest posted completion.
LEMMA PollEntrySqInv ==
  ASSUME TypeOK, CqInv, SqInv, PollEntry
  PROVE  SqInv'
<1> USE IndicesInSlots
<1> DEFINE m == cq[head].sqhd
<1>1. /\ io_sq_head' = m /\ head' = Advance(head)
      /\ UNCHANGED <<sq_tail_db, io_sq_tail, ctl_sq_head, ctl_cq_tail, cq>>
  BY DEF PollEntry, dbVars, ctlVars, memVars
<1>2. m \in Slots /\ \A i \in Slots : cq[i].sqhd \in Slots
  OBVIOUS
<1>3. head \in PostedSlots
      /\ \A i \in Slots : i \in PostedSlots' <=> i \in PostedSlots /\ i # head
  BY PollEntryPosted
<1>4. /\ Dist(io_sq_head, m) <= Dist(io_sq_head, ctl_sq_head)
      /\ Dist(io_sq_head, ctl_sq_head) <= Dist(io_sq_head, io_sq_tail)
  BY <1>3 DEF SqInv
<1>a. /\ Dist(io_sq_head, m) \in Nat /\ Dist(io_sq_head, ctl_sq_head) \in Nat
      /\ Dist(io_sq_head, io_sq_tail) \in Nat
      /\ \A i \in Slots : Dist(io_sq_head, cq[i].sqhd) \in Nat
  BY <1>2, DistNat
<1>5. Dist(m, ctl_sq_head) = Dist(io_sq_head, ctl_sq_head) - Dist(io_sq_head, m)
  BY <1>2, <1>4, DistShift
<1>6. Dist(io_sq_head, m) <= Dist(io_sq_head, io_sq_tail)
  BY <1>4, <1>a
<1>7. Dist(m, io_sq_tail) = Dist(io_sq_head, io_sq_tail) - Dist(io_sq_head, m)
  BY <1>2, <1>6, DistShift
<1>8. Dist(m, ctl_sq_head) <= Dist(m, io_sq_tail)
  BY <1>4, <1>5, <1>7, <1>a
<1>9. ASSUME NEW i \in PostedSlots
      PROVE  Dist(m, cq[i].sqhd) = Dist(io_sq_head, cq[i].sqhd) - Dist(io_sq_head, m)
  <2>1. i \in Slots
    BY DEF PostedSlots
  <2>2. Dist(head, head) <= Dist(head, i)
    BY <2>1, DistNat
  <2>3. Dist(io_sq_head, m) <= Dist(io_sq_head, cq[i].sqhd)
    BY <1>3, <2>2 DEF SqInv
  <2> QED
    BY <1>2, <2>1, <2>3, DistShift
<1>10. ASSUME NEW i \in PostedSlots
       PROVE  Dist(m, cq[i].sqhd) <= Dist(m, ctl_sq_head)
  <2>1. i \in Slots
    BY DEF PostedSlots
  <2>2. Dist(io_sq_head, cq[i].sqhd) <= Dist(io_sq_head, ctl_sq_head)
    BY DEF SqInv
  <2> QED
    BY <1>5, <1>9, <1>a, <2>1, <2>2
<1>11. ASSUME NEW i \in PostedSlots, NEW j \in PostedSlots, i # head, j # head,
              Dist(Advance(head), i) <= Dist(Advance(head), j)
       PROVE  Dist(m, cq[i].sqhd) <= Dist(m, cq[j].sqhd)
  <2>1. i \in Slots /\ j \in Slots
    BY DEF PostedSlots
  <2>2. Dist(head, i) <= Dist(head, j)
    BY <1>11, <2>1, DepthFacts DEF Dist, Slots, Advance
  <2>3. Dist(io_sq_head, cq[i].sqhd) <= Dist(io_sq_head, cq[j].sqhd)
    BY <2>2 DEF SqInv
  <2> QED
    BY <1>9, <1>a, <2>1, <2>3
<1>12. PostedSlots' \subseteq PostedSlots /\ head \notin PostedSlots'
  BY <1>3, Zenon DEF PostedSlots
<1> QED
  BY <1>1, <1>8, <1>10, <1>11, <1>12, ZenonT(30) DEF SqInv, Dist

\* The controller's head moves towards the tail.
LEMMA CtlFetchSqInv ==
  ASSUME TypeOK, SqInv, CtlFetch
  PROVE  SqInv'
<1> USE IndicesInSlots
<1>1. /\ ctl_sq_head' = Advance(ctl_sq_head) /\ ctl_sq_head # io_sq_tail
      /\ UNCHANGED <<sq_tail_db, io_sq_tail, io_sq_head, head, ctl_cq_tail, cq>>
  BY DEF CtlFetch, SqInv, hostVars, pollVars, memVars, dbVars
<1>2. Dist(io_sq_head, ctl_sq_head) <= Dist(io_sq_head, io_sq_tail)
  BY DEF SqInv
<1>3. /\ Dist(io_sq_head, Advance(ctl_sq_head)) <= Dist(io_sq_head, io_sq_tail)
      /\ Dist(io_sq_head, Advance(ctl_sq_head)) = Dist(io_sq_head, ctl_sq_head) + 1
  BY <1>1, <1>2, DepthFacts DEF Dist, Slots, Advance
<1>4. ASSUME NEW i \in PostedSlots
      PROVE  Dist(io_sq_head, cq[i].sqhd) <= Dist(io_sq_head, Advance(ctl_sq_head))
  <2>1. Dist(io_sq_head, cq[i].sqhd) <= Dist(io_sq_head, ctl_sq_head)
    BY DEF SqInv
  <2>2. i \in Slots /\ cq[i].sqhd \in Slots
    BY DEF PostedSlots
  <2>3. Dist(io_sq_head, cq[i].sqhd) \in Nat /\ Dist(io_sq_head, ctl_sq_head) \in Nat
    BY <2>2, DistNat
  <2> QED
    BY <1>3, <2>1, <2>3
<1>5. PostedSlots' = PostedSlots
  BY <1>1, Zenon DEF PostedSlots, Between, Dist
<1> QED
  BY <1>1, <1>3, <1>4, <1>5, ZenonT(30) DEF SqInv, Dist

\* The newest completion reports the controller's own head.
LEMMA CtlCompleteSqInv ==
  ASSUME TypeOK, CqInv, SqInv, NEW c \in executing, NEW ok \in BOOLEAN,
         CtlComplete(c, ok)
  PROVE  SqInv'
<1> USE IndicesInSlots
<1>1. /\ ctl_cq_tail' = Advance(ctl_cq_tail)
      /\ cq'[ctl_cq_tail].sqhd = ctl_sq_head
      /\ \A i \in Slots : i # ctl_cq_tail => cq'[i] = cq[i]
      /\ UNCHANGED <<sq_tail_db, io_sq_tail, io_sq_head, ctl_sq_head, head>>
  BY Zenon DEF CtlComplete, TypeOK, hostVars, pollVars, dbVars
<1>2. /\ ctl_cq_tail \notin PostedSlots
      /\ \A i \in Slots : i \in PostedSlots' <=> i \in PostedSlots \/ i = ctl_cq_tail
  BY CtlCompletePosted
<1>3. ASSUME NEW i \in PostedSlots'
      PROVE  Dist(io_sq_head, cq'[i].sqhd) <= Dist(io_sq_head, ctl_sq_head)
  <2>1. i \in Slots
    BY DEF PostedSlots
  <2>2. CASE i = ctl_cq_tail
    <3>1. Dist(io_sq_head, ctl_sq_head) \in Nat
      BY DistNat, Zenon
    <3> QED
      BY <1>1, <2>2, <3>1
  <2>3. CASE i # ctl_cq_tail
    BY <1>1, <1>2, <2>1, <2>3, Zenon DEF SqInv
  <2> QED
    BY <2>2, <2>3
<1>4. ASSUME NEW i \in PostedSlots', NEW j \in PostedSlots',
             Dist(head, i) <= Dist(head, j)
      PROVE  Dist(io_sq_head, cq'[i].sqhd) <= Dist(io_sq_head, cq'[j].sqhd)
  <2>1. i \in Slots /\ j \in Slots
    BY DEF PostedSlots
  <2>2. CASE j = ctl_cq_tail
    BY <1>1, <1>3, <2>2
  <2>3. CASE j # ctl_cq_tail
    <3>1. j \in PostedSlots
      BY <1>2, <2>1, <2>3
    <3>2. Dist(head, j) < Dist(head, ctl_cq_tail)
      BY <3>1 DEF PostedSlots, Between
    <3>3. i # ctl_cq_tail
      <4>1. Dist(head, i) \in Nat /\ Dist(head, j) \in Nat
        BY <2>1, DistNat
      <4> QED
        BY <1>4, <3>2, <4>1
    <3> QED
      BY <1>1, <1>2, <1>4, <2>1, <2>3, <3>1, <3>3 DEF SqInv
  <2> QED
    BY <2>2, <2>3, Zenon
<1> QED
  BY <1>1, <1>3, <1>4, Zenon DEF SqInv, Dist

\* Every step keeps the submission ring in order.
LEMMA NextSqInv == TypeOK /\ CqInv /\ SqInv /\ [Next]_vars => SqInv'
<1> SUFFICES ASSUME TypeOK, CqInv, SqInv, [Next]_vars PROVE SqInv'
  OBVIOUS
<1>1. ASSUME NEW u \in IoU, QueueBusy(u) PROVE SqInv'
  BY <1>1, SqInvStable DEF sqVars, QueueBusy, hostVars, pollVars, memVars, dbVars, ctlVars
<1>2. ASSUME NEW u \in IoU, NEW r \in Requests, QueueRejected(u, r) PROVE SqInv'
  BY <1>2, SqInvStable DEF sqVars, QueueRejected, hostVars, pollVars, memVars, dbVars, ctlVars
<1>3. ASSUME NEW u \in IoU, NEW r \in Requests, Queue(u, r) PROVE SqInv'
  BY <1>3, QueueSqInv
<1>4. ASSUME NEW call \in Calls, GetEvents(call) PROVE SqInv'
  BY <1>4, SqInvStable DEF sqVars, GetEvents, CqInv, memVars, dbVars, ctlVars
<1>5. CASE PollEntry
  BY <1>5, PollEntrySqInv, ZenonT(30)
<1>6. CASE PollExit
  BY <1>6, SqInvStable DEF sqVars, PollExit, hostVars, memVars, dbVars, ctlVars
<1>7. CASE PollReturn \/ PollAgain
  BY <1>7, SqInvStable DEF sqVars, PollReturn, PollAgain, PollEnd, memVars, ctlVars
<1>8. CASE Event
  BY <1>8, SqInvStable DEF sqVars, Event, hostVars, memVars, dbVars, ctlVars
<1>9. CASE EventsDone
  BY <1>9, SqInvStable DEF sqVars, EventsDone, hostVars, memVars, dbVars, ctlVars
<1>10. CASE CtlFetch
  BY <1>10, CtlFetchSqInv
<1>11. ASSUME NEW c \in executing, NEW ok \in BOOLEAN, CtlComplete(c, ok) PROVE SqInv'
  BY <1>11, CtlCompleteSqInv
<1>12. CASE UNCHANGED vars
  BY <1>12, SqInvStable DEF sqVars, vars, hostVars, pollVars, memVars, dbVars, ctlVars
<1> QED
  BY <1>1, <1>2, <1>3, <1>4, <1>5, <1>6, <1>7, <1>8, <1>9, <1>10, <1>11, <1>12
     DEF Next, Exited

=============================================================================
