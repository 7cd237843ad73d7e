--------------------------- MODULE IoQueueProofs ---------------------------
(***************************************************************************)
(* Command identifiers, exits and list pages of IoQueue, its inductive     *)
(* invariant, and who owns an io_u at any moment.                          *)
(***************************************************************************)
EXTENDS IoQueueRings

-----------------------------------------------------------------------------
(***************************************************************************)
(* Command identifiers.  CidTracksCommand, with the commands waiting in    *)
(* the ring and those executing kept apart, and what makes it inductive:   *)
(* commands the controller holds have different identifiers, and a         *)
(* completion not yet polled has one that is still in the table.           *)
(***************************************************************************)
CidInv ==
  /\ \A s \in PendingSlots : cmd_io_u[sq[s].cid] = sq[s].u
  /\ \A c \in executing : cmd_io_u[c.cid] = c.u
  /\ \A i \in PostedSlots : cmd_io_u[cq[i].cid] # NoIoU
  /\ \A s, t \in PendingSlots : s # t => sq[s].cid # sq[t].cid
  /\ \A c, d \in executing : c # d => c.cid # d.cid
  /\ \A i, j \in PostedSlots : i # j => cq[i].cid # cq[j].cid
  /\ \A s \in PendingSlots : \A c \in executing : sq[s].cid # c.cid
  /\ \A i \in PostedSlots : \A s \in PendingSlots : cq[i].cid # sq[s].cid
  /\ \A i \in PostedSlots : \A c \in executing : cq[i].cid # c.cid

\* Where the process is when it has ended: at a failed completion.
ExitInv == pc = "exit" => head \in PostedSlots /\ ~cq[head].ok

\* A waiting command uses no list page but the one of its own slot.
PageInv ==
  \A s \in PendingSlots :
    sq[s].page # NoPage => sq[s].page = s /\ prp_list[s] = sq[s].u

-----------------------------------------------------------------------------
(* Command identifiers *)

cidVars == <<ctl_sq_head, sq_tail_db, sq, cmd_io_u, executing, head,
             ctl_cq_tail, cq>>

\* Steps that leave the rings and the table alone.
LEMMA CidInvStable ==
  ASSUME CidInv, UNCHANGED cidVars
  PROVE  CidInv'
BY DEF CidInv, cidVars, PendingSlots, PostedSlots, Between, Dist

\* The rings start empty.
LEMMA InitCidInv == Init => CidInv
BY DepthFacts DEF Init, CidInv, PendingSlots, PostedSlots, Between, Dist, Slots

\* The slot nvme_queue fills was not waiting to be fetched, and then is.
LEMMA QueuePending ==
  ASSUME TypeOK, SqInv, NEW u \in IoU, NEW r \in Requests, Queue(u, r)
  PROVE  /\ io_sq_tail \notin PendingSlots
         /\ \A s \in Slots :
              s \in PendingSlots' <=> s \in PendingSlots \/ s = io_sq_tail
<1> USE DEF TypeOK
<1>1. /\ sq_tail_db = io_sq_tail /\ sq_tail_db' = Advance(io_sq_tail)
      /\ Advance(io_sq_tail) # io_sq_head /\ UNCHANGED ctl_sq_head
  BY DEF Queue, SubmitCommand, Busy, next_sq_tail, ctlVars, SqInv
<1>2. Advance(io_sq_tail) # ctl_sq_head
  <2>1. Dist(io_sq_head, ctl_sq_head) <= Dist(io_sq_head, io_sq_tail)
    BY DEF SqInv
  <2>2. Dist(io_sq_head, Advance(io_sq_tail)) = Dist(io_sq_head, io_sq_tail) + 1
    BY <1>1, DistAdvance
  <2>3. Dist(io_sq_head, io_sq_tail) \in Nat
    BY DistNat
  <2> QED
    BY <2>1, <2>2, <2>3
<1>3. io_sq_tail \notin PendingSlots
  <2>1. Dist(ctl_sq_head, io_sq_tail) \in Nat
    BY DistNat
  <2> QED
    BY <1>1, <2>1 DEF PendingSlots, Between
<1>4. ASSUME NEW s \in Slots
      PROVE  Between(ctl_sq_head, s, Advance(io_sq_tail))
               <=> Between(ctl_sq_head, s, io_sq_tail) \/ s = io_sq_tail
  BY <1>2, BetweenAdvanceEnd
<1>5. ASSUME NEW s \in Slots
      PROVE  s \in PendingSlots' <=> Between(ctl_sq_head, s, Advance(io_sq_tail))
  BY <1>1 DEF PendingSlots, Between, Dist
<1> QED
  BY <1>1, <1>3, <1>4, <1>5 DEF PendingSlots

\* nvme_queue takes an identifier that no outstanding command has: the table
\* entry it found NULL would not be.
LEMMA QueueCidInv ==
  ASSUME TypeOK, SqInv, CidInv, NEW u \in IoU, NEW r \in Requests, Queue(u, r)
  PROVE  CidInv'
<1> USE DEF TypeOK
<1>1. /\ sq'[io_sq_tail].cid = next_cid /\ sq'[io_sq_tail].u = u
      /\ \A s \in Slots : s # io_sq_tail => sq'[s] = sq[s]
      /\ UNCHANGED <<executing, head, ctl_cq_tail, cq>>
  BY DEF Queue, SubmitCommand, pollVars, ctlVars
<1>2. /\ cmd_io_u[next_cid] = NoIoU /\ cmd_io_u'[next_cid] = u
      /\ \A c \in Cids : c # next_cid => cmd_io_u'[c] = cmd_io_u[c]
  BY NextCidInCids DEF Queue, Busy
<1>3. /\ \A s \in Slots : sq[s].cid \in Cids /\ sq[s].u \in IoU
      /\ \A c \in executing : c.cid \in Cids /\ c.u \in IoU
      /\ \A i \in Slots : cq[i].cid \in Cids
  BY DEF Command, Completion
<1>4. /\ io_sq_tail \notin PendingSlots
      /\ \A s \in Slots : s \in PendingSlots' <=> s \in PendingSlots \/ s = io_sq_tail
  BY QueuePending
<1>5. PostedSlots' = PostedSlots
  BY <1>1 DEF PostedSlots, Between, Dist
<1>6. PendingSlots \subseteq Slots /\ PendingSlots' \subseteq Slots /\ PostedSlots \subseteq Slots
  BY DEF PendingSlots, PostedSlots
<1> HIDE DEF TypeOK
<1>7. /\ \A s \in PendingSlots : sq[s].cid # next_cid
      /\ \A c \in executing : c.cid # next_cid
      /\ \A i \in PostedSlots : cq[i].cid # next_cid
  <2>1. ASSUME NEW s \in PendingSlots PROVE sq[s].cid # next_cid
    <3>1. cmd_io_u[sq[s].cid] = sq[s].u /\ sq[s].u \in IoU
      BY <1>3, <1>6 DEF CidInv
    <3> QED
      BY <1>2, <3>1, IoUAssumption
  <2>2. ASSUME NEW c \in executing PROVE c.cid # next_cid
    <3>1. cmd_io_u[c.cid] = c.u /\ c.u \in IoU
      BY <1>3 DEF CidInv
    <3> QED
      BY <1>2, <3>1, IoUAssumption
  <2>3. ASSUME NEW i \in PostedSlots PROVE cq[i].cid # next_cid
    BY <1>2 DEF CidInv
  <2> QED
    BY <2>1, <2>2, <2>3
<1>8. /\ \A s \in PendingSlots' : cmd_io_u'[sq'[s].cid] = sq'[s].u
      /\ \A c \in executing' : cmd_io_u'[c.cid] = c.u
      /\ \A i \in PostedSlots' : cmd_io_u'[cq'[i].cid] # NoIoU
  BY <1>1, <1>2, <1>3, <1>4, <1>5, <1>6, <1>7 DEF CidInv
<1>9. /\ \A s, t \in PendingSlots' : s # t => sq'[s].cid # sq'[t].cid
      /\ \A s \in PendingSlots' : \A c \in executing' : sq'[s].cid # c.cid
      /\ \A i \in PostedSlots' : \A s \in PendingSlots' : cq'[i].cid # sq'[s].cid
  BY <1>1, <1>4, <1>5, <1>6, <1>7 DEF CidInv
<1> QED
  BY <1>1, <1>5, <1>8, <1>9 DEF CidInv

\* poll_cq clears the table entry of the identifier it answers, which no
\* other command or completion has.
LEMMA PollEntryCidInv ==
  ASSUME TypeOK, CqInv, CidInv, PollEntry
  PROVE  CidInv'
<1> USE DEF TypeOK
<1> DEFINE k == cq[head].cid
<1>1. /\ \A c \in Cids : c # k => cmd_io_u'[c] = cmd_io_u[c]
      /\ UNCHANGED <<sq, cq, executing, ctl_sq_head, sq_tail_db>>
  BY DEF PollEntry, TableWithout, memVars, dbVars, ctlVars
<1>2. /\ head \in PostedSlots
      /\ \A i \in Slots : i \in PostedSlots' <=> i \in PostedSlots /\ i # head
  BY PollEntryPosted
<1>3. PendingSlots' = PendingSlots
  BY <1>1 DEF PendingSlots, Between, Dist
<1>4. PendingSlots \subseteq Slots /\ PostedSlots' \subseteq Slots
  BY DEF PendingSlots, PostedSlots
<1>5. /\ \A s \in Slots : sq[s].cid \in Cids
      /\ \A c \in executing : c.cid \in Cids
      /\ \A i \in Slots : cq[i].cid \in Cids
  BY DEF Command, Completion
<1> HIDE DEF TypeOK
<1>6. /\ \A s \in PendingSlots : sq[s].cid # k
      /\ \A c \in executing : c.cid # k
      /\ \A i \in PostedSlots' : cq[i].cid # k
  BY <1>2, <1>4 DEF CidInv
<1>7. /\ \A s \in PendingSlots : cmd_io_u'[sq[s].cid] = sq[s].u
      /\ \A c \in executing : cmd_io_u'[c.cid] = c.u
      /\ \A i \in PostedSlots' : cmd_io_u'[cq[i].cid] # NoIoU
  BY <1>1, <1>2, <1>4, <1>5, <1>6 DEF CidInv
<1>8. PostedSlots' \subseteq PostedSlots
  BY <1>2, <1>4
<1> QED
  BY <1>1, <1>3, <1>7, <1>8 DEF CidInv

\* A fetched command leaves the ring and starts executing.
LEMMA CtlFetchCidInv ==
  ASSUME TypeOK, CidInv, CtlFetch
  PROVE  CidInv'
<1> USE DEF TypeOK
<1> DEFINE h == ctl_sq_head
<1>1. /\ ctl_sq_head' = Advance(h) /\ h # sq_tail_db
      /\ executing' = executing \cup {sq[h]}
      /\ UNCHANGED <<sq, cq, cmd_io_u, sq_tail_db, head, ctl_cq_tail>>
  BY DEF CtlFetch, hostVars, pollVars, memVars, dbVars
<1>2. h \in PendingSlots
  BY <1>1, DepthFacts DEF PendingSlots, Between, Dist, Slots
<1>3. ASSUME NEW s \in Slots
      PROVE  s \in PendingSlots' <=> s \in PendingSlots /\ s # h
  <2>1. Between(Advance(h), s, sq_tail_db) <=> Between(h, s, sq_tail_db) /\ s # h
    BY <1>1, BetweenAdvanceStart
  <2> QED
    BY <1>1, <2>1 DEF PendingSlots, Between, Dist
<1>4. PostedSlots' = PostedSlots
  BY <1>1 DEF PostedSlots, Between, Dist
<1>5. PendingSlots' \subseteq PendingSlots /\ h \notin PendingSlots'
  BY <1>3 DEF PendingSlots
<1> HIDE DEF TypeOK
<1> QED
  BY <1>1, <1>2, <1>4, <1>5 DEF CidInv

\* The completion of a command takes over its identifier.
LEMMA CtlCompleteCidInv ==
  ASSUME TypeOK, CqInv, CidInv, NEW d \in executing, NEW ok \in BOOLEAN,
         CtlComplete(d, ok)
  PROVE  CidInv'
<1> USE DEF TypeOK
<1>1. /\ cq'[ctl_cq_tail].cid = d.cid
      /\ \A i \in Slots : i # ctl_cq_tail => cq'[i] = cq[i]
      /\ executing' = executing \ {d}
      /\ UNCHANGED <<sq, cmd_io_u, ctl_sq_head, sq_tail_db>>
  BY DEF CtlComplete, hostVars, dbVars
<1>2. /\ ctl_cq_tail \notin PostedSlots
      /\ \A i \in Slots : i \in PostedSlots' <=> i \in PostedSlots \/ i = ctl_cq_tail
  BY CtlCompletePosted
<1>3. PendingSlots' = PendingSlots
  BY <1>1 DEF PendingSlots, Between, Dist
<1>4. PostedSlots' \subseteq Slots /\ PostedSlots \subseteq Slots
  BY DEF PostedSlots
<1>5. cmd_io_u[d.cid] # NoIoU
  <2>1. cmd_io_u[d.cid] = d.u /\ d.u \in IoU
    BY DEF CidInv, Command
  <2> QED
    BY <2>1, IoUAssumption
<1> HIDE DEF TypeOK
<1>6. \A i \in PostedSlots' : cmd_io_u[cq'[i].cid] # NoIoU
  BY <1>1, <1>2, <1>4, <1>5 DEF CidInv
<1>7. \A i, j \in PostedSlots' : i # j => cq'[i].cid # cq'[j].cid
  BY <1>1, <1>2, <1>4 DEF CidInv
<1>8. /\ \A i \in PostedSlots' : \A s \in PendingSlots : cq'[i].cid # sq[s].cid
      /\ \A i \in PostedSlots' : \A c \in executing' : cq'[i].cid # c.cid
  BY <1>1, <1>2, <1>4 DEF CidInv
<1> QED
  BY <1>1, <1>3, <1>6, <1>7, <1>8 DEF CidInv

\* Every step keeps the identifiers apart.
LEMMA NextCidInv == TypeOK /\ CqInv /\ SqInv /\ CidInv /\ [Next]_vars => CidInv'
<1> SUFFICES ASSUME TypeOK, CqInv, SqInv, CidInv, [Next]_vars PROVE CidInv'
  OBVIOUS
<1>1. ASSUME NEW u \in IoU, QueueBusy(u) PROVE CidInv'
  BY <1>1, CidInvStable DEF cidVars, QueueBusy, hostVars, pollVars, memVars, dbVars, ctlVars
<1>2. ASSUME NEW u \in IoU, NEW r \in Requests, QueueRejected(u, r) PROVE CidInv'
  BY <1>2, CidInvStable DEF cidVars, QueueRejected, hostVars, pollVars, memVars, dbVars, ctlVars
<1>3. ASSUME NEW u \in IoU, NEW r \in Requests, Queue(u, r) PROVE CidInv'
  BY <1>3, QueueCidInv
<1>4. ASSUME NEW call \in Calls, GetEvents(call) PROVE CidInv'
  BY <1>4, CidInvStable DEF cidVars, GetEvents, CqInv, memVars, dbVars, ctlVars
<1>5. CASE PollEntry
  BY <1>5, PollEntryCidInv
<1>6. CASE PollExit
  BY <1>6, CidInvStable DEF cidVars, PollExit, hostVars, memVars, dbVars, ctlVars
<1>7. CASE PollReturn \/ PollAgain
  BY <1>7, CidInvStable DEF cidVars, PollReturn, PollAgain, PollEnd, memVars, ctlVars
<1>8. CASE Event
  BY <1>8, CidInvStable DEF cidVars, Event, hostVars, memVars, dbVars, ctlVars
<1>9. CASE EventsDone
  BY <1>9, CidInvStable DEF cidVars, EventsDone, hostVars, memVars, dbVars, ctlVars
<1>10. CASE CtlFetch
  BY <1>10, CtlFetchCidInv
<1>11. ASSUME NEW c \in executing, NEW ok \in BOOLEAN, CtlComplete(c, ok) PROVE CidInv'
  BY <1>11, CtlCompleteCidInv
<1>12. CASE UNCHANGED vars
  BY <1>12, CidInvStable DEF cidVars, vars, hostVars, pollVars, memVars, dbVars, ctlVars
<1> QED
  BY <1>1, <1>2, <1>3, <1>4, <1>5, <1>6, <1>7, <1>8, <1>9, <1>10, <1>11, <1>12
     DEF Next, Exited

\* Only a failed completion ends the process: the entry at head was posted, so
\* its identifier is in the table.
LEMMA NextExitInv ==
  TypeOK /\ CqInv /\ CidInv /\ ExitInv /\ [Next]_vars => ExitInv'
<1> SUFFICES ASSUME TypeOK, CqInv, CidInv, ExitInv, [Next]_vars, pc' = "exit"
             PROVE  head' \in PostedSlots' /\ ~cq'[head'].ok
  BY DEF ExitInv
<1> DEFINE Goal == head' \in PostedSlots' /\ ~cq'[head'].ok
<1>1. CASE PollExit
  <2>1. cq[head].p = phase_tag /\ UNCHANGED <<head, cq, ctl_cq_tail>>
    BY <1>1 DEF PollExit, EntryReady, memVars, ctlVars
  <2>2. head \in PostedSlots
    BY <2>1, ReadyPosted
  <2>3. ~cq[head].ok
    BY <1>1, <2>2 DEF PollExit, CidInv
  <2>4. PostedSlots' = PostedSlots
    BY <2>1 DEF PostedSlots, Between, Dist
  <2> QED
    BY <2>1, <2>2, <2>3, <2>4
<1>2. CASE pc = "exit" /\ UNCHANGED <<head, cq, ctl_cq_tail>>
  <2>1. PostedSlots' = PostedSlots
    BY <1>2 DEF PostedSlots, Between, Dist
  <2> QED
    BY <1>2, <2>1 DEF ExitInv
<1>3. ASSUME NEW c \in executing, NEW ok \in BOOLEAN, CtlComplete(c, ok)
      PROVE  Goal
  <2>1. /\ pc = "exit" /\ UNCHANGED head
        /\ \A i \in Slots : i # ctl_cq_tail => cq'[i] = cq[i]
    BY <1>3 DEF CtlComplete, pollVars, TypeOK
  <2>2. head \in PostedSlots /\ ~cq[head].ok /\ head \in Slots
    BY <2>1 DEF ExitInv, PostedSlots
  <2>3. /\ ctl_cq_tail \notin PostedSlots
        /\ \A i \in Slots : i \in PostedSlots' <=> i \in PostedSlots \/ i = ctl_cq_tail
    BY <1>3, CtlCompletePosted
  <2> QED
    BY <2>1, <2>2, <2>3
<1>4. CASE CtlFetch
  BY <1>2, <1>4 DEF CtlFetch, pollVars, memVars
<1>5. CASE UNCHANGED vars
  BY <1>2, <1>5 DEF vars, pollVars, memVars, ctlVars
<1>6. ASSUME NEW u \in IoU, QueueBusy(u) PROVE FALSE
  BY <1>6 DEF QueueBusy, Offered, pollVars
<1>7. ASSUME NEW u \in IoU, NEW r \in Requests, QueueRejected(u, r) \/ Queue(u, r)
      PROVE  FALSE
  BY <1>7 DEF QueueRejected, Queue, Offered, pollVars
<1>8. ASSUME NEW call \in Calls, GetEvents(call) PROVE FALSE
  BY <1>8 DEF GetEvents
<1>9. ~(PollEntry \/ PollReturn \/ PollAgain \/ Event \/ EventsDone)
  BY DEF PollEntry, PollReturn, PollAgain, PollEnd, Event, EventsDone
<1> QED
  BY <1>1, <1>3, <1>4, <1>5, <1>6, <1>7, <1>8, <1>9 DEF Next, Exited

-----------------------------------------------------------------------------
(* List pages *)

pageVars == <<ctl_sq_head, sq_tail_db, sq, prp_list>>

\* Steps that leave the submission ring and the list pages alone.
LEMMA PageInvStable ==
  ASSUME PageInv, UNCHANGED pageVars
  PROVE  PageInv'
BY DEF PageInv, pageVars, PendingSlots, Between, Dist

\* nvme_queue writes the list page of the slot it fills, which is no waiting
\* command's.
LEMMA QueuePageInv ==
  ASSUME TypeOK, SqInv, PageInv, NEW u \in IoU, NEW r \in Requests, Queue(u, r)
  PROVE  PageInv'
<1> USE DEF TypeOK
<1>1. /\ sq'[io_sq_tail].u = u
      /\ sq'[io_sq_tail].page = IF UsesListPage(r) THEN io_sq_tail ELSE NoPage
      /\ UsesListPage(r) => prp_list'[io_sq_tail] = u
      /\ \A s \in Slots : s # io_sq_tail =>
           sq'[s] = sq[s] /\ prp_list'[s] = prp_list[s]
  BY DEF Queue, SubmitCommand, ListPage
<1>2. /\ io_sq_tail \notin PendingSlots
      /\ \A s \in Slots : s \in PendingSlots' <=> s \in PendingSlots \/ s = io_sq_tail
  BY QueuePending
<1>3. PendingSlots' \subseteq Slots
  BY DEF PendingSlots
<1> HIDE DEF TypeOK
<1> QED
  BY <1>1, <1>2, <1>3 DEF PageInv

\* Every step keeps the pages of the waiting commands.
LEMMA NextPageInv == TypeOK /\ SqInv /\ PageInv /\ [Next]_vars => PageInv'
<1> SUFFICES ASSUME TypeOK, SqInv, PageInv, [Next]_vars PROVE PageInv'
  OBVIOUS
<1>1. ASSUME NEW u \in IoU, NEW r \in Requests, Queue(u, r) PROVE PageInv'
  BY <1>1, QueuePageInv
<1>2. CASE CtlFetch
  <2>1. /\ ctl_sq_head' = Advance(ctl_sq_head) /\ ctl_sq_head # sq_tail_db
        /\ UNCHANGED <<sq, prp_list, sq_tail_db>>
    BY <1>2 DEF CtlFetch, memVars, dbVars
  <2>2. PendingSlots' \subseteq PendingSlots
    <3> SUFFICES ASSUME NEW s \in Slots, Between(Advance(ctl_sq_head), s, sq_tail_db)
                 PROVE  Between(ctl_sq_head, s, sq_tail_db)
      BY <2>1 DEF PendingSlots, Between, Dist
    <3> QED
      BY <2>1, BetweenAdvanceStart DEF TypeOK
  <2> QED
    BY <2>1, <2>2 DEF PageInv
<1>3. ASSUME NEW u \in IoU, QueueBusy(u) PROVE UNCHANGED pageVars
  BY <1>3 DEF pageVars, QueueBusy, memVars, dbVars, ctlVars
<1>4. ASSUME NEW u \in IoU, NEW r \in Requests, QueueRejected(u, r)
      PROVE  UNCHANGED pageVars
  BY <1>4 DEF pageVars, QueueRejected, memVars, dbVars, ctlVars
<1>5. ASSUME NEW call \in Calls, GetEvents(call) PROVE UNCHANGED pageVars
  BY <1>5 DEF pageVars, GetEvents, memVars, dbVars, ctlVars
<1>6. ASSUME PollEntry \/ PollExit \/ PollReturn \/ PollAgain \/ Event \/ EventsDone
      PROVE  UNCHANGED pageVars
  BY <1>6, Zenon
     DEF pageVars, PollEntry, PollExit, PollReturn, PollAgain, PollEnd, Event, EventsDone,
         memVars, dbVars, ctlVars
<1>7. ASSUME NEW c \in executing, NEW ok \in BOOLEAN, CtlComplete(c, ok)
      PROVE  UNCHANGED pageVars
  BY <1>7 DEF pageVars, CtlComplete, dbVars
<1>8. CASE UNCHANGED vars
  BY <1>8, PageInvStable DEF pageVars, vars, memVars, dbVars, ctlVars
<1> QED
  BY <1>1, <1>2, <1>3, <1>4, <1>5, <1>6, <1>7, <1>8, PageInvStable DEF Next, Exited

-----------------------------------------------------------------------------
(* The inductive invariant of the queue pair *)

IInv == TypeOK /\ CqInv /\ SqInv /\ CidInv /\ ExitInv /\ PageInv

\* The parts of IInv together are an invariant of the queue pair.
THEOREM Inductive == Spec => []IInv
<1>1. Init => IInv
  <2>1. Init => PageInv
    BY DepthFacts DEF Init, PageInv, PendingSlots, Between, Dist, Slots
  <2>2. Init => ExitInv
    BY DEF Init, ExitInv
  <2> QED
    BY <2>1, <2>2, InitTypeOK, InitCqInv, InitSqInv, InitCidInv DEF IInv
<1>2. IInv /\ [Next]_vars => IInv'
  BY NextTypeOK, NextCqInv, NextSqInv, NextCidInv, NextExitInv, NextPageInv
     DEF IInv
<1> QED
  BY <1>1, <1>2, PTL DEF Spec

\* The table leads every completion to the io_u of its command: no identifier
\* is reused while its command is outstanding or its completion not polled,
\* for every iodepth and every number of identifiers.
THEOREM CidsTracked == Spec => []CidTracksCommand
<1>1. IInv => CidTracksCommand
  BY DEF IInv, CidInv, CidTracksCommand, Outstanding
<1> QED
  BY <1>1, Inductive, PTL

\* The process only ever ends in poll_cq because an I/O failed, never because
\* a completion carries an identifier that is not in the table.
THEOREM ExitsOnlyOnFailure == Spec => []ExitOnlyOnFailure
<1>1. IInv => ExitOnlyOnFailure
  BY DEF IInv, ExitInv, ExitOnlyOnFailure
<1> QED
  BY <1>1, Inductive, PTL

\* A command that waits to be fetched finds the list page it was built with:
\* one page per SQ slot is enough up to the moment a command is fetched.
THEOREM PendingPagesIntact == Spec => []PendingPageIntact
<1>1. IInv => PendingPageIntact
  BY DEF IInv, PageInv, PendingPageIntact
<1> QED
  BY <1>1, Inductive, PTL

-----------------------------------------------------------------------------
(***************************************************************************)
(* Owners.  An io_u fio has queued is in the table, under one identifier,  *)
(* or in events[], once; never in both.  From the call of nvme_getevents   *)
(* to its last nvme_event, events[] beyond reaped is what fio still gets.  *)
(***************************************************************************)
Tracked == {c \in Cids : cmd_io_u[c] # NoIoU}

Unreaped == {k \in 1 .. Len(events) : k > reaped}

OwnInv ==
  /\ \A c, d \in Tracked : c # d => cmd_io_u[c] # cmd_io_u[d]
  /\ \A c \in Tracked : fio_u[cmd_io_u[c]] = "queued"
  /\ pc # "reap" => reaped = 0
  /\ pc # "idle" =>
       /\ \A k \in Unreaped : fio_u[events[k]] = "queued"
       /\ \A k \in Unreaped, c \in Tracked : events[k] # cmd_io_u[c]
       /\ \A k, l \in Unreaped : k # l => events[k] # events[l]

\* The completions taken in the current call of poll_cq fill the stretch of
\* the CQ from the doorbell to head.
BatchInv ==
  /\ count = Dist(cq_head_db, head)
  /\ pc \in {"idle", "reap"} => count = 0

-----------------------------------------------------------------------------
(* Owners *)

\* What TypeOK says of the identifier table, the events and fio's io_us.
LEMMA OwnTypes ==
  ASSUME TypeOK
  PROVE  /\ \A c \in Cids : cmd_io_u[c] \in IoU \cup {NoIoU}
         /\ \A c \in Tracked : c \in Cids /\ cmd_io_u[c] \in IoU
         /\ \A k \in 1 .. Len(events) : events[k] \in IoU
         /\ \A i \in Slots : cq[i].cid \in Cids
         /\ Len(events) \in Nat /\ reaped \in Nat /\ nr_events \in Nat /\ count \in Nat
         /\ Len(events) = nr_events + count
BY DEF TypeOK, Tracked, Completion

\* The table and the events start empty.
LEMMA InitOwnInv == Init => OwnInv
BY DEF Init, OwnInv, Tracked, Unreaped

\* nvme_queue enters an io_u that fio owned, so it was neither in the table
\* nor in events[].
LEMMA QueueOwnInv ==
  ASSUME TypeOK, OwnInv, NEW u \in IoU, NEW r \in Requests, Queue(u, r)
  PROVE  OwnInv'
<1>1. /\ pc = "idle" /\ fio_u[u] # "queued" /\ UNCHANGED <<pc, reaped>>
      /\ fio_u' = [fio_u EXCEPT ![u] = "queued"]
      /\ cmd_io_u' = [cmd_io_u EXCEPT ![next_cid] = u]
  BY DEF Queue, Offered, pollVars
<1>2. /\ fio_u \in [IoU -> {"free", "requeued", "queued"}]
      /\ cmd_io_u \in [Cids -> IoU \cup {NoIoU}] /\ next_cid \in Cids
  BY NextCidInCids DEF TypeOK
<1>3. /\ \A c \in Cids \ {next_cid} : cmd_io_u'[c] = cmd_io_u[c]
      /\ cmd_io_u'[next_cid] = u
      /\ \A v \in IoU \ {u} : fio_u'[v] = fio_u[v]
      /\ fio_u'[u] = "queued"
  BY <1>1, <1>2
<1>4. /\ \A c \in Tracked' : c = next_cid \/ (c \in Tracked /\ cmd_io_u'[c] = cmd_io_u[c])
      /\ \A c \in Tracked : cmd_io_u[c] # u /\ cmd_io_u[c] \in IoU
  BY <1>1, <1>3, OwnTypes DEF Tracked, OwnInv
<1>5. \A c, d \in Tracked' : c # d => cmd_io_u'[c] # cmd_io_u'[d]
  BY <1>3, <1>4, SMT DEF OwnInv
<1>6. \A c \in Tracked' : fio_u'[cmd_io_u'[c]] = "queued"
  BY <1>3, <1>4, SMT DEF OwnInv
<1> QED
  BY <1>1, <1>5, <1>6 DEF OwnInv

\* FIO_Q_BUSY and EINVAL leave an io_u that fio owns with fio.
LEMMA RefusedOwnInv ==
  ASSUME TypeOK, OwnInv, NEW u \in IoU,
         QueueBusy(u) \/ \E r \in Requests : QueueRejected(u, r)
  PROVE  OwnInv'
<1>1. /\ pc = "idle" /\ fio_u[u] # "queued"
      /\ UNCHANGED <<pc, reaped, cmd_io_u>>
      /\ fio_u' = [fio_u EXCEPT ![u] = fio_u'[u]]
  BY DEF QueueBusy, QueueRejected, Offered, pollVars, hostVars, TypeOK
<1>2. \A v \in IoU \ {u} : fio_u'[v] = fio_u[v]
  BY <1>1 DEF TypeOK
<1>3. Tracked' = Tracked
  BY <1>1 DEF Tracked
<1>4. \A c \in Tracked : cmd_io_u[c] # u /\ cmd_io_u[c] \in IoU
  BY <1>1, OwnTypes DEF OwnInv
<1> QED
  BY <1>1, <1>2, <1>3, <1>4, Zenon DEF OwnInv

\* poll_cq moves an io_u from the table to events[].
LEMMA PollEntryOwnInv ==
  ASSUME TypeOK, OwnInv, PollEntry
  PROVE  OwnInv'
<1> DEFINE k == cq[head].cid
           n == Len(events) + 1
<1>1. /\ pc = "poll" /\ reaped = 0 /\ UNCHANGED <<pc, reaped, fio_u>>
      /\ cmd_io_u' = [cmd_io_u EXCEPT ![k] = NoIoU]
      /\ events' = Append(events, cmd_io_u[k])
      /\ cmd_io_u[k] # NoIoU
  BY DEF PollEntry, TableWithout, OwnInv
<1>2. k \in Cids /\ events \in Seq(IoU) /\ cmd_io_u[k] \in IoU
      /\ cmd_io_u \in [Cids -> IoU \cup {NoIoU}]
  BY <1>1 DEF TypeOK, Completion
<1>3. k \in Tracked
  BY <1>1, <1>2 DEF Tracked
<1>4. \A c \in Tracked' : c \in Tracked /\ c # k /\ cmd_io_u'[c] = cmd_io_u[c]
  BY <1>1, <1>2 DEF Tracked
<1>5. /\ n \in Unreaped' /\ events'[n] = cmd_io_u[k]
      /\ \A l \in Unreaped' : l = n \/ (l \in Unreaped /\ events'[l] = events[l])
  BY <1>1, <1>2 DEF Unreaped
<1> HIDE DEF k, n
<1>6. /\ \A l \in Unreaped : fio_u[events[l]] = "queued"
      /\ \A l \in Unreaped, c \in Tracked : events[l] # cmd_io_u[c]
      /\ \A l, m \in Unreaped : l # m => events[l] # events[m]
      /\ fio_u[cmd_io_u[k]] = "queued"
      /\ \A c \in Tracked : c # k => cmd_io_u[c] # cmd_io_u[k]
  BY <1>1, <1>3 DEF OwnInv
<1>7. \A l \in Unreaped' : fio_u[events'[l]] = "queued"
  BY <1>5, <1>6, Zenon
<1>8. \A l \in Unreaped', c \in Tracked' : events'[l] # cmd_io_u'[c]
  BY <1>4, <1>5, <1>6, SMT
<1>9. \A l, m \in Unreaped' : l # m => events'[l] # events'[m]
  <2> SUFFICES ASSUME NEW l \in Unreaped', NEW m \in Unreaped', l # m
               PROVE  events'[l] # events'[m]
    OBVIOUS
  <2>1. CASE l = n
    BY <1>3, <1>5, <1>6, <2>1, Zenon
  <2>2. CASE m = n
    BY <1>3, <1>5, <1>6, <2>2, Zenon
  <2>3. CASE l # n /\ m # n
    BY <1>5, <1>6, <2>3, Zenon
  <2> QED
    BY <2>1, <2>2, <2>3
<1>10. /\ \A c, d \in Tracked' : c # d => cmd_io_u'[c] # cmd_io_u'[d]
      /\ \A c \in Tracked' : fio_u[cmd_io_u'[c]] = "queued"
  BY <1>4, Zenon DEF OwnInv
<1> QED
  BY <1>1, <1>7, <1>8, <1>9, <1>10, Zenon DEF OwnInv

\* nvme_event hands an io_u to fio: it leaves events[], and it was nowhere else.
LEMMA EventOwnInv ==
  ASSUME TypeOK, OwnInv, BatchInv, Event
  PROVE  OwnInv'
<1> DEFINE u == events[reaped + 1]
<1>1. /\ pc = "reap" /\ reaped < nr_events /\ reaped' = reaped + 1
      /\ UNCHANGED <<pc, cmd_io_u, events>>
      /\ fio_u' = [fio_u EXCEPT ![u] = "free"]
  BY DEF Event, EventAt, hostVars
<1>2. /\ Len(events) \in Nat /\ reaped \in Nat /\ nr_events \in Nat /\ count \in Nat
      /\ Len(events) = nr_events + count
  BY OwnTypes
<1>3. /\ reaped + 1 \in Unreaped
      /\ \A l \in Unreaped' : l \in Unreaped /\ l # reaped + 1
  BY <1>1, <1>2 DEF Unreaped
<1>4. /\ Tracked' = Tracked
      /\ \A l \in Unreaped : events[l] \in IoU
  BY <1>1, OwnTypes DEF Tracked, Unreaped
<1>5. \A v \in IoU : v # u => fio_u'[v] = fio_u[v]
  BY <1>1 DEF TypeOK
<1>6. /\ \A c \in Tracked : cmd_io_u[c] # u /\ cmd_io_u[c] \in IoU
      /\ \A l \in Unreaped' : events[l] # u /\ events[l] \in IoU
  BY <1>1, <1>3, <1>4, OwnTypes DEF OwnInv
<1> HIDE DEF u
<1> QED
  BY <1>1, <1>3, <1>4, <1>5, <1>6, Zenon DEF OwnInv

ownVars == <<cmd_io_u, events, reaped, pc, fio_u>>

\* Every step keeps every io_u with one owner.
LEMMA NextOwnInv == TypeOK /\ OwnInv /\ BatchInv /\ [Next]_vars => OwnInv'
<1> SUFFICES ASSUME TypeOK, OwnInv, BatchInv, [Next]_vars PROVE OwnInv'
  OBVIOUS
<1>0. UNCHANGED ownVars => OwnInv'
  BY DEF ownVars, OwnInv, Tracked, Unreaped
<1>1. ASSUME NEW u \in IoU, QueueBusy(u) PROVE OwnInv'
  BY <1>1, RefusedOwnInv
<1>2. ASSUME NEW u \in IoU, NEW r \in Requests, QueueRejected(u, r) PROVE OwnInv'
  BY <1>2, RefusedOwnInv
<1>3. ASSUME NEW u \in IoU, NEW r \in Requests, Queue(u, r) PROVE OwnInv'
  BY <1>3, QueueOwnInv
<1>4. ASSUME NEW call \in Calls, GetEvents(call) PROVE OwnInv'
  <2>1. /\ pc = "idle" /\ pc' = "poll" /\ events' = <<>> /\ UNCHANGED <<cmd_io_u, reaped, fio_u>>
    BY <1>4 DEF GetEvents
  <2>2. Unreaped' = {} /\ Tracked' = Tracked
    BY <2>1 DEF Unreaped, Tracked
  <2> QED
    BY <2>1, <2>2 DEF OwnInv
<1>5. CASE PollEntry
  BY <1>5, PollEntryOwnInv
<1>6. CASE PollExit \/ PollAgain \/ PollReturn
  <2>1. /\ pc = "poll" /\ pc' # "idle" /\ reaped = 0 /\ reaped' = 0
        /\ UNCHANGED <<cmd_io_u, events, fio_u>>
    BY <1>6 DEF PollExit, PollAgain, PollReturn, PollEnd, hostVars, OwnInv
  <2>2. Unreaped' = Unreaped /\ Tracked' = Tracked
    BY <2>1 DEF Unreaped, Tracked
  <2> QED
    BY <2>1, <2>2 DEF OwnInv
<1>7. CASE Event
  BY <1>7, EventOwnInv
<1>8. CASE EventsDone
  <2>1. pc' = "idle" /\ reaped' = 0 /\ UNCHANGED <<cmd_io_u, fio_u>>
    BY <1>8 DEF EventsDone, hostVars
  <2>2. Tracked' = Tracked
    BY <2>1 DEF Tracked
  <2> QED
    BY <2>1, <2>2 DEF OwnInv
<1>9. CASE CtlFetch
  BY <1>0, <1>9 DEF ownVars, CtlFetch, hostVars, pollVars
<1>10. ASSUME NEW c \in executing, NEW ok \in BOOLEAN, CtlComplete(c, ok) PROVE OwnInv'
  BY <1>0, <1>10 DEF ownVars, CtlComplete, hostVars, pollVars
<1>11. CASE UNCHANGED vars
  BY <1>0, <1>11 DEF ownVars, vars, hostVars, pollVars
<1> QED
  BY <1>1, <1>2, <1>3, <1>4, <1>5, <1>6, <1>7, <1>8, <1>9, <1>10, <1>11
     DEF Next, Exited

-----------------------------------------------------------------------------
(* The batch of poll_cq *)

batchVars == <<count, cq_head_db, head, pc>>

\* Every step keeps the batch between the doorbell and head.
LEMMA NextBatchInv == TypeOK /\ CqInv /\ BatchInv /\ [Next]_vars => BatchInv'
<1> SUFFICES ASSUME TypeOK, CqInv, BatchInv, [Next]_vars PROVE BatchInv'
  OBVIOUS
<1>0. UNCHANGED batchVars => BatchInv'
  BY DEF batchVars, BatchInv, Dist
<1>1. CASE PollEntry
  <2>1. /\ pc = "poll" /\ pc' = "poll" /\ head' = Advance(head) /\ count' = count + 1
        /\ UNCHANGED cq_head_db
    BY <1>1 DEF PollEntry, dbVars
  <2>2. head # ctl_cq_tail
    BY <1>1, PollEntryPosted
  <2>3. head \in Slots /\ cq_head_db \in Slots /\ ctl_cq_tail \in Slots
    BY DEF TypeOK
  <2>4. Advance(head) # cq_head_db
    BY <2>2, <2>3, DepthFacts DEF CqInv, Dist, Slots, Advance
  <2>5. Dist(cq_head_db, Advance(head)) = Dist(cq_head_db, head) + 1
    BY <2>3, <2>4, DistAdvance
  <2> QED
    BY <2>1, <2>5 DEF BatchInv, Dist
<1>2. CASE PollReturn \/ PollAgain
  <2>1. count' = 0 /\ head' = head /\ cq_head_db' = IF count # 0 THEN head ELSE cq_head_db
    BY <1>2 DEF PollReturn, PollAgain, PollEnd, PublishHead
  <2>2. cq_head_db' = head
    BY <2>1 DEF CqInv
  <2>3. Dist(head, head) = 0
    BY DistNat DEF TypeOK
  <2> QED
    BY <2>1, <2>2, <2>3 DEF BatchInv, Dist
<1>3. ASSUME NEW call \in Calls, GetEvents(call) PROVE BatchInv'
  <2>1. count' = 0 /\ head' = ic_cq_head /\ UNCHANGED cq_head_db
    BY <1>3 DEF GetEvents, dbVars
  <2>2. Dist(cq_head_db, ic_cq_head) = 0
    BY DistNat DEF CqInv, TypeOK
  <2> QED
    BY <2>1, <2>2 DEF BatchInv, Dist
<1>4. CASE PollExit \/ EventsDone
  <2>1. pc' # "reap" /\ (pc' = "idle" => pc = "reap") /\ UNCHANGED <<count, cq_head_db, head>>
    BY <1>4, Zenon DEF PollExit, EventsDone, dbVars
  <2> QED
    BY <2>1, Zenon DEF BatchInv, Dist
<1>5. ASSUME NEW u \in IoU, QueueBusy(u) PROVE BatchInv'
  BY <1>0, <1>5 DEF batchVars, QueueBusy, pollVars, dbVars
<1>6. ASSUME NEW u \in IoU, NEW r \in Requests, QueueRejected(u, r) \/ Queue(u, r)
      PROVE  BatchInv'
  BY <1>0, <1>6 DEF batchVars, QueueRejected, Queue, pollVars, dbVars
<1>7. CASE Event
  BY <1>0, <1>7 DEF batchVars, Event, dbVars
<1>8. CASE CtlFetch
  BY <1>0, <1>8 DEF batchVars, CtlFetch, pollVars, dbVars
<1>9. ASSUME NEW c \in executing, NEW ok \in BOOLEAN, CtlComplete(c, ok) PROVE BatchInv'
  BY <1>0, <1>9 DEF batchVars, CtlComplete, pollVars, dbVars
<1>10. CASE UNCHANGED vars
  BY <1>0, <1>10 DEF batchVars, vars, pollVars, dbVars
<1> QED
  BY <1>1, <1>2, <1>3, <1>4, <1>5, <1>6, <1>7, <1>8, <1>9, <1>10 DEF Next, Exited

=============================================================================
