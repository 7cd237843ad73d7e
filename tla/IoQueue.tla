------------------------------- MODULE IoQueue -------------------------------
(***************************************************************************)
(* One I/O queue pair of the newperf engine: the submission queue (SQ) and *)
(* completion queue (CQ) that a single fio thread shares with the NVMe     *)
(* controller.  The thread runs nvme_queue, nvme_getevents (which calls    *)
(* poll_cq) and nvme_event; the controller fetches commands in order,      *)
(* executes them in any order and posts completions.  Host and controller  *)
(* interleave; they only share the rings, the list pages and the two       *)
(* doorbell registers.                                                     *)
(*                                                                         *)
(* Queue pairs of different fio threads share no state, so one is enough.  *)
(***************************************************************************)
EXTENDS Integers, FiniteSets, Sequences

CONSTANTS
  IoU,        \* fio's io_us of this thread; fio owns exactly iodepth of them
  NoIoU,      \* the NULL stored in cmd_io_u
  CidCount,   \* number of command identifiers, 2^16 in the code
  Requests,   \* the workload: the requests fio makes ...
  Calls       \* ... and the arguments it calls getevents with

ASSUME IoUAssumption == IsFiniteSet(IoU) /\ IoU # {} /\ NoIoU \notin IoU
ASSUME CidCountAssumption == CidCount \in Nat \ {0}

(* Of a request only what nvme_queue branches on is kept; pages is the number *)
(* of memory pages its buffer spans, 3 standing for "more than 2".            *)
Request == [ddir : {"read", "write", "trim", "other"}, aligned : BOOLEAN,
            len : 0 .. 1, pages : 2 .. 3]

IoDepth == Cardinality(IoU)

\* At least min and at most max completions; timed: a timeout is given.
Call == [min : 0 .. IoDepth, max : 1 .. IoDepth, timed : BOOLEAN]

ASSUME WorkloadAssumption == Requests \subseteq Request /\ Calls \subseteq Call

VARIABLES
  \* struct nvme_data
  io_sq_tail, io_sq_head, ic_cq_head, io_cq_pahse, io_cmd_id,
  cmd_io_u, events, nr_events,
  \* locals of nvme_getevents and poll_cq, and where the thread is
  pc, want, head, phase_tag, count, reaped,
  \* DMA memory
  sq, cq, prp_list,
  \* doorbell registers
  sq_tail_db, cq_head_db,
  \* the controller
  ctl_sq_head, executing, ctl_cq_tail, ctl_cq_phase,
  \* fio's view of each io_u
  fio_u

hostVars == <<io_sq_tail, io_sq_head, ic_cq_head, io_cq_pahse, io_cmd_id,
              cmd_io_u, events, nr_events>>
pollVars == <<pc, want, head, phase_tag, count, reaped>>
memVars  == <<sq, cq, prp_list>>
dbVars   == <<sq_tail_db, cq_head_db>>
ctlVars  == <<ctl_sq_head, executing, ctl_cq_tail, ctl_cq_phase>>
vars     == <<hostVars, pollVars, memVars, dbVars, ctlVars, fio_u>>

-----------------------------------------------------------------------------
(* Rings *)

\* nvme_init: one slot more than fio's iodepth, and never fewer than two.
QDepthNoSpareSlot == IF IoDepth < 2 THEN 2 ELSE IoDepth

QDepth == IF IoDepth + 1 < 2 THEN 2 ELSE IoDepth + 1

Slots == 0 .. QDepth - 1
Cids  == 0 .. CidCount - 1

\* The step of every ring index: back to 0 at the depth of the ring.
Advance(i) == IF i + 1 = QDepth THEN 0 ELSE i + 1

\* How far b lies ahead of a on the ring.
Dist(a, b) == IF a <= b THEN b - a ELSE b - a + QDepth

\* Slot s lies in the half-open stretch of the ring from a to b.
Between(a, s, b) == Dist(a, s) < Dist(a, b)

Flip(p) == 1 - p

\* The tag poll_cq expects once it has moved on from position i.
NextPhaseNeverFlips(i, p) == p

NextPhase(i, p) == IF i + 1 = QDepth THEN Flip(p) ELSE p

-----------------------------------------------------------------------------
(* Commands and completions *)

\* The requests nvme_queue completes at once with EINVAL.
Rejected(r) == \/ ~r.aligned
               \/ r.ddir \notin {"read", "write", "trim"}
               \/ r.len = 0

\* The command reads the 4 KiB page that belongs to its SQ slot: as a PRP
\* list (setup_prps, more than two pages) or as DSM ranges (nvme_trim).
UsesListPage(r) == r.ddir = "trim" \/ r.pages > 2

NoPage == -1

Command == [cid : Cids, u : IoU, page : Slots \cup {NoPage}]

Completion == [p : {0, 1}, cid : Cids, sqhd : Slots, ok : BOOLEAN]

-----------------------------------------------------------------------------
(* Initial state: create_io_queue_pair has just succeeded.  The rings are   *)
(* zeroed, so every CQ entry carries phase 0 while the host expects 1.      *)

ZeroedCommand == [cid |-> 0, u |-> CHOOSE u \in IoU : TRUE, page |-> NoPage]
ZeroedCompletion == [p |-> 0, cid |-> 0, sqhd |-> 0, ok |-> TRUE]

\* The arguments of nvme_getevents while it is not running.
NoCall == [min |-> 0, max |-> 1, timed |-> FALSE]

Init ==
  /\ io_sq_tail = 0 /\ io_sq_head = 0 /\ ic_cq_head = 0 /\ io_cq_pahse = 1
  /\ io_cmd_id = 0
  /\ cmd_io_u = [c \in Cids |-> NoIoU]
  /\ events = <<>> /\ nr_events = 0
  /\ pc = "idle" /\ want = NoCall
  /\ head = 0 /\ phase_tag = 1 /\ count = 0 /\ reaped = 0
  /\ sq = [s \in Slots |-> ZeroedCommand]
  /\ cq = [s \in Slots |-> ZeroedCompletion]
  /\ prp_list = [s \in Slots |-> NoIoU]
  /\ sq_tail_db = 0 /\ cq_head_db = 0
  /\ ctl_sq_head = 0 /\ executing = {} /\ ctl_cq_tail = 0 /\ ctl_cq_phase = 1
  /\ fio_u = [u \in IoU |-> "free"]

-----------------------------------------------------------------------------
(* nvme_queue.  It runs to completion in the fio thread; the controller can *)
(* only notice it through the doorbell, its last write to shared memory     *)
(* before the table entry, so the whole handler is one step.                *)

next_sq_tail == Advance(io_sq_tail)

\* uint16_t arithmetic: the identifier after the largest one is 0.
next_cid == IF io_cmd_id + 1 = CidCount THEN 0 ELSE io_cmd_id + 1

\* The two tests that make nvme_queue return FIO_Q_BUSY.
BusyIgnoresCid == next_sq_tail = io_sq_head

Busy == next_sq_tail = io_sq_head \/ cmd_io_u[next_cid] # NoIoU

\* fio hands over an io_u it owns, fresh or requeued after FIO_Q_BUSY.
Offered(u) == pc = "idle" /\ fio_u[u] \in {"free", "requeued"}

QueueBusy(u) ==
  /\ Offered(u) /\ Busy
  /\ fio_u' = [fio_u EXCEPT ![u] = "requeued"]
  /\ UNCHANGED <<hostVars, pollVars, memVars, dbVars, ctlVars>>

QueueRejected(u, r) ==
  /\ Offered(u) /\ ~Busy /\ Rejected(r)
  /\ fio_u' = [fio_u EXCEPT ![u] = "free"]
  /\ UNCHANGED <<hostVars, pollVars, memVars, dbVars, ctlVars>>

\* The list page of the command being built: the one of its SQ slot.
ListPageFirst == 0

ListPage == io_sq_tail

\* nvme_read, nvme_write, nvme_trim or nvme_multi_range_trim: list page, SQ
\* entry, tail, doorbell.
SubmitCommand(u, r) ==
  /\ prp_list' = IF UsesListPage(r) THEN [prp_list EXCEPT ![ListPage] = u]
                                    ELSE prp_list
  /\ sq' = [sq EXCEPT ![io_sq_tail] =
              [cid |-> next_cid, u |-> u,
               page |-> IF UsesListPage(r) THEN ListPage ELSE NoPage]]
  /\ io_cmd_id' = next_cid
  /\ io_sq_tail' = next_sq_tail
  /\ sq_tail_db' = next_sq_tail

\* FIO_Q_QUEUED: the command, then its entry in the table.
Queue(u, r) ==
  /\ Offered(u) /\ ~Busy /\ ~Rejected(r)
  /\ SubmitCommand(u, r)
  /\ cmd_io_u' = [cmd_io_u EXCEPT ![next_cid] = u]
  /\ fio_u' = [fio_u EXCEPT ![u] = "queued"]
  /\ UNCHANGED <<io_sq_head, ic_cq_head, io_cq_pahse, events, nr_events,
                 pollVars, cq, cq_head_db, ctlVars>>

-----------------------------------------------------------------------------
(* nvme_getevents and poll_cq.  The completions counter of nvme_getevents   *)
(* equals nr_events at every loop head, so only nr_events is kept.          *)

Queued == {u \in IoU : fio_u[u] = "queued"}

\* fio asks for at least min of the io_us in flight, at most max.
GetEvents(call) ==
  /\ pc = "idle"
  /\ call.min <= call.max /\ call.min <= Cardinality(Queued)
  /\ pc' = "poll"
  /\ want' = call
  /\ nr_events' = 0 /\ events' = <<>>
  /\ head' = ic_cq_head /\ phase_tag' = io_cq_pahse /\ count' = 0
  /\ UNCHANGED <<io_sq_tail, io_sq_head, ic_cq_head, io_cq_pahse, io_cmd_id,
                 cmd_io_u, reaped, memVars, dbVars, ctlVars, fio_u>>

\* One more entry may be taken and the one at head carries the expected tag.
EntryReadyFullMax == count < want.max /\ cq[head].p = phase_tag

EntryReady == count < want.max - nr_events /\ cq[head].p = phase_tag

\* The identifier table once the completion of cid c has been taken.
TableKeeping(c) == cmd_io_u

TableWithout(c) == [cmd_io_u EXCEPT ![c] = NoIoU]

\* One iteration of poll_cq's loop.
PollEntry ==
  LET e == cq[head] IN
  /\ pc = "poll" /\ EntryReady
  /\ e.ok /\ cmd_io_u[e.cid] # NoIoU
  /\ events' = Append(events, cmd_io_u[e.cid])
  /\ cmd_io_u' = TableWithout(e.cid)
  /\ io_sq_head' = e.sqhd
  /\ head' = Advance(head)
  /\ phase_tag' = NextPhase(head, phase_tag)
  /\ count' = count + 1
  /\ UNCHANGED <<io_sq_tail, ic_cq_head, io_cq_pahse, io_cmd_id, nr_events,
                 pc, want, reaped, memVars, dbVars, ctlVars, fio_u>>

\* exit(EXIT_FAILURE): error status, or a cid with no io_u.
PollExit ==
  LET e == cq[head] IN
  /\ pc = "poll" /\ EntryReady
  /\ ~e.ok \/ cmd_io_u[e.cid] = NoIoU
  /\ pc' = "exit"
  /\ UNCHANGED <<hostVars, want, head, phase_tag, count, reaped, memVars,
                 dbVars, ctlVars, fio_u>>

\* The end of poll_cq: publish the new head if anything was taken.
PublishHeadSilently == UNCHANGED cq_head_db

PublishHead == cq_head_db' = IF count # 0 THEN head ELSE cq_head_db

PollEnd ==
  /\ pc = "poll" /\ ~EntryReady
  /\ ic_cq_head' = IF count # 0 THEN head ELSE ic_cq_head
  /\ io_cq_pahse' = IF count # 0 THEN phase_tag ELSE io_cq_pahse
  /\ nr_events' = nr_events + count
  /\ count' = 0
  /\ PublishHead
  /\ UNCHANGED <<io_sq_tail, io_sq_head, io_cmd_id, cmd_io_u, events, want,
                 head, phase_tag, memVars, sq_tail_db, ctlVars, fio_u>>

\* nvme_getevents returns: enough completions, or the timeout has passed.
PollReturn ==
  /\ PollEnd
  /\ nr_events + count >= want.min \/ want.timed
  /\ pc' = "reap" /\ reaped' = 0

\* Not enough yet: poll_cq is called again.
PollAgain ==
  /\ PollEnd
  /\ nr_events + count < want.min
  /\ UNCHANGED <<pc, reaped>>

\* fio calls nvme_event once for each index below the returned count.
EventAtFirst == events[1]

EventAt == events[reaped + 1]

Event ==
  /\ pc = "reap" /\ reaped < nr_events
  /\ fio_u' = [fio_u EXCEPT ![EventAt] = "free"]
  /\ reaped' = reaped + 1
  /\ UNCHANGED <<hostVars, pc, want, head, phase_tag, count, memVars, dbVars,
                 ctlVars>>

EventsDone ==
  /\ pc = "reap" /\ reaped = nr_events
  /\ pc' = "idle"
  /\ want' = NoCall /\ reaped' = 0
  /\ UNCHANGED <<hostVars, head, phase_tag, count, memVars, dbVars, ctlVars,
                 fio_u>>

-----------------------------------------------------------------------------
(* The controller (external): as the driver relies on it.                   *)

CtlFetch ==
  /\ ctl_sq_head # sq_tail_db
  /\ executing' = executing \cup {sq[ctl_sq_head]}
  /\ ctl_sq_head' = Advance(ctl_sq_head)
  /\ UNCHANGED <<hostVars, pollVars, memVars, dbVars, ctl_cq_tail,
                 ctl_cq_phase, fio_u>>

CqFull == Advance(ctl_cq_tail) = cq_head_db

CtlComplete(c, ok) ==
  /\ c \in executing /\ ~CqFull
  /\ cq' = [cq EXCEPT ![ctl_cq_tail] = [p |-> ctl_cq_phase, cid |-> c.cid,
                                        sqhd |-> ctl_sq_head, ok |-> ok]]
  /\ executing' = executing \ {c}
  /\ ctl_cq_tail' = Advance(ctl_cq_tail)
  /\ ctl_cq_phase' = IF ctl_cq_tail + 1 = QDepth THEN Flip(ctl_cq_phase)
                                                 ELSE ctl_cq_phase
  /\ UNCHANGED <<hostVars, pollVars, sq, prp_list, dbVars, ctl_sq_head,
                 fio_u>>

\* After exit() the engine takes no further step.
Exited == pc = "exit" /\ UNCHANGED vars

-----------------------------------------------------------------------------
Next ==
  \/ \E u \in IoU : QueueBusy(u)
  \/ \E u \in IoU, r \in Requests : QueueRejected(u, r)
  \/ \E u \in IoU, r \in Requests : Queue(u, r)
  \/ \E call \in Calls : GetEvents(call)
  \/ PollEntry
  \/ PollExit
  \/ PollReturn
  \/ PollAgain
  \/ Event
  \/ EventsDone
  \/ CtlFetch
  \/ \E c \in executing, ok \in BOOLEAN : CtlComplete(c, ok)
  \/ Exited

(***************************************************************************)
(* Fairness.  The fio thread runs on (getevents returns, event is called    *)
(* for each index, fio calls getevents again while I/O is in flight), and   *)
(* the controller fetches what was rung and executes every command.         *)
(***************************************************************************)
ReapStep == PollEntry \/ PollExit \/ PollReturn \/ PollAgain \/ Event \/ EventsDone

Fairness ==
  /\ WF_vars(ReapStep)
  /\ WF_vars(\E call \in Calls : GetEvents(call))
  /\ WF_vars(CtlFetch)
  /\ \A u \in IoU :
       WF_vars(\E c \in executing, ok \in BOOLEAN : c.u = u /\ CtlComplete(c, ok))

Spec == Init /\ [][Next]_vars

FairSpec == Spec /\ Fairness

-----------------------------------------------------------------------------
(* Vocabulary of the properties *)

\* Slots rung but not yet fetched; slots posted but not yet taken by the host.
PendingSlots == {s \in Slots : Between(ctl_sq_head, s, sq_tail_db)}
PostedSlots  == {i \in Slots : Between(head, i, ctl_cq_tail)}

Outstanding == {sq[s] : s \in PendingSlots} \cup executing

\* The tag the host expects at CQ position i on its current round.
ExpectedTag(i) == IF i >= head THEN phase_tag ELSE Flip(phase_tag)

\* Types.  The part that could fail: ring indices stay below the depth, poll_cq
\* stays within what fio asked for, and events[] has one entry per completion.
TypeOK ==
  /\ io_sq_tail \in Slots /\ io_sq_head \in Slots /\ ic_cq_head \in Slots
  /\ io_cq_pahse \in {0, 1} /\ io_cmd_id \in Cids
  /\ cmd_io_u \in [Cids -> IoU \cup {NoIoU}]
  /\ events \in Seq(IoU) /\ nr_events \in 0 .. IoDepth
  /\ pc \in {"idle", "poll", "reap", "exit"}
  /\ want \in Call
  /\ head \in Slots /\ phase_tag \in {0, 1}
  /\ count \in 0 .. IoDepth /\ reaped \in 0 .. IoDepth
  /\ nr_events + count <= want.max \/ pc = "idle"
  /\ Len(events) = nr_events + count
  /\ sq \in [Slots -> Command] /\ cq \in [Slots -> Completion]
  /\ prp_list \in [Slots -> IoU \cup {NoIoU}]
  /\ sq_tail_db \in Slots /\ cq_head_db \in Slots
  /\ ctl_sq_head \in Slots /\ executing \subseteq Command
  /\ ctl_cq_tail \in Slots /\ ctl_cq_phase \in {0, 1}
  /\ fio_u \in [IoU -> {"free", "requeued", "queued"}]

\* The first BUSY test of nvme_queue never fires: while fio still owns an
\* io_u, the SQ of iodepth + 1 slots has room, although io_sq_head only moves
\* when a completion is polled.
SqHasRoom == Queued # IoU => next_sq_tail # io_sq_head

\* The controller never meets a full CQ when it has a completion to post,
\* although poll_cq rings the head doorbell only once per batch.
CqNeverFull == executing # {} => ~CqFull

\* Every command the controller still owes an answer for is tracked under its
\* own cid, so the answer finds the io_u it belongs to: a cid is not reused
\* when the counter wraps around while its command is outstanding.
CidTracksCommand ==
  /\ \A c \in Outstanding : cmd_io_u[c.cid] = c.u
  /\ \A i, j \in PostedSlots : i # j => cq[i].cid # cq[j].cid
  /\ \A i \in PostedSlots : \A c \in Outstanding : cq[i].cid # c.cid

\* poll_cq takes an entry exactly when the controller has posted it and it has
\* not been taken before: the phase tag tells the rounds of the ring apart.
PhaseTagsExact ==
  \A i \in Slots : i \in PostedSlots <=> cq[i].p = ExpectedTag(i)

\* poll_cq never ends the process for an unknown cid, only for a failed I/O.
ExitOnlyOnFailure == pc = "exit" => ~cq[head].ok

\* A command that waits to be fetched still has the list page it was built
\* with: neither its SQ slot nor its page has been reused.
PendingPageIntact ==
  \A s \in PendingSlots : sq[s].page # NoPage => prp_list[sq[s].page] = sq[s].u

\* As nvme.h describes the pool of list pages, one per SQ slot suffices: the
\* page of a command stays as it was until the command is complete.
ListPageIntact ==
  \A c \in executing : c.page # NoPage => prp_list[c.page] = c.u

\* A refused io_u is not refused for ever: FIO_Q_BUSY ends by itself once fio
\* reaps, or the process exits.
BusyPasses == Busy ~> (~Busy \/ pc = "exit")

-----------------------------------------------------------------------------
(* IoQueue implements FioContract.  "corrupt" is no status of the contract:  *)
(* the device would be using an io_u that fio believes to own.               *)

FailedIoU == {cmd_io_u[cq[i].cid] : i \in {j \in PostedSlots : ~cq[j].ok}}

ContractStatus ==
  LET atDevice == {c.u : c \in Outstanding} IN
  [u \in IoU |->
     CASE u \in atDevice /\ fio_u[u] = "queued" -> "device"
       [] u \in atDevice /\ fio_u[u] # "queued" -> "corrupt"
       [] u \notin atDevice /\ fio_u[u] = "queued" ->
            IF u \in FailedIoU THEN "failed" ELSE "finished"
       [] OTHER -> "fio"]

Contract == INSTANCE FioContract
              WITH status <- ContractStatus, stopped <- pc = "exit"

\* The engine keeps fio's contract: each accepted io_u is given to the device
\* once and handed back once, after the device is done with it.
KeepsContract == Contract!ContractSafety

\* ... and under the fairness above it is finished and handed back.
KeepsContractFairly == Contract!ContractSpec

=============================================================================
