------------------------------- MODULE Engine -------------------------------
(***************************************************************************)
(* The life of fio jobs in the newperf engine: setup, get_file_size, init, *)
(* iomem_alloc, iomem_free and cleanup of several fio threads that share   *)
(* one controller under g_mutex.  Most of them send admin commands and     *)
(* wait for the answer, at most NVME_ADMIN_CMD_TIMEOUT_MS; the controller  *)
(* may answer later than that, with an error, or not at all.  What a job   *)
(* does while it runs is IoQueue.                                          *)
(*                                                                         *)
(* The steps of a callback that happen under g_mutex and touch nothing the *)
(* controller or another thread can observe are one step.                  *)
(***************************************************************************)
EXTENDS Integers, FiniteSets, Sequences

CONSTANTS
  Job,      \* fio jobs (threads)
  NoJob,    \* g_mutex is free
  QidSpan   \* values of the counter next_io_qid, 2^16 in the code

ASSUME JobAssumption == IsFiniteSet(Job) /\ NoJob \notin Job
ASSUME SpanAssumption == QidSpan \in Nat \ {0, 1}

VARIABLES
  \* file-scope variables of newperf.c
  g_mutex, g_ctrl, curr_thread_num, next_io_qid,
  \* controller_data: next admin command identifier, and the controller_data
  \* whose lba_shift has been read from the namespace
  admin_cmd_id, lba_known,
  \* per job: where it is, the command it waits for, its nvme_data with the
  \* memory of its rings and of its I/O buffers
  pc, cmd_id, ctrl, io_qid, mem, data,
  \* the controller: commands it has been given, completions not yet
  \* consumed, its I/O queues, and how often it has been enabled
  adm_pending, adm_cq, ctl_cqs, ctl_sqs, ctl_epoch

globals == <<g_mutex, g_ctrl, curr_thread_num, next_io_qid>>
nvars   == <<ctrl, io_qid, mem, data>>
ctlVars == <<adm_pending, adm_cq, ctl_cqs, ctl_sqs, ctl_epoch>>
vars    == <<globals, admin_cmd_id, lba_known, pc, cmd_id, nvars, ctlVars>>

\* g_ctrl and nvme_data.ctrl: the controller_data made at that epoch, or NULL.
NULL == 0

Waiting == {"identify", "create_cq", "create_sq", "delete_sq", "delete_cq"}

Init ==
  /\ g_mutex = NoJob /\ g_ctrl = NULL /\ curr_thread_num = 0 /\ next_io_qid = 1
  /\ admin_cmd_id = 0 /\ lba_known = NULL
  /\ pc = [j \in Job |-> "setup"] /\ cmd_id = [j \in Job |-> 0]
  /\ ctrl = [j \in Job |-> NULL] /\ io_qid = [j \in Job |-> 0]
  /\ mem = [j \in Job |-> "none"] /\ data = [j \in Job |-> "none"]
  /\ adm_pending = {} /\ adm_cq = <<>>
  /\ ctl_cqs = {} /\ ctl_sqs = {} /\ ctl_epoch = 0

-----------------------------------------------------------------------------
(* Admin commands *)

\* submit_admin_command or submit_identify_namespace: SQ entry and doorbell.
\* The caller goes on to wait_admin_completion.
Submit(j, op, qid) ==
  /\ adm_pending' = adm_pending \cup {[cid |-> admin_cmd_id, op |-> op,
                                       job |-> j, qid |-> qid]}
  /\ admin_cmd_id' = admin_cmd_id + 1
  /\ cmd_id' = [cmd_id EXCEPT ![j] = admin_cmd_id]
  /\ pc' = [pc EXCEPT ![j] = op]

\* wait_admin_completion returns true: the entry at the head answers the
\* command with success; head and doorbell move on.
AnsweredByAnyone(j, op) ==
  /\ pc[j] = op
  /\ adm_cq # <<>> /\ Head(adm_cq).ok
  /\ adm_cq' = Tail(adm_cq)

Answered(j, op) ==
  /\ pc[j] = op
  /\ adm_cq # <<>> /\ Head(adm_cq).cid = cmd_id[j] /\ Head(adm_cq).ok
  /\ adm_cq' = Tail(adm_cq)

\* ... false: error status (the entry is consumed), an answer to another
\* command (the entry stays where it is), or no answer in time.
UnansweredForEver(j, ops) ==
  /\ pc[j] \in ops
  /\ adm_cq # <<>> /\ Head(adm_cq).cid = cmd_id[j] /\ ~Head(adm_cq).ok
  /\ adm_cq' = Tail(adm_cq)

Unanswered(j, ops) ==
  /\ pc[j] \in ops
  /\ \/ /\ adm_cq # <<>> /\ Head(adm_cq).cid = cmd_id[j] /\ ~Head(adm_cq).ok
        /\ adm_cq' = Tail(adm_cq)
     \/ /\ adm_cq # <<>> => Head(adm_cq).cid # cmd_id[j]
        /\ UNCHANGED adm_cq

\* The controller (external) executes an admin command and posts its
\* completion.  Commands on queues it does not have, or has already, fail.
Possible(c) ==
  CASE c.op = "create_cq" -> \A q \in ctl_cqs : q.qid # c.qid
    [] c.op = "create_sq" -> /\ \A q \in ctl_sqs : q.qid # c.qid
                             /\ \E q \in ctl_cqs : q.qid = c.qid
    [] c.op = "delete_sq" -> \E q \in ctl_sqs : q.qid = c.qid
    [] c.op = "delete_cq" -> /\ \E q \in ctl_cqs : q.qid = c.qid
                             /\ \A q \in ctl_sqs : q.qid # c.qid
    [] OTHER -> TRUE

CtlExecute(c, ok) ==
  /\ ok => Possible(c)
  /\ adm_pending' = adm_pending \ {c}
  /\ adm_cq' = Append(adm_cq, [cid |-> c.cid, ok |-> ok])
  /\ ctl_cqs' = CASE ok /\ c.op = "create_cq" ->
                       ctl_cqs \cup {[qid |-> c.qid, job |-> c.job]}
                  [] ok /\ c.op = "delete_cq" -> {q \in ctl_cqs : q.qid # c.qid}
                  [] OTHER -> ctl_cqs
  /\ ctl_sqs' = CASE ok /\ c.op = "create_sq" ->
                       ctl_sqs \cup {[qid |-> c.qid, job |-> c.job]}
                  [] ok /\ c.op = "delete_sq" -> {q \in ctl_sqs : q.qid # c.qid}
                  [] OTHER -> ctl_sqs
  /\ UNCHANGED <<globals, admin_cmd_id, lba_known, pc, cmd_id, nvars, ctl_epoch>>

-----------------------------------------------------------------------------
(* nvme_setup and nvme_size *)

Lock(j)   == g_mutex = NoJob /\ g_mutex' = j
Unlock(j) == g_mutex = j /\ g_mutex' = NoJob

Goto(j, label) == pc' = [pc EXCEPT ![j] = label]

\* controller_init succeeds on the fresh, zeroed controller_data of
\* parse_target: the controller is reset, its admin queues are new and empty.
ControllerInit ==
  /\ ctl_epoch' = ctl_epoch + 1
  /\ admin_cmd_id' = 0 /\ adm_cq' = <<>>

\* controller_deinit: a disabled controller drops its queues and commands.
ControllerDeinit == adm_pending' = {} /\ ctl_cqs' = {} /\ ctl_sqs' = {}

\* The first job makes the controller_data.
SetupController(j) ==
  /\ pc[j] = "setup" /\ g_mutex = NoJob /\ g_ctrl = NULL
  /\ ControllerInit
  /\ g_ctrl' = ctl_epoch + 1
  /\ Goto(j, "size")
  /\ UNCHANGED <<g_mutex, curr_thread_num, next_io_qid, lba_known, cmd_id, nvars,
                 adm_pending, ctl_cqs, ctl_sqs>>

\* parse_target or controller_init fails, and so does the job.
SetupFails(j) ==
  /\ pc[j] = "setup" /\ g_mutex = NoJob /\ g_ctrl = NULL
  /\ Goto(j, "failed")
  /\ UNCHANGED <<globals, admin_cmd_id, lba_known, cmd_id, nvars, ctlVars>>

SetupShared(j) ==
  /\ pc[j] = "setup" /\ g_mutex = NoJob /\ g_ctrl # NULL
  /\ Goto(j, "size")
  /\ UNCHANGED <<globals, admin_cmd_id, lba_known, cmd_id, nvars, ctlVars>>

\* nvme_size takes the mutex anew: g_ctrl may be gone by now.
SizeNoController(j) ==
  /\ pc[j] = "size" /\ g_mutex = NoJob /\ g_ctrl = NULL
  /\ Goto(j, "failed")
  /\ UNCHANGED <<globals, admin_cmd_id, lba_known, cmd_id, nvars, ctlVars>>

\* No memory for the identify data: nothing was sent.
SizeFailsEarly(j) ==
  /\ pc[j] = "size" /\ g_mutex = NoJob /\ g_ctrl # NULL
  /\ Goto(j, "failed")
  /\ UNCHANGED <<globals, admin_cmd_id, lba_known, cmd_id, nvars, ctlVars>>

SizeIdentify(j) ==
  /\ pc[j] = "size" /\ Lock(j) /\ g_ctrl # NULL
  /\ Submit(j, "identify", 0)
  /\ UNCHANGED <<g_ctrl, curr_thread_num, next_io_qid, lba_known, nvars, adm_cq,
                 ctl_cqs, ctl_sqs, ctl_epoch>>

LbaKnownNotStored == lba_known

LbaKnown == g_ctrl

\* Then lba_shift and the size are known, unless the namespace has an
\* impossible block size; a namespace of size 0 is an error as well.
SizeDone(j) ==
  /\ Answered(j, "identify") /\ Unlock(j)
  /\ \/ lba_known' = LbaKnown /\ (Goto(j, "init") \/ Goto(j, "failed"))
     \/ lba_known' = lba_known /\ Goto(j, "failed")
  /\ UNCHANGED <<g_ctrl, curr_thread_num, next_io_qid, admin_cmd_id, cmd_id,
                 nvars, adm_pending, ctl_cqs, ctl_sqs, ctl_epoch>>

SizeFails(j) ==
  /\ Unanswered(j, {"identify"}) /\ Unlock(j)
  /\ Goto(j, "failed")
  /\ UNCHANGED <<g_ctrl, curr_thread_num, next_io_qid, admin_cmd_id, lba_known,
                 cmd_id, nvars, adm_pending, ctl_cqs, ctl_sqs, ctl_epoch>>

-----------------------------------------------------------------------------
(* nvme_init and create_io_queue_pair *)

\* fio calls init once the setup of the job is over; the setups of other jobs
\* may come before or after.
InitCalled(j) == pc[j] = "init"

\* nr_files or use_thread is refused, or no memory for nvme_data: the mutex is
\* never taken.
Refused(j) ==
  /\ pc[j] = "setup" \/ InitCalled(j)
  /\ Goto(j, "failed")
  /\ UNCHANGED <<globals, admin_cmd_id, lba_known, cmd_id, nvars, ctlVars>>

InitNoController(j) ==
  /\ InitCalled(j) /\ g_mutex = NoJob /\ g_ctrl = NULL
  /\ Goto(j, "no_controller")
  /\ UNCHANGED <<globals, admin_cmd_id, lba_known, cmd_id, nvars, ctlVars>>

ThreadsAfterInitUncounted == curr_thread_num

ThreadsAfterInit == curr_thread_num + 1

\* next_io_qid++ of a 16-bit counter.
NextQid == (next_io_qid + 1) % QidSpan

\* The identifier of the job's queues: 0, the admin queue's, is replaced.
nvme_io_qid(qid) == IF qid = 0 THEN 1 ELSE qid

\* Memory for CQ, SQ and list pages, then the CREATE I/O CQ command.
InitCreateCq(j) ==
  /\ InitCalled(j) /\ Lock(j) /\ g_ctrl # NULL
  /\ ctrl' = [ctrl EXCEPT ![j] = g_ctrl]
  /\ io_qid' = [io_qid EXCEPT ![j] = next_io_qid]
  /\ next_io_qid' = NextQid
  /\ curr_thread_num' = ThreadsAfterInit
  /\ mem' = [mem EXCEPT ![j] = "allocated"]
  /\ Submit(j, "create_cq", nvme_io_qid(next_io_qid))
  /\ UNCHANGED <<g_ctrl, lba_known, data, adm_cq, ctl_cqs, ctl_sqs, ctl_epoch>>

InitCreateSq(j) ==
  /\ Answered(j, "create_cq")
  /\ Submit(j, "create_sq", nvme_io_qid(io_qid[j]))
  /\ UNCHANGED <<globals, lba_known, nvars, ctl_cqs, ctl_sqs, ctl_epoch>>

InitDone(j) ==
  /\ Answered(j, "create_sq") /\ Unlock(j)
  /\ Goto(j, "alloc")
  /\ UNCHANGED <<g_ctrl, curr_thread_num, next_io_qid, admin_cmd_id, lba_known,
                 cmd_id, nvars, adm_pending, ctl_cqs, ctl_sqs, ctl_epoch>>

\* The job that brings curr_thread_num to 0 is the last user of g_ctrl.
LastThreadOffByOne == curr_thread_num <= 2

LastThread == curr_thread_num = 1

QidAfterLeaveReset == 1

QidAfterLeave == IF LastThread THEN 1 ELSE next_io_qid

ThreadsAfterLeaveUncounted == curr_thread_num

ThreadsAfterLeave == curr_thread_num - 1

\* What nvme_cleanup and a failed nvme_init end with.
LeaveController(j) ==
  /\ ctrl' = [ctrl EXCEPT ![j] = NULL]
  /\ curr_thread_num' = ThreadsAfterLeave
  /\ next_io_qid' = QidAfterLeave
  /\ IF LastThread
     THEN ControllerDeinit /\ g_ctrl' = NULL
     ELSE UNCHANGED <<g_ctrl, adm_pending, ctl_cqs, ctl_sqs>>
  /\ UNCHANGED <<admin_cmd_id, lba_known, cmd_id, io_qid, ctl_epoch>>

\* create_io_queue_pair returns without freeing what it allocated.
MemAfterFailedCreateFreed == "freed"

MemAfterFailedCreate == "allocated"

InitFails(j) ==
  /\ Unanswered(j, {"create_cq", "create_sq"}) /\ Unlock(j)
  /\ mem' = [mem EXCEPT ![j] = MemAfterFailedCreate]
  /\ LeaveController(j)
  /\ Goto(j, "failed")
  /\ UNCHANGED data

\* The queue depth exceeds CAP.MQES or memory is short: nothing was sent, and
\* what had been allocated is free again.
InitFailsEarly(j) ==
  /\ InitCalled(j) /\ g_mutex = NoJob /\ g_ctrl # NULL
  /\ Goto(j, "failed")
  /\ IF curr_thread_num = 0
     THEN ControllerDeinit /\ g_ctrl' = NULL /\ next_io_qid' = 1
     ELSE /\ next_io_qid' = NextQid
          /\ UNCHANGED <<g_ctrl, adm_pending, ctl_cqs, ctl_sqs>>
  /\ UNCHANGED <<g_mutex, curr_thread_num, admin_cmd_id, lba_known, cmd_id, nvars,
                 adm_cq, ctl_epoch>>

-----------------------------------------------------------------------------
(* nvme_alloc and nvme_free, which do not take g_mutex *)

nvme_alloc(j) ==
  /\ pc[j] = "alloc"
  /\ data' = [data EXCEPT ![j] = "allocated"]
  /\ Goto(j, "running")
  /\ UNCHANGED <<globals, admin_cmd_id, lba_known, cmd_id, ctrl, io_qid, mem,
                 ctlVars>>

\* fio ends the job, with cleanup.
AllocFails(j) ==
  /\ pc[j] = "alloc"
  /\ Goto(j, "cleanup")
  /\ UNCHANGED <<globals, admin_cmd_id, lba_known, cmd_id, nvars, ctlVars>>

\* free_dma clears what it is given, and does nothing with cleared memory.
FreedLater(state) == state

Freed(state) == IF state = "allocated" THEN "freed" ELSE state

nvme_free(j) ==
  /\ pc[j] = "running"
  /\ data' = [data EXCEPT ![j] = Freed(@)]
  /\ Goto(j, "cleanup")
  /\ UNCHANGED <<globals, admin_cmd_id, lba_known, cmd_id, ctrl, io_qid, mem,
                 ctlVars>>

-----------------------------------------------------------------------------
(* nvme_cleanup and delete_io_queue_pair *)

CleanupDeleteSq(j) ==
  /\ pc[j] = "cleanup" /\ Lock(j)
  /\ Submit(j, "delete_sq", nvme_io_qid(io_qid[j]))
  /\ UNCHANGED <<g_ctrl, curr_thread_num, next_io_qid, lba_known, nvars, adm_cq,
                 ctl_cqs, ctl_sqs, ctl_epoch>>

CleanupDeleteCq(j) ==
  /\ Answered(j, "delete_sq")
  /\ Submit(j, "delete_cq", nvme_io_qid(io_qid[j]))
  /\ UNCHANGED <<globals, lba_known, nvars, ctl_cqs, ctl_sqs, ctl_epoch>>

CleanupDone(j) ==
  /\ Answered(j, "delete_cq") /\ Unlock(j)
  /\ mem' = [mem EXCEPT ![j] = Freed(@)] /\ data' = [data EXCEPT ![j] = Freed(@)]
  /\ LeaveController(j)
  /\ Goto(j, "done")

\* delete_io_queue_pair returns early; nvme_cleanup ignores that.
CleanupFails(j) ==
  /\ Unanswered(j, {"delete_sq", "delete_cq"}) /\ Unlock(j)
  /\ LeaveController(j)
  /\ Goto(j, "done")
  /\ UNCHANGED <<mem, data>>

-----------------------------------------------------------------------------
Ended == {"done", "failed", "no_controller"}

AllEnded == (\A j \in Job : pc[j] \in Ended) /\ UNCHANGED vars

JobStep(j) ==
  \/ Refused(j) \/ SetupController(j) \/ SetupFails(j) \/ SetupShared(j)
  \/ SizeNoController(j) \/ SizeFailsEarly(j) \/ SizeIdentify(j) \/ SizeDone(j)
  \/ SizeFails(j)
  \/ InitNoController(j) \/ InitFailsEarly(j) \/ InitCreateCq(j)
  \/ InitCreateSq(j) \/ InitDone(j) \/ InitFails(j)
  \/ nvme_alloc(j) \/ AllocFails(j) \/ nvme_free(j)
  \/ CleanupDeleteSq(j) \/ CleanupDeleteCq(j) \/ CleanupDone(j)
  \/ CleanupFails(j)

Next ==
  \/ \E j \in Job : JobStep(j)
  \/ \E c \in adm_pending, ok \in BOOLEAN : CtlExecute(c, ok)
  \/ AllEnded

Spec == Init /\ [][Next]_vars

\* Some job that can go on does: callbacks are not preempted for ever, and
\* waits are bounded by a timeout.  Nothing is assumed of the controller.
Fairness == WF_vars(\E j \in Job : JobStep(j))

-----------------------------------------------------------------------------
(* Properties *)

Qid == 0 .. QidSpan - 1

\* Types.  The part that could fail: curr_thread_num, an int, never falls
\* below 0 nor exceeds the number of jobs.
TypeOK ==
  /\ g_mutex \in Job \cup {NoJob}
  /\ g_ctrl \in Nat /\ curr_thread_num \in 0 .. Cardinality(Job)
  /\ next_io_qid \in Qid /\ lba_known \in Nat /\ admin_cmd_id \in Nat
  /\ pc \in [Job -> Waiting \cup Ended \cup {"setup", "size", "init", "alloc",
                                              "running", "cleanup"}]
  /\ cmd_id \in [Job -> Nat] /\ ctrl \in [Job -> Nat] /\ io_qid \in [Job -> Qid]
  /\ mem \in [Job -> {"none", "allocated", "freed"}]
  /\ data \in [Job -> {"none", "allocated", "freed"}]
  /\ adm_pending \subseteq [cid : Nat, op : Waiting, job : Job, qid : Qid]
  /\ adm_cq \in Seq([cid : Nat, ok : BOOLEAN])
  /\ ctl_cqs \subseteq [qid : Qid, job : Job]
  /\ ctl_sqs \subseteq [qid : Qid, job : Job]
  /\ ctl_epoch \in Nat

\* The controller_data a job uses between init and cleanup is the shared one
\* and has not been freed, however the other jobs start, fail and leave.
ControllerAlive == \A j \in Job : ctrl[j] # NULL => ctrl[j] = g_ctrl

\* A running job has its own SQ and CQ in the controller.  No admin command of
\* another job takes them away, not even one the controller executes after
\* its sender had given up on it, and no late answer is taken for the answer
\* to a later command.  Not even when next_io_qid has wrapped around: the
\* controller refuses to create a queue it already has.
RunningHasQueues ==
  \A j \in Job : pc[j] = "running" =>
    [qid |-> nvme_io_qid(io_qid[j]), job |-> j] \in ctl_cqs \cap ctl_sqs

\* The queue identifier of a CREATE command on its way is one the controller
\* does not have, whatever became of the queues of earlier jobs: next_io_qid
\* starts again at 1 only when the controller has been disabled.  Exempt is a
\* counter that has wrapped around to 0, for which nvme_io_qid takes 1.
QidsFresh ==
  \A c \in adm_pending :
    c.op = "create_cq" /\ io_qid[c.job] # 0 => \A q \in ctl_cqs : q.qid # c.qid

\* Ring memory is not freed while the controller has, or may yet create, a
\* queue in it: delete_io_queue_pair frees it after both answers, and the
\* paths that give up early leave it allocated.
RingMemoryKept ==
  /\ \A q \in ctl_cqs \cup ctl_sqs : mem[q.job] = "allocated"
  /\ \A c \in adm_pending :
       c.op \in {"create_cq", "create_sq"} => mem[c.job] = "allocated"

\* The I/O buffer of a job that has ended is free, even when its queues could
\* not be deleted and delete_io_queue_pair returned before freeing anything.
DataReleased == \A j \in Job : pc[j] \in Ended => data[j] # "allocated"

\* Every job gets to its end whatever the controller does: no callback waits
\* for ever and g_mutex is given back on every path.
JobsEnd == <>(\A j \in Job : pc[j] \in Ended)

=============================================================================
