---------------------------- MODULE EngineProofs ----------------------------
(***************************************************************************)
(* What the engine promises for any number of jobs, whatever the           *)
(* controller answers and however late: types; the shared controller_data  *)
(* outlives its users; buffers are released; a running job has its own     *)
(* queues; and ring memory is kept while the controller may use it.        *)
(***************************************************************************)
EXTENDS Engine, FiniteSetTheorems, TLAPS

\* Where a job uses the controller_data, from the count in nvme_init on.
Active == {"create_cq", "create_sq", "alloc", "running", "cleanup", "delete_sq",
           "delete_cq"}

Users == {j \in Job : ctrl[j] # NULL}

PerJob(f) == f = [j \in Job |-> f[j]]

Types ==
  /\ ctrl \in [Job -> Nat] /\ PerJob(pc) /\ PerJob(data)
  /\ g_ctrl \in Nat /\ ctl_epoch \in Nat /\ curr_thread_num \in Nat

\* curr_thread_num counts the jobs that use the controller.
ThreadsCounted == curr_thread_num = Cardinality(Users)

\* A job uses the controller at exactly these places.
UsersActive == \A j \in Job : ctrl[j] # NULL <=> pc[j] \in Active

\* Only a running job has an I/O buffer.
DataInUse == \A j \in Job : data[j] = "allocated" => pc[j] = "running"

IInv == Types /\ ThreadsCounted /\ UsersActive /\ ControllerAlive /\ DataInUse

USE JobAssumption

\* At first nobody uses the controller.
LEMMA InitIInv == Init => IInv
  <1> SUFFICES ASSUME Init PROVE IInv
    OBVIOUS
  <1>1. Users = {}
    BY DEF Init, Users, NULL
  <1>2. ThreadsCounted
    BY <1>1, FS_EmptySet DEF Init, ThreadsCounted
  <1>3. Types
    BY DEF Init, Types, PerJob, NULL
  <1>4. UsersActive /\ ControllerAlive /\ DataInUse
    BY DEF Init, UsersActive, ControllerAlive, DataInUse, Active
  <1> QED
    BY <1>2, <1>3, <1>4 DEF IInv

\* Users is a finite set, empty exactly when the count is 0.
LEMMA UsersFinite == IsFiniteSet(Users) /\ (Cardinality(Users) = 0 <=> Users = {})
  <1>1. IsFiniteSet(Users)
    BY FS_Subset DEF Users
  <1> QED
    BY <1>1, FS_EmptySet

\* A step that changes no ctrl and moves job j from one place to another of
\* the same kind keeps everything that is about users.
LEMMA MoveIInv ==
  ASSUME IInv, NEW j \in Job, NEW label,
         pc' = [pc EXCEPT ![j] = label],
         pc[j] \in Active <=> label \in Active,
         ctrl' = ctrl, curr_thread_num' = curr_thread_num,
         g_ctrl' \in Nat, ctl_epoch' \in Nat,
         g_ctrl' = g_ctrl \/ Users = {},
         PerJob(data'), DataInUse'
  PROVE  IInv'
  <1>1. Types'
    BY DEF IInv, Types, PerJob
  <1>2. ThreadsCounted'
    BY DEF IInv, ThreadsCounted, Users
  <1>3. UsersActive'
    BY DEF IInv, UsersActive, Types, PerJob
  <1>4. ControllerAlive'
    BY DEF IInv, ControllerAlive, Users
  <1> QED
    BY <1>1, <1>2, <1>3, <1>4 DEF IInv

\* LeaveController takes job j from the users and the count, and frees the
\* controller_data only when no user is left.
LEMMA LeaveIInv ==
  ASSUME IInv, NEW j \in Job, NEW label \in Ended, pc[j] \in Active,
         LeaveController(j), pc' = [pc EXCEPT ![j] = label],
         PerJob(data'), DataInUse'
  PROVE  IInv'
  <1> USE DEF NULL
  <1>1. label \notin Active
    BY DEF Ended, Active
  <1>2. j \in Users
    BY DEF IInv, UsersActive, Users
  <1>3. Users' = Users \ {j}
    BY DEF LeaveController, Users, IInv, Types, PerJob
  <1>4. IsFiniteSet(Users) /\ Cardinality(Users \ {j}) = Cardinality(Users) - 1
    BY <1>2, UsersFinite, FS_RemoveElement, Zenon
  <1>5. curr_thread_num > 0 /\ Cardinality(Users) = curr_thread_num
    BY <1>2, UsersFinite, FS_CardinalityType DEF IInv, ThreadsCounted, Types
  <1>6. curr_thread_num' = curr_thread_num - 1
    BY DEF LeaveController, ThreadsAfterLeave
  <1>7. ThreadsCounted'
    BY <1>3, <1>4, <1>5, <1>6 DEF ThreadsCounted
  <1>8. Types'
    <2>1. ctrl' \in [Job -> Nat] /\ PerJob(pc')
      BY DEF IInv, Types, PerJob, LeaveController
    <2>2. curr_thread_num' \in Nat
      BY <1>5, <1>6 DEF IInv, Types
    <2>3. g_ctrl' \in Nat /\ ctl_epoch' \in Nat
      BY DEF IInv, Types, LeaveController
    <2> QED
      BY <2>1, <2>2, <2>3 DEF Types
  <1>9. UsersActive'
    BY <1>1 DEF IInv, UsersActive, Types, PerJob, LeaveController
  <1>10. ControllerAlive'
    <2>1. CASE LastThread
      <3>1. Cardinality(Users \ {j}) = 0
        BY <2>1, <1>4, <1>5 DEF LastThread
      <3>2. Users' = {}
        BY <3>1, <1>3, <1>4, FS_Subset, FS_EmptySet
      <3> QED
        BY <3>2 DEF ControllerAlive, Users
    <2>2. CASE ~LastThread
      BY <2>2 DEF ControllerAlive, IInv, LeaveController, Types, PerJob
    <2> QED
      BY <2>1, <2>2
  <1> QED
    BY <1>7, <1>8, <1>9, <1>10 DEF IInv

\* InitCreateCq adds job j to the users and the count.
LEMMA EnterIInv ==
  ASSUME IInv, NEW j \in Job, InitCreateCq(j)
  PROVE  IInv'
  <1> USE DEF NULL
  <1>1. pc[j] = "init" /\ pc' = [pc EXCEPT ![j] = "create_cq"]
    BY DEF InitCreateCq, InitCalled, Submit
  <1>2. j \notin Users
    BY <1>1 DEF IInv, UsersActive, Users, Active
  <1>3. Users' = Users \cup {j}
    BY DEF InitCreateCq, Users, IInv, Types, PerJob
  <1>4. Cardinality(Users \cup {j}) = Cardinality(Users) + 1
    BY <1>2, UsersFinite, FS_AddElement
  <1>5. curr_thread_num' = curr_thread_num + 1
    BY DEF InitCreateCq, ThreadsAfterInit
  <1>6. ThreadsCounted'
    BY <1>3, <1>4, <1>5 DEF IInv, ThreadsCounted
  <1>7. Types'
    BY <1>1, <1>5 DEF IInv, Types, PerJob, InitCreateCq
  <1>8. UsersActive'
    BY <1>1 DEF IInv, UsersActive, Types, PerJob, InitCreateCq, Active
  <1>9. ControllerAlive'
    BY DEF ControllerAlive, IInv, InitCreateCq, Types, PerJob
  <1>10. DataInUse'
    BY <1>1 DEF DataInUse, IInv, InitCreateCq, Types, PerJob
  <1> QED
    BY <1>6, <1>7, <1>8, <1>9, <1>10 DEF IInv

\* A step of a job that does not run, and leaves users and buffers alone.
LEMMA QuietIInv ==
  ASSUME IInv, NEW j \in Job, NEW label,
         pc' = [pc EXCEPT ![j] = label], pc[j] # "running",
         pc[j] \in Active <=> label \in Active,
         ctrl' = ctrl, curr_thread_num' = curr_thread_num, data' = data,
         g_ctrl' \in Nat, ctl_epoch' \in Nat, g_ctrl' = g_ctrl \/ Users = {}
  PROVE  IInv'
  <1>1. DataInUse'
    BY DEF IInv, DataInUse, Types, PerJob
  <1>2. PerJob(data')
    BY DEF IInv, Types, PerJob
  <1> QED
    BY <1>1, <1>2, MoveIInv, Zenon

\* Every step of a job keeps the invariant.
LEMMA JobStepIInv ==
  ASSUME IInv, NEW j \in Job, JobStep(j)
  PROVE  IInv'
  <1> DEFINE quiet(label) ==
        /\ pc' = [pc EXCEPT ![j] = label] /\ pc[j] # "running"
        /\ pc[j] \in Active <=> label \in Active
        /\ ctrl' = ctrl /\ curr_thread_num' = curr_thread_num /\ data' = data
        /\ g_ctrl' \in Nat /\ ctl_epoch' \in Nat
        /\ g_ctrl' = g_ctrl \/ Users = {}
  <1>0. g_ctrl \in Nat /\ ctl_epoch \in Nat /\ (g_ctrl = NULL => Users = {})
    BY DEF IInv, Types, ControllerAlive, Users
  <1>1. CASE Refused(j) \/ SetupFails(j) \/ SizeNoController(j) \/ SizeFailsEarly(j)
    <2>1. quiet("failed")
      BY <1>0, <1>1 DEF Refused, SetupFails, SizeNoController, SizeFailsEarly, Goto,
             InitCalled, globals, nvars, ctlVars, Active
    <2> QED
      BY <2>1, QuietIInv, Zenon
  <1>2. CASE SetupController(j)
    <2>1. quiet("size")
      BY <1>0, <1>2 DEF SetupController, ControllerInit, Goto, nvars, Active
    <2> QED
      BY <2>1, QuietIInv, Zenon
  <1>3. CASE SetupShared(j)
    <2>1. quiet("size")
      BY <1>0, <1>3 DEF SetupShared, Goto, globals, nvars, ctlVars, Active
    <2> QED
      BY <2>1, QuietIInv, Zenon
  <1>4. CASE SizeIdentify(j)
    <2>1. quiet("identify")
      BY <1>0, <1>4 DEF SizeIdentify, Submit, nvars, Active
    <2> QED
      BY <2>1, QuietIInv, Zenon
  <1>5. CASE SizeDone(j)
    <2>1. quiet("init") \/ quiet("failed")
      BY <1>0, <1>5 DEF SizeDone, Answered, Goto, nvars, Active
    <2> QED
      BY <2>1, QuietIInv
  <1>6. CASE SizeFails(j)
    <2>1. quiet("failed")
      BY <1>0, <1>6 DEF SizeFails, Unanswered, Goto, nvars, Active
    <2> QED
      BY <2>1, QuietIInv, Zenon
  <1>7. CASE InitNoController(j)
    <2>1. quiet("no_controller")
      BY <1>0, <1>7 DEF InitNoController, InitCalled, Goto, globals, nvars, ctlVars,
             Active
    <2> QED
      BY <2>1, QuietIInv, Zenon
  <1>8. CASE InitFailsEarly(j)
    <2>1. curr_thread_num = 0 => Users = {}
      BY UsersFinite DEF IInv, ThreadsCounted
    <2>2. quiet("failed")
      BY <1>0, <1>8, <2>1 DEF InitFailsEarly, InitCalled, Goto, nvars, Active, NULL
    <2> QED
      BY <2>2, QuietIInv, Zenon
  <1>9. CASE InitCreateCq(j)
    BY <1>9, EnterIInv
  <1>10. CASE InitCreateSq(j)
    <2>1. quiet("create_sq")
      BY <1>0, <1>10 DEF InitCreateSq, Answered, Submit, globals, nvars, Active
    <2> QED
      BY <2>1, QuietIInv, Zenon
  <1>11. CASE InitDone(j)
    <2>1. quiet("alloc")
      BY <1>0, <1>11 DEF InitDone, Answered, Goto, nvars, Active
    <2> QED
      BY <2>1, QuietIInv, Zenon
  <1>12. CASE InitFails(j) \/ CleanupFails(j)
    <2>1. /\ pc[j] \in Active /\ pc[j] # "running" /\ LeaveController(j)
          /\ data' = data
      BY <1>12 DEF InitFails, CleanupFails, Unanswered, Active
    <2>2. PICK label \in Ended : pc' = [pc EXCEPT ![j] = label]
      BY <1>12 DEF InitFails, CleanupFails, Goto, Ended
    <2>3. PerJob(data') /\ DataInUse'
      BY <2>1, <2>2 DEF IInv, DataInUse, Types, PerJob
    <2> QED
      BY <2>1, <2>2, <2>3, LeaveIInv, Zenon
  <1>13. CASE CleanupDone(j)
    <2>1. /\ pc[j] = "delete_cq" /\ LeaveController(j)
          /\ pc' = [pc EXCEPT ![j] = "done"]
          /\ data' = [data EXCEPT ![j] = Freed(data[j])]
      BY <1>13 DEF CleanupDone, Answered, Goto
    <2>2. PerJob(data') /\ DataInUse'
      BY <2>1 DEF IInv, DataInUse, Types, PerJob, Freed
    <2>3. pc[j] \in Active /\ "done" \in Ended
      BY <2>1 DEF Active, Ended
    <2> QED
      BY <2>1, <2>2, <2>3, LeaveIInv, Zenon
  <1>14. CASE nvme_alloc(j)
    <2>1. /\ pc[j] = "alloc" /\ pc' = [pc EXCEPT ![j] = "running"]
          /\ data' = [data EXCEPT ![j] = "allocated"]
          /\ ctrl' = ctrl /\ curr_thread_num' = curr_thread_num
          /\ g_ctrl' = g_ctrl /\ ctl_epoch' = ctl_epoch
      BY <1>14 DEF nvme_alloc, Goto, globals, ctlVars
    <2>2. PerJob(data') /\ DataInUse'
      BY <2>1 DEF IInv, DataInUse, Types, PerJob
    <2>3. pc[j] \in Active /\ "running" \in Active
      BY <2>1 DEF Active
    <2> QED
      BY <1>0, <2>1, <2>2, <2>3, MoveIInv, Zenon
  <1>15. CASE nvme_free(j)
    <2>1. /\ pc[j] = "running" /\ pc' = [pc EXCEPT ![j] = "cleanup"]
          /\ data' = [data EXCEPT ![j] = Freed(data[j])]
          /\ ctrl' = ctrl /\ curr_thread_num' = curr_thread_num
          /\ g_ctrl' = g_ctrl /\ ctl_epoch' = ctl_epoch
      BY <1>15 DEF nvme_free, Goto, globals, ctlVars
    <2>2. PerJob(data') /\ DataInUse'
      BY <2>1 DEF IInv, DataInUse, Types, PerJob, Freed
    <2>3. pc[j] \in Active /\ "cleanup" \in Active
      BY <2>1 DEF Active
    <2> QED
      BY <1>0, <2>1, <2>2, <2>3, MoveIInv, Zenon
  <1>16. CASE AllocFails(j)
    <2>1. quiet("cleanup")
      BY <1>0, <1>16 DEF AllocFails, Goto, globals, nvars, ctlVars, Active
    <2> QED
      BY <2>1, QuietIInv, Zenon
  <1>17. CASE CleanupDeleteSq(j)
    <2>1. quiet("delete_sq")
      BY <1>0, <1>17 DEF CleanupDeleteSq, Submit, nvars, Active
    <2> QED
      BY <2>1, QuietIInv, Zenon
  <1>18. CASE CleanupDeleteCq(j)
    <2>1. quiet("delete_cq")
      BY <1>0, <1>18 DEF CleanupDeleteCq, Answered, Submit, globals, nvars, Active
    <2> QED
      BY <2>1, QuietIInv, Zenon
  <1> QED
    BY <1>1, <1>2, <1>3, <1>4, <1>5, <1>6, <1>7, <1>8, <1>9, <1>10, <1>11, <1>12,
       <1>13, <1>14, <1>15, <1>16, <1>17, <1>18, ZenonT(60) DEF JobStep

\* What the controller does, and stuttering, changes nothing of it.
LEMMA NextIInv == IInv /\ [Next]_vars => IInv'
  <1> SUFFICES ASSUME IInv, [Next]_vars PROVE IInv'
    OBVIOUS
  <1>1. CASE \E j \in Job : JobStep(j)
    BY <1>1, JobStepIInv
  <1>2. CASE UNCHANGED <<globals, nvars, pc, ctl_epoch>>
    <2> USE <1>2 DEF globals, nvars
    <2>1. Types' /\ UsersActive' /\ ControllerAlive' /\ DataInUse'
      BY DEF IInv, Types, PerJob, UsersActive, ControllerAlive, DataInUse
    <2>2. ThreadsCounted'
      BY DEF IInv, ThreadsCounted, Users
    <2> QED
      BY <2>1, <2>2 DEF IInv
  <1>3. CASE \E c \in adm_pending, ok \in BOOLEAN : CtlExecute(c, ok)
    BY <1>2, <1>3 DEF CtlExecute
  <1>4. CASE AllEnded \/ UNCHANGED vars
    BY <1>2, <1>4 DEF AllEnded, vars, ctlVars
  <1> QED
    BY <1>1, <1>3, <1>4 DEF Next

\* The controller_data a job uses is never freed before the job has left,
\* for any number of jobs and any behaviour of the controller.
THEOREM ControllerStaysAlive == Spec => []ControllerAlive
  <1>1. IInv => ControllerAlive
    BY DEF IInv
  <1> QED
    BY <1>1, InitIInv, NextIInv, PTL DEF Spec

\* No job ends with its I/O buffer allocated, whatever became of its queues.
THEOREM DataIsReleased == Spec => []DataReleased
  <1>1. IInv => DataReleased
    BY DEF IInv, DataInUse, DataReleased, Ended
  <1> QED
    BY <1>1, InitIInv, NextIInv, PTL DEF Spec

-----------------------------------------------------------------------------
(* Types *)

\* The counter of queue identifiers stays within its width, and so does the
\* identifier a job makes of it.
LEMMA QidFacts ==
  /\ 0 \in Qid /\ 1 \in Qid
  /\ \A n \in Qid : (n + 1) % QidSpan \in Qid /\ nvme_io_qid(n) \in Qid
  BY SpanAssumption DEF Qid, nvme_io_qid

\* At first all variables have their types.
LEMMA InitTypeOK == Init => TypeOK
  <1> SUFFICES ASSUME Init PROVE TypeOK
    OBVIOUS
  <1>1. Cardinality(Job) \in Nat
    BY FS_CardinalityType
  <1> QED
    BY <1>1, QidFacts DEF Init, TypeOK, Waiting, Ended, NULL

\* The number of jobs bounds curr_thread_num, which counts some of them.
LEMMA ThreadsBounded == IInv => curr_thread_num \in 0 .. Cardinality(Job)
  <1>1. Users \subseteq Job
    BY DEF Users
  <1>2. /\ Cardinality(Users) <= Cardinality(Job)
        /\ Cardinality(Users) \in Nat /\ Cardinality(Job) \in Nat
    BY <1>1, FS_Subset, FS_CardinalityType
  <1> QED
    BY <1>2 DEF IInv, ThreadsCounted

\* Every step keeps the types.
LEMMA NextTypeOK ==
  ASSUME TypeOK, IInv', [Next]_vars
  PROVE  TypeOK'
  <1>1. (IInv => curr_thread_num \in 0 .. Cardinality(Job))'
    BY ThreadsBounded, PTL
  <1>2. /\ curr_thread_num' \in 0 .. Cardinality(Job)
        /\ g_ctrl' \in Nat /\ ctl_epoch' \in Nat /\ ctrl' \in [Job -> Nat]
    BY <1>1 DEF IInv, Types
  <1>3. ASSUME NEW j \in Job, JobStep(j)
        PROVE  TypeOK'
    <2> DEFINE Answer == [cid : Nat, ok : BOOLEAN]
               Command == [cid : Nat, op : Waiting, job : Job, qid : Qid]
               Queue == [qid : Qid, job : Job]
    <2> USE <1>2, QidFacts DEF TypeOK, globals, nvars, ctlVars, Goto, Waiting, Ended
    <2>1. CASE Refused(j) \/ SetupFails(j) \/ SetupShared(j) \/ SizeNoController(j)
               \/ SizeFailsEarly(j) \/ InitNoController(j) \/ AllocFails(j)
      BY <2>1, Zenon DEF Refused, SetupFails, SetupShared, SizeNoController, SizeFailsEarly,
             InitNoController, AllocFails
    <2>2. CASE SetupController(j)
      BY <2>2 DEF SetupController, ControllerInit
    <2>s. ASSUME NEW op \in Waiting, NEW qid \in Qid, Submit(j, op, qid)
          PROVE  /\ adm_pending' \subseteq Command /\ admin_cmd_id' \in Nat
                 /\ cmd_id' \in [Job -> Nat]
      BY <2>s DEF Submit
    <2>3. CASE SizeIdentify(j)
      BY <2>3 DEF SizeIdentify, Submit, Lock
    <2>a. ASSUME NEW op, Answered(j, op) PROVE adm_cq' \in Seq(Answer)
      BY <2>a DEF Answered
    <2>b. ASSUME NEW ops, Unanswered(j, ops) PROVE adm_cq' \in Seq(Answer)
      <3>1. adm_cq # <<>> => Tail(adm_cq) \in Seq(Answer)
        OBVIOUS
      <3> QED
        BY <2>b, <3>1, Zenon DEF Unanswered
    <2>4. CASE SizeDone(j)
      <3>1. lba_known' \in Nat /\ (Goto(j, "init") \/ Goto(j, "failed"))
        BY <2>4 DEF SizeDone, LbaKnown
      <3> QED
        BY <2>4, <2>a, <3>1, Zenon DEF SizeDone, Unlock
    <2>5. CASE SizeFails(j)
      BY <2>5, <2>b, Zenon DEF SizeFails, Unlock
    <2>6. CASE InitFailsEarly(j)
      BY <2>6 DEF InitFailsEarly, ControllerDeinit, NextQid
    <2>7. CASE InitCreateCq(j)
      BY <2>7 DEF InitCreateCq, Submit, Lock, NextQid
    <2>8. CASE InitCreateSq(j)
      <3>1. nvme_io_qid(io_qid[j]) \in Qid /\ "create_sq" \in Waiting
        BY Zenon
      <3>2. /\ adm_pending' \subseteq Command /\ admin_cmd_id' \in Nat
            /\ cmd_id' \in [Job -> Nat] /\ adm_cq' \in Seq(Answer)
        BY <2>8, <2>s, <2>a, <3>1, Zenon DEF InitCreateSq
      <3> QED
        BY <2>8, <3>2, Zenon DEF InitCreateSq, Submit
    <2>9. CASE InitDone(j)
      BY <2>9 DEF InitDone, Answered, Unlock
    <2>c. ASSUME LeaveController(j)
          PROVE  /\ next_io_qid' \in Qid /\ admin_cmd_id' \in Nat /\ lba_known' \in Nat
                 /\ cmd_id' \in [Job -> Nat] /\ io_qid' \in [Job -> Qid]
                 /\ adm_pending' \subseteq Command
                 /\ ctl_cqs' \subseteq Queue /\ ctl_sqs' \subseteq Queue
      BY <2>c DEF LeaveController, QidAfterLeave, ControllerDeinit
    <2>10. CASE InitFails(j)
      BY <2>10, <2>b, <2>c, Zenon DEF InitFails, Unlock, MemAfterFailedCreate
    <2>11. CASE nvme_alloc(j) \/ nvme_free(j)
      BY <2>11, Zenon DEF nvme_alloc, nvme_free, Freed
    <2>12. CASE CleanupDeleteSq(j)
      BY <2>12 DEF CleanupDeleteSq, Submit, Lock
    <2>13. CASE CleanupDeleteCq(j)
      <3>1. nvme_io_qid(io_qid[j]) \in Qid /\ "delete_cq" \in Waiting
        BY Zenon
      <3>2. /\ adm_pending' \subseteq Command /\ admin_cmd_id' \in Nat
            /\ cmd_id' \in [Job -> Nat] /\ adm_cq' \in Seq(Answer)
        BY <2>13, <2>s, <2>a, <3>1, Zenon DEF CleanupDeleteCq
      <3> QED
        BY <2>13, <3>2, Zenon DEF CleanupDeleteCq, Submit
    <2>14. CASE CleanupDone(j)
      BY <2>14, <2>a, <2>c, Zenon DEF CleanupDone, Unlock, Freed
    <2>15. CASE CleanupFails(j)
      BY <2>15, <2>b, <2>c, Zenon DEF CleanupFails, Unlock
    <2> HIDE <1>2, QidFacts DEF TypeOK, globals, nvars, ctlVars, Goto, Waiting, Ended
    <2> QED
      BY <1>3, <2>1, <2>2, <2>3, <2>4, <2>5, <2>6, <2>7, <2>8, <2>9, <2>10, <2>11,
         <2>12, <2>13, <2>14, <2>15, ZenonT(60) DEF JobStep
  <1>4. ASSUME NEW c \in adm_pending, NEW ok \in BOOLEAN, CtlExecute(c, ok)
        PROVE  TypeOK'
    <2>1. c \in [cid : Nat, op : Waiting, job : Job, qid : Qid]
      BY DEF TypeOK
    <2>2. [cid |-> c.cid, ok |-> ok] \in [cid : Nat, ok : BOOLEAN]
      BY <2>1
    <2>3. adm_cq' \in Seq([cid : Nat, ok : BOOLEAN])
      BY <1>4, <2>2 DEF TypeOK, CtlExecute
    <2>4. [qid |-> c.qid, job |-> c.job] \in [qid : Qid, job : Job]
      BY <2>1
    <2>5. ctl_cqs' \subseteq [qid : Qid, job : Job]
      BY <1>4, <2>4 DEF TypeOK, CtlExecute
    <2>6. ctl_sqs' \subseteq [qid : Qid, job : Job]
      BY <1>4, <2>4 DEF TypeOK, CtlExecute
    <2> QED
      BY <1>2, <1>4, <2>3, <2>5, <2>6, Zenon DEF TypeOK, CtlExecute, globals, nvars
  <1>5. CASE AllEnded \/ UNCHANGED vars
    BY <1>5, Zenon DEF AllEnded, TypeOK, vars, globals, nvars, ctlVars
  <1> QED
    BY <1>3, <1>4, <1>5 DEF Next

\* curr_thread_num never falls below 0 nor exceeds the number of jobs, queue
\* identifiers stay within their width, and every variable keeps its type,
\* for any number of jobs.
THEOREM TypeCorrect == Spec => []TypeOK
  BY InitTypeOK, NextTypeOK, InitIInv, NextIInv, PTL DEF Spec

-----------------------------------------------------------------------------
(* Admin commands and I/O queues.  The invariant says who waits for what,   *)
(* that no command is answered twice or confused with another, and what an  *)
(* answer and a command on its way say about the controller's queues.       *)

\* The completions that have not been consumed.
Answers == {adm_cq[i] : i \in DOMAIN adm_cq}

\* Where a job has not got to create_io_queue_pair yet, and where both its
\* queues are there to be used.
Before == {"setup", "size", "identify", "init"}
HasBoth == {"alloc", "running", "cleanup"}

OwnQueue(j) == [qid |-> nvme_io_qid(io_qid[j]), job |-> j]

\* A job waits for an answer under g_mutex, and for the one to the newest
\* command.
LockHeld ==
  \A j \in Job : /\ pc[j] \in Waiting <=> g_mutex = j
                 /\ pc[j] \in Waiting => g_ctrl # NULL /\ admin_cmd_id = cmd_id[j] + 1

\* Without controller_data there is nothing in the controller.
Disabled == g_ctrl = NULL => adm_pending = {} /\ ctl_cqs = {} /\ ctl_sqs = {}

\* The sender of a command on its way waits for it or has given up and ended.
PendingOf ==
  \A c \in adm_pending :
    /\ c.cid < admin_cmd_id
    /\ pc[c.job] \in Ended \/ (pc[c.job] = c.op /\ c.cid = cmd_id[c.job])
    /\ \A k \in Job : pc[k] \in Waiting /\ c.cid = cmd_id[k] => c.job = k
    /\ c.op # "identify" => c.qid = nvme_io_qid(io_qid[c.job])

\* Identifiers are not used twice, and a job has one command on its way.
AnswersOnce ==
  /\ \A a \in Answers : a.cid < admin_cmd_id
  /\ \A c \in adm_pending, a \in Answers : a.cid # c.cid
  /\ \A c, d \in adm_pending : c.cid = d.cid \/ c.job = d.job => c = d

CommandInv == LockHeld /\ Disabled /\ PendingOf /\ AnswersOnce

\* A queue is its job's only one of its kind, and the only one with its
\* identifier.
QueuesOwned ==
  /\ \A q \in ctl_cqs \cup ctl_sqs : q = OwnQueue(q.job) /\ pc[q.job] \notin Before
  /\ \A q, r \in ctl_cqs : q.qid = r.qid => q = r
  /\ \A q, r \in ctl_sqs : q.qid = r.qid => q = r

HasQueues ==
  \A j \in Job :
    /\ pc[j] \in HasBoth \cup {"create_sq", "delete_sq"} => OwnQueue(j) \in ctl_cqs
    /\ pc[j] \in HasBoth => OwnQueue(j) \in ctl_sqs

\* What a DELETE on its way will remove is the queue of its sender, who may
\* have ended long ago.
DeletesOwn ==
  \A c \in adm_pending :
    /\ c.op = "delete_sq" => OwnQueue(c.job) \in ctl_sqs
    /\ c.op = "delete_cq" => OwnQueue(c.job) \in ctl_cqs

\* A successful answer that its job has yet to read still tells the truth.
AnswerMeansDone ==
  \A j \in Job, a \in Answers :
    pc[j] \in Waiting /\ a.cid = cmd_id[j] /\ a.ok =>
      /\ pc[j] = "create_cq" => OwnQueue(j) \in ctl_cqs
      /\ pc[j] = "create_sq" => OwnQueue(j) \in ctl_sqs
      /\ pc[j] = "delete_cq" => \A q \in ctl_cqs \cup ctl_sqs : q.job # j

QueueInv == QueuesOwned /\ HasQueues /\ DeletesOwn /\ AnswerMeansDone /\ RingMemoryKept

AllInv == IInv /\ TypeOK /\ CommandInv /\ QueueInv

\* The three kinds of steps of a job, apart from SetupController.  It sends a
\* command; or it moves on without one, and the controller keeps what it has
\* or, with its last user, is disabled.
Sends(j, op, qid) ==
  /\ Submit(j, op, qid) /\ op \in Waiting /\ qid \in Qid
  /\ g_mutex \in {NoJob, j} /\ g_mutex' = j /\ g_ctrl # NULL /\ pc[j] \notin Ended
  /\ Answers' \subseteq Answers
  /\ \A c \in adm_pending : c.job # j
  /\ UNCHANGED <<g_ctrl, ctl_cqs, ctl_sqs>>
  /\ \/ UNCHANGED <<io_qid, mem>>
     \/ /\ pc[j] \in Before
        /\ \A k \in Job \ {j} : io_qid'[k] = io_qid[k] /\ mem'[k] = mem[k]
  /\ op # "identify" => qid = nvme_io_qid(io_qid'[j])
  /\ pc[j] \notin Before => op \notin Before
  /\ op \in {"create_sq", "delete_sq", "delete_cq"} => OwnQueue(j)' \in ctl_cqs
  /\ op = "delete_sq" => OwnQueue(j)' \in ctl_sqs
  /\ op \in {"create_cq", "create_sq"} => mem'[j] = "allocated"

Moves(j, label) ==
  /\ Goto(j, label) /\ label \notin Waiting /\ pc[j] \notin Ended
  /\ g_mutex' = IF pc[j] \in Waiting THEN NoJob ELSE g_mutex
  /\ Answers' \subseteq Answers
  /\ UNCHANGED <<admin_cmd_id, cmd_id, io_qid>>
  /\ \/ UNCHANGED <<g_ctrl, adm_pending, ctl_cqs, ctl_sqs>>
     \/ g_mutex' = NoJob /\ Users' = {} /\ ControllerDeinit
  /\ label \in Ended \/ \A c \in adm_pending : c.job # j
  /\ pc[j] \notin Before => label \notin Before
  /\ label \in HasBoth => OwnQueue(j) \in ctl_cqs /\ OwnQueue(j) \in ctl_sqs
  /\ \A k \in Job :
       \/ mem'[k] \in {mem[k], "allocated"}
       \/ /\ \A q \in ctl_cqs \cup ctl_sqs : q.job # k
          /\ \A c \in adm_pending : c.job # k

\* Consuming an entry leaves the other answers, and the entry was one of them.
LEMMA AnswersConsumed ==
  ASSUME TypeOK
  PROVE  /\ \A a \in Answers : a.cid \in Nat
         /\ adm_cq # <<>> => Head(adm_cq) \in Answers
         /\ adm_cq # <<>> /\ adm_cq' = Tail(adm_cq) => Answers' \subseteq Answers
         /\ adm_cq' = adm_cq => Answers' = Answers
         /\ adm_cq' = <<>> => Answers' = {}
         /\ \A a : adm_cq' = Append(adm_cq, a) => Answers' = Answers \cup {a}
  <1> DEFINE Answer == [cid : Nat, ok : BOOLEAN]
  <1>0. adm_cq \in Seq(Answer)
    BY DEF TypeOK
  <1> HIDE DEF Answer
  <1>6. \A a \in Answers : a.cid \in Nat
    <2>1. \A a \in Answers : a \in Answer
      BY <1>0 DEF Answers
    <2> QED
      BY <2>1 DEF Answer
  <1>1. adm_cq # <<>> => Head(adm_cq) \in Answers
    BY <1>0 DEF Answers
  <1>2. adm_cq # <<>> /\ adm_cq' = Tail(adm_cq) => Answers' \subseteq Answers
    BY <1>0 DEF Answers
  <1>3. adm_cq' = adm_cq => Answers' = Answers
    BY DEF Answers
  <1>4. adm_cq' = <<>> => Answers' = {}
    BY DEF Answers
  <1>5. ASSUME NEW a, adm_cq' = Append(adm_cq, a) PROVE Answers' = Answers \cup {a}
    BY <1>0, <1>5 DEF Answers
  <1> QED
    BY <1>1, <1>2, <1>3, <1>4, <1>5, <1>6

\* What a job sends joins the commands on their way with a new identifier.
LEMMA SendsInv ==
  ASSUME AllInv, NEW j \in Job, NEW op, NEW qid, Sends(j, op, qid)
  PROVE  CommandInv' /\ QueueInv'
  <1> DEFINE new == [cid |-> admin_cmd_id, op |-> op, job |-> j, qid |-> qid]
  <1> USE DEF AllInv, CommandInv, QueueInv
  <1>1. /\ pc' = [pc EXCEPT ![j] = op] /\ cmd_id' = [cmd_id EXCEPT ![j] = admin_cmd_id]
        /\ admin_cmd_id' = admin_cmd_id + 1 /\ adm_pending' = adm_pending \cup {new}
    BY DEF Sends, Submit
  <1>0. new.cid = admin_cmd_id /\ new.op = op /\ new.job = j /\ new.qid = qid
    OBVIOUS
  <1> HIDE DEF new
  <1>2. \A k \in Job : pc'[k] = IF k = j THEN op ELSE pc[k]
    BY <1>1 DEF TypeOK
  <1>3. \A k \in Job : cmd_id'[k] = IF k = j THEN admin_cmd_id ELSE cmd_id[k]
    BY <1>1 DEF TypeOK
  <1>4. op \in Waiting /\ op \notin Ended
    BY DEF Sends, Waiting, Ended
  <1>5. /\ \A c \in adm_pending : /\ c.job \in Job /\ c.job # j /\ c.cid \in Nat
                                  /\ c.cid < admin_cmd_id
        /\ admin_cmd_id \in Nat /\ \A k \in Job : cmd_id[k] \in Nat
    BY DEF Sends, TypeOK, PendingOf
  <1>6. LockHeld'
    <2>1. \A k \in Job : k # j => pc[k] \notin Waiting
      BY DEF Sends, LockHeld
    <2>2. g_mutex' = j /\ g_ctrl' # NULL
      BY DEF Sends
    <2> QED
      BY <1>1, <1>2, <1>3, <1>4, <2>1, <2>2, ZenonT(60) DEF LockHeld, NULL
  <1>7. Disabled'
    BY DEF Disabled, Sends, NULL
  <1>8. PendingOf'
    <2>1. \A c \in adm_pending : io_qid'[c.job] = io_qid[c.job]
      BY <1>5 DEF Sends
    <2>2. op # "identify" => qid = nvme_io_qid(io_qid'[j])
      BY DEF Sends
    <2>3. \A k \in Job : k # j => pc'[k] \notin Waiting
      BY <1>6 DEF Sends, LockHeld
    <2>4. \A c \in adm_pending' : c.cid < admin_cmd_id'
      BY <1>0, <1>1, <1>5
    <2>5. \A c \in adm_pending : c.cid # cmd_id'[j] /\ pc'[c.job] = pc[c.job]
      BY <1>2, <1>3, <1>5
    <2>6. pc'[j] = op /\ cmd_id'[j] = admin_cmd_id
      BY <1>2, <1>3, Zenon
    <2>7. \A c \in adm_pending : cmd_id'[c.job] = cmd_id[c.job]
      BY <1>3, <1>5, Zenon
    <2> SUFFICES ASSUME NEW c \in adm_pending'
                 PROVE  /\ pc'[c.job] \in Ended
                           \/ (pc'[c.job] = c.op /\ c.cid = cmd_id'[c.job])
                        /\ \A k \in Job : pc'[k] \in Waiting /\ c.cid = cmd_id'[k]
                                             => c.job = k
                        /\ c.op # "identify" => c.qid = nvme_io_qid(io_qid'[c.job])
      BY <2>4, Zenon DEF PendingOf, nvme_io_qid
    <2>8. CASE c = new
      BY <1>0, <2>2, <2>3, <2>6, <2>8, Zenon
    <2>9. CASE c \in adm_pending
      BY <2>1, <2>3, <2>5, <2>7, <2>9, Zenon DEF PendingOf
    <2> QED
      BY <1>1, <2>8, <2>9, ZenonT(60)
  <1>9. AnswersOnce'
    <2>1. \A a \in Answers : a.cid \in Nat
      BY AnswersConsumed, Zenon
    <2>2. Answers' \subseteq Answers
      BY DEF Sends
    <2> QED
      BY <1>0, <1>1, <1>5, <2>1, <2>2 DEF AnswersOnce
  <1> DEFINE queues == ctl_cqs \cup ctl_sqs
  <1>10. ctl_cqs' = ctl_cqs /\ ctl_sqs' = ctl_sqs
    BY DEF Sends
  <1>11. \A q \in queues : q.job \in Job /\ (q.job = j => pc[j] \notin Before)
    BY DEF QueuesOwned, TypeOK
  <1>12. \A q \in queues : OwnQueue(q.job)' = OwnQueue(q.job) /\ pc'[q.job] \notin Before
    BY <1>2, <1>11 DEF Sends, QueuesOwned, OwnQueue, nvme_io_qid
  <1>13. QueuesOwned'
    BY <1>10, <1>12 DEF QueuesOwned
  <1>14. HasQueues'
    <2>1. \A k \in Job : k # j => OwnQueue(k)' = OwnQueue(k)
      BY Zenon DEF Sends, OwnQueue, nvme_io_qid
    <2>2. op \notin HasBoth
      BY <1>4, SMTT(30) DEF HasBoth, Waiting
    <2>3. op \in {"create_sq", "delete_sq"} => OwnQueue(j)' \in ctl_cqs
      BY Zenon DEF Sends
    <2> QED
      BY <1>2, <1>10, <2>1, <2>2, <2>3, SMTT(30) DEF HasQueues
  <1>15. DeletesOwn'
    <2>1. \A c \in adm_pending : OwnQueue(c.job)' = OwnQueue(c.job)
      BY <1>5, Zenon DEF Sends, OwnQueue, nvme_io_qid
    <2>2. /\ op = "delete_cq" => OwnQueue(j)' \in ctl_cqs
          /\ op = "delete_sq" => OwnQueue(j)' \in ctl_sqs
      BY Zenon DEF Sends
    <2> QED
      BY <1>0, <1>1, <1>10, <2>1, <2>2, ZenonT(30) DEF DeletesOwn
  <1>16. AnswerMeansDone'
    <2>1. \A a \in Answers' : a.cid < cmd_id'[j]
      BY <1>3, ZenonT(60) DEF Sends, AnswersOnce
    <2>2. \A k \in Job : k # j => pc'[k] \notin Waiting
      BY <1>6 DEF Sends, LockHeld
    <2>3. cmd_id'[j] \in Nat /\ \A a \in Answers' : a.cid \in Nat
      BY <1>3, <1>5, AnswersConsumed DEF Sends
    <2>4. \A a \in Answers' : a.cid # cmd_id'[j]
      BY <2>1, <2>3
    <2> QED
      BY <2>2, <2>4, ZenonT(30) DEF AnswerMeansDone
  <1>17. RingMemoryKept'
    <2>1. \A k \in Job : k # j => mem'[k] = mem[k]
      BY DEF Sends
    <2>2. \A q \in queues : q.job = j => mem'[j] = mem[j]
      BY DEF Sends, QueuesOwned
    <2>3. \A q \in queues : q.job \in Job
      BY DEF TypeOK
    <2>4. op \in {"create_cq", "create_sq"} => mem'[j] = "allocated"
      BY DEF Sends
    <2> QED
      BY <1>0, <1>1, <1>5, <1>10, <2>1, <2>2, <2>3, <2>4, ZenonT(60) DEF RingMemoryKept
  <1> QED
    BY <1>6, <1>7, <1>8, <1>9, <1>13, <1>14, <1>15, <1>16, <1>17, ZenonT(60)

\* A job that moves on leaves the queues of the others alone.
LEMMA MovesInv ==
  ASSUME AllInv, IInv', NEW j \in Job, NEW label, Moves(j, label)
  PROVE  CommandInv' /\ QueueInv'
  <1> USE DEF AllInv, CommandInv, QueueInv
  <1>1. \A k \in Job : pc'[k] = IF k = j THEN label ELSE pc[k]
    BY ZenonT(30) DEF Moves, Goto, TypeOK
  <1>2. label \notin Waiting /\ admin_cmd_id' = admin_cmd_id /\ cmd_id' = cmd_id
    BY ZenonT(30) DEF Moves
  <1>3. \A k \in Job : OwnQueue(k)' = OwnQueue(k) /\ io_qid'[k] = io_qid[k]
    BY Zenon DEF Moves, OwnQueue, nvme_io_qid
  <1>4. /\ \A c \in adm_pending : c.job \in Job
        /\ \A q \in ctl_cqs \cup ctl_sqs : q.job \in Job
    BY DEF TypeOK
  <1>5. CASE UNCHANGED <<g_ctrl, adm_pending, ctl_cqs, ctl_sqs>>
    <2>1. LockHeld'
      <3>1. g_mutex' = IF pc[j] \in Waiting THEN NoJob ELSE g_mutex
        BY DEF Moves
      <3> QED
        BY <1>1, <1>2, <1>5, <3>1 DEF LockHeld, NULL
    <2>2. Disabled'
      BY <1>5, SMTT(30) DEF Disabled, NULL
    <2>3. PendingOf'
      <3>1. label \in Ended \/ \A c \in adm_pending : c.job # j
        BY DEF Moves
      <3>2. pc[j] \notin Ended
        BY DEF Moves
      <3>3. \A c \in adm_pending : pc'[c.job] \in Ended \/ pc'[c.job] = pc[c.job]
        BY <1>1, <1>4, <3>1
      <3>4. \A c \in adm_pending : pc[c.job] \in Ended => pc'[c.job] \in Ended
        BY <1>1, <1>4, <3>2
      <3>5. \A k \in Job : pc'[k] \in Waiting => pc[k] \in Waiting
        BY <1>1, <1>2
      <3> QED
        BY <1>2, <1>3, <1>4, <1>5, <3>3, <3>4, <3>5, ZenonT(60) DEF PendingOf, nvme_io_qid
    <2>4. AnswersOnce'
      <3>1. Answers' \subseteq Answers
        BY DEF Moves
      <3> QED
        BY <1>2, <1>5, <3>1 DEF AnswersOnce
    <2>5. QueuesOwned'
      <3>1. \A q \in ctl_cqs \cup ctl_sqs : pc'[q.job] \notin Before
        BY <1>1, <1>4, Zenon DEF Moves, QueuesOwned
      <3> QED
        BY <1>3, <1>4, <1>5, <3>1, Zenon DEF QueuesOwned
    <2>6. HasQueues'
      <3>1. /\ label \notin {"create_sq", "delete_sq"}
            /\ label \in HasBoth => OwnQueue(j) \in ctl_cqs /\ OwnQueue(j) \in ctl_sqs
        BY Zenon DEF Moves, Waiting
      <3> QED
        BY <1>1, <1>3, <1>5, <3>1, Zenon DEF HasQueues
    <2>7. DeletesOwn'
      BY <1>3, <1>4, <1>5, ZenonT(60) DEF DeletesOwn
    <2>8. AnswerMeansDone'
      <3>1. Answers' \subseteq Answers
        BY DEF Moves
      <3> QED
        BY <1>1, <1>2, <1>3, <1>5, <3>1, SMTT(30) DEF AnswerMeansDone
    <2>9. RingMemoryKept'
      <3>1. \A k \in Job :
              \/ mem'[k] \in {mem[k], "allocated"}
              \/ /\ \A q \in ctl_cqs \cup ctl_sqs : q.job # k
                 /\ \A c \in adm_pending : c.job # k
        BY Zenon DEF Moves
      <3> QED
        BY <1>4, <1>5, <3>1, SMTT(30) DEF RingMemoryKept
    <2> QED
      BY <2>1, <2>2, <2>3, <2>4, <2>5, <2>6, <2>7, <2>8, <2>9, ZenonT(60)
  <1>6. CASE g_mutex' = NoJob /\ Users' = {} /\ ControllerDeinit
    <2>1. \A k \in Job : pc'[k] \notin Active
      BY <1>6 DEF IInv, UsersActive, Users
    <2>2. adm_pending' = {} /\ ctl_cqs' = {} /\ ctl_sqs' = {}
      BY <1>6 DEF ControllerDeinit
    <2>3. \A k \in Job : pc'[k] \notin Waiting
      <3>1. \A k \in Job : pc[k] \in Waiting => k = j \/ g_mutex # NoJob
        BY DEF LockHeld
      <3>2. \A k \in Job : pc[k] \in Waiting => k = j \/ g_mutex = k
        BY DEF LockHeld
      <3>3. g_mutex' = IF pc[j] \in Waiting THEN NoJob ELSE g_mutex
        BY DEF Moves
      <3> QED
        BY <1>1, <1>2, <1>6, <3>1, <3>2, <3>3 DEF LockHeld
    <2>4. LockHeld' /\ Disabled'
      BY <1>6, <2>2, <2>3 DEF LockHeld, Disabled
    <2>5. PendingOf' /\ AnswersOnce'
      <3>1. Answers' \subseteq Answers
        BY DEF Moves
      <3> QED
        BY <1>2, <2>2, <3>1 DEF PendingOf, AnswersOnce
    <2>6. QueuesOwned' /\ DeletesOwn' /\ RingMemoryKept'
      BY <2>2, ZenonT(60) DEF QueuesOwned, DeletesOwn, RingMemoryKept
    <2>7. HasQueues' /\ AnswerMeansDone'
      BY <2>1, <2>3 DEF HasQueues, AnswerMeansDone, HasBoth, Active
    <2> QED
      BY <2>4, <2>5, <2>6, <2>7, ZenonT(60)
  <1> QED
    BY <1>5, <1>6, SMTT(30) DEF Moves

\* A fresh controller has no queues and no commands, and nobody waits.
LEMMA SetupInv ==
  ASSUME AllInv, NEW j \in Job, SetupController(j)
  PROVE  CommandInv' /\ QueueInv'
  <1> USE DEF AllInv, CommandInv, QueueInv
  <1>1. /\ adm_pending' = {} /\ ctl_cqs' = {} /\ ctl_sqs' = {}
        /\ g_mutex' = NoJob /\ g_mutex = NoJob
    BY DEF SetupController, Disabled
  <1>2. Answers' = {}
    BY AnswersConsumed DEF SetupController, ControllerInit
  <1>3. \A k \in Job : pc'[k] = IF k = j THEN "size" ELSE pc[k]
    BY DEF SetupController, Goto, TypeOK
  <1>4. \A k \in Job : pc'[k] \notin Waiting
    BY <1>1, <1>3, SMTT(30) DEF LockHeld, Waiting
  <1>5. LockHeld' /\ Disabled' /\ PendingOf' /\ AnswersOnce'
    BY <1>1, <1>2, <1>4, ZenonT(30) DEF LockHeld, Disabled, PendingOf, AnswersOnce
  <1>6. QueuesOwned' /\ DeletesOwn' /\ RingMemoryKept' /\ AnswerMeansDone'
    BY <1>1, <1>2, ZenonT(60) DEF QueuesOwned, DeletesOwn, RingMemoryKept, AnswerMeansDone
  <1>7. HasQueues'
    <2>1. \A k \in Job : pc[k] \notin Active
      BY Zenon DEF SetupController, IInv, UsersActive, ControllerAlive
    <2> QED
      BY <1>3, <2>1, SMTT(30) DEF HasQueues, HasBoth, Active
  <1> QED
    BY <1>5, <1>6, <1>7

\* The controller executes a command that its sender may have given up on.
LEMMA ExecuteInv ==
  ASSUME AllInv, NEW c \in adm_pending, NEW ok \in BOOLEAN, CtlExecute(c, ok)
  PROVE  CommandInv' /\ QueueInv'
  <1> DEFINE answer == [cid |-> c.cid, ok |-> ok]
             queue == [qid |-> c.qid, job |-> c.job]
  <1> USE DEF AllInv, CommandInv, QueueInv
  <1>1. /\ UNCHANGED <<g_mutex, g_ctrl, admin_cmd_id, pc, cmd_id, io_qid, mem>>
        /\ adm_pending' = adm_pending \ {c}
        /\ ok => Possible(c)
    BY DEF CtlExecute, globals, nvars
  <1>0. /\ answer.cid = c.cid /\ answer.ok = ok
        /\ queue.qid = c.qid /\ queue.job = c.job
        /\ queue = [qid |-> c.qid, job |-> c.job]
    OBVIOUS
  <1>2. /\ c.job \in Job /\ c.op \in Waiting /\ c.cid \in Nat
        /\ \A d \in adm_pending : d.job \in Job
        /\ \A q \in ctl_cqs \cup ctl_sqs : q.job \in Job
    BY DEF TypeOK
  <1>3. Answers' = Answers \cup {answer}
    BY AnswersConsumed DEF CtlExecute
  <1>4. \A k \in Job : OwnQueue(k)' = OwnQueue(k)
    BY <1>1 DEF OwnQueue, nvme_io_qid
  <1>5. LockHeld' /\ Disabled'
    BY <1>1 DEF LockHeld, Disabled, CtlExecute, NULL
  <1>6. PendingOf'
    BY <1>1, Zenon DEF PendingOf, nvme_io_qid
  <1>7. AnswersOnce'
    <2> HIDE DEF answer
    <2>1. \A a \in Answers' : a.cid < admin_cmd_id'
      BY <1>0, <1>1, <1>3, Zenon DEF AnswersOnce, PendingOf
    <2>2. \A d \in adm_pending', a \in Answers' : a.cid # d.cid
      BY <1>0, <1>1, <1>3, ZenonT(60) DEF AnswersOnce
    <2>3. \A d, e \in adm_pending' : d.cid = e.cid \/ d.job = e.job => d = e
      BY <1>1, Zenon DEF AnswersOnce
    <2> QED
      BY <2>1, <2>2, <2>3, Zenon DEF AnswersOnce
  <1>8. /\ c.op # "identify" => queue = OwnQueue(c.job)
        /\ pc[c.job] = c.op \/ pc[c.job] \in Ended
    BY DEF PendingOf, OwnQueue
  <1>9. /\ \A q \in ctl_cqs' : q \in ctl_cqs \/ (ok /\ c.op = "create_cq" /\ q = queue)
        /\ \A q \in ctl_sqs' : q \in ctl_sqs \/ (ok /\ c.op = "create_sq" /\ q = queue)
    BY DEF CtlExecute
  <1>10. \A q \in ctl_cqs : q \in ctl_cqs' \/ (c.op = "delete_cq" /\ q = OwnQueue(c.job))
    <2>1. c.op = "delete_cq" => OwnQueue(c.job) \in ctl_cqs /\ OwnQueue(c.job).qid = c.qid
      BY <1>8 DEF DeletesOwn, OwnQueue
    <2> QED
      BY <2>1 DEF CtlExecute, QueuesOwned
  <1>11. \A q \in ctl_sqs : q \in ctl_sqs' \/ (c.op = "delete_sq" /\ q = OwnQueue(c.job))
    <2>1. c.op = "delete_sq" => OwnQueue(c.job) \in ctl_sqs /\ OwnQueue(c.job).qid = c.qid
      BY <1>8, ZenonT(60) DEF DeletesOwn, OwnQueue
    <2> QED
      BY <2>1 DEF CtlExecute, QueuesOwned
  <1>12. \A k \in Job : OwnQueue(k) = OwnQueue(c.job) => k = c.job
    BY DEF OwnQueue
  <1> HIDE DEF answer, queue
  <1>13. QueuesOwned'
    <2>1. c.op \in {"create_cq", "create_sq"} =>
            pc[c.job] \notin Before /\ queue = OwnQueue(queue.job) /\ queue.job \in Job
      BY <1>0, <1>2, <1>8, Zenon DEF Before, Ended
    <2>2. \A q \in ctl_cqs' \cup ctl_sqs' :
            q = OwnQueue(q.job) /\ pc[q.job] \notin Before /\ q.job \in Job
      <3> SUFFICES ASSUME NEW q \in ctl_cqs' \cup ctl_sqs'
                   PROVE  q = OwnQueue(q.job) /\ pc[q.job] \notin Before /\ q.job \in Job
        OBVIOUS
      <3>1. q \in ctl_cqs \cup ctl_sqs \/ (c.op \in {"create_cq", "create_sq"} /\ q = queue)
        BY <1>9, Zenon
      <3>2. CASE q \in ctl_cqs \cup ctl_sqs
        BY <1>2, <3>2, Zenon DEF QueuesOwned
      <3> QED
        BY <1>0, <2>1, <3>1, <3>2, Zenon
    <2>3. \A q, r \in ctl_cqs' : q.qid = r.qid => q = r
      BY <1>0, <1>1, <1>9, ZenonT(30) DEF QueuesOwned, Possible
    <2>4. \A q, r \in ctl_sqs' : q.qid = r.qid => q = r
      BY <1>0, <1>1, <1>9, ZenonT(60) DEF QueuesOwned, Possible
    <2> QED
      BY <1>1, <1>4, <2>2, <2>3, <2>4, Zenon DEF QueuesOwned
  <1>14. HasQueues'
    BY <1>1, <1>4, <1>8, <1>10, <1>11, <1>12, Zenon DEF HasQueues, HasBoth, Ended
  <1>15. DeletesOwn'
    <2>1. \A d \in adm_pending' : d \in adm_pending /\ d.job # c.job
      BY <1>1, SMTT(30) DEF AnswersOnce
    <2> QED
      BY <1>2, <1>4, <1>10, <1>11, <1>12, <2>1 DEF DeletesOwn
  <1>16. AnswerMeansDone'
    <2> SUFFICES ASSUME NEW k \in Job, NEW a \in Answers',
                        pc[k] \in Waiting, a.cid = cmd_id[k], a.ok
                 PROVE  /\ pc[k] = "create_cq" => OwnQueue(k) \in ctl_cqs'
                        /\ pc[k] = "create_sq" => OwnQueue(k) \in ctl_sqs'
                        /\ pc[k] = "delete_cq" =>
                             \A q \in ctl_cqs' \cup ctl_sqs' : q.job # k
      BY <1>1, <1>4, ZenonT(60) DEF AnswerMeansDone
    <2>1. pc[k] \notin Ended
      BY DEF Waiting, Ended
    <2>2. CASE a \in Answers
      <3>1. /\ pc[k] = "create_cq" => OwnQueue(k) \in ctl_cqs
            /\ pc[k] = "create_sq" => OwnQueue(k) \in ctl_sqs
            /\ pc[k] = "delete_cq" => \A q \in ctl_cqs \cup ctl_sqs : q.job # k
        BY <2>2, Zenon DEF AnswerMeansDone
      <3>2. k = c.job => pc[k] = c.op
        BY <1>8, <2>1, Zenon
      <3>3. pc[k] = "create_cq" => OwnQueue(k) \in ctl_cqs'
        BY <1>10, <1>12, <3>1, <3>2, Zenon
      <3>4. pc[k] = "create_sq" => OwnQueue(k) \in ctl_sqs'
        BY <1>11, <1>12, <3>1, <3>2, Zenon
      <3>5. pc[k] = "delete_cq" => \A q \in ctl_cqs' \cup ctl_sqs' : q.job # k
        BY <1>0, <1>9, <3>1, <3>2, Zenon
      <3> QED
        BY <3>3, <3>4, <3>5, Zenon
    <2>3. CASE a = answer
      <3>1. k = c.job /\ pc[k] = c.op /\ ok
        BY <1>0, <1>8, <2>1, <2>3, ZenonT(30) DEF PendingOf
      <3>2. pc[k] = "create_cq" => OwnQueue(k) \in ctl_cqs'
        BY <1>0, <1>8, <3>1, Zenon DEF CtlExecute
      <3>3. pc[k] = "create_sq" => OwnQueue(k) \in ctl_sqs'
        BY <1>0, <1>8, <3>1, Zenon DEF CtlExecute
      <3>4. ASSUME pc[k] = "delete_cq", NEW q \in ctl_cqs' \cup ctl_sqs', q.job = k
            PROVE  FALSE
        <4>1. q \in ctl_cqs \cup ctl_sqs
          BY <1>9, <3>1, <3>4, Zenon
        <4>2. q.qid = c.qid
          BY <1>0, <1>8, <3>1, <3>4, <4>1, ZenonT(60) DEF QueuesOwned
        <4> QED
          BY <1>1, <3>1, <3>4, <4>2, Zenon DEF CtlExecute, Possible
      <3> QED
        BY <3>2, <3>3, <3>4, Zenon
    <2> QED
      BY <1>3, <2>2, <2>3, ZenonT(30)
  <1>17. RingMemoryKept'
    BY <1>0, <1>1, <1>9, ZenonT(30) DEF RingMemoryKept
  <1> QED
    BY <1>5, <1>6, <1>7, <1>13, <1>14, <1>15, <1>16, <1>17

\* Nothing of a job is on its way at places where it does not wait, nor when
\* it has read the answer it waits for.
LEMMA NonePending ==
  ASSUME AllInv, NEW j \in Job, pc[j] \notin Ended,
         pc[j] \notin Waiting \/ (adm_cq # <<>> /\ Head(adm_cq).cid = cmd_id[j])
  PROVE  \A c \in adm_pending : c.job # j
  <1>1. adm_cq # <<>> => Head(adm_cq) \in Answers
    BY AnswersConsumed DEF AllInv
  <1>2. \A c \in adm_pending : c.op \in Waiting
    BY SMTT(30) DEF AllInv, TypeOK
  <1> QED
    BY <1>1, <1>2 DEF AllInv, CommandInv, PendingOf, AnswersOnce

\* A job that reads a successful answer holds g_mutex, has nothing on its way,
\* and the answer tells the truth about its queues.
LEMMA AnsweredFacts ==
  ASSUME AllInv, NEW j \in Job, NEW op \in Waiting, Answered(j, op)
  PROVE  /\ pc[j] = op /\ pc[j] \notin Ended /\ g_mutex = j /\ g_ctrl # NULL
         /\ Answers' \subseteq Answers /\ \A c \in adm_pending : c.job # j
         /\ op \in {"create_cq", "create_sq", "delete_sq"} => OwnQueue(j) \in ctl_cqs
         /\ op = "create_sq" => OwnQueue(j) \in ctl_sqs
         /\ op = "delete_cq" => \A q \in ctl_cqs \cup ctl_sqs : q.job # j
  <1>1. pc[j] = op /\ pc[j] \notin Ended /\ adm_cq # <<>>
    BY ZenonT(30) DEF Answered, Waiting, Ended
  <1>2. g_mutex = j /\ g_ctrl # NULL
    BY <1>1 DEF AllInv, CommandInv, LockHeld
  <1>3. Answers' \subseteq Answers /\ Head(adm_cq) \in Answers
    BY <1>1, AnswersConsumed, Zenon DEF AllInv, Answered
  <1>4. \A c \in adm_pending : c.job # j
    BY <1>1, NonePending, Zenon DEF Answered
  <1>5. /\ op = "create_cq" => OwnQueue(j) \in ctl_cqs
        /\ op = "create_sq" => OwnQueue(j) \in ctl_sqs
        /\ op = "delete_cq" => \A q \in ctl_cqs \cup ctl_sqs : q.job # j
    BY <1>1, <1>3 DEF Answered, AllInv, QueueInv, AnswerMeansDone
  <1>6. op \in {"create_sq", "delete_sq"} => OwnQueue(j) \in ctl_cqs
    BY <1>1 DEF AllInv, QueueInv, HasQueues
  <1> QED
    BY <1>1, <1>2, <1>3, <1>4, <1>5, <1>6, ZenonT(30)

\* Each step of a job is of one of the kinds above.
LEMMA JobStepKinds ==
  ASSUME AllInv, IInv', NEW j \in Job, JobStep(j)
  PROVE  \/ SetupController(j)
         \/ \E label : Moves(j, label)
         \/ \E op, qid : Sends(j, op, qid)
  <1> USE DEF NULL
  <1>0. /\ Answers = Answers' \/ adm_cq' # adm_cq
        /\ pc \in [Job -> Waiting \cup Ended \cup {"setup", "size", "init", "alloc",
                                                    "running", "cleanup"}]
    BY DEF Answers, AllInv, TypeOK
  <1>1. CASE \/ Refused(j) \/ SetupFails(j) \/ SetupShared(j) \/ SizeNoController(j)
             \/ SizeFailsEarly(j) \/ InitNoController(j)
    <2>1. /\ pc[j] \in {"setup", "size", "init"}
          /\ UNCHANGED <<globals, admin_cmd_id, cmd_id, nvars, ctlVars>>
      BY <1>1 DEF Refused, SetupFails, SetupShared, SizeNoController, SizeFailsEarly,
             InitNoController, InitCalled
    <2>2. PICK label \in {"size", "failed", "no_controller"} : Goto(j, label)
      BY <1>1 DEF Refused, SetupFails, SetupShared, SizeNoController, SizeFailsEarly,
             InitNoController
    <2>3. \A c \in adm_pending : c.job # j
      BY <2>1, NonePending, SMTT(30) DEF Waiting, Ended
    <2>4. Moves(j, label)
      BY <1>0, <2>1, <2>2, <2>3, Zenon DEF Moves, globals, nvars, ctlVars, Waiting, Ended,
             Before, HasBoth
    <2> QED
      BY <2>4
  <1>2. CASE nvme_alloc(j) \/ AllocFails(j) \/ nvme_free(j)
    <2>1. /\ pc[j] \in {"alloc", "running"}
          /\ UNCHANGED <<globals, admin_cmd_id, cmd_id, ctrl, io_qid, mem, ctlVars>>
      BY <1>2 DEF nvme_alloc, AllocFails, nvme_free, nvars
    <2>2. PICK label \in {"running", "cleanup"} : Goto(j, label)
      BY <1>2 DEF nvme_alloc, AllocFails, nvme_free
    <2>3. \A c \in adm_pending : c.job # j
      BY <2>1, NonePending DEF Waiting, Ended
    <2>4. OwnQueue(j) \in ctl_cqs /\ OwnQueue(j) \in ctl_sqs
      BY <2>1, ZenonT(60) DEF AllInv, QueueInv, HasQueues, HasBoth
    <2>5. Moves(j, label)
      BY <1>0, <2>1, <2>2, <2>3, <2>4 DEF Moves, globals, ctlVars, Waiting, Ended,
             Before, HasBoth
    <2> QED
      BY <2>5
  <1>3. CASE SizeDone(j)
    <2>1. PICK label \in {"init", "failed"} : Goto(j, label)
      BY <1>3 DEF SizeDone
    <2>2. /\ Answered(j, "identify") /\ "identify" \in Waiting /\ g_mutex' = NoJob
          /\ UNCHANGED <<g_ctrl, admin_cmd_id, cmd_id, nvars, adm_pending, ctl_cqs,
                         ctl_sqs>>
      BY <1>3, ZenonT(30) DEF SizeDone, Unlock, Waiting
    <2>3. Moves(j, label)
      BY <2>1, <2>2, AnsweredFacts, Zenon DEF Moves, nvars, Waiting, Before, HasBoth
    <2> QED
      BY <2>3
  <1>4. CASE InitDone(j)
    <2>1. /\ Answered(j, "create_sq") /\ "create_sq" \in Waiting /\ g_mutex' = NoJob
          /\ Goto(j, "alloc")
          /\ UNCHANGED <<g_ctrl, admin_cmd_id, cmd_id, nvars, adm_pending, ctl_cqs,
                         ctl_sqs>>
      BY <1>4, SMTT(30) DEF InitDone, Unlock, Waiting
    <2>2. Moves(j, "alloc")
      BY <2>1, AnsweredFacts, Zenon DEF Moves, nvars, Waiting, Before, HasBoth
    <2> QED
      BY <2>2
  <1>5. ASSUME LeaveController(j), g_mutex' = NoJob
        PROVE  \/ UNCHANGED <<g_ctrl, adm_pending, ctl_cqs, ctl_sqs>>
               \/ g_mutex' = NoJob /\ Users' = {} /\ ControllerDeinit
    <2>1. LastThread => curr_thread_num' = 0
      BY <1>5 DEF LeaveController, LastThread, ThreadsAfterLeave
    <2>2. LastThread => Users' = {}
      <3>1. (IsFiniteSet(Users) /\ (Cardinality(Users) = 0 <=> Users = {}))'
        BY UsersFinite, PTL
      <3> QED
        BY <2>1, <3>1 DEF IInv, ThreadsCounted
    <2> QED
      BY <1>5, <2>2 DEF LeaveController
  <1>6. CASE CleanupDone(j)
    <2>1. /\ Answered(j, "delete_cq") /\ "delete_cq" \in Waiting /\ g_mutex' = NoJob
          /\ Goto(j, "done") /\ LeaveController(j)
          /\ mem' = [mem EXCEPT ![j] = Freed(mem[j])]
      BY <1>6 DEF CleanupDone, Unlock, Waiting
    <2>2. \A k \in Job : k # j => mem'[k] = mem[k]
      BY <2>1 DEF AllInv, TypeOK
    <2>3. UNCHANGED <<admin_cmd_id, cmd_id, io_qid>>
      BY <2>1, SMTT(30) DEF LeaveController
    <2>4. Moves(j, "done")
      BY <1>5, <2>1, <2>2, <2>3, AnsweredFacts, ZenonT(60)
         DEF Moves, Waiting, Ended, Before, HasBoth
    <2> QED
      BY <2>4
  <1>7. ASSUME NEW ops, Unanswered(j, ops)
        PROVE  Answers' \subseteq Answers
    BY <1>7, AnswersConsumed DEF Unanswered, AllInv
  <1>8. CASE SizeFails(j)
    <2>1. /\ pc[j] = "identify" /\ g_mutex' = NoJob /\ Goto(j, "failed")
          /\ UNCHANGED <<g_ctrl, admin_cmd_id, cmd_id, nvars, adm_pending, ctl_cqs,
                         ctl_sqs>>
      BY <1>8, ZenonT(30) DEF SizeFails, Unlock, Unanswered
    <2>2. Moves(j, "failed")
      BY <1>7, <1>8, <2>1, Zenon DEF SizeFails, Moves, nvars, Waiting, Ended, Before, HasBoth
    <2> QED
      BY <2>2, SMTT(30)
  <1>9. CASE InitFails(j) \/ CleanupFails(j)
    <2>1. /\ pc[j] \in {"create_cq", "create_sq", "delete_sq", "delete_cq"}
          /\ g_mutex' = NoJob /\ LeaveController(j) /\ Answers' \subseteq Answers
      BY <1>7, <1>9, Zenon DEF InitFails, CleanupFails, Unanswered, Unlock
    <2>2. PICK label \in {"failed", "done"} : Goto(j, label)
      BY <1>9 DEF InitFails, CleanupFails
    <2>3. \A k \in Job : mem'[k] \in {mem[k], "allocated"}
      BY <1>9 DEF InitFails, CleanupFails, MemAfterFailedCreate, AllInv, TypeOK
    <2>4. UNCHANGED <<admin_cmd_id, cmd_id, io_qid>>
      BY <2>1 DEF LeaveController
    <2>5. Moves(j, label)
      BY <1>5, <2>1, <2>2, <2>3, <2>4, Zenon DEF Moves, Waiting, Ended, Before, HasBoth
    <2> QED
      BY <2>5
  <1>10. CASE InitFailsEarly(j)
    <2>1. /\ pc[j] = "init" /\ g_mutex = NoJob /\ g_mutex' = NoJob /\ Goto(j, "failed")
          /\ UNCHANGED <<curr_thread_num, admin_cmd_id, cmd_id, nvars, adm_cq>>
      BY <1>10, ZenonT(60) DEF InitFailsEarly, InitCalled
    <2>2. curr_thread_num = 0 => Users' = {}
      BY <2>1, UsersFinite, SMTT(30) DEF AllInv, IInv, ThreadsCounted, Users, nvars
    <2>3. Moves(j, "failed")
      BY <1>0, <1>10, <2>1, <2>2, Zenon DEF InitFailsEarly, Moves, nvars, Waiting, Ended,
             Before, HasBoth
    <2> QED
      BY <2>3
  <1>11. CASE SizeIdentify(j)
    <2>1. /\ pc[j] = "size" /\ Submit(j, "identify", 0) /\ g_mutex = NoJob
          /\ g_mutex' = j /\ g_ctrl # NULL
          /\ UNCHANGED <<g_ctrl, nvars, adm_cq, ctl_cqs, ctl_sqs>>
      BY <1>11, ZenonT(60) DEF SizeIdentify, Lock
    <2>2. \A c \in adm_pending : c.job # j
      BY <2>1, NonePending, SMTT(30) DEF Waiting, Ended
    <2>3. Sends(j, "identify", 0)
      BY <1>0, <2>1, <2>2, QidFacts, Zenon DEF Sends, nvars, Waiting, Ended, Before
    <2> QED
      BY <2>3
  <1>12. CASE InitCreateCq(j)
    <2> DEFINE qid == nvme_io_qid(next_io_qid)
    <2>1. /\ pc[j] = "init" /\ Submit(j, "create_cq", qid) /\ g_mutex = NoJob
          /\ g_mutex' = j /\ g_ctrl # NULL
          /\ UNCHANGED <<g_ctrl, adm_cq, ctl_cqs, ctl_sqs>>
          /\ io_qid' = [io_qid EXCEPT ![j] = next_io_qid]
          /\ mem' = [mem EXCEPT ![j] = "allocated"]
      BY <1>12, ZenonT(30) DEF InitCreateCq, InitCalled, Lock
    <2>2. \A c \in adm_pending : c.job # j
      BY <2>1, NonePending, Zenon DEF Waiting, Ended
    <2>3. /\ io_qid'[j] = next_io_qid /\ mem'[j] = "allocated"
          /\ \A k \in Job \ {j} : io_qid'[k] = io_qid[k] /\ mem'[k] = mem[k]
      BY <2>1, SMTT(30) DEF AllInv, TypeOK
    <2>4. qid \in Qid /\ qid = nvme_io_qid(io_qid'[j])
      BY <2>3, QidFacts, ZenonT(60) DEF AllInv, TypeOK
    <2> HIDE DEF qid
    <2>5. Sends(j, "create_cq", qid)
      BY <1>0, <2>1, <2>2, <2>3, <2>4 DEF Sends, Waiting, Ended, Before
    <2> QED
      BY <2>5
  <1> DEFINE own == nvme_io_qid(io_qid[j])
  <1>13. own \in Qid /\ (io_qid' = io_qid => own = nvme_io_qid(io_qid'[j]) /\ OwnQueue(j)' = OwnQueue(j))
    BY QidFacts DEF AllInv, TypeOK, OwnQueue, nvme_io_qid
  <1>14. CASE InitCreateSq(j)
    <2>1. /\ Answered(j, "create_cq") /\ "create_cq" \in Waiting
          /\ Submit(j, "create_sq", own)
          /\ UNCHANGED <<globals, nvars, ctl_cqs, ctl_sqs>>
      BY <1>14 DEF InitCreateSq, Waiting
    <2>2. mem[j] = "allocated"
      <3>1. OwnQueue(j) \in ctl_cqs /\ OwnQueue(j).job = j
        BY <2>1, AnsweredFacts, ZenonT(30) DEF OwnQueue
      <3> QED
        BY <3>1, SMTT(30) DEF AllInv, QueueInv, RingMemoryKept
    <2> HIDE DEF own
    <2>3. Sends(j, "create_sq", own)
      BY <1>13, <2>1, <2>2, AnsweredFacts, Zenon DEF Sends, globals, nvars, Waiting, Before
    <2> QED
      BY <2>3
  <1>15. CASE CleanupDeleteCq(j)
    <2>1. /\ Answered(j, "delete_sq") /\ "delete_sq" \in Waiting
          /\ Submit(j, "delete_cq", own)
          /\ UNCHANGED <<globals, nvars, ctl_cqs, ctl_sqs>>
      BY <1>15, Zenon DEF CleanupDeleteCq, Waiting
    <2> HIDE DEF own
    <2>2. Sends(j, "delete_cq", own)
      BY <1>13, <2>1, AnsweredFacts, Zenon DEF Sends, globals, nvars, Waiting, Before
    <2> QED
      BY <2>2
  <1>16. CASE CleanupDeleteSq(j)
    <2>1. /\ pc[j] = "cleanup" /\ Submit(j, "delete_sq", own) /\ g_mutex = NoJob
          /\ g_mutex' = j /\ UNCHANGED <<g_ctrl, nvars, adm_cq, ctl_cqs, ctl_sqs>>
      BY <1>16, Zenon DEF CleanupDeleteSq, Lock
    <2>2. \A c \in adm_pending : c.job # j
      BY <2>1, NonePending, Zenon DEF Waiting, Ended
    <2>3. OwnQueue(j) \in ctl_cqs /\ OwnQueue(j) \in ctl_sqs
      BY <2>1, Zenon DEF AllInv, QueueInv, HasQueues, HasBoth
    <2>4. g_ctrl # NULL
      BY <2>1, ZenonT(60) DEF AllInv, IInv, UsersActive, ControllerAlive, Active
    <2> HIDE DEF own
    <2>5. Sends(j, "delete_sq", own)
      BY <1>0, <1>13, <2>1, <2>2, <2>3, <2>4 DEF Sends, nvars, Waiting, Ended, Before
    <2> QED
      BY <2>5, SMTT(30)
  <1> QED
    BY <1>1, <1>2, <1>3, <1>4, <1>6, <1>8, <1>9, <1>10, <1>11, <1>12, <1>14, <1>15,
       <1>16, ZenonT(60) DEF JobStep

\* At first there are no commands and no queues.
LEMMA InitAllInv == Init => AllInv
  <1> SUFFICES ASSUME Init PROVE AllInv
    OBVIOUS
  <1>1. Answers = {} /\ adm_pending = {} /\ ctl_cqs = {} /\ ctl_sqs = {}
    BY DEF Init, Answers
  <1>2. \A j \in Job : pc[j] = "setup" /\ g_mutex # j
    BY ZenonT(60) DEF Init
  <1>3. CommandInv
    BY <1>1, <1>2, Zenon DEF CommandInv, LockHeld, Disabled, PendingOf, AnswersOnce, Waiting
  <1>4. QueueInv
    BY <1>1, <1>2, Zenon DEF QueueInv, QueuesOwned, HasQueues, HasBoth, DeletesOwn,
           AnswerMeansDone, RingMemoryKept
  <1> QED
    BY <1>3, <1>4, InitIInv, InitTypeOK DEF AllInv

\* Every step keeps the invariant.
LEMMA NextAllInv == AllInv /\ [Next]_vars => AllInv'
  <1> SUFFICES ASSUME AllInv, [Next]_vars PROVE AllInv'
    OBVIOUS
  <1>1. IInv' /\ TypeOK'
    BY NextIInv, NextTypeOK DEF AllInv
  <1>2. ASSUME NEW j \in Job, JobStep(j) PROVE CommandInv' /\ QueueInv'
    BY <1>1, <1>2, JobStepKinds, SetupInv, MovesInv, SendsInv
  <1>3. ASSUME NEW c \in adm_pending, NEW ok \in BOOLEAN, CtlExecute(c, ok)
        PROVE  CommandInv' /\ QueueInv'
    BY <1>3, ExecuteInv
  <1>4. CASE AllEnded \/ UNCHANGED vars
    <2> USE <1>4 DEF AllEnded, vars, globals, nvars, ctlVars
    <2>0. Answers' = Answers /\ \A j : OwnQueue(j)' = OwnQueue(j)
      BY Zenon DEF Answers, OwnQueue, nvme_io_qid
    <2>1. CommandInv'
      <3>1. LockHeld' /\ Disabled' /\ AnswersOnce'
        BY <2>0, SMTT(30) DEF AllInv, CommandInv, LockHeld, Disabled, AnswersOnce, NULL
      <3>2. PendingOf'
        BY ZenonT(30) DEF AllInv, CommandInv, PendingOf, nvme_io_qid
      <3> QED
        BY <3>1, <3>2, ZenonT(60) DEF CommandInv
    <2>2. QueueInv'
      BY <2>0, ZenonT(60) DEF AllInv, QueueInv, QueuesOwned, HasQueues, DeletesOwn,
             AnswerMeansDone, RingMemoryKept
    <2> QED
      BY <1>1, <2>1, <2>2, SMTT(30) DEF AllInv
  <1> QED
    BY <1>1, <1>2, <1>3, <1>4 DEF Next, AllInv

\* A running job has its own SQ and CQ in the controller, for any number of
\* jobs and any width of the counter of queue identifiers, whatever commands
\* the controller executes late, refuses or never answers.
THEOREM RunningJobsHaveQueues == Spec => []RunningHasQueues
  <1>1. AllInv => RunningHasQueues
    BY DEF AllInv, QueueInv, HasQueues, HasBoth, RunningHasQueues, OwnQueue
  <1> QED
    BY <1>1, InitAllInv, NextAllInv, PTL DEF Spec

\* Ring memory is never freed while the controller has, or may yet create, a
\* queue in it.
THEOREM RingMemoryIsKept == Spec => []RingMemoryKept
  <1>1. AllInv => RingMemoryKept
    BY DEF AllInv, QueueInv
  <1> QED
    BY <1>1, InitAllInv, NextAllInv, PTL DEF Spec

=============================================================================
