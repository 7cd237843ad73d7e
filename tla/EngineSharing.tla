--------------------------- MODULE EngineSharing ---------------------------
(***************************************************************************)
(* What jobs that share one controller get from each other, on top of the  *)
(* invariant AllInv of EngineProofs: the block size one of them has read,  *)
(* the release of the controller by the last of them, and queue            *)
(* identifiers no other queue has.                                         *)
(***************************************************************************)
EXTENDS MCEngine, EngineProofs

USE JobAssumption

-----------------------------------------------------------------------------
(* Jobs whose setups are all over before the first init *)

SettingUp == {"setup", "size", "identify"}

SetupOver == \A k \in Job : pc[k] \notin SettingUp

\* While some job is being set up, no other uses the controller and g_ctrl
\* stays.  Afterwards nobody makes a new one.  Either way the block size that
\* has been read is that of g_ctrl, if there is one.
Serialized ==
  ~overlapped =>
    /\ \/ SetupOver
       \/ \A j \in Job : /\ pc[j] \notin Active /\ io_qid[j] = 0
                         /\ pc[j] = "init" => g_ctrl # NULL
    /\ (\E j \in Job : pc[j] \in Active \cup {"init"}) => g_ctrl \in {NULL, lba_known}
    /\ SetupOver /\ (\E j \in Job : io_qid[j] # 0) => Users # {} \/ g_ctrl = NULL

\* The steps of a job until its init is called, and from then on.
SetsUp(j, label) ==
  /\ Goto(j, label) /\ pc[j] \in SettingUp /\ label \notin Active
  /\ UNCHANGED <<ctrl, io_qid>>
  /\ g_ctrl' = g_ctrl \/ (g_ctrl = NULL /\ g_ctrl' # NULL /\ lba_known' = lba_known)
  /\ lba_known' \in {lba_known, g_ctrl}
  /\ label = "init" => g_ctrl # NULL /\ lba_known' = g_ctrl /\ g_ctrl' = g_ctrl

GoesOn(j, label) ==
  /\ Goto(j, label) /\ pc[j] \in Active \cup {"init"} /\ label \in Active \cup Ended
  /\ lba_known' = lba_known /\ g_ctrl' \in {g_ctrl, NULL}
  /\ \/ Users' # {} \/ g_ctrl' = NULL
     \/ UNCHANGED <<ctrl, io_qid, g_ctrl>>

\* Every step of a job is of one of the two kinds.
LEMMA JobStepPhases ==
  ASSUME AllInv, IInv', NEW j \in Job, JobStep(j)
  PROVE  \/ \E label : SetsUp(j, label)
         \/ \E label : GoesOn(j, label)
  <1> USE DEF NULL
  <1>1. CASE SetupFails(j) \/ SizeNoController(j) \/ SizeFailsEarly(j) \/ SizeFails(j)
    <2>1. SetsUp(j, "failed")
      BY <1>1 DEF SetupFails, SizeNoController, SizeFailsEarly, SizeFails, Unanswered,
             SetsUp, globals, nvars, Active, SettingUp
    <2> QED
      BY <2>1, ZenonT(60)
  <1>2. CASE SetupController(j) \/ SetupShared(j)
    <2>1. SetsUp(j, "size")
      BY <1>2 DEF SetupController, SetupShared, SetsUp, globals, nvars, Active,
             SettingUp, AllInv, TypeOK
    <2> QED
      BY <2>1
  <1>3. CASE SizeIdentify(j)
    <2>1. SetsUp(j, "identify")
      BY <1>3 DEF SizeIdentify, Submit, Goto, SetsUp, nvars, Active, SettingUp
    <2> QED
      BY <2>1
  <1>4. CASE SizeDone(j)
    <2>1. PICK label \in {"init", "failed"} :
            /\ Goto(j, label) /\ lba_known' \in {lba_known, g_ctrl}
            /\ label = "init" => lba_known' = g_ctrl
      BY <1>4 DEF SizeDone, LbaKnown
    <2>2. pc[j] = "identify" /\ UNCHANGED <<ctrl, io_qid, g_ctrl>>
      BY <1>4 DEF SizeDone, Answered, nvars
    <2>3. g_ctrl # NULL
      BY <2>2 DEF AllInv, CommandInv, LockHeld, Waiting
    <2>4. SetsUp(j, label)
      BY <2>1, <2>2, <2>3 DEF SetsUp, Active, SettingUp
    <2> QED
      BY <2>4
  <1>5. CASE InitNoController(j)
    <2>1. GoesOn(j, "no_controller")
      BY <1>5 DEF InitNoController, InitCalled, GoesOn, globals, nvars, Ended
    <2> QED
      BY <2>1
  <1>6. CASE InitFailsEarly(j)
    <2>1. GoesOn(j, "failed")
      BY <1>6 DEF InitFailsEarly, InitCalled, GoesOn, nvars, Ended
    <2> QED
      BY <2>1
  <1>7. CASE InitCreateCq(j)
    <2>1. j \in Users'
      BY <1>7 DEF InitCreateCq, Users, AllInv, TypeOK
    <2>2. GoesOn(j, "create_cq")
      BY <1>7, <2>1 DEF InitCreateCq, InitCalled, Submit, Goto, GoesOn, Active
    <2> QED
      BY <2>2
  <1>8. CASE InitCreateSq(j)
    <2>1. GoesOn(j, "create_sq")
      BY <1>8 DEF InitCreateSq, Answered, Submit, Goto, GoesOn, globals, nvars, Active
    <2> QED
      BY <2>1
  <1>9. CASE InitDone(j)
    <2>1. GoesOn(j, "alloc")
      BY <1>9 DEF InitDone, Answered, GoesOn, nvars, Active
    <2> QED
      BY <2>1
  <1>10. CASE nvme_alloc(j)
    <2>1. GoesOn(j, "running")
      BY <1>10 DEF nvme_alloc, GoesOn, globals, Active
    <2> QED
      BY <2>1
  <1>11. CASE AllocFails(j) \/ nvme_free(j)
    <2>1. GoesOn(j, "cleanup")
      BY <1>11 DEF AllocFails, nvme_free, GoesOn, globals, nvars, Active
    <2> QED
      BY <2>1
  <1>12. CASE CleanupDeleteSq(j)
    <2>1. GoesOn(j, "delete_sq")
      BY <1>12 DEF CleanupDeleteSq, Submit, Goto, GoesOn, nvars, Active
    <2> QED
      BY <2>1
  <1>13. CASE CleanupDeleteCq(j)
    <2>1. GoesOn(j, "delete_cq")
      BY <1>13 DEF CleanupDeleteCq, Answered, Submit, Goto, GoesOn, globals, nvars,
             Active
    <2> QED
      BY <2>1
  <1>14. CASE InitFails(j) \/ CleanupDone(j) \/ CleanupFails(j)
    <2>1. pc[j] \in Active /\ LeaveController(j)
      BY <1>14, Zenon DEF InitFails, CleanupDone, CleanupFails, Answered, Unanswered, Active
    <2>2. PICK label \in Ended : Goto(j, label)
      BY <1>14 DEF InitFails, CleanupDone, CleanupFails, Ended
    <2>3. ~LastThread => Users' # {}
      <3>1. (IsFiniteSet(Users) /\ (Cardinality(Users) = 0 <=> Users = {}))'
        BY UsersFinite, PTL
      <3>2. ~LastThread => curr_thread_num' # 0
        BY <2>1 DEF LeaveController, LastThread, ThreadsAfterLeave, AllInv, TypeOK
      <3> QED
        BY <3>1, <3>2 DEF IInv, ThreadsCounted
    <2>4. GoesOn(j, label)
      BY <2>1, <2>2, <2>3 DEF LeaveController, GoesOn
    <2> QED
      BY <2>4, SMTT(30)
  <1>15. CASE Refused(j)
    <2>1. SetsUp(j, "failed") \/ GoesOn(j, "failed")
      BY <1>15, SMTT(30) DEF Refused, InitCalled, SetsUp, GoesOn, globals, nvars, Active,
             SettingUp, Ended
    <2> QED
      BY <2>1
  <1> QED
    BY <1>1, <1>2, <1>3, <1>4, <1>5, <1>6, <1>7, <1>8, <1>9, <1>10, <1>11, <1>12,
       <1>13, <1>14, <1>15, ZenonT(60) DEF JobStep

\* A setup step keeps the jobs serialized.
LEMMA SetsUpSerialized ==
  ASSUME AllInv, Serialized, NEW j \in Job, NEW label, SetsUp(j, label),
         overlapped' = (overlapped \/ Overlap)
  PROVE  Serialized'
  <1> SUFFICES ASSUME ~overlapped
               PROVE  Serialized'
    BY ZenonT(30) DEF Serialized
  <1>1. \A k \in Job : pc'[k] = IF k = j THEN label ELSE pc[k]
    BY DEF SetsUp, Goto, AllInv, TypeOK
  <1>2. /\ ~SetupOver /\ label \notin Active /\ io_qid' = io_qid
        /\ label = "init" => g_ctrl # NULL /\ lba_known' = g_ctrl /\ g_ctrl' = g_ctrl
    BY ZenonT(60) DEF SetsUp, SetupOver
  <1>3. \A k \in Job : /\ pc[k] \notin Active /\ io_qid[k] = 0
                       /\ pc[k] = "init" => g_ctrl # NULL
    BY <1>2 DEF Serialized
  <1>4. \A k \in Job : /\ pc'[k] \notin Active /\ io_qid'[k] = 0
                       /\ pc'[k] = "init" => g_ctrl' # NULL
    BY <1>1, <1>2, <1>3, Zenon DEF SetsUp
  <1>5. ASSUME NEW k \in Job, pc'[k] = "init" PROVE g_ctrl' = lba_known'
    <2>1. CASE k = j
      BY <1>1, <1>2, <1>5, <2>1, Zenon
    <2>2. CASE k # j
      <3>1. pc[k] = "init" /\ g_ctrl # NULL /\ g_ctrl = lba_known
        BY <1>1, <1>3, <1>5, <2>2, Zenon DEF Serialized
      <3> QED
        BY <3>1, Zenon DEF SetsUp
    <2> QED
      BY <2>1, <2>2, SMTT(30)
  <1> QED
    BY <1>4, <1>5, ZenonT(30) DEF Serialized, NULL

\* So does a later step, or it is the overlap.
LEMMA GoesOnSerialized ==
  ASSUME AllInv, Serialized, NEW j \in Job, NEW label, GoesOn(j, label),
         overlapped' = (overlapped \/ Overlap)
  PROVE  Serialized'
  <1> SUFFICES ASSUME ~overlapped, ~Overlap
               PROVE  Serialized'
    BY Zenon DEF Serialized
  <1>1. \A k \in Job : pc'[k] = IF k = j THEN label ELSE pc[k]
    BY DEF GoesOn, Goto, AllInv, TypeOK
  <1>2. /\ pc[j] \in Active \cup {"init"} /\ label \notin SettingUp /\ label # "init"
        /\ lba_known' = lba_known /\ g_ctrl' \in {g_ctrl, NULL}
    BY ZenonT(30) DEF GoesOn, Active, Ended, SettingUp
  <1>3. SetupOver
    <2>1. pc[j] = "init" => SetupOver
      BY <1>1, <1>2, ZenonT(60) DEF Overlap, SetupOver, SettingUp
    <2> QED
      BY <1>2, <2>1, ZenonT(60) DEF Serialized
  <1>4. SetupOver'
    BY <1>1, <1>2, <1>3 DEF SetupOver
  <1>5. g_ctrl' \in {NULL, lba_known'}
    BY <1>2 DEF Serialized
  <1>6. (\E k \in Job : io_qid'[k] # 0) => Users' # {} \/ g_ctrl' = NULL
    <2>1. CASE UNCHANGED <<ctrl, io_qid, g_ctrl>>
      BY <1>3, <2>1 DEF Serialized, Users, NULL
    <2> QED
      BY <2>1 DEF GoesOn
  <1> QED
    BY <1>4, <1>5, <1>6, ZenonT(30) DEF Serialized, NULL

\* The jobs stay serialized until an overlap.
LEMMA NextSerialized ==
  ASSUME AllInv, Serialized, [MCNext]_<<vars, overlapped>>
  PROVE  Serialized'
  <1>1. ASSUME NEW j \in Job, JobStep(j), MCNext PROVE Serialized'
    <2>1. IInv' /\ overlapped' = (overlapped \/ Overlap)
      BY <1>1, NextIInv, SMTT(30) DEF AllInv, MCNext
    <2> QED
      BY <1>1, <2>1, JobStepPhases, SetsUpSerialized, GoesOnSerialized
  <1>2. CASE /\ UNCHANGED <<globals, pc, ctrl, io_qid, lba_known>>
             /\ ~overlapped' => ~overlapped
    BY <1>2, Zenon DEF Serialized, SetupOver, Users, globals, NULL
  <1>3. ASSUME NEW c \in adm_pending, NEW ok \in BOOLEAN, CtlExecute(c, ok), MCNext
        PROVE  Serialized'
    BY <1>2, <1>3, Zenon DEF CtlExecute, nvars, MCNext
  <1>4. CASE MCNext /\ AllEnded
    BY <1>2, <1>4, Zenon DEF AllEnded, vars, nvars, MCNext
  <1>5. CASE UNCHANGED <<vars, overlapped>>
    BY <1>2, <1>5 DEF vars, nvars
  <1> QED
    BY <1>1, <1>3, <1>4, <1>5 DEF MCNext, Next

\* At first nobody has been set up.
LEMMA InitSerialized == MCInit => Serialized
  BY DEF MCInit, Init, Serialized, Active

\* MCSpec is Spec with one more variable.
LEMMA SerializedAlways == MCSpec => [](AllInv /\ Serialized)
  <1>1. MCInit => AllInv /\ Serialized
    BY InitAllInv, InitSerialized DEF MCInit
  <1>2. AllInv /\ Serialized /\ [MCNext]_<<vars, overlapped>> => (AllInv /\ Serialized)'
    <2> SUFFICES ASSUME AllInv, Serialized, [MCNext]_<<vars, overlapped>>
                 PROVE  AllInv' /\ Serialized'
      OBVIOUS
    <2>1. [Next]_vars
      BY DEF MCNext
    <2> QED
      BY <2>1, NextAllInv, NextSerialized
  <1> QED
    BY <1>1, <1>2, PTL DEF MCSpec

\* As long as no init came between the setups, the block size a running job
\* computes with was read from the namespace.
THEOREM BlockSizeIsKnown == MCSpec => []BlockSizeKnown
  <1>1. AllInv /\ Serialized => BlockSizeKnown
    BY DEF AllInv, IInv, UsersActive, ControllerAlive, Serialized, BlockSizeKnown, Active
  <1> QED
    BY <1>1, SerializedAlways, PTL

\* Under the same condition, the controller has been given back when all jobs
\* have ended and some job had counted itself as a user.
THEOREM ControllerIsReleased == MCSpec => []ControllerReleased
  <1>1. AllInv /\ Serialized => ControllerReleased
    <2> SUFFICES ASSUME AllInv, Serialized, ~overlapped,
                        \A j \in Job : pc[j] \in Ended, \E j \in Job : io_qid[j] # 0
                 PROVE  g_ctrl = NULL
      BY DEF ControllerReleased
    <2>1. SetupOver
      BY DEF SetupOver, SettingUp, Ended
    <2>2. Users = {}
      BY DEF AllInv, IInv, UsersActive, Users, Active, Ended
    <2> QED
      BY <2>1, <2>2 DEF Serialized
  <1> QED
    BY <1>1, SerializedAlways, PTL

-----------------------------------------------------------------------------
(* Queue identifiers.  A job takes a value of next_io_qid at most once, so  *)
(* with no more jobs than values the counter comes back to 1 either when    *)
(* the controller has been disabled or when nobody is left to take one.     *)

FewJobs == Cardinality(Job) <= QidSpan

\* The jobs that will not take an identifier any more, and how many values of
\* next_io_qid have been passed since it was last 1.
Gone == {j \in Job : pc[j] \notin Before}
Position == IF next_io_qid = 0 THEN QidSpan ELSE next_io_qid

Creates == {c \in adm_pending : c.op = "create_cq"}

QidsCounted == Position <= Cardinality(Gone) + 1

\* While somebody may yet take an identifier, it is above all the others.
QidsBelow ==
  Gone # Job => /\ \A q \in ctl_cqs : q.qid < Position
                /\ \A c \in Creates : c.qid < Position

\* Identifier 1 goes to the first user of an enabled controller, who takes the
\* controller with it when the creation fails.
FirstAlone ==
  /\ Gone # Job /\ next_io_qid = 1 => Users = {}
  /\ \A j \in Job : pc[j] = "create_cq" /\ io_qid[j] = 1 => Users = {j}
  /\ \A c \in Creates : io_qid[c.job] = 1 => pc[c.job] = "create_cq"

CreatesApart ==
  \A c, d \in Creates : c # d /\ io_qid[c.job] # 0 => c.qid # d.qid

FreshInv == QidsCounted /\ QidsBelow /\ FirstAlone /\ CreatesApart /\ QidsFresh

\* What a step of a job does to the counter: one value is passed; or the
\* controller is disabled and the counter starts again; or nothing.
Passes(j, label) ==
  /\ pc[j] = "init" /\ g_mutex = NoJob /\ Goto(j, label) /\ label \notin Before
  /\ next_io_qid' = NextQid /\ ctl_cqs' = ctl_cqs

Restarts == ControllerDeinit /\ next_io_qid' = 1 /\ Users' = {}

Keeps(j, label) ==
  /\ Goto(j, label) /\ label # "create_cq" /\ (pc[j] \notin Before => label \notin Before)
  /\ UNCHANGED <<next_io_qid, io_qid, ctl_cqs>>
  /\ Creates' \subseteq Creates /\ Users' \subseteq Users
  /\ pc[j] = "create_cq" /\ io_qid[j] = 1 => \A c \in Creates' : c.job # j

\* Gone is a part of the jobs, and all of them when it is as large.
LEMMA GoneFinite ==
  /\ IsFiniteSet(Gone) /\ Cardinality(Gone) \in Nat
  /\ Cardinality(Job) \in Nat /\ Cardinality(Gone) <= Cardinality(Job)
  /\ Cardinality(Job) = Cardinality(Gone) => Gone = Job
  <1>1. Gone \in SUBSET Job
    BY DEF Gone
  <1>2. /\ IsFiniteSet(Gone) /\ Cardinality(Gone) <= Cardinality(Job)
        /\ Cardinality(Job) = Cardinality(Gone) => Gone = Job
    BY <1>1, FS_Subset, Zenon
  <1> QED
    BY <1>2, FS_CardinalityType, Zenon

\* A job that moves on never comes back to where it may take an identifier.
LEMMA GoneGrows ==
  ASSUME TypeOK, NEW j \in Job, NEW label, Goto(j, label),
         pc[j] \notin Before => label \notin Before
  PROVE  /\ Gone \subseteq Gone' /\ Cardinality(Gone) <= Cardinality(Gone')
         /\ Gone' # Job => Gone # Job
         /\ pc[j] \in Before /\ label \notin Before =>
              Gone # Job /\ Cardinality(Gone') = Cardinality(Gone) + 1
  <1>1. \A k \in Job : pc'[k] = IF k = j THEN label ELSE pc[k]
    BY DEF Goto, TypeOK
  <1>2. Gone \subseteq Gone' /\ Gone' \subseteq Job /\ Gone \subseteq Job
    BY <1>1 DEF Gone
  <1>3. (IsFiniteSet(Gone))'
    BY GoneFinite, PTL
  <1>4. Cardinality(Gone) <= Cardinality(Gone')
    BY <1>2, <1>3, FS_Subset
  <1>5. ASSUME pc[j] \in Before, label \notin Before
        PROVE  Gone # Job /\ Cardinality(Gone') = Cardinality(Gone) + 1
    <2>1. j \notin Gone /\ Gone' = Gone \cup {j}
      BY <1>1, <1>5 DEF Gone
    <2> QED
      BY <2>1, GoneFinite, FS_AddElement, Zenon
  <1> QED
    BY <1>2, <1>4, <1>5

\* Each step of a job is of one of the kinds above.  A job that gives up on
\* creating queue 1 is the last user.
LEMMA JobStepQids ==
  ASSUME AllInv, FirstAlone, IInv', NEW j \in Job, JobStep(j)
  PROVE  \/ InitCreateCq(j)
         \/ Passes(j, "failed") /\ UNCHANGED <<ctrl, io_qid, adm_pending>>
         \/ Restarts
         \/ \E label : Keeps(j, label)
  <1> DEFINE quiet == UNCHANGED <<next_io_qid, io_qid, ctl_cqs, adm_pending, ctrl>>
  <1>0. quiet => Creates' = Creates /\ Users' = Users
    BY DEF Creates, Users
  <1>1. CASE \/ Refused(j) \/ SetupFails(j) \/ SizeNoController(j) \/ SizeFailsEarly(j)
             \/ SizeFails(j)
    <2>1. quiet /\ Goto(j, "failed") /\ pc[j] \in Before
      BY <1>1 DEF Refused, SetupFails, SizeNoController, SizeFailsEarly, SizeFails,
             Unanswered, InitCalled, globals, nvars, ctlVars, Before
    <2>2. Keeps(j, "failed")
      BY <1>0, <2>1 DEF Keeps, Before
    <2> QED
      BY <2>2
  <1>2. CASE SetupController(j) \/ SetupShared(j)
    <2>1. quiet /\ Goto(j, "size") /\ pc[j] \in Before /\ pc[j] = "setup"
      BY <1>2 DEF SetupController, SetupShared, globals, nvars, ctlVars, Before
    <2>2. Keeps(j, "size")
      BY <1>0, <2>1 DEF Keeps, Before
    <2> QED
      BY <2>2
  <1>3. CASE SizeDone(j)
    <2>1. quiet /\ pc[j] = "identify" /\ (Goto(j, "init") \/ Goto(j, "failed"))
      BY <1>3 DEF SizeDone, Answered, nvars
    <2>2. Keeps(j, "init") \/ Keeps(j, "failed")
      BY <1>0, <2>1 DEF Keeps, Before
    <2> QED
      BY <2>2
  <1>4. CASE InitNoController(j)
    <2>1. quiet /\ pc[j] = "init" /\ Goto(j, "no_controller")
      BY <1>4 DEF InitNoController, InitCalled, globals, nvars, ctlVars
    <2>2. Keeps(j, "no_controller")
      BY <1>0, <2>1 DEF Keeps, Before
    <2> QED
      BY <2>2
  <1>5. CASE nvme_alloc(j) \/ AllocFails(j) \/ nvme_free(j)
    <2>1. quiet /\ pc[j] # "create_cq" /\ (Goto(j, "running") \/ Goto(j, "cleanup"))
      BY <1>5 DEF nvme_alloc, AllocFails, nvme_free, globals, nvars, ctlVars
    <2>2. Keeps(j, "running") \/ Keeps(j, "cleanup")
      BY <1>0, <2>1 DEF Keeps, Before
    <2> QED
      BY <2>2
  <1>6. CASE InitDone(j)
    <2>1. quiet /\ pc[j] = "create_sq" /\ Goto(j, "alloc")
      BY <1>6 DEF InitDone, Answered, nvars
    <2>2. Keeps(j, "alloc")
      BY <1>0, <2>1 DEF Keeps, Before
    <2> QED
      BY <2>2, ZenonT(30)
  <1>7. CASE SizeIdentify(j) \/ CleanupDeleteSq(j) \/ CleanupDeleteCq(j) \/ InitCreateSq(j)
    <2>1. PICK op \in {"identify", "delete_sq", "delete_cq", "create_sq"},
               qid \in {0, nvme_io_qid(io_qid[j])} :
            Submit(j, op, qid) /\ (op = "identify" => pc[j] = "size")
      BY <1>7 DEF SizeIdentify, CleanupDeleteSq, CleanupDeleteCq, InitCreateSq
    <2>2. UNCHANGED <<next_io_qid, io_qid, ctl_cqs, ctrl>>
      BY <1>7 DEF SizeIdentify, CleanupDeleteSq, CleanupDeleteCq, InitCreateSq, globals,
             nvars
    <2>3. Goto(j, op) /\ (pc[j] \notin Before => op \notin Before)
      BY <2>1 DEF Submit, Goto, Before
    <2>4. Creates' = Creates /\ Users' = Users
      BY <2>1, <2>2 DEF Creates, Submit, Users
    <2>5. pc[j] = "create_cq" => \A c \in Creates : c.job # j
      <3>1. pc[j] = "create_cq" => Answered(j, "create_cq")
        BY <1>7 DEF SizeIdentify, CleanupDeleteSq, CleanupDeleteCq, InitCreateSq, Answered
      <3>2. "create_cq" \in Waiting
        BY DEF Waiting
      <3> QED
        BY <3>1, <3>2, AnsweredFacts, ZenonT(30) DEF Creates
    <2>6. Keeps(j, op)
      BY <2>1, <2>2, <2>3, <2>4, <2>5 DEF Keeps
    <2> QED
      BY <2>6
  <1>8. CASE InitFailsEarly(j)
    <2>1. curr_thread_num = 0 => Users' = {}
      BY <1>8, UsersFinite DEF InitFailsEarly, nvars, AllInv, IInv, ThreadsCounted, Users
    <2>2. CASE curr_thread_num = 0
      BY <1>8, <2>1, <2>2 DEF InitFailsEarly, Restarts
    <2>3. CASE curr_thread_num # 0
      BY <1>8, <2>3 DEF InitFailsEarly, InitCalled, Passes, nvars, Before
    <2> QED
      BY <2>2, <2>3
  <1>9. CASE InitFails(j) \/ CleanupDone(j) \/ CleanupFails(j)
    <2>1. pc[j] \in Active /\ LeaveController(j)
      BY <1>9, Zenon DEF InitFails, CleanupDone, CleanupFails, Answered, Unanswered, Active
    <2>2. PICK label \in Ended : Goto(j, label)
      BY <1>9 DEF InitFails, CleanupDone, CleanupFails, Ended
    <2>3. CASE LastThread
      <3>1. (IsFiniteSet(Users) /\ (Cardinality(Users) = 0 <=> Users = {}))'
        BY UsersFinite, PTL
      <3>2. curr_thread_num' = 0
        BY <2>1, <2>3 DEF LeaveController, LastThread, ThreadsAfterLeave
      <3>3. Users' = {}
        BY <3>1, <3>2 DEF IInv, ThreadsCounted
      <3> QED
        BY <2>1, <2>3, <3>3 DEF LeaveController, QidAfterLeave, Restarts
    <2>4. CASE ~LastThread
      <3>1. Users # {j}
        <4>1. Users = {j} => Cardinality(Users) = 1
          BY FS_Singleton, Zenon
        <4> QED
          BY <2>4, <4>1 DEF LastThread, AllInv, IInv, ThreadsCounted
      <3>2. ~(pc[j] = "create_cq" /\ io_qid[j] = 1)
        BY <3>1 DEF FirstAlone
      <3>3. UNCHANGED <<next_io_qid, io_qid, ctl_cqs, adm_pending>>
        BY <2>1, <2>4 DEF LeaveController, QidAfterLeave
      <3>4. Creates' = Creates /\ Users' \subseteq Users
        BY <2>1, <3>3 DEF Creates, Users, LeaveController, AllInv, TypeOK, NULL
      <3>5. label # "create_cq" /\ label \notin Before
        BY DEF Ended, Before
      <3>6. Keeps(j, label)
        BY <2>2, <3>2, <3>3, <3>4, <3>5 DEF Keeps
      <3> QED
        BY <3>6
    <2> QED
      BY <2>3, <2>4
  <1> QED
    BY <1>1, <1>2, <1>3, <1>4, <1>5, <1>6, <1>7, <1>8, <1>9, ZenonT(60) DEF JobStep

\* Commands and queues of the controller in terms of the counter's values.
LEMMA QidTypes ==
  ASSUME AllInv
  PROVE  /\ Position \in Nat /\ Position > 0 /\ Position <= QidSpan
         /\ \A q \in ctl_cqs : q.qid \in Nat /\ q.job \in Job
         /\ \A c \in Creates : /\ c.qid \in Nat /\ c.job \in Job
                               /\ c.qid = nvme_io_qid(io_qid[c.job])
                               /\ pc[c.job] \notin Before
         /\ \A j \in Job : io_qid[j] \in Nat /\ io_qid[j] < QidSpan
  <1>1. Position \in Nat /\ Position > 0 /\ Position <= QidSpan
    BY SpanAssumption DEF AllInv, TypeOK, Qid, Position
  <1>2. \A q \in ctl_cqs : q.qid \in Nat /\ q.job \in Job
    BY SpanAssumption DEF AllInv, TypeOK, Qid
  <1>3. \A j \in Job : io_qid[j] \in Nat /\ io_qid[j] < QidSpan
    BY SpanAssumption DEF AllInv, TypeOK, Qid
  <1>4. ASSUME NEW c \in Creates
        PROVE  /\ c.qid \in Nat /\ c.job \in Job
               /\ c.qid = nvme_io_qid(io_qid[c.job]) /\ pc[c.job] \notin Before
    <2>1. c \in adm_pending /\ c.op = "create_cq"
      BY DEF Creates
    <2>2. c.qid \in Nat /\ c.job \in Job
      BY <2>1, SpanAssumption DEF AllInv, TypeOK, Qid
    <2>3. c.qid = nvme_io_qid(io_qid[c.job]) /\ pc[c.job] \in Ended \cup {"create_cq"}
      BY <2>1 DEF AllInv, CommandInv, PendingOf
    <2> QED
      BY <2>2, <2>3 DEF Ended, Before
  <1> QED
    BY <1>1, <1>2, <1>3, <1>4

\* Passing a value: the counter's position moves up, or nobody is left.
LEMMA PassesPosition ==
  ASSUME FewJobs, AllInv, QidsCounted, NEW j \in Job, NEW label, Passes(j, label)
  PROVE  /\ QidsCounted' /\ Gone # Job
         /\ Gone' # Job => next_io_qid # 0 /\ Position' = Position + 1 /\ next_io_qid' # 1
  <1>1. /\ Gone # Job /\ Cardinality(Gone') = Cardinality(Gone) + 1
    BY GoneGrows DEF Passes, AllInv, Before
  <1>2. next_io_qid \in 0 .. QidSpan - 1 /\ next_io_qid' = (next_io_qid + 1) % QidSpan
    BY DEF Passes, NextQid, AllInv, TypeOK, Qid
  <1>3. /\ next_io_qid < QidSpan - 1 => next_io_qid' = next_io_qid + 1
        /\ next_io_qid = QidSpan - 1 => next_io_qid' = 0
    BY <1>2, SpanAssumption
  <1>4. Cardinality(Gone) \in Nat
    BY GoneFinite
  <1>5. /\ next_io_qid = 0 => Position' = 1 /\ QidSpan <= Cardinality(Gone) + 1
        /\ next_io_qid # 0 => Position' = Position + 1 /\ next_io_qid' # 1
    BY <1>2, <1>3, SpanAssumption DEF Position, QidsCounted
  <1>6. QidsCounted'
    BY <1>1, <1>2, <1>4, <1>5, SpanAssumption DEF QidsCounted, Position
  <1>7. next_io_qid = 0 => Gone' = Job
    <2>1. /\ Cardinality(Gone)' <= Cardinality(Job)
          /\ Cardinality(Job) = Cardinality(Gone)' => Gone' = Job
      <3>1. (/\ Cardinality(Gone) <= Cardinality(Job)
             /\ Cardinality(Job) = Cardinality(Gone) => Gone = Job)'
        BY GoneFinite, PTL
      <3> QED
        BY <3>1
    <2>2. Cardinality(Job) \in Nat
      BY GoneFinite
    <2> QED
      BY <1>1, <1>4, <1>5, <2>1, <2>2, SpanAssumption DEF FewJobs
  <1> QED
    BY <1>1, <1>5, <1>6, <1>7

\* Nobody waits for an answer while g_mutex is free, so that nobody is on its
\* way to create queue 1.
LEMMA FreeMutex ==
  ASSUME AllInv, FirstAlone, g_mutex = NoJob
  PROVE  /\ \A k \in Job : pc[k] # "create_cq"
         /\ \A c \in Creates : io_qid[c.job] # 1
  <1>1. \A k \in Job : pc[k] # "create_cq"
    BY DEF AllInv, CommandInv, LockHeld, Waiting
  <1> QED
    BY <1>1, QidTypes DEF FirstAlone

\* A failed init that sent nothing passes a value and changes nothing else.
LEMMA PassesFresh ==
  ASSUME FewJobs, AllInv, FreshInv, NEW j \in Job, Passes(j, "failed"),
         UNCHANGED <<ctrl, io_qid, adm_pending>>
  PROVE  FreshInv'
  <1> USE DEF FreshInv
  <1>1. /\ Creates' = Creates /\ ctl_cqs' = ctl_cqs /\ g_mutex = NoJob
        /\ \A k \in Job : pc'[k] = IF k = j THEN "failed" ELSE pc[k]
    BY DEF Creates, Passes, Goto, AllInv, TypeOK
  <1>2. /\ QidsCounted' /\ Gone # Job
        /\ Gone' # Job => Position' = Position + 1 /\ next_io_qid' # 1
    BY PassesPosition
  <1>3. QidsBelow'
    BY <1>1, <1>2, QidTypes DEF QidsBelow
  <1>4. FirstAlone'
    BY <1>1, <1>2, FreeMutex, QidTypes DEF FirstAlone
  <1>5. CreatesApart' /\ QidsFresh'
    BY <1>1 DEF CreatesApart, QidsFresh, Passes
  <1> QED
    BY <1>2, <1>3, <1>4, <1>5

\* The identifier a job takes is above all the others, unless it is the 1 that
\* stands for 0.
LEMMA CreateFresh ==
  ASSUME FewJobs, AllInv, FreshInv, NEW j \in Job, InitCreateCq(j)
  PROVE  FreshInv'
  <1> DEFINE new == [cid |-> admin_cmd_id, op |-> "create_cq", job |-> j,
                     qid |-> nvme_io_qid(next_io_qid)]
  <1> USE DEF FreshInv
  <1>1. /\ Passes(j, "create_cq") /\ adm_pending' = adm_pending \cup {new}
        /\ ctl_cqs' = ctl_cqs /\ g_mutex = NoJob /\ pc[j] = "init"
    BY DEF InitCreateCq, InitCalled, Lock, Submit, Goto, Passes, Before
  <1>2. new.op = "create_cq" /\ new.job = j /\ new.qid = nvme_io_qid(next_io_qid)
    OBVIOUS
  <1> HIDE DEF new
  <1>3. Creates' = Creates \cup {new}
    BY <1>1, <1>2 DEF Creates
  <1>4. \A k \in Job : /\ pc'[k] = IF k = j THEN "create_cq" ELSE pc[k]
                       /\ io_qid'[k] = IF k = j THEN next_io_qid ELSE io_qid[k]
    BY <1>1 DEF Passes, Goto, InitCreateCq, AllInv, TypeOK
  <1>5. /\ QidsCounted' /\ Gone # Job
        /\ Gone' # Job => next_io_qid # 0 /\ Position' = Position + 1 /\ next_io_qid' # 1
    BY <1>1, PassesPosition, ZenonT(30)
  <1>6. \A c \in Creates : c.job # j /\ c.job \in Job /\ io_qid'[c.job] = io_qid[c.job]
    BY <1>1, <1>4, QidTypes DEF Before
  <1>7. next_io_qid # 0 => new.qid = Position /\ new.qid = next_io_qid
    BY <1>2, Zenon DEF nvme_io_qid, Position
  <1>8. QidsBelow'
    <2> SUFFICES ASSUME Gone' # Job
                 PROVE  /\ \A q \in ctl_cqs' : q.qid < Position'
                        /\ \A c \in Creates' : c.qid < Position'
      BY Zenon DEF QidsBelow
    <2>1. Position \in Nat /\ Position' = Position + 1 /\ new.qid = Position
      BY <1>5, <1>7, QidTypes, Zenon
    <2>2. /\ \A q \in ctl_cqs : q.qid \in Nat /\ q.qid < Position
          /\ \A c \in Creates : c.qid \in Nat /\ c.qid < Position
      BY <1>5, QidTypes, Zenon DEF QidsBelow
    <2> QED
      BY <1>1, <1>3, <2>1, <2>2
  <1>9. FirstAlone'
    <2>1. next_io_qid = 1 => Users' = {j}
      <3>1. next_io_qid = 1 => Users = {}
        BY <1>5 DEF FirstAlone
      <3>2. Users' = Users \cup {j}
        BY DEF InitCreateCq, Users, AllInv, TypeOK
      <3> QED
        BY <3>1, <3>2
    <2>2. \A k \in Job : pc'[k] = "create_cq" => k = j
      BY <1>1, <1>4, FreeMutex
    <2>3. \A c \in Creates' : io_qid'[c.job] = 1 => c = new
      BY <1>1, <1>3, <1>6, FreeMutex
    <2> QED
      BY <1>2, <1>4, <1>5, <2>1, <2>2, <2>3 DEF FirstAlone
  <1>10. ASSUME NEW c \in Creates, next_io_qid # 0 \/ io_qid[c.job] # 0
         PROVE  c.qid # new.qid
    <2>1. CASE next_io_qid # 0
      BY <1>5, <1>7, <2>1, QidTypes DEF QidsBelow
    <2>2. CASE next_io_qid = 0
      BY <1>1, <1>2, <1>10, <2>2, FreeMutex, QidTypes, Zenon DEF nvme_io_qid
    <2> QED
      BY <2>1, <2>2
  <1>11. CreatesApart'
    BY <1>2, <1>3, <1>4, <1>6, <1>10, ZenonT(30) DEF CreatesApart
  <1>12. QidsFresh'
    <2> SUFFICES ASSUME NEW c \in Creates', io_qid'[c.job] # 0, NEW q \in ctl_cqs
                 PROVE  q.qid # c.qid
      BY <1>1 DEF QidsFresh, Creates
    <2>1. CASE c = new
      <3>1. c.qid = Position
        BY <1>2, <1>4, <1>7, <2>1, Zenon
      <3>2. q.qid < Position /\ q.qid \in Nat /\ Position \in Nat
        BY <1>5, QidTypes, Zenon DEF QidsBelow
      <3> QED
        BY <3>1, <3>2
    <2>2. CASE c \in Creates
      BY <1>6, <2>2 DEF QidsFresh, Creates
    <2> QED
      BY <1>3, <2>1, <2>2
  <1> QED
    BY <1>5, <1>8, <1>9, <1>11, <1>12

\* A disabled controller has neither queues nor commands, and no user.
LEMMA RestartsFresh ==
  ASSUME AllInv', Restarts
  PROVE  FreshInv'
  <1>1. ctl_cqs' = {} /\ Creates' = {} /\ adm_pending' = {}
    BY DEF Restarts, ControllerDeinit, Creates
  <1>2. (Cardinality(Gone) \in Nat)'
    BY GoneFinite, PTL
  <1>3. QidsCounted'
    BY <1>2 DEF QidsCounted, Position, Restarts
  <1>4. QidsBelow' /\ CreatesApart' /\ QidsFresh'
    BY <1>1 DEF QidsBelow, CreatesApart, QidsFresh
  <1>5. \A k \in Job : pc'[k] # "create_cq"
    BY DEF Restarts, AllInv, IInv, UsersActive, Users, Active
  <1>6. FirstAlone'
    BY <1>1, <1>5 DEF FirstAlone, Restarts
  <1> QED
    BY <1>3, <1>4, <1>6 DEF FreshInv

\* Any other step of a job sends no CREATE CQ and leaves the counter alone.
LEMMA KeepsFresh ==
  ASSUME AllInv, AllInv', FreshInv, NEW j \in Job, NEW label, Keeps(j, label)
  PROVE  FreshInv'
  <1> USE DEF FreshInv
  <1>1. /\ Creates' \subseteq Creates /\ ctl_cqs' = ctl_cqs /\ io_qid' = io_qid
        /\ Position' = Position /\ next_io_qid' = next_io_qid
        /\ Users' \subseteq Users
    BY DEF Keeps, Position
  <1>2. \A k \in Job : pc'[k] = IF k = j THEN label ELSE pc[k]
    BY Zenon DEF Keeps, Goto, AllInv, TypeOK
  <1>3. Cardinality(Gone) <= Cardinality(Gone') /\ (Gone' # Job => Gone # Job)
    BY GoneGrows, Zenon DEF Keeps, AllInv
  <1>4. QidsCounted'
    <2>1. (Cardinality(Gone) \in Nat)'
      BY GoneFinite, PTL
    <2> QED
      BY <1>1, <1>3, <2>1, GoneFinite, QidTypes DEF QidsCounted
  <1>5. QidsBelow' /\ CreatesApart'
    BY <1>1, <1>3, Zenon DEF QidsBelow, CreatesApart
  <1>6. QidsFresh'
    BY <1>1 DEF QidsFresh, Creates
  <1>7. ASSUME NEW k \in Job, pc'[k] = "create_cq", io_qid'[k] = 1 PROVE Users' = {k}
    <2>1. pc[k] = "create_cq" /\ io_qid[k] = 1
      BY <1>1, <1>2, <1>7 DEF Keeps
    <2>2. k \in Users'
      BY <1>7 DEF AllInv, IInv, UsersActive, Users, Active
    <2> QED
      BY <1>1, <2>1, <2>2 DEF FirstAlone
  <1>8. ASSUME NEW c \in Creates', io_qid'[c.job] = 1 PROVE pc'[c.job] = "create_cq"
    <2>1. c \in Creates /\ c.job \in Job /\ pc[c.job] = "create_cq" /\ io_qid[c.job] = 1
      BY <1>1, <1>8, QidTypes DEF FirstAlone
    <2> QED
      BY <1>2, <1>8, <2>1 DEF Keeps
  <1>9. FirstAlone'
    BY <1>1, <1>3, <1>7, <1>8 DEF FirstAlone
  <1> QED
    BY <1>4, <1>5, <1>6, <1>9

\* The controller creates a queue with the identifier of one command, which
\* is not that of another.
LEMMA ExecuteFresh ==
  ASSUME AllInv, FreshInv, NEW c \in adm_pending, NEW ok \in BOOLEAN, CtlExecute(c, ok)
  PROVE  FreshInv'
  <1> DEFINE new == [qid |-> c.qid, job |-> c.job]
  <1> USE DEF FreshInv
  <1>1. /\ Gone' = Gone /\ Position' = Position /\ Users' = Users
        /\ UNCHANGED <<pc, io_qid, next_io_qid>>
    BY DEF CtlExecute, globals, nvars, Gone, Position, Users
  <1>2. Creates' = Creates \ {c}
    BY DEF CtlExecute, Creates
  <1>3. ASSUME NEW q \in ctl_cqs' PROVE q \in ctl_cqs \/ (c \in Creates /\ q.qid = c.qid)
    BY DEF CtlExecute, Creates
  <1>4. QidsCounted' /\ FirstAlone' /\ CreatesApart'
    BY <1>1, <1>2 DEF QidsCounted, FirstAlone, CreatesApart
  <1>5. QidsBelow'
    BY <1>1, <1>2, <1>3 DEF QidsBelow
  <1>6. QidsFresh'
    <2> SUFFICES ASSUME NEW d \in Creates', io_qid[d.job] # 0, NEW q \in ctl_cqs'
                 PROVE  q.qid # d.qid
      BY <1>1 DEF QidsFresh, Creates
    <2>1. d \in Creates /\ d # c
      BY <1>2
    <2>2. CASE q \in ctl_cqs
      BY <2>1, <2>2 DEF QidsFresh, Creates
    <2>3. CASE c \in Creates /\ q.qid = c.qid
      BY <2>1, <2>3 DEF CreatesApart
    <2> QED
      BY <1>3, <2>2, <2>3
  <1> QED
    BY <1>4, <1>5, <1>6

\* Every step keeps the identifiers fresh.
LEMMA NextFresh ==
  ASSUME FewJobs, AllInv, AllInv', FreshInv, [Next]_vars
  PROVE  FreshInv'
  <1>1. ASSUME NEW j \in Job, JobStep(j) PROVE FreshInv'
    <2>1. FirstAlone /\ IInv'
      BY DEF FreshInv, AllInv
    <2> QED
      BY <1>1, <2>1, JobStepQids, CreateFresh, PassesFresh, RestartsFresh, KeepsFresh,
         ZenonT(30)
  <1>2. ASSUME NEW c \in adm_pending, NEW ok \in BOOLEAN, CtlExecute(c, ok)
        PROVE  FreshInv'
    BY <1>2, ExecuteFresh
  <1>3. CASE AllEnded \/ UNCHANGED vars
    <2>1. UNCHANGED <<pc, io_qid, next_io_qid, ctrl, adm_pending, ctl_cqs>>
      BY <1>3 DEF AllEnded, vars, globals, nvars, ctlVars
    <2>2. Gone' = Gone /\ Position' = Position /\ Users' = Users /\ Creates' = Creates
      BY <2>1 DEF Gone, Position, Users, Creates
    <2> QED
      BY <2>1, <2>2, ZenonT(30) DEF FreshInv, QidsCounted, QidsBelow, FirstAlone,
         CreatesApart, QidsFresh
  <1> QED
    BY <1>1, <1>2, <1>3 DEF Next

\* At first the counter is 1 and there are no users, commands or queues.
LEMMA InitFresh == Init => FreshInv
  <1> SUFFICES ASSUME Init PROVE FreshInv
    OBVIOUS
  <1>1. ctl_cqs = {} /\ Creates = {} /\ adm_pending = {} /\ Users = {} /\ Position = 1
    BY DEF Init, Creates, Users, Position
  <1>2. \A j \in Job : pc[j] = "setup"
    BY DEF Init
  <1>3. QidsCounted
    BY <1>1, GoneFinite DEF QidsCounted
  <1> QED
    BY <1>1, <1>2, <1>3 DEF FreshInv, QidsBelow, FirstAlone, CreatesApart, QidsFresh

\* With no more jobs than values of the 16-bit counter, a CREATE CQ on its way
\* never names a queue that the controller has, however many queues failed
\* jobs left behind and however often the controller is made anew.
THEOREM QidsAreFresh == ASSUME FewJobs PROVE Spec => []QidsFresh
  <1>1. Init => AllInv /\ FreshInv
    BY InitAllInv, InitFresh
  <1>2. AllInv /\ FreshInv /\ [Next]_vars => (AllInv /\ FreshInv)'
    BY NextAllInv, NextFresh
  <1>3. FreshInv => QidsFresh
    BY DEF FreshInv
  <1> QED
    BY <1>1, <1>2, <1>3, PTL DEF Spec
=============================================================================
