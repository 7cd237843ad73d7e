----------------------------- MODULE Controller -----------------------------
(***************************************************************************)
(* Starting and stopping the controller: controller_init, wait_ready and   *)
(* controller_deinit against a device that takes its time, may drop off    *)
(* the bus (every register then reads as all ones) and may be found in any *)
(* state its last owner left it in.  The process can end at any moment,    *)
(* through exit in poll_cq or a signal, and be started again: the kernel   *)
(* then takes back mappings and DMA memory, the device notices nothing.    *)
(*                                                                         *)
(* Register accesses themselves never fail: BAR0 is mapped and offsets are *)
(* aligned, which is all that controller_reg_read32 and _write32 check.    *)
(***************************************************************************)
EXTENDS Integers

CONSTANTS
  MaxInits,   \* bound: calls of controller_init
  Timeout     \* CAP.TO in polls of wait_ready

ASSUME BoundsAssumption == MaxInits \in Nat \ {0} /\ Timeout \in Nat \ {0}

VARIABLES
  \* struct controller_data
  bar0_virt, dma_fd_opened, admin_sq_mem, admin_cq_mem,
  \* the call under way: calls so far, position, elapsed of wait_ready
  inits, pc, elapsed,
  \* the device: CC.EN, CSTS.RDY, ASQ, ACQ, off the bus, queues it works with
  cc_en, csts_rdy, asq, acq, gone, dev_sq, dev_cq,
  \* what has happened: CC.EN = 0 with CSTS.RDY = 1 at the start of this init;
  \* some wait_ready timed out; a process ended without controller_deinit
  halfway, late, crashed

hostVars == <<bar0_virt, dma_fd_opened, admin_sq_mem, admin_cq_mem>>
regVars  == <<cc_en, asq, acq>>
devVars  == <<csts_rdy, gone, dev_sq, dev_cq>>
history  == <<halfway, late, crashed>>
vars     == <<hostVars, inits, pc, elapsed, regVars, devVars, history>>

\* Admin queue memory is named by the controller_init that allocated it.
NULL    == 0
Foreign == MaxInits + 1   \* memory of an earlier owner

\* The earlier owner may have left the device on, off, or starting.
Init ==
  /\ bar0_virt = FALSE /\ dma_fd_opened = FALSE
  /\ admin_sq_mem = NULL /\ admin_cq_mem = NULL
  /\ inits = 0 /\ pc = "down" /\ elapsed = 0
  /\ cc_en \in BOOLEAN /\ csts_rdy \in {FALSE, cc_en} /\ gone \in BOOLEAN
  /\ asq = Foreign /\ acq = Foreign /\ dev_sq = Foreign /\ dev_cq = Foreign
  /\ halfway = FALSE /\ late = FALSE /\ crashed = FALSE

-----------------------------------------------------------------------------
(* Giving everything back *)

\* nvme_release_controller_dma: both queues, then the descriptor.
ReleaseDmaKeepsFd ==
  /\ admin_sq_mem' = NULL /\ admin_cq_mem' = NULL
  /\ UNCHANGED dma_fd_opened

ReleaseDma ==
  /\ admin_sq_mem' = NULL /\ admin_cq_mem' = NULL
  /\ dma_fd_opened' = FALSE

\* nvme_unmap_controller_bar0 and nvme_release_controller_dma.
Release == bar0_virt' = FALSE /\ ReleaseDma /\ pc' = "down"

-----------------------------------------------------------------------------
(* Registers *)

\* A device that is gone answers every read with all ones.
AllOnesIgnored == FALSE

AllOnes == gone

EnBit  == gone \/ cc_en
RdyBit == gone \/ csts_rdy

\* wait_ready(want): one poll of CSTS, with what follows success and failure.
WantSeen(want) == RdyBit = want

NotCounted == elapsed

Counted == elapsed + 1

PollAgain(polls) == polls < Timeout

wait_ready(want, Ready, Failed) ==
  \/ /\ AllOnes
     /\ Failed /\ UNCHANGED <<elapsed, late>>
  \/ /\ ~AllOnes /\ WantSeen(want)
     /\ Ready /\ UNCHANGED <<elapsed, late>>
  \/ /\ ~AllOnes /\ ~WantSeen(want)
     /\ elapsed' = Counted
     /\ IF PollAgain(elapsed')
        THEN UNCHANGED <<hostVars, pc, late>>
        ELSE Failed /\ late' = TRUE

-----------------------------------------------------------------------------
(* controller_init *)

Goto(label) == pc' = label

\* controller_bar0_map; without a mapping there is nothing to undo.
InitMap ==
  /\ pc = "down" /\ inits < MaxInits
  /\ inits' = inits + 1
  /\ \/ bar0_virt' = TRUE /\ Goto("cap")
     \/ UNCHANGED <<bar0_virt, pc>>
  /\ UNCHANGED <<dma_fd_opened, admin_sq_mem, admin_cq_mem, elapsed, regVars,
                 devVars, history>>

\* CAP: all ones, zero and a ready timeout of zero are refused.
InitCap ==
  /\ pc = "cap"
  /\ \/ ~AllOnes /\ Goto("alloc_sq") /\ UNCHANGED bar0_virt
     \/ bar0_virt' = FALSE /\ Goto("down")
  /\ UNCHANGED <<dma_fd_opened, admin_sq_mem, admin_cq_mem, inits, elapsed,
                 regVars, devVars, history>>

\* nvme_alloc_dma_mem opens the DMA device when needed; each step may fail.
InitAllocSq ==
  /\ pc = "alloc_sq"
  /\ \/ /\ dma_fd_opened' = TRUE /\ admin_sq_mem' = inits /\ Goto("alloc_cq")
        /\ UNCHANGED <<bar0_virt, admin_cq_mem>>
     \/ Release
  /\ UNCHANGED <<inits, elapsed, regVars, devVars, history>>

InitAllocCq ==
  /\ pc = "alloc_cq"
  /\ \/ /\ admin_cq_mem' = inits /\ Goto("cc")
        /\ UNCHANGED <<bar0_virt, dma_fd_opened, admin_sq_mem>>
     \/ Release
  /\ UNCHANGED <<inits, elapsed, regVars, devVars, history>>

\* An enabled controller is disabled first.
MustDisableNever == FALSE

MustDisable == EnBit

InitReadCc ==
  /\ pc = "cc"
  /\ \/ AllOnes /\ Release /\ UNCHANGED <<cc_en, elapsed, halfway>>
     \/ /\ ~AllOnes /\ MustDisable
        /\ cc_en' = FALSE /\ halfway' = FALSE
        /\ elapsed' = 0 /\ Goto("wait_off") /\ UNCHANGED hostVars
     \/ /\ ~AllOnes /\ ~MustDisable
        /\ halfway' = csts_rdy
        /\ Goto("program") /\ UNCHANGED <<hostVars, cc_en, elapsed>>
  /\ UNCHANGED <<inits, asq, acq, devVars, late, crashed>>

InitWaitOff ==
  /\ pc = "wait_off"
  /\ wait_ready(FALSE, Goto("program") /\ UNCHANGED hostVars, Release)
  /\ UNCHANGED <<inits, regVars, devVars, halfway, crashed>>

\* AQA, ASQ and ACQ.
InitProgram ==
  /\ pc = "program"
  /\ asq' = admin_sq_mem /\ acq' = admin_cq_mem
  /\ Goto("enable")
  /\ UNCHANGED <<hostVars, inits, elapsed, cc_en, devVars, history>>

InitEnable ==
  /\ pc = "enable"
  /\ cc_en' = TRUE
  /\ elapsed' = 0 /\ Goto("wait_on")
  /\ UNCHANGED <<hostVars, inits, asq, acq, devVars, history>>

\* The last step: on success the addresses and indices are filled in.
InitWaitOn ==
  /\ pc = "wait_on"
  /\ wait_ready(TRUE, Goto("up") /\ UNCHANGED hostVars, Release)
  /\ UNCHANGED <<inits, regVars, devVars, halfway, crashed>>

-----------------------------------------------------------------------------
(* controller_deinit and the end of a process *)

\* CC.EN is set: controller_init set it, nobody else writes CC, and a device
\* that is gone reads as all ones.
Deinit ==
  /\ pc = "up"
  /\ cc_en' = FALSE
  /\ elapsed' = 0 /\ Goto("deinit")
  /\ UNCHANGED <<hostVars, inits, asq, acq, devVars, history>>

\* What wait_ready returns is not looked at.
DeinitWithoutWait ==
  /\ pc = "deinit" /\ Release
  /\ UNCHANGED <<inits, elapsed, regVars, devVars, history>>

DeinitWait ==
  /\ pc = "deinit"
  /\ wait_ready(FALSE, Release, Release)
  /\ UNCHANGED <<inits, regVars, devVars, halfway, crashed>>

Crash ==
  /\ pc # "down"
  /\ Release
  /\ crashed' = TRUE
  /\ UNCHANGED <<inits, elapsed, regVars, devVars, halfway, late>>

-----------------------------------------------------------------------------
(* The device (external) *)

\* It follows CC.EN, in its own time, and takes over ASQ and ACQ when it
\* starts.
DevOn ==
  /\ ~gone /\ cc_en /\ ~csts_rdy
  /\ csts_rdy' = TRUE /\ dev_sq' = asq /\ dev_cq' = acq
  /\ UNCHANGED <<hostVars, inits, pc, elapsed, regVars, gone, history>>

DevOff ==
  /\ ~gone /\ ~cc_en /\ csts_rdy
  /\ csts_rdy' = FALSE
  /\ UNCHANGED <<hostVars, inits, pc, elapsed, regVars, gone, dev_sq, dev_cq,
                 history>>

DevGone ==
  /\ ~gone /\ gone' = TRUE
  /\ UNCHANGED <<hostVars, inits, pc, elapsed, regVars, csts_rdy, dev_sq,
                 dev_cq, history>>

-----------------------------------------------------------------------------
\* A call that has begun goes on to its end.
CallStep ==
  \/ InitCap \/ InitAllocSq \/ InitAllocCq \/ InitReadCc \/ InitWaitOff
  \/ InitProgram \/ InitEnable \/ InitWaitOn \/ DeinitWait

AllDone == pc = "down" /\ inits = MaxInits /\ UNCHANGED vars

Next ==
  \/ InitMap \/ CallStep \/ Deinit \/ Crash
  \/ DevOn \/ DevOff \/ DevGone
  \/ AllDone

Spec == Init /\ [][Next]_vars

-----------------------------------------------------------------------------
(* Properties *)

OwnQueues == dev_sq = admin_sq_mem /\ dev_cq = admin_cq_mem

InitReturnsTrue == pc # "up" /\ pc' = "up"

\* When controller_init returns true the device is present, ready and working
\* with the admin queues that were just allocated, unless it was found disabled
\* but still ready: controller_init then takes the old ready bit for the new
\* one.  In all other cases it tells a fresh start from the rest of an earlier
\* one, a crash and a device that has vanished.
InitMeansReadyUnlessHalfway ==
  [][InitReturnsTrue => halfway \/ (~gone /\ csts_rdy /\ OwnQueues)]_vars

\* A device that is on works with memory that is still allocated: the queues
\* of the current owner, or those of the one before.  Exempt are a device
\* slower than CAP.TO and a process that ended without controller_deinit, for
\* which controller_init and controller_deinit free the memory regardless.
QueuesAllocated ==
  csts_rdy /\ ~gone /\ ~late /\ ~crashed =>
    OwnQueues \/ (dev_sq = Foreign /\ dev_cq = Foreign)

\* Whatever fails, and wherever: a controller that is down has no mapping, no
\* queue memory and no open descriptor left.
DownMeansReleased ==
  pc = "down" => /\ ~bar0_virt /\ ~dma_fd_opened
                 /\ admin_sq_mem = NULL /\ admin_cq_mem = NULL

\* The queue registers are only written while the device is off, unless it
\* was found halfway.
QueuesSetWhileOff ==
  [][<<asq, acq>>' # <<asq, acq>> => halfway \/ gone \/ (~cc_en /\ ~csts_rdy)]_vars

\* Both calls return, whatever the device does.
CallsReturn == pc \notin {"down", "up"} ~> pc \in {"down", "up"}

=============================================================================
