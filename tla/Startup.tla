------------------------------- MODULE Startup -------------------------------
(***************************************************************************)
(* nvme_setup of the first job: parse_target, then controller_init on what *)
(* it returned.  Composes Target and Controller: the mapping of BAR0 and   *)
(* the DMA descriptor of controller_init are those of the function that    *)
(* the text leads to, and both are given up with the controller_data.      *)
(***************************************************************************)
EXTENDS Controller, Target

startupVars == <<vars, targetVars>>

\* What a step of the controller_data means for the functions behind it.
BehindController ==
  IF pc' = "down" THEN Forget
  ELSE IF bar0_virt' # bar0_virt THEN MapBar0
  ELSE IF dma_fd_opened' # dma_fd_opened THEN OpenDma
  ELSE UNCHANGED targetVars

StartupInit == Init /\ TargetInit

\* The text is no target, and the job fails.
ParseFailed == parsed /\ ctrl = NoTarget /\ UNCHANGED startupVars

ControllerCall == ctrl # NoTarget /\ (InitMap \/ CallStep \/ Deinit) /\ BehindController

CrashStep == Crash /\ BehindController

DeviceStep == (DevOn \/ DevOff \/ DevGone) /\ UNCHANGED targetVars

StartupNext ==
  \/ Parse /\ UNCHANGED vars
  \/ ParseFailed
  \/ ControllerCall \/ CrashStep \/ DeviceStep
  \/ AllDone /\ UNCHANGED targetVars

\* The process is scheduled; nothing is assumed of the device.
StartupSpec ==
  /\ StartupInit /\ [][StartupNext]_startupVars
  /\ WF_startupVars(CallStep /\ BehindController)

=============================================================================
