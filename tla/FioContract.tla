----------------------------- MODULE FioContract -----------------------------
(***************************************************************************)
(* What fio relies on an asynchronous engine for, whatever its rings look  *)
(* like: an io_u accepted by queue() goes to the device once, the device   *)
(* finishes it, and event() hands it back once, and only after the device  *)
(* is done with it.  An I/O that fails stops the engine (newperf exits the *)
(* process), and nothing else does.                                        *)
(***************************************************************************)
EXTENDS FiniteSets

CONSTANT IoU

VARIABLES
  status,   \* per io_u: with fio, with the device, or finished by it
  stopped   \* the process has exited

contractVars == <<status, stopped>>

Statuses == {"fio", "device", "finished", "failed"}

ContractInit ==
  /\ status = [u \in IoU |-> "fio"]
  /\ stopped = FALSE

Move(u, from, to) ==
  /\ status[u] = from
  /\ status' = [status EXCEPT ![u] = to]
  /\ UNCHANGED stopped

Submit(u) == ~stopped /\ Move(u, "fio", "device")

\* The device goes on after the process has exited.
Finish(u) == Move(u, "device", "finished") \/ Move(u, "device", "failed")

Deliver(u) == ~stopped /\ Move(u, "finished", "fio")

Stop ==
  /\ ~stopped /\ \E u \in IoU : status[u] = "failed"
  /\ stopped' = TRUE
  /\ UNCHANGED status

ContractNext ==
  \/ \E u \in IoU : Submit(u) \/ Finish(u) \/ Deliver(u)
  \/ Stop

\* Accepted I/O is finished and handed back; a failure is acted upon.
ContractFairness ==
  /\ \A u \in IoU : WF_contractVars(Finish(u)) /\ WF_contractVars(Deliver(u))
  /\ WF_contractVars(Stop)

ContractSafety == ContractInit /\ [][ContractNext]_contractVars

ContractSpec == ContractSafety /\ ContractFairness

=============================================================================
