------------------------------ MODULE MCEngine ------------------------------
(***************************************************************************)
(* Engine with a few jobs and one more variable: whether fio has called    *)
(* init of some job while another was still being set up.  Its option      *)
(* create_serialize keeps the two apart.                                   *)
(***************************************************************************)
EXTENDS Engine

VARIABLE overlapped

Overlap ==
  /\ \E j \in Job : pc[j] = "init" /\ pc'[j] # "init"
  /\ \E k \in Job : pc[k] \in {"setup", "size", "identify"}

MCInit == Init /\ overlapped = FALSE

MCNext == Next /\ overlapped' = (overlapped \/ Overlap)

MCSpec == MCInit /\ [][MCNext]_<<vars, overlapped>> /\ Fairness

\* The block size a running job turns offsets into LBAs with was read from the
\* namespace by nvme_get_file_size, provided that no init came between the
\* setups: controller_init only sets the default of 512 bytes, and a job that
\* asked an earlier controller does not ask again.
BlockSizeKnown ==
  ~overlapped => \A j \in Job : pc[j] = "running" => lba_known = ctrl[j]

\* Under the same condition, the controller has been disabled and its memory
\* freed when all jobs have ended, if some job got as far as nvme_init's count
\* of users: the last one does it, whether it leaves by nvme_cleanup or by a
\* failed init.
ControllerReleased ==
  ~overlapped /\ (\A j \in Job : pc[j] \in Ended) /\ (\E j \in Job : io_qid[j] # 0) =>
    g_ctrl = NULL

=============================================================================
