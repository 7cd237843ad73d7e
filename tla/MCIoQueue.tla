------------------------------ MODULE MCIoQueue ------------------------------
(***************************************************************************)
(* IoQueue on small instances: the io_us are model values, the workload is *)
(* one of those below.                                                     *)
(***************************************************************************)
EXTENDS IoQueue, TLC

MCSymmetry == Permutations(IoU)

\* Requests: at least one for every way nvme_queue can treat one.
PlainRead   == [ddir |-> "read", aligned |-> TRUE, len |-> 1, pages |-> 2]
BigWrite    == [PlainRead EXCEPT !.ddir = "write", !.pages = 3]
Trim        == [PlainRead EXCEPT !.ddir = "trim"]
Invalid     == {[PlainRead EXCEPT !.aligned = FALSE], [Trim EXCEPT !.len = 0],
                [PlainRead EXCEPT !.ddir = "other"]}
PlainReads  == {PlainRead}
ListUsers   == {PlainRead, BigWrite, Trim}
AllKinds    == ListUsers \cup Invalid

\* Calls: look once, wait for one completion, wait for two or a timeout.
Look        == [min |-> 0, max |-> 1, timed |-> FALSE]
WaitForOne  == [min |-> 1, max |-> IoDepth, timed |-> FALSE]
WaitForTwo  == [min |-> 2, max |-> 2, timed |-> TRUE]
OneCall     == {WaitForOne}
TwoCalls    == {Look, WaitForOne}
LookOrWait  == {Look, WaitForTwo}

(***************************************************************************)
(* The part of the state that can still influence a step or a property.    *)
(* Left out: SQ slots already fetched, CQ slots already taken (but for the *)
(* tag), list pages no outstanding command refers to, events already       *)
(* handed to fio.                                                          *)
(***************************************************************************)
LiveState ==
  <<io_sq_tail, io_sq_head, ic_cq_head, io_cq_pahse, io_cmd_id, cmd_io_u,
    IF pc = "idle" THEN <<>> ELSE <<SubSeq(events, reaped + 1, Len(events)),
                                    nr_events, reaped>>,
    pc, want, head, phase_tag, count,
    [s \in PendingSlots |-> sq[s]], [i \in PostedSlots |-> cq[i]],
    [i \in Slots |-> cq[i].p],
    [s \in {c.page : c \in Outstanding} \ {NoPage} |-> prp_list[s]],
    dbVars, ctlVars, fio_u>>

=============================================================================
