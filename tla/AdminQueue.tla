----------------------------- MODULE AdminQueue -----------------------------
(***************************************************************************)
(* The admin queue pair: submit_admin_command, submit_identify_namespace   *)
(* and wait_admin_completion on rings of a few entries, with commands that *)
(* are answered late or not at all.  The callers hold g_mutex, so one      *)
(* command at a time is waited for; the ones given up stay in the rings.   *)
(* The rings are started afresh by controller_init.                        *)
(***************************************************************************)
EXTENDS Integers, Sequences

CONSTANTS
  Depth,         \* NVME_ADMIN_Q_DEPTH
  MaxCommands,   \* bound: commands between two starts; fewer than 2^16
  MaxStarts      \* bound: starts of the controller

ASSUME BoundsAssumption ==
  Depth \in Nat \ {0, 1} /\ MaxCommands \in Nat /\ MaxStarts \in Nat

VARIABLES
  \* struct controller_data
  admin_sq_tail, admin_cq_head, admin_cq_phase, admin_cmd_id,
  \* the command waited for, and what became of the one before
  cmd_id, outcome,
  \* DMA memory and doorbells
  sq, cq, sq_tail_db, cq_head_db,
  \* the controller
  ctl_sq_head, executing, ctl_cq_tail, ctl_cq_phase,
  \* history: starts; since the last of them the commands not executed, the
  \* number of those fetched, the ones executed without error, and whether the
  \* controller ever had more to fetch than the ring holds
  starts, pending, fetched, executed, overrun

hostVars == <<admin_sq_tail, admin_cq_head, admin_cq_phase, admin_cmd_id,
              cmd_id, outcome>>
ctlVars  == <<ctl_sq_head, executing, ctl_cq_tail, ctl_cq_phase>>
vars     == <<hostVars, sq, cq, sq_tail_db, cq_head_db, ctlVars, starts,
              pending, fetched, executed, overrun>>

Slots   == 0 .. Depth - 1
Command == 0 .. MaxCommands - 1
None    == MaxCommands

ZeroedCompletion == [cid |-> 0, ok |-> TRUE, p |-> 0]

NoCommands    == [s \in Slots |-> None]
NoCompletions == [s \in Slots |-> ZeroedCompletion]

\* After controller_init: memory and indices zeroed, expected phase tag 1.
Init ==
  /\ admin_sq_tail = 0 /\ admin_cq_head = 0 /\ admin_cq_phase = 1
  /\ admin_cmd_id = 0 /\ cmd_id = None /\ outcome = "none"
  /\ sq = NoCommands /\ cq = NoCompletions /\ sq_tail_db = 0 /\ cq_head_db = 0
  /\ ctl_sq_head = 0 /\ executing = {} /\ ctl_cq_tail = 0 /\ ctl_cq_phase = 1
  /\ starts = 1 /\ pending = {} /\ fetched = 0 /\ executed = {} /\ overrun = FALSE

-----------------------------------------------------------------------------
(* Sending *)

Advance(i) == IF i + 1 = Depth THEN 0 ELSE i + 1

\* The slot the command is written to.
SlotAfterTail == Advance(admin_sq_tail)

Slot == admin_sq_tail

\* SQ entry, tail and doorbell.  There is no check for a free entry.
submit_admin_command ==
  /\ cmd_id = None /\ admin_cmd_id < MaxCommands
  /\ cmd_id' = admin_cmd_id /\ admin_cmd_id' = admin_cmd_id + 1
  /\ sq' = [sq EXCEPT ![Slot] = admin_cmd_id]
  /\ admin_sq_tail' = Advance(admin_sq_tail)
  /\ sq_tail_db' = admin_sq_tail'
  /\ outcome' = "none"
  /\ pending' = pending \cup {admin_cmd_id}
  /\ overrun' = (overrun \/ admin_cmd_id' - fetched >= Depth)
  /\ UNCHANGED <<admin_cq_head, admin_cq_phase, cq, cq_head_db, ctlVars,
                 starts, fetched, executed>>

-----------------------------------------------------------------------------
(* wait_admin_completion *)

Entry == cq[admin_cq_head]

EntryThere == Entry.p = admin_cq_phase

\* The tag expected after the head has moved on.
NextPhaseUnchanged == admin_cq_phase

NextPhase == IF Advance(admin_cq_head) = 0 THEN 1 - admin_cq_phase ELSE admin_cq_phase

Return(result) == cmd_id' = None /\ outcome' = result

\* The entry answers the command: head and doorbell move on.
OwnAnswerOfAnyone == TRUE

OwnAnswer == Entry.cid = cmd_id

WaitAnswered ==
  /\ cmd_id # None /\ EntryThere /\ OwnAnswer
  /\ admin_cq_head' = Advance(admin_cq_head)
  /\ admin_cq_phase' = NextPhase
  /\ cq_head_db' = admin_cq_head'
  /\ Return(IF Entry.ok THEN "true" ELSE "false")
  /\ UNCHANGED <<admin_sq_tail, admin_cmd_id, sq, cq, sq_tail_db, ctlVars,
                 starts, pending, fetched, executed, overrun>>

\* An unexpected command id, or no entry until the timeout.
WaitFails ==
  /\ cmd_id # None
  /\ EntryThere => ~OwnAnswer
  /\ Return("false")
  /\ UNCHANGED <<admin_sq_tail, admin_cq_head, admin_cq_phase, admin_cmd_id, sq,
                 cq, sq_tail_db, cq_head_db, ctlVars, starts, pending,
                 fetched, executed, overrun>>

\* controller_deinit, and controller_init on a new controller_data.
Restart ==
  /\ cmd_id = None /\ starts < MaxStarts
  /\ admin_sq_tail' = 0 /\ admin_cq_head' = 0 /\ admin_cq_phase' = 1
  /\ admin_cmd_id' = 0 /\ outcome' = "none"
  /\ sq' = NoCommands /\ cq' = NoCompletions /\ sq_tail_db' = 0 /\ cq_head_db' = 0
  /\ ctl_sq_head' = 0 /\ executing' = {} /\ ctl_cq_tail' = 0 /\ ctl_cq_phase' = 1
  /\ starts' = starts + 1
  /\ pending' = {} /\ fetched' = 0 /\ executed' = {} /\ overrun' = FALSE
  /\ UNCHANGED cmd_id

-----------------------------------------------------------------------------
(* The controller (external) *)

CtlFetch ==
  /\ ctl_sq_head # sq_tail_db
  /\ executing' = executing \cup {sq[ctl_sq_head]}
  /\ ctl_sq_head' = Advance(ctl_sq_head)
  /\ fetched' = fetched + 1
  /\ UNCHANGED <<hostVars, sq, cq, sq_tail_db, cq_head_db, ctl_cq_tail,
                 ctl_cq_phase, starts, pending, executed, overrun>>

\* It posts nothing into a full completion queue.
CtlComplete(c, ok) ==
  /\ Advance(ctl_cq_tail) # cq_head_db
  /\ cq' = [cq EXCEPT ![ctl_cq_tail] = [cid |-> c, ok |-> ok, p |-> ctl_cq_phase]]
  /\ ctl_cq_tail' = Advance(ctl_cq_tail)
  /\ ctl_cq_phase' = IF Advance(ctl_cq_tail) = 0 THEN 1 - ctl_cq_phase ELSE ctl_cq_phase
  /\ executing' = executing \ {c}
  /\ pending' = pending \ {c}
  /\ executed' = IF ok THEN executed \cup {c} ELSE executed
  /\ UNCHANGED <<hostVars, sq, sq_tail_db, cq_head_db, ctl_sq_head, starts,
                 fetched, overrun>>

Idle == cmd_id = None /\ UNCHANGED vars

Next ==
  \/ submit_admin_command \/ WaitAnswered \/ WaitFails \/ Restart
  \/ CtlFetch
  \/ \E c \in executing, ok \in BOOLEAN : CtlComplete(c, ok)
  \/ Idle

Spec == Init /\ [][Next]_vars

-----------------------------------------------------------------------------
(* Properties *)

\* How far slot b is ahead of slot a, and the slot i places ahead of a.
Ahead(a, b) == IF a <= b THEN b - a ELSE Depth + b - a

After(a, i) == IF a + i < Depth THEN a + i ELSE a + i - Depth

Posted == [i \in 1 .. Ahead(admin_cq_head, ctl_cq_tail) |->
             LET e == cq[After(admin_cq_head, i - 1)]
             IN  [cid |-> e.cid, ok |-> e.ok]]

Channel == INSTANCE AdminChannel
  WITH pending <- pending, answers <- Posted, current <- cmd_id

\* The two rings, the doorbells and the phase tags are together the channel
\* the callers rely on: also with late answers, a full completion queue, more
\* commands given up than the submission ring has entries, and a restart.
KeepsChannel == Channel!Spec

\* A caller that is told of success sent a command the controller has executed
\* without error since; a late answer to an earlier command is never taken
\* for it.
SuccessMeansDone == outcome = "true" => admin_cmd_id - 1 \in executed

\* The submission ring loses no command as long as the controller does not
\* fall behind by as many commands as the ring has entries: the entries it has
\* yet to fetch are the ones sent, in order.
NothingOverwritten ==
  ~overrun =>
    /\ Ahead(ctl_sq_head, sq_tail_db) = admin_cmd_id - fetched
    /\ \A c \in fetched .. admin_cmd_id - 1 : sq[After(ctl_sq_head, c - fetched)] = c

=============================================================================
