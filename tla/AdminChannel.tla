---------------------------- MODULE AdminChannel ----------------------------
(***************************************************************************)
(* What the senders of admin commands rely on, and what Engine assumes:    *)
(* commands are handed over one at a time, the controller executes each at *)
(* most once, in any order and at any time, and answers arrive in the      *)
(* order of execution.  A sender succeeds only on the answer to its own    *)
(* command; an answer to another command stays where it is.                *)
(***************************************************************************)
EXTENDS Integers, Sequences

CONSTANTS Command, None

VARIABLES
  pending,   \* commands handed over and not executed
  answers,   \* answers not taken, oldest first
  current    \* the command somebody waits for, or None

vars == <<pending, answers, current>>

Init == pending = {} /\ answers = <<>> /\ current = None

Send(c) ==
  /\ current = None /\ c \notin pending
  /\ current' = c
  /\ pending' = pending \cup {c}
  /\ UNCHANGED answers

Execute(c, ok) ==
  /\ c \in pending
  /\ pending' = pending \ {c}
  /\ answers' = Append(answers, [cid |-> c, ok |-> ok])
  /\ UNCHANGED current

\* The sender learns of success or of an error.
Take ==
  /\ current # None
  /\ answers # <<>> /\ Head(answers).cid = current
  /\ answers' = Tail(answers)
  /\ current' = None
  /\ UNCHANGED pending

\* No answer in time, or an answer that is not the sender's.
GiveUp ==
  /\ current # None
  /\ answers # <<>> => Head(answers).cid # current
  /\ current' = None
  /\ UNCHANGED <<pending, answers>>

\* The controller is started again.
Reset ==
  /\ current = None
  /\ pending' = {} /\ answers' = <<>>
  /\ UNCHANGED current

Next ==
  \/ \E c \in Command : Send(c) \/ \E ok \in BOOLEAN : Execute(c, ok)
  \/ Take \/ GiveUp \/ Reset

Spec == Init /\ [][Next]_vars

=============================================================================
