-------------------------- MODULE AdminQueueProofs --------------------------
(***************************************************************************)
(* The admin rings, for any depth, number of commands and starts: they     *)
(* implement AdminChannel, success means that the command was executed,    *)
(* and no command is overwritten before the controller falls behind.  At   *)
(* the end the other way to the registers of a device: pci_config_read and *)
(* pci_config_write, for every size of the configuration space and however *)
(* the kernel cuts the transfers into pieces.                              *)
(***************************************************************************)
EXTENDS AdminQueue, PciConfig, SequenceTheorems, TLAPS

USE BoundsAssumption

-----------------------------------------------------------------------------
(* Rings *)

\* Slot s is one of those from a up to, but not including, b.
Within(a, s, b) == Ahead(a, s) < Ahead(a, b)

\* Distances lie below the depth, 0 only from a slot to itself.
LEMMA AheadFacts ==
  ASSUME NEW a \in Slots, NEW b \in Slots
  PROVE  /\ Ahead(a, b) \in 0 .. Depth - 1
         /\ Ahead(a, b) = 0 <=> a = b
         /\ After(a, Ahead(a, b)) = b
         /\ Advance(a) \in Slots /\ Advance(a) # a
  BY DEF Ahead, After, Advance, Slots

\* Counting forth and back.
LEMMA AfterFacts ==
  ASSUME NEW a \in Slots, NEW i \in 0 .. Depth - 1
  PROVE  /\ After(a, i) \in Slots /\ Ahead(a, After(a, i)) = i
         /\ i # 0 => After(Advance(a), i - 1) = After(a, i)
  BY DEF Ahead, After, Advance, Slots

\* The end of a range moves on: the slot it was at joins the range.
LEMMA EndAdvances ==
  ASSUME NEW a \in Slots, NEW b \in Slots, NEW s \in Slots, Advance(b) # a
  PROVE  /\ Ahead(a, Advance(b)) = Ahead(a, b) + 1
         /\ Within(a, s, Advance(b)) <=> Within(a, s, b) \/ s = b
         /\ ~Within(a, b, b)
  BY DEF Within, Ahead, Advance, Slots

\* The end of a range catches up with its start: the range is empty.
LEMMA EndWraps ==
  ASSUME NEW a \in Slots, NEW b \in Slots, NEW s \in Slots, Advance(b) = a
  PROVE  Ahead(a, Advance(b)) = 0 /\ ~Within(a, s, Advance(b))
  BY DEF Within, Ahead, Advance, Slots

\* The start of a range that is not empty moves on: its slot leaves the range.
LEMMA StartAdvances ==
  ASSUME NEW a \in Slots, NEW b \in Slots, NEW s \in Slots, a # b
  PROVE  /\ Ahead(Advance(a), b) = Ahead(a, b) - 1
         /\ Within(Advance(a), s, b) <=> Within(a, s, b) /\ s # a
         /\ Within(a, a, b)
  BY DEF Within, Ahead, Advance, Slots

-----------------------------------------------------------------------------
(* The inductive invariant *)

Types ==
  /\ admin_sq_tail \in Slots /\ admin_cq_head \in Slots /\ admin_cq_phase \in {0, 1}
  /\ admin_cmd_id \in 0 .. MaxCommands /\ fetched \in Nat
  /\ sq \in [Slots -> Nat] /\ cq \in [Slots -> [cid : Nat, ok : BOOLEAN, p : {0, 1}]]
  /\ sq_tail_db = admin_sq_tail /\ cq_head_db = admin_cq_head
  /\ ctl_sq_head \in Slots /\ ctl_cq_tail \in Slots /\ ctl_cq_phase \in {0, 1}

\* Whoever waits, waits for the newest command.
WaitsForNewest == cmd_id # None => cmd_id + 1 = admin_cmd_id /\ cmd_id \in Nat

\* The entries the controller has yet to fetch are commands it does not have,
\* each in one place, also after an overrun.
SqInv ==
  /\ executing \subseteq pending /\ pending \subseteq 0 .. admin_cmd_id - 1
  /\ \A s \in Slots :
       Within(ctl_sq_head, s, sq_tail_db) => sq[s] \in pending \ executing
  /\ \A s, t \in Slots :
       /\ Within(ctl_sq_head, s, sq_tail_db) /\ Within(ctl_sq_head, t, sq_tail_db)
       /\ sq[s] = sq[t]
       => s = t

\* The tag an entry of the completion ring has in the current turn.
Tag(s) == IF s >= admin_cq_head THEN admin_cq_phase ELSE 1 - admin_cq_phase

\* Exactly the entries that have been posted and not consumed have that tag.
CqInv ==
  /\ ctl_cq_phase = Tag(ctl_cq_tail)
  /\ \A s \in Slots : cq[s].p = Tag(s) <=> Within(admin_cq_head, s, ctl_cq_tail)

\* What they say is true.
AnswersTrue ==
  \A s \in Slots :
    Within(admin_cq_head, s, ctl_cq_tail) /\ cq[s].ok => cq[s].cid \in executed

IInv ==
  /\ Types /\ WaitsForNewest /\ SqInv /\ CqInv /\ AnswersTrue
  /\ SuccessMeansDone /\ NothingOverwritten

\* After controller_init the rings are empty.
LEMMA InitIInv == Init => IInv
  <1> SUFFICES ASSUME Init PROVE IInv
    OBVIOUS
  <1>1. 0 \in Slots /\ \A s \in Slots : ~Within(0, s, 0)
    BY DEF Slots, Within, Ahead
  <1>2. Types
    <2>1. cq \in [Slots -> [cid : Nat, ok : BOOLEAN, p : {0, 1}]]
      BY DEF Init, NoCompletions, ZeroedCompletion
    <2>2. sq \in [Slots -> Nat]
      BY DEF Init, NoCommands, None
    <2> QED
      BY <1>1, <2>1, <2>2 DEF Init, Types
  <1>3. SqInv /\ AnswersTrue
    BY <1>1 DEF Init, SqInv, AnswersTrue
  <1>4. CqInv
    BY <1>1 DEF Init, CqInv, Tag, NoCompletions, ZeroedCompletion, Slots
  <1>5. WaitsForNewest /\ SuccessMeansDone /\ NothingOverwritten
    BY DEF Init, WaitsForNewest, SuccessMeansDone, NothingOverwritten, Ahead
  <1> QED
    BY <1>2, <1>3, <1>4, <1>5 DEF IInv

-----------------------------------------------------------------------------
(* One lemma per action *)

\* A new command goes into the slot at the tail.  If the tail thereby catches
\* up with the controller, the ring looks empty to it.
LEMMA SubmitIInv ==
  ASSUME IInv, submit_admin_command
  PROVE  IInv'
  <1> DEFINE h == ctl_sq_head
             t == admin_sq_tail
  <1>0. /\ t \in Slots /\ h \in Slots /\ sq_tail_db = t /\ sq_tail_db' = Advance(t)
        /\ sq \in [Slots -> Nat] /\ admin_cmd_id \in Nat /\ admin_cmd_id < MaxCommands
        /\ sq' = [sq EXCEPT ![t] = admin_cmd_id]
        /\ admin_cmd_id' = admin_cmd_id + 1 /\ admin_sq_tail' = Advance(t)
        /\ UNCHANGED <<ctl_sq_head, executing, fetched, executed, cq, admin_cq_head,
                       admin_cq_phase, ctl_cq_tail, ctl_cq_phase>>
    BY DEF IInv, Types, submit_admin_command, Slot, ctlVars
  <1>1. Types'
    <2>1. sq' \in [Slots -> Nat] /\ admin_cmd_id' \in 0 .. MaxCommands
      BY <1>0
    <2> QED
      BY <1>0, <2>1, AheadFacts DEF IInv, Types, submit_admin_command
  <1>2. WaitsForNewest'
    BY <1>0 DEF submit_admin_command, WaitsForNewest
  <1>3. \A s \in Slots : sq'[s] = IF s = t THEN admin_cmd_id ELSE sq[s]
    BY <1>0
  <1>4. /\ executing \subseteq pending /\ pending \subseteq 0 .. admin_cmd_id - 1
        /\ pending' = pending \cup {admin_cmd_id}
    BY DEF IInv, SqInv, submit_admin_command
  <1>5. SqInv'
    <2>1. executing' \subseteq pending' /\ pending' \subseteq 0 .. admin_cmd_id' - 1
      BY <1>0, <1>4
    <2>2. CASE Advance(t) = h
      <3>1. \A s \in Slots : ~Within(h, s, Advance(t))
        BY <1>0, <2>2, EndWraps
      <3> QED
        BY <1>0, <2>1, <3>1 DEF SqInv
    <2>3. CASE Advance(t) # h
      <3>1. \A s \in Slots : /\ Within(h, s, Advance(t)) <=> Within(h, s, t) \/ s = t
                             /\ ~Within(h, t, t)
        BY <1>0, <2>3, EndAdvances
      <3>2. \A s \in Slots : Within(h, s, t) => /\ sq[s] \in pending \ executing
                                                /\ sq[s] # admin_cmd_id
        BY <1>0, <1>4 DEF IInv, SqInv
      <3>3. \A s \in Slots : Within(h, s, Advance(t)) => sq'[s] \in pending' \ executing
        <4>1. admin_cmd_id \notin executing
          BY <1>0, <1>4
        <4> QED
          BY <1>3, <1>4, <3>1, <3>2, <4>1
      <3>4. \A s, r \in Slots : /\ Within(h, s, Advance(t)) /\ Within(h, r, Advance(t))
                                /\ sq'[s] = sq'[r]
                                => s = r
        BY <1>0, <1>3, <3>1, <3>2 DEF IInv, SqInv
      <3> QED
        BY <1>0, <2>1, <3>3, <3>4 DEF SqInv
    <2> QED
      BY <2>2, <2>3
  <1>6. CqInv' /\ AnswersTrue'
    BY <1>0 DEF IInv, CqInv, AnswersTrue, Tag
  <1>7. SuccessMeansDone'
    BY DEF submit_admin_command, SuccessMeansDone
  <1>8. NothingOverwritten'
    <2> SUFFICES ASSUME ~overrun'
                 PROVE  /\ Ahead(ctl_sq_head', sq_tail_db') = admin_cmd_id' - fetched'
                        /\ \A c \in fetched' .. admin_cmd_id' - 1 :
                             sq'[After(ctl_sq_head', c - fetched')] = c
      BY Zenon DEF NothingOverwritten
    <2>0. ~overrun /\ ~(admin_cmd_id' - fetched >= Depth)
      BY Zenon DEF submit_admin_command
    <2>1. ~overrun /\ admin_cmd_id + 1 - fetched < Depth /\ fetched \in Nat
      BY <1>0, <2>0 DEF IInv, Types
    <2>2. /\ Ahead(h, t) = admin_cmd_id - fetched
          /\ \A c \in fetched .. admin_cmd_id - 1 : sq[After(h, c - fetched)] = c
      BY <1>0, <2>1 DEF IInv, NothingOverwritten
    <2>3. Advance(t) # h
      <3>1. Advance(t) = h => Ahead(h, t) = Depth - 1
        BY <1>0 DEF Ahead, Advance, Slots
      <3> QED
        BY <1>0, <2>1, <2>2, <3>1
    <2>4. Ahead(h, Advance(t)) = admin_cmd_id + 1 - fetched
      BY <1>0, <2>1, <2>2, <2>3, EndAdvances
    <2>5. ASSUME NEW c \in fetched' .. admin_cmd_id' - 1
          PROVE  sq'[After(h, c - fetched)] = c
      <3>0. c \in fetched .. admin_cmd_id
        BY <1>0, <2>1
      <3>1. c - fetched \in 0 .. Depth - 1
        BY <1>0, <2>1, <3>0
      <3>2. After(h, c - fetched) \in Slots /\ Ahead(h, After(h, c - fetched)) = c - fetched
        BY <1>0, <3>1, AfterFacts
      <3>3. CASE c = admin_cmd_id
        <4>1. After(h, c - fetched) = t
          BY <1>0, <2>2, <3>3, AheadFacts
        <4> QED
          BY <1>0, <1>3, <3>3, <4>1
      <3>4. CASE c # admin_cmd_id
        <4>1. c \in fetched .. admin_cmd_id - 1
          BY <1>0, <2>1, <3>0, <3>4
        <4>2. After(h, c - fetched) # t
          BY <1>0, <2>1, <2>2, <3>2, <4>1
        <4> QED
          BY <1>3, <2>2, <3>2, <4>1, <4>2
      <3> QED
        BY <3>3, <3>4
    <2>6. /\ ctl_sq_head' = h /\ sq_tail_db' = Advance(t) /\ fetched' = fetched
          /\ admin_cmd_id' = admin_cmd_id + 1
      BY <1>0
    <2>7. Ahead(ctl_sq_head', sq_tail_db') = admin_cmd_id' - fetched'
      BY <1>0, <2>1, <2>4, <2>6
    <2>8. ASSUME NEW c \in fetched' .. admin_cmd_id' - 1
          PROVE  sq'[After(ctl_sq_head', c - fetched')] = c
      BY <2>5, <2>6
    <2> QED
      BY <2>7, <2>8
  <1> QED
    BY <1>1, <1>2, <1>5, <1>6, <1>7, <1>8 DEF IInv

\* Consuming the entry at the head takes its slot out of the posted ones, and
\* the expected tag turns with the head.
LEMMA AnsweredIInv ==
  ASSUME IInv, WaitAnswered
  PROVE  IInv'
  <1> DEFINE h == admin_cq_head
             t == ctl_cq_tail
  <1>0. /\ h \in Slots /\ t \in Slots /\ admin_cq_phase \in {0, 1}
        /\ admin_cq_head' = Advance(h) /\ admin_cq_phase' = NextPhase
        /\ cq[h].p = admin_cq_phase /\ cq[h].cid = cmd_id /\ cmd_id # None
        /\ UNCHANGED <<admin_sq_tail, admin_cmd_id, sq, cq, sq_tail_db, ctl_sq_head,
                       executing, ctl_cq_tail, ctl_cq_phase, pending, fetched, executed,
                       overrun>>
    BY DEF IInv, Types, WaitAnswered, EntryThere, OwnAnswer, Entry, ctlVars
  <1>1. h # t /\ Within(h, h, t)
    <2>1. cq[h].p = Tag(h)
      BY <1>0 DEF Tag, Slots
    <2>2. Within(h, h, t)
      BY <1>0, <2>1 DEF IInv, CqInv
    <2> QED
      BY <2>2, <1>0 DEF Within, Ahead, Slots
  <1>2. Types'
    BY <1>0, AheadFacts DEF IInv, Types, WaitAnswered, NextPhase
  <1>3. WaitsForNewest' /\ SqInv' /\ NothingOverwritten'
    BY <1>0 DEF IInv, WaitsForNewest, SqInv, NothingOverwritten, WaitAnswered, Return
  <1>4. \A s \in Slots : Within(Advance(h), s, t) <=> Within(h, s, t) /\ s # h
    BY <1>0, <1>1, StartAdvances
  <1>5. \A s \in Slots : Tag(s)' = IF s = h THEN 1 - Tag(s) ELSE Tag(s)
    BY <1>0 DEF Tag, NextPhase, Advance, Slots
  <1>6. CqInv'
    <2>1. ctl_cq_phase' = Tag(ctl_cq_tail)'
      BY <1>0, <1>1, <1>5 DEF IInv, CqInv
    <2>2. \A s \in Slots : cq[s].p \in {0, 1} /\ Tag(s) \in {0, 1}
      BY <1>0 DEF IInv, Types, Tag
    <2> QED
      BY <1>0, <1>1, <1>4, <1>5, <2>1, <2>2 DEF IInv, CqInv
  <1>7. AnswersTrue'
    BY <1>0, <1>4 DEF IInv, AnswersTrue
  <1>8. SuccessMeansDone'
    <2>1. outcome' = "true" => cq[h].ok
      BY DEF WaitAnswered, Return, Entry
    <2>2. cmd_id = admin_cmd_id - 1
      BY <1>0 DEF IInv, WaitsForNewest, Types
    <2> QED
      BY <1>0, <1>1, <2>1, <2>2 DEF IInv, AnswersTrue, SuccessMeansDone
  <1> QED
    BY <1>2, <1>3, <1>6, <1>7, <1>8 DEF IInv

\* Giving up changes neither ring.
LEMMA FailsIInv ==
  ASSUME IInv, WaitFails
  PROVE  IInv'
  <1> USE DEF WaitFails, Return, ctlVars
  <1>1. Types' /\ WaitsForNewest' /\ SuccessMeansDone'
    BY DEF IInv, Types, WaitsForNewest, SuccessMeansDone
  <1>2. SqInv' /\ NothingOverwritten'
    BY DEF IInv, SqInv, NothingOverwritten
  <1>3. CqInv' /\ AnswersTrue'
    BY DEF IInv, CqInv, AnswersTrue, Tag
  <1> QED
    BY <1>1, <1>2, <1>3 DEF IInv

\* Restart leads to the state after controller_init.
LEMMA RestartIInv ==
  ASSUME IInv, Restart
  PROVE  IInv'
  <1>1. 0 \in Slots /\ \A s \in Slots : ~Within(0, s, 0)
    BY DEF Slots, Within, Ahead
  <1>2. Types'
    <2>1. cq' \in [Slots -> [cid : Nat, ok : BOOLEAN, p : {0, 1}]]
      BY DEF Restart, NoCompletions, ZeroedCompletion
    <2>2. sq' \in [Slots -> Nat]
      BY DEF Restart, NoCommands, None
    <2> QED
      BY <1>1, <2>1, <2>2 DEF Restart, Types
  <1>3. SqInv' /\ AnswersTrue'
    BY <1>1 DEF Restart, SqInv, AnswersTrue
  <1>4. CqInv'
    BY <1>1 DEF Restart, CqInv, Tag, NoCompletions, ZeroedCompletion, Slots
  <1>5. WaitsForNewest' /\ SuccessMeansDone' /\ NothingOverwritten'
    BY DEF Restart, WaitsForNewest, SuccessMeansDone, NothingOverwritten, Ahead
  <1> QED
    BY <1>2, <1>3, <1>4, <1>5 DEF IInv

\* What the controller fetches it did not have yet.
LEMMA FetchIInv ==
  ASSUME IInv, CtlFetch
  PROVE  IInv'
  <1> DEFINE h == ctl_sq_head
             t == sq_tail_db
  <1>0. /\ h \in Slots /\ t \in Slots /\ h # t /\ ctl_sq_head' = Advance(h)
        /\ fetched \in Nat /\ fetched' = fetched + 1 /\ admin_cmd_id \in Nat
        /\ executing' = executing \cup {sq[h]}
        /\ UNCHANGED <<sq, sq_tail_db, pending, admin_cmd_id>>
        /\ UNCHANGED <<admin_sq_tail, cq, admin_cq_head, admin_cq_phase, cq_head_db,
                       ctl_cq_tail, ctl_cq_phase, executed, cmd_id, outcome, overrun>>
    BY DEF IInv, Types, CtlFetch, hostVars
  <1>1. Types'
    BY <1>0, AheadFacts DEF IInv, Types
  <1>2. WaitsForNewest' /\ SuccessMeansDone' /\ CqInv' /\ AnswersTrue'
    BY <1>0 DEF IInv, WaitsForNewest, SuccessMeansDone, CqInv, AnswersTrue, Tag
  <1>3. /\ Within(h, h, t) /\ Ahead(Advance(h), t) = Ahead(h, t) - 1
        /\ \A s \in Slots : Within(Advance(h), s, t) <=> Within(h, s, t) /\ s # h
    BY <1>0, StartAdvances
  <1>4. SqInv'
    <2>1. sq[h] \in pending /\ \A s \in Slots : Within(h, s, t) /\ s # h => sq[s] # sq[h]
      BY <1>0, <1>3 DEF IInv, SqInv
    <2>2. executing' \subseteq pending' /\ pending' \subseteq 0 .. admin_cmd_id' - 1
      BY <1>0, <2>1, Zenon DEF IInv, SqInv
    <2>3. \A s \in Slots : Within(Advance(h), s, t) => sq[s] \in pending \ executing'
      BY <1>0, <1>3, <2>1 DEF IInv, SqInv
    <2>4. \A s, r \in Slots : /\ Within(Advance(h), s, t) /\ Within(Advance(h), r, t)
                              /\ sq[s] = sq[r]
                              => s = r
      BY <1>3 DEF IInv, SqInv
    <2> QED
      BY <1>0, <2>2, <2>3, <2>4 DEF SqInv
  <1>5. NothingOverwritten'
    <2> SUFFICES ASSUME ~overrun
                 PROVE  /\ Ahead(Advance(h), t) = admin_cmd_id - fetched'
                        /\ \A c \in fetched' .. admin_cmd_id - 1 :
                             sq[After(Advance(h), c - fetched')] = c
      BY <1>0 DEF NothingOverwritten
    <2>1. /\ Ahead(h, t) = admin_cmd_id - fetched
          /\ \A c \in fetched .. admin_cmd_id - 1 : sq[After(h, c - fetched)] = c
      BY DEF IInv, NothingOverwritten
    <2>2. Ahead(h, t) \in 0 .. Depth - 1
      BY <1>0, AheadFacts
    <2>3. ASSUME NEW c \in fetched' .. admin_cmd_id - 1
          PROVE  sq[After(Advance(h), c - fetched')] = c
      <3>1. /\ c \in fetched .. admin_cmd_id - 1
            /\ c - fetched \in 0 .. Depth - 1 /\ c - fetched # 0
            /\ c - fetched' = (c - fetched) - 1
        BY <1>0, <2>1, <2>2
      <3>2. After(Advance(h), (c - fetched) - 1) = After(h, c - fetched)
        BY <1>0, <3>1, AfterFacts
      <3> QED
        BY <2>1, <3>1, <3>2
    <2> QED
      BY <1>0, <1>3, <2>1, <2>3
  <1> QED
    BY <1>1, <1>2, <1>4, <1>5 DEF IInv

\* A posted entry carries the tag of its turn.
LEMMA CompleteIInv ==
  ASSUME IInv, NEW c \in executing, NEW ok \in BOOLEAN, CtlComplete(c, ok)
  PROVE  IInv'
  <1> DEFINE h == admin_cq_head
             t == ctl_cq_tail
             e == [cid |-> c, ok |-> ok, p |-> ctl_cq_phase]
  <1>0. /\ h \in Slots /\ t \in Slots /\ Advance(t) # h /\ ctl_cq_tail' = Advance(t)
        /\ admin_cq_phase \in {0, 1} /\ ctl_cq_phase \in {0, 1}
        /\ cq \in [Slots -> [cid : Nat, ok : BOOLEAN, p : {0, 1}]]
        /\ cq' = [cq EXCEPT ![t] = e]
        /\ ctl_cq_phase' = IF Advance(t) = 0 THEN 1 - ctl_cq_phase ELSE ctl_cq_phase
        /\ executing' = executing \ {c} /\ pending' = pending \ {c}
        /\ executed' = IF ok THEN executed \cup {c} ELSE executed
        /\ UNCHANGED <<admin_sq_tail, admin_cq_head, admin_cq_phase, admin_cmd_id,
                       cmd_id, outcome, sq, sq_tail_db, cq_head_db, ctl_sq_head,
                       fetched, overrun>>
    BY DEF IInv, Types, CtlComplete, hostVars
  <1>1. c \in Nat
    BY DEF IInv, SqInv
  <1>2. Types'
    <2>1. e \in [cid : Nat, ok : BOOLEAN, p : {0, 1}]
      BY <1>0, <1>1
    <2>2. cq' \in [Slots -> [cid : Nat, ok : BOOLEAN, p : {0, 1}]]
      BY <1>0, <2>1
    <2> QED
      BY <1>0, <2>2, AheadFacts DEF IInv, Types
  <1>3. WaitsForNewest' /\ SuccessMeansDone' /\ NothingOverwritten'
    BY <1>0 DEF IInv, WaitsForNewest, SuccessMeansDone, NothingOverwritten
  <1>4. SqInv'
    <2>1. \A s \in Slots :
            Within(ctl_sq_head, s, sq_tail_db) => sq[s] \in pending' \ executing'
      BY <1>0 DEF IInv, SqInv
    <2> QED
      BY <1>0, <2>1 DEF IInv, SqInv
  <1>5. \A s \in Slots : /\ Within(h, s, Advance(t)) <=> Within(h, s, t) \/ s = t
                         /\ ~Within(h, t, t)
    BY <1>0, EndAdvances
  <1>6. \A s \in Slots : cq'[s] = IF s = t THEN e ELSE cq[s]
    BY <1>0
  <1>7. \A s \in Slots : Tag(s)' = Tag(s)
    BY <1>0 DEF Tag
  <1>8. CqInv'
    <2>1. ctl_cq_phase = Tag(t)
      BY DEF IInv, CqInv
    <2>2. ctl_cq_phase' = Tag(Advance(t))
      BY <1>0, <2>1, SMTT(30) DEF Tag, Advance, Slots
    <2>3. Advance(t) \in Slots
      BY <1>0, AheadFacts
    <2>4. e.p = Tag(t)
      BY <2>1
    <2>5. \A s \in Slots : cq'[s].p = Tag(s) <=> Within(h, s, Advance(t))
      BY <1>5, <1>6, <2>4 DEF IInv, CqInv
    <2> QED
      BY <1>0, <1>7, <2>2, <2>3, <2>5 DEF CqInv
  <1>9. AnswersTrue'
    <2>1. e.ok => e.cid \in executed'
      BY <1>0
    <2>2. executed \subseteq executed'
      BY <1>0
    <2> QED
      BY <1>0, <1>5, <1>6, <2>1, <2>2 DEF IInv, AnswersTrue
  <1> QED
    BY <1>2, <1>3, <1>4, <1>8, <1>9 DEF IInv

\* Every step keeps the invariant.
LEMMA NextIInv == IInv /\ [Next]_vars => IInv'
  <1> SUFFICES ASSUME IInv, [Next]_vars PROVE IInv'
    OBVIOUS
  <1>1. CASE UNCHANGED vars
    <2> USE <1>1 DEF vars, hostVars, ctlVars
    <2>1. Types' /\ WaitsForNewest' /\ SuccessMeansDone'
      BY DEF IInv, Types, WaitsForNewest, SuccessMeansDone
    <2>2. SqInv' /\ NothingOverwritten'
      BY SMTT(30) DEF IInv, SqInv, NothingOverwritten
    <2>3. CqInv' /\ AnswersTrue'
      BY DEF IInv, CqInv, AnswersTrue, Tag
    <2> QED
      BY <2>1, <2>2, <2>3 DEF IInv
  <1> QED
    BY <1>1, SubmitIInv, AnsweredIInv, FailsIInv, RestartIInv, FetchIInv, CompleteIInv
       DEF Next, Idle

\* A caller that is told of success sent a command the controller has executed
\* without error since, for rings of any depth and any number of commands.
THEOREM SuccessIsTrue == Spec => []SuccessMeansDone
  <1>1. IInv => SuccessMeansDone
    BY DEF IInv
  <1> QED
    BY <1>1, InitIInv, NextIInv, PTL DEF Spec

\* No command is overwritten before the controller has fallen behind by as
\* many commands as the ring has entries.
THEOREM CommandsIntact == Spec => []NothingOverwritten
  <1>1. IInv => NothingOverwritten
    BY DEF IInv
  <1> QED
    BY <1>1, InitIInv, NextIInv, PTL DEF Spec

-----------------------------------------------------------------------------
(* The rings implement the channel *)

Answer == [cid : Nat, ok : BOOLEAN]

AnswerIn(s) == [cid |-> cq[s].cid, ok |-> cq[s].ok]

\* The answers of the channel are the posted entries, from the head on.
PostedInOrder ==
  /\ Posted \in Seq(Answer) /\ Len(Posted) = Ahead(admin_cq_head, ctl_cq_tail)
  /\ Posted = <<>> <=> admin_cq_head = ctl_cq_tail
  /\ \A i \in 1 .. Len(Posted) : Posted[i] = AnswerIn(After(admin_cq_head, i - 1))

\* Posted is a sequence of that many answers.
LEMMA PostedFacts == Types => PostedInOrder
  <1> SUFFICES ASSUME Types PROVE PostedInOrder
    OBVIOUS
  <1> USE DEF Answer, AnswerIn
  <1> DEFINE h == admin_cq_head
             n == Ahead(h, ctl_cq_tail)
             entry(i) == AnswerIn(After(h, i - 1))
  <1>1. n \in 0 .. Depth - 1 /\ (n = 0 <=> h = ctl_cq_tail)
    BY AheadFacts, Zenon DEF Types
  <1>2. \A i \in 1 .. n : entry(i) \in Answer
    <2> SUFFICES ASSUME NEW i \in 1 .. n PROVE entry(i) \in Answer
      OBVIOUS
    <2>1. i - 1 \in 0 .. Depth - 1
      BY <1>1
    <2>2. After(h, i - 1) \in Slots
      BY <2>1, AfterFacts DEF Types
    <2> QED
      BY <2>2 DEF Types
  <1>3. Posted = [i \in 1 .. n |-> entry(i)]
    BY DEF Posted
  <1> HIDE DEF n, entry
  <1>4. Posted \in Seq(Answer) /\ Len(Posted) = n
    BY <1>1, <1>2, <1>3
  <1>5. Posted = <<>> <=> n = 0
    BY <1>1, <1>4
  <1>6. \A i \in 1 .. n : Posted[i] = entry(i)
    BY <1>3
  <1> QED
    BY <1>1, <1>4, <1>5, <1>6 DEF n, entry, PostedInOrder

\* Taking the entry at the head takes the first answer.
LEMMA TakePosted ==
  ASSUME IInv, WaitAnswered
  PROVE  /\ Posted # <<>> /\ Head(Posted).cid = cmd_id
         /\ Posted' = Tail(Posted)
  <1> DEFINE h == admin_cq_head
             t == ctl_cq_tail
  <1>0. /\ h \in Slots /\ t \in Slots /\ admin_cq_head' = Advance(h)
        /\ cq[h].p = admin_cq_phase /\ cq[h].cid = cmd_id
        /\ UNCHANGED <<cq, ctl_cq_tail>>
    BY DEF IInv, Types, WaitAnswered, EntryThere, OwnAnswer, Entry, ctlVars
  <1>1. h # t
    <2>1. cq[h].p = Tag(h)
      BY <1>0 DEF Tag, Slots
    <2>2. Within(h, h, t)
      BY <1>0, <2>1 DEF IInv, CqInv
    <2> QED
      BY <1>0, <2>2 DEF Within, Ahead, Slots
  <1>2. PostedInOrder
    BY PostedFacts DEF IInv
  <1>3. PostedInOrder'
    <2>1. (Types => PostedInOrder)'
      BY PostedFacts, PTL
    <2> QED
      BY <2>1, AnsweredIInv DEF IInv
  <1>4. Posted # <<>> /\ Head(Posted) = Posted[1] /\ Len(Posted) >= 1
    BY <1>1, <1>2 DEF PostedInOrder
  <1>5. Posted[1] = AnswerIn(h)
    BY <1>0, <1>2, <1>4 DEF PostedInOrder, After, Slots
  <1>6. /\ Tail(Posted) \in Seq(Answer) /\ Len(Tail(Posted)) = Len(Posted) - 1
        /\ \A i \in 1 .. Len(Tail(Posted)) : Tail(Posted)[i] = Posted[i + 1]
    BY <1>2, <1>4, HeadTailProperties DEF PostedInOrder
  <1>7. Len(Posted') = Len(Tail(Posted))
    BY <1>0, <1>1, <1>2, <1>3, <1>6, StartAdvances DEF PostedInOrder
  <1>8. ASSUME NEW i \in 1 .. Len(Posted') PROVE Posted'[i] = Tail(Posted)[i]
    <2>1. Posted'[i] = AnswerIn(After(Advance(h), i - 1))
      BY <1>0, <1>3 DEF PostedInOrder, AnswerIn
    <2>2. Tail(Posted)[i] = Posted[i + 1] /\ i + 1 \in 1 .. Len(Posted)
      BY <1>2, <1>6, <1>7 DEF PostedInOrder
    <2>3. Posted[i + 1] = AnswerIn(After(h, i))
      BY <1>2, <2>2 DEF PostedInOrder
    <2>4. i \in 0 .. Depth - 1 /\ i # 0
      BY <1>0, <1>2, <2>2, AheadFacts DEF PostedInOrder
    <2> QED
      BY <1>0, <2>1, <2>2, <2>3, <2>4, AfterFacts
  <1>9. Posted' = Tail(Posted)
    BY <1>3, <1>6, <1>7, <1>8, SeqEqual DEF PostedInOrder
  <1> QED
    BY <1>0, <1>4, <1>5, <1>9 DEF AnswerIn

\* A completion becomes the last answer.
LEMMA AppendPosted ==
  ASSUME IInv, NEW c \in executing, NEW ok \in BOOLEAN, CtlComplete(c, ok)
  PROVE  Posted' = Append(Posted, [cid |-> c, ok |-> ok])
  <1> DEFINE h == admin_cq_head
             t == ctl_cq_tail
             a == [cid |-> c, ok |-> ok]
  <1>0. /\ h \in Slots /\ t \in Slots /\ Advance(t) # h /\ ctl_cq_tail' = Advance(t)
        /\ admin_cq_head' = h /\ cq \in [Slots -> [cid : Nat, ok : BOOLEAN, p : {0, 1}]]
        /\ cq' = [cq EXCEPT ![t] = [cid |-> c, ok |-> ok, p |-> ctl_cq_phase]]
    BY DEF IInv, Types, CtlComplete, hostVars
  <1>1. \A s \in Slots : AnswerIn(s)' = IF s = t THEN a ELSE AnswerIn(s)
    BY <1>0 DEF AnswerIn
  <1>2. PostedInOrder
    BY PostedFacts DEF IInv
  <1>3. PostedInOrder'
    <2>1. (Types => PostedInOrder)'
      BY PostedFacts, PTL
    <2> QED
      BY <2>1, CompleteIInv DEF IInv
  <1>4. a \in Answer
    BY DEF Answer, IInv, SqInv
  <1>5. /\ Append(Posted, a) \in Seq(Answer) /\ Len(Append(Posted, a)) = Len(Posted) + 1
        /\ \A i \in 1 .. Len(Posted) : Append(Posted, a)[i] = Posted[i]
        /\ Append(Posted, a)[Len(Posted) + 1] = a
    <2> HIDE DEF a
    <2> QED
      BY <1>2, <1>4, SMTT(30) DEF PostedInOrder
  <1>6. Len(Posted') = Len(Append(Posted, a))
    BY <1>0, <1>2, <1>3, <1>5, EndAdvances DEF PostedInOrder
  <1>7. ASSUME NEW i \in 1 .. Len(Posted') PROVE Posted'[i] = Append(Posted, a)[i]
    <2>1. /\ Len(Posted) = Ahead(h, t) /\ Len(Posted) \in 0 .. Depth - 1
          /\ Len(Posted') = Len(Posted) + 1 /\ Len(Posted') \in 0 .. Depth - 1
      <3>1. Advance(t) \in Slots /\ Ahead(h, t) \in 0 .. Depth - 1
        BY <1>0, AheadFacts, Zenon
      <3>2. Ahead(h, Advance(t)) \in 0 .. Depth - 1
        BY <1>0, <3>1, AheadFacts, ZenonT(40)
      <3>3. Len(Posted') = Ahead(h, Advance(t))
        BY <1>0, <1>3, Zenon DEF PostedInOrder
      <3> QED
        BY <1>2, <1>5, <1>6, <3>1, <3>2, <3>3 DEF PostedInOrder
    <2>2. i - 1 \in 0 .. Depth - 1
      BY <2>1
    <2>3. After(h, i - 1) \in Slots /\ Ahead(h, After(h, i - 1)) = i - 1
      BY <1>0, <2>2, AfterFacts, Zenon
    <2>4. Posted'[i] = AnswerIn(After(h, i - 1))'
      BY <1>0, <1>3 DEF PostedInOrder, AnswerIn
    <2>5. CASE i = Len(Posted) + 1
      <3>1. i - 1 = Ahead(h, t)
        BY <2>1, <2>5
      <3>2. After(h, i - 1) = t
        BY <1>0, <3>1, AheadFacts, Zenon
      <3>3. AnswerIn(After(h, i - 1))' = a
        BY <1>0, <1>1, <2>3, <3>2 DEF AnswerIn
      <3> QED
        BY <1>5, <2>4, <2>5, <3>3
    <2>6. CASE i # Len(Posted) + 1
      <3>1. i \in 1 .. Len(Posted) /\ After(h, i - 1) # t
        BY <2>1, <2>3, <2>6, SMTT(30)
      <3>2. AnswerIn(After(h, i - 1))' = AnswerIn(After(h, i - 1))
        BY <1>0, <1>1, <2>3, <3>1 DEF AnswerIn
      <3>3. Posted[i] = AnswerIn(After(h, i - 1))
        BY <1>2, <3>1 DEF PostedInOrder
      <3> QED
        BY <1>5, <2>4, <3>1, <3>2, <3>3
    <2> QED
      BY <2>5, <2>6, ZenonT(40)
  <1> QED
    BY <1>3, <1>5, <1>6, <1>7, SeqEqual DEF PostedInOrder

\* The channel sees what Posted is made of.
LEMMA PostedUnchanged ==
  ASSUME UNCHANGED <<cq, admin_cq_head, ctl_cq_tail>>
  PROVE  Posted' = Posted
  BY DEF Posted

\* Each step of the rings is a step of the channel, or none.
LEMMA StepIsChannelStep ==
  ASSUME IInv, [Next]_vars
  PROVE  [Channel!Next]_(Channel!vars)
  <1>0. PostedInOrder
    BY PostedFacts DEF IInv
  <1>1. CASE submit_admin_command
    <2>1. Posted' = Posted
      BY <1>1, PostedUnchanged DEF submit_admin_command, ctlVars
    <2>2. admin_cmd_id \in Command /\ admin_cmd_id \notin pending
      BY <1>1 DEF IInv, Types, SqInv, submit_admin_command, Command
    <2>3. Channel!Send(admin_cmd_id)
      BY <1>1, <2>1, <2>2 DEF Channel!Send, submit_admin_command
    <2> QED
      BY <2>2, <2>3 DEF Channel!Next
  <1>2. CASE WaitAnswered
    <2>1. Channel!Take
      BY <1>2, TakePosted DEF Channel!Take, WaitAnswered, Return
    <2> QED
      BY <2>1 DEF Channel!Next
  <1>3. CASE WaitFails
    <2>1. Posted' = Posted
      BY <1>3, PostedUnchanged DEF WaitFails, ctlVars
    <2>2. ASSUME Posted # <<>> PROVE Head(Posted).cid # cmd_id
      <3>1. admin_cq_head \in Slots /\ ctl_cq_tail \in Slots
        BY DEF IInv, Types
      <3>2. admin_cq_head # ctl_cq_tail /\ Len(Posted) >= 1 /\ Head(Posted) = Posted[1]
        BY <1>0, <2>2 DEF PostedInOrder
      <3>3. Within(admin_cq_head, admin_cq_head, ctl_cq_tail)
        BY <3>1, <3>2, StartAdvances
      <3>4. cq[admin_cq_head].p = admin_cq_phase
        BY <3>1, <3>3 DEF IInv, CqInv, Tag, Slots
      <3>5. cq[admin_cq_head].cid # cmd_id
        BY <1>3, <3>4 DEF WaitFails, EntryThere, OwnAnswer, Entry
      <3>6. Posted[1] = AnswerIn(admin_cq_head)
        BY <1>0, <3>1, <3>2 DEF PostedInOrder, After, Slots
      <3> QED
        BY <3>2, <3>5, <3>6 DEF AnswerIn
    <2>3. Channel!GiveUp
      BY <1>3, <2>1, <2>2 DEF Channel!GiveUp, WaitFails, Return
    <2> QED
      BY <2>3 DEF Channel!Next
  <1>4. CASE Restart
    <2>1. (Types => PostedInOrder)'
      BY PostedFacts, PTL
    <2>2. Posted' = <<>>
      BY <1>4, <2>1, RestartIInv, Zenon DEF IInv, PostedInOrder, Restart
    <2>3. Channel!Reset
      BY <1>4, <2>2 DEF Channel!Reset, Restart
    <2> QED
      BY <2>3 DEF Channel!Next
  <1>5. CASE CtlFetch \/ Idle \/ UNCHANGED vars
    <2>1. UNCHANGED <<cq, admin_cq_head, ctl_cq_tail, pending, cmd_id>>
      BY <1>5 DEF CtlFetch, Idle, vars, hostVars, ctlVars
    <2> QED
      BY <2>1, PostedUnchanged DEF Channel!vars
  <1>6. ASSUME NEW c \in executing, NEW ok \in BOOLEAN, CtlComplete(c, ok)
        PROVE  Channel!Next
    <2>1. c \in pending /\ c \in Command
      BY DEF IInv, Types, SqInv, Command
    <2>2. Channel!Execute(c, ok)
      BY <1>6, <2>1, AppendPosted, Zenon DEF Channel!Execute, CtlComplete, hostVars
    <2> QED
      BY <2>1, <2>2 DEF Channel!Next
  <1> QED
    BY <1>1, <1>2, <1>3, <1>4, <1>5, <1>6 DEF Next

\* The rings, doorbells and phase tags are the channel the callers rely on,
\* for any depth of the rings.
THEOREM RingsAreChannel == Spec => KeepsChannel
  <1>1. Init => Channel!Init
    <2> SUFFICES ASSUME Init PROVE Channel!Init
      OBVIOUS
    <2>1. Posted = <<>>
      BY InitIInv, PostedFacts DEF IInv, PostedInOrder, Init
    <2> QED
      BY <2>1 DEF Init, Channel!Init
  <1> QED
    BY <1>1, InitIInv, NextIInv, StepIsChannelStep, PTL
       DEF Spec, KeepsChannel, Channel!Spec

-----------------------------------------------------------------------------
(* PciConfig *)

Calls == [op : {"read", "write"}, offset : Nat, sz : Nat]

ConfigTypes ==
  /\ space \in [Address -> Byte] /\ before \in [Address -> Byte]
  /\ call \in Calls /\ buf \in [0 .. call.sz - 1 -> Byte]
  /\ done \in 0 .. call.sz
  /\ config_pc \in {"idle", "called", "transfer"} /\ ret \in {0, -1}

\* A call that transfers has valid arguments.
InRange == config_pc = "transfer" => call.offset + call.sz <= ConfigSpaceSize

\* The first done bytes of the buffer agree with the registers.
PrefixAgrees ==
  config_pc = "transfer" =>
    \A k \in 0 .. done - 1 : buf[k] = space[call.offset + k]

ConfigInv ==
  /\ ConfigTypes /\ InRange /\ PrefixAgrees
  /\ WritesArePrefix /\ SuccessMeansAll /\ DescriptorClosed
  /\ config_pc = "called" => fd = "none" /\ done = 0

USE SizeAssumption

\* Before the first call there is nothing to agree on.
LEMMA InitConfigInv == ConfigInit => ConfigInv
  BY SMT DEF ConfigInit, ConfigInv, ConfigTypes, Calls, InRange, PrefixAgrees,
         WritesArePrefix, SuccessMeansAll, DescriptorClosed, Address

\* A transfer of n bytes extends the agreement, and what was written, by n.
LEMMA TransferConfigInv == ConfigInv /\ Transfer => ConfigInv'
  <1> SUFFICES ASSUME ConfigInv, Transfer PROVE ConfigInv'
    OBVIOUS
  <1>1. /\ config_pc = "transfer" /\ config_pc' = "transfer"
        /\ before' = before /\ call' = call /\ fd' = fd /\ ret' = ret
    BY DEF Transfer
  <1>2. PICK n \in 1 .. call.sz - done : (pread(n) \/ pwrite(n)) /\ done' = done + n
    BY DEF Transfer
  <1>3. /\ call.offset \in Nat /\ call.sz \in Nat /\ done \in Nat /\ n \in Nat
        /\ done + n <= call.sz /\ call.offset + call.sz <= ConfigSpaceSize
        /\ n >= 1 /\ ConfigSpaceSize \in Nat /\ done' = done + n
    BY <1>1, <1>2 DEF ConfigInv, InRange, ConfigTypes, Calls
  <1>4. CASE pread(n)
    <2>1. /\ call.op = "read" /\ space' = space
          /\ buf' = [k \in 0 .. call.sz - 1 |->
                       IF k - done \in 0 .. n - 1
                       THEN space[call.offset + done + k - done] ELSE buf[k]]
      BY <1>4 DEF pread, Moved, Position, ConfigInv, ConfigTypes
    <2>2. ASSUME NEW k \in 0 .. call.sz - 1, k - done \in 0 .. n - 1
          PROVE  call.offset + k \in Address /\ buf'[k] = space[call.offset + k]
      <3>1. call.offset + done + k - done = call.offset + k
        BY <1>3
      <3> QED
        <4>1. call.offset + k \in Address
          BY <1>3, <2>2 DEF Address
        <4>2. buf'[k] = space[call.offset + k]
          BY <2>1, <2>2, <3>1
        <4> QED
          BY <4>1, <4>2
    <2>3. ConfigTypes'
      <3>1. buf' \in [0 .. call.sz - 1 -> Byte]
        <4>1. ASSUME NEW k \in 0 .. call.sz - 1 PROVE buf'[k] \in Byte
          BY <2>1, <2>2, <4>1, Zenon DEF ConfigInv, ConfigTypes
        <4> QED
          BY <2>1, <4>1, Zenon
      <3> QED
        BY <1>1, <1>2, <1>3, <2>1, <3>1 DEF ConfigInv, ConfigTypes
    <2>4. PrefixAgrees'
      <3> SUFFICES ASSUME NEW k \in 0 .. done + n - 1
                   PROVE  buf'[k] = space'[call'.offset + k]
        <4>1. done' - 1 = done + n - 1
          BY <1>3
        <4> QED
          BY <4>1, ZenonT(40) DEF PrefixAgrees
      <3>1. CASE k < done
        <4>1. k \in 0 .. done - 1 /\ k \in 0 .. call.sz - 1 /\ k - done \notin 0 .. n - 1
          BY <3>1, <1>3
        <4> QED
          BY <4>1, <1>1, <2>1 DEF ConfigInv, PrefixAgrees
      <3>2. CASE k >= done
        <4>1. k \in 0 .. call.sz - 1 /\ k - done \in 0 .. n - 1
          BY <3>2, <1>3
        <4> QED
          BY <4>1, <1>1, <2>1, <2>2
      <3> QED
        BY <3>1, <3>2, <1>3
    <2>5. WritesArePrefix'
      BY <1>1, <2>1 DEF ConfigInv, WritesArePrefix
    <2> QED
      BY <1>1, <2>3, <2>4, <2>5 DEF ConfigInv, InRange, SuccessMeansAll, DescriptorClosed
  <1>5. CASE pwrite(n)
    <2>1. /\ call.op = "write" /\ buf' = buf
          /\ space' = [a \in Address |->
                         IF a - (call.offset + done) \in 0 .. n - 1
                         THEN buf[done + a - (call.offset + done)] ELSE space[a]]
      BY <1>5 DEF pwrite, Moved, Position
    <2>2. ASSUME NEW a \in Address, a - (call.offset + done) \in 0 .. n - 1
          PROVE  /\ a - call.offset \in 0 .. call.sz - 1
                 /\ space'[a] = buf[a - call.offset]
      <3>1. /\ done + a - (call.offset + done) = a - call.offset
            /\ a - call.offset \in 0 .. call.sz - 1
        BY <1>3, <2>2 DEF Address
      <3> QED
        BY <2>1, <2>2, <3>1
    <2>3. \A a \in Address : a - (call.offset + done) \notin 0 .. n - 1 =>
            space'[a] = space[a]
      BY <2>1
    <2>4. ConfigTypes'
      <3>1. space' \in [Address -> Byte]
        <4>1. ASSUME NEW a \in Address PROVE space'[a] \in Byte
          BY <2>2, <2>3, <4>1 DEF ConfigInv, ConfigTypes
        <4> QED
          BY <2>1, <4>1
      <3> QED
        BY <1>1, <1>2, <1>3, <2>1, <3>1 DEF ConfigInv, ConfigTypes
    <2>5. PrefixAgrees'
      <3> SUFFICES ASSUME NEW k \in 0 .. done + n - 1
                   PROVE  buf'[k] = space'[call'.offset + k]
        <4>1. done' - 1 = done + n - 1
          BY <1>3
        <4> QED
          BY <4>1, Zenon DEF PrefixAgrees
      <3>0. call.offset + k \in Address /\ (call.offset + k) - call.offset = k
        BY <1>3 DEF Address
      <3>1. CASE k < done
        <4>1. /\ k \in 0 .. done - 1
              /\ (call.offset + k) - (call.offset + done) \notin 0 .. n - 1
          BY <3>1, <1>3, SMTT(30)
        <4> QED
          BY <3>0, <4>1, <1>1, <2>1, <2>3 DEF ConfigInv, PrefixAgrees
      <3>2. CASE k >= done
        <4>1. (call.offset + k) - (call.offset + done) \in 0 .. n - 1
          BY <3>2, <1>3
        <4> QED
          BY <3>0, <4>1, <1>1, <2>1, <2>2
      <3> QED
        BY <3>1, <3>2, <1>3
    <2>6. WritesArePrefix'
      <3> SUFFICES ASSUME NEW a \in Address
                   PROVE  space'[a] = IF a - call.offset \in 0 .. done + n - 1
                                      THEN buf[a - call.offset] ELSE before[a]
        <4>1. /\ call'.op = "write" /\ done' - 1 = done + n - 1
              /\ call' = call /\ buf' = buf /\ before' = before
          BY <1>1, <1>3, <2>1
        <4> QED
          BY <4>1, Zenon DEF WritesArePrefix
      <3>1. CASE a - (call.offset + done) \in 0 .. n - 1
        <4>1. a - call.offset \in 0 .. done + n - 1
          BY <3>1, <1>3 DEF Address
        <4> QED
          BY <3>1, <4>1, <2>2
      <3>2. CASE a - (call.offset + done) \notin 0 .. n - 1
        <4>1. a - call.offset \in 0 .. done + n - 1 <=> a - call.offset \in 0 .. done - 1
          BY <3>2, <1>3, SMTT(30) DEF Address
        <4> QED
          BY <3>2, <4>1, <2>1, <2>3 DEF ConfigInv, WritesArePrefix
      <3> QED
        BY <3>1, <3>2
    <2> QED
      BY <1>1, <2>4, <2>5, <2>6 DEF ConfigInv, InRange, SuccessMeansAll, DescriptorClosed
  <1> QED
    BY <1>2, <1>4, <1>5

\* Every other step keeps the invariant: Finish is where SuccessMeansAll, the
\* error paths are where DescriptorClosed could fail.
LEMMA NextConfigInv == ConfigInv /\ [ConfigNext]_configVars => ConfigInv'
  <1> SUFFICES ASSUME ConfigInv, [ConfigNext]_configVars PROVE ConfigInv'
    BY SMTT(30)
  <1> USE DEF ConfigInv, ConfigTypes, Calls, Address, InRange, PrefixAgrees,
              WritesArePrefix, SuccessMeansAll, DescriptorClosed
  <1>1. CASE Call
    BY <1>1 DEF Call
  <1>2. CASE Refused
    BY <1>2 DEF Refused, ConfigReturn
  <1>3. CASE open_pci_config
    BY <1>3, SMTT(30) DEF open_pci_config, ConfigReturn, pci_config_range_is_valid
  <1>4. CASE Transfer
    BY <1>4, TransferConfigInv, SMTT(30)
  <1>5. CASE TransferFails
    BY <1>5 DEF TransferFails, ConfigReturn
  <1>6. CASE Finish
    BY <1>6, SMTT(30) DEF Finish, ConfigReturn, Complete
  <1>7. CASE UNCHANGED configVars
    BY <1>7 DEF configVars
  <1> QED
    BY <1>1, <1>2, <1>3, <1>4, <1>5, <1>6, <1>7, Zenon DEF ConfigNext

\* After a call of pci_config_read or pci_config_write that returned 0, every
\* byte of the buffer agrees with its register.
THEOREM Succeeds == ConfigSpec => []SuccessMeansAll
  <1>1. ConfigInv => SuccessMeansAll
    BY DEF ConfigInv
  <1> QED
    BY <1>1, InitConfigInv, NextConfigInv, PTL DEF ConfigSpec

\* A pci_config_write that fails has written a prefix of the buffer and
\* touched nothing else; a pci_config_read touches nothing.
THEOREM WritesPrefix == ConfigSpec => []WritesArePrefix
  <1>1. ConfigInv => WritesArePrefix
    BY DEF ConfigInv
  <1> QED
    BY <1>1, InitConfigInv, NextConfigInv, PTL DEF ConfigSpec

\* No path through either function leaves its descriptor open.
THEOREM Closes == ConfigSpec => []DescriptorClosed
  <1>1. ConfigInv => DescriptorClosed
    BY DEF ConfigInv
  <1> QED
    BY <1>1, InitConfigInv, NextConfigInv, PTL DEF ConfigSpec

=============================================================================
