---------------------------- MODULE DeviceProofs ----------------------------
(***************************************************************************)
(* How the host gets at the device, for every ready timeout, any number of *)
(* calls, every text and every size of a buffer and of a page: starting    *)
(* and stopping the controller through its registers, reading the name of  *)
(* the target, and describing a buffer to the device.                      *)
(***************************************************************************)
EXTENDS Startup, DataPointer, SequenceTheorems, WellFoundedInduction, TLAPS

-----------------------------------------------------------------------------
(* Controller *)

Early == {"down", "cap", "alloc_sq", "alloc_cq", "cc"}

DeviceForeign == dev_sq = Foreign /\ dev_cq = Foreign

\* The registers hold the queues of this controller_init.
OwnRegisters == asq = admin_sq_mem /\ acq = admin_cq_mem

Place == Early \cup {"wait_off", "program", "enable", "wait_on", "up", "deinit"}

\* What is allocated at each place of the calls.
Progress ==
  /\ pc \in Place
  /\ DownMeansReleased
  /\ pc = "cap" => ~dma_fd_opened /\ admin_sq_mem = NULL /\ admin_cq_mem = NULL
  /\ pc = "alloc_sq" => ~dma_fd_opened /\ admin_sq_mem = NULL /\ admin_cq_mem = NULL

\* CC.EN, the queue registers and the device from the moment controller_init
\* has disabled it: until it is enabled a device that was not found halfway is
\* off, and afterwards it can only start with the new queues.
Handshake ==
  /\ pc \in {"wait_off", "program", "enable"} => ~cc_en
  /\ pc = "wait_off" => ~halfway
  /\ pc \in {"program", "enable"} /\ ~halfway /\ ~gone => ~csts_rdy
  /\ pc \in {"enable", "wait_on"} => OwnRegisters
  /\ pc = "wait_on" /\ ~halfway /\ ~gone /\ csts_rdy => OwnQueues

\* Without a late device or a crash, a device that is on works with foreign
\* queues until controller_init has disabled it, and with its own afterwards.
Orderly ==
  ~gone /\ ~late /\ ~crashed =>
    /\ pc \in Early => /\ csts_rdy => cc_en /\ DeviceForeign
                       /\ cc_en => asq = Foreign /\ acq = Foreign
    /\ pc = "wait_off" => (csts_rdy => DeviceForeign)
    /\ pc \in {"program", "enable"} => ~csts_rdy
    /\ pc \in {"wait_on", "up"} => OwnRegisters /\ (csts_rdy => OwnQueues)
    /\ pc = "deinit" => ~cc_en /\ (csts_rdy => OwnQueues)

IInv == Progress /\ Handshake /\ Orderly

\* The invariant holds in whatever state the device was left.
LEMMA InitIInv == Init => IInv
  <1> SUFFICES ASSUME Init PROVE IInv
    OBVIOUS
  <1>1. pc = "down" /\ ~bar0_virt /\ ~dma_fd_opened
    BY Zenon DEF Init
  <1>2. Progress
    BY <1>1, Zenon DEF Init, Progress, DownMeansReleased, Place, Early
  <1>3. Handshake
    BY <1>1, Zenon DEF Handshake
  <1>4. csts_rdy => cc_en
    BY Zenon DEF Init
  <1>5. Orderly
    BY <1>1, <1>4, Zenon DEF Init, Orderly, DeviceForeign
  <1> QED
    BY <1>2, <1>3, <1>5, Zenon DEF IInv

\* Every step of a call, of the device and of a crash keeps it.
LEMMA NextIInv == IInv /\ [Next]_vars => IInv'
  <1> SUFFICES ASSUME IInv, [Next]_vars PROVE IInv'
    OBVIOUS
  <1> USE DEF IInv, Progress, DownMeansReleased, Handshake, Orderly, Early,
              Place, DeviceForeign, OwnRegisters, OwnQueues
  <1> USE DEF hostVars, regVars, devVars, history, Goto
  <1>1. CASE InitMap
    BY <1>1 DEF InitMap
  <1>2. CASE InitCap
    BY <1>2, Zenon DEF InitCap, AllOnes
  <1>3. CASE InitAllocSq
    BY <1>3, Zenon DEF InitAllocSq, Release, ReleaseDma
  <1>4. CASE InitAllocCq
    BY <1>4, Zenon DEF InitAllocCq, Release, ReleaseDma
  <1>5. CASE InitReadCc
    <2>1. CASE AllOnes /\ Release /\ UNCHANGED <<cc_en, elapsed, halfway>>
      BY <1>5, <2>1, Zenon DEF InitReadCc, AllOnes, Release, ReleaseDma
    <2>2. CASE ~AllOnes /\ cc_en' = FALSE /\ halfway' = FALSE /\ pc' = "wait_off"
               /\ UNCHANGED hostVars
      BY <1>5, <2>2, Zenon DEF InitReadCc
    <2>3. CASE ~AllOnes /\ ~MustDisable /\ halfway' = csts_rdy /\ pc' = "program"
               /\ UNCHANGED <<hostVars, cc_en, elapsed>>
      BY <1>5, <2>3, Zenon DEF InitReadCc, AllOnes, MustDisable, EnBit
    <2> QED
      BY <1>5, <2>1, <2>2, <2>3, Zenon DEF InitReadCc
  <1>6. CASE InitWaitOff
    BY <1>6, Zenon DEF InitWaitOff, wait_ready, AllOnes, WantSeen, RdyBit,
                            Release, ReleaseDma
  <1>7. CASE InitProgram
    BY <1>7, Zenon DEF InitProgram
  <1>8. CASE InitEnable
    BY <1>8, Zenon DEF InitEnable
  <1>9. CASE InitWaitOn
    BY <1>9, Zenon DEF InitWaitOn, wait_ready, AllOnes, WantSeen, RdyBit,
                            Release, ReleaseDma
  <1>10. CASE Deinit
    BY <1>10, Zenon DEF Deinit
  <1>11. CASE DeinitWait
    BY <1>11, Zenon DEF DeinitWait, wait_ready, AllOnes, WantSeen, RdyBit,
                            Release, ReleaseDma
  <1>12. CASE Crash
    BY <1>12, Zenon DEF Crash, Release, ReleaseDma
  <1>13. CASE DevOn
    BY <1>13, Zenon DEF DevOn
  <1>14. CASE DevOff
    BY <1>14, Zenon DEF DevOff
  <1>15. CASE DevGone
    BY <1>15, Zenon DEF DevGone
  <1>16. CASE UNCHANGED vars
    BY <1>16, Zenon DEF vars
  <1> QED
    BY <1>1, <1>2, <1>3, <1>4, <1>5, <1>6, <1>7, <1>8, <1>9, <1>10, <1>11,
       <1>12, <1>13, <1>14, <1>15, <1>16, Zenon DEF Next, CallStep, AllDone

\* A device that is on works with memory that is still allocated, unless it
\* is slower than CAP.TO or a process ended without controller_deinit.
THEOREM QueuesStayAllocated == Spec => []QueuesAllocated
  <1>1. IInv => QueuesAllocated
    BY Zenon DEF IInv, Progress, Orderly, Place, Early, DeviceForeign, QueuesAllocated
  <1> QED
    BY <1>1, InitIInv, NextIInv, PTL DEF Spec

\* A controller that is down holds no mapping, memory or descriptor, whichever
\* step of controller_init failed.
THEOREM DownIsReleased == Spec => []DownMeansReleased
  <1>1. IInv => DownMeansReleased
    BY DEF IInv, Progress
  <1> QED
    BY <1>1, InitIInv, NextIInv, PTL DEF Spec

\* controller_init returns true only with a device that is present, ready and
\* working with the new queues, unless it was found disabled but still ready.
THEOREM InitIsReady == Spec => InitMeansReadyUnlessHalfway
  <1>1. IInv /\ [Next]_vars =>
          [InitReturnsTrue => halfway \/ (~gone /\ csts_rdy /\ OwnQueues)]_vars
    <2> SUFFICES ASSUME IInv, Next, pc # "up", pc' = "up", ~halfway
                 PROVE  ~gone /\ csts_rdy /\ OwnQueues
      BY DEF InitReturnsTrue, vars
    <2>1. InitWaitOn
      BY Zenon DEF Next, CallStep, InitMap, InitCap, InitAllocSq, InitAllocCq,
             InitReadCc, InitWaitOff, InitProgram, InitEnable, Deinit, DeinitWait,
             wait_ready, Crash, DevOn, DevOff, DevGone, AllDone, Release, Goto, vars,
             hostVars
    <2>2. pc = "wait_on" /\ ~gone /\ (gone \/ csts_rdy)
      BY <2>1, Zenon DEF InitWaitOn, wait_ready, AllOnes, WantSeen, RdyBit, Release,
             hostVars
    <2> QED
      BY <2>2, Zenon DEF IInv, Handshake
  <1> QED
    BY <1>1, InitIInv, NextIInv, PTL DEF Spec, InitMeansReadyUnlessHalfway

\* The queue registers are written only while the device is off, unless it
\* was found disabled but still ready.
THEOREM QueuesSetSafely == Spec => QueuesSetWhileOff
  <1>1. IInv /\ [Next]_vars =>
          [<<asq, acq>>' # <<asq, acq>> =>
             halfway \/ gone \/ (~cc_en /\ ~csts_rdy)]_vars
    <2> SUFFICES ASSUME IInv, Next, ~(asq' = asq /\ acq' = acq), ~halfway, ~gone
                 PROVE  ~cc_en /\ ~csts_rdy
      BY DEF vars
    <2>1. pc = "program"
      BY Zenon DEF Next, CallStep, InitMap, InitCap, InitAllocSq, InitAllocCq,
             InitReadCc, InitWaitOff, InitProgram, InitEnable, InitWaitOn, Deinit,
             DeinitWait, Crash, DevOn, DevOff, DevGone, AllDone, vars, regVars
    <2> QED
      BY <2>1, Zenon DEF IInv, Handshake
  <1> QED
    BY <1>1, InitIInv, NextIInv, PTL DEF Spec, QueuesSetWhileOff

-----------------------------------------------------------------------------
(* Target *)

\* A set of natural numbers has a least element: what the proofs below use
\* where others would use induction.
LEMMA LeastNat ==
  ASSUME NEW S \in SUBSET Nat, S # {}
  PROVE  \E m \in S : \A n \in S : m <= n
  <1>1. \E m \in S : \A n \in S : ~ (<<n, m>> \in OpToRel(<, Nat))
    BY NatLessThanWellFounded, WFMin, Zenon
  <1>2. \A n, m \in Nat : <<n, m>> \in OpToRel(<, Nat) <=> n < m
    BY DEF OpToRel
  <1>3. \E m \in S : \A n \in S : ~ (n < m)
    BY <1>1, <1>2, Zenon
  <1> QED
    BY <1>3

\* g[i] is the value of the first i digits.
IsPrefixValue(g, digits, base, n) ==
  g = [i \in 0 .. n |-> IF i = 0 THEN 0 ELSE base * g[i - 1] + digits[i]]

\* The values of the prefixes exist: of a first prefix without a value, the one
\* before has one.
LEMMA Horner ==
  ASSUME NEW digits \in Seq(Nat), NEW base \in Nat
  PROVE  \E g \in [0 .. Len(digits) -> Nat] : IsPrefixValue(g, digits, base, Len(digits))
  <1> DEFINE Has(n) == \E g \in [0 .. n -> Nat] : IsPrefixValue(g, digits, base, n)
             S == {n \in 0 .. Len(digits) : ~Has(n)}
  <1>1. \A x \in Nat, i \in 1 .. Len(digits) : base * x + digits[i] \in Nat
    <2> SUFFICES ASSUME NEW x \in Nat, NEW i \in 1 .. Len(digits)
                 PROVE  base * x + digits[i] \in Nat
      OBVIOUS
    <2>1. base * x \in Nat /\ digits[i] \in Nat
      OBVIOUS
    <2> QED
      BY <2>1
  <1>2. Has(0)
    <2>1. [i \in 0 .. 0 |-> 0] \in [0 .. 0 -> Nat]
      OBVIOUS
    <2>2. IsPrefixValue([i \in 0 .. 0 |-> 0], digits, base, 0)
      BY DEF IsPrefixValue
    <2> QED
      BY <2>1, <2>2, Zenon
  <1>3. ASSUME NEW n \in 0 .. Len(digits), n # 0, Has(n - 1)
        PROVE  Has(n)
    <2>1. PICK g \in [0 .. n - 1 -> Nat] : IsPrefixValue(g, digits, base, n - 1)
      BY <1>3
    <2> DEFINE h == [i \in 0 .. n |-> IF i = n THEN base * g[n - 1] + digits[n] ELSE g[i]]
    <2>2. n \in 1 .. Len(digits) /\ n - 1 \in 0 .. n - 1 /\ n - 1 \in 0 .. n /\ n - 1 # n /\ n \in 0 .. n
      BY <1>3
    <2>3. g[n - 1] \in Nat
      BY <2>2
    <2>4. base * g[n - 1] + digits[n] \in Nat
      BY <1>1, <2>2, <2>3, Zenon
    <2>5. h \in [0 .. n -> Nat]
      <3>1. ASSUME NEW i \in 0 .. n, i # n PROVE g[i] \in Nat
        BY <3>1, <2>2
      <3> QED
        BY <2>4, <3>1, Zenon
    <2>6. ASSUME NEW i \in 0 .. n
          PROVE  h[i] = IF i = 0 THEN 0 ELSE base * h[i - 1] + digits[i]
      <3>1. CASE i = n
        <4>1. h[i] = base * g[n - 1] + digits[n] /\ h[n - 1] = g[n - 1]
          BY <3>1, <2>2, Zenon
        <4> QED
          BY <4>1, <3>1, <1>3, Zenon
      <3>2. CASE i # n
        <4>1. i \in 0 .. n - 1 /\ (i # 0 => i - 1 \in 0 .. n - 1 /\ i - 1 \in 0 .. n /\ i - 1 # n)
          BY <3>2, <2>2
        <4>2. h[i] = g[i] /\ (i # 0 => h[i - 1] = g[i - 1])
          BY <4>1, <3>2, Zenon
        <4>3. g[i] = IF i = 0 THEN 0 ELSE base * g[i - 1] + digits[i]
          BY <4>1, <2>1, Zenon DEF IsPrefixValue
        <4> QED
          BY <4>2, <4>3, Zenon
      <3> QED
        BY <3>1, <3>2
    <2>7. IsPrefixValue(h, digits, base, n)
      BY <2>6, Zenon DEF IsPrefixValue
    <2> QED
      BY <2>5, <2>7, Zenon
  <1>4. S = {}
    <2> HIDE DEF Has
    <2> SUFFICES ASSUME S # {} PROVE FALSE
      OBVIOUS
    <2>1. PICK m \in S : \A n \in S : m <= n
      <3>1. S \in SUBSET Nat
        OBVIOUS
      <3> QED
        BY <3>1, LeastNat, Zenon
    <2>2. m # 0 /\ m - 1 \in 0 .. Len(digits) /\ ~(m <= m - 1)
      BY <1>2
    <2>3. Has(m - 1)
      BY <2>1, <2>2
    <2> QED
      BY <2>1, <2>2, <2>3, <1>3
  <1>5. Has(Len(digits))
    BY <1>4
  <1> QED
    BY <1>5

\* What strtoul computes from digits is a natural number.
LEMMA ValueNat ==
  ASSUME NEW digits \in Seq(Nat), NEW base \in Nat
  PROVE  Value(digits, base) \in Nat
  <1> DEFINE n == Len(digits)
             v == CHOOSE g : IsPrefixValue(g, digits, base, n)
  <1>1. Value(digits, base) = v[n]
    BY Zenon DEF Value, IsPrefixValue
  <1>2. IsPrefixValue(v, digits, base, n)
    BY Horner, Zenon
  <1> HIDE DEF v
  <1> DEFINE S == {i \in 0 .. n : v[i] \notin Nat}
  <1>3. S = {}
    <2> SUFFICES ASSUME S # {} PROVE FALSE
      OBVIOUS
    <2>1. S \in SUBSET Nat
      OBVIOUS
    <2>2. PICK m \in S : \A i \in S : m <= i
      BY <2>1, LeastNat, Zenon
    <2>3. m \in 0 .. n /\ v[m] \notin Nat /\ n \in Nat
      BY <2>2
    <2>4. v[m] = IF m = 0 THEN 0 ELSE base * v[m - 1] + digits[m]
      BY <1>2, <2>3, Zenon DEF IsPrefixValue
    <2>5. m # 0
      BY <2>3, <2>4
    <2>6. v[m - 1] \in Nat
      <3>1. m - 1 \in 0 .. n /\ ~(m <= m - 1)
        BY <2>3, <2>5
      <3> QED
        BY <2>2, <3>1, Zenon
    <2>7. base * v[m - 1] \in Nat
      BY <2>6
    <2>8. digits[m] \in Nat
      BY <2>3, <2>5
    <2>9. base * v[m - 1] + digits[m] \in Nat
      BY <2>7, <2>8
    <2> QED
      BY <2>3, <2>4, <2>5, <2>9, Zenon
  <1> QED
    BY <1>1, <1>3

\* The bases of the fields.
Base == {10, 16}

\* A place is the end of the span exactly if the span ends there.
IsSpanEnd(p, i, C, j) ==
  /\ j \in i .. Len(p) + 1
  /\ j = Len(p) + 1 \/ p[j] \notin C
  /\ \A k \in i .. j - 1 : p[k] \in C

\* The characters of a span end somewhere, at the latest at the end of the text.
LEMMA SpanEndIs ==
  ASSUME NEW p \in Seq(Nat), NEW i \in 1 .. Len(p) + 1, NEW C
  PROVE  IsSpanEnd(p, i, C, SpanEnd(p, i, C))
  <1> DEFINE S == {j \in i .. Len(p) + 1 : j = Len(p) + 1 \/ p[j] \notin C}
  <1>1. S \in SUBSET Nat /\ S # {}
    <2>1. Len(p) + 1 \in S
      OBVIOUS
    <2> QED
      BY <2>1
  <1>2. PICK j \in S : \A k \in S : j <= k
    BY <1>1, LeastNat, Zenon
  <1>3. \A k \in i .. j - 1 : p[k] \in C
    <2> SUFFICES ASSUME NEW k \in i .. j - 1, p[k] \notin C PROVE FALSE
      OBVIOUS
    <2>1. k \in S /\ ~ (j <= k)
      OBVIOUS
    <2> QED
      BY <1>2, <2>1, Zenon
  <1>4. IsSpanEnd(p, i, C, j)
    BY <1>2, <1>3 DEF IsSpanEnd
  <1>5. j \in i .. Len(p) + 1
    OBVIOUS
  <1> QED
    BY <1>4, <1>5, Zenon DEF SpanEnd, IsSpanEnd

\* A span ends at one place only.
LEMMA SpanEndUnique ==
  ASSUME NEW p \in Seq(Nat), NEW i \in 1 .. Len(p) + 1, NEW C, NEW j, IsSpanEnd(p, i, C, j)
  PROVE  SpanEnd(p, i, C) = j
  <1> DEFINE e == SpanEnd(p, i, C)
  <1>1. IsSpanEnd(p, i, C, e)
    BY SpanEndIs, Zenon
  <1> HIDE DEF e
  <1>2. e \in i .. Len(p) + 1 /\ j \in i .. Len(p) + 1
    BY <1>1, Zenon DEF IsSpanEnd
  <1>3. ~ e < j
    <2> SUFFICES ASSUME e < j PROVE FALSE
      OBVIOUS
    <2>1. e \in i .. j - 1 /\ e # Len(p) + 1
      BY <1>2
    <2> QED
      BY <2>1, <1>1, Zenon DEF IsSpanEnd
  <1>4. ~ j < e
    <2> SUFFICES ASSUME j < e PROVE FALSE
      OBVIOUS
    <2>1. j \in i .. e - 1 /\ j # Len(p) + 1
      BY <1>2
    <2> QED
      BY <2>1, <1>1, Zenon DEF IsSpanEnd
  <1> QED
    BY <1>2, <1>3, <1>4 DEF e

\* The first j - 1 characters of p are digits, and no more.
DigitsEnd(p, base, j) ==
  /\ j \in 2 .. Len(p) + 1
  /\ \A k \in 1 .. j - 1 : p[k] < base
  /\ j = Len(p) + 1 \/ p[j] >= base

\* The digits at the start of a text are a span of characters below the base.
LEMMA DigitsSpan ==
  ASSUME NEW p \in Seq(Nat), NEW base \in Base, NEW j \in 2 .. Len(p) + 1
  PROVE  DigitsEnd(p, base, j) <=> IsSpanEnd(p, 1, 0 .. base - 1, j)
  <1>1. \A k \in 1 .. Len(p) : p[k] \in 0 .. base - 1 <=> p[k] < base
    BY DEF Base
  <1>2. \A k \in 1 .. Len(p) : p[k] \notin 0 .. base - 1 <=> p[k] >= base
    BY DEF Base
  <1>3. j = Len(p) + 1 \/ j \in 1 .. Len(p)
    OBVIOUS
  <1>4. \A k \in 1 .. j - 1 : k \in 1 .. Len(p)
    OBVIOUS
  <1>5. j \in 1 .. Len(p) + 1
    OBVIOUS
  <1> QED
    BY <1>1, <1>2, <1>3, <1>4, <1>5, Zenon DEF DigitsEnd, IsSpanEnd

\* strtoul on a text that starts with a digit: it takes all digits, stops at the
\* first character that is none, and fails only when the value is too large.
LEMMA StrtoulReads ==
  ASSUME NEW p \in Seq(Nat), NEW base \in Base, NEW j, DigitsEnd(p, base, j)
  PROVE  strtoul(p, base) = [value |-> Value(SubSeq(p, 1, j - 1), base),
                             end   |-> SubSeq(p, j, Len(p)),
                             valid |-> Value(SubSeq(p, 1, j - 1), base) < UlongSpan]
  <1>1. j \in 2 .. Len(p) + 1 /\ Len(p) \in Nat
    BY DEF DigitsEnd
  <1>2. 1 \in 1 .. Len(p) /\ p[1] \in Nat /\ p[1] < base /\ 1 \in 1 .. Len(p) + 1
    BY <1>1 DEF DigitsEnd
  <1>3. p[1] # Blank /\ p[1] # Minus
    BY <1>2 DEF Blank, Minus, Base
  <1>4. IsSpanEnd(p, 1, {Blank}, 1)
    BY <1>2, <1>3 DEF IsSpanEnd
  <1>5. SpanEnd(p, 1, {Blank}) = 1
    BY <1>2, <1>4, SpanEndUnique, Zenon
  <1>6. SpanEnd(p, 1, 0 .. base - 1) = j
    <2>1. IsSpanEnd(p, 1, 0 .. base - 1, j)
      BY <1>1, DigitsSpan, Zenon
    <2> QED
      BY <1>2, <2>1, SpanEndUnique, Zenon
  <1>7. j # 1
    BY <1>1
  <1> QED
    BY <1>3, <1>5, <1>6, <1>7, Zenon DEF strtoul

\* strtoul finds a number in a text without blanks and signs only if the text
\* starts with a digit.
LEMMA StrtoulPlain ==
  ASSUME NEW p \in Seq(Nat), NEW base \in Base, strtoul(p, base).valid,
         \A k \in 1 .. Len(p) : p[k] \notin {Blank, Minus}
  PROVE  \E j : DigitsEnd(p, base, j)
  <1> DEFINE stop == SpanEnd(p, 1, 0 .. base - 1)
  <1>1. 1 \in 1 .. Len(p) + 1 /\ Len(p) \in Nat
    OBVIOUS
  <1>2. IsSpanEnd(p, 1, {Blank}, 1)
    <2>1. 1 = Len(p) + 1 \/ 1 \in 1 .. Len(p)
      OBVIOUS
    <2>2. \A k \in 1 .. 1 - 1 : FALSE
      OBVIOUS
    <2> QED
      BY <1>1, <2>1, <2>2, Zenon DEF IsSpanEnd
  <1>3. SpanEnd(p, 1, {Blank}) = 1
    BY <1>1, <1>2, SpanEndUnique, Zenon
  <1>4. ~ (1 <= Len(p) /\ p[1] = Minus)
    OBVIOUS
  <1>5. stop # 1
    <2> SUFFICES ASSUME stop = 1 PROVE FALSE
      OBVIOUS
    <2>1. strtoul(p, base) = [value |-> 0, end |-> p, valid |-> FALSE]
      BY <1>3, <1>4, Zenon DEF strtoul
    <2> QED
      BY <2>1
  <1>6. IsSpanEnd(p, 1, 0 .. base - 1, stop)
    BY <1>1, SpanEndIs, Zenon
  <1> HIDE DEF stop
  <1>7. stop \in 2 .. Len(p) + 1
    BY <1>1, <1>5, <1>6 DEF IsSpanEnd
  <1> QED
    BY <1>6, <1>7, DigitsSpan, Zenon

\* The limits of the four fields are far below that of strtoul.
LEMMA Limits ==
  /\ UINT16_MAX \in Nat /\ UINT16_MAX < UlongSpan
  /\ 31 < UlongSpan /\ 7 < UlongSpan
  <1>1. UINT16_MAX \in Nat /\ 31 < UINT16_MAX
    BY SMT DEF UINT16_MAX
  <1> QED
    BY <1>1, SpanAssumption, SMT

\* What follows place i - 1 of a text.
LEMMA RestOfText ==
  ASSUME NEW t \in Seq(Nat), NEW i \in 1 .. Len(t) + 1
  PROVE  LET q == SubSeq(t, i, Len(t))
         IN  /\ q \in Seq(Nat) /\ Len(q) = Len(t) - i + 1
             /\ \A k \in 1 .. Len(q) : q[k] = t[i + k - 1]
  OBVIOUS

\* A part of what follows place i - 1 is a part of the text.
LEMMA PartOfRest ==
  ASSUME NEW t \in Seq(Nat), NEW i \in 1 .. Len(t) + 1,
         NEW a \in Nat \ {0}, NEW b \in Nat, b <= Len(t) - i + 1, a <= b + 1
  PROVE  SubSeq(SubSeq(t, i, Len(t)), a, b) = SubSeq(t, i + a - 1, i + b - 1)
  <1> DEFINE q == SubSeq(t, i, Len(t))
             u == SubSeq(q, a, b)
             v == SubSeq(t, i + a - 1, i + b - 1)
  <1>1. q \in Seq(Nat) /\ Len(q) = Len(t) - i + 1 /\ \A k \in 1 .. Len(q) : q[k] = t[i + k - 1]
    BY RestOfText
  <1> HIDE DEF q
  <1>2. u \in Seq(Nat) /\ Len(u) = b - a + 1 /\ \A k \in 1 .. b - a + 1 : u[k] = q[a + k - 1]
    BY <1>1, SMTT(30)
  <1>3. v \in Seq(Nat) /\ Len(v) = b - a + 1
        /\ \A k \in 1 .. b - a + 1 : v[k] = t[i + a - 1 + k - 1]
    OBVIOUS
  <1> HIDE DEF u, v
  <1>4. \A k \in 1 .. b - a + 1 : u[k] = v[k]
    <2> SUFFICES ASSUME NEW k \in 1 .. b - a + 1 PROVE u[k] = v[k]
      OBVIOUS
    <2>1. a + k - 1 \in 1 .. Len(q) /\ i + (a + k - 1) - 1 = i + a - 1 + k - 1
      BY <1>1
    <2>2. q[a + k - 1] = t[i + (a + k - 1) - 1]
      BY <1>1, <2>1, Zenon
    <2> QED
      BY <1>2, <1>3, <2>1, <2>2
  <1>5. u = v
    BY <1>2, <1>3, <1>4, SeqEqual
  <1> QED
    BY <1>5 DEF u, v, q

\* A number from place i up to place j of a text.
NumberAt(t, i, j, base, max) ==
  /\ j \in i + 1 .. Len(t) + 1
  /\ \A k \in i .. j - 1 : t[k] < base
  /\ Value(SubSeq(t, i, j - 1), base) <= max

\* strtoul reads the number that stands at place i of a text, and stops behind
\* it.
LEMMA NumberRead ==
  ASSUME NEW t \in Seq(Nat), NEW i \in 1 .. Len(t) + 1, NEW j, NEW base \in Base,
         NEW max \in Nat, max < UlongSpan, NumberAt(t, i, j, base, max),
         j = Len(t) + 1 \/ t[j] >= base
  PROVE  strtoul(SubSeq(t, i, Len(t)), base) =
           [value |-> Value(SubSeq(t, i, j - 1), base), end |-> SubSeq(t, j, Len(t)),
            valid |-> TRUE]
  <1> DEFINE q == SubSeq(t, i, Len(t))
             value == Value(SubSeq(t, i, j - 1), base)
             m == j - i + 1
  <1>1. j \in i + 1 .. Len(t) + 1 /\ Len(t) \in Nat
    BY DEF NumberAt
  <1>2. q \in Seq(Nat) /\ Len(q) = Len(t) - i + 1 /\ \A k \in 1 .. Len(q) : q[k] = t[i + k - 1]
    BY RestOfText
  <1> HIDE DEF q
  <1>3. m \in 2 .. Len(q) + 1 /\ m - 1 \in Nat /\ m - 1 <= Len(t) - i + 1 /\ m \in Nat \ {0}
        /\ i + (m - 1) - 1 = j - 1 /\ i + m - 1 = j /\ Len(q) \in Nat
        /\ i + Len(q) - 1 = Len(t) /\ i + 1 - 1 = i
        /\ 1 \in Nat \ {0} /\ 1 <= m - 1 + 1 /\ m <= Len(q) + 1 /\ Len(q) <= Len(t) - i + 1
    BY <1>1, <1>2
  <1> HIDE DEF m
  <1>4. SubSeq(q, 1, m - 1) = SubSeq(t, i, j - 1)
    <2>1. SubSeq(q, 1, m - 1) = SubSeq(t, i + 1 - 1, i + (m - 1) - 1)
      BY <1>3, PartOfRest, Zenon DEF q
    <2> QED
      BY <1>3, <2>1, Zenon
  <1>5. SubSeq(q, m, Len(q)) = SubSeq(t, j, Len(t))
    <2>1. SubSeq(q, m, Len(q)) = SubSeq(t, i + m - 1, i + Len(q) - 1)
      BY <1>3, PartOfRest, Zenon DEF q
    <2> QED
      BY <1>3, <2>1, Zenon
  <1>6. DigitsEnd(q, base, m)
    <2>1. ASSUME NEW k \in 1 .. m - 1 PROVE q[k] < base
      <3>1. k \in 1 .. Len(q) /\ i + k - 1 \in i .. j - 1
        BY <1>1, <1>2, <1>3, SMTT(30)
      <3> QED
        BY <1>2, <3>1, Zenon DEF NumberAt
    <2>2. CASE j = Len(t) + 1
      <3>1. m = Len(q) + 1
        BY <1>2, <2>2 DEF m
      <3> QED
        BY <1>3, <2>1, <3>1, Zenon DEF DigitsEnd
    <2>3. CASE j # Len(t) + 1
      <3>1. m \in 1 .. Len(q)
        BY <1>1, <1>3, <2>3, SMTT(30)
      <3>2. q[m] = t[j]
        BY <1>2, <1>3, <3>1, Zenon
      <3> QED
        BY <1>3, <2>1, <2>3, <3>2, Zenon DEF DigitsEnd
    <2> QED
      BY <2>2, <2>3
  <1>7. strtoul(q, base) =
          [value |-> value, end |-> SubSeq(t, j, Len(t)), valid |-> value < UlongSpan]
    <2>1. strtoul(q, base) = [value |-> Value(SubSeq(q, 1, m - 1), base),
                              end   |-> SubSeq(q, m, Len(q)),
                              valid |-> Value(SubSeq(q, 1, m - 1), base) < UlongSpan]
      BY <1>2, <1>6, StrtoulReads, Zenon
    <2> QED
      BY <1>4, <1>5, <2>1, Zenon
  <1>8. value \in Nat /\ value <= max
    <2>1. SubSeq(t, i, j - 1) \in Seq(Nat)
      BY <1>1
    <2>2. value \in Nat
      BY <2>1, ValueNat, Zenon DEF Base
    <2> QED
      BY <2>2, Zenon DEF NumberAt
  <1> HIDE DEF value
  <1>9. (value < UlongSpan) = TRUE
    <2>1. UlongSpan \in Nat
      BY SpanAssumption, Zenon
    <2> QED
      BY <1>8, <2>1
  <1> QED
    BY <1>7, <1>9, Zenon DEF value, q

\* What separates the fields.
Delimiter == {Colon, Dot, Comma}

\* A field that another one follows.
LEMMA FieldRead ==
  ASSUME NEW t \in Seq(Nat), NEW i \in 1 .. Len(t) + 1, NEW j \in 1 .. Len(t),
         NEW base \in Base, NEW max \in Nat, max < UlongSpan, NumberAt(t, i, j, base, max),
         NEW d \in Delimiter, t[j] = d
  PROVE  parse_ulong_field(SubSeq(t, i, Len(t)), base, max, <<d>>) =
           [ok |-> TRUE, value |-> Value(SubSeq(t, i, j - 1), base),
            rest |-> SubSeq(t, j + 1, Len(t))]
  <1> DEFINE n == strtoul(SubSeq(t, i, Len(t)), base)
             value == Value(SubSeq(t, i, j - 1), base)
             e == SubSeq(t, j, Len(t))
  <1>1. t[j] >= base
    BY DEF Colon, Dot, Comma, Base, Delimiter
  <1>2. n = [value |-> value, end |-> e, valid |-> TRUE] /\ value <= max
    BY <1>1, NumberRead, Zenon DEF NumberAt
  <1>3. e # <<>> /\ Head(e) = d /\ Tail(e) = SubSeq(t, j + 1, Len(t))
    <2>1. Len(t) \in j .. Len(t)
      OBVIOUS
    <2>2. Head(e) = t[j] /\ Tail(e) = SubSeq(t, j + 1, Len(t))
      BY <2>1, HeadTailOfSubSeq
    <2>3. Len(e) = Len(t) - j + 1 /\ Len(t) - j + 1 # 0 /\ Len(<<>>) = 0
      OBVIOUS
    <2> QED
      BY <2>2, <2>3, Zenon
  <1>4. <<d>> # <<>> /\ <<d>>[1] = d
    OBVIOUS
  <1> HIDE DEF n, e, value
  <1>5. n.value = value /\ n.end = e /\ n.valid
    BY <1>2
  <1>6. FieldEnds(n.end, <<d>>)
    BY <1>3, <1>4, <1>5, Zenon DEF FieldEnds
  <1> QED
    BY <1>2, <1>3, <1>5, <1>6, Zenon DEF parse_ulong_field, n, e, value

\* The last field.
LEMMA LastFieldRead ==
  ASSUME NEW t \in Seq(Nat), NEW i \in 1 .. Len(t) + 1,
         NEW max \in Nat, max < UlongSpan, NumberAt(t, i, Len(t) + 1, 10, max)
  PROVE  parse_ulong_field(SubSeq(t, i, Len(t)), 10, max, <<>>) =
           [ok |-> TRUE, value |-> Value(SubSeq(t, i, Len(t)), 10), rest |-> <<>>]
  <1> DEFINE n == strtoul(SubSeq(t, i, Len(t)), 10)
             value == Value(SubSeq(t, i, Len(t)), 10)
             j == Len(t) + 1
  <1>1. j - 1 = Len(t) /\ SubSeq(t, j, Len(t)) = <<>> /\ 10 \in Base
    BY DEF Base
  <1>2. n = [value |-> value, end |-> <<>>, valid |-> TRUE] /\ value <= max
    <2>1. NumberAt(t, i, j, 10, max) /\ j = Len(t) + 1
      OBVIOUS
    <2> HIDE DEF j
    <2>2. n = [value |-> Value(SubSeq(t, i, j - 1), 10),
               end |-> SubSeq(t, j, Len(t)), valid |-> TRUE]
      BY <1>1, <2>1, NumberRead, ZenonT(40)
    <2>3. Value(SubSeq(t, i, j - 1), 10) <= max
      BY <2>1, Zenon DEF NumberAt
    <2> QED
      BY <1>1, <2>2, <2>3, Zenon
  <1> HIDE DEF n, value
  <1>3. n.value = value /\ n.end = <<>> /\ n.valid
    BY <1>2
  <1>4. FieldEnds(n.end, <<>>)
    BY <1>3, Zenon DEF FieldEnds
  <1> QED
    BY <1>2, <1>3, <1>4, Zenon DEF parse_ulong_field, n, value

\* A text without blanks and signs.
Plain(t) == \A k \in 1 .. Len(t) : t[k] \notin {Blank, Minus}

\* What strtoul accepts at place i of such a text is a number that stands there.
LEMMA NumberSound ==
  ASSUME NEW t \in Seq(Nat), Plain(t), NEW i \in 1 .. Len(t) + 1, NEW base \in Base,
         NEW max, NEW n, n = strtoul(SubSeq(t, i, Len(t)), base), n.valid, n.value <= max
  PROVE  \E j : /\ NumberAt(t, i, j, base, max) /\ n.end = SubSeq(t, j, Len(t))
                /\ n.value = Value(SubSeq(t, i, j - 1), base)
  <1> DEFINE q == SubSeq(t, i, Len(t))
  <1>1. q \in Seq(Nat) /\ Len(q) = Len(t) - i + 1 /\ \A k \in 1 .. Len(q) : q[k] = t[i + k - 1]
    BY RestOfText
  <1>2. n = strtoul(q, base)
    OBVIOUS
  <1> HIDE DEF q
  <1>3. \A k \in 1 .. Len(q) : q[k] \notin {Blank, Minus}
    <2> SUFFICES ASSUME NEW k \in 1 .. Len(q) PROVE q[k] \notin {Blank, Minus}
      OBVIOUS
    <2>1. i + k - 1 \in 1 .. Len(t)
      BY <1>1, SMTT(30)
    <2> QED
      BY <1>1, <2>1, Zenon DEF Plain
  <1>4. PICK m : DigitsEnd(q, base, m)
    BY <1>1, <1>2, <1>3, StrtoulPlain, Zenon
  <1>5. n = [value |-> Value(SubSeq(q, 1, m - 1), base), end |-> SubSeq(q, m, Len(q)),
             valid |-> Value(SubSeq(q, 1, m - 1), base) < UlongSpan]
    BY <1>1, <1>2, <1>4, StrtoulReads, Zenon
  <1>6. n.value = Value(SubSeq(q, 1, m - 1), base) /\ n.end = SubSeq(q, m, Len(q))
    <2> DEFINE v == Value(SubSeq(q, 1, m - 1), base)
               e == SubSeq(q, m, Len(q))
               w == v < UlongSpan
    <2>1. n = [value |-> v, end |-> e, valid |-> w]
      BY <1>5, Zenon
    <2> HIDE DEF v, e, w
    <2>2. n.value = v /\ n.end = e
      BY <2>1
    <2> QED
      BY <2>2 DEF v, e
  <1>7. m \in 2 .. Len(q) + 1
    BY <1>4, Zenon DEF DigitsEnd
  <1> DEFINE j == i + m - 1
  <1>8. j \in i + 1 .. Len(t) + 1 /\ i + (m - 1) - 1 = j - 1 /\ i + Len(q) - 1 = Len(t)
        /\ Len(q) \in Nat /\ m - 1 \in Nat /\ m - 1 <= Len(t) - i + 1 /\ m \in Nat \ {0}
        /\ i + 1 - 1 = i /\ 1 \in Nat \ {0} /\ 1 <= m - 1 + 1 /\ m <= Len(q) + 1
        /\ Len(q) <= Len(t) - i + 1 /\ i + m - 1 = j
    BY <1>1, <1>7
  <1> HIDE DEF j
  <1>9. SubSeq(q, 1, m - 1) = SubSeq(t, i, j - 1)
    <2>1. SubSeq(q, 1, m - 1) = SubSeq(t, i + 1 - 1, i + (m - 1) - 1)
      BY <1>8, PartOfRest, Zenon DEF q
    <2> QED
      BY <1>8, <2>1, Zenon
  <1>10. SubSeq(q, m, Len(q)) = SubSeq(t, j, Len(t))
    <2>1. SubSeq(q, m, Len(q)) = SubSeq(t, i + m - 1, i + Len(q) - 1)
      BY <1>8, PartOfRest, Zenon DEF q
    <2> QED
      BY <1>8, <2>1, Zenon
  <1>11. \A k \in i .. j - 1 : t[k] < base
    <2> SUFFICES ASSUME NEW k \in i .. j - 1 PROVE t[k] < base
      OBVIOUS
    <2>1. k - i + 1 \in 1 .. m - 1 /\ k - i + 1 \in 1 .. Len(q) /\ i + (k - i + 1) - 1 = k
      BY <1>1, <1>7, <1>8
    <2>2. q[k - i + 1] < base /\ q[k - i + 1] = t[i + (k - i + 1) - 1]
      BY <1>1, <1>4, <2>1, Zenon DEF DigitsEnd
    <2> QED
      BY <2>1, <2>2, Zenon
  <1>12. NumberAt(t, i, j, base, max)
    BY <1>6, <1>8, <1>9, <1>11, Zenon DEF NumberAt
  <1> QED
    BY <1>6, <1>9, <1>10, <1>12, Zenon

\* parse_ulong_field succeeds only with a number in range that ends as it should.
LEMMA FieldOk ==
  ASSUME NEW p, NEW base, NEW max, NEW delimiter,
         parse_ulong_field(p, base, max, delimiter).ok
  PROVE  LET n == strtoul(p, base)
         IN  n.valid /\ n.value <= max /\ FieldEnds(n.end, delimiter)
  <1> DEFINE n == strtoul(p, base)
             good == n.valid /\ n.value <= max /\ FieldEnds(n.end, delimiter)
  <1>1. ~good => parse_ulong_field(p, base, max, delimiter)
                   = [ok |-> FALSE, value |-> 0, rest |-> <<>>]
    BY Zenon DEF parse_ulong_field
  <1> HIDE DEF good
  <1>2. good
    BY <1>1
  <1> QED
    BY <1>2 DEF good

\* A field that parse_ulong_field accepts is a number followed by its delimiter.
LEMMA FieldSound ==
  ASSUME NEW t \in Seq(Nat), Plain(t), NEW i \in 1 .. Len(t) + 1, NEW base \in Base,
         NEW max, NEW d, parse_ulong_field(SubSeq(t, i, Len(t)), base, max, <<d>>).ok
  PROVE  \E j \in i + 1 .. Len(t) : NumberAt(t, i, j, base, max) /\ t[j] = d
  <1> DEFINE n == strtoul(SubSeq(t, i, Len(t)), base)
  <1>1. n.valid /\ n.value <= max /\ FieldEnds(n.end, <<d>>)
    BY FieldOk
  <1>2. n = strtoul(SubSeq(t, i, Len(t)), base)
    OBVIOUS
  <1> HIDE DEF n
  <1>3. PICK j : NumberAt(t, i, j, base, max) /\ n.end = SubSeq(t, j, Len(t))
    <2>1. n.valid /\ n.value <= max
      BY <1>1
    <2> QED
      BY <1>2, <2>1, NumberSound, SMTT(20)
  <1>4. <<d>> # <<>> /\ <<d>>[1] = d
    OBVIOUS
  <1>5. n.end # <<>> /\ Head(n.end) = d
    BY <1>1, <1>4, Zenon DEF FieldEnds
  <1>6. j \in i + 1 .. Len(t) + 1
    BY <1>3, Zenon DEF NumberAt
  <1>7. j # Len(t) + 1
    <2>1. SubSeq(t, Len(t) + 1, Len(t)) = <<>>
      OBVIOUS
    <2> QED
      BY <1>3, <1>5, <2>1, Zenon
  <1>8. j \in 1 .. Len(t) /\ j \in i + 1 .. Len(t) /\ Len(t) \in j .. Len(t)
    BY <1>6, <1>7
  <1>9. Head(SubSeq(t, j, Len(t))) = t[j]
    BY <1>8, HeadTailOfSubSeq
  <1> QED
    BY <1>3, <1>5, <1>8, <1>9, Zenon

\* The last field that parse_ulong_field accepts is a number up to the end.
LEMMA LastFieldSound ==
  ASSUME NEW t \in Seq(Nat), Plain(t), NEW i \in 1 .. Len(t) + 1,
         NEW max, parse_ulong_field(SubSeq(t, i, Len(t)), 10, max, <<>>).ok
  PROVE  NumberAt(t, i, Len(t) + 1, 10, max)
  <1> DEFINE n == strtoul(SubSeq(t, i, Len(t)), 10)
  <1>1. n.valid /\ n.value <= max /\ FieldEnds(n.end, <<>>)
    BY FieldOk
  <1>2. n.end = <<>>
    BY <1>1, Zenon DEF FieldEnds
  <1>3. n = strtoul(SubSeq(t, i, Len(t)), 10)
    OBVIOUS
  <1> HIDE DEF n
  <1>4. 10 \in Base
    BY DEF Base
  <1>5. PICK j : NumberAt(t, i, j, 10, max) /\ n.end = SubSeq(t, j, Len(t))
    BY <1>3, <1>1, <1>4, NumberSound, SMTT(30)
  <1>6. j \in i + 1 .. Len(t) + 1
    BY <1>5, Zenon DEF NumberAt
  <1>7. ~ j \in i + 1 .. Len(t)
    <2> SUFFICES ASSUME j \in i + 1 .. Len(t) PROVE FALSE
      OBVIOUS
    <2>1. Len(SubSeq(t, j, Len(t))) = Len(t) - j + 1 /\ Len(t) - j + 1 # 0 /\ Len(<<>>) = 0
      OBVIOUS
    <2> QED
      BY <1>2, <1>5, <2>1, Zenon
  <1>8. j = Len(t) + 1
    BY <1>6, <1>7
  <1> QED
    BY <1>5, <1>8, Zenon

\* parse_ulong_field accepts no empty text.
LEMMA EmptyField ==
  ASSUME NEW base \in Base, NEW max, NEW delimiter
  PROVE  ~ parse_ulong_field(<<>>, base, max, delimiter).ok
  <1> SUFFICES ASSUME parse_ulong_field(<<>>, base, max, delimiter).ok PROVE FALSE
    OBVIOUS
  <1>1. strtoul(<<>>, base).valid
    BY FieldOk
  <1>2. <<>> \in Seq(Nat) /\ \A k \in 1 .. Len(<<>>) : <<>>[k] \notin {Blank, Minus}
    OBVIOUS
  <1>3. PICK j : DigitsEnd(<<>>, base, j)
    BY <1>1, <1>2, StrtoulPlain, Zenon
  <1> QED
    BY <1>3 DEF DigitsEnd

\* The target between places a, b and c of a text.
TargetAt(t, a, b, c) ==
  [bus  |-> Value(SubSeq(t, 1, a - 1), 16),
   dev  |-> Value(SubSeq(t, a + 1, b - 1), 16),
   func |-> Value(SubSeq(t, b + 1, c - 1), 16),
   nsid |-> Value(SubSeq(t, c + 1, Len(t)), 10)]

\* A text has the documented form, with delimiters at a, b and c.
FormAt(t, a, b, c) ==
  /\ a \in 1 .. Len(t) /\ b \in 1 .. Len(t) /\ c \in 1 .. Len(t)
  /\ t[a] = Colon /\ t[b] = Dot /\ t[c] = Comma
  /\ NumberAt(t, 1, a, 16, UINT16_MAX) /\ NumberAt(t, a + 1, b, 16, 31)
  /\ NumberAt(t, b + 1, c, 16, 7) /\ NumberAt(t, c + 1, Len(t) + 1, 10, UINT16_MAX)

\* A part of a text is a number exactly if a number stands there.
LEMMA NumberParts ==
  ASSUME NEW t \in Seq(Nat), NEW i \in 1 .. Len(t) + 1, NEW j \in i .. Len(t) + 1,
         NEW base, NEW max
  PROVE  IsNumber(SubSeq(t, i, j - 1), base, max) <=> NumberAt(t, i, j, base, max)
  <1> DEFINE s == SubSeq(t, i, j - 1)
  <1>1. s \in Seq(Nat) /\ Len(s) = j - i /\ \A k \in 1 .. j - i : s[k] = t[i + k - 1]
    OBVIOUS
  <1> HIDE DEF s
  <1>2. i \in Nat /\ j \in Nat /\ Len(s) = j - i
    BY <1>1
  <1>3. s # <<>> <=> j \in i + 1 .. Len(t) + 1
    <2>1. s # <<>> <=> Len(s) # 0
      BY <1>1
    <2> QED
      BY <1>1, <2>1
  <1>4. (\A k \in 1 .. Len(s) : s[k] < base) <=> (\A k \in i .. j - 1 : t[k] < base)
    <2>1. ASSUME \A k \in 1 .. Len(s) : s[k] < base, NEW k \in i .. j - 1
          PROVE  t[k] < base
      <3>1. k - i + 1 \in 1 .. Len(s) /\ k - i + 1 \in 1 .. j - i /\ i + (k - i + 1) - 1 = k
        BY <1>2
      <3> QED
        <4>1. s[k - i + 1] < base
          BY <2>1, <3>1, Zenon
        <4>2. s[k - i + 1] = t[i + (k - i + 1) - 1]
          BY <1>1, <3>1, Zenon
        <4> QED
          BY <3>1, <4>1, <4>2, Zenon
    <2>2. ASSUME \A k \in i .. j - 1 : t[k] < base, NEW k \in 1 .. Len(s)
          PROVE  s[k] < base
      <3>1. i + k - 1 \in i .. j - 1 /\ k \in 1 .. j - i
        BY <1>2
      <3> QED
        <4>1. s[k] = t[i + k - 1]
          BY <1>1, <3>1, Zenon
        <4> QED
          BY <2>2, <3>1, <4>1, Zenon
    <2> QED
      BY <2>1, <2>2, Zenon
  <1> QED
    BY <1>3, <1>4, Zenon DEF IsNumber, NumberAt, s

\* parse_target finds the four fields of a text of the documented form.
LEMMA ParseReads ==
  ASSUME NEW t \in Seq(Nat), NEW a, NEW b, NEW c, FormAt(t, a, b, c)
  PROVE  parse_target(t) = IF TargetAt(t, a, b, c).nsid # 0 THEN TargetAt(t, a, b, c)
                           ELSE NoTarget
  <1> DEFINE dmax == 31
             fmax == 7
             bus  == parse_ulong_field(t, BusBase, UINT16_MAX, <<Colon>>)
             dev  == parse_ulong_field(bus.rest, BusBase, dmax, <<Dot>>)
             func == parse_ulong_field(dev.rest, BusBase, fmax, <<Comma>>)
             nsid == parse_ulong_field(func.rest, 10, UINT16_MAX, <<>>)
  <1>1. a \in 1 .. Len(t) /\ b \in 1 .. Len(t) /\ c \in 1 .. Len(t)
    BY Zenon DEF FormAt
  <1>2. a + 1 \in 1 .. Len(t) + 1 /\ b + 1 \in 1 .. Len(t) + 1 /\ c + 1 \in 1 .. Len(t) + 1
        /\ 1 \in 1 .. Len(t) + 1
    BY <1>1
  <1>3. Colon \in Delimiter /\ Dot \in Delimiter /\ Comma \in Delimiter
    BY Zenon DEF Delimiter
  <1>4. BusBase \in Base /\ dmax \in Nat /\ fmax \in Nat /\ dmax < UlongSpan /\ fmax < UlongSpan
    BY Limits DEF Base, BusBase
  <1>5. SubSeq(t, 1, Len(t)) = t
    OBVIOUS
  <1>6. /\ t[a] = Colon /\ t[b] = Dot /\ t[c] = Comma
        /\ NumberAt(t, 1, a, BusBase, UINT16_MAX) /\ NumberAt(t, a + 1, b, BusBase, dmax)
        /\ NumberAt(t, b + 1, c, BusBase, fmax)
    BY Zenon DEF FormAt, BusBase
  <1> HIDE DEF dmax, fmax
  <1>7. bus = [ok |-> TRUE, value |-> Value(SubSeq(t, 1, a - 1), BusBase),
               rest |-> SubSeq(t, a + 1, Len(t))]
    <2>1. parse_ulong_field(SubSeq(t, 1, Len(t)), BusBase, UINT16_MAX, <<Colon>>) =
            [ok |-> TRUE, value |-> Value(SubSeq(t, 1, a - 1), BusBase),
             rest |-> SubSeq(t, a + 1, Len(t))]
      <3>1. a \in 1 .. Len(t) /\ 1 \in 1 .. Len(t) + 1 /\ BusBase \in Base
            /\ UINT16_MAX \in Nat /\ UINT16_MAX < UlongSpan /\ Colon \in Delimiter
            /\ t[a] = Colon /\ NumberAt(t, 1, a, BusBase, UINT16_MAX)
        BY <1>1, <1>2, <1>3, <1>4, <1>6, Limits, Zenon
      <3> QED
        BY <3>1, FieldRead, Zenon
    <2> QED
      BY <1>5, <2>1, Zenon
  <1> HIDE DEF bus
  <1>8. bus.value = Value(SubSeq(t, 1, a - 1), BusBase) /\ bus.rest = SubSeq(t, a + 1, Len(t))
    BY <1>7, Zenon
  <1>9. dev = [ok |-> TRUE, value |-> Value(SubSeq(t, a + 1, b - 1), BusBase),
               rest |-> SubSeq(t, b + 1, Len(t))]
    <2>1. a + 1 \in 1 .. Len(t) + 1 /\ b \in 1 .. Len(t) /\ BusBase \in Base
          /\ dmax \in Nat /\ dmax < UlongSpan /\ Dot \in Delimiter
          /\ t[b] = Dot /\ NumberAt(t, a + 1, b, BusBase, dmax)
      BY <1>1, <1>2, <1>3, <1>4, <1>6, Zenon
    <2>2. parse_ulong_field(SubSeq(t, a + 1, Len(t)), BusBase, dmax, <<Dot>>) =
            [ok |-> TRUE, value |-> Value(SubSeq(t, a + 1, b - 1), BusBase),
             rest |-> SubSeq(t, b + 1, Len(t))]
      BY <2>1, FieldRead, Zenon
    <2> QED
      BY <1>8, <2>2, Zenon
  <1> HIDE DEF dev
  <1>10. dev.value = Value(SubSeq(t, a + 1, b - 1), BusBase)
        /\ dev.rest = SubSeq(t, b + 1, Len(t))
    BY <1>9, Zenon
  <1>11. func = [ok |-> TRUE, value |-> Value(SubSeq(t, b + 1, c - 1), BusBase),
                 rest |-> SubSeq(t, c + 1, Len(t))]
    <2>1. b + 1 \in 1 .. Len(t) + 1 /\ c \in 1 .. Len(t) /\ BusBase \in Base
          /\ fmax \in Nat /\ fmax < UlongSpan /\ Comma \in Delimiter
          /\ t[c] = Comma /\ NumberAt(t, b + 1, c, BusBase, fmax)
      BY <1>1, <1>2, <1>3, <1>4, <1>6, Zenon
    <2>2. parse_ulong_field(SubSeq(t, b + 1, Len(t)), BusBase, fmax, <<Comma>>) =
            [ok |-> TRUE, value |-> Value(SubSeq(t, b + 1, c - 1), BusBase),
             rest |-> SubSeq(t, c + 1, Len(t))]
      BY <2>1, FieldRead, Zenon
    <2> QED
      BY <1>10, <2>2, Zenon
  <1> HIDE DEF func
  <1>12. func.value = Value(SubSeq(t, b + 1, c - 1), BusBase)
         /\ func.rest = SubSeq(t, c + 1, Len(t))
    BY <1>11, Zenon
  <1>13. nsid = [ok |-> TRUE, value |-> Value(SubSeq(t, c + 1, Len(t)), 10), rest |-> <<>>]
    BY <1>2, <1>12, Limits, LastFieldRead, Zenon DEF FormAt
  <1> HIDE DEF nsid
  <1>14. nsid.ok /\ nsid.value = Value(SubSeq(t, c + 1, Len(t)), 10)
    BY <1>13
  <1>15. parse_target(t) =
           IF nsid.ok /\ nsid.value # 0
           THEN [bus |-> bus.value, dev |-> dev.value, func |-> func.value, nsid |-> nsid.value]
           ELSE NoTarget
    BY Zenon DEF parse_target, bus, dev, func, nsid, dmax, fmax
  <1>16. TargetAt(t, a, b, c).nsid = nsid.value
    <2>1. TargetAt(t, a, b, c).nsid = Value(SubSeq(t, c + 1, Len(t)), 10)
      BY DEF TargetAt
    <2> QED
      BY <1>14, <2>1, Zenon
  <1>17. TargetAt(t, a, b, c) =
           [bus |-> bus.value, dev |-> dev.value, func |-> func.value, nsid |-> nsid.value]
    BY <1>8, <1>10, <1>12, <1>14, Zenon DEF TargetAt, BusBase
  <1> QED
    BY <1>14, <1>15, <1>16, <1>17, Zenon

\* parse_ulong_field leaves nothing to read when it refuses a field.
LEMMA FieldFails ==
  ASSUME NEW p, NEW base, NEW max, NEW delimiter,
         ~ parse_ulong_field(p, base, max, delimiter).ok
  PROVE  parse_ulong_field(p, base, max, delimiter).rest = <<>>
  <1> DEFINE n == strtoul(p, base)
             good == n.valid /\ n.value <= max /\ FieldEnds(n.end, delimiter)
             value == n.value
             rest == IF delimiter = <<>> THEN <<>> ELSE Tail(n.end)
             field == parse_ulong_field(p, base, max, delimiter)
  <1>1. good => field = [ok |-> TRUE, value |-> value, rest |-> rest]
    BY Zenon DEF parse_ulong_field
  <1>2. ~good => field = [ok |-> FALSE, value |-> 0, rest |-> <<>>]
    BY Zenon DEF parse_ulong_field
  <1>3. ~field.ok
    OBVIOUS
  <1> HIDE DEF good, value, rest, field
  <1>4. field.rest = <<>>
    BY <1>1, <1>2, <1>3
  <1> QED
    BY <1>4 DEF field

\* field is what parse_ulong_field returns from place i on, and no failure ...
FieldFrom(t, i, base, max, d, field) ==
  /\ t \in Seq(Nat) /\ Plain(t) /\ i \in 1 .. Len(t) + 1
  /\ base \in Base /\ max \in Nat /\ max < UlongSpan /\ d \in Delimiter
  /\ field = parse_ulong_field(SubSeq(t, i, Len(t)), base, max, <<d>>) /\ field.ok

\* ... so that its digits end at j, where the delimiter is, and what is left to
\* read follows.
FieldUpTo(t, i, j, base, max, d, field) ==
  /\ j \in 1 .. Len(t) /\ j + 1 \in 1 .. Len(t) + 1 /\ t[j] = d
  /\ NumberAt(t, i, j, base, max) /\ field.rest = SubSeq(t, j + 1, Len(t))

\* A field that parse_ulong_field accepts has digits and its delimiter.
LEMMA FieldTaken ==
  ASSUME NEW t, NEW i, NEW base, NEW max, NEW d, NEW field,
         FieldFrom(t, i, base, max, d, field)
  PROVE  \E j : FieldUpTo(t, i, j, base, max, d, field)
  <1>1. /\ t \in Seq(Nat) /\ Plain(t) /\ i \in 1 .. Len(t) + 1
        /\ base \in Base /\ max \in Nat /\ max < UlongSpan /\ d \in Delimiter
        /\ field = parse_ulong_field(SubSeq(t, i, Len(t)), base, max, <<d>>)
    BY Zenon DEF FieldFrom
  <1>2. parse_ulong_field(SubSeq(t, i, Len(t)), base, max, <<d>>).ok
    BY Zenon DEF FieldFrom
  <1>3. PICK j \in i + 1 .. Len(t) : NumberAt(t, i, j, base, max) /\ t[j] = d
    BY <1>1, <1>2, FieldSound
  <1>4. j \in 1 .. Len(t) /\ j + 1 \in 1 .. Len(t) + 1
    BY <1>1
  <1> DEFINE v == Value(SubSeq(t, i, j - 1), base)
             e == SubSeq(t, j + 1, Len(t))
  <1>5. field = [ok |-> TRUE, value |-> v, rest |-> e]
    <2>1. j \in 1 .. Len(t)
      BY <1>4
    <2> QED
      BY <1>1, <1>3, <2>1, FieldRead, Zenon
  <1> HIDE DEF v, e
  <1>6. field.rest = e
    BY <1>5
  <1> QED
    BY <1>3, <1>4, <1>6, Zenon DEF e, FieldUpTo

\* A text without blanks and signs that parse_target accepts has the
\* documented form.
LEMMA FormFound ==
  ASSUME NEW t \in Seq(Nat), Plain(t), parse_target(t) # NoTarget
  PROVE  \E a, b, c : FormAt(t, a, b, c)
  <1> DEFINE dmax == 31
             fmax == 7
             nbase == 10
             bus  == parse_ulong_field(t, BusBase, UINT16_MAX, <<Colon>>)
             dev  == parse_ulong_field(bus.rest, BusBase, dmax, <<Dot>>)
             func == parse_ulong_field(dev.rest, BusBase, fmax, <<Comma>>)
             nsid == parse_ulong_field(func.rest, nbase, UINT16_MAX, <<>>)
  <1>1. nsid.ok
    BY Zenon DEF parse_target
  <1>2. BusBase \in Base /\ nbase \in Base
    BY DEF Base, BusBase
  <1>3. dmax \in Nat /\ fmax \in Nat /\ dmax < UlongSpan /\ fmax < UlongSpan
    BY Limits
  <1>4. UINT16_MAX \in Nat /\ UINT16_MAX < UlongSpan
    BY Limits, Zenon
  <1>5. Colon \in Delimiter /\ Dot \in Delimiter /\ Comma \in Delimiter
    BY Zenon DEF Delimiter
  <1> HIDE DEF nbase, dmax, fmax
  <1>6. func.ok
    <2> SUFFICES ASSUME ~ func.ok PROVE FALSE
      OBVIOUS
    <2>1. func.rest = <<>>
      BY FieldFails, Zenon
    <2> HIDE DEF func
    <2>2. ~ parse_ulong_field(<<>>, nbase, UINT16_MAX, <<>>).ok
      BY <1>2, EmptyField, Zenon
    <2> QED
      BY <1>1, <2>1, <2>2, Zenon
  <1> HIDE DEF nsid
  <1>7. dev.ok
    <2> SUFFICES ASSUME ~ dev.ok PROVE FALSE
      OBVIOUS
    <2>1. dev.rest = <<>>
      BY FieldFails, Zenon
    <2> HIDE DEF dev
    <2>2. ~ parse_ulong_field(<<>>, BusBase, fmax, <<Comma>>).ok
      BY <1>2, EmptyField, Zenon
    <2> QED
      BY <1>6, <2>1, <2>2, Zenon
  <1> HIDE DEF func
  <1>8. bus.ok
    <2> SUFFICES ASSUME ~ bus.ok PROVE FALSE
      OBVIOUS
    <2>1. bus.rest = <<>>
      BY FieldFails, Zenon
    <2> HIDE DEF bus
    <2>2. ~ parse_ulong_field(<<>>, BusBase, dmax, <<Dot>>).ok
      BY <1>2, EmptyField, Zenon
    <2> QED
      BY <1>7, <2>1, <2>2, Zenon
  <1> HIDE DEF dev
  <1>9. SubSeq(t, 1, Len(t)) = t /\ 1 \in 1 .. Len(t) + 1
    OBVIOUS
  <1>10. PICK a : FieldUpTo(t, 1, a, BusBase, UINT16_MAX, Colon, bus)
    <2>1. FieldFrom(t, 1, BusBase, UINT16_MAX, Colon, bus)
      BY <1>2, <1>4, <1>5, <1>8, <1>9, Zenon DEF FieldFrom
    <2> QED
      BY <2>1, FieldTaken, Zenon
  <1> HIDE DEF bus
  <1>11. PICK b : FieldUpTo(t, a + 1, b, BusBase, dmax, Dot, dev)
    <2>1. FieldFrom(t, a + 1, BusBase, dmax, Dot, dev)
      BY <1>2, <1>3, <1>5, <1>7, <1>10, Zenon DEF FieldFrom, FieldUpTo, dev
    <2> QED
      BY <2>1, FieldTaken, Zenon
  <1>12. PICK c : FieldUpTo(t, b + 1, c, BusBase, fmax, Comma, func)
    <2>1. FieldFrom(t, b + 1, BusBase, fmax, Comma, func)
      BY <1>2, <1>3, <1>5, <1>6, <1>11, Zenon DEF FieldFrom, FieldUpTo, func
    <2> QED
      BY <2>1, FieldTaken, Zenon
  <1>13. NumberAt(t, c + 1, Len(t) + 1, nbase, UINT16_MAX)
    <2>1. parse_ulong_field(SubSeq(t, c + 1, Len(t)), nbase, UINT16_MAX, <<>>).ok
      BY <1>1, <1>12, Zenon DEF nsid, FieldUpTo
    <2> QED
      BY <1>12, <2>1, LastFieldSound, Zenon DEF nbase, FieldUpTo
  <1> QED
    BY <1>10, <1>11, <1>12, <1>13, Zenon
       DEF FormAt, FieldUpTo, BusBase, nbase, dmax, fmax

\* The places at which a text can be cut are those of its documented form.
LEMMA CutForm ==
  ASSUME NEW t \in Seq(Nat),
         NEW a \in 1 .. Len(t), NEW b \in 1 .. Len(t), NEW c \in 1 .. Len(t)
  PROVE  FormAt(t, a, b, c) <=>
           /\ a < b /\ b < c
           /\ t[a] = Colon /\ t[b] = Dot /\ t[c] = Comma
           /\ IsNumber(SubSeq(t, 1, a - 1), 16, UINT16_MAX)
           /\ IsNumber(SubSeq(t, a + 1, b - 1), 16, 31)
           /\ IsNumber(SubSeq(t, b + 1, c - 1), 16, 7)
           /\ IsNumber(SubSeq(t, c + 1, Len(t)), 10, UINT16_MAX)
  <1> DEFINE dmax == 31
             fmax == 7
             nbase == 10
             n == Len(t) + 1
  <1>1. ASSUME NEW base, NEW max, NEW i \in 1 .. n, NEW j \in i .. n
        PROVE  NumberAt(t, i, j, base, max) <=> IsNumber(SubSeq(t, i, j - 1), base, max)
    BY NumberParts, Zenon
  <1>2. ASSUME NEW base, NEW max, NEW i \in 1 .. Len(t), NEW j \in 1 .. Len(t),
               NumberAt(t, i + 1, j, base, max)
        PROVE  i < j
    <2>1. j \in i + 1 + 1 .. Len(t) + 1
      BY <1>2, Zenon DEF NumberAt
    <2> QED
      BY <2>1
  <1>3. 1 \in 1 .. n /\ a \in 1 .. n /\ c + 1 \in 1 .. n /\ n \in c + 1 .. n /\ n - 1 = Len(t)
    OBVIOUS
  <1>4. a + 1 \in 1 .. n /\ b + 1 \in 1 .. n /\ (a < b => b \in a + 1 .. n)
        /\ (b < c => c \in b + 1 .. n)
    OBVIOUS
  <1> HIDE DEF n
  <1>5. IsNumber(SubSeq(t, 1, a - 1), BusBase, UINT16_MAX)
        <=> NumberAt(t, 1, a, BusBase, UINT16_MAX)
    BY <1>1, <1>3, Zenon
  <1>6. IsNumber(SubSeq(t, c + 1, Len(t)), nbase, UINT16_MAX)
        <=> NumberAt(t, c + 1, n, nbase, UINT16_MAX)
    <2> HIDE DEF nbase
    <2>1. IsNumber(SubSeq(t, c + 1, n - 1), nbase, UINT16_MAX)
          <=> NumberAt(t, c + 1, n, nbase, UINT16_MAX)
      BY <1>1, <1>3, Zenon
    <2> QED
      BY <1>3, <2>1, Zenon
  <1>7. a < b /\ IsNumber(SubSeq(t, a + 1, b - 1), BusBase, dmax)
        <=> NumberAt(t, a + 1, b, BusBase, dmax)
    <2> HIDE DEF dmax
    <2>1. a < b => (NumberAt(t, a + 1, b, BusBase, dmax)
                    <=> IsNumber(SubSeq(t, a + 1, b - 1), BusBase, dmax))
      BY <1>1, <1>4, Zenon
    <2> QED
      BY <1>2, <2>1, Zenon
  <1>8. b < c /\ IsNumber(SubSeq(t, b + 1, c - 1), BusBase, fmax)
        <=> NumberAt(t, b + 1, c, BusBase, fmax)
    <2> HIDE DEF fmax
    <2>1. b < c => (NumberAt(t, b + 1, c, BusBase, fmax)
                    <=> IsNumber(SubSeq(t, b + 1, c - 1), BusBase, fmax))
      BY <1>1, <1>4, Zenon
    <2> QED
      BY <1>2, <2>1, Zenon
  <1> HIDE DEF nbase, dmax, fmax
  <1>9. FormAt(t, a, b, c) <=>
          /\ t[a] = Colon /\ t[b] = Dot /\ t[c] = Comma
          /\ NumberAt(t, 1, a, BusBase, UINT16_MAX) /\ NumberAt(t, a + 1, b, BusBase, dmax)
          /\ NumberAt(t, b + 1, c, BusBase, fmax) /\ NumberAt(t, c + 1, n, nbase, UINT16_MAX)
    BY Zenon DEF FormAt, BusBase, dmax, fmax, nbase, n
  <1>10. FormAt(t, a, b, c) <=>
           /\ a < b /\ b < c
           /\ t[a] = Colon /\ t[b] = Dot /\ t[c] = Comma
           /\ IsNumber(SubSeq(t, 1, a - 1), BusBase, UINT16_MAX)
           /\ IsNumber(SubSeq(t, a + 1, b - 1), BusBase, dmax)
           /\ IsNumber(SubSeq(t, b + 1, c - 1), BusBase, fmax)
           /\ IsNumber(SubSeq(t, c + 1, Len(t)), nbase, UINT16_MAX)
    BY <1>5, <1>6, <1>7, <1>8, <1>9, Zenon
  <1> QED
    BY <1>10, Zenon DEF BusBase, dmax, fmax, nbase

\* The targets a text denotes, by the places of its delimiters.
LEMMA DenotedForms ==
  ASSUME NEW t \in Seq(Nat), NEW target
  PROVE  target \in Denoted(t) <=>
           \E a, b, c : FormAt(t, a, b, c) /\ target = TargetAt(t, a, b, c)
  <1>1. ASSUME target \in Denoted(t)
        PROVE  \E a, b, c : FormAt(t, a, b, c) /\ target = TargetAt(t, a, b, c)
    <2>1. PICK x \in Cuts(t) : target = TargetAt(t, x[1], x[2], x[3])
      BY <1>1, Zenon DEF Denoted, TargetAt
    <2>2. x[1] \in 1 .. Len(t) /\ x[2] \in 1 .. Len(t) /\ x[3] \in 1 .. Len(t)
      BY <2>1 DEF Cuts
    <2>3. FormAt(t, x[1], x[2], x[3])
      BY <2>1, <2>2, CutForm, Zenon DEF Cuts
    <2> QED
      BY <2>1, <2>3, Zenon
  <1>2. ASSUME NEW a, NEW b, NEW c, FormAt(t, a, b, c), target = TargetAt(t, a, b, c)
        PROVE  target \in Denoted(t)
    <2> DEFINE x == <<a, b, c>>
    <2>1. a \in 1 .. Len(t) /\ b \in 1 .. Len(t) /\ c \in 1 .. Len(t)
      BY <1>2, Zenon DEF FormAt
    <2>2. x[1] = a /\ x[2] = b /\ x[3] = c
          /\ x \in (1 .. Len(t)) \X (1 .. Len(t)) \X (1 .. Len(t))
      BY <2>1
    <2> HIDE DEF x
    <2>3. x \in Cuts(t)
      BY <1>2, <2>1, <2>2, CutForm, Zenon DEF Cuts
    <2> QED
      BY <1>2, <2>2, <2>3, Zenon DEF Denoted, TargetAt
  <1> QED
    BY <1>1, <1>2, Zenon

\* What parse_target returns, for any text.
LEMMA ParseSound ==
  ASSUME NEW t \in Seq(Nat)
  PROVE  /\ \A target \in Denoted(t) : target.nsid # 0 => parse_target(t) = target
         /\ Plain(t) => parse_target(t) \in Denoted(t) \cup {NoTarget}
  <1>1. ASSUME NEW target \in Denoted(t), target.nsid # 0 PROVE parse_target(t) = target
    <2>1. PICK a, b, c : FormAt(t, a, b, c) /\ target = TargetAt(t, a, b, c)
      BY DenotedForms, Zenon
    <2> QED
      BY <1>1, <2>1, ParseReads, Zenon
  <1>2. ASSUME Plain(t), parse_target(t) # NoTarget PROVE parse_target(t) \in Denoted(t)
    <2>1. PICK a, b, c : FormAt(t, a, b, c)
      BY <1>2, FormFound, Zenon
    <2>2. parse_target(t) = TargetAt(t, a, b, c)
      BY <1>2, <2>1, ParseReads, Zenon
    <2> QED
      BY <2>1, <2>2, DenotedForms, Zenon
  <1> QED
    BY <1>1, <1>2, Zenon

-----------------------------------------------------------------------------
(* Startup *)

\* Composed with parse_target, controller_init, controller_deinit and the
\* device take no other steps than on their own: what holds of Controller
\* holds of the start-up of a job.
THEOREM StartupIsController == StartupSpec => Spec
  <1>1. StartupInit => Init
    BY Zenon DEF StartupInit
  <1>2. [StartupNext]_startupVars => [Next]_vars
    <2>1. UNCHANGED startupVars => UNCHANGED vars
      BY DEF startupVars
    <2>2. StartupNext => Next \/ UNCHANGED vars
      BY <2>1, Zenon DEF StartupNext, ParseFailed, ControllerCall, CrashStep, DeviceStep, Next
    <2> QED
      BY <2>1, <2>2, Zenon
  <1> QED
    BY <1>1, <1>2, PTL DEF StartupSpec, Spec

\* The text, what was made of it, and the functions behind the mapping and the
\* descriptor, as far as the calls have come.
StartupInv ==
  /\ filename \in Filename /\ parsed \in BOOLEAN
  /\ bar0_virt \in BOOLEAN /\ dma_fd_opened \in BOOLEAN
  /\ parsed => ctrl = parse_target(filename)
  /\ ~parsed => ctrl = NoTarget /\ pc = "down"
  /\ pc # "down" => bar0_virt
  /\ bar0_virt => bar0 \in Named(ctrl.bus % 256)
  /\ dma_fd_opened => dma_fd \in Named(ctrl.bus)
  /\ ~dma_fd_opened => dma_fd = None

\* What a step of controller_init or controller_deinit does to the mapping and
\* the descriptor, unless it ends with both given up.
HostKept ==
  /\ bar0_virt' \in BOOLEAN /\ dma_fd_opened' \in BOOLEAN
  /\ pc' # "down" => /\ bar0_virt' = TRUE
                     /\ dma_fd_opened' \in {TRUE, dma_fd_opened}
                     /\ bar0_virt' # bar0_virt => dma_fd_opened' = dma_fd_opened

\* Until a call fails or the controller is stopped, the mapping and the
\* descriptor are only acquired, the mapping first.
LEMMA CallKeepsHost ==
  ASSUME bar0_virt \in BOOLEAN, dma_fd_opened \in BOOLEAN, pc # "down" => bar0_virt,
         InitMap \/ CallStep \/ Deinit
  PROVE  HostKept
  <1> USE DEF HostKept, hostVars, Goto
  <1>1. CASE InitMap
    BY <1>1, Zenon DEF InitMap
  <1>2. CASE InitCap
    BY <1>2, Zenon DEF InitCap
  <1>3. CASE InitAllocSq
    BY <1>3, Zenon DEF InitAllocSq, Release, ReleaseDma
  <1>4. CASE InitAllocCq
    BY <1>4, Zenon DEF InitAllocCq, Release, ReleaseDma
  <1>5. CASE InitReadCc
    BY <1>5, Zenon DEF InitReadCc, Release, ReleaseDma
  <1>6. CASE InitWaitOff
    BY <1>6, Zenon DEF InitWaitOff, wait_ready, Release, ReleaseDma
  <1>7. CASE InitProgram \/ InitEnable \/ Deinit
    BY <1>7, Zenon DEF InitProgram, InitEnable, Deinit
  <1>8. CASE InitWaitOn
    BY <1>8, Zenon DEF InitWaitOn, wait_ready, Release, ReleaseDma
  <1>9. CASE DeinitWait
    BY <1>9, Zenon DEF DeinitWait, wait_ready, Release, ReleaseDma
  <1> QED
    BY <1>1, <1>2, <1>3, <1>4, <1>5, <1>6, <1>7, <1>8, <1>9, Zenon DEF CallStep

\* Before nvme_setup nothing is parsed, mapped or open.
LEMMA InitStartupInv == StartupInit => StartupInv
  BY Zenon DEF StartupInit, Init, TargetInit, StartupInv

\* Giving up the controller_data forgets the functions with the target.
LEMMA ForgetStartupInv ==
  ASSUME StartupInv, Forget, pc' = "down", ~bar0_virt', ~dma_fd_opened',
         bar0_virt' \in BOOLEAN, dma_fd_opened' \in BOOLEAN
  PROVE  StartupInv'
  BY Zenon DEF StartupInv, Forget

\* Every step keeps the invariant.
LEMMA NextStartupInv ==
  StartupInv /\ Progress /\ Progress' /\ [StartupNext]_startupVars => StartupInv'
  <1> SUFFICES ASSUME StartupInv, Progress, Progress', [StartupNext]_startupVars
               PROVE  StartupInv'
    OBVIOUS
  <1>1. ASSUME UNCHANGED <<pc, bar0_virt, dma_fd_opened>>, UNCHANGED targetVars
        PROVE  StartupInv'
    <2>1. /\ pc' = pc /\ bar0_virt' = bar0_virt /\ dma_fd_opened' = dma_fd_opened
          /\ filename' = filename /\ parsed' = parsed /\ ctrl' = ctrl
          /\ bar0' = bar0 /\ dma_fd' = dma_fd
      BY <1>1 DEF targetVars
    <2> QED
      BY <2>1, Zenon DEF StartupInv, Named
  <1>2. UNCHANGED vars => UNCHANGED <<pc, bar0_virt, dma_fd_opened>>
    BY DEF vars, hostVars
  <1>3. CASE Parse /\ UNCHANGED vars
    <2>1. ~parsed /\ pc = "down" /\ ~bar0_virt /\ ~dma_fd_opened
      BY <1>3, Zenon DEF Parse, StartupInv, Progress, DownMeansReleased
    <2>2. /\ pc' = pc /\ bar0_virt' = bar0_virt /\ dma_fd_opened' = dma_fd_opened
          /\ filename' = filename /\ parsed' = TRUE /\ ctrl' = parse_target(filename)
          /\ bar0' = bar0 /\ dma_fd' = dma_fd
      BY <1>3 DEF Parse, vars, hostVars
    <2> QED
      BY <2>1, <2>2, Zenon DEF StartupInv
  <1>4. CASE UNCHANGED startupVars
    BY <1>1, <1>2, <1>4, Zenon DEF startupVars
  <1>5. CASE ControllerCall
    <2>1. parsed /\ HostKept
      BY <1>5, CallKeepsHost, Zenon DEF ControllerCall, StartupInv
    <2>2. CASE pc' = "down"
      <3>1. ~bar0_virt' /\ ~dma_fd_opened' /\ Forget
        BY <1>5, <2>2, Zenon DEF ControllerCall, BehindController, Progress, DownMeansReleased
      <3>2. bar0_virt' \in BOOLEAN /\ dma_fd_opened' \in BOOLEAN
        BY <2>1, Zenon DEF HostKept
      <3> QED
        BY <2>2, <3>1, <3>2, ForgetStartupInv, Zenon
    <2>3. CASE pc' # "down" /\ bar0_virt' # bar0_virt
      <3>1. MapBar0 /\ dma_fd_opened' = dma_fd_opened /\ bar0_virt' = TRUE
        BY <1>5, <2>1, <2>3, Zenon DEF ControllerCall, BehindController, HostKept
      <3> QED
        BY <2>1, <3>1, Zenon DEF MapBar0, StartupInv, Named
    <2>4. CASE pc' # "down" /\ bar0_virt' = bar0_virt /\ dma_fd_opened' # dma_fd_opened
      <3>1. OpenDma /\ dma_fd_opened' = TRUE /\ bar0_virt' = TRUE
        BY <1>5, <2>1, <2>4, Zenon DEF ControllerCall, BehindController, HostKept
      <3> QED
        BY <2>1, <2>4, <3>1, Zenon DEF OpenDma, DmaBus, StartupInv, Named
    <2>5. CASE pc' # "down" /\ bar0_virt' = bar0_virt /\ dma_fd_opened' = dma_fd_opened
      <3>1. UNCHANGED targetVars /\ bar0_virt' = TRUE
        BY <1>5, <2>1, <2>5, Zenon DEF ControllerCall, BehindController, HostKept
      <3>2. /\ filename' = filename /\ parsed' = parsed /\ ctrl' = ctrl
            /\ bar0' = bar0 /\ dma_fd' = dma_fd
        BY <3>1 DEF targetVars
      <3>3. parsed /\ parsed' /\ bar0_virt /\ bar0_virt'
        <4>1. bar0_virt = TRUE /\ bar0_virt' = TRUE
          BY <2>5, <3>1, Zenon
        <4>2. parsed /\ parsed'
          BY <2>1, <3>2, Zenon
        <4> QED
          BY <4>1, <4>2, Zenon
      <3>4. bar0' \in Named(ctrl.bus % 256)' /\ (dma_fd_opened' => dma_fd' \in Named(ctrl.bus)')
        BY <2>5, <3>2, <3>3, Zenon DEF StartupInv, Named
      <3> QED
        BY <2>5, <3>2, <3>3, <3>4, Zenon DEF StartupInv
    <2> QED
      BY <2>2, <2>3, <2>4, <2>5, Zenon
  <1>6. CASE CrashStep
    <2>1. pc' = "down" /\ ~bar0_virt' /\ ~dma_fd_opened' /\ Forget
      BY <1>6, Zenon DEF CrashStep, Crash, Release, ReleaseDma, BehindController
    <2>2. bar0_virt' \in BOOLEAN /\ dma_fd_opened' \in BOOLEAN
      BY <1>6, Zenon DEF CrashStep, Crash, Release, ReleaseDma
    <2> QED
      BY <2>1, <2>2, ForgetStartupInv, Zenon
  <1>7. CASE DeviceStep
    <2>1. UNCHANGED <<pc, bar0_virt, dma_fd_opened>>
      BY <1>7 DEF DeviceStep, DevOn, DevOff, DevGone, hostVars
    <2> QED
      BY <1>1, <1>7, <2>1, Zenon DEF DeviceStep
  <1>8. CASE AllDone /\ UNCHANGED targetVars
    BY <1>1, <1>2, <1>8, Zenon DEF AllDone
  <1> QED
    BY <1>3, <1>4, <1>5, <1>6, <1>7, <1>8, Zenon DEF StartupNext, ParseFailed

\* Both invariants hold throughout the start-up of a job.
LEMMA StartupInvariant == StartupSpec => []StartupInv
  <1>1. IInv => Progress
    BY Zenon DEF IInv
  <1>2. Spec => []Progress
    BY <1>1, InitIInv, NextIInv, PTL DEF Spec
  <1> QED
    BY <1>2, InitStartupInv, NextStartupInv, StartupIsController, PTL DEF StartupSpec

\* parse_target reads every text of the documented form as what it denotes,
\* and accepts no other one without blanks and signs, whatever its length and
\* the range of an unsigned long.
THEOREM DocumentedFormIsRead == StartupSpec => []ReadsDocumentedForm
  <1>1. StartupInv => ReadsDocumentedForm
    <2> SUFFICES ASSUME StartupInv, parsed PROVE
            /\ \A t \in Denoted(filename) : t.nsid # 0 => ctrl = t
            /\ Plain(filename) => ctrl \in Denoted(filename) \cup {NoTarget}
      BY Zenon DEF ReadsDocumentedForm, Plain
    <2>1. filename \in Seq(Nat) /\ ctrl = parse_target(filename)
      BY FilenameAssumption, Zenon DEF StartupInv
    <2> QED
      BY <2>1, ParseSound, Zenon
  <1> QED
    BY <1>1, StartupInvariant, PTL

\* The registers and the DMA memory of a controller belong to the one function
\* that the text names: the low byte that controller_init takes of the bus
\* number never leads to another one.
THEOREM NamedFunctionIsDriven == StartupSpec => []DrivesNamedFunction
  <1>1. StartupInv /\ Progress => DrivesNamedFunction
    <2> SUFFICES ASSUME StartupInv, Progress, dma_fd # None
                 PROVE  bar0 = dma_fd /\ dma_fd \in Named(ctrl.bus)
      BY Zenon DEF DrivesNamedFunction
    <2>1. dma_fd \in Named(ctrl.bus) /\ bar0 \in Named(ctrl.bus % 256)
      BY Zenon DEF StartupInv, Progress, DownMeansReleased
    <2>2. dma_fd \in Function /\ bar0 \in Function
      BY <2>1, Zenon DEF Named
    <2>3. /\ dma_fd.bus = ctrl.bus /\ bar0.bus = ctrl.bus % 256
          /\ dma_fd.dev = bar0.dev /\ dma_fd.func = bar0.func
      BY <2>1, Zenon DEF Named
    <2>4. ctrl.bus \in 0 .. 255
      BY <2>2, <2>3, FunctionAssumption
    <2>5. ctrl.bus % 256 = ctrl.bus
      BY <2>4
    <2>6. bar0 = dma_fd
      BY <2>2, <2>3, <2>5, FunctionAssumption
    <2> QED
      BY <2>1, <2>6
  <1>2. IInv => Progress
    BY Zenon DEF IInv
  <1>3. Spec => []Progress
    BY <1>2, InitIInv, NextIInv, PTL DEF Spec
  <1> QED
    BY <1>1, <1>3, StartupInvariant, StartupIsController, PTL

-----------------------------------------------------------------------------
(* DataPointer *)

\* Quotient and remainder.
LEMMA DivMod ==
  ASSUME NEW P \in Nat \ {0}, NEW a \in Nat
  PROVE  /\ a \div P \in Nat /\ a % P \in 0 .. P - 1 /\ P * (a \div P) \in Nat
         /\ a = P * (a \div P) + (a % P)
  <1> DEFINE q == a \div P
             m == a % P
  <1>1. m \in 0 .. P - 1
    OBVIOUS
  <1>2. q \in Int
    OBVIOUS
  <1>3. m = a - P * q
    OBVIOUS
  <1> HIDE DEF q, m
  <1>4. P * q \in Int
    BY <1>2
  <1>5. a = P * q + m
    BY <1>1, <1>3, <1>4
  <1>6. q \in Nat
    BY <1>1, <1>2, <1>5
  <1>7. P * q \in Nat
    BY <1>6
  <1> QED
    BY <1>1, <1>5, <1>6, <1>7 DEF q, m

\* Quotient and remainder are determined by the sum they make up.
LEMMA DivUnique ==
  ASSUME NEW P \in Nat \ {0}, NEW a \in Nat, NEW q \in Nat, NEW m \in 0 .. P - 1,
         a = P * q + m
  PROVE  a \div P = q /\ a % P = m
  OBVIOUS

\* Multiplication by a page size keeps the order.
LEMMA Times ==
  ASSUME NEW P \in Nat, NEW x \in Int, NEW y \in Int, x <= y
  PROVE  P * x \in Int /\ P * y \in Int /\ P * x <= P * y
  OBVIOUS

\* Words that fit in a page change that page only.
LEMMA WordsStayInPage ==
  ASSUME NEW s \in Slots, NEW n \in Nat, n <= ListEntries, NEW word,
         DOMAIN word = 0 .. n - 1
  PROVE  /\ \A e \in 0 .. n - 1 : WriteWords(s, word)[s][e] = word[e]
         /\ \A p \in Slots \ {s} : \A e \in Entries :
              WriteWords(s, word)[p][e] = prp_list[p][e]
  <1>1. ListEntries \in Nat \ {0} /\ Depth \in Nat
    BY SizesAssumption
  <1>2. \A e \in 0 .. n - 1 : e \in Entries /\ (s - s) * ListEntries + e = e
    BY <1>1 DEF Slots, Entries
  <1>3. \A p \in Slots \ {s} : \A e \in Entries :
          (p - s) * ListEntries + e \notin 0 .. n - 1
    <2> SUFFICES ASSUME NEW p \in Slots \ {s}, NEW e \in Entries
                 PROVE  (p - s) * ListEntries + e \notin 0 .. n - 1
      OBVIOUS
    <2>1. p \in Int /\ s \in Int /\ e \in Nat /\ e < ListEntries
      BY <1>1 DEF Slots, Entries
    <2>2. CASE p > s
      <3>1. ListEntries * 1 <= ListEntries * (p - s) /\ ListEntries * (p - s) \in Int
        BY <1>1, <2>1, <2>2, Times
      <3> QED
        BY <1>1, <2>1, <3>1
    <2>3. CASE p < s
      <3>1. ListEntries * (p - s) <= ListEntries * (-1) /\ ListEntries * (p - s) \in Int
        BY <1>1, <2>1, <2>3, Times
      <3> QED
        BY <1>1, <2>1, <3>1
    <2> QED
      BY <2>1, <2>2, <2>3
  <1> QED
    BY <1>2, <1>3 DEF WriteWords

-----------------------------------------------------------------------------

\* The pages of a buffer that does not start at the beginning of a page.
LEMMA AlignUp ==
  ASSUME NEW a \in Nat, nvme_page_offset(a) # 0
  PROVE  nvme_page_align_up(a) = a - nvme_page_offset(a) + PageSize
  <1> DEFINE P == PageSize
             q == a \div P
             m == a % P
  <1>1. P \in Nat \ {0}
    BY SizesAssumption
  <1>2. q \in Nat /\ m \in 0 .. P - 1 /\ a = P * q + m /\ P * q \in Nat
    BY <1>1, DivMod, Zenon
  <1>3. q \in Nat /\ m \in 1 .. P - 1 /\ a = P * q + m /\ P * q \in Nat
    BY <1>2 DEF nvme_page_offset
  <1> HIDE DEF P, q, m
  <1>4. P * (q + 1) = P * q + P
    BY <1>1, <1>3
  <1>5. a + P - 1 \in Nat /\ a + P - 1 = P * (q + 1) + (m - 1) /\ m - 1 \in 0 .. P - 1
    BY <1>1, <1>3, <1>4
  <1>6. q + 1 \in Nat
    BY <1>3
  <1>7. (a + P - 1) \div P = q + 1
    <2> DEFINE t == q + 1
               b == a + P - 1
    <2> HIDE DEF t, b
    <2>1. b \in Nat /\ t \in Nat /\ b = P * t + (m - 1) /\ m - 1 \in 0 .. P - 1
      BY <1>5, <1>6 DEF t, b
    <2>2. b \div P = t
      BY <1>1, <2>1, DivUnique, Zenon
    <2> QED
      BY <2>2 DEF t, b
  <1>8. (q + 1) * P = P * q + P
    BY <1>1, <1>3
  <1>9. nvme_page_align_up(a) = P * q + P
    BY <1>7, <1>8 DEF nvme_page_align_up, P
  <1>10. nvme_page_offset(a) = m
    BY DEF nvme_page_offset, m, P
  <1> QED
    BY <1>1, <1>3, <1>9, <1>10 DEF P

\* A command of slot s as submit_rw_command builds it for r, and its list.
Describes(c, s, r) ==
  /\ c.prp1 = r.dma_addr /\ c.length = r.blocks - 1
  /\ PageCount(r) = 2 => c.prp2 = nvme_page_align_up(r.dma_addr)
  /\ PageCount(r) > 2 =>
       c.prp2 = s /\ \A k \in 0 .. PageCount(r) - 2 : prp_list[s][k] = ListEntry(r, k)

\* Numbers of a read or write.
LEMMA Sizes ==
  ASSUME NEW r \in ReadWrite
  PROVE  /\ TransferSize(r) \in Nat \ {0}
         /\ nvme_page_offset(r.dma_addr) \in 0 .. PageSize - 1
         /\ PageCount(r) \in Nat \ {0}
         /\ \A at \in Nat : at < nvme_page_offset(r.dma_addr) + TransferSize(r) =>
              at \div PageSize <= PageCount(r) - 1
  <1> DEFINE off == nvme_page_offset(r.dma_addr)
             size == TransferSize(r)
             n == PageCount(r)
  <1>1. PageSize \in Nat \ {0} /\ BlockSize \in Nat \ {0}
    BY SizesAssumption
  <1>2. r.dma_addr \in Nat /\ r.blocks \in Nat \ {0}
    BY DEF ReadWrite
  <1>3. size \in Nat \ {0}
    BY <1>1, <1>2 DEF TransferSize
  <1>4. off \in 0 .. PageSize - 1
    BY <1>1, <1>2 DEF nvme_page_offset
  <1>5. n = (off + size + PageSize - 1) \div PageSize
    BY Zenon DEF PageCount
  <1> HIDE DEF off, size, n
  <1> DEFINE b == off + size + PageSize - 1
  <1>6. b \in Nat /\ b >= PageSize /\ n = b \div PageSize
    BY <1>1, <1>3, <1>4, <1>5
  <1> HIDE DEF b
  <1>7. n \in Nat /\ b % PageSize \in 0 .. PageSize - 1 /\ PageSize * n \in Nat
        /\ b = PageSize * n + (b % PageSize)
    BY <1>1, <1>6, DivMod, Zenon
  <1>8. n # 0
    BY <1>1, <1>6, <1>7
  <1>9. PageSize * n >= off + size
    BY <1>1, <1>3, <1>4, <1>7 DEF b
  <1>10. ASSUME NEW at \in Nat, at < off + size
         PROVE  at \div PageSize <= n - 1
    <2> DEFINE q == at \div PageSize
    <2>1. q \in Nat /\ PageSize * q \in Nat /\ PageSize * q <= at
      <3>1. q \in Nat /\ PageSize * q \in Nat /\ at % PageSize \in 0 .. PageSize - 1
            /\ at = PageSize * q + (at % PageSize)
        BY <1>1, DivMod, Zenon
      <3> HIDE DEF q
      <3> QED
        BY <1>1, <3>1
    <2> HIDE DEF q
    <2>2. PageSize * q < PageSize * n
      BY <1>3, <1>4, <1>7, <1>9, <1>10, <2>1
    <2>3. ~ n <= q
      BY <1>1, <1>7, <2>1, <2>2, Times
    <2>4. q <= n - 1
      BY <1>7, <2>1, <2>3
    <2> QED
      BY <2>4 DEF q
  <1> QED
    BY <1>3, <1>4, <1>7, <1>8, <1>10 DEF off, size, n


\* A command that describes its request (PRP1 alone, PRP1 and PRP2, or PRP1 and a
\* list) moves the buffer of the request, unit by unit and in order.
LEMMA DescribedMovesBuffer ==
  ASSUME NEW r \in ReadWrite, Fits(r), NEW c, NEW s, Describes(c, s, r)
  PROVE  /\ MovedUnits(c) = TransferSize(r)
         /\ \A k \in 0 .. MovedUnits(c) - 1 : AddressOf(c, k) = r.dma_addr + k
  <1> DEFINE off == nvme_page_offset(r.dma_addr)
             size == TransferSize(r)
             n == PageCount(r)
             a == r.dma_addr
  <1>1. PageSize \in Nat \ {0} /\ BlockSize \in Nat \ {0} /\ ListEntries \in Nat \ {0}
    BY SizesAssumption
  <1>2. a \in Nat /\ r.blocks \in Nat \ {0} /\ r.op = "rw"
    BY DEF ReadWrite
  <1>3. size \in Nat \ {0} /\ off \in 0 .. PageSize - 1 /\ n \in Nat \ {0}
    BY Sizes, Zenon
  <1>4. MovedUnits(c) = size
    BY <1>2 DEF Describes, MovedUnits, TransferSize
  <1>5. ASSUME NEW k \in 0 .. size - 1 PROVE AddressOf(c, k) = a + k
    <2> DEFINE at == off + k
               q == at \div PageSize
               m == at % PageSize
    <2>1. c.prp1 = a /\ c.prp1 % PageSize = off
      BY Zenon DEF Describes, nvme_page_offset
    <2>2. AddressOf(c, k) = IF at < PageSize THEN a + k ELSE PageOfPart(c, q) + m
      BY <2>1, Zenon DEF AddressOf
    <2>3. ((c.prp1 % PageSize) + MovedUnits(c) + PageSize - 1) \div PageSize = n
      BY <2>1, <1>4, Zenon DEF PageCount
    <2>4. PageOfPart(c, q) =
            CASE n = 2 -> c.prp2
              [] n > 2 /\ (n - 1 <= ListEntries \/ q < ListEntries) -> prp_list[c.prp2][q - 1]
              [] OTHER -> Unknown
      BY <2>3, Zenon DEF PageOfPart
    <2>5. CASE at < PageSize
      BY <2>2, <2>5
    <2>6. CASE ~ at < PageSize
      <3>1. at \in Nat /\ at >= PageSize /\ at < off + size
        BY <1>1, <1>3, <2>6
      <3>2. q \in Nat /\ m \in 0 .. PageSize - 1 /\ PageSize * q \in Nat
            /\ at = PageSize * q + m
        BY <3>1, <1>1, DivMod, Zenon
      <3>3. q <= n - 1
        BY <3>1, Sizes, Zenon
      <3>4. AddressOf(c, k) = PageOfPart(c, q) + m
        BY <2>2, <2>6, Zenon
      <3> HIDE DEF at, q, m, off, size, n, a
      <3>5. q # 0
        BY <3>1, <3>2, <1>1
      <3>6. q >= 1 /\ n >= 2
        BY <3>2, <3>3, <3>5, <1>3
      <3>7. off # 0 /\ n - 1 <= ListEntries
        BY <3>6, <1>2, <1>3 DEF Fits, off, n, a
      <3>8. nvme_page_align_up(a) = a - off + PageSize
        BY <3>7, <1>2, AlignUp DEF off, a
      <3>9. CASE n = 2
        <4>1. q = 1
          BY <3>9, <3>2, <3>3, <3>6
        <4>2. PageOfPart(c, q) = a - off + PageSize
          BY <3>8, <3>9, <2>4 DEF Describes, n, a
        <4>3. at = PageSize + m
          BY <4>1, <3>2, <1>1
        <4> QED
          BY <4>2, <4>3, <3>2, <3>4, <1>1, <1>2, <1>3 DEF at
      <3>10. CASE n > 2
        <4>1. PageOfPart(c, q) = prp_list[c.prp2][q - 1]
          BY <3>7, <3>10, <2>4
        <4>2. q - 1 \in 0 .. n - 2
          BY <3>2, <3>3, <3>6, <1>3, SMTT(30)
        <4>3. PageOfPart(c, q) = ListEntry(r, q - 1)
          BY <4>1, <4>2, <3>10 DEF Describes, n
        <4>4. (q - 1) * PageSize = PageSize * q - PageSize
          BY <3>2, <1>1
        <4>5. ListEntry(r, q - 1) = a - off + PageSize * q
          BY <4>4, <3>8, <3>2, <1>1, <1>2, <1>3 DEF ListEntry, a
        <4> QED
          BY <4>3, <4>5, <3>2, <3>4, <1>1, <1>2, <1>3 DEF at
      <3> QED
        BY <3>6, <3>9, <3>10, <1>3
    <2> QED
      BY <2>5, <2>6
  <1> QED
    BY <1>4, <1>5


-----------------------------------------------------------------------------

\* A dataset management command of slot s for r, and its range table.
DescribesRanges(c, s, r) ==
  /\ c.prp1 = s /\ c.nr = Len(r.ranges) - 1
  /\ \A k \in 0 .. 2 * Len(r.ranges) - 1 : prp_list[s][k] = RangeWord(r, k)

\* What is outstanding in slot s still reads as it was built.
SlotServed(s) ==
  \/ cmd[s] = NoCommand
  \/ /\ cmd[s].request \in Requests \cap ReadWrite
     /\ cmd[s].op = "rw" /\ Describes(cmd[s], s, cmd[s].request)
  \/ /\ cmd[s].request \in Requests \cap Trim
     /\ cmd[s].op = "trim" /\ DescribesRanges(cmd[s], s, cmd[s].request)

\* Every command in the ring serves the request it was made for, also after the
\* slots around it were used again.
PointerInv ==
  /\ io_sq_tail \in Slots /\ DOMAIN cmd = Slots
  /\ \A s \in Slots : SlotServed(s)

\* The list or the table of a request that fits lies within one page.
LEMMA FitsInPage ==
  ASSUME NEW r \in Requests, Fits(r)
  PROVE  /\ r.op = "rw" => r \in ReadWrite /\ PageCount(r) \in Nat \ {0}
                           /\ (PageCount(r) > 2 => PageCount(r) - 1 \in 1 .. ListEntries)
         /\ r.op = "trim" => r \in Trim /\ Len(r.ranges) \in Nat \ {0}
                             /\ 2 * Len(r.ranges) \in 1 .. ListEntries
  <1>1. r \in ReadWrite \/ r \in Trim
    BY RequestsAssumption
  <1>2. ListEntries \in Nat
    BY SizesAssumption
  <1>3. ASSUME r \in ReadWrite
        PROVE  r.op = "rw" /\ PageCount(r) \in Nat \ {0}
               /\ (PageCount(r) > 2 => PageCount(r) - 1 \in 1 .. ListEntries)
    <2>1. r.op = "rw"
      BY <1>3 DEF ReadWrite
    <2>2. PageCount(r) \in Nat \ {0}
      BY <1>3, Sizes, Zenon
    <2>3. PageCount(r) = 1 \/ PageCount(r) - 1 <= ListEntries
      BY <2>1, Zenon DEF Fits
    <2> QED
      BY <2>1, <2>2, <2>3, <1>2
  <1>4. ASSUME r \in Trim
        PROVE  r.op = "trim" /\ Len(r.ranges) \in Nat \ {0}
               /\ 2 * Len(r.ranges) \in 1 .. ListEntries
    <2>1. r.op = "trim" /\ Len(r.ranges) \in Nat
      BY <1>4 DEF Trim
    <2> QED
      BY <2>1, <1>2 DEF Fits
  <1> QED
    BY <1>1, <1>3, <1>4

\* A slot whose command and page are left alone is served as before.
LEMMA SlotKeeps ==
  ASSUME \A r \in Requests : Fits(r), NEW s \in Slots, SlotServed(s), cmd'[s] = cmd[s],
         \A e \in Entries : prp_list'[s][e] = prp_list[s][e]
  PROVE  SlotServed(s)'
  <1> DEFINE c == cmd[s]
             r == cmd[s].request
  <1>1. CASE c = NoCommand
    BY <1>1, Zenon DEF SlotServed
  <1>2. CASE r \in Requests \cap ReadWrite /\ c.op = "rw" /\ Describes(c, s, r)
    <2>1. r.op = "rw"
      BY <1>2 DEF ReadWrite
    <2>2. PageCount(r) \in Nat /\ (PageCount(r) > 2 => PageCount(r) - 1 \in 1 .. ListEntries)
      BY <1>2, <2>1, FitsInPage, Zenon
    <2>3. PageCount(r) > 2 => \A k \in 0 .. PageCount(r) - 2 : k \in Entries
      BY <2>2, SizesAssumption DEF Entries
    <2>4. Describes(c, s, r)'
      BY <1>2, <2>3, Zenon DEF Describes, PageCount, ListEntry
    <2> QED
      BY <1>2, <2>4, Zenon DEF SlotServed
  <1>3. CASE r \in Requests \cap Trim /\ c.op = "trim" /\ DescribesRanges(c, s, r)
    <2>1. r.op = "trim"
      BY <1>3 DEF Trim
    <2>2. 2 * Len(r.ranges) \in 1 .. ListEntries /\ Len(r.ranges) \in Nat
      BY <1>3, <2>1, FitsInPage, Zenon
    <2>3. \A k \in 0 .. 2 * Len(r.ranges) - 1 : k \in Entries
      BY <2>2, SizesAssumption DEF Entries
    <2>4. DescribesRanges(c, s, r)'
      BY <1>3, <2>3, Zenon DEF DescribesRanges
    <2> QED
      BY <1>3, <2>4, Zenon DEF SlotServed
  <1> QED
    BY <1>1, <1>2, <1>3, Zenon DEF SlotServed


\* Filling a slot: the tail moves on, and the other slots are served as before if
\* their pages are left alone.
LEMMA RingKeeps ==
  ASSUME \A r \in Requests : Fits(r), PointerInv, NEW c, Ring(c),
         NEW t \in Slots, t = io_sq_tail,
         \A p \in Slots \ {t} : \A e \in Entries :
           prp_list'[p][e] = prp_list[p][e],
         cmd'[t] = c => SlotServed(t)'
  PROVE  PointerInv'
  <1>1. DOMAIN cmd = Slots /\ cmd' = [cmd EXCEPT ![t] = c]
    BY DEF PointerInv, Ring
  <1>2. DOMAIN cmd' = Slots /\ cmd'[t] = c
        /\ \A p \in Slots \ {t} : cmd'[p] = cmd[p]
    BY <1>1
  <1>3. io_sq_tail' \in Slots
    BY <1>1, SizesAssumption DEF Ring, Slots
  <1>4. \A p \in Slots \ {t} : SlotServed(p)'
    <2> SUFFICES ASSUME NEW p \in Slots \ {t} PROVE SlotServed(p)'
      OBVIOUS
    <2>1. SlotServed(p) /\ cmd'[p] = cmd[p]
      BY <1>2, Zenon DEF PointerInv
    <2> QED
      BY <2>1, SlotKeeps, Zenon
  <1>5. \A p \in Slots : SlotServed(p)'
    BY <1>1, <1>2, <1>4, Zenon
  <1> QED
    BY <1>2, <1>3, <1>5, Zenon DEF PointerInv, Slots

\* submit_rw_command leaves a command that describes its buffer.
LEMMA SubmitPointerInv ==
  ASSUME \A r \in Requests : Fits(r), PointerInv,
         NEW r \in Requests, submit_rw_command(r)
  PROVE  PointerInv'
  <1>1. PICK s \in Slots : s = io_sq_tail
    BY DEF PointerInv
  <1> DEFINE c == ReadWriteCommand(r)
             n == PageCount(r)
             word == [k \in 0 .. n - 2 |-> ListEntry(r, k)]
  <1>2. Ring(c) /\ r.op = "rw"
    BY Zenon DEF submit_rw_command
  <1>3. r \in ReadWrite /\ n \in Nat \ {0} /\ (n > 2 => n - 1 \in 1 .. ListEntries)
    BY <1>2, FitsInPage, Zenon
  <1>4. prp_list' = IF n > 2 THEN WriteWords(s, word) ELSE prp_list
    BY <1>1, Zenon DEF submit_rw_command, ListPage
  <1>5. n > 2 => /\ \A k \in 0 .. n - 2 : WriteWords(s, word)[s][k] = ListEntry(r, k)
                 /\ \A p \in Slots \ {s} : \A e \in Entries :
                      WriteWords(s, word)[p][e] = prp_list[p][e]
    <2> SUFFICES ASSUME n > 2
                 PROVE  /\ \A k \in 0 .. n - 2 : WriteWords(s, word)[s][k] = ListEntry(r, k)
                        /\ \A p \in Slots \ {s} : \A e \in Entries :
                             WriteWords(s, word)[p][e] = prp_list[p][e]
      OBVIOUS
    <2> DEFINE m == n - 1
    <2>1. m \in Nat /\ m <= ListEntries /\ m - 1 = n - 2
      BY <1>3, SizesAssumption
    <2>2. DOMAIN word = 0 .. m - 1 /\ \A k \in 0 .. m - 1 : word[k] = ListEntry(r, k)
      BY <2>1, SMTT(30)
    <2> HIDE DEF m, word
    <2>3. /\ \A k \in 0 .. m - 1 : WriteWords(s, word)[s][k] = word[k]
          /\ \A p \in Slots \ {s} : \A e \in Entries :
               WriteWords(s, word)[p][e] = prp_list[p][e]
      BY <2>1, <2>2, WordsStayInPage
    <2>4. \A k \in 0 .. m - 1 : WriteWords(s, word)[s][k] = ListEntry(r, k)
      BY <2>2, <2>3, Zenon
    <2> QED
      BY <2>1, <2>3, <2>4, ZenonT(40)
  <1> HIDE DEF word
  <1>6. \A p \in Slots \ {s} : \A e \in Entries : prp_list'[p][e] = prp_list[p][e]
    BY <1>4, <1>5, Zenon
  <1>7. ASSUME cmd'[s] = c PROVE SlotServed(s)'
    <2>1. c.op = "rw" /\ c.request = r /\ c.prp1 = r.dma_addr /\ c.length = r.blocks - 1
      BY DEF ReadWriteCommand
    <2>2. (n = 2 => c.prp2 = nvme_page_align_up(r.dma_addr)) /\ (n > 2 => c.prp2 = s)
      BY <1>1, <1>3 DEF ReadWriteCommand, ListPage
    <2>3. n > 2 => \A k \in 0 .. n - 2 : prp_list'[s][k] = ListEntry(r, k)
      BY <1>4, <1>5, Zenon
    <2> HIDE DEF c
    <2>4. Describes(cmd[s], s, cmd[s].request)'
      BY <1>7, <2>1, <2>2, <2>3, Zenon DEF Describes, PageCount, ListEntry
    <2> QED
      BY <1>3, <1>7, <2>1, <2>4, Zenon DEF SlotServed
  <1> QED
    BY <1>1, <1>2, <1>6, <1>7, RingKeeps, Zenon

\* nvme_trim and nvme_multi_range_trim leave a command that names its ranges.
LEMMA TrimPointerInv ==
  ASSUME \A r \in Requests : Fits(r), PointerInv,
         NEW r \in Requests, nvme_multi_range_trim(r)
  PROVE  PointerInv'
  <1>1. PICK s \in Slots : s = io_sq_tail
    BY DEF PointerInv
  <1> DEFINE c == [op |-> "trim", request |-> r, prp1 |-> s, nr |-> Len(r.ranges) - 1]
             n == 2 * Len(r.ranges)
             word == [k \in 0 .. n - 1 |-> RangeWord(r, k)]
  <1>2. Ring(c) /\ r.op = "trim" /\ prp_list' = WriteWords(s, word)
    BY <1>1, Zenon DEF nvme_multi_range_trim, ListPage
  <1>3. r \in Trim /\ Len(r.ranges) \in Nat \ {0} /\ n \in 1 .. ListEntries
    BY <1>2, FitsInPage, Zenon
  <1>4. n \in Nat /\ n <= ListEntries /\ DOMAIN word = 0 .. n - 1
        /\ \A k \in 0 .. n - 1 : word[k] = RangeWord(r, k)
    BY <1>3, SizesAssumption
  <1>5. c.op = "trim" /\ c.request = r /\ c.prp1 = s /\ c.nr = Len(r.ranges) - 1
    OBVIOUS
  <1> HIDE DEF word, c, n
  <1>6. /\ \A k \in 0 .. n - 1 : prp_list'[s][k] = word[k]
        /\ \A p \in Slots \ {s} : \A e \in Entries : prp_list'[p][e] = prp_list[p][e]
    BY <1>2, <1>4, WordsStayInPage
  <1>7. ASSUME cmd'[s] = c PROVE SlotServed(s)'
    <2>1. \A k \in 0 .. n - 1 : prp_list'[s][k] = RangeWord(r, k)
      BY <1>4, <1>6, Zenon
    <2>2. DescribesRanges(cmd[s], s, cmd[s].request)'
      BY <1>5, <1>7, <2>1, Zenon DEF DescribesRanges, n
    <2> QED
      BY <1>3, <1>5, <1>7, <2>2, Zenon DEF SlotServed
  <1> QED
    BY <1>1, <1>2, <1>6, <1>7, RingKeeps, Zenon

\* Every step of the engine and of the controller keeps the invariant.
LEMMA NextPointerInv ==
  ASSUME \A r \in Requests : Fits(r), PointerInv, [PointerNext]_pointerVars
  PROVE  PointerInv'
  <1>1. ASSUME NEW r \in Requests, submit_rw_command(r) \/ nvme_multi_range_trim(r)
        PROVE  PointerInv'
    BY <1>1, SubmitPointerInv, TrimPointerInv, Zenon
  <1>2. ASSUME NEW s \in Slots, CtlComplete(s) PROVE PointerInv'
    <2>1. DOMAIN cmd = Slots /\ cmd' = [cmd EXCEPT ![s] = NoCommand]
      BY <1>2, Zenon DEF CtlComplete, PointerInv
    <2>2. DOMAIN cmd' = Slots /\ cmd'[s] = NoCommand
          /\ \A p \in Slots \ {s} : cmd'[p] = cmd[p]
      BY <2>1
    <2>3. \A p \in Slots \ {s} : SlotServed(p)'
      BY <1>2, <2>2, SlotKeeps, Zenon DEF CtlComplete, PointerInv
    <2>4. SlotServed(s)'
      BY <2>2, Zenon DEF SlotServed
    <2> QED
      BY <1>2, <2>2, <2>3, <2>4, Zenon DEF CtlComplete, PointerInv, Slots
  <1>3. CASE UNCHANGED pointerVars
    BY <1>3, SlotKeeps, Zenon DEF pointerVars, PointerInv, Slots
  <1> QED
    BY <1>1, <1>2, <1>3, Zenon DEF PointerNext

\* Nothing is outstanding at the start.
LEMMA InitPointerInv == PointerInit => PointerInv
  BY SizesAssumption DEF PointerInit, PointerInv, SlotServed, Slots

\* The device moves exactly the buffer of every read and write that fits one
\* PRP list, whatever its alignment, its size, the page size and the other
\* commands in flight: nvme_set_data_pointer never leaves a page out, describes
\* one twice or points into the list of another slot.
THEOREM BuffersMoved ==
  ASSUME \A r \in Requests : Fits(r) PROVE PointerSpec => []TransfersBuffer
  <1>1. PointerInv => TransfersBuffer
    <2> SUFFICES ASSUME PointerInv, NEW s \in Slots, cmd[s].op = "rw"
                 PROVE  LET c == cmd[s]
                            r == c.request
                        IN  /\ MovedUnits(c) = TransferSize(r)
                            /\ \A k \in 0 .. MovedUnits(c) - 1 : AddressOf(c, k) = r.dma_addr + k
      BY Zenon DEF TransfersBuffer
    <2>1. cmd[s].op # "trim" /\ cmd[s] # NoCommand
      BY DEF NoCommand
    <2>2. /\ cmd[s].request \in Requests \cap ReadWrite
          /\ Describes(cmd[s], s, cmd[s].request)
      BY <2>1, Zenon DEF PointerInv, SlotServed
    <2> QED
      BY <2>2, DescribedMovesBuffer
  <1>2. [](\A r \in Requests : Fits(r))
    OBVIOUS
  <1> QED
    BY <1>1, <1>2, InitPointerInv, NextPointerInv, PTL DEF PointerSpec

\* The device discards exactly the ranges of every trim whose table fits the
\* page of its slot.
THEOREM RangesTrimmed ==
  ASSUME \A r \in Requests : Fits(r) PROVE PointerSpec => []TrimsRanges
  <1>1. PointerInv => TrimsRanges
    <2> SUFFICES ASSUME PointerInv, NEW s \in Slots, cmd[s].op = "trim"
                 PROVE  LET c == cmd[s]
                        IN  /\ c.nr + 1 = Len(c.request.ranges)
                            /\ \A i \in 0 .. c.nr :
                                 /\ prp_list[c.prp1][2 * i] = c.request.ranges[i + 1].length
                                 /\ prp_list[c.prp1][2 * i + 1] = c.request.ranges[i + 1].slba
      BY Zenon DEF TrimsRanges
    <2> DEFINE r == cmd[s].request
    <2>1. cmd[s].op # "rw" /\ cmd[s] # NoCommand
      BY DEF NoCommand
    <2>2. r \in Requests /\ r \in Trim /\ DescribesRanges(cmd[s], s, r)
      BY <2>1, Zenon DEF PointerInv, SlotServed
    <2>3. Len(r.ranges) \in Nat
      BY <2>2 DEF Trim
    <2>4. cmd[s].nr = Len(r.ranges) - 1 /\ cmd[s].prp1 = s
      BY <2>2, ZenonT(40) DEF DescribesRanges
    <2>5. ASSUME NEW i \in 0 .. Len(r.ranges) - 1
          PROVE  /\ prp_list[s][2 * i] = r.ranges[i + 1].length
                 /\ prp_list[s][2 * i + 1] = r.ranges[i + 1].slba
      <3>1. 2 * i \in 0 .. 2 * Len(r.ranges) - 1 /\ 2 * i + 1 \in 0 .. 2 * Len(r.ranges) - 1
        BY <2>3
      <3>2. prp_list[s][2 * i] = RangeWord(r, 2 * i)
            /\ prp_list[s][2 * i + 1] = RangeWord(r, 2 * i + 1)
        BY <2>2, <3>1, Zenon DEF DescribesRanges
      <3>3. (2 * i) % 2 = 0 /\ (2 * i) \div 2 = i /\ (2 * i + 1) % 2 = 1
            /\ (2 * i + 1) \div 2 = i
        OBVIOUS
      <3> QED
        BY <3>2, <3>3 DEF RangeWord
    <2> HIDE DEF r
    <2>6. cmd[s].nr + 1 = Len(r.ranges)
      BY <2>3, <2>4
    <2> QED
      BY <2>4, <2>5, <2>6, Zenon DEF r
  <1>2. [](\A r \in Requests : Fits(r))
    OBVIOUS
  <1> QED
    BY <1>1, <1>2, InitPointerInv, NextPointerInv, PTL DEF PointerSpec

=============================================================================
