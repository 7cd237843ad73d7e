---------------------------- MODULE GenpciProofs ----------------------------
(***************************************************************************)
(* For any number of threads and buffers: the driver counts the VMAs of    *)
(* every buffer exactly, its list holds the allocated buffers, and         *)
(* alloc_dma returns the address of the buffer it mapped as long as one    *)
(* thread at a time is between the mmap and the ioctl.  For any number of  *)
(* functions: genpci_probe, genpci_remove, genpci_init and genpci_exit     *)
(* leave all or nothing, and numbers and nodes belong to one function.     *)
(***************************************************************************)
EXTENDS MCGenpci, GenpciDevices, FiniteSetTheorems, SequenceTheorems,
        WellFoundedInduction, TLAPS

EntryType ==
  /\ entry \in [Entry -> [allocated : BOOLEAN, vma_refs : Nat, listed : BOOLEAN,
                          release_requested : BOOLEAN]]
  /\ mapped \subseteq Entry /\ child \subseteq Entry
  /\ pc = [t \in Thread |-> pc[t]] /\ cur = [t \in Thread |-> cur[t]]
  /\ blocks = [t \in Thread |-> blocks[t]]

\* The threads that are inside alloc_dma or free_dma.
Inside == {t \in Thread : pc[t] \in {"alloc", "free"}}

IsBlock(b) == {"virt", "dma"} \subseteq DOMAIN b

\* What a thread holds or works on is mapped; a thread that is gone holds
\* nothing.
HeldMapped ==
  \A t \in Thread :
    /\ \A b \in blocks[t] : IsBlock(b) /\ b.virt \in mapped
    /\ t \in Inside => IsBlock(cur[t]) /\ cur[t].virt \in mapped
    /\ pc[t] = "gone" => blocks[t] = {}

\* No mapping is in two hands: each is unmapped by free_dma at most once.
HeldOnce ==
  \A t, u \in Thread :
    /\ \A b \in blocks[t], c \in blocks[u] : b.virt = c.virt => t = u /\ b = c
    /\ t \in Inside => \A b \in blocks[u] : b.virt # cur[t].virt
    /\ t \in Inside /\ u \in Inside /\ t # u => cur[t].virt # cur[u].virt

IInv == EntryType /\ RefsCountVmas /\ HeldMapped /\ HeldOnce

\* The fields of an entry after dma_vma_close.
LEMMA Closed ==
  ASSUME EntryType, RefsCountVmas, NEW e \in mapped \cup child, dma_vma_close(e)
  PROVE  /\ entry' \in [Entry -> [allocated : BOOLEAN, vma_refs : Nat,
                                  listed : BOOLEAN, release_requested : BOOLEAN]]
         /\ \A x \in Entry : x # e => entry'[x] = entry[x]
         /\ entry'[e].vma_refs = entry[e].vma_refs - 1
         /\ entry'[e].allocated <=> entry[e].vma_refs # 1
  <1>1. e \in Entry /\ entry[e].allocated /\ entry[e].vma_refs \in Nat \ {0}
    BY DEF EntryType, RefsCountVmas, Occurs
  <1>2. CASE LastClose(e)
    <2>1. entry' = [entry EXCEPT ![e] = Unallocated]
      BY <1>2 DEF dma_vma_close
    <2> QED
      BY <1>1, <1>2, <2>1 DEF EntryType, Unallocated, LastClose
  <1>3. CASE ~LastClose(e)
    <2>1. entry' = [entry EXCEPT ![e].vma_refs = entry[e].vma_refs - 1]
      BY <1>3 DEF dma_vma_close
    <2>2. entry[e].vma_refs # 1 /\ entry[e].vma_refs - 1 \in Nat
      BY <1>1, <1>3 DEF LastClose
    <2> QED
      BY <1>1, <2>1, <2>2 DEF EntryType
  <1> QED
    BY <1>2, <1>3

\* Closing a VMA of the process, or of the child, keeps the counts exact.
LEMMA CloseCounts ==
  ASSUME EntryType, RefsCountVmas, NEW e \in mapped \cup child, dma_vma_close(e),
         \/ e \in mapped /\ mapped' = mapped \ {e} /\ child' = child
         \/ e \in child /\ child' = child \ {e} /\ mapped' = mapped
  PROVE  RefsCountVmas'
  <1> SUFFICES ASSUME NEW x \in Entry
               PROVE  /\ entry'[x].vma_refs = Occurs(x, mapped') + Occurs(x, child')
                      /\ entry'[x].allocated <=> x \in mapped' \cup child'
    BY DEF RefsCountVmas, Occurs
  <1>1. CASE x # e
    <2>1. entry'[x] = entry[x] /\ (x \in mapped' <=> x \in mapped)
            /\ (x \in child' <=> x \in child)
      BY <1>1, Closed
    <2> QED
      BY <2>1 DEF RefsCountVmas, Occurs
  <1>2. CASE x = e
    <2>1. entry[e].vma_refs = Occurs(e, mapped) + Occurs(e, child)
      BY <1>2 DEF RefsCountVmas
    <2> QED
      BY <1>2, <2>1, Closed DEF Occurs
  <1> QED
    BY <1>1, <1>2

\* At first nothing is allocated.
LEMMA InitIInv == Init => IInv
  <1> SUFFICES ASSUME Init PROVE IInv
    OBVIOUS
  <1>1. EntryType
    BY DEF Init, EntryType, Unallocated
  <1>2. RefsCountVmas
    BY DEF Init, RefsCountVmas, Unallocated, Occurs
  <1>3. HeldMapped /\ HeldOnce
    BY DEF Init, HeldMapped, HeldOnce, Inside
  <1> QED
    BY <1>1, <1>2, <1>3 DEF IInv

\* mmap_dma: a buffer that is not allocated is mapped by nobody.
LEMMA AllocMmapIInv ==
  ASSUME IInv, NEW t \in Thread, AllocMmap(t)
  PROVE  IInv'
  <1>1. PICK e \in Entry :
          /\ ~entry[e].allocated /\ entry' = [entry EXCEPT ![e] = NewEntry]
          /\ mapped' = mapped \cup {e}
          /\ pc' = [pc EXCEPT ![t] = "alloc"]
          /\ cur' = [cur EXCEPT ![t] = [virt |-> e, dma |-> e]]
    BY Zenon DEF AllocMmap, Goto
  <1>2. child' = child /\ blocks' = blocks /\ pc[t] = "idle"
    BY DEF AllocMmap
  <1>3. e \notin mapped /\ e \notin child
    BY <1>1 DEF IInv, RefsCountVmas
  <1>4. EntryType'
    BY <1>1, <1>2, Zenon DEF IInv, EntryType, NewEntry
  <1>5. RefsCountVmas'
    <2> SUFFICES ASSUME NEW x \in Entry
                 PROVE  /\ entry'[x].vma_refs = Occurs(x, mapped') + Occurs(x, child')
                        /\ entry'[x].allocated <=> x \in mapped' \cup child'
      BY DEF RefsCountVmas, Occurs
    <2>1. CASE x = e
      BY <2>1, <1>1, <1>2, <1>3 DEF IInv, EntryType, NewEntry, Occurs
    <2>2. CASE x # e
      <3>1. entry'[x] = entry[x] /\ (x \in mapped' <=> x \in mapped)
        BY <2>2, <1>1 DEF IInv, EntryType
      <3> QED
        BY <3>1, <1>2 DEF IInv, RefsCountVmas, Occurs
    <2> QED
      BY <2>1, <2>2
  <1>6. HeldMapped'
    BY <1>1, <1>2, Zenon DEF IInv, EntryType, HeldMapped, Inside, IsBlock
  <1>7. HeldOnce'
    <2>1. \A u \in Thread : /\ u # t => cur'[u] = cur[u] /\ (u \in Inside' <=> u \in Inside)
                            /\ t \notin Inside /\ cur'[t].virt = e
      BY <1>1, <1>2, Zenon DEF IInv, EntryType, Inside
    <2>2. \A u \in Thread : /\ \A b \in blocks[u] : b.virt # e
                            /\ u \in Inside => cur[u].virt # e
      BY <1>3 DEF IInv, HeldMapped
    <2>3. \A u, w \in Thread : \A b \in blocks'[u], c \in blocks'[w] :
            b.virt = c.virt => u = w /\ b = c
      BY <1>2 DEF IInv, HeldOnce
    <2>4. \A u, w \in Thread : u \in Inside' => \A b \in blocks'[w] : b.virt # cur'[u].virt
      BY <1>2, <2>1, <2>2 DEF IInv, HeldOnce
    <2>5. \A u, w \in Thread : u \in Inside' /\ w \in Inside' /\ u # w => cur'[u].virt # cur'[w].virt
      BY <2>1, <2>2, ZenonT(60) DEF IInv, HeldOnce
    <2> QED
      BY <2>3, <2>4, <2>5, Zenon DEF HeldOnce
  <1> QED
    BY <1>4, <1>5, <1>6, <1>7 DEF IInv

\* The ioctl turns what alloc_dma works on into a block of the thread.
LEMMA AllocInfoIInv ==
  ASSUME IInv, NEW t \in Thread, AllocInfo(t)
  PROVE  IInv'
  <1>1. PICK e : /\ blocks' = [blocks EXCEPT ![t] =
                                  blocks[t] \cup {[cur[t] EXCEPT !.dma = e]}]
    BY Zenon DEF AllocInfo
  <1>2. /\ pc[t] = "alloc" /\ pc' = [pc EXCEPT ![t] = "idle"]
        /\ cur' = [cur EXCEPT ![t] = NoBlock]
        /\ entry' = entry /\ mapped' = mapped /\ child' = child
    BY DEF AllocInfo, Goto
  <1>3. IsBlock([cur[t] EXCEPT !.dma = e])
          /\ [cur[t] EXCEPT !.dma = e].virt = cur[t].virt /\ cur[t].virt \in mapped
    <2>1. IsBlock(cur[t]) /\ cur[t].virt \in mapped
      BY <1>2 DEF IInv, HeldMapped, Inside
    <2> QED
      BY <2>1 DEF IsBlock
  <1>4. EntryType'
    BY <1>1, <1>2, Zenon DEF IInv, EntryType
  <1>5. RefsCountVmas'
    BY <1>2 DEF IInv, RefsCountVmas, Occurs
  <1>6. HeldMapped'
    BY <1>1, <1>2, <1>3, ZenonT(60) DEF IInv, EntryType, HeldMapped, Inside
  <1>7. HeldOnce'
    <2> DEFINE n == [cur[t] EXCEPT !.dma = e]
    <2>1. n.virt = cur[t].virt
      BY <1>3
    <2> HIDE DEF n
    <2>2. \A u \in Thread : \A b \in blocks'[u] :
            b \in blocks[u] \/ (u = t /\ b = n)
      BY <1>1 DEF IInv, EntryType, n
    <2>3. \A u \in Thread : (u \in Inside' <=> u \in Inside /\ u # t)
                             /\ (u # t => cur'[u] = cur[u])
      BY <1>2, Zenon DEF IInv, EntryType, Inside
    <2>4. \A u \in Thread : \A b \in blocks[u] : b.virt # n.virt
      BY <1>2, <2>1 DEF IInv, HeldOnce, Inside
    <2>5. \A u \in Thread : u \in Inside /\ u # t => cur[u].virt # n.virt
      BY <1>2, <2>1 DEF IInv, HeldOnce, Inside
    <2> QED
      BY <2>2, <2>3, <2>4, <2>5 DEF IInv, HeldOnce
  <1> QED
    BY <1>4, <1>5, <1>6, <1>7 DEF IInv

\* munmap in alloc_dma or free_dma: what the thread worked on is unmapped, and
\* nobody else held it.
LEMMA MunmapIInv ==
  ASSUME IInv, NEW t \in Thread, t \in Inside, dma_vma_close(cur[t].virt),
         mapped' = mapped \ {cur[t].virt}, child' = child, blocks' = blocks,
         Goto(t, "idle", NoBlock)
  PROVE  IInv'
  <1>1. cur[t].virt \in mapped
    BY DEF IInv, HeldMapped
  <1>2. RefsCountVmas'
    BY <1>1, CloseCounts DEF IInv
  <1>3. EntryType'
    BY <1>1, Closed, Zenon DEF IInv, EntryType, Goto
  <1>4. Inside' = Inside \ {t} /\ \A u \in Thread \ {t} : cur'[u] = cur[u]
    BY DEF IInv, EntryType, Goto, Inside
  <1> HIDE DEF Inside
  <1>5. \A u \in Thread : /\ \A b \in blocks[u] : b.virt # cur[t].virt
                          /\ u \in Inside /\ u # t => cur[u].virt # cur[t].virt
    BY DEF IInv, HeldOnce
  <1>6. HeldMapped'
    <2>1. \A u \in Thread : pc'[u] = "gone" => blocks'[u] = {}
      BY DEF IInv, EntryType, Goto, HeldMapped
    <2>2. \A u \in Inside' : IsBlock(cur'[u]) /\ cur'[u].virt \in mapped'
      BY <1>4, <1>5 DEF IInv, HeldMapped, Inside, IsBlock
    <2>3. \A u \in Thread : \A b \in blocks'[u] : IsBlock(b) /\ b.virt \in mapped'
      BY <1>5 DEF IInv, HeldMapped
    <2> QED
      BY <2>1, <2>2, <2>3 DEF HeldMapped
  <1>7. HeldOnce'
    BY <1>4 DEF IInv, HeldOnce
  <1> QED
    BY <1>2, <1>3, <1>6, <1>7 DEF IInv

\* free_dma takes the block from the thread and works on it.
LEMMA FreeReleaseIInv ==
  ASSUME IInv, NEW t \in Thread, FreeRelease(t)
  PROVE  IInv'
  <1>1. PICK b \in blocks[t] :
          /\ IF fd THEN ReleaseMem(b.dma) ELSE UNCHANGED entry
          /\ blocks' = [blocks EXCEPT ![t] = blocks[t] \ {b}]
          /\ pc' = [pc EXCEPT ![t] = "free"] /\ cur' = [cur EXCEPT ![t] = b]
    BY Zenon DEF FreeRelease, Goto
  <1>2. mapped' = mapped /\ child' = child /\ pc[t] = "idle"
    BY DEF FreeRelease
  <1>3. /\ entry' \in [Entry -> [allocated : BOOLEAN, vma_refs : Nat,
                                  listed : BOOLEAN, release_requested : BOOLEAN]]
        /\ \A x \in Entry : /\ entry'[x].vma_refs = entry[x].vma_refs
                             /\ entry'[x].allocated = entry[x].allocated
    <2>1. entry' = entry \/ entry' = [entry EXCEPT ![b.dma].release_requested = TRUE]
      BY <1>1 DEF ReleaseMem
    <2>2. CASE entry' = entry
      BY <2>2 DEF IInv, EntryType
    <2>3. CASE entry' = [entry EXCEPT ![b.dma].release_requested = TRUE]
      <3>1. CASE b.dma \in Entry
        BY <2>3, <3>1, ZenonT(60) DEF IInv, EntryType
      <3>2. CASE b.dma \notin Entry
        <4>1. entry' = entry
          BY <2>3, <3>2 DEF IInv, EntryType
        <4> QED
          BY <4>1 DEF IInv, EntryType
      <3> QED
        BY <3>1, <3>2
    <2> QED
      BY <2>1, <2>2, <2>3
  <1>4. EntryType'
    BY <1>1, <1>2, <1>3, Zenon DEF IInv, EntryType
  <1>5. RefsCountVmas'
    BY <1>2, <1>3 DEF IInv, RefsCountVmas, Occurs
  <1>6. \A u \in Thread : /\ u # t => cur'[u] = cur[u] /\ pc'[u] = pc[u]
                                        /\ blocks'[u] = blocks[u]
                          /\ cur'[t] = b /\ pc'[t] = "free"
                          /\ blocks'[t] = blocks[t] \ {b}
    BY <1>1, Zenon DEF IInv, EntryType
  <1>7. HeldMapped'
    BY <1>2, <1>6 DEF IInv, HeldMapped, Inside, IsBlock
  <1>8. HeldOnce'
    <2>1. \A u, w \in Thread : \A x \in blocks'[u], c \in blocks'[w] :
            x.virt = c.virt => u = w /\ x = c
      BY <1>6 DEF IInv, HeldOnce
    <2>2. \A u, w \in Thread : u \in Inside' => \A x \in blocks'[w] : x.virt # cur'[u].virt
      BY <1>6 DEF IInv, HeldOnce, Inside
    <2>3. \A u, w \in Thread :
            u \in Inside' /\ w \in Inside' /\ u # w => cur'[u].virt # cur'[w].virt
      BY <1>6 DEF IInv, HeldOnce, Inside
    <2> QED
      BY <2>1, <2>2, <2>3, ZenonT(60) DEF HeldOnce
  <1> QED
    BY <1>4, <1>5, <1>7, <1>8 DEF IInv

\* fork counts every inherited mapping once more.
LEMMA ForkIInv ==
  ASSUME IInv, Fork
  PROVE  IInv'
  <1>1. /\ child = {} /\ child' = mapped /\ mapped' = mapped
        /\ pc' = pc /\ cur' = cur /\ blocks' = blocks
        /\ entry' = [e \in Entry |-> IF e \in mapped
                                     THEN [entry[e] EXCEPT !.vma_refs = @ + 1]
                                     ELSE entry[e]]
    BY DEF Fork
  <1>2. EntryType'
    BY <1>1 DEF IInv, EntryType
  <1>3. RefsCountVmas'
    <2> SUFFICES ASSUME NEW x \in Entry
                 PROVE  /\ entry'[x].vma_refs = Occurs(x, mapped') + Occurs(x, child')
                        /\ entry'[x].allocated <=> x \in mapped' \cup child'
      BY DEF RefsCountVmas, Occurs
    <2>1. CASE x \in mapped
      <3>1. /\ entry'[x].vma_refs = entry[x].vma_refs + 1
            /\ entry'[x].allocated = entry[x].allocated
        BY <1>1, <2>1 DEF IInv, EntryType
      <3> QED
        BY <1>1, <2>1, <3>1 DEF IInv, RefsCountVmas, Occurs
    <2>2. CASE x \notin mapped
      BY <1>1, <2>2 DEF IInv, RefsCountVmas, Occurs
    <2> QED
      BY <2>1, <2>2
  <1>4. HeldMapped' /\ HeldOnce'
    BY <1>1 DEF IInv, HeldMapped, HeldOnce, Inside
  <1> QED
    BY <1>2, <1>3, <1>4 DEF IInv

\* Detaching changes neither counts nor mappings.
LEMMA RemoveIInv ==
  ASSUME IInv, UnbindDevice
  PROVE  IInv'
  <1>1. /\ mapped' = mapped /\ child' = child
        /\ pc' = pc /\ cur' = cur /\ blocks' = blocks
    BY SMTT(30) DEF UnbindDevice
  <1>2. /\ entry' \in [Entry -> [allocated : BOOLEAN, vma_refs : Nat,
                                  listed : BOOLEAN, release_requested : BOOLEAN]]
        /\ \A x \in Entry : /\ entry'[x].vma_refs = entry[x].vma_refs
                             /\ entry'[x].allocated = entry[x].allocated
    BY ZenonT(60) DEF UnbindDevice, DetachEntries, IInv, EntryType
  <1>3. EntryType' /\ RefsCountVmas'
    BY <1>1, <1>2 DEF IInv, EntryType, RefsCountVmas, Occurs
  <1>4. HeldMapped' /\ HeldOnce'
    BY <1>1 DEF IInv, HeldMapped, HeldOnce, Inside
  <1> QED
    BY <1>3, <1>4 DEF IInv

\* The VMAs of the child, and of a process that has ended: nobody holds them.
LEMMA CloseIInv ==
  ASSUME IInv, ChildClose \/ ExitClose
  PROVE  IInv'
  <1>1. PICK e \in mapped \cup child :
          /\ dma_vma_close(e)
          /\ \/ e \in mapped /\ mapped' = mapped \ {e} /\ child' = child
                /\ \A t \in Thread : pc[t] = "gone"
             \/ e \in child /\ child' = child \ {e} /\ mapped' = mapped
    BY DEF ChildClose, ExitClose
  <1>2. pc' = pc /\ cur' = cur /\ blocks' = blocks
    BY DEF ChildClose, ExitClose
  <1>3. RefsCountVmas'
    BY <1>1, CloseCounts DEF IInv
  <1>4. EntryType'
    BY <1>1, <1>2, Closed DEF IInv, EntryType
  <1>5. HeldMapped' /\ HeldOnce'
    BY <1>1, <1>2 DEF IInv, HeldMapped, HeldOnce, Inside
  <1> QED
    BY <1>3, <1>4, <1>5 DEF IInv

\* Exit and a new start: the threads hold nothing any more.
LEMMA ExitIInv ==
  ASSUME IInv, Exit \/ Start
  PROVE  IInv'
  <1>1. /\ entry' = entry /\ mapped' = mapped /\ child' = child
        /\ \/ blocks' = [t \in Thread |-> {}]
           \/ blocks' = blocks /\ \A t \in Thread : pc[t] = "gone"
        /\ \/ pc' = [t \in Thread |-> "gone"] \/ pc' = [t \in Thread |-> "idle"]
        /\ cur' = cur \/ cur' = [t \in Thread |-> NoBlock]
    BY DEF Exit, Start
  <1>2. \A t \in Thread : blocks'[t] = {}
    BY <1>1 DEF IInv, HeldMapped
  <1>3. EntryType' /\ RefsCountVmas'
    BY <1>1 DEF IInv, EntryType, RefsCountVmas, Occurs
  <1>4. HeldMapped' /\ HeldOnce'
    BY <1>1, <1>2 DEF HeldMapped, HeldOnce, Inside
  <1> QED
    BY <1>3, <1>4 DEF IInv

\* Every step keeps the invariant.
LEMMA NextIInv == IInv /\ [Next]_vars => IInv'
  <1> SUFFICES ASSUME IInv, [Next]_vars PROVE IInv'
    OBVIOUS
  <1>1. ASSUME NEW t \in Thread, AllocInfoFails(t) \/ FreeMunmap(t) PROVE IInv'
    <2>1. t \in Inside
      BY <1>1 DEF AllocInfoFails, FreeMunmap, Inside
    <2>2. /\ dma_vma_close(cur[t].virt) /\ mapped' = mapped \ {cur[t].virt}
          /\ child' = child /\ blocks' = blocks /\ Goto(t, "idle", NoBlock)
      BY <1>1 DEF AllocInfoFails, FreeMunmap
    <2> QED
      BY <2>1, <2>2, MunmapIInv
  <1>2. CASE UNCHANGED <<entry, mapped, child, pc, cur, blocks>>
    BY <1>2 DEF IInv, EntryType, RefsCountVmas, Occurs, HeldMapped, HeldOnce, Inside
  <1>3. CASE BindDevice \/ OpenFd \/ CloseFd \/ UNCHANGED vars
    BY <1>2, <1>3 DEF BindDevice, OpenFd, CloseFd, vars
  <1> QED
    BY <1>1, <1>3, AllocMmapIInv, AllocInfoIInv, FreeReleaseIInv, RemoveIInv, ForkIInv,
       CloseIInv, ExitIInv, ZenonT(60) DEF Next

\* dma_vma_open and dma_vma_close count exactly the VMAs of each buffer, so a
\* buffer is freed with its last mapping, for any number of threads and buffers.
THEOREM RefsExact == Spec => []RefsCountVmas
  <1>1. IInv => RefsCountVmas
    BY DEF IInv
  <1> QED
    BY <1>1, InitIInv, NextIInv, PTL DEF Spec

-----------------------------------------------------------------------------
(* The list *)

ListInv == memlist \in Seq(Entry) /\ ListHoldsAllocated

\* The sequence left when the element at i is unlinked.
LEMMA RemovedAt ==
  ASSUME NEW S, NEW s \in Seq(S), NEW i \in 1 .. Len(s)
  PROVE  /\ Without(s, i) \in Seq(S) /\ Len(Without(s, i)) = Len(s) - 1
         /\ \A k \in 1 .. Len(s) - 1 :
              Without(s, i)[k] = IF k < i THEN s[k] ELSE s[k + 1]
  <1> DEFINE a == SubSeq(s, 1, i - 1)
             b == SubSeq(s, i + 1, Len(s))
  <1>1. i \in Int /\ Len(s) \in Int /\ 1 <= i /\ i <= Len(s)
    OBVIOUS
  <1>2. a \in Seq(S) /\ Len(a) = i - 1 /\ \A k \in 1 .. i - 1 : a[k] = s[k]
    <2>1. \A k \in 1 .. i - 1 : s[k] \in S
      BY <1>1
    <2>2. /\ a \in Seq(S) /\ Len(a) = IF 1 <= i - 1 THEN (i - 1) - 1 + 1 ELSE 0
          /\ \A k \in 1 .. (i - 1) - 1 + 1 : a[k] = s[1 + k - 1]
      BY <1>1, <2>1, SubSeqProperties
    <2> HIDE DEF a, b
    <2>3. Len(a) = i - 1
      BY <1>1, <2>2
    <2>4. \A k \in 1 .. i - 1 : k \in 1 .. (i - 1) - 1 + 1 /\ 1 + k - 1 = k
      BY <1>1
    <2> QED
      BY <2>2, <2>3, <2>4
  <1>3. /\ b \in Seq(S) /\ Len(b) = Len(s) - i
        /\ \A k \in 1 .. Len(s) - i : b[k] = s[i + k]
    <2>1. \A k \in i + 1 .. Len(s) : s[k] \in S
      BY <1>1
    <2>2. /\ b \in Seq(S)
          /\ Len(b) = IF i + 1 <= Len(s) THEN Len(s) - (i + 1) + 1 ELSE 0
          /\ \A k \in 1 .. Len(s) - (i + 1) + 1 : b[k] = s[(i + 1) + k - 1]
      BY <1>1, <2>1, SubSeqProperties
    <2> HIDE DEF b
    <2> QED
      BY <1>1, <2>2
  <1>4. Without(s, i) = a \o b
    BY DEF Without
  <1> HIDE DEF a, b
  <1>5. /\ a \o b \in Seq(S) /\ Len(a \o b) = Len(a) + Len(b)
        /\ \A k \in 1 .. Len(a) + Len(b) :
             (a \o b)[k] = IF k <= Len(a) THEN a[k] ELSE b[k - Len(a)]
    BY <1>2, <1>3, ConcatProperties, ZenonT(60)
  <1>6. \A k \in 1 .. Len(s) - 1 : (a \o b)[k] = IF k < i THEN s[k] ELSE s[k + 1]
    <2> SUFFICES ASSUME NEW k \in 1 .. Len(s) - 1
                 PROVE  (a \o b)[k] = IF k < i THEN s[k] ELSE s[k + 1]
      BY Zenon
    <2>1. (a \o b)[k] = IF k <= i - 1 THEN a[k] ELSE b[k - (i - 1)]
      BY <1>1, <1>2, <1>3, <1>5
    <2>2. k > i - 1 => b[k - (i - 1)] = s[k + 1]
      <3> SUFFICES ASSUME k > i - 1 PROVE b[k - (i - 1)] = s[k + 1]
        OBVIOUS
      <3>1. k - (i - 1) \in 1 .. Len(s) - i /\ i + (k - (i - 1)) = k + 1
        BY <1>1
      <3> QED
        BY <1>3, <3>1
    <2> QED
      BY <1>1, <1>2, <2>1, <2>2
  <1> QED
    BY <1>1, <1>2, <1>3, <1>4, <1>5, <1>6

\* list_del unlinks one element and keeps the order of the others; the head
\* stays the head unless it is the one unlinked.
LEMMA Unlinked ==
  ASSUME NEW S, NEW s \in Seq(S), IsInjective(s), NEW i \in 1 .. Len(s),
         NEW r, r = Without(s, i)
  PROVE  /\ r \in Seq(S) /\ IsInjective(r) /\ Range(r) = Range(s) \ {s[i]}
         /\ s[1] # s[i] => r # <<>> /\ r[1] = s[1]
  <1> /\ r \in Seq(S) /\ Len(r) = Len(s) - 1
      /\ \A k \in 1 .. Len(s) - 1 : r[k] = IF k < i THEN s[k] ELSE s[k + 1]
    BY RemovedAt, Zenon
  <1>1. \A k, l \in 1 .. Len(s) : s[k] = s[l] => k = l
    BY SMTT(30) DEF IsInjective
  <1>2. DOMAIN r = 1 .. Len(s) - 1 /\ DOMAIN s = 1 .. Len(s)
    OBVIOUS
  <1>3. \A k \in 1 .. Len(s) - 1 : k \in 1 .. Len(s) /\ k + 1 \in 1 .. Len(s)
    OBVIOUS
  <1>4. IsInjective(r)
    <2> SUFFICES ASSUME NEW a \in 1 .. Len(s) - 1, NEW b \in 1 .. Len(s) - 1,
                        r[a] = r[b]
                 PROVE  a = b
      BY <1>2 DEF IsInjective
    <2> QED
      BY <1>1, <1>3
  <1>5. Range(r) \subseteq Range(s) \ {s[i]}
    <2> SUFFICES ASSUME NEW k \in 1 .. Len(s) - 1
                 PROVE  r[k] \in Range(s) \ {s[i]}
      BY <1>2 DEF Range
    <2>1. \E l \in 1 .. Len(s) : l # i /\ r[k] = s[l]
      BY <1>3
    <2> QED
      BY <1>1, <1>2, <2>1, ZenonT(60) DEF Range
  <1>6. Range(s) \ {s[i]} \subseteq Range(r)
    <2> SUFFICES ASSUME NEW x \in Range(s), x # s[i]
                 PROVE  \E l \in 1 .. Len(s) - 1 : r[l] = x
      BY <1>2, Zenon DEF Range
    <2>1. PICK k \in 1 .. Len(s) : x = s[k]
      BY <1>2 DEF Range
    <2>2. CASE k < i
      <3>1. k \in 1 .. Len(s) - 1 /\ r[k] = s[k]
        BY <2>2
      <3> QED
        BY <2>1, <3>1
    <2>3. CASE k > i
      <3>1. k - 1 \in 1 .. Len(s) - 1 /\ ~(k - 1 < i) /\ (k - 1) + 1 = k
        BY <2>3
      <3>2. r[k - 1] = s[k]
        BY <3>1
      <3> QED
        BY <2>1, <3>1, <3>2
    <2> QED
      BY <2>1, <2>2, <2>3
  <1>7. ASSUME s[1] # s[i] PROVE r # <<>> /\ r[1] = s[1]
    <2>1. 1 < i /\ 1 \in 1 .. Len(s) - 1
      BY <1>7
    <2> QED
      BY <2>1
  <1> QED
    BY <1>4, <1>5, <1>6, <1>7

\* list_add puts a new buffer in front of the others.
LEMMA ListAddInv ==
  ASSUME IInv, ListInv, NEW e \in Entry, ~entry[e].allocated,
         entry' = [entry EXCEPT ![e] = NewEntry], memlist' = ListAdd(e)
  PROVE  ListInv' /\ memlist' # <<>> /\ memlist'[1] = e
  <1>1. /\ memlist' \in Seq(Entry) /\ Len(memlist') = Len(memlist) + 1
        /\ memlist'[1] = e
        /\ \A k \in 1 .. Len(memlist) : memlist'[k + 1] = memlist[k]
    BY DEF ListInv, ListAdd
  <1>2. e \notin Range(memlist)
    BY DEF ListInv, ListHoldsAllocated
  <1>3. \A k \in 1 .. Len(memlist') : k # 1 => k - 1 \in 1 .. Len(memlist)
                                               /\ memlist'[k] = memlist[k - 1]
    BY <1>1 DEF ListInv
  <1>4. IsInjective(memlist')
    <2> SUFFICES ASSUME NEW a \in 1 .. Len(memlist'), NEW b \in 1 .. Len(memlist'),
                        memlist'[a] = memlist'[b]
                 PROVE  a = b
      BY <1>1 DEF IsInjective
    <2>1. \A k, l \in 1 .. Len(memlist) : memlist[k] = memlist[l] => k = l
      BY DEF ListInv, ListHoldsAllocated, IsInjective
    <2>2. \A k \in 1 .. Len(memlist) : memlist[k] # e
      BY <1>2 DEF ListInv, Range
    <2>3. CASE a = 1 \/ b = 1
      BY <1>1, <1>3, <2>2, <2>3
    <2>4. CASE a # 1 /\ b # 1
      <3>1. a - 1 = b - 1
        BY <1>3, <2>1, <2>4, ZenonT(30)
      <3> QED
        BY <3>1
    <2> QED
      BY <2>3, <2>4
  <1>5. Range(memlist') = Range(memlist) \cup {e}
    <2>1. Range(memlist') \subseteq Range(memlist) \cup {e}
      BY <1>1, <1>3 DEF Range, ListInv
    <2>2. Range(memlist) \subseteq Range(memlist')
      <3> SUFFICES ASSUME NEW k \in 1 .. Len(memlist)
                   PROVE  memlist[k] \in Range(memlist')
        BY DEF Range, ListInv
      <3>1. k + 1 \in DOMAIN memlist' /\ memlist'[k + 1] = memlist[k]
        BY <1>1 DEF ListInv
      <3> QED
        BY <3>1 DEF Range
    <2>3. e \in Range(memlist')
      BY <1>1 DEF Range, ListInv
    <2> QED
      BY <2>1, <2>2, <2>3
  <1>6. \A x \in Entry : entry'[x] = IF x = e THEN NewEntry ELSE entry[x]
    BY DEF IInv, EntryType
  <1>7. /\ Range(memlist') = {x \in Entry : entry'[x].allocated}
        /\ \A x \in Entry : entry'[x].listed <=> entry'[x].allocated
    BY <1>5, <1>6 DEF ListInv, ListHoldsAllocated, NewEntry
  <1> QED
    BY <1>1, <1>4, <1>7 DEF ListInv, ListHoldsAllocated

\* dma_vma_close takes a buffer off the list exactly when it frees it.  The
\* buffer at the head stays there as long as it has another mapping.
LEMMA CloseInv ==
  ASSUME IInv, ListInv, NEW e \in mapped \cup child, dma_vma_close(e)
  PROVE  /\ ListInv'
         /\ memlist # <<>> /\ (memlist[1] # e \/ entry[e].vma_refs # 1)
              => memlist' # <<>> /\ memlist'[1] = memlist[1]
  <1>1. /\ e \in Entry /\ entry[e].allocated /\ e \in Range(memlist) /\ entry[e].listed
    BY DEF IInv, EntryType, RefsCountVmas, ListInv, ListHoldsAllocated
  <1>2. CASE LastClose(e)
    <2>1. /\ entry' = [entry EXCEPT ![e] = Unallocated]
          /\ memlist' = Without(memlist, CHOOSE i \in DOMAIN memlist : memlist[i] = e)
      BY <1>1, <1>2 DEF dma_vma_close, ListDel
    <2>2. memlist \in Seq(Entry) /\ IsInjective(memlist)
      BY DEF ListInv, ListHoldsAllocated
    <2> DEFINE i == CHOOSE k \in DOMAIN memlist : memlist[k] = e
    <2>3. i \in 1 .. Len(memlist) /\ memlist[i] = e
      BY <1>1, <2>2 DEF Range
    <2>4. memlist' = Without(memlist, i)
      BY <2>1
    <2> HIDE DEF i
    <2>5. /\ memlist' \in Seq(Entry) /\ IsInjective(memlist')
          /\ Range(memlist') = Range(memlist) \ {e}
          /\ memlist[1] # e => memlist' # <<>> /\ memlist'[1] = memlist[1]
      <3>1. /\ memlist' \in Seq(Entry) /\ IsInjective(memlist')
            /\ Range(memlist') = Range(memlist) \ {memlist[i]}
            /\ memlist[1] # memlist[i] => memlist' # <<>> /\ memlist'[1] = memlist[1]
        BY <2>2, <2>3, <2>4, Unlinked
      <3> QED
        BY <2>3, <3>1
    <2>6. \A x \in Entry : entry'[x] = IF x = e THEN Unallocated ELSE entry[x]
      BY <2>1 DEF IInv, EntryType
    <2>7. /\ Range(memlist') = {x \in Entry : entry'[x].allocated}
          /\ \A x \in Entry : entry'[x].listed <=> entry'[x].allocated
      BY <2>5, <2>6 DEF ListInv, ListHoldsAllocated, Unallocated
    <2> QED
      BY <1>2, <2>5, <2>7 DEF ListInv, ListHoldsAllocated, LastClose
  <1>3. CASE ~LastClose(e)
    <2>1. entry' = [entry EXCEPT ![e].vma_refs = @ - 1] /\ memlist' = memlist
      BY <1>3 DEF dma_vma_close
    <2>2. \A x \in Entry : entry'[x].allocated = entry[x].allocated
                           /\ entry'[x].listed = entry[x].listed
      BY <2>1 DEF IInv, EntryType
    <2> QED
      BY <2>1, <2>2 DEF ListInv, ListHoldsAllocated
  <1> QED
    BY <1>2, <1>3

\* genpci_remove finds the list empty: the module stays while a buffer is mapped.
LEMMA RemoveQuiet ==
  ASSUME IInv, ListInv, UnbindDevice
  PROVE  memlist' = memlist /\ entry' = entry
  <1>1. Range(memlist) = {}
    BY DEF IInv, RefsCountVmas, ListInv, ListHoldsAllocated, UnbindDevice
  <1>2. memlist = <<>>
    <2>1. memlist # <<>> => 1 \in DOMAIN memlist
      BY DEF ListInv
    <2> QED
      BY <1>1, <2>1 DEF Range
  <1> QED
    BY <1>1, <1>2 DEF UnbindDevice, DetachEntries, IInv, EntryType

\* A step that leaves the list alone, and what is allocated and listed.
LEMMA QuietInv ==
  ASSUME ListInv, memlist' = memlist,
         \A x \in Entry : /\ entry'[x].allocated = entry[x].allocated
                          /\ entry'[x].listed = entry[x].listed
  PROVE  ListInv'
  BY DEF ListInv, ListHoldsAllocated

\* At first the list is empty and nothing is allocated.
LEMMA InitListInv == Init => ListInv
  BY DEF Init, ListInv, ListHoldsAllocated, IsInjective, Range, Unallocated

\* IOCTL_RELEASE_MEM marks one entry and changes nothing else.
LEMMA Released ==
  ASSUME IInv, NEW t \in Thread, FreeRelease(t)
  PROVE  \E b \in blocks[t] :
           /\ blocks' = [blocks EXCEPT ![t] = blocks[t] \ {b}]
           /\ \A x \in Entry : /\ entry'[x].allocated = entry[x].allocated
                               /\ entry'[x].listed = entry[x].listed
                               /\ x # b.dma => entry'[x] = entry[x]
  <1>1. PICK b \in blocks[t] :
          /\ IF fd THEN ReleaseMem(b.dma) ELSE UNCHANGED entry
          /\ blocks' = [blocks EXCEPT ![t] = blocks[t] \ {b}]
    BY Zenon DEF FreeRelease
  <1>2. entry' = entry \/ entry' = [entry EXCEPT ![b.dma].release_requested = TRUE]
    BY <1>1 DEF ReleaseMem
  <1>3. \A x \in Entry : /\ entry'[x].allocated = entry[x].allocated
                         /\ entry'[x].listed = entry[x].listed
                         /\ x # b.dma => entry'[x] = entry[x]
    BY <1>2 DEF IInv, EntryType
  <1> QED
    BY <1>1, <1>3, Zenon

\* Every step keeps the list.
LEMMA NextListInv == IInv /\ ListInv /\ [Next]_vars => ListInv'
  <1> SUFFICES ASSUME IInv, ListInv, [Next]_vars PROVE ListInv'
    OBVIOUS
  <1>1. ASSUME NEW t \in Thread, AllocMmap(t) PROVE ListInv'
    BY <1>1, ListAddInv, Zenon DEF AllocMmap
  <1>2. ASSUME NEW t \in Thread, AllocInfoFails(t) \/ FreeMunmap(t) PROVE ListInv'
    <2>1. cur[t].virt \in mapped /\ dma_vma_close(cur[t].virt)
      BY <1>2 DEF AllocInfoFails, FreeMunmap, IInv, HeldMapped, Inside
    <2> QED
      BY <2>1, CloseInv
  <1>3. ASSUME NEW t \in Thread, FreeRelease(t) PROVE ListInv'
    BY <1>3, Released, QuietInv, Zenon DEF FreeRelease
  <1>4. CASE ChildClose \/ ExitClose
    BY <1>4, CloseInv DEF ChildClose, ExitClose
  <1>5. CASE UnbindDevice
    BY <1>5, RemoveQuiet, QuietInv
  <1>6. CASE Fork
    <2>1. \A x \in Entry : /\ entry'[x].allocated = entry[x].allocated
                           /\ entry'[x].listed = entry[x].listed
      BY <1>6 DEF Fork, IInv, EntryType
    <2> QED
      BY <1>6, <2>1, QuietInv DEF Fork
  <1>7. CASE UNCHANGED <<entry, memlist>>
    BY <1>7, QuietInv
  <1>8. ASSUME NEW t \in Thread, AllocInfo(t) PROVE ListInv'
    BY <1>7, <1>8 DEF AllocInfo
  <1>9. CASE BindDevice \/ OpenFd \/ CloseFd \/ Exit \/ Start \/ UNCHANGED vars
    BY <1>7, <1>9 DEF BindDevice, OpenFd, CloseFd, Exit, Start, vars
  <1> QED
    BY <1>1, <1>2, <1>3, <1>4, <1>5, <1>6, <1>8, <1>9, ZenonT(60) DEF Next

\* memlist holds every allocated buffer once and nothing that was freed,
\* whatever threads, a child and the device do, so genpci_remove leaves no
\* buffer behind.
THEOREM ListExact == Spec => []ListHoldsAllocated
  <1>1. ListInv => ListHoldsAllocated
    BY DEF ListInv
  <1> QED
    BY <1>1, InitIInv, NextIInv, InitListInv, NextListInv, PTL DEF Spec

-----------------------------------------------------------------------------
(* The bus address alloc_dma returns *)

\* The buffer of the thread inside alloc_dma is at the head of the list and
\* nobody has asked for its release.
FirstReported ==
  \A t \in Allocating : /\ memlist # <<>> /\ memlist[1] = cur[t].virt
                        /\ ~entry[cur[t].virt].release_requested

Newest ==
  ~raced => /\ OwnAddress
            /\ \A t, u \in Allocating : t = u
            /\ FirstReported

\* As long as nothing has raced, at most one thread is inside alloc_dma.
LEMMA OneAllocating ==
  ASSUME raced' = (raced \/ Cardinality(Allocating') > 1), ~raced'
  PROVE  ~raced /\ \A t, u \in Allocating' : t = u
  <1>1. ~raced
    BY Zenon
  <1>2. ~(Cardinality(Allocating') > 1)
    BY Zenon
  <1>3. ASSUME NEW t \in Allocating', NEW u \in Allocating', t # u PROVE FALSE
    <2>1. IsFiniteSet(Allocating')
      BY FiniteAssumption, FS_Subset DEF Allocating
    <2>2. IsFiniteSet({t}) /\ Cardinality({t}) = 1
      BY FS_Singleton, Zenon
    <2>3. Cardinality({t} \cup {u}) = 2
      <3>1. Cardinality({t} \cup {u}) =
              IF u \in {t} THEN Cardinality({t}) ELSE Cardinality({t}) + 1
        BY <2>2, FS_AddElement
      <3>2. u \notin {t}
        BY <1>3
      <3> QED
        BY <2>2, <3>1, <3>2
    <2>4. /\ Cardinality({t} \cup {u}) <= Cardinality(Allocating')
          /\ Cardinality(Allocating') \in Nat
      BY <1>3, <2>1, FS_Subset, FS_CardinalityType, ZenonT(60)
    <2> QED
      BY <1>2, <2>3, <2>4
  <1> QED
    BY <1>1, <1>3

\* IOCTL_GET_MEMFINFO then reports the buffer of the thread inside alloc_dma.
LEMMA ReportsOwn ==
  ASSUME ListInv, FirstReported, NEW t \in Allocating, NEW e \in Reported
  PROVE  e = cur[t].virt
  <1>1. PICK k \in DOMAIN memlist :
          /\ e = memlist[k]
          /\ \A j \in 1 .. k - 1 : entry[memlist[j]].release_requested
    BY DEF Reported
  <1>2. memlist[1] = cur[t].virt /\ ~entry[memlist[1]].release_requested
    BY DEF FirstReported
  <1>3. k \in Nat /\ 1 <= k
    BY DEF ListInv
  <1>4. k = 1
    BY <1>1, <1>2, <1>3
  <1> QED
    BY <1>1, <1>2, <1>4

\* The close of another mapping leaves the head of the list where it is.
LEMMA HeadStays ==
  ASSUME IInv, ListInv, NEW e \in mapped \cup child, dma_vma_close(e),
         NEW x \in mapped, memlist # <<>>, memlist[1] = x, x # e \/ e \in child
  PROVE  /\ memlist' # <<>> /\ memlist'[1] = x
         /\ entry'[x].release_requested = entry[x].release_requested
  <1>1. e \in Entry /\ x \in Entry
    BY DEF IInv, EntryType
  <1>2. x = e => entry[e].vma_refs # 1
    BY <1>1 DEF IInv, RefsCountVmas, Occurs
  <1>3. memlist' # <<>> /\ memlist'[1] = x
    BY <1>2, CloseInv
  <1>4. CASE x # e
    BY <1>1, <1>3, <1>4, Closed DEF IInv
  <1>5. CASE x = e
    <2>1. entry' = [entry EXCEPT ![e].vma_refs = @ - 1]
      BY <1>2, <1>5 DEF dma_vma_close, LastClose
    <2> QED
      BY <1>1, <1>3, <1>5, <2>1 DEF IInv, EntryType
  <1> QED
    BY <1>3, <1>4, <1>5

\* The thread inside alloc_dma stays there, on the same buffer, and the buffer
\* stays at the head of the list.
LEMMA StaysFirst ==
  ASSUME FirstReported,
         \A u \in Allocating' :
           /\ u \in Allocating /\ cur'[u] = cur[u]
           /\ memlist' # <<>> /\ memlist'[1] = memlist[1]
           /\ entry'[cur[u].virt].release_requested
                = entry[cur[u].virt].release_requested
  PROVE  FirstReported'
  <1> SUFFICES ASSUME NEW u \in Allocating'
               PROVE  /\ memlist' # <<>> /\ memlist'[1] = cur'[u].virt
                      /\ ~entry'[cur'[u].virt].release_requested
    BY DEF FirstReported
  <1> QED
    BY DEF FirstReported

\* A thread that unmaps takes neither the buffer of the thread inside alloc_dma
\* off the list nor any block from anybody.
LEMMA MunmapFirst ==
  ASSUME IInv, ListInv, FirstReported, NEW t \in Thread, t \in Inside,
         dma_vma_close(cur[t].virt), Goto(t, "idle", NoBlock)
  PROVE  FirstReported'
  <1>1. cur[t].virt \in mapped
    BY DEF IInv, HeldMapped
  <1>2. \A u \in Allocating' : u \in Allocating /\ u # t /\ cur'[u] = cur[u]
    BY DEF Goto, IInv, EntryType, Allocating
  <1>3. ASSUME NEW u \in Allocating, u # t
        PROVE  /\ memlist' # <<>> /\ memlist'[1] = memlist[1]
               /\ entry'[cur[u].virt].release_requested
                    = entry[cur[u].virt].release_requested
    <2>1. u \in Thread /\ u \in Inside
      BY DEF Allocating, Inside
    <2>2. cur[u].virt \in mapped /\ cur[u].virt # cur[t].virt
      BY <1>3, <2>1, ZenonT(30) DEF IInv, HeldMapped, HeldOnce
    <2>3. memlist # <<>> /\ memlist[1] = cur[u].virt
      BY DEF FirstReported
    <2> QED
      BY <1>1, <2>2, <2>3, HeadStays, ZenonT(60)
  <1> QED
    BY <1>2, <1>3, StaysFirst, ZenonT(60)

\* free_dma asks for the release of its own buffer only.
LEMMA ReleaseFirst ==
  ASSUME IInv, FirstReported, OwnAddress, NEW t \in Thread, FreeRelease(t)
  PROVE  FirstReported' /\ OwnAddress'
  <1>1. PICK b \in blocks[t] :
          /\ blocks' = [blocks EXCEPT ![t] = blocks[t] \ {b}]
          /\ \A x \in Entry : x # b.dma => entry'[x] = entry[x]
    BY Released
  <1>2. b.dma = b.virt
    BY DEF OwnAddress, AllBlocks
  <1>3. \A u \in Allocating' : u \in Allocating /\ u # t /\ cur'[u] = cur[u]
    BY Zenon DEF FreeRelease, Goto, IInv, EntryType, Allocating
  <1>4. ASSUME NEW u \in Allocating PROVE entry'[cur[u].virt] = entry[cur[u].virt]
    <2>1. u \in Thread /\ u \in Inside
      BY DEF Allocating, Inside
    <2>2. cur[u].virt \in Entry /\ b.virt # cur[u].virt
      BY <2>1 DEF IInv, EntryType, HeldMapped, HeldOnce
    <2> QED
      BY <1>1, <1>2, <2>2, ZenonT(60)
  <1>5. FirstReported'
    <2>1. memlist' = memlist
      BY DEF FreeRelease
    <2>2. \A u \in Allocating' : memlist # <<>>
      BY <1>3 DEF FirstReported
    <2> QED
      BY <1>3, <1>4, <2>1, <2>2, StaysFirst, ZenonT(60)
  <1>6. \A u \in Thread : blocks'[u] \subseteq blocks[u]
    BY <1>1 DEF IInv, EntryType
  <1> QED
    BY <1>5, <1>6 DEF OwnAddress, AllBlocks

\* While one thread at a time is inside alloc_dma, every step keeps its buffer
\* at the head of the list and every block's address its own.
LEMMA NextNewest ==
  ASSUME IInv, ListInv, Newest, [MCNext]_<<vars, raced>>
  PROVE  Newest'
  <1>1. CASE UNCHANGED <<vars, raced>>
    BY <1>1 DEF Newest, OwnAddress, AllBlocks, FirstReported, Allocating, vars
  <1>2. SUFFICES ASSUME MCNext, ~raced'
                 PROVE  OwnAddress' /\ (\A t, u \in Allocating' : t = u) /\ FirstReported'
    BY <1>1, Zenon DEF Newest
  <1>3. ~raced /\ \A t, u \in Allocating' : t = u
    <2>1. raced' = (raced \/ Cardinality(Allocating') > 1)
      BY <1>2, Zenon DEF MCNext
    <2> QED
      BY <1>2, <2>1, OneAllocating, ZenonT(30)
  <1>4. OwnAddress /\ FirstReported
    BY <1>3 DEF Newest
  <1> SUFFICES OwnAddress' /\ FirstReported'
    BY <1>3, Zenon
  <1>5. blocks' = blocks => OwnAddress'
    BY <1>4 DEF OwnAddress, AllBlocks
  <1>6. Allocating' = {} => FirstReported'
    BY DEF FirstReported
  <1>7. ASSUME NEW t \in Thread, AllocMmap(t) PROVE OwnAddress' /\ FirstReported'
    <2>1. PICK e \in Entry :
            /\ ~entry[e].allocated /\ entry' = [entry EXCEPT ![e] = NewEntry]
            /\ memlist' = ListAdd(e)
            /\ pc' = [pc EXCEPT ![t] = "alloc"]
            /\ cur' = [cur EXCEPT ![t] = [virt |-> e, dma |-> e]]
      BY <1>7, Zenon DEF AllocMmap, Goto
    <2>2. t \in Allocating' /\ cur'[t].virt = e /\ ~entry'[e].release_requested
      BY <2>1 DEF IInv, EntryType, Allocating, NewEntry
    <2>3. memlist' # <<>> /\ memlist'[1] = e
      BY <2>1, ListAddInv, Zenon
    <2>4. \A u \in Allocating' : u = t
      BY <1>3, <2>2, Zenon
    <2>5. FirstReported'
      BY <2>2, <2>3, <2>4, ZenonT(60) DEF FirstReported
    <2> QED
      BY <1>5, <1>7, <2>5, ZenonT(30) DEF AllocMmap
  <1>8. ASSUME NEW t \in Thread, AllocInfo(t) PROVE OwnAddress' /\ FirstReported'
    <2>1. PICK e \in Reported :
            blocks' = [blocks EXCEPT ![t] = blocks[t] \cup {[cur[t] EXCEPT !.dma = e]}]
      BY <1>8, Zenon DEF AllocInfo
    <2>2. t \in Allocating
      BY <1>8 DEF AllocInfo, Allocating
    <2>3. e = cur[t].virt
      BY <1>4, <2>2, ReportsOwn
    <2>4. \A u \in Allocating' : u \in Allocating /\ cur'[u] = cur[u]
      BY <1>8, Zenon DEF AllocInfo, Goto, IInv, EntryType, Allocating
    <2>5. entry' = entry /\ memlist' = memlist /\ memlist # <<>>
      BY <1>4, <1>8, <2>2, Zenon DEF AllocInfo, FirstReported
    <2>6. FirstReported'
      BY <1>4, <2>4, <2>5, StaysFirst, ZenonT(60)
    <2>7. [cur[t] EXCEPT !.dma = e].dma = [cur[t] EXCEPT !.dma = e].virt
      BY <2>2, <2>3 DEF IInv, HeldMapped, Inside, Allocating, IsBlock
    <2>8. OwnAddress'
      <3> DEFINE n == [cur[t] EXCEPT !.dma = e]
      <3>1. \A u \in Thread : \A b \in blocks'[u] : b \in blocks[u] \/ b = n
        BY <2>1 DEF IInv, EntryType
      <3>2. n.dma = n.virt
        BY <2>7
      <3> HIDE DEF n
      <3> QED
        BY <1>4, <3>1, <3>2, ZenonT(60) DEF OwnAddress, AllBlocks
    <2> QED
      BY <2>6, <2>8
  <1>9. ASSUME NEW t \in Thread, AllocInfoFails(t) \/ FreeMunmap(t)
        PROVE  OwnAddress' /\ FirstReported'
    <2>1. t \in Inside
      BY <1>9 DEF AllocInfoFails, FreeMunmap, Inside
    <2>2. dma_vma_close(cur[t].virt) /\ blocks' = blocks /\ Goto(t, "idle", NoBlock)
      BY <1>9 DEF AllocInfoFails, FreeMunmap
    <2> QED
      BY <1>4, <1>5, <2>1, <2>2, MunmapFirst, ZenonT(60)
  <1>10. ASSUME NEW t \in Thread, FreeRelease(t) PROVE OwnAddress' /\ FirstReported'
    BY <1>4, <1>10, ReleaseFirst, ZenonT(60)
  <1>11. CASE ChildClose
    <2>1. PICK e \in child : dma_vma_close(e)
      BY <1>11 DEF ChildClose
    <2>2. cur' = cur /\ Allocating' = Allocating /\ blocks' = blocks
      BY <1>11 DEF ChildClose, Allocating
    <2>3. ASSUME NEW u \in Allocating
          PROVE  /\ memlist' # <<>> /\ memlist'[1] = memlist[1]
                 /\ entry'[cur[u].virt].release_requested
                      = entry[cur[u].virt].release_requested
      <3>1. cur[u].virt \in mapped /\ memlist # <<>> /\ memlist[1] = cur[u].virt
        BY <1>4 DEF IInv, HeldMapped, FirstReported, Allocating, Inside
      <3> QED
        BY <2>1, <3>1, HeadStays, ZenonT(60)
    <2> QED
      BY <1>4, <1>5, <2>2, <2>3, StaysFirst, ZenonT(60)
  <1>12. CASE Exit \/ Start \/ ExitClose
    <2>1. Allocating' = {}
      BY <1>12 DEF Exit, Start, ExitClose, Allocating
    <2>2. OwnAddress'
      <3>1. CASE Exit
        BY <3>1 DEF Exit, OwnAddress, AllBlocks
      <3> QED
        BY <1>5, <1>12, <3>1, ZenonT(30) DEF Start, ExitClose
    <2> QED
      BY <1>6, <2>1, <2>2, ZenonT(30)
  <1>13. CASE /\ UNCHANGED <<memlist, pc, cur, blocks>>
              /\ \A x \in Entry : entry'[x].release_requested = entry[x].release_requested
    <2>1. Allocating' = Allocating
      BY <1>13 DEF Allocating
    <2>2. \A u \in Allocating : memlist # <<>> /\ cur[u].virt \in Entry
      BY <1>4 DEF FirstReported, IInv, EntryType, HeldMapped, Inside, Allocating
    <2> QED
      BY <1>4, <1>5, <1>13, <2>1, <2>2, StaysFirst, ZenonT(60)
  <1>14. CASE UnbindDevice
    BY <1>13, <1>14, RemoveQuiet, Zenon DEF UnbindDevice
  <1>15. CASE Fork
    <2>1. \A x \in Entry : entry'[x].release_requested = entry[x].release_requested
      BY <1>15 DEF Fork, IInv, EntryType
    <2> QED
      BY <1>13, <1>15, <2>1 DEF Fork
  <1>16. CASE BindDevice \/ OpenFd \/ CloseFd
    BY <1>13, <1>16 DEF BindDevice, OpenFd, CloseFd
  <1> QED
    BY <1>2, <1>7, <1>8, <1>9, <1>10, <1>11, <1>12, <1>14, <1>15, <1>16, ZenonT(60)
       DEF MCNext, Next

\* At first no thread is inside alloc_dma and none holds a block.
LEMMA InitNewest == Init => Newest
  BY DEF Init, Newest, OwnAddress, AllBlocks, FirstReported, Allocating

\* For any number of threads and buffers: while one thread at a time is between
\* the mmap and the ioctl of alloc_dma, alloc_dma returns the bus address of the
\* buffer it mapped, whoever frees, forks or exits meanwhile.
THEOREM OwnAddressAlone == MCSpec => []OwnAddressUnlessRaced
  <1>1. MCInit => IInv /\ ListInv /\ Newest
    BY InitIInv, InitListInv, InitNewest, Zenon DEF MCInit
  <1>2. IInv /\ ListInv /\ Newest /\ [MCNext]_<<vars, raced>>
          => (IInv /\ ListInv /\ Newest)'
    <2> SUFFICES ASSUME IInv, ListInv, Newest, [MCNext]_<<vars, raced>>
                 PROVE  (IInv /\ ListInv /\ Newest)'
      OBVIOUS
    <2>1. [Next]_vars
      BY DEF MCNext, vars
    <2> QED
      BY <2>1, NextIInv, NextListInv, NextNewest, ZenonT(60)
  <1>3. Newest => OwnAddressUnlessRaced
    BY DEF Newest, OwnAddressUnlessRaced
  <1> QED
    BY <1>1, <1>2, <1>3, PTL DEF MCSpec

-----------------------------------------------------------------------------
(* Modules, functions and numbers: GenpciDevices *)

\* A set of natural numbers has a smallest member.
LEMMA LeastNat ==
  ASSUME NEW S \in SUBSET Nat, S # {}
  PROVE  \E m \in S : \A n \in S : m <= n
  <1>1. \E m \in S : \A n \in S : ~ (<<n, m>> \in OpToRel(<, Nat))
    BY NatLessThanWellFounded, WFMin, Zenon
  <1>2. \A n, m \in Nat : <<n, m>> \in OpToRel(<, Nat) <=> n < m
    BY DEF OpToRel
  <1>3. \E m \in S : \A n \in S : ~ (n < m)
    BY <1>1, <1>2, Zenon
  <1> QED
    BY <1>3


\* The resources of the module and of a function.
Resource ==
  {"region", "class", "driver",
   "memory", "instance", "enabled", "regions", "drvdata", "cdev", "node"}

\* The order in which an owner acquires.
Steps(o) == IF o = Module THEN InitSteps ELSE ProbeSteps

\* The orders in which an owner releases.
Ways(o) == IF o = Module THEN {ExitSteps} ELSE {Ladder, RemoveSteps}

\* The resources of the steps before k, and of those from k on.
Before(s, k) == {s[i] : i \in 1 .. k - 1}

From(s, k) == {s[i] : i \in k .. Len(s)}

Shapes ==
  /\ held \in [Owner -> SUBSET Resource]
  /\ mode \in [Owner -> {"idle", "acquiring", "releasing"}]
  /\ work \in [Owner -> Seq(Resource)]
  /\ instance \in [Fn -> Nat]

Distinct(s) == \A i, j \in 1 .. Len(s) : s[i] = s[j] => i = j

\* The orders of genpci_init, genpci_probe, their error paths, genpci_remove and
\* genpci_exit name each resource at most once.
LEMMA StepsDistinct ==
  \A s \in {InitSteps, ProbeSteps, ExitSteps, Ladder, RemoveSteps} :
    s \in Seq(Resource) /\ Len(s) \in Nat \ {0} /\ Distinct(s)
  <1>1. InitSteps \in Seq(Resource) /\ Len(InitSteps) = 3 /\ Distinct(InitSteps)
    <2>1. InitSteps \in Seq(Resource) /\ Len(InitSteps) = 3
      BY DEF InitSteps, Resource
    <2>2. \A i, j \in 1 .. 3 : InitSteps[i] = InitSteps[j] => i = j
      BY DEF InitSteps
    <2> QED
      BY <2>1, <2>2, Zenon DEF Distinct
  <1>2. ProbeSteps \in Seq(Resource) /\ Len(ProbeSteps) = 7 /\ Distinct(ProbeSteps)
    <2>1. ProbeSteps \in Seq(Resource) /\ Len(ProbeSteps) = 7
      BY DEF ProbeSteps, Resource
    <2>2. \A i, j \in 1 .. 7 : ProbeSteps[i] = ProbeSteps[j] => i = j
      BY DEF ProbeSteps
    <2> QED
      BY <2>1, <2>2, Zenon DEF Distinct
  <1>3. ExitSteps \in Seq(Resource) /\ Len(ExitSteps) = 3 /\ Distinct(ExitSteps)
    <2>1. ExitSteps \in Seq(Resource) /\ Len(ExitSteps) = 3
      BY DEF ExitSteps, Resource
    <2>2. \A i, j \in 1 .. 3 : ExitSteps[i] = ExitSteps[j] => i = j
      BY DEF ExitSteps
    <2> QED
      BY <2>1, <2>2, Zenon DEF Distinct
  <1>4. Ladder \in Seq(Resource) /\ Len(Ladder) = 6 /\ Distinct(Ladder)
    <2>1. Ladder \in Seq(Resource) /\ Len(Ladder) = 6
      BY DEF Ladder, Resource
    <2>2. \A i, j \in 1 .. 6 : Ladder[i] = Ladder[j] => i = j
      BY DEF Ladder
    <2> QED
      BY <2>1, <2>2, Zenon DEF Distinct
  <1>5. RemoveSteps \in Seq(Resource) /\ Len(RemoveSteps) = 7 /\ Distinct(RemoveSteps)
    <2>1. RemoveSteps \in Seq(Resource) /\ Len(RemoveSteps) = 7
      BY DEF RemoveSteps, Resource
    <2>2. \A i, j \in 1 .. 7 : RemoveSteps[i] = RemoveSteps[j] => i = j
      BY DEF RemoveSteps
    <2> QED
      BY <2>1, <2>2, Zenon DEF Distinct
  <1>6. 3 \in Nat \ {0} /\ 6 \in Nat \ {0} /\ 7 \in Nat \ {0}
    OBVIOUS
  <1> QED
    BY <1>1, <1>2, <1>3, <1>4, <1>5, <1>6, Zenon

\* The rest of an order of steps is one.
LEMMA SuffixType ==
  ASSUME NEW s \in Seq(Resource), NEW k \in 1 .. Len(s) + 1
  PROVE  SubSeq(s, k, Len(s)) \in Seq(Resource)
  OBVIOUS

\* The first of the steps from k on, and what is left after it.
LEMMA Suffix ==
  ASSUME NEW s \in Seq(Resource), NEW k \in 1 .. Len(s)
  PROVE  /\ SubSeq(s, k, Len(s)) # <<>>
         /\ Head(SubSeq(s, k, Len(s))) = s[k]
         /\ Tail(SubSeq(s, k, Len(s))) = SubSeq(s, k + 1, Len(s))
         /\ SubSeq(s, k + 1, Len(s)) = <<>> <=> k = Len(s)
  <1>1. Len(s) \in k .. Len(s)
    OBVIOUS
  <1>2. /\ Head(SubSeq(s, k, Len(s))) = s[k]
        /\ Tail(SubSeq(s, k, Len(s))) = SubSeq(s, k + 1, Len(s))
    BY <1>1, HeadTailOfSubSeq
  <1>3. Len(SubSeq(s, k, Len(s))) = Len(s) - k + 1
    OBVIOUS
  <1>4. Len(SubSeq(s, k + 1, Len(s))) = Len(s) - k
    OBVIOUS
  <1>5. SubSeq(s, k + 1, Len(s)) \in Seq(Resource)
    BY SuffixType
  <1>6. SubSeq(s, k + 1, Len(s)) = <<>> <=> Len(SubSeq(s, k + 1, Len(s))) = 0
    BY <1>5
  <1>7. SubSeq(s, k, Len(s)) # <<>>
    <2>1. Len(s) - k + 1 # 0 /\ Len(<<>>) = 0
      OBVIOUS
    <2> QED
      BY <1>3, <2>1, Zenon
  <1>8. Len(s) - k = 0 <=> k = Len(s)
    OBVIOUS
  <1> QED
    BY <1>2, <1>4, <1>6, <1>7, <1>8, Zenon

\* What the steps before k acquired, when step k succeeds.
LEMMA Grows ==
  ASSUME NEW s, Len(s) \in Nat, NEW k \in 1 .. Len(s)
  PROVE  /\ Before(s, k) \cup {s[k]} = Before(s, k + 1)
         /\ Before(s, Len(s) + 1) = From(s, 1)
         /\ Before(s, 1) = {}
  BY DEF Before, From

\* What the steps from k on have still to release, when step k is done.
LEMMA Shrinks ==
  ASSUME NEW s, Len(s) \in Nat, Distinct(s), NEW k \in 1 .. Len(s)
  PROVE  /\ From(s, k) \ {s[k]} = From(s, k + 1)
         /\ From(s, Len(s) + 1) = {}
  BY DEF From, Distinct

\* Every failing step of genpci_init or genpci_probe jumps to the label below which
\* exactly what the steps before it acquired is released.
LEMMA UndoWay ==
  ASSUME NEW o \in Owner, NEW k \in 1 .. Len(Steps(o)), Steps(o)[k] # "drvdata"
  PROVE  \/ k = 1 /\ Undo(o, Steps(o)[k]) = <<>>
         \/ \E s \in Ways(o) : \E m \in 1 .. Len(s) :
              /\ Undo(o, Steps(o)[k]) = SubSeq(s, m, Len(s))
              /\ From(s, m) = Before(Steps(o), k)
  <1>1. CASE o = Module
    <2>1. Steps(o) = InitSteps /\ Ways(o) = {ExitSteps} /\ k \in 1 .. 3
      BY <1>1 DEF Steps, Ways, InitSteps
    <2>2. CASE k = 1
      <3>1. Steps(o)[k] = "region"
        BY <2>1, <2>2 DEF InitSteps
      <3> QED
        BY <1>1, <2>2, <3>1 DEF Undo
    <2>3. CASE k = 2
      <3>1. Steps(o)[k] = "class"
        BY <2>1, <2>3 DEF InitSteps
      <3>2. Undo(o, Steps(o)[k]) = <<"region">>
        BY <1>1, <3>1 DEF Undo
      <3>3. SubSeq(ExitSteps, 3, 3) = <<"region">> /\ Len(ExitSteps) = 3
        <4>1. Len(ExitSteps) = 3 /\ ExitSteps \in Seq(Resource) /\ <<"region">> \in Seq(Resource)
          BY DEF ExitSteps, Resource
        <4>2. SubSeq(ExitSteps, 3, 3) \in Seq(Resource)
          <5>1. 3 \in 1 .. Len(ExitSteps) + 1
            BY <4>1
          <5> QED
            BY <4>1, <5>1, SuffixType, Zenon
        <4>3. Len(SubSeq(ExitSteps, 3, 3)) = 1 /\ Len(<<"region">>) = 1
          BY <4>1
        <4>4. \A i \in 1 .. 1 : SubSeq(ExitSteps, 3, 3)[i] = <<"region">>[i]
          BY DEF ExitSteps
        <4> QED
          BY <4>1, <4>2, <4>3, <4>4, SeqEqual, Zenon
      <3>4. From(ExitSteps, 3) = Before(InitSteps, 2)
        BY DEF From, Before, ExitSteps, InitSteps
      <3>5. 3 \in 1 .. 3
        OBVIOUS
      <3> QED
        BY <2>1, <2>3, <3>2, <3>3, <3>4, <3>5, Zenon
    <2>4. CASE k = 3
      <3>1. Steps(o)[k] = "driver"
        BY <2>1, <2>4 DEF InitSteps
      <3>2. Undo(o, Steps(o)[k]) = <<"class", "region">>
        BY <1>1, <3>1 DEF Undo
      <3>3. SubSeq(ExitSteps, 2, 3) = <<"class", "region">> /\ Len(ExitSteps) = 3
        <4>1. Len(ExitSteps) = 3 /\ ExitSteps \in Seq(Resource) /\ <<"class", "region">> \in Seq(Resource)
          BY DEF ExitSteps, Resource
        <4>2. SubSeq(ExitSteps, 2, 3) \in Seq(Resource)
          <5>1. 2 \in 1 .. Len(ExitSteps) + 1
            BY <4>1
          <5> QED
            BY <4>1, <5>1, SuffixType, Zenon
        <4>3. Len(SubSeq(ExitSteps, 2, 3)) = 2 /\ Len(<<"class", "region">>) = 2
          BY <4>1
        <4>4. \A i \in 1 .. 2 : SubSeq(ExitSteps, 2, 3)[i] = <<"class", "region">>[i]
          BY DEF ExitSteps
        <4> QED
          BY <4>1, <4>2, <4>3, <4>4, SeqEqual, Zenon
      <3>4. From(ExitSteps, 2) = Before(InitSteps, 3)
        BY DEF From, Before, ExitSteps, InitSteps
      <3>5. 2 \in 1 .. 3
        OBVIOUS
      <3> QED
        BY <2>1, <2>4, <3>2, <3>3, <3>4, <3>5, Zenon
    <2> QED
      BY <2>1, <2>2, <2>3, <2>4
  <1>2. CASE o # Module
    <2>1. Steps(o) = ProbeSteps /\ Ladder \in Ways(o) /\ k \in 1 .. 7
      BY <1>2 DEF Steps, Ways, ProbeSteps
    <2>2. Len(Ladder) = 6
      BY DEF Ladder
    <2>3. Label[ProbeSteps[k]] = 8 - k
      BY <2>1 DEF Label, ProbeSteps
    <2>4. Undo(o, Steps(o)[k]) = SubSeq(Ladder, 8 - k, 6)
      <3>1. ProbeSteps[k] \notin {"region", "class", "driver"}
        BY <2>1 DEF ProbeSteps
      <3> QED
        BY <1>2, <2>1, <2>2, <2>3, <3>1 DEF Undo
    <2>5. CASE k = 1
      BY <2>4, <2>5 DEF Ladder
    <2>6. CASE k # 1
      <3>1. 8 - k \in 1 .. 6
        BY <2>1, <2>6
      <3>2. \A i \in 1 .. 6 : Ladder[i] = ProbeSteps[7 - i]
        BY DEF Ladder, ProbeSteps
      <3>3. From(Ladder, 8 - k) = Before(ProbeSteps, k)
        <4>1. ASSUME NEW i \in 8 - k .. 6 PROVE Ladder[i] \in Before(ProbeSteps, k)
          BY <2>1, <3>1, <3>2 DEF Before
        <4>2. ASSUME NEW j \in 1 .. k - 1 PROVE \E i \in 8 - k .. 6 : Ladder[i] = ProbeSteps[j]
          <5>1. 7 - j \in 8 - k .. 6 /\ 7 - j \in 1 .. 6 /\ 7 - (7 - j) = j
            BY <2>1, <3>1
          <5> QED
            BY <3>2, <5>1
        <4> QED
          BY <2>2, <4>1, <4>2 DEF From, Before
      <3> QED
        BY <2>1, <2>2, <2>4, <3>1, <3>3, Zenon
    <2> QED
      BY <2>5, <2>6
  <1> QED
    BY <1>1, <1>2

\* The orders an owner acquires and releases in are such orders.
LEMMA WaysFacts ==
  ASSUME NEW o \in Owner
  PROVE  /\ Steps(o) \in Seq(Resource) /\ Len(Steps(o)) \in Nat \ {0} /\ Distinct(Steps(o))
         /\ \A s \in Ways(o) : s \in Seq(Resource) /\ Len(s) \in Nat \ {0} /\ Distinct(s)
  BY StepsDistinct, Zenon DEF Steps, Ways

\* Only owner o has taken a step.
OnlyOf(o) ==
  \A p \in Owner \ {o} : held'[p] = held[p] /\ mode'[p] = mode[p] /\ work'[p] = work[p]

\* Acquiring from step k on, and releasing from step k of s on.
AcquiringFrom(o, k) ==
  /\ mode[o] = "acquiring"
  /\ work[o] = SubSeq(Steps(o), k, Len(Steps(o))) /\ held[o] = Before(Steps(o), k)

ReleasingFrom(o, s, k) ==
  /\ mode[o] = "releasing"
  /\ work[o] = SubSeq(s, k, Len(s)) /\ held[o] = From(s, k)

\* What an owner has is what its steps so far make it: at rest all or nothing,
\* otherwise the part before the next step, or the part still to release.
LadderInv(o) ==
  \/ mode[o] = "idle" /\ held[o] \in {{}, From(Steps(o), 1)}
  \/ \E k \in 1 .. Len(Steps(o)) : AcquiringFrom(o, k)
  \/ \E s \in Ways(o) : \E k \in 1 .. Len(s) : ReleasingFrom(o, s, k)

LadderInvs == \A o \in Owner : LadderInv(o)

\* A step of one owner leaves the other owners where they are.
LEMMA OthersKeep ==
  ASSUME LadderInvs, NEW o \in Owner, LadderInv(o)', OnlyOf(o)
  PROVE  LadderInvs'
  <1> SUFFICES ASSUME NEW p \in Owner PROVE LadderInv(p)'
    BY Zenon DEF LadderInvs
  <1>1. CASE p = o
    BY <1>1, Zenon
  <1>2. CASE p # o
    <2>1. held'[p] = held[p] /\ mode'[p] = mode[p] /\ work'[p] = work[p]
      BY <1>2, Zenon DEF OnlyOf
    <2>2. LadderInv(p)
      BY Zenon DEF LadderInvs
    <2> QED
      BY <2>1, <2>2, Zenon DEF LadderInv, AcquiringFrom, ReleasingFrom
  <1> QED
    BY <1>1, <1>2

\* What Proceed does.
LEMMA Proceeds ==
  ASSUME Shapes, NEW o \in Owner, NEW m, NEW steps, Proceed(o, m, steps)
  PROVE  /\ mode'[o] = IF steps = <<>> THEN "idle" ELSE m
         /\ work'[o] = steps
         /\ \A p \in Owner \ {o} : mode'[p] = mode[p] /\ work'[p] = work[p]
  BY Zenon DEF Proceed, Shapes

\* Proceed keeps the types.
LEMMA ProceedTypes ==
  ASSUME Shapes, NEW o \in Owner, NEW m \in {"acquiring", "releasing"},
         NEW steps \in Seq(Resource), Proceed(o, m, steps)
  PROVE  /\ mode' \in [Owner -> {"idle", "acquiring", "releasing"}]
         /\ work' \in [Owner -> Seq(Resource)]
  BY DEF Proceed, Shapes

\* What Begin does.
LEMMA BeginOf ==
  ASSUME Shapes, NEW o \in Owner, NEW m, NEW steps, Begin(o, m, steps)
  PROVE  mode'[o] = m /\ work'[o] = steps /\ held' = held /\ OnlyOf(o)
  BY Zenon DEF Begin, Shapes, OnlyOf

\* Begin keeps the types.
LEMMA BeginTypes ==
  ASSUME Shapes, NEW o \in Owner, NEW m \in {"acquiring", "releasing"},
         NEW steps \in Seq(Resource), Begin(o, m, steps)
  PROVE  Shapes'
  BY DEF Begin, Shapes

\* A probe or a load begins with nothing acquired.
LEMMA BeginAcquiring ==
  ASSUME Shapes, LadderInvs, NEW o \in Owner, held[o] = {},
         Begin(o, "acquiring", Steps(o))
  PROVE  Shapes' /\ LadderInvs' /\ OnlyOf(o)
  <1>1. 1 \in 1 .. Len(Steps(o)) /\ Before(Steps(o), 1) = {}
    BY WaysFacts, Grows
  <1>2. Steps(o) = SubSeq(Steps(o), 1, Len(Steps(o)))
    BY WaysFacts, SubSeqFull, Zenon
  <1>3. LadderInv(o)'
    BY <1>1, <1>2, BeginOf, Zenon DEF LadderInv, AcquiringFrom
  <1> QED
    BY <1>3, BeginOf, BeginTypes, OthersKeep, WaysFacts, Zenon

\* A removal or an unload begins with everything acquired.
LEMMA BeginReleasing ==
  ASSUME Shapes, LadderInvs, NEW o \in Owner, NEW s \in Ways(o), held[o] = From(s, 1),
         Begin(o, "releasing", s)
  PROVE  Shapes' /\ LadderInvs' /\ OnlyOf(o)
  <1>1. 1 \in 1 .. Len(s)
    BY WaysFacts
  <1>2. s = SubSeq(s, 1, Len(s))
    BY WaysFacts, SubSeqFull, Zenon
  <1>3. LadderInv(o)'
    BY <1>1, <1>2, BeginOf, Zenon DEF LadderInv, ReleasingFrom
  <1> QED
    BY <1>3, BeginOf, BeginTypes, OthersKeep, WaysFacts, Zenon

\* A step of a probe or a load that succeeds.
LEMMA AcquireKeeps ==
  ASSUME Shapes, LadderInvs, NEW o \in Owner, Acquire(o)
  PROVE  /\ LadderInvs' /\ OnlyOf(o)
         /\ \E k \in 1 .. Len(Steps(o)) :
              /\ AcquiringFrom(o, k)
              /\ held'[o] = Before(Steps(o), k + 1)
              /\ Head(work[o]) = Steps(o)[k]
              /\ Tail(work[o]) \in Seq(Resource)
  <1> DEFINE s == Steps(o)
             n == Len(s)
  <1>1. s \in Seq(Resource) /\ n \in Nat \ {0} /\ Distinct(s)
    BY WaysFacts, Zenon
  <1> HIDE DEF s
  <1>2. PICK k \in 1 .. n : AcquiringFrom(o, k)
    BY Zenon DEF s, Acquire, LadderInvs, LadderInv, ReleasingFrom
  <1>3. /\ Head(work[o]) = s[k] /\ Tail(work[o]) = SubSeq(s, k + 1, n)
        /\ Tail(work[o]) = <<>> <=> k = n
    BY <1>1, <1>2, Suffix, Zenon DEF AcquiringFrom, s
  <1>4. held' = [held EXCEPT ![o] = @ \cup {s[k]}] /\ Proceed(o, "acquiring", Tail(work[o]))
    BY <1>3, Zenon DEF Acquire
  <1>5. held'[o] = Before(s, k + 1) /\ \A p \in Owner \ {o} : held'[p] = held[p]
    <2>1. held'[o] = held[o] \cup {s[k]}
      BY <1>4, Zenon DEF Shapes
    <2>2. Before(s, k) \cup {s[k]} = Before(s, k + 1)
      BY <1>1, Grows
    <2> QED
      BY <1>2, <1>4, <2>1, <2>2, Zenon DEF AcquiringFrom, s, Shapes
  <1>6. OnlyOf(o)
    BY <1>4, <1>5, Proceeds, Zenon DEF OnlyOf
  <1>7. LadderInv(o)'
    <2>1. CASE k = n
      <3>1. mode'[o] = "idle"
        BY <1>3, <1>4, <2>1, Proceeds, ZenonT(40)
      <3>2. held'[o] = From(s, 1)
        <4>1. Len(s) \in Nat
          BY <1>1
        <4>2. Before(s, Len(s) + 1) = From(s, 1)
          BY <4>1, Grows, Zenon
        <4> QED
          BY <1>5, <2>1, <4>2, Zenon
      <3> QED
        BY <3>1, <3>2, Zenon DEF LadderInv, s
    <2>2. CASE k # n
      <3>1. k + 1 \in 1 .. n
        BY <1>1, <2>2
      <3>2. mode'[o] = "acquiring" /\ work'[o] = SubSeq(s, k + 1, n)
        <4>1. Tail(work[o]) # <<>>
          BY <1>3, <2>2, Zenon
        <4>2. /\ mode'[o] = IF Tail(work[o]) = <<>> THEN "idle" ELSE "acquiring"
              /\ work'[o] = Tail(work[o])
          BY <1>4, Proceeds, ZenonT(40)
        <4> QED
          BY <1>3, <4>1, <4>2, Zenon
      <3> QED
        BY <1>5, <3>1, <3>2, Zenon DEF LadderInv, AcquiringFrom, s
    <2> QED
      BY <2>1, <2>2
  <1>8. Tail(work[o]) \in Seq(Resource)
    <2>1. k + 1 \in 1 .. n + 1
      BY <1>1
    <2> QED
      BY <1>1, <1>3, <2>1, SuffixType, Zenon
  <1> QED
    BY <1>2, <1>3, <1>5, <1>6, <1>7, <1>8, OthersKeep, ZenonT(40) DEF s

\* A step that fails: the error path begins where it should.
LEMMA StepFailsKeeps ==
  ASSUME Shapes, LadderInvs, NEW o \in Owner, StepFails(o)
  PROVE  Shapes' /\ LadderInvs' /\ OnlyOf(o) /\ held' = held
  <1> DEFINE s == Steps(o)
             n == Len(s)
  <1>1. s \in Seq(Resource) /\ n \in Nat \ {0}
    BY WaysFacts, Zenon
  <1>2. PICK k \in 1 .. n : AcquiringFrom(o, k)
    BY Zenon DEF StepFails, LadderInvs, LadderInv, ReleasingFrom
  <1>3. Head(work[o]) = s[k] /\ s[k] # "drvdata"
    BY <1>1, <1>2, Suffix, Zenon DEF AcquiringFrom, StepFails
  <1>4. /\ Proceed(o, "releasing", Undo(o, s[k])) /\ held' = held
        /\ instance' = instance
    BY <1>3, Zenon DEF StepFails
  <1>5. OnlyOf(o)
    BY <1>4, Proceeds, Zenon DEF OnlyOf
  <1>6. LadderInv(o)' /\ Undo(o, s[k]) \in Seq(Resource)
    <2>1. CASE k = 1 /\ Undo(o, s[k]) = <<>>
      <3>1. mode'[o] = "idle"
        BY <1>4, <2>1, Proceeds, Zenon
      <3>2. held'[o] = {}
        BY <1>1, <1>2, <1>4, <2>1, Grows DEF AcquiringFrom
      <3>3. <<>> \in Seq(Resource)
        OBVIOUS
      <3> QED
        BY <2>1, <3>1, <3>2, <3>3, Zenon DEF LadderInv
    <2>2. ASSUME NEW w \in Ways(o), NEW m \in 1 .. Len(w),
                 Undo(o, s[k]) = SubSeq(w, m, Len(w)), From(w, m) = Before(s, k)
          PROVE  LadderInv(o)' /\ Undo(o, s[k]) \in Seq(Resource)
      <3>1. w \in Seq(Resource) /\ Len(w) \in Nat
        BY WaysFacts
      <3>2. SubSeq(w, m, Len(w)) # <<>>
        BY <3>1, Suffix, Zenon
      <3>3. mode'[o] = "releasing" /\ work'[o] = SubSeq(w, m, Len(w))
        BY <1>4, <2>2, <3>2, Proceeds, ZenonT(40)
      <3>4. held'[o] = From(w, m)
        BY <1>2, <1>4, <2>2, Zenon DEF AcquiringFrom
      <3>5. SubSeq(w, m, Len(w)) \in Seq(Resource)
        <4>1. m \in 1 .. Len(w) + 1
          BY <3>1
        <4> QED
          BY <3>1, <4>1, SuffixType, Zenon
      <3> QED
        BY <2>2, <3>3, <3>4, <3>5, Zenon DEF LadderInv, ReleasingFrom
    <2> QED
      BY <1>3, <2>1, <2>2, UndoWay, Zenon
  <1>7. Shapes'
    BY <1>4, <1>6, ProceedTypes, Zenon DEF Shapes
  <1> QED
    BY <1>4, <1>5, <1>6, <1>7, OthersKeep, Zenon

\* A step of a removal, an unload or an error path.
LEMMA ReleaseKeeps ==
  ASSUME Shapes, LadderInvs, NEW o \in Owner, ReleaseStep(o)
  PROVE  /\ Shapes' /\ LadderInvs' /\ OnlyOf(o)
         /\ \E s \in Ways(o) : \E k \in 1 .. Len(s) :
              ReleasingFrom(o, s, k) /\ held'[o] = From(s, k + 1) /\ Head(work[o]) = s[k]
  <1>1. PICK s \in Ways(o) : \E k \in 1 .. Len(s) : ReleasingFrom(o, s, k)
    BY Zenon DEF ReleaseStep, LadderInvs, LadderInv, AcquiringFrom
  <1>2. PICK k \in 1 .. Len(s) : ReleasingFrom(o, s, k)
    BY <1>1
  <1> DEFINE n == Len(s)
  <1>3. s \in Seq(Resource) /\ n \in Nat \ {0} /\ Distinct(s)
    BY WaysFacts, Zenon
  <1>4. /\ Head(work[o]) = s[k] /\ Tail(work[o]) = SubSeq(s, k + 1, n)
        /\ Tail(work[o]) = <<>> <=> k = n
    BY <1>2, <1>3, Suffix, Zenon DEF ReleasingFrom
  <1>5. /\ held' = [held EXCEPT ![o] = @ \ {s[k]}]
        /\ Proceed(o, "releasing", Tail(work[o])) /\ instance' = instance
    BY <1>4, Zenon DEF ReleaseStep, scan
  <1>6. held'[o] = From(s, k + 1) /\ \A p \in Owner \ {o} : held'[p] = held[p]
    <2>1. held'[o] = held[o] \ {s[k]} /\ \A p \in Owner \ {o} : held'[p] = held[p]
      BY <1>5, Zenon DEF Shapes
    <2>2. From(s, k) \ {s[k]} = From(s, k + 1)
      BY <1>3, Shrinks, Zenon
    <2> QED
      BY <1>2, <2>1, <2>2, Zenon DEF ReleasingFrom
  <1>7. OnlyOf(o)
    BY <1>5, <1>6, Proceeds, Zenon DEF OnlyOf
  <1>8. LadderInv(o)'
    <2>1. CASE k = n
      <3>1. mode'[o] = "idle"
        BY <1>4, <1>5, <2>1, Proceeds, ZenonT(40)
      <3>2. held'[o] = {}
        <4>1. Len(s) \in Nat
          BY <1>3
        <4>2. From(s, Len(s) + 1) = {}
          BY <1>3, <4>1, Shrinks, Zenon
        <4> QED
          BY <1>6, <2>1, <4>2, Zenon
      <3> QED
        BY <3>1, <3>2, Zenon DEF LadderInv
    <2>2. CASE k # n
      <3>1. k + 1 \in 1 .. n
        BY <1>3, <2>2
      <3>2. mode'[o] = "releasing" /\ work'[o] = SubSeq(s, k + 1, n)
        <4>1. Tail(work[o]) # <<>>
          BY <1>4, <2>2, Zenon
        <4>2. /\ mode'[o] = IF Tail(work[o]) = <<>> THEN "idle" ELSE "releasing"
              /\ work'[o] = Tail(work[o])
          BY <1>5, Proceeds, ZenonT(40)
        <4> QED
          BY <1>4, <4>1, <4>2, Zenon
      <3> QED
        BY <1>6, <3>1, <3>2, Zenon DEF LadderInv, ReleasingFrom
    <2> QED
      BY <2>1, <2>2
  <1>9. Shapes'
    <2>1. k + 1 \in 1 .. n + 1
      BY <1>3
    <2>2. Tail(work[o]) \in Seq(Resource)
      BY <1>3, <1>4, <2>1, SuffixType, Zenon
    <2>3. held' \in [Owner -> SUBSET Resource]
      BY <1>5 DEF Shapes
    <2> QED
      BY <1>5, <2>2, <2>3, ProceedTypes, Zenon DEF Shapes
  <1> QED
    BY <1>2, <1>4, <1>6, <1>7, <1>8, <1>9, OthersKeep, Zenon

-----------------------------------------------------------------------------
\* A function with a cdev or a node still has its number.
LEMMA DeviceHasInstance ==
  ASSUME NEW f \in Fn, LadderInv(f), {"cdev", "node"} \cap held[f] # {}
  PROVE  "instance" \in held[f]
  <1>1. Steps(f) = ProbeSteps /\ Ways(f) = {Ladder, RemoveSteps}
    BY FnAssumption DEF Steps, Ways
  <1>2. CASE held[f] = {}
    BY <1>2
  <1>3. CASE held[f] = From(ProbeSteps, 1)
    BY <1>3 DEF From, ProbeSteps
  <1>4. ASSUME NEW k \in 1 .. Len(ProbeSteps), held[f] = Before(ProbeSteps, k)
        PROVE  "instance" \in held[f]
    BY <1>4 DEF Before, ProbeSteps
  <1>5. ASSUME NEW k \in 1 .. Len(Ladder), held[f] = From(Ladder, k)
        PROVE  "instance" \in held[f]
    BY <1>5 DEF From, Ladder
  <1>6. ASSUME NEW k \in 1 .. Len(RemoveSteps), held[f] = From(RemoveSteps, k)
        PROVE  "instance" \in held[f]
    BY <1>6 DEF From, RemoveSteps
  <1> QED
    BY <1>1, <1>2, <1>3, <1>4, <1>5, <1>6, Zenon DEF LadderInv, AcquiringFrom, ReleasingFrom

\* While the driver is registered the class and the numbers are there.
LEMMA DriverHasClass ==
  ASSUME LadderInv(Module), "driver" \in held[Module]
  PROVE  {"region", "class"} \subseteq held[Module]
  <1>1. Steps(Module) = InitSteps /\ Ways(Module) = {ExitSteps}
    BY DEF Steps, Ways
  <1>2. CASE held[Module] = {}
    BY <1>2
  <1>3. CASE held[Module] = From(InitSteps, 1)
    BY <1>3 DEF From, InitSteps
  <1>4. ASSUME NEW k \in 1 .. Len(InitSteps), held[Module] = Before(InitSteps, k)
        PROVE  {"region", "class"} \subseteq held[Module]
    BY <1>4 DEF Before, InitSteps
  <1>5. ASSUME NEW k \in 1 .. Len(ExitSteps), held[Module] = From(ExitSteps, k)
        PROVE  {"region", "class"} \subseteq held[Module]
    BY <1>5 DEF From, ExitSteps
  <1> QED
    BY <1>1, <1>2, <1>3, <1>4, <1>5, Zenon DEF LadderInv, AcquiringFrom, ReleasingFrom

\* What pci_unregister_driver waits for: the function has nothing left.
LEMMA Unbound ==
  ASSUME NEW f \in Fn, LadderInv(f), mode[f] = "idle", "memory" \notin held[f]
  PROVE  held[f] = {}
  <1>1. Steps(f) = ProbeSteps
    BY FnAssumption DEF Steps
  <1>2. "memory" \in From(ProbeSteps, 1)
    BY DEF From, ProbeSteps
  <1> QED
    BY <1>1, <1>2, Zenon DEF LadderInv, AcquiringFrom, ReleasingFrom

\* ida_simple_get finds a number, and one that no function has.
LEMMA FreeInstanceIsFree ==
  ASSUME Shapes
  PROVE  /\ FreeInstance \in Nat
         /\ \A g \in Fn : "instance" \in held[g] => instance[g] # FreeInstance
  <1> DEFINE G == {g \in Fn : "instance" \in held[g]}
             used == {instance[f] : f \in G}
             n == Cardinality(Fn)
             free == (0 .. n) \ used
  <1>1. n \in Nat /\ IsFiniteSet(G) /\ Cardinality(G) <= n /\ Cardinality(G) \in Nat
    <2>1. IsFiniteSet(Fn) /\ G \in SUBSET Fn
      BY FnAssumption
    <2> HIDE DEF G
    <2> QED
      BY <2>1, FS_Subset, FS_CardinalityType
  <1>2. IsFiniteSet(used) /\ Cardinality(used) <= n /\ Cardinality(used) \in Nat
    <2>1. [f \in G |-> instance[f]] \in Surjection(G, used)
      BY DEF Surjection
    <2> HIDE DEF G, used
    <2>2. IsFiniteSet(used) /\ Cardinality(used) <= Cardinality(G)
      BY <1>1, <2>1, FS_Surjection
    <2>3. Cardinality(used) \in Nat
      BY <2>2, FS_CardinalityType
    <2> QED
      BY <1>1, <2>2, <2>3
  <1>3. free # {}
    <2> SUFFICES ASSUME free = {} PROVE FALSE
      OBVIOUS
    <2>1. (0 .. n) \in SUBSET used
      OBVIOUS
    <2> HIDE DEF used, n
    <2>2. Cardinality(0 .. n) <= Cardinality(used)
      BY <1>2, <2>1, FS_Subset, Zenon
    <2>3. Cardinality(0 .. n) = n + 1
      BY <1>1, FS_Interval
    <2> QED
      BY <1>1, <1>2, <2>2, <2>3
  <1>4. free \in SUBSET Nat
    OBVIOUS
  <1>5. FreeInstance = CHOOSE i \in free : \A j \in free : i <= j
    BY Zenon DEF FreeInstance
  <1>6. FreeInstance \in free
    <2> HIDE DEF free
    <2> QED
      BY <1>3, <1>4, <1>5, LeastNat, Zenon
  <1> QED
    BY <1>4, <1>6

\* Functions at the same time bound have numbers of their own.
InstancesApart ==
  \A f, g \in Fn :
    f # g /\ "instance" \in held[f] /\ "instance" \in held[g] => instance[f] # instance[g]

\* While a function is bound, or is being bound or removed, the driver is
\* registered.
DriverStays ==
  \A f \in Fn : mode[f] # "idle" \/ held[f] # {} => "driver" \in held[Module]

\* The inductive invariant.
DevicesInv ==
  Shapes /\ LadderInvs /\ InstancesApart /\ DriverStays /\ OpensWhatWasAsked

\* Before insmod.
LEMMA InitDevicesInv == DevicesInit => DevicesInv
  <1> SUFFICES ASSUME DevicesInit PROVE DevicesInv
    OBVIOUS
  <1>1. Shapes
    BY DEF DevicesInit, Shapes
  <1>2. \A o \in Owner : mode[o] = "idle" /\ held[o] = {}
    BY DEF DevicesInit
  <1>3. LadderInvs
    BY <1>2, Zenon DEF LadderInvs, LadderInv
  <1>4. InstancesApart /\ DriverStays
    BY <1>2, Zenon DEF InstancesApart, DriverStays, Owner
  <1> QED
    BY <1>1, <1>3, <1>4 DEF DevicesInv, DevicesInit, OpensWhatWasAsked

\* What concerns two owners, when one of them takes a step.
LEMMA FunctionsKeep ==
  ASSUME DevicesInv, LadderInvs', NEW f \in Fn, OnlyOf(f),
         instance' = instance \/ \E n \in Nat : instance' = [instance EXCEPT ![f] = n],
         "instance" \in held'[f] =>
           \A g \in Fn \ {f} : "instance" \in held[g] => instance[g] # instance'[f],
         "driver" \in held[Module]
  PROVE  InstancesApart' /\ DriverStays'
  <1>1. Module \in Owner \ {f} /\ \A g \in Fn : g \in Owner
    BY FnAssumption DEF Owner
  <1>2. held'[Module] = held[Module]
    BY <1>1, Zenon DEF OnlyOf
  <1>3. DriverStays'
    BY <1>2, Zenon DEF DriverStays
  <1>4. \A g \in Fn \ {f} : held'[g] = held[g] /\ instance'[g] = instance[g]
    BY <1>1 DEF OnlyOf, DevicesInv, Shapes
  <1>5. InstancesApart'
    BY <1>4, Zenon DEF DevicesInv, InstancesApart
  <1> QED
    BY <1>3, <1>5

\* The same when the step is one of the module.
LEMMA ModuleKeeps ==
  ASSUME DevicesInv, OnlyOf(Module), instance' = instance,
         "driver" \in held[Module] =>
           "driver" \in held'[Module] \/ \A f \in Fn : mode[f] = "idle" /\ held[f] = {}
  PROVE  InstancesApart' /\ DriverStays'
  <1>1. \A f \in Fn : f \in Owner \ {Module}
    BY FnAssumption DEF Owner
  <1>2. \A f \in Fn : held'[f] = held[f] /\ mode'[f] = mode[f]
    BY <1>1, Zenon DEF OnlyOf
  <1> QED
    BY <1>2, Zenon DEF DevicesInv, InstancesApart, DriverStays

\* The same resources in another order.
LEMMA SameResources ==
  From(ExitSteps, 1) = From(InitSteps, 1) /\ From(RemoveSteps, 1) = From(ProbeSteps, 1)
  <1>1. From(ExitSteps, 1) = {"region", "class", "driver"}
    BY DEF From, ExitSteps
  <1>2. From(InitSteps, 1) = {"region", "class", "driver"}
    BY DEF From, InitSteps
  <1>3. From(RemoveSteps, 1) =
          {"memory", "instance", "enabled", "regions", "drvdata", "cdev", "node"}
    BY DEF From, RemoveSteps
  <1>4. From(ProbeSteps, 1) =
          {"memory", "instance", "enabled", "regions", "drvdata", "cdev", "node"}
    BY DEF From, ProbeSteps
  <1> QED
    BY <1>1, <1>2, <1>3, <1>4, Zenon

\* Between two calls an owner has everything or nothing.
LEMMA BoundHoldsAll ==
  ASSUME NEW o \in Owner, LadderInv(o), mode[o] = "idle", held[o] # {}
  PROVE  held[o] = From(Steps(o), 1)
  BY Zenon DEF LadderInv, AcquiringFrom, ReleasingFrom

\* An owner is the module or a function, each with its own orders.
LEMMA OwnerKinds ==
  /\ \A f \in Fn : f \in Owner /\ f # Module
  /\ Module \in Owner /\ \A o \in Owner : o \in Fn \/ o = Module
  /\ Steps(Module) = InitSteps /\ ExitSteps \in Ways(Module)
  /\ \A f \in Fn : Steps(f) = ProbeSteps /\ RemoveSteps \in Ways(f)
  BY FnAssumption, Zenon DEF Owner, Steps, Ways

\* Acquire keeps the invariant: a number is given to one function only.
LEMMA AcquireInv == ASSUME DevicesInv, NEW o \in Owner, Acquire(o) PROVE DevicesInv'
  <1>1. Shapes /\ LadderInvs
    BY DEF DevicesInv
  <1>2. LadderInvs' /\ OnlyOf(o)
    BY <1>1, AcquireKeeps, Zenon
  <1>3. PICK k \in 1 .. Len(Steps(o)) :
          /\ AcquiringFrom(o, k)
          /\ Head(work[o]) = Steps(o)[k] /\ Tail(work[o]) \in Seq(Resource)
    BY <1>1, AcquireKeeps, Zenon
  <1> DEFINE step == Head(work[o])
  <1>4. /\ held' = [held EXCEPT ![o] = @ \cup {step}]
        /\ instance' = IF step = "instance"
                       THEN [instance EXCEPT ![o] = FreeInstance] ELSE instance
        /\ Proceed(o, "acquiring", Tail(work[o])) /\ want' = want /\ opened' = opened
    BY Zenon DEF Acquire, scan
  <1>5. step \in Resource
    BY <1>3, WaysFacts, ElementOfSeq
  <1>6. o = Module => step # "instance"
    <2>1. o = Module => k \in 1 .. 3 /\ Steps(o) = InitSteps
      BY DEF Steps, InitSteps
    <2>2. \A i \in 1 .. 3 : InitSteps[i] # "instance"
      BY DEF InitSteps
    <2> QED
      BY <1>3, <2>1, <2>2, Zenon
  <1>7. Shapes'
    <2> HIDE DEF step
    <2>1. held' \in [Owner -> SUBSET Resource]
      BY <1>1, <1>4, <1>5 DEF Shapes
    <2>2. instance' \in [Fn -> Nat]
      BY <1>1, <1>4, FreeInstanceIsFree, Zenon DEF Shapes
    <2>3. /\ mode' \in [Owner -> {"idle", "acquiring", "releasing"}]
          /\ work' \in [Owner -> Seq(Resource)]
      BY <1>1, <1>3, <1>4, ProceedTypes, Zenon
    <2> QED
      BY <2>1, <2>2, <2>3, Zenon DEF Shapes
  <1>8. held'[o] = held[o] \cup {step}
    BY <1>1, <1>4, Zenon DEF Shapes
  <1>9. InstancesApart' /\ DriverStays'
    <2>1. CASE o \in Fn
      <3>1. "driver" \in held[Module]
        BY <1>3, <2>1, Zenon DEF DevicesInv, DriverStays, AcquiringFrom
      <3>2. CASE step = "instance"
        <4>1. instance'[o] = FreeInstance
          BY <1>1, <1>4, <2>1, <3>2, Zenon DEF Shapes
        <4>2. FreeInstance \in Nat /\ instance' = [instance EXCEPT ![o] = FreeInstance]
          BY <1>1, <1>4, <3>2, FreeInstanceIsFree, Zenon
        <4>3. \A g \in Fn \ {o} : "instance" \in held[g] => instance[g] # instance'[o]
          BY <1>1, <4>1, FreeInstanceIsFree, Zenon
        <4> QED
          BY <1>2, <2>1, <3>1, <4>2, <4>3, FunctionsKeep, Zenon
      <3>3. CASE step # "instance"
        <4>1. instance' = instance
          BY <1>4, <3>3, Zenon
        <4>2. "instance" \in held'[o] => "instance" \in held[o]
          BY <1>8, <3>3, Zenon
        <4>3. "instance" \in held'[o] =>
                \A g \in Fn \ {o} : "instance" \in held[g] => instance[g] # instance'[o]
          BY <2>1, <4>1, <4>2, Zenon DEF DevicesInv, InstancesApart
        <4> QED
          BY <1>2, <2>1, <3>1, <4>1, <4>3, FunctionsKeep, Zenon
      <3> QED
        BY <3>2, <3>3
    <2>2. CASE o = Module
      <3>1. instance' = instance
        BY <1>4, <1>6, <2>2, Zenon
      <3> QED
        BY <1>2, <1>8, <2>2, <3>1, ModuleKeeps, Zenon
    <2> QED
      BY <2>1, <2>2, OwnerKinds
  <1> QED
    BY <1>2, <1>4, <1>7, <1>9, Zenon DEF DevicesInv, OpensWhatWasAsked

\* A step that leaves the numbers and gives no new resource.
LEMMA OwnerKeeps ==
  ASSUME DevicesInv, LadderInvs', NEW o \in Owner, OnlyOf(o), instance' = instance,
         held'[o] \subseteq held[o], mode[o] # "idle" \/ held[o] # {} \/ o = Module,
         o = Module => ("driver" \in held[Module] =>
           "driver" \in held'[Module] \/ \A f \in Fn : mode[f] = "idle" /\ held[f] = {})
  PROVE  InstancesApart' /\ DriverStays'
  <1>1. CASE o = Module
    BY <1>1, ModuleKeeps, Zenon
  <1>2. CASE o \in Fn /\ o # Module
    <2>1. "driver" \in held[Module]
      BY <1>2, Zenon DEF DevicesInv, DriverStays
    <2>2. "instance" \in held'[o] =>
            \A g \in Fn \ {o} : "instance" \in held[g] => instance[g] # instance'[o]
      BY <1>2, Zenon DEF DevicesInv, InstancesApart
    <2> QED
      BY <1>2, <2>1, <2>2, FunctionsKeep, Zenon
  <1> QED
    BY <1>1, <1>2, OwnerKinds, Zenon

\* StepFails keeps the invariant.
LEMMA StepFailsInv == ASSUME DevicesInv, NEW o \in Owner, StepFails(o) PROVE DevicesInv'
  <1>1. Shapes' /\ LadderInvs' /\ OnlyOf(o) /\ held' = held
    BY StepFailsKeeps, Zenon DEF DevicesInv
  <1>2. instance' = instance /\ want' = want /\ opened' = opened /\ mode[o] = "acquiring"
    BY Zenon DEF StepFails, scan
  <1>3. "acquiring" # "idle"
    OBVIOUS
  <1>4. InstancesApart' /\ DriverStays'
    BY <1>1, <1>2, <1>3, OwnerKeeps, Zenon
  <1> QED
    BY <1>1, <1>2, <1>4, Zenon DEF DevicesInv, OpensWhatWasAsked

\* ReleaseStep keeps the invariant: the driver goes after the last function.
LEMMA ReleaseInv == ASSUME DevicesInv, NEW o \in Owner, ReleaseStep(o) PROVE DevicesInv'
  <1>1. Shapes' /\ LadderInvs' /\ OnlyOf(o)
    BY ReleaseKeeps, Zenon DEF DevicesInv
  <1>2. instance' = instance /\ want' = want /\ opened' = opened /\ mode[o] = "releasing"
    BY Zenon DEF ReleaseStep, scan
  <1>3. held'[o] = held[o] \ {Head(work[o])}
    BY Zenon DEF ReleaseStep, DevicesInv, Shapes
  <1>4. Head(work[o]) = "driver" => \A f \in Fn : mode[f] = "idle" /\ held[f] = {}
    <2> SUFFICES ASSUME Head(work[o]) = "driver", NEW f \in Fn
                 PROVE  mode[f] = "idle" /\ held[f] = {}
      OBVIOUS
    <2>1. mode[f] = "idle" /\ "memory" \notin held[f]
      BY Zenon DEF ReleaseStep
    <2>2. LadderInv(f)
      BY OwnerKinds, Zenon DEF DevicesInv, LadderInvs
    <2> QED
      BY <2>1, <2>2, Unbound, Zenon
  <1>5. "releasing" # "idle"
    OBVIOUS
  <1>6. held'[o] \subseteq held[o]
    BY <1>3, Zenon
  <1>7. o = Module => ("driver" \in held[Module] =>
          "driver" \in held'[Module] \/ \A f \in Fn : mode[f] = "idle" /\ held[f] = {})
    BY <1>3, <1>4, Zenon
  <1>8. InstancesApart' /\ DriverStays'
    BY <1>1, <1>2, <1>5, <1>6, <1>7, OwnerKeeps, ZenonT(40)
  <1> QED
    BY <1>1, <1>2, <1>8, Zenon DEF DevicesInv, OpensWhatWasAsked

\* The four ways a sequence begins.
LEMMA BeginInv ==
  ASSUME DevicesInv,
         genpci_init \/ genpci_exit \/ \E f \in Fn : genpci_probe(f) \/ genpci_remove(f)
  PROVE  DevicesInv'
  <1>1. Shapes /\ LadderInvs
    BY DEF DevicesInv
  <1>2. ASSUME NEW o \in Owner, NEW m, NEW steps, Begin(o, m, steps),
               o # Module => "driver" \in held[Module],
               Shapes', LadderInvs', OnlyOf(o)
        PROVE  DevicesInv'
    <2>1. held' = held /\ instance' = instance /\ want' = want /\ opened' = opened
      BY <1>2, Zenon DEF Begin, scan
    <2>2. InstancesApart' /\ DriverStays'
      <3>1. CASE o = Module
        BY <1>2, <2>1, <3>1, ModuleKeeps, Zenon
      <3>2. CASE o # Module
        <4>1. o \in Fn
          BY <3>2, OwnerKinds
        <4>2. "instance" \in held'[o] =>
                \A g \in Fn \ {o} : "instance" \in held[g] => instance[g] # instance'[o]
          BY <2>1, <4>1, Zenon DEF DevicesInv, InstancesApart
        <4> QED
          BY <1>2, <2>1, <3>2, <4>1, <4>2, FunctionsKeep, ZenonT(40)
      <3> QED
        BY <3>1, <3>2
    <2> QED
      BY <1>2, <2>1, <2>2, Zenon DEF DevicesInv, OpensWhatWasAsked
  <1>3. CASE genpci_init
    <2>1. held[Module] = {} /\ Begin(Module, "acquiring", Steps(Module))
      BY <1>3, OwnerKinds, Zenon DEF genpci_init
    <2> QED
      BY <1>1, <1>2, <2>1, OwnerKinds, BeginAcquiring, Zenon
  <1>4. CASE genpci_exit
    <2>1. held[Module] # {} /\ Begin(Module, "releasing", ExitSteps) /\ mode[Module] = "idle"
      BY <1>4, Zenon DEF genpci_exit, Begin
    <2>2. held[Module] = From(ExitSteps, 1)
      BY <1>1, <2>1, OwnerKinds, BoundHoldsAll, SameResources, Zenon DEF LadderInvs
    <2> QED
      BY <1>1, <1>2, <2>1, <2>2, OwnerKinds, BeginReleasing, Zenon
  <1>5. ASSUME NEW f \in Fn, genpci_probe(f) PROVE DevicesInv'
    <2>1. /\ held[f] = {} /\ Begin(f, "acquiring", Steps(f))
          /\ "driver" \in held[Module]
      BY <1>5, OwnerKinds, Zenon DEF genpci_probe
    <2> QED
      BY <1>1, <1>2, <2>1, OwnerKinds, BeginAcquiring, Zenon
  <1>6. ASSUME NEW f \in Fn, genpci_remove(f) PROVE DevicesInv'
    <2>1. held[f] # {} /\ Begin(f, "releasing", RemoveSteps) /\ mode[f] = "idle"
      BY <1>6, Zenon DEF genpci_remove, Begin
    <2>2. held[f] = From(RemoveSteps, 1)
      BY <1>1, <2>1, OwnerKinds, BoundHoldsAll, SameResources, Zenon DEF LadderInvs
    <2>3. "driver" \in held[Module]
      BY <2>1, Zenon DEF DevicesInv, DriverStays
    <2> QED
      BY <1>1, <1>2, <2>1, <2>2, <2>3, OwnerKinds, BeginReleasing, ZenonT(40)
  <1> QED
    BY <1>3, <1>4, <1>5, <1>6, Zenon

\* The steps of dma_open_domain leave the devices alone.
LEMMA ScanInv ==
  ASSUME DevicesInv, devs' = devs, OpensWhatWasAsked' PROVE DevicesInv'
  <1>1. held' = held /\ mode' = mode /\ work' = work /\ instance' = instance
    BY DEF devs
  <1> QED
    BY <1>1, Zenon DEF DevicesInv, Shapes, LadderInvs, LadderInv, AcquiringFrom,
                       ReleasingFrom, InstancesApart, DriverStays

\* Every step of the driver and of dma_open_domain keeps the invariant.
LEMMA NextDevicesInv == DevicesInv /\ [DevicesNext]_devicesVars => DevicesInv'
  <1> SUFFICES ASSUME DevicesInv, [DevicesNext]_devicesVars PROVE DevicesInv'
    OBVIOUS
  <1>1. ASSUME NEW o \in Owner, Acquire(o) \/ StepFails(o) \/ ReleaseStep(o)
        PROVE  DevicesInv'
    BY <1>1, AcquireInv, StepFailsInv, ReleaseInv, Zenon
  <1>2. CASE genpci_init \/ genpci_exit
    BY <1>2, BeginInv, Zenon
  <1>3. ASSUME NEW f \in Fn, genpci_probe(f) \/ genpci_remove(f) PROVE DevicesInv'
    BY <1>3, BeginInv, Zenon
  <1>4. CASE OpenDir
    BY <1>4, ScanInv, Zenon DEF OpenDir, OpensWhatWasAsked, DevicesInv
  <1>5. CASE CloseDir
    BY <1>5, ScanInv, Zenon DEF CloseDir, OpensWhatWasAsked
  <1>6. ASSUME NEW i \in todo, ScanName(i) PROVE DevicesInv'
    <2>1. devs' = devs /\ want' = want /\ (opened' = NoFn \/ opened' = want)
      BY <1>6, Zenon DEF ScanName, bdf_matches
    <2> QED
      BY <2>1, ScanInv, Zenon DEF OpensWhatWasAsked
  <1>7. CASE UNCHANGED devicesVars
    <2>1. devs' = devs /\ want' = want /\ opened' = opened
      BY <1>7, SMTT(30) DEF devicesVars, devs
    <2> QED
      BY <2>1, ScanInv, Zenon DEF OpensWhatWasAsked, DevicesInv
  <1> QED
    BY <1>1, <1>2, <1>3, <1>4, <1>5, <1>6, <1>7, ZenonT(40) DEF DevicesNext

\* For any number of functions, probed and removed in any interleaving and failing
\* at any step: a probe, a load, a removal or an unload that has ended left
\* everything acquired or nothing.
THEOREM ProbesAllOrNothing == DevicesSpec => []AllOrNothing
  <1>1. DevicesInv => AllOrNothing
    <2> SUFFICES ASSUME DevicesInv, NEW o \in Owner, mode[o] = "idle"
                 PROVE  held[o] \in {{}, Range(IF o = Module THEN InitSteps ELSE ProbeSteps)}
      BY Zenon DEF AllOrNothing
    <2>1. \A s \in {InitSteps, ProbeSteps} : From(s, 1) = Range(s)
      BY StepsDistinct, RangeEquality, SMTT(30) DEF From
    <2>2. Steps(o) = IF o = Module THEN InitSteps ELSE ProbeSteps
      BY DEF Steps
    <2>3. held[o] # {} => held[o] = From(Steps(o), 1)
      BY BoundHoldsAll, Zenon DEF DevicesInv, LadderInvs
    <2> QED
      BY <2>1, <2>2, <2>3, Zenon
  <1> QED
    BY <1>1, InitDevicesInv, NextDevicesInv, PTL DEF DevicesSpec

\* No two functions ever have a node or a cdev with the same number: genpci_remove
\* gives the number back after the node and the cdev are gone.
THEOREM NumbersAreDistinct == DevicesSpec => []NumbersDistinct
  <1>1. DevicesInv => NumbersDistinct
    <2>1. \A f \in Fn : DevicesInv => LadderInv(f)
      BY OwnerKinds, ZenonT(40) DEF DevicesInv, LadderInvs
    <2> QED
      BY <2>1, DeviceHasInstance, Zenon DEF DevicesInv, InstancesApart, NumbersDistinct
  <1> QED
    BY <1>1, InitDevicesInv, NextDevicesInv, PTL DEF DevicesSpec

\* genpci_exit gives class and numbers back only when no device uses them.
THEOREM ClassOutlives == DevicesSpec => []ClassOutlivesDevices
  <1>1. DevicesInv => ClassOutlivesDevices
    <2>1. DevicesInv => LadderInv(Module)
      BY OwnerKinds, Zenon DEF DevicesInv, LadderInvs
    <2>2. ASSUME DevicesInv, NEW f \in Fn, {"cdev", "node"} \cap held[f] # {}
          PROVE  {"region", "class"} \subseteq held[Module]
      BY <2>1, <2>2, DriverHasClass, ZenonT(40) DEF DevicesInv, DriverStays
    <2> QED
      BY <2>2, Zenon DEF ClassOutlivesDevices
  <1> QED
    BY <1>1, InitDevicesInv, NextDevicesInv, PTL DEF DevicesSpec

\* The descriptor that dma_open_domain returns belongs to the function asked for.
THEOREM OpensAsked == DevicesSpec => []OpensWhatWasAsked
  <1>1. DevicesInv => OpensWhatWasAsked
    BY DEF DevicesInv
  <1> QED
    BY <1>1, InitDevicesInv, NextDevicesInv, PTL DEF DevicesSpec

=============================================================================
