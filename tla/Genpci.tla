------------------------------- MODULE Genpci -------------------------------
(***************************************************************************)
(* The genpci character driver and the DMA allocator on top of it          *)
(* (api/dma.c).  A DMA buffer is one dma_entry of the driver: allocated by *)
(* mmap, kept on memlist, freed when its last VMA is closed.  alloc_dma    *)
(* learns the bus address of the buffer it has just mapped by a second     *)
(* call, IOCTL_GET_MEMFINFO, which reports the newest entry of the list.   *)
(*                                                                         *)
(* Threads of one process share the file descriptor.  The process may fork *)
(* (the child inherits every mapping), and either process may end at any   *)
(* moment.  An entry stands for its kernel address and its bus address,    *)
(* which a later entry may get again.  All buffers have the same size.     *)
(***************************************************************************)
EXTENDS Integers, FiniteSets, Sequences, Functions

CONSTANTS
  Thread,   \* threads of the process that call alloc_dma and free_dma
  Entry     \* DMA buffers the machine can provide at a time

ASSUME FiniteAssumption == IsFiniteSet(Thread) /\ IsFiniteSet(Entry)

VARIABLES
  bound,     \* the PCI function is bound to genpci: /dev/genpciN exists
  fd,        \* the process has the device open
  entry,     \* the dma_entry structures
  memlist,   \* genpci_dev.memlist, newest first
  mapped,    \* entries with a VMA in the process
  child,     \* entries with a VMA in the forked child
  pc, cur,   \* per thread: the call it is in and the block it works on
  blocks     \* per thread: the blocks alloc_dma has returned to it

vars == <<bound, fd, entry, memlist, mapped, child, pc, cur, blocks>>

\* A block, struct mem, is a record of the mapped entry (virt) and of the entry
\* whose addresses the ioctl reported (dma).
NoBlock == <<>>

Unallocated == [allocated |-> FALSE, vma_refs |-> 0, listed |-> FALSE,
                release_requested |-> FALSE]

Init ==
  /\ bound = FALSE /\ fd = FALSE
  /\ entry = [e \in Entry |-> Unallocated]
  /\ memlist = <<>>
  /\ mapped = {} /\ child = {}
  /\ pc = [t \in Thread |-> "idle"] /\ cur = [t \in Thread |-> NoBlock]
  /\ blocks = [t \in Thread |-> {}]

-----------------------------------------------------------------------------
(* The driver *)

\* What dma_vma_close leaves behind of entry e.
LastCloseAlways(e) == TRUE

LastClose(e) == entry[e].vma_refs = 1

ListDelForgotten(e) == memlist

\* The sequence without its element at i.
Without(s, i) == SubSeq(s, 1, i - 1) \o SubSeq(s, i + 1, Len(s))

ListDel(e) ==
  IF entry[e].listed
  THEN Without(memlist, CHOOSE i \in DOMAIN memlist : memlist[i] = e)
  ELSE memlist

dma_vma_close(e) ==
  IF LastClose(e)
  THEN /\ entry' = [entry EXCEPT ![e] = Unallocated]
       /\ memlist' = ListDel(e)
  ELSE /\ entry' = [entry EXCEPT ![e].vma_refs = @ - 1]
       /\ UNCHANGED memlist

\* The entry mmap_dma fills in: the mapping made by mmap is the first VMA.
NewEntry == [allocated |-> TRUE, vma_refs |-> 1, listed |-> TRUE,
             release_requested |-> FALSE]

\* The list once mmap_dma has added e: list_add puts it in front.
ListAddTail(e) == Append(memlist, e)

ListAdd(e) == <<e>> \o memlist

\* The entries IOCTL_GET_MEMFINFO may report: the first one not released.
Reported ==
  {memlist[i] : i \in {k \in DOMAIN memlist :
                        /\ ~entry[memlist[k]].release_requested
                        /\ \A j \in 1 .. k - 1 : entry[memlist[j]].release_requested}}

\* IOCTL_RELEASE_MEM: mark the listed entry with these addresses.
ReleaseMem(e) ==
  entry' = IF e \in Range(memlist)
           THEN [entry EXCEPT ![e].release_requested = TRUE]
           ELSE entry

\* genpci_detach_dma_entries: empty the list; the entries live on unlisted.
DetachEntries ==
  /\ entry' = [e \in Entry |->
                 IF e \in Range(memlist)
                 THEN [entry[e] EXCEPT !.listed = FALSE, !.release_requested = TRUE]
                 ELSE entry[e]]
  /\ memlist' = <<>>

-----------------------------------------------------------------------------
(* alloc_dma and free_dma *)

Goto(t, label, block) ==
  /\ pc' = [pc EXCEPT ![t] = label]
  /\ cur' = [cur EXCEPT ![t] = block]

\* mmap -> mmap_dma; without memory alloc_dma returns an empty struct mem.
AllocMmap(t) ==
  /\ pc[t] = "idle" /\ fd
  /\ \E e \in Entry :
       /\ ~entry[e].allocated
       /\ entry' = [entry EXCEPT ![e] = NewEntry]
       /\ memlist' = ListAdd(e)
       /\ mapped' = mapped \cup {e}
       /\ Goto(t, "alloc", [virt |-> e, dma |-> e])
  /\ UNCHANGED <<bound, fd, child, blocks>>

\* ioctl(IOCTL_GET_MEMFINFO): the block gets the reported addresses.
AllocInfo(t) ==
  /\ pc[t] = "alloc"
  /\ \E e \in Reported :
       blocks' = [blocks EXCEPT ![t] = @ \cup {[cur[t] EXCEPT !.dma = e]}]
  /\ Goto(t, "idle", NoBlock)
  /\ UNCHANGED <<bound, fd, entry, memlist, mapped, child>>

\* The ioctl fails with ENOENT: alloc_dma unmaps again.
AllocInfoFails(t) ==
  /\ pc[t] = "alloc" /\ Reported = {}
  /\ dma_vma_close(cur[t].virt)
  /\ mapped' = mapped \ {cur[t].virt}
  /\ Goto(t, "idle", NoBlock)
  /\ UNCHANGED <<bound, fd, child, blocks>>

\* free_dma: the ioctl, whose result is ignored ...
FreeRelease(t) ==
  /\ pc[t] = "idle"
  /\ \E b \in blocks[t] :
       /\ IF fd THEN ReleaseMem(b.dma) ELSE UNCHANGED entry
       /\ blocks' = [blocks EXCEPT ![t] = @ \ {b}]
       /\ Goto(t, "free", b)
  /\ UNCHANGED <<bound, fd, memlist, mapped, child>>

\* ... then munmap.
FreeMunmap(t) ==
  /\ pc[t] = "free"
  /\ dma_vma_close(cur[t].virt)
  /\ mapped' = mapped \ {cur[t].virt}
  /\ Goto(t, "idle", NoBlock)
  /\ UNCHANGED <<bound, fd, child, blocks>>

-----------------------------------------------------------------------------
(* The life of the device, of the descriptor and of the processes *)

\* insmod or bind: genpci_probe succeeds.
BindDevice ==
  /\ ~bound /\ bound' = TRUE
  /\ UNCHANGED <<fd, entry, memlist, mapped, child, pc, cur, blocks>>

\* rmmod: fops.owner keeps the module while a descriptor or a mapping has the
\* file open.  genpci_remove detaches whatever is still on the list.
UnbindDevice ==
  /\ bound /\ ~fd /\ mapped = {} /\ child = {}
  /\ DetachEntries
  /\ bound' = FALSE
  /\ UNCHANGED <<fd, mapped, child, pc, cur, blocks>>

\* nvme_dma_open_controller and nvme_close_dma; no call is under way then.
OpenFd  == bound /\ ~fd /\ fd' = TRUE
           /\ UNCHANGED <<bound, entry, memlist, mapped, child, pc, cur, blocks>>

CloseFd == fd /\ (\A t \in Thread : pc[t] = "idle") /\ fd' = FALSE
           /\ UNCHANGED <<bound, entry, memlist, mapped, child, pc, cur, blocks>>

\* fork: dma_vma_open on every inherited mapping.
Fork ==
  /\ \E t \in Thread : pc[t] # "gone"
  /\ child = {} /\ mapped # {}
  /\ child' = mapped
  /\ entry' = [e \in Entry |-> IF e \in mapped
                               THEN [entry[e] EXCEPT !.vma_refs = @ + 1]
                               ELSE entry[e]]
  /\ UNCHANGED <<bound, fd, memlist, mapped, pc, cur, blocks>>

\* The child unmaps, or ends: its VMAs are closed in some order.
ChildClose ==
  /\ \E e \in child : dma_vma_close(e) /\ child' = child \ {e}
  /\ UNCHANGED <<bound, fd, mapped, pc, cur, blocks>>

\* The process ends without free_dma: descriptor and threads go first.
Exit ==
  /\ \E t \in Thread : pc[t] # "gone"
  /\ pc' = [t \in Thread |-> "gone"] /\ cur' = [t \in Thread |-> NoBlock]
  /\ blocks' = [t \in Thread |-> {}]
  /\ fd' = FALSE
  /\ UNCHANGED <<bound, entry, memlist, mapped, child>>

ExitClose ==
  /\ \A t \in Thread : pc[t] = "gone"
  /\ \E e \in mapped : dma_vma_close(e) /\ mapped' = mapped \ {e}
  /\ UNCHANGED <<bound, fd, child, pc, cur, blocks>>

\* Another run of the program.
Start ==
  /\ \A t \in Thread : pc[t] = "gone"
  /\ mapped = {}
  /\ pc' = [t \in Thread |-> "idle"]
  /\ UNCHANGED <<bound, fd, entry, memlist, mapped, child, cur, blocks>>

Next ==
  \/ \E t \in Thread : \/ AllocMmap(t) \/ AllocInfo(t) \/ AllocInfoFails(t)
                       \/ FreeRelease(t) \/ FreeMunmap(t)
  \/ BindDevice \/ UnbindDevice \/ OpenFd \/ CloseFd
  \/ Fork \/ ChildClose \/ Exit \/ ExitClose \/ Start

Spec == Init /\ [][Next]_vars

-----------------------------------------------------------------------------
(* Properties *)

Occurs(e, S) == IF e \in S THEN 1 ELSE 0

AllBlocks == UNION {blocks[t] : t \in Thread}

\* A buffer is freed when its last VMA in any process goes and not before:
\* dma_vma_open and dma_vma_close count exactly the VMAs there are.
RefsCountVmas ==
  \A e \in Entry :
    /\ entry[e].vma_refs = Occurs(e, mapped) + Occurs(e, child)
    /\ entry[e].allocated <=> e \in mapped \cup child

\* memlist holds each allocated buffer once, and nothing that was freed;
\* genpci_remove therefore never leaves one behind.
ListHoldsAllocated ==
  /\ IsInjective(memlist)
  /\ Range(memlist) = {e \in Entry : entry[e].allocated}
  /\ \A e \in Entry : entry[e].listed <=> entry[e].allocated

\* alloc_dma returns the bus address of the very buffer it mapped, so that
\* the controller reads and writes the memory the caller sees.
OwnAddress == \A b \in AllBlocks : b.dma = b.virt

=============================================================================
