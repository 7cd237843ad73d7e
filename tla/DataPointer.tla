---------------------------- MODULE DataPointer ----------------------------
(***************************************************************************)
(* How an I/O command tells the controller where its data is: setup_prps   *)
(* for reads and writes, the range tables of nvme_trim and                 *)
(* nvme_multi_range_trim.  Every SQ slot has one page of the io_prp_list   *)
(* pool for that.  The pool is one stretch of memory: what is written past *)
(* the end of a page lands in the page of the next slot.                   *)
(*                                                                         *)
(* A slot is filled here once its earlier command is complete; that        *)
(* nvme_queue fills it sooner is the subject of IoQueue.                   *)
(***************************************************************************)
EXTENDS Integers, Sequences

CONSTANTS
  PageSize,      \* NVME_PAGE_SIZE
  BlockSize,     \* 1 << lba_shift
  ListEntries,   \* 8-byte words of a list page, NVME_PRP_LIST_ENTRIES
  Depth,         \* io_sq_depth
  Requests       \* what fio asks for, see ReadWrite and Trim

ASSUME SizesAssumption ==
  /\ PageSize \in Nat \ {0} /\ BlockSize \in Nat \ {0}
  /\ ListEntries \in Nat \ {0} /\ Depth \in Nat \ {0}

\* A read or write of some blocks at a bus address, and a dataset management
\* command; a range has a length and a start.
ReadWrite == [op : {"rw"}, dma_addr : Nat, blocks : Nat \ {0}]
Trim      == [op : {"trim"}, ranges : Seq([length : Nat, slba : Nat])]

ASSUME RequestsAssumption == Requests \subseteq ReadWrite \cup Trim

VARIABLES
  io_sq_tail,   \* the slot the next command goes to
  prp_list,     \* per slot the words of its page
  cmd           \* per slot the command the controller has not completed

pointerVars == <<io_sq_tail, prp_list, cmd>>

Slots   == 0 .. Depth - 1
Entries == 0 .. ListEntries - 1
NoCommand == [op |-> "none"]

PointerInit ==
  /\ io_sq_tail = 0
  /\ prp_list = [s \in Slots |-> [e \in Entries |-> 0]]
  /\ cmd = [s \in Slots |-> NoCommand]

-----------------------------------------------------------------------------
(* Pages of a buffer *)

nvme_page_offset(addr) == addr % PageSize

nvme_page_align_up(addr) == ((addr + PageSize - 1) \div PageSize) * PageSize

TransferSize(r) == r.blocks * BlockSize

PageCountWithoutOffset(r) == (TransferSize(r) + PageSize - 1) \div PageSize

PageCount(r) ==
  (nvme_page_offset(r.dma_addr) + TransferSize(r) + PageSize - 1) \div PageSize

\* Entry k of the list, k counted from 0.
ListEntry(r, k) == nvme_page_align_up(r.dma_addr) + k * PageSize

\* The words word[0], word[1] ..., stored from the start of page s onwards.
WriteWords(s, word) ==
  [p \in Slots |-> [e \in Entries |->
     LET k == (p - s) * ListEntries + e
     IN  IF k \in DOMAIN word THEN word[k] ELSE prp_list[p][e]]]

-----------------------------------------------------------------------------
(* Building and submitting a command *)

\* The slot filled, the tail moved on, the doorbell rung.
Ring(c) ==
  /\ cmd[io_sq_tail] = NoCommand
  /\ cmd' = [cmd EXCEPT ![io_sq_tail] = c]
  /\ io_sq_tail' = (io_sq_tail + 1) % Depth

\* The list page of the command under construction.
ListPageFirst == 0

ListPage == io_sq_tail

\* prp2 is unused for one page, the second page for two, and the slot's list
\* page for more.
ReadWriteCommand(r) ==
  [op |-> "rw", request |-> r, prp1 |-> r.dma_addr,
   prp2 |-> CASE PageCount(r) = 1 -> 0
              [] PageCount(r) = 2 -> nvme_page_align_up(r.dma_addr)
              [] OTHER -> ListPage,
   length |-> r.blocks - 1]

submit_rw_command(r) ==
  /\ r.op = "rw"
  /\ Ring(ReadWriteCommand(r))
  /\ prp_list' = IF PageCount(r) > 2
                 THEN WriteWords(ListPage,
                                 [k \in 0 .. PageCount(r) - 2 |-> ListEntry(r, k)])
                 ELSE prp_list

\* A range takes two words: attributes with the length, and the start.
RangeWord(r, k) ==
  IF k % 2 = 0 THEN r.ranges[k \div 2 + 1].length ELSE r.ranges[k \div 2 + 1].slba

\* nvme_trim is the case of one range.
nvme_multi_range_trim(r) ==
  /\ r.op = "trim"
  /\ Ring([op |-> "trim", request |-> r, prp1 |-> ListPage,
           nr |-> Len(r.ranges) - 1])
  /\ prp_list' = WriteWords(ListPage,
                            [k \in 0 .. 2 * Len(r.ranges) - 1 |-> RangeWord(r, k)])

\* The controller (external) completes a command, in any order.
CtlComplete(s) ==
  /\ cmd[s] # NoCommand
  /\ cmd' = [cmd EXCEPT ![s] = NoCommand]
  /\ UNCHANGED <<io_sq_tail, prp_list>>

PointerNext ==
  \/ \E r \in Requests : submit_rw_command(r) \/ nvme_multi_range_trim(r)
  \/ \E s \in Slots : CtlComplete(s)

PointerSpec == PointerInit /\ [][PointerNext]_pointerVars

-----------------------------------------------------------------------------
(* What the controller makes of a command (external) *)

\* Memory of which nothing is known.
Unknown == 0 - PageSize

MovedUnits(c) == (c.length + 1) * BlockSize

\* The page it uses for part p of the transfer, p >= 1.  A transfer over two
\* pages has its second page in prp2; for a longer one prp2 leads to the list,
\* whose last word, when more entries are needed than a page holds, is the
\* address of another list.
PageOfPart(c, p) ==
  LET parts == ((c.prp1 % PageSize) + MovedUnits(c) + PageSize - 1) \div PageSize
  IN  CASE parts = 2 -> c.prp2
        [] parts > 2 /\ (parts - 1 <= ListEntries \/ p < ListEntries) ->
             prp_list[c.prp2][p - 1]
        [] OTHER -> Unknown

\* Where it moves unit k of the data from or to.
AddressOf(c, k) ==
  LET at == (c.prp1 % PageSize) + k
  IN  IF at < PageSize
      THEN c.prp1 + k
      ELSE PageOfPart(c, at \div PageSize) + (at % PageSize)

-----------------------------------------------------------------------------
(* Properties *)

\* The requests that are served as they should be: a transfer over several
\* pages starts inside a page and needs at most one list page; the ranges fit
\* in a page (fio has at most 256 of them, two words each).
Fits(r) ==
  IF r.op = "rw"
  THEN \/ PageCount(r) = 1
       \/ nvme_page_offset(r.dma_addr) # 0 /\ PageCount(r) - 1 <= ListEntries
  ELSE Len(r.ranges) > 0 /\ 2 * Len(r.ranges) <= ListEntries

\* A read or write moves exactly the buffer of its io_u: as much as was asked
\* for, and every unit of it from or to its own place, for as long as the
\* command is outstanding and whatever commands are built meanwhile.
TransfersBuffer ==
  \A s \in Slots : cmd[s].op = "rw" =>
    LET c == cmd[s]
        r == c.request
    IN  /\ MovedUnits(c) = TransferSize(r)
        /\ \A k \in 0 .. MovedUnits(c) - 1 : AddressOf(c, k) = r.dma_addr + k

\* A dataset management command names exactly the ranges fio asked to trim.
TrimsRanges ==
  \A s \in Slots : cmd[s].op = "trim" =>
    LET c == cmd[s]
    IN  /\ c.nr + 1 = Len(c.request.ranges)
        /\ \A i \in 0 .. c.nr :
             /\ prp_list[c.prp1][2 * i] = c.request.ranges[i + 1].length
             /\ prp_list[c.prp1][2 * i + 1] = c.request.ranges[i + 1].slba

=============================================================================
