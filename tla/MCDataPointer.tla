--------------------------- MODULE MCDataPointer ---------------------------
(* Buffers of different position and length, in pages of a few units. *)
EXTENDS DataPointer

BufferStarts == PageSize .. 2 * PageSize - 1

AllReadWrites(maxBlocks) ==
  [op : {"rw"}, dma_addr : BufferStarts, blocks : 1 .. maxBlocks]

OneRange  == [op |-> "trim", ranges |-> <<[length |-> 1, slba |-> 7]>>]
TwoRanges == [op |-> "trim", ranges |-> <<[length |-> 2, slba |-> 3],
                                          [length |-> 4, slba |-> 5]>>]

Fitting == {r \in AllReadWrites(10) \cup {OneRange, TwoRanges} : Fits(r)}

\* Page-aligned buffers, as fio makes them for every block size that is a
\* multiple of the page size.
Aligned == {r \in AllReadWrites(8) : nvme_page_offset(r.dma_addr) = 0}

=============================================================================
