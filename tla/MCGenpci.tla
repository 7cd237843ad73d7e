------------------------------ MODULE MCGenpci ------------------------------
(***************************************************************************)
(* Genpci with a few interchangeable threads and buffers and one more      *)
(* variable: whether two threads have been between mmap and the ioctl of   *)
(* alloc_dma at the same time.                                             *)
(***************************************************************************)
EXTENDS Genpci, TLC

VARIABLE raced

Allocating == {t \in Thread : pc[t] = "alloc"}

MCInit == Init /\ raced = FALSE

MCNext == Next /\ raced' = (raced \/ Cardinality(Allocating') > 1)

MCSpec == MCInit /\ [][MCNext]_<<vars, raced>>

MCSymmetry == Permutations(Thread) \cup Permutations(Entry)

\* As long as one thread at a time is in alloc_dma, it returns the bus address
\* of the very buffer it mapped, whoever frees, forks or exits meanwhile.
OwnAddressUnlessRaced == ~raced => OwnAddress

=============================================================================
