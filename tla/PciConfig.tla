------------------------------ MODULE PciConfig ------------------------------
(***************************************************************************)
(* pci_config_read and pci_config_write: access to the configuration space *)
(* of a PCI function through its sysfs file.  The kernel may transfer less *)
(* than it was asked for, report an error or the end of the file; the      *)
(* loops go on until everything is transferred.  The function changes no   *)
(* register of its own accord, and calls follow one another.               *)
(***************************************************************************)
EXTENDS Integers, FiniteSets

CONSTANTS
  ConfigSpaceSize,  \* PCIE_CONFIG_SPACE_SIZE
  Readable,         \* bytes the kernel lets the caller see
  Byte              \* values of a byte

ASSUME SizeAssumption ==
  ConfigSpaceSize \in Nat /\ Readable \in 0 .. ConfigSpaceSize

VARIABLES
  space, before, \* the configuration space, now and when the call began
  call,          \* the arguments of the call
  buf, done,     \* the caller's buffer and the bytes transferred so far
  fd,            \* "none", "O_RDWR" or "O_RDONLY"
  config_pc, ret \* where the call is, and what the last one returned

configVars == <<space, before, call, buf, done, fd, config_pc, ret>>

Address == 0 .. ConfigSpaceSize - 1

ConfigInit ==
  /\ space \in [Address -> Byte] /\ before = space
  /\ call = [op |-> "read", offset |-> 0, sz |-> 0]
  /\ buf = [k \in {} |-> 0] /\ done = 0
  /\ fd = "none" /\ config_pc = "idle" /\ ret = -1

\* The caller (external) has a buffer of sz bytes with any content.
Call ==
  /\ config_pc = "idle"
  /\ \E op \in {"read", "write"}, o, n \in 0 .. ConfigSpaceSize + 1 :
       /\ call' = [op |-> op, offset |-> o, sz |-> n]
       /\ buf' \in [0 .. n - 1 -> Byte]
  /\ before' = space /\ done' = 0 /\ config_pc' = "called"
  /\ UNCHANGED <<space, fd, ret>>

pci_config_range_is_valid ==
  call.offset < ConfigSpaceSize /\ call.sz <= ConfigSpaceSize - call.offset

ConfigReturn(r) == config_pc' = "idle" /\ ret' = r

Refused ==
  /\ config_pc = "called" /\ ~pci_config_range_is_valid
  /\ ConfigReturn(-1)
  /\ UNCHANGED <<space, before, call, buf, done, fd>>

\* O_RDWR, or O_RDONLY when that is denied, or neither.
open_pci_config ==
  /\ config_pc = "called" /\ pci_config_range_is_valid
  /\ \/ fd' \in {"O_RDWR", "O_RDONLY"} /\ config_pc' = "transfer" /\ UNCHANGED ret
     \/ fd' = "none" /\ ConfigReturn(-1)
  /\ UNCHANGED <<space, before, call, buf, done>>

\* The position of the next byte in the file.
PositionOfStart == call.offset

Position == call.offset + done

\* pread or pwrite transfers n bytes, 0 < n <= sz - done.  The position moves
\* with the bytes of one call and is computed anew for the next call.
Moved(n) == 0 .. n - 1

pread(n) ==
  /\ call.op = "read" /\ Position + n <= Readable
  /\ buf' = [k \in DOMAIN buf |-> IF k - done \in Moved(n)
                                  THEN space[Position + k - done] ELSE buf[k]]
  /\ UNCHANGED space

pwrite(n) ==
  /\ call.op = "write" /\ fd = "O_RDWR"
  /\ space' = [a \in Address |-> IF a - Position \in Moved(n)
                                 THEN buf[done + a - Position] ELSE space[a]]
  /\ UNCHANGED buf

\* The condition of the loop no longer holds.
CompleteAfterFirst == done > 0 \/ call.sz = 0

Complete == done >= call.sz

\* A call interrupted by a signal (EINTR) is made again: nothing changes.
Transfer ==
  /\ config_pc = "transfer"
  /\ \E n \in 1 .. call.sz - done :
       (pread(n) \/ pwrite(n)) /\ done' = done + n
  /\ UNCHANGED <<before, call, fd, config_pc, ret>>

\* An error, or 0 at the end of the file: close and -1.
TransferFails ==
  /\ config_pc = "transfer" /\ ~Complete
  /\ fd' = "none"
  /\ ConfigReturn(-1)
  /\ UNCHANGED <<space, before, call, buf, done>>

\* close, which may report an error.
Finish ==
  /\ config_pc = "transfer" /\ Complete
  /\ fd' = "none"
  /\ \E r \in {0, -1} : ConfigReturn(r)
  /\ UNCHANGED <<space, before, call, buf, done>>

ConfigNext ==
  \/ Call \/ Refused \/ open_pci_config \/ Transfer \/ TransferFails \/ Finish

ConfigSpec == ConfigInit /\ [][ConfigNext]_configVars

-----------------------------------------------------------------------------
(* Properties *)

\* At any moment of a call, also one that fails halfway, the configuration
\* space differs from what it was before only by the bytes written so far: a
\* prefix of the buffer, each byte at its own address.  A read changes none.
WritesArePrefix ==
  \A a \in Address :
    space[a] = IF call.op = "write" /\ a - call.offset \in 0 .. done - 1
               THEN buf[a - call.offset] ELSE before[a]

\* After a call that returned 0 the whole buffer and the registers agree,
\* however the kernel cut the transfer into pieces.
SuccessMeansAll ==
  config_pc = "idle" /\ ret = 0 =>
    \A k \in 0 .. call.sz - 1 : buf[k] = space[call.offset + k]

\* No call returns with the sysfs file open, whichever way it ends.
DescriptorClosed == config_pc = "idle" => fd = "none"

=============================================================================
