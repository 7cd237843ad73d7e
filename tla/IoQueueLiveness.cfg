\* Progress and the fair contract: two io_us on three slots, three identifiers.
SPECIFICATION FairSpec
CONSTANTS
  IoU = {u1, u2}
  NoIoU = NoIoU
  CidCount = 3
  Requests <- PlainReads
  Calls <- TwoCalls
PROPERTIES
  BusyPasses
  KeepsContractFairly
