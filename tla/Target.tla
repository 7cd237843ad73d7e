------------------------------- MODULE Target -------------------------------
(***************************************************************************)
(* parse_target, and the way from the text of a target to the PCI function *)
(* that is driven: controller_init maps BAR0 of the function whose bus     *)
(* number is the low byte of the parsed one, and nvme_dma_open_controller  *)
(* looks for the genpci device with the whole number.                      *)
(*                                                                         *)
(* A character is a number: a digit is its value, anything else is one of  *)
(* the names below.  Prefixes 0x and plus signs are left out.              *)
(***************************************************************************)
EXTENDS Integers, Sequences

CONSTANTS
  Filename,   \* texts to parse
  UlongSpan,  \* values of an unsigned long, 2^64 in the build
  Function    \* functions bound to genpci: [bus, dev, func]

Colon == 100
Dot   == 101
Comma == 102
Blank == 103
Minus == 104

UINT16_MAX == 65535

ASSUME SpanAssumption == UlongSpan \in Nat /\ UINT16_MAX < UlongSpan
ASSUME FilenameAssumption == Filename \subseteq Seq(Nat)
ASSUME FunctionAssumption ==
  Function \subseteq [bus : 0 .. 255, dev : 0 .. 31, func : 0 .. 7]

VARIABLES
  filename,
  parsed,       \* parse_target has been called
  ctrl,         \* controller_data: what parse_target made of the text
  bar0, dma_fd  \* the functions behind the mapping and the descriptor

targetVars == <<filename, parsed, ctrl, bar0, dma_fd>>

None == [bus |-> -1, dev |-> -1, func |-> -1]

-----------------------------------------------------------------------------
(* Parsing *)

Value(digits, base) ==
  LET v[i \in 0 .. Len(digits)] == IF i = 0 THEN 0 ELSE base * v[i - 1] + digits[i]
  IN  v[Len(digits)]

\* The first place from i on where p has no character of C, as strspn finds it.
SpanEnd(p, i, C) ==
  CHOOSE j \in i .. Len(p) + 1 :
    /\ j = Len(p) + 1 \/ p[j] \notin C
    /\ \A k \in i .. j - 1 : p[k] \in C

\* strtoul (external): blanks, a sign, as many digits as there are.  A minus
\* negates in unsigned arithmetic.
strtoul(p, base) ==
  LET start  == SpanEnd(p, 1, {Blank})
      signed == start <= Len(p) /\ p[start] = Minus
      first  == IF signed THEN start + 1 ELSE start
      stop   == SpanEnd(p, first, 0 .. base - 1)
      value  == Value(SubSeq(p, first, stop - 1), base)
  IN  IF stop = first
      THEN [value |-> 0, end |-> p, valid |-> FALSE]
      ELSE [value |-> IF signed THEN (UlongSpan - value) % UlongSpan ELSE value,
            end   |-> SubSeq(p, stop, Len(p)),
            valid |-> value < UlongSpan]

\* The delimiter <<>> stands for the end of the text.
FieldEndsAnywhere(end, delimiter) == TRUE

FieldEnds(end, delimiter) ==
  IF delimiter = <<>> THEN end = <<>> ELSE end # <<>> /\ Head(end) = delimiter[1]

parse_ulong_field(p, base, max, delimiter) ==
  LET n == strtoul(p, base)
  IN  IF n.valid /\ n.value <= max /\ FieldEnds(n.end, delimiter)
      THEN [ok |-> TRUE, value |-> n.value,
            rest |-> IF n.end = <<>> THEN <<>> ELSE Tail(n.end)]
      ELSE [ok |-> FALSE, value |-> 0, rest |-> <<>>]

\* The base all fields but the last are read in.
BusBase == 16

NoTarget == [bus |-> 0, dev |-> 0, func |-> 0, nsid |-> 0]

\* An empty rest lets the fields after a failed one fail as well.
parse_target(text) ==
  LET bus  == parse_ulong_field(text, BusBase, UINT16_MAX, <<Colon>>)
      dev  == parse_ulong_field(bus.rest, BusBase, 31, <<Dot>>)
      func == parse_ulong_field(dev.rest, BusBase, 7, <<Comma>>)
      nsid == parse_ulong_field(func.rest, 10, UINT16_MAX, <<>>)
  IN  IF nsid.ok /\ nsid.value # 0
      THEN [bus |-> bus.value, dev |-> dev.value, func |-> func.value,
            nsid |-> nsid.value]
      ELSE NoTarget

-----------------------------------------------------------------------------
(* From the target to the device *)

TargetInit ==
  /\ filename \in Filename /\ parsed = FALSE
  /\ ctrl = NoTarget /\ bar0 = None /\ dma_fd = None

Parse ==
  /\ ~parsed /\ parsed' = TRUE
  /\ ctrl' = parse_target(filename)
  /\ UNCHANGED <<filename, bar0, dma_fd>>

Named(bus) ==
  {f \in Function : f.bus = bus /\ f.dev = ctrl.dev /\ f.func = ctrl.func}

\* controller_bar0_map((uint8_t)c->bus, ...)
MapBar0 ==
  /\ \E f \in Named(ctrl.bus % 256) : bar0' = f
  /\ UNCHANGED <<filename, parsed, ctrl, dma_fd>>

\* dma_open((int)c->bus, ...), with the first allocation.
DmaBusLowByte == ctrl.bus % 256

DmaBus == ctrl.bus

OpenDma ==
  /\ \E f \in Named(DmaBus) : dma_fd' = f
  /\ UNCHANGED <<filename, parsed, ctrl, bar0>>

\* The controller_data is freed, and nvme_setup parses anew.
Forget ==
  /\ parsed' = FALSE /\ ctrl' = NoTarget /\ bar0' = None /\ dma_fd' = None
  /\ UNCHANGED filename

-----------------------------------------------------------------------------
(* Properties *)

IsNumber(s, base, max) ==
  s # <<>> /\ (\A i \in 1 .. Len(s) : s[i] < base) /\ Value(s, base) <= max

\* A text cut at a colon, a dot and a comma, in this order.
Cuts(text) ==
  {x \in (1 .. Len(text)) \X (1 .. Len(text)) \X (1 .. Len(text)) :
    /\ x[1] < x[2] /\ x[2] < x[3]
    /\ text[x[1]] = Colon /\ text[x[2]] = Dot /\ text[x[3]] = Comma
    /\ IsNumber(SubSeq(text, 1, x[1] - 1), 16, UINT16_MAX)
    /\ IsNumber(SubSeq(text, x[1] + 1, x[2] - 1), 16, 31)
    /\ IsNumber(SubSeq(text, x[2] + 1, x[3] - 1), 16, 7)
    /\ IsNumber(SubSeq(text, x[3] + 1, Len(text)), 10, UINT16_MAX)}

\* The targets a text denotes in the documented form
\* <bus>:<device>.<function>,<namespace-id>.
Denoted(text) ==
  {[bus  |-> Value(SubSeq(text, 1, x[1] - 1), 16),
    dev  |-> Value(SubSeq(text, x[1] + 1, x[2] - 1), 16),
    func |-> Value(SubSeq(text, x[2] + 1, x[3] - 1), 16),
    nsid |-> Value(SubSeq(text, x[3] + 1, Len(text)), 10)] : x \in Cuts(text)}

\* parse_target reads every text of the documented form as the target it
\* denotes, the limits of all four fields included, and of the other texts
\* without blanks and signs it accepts none: no field is missing, too large or
\* ended by another delimiter, and nothing follows.
ReadsDocumentedForm ==
  parsed =>
    /\ \A t \in Denoted(filename) : t.nsid # 0 => ctrl = t
    /\ (\A i \in 1 .. Len(filename) : filename[i] \notin {Blank, Minus}) =>
         ctrl \in Denoted(filename) \cup {NoTarget}

\* A controller is driven only if registers and DMA memory belong to the same
\* function and that is the one named: a bus number above 255, which would
\* select BAR0 of another function, never gets as far.
DrivesNamedFunction ==
  dma_fd # None => bar0 = dma_fd /\ dma_fd \in Named(ctrl.bus)

=============================================================================
