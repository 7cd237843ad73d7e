--------------------------- MODULE GenpciDevices ---------------------------
(***************************************************************************)
(* The life of the genpci module and of the PCI functions bound to it:     *)
(* genpci_init and genpci_exit, genpci_probe and genpci_remove with every  *)
(* error path, the character devices they register, and dma_open_domain,   *)
(* which looks among the nodes /dev/genpciN for the function it wants.     *)
(*                                                                         *)
(* Loading and probing acquire a resource at each step; a step that fails  *)
(* jumps to a label below which the earlier ones are released.  Functions  *)
(* are bound and unbound independently of each other, so that these steps  *)
(* interleave.  What a bound device does with DMA memory is Genpci.        *)
(***************************************************************************)
EXTENDS Integers, FiniteSets, Sequences, Functions

CONSTANTS
  Fn,      \* PCI functions
  Module,  \* the module itself
  NoFn

ASSUME FnAssumption == IsFiniteSet(Fn) /\ Module \notin Fn /\ NoFn \notin Fn

Owner == Fn \cup {Module}

VARIABLES
  held,       \* per function and for the module: the resources it has
  mode, work, \* ... whether it is acquiring or releasing, and what is left
  instance,   \* genpci_dev.instance
  cdev_map,   \* the kernel's map of character devices, newest first
  want, todo, \* dma_open_domain: the function wanted and the names not yet seen
  opened          \* the function that the open descriptor belongs to

devicesVars == <<held, mode, work, instance, cdev_map, want, todo, opened>>

devs == <<held, mode, work, instance, cdev_map>>
scan == <<want, todo, opened>>

-----------------------------------------------------------------------------
(* The order of the steps in the driver *)

\* genpci_init and genpci_exit.
InitSteps == <<"region", "class", "driver">>

ExitStepsClassFirst == <<"class", "driver", "region">>

ExitSteps == <<"driver", "class", "region">>

\* genpci_probe: kzalloc, ida_simple_get, pci_enable_device_mem,
\* pci_request_regions, pci_set_drvdata, cdev_add, device_create.  The DMA mask
\* is set before the regions are requested and fails to the same label.
ProbeSteps == <<"memory", "instance", "enabled", "regions", "drvdata", "cdev", "node">>

\* The labels at the end of genpci_probe, which fall through.
Ladder == <<"cdev", "drvdata", "regions", "enabled", "instance", "memory">>

\* Where on the ladder a failed step jumps to.
LabelBelowDisable ==
  [memory |-> 7, instance |-> 6, enabled |-> 5, regions |-> 5, cdev |-> 2, node |-> 1]

Label ==
  [memory |-> 7, instance |-> 6, enabled |-> 5, regions |-> 4, cdev |-> 2, node |-> 1]

\* genpci_remove.
RemoveStepsInstanceFirst ==
  <<"drvdata", "regions", "enabled", "instance", "node", "cdev", "memory">>

RemoveSteps ==
  <<"drvdata", "regions", "enabled", "node", "cdev", "instance", "memory">>

\* What is released when a step of genpci_init or genpci_probe fails.
Undo(o, step) ==
  CASE o # Module      -> SubSeq(Ladder, Label[step], Len(Ladder))
    [] step = "region" -> <<>>
    [] step = "class"  -> <<"region">>
    [] step = "driver" -> <<"class", "region">>

-----------------------------------------------------------------------------
(* Acquiring and releasing *)

DevicesInit ==
  /\ held = [o \in Owner |-> {}]
  /\ mode = [o \in Owner |-> "idle"] /\ work = [o \in Owner |-> <<>>]
  /\ instance = [f \in Fn |-> 0] /\ cdev_map = <<>>
  /\ want = NoFn /\ todo = {} /\ opened = NoFn

Begin(o, m, steps) ==
  /\ mode[o] = "idle"
  /\ mode' = [mode EXCEPT ![o] = m] /\ work' = [work EXCEPT ![o] = steps]
  /\ UNCHANGED <<held, instance, cdev_map, scan>>

Proceed(o, m, steps) ==
  /\ mode' = [mode EXCEPT ![o] = IF steps = <<>> THEN "idle" ELSE m]
  /\ work' = [work EXCEPT ![o] = steps]

\* ida_simple_get (external): the smallest number not in use.
FreeInstance ==
  LET used == {instance[f] : f \in {g \in Fn : "instance" \in held[g]}}
      free == (0 .. Cardinality(Fn)) \ used
  IN  CHOOSE i \in free : \A j \in free : i <= j

Acquire(o) ==
  /\ mode[o] = "acquiring"
  /\ LET step == Head(work[o])
     IN  /\ held' = [held EXCEPT ![o] = @ \cup {step}]
         /\ instance' = IF step = "instance"
                        THEN [instance EXCEPT ![o] = FreeInstance] ELSE instance
         /\ cdev_map' = IF step = "cdev" THEN <<o>> \o cdev_map ELSE cdev_map
  /\ Proceed(o, "acquiring", Tail(work[o]))
  /\ UNCHANGED scan

StepFails(o) ==
  /\ mode[o] = "acquiring" /\ Head(work[o]) # "drvdata"
  /\ Proceed(o, "releasing", Undo(o, Head(work[o])))
  /\ UNCHANGED <<held, instance, cdev_map, scan>>

\* pci_unregister_driver returns when every function has been removed.
ReleaseStep(o) ==
  /\ mode[o] = "releasing"
  /\ Head(work[o]) = "driver" =>
       \A f \in Fn : mode[f] = "idle" /\ "memory" \notin held[f]
  /\ held' = [held EXCEPT ![o] = @ \ {Head(work[o])}]
  /\ cdev_map' = IF Head(work[o]) = "cdev"
                 THEN SelectSeq(cdev_map, LAMBDA f : f # o) ELSE cdev_map
  /\ Proceed(o, "releasing", Tail(work[o]))
  /\ UNCHANGED <<instance, scan>>

-----------------------------------------------------------------------------
(* What starts these sequences *)

Live == mode[Module] # "releasing"

\* insmod.
genpci_init == held[Module] = {} /\ Begin(Module, "acquiring", InitSteps)

\* rmmod: fops.owner keeps the module while a descriptor is open.
genpci_exit ==
  /\ held[Module] # {} /\ opened = NoFn
  /\ Begin(Module, "releasing", ExitSteps)

\* A function is offered to the driver, at insmod or by the file "bind".
genpci_probe(f) ==
  /\ Live /\ "driver" \in held[Module] /\ held[f] = {}
  /\ Begin(f, "acquiring", ProbeSteps)

\* rmmod, or the file "unbind" of a function whose descriptors are closed.
genpci_remove(f) ==
  /\ held[f] # {} /\ opened # f
  /\ Begin(f, "releasing", RemoveSteps)

-----------------------------------------------------------------------------
(* dma_open_domain *)

Nodes == {instance[f] : f \in {g \in Fn : "node" \in held[g]}}

\* The function whose cdev an open of minor number i finds (kernel, external):
\* every cdev stands for genpci_MINORS numbers from its own on, and of those
\* that include i the newest is taken.
Lookup(i) ==
  LET found == SelectSeq(cdev_map, LAMBDA f : instance[f] <= i)
  IN  IF found = <<>> THEN NoFn ELSE Head(found)

OpenDir ==
  /\ want = NoFn
  /\ \E f \in Fn : want' = f
  /\ todo' = Nodes
  /\ UNCHANGED <<devs, opened>>

bdf_matches_anything(f) == TRUE

bdf_matches(f) == f = want

\* The next name: open, IOCTL_GET_BDF and, unless it matches, close.
ScanName(i) ==
  /\ todo' = todo \ {i}
  /\ opened' = IF i \in Nodes /\ Live /\ Lookup(i) # NoFn /\ bdf_matches(Lookup(i))
           THEN Lookup(i) ELSE NoFn
  /\ UNCHANGED <<devs, want>>

\* -1, or the descriptor is closed later on.
CloseDir ==
  /\ want # NoFn /\ (todo = {} \/ opened # NoFn)
  /\ want' = NoFn /\ todo' = {} /\ opened' = NoFn
  /\ UNCHANGED devs

DevicesNext ==
  \/ \E o \in Owner : Acquire(o) \/ StepFails(o) \/ ReleaseStep(o)
  \/ genpci_init \/ genpci_exit
  \/ \E f \in Fn : genpci_probe(f) \/ genpci_remove(f)
  \/ OpenDir \/ CloseDir
  \/ opened = NoFn /\ \E i \in todo : ScanName(i)

DevicesSpec == DevicesInit /\ [][DevicesNext]_devicesVars

-----------------------------------------------------------------------------
(* Properties *)

\* A probe, a load, a removal or an unload that has ended left everything
\* acquired or nothing: each label of genpci_probe and each error path of
\* genpci_init releases exactly what the steps before it acquired.
AllOrNothing ==
  \A o \in Owner : mode[o] = "idle" =>
    held[o] \in {{}, Range(IF o = Module THEN InitSteps ELSE ProbeSteps)}

\* No two functions have a node or a cdev with the same number at any moment,
\* also not while one is removed and another one probed.
NumbersDistinct ==
  \A f, g \in Fn :
    /\ f # g
    /\ {"cdev", "node"} \cap held[f] # {} /\ {"cdev", "node"} \cap held[g] # {}
    => instance[f] # instance[g]

\* The class and the device numbers are there as long as a device uses them:
\* genpci_exit gives them back after the last function has been removed.
ClassOutlivesDevices ==
  \A f \in Fn : {"cdev", "node"} \cap held[f] # {} =>
    {"region", "class"} \subseteq held[Module]

\* The descriptor dma_open_domain returns belongs to the function that was
\* asked for, whichever device a name leads to by now and whatever was bound
\* and unbound since the directory was opened.
OpensWhatWasAsked == opened # NoFn => opened = want

=============================================================================
