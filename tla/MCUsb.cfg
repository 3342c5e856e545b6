\* Rings of four blocks and a link: the three blocks of a control transfer wrap
\* at every place.  Three events fit in the event ring.
CONSTANTS
  RingSize = 5
  EventRingSize = 4
  MaxSlots = 3
  MaxJobs = 3
  NoPage = NoPage
  Ports = 3
  Machines <- MCMachines
SPECIFICATION Spec
INVARIANT JobsMatchTransfers
INVARIANT HeapAccounted
INVARIANT FaultsOnlyUnbound
PROPERTY BootCompletes
PROPERTY InputFlows
\* A failed assertion of kernel_main stops the kernel.
CHECK_DEADLOCK FALSE
