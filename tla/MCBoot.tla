------------------------------- MODULE MCBoot -------------------------------
(***************************************************************************)
(* The firmware keeps a few pages of its own, at places where they cut the *)
(* memory in different ways.  In the first machine both regions of mmap    *)
(* come from the first usable descriptor, in the second the kernel's       *)
(* memory map takes up the loader's code exactly and the tables come from  *)
(* elsewhere.  The others run out of something: a descriptor with room for *)
(* the tables; memory for the loader; tables for the devices; tables for   *)
(* the copy of the loader's, with a kernel that is spread out; entries of  *)
(* the kernel's memory map; a block for the controller.  In the last       *)
(* three memory goes beyond the window, in the very last the tables too.   *)
(***************************************************************************)
EXTENDS Boot

R(type, pages) == [type |-> type, pages |-> pages]
Header(load, at, memory, file, align) ==
  [load |-> load, at |-> at, memory |-> memory, file |-> file, align |-> align]
Call(kind, page, pages) == [kind |-> kind, page |-> page, pages |-> pages]

\* The serial port, the page allocator, the heap, firmware tables (one of them twice),
\* the configuration space, and the controller.
Calls == <<Call("mmio", 9, 1), Call("pages", 0, 0), Call("heap", 0, 0), Call("acpi", 70, 1), Call("acpi", 70, 1),
           Call("mmio", 15, 2), Call("xhci", 0, 0)>>
ManyCalls == <<Call("mmio", 9, 1), Call("pages", 0, 0), Call("heap", 0, 0), Call("acpi", 3, 1), Call("acpi", 70, 1),
               Call("mmio", 40, 8)>>

\* Kernels: as it is linked, spread out, and ones that are not loaded.
Linked == <<Header(TRUE, 0, 2, 2, 1), Header(FALSE, 0, 1, 1, 0), Header(TRUE, 2, 1, 0, 1)>>
Spread == [k \in 1..7 |-> Header(TRUE, (k - 1) * EntryPages(1), 1, 1, 1)]
Unloadable == {<<Header(FALSE, 0, 1, 1, 1)>>, <<Header(TRUE, 0, 1, 2, 1)>>, <<Header(TRUE, 0, 1, 1, 0)>>,
               Append(Spread, Header(TRUE, 7 * EntryPages(1), 1, 1, 1))}

Machine(base, ram, headers, calls) ==
  [base |-> base, ram |-> ram, elf |-> 1, headers |-> headers, modules |-> <<2, 1>>, calls |-> calls]

\* Too little memory for the loader, at each of its steps.
Small == {Machine(64, <<R("conventional", n)>>, Linked, Calls) : n \in 1..17}

Broken == {Machine(64, <<R("conventional", 4)>>, headers, Calls) : headers \in Unloadable}

MCMachines ==
  Small \cup Broken \cup
  {Machine(64, <<R("conventional", 34), R("reserved", 1), R("bootServices", 1), R("conventional", 20)>>,
           Linked, Calls),
   Machine(64, <<R("loaderCode", 1), R("reserved", 1), R("conventional", 24), R("bootServices", 1),
                 R("conventional", 14), R("reserved", 1), R("conventional", 6)>>, Linked, Calls),
   Machine(64, <<R("conventional", 16), R("reserved", 1), R("conventional", 24)>>, Linked, Calls),
   Machine(64, <<R("conventional", 36), R("reserved", 1), R("conventional", 20)>>, Linked, ManyCalls),
   Machine(64, <<R("conventional", 24), R("reserved", 1), R("conventional", 34)>>, Spread, Calls),
   Machine(64, <<R("conventional", 36), R("reserved", 1), R("conventional", 1), R("reserved", 1),
                 R("bootServices", 1), R("reserved", 1), R("conventional", 16)>>, Linked, Calls),
   Machine(64, <<R("conventional", 22), R("reserved", 1), R("conventional", 14)>>, Linked, Calls),
   Machine(95, <<R("conventional", 40), R("reserved", 1), R("conventional", 12)>>, Linked, Calls),
   Machine(85, <<R("conventional", 40), R("reserved", 2), R("conventional", 15)>>, Linked, Calls),
   Machine(118, <<R("conventional", 40), R("reserved", 1), R("conventional", 12)>>, Linked, Calls)}
=============================================================================
