-------------------------------- MODULE Mmap --------------------------------
(***************************************************************************)
(* The kernel's memory before it has a page allocator: kernel/mmap.c with  *)
(* its two bump allocators, kernel/bump_allocator.c, from the memory map   *)
(* of the firmware, kernel/efi_memory_map.c.                               *)
(*                                                                         *)
(* A descriptor of the firmware's map is [start, pages, type], an entry of *)
(* the kernel's [start, pages, usable].  Page 0 stands for the address 0   *)
(* that makes a bump allocator invalid.                                    *)
(***************************************************************************)
EXTENDS Vmap

CONSTANTS
  KmapPages,      \* MMAP_MEMORY_MAP_RESERVED_SIZE
  KmapCapacity,   \* entries of the kernel's memory map that fit into them
  TablePages,     \* PAGE_TABLE_RESERVED_SIZE
  WindowBase,     \* MMAP_VIRTUAL_BASE_ADDRESS
  WindowBlocks    \* MMAP_PHYSICAL_REGION_SIZE, in blocks of level 1

WindowPages == WindowBlocks * EntryPages(1)

ASSUME MmapAssumption ==
  /\ {KmapPages, KmapCapacity, TablePages, WindowBlocks} \subseteq Nat \ {0}
  /\ WindowBase % EntryPages(1) = 0

efi_memory_map_is_usable(d) == d.type \in {"conventional", "loaderCode", "bootServices"}

-----------------------------------------------------------------------------
\* One descriptor of mmap_reserve_memory.  The regions are taken from the start
\* of the first descriptor with room, the kernel's memory map first.
Reserve(r, d) ==
  LET kmapHere == r.kmap = 0 /\ d.pages >= KmapPages
      taken == IF kmapHere THEN KmapPages ELSE 0
      tablesHere == r.tables = 0 /\ d.pages - taken >= TablePages
  IN  IF ~efi_memory_map_is_usable(d) THEN r
      ELSE [kmap |-> IF kmapHere THEN d.start ELSE r.kmap,
            tables |-> IF tablesHere THEN d.start + taken ELSE r.tables]

\* The first pages of the two regions, 0 for one that was not found.
mmap_reserve_memory(map) ==
  LET upTo[k \in 0..Len(map)] == IF k = 0 THEN [kmap |-> 0, tables |-> 0] ELSE Reserve(upTo[k - 1], map[k])
  IN  upTo[Len(map)]

Region(start, n) == IF start = 0 THEN {} ELSE start..(start + n - 1)
KmapRegion(r) == Region(r.kmap, KmapPages)
TableRegion(r) == Region(r.tables, TablePages)
PagesOf(d) == d.start..(d.start + d.pages - 1)

MapEntry(start, pages, usable) == [start |-> start, pages |-> pages, usable |-> usable]

\* A mutant of EntriesOf: the tables' region is not taken off the usable entry.
EntriesOf_Overlap(r, d) ==
  LET withKmap == KmapRegion(r) \subseteq PagesOf(d)
      withTables == TableRegion(r) \subseteq PagesOf(d)
      taken == IF withKmap THEN KmapPages ELSE 0
  IN  IF ~efi_memory_map_is_usable(d) THEN <<MapEntry(d.start, d.pages, FALSE)>>
      ELSE (IF withKmap THEN <<MapEntry(r.kmap, KmapPages, FALSE)>> ELSE <<>>)
           \o (IF withTables THEN <<MapEntry(r.tables, TablePages, FALSE)>> ELSE <<>>)
           \o <<MapEntry(d.start + taken, d.pages - taken, TRUE)>>

\* The entries for one descriptor: the regions in it, then what is left of it.
\* That they lie at its start is taken for granted.
EntriesOf(r, d) ==
  LET withKmap == KmapRegion(r) \subseteq PagesOf(d)
      withTables == TableRegion(r) \subseteq PagesOf(d)
      taken == (IF withKmap THEN KmapPages ELSE 0) + (IF withTables THEN TablePages ELSE 0)
  IN  IF ~efi_memory_map_is_usable(d) THEN <<MapEntry(d.start, d.pages, FALSE)>>
      ELSE (IF withKmap THEN <<MapEntry(r.kmap, KmapPages, FALSE)>> ELSE <<>>)
           \o (IF withTables THEN <<MapEntry(r.tables, TablePages, FALSE)>> ELSE <<>>)
           \o <<MapEntry(d.start + taken, d.pages - taken, TRUE)>>

\* mmap_build_memory_map: more entries than fit are an error.
mmap_build_memory_map(r, map) ==
  LET upTo[k \in 0..Len(map)] == IF k = 0 THEN <<>> ELSE upTo[k - 1] \o EntriesOf(r, map[k])
  IN  upTo[Len(map)]

UsablePages(kmap) == UNION {PagesOf(e) : e \in {x \in Range(kmap) : x.usable}}

-----------------------------------------------------------------------------
\* The order in which recursive_copy_table meets the tables.
Before(t, u) == t.first < u.first \/ (t.first = u.first /\ t.level < u.level)
CopyOrder(tables, root) == Sorted(TablesUnder(tables, root), Before)

\* The tables of order are copied to the pool's first pages; links between
\* them follow.
CopyTables(pt, order) ==
  LET n == Len(order)
      new == [t \in {order[k].page : k \in 1..n} |-> pt.pool[CHOOSE k \in 1..n : order[k].page = t]]
      moved(e) == IF e.kind = "table" /\ e.at \in DOMAIN new THEN Entry("table", new[e.at]) ELSE e
      old(q) == pt.tables[CHOOSE t \in DOMAIN new : new[t] = q]
      copy == [q \in {new[t] : t \in DOMAIN new} |-> [i \in DOMAIN old(q) |-> moved(old(q)[i])]]
  IN  IF Len(pt.pool) < n THEN Failed(pt, "full")
      ELSE [pt EXCEPT !.tables = copy @@ @, !.pool = SubSeq(@, n + 1, Len(@)), !.at = pt.pool[1]]

\* A mutant of recursive_copy_table: tables of the last level are copied like
\* other entries, and stay where they are.
recursive_copy_table_Shares(pt, root) ==
  CopyTables(pt, SelectSeq(CopyOrder(pt.tables, root), LAMBDA t : t.level < Levels - 1))

\* Every table under the root is copied to a page of its own; the root of the
\* copy is at.
recursive_copy_table(pt, root) == CopyTables(pt, CopyOrder(pt.tables, root))

\* The copy of the loader's tables, and the physical memory mapped into it.
mmap_build_ttbr1_table(pt, ttbr1) ==
  LET copied == recursive_copy_table(pt, ttbr1)
      mapped == vmap_map_range_block(copied, copied.at, 0, WindowBase, 1, WindowBlocks)
  IN  IF copied.status # "ok" THEN copied ELSE [mapped EXCEPT !.at = copied.at]
=============================================================================
