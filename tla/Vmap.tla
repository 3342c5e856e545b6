-------------------------------- MODULE Vmap --------------------------------
(***************************************************************************)
(* Translation tables in memory: kernel/vmap.c, and the walk of            *)
(* loader/virtual_addr.c, which is the same with the firmware's allocator. *)
(*                                                                         *)
(* Addresses are page numbers.  A table is a function from the indices of  *)
(* its valid entries to [kind, at]: a "table" of the next level, or a      *)
(* "block" or "page" of memory.  Page flags are left out.  An operation    *)
(* takes and returns                                                       *)
(*                                                                         *)
(*   [tables, pool, status, at]                                            *)
(*                                                                         *)
(* where pool are the pages alloc_page will return, in order, and at the   *)
(* page the last step ended at.  A failed operation keeps what it has      *)
(* allocated and linked so far.                                            *)
(***************************************************************************)
EXTENDS Integers, Sequences, FiniteSets, SequencesExt

CONSTANTS
  Levels,         \* of tables: 4
  Fanout          \* entries of a table: 512

ASSUME VmapAssumption == Levels \in Nat \ {0} /\ Fanout \in Nat \ {0}

\* The pages an entry of level l stands for, and its index for page v:
\* TBL_L1_BLOCK_SIZE, TBL_L2_BLOCK_SIZE, L0_INDEX to L3_INDEX.
EntryPages(l) == Fanout ^ (Levels - 1 - l)
Index(v, l) == (v \div EntryPages(l)) % Fanout

EmptyTable == [i \in {} |-> 0]
Entry(kind, at) == [kind |-> kind, at |-> at]

\* The members of S in the order before.
Sorted(S, before(_, _)) ==
  [k \in 1..Cardinality(S) |-> CHOOSE x \in S : Cardinality({y \in S : before(y, x)}) = k - 1]

\* f with x mapped to y.
Put(f, x, y) == [z \in DOMAIN f \cup {x} |-> IF z = x THEN y ELSE f[z]]

Failed(pt, why) == [pt EXCEPT !.status = why]

\* A new, zeroed table.
alloc_page(pt) ==
  IF pt.pool = <<>> THEN Failed(pt, "full")
  ELSE [pt EXCEPT !.tables = Put(pt.tables, Head(pt.pool), EmptyTable),
                  !.pool = Tail(pt.pool),
                  !.at = Head(pt.pool)]

\* Entry i of the table on page t is written.
Write(pt, t, i, entry) == [pt EXCEPT !.tables[t] = Put(@, i, entry)]

\* From the table at pt.at to the one below it at index i, which is made if it
\* is missing.  Mapping blocks checks that the entry is a table; mapping a page
\* does not, and takes what is mapped there for a table.
Descend(pt, i, checked) ==
  LET here == pt.tables[pt.at]
      new == alloc_page(pt)
  IN  IF pt.status # "ok" THEN pt
      ELSE IF i \notin DOMAIN here
        THEN IF new.status = "ok" THEN Write(new, pt.at, i, Entry("table", new.at)) ELSE new
      ELSE IF here[i].kind = "table" THEN [pt EXCEPT !.at = here[i].at]
      ELSE Failed(pt, IF checked THEN "mapped" ELSE "wild")

\* From the root down to the table of level depth.
Walk(pt, root, v, depth, checked) ==
  LET walk[l \in 0..depth] ==
        IF l = 0 THEN [pt EXCEPT !.at = root]
        ELSE Descend(walk[l - 1], Index(v, l - 1), checked)
  IN  walk[depth]

\* vmap_map_page and virtual_addr_map_page: a page that is mapped already is
\* replaced.
vmap_map_page(pt, root, p, v) ==
  LET w == Walk(pt, root, v, Levels - 1, FALSE)
  IN  IF w.status = "ok" THEN Write(w, w.at, Index(v, Levels - 1), Entry("page", p)) ELSE w

\* vmap_map_l1_block and vmap_map_l2_block, by level: what is mapped stays.
vmap_map_block(pt, root, p, v, level) ==
  LET w == Walk(pt, root, v, level, TRUE)
      i == Index(v, level)
  IN  IF v % EntryPages(level) # 0 \/ p % EntryPages(level) # 0 THEN Failed(pt, "unaligned")
      ELSE IF w.status # "ok" THEN w
      ELSE IF i \in DOMAIN w.tables[w.at] THEN Failed(w, "mapped")
      ELSE Write(w, w.at, i, Entry("block", p))

\* The loops over ranges stop at the first failure.  n is the number of pages.
vmap_map_range(pt, root, p, v, n) ==
  LET upTo[k \in 0..n] ==
        IF k = 0 THEN pt
        ELSE LET done == upTo[k - 1]
             IN  IF done.status = "ok" THEN vmap_map_page(done, root, p + k - 1, v + k - 1) ELSE done
  IN  upTo[n]

vmap_map_range_block(pt, root, p, v, level, blocks) ==
  LET size == EntryPages(level)
      upTo[k \in 0..blocks] ==
        IF k = 0 THEN pt
        ELSE LET done == upTo[k - 1]
             IN  IF done.status # "ok" THEN done
                 ELSE vmap_map_block(done, root, p + (k - 1) * size, v + (k - 1) * size, level)
  IN  upTo[blocks]

\* Entry i of the table on page t, if there is one; where page v is in a block
\* of level l.
EntryAt(tables, t, i) ==
  IF t \in DOMAIN tables /\ i \in DOMAIN tables[t] THEN {tables[t][i]} ELSE {}
InBlock(e, v, l) == IF e.kind = "block" THEN Entry("page", e.at + (v % EntryPages(l))) ELSE e

\* vmap_virtual_to_physical, which is also what the processor does: the page v
\* translates to, if any.
vmap_virtual_to_physical(tables, root, v) ==
  LET below(e, l) == IF e.kind = "page" THEN {e}
                     ELSE {InBlock(x, v, l) : x \in EntryAt(tables, e.at, Index(v, l))}
      found[l \in 0..Levels] ==
        IF l = 0 THEN {Entry("table", root)} ELSE UNION {below(e, l - 1) : e \in found[l - 1]}
  IN  {e.at : e \in found[Levels]}

\* The tables under a root: their level, the first page they are about, and the
\* page they are on.
TablesUnder(tables, root) ==
  LET at[l \in 0..(Levels - 1)] ==
        IF l = 0 THEN {[level |-> 0, first |-> 0, page |-> root]}
        ELSE UNION {{[level |-> l, first |-> t.first + i * EntryPages(l - 1), page |-> tables[t.page][i].at]
                     : i \in {j \in DOMAIN tables[t.page] : tables[t.page][j].kind = "table"}}
                    : t \in at[l - 1]}
  IN  UNION {at[l] : l \in 0..(Levels - 1)}
=============================================================================
