-------------------------- MODULE MCProcessMemory --------------------------
(***************************************************************************)
(* Two processes, each with a stack page and two segments that share a     *)
(* page.  The memory is usable in two regions with one that the firmware   *)
(* keeps between them, and ends with a framebuffer of two pages.  In the   *)
(* first memory map both programs fit and a few pages remain; the others,  *)
(* aligned in different ways, are too small for the second program.  The   *)
(* paths share a bucket, and every vector starts with room for one.        *)
(***************************************************************************)
EXTENDS ProcessMemory

CONSTANTS procA, procB, shm, fb

MCModules == <<procA, procB>>
MCPrograms == {<<3, 0, 0>>}
MCHash == [path \in {shm, fb} |-> IF path = shm THEN 3 ELSE 1]
MCFramebuffer == [path |-> fb, pages |-> <<TotalPages - 2, TotalPages - 1>>]

Map(s, n, g) ==
  <<[start |-> s, pages |-> n, usable |-> TRUE],
    [start |-> s + n, pages |-> g, usable |-> FALSE],
    [start |-> s + n + g, pages |-> TotalPages - 2 - s - n - g, usable |-> TRUE]>>
MCMemoryMaps == {Map(1, 7, 1)} \cup {Map(s, n, 4) : s \in 2..3, n \in {1, 3, 4}}
=============================================================================
