----------------------------- MODULE HeapProofs -----------------------------
(***************************************************************************)
(* TLAPS proofs about the kernel heap, for any header, page and heap size, *)
(* any sizes asked for and any number of allocations.                      *)
(***************************************************************************)
EXTENDS BlockAllocator, FiniteSetTheorems, SequenceTheorems, WellFoundedInduction, TLAPS

-----------------------------------------------------------------------------
(* The headers, one function per field.                                    *)

HeaderOf(f, n, p, q, r, s) ==
  [isFree |-> f, size |-> n, prev |-> p, next |-> q, freePrev |-> r, freeNext |-> s]

Headers(D, fr, sz, pv, nx, fp, fn) ==
  [x \in D |-> HeaderOf(fr[x], sz[x], pv[x], nx[x], fp[x], fn[x])]

\* The allocator whose blocks are D, from a function per field of their headers.
Alloc(D, fr, sz, pv, nx, fp, fn, bh, fh) ==
  [headers |-> Headers(D, fr, sz, pv, nx, fp, fn), blockHead |-> bh, freeHead |-> fh]

\* An assignment through a pointer that is tested first.
Upd(f, b, p) == IF b = NULL THEN f ELSE [f EXCEPT ![b] = p]

\* f and g are the same function on D.
Keeps(D, f, g) == \A x \in D : g[x] = f[x]

\* Each assignment to a field changes one of the functions.
LEMMA SetFreeAlloc ==
  ASSUME NEW D, NEW fr, NEW sz, NEW pv, NEW nx, NEW fp, NEW fn,
         NEW bh, NEW fh, NEW b \in D, NEW p, NEW g, g[b] = p, Keeps(D \ {b}, fr, g)
  PROVE  SetFree(Alloc(D, fr, sz, pv, nx, fp, fn, bh, fh), b, p)
           = Alloc(D, g, sz, pv, nx, fp, fn, bh, fh)
<1> DEFINE h == Headers(D, fr, sz, pv, nx, fp, fn)
<1>1. b \in D
  OBVIOUS
<1>2. [h EXCEPT ![b] = [@ EXCEPT !.isFree = p]] = Headers(D, g, sz, pv, nx, fp, fn)
  <2>1. [h[b] EXCEPT !.isFree = p] = HeaderOf(p, sz[b], pv[b], nx[b], fp[b], fn[b])
    BY <1>1 DEF Headers, HeaderOf
  <2>2. [h EXCEPT ![b] = [@ EXCEPT !.isFree = p]] = [h EXCEPT ![b] = [h[b] EXCEPT !.isFree = p]]
    BY <1>1 DEF Headers
  <2>3. \A x \in D : g[x] = IF x = b THEN p ELSE fr[x]
    BY <1>1 DEF Keeps
  <2> QED
    BY <1>1, <2>1, <2>2, <2>3 DEF Headers
<1> HIDE DEF h
<1>3. SetFree([headers |-> h, blockHead |-> bh, freeHead |-> fh], b, p)
        = [headers |-> [h EXCEPT ![b] = [@ EXCEPT !.isFree = p]], blockHead |-> bh, freeHead |-> fh]
  BY DEF SetFree
<1> QED
  BY <1>2, <1>3 DEF Alloc, h

LEMMA SetSizeAlloc ==
  ASSUME NEW D, NEW fr, NEW sz, NEW pv, NEW nx, NEW fp, NEW fn,
         NEW bh, NEW fh, NEW b \in D, NEW p, NEW g, g[b] = p, Keeps(D \ {b}, sz, g)
  PROVE  SetSize(Alloc(D, fr, sz, pv, nx, fp, fn, bh, fh), b, p)
           = Alloc(D, fr, g, pv, nx, fp, fn, bh, fh)
<1> DEFINE h == Headers(D, fr, sz, pv, nx, fp, fn)
<1>1. b \in D
  OBVIOUS
<1>2. [h EXCEPT ![b] = [@ EXCEPT !.size = p]] = Headers(D, fr, g, pv, nx, fp, fn)
  <2>1. [h[b] EXCEPT !.size = p] = HeaderOf(fr[b], p, pv[b], nx[b], fp[b], fn[b])
    BY <1>1 DEF Headers, HeaderOf
  <2>2. [h EXCEPT ![b] = [@ EXCEPT !.size = p]] = [h EXCEPT ![b] = [h[b] EXCEPT !.size = p]]
    BY <1>1 DEF Headers
  <2>3. \A x \in D : g[x] = IF x = b THEN p ELSE sz[x]
    BY <1>1 DEF Keeps
  <2> QED
    BY <1>1, <2>1, <2>2, <2>3 DEF Headers
<1> HIDE DEF h
<1>3. SetSize([headers |-> h, blockHead |-> bh, freeHead |-> fh], b, p)
        = [headers |-> [h EXCEPT ![b] = [@ EXCEPT !.size = p]], blockHead |-> bh, freeHead |-> fh]
  BY DEF SetSize
<1> QED
  BY <1>2, <1>3 DEF Alloc, h

LEMMA SetPrevAlloc ==
  ASSUME NEW D \in SUBSET Nat, NEW fr, NEW sz, NEW pv \in [Int -> Int], NEW nx, NEW fp, NEW fn,
         NEW bh, NEW fh, NEW b \in D \cup {NULL}, NEW p \in Int
  PROVE  SetPrev(Alloc(D, fr, sz, pv, nx, fp, fn, bh, fh), b, p)
           = Alloc(D, fr, sz, Upd(pv, b, p), nx, fp, fn, bh, fh)
<1>1. CASE b = NULL
  BY <1>1 DEF SetPrev, Upd
<1>2. CASE b # NULL
  <2> DEFINE h == Headers(D, fr, sz, pv, nx, fp, fn)
  <2>1. b \in D /\ b \in Int
    BY <1>2
  <2>2. [h EXCEPT ![b] = [@ EXCEPT !.prev = p]] = Headers(D, fr, sz, [pv EXCEPT ![b] = p], nx, fp, fn)
    <3>1. [h[b] EXCEPT !.prev = p] = HeaderOf(fr[b], sz[b], p, nx[b], fp[b], fn[b])
      BY <2>1 DEF Headers, HeaderOf
    <3>2. [h EXCEPT ![b] = [@ EXCEPT !.prev = p]] = [h EXCEPT ![b] = [h[b] EXCEPT !.prev = p]]
      BY <2>1 DEF Headers
    <3>3. \A x \in D : [pv EXCEPT ![b] = p][x] = IF x = b THEN p ELSE pv[x]
      BY <2>1
    <3> QED
      BY <2>1, <3>1, <3>2, <3>3 DEF Headers
  <2> HIDE DEF h
  <2>3. SetPrev([headers |-> h, blockHead |-> bh, freeHead |-> fh], b, p)
          = [headers |-> [h EXCEPT ![b] = [@ EXCEPT !.prev = p]], blockHead |-> bh, freeHead |-> fh]
    BY <1>2 DEF SetPrev
  <2> QED
    BY <1>2, <2>2, <2>3 DEF Alloc, Upd, h
<1> QED
  BY <1>1, <1>2

LEMMA SetNextAlloc ==
  ASSUME NEW D \in SUBSET Nat, NEW fr, NEW sz, NEW pv, NEW nx \in [Int -> Int], NEW fp, NEW fn,
         NEW bh, NEW fh, NEW b \in D \cup {NULL}, NEW p \in Int
  PROVE  SetNext(Alloc(D, fr, sz, pv, nx, fp, fn, bh, fh), b, p)
           = Alloc(D, fr, sz, pv, Upd(nx, b, p), fp, fn, bh, fh)
<1>1. CASE b = NULL
  BY <1>1 DEF SetNext, Upd
<1>2. CASE b # NULL
  <2> DEFINE h == Headers(D, fr, sz, pv, nx, fp, fn)
  <2>1. b \in D /\ b \in Int
    BY <1>2
  <2>2. [h EXCEPT ![b] = [@ EXCEPT !.next = p]] = Headers(D, fr, sz, pv, [nx EXCEPT ![b] = p], fp, fn)
    <3>1. [h[b] EXCEPT !.next = p] = HeaderOf(fr[b], sz[b], pv[b], p, fp[b], fn[b])
      BY <2>1 DEF Headers, HeaderOf
    <3>2. [h EXCEPT ![b] = [@ EXCEPT !.next = p]] = [h EXCEPT ![b] = [h[b] EXCEPT !.next = p]]
      BY <2>1 DEF Headers
    <3>3. \A x \in D : [nx EXCEPT ![b] = p][x] = IF x = b THEN p ELSE nx[x]
      BY <2>1
    <3> QED
      BY <2>1, <3>1, <3>2, <3>3 DEF Headers
  <2> HIDE DEF h
  <2>3. SetNext([headers |-> h, blockHead |-> bh, freeHead |-> fh], b, p)
          = [headers |-> [h EXCEPT ![b] = [@ EXCEPT !.next = p]], blockHead |-> bh, freeHead |-> fh]
    BY <1>2 DEF SetNext
  <2> QED
    BY <1>2, <2>2, <2>3 DEF Alloc, Upd, h
<1> QED
  BY <1>1, <1>2

LEMMA SetFreePrevAlloc ==
  ASSUME NEW D \in SUBSET Nat, NEW fr, NEW sz, NEW pv, NEW nx, NEW fp \in [Int -> Int], NEW fn,
         NEW bh, NEW fh, NEW b \in D \cup {NULL}, NEW p \in Int
  PROVE  SetFreePrev(Alloc(D, fr, sz, pv, nx, fp, fn, bh, fh), b, p)
           = Alloc(D, fr, sz, pv, nx, Upd(fp, b, p), fn, bh, fh)
<1>1. CASE b = NULL
  BY <1>1 DEF SetFreePrev, Upd
<1>2. CASE b # NULL
  <2> DEFINE h == Headers(D, fr, sz, pv, nx, fp, fn)
  <2>1. b \in D /\ b \in Int
    BY <1>2
  <2>2. [h EXCEPT ![b] = [@ EXCEPT !.freePrev = p]] = Headers(D, fr, sz, pv, nx, [fp EXCEPT ![b] = p], fn)
    <3>1. [h[b] EXCEPT !.freePrev = p] = HeaderOf(fr[b], sz[b], pv[b], nx[b], p, fn[b])
      BY <2>1 DEF Headers, HeaderOf
    <3>2. [h EXCEPT ![b] = [@ EXCEPT !.freePrev = p]] = [h EXCEPT ![b] = [h[b] EXCEPT !.freePrev = p]]
      BY <2>1 DEF Headers
    <3>3. \A x \in D : [fp EXCEPT ![b] = p][x] = IF x = b THEN p ELSE fp[x]
      BY <2>1
    <3> QED
      BY <2>1, <3>1, <3>2, <3>3 DEF Headers
  <2> HIDE DEF h
  <2>3. SetFreePrev([headers |-> h, blockHead |-> bh, freeHead |-> fh], b, p)
          = [headers |-> [h EXCEPT ![b] = [@ EXCEPT !.freePrev = p]], blockHead |-> bh, freeHead |-> fh]
    BY <1>2 DEF SetFreePrev
  <2> QED
    BY <1>2, <2>2, <2>3 DEF Alloc, Upd, h
<1> QED
  BY <1>1, <1>2

LEMMA SetFreeNextAlloc ==
  ASSUME NEW D \in SUBSET Nat, NEW fr, NEW sz, NEW pv, NEW nx, NEW fp, NEW fn \in [Int -> Int],
         NEW bh, NEW fh, NEW b \in D \cup {NULL}, NEW p \in Int
  PROVE  SetFreeNext(Alloc(D, fr, sz, pv, nx, fp, fn, bh, fh), b, p)
           = Alloc(D, fr, sz, pv, nx, fp, Upd(fn, b, p), bh, fh)
<1>1. CASE b = NULL
  BY <1>1 DEF SetFreeNext, Upd
<1>2. CASE b # NULL
  <2> DEFINE h == Headers(D, fr, sz, pv, nx, fp, fn)
  <2>1. b \in D /\ b \in Int
    BY <1>2
  <2>2. [h EXCEPT ![b] = [@ EXCEPT !.freeNext = p]] = Headers(D, fr, sz, pv, nx, fp, [fn EXCEPT ![b] = p])
    <3>1. [h[b] EXCEPT !.freeNext = p] = HeaderOf(fr[b], sz[b], pv[b], nx[b], fp[b], p)
      BY <2>1 DEF Headers, HeaderOf
    <3>2. [h EXCEPT ![b] = [@ EXCEPT !.freeNext = p]] = [h EXCEPT ![b] = [h[b] EXCEPT !.freeNext = p]]
      BY <2>1 DEF Headers
    <3>3. \A x \in D : [fn EXCEPT ![b] = p][x] = IF x = b THEN p ELSE fn[x]
      BY <2>1
    <3> QED
      BY <2>1, <3>1, <3>2, <3>3 DEF Headers
  <2> HIDE DEF h
  <2>3. SetFreeNext([headers |-> h, blockHead |-> bh, freeHead |-> fh], b, p)
          = [headers |-> [h EXCEPT ![b] = [@ EXCEPT !.freeNext = p]], blockHead |-> bh, freeHead |-> fh]
    BY <1>2 DEF SetFreeNext
  <2> QED
    BY <1>2, <2>2, <2>3 DEF Alloc, Upd, h
<1> QED
  BY <1>1, <1>2

\* What the fields of that allocator say.
LEMMA AllocFields ==
  ASSUME NEW D, NEW fr, NEW sz, NEW pv, NEW nx, NEW fp, NEW fn, NEW bh, NEW fh
  PROVE  LET a == Alloc(D, fr, sz, pv, nx, fp, fn, bh, fh)
         IN  /\ a.blockHead = bh /\ a.freeHead = fh /\ DOMAIN a.headers = D
             /\ DOMAIN a = {"headers", "blockHead", "freeHead"}
             /\ \A x \in D : /\ a.headers[x].isFree = fr[x] /\ a.headers[x].size = sz[x]
                             /\ a.headers[x].prev = pv[x] /\ a.headers[x].next = nx[x]
                             /\ a.headers[x].freePrev = fp[x] /\ a.headers[x].freeNext = fn[x]
                             /\ a.headers[x] = HeaderOf(fr[x], sz[x], pv[x], nx[x], fp[x], fn[x])
             /\ \A x : /\ [a EXCEPT !.freeHead = x] = Alloc(D, fr, sz, pv, nx, fp, fn, bh, x)
                       /\ [a EXCEPT !.blockHead = x] = Alloc(D, fr, sz, pv, nx, fp, fn, x, fh)
<1> DEFINE a == Alloc(D, fr, sz, pv, nx, fp, fn, bh, fh)
<1>1. /\ a.headers = Headers(D, fr, sz, pv, nx, fp, fn) /\ a.blockHead = bh /\ a.freeHead = fh
      /\ DOMAIN a = {"headers", "blockHead", "freeHead"}
  BY DEF Alloc
<1>2. \A x : /\ [a EXCEPT !.freeHead = x] = Alloc(D, fr, sz, pv, nx, fp, fn, bh, x)
            /\ [a EXCEPT !.blockHead = x] = Alloc(D, fr, sz, pv, nx, fp, fn, x, fh)
  BY DEF Alloc
<1>3. /\ DOMAIN a.headers = D
      /\ \A x \in D : a.headers[x] = HeaderOf(fr[x], sz[x], pv[x], nx[x], fp[x], fn[x])
  BY <1>1 DEF Headers
<1>4. \A x \in D : /\ a.headers[x].isFree = fr[x] /\ a.headers[x].size = sz[x]
                  /\ a.headers[x].prev = pv[x] /\ a.headers[x].next = nx[x]
                  /\ a.headers[x].freePrev = fp[x] /\ a.headers[x].freeNext = fn[x]
  <2>1. \A f, n, p, q, r, s :
          /\ HeaderOf(f, n, p, q, r, s).isFree = f
          /\ HeaderOf(f, n, p, q, r, s).size = n /\ HeaderOf(f, n, p, q, r, s).prev = p
          /\ HeaderOf(f, n, p, q, r, s).next = q /\ HeaderOf(f, n, p, q, r, s).freePrev = r
          /\ HeaderOf(f, n, p, q, r, s).freeNext = s
    BY DEF HeaderOf
  <2> HIDE DEF a
  <2> SUFFICES ASSUME NEW x \in D
               PROVE  /\ a.headers[x].isFree = fr[x] /\ a.headers[x].size = sz[x]
                      /\ a.headers[x].prev = pv[x] /\ a.headers[x].next = nx[x]
                      /\ a.headers[x].freePrev = fp[x] /\ a.headers[x].freeNext = fn[x]
    OBVIOUS
  <2>2. a.headers[x] = HeaderOf(fr[x], sz[x], pv[x], nx[x], fp[x], fn[x])
    BY <1>3
  <2>3. a.headers[x].isFree = fr[x]
    <3>1. HeaderOf(fr[x], sz[x], pv[x], nx[x], fp[x], fn[x]).isFree = fr[x]
      BY <2>1
    <3> QED
      BY <2>2, <3>1
  <2>4. /\ a.headers[x].size = sz[x] /\ a.headers[x].prev = pv[x] /\ a.headers[x].next = nx[x]
        /\ a.headers[x].freePrev = fp[x] /\ a.headers[x].freeNext = fn[x]
    BY <2>2 DEF HeaderOf
  <2> QED
    BY <2>3, <2>4
<1> QED
  BY <1>1, <1>2, <1>3, <1>4, Zenon

LEMMA WriteHeaderAlloc ==
  ASSUME NEW D, NEW fr, NEW sz, NEW pv, NEW nx, NEW fp, NEW fn, NEW bh, NEW fh, NEW b, b \notin D,
         NEW f, NEW n, NEW p, NEW q, NEW r, NEW s, NEW fr2, NEW sz2, NEW pv2, NEW nx2, NEW fp2, NEW fn2,
         fr2[b] = f /\ sz2[b] = n /\ pv2[b] = p /\ nx2[b] = q /\ fp2[b] = r /\ fn2[b] = s,
         Keeps(D, fr, fr2), Keeps(D, sz, sz2), Keeps(D, pv, pv2), Keeps(D, nx, nx2), Keeps(D, fp, fp2),
         Keeps(D, fn, fn2)
  PROVE  WriteHeader(Alloc(D, fr, sz, pv, nx, fp, fn, bh, fh), b, HeaderOf(f, n, p, q, r, s))
           = Alloc(D \cup {b}, fr2, sz2, pv2, nx2, fp2, fn2, bh, fh)
<1> DEFINE h == Headers(D, fr, sz, pv, nx, fp, fn)
<1> DEFINE e == HeaderOf(f, n, p, q, r, s)
<1> DEFINE g == Headers(D \cup {b}, fr2, sz2, pv2, nx2, fp2, fn2)
<1>1. DOMAIN h = D /\ \A x \in D : h[x] = HeaderOf(fr[x], sz[x], pv[x], nx[x], fp[x], fn[x])
  BY DEF Headers
<1>2. g[b] = e
  BY DEF Headers
<1>3. \A x \in D : g[x] = h[x]
  BY <1>1 DEF Headers, Keeps
<1>4. g = [x \in D \cup {b} |-> g[x]]
  BY DEF Headers
<1> HIDE DEF h, g, e
<1>5. g = [x \in D \cup {b} |-> IF x = b THEN e ELSE h[x]]
  BY <1>2, <1>3, <1>4
<1>6. WriteHeader([headers |-> h, blockHead |-> bh, freeHead |-> fh], b, e)
        = [headers |-> [x \in D \cup {b} |-> IF x = b THEN e ELSE h[x]], blockHead |-> bh, freeHead |-> fh]
  <2>1. PICK a : a = [headers |-> h, blockHead |-> bh, freeHead |-> fh]
    OBVIOUS
  <2>2. a.headers = h /\ DOMAIN a.headers = D
    BY <1>1, <2>1
  <2>3. PICK g2 : g2 = [x \in D \cup {b} |-> IF x = b THEN e ELSE h[x]]
    OBVIOUS
  <2>4. [x \in DOMAIN a.headers \cup {b} |-> IF x = b THEN e ELSE a.headers[x]] = g2
    BY <2>2, <2>3
  <2>5. WriteHeader(a, b, e) = [a EXCEPT !.headers = g2]
    BY <2>4 DEF WriteHeader
  <2> QED
    BY <2>1, <2>3, <2>5
<1> QED
  BY <1>5, <1>6 DEF Alloc, h, g, e

LEMMA DropHeaderAlloc ==
  ASSUME NEW D, NEW fr, NEW sz, NEW pv, NEW nx, NEW fp, NEW fn, NEW bh, NEW fh, NEW b
  PROVE  DropHeader(Alloc(D, fr, sz, pv, nx, fp, fn, bh, fh), b)
           = Alloc(D \ {b}, fr, sz, pv, nx, fp, fn, bh, fh)
<1> DEFINE h == Headers(D, fr, sz, pv, nx, fp, fn)
<1>1. DOMAIN h = D
  BY DEF Headers
<1>2. [x \in D \ {b} |-> h[x]] = Headers(D \ {b}, fr, sz, pv, nx, fp, fn)
  BY DEF Headers
<1> HIDE DEF h
<1>3. DropHeader([headers |-> h, blockHead |-> bh, freeHead |-> fh], b)
        = [headers |-> [x \in D \ {b} |-> h[x]], blockHead |-> bh, freeHead |-> fh]
  BY <1>1 DEF DropHeader
<1> QED
  BY <1>2, <1>3 DEF Alloc, h

LEMMA UpdType ==
  ASSUME NEW f \in [Int -> Int], NEW b \in Int, NEW p \in Int
  PROVE  /\ Upd(f, b, p) \in [Int -> Int]
         /\ \A x \in Int : Upd(f, b, p)[x] = IF x = b /\ b # NULL THEN p ELSE f[x]
BY DEF Upd

\* add_block_to_free_list, remove_block_from_free_list and
\* remove_block_from_block_list as changes of those functions.
LEMMA AddFreeAlloc ==
  ASSUME NEW D \in SUBSET Nat, NEW fr, NEW sz, NEW pv, NEW nx, NEW fp \in [Int -> Int],
         NEW fn \in [Int -> Int], NEW bh, NEW fh \in D \cup {NULL}, NEW b \in D
  PROVE  add_block_to_free_list(Alloc(D, fr, sz, pv, nx, fp, fn, bh, fh), b)
           = Alloc(D, fr, sz, pv, nx, Upd(Upd(fp, b, NULL), fh, b), Upd(fn, b, fh), bh, b)
<1> DEFINE a == Alloc(D, fr, sz, pv, nx, fp, fn, bh, fh)
<1>1. NULL \in Int /\ fh \in Int /\ b \in Int /\ b \in D \cup {NULL}
  BY DEF NULL
<1>2. SetFreePrev(a, b, NULL) = Alloc(D, fr, sz, pv, nx, Upd(fp, b, NULL), fn, bh, fh)
  BY <1>1, SetFreePrevAlloc
<1>3. Upd(fp, b, NULL) \in [Int -> Int]
  BY <1>1, UpdType
<1>4. SetFreeNext(SetFreePrev(a, b, NULL), b, fh)
        = Alloc(D, fr, sz, pv, nx, Upd(fp, b, NULL), Upd(fn, b, fh), bh, fh)
  BY <1>1, <1>2, SetFreeNextAlloc
<1>5. a.freeHead = fh
  BY AllocFields
<1>6. [SetFreeNext(SetFreePrev(a, b, NULL), b, fh) EXCEPT !.freeHead = b]
        = Alloc(D, fr, sz, pv, nx, Upd(fp, b, NULL), Upd(fn, b, fh), bh, b)
  BY <1>4, AllocFields
<1>7. SetFreePrev(Alloc(D, fr, sz, pv, nx, Upd(fp, b, NULL), Upd(fn, b, fh), bh, b), fh, b)
        = Alloc(D, fr, sz, pv, nx, Upd(Upd(fp, b, NULL), fh, b), Upd(fn, b, fh), bh, b)
  BY <1>1, <1>3, SetFreePrevAlloc
<1> HIDE DEF a
<1>8. add_block_to_free_list(a, b)
        = SetFreePrev([SetFreeNext(SetFreePrev(a, b, NULL), b, a.freeHead) EXCEPT !.freeHead = b], a.freeHead, b)
  BY Zenon DEF add_block_to_free_list
<1> QED
  BY <1>5, <1>6, <1>7, <1>8 DEF a

LEMMA RemoveFreeAlloc ==
  ASSUME NEW D \in SUBSET Nat, NEW fr, NEW sz, NEW pv, NEW nx, NEW fp \in [Int -> Int],
         NEW fn \in [Int -> Int], NEW bh, NEW fh, NEW b \in D,
         fp[b] \in D \cup {NULL}, fn[b] \in D \cup {NULL}
  PROVE  remove_block_from_free_list(Alloc(D, fr, sz, pv, nx, fp, fn, bh, fh), b)
           = Alloc(D, fr, sz, pv, nx, Upd(Upd(fp, fn[b], fp[b]), b, NULL),
                   Upd(Upd(fn, fp[b], fn[b]), b, NULL), bh, IF fp[b] = NULL THEN fn[b] ELSE fh)
<1> DEFINE a == Alloc(D, fr, sz, pv, nx, fp, fn, bh, fh)
<1>1. PICK p : p = fp[b]
  OBVIOUS
<1>2. PICK n : n = fn[b]
  OBVIOUS
<1>3. p \in D \cup {NULL} /\ n \in D \cup {NULL} /\ p \in Int /\ n \in Int /\ NULL \in Int
      /\ b \in D \cup {NULL} /\ b \in Int
  BY <1>1, <1>2 DEF NULL
<1>4. a.headers[b].freePrev = p /\ a.headers[b].freeNext = n
  BY <1>1, <1>2, AllocFields
<1> DEFINE fh2 == IF p = NULL THEN n ELSE fh
<1> DEFINE a1 == IF p # NULL THEN SetFreeNext(a, p, n) ELSE [a EXCEPT !.freeHead = n]
<1>5. a1 = Alloc(D, fr, sz, pv, nx, fp, Upd(fn, p, n), bh, fh2)
  <2>1. CASE p = NULL
    BY <2>1, AllocFields DEF Upd
  <2>2. CASE p # NULL
    BY <2>2, <1>3, SetFreeNextAlloc
  <2> QED
    BY <2>1, <2>2
<1>6. Upd(fn, p, n) \in [Int -> Int] /\ Upd(fp, n, p) \in [Int -> Int]
  BY <1>3, UpdType
<1> HIDE DEF fh2, a1, a
<1>7. SetFreePrev(a1, n, p) = Alloc(D, fr, sz, pv, nx, Upd(fp, n, p), Upd(fn, p, n), bh, fh2)
  BY <1>3, <1>5, <1>6, SetFreePrevAlloc
<1>8. SetFreeNext(SetFreePrev(a1, n, p), b, NULL)
        = Alloc(D, fr, sz, pv, nx, Upd(fp, n, p), Upd(Upd(fn, p, n), b, NULL), bh, fh2)
  BY <1>3, <1>6, <1>7, SetFreeNextAlloc
<1>9. SetFreePrev(SetFreeNext(SetFreePrev(a1, n, p), b, NULL), b, NULL)
        = Alloc(D, fr, sz, pv, nx, Upd(Upd(fp, n, p), b, NULL), Upd(Upd(fn, p, n), b, NULL), bh, fh2)
  BY <1>3, <1>6, <1>8, SetFreePrevAlloc
<1>10. remove_block_from_free_list(a, b) = SetFreePrev(SetFreeNext(SetFreePrev(a1, n, p), b, NULL), b, NULL)
  BY <1>4, Zenon DEF remove_block_from_free_list, a1
<1> QED
  BY <1>1, <1>2, <1>9, <1>10 DEF a, fh2

LEMMA RemoveBlockAlloc ==
  ASSUME NEW D \in SUBSET Nat, NEW fr, NEW sz, NEW pv \in [Int -> Int], NEW nx \in [Int -> Int], NEW fp,
         NEW fn, NEW bh, NEW fh, NEW b \in D, pv[b] \in D, nx[b] \in D \cup {NULL}
  PROVE  remove_block_from_block_list(Alloc(D, fr, sz, pv, nx, fp, fn, bh, fh), b)
           = Alloc(D, fr, sz, Upd(Upd(pv, nx[b], pv[b]), b, NULL),
                   Upd(Upd(nx, pv[b], nx[b]), b, NULL), fp, fn, bh, fh)
<1> DEFINE a == Alloc(D, fr, sz, pv, nx, fp, fn, bh, fh)
<1>1. PICK p : p = pv[b]
  OBVIOUS
<1>2. PICK n : n = nx[b]
  OBVIOUS
<1>3. p \in D \cup {NULL} /\ n \in D \cup {NULL} /\ p \in Int /\ n \in Int /\ NULL \in Int
      /\ b \in D \cup {NULL} /\ b \in Int /\ p # NULL
  BY <1>1, <1>2 DEF NULL
<1>4. a.headers[b].prev = p /\ a.headers[b].next = n
  BY <1>1, <1>2, AllocFields
<1>5. SetNext(a, p, n) = Alloc(D, fr, sz, pv, Upd(nx, p, n), fp, fn, bh, fh)
  BY <1>3, SetNextAlloc
<1>6. Upd(nx, p, n) \in [Int -> Int] /\ Upd(pv, n, p) \in [Int -> Int]
  BY <1>3, UpdType
<1> HIDE DEF a
<1>7. SetPrev(SetNext(a, p, n), n, p) = Alloc(D, fr, sz, Upd(pv, n, p), Upd(nx, p, n), fp, fn, bh, fh)
  BY <1>3, <1>5, <1>6, SetPrevAlloc
<1>8. SetNext(SetPrev(SetNext(a, p, n), n, p), b, NULL)
        = Alloc(D, fr, sz, Upd(pv, n, p), Upd(Upd(nx, p, n), b, NULL), fp, fn, bh, fh)
  BY <1>3, <1>6, <1>7, SetNextAlloc
<1>9. SetPrev(SetNext(SetPrev(SetNext(a, p, n), n, p), b, NULL), b, NULL)
        = Alloc(D, fr, sz, Upd(Upd(pv, n, p), b, NULL), Upd(Upd(nx, p, n), b, NULL), fp, fn, bh, fh)
  BY <1>3, <1>6, <1>8, SetPrevAlloc
<1>10. remove_block_from_block_list(a, b) = SetPrev(SetNext(SetPrev(SetNext(a, p, n), n, p), b, NULL), b, NULL)
  BY <1>3, <1>4, Zenon DEF remove_block_from_block_list
<1> QED
  BY <1>1, <1>2, <1>9, <1>10 DEF a

\* A nonempty set of natural numbers has a least element.
LEMMA LeastNatural ==
  ASSUME NEW S, S \subseteq Nat, S # {}
  PROVE  \E m \in S : \A n \in S : m <= n
<1> DEFINE R == OpToRel(<, Nat)
<1>1. IsWellFoundedOn(R, Nat)
  BY NatLessThanWellFounded, Zenon
<1>2. PICK m \in S : \A n \in S : ~ (<<n, m>> \in R)
  <2> HIDE DEF R
  <2> QED BY <1>1, WFMin
<1>3. \A n \in S : ~ (n < m)
  BY <1>2 DEF OpToRel
<1>4. \A n \in S : m <= n
  BY <1>3
<1> QED BY <1>4

\* Induction on the natural numbers, with the formula to be proved as a set.
LEMMA SetInduction ==
  ASSUME NEW S, 0 \in S, \A n \in Nat : n \in S => n + 1 \in S
  PROVE  Nat \subseteq S
<1> SUFFICES ASSUME Nat \ S # {} PROVE FALSE
  OBVIOUS
<1>1. PICK x \in Nat \ S : \A y \in Nat \ S : x <= y
  BY LeastNatural
<1> QED BY <1>1

-----------------------------------------------------------------------------
(* The free list: no block of it is behind itself, because the blocks have *)
(* ranks that grow along the list; low is below all of them.               *)

FreeChain(F, fp, fn, fh, rank, low) ==
  /\ fh = NULL => F = {}
  /\ fh # NULL => fh \in F /\ fp[fh] = NULL
  /\ \A x \in F : low <= rank[x]
  /\ \A x \in F : fn[x] # NULL => fn[x] \in F /\ fp[fn[x]] = x /\ rank[x] < rank[fn[x]]
  /\ \A x \in F : x # fh => fp[x] \in F /\ fn[fp[x]] = x

LEMMA FreeChainAdd ==
  ASSUME NEW F \in SUBSET Nat, NEW fp \in [Int -> Int], NEW fn \in [Int -> Int],
         NEW fh \in Int, NEW rank \in [Int -> Int], NEW low \in Int,
         FreeChain(F, fp, fn, fh, rank, low), NEW b \in Nat \ F
  PROVE  FreeChain(F \cup {b}, Upd(Upd(fp, b, NULL), fh, b), Upd(fn, b, fh), b,
                   [rank EXCEPT ![b] = low - 1], low - 1)
<1> DEFINE fp2 == Upd(Upd(fp, b, NULL), fh, b)
<1> DEFINE fn2 == Upd(fn, b, fh)
<1> DEFINE rank2 == [rank EXCEPT ![b] = low - 1]
<1>1. NULL \in Int /\ b # NULL /\ b \in Int /\ \A x \in F : x \in Int /\ x # NULL
  BY DEF NULL
<1>2. Upd(fp, b, NULL) \in [Int -> Int] /\ \A x \in Int : Upd(fp, b, NULL)[x] = IF x = b THEN NULL ELSE fp[x]
  BY <1>1, UpdType
<1>3. \A x \in Int : fp2[x] = IF x = fh /\ fh # NULL THEN b ELSE IF x = b THEN NULL ELSE fp[x]
  <2>1. PICK g \in [Int -> Int] : g = Upd(fp, b, NULL)
    BY <1>2
  <2>2. \A x \in Int : Upd(g, fh, b)[x] = IF x = fh /\ fh # NULL THEN b ELSE g[x]
    BY <1>1, UpdType
  <2> QED
    BY <1>2, <2>1, <2>2
<1>4. \A x \in Int : fn2[x] = IF x = b THEN fh ELSE fn[x]
  BY <1>1, UpdType
<1>5. \A x \in Int : rank2[x] = IF x = b THEN low - 1 ELSE rank[x]
  BY <1>1
<1> HIDE DEF fp2, fn2, rank2
<1>6. b \in F \cup {b} /\ fp2[b] = NULL
  BY <1>1, <1>3 DEF FreeChain
<1>7. \A x \in F \cup {b} : low - 1 <= rank2[x]
  BY <1>1, <1>5 DEF FreeChain
<1>8. \A x \in F \cup {b} : fn2[x] # NULL =>
        fn2[x] \in F \cup {b} /\ fp2[fn2[x]] = x /\ rank2[x] < rank2[fn2[x]]
  <2> SUFFICES ASSUME NEW x \in F \cup {b}, fn2[x] # NULL
               PROVE  fn2[x] \in F \cup {b} /\ fp2[fn2[x]] = x /\ rank2[x] < rank2[fn2[x]]
    OBVIOUS
  <2>1. CASE x = b
    BY <2>1, <1>1, <1>3, <1>4, <1>5 DEF FreeChain
  <2>2. CASE x # b
    <3>1. fn2[x] = fn[x] /\ fn[x] \in F /\ fp[fn[x]] = x /\ rank[x] < rank[fn[x]] /\ fn[x] # b
      BY <2>2, <1>1, <1>4 DEF FreeChain
    <3>2. fn[x] # fh
      BY <3>1, <1>1, <2>2 DEF FreeChain
    <3> QED
      BY <3>1, <3>2, <2>2, <1>1, <1>3, <1>5
  <2> QED
    BY <2>1, <2>2
<1>9. \A x \in F \cup {b} : x # b => fp2[x] \in F \cup {b} /\ fn2[fp2[x]] = x
  BY <1>1, <1>3, <1>4 DEF FreeChain
<1> QED
  BY <1>1, <1>6, <1>7, <1>8, <1>9 DEF FreeChain, fp2, fn2, rank2

LEMMA FreeChainRemove ==
  ASSUME NEW F \in SUBSET Nat, NEW fp \in [Int -> Int], NEW fn \in [Int -> Int],
         NEW fh \in Int, NEW rank \in [Int -> Int], NEW low \in Int,
         FreeChain(F, fp, fn, fh, rank, low), NEW b \in F
  PROVE  FreeChain(F \ {b}, Upd(Upd(fp, fn[b], fp[b]), b, NULL), Upd(Upd(fn, fp[b], fn[b]), b, NULL),
                   IF fp[b] = NULL THEN fn[b] ELSE fh, rank, low)
<1> DEFINE fp2 == Upd(Upd(fp, fn[b], fp[b]), b, NULL)
<1> DEFINE fn2 == Upd(Upd(fn, fp[b], fn[b]), b, NULL)
<1> DEFINE fh2 == IF fp[b] = NULL THEN fn[b] ELSE fh
<1>1. NULL \in Int /\ b # NULL /\ b \in Int /\ \A x \in F : x \in Int /\ x # NULL
  BY DEF NULL
<1>2. fp[b] \in Int /\ fn[b] \in Int
  BY <1>1
<1>3. \A x \in Int : fp2[x] = IF x = b THEN NULL ELSE IF x = fn[b] /\ x # NULL THEN fp[b] ELSE fp[x]
  <2>1. PICK p \in Int : p = fp[b]
    BY <1>2
  <2>2. PICK n \in Int : n = fn[b]
    BY <1>2
  <2>3. PICK g : g = Upd(fp, n, p)
    OBVIOUS
  <2>4. g \in [Int -> Int] /\ \A x \in Int : g[x] = IF x = n /\ n # NULL THEN p ELSE fp[x]
    BY <2>3, UpdType
  <2>5. \A x \in Int : Upd(g, b, NULL)[x] = IF x = b THEN NULL ELSE g[x]
    BY ONLY <1>1, <2>4 DEF Upd
  <2> QED
    BY <2>1, <2>2, <2>3, <2>4, <2>5
<1>4. \A x \in Int : fn2[x] = IF x = b THEN NULL ELSE IF x = fp[b] /\ x # NULL THEN fn[b] ELSE fn[x]
  <2>1. PICK p \in Int : p = fn[b]
    BY <1>2
  <2>2. PICK n \in Int : n = fp[b]
    BY <1>2
  <2>3. PICK g : g = Upd(fn, n, p)
    OBVIOUS
  <2>4. g \in [Int -> Int] /\ \A x \in Int : g[x] = IF x = n /\ n # NULL THEN p ELSE fn[x]
    BY <2>3, UpdType
  <2>5. \A x \in Int : Upd(g, b, NULL)[x] = IF x = b THEN NULL ELSE g[x]
    BY ONLY <1>1, <2>4 DEF Upd
  <2> QED
    BY <2>1, <2>2, <2>3, <2>4, <2>5
<1> HIDE DEF fp2, fn2
<1>5. fp[b] = NULL <=> b = fh
  BY <1>1 DEF FreeChain
<1>6. fn[b] # NULL => fn[b] \in F \ {b} /\ fp[fn[b]] = b
  BY <1>1 DEF FreeChain
<1>7. fp[b] # NULL => fp[b] \in F \ {b} /\ fn[fp[b]] = b
  BY <1>1, <1>5 DEF FreeChain
<1>8. fh2 = NULL => F \ {b} = {}
  <2> SUFFICES ASSUME fh2 = NULL, NEW x \in F, x # b PROVE FALSE
    OBVIOUS
  <2>1. b = fh /\ fn[b] = NULL
    BY <1>1, <1>5 DEF FreeChain
  <2> DEFINE T == F \ {b}
  <2>2. \A y \in T : fp[y] \in T /\ rank[fp[y]] < rank[y] /\ low <= rank[y]
    BY <2>1, <1>1 DEF FreeChain
  <2> DEFINE R == {rank[y] - low : y \in T}
  <2>3. R # {} /\ R \subseteq Nat
    BY <2>2, <1>1
  <2>4. PICK m \in R : \A k \in R : m <= k
    BY <2>3, LeastNatural
  <2>5. PICK y \in T : m = rank[y] - low
    BY <2>4
  <2>6. rank[fp[y]] - low \in R
    BY <2>2
  <2>7. rank[fp[y]] \in Int /\ rank[y] \in Int /\ rank[fp[y]] < rank[y]
    BY <2>2, <1>1
  <2>8. m <= rank[fp[y]] - low
    BY <2>4, <2>6
  <2> QED
    BY <2>5, <2>7, <2>8
<1>9. fh2 # NULL => fh2 \in F \ {b} /\ fp2[fh2] = NULL
  BY <1>1, <1>3, <1>5, <1>6 DEF FreeChain
<1>10. \A x \in F \ {b} : low <= rank[x]
  BY DEF FreeChain
<1>11. \A x \in F \ {b} : fn2[x] # NULL =>
         fn2[x] \in F \ {b} /\ fp2[fn2[x]] = x /\ rank[x] < rank[fn2[x]]
  <2> SUFFICES ASSUME NEW x \in F, x # b, fn2[x] # NULL
               PROVE  fn2[x] \in F \ {b} /\ fp2[fn2[x]] = x /\ rank[x] < rank[fn2[x]]
    OBVIOUS
  <2>1. CASE x = fp[b]
    <3>1. fn2[x] = fn[b] /\ fn[b] \in F \ {b} /\ rank[x] < rank[b] /\ rank[b] < rank[fn[b]]
      BY <2>1, <1>1, <1>4, <1>6, <1>7 DEF FreeChain
    <3>2. rank[x] \in Int /\ rank[b] \in Int /\ rank[fn[b]] \in Int
      BY <1>1, <1>2
    <3> QED
      BY <3>1, <3>2, <2>1, <1>1, <1>3
  <2>2. CASE x # fp[b]
    BY <2>2, <1>1, <1>3, <1>4, <1>6 DEF FreeChain
  <2> QED
    BY <2>1, <2>2
<1>12. \A x \in F \ {b} : x # fh2 => fp2[x] \in F \ {b} /\ fn2[fp2[x]] = x
  BY <1>1, <1>3, <1>4, <1>5, <1>6, <1>7 DEF FreeChain
<1> QED
  BY <1>8, <1>9, <1>10, <1>11, <1>12 DEF FreeChain, fp2, fn2, fh2

\* Only the links of free blocks matter.
LEMMA FreeChainSame ==
  ASSUME NEW F, NEW fp, NEW fn, NEW fh, NEW rank, NEW low, FreeChain(F, fp, fn, fh, rank, low),
         NEW fp2, NEW fn2, \A x \in F : fp2[x] = fp[x] /\ fn2[x] = fn[x]
  PROVE  FreeChain(F, fp2, fn2, fh, rank, low)
BY DEF FreeChain

-----------------------------------------------------------------------------
(* The block list: blocks side by side, from 0 to end, linked in address   *)
(* order.                                                                  *)

USE DEF NULL

Tiled(D, sz, pv, nx, end) ==
  /\ 0 \in D /\ pv[0] = NULL
  /\ \A x \in D : sz[x] \in Nat /\ x + HeaderSize < end /\ x + HeaderSize + sz[x] <= end
  /\ \A x \in D : nx[x] = IF x + HeaderSize + sz[x] = end THEN NULL ELSE x + HeaderSize + sz[x]
  /\ \A x \in D : nx[x] # NULL => nx[x] \in D /\ pv[nx[x]] = x
  /\ \A x \in D : x # 0 => pv[x] \in D /\ nx[pv[x]] = x
  /\ \A x, y \in D : x < y => x + HeaderSize + sz[x] <= y

\* A block and its neighbours.
Around(x, D, sz, pv, nx, end) ==
  /\ x \in Nat /\ x \in Int /\ sz[x] \in Nat /\ x # NULL /\ nx[x] \in Int /\ pv[x] \in Int
  /\ nx[x] \in D \cup {NULL} /\ pv[x] \in D \cup {NULL}
  /\ nx[x] # NULL => nx[x] \in D /\ nx[x] = x + HeaderSize + sz[x] /\ x < nx[x] /\ pv[nx[x]] = x
  /\ pv[x] # NULL => pv[x] \in D /\ pv[x] < x /\ nx[pv[x]] = x /\ x = pv[x] + HeaderSize + sz[pv[x]]
  /\ nx[x] = NULL => x + HeaderSize + sz[x] = end
  /\ x # 0 => pv[x] # NULL
  /\ nx[x] # x /\ nx[x] # 0

LEMMA TiledNext ==
  ASSUME NEW D \in SUBSET Nat, NEW sz \in [Int -> Int], NEW pv \in [Int -> Int], NEW nx \in [Int -> Int],
         NEW end \in Nat, Tiled(D, sz, pv, nx, end)
  PROVE  \A b \in D : Around(b, D, sz, pv, nx, end)
<1>1. HeaderSize \in Nat \ {0}
  BY HeapAssumption
<1>2. \A x \in D : x \in Nat /\ x # NULL /\ x \in Int
  BY DEF NULL
<1> TAKE b \in D
<1>3. b \in Nat /\ sz[b] \in Nat /\ b # NULL /\ nx[b] \in D \cup {NULL} /\ pv[b] \in D \cup {NULL}
  BY <1>2 DEF Tiled
<1>4. \A x \in D : nx[x] # NULL => nx[x] \in D /\ nx[x] = x + HeaderSize + sz[x] /\ x < nx[x] /\ pv[nx[x]] = x
  BY <1>1, <1>2 DEF Tiled
<1>5. nx[b] = NULL => b + HeaderSize + sz[b] = end
  <2>1. b + HeaderSize + sz[b] # NULL
    BY <1>1, <1>3 DEF NULL
  <2> QED
    BY <2>1 DEF Tiled
<1>6. b # 0 => pv[b] # NULL
  BY <1>2 DEF Tiled
<1>7. pv[b] # NULL => pv[b] \in D /\ nx[pv[b]] = b
  BY DEF Tiled
<1>8. nx[b] # b /\ nx[b] # 0
  BY <1>2, <1>3, <1>4
<1> QED
  BY <1>2, <1>3, <1>4, <1>5, <1>6, <1>7, <1>8 DEF Around

\* Block b is cut down to n bytes, and the rest of it begins at r.
Splits(D, b, n, r, sz, pv, nx, sz2, pv2, nx2) ==
  \A x \in D \cup {r} :
    /\ sz2[x] = IF x = b THEN n ELSE IF x = r THEN sz[b] - n - HeaderSize ELSE sz[x]
    /\ nx2[x] = IF x = b THEN r ELSE IF x = r THEN nx[b] ELSE nx[x]
    /\ pv2[x] = IF x = r THEN b ELSE IF x = nx[b] THEN r ELSE pv[x]

LEMMA TiledSplit ==
  ASSUME NEW D \in SUBSET Nat, NEW sz \in [Int -> Int], NEW pv \in [Int -> Int], NEW nx \in [Int -> Int],
         NEW end \in Nat, Tiled(D, sz, pv, nx, end),
         NEW b \in D, NEW n \in Nat, n + HeaderSize < sz[b], NEW r \in Nat, r = b + n + HeaderSize,
         NEW sz2 \in [Int -> Int], NEW pv2 \in [Int -> Int], NEW nx2 \in [Int -> Int],
         Splits(D, b, n, r, sz, pv, nx, sz2, pv2, nx2)
  PROVE  r \notin D /\ b # r /\ Tiled(D \cup {r}, sz2, pv2, nx2, end)
<1>1. HeaderSize \in Nat \ {0} /\ 0 # NULL /\ \A x \in D : x \in Nat /\ x # NULL
  BY HeapAssumption DEF NULL
<1>a. \A x \in D : Around(x, D, sz, pv, nx, end)
  BY TiledNext
<1>2. /\ b \in Nat /\ sz[b] \in Nat /\ r \in Nat /\ b < r /\ r # NULL
      /\ r + HeaderSize < b + HeaderSize + sz[b] /\ b + HeaderSize + sz[b] <= end
  BY <1>1 DEF NULL, Tiled
<1>3. r \notin D
  BY <1>1, <1>2 DEF Tiled
<1>4. \A x \in D : sz[x] \in Nat /\ nx[x] \in Int /\ pv[x] \in Int
  BY <1>1 DEF Tiled
<1>5. \A x \in D : /\ x # r /\ pv2[x] = IF x = nx[b] THEN r ELSE pv[x]
                   /\ x # b => sz2[x] = sz[x] /\ nx2[x] = nx[x]
  BY <1>3 DEF Splits
<1>6. sz2[b] = n /\ sz2[r] = sz[b] - n - HeaderSize /\ nx2[b] = r /\ nx2[r] = nx[b] /\ pv2[r] = b
  <2>1. r # b /\ b \in D \cup {r} /\ r \in D \cup {r}
    BY <1>2
  <2> QED
    BY <2>1 DEF Splits
<1>7. nx[b] # b /\ pv2[b] = pv[b] /\ nx[b] # r
  <2>1. nx[b] # b
    BY <1>a DEF Around
  <2>2. nx[b] # r
    BY <1>2, <1>3, <1>a DEF Around
  <2> QED
    BY <2>1, <2>2, <1>5
<1>8. 0 \in D \cup {r} /\ pv2[0] = NULL
  <2>1. 0 # nx[b]
    BY <1>1, <1>a DEF Around
  <2> QED
    BY <1>1, <1>2, <1>5, <1>7, <2>1 DEF Tiled
<1>9. \A x \in D \cup {r} : sz2[x] \in Nat /\ x + HeaderSize < end /\ x + HeaderSize + sz2[x] <= end
  <2> SUFFICES ASSUME NEW x \in D \cup {r}
               PROVE  sz2[x] \in Nat /\ x + HeaderSize < end /\ x + HeaderSize + sz2[x] <= end
    OBVIOUS
  <2>1. CASE x = b
    BY <2>1, <1>1, <1>2, <1>6
  <2>2. CASE x = r
    <3>1. sz2[r] \in Nat /\ r + HeaderSize + sz2[r] = b + HeaderSize + sz[b]
      <4>1. PICK q \in Nat : q = sz[b]
        BY <1>2
      <4>2. PICK hs \in Nat : hs = HeaderSize
        BY <1>1
      <4>3. n + hs < q /\ sz2[r] = (q - n) - hs /\ r = (b + n) + hs
        BY <4>1, <4>2, <1>6
      <4>4. (q - n) - hs \in Nat /\ (((b + n) + hs) + hs) + ((q - n) - hs) = (b + hs) + q
        BY <4>3, <1>2
      <4> QED
        BY <4>1, <4>2, <4>3, <4>4
    <3> QED
      BY <3>1, <2>2, <1>1, <1>2
  <2>3. CASE x # b /\ x # r
    BY <2>3, <1>5 DEF Tiled
  <2> QED
    BY <2>1, <2>2, <2>3
<1>10. \A x \in D \cup {r} :
         nx2[x] = IF x + HeaderSize + sz2[x] = end THEN NULL ELSE x + HeaderSize + sz2[x]
  <2>1. b + HeaderSize + sz2[b] = r /\ r # end
    BY <1>1, <1>2, <1>6
  <2>2. r + HeaderSize + sz2[r] = b + HeaderSize + sz[b]
    BY <1>1, <1>2, <1>6
  <2>3. nx[b] = IF b + HeaderSize + sz[b] = end THEN NULL ELSE b + HeaderSize + sz[b]
    BY DEF Tiled
  <2> SUFFICES ASSUME NEW x \in D \cup {r}
               PROVE  nx2[x] = IF x + HeaderSize + sz2[x] = end THEN NULL ELSE x + HeaderSize + sz2[x]
    OBVIOUS
  <2>4. CASE x = b
    BY <2>1, <2>4, <1>6
  <2>5. CASE x = r
    BY <2>2, <2>3, <2>5, <1>6
  <2>6. CASE x # b /\ x # r
    BY <2>6, <1>5 DEF Tiled
  <2> QED
    BY <2>4, <2>5, <2>6
<1>11. \A x \in D \cup {r} : nx2[x] # NULL => nx2[x] \in D \cup {r} /\ pv2[nx2[x]] = x
  <2> SUFFICES ASSUME NEW x \in D \cup {r}, nx2[x] # NULL
               PROVE  nx2[x] \in D \cup {r} /\ pv2[nx2[x]] = x
    OBVIOUS
  <2>1. CASE x = b
    BY <2>1, <1>6
  <2>2. CASE x = r
    <3>1. nx2[x] = nx[b] /\ nx[b] \in D
      BY <2>2, <1>6, <1>a DEF Around
    <3> QED
      BY <3>1, <2>2, <1>5
  <2>3. CASE x # r /\ x # b
    <3>1. nx2[x] = nx[x] /\ nx[x] \in D /\ pv[nx[x]] = x
      BY <2>3, <1>5, <1>a DEF Around
    <3>2. nx[x] # nx[b]
      BY <3>1, <2>3, <1>a DEF Around
    <3> QED
      BY <3>1, <3>2, <1>5
  <2> QED
    BY <2>1, <2>2, <2>3
<1>12. \A x \in D \cup {r} : x # 0 => pv2[x] \in D \cup {r} /\ nx2[pv2[x]] = x
  <2> SUFFICES ASSUME NEW x \in D \cup {r}, x # 0
               PROVE  pv2[x] \in D \cup {r} /\ nx2[pv2[x]] = x
    OBVIOUS
  <2>1. CASE x = r
    BY <2>1, <1>6
  <2>2. CASE x # r /\ x = nx[b]
    BY <2>2, <1>5, <1>6
  <2>3. CASE x # r /\ x # nx[b]
    <3>1. pv2[x] = pv[x] /\ pv[x] \in D /\ nx[pv[x]] = x
      BY <2>3, <1>5, <1>a DEF Around
    <3>2. pv[x] # b /\ pv[x] # r
      BY <3>1, <2>3, <1>3
    <3> QED
      BY <3>1, <3>2, <1>5
  <2> QED
    BY <2>1, <2>2, <2>3
<1>13. \A x, y \in D \cup {r} : x < y => x + HeaderSize + sz2[x] <= y
  <2> SUFFICES ASSUME NEW x \in D \cup {r}, NEW y \in D \cup {r}, x < y
               PROVE  x + HeaderSize + sz2[x] <= y
    OBVIOUS
  <2>1. CASE x = b
    BY <2>1, <1>1, <1>2, <1>6 DEF Tiled
  <2>2. CASE x = r
    <3>1. y \in D /\ b < y /\ y \in Nat
      BY <2>2, <1>1, <1>2
    <3>2. b + HeaderSize + sz[b] <= y
      BY <3>1 DEF Tiled
    <3> QED
      BY <3>1, <3>2, <2>2, <1>1, <1>2, <1>6
  <2>3. CASE x # b /\ x # r /\ y = r
    <3>1. x \in D /\ x \in Nat /\ ~(b < x)
      BY <2>3, <1>1, <1>2 DEF Tiled
    <3>2. x < b /\ x + HeaderSize + sz[x] <= b
      BY <3>1, <2>3, <1>2 DEF Tiled
    <3> QED
      BY <3>1, <3>2, <2>3, <1>1, <1>2, <1>4, <1>5
  <2>4. CASE x # b /\ x # r /\ y # r
    BY <2>4, <1>5 DEF Tiled
  <2> QED
    BY <2>1, <2>2, <2>3, <2>4
<1> QED
  BY <1>2, <1>3, <1>8, <1>9, <1>10, <1>11, <1>12, <1>13 DEF Tiled

\* Block b swallows the block y behind it.
Merges(D, b, y, sz, pv, nx, sz2, pv2, nx2) ==
  \A x \in D \ {y} :
    /\ sz2[x] = IF x = b THEN sz[b] + HeaderSize + sz[y] ELSE sz[x]
    /\ nx2[x] = IF x = b THEN nx[y] ELSE nx[x]
    /\ pv2[x] = IF x = nx[y] THEN b ELSE pv[x]

LEMMA TiledMerge ==
  ASSUME NEW D \in SUBSET Nat, NEW sz \in [Int -> Int], NEW pv \in [Int -> Int], NEW nx \in [Int -> Int],
         NEW end \in Nat, Tiled(D, sz, pv, nx, end),
         NEW b \in D, NEW y \in D, y = nx[b],
         NEW sz2 \in [Int -> Int], NEW pv2 \in [Int -> Int], NEW nx2 \in [Int -> Int],
         Merges(D, b, y, sz, pv, nx, sz2, pv2, nx2)
  PROVE  b \in D \ {y} /\ Tiled(D \ {y}, sz2, pv2, nx2, end)
<1>1. HeaderSize \in Nat \ {0} /\ 0 # NULL /\ \A x \in D : x \in Nat /\ x # NULL
  BY HeapAssumption DEF NULL
<1>a. \A x \in D : Around(x, D, sz, pv, nx, end)
  BY TiledNext
<1>2. /\ y \in D /\ y = b + HeaderSize + sz[b] /\ b < y /\ pv[y] = b /\ b # y
      /\ sz[b] \in Nat /\ sz[y] \in Nat /\ y \in Nat /\ b \in Nat
  <2>1. Around(b, D, sz, pv, nx, end) /\ Around(y, D, sz, pv, nx, end)
    BY <1>a
  <2> QED
    BY <1>1, <2>1 DEF Around
<1>b. y + HeaderSize + sz[y] <= end
  BY <1>2 DEF Tiled
<1>3. /\ nx[y] \in D \cup {NULL} /\ nx[y] # y /\ nx[y] # b
      /\ nx[y] # NULL => pv[nx[y]] = y /\ nx[y] \in D
  <2>1. Around(y, D, sz, pv, nx, end)
    BY <1>2, <1>a DEF Around
  <2> QED
    <3>1. nx[y] # NULL => y < nx[y]
      BY <2>1 DEF Around
    <3>2. nx[y] \in Int
      BY <2>1 DEF Around
    <3>3. nx[y] # b
      BY <1>1, <1>2, <3>1, <3>2
    <3> QED
      BY <2>1, <3>3 DEF Around
<1>4. \A x \in D \ {y} : /\ pv2[x] = IF x = nx[y] THEN b ELSE pv[x]
                         /\ x # b => sz2[x] = sz[x] /\ nx2[x] = nx[x]
  BY DEF Merges
<1>5. /\ sz2[b] = sz[b] + HeaderSize + sz[y] /\ nx2[b] = nx[y]
      /\ b + HeaderSize + sz2[b] = y + HeaderSize + sz[y]
  <2>1. sz2[b] = sz[b] + HeaderSize + sz[y] /\ nx2[b] = nx[y]
    BY <1>2 DEF Merges
  <2>2. HeaderSize \in Int /\ sz[b] \in Int /\ sz[y] \in Int /\ b \in Int
    BY <1>1, <1>2
  <2> QED
    BY <2>1, <2>2, <1>2
<1>6. 0 \in D \ {y} /\ pv2[0] = NULL
  <2>1. 0 # y
    BY <1>2
  <2>2. 0 # nx[y]
    BY <1>1, <1>2, <1>a DEF Around
  <2> QED
    BY <2>1, <2>2, <1>4 DEF Tiled
<1>7. \A x \in D \ {y} : sz2[x] \in Nat /\ x + HeaderSize < end /\ x + HeaderSize + sz2[x] <= end
  <2> SUFFICES ASSUME NEW x \in D \ {y}
               PROVE  sz2[x] \in Nat /\ x + HeaderSize < end /\ x + HeaderSize + sz2[x] <= end
    OBVIOUS
  <2>1. CASE x = b
    BY <2>1, <1>1, <1>2, <1>b, <1>5 DEF Tiled
  <2>2. CASE x # b
    <3>1. sz2[x] = sz[x]
      BY <2>2, <1>4
    <3> QED
      BY <3>1 DEF Tiled
  <2> QED
    BY <2>1, <2>2
<1>8. \A x \in D \ {y} :
        nx2[x] = IF x + HeaderSize + sz2[x] = end THEN NULL ELSE x + HeaderSize + sz2[x]
  <2> SUFFICES ASSUME NEW x \in D \ {y}
               PROVE  nx2[x] = IF x + HeaderSize + sz2[x] = end THEN NULL ELSE x + HeaderSize + sz2[x]
    OBVIOUS
  <2>1. CASE x = b
    BY <2>1, <1>2, <1>5 DEF Tiled
  <2>2. CASE x # b
    <3>1. sz2[x] = sz[x] /\ nx2[x] = nx[x]
      BY <2>2, <1>4
    <3> QED
      BY <3>1 DEF Tiled
  <2> QED
    BY <2>1, <2>2
<1>9. \A x \in D \ {y} : nx2[x] # NULL => nx2[x] \in D \ {y} /\ pv2[nx2[x]] = x
  <2> SUFFICES ASSUME NEW x \in D \ {y}, nx2[x] # NULL
               PROVE  nx2[x] \in D \ {y} /\ pv2[nx2[x]] = x
    OBVIOUS
  <2>1. CASE x = b
    BY <2>1, <1>3, <1>4, <1>5
  <2>2. CASE x # b
    <3>1. nx2[x] = nx[x] /\ nx[x] \in D /\ pv[nx[x]] = x
      BY <2>2, <1>4, <1>a DEF Around
    <3>2. nx[x] # y /\ nx[x] # nx[y]
      BY <3>1, <2>2, <1>2, <1>3
    <3> QED
      BY <3>1, <3>2, <1>4
  <2> QED
    BY <2>1, <2>2
<1>10. \A x \in D \ {y} : x # 0 => pv2[x] \in D \ {y} /\ nx2[pv2[x]] = x
  <2> SUFFICES ASSUME NEW x \in D \ {y}, x # 0
               PROVE  pv2[x] \in D \ {y} /\ nx2[pv2[x]] = x
    OBVIOUS
  <2>1. CASE x = nx[y]
    BY <2>1, <1>2, <1>4, <1>5
  <2>2. CASE x # nx[y]
    <3>1. pv2[x] = pv[x] /\ pv[x] \in D /\ nx[pv[x]] = x
      BY <2>2, <1>4, <1>a DEF Around
    <3>2. pv[x] # y /\ pv[x] # b
      BY <3>1, <2>2
    <3> QED
      BY <3>1, <3>2, <1>4
  <2> QED
    BY <2>1, <2>2
<1>11. \A x, z \in D \ {y} : x < z => x + HeaderSize + sz2[x] <= z
  <2> SUFFICES ASSUME NEW x \in D \ {y}, NEW z \in D \ {y}, x < z
               PROVE  x + HeaderSize + sz2[x] <= z
    OBVIOUS
  <2>1. CASE x = b
    <3>1. z \in Nat /\ b + HeaderSize + sz[b] <= z
      BY <2>1, <1>1 DEF Tiled
    <3>2. y <= z /\ y # z
      BY <3>1, <1>2
    <3>3. y < z
      <4>1. y \in Int /\ z \in Int
        BY <1>2, <3>1
      <4>2. \A i, j \in Int : i <= j /\ i # j => i < j
        OBVIOUS
      <4> QED
        BY <3>2, <4>1, <4>2, Zenon
    <3>4. y + HeaderSize + sz[y] <= z
      BY <3>3, <1>2 DEF Tiled
    <3> QED
      BY <3>4, <2>1, <1>5
  <2>2. CASE x # b
    <3>1. sz2[x] = sz[x]
      BY <2>2, <1>4
    <3> QED
      BY <3>1 DEF Tiled
  <2> QED
    BY <2>1, <2>2
<1> QED
  BY <1>2, <1>6, <1>7, <1>8, <1>9, <1>10, <1>11 DEF Tiled

\* A block of n bytes is added at the end, behind block b.
Appends(D, b, n, end, sz, pv, nx, sz2, pv2, nx2) ==
  \A x \in D \cup {end} :
    /\ sz2[x] = IF x = end THEN n ELSE sz[x]
    /\ nx2[x] = IF x = end THEN NULL ELSE IF x = b THEN end ELSE nx[x]
    /\ pv2[x] = IF x = end THEN b ELSE pv[x]

LEMMA TiledAppend ==
  ASSUME NEW D \in SUBSET Nat, NEW sz \in [Int -> Int], NEW pv \in [Int -> Int], NEW nx \in [Int -> Int],
         NEW end \in Nat, Tiled(D, sz, pv, nx, end),
         NEW b \in D, nx[b] = NULL, NEW n \in Nat \ {0},
         NEW sz2 \in [Int -> Int], NEW pv2 \in [Int -> Int], NEW nx2 \in [Int -> Int],
         Appends(D, b, n, end, sz, pv, nx, sz2, pv2, nx2)
  PROVE  end \notin D /\ Tiled(D \cup {end}, sz2, pv2, nx2, end + HeaderSize + n)
<1>1. HeaderSize \in Nat \ {0} /\ 0 # NULL /\ \A x \in D : x \in Nat /\ x # NULL
  BY HeapAssumption DEF NULL
<1>a. \A x \in D : Around(x, D, sz, pv, nx, end)
  BY TiledNext
<1>2. b + HeaderSize + sz[b] = end /\ sz[b] \in Nat
  BY <1>1, <1>a DEF Around
<1>3. \A x \in D : x < end /\ x + HeaderSize + sz[x] <= end /\ sz[x] \in Nat
  BY <1>1 DEF Tiled
<1>4. end \notin D /\ end # NULL
  BY <1>1, <1>3 DEF NULL
<1>5. \A x \in D : x # b => nx[x] # NULL
  <2> SUFFICES ASSUME NEW x \in D, x # b, nx[x] = NULL PROVE FALSE
    OBVIOUS
  <2>1. x + HeaderSize + sz[x] = end
    BY <1>a DEF Around
  <2>2. x < b \/ b < x
    BY <1>1
  <2>3. x + HeaderSize + sz[x] <= b \/ b + HeaderSize + sz[b] <= x
    BY <2>2 DEF Tiled
  <2>4. b \in Nat /\ x \in Nat /\ sz[x] \in Nat /\ end \in Nat
    BY <1>1, <1>3
  <2>5. b + HeaderSize + sz[b] = end /\ sz[b] \in Nat /\ HeaderSize \in Nat \ {0}
    BY <1>1, <1>2
  <2>6. ~(end <= b) /\ ~(end <= x)
    BY <2>1, <2>4, <2>5
  <2> QED
    BY <2>1, <2>3, <2>5, <2>6
<1>6. /\ sz2[end] = n /\ nx2[end] = NULL /\ pv2[end] = b
      /\ \A x \in D : sz2[x] = sz[x] /\ pv2[x] = pv[x] /\ nx2[x] = IF x = b THEN end ELSE nx[x]
  BY <1>4 DEF Appends
<1>7. 0 \in D \cup {end} /\ pv2[0] = NULL
  BY <1>6 DEF Tiled
<1>8. \A x \in D \cup {end} :
        /\ sz2[x] \in Nat /\ x + HeaderSize < end + HeaderSize + n
        /\ x + HeaderSize + sz2[x] <= end + HeaderSize + n
  <2> SUFFICES ASSUME NEW x \in D \cup {end}
               PROVE  /\ sz2[x] \in Nat /\ x + HeaderSize < end + HeaderSize + n
                      /\ x + HeaderSize + sz2[x] <= end + HeaderSize + n
    OBVIOUS
  <2>1. CASE x = end
    BY <2>1, <1>1, <1>6
  <2>2. CASE x # end
    <3>1. x \in Nat /\ x < end /\ x + HeaderSize + sz[x] <= end /\ sz[x] \in Nat /\ sz2[x] = sz[x]
      BY <2>2, <1>1, <1>3, <1>6
    <3> QED
      BY <3>1, <1>1
  <2> QED
    BY <2>1, <2>2
<1>9. \A x \in D \cup {end} :
        nx2[x] = IF x + HeaderSize + sz2[x] = end + HeaderSize + n THEN NULL ELSE x + HeaderSize + sz2[x]
  <2> SUFFICES ASSUME NEW x \in D
               PROVE  nx2[x] = IF x + HeaderSize + sz2[x] = end + HeaderSize + n THEN NULL
                               ELSE x + HeaderSize + sz2[x]
    BY <1>6
  <2>1. x + HeaderSize + sz2[x] # end + HeaderSize + n
    BY <1>1, <1>3, <1>6
  <2>2. CASE x = b
    BY <2>1, <2>2, <1>2, <1>6
  <2>3. CASE x # b
    BY <2>1, <2>3, <1>5, <1>6 DEF Tiled
  <2> QED
    BY <2>2, <2>3
<1>10. \A x \in D \cup {end} : nx2[x] # NULL => nx2[x] \in D \cup {end} /\ pv2[nx2[x]] = x
  <2> SUFFICES ASSUME NEW x \in D
               PROVE  nx2[x] # NULL => nx2[x] \in D \cup {end} /\ pv2[nx2[x]] = x
    BY <1>6
  <2>1. CASE x = b
    BY <2>1, <1>6
  <2>2. CASE x # b
    BY <2>2, <1>6 DEF Tiled
  <2> QED
    BY <2>1, <2>2
<1>11. \A x \in D \cup {end} : x # 0 => pv2[x] \in D \cup {end} /\ nx2[pv2[x]] = x
  <2> SUFFICES ASSUME NEW x \in D, x # 0
               PROVE  pv2[x] \in D \cup {end} /\ nx2[pv2[x]] = x
    BY <1>6
  <2>1. pv[x] \in D /\ nx[pv[x]] = x /\ pv[x] # b
    BY <1>1 DEF Tiled
  <2> QED
    BY <2>1, <1>6
<1>12. \A x, y \in D \cup {end} : x < y => x + HeaderSize + sz2[x] <= y
  <2> SUFFICES ASSUME NEW x \in D \cup {end}, NEW y \in D \cup {end}, x < y
               PROVE  x + HeaderSize + sz2[x] <= y
    OBVIOUS
  <2>1. x \in D
    BY <1>1, <1>3
  <2>2. CASE y = end
    BY <2>1, <2>2, <1>3, <1>6
  <2>3. CASE y # end
    BY <2>1, <2>3, <1>6 DEF Tiled
  <2> QED
    BY <2>2, <2>3
<1> QED
  BY <1>4, <1>7, <1>8, <1>9, <1>10, <1>11, <1>12 DEF Tiled

-----------------------------------------------------------------------------
(* Walking a list of blocks.                                               *)

\* s, one block further.
Longer(s, a, p, link) ==
  LET q == IF s = <<>> THEN p
           ELSE IF s[Len(s)] \in DOMAIN a.headers THEN a.headers[s[Len(s)]][link] ELSE NULL
  IN  IF q = NULL THEN s ELSE Append(s, q)

Lengthens(u, a, p, link, n) ==
  /\ u[0] = <<>>
  /\ \A i \in 1..n : u[i] = Longer(u[i - 1], a, p, link)

\* The recursive function in Walk exists and is defined by its equation.
LEMMA WalkEquation ==
  ASSUME NEW a, NEW p, NEW link, NEW n \in Nat, n = Cardinality(DOMAIN a.headers) + 1
  PROVE  \E u : Lengthens(u, a, p, link, n) /\ Walk(a, p, link) = u[n]
<1> DEFINE X(s) == LET q == IF s = <<>> THEN p
                            ELSE IF s[Len(s)] \in DOMAIN a.headers THEN a.headers[s[Len(s)]][link] ELSE NULL
                   IN  IF q = NULL THEN s ELSE Append(s, q)
           Good(k, f) == f = [i \in 0..k |-> IF i = 0 THEN <<>> ELSE X(f[i - 1])]
           N == {k \in Nat : \E f : Good(k, f)}
<1>1. 0 \in N
  <2> DEFINE f == [i \in 0..0 |-> <<>>]
  <2>1. \A i \in 0..0 : i = 0
    OBVIOUS
  <2> HIDE DEF X
  <2>2. Good(0, f)
    BY <2>1
  <2> QED
    BY <2>2
<1>2. ASSUME NEW k \in Nat, k \in N PROVE k + 1 \in N
  <2>1. PICK f : Good(k, f)
    BY <1>2
  <2> DEFINE g == [i \in 0..(k + 1) |-> IF i <= k THEN f[i] ELSE X(f[k])]
  <2> HIDE DEF X
  <2>2. \A i \in 0..k : f[i] = IF i = 0 THEN <<>> ELSE X(f[i - 1])
    BY <2>1
  <2>3. \A i \in 0..(k + 1) : i # 0 => i - 1 \in 0..k /\ g[i - 1] = f[i - 1]
    OBVIOUS
  <2>4. \A i \in 0..(k + 1) : g[i] = IF i = 0 THEN <<>> ELSE X(g[i - 1])
    <3> TAKE i \in 0..(k + 1)
    <3>1. CASE i = 0
      BY <3>1, <2>2
    <3>2. CASE i # 0 /\ i <= k
      BY <3>2, <2>2, <2>3
    <3>3. CASE i = k + 1
      BY <3>3, <2>3
    <3> QED
      BY <3>1, <3>2, <3>3
  <2>5. Good(k + 1, g)
    BY <2>4
  <2> HIDE DEF g, Good
  <2> QED
    BY <2>5
<1>3. PICK f : Good(n, f)
  <2>1. n \in N
    <3> HIDE DEF N
    <3> QED
      BY <1>1, <1>2, SetInduction
  <2> HIDE DEF Good
  <2> QED
    BY <2>1
<1>4. Good(n, CHOOSE g : Good(n, g))
  <2> HIDE DEF Good
  <2> QED
    BY <1>3, Zenon
<1>5. Walk(a, p, link) = (CHOOSE g : Good(n, g))[n]
  BY Zenon DEF Walk
<1>6. PICK g : Good(n, g) /\ Walk(a, p, link) = g[n]
  <2> HIDE DEF Good
  <2> QED
    BY <1>4, <1>5
<1>7. g[0] = <<>> /\ \A i \in 1..n : g[i] = X(g[i - 1])
  <2> HIDE DEF X
  <2> QED
    BY <1>6
<1>8. \A s : X(s) = Longer(s, a, p, link)
  BY Zenon DEF Longer
<1>9. Lengthens(g, a, p, link, n)
  <2> HIDE DEF X
  <2> QED
    BY <1>7, <1>8, Zenon DEF Lengthens
<1> QED
  BY <1>6, <1>9

\* The elements of a sequence.
LEMMA SeqFacts ==
  ASSUME NEW S, NEW s \in Seq(S)
  PROVE  /\ \A i \in 1..Len(s) : s[i] \in S
         /\ \E k \in Nat : k = Len(s) /\ (s = <<>> <=> k = 0)
<1>1. Len(s) \in Nat /\ \A i \in 1..Len(s) : s[i] \in S
  OBVIOUS
<1>2. s = <<>> <=> Len(s) = 0
  OBVIOUS
<1> QED
  BY <1>1, <1>2

IsAppend(t, s, e, S) ==
  /\ t \in Seq(S) /\ Len(t) = Len(s) + 1 /\ t # <<>> /\ t[Len(s) + 1] = e
  /\ \A i \in 1..Len(s) : t[i] = s[i]

LEMMA AppendFacts ==
  ASSUME NEW S, NEW s \in Seq(S), NEW e \in S
  PROVE  IsAppend(Append(s, e), s, e, S)
BY DEF IsAppend

\* s begins the list that starts at p and is linked by f.
Begins(s, S, p, f, rank) ==
  /\ s \in Seq(S)
  /\ s # <<>> => s[1] = p
  /\ \A i \in 1..(Len(s) - 1) : s[i + 1] = f[s[i]]
  /\ \A i, j \in 1..Len(s) : i < j => rank[s[i]] < rank[s[j]]

\* No block comes after s.
Ended(s, p, f) == IF s = <<>> THEN p = NULL ELSE f[s[Len(s)]] = NULL

\* f are the links of this name in the headers.
Links(a, link, D, f) == DOMAIN a.headers = D /\ \A x \in D : a.headers[x][link] = f[x]

\* Begins, with the length of s as a number.
Begun(k, s, S, p, f, rank) ==
  /\ k = Len(s) /\ (s = <<>> <=> k = 0) /\ (k # 0 => s[1] = p)
  /\ \A i \in 1..k : s[i] \in S
  /\ \A i \in 1..(k - 1) : s[i + 1] = f[s[i]]
  /\ \A i, j \in 1..k : i < j => rank[s[i]] < rank[s[j]]

LEMMA BeginsFacts ==
  ASSUME NEW S, NEW p, NEW f, NEW rank, NEW s, Begins(s, S, p, f, rank)
  PROVE  \E k \in Nat : Begun(k, s, S, p, f, rank)
<1>1. s \in Seq(S)
  BY Zenon DEF Begins
<1>2. PICK k \in Nat : k = Len(s) /\ (s = <<>> <=> k = 0)
  BY <1>1, SeqFacts
<1>3. \A i \in 1..k : s[i] \in S
  BY <1>1, <1>2, SeqFacts, Zenon
<1> QED
  BY <1>2, <1>3, Zenon DEF Begins, Begun

\* t is s with one more block, if there is one.
Extends(t, s, S, p, f, rank) ==
  /\ Begins(t, S, p, f, rank)
  /\ Ended(s, p, f) => t = s
  /\ ~Ended(s, p, f) => Len(t) = Len(s) + 1

LEMMA LongerBegins ==
  ASSUME NEW D \in SUBSET Nat, NEW S \in SUBSET Nat, S \subseteq D, NEW g \in [Int -> Int],
         NEW f \in [Int -> Int], NEW p \in Int, NEW rank \in [Int -> Int], NEW low \in Int,
         FreeChain(S, g, f, p, rank, low), NEW a, NEW link, Links(a, link, D, f),
         NEW s, Begins(s, S, p, f, rank)
  PROVE  Extends(Longer(s, a, p, link), s, S, p, f, rank)
<1>a. PICK k \in Nat : Begun(k, s, S, p, f, rank)
  BY BeginsFacts
<1>0. /\ k = Len(s) /\ (s = <<>> <=> k = 0) /\ (k # 0 => s[1] = p)
      /\ \A i \in 1..k : s[i] \in S
      /\ \A i \in 1..(k - 1) : s[i + 1] = f[s[i]]
      /\ \A i, j \in 1..k : i < j => rank[s[i]] < rank[s[j]]
  BY <1>a, Zenon DEF Begun
<1>1. s \in Seq(S)
  BY Zenon DEF Begins
<1>2. CASE s = <<>>
  <2>1. Longer(s, a, p, link) = IF p = NULL THEN s ELSE Append(s, p)
    BY <1>2, Zenon DEF Longer
  <2>2. CASE p = NULL
    BY <2>1, <2>2, <1>2, Zenon DEF Ended, Extends
  <2>3. CASE p # NULL
    <3>1. p \in S
      BY <2>3 DEF FreeChain
    <3>2. Append(s, p) = <<p>>
      BY <1>2
    <3>3. Begins(<<p>>, S, p, f, rank)
      BY <3>1 DEF Begins
    <3>4. Len(<<p>>) = 1 /\ Len(s) = 0
      BY <1>2
    <3>5. Longer(s, a, p, link) = <<p>> /\ ~Ended(s, p, f)
      BY <2>1, <2>3, <3>2, <1>2, Zenon DEF Ended
    <3> QED
      BY <3>3, <3>4, <3>5 DEF Extends
  <2> QED
    BY <2>2, <2>3
<1>3. CASE s # <<>>
  <2>a. k # 0 /\ k \in 1..k
    BY <1>0, <1>3
  <2>1. PICK e \in S : e = s[k] /\ e = s[Len(s)]
    BY <1>0, <2>a, Zenon
  <2>2. Longer(s, a, p, link) = IF f[e] = NULL THEN s ELSE Append(s, f[e])
    <3>1. e \in D
      OBVIOUS
    <3>2. e \in DOMAIN a.headers /\ a.headers[e][link] = f[e]
      BY <3>1, Zenon DEF Links
    <3> QED
      BY <2>1, <3>2, <1>3, Zenon DEF Longer
  <2>b. Ended(s, p, f) <=> f[e] = NULL
    BY <2>1, <1>3, Zenon DEF Ended
  <2>3. CASE f[e] = NULL
    BY <2>2, <2>b, <2>3, Zenon DEF Extends
  <2>4. CASE f[e] # NULL
    <3>1. PICK y \in S : y = f[e] /\ rank[e] < rank[y]
      BY <2>4 DEF FreeChain
    <3>2. PICK t : t = Append(s, y)
      OBVIOUS
    <3>3. /\ t \in Seq(S) /\ Len(t) = k + 1 /\ t # <<>> /\ t[k + 1] = y
          /\ \A i \in 1..k : t[i] = s[i]
      <4>1. IsAppend(t, s, y, S)
        BY <1>1, <3>2, AppendFacts, Zenon
      <4> QED
        BY <4>1, <1>0, Zenon DEF IsAppend
    <3>4. t[1] = p
      <4>1. 1 \in 1..k
        BY <2>a
      <4> QED
        BY <4>1, <3>3, <1>0, <2>a, Zenon
    <3>5. \A i \in 1..k : t[i + 1] = f[t[i]]
      <4> SUFFICES ASSUME NEW i \in 1..k PROVE t[i + 1] = f[t[i]]
        OBVIOUS
      <4>1. CASE i = k
        BY <4>1, <3>1, <3>3, <2>1, Zenon
      <4>2. CASE i # k
        <5>1. i \in 1..(k - 1) /\ i + 1 \in 1..k
          BY <4>2
        <5> QED
          BY <5>1, <3>3, <1>0, Zenon
      <4> QED
        BY <4>1, <4>2
    <3>6. \A i \in 1..k : rank[s[i]] < rank[y]
      <4> SUFFICES ASSUME NEW i \in 1..k PROVE rank[s[i]] < rank[y]
        OBVIOUS
      <4>1. CASE i = k
        BY <4>1, <3>1, <2>1, Zenon
      <4>2. CASE i # k
        <5>1. i < k
          BY <4>2
        <5>2. PICK z \in S : z = s[i]
          BY <1>0
        <5>3. rank[z] < rank[e]
          BY <5>1, <5>2, <2>1, <2>a, <1>0, Zenon
        <5>4. rank[z] < rank[y]
          BY <5>3, <3>1
        <5> QED
          BY <5>2, <5>4, Zenon
      <4> QED
        BY <4>1, <4>2
    <3>7. \A i, j \in 1..(k + 1) : i < j => rank[t[i]] < rank[t[j]]
      <4> SUFFICES ASSUME NEW i \in 1..(k + 1), NEW j \in 1..(k + 1), i < j PROVE rank[t[i]] < rank[t[j]]
        OBVIOUS
      <4>1. i \in 1..k
        OBVIOUS
      <4>2. CASE j = k + 1
        BY <4>1, <4>2, <3>3, <3>6, Zenon
      <4>3. CASE j # k + 1
        <5>1. j \in 1..k
          BY <4>3
        <5> QED
          BY <4>1, <5>1, <3>3, <1>0, Zenon
      <4> QED
        BY <4>2, <4>3
    <3>8. (k + 1) - 1 = k
      OBVIOUS
    <3>9. Begins(t, S, p, f, rank)
      BY <3>3, <3>4, <3>5, <3>7, <3>8, Zenon DEF Begins
    <3>10. Longer(s, a, p, link) = t /\ ~Ended(s, p, f)
      BY <2>2, <2>b, <2>4, <3>1, <3>2, Zenon
    <3> QED
      BY <3>3, <3>9, <3>10, <1>0, Zenon DEF Extends
  <2> QED
    BY <2>3, <2>4
<1> QED
  BY <1>2, <1>3

\* Blocks of different ranks are different blocks, so there are no more of
\* them in a list than there are blocks.
LEMMA BeginsBounded ==
  ASSUME NEW S \in SUBSET Nat, IsFiniteSet(S), NEW f \in [Int -> Int],
         NEW p \in Int, NEW rank \in [Int -> Int], NEW s, Begins(s, S, p, f, rank)
  PROVE  /\ Len(s) \in Nat /\ Len(s) <= Cardinality(S)
         /\ {s[i] : i \in 1..Len(s)} = S => Len(s) = Cardinality(S)
<1>a. PICK k \in Nat : Begun(k, s, S, p, f, rank)
  BY BeginsFacts
<1>0. /\ k = Len(s) /\ (s = <<>> <=> k = 0) /\ (k # 0 => s[1] = p)
      /\ \A i \in 1..k : s[i] \in S
      /\ \A i \in 1..(k - 1) : s[i + 1] = f[s[i]]
      /\ \A i, j \in 1..k : i < j => rank[s[i]] < rank[s[j]]
  BY <1>a, Zenon DEF Begun
<1>1. s \in [1..k -> S]
  <2>1. s \in Seq(S)
    BY Zenon DEF Begins
  <2>2. s \in [1..Len(s) -> S]
    BY <2>1, LenProperties
  <2> QED
    BY <2>2, <1>0
<1>2. \A i, j \in 1..k : i # j => s[i] # s[j]
  <2> SUFFICES ASSUME NEW i \in 1..k, NEW j \in 1..k, i # j, s[i] = s[j] PROVE FALSE
    OBVIOUS
  <2>1. i < j \/ j < i
    OBVIOUS
  <2>2. PICK x \in S : x = s[i]
    BY <1>0
  <2>3. rank[x] < rank[x]
    BY <2>1, <2>2, <1>0, Zenon
  <2>4. rank[x] \in Int
    OBVIOUS
  <2> QED
    BY <2>3, <2>4
<1>3. s \in Injection(1..k, S)
  BY <1>1, <1>2, Zenon DEF Injection, IsInjective
<1>4. /\ Cardinality(1..k) <= Cardinality(S) /\ Cardinality(S) \in Nat
      /\ Cardinality(1..k) = Cardinality(S) <=> s \in Surjection(1..k, S)
  BY <1>3, FS_Injection, FS_CardinalityType
<1>5. Cardinality(1..k) = k
  <2>1. Cardinality(1..k) = IF 1 > k THEN 0 ELSE k - 1 + 1
    BY FS_Interval
  <2> QED
    BY <2>1
<1>6. {s[i] : i \in 1..k} = S => s \in Surjection(1..k, S)
  BY <1>1, Zenon DEF Surjection
<1> QED
  BY <1>0, <1>4, <1>5, <1>6, Zenon

\* w is the whole list, each block once, and the back links g mirror it.
Visits(w, S, p, f, g) ==
  /\ w \in Seq(S) /\ {w[i] : i \in 1..Len(w)} = S /\ Len(w) = Cardinality(S)
  /\ w = <<>> <=> p = NULL
  /\ w # <<>> => w[1] = p /\ f[w[Len(w)]] = NULL
  /\ \A i \in 1..(Len(w) - 1) : w[i + 1] = f[w[i]]
  /\ \A i \in 1..Len(w) : g[w[i]] = IF i = 1 THEN NULL ELSE w[i - 1]

\* A list that has ended is complete.
LEMMA EndedVisits ==
  ASSUME NEW S \in SUBSET Nat, IsFiniteSet(S), NEW g \in [Int -> Int],
         NEW f \in [Int -> Int], NEW p \in Int, NEW rank \in [Int -> Int], NEW low \in Int,
         FreeChain(S, g, f, p, rank, low), NEW w, Begins(w, S, p, f, rank), Ended(w, p, f)
  PROVE  Visits(w, S, p, f, g)
<1>a. PICK k \in Nat : Begun(k, w, S, p, f, rank)
  BY BeginsFacts
<1>0. /\ k = Len(w) /\ (w = <<>> <=> k = 0) /\ (k # 0 => w[1] = p)
      /\ \A i \in 1..k : w[i] \in S
      /\ \A i \in 1..(k - 1) : w[i + 1] = f[w[i]]
      /\ \A i, j \in 1..k : i < j => rank[w[i]] < rank[w[j]]
  BY <1>a, Zenon DEF Begun
<1>1. w \in Seq(S)
  BY Zenon DEF Begins
<1> DEFINE R == {w[i] : i \in 1..k}
<1> HIDE DEF R
<1>2. w = <<>> => p = NULL
  BY Zenon DEF Ended
<1>3. w # <<>> => f[w[k]] = NULL /\ w[1] = p /\ k # 0
  BY <1>0, Zenon DEF Ended
<1>4. w # <<>> => p # NULL
  <2> SUFFICES ASSUME w # <<>> PROVE p # NULL
    OBVIOUS
  <2>1. 1 \in 1..k
    BY <1>3
  <2>2. p \in S
    BY <2>1, <1>0, <1>3, Zenon
  <2> QED
    BY <2>2
<1>5. S \subseteq R
  <2> SUFFICES ASSUME S \ R # {} PROVE FALSE
    OBVIOUS
  <2> DEFINE T == {rank[x] - low : x \in S \ R}
  <2>1. T \subseteq Nat /\ T # {}
    <3>1. \A x \in S : rank[x] \in Int /\ low <= rank[x]
      BY DEF FreeChain
    <3>2. PICK x \in S \ R : TRUE
      OBVIOUS
    <3> QED
      BY <3>1, <3>2
  <2>2. PICK m \in T : \A n \in T : m <= n
    <3> HIDE DEF T
    <3> QED
      BY <2>1, LeastNatural
  <2>3. PICK x \in S \ R : m = rank[x] - low
    BY <2>2, Zenon
  <2>4. w # <<>>
    BY <1>2 DEF FreeChain
  <2>5. x # p
    <3>a. p = w[1] /\ k # 0
      BY <2>4, <1>3, Zenon
    <3>1. p = w[1] /\ 1 \in 1..k
      <4>1. 1 \in 1..k
        BY <3>a
      <4> QED
        BY <3>a, <4>1, Zenon
    <3>2. p \in R
      BY <3>1, Zenon DEF R
    <3> QED
      BY <3>2, Zenon
  <2>6. PICK z \in S : z = g[x] /\ f[z] = x
    <3> HIDE DEF R
    <3> QED
      BY <2>5 DEF FreeChain
  <2>7. rank[z] < rank[x]
    <3> HIDE DEF R
    <3> QED
      BY <2>6 DEF FreeChain
  <2>8. z \in R
    <3> SUFFICES ASSUME z \notin R PROVE FALSE
      OBVIOUS
    <3>1. rank[z] - low \in T
      BY Zenon
    <3>2. m <= rank[z] - low
      BY <3>1, <2>2, Zenon
    <3>3. rank[z] \in Int /\ rank[x] \in Int
      <4> HIDE DEF R
      <4> QED
        OBVIOUS
    <3> HIDE DEF R, T
    <3> QED
      BY <3>2, <3>3, <2>3, <2>7
  <2>9. PICK i \in 1..k : z = w[i]
    BY <2>8, Zenon DEF R
  <2>10. CASE i = k
    <3>1. f[z] = NULL
      BY <2>9, <2>10, <2>4, <1>3, Zenon
    <3> HIDE DEF R
    <3> QED
      BY <3>1, <2>6
  <2>11. CASE i # k
    <3>1. i \in 1..(k - 1) /\ i + 1 \in 1..k
      BY <2>11
    <3>2. w[i + 1] = x
      BY <3>1, <2>6, <2>9, <1>0, Zenon
    <3>3. x \in R
      BY <3>1, <3>2, Zenon DEF R
    <3> QED
      BY <3>3, Zenon
  <2> QED
    BY <2>10, <2>11
<1>6. R = S
  <2>1. \A y \in R : y \in S
    BY <1>0, Zenon DEF R
  <2> QED
    BY <2>1, <1>5
<1>7. k = Cardinality(S)
  <2>1. {w[i] : i \in 1..Len(w)} = S
    BY <1>0, <1>6, Zenon DEF R
  <2>2. Len(w) = Cardinality(S)
    BY <2>1, BeginsBounded
  <2> QED
    BY <2>2, <1>0
<1>8. \A i \in 1..k : g[w[i]] = IF i = 1 THEN NULL ELSE w[i - 1]
  <2> TAKE i \in 1..k
  <2>1. CASE i = 1
    <3>1. w[i] = p /\ w # <<>>
      BY <2>1, <1>0, <1>3
    <3>2. p # NULL
      BY <3>1, <1>4
    <3>3. g[p] = NULL
      BY <3>2 DEF FreeChain
    <3> QED
      BY <3>1, <3>3, <2>1, Zenon
  <2>2. CASE i # 1
    <3>1. i - 1 \in 1..(k - 1) /\ i - 1 \in 1..k /\ (i - 1) + 1 = i
      BY <2>2
    <3>2. PICK y \in S : y = w[i - 1]
      BY <3>1, <1>0, Zenon
    <3>3. PICK x \in S : x = w[i]
      BY <1>0, Zenon
    <3>4. x = f[y]
      BY <3>1, <3>2, <3>3, <1>0, Zenon
    <3>5. g[x] = y
      <4> HIDE DEF R
      <4> QED
        BY <3>4 DEF FreeChain
    <3> QED
      BY <3>2, <3>3, <3>5, <2>2, Zenon
  <2> QED
    BY <2>1, <2>2
<1>9. w = <<>> <=> p = NULL
  BY <1>2, <1>4, Zenon
<1> QED
  BY <1>0, <1>1, <1>3, <1>6, <1>7, <1>8, <1>9, Zenon DEF Visits, R

LEMMA WalkVisits ==
  ASSUME NEW D \in SUBSET Nat, IsFiniteSet(D), NEW S \in SUBSET Nat, S \subseteq D,
         NEW g \in [Int -> Int], NEW f \in [Int -> Int], NEW p \in Int, NEW rank \in [Int -> Int],
         NEW low \in Int, FreeChain(S, g, f, p, rank, low), NEW a, NEW link, Links(a, link, D, f)
  PROVE  Visits(Walk(a, p, link), S, p, f, g)
<1>1. IsFiniteSet(S) /\ Cardinality(S) \in Nat /\ Cardinality(D) \in Nat /\ Cardinality(S) <= Cardinality(D)
  BY FS_Subset, FS_CardinalityType
<1>2. PICK n \in Nat : n = Cardinality(D) + 1
  BY <1>1
<1>3. n = Cardinality(DOMAIN a.headers) + 1
  BY <1>2, Zenon DEF Links
<1>4. PICK u : Lengthens(u, a, p, link, n) /\ Walk(a, p, link) = u[n]
  BY <1>3, WalkEquation
<1> DEFINE P(k) == Begins(u[k], S, p, f, rank) /\ (Ended(u[k], p, f) \/ Len(u[k]) = k)
<1> DEFINE N == {k \in Nat : k <= n => P(k)}
<1>5. 0 \in N
  <2>1. u[0] = <<>>
    BY <1>4, Zenon DEF Lengthens
  <2>2. Begins(<<>>, S, p, f, rank)
    BY DEF Begins
  <2>3. Len(<<>>) = 0 /\ 0 \in Nat
    OBVIOUS
  <2> QED
    BY <2>1, <2>2, <2>3, Zenon
<1>6. ASSUME NEW k \in Nat, k \in N PROVE k + 1 \in N
  <2> SUFFICES ASSUME k + 1 <= n PROVE P(k + 1)
    <3> HIDE DEF P
    <3> QED
      OBVIOUS
  <2>1. k <= n /\ k + 1 \in 1..n /\ (k + 1) - 1 = k
    OBVIOUS
  <2>2. P(k)
    BY <1>6, <2>1, Zenon
  <2>3. u[k + 1] = Longer(u[k], a, p, link)
    BY <1>4, <2>1, Zenon DEF Lengthens
  <2>4. PICK s : s = u[k]
    OBVIOUS
  <2>5. PICK t : t = Longer(s, a, p, link)
    OBVIOUS
  <2>6. /\ Begins(t, S, p, f, rank)
        /\ Ended(s, p, f) => t = s
        /\ ~Ended(s, p, f) => Len(t) = Len(s) + 1
    <3>1. Begins(s, S, p, f, rank)
      BY <2>2, <2>4, Zenon
    <3> HIDE DEF P, N
    <3>2. Extends(Longer(s, a, p, link), s, S, p, f, rank)
      BY <3>1, LongerBegins
    <3> QED
      BY <3>2, <2>5, Zenon DEF Extends
  <2> QED
    BY <2>2, <2>3, <2>4, <2>5, <2>6, Zenon
<1>7. P(n)
  <2>1. n \in N
    <3> HIDE DEF N
    <3> QED
      BY <1>5, <1>6, SetInduction
  <2>2. n <= n
    OBVIOUS
  <2> HIDE DEF P
  <2> QED
    BY <2>1, <2>2
<1>8. PICK w : w = u[n]
  OBVIOUS
<1>9. Begins(w, S, p, f, rank) /\ (Ended(w, p, f) \/ Len(w) = n)
  BY <1>7, <1>8, Zenon
<1>10. Len(w) <= Cardinality(S) /\ Len(w) \in Nat
  BY <1>1, <1>9, BeginsBounded
<1>11. Ended(w, p, f)
  <2> HIDE DEF P, N
  <2> QED
    BY <1>1, <1>2, <1>9, <1>10
<1>12. Visits(w, S, p, f, g)
  BY <1>1, <1>9, <1>11, EndedVisits
<1> QED
  BY <1>4, <1>8, <1>12, Zenon

-----------------------------------------------------------------------------
(* The heap, from the functions.                                           *)

Fields(a, D, fr, sz, pv, nx, fp, fn, bh, fh) ==
  /\ a.blockHead = bh /\ a.freeHead = fh /\ DOMAIN a.headers = D
  /\ DOMAIN a = {"headers", "blockHead", "freeHead"}
  /\ \A x \in D : /\ a.headers[x].isFree = fr[x] /\ a.headers[x].size = sz[x]
                  /\ a.headers[x].prev = pv[x] /\ a.headers[x].next = nx[x]
                  /\ a.headers[x].freePrev = fp[x] /\ a.headers[x].freeNext = fn[x]
                  /\ a.headers[x] = HeaderOf(fr[x], sz[x], pv[x], nx[x], fp[x], fn[x])

LEMMA AllocIs ==
  ASSUME NEW D, NEW fr, NEW sz, NEW pv, NEW nx, NEW fp, NEW fn, NEW bh, NEW fh
  PROVE  Fields(Alloc(D, fr, sz, pv, nx, fp, fn, bh, fh), D, fr, sz, pv, nx, fp, fn, bh, fh)
BY AllocFields DEF Fields

Flags(fr) == fr \in [Int -> BOOLEAN]

FreeOf(D, fr) == {x \in D : fr[x]}

\* The blocks S have no links of the free list.
Unlinked(S, fp, fn) == \A x \in S : fp[x] = NULL /\ fn[x] = NULL

\* Both lists are in order, and a used block keeps no link of the free list.
Ordered(D, fr, sz, pv, nx, fp, fn, fh, rank, low, end) ==
  /\ Tiled(D, sz, pv, nx, end)
  /\ FreeChain(FreeOf(D, fr), fp, fn, fh, rank, low)
  /\ Unlinked(D \ FreeOf(D, fr), fp, fn)

\* The block list is a list like the free list, with the addresses as ranks.
LEMMA TiledChain ==
  ASSUME NEW D \in SUBSET Nat, NEW sz \in [Int -> Int], NEW pv \in [Int -> Int], NEW nx \in [Int -> Int],
         NEW end \in Nat, Tiled(D, sz, pv, nx, end)
  PROVE  FreeChain(D, pv, nx, 0, [x \in Int |-> x], 0)
<1>1. PICK id \in [Int -> Int] : id = [x \in Int |-> x]
  OBVIOUS
<1>2. \A x \in D : x \in Nat /\ id[x] = x
  BY <1>1
<1>3. \A x \in D : Around(x, D, sz, pv, nx, end)
  BY TiledNext
<1>4. 0 \in D /\ pv[0] = NULL
  BY DEF Tiled
<1>5. \A x \in D : nx[x] # NULL => nx[x] \in D /\ pv[nx[x]] = x /\ id[x] < id[nx[x]]
  BY <1>2, <1>3 DEF Around
<1>6. \A x \in D : x # 0 => pv[x] \in D /\ nx[pv[x]] = x
  BY DEF Tiled
<1>7. \A x \in D : 0 <= id[x]
  BY <1>2
<1>8. FreeChain(D, pv, nx, 0, id, 0)
  BY <1>4, <1>5, <1>6, <1>7 DEF FreeChain
<1> QED
  BY <1>1, <1>8

LEMMA TiledFinite ==
  ASSUME NEW D \in SUBSET Nat, NEW sz \in [Int -> Int], NEW pv \in [Int -> Int], NEW nx \in [Int -> Int],
         NEW end \in Nat, Tiled(D, sz, pv, nx, end)
  PROVE  IsFiniteSet(D)
<1>1. HeaderSize \in Nat
  BY HeapAssumption
<1>2. D \subseteq 0..end
  BY <1>1 DEF Tiled
<1>3. IsFiniteSet(0..end)
  BY FS_Interval
<1> QED
  BY <1>2, <1>3, FS_Subset

\* What Walk finds in the block list and in the free list.
LEMMA ListsVisited ==
  ASSUME NEW D \in SUBSET Nat, NEW fr, Flags(fr), NEW sz \in [Int -> Int],
         NEW pv \in [Int -> Int], NEW nx \in [Int -> Int], NEW fp \in [Int -> Int],
         NEW fn \in [Int -> Int], NEW fh \in Int, NEW rank \in [Int -> Int], NEW low \in Int,
         NEW end \in Nat, Ordered(D, fr, sz, pv, nx, fp, fn, fh, rank, low, end),
         NEW a, a = Alloc(D, fr, sz, pv, nx, fp, fn, 0, fh)
  PROVE  /\ Visits(BlockList(a), D, 0, nx, pv)
         /\ Visits(FreeList(a), FreeOf(D, fr), fh, fn, fp)
<1>1. Tiled(D, sz, pv, nx, end) /\ FreeChain(FreeOf(D, fr), fp, fn, fh, rank, low)
  BY DEF Ordered
<1>2. IsFiniteSet(D) /\ FreeChain(D, pv, nx, 0, [x \in Int |-> x], 0)
  BY <1>1, TiledChain, TiledFinite
<1>3. FreeOf(D, fr) \in SUBSET Nat /\ FreeOf(D, fr) \subseteq D
  BY DEF FreeOf
<1>4. a.blockHead = 0 /\ a.freeHead = fh /\ Links(a, "next", D, nx) /\ Links(a, "freeNext", D, fn)
  <2>1. Fields(a, D, fr, sz, pv, nx, fp, fn, 0, fh)
    BY AllocIs
  <2> QED
    BY <2>1, Zenon DEF Links, Fields
<1>5. Visits(Walk(a, 0, "next"), D, 0, nx, pv)
  <2>1. PICK id \in [Int -> Int] : id = [x \in Int |-> x]
    OBVIOUS
  <2>2. FreeChain(D, pv, nx, 0, id, 0)
    BY <1>2, <2>1
  <2>3. D \subseteq D /\ 0 \in Int
    OBVIOUS
  <2> QED
    BY <1>2, <1>4, <2>2, <2>3, WalkVisits, Zenon
<1>6. Visits(Walk(a, fh, "freeNext"), FreeOf(D, fr), fh, fn, fp)
  BY <1>1, <1>2, <1>3, <1>4, WalkVisits
<1> QED
  BY <1>4, <1>5, <1>6 DEF BlockList, FreeList

\* A block that find_free_block returns is free and large enough.
LEMMA FoundFits ==
  ASSUME NEW D \in SUBSET Nat, NEW fr, Flags(fr), NEW sz \in [Int -> Int],
         NEW pv \in [Int -> Int], NEW nx \in [Int -> Int], NEW fp \in [Int -> Int],
         NEW fn \in [Int -> Int], NEW fh \in Int, NEW rank \in [Int -> Int], NEW low \in Int,
         NEW end \in Nat, Ordered(D, fr, sz, pv, nx, fp, fn, fh, rank, low, end),
         NEW a, a = Alloc(D, fr, sz, pv, nx, fp, fn, 0, fh),
         NEW size \in Nat, NEW b, b = find_free_block(a, size), b # NULL
  PROVE  b \in FreeOf(D, fr) /\ b \in D /\ size <= sz[b]
<1> DEFINE fl == FreeList(a)
<1> DEFINE fits == {i \in DOMAIN fl : a.headers[fl[i]].size >= size}
<1>1. Visits(fl, FreeOf(D, fr), fh, fn, fp)
  BY ListsVisited
<1>2. fl \in Seq(FreeOf(D, fr))
  BY <1>1, Zenon DEF Visits
<1>3. DOMAIN fl \subseteq Nat /\ \A i \in DOMAIN fl : fl[i] \in FreeOf(D, fr)
  <2> HIDE DEF fl, fits
  <2>1. DOMAIN fl = 1..Len(fl) /\ Len(fl) \in Nat
    BY <1>2, LenProperties
  <2>2. \A i \in 1..Len(fl) : fl[i] \in FreeOf(D, fr)
    BY <1>2, SeqFacts
  <2>3. \A i \in DOMAIN fl : fl[i] \in FreeOf(D, fr)
    BY <2>1, <2>2, Zenon
  <2>4. 1..Len(fl) \subseteq Nat
    BY <2>1
  <2> QED
    BY <2>1, <2>3, <2>4, Zenon
<1>4. b = IF fits = {} THEN NULL ELSE fl[CHOOSE i \in fits : \A j \in fits : i <= j]
  BY Zenon DEF find_free_block
<1>5. fits # {} /\ fits \subseteq Nat
  <2> HIDE DEF fl
  <2> QED
    BY <1>3, <1>4
<1>6. \E i \in fits : \A j \in fits : i <= j
  <2> HIDE DEF fits
  <2> QED
    BY <1>5, LeastNatural
<1>7. PICK i \in fits : b = fl[i]
  <2> HIDE DEF fits, fl
  <2> QED
    BY <1>4, <1>5, <1>6
<1>8. i \in DOMAIN fl /\ a.headers[fl[i]].size >= size
  <2> HIDE DEF fl
  <2> QED
    BY <1>7
<1> HIDE DEF fits, fl
<1>9. b \in FreeOf(D, fr) /\ a.headers[b].size >= size
  BY <1>3, <1>7, <1>8
<1>10. b \in D
  BY <1>9 DEF FreeOf
<1>11. a.headers[b].size = sz[b]
  <2>1. Fields(a, D, fr, sz, pv, nx, fp, fn, 0, fh)
    BY AllocIs
  <2> QED
    BY <2>1, <1>10, Zenon DEF Fields
<1>12. sz[b] \in Int
  BY <1>10
<1> QED
  BY <1>9, <1>10, <1>11, <1>12

\* The heap grows where its last block ends.
LastOf(a, D, nx, end) ==
  /\ get_last_block_header(a) \in D /\ nx[get_last_block_header(a)] = NULL
  /\ HeapEnd(a) = end

LEMMA LastBlock ==
  ASSUME NEW D \in SUBSET Nat, NEW fr, Flags(fr), NEW sz \in [Int -> Int],
         NEW pv \in [Int -> Int], NEW nx \in [Int -> Int], NEW fp \in [Int -> Int],
         NEW fn \in [Int -> Int], NEW fh \in Int, NEW rank \in [Int -> Int], NEW low \in Int,
         NEW end \in Nat, Ordered(D, fr, sz, pv, nx, fp, fn, fh, rank, low, end),
         NEW a, a = Alloc(D, fr, sz, pv, nx, fp, fn, 0, fh)
  PROVE  LastOf(a, D, nx, end)
<1> DEFINE bl == BlockList(a)
<1>1. Visits(bl, D, 0, nx, pv)
  BY ListsVisited
<1>2. bl \in Seq(D) /\ bl # <<>> /\ nx[bl[Len(bl)]] = NULL
  <2> HIDE DEF bl
  <2>1. 0 # NULL
    OBVIOUS
  <2> QED
    BY <2>1, <1>1, Zenon DEF Visits
<1>3. PICK l \in D : l = bl[Len(bl)]
  <2> HIDE DEF bl
  <2>1. \A i \in 1..Len(bl) : bl[i] \in D
    BY <1>2, SeqFacts
  <2>2. PICK k \in Nat : k = Len(bl) /\ (bl = <<>> <=> k = 0)
    BY <1>2, SeqFacts
  <2>3. k \in 1..k
    BY <1>2, <2>2
  <2> QED
    BY <2>1, <2>2, <2>3, Zenon
<1>4. get_last_block_header(a) = l /\ nx[l] = NULL
  BY <1>2, <1>3, Zenon DEF get_last_block_header
<1>5. Around(l, D, sz, pv, nx, end)
  BY TiledNext DEF Ordered
<1>6. a.headers[l].size = sz[l]
  <2>1. Fields(a, D, fr, sz, pv, nx, fp, fn, 0, fh)
    BY AllocIs
  <2> QED
    BY <2>1, Zenon DEF Fields
<1>7. HeapEnd(a) = l + HeaderSize + sz[l]
  <2>1. l # NULL
    OBVIOUS
  <2> QED
    BY <1>4, <1>6, <2>1, Zenon DEF HeapEnd
<1> QED
  BY <1>4, <1>5, <1>7 DEF Around, LastOf

-----------------------------------------------------------------------------
(* The changes of the lists, as changes of the functions.                  *)

HIDE DEF NULL

\* fr with block b marked free or used.
Marked(fr, b, f) == [fr EXCEPT ![b] = f]

LEMMA MarkedFlags ==
  ASSUME NEW fr, Flags(fr), NEW b \in Nat, NEW f \in BOOLEAN
  PROVE  Flags(Marked(fr, b, f))
BY DEF Flags, Marked

FreeIs(F, D, fr) == F = FreeOf(D, fr)

LEMMA MarkedFree ==
  ASSUME NEW D \in SUBSET Nat, NEW fr, Flags(fr), NEW b \in D
  PROVE  FreeIs(FreeOf(D, fr) \cup {b}, D, Marked(fr, b, TRUE))
<1>1. fr \in [Int -> BOOLEAN] /\ b \in Int /\ \A x \in D : x \in Int
  BY DEF Flags
<1>2. PICK t \in [Int -> BOOLEAN] : t = [fr EXCEPT ![b] = TRUE]
  BY <1>1
<1>3. t[b] /\ \A x \in D : x # b => t[x] = fr[x]
  BY <1>1, <1>2
<1>4. FreeOf(D, t) = FreeOf(D, fr) \cup {b}
  BY <1>3, Zenon DEF FreeOf
<1> QED
  BY <1>2, <1>4, Zenon DEF Marked, FreeIs

LEMMA MarkedUsed ==
  ASSUME NEW D \in SUBSET Nat, NEW fr, Flags(fr), NEW b \in Nat
  PROVE  FreeIs(FreeOf(D, fr) \ {b}, D, Marked(fr, b, FALSE))
<1>1. fr \in [Int -> BOOLEAN] /\ b \in Int /\ \A x \in D : x \in Int
  BY DEF Flags
<1>2. PICK t \in [Int -> BOOLEAN] : t = [fr EXCEPT ![b] = FALSE]
  BY <1>1
<1>3. ~t[b] /\ \A x \in D : x # b => t[x] = fr[x]
  BY <1>1, <1>2
<1>4. FreeOf(D, t) = FreeOf(D, fr) \ {b}
  BY <1>3, Zenon DEF FreeOf
<1> QED
  BY <1>2, <1>4, Zenon DEF Marked, FreeIs

LEMMA FreeOfPart ==
  ASSUME NEW D, NEW fr, NEW y
  PROVE  FreeOf(D, fr) \subseteq D /\ FreeOf(D \ {y}, fr) = FreeOf(D, fr) \ {y}
BY Zenon DEF FreeOf

LEMMA UnlinkedAdd ==
  ASSUME NEW D \in SUBSET Nat, NEW F \in SUBSET Nat, F \subseteq D, NEW fp \in [Int -> Int],
         NEW fn \in [Int -> Int], NEW fh \in Int, fh = NULL \/ fh \in F, Unlinked(D \ F, fp, fn), NEW b \in D
  PROVE  Unlinked(D \ (F \cup {b}), Upd(Upd(fp, b, NULL), fh, b), Upd(fn, b, fh))
<1>0. NULL \in Int /\ b \in Int /\ \A x \in D : x \in Int /\ x # NULL
  BY DEF NULL
<1>6. PICK g \in [Int -> Int] : g = Upd(fp, b, NULL) /\ \A x \in Int : x # b => g[x] = fp[x]
  BY <1>0, UpdType
<1>7. \A x \in Int : x # fh => Upd(g, fh, b)[x] = g[x]
  BY <1>0, UpdType
<1>8. \A x \in Int : x # b => Upd(fn, b, fh)[x] = fn[x]
  BY <1>0, UpdType
<1>9. ASSUME NEW x \in D \ (F \cup {b}) PROVE Upd(g, fh, b)[x] = NULL /\ Upd(fn, b, fh)[x] = NULL
  <2>1. x \in Int /\ x # fh /\ x # b /\ x \in D \ F
    BY <1>0
  <2> QED
    BY <2>1, <1>6, <1>7, <1>8 DEF Unlinked
<1> QED
  BY <1>6, <1>9, Zenon DEF Unlinked

LEMMA UnlinkedRemove ==
  ASSUME NEW D \in SUBSET Nat, NEW F \in SUBSET Nat, F \subseteq D, NEW fp \in [Int -> Int],
         NEW fn \in [Int -> Int], Unlinked(D \ F, fp, fn), NEW b \in F,
         fp[b] = NULL \/ fp[b] \in F, fn[b] = NULL \/ fn[b] \in F
  PROVE  Unlinked(D \ (F \ {b}), Upd(Upd(fp, fn[b], fp[b]), b, NULL), Upd(Upd(fn, fp[b], fn[b]), b, NULL))
<1>0. NULL \in Int /\ b \in Int /\ \A x \in D : x \in Int /\ x # NULL
  BY DEF NULL
<1>5. PICK p \in Int : p = fp[b] /\ (p = NULL \/ p \in F)
  BY <1>0
<1>6. PICK n \in Int : n = fn[b] /\ (n = NULL \/ n \in F)
  BY <1>0
<1>7. PICK g \in [Int -> Int] : g = Upd(fp, n, p) /\ \A x \in Int : x # n => g[x] = fp[x]
  BY UpdType
<1>8. PICK h \in [Int -> Int] : h = Upd(fn, p, n) /\ \A x \in Int : x # p => h[x] = fn[x]
  BY UpdType
<1>a. b # NULL
  BY <1>0
<1>9. \A x \in Int : Upd(g, b, NULL)[x] = IF x = b THEN NULL ELSE g[x]
  BY <1>0, <1>a, UpdType
<1>10. \A x \in Int : Upd(h, b, NULL)[x] = IF x = b THEN NULL ELSE h[x]
  BY <1>0, <1>a, UpdType
<1>11. ASSUME NEW x \in D \ (F \ {b}) PROVE Upd(g, b, NULL)[x] = NULL /\ Upd(h, b, NULL)[x] = NULL
  <2>1. CASE x = b
    BY <2>1, <1>0, <1>9, <1>10
  <2>2. CASE x # b
    <3>1. x \in Int /\ x # p /\ x # n /\ x \in D \ F
      BY <2>2, <1>0, <1>5, <1>6
    <3> QED
      BY <2>2, <3>1, <1>7, <1>8, <1>9, <1>10 DEF Unlinked
  <2> QED
    BY <2>1, <2>2
<1>12. /\ Upd(Upd(fp, fn[b], fp[b]), b, NULL) = Upd(g, b, NULL)
       /\ Upd(Upd(fn, fp[b], fn[b]), b, NULL) = Upd(h, b, NULL)
  BY <1>5, <1>6, <1>7, <1>8, Zenon
<1> QED
  BY <1>11, <1>12, Zenon DEF Unlinked

LEMMA FreeChainLinks ==
  ASSUME NEW F \in SUBSET Nat, NEW fp \in [Int -> Int], NEW fn \in [Int -> Int],
         NEW fh \in Int, NEW rank \in [Int -> Int], NEW low \in Int, FreeChain(F, fp, fn, fh, rank, low)
  PROVE  /\ fh = NULL \/ fh \in F
         /\ \A b \in F : (fp[b] = NULL \/ fp[b] \in F) /\ (fn[b] = NULL \/ fn[b] \in F)
BY DEF FreeChain

\* A used block joins the free list ...
LEMMA OrderedAdd ==
  ASSUME NEW D \in SUBSET Nat, NEW fr, Flags(fr), NEW sz \in [Int -> Int],
         NEW pv \in [Int -> Int], NEW nx \in [Int -> Int], NEW fp \in [Int -> Int],
         NEW fn \in [Int -> Int], NEW fh \in Int, NEW rank \in [Int -> Int], NEW low \in Int,
         NEW end \in Nat, Ordered(D, fr, sz, pv, nx, fp, fn, fh, rank, low, end),
         NEW b \in D, b \notin FreeOf(D, fr)
  PROVE  Ordered(D, Marked(fr, b, TRUE), sz, pv, nx, Upd(Upd(fp, b, NULL), fh, b), Upd(fn, b, fh), b,
                 [rank EXCEPT ![b] = low - 1], low - 1, end)
<1>1. PICK F \in SUBSET Nat : F = FreeOf(D, fr) /\ F \subseteq D
  BY FreeOfPart
<1>2. FreeChain(F, fp, fn, fh, rank, low) /\ Unlinked(D \ F, fp, fn) /\ Tiled(D, sz, pv, nx, end)
  BY <1>1, Zenon DEF Ordered
<1>3. FreeOf(D, Marked(fr, b, TRUE)) = F \cup {b}
  <2>1. FreeIs(FreeOf(D, fr) \cup {b}, D, Marked(fr, b, TRUE))
    BY MarkedFree, Zenon
  <2> QED
    BY <1>1, <2>1, Zenon DEF FreeIs
<1>4. FreeChain(F \cup {b}, Upd(Upd(fp, b, NULL), fh, b), Upd(fn, b, fh), b,
                [rank EXCEPT ![b] = low - 1], low - 1)
  BY <1>1, <1>2, FreeChainAdd
<1>5. fh = NULL \/ fh \in F
  BY <1>2, FreeChainLinks
<1>6. Unlinked(D \ (F \cup {b}), Upd(Upd(fp, b, NULL), fh, b), Upd(fn, b, fh))
  BY <1>1, <1>2, <1>5, UnlinkedAdd
<1> QED
  BY <1>2, <1>3, <1>4, <1>6, Zenon DEF Ordered

\* ... and a free block leaves it.
LEMMA OrderedRemove ==
  ASSUME NEW D \in SUBSET Nat, NEW fr, Flags(fr), NEW sz \in [Int -> Int],
         NEW pv \in [Int -> Int], NEW nx \in [Int -> Int], NEW fp \in [Int -> Int],
         NEW fn \in [Int -> Int], NEW fh \in Int, NEW rank \in [Int -> Int], NEW low \in Int,
         NEW end \in Nat, Ordered(D, fr, sz, pv, nx, fp, fn, fh, rank, low, end),
         NEW b \in FreeOf(D, fr)
  PROVE  Ordered(D, Marked(fr, b, FALSE), sz, pv, nx, Upd(Upd(fp, fn[b], fp[b]), b, NULL),
                 Upd(Upd(fn, fp[b], fn[b]), b, NULL), IF fp[b] = NULL THEN fn[b] ELSE fh, rank, low, end)
<1>1. PICK F \in SUBSET Nat : F = FreeOf(D, fr) /\ F \subseteq D
  BY FreeOfPart
<1>2. FreeChain(F, fp, fn, fh, rank, low) /\ Unlinked(D \ F, fp, fn) /\ Tiled(D, sz, pv, nx, end)
  BY <1>1, Zenon DEF Ordered
<1>3. FreeOf(D, Marked(fr, b, FALSE)) = F \ {b}
  <2>1. b \in Nat
    BY <1>1
  <2>2. FreeIs(FreeOf(D, fr) \ {b}, D, Marked(fr, b, FALSE))
    BY <2>1, MarkedUsed, Zenon
  <2> QED
    BY <1>1, <2>2, Zenon DEF FreeIs
<1>4. FreeChain(F \ {b}, Upd(Upd(fp, fn[b], fp[b]), b, NULL), Upd(Upd(fn, fp[b], fn[b]), b, NULL),
                IF fp[b] = NULL THEN fn[b] ELSE fh, rank, low)
  BY <1>1, <1>2, FreeChainRemove
<1>5. (fp[b] = NULL \/ fp[b] \in F) /\ (fn[b] = NULL \/ fn[b] \in F)
  BY <1>1, <1>2, FreeChainLinks
<1>6. Unlinked(D \ (F \ {b}), Upd(Upd(fp, fn[b], fp[b]), b, NULL), Upd(Upd(fn, fp[b], fn[b]), b, NULL))
  BY <1>1, <1>2, <1>5, UnlinkedRemove
<1> QED
  BY <1>2, <1>3, <1>4, <1>6, Zenon DEF Ordered

\* A block swallows the used block behind it.
LEMMA OrderedMerge ==
  ASSUME NEW D \in SUBSET Nat, NEW fr, Flags(fr), NEW sz \in [Int -> Int],
         NEW pv \in [Int -> Int], NEW nx \in [Int -> Int], NEW fp \in [Int -> Int],
         NEW fn \in [Int -> Int], NEW fh \in Int, NEW rank \in [Int -> Int], NEW low \in Int,
         NEW end \in Nat, Ordered(D, fr, sz, pv, nx, fp, fn, fh, rank, low, end),
         NEW b \in D, NEW y \in D, y = nx[b], y \notin FreeOf(D, fr),
         NEW sz2 \in [Int -> Int], NEW pv2 \in [Int -> Int], NEW nx2 \in [Int -> Int],
         Merges(D, b, y, sz, pv, nx, sz2, pv2, nx2)
  PROVE  b \in D \ {y} /\ Ordered(D \ {y}, fr, sz2, pv2, nx2, fp, fn, fh, rank, low, end)
<1>1. b \in D \ {y} /\ Tiled(D \ {y}, sz2, pv2, nx2, end)
  BY TiledMerge DEF Ordered
<1>2. FreeOf(D \ {y}, fr) = FreeOf(D, fr)
  BY Zenon DEF FreeOf
<1>3. Unlinked((D \ {y}) \ FreeOf(D \ {y}, fr), fp, fn)
  BY <1>2, Zenon DEF Ordered, Unlinked
<1>4. FreeChain(FreeOf(D \ {y}, fr), fp, fn, fh, rank, low)
  BY <1>2, Zenon DEF Ordered
<1> QED
  BY <1>1, <1>3, <1>4, Zenon DEF Ordered

\* A new block that is not yet in the free list.
LEMMA LinksOfNew ==
  ASSUME NEW D \in SUBSET Nat, NEW F \in SUBSET Nat, F \subseteq D, NEW fp \in [Int -> Int],
         NEW fn \in [Int -> Int], NEW fh \in Int, NEW rank \in [Int -> Int], NEW low \in Int,
         FreeChain(F, fp, fn, fh, rank, low), Unlinked(D \ F, fp, fn), NEW r \in Nat, r \notin D
  PROVE  /\ FreeChain(F, [fp EXCEPT ![r] = NULL], [fn EXCEPT ![r] = NULL], fh, rank, low)
         /\ Unlinked((D \cup {r}) \ F, [fp EXCEPT ![r] = NULL], [fn EXCEPT ![r] = NULL])
<1>0. NULL \in Int /\ r \in Int /\ \A x \in D : x \in Int
  BY DEF NULL
<1>4. PICK fp2 \in [Int -> Int] :
        fp2 = [fp EXCEPT ![r] = NULL] /\ fp2[r] = NULL /\ \A x \in D : fp2[x] = fp[x]
  <2>1. PICK g \in [Int -> Int] : g = [fp EXCEPT ![r] = NULL]
    BY <1>0
  <2>2. \A x \in Int : g[x] = IF x = r THEN NULL ELSE fp[x]
    BY <1>0, <2>1
  <2>3. g[r] = NULL /\ \A x \in D : g[x] = fp[x]
    BY <1>0, <2>2
  <2> QED
    BY <2>1, <2>3, Zenon
<1>5. PICK fn2 \in [Int -> Int] :
        fn2 = [fn EXCEPT ![r] = NULL] /\ fn2[r] = NULL /\ \A x \in D : fn2[x] = fn[x]
  <2>1. PICK g \in [Int -> Int] : g = [fn EXCEPT ![r] = NULL]
    BY <1>0
  <2>2. \A x \in Int : g[x] = IF x = r THEN NULL ELSE fn[x]
    BY <1>0, <2>1
  <2>3. g[r] = NULL /\ \A x \in D : g[x] = fn[x]
    BY <1>0, <2>2
  <2> QED
    BY <2>1, <2>3, Zenon
<1>6. FreeChain(F, fp2, fn2, fh, rank, low)
  <2>1. \A x \in F : fp2[x] = fp[x] /\ fn2[x] = fn[x]
    BY <1>4, <1>5
  <2> QED
    BY <2>1, FreeChainSame
<1>7. Unlinked((D \cup {r}) \ F, fp2, fn2)
  BY <1>4, <1>5, Zenon DEF Unlinked
<1> QED
  BY <1>4, <1>5, <1>6, <1>7, Zenon

LEMMA OrderedGrow ==
  ASSUME NEW D \in SUBSET Nat, NEW fr, Flags(fr), NEW sz, NEW pv, NEW nx, NEW fp \in [Int -> Int],
         NEW fn \in [Int -> Int], NEW fh \in Int, NEW rank \in [Int -> Int], NEW low \in Int,
         NEW end, Ordered(D, fr, sz, pv, nx, fp, fn, fh, rank, low, end),
         NEW r \in Nat, r \notin D, NEW sz2, NEW pv2, NEW nx2, NEW end2,
         Tiled(D \cup {r}, sz2, pv2, nx2, end2)
  PROVE  /\ Ordered(D \cup {r}, Marked(fr, r, FALSE), sz2, pv2, nx2, [fp EXCEPT ![r] = NULL],
                    [fn EXCEPT ![r] = NULL], fh, rank, low, end2)
         /\ FreeOf(D \cup {r}, Marked(fr, r, FALSE)) = FreeOf(D, fr)
<1>1. PICK F \in SUBSET Nat : F = FreeOf(D, fr) /\ F \subseteq D
  BY FreeOfPart
<1>2. FreeChain(F, fp, fn, fh, rank, low) /\ Unlinked(D \ F, fp, fn)
  BY <1>1, Zenon DEF Ordered
<1>3. FreeOf(D \cup {r}, Marked(fr, r, FALSE)) = F
  <2>1. D \cup {r} \in SUBSET Nat
    OBVIOUS
  <2>2. FreeOf(D \cup {r}, Marked(fr, r, FALSE)) = FreeOf(D \cup {r}, fr) \ {r}
    BY <2>1, MarkedUsed, Zenon DEF FreeIs
  <2>3. FreeOf(D \cup {r}, fr) \ {r} = FreeOf(D, fr)
    BY Zenon DEF FreeOf
  <2> QED
    BY <2>2, <2>3, <1>1, Zenon
<1>4. /\ FreeChain(F, [fp EXCEPT ![r] = NULL], [fn EXCEPT ![r] = NULL], fh, rank, low)
      /\ Unlinked((D \cup {r}) \ F, [fp EXCEPT ![r] = NULL], [fn EXCEPT ![r] = NULL])
  BY <1>1, <1>2, LinksOfNew
<1> QED
  BY <1>1, <1>3, <1>4, Zenon DEF Ordered

-----------------------------------------------------------------------------
(* The operations on the headers once more, their functions opaque.        *)

IntFun(f) == f \in [Int -> Int]

Put(f, b, p) == [f EXCEPT ![b] = p]

LEMMA FunFacts ==
  ASSUME NEW f, IntFun(f), NEW x \in Int
  PROVE  f[x] \in Int
BY DEF IntFun

LEMMA PutFacts ==
  ASSUME NEW f, IntFun(f), NEW b \in Int, NEW p \in Int
  PROVE  /\ IntFun(Put(f, b, p)) /\ Put(f, b, p)[b] = p
         /\ \A x \in Int : Put(f, b, p)[x] = IF x = b THEN p ELSE f[x]
BY DEF IntFun, Put

LEMMA UpdFacts ==
  ASSUME NEW f, IntFun(f), NEW b \in Int, NEW p \in Int
  PROVE  /\ IntFun(Upd(f, b, p))
         /\ \A x \in Int : Upd(f, b, p)[x] = IF x = b /\ b # NULL THEN p ELSE f[x]
BY UpdType DEF IntFun

LEMMA MarkedFacts ==
  ASSUME NEW fr, Flags(fr), NEW b \in Int, NEW f \in BOOLEAN
  PROVE  Marked(fr, b, f)[b] = f /\ \A x \in Int : x # b => Marked(fr, b, f)[x] = fr[x]
BY DEF Flags, Marked

LEMMA MarkFree ==
  ASSUME NEW D \in SUBSET Nat, NEW fr, Flags(fr), NEW sz, NEW pv, NEW nx, NEW fp, NEW fn,
         NEW bh, NEW fh, NEW b \in D, NEW p \in BOOLEAN
  PROVE  SetFree(Alloc(D, fr, sz, pv, nx, fp, fn, bh, fh), b, p)
           = Alloc(D, Marked(fr, b, p), sz, pv, nx, fp, fn, bh, fh)
<1>1. Marked(fr, b, p)[b] = p /\ Keeps(D \ {b}, fr, Marked(fr, b, p))
  BY MarkedFacts DEF Keeps
<1> QED
  BY <1>1, SetFreeAlloc

LEMMA PutSize ==
  ASSUME NEW D \in SUBSET Nat, NEW fr, NEW sz, IntFun(sz), NEW pv, NEW nx, NEW fp, NEW fn,
         NEW bh, NEW fh, NEW b \in D, NEW p \in Int
  PROVE  SetSize(Alloc(D, fr, sz, pv, nx, fp, fn, bh, fh), b, p)
           = Alloc(D, fr, Put(sz, b, p), pv, nx, fp, fn, bh, fh)
<1>1. Put(sz, b, p)[b] = p /\ Keeps(D \ {b}, sz, Put(sz, b, p))
  BY PutFacts DEF Keeps
<1> QED
  BY <1>1, SetSizeAlloc

LEMMA PutPrev ==
  ASSUME NEW D \in SUBSET Nat, NEW fr, NEW sz, NEW pv, IntFun(pv), NEW nx, NEW fp, NEW fn,
         NEW bh, NEW fh, NEW b \in D \cup {NULL}, NEW p \in Int
  PROVE  SetPrev(Alloc(D, fr, sz, pv, nx, fp, fn, bh, fh), b, p)
           = Alloc(D, fr, sz, Upd(pv, b, p), nx, fp, fn, bh, fh)
BY SetPrevAlloc DEF IntFun

LEMMA PutNext ==
  ASSUME NEW D \in SUBSET Nat, NEW fr, NEW sz, NEW pv, NEW nx, IntFun(nx), NEW fp, NEW fn,
         NEW bh, NEW fh, NEW b \in D \cup {NULL}, NEW p \in Int
  PROVE  SetNext(Alloc(D, fr, sz, pv, nx, fp, fn, bh, fh), b, p)
           = Alloc(D, fr, sz, pv, Upd(nx, b, p), fp, fn, bh, fh)
BY SetNextAlloc DEF IntFun

LEMMA JoinFree ==
  ASSUME NEW D \in SUBSET Nat, NEW fr, NEW sz, NEW pv, NEW nx, NEW fp, IntFun(fp), NEW fn, IntFun(fn),
         NEW bh, NEW fh \in D \cup {NULL}, NEW b \in D
  PROVE  add_block_to_free_list(Alloc(D, fr, sz, pv, nx, fp, fn, bh, fh), b)
           = Alloc(D, fr, sz, pv, nx, Upd(Upd(fp, b, NULL), fh, b), Upd(fn, b, fh), bh, b)
BY AddFreeAlloc DEF IntFun

LEMMA LeaveFree ==
  ASSUME NEW D \in SUBSET Nat, NEW fr, NEW sz, NEW pv, NEW nx, NEW fp, IntFun(fp), NEW fn, IntFun(fn),
         NEW bh, NEW fh, NEW b \in D, fp[b] \in D \cup {NULL}, fn[b] \in D \cup {NULL}
  PROVE  remove_block_from_free_list(Alloc(D, fr, sz, pv, nx, fp, fn, bh, fh), b)
           = Alloc(D, fr, sz, pv, nx, Upd(Upd(fp, fn[b], fp[b]), b, NULL),
                   Upd(Upd(fn, fp[b], fn[b]), b, NULL), bh, IF fp[b] = NULL THEN fn[b] ELSE fh)
BY RemoveFreeAlloc DEF IntFun

LEMMA LeaveBlocks ==
  ASSUME NEW D \in SUBSET Nat, NEW fr, NEW sz, NEW pv, IntFun(pv), NEW nx, IntFun(nx), NEW fp, NEW fn,
         NEW bh, NEW fh, NEW b \in D, pv[b] \in D, nx[b] \in D \cup {NULL}
  PROVE  remove_block_from_block_list(Alloc(D, fr, sz, pv, nx, fp, fn, bh, fh), b)
           = Alloc(D, fr, sz, Upd(Upd(pv, nx[b], pv[b]), b, NULL),
                   Upd(Upd(nx, pv[b], nx[b]), b, NULL), fp, fn, bh, fh)
BY RemoveBlockAlloc DEF IntFun

Freed(fr, b) == Marked(fr, b, TRUE)
Taken(fr, b) == Marked(fr, b, FALSE)
FreeHeader(n, p, q) == HeaderOf(TRUE, n, p, q, NULL, NULL)

ToFree(a, b) == SetFree(a, b, TRUE)
ToUsed(a, b) == SetFree(a, b, FALSE)

LEMMA FreedFacts ==
  ASSUME NEW fr, Flags(fr), NEW b \in Int
  PROVE  /\ Flags(Freed(fr, b)) /\ Flags(Taken(fr, b))
         /\ Freed(fr, b)[b] = TRUE /\ Taken(fr, b)[b] = FALSE
         /\ \A x \in Int : x # b => Freed(fr, b)[x] = fr[x] /\ Taken(fr, b)[x] = fr[x]
         /\ Freed(Taken(fr, b), b) = Freed(fr, b)
BY DEF Flags, Marked, Freed, Taken

LEMMA FreedKeeps ==
  ASSUME NEW D \in SUBSET Nat, NEW fr, Flags(fr), NEW b \in Nat
  PROVE  Keeps(D \ {b}, fr, Freed(fr, b)) /\ Keeps(D \ {b}, fr, Taken(fr, b))
<1>1. b \in Int /\ \A x \in D \ {b} : x \in Int /\ x # b
  OBVIOUS
<1>2. \A x \in Int : x # b => Freed(fr, b)[x] = fr[x] /\ Taken(fr, b)[x] = fr[x]
  BY <1>1, FreedFacts, Zenon
<1> QED
  BY <1>1, <1>2, Zenon DEF Keeps

LEMMA MarkFreed ==
  ASSUME NEW D \in SUBSET Nat, NEW fr, Flags(fr), NEW sz, NEW pv, NEW nx, NEW fp, NEW fn,
         NEW bh, NEW fh, NEW b \in D
  PROVE  /\ ToFree(Alloc(D, fr, sz, pv, nx, fp, fn, bh, fh), b)
              = Alloc(D, Freed(fr, b), sz, pv, nx, fp, fn, bh, fh)
         /\ ToUsed(Alloc(D, fr, sz, pv, nx, fp, fn, bh, fh), b)
              = Alloc(D, Taken(fr, b), sz, pv, nx, fp, fn, bh, fh)
<1>1. PICK t : t = TRUE
  OBVIOUS
<1>2. PICK f : f = FALSE
  OBVIOUS
<1>0. b \in Int
  OBVIOUS
<1>7. Freed(fr, b)[b] = TRUE /\ Taken(fr, b)[b] = FALSE
  BY <1>0, FreedFacts, Zenon
<1>3. Freed(fr, b)[b] = t /\ Taken(fr, b)[b] = f
  BY <1>1, <1>2, <1>7, Zenon
<1>4. Keeps(D \ {b}, fr, Freed(fr, b)) /\ Keeps(D \ {b}, fr, Taken(fr, b))
  BY FreedKeeps
<1>5. SetFree(Alloc(D, fr, sz, pv, nx, fp, fn, bh, fh), b, t)
        = Alloc(D, Freed(fr, b), sz, pv, nx, fp, fn, bh, fh)
  BY <1>3, <1>4, SetFreeAlloc
<1>6. SetFree(Alloc(D, fr, sz, pv, nx, fp, fn, bh, fh), b, f)
        = Alloc(D, Taken(fr, b), sz, pv, nx, fp, fn, bh, fh)
  BY <1>3, <1>4, SetFreeAlloc
<1> QED
  BY <1>1, <1>2, <1>5, <1>6, Zenon DEF ToFree, ToUsed

LEMMA NewHeader ==
  ASSUME NEW D \in SUBSET Nat, NEW fr, Flags(fr), NEW sz, IntFun(sz), NEW pv, IntFun(pv), NEW nx, IntFun(nx),
         NEW fp, IntFun(fp), NEW fn, IntFun(fn), NEW bh, NEW fh, NEW b \in Nat \ D,
         NEW n \in Int, NEW p \in Int, NEW q \in Int
  PROVE  WriteHeader(Alloc(D, fr, sz, pv, nx, fp, fn, bh, fh), b, FreeHeader(n, p, q))
           = Alloc(D \cup {b}, Freed(fr, b), Put(sz, b, n), Put(pv, b, p), Put(nx, b, q),
                   Put(fp, b, NULL), Put(fn, b, NULL), bh, fh)
<1>0. b \in Int /\ NULL \in Int /\ \A x \in D : x \in Int /\ x # b
  BY DEF NULL
<1>1. /\ Put(sz, b, n)[b] = n /\ Put(pv, b, p)[b] = p
      /\ Put(nx, b, q)[b] = q /\ Put(fp, b, NULL)[b] = NULL /\ Put(fn, b, NULL)[b] = NULL
  BY <1>0, PutFacts
<1>2. Keeps(D, fr, Freed(fr, b))
  <2>1. D \ {b} = D
    OBVIOUS
  <2>2. Keeps(D \ {b}, fr, Freed(fr, b))
    BY FreedKeeps
  <2> QED
    BY <2>1, <2>2
<1>3. /\ Keeps(D, sz, Put(sz, b, n)) /\ Keeps(D, pv, Put(pv, b, p)) /\ Keeps(D, nx, Put(nx, b, q))
      /\ Keeps(D, fp, Put(fp, b, NULL)) /\ Keeps(D, fn, Put(fn, b, NULL))
  BY <1>0, PutFacts DEF Keeps
<1>4. PICK t : t = TRUE
  OBVIOUS
<1>5. WriteHeader(Alloc(D, fr, sz, pv, nx, fp, fn, bh, fh), b, HeaderOf(t, n, p, q, NULL, NULL))
           = Alloc(D \cup {b}, Freed(fr, b), Put(sz, b, n), Put(pv, b, p), Put(nx, b, q),
                   Put(fp, b, NULL), Put(fn, b, NULL), bh, fh)
  <2>1. Freed(fr, b)[b] = t
    BY <1>0, <1>4, FreedFacts, Zenon
  <2> QED
    BY <1>0, <1>1, <1>2, <1>3, <2>1, WriteHeaderAlloc
<1> QED
  BY <1>4, <1>5, Zenon DEF FreeHeader

\* split_block ...
LEMMA SplitAlloc ==
  ASSUME NEW D \in SUBSET Nat, NEW fr, Flags(fr), NEW sz, IntFun(sz), NEW pv, IntFun(pv), NEW nx, IntFun(nx),
         NEW fp, IntFun(fp), NEW fn, IntFun(fn), NEW fh \in D \cup {NULL}, NEW b \in D, NEW size \in Nat,
         NEW y \in D \cup {NULL}, y = nx[b], NEW d \in Int, d = sz[b] - size, ~(d <= HeaderSize),
         NEW r \in Nat \ D, r = b + size + HeaderSize, NEW k \in Int, k = d - HeaderSize
  PROVE  split_block(Alloc(D, fr, sz, pv, nx, fp, fn, 0, fh), b, size)
           = Alloc(D \cup {r}, Freed(fr, r), Put(Put(sz, b, size), r, k),
                   Upd(Put(pv, r, b), y, r), Put(Upd(nx, b, r), r, y),
                   Upd(Upd(Put(fp, r, NULL), r, NULL), fh, r), Upd(Put(fn, r, NULL), r, fh), 0, r)
<1> DEFINE a == Alloc(D, fr, sz, pv, nx, fp, fn, 0, fh)
<1>0. NULL \in Int /\ b \in Int /\ r \in Int /\ size \in Int /\ y \in Int /\ b \in D \cup {NULL}
  BY DEF NULL
<1>1. a.headers[b].size = sz[b] /\ a.headers[b].next = y
  BY AllocFields
<1>2. IntFun(Put(sz, b, size)) /\ IntFun(Upd(nx, b, r)) /\ IntFun(Put(pv, r, b)) /\ IntFun(Put(fp, r, NULL))
      /\ IntFun(Put(fn, r, NULL))
  BY <1>0, PutFacts, UpdFacts
<1>4. SetSize(a, b, size) = Alloc(D, fr, Put(sz, b, size), pv, nx, fp, fn, 0, fh)
  BY <1>0, PutSize
<1>5. SetNext(SetSize(a, b, size), b, r) = Alloc(D, fr, Put(sz, b, size), pv, Upd(nx, b, r), fp, fn, 0, fh)
  BY <1>0, <1>4, PutNext
<1> DEFINE hd == FreeHeader(k, b, y)
<1>6. WriteHeader(SetNext(SetSize(a, b, size), b, r), r, hd)
         = Alloc(D \cup {r}, Freed(fr, r), Put(Put(sz, b, size), r, k), Put(pv, r, b),
                 Put(Upd(nx, b, r), r, y), Put(fp, r, NULL), Put(fn, r, NULL), 0, fh)
  BY <1>0, <1>2, <1>5, NewHeader
<1>7. D \cup {r} \in SUBSET Nat /\ y \in (D \cup {r}) \cup {NULL} /\ fh \in (D \cup {r}) \cup {NULL} /\ r \in D \cup {r}
  OBVIOUS
<1>8. SetPrev(WriteHeader(SetNext(SetSize(a, b, size), b, r), r, hd), y, r)
         = Alloc(D \cup {r}, Freed(fr, r), Put(Put(sz, b, size), r, k), Upd(Put(pv, r, b), y, r),
                 Put(Upd(nx, b, r), r, y), Put(fp, r, NULL), Put(fn, r, NULL), 0, fh)
  BY <1>0, <1>2, <1>6, <1>7, PutPrev
<1>9. add_block_to_free_list(SetPrev(WriteHeader(SetNext(SetSize(a, b, size), b, r), r, hd), y, r), r)
         = Alloc(D \cup {r}, Freed(fr, r), Put(Put(sz, b, size), r, k), Upd(Put(pv, r, b), y, r),
                 Put(Upd(nx, b, r), r, y), Upd(Upd(Put(fp, r, NULL), r, NULL), fh, r),
                 Upd(Put(fn, r, NULL), r, fh), 0, r)
  BY <1>0, <1>2, <1>7, <1>8, JoinFree
<1>10. split_block(a, b, size)
         = add_block_to_free_list(SetPrev(WriteHeader(SetNext(SetSize(a, b, size), b, r), r, hd), y, r), r)
  <2> HIDE DEF a
  <2> QED
    BY <1>1, Zenon DEF split_block, HeaderOf, FreeHeader
<1> QED
  BY <1>9, <1>10, Zenon

-----------------------------------------------------------------------------
(* Both lists in order, with the types of the functions that say so.       *)

Laid(D, fr, sz, pv, nx, fp, fn, fh, rank, low, end) ==
  /\ D \in SUBSET Nat /\ Flags(fr) /\ IntFun(sz) /\ IntFun(pv) /\ IntFun(nx) /\ IntFun(fp) /\ IntFun(fn)
  /\ fh \in Int /\ IntFun(rank) /\ low \in Int /\ end \in Nat
  /\ Ordered(D, fr, sz, pv, nx, fp, fn, fh, rank, low, end)

\* Heads and links are blocks.
LinksIn(D, F, fp, fn, fh) ==
  /\ fh \in D \cup {NULL}
  /\ \A b \in F : fp[b] \in D \cup {NULL} /\ fn[b] \in D \cup {NULL}

LEMMA OrderedLinks ==
  ASSUME NEW D \in SUBSET Nat, NEW fr, NEW sz \in [Int -> Int],
         NEW pv \in [Int -> Int], NEW nx \in [Int -> Int], NEW fp \in [Int -> Int],
         NEW fn \in [Int -> Int], NEW fh \in Int, NEW rank \in [Int -> Int], NEW low \in Int,
         NEW end \in Nat, Ordered(D, fr, sz, pv, nx, fp, fn, fh, rank, low, end)
  PROVE  /\ LinksIn(D, FreeOf(D, fr), fp, fn, fh)
         /\ \A b \in D : Around(b, D, sz, pv, nx, end)
<1>1. \A b \in D : Around(b, D, sz, pv, nx, end)
  BY TiledNext DEF Ordered
<1>2. PICK F \in SUBSET Nat : F = FreeOf(D, fr) /\ F \subseteq D
  BY FreeOfPart
<1>3. FreeChain(F, fp, fn, fh, rank, low)
  BY <1>2, Zenon DEF Ordered
<1>4. fh \in D \cup {NULL} /\ \A b \in F : fp[b] \in D \cup {NULL} /\ fn[b] \in D \cup {NULL}
  BY <1>2, <1>3, FreeChainLinks
<1> QED
  BY <1>1, <1>2, <1>4, Zenon DEF LinksIn

LEMMA LaidFacts ==
  ASSUME NEW D, NEW fr, NEW sz, NEW pv, NEW nx, NEW fp, NEW fn, NEW fh, NEW rank, NEW low, NEW end,
         Laid(D, fr, sz, pv, nx, fp, fn, fh, rank, low, end)
  PROVE  /\ D \in SUBSET Nat /\ Flags(fr) /\ IntFun(sz) /\ IntFun(pv) /\ IntFun(nx) /\ IntFun(fp) /\ IntFun(fn)
         /\ fh \in Int /\ IntFun(rank) /\ low \in Int /\ end \in Nat
         /\ LinksIn(D, FreeOf(D, fr), fp, fn, fh)
         /\ \A b \in D : Around(b, D, sz, pv, nx, end)
<1>1. /\ D \in SUBSET Nat /\ Flags(fr) /\ IntFun(sz) /\ IntFun(pv) /\ IntFun(nx) /\ IntFun(fp) /\ IntFun(fn)
      /\ fh \in Int /\ IntFun(rank) /\ low \in Int /\ end \in Nat
      /\ Ordered(D, fr, sz, pv, nx, fp, fn, fh, rank, low, end)
  BY Zenon DEF Laid
<1>2. LinksIn(D, FreeOf(D, fr), fp, fn, fh) /\ \A b \in D : Around(b, D, sz, pv, nx, end)
  BY <1>1, OrderedLinks, Zenon DEF IntFun
<1> QED
  BY <1>1, <1>2, Zenon

\* A used block joins the free list ...
LEMMA LaidAdd ==
  ASSUME NEW D, NEW fr, NEW sz, NEW pv, NEW nx, NEW fp, NEW fn, NEW fh, NEW rank, NEW low, NEW end,
         Laid(D, fr, sz, pv, nx, fp, fn, fh, rank, low, end), NEW b \in D, b \notin FreeOf(D, fr)
  PROVE  /\ Laid(D, Freed(fr, b), sz, pv, nx, Upd(Upd(fp, b, NULL), fh, b), Upd(fn, b, fh), b,
                 Put(rank, b, low - 1), low - 1, end)
         /\ FreeIs(FreeOf(D, fr) \cup {b}, D, Freed(fr, b))
<1>1. /\ D \in SUBSET Nat /\ Flags(fr) /\ IntFun(sz) /\ IntFun(pv) /\ IntFun(nx) /\ IntFun(fp) /\ IntFun(fn)
      /\ fh \in Int /\ IntFun(rank) /\ low \in Int /\ end \in Nat
      /\ Ordered(D, fr, sz, pv, nx, fp, fn, fh, rank, low, end)
  BY Zenon DEF Laid
<1>2. b \in Int /\ NULL \in Int /\ low - 1 \in Int
  BY <1>1 DEF NULL
<1>3. IntFun(Upd(fp, b, NULL)) /\ IntFun(Upd(fn, b, fh)) /\ IntFun(Put(rank, b, low - 1)) /\ Flags(Freed(fr, b))
  BY <1>1, <1>2, UpdFacts, PutFacts, FreedFacts
<1>4. IntFun(Upd(Upd(fp, b, NULL), fh, b))
  BY <1>1, <1>2, <1>3, UpdFacts
<1>5. Ordered(D, Freed(fr, b), sz, pv, nx, Upd(Upd(fp, b, NULL), fh, b), Upd(fn, b, fh), b,
              Put(rank, b, low - 1), low - 1, end)
  BY <1>1, OrderedAdd, Zenon DEF IntFun, Freed, Put
<1>6. FreeIs(FreeOf(D, fr) \cup {b}, D, Freed(fr, b))
  BY <1>1, MarkedFree, Zenon DEF Freed
<1> QED
  BY <1>1, <1>2, <1>3, <1>4, <1>5, <1>6, Zenon DEF Laid

\* ... and a free block leaves it.
LEMMA LaidRemove ==
  ASSUME NEW D, NEW fr, NEW sz, NEW pv, NEW nx, NEW fp, NEW fn, NEW fh, NEW rank, NEW low, NEW end,
         Laid(D, fr, sz, pv, nx, fp, fn, fh, rank, low, end), NEW b \in FreeOf(D, fr)
  PROVE  /\ Laid(D, Taken(fr, b), sz, pv, nx, Upd(Upd(fp, fn[b], fp[b]), b, NULL),
                 Upd(Upd(fn, fp[b], fn[b]), b, NULL), IF fp[b] = NULL THEN fn[b] ELSE fh, rank, low, end)
         /\ FreeIs(FreeOf(D, fr) \ {b}, D, Taken(fr, b))
<1>1. /\ D \in SUBSET Nat /\ Flags(fr) /\ IntFun(sz) /\ IntFun(pv) /\ IntFun(nx) /\ IntFun(fp) /\ IntFun(fn)
      /\ fh \in Int /\ IntFun(rank) /\ low \in Int /\ end \in Nat
      /\ Ordered(D, fr, sz, pv, nx, fp, fn, fh, rank, low, end)
  BY Zenon DEF Laid
<1>2. b \in D
  BY FreeOfPart
<1>3. b \in Nat /\ b \in Int /\ NULL \in Int
  BY <1>1, <1>2 DEF NULL
<1>4. fp[b] \in Int /\ fn[b] \in Int /\ Flags(Taken(fr, b))
  BY <1>1, <1>3, FunFacts, FreedFacts
<1>5. IntFun(Upd(fp, fn[b], fp[b])) /\ IntFun(Upd(fn, fp[b], fn[b]))
  BY <1>1, <1>4, UpdFacts
<1>6. IntFun(Upd(Upd(fp, fn[b], fp[b]), b, NULL)) /\ IntFun(Upd(Upd(fn, fp[b], fn[b]), b, NULL))
  BY <1>3, <1>5, UpdFacts
<1>7. (IF fp[b] = NULL THEN fn[b] ELSE fh) \in Int
  BY <1>1, <1>4
<1>8. Ordered(D, Taken(fr, b), sz, pv, nx, Upd(Upd(fp, fn[b], fp[b]), b, NULL),
              Upd(Upd(fn, fp[b], fn[b]), b, NULL), IF fp[b] = NULL THEN fn[b] ELSE fh, rank, low, end)
  BY <1>1, OrderedRemove, Zenon DEF IntFun, Taken
<1>9. FreeIs(FreeOf(D, fr) \ {b}, D, Taken(fr, b))
  BY <1>1, <1>3, MarkedUsed, Zenon DEF Taken
<1> QED
  BY <1>1, <1>4, <1>6, <1>7, <1>8, <1>9, Zenon DEF Laid

\* A block swallows the used block behind it.
LEMMA LaidMerge ==
  ASSUME NEW D, NEW fr, NEW sz, NEW pv, NEW nx, NEW fp, NEW fn, NEW fh, NEW rank, NEW low, NEW end,
         Laid(D, fr, sz, pv, nx, fp, fn, fh, rank, low, end), NEW b \in D, NEW y \in D, y = nx[b],
         y \notin FreeOf(D, fr), NEW sz2, IntFun(sz2), NEW pv2, IntFun(pv2), NEW nx2, IntFun(nx2),
         Merges(D, b, y, sz, pv, nx, sz2, pv2, nx2)
  PROVE  /\ b \in D \ {y} /\ Laid(D \ {y}, fr, sz2, pv2, nx2, fp, fn, fh, rank, low, end)
         /\ FreeIs(FreeOf(D, fr), D \ {y}, fr)
<1>1. /\ D \in SUBSET Nat /\ Flags(fr) /\ IntFun(sz) /\ IntFun(pv) /\ IntFun(nx) /\ IntFun(fp) /\ IntFun(fn)
      /\ fh \in Int /\ IntFun(rank) /\ low \in Int /\ end \in Nat
      /\ Ordered(D, fr, sz, pv, nx, fp, fn, fh, rank, low, end)
  BY Zenon DEF Laid
<1>2. b \in D \ {y} /\ Ordered(D \ {y}, fr, sz2, pv2, nx2, fp, fn, fh, rank, low, end)
  BY <1>1, OrderedMerge, Zenon DEF IntFun
<1>3. FreeIs(FreeOf(D, fr), D \ {y}, fr)
  BY Zenon DEF FreeOf, FreeIs
<1>4. D \ {y} \in SUBSET Nat
  BY <1>1
<1> QED
  BY <1>1, <1>2, <1>3, <1>4, Zenon DEF Laid

\* A new block that is not in the free list yet.
LEMMA LaidGrow ==
  ASSUME NEW D, NEW fr, NEW sz, NEW pv, NEW nx, NEW fp, NEW fn, NEW fh, NEW rank, NEW low, NEW end,
         Laid(D, fr, sz, pv, nx, fp, fn, fh, rank, low, end), NEW r \in Nat, r \notin D,
         NEW sz2, IntFun(sz2), NEW pv2, IntFun(pv2), NEW nx2, IntFun(nx2), NEW end2 \in Nat,
         Tiled(D \cup {r}, sz2, pv2, nx2, end2)
  PROVE  /\ Laid(D \cup {r}, Taken(fr, r), sz2, pv2, nx2, Put(fp, r, NULL), Put(fn, r, NULL), fh, rank, low, end2)
         /\ FreeIs(FreeOf(D, fr), D \cup {r}, Taken(fr, r))
<1>1. /\ D \in SUBSET Nat /\ Flags(fr) /\ IntFun(sz) /\ IntFun(pv) /\ IntFun(nx) /\ IntFun(fp) /\ IntFun(fn)
      /\ fh \in Int /\ IntFun(rank) /\ low \in Int /\ end \in Nat
      /\ Ordered(D, fr, sz, pv, nx, fp, fn, fh, rank, low, end)
  BY Zenon DEF Laid
<1>2. r \in Int /\ NULL \in Int /\ D \cup {r} \in SUBSET Nat
  BY <1>1 DEF NULL
<1>3. IntFun(Put(fp, r, NULL)) /\ IntFun(Put(fn, r, NULL)) /\ Flags(Taken(fr, r))
  BY <1>1, <1>2, PutFacts, FreedFacts
<1>4. /\ Ordered(D \cup {r}, Taken(fr, r), sz2, pv2, nx2, Put(fp, r, NULL), Put(fn, r, NULL), fh, rank, low, end2)
      /\ FreeOf(D \cup {r}, Taken(fr, r)) = FreeOf(D, fr)
  BY <1>1, OrderedGrow, Zenon DEF IntFun, Taken, Put
<1>5. FreeIs(FreeOf(D, fr), D \cup {r}, Taken(fr, r))
  BY <1>4, Zenon DEF FreeIs
<1> QED
  BY <1>1, <1>2, <1>3, <1>4, <1>5, Zenon DEF Laid

-----------------------------------------------------------------------------
(* The heap without its links: the blocks D, the free ones F among them,   *)
(* their sizes, the block behind each, and where the last one ends.        *)

IsHeap(a, D, F, sz, nx, end) ==
  \E fr, pv, fp, fn, fh, rank, low :
    /\ FreeIs(F, D, fr) /\ a = Alloc(D, fr, sz, pv, nx, fp, fn, 0, fh)
    /\ Laid(D, fr, sz, pv, nx, fp, fn, fh, rank, low, end)

LEMMA IsHeapFrom ==
  ASSUME NEW D, NEW F, NEW fr, NEW sz, NEW pv, NEW nx, NEW fp, NEW fn, NEW fh, NEW rank, NEW low, NEW end,
         FreeIs(F, D, fr), Laid(D, fr, sz, pv, nx, fp, fn, fh, rank, low, end)
  PROVE  IsHeap(Alloc(D, fr, sz, pv, nx, fp, fn, 0, fh), D, F, sz, nx, end)
BY Zenon DEF IsHeap

LEMMA IsHeapFacts ==
  ASSUME NEW a, NEW D, NEW F, NEW sz, NEW nx, NEW end, IsHeap(a, D, F, sz, nx, end)
  PROVE  /\ D \in SUBSET Nat /\ F \subseteq D /\ IntFun(sz) /\ IntFun(nx) /\ end \in Nat
         /\ \E pv : IntFun(pv) /\ \A b \in D : Around(b, D, sz, pv, nx, end)
<1>1. PICK fr, pv, fp, fn, fh, rank, low :
        /\ FreeIs(F, D, fr) /\ a = Alloc(D, fr, sz, pv, nx, fp, fn, 0, fh)
        /\ Laid(D, fr, sz, pv, nx, fp, fn, fh, rank, low, end)
  BY Zenon DEF IsHeap
<1>2. /\ D \in SUBSET Nat /\ IntFun(sz) /\ IntFun(nx) /\ end \in Nat /\ IntFun(pv)
      /\ \A b \in D : Around(b, D, sz, pv, nx, end)
  BY <1>1, LaidFacts, Zenon
<1>3. F \subseteq D
  BY <1>1, FreeOfPart, Zenon DEF FreeIs
<1> QED
  BY <1>2, <1>3, Zenon

\* The rest of a block that is split: the block list and the sizes afterwards.
SplitsTo(D, b, n, r, sz, nx, sz2, nx2) ==
  /\ IntFun(sz2) /\ IntFun(nx2) /\ r = b + n + HeaderSize /\ r \in Nat /\ r \notin D
  /\ \A x \in D : /\ sz2[x] = IF x = b THEN n ELSE sz[x]
                  /\ nx2[x] = IF x = b THEN r ELSE nx[x]
  /\ sz2[r] = sz[b] - n - HeaderSize /\ nx2[r] = nx[b]

LEMMA SplitFunctions ==
  ASSUME NEW D \in SUBSET Nat, NEW sz, IntFun(sz), NEW pv, IntFun(pv), NEW nx, IntFun(nx), NEW b \in D,
         NEW n \in Nat, NEW r \in Nat, r # b, NEW y \in Int, y = nx[b], y # r, NEW k \in Int, k = sz[b] - n - HeaderSize
  PROVE  /\ Splits(D, b, n, r, sz, pv, nx, Put(Put(sz, b, n), r, k), Upd(Put(pv, r, b), y, r),
                   Put(Upd(nx, b, r), r, y))
         /\ IntFun(Put(Put(sz, b, n), r, k)) /\ IntFun(Upd(Put(pv, r, b), y, r))
         /\ IntFun(Put(Upd(nx, b, r), r, y))
<1>0. b \in Int /\ n \in Int /\ r \in Int /\ \A x \in D \cup {r} : x \in Int /\ x # NULL
  BY DEF NULL
<1>1. PICK s1 : s1 = Put(sz, b, n) /\ IntFun(s1) /\ \A x \in Int : s1[x] = IF x = b THEN n ELSE sz[x]
  BY <1>0, PutFacts
<1>2. PICK n1 : n1 = Upd(nx, b, r) /\ IntFun(n1) /\ \A x \in Int : n1[x] = IF x = b /\ b # NULL THEN r ELSE nx[x]
  BY <1>0, UpdFacts
<1>3. PICK p1 : p1 = Put(pv, r, b) /\ IntFun(p1) /\ \A x \in Int : p1[x] = IF x = r THEN b ELSE pv[x]
  BY <1>0, PutFacts
<1>4. PICK s2 : s2 = Put(s1, r, k) /\ IntFun(s2) /\ \A x \in Int : s2[x] = IF x = r THEN k ELSE s1[x]
  BY <1>0, <1>1, PutFacts
<1>5. PICK n2 : n2 = Put(n1, r, y) /\ IntFun(n2) /\ \A x \in Int : n2[x] = IF x = r THEN y ELSE n1[x]
  BY <1>0, <1>2, PutFacts
<1>6. PICK p2 : p2 = Upd(p1, y, r) /\ IntFun(p2) /\ \A x \in Int : p2[x] = IF x = y /\ y # NULL THEN r ELSE p1[x]
  BY <1>0, <1>3, UpdFacts
<1>7. ASSUME NEW x \in D \cup {r}
      PROVE  /\ s2[x] = IF x = b THEN n ELSE IF x = r THEN sz[b] - n - HeaderSize ELSE sz[x]
             /\ n2[x] = IF x = b THEN r ELSE IF x = r THEN nx[b] ELSE nx[x]
             /\ p2[x] = IF x = r THEN b ELSE IF x = nx[b] THEN r ELSE pv[x]
  <2>1. x \in Int /\ x # NULL /\ b # NULL
    BY <1>0
  <2>2. s2[x] = IF x = b THEN n ELSE IF x = r THEN sz[b] - n - HeaderSize ELSE sz[x]
    BY <2>1, <1>1, <1>4
  <2>3. n2[x] = IF x = b THEN r ELSE IF x = r THEN nx[b] ELSE nx[x]
    BY <2>1, <1>2, <1>5
  <2>4. p2[x] = IF x = r THEN b ELSE IF x = nx[b] THEN r ELSE pv[x]
    BY <2>1, <1>3, <1>6
  <2> QED
    BY <2>2, <2>3, <2>4
<1>8. Splits(D, b, n, r, sz, pv, nx, s2, p2, n2)
  BY <1>7, Zenon DEF Splits
<1> QED
  BY <1>1, <1>2, <1>3, <1>4, <1>5, <1>6, <1>8, Zenon

\* split_block of a block that is large enough.
LEMMA HeapSplit ==
  ASSUME NEW a, NEW D, NEW F, NEW sz, NEW nx, NEW end, IsHeap(a, D, F, sz, nx, end),
         NEW b \in D, NEW n \in Nat, ~(sz[b] - n <= HeaderSize)
  PROVE  \E r, sz2, nx2 : /\ SplitsTo(D, b, n, r, sz, nx, sz2, nx2)
                          /\ IsHeap(split_block(a, b, n), D \cup {r}, F \cup {r}, sz2, nx2, end)
<1>1. PICK fr, pv, fp, fn, fh, rank, low :
        /\ FreeIs(F, D, fr) /\ a = Alloc(D, fr, sz, pv, nx, fp, fn, 0, fh)
        /\ Laid(D, fr, sz, pv, nx, fp, fn, fh, rank, low, end)
  BY Zenon DEF IsHeap
<1>2. /\ D \in SUBSET Nat /\ Flags(fr) /\ IntFun(sz) /\ IntFun(pv) /\ IntFun(nx) /\ IntFun(fp) /\ IntFun(fn)
      /\ fh \in Int /\ IntFun(rank) /\ low \in Int /\ end \in Nat
      /\ LinksIn(D, FreeOf(D, fr), fp, fn, fh) /\ Around(b, D, sz, pv, nx, end)
  BY <1>1, LaidFacts, Zenon
<1>3. HeaderSize \in Nat /\ HeaderSize > 0
  BY HeapAssumption
<1>4. PICK k \in Int, d \in Int : d = sz[b] - n /\ k = d - HeaderSize /\ k = sz[b] - n - HeaderSize
  BY <1>2, <1>3 DEF Around
<1>5. PICK y \in Int : y = nx[b] /\ y \in D \cup {NULL}
  BY <1>2 DEF Around
<1>6. PICK r \in Nat : r = b + n + HeaderSize /\ r # b /\ r # y /\ n + HeaderSize < sz[b]
  <2>1. PICK q, hs \in Nat : q = sz[b] /\ hs = HeaderSize /\ hs > 0 /\ b \in Nat
    BY <1>2, <1>3 DEF Around
  <2>2. y # NULL => y = b + hs + q
    BY <1>2, <1>5, <2>1 DEF Around
  <2>3. n + hs < q
    BY <2>1
  <2>4. b + n + hs # y
    BY <2>1, <2>2, <2>3 DEF NULL
  <2> QED
    BY <2>1, <2>3, <2>4
<1> DEFINE sz2 == Put(Put(sz, b, n), r, k)
<1> DEFINE pv2 == Upd(Put(pv, r, b), y, r)
<1> DEFINE nx2 == Put(Upd(nx, b, r), r, y)
<1>7. Splits(D, b, n, r, sz, pv, nx, sz2, pv2, nx2) /\ IntFun(sz2) /\ IntFun(pv2) /\ IntFun(nx2)
  BY <1>2, <1>4, <1>5, <1>6, SplitFunctions
<1> HIDE DEF sz2, pv2, nx2
<1>8. Tiled(D, sz, pv, nx, end)
  BY <1>1, Zenon DEF Laid, Ordered
<1>9. r \notin D /\ Tiled(D \cup {r}, sz2, pv2, nx2, end)
  BY <1>2, <1>6, <1>7, <1>8, TiledSplit, Zenon DEF IntFun
<1>10. /\ Laid(D \cup {r}, Taken(fr, r), sz2, pv2, nx2, Put(fp, r, NULL), Put(fn, r, NULL), fh, rank, low, end)
       /\ FreeIs(FreeOf(D, fr), D \cup {r}, Taken(fr, r))
  BY <1>1, <1>2, <1>7, <1>9, LaidGrow, Zenon
<1>11. r \in D \cup {r} /\ r \notin FreeOf(D \cup {r}, Taken(fr, r))
  BY <1>9, <1>10, FreeOfPart, Zenon DEF FreeIs
<1>12. /\ Laid(D \cup {r}, Freed(fr, r), sz2, pv2, nx2, Upd(Upd(Put(fp, r, NULL), r, NULL), fh, r),
               Upd(Put(fn, r, NULL), r, fh), r, Put(rank, r, low - 1), low - 1, end)
       /\ FreeIs(FreeOf(D, fr) \cup {r}, D \cup {r}, Freed(fr, r))
  <2>1. r \in Int
    BY <1>6
  <2>2. Freed(Taken(fr, r), r) = Freed(fr, r)
    BY <1>2, <2>1, FreedFacts, Zenon
  <2>3. /\ Laid(D \cup {r}, Freed(Taken(fr, r), r), sz2, pv2, nx2, Upd(Upd(Put(fp, r, NULL), r, NULL), fh, r),
                Upd(Put(fn, r, NULL), r, fh), r, Put(rank, r, low - 1), low - 1, end)
        /\ FreeIs(FreeOf(D \cup {r}, Taken(fr, r)) \cup {r}, D \cup {r}, Freed(Taken(fr, r), r))
    BY <1>10, <1>11, LaidAdd, Zenon
  <2>4. FreeOf(D \cup {r}, Taken(fr, r)) = FreeOf(D, fr)
    BY <1>10, Zenon DEF FreeIs
  <2> QED
    BY <2>2, <2>3, <2>4, Zenon
<1>13. split_block(a, b, n)
         = Alloc(D \cup {r}, Freed(fr, r), sz2, pv2, nx2, Upd(Upd(Put(fp, r, NULL), r, NULL), fh, r),
                 Upd(Put(fn, r, NULL), r, fh), 0, r)
  <2>1. fh \in D \cup {NULL} /\ r \in Nat \ D /\ ~(d <= HeaderSize)
    BY <1>2, <1>4, <1>9 DEF LinksIn
  <2> QED
    BY <1>1, <1>2, <1>4, <1>5, <1>6, <2>1, SplitAlloc DEF sz2, pv2, nx2
<1>14. IsHeap(split_block(a, b, n), D \cup {r}, F \cup {r}, sz2, nx2, end)
  <2>1. F = FreeOf(D, fr)
    BY <1>1, Zenon DEF FreeIs
  <2>2. IsHeap(Alloc(D \cup {r}, Freed(fr, r), sz2, pv2, nx2, Upd(Upd(Put(fp, r, NULL), r, NULL), fh, r),
                     Upd(Put(fn, r, NULL), r, fh), 0, r), D \cup {r}, FreeOf(D, fr) \cup {r}, sz2, nx2, end)
    BY <1>12, IsHeapFrom, Zenon
  <2> QED
    BY <2>1, <2>2, <1>13, Zenon
<1>15. SplitsTo(D, b, n, r, sz, nx, sz2, nx2)
  <2>1. \A x \in D \cup {r} :
          /\ sz2[x] = IF x = b THEN n ELSE IF x = r THEN sz[b] - n - HeaderSize ELSE sz[x]
          /\ nx2[x] = IF x = b THEN r ELSE IF x = r THEN nx[b] ELSE nx[x]
    BY <1>7, Zenon DEF Splits
  <2>2. /\ \A x \in D : sz2[x] = IF x = b THEN n ELSE sz[x]
        /\ \A x \in D : nx2[x] = IF x = b THEN r ELSE nx[x]
        /\ sz2[r] = sz[b] - n - HeaderSize /\ nx2[r] = nx[b]
    BY <2>1, <1>6, <1>9
  <2> QED
    BY <2>2, <1>6, <1>7, <1>9 DEF SplitsTo
<1> QED
  BY <1>14, <1>15, Zenon

\* What block_allocator_allocate does with the block it takes.
LEMMA HeapTake ==
  ASSUME NEW a, NEW D, NEW F, NEW sz, NEW nx, NEW end, IsHeap(a, D, F, sz, nx, end), NEW b \in F
  PROVE  IsHeap(remove_block_from_free_list(ToUsed(a, b), b), D, F \ {b}, sz, nx, end)
<1>1. PICK fr, pv, fp, fn, fh, rank, low :
        /\ FreeIs(F, D, fr) /\ a = Alloc(D, fr, sz, pv, nx, fp, fn, 0, fh)
        /\ Laid(D, fr, sz, pv, nx, fp, fn, fh, rank, low, end)
  BY Zenon DEF IsHeap
<1>2. /\ D \in SUBSET Nat /\ Flags(fr) /\ IntFun(fp) /\ IntFun(fn)
      /\ LinksIn(D, FreeOf(D, fr), fp, fn, fh)
  BY <1>1, LaidFacts, Zenon
<1>3. F = FreeOf(D, fr) /\ b \in D
  BY <1>1, FreeOfPart, Zenon DEF FreeIs
<1>4. fp[b] \in D \cup {NULL} /\ fn[b] \in D \cup {NULL}
  BY <1>2, <1>3, Zenon DEF LinksIn
<1>5. ToUsed(a, b) = Alloc(D, Taken(fr, b), sz, pv, nx, fp, fn, 0, fh)
  BY <1>1, <1>2, <1>3, MarkFreed
<1>6. remove_block_from_free_list(Alloc(D, Taken(fr, b), sz, pv, nx, fp, fn, 0, fh), b)
        = Alloc(D, Taken(fr, b), sz, pv, nx, Upd(Upd(fp, fn[b], fp[b]), b, NULL),
                Upd(Upd(fn, fp[b], fn[b]), b, NULL), 0, IF fp[b] = NULL THEN fn[b] ELSE fh)
  BY <1>2, <1>3, <1>4, LeaveFree
<1>7. /\ Laid(D, Taken(fr, b), sz, pv, nx, Upd(Upd(fp, fn[b], fp[b]), b, NULL),
              Upd(Upd(fn, fp[b], fn[b]), b, NULL), IF fp[b] = NULL THEN fn[b] ELSE fh, rank, low, end)
      /\ FreeIs(F \ {b}, D, Taken(fr, b))
  BY <1>1, <1>3, LaidRemove, Zenon
<1> QED
  BY <1>5, <1>6, <1>7, IsHeapFrom, Zenon

\* What block_allocator_free does with a block it cannot merge.
LEMMA HeapPut ==
  ASSUME NEW a, NEW D, NEW F, NEW sz, NEW nx, NEW end, IsHeap(a, D, F, sz, nx, end), NEW b \in D, b \notin F
  PROVE  IsHeap(add_block_to_free_list(ToFree(a, b), b), D, F \cup {b}, sz, nx, end)
<1>1. PICK fr, pv, fp, fn, fh, rank, low :
        /\ FreeIs(F, D, fr) /\ a = Alloc(D, fr, sz, pv, nx, fp, fn, 0, fh)
        /\ Laid(D, fr, sz, pv, nx, fp, fn, fh, rank, low, end)
  BY Zenon DEF IsHeap
<1>2. /\ D \in SUBSET Nat /\ Flags(fr) /\ IntFun(fp) /\ IntFun(fn)
      /\ LinksIn(D, FreeOf(D, fr), fp, fn, fh)
  BY <1>1, LaidFacts, Zenon
<1>3. F = FreeOf(D, fr)
  BY <1>1, Zenon DEF FreeIs
<1>4. fh \in D \cup {NULL}
  BY <1>2, Zenon DEF LinksIn
<1>5. ToFree(a, b) = Alloc(D, Freed(fr, b), sz, pv, nx, fp, fn, 0, fh)
  BY <1>1, <1>2, <1>3, MarkFreed
<1>6. add_block_to_free_list(Alloc(D, Freed(fr, b), sz, pv, nx, fp, fn, 0, fh), b)
        = Alloc(D, Freed(fr, b), sz, pv, nx, Upd(Upd(fp, b, NULL), fh, b), Upd(fn, b, fh), 0, b)
  BY <1>2, <1>3, <1>4, JoinFree
<1>7. /\ Laid(D, Freed(fr, b), sz, pv, nx, Upd(Upd(fp, b, NULL), fh, b), Upd(fn, b, fh), b,
              Put(rank, b, low - 1), low - 1, end)
      /\ FreeIs(F \cup {b}, D, Freed(fr, b))
  BY <1>1, <1>3, LaidAdd, Zenon
<1> QED
  BY <1>5, <1>6, <1>7, IsHeapFrom, Zenon

-----------------------------------------------------------------------------
(* The heap grows.                                                         *)

\* What num_pages rounds up to holds the block and its header.
LEMMA PagesFit ==
  ASSUME NEW size \in Nat
  PROVE  /\ num_pages(size) \in Nat /\ num_pages(size) > 0
         /\ num_pages(size) * PageSize \in Nat
         /\ num_pages(size) * PageSize >= size + HeaderSize
         /\ num_pages(size) * PageSize > HeaderSize
<1>1. PICK m \in Nat \ {0} : m = PageSize
  BY HeapAssumption
<1>2. PICK hs \in Nat \ {0} : hs = HeaderSize /\ hs < m
  BY <1>1, HeapAssumption
<1>3. PICK s \in Nat : s = size + hs
  BY <1>2
<1>4. PICK q \in Nat : q = (s + m - 1) \div m
  BY <1>1, <1>2, <1>3
<1>5. m * q >= s
  BY <1>4
<1>6. q > 0
  BY <1>2, <1>3, <1>5
<1>7. q * m >= m /\ q * m \in Nat
  BY <1>6
<1>8. q * m >= s
  BY <1>5
<1>9. num_pages(size) = q
  BY <1>1, <1>2, <1>3, <1>4 DEF num_pages
<1> QED
  BY <1>1, <1>2, <1>3, <1>6, <1>7, <1>8, <1>9

LEMMA LaidLast ==
  ASSUME NEW D, NEW fr, NEW sz, NEW pv, NEW nx, NEW fp, NEW fn, NEW fh, NEW rank, NEW low, NEW end,
         Laid(D, fr, sz, pv, nx, fp, fn, fh, rank, low, end)
  PROVE  LastOf(Alloc(D, fr, sz, pv, nx, fp, fn, 0, fh), D, nx, end)
<1>1. /\ D \in SUBSET Nat /\ Flags(fr) /\ IntFun(sz) /\ IntFun(pv) /\ IntFun(nx) /\ IntFun(fp) /\ IntFun(fn)
      /\ fh \in Int /\ IntFun(rank) /\ low \in Int /\ end \in Nat
      /\ Ordered(D, fr, sz, pv, nx, fp, fn, fh, rank, low, end)
  BY Zenon DEF Laid
<1> QED
  BY <1>1, LastBlock, Zenon DEF IntFun

AppendsTo(D, l, n, e, sz, nx, sz2, nx2) ==
  /\ IntFun(sz2) /\ IntFun(nx2) /\ e \in Nat /\ e \notin D /\ l \in D /\ nx[l] = NULL
  /\ \A x \in D : sz2[x] = sz[x] /\ nx2[x] = IF x = l THEN e ELSE nx[x]
  /\ sz2[e] = n /\ nx2[e] = NULL

LEMMA AppendFunctions ==
  ASSUME NEW D \in SUBSET Nat, NEW sz, IntFun(sz), NEW pv, IntFun(pv), NEW nx, IntFun(nx), NEW l \in D,
         NEW n \in Nat, NEW e \in Nat, l # e
  PROVE  /\ Appends(D, l, n, e, sz, pv, nx, Put(sz, e, n), Put(pv, e, l), Upd(Put(nx, e, NULL), l, e))
         /\ IntFun(Put(sz, e, n)) /\ IntFun(Put(pv, e, l)) /\ IntFun(Upd(Put(nx, e, NULL), l, e))
<1>0. l \in Int /\ n \in Int /\ e \in Int /\ NULL \in Int /\ \A x \in D \cup {e} : x \in Int /\ x # NULL
  BY DEF NULL
<1>1. PICK s1 : s1 = Put(sz, e, n) /\ IntFun(s1) /\ \A x \in Int : s1[x] = IF x = e THEN n ELSE sz[x]
  BY <1>0, PutFacts
<1>2. PICK p1 : p1 = Put(pv, e, l) /\ IntFun(p1) /\ \A x \in Int : p1[x] = IF x = e THEN l ELSE pv[x]
  BY <1>0, PutFacts
<1>3. PICK n1 : n1 = Put(nx, e, NULL) /\ IntFun(n1) /\ \A x \in Int : n1[x] = IF x = e THEN NULL ELSE nx[x]
  BY <1>0, PutFacts
<1>4. PICK n2 : n2 = Upd(n1, l, e) /\ IntFun(n2) /\ \A x \in Int : n2[x] = IF x = l /\ l # NULL THEN e ELSE n1[x]
  BY <1>0, <1>3, UpdFacts
<1>5. ASSUME NEW x \in D \cup {e}
      PROVE  /\ s1[x] = IF x = e THEN n ELSE sz[x]
             /\ n2[x] = IF x = e THEN NULL ELSE IF x = l THEN e ELSE nx[x]
             /\ p1[x] = IF x = e THEN l ELSE pv[x]
  <2>1. x \in Int /\ l # NULL
    BY <1>0
  <2>2. n2[x] = IF x = e THEN NULL ELSE IF x = l THEN e ELSE nx[x]
    BY <2>1, <1>3, <1>4
  <2> QED
    BY <2>1, <2>2, <1>1, <1>2
<1>6. Appends(D, l, n, e, sz, pv, nx, s1, p1, n2)
  BY <1>5, Zenon DEF Appends
<1> QED
  BY <1>1, <1>2, <1>3, <1>4, <1>6, Zenon

\* The new block, once its pages are mapped.
LEMMA AppendAlloc ==
  ASSUME NEW D \in SUBSET Nat, NEW fr, Flags(fr), NEW sz, IntFun(sz), NEW pv, IntFun(pv), NEW nx, IntFun(nx),
         NEW fp, IntFun(fp), NEW fn, IntFun(fn), NEW fh \in D \cup {NULL}, NEW l \in D,
         NEW e \in Nat \ D, NEW a, a = Alloc(D, fr, sz, pv, nx, fp, fn, 0, fh),
         get_last_block_header(a) = l, HeapEnd(a) = e, NEW size \in Nat, NEW n \in Nat,
         n = num_pages(size) * PageSize - HeaderSize
  PROVE  AppendBlock(a, size)
           = Alloc(D \cup {e}, Freed(fr, e), Put(sz, e, n), Put(pv, e, l), Upd(Put(nx, e, NULL), l, e),
                   Upd(Upd(Put(fp, e, NULL), e, NULL), fh, e), Upd(Put(fn, e, NULL), e, fh), 0, e)
<1>0. NULL \in Int /\ l \in Int /\ e \in Int /\ n \in Int /\ l # NULL
  BY DEF NULL
<1>1. IntFun(Put(sz, e, n)) /\ IntFun(Put(nx, e, NULL)) /\ IntFun(Put(fp, e, NULL)) /\ IntFun(Put(fn, e, NULL))
  BY <1>0, PutFacts
<1>2. WriteHeader(a, e, FreeHeader(n, l, NULL))
        = Alloc(D \cup {e}, Freed(fr, e), Put(sz, e, n), Put(pv, e, l), Put(nx, e, NULL),
                Put(fp, e, NULL), Put(fn, e, NULL), 0, fh)
  BY <1>0, NewHeader
<1>3. D \cup {e} \in SUBSET Nat /\ l \in (D \cup {e}) \cup {NULL} /\ fh \in (D \cup {e}) \cup {NULL} /\ e \in D \cup {e}
  OBVIOUS
<1>4. SetNext(WriteHeader(a, e, FreeHeader(n, l, NULL)), l, e)
        = Alloc(D \cup {e}, Freed(fr, e), Put(sz, e, n), Put(pv, e, l), Upd(Put(nx, e, NULL), l, e),
                Put(fp, e, NULL), Put(fn, e, NULL), 0, fh)
  BY <1>0, <1>1, <1>2, <1>3, PutNext
<1>5. add_block_to_free_list(SetNext(WriteHeader(a, e, FreeHeader(n, l, NULL)), l, e), e)
        = Alloc(D \cup {e}, Freed(fr, e), Put(sz, e, n), Put(pv, e, l), Upd(Put(nx, e, NULL), l, e),
                Upd(Upd(Put(fp, e, NULL), e, NULL), fh, e), Upd(Put(fn, e, NULL), e, fh), 0, e)
  BY <1>1, <1>3, <1>4, JoinFree
<1>6. AppendBlock(a, size) = add_block_to_free_list(SetNext(WriteHeader(a, e, FreeHeader(n, l, NULL)), l, e), e)
  BY <1>0, Zenon DEF AppendBlock, FreeHeader, HeaderOf
<1> QED
  BY <1>5, <1>6, Zenon

Appended(a, D, F, sz, nx, end, size, n) ==
  /\ HeapEnd(a) = end
  /\ \E l, sz2, nx2 :
       /\ AppendsTo(D, l, n, end, sz, nx, sz2, nx2)
       /\ IsHeap(AppendBlock(a, size), D \cup {end}, F \cup {end}, sz2, nx2, end + HeaderSize + n)

LEMMA HeapAppend ==
  ASSUME NEW a, NEW D, NEW F, NEW sz, NEW nx, NEW end, IsHeap(a, D, F, sz, nx, end),
         NEW size \in Nat, NEW n \in Nat \ {0}, n = num_pages(size) * PageSize - HeaderSize
  PROVE  Appended(a, D, F, sz, nx, end, size, n)
<1>1. PICK fr, pv, fp, fn, fh, rank, low :
        /\ FreeIs(F, D, fr) /\ a = Alloc(D, fr, sz, pv, nx, fp, fn, 0, fh)
        /\ Laid(D, fr, sz, pv, nx, fp, fn, fh, rank, low, end)
  BY Zenon DEF IsHeap
<1>2. /\ D \in SUBSET Nat /\ Flags(fr) /\ IntFun(sz) /\ IntFun(pv) /\ IntFun(nx) /\ IntFun(fp) /\ IntFun(fn)
      /\ fh \in Int /\ IntFun(rank) /\ low \in Int /\ end \in Nat
      /\ LinksIn(D, FreeOf(D, fr), fp, fn, fh) /\ \A x \in D : Around(x, D, sz, pv, nx, end)
  BY <1>1, LaidFacts, Zenon
<1>3. PICK l \in D : get_last_block_header(a) = l /\ nx[l] = NULL /\ HeapEnd(a) = end
  BY <1>1, LaidLast, Zenon DEF LastOf
<1>4. l # end
  <2>1. Around(l, D, sz, pv, nx, end)
    BY <1>2
  <2>2. PICK hs \in Nat : hs = HeaderSize /\ hs > 0
    BY HeapAssumption
  <2>3. PICK q \in Nat : q = sz[l] /\ l \in Nat /\ l + hs + q = end
    BY <1>3, <2>1, <2>2 DEF Around
  <2> QED
    BY <2>2, <2>3
<1> DEFINE sz2 == Put(sz, end, n)
<1> DEFINE pv2 == Put(pv, end, l)
<1> DEFINE nx2 == Upd(Put(nx, end, NULL), l, end)
<1>5. Appends(D, l, n, end, sz, pv, nx, sz2, pv2, nx2) /\ IntFun(sz2) /\ IntFun(pv2) /\ IntFun(nx2)
  BY <1>2, <1>4, AppendFunctions
<1> HIDE DEF sz2, pv2, nx2
<1>6. Tiled(D, sz, pv, nx, end)
  BY <1>1, Zenon DEF Laid, Ordered
<1>7. end \notin D /\ Tiled(D \cup {end}, sz2, pv2, nx2, end + HeaderSize + n)
  BY <1>2, <1>3, <1>5, <1>6, TiledAppend, Zenon DEF IntFun
<1>8. end + HeaderSize + n \in Nat
  BY <1>2, HeapAssumption
<1>9. /\ Laid(D \cup {end}, Taken(fr, end), sz2, pv2, nx2, Put(fp, end, NULL), Put(fn, end, NULL), fh, rank, low,
              end + HeaderSize + n)
      /\ FreeIs(FreeOf(D, fr), D \cup {end}, Taken(fr, end))
  BY <1>1, <1>2, <1>5, <1>7, <1>8, LaidGrow, Zenon
<1>10. end \in D \cup {end} /\ end \notin FreeOf(D \cup {end}, Taken(fr, end))
  BY <1>7, <1>9, FreeOfPart, Zenon DEF FreeIs
<1>11. /\ Laid(D \cup {end}, Freed(fr, end), sz2, pv2, nx2, Upd(Upd(Put(fp, end, NULL), end, NULL), fh, end),
               Upd(Put(fn, end, NULL), end, fh), end, Put(rank, end, low - 1), low - 1, end + HeaderSize + n)
       /\ FreeIs(FreeOf(D, fr) \cup {end}, D \cup {end}, Freed(fr, end))
  <2>1. end \in Int
    BY <1>2
  <2>2. Freed(Taken(fr, end), end) = Freed(fr, end)
    BY <1>2, <2>1, FreedFacts, Zenon
  <2>3. /\ Laid(D \cup {end}, Freed(Taken(fr, end), end), sz2, pv2, nx2,
                Upd(Upd(Put(fp, end, NULL), end, NULL), fh, end), Upd(Put(fn, end, NULL), end, fh), end,
                Put(rank, end, low - 1), low - 1, end + HeaderSize + n)
        /\ FreeIs(FreeOf(D \cup {end}, Taken(fr, end)) \cup {end}, D \cup {end}, Freed(Taken(fr, end), end))
    BY <1>9, <1>10, LaidAdd, Zenon
  <2>4. FreeOf(D \cup {end}, Taken(fr, end)) = FreeOf(D, fr)
    BY <1>9, Zenon DEF FreeIs
  <2> QED
    BY <2>2, <2>3, <2>4, Zenon
<1>12. AppendBlock(a, size)
         = Alloc(D \cup {end}, Freed(fr, end), sz2, pv2, nx2, Upd(Upd(Put(fp, end, NULL), end, NULL), fh, end),
                 Upd(Put(fn, end, NULL), end, fh), 0, end)
  <2>1. fh \in D \cup {NULL} /\ end \in Nat \ D
    BY <1>2, <1>7 DEF LinksIn
  <2>2. n \in Nat
    OBVIOUS
  <2> QED
    BY <1>1, <1>2, <1>3, <2>1, <2>2, AppendAlloc DEF sz2, pv2, nx2
<1>13. IsHeap(AppendBlock(a, size), D \cup {end}, F \cup {end}, sz2, nx2, end + HeaderSize + n)
  <2>1. F = FreeOf(D, fr)
    BY <1>1, Zenon DEF FreeIs
  <2>2. IsHeap(Alloc(D \cup {end}, Freed(fr, end), sz2, pv2, nx2, Upd(Upd(Put(fp, end, NULL), end, NULL), fh, end),
                     Upd(Put(fn, end, NULL), end, fh), 0, end),
               D \cup {end}, FreeOf(D, fr) \cup {end}, sz2, nx2, end + HeaderSize + n)
    BY <1>11, IsHeapFrom, Zenon
  <2> QED
    BY <2>1, <2>2, <1>12, Zenon
<1>14. AppendsTo(D, l, n, end, sz, nx, sz2, nx2)
  <2>1. \A x \in D \cup {end} : /\ sz2[x] = IF x = end THEN n ELSE sz[x]
                                /\ nx2[x] = IF x = end THEN NULL ELSE IF x = l THEN end ELSE nx[x]
    BY <1>5, Zenon DEF Appends
  <2>2. /\ \A x \in D : sz2[x] = sz[x] /\ nx2[x] = IF x = l THEN end ELSE nx[x]
        /\ sz2[end] = n /\ nx2[end] = NULL
    BY <2>1, <1>7
  <2> QED
    BY <2>2, <1>2, <1>3, <1>5, <1>7 DEF AppendsTo
<1> QED
  BY <1>3, <1>13, <1>14, Zenon DEF Appended

-----------------------------------------------------------------------------
(* Blocks are merged.                                                      *)

LEMMA SameAlloc ==
  ASSUME NEW D, NEW fr, NEW fr2, Keeps(D, fr, fr2), NEW sz, NEW pv, NEW nx, NEW fp, NEW fn, NEW bh, NEW fh
  PROVE  Alloc(D, fr2, sz, pv, nx, fp, fn, bh, fh) = Alloc(D, fr, sz, pv, nx, fp, fn, bh, fh)
<1>1. Headers(D, fr2, sz, pv, nx, fp, fn) = Headers(D, fr, sz, pv, nx, fp, fn)
  BY DEF Headers, Keeps
<1> QED
  BY <1>1, Zenon DEF Alloc

LEMMA FreedTaken ==
  ASSUME NEW D \in SUBSET Nat, NEW fr, Flags(fr), NEW b \in Nat, NEW y \in Nat, b # y
  PROVE  /\ Keeps(D \ {y}, Freed(fr, b), Freed(Taken(fr, y), b))
         /\ Keeps(D \ {y}, fr, Taken(fr, y))
<1>0. b \in Int
  OBVIOUS
<1>1. Flags(Taken(fr, y))
  BY MarkedFlags DEF Taken
<1>2. Keeps(D \ {y}, fr, Taken(fr, y)) /\ Keeps(D \ {b}, fr, Freed(fr, b))
  BY FreedKeeps
<1>3. Keeps(D \ {b}, Taken(fr, y), Freed(Taken(fr, y), b))
  BY <1>1, FreedKeeps, Zenon
<1>4. Freed(fr, b)[b] = TRUE
  BY <1>0, FreedFacts, Zenon
<1>5. Freed(Taken(fr, y), b)[b] = TRUE
  BY <1>0, <1>1, FreedFacts, Zenon
<1> QED
  BY <1>2, <1>3, <1>4, <1>5, Zenon DEF Keeps

\* The four cases of Merge.
MergePrev(a, b, p, z, s) ==
  DropHeader(remove_block_from_block_list(SetSize(SetNext(a, p, z), p, s), b), b)

MergeNext(a, b, n, z, s) ==
  LET a3 == remove_block_from_free_list(remove_block_from_block_list(SetSize(SetNext(a, b, z), b, s), n), n)
  IN  DropHeader(add_block_to_free_list(ToFree(a3, b), b), n)

MergeBoth(a, b, p, n, z, s) ==
  LET a3 == remove_block_from_block_list(remove_block_from_free_list(SetSize(SetNext(a, p, z), p, s), n), n)
  IN  DropHeader(DropHeader(remove_block_from_block_list(a3, b), n), b)

LEMMA MergeCases ==
  ASSUME NEW a, NEW b, NEW p, NEW n
  PROVE  LET pf == p # NULL /\ a.headers[p].isFree
             nf == n # NULL /\ a.headers[n].isFree
         IN  /\ pf /\ nf => Merge(a, b, p, n) = MergeBoth(a, b, p, n, a.headers[n].next,
                              a.headers[p].size + 2 * HeaderSize + a.headers[b].size + a.headers[n].size)
             /\ pf /\ ~nf => Merge(a, b, p, n) = MergePrev(a, b, p, a.headers[b].next,
                               a.headers[p].size + HeaderSize + a.headers[b].size)
             /\ ~pf /\ nf => Merge(a, b, p, n) = MergeNext(a, b, n, a.headers[n].next,
                               a.headers[b].size + HeaderSize + a.headers[n].size)
             /\ ~pf /\ ~nf => Merge(a, b, p, n) = add_block_to_free_list(ToFree(a, b), b)
<1> DEFINE pf == p # NULL /\ a.headers[p].isFree
<1> DEFINE nf == n # NULL /\ a.headers[n].isFree
<1>1. CASE pf /\ nf
  BY <1>1, Zenon DEF Merge, MergeBoth
<1>2. CASE pf /\ ~nf
  BY <1>2, Zenon DEF Merge, MergePrev
<1>3. CASE ~pf /\ nf
  BY <1>3, Zenon DEF Merge, MergeNext, ToFree
<1>4. CASE ~pf /\ ~nf
  BY <1>4, Zenon DEF Merge, ToFree
<1> QED
  BY <1>1, <1>2, <1>3, <1>4, Zenon

LEMMA MergeFunctions ==
  ASSUME NEW D \in SUBSET Nat, NEW sz, IntFun(sz), NEW pv, IntFun(pv), NEW nx, IntFun(nx), NEW b \in D,
         NEW y \in D, b # y, NEW z \in Int, z = nx[y], z # b, z # y, NEW s \in Int, s = sz[b] + HeaderSize + sz[y]
  PROVE  /\ Merges(D, b, y, sz, pv, nx, Put(sz, b, s), Upd(Upd(pv, z, b), y, NULL),
                   Upd(Upd(Upd(nx, b, z), b, z), y, NULL))
         /\ IntFun(Put(sz, b, s)) /\ IntFun(Upd(Upd(pv, z, b), y, NULL))
         /\ IntFun(Upd(Upd(Upd(nx, b, z), b, z), y, NULL)) /\ IntFun(Upd(nx, b, z))
<1>0. b \in Int /\ y \in Int /\ NULL \in Int /\ \A x \in D : x \in Int /\ x # NULL
  BY DEF NULL
<1>1. PICK s1 : s1 = Put(sz, b, s) /\ IntFun(s1) /\ \A x \in Int : s1[x] = IF x = b THEN s ELSE sz[x]
  BY <1>0, PutFacts
<1>2. PICK p1 : p1 = Upd(pv, z, b) /\ IntFun(p1) /\ \A x \in Int : p1[x] = IF x = z /\ z # NULL THEN b ELSE pv[x]
  BY <1>0, UpdFacts
<1>3. PICK p2 : p2 = Upd(p1, y, NULL) /\ IntFun(p2) /\ \A x \in Int : p2[x] = IF x = y /\ y # NULL THEN NULL ELSE p1[x]
  BY <1>0, <1>2, UpdFacts
<1>4. PICK n1 : n1 = Upd(nx, b, z) /\ IntFun(n1) /\ \A x \in Int : n1[x] = IF x = b /\ b # NULL THEN z ELSE nx[x]
  BY <1>0, UpdFacts
<1>5. PICK n2 : n2 = Upd(n1, b, z) /\ IntFun(n2) /\ \A x \in Int : n2[x] = IF x = b /\ b # NULL THEN z ELSE n1[x]
  BY <1>0, <1>4, UpdFacts
<1>6. PICK n3 : n3 = Upd(n2, y, NULL) /\ IntFun(n3) /\ \A x \in Int : n3[x] = IF x = y /\ y # NULL THEN NULL ELSE n2[x]
  BY <1>0, <1>5, UpdFacts
<1>7. ASSUME NEW x \in D \ {y}
      PROVE  /\ s1[x] = IF x = b THEN sz[b] + HeaderSize + sz[y] ELSE sz[x]
             /\ n3[x] = IF x = b THEN nx[y] ELSE nx[x]
             /\ p2[x] = IF x = nx[y] THEN b ELSE pv[x]
  <2>1. x \in Int /\ x # NULL /\ x # y /\ b # NULL
    BY <1>0
  <2>2. n3[x] = IF x = b THEN nx[y] ELSE nx[x]
    BY <2>1, <1>4, <1>5, <1>6
  <2>3. p2[x] = IF x = nx[y] THEN b ELSE pv[x]
    BY <2>1, <1>2, <1>3
  <2>4. s1[x] = IF x = b THEN sz[b] + HeaderSize + sz[y] ELSE sz[x]
    BY <2>1, <1>1
  <2> QED
    BY <2>2, <2>3, <2>4
<1>8. Merges(D, b, y, sz, pv, nx, s1, p2, n3)
  BY <1>7, Zenon DEF Merges
<1> QED
  BY <1>1, <1>2, <1>3, <1>4, <1>5, <1>6, <1>8, Zenon

\* Block b is made to reach to the end of y, and y leaves the block list.
LEMMA AbsorbAlloc ==
  ASSUME NEW D \in SUBSET Nat, NEW fr, NEW sz, IntFun(sz), NEW pv, IntFun(pv), NEW nx, IntFun(nx),
         NEW fp, NEW fn, NEW fh, NEW b \in D, NEW y \in D, b # y, pv[y] = b,
         NEW z \in D \cup {NULL}, z = nx[y], NEW s \in Int
  PROVE  remove_block_from_block_list(SetSize(SetNext(Alloc(D, fr, sz, pv, nx, fp, fn, 0, fh), b, z), b, s), y)
           = Alloc(D, fr, Put(sz, b, s), Upd(Upd(pv, z, b), y, NULL),
                   Upd(Upd(Upd(nx, b, z), b, z), y, NULL), fp, fn, 0, fh)
<1>0. b \in Int /\ y \in Int /\ z \in Int /\ NULL \in Int /\ b \in D \cup {NULL} /\ b # NULL
  BY DEF NULL
<1>1. PICK n1 : n1 = Upd(nx, b, z) /\ IntFun(n1) /\ \A x \in Int : n1[x] = IF x = b /\ b # NULL THEN z ELSE nx[x]
  BY <1>0, UpdFacts
<1>2. n1[y] = z
  BY <1>0, <1>1
<1>3. SetNext(Alloc(D, fr, sz, pv, nx, fp, fn, 0, fh), b, z) = Alloc(D, fr, sz, pv, n1, fp, fn, 0, fh)
  BY <1>0, <1>1, PutNext
<1>4. SetSize(Alloc(D, fr, sz, pv, n1, fp, fn, 0, fh), b, s) = Alloc(D, fr, Put(sz, b, s), pv, n1, fp, fn, 0, fh)
  BY PutSize
<1>5. remove_block_from_block_list(Alloc(D, fr, Put(sz, b, s), pv, n1, fp, fn, 0, fh), y)
        = Alloc(D, fr, Put(sz, b, s), Upd(Upd(pv, z, b), y, NULL), Upd(Upd(n1, b, z), y, NULL), fp, fn, 0, fh)
  BY <1>1, <1>2, LeaveBlocks
<1> QED
  BY <1>1, <1>3, <1>4, <1>5, Zenon

\* What becomes of the sizes and of the block list.
Absorbs(D, b, y, sz, nx, sz2, nx2) ==
  /\ IntFun(sz2) /\ IntFun(nx2)
  /\ \A x \in D \ {y} : /\ sz2[x] = IF x = b THEN sz[b] + HeaderSize + sz[y] ELSE sz[x]
                        /\ nx2[x] = IF x = b THEN nx[y] ELSE nx[x]

\* The neighbours of a block and of the block behind it.
Nearby(D, sz, pv, nx, b, y) ==
  /\ pv[y] = b /\ b # y /\ nx[y] \in D \cup {NULL} /\ nx[y] \in Int /\ nx[y] # b /\ nx[y] # y
  /\ b \in Nat /\ y \in Nat /\ b # NULL /\ y # NULL /\ sz[b] \in Nat /\ sz[y] \in Nat
  /\ sz[b] + HeaderSize + sz[y] \in Int /\ nx[b] = y

LEMMA Neighbours ==
  ASSUME NEW D, NEW sz, NEW pv, NEW nx, NEW end, NEW b \in D, NEW y \in D, y = nx[b],
         Around(b, D, sz, pv, nx, end), Around(y, D, sz, pv, nx, end)
  PROVE  Nearby(D, sz, pv, nx, b, y)
<1>1. Around(b, D, sz, pv, nx, end) /\ Around(y, D, sz, pv, nx, end) /\ HeaderSize \in Nat
  BY HeapAssumption
<1>2. y # NULL /\ b < y /\ pv[y] = b /\ b \in Nat /\ y \in Nat /\ b # NULL
  BY <1>1 DEF Around
<1>3. nx[y] \in D \cup {NULL} /\ nx[y] \in Int /\ nx[y] # y
  BY <1>1 DEF Around
<1>4. nx[y] # b
  <2>1. nx[y] # NULL => y < nx[y]
    BY <1>1 DEF Around
  <2>2. b # NULL
    BY <1>1 DEF Around
  <2> QED
    BY <2>1, <2>2, <1>2, <1>3
<1>5. sz[b] \in Nat /\ sz[y] \in Nat
  BY <1>1 DEF Around
<1> QED
  BY <1>1, <1>2, <1>3, <1>4, <1>5 DEF Nearby

\* The block is merged into the one before it.
LEMMA HeapMergePrev ==
  ASSUME NEW a, NEW D, NEW F, NEW sz, NEW nx, NEW end, IsHeap(a, D, F, sz, nx, end),
         NEW p \in D, NEW b \in D, b \notin F, b = nx[p]
  PROVE  \E sz2, nx2 : /\ Absorbs(D, p, b, sz, nx, sz2, nx2)
                       /\ IsHeap(MergePrev(a, b, p, nx[b], sz[p] + HeaderSize + sz[b]), D \ {b}, F, sz2, nx2, end)
<1>1. PICK fr, pv, fp, fn, fh, rank, low :
        /\ FreeIs(F, D, fr) /\ a = Alloc(D, fr, sz, pv, nx, fp, fn, 0, fh)
        /\ Laid(D, fr, sz, pv, nx, fp, fn, fh, rank, low, end)
  BY Zenon DEF IsHeap
<1>2. /\ D \in SUBSET Nat /\ Flags(fr) /\ IntFun(sz) /\ IntFun(pv) /\ IntFun(nx) /\ IntFun(fp) /\ IntFun(fn)
      /\ fh \in Int /\ IntFun(rank) /\ low \in Int /\ end \in Nat
      /\ LinksIn(D, FreeOf(D, fr), fp, fn, fh) /\ \A x \in D : Around(x, D, sz, pv, nx, end)
  BY <1>1, LaidFacts, Zenon
<1>3. /\ pv[b] = p /\ p # b /\ nx[b] \in D \cup {NULL} /\ nx[b] \in Int /\ nx[b] # p /\ nx[b] # b
      /\ sz[p] + HeaderSize + sz[b] \in Int
  <2>1. Around(p, D, sz, pv, nx, end) /\ Around(b, D, sz, pv, nx, end)
    BY <1>2, Zenon
  <2>2. Nearby(D, sz, pv, nx, p, b)
    BY <2>1, Neighbours, Zenon
  <2> QED
    BY <2>2, Zenon DEF Nearby
<1>4. PICK z : z = nx[b] /\ z \in D \cup {NULL} /\ z \in Int /\ z # p /\ z # b
  BY <1>3, Zenon
<1>5. PICK s : s = sz[p] + HeaderSize + sz[b] /\ s \in Int
  BY <1>3, Zenon
<1> DEFINE sz2 == Put(sz, p, s)
<1> DEFINE pv2 == Upd(Upd(pv, z, p), b, NULL)
<1> DEFINE nx2 == Upd(Upd(Upd(nx, p, z), p, z), b, NULL)
<1>6. Merges(D, p, b, sz, pv, nx, sz2, pv2, nx2) /\ IntFun(sz2) /\ IntFun(pv2) /\ IntFun(nx2)
  BY <1>2, <1>3, <1>4, <1>5, MergeFunctions
<1>7. remove_block_from_block_list(SetSize(SetNext(a, p, z), p, s), b)
        = Alloc(D, fr, sz2, pv2, nx2, fp, fn, 0, fh)
  BY <1>1, <1>2, <1>3, <1>4, <1>5, AbsorbAlloc
<1> HIDE DEF sz2, pv2, nx2
<1>8. MergePrev(a, b, p, z, s) = Alloc(D \ {b}, fr, sz2, pv2, nx2, fp, fn, 0, fh)
  BY <1>7, DropHeaderAlloc DEF MergePrev
<1>9. F = FreeOf(D, fr)
  BY <1>1, Zenon DEF FreeIs
<1>10. /\ Laid(D \ {b}, fr, sz2, pv2, nx2, fp, fn, fh, rank, low, end)
       /\ FreeIs(F, D \ {b}, fr)
  BY <1>1, <1>6, <1>9, LaidMerge, Zenon
<1>11. IsHeap(MergePrev(a, b, p, z, s), D \ {b}, F, sz2, nx2, end)
  <2>1. IsHeap(Alloc(D \ {b}, fr, sz2, pv2, nx2, fp, fn, 0, fh), D \ {b}, F, sz2, nx2, end)
    BY <1>10, IsHeapFrom, Zenon
  <2> QED
    BY <2>1, <1>8, Zenon
<1>12. Absorbs(D, p, b, sz, nx, sz2, nx2)
  BY <1>6, Zenon DEF Merges, Absorbs
<1> QED
  BY <1>4, <1>5, <1>11, <1>12, Zenon


\* The block behind is merged into the block.
LEMMA HeapMergeNext ==
  ASSUME NEW a, NEW D, NEW F, NEW sz, NEW nx, NEW end, IsHeap(a, D, F, sz, nx, end),
         NEW b \in D, b \notin F, NEW y \in F, y = nx[b]
  PROVE  \E sz2, nx2 : /\ Absorbs(D, b, y, sz, nx, sz2, nx2)
                       /\ IsHeap(MergeNext(a, b, y, nx[y], sz[b] + HeaderSize + sz[y]), D \ {y}, (F \ {y}) \cup {b},
                                 sz2, nx2, end)
<1>1. PICK fr, pv, fp, fn, fh, rank, low :
        /\ FreeIs(F, D, fr) /\ a = Alloc(D, fr, sz, pv, nx, fp, fn, 0, fh)
        /\ Laid(D, fr, sz, pv, nx, fp, fn, fh, rank, low, end)
  BY Zenon DEF IsHeap
<1>2. /\ D \in SUBSET Nat /\ Flags(fr) /\ IntFun(sz) /\ IntFun(pv) /\ IntFun(nx) /\ IntFun(fp) /\ IntFun(fn)
      /\ fh \in Int /\ IntFun(rank) /\ low \in Int /\ end \in Nat
      /\ LinksIn(D, FreeOf(D, fr), fp, fn, fh) /\ \A x \in D : Around(x, D, sz, pv, nx, end)
  BY <1>1, LaidFacts, Zenon
<1>3. F = FreeOf(D, fr) /\ y \in D /\ F \subseteq D
  BY <1>1, FreeOfPart, Zenon DEF FreeIs
<1>4. /\ pv[y] = b /\ b # y /\ nx[y] \in D \cup {NULL} /\ nx[y] \in Int /\ nx[y] # b /\ nx[y] # y
      /\ sz[b] + HeaderSize + sz[y] \in Int /\ b \in Nat /\ y \in Nat
  <2>1. Around(b, D, sz, pv, nx, end) /\ Around(y, D, sz, pv, nx, end)
    BY <1>2, <1>3, Zenon
  <2>2. Nearby(D, sz, pv, nx, b, y)
    BY <1>3, <2>1, Neighbours, Zenon
  <2> QED
    BY <2>2, Zenon DEF Nearby
<1>5. PICK z : z = nx[y] /\ z \in D \cup {NULL} /\ z \in Int /\ z # b /\ z # y
  BY <1>4, Zenon
<1>6. PICK s : s = sz[b] + HeaderSize + sz[y] /\ s \in Int
  BY <1>4, Zenon
<1> DEFINE sz2 == Put(sz, b, s)
<1> DEFINE pv2 == Upd(Upd(pv, z, b), y, NULL)
<1> DEFINE nx2 == Upd(Upd(Upd(nx, b, z), b, z), y, NULL)
<1>7. Merges(D, b, y, sz, pv, nx, sz2, pv2, nx2) /\ IntFun(sz2) /\ IntFun(pv2) /\ IntFun(nx2)
  <2>1. /\ D \in SUBSET Nat /\ IntFun(sz) /\ IntFun(pv) /\ IntFun(nx) /\ y \in D /\ b \in D /\ b # y /\ z \in Int
        /\ z = nx[y] /\ z # b /\ z # y /\ s \in Int /\ s = sz[b] + HeaderSize + sz[y]
    BY <1>2, <1>3, <1>4, <1>5, <1>6, Zenon
  <2> QED
    BY ONLY <2>1, MergeFunctions
<1>8. remove_block_from_block_list(SetSize(SetNext(a, b, z), b, s), y)
        = Alloc(D, fr, sz2, pv2, nx2, fp, fn, 0, fh)
  BY <1>1, <1>2, <1>3, <1>4, <1>5, <1>6, AbsorbAlloc
<1> HIDE DEF sz2, pv2, nx2
<1>9. PICK fp1, fn1, fh1 :
        /\ fp1 = Upd(Upd(fp, fn[y], fp[y]), y, NULL) /\ fn1 = Upd(Upd(fn, fp[y], fn[y]), y, NULL)
        /\ fh1 = IF fp[y] = NULL THEN fn[y] ELSE fh
  BY Zenon
<1>10. remove_block_from_free_list(Alloc(D, fr, sz2, pv2, nx2, fp, fn, 0, fh), y)
         = Alloc(D, fr, sz2, pv2, nx2, fp1, fn1, 0, fh1)
  <2>1. fp[y] \in D \cup {NULL} /\ fn[y] \in D \cup {NULL}
    BY <1>2, <1>3, Zenon DEF LinksIn
  <2> QED
    BY <1>2, <1>3, <1>9, <2>1, LeaveFree
<1>11. /\ Laid(D, Taken(fr, y), sz, pv, nx, fp1, fn1, fh1, rank, low, end)
       /\ FreeIs(F \ {y}, D, Taken(fr, y))
  BY <1>1, <1>3, <1>9, LaidRemove, Zenon
<1>12. y \notin FreeOf(D, Taken(fr, y))
  BY <1>11, Zenon DEF FreeIs
<1>13. /\ b \in D \ {y} /\ Laid(D \ {y}, Taken(fr, y), sz2, pv2, nx2, fp1, fn1, fh1, rank, low, end)
       /\ FreeIs(FreeOf(D, Taken(fr, y)), D \ {y}, Taken(fr, y))
  BY <1>3, <1>7, <1>11, <1>12, LaidMerge, Zenon
<1>14. FreeOf(D \ {y}, Taken(fr, y)) = F \ {y}
  BY <1>11, <1>13, Zenon DEF FreeIs
<1>15. b \notin FreeOf(D \ {y}, Taken(fr, y))
  BY <1>14, Zenon
<1>16. PICK fp2, fn2 : fp2 = Upd(Upd(fp1, b, NULL), fh1, b) /\ fn2 = Upd(fn1, b, fh1)
  BY Zenon
<1>17. /\ Laid(D \ {y}, Freed(Taken(fr, y), b), sz2, pv2, nx2, fp2, fn2, b, Put(rank, b, low - 1), low - 1, end)
       /\ FreeIs(FreeOf(D \ {y}, Taken(fr, y)) \cup {b}, D \ {y}, Freed(Taken(fr, y), b))
  BY <1>13, <1>15, <1>16, LaidAdd, Zenon
<1>18. IsHeap(Alloc(D \ {y}, Freed(Taken(fr, y), b), sz2, pv2, nx2, fp2, fn2, 0, b), D \ {y}, (F \ {y}) \cup {b},
              sz2, nx2, end)
  <2>1. FreeIs((F \ {y}) \cup {b}, D \ {y}, Freed(Taken(fr, y), b))
    BY <1>14, <1>17, Zenon
  <2> QED
    BY <2>1, <1>17, IsHeapFrom, Zenon
<1>19. Alloc(D \ {y}, Freed(Taken(fr, y), b), sz2, pv2, nx2, fp2, fn2, 0, b)
         = Alloc(D \ {y}, Freed(fr, b), sz2, pv2, nx2, fp2, fn2, 0, b)
  <2>1. Keeps(D \ {y}, Freed(fr, b), Freed(Taken(fr, y), b))
    BY <1>2, <1>4, FreedTaken, Zenon
  <2> QED
    BY <2>1, SameAlloc
<1>20. ToFree(Alloc(D, fr, sz2, pv2, nx2, fp1, fn1, 0, fh1), b)
         = Alloc(D, Freed(fr, b), sz2, pv2, nx2, fp1, fn1, 0, fh1)
  BY <1>2, MarkFreed
<1>21. add_block_to_free_list(Alloc(D, Freed(fr, b), sz2, pv2, nx2, fp1, fn1, 0, fh1), b)
         = Alloc(D, Freed(fr, b), sz2, pv2, nx2, fp2, fn2, 0, b)
  <2>1. IntFun(fp1) /\ IntFun(fn1) /\ LinksIn(D, FreeOf(D, Taken(fr, y)), fp1, fn1, fh1)
    BY <1>11, LaidFacts, Zenon
  <2>2. fh1 \in D \cup {NULL}
    BY <2>1, Zenon DEF LinksIn
  <2> QED
    BY <1>2, <1>16, <2>1, <2>2, JoinFree
<1>22. MergeNext(a, b, y, z, s) = DropHeader(Alloc(D, Freed(fr, b), sz2, pv2, nx2, fp2, fn2, 0, b), y)
  BY <1>8, <1>10, <1>20, <1>21, Zenon DEF MergeNext
<1>23. MergeNext(a, b, y, z, s) = Alloc(D \ {y}, Freed(fr, b), sz2, pv2, nx2, fp2, fn2, 0, b)
  BY <1>22, DropHeaderAlloc
<1>24. IsHeap(MergeNext(a, b, y, z, s), D \ {y}, (F \ {y}) \cup {b}, sz2, nx2, end)
  BY <1>18, <1>19, <1>23, Zenon
<1>25. Absorbs(D, b, y, sz, nx, sz2, nx2)
  BY <1>7, Zenon DEF Merges, Absorbs
<1> QED
  BY <1>5, <1>6, <1>24, <1>25, Zenon

\* Three blocks become one.
Row(D, sz, pv, nx, p, b, y, z, s) ==
  /\ D \in SUBSET Nat /\ IntFun(sz) /\ IntFun(pv) /\ IntFun(nx) /\ p \in D /\ b \in D /\ y \in D
  /\ p # b /\ p # y /\ b # y /\ pv[b] = p /\ pv[y] = b
  /\ z \in D \cup {NULL} /\ z \in Int /\ z = nx[y] /\ z # p /\ z # b /\ z # y
  /\ sz[p] \in Nat /\ sz[b] \in Nat /\ sz[y] \in Nat /\ s \in Int /\ s = sz[p] + 2 * HeaderSize + sz[b] + sz[y]

LEMMA BothFunctions ==
  ASSUME NEW D, NEW sz, NEW pv, NEW nx, NEW p, NEW b, NEW y, NEW z, NEW s, Row(D, sz, pv, nx, p, b, y, z, s),
         NEW szm, NEW pvm, NEW nxm, Merges(D, b, y, sz, pv, nx, szm, pvm, nxm)
  PROVE  /\ Merges(D \ {y}, p, b, szm, pvm, nxm, Put(sz, p, s),
                   Upd(Upd(Upd(Upd(pv, z, b), y, NULL), z, p), b, NULL),
                   Upd(Upd(Upd(Upd(Upd(nx, p, z), b, z), y, NULL), p, z), b, NULL))
         /\ IntFun(Put(sz, p, s)) /\ IntFun(Upd(Upd(Upd(Upd(pv, z, b), y, NULL), z, p), b, NULL))
         /\ IntFun(Upd(Upd(Upd(Upd(Upd(nx, p, z), b, z), y, NULL), p, z), b, NULL))
<1> USE DEF Row
<1>0. p \in Int /\ b \in Int /\ y \in Int /\ NULL \in Int /\ \A x \in D : x \in Int /\ x # NULL
  BY DEF NULL
<1>1. PICK s1 : s1 = Put(sz, p, s) /\ IntFun(s1) /\ \A x \in Int : s1[x] = IF x = p THEN s ELSE sz[x]
  BY <1>0, PutFacts
<1>2. PICK p1 : p1 = Upd(pv, z, b) /\ IntFun(p1) /\ \A x \in Int : p1[x] = IF x = z /\ z # NULL THEN b ELSE pv[x]
  BY <1>0, UpdFacts
<1>3. PICK p2 : p2 = Upd(p1, y, NULL) /\ IntFun(p2) /\ \A x \in Int : p2[x] = IF x = y /\ y # NULL THEN NULL ELSE p1[x]
  BY <1>0, <1>2, UpdFacts
<1>4. PICK p3 : p3 = Upd(p2, z, p) /\ IntFun(p3) /\ \A x \in Int : p3[x] = IF x = z /\ z # NULL THEN p ELSE p2[x]
  BY <1>0, <1>3, UpdFacts
<1>5. PICK p4 : p4 = Upd(p3, b, NULL) /\ IntFun(p4) /\ \A x \in Int : p4[x] = IF x = b /\ b # NULL THEN NULL ELSE p3[x]
  BY <1>0, <1>4, UpdFacts
<1>6. PICK n1 : n1 = Upd(nx, p, z) /\ IntFun(n1) /\ \A x \in Int : n1[x] = IF x = p /\ p # NULL THEN z ELSE nx[x]
  BY <1>0, UpdFacts
<1>7. PICK n2 : n2 = Upd(n1, b, z) /\ IntFun(n2) /\ \A x \in Int : n2[x] = IF x = b /\ b # NULL THEN z ELSE n1[x]
  BY <1>0, <1>6, UpdFacts
<1>8. PICK n3 : n3 = Upd(n2, y, NULL) /\ IntFun(n3) /\ \A x \in Int : n3[x] = IF x = y /\ y # NULL THEN NULL ELSE n2[x]
  BY <1>0, <1>7, UpdFacts
<1>9. PICK n4 : n4 = Upd(n3, p, z) /\ IntFun(n4) /\ \A x \in Int : n4[x] = IF x = p /\ p # NULL THEN z ELSE n3[x]
  BY <1>0, <1>8, UpdFacts
<1>10. PICK n5 : n5 = Upd(n4, b, NULL) /\ IntFun(n5) /\ \A x \in Int : n5[x] = IF x = b /\ b # NULL THEN NULL ELSE n4[x]
  BY <1>0, <1>9, UpdFacts
<1>11. \A x \in D \ {y} : /\ szm[x] = IF x = b THEN sz[b] + HeaderSize + sz[y] ELSE sz[x]
                          /\ nxm[x] = IF x = b THEN nx[y] ELSE nx[x]
                          /\ pvm[x] = IF x = nx[y] THEN b ELSE pv[x]
  BY Zenon DEF Merges
<1>12. szm[b] = sz[b] + HeaderSize + sz[y] /\ nxm[b] = z /\ szm[p] = sz[p]
  BY <1>11
<1>13. s = szm[p] + HeaderSize + szm[b]
  <2>1. PICK i, j, k, h \in Nat : i = sz[p] /\ j = sz[b] /\ k = sz[y] /\ h = HeaderSize
    BY HeapAssumption
  <2>2. szm[p] = i /\ szm[b] = j + h + k
    BY <1>12, <2>1
  <2>3. i + 2 * h + j + k = i + h + (j + h + k)
    OBVIOUS
  <2> QED
    BY <2>1, <2>2, <2>3
<1>14. ASSUME NEW x \in (D \ {y}) \ {b}
       PROVE  /\ s1[x] = IF x = p THEN szm[p] + HeaderSize + szm[b] ELSE szm[x]
              /\ n5[x] = IF x = p THEN nxm[b] ELSE nxm[x]
              /\ p4[x] = IF x = nxm[b] THEN p ELSE pvm[x]
  <2>1. x \in Int /\ x # NULL /\ x # y /\ x # b /\ x \in D \ {y}
    BY <1>0
  <2>2. szm[x] = sz[x] /\ nxm[x] = nx[x] /\ pvm[x] = IF x = z THEN b ELSE pv[x]
    BY <2>1, <1>11
  <2>3. s1[x] = IF x = p THEN szm[p] + HeaderSize + szm[b] ELSE szm[x]
    BY <2>1, <2>2, <1>1, <1>13
  <2>4. n5[x] = IF x = p THEN nxm[b] ELSE nxm[x]
    <3>1. n5[x] = n4[x] /\ n3[x] = n2[x] /\ n2[x] = n1[x]
      BY <2>1, <1>7, <1>8, <1>10
    <3>2. p # NULL
      BY <1>0
    <3> QED
      BY <2>1, <2>2, <3>1, <3>2, <1>6, <1>9, <1>12
  <2>5. p4[x] = IF x = nxm[b] THEN p ELSE pvm[x]
    <3>1. p4[x] = p3[x] /\ p2[x] = p1[x]
      BY <2>1, <1>3, <1>5
    <3> QED
      BY <2>1, <2>2, <3>1, <1>2, <1>4, <1>12
  <2> QED
    BY <2>3, <2>4, <2>5
<1>15. Merges(D \ {y}, p, b, szm, pvm, nxm, s1, p4, n5)
  BY <1>14, Zenon DEF Merges
<1> QED
  BY <1>1, <1>2, <1>3, <1>4, <1>5, <1>6, <1>7, <1>8, <1>9, <1>10, <1>15, Zenon

BothIs(a, D, fr, sz, pv, nx, fp, fn, fh, p, b, y, z, s) ==
  a = Alloc((D \ {y}) \ {b}, fr, Put(sz, p, s), Upd(Upd(Upd(Upd(pv, z, b), y, NULL), z, p), b, NULL),
            Upd(Upd(Upd(Upd(Upd(nx, p, z), b, z), y, NULL), p, z), b, NULL),
            Upd(Upd(fp, fn[y], fp[y]), y, NULL), Upd(Upd(fn, fp[y], fn[y]), y, NULL), 0,
            IF fp[y] = NULL THEN fn[y] ELSE fh)

LEMMA BothAlloc ==
  ASSUME NEW D, NEW fr, NEW sz, NEW pv, NEW nx, NEW fp, IntFun(fp), NEW fn, IntFun(fn), NEW fh,
         NEW p, NEW b, NEW y, NEW z, NEW s, Row(D, sz, pv, nx, p, b, y, z, s),
         fp[y] \in D \cup {NULL}, fn[y] \in D \cup {NULL}
  PROVE  BothIs(MergeBoth(Alloc(D, fr, sz, pv, nx, fp, fn, 0, fh), b, p, y, z, s),
                D, fr, sz, pv, nx, fp, fn, fh, p, b, y, z, s)
<1> USE DEF Row
<1>0. p \in Int /\ b \in Int /\ y \in Int /\ z \in Int /\ NULL \in Int /\ p \in D \cup {NULL} /\ p # NULL
      /\ b # NULL /\ y # NULL
  BY DEF NULL
<1>1. PICK n1 : n1 = Upd(nx, p, z) /\ IntFun(n1) /\ \A x \in Int : n1[x] = IF x = p /\ p # NULL THEN z ELSE nx[x]
  BY <1>0, UpdFacts
<1>2. PICK s1 : s1 = Put(sz, p, s)
  OBVIOUS
<1>3. PICK fp1, fn1, fh1 :
        /\ fp1 = Upd(Upd(fp, fn[y], fp[y]), y, NULL) /\ fn1 = Upd(Upd(fn, fp[y], fn[y]), y, NULL)
        /\ fh1 = IF fp[y] = NULL THEN fn[y] ELSE fh
  BY Zenon
<1> DEFINE a == Alloc(D, fr, sz, pv, nx, fp, fn, 0, fh)
<1>4. SetNext(a, p, z) = Alloc(D, fr, sz, pv, n1, fp, fn, 0, fh)
  BY <1>0, <1>1, PutNext
<1>5. SetSize(Alloc(D, fr, sz, pv, n1, fp, fn, 0, fh), p, s) = Alloc(D, fr, s1, pv, n1, fp, fn, 0, fh)
  BY <1>2, PutSize
<1>6. remove_block_from_free_list(Alloc(D, fr, s1, pv, n1, fp, fn, 0, fh), y)
        = Alloc(D, fr, s1, pv, n1, fp1, fn1, 0, fh1)
  BY <1>3, LeaveFree
<1>7. n1[y] = z
  BY <1>0, <1>1
<1>8. PICK p2 : p2 = Upd(Upd(pv, z, b), y, NULL) /\ IntFun(p2) /\ p2[b] = p
  <2>1. PICK p1 : p1 = Upd(pv, z, b) /\ IntFun(p1) /\ \A x \in Int : p1[x] = IF x = z /\ z # NULL THEN b ELSE pv[x]
    BY <1>0, UpdFacts
  <2>2. PICK p2 : p2 = Upd(p1, y, NULL) /\ IntFun(p2) /\ \A x \in Int : p2[x] = IF x = y /\ y # NULL THEN NULL ELSE p1[x]
    BY <1>0, <2>1, UpdFacts
  <2>3. p2[b] = p
    BY <1>0, <2>1, <2>2
  <2> QED
    BY <2>1, <2>2, <2>3, Zenon
<1>9. PICK n3 : n3 = Upd(Upd(n1, b, z), y, NULL) /\ IntFun(n3) /\ n3[b] = z
  <2>1. PICK n2 : n2 = Upd(n1, b, z) /\ IntFun(n2) /\ \A x \in Int : n2[x] = IF x = b /\ b # NULL THEN z ELSE n1[x]
    BY <1>0, <1>1, UpdFacts
  <2>2. PICK n3 : n3 = Upd(n2, y, NULL) /\ IntFun(n3) /\ \A x \in Int : n3[x] = IF x = y /\ y # NULL THEN NULL ELSE n2[x]
    BY <1>0, <2>1, UpdFacts
  <2>3. n3[b] = z
    BY <1>0, <2>1, <2>2
  <2> QED
    BY <2>1, <2>2, <2>3, Zenon
<1>10. remove_block_from_block_list(Alloc(D, fr, s1, pv, n1, fp1, fn1, 0, fh1), y)
         = Alloc(D, fr, s1, p2, n3, fp1, fn1, 0, fh1)
  BY <1>1, <1>7, <1>8, <1>9, LeaveBlocks
<1>11. remove_block_from_block_list(Alloc(D, fr, s1, p2, n3, fp1, fn1, 0, fh1), b)
         = Alloc(D, fr, s1, Upd(Upd(p2, z, p), b, NULL), Upd(Upd(n3, p, z), b, NULL), fp1, fn1, 0, fh1)
  BY <1>8, <1>9, LeaveBlocks
<1> HIDE DEF a
<1>12. MergeBoth(a, b, p, y, z, s)
         = DropHeader(DropHeader(Alloc(D, fr, s1, Upd(Upd(p2, z, p), b, NULL), Upd(Upd(n3, p, z), b, NULL),
                                       fp1, fn1, 0, fh1), y), b)
  BY <1>4, <1>5, <1>6, <1>10, <1>11, Zenon DEF MergeBoth
<1>13. MergeBoth(a, b, p, y, z, s)
         = Alloc((D \ {y}) \ {b}, fr, s1, Upd(Upd(p2, z, p), b, NULL), Upd(Upd(n3, p, z), b, NULL), fp1, fn1, 0, fh1)
  <2>1. DropHeader(Alloc(D, fr, s1, Upd(Upd(p2, z, p), b, NULL), Upd(Upd(n3, p, z), b, NULL), fp1, fn1, 0, fh1), y)
          = Alloc(D \ {y}, fr, s1, Upd(Upd(p2, z, p), b, NULL), Upd(Upd(n3, p, z), b, NULL), fp1, fn1, 0, fh1)
    BY ONLY DropHeaderAlloc
  <2>2. DropHeader(Alloc(D \ {y}, fr, s1, Upd(Upd(p2, z, p), b, NULL), Upd(Upd(n3, p, z), b, NULL), fp1, fn1, 0, fh1), b)
          = Alloc((D \ {y}) \ {b}, fr, s1, Upd(Upd(p2, z, p), b, NULL), Upd(Upd(n3, p, z), b, NULL), fp1, fn1, 0, fh1)
    BY ONLY DropHeaderAlloc
  <2> QED
    BY <1>12, <2>1, <2>2, Zenon
<1> QED
  BY <1>1, <1>2, <1>3, <1>8, <1>9, <1>13, Zenon DEF a, BothIs

\* What becomes of the sizes and of the block list.
AbsorbsBoth(D, p, b, y, sz, nx, sz2, nx2) ==
  /\ IntFun(sz2) /\ IntFun(nx2)
  /\ \A x \in (D \ {y}) \ {b} : x # p => sz2[x] = sz[x]
  /\ \A x \in (D \ {y}) \ {b} : nx2[x] = IF x = p THEN nx[y] ELSE nx[x]

LEMMA HeapMergeBoth ==
  ASSUME NEW a, NEW D, NEW F, NEW sz, NEW nx, NEW end, IsHeap(a, D, F, sz, nx, end),
         NEW p \in D, NEW b \in D, b \notin F, NEW y \in F, b = nx[p], y = nx[b]
  PROVE  \E sz2, nx2 :
           /\ AbsorbsBoth(D, p, b, y, sz, nx, sz2, nx2)
           /\ IsHeap(MergeBoth(a, b, p, y, nx[y], sz[p] + 2 * HeaderSize + sz[b] + sz[y]), (D \ {y}) \ {b}, F \ {y},
                     sz2, nx2, end)
<1>1. PICK fr, pv, fp, fn, fh, rank, low :
        /\ FreeIs(F, D, fr) /\ a = Alloc(D, fr, sz, pv, nx, fp, fn, 0, fh)
        /\ Laid(D, fr, sz, pv, nx, fp, fn, fh, rank, low, end)
  BY Zenon DEF IsHeap
<1>2. /\ D \in SUBSET Nat /\ Flags(fr) /\ IntFun(sz) /\ IntFun(pv) /\ IntFun(nx) /\ IntFun(fp) /\ IntFun(fn)
      /\ fh \in Int /\ IntFun(rank) /\ low \in Int /\ end \in Nat
      /\ LinksIn(D, FreeOf(D, fr), fp, fn, fh) /\ \A x \in D : Around(x, D, sz, pv, nx, end)
  BY <1>1, LaidFacts, Zenon
<1>3. F = FreeOf(D, fr) /\ y \in D /\ F \subseteq D
  BY <1>1, FreeOfPart, Zenon DEF FreeIs
<1>4. /\ pv[b] = p /\ p # b /\ nx[b] # p /\ sz[p] \in Nat /\ sz[b] \in Nat /\ p \in Nat /\ b \in Nat
      /\ pv[y] = b /\ b # y /\ nx[y] \in D \cup {NULL} /\ nx[y] \in Int /\ nx[y] # b /\ nx[y] # y
      /\ sz[y] \in Nat /\ y \in Nat /\ sz[b] + HeaderSize + sz[y] \in Int
  <2>1. Around(p, D, sz, pv, nx, end) /\ Around(b, D, sz, pv, nx, end) /\ Around(y, D, sz, pv, nx, end)
    BY <1>2, <1>3, Zenon
  <2>2. Nearby(D, sz, pv, nx, b, y) /\ Nearby(D, sz, pv, nx, p, b)
    BY <1>3, <2>1, Neighbours, Zenon
  <2> QED
    BY <2>2, Zenon DEF Nearby
<1>5. nx[y] # p
  <2>1. Around(p, D, sz, pv, nx, end) /\ Around(b, D, sz, pv, nx, end) /\ Around(y, D, sz, pv, nx, end)
    BY <1>2, <1>3, Zenon
  <2>2. p < b /\ b < y /\ (nx[y] # NULL => y < nx[y]) /\ p # NULL
    BY <2>1, <1>4 DEF Around
  <2> QED
    BY <2>2, <1>4
<1>6. PICK z : z = nx[y] /\ z \in D \cup {NULL} /\ z \in Int /\ z # p /\ z # b /\ z # y /\ p # y
  BY <1>4, <1>5, Zenon
<1>7. PICK s : s = sz[p] + 2 * HeaderSize + sz[b] + sz[y] /\ s \in Int
  BY <1>4, HeapAssumption
<1>8. PICK sm : sm = sz[b] + HeaderSize + sz[y] /\ sm \in Int
  BY <1>4, Zenon
<1>9. PICK szm, pvm, nxm : Merges(D, b, y, sz, pv, nx, szm, pvm, nxm) /\ IntFun(szm) /\ IntFun(pvm) /\ IntFun(nxm)
  <2>1. /\ D \in SUBSET Nat /\ IntFun(sz) /\ IntFun(pv) /\ IntFun(nx) /\ y \in D /\ b \in D /\ b # y /\ z \in Int
        /\ z = nx[y] /\ z # b /\ z # y /\ sm \in Int /\ sm = sz[b] + HeaderSize + sz[y]
    BY <1>2, <1>3, <1>4, <1>6, <1>8, Zenon
  <2>2. /\ Merges(D, b, y, sz, pv, nx, Put(sz, b, sm), Upd(Upd(pv, z, b), y, NULL),
                  Upd(Upd(Upd(nx, b, z), b, z), y, NULL))
        /\ IntFun(Put(sz, b, sm)) /\ IntFun(Upd(Upd(pv, z, b), y, NULL))
        /\ IntFun(Upd(Upd(Upd(nx, b, z), b, z), y, NULL))
    BY ONLY <2>1, MergeFunctions
  <2> QED
    BY <2>2, Zenon
<1>10. nxm[p] = b /\ p \in D \ {y} /\ b \in D \ {y}
  <2>1. p \in D \ {y} /\ b \in D \ {y}
    BY <1>4, <1>6
  <2>2. nxm[p] = IF p = b THEN nx[y] ELSE nx[p]
    BY <2>1, <1>9, Zenon DEF Merges
  <2> QED
    BY <2>1, <2>2, <1>4
<1>30. Row(D, sz, pv, nx, p, b, y, z, s)
  BY <1>2, <1>3, <1>4, <1>6, <1>7, Zenon DEF Row
<1> DEFINE sz2 == Put(sz, p, s)
<1> DEFINE pv2 == Upd(Upd(Upd(Upd(pv, z, b), y, NULL), z, p), b, NULL)
<1> DEFINE nx2 == Upd(Upd(Upd(Upd(Upd(nx, p, z), b, z), y, NULL), p, z), b, NULL)
<1>11. Merges(D \ {y}, p, b, szm, pvm, nxm, sz2, pv2, nx2) /\ IntFun(sz2) /\ IntFun(pv2) /\ IntFun(nx2)
  BY <1>9, <1>30, BothFunctions, Zenon
<1> DEFINE fp1 == Upd(Upd(fp, fn[y], fp[y]), y, NULL)
<1> DEFINE fn1 == Upd(Upd(fn, fp[y], fn[y]), y, NULL)
<1> DEFINE fh1 == IF fp[y] = NULL THEN fn[y] ELSE fh
<1>12. MergeBoth(a, b, p, y, z, s) = Alloc((D \ {y}) \ {b}, fr, sz2, pv2, nx2, fp1, fn1, 0, fh1)
  <2>1. fp[y] \in D \cup {NULL} /\ fn[y] \in D \cup {NULL}
    BY <1>2, <1>3, Zenon DEF LinksIn
  <2>2. IntFun(fp) /\ IntFun(fn)
    BY <1>2, Zenon
  <2>3. BothIs(MergeBoth(Alloc(D, fr, sz, pv, nx, fp, fn, 0, fh), b, p, y, z, s),
               D, fr, sz, pv, nx, fp, fn, fh, p, b, y, z, s)
    BY <2>2, <1>30, <2>1, BothAlloc, Zenon
  <2> QED
    BY <1>1, <2>3, Zenon DEF BothIs
<1>13. /\ Laid(D, Taken(fr, y), sz, pv, nx, fp1, fn1, fh1, rank, low, end)
       /\ FreeIs(F \ {y}, D, Taken(fr, y))
  BY <1>1, <1>3, LaidRemove, Zenon
<1> HIDE DEF sz2, pv2, nx2, fp1, fn1, fh1
<1>14. FreeOf(D, Taken(fr, y)) = F \ {y} /\ y \notin FreeOf(D, Taken(fr, y))
  BY <1>13, Zenon DEF FreeIs
<1>15. /\ Laid(D \ {y}, Taken(fr, y), szm, pvm, nxm, fp1, fn1, fh1, rank, low, end)
       /\ FreeIs(FreeOf(D, Taken(fr, y)), D \ {y}, Taken(fr, y))
  BY <1>3, <1>9, <1>13, <1>14, LaidMerge, Zenon
<1>16. FreeOf(D \ {y}, Taken(fr, y)) = F \ {y} /\ b \notin FreeOf(D \ {y}, Taken(fr, y))
  BY <1>14, <1>15, Zenon DEF FreeIs
<1>17. /\ Laid((D \ {y}) \ {b}, Taken(fr, y), sz2, pv2, nx2, fp1, fn1, fh1, rank, low, end)
       /\ FreeIs(FreeOf(D \ {y}, Taken(fr, y)), (D \ {y}) \ {b}, Taken(fr, y))
  BY <1>10, <1>11, <1>15, <1>16, LaidMerge, Zenon
<1>18. Alloc((D \ {y}) \ {b}, Taken(fr, y), sz2, pv2, nx2, fp1, fn1, 0, fh1)
         = Alloc((D \ {y}) \ {b}, fr, sz2, pv2, nx2, fp1, fn1, 0, fh1)
  <2>1. Keeps(D \ {y}, fr, Taken(fr, y))
    BY <1>2, <1>4, FreedKeeps, Zenon
  <2>2. Keeps((D \ {y}) \ {b}, fr, Taken(fr, y))
    BY <2>1, Zenon DEF Keeps
  <2> QED
    BY <2>2, SameAlloc
<1>19. IsHeap(Alloc((D \ {y}) \ {b}, Taken(fr, y), sz2, pv2, nx2, fp1, fn1, 0, fh1), (D \ {y}) \ {b}, F \ {y},
              sz2, nx2, end)
  <2>1. FreeIs(F \ {y}, (D \ {y}) \ {b}, Taken(fr, y))
    BY <1>16, <1>17, Zenon
  <2> QED
    BY <2>1, <1>17, IsHeapFrom, Zenon
<1>20. IsHeap(MergeBoth(a, b, p, y, z, s), (D \ {y}) \ {b}, F \ {y}, sz2, nx2, end)
  BY <1>12, <1>18, <1>19, Zenon
<1>21. AbsorbsBoth(D, p, b, y, sz, nx, sz2, nx2)
  <2>1. \A x \in (D \ {y}) \ {b} :
          /\ sz2[x] = IF x = p THEN szm[p] + HeaderSize + szm[b] ELSE szm[x]
          /\ nx2[x] = IF x = p THEN nxm[b] ELSE nxm[x]
    BY <1>11, Zenon DEF Merges
  <2>2. \A x \in D \ {y} : /\ szm[x] = IF x = b THEN sz[b] + HeaderSize + sz[y] ELSE sz[x]
                           /\ nxm[x] = IF x = b THEN nx[y] ELSE nx[x]
    BY <1>9, Zenon DEF Merges
  <2>3. nxm[b] = nx[y] /\ \A x \in (D \ {y}) \ {b} : szm[x] = sz[x] /\ nxm[x] = nx[x]
    BY <2>2, <1>10
  <2>4. \A x \in (D \ {y}) \ {b} : x # p => sz2[x] = sz[x]
    BY <2>1, <2>3
  <2>5. \A x \in (D \ {y}) \ {b} : nx2[x] = IF x = p THEN nx[y] ELSE nx[x]
    BY <2>1, <2>3
  <2> QED
    BY <1>11, <2>4, <2>5, Zenon DEF AbsorbsBoth
<1> QED
  BY <1>6, <1>7, <1>20, <1>21, Zenon

-----------------------------------------------------------------------------
(* What an allocation and a free do to the blocks.                         *)

\* No two neighbours are free.
Merged(F, nx) == \A x \in F : nx[x] \notin F

\* Used blocks other than b stay where they are.
KeepsUsed(b, D, F, sz, D2, F2, sz2) == \A x \in D \ F : x # b => x \in D2 /\ x \notin F2 /\ sz2[x] = sz[x]

\* The fields of a header, and the neighbours of a block.
HeaderAt(a, D, F, sz, nx, end, b) ==
  /\ a.headers[b].size = sz[b] /\ a.headers[b].next = nx[b]
  /\ a.headers[b].isFree <=> b \in F
  /\ a.headers[b].prev # NULL => a.headers[b].prev \in D /\ nx[a.headers[b].prev] = b
  /\ \A x \in D : nx[x] = b => x = a.headers[b].prev
  /\ nx[b] # NULL => nx[b] \in D
  /\ b # NULL /\ nx[b] # b

LEMMA IsHeapHeader ==
  ASSUME NEW a, NEW D, NEW F, NEW sz, NEW nx, NEW end, IsHeap(a, D, F, sz, nx, end), NEW b \in D
  PROVE  HeaderAt(a, D, F, sz, nx, end, b)
<1>1. PICK fr, pv, fp, fn, fh, rank, low :
        /\ FreeIs(F, D, fr) /\ a = Alloc(D, fr, sz, pv, nx, fp, fn, 0, fh)
        /\ Laid(D, fr, sz, pv, nx, fp, fn, fh, rank, low, end)
  BY Zenon DEF IsHeap
<1>2. /\ D \in SUBSET Nat /\ \A x \in D : Around(x, D, sz, pv, nx, end)
  BY <1>1, LaidFacts, Zenon
<1>3. Fields(a, D, fr, sz, pv, nx, fp, fn, 0, fh)
  BY <1>1, AllocIs, Zenon
<1>4. a.headers[b].size = sz[b] /\ a.headers[b].next = nx[b] /\ a.headers[b].isFree = fr[b] /\ a.headers[b].prev = pv[b]
  BY <1>3, Zenon DEF Fields
<1>5. a.headers[b].isFree <=> b \in F
  BY <1>1, <1>4, Zenon DEF FreeIs, FreeOf
<1>6. pv[b] # NULL => pv[b] \in D /\ nx[pv[b]] = b
  BY <1>2, Zenon DEF Around
<1>7. nx[b] # NULL => nx[b] \in D
  BY <1>2, Zenon DEF Around
<1>8. b # NULL /\ nx[b] # b
  BY <1>2, Zenon DEF Around
<1>9. \A x \in D : nx[x] = b => x = pv[b]
  BY <1>2, <1>8, Zenon DEF Around
<1> QED
  BY <1>4, <1>5, <1>6, <1>7, <1>8, <1>9, Zenon DEF HeaderAt

\* a2 is a heap with the same end, whose used blocks are those of before but for b.
Frees(a2, D, F, sz, end, b) ==
  \E D2, F2, sz2, nx2 :
    /\ IsHeap(a2, D2, F2, sz2, nx2, end)
    /\ Merged(F2, nx2) /\ KeepsUsed(b, D, F, sz, D2, F2, sz2)

\* The same with b in use, for n bytes.
Takes(a2, D, F, sz, end, b, n) ==
  \E D2, F2, sz2, nx2 :
    /\ IsHeap(a2, D2, F2, sz2, nx2, end)
    /\ Merged(F2, nx2) /\ KeepsUsed(b, D, F, sz, D2, F2, sz2)
    /\ b \in D2 /\ b \notin F2 /\ n <= sz2[b]

\* block_allocator_free of a used block.
LEMMA Freeing ==
  ASSUME NEW a, NEW D, NEW F, NEW sz, NEW nx, NEW end, IsHeap(a, D, F, sz, nx, end), Merged(F, nx),
         NEW b \in D, b \notin F
  PROVE  Frees(Merge(a, b, a.headers[b].prev, a.headers[b].next), D, F, sz, end, b)
<1>1. D \in SUBSET Nat /\ F \subseteq D /\ NULL \notin F
  <2>1. D \in SUBSET Nat /\ F \subseteq D
    BY IsHeapFacts, Zenon
  <2> QED
    BY <2>1 DEF NULL
<1>2. PICK p, y : p = a.headers[b].prev /\ y = a.headers[b].next
  BY Zenon
<1>3. /\ a.headers[b].size = sz[b] /\ y = nx[b] /\ b # NULL /\ nx[b] # b
      /\ p # NULL => p \in D /\ nx[p] = b
      /\ \A x \in D : nx[x] = b => x = p
      /\ y # NULL => y \in D
  <2>1. HeaderAt(a, D, F, sz, nx, end, b)
    BY IsHeapHeader, Zenon
  <2> QED
    BY <1>2, <2>1, Zenon DEF HeaderAt
<1>4. /\ p # NULL => a.headers[p].size = sz[p] /\ (a.headers[p].isFree <=> p \in F)
      /\ y # NULL => a.headers[y].size = sz[y] /\ a.headers[y].next = nx[y] /\ (a.headers[y].isFree <=> y \in F) /\ nx[y] # y
  <2>1. p # NULL => HeaderAt(a, D, F, sz, nx, end, p)
    BY <1>3, IsHeapHeader, Zenon
  <2>2. y # NULL => HeaderAt(a, D, F, sz, nx, end, y)
    BY <1>3, IsHeapHeader, Zenon
  <2> QED
    BY <2>1, <2>2, Zenon DEF HeaderAt
<1>5. (p # NULL /\ a.headers[p].isFree <=> p \in F) /\ (y # NULL /\ a.headers[y].isFree <=> y \in F)
  BY <1>1, <1>4, Zenon
<1>6. CASE p \notin F /\ y \notin F
  <2>1. Merge(a, b, p, y) = add_block_to_free_list(ToFree(a, b), b)
    BY <1>5, <1>6, MergeCases, Zenon
  <2>2. IsHeap(add_block_to_free_list(ToFree(a, b), b), D, F \cup {b}, sz, nx, end)
    BY HeapPut, Zenon
  <2>3. Merged(F \cup {b}, nx)
    BY <1>1, <1>3, <1>6, Zenon DEF Merged
  <2>4. KeepsUsed(b, D, F, sz, D, F \cup {b}, sz)
    BY Zenon DEF KeepsUsed
  <2> QED
    BY <1>2, <2>1, <2>2, <2>3, <2>4, Zenon DEF Frees
<1>7. CASE p \in F /\ y \notin F
  <2>1. p # NULL /\ p \in D /\ b = nx[p]
    BY <1>1, <1>3, <1>7, Zenon
  <2>2. Merge(a, b, p, y) = MergePrev(a, b, p, nx[b], sz[p] + HeaderSize + sz[b])
    <3>1. Merge(a, b, p, y) = MergePrev(a, b, p, a.headers[b].next, a.headers[p].size + HeaderSize + a.headers[b].size)
      BY <1>5, <1>7, MergeCases, Zenon
    <3>2. a.headers[b].next = nx[b] /\ a.headers[p].size = sz[p] /\ a.headers[b].size = sz[b]
      BY <1>2, <1>3, <1>4, <2>1, Zenon
    <3> QED
      BY <3>1, <3>2, Zenon
  <2>3. PICK sz2, nx2 : /\ Absorbs(D, p, b, sz, nx, sz2, nx2)
                        /\ IsHeap(MergePrev(a, b, p, nx[b], sz[p] + HeaderSize + sz[b]), D \ {b}, F, sz2, nx2, end)
    BY <2>1, HeapMergePrev, Zenon
  <2>4. \A x \in D \ {b} : nx2[x] = IF x = p THEN nx[b] ELSE nx[x]
    BY <2>3, Zenon DEF Absorbs
  <2>5. \A x \in D \ {b} : sz2[x] = IF x = p THEN sz[p] + HeaderSize + sz[b] ELSE sz[x]
    BY <2>3, Zenon DEF Absorbs
  <2>6. Merged(F, nx2)
    BY <1>1, <1>3, <1>7, <2>4 DEF Merged
  <2>7. KeepsUsed(b, D, F, sz, D \ {b}, F, sz2)
    BY <1>1, <1>7, <2>5 DEF KeepsUsed
  <2> QED
    BY <1>2, <2>2, <2>3, <2>6, <2>7, Zenon DEF Frees
<1>8. CASE p \notin F /\ y \in F
  <2>1. y # NULL /\ y \in D /\ y = nx[b]
    BY <1>1, <1>3, <1>8, Zenon
  <2>2. Merge(a, b, p, y) = MergeNext(a, b, y, nx[y], sz[b] + HeaderSize + sz[y])
    <3>1. Merge(a, b, p, y) = MergeNext(a, b, y, a.headers[y].next, a.headers[b].size + HeaderSize + a.headers[y].size)
      BY <1>5, <1>8, MergeCases, Zenon
    <3>2. a.headers[y].next = nx[y] /\ a.headers[y].size = sz[y] /\ a.headers[b].size = sz[b]
      BY <1>2, <1>3, <1>4, <2>1, Zenon
    <3> QED
      BY <3>1, <3>2, Zenon
  <2>3. PICK sz2, nx2 : /\ Absorbs(D, b, y, sz, nx, sz2, nx2)
                        /\ IsHeap(MergeNext(a, b, y, nx[y], sz[b] + HeaderSize + sz[y]), D \ {y},
                                  (F \ {y}) \cup {b}, sz2, nx2, end)
    BY <1>8, <2>1, HeapMergeNext, Zenon
  <2>4. \A x \in D \ {y} : nx2[x] = IF x = b THEN nx[y] ELSE nx[x]
    BY <2>3, Zenon DEF Absorbs
  <2>5. \A x \in D \ {y} : sz2[x] = IF x = b THEN sz[b] + HeaderSize + sz[y] ELSE sz[x]
    BY <2>3, Zenon DEF Absorbs
  <2>6. nx[y] \notin F /\ nx[y] # b /\ b # y
    BY <1>3, <1>8, <2>1, Zenon DEF Merged
  <2>7. Merged((F \ {y}) \cup {b}, nx2)
    <3>1. ASSUME NEW x \in F, x # y PROVE nx2[x] \notin (F \ {y}) \cup {b}
      <4>1. x \in D \ {y} /\ x # b
        BY <1>1, <3>1
      <4>2. nx2[x] = nx[x]
        BY <4>1, <2>4
      <4>3. nx[x] \notin F
        BY Zenon DEF Merged
      <4>4. nx[x] # b
        BY <1>3, <1>8, <4>1
      <4> QED
        BY <4>2, <4>3, <4>4
    <3>2. nx2[b] \notin (F \ {y}) \cup {b}
      <4>1. b \in D \ {y}
        BY <2>6
      <4> QED
        BY <4>1, <2>4, <2>6
    <3> QED
      BY <3>1, <3>2, Zenon DEF Merged
  <2>8. KeepsUsed(b, D, F, sz, D \ {y}, (F \ {y}) \cup {b}, sz2)
    BY <1>8, <2>5 DEF KeepsUsed
  <2> QED
    BY <1>2, <2>2, <2>3, <2>7, <2>8, Zenon DEF Frees
<1>9. CASE p \in F /\ y \in F
  <2>1. p # NULL /\ p \in D /\ b = nx[p] /\ y # NULL /\ y \in D /\ y = nx[b]
    BY <1>1, <1>3, <1>9, Zenon
  <2>2. Merge(a, b, p, y) = MergeBoth(a, b, p, y, nx[y], sz[p] + 2 * HeaderSize + sz[b] + sz[y])
    <3>1. Merge(a, b, p, y) = MergeBoth(a, b, p, y, a.headers[y].next,
                                        a.headers[p].size + 2 * HeaderSize + a.headers[b].size + a.headers[y].size)
      BY <1>5, <1>9, MergeCases, Zenon
    <3>2. a.headers[y].next = nx[y] /\ a.headers[y].size = sz[y] /\ a.headers[b].size = sz[b] /\ a.headers[p].size = sz[p]
      BY <1>2, <1>3, <1>4, <2>1, Zenon
    <3> QED
      BY <3>1, <3>2, Zenon
  <2>3. PICK sz2, nx2 :
          /\ AbsorbsBoth(D, p, b, y, sz, nx, sz2, nx2)
          /\ IsHeap(MergeBoth(a, b, p, y, nx[y], sz[p] + 2 * HeaderSize + sz[b] + sz[y]), (D \ {y}) \ {b}, F \ {y},
                    sz2, nx2, end)
    BY <1>9, <2>1, HeapMergeBoth, Zenon
  <2>4. \A x \in (D \ {y}) \ {b} : nx2[x] = IF x = p THEN nx[y] ELSE nx[x]
    BY <2>3, Zenon DEF AbsorbsBoth
  <2>5. \A x \in (D \ {y}) \ {b} : x # p => sz2[x] = sz[x]
    BY <2>3, Zenon DEF AbsorbsBoth
  <2>6. Merged(F \ {y}, nx2)
    <3>1. ASSUME NEW x \in F, x # y PROVE nx2[x] \notin F
      <4>1. x \in (D \ {y}) \ {b}
        BY <1>1, <3>1
      <4>2. nx[x] \notin F /\ nx[y] \notin F
        BY <1>9, Zenon DEF Merged
      <4> QED
        BY <4>1, <4>2, <2>4
    <3> QED
      BY <3>1, Zenon DEF Merged
  <2>7. KeepsUsed(b, D, F, sz, (D \ {y}) \ {b}, F \ {y}, sz2)
    BY <1>9, <2>5 DEF KeepsUsed
  <2> QED
    BY <1>2, <2>2, <2>3, <2>6, <2>7, Zenon DEF Frees
<1> QED
  BY <1>6, <1>7, <1>8, <1>9, Zenon

\* Merged but for block b, which is about to be taken.
MergedBut(b, F, nx) == nx[b] \notin F /\ \A x \in F : x # b /\ nx[x] # b => nx[x] \notin F

\* block_allocator_allocate, once it has its block.
LEMMA Taking ==
  ASSUME NEW a, NEW D, NEW F, NEW sz, NEW nx, NEW end, IsHeap(a, D, F, sz, nx, end), NEW b \in F,
         MergedBut(b, F, nx), NEW n \in Nat, n <= sz[b]
  PROVE  Takes(TakeBlock(a, b, n), D, F, sz, end, b, n)
<1>1. D \in SUBSET Nat /\ F \subseteq D /\ b \in D
  BY IsHeapFacts, Zenon
<1>2. CASE sz[b] - n <= HeaderSize
  <2>1. TakeBlock(a, b, n) = remove_block_from_free_list(ToUsed(a, b), b)
    <3>1. a.headers[b].size = sz[b]
      <4>1. HeaderAt(a, D, F, sz, nx, end, b)
        BY <1>1, IsHeapHeader, Zenon
      <4> QED
        BY <4>1, Zenon DEF HeaderAt
    <3> QED
      BY <1>2, <3>1, Zenon DEF TakeBlock, split_block, ToUsed
  <2>2. IsHeap(remove_block_from_free_list(ToUsed(a, b), b), D, F \ {b}, sz, nx, end)
    BY HeapTake, Zenon
  <2>3. Merged(F \ {b}, nx)
    BY Zenon DEF Merged, MergedBut
  <2>4. KeepsUsed(b, D, F, sz, D, F \ {b}, sz)
    BY Zenon DEF KeepsUsed
  <2>5. b \notin F \ {b}
    OBVIOUS
  <2> QED
    BY <1>1, <2>1, <2>2, <2>3, <2>4, <2>5, Zenon DEF Takes
<1>3. CASE ~(sz[b] - n <= HeaderSize)
  <2>1. PICK r, sz2, nx2 : /\ SplitsTo(D, b, n, r, sz, nx, sz2, nx2)
                           /\ IsHeap(split_block(a, b, n), D \cup {r}, F \cup {r}, sz2, nx2, end)
    BY <1>1, <1>3, HeapSplit, Zenon
  <2>2. /\ r \notin D /\ nx2[b] = r /\ nx2[r] = nx[b] /\ sz2[b] = n
        /\ \A x \in D : x # b => sz2[x] = sz[x] /\ nx2[x] = nx[x]
    BY <1>1, <2>1 DEF SplitsTo
  <2>3. b \in F \cup {r} /\ b # r
    BY <1>1, <2>2
  <2>4. TakeBlock(a, b, n) = remove_block_from_free_list(ToUsed(split_block(a, b, n), b), b)
    BY Zenon DEF TakeBlock, ToUsed
  <2>5. IsHeap(remove_block_from_free_list(ToUsed(split_block(a, b, n), b), b), D \cup {r}, (F \cup {r}) \ {b},
               sz2, nx2, end)
    BY <2>1, <2>3, HeapTake, Zenon
  <2>6. Merged((F \cup {r}) \ {b}, nx2)
    <3>1. nx2[r] \notin (F \cup {r}) \ {b}
      <4>1. nx[b] \notin F
        BY Zenon DEF MergedBut
      <4>2. nx2[r] # r
        <5>1. r \in D \cup {r}
          OBVIOUS
        <5>2. HeaderAt(split_block(a, b, n), D \cup {r}, F \cup {r}, sz2, nx2, end, r)
          BY <2>1, <5>1, IsHeapHeader, Zenon
        <5> QED
          BY <5>2, Zenon DEF HeaderAt
      <4> QED
        BY <2>2, <4>1, <4>2
    <3>2. ASSUME NEW x \in F, x # b PROVE nx2[x] \notin (F \cup {r}) \ {b}
      <4>1. x \in D /\ nx2[x] = nx[x]
        BY <1>1, <2>2, <3>2
      <4>2. nx[x] # r
        <5>1. nx[x] # NULL => nx[x] \in D
          <6>1. HeaderAt(a, D, F, sz, nx, end, x)
            BY <4>1, IsHeapHeader, Zenon
          <6> QED
            BY <6>1, Zenon DEF HeaderAt
        <5>2. r # NULL
          BY <2>1 DEF SplitsTo, NULL
        <5> QED
          BY <2>2, <5>1, <5>2, Zenon
      <4>3. nx[x] # b => nx[x] \notin F
        BY <3>2, Zenon DEF MergedBut
      <4> QED
        BY <4>1, <4>2, <4>3, Zenon
    <3> QED
      BY <3>1, <3>2, Zenon DEF Merged
  <2>7. KeepsUsed(b, D, F, sz, D \cup {r}, (F \cup {r}) \ {b}, sz2)
    BY <2>2, Zenon DEF KeepsUsed
  <2>8. b \in D \cup {r} /\ b \notin (F \cup {r}) \ {b} /\ n <= sz2[b]
    BY <1>1, <2>2
  <2> QED
    BY <2>4, <2>5, <2>6, <2>7, <2>8, Zenon DEF Takes
<1> QED
  BY <1>2, <1>3, Zenon

\* A free block that is large enough ...
LEMMA Finding ==
  ASSUME NEW a, NEW D, NEW F, NEW sz, NEW nx, NEW end, IsHeap(a, D, F, sz, nx, end), Merged(F, nx),
         NEW size \in Nat, NEW b, b = find_free_block(a, size), b # NULL
  PROVE  b \in F /\ size <= sz[b] /\ MergedBut(b, F, nx)
<1>1. PICK fr, pv, fp, fn, fh, rank, low :
        /\ FreeIs(F, D, fr) /\ a = Alloc(D, fr, sz, pv, nx, fp, fn, 0, fh)
        /\ Laid(D, fr, sz, pv, nx, fp, fn, fh, rank, low, end)
  BY Zenon DEF IsHeap
<1>2. /\ D \in SUBSET Nat /\ Flags(fr) /\ IntFun(sz) /\ IntFun(pv) /\ IntFun(nx) /\ IntFun(fp) /\ IntFun(fn)
      /\ fh \in Int /\ IntFun(rank) /\ low \in Int /\ end \in Nat
      /\ Ordered(D, fr, sz, pv, nx, fp, fn, fh, rank, low, end)
  BY <1>1, Zenon DEF Laid
<1>3. b \in FreeOf(D, fr) /\ b \in D /\ size <= sz[b]
  BY <1>1, <1>2, FoundFits, Zenon DEF IntFun
<1>4. b \in F
  BY <1>1, <1>3, Zenon DEF FreeIs
<1>5. MergedBut(b, F, nx)
  BY <1>4, Zenon DEF Merged, MergedBut
<1> QED
  BY <1>3, <1>4, <1>5, Zenon

\* ... or a new one at the end.
Grows(a, a2, D, F, sz, end, size) ==
  /\ HeapEnd(a) = end
  /\ \E D2, F2, sz2, nx2 :
       /\ IsHeap(a2, D2, F2, sz2, nx2, end + num_pages(size) * PageSize)
       /\ MergedBut(end, F2, nx2) /\ KeepsUsed(end, D, F, sz, D2, F2, sz2)
       /\ end \in F2 /\ end \notin D /\ size <= sz2[end]

LEMMA Growing ==
  ASSUME NEW a, NEW D, NEW F, NEW sz, NEW nx, NEW end, IsHeap(a, D, F, sz, nx, end), Merged(F, nx),
         NEW size \in Nat
  PROVE  Grows(a, AppendBlock(a, size), D, F, sz, end, size)
<1>1. PICK hs \in Nat, m \in Nat : hs = HeaderSize /\ m = num_pages(size) * PageSize /\ m >= size + hs /\ m > hs
  BY PagesFit, HeapAssumption
<1>2. PICK n \in Nat \ {0} : n = num_pages(size) * PageSize - HeaderSize /\ size <= n
  BY <1>1
<1>3. D \in SUBSET Nat /\ F \subseteq D /\ end \in Nat
  BY IsHeapFacts, Zenon
<1>4. end + HeaderSize + n = end + num_pages(size) * PageSize
  BY <1>1, <1>2, <1>3
<1>5. HeapEnd(a) = end /\ \E l, sz2, nx2 :
              /\ AppendsTo(D, l, n, end, sz, nx, sz2, nx2)
              /\ IsHeap(AppendBlock(a, size), D \cup {end}, F \cup {end}, sz2, nx2, end + HeaderSize + n)
  <2>1. Appended(a, D, F, sz, nx, end, size, n)
    BY <1>2, HeapAppend, Zenon
  <2> QED
    BY <2>1, Zenon DEF Appended
<1>6. PICK l, sz2, nx2 :
              /\ AppendsTo(D, l, n, end, sz, nx, sz2, nx2)
              /\ IsHeap(AppendBlock(a, size), D \cup {end}, F \cup {end}, sz2, nx2, end + HeaderSize + n)
  BY <1>5, Zenon
<1>7. /\ end \notin D /\ nx2[end] = NULL /\ sz2[end] = n
      /\ \A x \in D : sz2[x] = sz[x] /\ nx2[x] = IF x = l THEN end ELSE nx[x]
  BY <1>6, Zenon DEF AppendsTo
<1>8. MergedBut(end, F \cup {end}, nx2)
  <2>1. nx2[end] \notin F \cup {end}
    BY <1>3, <1>7 DEF NULL
  <2>2. ASSUME NEW x \in F, nx2[x] # end PROVE nx2[x] \notin F \cup {end}
    <3>1. nx2[x] = nx[x]
      BY <1>3, <1>7, <2>2
    <3>2. nx[x] \notin F
      BY Zenon DEF Merged
    <3> QED
      BY <2>2, <3>1, <3>2
  <2> QED
    BY <2>1, <2>2, Zenon DEF MergedBut
<1>9. KeepsUsed(end, D, F, sz, D \cup {end}, F \cup {end}, sz2)
  BY <1>7, Zenon DEF KeepsUsed
<1>10. end \in F \cup {end} /\ size <= sz2[end]
  BY <1>2, <1>7
<1>11. IsHeap(AppendBlock(a, size), D \cup {end}, F \cup {end}, sz2, nx2, end + num_pages(size) * PageSize)
  BY <1>4, <1>6, Zenon
<1> QED
  BY <1>5, <1>7, <1>8, <1>9, <1>10, <1>11, Zenon DEF Grows

-----------------------------------------------------------------------------
(* What callers hold.                                                      *)

\* The region r lies in a used block.
HeldAt(r, D, F, sz) ==
  /\ r \in [at : Nat, size : Sizes]
  /\ r.at - HeaderSize \in D /\ r.at - HeaderSize \notin F /\ r.size <= sz[r.at - HeaderSize]

\* Each region that is held lies in a used block of its own.
Held(L, D, F, sz) ==
  /\ \A r \in L : HeldAt(r, D, F, sz)
  /\ \A r, s \in L : r.at - HeaderSize = s.at - HeaderSize => r = s

\* Blocks that nobody takes or frees go on being held.
LEMMA HeldKept ==
  ASSUME NEW L, NEW D, NEW F, NEW sz, NEW b, NEW D2, NEW F2, NEW sz2, Held(L, D, F, sz),
         KeepsUsed(b, D, F, sz, D2, F2, sz2), NEW M, M \subseteq L, \A r \in M : r.at - HeaderSize # b
  PROVE  Held(M, D2, F2, sz2)
<1>1. ASSUME NEW r \in M PROVE HeldAt(r, D2, F2, sz2)
  <2>1. PICK x : x = r.at - HeaderSize
    OBVIOUS
  <2>2. x # b /\ r \in [at : Nat, size : Sizes] /\ x \in D /\ x \notin F /\ r.size <= sz[x]
    BY <1>1, <2>1, Zenon DEF Held, HeldAt
  <2>3. x \in D2 /\ x \notin F2 /\ sz2[x] = sz[x]
    BY <2>2, Zenon DEF KeepsUsed
  <2> QED
    BY <2>1, <2>2, <2>3, Zenon DEF HeldAt
<1>2. \A r, s \in M : r.at - HeaderSize = s.at - HeaderSize => r = s
  BY Zenon DEF Held
<1> QED
  BY <1>1, <1>2, Zenon DEF Held

\* The region an allocation returns joins them.
LEMMA HeldAdd ==
  ASSUME NEW L, NEW D, NEW F, NEW sz, NEW b \in Nat, NEW D2, NEW F2, NEW sz2, Held(L, D, F, sz),
         KeepsUsed(b, D, F, sz, D2, F2, sz2), b \notin D \ F, b \in D2, b \notin F2,
         NEW size \in Sizes, size <= sz2[b], NEW r, r = [at |-> b + HeaderSize, size |-> size]
  PROVE  Held(L \cup {r}, D2, F2, sz2) /\ r \notin L
<1>1. \A s \in L : s.at - HeaderSize # b
  BY Zenon DEF Held, HeldAt
<1>2. Held(L, D2, F2, sz2)
  <2>1. L \subseteq L
    OBVIOUS
  <2> QED
    BY <1>1, <2>1, HeldKept, Zenon
<1>3. r \in [at : Nat, size : Sizes] /\ r.at - HeaderSize = b /\ r.size = size
  BY HeapAssumption
<1>4. HeldAt(r, D2, F2, sz2)
  BY <1>3, Zenon DEF HeldAt
<1>5. r \notin L
  BY <1>1, <1>3, Zenon
<1>6. \A s \in L \cup {r} : HeldAt(s, D2, F2, sz2)
  BY <1>2, <1>4, Zenon DEF Held
<1>7. \A s, t \in L \cup {r} : s.at - HeaderSize = t.at - HeaderSize => s = t
  BY <1>1, <1>2, <1>3, Zenon DEF Held
<1> QED
  BY <1>5, <1>6, <1>7, Zenon DEF Held

LEMMA KeepsUsedTwice ==
  ASSUME NEW b, NEW D, NEW F, NEW sz, NEW D1, NEW F1, NEW sz1, NEW D2, NEW F2, NEW sz2,
         KeepsUsed(b, D, F, sz, D1, F1, sz1), KeepsUsed(b, D1, F1, sz1, D2, F2, sz2)
  PROVE  KeepsUsed(b, D, F, sz, D2, F2, sz2)
<1>1. ASSUME NEW x \in D \ F, x # b PROVE x \in D2 /\ x \notin F2 /\ sz2[x] = sz[x]
  <2>1. x \in D1 /\ x \notin F1 /\ sz1[x] = sz[x]
    BY <1>1, Zenon DEF KeepsUsed
  <2> QED
    BY <1>1, <2>1, Zenon DEF KeepsUsed
<1> QED
  BY <1>1, Zenon DEF KeepsUsed

\* Blocks lie inside the heap, in the order of their addresses.
InOrder(D, sz, end) ==
  /\ \A x \in D : sz[x] \in Nat /\ x + HeaderSize < end /\ x + HeaderSize + sz[x] <= end
  /\ \A x, y \in D : x < y => x + HeaderSize + sz[x] <= y

LEMMA HeapInOrder ==
  ASSUME NEW a, NEW D, NEW F, NEW sz, NEW nx, NEW end, IsHeap(a, D, F, sz, nx, end)
  PROVE  InOrder(D, sz, end)
<1>1. PICK fr, pv, fp, fn, fh, rank, low :
        /\ FreeIs(F, D, fr) /\ a = Alloc(D, fr, sz, pv, nx, fp, fn, 0, fh)
        /\ Laid(D, fr, sz, pv, nx, fp, fn, fh, rank, low, end)
  BY Zenon DEF IsHeap
<1>2. Tiled(D, sz, pv, nx, end)
  BY <1>1, Zenon DEF Laid, Ordered
<1> QED
  BY <1>2, Zenon DEF Tiled, InOrder

\* So what callers hold lies apart, and inside the heap.
LEMMA HeldApart ==
  ASSUME NEW D \in SUBSET Nat, NEW F, NEW sz, NEW end \in Nat, NEW L, InOrder(D, sz, end), Held(L, D, F, sz)
  PROVE  /\ \A r \in L : Promise!Region(r) \subseteq 0..(end - 1)
         /\ \A r, s \in L : r # s => s.at # r.at /\ Promise!Region(s) \cap Promise!Region(r) = {}
<1>1. PICK hs \in Nat : hs = HeaderSize
  BY HeapAssumption
<1>2. ASSUME NEW r \in L
      PROVE  \E x \in D, n \in Nat, k \in Nat :
               /\ x = r.at - HeaderSize /\ x \in Nat /\ r.at = x + hs /\ n = r.size /\ k = sz[x] /\ n <= k
               /\ x + hs + k <= end /\ \A y \in D : x < y => x + hs + k <= y
  <2>1. r \in [at : Nat, size : Sizes] /\ r.at - HeaderSize \in D /\ r.size <= sz[r.at - HeaderSize]
    BY <1>2, Zenon DEF Held, HeldAt
  <2>2. PICK at \in Nat, n \in Nat : at = r.at /\ n = r.size
    BY <2>1, HeapAssumption
  <2>3. PICK x \in D : x = r.at - HeaderSize /\ x \in Nat
    BY <2>1
  <2>4. sz[x] \in Nat /\ x + HeaderSize + sz[x] <= end /\ \A y \in D : x < y => x + HeaderSize + sz[x] <= y
    BY <2>3, Zenon DEF InOrder
  <2>5. r.at = x + hs
    BY <1>1, <2>2, <2>3
  <2>6. n <= sz[x]
    BY <2>1, <2>2, <2>3, Zenon
  <2> QED
    BY <1>1, <2>2, <2>3, <2>4, <2>5, <2>6, Zenon
<1>3. ASSUME NEW r \in L PROVE Promise!Region(r) \subseteq 0..(end - 1)
  <2>1. PICK x \in D, n \in Nat, k \in Nat :
               /\ x = r.at - HeaderSize /\ x \in Nat /\ r.at = x + hs /\ n = r.size /\ k = sz[x] /\ n <= k
               /\ x + hs + k <= end
    BY <1>2, <1>3, Zenon
  <2> QED
    BY <2>1 DEF Promise!Region
<1>4. ASSUME NEW r \in L, NEW s \in L, r # s
      PROVE  s.at # r.at /\ Promise!Region(s) \cap Promise!Region(r) = {}
  <2>1. PICK x \in D, n \in Nat, k \in Nat :
               /\ x = r.at - HeaderSize /\ x \in Nat /\ r.at = x + hs /\ n = r.size /\ n <= k
               /\ \A y \in D : x < y => x + hs + k <= y
    BY <1>2, <1>4, Zenon
  <2>2. PICK y \in D, m \in Nat, j \in Nat :
               /\ y = s.at - HeaderSize /\ y \in Nat /\ s.at = y + hs /\ m = s.size /\ m <= j
               /\ \A z \in D : y < z => y + hs + j <= z
    BY <1>2, <1>4, Zenon
  <2>3. x # y
    BY <1>4, <2>1, <2>2, Zenon DEF Held
  <2>4. \/ x < y /\ x + hs + k <= y
        \/ y < x /\ y + hs + j <= x
    BY <2>1, <2>2, <2>3
  <2>5. s.at # r.at
    BY <2>1, <2>2, <2>3
  <2>6. (y + hs)..(y + hs + m - 1) \cap (x + hs)..(x + hs + n - 1) = {}
    BY <2>1, <2>2, <2>4
  <2> QED
    BY <2>1, <2>2, <2>5, <2>6, Zenon DEF Promise!Region
<1> QED
  BY <1>3, <1>4, Zenon
-----------------------------------------------------------------------------
(* The inductive invariant and the actions.                                *)

\* Both lists are in order, the heap ends on a page boundary inside the mapped
\* pages m, and the regions L lie in used blocks.
HeapAt(a, m, L) ==
  \E D, F, sz, nx, pages :
    /\ IsHeap(a, D, F, sz, nx, pages * PageSize) /\ Merged(F, nx) /\ Held(L, D, F, sz)
    /\ pages \in Nat /\ pages <= m

\* block_allocator_allocate when a free block is large enough.
LEMMA FoundStep ==
  ASSUME NEW a, NEW m, NEW L, HeapAt(a, m, L), NEW size \in Sizes, NEW b, b = find_free_block(a, size), b # NULL,
         NEW r, r = [at |-> b + HeaderSize, size |-> size]
  PROVE  HeapAt(TakeBlock(a, b, size), m, L \cup {r}) /\ r \notin L
<1>1. PICK D, F, sz, nx, pages :
        /\ IsHeap(a, D, F, sz, nx, pages * PageSize) /\ Merged(F, nx) /\ Held(L, D, F, sz)
        /\ pages \in Nat /\ pages <= m
  BY Zenon DEF HeapAt
<1>2. size \in Nat
  BY HeapAssumption
<1>e. PICK end : end = pages * PageSize /\ IsHeap(a, D, F, sz, nx, end)
  BY <1>1, Zenon
<1>3. b \in F /\ size <= sz[b] /\ MergedBut(b, F, nx)
  BY <1>1, <1>e, <1>2, Finding, Zenon
<1>4. D \in SUBSET Nat /\ F \subseteq D
  <2>1. IsHeap(a, D, F, sz, nx, end)
    BY <1>e, Zenon
  <2> QED
    BY <2>1, IsHeapFacts, Zenon
<1>5. PICK D2, F2, sz2, nx2 :
        /\ IsHeap(TakeBlock(a, b, size), D2, F2, sz2, nx2, pages * PageSize)
        /\ Merged(F2, nx2) /\ KeepsUsed(b, D, F, sz, D2, F2, sz2)
        /\ b \in D2 /\ b \notin F2 /\ size <= sz2[b]
  <2>1. Takes(TakeBlock(a, b, size), D, F, sz, end, b, size)
    BY <1>e, <1>2, <1>3, Taking, Zenon
  <2> QED
    BY <1>e, <2>1, Zenon DEF Takes
<1>6. b \in Nat /\ b \notin D \ F
  BY <1>3, <1>4, Zenon
<1>7. Held(L \cup {r}, D2, F2, sz2) /\ r \notin L
  BY <1>1, <1>5, <1>6, HeldAdd, Zenon
<1> QED
  BY <1>1, <1>5, <1>7, Zenon DEF HeapAt

\* Where the heap ends, in pages.
LEMMA EndInPages ==
  ASSUME NEW p \in Nat, NEW q \in Nat
  PROVE  /\ (p * PageSize) \div PageSize = p /\ (p * PageSize) % PageSize = 0
         /\ p * PageSize + q * PageSize = (p + q) * PageSize
         /\ p * PageSize \in Nat
         /\ p <= q => p * PageSize <= q * PageSize
<1>1. PICK m \in Nat \ {0} : m = PageSize
  BY HeapAssumption
<1>2. (p * m) \div m = p /\ (p * m) % m = 0
  OBVIOUS
<1>3. p * m + q * m = (p + q) * m
  OBVIOUS
<1>4. p * m \in Nat
  OBVIOUS
<1>5. p <= q => p * m <= q * m
  OBVIOUS
<1> QED
  BY <1>1, <1>2, <1>3, <1>4, <1>5, Zenon

\* A list in order ends where its last block does.
LEMMA EndOfHeap ==
  ASSUME NEW a, NEW D, NEW F, NEW sz, NEW nx, NEW end, IsHeap(a, D, F, sz, nx, end)
  PROVE  LastOf(a, D, nx, end)
<1>1. PICK fr, pv, fp, fn, fh, rank, low :
        /\ FreeIs(F, D, fr) /\ a = Alloc(D, fr, sz, pv, nx, fp, fn, 0, fh)
        /\ Laid(D, fr, sz, pv, nx, fp, fn, fh, rank, low, end)
  BY Zenon DEF IsHeap
<1>2. LastOf(Alloc(D, fr, sz, pv, nx, fp, fn, 0, fh), D, nx, end)
  BY <1>1, LaidLast, Zenon
<1> QED
  BY <1>1, <1>2, Zenon

\* block_allocator_allocate when it maps the pages for a new block.
LEMMA GrowStep ==
  ASSUME NEW a, NEW m, NEW L, HeapAt(a, m, L), NEW size \in Sizes, NEW b, b = HeapEnd(a),
         NEW m2, b \div PageSize + num_pages(size) <= m2,
         NEW r, r = [at |-> b + HeaderSize, size |-> size]
  PROVE  HeapAt(TakeBlock(AppendBlock(a, size), b, size), m2, L \cup {r}) /\ r \notin L
<1>1. PICK D, F, sz, nx, pages :
        /\ IsHeap(a, D, F, sz, nx, pages * PageSize) /\ Merged(F, nx) /\ Held(L, D, F, sz)
        /\ pages \in Nat /\ pages <= m
  BY Zenon DEF HeapAt
<1>2. size \in Nat
  BY HeapAssumption
<1>3. PICK q \in Nat : q = num_pages(size)
  BY <1>2, PagesFit
<1>4. b = pages * PageSize
  <2>1. LastOf(a, D, nx, pages * PageSize)
    BY <1>1, EndOfHeap, Zenon
  <2> QED
    BY <2>1, Zenon DEF LastOf
<1>5. PICK new \in Nat : new = pages + q
  BY <1>1
<1>6. /\ new <= m2 /\ pages * PageSize + num_pages(size) * PageSize = new * PageSize
      /\ pages * PageSize \in Nat
  BY <1>1, <1>3, <1>4, <1>5, EndInPages, Zenon
<1>7. PICK D1, F1, sz1, nx1 :
        /\ IsHeap(AppendBlock(a, size), D1, F1, sz1, nx1, pages * PageSize + num_pages(size) * PageSize)
        /\ MergedBut(pages * PageSize, F1, nx1) /\ KeepsUsed(pages * PageSize, D, F, sz, D1, F1, sz1)
        /\ pages * PageSize \in F1 /\ pages * PageSize \notin D /\ size <= sz1[pages * PageSize]
  <2>1. Grows(a, AppendBlock(a, size), D, F, sz, pages * PageSize, size)
    BY <1>1, <1>2, Growing, Zenon
  <2> QED
    BY <2>1, Zenon DEF Grows
<1>8. /\ IsHeap(AppendBlock(a, size), D1, F1, sz1, nx1, new * PageSize)
      /\ MergedBut(b, F1, nx1) /\ KeepsUsed(b, D, F, sz, D1, F1, sz1)
      /\ b \in F1 /\ b \notin D /\ size <= sz1[b] /\ b \in Nat
  BY <1>4, <1>6, <1>7, Zenon
<1>9. PICK D2, F2, sz2, nx2 :
        /\ IsHeap(TakeBlock(AppendBlock(a, size), b, size), D2, F2, sz2, nx2, new * PageSize)
        /\ Merged(F2, nx2) /\ KeepsUsed(b, D1, F1, sz1, D2, F2, sz2)
        /\ b \in D2 /\ b \notin F2 /\ size <= sz2[b]
  <2>1. Takes(TakeBlock(AppendBlock(a, size), b, size), D1, F1, sz1, new * PageSize, b, size)
    BY <1>2, <1>8, Taking, Zenon
  <2> QED
    BY <2>1, Zenon DEF Takes
<1>10. KeepsUsed(b, D, F, sz, D2, F2, sz2)
  BY <1>8, <1>9, KeepsUsedTwice, Zenon
<1>11. b \notin D \ F
  BY <1>8
<1>12. Held(L \cup {r}, D2, F2, sz2) /\ r \notin L
  <2>1. Held(L, D, F, sz) /\ b \in Nat
    BY <1>1, <1>8, Zenon
  <2>2. b \in D2 /\ b \notin F2 /\ size <= sz2[b]
    BY <1>9, Zenon
  <2> QED
    BY <2>1, <2>2, <1>10, <1>11, HeldAdd
<1> QED
  BY <1>5, <1>6, <1>9, <1>12, Zenon DEF HeapAt

\* block_allocator_free.
LEMMA FreeStep ==
  ASSUME NEW a, NEW m, NEW L, HeapAt(a, m, L), NEW r \in L, NEW b, b = r.at - HeaderSize
  PROVE  HeapAt(Merge(a, b, a.headers[b].prev, a.headers[b].next), m, L \ {r})
<1>1. PICK D, F, sz, nx, pages :
        /\ IsHeap(a, D, F, sz, nx, pages * PageSize) /\ Merged(F, nx) /\ Held(L, D, F, sz)
        /\ pages \in Nat /\ pages <= m
  BY Zenon DEF HeapAt
<1>2. b \in D /\ b \notin F
  BY <1>1, Zenon DEF Held, HeldAt
<1>3. PICK D2, F2, sz2, nx2 :
        /\ IsHeap(Merge(a, b, a.headers[b].prev, a.headers[b].next), D2, F2, sz2, nx2, pages * PageSize)
        /\ Merged(F2, nx2) /\ KeepsUsed(b, D, F, sz, D2, F2, sz2)
  <2>1. Frees(Merge(a, b, a.headers[b].prev, a.headers[b].next), D, F, sz, pages * PageSize, b)
    BY <1>1, <1>2, Freeing, Zenon
  <2> QED
    BY <2>1, Zenon DEF Frees
<1>4. L \ {r} \subseteq L
  OBVIOUS
<1>5. \A s \in L \ {r} : s.at - HeaderSize # b
  BY <1>1, Zenon DEF Held
<1>6. Held(L \ {r}, D2, F2, sz2)
  <2>1. Held(L, D, F, sz) /\ KeepsUsed(b, D, F, sz, D2, F2, sz2)
    BY <1>1, <1>3, Zenon
  <2>2. PICK M : M = L \ {r} /\ M \subseteq L /\ \A s \in M : s.at - HeaderSize # b
    BY <1>4, <1>5, Zenon
  <2>3. Held(M, D2, F2, sz2)
    BY <2>1, <2>2, HeldKept
  <2> QED
    BY <2>2, <2>3, Zenon
<1> QED
  BY <1>1, <1>3, <1>6, Zenon DEF HeapAt

\* More pages are mapped.
LEMMA WideStep ==
  ASSUME NEW a, NEW m \in Nat, NEW L, HeapAt(a, m, L), NEW m2 \in Nat, m <= m2
  PROVE  HeapAt(a, m2, L)
<1>1. PICK D, F, sz, nx, pages :
        /\ IsHeap(a, D, F, sz, nx, pages * PageSize) /\ Merged(F, nx) /\ Held(L, D, F, sz)
        /\ pages \in Nat /\ pages <= m
  BY Zenon DEF HeapAt
<1>2. pages <= m2
  BY <1>1
<1> QED
  BY <1>1, <1>2, Zenon DEF HeapAt

\* What callers hold is mapped and lies apart.
LEMMA RegionsApart ==
  ASSUME NEW a, NEW m \in Nat, NEW L, HeapAt(a, m, L)
  PROVE  /\ \A r \in L : Promise!Region(r) \subseteq 0..(m * PageSize - 1)
         /\ \A r, s \in L : r # s => s.at # r.at /\ Promise!Region(s) \cap Promise!Region(r) = {}
<1>1. PICK D, F, sz, nx, pages :
        /\ IsHeap(a, D, F, sz, nx, pages * PageSize) /\ Merged(F, nx) /\ Held(L, D, F, sz)
        /\ pages \in Nat /\ pages <= m
  BY Zenon DEF HeapAt
<1>2. PICK e \in Nat, f \in Nat : e = pages * PageSize /\ f = m * PageSize /\ e <= f
  BY <1>1, EndInPages
<1>3. D \in SUBSET Nat /\ InOrder(D, sz, e)
  <2>1. IsHeap(a, D, F, sz, nx, e)
    BY <1>1, <1>2, Zenon
  <2>2. D \in SUBSET Nat
    BY <2>1, IsHeapFacts, Zenon
  <2> QED
    BY <2>1, <2>2, HeapInOrder, Zenon
<1>4. /\ \A r \in L : Promise!Region(r) \subseteq 0..(e - 1)
      /\ \A r, s \in L : r # s => s.at # r.at /\ Promise!Region(s) \cap Promise!Region(r) = {}
  BY <1>1, <1>3, HeldApart, Zenon
<1>5. 0..(e - 1) \subseteq 0..(f - 1)
  BY <1>2
<1> QED
  BY <1>2, <1>4, <1>5, Zenon

\* The heap as block_allocator_init leaves it: one free block.
LEMMA InitialHeap ==
  ASSUME NEW a, NEW n \in Nat, NEW end \in Nat, n > 0, end = HeaderSize + n,
         a = [headers |-> [b \in {0} |-> [isFree |-> TRUE, size |-> n, prev |-> NULL, next |-> NULL,
                                          freePrev |-> NULL, freeNext |-> NULL]],
              blockHead |-> 0, freeHead |-> 0]
  PROVE  \E sz, nx : IsHeap(a, {0}, {0}, sz, nx, end) /\ Merged({0}, nx)
<1>1. PICK z, zs, fr, id : /\ z = [x \in Int |-> NULL] /\ zs = [x \in Int |-> n]
                           /\ fr = [x \in Int |-> TRUE] /\ id = [x \in Int |-> x]
  OBVIOUS
<1>2. z[0] = NULL /\ zs[0] = n /\ fr[0] = TRUE /\ id[0] = 0
  BY <1>1
<1>3. IntFun(z) /\ IntFun(zs) /\ IntFun(id) /\ Flags(fr)
  BY <1>1 DEF IntFun, Flags, NULL
<1>4. HeaderSize \in Nat
  BY HeapAssumption
<1>5. Tiled({0}, zs, z, z, end)
  BY <1>2, <1>4 DEF Tiled, NULL
<1>6. FreeOf({0}, fr) = {0}
  BY <1>2 DEF FreeOf
<1>7. FreeChain({0}, z, z, 0, id, 0)
  BY <1>2 DEF FreeChain, NULL
<1>8. Ordered({0}, fr, zs, z, z, z, z, 0, id, 0, end)
  <2>1. Unlinked({0} \ FreeOf({0}, fr), z, z)
    BY <1>6 DEF Unlinked
  <2>2. FreeChain(FreeOf({0}, fr), z, z, 0, id, 0)
    BY <1>6, <1>7, Zenon
  <2> QED
    BY <1>5, <2>1, <2>2, Zenon DEF Ordered
<1>9. Laid({0}, fr, zs, z, z, z, z, 0, id, 0, end)
  <2>1. {0} \in SUBSET Nat /\ 0 \in Int
    OBVIOUS
  <2> QED
    BY <2>1, <1>3, <1>8, Zenon DEF Laid
<1>10. a = Alloc({0}, fr, zs, z, z, z, z, 0, 0)
  <2>1. [b \in {0} |-> [isFree |-> TRUE, size |-> n, prev |-> NULL, next |-> NULL, freePrev |-> NULL, freeNext |-> NULL]]
          = Headers({0}, fr, zs, z, z, z, z)
    BY <1>2 DEF Headers, HeaderOf
  <2> QED
    BY <2>1, Zenon DEF Alloc
<1>11. FreeIs({0}, {0}, fr)
  BY <1>6, Zenon DEF FreeIs
<1>12. IsHeap(Alloc({0}, fr, zs, z, z, z, z, 0, 0), {0}, {0}, zs, z, end)
  BY <1>9, <1>11, IsHeapFrom, Zenon
<1>13. Merged({0}, z)
  BY <1>2 DEF Merged, NULL
<1> QED
  BY <1>10, <1>12, <1>13, Zenon

\* The inductive invariant.
HeapInv ==
  /\ HeapAt(allocator, mapped, live)
  /\ mapped \in InitialPages..MaxPages
  /\ owner \in {"kernel", "process"} /\ stopped \in BOOLEAN

LEMMA InitHeapInv ==
  ASSUME Init
  PROVE  HeapInv
<1>1. PICK m \in Nat \ {0}, p \in Nat \ {0}, hs \in Nat : m = PageSize /\ p = InitialPages /\ hs = HeaderSize /\ hs < m
  BY HeapAssumption
<1>2. p * m >= m /\ p * m \in Nat
  BY <1>1
<1>3. PICK n \in Nat : n = InitialPages * PageSize - HeaderSize /\ n > 0 /\ InitialPages * PageSize = HeaderSize + n
  BY <1>1, <1>2
<1>4. PICK sz, nx : IsHeap(allocator, {0}, {0}, sz, nx, InitialPages * PageSize) /\ Merged({0}, nx)
  <2>1. PICK end \in Nat : end = InitialPages * PageSize /\ end = HeaderSize + n
    BY <1>1, <1>2, <1>3
  <2>2. allocator = [headers |-> [b \in {0} |-> [isFree |-> TRUE, size |-> n, prev |-> NULL, next |-> NULL,
                                          freePrev |-> NULL, freeNext |-> NULL]],
                     blockHead |-> 0, freeHead |-> 0]
    BY <1>3, Zenon DEF Init
  <2>3. \E sz, nx : IsHeap(allocator, {0}, {0}, sz, nx, end) /\ Merged({0}, nx)
    BY <1>3, <2>1, <2>2, InitialHeap, Zenon
  <2> QED
    BY <2>1, <2>3, Zenon
<1>5. Held({}, {0}, {0}, sz)
  BY Zenon DEF Held
<1>6. InitialPages \in Nat /\ InitialPages <= InitialPages /\ InitialPages \in InitialPages..MaxPages
  BY HeapAssumption
<1>7. HeapAt(allocator, InitialPages, {})
  BY <1>4, <1>5, <1>6, Zenon DEF HeapAt
<1> QED
  BY <1>6, <1>7 DEF Init, HeapInv

\* What a step does to what callers hold: with it the invariant goes on, and so
\* does the promise to the callers.
StepOK ==
  /\ HeapInv' /\ mapped <= mapped'
  /\ \/ \E r \in live' : r \notin live /\ live' = live \cup {r}
     \/ \E r \in live : live' = live \ {r}
     \/ live' = live

LEMMA FoundOK ==
  ASSUME HeapInv, NEW size \in Sizes, AllocateFound(size)
  PROVE  StepOK
<1>1. PICK b, r : /\ b = find_free_block(allocator, size) /\ b # NULL /\ r = [at |-> b + HeaderSize, size |-> size]
                  /\ allocator' = TakeBlock(allocator, b, size) /\ live' = live \cup {r}
                  /\ UNCHANGED <<mapped, owner, stopped>>
  BY Zenon DEF AllocateFound
<1>2. HeapAt(TakeBlock(allocator, b, size), mapped, live \cup {r}) /\ r \notin live
  BY <1>1, FoundStep, Zenon DEF HeapInv
<1>3. HeapAt(allocator', mapped', live')
  BY <1>1, <1>2, Zenon
<1>4. HeapInv'
  BY <1>1, <1>3 DEF HeapInv
<1>5. mapped <= mapped'
  BY <1>1, HeapAssumption DEF HeapInv
<1>6. r \in live'
  BY <1>1, Zenon
<1> QED
  BY <1>1, <1>2, <1>4, <1>5, <1>6, Zenon DEF StepOK

LEMMA GrowsOK ==
  ASSUME HeapInv, NEW size \in Sizes, AllocateGrows(size)
  PROVE  StepOK
<1>1. PICK b, pages, r :
        /\ b = HeapEnd(allocator) /\ pages = b \div PageSize + num_pages(size) /\ pages <= MaxPages
        /\ r = [at |-> b + HeaderSize, size |-> size]
        /\ allocator' = TakeBlock(AppendBlock(allocator, size), b, size) /\ live' = live \cup {r}
        /\ mapped' = IF pages > mapped THEN pages ELSE mapped
        /\ UNCHANGED <<owner, stopped>>
  BY Zenon DEF AllocateGrows
<1>2. PICK p \in Nat, q \in Nat : b = p * PageSize /\ q = num_pages(size)
  <2>1. num_pages(size) \in Nat
    BY HeapAssumption, PagesFit
  <2>2. PICK D, F, sz, nx, p : IsHeap(allocator, D, F, sz, nx, p * PageSize) /\ p \in Nat
    BY Zenon DEF HeapInv, HeapAt
  <2>3. LastOf(allocator, D, nx, p * PageSize)
    BY <2>2, EndOfHeap, Zenon
  <2> QED
    BY <1>1, <2>1, <2>2, <2>3, Zenon DEF LastOf
<1>3. pages \in Nat
  <2>1. b \div PageSize = p
    BY <1>2, EndInPages, Zenon
  <2> QED
    BY <1>1, <1>2, <2>1
<1>4. mapped \in Nat /\ mapped >= InitialPages /\ mapped <= MaxPages /\ InitialPages \in Nat /\ MaxPages \in Nat
  BY HeapAssumption DEF HeapInv
<1>5. mapped <= mapped' /\ pages <= mapped' /\ mapped' \in InitialPages..MaxPages
  BY <1>1, <1>3, <1>4
<1>6. HeapAt(TakeBlock(AppendBlock(allocator, size), b, size), mapped', live \cup {r}) /\ r \notin live
  <2>1. HeapAt(allocator, mapped, live) /\ b \div PageSize + num_pages(size) <= mapped'
    BY <1>1, <1>5, Zenon DEF HeapInv
  <2> QED
    BY <1>1, <2>1, GrowStep, Zenon
<1>7. HeapAt(allocator', mapped', live')
  BY <1>1, <1>6, Zenon
<1>8. HeapInv'
  BY <1>1, <1>5, <1>7 DEF HeapInv
<1>9. r \in live'
  BY <1>1, Zenon
<1> QED
  BY <1>1, <1>5, <1>6, <1>8, <1>9, Zenon DEF StepOK

LEMMA FailsOK ==
  ASSUME HeapInv, NEW size \in Sizes, NEW k \in 0..(num_pages(size) - 1), AllocateFails(size, k)
  PROVE  StepOK
<1>1. PICK pages :
        /\ pages = HeapEnd(allocator) \div PageSize + k /\ pages <= MaxPages
        /\ mapped' = IF pages > mapped THEN pages ELSE mapped
        /\ UNCHANGED <<allocator, live, owner, stopped>>
  BY Zenon DEF AllocateFails
<1>2. PICK p \in Nat : HeapEnd(allocator) = p * PageSize
  <2>1. PICK D, F, sz, nx, p : IsHeap(allocator, D, F, sz, nx, p * PageSize) /\ p \in Nat
    BY Zenon DEF HeapInv, HeapAt
  <2>2. LastOf(allocator, D, nx, p * PageSize)
    BY <2>1, EndOfHeap, Zenon
  <2> QED
    BY <2>1, <2>2, Zenon DEF LastOf
<1>3. pages \in Nat
  <2>1. HeapEnd(allocator) \div PageSize = p
    BY <1>2, EndInPages, Zenon
  <2>2. k \in Nat
    OBVIOUS
  <2> QED
    BY <1>1, <1>2, <2>1, <2>2
<1>4. mapped \in Nat /\ mapped >= InitialPages /\ mapped <= MaxPages /\ InitialPages \in Nat /\ MaxPages \in Nat
  BY HeapAssumption DEF HeapInv
<1>5. mapped <= mapped' /\ mapped' \in InitialPages..MaxPages /\ mapped' \in Nat
  BY <1>1, <1>3, <1>4
<1>6. HeapAt(allocator, mapped', live)
  <2>1. HeapAt(allocator, mapped, live)
    BY Zenon DEF HeapInv
  <2> QED
    BY <1>4, <1>5, <2>1, WideStep, Zenon
<1>7. HeapAt(allocator', mapped', live')
  BY <1>1, <1>6, Zenon
<1>8. HeapInv'
  BY <1>1, <1>5, <1>7 DEF HeapInv
<1> QED
  BY <1>1, <1>5, <1>8, Zenon DEF StepOK

LEMMA MmapsOK ==
  ASSUME HeapInv, NEW size \in Sizes, AllocateMmaps(size)
  PROVE  StepOK
<1>1. stopped' = TRUE /\ allocator' = allocator /\ mapped' = mapped /\ live' = live /\ owner' = owner
  BY DEF AllocateMmaps
<1>2. HeapAt(allocator', mapped', live')
  BY <1>1, Zenon DEF HeapInv
<1>3. HeapInv'
  BY <1>1, <1>2 DEF HeapInv
<1>4. mapped <= mapped'
  BY <1>1, HeapAssumption DEF HeapInv
<1> QED
  BY <1>1, <1>3, <1>4, Zenon DEF StepOK

LEMMA FreeOK ==
  ASSUME HeapInv, NEW r \in live, block_allocator_free(r)
  PROVE  StepOK
<1>1. PICK b : /\ b = r.at - HeaderSize
               /\ allocator' = Merge(allocator, b, allocator.headers[b].prev, allocator.headers[b].next)
               /\ live' = live \ {r} /\ UNCHANGED <<mapped, owner, stopped>>
  BY Zenon DEF block_allocator_free
<1>2. HeapAt(Merge(allocator, b, allocator.headers[b].prev, allocator.headers[b].next), mapped, live \ {r})
  BY <1>1, FreeStep, Zenon DEF HeapInv
<1>3. HeapAt(allocator', mapped', live')
  BY <1>1, <1>2, Zenon
<1>4. HeapInv'
  BY <1>1, <1>3 DEF HeapInv
<1>5. mapped <= mapped'
  BY <1>1, HeapAssumption DEF HeapInv
<1> QED
  BY <1>1, <1>4, <1>5, Zenon DEF StepOK

LEMMA NextOK ==
  ASSUME HeapInv, [Next]_vars
  PROVE  StepOK
<1>1. CASE \E size \in Sizes : AllocateFound(size)
  BY <1>1, FoundOK, Zenon
<1>2. CASE \E size \in Sizes : AllocateGrows(size)
  BY <1>2, GrowsOK, Zenon
<1>3. CASE \E size \in Sizes : \E k \in 0..(num_pages(size) - 1) : AllocateFails(size, k)
  BY <1>3, FailsOK, Zenon
<1>4. CASE \E size \in Sizes : AllocateMmaps(size)
  BY <1>4, MmapsOK, Zenon
<1>5. CASE \E r \in live : block_allocator_free(r)
  BY <1>5, FreeOK, Zenon
<1>6. CASE UNCHANGED vars
  <2>1. stopped' = stopped /\ allocator' = allocator /\ mapped' = mapped /\ live' = live /\ owner' = owner
    BY <1>6 DEF vars
  <2>2. HeapAt(allocator', mapped', live')
    BY <2>1, Zenon DEF HeapInv
  <2>3. HeapInv'
    BY <2>1, <2>2 DEF HeapInv
  <2>4. mapped <= mapped'
    BY <2>1, HeapAssumption DEF HeapInv
  <2> QED
    BY <2>1, <2>3, <2>4, Zenon DEF StepOK
<1> QED
  BY <1>1, <1>2, <1>3, <1>4, <1>5, <1>6, Zenon DEF Next
-----------------------------------------------------------------------------
(* The theorems.                                                           *)

\* Everything there is to know about the heap, from the functions.
Whole(a, D, fr, sz, pv, nx, fp, fn, fh, end) ==
  /\ D \in SUBSET Nat /\ Flags(fr) /\ end \in Nat
  /\ Fields(a, D, fr, sz, pv, nx, fp, fn, 0, fh)
  /\ LinksIn(D, FreeOf(D, fr), fp, fn, fh) /\ Unlinked(D \ FreeOf(D, fr), fp, fn)
  /\ \A x \in D : Around(x, D, sz, pv, nx, end)
  /\ Visits(BlockList(a), D, 0, nx, pv) /\ Visits(FreeList(a), FreeOf(D, fr), fh, fn, fp)
  /\ InOrder(D, sz, end) /\ HeapEnd(a) = end

LEMMA HeapWhole ==
  ASSUME NEW a, NEW D, NEW F, NEW sz, NEW nx, NEW end, IsHeap(a, D, F, sz, nx, end)
  PROVE  \E fr, pv, fp, fn, fh : FreeIs(F, D, fr) /\ Whole(a, D, fr, sz, pv, nx, fp, fn, fh, end)
<1>1. PICK fr, pv, fp, fn, fh, rank, low :
        /\ FreeIs(F, D, fr) /\ a = Alloc(D, fr, sz, pv, nx, fp, fn, 0, fh)
        /\ Laid(D, fr, sz, pv, nx, fp, fn, fh, rank, low, end)
  BY Zenon DEF IsHeap
<1>2. /\ D \in SUBSET Nat /\ Flags(fr) /\ IntFun(sz) /\ IntFun(pv) /\ IntFun(nx) /\ IntFun(fp) /\ IntFun(fn)
      /\ fh \in Int /\ IntFun(rank) /\ low \in Int /\ end \in Nat
      /\ Ordered(D, fr, sz, pv, nx, fp, fn, fh, rank, low, end)
  BY <1>1, Zenon DEF Laid
<1>3. LinksIn(D, FreeOf(D, fr), fp, fn, fh) /\ \A x \in D : Around(x, D, sz, pv, nx, end)
  BY <1>1, LaidFacts, Zenon
<1>4. Fields(a, D, fr, sz, pv, nx, fp, fn, 0, fh)
  BY <1>1, AllocIs, Zenon
<1>5. Visits(BlockList(a), D, 0, nx, pv) /\ Visits(FreeList(a), FreeOf(D, fr), fh, fn, fp)
  BY <1>1, <1>2, ListsVisited, Zenon DEF IntFun
<1>6. Unlinked(D \ FreeOf(D, fr), fp, fn)
  BY <1>2, Zenon DEF Ordered
<1>7. InOrder(D, sz, end)
  BY HeapInOrder, Zenon
<1>8. HeapEnd(a) = end
  <2>1. LastOf(a, D, nx, end)
    BY EndOfHeap, Zenon
  <2> QED
    BY <2>1, Zenon DEF LastOf
<1> QED
  BY <1>1, <1>2, <1>3, <1>4, <1>5, <1>6, <1>7, <1>8, Zenon DEF Whole

\* The block list.
BlocksOf(a, bl) ==
  /\ {bl[i] : i \in DOMAIN bl} = DOMAIN a.headers /\ Len(bl) = Cardinality(DOMAIN a.headers)
  /\ bl[1] = 0 /\ a.headers[bl[1]].prev = NULL
  /\ \A i \in 2..Len(bl) :
       bl[i] = bl[i - 1] + HeaderSize + a.headers[bl[i - 1]].size /\ a.headers[bl[i]].prev = bl[i - 1]

LEMMA BlocksInOrder ==
  ASSUME NEW a, NEW D, NEW fr, NEW sz, NEW pv, NEW nx, NEW fp, NEW fn, NEW fh, NEW end,
         Whole(a, D, fr, sz, pv, nx, fp, fn, fh, end), NEW bl, bl = BlockList(a)
  PROVE  BlocksOf(a, bl)
<1>1. Visits(bl, D, 0, nx, pv) /\ Fields(a, D, fr, sz, pv, nx, fp, fn, 0, fh) /\ D \in SUBSET Nat
  BY Zenon DEF Whole
<1>2. bl \in Seq(D) /\ {bl[i] : i \in 1..Len(bl)} = D /\ Len(bl) = Cardinality(D)
  BY <1>1, Zenon DEF Visits
<1>3. DOMAIN a.headers = D
  BY <1>1, Zenon DEF Fields
<1>4. DOMAIN bl = 1..Len(bl) /\ Len(bl) \in Nat
  BY <1>2
<1>5. 0 # NULL
  BY DEF NULL
<1>6. bl # <<>> /\ bl[1] = 0
  BY <1>1, <1>5, Zenon DEF Visits
<1>7. \A i \in 1..Len(bl) : bl[i] \in D
  BY <1>2
<1>8. \A i \in 1..Len(bl) : a.headers[bl[i]].prev = IF i = 1 THEN NULL ELSE bl[i - 1]
  <2>1. \A i \in 1..Len(bl) : pv[bl[i]] = IF i = 1 THEN NULL ELSE bl[i - 1]
    BY <1>1, Zenon DEF Visits
  <2>2. \A x \in D : a.headers[x].prev = pv[x]
    BY <1>1, Zenon DEF Fields
  <2> QED
    BY <1>7, <2>1, <2>2, Zenon
<1>9. 1 \in 1..Len(bl)
  BY <1>2, <1>4, <1>6
<1>10. ASSUME NEW i \in 2..Len(bl)
       PROVE  bl[i] = bl[i - 1] + HeaderSize + a.headers[bl[i - 1]].size /\ a.headers[bl[i]].prev = bl[i - 1]
  <2>1. PICK j \in 1..(Len(bl) - 1) : j = i - 1 /\ j + 1 = i
    BY <1>4
  <2>2. i \in 1..Len(bl) /\ i # 1 /\ j \in 1..Len(bl)
    BY <1>4, <2>1
  <2>3. bl[i] = nx[bl[j]]
    <3>1. bl[j + 1] = nx[bl[j]]
      BY <1>1, <2>1, Zenon DEF Visits
    <3> QED
      BY <2>1, <3>1, Zenon
  <2>4. bl[i] \in D /\ bl[j] \in D
    BY <1>7, <2>2, Zenon
  <2>5. nx[bl[j]] # NULL
    BY <1>1, <2>3, <2>4 DEF NULL
  <2>6. nx[bl[j]] = bl[j] + HeaderSize + sz[bl[j]]
    <3>1. Around(bl[j], D, sz, pv, nx, end)
      BY <2>4, Zenon DEF Whole
    <3> QED
      BY <2>5, <3>1, Zenon DEF Around
  <2>7. a.headers[bl[j]].size = sz[bl[j]]
    BY <1>1, <2>4, Zenon DEF Fields
  <2>8. bl[i] = bl[j] + HeaderSize + a.headers[bl[j]].size
    BY <2>3, <2>6, <2>7, Zenon
  <2>9. a.headers[bl[i]].prev = bl[i - 1]
    BY <1>8, <2>2, Zenon
  <2> QED
    BY <2>1, <2>8, <2>9, Zenon
<1>11. a.headers[bl[1]].prev = NULL
  BY <1>8, <1>9, Zenon
<1> QED
  BY <1>2, <1>3, <1>4, <1>6, <1>10, <1>11, Zenon DEF BlocksOf

\* The free list.
FreeBlocksOf(a, fl) ==
  /\ {fl[i] : i \in DOMAIN fl} = {b \in DOMAIN a.headers : a.headers[b].isFree}
  /\ Len(fl) = Cardinality({b \in DOMAIN a.headers : a.headers[b].isFree})
  /\ \A i \in DOMAIN fl : a.headers[fl[i]].freePrev = IF i = 1 THEN NULL ELSE fl[i - 1]

LEMMA FreeListInOrder ==
  ASSUME NEW a, NEW D, NEW fr, NEW sz, NEW pv, NEW nx, NEW fp, NEW fn, NEW fh, NEW end,
         Whole(a, D, fr, sz, pv, nx, fp, fn, fh, end), NEW fl, fl = FreeList(a)
  PROVE  FreeBlocksOf(a, fl)
<1>1. /\ Visits(fl, FreeOf(D, fr), fh, fn, fp) /\ Fields(a, D, fr, sz, pv, nx, fp, fn, 0, fh)
      /\ D \in SUBSET Nat
  BY Zenon DEF Whole
<1>2. PICK F : F = FreeOf(D, fr) /\ \A x \in F : x \in D
  BY DEF FreeOf
<1>3. fl \in Seq(F) /\ {fl[i] : i \in 1..Len(fl)} = F /\ Len(fl) = Cardinality(F)
  BY <1>1, <1>2, Zenon DEF Visits
<1>4. {b \in DOMAIN a.headers : a.headers[b].isFree} = F
  <2>1. DOMAIN a.headers = D /\ \A x \in D : a.headers[x].isFree = fr[x]
    BY <1>1, Zenon DEF Fields
  <2>2. {b \in D : a.headers[b].isFree} = FreeOf(D, fr)
    BY <2>1, Zenon DEF FreeOf
  <2> QED
    BY <1>2, <2>1, <2>2, Zenon
<1>5. DOMAIN fl = 1..Len(fl) /\ \A i \in 1..Len(fl) : fl[i] \in F
  BY <1>3
<1>6. \A i \in 1..Len(fl) : a.headers[fl[i]].freePrev = IF i = 1 THEN NULL ELSE fl[i - 1]
  <2>1. \A i \in 1..Len(fl) : fp[fl[i]] = IF i = 1 THEN NULL ELSE fl[i - 1]
    BY <1>1, Zenon DEF Visits
  <2>2. \A x \in D : a.headers[x].freePrev = fp[x]
    BY <1>1, Zenon DEF Fields
  <2> QED
    BY <1>2, <1>5, <2>1, <2>2, Zenon
<1> QED
  BY <1>3, <1>4, <1>5, <1>6, Zenon DEF FreeBlocksOf

LEMMA HeaderTyped ==
  ASSUME NEW f \in BOOLEAN, NEW n \in Nat, NEW p \in Pointer, NEW q \in Pointer, NEW s \in Pointer, NEW t \in Pointer
  PROVE  HeaderOf(f, n, p, q, s, t) \in Header
BY DEF HeaderOf, Header

\* Every pointer in a header is one to a block, or NULL.
LEMMA PointersInside ==
  ASSUME NEW a, NEW D, NEW fr, NEW sz, NEW pv, NEW nx, NEW fp, NEW fn, NEW fh, NEW end,
         Whole(a, D, fr, sz, pv, nx, fp, fn, fh, end), D \subseteq Address
  PROVE  /\ DOMAIN a = {"headers", "blockHead", "freeHead"}
         /\ {a.blockHead, a.freeHead} \subseteq Pointer
         /\ DOMAIN a.headers \subseteq Address
         /\ \A b \in DOMAIN a.headers : a.headers[b] \in Header
<1>1. /\ DOMAIN a = {"headers", "blockHead", "freeHead"} /\ a.blockHead = 0 /\ a.freeHead = fh
      /\ DOMAIN a.headers = D
      /\ \A x \in D : a.headers[x] = HeaderOf(fr[x], sz[x], pv[x], nx[x], fp[x], fn[x])
  BY Zenon DEF Whole, Fields
<1>2. \A p \in D \cup {NULL} : p \in Pointer
  BY DEF Pointer
<1>3. \A x \in D : Around(x, D, sz, pv, nx, end)
  BY Zenon DEF Whole
<1>4. ASSUME NEW x \in D PROVE a.headers[x] \in Header
  <2>1. sz[x] \in Nat /\ pv[x] \in D \cup {NULL} /\ nx[x] \in D \cup {NULL}
    BY <1>3, <1>4, Zenon DEF Around
  <2>2. fp[x] \in D \cup {NULL} /\ fn[x] \in D \cup {NULL}
    <3>1. CASE x \in FreeOf(D, fr)
      BY <3>1, Zenon DEF Whole, LinksIn
    <3>2. CASE x \notin FreeOf(D, fr)
      <4>1. fp[x] = NULL /\ fn[x] = NULL
        BY <1>4, <3>2, Zenon DEF Whole, Unlinked
      <4> QED
        BY <4>1, Zenon
    <3> QED
      BY <3>1, <3>2, Zenon
  <2>3. fr[x] \in BOOLEAN
    <3>1. Flags(fr) /\ x \in Int
      BY <1>3, <1>4, Zenon DEF Whole, Around
    <3> QED
      BY <3>1, Zenon DEF Flags
  <2>4. pv[x] \in Pointer /\ nx[x] \in Pointer /\ fp[x] \in Pointer /\ fn[x] \in Pointer
    BY <1>2, <2>1, <2>2, Zenon
  <2>5. HeaderOf(fr[x], sz[x], pv[x], nx[x], fp[x], fn[x]) \in Header
    BY <2>1, <2>3, <2>4, HeaderTyped, Zenon
  <2> QED
    BY <1>1, <1>4, <2>5, Zenon
<1>5. 0 \in D
  <2>1. PICK bl : Visits(bl, D, 0, nx, pv)
    BY Zenon DEF Whole
  <2>2. bl # <<>> /\ bl[1] = 0 /\ bl \in Seq(D)
    BY <2>1 DEF Visits, NULL
  <2> QED
    BY <2>2
<1>6. fh \in D \cup {NULL}
  BY Zenon DEF Whole, LinksIn
<1>7. {a.blockHead, a.freeHead} \subseteq Pointer
  <2>1. 0 \in Pointer /\ fh \in Pointer
    BY <1>2, <1>5, <1>6, Zenon
  <2> QED
    BY <1>1, <2>1, Zenon
<1> QED
  BY <1>1, <1>4, <1>7, Zenon

LEMMA InvImpliesConsistent ==
  ASSUME HeapInv
  PROVE  ListsConsistent
<1>1. PICK D, F, sz, nx, pages :
        /\ IsHeap(allocator, D, F, sz, nx, pages * PageSize) /\ Merged(F, nx) /\ Held(live, D, F, sz)
        /\ pages \in Nat /\ pages <= mapped
  BY Zenon DEF HeapInv, HeapAt
<1>2. PICK m \in Nat, k \in Nat, e \in Nat, f \in Nat :
        /\ m = mapped /\ k = MaxPages /\ m <= k /\ e = pages * PageSize /\ e <= m * PageSize
        /\ f = MaxPages * PageSize /\ e <= f
  <2>1. PICK m \in Nat, k \in Nat : m = mapped /\ k = MaxPages /\ m <= k
    BY HeapAssumption DEF HeapInv
  <2>2. pages * PageSize \in Nat /\ pages * PageSize <= m * PageSize
    BY <1>1, <2>1, EndInPages
  <2>3. pages <= k
    BY <1>1, <2>1
  <2>4. k * PageSize \in Nat /\ pages * PageSize <= k * PageSize
    BY <1>1, <2>1, <2>3, EndInPages
  <2> QED
    BY <2>1, <2>2, <2>4
<1>3. IsHeap(allocator, D, F, sz, nx, e)
  BY <1>1, <1>2, Zenon
<1>4. PICK fr, pv, fp, fn, fh : FreeIs(F, D, fr) /\ Whole(allocator, D, fr, sz, pv, nx, fp, fn, fh, e)
  BY <1>3, HeapWhole, Zenon
<1>5. PICK hs \in Nat : hs = HeaderSize
  BY HeapAssumption
<1>6. D \in SUBSET Nat /\ \A x \in D : x + HeaderSize < e
  BY <1>4, Zenon DEF Whole, InOrder
<1>7. D \subseteq Address
  BY <1>2, <1>5, <1>6 DEF Address
<1>8. TypeOK
  <2>1. /\ DOMAIN allocator = {"headers", "blockHead", "freeHead"}
        /\ {allocator.blockHead, allocator.freeHead} \subseteq Pointer
        /\ DOMAIN allocator.headers \subseteq Address
        /\ \A b \in DOMAIN allocator.headers : allocator.headers[b] \in Header
    BY <1>4, <1>7, PointersInside, Zenon
  <2>2. ASSUME NEW r \in live PROVE r \in [at : Address, size : Sizes]
    <3>1. r \in [at : Nat, size : Sizes] /\ r.at - HeaderSize \in D
      BY <1>1, <2>2, Zenon DEF Held, HeldAt
    <3>2. PICK x \in Nat : x = r.at - HeaderSize /\ x + HeaderSize < e
      BY <1>6, <3>1
    <3>3. r.at \in Address
      BY <1>2, <1>5, <3>1, <3>2 DEF Address
    <3> QED
      BY <3>1, <3>3
  <2> QED
    BY <2>1, <2>2 DEF TypeOK, HeapInv
<1>9. BlocksTile
  <2>1. BlocksOf(allocator, BlockList(allocator))
    BY <1>4, BlocksInOrder, Zenon
  <2>3. HeapEnd(allocator) = e
    BY <1>4, Zenon DEF Whole
  <2>4. e % PageSize = 0
    BY <1>1, <1>2, EndInPages, Zenon
  <2>5. HeapEnd(allocator) % PageSize = 0 /\ HeapEnd(allocator) <= mapped * PageSize
    BY <1>2, <2>3, <2>4, Zenon
  <2> QED
    BY <2>1, <2>5, Zenon DEF BlocksTile, BlocksOf
<1>10. FreeListExact
  <2>1. FreeBlocksOf(allocator, FreeList(allocator))
    BY <1>4, FreeListInOrder, Zenon
  <2> QED
    BY <2>1, Zenon DEF FreeListExact, FreeBlocksOf
<1>11. FullyMerged
  <2>1. DOMAIN allocator.headers = D
    BY <1>4, Zenon DEF Whole, Fields
  <2>2. ASSUME NEW b \in D, allocator.headers[b].isFree, allocator.headers[b].next # NULL
        PROVE  ~allocator.headers[allocator.headers[b].next].isFree
    <3>1. HeaderAt(allocator, D, F, sz, nx, e, b)
      BY <1>3, <2>2, IsHeapHeader, Zenon
    <3>2. b \in F /\ allocator.headers[b].next = nx[b] /\ nx[b] \in D
      BY <2>2, <3>1, Zenon DEF HeaderAt
    <3>3. HeaderAt(allocator, D, F, sz, nx, e, nx[b])
      BY <1>3, <3>2, IsHeapHeader, Zenon
    <3>4. nx[b] \notin F
      BY <1>1, <3>2, Zenon DEF Merged
    <3> QED
      BY <3>2, <3>3, <3>4, Zenon DEF HeaderAt
  <2> QED
    BY <2>1, <2>2, Zenon DEF FullyMerged
<1> QED
  BY <1>8, <1>9, <1>10, <1>11, Zenon DEF ListsConsistent

(***************************************************************************)
(* However kmalloc and kfree are called, and also after a growth that ran  *)
(* out of pages half-way, the block list covers the heap without gaps or   *)
(* overlaps, the free list holds exactly the free blocks, both with their  *)
(* back links, and no two free blocks are neighbours (split_block,         *)
(* block_allocator_allocate and block_allocator_free), for every page,     *)
(* header and heap size and any number of allocations.                     *)
(***************************************************************************)
THEOREM HeapListsConsistent == Spec => []ListsConsistent
<1>1. Init => HeapInv
  BY InitHeapInv
<1>2. HeapInv /\ [Next]_vars => HeapInv'
  BY NextOK DEF StepOK
<1>3. HeapInv => ListsConsistent
  BY InvImpliesConsistent
<1> QED
  BY <1>1, <1>2, <1>3, PTL DEF Spec

(***************************************************************************)
(* kmalloc and kfree implement module Heap: a pointer that kmalloc returns *)
(* is to mapped memory which overlaps nothing any caller still holds, and  *)
(* mapped memory does not go away, whatever sequence of requests, splits,  *)
(* merges and growths led there.                                           *)
(***************************************************************************)
THEOREM HeapImplemented == Spec => ImplementsHeap
<1>1. Init => HeapInv
  BY InitHeapInv
<1>2. HeapInv /\ [Next]_vars => HeapInv'
  BY NextOK DEF StepOK
<1>3. Init => Promise!Init
  BY DEF Init, Promise!Init
<1>4. HeapInv /\ [Next]_vars => [Promise!Next]_<<0..(mapped * PageSize - 1), live>>
  <2> SUFFICES ASSUME HeapInv, [Next]_vars PROVE Promise!Next
    OBVIOUS
  <2>1. StepOK
    BY NextOK
  <2>2. PICK m \in Nat, n \in Nat : m = mapped /\ n = mapped' /\ m <= n
    BY <2>1, HeapAssumption DEF StepOK, HeapInv
  <2>3. 0..(mapped * PageSize - 1) \subseteq 0..(mapped' * PageSize - 1)
    <3>1. PICK e \in Nat, f \in Nat : e = m * PageSize /\ f = n * PageSize /\ e <= f
      BY <2>2, EndInPages
    <3> QED
      BY <2>2, <3>1
  <2>4. /\ \A r \in live' : Promise!Region(r) \subseteq 0..(mapped' * PageSize - 1)
        /\ \A r, s \in live' : r # s => s.at # r.at /\ Promise!Region(s) \cap Promise!Region(r) = {}
    <3>1. HeapAt(allocator', n, live')
      BY <2>1, <2>2, Zenon DEF StepOK, HeapInv
    <3> QED
      BY <2>2, <3>1, RegionsApart, Zenon
  <2>5. CASE \E r \in live' : r \notin live /\ live' = live \cup {r}
    <3>1. PICK r \in live' : r \notin live /\ live' = live \cup {r}
      BY <2>5
    <3>2. \A s \in live : s.at # r.at /\ Promise!Region(s) \cap Promise!Region(r) = {}
      BY <2>4, <3>1, Zenon
    <3>3. Promise!Malloc
      BY <2>4, <3>1, <3>2, Zenon DEF Promise!Malloc
    <3> QED
      BY <2>3, <3>3, Zenon DEF Promise!Next
  <2>6. CASE \E r \in live : live' = live \ {r}
    BY <2>3, <2>6, Zenon DEF Promise!Next, Promise!Free
  <2>7. CASE live' = live
    BY <2>3, <2>7, Zenon DEF Promise!Next
  <2> QED
    BY <2>1, <2>5, <2>6, <2>7, Zenon DEF StepOK
<1> QED
  BY <1>1, <1>2, <1>3, <1>4, PTL DEF Spec, ImplementsHeap, Promise!Spec
=============================================================================
