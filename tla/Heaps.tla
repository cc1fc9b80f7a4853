------------------------------- MODULE Heaps -------------------------------
(***************************************************************************)
(* The allocators that come with the kernel as alternatives to heap_4.c,   *)
(* one of which the build could choose: heap_1.c never frees, heap_2.c     *)
(* takes the best fit and never merges, heap_5.c is heap_4.c on a heap of  *)
(* several regions.  Malloc and Free stand for the pvPortMalloc and        *)
(* vPortFree of the scheme chosen.                                         *)
(***************************************************************************)
EXTENDS Heap

CONSTANT
  HeapRegions    \* heap_5's: a sequence of [at, size], upwards and apart

ASSUME HeapsAssumption ==
  \A i \in DOMAIN HeapRegions :
    /\ HeapRegions[i].size > Header
    /\ i + 1 \in DOMAIN HeapRegions => Ends(HeapRegions[i]) <= HeapRegions[i + 1].at

----------------------------------------------------------------------------
(* heap_1: blocks without a header, one above the other.                   *)

heap_1_pvPortMalloc(h, wanted) ==
  LET b    == h.free[1]
      rest == [at |-> b.at + wanted, size |-> b.size - wanted]
  IN  IF wanted = 0 \/ wanted >= b.size THEN Failed(h)
      ELSE HandOut(h, <<rest>>, [b EXCEPT !.size = wanted])

heap_1_vPortFree(h, b) == h

----------------------------------------------------------------------------
(* heap_2: the free list is in the order of the sizes.                     *)

heap_2_prvInsertBlockIntoFreeList(free, b) ==
  LET i == SelectInSeq(free, LAMBDA f : f.size >= b.size)
  IN  IF i = 0 THEN Append(free, b) ELSE InsertAt(free, i, b)

heap_2_pvPortMalloc(h, wanted) ==
  LET size  == wanted + Header
      i     == SelectInSeq(h.free, LAMBDA f : f.size >= size)
      b     == h.free[i]
      rest  == RemoveAt(h.free, i)
      split == b.size - size > MinimumBlock
      over  == [at |-> b.at + size, size |-> b.size - size]
  IN  IF wanted = 0 \/ size >= HeapSize \/ i = 0 THEN Failed(h)
      ELSE IF split
      THEN HandOut(h, heap_2_prvInsertBlockIntoFreeList(rest, over),
                   [b EXCEPT !.size = size])
      ELSE HandOut(h, rest, b)

heap_2_vPortFree(h, b) ==
  TakeBack(h, heap_2_prvInsertBlockIntoFreeList(h.free, b), b)

----------------------------------------------------------------------------
(* heap_5: a region's last header is an end marker, which leads on to the  *)
(* next region as a free block of no size; a block freed next to it        *)
(* swallows it.                                                            *)

Usable(r) == [r EXCEPT !.size = @ - Header]
EndMarker(r) == [at |-> Ends(Usable(r)), size |-> 0]

vPortDefineHeapRegions ==
  LET n == Len(HeapRegions)
      linked == [i \in 1 .. 2 * n - 1 |->
                   IF i % 2 = 1 THEN Usable(HeapRegions[(i + 1) \div 2])
                   ELSE EndMarker(HeapRegions[i \div 2])]
  IN  [scheme |-> "heap_5", free |-> linked, used |-> {},
       left |-> FoldLeft(LAMBDA a, b : a + b.size, 0, linked)]

heap_5_pvPortMalloc(h, wanted) == pvPortMalloc(h, wanted)
heap_5_vPortFree(h, b) == vPortFree(h, b)

----------------------------------------------------------------------------
(* The scheme chosen.                                                      *)

HeapInit(scheme) ==
  IF scheme = "heap_5" THEN vPortDefineHeapRegions
  ELSE [prvHeapInit EXCEPT !.scheme = scheme]

Malloc(h, wanted) ==
  CASE h.scheme = "heap_1" -> heap_1_pvPortMalloc(h, wanted)
    [] h.scheme = "heap_2" -> heap_2_pvPortMalloc(h, wanted)
    [] h.scheme = "heap_5" -> heap_5_pvPortMalloc(h, wanted)
    [] OTHER               -> pvPortMalloc(h, wanted)

Free(h, b) ==
  CASE h.scheme = "heap_1" -> heap_1_vPortFree(h, b)
    [] h.scheme = "heap_2" -> heap_2_vPortFree(h, b)
    [] h.scheme = "heap_5" -> heap_5_vPortFree(h, b)
    [] OTHER               -> vPortFree(h, b)
=============================================================================
