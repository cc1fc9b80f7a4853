-------------------------------- MODULE Heap --------------------------------
(***************************************************************************)
(* The kernel's allocator (firmware/librtos/heap_4.c): first fit from a    *)
(* list of free blocks in the order of their addresses, a block split when *)
(* enough of it is left over, and a freed block merged with the free ones  *)
(* next to it.  Addresses and sizes are in units of the alignment, from    *)
(* the start of the heap; a block's size includes its header.              *)
(***************************************************************************)
EXTENDS Integers, FiniteSets, Sequences, SequencesExt

CONSTANTS
  HeapSize,      \* what prvHeapInit leaves for the first free block
  Header         \* xHeapStructSize

ASSUME HeapAssumption == Header \in Nat \ {0} /\ HeapSize \in Nat \ {0}

MinimumBlock == 2 * Header                \* heapMINIMUM_BLOCK_SIZE

\* scheme: the source file, free: the free list, used: the blocks handed out,
\* left: xFreeBytesRemaining.
prvHeapInit ==
  [scheme |-> "heap_4", free |-> <<[at |-> 0, size |-> HeapSize]>>,
   used |-> {}, left |-> HeapSize]

Ends(b) == b.at + b.size

\* Behind the last free block before it; merged with that one and with the
\* next where they touch.  The end of the heap is no block to merge with.
prvInsertBlockIntoFreeList(free, b) ==
  LET n      == Cardinality({i \in DOMAIN free : free[i].at < b.at})
      before == SubSeq(free, 1, n)
      after  == SubSeq(free, n + 1, Len(free))
      left   == n > 0 /\ Ends(free[n]) = b.at
      right  == after # <<>> /\ Ends(b) = after[1].at
      at     == IF left THEN free[n].at ELSE b.at
      to     == IF right THEN Ends(after[1]) ELSE Ends(b)
  IN  (IF left THEN Front(before) ELSE before)
        \o <<[at |-> at, size |-> to - at]>>
        \o (IF right THEN Tail(after) ELSE after)

Failed(h) == [h |-> h, got |-> {}]
HandOut(h, free, b) ==
  [h |-> [h EXCEPT !.free = free, !.used = @ \cup {b}, !.left = @ - b.size],
   got |-> {b}]
TakeBack(h, free, b) ==
  [h EXCEPT !.free = free, !.used = @ \ {b}, !.left = @ + b.size]

\* The heap after pvPortMalloc of wanted units, and the block, if any.
pvPortMalloc(h, wanted) ==
  LET size  == wanted + Header
      i     == SelectInSeq(h.free, LAMBDA b : b.size >= size)
      b     == h.free[i]
      rest  == RemoveAt(h.free, i)
      split == b.size - size > MinimumBlock
      got   == [at |-> b.at, size |-> IF split THEN size ELSE b.size]
      over  == [at |-> b.at + size, size |-> b.size - size]
  IN  IF wanted = 0 \/ size > h.left \/ i = 0 THEN Failed(h)
      ELSE HandOut(h, IF split THEN prvInsertBlockIntoFreeList(rest, over)
                      ELSE rest, got)

HeaderLost(h, b) ==                        \* a mutant
  IF b \notin h.used THEN h
  ELSE [TakeBack(h, prvInsertBlockIntoFreeList(h.free, b), b)
          EXCEPT !.left = @ - Header]

\* A block whose allocated bit is clear is left alone.
vPortFree(h, b) ==
  IF b \notin h.used THEN h
  ELSE TakeBack(h, prvInsertBlockIntoFreeList(h.free, b), b)
=============================================================================
