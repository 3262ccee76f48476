------------------------------- MODULE MCPmm -------------------------------
(* Memory maps for Pmm.  Pages have 8 bytes, so one page of bitmap         *)
(* describes 64 pages; the kernel's region is pages 0..27.                 *)
EXTENDS Pmm

E(b, l, t) == [base |-> b, length |-> l, type |-> t]

\* Low memory, an unaligned hole, then five free pages of high memory.
Plain == <<E(0, 150, 1), E(150, 10, 2), E(160, 104, 1)>>
\* A usable entry that starts in the middle of a page, entries out of order.
Unordered == <<E(277, 11, 1), E(229, 27, 1), E(0, 224, 1), E(224, 5, 2)>>
\* High memory above page 64: the bitmap takes two pages of the pool.
TwoPages == <<E(0, 224, 1), E(224, 376, 2), E(600, 32, 1)>>
\* The number of pages is a multiple of 8: the bitmap has no padding.
NoPadding == <<E(0, 224, 1), E(224, 32, 1)>>
\* A usable entry whose end is not page aligned, followed by reserved memory.
UnalignedMaps == {<<E(0, 224, 1), E(224, 36, 1), E(260, 60, 2)>>}

\* The bitmap fills the pool to its last page; it ends one page past the pool,
\* in memory that is mapped.
Brimful == <<E(0, 224, 1), E(6272, 16, 1)>>
PastPool == <<E(0, 224, 1), E(6784, 16, 1)>>

\* No usable memory; a bitmap that does not fit in the mapped region; a map too
\* long for the pool.
NoMemory == <<E(0, 224, 2)>>
TooHuge == <<E(0, 224, 1), E(12000, 16, 1)>>
LongMap == [k \in 1 .. 9 |-> E(0, 224, 1)]
Maps == {Plain, Unordered, TwoPages, NoPadding, Brimful, PastPool,
         <<>>, NoMemory, TooHuge, LongMap}
=============================================================================
