----------------------------- MODULE PmmProofs -----------------------------
(***************************************************************************)
(* Proofs about the physical memory manager, for every page size, pool,    *)
(* kernel region and set of memory maps.                                   *)
(***************************************************************************)
EXTENDS Pmm, TLAPS

(* Dividing the address of a frame by the page size gives the frame back,  *)
(* so pmm_free clears the bit pmm_alloc set.                               *)
LEMMA FrameOfAddress ==
    \A f \in Nat : (f * PAGE_SIZE) \div PAGE_SIZE = f
  BY ConstantsAssumption

(* A pointer past the end of memory has a page index past the bitmap.      *)
LEMMA StrayBlock ==
    ASSUME NEW n \in Nat
    PROVE  /\ (n * PAGE_SIZE) \div PAGE_SIZE >= n
           /\ ((n + 1) * PAGE_SIZE - 1) \div PAGE_SIZE >= n
  BY ConstantsAssumption

(* Rounding up never leaves the naturals.                                  *)
LEMMA CeilDivType ==
    ASSUME NEW a \in Nat, NEW b \in Nat \ {0}
    PROVE  CeilDiv(a, b) \in Nat
  BY DEF CeilDiv

(* The entries of the map the kernel was given.                            *)
LEMMA EntryFields ==
    ASSUME mmap \in Mmaps, NEW k \in 1 .. Len(mmap)
    PROVE  /\ mmap[k].base \in Nat
           /\ mmap[k].length \in Nat
  <1>1. mmap \in Seq(Entry)
    BY ConstantsAssumption
  <1>2. mmap[k] \in Entry
    BY <1>1
  <1> QED
    BY <1>2 DEF Entry

(* The number of entries is a natural number.                              *)
LEMMA LenType ==
    ASSUME mmap \in Mmaps
    PROVE  Len(mmap) \in Nat
  <1>1. mmap \in Seq(Entry)
    BY ConstantsAssumption
  <1> QED
    BY <1>1

(* alloc_page never moves next_free out of the pool.                       *)
LEMMA AllocPagesType ==
    ASSUME NEW nf \in POOL_START .. POOL_END - 1, NEW k \in Nat
    PROVE  AllocPages(nf, k) \in POOL_START .. POOL_END - 1
  BY ConstantsAssumption DEF AllocPages
-----------------------------------------------------------------------------
(* The sizes pmm_init computes are naturals.                               *)
LEMMA BitmapSizeType ==
    ASSUME last_usable_end \in Nat
    PROVE  NumPages \in Nat /\ BitmapSize \in Nat /\ BitmapPages \in Nat
  <1>1. NumPages \in Nat
    BY CeilDivType, ConstantsAssumption DEF NumPages
  <1>2. BitmapSize \in Nat
    BY <1>1, CeilDivType DEF BitmapSize
  <1>3. BitmapPages \in Nat
    BY <1>2, CeilDivType, ConstantsAssumption DEF BitmapPages
  <1> QED
    BY <1>1, <1>2, <1>3

(* Every step of pmm.c keeps the variables in their types: the pool        *)
(* pointer stays inside the pool whatever the memory map.                  *)
LEMMA TypeStep == TypeOK /\ [Next]_vars => TypeOK'
  <1> SUFFICES ASSUME TypeOK, [Next]_vars
               PROVE  TypeOK'
    OBVIOUS
  <1> USE DEF TypeOK, sizes, pool
  <1>1. CASE PoolPrefix
    <2>1. Len(mmap) \in Nat
      BY LenType
    <2>2. CeilDiv(MMAP_ENTRY_SIZE * Len(mmap), PAGE_SIZE) \in Nat
      BY <2>1, CeilDivType, ConstantsAssumption DEF MMAP_ENTRY_SIZE
    <2>3. next_free' \in POOL_START .. POOL_END - 1
      BY <1>1, <2>2, AllocPagesType DEF PoolPrefix
    <2> QED
      BY <1>1, <2>3 DEF PoolPrefix
  <1>2. CASE ScanEntry
    <2>1. Len(mmap) \in Nat /\ i \in 1 .. Len(mmap)
      BY <1>2, LenType DEF ScanEntry
    <2>2. mmap[i].base \in Nat /\ mmap[i].length \in Nat
      BY <2>1, EntryFields
    <2>3. last_usable_end' \in Nat
      BY <1>2, <2>2 DEF ScanEntry
    <2>4. UNCHANGED <<mmap, phase, pool, sizes, used, ret, held>> /\ i' = i + 1
      BY <1>2 DEF ScanEntry
    <2> QED
      BY <2>3, <2>4
  <1>3. CASE AllocBitmap
    <2>1. next_free' \in POOL_START .. POOL_END - 1
      BY <1>3, BitmapSizeType, AllocPagesType DEF AllocBitmap
    <2>2. mem_bitmap' \in Nat
      BY <1>3, ConstantsAssumption DEF AllocBitmap, AllocPage, NULL
    <2>3. used' \subseteq Nat
      <3>1. used' = 0 .. 8 * BitmapSize - 1 \/ used' = used
        BY <1>3 DEF AllocBitmap
      <3>2. 0 .. 8 * BitmapSize - 1 \subseteq Nat
        BY BitmapSizeType
      <3> QED
        BY <3>1, <3>2
    <2>4. phase' \in {"mark", "fault"}
      BY <1>3 DEF AllocBitmap
    <2>5. /\ mem_bitmap_size' \in Nat
          /\ mem_bitmap_bit_size' \in Nat
          /\ i' = 1
          /\ UNCHANGED <<mmap, last_usable_end, ret, held>>
      BY <1>3, BitmapSizeType DEF AllocBitmap
    <2> QED
      BY <2>1, <2>2, <2>3, <2>4, <2>5
  <1>4. CASE AllocBitmapSpin
    <2>1. next_free' \in POOL_START .. POOL_END - 1
      BY <1>4, AllocPagesType, ConstantsAssumption DEF AllocBitmapSpin
    <2>2. mem_bitmap' \in Nat
      BY <1>4, ConstantsAssumption DEF AllocBitmapSpin, AllocPage, NULL
    <2> QED
      BY <1>4, <2>1, <2>2 DEF AllocBitmapSpin
  <1>5. CASE MarkEntry
    <2>1. used' = used \ EntryPages(mmap[i]) \/ used' = used
      BY <1>5 DEF MarkEntry
    <2>2. used' \subseteq Nat
      BY <2>1
    <2> QED
      BY <1>5, <2>2 DEF MarkEntry
  <1>6. CASE MarkKernel
    BY <1>6, ConstantsAssumption DEF MarkKernel, KernelPages
  <1>7. CASE pmm_alloc
    <2>1. PICK f \in 0 .. mem_bitmap_bit_size - 1 :
              /\ used' = used \cup {f}
              /\ ret' = f * PAGE_SIZE
              /\ held' = held \cup {f}
      BY <1>7 DEF pmm_alloc
    <2>2. f * PAGE_SIZE \in Nat
      BY ConstantsAssumption
    <2> QED
      BY <1>7, <2>1, <2>2 DEF pmm_alloc
  <1>8. CASE pmm_alloc_fails
    BY <1>8 DEF pmm_alloc_fails, NULL
  <1>9. ASSUME NEW block, pmm_free(block)
        PROVE  TypeOK'
    BY <1>9 DEF pmm_free, PastEnd
  <1>10. CASE UNCHANGED vars
    BY <1>10 DEF vars
  <1> QED
    BY <1>1, <1>2, <1>3, <1>4, <1>5, <1>6, <1>7, <1>8, <1>9, <1>10
       DEF Next, PmmInit, FreeHeld, FreeStray, Stopped

(* The variables of the physical memory manager always have their types.   *)
THEOREM PmmTypeCorrect == Spec => []TypeOK
  <1>1. Init => TypeOK
    BY ConstantsAssumption DEF Init, TypeOK, NULL
  <1> QED
    BY <1>1, TypeStep, PTL DEF Spec
-----------------------------------------------------------------------------
(* Pages cleared by the first n iterations of the marking loop.            *)
Cleared(n) ==
    UNION {EntryPages(mmap[k]) :
             k \in {j \in 1 .. Len(mmap) : Usable(mmap[j]) /\ j < n}}

(* Ownership says nothing before pmm_init is done, so it needs the         *)
(* invariants of the two loops: after n entries last_usable_end bounds     *)
(* them, and exactly their pages have been cleared.                        *)
Bounded(k) ==
    Usable(mmap[k]) => mmap[k].base + mmap[k].length <= last_usable_end

ScanInv ==
    /\ phase = "boot" => i = 1
    /\ phase = "scan" => \A k \in 1 .. Len(mmap) : k < i => Bounded(k)
    /\ phase = "mark" => \A k \in 1 .. Len(mmap) : Bounded(k)

MarkInv == phase = "mark" => used = BitmapBits \ Cleared(i)

BootInv == phase # "ready" => held = {} /\ ret = NULL

PmmInv == TypeOK /\ ScanInv /\ MarkInv /\ BootInv /\ Ownership

(* One iteration clears the pages of one entry.                            *)
LEMMA ClearedStep ==
    ASSUME TypeOK, i \in 1 .. Len(mmap)
    PROVE  Cleared(i + 1) = IF Usable(mmap[i])
                            THEN Cleared(i) \cup EntryPages(mmap[i])
                            ELSE Cleared(i)
  <1> DEFINE K(n) == {j \in 1 .. Len(mmap) : Usable(mmap[j]) /\ j < n}
  <1>1. Len(mmap) \in Nat
    BY LenType DEF TypeOK
  <1>2. K(i + 1) = IF Usable(mmap[i]) THEN K(i) \cup {i} ELSE K(i)
    BY <1>1 DEF TypeOK
  <1> QED
    BY <1>2 DEF Cleared

(* When the loop is over, every usable entry has been cleared.             *)
LEMMA ClearedAll ==
    ASSUME TypeOK, i > Len(mmap)
    PROVE  Cleared(i) = UNION {EntryPages(mmap[k]) :
                          k \in {j \in 1 .. Len(mmap) : Usable(mmap[j])}}
  <1>1. Len(mmap) \in Nat
    BY LenType DEF TypeOK
  <1>2. {j \in 1 .. Len(mmap) : Usable(mmap[j]) /\ j < i}
          = {j \in 1 .. Len(mmap) : Usable(mmap[j])}
    BY <1>1 DEF TypeOK
  <1> QED
    BY <1>2 DEF Cleared

(* The step from one state of the invariant to the next, part by part.     *)
LEMMA ScanStep == PmmInv /\ [Next]_vars => ScanInv'
  <1> SUFFICES ASSUME PmmInv, [Next]_vars
               PROVE  ScanInv'
    OBVIOUS
  <1> USE DEF PmmInv, ScanInv, Bounded, pool, sizes
  <1>0. Len(mmap) \in Nat
    BY LenType DEF TypeOK
  <1>1. CASE PoolPrefix
    BY <1>0, <1>1 DEF PoolPrefix, TypeOK
  <1>2. CASE ScanEntry
    <2>1. i \in 1 .. Len(mmap)
      BY <1>0, <1>2 DEF ScanEntry, TypeOK
    <2>2. mmap[i].base \in Nat /\ mmap[i].length \in Nat
      BY <2>1, EntryFields DEF TypeOK
    <2>3. /\ last_usable_end' \in Nat
          /\ last_usable_end <= last_usable_end'
          /\ Usable(mmap[i]) => mmap[i].base + mmap[i].length <= last_usable_end'
      BY <1>2, <2>2 DEF ScanEntry, TypeOK
    <2>4. ASSUME NEW k \in 1 .. Len(mmap), k < i + 1, Usable(mmap[k])
          PROVE  mmap[k].base + mmap[k].length <= last_usable_end'
      <3>1. mmap[k].base \in Nat /\ mmap[k].length \in Nat
        BY EntryFields DEF TypeOK
      <3>2. CASE k = i
        BY <2>3, <2>4, <3>2
      <3>3. CASE k < i
        BY <1>2, <2>3, <2>4, <3>1, <3>3 DEF ScanEntry, TypeOK
      <3> QED
        BY <2>4, <3>2, <3>3 DEF TypeOK
    <2> QED
      BY <1>2, <2>4 DEF ScanEntry, Usable
  <1>3. CASE AllocBitmap
    BY <1>0, <1>3 DEF AllocBitmap, TypeOK
  <1>4. CASE AllocBitmapSpin
    BY <1>4 DEF AllocBitmapSpin
  <1>5. CASE MarkEntry
    BY <1>5 DEF MarkEntry
  <1>6. CASE MarkKernel
    BY <1>6 DEF MarkKernel
  <1>7. CASE pmm_alloc
    BY <1>7 DEF pmm_alloc
  <1>8. CASE pmm_alloc_fails
    BY <1>8 DEF pmm_alloc_fails
  <1>9. ASSUME NEW block, pmm_free(block)
        PROVE  ScanInv'
    BY <1>9 DEF pmm_free, PastEnd
  <1>10. CASE UNCHANGED vars
    BY <1>10 DEF vars
  <1> QED
    BY <1>1, <1>2, <1>3, <1>4, <1>5, <1>6, <1>7, <1>8, <1>9, <1>10
       DEF Next, PmmInit, FreeHeld, FreeStray, Stopped

LEMMA MarkStep == PmmInv /\ [Next]_vars => MarkInv' /\ BootInv'
  <1> SUFFICES ASSUME PmmInv, [Next]_vars
               PROVE  MarkInv' /\ BootInv'
    OBVIOUS
  <1> USE DEF PmmInv, MarkInv, BootInv, pool, sizes
  <1>0. Len(mmap) \in Nat
    BY LenType DEF TypeOK
  <1>1. CASE PoolPrefix
    BY <1>1 DEF PoolPrefix
  <1>2. CASE ScanEntry
    BY <1>2 DEF ScanEntry
  <1>3. CASE AllocBitmap
    <2>1. BootInv'
      BY <1>3 DEF AllocBitmap
    <2>2. ASSUME phase' = "mark"
          PROVE  used' = BitmapBits' \ Cleared(i)'
      <3>1. used' = BitmapBits'
        BY <1>3, <2>2 DEF AllocBitmap, BitmapBits
      <3>2. {j \in 1 .. Len(mmap') : Usable(mmap'[j]) /\ j < i'} = {}
        BY <1>0, <1>3 DEF AllocBitmap
      <3>3. Cleared(i)' = {}
        BY <3>2 DEF Cleared
      <3> QED
        BY <3>1, <3>3
    <2> QED
      BY <2>1, <2>2
  <1>4. CASE AllocBitmapSpin
    BY <1>4 DEF AllocBitmapSpin
  <1>5. CASE MarkEntry
    <2>1. i \in 1 .. Len(mmap)
      BY <1>0, <1>5 DEF MarkEntry, TypeOK
    <2>2. mmap[i].base \in Nat /\ mmap[i].length \in Nat
      BY <2>1, EntryFields DEF TypeOK
    <2>3. Usable(mmap[i]) => mmap[i].base <= last_usable_end
      BY <1>5, <2>1, <2>2 DEF MarkEntry, ScanInv, Bounded, TypeOK
    <2>4. used' = IF Usable(mmap[i]) THEN used \ EntryPages(mmap[i]) ELSE used
      BY <1>5, <2>3 DEF MarkEntry
    <2>5. BitmapBits' = BitmapBits /\ Cleared(i)' = Cleared(i + 1)
      BY <1>5 DEF MarkEntry, BitmapBits, Cleared, EntryPages, Usable
    <2>6. used' = BitmapBits \ Cleared(i + 1)
      BY <1>5, <2>1, <2>4, ClearedStep DEF MarkEntry
    <2> QED
      BY <1>5, <2>5, <2>6 DEF MarkEntry
  <1>6. CASE MarkKernel
    BY <1>6 DEF MarkKernel
  <1>7. CASE pmm_alloc
    BY <1>7 DEF pmm_alloc
  <1>8. CASE pmm_alloc_fails
    BY <1>8 DEF pmm_alloc_fails
  <1>9. ASSUME NEW block, pmm_free(block)
        PROVE  MarkInv' /\ BootInv'
    BY <1>9 DEF pmm_free, PastEnd
  <1>10. CASE UNCHANGED vars
    BY <1>10 DEF vars, BitmapBits, Cleared, EntryPages, Usable
  <1> QED
    BY <1>1, <1>2, <1>3, <1>4, <1>5, <1>6, <1>7, <1>8, <1>9, <1>10
       DEF Next, PmmInit, FreeHeld, FreeStray, Stopped

LEMMA OwnershipStep == PmmInv /\ [Next]_vars => Ownership'
  <1> SUFFICES ASSUME PmmInv, [Next]_vars
               PROVE  Ownership'
    OBVIOUS
  <1> USE DEF PmmInv, Ownership, pool, sizes
  <1>1. CASE PoolPrefix
    BY <1>1 DEF PoolPrefix
  <1>2. CASE ScanEntry
    BY <1>2 DEF ScanEntry
  <1>3. CASE AllocBitmap
    BY <1>3 DEF AllocBitmap
  <1>4. CASE AllocBitmapSpin
    BY <1>4 DEF AllocBitmapSpin
  <1>5. CASE MarkEntry
    BY <1>5 DEF MarkEntry
  <1>6. CASE MarkKernel
    <2>1. used = BitmapBits \ Cleared(i)
      BY <1>6 DEF MarkKernel, MarkInv
    <2>2. used \cup KernelPages = Reserved
      BY <1>6, <2>1, ClearedAll DEF MarkKernel, Reserved
    <2>3. Reserved' = Reserved
      BY <1>6 DEF MarkKernel, Reserved, BitmapBits, EntryPages, Usable
    <2>4. held' = {}
      BY <1>6 DEF MarkKernel, BootInv
    <2> QED
      BY <1>6, <2>2, <2>3, <2>4 DEF MarkKernel
  <1>7. CASE pmm_alloc
    <2>1. PICK f \in 0 .. mem_bitmap_bit_size - 1 :
              /\ f \notin used
              /\ used' = used \cup {f}
              /\ held' = held \cup {f}
      BY <1>7 DEF pmm_alloc, FirstFree
    <2>2. Reserved' = Reserved
      BY <1>7 DEF pmm_alloc, Reserved, BitmapBits, EntryPages, Usable
    <2> QED
      BY <1>7, <2>1, <2>2 DEF pmm_alloc
  <1>8. CASE pmm_alloc_fails
    BY <1>8 DEF pmm_alloc_fails, Reserved, BitmapBits, EntryPages, Usable
  <1>9. CASE FreeHeld
    <2>1. PICK f \in held : pmm_free(f * PAGE_SIZE)
      BY <1>9 DEF FreeHeld
    <2>2. (f * PAGE_SIZE) \div PAGE_SIZE = f
      BY FrameOfAddress DEF TypeOK
    <2>3. \/ UNCHANGED <<used, held>>
          \/ used' = used \ {f} /\ held' = held \ {f}
      BY <2>1, <2>2 DEF pmm_free, PastEnd
    <2>4. Reserved' = Reserved
      BY <2>1 DEF pmm_free, PastEnd, Reserved, BitmapBits, EntryPages, Usable
    <2> QED
      BY <2>1, <2>3, <2>4 DEF pmm_free, PastEnd
  <1>10. CASE FreeStray
    <2>1. PICK block \in {mem_bitmap_bit_size * PAGE_SIZE,
                          (mem_bitmap_bit_size + 1) * PAGE_SIZE - 1} :
              pmm_free(block)
      BY <1>10 DEF FreeStray
    <2>2. block \div PAGE_SIZE >= mem_bitmap_bit_size
      BY <2>1, StrayBlock DEF TypeOK
    <2>3. UNCHANGED <<used, held>>
      BY <2>1, <2>2 DEF pmm_free, PastEnd
    <2>4. Reserved' = Reserved
      BY <2>1 DEF pmm_free, PastEnd, Reserved, BitmapBits, EntryPages, Usable
    <2> QED
      BY <2>1, <2>3, <2>4 DEF pmm_free, PastEnd
  <1>11. CASE UNCHANGED vars
    BY <1>11 DEF vars, Reserved, BitmapBits, EntryPages, Usable
  <1> QED
    BY <1>1, <1>2, <1>3, <1>4, <1>5, <1>6, <1>7, <1>8, <1>9, <1>10, <1>11
       DEF Next, PmmInit, Stopped

(* The loop invariants and Ownership hold throughout.                      *)
LEMMA PmmInvariant == Spec => []PmmInv
  <1>1. Init => PmmInv
    BY ConstantsAssumption
       DEF Init, PmmInv, TypeOK, ScanInv, MarkInv, BootInv, Ownership, NULL
  <1>2. PmmInv /\ [Next]_vars => PmmInv'
    BY TypeStep, ScanStep, MarkStep, OwnershipStep DEF PmmInv
  <1> QED
    BY <1>1, <1>2, PTL DEF Spec

(* No frame is lent twice, lost, or taken from the kernel, for every       *)
(* memory map, every page size and every interleaving of pmm_alloc and     *)
(* pmm_free by clients that free what they were lent.                      *)
THEOREM PmmOwnership == Spec => []Ownership
  BY PmmInvariant, PTL DEF PmmInv
-----------------------------------------------------------------------------
(* Frame 0 is reserved, so no frame that is lent has the address NULL.     *)
LEMMA LentAddress ==
    ASSUME PmmInv, phase = "ready",
           NEW f \in 0 .. mem_bitmap_bit_size - 1, f \notin used
    PROVE  f * PAGE_SIZE # NULL
  <1>1. 0 \in used
    BY ConstantsAssumption DEF PmmInv, Ownership, Reserved, KernelPages
  <1>2. f \in Nat /\ f # 0
    BY <1>1 DEF PmmInv, TypeOK
  <1> QED
    BY <1>2, ConstantsAssumption DEF NULL

(* Every step of pmm.c is a step of the frame allocator, or leaves it      *)
(* alone.                                                                  *)
LEMMA RefinementStep == PmmInv /\ PmmInv' /\ [Next]_vars => [Abs!Next]_Abs!absVars
  <1> SUFFICES ASSUME PmmInv, PmmInv', [Next]_vars
               PROVE  [Abs!Next]_Abs!absVars
    OBVIOUS
  <1> USE DEF pool, sizes, Abs!absVars
  <1>1. CASE PoolPrefix
    BY <1>1 DEF PoolPrefix
  <1>2. CASE ScanEntry
    BY <1>2 DEF ScanEntry
  <1>3. CASE AllocBitmap
    BY <1>3 DEF AllocBitmap
  <1>4. CASE AllocBitmapSpin
    BY <1>4 DEF AllocBitmapSpin
  <1>5. CASE MarkEntry
    BY <1>5 DEF MarkEntry
  <1>6. CASE MarkKernel
    <2>1. KernelPages \subseteq used'
      BY <1>6 DEF MarkKernel
    <2>2. Abs!Open
      BY <1>6, <2>1 DEF MarkKernel, Abs!Open
    <2> QED
      BY <2>2 DEF Abs!Next
  <1>7. CASE pmm_alloc
    <2>1. PICK f \in 0 .. mem_bitmap_bit_size - 1 :
              /\ f \notin used
              /\ used' = used \cup {f}
              /\ ret' = f * PAGE_SIZE
              /\ held' = held \cup {f}
      BY <1>7 DEF pmm_alloc, FirstFree
    <2>2. phase = "ready" /\ phase' = "ready"
          /\ mem_bitmap_bit_size' = mem_bitmap_bit_size
      BY <1>7 DEF pmm_alloc
    <2>3. ret' # NULL
      BY <2>1, <2>2, LentAddress
    <2>4. ret' \div PAGE_SIZE = f
      BY <2>1, FrameOfAddress DEF PmmInv, TypeOK
    <2>5. Abs!Alloc
      BY <2>1, <2>2, <2>3, <2>4 DEF Abs!Alloc
    <2> QED
      BY <2>5 DEF Abs!Next
  <1>8. CASE pmm_alloc_fails
    <2>1. Abs!Refuse
      BY <1>8 DEF pmm_alloc_fails, Abs!Refuse
    <2> QED
      BY <2>1 DEF Abs!Next
  <1>9. CASE FreeHeld
    <2>1. PICK f \in held : pmm_free(f * PAGE_SIZE)
      BY <1>9 DEF FreeHeld
    <2>2. (f * PAGE_SIZE) \div PAGE_SIZE = f
      BY FrameOfAddress DEF PmmInv, TypeOK
    <2>3. /\ phase = "ready" /\ phase' = "ready"
          /\ f \in 0 .. mem_bitmap_bit_size - 1
          /\ mem_bitmap_bit_size' = mem_bitmap_bit_size
      BY <2>1 DEF pmm_free, PastEnd, PmmInv, Ownership
    <2>4. used' = used \ {f} /\ held' = held \ {f} /\ ret' = ret
      BY <2>1, <2>2, <2>3 DEF pmm_free, PastEnd, PmmInv, TypeOK
    <2>5. Abs!Free
      BY <2>3, <2>4 DEF Abs!Free
    <2> QED
      BY <2>5 DEF Abs!Next
  <1>10. CASE FreeStray
    <2>1. PICK block \in {mem_bitmap_bit_size * PAGE_SIZE,
                          (mem_bitmap_bit_size + 1) * PAGE_SIZE - 1} :
              pmm_free(block)
      BY <1>10 DEF FreeStray
    <2>2. block \div PAGE_SIZE >= mem_bitmap_bit_size
      BY <2>1, StrayBlock DEF PmmInv, TypeOK
    <2> QED
      BY <2>1, <2>2 DEF pmm_free, PastEnd
  <1>11. CASE UNCHANGED vars
    BY <1>11 DEF vars
  <1> QED
    BY <1>1, <1>2, <1>3, <1>4, <1>5, <1>6, <1>7, <1>8, <1>9, <1>10, <1>11
       DEF Next, PmmInit, Stopped

(* pmm.c implements the abstract frame allocator: at most one holder per   *)
(* frame, "no frame" only when none is free, no pinned frame lent.         *)
THEOREM PmmRefinesFrameAllocator == Spec => FrameAllocatorSpec
  <1>1. Init => Abs!Init
    BY DEF Init, Abs!Init, NULL
  <1> QED
    BY <1>1, PmmInvariant, RefinementStep, PTL DEF Spec, FrameAllocatorSpec, Abs!Spec

-----------------------------------------------------------------------------
(* BitmapBacked is about where alloc_page stands when pmm_init calls it,   *)
(* and HeldUsable needs a bit for every page pmm_alloc looks at.           *)
MapBytes == MMAP_ENTRY_SIZE * Len(mmap)
PoolInv ==
    /\ phase = "boot" => next_free = POOL_START
    /\ phase = "scan" => next_free = POOL_START + 5 + CeilDiv(MapBytes, PAGE_SIZE)
    /\ phase \in {"mark", "ready"} => mem_bitmap_bit_size <= 8 * mem_bitmap_size
    /\ BitmapBacked

(* What rounding up to pages, or to bytes of the bitmap, gives.            *)
LEMMA CeilDivFacts ==
    ASSUME NEW a \in Nat, NEW b \in Nat \ {0}
    PROVE  /\ CeilDiv(a, b) \in Nat
           /\ a <= b * CeilDiv(a, b)
           /\ \A n \in Nat : n < CeilDiv(a, b) => n * b < a
           /\ \A n \in Nat : CeilDiv(a, b) <= n => a <= n * b
  <1> DEFINE q == CeilDiv(a, b)
  <1>1. q \in Nat
    BY CeilDivType
  <1>2. /\ (a + b - 1) % b \in 0 .. b - 1
        /\ a + b - 1 = b * q + ((a + b - 1) % b)
    BY DEF CeilDiv
  <1> HIDE DEF q
  <1>3. b * q \in Nat
    BY <1>1
  <1>4. a <= b * q /\ b * q <= a + b - 1
    BY <1>2, <1>3
  <1>5. ASSUME NEW n \in Nat, n < q
        PROVE  n * b < a
    <2>1. n * b + b <= b * q
      BY <1>1, <1>5
    <2>2. n * b \in Nat
      OBVIOUS
    <2> QED
      BY <1>3, <1>4, <2>1, <2>2
  <1>6. ASSUME NEW n \in Nat, q <= n
        PROVE  a <= n * b
    <2>1. b * q <= n * b /\ n * b \in Nat
      BY <1>1, <1>6
    <2> QED
      BY <1>3, <1>4, <2>1
  <1> QED
    BY <1>1, <1>4, <1>5, <1>6 DEF q

LEMMA PoolStep == PmmInv /\ PoolInv /\ [Next]_vars => PoolInv'
  <1> SUFFICES ASSUME PmmInv, PoolInv, [Next]_vars
               PROVE  PoolInv'
    OBVIOUS
  <1> USE DEF PoolInv, BitmapBacked, pool, sizes
  <1>1. TypeOK
    BY DEF PmmInv
  <1>2. CASE PoolPrefix
    <2>1. CeilDiv(MapBytes, PAGE_SIZE) \in Nat
      BY <1>1, LenType, CeilDivType, ConstantsAssumption DEF TypeOK, MapBytes, MMAP_ENTRY_SIZE
    <2>2. mmap' = mmap /\ phase = "boot" /\ phase' \in {"scan", "fault"}
      BY <1>2 DEF PoolPrefix
    <2>3. phase' = "scan" => next_free' = next_free + (1 + CeilDiv(MapBytes, PAGE_SIZE) + 4)
      BY <1>2 DEF PoolPrefix, AllocPages, MapBytes
    <2>4. CeilDiv(MapBytes, PAGE_SIZE)' = CeilDiv(MapBytes, PAGE_SIZE)
      BY <2>2 DEF MapBytes
    <2> QED
      BY <2>1, <2>2, <2>3, <2>4, ConstantsAssumption
  <1>3. CASE ScanEntry
    BY <1>3 DEF ScanEntry, MapBytes
  <1>4. CASE AllocBitmap
    <2>1. SUFFICES ASSUME phase' = "mark"
                   PROVE  /\ mem_bitmap_bit_size' <= 8 * mem_bitmap_size'
                          /\ BitmapBacked'
      BY <1>4 DEF AllocBitmap
    <2>2. /\ mem_bitmap' = next_free /\ mem_bitmap' # NULL
          /\ mem_bitmap_size' = BitmapSize /\ mem_bitmap_bit_size' = NumPages
          /\ next_free' = AllocPages(next_free, BitmapPages)
          /\ next_free = POOL_START + 5 + CeilDiv(MapBytes, PAGE_SIZE)
          /\ mmap' = mmap /\ last_usable_end' = last_usable_end
      BY <1>4, <2>1 DEF AllocBitmap, BitmapMapped, AllocPage
    <2>3. NumPages \in Nat /\ BitmapSize \in Nat /\ BitmapPages \in Nat
      BY <1>1, BitmapSizeType DEF TypeOK
    <2>4. mem_bitmap_bit_size' <= 8 * mem_bitmap_size'
      BY <2>2, <2>3, CeilDivFacts DEF BitmapSize
    <2>5. PoolTooSmall' = PoolTooSmall
      BY <2>2 DEF PoolTooSmall, BitmapPages, BitmapSize, NumPages
    <2>6. ASSUME ~PoolTooSmall
          PROVE  mem_bitmap' * PAGE_SIZE + mem_bitmap_size' <= next_free' * PAGE_SIZE
      <3>1. next_free + BitmapPages < POOL_END
        <4>1. CeilDiv(MapBytes, PAGE_SIZE) \in Nat
          BY <1>1, LenType, CeilDivType, ConstantsAssumption
             DEF TypeOK, MapBytes, MMAP_ENTRY_SIZE
        <4> QED
          BY <2>2, <2>3, <2>6, <4>1, ConstantsAssumption DEF PoolTooSmall, MapBytes
      <3>2. next_free' = next_free + BitmapPages
        BY <2>2, <3>1 DEF AllocPages
      <3>3. BitmapSize <= PAGE_SIZE * BitmapPages
        BY <2>3, CeilDivFacts, ConstantsAssumption DEF BitmapPages
      <3>4. next_free \in Nat
        BY <1>1, ConstantsAssumption DEF TypeOK
      <3> HIDE DEF PoolInv
      <3> QED
        BY <2>2, <2>3, <3>2, <3>3, <3>4, ConstantsAssumption
    <2> QED
      BY <2>2, <2>4, <2>5, <2>6
  <1>5. CASE AllocBitmapSpin
    BY <1>5 DEF AllocBitmapSpin
  <1>6. ASSUME UNCHANGED <<mmap, last_usable_end, pool, sizes>>,
               phase' = phase \/ (phase = "mark" /\ phase' = "ready")
        PROVE  PoolInv'
    BY <1>6 DEF PoolTooSmall, BitmapPages, BitmapSize, NumPages, MapBytes
  <1>7. CASE MarkEntry \/ MarkKernel
    BY <1>6, <1>7 DEF MarkEntry, MarkKernel
  <1>8. CASE pmm_alloc \/ pmm_alloc_fails
    BY <1>6, <1>8 DEF pmm_alloc, pmm_alloc_fails
  <1>9. ASSUME NEW block, pmm_free(block)
        PROVE  PoolInv'
    BY <1>6, <1>9 DEF pmm_free
  <1>10. CASE UNCHANGED vars
    BY <1>6, <1>10 DEF vars
  <1> QED
    BY <1>2, <1>3, <1>4, <1>5, <1>7, <1>8, <1>9, <1>10
       DEF Next, PmmInit, FreeHeld, FreeStray, Stopped

LEMMA PoolInvariant == Spec => []PoolInv
  <1>1. Init => PoolInv
    BY DEF Init, PoolInv, BitmapBacked
  <1> QED
    BY <1>1, PmmInvariant, PoolStep, PTL DEF Spec

(* alloc_page has handed out every page the bitmap reaches into, on every  *)
(* machine whose memory the pool suffices for.                             *)
THEOREM PmmBitmapBacked == Spec => []BitmapBacked
  BY PoolInvariant, PTL DEF PoolInv

(* A frame that is lent lies in a usable entry, whose pages pmm_init has   *)
(* cleared.                                                                *)
LEMMA HeldInEntry ==
    ASSUME PmmInv, PoolInv, NEW f \in held
    PROVE  /\ f \in Nat /\ f \notin KernelPages
           /\ \E k \in 1 .. Len(mmap) : Usable(mmap[k]) /\ f \in EntryPages(mmap[k])
  <1>1. phase = "ready"
    BY DEF PmmInv, BootInv
  <1>2. f \in 0 .. mem_bitmap_bit_size - 1 /\ f \notin Reserved
    BY <1>1 DEF PmmInv, Ownership
  <1>3. f \in BitmapBits
    BY <1>1, <1>2 DEF PoolInv, PmmInv, TypeOK, BitmapBits
  <1> QED
    BY <1>2, <1>3 DEF Reserved

(* Every frame pmm_alloc lends is usable RAM from its first byte to its    *)
(* last, for every sound memory map.                                       *)
THEOREM PmmHeldUsable == Spec => []HeldUsable
  <1>1. PmmInv /\ PoolInv => HeldUsable
    <2> SUFFICES ASSUME PmmInv, PoolInv, SoundMap, NEW f \in held
                 PROVE  LET lo == f * PAGE_SIZE
                            hi == lo + PAGE_SIZE
                        IN  /\ \E k \in 1 .. Len(mmap) :
                                  /\ Usable(mmap[k])
                                  /\ mmap[k].base <= lo
                                  /\ hi <= mmap[k].base + mmap[k].length
                            /\ \A k \in 1 .. Len(mmap) :
                                  ~Usable(mmap[k]) =>
                                      \/ hi <= mmap[k].base
                                      \/ mmap[k].base + mmap[k].length <= lo
      BY DEF HeldUsable, LentUsable
    <2> DEFINE lo == f * PAGE_SIZE
               hi == lo + PAGE_SIZE
               end(k) == mmap[k].base + mmap[k].length
    <2>1. PICK k \in 1 .. Len(mmap) : Usable(mmap[k]) /\ f \in EntryPages(mmap[k])
      BY HeldInEntry
    <2>2. f \in Nat /\ f \notin KernelPages /\ mmap \in Mmaps
      BY HeldInEntry DEF PmmInv, TypeOK
    <2>3. mmap[k].base \in Nat /\ mmap[k].length \in Nat /\ end(k) \in Nat
      BY <2>2, EntryFields
    <2>4. CeilDiv(mmap[k].base, PAGE_SIZE) <= f /\ f < CeilDiv(end(k), PAGE_SIZE)
      <3>1. /\ CeilDiv(mmap[k].base, PAGE_SIZE) \in Nat
            /\ CeilDiv(end(k), PAGE_SIZE) \in Nat
        BY <2>3, CeilDivType, ConstantsAssumption
      <3>2. f \in CeilDiv(mmap[k].base, PAGE_SIZE) .. CeilDiv(end(k), PAGE_SIZE) - 1
        BY <2>1 DEF EntryPages
      <3> QED
        BY <2>2, <3>1, <3>2
    <2>5. mmap[k].base <= lo /\ lo < end(k) /\ lo \in Nat /\ hi \in Nat
      <3> HIDE DEF end
      <3>1. mmap[k].base <= lo /\ lo < end(k)
        BY <2>2, <2>3, <2>4, CeilDivFacts, ConstantsAssumption
      <3> QED
        BY <2>2, <3>1, ConstantsAssumption
    <2>6. /\ end(k) % PAGE_SIZE = 0 \/ end(k) <= KERNEL_END * PAGE_SIZE
          /\ \A l \in 1 .. Len(mmap) :
                ~Usable(mmap[l]) => end(k) <= mmap[l].base \/ end(l) <= mmap[k].base
      BY <2>1 DEF SoundMap
    <2>7. hi <= end(k)
      <3>1. CASE end(k) % PAGE_SIZE = 0
        <4> DEFINE n == end(k) \div PAGE_SIZE
        <4> HIDE DEF end
        <4>1. n \in Nat /\ end(k) = n * PAGE_SIZE
          BY <2>3, <3>1, ConstantsAssumption, SMTT(30)
        <4> HIDE DEF n
        <4>2. f < n
          BY <2>2, <2>5, <4>1, ConstantsAssumption
        <4> QED
          BY <2>2, <4>1, <4>2, ConstantsAssumption
      <3>2. CASE end(k) <= KERNEL_END * PAGE_SIZE
        <4>1. KERNEL_END <= f
          BY <2>2, ConstantsAssumption DEF KernelPages
        <4>2. KERNEL_END * PAGE_SIZE <= lo
          BY <2>2, <4>1, ConstantsAssumption
        <4> QED
          BY <2>3, <2>5, <3>2, <4>2, ConstantsAssumption
      <3> QED
        BY <2>6, <3>1, <3>2
    <2>8. ASSUME NEW l \in 1 .. Len(mmap), ~Usable(mmap[l])
          PROVE  hi <= mmap[l].base \/ end(l) <= lo
      <3>1. mmap[l].base \in Nat /\ end(l) \in Nat
        BY <2>2, EntryFields
      <3>2. end(k) <= mmap[l].base \/ end(l) <= mmap[k].base
        BY <2>6, <2>8
      <3> HIDE DEF lo, hi, end
      <3> QED
        BY <2>3, <2>5, <2>7, <3>1, <3>2
    <2> QED
      BY <2>1, <2>5, <2>7, <2>8
  <1> QED
    BY <1>1, PmmInvariant, PoolInvariant, PTL
=============================================================================
