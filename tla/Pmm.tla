-------------------------------- MODULE Pmm --------------------------------
(***************************************************************************)
(* The physical memory manager of terraOS (pmm.c) and the bootstrap page   *)
(* pool it takes its bitmap from (alloc_page in utils.c), as kernel_main   *)
(* drives them.                                                            *)
(*                                                                         *)
(* Bit i of the bitmap is byte i / 8, bit i % 8, so the bitmap is the set  *)
(* "used" of the indices whose bit is 1.  Pool addresses are page numbers  *)
(* counted from KERNEL_BASE; physical addresses are in bytes.  The loops   *)
(* over the memory map are steps of their own, with the loop index i.      *)
(***************************************************************************)
EXTENDS Integers, Sequences

CONSTANTS
    PAGE_SIZE,       \* bytes in a page
    POOL_START,      \* first page of the bootstrap pool
    POOL_END,        \* page just after the pool
    KERNEL_END,      \* page just after the region mapped for the kernel
    Mmaps            \* the BIOS memory maps the kernel may be started with

NULL == 0
MMAP_ENTRY_SIZE == 24                \* sizeof(bios_mmap_entry)

Entry == [base : Nat, length : Nat, type : Nat]

ASSUME ConstantsAssumption ==
    /\ PAGE_SIZE \in Nat \ {0}
    /\ POOL_START \in Nat \ {0}
    /\ POOL_END \in Nat
    /\ KERNEL_END \in Nat \ {0}
    /\ POOL_START < POOL_END
    /\ POOL_END <= KERNEL_END
    /\ Mmaps \subseteq Seq(Entry)

VARIABLES
    mmap,                 \* the map the boot loader left at 0x21000
    phase,                \* where kernel_main is
    i,                    \* index of the loops over mmap
    last_usable_end,      \* local of pmm_init
    next_free,            \* next page of the bootstrap pool
    mem_bitmap,           \* pool page the bitmap starts at, or NULL
    mem_bitmap_size,      \* bytes of bitmap
    mem_bitmap_bit_size,  \* pages the bitmap describes
    used,                 \* indices of the bits that are 1
    ret,                  \* last result of pmm_alloc, a byte address or NULL
    held                  \* history: frames lent by pmm_alloc, not yet freed

pool == <<next_free, mem_bitmap>>
sizes == <<mem_bitmap_size, mem_bitmap_bit_size>>
vars == <<mmap, phase, i, last_usable_end, pool, sizes, used, ret, held>>

Init ==
    /\ mmap \in Mmaps
    /\ phase = "boot"
    /\ i = 1
    /\ last_usable_end = 0
    /\ next_free = POOL_START
    /\ mem_bitmap = NULL
    /\ mem_bitmap_size = 0
    /\ mem_bitmap_bit_size = 0
    /\ used = {}
    /\ ret = NULL
    /\ held = {}
-----------------------------------------------------------------------------
CeilDiv(a, b) == (a + b - 1) \div b

(* Slip: alloc_page without its bound check.                               *)
AllocPagesUnbounded(nf, k) == nf + k

(* What k successive calls of alloc_page leave in next_free.  A call takes *)
(* a page only while next_free + PAGE_SIZE < POOL_END, and otherwise       *)
(* returns NULL and changes nothing.                                       *)
AllocPages(nf, k) ==
    IF nf + k < POOL_END THEN nf + k
    ELSE IF nf + 1 < POOL_END THEN POOL_END - 1 ELSE nf

(* Slip: next_free is advanced before it is read.                          *)
AllocPageLate(nf) == IF nf + 1 < POOL_END THEN nf + 1 ELSE NULL

(* The pointer a call of alloc_page returns.                               *)
AllocPage(nf) == IF nf + 1 < POOL_END THEN nf ELSE NULL

Usable(e) == e.type = 1

(* Slip: the base of the entry is rounded down.                            *)
EntryPagesFloor(e) ==
    e.base \div PAGE_SIZE .. CeilDiv(e.base + e.length, PAGE_SIZE) - 1

(* Pages whose bits pmm_init clears for entry e: from the first page       *)
(* boundary in it up to its end, rounded up.                               *)
EntryPages(e) ==
    CeilDiv(e.base, PAGE_SIZE) .. CeilDiv(e.base + e.length, PAGE_SIZE) - 1

(* Slip: the loop over the kernel's pages starts at 1.                     *)
KernelPagesFromOne == 1 .. KERNEL_END - 1
KernelPages == 0 .. KERNEL_END - 1
BitmapBits == 0 .. 8 * mem_bitmap_size - 1
-----------------------------------------------------------------------------
(* kernel_main before pmm_init: the stack page, the pages of the map       *)
(* itself, and the four tables of paging_init.                             *)
PoolPrefix ==
    LET taken == 1 + CeilDiv(MMAP_ENTRY_SIZE * Len(mmap), PAGE_SIZE) + 4
    IN  /\ phase = "boot"
        /\ next_free' = AllocPages(next_free, taken)
        /\ phase' = IF next_free + taken < POOL_END THEN "scan" ELSE "fault"
        /\ UNCHANGED <<mmap, i, last_usable_end, mem_bitmap, sizes, used, ret, held>>

ScanEntry ==
    /\ phase = "scan"
    /\ i <= Len(mmap)
    /\ LET end == mmap[i].base + mmap[i].length
       IN  last_usable_end' = IF Usable(mmap[i]) /\ end > last_usable_end
                              THEN end ELSE last_usable_end
    /\ i' = i + 1
    /\ UNCHANGED <<mmap, phase, pool, sizes, used, ret, held>>

NumPages == CeilDiv(last_usable_end, PAGE_SIZE)
BitmapSize == CeilDiv(NumPages, 8)
(* Slip: the last page of the bitmap, which is not full, is left out.      *)
BitmapPagesFloor == BitmapSize \div PAGE_SIZE
BitmapPages == CeilDiv(BitmapSize, PAGE_SIZE)

(* memset over the bitmap stays inside the 2 MiB the kernel has mapped.    *)
BitmapMapped(p) ==
    /\ p # NULL
    /\ p * PAGE_SIZE + BitmapSize <= KERNEL_END * PAGE_SIZE

(* The bitmap is taken from the pool, whatever alloc_page answers, and     *)
(* every bit is set; a memset that leaves the mapped region faults.        *)
AllocBitmap ==
    /\ phase = "scan"
    /\ i > Len(mmap)
    /\ BitmapPages > 0
    /\ mem_bitmap_bit_size' = NumPages
    /\ mem_bitmap_size' = BitmapSize
    /\ mem_bitmap' = AllocPage(next_free)
    /\ next_free' = AllocPages(next_free, BitmapPages)
    /\ IF BitmapMapped(mem_bitmap')
       THEN /\ used' = 0 .. 8 * BitmapSize - 1
            /\ phase' = "mark"
       ELSE /\ phase' = "fault"
            /\ UNCHANGED used
    /\ i' = 1
    /\ UNCHANGED <<mmap, last_usable_end, ret, held>>

(* With no usable entry page_count is 0 and page_count - 1 is 2^64 - 1:    *)
(* the loop drains the pool and never ends in practice.                    *)
AllocBitmapSpin ==
    /\ phase = "scan"
    /\ i > Len(mmap)
    /\ BitmapPages = 0
    /\ mem_bitmap' = AllocPage(next_free)
    /\ next_free' = AllocPages(next_free, POOL_END)
    /\ phase' = "spin"
    /\ UNCHANGED <<mmap, i, last_usable_end, sizes, used, ret, held>>

MarkEntry ==
    /\ phase = "mark"
    /\ i <= Len(mmap)
    /\ used' = IF Usable(mmap[i]) /\ mmap[i].base <= last_usable_end
               THEN used \ EntryPages(mmap[i]) ELSE used
    /\ i' = i + 1
    /\ UNCHANGED <<mmap, phase, last_usable_end, pool, sizes, ret, held>>

MarkKernel ==
    /\ phase = "mark"
    /\ i > Len(mmap)
    /\ used' = used \cup KernelPages
    /\ phase' = "ready"
    /\ UNCHANGED <<mmap, i, last_usable_end, pool, sizes, ret, held>>
-----------------------------------------------------------------------------
(* pmm_alloc takes the first page whose bit is 0.                          *)
FirstFree(f) ==
    /\ f \in 0 .. mem_bitmap_bit_size - 1
    /\ f \notin used
    /\ \A g \in 0 .. f - 1 : g \in used

pmm_alloc ==
    /\ phase = "ready"
    /\ \E f \in 0 .. mem_bitmap_bit_size - 1 :
          /\ FirstFree(f)
          /\ used' = used \cup {f}
          /\ ret' = f * PAGE_SIZE
          /\ held' = held \cup {f}
    /\ UNCHANGED <<mmap, phase, i, last_usable_end, pool, sizes>>

pmm_alloc_fails ==
    /\ phase = "ready"
    /\ \A f \in 0 .. mem_bitmap_bit_size - 1 : f \in used
    /\ ret' = NULL
    /\ UNCHANGED <<mmap, phase, i, last_usable_end, pool, sizes, used, held>>

(* Slip: the safety check of pmm_free lets the first page past the end by. *)
PastEndOffByOne(k) == k > mem_bitmap_bit_size
PastEnd(k) == k >= mem_bitmap_bit_size

pmm_free(block) ==
    LET page_index == block \div PAGE_SIZE
    IN  /\ phase = "ready"
        /\ IF PastEnd(page_index)
           THEN UNCHANGED <<used, held>>
           ELSE /\ used' = used \ {page_index}
                /\ held' = held \ {page_index}
        /\ UNCHANGED <<mmap, phase, i, last_usable_end, pool, sizes, ret>>

(* Clients free what they were lent, or pass a pointer past the end of     *)
(* memory, which the safety check of pmm_free is there for.                *)
FreeHeld == \E f \in held : pmm_free(f * PAGE_SIZE)
FreeStray ==
    \E block \in {mem_bitmap_bit_size * PAGE_SIZE,
                  (mem_bitmap_bit_size + 1) * PAGE_SIZE - 1} : pmm_free(block)

Stopped == phase \in {"fault", "spin"} /\ UNCHANGED vars

PmmInit ==
    \/ PoolPrefix \/ ScanEntry \/ AllocBitmap \/ AllocBitmapSpin
    \/ MarkEntry \/ MarkKernel

Next ==
    \/ PmmInit
    \/ pmm_alloc \/ pmm_alloc_fails
    \/ FreeHeld \/ FreeStray
    \/ Stopped

Spec == Init /\ [][Next]_vars /\ WF_vars(PmmInit)
-----------------------------------------------------------------------------
(* The variables have the shapes the C declarations give them.             *)
TypeOK ==
    /\ mmap \in Mmaps
    /\ phase \in {"boot", "scan", "mark", "ready", "fault", "spin"}
    /\ i \in Nat \ {0}
    /\ last_usable_end \in Nat
    /\ next_free \in POOL_START .. POOL_END - 1
    /\ mem_bitmap \in Nat
    /\ mem_bitmap_size \in Nat
    /\ mem_bitmap_bit_size \in Nat
    /\ used \subseteq Nat
    /\ ret \in Nat
    /\ held \subseteq Nat

(* Bits pmm_init leaves set: the padding of the last byte, the holes of    *)
(* the memory map, and the kernel's 2 MiB.                                 *)
Reserved ==
    (BitmapBits \ UNION {EntryPages(mmap[k]) :
                           k \in {j \in 1 .. Len(mmap) : Usable(mmap[j])}})
      \cup KernelPages

(* Once pmm_init is done, a bit is set for exactly one of two reasons: the *)
(* page was reserved at boot, or it is lent.  So no frame is lent twice,   *)
(* none is lost by an alloc/free sequence, and none of the kernel's own    *)
(* pages (image, stack, page tables, the bitmap itself) is ever lent.      *)
Ownership ==
    phase = "ready" => /\ used = Reserved \cup held
                       /\ held \cap Reserved = {}
                       /\ held \subseteq 0 .. mem_bitmap_bit_size - 1

(* What the boot needs of the pool before pmm_init returns does not fit.   *)
PoolTooSmall ==
    LET prefix == 5 + CeilDiv(MMAP_ENTRY_SIZE * Len(mmap), PAGE_SIZE)
    IN  POOL_START + prefix + BitmapPages >= POOL_END

(* The pages of the bitmap lie inside the part of the pool that alloc_page *)
(* handed out for it, so nothing else is placed there, unless the pool is  *)
(* too small, which pmm_init does not notice.                              *)
BitmapBacked ==
    phase \in {"mark", "ready"} /\ ~PoolTooSmall =>
        /\ mem_bitmap # NULL
        /\ mem_bitmap * PAGE_SIZE + mem_bitmap_size <= next_free * PAGE_SIZE

(* A lent frame consists of usable RAM only, as pmm_init says it marks it: *)
(* it lies in a usable entry of the map and touches none of another type.  *)
LentUsable ==
    \A f \in held :
        LET lo == f * PAGE_SIZE
            hi == lo + PAGE_SIZE
        IN  /\ \E k \in 1 .. Len(mmap) :
                  /\ Usable(mmap[k])
                  /\ mmap[k].base <= lo
                  /\ hi <= mmap[k].base + mmap[k].length
            /\ \A k \in 1 .. Len(mmap) :
                  ~Usable(mmap[k]) =>
                      hi <= mmap[k].base \/ mmap[k].base + mmap[k].length <= lo

(* The maps of real machines: usable memory ends at a page boundary, or in *)
(* the kernel's 2 MiB, as low memory does at 0x9FC00, and no memory is     *)
(* usable and reserved at once.                                            *)
SoundMap ==
    \A k \in 1 .. Len(mmap) : Usable(mmap[k]) =>
        LET end == mmap[k].base + mmap[k].length
        IN  /\ end % PAGE_SIZE = 0 \/ end <= KERNEL_END * PAGE_SIZE
            /\ \A l \in 1 .. Len(mmap) :
                  ~Usable(mmap[l]) =>
                      end <= mmap[l].base \/ mmap[l].base + mmap[l].length <= mmap[k].base

(* On such a machine pmm_alloc lends usable RAM only, although pmm_init    *)
(* rounds each entry to pages, takes them in any order and sees the end of *)
(* memory only after the first pass.                                       *)
HeldUsable == SoundMap => LentUsable

(* pmm_init ends: the kernel gets past it for every map it is given, but   *)
(* for one with no usable memory, where the unsigned page_count - 1 makes  *)
(* a loop that does not end, and one whose bitmap is too large for the     *)
(* pool, where the memset leaves the kernel's region.                      *)
BootCompletes ==
    <>(\/ phase = "ready"
       \/ phase = "spin" /\ \A k \in 1 .. Len(mmap) :
                               Usable(mmap[k]) => mmap[k].base + mmap[k].length = 0
       \/ phase = "fault" /\ PoolTooSmall)

(* pmm.c implements the abstract frame allocator: in particular pmm_alloc  *)
(* answers NULL, which map_page takes for "out of physical memory", only   *)
(* when every bit is set, so frame 0, whose address is NULL, is never lent.*)
Abs == INSTANCE FrameAllocator WITH
           Pinned <- KernelPages,
           opened <- phase = "ready",
           free   <- IF phase = "ready"
                     THEN (0 .. mem_bitmap_bit_size - 1) \ used ELSE {},
           held   <- held,
           answer <- IF ret = NULL THEN <<>> ELSE <<ret \div PAGE_SIZE>>
(* pmm_init, pmm_alloc and pmm_free implement the abstract specification.  *)
FrameAllocatorSpec == Abs!Spec
=============================================================================
