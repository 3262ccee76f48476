-------------------------------- MODULE Boot --------------------------------
(***************************************************************************)
(* From the boot sector to a kernel with a heap: the boot loader finds the *)
(* kernel on the disk, asks the BIOS for the memory map and builds the     *)
(* first page tables; kernel_main takes page after page from its pool.     *)
(* Nobody records which pages of the first 2 MiB are in use: loader and    *)
(* kernel have to agree.  Pages are numbered from physical address 0, or   *)
(* from KERNEL_BASE, where the kernel has them mapped; sectors are LBAs.   *)
(***************************************************************************)
EXTENDS Integers, Sequences

CONSTANTS
    PAGE_SIZE, POOL_START, POOL_END, KERNEL_END,     \* utils.h, in pages
    STACK_PAGE,      \* page of the stack the boot loader sets up
    MMAP_PAGE,       \* page get_mmap stores the memory map at
    Disks,           \* the disks it may be started from
    Machines         \* entries of the BIOS memory map, pages of memory

NULL == 2^19         \* address 0 as seen from KERNEL_BASE, addresses wrapping
HOLE == 160 .. 255   \* 0xA0000 to 0xFFFFF: video memory and ROM
VGA == 184           \* 0xB8000

CeilDiv(a, b) == (a + b - 1) \div b
MMAP_ENTRY_SIZE == 24

(* The loader's addresses agree with the kernel's: the stack is the pool's *)
(* first page and the memory map starts on the next one.  The bits of the  *)
(* kernel's own pages fit in a page.                                       *)
ASSUME BootAssumption ==
    /\ PAGE_SIZE \in Nat /\ MMAP_ENTRY_SIZE <= PAGE_SIZE
    /\ POOL_START \in Nat /\ POOL_END \in Nat /\ KERNEL_END \in Nat
    /\ 32 <= POOL_START /\ POOL_START < POOL_END /\ 256 <= POOL_END
    /\ POOL_END <= KERNEL_END /\ KERNEL_END < NULL
    /\ KERNEL_END <= 8 * PAGE_SIZE
    /\ STACK_PAGE = POOL_START /\ MMAP_PAGE = POOL_START + 1

(* The map ends before get_mmap's di, 16 bits of offset into it, wraps (at *)
(* 2730 entries, 16 pages), and it stays clear of the loader's stack at    *)
(* page 143 even with the kernel's four tables after it.                   *)
ASSUME MachineAssumption ==
    \A m \in Machines :
        /\ m.entries \in Nat /\ m.pages \in Nat /\ m.bios \in {"last", "error"}
        /\ MMAP_ENTRY_SIZE * m.entries < 65536
        /\ MMAP_PAGE + CeilDiv(MMAP_ENTRY_SIZE * m.entries, PAGE_SIZE) + 4 <= 143

(* Where the FAT file system has the root directory and the kernel's file. *)
RootStart(d) == d.reserved + d.fats * d.spf
KernelStart(d) ==
    RootStart(d) + CeilDiv(d.root * 32, d.bps) + (d.cluster - 2) * d.spc

(* The fields of the boot sector, with sector numbers of 16 bits; the      *)
(* cluster the kernel's file begins at, the one the second entry of the    *)
(* root directory names, and what stands in its place in other sectors.    *)
ASSUME DiskAssumption ==
    \A d \in Disks :
        /\ d.bps \in Nat \ {0} /\ d.spt \in Nat \ {0} /\ d.heads \in Nat
        /\ d.spc \in Nat /\ d.reserved \in Nat /\ d.fats \in Nat
        /\ d.root \in Nat /\ d.spf \in Nat /\ d.cluster \in Nat /\ 2 <= d.cluster
        /\ d.second \in Nat /\ d.junk \in Nat
        /\ d.spt < 32768 /\ d.second < 65536 /\ d.junk < 65536
        /\ 32 * d.root + d.bps - 1 < 65536
        /\ KernelStart(d) < 65536

VARIABLES
    pc,              \* the next step, "done", or how the boot fails
    disk, machine,   \* what the machine is
    sector,          \* the sector the last disk read began at
    mmap_entry_count,
    k,               \* pages taken for the current purpose
    next_free, mem_bitmap, heap_start, heap_end,
    owner,           \* what each page below KERNEL_END is in use for
    clash            \* history: uses of a page that was in use for another

globals == <<next_free, mem_bitmap, heap_start, heap_end>>
world == <<disk, machine>>
vars == <<pc, world, sector, mmap_entry_count, k, globals, owner, clash>>

Pages == 0 .. KERNEL_END - 1

Init ==
    /\ pc = "start"
    /\ disk \in Disks /\ machine \in Machines
    /\ sector = 0 /\ mmap_entry_count = 0 /\ k = 0
    /\ next_free = POOL_START
    /\ mem_bitmap = NULL /\ heap_start = NULL /\ heap_end = NULL
    /\ owner = [p \in Pages |-> IF p = VGA THEN "screen"
                                ELSE IF p \in HOLE THEN "device"
                                ELSE IF p = 7 THEN "loader" ELSE "none"]
    /\ clash = {}

(* Pages ps are put to use for who.                                        *)
Use(ps, who) ==
    /\ owner' = [p \in Pages |-> IF p \in ps THEN who ELSE owner[p]]
    /\ clash' = clash \cup {<<p, owner[p], who>> :
                              p \in {q \in ps : owner[q] \notin {"none", who}}}
-----------------------------------------------------------------------------
(* The boot loader's arithmetic, in 16-bit registers.  al is loaded with   *)
(* the number of FATs while ah still holds part of root_dir_size.          *)
Word(n) == n % 65536
RootDirSize(d) == Word(32 * d.root + d.bps - 1) \div d.bps
RootDirStart(d) ==
    Word(((RootDirSize(d) \div 256) * 256 + d.fats) * d.spf + d.reserved)
DataSectorStart(d) == Word(RootDirStart(d) + RootDirSize(d))
KernelSector(d, cluster) == Word(cluster - 2 + DataSectorStart(d))

(* Slip: sectors are counted from 0.                                       *)
ToCHSFromZero(d, lba) ==
    [track |-> lba \div (2 * d.spt), head |-> (lba % (2 * d.spt)) \div d.spt,
     sector |-> lba % d.spt]

ToCHS(d, lba) ==
    [track |-> lba \div (2 * d.spt), head |-> (lba % (2 * d.spt)) \div d.spt,
     sector |-> (lba % d.spt) + 1]

(* track, sector and head are words; a byte of each goes to the BIOS.      *)
Registers(chs) == [ch |-> chs.track % 256, cl |-> chs.sector % 256, dh |-> chs.head % 256]

(* int 0x13 takes six bits of cl for the sector and the other two as the   *)
(* high bits of the cylinder.  It refuses what the drive does not have.    *)
Addressable(d, r) == r.cl % 64 \in 1 .. d.spt /\ r.dh < d.heads
Located(d, r) ==
    ((r.ch + 256 * (r.cl \div 64)) * d.heads + r.dh) * d.spt + (r.cl % 64) - 1

(* A read into pages ps, which may fail: the loader then halts.            *)
DiskRead(from, to, r, ps, who) ==
    /\ pc = from
    /\ \/ /\ Addressable(disk, r)
          /\ sector' = Located(disk, r)
          /\ pc' = to
          /\ Use(ps, who)
       \/ /\ pc' = "disk_error"
          /\ UNCHANGED <<sector, owner, clash>>
    /\ UNCHANGED <<world, mmap_entry_count, k, globals>>

(* The word at 0x3A of the sector read: the first cluster of the root      *)
(* directory's second entry, whichever file that is.                       *)
ClusterRead == IF sector = RootStart(disk) THEN disk.second ELSE disk.junk

(* The rest of the loader itself, a sector of the root directory and, over *)
(* it, the kernel.                                                         *)
ReadLoader ==
    DiskRead("start", "read_root", [ch |-> 0, cl |-> 2, dh |-> 0], {7}, "loader")
ReadRoot ==
    DiskRead("read_root", "read_kernel",
             Registers(ToCHS(disk, RootDirStart(disk))), {16}, "image")
ReadKernel ==
    DiskRead("read_kernel", "get_mmap",
             Registers(ToCHS(disk, KernelSector(disk, ClusterRead))), 16 .. 31, "image")

(* Slip: only ebx ends the loop, not the carry flag.                       *)
MoreUnlessLast(answer) == answer # "last"
More(answer) == answer = "more"

(* int 0x15, 0xE820: the entries one after the other.  Some BIOSes mark    *)
(* the last one, others fail the call after it.                            *)
Answer ==
    IF mmap_entry_count = machine.entries THEN "error"
    ELSE IF mmap_entry_count + 1 = machine.entries /\ machine.bios = "last"
         THEN "last" ELSE "more"

(* Slip: the last entry is not counted.                                    *)
CountedUnlessLast(answer) == answer = "more"
Counted(answer) == answer # "error"

get_mmap ==
    LET di == Word(mmap_entry_count * MMAP_ENTRY_SIZE)
    IN  /\ pc = "get_mmap"
        /\ IF Counted(Answer)
           THEN /\ mmap_entry_count' = mmap_entry_count + 1
                /\ Use({MMAP_PAGE + di \div PAGE_SIZE,
                        MMAP_PAGE + (di + MMAP_ENTRY_SIZE - 1) \div PAGE_SIZE}, "mmap")
           ELSE UNCHANGED <<mmap_entry_count, owner, clash>>
        /\ pc' = IF More(Answer) THEN "get_mmap" ELSE "init_pt"
        /\ UNCHANGED <<world, sector, k, globals>>

(* Protected mode: the tables, with a stack below 0x90000 while they are   *)
(* built, then the kernel's stack.                                         *)
init_pt ==
    /\ pc = "init_pt"
    /\ Use(1 .. 6 \cup {8, 143}, "first_tables")
    /\ pc' = "entry64"
    /\ UNCHANGED <<world, sector, mmap_entry_count, k, globals>>
entry64 ==
    /\ pc = "entry64"
    /\ Use({STACK_PAGE}, "stack")
    /\ pc' = "stack"
    /\ UNCHANGED <<world, sector, mmap_entry_count, k, globals>>
-----------------------------------------------------------------------------
(* Slip: alloc_page checks nothing.                                        *)
AllocPageUnchecked == next_free
AllocPage == IF next_free + 1 < POOL_END THEN next_free ELSE NULL

(* pmm_init, for memory without holes.                                     *)
BitmapSize == CeilDiv(machine.pages, 8)

(* Slip: the pages of the memory map are counted without the last, which   *)
(* is not full.                                                            *)
NeedFloor == [stack |-> 1, mmap |-> (MMAP_ENTRY_SIZE * mmap_entry_count) \div PAGE_SIZE,
              tables |-> 4, bitmap |-> CeilDiv(BitmapSize, PAGE_SIZE), heap |-> 4]

(* How many pages kernel_main and what it calls take for each purpose.     *)
Need == [stack |-> 1, mmap |-> CeilDiv(MMAP_ENTRY_SIZE * mmap_entry_count, PAGE_SIZE),
         tables |-> 4, bitmap |-> CeilDiv(BitmapSize, PAGE_SIZE), heap |-> 4]
Following == [stack |-> "mmap", mmap |-> "tables", tables |-> "paging_init",
              bitmap |-> "fill_bitmap", heap |-> "heap_init"]

(* Slip: heap_end is the start of the last page.                           *)
HeapEndShort(p) == p
HeapEnd(p) == p + 1

(* One alloc_page().  The result of the calls for the bitmap and the heap  *)
(* is kept, NULL or not; page_count - 1 wraps when there is no memory.     *)
TakePage ==
    /\ pc \in DOMAIN Need
    /\ k < Need[pc]
    /\ next_free' = IF AllocPage = NULL THEN next_free ELSE AllocPage + 1
    /\ Use({AllocPage} \cap Pages, pc)
    /\ mem_bitmap' = IF pc = "bitmap" /\ k = 0 THEN AllocPage ELSE mem_bitmap
    /\ heap_start' = IF pc = "heap" /\ k = 0 THEN AllocPage ELSE heap_start
    /\ heap_end' = IF pc = "heap" /\ k > 0 THEN HeapEnd(AllocPage) ELSE heap_end
    /\ k' = k + 1
    /\ UNCHANGED <<pc, world, sector, mmap_entry_count>>

TakenAll ==
    /\ pc \in DOMAIN Need
    /\ k = Need[pc]
    /\ pc' = IF pc = "bitmap" /\ k = 0 THEN "spin" ELSE Following[pc]
    /\ k' = 0
    /\ UNCHANGED <<world, sector, mmap_entry_count, globals, owner, clash>>

(* The four tables are filled and cr3 is loaded: the loader's tables are   *)
(* not needed any more.                                                    *)
paging_init ==
    /\ pc = "paging_init"
    /\ owner' = [p \in Pages |-> IF owner[p] = "first_tables" THEN "none" ELSE owner[p]]
    /\ pc' = "bitmap"
    /\ UNCHANGED <<world, sector, mmap_entry_count, k, globals, clash>>

(* memset of the bitmap, then the bits of the kernel's own pages, however  *)
(* little memory there is.                                                 *)
FillBitmap ==
    LET bytes == IF BitmapSize * 8 < KERNEL_END THEN KERNEL_END \div 8 ELSE BitmapSize
        ps == mem_bitmap .. mem_bitmap + CeilDiv(bytes, PAGE_SIZE) - 1
    IN  /\ pc = "fill_bitmap"
        /\ IF ps \subseteq Pages
           THEN Use(ps, "bitmap") /\ pc' = "heap"
           ELSE pc' = "fault" /\ UNCHANGED <<owner, clash>>
        /\ UNCHANGED <<world, sector, mmap_entry_count, k, globals>>

heap_init ==
    /\ pc = "heap_init"
    /\ IF heap_start = NULL
       THEN pc' = "fault" /\ UNCHANGED <<owner, clash>>
       ELSE Use({heap_start}, "heap") /\ pc' = "clear_screen"
    /\ UNCHANGED <<world, sector, mmap_entry_count, k, globals>>

(* memset of 80 * 25 * 2 bytes of video memory.                            *)
ClearScreen ==
    /\ pc = "clear_screen"
    /\ Use({VGA}, "screen")
    /\ pc' = "done"
    /\ UNCHANGED <<world, sector, mmap_entry_count, k, globals>>

Loader == ReadLoader \/ ReadRoot \/ ReadKernel \/ get_mmap \/ init_pt \/ entry64
Kernel == TakePage \/ TakenAll \/ paging_init \/ FillBitmap \/ heap_init \/ ClearScreen
Stopped == pc \in {"done", "disk_error", "fault", "spin"} /\ UNCHANGED vars

Next == Loader \/ Kernel \/ Stopped
Spec == Init /\ [][Next]_vars /\ WF_vars(Loader \/ Kernel)
-----------------------------------------------------------------------------
(* The variables have their types, and the pool's cursor stays in the pool.*)
TypeOK ==
    /\ sector \in Nat /\ mmap_entry_count \in Nat /\ k \in Nat
    /\ next_free \in POOL_START .. POOL_END - 1
    /\ {mem_bitmap, heap_start} \subseteq Pages \cup {NULL}
    /\ heap_end \in Pages \cup {NULL, NULL + 1}
    /\ DOMAIN owner = Pages

(* The disks the loader is written for: two heads, sector numbers that fit *)
(* in six bits of cl, one sector to a cluster unless the kernel is in the  *)
(* first, no huge root directory, the kernel its second entry, and on the  *)
(* first 256 tracks, as far as ch reaches.                                 *)
Supported(d) ==
    /\ d.heads = 2 /\ d.spt <= 63
    /\ d.spc = 1 \/ d.cluster = 2
    /\ d.root * 32 <= 255 * d.bps
    /\ d.second = d.cluster
    /\ KernelStart(d) < 512 * d.spt

(* The sector read last is the first one of the kernel's file: what the    *)
(* loader computes in words, splits for the BIOS and passes in bytes is    *)
(* where the file system put it.                                           *)
KernelFound ==
    pc \notin {"start", "read_root", "read_kernel", "disk_error"} /\ Supported(disk) =>
        sector = KernelStart(disk)

(* Everything kernel_main takes before the screen is cleared fits below    *)
(* video memory; everything it takes at all fits in the pool.              *)
Taken == Need.stack + Need.mmap + Need.tables + Need.bitmap + Need.heap
FitsBelowHole == POOL_START + Taken <= 160
FitsPool == POOL_START + Taken < POOL_END

(* No page is put to two uses: the kernel's pool does not reach into what  *)
(* the loader left (image, stack, memory map), each table, the bitmap and  *)
(* the heap have pages of their own, and clearing the screen hits none of  *)
(* them, on machines whose bitmap ends below video memory.                 *)
PagesDisjoint == FitsBelowHole => clash = {}

(* The memory map is complete and stays where pmm_init reads it, all of it *)
(* in pages that are the map's alone.                                      *)
MapKept ==
    pc \in {"tables", "paging_init", "bitmap", "fill_bitmap"} =>
        /\ mmap_entry_count = machine.entries
        /\ \A p \in MMAP_PAGE .. MMAP_PAGE + (MMAP_ENTRY_SIZE * machine.entries - 1) \div PAGE_SIZE :
              owner[p] = "mmap" /\ p < next_free

(* Then heap_start and heap_end delimit the pages taken for the heap,      *)
(* although they come from separate calls, unless the pool is too small.   *)
HeapBacked ==
    pc \in {"heap_init", "clear_screen", "done"} /\ FitsPool =>
        \A p \in Pages : p \in heap_start .. heap_end - 1
                           <=> p \in next_free - 4 .. next_free - 1

(* The boot gets to the end on every machine that has memory, a readable   *)
(* disk, and no more memory than the pool can hold the bitmap of.          *)
BootEnds == <>(pc = "done" \/ pc = "disk_error" \/ machine.pages = 0 \/ ~FitsPool)
=============================================================================
