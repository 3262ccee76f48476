# terraOS: a verification project

terraOS is a small x86-64 kernel: a BIOS boot loader in assembly, and a kernel
in C that sets up interrupts, paging, a physical and a virtual memory manager,
a heap and system calls, loads one ELF program and runs it in user mode.
This directory models it in TLA+, checks the models with TLC on small
instances, and proves the results that matter most with TLAPS for every
instance.

## Inventory of the system

| Part | Source | State | Operations | What is hard |
|---|---|---|---|---|
| bootstrap pool | `kernel/utils.c` `alloc_page` | `next_free` | take the next page below `POOL_END`, or NULL | callers ignore NULL |
| physical memory manager | `kernel/pmm.c` | `mem_bitmap`, its sizes | `pmm_init`, `pmm_alloc`, `pmm_free` | rounding of memory map entries, the bitmap's own memory, NULL = frame 0 |
| virtual memory manager | `kernel/vmm.c`, `paging_init` in `kernel.c` | page tables in physical frames, the `TEMP_PAGE` window | `temp_map`, `map_page`, `unmap_page`, `get_physical_address` | tables shared by pages with different flags, out of memory in mid-walk, freeing tables, stale TLB entries |
| kernel heap | `kernel/kheap.c` | chunk headers linked through the heap | `heap_init`, `kalloc`, `kfree`, `krealloc` | long call sequences, splitting and merging at exact sizes, overflow of sizes |
| ELF loader | `kernel/elf_parser/elf_parser.c` | the program's pages | `load_elf` | allocation failure between pages, segments that share a page, page arithmetic |
| start-up | `kernel/kernel.c` `kernel_main` | the order of all the above | boot sequence, the program's `pml4t`, cr3 | every step assumes the earlier ones succeeded |
| interrupts | `kernel/idt/` | IDT, PIC, the interrupt frame | gates, remapping, stubs, end of interrupt | interrupts on before the rest is set up, spurious interrupts, the red zone, tables that get unmapped |
| system calls | `kernel.c` `enable_syscall`, `syscall/` | MSRs | set-up, stub, handler | shift by the width of int, no stack switch |
| boot loader | `bootloader/` | FAT fields, memory map, first page tables | CHS conversion, disk reads, `get_mmap`, `init_pt`, mode switches | address arithmetic, two ways a BIOS ends the map, agreement with the kernel's layout |

The kernel is single-threaded; the only concurrency is interrupts, whose
handlers touch none of the variables of the memory managers but run on the
stack of whatever they interrupt. Calls go downwards:
`kernel_main` calls everything, `load_elf` calls `pmm_alloc` and `map_page`,
`map_page` and `unmap_page` call `pmm_alloc` and `pmm_free`, `pmm_init` and
`kernel_main` call `alloc_page`. The program's page table shares the kernel's
half with the kernel's.

What makes each part correct:

* pool and physical memory manager: each frame has one holder; only usable RAM
  is lent; the kernel's own pages never are; NULL only when memory is used up;
* heap: blocks never overlap each other or a header, freed memory comes back,
  calls return;
* virtual memory: a call changes the one translation it is asked to change,
  frames and tables stay in step, user mode stays out of the kernel;
* loader: the program's pages are there, with the rights its segments ask for,
  and it starts with a stack and segments it can use;
* interrupts: each vector reaches its handler with a balanced stack, the
  interrupted code goes on as if nothing had happened, each interrupt of the PIC
  is acknowledged and none is lost;
* boot: the kernel that is read is the one on the disk, and boot loader and
  kernel put no page to two uses.

`PROJECT.json` lists the hazards at their lines.

## Modules

| Module | Role |
|---|---|
| `FrameAllocator` | abstract: a set of free frames and who holds which |
| `Pmm` | `pmm.c` and `alloc_page`, from the start of `kernel_main` on; implements `FrameAllocator` |
| `MCPmm` | memory maps for TLC |
| `PmmProofs` | theorems about `Pmm` |
| `Kheap` | `kheap.c` |
| `KheapProofs` | theorems about `Kheap` |
| `AddressSpace` | abstract: a page has at most one frame, an operation changes one page, the kernel's pages never change |
| `Vmm` | `vmm.c`, `paging_init`, the program's `pml4t` and the page loop of `load_elf`; implements `AddressSpace` |
| `MCVmm` | pages and flags for TLC |
| `VmmProofs` | theorems about `Vmm` |
| `ElfLoader` | `load_elf`, over page tables abstracted to their translation and the flags of the tables, with the TLB |
| `MCElfLoader` | ELF files for TLC |
| `ElfLoaderProofs` | theorems about `ElfLoader` |
| `Traps` | `idt.c`, `isr.c`, `isr_stubs.asm`, the system call, with the order of `kernel_main` as the interrupted thread, and the PIC, the keyboard and the CPU's delivery around it |
| `TrapsProofs` | theorems about `Traps` |
| `Boot` | the boot loader, and `kernel_main` as the user of the pages of the first 2 MiB |
| `MCBoot` | disks and machines for TLC |
| `BootProofs` | theorems about `Boot` |

Some definitions come with a *slip* in front of them: the definition as a
plausible mistake would have it. No specification uses a slip. Each one shows
that a property is sensitive to the code: with the slip in place of the
definition TLC finds the property violated.

### Pmm

`used` is the bitmap as a set of indices (bit `i` is bit `i % 8` of byte
`i / 8`, so byte and bit arithmetic carry no more information). Pool addresses
are page numbers from `KERNEL_BASE`, physical ones are bytes. `PoolPrefix` is
`kernel_main` up to `pmm_init` (stack page, pages of the memory map, the four
tables); `ScanEntry`, `AllocBitmap`, `MarkEntry` and `MarkKernel` are the loops
of `pmm_init`, an iteration each; `AllocBitmapSpin` is the case
`page_count = 0`, whose loop bound is 2^64 - 1. A `memset` that leaves the
2 MiB the kernel has mapped is the state `"fault"`. `ret` is the last pointer
returned; `held` is a history variable: the frames lent and not given back.
Clients free what they hold, and pass pointers past the end of memory, which
`pmm_free` is written to turn down. A caller that frees a frame it does not
hold breaks `pmm_free`'s contract ("an allocated 4KiB memory block") and is not
modelled here; `Vmm` shows one such caller.

`LentUsable`, that lent frames are usable RAM, is what the code means to do and
fails for a usable entry that ends inside a page (run `pmm_unaligned`).
`HeldUsable` says it for the maps of real machines, `SoundMap`: an entry may
start anywhere, but ends at a page boundary or in the kernel's 2 MiB, which are
never lent. `BitmapBacked` leaves out memory too large for the pool
(`PoolTooSmall`), where `pmm_init` goes on with a bitmap that is not its own.

### Kheap

`size` and `next` are functions whose domain is the set of headers in the list;
`inuse` is the set of headers, in the list or dropped from it, whose flag is
set. The bodies of `kalloc` and `krealloc` are one step up to the search loop,
each iteration of the loop is a step, and the rest of the call, with the copy
and `kfree` of `krealloc`, is a step up to the loop of `coalesce_chunk`.
`size_t` arithmetic is modulo `WORD` where it can wrap. A read through the NULL
`next` of the last chunk is the state `"fault"` (page 0 is not mapped).
History: `live` (the size each client asked for), `freed` (blocks that may be
freed a second time with their header intact), `leaked`. Block contents are not
modelled; that `krealloc`'s `memcpy` reads and writes memory the caller owns is
part of `BlocksIntact`, which holds in the middle of a call. Clients keep to
the interface except for double frees, `kfree(NULL)` and a pointer past the
heap.

### Vmm

A table has `N` entries for 512, and the kernel's region has `N` pages as in the
code, where one table maps it; a virtual page is the tuple of its four indices.
`mem` is what the frames hold, read as tables; memory that was never written
looks like present entries, so clearing a new table matters. `map_page` sets
the call up and each level is a step (`WalkAlloc`, `WalkFollow`, `WalkPanic`),
then `WritePte`. Every `temp_map` rewrites the `TEMP_PAGE` entry in the table it
finds from the kernel's `pml4t`, in the same step. `NewTask` and `TaskCopy` are
`kernel_main` making the program's `pml4t`; `LoadPage` is the loop body of
`load_elf` (and its stack page), for pages that are mapped already too, since
`load_elf` does not look. `Translate` and `Granted` are the processor's
page walk, external to the repository. History variables: `asked` (the flags last
asked for each page), `lost` (frames of pages that were mapped over: `map_page`
replaces the entry and frees nothing), `stale` (translations of pages that were
unmapped) and `lent0` (`load_elf` was given NULL).

`tlb` holds the translations the processor may have kept. `Touch`, a use of a
page, replaces what it has for that page by the translation in force, and
loading cr3 clears it; nothing else does, since `tlb_invalidate` is called only
by `temp_map`, for `TEMP_PAGE`. There it matters at once: `Reached` is the frame an
access reaches after `temp_map`, the new one because of that call. A page that is
mapped over or unmapped may keep its old translation. In the first case the
frame is in `lost`, still marked used, and belongs to nobody else: `UserIsolation`
covers it. In the second `unmap_page` has given the frame back, and the program
can go on using it after it was lent again: `FreedUnreachable` asks that it
cannot and fails (run `vmm_unmap`), and `UserIsolation` leaves these translations,
`stale`, out. `TouchedVas`, the pages `Touch` uses, is a bound.

Nothing in the repository calls `unmap_page` yet, so `Vmm` has two callers.
`Spec` has the disciplined one, which unmaps a page that is mapped and not the
last one of its table; `SpecAny` unmaps any mapped page, and shows why the
discipline is needed. The disciplined caller also leaves alone a page that was
given frame 0.

The refinement mapping `space` is the translation the processor gives each page
of the kernel's region (`KernelVas`) and each page that may be mapped later
(`LaterVas`: the program's, and the rest of the kernel's directory, where the
program's `pml4t` goes), through the tables in force. Before `paging_init` the
tables in force are the boot loader's, which map the region likewise.

### ElfLoader

A file is the fields of its header that are checked, and its program headers;
`user_program_elf` is the one compiled into the kernel. The loops over segments
and over the pages of a segment are steps. Of a page table, `tables` keeps that
it is there and whether its entry has W: `map_page` enters a missing one with the
flags of the page and leaves one it finds as it is, so the rights of a page are
those that its entry and all tables on the way (`Path`) have (`Granted`). A call
of `map_page` takes up to three frames for tables and panics if it cannot.
Frames have contents (`<<s, k>>` is byte `k` of segment `s`). `memcpy` is one step
that puts each byte in the frame the tables give or in one the TLB may hold.
`tlb` is external: a processor may keep the translation of any page that is
present, used or not, and `map_page` does not invalidate it, so a page mapped
over may keep every translation it ever had. Nothing clears the memory beyond a
segment's file bytes, so it keeps what the frames held.

`MapStack` sets rsp and rbp to the lowest address of the stack page. What follows
depends on the build: the Makefile asks for `-O0`, with which `entry` is in
`load_elf`'s frame, at an offset from the rbp that is now the program's
(`Locals = "frame"`), and `ReadEntry` faults; an optimised build has it in a
register. So `Sysret`, and the system call of `Traps`, are reached in an optimised
build only. `Sysret` takes the segments from STAR, whose value `enable_syscall`
computes with shifts of an `int` by 32 and 48: undefined in C, so `STAR_MSR_VAL`
has each value a compiler gives such a shift (0, or the count taken modulo 32).

`SegmentsLoaded` and the rights in `SegmentRights` are stated for an `Orderly`
file: the segments in the order of their addresses and apart, none with more
file than memory, none empty after the first. The ELF format asks for the order,
linkers write such files, and `load_elf` takes them on trust; with the segments
in descending order (the file `Descending`) a segment that ends at a page
boundary maps a fresh frame over the first page of the segment loaded before.
Two weaknesses of the code show in how they are stated. A segment that ends at
a page boundary has the page after it mapped too, and the segment that begins
there maps it again (`MappedFor`): if the TLB kept the first translation its bytes
go to the first frame, which the program does not see once the TLB has dropped
it. That is the only case; every other byte is in the frame that is mapped. And
a writable page may be left read-only by the tables of a read-only segment
before it (`ReadOnlyBefore`; the flaw of `vmm_flags`).

### Traps

`kernel_main` is the sequence `Order` of its steps, and between them calls of
leaf functions (`Call`, `Prologue`, `Ret`), which stand for any function that
calls none, such as `alloc_page`. The stack is an array of 8-byte words. The
word below a leaf function's saved rbp is a local of it: the Makefile compiles
with the System V ABI's red zone. An interrupt may come between any two of
these steps: `Enter` puts the CPU's words, the stub's error code and number and
the 15 registers on the stack (aligned, as the CPU does) and loads rdi from
`[rsp + 120]`; `Iretq` pops in the order of the stub. `irq_handler` is two
steps, since the line of the keyboard may rise again as soon as the scancode was
read, before the end of interrupt. `isr_handler` prints and halts. Interrupts
are off in a handler, but an NMI may come inside `irq_handler`, on top of its
frame, and ends in `isr_handler`; one inside `isr_handler` would print and halt
again, and is left out, as is one before `lidt`.

External, from how the code uses it: the PIC (requests, mask, in service,
vector base; ICW1 clears the requests, and lines are edge-triggered), spurious
interrupts, the keyboard with its one-byte buffer, the timer, exceptions, and
delivery, which needs the IDT and the GDT. The GDT is the boot loader's at
0x7Dxx, identity-mapped by `init_pt` but not by `paging_init`, so `gdt` becomes
false there, and delivery then ends in a triple fault, `mode = "reset"`.

### Boot

Real addresses, in pages. `owner` says what each page of the first 2 MiB is in
use for, and `clash` remembers every time one is put to a second use. The loader
reads its second sector, a sector of the root directory and the kernel
(`DiskRead`, each may fail), with the 16-bit arithmetic of `bootloader.asm` and
`ToCHS`, whose results go to the BIOS a byte each (`Registers`). `Addressable` and
`Located` are the BIOS: it takes six bits of cl for the sector and two for the
cylinder, and refuses what the drive does not have. The kernel's cluster is the
word at 0x3A of the sector read (`ClusterRead`): that of the root directory's
second entry, if the sector is the first of the root directory. `get_mmap`
follows the two ways BIOSes end the memory map. `TakePage` is one `alloc_page` of
`kernel_main`, `paging_init` or `pmm_init`, with what is kept of its result, for
the purposes and counts in `Need`; `FillBitmap`, `heap_init` and `ClearScreen` are
the writes through it. `MachineAssumption` and `DiskAssumption` say what the
loader's registers can hold: `get_mmap` counts bytes in `di`, sector numbers are
16 bits, the map ends before `di` wraps. Memory is taken to have no holes here;
`Pmm` has the scan of the map.

## Runs

| Run | Question | Bounds | Result |
|---|---|---|---|
| `pmm` | ownership of frames, backing of the bitmap, frames all usable, boot ends, implements `FrameAllocator` | 8-byte pages, a region of 28 pages; maps with holes, unaligned starts, out of order, one and two pages of bitmap, a bitmap that fills the pool and one that passes it by a page, with and without padding bits; empty, nothing usable, bitmap too large for the region, map too long for the pool | holds; with no usable memory the boot never ends, with too small a pool it faults |
| `pmm_unaligned` | is every lent frame usable when an entry ends inside a page? | one map | violated: `pmm.c:34` |
| `kheap` | list, blocks, in-use flags, coalescing, double free, accounting, completeness of the search, return of every call | 208 bytes (up to six headers), sizes 0, 16 and 60 | holds |
| `kheap_fault` | does `krealloc` ever follow NULL? | as above | violated: `kheap.c:93` |
| `vmm` | bitmap and tables in step, tables a tree, isolation, access, `map_page` completes, implements `AddressSpace` | 14 frames, 6-entry tables, four pages sharing a table, a directory, nothing, read-only and writable, one of them in the TLB | holds |
| `vmm_flags` | are the flags asked for in force? | two pages of one table | violated: `vmm.c:75` |
| `vmm_unmap` | is what was given back out of reach? | two pages, any caller of `unmap_page` | violated: `vmm.c:123` |
| `elf` | are the segments' bytes and rights in place, does loading end as the header says? | pages of 4 bytes, tables of 2 entries, 0 to 14 frames, 16 files, both kinds of build | holds |
| `elf_start` | does the program start, with a stack and its segments? | the program in `kernel.c`, both kinds of build | violated: `elf_parser.c:51`, and after it 53 and `kernel.c:155` |
| `traps` | arguments, registers and stack across interrupts, end of interrupt, one handler at a time, resets explained, keys served | two keys besides one pressed before the boot, the timer, spurious interrupts, exceptions 2 (the NMI; no error code) and 14 (error code) | holds |
| `traps_redzone` | does a function find its locals as it left them? | one key | violated: `isr_stubs.asm:120`, `Makefile:5` |
| `boot` | is the kernel found, does each page have one use, is the map complete, is the heap backed, does the boot end? | 14 disks; 12 machines with 0 bytes to 64 GiB and maps of 0 to 341 entries | holds, for supported disks and machines as stated in the properties |

Why the bounds are enough to meet the cases: in `pmm` a bitmap byte has padding
bits in some maps and none in others, the first free frame is above the
kernel's region, memory is exhausted and refilled. In `kheap` a size of 60
rounds to 64, 0 gives empty blocks; the heap holds up to six headers, so there
are merges with a neighbour on either side and both, exact fits, leftovers on
both sides of `MIN_CHUNK_SIZE`, repeated in-place extension, and the empty
block at `heap_end`. In `vmm` the four pages need 11 frames, 6 are left
after the program's `pml4t`, and mapping over takes more, so any two or three of
them are tried together and memory ends at every level of a walk, and when the
frame of the page itself is asked for. In `elf` the files have
unaligned segments, segments that meet at a page boundary and inside a page,
read-only before writable in one table, in tables apart and the other way round,
empty ones, a header to skip, more file bytes than memory, and each bad header
field. In `traps` a second key arrives while the first is being handled, and
nothing in the handlers depends on how many came before; the two exceptions are
of the two stack layouts. `boot` needs no scaling: the constants are those of
`utils.h`, a map of 171 entries ends just inside a second page, 170 just before,
and the memory sizes put the end of the bitmap below 640 KiB, in video memory, at
the end of the pool and past the mapped region. Kernels lie at the last sector
of track 255 and in sector 63; six of the disks are not supported (track 256,
sector 64, another file in the second entry, 16 heads, two sectors to a cluster,
a root directory of more than 255 sectors) and only have to be survived. The
violation runs are the same specifications on the instances that show the
disagreement.

Deadlock is checked everywhere; where the system really stops (a fault, a
panic, the endless loop) the specification has a step `Stopped` that changes
nothing.

### Fairness

The kernel is one thread that never blocks, so a loop that has a next step
takes it: `Pmm` assumes weak fairness of the steps of `pmm_init`, `Kheap` of the
loops of a call, `Vmm` of the steps of `map_page` and what follows it, `ElfLoader`
of the steps of `load_elf`, `Boot` of loader and kernel together.
`Traps` has weak fairness of the boot's steps, of leaf functions, of the
handlers, and of `Interrupt`: the CPU takes an interrupt that stays pending
while IF is set. Clients are never forced to call, nor keys to be pressed.
`BootCompletes`, `CallReturns`, `MapCompletes`, `LoadEnds`, `KeyServed` and
`BootEnds` rest on it.

## Proofs

Every theorem is for all values of the constants that satisfy the module's
assumptions (`ConstantsAssumption`, `HeapAssumption`, `VmmAssumption`,
`LoaderAssumption`, `TrapsAssumption`, `BootAssumption`, `MachineAssumption`,
`DiskAssumption`): sizes are positive and aligned, regions nested as in
`utils.h`, fields of the width the code gives them. TLC evaluates them on every
run.

| Module | Theorems | Inductive invariant |
|---|---|---|
| `PmmProofs` | `PmmTypeCorrect`, `PmmOwnership`, `PmmBitmapBacked`, `PmmHeldUsable`, `PmmRefinesFrameAllocator` | `PmmInv`, `PoolInv` |
| `KheapProofs` | `KheapTypeCorrect`, `KheapListOK`, `KheapBlocksIntact`, `KheapInUseIffLive`, `KheapNoAdjacentFree`, `KheapDoubleFreeIgnored`, `KheapFailsOnlyWhenNothingFits`, `KheapAccounting`, `KheapEmptyHeapRestored` | `HeapInv`, `Counted` |
| `VmmProofs` | `VmmTypeCorrect`, `VmmFramesAccounted`, `VmmOneOwner`, `VmmUserIsolation`, `VmmUserAccess`, `VmmRefinesAddressSpace` | `VmmInv` |
| `ElfLoaderProofs` | `LoadTypeCorrect`, `LoadSegmentsLoaded`, `LoadSegmentRights` | `LoadInv`, `TlbInv` |
| `TrapsProofs` | `TrapsTypeCorrect`, `TrapsHandlerArgument`, `TrapsContextRestored`, `TrapsInService`, `TrapsOneFrame`, `TrapsResetExplained` | `TrapsInv` |
| `BootProofs` | `BootTypeCorrect`, `BootKernelFound`, `BootPagesDisjoint`, `BootMapKept`, `BootHeapBacked` | `BootInv` |

**Pmm.** `Ownership` alone is not inductive: it speaks of the state after
`pmm_init`, so `PmmInv` also says what the loops of `pmm_init` have done to the
bitmap at index `i`: every bit set but those of the entries already marked, and
nothing held. The refinement rests on it: `pmm_alloc` fails only when the set of
free frames is empty, and `ret` is never the address of frame 0 since frame 0
is one of the kernel's. `PoolInv` adds where `next_free` stands when the bitmap
is taken, and that there is a bit for every page. That a lent frame is usable
then follows from `Ownership`: its bit was cleared for some usable entry, and
what rounding up does at either end of the entry is `CeilDivFacts`.

**Kheap**, for all request sizes that do not make `size + 15` overflow
(`NoWrap`, assumed by the theorems). `HeapInv` has three parts: `MemInv` (the
list, in terms of `Linked`, aligned sizes, flags), `LiveInv` (clients' blocks lie
in chunks of the list that are in use, freed headers in none of their way) and
`CallInv` (where a loop is: everything before `cur` was too small, or is
coalesced already). What splitting, merging and extending do to a linked list
are lemmas over any two functions `sz` and `nx`, cited by the actions that do
them. `Counted` is about the bytes in no chunk of the list (`Outside`), which
only three operations could change: a split leaves each of them where it is, a
merge takes in the gap before the second chunk and leaves one of the same length
behind it, and an extension leaves one that is a header longer (`ReplacedCount`,
by the cardinality of intervals). `EmptyHeapRestored` then needs no induction:
with nothing in use coalescing leaves one chunk, and what follows it is what
leaked.

**Vmm.** The properties speak of paths through four levels of tables; a step
changes one entry somewhere. `VmmInv` says instead that there is a *role* for
every frame: 1 for the two `pml4t`, 2 to 4 for the tables below, 5 for a page,
0 for none. An entry leads one role down (`RoleDown`), every frame with a role
is linked (`RoleUp`) and linked once, except from the entry the two `pml4t`
share (`RoleOnce`), and below the program's half entries let user mode through
(`RoleUser`). These are facts about single entries, so each action has a small
argument: `WalkAlloc` gives a free frame the role below its table's, `WritePte`
gives the page's frame role 5, `unmap_page` takes it back. The bitmap agrees with
the roles (`Marked`), the call in progress is on its way down (`OnTheWay`), the
kernel's own tables are as `paging_init` left them (`KernelTables`). Mapping over a
page is shown as its unmapping followed by its mapping, with the frame in `lost`,
where it has no role and stays marked (`Over`). A translation in the TLB is in
force, or its frame is lost, or it is `stale` (`Fresh`). Each theorem then follows
from `VmmInv`: the tables found by descending are the frames of roles 1 to 4. For
the refinement, `WayEntries` turns a translation into the four entries it reads, and
each action is shown to leave those entries alone for every page but its own,
since their tables have different roles or, by `RoleOnce`, different paths.

**ElfLoader.** `LoadInv` says how far the two loops have come: the pages up to
here are mapped (`MappedSoFar`), with their segment's rights unless a read-only
segment came first in a table on the way (`RightsSoFar`, from `TablesSoFar`: a
table without W was entered for a page of a read-only segment), and the bytes of
complete segments are in frames of their pages (`DataSoFar`). What keeps a later
copy from hitting them, whatever the TLB has kept, is that a frame belongs to one
page for ever, in the tables or the TLB (`FrameOwned`), and that the pages of one
segment only are no other copy's. `TlbInv` adds that the TLB has old translations
only of pages in the regions of two segments.

**Traps.** `TrapsInv` says what is set up by the time `kernel_main` is at each
step (`SetUp`), what the stack holds while a handler runs, word by word
(`FrameKept`), and what the PIC and the argument registers are then
(`Handling`); an NMI adds a frame and does not return. `ContextRestored` and
`OneFrame` are conjuncts of it.

**Boot.** `BootInv` follows `alloc_page` through the purposes it is called for
(`Cursor`), and says what the pages ahead of it are in use for: nothing, or what
the loader prepared for this very purpose (`Ahead`). `KernelFound` is arithmetic:
the CHS conversion, the bytes it is cut to and what the BIOS makes of them, with
division lemmas proved first. The sector read is the root directory's before the
kernel's is computed from it (`Found`).

Only model-checked is all liveness (`BootCompletes`, `CallReturns`,
`MapCompletes`, `LoadEnds`, `KeyServed`, `BootEnds`), which is out of the prover's
reach. Every invariant that a run checks is a theorem.

## Known limits of the code

What the models show of the code beyond the findings, and the properties leave
out by a condition that says so:

* `alloc_page` answers NULL when the pool is used up and no caller looks
  (`PoolTooSmall`, `FitsPool`): from about 59 GiB of memory on the bitmap runs
  past what was allocated, then past the mapped region. From 14.75 GiB on the
  bitmap or the heap lies in video memory or ROM (`FitsBelowHole`).
* Without usable memory `pmm_init` does not end.
* A `kalloc` of one of the 15 largest sizes wraps to 0 and succeeds with an empty
  block (`NoWrap`).
* An in-place extension by `krealloc` loses 32 bytes of the heap (`leaked`).
* A page mapped over loses its frame (`lost`).
* When physical memory is used up `load_elf` maps frame 0 for the program
  (`lent0`).
* From `paging_init` on the GDT is not mapped: any interrupt or exception resets
  the machine (`ResetExplained`).
* A key pressed before `pic_remap` is never served and blocks the keyboard
  (`KeyServed`).
* The loader takes disks with two heads, up to 63 sectors to a track, up to 255
  sectors of root directory, and a kernel that is the second entry of the root
  directory, within the first 256 tracks, in the first cluster or with one sector
  to a cluster (`Supported`).

## What is not modelled

* Contents of heap blocks.
* The mode switches of the boot loader, and the TSS, which is never loaded.
* Reading all of the kernel: the BIOS call reads 127 sectors in a row and `Boot`
  follows the first; fragmentation and tracks are the BIOS's and the image's.
* Stack depth: the kernel has one page of stack, `Traps` shows only that
  interrupts add one frame to what the thread uses.
* The instructions of the program; its `syscall` is one action of `Traps`.
* Characters and colours on the screen.
* `headers/elf.h`: of its 4464 lines, a copy of the C library's header, the kernel
  uses two structures and a few constants, which `ElfLoader` has. The rest
  describes other formats and processors and is behind no behaviour.
* The build.

## Plan

1. (done) `Pmm` with its abstract specification and proofs.
2. (done) `Kheap` with proofs.
3. (done) `Vmm` with its abstract specification and the TLB.
4. (done) `ElfLoader` up to `sysret`.
5. (done) `Traps`.
6. (done) `Boot`.
7. (done) Proofs about `Vmm`, `ElfLoader`, `Traps` and `Boot`; the rest of `Pmm`.
8. (done) `Accounting` and `EmptyHeapRestored` of `Kheap`, stated over the set of
   bytes in no chunk, whose cardinality the library can reason about.
