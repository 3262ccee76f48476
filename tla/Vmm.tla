-------------------------------- MODULE Vmm --------------------------------
(***************************************************************************)
(* The virtual memory manager of terraOS (vmm.c) on top of the physical    *)
(* one (pmm.c), as kernel_main and load_elf use them: four levels of page  *)
(* tables in physical frames, reached one at a time through TEMP_PAGE.     *)
(* Frames are page numbers; a virtual page is the sequence of its four     *)
(* table indices.  A call of map_page is one step per level.               *)
(***************************************************************************)
EXTENDS Integers, FiniteSets, Sequences

CONSTANTS
    N,               \* entries in a table, and pages in the kernel's region
    NFRAMES,         \* frames of physical memory
    FIRST_TABLE,     \* pool page of the kernel's pml4t
    UserVas,         \* pages programs are mapped at
    UserFlags,       \* the flag sets load_elf maps them with
    TouchedVas       \* bound: the pages whose translation the TLB may keep

ASSUME VmmAssumption ==
    /\ N \in Nat /\ NFRAMES \in Nat /\ FIRST_TABLE \in Nat
    /\ 0 < FIRST_TABLE /\ FIRST_TABLE + 4 < N /\ N < NFRAMES
    /\ UserVas \subseteq {<<a, b, c, d>> : a \in 0 .. N - 2, b, c, d \in 0 .. N - 1}
    /\ UserFlags \subseteq {{"P", "U"}, {"P", "W", "U"}}
    /\ TouchedVas \subseteq UserVas

Frames == 0 .. NFRAMES - 1
KernelFrames == 0 .. N - 1
Flags == {"P", "W", "U", "PCD"}
NULL == 0

Zero == [f |-> 0, fl |-> {}]
ZeroTable == [x \in 0 .. N - 1 |-> Zero]
Present(e) == "P" \in e.fl

(* Memory nobody has written yet holds anything.  What is worst for a page *)
(* table is an entry that looks present.                                   *)
Junk == [x \in 0 .. N - 1 |-> [f |-> 0, fl |-> {"P", "W", "U"}]]

VARIABLES
    pc,              \* "boot", "idle", "map" in map_page, "task", or "panic"
    mem,             \* contents of the frames, as page tables
    used,            \* the bitmap of pmm.c: frames whose bit is 1
    call,            \* arguments of map_page
    level,           \* level of the table map_page is at, 1 for the pml4t
    tab,             \* frame of that table
    task,            \* frame of user_program.pml4t, NULL before there is one
    tlb,             \* translations the TLB may hold: <<page, frame>>
    asked,           \* history: the flags each mapped page was asked for
    lost,            \* history: frames of pages that were mapped over
    stale,           \* history: translations unmap_page left in the TLB
    lent0            \* history: load_elf was given NULL, and mapped frame 0

alloc == <<used, lent0>>
history == <<asked, lost, stale>>
walk == <<call, level, tab>>
vars == <<pc, mem, alloc, walk, task, tlb, history>>

pml4t == FIRST_TABLE
KernelVa(f) == <<N - 1, N - 2, f \div N, f % N>>
NoCall == [root |-> 0, va |-> <<>>, f |-> 0, fl |-> {}, then |-> "idle"]

(* The bitmap is as pmm_init leaves it for memory without holes (module    *)
(* Pmm); paging_init, which runs before it, does not use it.               *)
Init ==
    /\ pc = "boot"
    /\ mem = [f \in Frames |-> Junk]
    /\ used = KernelFrames
    /\ call = NoCall
    /\ level = 0
    /\ tab = 0
    /\ task = NULL
    /\ tlb = {}
    /\ asked = [v \in {} |-> {}]
    /\ lost = {}
    /\ stale = {}
    /\ lent0 = FALSE
-----------------------------------------------------------------------------
(* pmm_alloc and pmm_free on the bitmap: the lowest free frame, or NULL.   *)
Free == Frames \ used
(* Slip: the loop runs one page past the bitmap.                           *)
PmmAllocPastEnd ==
    IF Free = {} THEN NFRAMES ELSE CHOOSE f \in Free : \A g \in Free : f <= g

PmmAlloc ==
    IF Free = {} THEN NULL ELSE CHOOSE f \in Free : \A g \in Free : f <= g

(* Slip: the bit is not set.                                               *)
TakeUnmarked(f) == used
Take(f) == used \cup {f}

Rw(f) == [f |-> f, fl |-> {"P", "W"}]

(* The kernel's first four tables, pages of the pool taken one after the   *)
(* other, map its region.                                                  *)
paging_init ==
    /\ pc = "boot"
    /\ mem' = [mem EXCEPT
                 ![pml4t] = [ZeroTable EXCEPT ![N - 1] = Rw(pml4t + 1)],
                 ![pml4t + 1] = [ZeroTable EXCEPT ![N - 2] = Rw(pml4t + 2)],
                 ![pml4t + 2] = [ZeroTable EXCEPT ![0] = Rw(pml4t + 3)],
                 ![pml4t + 3] = [x \in 0 .. N - 1 |-> Rw(x)]]
    /\ pc' = "idle"
    /\ UNCHANGED <<alloc, walk, task, tlb, history>>

(* temp_map: the table that maps TEMP_PAGE, found from the kernel's pml4t, *)
(* and memory m after its last entry was pointed at frame f.               *)
TempPt(m) == m[m[m[pml4t][N - 1].f][N - 2].f][0].f
TempMap(m, f) ==
    [m EXCEPT ![TempPt(m)][N - 1] = [f |-> f, fl |-> {"P", "W", "PCD"}]]

(* Slip: temp_map does not invalidate TEMP_PAGE, which the TLB still has   *)
(* at the frame before.                                                    *)
ReachedStale(m, f) == m[TempPt(m)][N - 1].f

(* The frame that accesses to TEMP_PAGE reach after temp_map(f) on m, with *)
(* the tlb_invalidate at its end.                                          *)
Reached(m, f) == f
-----------------------------------------------------------------------------
(* map_page(root, va, f, fl), and where the caller goes on.                *)
map_page(root, va, f, fl, then) ==
    /\ call' = [root |-> root, va |-> va, f |-> f, fl |-> fl, then |-> then]
    /\ pc' = "map"
    /\ level' = 1
    /\ tab' = root

Entry == mem[tab][call.va[level]]

(* Slip: a table is entered without the flags of the page.                 *)
TableFlagsBare(fl) == {"P"}
TableFlags(fl) == fl \cup {"P"}

(* An absent table is allocated, entered with the flags of the page, made  *)
(* reachable at TEMP_PAGE and cleared.                                     *)
WalkAlloc ==
    /\ pc = "map"
    /\ level < 4
    /\ ~Present(Entry)
    /\ PmmAlloc # NULL
    /\ LET new == PmmAlloc
           linked == [mem EXCEPT ![tab][call.va[level]] =
                         [f |-> new, fl |-> TableFlags(call.fl)]]
       IN  /\ tab' = Reached(linked, new)
           /\ mem' = [TempMap(linked, new) EXCEPT ![tab'] = ZeroTable]
           /\ used' = Take(new)
    /\ level' = level + 1
    /\ UNCHANGED <<pc, call, task, tlb, history, lent0>>

WalkPanic ==
    /\ pc = "map"
    /\ level < 4
    /\ ~Present(Entry)
    /\ PmmAlloc = NULL
    /\ pc' = "panic"
    /\ UNCHANGED <<mem, alloc, walk, task, tlb, history>>

WalkFollow ==
    /\ pc = "map"
    /\ level < 4
    /\ Present(Entry)
    /\ mem' = TempMap(mem, Entry.f)
    /\ tab' = Reached(mem, Entry.f)
    /\ level' = level + 1
    /\ UNCHANGED <<pc, alloc, call, task, tlb, history>>

(* Slip: the flags are left out of the entry.                              *)
PteBare(f, fl) == [f |-> f, fl |-> {}]
Pte(f, fl) == [f |-> f, fl |-> fl]

(* The entry is written over whatever was there; nothing is freed.         *)
WritePte ==
    /\ pc = "map"
    /\ level = 4
    /\ mem' = [mem EXCEPT ![tab][call.va[4]] = Pte(call.f, call.fl)]
    /\ asked' = [v \in DOMAIN asked \cup {call.va} |->
                    IF v = call.va THEN call.fl ELSE asked[v]]
    /\ lost' = IF Present(Entry) THEN lost \cup {Entry.f} ELSE lost
    /\ pc' = call.then
    /\ call' = IF call.then = "task" THEN call ELSE NoCall
    /\ level' = 0
    /\ tab' = 0
    /\ UNCHANGED <<alloc, task, tlb, stale>>
-----------------------------------------------------------------------------
(* kernel_main: a frame for the program's pml4t, mapped where the kernel   *)
(* can reach it, then a copy of the kernel's, then cr3.                    *)
NewTask ==
    /\ pc = "idle"
    /\ task = NULL
    /\ used' = Take(PmmAlloc)
    /\ map_page(pml4t, KernelVa(PmmAlloc), PmmAlloc, {"P", "W"}, "task")
    /\ UNCHANGED <<mem, task, tlb, history, lent0>>

(* The frames get_physical_address and unmap_page find on their way, with  *)
(* no look at the present bits.                                            *)
Path(m, root, va) ==
    LET pdpt == m[root][va[1]].f
        pd == m[pdpt][va[2]].f
        pt == m[pd][va[3]].f
    IN  <<pdpt, pd, pt, m[pt][va[4]].f>>

TaskCopy ==
    /\ pc = "task"
    /\ LET copied == [mem EXCEPT ![call.f] = mem[pml4t]]
           path == Path(copied, pml4t, call.va)
       IN  /\ mem' = TempMap(copied, path[3])
           /\ task' = path[4]
    /\ pc' = "idle"
    /\ call' = NoCall
    /\ tlb' = {}
    /\ UNCHANGED <<alloc, level, tab, history>>

(* load_elf, for one page of the program: a frame, not checked for NULL,   *)
(* and its mapping.                                                        *)
LoadPage(va, fl) ==
    /\ pc = "idle"
    /\ task # NULL
    /\ used' = Take(PmmAlloc)
    /\ lent0' = (lent0 \/ PmmAlloc = NULL)
    /\ map_page(task, va, PmmAlloc, fl, "idle")
    /\ UNCHANGED <<mem, task, tlb, history>>

Empty(m, t) == \A x \in 0 .. N - 1 : ~Present(m[t][x])

(* Slip: the frame of the page is not freed.                               *)
FreedTables(m, path) == {t \in {path[1], path[2], path[3]} : Empty(m, t)}

(* What unmap_page frees: the page's frame and, without a change to the    *)
(* entries above them, the tables that have no entry left.                 *)
Freed(m, path) == {path[4]} \cup {t \in {path[1], path[2], path[3]} : Empty(m, t)}

(* The processor is not told: what the TLB has for the page stays.         *)
unmap_page(va) ==
    LET path == Path(mem, task, va)
        without == [mem EXCEPT ![path[3]][va[4]] = Zero]
        m == TempMap(without, path[1])
    IN  /\ pc = "idle"
        /\ task # NULL
        /\ mem' = m
        /\ used' = used \ Freed(m, path)
        /\ asked' = [v \in DOMAIN asked \ {va} |-> asked[v]]
        /\ stale' = stale \cup ({<<va, path[4]>>} \cap tlb)
        /\ UNCHANGED <<pc, walk, task, tlb, lost, lent0>>

get_physical_address(va) ==
    /\ pc = "idle"
    /\ task # NULL
    /\ mem' = TempMap(mem, Path(mem, task, va)[3])
    /\ UNCHANGED <<pc, alloc, walk, task, tlb, history>>
-----------------------------------------------------------------------------
(* What the processor makes of page v under the tables at root: the frame  *)
(* if every entry on the way is present, and the flags all of them grant.  *)
Levels(root, v) ==
    LET e1 == mem[root][v[1]]
        e2 == mem[e1.f][v[2]]
        e3 == mem[e2.f][v[3]]
    IN  <<e1, e2, e3, mem[e3.f][v[4]]>>

Unmapped == NFRAMES
Translate(root, v) ==
    LET e1 == mem[root][v[1]]
        e2 == mem[e1.f][v[2]]
        e3 == mem[e2.f][v[3]]
        e4 == mem[e3.f][v[4]]
    IN  IF Present(e1) /\ Present(e2) /\ Present(e3) /\ Present(e4) THEN e4.f
        ELSE Unmapped
Granted(root, v) ==
    LET es == Levels(root, v) IN {fl \in {"W", "U"} : \A x \in 1 .. 4 : fl \in es[x].fl}

Mapped(v) == task # NULL /\ Translate(task, v) # Unmapped

(* How many entries the last table on the way to v has.                    *)
InTable(v) == Cardinality({x \in 0 .. N - 1 : Present(mem[Path(mem, task, v)[3]][x])})

(* A program is loaded at any pages, mapped before or not.                 *)
Load == \E v \in UserVas, fl \in UserFlags : LoadPage(v, fl)

(* The callers unmap_page can serve: the page is mapped, to a frame of its *)
(* own, and is not the last one of its table.                              *)
Unmap == \E v \in UserVas : /\ Mapped(v)
                            /\ Translate(task, v) # NULL
                            /\ InTable(v) > 1
                            /\ unmap_page(v)

(* The program, or the kernel on its behalf, uses a page of which the TLB  *)
(* has no translation, or no longer; it takes the one in force.            *)
Touch ==
    /\ pc = "idle"
    /\ \E v \in TouchedVas :
          /\ Mapped(v)
          /\ tlb' = {e \in tlb : e[1] # v} \cup {<<v, Translate(task, v)>>}
          /\ stale' = {e \in stale : e[1] # v}
    /\ UNCHANGED <<pc, mem, alloc, walk, task, asked, lost>>

(* Any caller that unmaps a page that is mapped.                           *)
UnmapAny == \E v \in UserVas : Mapped(v) /\ unmap_page(v)

Lookup == \E v \in UserVas : Mapped(v) /\ get_physical_address(v)

Walk == WalkAlloc \/ WalkPanic \/ WalkFollow \/ WritePte \/ TaskCopy
Stopped == pc = "panic" /\ UNCHANGED vars

Next == paging_init \/ NewTask \/ Load \/ Unmap \/ Touch \/ Lookup \/ Walk \/ Stopped
Spec == Init /\ [][Next]_vars /\ WF_vars(Walk)

NextAny == Next \/ UnmapAny
SpecAny == Init /\ [][NextAny]_vars /\ WF_vars(Walk)
-----------------------------------------------------------------------------
(* The tables cr3 points at.                                               *)
Root == IF task = NULL THEN pml4t ELSE task

(* The entries of the tables in ts that are present, as table, index and   *)
(* frame, and those of them that let user mode through.                    *)
Links(ts) ==
    {<<e[1], e[2], mem[e[1]][e[2]].f>> :
        e \in {d \in ts \X (0 .. N - 1) : Present(mem[d[1]][d[2]])}}
UserLinks(ts) == {e \in Links(ts) : "U" \in mem[e[1]][e[2]].fl}
Targets(es) == {e[3] : e \in es}

Roots == {pml4t} \cup ({task} \ {NULL})
L1 == Links(Roots)
L2 == Links(Targets(L1))
L3 == Links(Targets(L2))
L4 == Links(Targets(L3))

(* The frames that serve as page tables, and the entries that map pages,   *)
(* leaving aside the kernel's first table, which maps its own region.      *)
Tables == Roots \cup Targets(L1 \cup L2 \cup L3)
Leaves == {e \in L4 : e[1] # TempPt(mem)}

(* The frames a program running in user mode can touch: through the tables *)
(* or through what the TLB has kept, of pages that were not unmapped.      *)
UserReach ==
    {e[2] : e \in tlb \ stale} \cup Targets(UserLinks(Targets(UserLinks(Targets(UserLinks(Targets(UserLinks({Root}))))))))
-----------------------------------------------------------------------------
(* The variables hold table entries, frames and flags of the right kind.   *)
TypeOK ==
    /\ pc \in {"boot", "idle", "map", "task", "panic"}
    /\ mem \in [Frames -> [0 .. N - 1 -> [f : Frames, fl : SUBSET Flags]]]
    /\ used \subseteq Frames
    /\ level \in 0 .. 4
    /\ tab \in Frames
    /\ task \in Frames
    /\ tlb \subseteq TouchedVas \X Frames
    /\ lost \subseteq Frames
    /\ stale \subseteq tlb
    /\ lent0 \in BOOLEAN

(* pmm.c's bitmap agrees with the tables of vmm.c: a frame is marked used  *)
(* exactly when it is the kernel's, is a page table that is linked, is     *)
(* mapped or about to be, or was mapped at a page that was mapped over.    *)
(* That is the only way a frame is lost; and unmap_page frees none that is *)
(* still in the tables.                                                    *)
FramesAccounted ==
    pc # "boot" =>
        used = KernelFrames \cup Tables \cup Targets(Leaves) \cup {call.f} \cup lost

(* The tables form a tree: a table hangs on one entry only, but for the    *)
(* kernel's half, which the program's pml4t shares; and no page of a       *)
(* program is mapped twice or lies in a frame that is a page table.        *)
OneOwner ==
    LET top == L1
        hung == top \cup L2 \cup L3
        tables == Roots \cup Targets(hung)
        shared == {e \in top : e[2] = N - 1}
        leaves == Leaves
    IN  pc # "boot" =>
          /\ \A d, e \in hung : d[3] = e[3] => d = e \/ {d, e} \subseteq shared
          /\ \A d, e \in leaves : d[3] = e[3] => d = e \/ d[3] = NULL
          /\ \A e \in leaves : e[3] \in tables => e[3] = task

(* User mode reaches no frame of the kernel, no page table and no frame    *)
(* that pmm_alloc may lend again: not through the tables, and not through  *)
(* a translation the TLB has kept of a page that was mapped over.  The     *)
(* ways out are a load_elf that was given NULL by pmm_alloc and mapped it, *)
(* and what the TLB has kept of a page that was unmapped.                  *)
UserIsolation ==
    pc # "boot" /\ ~lent0 => UserReach \cap (KernelFrames \cup Tables \cup Free) = {}

(* A page load_elf has mapped can be read from user mode, since every      *)
(* table above it was entered with the flags of some page of a program,    *)
(* and can be written only if it was asked to be.                          *)
UserAccess ==
    pc = "idle" =>
        \A v \in UserVas \cap DOMAIN asked :
            /\ Mapped(v)
            /\ "U" \in Granted(task, v)
            /\ Granted(task, v) \subseteq asked[v]

(* The flags given to map_page are what the MMU makes of the page.         *)
GrantedAsAsked ==
    pc = "idle" =>
        \A v \in UserVas \cap DOMAIN asked : Granted(task, v) = asked[v] \ {"P"}

(* What pmm_free was given cannot be reached any more: a free frame is not *)
(* linked as a page table, and the TLB has no translation to one.          *)
FreedUnreachable ==
    pc = "idle" => /\ Tables \subseteq used
                   /\ {e[2] : e \in tlb} \subseteq used

(* map_page ends, and then the page is mapped, unless there was no frame   *)
(* for a table.                                                            *)
MapCompletes ==
    \A v \in UserVas : (pc = "map" /\ call.va = v) ~> (Mapped(v) \/ pc = "panic")

(* Whatever tables are built, linked, cleared and shared on the way, each  *)
(* step changes the translation of at most the page that is being mapped   *)
(* or unmapped, and never that of a page of the kernel.                    *)
KernelVas == {KernelVa(f) : f \in 0 .. N - 2}
KernelPart == [v \in KernelVas |-> v[4]]

(* The pages of programs, and the other pages of the kernel's region.      *)
LaterVas == UserVas \cup {<<N - 1, N - 2, c, d>> : c \in 1 .. N - 1, d \in 0 .. N - 1}

space ==
    [v \in KernelVas \cup LaterVas |->
        IF pc # "boot" THEN Translate(Root, v)
        ELSE IF v \in KernelVas THEN v[4] ELSE Unmapped]
Space == INSTANCE AddressSpace WITH UserPages <- LaterVas

(* vmm.c implements the abstract address space, in the sense above.        *)
AddressSpaceSpec == Space!Spec
=============================================================================
