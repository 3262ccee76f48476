----------------------------- MODULE ElfLoader -----------------------------
(***************************************************************************)
(* load_elf (elf_parser.c): the checks of the file's header, the loop over *)
(* its segments with the loop over the pages of each, the copy, and the    *)
(* stack.  Page tables are abstracted to the translation they give, as     *)
(* module AddressSpace allows, and to the flag W each was entered with.    *)
(* When a page is mapped over, the processor may go on using the           *)
(* translation it had: map_page does not invalidate the TLB.               *)
(***************************************************************************)
EXTENDS Integers, Sequences, FiniteSets

CONSTANTS
    PAGE_SIZE,
    MaxFrames,       \* physical memory may have 0 .. MaxFrames frames left
    ENTRIES,         \* entries in a page table
    STACK_PAGE,      \* the page of user_stack
    Locals,          \* where the build keeps load_elf's variable entry
    Files            \* other files load_elf may be given

NULL == 0
EI_CLASS == 4
ELFCLASS64 == 2
EI_DATA == 5
ELFDATA2LSB == 1
EM_X86_64 == 62
PT_LOAD == 1

magic == [k \in 0 .. 3 |-> <<127, 69, 76, 70>>[k + 1]]

(* The fields of the file's header and of a program header that are used.  *)
Ehdr == [e_ident : [0 .. 5 -> 0 .. 255], e_machine : Nat]
Phdr == [type : Nat, va : Nat, memsz : Nat, filesz : Nat, w : BOOLEAN]

ASSUME LoaderAssumption ==
    /\ PAGE_SIZE \in Nat \ {0} /\ MaxFrames \in Nat
    /\ ENTRIES \in Nat \ {0}
    /\ STACK_PAGE \in Nat /\ STACK_PAGE > 3
    /\ Locals \subseteq {"frame", "register"}
    /\ \A x \in Files :
          /\ x.ehdr \in Ehdr
          /\ x.phdrs \in Seq(Phdr)
          /\ \A k \in DOMAIN x.phdrs :
                (x.phdrs[k].va + x.phdrs[k].memsz) \div PAGE_SIZE < STACK_PAGE - 1

VARIABLES
    pc,              \* "check", "segment", "page", "copy", "stack", "entry",
                     \*   "sysret", and how it ends: "user", "halted", "panic"
                     \*   or "fault"
    file,            \* elf_data
    i, j,            \* the loop variables
    result,          \* what load_elf returned, 0 if it did not
    space,           \* page -> its frame and whether it is writable
    tables,          \* page table -> whether its entry has W
    tlb,             \* translations that were mapped over and that the TLB may
                     \*   have kept: <<page, frame>>
    free,            \* frames pmm_alloc has
    data,            \* frame -> its bytes; <<s, k>> is byte k of segment s
    cpu              \* STAR, the stack and segments the program starts with, rbp
                     \*   and where entry is

vars == <<pc, file, i, j, result, space, tables, tlb, free, data, cpu>>

Frames == 0 .. MaxFrames
Offsets == 0 .. PAGE_SIZE - 1
Junk == <<0, 0>>
PageOf(a) == a \div PAGE_SIZE

(* The program kernel_main has compiled in: one segment, read-only, that   *)
(* begins a page and ends inside it.                                       *)
user_program_elf ==
    [ehdr |-> [e_ident |-> [k \in 0 .. 5 |-> <<127, 69, 76, 70, 2, 1>>[k + 1]],
               e_machine |-> EM_X86_64],
     phdrs |-> <<[type |-> PT_LOAD, va |-> PAGE_SIZE, memsz |-> PAGE_SIZE - 1,
                  filesz |-> PAGE_SIZE - 1, w |-> FALSE]>>]

(* enable_syscall, which has run before: (0x18 << 32) | (0x28 << 48) on a  *)
(* 32-bit int.  Such a shift is undefined; compilers take the result for 0 *)
(* or the count modulo 32.  The high half of the sum is 0 in every case.   *)
ShiftOver(x, n) == {0, x * 2^(n % 32)}
STAR_MSR_VAL ==
    {[low |-> a + b, high |-> 0] : a \in ShiftOver(24, 32), b \in ShiftOver(40, 48)}

Init ==
    /\ pc = "check"
    /\ file \in Files \cup {user_program_elf}
    /\ i = 1
    /\ j = 0
    /\ result = 0
    /\ space = [p \in {} |-> [f |-> 0, w |-> FALSE]]
    /\ tables = [t \in {} |-> FALSE]
    /\ tlb = {}
    /\ \E k \in Frames : free = 1 .. k
    /\ data = [f \in Frames |-> [o \in Offsets |-> Junk]]
    /\ cpu \in {[star |-> x, rsp |-> 0, rbp |-> 0, cs |-> 0, ss |-> 0, local |-> y] :
                    x \in STAR_MSR_VAL, y \in Locals}
-----------------------------------------------------------------------------
(* The checks of the header in their order: the code of the first that     *)
(* fails, which kernel_main answers by halting, or 0.                      *)
HeaderError(h) ==
    IF \E k \in 0 .. 3 : h.e_ident[k] # magic[k] THEN 16
    ELSE IF h.e_ident[EI_CLASS] # ELFCLASS64 THEN 17
    ELSE IF h.e_ident[EI_DATA] # ELFDATA2LSB THEN 18
    ELSE IF h.e_machine # EM_X86_64 THEN 19 ELSE 0

CheckHeader ==
    /\ pc = "check"
    /\ result' = HeaderError(file.ehdr)
    /\ pc' = IF result' = 0 THEN "segment" ELSE "halted"
    /\ UNCHANGED <<file, i, j, space, tables, tlb, free, data, cpu>>

Seg == file.phdrs[i]

PageCount(s) == PageOf(s.va + s.memsz) + 1 - PageOf(s.va)

(* Slip: a header that is not PT_LOAD is not passed over.                  *)
PassedOverNot(k) == k
PassedOver(k) == k + 1

NextSegment ==
    /\ pc = "segment"
    /\ i <= Len(file.phdrs)
    /\ IF Seg.type = PT_LOAD
       THEN pc' = "page" /\ j' = 0 /\ i' = i
       ELSE pc' = "segment" /\ j' = j /\ i' = PassedOver(i)
    /\ UNCHANGED <<file, result, space, tables, tlb, free, data, cpu>>

LastSegment ==
    /\ pc = "segment"
    /\ i > Len(file.phdrs)
    /\ pc' = "stack"
    /\ UNCHANGED <<file, i, j, result, space, tables, tlb, free, data, cpu>>

(* Slip: the loop of pmm_alloc runs one frame too far.                     *)
LowestPastEnd(S) ==
    IF S = {} THEN MaxFrames + 1 ELSE CHOOSE f \in S : \A g \in S : f <= g

(* pmm_alloc: the lowest frame, or NULL.                                   *)
Lowest(S) == IF S = {} THEN NULL ELSE CHOOSE f \in S : \A g \in S : f <= g
Low(S, k) == {f \in S : Cardinality({g \in S : g < f}) < k}

With(f, a, v) == [b \in DOMAIN f \cup {a} |-> IF b = a THEN v ELSE f[b]]

(* The tables on the way to page p, as level and place: its page table,    *)
(* page directory and page directory pointer table.                        *)
Path(p) == {<<n, p \div ENTRIES^n>> : n \in 1 .. 3}
Highest(ts, k) == {t \in ts : Cardinality({u \in ts : u[1] > t[1]}) < k}

(* Slip: a table map_page finds takes the flags of the page.               *)
WithFlagsOfLast(p, ts, w) ==
    [t \in DOMAIN tables \cup ts |-> IF t \in ts \cup Path(p) THEN w ELSE tables[t]]

(* The tables that are entered have the flags of the page.                 *)
WithFlags(p, ts, w) ==
    [t \in DOMAIN tables \cup ts |-> IF t \in ts THEN w ELSE tables[t]]

(* A frame, whatever pmm_alloc answers, mapped at page p; map_page takes   *)
(* frames for the tables that are missing, from the highest down, and      *)
(* panics when there are too few.                                          *)
MapFrame(p, w, then) ==
    LET phys_addr == Lowest(free)
        rest == free \ {phys_addr}
        missing == Path(p) \ DOMAIN tables
        entered == Highest(missing, Cardinality(rest))
        before == {<<q, space[q].f>> : q \in DOMAIN space \cap {p}}
    IN  /\ free' = rest \ Low(rest, Cardinality(missing))
        /\ tables' = WithFlags(p, entered, w)
        /\ \/ /\ entered = missing
              /\ space' = With(space, p, [f |-> phys_addr, w |-> w])
              /\ tlb' \in {tlb, tlb \cup before}
              /\ pc' = then
           \/ /\ entered # missing
              /\ pc' = "panic"
              /\ UNCHANGED <<space, tlb>>

MapNextPage ==
    /\ pc = "page"
    /\ j < PageCount(Seg)
    /\ MapFrame(PageOf(Seg.va) + j, Seg.w, "page")
    /\ j' = j + 1
    /\ UNCHANGED <<file, i, result, data, cpu>>

PagesDone ==
    /\ pc = "page"
    /\ j = PageCount(Seg)
    /\ pc' = "copy"
    /\ UNCHANGED <<file, i, j, result, space, tables, tlb, free, data, cpu>>

(* Slip: the copy starts at the beginning of the page.                     *)
DestAligned == PageOf(Seg.va) * PAGE_SIZE

(* memcpy of the segment's f_size bytes, through the program's own         *)
(* addresses.  The kernel may write to read-only pages: CR0.WP is not set. *)
Dest == Seg.va
CopyPages == {PageOf(Dest + k) : k \in 0 .. Seg.filesz - 1}
Cached(p) == {e[2] : e \in {d \in tlb : d[1] = p}}

(* The frames an access to page p may reach.                               *)
FramesOf(p) == {space[q].f : q \in DOMAIN space \cap {p}} \cup Cached(p)

(* The bytes that go to offset o of frame f when byte k goes to frame g[k] *)
CopiedTo(g, f, o) ==
    {k \in 0 .. Seg.filesz - 1 : g[k] = f /\ (Dest + k) % PAGE_SIZE = o}

Copy ==
    /\ pc = "copy"
    /\ CopyPages \subseteq DOMAIN space
    /\ \E g \in [0 .. Seg.filesz - 1 -> UNION {FramesOf(p) : p \in CopyPages}] :
          /\ \A k \in 0 .. Seg.filesz - 1 : g[k] \in FramesOf(PageOf(Dest + k))
          /\ data' = [f \in Frames |-> [o \in Offsets |->
                 LET ks == CopiedTo(g, f, o)
                 IN  IF ks = {} THEN data[f][o]
                     ELSE <<i, CHOOSE k \in ks : \A l \in ks : l <= k>>]]
    /\ i' = i + 1
    /\ pc' = "segment"
    /\ UNCHANGED <<file, j, result, space, tables, tlb, free, cpu>>

CopyFault ==
    /\ pc = "copy"
    /\ ~(CopyPages \subseteq DOMAIN space)
    /\ pc' = "fault"
    /\ UNCHANGED <<file, i, j, result, space, tables, tlb, free, data, cpu>>

(* One page of stack; rsp and rbp are set to its lowest address.          *)
MapStack ==
    /\ pc = "stack"
    /\ MapFrame(STACK_PAGE, TRUE, "entry")
    /\ cpu' = [cpu EXCEPT !.rsp = STACK_PAGE * PAGE_SIZE, !.rbp = STACK_PAGE * PAGE_SIZE]
    /\ UNCHANGED <<file, i, j, result, data>>

(* The read of entry.  A build with -O0, which the Makefile asks for, has  *)
(* it in load_elf's frame below rbp, which by now is another rbp; one with *)
(* optimisation has it in a register.                                      *)
EntryAddress == cpu.rbp - 1

ReadEntry ==
    /\ pc = "entry"
    /\ pc' = IF cpu.local = "register" \/ PageOf(EntryAddress) \in DOMAIN space
             THEN "sysret" ELSE "fault"
    /\ UNCHANGED <<file, i, j, result, space, tables, tlb, free, data, cpu>>

(* sysret takes the segments from the top 16 bits of STAR, its 64-bit form *)
(* cs two descriptors further up; the source leaves the form open.         *)
Sysret ==
    /\ pc = "sysret"
    /\ LET base == cpu.star.high \div 2^16
       IN  \E form \in {0, 16} :
             cpu' = [cpu EXCEPT !.cs = base + form + 3, !.ss = base + 8 + 3]
    /\ pc' = "user"
    /\ UNCHANGED <<file, i, j, result, space, tables, tlb, free, data>>

Load ==
    \/ CheckHeader \/ NextSegment \/ LastSegment
    \/ MapNextPage \/ PagesDone \/ Copy \/ CopyFault
    \/ MapStack \/ ReadEntry \/ Sysret

Stopped == pc \in {"user", "halted", "panic", "fault"} /\ UNCHANGED vars

Next == Load \/ Stopped
Spec == Init /\ [][Next]_vars /\ WF_vars(Load)
-----------------------------------------------------------------------------
(* The variables have the types of load_elf's locals.                      *)
TypeOK ==
    /\ pc \in {"check", "segment", "page", "copy", "stack", "entry", "sysret",
               "user", "halted", "panic", "fault"}
    /\ i \in 1 .. Len(file.phdrs) + 1
    /\ j \in Nat
    /\ result \in {0, 16, 17, 18, 19}
    /\ space \in [DOMAIN space -> [f : Frames, w : BOOLEAN]]
    /\ tables \in [DOMAIN tables -> BOOLEAN]
    /\ tlb \subseteq Nat \X Frames
    /\ free \subseteq Frames \ {NULL}
    /\ {cpu.rsp, cpu.rbp, cpu.cs, cpu.ss} \subseteq Nat

Loaded == {k \in 1 .. Len(file.phdrs) : file.phdrs[k].type = PT_LOAD}

(* The pages the loop maps for segment k: those of its bytes, and the page *)
(* after them when it ends at a page boundary.                             *)
Region(k) == PageOf(file.phdrs[k].va) .. PageOf(file.phdrs[k].va + file.phdrs[k].memsz)

(* The pages that hold bytes of segment k, and those that hold bytes of no *)
(* other one.                                                              *)
SegPages(k) ==
    LET s == file.phdrs[k]
    IN  {PageOf(s.va + b) : b \in 0 .. s.memsz - 1}
OwnPages(k) == SegPages(k) \ UNION {SegPages(l) : l \in Loaded \ {k}}

(* A file as linkers write them and as the ELF format asks, which load_elf *)
(* takes on trust: the loaded segments in the order of their addresses,    *)
(* apart from each other, none empty after the first, and no segment with  *)
(* more bytes in the file than in memory.                                  *)
Orderly ==
    /\ \A k \in Loaded : file.phdrs[k].filesz <= file.phdrs[k].memsz
    /\ \A k, l \in Loaded :
          k < l => /\ file.phdrs[k].va + file.phdrs[k].memsz <= file.phdrs[l].va
                   /\ file.phdrs[l].memsz > 0

OutOfMemory == \E p \in DOMAIN space : space[p].f = NULL

(* The processor lets the program write to page p: its entry and those of  *)
(* the tables on the way all have W.                                       *)
Granted(p) == space[p].w /\ \A t \in Path(p) : tables[t]

(* A read-only segment before segment k has a table on the way to page p.  *)
ReadOnlyBefore(k, p) ==
    \E l \in Loaded : /\ l < k
                      /\ ~file.phdrs[l].w
                      /\ \E q \in Region(l) : Path(q) \cap Path(p) # {}

(* load_elf always ends: it returns an error code for exactly the files    *)
(* whose header is not as in a program for this machine, and panics only   *)
(* when no frame is left.  It faults in its copy only for a file that has  *)
(* more bytes for a segment than the segment has memory; the others reach  *)
(* user mode, unless the build keeps entry in the frame that rbp no longer *)
(* points to.                                                              *)
RightHeader == file.ehdr = user_program_elf.ehdr
LoadEnds ==
    <>(\/ pc = "halted" /\ ~RightHeader
       \/ pc = "panic" /\ RightHeader /\ free = {}
       \/ pc = "fault" /\ RightHeader /\ i \in Loaded /\ Seg.filesz > Seg.memsz
       \/ pc = "fault" /\ RightHeader /\ i > Len(file.phdrs) /\ cpu.local = "frame"
       \/ pc = "user" /\ RightHeader /\ i > Len(file.phdrs) /\ cpu.local = "register")

(* All segments and the stack are in place.                                *)
Ready == pc \in {"entry", "sysret", "user"}

(* A segment other than k has page p mapped too: of pages that hold bytes  *)
(* of segment k alone, the page after a segment that ends at a boundary.   *)
MappedFor(k, p) == \E l \in Loaded \ {k} : p \in Region(l)

(* Then each byte an orderly file has for a page that belongs to one       *)
(* segment is in the frame the page is mapped to.  Only if the page was    *)
(* mapped for another segment too may it be in a frame mapped there before *)
(* that the TLB still had, since map_page does not invalidate it.          *)
SegmentsLoaded ==
    Ready /\ Orderly /\ ~OutOfMemory =>
        \A k \in Loaded : \A b \in 0 .. file.phdrs[k].filesz - 1 :
            LET a == file.phdrs[k].va + b
                p == PageOf(a)
            IN  p \in OwnPages(k) =>
                  \E f \in IF MappedFor(k, p) THEN FramesOf(p) ELSE {space[p].f} :
                      data[f][a % PAGE_SIZE] = <<k, b>>

(* Whatever the file, every page of a segment is mapped then, and no two   *)
(* pages share a frame.  In an orderly one, a page of one segment can be   *)
(* written only if the segment asks for it, and can be if it does and no   *)
(* read-only segment before it entered a table on the way.                 *)
SegmentRights ==
    Ready =>
        /\ \A k \in Loaded :
              /\ SegPages(k) \subseteq DOMAIN space
              /\ Orderly => \A p \in OwnPages(k) :
                    /\ Granted(p) => file.phdrs[k].w
                    /\ file.phdrs[k].w => Granted(p) \/ ReadOnlyBefore(k, p)
        /\ \A p, q \in DOMAIN space :
              space[p].f = space[q].f => p = q \/ space[p].f = NULL

(* The program of a file with a good header starts, with a stack it can    *)
(* push onto and with the user segments of the GDT, 0x28 for code and 0x20 *)
(* for data.                                                               *)
ProgramContext ==
    pc \in {"user", "fault"} /\ RightHeader =>
        /\ pc = "user"
        /\ PageOf(cpu.rsp - 1) \in DOMAIN space
        /\ cpu.cs = 40 + 3 /\ cpu.ss = 32 + 3
=============================================================================
