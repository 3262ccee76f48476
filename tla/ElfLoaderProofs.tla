-------------------------- MODULE ElfLoaderProofs --------------------------
(***************************************************************************)
(* Proofs about load_elf, for every page size, amount of memory and file.  *)
(***************************************************************************)
EXTENDS ElfLoader, WellFoundedInduction, TLAPS

(* Page p of segment k has been mapped.                                    *)
Reached(k, p) ==
    /\ k \in Loaded
    /\ p \in Region(k)
    /\ \/ k < i
       \/ k = i /\ pc = "copy"
       \/ k = i /\ pc = "page" /\ p < PageOf(file.phdrs[k].va) + j

(* Where load_elf stands in its loops.                                     *)
Place ==
    /\ file \in Files \cup {user_program_elf}
    /\ pc \in {"page", "copy"} => i \in Loaded
    /\ pc = "page" => j <= PageCount(Seg)
    /\ pc \in {"stack", "entry", "sysret", "user"} => i = Len(file.phdrs) + 1

(* A frame belongs to one page for ever, unless it is NULL, and pmm_alloc  *)
(* has no such frame to give.                                              *)
FrameOwned ==
    /\ \A p, q \in Nat : \A f \in FramesOf(p) \cap FramesOf(q) : p = q \/ f = NULL
    /\ \A p \in Nat : FramesOf(p) \cap free = {}
    /\ DOMAIN space \subseteq Nat

(* Once pmm_alloc has answered NULL it always will.                        *)
StaysEmpty ==
    /\ OutOfMemory => free = {}
    /\ \A p \in Nat : NULL \in Cached(p) => OutOfMemory

(* The tables on the way to a mapped page are there, and one without W was *)
(* entered for a page of a read-only segment.                              *)
TablesSoFar ==
    /\ \A p \in DOMAIN space : Path(p) \subseteq DOMAIN tables
    /\ \A t \in DOMAIN tables :
          ~tables[t] => \E l \in Loaded : /\ l <= i /\ ~file.phdrs[l].w
                                         /\ \E q \in Region(l) : t \in Path(q)

(* What is mapped has the rights of its segment, as far as the tables that *)
(* were there before allow.                                                *)
MappedSoFar == \A k \in Loaded : \A p \in Region(k) : Reached(k, p) => p \in DOMAIN space
RightsOf(k, p) ==
    /\ space[p].w = file.phdrs[k].w
    /\ file.phdrs[k].w => (\A t \in Path(p) : tables[t]) \/ ReadOnlyBefore(k, p)
RightsSoFar ==
    Orderly => \A k \in Loaded : \A p \in OwnPages(k) : Reached(k, p) => RightsOf(k, p)

(* The bytes of the segments that are complete are in place.               *)
ByteInPlace(k, b) ==
    LET a == file.phdrs[k].va + b
    IN  PageOf(a) \in OwnPages(k) =>
          \E f \in FramesOf(PageOf(a)) : data[f][a % PAGE_SIZE] = <<k, b>>
DataSoFar ==
    Orderly /\ ~OutOfMemory =>
        \A k \in Loaded : \A b \in 0 .. file.phdrs[k].filesz - 1 : k < i => ByteInPlace(k, b)

CpuType ==
    cpu \in [star : STAR_MSR_VAL, rsp : Nat, rbp : Nat, cs : Nat, ss : Nat, local : Locals]

(* The inductive invariant.                                                *)
LoadInv ==
    /\ TypeOK /\ CpuType /\ Place /\ FrameOwned /\ StaysEmpty
    /\ MappedSoFar /\ TablesSoFar /\ RightsSoFar /\ DataSoFar
-----------------------------------------------------------------------------
(* The page and the offset of an address determine it.                     *)
LEMMA PageArith ==
    ASSUME NEW a \in Nat
    PROVE  /\ PageOf(a) \in Nat
           /\ a % PAGE_SIZE \in Offsets
           /\ a % PAGE_SIZE = a - PAGE_SIZE * PageOf(a)
  <1>1. PAGE_SIZE \in Nat \ {0}
    BY LoaderAssumption
  <1>2. PageOf(a) \in Nat
    BY <1>1 DEF PageOf
  <1>3. a % PAGE_SIZE \in Offsets
    BY <1>1 DEF Offsets
  <1>4. a % PAGE_SIZE = a - PAGE_SIZE * PageOf(a)
    BY <1>1 DEF PageOf
  <1> QED
    BY <1>2, <1>3, <1>4

LEMMA PageMono ==
    ASSUME NEW a \in Nat, NEW b \in Nat, a <= b
    PROVE  PageOf(a) <= PageOf(b)
  <1>1. PAGE_SIZE \in Nat \ {0}
    BY LoaderAssumption
  <1>2. PageOf(a) \in Nat /\ PageOf(b) \in Nat
    BY PageArith
  <1>3. PAGE_SIZE * PageOf(a) < PAGE_SIZE * PageOf(b) + PAGE_SIZE
    <2> DEFINE x == PAGE_SIZE * PageOf(a)
               y == PAGE_SIZE * PageOf(b)
    <2>1. x \in Int /\ y \in Int
      BY <1>1, <1>2
    <2>2. a % PAGE_SIZE = a - x /\ a % PAGE_SIZE \in 0 .. PAGE_SIZE - 1
      BY PageArith DEF Offsets
    <2>3. b % PAGE_SIZE = b - y /\ b % PAGE_SIZE \in 0 .. PAGE_SIZE - 1
      BY PageArith DEF Offsets
    <2> HIDE DEF x, y
    <2>4. a - x \in 0 .. PAGE_SIZE - 1 /\ b - y \in 0 .. PAGE_SIZE - 1
      BY <2>2, <2>3
    <2>5. x < y + PAGE_SIZE
      BY <1>1, <2>1, <2>4
    <2> QED
      BY <2>5 DEF x, y
  <1>4. ASSUME PageOf(b) + 1 <= PageOf(a)
        PROVE  PAGE_SIZE * PageOf(b) + PAGE_SIZE <= PAGE_SIZE * PageOf(a)
    BY <1>1, <1>2, <1>4
  <1> QED
    BY <1>1, <1>2, <1>3, <1>4

LEMMA SamePlace ==
    ASSUME NEW a \in Nat, NEW b \in Nat,
           PageOf(a) = PageOf(b), a % PAGE_SIZE = b % PAGE_SIZE
    PROVE  a = b
  <1>1. PAGE_SIZE \in Nat \ {0}
    BY LoaderAssumption
  <1>2. /\ a % PAGE_SIZE = a - PAGE_SIZE * PageOf(a)
        /\ b % PAGE_SIZE = b - PAGE_SIZE * PageOf(b)
        /\ PageOf(a) \in Nat
    BY PageArith
  <1> QED
    BY <1>1, <1>2

(* Every file load_elf may be given has well-typed program headers, below  *)
(* the stack.                                                              *)
LEMMA FileFacts ==
    ASSUME file \in Files \cup {user_program_elf}
    PROVE  /\ file.phdrs \in Seq(Phdr)
           /\ \A k \in 1 .. Len(file.phdrs) :
                 /\ file.phdrs[k] \in Phdr
                 /\ PageOf(file.phdrs[k].va + file.phdrs[k].memsz) < STACK_PAGE
  <1>1. CASE file \in Files
    <2>1. file.phdrs \in Seq(Phdr)
      BY <1>1, LoaderAssumption
    <2>2. \A k \in DOMAIN file.phdrs :
             (file.phdrs[k].va + file.phdrs[k].memsz) \div PAGE_SIZE < STACK_PAGE - 1
      BY <1>1, LoaderAssumption
    <2>3. ASSUME NEW k \in 1 .. Len(file.phdrs)
          PROVE  /\ file.phdrs[k] \in Phdr
                 /\ PageOf(file.phdrs[k].va + file.phdrs[k].memsz) < STACK_PAGE
      <3>1. file.phdrs[k] \in Phdr /\ k \in DOMAIN file.phdrs
        BY <2>1, <2>3
      <3>2. file.phdrs[k].va + file.phdrs[k].memsz \in Nat
        BY <3>1 DEF Phdr
      <3>3. PageOf(file.phdrs[k].va + file.phdrs[k].memsz) < STACK_PAGE - 1
        BY <2>2, <3>1 DEF PageOf
      <3>4. PageOf(file.phdrs[k].va + file.phdrs[k].memsz) \in Nat
        BY <3>2, PageArith
      <3>5. PageOf(file.phdrs[k].va + file.phdrs[k].memsz) < STACK_PAGE
        BY <3>3, <3>4, LoaderAssumption
      <3> QED
        BY <3>1, <3>5
    <2> QED
      BY <2>1, <2>3
  <1>2. CASE file = user_program_elf
    <2> DEFINE s == [type |-> PT_LOAD, va |-> PAGE_SIZE, memsz |-> PAGE_SIZE - 1,
                     filesz |-> PAGE_SIZE - 1, w |-> FALSE]
    <2>1. file.phdrs = <<s>>
      BY <1>2 DEF user_program_elf
    <2>2. s \in Phdr
      BY LoaderAssumption DEF Phdr, PT_LOAD
    <2>3. PageOf(s.va + s.memsz) < STACK_PAGE
      <3>1. s.va + s.memsz \in Nat /\ s.va + s.memsz = PAGE_SIZE + PAGE_SIZE - 1
        BY LoaderAssumption
      <3>2. PageOf(s.va + s.memsz) = 1
        <4>1. PAGE_SIZE \in Nat \ {0}
          BY LoaderAssumption
        <4> QED
          BY <3>1, <4>1 DEF PageOf
      <3> QED
        BY <3>2, LoaderAssumption
    <2> HIDE DEF s
    <2>4. file.phdrs \in Seq(Phdr)
      BY <2>1, <2>2
    <2>5. \A k \in 1 .. Len(file.phdrs) : file.phdrs[k] = s
      BY <2>1
    <2> QED
      BY <2>2, <2>3, <2>4, <2>5
  <1> QED
    BY <1>1, <1>2

(* A nonempty set of frames has a lowest one, so pmm_alloc finds it.       *)
LEMMA LowestFrame ==
    ASSUME NEW S \in SUBSET (Frames \ {NULL})
    PROVE  /\ S = {} => Lowest(S) = NULL
           /\ S # {} => Lowest(S) \in S
  <1>1. CASE S = {}
    BY <1>1 DEF Lowest
  <1>2. CASE S # {}
    <2> DEFINE R == OpToRel(<, Nat)
    <2>1. S \subseteq Nat
      BY LoaderAssumption DEF Frames
    <2>2. IsWellFoundedOn(R, Nat)
      BY NatLessThanWellFounded, Zenon
    <2>3. \A a, b \in Nat : <<a, b>> \in R <=> a < b
      BY DEF OpToRel
    <2> HIDE DEF R
    <2>4. PICK x \in S : \A y \in S : ~ (<<y, x>> \in R)
      BY <1>2, <2>1, <2>2, WFMin
    <2>5. ASSUME NEW y \in S
          PROVE  x <= y
      <3>1. x \in Nat /\ y \in Nat
        BY <2>1
      <3>2. ~(y < x)
        BY <2>3, <2>4, <3>1
      <3> QED
        BY <3>1, <3>2
    <2> QED
      BY <1>2, <2>5 DEF Lowest
  <1> QED
    BY <1>1, <1>2

(* The shape of a loaded segment.                                          *)
LEMMA SegFacts ==
    ASSUME file \in Files \cup {user_program_elf}, NEW k \in Loaded
    PROVE  /\ k \in 1 .. Len(file.phdrs)
           /\ file.phdrs[k].va \in Nat /\ file.phdrs[k].memsz \in Nat
           /\ file.phdrs[k].filesz \in Nat /\ file.phdrs[k].w \in BOOLEAN
           /\ PageOf(file.phdrs[k].va) \in Nat
           /\ PageOf(file.phdrs[k].va + file.phdrs[k].memsz) \in Nat
           /\ PageOf(file.phdrs[k].va) <= PageOf(file.phdrs[k].va + file.phdrs[k].memsz)
           /\ Region(k) \subseteq Nat
           /\ STACK_PAGE \notin Region(k)
           /\ SegPages(k) \subseteq Region(k)
           /\ OwnPages(k) \subseteq SegPages(k)
  <1> DEFINE s == file.phdrs[k]
  <1>1. k \in 1 .. Len(file.phdrs)
    BY DEF Loaded
  <1>2. s \in Phdr /\ PageOf(s.va + s.memsz) < STACK_PAGE
    BY <1>1, FileFacts
  <1>3. s.va \in Nat /\ s.memsz \in Nat /\ s.filesz \in Nat /\ s.w \in BOOLEAN
    BY <1>2 DEF Phdr
  <1> HIDE DEF s
  <1>4. s.va + s.memsz \in Nat /\ s.va <= s.va + s.memsz
    BY <1>3
  <1>5. PageOf(s.va) \in Nat /\ PageOf(s.va + s.memsz) \in Nat
    BY <1>3, <1>4, PageArith
  <1>6. PageOf(s.va) <= PageOf(s.va + s.memsz)
    BY <1>3, <1>4, PageMono
  <1>7. Region(k) = PageOf(s.va) .. PageOf(s.va + s.memsz)
    BY DEF Region, s
  <1>8. Region(k) \subseteq Nat
    BY <1>5, <1>7
  <1>9. STACK_PAGE \notin Region(k)
    BY <1>2, <1>5, <1>7, LoaderAssumption
  <1>10. SegPages(k) \subseteq Region(k)
    <2>1. ASSUME NEW b \in 0 .. s.memsz - 1
          PROVE  PageOf(s.va + b) \in Region(k)
      <3>1. s.va + b \in Nat /\ s.va <= s.va + b /\ s.va + b <= s.va + s.memsz
        BY <1>3
      <3>2. PageOf(s.va) <= PageOf(s.va + b) /\ PageOf(s.va + b) <= PageOf(s.va + s.memsz)
        BY <1>3, <1>4, <3>1, PageMono
      <3>3. PageOf(s.va + b) \in Nat
        BY <3>1, PageArith
      <3> QED
        BY <1>5, <1>7, <3>2, <3>3
    <2>2. SegPages(k) = {PageOf(s.va + b) : b \in 0 .. s.memsz - 1}
      BY DEF SegPages, s
    <2> QED
      BY <2>1, <2>2
  <1>11. OwnPages(k) \subseteq SegPages(k)
    BY DEF OwnPages
  <1> QED
    BY <1>1, <1>3, <1>5, <1>6, <1>8, <1>9, <1>10, <1>11 DEF s

(* A page that only segment k has bytes in is not mapped for a later one.  *)
LEMMA LaterElsewhere ==
    ASSUME file \in Files \cup {user_program_elf}, Orderly,
           NEW k \in Loaded, NEW l \in Loaded, k < l, NEW p \in OwnPages(k)
    PROVE  p \notin Region(l)
  <1> DEFINE s == file.phdrs[k]
             t == file.phdrs[l]
  <1>1. /\ s.va \in Nat /\ s.memsz \in Nat /\ t.va \in Nat /\ t.memsz \in Nat
        /\ PageOf(t.va) \in Nat /\ PageOf(t.va + t.memsz) \in Nat
    BY SegFacts
  <1>2. s.va + s.memsz <= t.va /\ t.memsz > 0
    BY DEF Orderly
  <1>3. PICK b \in 0 .. s.memsz - 1 : p = PageOf(s.va + b)
    BY DEF OwnPages, SegPages
  <1>4. p \notin SegPages(l)
    <2>1. l \in Loaded \ {k}
      BY SegFacts
    <2> QED
      BY <2>1 DEF OwnPages
  <1>5. p # PageOf(t.va)
    <2>1. 0 \in 0 .. t.memsz - 1 /\ t.va + 0 = t.va
      BY <1>1, <1>2
    <2>2. PageOf(t.va) \in SegPages(l)
      BY <2>1 DEF SegPages
    <2> QED
      BY <1>4, <2>2
  <1> HIDE DEF s, t
  <1>6. s.va + b \in Nat /\ s.va + b <= t.va
    BY <1>1, <1>2
  <1>7. p <= PageOf(t.va) /\ p \in Nat
    BY <1>1, <1>3, <1>6, PageMono, PageArith
  <1>8. p \notin PageOf(t.va) .. PageOf(t.va + t.memsz)
    BY <1>1, <1>5, <1>7
  <1> QED
    BY <1>8 DEF Region, t

(* What the TLB keeps for a page.                                          *)
LEMMA CachedIs ==
    ASSUME TypeOK
    PROVE  \A p, f : f \in Cached(p) <=> <<p, f>> \in tlb
  <1>1. tlb \subseteq Nat \X Frames
    BY DEF TypeOK
  <1>2. \A e \in tlb : e = <<e[1], e[2]>>
    BY <1>1
  <1>3. ASSUME NEW p, NEW f, f \in Cached(p)
        PROVE  <<p, f>> \in tlb
    BY <1>2, <1>3 DEF Cached
  <1>4. ASSUME NEW p, NEW f, <<p, f>> \in tlb
        PROVE  f \in Cached(p)
    <2>1. <<p, f>>[1] = p /\ <<p, f>>[2] = f
      OBVIOUS
    <2> QED
      BY <1>4, <2>1 DEF Cached
  <1> QED
    BY <1>3, <1>4

(* What map_page does to the tables for page p with the flag w: it changes *)
(* none, and enters new ones on the way to p alone.                        *)
TablesExtended(p, w) ==
    /\ tables' \in [DOMAIN tables' -> BOOLEAN]
    /\ DOMAIN tables \subseteq DOMAIN tables'
    /\ \A t \in DOMAIN tables : tables'[t] = tables[t]
    /\ \A t \in DOMAIN tables' \ DOMAIN tables : t \in Path(p) /\ tables'[t] = w

(* What pmm_alloc and map_page do to the translation and the frames.       *)
LEMMA MapFrameEffect ==
    ASSUME TypeOK, NEW p \in Nat, NEW w \in BOOLEAN, NEW then, MapFrame(p, w, then)
    PROVE  /\ TablesExtended(p, w)
           /\ \/ pc' = "panic" /\ free' \subseteq free /\ space' = space /\ tlb' = tlb
              \/ \E f \in Frames :
                   /\ pc' = then
                   /\ free' \subseteq free \ {f}
                   /\ f \in free \cup {NULL}
                   /\ free = {} <=> f = NULL
                   /\ space' = With(space, p, [f |-> f, w |-> w])
                   /\ tlb \subseteq tlb'
                   /\ tlb' \subseteq tlb \cup {<<q, space[q].f>> : q \in DOMAIN space \cap {p}}
                   /\ Path(p) \subseteq DOMAIN tables'
  <1> DEFINE f == Lowest(free)
             rest == free \ {f}
             missing == Path(p) \ DOMAIN tables
             entered == Highest(missing, Cardinality(rest))
             before == {<<q, space[q].f>> : q \in DOMAIN space \cap {p}}
  <1>1. free \in SUBSET (Frames \ {NULL}) /\ tables \in [DOMAIN tables -> BOOLEAN]
    BY DEF TypeOK
  <1>2. NULL \in Frames
    BY LoaderAssumption DEF NULL, Frames
  <1>3. f \in Frames /\ f \in free \cup {NULL} /\ (free = {} <=> f = NULL)
    BY <1>1, <1>2, LowestFrame
  <1>4. /\ free' = rest \ Low(rest, Cardinality(missing))
        /\ tables' = WithFlags(p, entered, w)
        /\ \/ /\ entered = missing
              /\ space' = With(space, p, [f |-> f, w |-> w])
              /\ tlb' \in {tlb, tlb \cup before}
              /\ pc' = then
           \/ /\ entered # missing
              /\ pc' = "panic"
              /\ UNCHANGED <<space, tlb>>
    BY DEF MapFrame
  <1>5. entered \subseteq missing
    BY DEF Highest
  <1> HIDE DEF f, entered, before
  <1>6. free' \subseteq free \ {f}
    BY <1>4
  <1>7. tables' = [t \in DOMAIN tables \cup entered |-> IF t \in entered THEN w ELSE tables[t]]
    BY <1>4 DEF WithFlags
  <1>8. DOMAIN tables' = DOMAIN tables \cup entered
    BY <1>7
  <1>9. TablesExtended(p, w)
    BY <1>1, <1>5, <1>7, <1>8 DEF TablesExtended
  <1>10. entered = missing => Path(p) \subseteq DOMAIN tables'
    BY <1>8
  <1>11. CASE entered = missing
    <2>1. /\ space' = With(space, p, [f |-> f, w |-> w])
          /\ pc' = then /\ tlb \subseteq tlb' /\ tlb' \subseteq tlb \cup before
      BY <1>4, <1>11
    <2> QED
      BY <1>3, <1>6, <1>9, <1>10, <1>11, <2>1 DEF before
  <1>12. CASE entered # missing
    BY <1>4, <1>6, <1>9, <1>12
  <1> QED
    BY <1>11, <1>12

(* A page is given a frame no page has had; the others keep theirs.        *)
PageMapped(p, w, then) ==
    /\ space' \in [DOMAIN space' -> [f : Frames, w : BOOLEAN]]
    /\ tlb' \subseteq Nat \X Frames
    /\ free' \subseteq Frames \ {NULL}
    /\ FrameOwned' /\ StaysEmpty'
    /\ ~OutOfMemory' => ~OutOfMemory
    /\ DOMAIN space' \subseteq DOMAIN space \cup {p}
    /\ DOMAIN space \subseteq DOMAIN space'
    /\ \A q \in DOMAIN space : q # p => space'[q] = space[q]
    /\ \A q : q # p => FramesOf(q)' = FramesOf(q)
    /\ \/ pc' = "panic" /\ space' = space /\ tlb' = tlb
       \/ /\ pc' = then /\ p \in DOMAIN space' /\ space'[p].w = w
          /\ Path(p) \subseteq DOMAIN tables'

LEMMA FramesKept ==
    ASSUME TypeOK, FrameOwned, StaysEmpty,
           NEW p \in Nat, NEW w \in BOOLEAN, NEW then, MapFrame(p, w, then)
    PROVE  PageMapped(p, w, then)
  <1>1. /\ space \in [DOMAIN space -> [f : Frames, w : BOOLEAN]]
        /\ free \subseteq Frames \ {NULL}
        /\ tlb \subseteq Nat \X Frames
        /\ DOMAIN space \subseteq Nat
    BY DEF TypeOK, FrameOwned
  <1>2. CASE pc' = "panic" /\ free' \subseteq free /\ space' = space /\ tlb' = tlb
    <2>1. \A q : FramesOf(q)' = FramesOf(q) /\ Cached(q)' = Cached(q)
      BY <1>2 DEF FramesOf, Cached
    <2>2. FrameOwned'
      BY <1>2, <2>1 DEF FrameOwned
    <2>3. OutOfMemory' <=> OutOfMemory
      BY <1>2 DEF OutOfMemory
    <2>4. StaysEmpty'
      BY <1>2, <2>1, <2>3 DEF StaysEmpty
    <2> QED
      BY <1>1, <1>2, <2>1, <2>2, <2>3, <2>4 DEF PageMapped
  <1>3. ASSUME NEW f \in Frames,
               pc' = then, free' \subseteq free \ {f}, f \in free \cup {NULL},
               free = {} <=> f = NULL, space' = With(space, p, [f |-> f, w |-> w]),
               tlb \subseteq tlb',
               tlb' \subseteq tlb \cup {<<q, space[q].f>> : q \in DOMAIN space \cap {p}},
               Path(p) \subseteq DOMAIN tables'
        PROVE  PageMapped(p, w, then)
    <2> DEFINE e == [f |-> f, w |-> w]
    <2>1. e \in [f : Frames, w : BOOLEAN] /\ e.f = f /\ e.w = w
      OBVIOUS
    <2> HIDE DEF e
    <2>2. /\ DOMAIN space' = DOMAIN space \cup {p}
          /\ space'[p] = e
          /\ \A q \in DOMAIN space : q # p => space'[q] = space[q]
      <3>1. space' = With(space, p, e)
        BY <1>3 DEF e
      <3> QED
        BY ONLY <3>1 DEF With
    <2>3. space' = [q \in DOMAIN space' |-> space'[q]]
      BY <1>3 DEF With
    <2>4. space' \in [DOMAIN space' -> [f : Frames, w : BOOLEAN]]
      BY <1>1, <2>1, <2>2, <2>3
    <2>5. free' \subseteq Frames \ {NULL}
      BY <1>1, <1>3
    <2>6. tlb' \subseteq Nat \X Frames
      <3>1. {<<q, space[q].f>> : q \in DOMAIN space \cap {p}} \subseteq Nat \X Frames
        BY <1>1
      <3> QED
        BY <1>1, <1>3, <3>1
    <2>7. \A q, g : g \in Cached(q) <=> <<q, g>> \in tlb
      BY CachedIs
    <2>8. \A q, g : g \in Cached(q)' <=> <<q, g>> \in tlb'
      <3>1. \A d \in tlb' : d = <<d[1], d[2]>>
        BY <2>6
      <3>2. ASSUME NEW q, NEW g, g \in Cached(q)'
            PROVE  <<q, g>> \in tlb'
        BY <3>1, <3>2 DEF Cached
      <3>3. ASSUME NEW q, NEW g, <<q, g>> \in tlb'
            PROVE  g \in Cached(q)'
        <4>1. <<q, g>>[1] = q /\ <<q, g>>[2] = g
          OBVIOUS
        <4> QED
          BY <3>3, <4>1 DEF Cached
      <3> QED
        BY <3>2, <3>3
    <2>9. \A q, g : g \in Cached(q)' =>
             g \in Cached(q) \/ (q = p /\ p \in DOMAIN space /\ g = space[p].f)
      <3>1. SUFFICES ASSUME NEW q, NEW g, <<q, g>> \in tlb', <<q, g>> \notin tlb
                     PROVE  q = p /\ p \in DOMAIN space /\ g = space[p].f
        BY <2>7, <2>8
      <3>2. PICK x \in DOMAIN space \cap {p} : <<q, g>> = <<x, space[x].f>>
        BY <1>3, <3>1
      <3> QED
        BY <3>2
    <2>10. \A q, g : g \in Cached(q) => g \in Cached(q)'
      BY <1>3, <2>7, <2>8
    <2>11. \A q, g : g \in FramesOf(q) <=>
              g \in Cached(q) \/ (q \in DOMAIN space /\ g = space[q].f)
      BY DEF FramesOf
    <2>12. \A q, g : g \in FramesOf(q)' <=>
              g \in Cached(q)' \/ (q \in DOMAIN space' /\ g = space'[q].f)
      BY DEF FramesOf
    <2>13. \A q, g : g \in FramesOf(q)' => g \in FramesOf(q) \/ (g = f /\ q = p)
      BY <2>1, <2>2, <2>9, <2>11, <2>12
    <2>14. \A q : q # p => FramesOf(q)' = FramesOf(q)
      <3>1. SUFFICES ASSUME NEW q, q # p
                     PROVE  FramesOf(q)' = FramesOf(q)
        OBVIOUS
      <3>2. \A g : g \in FramesOf(q)' <=> g \in FramesOf(q)
        BY <2>2, <2>9, <2>10, <2>11, <2>12, <3>1
      <3> QED
        BY <3>2, Zenon
    <2>15. FrameOwned'
      <3>1. \A q \in Nat : FramesOf(q) \cap free = {}
        BY DEF FrameOwned
      <3>2. \A q, r \in Nat : \A g \in FramesOf(q) \cap FramesOf(r) : q = r \/ g = NULL
        BY DEF FrameOwned
      <3>3. ASSUME NEW q \in Nat, NEW r \in Nat, NEW g \in FramesOf(q)' \cap FramesOf(r)'
            PROVE  q = r \/ g = NULL
        BY <1>3, <2>13, <3>1, <3>2
      <3>4. ASSUME NEW q \in Nat
            PROVE  FramesOf(q)' \cap free' = {}
        BY <1>3, <2>13, <3>1
      <3>5. DOMAIN space' \subseteq Nat
        BY <2>2 DEF FrameOwned
      <3> QED
        BY <3>3, <3>4, <3>5 DEF FrameOwned
    <2>16. OutOfMemory => f = NULL /\ free' = {}
      BY <1>3 DEF StaysEmpty
    <2>17. f = NULL => OutOfMemory' /\ free' = {}
      <3>1. SUFFICES ASSUME f = NULL
                     PROVE  OutOfMemory' /\ free' = {}
        OBVIOUS
      <3>2. OutOfMemory'
        BY <2>1, <2>2, <3>1 DEF OutOfMemory
      <3>3. free' = {}
        BY <1>3, <3>1
      <3> QED
        BY <3>2, <3>3
    <2>18. OutOfMemory' => OutOfMemory \/ f = NULL
      BY <2>1, <2>2 DEF OutOfMemory
    <2>19. ASSUME NEW q \in Nat, NULL \in Cached(q)'
           PROVE  OutOfMemory'
      <3>1. NULL \in Cached(q) \/ (p \in DOMAIN space /\ NULL = space[p].f)
        BY <2>9, <2>19
      <3>2. OutOfMemory
        BY <3>1 DEF StaysEmpty, OutOfMemory
      <3> QED
        BY <2>16, <2>17, <3>2
    <2>20. StaysEmpty'
      BY <2>16, <2>17, <2>18, <2>19 DEF StaysEmpty
    <2>21. ~OutOfMemory' => ~OutOfMemory
      BY <2>16, <2>17
    <2> QED
      BY <1>3, <2>1, <2>2, <2>4, <2>5, <2>6, <2>14, <2>15, <2>20, <2>21 DEF PageMapped
  <1>4. \/ pc' = "panic" /\ free' \subseteq free /\ space' = space /\ tlb' = tlb
        \/ \E f \in Frames :
             /\ pc' = then
             /\ free' \subseteq free \ {f}
             /\ f \in free \cup {NULL}
             /\ free = {} <=> f = NULL
             /\ space' = With(space, p, [f |-> f, w |-> w])
             /\ tlb \subseteq tlb'
             /\ tlb' \subseteq tlb \cup {<<q, space[q].f>> : q \in DOMAIN space \cap {p}}
             /\ Path(p) \subseteq DOMAIN tables'
    BY MapFrameEffect, Zenon
  <1> QED
    BY <1>2, <1>3, <1>4, ZenonT(40)

(* What depends on the file alone does not change.                         *)
LEMMA FileOnly ==
    ASSUME file' = file
    PROVE  /\ Loaded' = Loaded
           /\ Orderly' <=> Orderly
           /\ \A k : SegPages(k)' = SegPages(k)
           /\ \A k : OwnPages(k)' = OwnPages(k)
           /\ \A k : Region(k)' = Region(k)
           /\ \A k, p : ReadOnlyBefore(k, p)' <=> ReadOnlyBefore(k, p)
  <1>1. Loaded' = Loaded
    BY DEF Loaded
  <1>2. \A k : SegPages(k)' = SegPages(k)
    BY DEF SegPages
  <1>3. \A k : OwnPages(k)' = OwnPages(k)
    BY <1>1, <1>2 DEF OwnPages
  <1>4. \A k : Region(k)' = Region(k)
    BY DEF Region
  <1>5. Orderly' <=> Orderly
    BY <1>1 DEF Orderly
  <1>6. \A k, p : ReadOnlyBefore(k, p)' <=> ReadOnlyBefore(k, p)
    BY <1>1, <1>4 DEF ReadOnlyBefore
  <1> QED
    BY <1>1, <1>2, <1>3, <1>4, <1>5, <1>6

(* A byte of a page of its own is in a page of the region.                 *)
LEMMA ByteFacts ==
    ASSUME file \in Files \cup {user_program_elf}, NEW k \in Loaded,
           NEW b \in 0 .. file.phdrs[k].filesz - 1
    PROVE  /\ file.phdrs[k].va + b \in Nat
           /\ (file.phdrs[k].va + b) % PAGE_SIZE \in Offsets
           /\ PageOf(file.phdrs[k].va + b) \in Nat
  <1>1. file.phdrs[k].va + b \in Nat
    BY SegFacts
  <1> QED
    BY <1>1, PageArith

(* A step that leaves the memory alone, and is not past a segment that was *)
(* not mapped, keeps everything.                                           *)
LEMMA MemoryKept ==
    ASSUME LoadInv, UNCHANGED <<file, space, tables, tlb, free, data>>,
           i' \in Nat, i <= i', \A k \in Loaded : k < i' => k < i,
           \A k \in Loaded : \A p \in Region(k) : Reached(k, p)' => Reached(k, p)
    PROVE  /\ FrameOwned' /\ StaysEmpty'
           /\ MappedSoFar' /\ TablesSoFar' /\ RightsSoFar' /\ DataSoFar'
  <1> USE FileOnly
  <1>1. \A q : FramesOf(q)' = FramesOf(q) /\ Cached(q)' = Cached(q)
    BY DEF FramesOf, Cached
  <1>2. FrameOwned'
    BY <1>1 DEF LoadInv, FrameOwned
  <1>3. OutOfMemory' <=> OutOfMemory
    BY DEF OutOfMemory
  <1>4. StaysEmpty'
    BY <1>1, <1>3 DEF LoadInv, StaysEmpty
  <1>5. MappedSoFar'
    BY DEF LoadInv, MappedSoFar
  <1>6. \A k \in Loaded : OwnPages(k) \subseteq Region(k)
    BY SegFacts DEF LoadInv, Place
  <1>7. RightsSoFar'
    <2>1. \A k, p : RightsOf(k, p)' <=> RightsOf(k, p)
      BY DEF RightsOf
    <2> QED
      BY <1>6, <2>1 DEF LoadInv, RightsSoFar
  <1>8. i \in Nat /\ \A k \in Loaded : k \in Nat
    BY DEF LoadInv, TypeOK, Loaded
  <1>9. TablesSoFar'
    <2>1. \A p \in DOMAIN space' : Path(p) \subseteq DOMAIN tables'
      BY DEF LoadInv, TablesSoFar
    <2>2. ASSUME NEW t \in DOMAIN tables, ~tables[t]
          PROVE  \E l \in Loaded : /\ l <= i' /\ ~file.phdrs[l].w
                                   /\ \E q \in Region(l) : t \in Path(q)
      <3>1. PICK l \in Loaded : /\ l <= i /\ ~file.phdrs[l].w
                               /\ \E q \in Region(l) : t \in Path(q)
        BY <2>2 DEF LoadInv, TablesSoFar
      <3>2. l <= i'
        BY <1>8, <3>1
      <3> QED
        BY <3>1, <3>2
    <2> QED
      BY <2>1, <2>2 DEF TablesSoFar
  <1>10. \A k, b : ByteInPlace(k, b)' <=> ByteInPlace(k, b)
    BY <1>1 DEF ByteInPlace
  <1>11. DataSoFar'
    BY <1>3, <1>10 DEF LoadInv, DataSoFar
  <1> QED
    BY <1>2, <1>4, <1>5, <1>7, <1>9, <1>11

-----------------------------------------------------------------------------
LEMMA LoadInit == Init => LoadInv
  <1> SUFFICES ASSUME Init
               PROVE  LoadInv
    OBVIOUS
  <1>1. file \in Files \cup {user_program_elf} /\ pc = "check" /\ i = 1 /\ j = 0
    BY DEF Init
  <1>2. DOMAIN space = {} /\ DOMAIN tables = {} /\ tlb = {}
    BY DEF Init
  <1>3. file.phdrs \in Seq(Phdr)
    BY <1>1, FileFacts
  <1>4. CpuType
    <2>1. PICK x \in STAR_MSR_VAL, y \in Locals :
             cpu = [star |-> x, rsp |-> 0, rbp |-> 0, cs |-> 0, ss |-> 0, local |-> y]
      BY DEF Init
    <2> QED
      BY <2>1 DEF CpuType
  <1>5. TypeOK
    <2>1. i \in 1 .. Len(file.phdrs) + 1 /\ j \in Nat
      BY <1>1, <1>3
    <2>2. result = 0
      BY DEF Init
    <2>3. space \in [DOMAIN space -> [f : Frames, w : BOOLEAN]]
      BY <1>2 DEF Init
    <2>4. tables \in [DOMAIN tables -> BOOLEAN]
      BY <1>2 DEF Init
    <2>5. free \subseteq Frames \ {NULL}
      <3>1. PICK k \in Frames : free = 1 .. k
        BY DEF Init
      <3> QED
        BY <3>1, LoaderAssumption DEF Frames, NULL
    <2>6. cpu.rsp \in Nat /\ cpu.rbp \in Nat /\ cpu.cs \in Nat /\ cpu.ss \in Nat
      BY <1>4 DEF CpuType
    <2> QED
      BY <1>1, <1>2, <2>1, <2>2, <2>3, <2>4, <2>5, <2>6 DEF TypeOK
  <1>6. Place
    BY <1>1 DEF Place
  <1>7. \A p : FramesOf(p) = {} /\ Cached(p) = {}
    BY <1>2 DEF FramesOf, Cached
  <1>8. FrameOwned
    BY <1>2, <1>7 DEF FrameOwned
  <1>9. StaysEmpty
    BY <1>2, <1>7 DEF StaysEmpty, OutOfMemory
  <1>10. \A k \in Loaded : ~(k < i) /\ \A p : ~Reached(k, p)
    BY <1>1 DEF Reached, Loaded
  <1>11. MappedSoFar /\ RightsSoFar
    BY <1>10 DEF MappedSoFar, RightsSoFar
  <1>12. TablesSoFar
    BY <1>2 DEF TablesSoFar
  <1>13. DataSoFar
    BY <1>10 DEF DataSoFar
  <1> QED
    BY <1>4, <1>5, <1>6, <1>8, <1>9, <1>11, <1>12, <1>13 DEF LoadInv

LEMMA CheckHeaderStep == LoadInv /\ CheckHeader => LoadInv'
  <1> SUFFICES ASSUME LoadInv, CheckHeader
               PROVE  LoadInv'
    OBVIOUS
  <1>1. /\ pc = "check" /\ pc' \in {"segment", "halted"}
        /\ UNCHANGED <<file, i, j, space, tables, tlb, free, data, cpu>>
    BY DEF CheckHeader
  <1>2. result' \in {0, 16, 17, 18, 19}
    BY DEF CheckHeader, HeaderError
  <1>3. TypeOK'
    BY <1>1, <1>2 DEF LoadInv, TypeOK
  <1>4. Place' /\ CpuType'
    BY <1>1, FileOnly DEF LoadInv, Place, CpuType
  <1>5. \A k \in Loaded : \A p \in Region(k) : Reached(k, p)' => Reached(k, p)
    BY <1>1, FileOnly DEF Reached
  <1>6. i' \in Nat /\ i <= i'
    BY <1>1 DEF LoadInv, TypeOK
  <1> QED
    BY <1>1, <1>3, <1>4, <1>5, <1>6, MemoryKept DEF LoadInv

LEMMA NextSegmentStep == LoadInv /\ NextSegment => LoadInv'
  <1> SUFFICES ASSUME LoadInv, NextSegment
               PROVE  LoadInv'
    OBVIOUS
  <1>1. /\ pc = "segment" /\ i <= Len(file.phdrs)
        /\ UNCHANGED <<file, result, space, tables, tlb, free, data, cpu>>
    BY DEF NextSegment
  <1>2. i \in 1 .. Len(file.phdrs) /\ i \in Nat
    BY <1>1 DEF LoadInv, TypeOK
  <1>3. Len(file.phdrs) \in Nat
    BY FileFacts DEF LoadInv, Place
  <1>4. CpuType'
    BY <1>1 DEF LoadInv, CpuType
  <1>5. CASE Seg.type = PT_LOAD
    <2>1. pc' = "page" /\ j' = 0 /\ i' = i
      BY <1>5 DEF NextSegment
    <2>2. i \in Loaded
      BY <1>2, <1>5 DEF Loaded, Seg
    <2>3. TypeOK'
      BY <1>1, <2>1 DEF LoadInv, TypeOK
    <2>4. Place'
      <3>1. PageCount(Seg) \in Nat
        BY <2>2, SegFacts DEF LoadInv, Place, PageCount, Seg
      <3>2. PageCount(Seg)' = PageCount(Seg)
        BY <1>1, <2>1 DEF PageCount, Seg, PageOf
      <3> QED
        BY <1>1, <2>1, <2>2, <3>1, <3>2, FileOnly DEF LoadInv, Place
    <2>5. \A k \in Loaded : \A p \in Region(k) : Reached(k, p)' => Reached(k, p)
      <3>1. SUFFICES ASSUME NEW k \in Loaded, NEW p \in Region(k), Reached(k, p)'
                     PROVE  k < i
        BY FileOnly, <1>1 DEF Reached
      <3>2. k < i \/ (k = i /\ p < PageOf(file.phdrs[k].va) + 0)
        BY <1>1, <2>1, <3>1 DEF Reached, PageOf
      <3>3. p >= PageOf(file.phdrs[k].va) /\ p \in Nat /\ PageOf(file.phdrs[k].va) \in Nat
        BY SegFacts DEF LoadInv, Place, Region
      <3> QED
        BY <3>2, <3>3
    <2> QED
      BY <1>1, <1>2, <1>4, <2>1, <2>3, <2>4, <2>5, MemoryKept DEF LoadInv
  <1>6. CASE Seg.type # PT_LOAD
    <2>1. pc' = "segment" /\ j' = j /\ i' = i + 1
      BY <1>6 DEF NextSegment, PassedOver
    <2>2. i \notin Loaded
      BY <1>6 DEF Loaded, Seg
    <2>3. TypeOK'
      <3>1. i' \in 1 .. Len(file.phdrs) + 1
        BY <1>2, <1>3, <2>1
      <3> QED
        BY <1>1, <2>1, <3>1 DEF LoadInv, TypeOK
    <2>4. Place'
      BY <1>1, <2>1 DEF LoadInv, Place
    <2>5. \A k \in Loaded : k < i' => k < i
      BY <1>2, <2>1, <2>2 DEF Loaded
    <2>6. \A k \in Loaded : \A p \in Region(k) : Reached(k, p)' => Reached(k, p)
      BY <1>1, <2>1, <2>5, FileOnly DEF Reached
    <2> QED
      BY <1>1, <1>2, <1>4, <2>1, <2>3, <2>4, <2>5, <2>6, MemoryKept DEF LoadInv
  <1> QED
    BY <1>5, <1>6

LEMMA LastSegmentStep == LoadInv /\ LastSegment => LoadInv'
  <1> SUFFICES ASSUME LoadInv, LastSegment
               PROVE  LoadInv'
    OBVIOUS
  <1>1. /\ pc = "segment" /\ pc' = "stack" /\ i > Len(file.phdrs)
        /\ UNCHANGED <<file, i, j, result, space, tables, tlb, free, data, cpu>>
    BY DEF LastSegment
  <1>2. Len(file.phdrs) \in Nat
    BY FileFacts DEF LoadInv, Place
  <1>3. i = Len(file.phdrs) + 1
    BY <1>1, <1>2 DEF LoadInv, TypeOK
  <1>4. TypeOK' /\ CpuType'
    BY <1>1 DEF LoadInv, TypeOK, CpuType
  <1>5. Place'
    BY <1>1, <1>3 DEF LoadInv, Place
  <1>6. \A k \in Loaded : \A p \in Region(k) : Reached(k, p)' => Reached(k, p)
    BY <1>1, FileOnly DEF Reached
  <1> QED
    BY <1>1, <1>2, <1>3, <1>4, <1>5, <1>6, MemoryKept DEF LoadInv

LEMMA PagesDoneStep == LoadInv /\ PagesDone => LoadInv'
  <1> SUFFICES ASSUME LoadInv, PagesDone
               PROVE  LoadInv'
    OBVIOUS
  <1>1. /\ pc = "page" /\ pc' = "copy" /\ j = PageCount(Seg)
        /\ UNCHANGED <<file, i, j, result, space, tables, tlb, free, data, cpu>>
    BY DEF PagesDone
  <1>2. i \in Loaded /\ i \in Nat
    BY <1>1 DEF LoadInv, Place, TypeOK
  <1>3. TypeOK' /\ CpuType'
    BY <1>1 DEF LoadInv, TypeOK, CpuType
  <1>4. Place'
    BY <1>1, <1>2, FileOnly DEF LoadInv, Place
  <1>5. \A k \in Loaded : \A p \in Region(k) : Reached(k, p)' => Reached(k, p)
    <2>1. SUFFICES ASSUME NEW k \in Loaded, NEW p \in Region(k), k = i
                   PROVE  p < PageOf(file.phdrs[k].va) + j
      BY <1>1, FileOnly DEF Reached
    <2>2. /\ PageOf(file.phdrs[k].va) \in Nat
          /\ PageOf(file.phdrs[k].va + file.phdrs[k].memsz) \in Nat
          /\ p \in PageOf(file.phdrs[k].va) .. PageOf(file.phdrs[k].va + file.phdrs[k].memsz)
      BY SegFacts DEF LoadInv, Place, Region
    <2>3. j = PageOf(file.phdrs[k].va + file.phdrs[k].memsz) + 1 - PageOf(file.phdrs[k].va)
      BY <1>1, <2>1 DEF PageCount, Seg
    <2> QED
      BY <2>2, <2>3
  <1> QED
    BY <1>1, <1>2, <1>3, <1>4, <1>5, MemoryKept DEF LoadInv

LEMMA CopyFaultStep == LoadInv /\ CopyFault => LoadInv'
  <1> SUFFICES ASSUME LoadInv, CopyFault
               PROVE  LoadInv'
    OBVIOUS
  <1>1. /\ pc = "copy" /\ pc' = "fault"
        /\ UNCHANGED <<file, i, j, result, space, tables, tlb, free, data, cpu>>
    BY DEF CopyFault
  <1>2. TypeOK' /\ CpuType'
    BY <1>1 DEF LoadInv, TypeOK, CpuType
  <1>3. Place'
    BY <1>1 DEF LoadInv, Place
  <1>4. \A k \in Loaded : \A p \in Region(k) : Reached(k, p)' => Reached(k, p)
    BY <1>1, FileOnly DEF Reached
  <1>5. i \in Nat
    BY DEF LoadInv, TypeOK
  <1> QED
    BY <1>1, <1>2, <1>3, <1>4, <1>5, MemoryKept DEF LoadInv

LEMMA SysretStep == LoadInv /\ Sysret => LoadInv'
  <1> SUFFICES ASSUME LoadInv, Sysret
               PROVE  LoadInv'
    OBVIOUS
  <1>1. /\ pc = "sysret" /\ pc' = "user"
        /\ UNCHANGED <<file, i, j, result, space, tables, tlb, free, data>>
    BY DEF Sysret
  <1>2. CpuType'
    <2>1. cpu.star.high = 0
      BY DEF LoadInv, CpuType, STAR_MSR_VAL
    <2>2. cpu.star.high \div 2^16 = 0
      BY <2>1
    <2>3. PICK form \in {0, 16} :
             cpu' = [cpu EXCEPT !.cs = 0 + form + 3, !.ss = 0 + 8 + 3]
      BY <2>2 DEF Sysret
    <2>4. cpu \in [star : STAR_MSR_VAL, rsp : Nat, rbp : Nat, cs : Nat, ss : Nat, local : Locals]
      BY DEF LoadInv, CpuType
    <2>5. 0 + form + 3 \in Nat /\ 0 + 8 + 3 \in Nat
      BY <2>3
    <2>6. cpu' \in [star : STAR_MSR_VAL, rsp : Nat, rbp : Nat, cs : Nat, ss : Nat, local : Locals]
      BY ONLY <2>3, <2>4, <2>5
    <2> QED
      BY <2>6 DEF CpuType
  <1>3. TypeOK'
    <2>1. cpu'.rsp \in Nat /\ cpu'.rbp \in Nat /\ cpu'.cs \in Nat /\ cpu'.ss \in Nat
      BY <1>2 DEF CpuType
    <2> QED
      BY <1>1, <2>1 DEF LoadInv, TypeOK
  <1>4. Place'
    BY <1>1 DEF LoadInv, Place
  <1>5. \A k \in Loaded : \A p \in Region(k) : Reached(k, p)' => Reached(k, p)
    BY <1>1, FileOnly DEF Reached
  <1>6. i \in Nat
    BY DEF LoadInv, TypeOK
  <1> QED
    BY <1>1, <1>2, <1>3, <1>4, <1>5, <1>6, MemoryKept DEF LoadInv

LEMMA ReadEntryStep == LoadInv /\ ReadEntry => LoadInv'
  <1> SUFFICES ASSUME LoadInv, ReadEntry
               PROVE  LoadInv'
    OBVIOUS
  <1>1. /\ pc = "entry" /\ pc' \in {"sysret", "fault"}
        /\ UNCHANGED <<file, i, j, result, space, tables, tlb, free, data, cpu>>
    BY DEF ReadEntry
  <1>2. TypeOK' /\ CpuType'
    BY <1>1 DEF LoadInv, TypeOK, CpuType
  <1>3. Place'
    BY <1>1 DEF LoadInv, Place
  <1>4. \A k \in Loaded : \A p \in Region(k) : Reached(k, p)' => Reached(k, p)
    BY <1>1, FileOnly DEF Reached
  <1>5. i \in Nat
    BY DEF LoadInv, TypeOK
  <1> QED
    BY <1>1, <1>2, <1>3, <1>4, <1>5, MemoryKept DEF LoadInv

(* Mapping a page that is not one of a complete segment's own.             *)
LEMMA OthersKept ==
    ASSUME LoadInv, NEW p \in Nat, NEW w \in BOOLEAN, NEW then, MapFrame(p, w, then),
           UNCHANGED <<file, i, data>>,
           Orderly => \A k \in Loaded : \A q \in OwnPages(k) : Reached(k, q) => q # p
    PROVE  /\ \A k \in Loaded : \A q \in Region(k) : Reached(k, q) => q \in DOMAIN space'
           /\ Orderly => \A k \in Loaded : \A q \in OwnPages(k) :
                            Reached(k, q) => RightsOf(k, q)'
           /\ DataSoFar'
  <1> USE FileOnly
  <1>1. TypeOK /\ FrameOwned /\ StaysEmpty /\ MappedSoFar /\ DataSoFar /\ TablesSoFar
    BY DEF LoadInv
  <1>2. PageMapped(p, w, then)
    BY <1>1, FramesKept
  <1>3. /\ ~OutOfMemory' => ~OutOfMemory
        /\ DOMAIN space \subseteq DOMAIN space'
        /\ \A q \in DOMAIN space : q # p => space'[q] = space[q]
        /\ \A q : q # p => FramesOf(q)' = FramesOf(q)
    BY <1>2 DEF PageMapped
  <1>4. \A t \in DOMAIN tables : tables'[t] = tables[t]
    BY <1>1, MapFrameEffect DEF TablesExtended
  <1>5. \A k \in Loaded : OwnPages(k) \subseteq Region(k)
    BY SegFacts DEF LoadInv, Place
  <1>6. \A k \in Loaded : \A q \in Region(k) : Reached(k, q) => q \in DOMAIN space'
    BY <1>1, <1>3 DEF MappedSoFar
  <1>7. ASSUME Orderly, NEW k \in Loaded, NEW q \in OwnPages(k), Reached(k, q)
        PROVE  RightsOf(k, q)'
    <2>1. q \in DOMAIN space /\ q # p
      BY <1>1, <1>5, <1>7 DEF MappedSoFar
    <2>2. space'[q] = space[q]
      BY <1>3, <2>1
    <2>3. \A t \in Path(q) : tables'[t] = tables[t]
      BY <1>1, <1>4, <2>1 DEF TablesSoFar
    <2>4. RightsOf(k, q)
      BY <1>7 DEF LoadInv, RightsSoFar
    <2> QED
      BY <2>2, <2>3, <2>4 DEF RightsOf
  <1>8. DataSoFar'
    <2>1. SUFFICES ASSUME Orderly, ~OutOfMemory', NEW k \in Loaded, k < i,
                          NEW b \in 0 .. file.phdrs[k].filesz - 1
                   PROVE  ByteInPlace(k, b)'
      BY DEF DataSoFar
    <2>2. ByteInPlace(k, b)
      BY <1>1, <1>3, <2>1 DEF DataSoFar
    <2> DEFINE a == file.phdrs[k].va + b
    <2>3. SUFFICES ASSUME PageOf(a) \in OwnPages(k)
                   PROVE  \E f \in FramesOf(PageOf(a))' : data[f][a % PAGE_SIZE] = <<k, b>>
      BY Zenon DEF ByteInPlace, PageOf
    <2>4. Reached(k, PageOf(a))
      BY <1>5, <2>1, <2>3 DEF Reached
    <2>5. FramesOf(PageOf(a))' = FramesOf(PageOf(a))
      BY <1>3, <2>1, <2>3, <2>4 DEF PageOf
    <2> QED
      BY <2>2, <2>3, <2>5, Zenon DEF ByteInPlace
  <1> QED
    BY <1>6, <1>7, <1>8

LEMMA MapNextPageStep == LoadInv /\ MapNextPage => LoadInv'
  <1> SUFFICES ASSUME LoadInv, MapNextPage
               PROVE  LoadInv'
    OBVIOUS
  <1> DEFINE p == PageOf(Seg.va) + j
  <1>1. /\ pc = "page" /\ j < PageCount(Seg) /\ MapFrame(p, Seg.w, "page")
        /\ j' = j + 1
        /\ UNCHANGED <<file, i, result, data, cpu>>
    BY DEF MapNextPage
  <1>2. /\ TypeOK /\ FrameOwned /\ StaysEmpty /\ file \in Files \cup {user_program_elf}
        /\ i \in Loaded /\ i \in Nat /\ j \in Nat
    BY <1>1 DEF LoadInv, Place, TypeOK
  <1>3. /\ PageOf(Seg.va) \in Nat /\ PageOf(Seg.va + Seg.memsz) \in Nat /\ Seg.w \in BOOLEAN
        /\ Region(i) = PageOf(Seg.va) .. PageOf(Seg.va + Seg.memsz)
    BY <1>2, SegFacts DEF Seg, Region
  <1>4. PageCount(Seg) = PageOf(Seg.va + Seg.memsz) + 1 - PageOf(Seg.va)
    BY DEF PageCount
  <1>5. p \in Nat /\ p \in Region(i)
    BY <1>1, <1>2, <1>3, <1>4
  <1>6. PageOf(Seg.va) = PageOf(file.phdrs[i].va) /\ Seg.w = file.phdrs[i].w
    BY DEF Seg
  <1>7. Orderly => \A k \in Loaded : \A q \in OwnPages(k) : Reached(k, q) => q # p
    <2>1. SUFFICES ASSUME Orderly, NEW k \in Loaded, p \in OwnPages(k), Reached(k, p)
                   PROVE  FALSE
      OBVIOUS
    <2>2. CASE k < i
      BY <1>2, <1>5, <2>1, <2>2, LaterElsewhere
    <2>3. CASE ~(k < i)
      <3>1. k = i /\ p < PageOf(file.phdrs[i].va) + j
        BY <1>1, <2>1, <2>3 DEF Reached
      <3> QED
        BY <1>2, <1>3, <1>6, <3>1
    <2> QED
      BY <2>2, <2>3
  <1>8. PageCount(Seg)' = PageCount(Seg)
    BY <1>1 DEF PageCount, Seg, PageOf
  <1> HIDE DEF p
  <1>9. PageMapped(p, Seg.w, "page") /\ TablesExtended(p, Seg.w)
    BY <1>1, <1>2, <1>3, <1>5, FramesKept, MapFrameEffect
  <1>10. /\ FrameOwned' /\ StaysEmpty'
         /\ pc' = "panic" \/ (/\ pc' = "page" /\ p \in DOMAIN space' /\ space'[p].w = Seg.w
                              /\ Path(p) \subseteq DOMAIN tables')
    BY <1>9 DEF PageMapped
  <1>11. /\ \A k \in Loaded : \A q \in Region(k) : Reached(k, q) => q \in DOMAIN space'
         /\ Orderly => \A k \in Loaded : \A q \in OwnPages(k) :
                          Reached(k, q) => RightsOf(k, q)'
         /\ DataSoFar'
    BY <1>1, <1>3, <1>5, <1>7, OthersKept
  <1>12. TypeOK'
    BY <1>1, <1>9, <1>10 DEF LoadInv, TypeOK, PageMapped, TablesExtended
  <1>13. CpuType'
    BY <1>1 DEF LoadInv, CpuType
  <1>14. Place'
    <2>1. j + 1 <= PageCount(Seg)
      BY <1>1, <1>2, <1>3, <1>4
    <2> QED
      BY <1>1, <1>2, <1>8, <1>10, <2>1, FileOnly DEF Place
  <1>15. ASSUME NEW k \in Loaded, NEW q \in Region(k), Reached(k, q)'
         PROVE  Reached(k, q) \/ (k = i /\ q = p /\ pc' = "page")
    <2>1. k < i \/ (k = i /\ pc' = "page" /\ q < PageOf(file.phdrs[k].va) + (j + 1))
      BY <1>1, <1>10, <1>15 DEF Reached, PageOf
    <2>2. q \in Nat
      BY <1>2, SegFacts
    <2>3. CASE k < i
      BY <2>3 DEF Reached
    <2>4. CASE k = i /\ pc' = "page" /\ q < PageOf(file.phdrs[k].va) + (j + 1)
      <3>1. q < PageOf(file.phdrs[k].va) + j \/ q = p
        BY <1>2, <1>3, <1>6, <2>2, <2>4 DEF p
      <3> QED
        BY <1>1, <2>4, <3>1 DEF Reached
    <2> QED
      BY <2>1, <2>3, <2>4
  <1>16. MappedSoFar'
    BY <1>1, <1>10, <1>11, <1>15, FileOnly DEF MappedSoFar
  <1>17. TablesSoFar'
    <2>1. TablesSoFar /\ \A l \in Loaded : l \in Nat
      BY DEF LoadInv, Loaded
    <2>2. ASSUME NEW q \in DOMAIN space'
          PROVE  Path(q) \subseteq DOMAIN tables'
      <3>1. CASE q \in DOMAIN space
        BY <1>9, <2>1, <3>1 DEF TablesSoFar, TablesExtended
      <3>2. CASE q \notin DOMAIN space
        BY <1>9, <2>2, <3>2 DEF PageMapped
      <3> QED
        BY <3>1, <3>2
    <2>3. ASSUME NEW t \in DOMAIN tables', ~tables'[t]
          PROVE  \E l \in Loaded : /\ l <= i /\ ~file.phdrs[l].w
                                   /\ \E q \in Region(l) : t \in Path(q)
      <3>1. CASE t \in DOMAIN tables
        BY <1>9, <2>1, <2>3, <3>1 DEF TablesSoFar, TablesExtended
      <3>2. CASE t \notin DOMAIN tables
        <4>1. t \in Path(p) /\ tables'[t] = Seg.w
          BY <1>9, <2>3, <3>2 DEF TablesExtended
        <4>2. ~file.phdrs[i].w /\ i <= i
          BY <1>2, <1>6, <2>3, <4>1
        <4> QED
          BY <1>2, <1>5, <4>1, <4>2
      <3> QED
        BY <3>1, <3>2
    <2> QED
      BY <1>1, <2>2, <2>3, FileOnly DEF TablesSoFar
  <1>18. RightsSoFar'
    <2>1. SUFFICES ASSUME Orderly, NEW k \in Loaded, NEW q \in OwnPages(k), Reached(k, q)'
                   PROVE  RightsOf(k, q)'
      BY <1>1, FileOnly DEF RightsSoFar
    <2>2. q \in Region(k)
      BY <1>2, SegFacts
    <2>3. CASE Reached(k, q)
      BY <1>11, <2>1, <2>3
    <2>4. CASE k = i /\ q = p /\ pc' = "page"
      <3>1. space'[q].w = file.phdrs[k].w /\ Path(q) \subseteq DOMAIN tables'
        BY <1>6, <1>10, <2>4
      <3>2. ASSUME file.phdrs[k].w, NEW t \in Path(q), ~tables'[t]
            PROVE  ReadOnlyBefore(k, q)
        <4>1. PICK l \in Loaded : /\ l <= i /\ ~file.phdrs[l].w
                                 /\ \E r \in Region(l) : t \in Path(r)
          BY <1>1, <1>17, <3>1, <3>2, FileOnly DEF TablesSoFar
        <4>2. l < k
          BY <1>2, <2>4, <3>2, <4>1 DEF Loaded
        <4> QED
          BY <3>2, <4>1, <4>2 DEF ReadOnlyBefore
      <3>3. ReadOnlyBefore(k, q)' <=> ReadOnlyBefore(k, q)
        BY <1>1, FileOnly
      <3> QED
        BY <1>1, <3>1, <3>2, <3>3 DEF RightsOf
    <2> QED
      BY <1>15, <2>1, <2>2, <2>3, <2>4
  <1> QED
    BY <1>11, <1>12, <1>13, <1>14, <1>16, <1>18, <1>10, <1>17 DEF LoadInv

LEMMA MapStackStep == LoadInv /\ MapStack => LoadInv'
  <1> SUFFICES ASSUME LoadInv, MapStack
               PROVE  LoadInv'
    OBVIOUS
  <1>1. /\ pc = "stack" /\ MapFrame(STACK_PAGE, TRUE, "entry")
        /\ cpu' = [cpu EXCEPT !.rsp = STACK_PAGE * PAGE_SIZE, !.rbp = STACK_PAGE * PAGE_SIZE]
        /\ UNCHANGED <<file, i, j, result, data>>
    BY DEF MapStack
  <1>2. /\ TypeOK /\ FrameOwned /\ StaysEmpty /\ file \in Files \cup {user_program_elf}
        /\ i = Len(file.phdrs) + 1
    BY <1>1 DEF LoadInv, Place
  <1>3. STACK_PAGE \in Nat /\ STACK_PAGE * PAGE_SIZE \in Nat
    BY LoaderAssumption
  <1>4. \A k \in Loaded : \A q \in OwnPages(k) : Reached(k, q) => q # STACK_PAGE
    BY <1>2, SegFacts
  <1>5. /\ PageMapped(STACK_PAGE, TRUE, "entry") /\ TablesExtended(STACK_PAGE, TRUE)
        /\ FrameOwned' /\ StaysEmpty' /\ (pc' = "panic" \/ pc' = "entry")
    <2>1. PageMapped(STACK_PAGE, TRUE, "entry") /\ TablesExtended(STACK_PAGE, TRUE)
      BY <1>1, <1>2, <1>3, FramesKept, MapFrameEffect
    <2> QED
      BY <2>1 DEF PageMapped
  <1>6. /\ \A k \in Loaded : \A q \in Region(k) : Reached(k, q) => q \in DOMAIN space'
        /\ Orderly => \A k \in Loaded : \A q \in OwnPages(k) :
                         Reached(k, q) => RightsOf(k, q)'
        /\ DataSoFar'
    BY <1>1, <1>3, <1>4, OthersKept
  <1>7. CpuType'
    <2>1. cpu \in [star : STAR_MSR_VAL, rsp : Nat, rbp : Nat, cs : Nat, ss : Nat, local : Locals]
      BY DEF LoadInv, CpuType
    <2>2. cpu' \in [star : STAR_MSR_VAL, rsp : Nat, rbp : Nat, cs : Nat, ss : Nat, local : Locals]
      BY ONLY <1>1, <1>3, <2>1
    <2> QED
      BY <2>2 DEF CpuType
  <1>8. TypeOK'
    <2>1. cpu'.rsp \in Nat /\ cpu'.rbp \in Nat /\ cpu'.cs \in Nat /\ cpu'.ss \in Nat
      BY <1>7 DEF CpuType
    <2> QED
      BY <1>1, <1>5, <2>1 DEF LoadInv, TypeOK, PageMapped, TablesExtended
  <1>9. Place'
    BY <1>1, <1>2, <1>5 DEF Place
  <1>10. \A k \in Loaded : \A q \in Region(k) : Reached(k, q)' => Reached(k, q)
    BY <1>1, <1>5, FileOnly DEF Reached
  <1>11. MappedSoFar'
    BY <1>1, <1>6, <1>10, FileOnly DEF MappedSoFar
  <1>12. RightsSoFar'
    <2>1. SUFFICES ASSUME Orderly, NEW k \in Loaded, NEW q \in OwnPages(k), Reached(k, q)'
                   PROVE  RightsOf(k, q)'
      BY <1>1, FileOnly DEF RightsSoFar
    <2>2. q \in Region(k)
      BY <1>2, SegFacts
    <2> QED
      BY <1>6, <1>10, <2>1, <2>2
  <1>13. TablesSoFar'
    <2>1. TablesSoFar
      BY DEF LoadInv
    <2>2. ASSUME NEW q \in DOMAIN space'
          PROVE  Path(q) \subseteq DOMAIN tables'
      <3>1. CASE q \in DOMAIN space
        BY <1>5, <2>1, <3>1 DEF TablesSoFar, TablesExtended
      <3>2. CASE q \notin DOMAIN space
        BY <1>5, <2>2, <3>2 DEF PageMapped
      <3> QED
        BY <3>1, <3>2
    <2>3. ASSUME NEW t \in DOMAIN tables', ~tables'[t]
          PROVE  t \in DOMAIN tables /\ ~tables[t]
      BY <1>5, <2>3 DEF TablesExtended
    <2> QED
      BY <1>1, <2>1, <2>2, <2>3, FileOnly DEF TablesSoFar
  <1> QED
    BY <1>5, <1>6, <1>7, <1>8, <1>9, <1>11, <1>12, <1>13 DEF LoadInv

(* The copy of segment i writes to frames of its own pages alone, mapped   *)
(* now or before: a frame has one page.                                    *)
LEMMA CopyStep == LoadInv /\ Copy => LoadInv'
  <1> SUFFICES ASSUME LoadInv, Copy
               PROVE  LoadInv'
    OBVIOUS
  <1>1. /\ pc = "copy" /\ CopyPages \subseteq DOMAIN space
        /\ i' = i + 1 /\ pc' = "segment"
        /\ UNCHANGED <<file, j, result, space, tables, tlb, free, cpu>>
    BY DEF Copy
  <1>2. PICK g \in [0 .. Seg.filesz - 1 -> UNION {FramesOf(p) : p \in CopyPages}] :
          /\ \A k \in 0 .. Seg.filesz - 1 : g[k] \in FramesOf(PageOf(Dest + k))
          /\ data' = [f \in Frames |-> [o \in Offsets |->
                 LET ks == CopiedTo(g, f, o)
                 IN  IF ks = {} THEN data[f][o]
                     ELSE <<i, CHOOSE k \in ks : \A l \in ks : l <= k>>]]
    BY DEF Copy
  <1>3. /\ TypeOK /\ FrameOwned /\ StaysEmpty /\ MappedSoFar /\ RightsSoFar
        /\ TablesSoFar /\ DataSoFar
        /\ file \in Files \cup {user_program_elf} /\ i \in Loaded /\ i \in Nat
        /\ space \in [DOMAIN space -> [f : Frames, w : BOOLEAN]]
        /\ tlb \subseteq Nat \X Frames
    BY <1>1 DEF LoadInv, Place, TypeOK
  <1>4. /\ i \in 1 .. Len(file.phdrs) /\ Len(file.phdrs) \in Nat
        /\ \A k \in Loaded : k \in Nat /\ OwnPages(k) \subseteq Region(k)
    BY <1>3, SegFacts, FileFacts DEF Loaded
  <1>5. Seg = file.phdrs[i] /\ Dest = Seg.va
    BY DEF Seg, Dest
  <1>6. \A q : FramesOf(q)' = FramesOf(q) /\ Cached(q)' = Cached(q)
    BY <1>1 DEF FramesOf, Cached
  <1>7. TypeOK'
    <2>1. i' \in 1 .. Len(file'.phdrs) + 1
      BY <1>1, <1>4
    <2> QED
      BY <1>1, <2>1 DEF LoadInv, TypeOK
  <1>8. CpuType' /\ Place'
    BY <1>1, <1>3 DEF LoadInv, CpuType, Place
  <1>9. FrameOwned'
    BY <1>1, <1>3, <1>6 DEF FrameOwned
  <1>10. OutOfMemory' <=> OutOfMemory
    BY <1>1 DEF OutOfMemory
  <1>11. StaysEmpty'
    BY <1>1, <1>3, <1>6, <1>10 DEF StaysEmpty
  <1>12. \A k \in Loaded : \A p \in Region(k) : Reached(k, p)' => Reached(k, p)
    BY <1>1, <1>3, <1>4, FileOnly DEF Reached
  <1>13. MappedSoFar'
    BY <1>1, <1>3, <1>12, FileOnly DEF MappedSoFar
  <1>14. RightsSoFar'
    <2>1. \A k, p : RightsOf(k, p)' <=> RightsOf(k, p)
      BY <1>1, FileOnly DEF RightsOf
    <2> QED
      BY <1>1, <1>3, <1>4, <1>12, <2>1, FileOnly DEF RightsSoFar
  <1>15. Orderly => CopyPages \subseteq SegPages(i)
    <2>1. Orderly => 0 .. Seg.filesz - 1 \subseteq 0 .. Seg.memsz - 1
      BY <1>3, <1>5, SegFacts, SMTT(30) DEF Orderly
    <2> QED
      BY <1>5, <2>1 DEF CopyPages, SegPages
  <1>16. TablesSoFar'
    <2>1. ASSUME NEW t \in DOMAIN tables, ~tables[t]
          PROVE  \E l \in Loaded : /\ l <= i + 1 /\ ~file.phdrs[l].w
                                   /\ \E q \in Region(l) : t \in Path(q)
      <3>1. PICK l \in Loaded : /\ l <= i /\ ~file.phdrs[l].w
                               /\ \E q \in Region(l) : t \in Path(q)
        BY <1>3, <2>1 DEF TablesSoFar
      <3>2. l <= i + 1
        BY <1>3, <1>4, <3>1
      <3> QED
        BY <3>1, <3>2
    <2> QED
      BY <1>1, <1>3, <2>1, FileOnly DEF TablesSoFar
  <1>17. DataSoFar'
    <2>1. SUFFICES ASSUME Orderly, ~OutOfMemory, NEW k \in Loaded, k < i + 1,
                          NEW b \in 0 .. file.phdrs[k].filesz - 1
                   PROVE  ByteInPlace(k, b)'
      BY <1>1, <1>10, FileOnly DEF DataSoFar
    <2> DEFINE a == file.phdrs[k].va + b
               p == PageOf(a)
               o == a % PAGE_SIZE
    <2>2. SUFFICES ASSUME p \in OwnPages(k)
                   PROVE  \E f \in FramesOf(p) : data'[f][o] = <<k, b>>
      <3>1. FramesOf(p)' = FramesOf(p)
        BY <1>1, <1>6 DEF PageOf
      <3> QED
        BY <1>1, <3>1, FileOnly, Zenon DEF ByteInPlace, PageOf
    <2>3. a \in Nat /\ p \in Nat /\ o \in Offsets
      BY <1>3, ByteFacts
    <2>4. ASSUME NEW f \in FramesOf(p)
          PROVE  f \in Frames /\ f # NULL
      <3>1. CASE f \in Cached(p)
        <4>1. <<p, f>> \in tlb
          BY <1>3, <3>1, CachedIs
        <4>2. f \in Frames
          BY <1>3, <4>1
        <4>3. f # NULL
          BY <1>3, <2>1, <2>3, <3>1 DEF StaysEmpty
        <4> QED
          BY <4>2, <4>3
      <3>2. CASE f \notin Cached(p)
        <4>1. p \in DOMAIN space /\ f = space[p].f
          BY <2>4, <3>2 DEF FramesOf
        <4> QED
          BY <1>3, <2>1, <4>1 DEF OutOfMemory
      <3> QED
        BY <3>1, <3>2
    <2>5. ASSUME NEW f \in FramesOf(p)
          PROVE  data'[f][o] = IF CopiedTo(g, f, o) = {} THEN data[f][o]
                               ELSE <<i, CHOOSE c \in CopiedTo(g, f, o) :
                                            \A l \in CopiedTo(g, f, o) : l <= c>>
      BY <1>2, <2>3, <2>4, Zenon
    <2>6. ASSUME NEW f \in FramesOf(p), NEW c \in CopiedTo(g, f, o)
          PROVE  /\ c \in 0 .. Seg.filesz - 1
                 /\ PageOf(Seg.va + c) = p
                 /\ (Seg.va + c) % PAGE_SIZE = o
                 /\ p \in CopyPages
      <3>1. /\ c \in 0 .. Seg.filesz - 1
            /\ g[c] = f
            /\ (Seg.va + c) % PAGE_SIZE = o
        BY <1>5 DEF CopiedTo
      <3>2. PageOf(Seg.va + c) \in CopyPages
        BY <1>5, <3>1 DEF CopyPages
      <3>3. PageOf(Seg.va + c) \in Nat
        BY <1>1, <1>3, <3>2 DEF FrameOwned
      <3>4. f \in FramesOf(PageOf(Seg.va + c))
        BY <1>2, <1>5, <3>1
      <3>5. PageOf(Seg.va + c) = p
        BY <1>3, <2>3, <2>4, <3>3, <3>4 DEF FrameOwned
      <3> QED
        BY <3>1, <3>2, <3>5
    <2>7. CASE k = i
      <3> DEFINE f == g[b]
                 ks == CopiedTo(g, f, o)
      <3>1. file.phdrs[k] = Seg /\ b \in 0 .. Seg.filesz - 1
        BY <1>5, <2>7
      <3>2. f \in FramesOf(p)
        BY <1>2, <1>5, <3>1
      <3>3. b \in ks
        BY <1>5, <3>1 DEF CopiedTo
      <3>4. ASSUME NEW c \in ks
            PROVE  c = b
        <4>1. c \in 0 .. Seg.filesz - 1 /\ PageOf(Seg.va + c) = p /\ (Seg.va + c) % PAGE_SIZE = o
          BY <2>6, <3>2, <3>4
        <4>2. Seg.va \in Nat /\ c \in Nat /\ b \in Nat /\ Seg.va + c \in Nat
          BY <1>3, <1>5, <3>1, <4>1, SegFacts, SMTT(30)
        <4>3. Seg.va + c = Seg.va + b
          BY <2>3, <3>1, <4>1, <4>2, SamePlace
        <4> QED
          BY <4>2, <4>3
      <3> HIDE DEF ks, f
      <3>5. ks = {b}
        BY <3>3, <3>4
      <3>6. (CHOOSE c \in ks : \A l \in ks : l <= c) = b
        BY <3>1, <3>5
      <3>7. data'[f][o] = <<i, b>>
        BY <2>5, <3>2, <3>3, <3>6, Zenon DEF ks
      <3> QED
        BY <2>7, <3>2, <3>7, Zenon
    <2>8. CASE k # i
      <3>1. k < i
        BY <1>3, <1>4, <2>1, <2>8
      <3>2. p \notin SegPages(i)
        BY <1>3, <2>2, <2>8 DEF OwnPages
      <3>3. PICK f \in FramesOf(p) : data[f][o] = <<k, b>>
        BY <1>3, <2>1, <2>2, <3>1, Zenon DEF DataSoFar, ByteInPlace
      <3>4. CopiedTo(g, f, o) = {}
        BY <1>15, <2>1, <2>6, <3>2
      <3> QED
        BY <2>5, <3>3, <3>4, Zenon
    <2> QED
      BY <2>7, <2>8, Zenon
  <1> QED
    BY <1>7, <1>8, <1>9, <1>11, <1>13, <1>14, <1>16, <1>17 DEF LoadInv

LEMMA LoadStutter == LoadInv /\ UNCHANGED vars => LoadInv'
  <1> SUFFICES ASSUME LoadInv, UNCHANGED vars
               PROVE  LoadInv'
    OBVIOUS
  <1>1. UNCHANGED <<pc, file, i, j, result, space, tables, tlb, free, data, cpu>>
    BY DEF vars
  <1>2. TypeOK' /\ CpuType'
    BY <1>1 DEF LoadInv, TypeOK, CpuType
  <1>3. PageCount(Seg)' = PageCount(Seg)
    BY <1>1 DEF PageCount, Seg, PageOf
  <1>4. Place'
    BY <1>1, <1>3, FileOnly DEF LoadInv, Place
  <1>5. \A k \in Loaded : \A p \in Region(k) : Reached(k, p)' => Reached(k, p)
    BY <1>1, FileOnly DEF Reached, PageOf
  <1>6. i \in Nat
    BY DEF LoadInv, TypeOK
  <1> QED
    BY <1>1, <1>2, <1>4, <1>5, <1>6, MemoryKept DEF LoadInv

(* load_elf keeps the invariant above, from its first check to sysret.     *)
THEOREM LoadInvariant == Spec => []LoadInv
  <1>1. LoadInv /\ [Next]_vars => LoadInv'
    BY CheckHeaderStep, NextSegmentStep, LastSegmentStep, MapNextPageStep, PagesDoneStep,
       CopyStep, CopyFaultStep, MapStackStep, ReadEntryStep, SysretStep, LoadStutter
       DEF Next, Load, Stopped
  <1> QED
    BY <1>1, LoadInit, PTL DEF Spec

(* The variables of load_elf have their types: the loop counters stay in   *)
(* range, every frame is one of physical memory, and the free list never   *)
(* has NULL in it.                                                         *)
THEOREM LoadTypeCorrect == Spec => []TypeOK
  <1>1. LoadInv => TypeOK
    BY DEF LoadInv
  <1> QED
    BY <1>1, LoadInvariant, PTL

-----------------------------------------------------------------------------
(* Page p was mapped for segment k.                                        *)
From(k, p) ==
    /\ k \in Loaded /\ p \in Region(k) /\ k <= i
    /\ k = i => /\ pc \notin {"check", "segment"}
                /\ pc = "page" => p < PageOf(file.phdrs[k].va) + j
BeforeStack == pc \in {"check", "segment", "page", "copy", "stack"}

(* Nothing is mapped but pages of segments and the stack, and the TLB has  *)
(* old translations of pages of two segments only.                         *)
Twice(p) == \E k, l \in Loaded : k # l /\ p \in Region(k) /\ p \in Region(l)
TlbInv ==
    /\ \A p \in DOMAIN space :
          (p = STACK_PAGE /\ ~BeforeStack) \/ \E k \in Loaded : From(k, p)
    /\ \A e \in tlb : Twice(e[1])

(* A step that maps nothing keeps this.                                    *)
LEMMA TlbKept ==
    ASSUME TlbInv, UNCHANGED <<file, space, tlb>>, BeforeStack' => BeforeStack,
           \A k \in Loaded, p \in DOMAIN space : From(k, p) => From(k, p)'
    PROVE  TlbInv'
  <1>1. \A p : Twice(p)' <=> Twice(p)
    BY FileOnly DEF Twice
  <1>2. ASSUME NEW p \in DOMAIN space
        PROVE  (p = STACK_PAGE /\ ~BeforeStack') \/ \E k \in Loaded : From(k, p)'
    BY <1>2 DEF TlbInv
  <1> QED
    BY <1>1, <1>2, FileOnly DEF TlbInv

LEMMA TlbMapNextPage == LoadInv /\ TlbInv /\ MapNextPage => TlbInv'
  <1> SUFFICES ASSUME LoadInv, TlbInv, MapNextPage
               PROVE  TlbInv'
    OBVIOUS
  <1> DEFINE p == PageOf(Seg.va) + j
  <1>1. /\ pc = "page" /\ j < PageCount(Seg) /\ MapFrame(p, Seg.w, "page")
        /\ j' = j + 1
        /\ UNCHANGED <<file, i>>
    BY DEF MapNextPage
  <1>2. /\ TypeOK /\ file \in Files \cup {user_program_elf}
        /\ i \in Loaded /\ i \in Nat /\ j \in Nat
    BY <1>1 DEF LoadInv, Place, TypeOK
  <1>3. /\ PageOf(Seg.va) \in Nat /\ PageOf(Seg.va + Seg.memsz) \in Nat /\ Seg.w \in BOOLEAN
        /\ Region(i) = PageOf(Seg.va) .. PageOf(Seg.va + Seg.memsz)
        /\ \A k \in Loaded : k \in Nat /\ Region(k) \subseteq Nat /\ PageOf(file.phdrs[k].va) \in Nat
    BY <1>2, SegFacts DEF Seg, Region
  <1>4. p \in Nat /\ p \in Region(i) /\ PageOf(Seg.va) = PageOf(file.phdrs[i].va)
    BY <1>1, <1>2, <1>3 DEF PageCount, Seg
  <1>5. \A k \in Loaded : \A q : From(k, q) /\ pc' \in {"page", "panic"} => From(k, q)'
    <2>1. ASSUME NEW k \in Loaded, NEW q, From(k, q), pc' \in {"page", "panic"}
          PROVE  From(k, q)'
      <3>1. PageOf(file.phdrs[k].va)' = PageOf(file.phdrs[k].va)
        BY <1>1 DEF PageOf
      <3>2. /\ k \in Loaded' /\ q \in Region(k)' /\ k <= i' /\ q \in Nat
            /\ k = i => q < PageOf(file.phdrs[k].va) + j
        BY <1>1, <1>3, <2>1, FileOnly DEF From
      <3> QED
        BY <1>1, <1>2, <1>3, <2>1, <3>1, <3>2 DEF From
    <2> QED
      BY <2>1
  <1>6. \A q : Twice(q)' <=> Twice(q)
    BY <1>1, FileOnly DEF Twice
  <1>7. CASE pc' = "panic" /\ space' = space /\ tlb' = tlb
    BY <1>1, <1>5, <1>7, TlbKept DEF BeforeStack
  <1>8. ASSUME NEW f \in Frames, pc' = "page", space' = With(space, p, [f |-> f, w |-> Seg.w]),
               tlb' \subseteq tlb \cup {<<q, space[q].f>> : q \in DOMAIN space \cap {p}}
        PROVE  TlbInv'
    <2>1. DOMAIN space' = DOMAIN space \cup {p}
      BY <1>8 DEF With
    <2>2. ASSUME NEW k \in Loaded, k = i, NEW q, q = p
          PROVE  From(k, q)'
      <3>1. PageOf(file.phdrs[k].va)' = PageOf(Seg.va)
        BY <1>1, <2>2 DEF PageOf, Seg
      <3>2. q < PageOf(Seg.va) + j'
        BY <1>1, <1>2, <1>3, <2>2
      <3>3. k \in Loaded' /\ q \in Region(k)' /\ k <= i'
        BY <1>1, <1>2, <1>4, <2>2, FileOnly
      <3> QED
        BY <1>8, <3>1, <3>2, <3>3 DEF From
    <2>3. ASSUME NEW q \in DOMAIN space'
          PROVE  \E k \in Loaded' : From(k, q)'
      <3>1. CASE q = p
        BY <1>1, <1>2, <2>2, <3>1, FileOnly
      <3>2. CASE q \in DOMAIN space
        BY <1>1, <1>5, <1>8, <3>2, FileOnly DEF TlbInv, BeforeStack
      <3> QED
        BY <2>1, <2>3, <3>1, <3>2
    <2>4. ASSUME p \in DOMAIN space
          PROVE  Twice(p)
      <3>1. PICK k \in Loaded : From(k, p)
        BY <1>1, <2>4 DEF TlbInv, BeforeStack
      <3>2. k # i
        BY <1>1, <1>2, <1>3, <1>4, <3>1 DEF From
      <3> QED
        BY <1>2, <1>4, <3>1, <3>2 DEF From, Twice
    <2>5. ASSUME NEW e \in tlb'
          PROVE  Twice(e[1])
      <3>1. CASE e \in tlb
        BY <3>1 DEF TlbInv
      <3>2. CASE e \notin tlb
        <4>1. PICK q \in DOMAIN space \cap {p} : e = <<q, space[q].f>>
          BY <1>8, <2>5, <3>2
        <4>2. e[1] = p /\ p \in DOMAIN space
          BY <4>1
        <4> QED
          BY <2>4, <4>2
      <3> QED
        BY <3>1, <3>2
    <2> QED
      BY <1>6, <2>3, <2>5 DEF TlbInv
  <1> HIDE DEF p
  <1>9. \/ pc' = "panic" /\ free' \subseteq free /\ space' = space /\ tlb' = tlb
        \/ \E f \in Frames :
             /\ pc' = "page"
             /\ free' \subseteq free \ {f}
             /\ f \in free \cup {NULL}
             /\ free = {} <=> f = NULL
             /\ space' = With(space, p, [f |-> f, w |-> Seg.w])
             /\ tlb \subseteq tlb'
             /\ tlb' \subseteq tlb \cup {<<q, space[q].f>> : q \in DOMAIN space \cap {p}}
             /\ Path(p) \subseteq DOMAIN tables'
    BY <1>1, <1>2, <1>3, <1>4, MapFrameEffect
  <1> QED
    BY <1>7, <1>8, <1>9

LEMMA TlbMapStack == LoadInv /\ TlbInv /\ MapStack => TlbInv'
  <1> SUFFICES ASSUME LoadInv, TlbInv, MapStack
               PROVE  TlbInv'
    OBVIOUS
  <1>1. /\ pc = "stack" /\ MapFrame(STACK_PAGE, TRUE, "entry")
        /\ UNCHANGED <<file, i, j>>
    BY DEF MapStack
  <1>2. TypeOK /\ file \in Files \cup {user_program_elf} /\ STACK_PAGE \in Nat
    BY LoaderAssumption DEF LoadInv, Place
  <1>3. \A p \in DOMAIN space : \E k \in Loaded : From(k, p)
    BY <1>1 DEF TlbInv, BeforeStack
  <1>4. STACK_PAGE \notin DOMAIN space
    BY <1>2, <1>3, SegFacts DEF From
  <1>5. \A k \in Loaded : \A p : From(k, p) /\ pc' \in {"entry", "panic"} => From(k, p)'
    BY <1>1, FileOnly DEF From
  <1>6. \A p : Twice(p)' <=> Twice(p)
    BY <1>1, FileOnly DEF Twice
  <1>7. CASE pc' = "panic" /\ space' = space /\ tlb' = tlb
    BY <1>1, <1>5, <1>7, TlbKept DEF BeforeStack
  <1>8. ASSUME NEW f \in Frames, pc' = "entry",
               space' = With(space, STACK_PAGE, [f |-> f, w |-> TRUE]),
               tlb' \subseteq tlb \cup {<<q, space[q].f>> : q \in DOMAIN space \cap {STACK_PAGE}}
        PROVE  TlbInv'
    <2>1. DOMAIN space' = DOMAIN space \cup {STACK_PAGE}
      BY <1>8 DEF With
    <2>2. tlb' \subseteq tlb
      BY <1>4, <1>8
    <2>3. ~BeforeStack'
      BY <1>8 DEF BeforeStack
    <2>4. \A p \in DOMAIN space : \E k \in Loaded' : From(k, p)'
      BY <1>1, <1>3, <1>5, <1>8, FileOnly
    <2> QED
      BY <1>6, <2>1, <2>2, <2>3, <2>4 DEF TlbInv
  <1> QED
    BY <1>1, <1>2, <1>7, <1>8, MapFrameEffect

LEMMA TlbInvariant == Spec => []TlbInv
  <1>1. Init => TlbInv
    BY DEF Init, TlbInv
  <1>2. ASSUME LoadInv, TlbInv, [Next]_vars
        PROVE  TlbInv'
    <2>1. i \in Nat /\ \A k \in Loaded : k \in Nat
      BY <1>2 DEF LoadInv, TypeOK, Loaded
    <2>2. file' = file => \A k : PageOf(file.phdrs[k].va)' = PageOf(file.phdrs[k].va)
      BY DEF PageOf
    <2> USE <1>2, <2>1, <2>2, FileOnly
    <2>3. CASE CheckHeader
      BY <2>3, TlbKept DEF CheckHeader, From, BeforeStack
    <2>4. CASE NextSegment
      BY <2>4, TlbKept DEF NextSegment, From, BeforeStack, PassedOver
    <2>5. CASE LastSegment
      BY <2>5, TlbKept DEF LastSegment, From, BeforeStack
    <2>6. CASE PagesDone
      BY <2>6, TlbKept DEF PagesDone, From, BeforeStack
    <2>7. CASE Copy
      BY <2>7, TlbKept DEF Copy, From, BeforeStack
    <2>8. CASE CopyFault
      BY <2>8, TlbKept DEF CopyFault, From, BeforeStack
    <2>9. CASE ReadEntry
      BY <2>9, TlbKept DEF ReadEntry, From, BeforeStack
    <2>10. CASE Sysret
      BY <2>10, TlbKept DEF Sysret, From, BeforeStack
    <2>11. CASE UNCHANGED vars
      BY <2>11, TlbKept DEF vars, From, BeforeStack
    <2> QED
      BY <2>3, <2>4, <2>5, <2>6, <2>7, <2>8, <2>9, <2>10, <2>11, TlbMapNextPage, TlbMapStack
      DEF Next, Load, Stopped
  <1> QED
    BY <1>1, <1>2, LoadInvariant, PTL DEF Spec
-----------------------------------------------------------------------------
(* When segments and stack are in place, each byte an orderly file has for *)
(* a page of one segment is in the frame the page is mapped to; only for a *)
(* page that load_elf has mapped for two segments may it be in the frame   *)
(* before, which the TLB may have kept.                                    *)
THEOREM LoadSegmentsLoaded == Spec => []SegmentsLoaded
  <1>1. LoadInv /\ TlbInv => SegmentsLoaded
    <2> DEFINE a(k, b) == file.phdrs[k].va + b
    <2>1. SUFFICES ASSUME LoadInv, TlbInv, Ready, Orderly, ~OutOfMemory,
                          NEW k \in Loaded, NEW b \in 0 .. file.phdrs[k].filesz - 1,
                          PageOf(a(k, b)) \in OwnPages(k)
                   PROVE  \E f \in IF MappedFor(k, PageOf(a(k, b))) THEN FramesOf(PageOf(a(k, b)))
                                                     ELSE {space[PageOf(a(k, b))].f} :
                              data[f][a(k, b) % PAGE_SIZE] = <<k, b>>
      BY DEF SegmentsLoaded
    <2> DEFINE p == PageOf(a(k, b))
    <2>2. k < i
      BY <2>1, FileFacts DEF LoadInv, Place, Loaded, Ready
    <2>3. \E f \in FramesOf(p) : data[f][a(k, b) % PAGE_SIZE] = <<k, b>>
      BY <2>1, <2>2 DEF LoadInv, DataSoFar, ByteInPlace
    <2>4. p \in Region(k)
      BY <2>1, SegFacts DEF LoadInv, Place
    <2>5. ASSUME ~MappedFor(k, p)
          PROVE  FramesOf(p) \subseteq {space[p].f}
      <3>1. ~Twice(p)
        BY <2>5 DEF Twice, MappedFor
      <3>2. Cached(p) = {}
        BY <2>1, <3>1 DEF TlbInv, Cached
      <3> QED
        BY <3>2 DEF FramesOf
    <2> HIDE DEF p
    <2> QED
      BY <2>3, <2>5 DEF p
  <1> QED
    BY <1>1, LoadInvariant, TlbInvariant, PTL

(* Then every page of every segment is mapped, no frame is mapped at two   *)
(* pages unless it is the one pmm_alloc's NULL stands for, and in an       *)
(* orderly file the entries of all four levels let the program write to a  *)
(* page of one segment only if the segment is writable, and always if it   *)
(* is and shares no table with a read-only segment before it.              *)
THEOREM LoadSegmentRights == Spec => []SegmentRights
  <1>1. LoadInv => SegmentRights
    <2>1. SUFFICES ASSUME LoadInv, Ready
                   PROVE  /\ \A k \in Loaded :
                                /\ SegPages(k) \subseteq DOMAIN space
                                /\ Orderly => \A p \in OwnPages(k) :
                                      /\ Granted(p) => file.phdrs[k].w
                                      /\ file.phdrs[k].w => Granted(p) \/ ReadOnlyBefore(k, p)
                          /\ \A p, q \in DOMAIN space :
                                space[p].f = space[q].f => p = q \/ space[p].f = NULL
      BY DEF SegmentRights
    <2>2. ASSUME NEW k \in Loaded, NEW p \in Region(k)
          PROVE  Reached(k, p)
      BY <2>1, FileFacts DEF LoadInv, Place, Loaded, Reached, Ready
    <2>3. \A k \in Loaded : SegPages(k) \subseteq Region(k) /\ OwnPages(k) \subseteq SegPages(k)
      BY <2>1, SegFacts DEF LoadInv, Place
    <2>4. \A k \in Loaded : SegPages(k) \subseteq DOMAIN space
      BY <2>1, <2>2, <2>3 DEF LoadInv, MappedSoFar
    <2>5. ASSUME Orderly, NEW k \in Loaded, NEW p \in OwnPages(k)
          PROVE  /\ Granted(p) => file.phdrs[k].w
                 /\ file.phdrs[k].w => Granted(p) \/ ReadOnlyBefore(k, p)
      <3>1. RightsOf(k, p)
        BY <2>1, <2>2, <2>3, <2>5 DEF LoadInv, RightsSoFar
      <3> QED
        BY <3>1, Zenon DEF RightsOf, Granted
    <2>6. \A p \in DOMAIN space : p \in Nat /\ space[p].f \in FramesOf(p)
      BY <2>1 DEF LoadInv, FrameOwned, FramesOf
    <2>7. \A p, q \in DOMAIN space : space[p].f = space[q].f => p = q \/ space[p].f = NULL
      BY <2>1, <2>6 DEF LoadInv, FrameOwned
    <2> QED
      BY <2>4, <2>5, <2>7
  <1> QED
    BY <1>1, LoadInvariant, PTL
=============================================================================
