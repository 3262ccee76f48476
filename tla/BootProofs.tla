---------------------------- MODULE BootProofs -----------------------------
(***************************************************************************)
(* Proofs about the boot, for every page size, pool and kernel region that *)
(* agree with the loader's addresses, and every set of disks and machines. *)
(***************************************************************************)
EXTENDS Boot, TLAPS

Reading == {"start", "read_root", "read_kernel"}
Loading == Reading \cup {"get_mmap", "init_pt", "entry64"}
BeforePaging == Loading \cup {"stack", "mmap", "tables", "paging_init"}
Booting == BeforePaging \cup {"bitmap", "fill_bitmap", "heap", "heap_init"}
Over == {"clear_screen", "done", "disk_error", "fault", "spin"}

(* Pages taken for the memory map and for the bitmap.                      *)
MapPages == CeilDiv(MMAP_ENTRY_SIZE * mmap_entry_count, PAGE_SIZE)
BitmapPages == CeilDiv(BitmapSize, PAGE_SIZE)

World ==
    /\ pc \in Booting \cup Over
    /\ disk \in Disks /\ machine \in Machines

(* Where alloc_page stands: as long as the pool suffices, at the page      *)
(* after the ones taken so far, and the first and last ones are remembered.*)
AfterTables == POOL_START + 5 + MapPages
AfterBitmap == AfterTables + BitmapPages
Cursor ==
    /\ pc \in Loading => next_free = POOL_START /\ k = 0
    /\ pc = "stack" => k <= 1 /\ next_free = POOL_START + k
    /\ pc = "mmap" => k <= MapPages /\ next_free = POOL_START + 1 + k
    /\ pc = "tables" => k <= 4 /\ next_free = POOL_START + 1 + MapPages + k
    /\ pc = "paging_init" => k = 0 /\ next_free = AfterTables
    /\ pc = "bitmap" =>
          /\ k <= BitmapPages
          /\ AfterTables <= next_free
          /\ FitsPool => next_free = AfterTables + k
          /\ FitsPool /\ k > 0 => mem_bitmap = AfterTables
    /\ pc = "fill_bitmap" =>
          /\ k = 0 /\ 0 < BitmapPages
          /\ AfterTables <= next_free
          /\ FitsPool => next_free = AfterBitmap /\ mem_bitmap = AfterTables
    /\ pc = "heap" =>
          /\ k <= 4
          /\ FitsPool =>
                /\ next_free = AfterBitmap + k
                /\ k > 0 => heap_start = AfterBitmap
                /\ k > 1 => heap_end = next_free
    /\ pc \in {"heap_init", "clear_screen", "done"} /\ FitsPool =>
          /\ next_free = AfterBitmap + 4
          /\ heap_start = AfterBitmap
          /\ heap_end = next_free

(* The entries stored so far are in pages of their own, all of them after  *)
(* get_mmap.                                                               *)
MapStored ==
    /\ mmap_entry_count \in 0 .. machine.entries
    /\ pc \in Reading => mmap_entry_count = 0
    /\ pc \notin Reading \cup {"get_mmap", "disk_error"} => mmap_entry_count = machine.entries
    /\ pc \in Booting \ (Reading \cup {"heap", "heap_init"}) =>
          \A p \in MMAP_PAGE .. MMAP_PAGE + MapPages - 1 : owner[p] = "mmap"

(* What the pages are in use for, as far as later steps depend on it: the  *)
(* pages ahead of alloc_page are free, or the ones the loader has prepared *)
(* for the kernel, or the loader's stack, which is not needed any more     *)
(* before alloc_page could get there.                                      *)
Ahead(p) ==
    \/ owner[p] = "none"
    \/ owner[p] = "stack" /\ p = POOL_START /\ pc = "stack"
    \/ /\ owner[p] = "mmap" /\ p \in MMAP_PAGE .. MMAP_PAGE + MapPages - 1
       /\ pc \in Loading \cup {"stack", "mmap"}
    \/ owner[p] = "first_tables" /\ p = 143 /\ pc \in BeforePaging

Tidy ==
    /\ clash = {}
    /\ \A p \in HOLE : owner[p] = IF p = VGA THEN "screen" ELSE "device"
    /\ pc \in Booting => \A p \in next_free .. 159 : Ahead(p)
    /\ pc = "start" => owner[7] = "loader"
    /\ pc \in Reading => \A p \in 16 .. 31 : owner[p] \in {"none", "image"}
    /\ pc \in Reading \cup {"get_mmap", "init_pt"} =>
          \A p \in 1 .. 6 \cup {8, 143} : owner[p] = "none"
    /\ pc \in {"bitmap", "fill_bitmap"} =>
          \A p \in AfterTables .. next_free - 1 : owner[p] = "bitmap"
    /\ (pc = "heap" /\ k > 0) \/ pc = "heap_init" => owner[AfterBitmap] = "heap"

(* What holds of the sector after each read: the one with the kernel's     *)
(* entry in the root directory, then the kernel's first.                   *)
Found ==
    Supported(disk) =>
        /\ pc = "read_kernel" => sector = RootStart(disk)
        /\ pc \notin Reading \cup {"disk_error"} => sector = KernelStart(disk)

(* The inductive invariant.                                                *)
BootInv ==
    /\ TypeOK /\ World /\ Cursor /\ MapStored /\ Found
    /\ pc \in BeforePaging \/ FitsBelowHole => Tidy
-----------------------------------------------------------------------------
(* Division with remainder.                                                *)
LEMMA Remainder ==
    ASSUME NEW a \in Nat, NEW b \in Nat \ {0}
    PROVE  /\ a \div b \in Nat
           /\ a % b \in 0 .. b - 1
           /\ a % b = a - b * (a \div b)
  <1>1. a \div b \in Nat
    OBVIOUS
  <1>2. a % b \in 0 .. b - 1
    OBVIOUS
  <1>3. a % b = a - b * (a \div b)
    OBVIOUS
  <1> QED
    BY <1>1, <1>2, <1>3

LEMMA UniqueRemainder ==
    ASSUME NEW a \in Nat, NEW b \in Nat \ {0}, NEW q \in Int, NEW r \in 0 .. b - 1,
           a = b * q + r
    PROVE  a % b = r
  OBVIOUS

(* A sum that fits in 16 bits is not truncated.                            *)
LEMMA WordFits ==
    ASSUME NEW n \in Nat, n < 65536
    PROVE  Word(n) = n
  BY DEF Word

(* Rounding up: at most m units are needed for at most m * b.              *)
LEMMA CeilDivBound ==
    ASSUME NEW a \in Nat, NEW b \in Nat \ {0}, NEW m \in Nat, a <= m * b
    PROVE  CeilDiv(a, b) \in 0 .. m
  <1> DEFINE n == a + b - 1
             q == n \div b
  <1>1. n \in Nat
    OBVIOUS
  <1>2. q \in Nat /\ n % b \in 0 .. b - 1 /\ n % b = n - b * q
    BY <1>1, Remainder
  <1> HIDE DEF q
  <1>3. b * q <= n
    BY <1>1, <1>2
  <1>4. n < m * b + b
    OBVIOUS
  <1>5. b * q < b * (m + 1)
    BY <1>1, <1>2, <1>3, <1>4
  <1>6. q < m + 1
    BY <1>2, <1>5
  <1> QED
    BY <1>2, <1>6 DEF CeilDiv, q

(* The last of the units that are needed is the one of the last byte.      *)
LEMMA CeilDivLast ==
    ASSUME NEW n \in Nat, NEW b \in Nat \ {0}
    PROVE  (n - 1) \div b = CeilDiv(n, b) - 1
  <1>1. (n + b - 1) \div b = (n - 1) \div b + 1
    OBVIOUS
  <1>2. (n - 1) \div b \in Int
    OBVIOUS
  <1> QED
    BY <1>1, <1>2 DEF CeilDiv

(* The fields of a disk.                                                   *)
LEMMA DiskFields ==
    ASSUME NEW d \in Disks
    PROVE  /\ d.bps \in Nat \ {0} /\ d.spt \in Nat \ {0} /\ d.heads \in Nat
           /\ d.spc \in Nat /\ d.reserved \in Nat /\ d.fats \in Nat
           /\ d.root \in Nat /\ d.spf \in Nat /\ d.cluster \in Nat /\ 2 <= d.cluster
           /\ d.second \in Int /\ d.junk \in Int
           /\ 32 * d.root + d.bps - 1 < 65536
           /\ KernelStart(d) < 65536
  BY DiskAssumption

(* tochs, the registers and the drive agree: on a supported disk, as far   *)
(* as ch reaches, the sector that is read is the one that was asked for.   *)
LEMMA LocatedToCHS ==
    ASSUME NEW d \in Disks, Supported(d), NEW lba \in Nat, lba < 512 * d.spt
    PROVE  Located(d, Registers(ToCHS(d, lba))) = lba
  <1> DEFINE spt == d.spt
             t == lba \div (2 * spt)
             r == lba % (2 * spt)
             h == r \div spt
             s == r % spt
  <1>1. spt \in Nat \ {0} /\ 2 * spt \in Nat \ {0} /\ spt <= 63 /\ lba < 512 * spt
    BY DiskFields DEF Supported
  <1> HIDE DEF spt
  <1>2. t \in Nat /\ r \in 0 .. 2 * spt - 1 /\ r = lba - (2 * spt) * t
    BY <1>1, Remainder
  <1>3. r \in Nat
    BY <1>1, <1>2
  <1>4. h \in Nat /\ s \in 0 .. spt - 1 /\ s = r - spt * h
    BY <1>1, <1>3, Remainder
  <1> HIDE DEF t, r, h, s
  <1>5. lba = spt * (2 * t + h) + s
    BY <1>1, <1>2, <1>3, <1>4
  <1>6. lba % spt = s
    <2>1. 2 * t + h \in Int
      BY <1>2, <1>4
    <2> QED
      BY <1>1, <1>4, <1>5, <2>1, UniqueRemainder
  <1>7. (t * 2 + h) * spt + s = lba
    BY <1>1, <1>2, <1>4, <1>5
  <1>8. t % 256 = t
    <2>1. spt * (2 * t) < spt * 512
      BY <1>1, <1>2, <1>3
    <2>2. t < 256
      BY <1>1, <1>2, <2>1
    <2> QED
      BY <1>2, <2>2
  <1>9. h % 256 = h
    <2>1. spt * h < spt * 2
      BY <1>1, <1>2, <1>3, <1>4
    <2>2. h < 2
      BY <1>1, <1>4, <2>1
    <2> QED
      BY <1>4, <2>2
  <1>10. s + 1 \in 1 .. 63
    BY <1>1, <1>4
  <1>11. /\ (s + 1) % 256 = s + 1
         /\ (s + 1) % 64 = s + 1
         /\ (s + 1) \div 64 = 0
    BY <1>10
  <1>12. ToCHS(d, lba) = [track |-> t, head |-> h, sector |-> s + 1]
    BY <1>6 DEF ToCHS, t, r, h, spt
  <1>13. Registers(ToCHS(d, lba)) = [ch |-> t, cl |-> s + 1, dh |-> h]
    BY <1>8, <1>9, <1>11, <1>12 DEF Registers
  <1>14. Located(d, Registers(ToCHS(d, lba))) = ((t + 256 * 0) * 2 + h) * spt + (s + 1) - 1
    BY <1>11, <1>13 DEF Located, Supported, spt
  <1>15. t + 256 * 0 = t /\ (t * 2 + h) * spt \in Nat
    BY <1>1, <1>2, <1>4
  <1>16. Located(d, Registers(ToCHS(d, lba))) = (t * 2 + h) * spt + (s + 1) - 1
    BY <1>14, <1>15
  <1> QED
    BY <1>4, <1>7, <1>15, <1>16

(* The loader's arithmetic in 16-bit registers finds the kernel's sector.  *)
LEMMA KernelSectorIs ==
    ASSUME NEW d \in Disks, Supported(d)
    PROVE  /\ RootDirStart(d) = RootStart(d) /\ RootStart(d) \in Nat
           /\ KernelSector(d, d.second) = KernelStart(d) /\ KernelStart(d) \in Nat
           /\ RootStart(d) < 512 * d.spt /\ KernelStart(d) < 512 * d.spt
  <1> DEFINE root == CeilDiv(d.root * 32, d.bps)
             fat == d.fats * d.spf
             far == (d.cluster - 2) * d.spc
  <1>1. /\ d.bps \in Nat \ {0} /\ d.root \in Nat /\ d.reserved \in Nat
        /\ d.cluster \in Nat /\ 2 <= d.cluster /\ d.spc \in Nat
        /\ d.fats \in Nat /\ d.spf \in Nat
        /\ 32 * d.root + d.bps - 1 < 65536
        /\ d.reserved + fat + root + far < 65536
    BY DiskFields DEF KernelStart, RootStart
  <1>2. fat \in Nat
    BY <1>1
  <1>3. far = d.cluster - 2
    BY <1>1 DEF Supported
  <1> HIDE DEF root, fat, far
  <1>4. RootDirSize(d) = root
    <2>1. Word(32 * d.root + d.bps - 1) = d.root * 32 + d.bps - 1
      <3>1. 32 * d.root + d.bps - 1 \in Nat
        BY <1>1
      <3>2. Word(32 * d.root + d.bps - 1) = 32 * d.root + d.bps - 1
        BY <1>1, <3>1, WordFits
      <3> QED
        BY <1>1, <3>2
    <2> QED
      BY <2>1 DEF RootDirSize, CeilDiv, root
  <1>5. root \in 0 .. 255
    <2> DEFINE bytes == d.root * 32
               size == d.bps
    <2>1. bytes \in Nat /\ bytes <= 255 * size /\ size \in Nat \ {0}
      BY <1>1 DEF Supported
    <2> HIDE DEF bytes, size
    <2>2. CeilDiv(bytes, size) \in 0 .. 255
      BY ONLY <2>1, CeilDivBound, 255 \in Nat
    <2> QED
      BY <2>2 DEF root, bytes, size
  <1>6. (RootDirSize(d) \div 256) * 256 = 0
    BY <1>4, <1>5
  <1>7. RootDirStart(d) = Word(fat + d.reserved)
    <2>1. 0 + d.fats = d.fats
      BY <1>1
    <2> QED
      BY <1>6, <2>1 DEF RootDirStart, fat
  <1>8. RootDirStart(d) = fat + d.reserved
    <2>1. fat + d.reserved \in Nat /\ fat + d.reserved < 65536
      BY <1>1, <1>2, <1>3, <1>5
    <2> QED
      BY <1>7, <2>1, WordFits
  <1>9. DataSectorStart(d) = fat + d.reserved + root
    <2>1. fat + d.reserved + root \in Nat /\ fat + d.reserved + root < 65536
      BY <1>1, <1>2, <1>3, <1>5
    <2> QED
      BY <1>4, <1>8, <2>1, WordFits DEF DataSectorStart
  <1>10. KernelSector(d, d.cluster) = d.cluster - 2 + (fat + d.reserved + root)
    <2>1. /\ d.cluster - 2 + (fat + d.reserved + root) \in Nat
          /\ d.cluster - 2 + (fat + d.reserved + root) < 65536
      BY <1>1, <1>2, <1>3, <1>5
    <2> QED
      BY <1>9, <2>1, WordFits DEF KernelSector
  <1>11. /\ KernelSector(d, d.cluster) \in Nat
         /\ KernelSector(d, d.cluster) = d.reserved + fat + root + far
    BY <1>1, <1>2, <1>3, <1>5, <1>10
  <1>12. KernelStart(d) = d.reserved + fat + root + far /\ RootStart(d) = d.reserved + fat
    BY DEF KernelStart, RootStart, fat, root, far
  <1>13. /\ d.reserved + fat \in Nat /\ d.reserved + fat = fat + d.reserved
         /\ d.reserved + fat <= d.reserved + fat + root + far
    BY <1>1, <1>2, <1>3, <1>5
  <1>14. d.spt \in Nat
    BY DiskFields
  <1>15. KernelStart(d) < 512 * d.spt /\ d.second = d.cluster
    BY DEF Supported
  <1>16. RootStart(d) < 512 * d.spt
    BY <1>11, <1>12, <1>13, <1>14, <1>15
  <1> QED
    BY <1>8, <1>11, <1>12, <1>13, <1>15, <1>16

(* The sizes behind Taken.                                                 *)
LEMMA NeedIs ==
    /\ DOMAIN Need = {"stack", "mmap", "tables", "bitmap", "heap"}
    /\ Need["stack"] = 1 /\ Need["mmap"] = MapPages /\ Need["tables"] = 4
    /\ Need["bitmap"] = BitmapPages /\ Need["heap"] = 4
  BY DEF Need, MapPages, BitmapPages

LEMMA Sizes ==
    ASSUME machine \in Machines, mmap_entry_count \in 0 .. machine.entries
    PROVE  /\ MapPages \in Nat /\ BitmapPages \in Nat
           /\ MMAP_PAGE + MapPages + 4 <= 143
           /\ FitsPool <=> POOL_START + 9 + MapPages + BitmapPages < POOL_END
           /\ FitsBelowHole <=> POOL_START + 9 + MapPages + BitmapPages <= 160
  <1>1. /\ machine.entries \in Nat /\ machine.pages \in Nat
        /\ MMAP_PAGE + CeilDiv(MMAP_ENTRY_SIZE * machine.entries, PAGE_SIZE) + 4 <= 143
    BY MachineAssumption
  <1>2. MapPages \in Nat
    BY <1>1, BootAssumption DEF MapPages, CeilDiv, MMAP_ENTRY_SIZE
  <1>3. CeilDiv(MMAP_ENTRY_SIZE * machine.entries, PAGE_SIZE) \in Nat
    BY <1>1, BootAssumption DEF CeilDiv, MMAP_ENTRY_SIZE
  <1>4. MapPages <= CeilDiv(MMAP_ENTRY_SIZE * machine.entries, PAGE_SIZE)
    BY <1>1, BootAssumption DEF MapPages, CeilDiv, MMAP_ENTRY_SIZE
  <1>5. MMAP_PAGE + MapPages + 4 <= 143
    BY <1>1, <1>2, <1>3, <1>4, BootAssumption
  <1>6. BitmapSize \in Nat
    BY <1>1 DEF BitmapSize, CeilDiv
  <1>7. BitmapPages \in Nat
    BY <1>6, BootAssumption DEF BitmapPages, CeilDiv, MMAP_ENTRY_SIZE
  <1>8. Taken = 9 + MapPages + BitmapPages
    <2>1. Taken = 1 + MapPages + 4 + BitmapPages + 4
      BY DEF Taken, Need, MapPages, BitmapPages
    <2> QED
      BY <1>2, <1>7, <2>1
  <1> QED
    BY <1>2, <1>5, <1>7, <1>8, BootAssumption DEF FitsPool, FitsBelowHole

(* What Use does to the pages, and when it records no clash.               *)
LEMMA UseEffect ==
    ASSUME NEW ps, NEW who, Use(ps, who)
    PROVE  /\ DOMAIN owner' = Pages
           /\ \A p \in Pages : p \in ps => owner'[p] = who
           /\ \A p \in Pages : p \notin ps => owner'[p] = owner[p]
           /\ (\A q \in ps : owner[q] \in {"none", who}) => clash' = clash
  <1>1. owner' = [p \in Pages |-> IF p \in ps THEN who ELSE owner[p]]
    BY DEF Use
  <1>2. ASSUME \A q \in ps : owner[q] \in {"none", who}
        PROVE  clash' = clash
    <2>1. {q \in ps : owner[q] \notin {"none", who}} = {}
      BY <1>2
    <2>2. clash' = clash \cup {<<p, owner[p], who>> :
                              p \in {q \in ps : owner[q] \notin {"none", who}}}
      BY DEF Use
    <2>3. {<<p, owner[p], who>> : p \in {q \in ps : owner[q] \notin {"none", who}}} = {}
      BY <2>1
    <2> QED
      BY <2>2, <2>3
  <1> QED
    BY <1>1, <1>2

(* The sizes are fixed once the machine and its map are known.             *)
LEMMA SizesKept ==
    ASSUME UNCHANGED <<machine, mmap_entry_count>>
    PROVE  /\ MapPages' = MapPages /\ BitmapPages' = BitmapPages
           /\ AfterTables' = AfterTables /\ AfterBitmap' = AfterBitmap
           /\ FitsPool' <=> FitsPool
           /\ FitsBelowHole' <=> FitsBelowHole
  <1>1. BitmapSize' = BitmapSize
    BY DEF BitmapSize, CeilDiv
  <1>2. MapPages' = MapPages /\ BitmapPages' = BitmapPages
    BY <1>1 DEF MapPages, BitmapPages, CeilDiv, MMAP_ENTRY_SIZE
  <1>3. AfterTables' = AfterTables /\ AfterBitmap' = AfterBitmap
    BY <1>2 DEF AfterTables, AfterBitmap
  <1>4. Need' = Need
    BY <1>1 DEF Need, CeilDiv, MMAP_ENTRY_SIZE
  <1>5. Taken' = Taken
    BY <1>4 DEF Taken
  <1> QED
    BY <1>2, <1>3, <1>5 DEF FitsPool, FitsBelowHole

(* What the assumptions say of the layout.                                 *)
LEMMA Layout ==
    /\ POOL_START \in Nat /\ POOL_END \in Nat /\ KERNEL_END \in Nat /\ NULL \in Nat
    /\ PAGE_SIZE \in Nat /\ 24 <= PAGE_SIZE
    /\ 32 <= POOL_START /\ POOL_START < POOL_END /\ 256 <= POOL_END
    /\ POOL_END <= KERNEL_END /\ KERNEL_END < NULL /\ KERNEL_END <= 8 * PAGE_SIZE
    /\ STACK_PAGE = POOL_START /\ MMAP_PAGE = POOL_START + 1
    /\ \A p \in Nat : p < KERNEL_END => p \in Pages
    /\ Pages \subseteq Nat /\ \A p \in Pages : p < KERNEL_END
    /\ NULL \notin Pages
    /\ VGA \in HOLE /\ \A p \in HOLE : p \in Pages /\ 160 <= p /\ p <= 255
  <1>1. NULL \in Nat
    BY DEF NULL
  <1> QED
    BY <1>1, BootAssumption DEF MMAP_ENTRY_SIZE, Pages, VGA, HOLE
-----------------------------------------------------------------------------
LEMMA InitBootInv ==
    Init => BootInv
  <1> SUFFICES ASSUME Init PROVE BootInv
    OBVIOUS
  <1>1. /\ pc = "start" /\ disk \in Disks /\ machine \in Machines
        /\ sector = 0 /\ mmap_entry_count = 0 /\ k = 0 /\ next_free = POOL_START
        /\ mem_bitmap = NULL /\ heap_start = NULL /\ heap_end = NULL /\ clash = {}
        /\ DOMAIN owner = Pages
    BY DEF Init
  <1>2. machine.entries \in Nat
    BY <1>1, MachineAssumption
  <1>3. TypeOK
    BY <1>1, Layout DEF TypeOK
  <1>4. World /\ Cursor /\ Found
    BY <1>1, Layout DEF World, Cursor, Found, Booting, BeforePaging, Loading, Reading
  <1>5. MapStored
    BY <1>1, <1>2 DEF MapStored, Booting, BeforePaging, Loading, Reading
  <1>6. /\ \A p \in HOLE : owner[p] = IF p = VGA THEN "screen" ELSE "device"
        /\ \A p \in Pages \ (HOLE \cup {7}) : owner[p] = "none"
        /\ owner[7] = "loader"
    <2>1. owner = [p \in Pages |-> IF p = VGA THEN "screen"
                                ELSE IF p \in HOLE THEN "device"
                                ELSE IF p = 7 THEN "loader" ELSE "none"]
      BY DEF Init
    <2>2. \A p \in HOLE : p \in Pages
      BY Layout
    <2>3. 7 \in Pages /\ 7 \notin HOLE /\ VGA \in HOLE /\ 7 # VGA
      BY Layout DEF HOLE, VGA
    <2> QED
      BY <2>1, <2>2, <2>3
  <1>7. /\ \A p \in next_free .. 159 : p \in Pages \ (HOLE \cup {7})
        /\ \A p \in 16 .. 31 : p \in Pages \ (HOLE \cup {7})
        /\ \A p \in 1 .. 6 \cup {8, 143} : p \in Pages \ (HOLE \cup {7})
    BY <1>1, Layout DEF HOLE
  <1>8. Tidy
    BY <1>1, <1>6, <1>7 DEF Tidy, Ahead
  <1> QED
    BY <1>3, <1>4, <1>5, <1>8 DEF BootInv

(* The disk is read into pages nobody uses, or the loader stops.           *)
LEMMA LocatedType ==
    ASSUME NEW d \in Disks, NEW r, r.ch \in Nat, r.cl \in Nat, r.dh \in Nat,
           Addressable(d, r)
    PROVE  Located(d, r) \in Nat
  <1> DEFINE c == r.ch + 256 * (r.cl \div 64)
             s == r.cl % 64
  <1>1. d.spt \in Nat /\ d.heads \in Nat
    BY DiskFields
  <1>2. c \in Nat
    OBVIOUS
  <1>3. s \in 1 .. d.spt
    BY DEF Addressable
  <1>4. Located(d, r) = (c * d.heads + r.dh) * d.spt + s - 1
    BY DEF Located
  <1> HIDE DEF c, s
  <1>5. (c * d.heads + r.dh) * d.spt \in Nat
    BY <1>1, <1>2
  <1> QED
    BY <1>1, <1>3, <1>4, <1>5

LEMMA RegisterTypes ==
    ASSUME NEW d \in Disks, NEW lba \in Nat
    PROVE  LET r == Registers(ToCHS(d, lba))
           IN  r.ch \in Nat /\ r.cl \in Nat /\ r.dh \in Nat
  <1> DEFINE t == lba \div (2 * d.spt)
             r == lba % (2 * d.spt)
             h == r \div d.spt
             s == (lba % d.spt) + 1
  <1>1. d.spt \in Nat \ {0} /\ 2 * d.spt \in Nat \ {0}
    BY DiskFields
  <1>2. t \in Nat /\ r \in 0 .. 2 * d.spt - 1 /\ lba % d.spt \in 0 .. d.spt - 1
    BY <1>1, Remainder
  <1>3. r \in Nat /\ lba % d.spt \in Nat
    BY <1>1, <1>2
  <1>3a. h \in Nat
    BY <1>1, <1>3, Remainder
  <1>4. s \in Nat
    BY <1>3
  <1>5. Registers(ToCHS(d, lba)) = [ch |-> t % 256, cl |-> s % 256, dh |-> h % 256]
    BY DEF Registers, ToCHS
  <1> HIDE DEF t, r, h, s
  <1>6. t % 256 \in Nat /\ s % 256 \in Nat /\ h % 256 \in Nat
    BY <1>2, <1>3a, <1>4
  <1> QED
    BY <1>5, <1>6

LEMMA SectorTypes ==
    ASSUME NEW d \in Disks
    PROVE  /\ RootDirStart(d) \in Nat
           /\ KernelSector(d, d.second) \in Nat /\ KernelSector(d, d.junk) \in Nat
  <1>1. \A n \in Int : Word(n) \in Nat
    BY DEF Word
  <1>2. /\ d.bps \in Nat \ {0} /\ d.root \in Nat /\ d.fats \in Nat /\ d.spf \in Nat
        /\ d.reserved \in Nat /\ d.second \in Int /\ d.junk \in Int
    BY DiskFields
  <1>3. RootDirSize(d) \in Nat
    <2>1. 32 * d.root + d.bps - 1 \in Int
      BY <1>2
    <2>2. Word(32 * d.root + d.bps - 1) \in Nat
      BY <1>1, <2>1
    <2> QED
      BY <1>2, <2>2, Remainder DEF RootDirSize
  <1>4. ((RootDirSize(d) \div 256) * 256 + d.fats) * d.spf + d.reserved \in Int
    <2>1. RootDirSize(d) \div 256 \in Nat
      BY <1>3
    <2>2. (RootDirSize(d) \div 256) * 256 + d.fats \in Nat
      BY <1>2, <2>1
    <2> QED
      BY <1>2, <2>2
  <1>5. RootDirStart(d) \in Nat
    BY <1>1, <1>4 DEF RootDirStart
  <1>6. DataSectorStart(d) \in Nat
    BY <1>1, <1>3, <1>5 DEF DataSectorStart
  <1>7. d.second - 2 + DataSectorStart(d) \in Int /\ d.junk - 2 + DataSectorStart(d) \in Int
    BY <1>2, <1>6
  <1>8. KernelSector(d, d.second) \in Nat /\ KernelSector(d, d.junk) \in Nat
    BY <1>1, <1>7 DEF KernelSector
  <1> QED
    BY <1>5, <1>8

LEMMA DiskReadKeepsInv ==
    ASSUME BootInv, NEW r, NEW ps, NEW who, NEW from \in Reading, NEW to,
           DiskRead(from, to, r, ps, who),
           Addressable(disk, r) => Located(disk, r) \in Nat,
           \/ from = "start" /\ to = "read_root" /\ ps = {7} /\ who = "loader"
           \/ /\ from = "read_root" /\ to = "read_kernel" /\ ps = {16} /\ who = "image"
              /\ Supported(disk) => Located(disk, r) = RootStart(disk)
           \/ /\ from = "read_kernel" /\ to = "get_mmap" /\ ps = 16 .. 31 /\ who = "image"
              /\ Supported(disk) => Located(disk, r) = KernelStart(disk)
    PROVE  BootInv'
  <1> USE DEF Booting, BeforePaging, Loading, Reading, Over
  <1>1. /\ pc = from
        /\ UNCHANGED <<disk, machine, mmap_entry_count, k, next_free, mem_bitmap,
                       heap_start, heap_end>>
    BY DEF DiskRead, world, globals
  <1>2. /\ TypeOK /\ World /\ Cursor /\ MapStored /\ Tidy
    BY <1>1 DEF BootInv
  <1>3. mmap_entry_count = 0 /\ machine \in Machines /\ disk \in Disks
        /\ next_free = POOL_START /\ k = 0
    BY <1>1, <1>2 DEF MapStored, World, Cursor
  <1>4. MapPages = 0 /\ MapPages' = 0
    BY <1>1, <1>3, Layout DEF MapPages, CeilDiv, MMAP_ENTRY_SIZE
  <1>5. CASE Addressable(disk, r) /\ sector' = Located(disk, r) /\ pc' = to /\ Use(ps, who)
    <2>1. /\ DOMAIN owner' = Pages
          /\ \A p \in Pages : p \in ps => owner'[p] = who
          /\ \A p \in Pages : p \notin ps => owner'[p] = owner[p]
          /\ (\A q \in ps : owner[q] \in {"none", who}) => clash' = clash
      BY <1>5, UseEffect
    <2>2. pc' \in {"read_root", "read_kernel", "get_mmap"}
      BY <1>5
    <2>3. TypeOK'
      BY <1>1, <1>2, <1>5, <2>1 DEF TypeOK
    <2>4. World' /\ Cursor'
      BY <1>1, <1>2, <1>3, <2>2 DEF World, Cursor
    <2>5. MapStored'
      BY <1>1, <1>2, <1>4, <2>2, Layout DEF MapStored
    <2>6. Found'
      <3>1. Supported(disk)' = Supported(disk) /\ RootStart(disk)' = RootStart(disk)
            /\ KernelStart(disk)' = KernelStart(disk)
        BY <1>1 DEF Supported, KernelStart, RootStart, CeilDiv
      <3> QED
        BY <1>5, <3>1 DEF Found
    <2>7. clash' = {}
      <3>1. \A q \in ps : owner[q] \in {"none", who}
        BY <1>1, <1>2 DEF Tidy
      <3> QED
        BY <1>2, <2>1, <3>1 DEF Tidy
    <2>8. \A p \in ps : p \in Pages /\ p \notin HOLE /\ p < POOL_START
                        /\ p \notin 1 .. 6 \cup {8, 143}
      BY Layout DEF HOLE
    <2>9. \A p \in HOLE : owner'[p] = IF p = VGA THEN "screen" ELSE "device"
      <3>1. \A p \in HOLE : p \in Pages /\ p \notin ps
        BY <2>8, Layout
      <3>2. \A p \in HOLE : owner'[p] = owner[p]
        BY <2>1, <3>1
      <3> QED
        BY <1>2, <3>2 DEF Tidy
    <2>10. \A p \in next_free .. 159 : owner[p] = "none" /\ owner'[p] = "none"
      <3> SUFFICES ASSUME NEW p \in next_free .. 159
                   PROVE  owner[p] = "none" /\ owner'[p] = "none"
        OBVIOUS
      <3>1. p \in Pages /\ p \notin ps
        BY <1>3, <2>8, Layout
      <3>2. Ahead(p)
        BY <1>1, <1>2 DEF Tidy
      <3>3. p = 143 => owner[p] = "none"
        BY <1>1, <1>2 DEF Tidy
      <3>4. owner[p] = "none"
        BY <1>1, <1>4, <3>2, <3>3, Layout DEF Ahead
      <3> QED
        BY <2>1, <3>1, <3>4
    <2>11. \A p \in 16 .. 31 : owner'[p] \in {"none", "image"}
      <3>1. \A p \in 16 .. 31 : p \in Pages
        BY Layout
      <3> QED
        BY <1>1, <1>2, <2>1, <3>1 DEF Tidy
    <2>12. \A p \in 1 .. 6 \cup {8, 143} : owner'[p] = "none"
      <3>1. \A p \in 1 .. 6 \cup {8, 143} : p \in Pages /\ p \notin ps
        BY <2>8, Layout
      <3> QED
        BY <1>1, <1>2, <2>1, <3>1 DEF Tidy
    <2>13. Tidy'
      BY <1>1, <2>2, <2>7, <2>9, <2>10, <2>11, <2>12 DEF Tidy, Ahead
    <2> QED
      BY <2>3, <2>4, <2>5, <2>6, <2>13 DEF BootInv
  <1>6. CASE pc' = "disk_error" /\ UNCHANGED <<sector, owner, clash>>
    <2>1. TypeOK' /\ World' /\ Cursor' /\ Found'
      BY <1>1, <1>2, <1>6 DEF TypeOK, World, Cursor, Found
    <2>2. MapStored'
      BY <1>1, <1>2, <1>6 DEF MapStored
    <2>3. Tidy'
      BY <1>2, <1>6 DEF Tidy
    <2> QED
      BY <2>1, <2>2, <2>3 DEF BootInv
  <1> QED
    BY <1>5, <1>6 DEF DiskRead

LEMMA ReadsKeepInv ==
    BootInv /\ (ReadLoader \/ ReadRoot \/ ReadKernel) => BootInv'
  <1> SUFFICES ASSUME BootInv, ReadLoader \/ ReadRoot \/ ReadKernel PROVE BootInv'
    OBVIOUS
  <1>1. disk \in Disks
    BY DEF BootInv, World
  <1>2. CASE ReadLoader
    <2> DEFINE r == [ch |-> 0, cl |-> 2, dh |-> 0]
    <2>1. Addressable(disk, r) => Located(disk, r) \in Nat
      BY <1>1, LocatedType
    <2>2. DiskRead("start", "read_root", r, {7}, "loader")
      BY <1>2 DEF ReadLoader
    <2> HIDE DEF r
    <2> QED
      BY <2>1, <2>2, DiskReadKeepsInv DEF Reading
  <1>3. CASE ReadRoot
    <2> DEFINE lba == RootDirStart(disk)
               r == Registers(ToCHS(disk, lba))
    <2>1. lba \in Nat
      BY <1>1, SectorTypes
    <2>2. Supported(disk) => Located(disk, r) = RootStart(disk)
      BY <1>1, KernelSectorIs, LocatedToCHS
    <2> HIDE DEF lba
    <2>3. r.ch \in Nat /\ r.cl \in Nat /\ r.dh \in Nat
      BY <1>1, <2>1, RegisterTypes
    <2>4. DiskRead("read_root", "read_kernel", r, {16}, "image")
      BY <1>3 DEF ReadRoot, lba
    <2> HIDE DEF r
    <2>5. Addressable(disk, r) => Located(disk, r) \in Nat
      BY <1>1, <2>3, LocatedType
    <2> QED
      BY <2>2, <2>4, <2>5, DiskReadKeepsInv DEF Reading
  <1>4. CASE ReadKernel
    <2> DEFINE lba == KernelSector(disk, ClusterRead)
               r == Registers(ToCHS(disk, lba))
    <2>1. lba \in Nat
      BY <1>1, SectorTypes DEF ClusterRead
    <2>2. Supported(disk) => lba = KernelStart(disk)
      <3>1. pc = "read_kernel"
        BY <1>4 DEF ReadKernel, DiskRead
      <3>2. Supported(disk) => ClusterRead = disk.second
        BY <3>1 DEF BootInv, Found, ClusterRead
      <3> QED
        BY <1>1, <3>2, KernelSectorIs
    <2>3. Supported(disk) => Located(disk, r) = KernelStart(disk)
      BY <1>1, <2>1, <2>2, KernelSectorIs, LocatedToCHS
    <2>4. DiskRead("read_kernel", "get_mmap", r, 16 .. 31, "image")
      BY <1>4 DEF ReadKernel
    <2> HIDE DEF lba
    <2>5. r.ch \in Nat /\ r.cl \in Nat /\ r.dh \in Nat
      BY <1>1, <2>1, RegisterTypes
    <2> HIDE DEF r
    <2>6. Addressable(disk, r) => Located(disk, r) \in Nat
      BY <1>1, <2>5, LocatedType
    <2> QED
      BY <2>3, <2>4, <2>6, DiskReadKeepsInv DEF Reading
  <1> QED
    BY <1>2, <1>3, <1>4
-----------------------------------------------------------------------------
(* One more entry needs the page it starts in and the page it ends in, and *)
(* leaves none out.                                                        *)
LEMMA OneMoreEntry ==
    ASSUME NEW c \in Nat
    PROVE  LET old == CeilDiv(24 * c, PAGE_SIZE)
               new == CeilDiv(24 * (c + 1), PAGE_SIZE)
               first == (c * 24) \div PAGE_SIZE
               last == (c * 24 + 24 - 1) \div PAGE_SIZE
           IN  /\ old \in Nat /\ new \in Nat /\ first \in Nat /\ last \in Nat
               /\ old <= new
               /\ first < new /\ last < new
               /\ \A q \in old .. new - 1 : q = first \/ q = last
  <1> DEFINE n == c * 24
             old == (n + PAGE_SIZE - 1) \div PAGE_SIZE
             new == (n + 24 + PAGE_SIZE - 1) \div PAGE_SIZE
             first == n \div PAGE_SIZE
             last == (n + 24 - 1) \div PAGE_SIZE
  <1>1. n \in Nat /\ 24 * c = n /\ 24 * (c + 1) = n + 24
    OBVIOUS
  <1> HIDE DEF n
  <1>2. old \in Nat /\ new \in Nat /\ first \in Nat /\ last \in Nat
    BY <1>1, Layout
  <1>3. old <= new /\ new = last + 1
    BY <1>1, Layout
  <1>4. first <= last /\ last <= first + 1
    BY <1>1, Layout
  <1>5. first <= old
    BY <1>1, Layout
  <1> HIDE DEF old, new, first, last
  <1>6. \A q \in old .. new - 1 : q = first \/ q = last
    BY <1>2, <1>3, <1>4, <1>5
  <1>7. first < new /\ last < new
    BY <1>2, <1>3, <1>4
  <1>8. CeilDiv(24 * c, PAGE_SIZE) = old /\ CeilDiv(24 * (c + 1), PAGE_SIZE) = new
    BY <1>1, Layout DEF CeilDiv, old, new
  <1> QED
    BY <1>2, <1>3, <1>6, <1>7, <1>8 DEF first, last, n

LEMMA GetMmapKeepsInv ==
    BootInv /\ get_mmap => BootInv'
  <1> SUFFICES ASSUME BootInv, get_mmap PROVE BootInv'
    OBVIOUS
  <1> USE DEF Booting, BeforePaging, Loading, Reading, Over
  <1> DEFINE c == mmap_entry_count
             first == (c * 24) \div PAGE_SIZE
             last == (c * 24 + 24 - 1) \div PAGE_SIZE
             ps == {MMAP_PAGE + first, MMAP_PAGE + last}
  <1>1. /\ pc = "get_mmap" /\ pc' \in {"get_mmap", "init_pt"}
        /\ UNCHANGED <<disk, machine, sector, k, next_free, mem_bitmap, heap_start, heap_end>>
    BY DEF get_mmap, world, globals
  <1>2. TypeOK /\ World /\ Cursor /\ MapStored /\ Found /\ Tidy
    BY <1>1 DEF BootInv
  <1>3. /\ disk \in Disks /\ machine \in Machines /\ machine.entries \in Nat
        /\ c \in 0 .. machine.entries /\ next_free = POOL_START /\ k = 0
        /\ \A p \in MMAP_PAGE .. MMAP_PAGE + MapPages - 1 : owner[p] = "mmap"
    BY <1>1, <1>2, MachineAssumption DEF World, MapStored, Cursor
  <1>4. World' /\ Cursor'
    BY <1>1, <1>2, <1>3 DEF World, Cursor
  <1>5. Found'
    BY <1>1, <1>2 DEF Found, Supported, KernelStart, RootStart, CeilDiv
  <1>6. CASE Counted(Answer)
    <2>1. Answer # "error"
      BY <1>6 DEF Counted
    <2>2. c # machine.entries
      BY <2>1 DEF Answer
    <2>3. c + 1 \in 0 .. machine.entries /\ c \in Nat /\ c' = c + 1
      BY <1>3, <1>6, <2>2 DEF get_mmap
    <2>4. Use(ps, "mmap")
      <3>1. c * MMAP_ENTRY_SIZE = c * 24 /\ c * 24 \in Nat
        BY <2>3 DEF MMAP_ENTRY_SIZE
      <3>2. c * 24 < 65536
        <4>1. 24 * machine.entries < 65536
          BY <1>3, MachineAssumption DEF MMAP_ENTRY_SIZE
        <4> QED
          BY <1>3, <2>3, <4>1
      <3>3. Word(c * MMAP_ENTRY_SIZE) = c * 24
        BY <3>1, <3>2, WordFits
      <3> QED
        BY <1>6, <3>3 DEF get_mmap, MMAP_ENTRY_SIZE
    <2>5. /\ MapPages \in Nat /\ MapPages' \in Nat /\ first \in Nat /\ last \in Nat
          /\ MapPages <= MapPages' /\ first < MapPages' /\ last < MapPages'
          /\ \A q \in MapPages .. MapPages' - 1 : q = first \/ q = last
      BY <2>3, OneMoreEntry DEF MapPages, MMAP_ENTRY_SIZE
    <2>6. MMAP_PAGE + MapPages' + 4 <= 143
      <3>1. /\ machine' \in Machines /\ mmap_entry_count' \in 0 .. machine'.entries
        BY <1>1, <1>3, <2>3
      <3>2. MMAP_PAGE + CeilDiv(24 * machine.entries, PAGE_SIZE) + 4 <= 143
        BY <1>3, MachineAssumption DEF MMAP_ENTRY_SIZE
      <3>3. CeilDiv(24 * (c + 1), PAGE_SIZE) <= CeilDiv(24 * machine.entries, PAGE_SIZE)
        BY <1>3, <2>3, Layout DEF CeilDiv
      <3>4. CeilDiv(24 * machine.entries, PAGE_SIZE) \in Nat
        BY <1>3, Layout DEF CeilDiv
      <3>5. MapPages' = CeilDiv(24 * (c + 1), PAGE_SIZE)
        BY <2>3 DEF MapPages, MMAP_ENTRY_SIZE
      <3> QED
        BY <2>5, <3>2, <3>3, <3>4, <3>5, Layout
    <2> DEFINE new == MapPages'
    <2>6a. /\ MapPages \in Nat /\ new \in Nat /\ first \in Nat /\ last \in Nat
          /\ MapPages <= new /\ first < new /\ last < new
          /\ MMAP_PAGE + new + 4 <= 143 /\ MMAP_PAGE = POOL_START + 1
      BY <2>5, <2>6, Layout
    <2>6b. \A q \in MapPages .. new - 1 : q = first \/ q = last
      BY <2>5
    <2> HIDE DEF first, last, new
    <2>7. \A p \in ps : /\ p \in Pages /\ p \in MMAP_PAGE .. MMAP_PAGE + new - 1
                        /\ POOL_START < p /\ p < 143
      BY <2>6a, Layout
    <2>8. /\ DOMAIN owner' = Pages
          /\ \A p \in Pages : p \in ps => owner'[p] = "mmap"
          /\ \A p \in Pages : p \notin ps => owner'[p] = owner[p]
          /\ (\A q \in ps : owner[q] \in {"none", "mmap"}) => clash' = clash
      BY <2>4, UseEffect
    <2>9. TypeOK'
      BY <1>1, <1>2, <2>3, <2>8 DEF TypeOK
    <2>10. \A p \in MMAP_PAGE .. MMAP_PAGE + new - 1 : owner'[p] = "mmap"
      <3> SUFFICES ASSUME NEW p \in MMAP_PAGE .. MMAP_PAGE + new - 1
                   PROVE  owner'[p] = "mmap"
        OBVIOUS
      <3>1. p \in Pages
        BY <2>6a, Layout
      <3>2. CASE p < MMAP_PAGE + MapPages
        <4>1. owner[p] = "mmap"
          BY <1>3, <2>6a, <3>2, Layout
        <4> QED
          BY <2>8, <3>1, <4>1
      <3>3. CASE ~(p < MMAP_PAGE + MapPages)
        <4>1. p - MMAP_PAGE \in MapPages .. new - 1
          BY <2>6a, <3>3, Layout
        <4>2. p - MMAP_PAGE = first \/ p - MMAP_PAGE = last
          BY <2>6b, <4>1
        <4>3. p \in ps
          BY <2>6a, <4>2, Layout
        <4> QED
          BY <2>8, <3>1, <4>3
      <3> QED
        BY <3>2, <3>3
    <2>11. MapStored'
      <3>1. pc' = "init_pt" => c + 1 = machine.entries
        BY <2>1 DEF get_mmap, More, Answer
      <3> QED
        BY <1>1, <2>3, <2>10, <3>1 DEF MapStored, new
    <2>12. clash' = {}
      <3>1. \A q \in ps : owner[q] \in {"none", "mmap"}
        <4> SUFFICES ASSUME NEW q \in ps PROVE owner[q] \in {"none", "mmap"}
          OBVIOUS
        <4>1. q \in next_free .. 159 /\ q # POOL_START /\ q # 143
          BY <1>3, <2>7, Layout
        <4>2. Ahead(q)
          BY <1>1, <1>2, <4>1 DEF Tidy
        <4> QED
          BY <4>1, <4>2 DEF Ahead
      <3> QED
        BY <1>2, <2>8, <3>1 DEF Tidy
    <2>13. \A p \in HOLE \cup 1 .. 6 \cup {8, 143} : p \in Pages /\ owner'[p] = owner[p]
      <3>1. \A p \in HOLE \cup 1 .. 6 \cup {8, 143} : p \in Pages /\ p \notin ps
        BY <2>7, Layout DEF HOLE
      <3> QED
        BY <2>8, <3>1
    <2>14. \A p \in next_free .. 159 : Ahead(p)'
      <3> SUFFICES ASSUME NEW p \in next_free .. 159 PROVE Ahead(p)'
        OBVIOUS
      <3>1. p \in Pages /\ p \in Nat
        BY <1>3, Layout
      <3>2. CASE p \in ps
        BY <1>1, <2>7, <2>8, <3>1, <3>2 DEF Ahead, new
      <3>3. CASE p \notin ps
        <4>1. Ahead(p)
          BY <1>1, <1>2 DEF Tidy
        <4>2. owner'[p] = owner[p]
          BY <2>8, <3>1, <3>3
        <4>3. p \in MMAP_PAGE .. MMAP_PAGE + MapPages - 1
                => p \in MMAP_PAGE .. MMAP_PAGE + new - 1
          BY <2>6a, Layout
        <4> QED
          BY <1>1, <4>1, <4>2, <4>3 DEF Ahead, new
      <3> QED
        BY <3>2, <3>3
    <2>15. Tidy'
      BY <1>1, <1>2, <2>12, <2>13, <2>14 DEF Tidy
    <2> QED
      BY <1>4, <1>5, <2>9, <2>11, <2>15 DEF BootInv
  <1>7. CASE ~Counted(Answer)
    <2>1. Answer = "error" /\ UNCHANGED <<mmap_entry_count, owner, clash>>
      BY <1>7 DEF Counted, get_mmap
    <2>2. c = machine.entries
      BY <2>1 DEF Answer
    <2>3. MapPages' = MapPages
      BY <1>1, <2>1, SizesKept
    <2>4. TypeOK'
      BY <1>1, <1>2, <2>1 DEF TypeOK
    <2>5. MapStored'
      BY <1>1, <1>3, <2>1, <2>2, <2>3 DEF MapStored
    <2>6. Tidy'
      BY <1>1, <1>2, <2>1, <2>3 DEF Tidy, Ahead
    <2> QED
      BY <1>4, <1>5, <2>4, <2>5, <2>6 DEF BootInv
  <1> QED
    BY <1>6, <1>7

(* Nothing after ReadKernel changes what was read.                         *)
LEMMA FoundKept ==
    ASSUME Found, pc \notin Reading \cup {"disk_error"}, pc' # "read_kernel",
           UNCHANGED <<sector, disk>>
    PROVE  Found'
  <1>1. Supported(disk)' = Supported(disk) /\ KernelStart(disk)' = KernelStart(disk)
    BY DEF Supported, KernelStart, RootStart, CeilDiv
  <1>2. Supported(disk) => sector = KernelStart(disk)
    BY Zenon DEF Found
  <1> QED
    BY <1>1, <1>2 DEF Found

(* The tables and the stack of the loader keep clear of the memory map.    *)
LEMMA InitPtKeepsInv ==
    BootInv /\ init_pt => BootInv'
  <1> SUFFICES ASSUME BootInv, init_pt PROVE BootInv'
    OBVIOUS
  <1> USE DEF Booting, BeforePaging, Loading, Reading, Over
  <1> DEFINE ps == 1 .. 6 \cup {8, 143}
  <1>1. /\ pc = "init_pt" /\ pc' = "entry64" /\ Use(ps, "first_tables")
        /\ UNCHANGED <<disk, machine, sector, mmap_entry_count, k, next_free, mem_bitmap,
                       heap_start, heap_end>>
    BY DEF init_pt, world, globals
  <1>2. TypeOK /\ World /\ Cursor /\ MapStored /\ Found /\ Tidy
    BY <1>1 DEF BootInv
  <1>3. /\ machine \in Machines /\ mmap_entry_count = machine.entries
        /\ mmap_entry_count \in 0 .. machine.entries
        /\ next_free = POOL_START
        /\ \A p \in MMAP_PAGE .. MMAP_PAGE + MapPages - 1 : owner[p] = "mmap"
    BY <1>1, <1>2 DEF World, MapStored, Cursor
  <1>4. MapPages \in Nat /\ MMAP_PAGE + MapPages + 4 <= 143 /\ MapPages' = MapPages
    BY <1>1, <1>3, Sizes, SizesKept
  <1>5. /\ DOMAIN owner' = Pages
        /\ \A p \in Pages : p \in ps => owner'[p] = "first_tables"
        /\ \A p \in Pages : p \notin ps => owner'[p] = owner[p]
        /\ (\A q \in ps : owner[q] \in {"none", "first_tables"}) => clash' = clash
    BY <1>1, UseEffect
  <1>6. TypeOK' /\ World' /\ Found'
    BY <1>1, <1>2, <1>5, FoundKept DEF TypeOK, World
  <1>7. Cursor'
    BY <1>1, <1>2 DEF Cursor
  <1>8. MapStored'
    <2>1. \A p \in MMAP_PAGE .. MMAP_PAGE + MapPages - 1 : p \in Pages /\ p \notin ps
      BY <1>4, Layout
    <2>2. \A p \in MMAP_PAGE .. MMAP_PAGE + MapPages - 1 : owner'[p] = "mmap"
      BY <1>3, <1>5, <2>1
    <2> QED
      BY <1>1, <1>2, <1>3, <1>4, <2>2 DEF MapStored
  <1>9. clash' = {}
    BY <1>1, <1>2, <1>5 DEF Tidy
  <1>10. \A p \in HOLE : owner'[p] = IF p = VGA THEN "screen" ELSE "device"
    <2>1. \A p \in HOLE : p \in Pages /\ p \notin ps
      BY Layout DEF HOLE
    <2>2. \A p \in HOLE : owner'[p] = owner[p]
      BY <1>5, <2>1
    <2> QED
      BY <1>2, <2>2 DEF Tidy
  <1>11. \A p \in next_free .. 159 : Ahead(p)'
    <2> SUFFICES ASSUME NEW p \in next_free .. 159 PROVE Ahead(p)'
      OBVIOUS
    <2>1. p \in Pages /\ (p \in ps => p = 143)
      BY <1>3, Layout
    <2>2. Ahead(p)
      BY <1>1, <1>2 DEF Tidy
    <2>3. CASE p \in ps
      BY <1>1, <1>5, <2>1, <2>3 DEF Ahead
    <2>4. CASE p \notin ps
      <3>1. owner'[p] = owner[p]
        BY <1>5, <2>1, <2>4
      <3> QED
        BY <1>1, <1>4, <2>2, <3>1 DEF Ahead
    <2> QED
      BY <2>3, <2>4
  <1>12. Tidy'
    BY <1>1, <1>9, <1>10, <1>11 DEF Tidy
  <1> QED
    BY <1>6, <1>7, <1>8, <1>12 DEF BootInv

LEMMA Entry64KeepsInv ==
    BootInv /\ entry64 => BootInv'
  <1> SUFFICES ASSUME BootInv, entry64 PROVE BootInv'
    OBVIOUS
  <1> USE DEF Booting, BeforePaging, Loading, Reading, Over
  <1>1. /\ pc = "entry64" /\ pc' = "stack" /\ Use({POOL_START}, "stack")
        /\ UNCHANGED <<disk, machine, sector, mmap_entry_count, k, next_free, mem_bitmap,
                       heap_start, heap_end>>
    BY Layout DEF entry64, world, globals
  <1>2. TypeOK /\ World /\ Cursor /\ MapStored /\ Found /\ Tidy
    BY <1>1 DEF BootInv
  <1>3. /\ machine \in Machines /\ mmap_entry_count = machine.entries
        /\ mmap_entry_count \in 0 .. machine.entries
        /\ next_free = POOL_START /\ k = 0
        /\ \A p \in MMAP_PAGE .. MMAP_PAGE + MapPages - 1 : owner[p] = "mmap"
    BY <1>1, <1>2 DEF World, MapStored, Cursor
  <1>4. MapPages \in Nat /\ MMAP_PAGE + MapPages + 4 <= 143 /\ MapPages' = MapPages
    BY <1>1, <1>3, Sizes, SizesKept
  <1>5. POOL_START \in Pages /\ POOL_START < MMAP_PAGE /\ POOL_START # 143
        /\ POOL_START \notin HOLE
    BY <1>4, Layout
  <1>6. /\ DOMAIN owner' = Pages
        /\ owner'[POOL_START] = "stack"
        /\ \A p \in Pages : p # POOL_START => owner'[p] = owner[p]
        /\ owner[POOL_START] \in {"none", "stack"} => clash' = clash
    BY <1>1, <1>5, UseEffect
  <1>7. TypeOK' /\ World' /\ Found'
    BY <1>1, <1>2, <1>6, FoundKept DEF TypeOK, World
  <1>8. Cursor'
    BY <1>1, <1>3, Layout DEF Cursor
  <1>9. MapStored'
    <2>1. \A p \in MMAP_PAGE .. MMAP_PAGE + MapPages - 1 : p \in Pages /\ p # POOL_START
      BY <1>4, Layout
    <2>2. \A p \in MMAP_PAGE .. MMAP_PAGE + MapPages - 1 : owner'[p] = "mmap"
      BY <1>3, <1>6, <2>1
    <2> QED
      BY <1>1, <1>2, <1>3, <1>4, <2>2 DEF MapStored
  <1>10. clash' = {}
    <2>1. Ahead(POOL_START)
      BY <1>1, <1>2, <1>3, <1>4, Layout DEF Tidy
    <2>2. owner[POOL_START] = "none"
      BY <1>1, <1>4, <1>5, <2>1, Layout DEF Ahead
    <2> QED
      BY <1>2, <1>6, <2>2 DEF Tidy
  <1>11. \A p \in HOLE : owner'[p] = IF p = VGA THEN "screen" ELSE "device"
    <2>1. \A p \in HOLE : owner'[p] = owner[p]
      BY <1>5, <1>6, Layout
    <2> QED
      BY <1>2, <2>1 DEF Tidy
  <1>12. \A p \in next_free .. 159 : Ahead(p)'
    <2> SUFFICES ASSUME NEW p \in next_free .. 159 PROVE Ahead(p)'
      OBVIOUS
    <2>1. p \in Pages
      BY <1>3, Layout
    <2>2. Ahead(p)
      BY <1>1, <1>2 DEF Tidy
    <2>3. p # POOL_START => owner'[p] = owner[p]
      BY <1>6, <2>1
    <2> QED
      BY <1>1, <1>4, <1>6, <2>2, <2>3 DEF Ahead
  <1>13. Tidy'
    BY <1>1, <1>10, <1>11, <1>12 DEF Tidy
  <1> QED
    BY <1>7, <1>8, <1>9, <1>13 DEF BootInv
-----------------------------------------------------------------------------
(* alloc_page: the next page, or nothing when the pool is used up.         *)
LEMMA TakePageEffect ==
    ASSUME TypeOK, TakePage
    PROVE  /\ pc \in {"stack", "mmap", "tables", "bitmap", "heap"} /\ k < Need[pc]
           /\ k' = k + 1
           /\ UNCHANGED <<pc, disk, machine, sector, mmap_entry_count>>
           /\ DOMAIN owner' = Pages
           /\ pc # "bitmap" \/ k > 0 => mem_bitmap' = mem_bitmap
           /\ pc # "heap" \/ k > 0 => heap_start' = heap_start
           /\ pc # "heap" \/ k = 0 => heap_end' = heap_end
           /\ next_free + 1 < POOL_END =>
                 /\ next_free' = next_free + 1
                 /\ owner'[next_free] = pc
                 /\ \A p \in Pages : p # next_free => owner'[p] = owner[p]
                 /\ owner[next_free] \in {"none", pc} => clash' = clash
                 /\ pc = "bitmap" /\ k = 0 => mem_bitmap' = next_free
                 /\ pc = "heap" /\ k = 0 => heap_start' = next_free
                 /\ pc = "heap" /\ k > 0 => heap_end' = next_free + 1
           /\ ~(next_free + 1 < POOL_END) =>
                 /\ next_free' = next_free
                 /\ \A p \in Pages : owner'[p] = owner[p]
                 /\ pc = "bitmap" /\ k = 0 => mem_bitmap' = NULL
                 /\ pc = "heap" /\ k = 0 => heap_start' = NULL
                 /\ pc = "heap" /\ k > 0 => heap_end' = NULL + 1
  <1>1. /\ pc \in DOMAIN Need /\ k < Need[pc] /\ k' = k + 1
        /\ next_free' = (IF AllocPage = NULL THEN next_free ELSE AllocPage + 1)
        /\ Use({AllocPage} \cap Pages, pc)
        /\ mem_bitmap' = (IF pc = "bitmap" /\ k = 0 THEN AllocPage ELSE mem_bitmap)
        /\ heap_start' = (IF pc = "heap" /\ k = 0 THEN AllocPage ELSE heap_start)
        /\ heap_end' = (IF pc = "heap" /\ k > 0 THEN AllocPage + 1 ELSE heap_end)
        /\ UNCHANGED <<pc, disk, machine, sector, mmap_entry_count>>
    BY DEF TakePage, HeapEnd, world
  <1>2. pc \in {"stack", "mmap", "tables", "bitmap", "heap"}
    BY <1>1, NeedIs
  <1>3. k \in Nat /\ next_free \in POOL_START .. POOL_END - 1
    BY DEF TypeOK
  <1>4. next_free \in Pages /\ next_free # NULL
    BY <1>3, Layout
  <1>5. /\ DOMAIN owner' = Pages
        /\ \A p \in Pages : p \in {AllocPage} \cap Pages => owner'[p] = pc
        /\ \A p \in Pages : p \notin {AllocPage} \cap Pages => owner'[p] = owner[p]
        /\ (\A q \in {AllocPage} \cap Pages : owner[q] \in {"none", pc}) => clash' = clash
    BY <1>1, UseEffect
  <1>6. CASE next_free + 1 < POOL_END
    <2>1. AllocPage = next_free
      BY <1>6 DEF AllocPage
    <2>2. /\ owner'[next_free] = pc
          /\ \A p \in Pages : p # next_free => owner'[p] = owner[p]
          /\ owner[next_free] \in {"none", pc} => clash' = clash
      BY <1>4, <1>5, <2>1
    <2>3. next_free' = next_free + 1
      BY <1>1, <1>4, <2>1
    <2>4. /\ mem_bitmap' = (IF pc = "bitmap" /\ k = 0 THEN next_free ELSE mem_bitmap)
          /\ heap_start' = (IF pc = "heap" /\ k = 0 THEN next_free ELSE heap_start)
          /\ heap_end' = (IF pc = "heap" /\ k > 0 THEN next_free + 1 ELSE heap_end)
      BY <1>1, <2>1
    <2>5. k > 0 <=> k # 0
      BY <1>3
    <2>6. /\ pc # "bitmap" \/ k > 0 => mem_bitmap' = mem_bitmap
          /\ pc = "bitmap" /\ k = 0 => mem_bitmap' = next_free
      BY <2>4, <2>5
    <2>7. /\ pc # "heap" \/ k > 0 => heap_start' = heap_start
          /\ pc = "heap" /\ k = 0 => heap_start' = next_free
      BY <2>4, <2>5
    <2>8. /\ pc # "heap" \/ k = 0 => heap_end' = heap_end
          /\ pc = "heap" /\ k > 0 => heap_end' = next_free + 1
      BY <2>4, <2>5
    <2> QED
      BY <1>1, <1>2, <1>5, <1>6, <2>2, <2>3, <2>6, <2>7, <2>8
  <1>7. CASE ~(next_free + 1 < POOL_END)
    <2>1. AllocPage = NULL
      BY <1>7 DEF AllocPage
    <2>2. \A p \in Pages : owner'[p] = owner[p]
      BY <1>5, <2>1, Layout
    <2> QED
      BY <1>1, <1>2, <1>3, <1>5, <1>7, <2>1, <2>2
  <1> QED
    BY <1>6, <1>7

LEMMA TakePageCursor ==
    ASSUME BootInv, TakePage
    PROVE  /\ Cursor'
           /\ pc \in {"stack", "mmap", "tables"} \/ FitsPool => next_free + 1 < POOL_END
           /\ pc \in {"stack", "mmap", "tables"} \/ FitsBelowHole => next_free <= 159
           /\ pc = "tables" => MMAP_PAGE + MapPages <= next_free
  <1> USE DEF Booting, BeforePaging, Loading, Reading, Over
  <1>1. TypeOK /\ World /\ Cursor /\ MapStored
    BY DEF BootInv
  <1>2. /\ k \in Nat /\ next_free \in POOL_START .. POOL_END - 1
        /\ machine \in Machines /\ mmap_entry_count \in 0 .. machine.entries
    BY <1>1 DEF TypeOK, World, MapStored
  <1>3. /\ MapPages \in Nat /\ BitmapPages \in Nat
        /\ MMAP_PAGE + MapPages + 4 <= 143
        /\ FitsPool <=> POOL_START + 9 + MapPages + BitmapPages < POOL_END
        /\ FitsBelowHole <=> POOL_START + 9 + MapPages + BitmapPages <= 160
    BY <1>2, Sizes
  <1>4. FitsBelowHole => FitsPool
    BY <1>3, Layout
  <1>5. /\ pc \in {"stack", "mmap", "tables", "bitmap", "heap"} /\ k < Need[pc]
        /\ k' = k + 1 /\ pc' = pc
        /\ UNCHANGED <<machine, mmap_entry_count>>
        /\ pc # "bitmap" \/ k > 0 => mem_bitmap' = mem_bitmap
        /\ pc # "heap" \/ k > 0 => heap_start' = heap_start
        /\ next_free + 1 < POOL_END =>
              /\ next_free' = next_free + 1
              /\ pc = "bitmap" /\ k = 0 => mem_bitmap' = next_free
              /\ pc = "heap" /\ k = 0 => heap_start' = next_free
              /\ pc = "heap" /\ k > 0 => heap_end' = next_free + 1
        /\ ~(next_free + 1 < POOL_END) => next_free' = next_free
    BY <1>1, TakePageEffect
  <1>6. /\ MapPages' = MapPages /\ BitmapPages' = BitmapPages
        /\ AfterTables' = AfterTables /\ AfterBitmap' = AfterBitmap
        /\ FitsPool' <=> FitsPool
    BY <1>5, SizesKept
  <1>7. CASE pc = "stack"
    <2>1. k = 0 /\ next_free = POOL_START
      <3>1. Need[pc] = 1
        BY <1>7, NeedIs
      <3>2. k = 0
        BY <1>2, <1>5, <3>1
      <3>3. next_free = POOL_START + k
        BY <1>1, <1>7 DEF Cursor
      <3> QED
        BY <3>2, <3>3, Layout
    <2>2. next_free + 1 < POOL_END /\ next_free <= 159
      BY <1>3, <2>1, Layout
    <2> QED
      BY <1>5, <1>7, <2>1, <2>2, Layout DEF Cursor
  <1>8. CASE pc = "mmap"
    <2>1. k < MapPages /\ next_free = POOL_START + 1 + k
      BY <1>1, <1>5, <1>8, NeedIs DEF Cursor
    <2>2. next_free + 1 < POOL_END /\ next_free <= 159
      BY <1>2, <1>3, <2>1, Layout
    <2> QED
      BY <1>2, <1>3, <1>5, <1>6, <1>8, <2>1, <2>2, Layout DEF Cursor
  <1>9. CASE pc = "tables"
    <2>1. k < 4 /\ next_free = POOL_START + 1 + MapPages + k
      BY <1>1, <1>5, <1>9, NeedIs DEF Cursor
    <2>2. next_free + 1 < POOL_END /\ next_free <= 159 /\ MMAP_PAGE + MapPages <= next_free
      BY <1>2, <1>3, <2>1, Layout
    <2> QED
      BY <1>2, <1>3, <1>5, <1>6, <1>9, <2>1, <2>2, Layout DEF Cursor
  <1>10. CASE pc = "bitmap"
    <2>1. /\ k < BitmapPages /\ AfterTables <= next_free
          /\ FitsPool => next_free = AfterTables + k
          /\ FitsPool /\ k > 0 => mem_bitmap = AfterTables
      BY <1>1, <1>5, <1>10, NeedIs DEF Cursor
    <2>2. AfterTables = POOL_START + 5 + MapPages /\ AfterTables \in Nat
      BY <1>3, Layout DEF AfterTables
    <2>3. FitsPool => next_free + 1 < POOL_END
      BY <1>2, <1>3, <2>1, <2>2, Layout
    <2>4. FitsBelowHole => next_free <= 159
      BY <1>2, <1>3, <1>4, <2>1, <2>2, Layout
    <2>5. FitsPool => next_free' = AfterTables + k' /\ mem_bitmap' = AfterTables
      BY <1>2, <1>5, <1>10, <2>1, <2>2, <2>3
    <2>6. k' <= BitmapPages /\ AfterTables <= next_free'
      BY <1>2, <1>3, <1>5, <2>1, <2>2, Layout
    <2> QED
      BY <1>5, <1>6, <1>10, <2>3, <2>4, <2>5, <2>6 DEF Cursor
  <1>11. CASE pc = "heap"
    <2>1. /\ k < 4
          /\ FitsPool => next_free = AfterBitmap + k
          /\ FitsPool /\ k > 0 => heap_start = AfterBitmap
      BY <1>1, <1>5, <1>11, NeedIs DEF Cursor
    <2>2. AfterBitmap = POOL_START + 5 + MapPages + BitmapPages /\ AfterBitmap \in Nat
      BY <1>3, Layout DEF AfterBitmap, AfterTables
    <2>3. FitsPool => next_free + 1 < POOL_END
      BY <1>2, <1>3, <2>1, <2>2, Layout
    <2>4. FitsBelowHole => next_free <= 159
      BY <1>2, <1>3, <1>4, <2>1, <2>2, Layout
    <2>5. FitsPool => /\ next_free' = AfterBitmap + k' /\ heap_start' = AfterBitmap
                      /\ k > 0 => heap_end' = next_free'
      BY <1>2, <1>5, <1>11, <2>1, <2>2, <2>3
    <2>6. k' <= 4 /\ (k' > 1 => k > 0)
      BY <1>2, <1>5, <2>1
    <2> QED
      BY <1>5, <1>6, <1>11, <2>3, <2>4, <2>5, <2>6 DEF Cursor
  <1> QED
    BY <1>5, <1>7, <1>8, <1>9, <1>10, <1>11

LEMMA TakePageKeepsInv ==
    BootInv /\ TakePage => BootInv'
  <1> SUFFICES ASSUME BootInv, TakePage PROVE BootInv'
    OBVIOUS
  <1> USE DEF Booting, BeforePaging, Loading, Reading, Over
  <1>1. TypeOK /\ World /\ Cursor /\ MapStored /\ Found
    BY DEF BootInv
  <1>2. /\ k \in Nat /\ next_free \in POOL_START .. POOL_END - 1
        /\ machine \in Machines /\ mmap_entry_count \in 0 .. machine.entries
    BY <1>1 DEF TypeOK, World, MapStored
  <1>3. /\ MapPages \in Nat /\ BitmapPages \in Nat
        /\ MMAP_PAGE + MapPages + 4 <= 143
        /\ FitsPool <=> POOL_START + 9 + MapPages + BitmapPages < POOL_END
        /\ FitsBelowHole <=> POOL_START + 9 + MapPages + BitmapPages <= 160
    BY <1>2, Sizes
  <1>4. FitsBelowHole => FitsPool
    BY <1>3, Layout
  <1>5. /\ pc \in {"stack", "mmap", "tables", "bitmap", "heap"} /\ pc' = pc
        /\ k' = k + 1
        /\ UNCHANGED <<disk, machine, sector, mmap_entry_count>>
        /\ DOMAIN owner' = Pages
    BY <1>1, TakePageEffect
  <1>6. /\ MapPages' = MapPages /\ BitmapPages' = BitmapPages
        /\ AfterTables' = AfterTables /\ AfterBitmap' = AfterBitmap
        /\ FitsBelowHole' <=> FitsBelowHole
    BY <1>5, SizesKept
  <1>7. /\ pc # "bitmap" \/ k > 0 => mem_bitmap' = mem_bitmap
        /\ pc # "heap" \/ k > 0 => heap_start' = heap_start
        /\ pc # "heap" \/ k = 0 => heap_end' = heap_end
        /\ next_free + 1 < POOL_END =>
              /\ next_free' = next_free + 1
              /\ owner'[next_free] = pc
              /\ \A p \in Pages : p # next_free => owner'[p] = owner[p]
              /\ owner[next_free] \in {"none", pc} => clash' = clash
              /\ pc = "bitmap" /\ k = 0 => mem_bitmap' = next_free
              /\ pc = "heap" /\ k = 0 => heap_start' = next_free
              /\ pc = "heap" /\ k > 0 => heap_end' = next_free + 1
        /\ ~(next_free + 1 < POOL_END) =>
              /\ next_free' = next_free
              /\ \A p \in Pages : owner'[p] = owner[p]
              /\ pc = "bitmap" /\ k = 0 => mem_bitmap' = NULL
              /\ pc = "heap" /\ k = 0 => heap_start' = NULL
              /\ pc = "heap" /\ k > 0 => heap_end' = NULL + 1
    BY <1>1, TakePageEffect
  <1>8. /\ Cursor'
        /\ pc \in {"stack", "mmap", "tables"} \/ FitsPool => next_free + 1 < POOL_END
        /\ pc \in {"stack", "mmap", "tables"} \/ FitsBelowHole => next_free <= 159
        /\ pc = "tables" => MMAP_PAGE + MapPages <= next_free
    BY TakePageCursor
  <1>9. /\ pc = "stack" => next_free = POOL_START
        /\ pc = "bitmap" => MMAP_PAGE + MapPages <= next_free
    <2>1. pc = "stack" => k = 0 /\ next_free = POOL_START + k
      <3>1. pc = "stack" => k < 1
        BY <1>1, NeedIs, TakePageEffect
      <3> QED
        BY <1>1, <1>2, <3>1 DEF Cursor
    <2>2. pc = "bitmap" => AfterTables <= next_free
      BY <1>1 DEF Cursor
    <2> QED
      BY <1>2, <1>3, <2>1, <2>2, Layout DEF AfterTables
  <1>10. TypeOK'
    <2>1. next_free' \in POOL_START .. POOL_END - 1 /\ k' \in Nat
      BY <1>2, <1>5, <1>7, Layout
    <2>2. next_free \in Pages /\ (next_free + 1 < POOL_END => next_free + 1 \in Pages)
      BY <1>2, Layout
    <2>3. {mem_bitmap', heap_start'} \subseteq Pages \cup {NULL}
      BY <1>1, <1>2, <1>7, <2>2 DEF TypeOK
    <2>4. heap_end' \in Pages \cup {NULL, NULL + 1}
      BY <1>1, <1>2, <1>7, <2>2 DEF TypeOK
    <2> QED
      BY <1>1, <1>5, <2>1, <2>3, <2>4 DEF TypeOK
  <1>11. World' /\ Found'
    BY <1>1, <1>5, FoundKept DEF World
  <1>12. MapStored'
    <2>1. ASSUME pc # "heap", NEW p \in MMAP_PAGE .. MMAP_PAGE + MapPages - 1
          PROVE  owner'[p] = "mmap"
      <3>1. owner[p] = "mmap" /\ p \in Pages
        BY <1>1, <1>3, <1>5, <2>1, Layout DEF MapStored
      <3>2. CASE p = next_free /\ next_free + 1 < POOL_END
        <4>1. pc = "mmap"
          BY <1>3, <1>5, <1>8, <1>9, <2>1, <3>2, Layout
        <4> QED
          BY <1>7, <3>2, <4>1
      <3>3. CASE ~(p = next_free /\ next_free + 1 < POOL_END)
        BY <1>7, <3>1, <3>3
      <3> QED
        BY <3>2, <3>3
    <2> QED
      BY <1>1, <1>5, <1>6, <2>1 DEF MapStored
  <1>13. ASSUME pc \in BeforePaging \/ FitsBelowHole
         PROVE  Tidy'
    <2>1. Tidy
      BY <1>13 DEF BootInv
    <2>2. next_free + 1 < POOL_END /\ next_free <= 159 /\ next_free \in Pages
      BY <1>2, <1>4, <1>5, <1>8, <1>13, Layout
    <2>3. /\ next_free' = next_free + 1
          /\ owner'[next_free] = pc
          /\ \A p \in Pages : p # next_free => owner'[p] = owner[p]
          /\ owner[next_free] \in {"none", pc} => clash' = clash
      BY <1>7, <2>2
    <2>4. Ahead(next_free)
      BY <1>2, <1>5, <2>1, <2>2, Layout DEF Tidy
    <2>5. pc \in {"stack", "mmap", "tables"} => next_free # 143
      <3>1. pc = "mmap" => k < MapPages /\ next_free = POOL_START + 1 + k
        BY <1>1, NeedIs, TakePageEffect DEF Cursor
      <3>2. pc = "tables" => k < 4 /\ next_free = POOL_START + 1 + MapPages + k
        BY <1>1, NeedIs, TakePageEffect DEF Cursor
      <3> QED
        BY <1>2, <1>3, <1>9, <3>1, <3>2, Layout
    <2>6. owner[next_free] \in {"none", pc}
      <3>1. pc = "stack" => next_free \notin MMAP_PAGE .. MMAP_PAGE + MapPages - 1
        BY <1>9, Layout
      <3> QED
        BY <1>5, <2>4, <2>5, <3>1 DEF Ahead
    <2>7. clash' = {}
      BY <2>1, <2>3, <2>6 DEF Tidy
    <2>8. \A p \in HOLE : owner'[p] = IF p = VGA THEN "screen" ELSE "device"
      <3>1. \A p \in HOLE : p \in Pages /\ p # next_free
        BY <1>2, <2>2, Layout
      <3>2. \A p \in HOLE : owner'[p] = owner[p]
        BY <2>3, <3>1
      <3> QED
        BY <2>1, <3>2 DEF Tidy
    <2>9. \A p \in next_free' .. 159 : Ahead(p)'
      <3> SUFFICES ASSUME NEW p \in next_free' .. 159 PROVE Ahead(p)'
        OBVIOUS
      <3>1. p \in Pages /\ p # next_free /\ p \in next_free .. 159
        BY <1>2, <2>3, Layout
      <3>2. owner'[p] = owner[p]
        BY <2>3, <3>1
      <3>3. Ahead(p)
        BY <1>5, <2>1, <3>1 DEF Tidy
      <3> QED
        BY <1>5, <1>6, <3>2, <3>3 DEF Ahead
    <2>10. pc = "bitmap" => \A p \in AfterTables .. next_free' - 1 : owner'[p] = "bitmap"
      <3> SUFFICES ASSUME pc = "bitmap", NEW p \in AfterTables .. next_free' - 1
                   PROVE  owner'[p] = "bitmap"
        OBVIOUS
      <3>1. AfterTables \in Nat
        BY <1>3, Layout DEF AfterTables
      <3>2. CASE p = next_free
        BY <2>3, <3>2
      <3>3. CASE p # next_free
        <4>1. p \in AfterTables .. next_free - 1 /\ p \in Pages
          BY <1>2, <2>3, <3>1, <3>3, Layout
        <4>2. owner[p] = "bitmap"
          BY <2>1, <4>1 DEF Tidy
        <4> QED
          BY <2>3, <3>3, <4>1, <4>2
      <3> QED
        BY <3>2, <3>3
    <2>11. pc = "heap" => owner'[AfterBitmap] = "heap"
      <3> SUFFICES ASSUME pc = "heap" PROVE owner'[AfterBitmap] = "heap"
        OBVIOUS
      <3>1. FitsPool
        BY <1>4, <1>13
      <3>2. next_free = AfterBitmap + k
        BY <1>1, <3>1 DEF Cursor
      <3>3. AfterBitmap \in Nat
        BY <1>3, Layout DEF AfterBitmap, AfterTables
      <3>4. CASE k = 0
        BY <2>3, <3>2, <3>3, <3>4
      <3>5. CASE k # 0
        <4>1. AfterBitmap # next_free /\ AfterBitmap \in Pages
          BY <1>2, <3>2, <3>3, <3>5, Layout
        <4>2. owner[AfterBitmap] = "heap"
          BY <1>2, <2>1, <3>5 DEF Tidy
        <4> QED
          BY <2>3, <4>1, <4>2
      <3> QED
        BY <3>4, <3>5
    <2> QED
      BY <1>5, <1>6, <2>7, <2>8, <2>9, <2>10, <2>11 DEF Tidy
  <1> QED
    BY <1>5, <1>6, <1>8, <1>10, <1>11, <1>12, <1>13 DEF BootInv

(* The next purpose starts where the last one ended.                       *)
LEMMA TakenAllKeepsInv ==
    BootInv /\ TakenAll => BootInv'
  <1> SUFFICES ASSUME BootInv, TakenAll PROVE BootInv'
    OBVIOUS
  <1> USE DEF Booting, BeforePaging, Loading, Reading, Over
  <1>1. TypeOK /\ World /\ Cursor /\ MapStored /\ Found
    BY DEF BootInv
  <1>2. /\ pc \in {"stack", "mmap", "tables", "bitmap", "heap"} /\ k = Need[pc] /\ k' = 0
        /\ pc' = (IF pc = "bitmap" /\ k = 0 THEN "spin" ELSE Following[pc])
        /\ UNCHANGED <<disk, machine, sector, mmap_entry_count, next_free, mem_bitmap,
                       heap_start, heap_end, owner, clash>>
    BY NeedIs DEF TakenAll, world, globals
  <1>3. /\ pc = "stack" => k = 1 /\ pc' = "mmap"
        /\ pc = "mmap" => k = MapPages /\ pc' = "tables"
        /\ pc = "tables" => k = 4 /\ pc' = "paging_init"
        /\ pc = "bitmap" => k = BitmapPages /\ (k = 0 => pc' = "spin")
                            /\ (k # 0 => pc' = "fill_bitmap")
        /\ pc = "heap" => k = 4 /\ pc' = "heap_init"
    BY <1>2, NeedIs DEF Following
  <1>4. /\ k \in Nat /\ next_free \in POOL_START .. POOL_END - 1
        /\ machine \in Machines /\ mmap_entry_count \in 0 .. machine.entries
    BY <1>1 DEF TypeOK, World, MapStored
  <1>5. /\ MapPages \in Nat /\ BitmapPages \in Nat
        /\ FitsPool <=> POOL_START + 9 + MapPages + BitmapPages < POOL_END
        /\ FitsBelowHole <=> POOL_START + 9 + MapPages + BitmapPages <= 160
    BY <1>4, Sizes
  <1>6. /\ MapPages' = MapPages /\ BitmapPages' = BitmapPages
        /\ AfterTables' = AfterTables /\ AfterBitmap' = AfterBitmap
        /\ FitsPool' <=> FitsPool
        /\ FitsBelowHole' <=> FitsBelowHole
    BY <1>2, SizesKept
  <1>7. AfterTables = POOL_START + 5 + MapPages
        /\ AfterBitmap = POOL_START + 5 + MapPages + BitmapPages
    BY DEF AfterTables, AfterBitmap
  <1>8. pc' \in {"mmap", "tables", "paging_init", "fill_bitmap", "spin", "heap_init"}
    BY <1>2, <1>3
  <1>9. TypeOK' /\ World' /\ Found'
    BY <1>1, <1>2, <1>8, FoundKept DEF TypeOK, World
  <1>10. Cursor'
    <2>1. CASE pc = "stack"
      BY <1>1, <1>2, <1>3, <1>5, <1>6, <2>1, Layout DEF Cursor
    <2>2. CASE pc = "mmap"
      BY <1>1, <1>2, <1>3, <1>5, <1>6, <2>2, Layout DEF Cursor
    <2>3. CASE pc = "tables"
      BY <1>1, <1>2, <1>3, <1>5, <1>6, <1>7, <2>3, Layout DEF Cursor
    <2>4. CASE pc = "bitmap"
      <3>1. /\ AfterTables <= next_free
            /\ FitsPool => next_free = AfterTables + k
            /\ FitsPool /\ k > 0 => mem_bitmap = AfterTables
        BY <1>1, <2>4 DEF Cursor
      <3>2. k # 0 => 0 < BitmapPages /\ k > 0
        BY <1>3, <1>4, <2>4
      <3>3. FitsPool /\ k # 0 => next_free = AfterBitmap /\ mem_bitmap = AfterTables
        BY <1>3, <2>4, <3>1, <3>2 DEF AfterBitmap
      <3> QED
        BY <1>2, <1>3, <1>6, <2>4, <3>1, <3>2, <3>3 DEF Cursor
    <2>5. CASE pc = "heap"
      <3>1. FitsPool => /\ next_free = AfterBitmap + 4 /\ heap_start = AfterBitmap
                        /\ heap_end = next_free
        BY <1>1, <1>3, <2>5 DEF Cursor
      <3> QED
        BY <1>2, <1>3, <1>6, <2>5, <3>1 DEF Cursor
    <2> QED
      BY <1>2, <2>1, <2>2, <2>3, <2>4, <2>5
  <1>11. MapStored'
    BY <1>1, <1>2, <1>3, <1>6, <1>8 DEF MapStored
  <1>12. ASSUME pc' \in BeforePaging \/ FitsBelowHole
         PROVE  Tidy'
    <2>1. Tidy
      BY <1>2, <1>3, <1>12 DEF BootInv
    <2>2. pc = "stack" => next_free = POOL_START + 1
      BY <1>1, <1>3 DEF Cursor
    <2>3. pc = "mmap" => next_free = MMAP_PAGE + MapPages
      BY <1>1, <1>3, <1>5, Layout DEF Cursor
    <2>4. \A p \in next_free .. 159 : Ahead(p)
      BY <1>2, <2>1 DEF Tidy
    <2>5. pc' \in Booting => \A p \in next_free .. 159 : Ahead(p)'
      <3> SUFFICES ASSUME pc' \in Booting, NEW p \in next_free .. 159 PROVE Ahead(p)'
        OBVIOUS
      <3>1. Ahead(p) /\ owner'[p] = owner[p]
        BY <1>2, <2>4
      <3>2. pc = "stack" => p # POOL_START
        BY <2>2, Layout
      <3>3. pc = "mmap" => p \notin MMAP_PAGE .. MMAP_PAGE + MapPages - 1
        BY <1>5, <2>3, Layout
      <3> QED
        BY <1>2, <1>3, <1>6, <3>1, <3>2, <3>3 DEF Ahead
    <2>6. pc = "heap" => k > 0
      BY <1>3
    <2> QED
      BY <1>2, <1>3, <1>6, <1>8, <2>1, <2>5, <2>6 DEF Tidy
  <1> QED
    BY <1>6, <1>9, <1>10, <1>11, <1>12 DEF BootInv

(* The loader's tables become free.                                        *)
LEMMA PagingInitKeepsInv ==
    BootInv /\ paging_init => BootInv'
  <1> SUFFICES ASSUME BootInv, paging_init PROVE BootInv'
    OBVIOUS
  <1> USE DEF Booting, BeforePaging, Loading, Reading, Over
  <1>1. /\ pc = "paging_init" /\ pc' = "bitmap"
        /\ owner' = [p \in Pages |-> IF owner[p] = "first_tables" THEN "none" ELSE owner[p]]
        /\ UNCHANGED <<disk, machine, sector, mmap_entry_count, k, next_free, mem_bitmap,
                       heap_start, heap_end, clash>>
    BY DEF paging_init, world, globals
  <1>2. TypeOK /\ World /\ Cursor /\ MapStored /\ Found /\ Tidy
    BY <1>1 DEF BootInv
  <1>3. /\ machine \in Machines /\ mmap_entry_count \in 0 .. machine.entries
        /\ k = 0 /\ next_free = AfterTables
        /\ \A p \in MMAP_PAGE .. MMAP_PAGE + MapPages - 1 : owner[p] = "mmap"
    BY <1>1, <1>2 DEF World, MapStored, Cursor
  <1>4. MapPages \in Nat /\ BitmapPages \in Nat /\ MMAP_PAGE + MapPages + 4 <= 143
    BY <1>3, Sizes
  <1>5. /\ MapPages' = MapPages /\ BitmapPages' = BitmapPages
        /\ AfterTables' = AfterTables /\ AfterBitmap' = AfterBitmap
        /\ FitsPool' <=> FitsPool
        /\ FitsBelowHole' <=> FitsBelowHole
    BY <1>1, SizesKept
  <1>6. AfterTables \in Nat /\ POOL_START <= AfterTables
    BY <1>4, Layout DEF AfterTables
  <1>7. \A p \in Pages : owner'[p] = IF owner[p] = "first_tables" THEN "none" ELSE owner[p]
    BY <1>1
  <1>8. DOMAIN owner' = Pages
    BY <1>1
  <1>9. TypeOK' /\ World' /\ Found'
    BY <1>1, <1>2, <1>8, FoundKept DEF TypeOK, World
  <1>10. Cursor'
    BY <1>1, <1>3, <1>4, <1>5, <1>6 DEF Cursor
  <1>11. MapStored'
    <2>1. \A p \in MMAP_PAGE .. MMAP_PAGE + MapPages - 1 : p \in Pages
      BY <1>4, Layout
    <2>2. \A p \in MMAP_PAGE .. MMAP_PAGE + MapPages - 1 : owner'[p] = "mmap"
      BY <1>3, <1>7, <2>1
    <2> QED
      BY <1>1, <1>2, <1>5, <2>2 DEF MapStored
  <1>12. \A p \in HOLE : owner'[p] = IF p = VGA THEN "screen" ELSE "device"
    <2>1. \A p \in HOLE : p \in Pages
      BY Layout
    <2>2. \A p \in HOLE : owner[p] # "first_tables" /\ owner'[p] = owner[p]
      BY <1>2, <1>7, <2>1 DEF Tidy
    <2> QED
      BY <1>2, <2>2 DEF Tidy
  <1>13. \A p \in next_free .. 159 : owner'[p] = "none"
    <2> SUFFICES ASSUME NEW p \in next_free .. 159 PROVE owner'[p] = "none"
      OBVIOUS
    <2>1. p \in Pages
      BY <1>3, <1>6, Layout
    <2>2. Ahead(p)
      BY <1>1, <1>2 DEF Tidy
    <2>3. owner[p] \in {"none", "first_tables"}
      BY <1>1, <2>2 DEF Ahead
    <2> QED
      BY <1>7, <2>1, <2>3
  <1>14. \A p \in AfterTables .. next_free - 1 : FALSE
    BY <1>3, <1>6
  <1>15. Tidy'
    BY <1>1, <1>2, <1>5, <1>12, <1>13, <1>14 DEF Tidy, Ahead
  <1> QED
    BY <1>9, <1>10, <1>11, <1>15 DEF BootInv

(* The bits of the kernel's own pages do not reach past the bitmap's pages.*)
LEMMA FillStaysInside ==
    ASSUME NEW size \in Nat, 0 < CeilDiv(size, PAGE_SIZE),
           NEW bytes, bytes = IF size * 8 < KERNEL_END THEN KERNEL_END \div 8 ELSE size
    PROVE  CeilDiv(bytes, PAGE_SIZE) \in 0 .. CeilDiv(size, PAGE_SIZE)
  <1>1. CeilDiv(size, PAGE_SIZE) \in Nat
    BY Layout DEF CeilDiv
  <1>2. CASE size * 8 < KERNEL_END
    <2>1. bytes = KERNEL_END \div 8 /\ bytes \in Nat /\ bytes <= 1 * PAGE_SIZE
      BY <1>2, Layout
    <2>2. CeilDiv(bytes, PAGE_SIZE) \in 0 .. 1
      BY <2>1, Layout DEF CeilDiv
    <2> QED
      BY <1>1, <2>2
  <1>3. CASE ~(size * 8 < KERNEL_END)
    BY <1>1, <1>3
  <1> QED
    BY <1>2, <1>3

LEMMA FillBitmapKeepsInv ==
    BootInv /\ FillBitmap => BootInv'
  <1> SUFFICES ASSUME BootInv, FillBitmap PROVE BootInv'
    OBVIOUS
  <1> USE DEF Booting, BeforePaging, Loading, Reading, Over
  <1> DEFINE bytes == IF BitmapSize * 8 < KERNEL_END THEN KERNEL_END \div 8 ELSE BitmapSize
             n == CeilDiv(bytes, PAGE_SIZE)
             ps == mem_bitmap .. mem_bitmap + n - 1
  <1>1. /\ pc = "fill_bitmap"
        /\ IF ps \subseteq Pages
           THEN Use(ps, "bitmap") /\ pc' = "heap"
           ELSE pc' = "fault" /\ UNCHANGED <<owner, clash>>
        /\ UNCHANGED <<disk, machine, sector, mmap_entry_count, k, next_free, mem_bitmap,
                       heap_start, heap_end>>
    BY DEF FillBitmap, world, globals
  <1>2. TypeOK /\ World /\ Cursor /\ MapStored /\ Found
    BY DEF BootInv
  <1>3. /\ machine \in Machines /\ mmap_entry_count \in 0 .. machine.entries
        /\ mmap_entry_count = machine.entries /\ k = 0 /\ 0 < BitmapPages
        /\ FitsPool => next_free = AfterBitmap /\ mem_bitmap = AfterTables
    BY <1>1, <1>2 DEF World, MapStored, Cursor
  <1>4. /\ MapPages \in Nat /\ BitmapPages \in Nat
        /\ FitsPool <=> POOL_START + 9 + MapPages + BitmapPages < POOL_END
        /\ FitsBelowHole <=> POOL_START + 9 + MapPages + BitmapPages <= 160
    BY <1>3, Sizes
  <1>5. /\ MapPages' = MapPages /\ BitmapPages' = BitmapPages
        /\ AfterTables' = AfterTables /\ AfterBitmap' = AfterBitmap
        /\ FitsPool' <=> FitsPool
        /\ FitsBelowHole' <=> FitsBelowHole
    BY <1>1, SizesKept
  <1>6. n \in 0 .. BitmapPages
    <2>1. machine.pages \in Nat
      BY <1>3, MachineAssumption
    <2>2. BitmapSize \in Nat
      BY <2>1 DEF BitmapSize, CeilDiv
    <2> QED
      BY <1>3, <2>2, FillStaysInside DEF BitmapPages
  <1> HIDE DEF n
  <1>7. DOMAIN owner' = Pages
    BY <1>1, <1>2, UseEffect DEF TypeOK
  <1>8. pc' \in {"heap", "fault"}
    BY <1>1
  <1>9. TypeOK' /\ World' /\ Found'
    BY <1>1, <1>2, <1>7, <1>8, FoundKept DEF TypeOK, World
  <1>10. Cursor'
    <2>1. FitsPool => next_free = AfterBitmap + k
      BY <1>3, <1>4, Layout DEF AfterBitmap, AfterTables
    <2> QED
      BY <1>1, <1>3, <1>5, <1>8, <2>1 DEF Cursor
  <1>11. MapStored'
    BY <1>1, <1>2, <1>3, <1>8 DEF MapStored
  <1>12. ASSUME FitsBelowHole
         PROVE  Tidy'
    <2>1. Tidy
      BY <1>12 DEF BootInv
    <2>2. next_free = AfterBitmap /\ mem_bitmap = AfterTables
      BY <1>3, <1>4, <1>12, Layout
    <2>3. /\ AfterTables \in Nat /\ AfterBitmap = AfterTables + BitmapPages
          /\ AfterBitmap \in Nat /\ AfterBitmap <= 156 /\ POOL_START <= AfterTables
      BY <1>4, <1>12, Layout DEF AfterBitmap, AfterTables
    <2>4. \A p \in ps : /\ p \in AfterTables .. next_free - 1 /\ p \in Pages
                        /\ p \notin HOLE /\ p < next_free
      <3> SUFFICES ASSUME NEW p \in AfterTables .. AfterTables + n - 1
                   PROVE  /\ p \in AfterTables .. next_free - 1 /\ p \in Pages
                          /\ p \notin HOLE /\ p < next_free
        BY <2>2
      <3>1. p \in Nat /\ p < AfterBitmap /\ p < 160
        BY <1>4, <1>6, <2>3
      <3> QED
        BY <2>2, <2>3, <3>1, Layout
    <2>5. Use(ps, "bitmap") /\ pc' = "heap"
      BY <1>1, <2>4
    <2> HIDE DEF ps
    <2>6. /\ \A p \in Pages : p \notin ps => owner'[p] = owner[p]
          /\ (\A q \in ps : owner[q] \in {"none", "bitmap"}) => clash' = clash
      BY <2>5, UseEffect
    <2>7. clash' = {}
      <3>1. \A q \in ps : owner[q] = "bitmap"
        BY <1>1, <2>1, <2>4 DEF Tidy
      <3> QED
        BY <2>1, <2>6, <3>1 DEF Tidy
    <2>8. \A p \in HOLE : owner'[p] = IF p = VGA THEN "screen" ELSE "device"
      <3>1. \A p \in HOLE : owner'[p] = owner[p]
        BY <2>4, <2>6, Layout
      <3> QED
        BY <2>1, <3>1 DEF Tidy
    <2>9. \A p \in next_free .. 159 : owner'[p] = "none"
      <3> SUFFICES ASSUME NEW p \in next_free .. 159 PROVE owner'[p] = "none"
        OBVIOUS
      <3>1. p \in Pages /\ ~(p < next_free)
        BY <2>2, <2>3, Layout
      <3>2. Ahead(p)
        BY <1>1, <2>1 DEF Tidy
      <3>3. owner[p] = "none"
        BY <1>1, <3>2 DEF Ahead
      <3> QED
        BY <2>4, <2>6, <3>1, <3>3
    <2>10. ~(k' > 0)
      BY <1>1, <1>3
    <2> QED
      BY <1>1, <1>5, <2>5, <2>7, <2>8, <2>9, <2>10 DEF Tidy, Ahead
  <1> QED
    BY <1>5, <1>8, <1>9, <1>10, <1>11, <1>12 DEF BootInv

LEMMA HeapInitKeepsInv ==
    BootInv /\ heap_init => BootInv'
  <1> SUFFICES ASSUME BootInv, heap_init PROVE BootInv'
    OBVIOUS
  <1> USE DEF Booting, BeforePaging, Loading, Reading, Over
  <1>1. /\ pc = "heap_init"
        /\ IF heap_start = NULL
           THEN pc' = "fault" /\ UNCHANGED <<owner, clash>>
           ELSE Use({heap_start}, "heap") /\ pc' = "clear_screen"
        /\ UNCHANGED <<disk, machine, sector, mmap_entry_count, k, next_free, mem_bitmap,
                       heap_start, heap_end>>
    BY DEF heap_init, world, globals
  <1>2. TypeOK /\ World /\ Cursor /\ MapStored /\ Found
    BY DEF BootInv
  <1>3. /\ machine \in Machines /\ mmap_entry_count \in 0 .. machine.entries
        /\ mmap_entry_count = machine.entries
        /\ FitsPool => /\ next_free = AfterBitmap + 4 /\ heap_start = AfterBitmap
                       /\ heap_end = next_free
    BY <1>1, <1>2 DEF World, MapStored, Cursor
  <1>4. /\ MapPages \in Nat /\ BitmapPages \in Nat
        /\ FitsPool <=> POOL_START + 9 + MapPages + BitmapPages < POOL_END
        /\ FitsBelowHole <=> POOL_START + 9 + MapPages + BitmapPages <= 160
    BY <1>3, Sizes
  <1>5. /\ MapPages' = MapPages /\ BitmapPages' = BitmapPages
        /\ AfterTables' = AfterTables /\ AfterBitmap' = AfterBitmap
        /\ FitsPool' <=> FitsPool
        /\ FitsBelowHole' <=> FitsBelowHole
    BY <1>1, SizesKept
  <1>6. DOMAIN owner' = Pages
    BY <1>1, <1>2, UseEffect DEF TypeOK
  <1>7. pc' \in {"clear_screen", "fault"}
    BY <1>1
  <1>8. TypeOK' /\ World' /\ Found'
    BY <1>1, <1>2, <1>6, <1>7, FoundKept DEF TypeOK, World
  <1>9. Cursor'
    BY <1>1, <1>3, <1>5, <1>7 DEF Cursor
  <1>10. MapStored'
    BY <1>1, <1>2, <1>3, <1>7 DEF MapStored
  <1>11. ASSUME FitsBelowHole
         PROVE  Tidy'
    <2>1. Tidy
      BY <1>11 DEF BootInv
    <2>2. /\ heap_start = AfterBitmap /\ AfterBitmap \in Pages /\ AfterBitmap < 160
          /\ heap_start # NULL
      BY <1>3, <1>4, <1>11, Layout DEF AfterBitmap, AfterTables
    <2>3. Use({heap_start}, "heap") /\ pc' = "clear_screen"
      BY <1>1, <2>2
    <2>4. owner[heap_start] = "heap"
      BY <1>1, <2>1, <2>2 DEF Tidy
    <2>5. /\ \A p \in Pages : p \notin {heap_start} => owner'[p] = owner[p]
          /\ (\A q \in {heap_start} : owner[q] \in {"none", "heap"}) => clash' = clash
      BY <2>3, UseEffect
    <2>6. clash' = {}
      BY <2>1, <2>4, <2>5 DEF Tidy
    <2>7. \A p \in HOLE : owner'[p] = IF p = VGA THEN "screen" ELSE "device"
      <3>1. \A p \in HOLE : p \in Pages /\ p \notin {heap_start}
        BY <2>2, Layout
      <3>2. \A p \in HOLE : owner'[p] = owner[p]
        BY <2>5, <3>1
      <3> QED
        BY <2>1, <3>2 DEF Tidy
    <2> QED
      BY <2>3, <2>6, <2>7 DEF Tidy
  <1> QED
    BY <1>5, <1>7, <1>8, <1>9, <1>10, <1>11 DEF BootInv

(* Video memory is the screen's, unless the pool has grown into it.        *)
LEMMA ClearScreenKeepsInv ==
    BootInv /\ ClearScreen => BootInv'
  <1> SUFFICES ASSUME BootInv, ClearScreen PROVE BootInv'
    OBVIOUS
  <1> USE DEF Booting, BeforePaging, Loading, Reading, Over
  <1>1. /\ pc = "clear_screen" /\ pc' = "done" /\ Use({VGA}, "screen")
        /\ UNCHANGED <<disk, machine, sector, mmap_entry_count, k, next_free, mem_bitmap,
                       heap_start, heap_end>>
    BY DEF ClearScreen, world, globals
  <1>2. TypeOK /\ World /\ Cursor /\ MapStored /\ Found
    BY DEF BootInv
  <1>3. /\ MapPages' = MapPages /\ BitmapPages' = BitmapPages
        /\ AfterTables' = AfterTables /\ AfterBitmap' = AfterBitmap
        /\ FitsPool' <=> FitsPool
        /\ FitsBelowHole' <=> FitsBelowHole
    BY <1>1, SizesKept
  <1>4. /\ DOMAIN owner' = Pages
        /\ \A p \in Pages : p \in {VGA} => owner'[p] = "screen"
        /\ \A p \in Pages : p \notin {VGA} => owner'[p] = owner[p]
        /\ (\A q \in {VGA} : owner[q] \in {"none", "screen"}) => clash' = clash
    BY <1>1, UseEffect
  <1>5. TypeOK' /\ World' /\ Found'
    BY <1>1, <1>2, <1>4, FoundKept DEF TypeOK, World
  <1>6. Cursor'
    BY <1>1, <1>2, <1>3 DEF Cursor
  <1>7. MapStored'
    BY <1>1, <1>2 DEF MapStored
  <1>8. ASSUME FitsBelowHole
        PROVE  Tidy'
    <2>1. Tidy
      BY <1>8 DEF BootInv
    <2>2. owner[VGA] = "screen"
      BY <2>1, Layout DEF Tidy
    <2>3. clash' = {}
      BY <1>4, <2>1, <2>2 DEF Tidy
    <2>4. \A p \in HOLE : owner'[p] = IF p = VGA THEN "screen" ELSE "device"
      <3>1. \A p \in HOLE : owner'[p] = owner[p]
        BY <1>4, <2>2, Layout
      <3> QED
        BY <2>1, <3>1 DEF Tidy
    <2> QED
      BY <1>1, <2>3, <2>4 DEF Tidy
  <1> QED
    BY <1>1, <1>3, <1>5, <1>6, <1>7, <1>8 DEF BootInv
-----------------------------------------------------------------------------
LEMMA StutterKeepsInv ==
    BootInv /\ UNCHANGED vars => BootInv'
  <1> SUFFICES ASSUME BootInv, UNCHANGED vars PROVE BootInv'
    OBVIOUS
  <1> USE DEF vars, world, globals
  <1>1. /\ MapPages' = MapPages /\ BitmapPages' = BitmapPages
        /\ AfterTables' = AfterTables /\ AfterBitmap' = AfterBitmap
        /\ FitsPool' <=> FitsPool
        /\ FitsBelowHole' <=> FitsBelowHole
    BY SizesKept
  <1>2. TypeOK' /\ World'
    BY DEF BootInv, TypeOK, World
  <1>3. Found'
    BY DEF BootInv, Found, Supported, KernelStart, RootStart, CeilDiv
  <1>4. Cursor'
    BY <1>1 DEF BootInv, Cursor
  <1>5. MapStored'
    BY <1>1 DEF BootInv, MapStored
  <1>6. Tidy => Tidy'
    BY <1>1 DEF Tidy, Ahead
  <1> QED
    BY <1>1, <1>2, <1>3, <1>4, <1>5, <1>6 DEF BootInv

(* The invariant is inductive.                                             *)
THEOREM BootInvariant == Spec => []BootInv
  <1>1. Init => BootInv
    BY InitBootInv
  <1>2. BootInv /\ [Next]_vars => BootInv'
    BY ReadsKeepInv, GetMmapKeepsInv, InitPtKeepsInv, Entry64KeepsInv, TakePageKeepsInv,
       TakenAllKeepsInv, PagingInitKeepsInv, FillBitmapKeepsInv, HeapInitKeepsInv,
       ClearScreenKeepsInv, StutterKeepsInv
       DEF Next, Loader, Kernel, Stopped
  <1> QED
    BY <1>1, <1>2, PTL DEF Spec

(* next_free never leaves the pool, and heap and bitmap pointers are pages *)
(* of the kernel's region or NULL.                                         *)
THEOREM BootTypeCorrect == Spec => []TypeOK
  <1>1. BootInv => TypeOK
    BY DEF BootInv
  <1> QED
    BY <1>1, BootInvariant, PTL

(* The loader's 16-bit arithmetic and tochs find the first sector of the   *)
(* kernel's file on every supported disk.                                  *)
THEOREM BootKernelFound == Spec => []KernelFound
  <1>1. BootInv => KernelFound
    BY DEF BootInv, Found, KernelFound, Reading
  <1> QED
    BY <1>1, BootInvariant, PTL

(* Loader and kernel, who never talk about it, put no page to two uses as  *)
(* long as what the kernel takes ends below video memory.                  *)
THEOREM BootPagesDisjoint == Spec => []PagesDisjoint
  <1>1. BootInv => PagesDisjoint
    BY DEF BootInv, PagesDisjoint, Tidy
  <1> QED
    BY <1>1, BootInvariant, PTL

(* The memory map is complete, and in pages of its own that alloc_page has *)
(* passed, whenever pmm_init may read it.                                  *)
THEOREM BootMapKept == Spec => []MapKept
  <1>1. BootInv => MapKept
    <2> SUFFICES ASSUME BootInv, pc \in {"tables", "paging_init", "bitmap", "fill_bitmap"}
                 PROVE  /\ mmap_entry_count = machine.entries
                        /\ \A p \in MMAP_PAGE ..
                              MMAP_PAGE + (MMAP_ENTRY_SIZE * machine.entries - 1) \div PAGE_SIZE :
                                owner[p] = "mmap" /\ p < next_free
      BY DEF MapKept
    <2> USE DEF Booting, BeforePaging, Loading, Reading, Over
    <2>1. /\ machine \in Machines /\ mmap_entry_count \in 0 .. machine.entries
          /\ mmap_entry_count = machine.entries
          /\ \A p \in MMAP_PAGE .. MMAP_PAGE + MapPages - 1 : owner[p] = "mmap"
      BY DEF BootInv, World, MapStored
    <2>2. machine.entries \in Nat
      BY <2>1, MachineAssumption
    <2>3. (MMAP_ENTRY_SIZE * machine.entries - 1) \div PAGE_SIZE = MapPages - 1
      <3> DEFINE bytes == MMAP_ENTRY_SIZE * machine.entries
      <3>1. bytes \in Nat /\ PAGE_SIZE \in Nat \ {0}
        BY <2>2, Layout DEF MMAP_ENTRY_SIZE
      <3> HIDE DEF bytes
      <3>2. (bytes - 1) \div PAGE_SIZE = CeilDiv(bytes, PAGE_SIZE) - 1
        BY <3>1, CeilDivLast
      <3> QED
        BY <2>1, <3>2 DEF MapPages, bytes
    <2>4. MapPages \in Nat
      BY <2>1, Sizes
    <2>5. MMAP_PAGE + MapPages <= next_free
      BY <2>4, Layout DEF BootInv, TypeOK, Cursor, AfterTables
    <2>6. next_free \in Nat
      BY Layout DEF BootInv, TypeOK
    <2>7. \A p \in MMAP_PAGE .. MMAP_PAGE + MapPages - 1 : p < next_free
      BY <2>4, <2>5, <2>6, Layout
    <2> QED
      BY <2>1, <2>3, <2>4, <2>7, Layout
  <1> QED
    BY <1>1, BootInvariant, PTL

(* heap_start and heap_end delimit exactly the four pages taken for the    *)
(* heap, unless the pool is too small.                                     *)
THEOREM BootHeapBacked == Spec => []HeapBacked
  <1>1. BootInv => HeapBacked
    <2> SUFFICES ASSUME BootInv, pc \in {"heap_init", "clear_screen", "done"}, FitsPool,
                        NEW p \in Pages
                 PROVE  p \in heap_start .. heap_end - 1
                           <=> p \in next_free - 4 .. next_free - 1
      BY DEF HeapBacked
    <2>1. next_free = AfterBitmap + 4 /\ heap_start = AfterBitmap /\ heap_end = next_free
      BY DEF BootInv, Cursor
    <2>2. MapPages \in Nat /\ BitmapPages \in Nat
      BY Sizes DEF BootInv, World, MapStored
    <2>3. AfterBitmap \in Nat
      BY <2>2, Layout DEF AfterBitmap, AfterTables
    <2>4. heap_start = next_free - 4
      BY <2>1, <2>3
    <2> QED
      BY <2>1, <2>4
  <1> QED
    BY <1>1, BootInvariant, PTL
=============================================================================
