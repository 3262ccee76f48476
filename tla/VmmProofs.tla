----------------------------- MODULE VmmProofs -----------------------------
(***************************************************************************)
(* Proofs about the page tables, for every size of table and of memory and *)
(* every set of pages programs are mapped at.                              *)
(***************************************************************************)
EXTENDS Vmm, FiniteSetTheorems, WellFoundedInduction, TLAPS

Idx == 0 .. N - 1
EntryType == [f : Frames, fl : SUBSET Flags]
Memory == [Frames -> [Idx -> EntryType]]

(* The kernel's tables below its pml4t, and the page and the frame of the  *)
(* program's pml4t.                                                        *)
K1 == pml4t + 1
K2 == pml4t + 2
K3 == pml4t + 3
TaskVa == <<N - 1, N - 2, 1, 0>>
TaskFrame == N

Linked(m, t, x) == Present(m[t][x])

(* The entries on the way to page v, and whether the first d are present.  *)
E1(m, root, v) == m[root][v[1]]
E2(m, root, v) == m[E1(m, root, v).f][v[2]]
E3(m, root, v) == m[E2(m, root, v).f][v[3]]
E4(m, root, v) == m[E3(m, root, v).f][v[4]]
Way1(m, root, v) == Present(E1(m, root, v))
Way2(m, root, v) == Way1(m, root, v) /\ Present(E2(m, root, v))
Way3(m, root, v) == Way2(m, root, v) /\ Present(E3(m, root, v))
Way4(m, root, v) == Way3(m, root, v) /\ Present(E4(m, root, v))
-----------------------------------------------------------------------------
(* What each frame is for, as far as the tables say: 1 a pml4t, 2 to 4 a   *)
(* table of that level, 5 a page, 0 nothing.  K3, whose last entry         *)
(* temp_map moves about, counts as a table that maps nothing.              *)
RoleType(r) == r \in [Frames -> 0 .. 5]

RoleRoots(r, tk) == \A f \in Frames : r[f] = 1 <=> (f = pml4t \/ (f = tk /\ tk # NULL))

RoleKernel(r) ==
    /\ r[K1] = 2 /\ r[K2] = 3 /\ r[K3] = 4
    /\ \A f \in KernelFrames : r[f] # 0 => f \in {pml4t, K1, K2, K3}

(* An entry of a table points one level down; of a page table, at a page,  *)
(* at the frame that stands for NULL or at the program's pml4t.            *)
RoleDown(r, m) ==
    \A t \in Frames : \A x \in Idx :
        r[t] \in 1 .. 3 /\ Linked(m, t, x) => r[m[t][x].f] = r[t] + 1
RoleLeaf(r, m, tk) ==
    \A t \in Frames : \A x \in Idx :
        r[t] = 4 /\ t # K3 /\ Linked(m, t, x) => r[m[t][x].f] = 5 \/ m[t][x].f \in {NULL, tk}

(* A frame with a role is linked.                                          *)
RoleUp(r, m) ==
    \A f \in Frames : r[f] \in 2 .. 5 =>
        \E t \in Frames : \E x \in Idx :
            r[t] = r[f] - 1 /\ t # K3 /\ Linked(m, t, x) /\ m[t][x].f = f

(* And linked once, but for the kernel's half, which two pml4t share.      *)
RoleOnce(r, m) ==
    \A t, u \in Frames : \A x, y \in Idx :
        /\ r[t] \in 1 .. 4 /\ t # K3 /\ Linked(m, t, x)
        /\ r[u] \in 1 .. 4 /\ u # K3 /\ Linked(m, u, y)
        /\ m[t][x].f = m[u][y].f
        => \/ t = u /\ x = y
           \/ r[t] = 1 /\ r[u] = 1 /\ x = N - 1 /\ y = N - 1
           \/ m[t][x].f = NULL

(* Below the program's half, every table lets user mode through.           *)
RoleUser(r, m, tk) ==
    /\ \A t \in Frames : \A x \in Idx :
          (r[t] = 2 /\ t # K1) \/ (r[t] = 3 /\ t # K2) =>
              (Linked(m, t, x) => "U" \in m[t][x].fl)
    /\ tk # NULL => /\ m[tk][N - 1] = Rw(K1)
                    /\ \A x \in 0 .. N - 2 : Linked(m, tk, x) => "U" \in m[tk][x].fl

Roles(r, m, tk) ==
    /\ RoleType(r) /\ RoleRoots(r, tk) /\ RoleKernel(r) /\ RoleDown(r, m)
    /\ RoleLeaf(r, m, tk) /\ RoleUp(r, m) /\ RoleOnce(r, m) /\ RoleUser(r, m, tk)

(* The kernel's tables are as paging_init left them, but for the entry of  *)
(* the table that maps the program's pml4t.                                *)
KernelTables(m, tk) ==
    /\ m[pml4t][N - 1] = Rw(K1) /\ \A x \in Idx : Linked(m, pml4t, x) => x = N - 1
    /\ m[K1][N - 2] = Rw(K2) /\ \A x \in Idx : Linked(m, K1, x) => x = N - 2
    /\ m[K2][0] = Rw(K3) /\ \A x \in Idx : Linked(m, K2, x) => x \in {0, 1}
    /\ \A x \in 0 .. N - 2 : m[K3][x] = Rw(x)
    /\ tk # NULL => /\ tk = TaskFrame
                    /\ Way4(m, pml4t, TaskVa) /\ E4(m, pml4t, TaskVa).f = TaskFrame
-----------------------------------------------------------------------------
(* The call of map_page that is under way, and where it stands: the first  *)
(* levels are there.                                                       *)
TaskCall ==
    /\ task = NULL
    /\ call = [root |-> pml4t, va |-> TaskVa, f |-> TaskFrame, fl |-> {"P", "W"},
               then |-> "task"]
UserCall ==
    /\ task # NULL
    /\ call.va \in UserVas /\ call.fl \in UserFlags /\ call.f \in Frames
    /\ call = [root |-> task, va |-> call.va, f |-> call.f, fl |-> call.fl, then |-> "idle"]

OnTheWay ==
    \/ level = 1 /\ tab = call.root
    \/ level = 2 /\ Way1(mem, call.root, call.va) /\ tab = E1(mem, call.root, call.va).f
    \/ level = 3 /\ Way2(mem, call.root, call.va) /\ tab = E2(mem, call.root, call.va).f
    \/ level = 4 /\ Way3(mem, call.root, call.va) /\ tab = E3(mem, call.root, call.va).f

Calling ==
    /\ pc = "map" =>
          /\ TaskCall \/ UserCall
          /\ OnTheWay
          /\ call.f = NULL => lent0
    /\ pc = "task" =>
          /\ TaskCall
          /\ Way4(mem, pml4t, TaskVa) /\ E4(mem, pml4t, TaskVa).f = TaskFrame
    /\ pc = "idle" => /\ call = NoCall
                      /\ task = NULL => used = KernelFrames /\ ~Linked(mem, K2, 1)

(* The frame map_page is to map has no role yet.                           *)
Pending(r) ==
    pc = "map" => /\ r[call.f] = 0
                  /\ call.f \in KernelFrames \cup lost => call.f = NULL

(* Nor has a frame whose page was mapped over, and it is not the kernel's, *)
(* unless it stands for NULL.                                              *)
Over(r) ==
    \A f \in lost : r[f] = 0 /\ (f \in KernelFrames => f = NULL /\ lent0)

(* The bitmap of pmm.c agrees with the roles.                              *)
Marked(r) == used = KernelFrames \cup {f \in Frames : r[f] # 0} \cup {call.f} \cup lost

(* Each page load_elf has mapped is there with its flags, and the TLB has  *)
(* only translations that are in force, that were when their page was      *)
(* mapped over, or that unmap_page left.                                   *)
AskedFor ==
    \A v \in UserVas \cap DOMAIN asked :
        /\ task # NULL
        /\ Way4(mem, task, v)
        /\ E4(mem, task, v).fl = asked[v] /\ asked[v] \in UserFlags
InForce(e) == Way4(mem, task, e[1]) /\ E4(mem, task, e[1]).f = e[2]
Fresh == \A e \in tlb : task # NULL /\ (e \in stale \/ e[2] \in lost \/ InForce(e))

(* Only a load_elf that was given NULL has mapped frame 0.                 *)
NullLent(r) ==
    ~lent0 => \A t \in Frames : \A x \in Idx :
                 r[t] = 4 /\ t # K3 /\ Linked(mem, t, x) => mem[t][x].f # NULL

Built(r) ==
    /\ Roles(r, mem, task) /\ Pending(r) /\ Over(r) /\ Marked(r) /\ NullLent(r)

(* The inductive invariant.                                                *)
Booting ==
    /\ used = KernelFrames /\ call = NoCall /\ task = NULL /\ tlb = {}
    /\ DOMAIN asked = {} /\ lost = {} /\ ~lent0
VmmInv ==
    /\ TypeOK
    /\ pc = "boot" => Booting
    /\ pc # "boot" => /\ KernelTables(mem, task) /\ Calling /\ AskedFor /\ Fresh
                      /\ \E r \in [Frames -> 0 .. 5] : Built(r)

-----------------------------------------------------------------------------
(* What the assumptions say of the constants.                              *)
LEMMA Constants ==
    /\ N \in Nat /\ 6 <= N /\ NFRAMES \in Nat /\ N < NFRAMES /\ pml4t \in Nat
    /\ {pml4t, K1, K2, K3} \subseteq KernelFrames
    /\ pml4t # K1 /\ pml4t # K2 /\ pml4t # K3 /\ K1 # K2 /\ K1 # K3 /\ K2 # K3
    /\ NULL \in KernelFrames /\ NULL \notin {pml4t, K1, K2, K3} /\ NULL # TaskFrame
    /\ KernelFrames \subseteq Frames
    /\ TaskFrame \in Frames /\ TaskFrame \notin KernelFrames
    /\ {0, 1, N - 2, N - 1} \subseteq Idx /\ N - 2 # N - 1
  BY VmmAssumption DEF pml4t, K1, K2, K3, KernelFrames, Frames, NULL, TaskFrame, Idx

LEMMA UserPages ==
    ASSUME NEW v \in UserVas
    PROVE  /\ v[1] \in 0 .. N - 2 /\ v[1] \in Idx /\ v[1] # N - 1
           /\ v[2] \in Idx /\ v[3] \in Idx /\ v[4] \in Idx
           /\ v = <<v[1], v[2], v[3], v[4]>>
           /\ v # TaskVa
  <1>1. PICK a \in 0 .. N - 2, b \in 0 .. N - 1, c \in 0 .. N - 1, d \in 0 .. N - 1 :
           v = <<a, b, c, d>>
    BY VmmAssumption
  <1>2. N \in Nat
    BY Constants
  <1> QED
    BY <1>1, <1>2 DEF Idx, TaskVa

LEMMA TaskPage ==
    /\ TaskVa[1] = N - 1 /\ TaskVa[2] = N - 2 /\ TaskVa[3] = 1 /\ TaskVa[4] = 0
    /\ KernelVa(TaskFrame) = TaskVa
  <1>1. TaskVa[1] = N - 1 /\ TaskVa[2] = N - 2 /\ TaskVa[3] = 1 /\ TaskVa[4] = 0
    BY DEF TaskVa
  <1>2. N \div N = 1 /\ N % N = 0
    BY Constants
  <1> QED
    BY <1>1, <1>2 DEF KernelVa, TaskFrame, TaskVa

LEMMA FlagFacts ==
    /\ \A fl \in UserFlags : fl \in SUBSET Flags /\ "P" \in fl /\ "U" \in fl
    /\ {"P", "W"} \in SUBSET Flags /\ {"P", "W", "PCD"} \in SUBSET Flags
    /\ \A f : Present(Rw(f)) /\ "U" \notin Rw(f).fl /\ Rw(f).f = f
    /\ ~Present(Zero) /\ Zero.f = 0
    /\ \A f \in Frames : Rw(f) \in EntryType
    /\ Zero \in EntryType
  <1>1. \A fl \in UserFlags : fl \in SUBSET Flags /\ "P" \in fl /\ "U" \in fl
    BY VmmAssumption DEF Flags
  <1>2. {"P", "W"} \in SUBSET Flags /\ {"P", "W", "PCD"} \in SUBSET Flags
    BY DEF Flags
  <1>3. \A f : Present(Rw(f)) /\ "U" \notin Rw(f).fl /\ Rw(f).f = f
    BY DEF Present, Rw
  <1>4. ~Present(Zero) /\ Zero.f = 0
    BY DEF Present, Zero
  <1>5. \A f \in Frames : Rw(f) \in EntryType
    BY <1>2 DEF Rw, EntryType
  <1>6. Zero \in EntryType
    BY Constants DEF Zero, EntryType, NULL
  <1> QED
    BY <1>1, <1>2, <1>3, <1>4, <1>5, <1>6

(* pmm_alloc finds a frame that is not marked, if there is one.            *)
LEMMA PmmAllocFrame ==
    /\ Free = {} => PmmAlloc = NULL
    /\ Free # {} => PmmAlloc \in Free /\ \A g \in Free : PmmAlloc <= g
  <1>1. CASE Free = {}
    BY <1>1 DEF PmmAlloc
  <1>2. CASE Free # {}
    <2> DEFINE R == OpToRel(<, Nat)
    <2>1. Free \subseteq Nat
      BY Constants DEF Free, Frames
    <2>2. IsWellFoundedOn(R, Nat)
      BY NatLessThanWellFounded, Zenon
    <2>3. \A a, b \in Nat : <<a, b>> \in R <=> a < b
      BY DEF OpToRel
    <2> HIDE DEF R
    <2>4. PICK x \in Free : \A y \in Free : ~ (<<y, x>> \in R)
      BY <1>2, <2>1, <2>2, WFMin
    <2>5. ASSUME NEW y \in Free
          PROVE  x <= y
      <3>1. x \in Nat /\ y \in Nat
        BY <2>1
      <3>2. ~(y < x)
        BY <2>3, <2>4, <3>1
      <3> QED
        BY <3>1, <3>2
    <2>6. \E f \in Free : \A g \in Free : f <= g
      BY <2>5
    <2> QED
      BY <1>2, <2>6 DEF PmmAlloc
  <1> QED
    BY <1>1, <1>2

(* Writing one entry of one table, and a whole table.                      *)
LEMMA SetEntry ==
    ASSUME NEW m \in Memory, NEW t \in Frames, NEW x \in Idx, NEW e \in EntryType,
           NEW m2, m2 = [m EXCEPT ![t][x] = e]
    PROVE  /\ m2 \in Memory
           /\ m2[t][x] = e
           /\ \A u \in Frames : \A y \in Idx : u # t \/ y # x => m2[u][y] = m[u][y]
  BY DEF Memory

LEMMA SetTable ==
    ASSUME NEW m \in Memory, NEW t \in Frames, NEW b \in [Idx -> EntryType],
           NEW m2, m2 = [m EXCEPT ![t] = b]
    PROVE  /\ m2 \in Memory
           /\ m2[t] = b
           /\ \A u \in Frames : u # t => m2[u] = m[u]
  BY DEF Memory

(* temp_map moves the last entry of K3, and nothing else.                  *)
LEMMA TempEntry ==
    ASSUME NEW m \in Memory, NEW tk, KernelTables(m, tk), NEW f \in Frames
    PROVE  /\ TempPt(m) = K3
           /\ TempMap(m, f) \in Memory
           /\ \A u \in Frames : \A y \in Idx :
                 u # K3 \/ y # N - 1 => TempMap(m, f)[u][y] = m[u][y]
  <1>1. TempPt(m) = K3
    BY FlagFacts DEF TempPt, KernelTables
  <1> DEFINE e == [f |-> f, fl |-> {"P", "W", "PCD"}]
  <1>2. e \in EntryType
    BY FlagFacts DEF EntryType
  <1>3. TempMap(m, f) = [m EXCEPT ![K3][N - 1] = e]
    BY <1>1 DEF TempMap
  <1> HIDE DEF e
  <1>4. K3 \in Frames /\ N - 1 \in Idx
    BY Constants
  <1> DEFINE m2 == TempMap(m, f)
  <1>5. m2 = [m EXCEPT ![K3][N - 1] = e]
    BY <1>3
  <1> HIDE DEF m2
  <1>6. /\ m2 \in Memory
        /\ \A u \in Frames : \A y \in Idx : u # K3 \/ y # N - 1 => m2[u][y] = m[u][y]
    BY ONLY m \in Memory, <1>2, <1>4, <1>5 DEF Memory
  <1> QED
    BY <1>1, <1>6 DEF m2

-----------------------------------------------------------------------------
(* The way to the program's pml4t is through the kernel's tables.          *)
LEMMA TaskWay ==
    ASSUME NEW m \in Memory, NEW tk, KernelTables(m, tk)
    PROVE  /\ Way2(m, pml4t, TaskVa)
           /\ E1(m, pml4t, TaskVa) = Rw(K1) /\ E1(m, pml4t, TaskVa).f = K1
           /\ E2(m, pml4t, TaskVa) = Rw(K2) /\ E2(m, pml4t, TaskVa).f = K2
           /\ E3(m, pml4t, TaskVa) = m[K2][1]
           /\ Way3(m, pml4t, TaskVa) <=> Linked(m, K2, 1)
           /\ E4(m, pml4t, TaskVa) = m[m[K2][1].f][0]
  <1>1. E1(m, pml4t, TaskVa) = Rw(K1) /\ E1(m, pml4t, TaskVa).f = K1
    BY TaskPage, FlagFacts DEF E1, KernelTables
  <1>2. E2(m, pml4t, TaskVa) = Rw(K2) /\ E2(m, pml4t, TaskVa).f = K2
    BY <1>1, TaskPage, FlagFacts DEF E2, KernelTables
  <1>3. E3(m, pml4t, TaskVa) = m[K2][1]
    BY <1>2, TaskPage DEF E3
  <1>4. E4(m, pml4t, TaskVa) = m[m[K2][1].f][0]
    BY <1>3, TaskPage DEF E4
  <1>5. Way2(m, pml4t, TaskVa)
    BY <1>1, <1>2, FlagFacts DEF Way1, Way2
  <1>6. Way3(m, pml4t, TaskVa) <=> Linked(m, K2, 1)
    BY <1>3, <1>5 DEF Way3, Linked
  <1> QED
    BY <1>1, <1>2, <1>3, <1>4, <1>5, <1>6

(* The kernel's tables hang where paging_init hung them.                   *)
LEMMA KernelLinks ==
    ASSUME NEW m \in Memory, NEW tk, KernelTables(m, tk)
    PROVE  /\ Linked(m, pml4t, N - 1) /\ m[pml4t][N - 1].f = K1
           /\ Linked(m, K1, N - 2) /\ m[K1][N - 2].f = K2
           /\ Linked(m, K2, 0) /\ m[K2][0].f = K3
  BY FlagFacts DEF KernelTables, Linked

LEMMA EntryFrame ==
    ASSUME NEW m \in Memory, NEW t \in Frames, NEW x \in Idx
    PROVE  m[t][x] \in EntryType /\ m[t][x].f \in Frames
  BY DEF Memory, EntryType

(* The way to a page of a program is through tables of its own.            *)
LEMMA UserWay ==
    ASSUME NEW m \in Memory, NEW r, NEW tk \in Frames, tk # NULL,
           Roles(r, m, tk), KernelTables(m, tk), NEW v \in UserVas
    PROVE  /\ r[tk] = 1 /\ tk # pml4t
           /\ Way1(m, tk, v) => /\ E1(m, tk, v).f \in Frames
                                /\ r[E1(m, tk, v).f] = 2 /\ E1(m, tk, v).f # K1
           /\ Way2(m, tk, v) => /\ E2(m, tk, v).f \in Frames
                                /\ r[E2(m, tk, v).f] = 3 /\ E2(m, tk, v).f # K2
           /\ Way3(m, tk, v) => /\ E3(m, tk, v).f \in Frames
                                /\ r[E3(m, tk, v).f] = 4 /\ E3(m, tk, v).f # K3
                                /\ E3(m, tk, v).f # m[K2][1].f
           /\ Way4(m, tk, v) => E4(m, tk, v).f \in Frames
  <1> USE Constants, UserPages, KernelLinks
  <1>1. r[tk] = 1 /\ tk # pml4t
    BY DEF Roles, RoleRoots, KernelTables
  <1>2. /\ r \in [Frames -> 0 .. 5] /\ r[pml4t] = 1 /\ r[K1] = 2 /\ r[K2] = 3 /\ r[K3] = 4
        /\ r[NULL] = 0
    BY DEF Roles, RoleType, RoleRoots, RoleKernel
  <1>3. RoleDown(r, m) /\ RoleOnce(r, m)
    BY DEF Roles
  <1>4. ASSUME Way1(m, tk, v)
        PROVE  /\ E1(m, tk, v).f \in Frames
               /\ r[E1(m, tk, v).f] = 2 /\ E1(m, tk, v).f # K1
    <2>1. Linked(m, tk, v[1]) /\ E1(m, tk, v) = m[tk][v[1]]
      BY <1>4 DEF Way1, E1, Linked
    <2>2. r[m[tk][v[1]].f] = 2
      BY <1>1, <1>3, <2>1 DEF RoleDown
    <2>3. m[tk][v[1]].f # K1
      BY <1>1, <1>2, <1>3, <2>1 DEF RoleOnce
    <2> QED
      BY <2>1, <2>2, <2>3, EntryFrame
  <1>5. ASSUME Way2(m, tk, v)
        PROVE  /\ E2(m, tk, v).f \in Frames
               /\ r[E2(m, tk, v).f] = 3 /\ E2(m, tk, v).f # K2
    <2> DEFINE t == E1(m, tk, v).f
    <2>1. t \in Frames /\ r[t] = 2 /\ t # K1
      BY <1>4, <1>5 DEF Way2
    <2>2. Linked(m, t, v[2]) /\ E2(m, tk, v) = m[t][v[2]]
      BY <1>5 DEF Way2, E2, Linked
    <2> HIDE DEF t
    <2>3. r[m[t][v[2]].f] = 3
      BY <1>3, <2>1, <2>2 DEF RoleDown
    <2>4. m[t][v[2]].f # K2
      BY <1>2, <1>3, <2>1, <2>2 DEF RoleOnce
    <2> QED
      BY <2>1, <2>2, <2>3, <2>4, EntryFrame
  <1>6. ASSUME Way3(m, tk, v)
        PROVE  /\ E3(m, tk, v).f \in Frames
               /\ r[E3(m, tk, v).f] = 4 /\ E3(m, tk, v).f # K3
               /\ E3(m, tk, v).f # m[K2][1].f
    <2> DEFINE t == E2(m, tk, v).f
    <2>1. t \in Frames /\ r[t] = 3 /\ t # K2
      BY <1>5, <1>6 DEF Way3
    <2>2. Linked(m, t, v[3]) /\ E3(m, tk, v) = m[t][v[3]]
      BY <1>6 DEF Way3, E3, Linked
    <2> HIDE DEF t
    <2>3. r[m[t][v[3]].f] = 4
      BY <1>3, <2>1, <2>2 DEF RoleDown
    <2>4. m[t][v[3]].f # NULL
      BY <1>2, <2>3
    <2>5. m[t][v[3]].f # K3
      BY <1>2, <1>3, <2>1, <2>2, <2>4 DEF RoleOnce
    <2>6. Linked(m, K2, 1)
      <3>1. Way3(m, pml4t, TaskVa)
        BY DEF KernelTables, Way4
      <3> QED
        BY <3>1, TaskWay
    <2>7. m[t][v[3]].f # m[K2][1].f
      BY <1>2, <1>3, <2>1, <2>2, <2>4, <2>6 DEF RoleOnce
    <2> QED
      BY <2>1, <2>2, <2>3, <2>5, <2>7, EntryFrame
  <1>7. ASSUME Way4(m, tk, v)
        PROVE  E4(m, tk, v).f \in Frames
    <2>1. E3(m, tk, v).f \in Frames
      BY <1>6, <1>7 DEF Way4
    <2> QED
      BY <2>1, EntryFrame DEF E4
  <1> QED
    BY <1>1, <1>4, <1>5, <1>6, <1>7

(* m2 has every entry that m has in its tables.                            *)
Extends(r, m, m2) ==
    \A t \in Frames : \A x \in Idx :
        r[t] \in 1 .. 4 /\ t # K3 /\ Linked(m, t, x) => m2[t][x] = m[t][x]

(* Then a way that exists in m exists in m2.                               *)
LEMMA WayKept ==
    ASSUME NEW m \in Memory, NEW m2 \in Memory, NEW r, NEW tk \in Frames, tk # NULL,
           Roles(r, m, tk), KernelTables(m, tk), Extends(r, m, m2), NEW v \in UserVas
    PROVE  /\ Way1(m, tk, v) => Way1(m2, tk, v) /\ E1(m2, tk, v) = E1(m, tk, v)
           /\ Way2(m, tk, v) => Way2(m2, tk, v) /\ E2(m2, tk, v) = E2(m, tk, v)
           /\ Way3(m, tk, v) => Way3(m2, tk, v) /\ E3(m2, tk, v) = E3(m, tk, v)
           /\ Way4(m, tk, v) => Way4(m2, tk, v) /\ E4(m2, tk, v) = E4(m, tk, v)
  <1> USE UserPages, Constants
  <1>1. /\ r[tk] = 1
        /\ Way1(m, tk, v) => E1(m, tk, v).f \in Frames /\ r[E1(m, tk, v).f] = 2
        /\ Way2(m, tk, v) => E2(m, tk, v).f \in Frames /\ r[E2(m, tk, v).f] = 3
        /\ Way3(m, tk, v) => /\ E3(m, tk, v).f \in Frames /\ r[E3(m, tk, v).f] = 4
                             /\ E3(m, tk, v).f # K3
    BY UserWay
  <1>2. r[K3] = 4
    BY DEF Roles, RoleKernel
  <1>3. ASSUME Way1(m, tk, v)
        PROVE  Way1(m2, tk, v) /\ E1(m2, tk, v) = E1(m, tk, v)
    <2>1. m2[tk][v[1]] = m[tk][v[1]]
      BY <1>1, <1>2, <1>3 DEF Extends, Way1, E1, Linked
    <2> QED
      BY <1>3, <2>1 DEF Way1, E1
  <1>4. ASSUME Way2(m, tk, v)
        PROVE  Way2(m2, tk, v) /\ E2(m2, tk, v) = E2(m, tk, v)
    <2> DEFINE t == E1(m, tk, v).f
    <2>1. /\ t \in Frames /\ r[t] = 2 /\ Way1(m2, tk, v) /\ E1(m2, tk, v).f = t
      BY <1>1, <1>3, <1>4 DEF Way2
    <2>2. E2(m, tk, v) = m[t][v[2]] /\ E2(m2, tk, v) = m2[t][v[2]]
      BY <2>1 DEF E2
    <2> HIDE DEF t
    <2>3. Linked(m, t, v[2])
      BY <1>4, <2>2 DEF Way2, Linked
    <2>4. m2[t][v[2]] = m[t][v[2]]
      BY <1>2, <2>1, <2>3 DEF Extends
    <2> QED
      BY <1>4, <2>1, <2>2, <2>4 DEF Way2
  <1>5. ASSUME Way3(m, tk, v)
        PROVE  Way3(m2, tk, v) /\ E3(m2, tk, v) = E3(m, tk, v)
    <2> DEFINE t == E2(m, tk, v).f
    <2>1. /\ t \in Frames /\ r[t] = 3 /\ Way2(m2, tk, v) /\ E2(m2, tk, v).f = t
      BY <1>1, <1>4, <1>5 DEF Way3
    <2>2. E3(m, tk, v) = m[t][v[3]] /\ E3(m2, tk, v) = m2[t][v[3]]
      BY <2>1 DEF E3
    <2> HIDE DEF t
    <2>3. Linked(m, t, v[3])
      BY <1>5, <2>2 DEF Way3, Linked
    <2>4. m2[t][v[3]] = m[t][v[3]]
      BY <1>2, <2>1, <2>3 DEF Extends
    <2> QED
      BY <1>5, <2>1, <2>2, <2>4 DEF Way3
  <1>6. ASSUME Way4(m, tk, v)
        PROVE  Way4(m2, tk, v) /\ E4(m2, tk, v) = E4(m, tk, v)
    <2> DEFINE t == E3(m, tk, v).f
    <2>1. /\ t \in Frames /\ r[t] = 4 /\ t # K3
          /\ Way3(m2, tk, v) /\ E3(m2, tk, v).f = t
      BY <1>1, <1>5, <1>6 DEF Way4
    <2>2. E4(m, tk, v) = m[t][v[4]] /\ E4(m2, tk, v) = m2[t][v[4]]
      BY <2>1 DEF E4
    <2> HIDE DEF t
    <2>3. Linked(m, t, v[4])
      BY <1>6, <2>2 DEF Way4, Linked
    <2>4. m2[t][v[4]] = m[t][v[4]]
      BY <2>1, <2>3 DEF Extends
    <2> QED
      BY <1>6, <2>1, <2>2, <2>4 DEF Way4
  <1> QED
    BY <1>3, <1>4, <1>5, <1>6

(* Two pages whose last table and index are the same are the same page.    *)
LEMMA WayUnique ==
    ASSUME NEW m \in Memory, NEW r, NEW tk \in Frames, tk # NULL,
           Roles(r, m, tk), KernelTables(m, tk), NEW v \in UserVas, NEW w \in UserVas,
           Way3(m, tk, v), Way3(m, tk, w),
           E3(m, tk, v).f = E3(m, tk, w).f, v[4] = w[4]
    PROVE  v = w
  <1> USE UserPages, Constants
  <1> DEFINE a1 == E1(m, tk, v).f
             b1 == E1(m, tk, w).f
             a2 == E2(m, tk, v).f
             b2 == E2(m, tk, w).f
  <1>1. Way1(m, tk, v) /\ Way2(m, tk, v) /\ Way1(m, tk, w) /\ Way2(m, tk, w)
    BY DEF Way3, Way2
  <1>2. /\ r[tk] = 1
        /\ a1 \in Frames /\ r[a1] = 2 /\ b1 \in Frames /\ r[b1] = 2
        /\ a2 \in Frames /\ r[a2] = 3 /\ b2 \in Frames /\ r[b2] = 3
        /\ r[E3(m, tk, v).f] = 4
    BY <1>1, UserWay
  <1>3. r[NULL] = 0 /\ r[K3] = 4 /\ RoleOnce(r, m)
    BY DEF Roles, RoleRoots, RoleKernel, RoleType
  <1>4. a1 = m[tk][v[1]].f /\ b1 = m[tk][w[1]].f /\ Linked(m, tk, v[1]) /\ Linked(m, tk, w[1])
    BY <1>1 DEF Way1, E1, Linked
  <1>5. a2 = m[a1][v[2]].f /\ b2 = m[b1][w[2]].f /\ Linked(m, a1, v[2]) /\ Linked(m, b1, w[2])
    BY <1>1 DEF Way2, E2, Linked
  <1>6. /\ m[a2][v[3]].f = m[b2][w[3]].f /\ r[m[a2][v[3]].f] = 4
        /\ Linked(m, a2, v[3]) /\ Linked(m, b2, w[3])
    BY <1>2 DEF Way3, E3, Linked
  <1> HIDE DEF a1, a2, b1, b2
  <1>7. a2 = b2 /\ v[3] = w[3]
    BY <1>2, <1>3, <1>6 DEF RoleOnce
  <1>8. a1 = b1 /\ v[2] = w[2]
    <2>1. m[a1][v[2]].f = m[b1][w[2]].f /\ m[a1][v[2]].f # NULL /\ a1 # K3 /\ b1 # K3
      BY <1>2, <1>3, <1>5, <1>7
    <2> QED
      BY <1>2, <1>3, <1>5, <2>1 DEF RoleOnce
  <1>9. v[1] = w[1]
    <2>1. m[tk][v[1]].f = m[tk][w[1]].f /\ m[tk][v[1]].f # NULL /\ tk # K3
      BY <1>2, <1>3, <1>4, <1>8
    <2>2. v[1] # N - 1
      OBVIOUS
    <2> QED
      BY <1>2, <1>3, <1>4, <2>1, <2>2 DEF RoleOnce
  <1>10. v = <<v[1], v[2], v[3], v[4]>> /\ w = <<w[1], w[2], w[3], w[4]>>
    OBVIOUS
  <1> QED
    BY <1>7, <1>8, <1>9, <1>10

(* The table that maps the program's pml4t.                                *)
LEMMA TaskTable ==
    ASSUME NEW m \in Memory, NEW r, NEW tk \in Frames, Roles(r, m, tk),
           KernelTables(m, tk), Way4(m, pml4t, TaskVa), E4(m, pml4t, TaskVa).f = TaskFrame
    PROVE  /\ Linked(m, K2, 1)
           /\ m[K2][1].f \in Frames /\ r[m[K2][1].f] = 4 /\ m[K2][1].f # K3
           /\ Linked(m, m[K2][1].f, 0) /\ m[m[K2][1].f][0].f = TaskFrame
  <1> USE Constants, KernelLinks
  <1>1. Linked(m, K2, 1) /\ E4(m, pml4t, TaskVa) = m[m[K2][1].f][0]
    BY TaskWay DEF Way4
  <1>2. Linked(m, m[K2][1].f, 0) /\ m[m[K2][1].f][0].f = TaskFrame
    BY <1>1 DEF Way4, Linked
  <1>3. r[K2] = 3 /\ r[NULL] = 0 /\ r[K3] = 4
    BY DEF Roles, RoleKernel, RoleType
  <1>4. m[K2][1].f \in Frames /\ r[m[K2][1].f] = 4
    BY <1>1, <1>3, EntryFrame DEF Roles, RoleDown
  <1>5. m[K2][1].f # K3
    BY <1>1, <1>3, <1>4 DEF Roles, RoleOnce
  <1> QED
    BY <1>1, <1>2, <1>4, <1>5

(* The kernel's tables stay as they are if these entries do.               *)
LEMMA KernelKept ==
    ASSUME NEW m \in Memory, NEW m2 \in Memory, NEW tk, KernelTables(m, tk),
           m2[pml4t][N - 1] = m[pml4t][N - 1], m2[K1][N - 2] = m[K1][N - 2],
           m2[K2][0] = m[K2][0],
           \A x \in Idx : Linked(m2, pml4t, x) => x = N - 1,
           \A x \in Idx : Linked(m2, K1, x) => x = N - 2,
           \A x \in Idx : Linked(m2, K2, x) => x \in {0, 1},
           \A x \in 0 .. N - 2 : m2[K3][x] = m[K3][x],
           tk # NULL => /\ m2[K2][1] = m[K2][1]
                        /\ m2[m[K2][1].f][0] = m[m[K2][1].f][0]
    PROVE  KernelTables(m2, tk)
  <1>1. /\ m2[pml4t][N - 1] = Rw(K1) /\ m2[K1][N - 2] = Rw(K2) /\ m2[K2][0] = Rw(K3)
        /\ \A x \in 0 .. N - 2 : m2[K3][x] = Rw(x)
        /\ tk # NULL => tk = TaskFrame
    BY DEF KernelTables
  <1>2. ASSUME tk # NULL
        PROVE  Way4(m2, pml4t, TaskVa) /\ E4(m2, pml4t, TaskVa).f = TaskFrame
    <2>1. /\ Way4(m, pml4t, TaskVa) /\ E4(m, pml4t, TaskVa).f = TaskFrame
          /\ E3(m, pml4t, TaskVa) = m[K2][1] /\ E4(m, pml4t, TaskVa) = m[m[K2][1].f][0]
      BY <1>2, TaskWay DEF KernelTables
    <2>2. E1(m2, pml4t, TaskVa) = Rw(K1)
      BY <1>1, TaskPage DEF E1
    <2>3. E2(m2, pml4t, TaskVa) = Rw(K2)
      BY <1>1, <2>2, TaskPage, FlagFacts DEF E2
    <2>4. E3(m2, pml4t, TaskVa) = m[K2][1]
      BY <1>2, <2>3, TaskPage, FlagFacts DEF E3
    <2>5. E4(m2, pml4t, TaskVa) = m[m[K2][1].f][0]
      BY <1>2, <2>4, TaskPage DEF E4
    <2>6. Present(m[K2][1]) /\ Present(m[m[K2][1].f][0])
      BY <2>1 DEF Way4, Way3
    <2> QED
      BY <2>1, <2>2, <2>3, <2>4, <2>5, <2>6, FlagFacts DEF Way4, Way3, Way2, Way1
  <1> QED
    BY <1>1, <1>2 DEF KernelTables

(* temp_map changes no role.                                               *)
LEMMA TempKeeps ==
    ASSUME NEW m \in Memory, NEW m2 \in Memory, NEW r, NEW tk \in Frames,
           Roles(r, m, tk), KernelTables(m, tk),
           \A u \in Frames : \A y \in Idx : u # K3 \/ y # N - 1 => m2[u][y] = m[u][y]
    PROVE  /\ Roles(r, m2, tk) /\ KernelTables(m2, tk)
           /\ Extends(r, m, m2) /\ Extends(r, m2, m)
  <1> USE Constants
  <1>1. r[K3] = 4 /\ r \in [Frames -> 0 .. 5]
    BY DEF Roles, RoleKernel, RoleType
  <1>2. \A t \in Frames : t # K3 => \A x \in Idx : m2[t][x] = m[t][x] /\ (Linked(m2, t, x) <=> Linked(m, t, x))
    BY DEF Linked
  <1>3. RoleType(r) /\ RoleRoots(r, tk) /\ RoleKernel(r)
    BY DEF Roles
  <1>4. RoleDown(r, m2)
    BY <1>1, <1>2 DEF Roles, RoleDown
  <1>5. RoleLeaf(r, m2, tk)
    BY <1>1, <1>2 DEF Roles, RoleLeaf
  <1>6. RoleUp(r, m2)
    BY <1>1, <1>2 DEF Roles, RoleUp
  <1>7. RoleOnce(r, m2)
    BY <1>1, <1>2 DEF Roles, RoleOnce
  <1>8. RoleUser(r, m2, tk)
    <2>1. tk # NULL => tk # K3
      BY DEF KernelTables
    <2>2. 0 .. N - 2 \subseteq Idx
      BY DEF Idx
    <2> QED
      BY <1>1, <1>2, <2>1, <2>2 DEF Roles, RoleUser
  <1>9. KernelTables(m2, tk)
    <2>1. /\ m2[pml4t][N - 1] = m[pml4t][N - 1] /\ m2[K1][N - 2] = m[K1][N - 2]
          /\ m2[K2][0] = m[K2][0]
      BY <1>2
    <2>2. /\ \A x \in Idx : Linked(m2, pml4t, x) => x = N - 1
          /\ \A x \in Idx : Linked(m2, K1, x) => x = N - 2
          /\ \A x \in Idx : Linked(m2, K2, x) => x \in {0, 1}
      BY <1>2 DEF KernelTables
    <2>3. \A x \in 0 .. N - 2 : m2[K3][x] = m[K3][x]
      BY DEF Idx
    <2>4. tk # NULL => /\ m2[K2][1] = m[K2][1]
                       /\ m2[m[K2][1].f][0] = m[m[K2][1].f][0]
      BY <1>2, TaskTable DEF KernelTables
    <2> QED
      BY <2>1, <2>2, <2>3, <2>4, KernelKept
  <1>10. Extends(r, m, m2) /\ Extends(r, m2, m)
    BY <1>2 DEF Extends
  <1> QED
    BY <1>3, <1>4, <1>5, <1>6, <1>7, <1>8, <1>9, <1>10 DEF Roles

(* A new table, empty, at an entry of t that was free: the program's own,  *)
(* or the one that is to map its pml4t.                                    *)
TableAdded(m, m2, r, tk, t, x, new, fl) ==
    /\ m \in Memory /\ m2 \in Memory /\ tk \in Frames
    /\ Roles(r, m, tk) /\ KernelTables(m, tk)
    /\ t \in Frames /\ x \in Idx /\ r[t] \in 1 .. 3 /\ ~Linked(m, t, x)
    /\ new \in Frames /\ new \notin KernelFrames /\ r[new] = 0
    /\ fl \in SUBSET Flags /\ "P" \in fl
    /\ \/ tk = NULL /\ t = K2 /\ x = 1
       \/ tk # NULL /\ t \notin {pml4t, K1, K2} /\ "U" \in fl
    /\ m2[t][x] = [f |-> new, fl |-> fl]
    /\ \A y \in Idx : m2[new][y] = Zero
    /\ \A u \in Frames : \A y \in Idx :
           u # new /\ (u # t \/ y # x) /\ (u # K3 \/ y # N - 1) => m2[u][y] = m[u][y]

LEMMA AddTable ==
    ASSUME NEW m, NEW m2, NEW r, NEW tk, NEW t, NEW x, NEW new, NEW fl,
           TableAdded(m, m2, r, tk, t, x, new, fl)
    PROVE  /\ Roles([r EXCEPT ![new] = r[t] + 1], m2, tk)
           /\ KernelTables(m2, tk) /\ Extends(r, m, m2)
  <1> SUFFICES ASSUME m \in Memory, m2 \in Memory, tk \in Frames,
                      Roles(r, m, tk), KernelTables(m, tk),
                      t \in Frames, x \in Idx, r[t] \in 1 .. 3, ~Linked(m, t, x),
                      new \in Frames, new \notin KernelFrames, r[new] = 0,
                      fl \in SUBSET Flags, "P" \in fl,
                      \/ tk = NULL /\ t = K2 /\ x = 1
                      \/ tk # NULL /\ t \notin {pml4t, K1, K2} /\ "U" \in fl,
                      m2[t][x] = [f |-> new, fl |-> fl],
                      \A y \in Idx : m2[new][y] = Zero,
                      \A u \in Frames : \A y \in Idx :
                          u # new /\ (u # t \/ y # x) /\ (u # K3 \/ y # N - 1)
                              => m2[u][y] = m[u][y]
               PROVE  /\ Roles([r EXCEPT ![new] = r[t] + 1], m2, tk)
                      /\ KernelTables(m2, tk) /\ Extends(r, m, m2)
    BY DEF TableAdded
  <1> USE Constants
  <1> DEFINE r2 == [r EXCEPT ![new] = r[t] + 1]
  <1>1. /\ r \in [Frames -> 0 .. 5] /\ r[K1] = 2 /\ r[K2] = 3 /\ r[K3] = 4 /\ r[pml4t] = 1
        /\ r[NULL] = 0 /\ (tk # NULL => r[tk] = 1)
    BY DEF Roles, RoleKernel, RoleType, RoleRoots
  <1>2. t # K3 /\ t # new /\ new # K3 /\ new # tk /\ new # NULL
    BY <1>1
  <1>3. /\ r2 \in [Frames -> 0 .. 5] /\ r2[new] = r[t] + 1
        /\ \A u \in Frames : u # new => r2[u] = r[u]
    BY <1>1
  <1> HIDE DEF r2
  <1>4. Linked(m2, t, x) /\ m2[t][x].f = new /\ m2[t][x].fl = fl
    BY DEF Linked, Present
  <1>5. \A y \in Idx : ~Linked(m2, new, y)
    BY FlagFacts DEF Linked
  <1>6. \A u \in Frames : \A y \in Idx :
           u # new /\ u # K3 /\ (u # t \/ y # x) =>
               m2[u][y] = m[u][y] /\ (Linked(m2, u, y) <=> Linked(m, u, y))
    BY DEF Linked
  <1>7. RoleDown(r, m) /\ RoleLeaf(r, m, tk) /\ RoleUp(r, m) /\ RoleOnce(r, m) /\ RoleUser(r, m, tk)
    BY DEF Roles
  <1>8. \A u \in Frames : \A y \in Idx : m[u][y].f \in Frames /\ m2[u][y].f \in Frames
    BY EntryFrame
  (* No entry of a table points at the new frame yet. *)
  <1>9. \A u \in Frames : \A y \in Idx :
           r[u] \in 1 .. 4 /\ u # K3 /\ Linked(m, u, y) => m[u][y].f # new
    BY <1>1, <1>2, <1>7 DEF RoleDown, RoleLeaf
  <1>10. RoleType(r2)
    BY <1>3 DEF RoleType
  <1>11. RoleRoots(r2, tk)
    BY <1>1, <1>2, <1>3 DEF Roles, RoleRoots
  <1>12. RoleKernel(r2)
    BY <1>1, <1>3 DEF Roles, RoleKernel
  <1>13. RoleDown(r2, m2)
    <2>1. SUFFICES ASSUME NEW u \in Frames, NEW y \in Idx, r2[u] \in 1 .. 3, Linked(m2, u, y)
                   PROVE  r2[m2[u][y].f] = r2[u] + 1
      BY DEF RoleDown
    <2>2. u # new
      BY <1>5, <2>1
    <2>3. r2[u] = r[u] /\ u # K3
      BY <1>1, <1>3, <2>1, <2>2
    <2>4. CASE u = t /\ y = x
      BY <1>2, <1>3, <1>4, <2>4
    <2>5. CASE u # t \/ y # x
      <3>1. m2[u][y] = m[u][y] /\ Linked(m, u, y)
        BY <1>6, <2>1, <2>2, <2>3, <2>5
      <3>2. r[m[u][y].f] = r[u] + 1
        BY <1>7, <2>1, <2>3, <3>1 DEF RoleDown
      <3>3. m[u][y].f # new
        BY <1>9, <2>1, <2>3, <3>1
      <3> QED
        BY <1>3, <1>8, <2>3, <3>1, <3>2, <3>3
    <2> QED
      BY <2>4, <2>5
  <1>14. RoleLeaf(r2, m2, tk)
    <2>1. SUFFICES ASSUME NEW u \in Frames, NEW y \in Idx, r2[u] = 4, u # K3, Linked(m2, u, y)
                   PROVE  r2[m2[u][y].f] = 5 \/ m2[u][y].f \in {NULL, tk}
      BY DEF RoleLeaf
    <2>2. u # new
      BY <1>5, <2>1
    <2>3. r[u] = 4 /\ u # t
      BY <1>3, <2>1, <2>2
    <2>4. m2[u][y] = m[u][y] /\ Linked(m, u, y)
      BY <1>6, <2>1, <2>2, <2>3
    <2>5. r[m[u][y].f] = 5 \/ m[u][y].f \in {NULL, tk}
      BY <1>7, <2>1, <2>3, <2>4 DEF RoleLeaf
    <2>6. m[u][y].f # new
      BY <1>9, <2>1, <2>3, <2>4
    <2> QED
      BY <1>3, <1>8, <2>4, <2>5, <2>6
  <1>15. RoleUp(r2, m2)
    <2>1. SUFFICES ASSUME NEW f \in Frames, r2[f] \in 2 .. 5
                   PROVE  \E u \in Frames : \E y \in Idx :
                              r2[u] = r2[f] - 1 /\ u # K3 /\ Linked(m2, u, y) /\ m2[u][y].f = f
      BY DEF RoleUp
    <2>2. CASE f = new
      <3>1. r2[t] = r2[new] - 1
        BY <1>1, <1>2, <1>3
      <3> QED
        BY <1>2, <1>4, <2>2, <3>1
    <2>3. CASE f # new
      <3>1. r[f] = r2[f]
        BY <1>3, <2>3
      <3>2. PICK u \in Frames, y \in Idx :
               r[u] = r[f] - 1 /\ u # K3 /\ Linked(m, u, y) /\ m[u][y].f = f
        BY <1>7, <2>1, <3>1 DEF RoleUp
      <3>3. r[u] # 0
        BY <1>1, <2>1, <3>1, <3>2
      <3>4. u # new /\ (u # t \/ y # x)
        BY <3>2, <3>3
      <3>5. m2[u][y] = m[u][y] /\ Linked(m2, u, y) /\ r2[u] = r[u]
        BY <1>3, <1>6, <3>2, <3>4
      <3> QED
        BY <3>1, <3>2, <3>5
    <2> QED
      BY <2>2, <2>3
  <1>16. RoleOnce(r2, m2)
    <2>1. SUFFICES ASSUME NEW u \in Frames, NEW w \in Frames, NEW y \in Idx, NEW z \in Idx,
                          r2[u] \in 1 .. 4, u # K3, Linked(m2, u, y),
                          r2[w] \in 1 .. 4, w # K3, Linked(m2, w, z),
                          m2[u][y].f = m2[w][z].f
                   PROVE  \/ u = w /\ y = z
                          \/ r2[u] = 1 /\ r2[w] = 1 /\ y = N - 1 /\ z = N - 1
                          \/ m2[u][y].f = NULL
      BY DEF RoleOnce
    <2>2. u # new /\ w # new /\ r2[u] = r[u] /\ r2[w] = r[w]
      BY <1>3, <1>5, <2>1
    <2>3. (u # t \/ y # x) => m2[u][y] = m[u][y] /\ Linked(m, u, y) /\ m[u][y].f # new
      BY <1>6, <1>9, <2>1, <2>2
    <2>4. (w # t \/ z # x) => m2[w][z] = m[w][z] /\ Linked(m, w, z) /\ m[w][z].f # new
      BY <1>6, <1>9, <2>1, <2>2
    <2>5. CASE u = t /\ y = x
      BY <1>4, <2>1, <2>4, <2>5
    <2>6. CASE w = t /\ z = x
      BY <1>4, <2>1, <2>3, <2>6
    <2>7. CASE (u # t \/ y # x) /\ (w # t \/ z # x)
      BY <1>7, <2>1, <2>2, <2>3, <2>4, <2>7 DEF RoleOnce
    <2> QED
      BY <2>5, <2>6, <2>7
  <1>17. RoleUser(r2, m2, tk)
    <2>1. ASSUME NEW u \in Frames, NEW y \in Idx, Linked(m2, u, y),
                 (r2[u] = 2 /\ u # K1) \/ (r2[u] = 3 /\ u # K2)
          PROVE  "U" \in m2[u][y].fl
      <3>1. u # new /\ r2[u] = r[u] /\ u # K3
        BY <1>1, <1>3, <1>5, <2>1
      <3>2. CASE u = t /\ y = x
        BY <1>1, <1>4, <2>1, <3>1, <3>2
      <3>3. CASE u # t \/ y # x
        BY <1>6, <1>7, <2>1, <3>1, <3>3 DEF RoleUser
      <3> QED
        BY <3>2, <3>3
    <2>2. ASSUME tk # NULL
          PROVE  m2[tk][N - 1] = Rw(K1)
      <3>1. m[tk][N - 1] = Rw(K1) /\ Linked(m, tk, N - 1)
        BY <1>7, <2>2, FlagFacts DEF RoleUser, Linked
      <3>2. tk # new /\ tk # K3 /\ (tk # t \/ N - 1 # x)
        BY <1>1, <1>2, <2>2, <3>1
      <3> QED
        BY <1>6, <3>1, <3>2
    <2>3. ASSUME tk # NULL, NEW y \in 0 .. N - 2, Linked(m2, tk, y)
          PROVE  "U" \in m2[tk][y].fl
      <3>1. tk # new /\ tk # K3 /\ y \in Idx
        BY <1>1, <1>2, <2>3 DEF Idx
      <3>2. CASE tk = t /\ y = x
        BY <1>4, <2>3, <3>2
      <3>3. CASE tk # t \/ y # x
        BY <1>6, <1>7, <2>3, <3>1, <3>3 DEF RoleUser
      <3> QED
        BY <3>2, <3>3
    <2> QED
      BY <2>1, <2>2, <2>3 DEF RoleUser
  <1>18. Extends(r, m, m2)
    <2>1. SUFFICES ASSUME NEW u \in Frames, NEW y \in Idx,
                          r[u] \in 1 .. 4, u # K3, Linked(m, u, y)
                   PROVE  m2[u][y] = m[u][y]
      BY DEF Extends
    <2>2. u # new /\ (u # t \/ y # x)
      BY <2>1
    <2> QED
      BY <1>6, <2>1, <2>2
  <1>19. KernelTables(m2, tk)
    <2>1. \A u \in {pml4t, K1, K2} : u # new /\ u # K3 /\ u \in Frames
      OBVIOUS
    <2>2. /\ m2[pml4t][N - 1] = m[pml4t][N - 1] /\ m2[K1][N - 2] = m[K1][N - 2]
          /\ m2[K2][0] = m[K2][0]
      BY <1>1, <1>18, KernelLinks DEF Extends
    <2>3. /\ \A y \in Idx : Linked(m2, pml4t, y) => y = N - 1
          /\ \A y \in Idx : Linked(m2, K1, y) => y = N - 2
          /\ \A y \in Idx : Linked(m2, K2, y) => y \in {0, 1}
      BY <1>6, <2>1 DEF KernelTables
    <2>4. \A y \in 0 .. N - 2 : m2[K3][y] = m[K3][y]
      BY <1>2 DEF Idx
    <2>5. tk # NULL => /\ m2[K2][1] = m[K2][1]
                       /\ m2[m[K2][1].f][0] = m[m[K2][1].f][0]
      BY <1>1, <1>18, TaskTable DEF KernelTables, Extends
    <2> QED
      BY <2>2, <2>3, <2>4, <2>5, KernelKept
  <1> QED
    BY <1>10, <1>11, <1>12, <1>13, <1>14, <1>15, <1>16, <1>17, <1>18, <1>19 DEF Roles, r2

(* A page at an entry of page table t that was free.                       *)
PageAdded(m, m2, r, tk, t, x, g) ==
    /\ m \in Memory /\ m2 \in Memory /\ tk \in Frames
    /\ Roles(r, m, tk) /\ KernelTables(m, tk)
    /\ t \in Frames /\ x \in Idx /\ r[t] = 4 /\ t # K3 /\ ~Linked(m, t, x)
    /\ g \in Frames /\ r[g] = 0 /\ (g \in KernelFrames => g = NULL)
    /\ Linked(m2, t, x) /\ m2[t][x].f = g
    /\ \A u \in Frames : \A y \in Idx : u # t \/ y # x => m2[u][y] = m[u][y]

LEMMA AddPage ==
    ASSUME NEW m, NEW m2, NEW r, NEW tk, NEW t, NEW x, NEW g,
           PageAdded(m, m2, r, tk, t, x, g)
    PROVE  /\ Roles([r EXCEPT ![g] = IF g = NULL THEN 0 ELSE 5], m2, tk)
           /\ KernelTables(m2, tk) /\ Extends(r, m, m2)
  <1> SUFFICES ASSUME m \in Memory, m2 \in Memory, tk \in Frames,
                      Roles(r, m, tk), KernelTables(m, tk),
                      t \in Frames, x \in Idx, r[t] = 4, t # K3, ~Linked(m, t, x),
                      g \in Frames, r[g] = 0, g \in KernelFrames => g = NULL,
                      Linked(m2, t, x), m2[t][x].f = g,
                      \A u \in Frames : \A y \in Idx : u # t \/ y # x => m2[u][y] = m[u][y]
               PROVE  /\ Roles([r EXCEPT ![g] = IF g = NULL THEN 0 ELSE 5], m2, tk)
                      /\ KernelTables(m2, tk) /\ Extends(r, m, m2)
    BY DEF PageAdded
  <1> USE Constants
  <1> DEFINE r2 == [r EXCEPT ![g] = IF g = NULL THEN 0 ELSE 5]
  <1>1. /\ r \in [Frames -> 0 .. 5] /\ r[K1] = 2 /\ r[K2] = 3 /\ r[K3] = 4 /\ r[pml4t] = 1
        /\ r[NULL] = 0 /\ (tk # NULL => r[tk] = 1)
    BY DEF Roles, RoleKernel, RoleType, RoleRoots
  <1>2. t # g /\ g # K3 /\ (g = tk => g = NULL)
    BY <1>1
  <1>3. /\ r2 \in [Frames -> 0 .. 5] /\ (g # NULL => r2[g] = 5) /\ r2[NULL] = 0
        /\ \A u \in Frames : u # g => r2[u] = r[u]
        /\ \A u \in Frames : r2[u] \in 1 .. 4 => r2[u] = r[u]
        /\ \A u \in Frames : r[u] # 0 => r2[u] = r[u]
    BY <1>1
  <1> HIDE DEF r2
  <1>4. \A u \in Frames : \A y \in Idx :
           u # t \/ y # x => m2[u][y] = m[u][y] /\ (Linked(m2, u, y) <=> Linked(m, u, y))
    BY DEF Linked
  <1>5. RoleDown(r, m) /\ RoleLeaf(r, m, tk) /\ RoleUp(r, m) /\ RoleOnce(r, m) /\ RoleUser(r, m, tk)
    BY DEF Roles
  <1>6. \A u \in Frames : \A y \in Idx : m[u][y].f \in Frames /\ m2[u][y].f \in Frames
    BY EntryFrame
  (* No entry of a table points at the frame yet, unless it is NULL. *)
  <1>7. \A u \in Frames : \A y \in Idx :
           r[u] \in 1 .. 4 /\ u # K3 /\ Linked(m, u, y) => m[u][y].f # g \/ g = NULL
    BY <1>1, <1>2, <1>5 DEF RoleDown, RoleLeaf
  <1>8. RoleType(r2)
    BY <1>3 DEF RoleType
  <1>9. RoleRoots(r2, tk)
    BY <1>1, <1>2, <1>3 DEF Roles, RoleRoots
  <1>10. RoleKernel(r2)
    BY <1>1, <1>3 DEF Roles, RoleKernel
  <1>11. RoleDown(r2, m2)
    <2>1. SUFFICES ASSUME NEW u \in Frames, NEW y \in Idx, r2[u] \in 1 .. 3, Linked(m2, u, y)
                   PROVE  r2[m2[u][y].f] = r2[u] + 1
      BY DEF RoleDown
    <2>2. r2[u] = r[u] /\ u # t
      BY <1>3, <2>1
    <2>3. m2[u][y] = m[u][y] /\ Linked(m, u, y)
      BY <1>4, <2>1, <2>2
    <2>4. r[m[u][y].f] = r[u] + 1
      BY <1>5, <2>1, <2>2, <2>3 DEF RoleDown
    <2>5. r[u] + 1 # 0
      BY <1>1, <2>1, <2>2
    <2> QED
      BY <1>3, <1>6, <2>2, <2>3, <2>4, <2>5
  <1>12. RoleLeaf(r2, m2, tk)
    <2>1. SUFFICES ASSUME NEW u \in Frames, NEW y \in Idx, r2[u] = 4, u # K3, Linked(m2, u, y)
                   PROVE  r2[m2[u][y].f] = 5 \/ m2[u][y].f \in {NULL, tk}
      BY DEF RoleLeaf
    <2>2. CASE u = t /\ y = x
      BY <1>3, <2>2
    <2>3. CASE u # t \/ y # x
      <3>1. r[u] = 4 /\ m2[u][y] = m[u][y] /\ Linked(m, u, y)
        BY <1>3, <1>4, <2>1, <2>3
      <3>2. r[m[u][y].f] = 5 \/ m[u][y].f \in {NULL, tk}
        BY <1>5, <2>1, <3>1 DEF RoleLeaf
      <3> QED
        BY <1>3, <1>6, <3>1, <3>2
    <2> QED
      BY <2>2, <2>3
  <1>13. RoleUp(r2, m2)
    <2>1. SUFFICES ASSUME NEW f \in Frames, r2[f] \in 2 .. 5
                   PROVE  \E u \in Frames : \E y \in Idx :
                              r2[u] = r2[f] - 1 /\ u # K3 /\ Linked(m2, u, y) /\ m2[u][y].f = f
      BY DEF RoleUp
    <2>2. CASE f = g
      <3>1. r2[f] = 5 /\ r2[t] = 4
        BY <1>1, <1>2, <1>3, <2>1, <2>2
      <3> QED
        BY <2>2, <3>1
    <2>3. CASE f # g
      <3>1. r[f] = r2[f]
        BY <1>3, <2>3
      <3>2. PICK u \in Frames, y \in Idx :
               r[u] = r[f] - 1 /\ u # K3 /\ Linked(m, u, y) /\ m[u][y].f = f
        BY <1>5, <2>1, <3>1 DEF RoleUp
      <3>3. r[u] # 0 /\ (u # t \/ y # x)
        BY <1>1, <2>1, <3>1, <3>2
      <3>4. m2[u][y] = m[u][y] /\ Linked(m2, u, y) /\ r2[u] = r[u]
        BY <1>3, <1>4, <3>2, <3>3
      <3> QED
        BY <3>1, <3>2, <3>4
    <2> QED
      BY <2>2, <2>3
  <1>14. RoleOnce(r2, m2)
    <2>1. SUFFICES ASSUME NEW u \in Frames, NEW w \in Frames, NEW y \in Idx, NEW z \in Idx,
                          r2[u] \in 1 .. 4, u # K3, Linked(m2, u, y),
                          r2[w] \in 1 .. 4, w # K3, Linked(m2, w, z),
                          m2[u][y].f = m2[w][z].f
                   PROVE  \/ u = w /\ y = z
                          \/ r2[u] = 1 /\ r2[w] = 1 /\ y = N - 1 /\ z = N - 1
                          \/ m2[u][y].f = NULL
      BY DEF RoleOnce
    <2>2. r2[u] = r[u] /\ r2[w] = r[w]
      BY <1>3, <2>1
    <2>3. (u # t \/ y # x) => m2[u][y] = m[u][y] /\ Linked(m, u, y) /\ (m[u][y].f # g \/ g = NULL)
      BY <1>4, <1>7, <2>1, <2>2
    <2>4. (w # t \/ z # x) => m2[w][z] = m[w][z] /\ Linked(m, w, z) /\ (m[w][z].f # g \/ g = NULL)
      BY <1>4, <1>7, <2>1, <2>2
    <2>5. CASE u = t /\ y = x
      BY <2>1, <2>4, <2>5
    <2>6. CASE w = t /\ z = x
      BY <2>1, <2>3, <2>6
    <2>7. CASE (u # t \/ y # x) /\ (w # t \/ z # x)
      BY <1>5, <2>1, <2>2, <2>3, <2>4, <2>7 DEF RoleOnce
    <2> QED
      BY <2>5, <2>6, <2>7
  <1>15. RoleUser(r2, m2, tk)
    <2>1. ASSUME NEW u \in Frames, NEW y \in Idx, Linked(m2, u, y),
                 (r2[u] = 2 /\ u # K1) \/ (r2[u] = 3 /\ u # K2)
          PROVE  "U" \in m2[u][y].fl
      <3>1. r2[u] = r[u] /\ u # t
        BY <1>1, <1>3, <2>1
      <3> QED
        BY <1>4, <1>5, <2>1, <3>1 DEF RoleUser
    <2>2. tk # NULL => tk # t
      BY <1>1
    <2>3. 0 .. N - 2 \subseteq Idx
      BY DEF Idx
    <2>4. tk # NULL => /\ m2[tk][N - 1] = Rw(K1)
                       /\ \A y \in 0 .. N - 2 : Linked(m2, tk, y) => "U" \in m2[tk][y].fl
      BY <1>4, <1>5, <2>2, <2>3 DEF RoleUser
    <2> QED
      BY <2>1, <2>4 DEF RoleUser
  <1>16. Extends(r, m, m2)
    BY <1>4 DEF Extends
  <1>17. KernelTables(m2, tk)
    <2>1. t \notin {pml4t, K1, K2, K3}
      BY <1>1
    <2>2. /\ m2[pml4t][N - 1] = m[pml4t][N - 1] /\ m2[K1][N - 2] = m[K1][N - 2]
          /\ m2[K2][0] = m[K2][0]
      BY <2>1
    <2>3. /\ \A y \in Idx : Linked(m2, pml4t, y) => y = N - 1
          /\ \A y \in Idx : Linked(m2, K1, y) => y = N - 2
          /\ \A y \in Idx : Linked(m2, K2, y) => y \in {0, 1}
      BY <1>4, <2>1 DEF KernelTables
    <2>4. \A y \in 0 .. N - 2 : m2[K3][y] = m[K3][y]
      BY <2>1 DEF Idx
    <2>5. tk # NULL => /\ m2[K2][1] = m[K2][1]
                       /\ m2[m[K2][1].f][0] = m[m[K2][1].f][0]
      BY <1>1, <1>16, TaskTable DEF KernelTables, Extends
    <2> QED
      BY <2>2, <2>3, <2>4, <2>5, KernelKept
  <1> QED
    BY <1>8, <1>9, <1>10, <1>11, <1>12, <1>13, <1>14, <1>15, <1>16, <1>17 DEF Roles, r2

(* A page, or the frame that stands for NULL, is taken out of page table t. *)
PageDropped(m, m2, r, tk, t, x, g) ==
    /\ m \in Memory /\ m2 \in Memory /\ tk \in Frames
    /\ Roles(r, m, tk) /\ KernelTables(m, tk)
    /\ t \in Frames /\ x \in Idx /\ r[t] = 4 /\ t # K3 /\ Linked(m, t, x)
    /\ g \in Frames /\ (r[g] = 5 \/ g = NULL) /\ m[t][x].f = g
    /\ m2[t][x] = Zero
    /\ \A u \in Frames : \A y \in Idx :
           (u # t \/ y # x) /\ (u # K3 \/ y # N - 1) => m2[u][y] = m[u][y]

LEMMA DropPage ==
    ASSUME NEW m, NEW m2, NEW r, NEW tk, NEW t, NEW x, NEW g,
           PageDropped(m, m2, r, tk, t, x, g)
    PROVE  /\ Roles([r EXCEPT ![g] = 0], m2, tk)
           /\ KernelTables(m2, tk)
  <1> SUFFICES ASSUME m \in Memory, m2 \in Memory, tk \in Frames,
                      Roles(r, m, tk), KernelTables(m, tk),
                      t \in Frames, x \in Idx, r[t] = 4, t # K3, Linked(m, t, x),
                      g \in Frames, r[g] = 5 \/ g = NULL, m[t][x].f = g,
                      m2[t][x] = Zero,
                      \A u \in Frames : \A y \in Idx :
                          (u # t \/ y # x) /\ (u # K3 \/ y # N - 1) => m2[u][y] = m[u][y]
               PROVE  /\ Roles([r EXCEPT ![g] = 0], m2, tk)
                      /\ KernelTables(m2, tk)
    BY DEF PageDropped
  <1> USE Constants
  <1> DEFINE r2 == [r EXCEPT ![g] = 0]
  <1>1. /\ r \in [Frames -> 0 .. 5] /\ r[K1] = 2 /\ r[K2] = 3 /\ r[K3] = 4 /\ r[pml4t] = 1
        /\ r[NULL] = 0 /\ (tk # NULL => r[tk] = 1)
    BY DEF Roles, RoleKernel, RoleType, RoleRoots
  <1>2. /\ r[g] \in {0, 5} /\ (r[g] = 0 => g = NULL)
        /\ t # g /\ g # K3 /\ (tk # NULL => g # tk)
    BY <1>1
  <1>3. /\ r2 \in [Frames -> 0 .. 5] /\ r2[g] = 0
        /\ \A u \in Frames : u # g => r2[u] = r[u]
        /\ \A u \in Frames : r2[u] # 0 => r2[u] = r[u] /\ u # g
    BY <1>1
  <1> HIDE DEF r2
  <1>4. \A u \in Frames : \A y \in Idx :
           u # K3 /\ (u # t \/ y # x) => m2[u][y] = m[u][y] /\ (Linked(m2, u, y) <=> Linked(m, u, y))
    BY DEF Linked
  <1>5. ~Linked(m2, t, x)
    BY FlagFacts DEF Linked
  <1>6. RoleDown(r, m) /\ RoleLeaf(r, m, tk) /\ RoleUp(r, m) /\ RoleOnce(r, m) /\ RoleUser(r, m, tk)
    BY DEF Roles
  <1>7. \A u \in Frames : \A y \in Idx : m[u][y].f \in Frames /\ m2[u][y].f \in Frames
    BY EntryFrame
  (* No other entry of a table points at the frame. *)
  <1>8. \A u \in Frames : \A y \in Idx :
           r[u] \in 1 .. 4 /\ u # K3 /\ Linked(m, u, y) /\ (u # t \/ y # x) => m[u][y].f # g \/ g = NULL
    BY <1>1, <1>2, <1>6 DEF RoleOnce
  <1>9. RoleType(r2) /\ RoleRoots(r2, tk) /\ RoleKernel(r2)
    BY <1>1, <1>2, <1>3 DEF Roles, RoleType, RoleRoots, RoleKernel
  <1>10. RoleDown(r2, m2)
    <2>1. SUFFICES ASSUME NEW u \in Frames, NEW y \in Idx, r2[u] \in 1 .. 3, Linked(m2, u, y)
                   PROVE  r2[m2[u][y].f] = r2[u] + 1
      BY DEF RoleDown
    <2>2. r2[u] = r[u] /\ u # t /\ u # K3
      BY <1>1, <1>3, <2>1
    <2>3. m2[u][y] = m[u][y] /\ Linked(m, u, y)
      BY <1>4, <2>1, <2>2
    <2>4. r[m[u][y].f] = r[u] + 1
      BY <1>6, <2>1, <2>2, <2>3 DEF RoleDown
    <2>5. m[u][y].f # g
      BY <1>1, <1>8, <2>1, <2>2, <2>3, <2>4
    <2> QED
      BY <1>3, <1>7, <2>2, <2>3, <2>4, <2>5
  <1>11. RoleLeaf(r2, m2, tk)
    <2>1. SUFFICES ASSUME NEW u \in Frames, NEW y \in Idx, r2[u] = 4, u # K3, Linked(m2, u, y)
                   PROVE  r2[m2[u][y].f] = 5 \/ m2[u][y].f \in {NULL, tk}
      BY DEF RoleLeaf
    <2>2. r[u] = 4 /\ (u # t \/ y # x)
      BY <1>3, <1>5, <2>1
    <2>3. m2[u][y] = m[u][y] /\ Linked(m, u, y)
      BY <1>4, <2>1, <2>2
    <2>4. r[m[u][y].f] = 5 \/ m[u][y].f \in {NULL, tk}
      BY <1>6, <2>1, <2>2, <2>3 DEF RoleLeaf
    <2>5. m[u][y].f # g \/ m[u][y].f = NULL
      BY <1>8, <2>1, <2>2, <2>3
    <2> QED
      BY <1>3, <1>7, <2>3, <2>4, <2>5
  <1>12. RoleUp(r2, m2)
    <2>1. SUFFICES ASSUME NEW f \in Frames, r2[f] \in 2 .. 5
                   PROVE  \E u \in Frames : \E y \in Idx :
                              r2[u] = r2[f] - 1 /\ u # K3 /\ Linked(m2, u, y) /\ m2[u][y].f = f
      BY DEF RoleUp
    <2>2. r[f] = r2[f] /\ f # g
      BY <1>3, <2>1
    <2>3. PICK u \in Frames, y \in Idx :
             r[u] = r[f] - 1 /\ u # K3 /\ Linked(m, u, y) /\ m[u][y].f = f
      BY <1>6, <2>1, <2>2 DEF RoleUp
    <2>4. u # g /\ (u # t \/ y # x)
      BY <1>1, <2>1, <2>2, <2>3
    <2>5. m2[u][y] = m[u][y] /\ Linked(m2, u, y) /\ r2[u] = r[u]
      BY <1>3, <1>4, <2>3, <2>4
    <2> QED
      BY <2>2, <2>3, <2>5
  <1>13. RoleOnce(r2, m2)
    <2>1. SUFFICES ASSUME NEW u \in Frames, NEW w \in Frames, NEW y \in Idx, NEW z \in Idx,
                          r2[u] \in 1 .. 4, u # K3, Linked(m2, u, y),
                          r2[w] \in 1 .. 4, w # K3, Linked(m2, w, z),
                          m2[u][y].f = m2[w][z].f
                   PROVE  \/ u = w /\ y = z
                          \/ r2[u] = 1 /\ r2[w] = 1 /\ y = N - 1 /\ z = N - 1
                          \/ m2[u][y].f = NULL
      BY DEF RoleOnce
    <2>2. r2[u] = r[u] /\ r2[w] = r[w] /\ (u # t \/ y # x) /\ (w # t \/ z # x)
      BY <1>3, <1>5, <2>1
    <2>3. m2[u][y] = m[u][y] /\ Linked(m, u, y) /\ m2[w][z] = m[w][z] /\ Linked(m, w, z)
      BY <1>4, <2>1, <2>2
    <2> QED
      BY <1>6, <2>1, <2>2, <2>3 DEF RoleOnce
  <1>14. RoleUser(r2, m2, tk)
    <2>1. ASSUME NEW u \in Frames, NEW y \in Idx, Linked(m2, u, y),
                 (r2[u] = 2 /\ u # K1) \/ (r2[u] = 3 /\ u # K2)
          PROVE  "U" \in m2[u][y].fl
      <3>1. r2[u] = r[u] /\ u # t /\ u # K3
        BY <1>1, <1>3, <2>1
      <3> QED
        BY <1>4, <1>6, <2>1, <3>1 DEF RoleUser
    <2>2. tk # NULL => tk # t /\ tk # K3
      BY <1>1
    <2>3. 0 .. N - 2 \subseteq Idx
      BY DEF Idx
    <2>4. tk # NULL => /\ m2[tk][N - 1] = Rw(K1)
                       /\ \A y \in 0 .. N - 2 : Linked(m2, tk, y) => "U" \in m2[tk][y].fl
      BY <1>4, <1>6, <2>2, <2>3 DEF RoleUser
    <2> QED
      BY <2>1, <2>4 DEF RoleUser
  <1>15. KernelTables(m2, tk)
    <2>1. t \notin {pml4t, K1, K2, K3}
      BY <1>1
    <2>2. /\ m2[pml4t][N - 1] = m[pml4t][N - 1] /\ m2[K1][N - 2] = m[K1][N - 2]
          /\ m2[K2][0] = m[K2][0]
      BY <2>1
    <2>3. /\ \A y \in Idx : Linked(m2, pml4t, y) => y = N - 1
          /\ \A y \in Idx : Linked(m2, K1, y) => y = N - 2
          /\ \A y \in Idx : Linked(m2, K2, y) => y \in {0, 1}
      BY <1>4, <2>1 DEF KernelTables
    <2>4. \A y \in 0 .. N - 2 : m2[K3][y] = m[K3][y]
      BY <2>1 DEF Idx
    <2>5. ASSUME tk # NULL
          PROVE  m2[K2][1] = m[K2][1] /\ m2[m[K2][1].f][0] = m[m[K2][1].f][0]
      <3>1. /\ m[K2][1].f \in Frames /\ m[K2][1].f # K3 /\ tk = TaskFrame
            /\ m[m[K2][1].f][0].f = tk
        BY <2>5, TaskTable DEF KernelTables
      <3>2. m[K2][1].f # t \/ 0 # x
        BY <1>2, <3>1
      <3> QED
        BY <1>4, <2>1, <3>1, <3>2
    <2> QED
      BY <2>2, <2>3, <2>4, <2>5, KernelKept
  <1> QED
    BY <1>9, <1>10, <1>11, <1>12, <1>13, <1>14, <1>15 DEF Roles, r2

(* The frame that is mapped at the program's pml4t page becomes a copy of  *)
(* the kernel's pml4t.                                                     *)
RootAdded(m, m2, r) ==
    /\ m \in Memory /\ m2 \in Memory
    /\ Roles(r, m, NULL) /\ KernelTables(m, NULL)
    /\ Way4(m, pml4t, TaskVa) /\ E4(m, pml4t, TaskVa).f = TaskFrame
    /\ \A y \in Idx : m2[TaskFrame][y] = m[pml4t][y]
    /\ \A u \in Frames : \A y \in Idx :
           u # TaskFrame /\ (u # K3 \/ y # N - 1) => m2[u][y] = m[u][y]

LEMMA AddRoot ==
    ASSUME NEW m, NEW m2, NEW r, RootAdded(m, m2, r)
    PROVE  /\ r[TaskFrame] = 5
           /\ Roles([r EXCEPT ![TaskFrame] = 1], m2, TaskFrame)
           /\ KernelTables(m2, TaskFrame)
  <1> SUFFICES ASSUME m \in Memory, m2 \in Memory,
                      Roles(r, m, NULL), KernelTables(m, NULL),
                      Way4(m, pml4t, TaskVa), E4(m, pml4t, TaskVa).f = TaskFrame,
                      \A y \in Idx : m2[TaskFrame][y] = m[pml4t][y],
                      \A u \in Frames : \A y \in Idx :
                          u # TaskFrame /\ (u # K3 \/ y # N - 1) => m2[u][y] = m[u][y]
               PROVE  /\ r[TaskFrame] = 5
                      /\ Roles([r EXCEPT ![TaskFrame] = 1], m2, TaskFrame)
                      /\ KernelTables(m2, TaskFrame)
    BY DEF RootAdded
  <1> USE Constants
  <1> DEFINE tk == TaskFrame
             k4 == m[K2][1].f
             r2 == [r EXCEPT ![tk] = 1]
  <1>1. tk \in Frames /\ tk \notin KernelFrames /\ tk # NULL /\ NULL \in Frames
    OBVIOUS
  <1>2. /\ r \in [Frames -> 0 .. 5] /\ r[K1] = 2 /\ r[K2] = 3 /\ r[K3] = 4 /\ r[pml4t] = 1
        /\ r[NULL] = 0
    BY DEF Roles, RoleKernel, RoleType, RoleRoots
  <1>3. RoleDown(r, m) /\ RoleLeaf(r, m, NULL) /\ RoleUp(r, m) /\ RoleOnce(r, m) /\ RoleUser(r, m, NULL)
    BY DEF Roles
  <1>4. /\ Linked(m, K2, 1) /\ k4 \in Frames /\ r[k4] = 4 /\ k4 # K3
        /\ Linked(m, k4, 0) /\ m[k4][0].f = tk
    BY <1>1, TaskTable
  <1>5. r[tk] = 5
    BY <1>1, <1>3, <1>4 DEF RoleLeaf
  <1>6. /\ \A y \in Idx : m2[tk][y] = m[pml4t][y]
        /\ \A u \in Frames : \A y \in Idx : u # tk /\ u # K3 => m2[u][y] = m[u][y]
    OBVIOUS
  <1>7. /\ m2[tk][N - 1] = Rw(K1) /\ Linked(m2, tk, N - 1) /\ m2[tk][N - 1].f = K1
        /\ \A y \in Idx : Linked(m2, tk, y) => y = N - 1
    BY <1>6, FlagFacts DEF KernelTables, Linked
  <1> HIDE DEF k4
  <1>8. /\ r2 \in [Frames -> 0 .. 5] /\ r2[tk] = 1
        /\ \A u \in Frames : u # tk => r2[u] = r[u]
    BY <1>1, <1>2
  <1> HIDE DEF tk, r2
  <1>9. \A u \in Frames : \A y \in Idx :
           u # tk /\ u # K3 => m2[u][y] = m[u][y] /\ (Linked(m2, u, y) <=> Linked(m, u, y))
    BY <1>6 DEF Linked
  <1>10. \A u \in Frames : \A y \in Idx : m[u][y].f \in Frames /\ m2[u][y].f \in Frames
    BY EntryFrame
  <1>11. RoleType(r2) /\ RoleRoots(r2, tk) /\ RoleKernel(r2)
    <2>1. RoleRoots(r2, tk)
      BY <1>1, <1>2, <1>8 DEF Roles, RoleRoots
    <2>2. RoleKernel(r2)
      BY <1>1, <1>2, <1>8 DEF Roles, RoleKernel
    <2> QED
      BY <1>8, <2>1, <2>2 DEF RoleType
  <1>12. RoleDown(r2, m2)
    <2>1. SUFFICES ASSUME NEW u \in Frames, NEW y \in Idx, r2[u] \in 1 .. 3, Linked(m2, u, y)
                   PROVE  r2[m2[u][y].f] = r2[u] + 1
      BY DEF RoleDown
    <2>2. CASE u = tk
      <3>1. y = N - 1
        BY <1>7, <2>1, <2>2
      <3>2. m2[u][y].f = K1
        BY <1>7, <2>2, <3>1
      <3> QED
        BY <1>1, <1>2, <1>8, <2>2, <3>2
    <2>3. CASE u # tk
      <3>1. r2[u] = r[u] /\ u # K3
        BY <1>2, <1>8, <2>1, <2>3
      <3>2. m2[u][y] = m[u][y] /\ Linked(m, u, y)
        BY <1>9, <2>1, <2>3, <3>1
      <3>3. r[m[u][y].f] = r[u] + 1
        BY <1>3, <2>1, <3>1, <3>2 DEF RoleDown
      <3>4. r[u] + 1 # 5
        BY <2>1, <3>1
      <3>5. m[u][y].f # tk
        BY <1>5, <3>3, <3>4
      <3> QED
        BY <1>8, <1>10, <3>1, <3>2, <3>3, <3>5
    <2> QED
      BY <2>2, <2>3
  <1>13. RoleLeaf(r2, m2, tk)
    <2>1. SUFFICES ASSUME NEW u \in Frames, NEW y \in Idx, r2[u] = 4, u # K3, Linked(m2, u, y)
                   PROVE  r2[m2[u][y].f] = 5 \/ m2[u][y].f \in {NULL, tk}
      BY DEF RoleLeaf
    <2>2. u # tk /\ r[u] = 4
      BY <1>8, <2>1
    <2>3. m2[u][y] = m[u][y] /\ Linked(m, u, y)
      BY <1>9, <2>1, <2>2
    <2>4. r[m[u][y].f] = 5 \/ m[u][y].f = NULL
      BY <1>3, <2>1, <2>2, <2>3 DEF RoleLeaf
    <2> QED
      BY <1>8, <1>10, <2>3, <2>4
  <1>14. RoleUp(r2, m2)
    <2>1. SUFFICES ASSUME NEW f \in Frames, r2[f] \in 2 .. 5
                   PROVE  \E u \in Frames : \E y \in Idx :
                              r2[u] = r2[f] - 1 /\ u # K3 /\ Linked(m2, u, y) /\ m2[u][y].f = f
      BY DEF RoleUp
    <2>2. f # tk /\ r[f] = r2[f]
      BY <1>8, <2>1
    <2>3. PICK u \in Frames, y \in Idx :
             r[u] = r[f] - 1 /\ u # K3 /\ Linked(m, u, y) /\ m[u][y].f = f
      BY <1>3, <2>1, <2>2 DEF RoleUp
    <2>4. r[u] # 5
      BY <1>2, <2>1, <2>2, <2>3
    <2>5. u # tk
      BY <1>5, <2>4
    <2>6. m2[u][y] = m[u][y] /\ Linked(m2, u, y) /\ r2[u] = r[u]
      BY <1>8, <1>9, <2>3, <2>5
    <2> QED
      BY <2>2, <2>3, <2>6
  <1>15. RoleOnce(r2, m2)
    (* In m, only the kernel's pml4t has an entry for K1. *)
    <2>1. ASSUME NEW u \in Frames, NEW y \in Idx, r[u] \in 1 .. 4, u # K3, Linked(m, u, y),
                 m[u][y].f = K1
          PROVE  u = pml4t /\ y = N - 1
      <3>1. Linked(m, pml4t, N - 1) /\ m[pml4t][N - 1].f = K1
        BY KernelLinks
      <3>2. r[u] = 1 => u = pml4t
        BY DEF Roles, RoleRoots
      <3> QED
        BY <1>2, <1>3, <2>1, <3>1, <3>2 DEF RoleOnce
    <2>2. SUFFICES ASSUME NEW u \in Frames, NEW w \in Frames, NEW y \in Idx, NEW z \in Idx,
                          r2[u] \in 1 .. 4, u # K3, Linked(m2, u, y),
                          r2[w] \in 1 .. 4, w # K3, Linked(m2, w, z),
                          m2[u][y].f = m2[w][z].f
                   PROVE  \/ u = w /\ y = z
                          \/ r2[u] = 1 /\ r2[w] = 1 /\ y = N - 1 /\ z = N - 1
                          \/ m2[u][y].f = NULL
      BY DEF RoleOnce
    <2>3. u # tk => r2[u] = r[u] /\ m2[u][y] = m[u][y] /\ Linked(m, u, y)
      BY <1>8, <1>9, <2>2
    <2>4. w # tk => r2[w] = r[w] /\ m2[w][z] = m[w][z] /\ Linked(m, w, z)
      BY <1>8, <1>9, <2>2
    <2>5. pml4t # tk /\ r2[pml4t] = 1
      BY <1>1, <1>2, <1>8
    <2>6. CASE u = tk
      <3>1. y = N - 1 /\ m2[u][y].f = K1
        BY <1>7, <2>2, <2>6
      <3>2. CASE w = tk
        BY <1>7, <2>2, <2>6, <3>1, <3>2
      <3>3. CASE w # tk
        BY <1>8, <2>1, <2>2, <2>4, <2>5, <2>6, <3>1, <3>3
      <3> QED
        BY <3>2, <3>3
    <2>7. CASE u # tk /\ w = tk
      <3>1. z = N - 1 /\ m2[w][z].f = K1
        BY <1>7, <2>2, <2>7
      <3> QED
        BY <1>8, <2>1, <2>2, <2>3, <2>5, <2>7, <3>1
    <2>8. CASE u # tk /\ w # tk
      BY <1>3, <2>2, <2>3, <2>4, <2>8 DEF RoleOnce
    <2> QED
      BY <2>6, <2>7, <2>8
  <1>16. RoleUser(r2, m2, tk)
    <2>1. ASSUME NEW u \in Frames, NEW y \in Idx, Linked(m2, u, y),
                 (r2[u] = 2 /\ u # K1) \/ (r2[u] = 3 /\ u # K2)
          PROVE  "U" \in m2[u][y].fl
      <3>1. u # tk /\ u # K3 /\ r2[u] = r[u]
        BY <1>1, <1>2, <1>8, <2>1
      <3> QED
        BY <1>3, <1>9, <2>1, <3>1 DEF RoleUser
    <2>2. \A y \in 0 .. N - 2 : y \in Idx /\ y # N - 1
      BY DEF Idx
    <2>3. \A y \in 0 .. N - 2 : ~Linked(m2, tk, y)
      BY <1>7, <2>2
    <2> QED
      BY <1>7, <2>1, <2>3 DEF RoleUser
  <1>17. KernelTables(m2, tk)
    <2>0. tk \notin {pml4t, K1, K2, K3}
      BY <1>1
    <2>1. KernelTables(m, tk)
      BY DEF KernelTables, tk
    <2>2. /\ m2[pml4t][N - 1] = m[pml4t][N - 1] /\ m2[K1][N - 2] = m[K1][N - 2]
          /\ m2[K2][0] = m[K2][0]
      BY <1>6, <2>0
    <2>3. /\ \A y \in Idx : Linked(m2, pml4t, y) => y = N - 1
          /\ \A y \in Idx : Linked(m2, K1, y) => y = N - 2
          /\ \A y \in Idx : Linked(m2, K2, y) => y \in {0, 1}
      BY <1>9, <2>0 DEF KernelTables
    <2>4. \A y \in 0 .. N - 2 : m2[K3][y] = m[K3][y]
      BY <2>0 DEF Idx, tk
    <2>5. m2[K2][1] = m[K2][1] /\ m2[k4][0] = m[k4][0]
      <3>1. k4 # tk
        BY <1>4, <1>5
      <3> QED
        BY <1>4, <1>6, <2>0, <3>1
    <2> QED
      BY <2>1, <2>2, <2>3, <2>4, <2>5, KernelKept DEF k4
  <1>18. Roles(r2, m2, tk)
    BY <1>11, <1>12, <1>13, <1>14, <1>15, <1>16 DEF Roles
  <1> QED
    BY <1>5, <1>17, <1>18 DEF r2, tk

(* The roles paging_init gives.                                            *)
FirstRole(f) ==
    IF f = pml4t THEN 1 ELSE IF f = K1 THEN 2 ELSE IF f = K2 THEN 3 ELSE IF f = K3 THEN 4 ELSE 0
FirstRoles == [f \in Frames |-> FirstRole(f)]

LEMMA FirstTables ==
    ASSUME NEW m2 \in Memory,
           m2[pml4t] = [ZeroTable EXCEPT ![N - 1] = Rw(K1)],
           m2[K1] = [ZeroTable EXCEPT ![N - 2] = Rw(K2)],
           m2[K2] = [ZeroTable EXCEPT ![0] = Rw(K3)],
           m2[K3] = [x \in Idx |-> Rw(x)]
    PROVE  Roles(FirstRoles, m2, NULL) /\ KernelTables(m2, NULL) /\ ~Linked(m2, K2, 1)
  <1> USE Constants
  <1> DEFINE r == FirstRoles
  <1>1. /\ m2[pml4t][N - 1] = Rw(K1) /\ \A x \in Idx : x # N - 1 => m2[pml4t][x] = Zero
        /\ m2[K1][N - 2] = Rw(K2) /\ \A x \in Idx : x # N - 2 => m2[K1][x] = Zero
        /\ m2[K2][0] = Rw(K3) /\ \A x \in Idx : x # 0 => m2[K2][x] = Zero
    BY DEF ZeroTable, Idx
  <1>2. \A x \in 0 .. N - 2 : m2[K3][x] = Rw(x)
    BY DEF Idx
  <1>3. /\ \A x \in Idx : Linked(m2, pml4t, x) => x = N - 1
        /\ \A x \in Idx : Linked(m2, K1, x) => x = N - 2
        /\ \A x \in Idx : Linked(m2, K2, x) => x = 0
        /\ Linked(m2, pml4t, N - 1) /\ Linked(m2, K1, N - 2) /\ Linked(m2, K2, 0)
        /\ m2[pml4t][N - 1].f = K1 /\ m2[K1][N - 2].f = K2 /\ m2[K2][0].f = K3
    BY <1>1, FlagFacts DEF Linked
  <1>4. KernelTables(m2, NULL) /\ ~Linked(m2, K2, 1)
    BY <1>1, <1>2, <1>3 DEF KernelTables
  <1>5. /\ r \in [Frames -> 0 .. 5]
        /\ r[pml4t] = 1 /\ r[K1] = 2 /\ r[K2] = 3 /\ r[K3] = 4
        /\ \A f \in Frames : f \notin {pml4t, K1, K2, K3} => r[f] = 0
    BY DEF FirstRoles, FirstRole
  <1> HIDE DEF r
  <1>6. RoleType(r) /\ RoleRoots(r, NULL) /\ RoleKernel(r)
    BY <1>5 DEF RoleType, RoleRoots, RoleKernel
  <1>7. ASSUME NEW t \in Frames, NEW x \in Idx, r[t] \in 1 .. 4, t # K3, Linked(m2, t, x)
        PROVE  \/ t = pml4t /\ x = N - 1
               \/ t = K1 /\ x = N - 2
               \/ t = K2 /\ x = 0
    <2>1. t \in {pml4t, K1, K2}
      BY <1>5, <1>7
    <2> QED
      BY <1>3, <1>7, <2>1
  <1>8. RoleDown(r, m2)
    <2>1. SUFFICES ASSUME NEW t \in Frames, NEW x \in Idx, r[t] \in 1 .. 3, Linked(m2, t, x)
                   PROVE  r[m2[t][x].f] = r[t] + 1
      BY DEF RoleDown
    <2>2. t # K3 /\ r[t] \in 1 .. 4
      BY <1>5, <2>1
    <2>3. \/ t = pml4t /\ x = N - 1
          \/ t = K1 /\ x = N - 2
          \/ t = K2 /\ x = 0
      BY <1>7, <2>1, <2>2
    <2>4. 1 + 1 = 2 /\ 2 + 1 = 3 /\ 3 + 1 = 4
      OBVIOUS
    <2> QED
      BY ONLY <1>3, <1>5, <2>3, <2>4
  <1>9. RoleLeaf(r, m2, NULL)
    BY <1>5, <1>7 DEF RoleLeaf
  <1>10. RoleUp(r, m2)
    <2>1. SUFFICES ASSUME NEW f \in Frames, r[f] \in 2 .. 5
                   PROVE  \E u \in Frames : \E y \in Idx :
                              r[u] = r[f] - 1 /\ u # K3 /\ Linked(m2, u, y) /\ m2[u][y].f = f
      BY DEF RoleUp
    <2>2. f \in {K1, K2, K3}
      BY <1>5, <2>1
    <2>3. CASE f = K1
      <3>1. r[pml4t] = r[K1] - 1 /\ pml4t \in Frames /\ pml4t # K3 /\ N - 1 \in Idx
        BY <1>5
      <3> QED
        BY ONLY <1>3, <2>3, <3>1
    <2>4. CASE f = K2
      <3>1. r[K1] = r[K2] - 1 /\ K1 \in Frames /\ K1 # K3 /\ N - 2 \in Idx
        BY <1>5
      <3> QED
        BY ONLY <1>3, <2>4, <3>1
    <2>5. CASE f = K3
      <3>1. r[K2] = r[K3] - 1 /\ K2 \in Frames /\ K2 # K3 /\ 0 \in Idx
        BY <1>5
      <3> QED
        BY ONLY <1>3, <2>5, <3>1
    <2> QED
      BY <2>2, <2>3, <2>4, <2>5
  <1>11. RoleOnce(r, m2)
    <2>1. SUFFICES ASSUME NEW u \in Frames, NEW w \in Frames, NEW y \in Idx, NEW z \in Idx,
                          r[u] \in 1 .. 4, u # K3, Linked(m2, u, y),
                          r[w] \in 1 .. 4, w # K3, Linked(m2, w, z),
                          m2[u][y].f = m2[w][z].f
                   PROVE  u = w /\ y = z
      BY DEF RoleOnce
    <2>2. \/ u = pml4t /\ y = N - 1
          \/ u = K1 /\ y = N - 2
          \/ u = K2 /\ y = 0
      BY <1>7, <2>1
    <2>3. \/ w = pml4t /\ z = N - 1
          \/ w = K1 /\ z = N - 2
          \/ w = K2 /\ z = 0
      BY <1>7, <2>1
    <2>4. K1 # K2 /\ K1 # K3 /\ K2 # K3
      OBVIOUS
    <2> QED
      BY ONLY <1>3, <2>1, <2>2, <2>3, <2>4
  <1>12. RoleUser(r, m2, NULL)
    BY <1>5 DEF RoleUser
  <1> QED
    BY <1>4, <1>6, <1>8, <1>9, <1>10, <1>11, <1>12 DEF Roles, r

-----------------------------------------------------------------------------
(* The pages map_page is called for: the program's pml4t, in the kernel's  *)
(* tables, and then the pages of the program, in its own.                  *)
Callable(root, v, tk) ==
    \/ root = pml4t /\ v = TaskVa
    \/ tk # NULL /\ root = tk /\ v \in UserVas

LEMMA CallWay ==
    ASSUME NEW m \in Memory, NEW r, NEW tk \in Frames,
           Roles(r, m, tk), KernelTables(m, tk), NEW root, NEW v, Callable(root, v, tk)
    PROVE  /\ root \in Frames /\ r[root] = 1
           /\ v[1] \in Idx /\ v[2] \in Idx /\ v[3] \in Idx /\ v[4] \in Idx
           /\ Way1(m, root, v) => E1(m, root, v).f \in Frames /\ r[E1(m, root, v).f] = 2
           /\ Way2(m, root, v) => E2(m, root, v).f \in Frames /\ r[E2(m, root, v).f] = 3
           /\ Way3(m, root, v) => /\ E3(m, root, v).f \in Frames /\ r[E3(m, root, v).f] = 4
                                  /\ E3(m, root, v).f # K3
           /\ Way4(m, root, v) => E4(m, root, v).f \in Frames
  <1> USE Constants
  <1>1. CASE tk # NULL /\ root = tk /\ v \in UserVas
    BY <1>1, UserWay, UserPages
  <1>2. CASE root = pml4t /\ v = TaskVa
    <2>1. r[pml4t] = 1 /\ r[K1] = 2 /\ r[K2] = 3 /\ r[K3] = 4 /\ r[NULL] = 0
      BY DEF Roles, RoleRoots, RoleKernel, RoleType
    <2>2. v[1] \in Idx /\ v[2] \in Idx /\ v[3] \in Idx /\ v[4] \in Idx
      BY <1>2, TaskPage
    <2>3. /\ E1(m, root, v).f = K1 /\ E2(m, root, v).f = K2 /\ E3(m, root, v) = m[K2][1]
          /\ Way3(m, root, v) <=> Linked(m, K2, 1)
          /\ E4(m, root, v) = m[m[K2][1].f][0]
      BY <1>2, TaskWay
    <2>4. ASSUME Linked(m, K2, 1)
          PROVE  m[K2][1].f \in Frames /\ r[m[K2][1].f] = 4 /\ m[K2][1].f # K3
      <3>1. m[K2][1].f \in Frames /\ r[m[K2][1].f] = 4
        BY <2>1, <2>4, EntryFrame DEF Roles, RoleDown
      <3>2. Linked(m, K2, 0) /\ m[K2][0].f = K3
        BY KernelLinks
      <3> QED
        BY <2>1, <2>4, <3>1, <3>2 DEF Roles, RoleOnce
    <2>5. Way4(m, root, v) => E4(m, root, v).f \in Frames
      BY <2>3, <2>4, EntryFrame DEF Way4
    <2> QED
      BY <1>2, <2>1, <2>2, <2>3, <2>4, <2>5
  <1> QED
    BY <1>1, <1>2 DEF Callable

LEMMA CallWayKept ==
    ASSUME NEW m \in Memory, NEW m2 \in Memory, NEW r, NEW tk \in Frames,
           Roles(r, m, tk), KernelTables(m, tk), Extends(r, m, m2),
           NEW root, NEW v, Callable(root, v, tk)
    PROVE  /\ Way1(m, root, v) => Way1(m2, root, v) /\ E1(m2, root, v) = E1(m, root, v)
           /\ Way2(m, root, v) => Way2(m2, root, v) /\ E2(m2, root, v) = E2(m, root, v)
           /\ Way3(m, root, v) => Way3(m2, root, v) /\ E3(m2, root, v) = E3(m, root, v)
           /\ Way4(m, root, v) => Way4(m2, root, v) /\ E4(m2, root, v) = E4(m, root, v)
  <1> USE Constants
  <1>1. CASE tk # NULL /\ root = tk /\ v \in UserVas
    BY <1>1, WayKept
  <1>2. CASE root = pml4t /\ v = TaskVa
    <2>1. r[pml4t] = 1 /\ r[K1] = 2 /\ r[K2] = 3 /\ r[K3] = 4 /\ r[NULL] = 0
      BY DEF Roles, RoleRoots, RoleKernel, RoleType
    <2>2. m2[pml4t][N - 1] = m[pml4t][N - 1] /\ m2[K1][N - 2] = m[K1][N - 2]
      BY <2>1, KernelLinks DEF Extends
    <2>3. /\ Way2(m, root, v)
          /\ E1(m, root, v) = Rw(K1) /\ E1(m, root, v).f = K1
          /\ E2(m, root, v) = Rw(K2) /\ E2(m, root, v).f = K2
          /\ E3(m, root, v) = m[K2][1]
          /\ Way3(m, root, v) <=> Linked(m, K2, 1)
      BY <1>2, TaskWay
    <2>4. E1(m2, root, v) = E1(m, root, v)
      BY <1>2, <2>2, TaskPage DEF E1
    <2>5. E2(m2, root, v) = E2(m, root, v)
      BY <1>2, <2>2, <2>3, <2>4, TaskPage DEF E2
    <2>6. Way2(m2, root, v)
      BY <2>3, <2>4, <2>5 DEF Way1, Way2
    <2>7. ASSUME Way3(m, root, v)
          PROVE  Way3(m2, root, v) /\ E3(m2, root, v) = E3(m, root, v)
      <3>1. m2[K2][1] = m[K2][1]
        BY <2>1, <2>3, <2>7 DEF Extends
      <3>2. E3(m2, root, v) = E3(m, root, v)
        BY <1>2, <2>3, <2>5, <3>1, TaskPage DEF E3
      <3> QED
        BY <2>6, <2>7, <3>2 DEF Way3
    <2>8. ASSUME Way4(m, root, v)
          PROVE  Way4(m2, root, v) /\ E4(m2, root, v) = E4(m, root, v)
      <3> DEFINE t == E3(m, root, v).f
      <3>1. /\ t \in Frames /\ r[t] = 4 /\ t # K3 /\ v[4] \in Idx
            /\ Way3(m2, root, v) /\ E3(m2, root, v).f = t
        BY <2>7, <2>8, CallWay DEF Way4
      <3>2. E4(m, root, v) = m[t][v[4]] /\ E4(m2, root, v) = m2[t][v[4]]
        BY <3>1 DEF E4
      <3> HIDE DEF t
      <3>3. Linked(m, t, v[4])
        BY <2>8, <3>2 DEF Way4, Linked
      <3>4. m2[t][v[4]] = m[t][v[4]]
        BY <3>1, <3>3 DEF Extends
      <3> QED
        BY <2>8, <3>1, <3>2, <3>4 DEF Way4
    <2> QED
      BY <2>4, <2>5, <2>6, <2>7, <2>8 DEF Way2
  <1> QED
    BY <1>1, <1>2 DEF Callable

(* What the processor makes of a page.                                     *)
LEMMA TranslateWay ==
    ASSUME NEW root, NEW v
    PROVE  /\ Way4(mem, root, v) => Translate(root, v) = E4(mem, root, v).f
           /\ ~Way4(mem, root, v) => Translate(root, v) = Unmapped
           /\ Granted(root, v) = {fl \in {"W", "U"} :
                 /\ fl \in E1(mem, root, v).fl /\ fl \in E2(mem, root, v).fl
                 /\ fl \in E3(mem, root, v).fl /\ fl \in E4(mem, root, v).fl}
  <1> DEFINE es == <<E1(mem, root, v), E2(mem, root, v), E3(mem, root, v), E4(mem, root, v)>>
  <1>1. Levels(root, v) = es
    BY DEF Levels, E1, E2, E3, E4
  <1>2. /\ es[1] = E1(mem, root, v) /\ es[2] = E2(mem, root, v)
        /\ es[3] = E3(mem, root, v) /\ es[4] = E4(mem, root, v)
    OBVIOUS
  <1>3. 1 .. 4 = {1, 2, 3, 4}
    OBVIOUS
  <1> HIDE DEF es
  <1>4. Translate(root, v) = IF Way4(mem, root, v) THEN E4(mem, root, v).f ELSE Unmapped
    BY DEF Translate, Way4, Way3, Way2, Way1, E1, E2, E3, E4
  <1>5. Granted(root, v) = {fl \in {"W", "U"} : \A x \in 1 .. 4 : fl \in es[x].fl}
    BY <1>1 DEF Granted
  <1> QED
    BY <1>2, <1>3, <1>4, <1>5

-----------------------------------------------------------------------------
LEMMA VmmInit == Init => VmmInv
  <1> SUFFICES ASSUME Init
               PROVE  VmmInv
    OBVIOUS
  <1> USE Constants
  <1>1. Junk \in [Idx -> EntryType]
    <2>1. [f |-> 0, fl |-> {"P", "W", "U"}] \in EntryType
      BY DEF EntryType, Flags, NULL
    <2> QED
      BY <2>1 DEF Junk, Idx
  <1>2. mem \in Memory
    BY <1>1 DEF Init, Memory
  <1>3. TypeOK
    <2>1. mem \in [Frames -> [0 .. N - 1 -> [f : Frames, fl : SUBSET Flags]]]
      BY <1>2 DEF Memory, Idx, EntryType
    <2>2. used \subseteq Frames /\ level \in 0 .. 4 /\ tab \in Frames /\ task \in Frames
      BY DEF Init, NULL
    <2>3. /\ tlb \subseteq TouchedVas \X Frames /\ lost \subseteq Frames
          /\ stale \subseteq tlb /\ lent0 \in BOOLEAN
      BY DEF Init
    <2> QED
      BY <2>1, <2>2, <2>3 DEF Init, TypeOK
  <1>4. Booting /\ pc = "boot"
    BY DEF Init, Booting
  <1> QED
    BY <1>3, <1>4 DEF VmmInv

LEMMA PagingInitStep == VmmInv /\ paging_init => VmmInv'
  <1> SUFFICES ASSUME VmmInv, paging_init
               PROVE  VmmInv'
    OBVIOUS
  <1> USE Constants
  <1>1. /\ pc = "boot" /\ pc' = "idle" /\ Booting /\ TypeOK
        /\ UNCHANGED <<used, lent0, call, level, tab, task, tlb, asked, lost, stale>>
    BY DEF paging_init, VmmInv, alloc, walk, history
  <1>2. mem \in Memory
    BY <1>1 DEF TypeOK, Memory, Idx, EntryType
  <1> DEFINE b0 == [ZeroTable EXCEPT ![N - 1] = Rw(K1)]
             b1 == [ZeroTable EXCEPT ![N - 2] = Rw(K2)]
             b2 == [ZeroTable EXCEPT ![0] = Rw(K3)]
             b3 == [x \in Idx |-> Rw(x)]
  <1>3. ZeroTable \in [Idx -> EntryType]
    BY FlagFacts DEF ZeroTable, Idx
  <1>4. Rw(K1) \in EntryType /\ Rw(K2) \in EntryType /\ Rw(K3) \in EntryType
    BY FlagFacts
  <1>5. b0 \in [Idx -> EntryType] /\ b1 \in [Idx -> EntryType] /\ b2 \in [Idx -> EntryType]
    BY <1>3, <1>4
  <1>6. b3 \in [Idx -> EntryType]
    <2>1. Idx \subseteq Frames
      BY DEF Idx, Frames
    <2> QED
      BY <2>1, FlagFacts
  <1>7. mem' = [mem EXCEPT ![pml4t] = b0, ![K1] = b1, ![K2] = b2, ![K3] = b3]
    BY DEF paging_init, K1, K2, K3, Idx
  <1> HIDE DEF b0, b1, b2, b3
  <1>8. mem' \in Memory /\ mem'[pml4t] = b0 /\ mem'[K1] = b1 /\ mem'[K2] = b2 /\ mem'[K3] = b3
    BY <1>2, <1>5, <1>6, <1>7 DEF Memory
  <1>9. Roles(FirstRoles, mem', NULL) /\ KernelTables(mem', NULL) /\ ~Linked(mem', K2, 1)
    BY <1>8, FirstTables DEF b0, b1, b2, b3
  <1>10. /\ task' = NULL /\ call' = NoCall /\ used' = KernelFrames /\ tlb' = {}
         /\ DOMAIN asked' = {} /\ lost' = {}
    BY <1>1 DEF Booting
  <1>11. TypeOK'
    BY <1>1, <1>8 DEF TypeOK, Memory, Idx, EntryType
  <1>12. Calling' /\ AskedFor' /\ Fresh'
    BY <1>1, <1>9, <1>10 DEF Calling, AskedFor, Fresh
  <1>13. PICK r \in [Frames -> 0 .. 5] : r = FirstRoles
    BY <1>9 DEF Roles, RoleType
  <1>14. \A f \in Frames : r[f] # 0 => f \in {pml4t, K1, K2, K3}
    BY <1>13 DEF FirstRoles, FirstRole
  <1>15. Built(r)'
    <2>1. Roles(r, mem', task')
      BY <1>9, <1>10, <1>13
    <2>2. Pending(r)' /\ Over(r)'
      BY <1>1, <1>10 DEF Pending, Over
    <2>3. Marked(r)'
      BY <1>10, <1>14 DEF Marked, NoCall, NULL
    <2>4. NullLent(r)'
      <3>1. r[K3] = 4 /\ \A t \in Frames : r[t] = 4 => t = K3
        BY <1>13 DEF FirstRoles, FirstRole
      <3> QED
        BY <3>1 DEF NullLent
    <2> QED
      BY <2>1, <2>2, <2>3, <2>4 DEF Built
  <1> QED
    BY <1>1, <1>9, <1>10, <1>11, <1>12, <1>15 DEF VmmInv

(* The facts every step after paging_init starts from.                     *)
LEMMA Given ==
    ASSUME VmmInv, pc # "boot"
    PROVE  /\ TypeOK /\ mem \in Memory /\ task \in Frames /\ used \subseteq Frames
           /\ KernelTables(mem, task) /\ Calling /\ AskedFor /\ Fresh
           /\ \E r \in [Frames -> 0 .. 5] : Built(r)
  BY DEF VmmInv, TypeOK, Memory, Idx, EntryType

LEMMA RoleBasics ==
    ASSUME NEW r, NEW m, NEW tk, Roles(r, m, tk)
    PROVE  /\ r \in [Frames -> 0 .. 5] /\ r[NULL] = 0
           /\ r[pml4t] = 1 /\ r[K1] = 2 /\ r[K2] = 3 /\ r[K3] = 4
           /\ tk # NULL /\ tk \in Frames => r[tk] = 1
  BY Constants DEF Roles, RoleType, RoleKernel, RoleRoots

LEMMA NewTaskStep == VmmInv /\ NewTask => VmmInv'
  <1> SUFFICES ASSUME VmmInv, NewTask
               PROVE  VmmInv'
    OBVIOUS
  <1> USE Constants
  <1>1. /\ pc = "idle" /\ task = NULL /\ used' = used \cup {PmmAlloc}
        /\ call' = [root |-> pml4t, va |-> KernelVa(PmmAlloc), f |-> PmmAlloc,
                    fl |-> {"P", "W"}, then |-> "task"]
        /\ pc' = "map" /\ level' = 1 /\ tab' = pml4t
        /\ UNCHANGED <<mem, task, tlb, asked, lost, stale, lent0>>
    BY DEF NewTask, map_page, Take, history
  <1>2. /\ TypeOK /\ mem \in Memory /\ task \in Frames /\ used \subseteq Frames
        /\ KernelTables(mem, task) /\ Calling /\ AskedFor /\ Fresh
    BY <1>1, Given
  <1>3. PICK r \in [Frames -> 0 .. 5] : Built(r)
    BY <1>1, Given
  <1>4. used = KernelFrames /\ ~Linked(mem, K2, 1) /\ call = NoCall
    BY <1>1, <1>2 DEF Calling
  <1>5. PmmAlloc = TaskFrame
    <2>1. Free = N .. NFRAMES - 1
      BY <1>4 DEF Free, Frames, KernelFrames
    <2>2. N \in Free
      BY <2>1
    <2>3. PmmAlloc \in Free /\ PmmAlloc <= N
      BY <2>2, PmmAllocFrame
    <2> QED
      BY <2>1, <2>3 DEF TaskFrame
  <1>6. call'.root = pml4t /\ call'.va = TaskVa /\ call'.f = TaskFrame /\ TaskCall'
    BY <1>1, <1>5, TaskPage DEF TaskCall
  <1>8. TypeOK'
    <2>1. used' \subseteq Frames /\ level' \in 0 .. 4 /\ tab' \in Frames
      BY <1>1, <1>2, <1>5
    <2> QED
      BY <1>1, <1>2, <2>1 DEF TypeOK
  <1>9. Calling'
    <2>1. OnTheWay'
      BY <1>1, <1>6 DEF OnTheWay
    <2> QED
      BY <1>1, <1>6, <2>1 DEF Calling
  <1>10. AskedFor' /\ Fresh'
    BY <1>1, <1>2 DEF AskedFor, Fresh, InForce
  <1>11. Built(r)'
    <2>1. Roles(r, mem', task')
      BY <1>1, <1>3 DEF Built
    <2>2. r[TaskFrame] = 0 /\ TaskFrame \notin lost
      BY <1>3, <1>4 DEF Built, Marked
    <2>3. Pending(r)' /\ Over(r)'
      BY <1>1, <1>3, <1>6, <2>2 DEF Built, Pending, Over
    <2>4. Marked(r)'
      BY <1>1, <1>3, <1>4, <1>5, <1>6 DEF Built, Marked, NoCall, NULL
    <2>5. NullLent(r)'
      BY <1>1, <1>3 DEF Built, NullLent
    <2> QED
      BY <2>1, <2>3, <2>4, <2>5 DEF Built
  <1> QED
    BY <1>1, <1>2, <1>8, <1>9, <1>10, <1>11 DEF VmmInv

LEMMA LoadStep == VmmInv /\ Load => VmmInv'
  <1> SUFFICES ASSUME VmmInv, NEW v \in UserVas, NEW fl \in UserFlags, LoadPage(v, fl)
               PROVE  VmmInv'
    BY DEF Load
  <1> USE Constants
  <1> DEFINE g == PmmAlloc
  <1>1. /\ pc = "idle" /\ task # NULL /\ used' = used \cup {g}
        /\ call' = [root |-> task, va |-> v, f |-> g, fl |-> fl, then |-> "idle"]
        /\ pc' = "map" /\ level' = 1 /\ tab' = task
        /\ UNCHANGED <<mem, task, tlb, asked, lost, stale>>
    BY DEF LoadPage, map_page, Take, history
  <1>2. /\ TypeOK /\ mem \in Memory /\ task \in Frames /\ used \subseteq Frames
        /\ KernelTables(mem, task) /\ Calling /\ AskedFor /\ Fresh
    BY <1>1, Given
  <1>3. PICK r \in [Frames -> 0 .. 5] : Built(r)
    BY <1>1, Given
  <1>4. Roles(r, mem, task) /\ r[NULL] = 0
    BY <1>3, RoleBasics DEF Built
  <1>5. call = NoCall /\ used = KernelFrames \cup {f \in Frames : r[f] # 0} \cup lost
    BY <1>1, <1>2, <1>3 DEF Calling, Built, Marked, NoCall, NULL
  <1>6. g \in Frames /\ r[g] = 0 /\ (g \in KernelFrames \cup lost => g = NULL)
    <2>1. CASE Free = {}
      BY <1>4, <2>1, PmmAllocFrame
    <2>2. CASE Free # {}
      <3>1. g \in Frames /\ g \notin used
        BY <2>2, PmmAllocFrame DEF Free
      <3> QED
        BY <1>5, <3>1
    <2> QED
      BY <2>1, <2>2
  <1>7. (g = NULL => lent0') /\ (~lent0' => ~lent0) /\ lent0' \in BOOLEAN
    BY Zenon DEF LoadPage
  <1> HIDE DEF g
  <1>9. call'.root = task /\ call'.va = v /\ call'.f = g /\ call'.fl = fl /\ UserCall'
    BY <1>1, <1>6 DEF UserCall
  <1>10. TypeOK'
    <2>1. used' \subseteq Frames /\ level' \in 0 .. 4 /\ tab' \in Frames
      BY <1>1, <1>2, <1>6
    <2> QED
      BY <1>1, <1>2, <1>7, <2>1 DEF TypeOK
  <1>11. Calling'
    <2>1. OnTheWay'
      BY <1>1, <1>9 DEF OnTheWay
    <2>2. call'.f = NULL => lent0'
      BY <1>7, <1>9
    <2> QED
      BY <1>1, <1>9, <2>1, <2>2 DEF Calling
  <1>12. AskedFor' /\ Fresh'
    BY <1>1, <1>2 DEF AskedFor, Fresh, InForce
  <1>13. Built(r)'
    <2>1. Roles(r, mem', task')
      BY <1>1, <1>4
    <2>2. Pending(r)'
      BY <1>1, <1>6, <1>9 DEF Pending
    <2>3. Marked(r)'
      BY <1>1, <1>5, <1>9 DEF Marked
    <2>4. NullLent(r)' /\ Over(r)'
      BY <1>1, <1>3, <1>7 DEF Built, NullLent, Over
    <2> QED
      BY <2>1, <2>2, <2>3, <2>4 DEF Built
  <1> QED
    BY <1>1, <1>2, <1>10, <1>11, <1>12, <1>13 DEF VmmInv

LEMMA WalkPanicStep == VmmInv /\ WalkPanic => VmmInv'
  <1> SUFFICES ASSUME VmmInv, WalkPanic
               PROVE  VmmInv'
    OBVIOUS
  <1>1. /\ pc = "map" /\ pc' = "panic"
        /\ UNCHANGED <<mem, used, lent0, call, level, tab, task, tlb, asked, lost, stale>>
    BY DEF WalkPanic, alloc, walk, history
  <1>2. /\ TypeOK /\ KernelTables(mem, task) /\ AskedFor /\ Fresh
    BY <1>1, Given
  <1>3. PICK r \in [Frames -> 0 .. 5] : Built(r)
    BY <1>1, Given
  <1>4. TypeOK'
    BY <1>1, <1>2 DEF TypeOK
  <1>5. Calling' /\ AskedFor' /\ Fresh'
    BY <1>1, <1>2 DEF Calling, AskedFor, Fresh, InForce
  <1>6. Built(r)'
    BY <1>1, <1>3 DEF Built, Pending, Over, Marked, NullLent
  <1> QED
    BY <1>1, <1>2, <1>4, <1>5, <1>6 DEF VmmInv

LEMMA TouchStep == VmmInv /\ Touch => VmmInv'
  <1> SUFFICES ASSUME VmmInv, Touch
               PROVE  VmmInv'
    OBVIOUS
  <1>1. /\ pc = "idle"
        /\ UNCHANGED <<pc, mem, used, lent0, call, level, tab, task, asked, lost>>
    BY DEF Touch, alloc, walk
  <1>2. PICK v \in TouchedVas :
           /\ Mapped(v)
           /\ tlb' = {e \in tlb : e[1] # v} \cup {<<v, Translate(task, v)>>}
           /\ stale' = {e \in stale : e[1] # v}
    BY DEF Touch
  <1>3. /\ TypeOK /\ mem \in Memory /\ task \in Frames
        /\ KernelTables(mem, task) /\ Calling /\ AskedFor /\ Fresh
    BY <1>1, Given
  <1>4. PICK r \in [Frames -> 0 .. 5] : Built(r)
    BY <1>1, Given
  <1>5. v \in UserVas
    BY VmmAssumption
  <1>6. task # NULL /\ Way4(mem, task, v) /\ Translate(task, v) = E4(mem, task, v).f
    BY <1>2, TranslateWay DEF Mapped
  <1>7. Translate(task, v) \in Frames
    BY <1>3, <1>4, <1>5, <1>6, UserWay DEF Built
  <1>8. TypeOK'
    <2>1. tlb' \subseteq TouchedVas \X Frames /\ stale' \subseteq tlb'
      BY <1>2, <1>3, <1>7 DEF TypeOK
    <2> QED
      BY <1>1, <1>3, <2>1 DEF TypeOK
  <1>9. Calling' /\ AskedFor'
    BY <1>1, <1>3 DEF Calling, AskedFor
  <1>10. Fresh'
    <2> DEFINE f == Translate(task, v)
    <2>1. f = E4(mem, task, v).f /\ tlb' = {e \in tlb : e[1] # v} \cup {<<v, f>>}
      BY <1>2, <1>6
    <2> HIDE DEF f
    <2>2. SUFFICES ASSUME NEW e \in tlb'
                   PROVE  task # NULL /\ (e \in stale' \/ e[2] \in lost \/ InForce(e))
      BY <1>1 DEF Fresh, InForce
    <2>3. CASE e \in tlb /\ e[1] # v
      BY <1>2, <1>3, <2>3 DEF Fresh
    <2>4. CASE e = <<v, f>>
      <3>1. e[1] = v /\ e[2] = f
        BY <2>4
      <3> QED
        BY <1>6, <2>1, <3>1 DEF InForce
    <2> QED
      BY <2>1, <2>3, <2>4
  <1>11. Built(r)'
    BY <1>1, <1>4 DEF Built, Pending, Over, Marked, NullLent
  <1> QED
    BY <1>1, <1>3, <1>8, <1>9, <1>10, <1>11 DEF VmmInv

LEMMA VmmStutter == VmmInv /\ UNCHANGED vars => VmmInv'
  <1> SUFFICES ASSUME VmmInv, UNCHANGED vars
               PROVE  VmmInv'
    OBVIOUS
  <1>1. UNCHANGED <<pc, mem, used, lent0, call, level, tab, task, tlb, asked, lost, stale>>
    BY DEF vars, alloc, walk, history
  <1>2. TypeOK'
    BY <1>1 DEF VmmInv, TypeOK
  <1>3. CASE pc = "boot"
    BY <1>1, <1>2, <1>3 DEF VmmInv, Booting
  <1>4. CASE pc # "boot"
    <2>1. PICK r \in [Frames -> 0 .. 5] : Built(r)
      BY <1>4, Given
    <2>2. Built(r)'
      BY <1>1, <2>1 DEF Built, Pending, Over, Marked, NullLent
    <2>3. Calling' <=> Calling
      BY <1>1 DEF Calling, TaskCall, UserCall, OnTheWay
    <2>4. AskedFor' /\ Fresh'
      BY <1>1, <1>4, Given DEF AskedFor, Fresh, InForce
    <2> QED
      BY <1>1, <1>2, <1>4, <2>2, <2>3, <2>4 DEF VmmInv
  <1> QED
    BY <1>3, <1>4

(* Pages stay mapped as long as the tables keep their entries.             *)
LEMMA PagesKept ==
    ASSUME VmmInv, pc # "boot", NEW r, Built(r), mem' \in Memory,
           Extends(r, mem, mem'), UNCHANGED <<task, asked, tlb, lost, stale>>
    PROVE  AskedFor' /\ Fresh'
  <1>1. /\ TypeOK /\ mem \in Memory /\ task \in Frames
        /\ KernelTables(mem, task) /\ AskedFor /\ Fresh
    BY Given
  <1>2. Roles(r, mem, task)
    BY DEF Built
  <1>3. ASSUME NEW v \in UserVas, task # NULL, Way4(mem, task, v)
        PROVE  Way4(mem', task, v) /\ E4(mem', task, v) = E4(mem, task, v)
    BY <1>1, <1>2, <1>3, WayKept
  <1>4. AskedFor'
    BY <1>1, <1>3 DEF AskedFor
  <1>5. \A e \in tlb : e[1] \in UserVas
    BY <1>1, VmmAssumption DEF TypeOK
  <1>6. Fresh'
    BY <1>1, <1>3, <1>5 DEF Fresh, InForce
  <1> QED
    BY <1>4, <1>6

(* Where map_page stands in the tables.                                    *)
LEMMA WalkFacts ==
    ASSUME VmmInv, pc = "map", NEW r, Built(r)
    PROVE  /\ Callable(call.root, call.va, task) /\ level \in 1 .. 4
           /\ tab \in Frames /\ r[tab] = level /\ tab # K3
           /\ call.va[level] \in Idx
           /\ call.f \in Frames /\ call.fl \in SUBSET Flags /\ "P" \in call.fl
           /\ level = 1 => Entry = E1(mem, call.root, call.va)
           /\ level = 2 => Entry = E2(mem, call.root, call.va) /\ Way1(mem, call.root, call.va)
           /\ level = 3 => Entry = E3(mem, call.root, call.va) /\ Way2(mem, call.root, call.va)
           /\ level = 4 => Entry = E4(mem, call.root, call.va) /\ Way3(mem, call.root, call.va)
           /\ level < 4 /\ ~Present(Entry) =>
                 \/ task = NULL /\ tab = K2 /\ call.va[level] = 1
                 \/ task # NULL /\ tab \notin {pml4t, K1, K2} /\ "U" \in call.fl
  <1> USE Constants
  <1> DEFINE root == call.root
             va == call.va
  <1>1. /\ TypeOK /\ mem \in Memory /\ task \in Frames
        /\ KernelTables(mem, task) /\ Calling
    BY Given
  <1>2. Roles(r, mem, task)
    BY DEF Built
  <1>3. (TaskCall \/ UserCall) /\ OnTheWay
    BY <1>1 DEF Calling
  <1>4. Callable(root, va, task)
    BY <1>3 DEF TaskCall, UserCall, Callable
  <1>5. call.f \in Frames /\ call.fl \in SUBSET Flags /\ "P" \in call.fl
    <2>1. CASE TaskCall
      BY <2>1, FlagFacts DEF TaskCall
    <2>2. CASE UserCall
      BY <2>2, FlagFacts DEF UserCall
    <2> QED
      BY <1>3, <2>1, <2>2
  <1> HIDE DEF root, va
  <1>6. /\ root \in Frames /\ r[root] = 1
        /\ va[1] \in Idx /\ va[2] \in Idx /\ va[3] \in Idx /\ va[4] \in Idx
        /\ Way1(mem, root, va) => E1(mem, root, va).f \in Frames /\ r[E1(mem, root, va).f] = 2
        /\ Way2(mem, root, va) => E2(mem, root, va).f \in Frames /\ r[E2(mem, root, va).f] = 3
        /\ Way3(mem, root, va) => /\ E3(mem, root, va).f \in Frames /\ r[E3(mem, root, va).f] = 4
                                  /\ E3(mem, root, va).f # K3
    BY <1>1, <1>2, <1>4, CallWay
  <1>7. r[K3] = 4 /\ r[pml4t] = 1 /\ r[K1] = 2 /\ r[K2] = 3
    BY <1>2, RoleBasics
  <1>8. /\ Entry = mem[tab][va[level]]
        /\ \/ level = 1 /\ tab = root
           \/ level = 2 /\ Way1(mem, root, va) /\ tab = E1(mem, root, va).f
           \/ level = 3 /\ Way2(mem, root, va) /\ tab = E2(mem, root, va).f
           \/ level = 4 /\ Way3(mem, root, va) /\ tab = E3(mem, root, va).f
    BY <1>3 DEF OnTheWay, Entry, root, va
  <1>9. /\ level \in 1 .. 4 /\ tab \in Frames /\ r[tab] = level /\ tab # K3
        /\ va[level] \in Idx
    BY <1>6, <1>7, <1>8
  <1>10. /\ level = 1 => Entry = E1(mem, root, va)
         /\ level = 2 => Entry = E2(mem, root, va) /\ Way1(mem, root, va)
         /\ level = 3 => Entry = E3(mem, root, va) /\ Way2(mem, root, va)
         /\ level = 4 => Entry = E4(mem, root, va) /\ Way3(mem, root, va)
    <2>1. CASE level = 1 /\ tab = root
      BY <1>8, <2>1 DEF E1
    <2>2. CASE level = 2 /\ Way1(mem, root, va) /\ tab = E1(mem, root, va).f
      BY <1>8, <2>2 DEF E2
    <2>3. CASE level = 3 /\ Way2(mem, root, va) /\ tab = E2(mem, root, va).f
      BY <1>8, <2>3 DEF E3
    <2>4. CASE level = 4 /\ Way3(mem, root, va) /\ tab = E3(mem, root, va).f
      BY <1>8, <2>4 DEF E4
    <2> QED
      BY <1>8, <2>1, <2>2, <2>3, <2>4
  <1>11. ASSUME level < 4, ~Present(Entry)
         PROVE  \/ task = NULL /\ tab = K2 /\ va[level] = 1
                \/ task # NULL /\ tab \notin {pml4t, K1, K2} /\ "U" \in call.fl
    <2>1. CASE TaskCall
      <3>1. task = NULL /\ root = pml4t /\ va = TaskVa
        BY <2>1 DEF TaskCall, root, va
      <3>2. /\ Way2(mem, root, va) /\ E2(mem, root, va).f = K2
        BY <1>1, <3>1, TaskWay
      <3>3. level = 3
        BY <1>9, <1>10, <1>11, <3>2 DEF Way2, Way1
      <3> QED
        BY <1>8, <3>1, <3>2, <3>3, TaskPage
    <2>2. CASE UserCall
      <3>1. task # NULL /\ root = task /\ va \in UserVas /\ "U" \in call.fl
        BY <2>2, FlagFacts DEF UserCall, root, va
      <3>2. /\ task # pml4t
            /\ Way1(mem, task, va) => E1(mem, task, va).f # K1
            /\ Way2(mem, task, va) => E2(mem, task, va).f # K2
        BY <1>1, <1>2, <3>1, UserWay
      <3>3. tab \notin {pml4t, K1, K2}
        BY <1>7, <1>8, <1>9, <1>11, <3>1, <3>2
      <3> QED
        BY <3>1, <3>3
    <2> QED
      BY <1>3, <2>1, <2>2
  <1> QED
    BY <1>4, <1>5, <1>9, <1>10, <1>11 DEF root, va

(* What temp_map does.                                                     *)
TempEffect ==
    /\ pc # "boot" /\ pc' # "boot" /\ task' = task /\ mem' \in Memory
    /\ \A u \in Frames : \A y \in Idx : u # K3 \/ y # N - 1 => mem'[u][y] = mem[u][y]

LEMMA WalkFollowStep == VmmInv /\ WalkFollow => VmmInv' /\ TempEffect
  <1> SUFFICES ASSUME VmmInv, WalkFollow
               PROVE  VmmInv' /\ TempEffect
    OBVIOUS
  <1> USE Constants
  <1> DEFINE root == call.root
             va == call.va
             g == Entry.f
  <1>1. /\ pc = "map" /\ level < 4 /\ Present(Entry)
        /\ mem' = TempMap(mem, g) /\ tab' = g /\ level' = level + 1
        /\ UNCHANGED <<pc, used, lent0, call, task, tlb, asked, lost, stale>>
    BY DEF WalkFollow, Reached, alloc, history
  <1>2. /\ TypeOK /\ mem \in Memory /\ task \in Frames /\ used \subseteq Frames
        /\ KernelTables(mem, task) /\ Calling
    BY <1>1, Given
  <1>3. PICK r \in [Frames -> 0 .. 5] : Built(r)
    BY <1>1, Given
  <1>4. Roles(r, mem, task)
    BY <1>3 DEF Built
  <1>5. /\ Callable(root, va, task) /\ level \in 1 .. 4 /\ tab \in Frames
        /\ va[level] \in Idx
        /\ level = 1 => Entry = E1(mem, root, va)
        /\ level = 2 => Entry = E2(mem, root, va) /\ Way1(mem, root, va)
        /\ level = 3 => Entry = E3(mem, root, va) /\ Way2(mem, root, va)
    BY <1>1, <1>3, WalkFacts
  <1>6. g \in Frames
    BY <1>2, <1>5, EntryFrame DEF Entry
  <1> HIDE DEF root, va, g
  <1>7. mem' \in Memory /\ Roles(r, mem', task) /\ KernelTables(mem', task)
        /\ Extends(r, mem, mem') /\ Extends(r, mem', mem)
        /\ \A u \in Frames : \A y \in Idx : u # K3 \/ y # N - 1 => mem'[u][y] = mem[u][y]
    <2>1. /\ mem' \in Memory
          /\ \A u \in Frames : \A y \in Idx : u # K3 \/ y # N - 1 => mem'[u][y] = mem[u][y]
      BY <1>1, <1>2, <1>6, TempEntry
    <2> QED
      BY <1>2, <1>4, <2>1, TempKeeps
  <1>8. AskedFor' /\ Fresh'
    BY <1>1, <1>3, <1>7, PagesKept
  <1>9. TypeOK'
    <2>1. level' \in 0 .. 4 /\ tab' \in Frames
      BY <1>1, <1>5, <1>6
    <2>2. mem' \in [Frames -> [0 .. N - 1 -> [f : Frames, fl : SUBSET Flags]]]
      BY <1>7 DEF Memory, Idx, EntryType
    <2> QED
      BY <1>1, <1>2, <2>1, <2>2 DEF TypeOK
  <1>11. /\ Way1(mem, root, va) => Way1(mem', root, va) /\ E1(mem', root, va) = E1(mem, root, va)
         /\ Way2(mem, root, va) => Way2(mem', root, va) /\ E2(mem', root, va) = E2(mem, root, va)
         /\ Way3(mem, root, va) => Way3(mem', root, va) /\ E3(mem', root, va) = E3(mem, root, va)
    BY <1>2, <1>4, <1>5, <1>7, CallWayKept
  <1>12. \/ level' = 2 /\ Way1(mem', root, va) /\ tab' = E1(mem', root, va).f
         \/ level' = 3 /\ Way2(mem', root, va) /\ tab' = E2(mem', root, va).f
         \/ level' = 4 /\ Way3(mem', root, va) /\ tab' = E3(mem', root, va).f
    <2>1. CASE level = 1
      <3>1. Way1(mem, root, va) /\ g = E1(mem, root, va).f
        BY <1>1, <1>5, <2>1 DEF Way1, g
      <3> QED
        BY <1>1, <1>11, <2>1, <3>1
    <2>2. CASE level = 2
      <3>1. Way2(mem, root, va) /\ g = E2(mem, root, va).f
        BY <1>1, <1>5, <2>2 DEF Way2, g
      <3> QED
        BY <1>1, <1>11, <2>2, <3>1
    <2>3. CASE level = 3
      <3>1. Way3(mem, root, va) /\ g = E3(mem, root, va).f
        BY <1>1, <1>5, <2>3 DEF Way3, g
      <3> QED
        BY <1>1, <1>11, <2>3, <3>1
    <2> QED
      BY <1>1, <1>5, <2>1, <2>2, <2>3
  <1>13. Calling'
    <2>1. OnTheWay'
      BY <1>1, <1>12 DEF OnTheWay, root, va
    <2>2. (TaskCall \/ UserCall) /\ (call.f = NULL => lent0)
      BY <1>1, <1>2 DEF Calling
    <2>3. (TaskCall \/ UserCall)'
      BY <1>1, <2>2 DEF TaskCall, UserCall
    <2> QED
      BY <1>1, <2>1, <2>2, <2>3 DEF Calling, root, va
  <1>14. Built(r)'
    <2>1. Pending(r)' /\ Over(r)' /\ Marked(r)'
      BY <1>1, <1>3 DEF Built, Pending, Over, Marked
    <2>2. NullLent(r)'
      BY <1>1, <1>3, <1>7 DEF Built, NullLent, Linked
    <2> QED
      BY <1>1, <1>7, <2>1, <2>2 DEF Built
  <1>15. TempEffect
    BY <1>1, <1>7 DEF TempEffect
  <1> QED
    BY <1>1, <1>7, <1>8, <1>9, <1>13, <1>14, <1>15 DEF VmmInv

(* What one round of map_page does that adds a table.                      *)
AllocEffect(r, q, new) ==
    /\ pc = "map" /\ level < 4 /\ new \notin used
    /\ tab' = new /\ used' = used \cup {new} /\ level' = level + 1
    /\ UNCHANGED <<pc, call, task, tlb, asked, lost, stale, lent0>>
    /\ new \notin KernelFrames /\ r[new] = 0 /\ new # call.f /\ new # tab
    /\ mem' \in Memory /\ ~Linked(mem, tab, call.va[level])
    /\ Present(mem'[tab][call.va[level]]) /\ mem'[tab][call.va[level]].f = new
    /\ \A y \in Idx : mem'[new][y] = Zero
    /\ \A u \in Frames : \A y \in Idx :
          u # new /\ (u # tab \/ y # call.va[level]) /\ (u # K3 \/ y # N - 1)
              => mem'[u][y] = mem[u][y]
    /\ q[new] = level + 1 /\ \A f \in Frames : f # new => q[f] = r[f]
    /\ Roles(q, mem', task) /\ KernelTables(mem', task) /\ Extends(r, mem, mem')

LEMMA WalkAllocEffect ==
    ASSUME VmmInv, WalkAlloc, NEW r \in [Frames -> 0 .. 5], Built(r)
    PROVE  \E new \in Frames, q \in [Frames -> 0 .. 5] : AllocEffect(r, q, new)
  <1> USE Constants
  <1> DEFINE root == call.root
             va == call.va
             new == PmmAlloc
             fl == call.fl \cup {"P"}
             e == [f |-> new, fl |-> fl]
             linked == [mem EXCEPT ![tab][va[level]] = e]
             x == va[level]
  <1>1. /\ pc = "map" /\ level < 4 /\ ~Present(Entry) /\ new # NULL
        /\ tab' = new /\ mem' = [TempMap(linked, new) EXCEPT ![new] = ZeroTable]
        /\ used' = used \cup {new} /\ level' = level + 1
        /\ UNCHANGED <<pc, call, task, tlb, asked, lost, stale, lent0>>
    BY DEF WalkAlloc, Reached, Take, TableFlags, history
  <1>2. /\ TypeOK /\ mem \in Memory /\ task \in Frames /\ used \subseteq Frames
        /\ KernelTables(mem, task) /\ Calling
    BY <1>1, Given
  <1>3. Roles(r, mem, task)
    BY DEF Built
  <1>4. /\ Callable(root, va, task) /\ level \in 1 .. 4
        /\ tab \in Frames /\ r[tab] = level /\ tab # K3
        /\ x \in Idx /\ call.fl \in SUBSET Flags
        /\ \/ task = NULL /\ tab = K2 /\ x = 1
           \/ task # NULL /\ tab \notin {pml4t, K1, K2} /\ "U" \in call.fl
    BY <1>1, WalkFacts
  <1>5. new \in Frames /\ new \notin used
    BY <1>1, PmmAllocFrame DEF Free
  <1>6. used = KernelFrames \cup {f \in Frames : r[f] # 0} \cup {call.f} \cup lost
    BY DEF Built, Marked
  <1>7. /\ new \notin KernelFrames /\ r[new] = 0 /\ new # call.f /\ new # tab /\ new # K3
    BY <1>4, <1>5, <1>6
  <1>8. fl \in SUBSET Flags /\ "P" \in fl /\ ("U" \in call.fl => "U" \in fl)
    BY <1>4 DEF Flags
  <1>9. e \in EntryType /\ e.f = new /\ e.fl = fl /\ Present(e)
    BY <1>5, <1>8 DEF EntryType, Present
  <1> HIDE DEF new, fl
  <1>10. /\ linked \in Memory /\ linked[tab][x] = e
         /\ \A u \in Frames : \A y \in Idx : u # tab \/ y # x => linked[u][y] = mem[u][y]
    <2> HIDE DEF e
    <2>1. linked = [mem EXCEPT ![tab][x] = e]
      OBVIOUS
    <2> HIDE DEF linked, x
    <2> QED
      BY ONLY <1>2, <1>4, <1>9, <2>1 DEF Memory
  <1>11. ~Linked(mem, tab, x)
    BY <1>1 DEF Entry, Linked
  <1> HIDE DEF e, linked, x
  <1>12. TempPt(linked) = K3
    <2>1. /\ linked[pml4t][N - 1] = mem[pml4t][N - 1] /\ linked[K1][N - 2] = mem[K1][N - 2]
          /\ linked[K2][0] = mem[K2][0]
      BY <1>2, <1>10, <1>11, KernelLinks
    <2> QED
      BY <1>2, <2>1, KernelLinks DEF TempPt
  <1> DEFINE te == [f |-> new, fl |-> {"P", "W", "PCD"}]
             m1 == [linked EXCEPT ![K3][N - 1] = te]
  <1>13. te \in EntryType
    BY <1>5, FlagFacts DEF EntryType
  <1>14. mem' = [m1 EXCEPT ![new] = ZeroTable]
    BY <1>1, <1>12 DEF TempMap
  <1> HIDE DEF te
  <1>15. /\ m1 \in Memory
         /\ \A u \in Frames : \A y \in Idx : u # K3 \/ y # N - 1 => m1[u][y] = linked[u][y]
    <2>1. K3 \in Frames /\ N - 1 \in Idx
      OBVIOUS
    <2>2. m1 = [linked EXCEPT ![K3][N - 1] = te]
      OBVIOUS
    <2> HIDE DEF m1
    <2> QED
      BY ONLY <1>10, <1>13, <2>1, <2>2 DEF Memory
  <1> HIDE DEF m1
  <1>16. ZeroTable \in [Idx -> EntryType] /\ \A y \in Idx : ZeroTable[y] = Zero
    BY FlagFacts DEF ZeroTable, Idx
  <1>17. /\ mem' \in Memory /\ mem'[new] = ZeroTable
         /\ \A u \in Frames : u # new => mem'[u] = m1[u]
    BY ONLY <1>5, <1>14, <1>15, <1>16 DEF Memory
  <1>18. mem'[tab][x] = [f |-> new, fl |-> fl]
    <2>1. mem'[tab] = m1[tab]
      BY <1>4, <1>7, <1>17
    <2>2. m1[tab][x] = linked[tab][x]
      BY <1>4, <1>15
    <2> QED
      BY <1>10, <2>1, <2>2 DEF e
  <1>19. \A y \in Idx : mem'[new][y] = Zero
    BY <1>16, <1>17
  <1>20. \A u \in Frames : \A y \in Idx :
            u # new /\ (u # tab \/ y # x) /\ (u # K3 \/ y # N - 1) => mem'[u][y] = mem[u][y]
    BY <1>10, <1>15, <1>17
  <1>21. /\ Roles([r EXCEPT ![new] = r[tab] + 1], mem', task)
         /\ KernelTables(mem', task) /\ Extends(r, mem, mem')
    <2>1. r[tab] \in 1 .. 3
      BY <1>1, <1>4
    <2>2. \/ task = NULL /\ tab = K2 /\ x = 1
          \/ task # NULL /\ tab \notin {pml4t, K1, K2} /\ "U" \in fl
      BY <1>4, <1>8
    <2> QED
      <3>1. TableAdded(mem, mem', r, task, tab, x, new, fl)
        BY ONLY <1>2, <1>3, <1>4, <1>5, <1>7, <1>8, <1>11, <1>17, <1>18, <1>19, <1>20,
                <2>1, <2>2 DEF TableAdded
      <3> QED
        BY <3>1, AddTable
  <1>22. PICK q \in [Frames -> 0 .. 5] : q = [r EXCEPT ![new] = r[tab] + 1]
    <2>1. r[tab] + 1 \in 0 .. 5
      BY <1>1, <1>4
    <2> QED
      BY <2>1
  <1>23. /\ q[new] = level + 1 /\ \A f \in Frames : f # new => q[f] = r[f]
    BY <1>4, <1>5, <1>22
  <1>24. Present(mem'[tab][va[level]]) /\ mem'[tab][va[level]].f = new
    BY <1>8, <1>18 DEF Present, x
  <1>25. AllocEffect(r, q, new)
    BY <1>1, <1>5, <1>7, <1>11, <1>17, <1>19, <1>20, <1>21, <1>22, <1>23, <1>24
    DEF AllocEffect, x
  <1> QED
    BY <1>5, <1>25

LEMMA WalkAllocStep == VmmInv /\ WalkAlloc => VmmInv'
  <1> SUFFICES ASSUME VmmInv, WalkAlloc
               PROVE  VmmInv'
    OBVIOUS
  <1> USE Constants
  <1> DEFINE root == call.root
             va == call.va
             x == va[level]
  <1>1. PICK r \in [Frames -> 0 .. 5] : Built(r)
    BY Given DEF WalkAlloc
  <1>2. PICK new \in Frames, q \in [Frames -> 0 .. 5] : AllocEffect(r, q, new)
    BY <1>1, WalkAllocEffect
  <1>3. /\ pc = "map" /\ level < 4
        /\ tab' = new /\ used' = used \cup {new} /\ level' = level + 1
        /\ UNCHANGED <<pc, call, task, tlb, asked, lost, stale, lent0>>
    BY <1>2 DEF AllocEffect
  <1>4. /\ TypeOK /\ mem \in Memory /\ task \in Frames /\ used \subseteq Frames
        /\ KernelTables(mem, task) /\ Calling
    BY <1>3, Given
  <1>5. Roles(r, mem, task)
    BY <1>1 DEF Built
  <1>6. /\ Callable(root, va, task) /\ level \in 1 .. 4
        /\ tab \in Frames /\ r[tab] = level /\ tab # K3 /\ x \in Idx
    BY <1>3, <1>1, WalkFacts
  <1>7. new \notin used /\ new # NULL
    BY <1>2 DEF AllocEffect
  <1>8. used = KernelFrames \cup {f \in Frames : r[f] # 0} \cup {call.f} \cup lost
    BY <1>1 DEF Built, Marked
  <1>9. r[new] = 0 /\ new # call.f /\ new # tab
    BY <1>2 DEF AllocEffect
  <1>10. mem' \in Memory
    BY <1>2 DEF AllocEffect
  <1>11. \A y \in Idx : mem'[new][y] = Zero
    BY <1>2 DEF AllocEffect
  <1>12. \A u \in Frames : \A y \in Idx :
            u # new /\ (u # tab \/ y # x) /\ (u # K3 \/ y # N - 1) => mem'[u][y] = mem[u][y]
    BY <1>2 DEF AllocEffect
  <1>13. Roles(q, mem', task) /\ KernelTables(mem', task) /\ Extends(r, mem, mem')
    BY <1>2 DEF AllocEffect
  <1>14. /\ q[new] = level + 1 /\ \A f \in Frames : f # new => q[f] = r[f]
    BY <1>2 DEF AllocEffect
  <1>15. Present(mem'[tab][va[level]]) /\ mem'[tab][va[level]].f = new
    BY <1>2 DEF AllocEffect
  <1> HIDE DEF x
  <1>16. AskedFor' /\ Fresh'
    BY <1>3, <1>1, <1>10, <1>13, PagesKept
  <1>17. TypeOK'
    <2>1. level' \in 0 .. 4 /\ tab' \in Frames /\ used' \subseteq Frames
      BY <1>3, <1>4, <1>6, <1>7
    <2>2. mem' \in [Frames -> [0 .. N - 1 -> [f : Frames, fl : SUBSET Flags]]]
      BY <1>10 DEF Memory, Idx, EntryType
    <2> QED
      BY <1>3, <1>4, <2>1, <2>2 DEF TypeOK
  <1>18. /\ Way1(mem, root, va) => Way1(mem', root, va) /\ E1(mem', root, va) = E1(mem, root, va)
         /\ Way2(mem, root, va) => Way2(mem', root, va) /\ E2(mem', root, va) = E2(mem, root, va)
    BY <1>4, <1>5, <1>6, <1>10, <1>13, CallWayKept
  <1>19. va[1] \in Idx /\ va[2] \in Idx /\ va[3] \in Idx /\ va[4] \in Idx
    BY <1>4, <1>5, <1>6, CallWay
  <1> HIDE DEF root, va
  <1>20. ~Present(Zero)
    BY FlagFacts
  <1>21. \/ level' = 2 /\ Way1(mem', root, va) /\ tab' = E1(mem', root, va).f
         \/ level' = 3 /\ Way2(mem', root, va) /\ tab' = E2(mem', root, va).f
         \/ level' = 4 /\ Way3(mem', root, va) /\ tab' = E3(mem', root, va).f
    <2>1. OnTheWay
      BY <1>3, <1>4 DEF Calling
    <2>2. CASE level = 1
      <3>1. tab = root
        BY <2>1, <2>2 DEF OnTheWay, root
      <3>2. Way1(mem', root, va) /\ E1(mem', root, va).f = new
        BY <1>15, <2>2, <3>1 DEF Way1, E1
      <3> QED
        BY <1>3, <2>2, <3>2
    <2>3. CASE level = 2
      <3>1. Way1(mem, root, va) /\ tab = E1(mem, root, va).f
        BY <2>1, <2>3 DEF OnTheWay, root, va
      <3>2. Way2(mem', root, va) /\ E2(mem', root, va).f = new
        BY <1>18, <1>15, <2>3, <3>1 DEF Way2, E2
      <3> QED
        BY <1>3, <2>3, <3>2
    <2>4. CASE level = 3
      <3>1. Way2(mem, root, va) /\ tab = E2(mem, root, va).f
        BY <2>1, <2>4 DEF OnTheWay, root, va
      <3>2. Way3(mem', root, va) /\ E3(mem', root, va).f = new
        BY <1>18, <1>15, <2>4, <3>1 DEF Way3, E3
      <3> QED
        BY <1>3, <2>4, <3>2
    <2> QED
      BY <1>3, <1>6, <2>2, <2>3, <2>4
  <1>22. Calling'
    <2>1. OnTheWay'
      BY <1>3, <1>21 DEF OnTheWay, root, va
    <2>2. (TaskCall \/ UserCall) /\ (call.f = NULL => lent0)
      BY <1>3, <1>4 DEF Calling
    <2>3. (TaskCall \/ UserCall)'
      BY <1>3, <2>2 DEF TaskCall, UserCall
    <2> QED
      BY <1>3, <1>21, <2>1, <2>2, <2>3 DEF Calling, root, va
  <1>23. Built(q)'
    <2>1. Roles(q, mem', task')
      BY <1>3, <1>13
    <2>2. call.f \in Frames
      BY <1>3, <1>1, WalkFacts
    <2>3. Pending(q)' /\ Over(q)'
      <3>1. \A f \in lost : f \in Frames /\ f # new
        BY <1>4, <1>7, <1>8 DEF TypeOK
      <3> QED
        BY <1>3, <1>1, <1>9, <1>14, <2>2, <3>1 DEF Built, Pending, Over
    <2>4. Marked(q)'
      <3>1. {f \in Frames : q[f] # 0} = {f \in Frames : r[f] # 0} \cup {new}
        BY <1>6, <1>7, <1>14
      <3> QED
        BY <1>3, <1>8, <3>1 DEF Marked
    <2>5. NullLent(q)'
      <3>1. SUFFICES ASSUME ~lent0, NEW t \in Frames, NEW y \in Idx,
                            q[t] = 4, t # K3, Linked(mem', t, y)
                     PROVE  mem'[t][y].f # NULL
        BY <1>3 DEF NullLent
      <3>2. t # new
        BY <1>11, <1>20, <3>1 DEF Linked
      <3>3. r[t] = 4 /\ t # tab
        BY <1>3, <1>6, <1>14, <3>1, <3>2
      <3>4. mem'[t][y] = mem[t][y]
        BY <1>12, <3>1, <3>2, <3>3
      <3> QED
        BY <1>1, <3>1, <3>3, <3>4 DEF Built, NullLent, Linked
    <2> QED
      BY <2>1, <2>3, <2>4, <2>5 DEF Built
  <1> QED
    BY <1>3, <1>13, <1>16, <1>17, <1>22, <1>23 DEF VmmInv

(* A change of one entry of a page table touches the way to one page only. *)
LEMMA OthersKept ==
    ASSUME NEW m \in Memory, NEW m2 \in Memory, NEW r, NEW tk \in Frames, tk # NULL,
           Roles(r, m, tk), KernelTables(m, tk), NEW v \in UserVas, NEW w \in UserVas,
           Way3(m, tk, v), Way4(m, tk, w), v # w,
           \A u \in Frames : \A y \in Idx :
               (u # E3(m, tk, v).f \/ y # v[4]) /\ (u # K3 \/ y # N - 1) => m2[u][y] = m[u][y]
    PROVE  Way4(m2, tk, w) /\ E4(m2, tk, w) = E4(m, tk, w)
  <1> USE UserPages, Constants
  <1> DEFINE t == E3(m, tk, v).f
             t1 == E1(m, tk, w).f
             t2 == E2(m, tk, w).f
             t3 == E3(m, tk, w).f
  <1>1. t \in Frames /\ r[t] = 4 /\ r[tk] = 1 /\ r[K3] = 4
    BY UserWay, RoleBasics
  <1>2. Way1(m, tk, w) /\ Way2(m, tk, w) /\ Way3(m, tk, w)
    BY DEF Way4, Way3, Way2
  <1>3. /\ t1 \in Frames /\ r[t1] = 2 /\ t2 \in Frames /\ r[t2] = 3
        /\ t3 \in Frames /\ r[t3] = 4 /\ t3 # K3
    BY <1>2, UserWay
  <1>4. t3 # t \/ w[4] # v[4]
    BY <1>2, WayUnique
  <1>5. /\ E1(m, tk, w) = m[tk][w[1]] /\ E2(m, tk, w) = m[t1][w[2]]
        /\ E3(m, tk, w) = m[t2][w[3]] /\ E4(m, tk, w) = m[t3][w[4]]
    BY Zenon DEF E1, E2, E3, E4
  <1> HIDE DEF t, t1, t2, t3
  <1>6. \A u \in Frames : \A y \in Idx :
            (u # t \/ y # v[4]) /\ (u # K3 \/ y # N - 1) => m2[u][y] = m[u][y]
    BY DEF t
  <1>7. /\ m2[tk][w[1]] = m[tk][w[1]] /\ m2[t1][w[2]] = m[t1][w[2]]
        /\ m2[t2][w[3]] = m[t2][w[3]] /\ m2[t3][w[4]] = m[t3][w[4]]
    <2>1. tk # t /\ tk # K3 /\ t1 # t /\ t1 # K3 /\ t2 # t /\ t2 # K3
      BY <1>1, <1>3
    <2> QED
      BY <1>3, <1>4, <1>6, <2>1
  <1>8. E1(m2, tk, w) = E1(m, tk, w)
    BY <1>5, <1>7 DEF E1
  <1>9. E2(m2, tk, w) = E2(m, tk, w)
    BY <1>5, <1>7, <1>8 DEF E2, t1
  <1>10. E3(m2, tk, w) = E3(m, tk, w)
    BY <1>5, <1>7, <1>9 DEF E3, t2
  <1>11. E4(m2, tk, w) = E4(m, tk, w)
    BY <1>5, <1>7, <1>10 DEF E4, t3
  <1> QED
    BY <1>8, <1>9, <1>10, <1>11 DEF Way4, Way3, Way2, Way1

(* A change of a page table leaves the tables above it as they are.         *)
LEMMA AboveKept ==
    ASSUME NEW m \in Memory, NEW m2 \in Memory, NEW r, NEW tk \in Frames,
           Roles(r, m, tk), KernelTables(m, tk), NEW root, NEW v, Callable(root, v, tk),
           Way3(m, root, v), NEW t \in Frames, r[t] = 4,
           \A u \in Frames : \A y \in Idx : u # t => m2[u][y] = m[u][y]
    PROVE  Way3(m2, root, v) /\ E3(m2, root, v) = E3(m, root, v)
  <1> DEFINE t1 == E1(m, root, v).f
             t2 == E2(m, root, v).f
  <1>1. Way1(m, root, v) /\ Way2(m, root, v)
    BY DEF Way3, Way2
  <1>2. /\ root \in Frames /\ r[root] = 1 /\ v[1] \in Idx /\ v[2] \in Idx /\ v[3] \in Idx
        /\ t1 \in Frames /\ r[t1] = 2 /\ t2 \in Frames /\ r[t2] = 3
    BY <1>1, CallWay
  <1>3. /\ E1(m, root, v) = m[root][v[1]] /\ E2(m, root, v) = m[t1][v[2]]
        /\ E3(m, root, v) = m[t2][v[3]]
    BY Zenon DEF E1, E2, E3
  <1> HIDE DEF t1, t2
  <1>4. root # t /\ t1 # t /\ t2 # t
    BY <1>2
  <1>5. /\ m2[root][v[1]] = m[root][v[1]] /\ m2[t1][v[2]] = m[t1][v[2]]
        /\ m2[t2][v[3]] = m[t2][v[3]]
    BY <1>2, <1>4
  <1>6. E1(m2, root, v) = E1(m, root, v)
    BY <1>3, <1>5 DEF E1
  <1>7. E2(m2, root, v) = E2(m, root, v)
    BY <1>3, <1>5, <1>6 DEF E2, t1
  <1>8. E3(m2, root, v) = E3(m, root, v)
    BY <1>3, <1>5, <1>7 DEF E3, t2
  <1> QED
    BY <1>6, <1>7, <1>8 DEF Way3, Way2, Way1

(* The frames of the page that map_page is about to map over: one or none. *)
Old == IF Present(Entry) THEN {Entry.f} ELSE {}

(* The tables as they would be with that page taken out first.             *)
Vacated(r, m, q) ==
    /\ m \in Memory /\ q \in [Frames -> 0 .. 5]
    /\ Roles(q, m, task) /\ KernelTables(m, task) /\ ~Linked(m, tab, call.va[4])
    /\ \A u \in Frames : \A y \in Idx : u # tab \/ y # call.va[4] => m[u][y] = mem[u][y]
    /\ \A f \in Frames \ Old : q[f] = r[f]
    /\ \A f \in Old : f \in Frames /\ q[f] = 0

LEMMA Vacate ==
    ASSUME VmmInv, pc = "map", level = 4, NEW r \in [Frames -> 0 .. 5], Built(r)
    PROVE  /\ \E m, q : Vacated(r, m, q)
           /\ \A f \in Old : /\ f \in Frames /\ (r[f] = 5 \/ f = NULL)
                             /\ f \in KernelFrames => f = NULL /\ lent0
  <1> USE Constants
  <1> DEFINE x == call.va[4]
             h == Entry.f
  <1>1. mem \in Memory /\ task \in Frames /\ KernelTables(mem, task) /\ Calling
    BY Given
  <1>2. /\ Roles(r, mem, task) /\ RoleOnce(r, mem) /\ RoleLeaf(r, mem, task)
        /\ RoleKernel(r) /\ r[K3] = 4 /\ r[pml4t] = 1 /\ r[K1] = 2 /\ r[K2] = 3
    BY RoleBasics DEF Built, Roles
  <1>3. tab \in Frames /\ r[tab] = 4 /\ tab # K3 /\ x \in Idx /\ Way3(mem, call.root, call.va)
    BY WalkFacts
  <1>4. Entry = mem[tab][x] /\ (Present(Entry) <=> Linked(mem, tab, x))
    BY DEF Entry, Linked
  <1> HIDE DEF x
  <1>5. CASE ~Present(Entry)
    <2>1. Old = {}
      BY <1>5 DEF Old
    <2>2. Vacated(r, mem, r)
      BY <1>1, <1>2, <1>4, <1>5, <2>1 DEF Vacated, x
    <2> QED
      BY <2>1, <2>2
  <1>6. CASE Present(Entry)
    <2>1. Old = {h} /\ Linked(mem, tab, x) /\ mem[tab][x].f = h
      BY <1>4, <1>6 DEF Old
    <2>2. h \in Frames
      BY <1>1, <1>3, <2>1, EntryFrame
    <2> HIDE DEF h
    <2>3. r[h] = 5 \/ h \in {NULL, task}
      BY <1>2, <1>3, <2>1 DEF RoleLeaf
    <2>4. task # NULL => h # task
      <3>1. SUFFICES ASSUME task # NULL, h = task
                     PROVE  FALSE
        OBVIOUS
      <3>2. UserCall /\ tab = E3(mem, task, call.va).f
        BY <1>1, <3>1 DEF Calling, TaskCall, UserCall, OnTheWay
      <3>3. tab # mem[K2][1].f
        BY <1>1, <1>2, <1>3, <3>1, <3>2, UserWay DEF UserCall
      <3>4. /\ mem[K2][1].f \in Frames /\ r[mem[K2][1].f] = 4 /\ mem[K2][1].f # K3
            /\ Linked(mem, mem[K2][1].f, 0) /\ mem[mem[K2][1].f][0].f = TaskFrame
            /\ task = TaskFrame
        BY <1>1, <1>2, <3>1, TaskTable DEF KernelTables
      <3> QED
        BY <1>2, <1>3, <2>1, <3>1, <3>3, <3>4, SMTT(30) DEF RoleOnce
    <2>5. r[h] = 5 \/ h = NULL
      BY <2>3, <2>4
    <2>6. h \in KernelFrames => h = NULL /\ lent0
      <3>1. h = NULL => lent0
        BY <1>3, <2>1 DEF Built, NullLent
      <3>2. r[h] = 5 => h \notin KernelFrames
        BY <1>2 DEF RoleKernel
      <3> QED
        BY <2>5, <3>1, <3>2
    <2> DEFINE m == [mem EXCEPT ![tab][x] = Zero]
               q == [r EXCEPT ![h] = 0]
    <2>7. /\ m \in Memory /\ m[tab][x] = Zero
          /\ \A u \in Frames : \A y \in Idx : u # tab \/ y # x => m[u][y] = mem[u][y]
      BY <1>1, <1>3, FlagFacts, SetEntry
    <2>8. q \in [Frames -> 0 .. 5] /\ q[h] = 0 /\ \A f \in Frames \ {h} : q[f] = r[f]
      BY <2>2
    <2> HIDE DEF m
    <2>9. PageDropped(mem, m, r, task, tab, x, h)
      BY ONLY <1>1, <1>2, <1>3, <2>1, <2>2, <2>5, <2>7 DEF PageDropped
    <2>10. Roles(q, m, task) /\ KernelTables(m, task)
      BY <2>9, DropPage
    <2>11. ~Linked(m, tab, x)
      BY <2>7, FlagFacts DEF Linked
    <2> HIDE DEF q
    <2>12. Vacated(r, m, q)
      BY <2>1, <2>2, <2>7, <2>8, <2>10, <2>11 DEF Vacated, x
    <2> QED
      BY <2>1, <2>2, <2>5, <2>6, <2>12
  <1> QED
    BY <1>5, <1>6

(* The pages there are: the kernel's, and those that can be mapped later.  *)
AllVas == KernelVas \cup LaterVas

(* What the last level of map_page does to one entry, and nothing else.    *)
PteEffect ==
    /\ pc # "boot" /\ pc' # "boot" /\ task' = task
    /\ mem' \in Memory /\ tab \in Frames /\ call.f \in Frames
    /\ call.root = Root /\ call.va \in LaterVas
    /\ Way3(mem, call.root, call.va) /\ E3(mem, call.root, call.va).f = tab
    /\ Way3(mem', call.root, call.va) /\ E3(mem', call.root, call.va).f = tab
    /\ Way4(mem', call.root, call.va) /\ E4(mem', call.root, call.va).f = call.f
    /\ \A u \in Frames : \A y \in Idx : u # tab \/ y # call.va[4] => mem'[u][y] = mem[u][y]

LEMMA TaskVaLater == TaskVa \in LaterVas
  BY Constants DEF TaskVa, LaterVas

LEMMA WritePteStep == VmmInv /\ WritePte => VmmInv' /\ PteEffect
  <1> SUFFICES ASSUME VmmInv, WritePte
               PROVE  VmmInv' /\ PteEffect
    OBVIOUS
  <1> USE Constants
  <1> DEFINE root == call.root
             va == call.va
             g == call.f
             e == [f |-> call.f, fl |-> call.fl]
  <1>1. /\ pc = "map" /\ level = 4
        /\ mem' = [mem EXCEPT ![tab][va[4]] = e]
        /\ asked' = [v \in DOMAIN asked \cup {va} |->
                        IF v = va THEN call.fl ELSE asked[v]]
        /\ pc' = call.then
        /\ call' = IF call.then = "task" THEN call ELSE NoCall
        /\ level' = 0 /\ tab' = 0
        /\ lost' = lost \cup Old
        /\ UNCHANGED <<used, lent0, task, tlb, stale>>
    BY DEF WritePte, Pte, alloc, Old
  <1>2. /\ TypeOK /\ mem \in Memory /\ task \in Frames /\ used \subseteq Frames
        /\ KernelTables(mem, task) /\ Calling /\ AskedFor /\ Fresh
    BY <1>1, Given
  <1>3. PICK r \in [Frames -> 0 .. 5] : Built(r)
    BY <1>1, Given
  <1>4. Roles(r, mem, task)
    BY <1>3 DEF Built
  <1>5. /\ Callable(root, va, task)
        /\ tab \in Frames /\ r[tab] = 4 /\ tab # K3
        /\ va[4] \in Idx /\ g \in Frames /\ call.fl \in SUBSET Flags /\ "P" \in call.fl
        /\ Entry = E4(mem, root, va) /\ Way3(mem, root, va)
    BY <1>1, <1>3, WalkFacts
  <1>6. e \in EntryType /\ e.f = g /\ e.fl = call.fl /\ Present(e)
    BY <1>5 DEF EntryType, Present
  <1>7. r[g] = 0 /\ (g \in KernelFrames \cup lost => g = NULL)
    BY <1>1, <1>3 DEF Built, Pending
  <1>8. /\ TaskCall \/ UserCall
        /\ g = NULL => lent0
        /\ tab = E3(mem, root, va).f
    BY <1>1, <1>2 DEF Calling, OnTheWay
  <1>9. PICK m0, r0 : Vacated(r, m0, r0)
    BY <1>1, <1>3, Vacate
  <1> HIDE DEF root, va, g, e
  <1>10. /\ mem' \in Memory /\ mem'[tab][va[4]] = e
         /\ \A u \in Frames : \A y \in Idx : u # tab \/ y # va[4] => mem'[u][y] = mem[u][y]
    BY ONLY <1>1, <1>2, <1>5, <1>6 DEF Memory
  <1>11. Linked(mem', tab, va[4]) /\ mem'[tab][va[4]].f = g
    BY <1>6, <1>10 DEF Linked
  <1>12. /\ m0 \in Memory /\ r0 \in [Frames -> 0 .. 5]
         /\ Roles(r0, m0, task) /\ KernelTables(m0, task) /\ ~Linked(m0, tab, va[4])
         /\ \A u \in Frames : \A y \in Idx : u # tab \/ y # va[4] => m0[u][y] = mem[u][y]
         /\ \A f \in Frames \ Old : r0[f] = r[f]
         /\ \A f \in Old : f \in Frames /\ r0[f] = 0
    BY <1>9 DEF Vacated, va
  <1>13. \A f \in Old : /\ f \in Frames /\ (r[f] = 5 \/ f = NULL)
                        /\ f \in KernelFrames => f = NULL /\ lent0
    BY <1>1, <1>3, Vacate
  <1>14. r[NULL] = 0 /\ tab \notin Old
    BY <1>4, <1>5, <1>13, RoleBasics
  <1>15. r0[tab] = 4 /\ r0[g] = 0
    BY <1>5, <1>7, <1>12, <1>14
  <1>16. \A u \in Frames : \A y \in Idx : u # tab \/ y # va[4] => mem'[u][y] = m0[u][y]
    BY <1>10, <1>12
  <1>17. PageAdded(m0, mem', r0, task, tab, va[4], g)
    BY ONLY <1>2, <1>5, <1>7, <1>10, <1>11, <1>12, <1>15, <1>16 DEF PageAdded
  <1>18. /\ Roles([r0 EXCEPT ![g] = IF g = NULL THEN 0 ELSE 5], mem', task)
         /\ KernelTables(mem', task)
    BY <1>17, AddPage
  <1>19. PICK q \in [Frames -> 0 .. 5] : q = [r0 EXCEPT ![g] = IF g = NULL THEN 0 ELSE 5]
    <2>1. (IF g = NULL THEN 0 ELSE 5) \in 0 .. 5
      OBVIOUS
    <2> QED
      BY <1>12, <2>1
  <1>20. /\ (g # NULL => q[g] = 5) /\ (g = NULL => q[g] = 0) /\ g \notin Old \ {NULL}
         /\ \A f \in Frames \ Old : f # g => q[f] = r[f]
         /\ \A f \in Old : q[f] = 0
    <2>1. g \notin Old \ {NULL}
      BY <1>7, <1>13
    <2> QED
      BY <1>5, <1>19, <1>12, <2>1
  <1>21. TypeOK'
    <2>1. pc' \in {"boot", "idle", "map", "task", "panic"}
      BY <1>1, <1>8 DEF TaskCall, UserCall
    <2>2. mem' \in [Frames -> [0 .. N - 1 -> [f : Frames, fl : SUBSET Flags]]]
      BY <1>10 DEF Memory, Idx, EntryType
    <2>3. level' \in 0 .. 4 /\ tab' \in Frames /\ lost' \subseteq Frames
      BY <1>1, <1>2, <1>13 DEF NULL, TypeOK
    <2> QED
      BY <1>1, <1>2, <2>1, <2>2, <2>3 DEF TypeOK
  <1>22. /\ Way3(mem', root, va) /\ E3(mem', root, va).f = tab
         /\ Way4(mem', root, va) /\ E4(mem', root, va) = e
    <2>1. Way3(mem', root, va) /\ E3(mem', root, va) = E3(mem, root, va)
      <3>1. \A u \in Frames : \A y \in Idx : u # tab => mem'[u][y] = mem[u][y]
        BY <1>10
      <3> QED
        BY <1>2, <1>4, <1>5, <1>10, <3>1, AboveKept
    <2>2. E4(mem', root, va) = e
      BY <1>8, <1>10, <2>1 DEF E4
    <2> QED
      BY <1>6, <1>8, <2>1, <2>2 DEF Way4
  <1>23. ASSUME NEW v \in UserVas, task # NULL, Way4(mem, task, v), v # va
         PROVE  Way4(mem', task, v) /\ E4(mem', task, v) = E4(mem, task, v)
    <2>1. va \in UserVas /\ root = task
      BY <1>8, <1>23 DEF TaskCall, UserCall, root, va
    <2>2. \A u \in Frames : \A y \in Idx :
             (u # E3(mem, task, va).f \/ y # va[4]) /\ (u # K3 \/ y # N - 1)
                 => mem'[u][y] = mem[u][y]
      BY <1>8, <1>10, <2>1
    <2> QED
      BY <1>2, <1>4, <1>5, <1>10, <1>23, <2>1, <2>2, OthersKept
  <1>24. Fresh'
    <2>1. SUFFICES ASSUME NEW d \in tlb
                   PROVE  task # NULL /\ (d \in stale \/ d[2] \in lost' \/ InForce(d)')
      BY <1>1 DEF Fresh
    <2>2. d[1] \in UserVas
      BY <1>2, VmmAssumption DEF TypeOK
    <2>3. task # NULL /\ (d \in stale \/ d[2] \in lost \/ InForce(d))
      BY <1>2 DEF Fresh
    <2>4. CASE InForce(d) /\ d[1] # va
      BY <1>1, <1>23, <2>2, <2>3, <2>4 DEF InForce
    <2>5. CASE InForce(d) /\ d[1] = va
      <3>1. root = task
        BY <1>8, <2>3 DEF TaskCall, UserCall, root
      <3>2. Present(Entry) /\ Entry.f = d[2]
        BY <1>5, <2>5, <3>1 DEF InForce, Way4
      <3> QED
        BY <1>1, <2>3, <3>2 DEF Old
    <2> QED
      BY <1>1, <2>3, <2>4, <2>5
  <1>25. \A v \in DOMAIN asked : v # va => asked'[v] = asked[v]
    BY <1>1
  <1>26. DOMAIN asked' = DOMAIN asked \cup {va} /\ asked'[va] = call.fl
    BY <1>1
  <1>27. ASSUME NEW v \in UserVas \cap DOMAIN asked, v # va
         PROVE  /\ task # NULL /\ Way4(mem', task, v)
                /\ E4(mem', task, v).fl = asked'[v] /\ asked'[v] \in UserFlags
    BY <1>2, <1>23, <1>25, <1>27 DEF AskedFor
  <1>28. Over(q)'
    <2>1. SUFFICES ASSUME NEW f \in lost \cup Old
                   PROVE  q[f] = 0 /\ (f \in KernelFrames => f = NULL /\ lent0)
      BY <1>1 DEF Over
    <2>2. CASE f \in Old
      BY <1>20, <1>13, <2>2
    <2>3. CASE f \in lost /\ f \notin Old
      <3>1. f \in Frames /\ r[f] = 0 /\ (f \in KernelFrames => f = NULL /\ lent0)
        BY <1>2, <1>3, <2>3 DEF TypeOK, Built, Over
      <3> QED
        BY <1>7, <1>20, <2>3, <3>1
    <2> QED
      BY <2>1, <2>2, <2>3
  <1>29. NullLent(q)'
    <2>1. SUFFICES ASSUME ~lent0, NEW t \in Frames, NEW y \in Idx,
                          q[t] = 4, t # K3, Linked(mem', t, y)
                   PROVE  mem'[t][y].f # NULL
      BY <1>1 DEF NullLent
    <2>2. CASE t = tab /\ y = va[4]
      BY <1>8, <1>11, <2>1, <2>2
    <2>3. CASE t # tab \/ y # va[4]
      <3>1. r[t] = 4
        BY <1>5, <1>20, <2>1
      <3>2. mem'[t][y] = mem[t][y]
        BY <1>10, <2>3
      <3> QED
        BY <1>3, <2>1, <3>1, <3>2 DEF Built, NullLent, Linked
    <2> QED
      BY <2>2, <2>3
  <1>30. Roles(q, mem', task')
    BY <1>1, <1>18, <1>19
  <1>31. used = KernelFrames \cup {f \in Frames : r[f] # 0} \cup {g} \cup lost
    BY <1>3 DEF Built, Marked, g
  <1>32. used = KernelFrames \cup {f \in Frames : q[f] # 0} \cup lost'
    <2>1. lost \subseteq Frames /\ lost' = lost \cup Old /\ NULL \in KernelFrames
      BY <1>1, <1>2 DEF TypeOK
    <2>2. ASSUME NEW f \in used
          PROVE  f \in KernelFrames \/ (f \in Frames /\ q[f] # 0) \/ f \in lost'
      BY <1>5, <1>20, <1>31, <2>1, <2>2
    <2>3. ASSUME NEW f \in Frames, q[f] # 0
          PROVE  f \in used
      BY <1>5, <1>20, <1>31, <2>3
    <2>4. ASSUME NEW f \in Old
          PROVE  f \in used
      BY <1>31, <1>13, <2>1, <2>4
    <2> QED
      BY <1>31, <2>1, <2>2, <2>3, <2>4
  <1>33. PteEffect
    <2>1. call.root = Root /\ call.va \in LaterVas
      BY <1>8, TaskVaLater DEF TaskCall, UserCall, Root, LaterVas
    <2>2. pc' # "boot"
      BY <1>1, <1>8 DEF TaskCall, UserCall
    <2> QED
      BY <1>1, <1>5, <1>6, <1>8, <1>10, <1>22, <2>1, <2>2 DEF PteEffect, root, va, g
  <1>34. CASE TaskCall
    <2>1. /\ task = NULL /\ root = pml4t /\ va = TaskVa /\ g = TaskFrame /\ call.then = "task"
      BY <1>34 DEF TaskCall, root, va, g
    <2>2. pc' = "task" /\ call' = call
      BY <1>1, <2>1
    <2>3. TaskCall'
      BY <1>1, <1>34, <2>2 DEF TaskCall
    <2>4. Calling'
      BY <1>6, <1>22, <2>1, <2>2, <2>3 DEF Calling
    <2>5. AskedFor'
      BY <1>1, <1>26, <1>27, <2>1, UserPages DEF AskedFor
    <2>6. Built(q)'
      <3>1. Pending(q)'
        BY <2>2 DEF Pending
      <3>2. Marked(q)'
        BY <1>1, <1>20, <1>32, <2>1, <2>2 DEF Marked, g
      <3> QED
        BY <1>29, <1>30, <1>28, <3>1, <3>2 DEF Built
    <2> QED
      BY <1>1, <1>18, <1>21, <1>24, <1>33, <2>2, <2>4, <2>5, <2>6 DEF VmmInv
  <1>35. CASE UserCall
    <2>1. /\ task # NULL /\ root = task /\ va \in UserVas /\ call.fl \in UserFlags
          /\ call.then = "idle"
      BY <1>35 DEF UserCall, root, va
    <2>2. pc' = "idle" /\ call' = NoCall
      BY <1>1, <2>1
    <2>3. Calling'
      BY <1>1, <2>1, <2>2 DEF Calling
    <2>4. AskedFor'
      <3>1. Way4(mem', task, va) /\ E4(mem', task, va).fl = asked'[va]
        BY <1>6, <1>22, <1>26, <2>1
      <3> QED
        BY <1>1, <1>26, <1>27, <2>1, <3>1 DEF AskedFor
    <2>5. Built(q)'
      <3>1. Pending(q)'
        BY <2>2 DEF Pending
      <3>2. call'.f = NULL
        BY <2>2 DEF NoCall, NULL
      <3>3. Marked(q)'
        BY <1>1, <1>32, <3>2 DEF Marked
      <3> QED
        BY <1>29, <1>30, <1>28, <3>1, <3>3 DEF Built
    <2> QED
      BY <1>1, <1>18, <1>21, <1>24, <1>33, <2>2, <2>3, <2>4, <2>5 DEF VmmInv
  <1> QED
    BY <1>8, <1>34, <1>35

(* What the copy of the pml4t does.                                        *)
CopyEffect ==
    /\ pc # "boot" /\ pc' # "boot" /\ task = NULL /\ task' = TaskFrame
    /\ mem' \in Memory
    /\ \E r \in [Frames -> 0 .. 5] : Built(r) /\ r[TaskFrame] = 5
    /\ \A y \in Idx : mem'[TaskFrame][y] = mem[pml4t][y]
    /\ \A u \in Frames : \A y \in Idx :
          u # TaskFrame /\ (u # K3 \/ y # N - 1) => mem'[u][y] = mem[u][y]

LEMMA TaskCopyStep == VmmInv /\ TaskCopy => VmmInv' /\ CopyEffect
  <1> SUFFICES ASSUME VmmInv, TaskCopy
               PROVE  VmmInv' /\ CopyEffect
    OBVIOUS
  <1> USE Constants
  <1>1. pc = "task" /\ pc' = "idle" /\ call' = NoCall /\ tlb' = {}
        /\ UNCHANGED <<used, lent0, level, tab, asked, lost, stale>>
    BY DEF TaskCopy, alloc, history
  <1>2. /\ TypeOK /\ mem \in Memory /\ task \in Frames /\ used \subseteq Frames
        /\ KernelTables(mem, task) /\ Calling /\ AskedFor /\ Fresh
    BY <1>1, Given
  <1>3. PICK r \in [Frames -> 0 .. 5] : Built(r)
    BY <1>1, Given
  <1>4. /\ task = NULL /\ call.f = TaskFrame /\ call.va = TaskVa
        /\ Way4(mem, pml4t, TaskVa) /\ E4(mem, pml4t, TaskVa).f = TaskFrame
    BY <1>1, <1>2 DEF Calling, TaskCall
  <1>5. Roles(r, mem, NULL) /\ KernelTables(mem, NULL)
    BY <1>2, <1>3, <1>4 DEF Built
  <1> DEFINE copied == [mem EXCEPT ![TaskFrame] = mem[pml4t]]
             T == mem[K2][1].f
  <1>6. /\ T \in Frames /\ r[T] = 4 /\ T # K3 /\ Linked(mem, T, 0) /\ mem[T][0].f = TaskFrame
    BY <1>2, <1>4, <1>5, TaskTable
  <1>7. /\ mem[pml4t][N - 1].f = K1 /\ mem[K1][N - 2].f = K2 /\ mem[K2][0].f = K3
    BY <1>2, KernelLinks
  <1>8. /\ copied \in Memory /\ copied[TaskFrame] = mem[pml4t]
        /\ \A u \in Frames : u # TaskFrame => copied[u] = mem[u]
    BY <1>2 DEF Memory
  <1>9. T # TaskFrame
    <2>1. r[T] = 4 /\ r[TaskFrame] \in {0, 5}
      <3>1. r[mem[T][0].f] = 5 \/ mem[T][0].f \in {NULL}
        BY <1>5, <1>6 DEF Roles, RoleLeaf
      <3> QED
        BY <1>6, <3>1
    <2> QED
      BY <2>1
  <1> HIDE DEF copied, T
  <1>10. TempPt(copied) = K3
    BY <1>7, <1>8 DEF TempPt
  <1>11. Path(copied, pml4t, TaskVa) = <<K1, K2, T, TaskFrame>>
    <2>1. /\ copied[pml4t][N - 1].f = K1 /\ copied[K1][N - 2].f = K2
          /\ copied[K2][1].f = T /\ copied[T][0].f = TaskFrame
      BY <1>6, <1>7, <1>8, <1>9 DEF T
    <2> QED
      BY <2>1, TaskPage, Zenon DEF Path
  <1>12. mem' = TempMap(copied, T) /\ task' = TaskFrame
    <2>1. mem' = TempMap(copied, Path(copied, pml4t, TaskVa)[3])
          /\ task' = Path(copied, pml4t, TaskVa)[4]
      BY <1>4 DEF TaskCopy, copied
    <2> QED
      BY <1>11, <2>1
  <1> DEFINE te == [f |-> T, fl |-> {"P", "W", "PCD"}]
  <1>13. te \in EntryType
    BY <1>6, FlagFacts DEF EntryType
  <1>14. mem' = [copied EXCEPT ![K3][N - 1] = te]
    BY <1>10, <1>12 DEF TempMap
  <1> HIDE DEF te
  <1>15. K3 \in Frames /\ N - 1 \in Idx
    OBVIOUS
  <1>16. /\ mem' \in Memory
         /\ \A u \in Frames : \A y \in Idx : u # K3 \/ y # N - 1 => mem'[u][y] = copied[u][y]
    BY ONLY <1>8, <1>13, <1>14, <1>15 DEF Memory
  <1>17. \A u \in Frames : \A y \in Idx :
            u # TaskFrame /\ (u # K3 \/ y # N - 1) => mem'[u][y] = mem[u][y]
    BY <1>8, <1>16
  <1>18. \A y \in Idx : mem'[TaskFrame][y] = mem[pml4t][y]
    BY <1>8, <1>16
  <1>19. RootAdded(mem, mem', r)
    BY <1>2, <1>4, <1>5, <1>16, <1>17, <1>18 DEF RootAdded
  <1>20. /\ r[TaskFrame] = 5
         /\ Roles([r EXCEPT ![TaskFrame] = 1], mem', TaskFrame)
         /\ KernelTables(mem', TaskFrame)
    BY <1>19, AddRoot
  <1>21. PICK q \in [Frames -> 0 .. 5] : q = [r EXCEPT ![TaskFrame] = 1]
    <2>1. 1 \in 0 .. 5
      OBVIOUS
    <2> QED
      BY <2>1
  <1>22. q[TaskFrame] = 1 /\ \A f \in Frames : f # TaskFrame => q[f] = r[f]
    BY <1>21
  <1>23. TypeOK'
    <2>1. mem' \in [Frames -> [0 .. N - 1 -> [f : Frames, fl : SUBSET Flags]]]
      BY <1>16 DEF Memory, Idx, EntryType
    <2>2. task' \in Frames /\ stale = {}
      BY <1>2, <1>4, <1>12 DEF Fresh, TypeOK
    <2> QED
      BY <1>1, <1>2, <2>1, <2>2 DEF TypeOK
  <1>24. Calling'
    BY <1>1, <1>12 DEF Calling
  <1>25. AskedFor' /\ Fresh'
    BY <1>1, <1>2, <1>4 DEF AskedFor, Fresh
  <1>26. Built(q)'
    <2>1. Roles(q, mem', task')
      BY <1>12, <1>20, <1>21
    <2>2. Pending(q)' /\ Over(q)'
      <3>1. \A f \in lost : f \in Frames /\ f # TaskFrame
        BY <1>2, <1>3, <1>20 DEF TypeOK, Built, Over
      <3> QED
        BY <1>1, <1>3, <1>22, <3>1 DEF Pending, Built, Over
    <2>3. Marked(q)'
      <3>1. {f \in Frames : q[f] # 0} = {f \in Frames : r[f] # 0}
        BY <1>20, <1>22
      <3>2. used = KernelFrames \cup {f \in Frames : r[f] # 0} \cup {TaskFrame} \cup lost
        BY <1>3, <1>4 DEF Built, Marked
      <3>3. call'.f = NULL
        BY <1>1 DEF NoCall, NULL
      <3> QED
        BY <1>1, <1>20, <3>1, <3>2, <3>3 DEF Marked
    <2>4. NullLent(q)'
      <3>1. SUFFICES ASSUME ~lent0, NEW t \in Frames, NEW y \in Idx,
                            q[t] = 4, t # K3, Linked(mem', t, y)
                     PROVE  mem'[t][y].f # NULL
        BY <1>1 DEF NullLent
      <3>2. t # TaskFrame /\ r[t] = 4
        BY <1>22, <3>1
      <3>3. mem'[t][y] = mem[t][y]
        BY <1>17, <3>1, <3>2
      <3> QED
        BY <1>3, <3>1, <3>2, <3>3 DEF Built, NullLent, Linked
    <2> QED
      BY <2>1, <2>2, <2>3, <2>4 DEF Built
  <1>27. CopyEffect
    BY <1>1, <1>3, <1>4, <1>12, <1>16, <1>17, <1>18, <1>20 DEF CopyEffect
  <1> QED
    BY <1>1, <1>12, <1>20, <1>23, <1>24, <1>25, <1>26, <1>27 DEF VmmInv

LEMMA LookupStep == VmmInv /\ Lookup => VmmInv' /\ TempEffect
  <1> SUFFICES ASSUME VmmInv, NEW v \in UserVas, Mapped(v), get_physical_address(v)
               PROVE  VmmInv' /\ TempEffect
    BY DEF Lookup
  <1> USE Constants
  <1> DEFINE g == E3(mem, task, v).f
  <1>1. /\ pc = "idle" /\ task # NULL /\ mem' = TempMap(mem, g)
        /\ UNCHANGED <<pc, used, lent0, call, level, tab, task, tlb, asked, lost, stale>>
    BY Zenon DEF get_physical_address, alloc, walk, history, Path, E1, E2, E3
  <1>2. /\ TypeOK /\ mem \in Memory /\ task \in Frames /\ used \subseteq Frames
        /\ KernelTables(mem, task) /\ Calling
    BY <1>1, Given
  <1>3. PICK r \in [Frames -> 0 .. 5] : Built(r)
    BY <1>1, Given
  <1>4. Roles(r, mem, task)
    BY <1>3 DEF Built
  <1>5. Way4(mem, task, v)
    BY TranslateWay DEF Mapped
  <1>6. g \in Frames
    BY <1>1, <1>2, <1>4, <1>5, UserWay DEF Way4
  <1> HIDE DEF g
  <1>7. /\ mem' \in Memory
        /\ \A u \in Frames : \A y \in Idx : u # K3 \/ y # N - 1 => mem'[u][y] = mem[u][y]
    BY <1>1, <1>2, <1>6, TempEntry
  <1>8. /\ Roles(r, mem', task) /\ KernelTables(mem', task) /\ Extends(r, mem, mem')
    BY <1>2, <1>4, <1>7, TempKeeps
  <1>9. AskedFor' /\ Fresh'
    BY <1>1, <1>3, <1>7, <1>8, PagesKept
  <1>10. TypeOK'
    <2>1. mem' \in [Frames -> [0 .. N - 1 -> [f : Frames, fl : SUBSET Flags]]]
      BY <1>7 DEF Memory, Idx, EntryType
    <2> QED
      BY <1>1, <1>2, <2>1 DEF TypeOK
  <1>11. Calling'
    BY <1>1, <1>2 DEF Calling
  <1>12. Built(r)'
    <2>1. Pending(r)' /\ Over(r)' /\ Marked(r)'
      BY <1>1, <1>3 DEF Built, Pending, Over, Marked
    <2>2. NullLent(r)'
      BY <1>1, <1>3, <1>7 DEF Built, NullLent, Linked
    <2> QED
      BY <1>1, <1>8, <2>1, <2>2 DEF Built
  <1>13. TempEffect
    BY <1>1, <1>7 DEF TempEffect
  <1> QED
    BY <1>1, <1>8, <1>9, <1>10, <1>11, <1>12, <1>13 DEF VmmInv

(* What unmap_page does: the page disappears, nothing else.                *)
DropEffect(v) ==
    /\ pc # "boot" /\ pc' # "boot" /\ task # NULL /\ task' = task
    /\ mem' \in Memory /\ Way4(mem, task, v) /\ mem'[E3(mem, task, v).f][v[4]] = Zero
    /\ \A u \in Frames : \A y \in Idx :
          (u # E3(mem, task, v).f \/ y # v[4]) /\ (u # K3 \/ y # N - 1)
              => mem'[u][y] = mem[u][y]

LEMMA UnmapStep == VmmInv /\ Unmap => VmmInv' /\ \E v \in UserVas : DropEffect(v)
  <1> SUFFICES ASSUME VmmInv, NEW v \in UserVas, Mapped(v), Translate(task, v) # NULL,
                      InTable(v) > 1, unmap_page(v)
               PROVE  VmmInv' /\ DropEffect(v)
    BY DEF Unmap
  <1> USE Constants
  <1> DEFINE t1 == E1(mem, task, v).f
             t2 == E2(mem, task, v).f
             t == E3(mem, task, v).f
             x == v[4]
             g == E4(mem, task, v).f
             cleared == [mem EXCEPT ![t][x] = Zero]
             path == <<t1, t2, t, g>>
  <1>1. Path(mem, task, v) = path
    BY DEF Path, E1, E2, E3, E4
  <1>2. path[1] = t1 /\ path[2] = t2 /\ path[3] = t /\ path[4] = g
    OBVIOUS
  <1>3. /\ pc = "idle" /\ task # NULL
        /\ mem' = TempMap(cleared, t1)
        /\ used' = used \ Freed(mem', path)
        /\ asked' = [w \in DOMAIN asked \ {v} |-> asked[w]]
        /\ stale' = stale \cup ({<<v, g>>} \cap tlb)
        /\ UNCHANGED <<pc, call, level, tab, task, tlb, lost, lent0>>
    <2> HIDE DEF path
    <2> QED
      BY <1>1, <1>2 DEF unmap_page, walk
  <1>4. /\ TypeOK /\ mem \in Memory /\ task \in Frames /\ used \subseteq Frames
        /\ KernelTables(mem, task) /\ Calling /\ AskedFor /\ Fresh
    BY <1>3, Given
  <1>5. PICK r \in [Frames -> 0 .. 5] : Built(r)
    BY <1>3, Given
  <1>6. Roles(r, mem, task) /\ r[K3] = 4 /\ r[pml4t] = 1 /\ r[K1] = 2 /\ r[K2] = 3 /\ r[NULL] = 0
    BY <1>5, RoleBasics DEF Built
  <1>7. /\ Way1(mem, task, v) /\ Way2(mem, task, v) /\ Way3(mem, task, v)
        /\ Way4(mem, task, v) /\ Translate(task, v) = g
    <2>1. Way4(mem, task, v) /\ Translate(task, v) = g
      BY TranslateWay DEF Mapped
    <2> QED
      BY <2>1 DEF Way4, Way3, Way2
  <1>8. /\ t1 \in Frames /\ r[t1] = 2 /\ t2 \in Frames /\ r[t2] = 3
        /\ t \in Frames /\ r[t] = 4 /\ t # K3 /\ t # mem[K2][1].f
        /\ g \in Frames /\ r[task] = 1
    BY <1>3, <1>4, <1>6, <1>7, UserWay
  <1>9. x \in Idx /\ v[2] \in Idx /\ v[3] \in Idx
    BY UserPages
  <1>10. /\ Linked(mem, t1, v[2]) /\ Linked(mem, t2, v[3]) /\ Linked(mem, t, x)
         /\ mem[t][x].f = g
    BY <1>7, Zenon DEF Way4, Way3, Way2, Linked, E2, E3, E4
  <1>11. \E y \in Idx : y # x /\ Linked(mem, t, y)
    <2> DEFINE S == {y \in 0 .. N - 1 : Present(mem[t][y])}
    <2>1. Cardinality(S) > 1
      BY <1>1, <1>2 DEF InTable
    <2>2. SUFFICES ASSUME \A y \in Idx : Linked(mem, t, y) => y = x
                   PROVE  FALSE
      OBVIOUS
    <2>3. S = {x}
      BY <1>9, <1>10, <2>2 DEF Linked, Idx
    <2>4. Cardinality({x}) = 1
      BY FS_Singleton
    <2> HIDE DEF S
    <2> QED
      BY <2>1, <2>3, <2>4
  <1> HIDE DEF t1, t2, t, x, g, path
  <1>12. r[g] = 5
    <2>1. g # NULL
      BY <1>7
    <2>2. r[g] = 5 \/ g \in {NULL, task}
      BY <1>6, <1>8, <1>9, <1>10 DEF Roles, RoleLeaf
    <2>3. g # task
      <3>1. /\ mem[K2][1].f \in Frames /\ r[mem[K2][1].f] = 4 /\ mem[K2][1].f # K3
            /\ Linked(mem, mem[K2][1].f, 0) /\ mem[mem[K2][1].f][0].f = TaskFrame
            /\ task = TaskFrame
        BY <1>3, <1>4, <1>6, TaskTable DEF KernelTables
      <3>2. RoleOnce(r, mem)
        BY <1>6 DEF Roles
      <3> QED
        BY <1>8, <1>9, <1>10, <2>1, <3>1, <3>2, SMTT(30) DEF RoleOnce
    <2> QED
      BY <2>1, <2>2, <2>3
  <1>13. /\ cleared \in Memory /\ cleared[t][x] = Zero
         /\ \A u \in Frames : \A y \in Idx : u # t \/ y # x => cleared[u][y] = mem[u][y]
    <2>1. Zero \in EntryType
      BY FlagFacts
    <2> QED
      BY <1>4, <1>8, <1>9, <2>1 DEF Memory
  <1> HIDE DEF cleared
  <1>14. TempPt(cleared) = K3
    <2>1. t # pml4t /\ t # K1 /\ t # K2
      BY <1>6, <1>8
    <2>2. /\ cleared[pml4t][N - 1] = mem[pml4t][N - 1] /\ cleared[K1][N - 2] = mem[K1][N - 2]
          /\ cleared[K2][0] = mem[K2][0]
      BY <1>13, <2>1
    <2> QED
      BY <1>4, <2>2, KernelLinks DEF TempPt
  <1> DEFINE te == [f |-> t1, fl |-> {"P", "W", "PCD"}]
  <1>15. te \in EntryType
    BY <1>8, FlagFacts DEF EntryType
  <1>16. mem' = [cleared EXCEPT ![K3][N - 1] = te]
    BY <1>3, <1>14 DEF TempMap
  <1> HIDE DEF te
  <1>17. K3 \in Frames /\ N - 1 \in Idx
    OBVIOUS
  <1>18. /\ mem' \in Memory
         /\ \A u \in Frames : \A y \in Idx : u # K3 \/ y # N - 1 => mem'[u][y] = cleared[u][y]
    BY ONLY <1>13, <1>15, <1>16, <1>17 DEF Memory
  <1>19. mem'[t][x] = Zero
    BY <1>8, <1>9, <1>13, <1>18
  <1>20. \A u \in Frames : \A y \in Idx :
            (u # t \/ y # x) /\ (u # K3 \/ y # N - 1) => mem'[u][y] = mem[u][y]
    BY <1>13, <1>18
  <1>21. PageDropped(mem, mem', r, task, t, x, g)
    BY ONLY <1>4, <1>6, <1>8, <1>9, <1>10, <1>12, <1>18, <1>19, <1>20 DEF PageDropped
  <1>22. Roles([r EXCEPT ![g] = 0], mem', task) /\ KernelTables(mem', task)
    BY <1>21, DropPage
  <1>23. Freed(mem', path) = {g}
    <2>1. t1 # t /\ t1 # K3 /\ t2 # t /\ t2 # K3
      BY <1>6, <1>8
    <2>2. ~Empty(mem', t1)
      BY <1>8, <1>9, <1>10, <1>20, <2>1 DEF Empty, Linked, Idx
    <2>3. ~Empty(mem', t2)
      BY <1>8, <1>9, <1>10, <1>20, <2>1 DEF Empty, Linked, Idx
    <2>4. ~Empty(mem', t)
      BY <1>8, <1>11, <1>20 DEF Empty, Linked, Idx
    <2>5. {p \in {t1, t2, t} : Empty(mem', p)} = {}
      BY <2>2, <2>3, <2>4
    <2> QED
      BY <1>2, <2>5 DEF Freed
  <1>24. PICK q \in [Frames -> 0 .. 5] : q = [r EXCEPT ![g] = 0]
    <2>1. 0 \in 0 .. 5
      OBVIOUS
    <2> QED
      BY <2>1
  <1>25. q[g] = 0 /\ \A f \in Frames : f # g => q[f] = r[f]
    BY <1>8, <1>24
  <1>26. TypeOK'
    <2>1. mem' \in [Frames -> [0 .. N - 1 -> [f : Frames, fl : SUBSET Flags]]]
      BY <1>18 DEF Memory, Idx, EntryType
    <2>2. used' \subseteq Frames /\ stale' \subseteq tlb
      BY <1>3, <1>4 DEF TypeOK
    <2> QED
      BY <1>3, <1>4, <2>1, <2>2 DEF TypeOK
  <1>27. Calling'
    BY <1>3, <1>4 DEF Calling
  <1>28. ASSUME NEW w \in UserVas, w # v, Way4(mem, task, w)
         PROVE  Way4(mem', task, w) /\ E4(mem', task, w) = E4(mem, task, w)
    BY <1>3, <1>4, <1>6, <1>7, <1>18, <1>20, <1>28, OthersKept DEF t, x
  <1>29. AskedFor'
    BY <1>3, <1>4, <1>28 DEF AskedFor
  <1>30. Fresh'
    <2>1. SUFFICES ASSUME NEW e \in tlb
                   PROVE  e \in stale' \/ e[2] \in lost \/ InForce(e)'
      BY <1>3 DEF Fresh
    <2>2. e[1] \in UserVas /\ e = <<e[1], e[2]>>
      <3>1. PICK w \in TouchedVas, f \in Frames : e = <<w, f>>
        BY <1>4 DEF TypeOK
      <3>2. w \in UserVas
        BY VmmAssumption
      <3> QED
        BY <3>1, <3>2
    <2>3. e \in stale \/ e[2] \in lost \/ InForce(e)
      BY <1>4 DEF Fresh
    <2>4. CASE InForce(e) /\ e[1] # v
      BY <1>3, <1>28, <2>2, <2>4 DEF InForce
    <2>5. CASE InForce(e) /\ e[1] = v
      <3>1. e = <<v, g>>
        BY <2>2, <2>5 DEF InForce, g
      <3> QED
        BY <1>3, <3>1
    <2> QED
      BY <1>3, <2>3, <2>4, <2>5
  <1>31. Built(q)'
    <2>1. Roles(q, mem', task')
      BY <1>3, <1>22, <1>24
    <2>2. Pending(q)' /\ Over(q)'
      <3>1. \A f \in lost : f \in Frames /\ f # g
        BY <1>4, <1>5, <1>12 DEF TypeOK, Built, Over
      <3> QED
        BY <1>3, <1>5, <1>25, <3>1 DEF Pending, Built, Over
    <2>3. Marked(q)'
      <3>1. call.f = NULL
        BY <1>3, <1>4 DEF Calling, NoCall, NULL
      <3>2. used = KernelFrames \cup {f \in Frames : r[f] # 0} \cup lost
        BY <1>5, <3>1 DEF Built, Marked
      <3>3. g \notin KernelFrames /\ g \notin lost
        BY <1>5, <1>6, <1>8, <1>12 DEF Roles, RoleKernel, Built, Over
      <3>4. {f \in Frames : q[f] # 0} = {f \in Frames : r[f] # 0} \ {g}
        BY <1>25
      <3>5. used' = used \ {g}
        BY <1>3, <1>23
      <3> QED
        BY <1>3, <3>1, <3>2, <3>3, <3>4, <3>5 DEF Marked
    <2>4. NullLent(q)'
      <3>1. SUFFICES ASSUME ~lent0, NEW u \in Frames, NEW y \in Idx,
                            q[u] = 4, u # K3, Linked(mem', u, y)
                     PROVE  mem'[u][y].f # NULL
        BY <1>3 DEF NullLent
      <3>2. r[u] = 4
        BY <1>25, <3>1
      <3>3. u # t \/ y # x
        BY <1>19, <3>1, FlagFacts DEF Linked
      <3>4. mem'[u][y] = mem[u][y]
        BY <1>20, <3>1, <3>3
      <3> QED
        BY <1>5, <3>1, <3>2, <3>4 DEF Built, NullLent, Linked
    <2> QED
      BY <2>1, <2>2, <2>3, <2>4 DEF Built
  <1>32. DropEffect(v)
    BY <1>3, <1>7, <1>18, <1>19, <1>20 DEF DropEffect, t, x
  <1> QED
    BY <1>3, <1>22, <1>26, <1>27, <1>29, <1>30, <1>31, <1>32 DEF VmmInv

(* The invariant holds in every state of vmm.c, from paging_init on and    *)
(* between any two levels of a map_page.                                   *)
THEOREM VmmInvariant == Spec => []VmmInv
  <1>1. Init => VmmInv
    BY VmmInit
  <1>2. VmmInv /\ [Next]_vars => VmmInv'
    <2> SUFFICES ASSUME VmmInv, [Next]_vars
                 PROVE  VmmInv'
      OBVIOUS
    <2>1. CASE paging_init
      BY <2>1, PagingInitStep
    <2>2. CASE NewTask
      BY <2>2, NewTaskStep
    <2>3. CASE Load
      BY <2>3, LoadStep
    <2>4. CASE Unmap
      BY <2>4, UnmapStep
    <2>5. CASE Touch
      BY <2>5, TouchStep
    <2>6. CASE Lookup
      BY <2>6, LookupStep
    <2>7. CASE WalkAlloc
      BY <2>7, WalkAllocStep
    <2>8. CASE WalkPanic
      BY <2>8, WalkPanicStep
    <2>9. CASE WalkFollow
      BY <2>9, WalkFollowStep
    <2>10. CASE WritePte
      BY <2>10, WritePteStep
    <2>11. CASE TaskCopy
      BY <2>11, TaskCopyStep
    <2>12. CASE UNCHANGED vars
      BY <2>12, VmmStutter
    <2> QED
      BY <2>1, <2>2, <2>3, <2>4, <2>5, <2>6, <2>7, <2>8, <2>9, <2>10, <2>11, <2>12
      DEF Next, Walk, Stopped
  <1> QED
    BY <1>1, <1>2, PTL DEF Spec

(* The variables of vmm.c keep their types: every entry map_page writes    *)
(* names a frame that exists.                                              *)
THEOREM VmmTypeCorrect == Spec => []TypeOK
  <1>1. VmmInv => TypeOK
    BY DEF VmmInv
  <1> QED
    BY <1>1, VmmInvariant, PTL
-----------------------------------------------------------------------------
LEMMA LinksOf ==
    ASSUME NEW ts
    PROVE  \A e : e \in Links(ts) <=>
              \E t \in ts, x \in Idx : Linked(mem, t, x) /\ e = <<t, x, mem[t][x].f>>
  <1>1. ASSUME NEW e \in Links(ts)
        PROVE  \E t \in ts, x \in Idx : Linked(mem, t, x) /\ e = <<t, x, mem[t][x].f>>
    <2>1. PICK d \in {d \in ts \X (0 .. N - 1) : Present(mem[d[1]][d[2]])} :
              e = <<d[1], d[2], mem[d[1]][d[2]].f>>
      BY DEF Links
    <2>2. d[1] \in ts /\ d[2] \in Idx /\ Linked(mem, d[1], d[2])
      BY <2>1 DEF Idx, Linked
    <2> QED
      BY <2>1, <2>2
  <1>2. ASSUME NEW t \in ts, NEW x \in Idx, Linked(mem, t, x)
        PROVE  <<t, x, mem[t][x].f>> \in Links(ts)
    <2> DEFINE d == <<t, x>>
    <2>1. d[1] = t /\ d[2] = x /\ d \in ts \X (0 .. N - 1)
      BY DEF Idx
    <2>2. d \in {c \in ts \X (0 .. N - 1) : Present(mem[c[1]][c[2]])}
      BY <1>2, <2>1 DEF Linked
    <2>3. <<d[1], d[2], mem[d[1]][d[2]].f>> \in Links(ts)
      BY <2>2 DEF Links
    <2> QED
      BY <2>1, <2>3
  <1> QED
    BY <1>1, <1>2

LEMMA TargetsOf ==
    ASSUME NEW ts
    PROVE  \A f : f \in Targets(Links(ts)) <=>
              \E t \in ts, x \in Idx : Linked(mem, t, x) /\ f = mem[t][x].f
  <1>1. ASSUME NEW f \in Targets(Links(ts))
        PROVE  \E t \in ts, x \in Idx : Linked(mem, t, x) /\ f = mem[t][x].f
    <2>1. PICK e \in Links(ts) : f = e[3]
      BY DEF Targets
    <2>2. PICK t \in ts, x \in Idx : Linked(mem, t, x) /\ e = <<t, x, mem[t][x].f>>
      BY LinksOf
    <2> QED
      BY <2>1, <2>2
  <1>2. ASSUME NEW t \in ts, NEW x \in Idx, Linked(mem, t, x)
        PROVE  mem[t][x].f \in Targets(Links(ts))
    <2> DEFINE e == <<t, x, mem[t][x].f>>
    <2>1. e \in Links(ts)
      BY <1>2, LinksOf
    <2>2. e[3] = mem[t][x].f
      OBVIOUS
    <2> QED
      BY <2>1, <2>2 DEF Targets
  <1> QED
    BY <1>1, <1>2

(* The frames that have role n.                                            *)
At(r, n) == {f \in Frames : r[f] = n}

LEMMA Downward ==
    ASSUME NEW r, mem \in Memory, Roles(r, mem, task), NEW n \in 1 .. 3
    PROVE  Targets(Links(At(r, n))) = At(r, n + 1)
  <1>1. RoleDown(r, mem) /\ RoleUp(r, mem)
    BY DEF Roles
  <1>2. ASSUME NEW f \in Targets(Links(At(r, n)))
        PROVE  f \in At(r, n + 1)
    <2>1. PICK t \in At(r, n), x \in Idx : Linked(mem, t, x) /\ f = mem[t][x].f
      BY TargetsOf
    <2>2. t \in Frames /\ r[t] = n
      BY DEF At
    <2>3. f \in Frames /\ r[f] = n + 1
      BY <1>1, <2>1, <2>2, EntryFrame DEF RoleDown
    <2> QED
      BY <2>3 DEF At
  <1>3. ASSUME NEW f \in At(r, n + 1)
        PROVE  f \in Targets(Links(At(r, n)))
    <2>1. f \in Frames /\ r[f] = n + 1
      BY DEF At
    <2>2. PICK t \in Frames, x \in Idx :
             r[t] = r[f] - 1 /\ Linked(mem, t, x) /\ mem[t][x].f = f
      BY <1>1, <2>1 DEF RoleUp
    <2>3. t \in At(r, n)
      BY <2>1, <2>2 DEF At
    <2> QED
      BY <2>2, <2>3, TargetsOf
  <1> QED
    BY <1>2, <1>3

(* The tables of Vmm by their roles.                                       *)
LEMMA Shape ==
    ASSUME VmmInv, pc # "boot", NEW r, Built(r)
    PROVE  /\ Roots = At(r, 1) /\ Targets(L1) = At(r, 2)
           /\ Targets(L2) = At(r, 3) /\ Targets(L3) = At(r, 4)
           /\ Tables = {f \in Frames : r[f] \in 1 .. 4}
           /\ \A e : e \in Leaves <=> \E t \in Frames, x \in Idx :
                 r[t] = 4 /\ t # K3 /\ Linked(mem, t, x) /\ e = <<t, x, mem[t][x].f>>
  <1> USE Constants
  <1>1. mem \in Memory /\ task \in Frames /\ KernelTables(mem, task)
    BY Given
  <1>2. Roles(r, mem, task)
    BY DEF Built
  <1>3. Roots = At(r, 1)
    <2>1. \A f \in Frames : r[f] = 1 <=> f = pml4t \/ (f = task /\ task # NULL)
      BY <1>2 DEF Roles, RoleRoots
    <2> QED
      BY <1>1, <2>1 DEF Roots, At
  <1>4. Targets(L1) = At(r, 2)
    BY <1>1, <1>2, <1>3, Downward DEF L1
  <1>5. Targets(L2) = At(r, 3)
    BY <1>1, <1>2, <1>4, Downward DEF L2
  <1>6. Targets(L3) = At(r, 4)
    BY <1>1, <1>2, <1>5, Downward DEF L3
  <1>7. Tables = {f \in Frames : r[f] \in 1 .. 4}
    <2>1. Targets(L1 \cup L2 \cup L3) = Targets(L1) \cup Targets(L2) \cup Targets(L3)
      BY DEF Targets
    <2>2. \A f \in Frames : r[f] \in 1 .. 4 <=>
              r[f] = 1 \/ r[f] = 2 \/ r[f] = 3 \/ r[f] = 4
      OBVIOUS
    <2> QED
      BY <1>3, <1>4, <1>5, <1>6, <2>1, <2>2 DEF Tables, At
  <1>8. TempPt(mem) = K3
    BY <1>1, TempEntry
  <1>9. ASSUME NEW e
        PROVE  e \in Leaves <=> \E t \in Frames, x \in Idx :
                 r[t] = 4 /\ t # K3 /\ Linked(mem, t, x) /\ e = <<t, x, mem[t][x].f>>
    <2>1. e \in Leaves <=> e \in Links(At(r, 4)) /\ e[1] # K3
      BY <1>6, <1>8 DEF Leaves, L4
    <2>2. e \in Links(At(r, 4)) <=>
              \E t \in At(r, 4), x \in Idx : Linked(mem, t, x) /\ e = <<t, x, mem[t][x].f>>
      BY LinksOf
    <2> QED
      BY <2>1, <2>2 DEF At
  <1> QED
    BY <1>3, <1>4, <1>5, <1>6, <1>7, <1>9

(* The bitmap of pmm.c and the tables of vmm.c agree at every step: the    *)
(* only frames map_page loses are those of pages it is asked to map over,  *)
(* unmap_page loses none, and none in use is free.                         *)
THEOREM VmmFramesAccounted == Spec => []FramesAccounted
  <1>1. VmmInv => FramesAccounted
    <2> SUFFICES ASSUME VmmInv, pc # "boot"
                 PROVE  used = KernelFrames \cup Tables \cup Targets(Leaves) \cup {call.f} \cup lost
      BY DEF FramesAccounted
    <2> USE Constants
    <2>1. PICK r \in [Frames -> 0 .. 5] : Built(r)
      BY Given
    <2>2. /\ Tables = {f \in Frames : r[f] \in 1 .. 4}
          /\ \A e : e \in Leaves <=> \E t \in Frames, x \in Idx :
                r[t] = 4 /\ t # K3 /\ Linked(mem, t, x) /\ e = <<t, x, mem[t][x].f>>
      BY <2>1, Shape
    <2>3. mem \in Memory /\ task \in Frames
      BY Given
    <2>4. RoleLeaf(r, mem, task) /\ RoleUp(r, mem) /\ (task # NULL => r[task] = 1)
      BY <2>1, <2>3, RoleBasics DEF Built, Roles
    <2>5. used = KernelFrames \cup {f \in Frames : r[f] # 0} \cup {call.f} \cup lost
      BY <2>1 DEF Built, Marked
    <2>6. ASSUME NEW f \in Targets(Leaves)
          PROVE  f \in KernelFrames \/ (f \in Frames /\ r[f] # 0)
      <3>1. PICK e \in Leaves : f = e[3]
        BY DEF Targets
      <3>2. PICK t \in Frames, x \in Idx :
               r[t] = 4 /\ t # K3 /\ Linked(mem, t, x) /\ e = <<t, x, mem[t][x].f>>
        BY <2>2
      <3>3. f = mem[t][x].f /\ f \in Frames
        BY <2>3, <3>1, <3>2, EntryFrame
      <3>4. r[f] = 5 \/ f \in {NULL, task}
        BY <2>4, <3>2, <3>3 DEF RoleLeaf
      <3> QED
        BY <2>4, <3>3, <3>4
    <2>7. ASSUME NEW f \in Frames, r[f] = 5
          PROVE  f \in Targets(Leaves)
      <3>1. PICK t \in Frames, x \in Idx :
               r[t] = r[f] - 1 /\ t # K3 /\ Linked(mem, t, x) /\ mem[t][x].f = f
        BY <2>4, <2>7 DEF RoleUp
      <3> DEFINE e == <<t, x, mem[t][x].f>>
      <3>2. e \in Leaves
        BY <2>2, <2>7, <3>1
      <3>3. e[3] = f
        BY <3>1
      <3> QED
        BY <3>2, <3>3 DEF Targets
    <2>8. \A f \in Frames : r[f] # 0 <=> r[f] \in 1 .. 4 \/ r[f] = 5
      OBVIOUS
    <2>9. {f \in Frames : r[f] # 0} \subseteq Tables \cup Targets(Leaves)
      BY <2>2, <2>7, <2>8
    <2>10. Tables \cup Targets(Leaves) \subseteq KernelFrames \cup {f \in Frames : r[f] # 0}
      BY <2>2, <2>6, <2>8
    <2> QED
      BY <2>5, <2>9, <2>10
  <1> QED
    BY <1>1, VmmInvariant, PTL

(* The tables are a tree but for the kernel's half, and no frame is mapped *)
(* to two pages, or as a page and a table, but for the program's pml4t,    *)
(* which the kernel maps to fill it, and for the frame that stands for     *)
(* NULL.                                                                   *)
THEOREM VmmOneOwner == Spec => []OneOwner
  <1>1. VmmInv => OneOwner
    <2> USE Constants
    <2> DEFINE hung == L1 \cup L2 \cup L3
               shared == {e \in L1 : e[2] = N - 1}
    <2>1. SUFFICES ASSUME VmmInv, pc # "boot"
                   PROVE  /\ \A d, e \in hung : d[3] = e[3] => d = e \/ {d, e} \subseteq shared
                          /\ \A d, e \in Leaves : d[3] = e[3] => d = e \/ d[3] = NULL
                          /\ \A e \in Leaves : e[3] \in Roots \cup Targets(hung) => e[3] = task
      BY DEF OneOwner
    <2>2. PICK r \in [Frames -> 0 .. 5] : Built(r)
      BY <2>1, Given
    <2>3. /\ Roots = At(r, 1) /\ Targets(L1) = At(r, 2) /\ Targets(L2) = At(r, 3)
          /\ Tables = {f \in Frames : r[f] \in 1 .. 4}
          /\ \A e : e \in Leaves <=> \E t \in Frames, x \in Idx :
                r[t] = 4 /\ t # K3 /\ Linked(mem, t, x) /\ e = <<t, x, mem[t][x].f>>
      BY <2>1, <2>2, Shape
    <2>4. mem \in Memory /\ task \in Frames
      BY <2>1, Given
    <2>5. /\ RoleDown(r, mem) /\ RoleLeaf(r, mem, task) /\ RoleOnce(r, mem)
          /\ r[NULL] = 0 /\ r[K3] = 4
      BY <2>2, RoleBasics DEF Built, Roles
    <2>6. ASSUME NEW e \in hung
          PROVE  \E t \in Frames, x \in Idx :
                    /\ r[t] \in 1 .. 3 /\ t # K3 /\ Linked(mem, t, x)
                    /\ e = <<t, x, mem[t][x].f>> /\ mem[t][x].f # NULL
                    /\ r[t] = 1 => e \in L1
      <3>1. e \in Links(At(r, 1)) \/ e \in Links(At(r, 2)) \/ e \in Links(At(r, 3))
        BY <2>3 DEF L1, L2, L3
      <3>2. PICK n \in 1 .. 3 : e \in Links(At(r, n))
        BY <3>1
      <3>3. PICK t \in At(r, n), x \in Idx : Linked(mem, t, x) /\ e = <<t, x, mem[t][x].f>>
        BY <3>2, LinksOf
      <3>4. t \in Frames /\ r[t] = n
        BY DEF At
      <3>5. mem[t][x].f # NULL
        BY <2>5, <3>3, <3>4 DEF RoleDown
      <3>6. r[t] = 1 => e \in L1
        BY <2>3, <3>2, <3>4 DEF L1
      <3> QED
        BY <2>5, <3>3, <3>4, <3>5, <3>6
    <2> HIDE DEF hung
    <2>7. ASSUME NEW d \in hung, NEW e \in hung, d[3] = e[3]
          PROVE  d = e \/ {d, e} \subseteq shared
      <3>1. PICK t \in Frames, x \in Idx :
                    /\ r[t] \in 1 .. 3 /\ t # K3 /\ Linked(mem, t, x)
                    /\ d = <<t, x, mem[t][x].f>> /\ mem[t][x].f # NULL
                    /\ r[t] = 1 => d \in L1
        BY <2>6
      <3>2. PICK u \in Frames, y \in Idx :
                    /\ r[u] \in 1 .. 3 /\ u # K3 /\ Linked(mem, u, y)
                    /\ e = <<u, y, mem[u][y].f>> /\ mem[u][y].f # NULL
                    /\ r[u] = 1 => e \in L1
        BY <2>6
      <3>3. mem[t][x].f = mem[u][y].f
        BY <2>7, <3>1, <3>2
      <3>4. \/ t = u /\ x = y
            \/ r[t] = 1 /\ r[u] = 1 /\ x = N - 1 /\ y = N - 1
        BY <2>5, <3>1, <3>2, <3>3 DEF RoleOnce
      <3>5. CASE t = u /\ x = y
        BY <3>1, <3>2, <3>5
      <3>6. CASE r[t] = 1 /\ r[u] = 1 /\ x = N - 1 /\ y = N - 1
        <4>1. d \in L1 /\ e \in L1 /\ d[2] = N - 1 /\ e[2] = N - 1
          BY <3>1, <3>2, <3>6
        <4> QED
          BY <4>1
      <3> QED
        BY <3>4, <3>5, <3>6
    <2>8. ASSUME NEW d \in Leaves, NEW e \in Leaves, d[3] = e[3]
          PROVE  d = e \/ d[3] = NULL
      <3>1. PICK t \in Frames, x \in Idx :
                r[t] = 4 /\ t # K3 /\ Linked(mem, t, x) /\ d = <<t, x, mem[t][x].f>>
        BY <2>3
      <3>2. PICK u \in Frames, y \in Idx :
                r[u] = 4 /\ u # K3 /\ Linked(mem, u, y) /\ e = <<u, y, mem[u][y].f>>
        BY <2>3
      <3>3. mem[t][x].f = mem[u][y].f /\ d[3] = mem[t][x].f
        BY <2>8, <3>1, <3>2
      <3>4. (t = u /\ x = y) \/ mem[t][x].f = NULL
        BY <2>5, <3>1, <3>2, <3>3 DEF RoleOnce
      <3> QED
        BY <3>1, <3>2, <3>3, <3>4
    <2>9. ASSUME NEW e \in Leaves, e[3] \in Roots \cup Targets(hung)
          PROVE  e[3] = task
      <3>1. PICK t \in Frames, x \in Idx :
                r[t] = 4 /\ t # K3 /\ Linked(mem, t, x) /\ e = <<t, x, mem[t][x].f>>
        BY <2>3
      <3>2. e[3] = mem[t][x].f
        BY <3>1
      <3>3. e[3] \in Tables
        BY <2>9 DEF Tables, hung
      <3>4. r[mem[t][x].f] \in 1 .. 4
        BY <2>3, <3>2, <3>3
      <3>5. r[mem[t][x].f] = 5 \/ mem[t][x].f \in {NULL, task}
        BY <2>5, <3>1 DEF RoleLeaf
      <3> QED
        BY <2>5, <3>2, <3>4, <3>5
    <2> QED
      BY <2>7, <2>8, <2>9
  <1> QED
    BY <1>1, VmmInvariant, PTL

(* A page table of a program maps pages only, while no NULL was lent.      *)
LEMMA UserLeaf ==
    ASSUME VmmInv, pc # "boot", task # NULL, ~lent0, NEW r, Built(r),
           NEW t \in Frames, NEW x \in Idx,
           r[t] = 4, t # K3, t # mem[K2][1].f, Linked(mem, t, x)
    PROVE  mem[t][x].f \in Frames /\ r[mem[t][x].f] = 5
  <1> USE Constants
  <1>1. mem \in Memory /\ task \in Frames /\ KernelTables(mem, task)
    BY Given
  <1>2. Roles(r, mem, task) /\ RoleOnce(r, mem)
    BY DEF Built, Roles
  <1>3. mem[t][x].f # NULL
    BY DEF Built, NullLent
  <1>4. r[mem[t][x].f] = 5 \/ mem[t][x].f \in {NULL, task}
    BY <1>2 DEF Roles, RoleLeaf
  <1>5. /\ mem[K2][1].f \in Frames /\ r[mem[K2][1].f] = 4 /\ mem[K2][1].f # K3
        /\ Linked(mem, mem[K2][1].f, 0) /\ mem[mem[K2][1].f][0].f = TaskFrame
        /\ task = TaskFrame
    BY <1>1, <1>2, TaskTable DEF KernelTables
  <1>6. mem[t][x].f # task
    BY <1>2, <1>3, <1>5 DEF RoleOnce
  <1> QED
    BY <1>1, <1>3, <1>4, <1>6, EntryFrame

LEMMA UserLinksOf ==
    ASSUME NEW ts, NEW f \in Targets(UserLinks(ts))
    PROVE  \E t \in ts, x \in Idx :
              Linked(mem, t, x) /\ "U" \in mem[t][x].fl /\ f = mem[t][x].f
  <1>1. PICK e \in Links(ts) : "U" \in mem[e[1]][e[2]].fl /\ f = e[3]
    BY DEF Targets, UserLinks
  <1>2. PICK t \in ts, x \in Idx : Linked(mem, t, x) /\ e = <<t, x, mem[t][x].f>>
    BY LinksOf
  <1>3. e[1] = t /\ e[2] = x /\ e[3] = mem[t][x].f
    BY <1>2
  <1> QED
    BY <1>1, <1>2, <1>3

(* What user mode reaches are pages of the program, and what were pages of *)
(* it until they were mapped over.                                         *)
LEMMA UserReaches ==
    ASSUME VmmInv, pc # "boot", ~lent0, NEW r, Built(r), NEW f \in UserReach
    PROVE  f \in Frames /\ (r[f] = 5 \/ f \in lost)
  <1> USE Constants
  <1>1. mem \in Memory /\ task \in Frames /\ KernelTables(mem, task) /\ Fresh /\ TypeOK
    BY Given
  <1>2. /\ Roles(r, mem, task) /\ RoleOnce(r, mem) /\ RoleDown(r, mem)
        /\ RoleUser(r, mem, task)
    BY DEF Built, Roles
  <1>3. /\ r[pml4t] = 1 /\ r[K1] = 2 /\ r[K2] = 3 /\ r[K3] = 4 /\ r[NULL] = 0
        /\ task # NULL => r[task] = 1
    BY <1>1, <1>2, RoleBasics
  <1>4. /\ Linked(mem, pml4t, N - 1) /\ mem[pml4t][N - 1].f = K1
        /\ Linked(mem, K1, N - 2) /\ mem[K1][N - 2].f = K2
        /\ Linked(mem, K2, 0) /\ mem[K2][0].f = K3
    BY <1>1, KernelLinks
  <1>5. ASSUME NEW e \in tlb \ stale, e[2] \notin lost
        PROVE  e[2] \in Frames /\ r[e[2]] = 5
    <2> DEFINE v == e[1]
               t == E3(mem, task, v).f
    <2>1. task # NULL /\ Way4(mem, task, v) /\ E4(mem, task, v).f = e[2] /\ v \in UserVas
      <3>1. task # NULL /\ InForce(e)
        BY <1>1, <1>5 DEF Fresh
      <3>2. v \in UserVas
        BY <1>1, VmmAssumption DEF TypeOK
      <3> QED
        BY <3>1, <3>2 DEF InForce
    <2>2. t \in Frames /\ r[t] = 4 /\ t # K3 /\ t # mem[K2][1].f
      BY <1>1, <1>2, <2>1, UserWay DEF Way4
    <2>3. v[4] \in Idx /\ Linked(mem, t, v[4]) /\ mem[t][v[4]].f = e[2]
      BY <2>1, UserPages DEF Way4, E4, Linked
    <2> HIDE DEF t, v
    <2> QED
      BY <2>1, <2>2, <2>3, UserLeaf
  <1> DEFINE A1 == Targets(UserLinks({Root}))
             A2 == Targets(UserLinks(A1))
             A3 == Targets(UserLinks(A2))
             A4 == Targets(UserLinks(A3))
  <1>6. ASSUME NEW g \in A1
        PROVE  task # NULL /\ g \in Frames /\ r[g] = 2 /\ g # K1
    <2>1. PICK x \in Idx : /\ Linked(mem, Root, x) /\ "U" \in mem[Root][x].fl
                           /\ g = mem[Root][x].f
      BY UserLinksOf
    <2>2. task # NULL
      <3>1. SUFFICES ASSUME task = NULL
                     PROVE  FALSE
        OBVIOUS
      <3>2. Root = pml4t /\ x = N - 1 /\ mem[pml4t][N - 1] = Rw(K1)
        BY <1>1, <2>1, <3>1 DEF Root, KernelTables
      <3> QED
        BY <2>1, <3>2, FlagFacts
    <2>3. Root = task /\ x # N - 1 /\ task # pml4t
      <3>1. Root = task /\ mem[task][N - 1] = Rw(K1) /\ task # pml4t
        BY <1>1, <1>2, <2>2 DEF Root, RoleUser, KernelTables
      <3> QED
        BY <2>1, <3>1, FlagFacts
    <2>4. g \in Frames /\ r[g] = 2
      BY <1>1, <1>2, <1>3, <2>1, <2>2, <2>3, EntryFrame DEF RoleDown
    <2>5. g # K1
      BY <1>1, <1>2, <1>3, <1>4, <2>1, <2>2, <2>3 DEF RoleOnce
    <2> QED
      BY <2>2, <2>4, <2>5
  <1>7. ASSUME NEW g \in A2
        PROVE  task # NULL /\ g \in Frames /\ r[g] = 3 /\ g # K2
    <2> HIDE DEF A1
    <2>1. PICK t \in A1, x \in Idx : Linked(mem, t, x) /\ g = mem[t][x].f
      BY UserLinksOf
    <2>2. task # NULL /\ t \in Frames /\ r[t] = 2 /\ t # K1
      BY <1>6
    <2>3. g \in Frames /\ r[g] = 3
      BY <1>1, <1>2, <2>1, <2>2, EntryFrame DEF RoleDown
    <2>4. g # K2
      BY <1>2, <1>3, <1>4, <2>1, <2>2 DEF RoleOnce
    <2> QED
      BY <2>2, <2>3, <2>4
  <1>8. ASSUME NEW g \in A3
        PROVE  task # NULL /\ g \in Frames /\ r[g] = 4 /\ g # K3 /\ g # mem[K2][1].f
    <2> HIDE DEF A2
    <2>1. PICK t \in A2, x \in Idx : Linked(mem, t, x) /\ g = mem[t][x].f
      BY UserLinksOf
    <2>2. task # NULL /\ t \in Frames /\ r[t] = 3 /\ t # K2
      BY <1>7
    <2>3. g \in Frames /\ r[g] = 4
      BY <1>1, <1>2, <2>1, <2>2, EntryFrame DEF RoleDown
    <2>4. g # NULL
      BY <1>3, <2>3
    <2>5. g # K3
      BY <1>2, <1>3, <1>4, <2>1, <2>2, <2>4 DEF RoleOnce
    <2>6. Linked(mem, K2, 1)
      <3>1. Way4(mem, pml4t, TaskVa) /\ E4(mem, pml4t, TaskVa).f = TaskFrame
        BY <1>1, <2>2 DEF KernelTables
      <3> QED
        BY <1>1, <1>2, <3>1, TaskTable
    <2>7. g # mem[K2][1].f
      BY <1>2, <1>3, <2>1, <2>2, <2>4, <2>6 DEF RoleOnce
    <2> QED
      BY <2>2, <2>3, <2>5, <2>7
  <1>9. ASSUME NEW g \in A4
        PROVE  g \in Frames /\ r[g] = 5
    <2> HIDE DEF A3
    <2>1. PICK t \in A3, x \in Idx : Linked(mem, t, x) /\ g = mem[t][x].f
      BY UserLinksOf
    <2>2. task # NULL /\ t \in Frames /\ r[t] = 4 /\ t # K3 /\ t # mem[K2][1].f
      BY <1>8
    <2> QED
      BY <2>1, <2>2, UserLeaf
  <1>10. UserReach = {e[2] : e \in tlb \ stale} \cup A4
    BY DEF UserReach
  <1>11. lost \subseteq Frames
    BY <1>1 DEF TypeOK
  <1> HIDE DEF A4
  <1> QED
    BY <1>5, <1>9, <1>10, <1>11

(* User mode reaches no frame of the kernel, no page table and no free     *)
(* frame, through the tables or what the TLB kept of pages mapped over,    *)
(* unless load_elf mapped a NULL that pmm_alloc gave it; what the TLB kept *)
(* of pages that were unmapped is left out.                                *)
THEOREM VmmUserIsolation == Spec => []UserIsolation
  <1>1. VmmInv => UserIsolation
    <2> SUFFICES ASSUME VmmInv, pc # "boot", ~lent0, NEW f \in UserReach
                 PROVE  f \notin KernelFrames /\ f \notin Tables /\ f \notin Free
      BY DEF UserIsolation
    <2> USE Constants
    <2>1. PICK r \in [Frames -> 0 .. 5] : Built(r)
      BY Given
    <2>2. f \in Frames /\ (r[f] = 5 \/ f \in lost)
      BY <2>1, UserReaches
    <2>3. f \notin KernelFrames
      <3>1. f \in lost => f \notin KernelFrames
        BY <2>1 DEF Built, Over
      <3>2. r[f] = 5 => f \notin KernelFrames
        BY <2>1, RoleBasics DEF Built, Roles, RoleKernel
      <3> QED
        BY <2>2, <3>1, <3>2
    <2>4. f \notin Tables
      <3>1. r[f] \in {0, 5}
        BY <2>1, <2>2 DEF Built, Over
      <3> QED
        BY <2>1, <3>1, Shape
    <2>5. f \in used
      BY <2>1, <2>2 DEF Built, Marked
    <2> QED
      BY <2>3, <2>4, <2>5 DEF Free
  <1> QED
    BY <1>1, VmmInvariant, PTL

(* A page load_elf has mapped can be read from user mode, since every      *)
(* table above it lets user mode through, and can be written only if the   *)
(* call of map_page asked for it.                                          *)
THEOREM VmmUserAccess == Spec => []UserAccess
  <1>1. VmmInv => UserAccess
    <2> SUFFICES ASSUME VmmInv, pc = "idle", NEW v \in UserVas \cap DOMAIN asked
                 PROVE  /\ Mapped(v) /\ "U" \in Granted(task, v)
                        /\ Granted(task, v) \subseteq asked[v]
      BY DEF UserAccess
    <2> USE Constants
    <2>1. mem \in Memory /\ task \in Frames /\ KernelTables(mem, task) /\ AskedFor
      BY Given
    <2>2. PICK r \in [Frames -> 0 .. 5] : Built(r)
      BY Given
    <2>3. Roles(r, mem, task) /\ RoleUser(r, mem, task)
      BY <2>2 DEF Built, Roles
    <2>4. /\ task # NULL /\ Way4(mem, task, v)
          /\ E4(mem, task, v).fl = asked[v] /\ asked[v] \in UserFlags
      BY <2>1 DEF AskedFor
    <2>5. Way1(mem, task, v) /\ Way2(mem, task, v) /\ Way3(mem, task, v)
      BY <2>4 DEF Way4, Way3, Way2
    <2> DEFINE t1 == E1(mem, task, v).f
               t2 == E2(mem, task, v).f
    <2>6. /\ t1 \in Frames /\ r[t1] = 2 /\ t1 # K1 /\ t2 \in Frames /\ r[t2] = 3 /\ t2 # K2
          /\ E4(mem, task, v).f \in Frames
      BY <2>1, <2>3, <2>4, <2>5, UserWay
    <2>7. v[1] \in 0 .. N - 2 /\ v[1] \in Idx /\ v[2] \in Idx /\ v[3] \in Idx
      BY UserPages
    <2>8. /\ E1(mem, task, v) = mem[task][v[1]] /\ Linked(mem, task, v[1])
          /\ E2(mem, task, v) = mem[t1][v[2]] /\ Linked(mem, t1, v[2])
          /\ E3(mem, task, v) = mem[t2][v[3]] /\ Linked(mem, t2, v[3])
      BY <2>5, Zenon DEF Way1, Way2, Way3, E1, E2, E3, Linked
    <2> HIDE DEF t1, t2
    <2>9. "U" \in mem[task][v[1]].fl
      BY <2>3, <2>4, <2>7, <2>8 DEF RoleUser
    <2>10. "U" \in mem[t1][v[2]].fl /\ "U" \in mem[t2][v[3]].fl
      BY <2>3, <2>6, <2>7, <2>8 DEF RoleUser
    <2>11. "U" \in E4(mem, task, v).fl
      BY <2>4, FlagFacts
    <2>12. "U" \in Granted(task, v) /\ Granted(task, v) \subseteq asked[v]
      BY <2>4, <2>8, <2>9, <2>10, <2>11, TranslateWay
    <2>13. Mapped(v)
      BY <2>4, <2>6, TranslateWay DEF Mapped, Unmapped, Frames
    <2> QED
      BY <2>12, <2>13
  <1> QED
    BY <1>1, VmmInvariant, PTL

-----------------------------------------------------------------------------
(* The abstract address space.  First, the way to any page from any pml4t. *)
LEMMA AllPages ==
    ASSUME NEW v \in AllVas
    PROVE  /\ v[1] \in Idx /\ v[2] \in Idx /\ v[3] \in Idx /\ v[4] \in Idx
           /\ v = <<v[1], v[2], v[3], v[4]>>
           /\ v[1] = N - 1 /\ v[3] = 0 => v[4] # N - 1
           /\ v \in KernelVas => /\ v[1] = N - 1 /\ v[2] = N - 2 /\ v[3] = 0
                                 /\ v[4] \in 0 .. N - 2
           /\ v \in LaterVas => v[1] # N - 1 \/ (v[1] = N - 1 /\ v[2] = N - 2 /\ v[3] # 0)
  <1> USE Constants
  <1>1. CASE v \in KernelVas
    <2>1. PICK f \in 0 .. N - 2 : v = KernelVa(f)
      BY <1>1 DEF KernelVas
    <2>2. f \div N = 0 /\ f % N = f
      BY <2>1
    <2>3. v = <<N - 1, N - 2, 0, f>>
      BY <2>1, <2>2 DEF KernelVa
    <2>4. v \notin LaterVas
      <3>1. v \notin UserVas
        BY <2>3, UserPages
      <3> QED
        BY <2>3, <3>1 DEF LaterVas
    <2> QED
      BY <2>3, <2>4 DEF Idx
  <1>2. CASE v \in UserVas
    <2>1. v \notin KernelVas
      <3>1. \A f : KernelVa(f)[1] = N - 1
        BY DEF KernelVa
      <3> QED
        BY <1>2, <3>1, UserPages DEF KernelVas
    <2> QED
      BY <1>2, <2>1, UserPages
  <1>3. CASE v \in LaterVas \ UserVas
    <2>1. PICK c \in 1 .. N - 1, d \in 0 .. N - 1 : v = <<N - 1, N - 2, c, d>>
      BY <1>3 DEF LaterVas
    <2>2. v[1] = N - 1 /\ v[2] = N - 2 /\ v[3] = c /\ v[4] = d /\ c # 0
      BY <2>1
    <2>3. v \notin KernelVas
      <3>1. SUFFICES ASSUME NEW f \in 0 .. N - 2, v = KernelVa(f)
                     PROVE  FALSE
        BY DEF KernelVas
      <3>2. f \div N = 0
        BY <3>1
      <3> QED
        BY <2>2, <3>1, <3>2 DEF KernelVa
    <2> QED
      BY <2>1, <2>2, <2>3 DEF Idx
  <1> QED
    BY <1>1, <1>2, <1>3 DEF AllVas

(* Two entries with one target, which is not NULL, are one entry.          *)
SameTarget(r, m, t, x, u, y) ==
    /\ t \in Frames /\ x \in Idx /\ r[t] \in 1 .. 4 /\ t # K3 /\ Linked(m, t, x)
    /\ u \in Frames /\ y \in Idx /\ r[u] \in 1 .. 4 /\ u # K3 /\ Linked(m, u, y)
    /\ m[t][x].f = m[u][y].f /\ m[t][x].f # NULL

LEMMA OneEntry ==
    ASSUME NEW r, NEW m, RoleOnce(r, m), NEW t, NEW x, NEW u, NEW y,
           SameTarget(r, m, t, x, u, y)
    PROVE  \/ t = u /\ x = y
           \/ r[t] = 1 /\ r[u] = 1 /\ x = N - 1 /\ y = N - 1
  BY DEF RoleOnce, SameTarget

(* No page but TEMP_PAGE is reached through the entry temp_map moves.      *)
LEMMA RootWay ==
    ASSUME NEW m \in Memory, NEW r, NEW tk \in Frames, Roles(r, m, tk), KernelTables(m, tk),
           NEW root \in Frames, r[root] = 1, NEW v \in AllVas
    PROVE  /\ Way1(m, root, v) => E1(m, root, v).f \in Frames /\ r[E1(m, root, v).f] = 2
           /\ Way2(m, root, v) => E2(m, root, v).f \in Frames /\ r[E2(m, root, v).f] = 3
           /\ Way3(m, root, v) => /\ E3(m, root, v).f \in Frames /\ r[E3(m, root, v).f] = 4
                                  /\ E3(m, root, v).f # K3 \/ v[4] # N - 1
           /\ Way4(m, root, v) => E4(m, root, v).f \in Frames
  <1> USE Constants
  <1>1. /\ v[1] \in Idx /\ v[2] \in Idx /\ v[3] \in Idx /\ v[4] \in Idx
        /\ v[1] = N - 1 /\ v[3] = 0 => v[4] # N - 1
    BY AllPages
  <1>2. RoleDown(r, m) /\ RoleOnce(r, m)
    BY DEF Roles
  <1>3. r[pml4t] = 1 /\ r[K1] = 2 /\ r[K2] = 3 /\ r[K3] = 4 /\ r[NULL] = 0
    BY RoleBasics
  <1> DEFINE t1 == E1(m, root, v).f
             t2 == E2(m, root, v).f
             t3 == E3(m, root, v).f
  <1>4. /\ t1 = m[root][v[1]].f /\ t2 = m[t1][v[2]].f /\ t3 = m[t2][v[3]].f
        /\ E4(m, root, v).f = m[t3][v[4]].f
        /\ Way1(m, root, v) <=> Linked(m, root, v[1])
        /\ Way2(m, root, v) <=> Way1(m, root, v) /\ Linked(m, t1, v[2])
        /\ Way3(m, root, v) <=> Way2(m, root, v) /\ Linked(m, t2, v[3])
        /\ Way4(m, root, v) => Way3(m, root, v)
    BY Zenon DEF E1, E2, E3, E4, Way1, Way2, Way3, Way4, Linked
  <1> HIDE DEF t1, t2, t3
  <1>5. ASSUME Way1(m, root, v)
        PROVE  t1 \in Frames /\ r[t1] = 2 /\ Linked(m, root, v[1])
    <2>1. root \in Frames /\ r[root] = 1 /\ Linked(m, root, v[1])
      BY <1>4, <1>5, Zenon
    <2>2. r[m[root][v[1]].f] = 2
      BY <1>1, <1>2, <2>1 DEF RoleDown
    <2>3. m[root][v[1]].f \in Frames
      BY <1>1, <2>1, EntryFrame
    <2> QED
      BY <1>4, <2>1, <2>2, <2>3, Zenon
  <1>6. ASSUME Way2(m, root, v)
        PROVE  t2 \in Frames /\ r[t2] = 3 /\ Linked(m, t1, v[2])
    <2>1. t1 \in Frames /\ r[t1] = 2 /\ Linked(m, t1, v[2])
      BY <1>4, <1>5, <1>6, Zenon
    <2>2. r[m[t1][v[2]].f] = 3
      BY <1>1, <1>2, <2>1 DEF RoleDown
    <2>3. m[t1][v[2]].f \in Frames
      BY <1>1, <2>1, EntryFrame
    <2> QED
      BY <1>4, <2>1, <2>2, <2>3, Zenon
  <1>7. ASSUME Way3(m, root, v)
        PROVE  t3 \in Frames /\ r[t3] = 4 /\ Linked(m, t2, v[3])
    <2>1. t2 \in Frames /\ r[t2] = 3 /\ Linked(m, t2, v[3])
      BY <1>4, <1>6, <1>7, Zenon
    <2>2. r[m[t2][v[3]].f] = 4
      BY <1>1, <1>2, <2>1 DEF RoleDown
    <2>3. m[t2][v[3]].f \in Frames
      BY <1>1, <2>1, EntryFrame
    <2> QED
      BY <1>4, <2>1, <2>2, <2>3, Zenon
  <1>8. ASSUME Way3(m, root, v), t3 = K3
        PROVE  v[4] # N - 1
    <2>1. /\ t1 \in Frames /\ r[t1] = 2 /\ Linked(m, root, v[1])
          /\ t2 \in Frames /\ r[t2] = 3 /\ Linked(m, t1, v[2]) /\ Linked(m, t2, v[3])
      BY <1>4, <1>5, <1>6, <1>7, <1>8, Zenon
    <2>2. /\ Linked(m, pml4t, N - 1) /\ m[pml4t][N - 1].f = K1
          /\ Linked(m, K1, N - 2) /\ m[K1][N - 2].f = K2
          /\ Linked(m, K2, 0) /\ m[K2][0].f = K3
      BY KernelLinks
    <2>3. t2 = K2 /\ v[3] = 0
      <3>1. SameTarget(r, m, t2, v[3], K2, 0)
        <4>1. m[t2][v[3]].f = m[K2][0].f /\ m[t2][v[3]].f # NULL
          BY <1>4, <1>8, <2>2
        <4>2. t2 # K3 /\ K2 # K3 /\ K2 \in Frames /\ 0 \in Idx
          BY <1>3, <2>1
        <4> QED
          BY ONLY <1>1, <1>3, <2>1, <2>2, <4>1, <4>2, SMTT(30) DEF SameTarget
      <3> QED
        BY <1>2, <1>3, <3>1, OneEntry
    <2>4. t1 = K1
      <3>1. SameTarget(r, m, t1, v[2], K1, N - 2)
        BY <1>1, <1>3, <1>4, <2>1, <2>2, <2>3 DEF SameTarget
      <3> QED
        BY <1>2, <1>3, <3>1, OneEntry
    <2>5. v[1] = N - 1
      <3>1. SameTarget(r, m, root, v[1], pml4t, N - 1)
        <4>1. m[root][v[1]].f = m[pml4t][N - 1].f /\ m[root][v[1]].f # NULL
          BY <1>4, <2>2, <2>4, Zenon
        <4>2. root # K3 /\ pml4t # K3 /\ pml4t \in Frames /\ N - 1 \in Idx
          BY <1>3
        <4>3. root \in Frames /\ r[root] = 1
          OBVIOUS
        <4> QED
          BY ONLY <1>1, <1>3, <2>1, <2>2, <4>1, <4>2, <4>3 DEF SameTarget
      <3> QED
        BY <1>2, <3>1, OneEntry
    <2> QED
      BY <1>1, <2>3, <2>5
  <1>9. Way4(m, root, v) => E4(m, root, v).f \in Frames
    BY <1>1, <1>4, <1>7, EntryFrame, Zenon
  <1> QED
    BY <1>5, <1>6, <1>7, <1>8, <1>9 DEF t1, t2, t3

(* Two pages never share an entry of a page table.                         *)
LEMMA RootUnique ==
    ASSUME NEW m \in Memory, NEW r, NEW tk \in Frames, Roles(r, m, tk), KernelTables(m, tk),
           NEW root \in Frames, r[root] = 1, NEW v \in AllVas, NEW w \in AllVas,
           Way3(m, root, v), Way3(m, root, w),
           E3(m, root, v).f = E3(m, root, w).f, v[4] = w[4]
    PROVE  v = w
  <1> USE Constants
  <1>1. /\ v[1] \in Idx /\ v[2] \in Idx /\ v[3] \in Idx /\ v = <<v[1], v[2], v[3], v[4]>>
        /\ w[1] \in Idx /\ w[2] \in Idx /\ w[3] \in Idx /\ w = <<w[1], w[2], w[3], w[4]>>
    BY AllPages
  <1>2. RoleOnce(r, m) /\ r[NULL] = 0 /\ r[K3] = 4
    BY RoleBasics DEF Roles
  <1> DEFINE t1 == E1(m, root, v).f
             t2 == E2(m, root, v).f
             u1 == E1(m, root, w).f
             u2 == E2(m, root, w).f
  <1>3. /\ t1 = m[root][v[1]].f /\ t2 = m[t1][v[2]].f /\ E3(m, root, v).f = m[t2][v[3]].f
        /\ u1 = m[root][w[1]].f /\ u2 = m[u1][w[2]].f /\ E3(m, root, w).f = m[u2][w[3]].f
    BY Zenon DEF E1, E2, E3
  <1>4. /\ Way1(m, root, v) /\ Way2(m, root, v) /\ Way1(m, root, w) /\ Way2(m, root, w)
    BY DEF Way3, Way2
  <1>5. /\ Linked(m, root, v[1]) /\ Linked(m, t1, v[2]) /\ Linked(m, t2, v[3])
        /\ Linked(m, root, w[1]) /\ Linked(m, u1, w[2]) /\ Linked(m, u2, w[3])
    BY Zenon DEF E1, E2, E3, Way1, Way2, Way3, Linked
  <1>6. /\ t1 \in Frames /\ r[t1] = 2 /\ t2 \in Frames /\ r[t2] = 3
        /\ u1 \in Frames /\ r[u1] = 2 /\ u2 \in Frames /\ r[u2] = 3
        /\ r[E3(m, root, v).f] = 4
    BY <1>4, RootWay
  <1> HIDE DEF t1, t2, u1, u2
  <1>7. t2 = u2 /\ v[3] = w[3]
    <2>1. SameTarget(r, m, t2, v[3], u2, w[3])
      <3>1. m[t2][v[3]].f = m[u2][w[3]].f /\ m[t2][v[3]].f # NULL
        <4>1. m[t2][v[3]].f = m[u2][w[3]].f
          BY <1>3, <1>6, Zenon
        <4>2. r[m[t2][v[3]].f] = 4
          BY <1>3, <1>6, Zenon
        <4>3. r[NULL] = 0
          BY <1>2
        <4> QED
          BY ONLY <4>1, <4>2, <4>3
      <3>2. t2 # K3 /\ u2 # K3
        BY <1>2, <1>6
      <3> QED
        BY ONLY <1>1, <1>5, <1>6, <3>1, <3>2 DEF SameTarget
    <2> QED
      BY <1>2, <1>6, <2>1, OneEntry
  <1>8. t1 = u1 /\ v[2] = w[2]
    <2>1. SameTarget(r, m, t1, v[2], u1, w[2])
      <3>1. m[t1][v[2]].f = m[u1][w[2]].f /\ m[t1][v[2]].f # NULL
        <4>1. m[t1][v[2]].f = m[u1][w[2]].f
          BY <1>3, <1>6, <1>7, Zenon
        <4>2. r[m[t1][v[2]].f] = 3
          BY <1>3, <1>6, Zenon
        <4>3. r[NULL] = 0
          BY <1>2
        <4> QED
          BY ONLY <4>1, <4>2, <4>3
      <3>2. t1 # K3 /\ u1 # K3
        BY <1>2, <1>6
      <3> QED
        BY ONLY <1>1, <1>5, <1>6, <3>1, <3>2 DEF SameTarget
    <2> QED
      BY <1>2, <1>6, <2>1, OneEntry
  <1>9. v[1] = w[1]
    <2>1. SameTarget(r, m, root, v[1], root, w[1])
      <3>1. m[root][v[1]].f = m[root][w[1]].f /\ m[root][v[1]].f # NULL
        <4>1. m[root][v[1]].f = m[root][w[1]].f
          BY <1>3, <1>6, <1>8, Zenon
        <4>2. r[m[root][v[1]].f] = 2
          BY <1>3, <1>6, Zenon
        <4>3. r[NULL] = 0
          BY <1>2
        <4> QED
          BY ONLY <4>1, <4>2, <4>3
      <3>2. root # K3 /\ root # K3
        BY <1>2, <1>6
      <3>3. root \in Frames /\ r[root] = 1
        OBVIOUS
      <3> QED
        BY ONLY <1>1, <1>5, <1>6, <3>1, <3>2, <3>3 DEF SameTarget
    <2> QED
      BY <1>2, <2>1, OneEntry
  <1> QED
    BY <1>1, <1>7, <1>8, <1>9

(* The tables on the way to page v.                                        *)
Along(r, m, root, v, t1, t2, t3) ==
    /\ r[t1] = 2 /\ r[t2] = 3 /\ r[t3] = 4 /\ (t3 # K3 \/ v[4] # N - 1)
    /\ t1 = m[root][v[1]].f /\ Linked(m, root, v[1])
    /\ t2 = m[t1][v[2]].f /\ Linked(m, t1, v[2])
    /\ t3 = m[t2][v[3]].f /\ Linked(m, t2, v[3])
    /\ Linked(m, t3, v[4])

LEMMA WayEntries ==
    ASSUME NEW m \in Memory, NEW r, NEW tk \in Frames, Roles(r, m, tk), KernelTables(m, tk),
           NEW root \in Frames, r[root] = 1, NEW v \in AllVas, Way4(m, root, v)
    PROVE  \E t1, t2, t3 \in Frames : Along(r, m, root, v, t1, t2, t3)
  <1>1. Way1(m, root, v) /\ Way2(m, root, v) /\ Way3(m, root, v)
    BY DEF Way4, Way3, Way2
  <1>2. /\ E1(m, root, v).f \in Frames /\ r[E1(m, root, v).f] = 2
        /\ E2(m, root, v).f \in Frames /\ r[E2(m, root, v).f] = 3
        /\ E3(m, root, v).f \in Frames /\ r[E3(m, root, v).f] = 4
        /\ E3(m, root, v).f # K3 \/ v[4] # N - 1
    BY <1>1, RootWay
  <1>3. /\ E1(m, root, v) = m[root][v[1]] /\ Linked(m, root, v[1])
        /\ E2(m, root, v) = m[E1(m, root, v).f][v[2]] /\ Linked(m, E1(m, root, v).f, v[2])
        /\ E3(m, root, v) = m[E2(m, root, v).f][v[3]] /\ Linked(m, E2(m, root, v).f, v[3])
        /\ Linked(m, E3(m, root, v).f, v[4])
    BY Zenon DEF E1, E2, E3, E4, Way1, Way2, Way3, Way4, Linked
  <1>4. Along(r, m, root, v, E1(m, root, v).f, E2(m, root, v).f, E3(m, root, v).f)
    BY <1>2, <1>3, Zenon DEF Along
  <1> QED
    BY <1>2, <1>4

(* A way whose entries are all in m2 is a way in m2.                       *)
LEMMA SameWay ==
    ASSUME NEW m, NEW m2, NEW root, NEW root2, NEW v, Way4(m, root, v),
           NEW r, NEW t1, NEW t2, NEW t3, Along(r, m, root, v, t1, t2, t3),
           m2[root2][v[1]] = m[root][v[1]], m2[t1][v[2]] = m[t1][v[2]],
           m2[t2][v[3]] = m[t2][v[3]], m2[t3][v[4]] = m[t3][v[4]]
    PROVE  /\ Way4(m2, root2, v) /\ E3(m2, root2, v) = E3(m, root, v)
           /\ E4(m2, root2, v) = E4(m, root, v)
  <1>1. t1 = m[root][v[1]].f /\ t2 = m[t1][v[2]].f /\ t3 = m[t2][v[3]].f
    BY Zenon DEF Along
  <1>2. E1(m2, root2, v) = E1(m, root, v) /\ E1(m, root, v).f = t1
    BY <1>1, Zenon DEF E1
  <1>3. E2(m2, root2, v) = E2(m, root, v) /\ E2(m, root, v).f = t2
    BY <1>1, <1>2, Zenon DEF E2
  <1>4. E3(m2, root2, v) = E3(m, root, v) /\ E3(m, root, v).f = t3
    BY <1>1, <1>3, Zenon DEF E3
  <1>5. E4(m2, root2, v) = E4(m, root, v)
    BY <1>4 DEF E4
  <1> QED
    BY <1>2, <1>3, <1>4, <1>5 DEF Way1, Way2, Way3, Way4

(* Where page v is, by the tables in m.                                    *)
Tr(m, root, v) == IF Way4(m, root, v) THEN E4(m, root, v).f ELSE Unmapped

LEMMA SpaceNow == pc # "boot" => space = [v \in AllVas |-> Tr(mem, Root, v)]
  <1>1. ASSUME NEW v
        PROVE  Translate(Root, v) = Tr(mem, Root, v)
    BY TranslateWay DEF Tr
  <1> QED
    BY <1>1 DEF space, AllVas

LEMMA SpaceThen == pc' # "boot" => space' = [v \in AllVas |-> Tr(mem', Root', v)]
  <1>1. ASSUME NEW v
        PROVE  Translate(Root, v)' = Tr(mem', Root', v)
    BY DEF Translate, Tr, Way4, Way3, Way2, Way1, E1, E2, E3, E4
  <1> QED
    BY <1>1 DEF space, AllVas

(* m2 has every entry that m has, but for the one temp_map moves.          *)
Kept(r, m, m2) ==
    \A t \in Frames : \A x \in Idx :
        r[t] \in 1 .. 4 /\ (t # K3 \/ x # N - 1) /\ Linked(m, t, x) => m2[t][x] = m[t][x]

LEMMA RootKept ==
    ASSUME NEW m \in Memory, NEW m2 \in Memory, NEW r, NEW tk \in Frames,
           Roles(r, m, tk), KernelTables(m, tk), NEW root \in Frames, r[root] = 1,
           NEW v \in AllVas, Way4(m, root, v), Kept(r, m, m2)
    PROVE  /\ Way4(m2, root, v) /\ E3(m2, root, v) = E3(m, root, v)
           /\ E4(m2, root, v) = E4(m, root, v)
  <1>1. PICK t1, t2, t3 \in Frames : Along(r, m, root, v, t1, t2, t3)
    BY WayEntries
  <1>2. v[1] \in Idx /\ v[2] \in Idx /\ v[3] \in Idx /\ v[4] \in Idx
    BY AllPages
  <1>3. r[t1] = 2 /\ r[t2] = 3 /\ r[t3] = 4 /\ r[K3] = 4 /\ (t3 # K3 \/ v[4] # N - 1)
    BY <1>1, RoleBasics, Zenon DEF Along
  <1>4. /\ Linked(m, root, v[1]) /\ Linked(m, t1, v[2])
        /\ Linked(m, t2, v[3]) /\ Linked(m, t3, v[4])
    BY <1>1, Zenon DEF Along
  <1>5. /\ m2[root][v[1]] = m[root][v[1]] /\ m2[t1][v[2]] = m[t1][v[2]]
        /\ m2[t2][v[3]] = m[t2][v[3]] /\ m2[t3][v[4]] = m[t3][v[4]]
    <2>1. root # K3 /\ t1 # K3 /\ t2 # K3
      BY <1>3
    <2>2. m2[root][v[1]] = m[root][v[1]]
      BY <1>2, <1>4, <2>1 DEF Kept
    <2>3. m2[t1][v[2]] = m[t1][v[2]]
      BY <1>2, <1>3, <1>4, <2>1 DEF Kept
    <2>4. m2[t2][v[3]] = m[t2][v[3]]
      BY <1>2, <1>3, <1>4, <2>1 DEF Kept
    <2>5. m2[t3][v[4]] = m[t3][v[4]]
      BY <1>2, <1>3, <1>4 DEF Kept
    <2> QED
      BY <2>2, <2>3, <2>4, <2>5
  <1> QED
    BY <1>1, <1>5, SameWay

LEMMA SameTr ==
    ASSUME NEW m, NEW m2, NEW root, NEW root2, NEW v,
           Way4(m, root, v) => Way4(m2, root2, v) /\ E4(m2, root2, v) = E4(m, root, v),
           Way4(m2, root2, v) => Way4(m, root, v)
    PROVE  Tr(m2, root2, v) = Tr(m, root, v)
  BY DEF Tr

(* The tables in force have the role of a pml4t.                           *)
LEMMA RootRole ==
    ASSUME VmmInv, pc # "boot", NEW r, Built(r)
    PROVE  Root \in Frames /\ r[Root] = 1
  BY Given, RoleBasics, Constants DEF Root, Built

LEMMA QuietStep ==
    ASSUME pc # "boot", pc' # "boot", UNCHANGED <<mem, task>>
    PROVE  space' = space
  <1>1. Root' = Root
    BY DEF Root
  <1> QED
    BY <1>1, SpaceNow, SpaceThen

LEMMA TempSpace == VmmInv /\ VmmInv' /\ TempEffect => space' = space
  <1> SUFFICES ASSUME VmmInv, TempEffect
               PROVE  space' = space
    OBVIOUS
  <1>1. /\ pc # "boot" /\ pc' # "boot" /\ task' = task /\ mem' \in Memory /\ Root' = Root
        /\ \A u \in Frames : \A y \in Idx : u # K3 \/ y # N - 1 => mem'[u][y] = mem[u][y]
    BY DEF TempEffect, Root
  <1>2. mem \in Memory /\ task \in Frames /\ KernelTables(mem, task)
    BY <1>1, Given
  <1>3. PICK r \in [Frames -> 0 .. 5] : Built(r)
    BY <1>1, Given
  <1>4. Roles(r, mem, task) /\ Root \in Frames /\ r[Root] = 1
    BY <1>1, <1>3, RootRole DEF Built
  <1>5. Roles(r, mem', task) /\ KernelTables(mem', task)
    BY <1>1, <1>2, <1>4, TempKeeps
  <1>6. Kept(r, mem, mem') /\ Kept(r, mem', mem)
    BY <1>1 DEF Kept, Linked
  <1>7. ASSUME NEW v \in AllVas
        PROVE  Tr(mem', Root, v) = Tr(mem, Root, v)
    <2>1. Way4(mem, Root, v) => Way4(mem', Root, v) /\ E4(mem', Root, v) = E4(mem, Root, v)
      BY <1>1, <1>2, <1>4, <1>6, RootKept
    <2>2. Way4(mem', Root, v) => Way4(mem, Root, v)
      BY <1>1, <1>2, <1>4, <1>5, <1>6, RootKept
    <2> QED
      BY <2>1, <2>2, SameTr
  <1> QED
    BY <1>1, <1>7, SpaceNow, SpaceThen

LEMMA AllocSpace == VmmInv /\ WalkAlloc => space' = space
  <1> SUFFICES ASSUME VmmInv, WalkAlloc
               PROVE  space' = space
    OBVIOUS
  <1> USE Constants
  <1>1. PICK r \in [Frames -> 0 .. 5] : Built(r)
    BY Given DEF WalkAlloc
  <1>2. PICK new \in Frames, q \in [Frames -> 0 .. 5] : AllocEffect(r, q, new)
    BY <1>1, WalkAllocEffect
  <1> DEFINE x == call.va[level]
  <1>3. /\ pc = "map" /\ pc' = "map" /\ task' = task /\ Root' = Root /\ level < 4
        /\ mem' \in Memory /\ r[new] = 0 /\ new # tab
        /\ mem'[tab][x].f = new /\ ~Linked(mem, tab, x)
        /\ \A y \in Idx : mem'[new][y] = Zero
        /\ \A u \in Frames : \A y \in Idx :
              u # new /\ (u # tab \/ y # x) /\ (u # K3 \/ y # N - 1) => mem'[u][y] = mem[u][y]
        /\ \A f \in Frames : f # new => q[f] = r[f]
        /\ Roles(q, mem', task) /\ KernelTables(mem', task)
    BY <1>2 DEF AllocEffect, Root
  <1>4. mem \in Memory /\ task \in Frames /\ KernelTables(mem, task)
    BY <1>3, Given
  <1>5. Roles(r, mem, task) /\ Root \in Frames /\ r[Root] = 1
    BY <1>1, <1>3, RootRole DEF Built
  <1>6. tab \in Frames /\ r[tab] = level
    BY <1>1, <1>3, WalkFacts
  <1>7. q[Root] = 1 /\ q[tab] # 4 /\ q[K3] = 4
    BY <1>3, <1>5, <1>6, RoleBasics
  <1> HIDE DEF x
  <1>8. Kept(r, mem, mem')
    BY <1>3 DEF Kept
  <1>9. \A y \in Idx : ~Linked(mem', new, y)
    BY <1>3, FlagFacts DEF Linked
  <1>10. ASSUME NEW v \in AllVas, Way4(mem', Root, v)
         PROVE  Way4(mem, Root, v)
    <2>1. PICK t1, t2, t3 \in Frames : Along(q, mem', Root, v, t1, t2, t3)
      BY <1>3, <1>4, <1>5, <1>7, <1>10, WayEntries
    <2>2. v[1] \in Idx /\ v[2] \in Idx /\ v[3] \in Idx /\ v[4] \in Idx
      BY AllPages
    <2>3. /\ q[t1] = 2 /\ q[t2] = 3 /\ q[t3] = 4 /\ (t3 # K3 \/ v[4] # N - 1)
          /\ Linked(mem', Root, v[1]) /\ Linked(mem', t1, v[2])
          /\ Linked(mem', t2, v[3]) /\ Linked(mem', t3, v[4])
      BY <2>1, Zenon DEF Along
    <2>4. /\ Root # new /\ t1 # new /\ t2 # new /\ t3 # new
          /\ Root # K3 /\ t1 # K3 /\ t2 # K3 /\ t3 # tab
      BY <1>5, <1>7, <1>9, <2>2, <2>3
    <2>5. /\ Root # tab \/ v[1] # x
          /\ t1 # tab \/ v[2] # x
          /\ t2 # tab \/ v[3] # x
      <3>1. t1 = mem'[Root][v[1]].f /\ t2 = mem'[t1][v[2]].f /\ t3 = mem'[t2][v[3]].f
        BY <2>1, Zenon DEF Along
      <3>2. mem'[tab][x].f = new
        BY <1>3
      <3> QED
        BY <2>4, <3>1, <3>2, Zenon
    <2>6. /\ mem'[Root][v[1]] = mem[Root][v[1]] /\ mem'[t1][v[2]] = mem[t1][v[2]]
          /\ mem'[t2][v[3]] = mem[t2][v[3]] /\ mem'[t3][v[4]] = mem[t3][v[4]]
      BY <1>3, <1>5, <2>2, <2>3, <2>4, <2>5
    <2> QED
      BY <1>10, <2>1, <2>6, SameWay
  <1>11. ASSUME NEW v \in AllVas
         PROVE  Tr(mem', Root, v) = Tr(mem, Root, v)
    <2>1. Way4(mem, Root, v) => Way4(mem', Root, v) /\ E4(mem', Root, v) = E4(mem, Root, v)
      BY <1>3, <1>4, <1>5, <1>8, RootKept
    <2> QED
      BY <1>10, <2>1, SameTr
  <1> QED
    BY <1>3, <1>11, SpaceNow, SpaceThen

LEMMA PteSpace == VmmInv /\ VmmInv' /\ PteEffect => Space!Map
  <1> SUFFICES ASSUME VmmInv, VmmInv', PteEffect
               PROVE  Space!Map
    OBVIOUS
  <1> USE Constants
  <1> DEFINE va == call.va
  <1>1. /\ pc # "boot" /\ pc' # "boot" /\ task' = task /\ Root' = Root
        /\ mem' \in Memory /\ tab \in Frames /\ call.f \in Frames /\ va \in LaterVas
        /\ Way3(mem, Root, va) /\ E3(mem, Root, va).f = tab
        /\ Way3(mem', Root, va) /\ E3(mem', Root, va).f = tab
        /\ Way4(mem', Root, va) /\ E4(mem', Root, va).f = call.f
        /\ \A u \in Frames : \A y \in Idx : u # tab \/ y # va[4] => mem'[u][y] = mem[u][y]
    BY DEF PteEffect, Root
  <1> HIDE DEF va
  <1>2. mem \in Memory /\ task \in Frames /\ KernelTables(mem, task)
    BY <1>1, Given
  <1>3. PICK r \in [Frames -> 0 .. 5] : Built(r)
    BY <1>1, Given
  <1>4. Roles(r, mem, task) /\ Root \in Frames /\ r[Root] = 1
    BY <1>1, <1>3, RootRole DEF Built
  <1>5. KernelTables(mem', task) /\ \E q \in [Frames -> 0 .. 5] : Roles(q, mem', task)
    BY <1>1 DEF VmmInv, Built
  <1>6. PICK q \in [Frames -> 0 .. 5] : Roles(q, mem', task)
    BY <1>5
  <1>7. q[Root] = 1 /\ va \in AllVas
    BY <1>1, <1>2, <1>6, RoleBasics DEF Root, AllVas
  <1>8. q[tab] = 4
    BY <1>1, <1>2, <1>4, <1>5, <1>6, <1>7, RootWay
  <1>9. ASSUME NEW v \in AllVas, v # va, Way4(mem, Root, v)
        PROVE  Way4(mem', Root, v) /\ E4(mem', Root, v) = E4(mem, Root, v)
    <2>1. PICK t1, t2, t3 \in Frames : Along(r, mem, Root, v, t1, t2, t3)
      BY <1>1, <1>2, <1>4, <1>9, WayEntries
    <2>2. v[1] \in Idx /\ v[2] \in Idx /\ v[3] \in Idx /\ v[4] \in Idx
      BY AllPages
    <2>3. Root # tab /\ t1 # tab /\ t2 # tab
      <3>1. r[t1] = 2 /\ r[t2] = 3 /\ r[t3] = 4 /\ (t3 # K3 \/ v[4] # N - 1)
        BY <2>1, Zenon DEF Along
      <3>2. r[tab] = 4
        BY <1>1, <1>2, <1>4, <1>7, RootWay
      <3> QED
        BY <1>4, <3>1, <3>2
    <2>4. t3 # tab \/ v[4] # va[4]
      <3>1. Way3(mem, Root, v)
        BY <1>9 DEF Way4
      <3>2. E3(mem, Root, v).f = t3
        BY <2>1, Zenon DEF Along, E1, E2, E3
      <3> QED
        BY <1>1, <1>2, <1>4, <1>7, <1>9, <3>1, <3>2, RootUnique
    <2>5. /\ mem'[Root][v[1]] = mem[Root][v[1]] /\ mem'[t1][v[2]] = mem[t1][v[2]]
          /\ mem'[t2][v[3]] = mem[t2][v[3]] /\ mem'[t3][v[4]] = mem[t3][v[4]]
      BY <1>1, <1>4, <2>2, <2>3, <2>4
    <2> QED
      BY <1>9, <2>1, <2>5, SameWay
  <1>10. ASSUME NEW v \in AllVas, v # va, Way4(mem', Root, v)
         PROVE  Way4(mem, Root, v)
    <2>1. PICK t1, t2, t3 \in Frames : Along(q, mem', Root, v, t1, t2, t3)
      BY <1>1, <1>2, <1>4, <1>5, <1>6, <1>7, <1>10, WayEntries
    <2>2. v[1] \in Idx /\ v[2] \in Idx /\ v[3] \in Idx /\ v[4] \in Idx
      BY AllPages
    <2>3. Root # tab /\ t1 # tab /\ t2 # tab
      <3>1. q[t1] = 2 /\ q[t2] = 3 /\ q[t3] = 4 /\ (t3 # K3 \/ v[4] # N - 1)
        BY <2>1, Zenon DEF Along
      <3> QED
        BY <1>7, <1>8, <3>1
    <2>4. t3 # tab \/ v[4] # va[4]
      <3>1. Way3(mem', Root, v)
        BY <1>10 DEF Way4
      <3>2. E3(mem', Root, v).f = t3
        BY <2>1, Zenon DEF Along, E1, E2, E3
      <3> QED
        BY <1>1, <1>2, <1>4, <1>5, <1>6, <1>7, <1>10, <3>1, <3>2, RootUnique
    <2>5. /\ mem'[Root][v[1]] = mem[Root][v[1]] /\ mem'[t1][v[2]] = mem[t1][v[2]]
          /\ mem'[t2][v[3]] = mem[t2][v[3]] /\ mem'[t3][v[4]] = mem[t3][v[4]]
      BY <1>1, <1>4, <2>2, <2>3, <2>4
    <2> QED
      BY <1>10, <2>1, <2>5, SameWay
  <1>11. ASSUME NEW v \in AllVas, v # va
         PROVE  Tr(mem', Root, v) = Tr(mem, Root, v)
    BY <1>9, <1>10, <1>11, SameTr
  <1>12. Tr(mem', Root, va) = call.f
    BY <1>1 DEF Tr
  <1>13. /\ space = [v \in AllVas |-> Tr(mem, Root, v)]
         /\ space' = [v \in AllVas |-> Tr(mem', Root, v)]
    BY <1>1, SpaceNow, SpaceThen
  <1>14. space'[va] \in Frames
    BY <1>1, <1>7, <1>12, <1>13
  <1>15. space' = [space EXCEPT ![va] = space'[va]]
    BY <1>7, <1>11, <1>13
  <1> QED
    BY <1>1, <1>14, <1>15 DEF Space!Map, Space!Only

LEMMA DropSpace ==
    ASSUME VmmInv, VmmInv', NEW va \in UserVas, DropEffect(va)
    PROVE  Space!Unmap
  <1> USE Constants
  <1> DEFINE t == E3(mem, task, va).f
  <1>1. /\ pc # "boot" /\ pc' # "boot" /\ task # NULL /\ task' = task
        /\ mem' \in Memory /\ Way4(mem, task, va) /\ mem'[t][va[4]] = Zero
        /\ \A u \in Frames : \A y \in Idx :
              (u # t \/ y # va[4]) /\ (u # K3 \/ y # N - 1) => mem'[u][y] = mem[u][y]
    BY DEF DropEffect
  <1>2. mem \in Memory /\ task \in Frames /\ KernelTables(mem, task)
    BY <1>1, Given
  <1>3. PICK r \in [Frames -> 0 .. 5] : Built(r)
    BY <1>1, Given
  <1>4. Roles(r, mem, task) /\ r[task] = 1 /\ Root = task /\ Root' = task
    BY <1>1, <1>2, <1>3, RoleBasics DEF Built, Root
  <1>5. KernelTables(mem', task) /\ \E q \in [Frames -> 0 .. 5] : Roles(q, mem', task)
    BY <1>1 DEF VmmInv, Built
  <1>6. PICK q \in [Frames -> 0 .. 5] : Roles(q, mem', task)
    BY <1>5
  <1>7. q[task] = 1 /\ va \in AllVas /\ va \in LaterVas /\ Way3(mem, task, va)
    BY <1>1, <1>2, <1>6, RoleBasics DEF AllVas, LaterVas, Way4
  <1>8. t \in Frames /\ r[t] = 4 /\ E4(mem, task, va).f \in Frames
    BY <1>1, <1>2, <1>4, <1>7, RootWay
  <1> HIDE DEF t
  <1>9. Kept(q, mem', mem)
    <2>1. ~Linked(mem', t, va[4])
      BY <1>1, FlagFacts DEF Linked
    <2> QED
      BY <1>1, <2>1 DEF Kept
  <1>10. ASSUME NEW v \in AllVas, v # va, Way4(mem, task, v)
         PROVE  Way4(mem', task, v) /\ E4(mem', task, v) = E4(mem, task, v)
    <2>1. PICK t1, t2, t3 \in Frames : Along(r, mem, task, v, t1, t2, t3)
      BY <1>1, <1>2, <1>4, <1>10, WayEntries
    <2>2. v[1] \in Idx /\ v[2] \in Idx /\ v[3] \in Idx /\ v[4] \in Idx
      BY AllPages
    <2>3. /\ task # t /\ t1 # t /\ t2 # t /\ task # K3 /\ t1 # K3 /\ t2 # K3
          /\ t3 # K3 \/ v[4] # N - 1
      <3>1. r[t1] = 2 /\ r[t2] = 3 /\ r[t3] = 4 /\ (t3 # K3 \/ v[4] # N - 1)
        BY <2>1, Zenon DEF Along
      <3>2. r[task] = 1 /\ r[K3] = 4
        BY <1>4, RoleBasics
      <3> QED
        BY <1>8, <3>1, <3>2
    <2>4. t3 # t \/ v[4] # va[4]
      <3>1. Way3(mem, task, v)
        BY <1>10 DEF Way4
      <3>2. E3(mem, task, v).f = t3
        BY <2>1, Zenon DEF Along, E1, E2, E3
      <3> QED
        BY <1>2, <1>4, <1>7, <1>10, <3>1, <3>2, RootUnique DEF t
    <2>5. /\ mem'[task][v[1]] = mem[task][v[1]] /\ mem'[t1][v[2]] = mem[t1][v[2]]
          /\ mem'[t2][v[3]] = mem[t2][v[3]] /\ mem'[t3][v[4]] = mem[t3][v[4]]
      BY <1>1, <1>2, <2>2, <2>3, <2>4
    <2> QED
      BY <1>10, <2>1, <2>5, SameWay
  <1>11. ASSUME NEW v \in AllVas, Way4(mem', task, v)
         PROVE  Way4(mem, task, v) /\ E3(mem, task, v) = E3(mem', task, v)
    BY <1>1, <1>2, <1>5, <1>6, <1>7, <1>9, <1>11, RootKept
  <1>12. ASSUME NEW v \in AllVas, v # va
         PROVE  Tr(mem', task, v) = Tr(mem, task, v)
    BY <1>10, <1>11, <1>12, SameTr
  <1>13. ~Way4(mem', task, va)
    <2>1. SUFFICES ASSUME Way4(mem', task, va)
                   PROVE  FALSE
      OBVIOUS
    <2>2. E3(mem', task, va).f = t
      BY <1>7, <1>11, <2>1 DEF t
    <2>3. E4(mem', task, va) = Zero
      BY <1>1, <2>2 DEF E4
    <2> QED
      BY <2>1, <2>3, FlagFacts DEF Way4
  <1>14. Tr(mem, task, va) \in Frames /\ Tr(mem', task, va) = Unmapped
    BY <1>1, <1>8, <1>13 DEF Tr
  <1>15. /\ space = [v \in AllVas |-> Tr(mem, task, v)]
         /\ space' = [v \in AllVas |-> Tr(mem', task, v)]
    BY <1>1, <1>4, SpaceNow, SpaceThen
  <1>16. space[va] # Unmapped /\ space'[va] = Unmapped
    <2>1. Unmapped \notin Frames
      BY DEF Unmapped, Frames
    <2> QED
      BY <1>7, <1>14, <1>15, <2>1
  <1>17. space' = [space EXCEPT ![va] = space'[va]]
    BY <1>7, <1>12, <1>15
  <1> QED
    BY <1>7, <1>16, <1>17 DEF Space!Unmap, Space!Only

LEMMA CopySpace == VmmInv /\ VmmInv' /\ CopyEffect => space' = space
  <1> SUFFICES ASSUME VmmInv, VmmInv', CopyEffect
               PROVE  space' = space
    OBVIOUS
  <1> USE Constants
  <1>1. /\ pc # "boot" /\ pc' # "boot" /\ task = NULL /\ task' = TaskFrame
        /\ Root = pml4t /\ Root' = TaskFrame /\ mem' \in Memory
        /\ \A y \in Idx : mem'[TaskFrame][y] = mem[pml4t][y]
        /\ \A u \in Frames : \A y \in Idx :
              u # TaskFrame /\ (u # K3 \/ y # N - 1) => mem'[u][y] = mem[u][y]
    BY DEF CopyEffect, Root
  <1>2. mem \in Memory /\ task \in Frames /\ KernelTables(mem, task)
    BY <1>1, Given
  <1>3. PICK r \in [Frames -> 0 .. 5] : Built(r) /\ r[TaskFrame] = 5
    BY DEF CopyEffect
  <1>4. Roles(r, mem, task) /\ r[pml4t] = 1 /\ r[K3] = 4
    BY <1>3, RoleBasics DEF Built
  <1>5. /\ KernelTables(mem', TaskFrame)
        /\ \E q \in [Frames -> 0 .. 5] : Roles(q, mem', TaskFrame)
    BY <1>1 DEF VmmInv, Built
  <1>6. PICK q \in [Frames -> 0 .. 5] : Roles(q, mem', TaskFrame)
    BY <1>5
  <1>7. q[TaskFrame] = 1 /\ q[K3] = 4
    BY <1>6, RoleBasics
  <1>8. ASSUME NEW v \in AllVas, Way4(mem, pml4t, v)
        PROVE  Way4(mem', TaskFrame, v) /\ E4(mem', TaskFrame, v) = E4(mem, pml4t, v)
    <2>1. PICK t1, t2, t3 \in Frames : Along(r, mem, pml4t, v, t1, t2, t3)
      BY <1>2, <1>4, <1>8, WayEntries
    <2>2. v[1] \in Idx /\ v[2] \in Idx /\ v[3] \in Idx /\ v[4] \in Idx
      BY AllPages
    <2>3. /\ t1 # TaskFrame /\ t2 # TaskFrame /\ t3 # TaskFrame /\ t1 # K3 /\ t2 # K3
          /\ t3 # K3 \/ v[4] # N - 1
      <3>1. r[t1] = 2 /\ r[t2] = 3 /\ r[t3] = 4 /\ (t3 # K3 \/ v[4] # N - 1)
        BY <2>1, Zenon DEF Along
      <3> QED
        BY <1>3, <1>4, <3>1
    <2>4. /\ mem'[TaskFrame][v[1]] = mem[pml4t][v[1]] /\ mem'[t1][v[2]] = mem[t1][v[2]]
          /\ mem'[t2][v[3]] = mem[t2][v[3]] /\ mem'[t3][v[4]] = mem[t3][v[4]]
      BY <1>1, <2>2, <2>3
    <2> QED
      BY <1>8, <2>1, <2>4, SameWay
  <1>9. ASSUME NEW v \in AllVas, Way4(mem', TaskFrame, v)
        PROVE  Way4(mem, pml4t, v)
    <2>1. PICK t1, t2, t3 \in Frames : Along(q, mem', TaskFrame, v, t1, t2, t3)
      BY <1>1, <1>5, <1>6, <1>7, <1>9, WayEntries
    <2>2. v[1] \in Idx /\ v[2] \in Idx /\ v[3] \in Idx /\ v[4] \in Idx
      BY AllPages
    <2>3. /\ t1 # TaskFrame /\ t2 # TaskFrame /\ t3 # TaskFrame /\ t1 # K3 /\ t2 # K3
          /\ t3 # K3 \/ v[4] # N - 1
      <3>1. q[t1] = 2 /\ q[t2] = 3 /\ q[t3] = 4 /\ (t3 # K3 \/ v[4] # N - 1)
        BY <2>1, Zenon DEF Along
      <3> QED
        BY <1>7, <3>1
    <2>4. /\ mem[pml4t][v[1]] = mem'[TaskFrame][v[1]] /\ mem[t1][v[2]] = mem'[t1][v[2]]
          /\ mem[t2][v[3]] = mem'[t2][v[3]] /\ mem[t3][v[4]] = mem'[t3][v[4]]
      BY <1>1, <2>2, <2>3
    <2> QED
      BY <1>9, <2>1, <2>4, SameWay
  <1>10. ASSUME NEW v \in AllVas
         PROVE  Tr(mem', TaskFrame, v) = Tr(mem, pml4t, v)
    BY <1>8, <1>9, SameTr
  <1> QED
    BY <1>1, <1>10, SpaceNow, SpaceThen

LEMMA PagingSpace == VmmInv /\ VmmInv' /\ paging_init => space' = space
  <1> SUFFICES ASSUME VmmInv, VmmInv', paging_init
               PROVE  space' = space
    OBVIOUS
  <1> USE Constants
  <1>1. pc = "boot" /\ pc' = "idle" /\ task = NULL /\ task' = NULL /\ Root' = pml4t
    BY DEF paging_init, VmmInv, Booting, Root
  <1>2. /\ mem' \in Memory /\ KernelTables(mem', NULL) /\ ~Linked(mem', K2, 1)
    BY <1>1 DEF VmmInv, TypeOK, Memory, Idx, EntryType, Calling
  <1> DEFINE m == mem'
  <1>3. /\ m[pml4t][N - 1] = Rw(K1) /\ \A x \in Idx : Linked(m, pml4t, x) => x = N - 1
        /\ m[K1][N - 2] = Rw(K2) /\ m[K2][0] = Rw(K3)
        /\ \A x \in Idx : Linked(m, K2, x) => x = 0
        /\ \A x \in 0 .. N - 2 : m[K3][x] = Rw(x)
    BY <1>2 DEF KernelTables
  <1> HIDE DEF m
  <1>4. \A f : Present(Rw(f)) /\ Rw(f).f = f
    BY FlagFacts
  <1>5. ASSUME NEW v \in KernelVas
        PROVE  Tr(m, pml4t, v) = v[4]
    <2>1. v[1] = N - 1 /\ v[2] = N - 2 /\ v[3] = 0 /\ v[4] \in 0 .. N - 2
      BY AllPages DEF AllVas
    <2>2. E1(m, pml4t, v) = Rw(K1)
      BY <1>3, <2>1 DEF E1
    <2>3. E2(m, pml4t, v) = Rw(K2)
      BY <1>3, <1>4, <2>1, <2>2 DEF E2
    <2>4. E3(m, pml4t, v) = Rw(K3)
      BY <1>3, <1>4, <2>1, <2>3 DEF E3
    <2>5. E4(m, pml4t, v) = Rw(v[4])
      BY <1>3, <1>4, <2>1, <2>4 DEF E4
    <2>6. Way4(m, pml4t, v)
      BY <1>4, <2>2, <2>3, <2>4, <2>5 DEF Way1, Way2, Way3, Way4
    <2> QED
      BY <1>4, <2>5, <2>6 DEF Tr
  <1>6. ASSUME NEW v \in LaterVas
        PROVE  Tr(m, pml4t, v) = Unmapped
    <2>1. /\ v[1] \in Idx /\ v[3] \in Idx
          /\ v[1] # N - 1 \/ (v[1] = N - 1 /\ v[2] = N - 2 /\ v[3] # 0)
      BY AllPages DEF AllVas
    <2>2. CASE v[1] # N - 1
      <3>1. ~Way1(m, pml4t, v)
        BY <1>3, <2>1, <2>2 DEF Way1, E1, Linked
      <3> QED
        BY <3>1 DEF Tr, Way4, Way3, Way2
    <2>3. CASE v[1] = N - 1 /\ v[2] = N - 2 /\ v[3] # 0
      <3>1. E1(m, pml4t, v) = Rw(K1)
        BY <1>3, <2>3 DEF E1
      <3>2. E2(m, pml4t, v) = Rw(K2)
        BY <1>3, <1>4, <2>3, <3>1 DEF E2
      <3>3. E3(m, pml4t, v) = m[K2][v[3]]
        BY <1>4, <3>2 DEF E3
      <3>4. ~Way3(m, pml4t, v)
        BY <1>3, <2>1, <2>3, <3>3 DEF Way3, Linked
      <3> QED
        BY <3>4 DEF Tr, Way4
    <2> QED
      BY <2>1, <2>2, <2>3
  <1>7. space' = [v \in AllVas |-> Tr(m, pml4t, v)]
    BY <1>1, SpaceThen DEF m
  <1>8. space = [v \in AllVas |-> IF v \in KernelVas THEN v[4] ELSE Unmapped]
    BY <1>1 DEF space, AllVas
  <1>9. ASSUME NEW v \in AllVas
        PROVE  Tr(m, pml4t, v) = IF v \in KernelVas THEN v[4] ELSE Unmapped
    BY <1>5, <1>6 DEF AllVas
  <1> QED
    BY <1>7, <1>8, <1>9

(* Every step of vmm.c maps one page, unmaps one page or changes no        *)
(* translation.                                                            *)
LEMMA SpaceStep == VmmInv /\ VmmInv' /\ [Next]_vars => [Space!Next]_space
  <1> SUFFICES ASSUME VmmInv, VmmInv', [Next]_vars
               PROVE  Space!Map \/ Space!Unmap \/ space' = space
    BY DEF Space!Next
  <1>1. CASE paging_init
    BY <1>1, PagingSpace
  <1>2. CASE NewTask
    BY <1>2, QuietStep DEF NewTask, map_page
  <1>3. CASE Load
    BY <1>3, QuietStep DEF Load, LoadPage, map_page
  <1>4. CASE Unmap
    BY <1>4, UnmapStep, DropSpace
  <1>5. CASE Touch
    BY <1>5, QuietStep DEF Touch
  <1>6. CASE Lookup
    BY <1>6, LookupStep, TempSpace
  <1>7. CASE WalkAlloc
    BY <1>7, AllocSpace
  <1>8. CASE WalkPanic
    BY <1>8, QuietStep DEF WalkPanic
  <1>9. CASE WalkFollow
    BY <1>9, WalkFollowStep, TempSpace
  <1>10. CASE WritePte
    BY <1>10, WritePteStep, PteSpace
  <1>11. CASE TaskCopy
    BY <1>11, TaskCopyStep, CopySpace
  <1>12. CASE UNCHANGED vars
    BY <1>12 DEF vars, alloc, walk, space, Root, Translate
  <1> QED
    BY <1>1, <1>2, <1>3, <1>4, <1>5, <1>6, <1>7, <1>8, <1>9, <1>10, <1>11, <1>12
    DEF Next, Walk, Stopped

(* vmm.c implements the abstract address space: whatever tables map_page   *)
(* allocates, links, clears and shares, each step gives one page a frame,  *)
(* takes it from one page, or changes no translation at all, and the pages *)
(* of the kernel keep theirs.                                              *)
THEOREM VmmRefinesAddressSpace == Spec => AddressSpaceSpec
  <1>1. Init => Space!Init
    <2>1. DOMAIN KernelPart = KernelVas /\ \A v \in KernelVas : KernelPart[v] = v[4]
      BY DEF KernelPart
    <2> QED
      BY <2>1 DEF Init, Space!Init, Space!Pages, space
  <1> QED
    BY <1>1, VmmInvariant, SpaceStep, PTL DEF Spec, AddressSpaceSpec, Space!Spec
=============================================================================
