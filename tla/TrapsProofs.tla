---------------------------- MODULE TrapsProofs ----------------------------
(***************************************************************************)
(* Proofs about the ways into and out of the kernel, for every depth of    *)
(* kernel_main's frame and of the stack, every number of key presses and   *)
(* every set of exceptions.                                                *)
(***************************************************************************)
EXTENDS Traps, TLAPS

(* Where the interrupted thread's stack pointer is, by the leaf function   *)
(* it is in, and where the CPU starts to push.                             *)
ThreadSp == BASE + (IF leaf = "no" THEN 0 ELSE IF leaf = "called" THEN 1 ELSE 2)
Aligned == ThreadSp + (ThreadSp % 2)

(* How far kernel_main has come decides what is set up: gates before lidt, *)
(* lidt and the PIC before sti, the GDT lost with paging_init.             *)
SetUp ==
    /\ idtr \in BOOLEAN /\ gdt \in BOOLEAN
    /\ pc > 1 => 0 .. 31 \subseteq gates
    /\ pc > 2 => pic.base = 32 /\ pic.mask = KeyboardOnly
    /\ pc > 3 => {32, 33} \subseteq gates
    /\ gates \subseteq 0 .. 33
    /\ idtr <=> pc > 4
    /\ intr => pc > 5
    /\ pc \in 9 .. 12 => ~gdt

(* A handler runs with interrupts off; only the keyboard's can be in       *)
(* service, and it is while its handler has not ended it, or if an NMI     *)
(* keeps it from that: isr_handler does not return.                        *)
Handling ==
    /\ mode \in {"read", "eoi", "return", "isr", "halted"} => ~intr
    /\ mode \in {"read", "eoi"} => pic.isr = {1}
    /\ mode \in {"thread", "return", "syscall"} => pic.isr = {}
    /\ mode \in {"isr", "halted"} /\ raised # 2 => pic.isr = {}
    /\ mode \in {"read", "eoi"} => raised = 33
    /\ mode \in {"isr", "halted"} => raised \in 0 .. 31
    /\ mode \in {"read", "eoi", "isr"} => regs["rdi"] = <<"number", raised>>
    /\ mode = "halted" => screen = <<raised, print_hex(raised)>>

(* The thread had interrupts on when its frame was pushed, and the stack   *)
(* holds until iretq where it was, its flags, its stack pointer, and its   *)
(* registers in the order they were pushed.                                *)
FrameKept ==
    mode \in {"read", "eoi", "return"} =>
        /\ pc > 5
        /\ sp = Aligned + Frame
        /\ stack[Aligned + 2] = <<"rsp", ThreadSp>>
        /\ stack[Aligned + 3] = <<"rflags", 1>>
        /\ stack[Aligned + 5] = <<"thread", 0>>
        /\ \A j \in 1 .. 15 : stack[Aligned + 7 + j] = <<Pushes[j], 0>>

(* The inductive invariant.                                                *)
TrapsInv ==
    /\ TypeOK /\ SetUp /\ Handling /\ FrameKept
    /\ ContextRestored /\ OneFrame /\ ResetExplained
-----------------------------------------------------------------------------
(* kernel_main has twelve steps.                                           *)
LEMMA HaltIs13 == Halt = 13
  BY DEF Halt, Order

(* The stubs push fifteen registers.                                       *)
LEMMA PushesNames ==
    \A j \in 1 .. 15 : Pushes[j] \in Regs
  BY DEF Regs

LEMMA RdiIsReg == "rdi" \in Regs
  <1>1. Pushes[6] = "rdi"
    BY DEF Pushes
  <1> QED
    BY <1>1 DEF Regs

(* A register is popped from the place it was pushed to.                   *)
LEMMA PopsMirrorPushes ==
    \A j \in 1 .. 15 : Pops[j] = Pushes[16 - j]
  BY DEF Pops, Pushes

LEMMA PopPlace ==
    ASSUME NEW r \in Regs
    PROVE  LET j == CHOOSE i \in 1 .. 15 : Pops[i] = r
           IN  /\ j \in 1 .. 15 /\ 16 - j \in 1 .. 15
               /\ Pushes[16 - j] = r
  <1>1. PICK i \in 1 .. 15 : Pushes[i] = r
    BY DEF Regs
  <1>2. 16 - i \in 1 .. 15 /\ 16 - (16 - i) = i
    OBVIOUS
  <1>3. Pops[16 - i] = r
    BY <1>1, <1>2, PopsMirrorPushes
  <1> DEFINE j == CHOOSE l \in 1 .. 15 : Pops[l] = r
  <1>4. j \in 1 .. 15 /\ Pops[j] = r
    BY <1>2, <1>3
  <1> HIDE DEF j
  <1>5. 16 - j \in 1 .. 15
    BY <1>4
  <1>6. Pushes[16 - j] = r
    BY <1>4, PopsMirrorPushes
  <1> QED
    BY <1>4, <1>5, <1>6 DEF j

(* Whatever the vector, an interrupt pushes the same 22 words: the stub    *)
(* supplies the error code when the CPU does not.                          *)
LEMMA WordsShape ==
    ASSUME NEW v
    PROVE  /\ Len(Words(v)) = Frame
           /\ Words(v)[2] = <<"rsp", sp>>
           /\ Words(v)[3] = <<"rflags", IF intr THEN 1 ELSE 0>>
           /\ Words(v)[5] = <<mode, 0>>
           /\ Words(v)[7] = <<"number", v>>
           /\ \A j \in 1 .. 15 : Words(v)[7 + j] = regs[Pushes[j]]
  <1>1. CASE v \in ISR_ERR
    BY <1>1 DEF Words, Frame, ISR_ERR, CpuPushesError
  <1>2. CASE v \notin ISR_ERR
    BY <1>2 DEF Words, Frame, ISR_ERR, CpuPushesError
  <1> QED
    BY <1>1, <1>2

(* The last two digits print_hex writes are the vector's.                  *)
LEMMA HexDigits ==
    ASSUME NEW n \in 0 .. 31
    PROVE  print_hex(n)[17] + 16 * print_hex(n)[16] = n
  <1>1. 16^0 = 1 /\ 16^1 = 16
    OBVIOUS
  <1>2. print_hex(n)[17] = n % 16
    BY <1>1 DEF print_hex
  <1>3. print_hex(n)[16] = (n \div 16) % 16
    BY <1>1 DEF print_hex
  <1> QED
    BY <1>2, <1>3
-----------------------------------------------------------------------------
(* Where the step counter is when a step is taken.                         *)
LEMMA AtStep ==
    ASSUME pc \in 1 .. Halt
    PROVE  /\ At("gates") <=> pc = 1
           /\ At("pic_remap") <=> pc = 2
           /\ At("irq_gates") <=> pc = 3
           /\ At("lidt") <=> pc = 4
           /\ At("sti") <=> pc = 5
           /\ At("sse_init") <=> pc = 6
           /\ At("alloc_page") <=> pc = 7
           /\ At("paging_init") <=> pc = 8
           /\ At("memory") <=> pc = 9
           /\ At("enable_syscall") <=> pc = 10
           /\ At("load_elf") <=> pc = 11
           /\ At("user") <=> pc = 12
  <1>1. pc = 1 =>
          /\ At("gates") /\ ~At("pic_remap") /\ ~At("irq_gates")
          /\ ~At("lidt") /\ ~At("sti") /\ ~At("sse_init")
          /\ ~At("alloc_page") /\ ~At("paging_init") /\ ~At("memory")
          /\ ~At("enable_syscall") /\ ~At("load_elf") /\ ~At("user")
    BY DEF At, Order
  <1>2. pc = 2 =>
          /\ ~At("gates") /\ At("pic_remap") /\ ~At("irq_gates")
          /\ ~At("lidt") /\ ~At("sti") /\ ~At("sse_init")
          /\ ~At("alloc_page") /\ ~At("paging_init") /\ ~At("memory")
          /\ ~At("enable_syscall") /\ ~At("load_elf") /\ ~At("user")
    BY DEF At, Order
  <1>3. pc = 3 =>
          /\ ~At("gates") /\ ~At("pic_remap") /\ At("irq_gates")
          /\ ~At("lidt") /\ ~At("sti") /\ ~At("sse_init")
          /\ ~At("alloc_page") /\ ~At("paging_init") /\ ~At("memory")
          /\ ~At("enable_syscall") /\ ~At("load_elf") /\ ~At("user")
    BY DEF At, Order
  <1>4. pc = 4 =>
          /\ ~At("gates") /\ ~At("pic_remap") /\ ~At("irq_gates")
          /\ At("lidt") /\ ~At("sti") /\ ~At("sse_init")
          /\ ~At("alloc_page") /\ ~At("paging_init") /\ ~At("memory")
          /\ ~At("enable_syscall") /\ ~At("load_elf") /\ ~At("user")
    BY DEF At, Order
  <1>5. pc = 5 =>
          /\ ~At("gates") /\ ~At("pic_remap") /\ ~At("irq_gates")
          /\ ~At("lidt") /\ At("sti") /\ ~At("sse_init")
          /\ ~At("alloc_page") /\ ~At("paging_init") /\ ~At("memory")
          /\ ~At("enable_syscall") /\ ~At("load_elf") /\ ~At("user")
    BY DEF At, Order
  <1>6. pc = 6 =>
          /\ ~At("gates") /\ ~At("pic_remap") /\ ~At("irq_gates")
          /\ ~At("lidt") /\ ~At("sti") /\ At("sse_init")
          /\ ~At("alloc_page") /\ ~At("paging_init") /\ ~At("memory")
          /\ ~At("enable_syscall") /\ ~At("load_elf") /\ ~At("user")
    BY DEF At, Order
  <1>7. pc = 7 =>
          /\ ~At("gates") /\ ~At("pic_remap") /\ ~At("irq_gates")
          /\ ~At("lidt") /\ ~At("sti") /\ ~At("sse_init")
          /\ At("alloc_page") /\ ~At("paging_init") /\ ~At("memory")
          /\ ~At("enable_syscall") /\ ~At("load_elf") /\ ~At("user")
    BY DEF At, Order
  <1>8. pc = 8 =>
          /\ ~At("gates") /\ ~At("pic_remap") /\ ~At("irq_gates")
          /\ ~At("lidt") /\ ~At("sti") /\ ~At("sse_init")
          /\ ~At("alloc_page") /\ At("paging_init") /\ ~At("memory")
          /\ ~At("enable_syscall") /\ ~At("load_elf") /\ ~At("user")
    BY DEF At, Order
  <1>9. pc = 9 =>
          /\ ~At("gates") /\ ~At("pic_remap") /\ ~At("irq_gates")
          /\ ~At("lidt") /\ ~At("sti") /\ ~At("sse_init")
          /\ ~At("alloc_page") /\ ~At("paging_init") /\ At("memory")
          /\ ~At("enable_syscall") /\ ~At("load_elf") /\ ~At("user")
    BY DEF At, Order
  <1>10. pc = 10 =>
          /\ ~At("gates") /\ ~At("pic_remap") /\ ~At("irq_gates")
          /\ ~At("lidt") /\ ~At("sti") /\ ~At("sse_init")
          /\ ~At("alloc_page") /\ ~At("paging_init") /\ ~At("memory")
          /\ At("enable_syscall") /\ ~At("load_elf") /\ ~At("user")
    BY DEF At, Order
  <1>11. pc = 11 =>
          /\ ~At("gates") /\ ~At("pic_remap") /\ ~At("irq_gates")
          /\ ~At("lidt") /\ ~At("sti") /\ ~At("sse_init")
          /\ ~At("alloc_page") /\ ~At("paging_init") /\ ~At("memory")
          /\ ~At("enable_syscall") /\ At("load_elf") /\ ~At("user")
    BY DEF At, Order
  <1>12. pc = 12 =>
          /\ ~At("gates") /\ ~At("pic_remap") /\ ~At("irq_gates")
          /\ ~At("lidt") /\ ~At("sti") /\ ~At("sse_init")
          /\ ~At("alloc_page") /\ ~At("paging_init") /\ ~At("memory")
          /\ ~At("enable_syscall") /\ ~At("load_elf") /\ At("user")
    BY DEF At, Order
  <1>13. pc = 13 =>
          /\ ~At("gates") /\ ~At("pic_remap") /\ ~At("irq_gates")
          /\ ~At("lidt") /\ ~At("sti") /\ ~At("sse_init")
          /\ ~At("alloc_page") /\ ~At("paging_init") /\ ~At("memory")
          /\ ~At("enable_syscall") /\ ~At("load_elf") /\ ~At("user")
    BY DEF At, Order
  <1>14. \/ pc = 1 \/ pc = 2 \/ pc = 3 \/ pc = 4 \/ pc = 5 \/ pc = 6 \/ pc = 7
         \/ pc = 8 \/ pc = 9 \/ pc = 10 \/ pc = 11 \/ pc = 12 \/ pc = 13
    BY HaltIs13
  <1> QED
    BY <1>1, <1>2, <1>3, <1>4, <1>5, <1>6, <1>7, <1>8, <1>9, <1>10, <1>11, <1>12,
       <1>13, <1>14

LEMMA InitTrapsInv ==
    Init => TrapsInv
  <1> SUFFICES ASSUME Init PROVE TrapsInv
    OBVIOUS
  <1>1. Halt = 13
    BY HaltIs13
  <1>2. pic \in [base : {8, 32}, mask : SUBSET (0 .. 7), irr : SUBSET (0 .. 7),
                 isr : SUBSET (0 .. 7)]
        /\ pic.isr = {}
    <2>1. (IF kbd THEN {1} ELSE {}) \in SUBSET (0 .. 7)
      OBVIOUS
    <2> QED
      BY <2>1 DEF Init
  <1>3. ~intr /\ ~idtr /\ gdt /\ {intr, idtr, gdt, kbd} \subseteq BOOLEAN
    BY Zenon DEF Init
  <1>4. /\ pc = 1 /\ leaf = "no" /\ mode = "thread"
        /\ DOMAIN stack = 1 .. DEPTH /\ DOMAIN regs = Regs
        /\ sp = BASE /\ gates = {}
    BY DEF Init, ThreadRegs
  <1>6. TypeOK
    BY <1>1, <1>2, <1>3, <1>4, TrapsAssumption DEF TypeOK, Frame
  <1>7. SetUp
    BY <1>3, <1>4 DEF SetUp
  <1>5. Handling /\ FrameKept /\ ContextRestored /\ OneFrame /\ ResetExplained
    BY <1>2, TrapsAssumption DEF Init, Handling, FrameKept, ContextRestored, OneFrame,
       ResetExplained, Frame
  <1> QED
    BY <1>5, <1>6, <1>7 DEF TrapsInv

(* A step of kernel_main leaves the CPU's state alone, but for the         *)
(* interrupt flag, so the invariant follows from what it sets up.          *)
LEMMA StepKeepsInv ==
    ASSUME TrapsInv, mode = "thread", leaf = "no",
           UNCHANGED <<leaf, mode, stack, sp, regs, kbd, screen, raised>>,
           pc' \in 1 .. Halt, intr' \in BOOLEAN, gates' \subseteq 0 .. 255,
           pic' \in [base : {8, 32}, mask : SUBSET (0 .. 7), irr : SUBSET (0 .. 7),
                     isr : SUBSET (0 .. 7)],
           pic'.isr = {}, SetUp'
    PROVE  TrapsInv'
  <1>1. TypeOK'
    BY DEF TrapsInv, TypeOK
  <1>2. Handling'
    BY DEF Handling
  <1>3. FrameKept' /\ ContextRestored' /\ OneFrame' /\ ResetExplained'
    BY DEF TrapsInv, FrameKept, ContextRestored, OneFrame, ResetExplained
  <1> QED
    BY <1>1, <1>2, <1>3 DEF TrapsInv

(* kernel_main's own steps: the tables get ready in the order SetUp says.  *)
LEMMA BootKeepsInv ==
    TrapsInv /\ Boot => TrapsInv'
  <1> SUFFICES ASSUME TrapsInv, Boot PROVE TrapsInv'
    OBVIOUS
  <1>1. /\ mode = "thread" /\ leaf = "no"
        /\ UNCHANGED <<leaf, mode, stack, sp, regs, kbd, screen, raised>>
    BY DEF Boot, SetGates, pic_remap, Lidt, Sti, BootStep, paging_init,
           enable_syscall, Sysret, HaltLoop, Step, cpu, devices
  <1>2. /\ pc \in 1 .. Halt /\ Halt = 13
        /\ intr \in BOOLEAN /\ gates \subseteq 0 .. 255
        /\ pic \in [base : {8, 32}, mask : SUBSET (0 .. 7), irr : SUBSET (0 .. 7),
                    isr : SUBSET (0 .. 7)]
        /\ pic.isr = {}
    BY <1>1, HaltIs13 DEF TrapsInv, TypeOK, Handling
  <1>3. SetUp
    BY DEF TrapsInv
  <1>4. CASE SetGates
    <2>1. UNCHANGED <<intr, idtr, gdt, pic>>
      BY <1>4 DEF SetGates
    <2>2. CASE Step("gates") /\ gates' = gates \cup 0 .. 31
      <3>1. At("gates") /\ pc' = pc + 1
        BY <2>2 DEF Step
      <3>2. pc = 1
        BY <1>2, <3>1, AtStep
      <3>3. pc' = 2
        BY <3>1, <3>2
      <3>4. SetUp'
        BY <1>2, <1>3, <2>1, <2>2, <3>2, <3>3 DEF SetUp
      <3>5. gates' \subseteq 0 .. 255 /\ pc' \in 1 .. Halt
        BY <1>2, <2>2, <3>3
      <3> QED
        BY <1>1, <1>2, <2>1, <3>4, <3>5, StepKeepsInv
    <2>3. CASE Step("irq_gates") /\ gates' = gates \cup {32, 33}
      <3>1. At("irq_gates") /\ pc' = pc + 1
        BY <2>3 DEF Step
      <3>2. pc = 3
        BY <1>2, <3>1, AtStep
      <3>3. pc' = 4
        BY <3>1, <3>2
      <3>4. SetUp'
        BY <1>2, <1>3, <2>1, <2>3, <3>2, <3>3 DEF SetUp
      <3>5. gates' \subseteq 0 .. 255 /\ pc' \in 1 .. Halt
        BY <1>2, <2>3, <3>3
      <3> QED
        BY <1>1, <1>2, <2>1, <3>4, <3>5, StepKeepsInv
    <2> QED
      BY <1>4, <2>2, <2>3 DEF SetGates
  <1>5. CASE pic_remap
    <2>1. At("pic_remap") /\ pc' = pc + 1
      BY <1>5 DEF pic_remap, Step
    <2>2. pc = 2 /\ pc' = 3
      <3>1. pc = 2
        BY <1>2, <2>1, AtStep
      <3> QED
        BY <2>1, <3>1
    <2>3. UNCHANGED <<intr, idtr, gdt, gates>>
      BY <1>5 DEF pic_remap, tables
    <2>4. /\ pic'.base = 32 /\ pic'.mask = KeyboardOnly /\ pic'.isr = {}
          /\ pic' \in [base : {8, 32}, mask : SUBSET (0 .. 7), irr : SUBSET (0 .. 7),
                       isr : SUBSET (0 .. 7)]
      BY <1>5 DEF pic_remap, KeyboardOnly
    <2>5. SetUp'
      BY <1>2, <1>3, <2>2, <2>3, <2>4 DEF SetUp
    <2> QED
      BY <1>1, <1>2, <2>2, <2>3, <2>4, <2>5, StepKeepsInv
  <1>6. CASE Lidt
    <2>1. At("lidt") /\ pc' = pc + 1
      BY <1>6 DEF Lidt, Step
    <2>2. pc = 4 /\ pc' = 5
      <3>1. pc = 4
        BY <1>2, <2>1, AtStep
      <3> QED
        BY <2>1, <3>1
    <2>3. UNCHANGED <<intr, gdt, gates, pic>>
      BY <1>6 DEF Lidt, tables
    <2>4. idtr' /\ idtr' \in BOOLEAN
      BY <1>6, Zenon DEF Lidt
    <2>5. SetUp'
      BY <1>2, <1>3, <2>2, <2>3, <2>4 DEF SetUp
    <2> QED
      BY <1>1, <1>2, <2>2, <2>3, <2>4, <2>5, StepKeepsInv
  <1>7. CASE Sti
    <2>1. At("sti") /\ pc' = pc + 1
      BY <1>7 DEF Sti, Step
    <2>2. pc = 5 /\ pc' = 6
      <3>1. pc = 5
        BY <1>2, <2>1, AtStep
      <3> QED
        BY <2>1, <3>1
    <2>3. UNCHANGED <<idtr, gdt, gates, pic>>
      BY <1>7 DEF Sti, tables
    <2>4. intr' /\ intr' \in BOOLEAN
      BY <1>7, Zenon DEF Sti
    <2>5. SetUp'
      BY <1>2, <1>3, <2>2, <2>3, <2>4 DEF SetUp
    <2> QED
      BY <1>1, <1>2, <2>2, <2>3, <2>4, <2>5, StepKeepsInv
  <1>8. CASE BootStep
    <2>1. (At("sse_init") \/ At("alloc_page") \/ At("memory")) /\ pc' = pc + 1
      BY <1>8 DEF BootStep, Step
    <2>2. pc \in {6, 7, 9} /\ pc' = pc + 1
      BY <1>2, <2>1, AtStep
    <2>3. UNCHANGED <<intr, idtr, gdt, gates, pic>>
      BY <1>8 DEF BootStep, tables
    <2>5. SetUp'
      BY <1>2, <1>3, <2>2, <2>3 DEF SetUp
    <2> QED
      BY <1>1, <1>2, <2>2, <2>3, <2>5, StepKeepsInv
  <1>9. CASE paging_init
    <2>1. At("paging_init") /\ pc' = pc + 1
      BY <1>9 DEF paging_init, Step
    <2>2. pc = 8 /\ pc' = 9
      <3>1. pc = 8
        BY <1>2, <2>1, AtStep
      <3> QED
        BY <2>1, <3>1
    <2>3. UNCHANGED <<intr, idtr, gates, pic>>
      BY <1>9 DEF paging_init, tables
    <2>4. ~gdt' /\ gdt' \in BOOLEAN
      BY <1>9, Zenon DEF paging_init
    <2>5. SetUp'
      BY <1>2, <1>3, <2>2, <2>3, <2>4 DEF SetUp
    <2> QED
      BY <1>1, <1>2, <2>2, <2>3, <2>4, <2>5, StepKeepsInv
  <1>10. CASE enable_syscall
    <2>1. At("enable_syscall") /\ pc' = pc + 1
      BY <1>10 DEF enable_syscall, Step
    <2>2. pc = 10 /\ pc' = 11
      <3>1. pc = 10
        BY <1>2, <2>1, AtStep
      <3> QED
        BY <2>1, <3>1
    <2>3. UNCHANGED <<intr, idtr, gdt, gates, pic>>
      BY <1>10 DEF enable_syscall, tables
    <2>5. SetUp'
      BY <1>2, <1>3, <2>2, <2>3 DEF SetUp
    <2> QED
      BY <1>1, <1>2, <2>2, <2>3, <2>5, StepKeepsInv
  <1>11. CASE Sysret
    <2>1. At("load_elf") /\ pc' = pc + 1
      BY <1>11 DEF Sysret, Step
    <2>2. pc = 11 /\ pc' = 12
      <3>1. pc = 11
        BY <1>2, <2>1, AtStep
      <3> QED
        BY <2>1, <3>1
    <2>3. UNCHANGED <<idtr, gdt, gates, pic>>
      BY <1>11 DEF Sysret, tables
    <2>4. ~intr' /\ intr' \in BOOLEAN
      BY <1>11, Zenon DEF Sysret
    <2>5. SetUp'
      BY <1>2, <1>3, <2>2, <2>3, <2>4 DEF SetUp
    <2> QED
      BY <1>1, <1>2, <2>2, <2>3, <2>4, <2>5, StepKeepsInv
  <1>12. CASE HaltLoop
    <2>1. (At("sse_init") \/ At("load_elf")) /\ pc' = Halt
      BY <1>12 DEF HaltLoop
    <2>2. pc \in {6, 11} /\ pc' = 13
      BY <1>2, <2>1, AtStep
    <2>3. UNCHANGED <<intr, idtr, gdt, gates, pic>>
      BY <1>12 DEF HaltLoop, cpu, tables, devices
    <2>5. SetUp'
      BY <1>2, <1>3, <2>2, <2>3 DEF SetUp
    <2> QED
      BY <1>1, <1>2, <2>2, <2>3, <2>5, StepKeepsInv
  <1> QED
    BY <1>4, <1>5, <1>6, <1>7, <1>8, <1>9, <1>10, <1>11, <1>12 DEF Boot

(* Calls of leaf functions: the thread's stack pointer follows.            *)
LEMMA LeafKeepsInv ==
    TrapsInv /\ Leaf => TrapsInv'
  <1> SUFFICES ASSUME TrapsInv, Leaf PROVE TrapsInv'
    OBVIOUS
  <1> USE DEF TrapsInv
  <1>1. /\ mode = "thread"
        /\ UNCHANGED <<pc, mode, regs, intr, gates, idtr, gdt, pic, kbd, screen, raised>>
    BY DEF Leaf, Call, Prologue, Ret, tables, devices
  <1>2. /\ leaf' \in {"no", "called", "running"}
        /\ DOMAIN stack' = 1 .. DEPTH
        /\ sp' = BASE + (IF leaf' = "no" THEN 0 ELSE IF leaf' = "called" THEN 1 ELSE 2)
    BY <1>1, TrapsAssumption DEF Leaf, Call, Prologue, Ret, ContextRestored, TypeOK
  <1>3. TypeOK'
    BY <1>1, <1>2, TrapsAssumption DEF TypeOK, Frame
  <1>4. SetUp' /\ Handling'
    BY <1>1 DEF SetUp, Handling
  <1>5. FrameKept' /\ ContextRestored' /\ OneFrame' /\ ResetExplained'
    BY <1>1, <1>2, TrapsAssumption DEF FrameKept, ContextRestored, OneFrame, Frame,
       ResetExplained
  <1> QED
    BY <1>3, <1>4, <1>5
-----------------------------------------------------------------------------
(* What entering a handler does: the frame is pushed below the interrupted *)
(* function, and the handler's argument is the vector.                     *)
LEMMA EnterPushes ==
    ASSUME TrapsInv, mode = "thread", NEW v \in 0 .. 33, Enter(v)
    PROVE  /\ sp' = Aligned + Frame
           /\ DOMAIN stack' = 1 .. DEPTH
           /\ stack'[Aligned + 2] = <<"rsp", ThreadSp>>
           /\ stack'[Aligned + 3] = <<"rflags", IF intr THEN 1 ELSE 0>>
           /\ stack'[Aligned + 5] = <<"thread", 0>>
           /\ \A j \in 1 .. 15 : stack'[Aligned + 7 + j] = <<Pushes[j], 0>>
           /\ DOMAIN regs' = Regs
           /\ regs'["rdi"] = <<"number", v>>
  <1>1. /\ sp = ThreadSp /\ ThreadSp \in BASE .. BASE + 2
        /\ Aligned \in BASE .. BASE + 2 /\ Aligned + Frame <= DEPTH
    BY TrapsAssumption DEF TrapsInv, TypeOK, ContextRestored, ThreadSp, Aligned, Frame
  <1>2. /\ sp' = Aligned + Len(Words(v))
        /\ stack' = [k \in 1 .. DEPTH |->
                        IF k \in Aligned + 1 .. sp' THEN Words(v)[k - Aligned] ELSE stack[k]]
        /\ regs' = [regs EXCEPT !["rdi"] = stack'[sp' - Arg]]
    BY <1>1 DEF Enter, Aligned
  <1>3. sp' = Aligned + 22
    BY <1>2, WordsShape DEF Frame
  <1>4. \A i \in 1 .. 22 : stack'[Aligned + i] = Words(v)[i]
    BY <1>1, <1>2, <1>3, TrapsAssumption DEF Frame
  <1>5. \A j \in 1 .. 15 : regs[Pushes[j]] = <<Pushes[j], 0>>
    BY PushesNames DEF TrapsInv, ContextRestored, ThreadRegs
  <1>6. \A j \in 1 .. 15 : stack'[Aligned + 7 + j] = <<Pushes[j], 0>>
    <2> SUFFICES ASSUME NEW j \in 1 .. 15
                 PROVE  stack'[Aligned + 7 + j] = <<Pushes[j], 0>>
      OBVIOUS
    <2>1. 7 + j \in 1 .. 22 /\ Aligned + 7 + j = Aligned + (7 + j)
      BY <1>1, TrapsAssumption
    <2>2. stack'[Aligned + 7 + j] = Words(v)[7 + j]
      BY <1>4, <2>1
    <2>3. Words(v)[7 + j] = regs[Pushes[j]]
      BY WordsShape
    <2> QED
      BY <1>5, <2>2, <2>3
  <1>7. /\ stack'[Aligned + 2] = <<"rsp", ThreadSp>>
        /\ stack'[Aligned + 3] = <<"rflags", IF intr THEN 1 ELSE 0>>
        /\ stack'[Aligned + 5] = <<"thread", 0>>
    <2>1. /\ stack'[Aligned + 2] = Words(v)[2]
          /\ stack'[Aligned + 3] = Words(v)[3]
          /\ stack'[Aligned + 5] = Words(v)[5]
      BY <1>4
    <2>2. /\ Words(v)[2] = <<"rsp", sp>>
          /\ Words(v)[3] = <<"rflags", IF intr THEN 1 ELSE 0>>
          /\ Words(v)[5] = <<mode, 0>>
      BY WordsShape, Zenon
    <2> QED
      BY <1>1, <2>1, <2>2, Zenon
  <1>8. stack'[Aligned + 7] = <<"number", v>>
    <2>1. stack'[Aligned + 7] = Words(v)[7]
      BY <1>4
    <2>2. Words(v)[7] = <<"number", v>>
      BY WordsShape, Zenon
    <2> QED
      BY <2>1, <2>2
  <1>9. sp' - Arg = Aligned + 7
    BY <1>1, <1>3, TrapsAssumption DEF Arg
  <1>10. DOMAIN regs' = Regs /\ regs'["rdi"] = <<"number", v>>
    BY <1>2, <1>8, <1>9, RdiIsReg DEF TrapsInv, TypeOK
  <1>11. DOMAIN stack' = 1 .. DEPTH
    BY <1>2
  <1> QED
    BY <1>3, <1>6, <1>7, <1>10, <1>11 DEF Frame

(* The shape of the PIC's registers.                                       *)
PicType ==
    [base : {8, 32}, mask : SUBSET (0 .. 7), irr : SUBSET (0 .. 7), isr : SUBSET (0 .. 7)]

(* Delivery of vector u: an exception, or the keyboard's interrupt.        *)
LEMMA DeliverKeepsInv ==
    ASSUME TrapsInv, mode = "thread", idtr, NEW v,
           NEW u, u = IF v \in gates THEN v ELSE 13, u \in gates, Deliver(v),
           \/ u \in 0 .. 31 /\ pic'.isr = {}
           \/ u = 33 /\ intr /\ pic'.isr = {1},
           pic' \in PicType, pic'.base = pic.base, pic'.mask = pic.mask,
           UNCHANGED <<kbd, screen>>
    PROVE  TrapsInv'
  <1>1. /\ raised' = u
        /\ IF idtr /\ gdt /\ u \in gates
           THEN Enter(u) ELSE mode' = "reset" /\ UNCHANGED <<stack, sp, regs, intr>>
        /\ UNCHANGED <<pc, leaf, gates, idtr, gdt>>
    BY DEF Deliver, thread, tables
  <1>2. u \in 0 .. 33
    BY DEF TrapsInv, SetUp
  <1>3. /\ ThreadSp' = ThreadSp /\ Aligned' = Aligned
        /\ Aligned \in BASE .. BASE + 2 /\ sp \in BASE .. BASE + 2
    BY <1>1, TrapsAssumption DEF ThreadSp, Aligned, TrapsInv, TypeOK, ContextRestored
  <1>4. CASE gdt
    <2>1. Enter(u)
      BY <1>1, <1>4
    <2>2. /\ sp' = Aligned + Frame
          /\ DOMAIN stack' = 1 .. DEPTH
          /\ stack'[Aligned + 2] = <<"rsp", ThreadSp>>
          /\ stack'[Aligned + 3] = <<"rflags", IF intr THEN 1 ELSE 0>>
          /\ stack'[Aligned + 5] = <<"thread", 0>>
          /\ \A j \in 1 .. 15 : stack'[Aligned + 7 + j] = <<Pushes[j], 0>>
          /\ DOMAIN regs' = Regs
          /\ regs'["rdi"] = <<"number", u>>
      BY <1>2, <2>1, EnterPushes
    <2>3. ~intr' /\ intr' \in BOOLEAN
      BY <2>1, Zenon DEF Enter, GateIf
    <2>4. mode' = IF u \in {32, 33} THEN "read" ELSE "isr"
      BY <2>1 DEF Enter
    <2>5. TypeOK'
      <3>1. mode' \in {"read", "isr"}
        BY <2>4
      <3>2. sp' \in BASE .. DEPTH
        <4>1. sp' = Aligned + 22
          BY <2>2 DEF Frame
        <4> QED
          BY <1>3, <4>1, TrapsAssumption DEF Frame
      <3> QED
        BY <1>1, <2>2, <2>3, <3>1, <3>2 DEF TrapsInv, TypeOK, PicType
    <2>6. SetUp'
      BY <1>1, <2>3 DEF TrapsInv, SetUp
    <2>7. Handling'
      <3>1. CASE u \in 0 .. 31 /\ pic'.isr = {}
        <4>1. mode' = "isr"
          BY <2>4, <3>1
        <4> QED
          BY <1>1, <2>2, <2>3, <3>1, <4>1 DEF Handling
      <3>2. CASE u = 33 /\ pic'.isr = {1}
        <4>1. mode' = "read"
          BY <2>4, <3>2
        <4> QED
          BY <1>1, <2>2, <2>3, <3>2, <4>1 DEF Handling
      <3> QED
        BY <3>1, <3>2
    <2>8. FrameKept'
      <3>1. mode' = "read" => u = 33 /\ intr
        BY <2>4
      <3>2. mode' = "read" => stack'[Aligned + 3] = <<"rflags", 1>>
        BY <2>2, <3>1
      <3>3. mode' \notin {"eoi", "return"}
        BY <2>4
      <3>4. mode' = "read" => pc' > 5
        BY <1>1, <3>1 DEF TrapsInv, SetUp
      <3> QED
        BY <1>3, <2>2, <3>2, <3>3, <3>4 DEF FrameKept
    <2>9. ContextRestored' /\ OneFrame' /\ ResetExplained'
      <3>1. mode' \notin {"thread", "reset"}
        BY <2>4
      <3>2. sp' <= BASE + 2 + 22
        <4>1. sp' = Aligned + 22
          BY <2>2 DEF Frame
        <4> QED
          BY <1>3, <4>1, TrapsAssumption
      <3>3. OneFrame'
        <4>1. BASE \in Nat /\ Frame = 22 /\ sp' \in Int
          BY <1>3, <2>2, TrapsAssumption DEF Frame
        <4>2. CASE raised' = 2
          BY ONLY <3>2, <4>1, <4>2 DEF OneFrame
        <4>3. CASE raised' # 2
          BY ONLY <3>2, <4>1, <4>3 DEF OneFrame
        <4> QED
          BY <4>2, <4>3
      <3> QED
        BY <3>1, <3>3 DEF ContextRestored, ResetExplained
    <2> QED
      BY <2>5, <2>6, <2>7, <2>8, <2>9 DEF TrapsInv
  <1>5. CASE ~gdt
    <2>1. mode' = "reset" /\ UNCHANGED <<stack, sp, regs, intr>>
      BY <1>1, <1>5
    <2>2. TypeOK'
      BY <1>1, <2>1 DEF TrapsInv, TypeOK, PicType
    <2>3. SetUp'
      BY <1>1, <2>1 DEF TrapsInv, SetUp
    <2>4. Handling' /\ FrameKept'
      BY <2>1 DEF Handling, FrameKept
    <2>5. ContextRestored' /\ ResetExplained'
      BY <1>1, <1>5, <2>1 DEF ContextRestored, ResetExplained
    <2>6. OneFrame'
      BY <1>3, <2>1, TrapsAssumption DEF OneFrame, Frame
    <2> QED
      BY <2>2, <2>3, <2>4, <2>5, <2>6 DEF TrapsInv
  <1> QED
    BY <1>4, <1>5

(* Interrupts are on only while kernel_main runs, with everything set up.  *)
LEMMA IntrMeansThread ==
    ASSUME TrapsInv, Running, intr
    PROVE  /\ mode = "thread" /\ idtr
           /\ pic.base = 32 /\ pic.mask = KeyboardOnly /\ pic.isr = {}
           /\ 13 \in gates /\ 33 \in gates /\ 39 \notin gates
  <1>1. mode = "thread"
    BY DEF TrapsInv, TypeOK, Handling, Running
  <1>2. pc > 5
    BY DEF TrapsInv, SetUp
  <1>3. pc \in Nat
    BY HaltIs13 DEF TrapsInv, TypeOK
  <1> QED
    BY <1>1, <1>2, <1>3 DEF TrapsInv, SetUp, Handling

(* The keyboard's is the only interrupt the PIC lets through.              *)
LEMMA InterruptKeepsInv ==
    TrapsInv /\ Interrupt => TrapsInv'
  <1> SUFFICES ASSUME TrapsInv, Interrupt PROVE TrapsInv'
    OBVIOUS
  <1>1. /\ mode = "thread" /\ idtr /\ intr
        /\ pic.base = 32 /\ pic.mask = KeyboardOnly /\ pic.isr = {}
        /\ 33 \in gates
    BY IntrMeansThread DEF Interrupt
  <1>2. PICK q \in Pending :
            /\ pic' = [pic EXCEPT !.irr = @ \ {q}, !.isr = @ \cup {q}]
            /\ Deliver(pic.base + q)
    BY Zenon DEF Interrupt
  <1>3. pic \in PicType
    BY DEF TrapsInv, TypeOK, PicType
  <1>4. q = 1
    BY <1>1, <1>2, <1>3 DEF Pending, KeyboardOnly, PicType
  <1>5. Deliver(33)
    BY <1>1, <1>2, <1>4
  <1>6. /\ pic' \in PicType /\ pic'.base = pic.base /\ pic'.mask = pic.mask
        /\ pic'.isr = {1}
    <2>1. pic' = [pic EXCEPT !.irr = pic.irr \ {1}, !.isr = pic.isr \cup {1}]
      BY <1>2, <1>4
    <2>2. pic'.base = pic.base /\ pic'.mask = pic.mask /\ pic'.isr = {1}
      BY <1>1, <1>3, <2>1 DEF PicType
    <2>3. pic.irr \ {1} \in SUBSET (0 .. 7) /\ pic.isr \cup {1} \in SUBSET (0 .. 7)
      BY <1>3 DEF PicType
    <2> QED
      BY <1>3, <2>1, <2>2, <2>3 DEF PicType
  <1>7. UNCHANGED <<kbd, screen>>
    BY DEF Interrupt
  <1>8. 33 = IF 33 \in gates THEN 33 ELSE 13
    BY <1>1
  <1> QED
    BY <1>1, <1>5, <1>6, <1>7, <1>8, DeliverKeepsInv

(* A spurious interrupt is a general protection fault, for its vector has  *)
(* no gate.                                                                *)
LEMMA SpuriousKeepsInv ==
    TrapsInv /\ Spurious => TrapsInv'
  <1> SUFFICES ASSUME TrapsInv, Spurious PROVE TrapsInv'
    OBVIOUS
  <1>1. /\ mode = "thread" /\ idtr /\ pic.base = 32 /\ pic.isr = {}
        /\ 13 \in gates /\ 39 \notin gates
    BY IntrMeansThread DEF Spurious
  <1>2. Deliver(39) /\ UNCHANGED <<pic, kbd, screen>>
    BY <1>1 DEF Spurious, devices
  <1>3. pic' \in PicType
    BY <1>2 DEF TrapsInv, TypeOK, PicType
  <1>4. 13 = IF 39 \in gates THEN 39 ELSE 13
    BY <1>1
  <1> QED
    BY <1>1, <1>2, <1>3, <1>4, DeliverKeepsInv

(* An NMI in irq_handler: its frame goes below the first one, and there is *)
(* no way back from isr_handler.                                           *)
LEMMA NmiKeepsInv ==
    ASSUME TrapsInv, mode \in {"read", "eoi", "return"}, Deliver(2), UNCHANGED devices
    PROVE  TrapsInv'
  <1>1. TypeOK /\ SetUp /\ FrameKept
    BY DEF TrapsInv
  <1>2. /\ raised' = IF 2 \in gates THEN 2 ELSE 13
        /\ UNCHANGED <<pc, leaf, gates, idtr, gdt, pic, kbd, screen>>
    BY DEF Deliver, thread, tables, devices
  <1>3. pc > 5 /\ pc \in Nat
    BY <1>1, HaltIs13 DEF TypeOK, FrameKept
  <1>4. 2 \in gates /\ idtr /\ raised' = 2
    BY <1>1, <1>2, <1>3 DEF SetUp
  <1>6. CASE gdt
    <2>1. Enter(2)
      BY <1>4, <1>6 DEF Deliver
    <2>2. sp \in BASE .. BASE + 2 + Frame
      <3>1. ThreadSp \in BASE .. BASE + 2 /\ Aligned \in BASE .. BASE + 2
        BY <1>1, TrapsAssumption DEF TypeOK, ThreadSp, Aligned
      <3> QED
        BY <1>1, <3>1, TrapsAssumption DEF FrameKept, Frame
    <2> DEFINE at == sp + (sp % 2)
    <2>3. at \in BASE .. BASE + 2 + Frame
      BY <2>2, TrapsAssumption DEF Frame
    <2>4. /\ sp' = at + Len(Words(2))
          /\ stack' = [k \in 1 .. DEPTH |->
                         IF k \in at + 1 .. sp' THEN Words(2)[k - at] ELSE stack[k]]
          /\ regs' = [regs EXCEPT !["rdi"] = stack'[sp' - Arg]]
          /\ mode' = "isr"
      BY <2>1 DEF Enter
    <2>5. ~intr' /\ intr' \in BOOLEAN
      BY <2>1, Zenon DEF Enter, GateIf
    <2> HIDE DEF at
    <2>6. sp' = at + 22
      BY <2>4, WordsShape DEF Frame
    <2>7. sp' \in BASE .. DEPTH /\ sp' <= BASE + 2 + Frame + Frame /\ at + 7 \in 1 .. DEPTH
      BY <2>3, <2>6, TrapsAssumption DEF Frame
    <2>8. stack'[at + 7] = <<"number", 2>>
      <3> DEFINE words == Words(2)
      <3>1. stack' = [k \in 1 .. DEPTH |->
                         IF k \in at + 1 .. sp' THEN words[k - at] ELSE stack[k]]
        BY <2>4
      <3> HIDE DEF words
      <3>2. stack'[at + 7] = Words(2)[7]
        <4>1. stack'[at + 7] = words[7]
          BY <2>3, <2>6, <2>7, <3>1, TrapsAssumption DEF Frame
        <4> QED
          BY <4>1 DEF words
      <3>3. Words(2)[7] = <<"number", 2>>
        BY WordsShape, Zenon
      <3> QED
        BY <3>2, <3>3
    <2>9. sp' - Arg = at + 7
      BY <2>3, <2>6, TrapsAssumption DEF Arg, Frame
    <2>10. regs'["rdi"] = <<"number", 2>> /\ DOMAIN regs' = Regs
      BY <1>1, <2>4, <2>8, <2>9, RdiIsReg DEF TypeOK
    <2>11. DOMAIN stack' = 1 .. DEPTH
      BY <2>4
    <2>12. TypeOK'
      BY <1>1, <1>2, <2>4, <2>5, <2>7, <2>10, <2>11 DEF TypeOK
    <2>13. SetUp'
      BY <1>1, <1>2, <2>5 DEF SetUp
    <2>14. Handling'
      BY <1>4, <2>4, <2>5, <2>10 DEF Handling
    <2>15. FrameKept' /\ ContextRestored' /\ ResetExplained'
      BY <2>4 DEF FrameKept, ContextRestored, ResetExplained
    <2>16. OneFrame'
      BY <1>4, <2>7 DEF OneFrame
    <2> QED
      BY <2>12, <2>13, <2>14, <2>15, <2>16 DEF TrapsInv
  <1>7. CASE ~gdt
    <2>1. mode' = "reset" /\ UNCHANGED <<stack, sp, regs, intr>>
      BY <1>4, <1>7 DEF Deliver
    <2>2. TypeOK'
      BY <1>1, <1>2, <2>1 DEF TypeOK
    <2>3. SetUp'
      BY <1>1, <1>2, <2>1 DEF SetUp
    <2>4. Handling' /\ FrameKept'
      BY <2>1 DEF Handling, FrameKept
    <2>5. ContextRestored' /\ ResetExplained'
      BY <1>2, <1>7, <2>1 DEF ContextRestored, ResetExplained
    <2>6. OneFrame'
      <3>1. sp \in Int /\ BASE \in Int /\ sp <= BASE + 2 + Frame + Frame
        BY <1>1, TrapsAssumption DEF TrapsInv, TypeOK, OneFrame, Frame
      <3> QED
        BY <1>4, <2>1, <3>1 DEF OneFrame
    <2> QED
      BY <2>2, <2>3, <2>4, <2>5, <2>6 DEF TrapsInv
  <1> QED
    BY <1>6, <1>7

(* Every exception has its gate once the IDT is loaded.                    *)
LEMMA ExceptionKeepsInv ==
    TrapsInv /\ Exception => TrapsInv'
  <1> SUFFICES ASSUME TrapsInv, Exception PROVE TrapsInv'
    OBVIOUS
  <1>1. PICK v \in Exceptions :
            /\ mode = "thread" \/ (v = 2 /\ mode \in {"read", "eoi", "return"})
            /\ Deliver(v)
    BY DEF Exception
  <1>2. idtr /\ UNCHANGED devices /\ UNCHANGED <<pic, kbd, screen>>
    BY DEF Exception, devices
  <1>3. CASE mode = "thread"
    <2>1. pc > 4 /\ pc \in Nat
      BY <1>2, HaltIs13 DEF TrapsInv, TypeOK, SetUp
    <2>2. v \in 0 .. 31 /\ v \in gates
      BY <1>1, <2>1, TrapsAssumption DEF TrapsInv, SetUp
    <2>3. pic' \in PicType /\ pic'.isr = {}
      BY <1>2, <1>3 DEF TrapsInv, TypeOK, PicType, Handling
    <2>4. v = IF v \in gates THEN v ELSE 13
      BY <2>2
    <2> QED
      BY <1>1, <1>2, <1>3, <2>2, <2>3, <2>4, DeliverKeepsInv
  <1>4. CASE v = 2 /\ mode \in {"read", "eoi", "return"}
    BY <1>1, <1>2, <1>4, NmiKeepsInv
  <1> QED
    BY <1>1, <1>3, <1>4
-----------------------------------------------------------------------------
(* isr_handler prints the vector it was given.                             *)
LEMMA IsrHandlerKeepsInv ==
    TrapsInv /\ isr_handler => TrapsInv'
  <1> SUFFICES ASSUME TrapsInv, isr_handler PROVE TrapsInv'
    OBVIOUS
  <1>1. /\ mode = "isr" /\ mode' = "halted"
        /\ UNCHANGED <<pc, leaf, stack, sp, regs, intr, gates, idtr, gdt, pic, kbd, raised>>
    BY DEF isr_handler, thread, tables
  <1>2. /\ raised \in 0 .. 31 /\ regs["rdi"] = <<"number", raised>> /\ ~intr
        /\ raised # 2 => pic.isr = {}
    BY <1>1 DEF TrapsInv, Handling
  <1>3. regs["rdi"][2] = raised
    BY <1>2
  <1>4. screen' = <<raised, print_hex(raised)>>
    <2>1. screen' = << IF raised < 32 THEN raised ELSE 32, print_hex(raised) >>
      BY <1>3, Zenon DEF isr_handler
    <2>2. (IF raised < 32 THEN raised ELSE 32) = raised
      BY <1>2
    <2> QED
      BY <2>1, <2>2, Zenon
  <1>5. TypeOK' /\ SetUp'
    <2>1. TypeOK /\ SetUp
      BY DEF TrapsInv
    <2>2. TypeOK'
      BY <1>1, <2>1, Zenon DEF TypeOK
    <2>3. SetUp'
      BY <1>1, <2>1, Zenon DEF SetUp
    <2> QED
      BY <2>2, <2>3
  <1>6. Handling'
    BY <1>1, <1>2, <1>4 DEF Handling
  <1>7. FrameKept' /\ ContextRestored' /\ OneFrame' /\ ResetExplained'
    BY <1>1 DEF TrapsInv, FrameKept, ContextRestored, OneFrame, ResetExplained
  <1> QED
    BY <1>5, <1>6, <1>7 DEF TrapsInv

(* irq_handler: the frame stays as it is until the registers are popped.   *)
LEMMA ReadScancodeKeepsInv ==
    TrapsInv /\ ReadScancode => TrapsInv'
  <1> SUFFICES ASSUME TrapsInv, ReadScancode PROVE TrapsInv'
    OBVIOUS
  <1>1. /\ mode = "read" /\ mode' = "eoi"
        /\ UNCHANGED <<pc, leaf, stack, sp, regs, intr, gates, idtr, gdt, pic, screen, raised>>
    BY DEF ReadScancode, thread, tables
  <1>2. kbd' \in BOOLEAN
    BY Zenon DEF ReadScancode
  <1>3. TypeOK' /\ SetUp'
    <2>1. TypeOK /\ SetUp
      BY DEF TrapsInv
    <2>2. TypeOK'
      BY <1>1, <1>2, <2>1, Zenon DEF TypeOK
    <2>3. SetUp'
      BY <1>1, <1>2, <2>1, Zenon DEF SetUp
    <2> QED
      BY <2>2, <2>3
  <1>4. Handling'
    BY <1>1 DEF TrapsInv, Handling
  <1>5. FrameKept'
    BY <1>1, Zenon DEF TrapsInv, FrameKept, Aligned, ThreadSp
  <1>6. ContextRestored' /\ OneFrame' /\ ResetExplained'
    BY <1>1 DEF TrapsInv, ContextRestored, OneFrame, ResetExplained
  <1> QED
    BY <1>3, <1>4, <1>5, <1>6 DEF TrapsInv

LEMMA SendEoiKeepsInv ==
    TrapsInv /\ SendEoi => TrapsInv'
  <1> SUFFICES ASSUME TrapsInv, SendEoi PROVE TrapsInv'
    OBVIOUS
  <1>1. /\ mode = "eoi" /\ mode' = "return"
        /\ UNCHANGED <<pc, leaf, stack, sp, intr, gates, idtr, gdt, kbd, screen, raised>>
    BY DEF SendEoi, thread, tables
  <1>2. DOMAIN regs' = Regs
    BY DEF SendEoi, Clobbered
  <1>3. pic \in PicType /\ pic.isr = {1} /\ ~intr
    BY <1>1 DEF TrapsInv, TypeOK, PicType, Handling
  <1>4. Eoi(pic.isr) = {}
    BY <1>3 DEF Eoi
  <1>5. pic' = [pic EXCEPT !.isr = {}]
    BY <1>4 DEF SendEoi
  <1>6. pic' \in PicType /\ pic'.isr = {} /\ pic'.base = pic.base /\ pic'.mask = pic.mask
    BY <1>3, <1>5 DEF PicType
  <1>7. TypeOK' /\ SetUp'
    <2>1. TypeOK /\ SetUp
      BY DEF TrapsInv
    <2>2. TypeOK'
      BY <1>1, <1>2, <1>6, <2>1, Zenon DEF TypeOK, PicType
    <2>3. SetUp'
      BY <1>1, <1>2, <1>6, <2>1, Zenon DEF SetUp
    <2> QED
      BY <2>2, <2>3
  <1>8. Handling'
    BY <1>1, <1>3, <1>6 DEF Handling
  <1>9. FrameKept'
    BY <1>1, Zenon DEF TrapsInv, FrameKept, Aligned, ThreadSp
  <1>10. ContextRestored' /\ OneFrame' /\ ResetExplained'
    BY <1>1 DEF TrapsInv, ContextRestored, OneFrame, ResetExplained
  <1> QED
    BY <1>7, <1>8, <1>9, <1>10 DEF TrapsInv

(* iretq and the pops before it give the thread everything back.           *)
LEMMA IretqKeepsInv ==
    TrapsInv /\ Iretq => TrapsInv'
  <1> SUFFICES ASSUME TrapsInv, Iretq PROVE TrapsInv'
    OBVIOUS
  <1>1. /\ mode = "return"
        /\ UNCHANGED <<pc, leaf, stack, gates, idtr, gdt, pic, kbd, screen, raised>>
    BY DEF Iretq, thread, tables, devices
  <1>2. /\ ThreadSp \in BASE .. BASE + 2 /\ Aligned \in BASE .. BASE + 2
        /\ ThreadSp' = ThreadSp
    BY <1>1, TrapsAssumption DEF TrapsInv, TypeOK, ThreadSp, Aligned
  <1>3. /\ sp = Aligned + 22
        /\ stack[Aligned + 2] = <<"rsp", ThreadSp>>
        /\ stack[Aligned + 3] = <<"rflags", 1>>
        /\ stack[Aligned + 5] = <<"thread", 0>>
    BY <1>1 DEF TrapsInv, FrameKept, Frame
  <1>4. \A j \in 1 .. 15 : stack[Aligned + 7 + j] = <<Pushes[j], 0>>
    BY <1>1 DEF TrapsInv, FrameKept
  <1> DEFINE top == sp - 15 - Add16
  <1>5. top = Aligned + 5 /\ top - 2 = Aligned + 3 /\ top - 3 = Aligned + 2
    BY <1>2, <1>3, TrapsAssumption DEF Add16
  <1>6. mode' = "thread"
    BY <1>3, <1>5 DEF Iretq
  <1>7. sp' = ThreadSp
    BY <1>3, <1>5 DEF Iretq
  <1>8. intr' /\ intr' \in BOOLEAN
    <2>1. intr' = (stack[Aligned + 3] = <<"rflags", 1>>)
      BY <1>5 DEF Iretq
    <2> QED
      BY <1>3, <2>1, Zenon
  <1>9. regs' = ThreadRegs
    <2>1. regs' = [r \in Regs |-> stack[sp + 1 - CHOOSE k \in 1 .. 15 : Pops[k] = r]]
      BY DEF Iretq
    <2>2. ASSUME NEW r \in Regs
          PROVE  stack[sp + 1 - CHOOSE k \in 1 .. 15 : Pops[k] = r] = <<r, 0>>
      <3> DEFINE j == CHOOSE k \in 1 .. 15 : Pops[k] = r
      <3>1. j \in 1 .. 15 /\ 16 - j \in 1 .. 15 /\ Pushes[16 - j] = r
        BY PopPlace
      <3>2. stack[Aligned + 7 + (16 - j)] = <<r, 0>>
        BY <1>4, <3>1
      <3> HIDE DEF j
      <3>4. sp + 1 - j = Aligned + 7 + (16 - j)
        BY <1>2, <1>3, <3>1, TrapsAssumption
      <3>5. stack[sp + 1 - j] = <<r, 0>>
        BY <3>2, <3>4
      <3> QED
        BY <3>5 DEF j
    <2> QED
      BY <2>1, <2>2 DEF ThreadRegs
  <1>10. pc > 5 /\ pic.isr = {}
    BY <1>1 DEF TrapsInv, FrameKept, Handling
  <1>11. TypeOK'
    BY <1>1, <1>2, <1>6, <1>7, <1>8, <1>9, TrapsAssumption
       DEF TrapsInv, TypeOK, ThreadRegs, Frame
  <1>12. SetUp'
    BY <1>1, <1>10 DEF TrapsInv, SetUp
  <1>13. Handling' /\ FrameKept'
    BY <1>1, <1>6, <1>10 DEF Handling, FrameKept
  <1>14. ContextRestored'
    BY <1>2, <1>6, <1>7, <1>9 DEF ContextRestored, ThreadSp
  <1>15. OneFrame' /\ ResetExplained'
    BY <1>2, <1>6, <1>7, TrapsAssumption DEF OneFrame, ResetExplained, Frame
  <1> QED
    BY <1>11, <1>12, <1>13, <1>14, <1>15 DEF TrapsInv

(* The program's system call ends the boot; it may find no GDT.            *)
LEMMA SyscallKeepsInv ==
    TrapsInv /\ Syscall => TrapsInv'
  <1> SUFFICES ASSUME TrapsInv, Syscall PROVE TrapsInv'
    OBVIOUS
  <1>1. /\ mode = "thread" /\ At("user")
        /\ UNCHANGED <<pc, leaf, stack, sp, regs, intr, gates, idtr, gdt, pic, kbd, screen, raised>>
    BY DEF Syscall, thread, tables, devices
  <1>2. mode' \in {"syscall", "reset"}
    <2>1. (IF sce THEN {"syscall", "reset"} ELSE {"reset"}) \subseteq {"syscall", "reset"}
      BY Zenon
    <2> QED
      BY <2>1 DEF Syscall
  <1>3. pc \in 1 .. Halt
    BY DEF TrapsInv, TypeOK
  <1>4. pc = 12
    BY <1>1, <1>3, AtStep
  <1>5. ~gdt
    BY <1>4 DEF TrapsInv, SetUp
  <1>6. TypeOK' /\ SetUp'
    <2>1. TypeOK'
      BY <1>1, <1>2 DEF TrapsInv, TypeOK
    <2>2. SetUp'
      BY <1>1, <1>2 DEF TrapsInv, SetUp
    <2> QED
      BY <2>1, <2>2
  <1>7. Handling' /\ FrameKept'
    BY <1>1, <1>2 DEF TrapsInv, Handling, FrameKept
  <1>8. ContextRestored' /\ OneFrame' /\ ResetExplained'
    BY <1>1, <1>2, <1>5 DEF TrapsInv, ContextRestored, OneFrame, ResetExplained
  <1> QED
    BY <1>6, <1>7, <1>8 DEF TrapsInv

(* The devices touch the requests only.                                    *)
LEMMA DevicesKeepInv ==
    TrapsInv /\ (KeyPress \/ Tick) => TrapsInv'
  <1> SUFFICES ASSUME TrapsInv, KeyPress \/ Tick PROVE TrapsInv'
    OBVIOUS
  <1>1. UNCHANGED <<pc, leaf, mode, stack, sp, regs, intr, gates, idtr, gdt, screen, raised>>
    BY DEF KeyPress, Tick, thread, cpu, tables
  <1>2. pic \in PicType
    BY DEF TrapsInv, TypeOK, PicType
  <1>3. /\ pic' \in PicType
        /\ pic'.base = pic.base /\ pic'.mask = pic.mask /\ pic'.isr = pic.isr
    <2>1. CASE pic' = [pic EXCEPT !.irr = pic.irr \cup {1}]
      BY <1>2, <2>1 DEF PicType
    <2>2. CASE pic' = [pic EXCEPT !.irr = pic.irr \cup {0}]
      BY <1>2, <2>2 DEF PicType
    <2> QED
      BY <2>1, <2>2 DEF KeyPress, Tick
  <1>4. kbd' \in BOOLEAN
    BY Zenon DEF KeyPress, Tick, TrapsInv, TypeOK
  <1>5. TypeOK' /\ SetUp'
    <2>1. TypeOK'
      BY <1>1, <1>3, <1>4 DEF TrapsInv, TypeOK, PicType
    <2>2. SetUp'
      BY <1>1, <1>3, <1>4 DEF TrapsInv, SetUp
    <2> QED
      BY <2>1, <2>2
  <1>6. Handling'
    BY <1>1, <1>3 DEF TrapsInv, Handling
  <1>7. FrameKept'
    BY <1>1 DEF TrapsInv, FrameKept, Aligned, ThreadSp
  <1>8. ContextRestored' /\ OneFrame' /\ ResetExplained'
    BY <1>1 DEF TrapsInv, ContextRestored, OneFrame, ResetExplained
  <1> QED
    BY <1>5, <1>6, <1>7, <1>8 DEF TrapsInv
-----------------------------------------------------------------------------
(* The invariant is inductive.                                             *)
LEMMA StutterKeepsInv ==
    TrapsInv /\ UNCHANGED vars => TrapsInv'
  <1> SUFFICES ASSUME TrapsInv, UNCHANGED vars PROVE TrapsInv'
    OBVIOUS
  <1> USE DEF vars, thread, cpu, tables, devices, TrapsInv
  <1>1. TypeOK' /\ SetUp'
    <2>1. TypeOK'
      BY DEF TrapsInv, TypeOK
    <2>2. SetUp'
      BY DEF TrapsInv, SetUp
    <2> QED
      BY <2>1, <2>2
  <1>2. Handling'
    BY DEF Handling
  <1>3. FrameKept'
    BY DEF FrameKept, Aligned, ThreadSp
  <1>4. ContextRestored' /\ OneFrame' /\ ResetExplained'
    BY DEF ContextRestored, OneFrame, ResetExplained
  <1> QED
    BY <1>1, <1>2, <1>3, <1>4

(* The invariant holds in every state of kernel_main and of the handlers.  *)
THEOREM TrapsInvariant == Spec => []TrapsInv
  <1>1. Init => TrapsInv
    BY InitTrapsInv
  <1>2. TrapsInv /\ [Next]_vars => TrapsInv'
    BY BootKeepsInv, LeafKeepsInv, InterruptKeepsInv, SpuriousKeepsInv, ExceptionKeepsInv,
       IsrHandlerKeepsInv, ReadScancodeKeepsInv, SendEoiKeepsInv, IretqKeepsInv,
       SyscallKeepsInv, DevicesKeepInv, StutterKeepsInv
       DEF Next, Handler, Environment
  <1> QED
    BY <1>1, <1>2, PTL DEF Spec

(* The variables keep the shapes the C and assembly code give them: the    *)
(* stack pointer stays on the stack.                                       *)
THEOREM TrapsTypeCorrect == Spec => []TypeOK
  <1>1. TrapsInv => TypeOK
    BY DEF TrapsInv
  <1> QED
    BY <1>1, TrapsInvariant, PTL

(* isr_common and irq_common pass the vector that was delivered, with and  *)
(* without an error code, and isr_handler prints it.                       *)
THEOREM TrapsHandlerArgument == Spec => []HandlerArgument
  <1>1. TrapsInv => HandlerArgument
    <2> SUFFICES ASSUME TrapsInv PROVE HandlerArgument
      OBVIOUS
    <2>1. Handling
      BY DEF TrapsInv
    <2>2. mode = "halted" => screen[1] = raised /\ screen[2] = print_hex(raised)
      BY <2>1 DEF Handling
    <2>3. mode = "halted" => print_hex(raised)[17] + 16 * print_hex(raised)[16] = raised
      BY <2>1, HexDigits DEF Handling
    <2> QED
      BY <2>1, <2>2, <2>3 DEF Handling, HandlerArgument
  <1> QED
    BY <1>1, TrapsInvariant, PTL

(* Wherever kernel_main is interrupted, in its own code or in a leaf       *)
(* function, it continues with its registers and its stack pointer.        *)
THEOREM TrapsContextRestored == Spec => []ContextRestored
  <1>1. TrapsInv => ContextRestored
    BY DEF TrapsInv
  <1> QED
    BY <1>1, TrapsInvariant, PTL

(* The PIC has an interrupt in service exactly while irq_handler has not   *)
(* sent the end of interrupt, as long as no NMI stops the kernel.          *)
THEOREM TrapsInService == Spec => []InServiceWhileHandled
  <1>1. TrapsInv => InServiceWhileHandled
    BY DEF TrapsInv, TypeOK, Handling, InServiceWhileHandled
  <1> QED
    BY <1>1, TrapsInvariant, PTL

(* Handlers do not nest: one interrupt frame below the deepest function,   *)
(* and one more for an NMI, after which nothing returns.                   *)
THEOREM TrapsOneFrame == Spec => []OneFrame
  <1>1. TrapsInv => OneFrame
    BY DEF TrapsInv
  <1> QED
    BY <1>1, TrapsInvariant, PTL

(* Until paging_init unmaps the GDT, no interrupt resets the machine.      *)
THEOREM TrapsResetExplained == Spec => []ResetExplained
  <1>1. TrapsInv => ResetExplained
    BY DEF TrapsInv
  <1> QED
    BY <1>1, TrapsInvariant, PTL
=============================================================================
