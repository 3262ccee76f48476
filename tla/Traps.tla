------------------------------- MODULE Traps -------------------------------
(***************************************************************************)
(* The ways into and out of the kernel while kernel_main boots: idt_init   *)
(* with the gates and the PIC (idt.c), the stubs (isr_stubs.asm), the C    *)
(* handlers (isr.c), the system call (kernel.c, syscallstub.asm) and the   *)
(* sysret of load_elf.  The interrupted thread is kernel_main, reduced to  *)
(* the order of its steps and the calls of leaf functions, whose locals    *)
(* gcc puts below the stack pointer (the red zone: the Makefile does not   *)
(* turn it off).  The stack is its 8-byte words, numbered from the top;    *)
(* sp is the number of the lowest word in use.                             *)
(***************************************************************************)
EXTENDS Integers, Sequences, FiniteSets

CONSTANTS
    BASE,            \* words kernel_main's own frame takes (aligned)
    DEPTH,           \* words of stack
    MaxKeys,         \* bound: how often a key is pressed
    Exceptions       \* the exceptions that may be raised

Frame == 22          \* words of an interrupt: 5 by the CPU, 2 and 15 by the stub

ASSUME TrapsAssumption ==
    /\ BASE \in Nat /\ BASE % 2 = 0 /\ DEPTH \in Nat
    /\ BASE + 4 + 2 * Frame <= DEPTH
    /\ MaxKeys \in Nat
    /\ Exceptions \subseteq 0 .. 31

VARIABLES
    pc,              \* number of the step of kernel_main that is next
    leaf,            \* a call of a leaf function: "no", "called", "running"
    mode,            \* what the CPU executes: "thread", a step of a handler,
                     \*   or how it ends: "halted", "syscall", "reset"
    stack, sp, regs, \* the stack, its pointer, the registers the stubs save
    intr,            \* the interrupt flag IF
    gates,           \* vectors of the IDT that are present
    idtr,            \* the IDT is loaded
    gdt,             \* the GDT the boot loader left at 0x7Dxx is mapped
    sce,             \* syscall and sysret are enabled, LSTAR is set
    pic,             \* master PIC: first vector, mask, requests, in service
    kbd,             \* the keyboard has a scancode to be read
    screen,          \* what isr_handler has printed: a name, a number in hex
    keys,            \* bound: keys pressed so far
    raised,          \* history: the vector the CPU delivered last
    corrupt          \* history: a function read a local that had changed

cpu == <<mode, stack, sp, regs, intr>>
tables == <<gates, idtr, gdt, sce>>
thread == <<pc, leaf, corrupt>>
devices == <<pic, kbd, screen, keys>>
vars == <<thread, cpu, tables, devices, raised>>

(* Slip: interrupts are enabled before the IDT is loaded.                  *)
OrderStiFirst ==
    <<"gates", "pic_remap", "irq_gates", "sti", "lidt", "sse_init", "alloc_page",
      "paging_init", "memory", "enable_syscall", "load_elf", "user">>

(* kernel_main: idt_init up to "sti", then the rest of the boot.           *)
Order ==
    <<"gates", "pic_remap", "irq_gates", "lidt", "sti", "sse_init", "alloc_page",
      "paging_init", "memory", "enable_syscall", "load_elf", "user">>
Halt == Len(Order) + 1                \* hlt for good, interrupts as they are
At(s) == pc <= Len(Order) /\ Order[pc] = s

Junk == <<"junk", 0>>
Local == <<"local", 0>>

(* The registers in the order isr_common and irq_common push them.         *)
Pushes ==
    <<"rax", "rbx", "rcx", "rdx", "rsi", "rdi", "rbp", "r8", "r9", "r10",
      "r11", "r12", "r13", "r14", "r15">>
(* Slip: two registers are popped in the order they were pushed.           *)
PopsSwapped ==
    <<"r15", "r14", "r13", "r12", "r11", "r10", "r9", "r8", "rbp", "rsi",
      "rdi", "rdx", "rcx", "rbx", "rax">>
Pops ==
    <<"r15", "r14", "r13", "r12", "r11", "r10", "r9", "r8", "rbp", "rdi",
      "rsi", "rdx", "rcx", "rbx", "rax">>
Regs == {Pushes[k] : k \in 1 .. 15}
ThreadRegs == [r \in Regs |-> <<r, 0>>]

(* What a C function may change.                                           *)
CallerSaved == {"rax", "rcx", "rdx", "rsi", "rdi", "r8", "r9", "r10", "r11"}

(* The boot loader hands over with interrupts off and the PIC as the BIOS  *)
(* left it; a key may have been pressed already.                           *)
Init ==
    /\ pc = 1 /\ leaf = "no" /\ mode = "thread"
    /\ stack = [k \in 1 .. DEPTH |-> Junk]
    /\ sp = BASE
    /\ regs = ThreadRegs
    /\ intr = FALSE
    /\ gates = {} /\ idtr = FALSE /\ gdt = TRUE /\ sce = FALSE
    /\ kbd \in BOOLEAN
    /\ pic = [base |-> 8, mask |-> {}, irr |-> IF kbd THEN {1} ELSE {}, isr |-> {}]
    /\ screen = <<>>
    /\ keys = 0 /\ raised = 0 /\ corrupt = FALSE
-----------------------------------------------------------------------------
(* A step of kernel_main between calls of leaf functions.                  *)
Step(s) ==
    /\ mode = "thread"
    /\ leaf = "no"
    /\ At(s)
    /\ pc' = pc + 1
    /\ UNCHANGED <<leaf, corrupt, mode, stack, sp, regs, kbd, screen, keys, raised>>

SetGates ==
    \/ /\ Step("gates")
       /\ gates' = gates \cup 0 .. 31
       /\ UNCHANGED <<intr, idtr, gdt, sce, pic>>
    \/ /\ Step("irq_gates")
       /\ gates' = gates \cup {32, 33}
       /\ UNCHANGED <<intr, idtr, gdt, sce, pic>>

(* Slip: 0xFE, the mask of the timer, for 0xFD.                            *)
TimerOnly == 1 .. 7
KeyboardOnly == 0 .. 7 \ {1}

(* ICW1 makes the PIC forget its requests; a line that is high already     *)
(* does not request again until it has been low.                           *)
pic_remap ==
    /\ Step("pic_remap")
    /\ pic' = [base |-> 32, mask |-> KeyboardOnly, irr |-> {}, isr |-> {}]
    /\ UNCHANGED <<intr, tables>>

Lidt == Step("lidt") /\ idtr' = TRUE /\ UNCHANGED <<intr, gates, gdt, sce, pic>>
Sti == Step("sti") /\ intr' = TRUE /\ UNCHANGED <<tables, pic>>

(* Steps that change nothing here; paging_init loads tables that map the   *)
(* kernel's half only.                                                     *)
BootStep ==
    /\ Step("sse_init") \/ Step("alloc_page") \/ Step("memory")
    /\ UNCHANGED <<intr, tables, pic>>
paging_init ==
    Step("paging_init") /\ gdt' = FALSE /\ UNCHANGED <<intr, gates, idtr, sce, pic>>
enable_syscall ==
    Step("enable_syscall") /\ sce' = TRUE /\ UNCHANGED <<intr, gates, idtr, gdt, pic>>

(* sysret takes the flags from r11, which load_elf sets to 0.              *)
Sysret == Step("load_elf") /\ intr' = FALSE /\ UNCHANGED <<tables, pic>>

(* panic in sse_init or in map_page, and load_elf returning an error, end  *)
(* in a loop of hlt with interrupts still enabled.                         *)
HaltLoop ==
    /\ mode = "thread" /\ leaf = "no"
    /\ At("sse_init") \/ At("load_elf")
    /\ pc' = Halt
    /\ UNCHANGED <<leaf, corrupt, cpu, tables, devices, raised>>

(* A leaf function is called, saves rbp and has its locals below rsp; then *)
(* it uses them and returns.                                               *)
Call ==
    /\ mode = "thread" /\ leaf = "no"
    /\ \E s \in {"alloc_page", "paging_init", "memory", "enable_syscall", "load_elf"} : At(s)
    /\ leaf' = "called"
    /\ sp' = sp + 1
    /\ stack' = [stack EXCEPT ![sp + 1] = <<"return", 0>>]
    /\ UNCHANGED <<pc, corrupt, mode, regs, intr, tables, devices, raised>>

Prologue ==
    /\ mode = "thread" /\ leaf = "called"
    /\ leaf' = "running"
    /\ sp' = sp + 1
    /\ stack' = [stack EXCEPT ![sp + 1] = regs["rbp"], ![sp + 2] = Local]
    /\ UNCHANGED <<pc, corrupt, mode, regs, intr, tables, devices, raised>>

Ret ==
    /\ mode = "thread" /\ leaf = "running"
    /\ leaf' = "no"
    /\ sp' = sp - 2
    /\ corrupt' = (corrupt \/ stack[sp + 1] # Local)
    /\ UNCHANGED <<pc, mode, stack, regs, intr, tables, devices, raised>>
-----------------------------------------------------------------------------
(* Vectors for which the CPU pushes an error code, and the stubs that      *)
(* leave out the dummy (ISR_ERR).                                          *)
CpuPushesError == {8, 10, 11, 12, 13, 14, 17, 21}
ISR_ERR == {8, 10, 11, 12, 13, 14, 17, 21}

(* Slip: the gates are trap gates (0x8F), which leave interrupts enabled.  *)
GateKeepsIf == intr
GateIf == FALSE                       \* 0x8E: interrupt gate

(* Slip: 112 for 120.                                                      *)
Arg112 == 14
Arg == 15                             \* [rsp + 120]: words above rsp

(* The CPU aligns the stack, pushes where it was, and the stub the rest.   *)
Words(v) ==
    << <<"ss", 0>>, <<"rsp", sp>>, <<"rflags", IF intr THEN 1 ELSE 0>>,
       <<"cs", 0>>, <<mode, 0>> >>
    \o (IF v \in CpuPushesError THEN << <<"error", 0>> >> ELSE <<>>)
    \o (IF v \in ISR_ERR THEN <<>> ELSE << <<"error", 0>> >>)
    \o << <<"number", v>> >>
    \o [k \in 1 .. 15 |-> regs[Pushes[k]]]

Enter(v) ==
    LET aligned == sp + (sp % 2)
        words == Words(v)
    IN  /\ sp' = aligned + Len(words)
        /\ stack' = [k \in 1 .. DEPTH |->
                        IF k \in aligned + 1 .. sp' THEN words[k - aligned] ELSE stack[k]]
        /\ regs' = [regs EXCEPT !["rdi"] = stack'[sp' - Arg]]
        /\ intr' = GateIf
        /\ mode' = IF v \in {32, 33} THEN "read" ELSE "isr"

(* Delivery reads the gate and, for its code segment, the GDT.  Without    *)
(* one of the two tables every exception on the way fails as well, and the *)
(* machine resets; a vector without a gate is a general protection fault.  *)
Deliver(v) ==
    LET vector == IF v \in gates THEN v ELSE 13
    IN  /\ raised' = vector
        /\ IF idtr /\ gdt /\ vector \in gates
           THEN Enter(vector)
           ELSE mode' = "reset" /\ UNCHANGED <<stack, sp, regs, intr>>
        /\ UNCHANGED <<thread, tables>>

(* What the PIC may signal: a request not masked, nothing in service that  *)
(* is as urgent.                                                           *)
Pending == {q \in pic.irr \ pic.mask : \A s \in pic.isr : q < s}
Running == mode \notin {"halted", "syscall", "reset"}

Interrupt ==
    /\ Running /\ intr
    /\ \E q \in Pending :
          /\ \A p \in Pending : q <= p
          /\ pic' = [pic EXCEPT !.irr = @ \ {q}, !.isr = @ \cup {q}]
          /\ Deliver(pic.base + q)
    /\ UNCHANGED <<kbd, screen, keys>>

(* A request that is gone when the CPU asks: vector 7 of the PIC.          *)
Spurious ==
    /\ Running /\ intr
    /\ Deliver(pic.base + 7)
    /\ UNCHANGED devices

(* The thread raises an exception, or an NMI (vector 2), which IF does not *)
(* hold back, interrupts it or irq_handler; nothing comes before lidt.  In *)
(* user mode nothing can be delivered, for no TSS is loaded and gdt is     *)
(* FALSE.                                                                  *)
Exception ==
    /\ idtr
    /\ \E v \in Exceptions :
          /\ mode = "thread" \/ (v = 2 /\ mode \in {"read", "eoi", "return"})
          /\ Deliver(v)
    /\ UNCHANGED devices

(* The digits print_hex writes into hex[2] to hex[17], for n < 2^31.       *)
print_hex(n) == [k \in 2 .. 17 |-> IF k < 10 THEN 0 ELSE (n \div 16^(17 - k)) % 16]

(* isr_handler prints what happened and halts, with interrupts off.        *)
isr_handler ==
    LET int_no == regs["rdi"][2]
    IN  /\ mode = "isr"
        /\ screen' = << IF int_no < 32 THEN int_no ELSE 32, print_hex(int_no) >>
        /\ mode' = "halted"
        /\ UNCHANGED <<thread, stack, sp, regs, intr, tables, pic, kbd, keys, raised>>

(* irq_handler: the scancode, the end of interrupt, and the way back.      *)
Clobbered == [r \in Regs |-> IF r \in CallerSaved THEN Junk ELSE regs[r]]

ReadScancode ==
    /\ mode = "read"
    /\ kbd' = (kbd /\ regs["rdi"] # <<"number", 33>>)
    /\ mode' = "eoi"
    /\ UNCHANGED <<thread, stack, sp, regs, intr, tables, pic, screen, keys, raised>>

(* Slip: the end of interrupt is sent for the second PIC only.             *)
EoiSecondOnly(isr) == isr
(* A non-specific end of interrupt: the most urgent one in service.        *)
Eoi(isr) == {q \in isr : \E s \in isr : s < q}

SendEoi ==
    /\ mode = "eoi"
    /\ pic' = [pic EXCEPT !.isr = Eoi(@)]
    /\ regs' = Clobbered
    /\ mode' = "return"
    /\ UNCHANGED <<thread, stack, sp, intr, tables, kbd, screen, keys, raised>>

(* Slip: add rsp, 8.                                                       *)
Add8 == 1
Add16 == 2                            \* add rsp, 16: error code and number

Iretq ==
    LET top == sp - 15 - Add16
    IN  /\ mode = "return"
        /\ regs' = [r \in Regs |-> stack[sp + 1 - CHOOSE k \in 1 .. 15 : Pops[k] = r]]
        /\ mode' = stack[top][1]
        /\ intr' = (stack[top - 2] = <<"rflags", 1>>)
        /\ sp' = stack[top - 3][2]
        /\ UNCHANGED <<thread, stack, tables, devices, raised>>
-----------------------------------------------------------------------------
(* The program executes syscall.  The stub calls syscall_handler on the    *)
(* program's own stack; it prints and halts.  If that stack is not mapped, *)
(* or sysret was assembled in its 32-bit form and the program runs in a    *)
(* mode where syscall is invalid, the machine resets.                      *)
Syscall ==
    /\ mode = "thread" /\ At("user")
    /\ mode' \in IF sce THEN {"syscall", "reset"} ELSE {"reset"}
    /\ UNCHANGED <<thread, stack, sp, regs, intr, tables, devices, raised>>

(* The keyboard raises its line when it has a scancode, and again only     *)
(* after that one was read.  The timer ticks.                              *)
KeyPress ==
    /\ keys < MaxKeys
    /\ ~kbd
    /\ kbd' = TRUE
    /\ keys' = keys + 1
    /\ pic' = [pic EXCEPT !.irr = @ \cup {1}]
    /\ UNCHANGED <<thread, cpu, tables, screen, raised>>
Tick ==
    /\ 0 \notin pic.irr
    /\ pic' = [pic EXCEPT !.irr = @ \cup {0}]
    /\ UNCHANGED <<thread, cpu, tables, kbd, screen, keys, raised>>

Boot ==
    \/ SetGates \/ pic_remap \/ Lidt \/ Sti \/ BootStep \/ paging_init
    \/ enable_syscall \/ Sysret \/ HaltLoop
Leaf == Call \/ Prologue \/ Ret
Handler == isr_handler \/ ReadScancode \/ SendEoi \/ Iretq
Environment == Exception \/ Spurious \/ Syscall \/ KeyPress \/ Tick
Idle == ~Running \/ pc = Halt \/ At("user")

Next ==
    \/ Boot \/ Leaf \/ Interrupt \/ Handler \/ Environment
    \/ Idle /\ UNCHANGED vars

(* The kernel never waits, and the CPU takes an interrupt that stays       *)
(* pending while IF is set.                                                *)
Spec ==
    /\ Init /\ [][Next]_vars
    /\ WF_vars(Boot) /\ WF_vars(Leaf) /\ WF_vars(Interrupt) /\ WF_vars(Handler)
-----------------------------------------------------------------------------
(* The variables have the shapes the C and assembly code give them.        *)
TypeOK ==
    /\ pc \in 1 .. Halt
    /\ leaf \in {"no", "called", "running"}
    /\ mode \in {"thread", "read", "eoi", "return", "isr", "halted",
                "syscall", "reset"}
    /\ DOMAIN stack = 1 .. DEPTH
    /\ sp \in BASE .. DEPTH
    /\ DOMAIN regs = Regs
    /\ intr \in BOOLEAN /\ kbd \in BOOLEAN
    /\ gates \subseteq 0 .. 255
    /\ pic \in [base : {8, 32}, mask : SUBSET (0 .. 7), irr : SUBSET (0 .. 7),
                isr : SUBSET (0 .. 7)]

(* The handlers are told the vector that was delivered, whether or not the *)
(* CPU pushed an error code, and isr_handler shows that one.               *)
HandlerArgument ==
    /\ mode \in {"read", "eoi"} => regs["rdi"] = <<"number", raised>>
    /\ mode = "halted" =>
          /\ screen[1] = raised
          /\ screen[2][17] + 16 * screen[2][16] = raised

(* Whenever kernel_main runs, wherever it was interrupted before, its      *)
(* registers and stack pointer are as it left them.                        *)
ContextRestored ==
    mode = "thread" =>
        /\ regs = ThreadRegs
        /\ sp = BASE + (IF leaf = "no" THEN 0 ELSE IF leaf = "called" THEN 1 ELSE 2)

(* The PIC has an interrupt in service only while its handler has not sent *)
(* the end of interrupt: no later interrupt is held back for ever, and     *)
(* none is ended that was not delivered, unless an NMI stops the kernel.   *)
InServiceWhileHandled ==
    mode # "reset" /\ raised # 2 => (pic.isr # {} <=> mode \in {"read", "eoi"})

(* However fast the keyboard is, one handler finishes before the next one  *)
(* is entered, so the stack never holds more than one interrupt, or one    *)
(* and an NMI.                                                             *)
OneFrame == sp <= BASE + 2 + Frame + (IF raised = 2 THEN Frame ELSE 0)

(* The machine resets only after paging_init has unmapped the boot         *)
(* loader's GDT: any interrupt, spurious ones too, before that finds its   *)
(* tables, at every point of the boot.                                     *)
ResetExplained == mode = "reset" => ~gdt

(* A key that requested an interrupt after pic_remap gets its scancode     *)
(* read and can be followed by another one, unless the kernel stops or     *)
(* enters the program, which runs with interrupts off.  A key pressed      *)
(* before pic_remap is forgotten, and with it all later ones.              *)
KeyServed ==
    1 \in pic.irr /\ pic.base = 32 ~> ~kbd \/ ~Running \/ At("user")

(* A function of the kernel finds its local variables as it left them,     *)
(* whether or not it was interrupted.                                      *)
LocalsKept == ~corrupt
=============================================================================
