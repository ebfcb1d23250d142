------------------------------- MODULE Tasks -------------------------------
(***************************************************************************)
(* Preemptive round-robin tasks: tasks::init and tasks::create             *)
(* (task/taskmgr.cpp), switch_context (cpu/context_switch.asm), the        *)
(* interrupt stubs (cpu/interrupts.asm), irq_handler and unmask_irq        *)
(* (cpu/interrupts.cpp), in the order kmain runs them.                     *)
(*                                                                         *)
(* One CPU. A step of the CPU is a run of instructions that no interrupt   *)
(* can split or whose split nobody can observe. Tasks are numbered in the  *)
(* order of their task_context objects; task 1 is kmain itself. The        *)
(* registers are two values: callee stands for ebx, esi, edi and ebp,      *)
(* scratch for eax, ecx and edx, which a C++ function may overwrite.       *)
(***************************************************************************)
EXTENDS Naturals, Sequences

CONSTANTS MaxTasks,   \* bound: contexts ever created
          MaxDepth    \* bound: interrupt frames on one stack

ASSUME TasksAssumption == MaxTasks \in Nat \ {0} /\ MaxDepth \in Nat \ {0}

VARIABLES
    n,              \* task_context objects in use: the newest one's number
    next,           \* task_context.next; 0 is whatever new left there
    tasks_start, tasks_end, current_task,
    esp,            \* task_context.esp: the stack of a task that is not running
    pc,             \* where the CPU is
    eflags_if,      \* interrupts enabled
    regs,           \* the CPU's registers
    stack,          \* the running stack: return addresses of interrupt frames
    val,            \* what each task has put into its registers
    clobbered,      \* tasks whose scratch registers an IRQ overwrote
    masked,         \* IRQ0 masked in the PIC
    irr,            \* requests latched by the PIC
    master, slave   \* in-service bits of the two PICs

ring  == <<n, next, tasks_start, tasks_end>>
cpu   == <<current_task, esp, pc, eflags_if, regs, stack>>
pic   == <<masked, irr, master, slave>>
ghost == <<val, clobbered>>
vars  == <<ring, cpu, pic, ghost>>

Ids  == 1 .. MaxTasks
\* A register value: whose it is, and which of two. Task 0's are the zeros of
\* a fresh frame and what a C++ function leaves in a scratch register.
Values == (0 .. MaxTasks) \X {0, 1}
Zeros  == <<0, 0>>
Junk   == <<0, 1>>
Regs   == [callee : Values, scratch : Values]
Pcs  == {"boot", "new", "wild", "inited", "mask", "code", "iret", "irq_32", "irq_handler",
         "create_alloc", "create_append", "create_close", "create_stack", "create_sti"}
\* The places at which eflags_if is set and the CPU takes interrupts.
Interruptible == {"boot", "new", "inited", "mask", "code", "iret"}

\* A saved context: the pushed registers, the address ret pops, and below it
\* the interrupt frames.
Contexts == [regs : Regs, ret : {"code", "iret"}, stack : Seq(Interruptible)]
Unset    == [regs |-> [callee |-> Junk, scratch |-> Junk], ret |-> "none",
             stack |-> << >>]

\* The task that is executing; before tasks::init it is kmain.
Me == IF current_task = 0 THEN 1 ELSE current_task

Top(s) == s[Len(s)]
Pop(s) == SubSeq(s, 1, Len(s) - 1)

Init ==
    /\ n = 0 /\ next = [t \in Ids |-> 0]
    /\ tasks_start = 0 /\ tasks_end = 0 /\ current_task = 0
    /\ esp = [t \in Ids |-> Unset]
    /\ pc = "boot" /\ eflags_if = TRUE /\ stack = << >>
    /\ regs = [callee |-> <<1, 0>>, scratch |-> <<1, 0>>]
    /\ val = [t \in Ids |-> IF t = 1 THEN <<1, 0>> ELSE Zeros] /\ clobbered = {}
    /\ masked = TRUE /\ irr = {} /\ master = {} /\ slave = FALSE

----------------------------------------------------------------------------
(* kmain and the tasks.                                                    *)

\* tasks::init, while IRQ0 is still masked. A device IRQ can come between any
\* two of its steps. new returns the context's address in a scratch register.
TasksNew ==
    /\ pc = "boot"
    /\ regs' = [regs EXCEPT !.scratch = val[Me]] /\ clobbered' = clobbered \ {Me}
    /\ pc' = "new"
    /\ UNCHANGED <<ring, current_task, esp, eflags_if, stack, pic, val>>

\* The address is stored. One that an IRQ has overwritten since is no
\* task_context: what the kernel does from then on is not modelled.
TasksInit ==
    /\ pc = "new"
    /\ IF regs.scratch = val[Me]
       THEN /\ n' = 1 /\ tasks_start' = 1 /\ tasks_end' = 1
            /\ next' = [next EXCEPT ![1] = 1]
            /\ current_task' = 1
            /\ pc' = "inited"
       ELSE pc' = "wild" /\ UNCHANGED <<ring, current_task>>
    /\ UNCHANGED <<esp, eflags_if, regs, stack, pic, ghost>>

\* interrupts::unmask_irq(0): the mask is read into a scratch register ...
ReadMask ==
    /\ pc = "inited"
    /\ regs' = [regs EXCEPT !.scratch = val[Me]] /\ clobbered' = clobbered \ {Me}
    /\ pc' = "mask"
    /\ UNCHANGED <<ring, current_task, esp, eflags_if, stack, pic, val>>

\* ... and written without bit 0, or with whatever an IRQ has left there.
UnmaskIrq0 ==
    /\ pc = "mask"
    /\ masked' \in IF regs.scratch = val[Me] THEN {FALSE} ELSE BOOLEAN
    /\ pc' = "code"
    /\ UNCHANGED <<ring, current_task, esp, eflags_if, regs, stack,
                   irr, master, slave, ghost>>

\* The running task computes: fresh values in all its registers.
Work ==
    /\ pc = "code"
    /\ \E v \in {<<Me, 0>>, <<Me, 1>>} \ {val[Me]} :
        /\ val' = [val EXCEPT ![Me] = v]
        /\ regs' = [callee |-> v, scratch |-> v]
    /\ clobbered' = clobbered \ {Me}
    /\ UNCHANGED <<ring, current_task, esp, pc, eflags_if, stack, pic>>

\* tasks::create, in the steps an interrupt could separate.
\* Mutant: no cli.
CreateNoCli ==
    /\ pc = "code" /\ n < MaxTasks
    /\ pc' = "create_alloc"
    /\ UNCHANGED <<ring, current_task, esp, eflags_if, regs, stack, pic, ghost>>

CreateCli ==
    /\ pc = "code" /\ n < MaxTasks
    /\ eflags_if' = FALSE
    /\ pc' = "create_alloc"
    /\ UNCHANGED <<ring, current_task, esp, regs, stack, pic, ghost>>

\* kmalloc of the stack and new task_context: its fields are not set.
CreateAlloc ==
    /\ pc = "create_alloc"
    /\ n' = n + 1
    /\ pc' = "create_append"
    /\ UNCHANGED <<next, tasks_start, tasks_end, current_task, esp, eflags_if,
                   regs, stack, pic, ghost>>

CreateAppend ==
    /\ pc = "create_append"
    /\ next' = [next EXCEPT ![tasks_end] = n]
    /\ tasks_end' = n
    /\ pc' = "create_close"
    /\ UNCHANGED <<n, tasks_start, current_task, esp, eflags_if, regs, stack,
                   pic, ghost>>

\* Mutant: the new task points at itself.
CreateCloseOnSelf ==
    /\ pc = "create_close"
    /\ next' = [next EXCEPT ![n] = tasks_end]
    /\ pc' = "create_stack"
    /\ UNCHANGED <<n, tasks_start, tasks_end, current_task, esp, eflags_if,
                   regs, stack, pic, ghost>>

CreateClose ==
    /\ pc = "create_close"
    /\ next' = [next EXCEPT ![n] = tasks_start]
    /\ pc' = "create_stack"
    /\ UNCHANGED <<n, tasks_start, tasks_end, current_task, esp, eflags_if,
                   regs, stack, pic, ghost>>

\* Mutant: the entry point is not pushed.
FirstContextNoEntry == [regs |-> [callee |-> Zeros, scratch |-> Zeros],
                        ret |-> "none", stack |-> << >>]

\* Seven zeros for the pops of switch_context, then the entry point for its
\* ret. A fresh task owes nobody an iret: its stack holds no interrupt frame.
FirstContext == [regs |-> [callee |-> Zeros, scratch |-> Zeros], ret |-> "code",
                 stack |-> << >>]

CreateStack ==
    /\ pc = "create_stack"
    /\ esp' = [esp EXCEPT ![n] = FirstContext]
    /\ pc' = "create_sti"
    /\ UNCHANGED <<ring, current_task, eflags_if, regs, stack, pic, ghost>>

CreateSti ==
    /\ pc = "create_sti"
    /\ eflags_if' = TRUE
    /\ pc' = "code"
    /\ UNCHANGED <<ring, current_task, esp, regs, stack, pic, ghost>>
----------------------------------------------------------------------------
(* The interrupt controllers: two 8259A in fully nested mode, IRQ0 from    *)
(* the PIT on the master, the network card behind the cascade input.       *)

\* A second request of a line that is still latched is lost.
Raise(line) ==
    /\ irr' = irr \cup {line}
    /\ UNCHANGED <<ring, cpu, masked, master, slave, ghost>>

\* A non-specific EOI ends the in-service interrupt of highest priority.
Eoi(m) == IF "timer" \in m THEN m \ {"timer"} ELSE {}

\* The CPU takes the interrupt: interrupt gates (type 0x0e) clear IF.
Enter(line, handler) ==
    /\ eflags_if /\ pc \in Interruptible /\ Len(stack) < MaxDepth
    /\ line \in irr /\ irr' = irr \ {line}
    /\ stack' = Append(stack, pc)
    /\ eflags_if' = FALSE
    /\ pc' = handler
    /\ UNCHANGED <<ring, current_task, esp, regs, masked, ghost>>

TakeTimer ==
    /\ Enter("timer", "irq_32")
    /\ ~masked /\ "timer" \notin master
    /\ master' = master \cup {"timer"}
    /\ UNCHANGED slave

TakeNic ==
    /\ Enter("nic", "irq_handler")
    /\ master = {} /\ ~slave
    /\ "timer" \notin irr \/ masked
    /\ master' = {"cascade"} /\ slave' = TRUE

\* Mutant: the callee-saved registers are not popped.
SwitchKeepsCallee ==
    LET old == [regs |-> regs, ret |-> "iret", stack |-> stack]
        edi == next[current_task]
        new == esp'[edi]
    IN  /\ pc = "irq_32"
        /\ esp' = [esp EXCEPT ![current_task] = old]
        /\ current_task' = edi
        /\ regs' = [new.regs EXCEPT !.callee = regs.callee]
        /\ stack' = new.stack /\ pc' = new.ret
        /\ master' = Eoi(master)
        /\ eflags_if' = TRUE
        /\ UNCHANGED <<ring, masked, irr, slave, ghost>>

\* Mutant: esp is not loaded.
SwitchKeepsStack ==
    LET old == [regs |-> regs, ret |-> "iret", stack |-> stack]
        edi == next[current_task]
        new == esp'[edi]
    IN  /\ pc = "irq_32"
        /\ esp' = [esp EXCEPT ![current_task] = old]
        /\ current_task' = edi
        /\ regs' = new.regs /\ stack' = stack /\ pc' = new.ret
        /\ master' = Eoi(master)
        /\ eflags_if' = TRUE
        /\ UNCHANGED <<ring, masked, irr, slave, ghost>>

\* irq_32: call switch_context. The old context is saved with irq_32's iret as
\* its return address, the next one is loaded, EOI, sti, ret.
SwitchContext ==
    LET old == [regs |-> regs, ret |-> "iret", stack |-> stack]
        edi == next[current_task]
        new == esp'[edi]
    IN  /\ pc = "irq_32"
        /\ esp' = [esp EXCEPT ![current_task] = old]
        /\ current_task' = edi
        /\ regs' = new.regs /\ stack' = new.stack /\ pc' = new.ret
        /\ master' = Eoi(master)
        /\ eflags_if' = TRUE
        /\ UNCHANGED <<ring, masked, irr, slave, ghost>>

\* The iret of irq_32; an interrupt may come between sti, ret and this.
Iret ==
    /\ pc = "iret"
    /\ pc' = Top(stack) /\ stack' = Pop(stack)
    /\ eflags_if' = TRUE
    /\ UNCHANGED <<ring, current_task, esp, regs, pic, ghost>>

\* Mutant: EOI goes to the master only.
IrqHandlerMasterEoi ==
    /\ pc = "irq_handler"
    /\ \/ UNCHANGED <<regs, clobbered>>
       \/ regs' = [regs EXCEPT !.scratch = Junk] /\ clobbered' = clobbered \cup {Me}
    /\ master' = Eoi(master)
    /\ pc' = Top(stack) /\ stack' = Pop(stack)
    /\ eflags_if' = TRUE
    /\ UNCHANGED <<ring, current_task, esp, masked, irr, slave, val>>

\* The stub of a device IRQ: it saves no register around irq_handler, which
\* calls the driver and sends EOI to both controllers; then iret.
IrqHandler ==
    /\ pc = "irq_handler"
    /\ \/ UNCHANGED <<regs, clobbered>>
       \/ regs' = [regs EXCEPT !.scratch = Junk] /\ clobbered' = clobbered \cup {Me}
    /\ master' = Eoi(master) /\ slave' = FALSE
    /\ pc' = Top(stack) /\ stack' = Pop(stack)
    /\ eflags_if' = TRUE
    /\ UNCHANGED <<ring, current_task, esp, masked, irr, val>>

----------------------------------------------------------------------------
Create == \/ CreateCli \/ CreateAlloc \/ CreateAppend
          \/ CreateClose \/ CreateStack \/ CreateSti

\* The CPU executes its next instructions.
Execute == \/ TasksNew \/ TasksInit \/ ReadMask \/ UnmaskIrq0 \/ Work \/ Create
           \/ SwitchContext \/ Iret \/ IrqHandler

Next == Execute \/ TakeTimer \/ TakeNic \/ \E line \in {"timer", "nic"} : Raise(line)

Spec == Init /\ [][Next]_vars

\* The CPU never stops, the PIT keeps ticking and the CPU takes a pending
\* tick when it is allowed to. Nothing is assumed of the network card.
Fairness == WF_vars(Execute) /\ WF_vars(Raise("timer")) /\ WF_vars(TakeTimer)

FairSpec == Spec /\ Fairness

----------------------------------------------------------------------------
\* The ranges of the variables: a saved context is complete or was never set.
TypeOK ==
    /\ n \in 0 .. MaxTasks /\ next \in [Ids -> 0 .. MaxTasks]
    /\ tasks_start \in 0 .. 1 /\ tasks_end \in 0 .. MaxTasks
    /\ current_task \in 0 .. MaxTasks
    /\ esp \in [Ids -> Contexts \cup {Unset}]
    /\ pc \in Pcs /\ eflags_if \in BOOLEAN
    /\ regs \in Regs /\ stack \in Seq(Interruptible)
    /\ val \in [Ids -> Values] /\ clobbered \subseteq Ids
    /\ masked \in BOOLEAN /\ irr \subseteq {"timer", "nic"}
    /\ master \subseteq {"timer", "cascade"} /\ slave \in BOOLEAN

\* A tick can be taken, or is being served.
TickPossible == ~masked /\ (eflags_if \/ pc = "irq_32")

\* Whenever a tick may arrive the ring is complete: it runs through every
\* task_context in order and back to tasks_start, and every task but the
\* running one has a context that switch_context can return to. The cli and
\* sti of tasks::create and kmain's order (init before unmask_irq) see to it.
RingIntact ==
    TickPossible =>
        /\ tasks_start = 1 /\ tasks_end = n /\ current_task \in 1 .. n
        /\ \A t \in 1 .. n : next[t] = IF t = n THEN 1 ELSE t + 1
        /\ \A t \in 1 .. n : t # current_task => esp[t] \in Contexts

\* A task finds in its registers what it left there, however often and
\* wherever it was preempted, the iret of irq_32 included. The scratch half
\* is promised only while no device IRQ has hit the task: the IRQ stubs
\* (interrupts.asm:7-15) do not save it.
OwnRegisters ==
    pc = "code" =>
        /\ regs.callee = val[Me]
        /\ Me \notin clobbered => regs.scratch = val[Me]

\* No interrupt is left in service when the CPU runs with interrupts enabled,
\* so each EOI (context_switch.asm:28, interrupts.cpp:131) ended the right one
\* and the controllers block nothing.
NothingLeftInService == eflags_if => master = {} /\ ~slave

\* The stack a task runs its own code on holds no interrupt frame: every
\* frame pushed was popped, nested ticks included.
BalancedStack == pc = "code" => stack = << >>

\* A device IRQ has overwritten a scratch register of tasks::init or of
\* unmask_irq(0): the list is lost, or IRQ0 has stayed masked.
Derailed == pc = "wild" \/ (pc = "code" /\ masked)

\* Round robin: every created task becomes current again and again, unless a
\* device IRQ has hit kmain in one of the two places where nothing saves what
\* it destroys.
EveryTaskRuns == \A t \in Ids : []((t <= n) => <>(current_task = t \/ Derailed))

============================================================================
