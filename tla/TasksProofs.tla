---------------------------- MODULE TasksProofs ----------------------------
(***************************************************************************)
(* The safety properties of Tasks for any number of tasks and any depth of *)
(* nested interrupts.                                                      *)
(***************************************************************************)
EXTENDS Tasks, TLAPS

----------------------------------------------------------------------------
(* The inductive invariant behind the properties above.                    *)

Creating == {"create_alloc", "create_append", "create_close", "create_stack", "create_sti"}
\* The steps of create in which task n is not ready to run.
Unready  == {"create_append", "create_close", "create_stack"}

\* Where the running task's own code is: at p, or below the frames of s.
Base(p, s) == IF Len(s) = 0 THEN p ELSE s[1]
Phase == Base(pc, stack)
Phases == {"boot", "new", "inited", "mask", "code"}

\* Where the CPU is says which interrupt is in service.
ControlInv ==
    /\ eflags_if <=> pc \in Interruptible \cup {"wild"}
    /\ pc = "irq_32" => master = {"timer"}
    /\ pc = "irq_handler" => master = {"cascade"}
    /\ pc \notin {"irq_32", "irq_handler"} => master = {}
    /\ slave <=> pc = "irq_handler"
    /\ n = 0 <=> Phase \in {"boot", "new", "wild"}
    /\ Phase \in {"inited", "mask"} => masked
    /\ pc \in Creating \cup {"inited", "mask", "code", "iret", "irq_32"} => n > 0
    /\ pc \in {"iret", "irq_32"} => Phase = "code"
    /\ pc = "create_alloc" => n < MaxTasks

\* The oldest frame of a stack returns to code b, the others to irq_32's iret.
Frames(s, b) == \A i \in 1 .. Len(s) : s[i] = IF i = 1 THEN b ELSE "iret"

FrameInv ==
    /\ Frames(stack, Phase)
    /\ Len(stack) > 0 <=> pc \in {"iret", "irq_32", "irq_handler"}
    /\ Len(stack) > 0 => Phase \in Phases
    /\ Len(stack) > 1 => Phase = "code"

\* A task that waits for its turn: its stack and its registers.
Resumable(c, v, dirty) ==
    /\ c \in Contexts
    /\ Frames(c.stack, "code")
    /\ Len(c.stack) > 0 <=> c.ret = "iret"
    /\ c.regs.callee = v
    /\ ~dirty => c.regs.scratch = v

\* The tasks the ring links; create adds the new one in two steps.
Linked == IF pc = "create_append" THEN n - 1 ELSE n

RingInv ==
    /\ n = 0 => current_task = 0 /\ masked
    /\ n > 0 =>
        /\ tasks_start = 1 /\ tasks_end = Linked
        /\ current_task > 0 /\ current_task <= Linked
        /\ \A t \in Ids : t < Linked => next[t] = t + 1
        /\ pc # "create_close" => next[Linked] = 1
    /\ pc \in Unready => n # current_task

ReadyInv ==
    \A t \in Ids :
        t <= n => \/ t = current_task
                  \/ t = n /\ pc \in Unready
                  \/ Resumable(esp[t], val[t], t \in clobbered)

RegInv ==
    /\ regs.callee = val[Me]
    /\ Me \notin clobbered => regs.scratch = val[Me]
    /\ \A t \in Ids : t > 1 /\ (t > n \/ (t = n /\ pc \in Unready)) => val[t] = Zeros

TasksInv == TypeOK /\ ControlInv /\ FrameInv /\ RingInv /\ ReadyInv /\ RegInv

----------------------------------------------------------------------------
(* Pushing and popping one interrupt frame.                                *)

\* An interrupt pushes the address it came from.
LEMMA PushFrame ==
    ASSUME NEW s \in Seq(Interruptible), NEW b, Frames(s, b),
           NEW p \in Interruptible, p = IF Len(s) = 0 THEN b ELSE "iret"
    PROVE  /\ Append(s, p) \in Seq(Interruptible)
           /\ Len(Append(s, p)) > 0 /\ Frames(Append(s, p), b)
           /\ \A q : Base(q, Append(s, p)) = Base(p, s)
BY DEF Frames, Base

\* iret returns to the address pushed last.
LEMMA PopFrame ==
    ASSUME NEW s \in Seq(Interruptible), NEW b, Frames(s, b), Len(s) > 0
    PROVE  /\ Pop(s) \in Seq(Interruptible) /\ Frames(Pop(s), b)
           /\ Top(s) \in Interruptible
           /\ Top(s) = IF Len(Pop(s)) = 0 THEN b ELSE "iret"
           /\ \A q : Base(Top(s), Pop(s)) = Base(q, s)
BY DEF Frames, Pop, Top, Base

Serving == {"iret", "irq_32", "irq_handler"}

\* Own code runs on a stack without frames.
LEMMA OwnCode ==
    ASSUME TasksInv, pc \notin Serving
    PROVE  stack = << >> /\ Phase = pc
BY DEF TasksInv, TypeOK, FrameInv, Phase, Base, Serving

LEMMA OwnFrames ==
    ASSUME TasksInv, pc \notin Serving, pc' \notin Serving, stack' = stack
    PROVE  FrameInv' /\ Phase' = pc'
<1>1. stack' = << >> /\ Len(stack') = 0
  BY OwnCode
<1> QED BY <1>1 DEF FrameInv, Frames, Phase, Base, Serving

\* new leaves the address in a scratch register.
LEMMA TasksNewStep ==
    ASSUME TasksInv, TasksNew
    PROVE  TasksInv'
<1>1. TypeOK'
  <2>1. Me \in Ids /\ val[Me] \in Values
    BY TasksAssumption DEF TasksInv, TypeOK, Me, Ids
  <2>2. regs' \in Regs /\ clobbered' \subseteq Ids
    BY <2>1 DEF TasksInv, TypeOK, Regs, TasksNew
  <2> QED BY <2>2 DEF TasksInv, TypeOK, TasksNew, ring, pic, Pcs
<1>2. ControlInv'
  BY TasksAssumption, OwnCode, OwnFrames DEF TasksInv, TypeOK, ControlInv, RingInv,
     TasksNew, ring, pic, Creating, Interruptible, Serving
<1>3. FrameInv'
  BY OwnFrames DEF TasksNew, Serving
<1>4. RingInv'
  BY DEF TasksInv, RingInv, TasksNew, ring, pic, Linked, Unready
<1>5. ReadyInv'
  <2>1. n = 0
    BY OwnCode DEF TasksInv, ControlInv, TasksNew, Serving
  <2> QED BY <2>1 DEF ReadyInv, TasksNew, ring, Ids
<1>6. RegInv'
  <2>1. Me' = Me /\ regs'.callee = regs.callee /\ regs'.scratch = val[Me]
    BY DEF TasksInv, TypeOK, Regs, TasksNew, Me
  <2> QED BY <2>1 DEF TasksInv, RegInv, TasksNew, ring, Unready
<1> QED BY <1>1, <1>2, <1>3, <1>4, <1>5, <1>6 DEF TasksInv

\* tasks::init makes a ring of one.
LEMMA TasksInitStep ==
    ASSUME TasksInv, TasksInit
    PROVE  TasksInv'
<1>0. /\ n = 0 /\ current_task = 0 /\ masked /\ Me = 1 /\ 1 \in Ids
      /\ UNCHANGED <<esp, eflags_if, regs, stack, val, clobbered, masked, irr, master, slave>>
  BY OwnCode, TasksAssumption
     DEF TasksInv, ControlInv, RingInv, TasksInit, Serving, Me, Ids, pic, ghost
<1>1. CASE UNCHANGED <<n, next, tasks_start, tasks_end, current_task>> /\ pc' = "wild"
  <2>1. TypeOK'
    BY <1>0, <1>1 DEF TasksInv, TypeOK, Pcs
  <2>2. ControlInv'
    BY <1>0, <1>1, OwnFrames
       DEF TasksInv, ControlInv, TasksInit, Creating, Interruptible, Serving
  <2>3. FrameInv'
    BY <1>0, <1>1, OwnFrames DEF TasksInit, Serving
  <2>4. RingInv'
    BY <1>0, <1>1 DEF TasksInv, RingInv, Unready
  <2>5. ReadyInv'
    BY <1>0, <1>1 DEF ReadyInv, Ids
  <2>6. RegInv'
    BY <1>0, <1>1 DEF TasksInv, RegInv, Me, Unready
  <2> QED BY <2>1, <2>2, <2>3, <2>4, <2>5, <2>6 DEF TasksInv
<1>2. CASE /\ n' = 1 /\ tasks_start' = 1 /\ tasks_end' = 1 /\ current_task' = 1
           /\ next' = [next EXCEPT ![1] = 1] /\ pc' = "inited"
  <2>1. TypeOK'
    BY <1>0, <1>2, TasksAssumption DEF TasksInv, TypeOK, Pcs, Ids
  <2>2. ControlInv'
    BY <1>0, <1>2, OwnFrames
       DEF TasksInv, ControlInv, TasksInit, Creating, Interruptible, Serving
  <2>3. FrameInv'
    BY <1>0, <1>2, OwnFrames DEF TasksInit, Serving
  <2>4. RingInv'
    BY <1>0, <1>2 DEF TasksInv, TypeOK, RingInv, Linked, Unready, Ids
  <2>5. ReadyInv'
    BY <1>0, <1>2 DEF ReadyInv, Ids
  <2>6. RegInv'
    BY <1>0, <1>2 DEF TasksInv, RegInv, Me, Unready, Ids
  <2> QED BY <2>1, <2>2, <2>3, <2>4, <2>5, <2>6 DEF TasksInv
<1> QED BY <1>1, <1>2 DEF TasksInit, ring

\* The mask is in a scratch register.
LEMMA ReadMaskStep ==
    ASSUME TasksInv, ReadMask
    PROVE  TasksInv'
<1>1. TypeOK'
  <2>1. Me \in Ids /\ val[Me] \in Values
    BY TasksAssumption DEF TasksInv, TypeOK, Me, Ids
  <2>2. regs' \in Regs /\ clobbered' \subseteq Ids
    BY <2>1 DEF TasksInv, TypeOK, Regs, ReadMask
  <2> QED BY <2>2 DEF TasksInv, TypeOK, ReadMask, ring, pic, Pcs
<1>2. ControlInv'
  BY TasksAssumption, OwnCode, OwnFrames DEF TasksInv, TypeOK, ControlInv, RingInv,
     ReadMask, ring, pic, Creating, Interruptible, Serving
<1>3. FrameInv'
  BY OwnFrames DEF ReadMask, Serving
<1>4. RingInv'
  BY DEF TasksInv, RingInv, ReadMask, ring, pic, Linked, Unready
<1>5. ReadyInv'
  <2>1. Me = current_task
    BY DEF TasksInv, TypeOK, ControlInv, RingInv, ReadMask, Me
  <2>2. \A t \in Ids : t # current_task => (t \in clobbered' <=> t \in clobbered)
    BY <2>1 DEF ReadMask
  <2> QED BY <2>2 DEF TasksInv, ReadyInv, ReadMask, ring, Unready
<1>6. RegInv'
  <2>1. Me' = Me /\ regs'.callee = regs.callee /\ regs'.scratch = val[Me]
    BY DEF TasksInv, TypeOK, Regs, ReadMask, Me
  <2> QED BY <2>1 DEF TasksInv, RegInv, ReadMask, ring, Unready
<1> QED BY <1>1, <1>2, <1>3, <1>4, <1>5, <1>6 DEF TasksInv

\* Unmasking IRQ0 ends the boot phase; the ring is there.
LEMMA UnmaskIrq0Step ==
    ASSUME TasksInv, UnmaskIrq0
    PROVE  TasksInv'
<1>1. TypeOK'
  BY TasksAssumption DEF TasksInv, TypeOK, ControlInv, RingInv, FrameInv,
     UnmaskIrq0, ring, cpu, pic, ghost, Ids, Pcs
<1>2. ControlInv'
  BY TasksAssumption, OwnCode, OwnFrames DEF TasksInv, TypeOK, ControlInv, RingInv,
     UnmaskIrq0, ring, pic, Creating, Interruptible, Serving
<1>3. FrameInv'
  BY OwnFrames DEF UnmaskIrq0, Serving
<1>4. RingInv'
  BY TasksAssumption DEF TasksInv, TypeOK, ControlInv, RingInv,
     UnmaskIrq0, ring, cpu, pic, ghost, Ids, Linked, Unready, Creating
<1>5. ReadyInv'
  BY TasksAssumption DEF TasksInv, TypeOK, ControlInv, RingInv, ReadyInv,
     UnmaskIrq0, ring, cpu, pic, ghost, Ids, Unready, Linked, Creating, Me
<1>6. RegInv'
  BY TasksAssumption DEF TasksInv, TypeOK, ControlInv, RingInv, RegInv,
     UnmaskIrq0, ring, cpu, pic, ghost, Ids, Me, Unready, Linked, Creating
<1> QED BY <1>1, <1>2, <1>3, <1>4, <1>5, <1>6 DEF TasksInv

\* A computing task changes its own registers only.
LEMMA WorkStep ==
    ASSUME TasksInv, Work
    PROVE  TasksInv'
<1>1. TypeOK'
  <2>1. Me \in Ids /\ Me \in 0 .. MaxTasks
    BY TasksAssumption DEF TasksInv, TypeOK, Me, Ids
  <2>2. PICK v \in {<<Me, 0>>, <<Me, 1>>} :
          val' = [val EXCEPT ![Me] = v] /\ regs' = [callee |-> v, scratch |-> v]
    BY DEF Work
  <2>3. v \in Values
    BY <2>1 DEF Values
  <2>4. val' \in [Ids -> Values] /\ regs' \in Regs
    BY <2>1, <2>2, <2>3 DEF TasksInv, TypeOK, Regs
  <2>5. clobbered' \subseteq Ids
    BY DEF Work, TasksInv, TypeOK
  <2> QED BY <2>4, <2>5 DEF Work, TasksInv, TypeOK, ring, pic
<1>2. ControlInv'
  BY TasksAssumption, OwnCode, OwnFrames DEF TasksInv, TypeOK, ControlInv, RingInv,
     Work, ring, pic, Creating, Interruptible, Serving
<1>3. FrameInv'
  BY OwnFrames DEF Work, Serving
<1>4. RingInv'
  BY TasksAssumption DEF TasksInv, TypeOK, ControlInv, RingInv,
     Work, ring, cpu, pic, ghost, Ids, Linked, Unready, Creating
<1>5. ReadyInv'
  BY TasksAssumption DEF TasksInv, TypeOK, ControlInv, RingInv, ReadyInv,
     Work, ring, cpu, pic, ghost, Ids, Unready, Linked, Creating, Me
<1>6. RegInv'
  BY TasksAssumption DEF TasksInv, TypeOK, ControlInv, RingInv, RegInv,
     Work, ring, cpu, pic, ghost, Ids, Me, Unready, Linked, Creating
<1> QED BY <1>1, <1>2, <1>3, <1>4, <1>5, <1>6 DEF TasksInv

\* create disables interrupts.
LEMMA CreateCliStep ==
    ASSUME TasksInv, CreateCli
    PROVE  TasksInv'
<1>1. TypeOK'
  BY TasksAssumption DEF TasksInv, TypeOK, ControlInv, RingInv, FrameInv,
     CreateCli, ring, cpu, pic, ghost, Ids, Pcs
<1>2. ControlInv'
  BY TasksAssumption, OwnCode, OwnFrames DEF TasksInv, TypeOK, ControlInv, RingInv,
     CreateCli, ring, pic, Creating, Interruptible, Serving
<1>3. FrameInv'
  BY OwnFrames DEF CreateCli, Serving
<1>4. RingInv'
  BY TasksAssumption DEF TasksInv, TypeOK, ControlInv, RingInv,
     CreateCli, ring, cpu, pic, ghost, Ids, Linked, Unready, Creating
<1>5. ReadyInv'
  BY TasksAssumption DEF TasksInv, TypeOK, ControlInv, RingInv, ReadyInv,
     CreateCli, ring, cpu, pic, ghost, Ids, Unready, Linked, Creating, Me
<1>6. RegInv'
  BY TasksAssumption DEF TasksInv, TypeOK, ControlInv, RingInv, RegInv,
     CreateCli, ring, cpu, pic, ghost, Ids, Me, Unready, Linked, Creating
<1> QED BY <1>1, <1>2, <1>3, <1>4, <1>5, <1>6 DEF TasksInv

\* A context that nothing links yet.
LEMMA CreateAllocStep ==
    ASSUME TasksInv, CreateAlloc
    PROVE  TasksInv'
<1>1. TypeOK'
  <2>1. n' \in 0 .. MaxTasks
    BY TasksAssumption DEF TasksInv, TypeOK, RingInv, ControlInv, CreateAlloc, Phase, Base,
           Creating, Linked
  <2>2. UNCHANGED <<esp, regs, stack, val, clobbered, masked, irr, master, slave>>
    BY DEF CreateAlloc, ring, pic, ghost
  <2> QED BY <2>1, <2>2 DEF TasksInv, TypeOK, CreateAlloc, Pcs
<1>2. ControlInv'
  BY TasksAssumption, OwnCode, OwnFrames DEF TasksInv, TypeOK, ControlInv, RingInv,
     CreateAlloc, ring, pic, Creating, Interruptible, Serving
<1>3. FrameInv'
  BY OwnFrames DEF CreateAlloc, Serving
<1>4. RingInv'
  BY TasksAssumption DEF TasksInv, TypeOK, ControlInv, RingInv,
     CreateAlloc, ring, cpu, pic, ghost, Ids, Linked, Unready, Creating
<1>5. ReadyInv'
  BY TasksAssumption DEF TasksInv, TypeOK, ControlInv, RingInv, ReadyInv,
     CreateAlloc, ring, cpu, pic, ghost, Ids, Unready, Linked, Creating, Me
<1>6. RegInv'
  <2>1. Me' = Me /\ n' = n + 1 /\ n > 0
    BY DEF TasksInv, TypeOK, ControlInv, CreateAlloc, Me, Creating
  <2>2. n \in Nat /\ \A t \in Ids : t \in Nat
    BY TasksAssumption DEF TasksInv, TypeOK, Ids
  <2>3. val' = val /\ clobbered' = clobbered /\ regs' = regs
    BY DEF CreateAlloc, ghost
  <2>4. ASSUME NEW t \in Ids, t > 1, t > n' \/ t = n' PROVE val[t] = Zeros
    <3>1. t > n
      BY <2>1, <2>2, <2>4
    <3>2. \A u \in Ids : u > 1 /\ u > n => val[u] = Zeros
      BY DEF TasksInv, RegInv
    <3> QED BY <3>1, <3>2, <2>4
  <2> QED BY <2>1, <2>3, <2>4 DEF TasksInv, RegInv
<1> QED BY <1>1, <1>2, <1>3, <1>4, <1>5, <1>6 DEF TasksInv

\* The last context now leads to the new one.
LEMMA CreateAppendStep ==
    ASSUME TasksInv, CreateAppend
    PROVE  TasksInv'
<1>1. TypeOK'
  BY TasksAssumption DEF TasksInv, TypeOK, ControlInv, RingInv, FrameInv,
     CreateAppend, ring, cpu, pic, ghost, Ids, Pcs
<1>2. ControlInv'
  BY TasksAssumption, OwnCode, OwnFrames DEF TasksInv, TypeOK, ControlInv, RingInv,
     CreateAppend, ring, pic, Creating, Interruptible, Serving
<1>3. FrameInv'
  BY OwnFrames DEF CreateAppend, Serving
<1>4. RingInv'
  BY TasksAssumption DEF TasksInv, TypeOK, ControlInv, RingInv,
     CreateAppend, ring, cpu, pic, ghost, Ids, Linked, Unready, Creating
<1>5. ReadyInv'
  BY TasksAssumption DEF TasksInv, TypeOK, ControlInv, RingInv, ReadyInv,
     CreateAppend, ring, cpu, pic, ghost, Ids, Unready, Linked, Creating, Me
<1>6. RegInv'
  BY TasksAssumption DEF TasksInv, TypeOK, ControlInv, RingInv, RegInv,
     CreateAppend, ring, cpu, pic, ghost, Ids, Me, Unready, Linked, Creating
<1> QED BY <1>1, <1>2, <1>3, <1>4, <1>5, <1>6 DEF TasksInv

\* The new context closes the ring.
LEMMA CreateCloseStep ==
    ASSUME TasksInv, CreateClose
    PROVE  TasksInv'
<1>1. TypeOK'
  <2>1. next' \in [Ids -> 0 .. MaxTasks]
    <3>1. tasks_start \in 0 .. MaxTasks
      BY TasksAssumption DEF TasksInv, TypeOK
    <3> QED BY <3>1 DEF TasksInv, TypeOK, CreateClose
  <2>2. UNCHANGED <<esp, regs, stack, val, clobbered, masked, irr, master, slave>>
    BY DEF CreateClose, ring, pic, ghost
  <2> QED BY <2>1, <2>2 DEF TasksInv, TypeOK, CreateClose, Pcs
<1>2. ControlInv'
  BY TasksAssumption, OwnCode, OwnFrames DEF TasksInv, TypeOK, ControlInv, RingInv,
     CreateClose, ring, pic, Creating, Interruptible, Serving
<1>3. FrameInv'
  BY OwnFrames DEF CreateClose, Serving
<1>4. RingInv'
  BY TasksAssumption DEF TasksInv, TypeOK, ControlInv, RingInv,
     CreateClose, ring, cpu, pic, ghost, Ids, Linked, Unready, Creating
<1>5. ReadyInv'
  BY TasksAssumption DEF TasksInv, TypeOK, ControlInv, RingInv, ReadyInv,
     CreateClose, ring, cpu, pic, ghost, Ids, Unready, Linked, Creating, Me
<1>6. RegInv'
  BY TasksAssumption DEF TasksInv, TypeOK, ControlInv, RingInv, RegInv,
     CreateClose, ring, cpu, pic, ghost, Ids, Me, Unready, Linked, Creating
<1> QED BY <1>1, <1>2, <1>3, <1>4, <1>5, <1>6 DEF TasksInv

\* The new task can be switched to.
LEMMA CreateStackStep ==
    ASSUME TasksInv, CreateStack
    PROVE  TasksInv'
<1>1. TypeOK'
  <2>1. FirstContext \in Contexts
    BY TasksAssumption DEF FirstContext, Contexts, Regs, Values, Zeros
  <2>2. esp' \in [Ids -> Contexts \cup {Unset}]
    BY <2>1 DEF TasksInv, TypeOK, CreateStack
  <2> QED BY <2>2 DEF TasksInv, TypeOK, CreateStack, ring, pic, ghost, Pcs
<1>2. ControlInv'
  BY TasksAssumption, OwnCode, OwnFrames DEF TasksInv, TypeOK, ControlInv, RingInv,
     CreateStack, ring, pic, Creating, Interruptible, Serving
<1>3. FrameInv'
  BY OwnFrames DEF CreateStack, Serving
<1>4. RingInv'
  BY TasksAssumption DEF TasksInv, TypeOK, ControlInv, RingInv,
     CreateStack, ring, cpu, pic, ghost, Ids, Linked, Unready, Creating
<1>5. ReadyInv'
  <2>1. Resumable(FirstContext, Zeros, n \in clobbered)
    <3>1. FirstContext \in Contexts
      BY TasksAssumption DEF FirstContext, Contexts, Regs, Values, Zeros
    <3>2. /\ FirstContext.stack = << >> /\ FirstContext.ret = "code"
          /\ FirstContext.regs.callee = Zeros /\ FirstContext.regs.scratch = Zeros
      BY DEF FirstContext
    <3> QED BY <3>1, <3>2 DEF Resumable, Frames
  <2>2. n \in Ids /\ n > 1 /\ val[n] = Zeros
    BY DEF TasksInv, TypeOK, ControlInv, RingInv, RegInv, CreateStack, Unready,
           Creating, Linked, Ids
  <2>3. ASSUME NEW t \in Ids, t <= n, t # current_task
        PROVE  Resumable(esp'[t], val[t], t \in clobbered)
    <3>1. CASE t = n
      BY <3>1, <2>1, <2>2 DEF TasksInv, TypeOK, CreateStack
    <3>2. CASE t # n
      BY <3>2, <2>3 DEF TasksInv, TypeOK, ReadyInv, CreateStack
    <3> QED BY <3>1, <3>2
  <2> QED BY <2>3 DEF CreateStack, ReadyInv, ring, ghost
<1>6. RegInv'
  BY TasksAssumption DEF TasksInv, TypeOK, ControlInv, RingInv, RegInv,
     CreateStack, ring, cpu, pic, ghost, Ids, Me, Unready, Linked, Creating
<1> QED BY <1>1, <1>2, <1>3, <1>4, <1>5, <1>6 DEF TasksInv

\* The ring is complete when interrupts come back.
LEMMA CreateStiStep ==
    ASSUME TasksInv, CreateSti
    PROVE  TasksInv'
<1>1. TypeOK'
  BY TasksAssumption DEF TasksInv, TypeOK, ControlInv, RingInv, FrameInv,
     CreateSti, ring, cpu, pic, ghost, Ids, Pcs
<1>2. ControlInv'
  BY TasksAssumption, OwnCode, OwnFrames DEF TasksInv, TypeOK, ControlInv, RingInv,
     CreateSti, ring, pic, Creating, Interruptible, Serving
<1>3. FrameInv'
  BY OwnFrames DEF CreateSti, Serving
<1>4. RingInv'
  BY TasksAssumption DEF TasksInv, TypeOK, ControlInv, RingInv,
     CreateSti, ring, cpu, pic, ghost, Ids, Linked, Unready, Creating
<1>5. ReadyInv'
  BY TasksAssumption DEF TasksInv, TypeOK, ControlInv, RingInv, ReadyInv,
     CreateSti, ring, cpu, pic, ghost, Ids, Unready, Linked, Creating, Me
<1>6. RegInv'
  BY TasksAssumption DEF TasksInv, TypeOK, ControlInv, RingInv, RegInv,
     CreateSti, ring, cpu, pic, ghost, Ids, Me, Unready, Linked, Creating
<1> QED BY <1>1, <1>2, <1>3, <1>4, <1>5, <1>6 DEF TasksInv

\* A latched request disturbs nothing.
LEMMA RaiseStep ==
    ASSUME TasksInv, NEW line \in {"timer", "nic"}, Raise(line)
    PROVE  TasksInv'
<1>1. TypeOK'
  BY TasksAssumption DEF TasksInv, TypeOK, ControlInv, RingInv, FrameInv,
     Raise, ring, cpu, pic, ghost, Ids, Pcs
<1>2. ControlInv'
  BY DEF TasksInv, ControlInv, Raise, ring, cpu, Phase
<1>3. FrameInv'
  BY DEF TasksInv, FrameInv, Raise, cpu, Phase
<1>4. RingInv'
  BY TasksAssumption DEF TasksInv, TypeOK, ControlInv, RingInv,
     Raise, ring, cpu, pic, ghost, Ids, Linked, Unready, Creating
<1>5. ReadyInv'
  BY TasksAssumption DEF TasksInv, TypeOK, ControlInv, RingInv, ReadyInv,
     Raise, ring, cpu, pic, ghost, Ids, Unready, Linked, Creating, Me
<1>6. RegInv'
  BY TasksAssumption DEF TasksInv, TypeOK, ControlInv, RingInv, RegInv,
     Raise, ring, cpu, pic, ghost, Ids, Me, Unready, Linked, Creating
<1> QED BY <1>1, <1>2, <1>3, <1>4, <1>5, <1>6 DEF TasksInv

\* The CPU enters irq_32.
LEMMA TakeTimerStep ==
    ASSUME TasksInv, TakeTimer
    PROVE  TasksInv'
<1> DEFINE s == Append(stack, pc)
<1>0. /\ s \in Seq(Interruptible) /\ Len(s) > 0 /\ Frames(s, Phase)
      /\ pc \in Interruptible /\ stack' = s /\ Phase' = Phase
      /\ Phase \in Phases /\ (Len(s) > 1 => Phase = "code")
  <2>1. pc = IF Len(stack) = 0 THEN Phase ELSE "iret"
    BY DEF TasksInv, TypeOK, FrameInv, TakeTimer, Enter, Interruptible, Phase, Base
  <2>2. s \in Seq(Interruptible) /\ Len(s) > 0 /\ Frames(s, Phase)
    BY <2>1, PushFrame DEF TasksInv, TypeOK, FrameInv, TakeTimer, Enter
  <2>3. Len(s) > 1 => Phase = "code"
    BY <2>1 DEF TasksInv, TypeOK, ControlInv, FrameInv
  <2>4. Phase' = Phase
    BY <2>1, PushFrame DEF TasksInv, TypeOK, FrameInv, TakeTimer, Enter, Phase
  <2>5. Phase \in Phases
    BY <2>1 DEF TasksInv, FrameInv, TakeTimer, Enter, Phases, Interruptible
  <2> QED BY <2>2, <2>3, <2>4, <2>5 DEF TakeTimer, Enter
<1> HIDE DEF s
<1>1. TypeOK'
  BY <1>0 DEF TasksInv, TypeOK, TakeTimer, Enter, ring, ghost, Pcs
<1>2. ControlInv'
  <2>1. Phase = "code" /\ n > 0
    BY <1>0 DEF TasksInv, TypeOK, ControlInv, RingInv, TakeTimer, Phases
  <2>2. master' = {"timer"} /\ ~slave
    BY <1>0 DEF TasksInv, ControlInv, TakeTimer, Interruptible
  <2> QED BY <1>0, <2>1, <2>2 DEF ControlInv, TakeTimer, Enter, ring, Creating, Interruptible
<1>3. FrameInv'
  BY <1>0 DEF FrameInv, TakeTimer, Enter
<1>4. RingInv'
  BY <1>0 DEF TasksInv, RingInv, TakeTimer, Enter, ring, Linked, Unready, Interruptible
<1>5. ReadyInv'
  BY <1>0 DEF TasksInv, ReadyInv, TakeTimer, Enter, ring, ghost, Unready, Interruptible
<1>6. RegInv'
  BY <1>0 DEF TasksInv, RegInv, TakeTimer, Enter, ring, ghost, Me, Unready, Interruptible
<1> QED BY <1>1, <1>2, <1>3, <1>4, <1>5, <1>6 DEF TasksInv

\* The CPU enters a device stub.
LEMMA TakeNicStep ==
    ASSUME TasksInv, TakeNic
    PROVE  TasksInv'
<1> DEFINE s == Append(stack, pc)
<1>0. /\ s \in Seq(Interruptible) /\ Len(s) > 0 /\ Frames(s, Phase)
      /\ pc \in Interruptible /\ stack' = s /\ Phase' = Phase
      /\ Phase \in Phases /\ (Len(s) > 1 => Phase = "code")
  <2>1. pc = IF Len(stack) = 0 THEN Phase ELSE "iret"
    BY DEF TasksInv, TypeOK, FrameInv, TakeNic, Enter, Interruptible, Phase, Base
  <2>2. s \in Seq(Interruptible) /\ Len(s) > 0 /\ Frames(s, Phase)
    BY <2>1, PushFrame DEF TasksInv, TypeOK, FrameInv, TakeNic, Enter
  <2>3. Len(s) > 1 => Phase = "code"
    BY <2>1 DEF TasksInv, TypeOK, ControlInv, FrameInv
  <2>4. Phase' = Phase
    BY <2>1, PushFrame DEF TasksInv, TypeOK, FrameInv, TakeNic, Enter, Phase
  <2>5. Phase \in Phases
    BY <2>1 DEF TasksInv, FrameInv, TakeNic, Enter, Phases, Interruptible
  <2> QED BY <2>2, <2>3, <2>4, <2>5 DEF TakeNic, Enter
<1> HIDE DEF s
<1>1. TypeOK'
  BY <1>0 DEF TasksInv, TypeOK, TakeNic, Enter, ring, ghost, Pcs
<1>2. ControlInv'
  BY <1>0 DEF TasksInv, TypeOK, ControlInv, RingInv, TakeNic, Enter, ring, Creating,
     Interruptible, Phases
<1>3. FrameInv'
  BY <1>0 DEF FrameInv, TakeNic, Enter
<1>4. RingInv'
  BY <1>0 DEF TasksInv, RingInv, TakeNic, Enter, ring, Linked, Unready, Interruptible
<1>5. ReadyInv'
  BY <1>0 DEF TasksInv, ReadyInv, TakeNic, Enter, ring, ghost, Unready, Interruptible
<1>6. RegInv'
  BY <1>0 DEF TasksInv, RegInv, TakeNic, Enter, ring, ghost, Me, Unready, Interruptible
<1> QED BY <1>1, <1>2, <1>3, <1>4, <1>5, <1>6 DEF TasksInv

\* The current task becomes resumable and its successor is resumed.
LEMMA SwitchContextStep ==
    ASSUME TasksInv, SwitchContext
    PROVE  TasksInv'
<1> DEFINE old == [regs |-> regs, ret |-> "iret", stack |-> stack]
           edi == next[current_task]
           new == esp'[edi]
<1>1. /\ pc = "irq_32" /\ Phase = "code" /\ n > 0 /\ n \in Nat
      /\ current_task \in Ids /\ current_task <= n /\ Len(stack) > 0
      /\ Frames(stack, "code") /\ Me = current_task
  BY DEF SwitchContext, TasksInv, TypeOK, ControlInv, FrameInv, RingInv, Phase,
         Linked, Me, Ids
<1>2. edi \in Ids /\ edi <= n /\ edi > 0
  BY <1>1, TasksAssumption DEF TasksInv, TypeOK, RingInv, Linked, Ids
<1>3. esp' = [esp EXCEPT ![current_task] = old]
  BY DEF SwitchContext
<1>4. Resumable(old, val[current_task], current_task \in clobbered)
  <2>1. old \in Contexts
    BY DEF TasksInv, TypeOK, Contexts
  <2> QED BY <1>1, <2>1 DEF TasksInv, RegInv, Resumable
<1>5. \A t \in Ids : t <= n => Resumable(esp'[t], val[t], t \in clobbered)
  <2> SUFFICES ASSUME NEW t \in Ids, t <= n
               PROVE  Resumable(esp'[t], val[t], t \in clobbered)
    OBVIOUS
  <2>1. CASE t = current_task
    BY <2>1, <1>3, <1>4 DEF TasksInv, TypeOK
  <2>2. CASE t # current_task
    BY <2>2, <1>1, <1>3 DEF TasksInv, TypeOK, ReadyInv, Unready
  <2> QED BY <2>1, <2>2
<1>6. Resumable(new, val[edi], edi \in clobbered)
  BY <1>2, <1>5
<1> HIDE DEF new, edi, old
<1>7. /\ current_task' = edi /\ regs' = new.regs /\ stack' = new.stack
      /\ pc' = new.ret /\ master' = Eoi(master) /\ eflags_if' = TRUE
      /\ UNCHANGED <<ring, masked, irr, slave, ghost>>
  BY DEF SwitchContext, new, edi
<1>8. /\ new.regs \in Regs /\ new.stack \in Seq(Interruptible)
      /\ new.ret \in {"code", "iret"}
  BY <1>6 DEF Resumable, Contexts
<1>9. Phase' = "code" /\ Me' = edi
  BY <1>2, <1>6, <1>7, <1>8 DEF Phase, Base, Me, Resumable, Frames
<1>10. TypeOK'
  <2>1. esp' \in [Ids -> Contexts \cup {Unset}]
    BY <1>3, <1>4 DEF TasksInv, TypeOK, Resumable
  <2>2. current_task' \in 0 .. MaxTasks
    BY <1>2, <1>7 DEF Ids
  <2> QED BY <2>1, <2>2, <1>7, <1>8 DEF TasksInv, TypeOK, ring, ghost, Pcs, Eoi
<1>11. ControlInv'
  BY <1>1, <1>7, <1>8, <1>9 DEF TasksInv, ControlInv, Interruptible, Creating, Eoi, ring
<1>12. FrameInv'
  BY <1>6, <1>7, <1>8, <1>9 DEF Resumable, FrameInv, Phases
<1>13. RingInv'
  BY <1>1, <1>2, <1>7, <1>8 DEF TasksInv, RingInv, Linked, Unready, ring
<1>14. ReadyInv'
  BY <1>5, <1>7 DEF ReadyInv, ring, ghost
<1>15. RegInv'
  BY <1>1, <1>6, <1>7, <1>8, <1>9 DEF TasksInv, RegInv, Resumable, Unready, ring, ghost
<1> QED BY <1>10, <1>11, <1>12, <1>13, <1>14, <1>15 DEF TasksInv

\* One interrupt frame is popped.
LEMMA IretStep ==
    ASSUME TasksInv, Iret
    PROVE  TasksInv'
<1> DEFINE s == Pop(stack)
           p == Top(stack)
<1>0. /\ s \in Seq(Interruptible) /\ Frames(s, Phase) /\ p \in Interruptible
      /\ p = IF Len(s) = 0 THEN Phase ELSE "iret"
      /\ pc' = p /\ stack' = s /\ Phase' = Phase
      /\ Phase \in Phases /\ (p = "iret" => Phase = "code")
  <2>1. Len(stack) > 0
    BY DEF TasksInv, FrameInv, Iret
  <2>2. /\ s \in Seq(Interruptible) /\ Frames(s, Phase) /\ p \in Interruptible
        /\ p = IF Len(s) = 0 THEN Phase ELSE "iret"
    BY <2>1, PopFrame DEF TasksInv, TypeOK, FrameInv
  <2>3. Phase \in Phases
    BY <2>1 DEF TasksInv, FrameInv
  <2>4. pc' = p /\ stack' = s /\ Phase' = Phase
    BY <2>1, PopFrame DEF TasksInv, TypeOK, FrameInv, Iret, Phase
  <2>5. Phase = "code"
    BY DEF TasksInv, ControlInv, Iret
  <2> QED BY <2>2, <2>3, <2>4, <2>5
<1> HIDE DEF s, p
<1>1. TypeOK'
  BY <1>0 DEF TasksInv, TypeOK, Iret, ring, pic, ghost, Pcs, Interruptible, Eoi
<1>2. ControlInv'
  BY <1>0 DEF TasksInv, TypeOK, ControlInv, Iret, ring, pic, Interruptible, Creating, Eoi,
     Phases
<1>3. FrameInv'
  <2>1. Len(s) > 0 <=> p \in {"iret", "irq_32", "irq_handler"}
    BY <1>0 DEF Phases
  <2>2. Len(s) > 1 => Phase = "code"
    BY <1>0
  <2> QED BY <1>0, <2>1, <2>2 DEF FrameInv
<1>4. RingInv'
  BY <1>0 DEF TasksInv, RingInv, Iret, ring, pic, Linked, Unready, Interruptible
<1>5. ReadyInv'
  BY <1>0 DEF TasksInv, ReadyInv, Resumable, Iret, ring, ghost, Unready, Interruptible, Me
<1>6. RegInv'
  BY <1>0 DEF TasksInv, TypeOK, RegInv, Iret, ring, ghost, Me, Unready, Interruptible
<1> QED BY <1>1, <1>2, <1>3, <1>4, <1>5, <1>6 DEF TasksInv

\* The handler returns, perhaps with other scratch registers.
LEMMA IrqHandlerStep ==
    ASSUME TasksInv, IrqHandler
    PROVE  TasksInv'
<1> DEFINE s == Pop(stack)
           p == Top(stack)
<1>0. /\ s \in Seq(Interruptible) /\ Frames(s, Phase) /\ p \in Interruptible
      /\ p = IF Len(s) = 0 THEN Phase ELSE "iret"
      /\ pc' = p /\ stack' = s /\ Phase' = Phase
      /\ Phase \in Phases /\ (p = "iret" => Phase = "code")
  <2>1. Len(stack) > 0
    BY DEF TasksInv, FrameInv, IrqHandler
  <2>2. /\ s \in Seq(Interruptible) /\ Frames(s, Phase) /\ p \in Interruptible
        /\ p = IF Len(s) = 0 THEN Phase ELSE "iret"
    BY <2>1, PopFrame DEF TasksInv, TypeOK, FrameInv
  <2>3. Phase \in Phases
    BY <2>1 DEF TasksInv, FrameInv
  <2>4. pc' = p /\ stack' = s /\ Phase' = Phase
    BY <2>1, PopFrame DEF TasksInv, TypeOK, FrameInv, IrqHandler, Phase
  <2>5. p = "iret" => Phase = "code"
    <3>1. Len(s) > 0 => Len(stack) > 1
      BY <2>1 DEF TasksInv, TypeOK, Pop
    <3>2. p = "iret" => Len(s) > 0
      BY <2>2, <2>3 DEF Phases
    <3> QED BY <3>1, <3>2, <2>2 DEF TasksInv, FrameInv
  <2> QED BY <2>2, <2>3, <2>4, <2>5
<1> HIDE DEF s, p
<1>1. TypeOK'
  <2>1. regs' \in Regs /\ clobbered' \subseteq Ids
    <3>1. Junk \in Values /\ Me \in Ids
      BY TasksAssumption DEF TasksInv, TypeOK, Values, Junk, Me, Ids
    <3> QED BY <3>1 DEF TasksInv, TypeOK, IrqHandler, Regs
  <2> QED BY <1>0, <2>1 DEF TasksInv, TypeOK, IrqHandler, ring, pic, ghost, Pcs,
           Interruptible, Eoi
<1>2. ControlInv'
  BY <1>0 DEF TasksInv, TypeOK, ControlInv, IrqHandler, ring, pic, Interruptible, Creating, Eoi,
     Phases
<1>3. FrameInv'
  <2>1. Len(s) > 0 <=> p \in {"iret", "irq_32", "irq_handler"}
    BY <1>0 DEF Phases
  <2>2. Len(s) > 1 => Phase = "code"
    BY <1>0
  <2> QED BY <1>0, <2>1, <2>2 DEF FrameInv
<1>4. RingInv'
  BY <1>0 DEF TasksInv, RingInv, IrqHandler, ring, pic, Linked, Unready, Interruptible
<1>5. ReadyInv'
  BY <1>0 DEF TasksInv, ReadyInv, Resumable, IrqHandler, ring, ghost, Unready,
           Interruptible, Me
<1>6. RegInv'
  <2>1. Me' = Me /\ val' = val /\ n' = n /\ pc' \notin Unready
    BY <1>0 DEF IrqHandler, ring, Me, Unready, Interruptible
  <2>2. regs'.callee = regs.callee
    BY DEF TasksInv, TypeOK, IrqHandler, Regs
  <2>3. Me \notin clobbered' => regs'.scratch = regs.scratch /\ Me \notin clobbered
    BY DEF IrqHandler
  <2> QED BY <2>1, <2>2, <2>3 DEF TasksInv, RegInv
<1> QED BY <1>1, <1>2, <1>3, <1>4, <1>5, <1>6 DEF TasksInv

\* The machine as kmain finds it when the interrupt table is set up.
LEMMA InitHolds == Init => TasksInv
<1> SUFFICES ASSUME Init PROVE TasksInv
  OBVIOUS
<1>1. Junk \in Values /\ Zeros \in Values /\ <<1, 0>> \in Values
  BY TasksAssumption DEF Values, Junk, Zeros
<1>2. TypeOK
  <2>1. regs \in Regs /\ val \in [Ids -> Values]
    BY <1>1 DEF Init, Regs
  <2>2. esp \in [Ids -> Contexts \cup {Unset}] /\ next \in [Ids -> 0 .. MaxTasks]
    BY TasksAssumption DEF Init
  <2>3. 0 \in 0 .. MaxTasks /\ stack \in Seq(Interruptible)
    BY TasksAssumption DEF Init
  <2>4. /\ n = 0 /\ tasks_start = 0 /\ tasks_end = 0 /\ current_task = 0
        /\ pc \in Pcs /\ eflags_if \in BOOLEAN /\ clobbered \subseteq Ids
        /\ masked \in BOOLEAN /\ irr \subseteq {"timer", "nic"}
        /\ master \subseteq {"timer", "cascade"} /\ slave \in BOOLEAN
    BY DEF Init, Pcs
  <2> QED BY <2>1, <2>2, <2>3, <2>4 DEF TypeOK
<1>3. ControlInv
  BY DEF Init, ControlInv, Phase, Base, Interruptible, Creating
<1>4. FrameInv
  BY DEF Init, FrameInv, Frames
<1>5. RingInv
  BY DEF Init, RingInv, Unready
<1>6. ReadyInv
  BY DEF Init, ReadyInv, Ids
<1>7. RegInv
  <2>1. Me = 1 /\ 1 \in Ids
    BY TasksAssumption DEF Init, Me, Ids
  <2>2. val[1] = <<1, 0>> /\ \A t \in Ids : t > 1 => val[t] = Zeros
    BY <2>1 DEF Init, Ids
  <2>3. regs.callee = <<1, 0>> /\ regs.scratch = <<1, 0>>
    BY DEF Init
  <2> QED BY <2>1, <2>2, <2>3 DEF RegInv
<1> QED BY <1>2, <1>3, <1>4, <1>5, <1>6, <1>7 DEF TasksInv

\* No step of the CPU and no request breaks the invariant.
LEMMA NextStep == TasksInv /\ [Next]_vars => TasksInv'
<1> SUFFICES ASSUME TasksInv, [Next]_vars PROVE TasksInv'
  OBVIOUS
<1>1. CASE Execute
  BY <1>1, TasksNewStep, TasksInitStep, ReadMaskStep, UnmaskIrq0Step, WorkStep, CreateCliStep, CreateAllocStep,
     CreateAppendStep, CreateCloseStep, CreateStackStep, CreateStiStep,
     SwitchContextStep, IretStep, IrqHandlerStep DEF Execute, Create
<1>2. CASE TakeTimer
  BY <1>2, TakeTimerStep
<1>3. CASE TakeNic
  BY <1>3, TakeNicStep
<1>4. CASE \E line \in {"timer", "nic"} : Raise(line)
  BY <1>4, RaiseStep
<1>5. CASE UNCHANGED vars
  BY <1>5 DEF vars, ring, cpu, pic, ghost, TasksInv, TypeOK, ControlInv, FrameInv,
              RingInv, ReadyInv, RegInv, Phase, Linked, Me
<1> QED BY <1>1, <1>2, <1>3, <1>4, <1>5 DEF Next

\* The inductive invariant: the ring, the frames on every stack, and who owns
\* the registers, at every point at which an interrupt can come.
THEOREM TasksInvariant == Spec => []TasksInv
<1>1. Init => TasksInv
  BY InitHolds
<1>2. TasksInv /\ [Next]_vars => TasksInv'
  BY NextStep
<1> QED BY <1>1, <1>2, PTL DEF Spec

\* Every variable of the scheduler keeps its type.
THEOREM TypeCorrect == Spec => []TypeOK
BY TasksInvariant, PTL DEF TasksInv

\* A tick never finds a half-linked ring or a task without a context.
THEOREM RingSafe == Spec => []RingIntact
<1>1. TasksInv => RingIntact
  <2> SUFFICES ASSUME TasksInv, TickPossible PROVE RingIntact
    BY DEF RingIntact
  <2>1. /\ pc \notin Creating /\ ~masked /\ n > 0 /\ n \in Nat /\ n <= MaxTasks
    BY TasksAssumption
       DEF TasksInv, TypeOK, ControlInv, RingInv, TickPossible, Creating, Interruptible
  <2>2. Linked = n /\ pc \notin Unready /\ pc # "create_close"
    BY <2>1 DEF Linked, Creating, Unready
  <2>3. \A t \in 1 .. n : t \in Ids
    BY <2>1, TasksAssumption DEF Ids
  <2>4. \A t \in 1 .. n : t # current_task => esp[t] \in Contexts
    BY <2>2, <2>3 DEF TasksInv, ReadyInv, Resumable
  <2>5. \A t \in 1 .. n : next[t] = IF t = n THEN 1 ELSE t + 1
    BY <2>1, <2>2, <2>3 DEF TasksInv, RingInv
  <2>6. tasks_start = 1 /\ tasks_end = n /\ current_task \in 1 .. n
    BY <2>1, <2>2 DEF TasksInv, TypeOK, RingInv
  <2> QED BY <2>4, <2>5, <2>6 DEF RingIntact
<1> QED BY <1>1, TasksInvariant, PTL

\* Preemption is invisible to a task, apart from the scratch registers a
\* device IRQ destroys.
THEOREM RegistersSafe == Spec => []OwnRegisters
<1>1. TasksInv => OwnRegisters
  BY DEF TasksInv, RegInv, OwnRegisters
<1> QED BY <1>1, TasksInvariant, PTL

\* The EOIs match the interrupts.
THEOREM InServiceSafe == Spec => []NothingLeftInService
<1>1. TasksInv => NothingLeftInService
  BY DEF TasksInv, ControlInv, NothingLeftInService, Interruptible
<1> QED BY <1>1, TasksInvariant, PTL

\* Nested ticks are unwound before a task's own code goes on.
THEOREM StackSafe == Spec => []BalancedStack
<1>1. TasksInv => BalancedStack
  BY DEF TasksInv, TypeOK, FrameInv, BalancedStack
<1> QED BY <1>1, TasksInvariant, PTL

============================================================================
