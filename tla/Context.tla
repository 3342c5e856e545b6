------------------------------- MODULE Context -------------------------------
(***************************************************************************)
(* The registers and the kernel stacks through exceptions and context      *)
(* switches: kernel/exception_vector_table.S, kernel/scheduler/scheduler.S *)
(* and the parts of scheduler.c and thread.c that save and load a context. *)
(* The steps are those of SchedulerSpec, with what each does to the CPU.   *)
(*                                                                         *)
(* Registers that are always saved and loaded together are one: x0, x1 to  *)
(* x3, x4 to x18 and x19 to x30.  A register holds <<thread, what>>.  A    *)
(* stack pointer is a stack and a depth in words below its top.  A thread  *)
(* that blocks inside a system call leaves its exception frame and the     *)
(* frames of the kernel's C code on its kernel stack, and comes back to    *)
(* them; every other frame is dead once the thread has been switched away, *)
(* because its registers were copied to thread_t.ctx.                      *)
(***************************************************************************)
EXTENDS SchedulerSpec

CONSTANTS
  FrameWords,     \* exception_frame_t: 35 words
  SwitchWords,    \* what scheduler_switch_to_thread takes of the stack: 36 words
  CodeWords,      \* bound: stack the C code of a system call uses
  LoopDepth       \* where the input thread's loop is on its own stack

ASSUME StackAssumption ==
  /\ {FrameWords, SwitchWords, CodeWords, LoopDepth} \subseteq Nat

VARIABLES
  cpu,            \* the general registers, SP (of EL1) and SP_EL0
  ctx,            \* thread_t.ctx: registers and stack pointer
  frames,         \* the live exception frame of a thread inside a blocking call
  program         \* what each thread's own code last put in its registers

ctxVars == <<threadState, runQueue, currentThread, ttbr0, kernel, waiting, cpu, ctx, frames, program>>

Reg == {"x0", "x1_3", "x4_18", "x19_30"}

\* What a register holds: a value of the thread's own code (none yet, one or
\* another), a local variable of the kernel's C code, a return value, or what
\* scheduler_switch_to_thread left in it.
NotYet == 0
Local == 3
Returned == 4
Scratch == 5
OwnValues(t, n) == [r \in Reg |-> <<t, n>>]

KernelStack(t, depth) == [stack |-> "kernel", of |-> t, depth |-> depth]
\* The stack a thread's own code runs on.
OwnStack(t, n) ==
  IF t \in UserThreads THEN [stack |-> "user", of |-> t, depth |-> n]
  ELSE [stack |-> "own", of |-> t, depth |-> LoopDepth]

Deeper(sp, words) == [sp EXCEPT !.depth = @ + words]

CtxInit ==
  /\ Init
  /\ cpu = [regs |-> OwnValues(NoThread, NotYet), sp |-> KernelStack(NoThread, 0),
            spEl0 |-> KernelStack(NoThread, 0)]
  /\ ctx = [t \in Threads |-> [regs |-> OwnValues(t, NotYet), sp |-> OwnStack(t, NotYet)]]
  /\ frames = [t \in Threads |-> {}]
  /\ program = [t \in Threads |-> NotYet]

-----------------------------------------------------------------------------
InsideCall(t) == frames[t] # {}

\* The live frames after so many words below sp have been written.
Overwrite(fr, sp, words) ==
  [t \in Threads |->
     {[f EXCEPT !.intact = @ /\ ~(/\ sp.stack = "kernel" /\ sp.of = t
                                  /\ sp.depth < f.hi /\ sp.depth + words > f.lo)] : f \in fr[t]}]

\* The stack pointer an exception frame records: SP_EL0, or SP before the
\* exception when it came from the kernel thread.
FrameSp == IF currentThread \in UserThreads THEN cpu.spEl0 ELSE cpu.sp

\* handle_sync and the system call's C code run on SP.
AfterException == Overwrite(frames, cpu.sp, FrameWords + CodeWords)

\* context_switch moves to the top of the next thread's kernel stack ...
SwitchStack(next) == KernelStack(next, 0)

\* ... and scheduler_switch_to_thread loads its context.  The registers it
\* works with come last: x0 holds ELR, x1 to x3 the stack pointer and SPSR.
LoadContext(next, c) ==
  [regs |-> [c.regs EXCEPT !["x0"] = <<next, Scratch>>, !["x1_3"] = <<next, Scratch>>],
   sp |-> IF c.sp.stack = "user" THEN Deeper(SwitchStack(next), SwitchWords) ELSE c.sp,
   spEl0 |-> IF c.sp.stack = "user" THEN c.sp ELSE cpu.spEl0]

\* The switch to the thread scheduler_run chose, with contexts c and frames fr.
SwitchTo(next, c, fr) ==
  /\ frames' = Overwrite(fr, SwitchStack(next), SwitchWords)
  /\ cpu' = LoadContext(next, c[next])

\* What scheduler_yield copies from the frame to the thread's context.
YieldedContext == [regs |-> cpu.regs, sp |-> FrameSp]

\* A mutant of BlockedContext: the stack pointer of the context is not updated.
BlockedContext_OldSp(locals, sp) ==
  [regs |-> [ctx[currentThread].regs EXCEPT !["x19_30"] = locals], sp |-> ctx[currentThread].sp]

\* scheduler_save_and_block keeps x19 to x30 and SP, which is then below the
\* frames of the C code.
BlockedContext(locals, sp) ==
  [regs |-> [ctx[currentThread].regs EXCEPT !["x19_30"] = locals], sp |-> sp]

-----------------------------------------------------------------------------
CtxStart(t) == StartThread(t) /\ UNCHANGED <<cpu, ctx, frames, program>>

CtxBoot == Boot /\ SwitchTo(currentThread', ctx, frames) /\ UNCHANGED <<ctx, program>>

\* The thread's own code computes: its registers and stack pointer change.
Compute(t) ==
  /\ Running({t})
  /\ ~InsideCall(t)
  /\ \E n \in {1, 2} \ {program[t]} :
       /\ program' = [program EXCEPT ![t] = n]
       /\ cpu' = [regs |-> OwnValues(t, n), sp |-> cpu.sp,
                  spEl0 |-> IF t \in UserThreads THEN OwnStack(t, n) ELSE cpu.spEl0]
  /\ UNCHANGED <<threadState, runQueue, currentThread, ttbr0, kernel, waiting, ctx, frames>>

\* The yield system call.
CtxYield ==
  /\ Running(Threads)
  /\ ~InsideCall(currentThread)
  /\ Yield
  /\ ctx' = [ctx EXCEPT ![currentThread] = YieldedContext]
  /\ IF currentThread' = currentThread
     THEN frames' = AfterException /\ UNCHANGED cpu
     ELSE SwitchTo(currentThread', ctx', AfterException)
  /\ UNCHANGED program

\* A system call that blocks: the frame and the C code's frames stay.
CtxBlock ==
  /\ Running(UserThreads)
  /\ ~InsideCall(currentThread)
  /\ Block
  /\ LET below == Deeper(cpu.sp, FrameWords + CodeWords)
         frame == [lo |-> cpu.sp.depth, hi |-> below.depth, regs |-> cpu.regs, sp |-> FrameSp,
                   intact |-> TRUE]
     IN  /\ ctx' = [ctx EXCEPT ![currentThread] = BlockedContext(<<currentThread, Local>>, below)]
         /\ SwitchTo(currentThread', ctx', [AfterException EXCEPT ![currentThread] = {frame}])
  /\ UNCHANGED program

\* A thread that was woken blocks once more, from the same loop.
CtxBlockAgain ==
  /\ Running(UserThreads)
  /\ InsideCall(currentThread)
  /\ Block
  /\ ctx' = [ctx EXCEPT ![currentThread] = BlockedContext(cpu.regs["x19_30"], cpu.sp)]
  /\ SwitchTo(currentThread', ctx', frames)
  /\ UNCHANGED program

\* The end of handle_sync: the frame is loaded, with the return value in x0.
FrameLoaded(frame) ==
  [regs |-> [frame.regs EXCEPT !["x0"] = <<currentThread, Returned>>],
   sp |-> [cpu.sp EXCEPT !.depth = @ - (FrameWords + CodeWords)], spEl0 |-> frame.sp]

\* A thread that was woken finds its message and returns to its own code.
ReturnFromCall ==
  /\ Running(UserThreads)
  /\ \E frame \in frames[currentThread] : cpu' = FrameLoaded(frame)
  /\ frames' = [frames EXCEPT ![currentThread] = {}]
  /\ UNCHANGED <<threadState, runQueue, currentThread, ttbr0, kernel, waiting, ctx, program>>

\* A system call that wakes threads (or none) and returns at once; the input
\* thread wakes them without a system call.
CtxWake(ws) ==
  /\ Running(Threads)
  /\ ~InsideCall(currentThread)
  /\ Wake(ws)
  /\ IF currentThread \in UserThreads
     THEN frames' = AfterException /\ cpu' = [cpu EXCEPT !.regs["x0"] = <<currentThread, Returned>>]
     ELSE UNCHANGED <<frames, cpu>>
  /\ UNCHANGED <<ctx, program>>

CtxExit ==
  /\ Running(UserThreads)
  /\ ~InsideCall(currentThread)
  /\ Exit
  /\ SwitchTo(currentThread', ctx, AfterException)
  /\ UNCHANGED <<ctx, program>>

CtxNext ==
  \/ \E t \in Threads : CtxStart(t) \/ Compute(t)
  \/ CtxBoot
  \/ CtxYield
  \/ CtxBlock
  \/ CtxBlockAgain
  \/ ReturnFromCall
  \/ \E ws \in WaiterLists(waiting) : CtxWake(ws)
  \/ CtxExit

CtxSpec == CtxInit /\ [][CtxNext]_ctxVars

-----------------------------------------------------------------------------
StackPointer == [stack : {"kernel", "own", "user"}, of : Threads \cup {NoThread}, depth : Nat]
RegisterFile == [Reg -> (Threads \cup {NoThread}) \X (0..5)]
Frame == [lo : Nat, hi : Nat, regs : RegisterFile, sp : StackPointer, intact : BOOLEAN]

CtxTypeOK ==
  /\ TypeOK
  /\ cpu \in [regs : RegisterFile, sp : StackPointer, spEl0 : StackPointer]
  /\ ctx \in [Threads -> [regs : RegisterFile, sp : StackPointer]]
  /\ frames \in [Threads -> SUBSET Frame]
  /\ program \in [Threads -> 0..2]

\* Thread t runs its own code, and has put something in its registers.
OwnCode(t) == Running({t}) /\ ~InsideCall(t) /\ program[t] # NotYet

\* The frames a blocked thread left on its kernel stack are never written
\* over, and it comes back with the local variables and the stack pointer of
\* the code that blocked.
BlockedCallSurvives ==
  \A t \in Threads : \A f \in frames[t] :
    /\ f.intact
    /\ Running({t}) => /\ cpu.regs["x19_30"] = <<t, Local>>
                       /\ cpu.sp = KernelStack(t, f.hi)

(***************************************************************************)
(* A thread that comes back to its own code, however it gave up the CPU,   *)
(* finds its stack pointer and its registers x4 to x30 as it left them,    *)
(* and the CPU's kernel stack pointer at the one place below which nothing *)
(* of its kernel stack is in use.  A thread that comes back to a system    *)
(* call finds the call's frames and variables (BlockedCallSurvives): its   *)
(* own switch back, which uses the top of the same stack, and the other    *)
(* threads' exceptions spare them.                                         *)
(***************************************************************************)
RegistersRestored ==
  /\ CtxTypeOK
  /\ \A t \in Threads :
       OwnCode(t) =>
         /\ \A r \in {"x4_18", "x19_30"} : cpu.regs[r] = <<t, program[t]>>
         /\ IF t \in UserThreads
            THEN cpu.spEl0 = OwnStack(t, program[t]) /\ cpu.sp = KernelStack(t, SwitchWords)
            ELSE cpu.sp = OwnStack(t, program[t])
  /\ BlockedCallSurvives
=============================================================================
