------------------------------ MODULE Aarch64 ------------------------------
(***************************************************************************)
(* The aarch64 kernel's boot context after its MMU is on: the timer ticks  *)
(* it awaits, the cooperative ping-pong, the two programs it runs at EL0,  *)
(* and the preemptive demo (kernel/src/arch/aarch64: boot, context,        *)
(* vectors, timer, usermode, sched_preempt).  One core; the timer          *)
(* interrupts it between any two instructions that run unmasked.  A handler*)
(* runs masked, so a trap is one step: what matters of it is what it saves,*)
(* what it restores and what it leaves in ELR_EL1 and SPSR_EL1.            *)
(***************************************************************************)
EXTENDS Naturals, Sequences, FiniteSets

CONSTANTS
    BYTES,           \* bytes of the greeting that the EL0 routine writes
    Segments,        \* the PT_LOAD segments: [va, file, memsz]
    MaxDigit,        \* the tick digit's cap (9 in the code)
    ARM_TICKS, PP_MAX_ROUNDS, ROUNDS_PER_WORKER

ARM_THREADS == 3
MEM == 3                 \* bytes of the alias region that the program covers
ZERO == <<"zero", 0>>
ArmWorkers == 1..2
VARIABLES
    cpu,         \* [pc, el, irq, x, elr, spsr]: irq is DAIF.I clear, x the GPRs
    demo,        \* the EL0 program being run: "el0" or "elf"
    timer,       \* the generic timer is armed
    arm_ticks,       \* TICK_COUNT, up to the digit's cap
    pp,          \* ping-pong: [on, rounds]: who runs, PP_ROUNDS
    arm_tcb, arm_current, arm_active, arm_runnable,   \* TCBS, CURRENT, ACTIVE, SCHED's count
    mem,         \* the EL0 alias region
    out,         \* the bytes this part of the boot has put on the PL011
    printed      \* worker -> its bytes on the PL011
arm_clock == <<timer, arm_ticks>>
threads == <<arm_tcb, arm_current, arm_active, arm_runnable>>
program == <<demo, pp, mem>>
output == <<out, printed>>
arm_vars == <<cpu, arm_clock, threads, program, output>>

EL0 == [el |-> 0, irq |-> TRUE]

EL1h == [el |-> 1, irq |-> TRUE]

Psr == [el |-> cpu.el, irq |-> cpu.irq]

At(pc) == cpu.el = 1 /\ cpu.pc = pc

Goto(pc) == cpu' = [cpu EXCEPT !.pc = pc]

-----------------------------------------------------------------------------
(* The trap path.  irq_stub and svc_stub save the registers, ELR and SPSR; *)
(* the frame they restore also decides what ELR and SPSR hold afterwards.  *)
SavedFrame == [pc |-> cpu.pc, psr |-> Psr, x |-> cpu.x]

eret_to(f) == [pc |-> f.pc, el |-> f.psr.el, irq |-> f.psr.irq, x |-> f.x,
               elr |-> f.pc, spsr |-> f.psr]

(* schedule: round robin over the workers from the one after current, the  *)
(* boot context when none is runnable.                                     *)
NextThread ==
    LET cand(step) == (arm_current + step) % ARM_THREADS
        ready == {s \in 1..ARM_THREADS : cand(s) # 0 /\ arm_tcb[cand(s)].state = "Runnable"}
    IN  IF ready = {} THEN 0 ELSE cand(CHOOSE s \in ready : \A r \in ready : s <= r)

\* Mutant: the outgoing thread's frame is not recorded.
arm_schedule_NoSave ==
    /\ cpu' = eret_to(arm_tcb[NextThread].frame)
    /\ arm_current' = NextThread /\ UNCHANGED arm_tcb

arm_schedule ==
    LET saved == [arm_tcb EXCEPT ![arm_current].frame = SavedFrame]
    IN  /\ arm_tcb' = saved
        /\ cpu' = eret_to(saved[NextThread].frame)
        /\ arm_current' = NextThread

(* rust_irq_handler: rearm, count, end of interrupt, then schedule or      *)
(* resume.                                                                 *)
rust_irq_handler ==
    /\ timer /\ cpu.irq
    /\ timer' = TRUE
    /\ arm_ticks' = IF arm_ticks < MaxDigit THEN arm_ticks + 1 ELSE arm_ticks
    /\ IF arm_active THEN arm_schedule
       ELSE cpu' = eret_to(SavedFrame) /\ UNCHANGED <<arm_tcb, arm_current>>
    /\ UNCHANGED <<arm_active, arm_runnable, program, output>>

-----------------------------------------------------------------------------
(* kmain: timer on, IRQs unmasked until TARGET_TICKS, masked again.        *)
timer_init ==
    /\ At("boot") /\ timer' = TRUE
    /\ cpu' = [cpu EXCEPT !.pc = "await", !.irq = TRUE]
    /\ UNCHANGED <<arm_ticks, threads, program, output>>

await_ticks ==
    /\ At("await") /\ arm_ticks >= ARM_TICKS
    /\ cpu' = [cpu EXCEPT !.pc = "pingpong", !.irq = FALSE]
    /\ UNCHANGED <<arm_clock, threads, program, output>>

(* The ping-pong: a switch saves its caller's registers on its own stack   *)
(* and resumes the other, the first time at its entry.  B's last returns   *)
(* to main.                                                                *)
switch(to) == pp' = [on |-> to, rounds |-> IF pp.on = "B" THEN pp.rounds + 1 ELSE pp.rounds]

pingpong_starts ==
    /\ At("pingpong") /\ pp.on = "main" /\ pp.rounds = 0 /\ switch("A")
    /\ UNCHANGED <<cpu, demo, mem, arm_clock, threads, output>>

pp_thread_a ==
    /\ At("pingpong") /\ pp.on = "A" /\ switch("B") /\ out' = Append(out, <<"A", 0>>)
    /\ UNCHANGED <<cpu, demo, mem, printed, arm_clock, threads>>

pp_thread_b ==
    /\ At("pingpong") /\ pp.on = "B" /\ out' = Append(out, <<"B", 0>>)
    /\ switch(IF pp.rounds + 1 >= PP_MAX_ROUNDS THEN "main" ELSE "A")
    /\ UNCHANGED <<cpu, demo, mem, printed, arm_clock, threads>>

pingpong_ends ==
    /\ At("pingpong") /\ pp.on = "main" /\ pp.rounds > 0
    /\ Goto("enter") /\ out' = <<>>
    /\ UNCHANGED <<printed, arm_clock, threads, program>>

-----------------------------------------------------------------------------
(* The program at EL0: its code is the bytes it writes by svc, then exit.  *)
Code == IF demo = "el0" THEN [i \in 1..(BYTES + 1) |-> IF i <= BYTES THEN <<"greet", i>> ELSE <<"digit", 0>>]
        ELSE [i \in DOMAIN mem |-> mem[i]]

(* load_aarch64_elf: each segment's bytes, then zeroes to memsz.           *)
load_aarch64_elf ==
    [a \in DOMAIN mem |->
        IF \E s \in Segments : a >= s.va /\ a < s.va + s.memsz
        THEN LET s == CHOOSE s \in Segments : a >= s.va /\ a < s.va + s.memsz
             IN  IF a - s.va < Len(s.file) THEN s.file[a - s.va + 1] ELSE ZERO
        ELSE mem[a]]

run_demo ==
    /\ At("enter")
    /\ Goto("msr_elr")
    /\ mem' = IF demo = "elf" THEN load_aarch64_elf ELSE mem
    /\ UNCHANGED <<demo, pp, arm_clock, threads, output>>

(* enter_el0, instruction by instruction.                                  *)
msr_elr ==
    /\ At("msr_elr") /\ cpu' = [cpu EXCEPT !.pc = "msr_spsr", !.elr = "user"]
    /\ UNCHANGED <<arm_clock, threads, program, output>>

msr_spsr ==
    /\ At("msr_spsr") /\ cpu' = [cpu EXCEPT !.pc = "eret", !.spsr = EL0]
    /\ UNCHANGED <<arm_clock, threads, program, output>>

(* eret; at EL0 a kernel address is an instruction abort, which svc_stub's *)
(* handler answers by parking the core.                                    *)
eret ==
    /\ At("eret")
    /\ cpu' = IF cpu.spsr.el = 0 /\ cpu.elr # "user"
              THEN [cpu EXCEPT !.pc = "parked", !.irq = FALSE]
              ELSE [cpu EXCEPT !.pc = cpu.elr, !.el = cpu.spsr.el, !.irq = cpu.spsr.irq,
                               !.x = IF cpu.spsr.el = 0 THEN 1 ELSE @]
    /\ UNCHANGED <<arm_clock, threads, program, output>>

(* rust_svc_handler: write a byte, or read the ticks and write the digit;  *)
(* exit redirects the eret to el0_return at EL1h with nothing masked.      *)
svc_write ==
    LET byte == IF Code[cpu.x][1] = "digit" THEN <<"digit", arm_ticks>> ELSE Code[cpu.x]
    IN  /\ cpu.el = 0 /\ cpu.x \in DOMAIN Code
        /\ out' = Append(out, byte)
        /\ cpu' = [cpu EXCEPT !.x = @ + 1, !.elr = cpu.pc, !.spsr = Psr]
        /\ UNCHANGED <<printed, arm_clock, threads, program>>

svc_exit ==
    /\ cpu.el = 0 /\ cpu.x \notin DOMAIN Code
    /\ cpu' = eret_to([pc |-> "el0_return", psr |-> EL1h, x |-> 0])
    /\ UNCHANGED <<arm_clock, threads, program, output>>

(* el0_return, back in kmain: the second program, then the preemptive demo.*)
el0_return ==
    /\ At("el0_return") /\ out' = <<>>
    /\ IF demo = "el0" THEN demo' = "elf" /\ Goto("enter") ELSE Goto("run") /\ UNCHANGED demo
    /\ UNCHANGED <<pp, mem, printed, arm_clock, threads>>

-----------------------------------------------------------------------------
(* sched_preempt::run.                                                     *)
init_thread(w) == [pc |-> "work", psr |-> EL1h, x |-> 0]

init_boot ==
    /\ At("run") /\ Goto("spawn") /\ arm_runnable' = 0 /\ arm_current' = 0
    /\ arm_tcb' = [t \in 0..2 |-> [frame |-> SavedFrame, state |-> IF t = 0 THEN "Runnable" ELSE "Free"]]
    /\ UNCHANGED <<arm_active, arm_clock, program, output>>

arm_spawn(w) ==
    /\ At("spawn") /\ arm_tcb[w].state = "Free" /\ \A v \in 1..(w - 1) : arm_tcb[v].state # "Free"
    /\ arm_tcb' = [arm_tcb EXCEPT ![w] = [frame |-> init_thread(w), state |-> "Runnable"]]
    /\ arm_runnable' = arm_runnable + 1
    /\ IF w = 2 THEN Goto("activate") ELSE UNCHANGED cpu
    /\ UNCHANGED <<arm_current, arm_active, arm_clock, program, output>>

activate ==
    /\ At("activate") /\ arm_active' = TRUE
    /\ cpu' = [cpu EXCEPT !.pc = "idle", !.irq = TRUE]
    /\ UNCHANGED <<arm_tcb, arm_current, arm_runnable, arm_clock, program, output>>

(* The boot context leaves its wfi loop once the Scheduler is $Idle.       *)
sched_is_idle ==
    /\ At("idle") /\ arm_runnable = 0
    /\ cpu' = [cpu EXCEPT !.pc = "halt", !.irq = FALSE] /\ arm_active' = FALSE
    /\ UNCHANGED <<arm_tcb, arm_current, arm_runnable, arm_clock, program, output>>

worker ==
    /\ At("work") /\ cpu.x < ROUNDS_PER_WORKER
    /\ printed' = [printed EXCEPT ![arm_current] = @ + 1]
    /\ cpu' = [cpu EXCEPT !.x = @ + 1]
    /\ UNCHANGED <<out, arm_clock, threads, program>>

(* exit_current: masked while it marks itself Dead and unreadies.          *)
\* Mutant: the thread is not marked Dead.
arm_exit_current_Runnable ==
    /\ At("work") /\ cpu.x = ROUNDS_PER_WORKER
    /\ arm_runnable' = arm_runnable - 1
    /\ Goto("park")
    /\ UNCHANGED <<arm_tcb, arm_current, arm_active, arm_clock, program, output>>

arm_exit_current ==
    /\ At("work") /\ cpu.x = ROUNDS_PER_WORKER
    /\ arm_tcb' = [arm_tcb EXCEPT ![arm_current].state = "Dead"]
    /\ arm_runnable' = arm_runnable - 1
    /\ Goto("park")
    /\ UNCHANGED <<arm_current, arm_active, arm_clock, program, output>>

-----------------------------------------------------------------------------
ArmInit ==
    /\ cpu = [pc |-> "boot", el |-> 1, irq |-> FALSE, x |-> 0, elr |-> "boot", spsr |-> EL1h]
    /\ demo = "el0" /\ timer = FALSE /\ arm_ticks = 0
    /\ pp = [on |-> "main", rounds |-> 0]
    /\ arm_tcb = [t \in 0..2 |-> [frame |-> [pc |-> "boot", psr |-> EL1h, x |-> 0], state |-> "Free"]]
    /\ arm_current = 0 /\ arm_active = FALSE /\ arm_runnable = 0
    /\ mem = [a \in 1..MEM |-> <<"junk", 0>>] /\ out = <<>> /\ printed = [w \in ArmWorkers |-> 0]

Instruction ==
    \/ timer_init \/ await_ticks
    \/ pingpong_starts \/ pp_thread_a \/ pp_thread_b \/ pingpong_ends
    \/ run_demo \/ msr_elr \/ msr_spsr \/ eret \/ svc_write \/ svc_exit \/ el0_return
    \/ init_boot \/ (\E w \in ArmWorkers : arm_spawn(w)) \/ activate \/ sched_is_idle
    \/ worker \/ arm_exit_current

ArmNext == rust_irq_handler \/ Instruction
-----------------------------------------------------------------------------
(* Whatever the timer interrupts, each thread finds its registers as it    *)
(* left them: the programs' bytes come out in order, each once, the loaded *)
(* one's as its file has them and zero beyond, A and B alternate, a        *)
(* worker's rounds are the bytes it printed, and run returns only when     *)
(* both have printed them all (irq_stub, svc_stub, schedule, exit_current).*)
Expected ==
    IF demo = "el0" THEN [i \in 1..BYTES |-> <<"greet", i>>] \o << <<"digit", 0>> >>
    ELSE LET s == CHOOSE s \in Segments : TRUE
         IN  s.file \o [i \in 1..(s.memsz - Len(s.file)) |-> ZERO]

RegistersSurvive ==
    /\ cpu.pc \in {"user", "el0_return"} =>
          /\ Len(out) <= Len(Expected)
          /\ \A i \in DOMAIN out : out[i] = Expected[i] \/ (Expected[i][1] = "digit" /\ out[i][1] = "digit")
          /\ cpu.pc = "el0_return" => Len(out) = Len(Expected)
    /\ cpu.pc = "pingpong" => \A i \in DOMAIN out : out[i][1] = IF i % 2 = 1 THEN "A" ELSE "B"
    /\ arm_active => \A w \in ArmWorkers :
          printed[w] = IF arm_current = w THEN cpu.x ELSE arm_tcb[w].frame.x
    /\ cpu.pc = "halt" => \A w \in ArmWorkers : printed[w] = ROUNDS_PER_WORKER

(* The preemptive demo ends: the boot context is resumed and halts after   *)
(* both workers exited, though they never yield (run, schedule, the timer).*)
PreemptReturns == (cpu.pc = "run") ~> (cpu.pc = "halt")

(* Each program is entered at its entry point: the eret of enter_el0 never *)
(* lands anywhere else ("the CPU transitions to EL0 at `entry`").          *)
EntersAtEntry == At("eret") => cpu.elr = "user" /\ cpu.spsr = EL0
=============================================================================
