----------------------------- MODULE MCProgress -----------------------------
(***************************************************************************)
(* What must eventually happen: a disk request and a pipe read return, a   *)
(* pipeline gets the shell back to its prompt, the boot gets past USB and  *)
(* past the other cores, and the AArch64 demos end.  A behaviour is of one *)
(* part; the others keep their initial state.                              *)
(***************************************************************************)
EXTENDS Pipe, ShellPipeline, Usb, Smp, PcSched, Aarch64, DiskIO

CONSTANT Parts
VARIABLE part
io == <<pipe_vars, pl_vars, usb_vars, disk_vars>>
cores == <<smp_vars, pcs_vars, arm_vars>>
all_vars == <<part, io, cores>>

TwoPids == 1 .. 2
MCShells == {<<"hosted", 2>>, <<"hosted", 3>>, <<"ring3", 2>>}
MCAttached == <<"msd">>
MCSegments == {[va |-> 1, file |-> << <<"file", 1>>, <<"file", 2>> >>, memsz |-> 3]}

Init ==
    /\ part \in Parts
    /\ PipeInit /\ PipelineInit /\ UsbInit /\ SmpInit /\ PcsInit /\ ArmInit /\ DiskInit
    /\ part # "pipeline" => shell = "ring3"
    /\ part # "usb" => pages = CHOOSE k \in PageCounts : TRUE

\* A pipeline, a boot and the demos come to an end.
Rests ==
    /\ \/ part = "pipeline" /\ shell_at = "prompt"
       \/ part = "usb" /\ at = "done"
       \/ part = "smp" /\ core_pc[0] = "done"
       \/ part = "pcsched" /\ done
       \/ part = "arm" /\ cpu.pc \in {"halt", "parked"}
    /\ UNCHANGED <<io, cores>>

Next ==
    /\ UNCHANGED part
    /\ \/ part = "pipe" /\ PipeNext /\ UNCHANGED <<pl_vars, usb_vars, disk_vars, cores>>
       \/ part = "pipeline" /\ PipelineNext /\ UNCHANGED <<pipe_vars, usb_vars, disk_vars, cores>>
       \/ part = "usb" /\ UsbNext /\ UNCHANGED <<pipe_vars, pl_vars, disk_vars, cores>>
       \/ part = "disk" /\ DiskNext /\ UNCHANGED <<pipe_vars, pl_vars, usb_vars, cores>>
       \/ part = "smp" /\ SmpNext /\ UNCHANGED <<io, pcs_vars, arm_vars>>
       \/ part = "pcsched" /\ PcsNext /\ UNCHANGED <<io, smp_vars, arm_vars>>
       \/ part = "arm" /\ ArmNext /\ UNCHANGED <<io, smp_vars, pcs_vars>>
       \/ Rests

-----------------------------------------------------------------------------
(* Fairness.  Each condition is about one part, since the others never     *)
(* leave their initial state.                                              *)

(* The device answers every request.  A pending interrupt is taken as soon *)
(* as IF is set, so it cannot be enabled for ever and never taken however  *)
(* often syscalls mask it, and so is a timer tick; a scheduled process     *)
(* executes between ticks.  With one slot every other process's request is *)
(* a wait, so nothing is assumed of how many requests a syscall makes.     *)
DiskFair ==
    /\ \A s \in Slots : WF_disk_vars(part = "disk" /\ DeviceComplete(s))
    /\ SF_disk_vars(part = "disk" /\ on_irq)
    /\ SF_disk_vars(part = "disk" /\ schedule)
    /\ \A p \in Pids : SF_disk_vars(part = "disk" /\ Continue(p))

(* The shell and the stages run; a stage need not leave early.             *)
PipelineFair ==
    /\ WF_pl_vars(part = "pipeline" /\ PipelineShell)
    /\ \A s \in AllStages : WF_pl_vars(part = "pipeline" /\ StageRuns(s))

(* The driver is kmain's thread: it is never starved, and the timer that   *)
(* ends its waits keeps ticking.  The controller owes nothing.             *)
UsbFair == WF_usb_vars(part = "usb" /\ Driver)

(* Every core executes its program, and takes its ticks and interrupts.    *)
SmpFair ==
    /\ WF_smp_vars(part = "smp" /\ (Bsp \/ Core(0)))
    /\ \A c \in Aps :
          /\ WF_smp_vars(part = "smp" /\ (Ap(c) \/ Core(c)))
          /\ WF_smp_vars(part = "smp" /\ (record_tick(c) \/ tlb_shootdown_irq(c)))

PcsFair ==
    /\ WF_pcs_vars(part = "pcsched" /\ PcsThread)
    /\ WF_pcs_vars(part = "pcsched" /\ pc_schedule)

(* The core executes, and the armed timer fires while IRQs are unmasked.   *)
ArmFair ==
    /\ WF_arm_vars(part = "arm" /\ rust_irq_handler)
    /\ WF_arm_vars(part = "arm" /\ Instruction)

Spec ==
    /\ Init /\ [][Next]_all_vars
    /\ PipeFair /\ PipelineFair /\ UsbFair /\ SmpFair /\ PcsFair /\ ArmFair /\ DiskFair

-----------------------------------------------------------------------------

(* A command line that starts a pipeline gets back to the prompt.          *)
ShellReturns == part = "pipeline" => <>PipelineReturned

(* The boot gets past the other cores.  crosscore.rs says of a core that   *)
(* posts: "Spins if the ring is momentarily full (the owner core drains    *)
(* concurrently)."  The owner posts first and drains afterwards, so with   *)
(* more posts than places it may be the one that spins.                    *)
BringUpEnds == part = "smp" => <>BringUpEnded

(* What was begun ends: a pipeline whose stages all start, or not even the *)
(* first, gives the shell its prompt back; the boot gets past USB whatever *)
(* the devices answer and when, and past the other cores when the post     *)
(* queue has room for the posts of all of them; and each of those retires  *)
(* its workers.                                                            *)
EverythingEnds ==
    part \in {"pipeline", "usb", "smp", "pcsched"} =>
        <>(\/ part = "pipeline" /\ PipelineReturned
           \/ part = "usb" /\ UsbEnded
           \/ part = "smp" /\ BringUpEnded
           \/ part = "pcsched" /\ WorkersRetired)
=============================================================================
