------------------------------ MODULE MCKernel ------------------------------
(***************************************************************************)
(* The kernel's bookkeeping, in parts that do not meet: the syscall        *)
(* dispatcher, the descriptor tables, the process table, the disk slots'   *)
(* supervisor, the pages of the address spaces, the C library's heap, and  *)
(* what the cores share while they start.  A behaviour is of one part; the *)
(* others keep their initial state.                                        *)
(***************************************************************************)
EXTENDS SyscallDispatch, FdTable, ProcessTable, IoScheduler, Memory, Heap, Smp, TLC

CONSTANT Parts
VARIABLE part
tables == <<fd_vars, table_vars, io_vars>>
own == <<mm_vars, heap_vars, smp_vars>>
all_vars == <<part, dispatch_vars, tables, own>>

MCCallers == 1 .. 2
MCPids == 1 .. 4
MCCodes == {0, 7}
AllCalls == Kinds
MCExecs == {[img |-> "sh", argv |-> "argv"], [img |-> "corrupt", argv |-> None]}
SlotSymmetry == Permutations(FdSlots)

Init ==
    /\ part \in Parts
    /\ DispatchInit /\ FdInit /\ TableInit /\ IoInit /\ MmInit /\ HeapInit /\ SmpInit
    /\ part # "dispatch" => CURRENT = 1
    /\ part # "memory" => ram.used = (Min(Usable) + 1) .. NFRAMES

\* A wait nobody ends, a halted kernel or one with nothing to run, a heap that
\* is used up, and a boot that has got past the other cores or spins for a
\* place in the post queue (run bringup_hang).
Rests ==
    /\ \/ part \in {"dispatch", "heap"}
       \/ part = "memory" /\ (halted \/ running = 0)
       \/ part = "smp" /\ (core_pc[0] = "done" \/ (core_pc[0] = "post" /\ ~push_fits))
    /\ UNCHANGED all_vars

Next ==
    \/ /\ UNCHANGED part
       /\ \/ /\ part = "dispatch" /\ DispatchNext
             /\ UNCHANGED <<tables, own>>
          \/ /\ part = "fds" /\ FdNext
             /\ UNCHANGED <<table_vars, io_vars, dispatch_vars, own>>
          \/ /\ part = "table" /\ TableNext
             /\ UNCHANGED <<fd_vars, io_vars, dispatch_vars, own>>
          \/ /\ part = "slots" /\ IoNext
             /\ UNCHANGED <<fd_vars, table_vars, dispatch_vars, own>>
          \/ part = "memory" /\ MmNext /\ UNCHANGED <<dispatch_vars, tables, heap_vars, smp_vars>>
          \/ part = "heap" /\ HeapNext /\ UNCHANGED <<dispatch_vars, tables, mm_vars, smp_vars>>
          \/ part = "smp" /\ SmpNext /\ UNCHANGED <<dispatch_vars, tables, mm_vars, heap_vars>>
    \/ Rests

Spec == Init /\ [][Next]_all_vars
=============================================================================
