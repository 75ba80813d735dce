--------------------------- MODULE SyscallDispatch ---------------------------
(***************************************************************************)
(* The syscall path: syscall_dispatch of usermode.rs around the one shared *)
(* SyscallDispatcher, perform_syscall, and the PENDING_ globals by which a *)
(* call that may block is put off until the dispatcher has settled.        *)
(*                                                                         *)
(* A syscall runs with interrupts off, except while it is parked: in one   *)
(* of the deferred loops, or in a disk read.  Any other process may run    *)
(* then.  What a call computes is abstracted to whose call it answers.     *)
(***************************************************************************)
EXTENDS Integers, Sequences

CONSTANTS
    Callers,
    Calls     \* the kinds of call programs make

ASSUME CallersAssumption == Callers \subseteq Nat \ {0}

VARIABLES
    CURRENT,             \* the process on the core
    irq_on,              \* RFLAGS.IF of the running context
    pc,                  \* where each process is
    at,                  \* the deferred operation it is to look at next
    call,                \* the kind of call it is in, with its number
    rax,                 \* the result in its trap frame
    args,                \* whose trap frame its handler read arguments from
    image,               \* whose exec last replaced its registers
    dstate,              \* the dispatcher: "Validating" or "Executing"
    result,              \* the dispatcher's result
    CURRENT_TRAP_FRAME,  \* whose frame the global points at, 0 for null
    PENDING              \* per deferred operation: who asked for it, 0 for none

proc_vars == <<pc, at, call, rax, args, image>>
dispatch_vars == <<CURRENT, irq_on, proc_vars, dstate, result, CURRENT_TRAP_FRAME, PENDING>>

(* What syscall_dispatch looks at after the dispatcher, in this order: the *)
(* PENDING_ globals and, before the last, the caller's signals.            *)
Order == <<"exec", "wait", "read_line", "pipe_read", "signal", "exit">>
Deferred == {"exec", "wait", "read_line", "pipe_read", "exit"}

(* inline: a call that perform_syscall finishes at once, fork and pipe     *)
(* included; file: open, read, write, stat and the other calls that reach  *)
(* the file system, where a block not in the cache is a disk read.         *)
Kinds == Deferred \cup {"inline", "file", "unknown", "sigreturn"}

ASSUME CallsAssumption == Calls \subseteq Kinds

ENOSYS == <<0, "ENOSYS">>

DispatchInit ==
    /\ CURRENT \in Callers
    /\ irq_on = TRUE
    /\ pc = [p \in Callers |-> "user"]
    /\ at = [p \in Callers |-> 1]
    /\ call = [p \in Callers |-> "inline"]
    /\ rax = [p \in Callers |-> ENOSYS]
    /\ args = [p \in Callers |-> p]
    /\ image = [p \in Callers |-> p]
    /\ dstate = "Validating"
    /\ result = ENOSYS
    /\ CURRENT_TRAP_FRAME = 0
    /\ PENDING = [d \in Deferred |-> 0]

(* The timer: some other process, or the same one.                         *)
schedule ==
    /\ irq_on
    /\ \E p \in Callers : pc[p] # "dead" /\ CURRENT' = p
    /\ UNCHANGED <<irq_on, proc_vars, dstate, result, CURRENT_TRAP_FRAME, PENDING>>

-----------------------------------------------------------------------------
(* The dispatcher.                                                         *)

(* $Validating.request: a known number goes to $Executing, an unknown one  *)
(* is rejected by $Active.  In $Executing a request has no handler.        *)
request(p, c) ==
    \/ /\ dstate = "Validating" /\ c # "unknown"
       /\ dstate' = "Executing"
       /\ pc' = [pc EXCEPT ![p] = "perform"]
       /\ UNCHANGED result
    \/ /\ dstate = "Validating" /\ c = "unknown"
       /\ result' = ENOSYS
       /\ pc' = [pc EXCEPT ![p] = "settle"]
       /\ UNCHANGED dstate
    \/ /\ dstate = "Executing"
       /\ pc' = [pc EXCEPT ![p] = "settle"]
       /\ UNCHANGED <<dstate, result>>

(* The end of $Executing's enter handler.                                  *)
Executed(p, r) ==
    /\ result' = r
    /\ dstate' = "Validating"
    /\ pc' = [pc EXCEPT ![p] = "settle"]

-----------------------------------------------------------------------------
(* syscall_dispatch.                                                       *)

(* Entry: the frame goes to the global, sigreturn past the dispatcher.     *)
syscall_dispatch(p, c) ==
    /\ CURRENT = p /\ pc[p] = "user"
    /\ CURRENT_TRAP_FRAME' = p
    /\ call' = [call EXCEPT ![p] = c]
    /\ IF c = "sigreturn"
       THEN UNCHANGED <<irq_on, pc, dstate, result>>
       ELSE irq_on' = FALSE /\ request(p, c)
    /\ at' = [at EXCEPT ![p] = 1]
    /\ UNCHANGED <<CURRENT, rax, args, image, PENDING>>

(* Mutant: exit leaves from inside the handler.                            *)
perform_syscall_ExitsInside(p) ==
    /\ CURRENT = p /\ pc[p] = "perform"
    /\ args' = [args EXCEPT ![p] = CURRENT_TRAP_FRAME]
    /\ \/ /\ call[p] \in Deferred \ {"exit"}
          /\ PENDING' = [PENDING EXCEPT ![call[p]] = p]
          /\ Executed(p, <<p, "deferred">>)
          /\ UNCHANGED irq_on
       \/ /\ call[p] = "exit"
          /\ pc' = [pc EXCEPT ![p] = "dead"]
          /\ irq_on' = TRUE
          /\ UNCHANGED <<dstate, result, PENDING>>
       \/ /\ call[p] \in {"inline", "file"}
          /\ Executed(p, <<p, call[p]>>)
          /\ UNCHANGED <<irq_on, PENDING>>
    /\ UNCHANGED <<CURRENT, at, call, rax, image, CURRENT_TRAP_FRAME>>

(* perform_syscall, run by $Executing's enter handler.  The arguments past *)
(* the second, and the registers fork copies, come from the global frame.  *)
(* A deferred call is only recorded; a file call may park on a disk read.  *)
perform_syscall(p) ==
    /\ CURRENT = p /\ pc[p] = "perform"
    /\ args' = [args EXCEPT ![p] = CURRENT_TRAP_FRAME]
    /\ \/ /\ call[p] \in Deferred
          /\ PENDING' = [PENDING EXCEPT ![call[p]] = p]
          /\ Executed(p, <<p, "deferred">>)
          /\ UNCHANGED irq_on
       \/ /\ call[p] \in {"inline", "file"}
          /\ Executed(p, <<p, call[p]>>)
          /\ UNCHANGED <<irq_on, PENDING>>
       \/ /\ call[p] = "file"
          /\ irq_on' = TRUE
          /\ pc' = [pc EXCEPT ![p] = "disk"]
          /\ UNCHANGED <<dstate, result, PENDING>>
    /\ UNCHANGED <<CURRENT, at, call, rax, image, CURRENT_TRAP_FRAME>>

(* The disk read is over: interrupts off, and the handler ends, or parks   *)
(* again on its next block.                                                *)
DiskDone(p) ==
    /\ CURRENT = p /\ pc[p] = "disk"
    /\ irq_on' = FALSE
    /\ Executed(p, <<p, call[p]>>)
    /\ UNCHANGED <<CURRENT, at, call, rax, args, image, CURRENT_TRAP_FRAME, PENDING>>

(* f.rax = d.result().                                                     *)
TakeResult(p) ==
    /\ CURRENT = p /\ pc[p] = "settle"
    /\ rax' = [rax EXCEPT ![p] = result]
    /\ pc' = [pc EXCEPT ![p] = "defer"]
    /\ UNCHANGED <<CURRENT, irq_on, at, call, args, image, dstate, result,
                   CURRENT_TRAP_FRAME, PENDING>>

(* Nothing of this kind is pending: on to the next, or back to user mode.  *)
NothingPending(p) ==
    /\ CURRENT = p /\ pc[p] = "defer" /\ Order[at[p]] \in Deferred
    /\ PENDING[Order[at[p]]] = 0
    /\ IF at[p] = Len(Order)
       THEN /\ pc' = [pc EXCEPT ![p] = "user"] /\ irq_on' = TRUE
            /\ UNCHANGED at
       ELSE /\ at' = [at EXCEPT ![p] = @ + 1]
            /\ UNCHANGED <<pc, irq_on>>
    /\ UNCHANGED <<CURRENT, call, rax, args, image, dstate, result,
                   CURRENT_TRAP_FRAME, PENDING>>

(* Mutant: the request is not taken back before it is served.              *)
HonorPending_KeepsFlag(p) ==
    LET d == Order[at[p]] IN
    /\ CURRENT = p /\ pc[p] = "defer" /\ d \in Deferred
    /\ PENDING[d] # 0
    /\ irq_on' = TRUE
    /\ pc' = [pc EXCEPT ![p] = IF d = "exit" THEN "dead" ELSE d]
    /\ UNCHANGED <<CURRENT, at, call, rax, args, image, dstate, result,
                   CURRENT_TRAP_FRAME, PENDING>>

(* A request is taken back and served: exit never returns, the others park *)
(* until the disk, a child, a line or the pipe's writer lets them go on.   *)
HonorPending(p) ==
    LET d == Order[at[p]] IN
    /\ CURRENT = p /\ pc[p] = "defer" /\ d \in Deferred
    /\ PENDING[d] # 0
    /\ PENDING' = [PENDING EXCEPT ![d] = 0]
    /\ irq_on' = TRUE
    /\ pc' = [pc EXCEPT ![p] = IF d = "exit" THEN "dead" ELSE d]
    /\ UNCHANGED <<CURRENT, at, call, rax, args, image, dstate, result,
                   CURRENT_TRAP_FRAME>>

(* It is served, interrupts off again: the answer, and exec's registers,   *)
(* go to the caller's own frame; then the next of the globals.             *)
Served(p) ==
    /\ CURRENT = p /\ pc[p] \in Deferred
    /\ irq_on' = FALSE
    /\ rax' = [rax EXCEPT ![p] = <<p, pc[p]>>]
    /\ image' = IF pc[p] = "exec" THEN [image EXCEPT ![p] = p] ELSE image
    /\ pc' = [pc EXCEPT ![p] = "defer"]
    /\ at' = [at EXCEPT ![p] = @ + 1]
    /\ UNCHANGED <<CURRENT, call, args, dstate, result, CURRENT_TRAP_FRAME, PENDING>>

(* maybe_deliver_signal: on to the exit, or death by a default action, or  *)
(* a stop, from which the process comes back to look again.                *)
maybe_deliver_signal(p) ==
    /\ CURRENT = p
    /\ \/ /\ pc[p] = "defer" /\ Order[at[p]] = "signal"
          /\ \/ at' = [at EXCEPT ![p] = @ + 1] /\ UNCHANGED <<pc, irq_on>>
             \/ /\ \E next \in {"dead", "stopped"} : pc' = [pc EXCEPT ![p] = next]
                /\ irq_on' = TRUE
                /\ UNCHANGED at
       \/ /\ pc[p] = "stopped"
          /\ pc' = [pc EXCEPT ![p] = "defer"]
          /\ irq_on' = FALSE
          /\ UNCHANGED at
    /\ UNCHANGED <<CURRENT, call, rax, args, image, dstate, result,
                   CURRENT_TRAP_FRAME, PENDING>>

-----------------------------------------------------------------------------

DispatchNext ==
    \/ schedule
    \/ \E p \in Callers :
          \/ \E c \in Calls : syscall_dispatch(p, c)
          \/ perform_syscall(p)
          \/ DiskDone(p)
          \/ TakeResult(p)
          \/ NothingPending(p)
          \/ HonorPending(p)
          \/ Served(p)
          \/ maybe_deliver_signal(p)

DispatchSpec == DispatchInit /\ [][DispatchNext]_dispatch_vars

-----------------------------------------------------------------------------

Results == {ENOSYS} \cup (Callers \X (Kinds \cup {"deferred"}))

DispatchTypeOK ==
    /\ CURRENT \in Callers
    /\ irq_on \in BOOLEAN
    /\ pc \in [Callers -> {"user", "perform", "disk", "settle", "defer", "stopped",
                       "dead"} \cup Deferred]
    /\ at \in [Callers -> 1 .. Len(Order)]
    /\ call \in [Callers -> Kinds]
    /\ rax \in [Callers -> Results]
    /\ args \in [Callers -> Callers]
    /\ image \in [Callers -> Callers]
    /\ dstate \in {"Validating", "Executing"}
    /\ result \in Results
    /\ CURRENT_TRAP_FRAME \in Callers \cup {0}
    /\ PENDING \in [Deferred -> Callers \cup {0}]

(* The shared dispatcher is in $Executing exactly while one process is in  *)
(* the handler, and no second one ever is: nobody blocks for ever, or      *)
(* leaves, with the machine stuck mid-transition.                          *)
OneInHandler ==
    LET inside == {p \in Callers : pc[p] \in {"perform", "disk"}} IN
    /\ dstate = "Executing" <=> inside # {}
    /\ \A p, q \in inside : p = q

(* The single global trap-frame pointer never mixes two processes up:      *)
(* arguments are read from, and exec's registers written to, the caller's  *)
(* own frame, although other syscalls move the pointer during a park.      *)
FramesAreOwn == \A p \in Callers : args[p] = p /\ image[p] = p

DeferStep ==
    \A p \in Callers :
        pc[p] = "defer" /\ pc'[p] \in Deferred => PENDING[pc'[p]] = p

(* A deferred exec, wait, read_line or pipe read is carried out by the     *)
(* process that asked for it.  (Not exit, which is taken up after the      *)
(* signals: a process they stop or kill leaves its request to another.)    *)
DeferredIsOwn == [][DeferStep]_dispatch_vars

ReturnStep ==
    \A p \in Callers :
        pc[p] = "defer" /\ pc'[p] = "user" /\ call[p] # "exit" =>
            rax[p] = IF call[p] = "unknown" THEN ENOSYS ELSE <<p, call[p]>>

(* Every call is validated and performed, and returns its own result.      *)
ResultIsOwn == [][ReturnStep]_dispatch_vars

(* What the dispatcher shares between processes, its machine and the       *)
(* trap-frame pointer, is never found by one process as another left it.   *)
DispatchSound == DispatchTypeOK /\ OneInHandler /\ FramesAreOwn
=============================================================================
