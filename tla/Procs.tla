-------------------------------- MODULE Procs --------------------------------
(***************************************************************************)
(* Processes: the TCB table and round-robin of sched.rs, the Frame         *)
(* Scheduler, fork, exit, wait, reaping and signals (sched.rs and          *)
(* usermode.rs), over the ProcessTable.                                    *)
(*                                                                         *)
(* One core.  A syscall runs with interrupts off from its entry to its     *)
(* return, except where it parks with sti;hlt: in block_current_until, in  *)
(* stop_current_and_wait and in the console read.  Each action is one      *)
(* stretch that no interrupt can split.                                    *)
(***************************************************************************)
EXTENDS ProcessTable

CONSTANTS
    MAX_THREADS,
    Calls,    \* the syscalls programs make
    Signals   \* the signals sent by programs and the console

ASSUME ThreadsAssumption ==
    /\ MAX_THREADS \in Nat /\ MAX_THREADS > 2
    /\ Signals \subseteq 1 .. 31

VARIABLES
    N,              \* TCB slots in use, boot's included: the high-water mark
    CURRENT,        \* the slot on the core, 0 for boot
    irq_on,         \* RFLAGS.IF of the running context
    state,          \* per slot: RunState
    pid,            \* per slot: its process, 0 for none
    parent_pid,     \* per slot
    sig_pending,    \* per slot: set of signals
    sig_blocked,    \* per slot: set of signals
    sig_handlers,   \* per slot: disposition of each signal
    sig_restorer,   \* per slot: a restorer is registered
    sched_state,    \* the Frame Scheduler: "Idle" or "Active"
    runnable,       \* the Frame Scheduler's count
    PENDING_EXIT,   \* the code of an exit syscall, -1 for none
    pc,             \* per slot: where the process is
    arg,            \* per slot: wait's target, or the trampoline's status
    boot            \* where run_one is, and the pid it runs

sig_vars == <<sig_pending, sig_blocked, sig_handlers, sig_restorer>>
id_vars == <<N, pid, parent_pid>>
fsm_vars == <<sched_state, runnable>>
procs_vars == <<table_vars, id_vars, CURRENT, irq_on, state, sig_vars, fsm_vars,
          PENDING_EXIT, pc, arg, boot>>

(* The slots alloc_slot can hand out: slot n uses kernel stack n + 1.      *)
Threads == 1 .. MAX_THREADS - 2

SIGINT == 2
SIGKILL == 9
SIGCHLD == 17
SIGCONT == 18
SIGSTOP == 19
SIGTSTP == 20

AllSignals == Signals \cup {SIGCHLD}

NoHandlers == [g \in AllSignals |-> "SIG_DFL"]

ProcsInit ==
    /\ TableInit
    /\ N = 1
    /\ CURRENT = 0
    /\ irq_on = TRUE
    /\ state = [s \in Threads |-> "Free"]
    /\ pid = [s \in Threads |-> 0]
    /\ parent_pid = [s \in Threads |-> 0]
    /\ sig_pending = [s \in Threads |-> {}]
    /\ sig_blocked = [s \in Threads |-> {}]
    /\ sig_handlers = [s \in Threads |-> NoHandlers]
    /\ sig_restorer = [s \in Threads |-> FALSE]
    /\ sched_state = "Idle"
    /\ runnable = 0
    /\ PENDING_EXIT = -1
    /\ pc = [s \in Threads |-> "user"]
    /\ arg = [s \in Threads |-> 0]
    /\ boot = [at |-> "start", pid |-> 0]

-----------------------------------------------------------------------------
(* The Frame Scheduler.                                                    *)

task_ready ==
    /\ runnable' = runnable + 1
    /\ sched_state' = "Active"

task_unready ==
    /\ runnable' = IF sched_state = "Active" THEN runnable - 1 ELSE runnable
    /\ sched_state' = IF sched_state = "Active" /\ runnable' = 0 THEN "Idle" ELSE sched_state

-----------------------------------------------------------------------------
(* Looking at the TCB table.                                               *)

Alive(s) == state[s] \in {"Runnable", "Blocked", "Stopped"}

Matches(s, target) == target = 0 \/ pid[s] = target

(* The children of me that the table still tracks.                         *)
Children(me, target) ==
    {s \in 1 .. N - 1 : parent_pid[s] = me /\ state[s] # "Free" /\ Matches(s, target)}

child_reapable(me, target) == \E s \in Children(me, target) : state[s] = "Dead"

child_stopped(me, target) == \E s \in Children(me, target) : state[s] = "Stopped"

(* has_children for target 0, has_child otherwise.                         *)
exists(me, target) == Children(me, target) # {}

Lowest(S) == CHOOSE x \in S : \A y \in S : x <= y

slot_of_pid(p) == {s \in 1 .. N - 1 : pid[s] = p /\ state[s] # "Free"}

(* The lowest reaped slot, or a new one; {} where alloc_slot asserts.      *)
alloc_slot ==
    LET freed == {s \in 1 .. N - 1 : state[s] = "Free"} IN
    IF freed # {} THEN {Lowest(freed)}
    ELSE IF N + 1 < MAX_THREADS THEN {N}
    ELSE {}

(* Round-robin over the workers after the current one, which comes last;   *)
(* boot when none is runnable.  st is the run state of each slot.          *)
RoundRobin(st) ==
    LET nth(k) == (CURRENT + k) % N
        Ready == {k \in 1 .. N : nth(k) # 0 /\ st[nth(k)] = "Runnable"}
    IN  IF Ready = {} THEN 0 ELSE nth(Lowest(Ready))

-----------------------------------------------------------------------------
(* Signals.                                                                *)

(* send_signal to slot s: the pending bit, and what becomes of the target: *)
(* a blocked one is woken, a stopped one resumed by SIGCONT and SIGKILL.   *)
Pend(s, sig, pending) == [pending EXCEPT ![s] = @ \cup {sig}]

(* Mutant: any signal resumes a stopped process.                           *)
Prod_AnySignal(s, sig, st) ==
    IF st[s] \in {"Blocked", "Stopped"} THEN [st EXCEPT ![s] = "Runnable"] ELSE st

Prod(s, sig, st) ==
    IF \/ st[s] = "Blocked"
       \/ st[s] = "Stopped" /\ sig \in {SIGCONT, SIGKILL}
    THEN [st EXCEPT ![s] = "Runnable"]
    ELSE st

(* What maybe_deliver_signal and deliver_on_preempt do with a signal.      *)
Disposition(s, sig) ==
    CASE sig_handlers[s][sig] = "SIG_IGN" -> "ignore"
      [] sig_handlers[s][sig] = "handler" /\ sig_restorer[s] -> "handle"
      [] OTHER -> CASE sig \in {SIGCHLD, SIGCONT} -> "ignore"
                    [] sig \in {SIGSTOP, SIGTSTP} -> "stop"
                    [] OTHER -> "terminate"

(* Mutant: the mask is not consulted.                                      *)
Deliverable_Unmasked(s) == sig_pending[s]

Deliverable(s) == sig_pending[s] \ sig_blocked[s]

(* Both loops take the deliverable signals in increasing order, drop the   *)
(* ignored ones and act on the first that is not.                          *)
Effective(s) == {g \in Deliverable(s) : Disposition(s, g) # "ignore"}

Taken(s) ==
    IF Effective(s) = {} THEN Deliverable(s)
    ELSE {g \in Deliverable(s) : g <= Lowest(Effective(s))}

Outcome(s) ==
    IF Effective(s) = {} THEN "none" ELSE Disposition(s, Lowest(Effective(s)))

AfterTaking(s) == [sig_pending EXCEPT ![s] = @ \ Taken(s)]

(* A stop: SIGCHLD to the parent, then Stopped.  These are the two         *)
(* functions it leaves behind.                                             *)
StopPending(s) ==
    LET P == slot_of_pid(parent_pid[s]) IN
    IF parent_pid[s] # 0 /\ P # {}
    THEN Pend(Lowest(P), SIGCHLD, AfterTaking(s))
    ELSE AfterTaking(s)

(* Mutant: the parent is not told.                                         *)
StopState_Silent(s) == [state EXCEPT ![s] = "Stopped"]

StopState(s) ==
    LET P == slot_of_pid(parent_pid[s]) IN
    [(IF parent_pid[s] # 0 /\ P # {} THEN Prod(Lowest(P), SIGCHLD, state) ELSE state)
        EXCEPT ![s] = "Stopped"]

(* Mutant: no delivery on preemption.                                      *)
schedule_NoDelivery ==
    /\ irq_on
    /\ boot.at = "run"
    /\ CURRENT' = RoundRobin(state)
    /\ UNCHANGED <<table_vars, id_vars, irq_on, state, sig_vars, fsm_vars,
                   PENDING_EXIT, pc, arg, boot>>

(* The timer: deliver to a process preempted in ring 3, then round-robin.  *)
(* A terminate sends the process to the exit trampoline.                   *)
schedule ==
    LET s == CURRENT
        in_user == s # 0 /\ pc[s] \in {"user", "tramp"} /\ Deliverable(s) # {}
        outcome == IF in_user THEN Outcome(s) ELSE "none"
    IN
    /\ irq_on
    /\ boot.at = "run"
    /\ sig_pending' = CASE outcome = "stop" -> StopPending(s)
                        [] in_user /\ outcome # "stop" -> AfterTaking(s)
                        [] OTHER -> sig_pending
    /\ state' = IF outcome = "stop" THEN StopState(s) ELSE state
    /\ pc' = IF outcome = "terminate" THEN [pc EXCEPT ![s] = "tramp"] ELSE pc
    /\ arg' = IF outcome = "terminate"
              THEN [arg EXCEPT ![s] = 128 + Lowest(Effective(s))]
              ELSE arg
    /\ CURRENT' = RoundRobin(state')
    /\ UNCHANGED <<table_vars, id_vars, irq_on, sig_blocked, sig_handlers,
                   sig_restorer, fsm_vars, PENDING_EXIT, boot>>

(* Ctrl-C and Ctrl-Z: the serial interrupt signals the foreground process, *)
(* which a program may have set to any pid.                                *)
ConsoleSignal(sig) ==
    /\ irq_on
    /\ sig \in Signals \cap {SIGINT, SIGTSTP}
    /\ \E s \in 1 .. N - 1 :
          /\ state[s] # "Free"
          /\ sig_pending' = Pend(s, sig, sig_pending)
          /\ state' = Prod(s, sig, state)
    /\ UNCHANGED <<table_vars, id_vars, CURRENT, irq_on, sig_blocked, sig_handlers,
                   sig_restorer, fsm_vars, PENDING_EXIT, pc, arg, boot>>

-----------------------------------------------------------------------------
(* Leaving.                                                                *)

(* Mutant: a tick between the two halves loses task_unready.               *)
exit_current_NoUnready(s) ==
    /\ state' = [t \in Threads |->
          CASE t = s -> "Dead"
            [] t # s /\ parent_pid[s] # 0 /\ pid[t] = parent_pid[s] /\ state[t] = "Blocked"
                 -> "Runnable"
            [] OTHER -> state[t]]
    /\ UNCHANGED fsm_vars
    /\ irq_on' = TRUE
    /\ pc' = [pc EXCEPT ![s] = "dead"]
    /\ arg' = [arg EXCEPT ![s] = 0]

(* exit_current: Dead, one task fewer and a blocked parent woken, in one   *)
(* critical section; then the process halts with interrupts on.            *)
exit_current(s) ==
    /\ state' = [t \in Threads |->
          CASE t = s -> "Dead"
            [] t # s /\ parent_pid[s] # 0 /\ pid[t] = parent_pid[s] /\ state[t] = "Blocked"
                 -> "Runnable"
            [] OTHER -> state[t]]
    /\ task_unready
    /\ irq_on' = TRUE
    /\ pc' = [pc EXCEPT ![s] = "dead"]
    /\ arg' = [arg EXCEPT ![s] = 0]

do_exit(s, code) ==
    /\ exit_pid(pid[s], code)
    /\ exit_current(s)

(* Mutant: the thread dies and its Process does not.                       *)
kill_current_user_process_ThreadOnly(s) ==
    /\ CURRENT = s /\ pc[s] = "user"
    /\ exit_current(s)
    /\ UNCHANGED <<table_vars, id_vars, CURRENT, sig_vars, PENDING_EXIT, boot>>

(* The page-fault handler kills a process that faults in user mode.        *)
kill_current_user_process(s) ==
    /\ CURRENT = s /\ pc[s] = "user"
    /\ kill_pid(pid[s])
    /\ exit_current(s)
    /\ UNCHANGED <<id_vars, CURRENT, sig_vars, PENDING_EXIT, boot>>

(* The end of syscall_dispatch: an exit is honoured, whoever asked for it. *)
ReturnOrExit(s) ==
    \/ /\ PENDING_EXIT >= 0
       /\ PENDING_EXIT' = -1
       /\ do_exit(s, PENDING_EXIT)
    \/ /\ PENDING_EXIT < 0
       /\ irq_on' = TRUE
       /\ pc' = [pc EXCEPT ![s] = "user"]
       /\ arg' = [arg EXCEPT ![s] = 0]
       /\ UNCHANGED <<table_vars, state, fsm_vars, PENDING_EXIT>>

(* The syscall-return boundary: maybe_deliver_signal, then ReturnOrExit.   *)
(* A stop parks here and comes back to look again.                         *)
Boundary(s) ==
    /\ CURRENT = s /\ pc[s] \in {"boundary", "exiting"}
    /\ \/ /\ Outcome(s) \in {"none", "handle"}
          /\ sig_pending' = AfterTaking(s)
          /\ ReturnOrExit(s)
       \/ /\ Outcome(s) = "terminate"
          /\ sig_pending' = AfterTaking(s)
          /\ do_exit(s, 128 + Lowest(Effective(s)))
          /\ UNCHANGED PENDING_EXIT
       \/ /\ Outcome(s) = "stop"
          /\ sig_pending' = StopPending(s)
          /\ state' = StopState(s)
          /\ pc' = [pc EXCEPT ![s] = IF @ = "exiting" THEN "xstop!" ELSE "stop!"]
          /\ UNCHANGED <<table_vars, irq_on, fsm_vars, PENDING_EXIT, arg>>
    /\ UNCHANGED <<id_vars, CURRENT, sig_blocked, sig_handlers, sig_restorer,
                   boot>>

-----------------------------------------------------------------------------
(* Parking.                                                                *)

(* sti;hlt while the run state is `asleep'; then on to `next', with        *)
(* interrupts off again if the wait ends with a cli.                       *)
Park(s, parked, asleep, next, irq) ==
    /\ CURRENT = s /\ pc[s] = parked
    /\ \/ /\ state[s] = asleep /\ ~irq_on
          /\ irq_on' = TRUE
          /\ UNCHANGED pc
       \/ /\ state[s] # asleep
          /\ irq_on' = irq
          /\ pc' = [pc EXCEPT ![s] = next]
    /\ UNCHANGED <<table_vars, id_vars, CURRENT, state, sig_vars, fsm_vars,
                   PENDING_EXIT, arg, boot>>

(* block_current_until's test: ready, or Blocked in the same step.         *)
CheckOrBlock(s, asking, ready, parked, done) ==
    /\ CURRENT = s /\ pc[s] = asking
    /\ state' = IF ready THEN state ELSE [state EXCEPT ![s] = "Blocked"]
    /\ pc' = [pc EXCEPT ![s] = IF ready THEN done ELSE parked]
    /\ UNCHANGED <<table_vars, id_vars, CURRENT, irq_on, sig_vars, fsm_vars,
                   PENDING_EXIT, arg, boot>>

-----------------------------------------------------------------------------
(* Syscalls.  Each enters from user mode and clears IF.                    *)

Syscall(s, next) ==
    /\ CURRENT = s /\ pc[s] = "user"
    /\ irq_on' = FALSE
    /\ pc' = [pc EXCEPT ![s] = next]

Untouched == <<CURRENT, boot>>

(* exit only records its code.                                             *)
sys_exit(s, code) ==
    /\ Syscall(s, "exiting")
    /\ PENDING_EXIT' = code
    /\ UNCHANGED <<table_vars, id_vars, state, sig_vars, fsm_vars, arg, Untouched>>

(* The exit trampoline: exit(128 + sig).                                   *)
Trampoline(s) ==
    /\ CURRENT = s /\ pc[s] = "tramp"
    /\ irq_on' = FALSE
    /\ pc' = [pc EXCEPT ![s] = "exiting"]
    /\ PENDING_EXIT' = arg[s]
    /\ UNCHANGED <<table_vars, id_vars, state, sig_vars, fsm_vars, arg, Untouched>>

(* spawn_user_from_frame: the child in slot n, runnable in user mode, with *)
(* its parent's dispositions and mask, nothing pending and no restorer.    *)
Admit(n, child, s) ==
    /\ N' = IF n = N THEN N + 1 ELSE N
    /\ pid' = [pid EXCEPT ![n] = child]
    /\ parent_pid' = [parent_pid EXCEPT ![n] = pid[s]]
    /\ state' = [state EXCEPT ![n] = "Runnable"]
    /\ sig_handlers' = [sig_handlers EXCEPT ![n] = sig_handlers[s]]
    /\ sig_blocked' = [sig_blocked EXCEPT ![n] = sig_blocked[s]]
    /\ task_ready

(* spawn is never refused here.  A program has six slots, so it leaves at  *)
(* most five zombies nobody reaps to the next one, and run() starts eleven *)
(* over one table: at most 10 * 5 + 6 of its 64 places are taken, and it   *)
(* is alloc_slot that runs out.                                            *)
do_fork(s) ==
    /\ Syscall(s, "boundary")
    /\ next_pid <= MaxPid
    /\ spawn(next_pid)
    /\ \E n \in alloc_slot : Admit(n, next_pid, s)
    /\ UNCHANGED <<sig_pending, sig_restorer, PENDING_EXIT, arg, Untouched>>

(* alloc_slot's assertion stops the kernel.                                *)
ForkPanics(s) ==
    /\ next_pid <= MaxPid
    /\ alloc_slot = {}
    /\ Syscall(s, "panic")
    /\ UNCHANGED <<table_vars, id_vars, state, sig_vars, fsm_vars, PENDING_EXIT,
                   arg, Untouched>>

(* kill(target, sig).                                                      *)
sys_kill(s, target, sig) ==
    /\ Syscall(s, "boundary")
    /\ LET T == slot_of_pid(target) IN
       IF T = {} THEN UNCHANGED <<sig_pending, state>>
       ELSE /\ sig_pending' = Pend(Lowest(T), sig, sig_pending)
            /\ state' = Prod(Lowest(T), sig, state)
    /\ UNCHANGED <<table_vars, id_vars, sig_blocked, sig_handlers, sig_restorer,
                   fsm_vars, PENDING_EXIT, arg, Untouched>>

(* sigaction: a handler comes with or without a restorer.                  *)
sys_sigaction(s, sig, h, restorer) ==
    /\ Syscall(s, "boundary")
    /\ sig_handlers' = [sig_handlers EXCEPT ![s][sig] = h]
    /\ sig_restorer' = [sig_restorer EXCEPT ![s] = @ \/ restorer]
    /\ UNCHANGED <<table_vars, id_vars, state, sig_pending, sig_blocked, fsm_vars,
                   PENDING_EXIT, arg, Untouched>>

(* set_signal_mask: SETMASK, BLOCK or UNBLOCK, never SIGKILL or SIGSTOP.   *)
set_signal_mask(s, how, mask) ==
    /\ Syscall(s, "boundary")
    /\ sig_blocked' = [sig_blocked EXCEPT ![s] =
          (CASE how = 1 -> @ \cup mask [] how = 2 -> @ \ mask [] OTHER -> mask)
             \ {SIGKILL, SIGSTOP}]
    /\ UNCHANGED <<table_vars, id_vars, state, sig_pending, sig_handlers,
                   sig_restorer, fsm_vars, PENDING_EXIT, arg, Untouched>>

(* A syscall that changes none of this state.                              *)
sys_other(s) ==
    /\ Syscall(s, "boundary")
    /\ UNCHANGED <<table_vars, id_vars, state, sig_vars, fsm_vars, PENDING_EXIT,
                   arg, Untouched>>

-----------------------------------------------------------------------------
(* wait.                                                                   *)

sys_wait(s, target) ==
    /\ Syscall(s, "wait?")
    /\ arg' = [arg EXCEPT ![s] = target]
    /\ UNCHANGED <<table_vars, id_vars, state, sig_vars, fsm_vars, PENDING_EXIT,
                   Untouched>>

(* Mutant: any dead child ends the sleep.                                  *)
WaitReady_AnyChild(s) ==
    \/ child_reapable(pid[s], 0)
    \/ child_stopped(pid[s], arg[s])
    \/ ~exists(pid[s], arg[s])

(* do_wait_loop sleeps until a matching child is reapable, stopped or gone.*)
WaitReady(s) ==
    \/ child_reapable(pid[s], arg[s])
    \/ child_stopped(pid[s], arg[s])
    \/ ~exists(pid[s], arg[s])

(* The slot it reaps: a matching dead child, the lowest for wait-any.      *)
ToReap(s) ==
    LET D == {c \in Children(pid[s], arg[s]) : state[c] = "Dead"} IN
    IF D = {} THEN {} ELSE {Lowest(D)}

(* Freeing the slots in R: TCB_INIT, and each zombie leaves the table.     *)
Reap(R) ==
    /\ state' = [t \in Threads |-> IF t \in R THEN "Free" ELSE state[t]]
    /\ pid' = [t \in Threads |-> IF t \in R THEN 0 ELSE pid[t]]
    /\ parent_pid' = [t \in Threads |-> IF t \in R THEN 0 ELSE parent_pid[t]]
    /\ sig_pending' = [t \in Threads |-> IF t \in R THEN {} ELSE sig_pending[t]]
    /\ sig_blocked' = [t \in Threads |-> IF t \in R THEN {} ELSE sig_blocked[t]]
    /\ sig_handlers' = [t \in Threads |-> IF t \in R THEN NoHandlers ELSE sig_handlers[t]]
    /\ sig_restorer' = [t \in Threads |-> sig_restorer[t] /\ t \notin R]
    /\ LET gone == {pid[t] : t \in R} IN
       /\ procs' = [p \in {q \in DOMAIN procs : ~(q \in gone /\ procs[q].state = "Zombie")}
                      |-> procs[p]]
       /\ table_state' = IF Count(procs') < capacity THEN "HasCapacity" ELSE table_state
       /\ UNCHANGED next_pid
    /\ UNCHANGED N

ECHILD == -1           \* u64::MAX
WSTOPPED_FLAG == -1000 \* 1 << 63

(* What wait answers, the u64 read as a signed number.                     *)
WaitResult(s) ==
    CASE ToReap(s) # {} -> reap_status(pid[Lowest(ToReap(s))])
      [] ToReap(s) = {} /\ child_stopped(pid[s], arg[s]) -> WSTOPPED_FLAG
      [] OTHER -> ECHILD

(* After the sleep, interrupts off: report a stop, or reap, or ECHILD.     *)
WaitReturn(s) ==
    /\ CURRENT = s /\ pc[s] = "wait."
    /\ irq_on' = FALSE
    /\ Reap(ToReap(s))
    /\ pc' = [t \in Threads |-> CASE t = s -> "boundary"
                                  [] t # s /\ t \in ToReap(s) -> "user"
                                  [] OTHER -> pc[t]]
    /\ UNCHANGED <<CURRENT, fsm_vars, PENDING_EXIT, arg, boot>>

(* reap_nohang: dead children in slot order until the target is reaped.    *)
NohangReaps(s, target) ==
    LET Dead == {c \in Children(pid[s], 0) : state[c] = "Dead"}
        Match == {c \in Dead : Matches(c, target)}
    IN  IF Match = {} THEN {} ELSE {c \in Dead : c <= Lowest(Match)}

sys_reap_nohang(s, target) ==
    LET R == NohangReaps(s, target) IN
    /\ CURRENT = s /\ pc[s] = "user"
    /\ irq_on' = FALSE
    /\ Reap(R)
    /\ pc' = [t \in Threads |-> CASE t = s -> "boundary"
                                  [] t # s /\ t \in R -> "user"
                                  [] OTHER -> pc[t]]
    /\ UNCHANGED <<CURRENT, fsm_vars, PENDING_EXIT, arg, boot>>

-----------------------------------------------------------------------------
(* The other parks: read_line, which polls, and exec's disk reads.         *)

read_line(s) ==
    /\ CURRENT = s /\ pc[s] = "user"
    /\ irq_on' = TRUE
    /\ pc' = [pc EXCEPT ![s] = "tty"]
    /\ UNCHANGED <<table_vars, id_vars, state, sig_vars, fsm_vars, PENDING_EXIT,
                   arg, Untouched>>

LineRead(s) ==
    /\ CURRENT = s /\ pc[s] = "tty"
    /\ irq_on' = FALSE
    /\ pc' = [pc EXCEPT ![s] = "boundary"]
    /\ UNCHANGED <<table_vars, id_vars, state, sig_vars, fsm_vars, PENDING_EXIT,
                   arg, Untouched>>

exec(s) ==
    /\ Syscall(s, "disk?")
    /\ UNCHANGED <<table_vars, id_vars, state, sig_vars, fsm_vars, PENDING_EXIT,
                   arg, Untouched>>

(* The disk's interrupt wakes its waiter (module DiskIO).                  *)
DiskWake(s) ==
    /\ irq_on
    /\ pc[s] = "disk!" /\ state[s] = "Blocked"
    /\ state' = [state EXCEPT ![s] = "Runnable"]
    /\ UNCHANGED <<table_vars, id_vars, CURRENT, irq_on, sig_vars, fsm_vars,
                   PENDING_EXIT, pc, arg, boot>>

(* exec_into resets the handlers and keeps the restorer; a failed exec     *)
(* leaves both.                                                            *)
exec_into(s) ==
    /\ CURRENT = s /\ pc[s] = "disk."
    /\ irq_on' = FALSE
    /\ pc' = [pc EXCEPT ![s] = "boundary"]
    /\ \/ sig_handlers' = [sig_handlers EXCEPT ![s] = NoHandlers]
       \/ UNCHANGED sig_handlers
    /\ UNCHANGED <<table_vars, id_vars, state, sig_pending, sig_blocked, sig_restorer,
                   fsm_vars, PENDING_EXIT, arg, Untouched>>

-----------------------------------------------------------------------------
(* The boot context.                                                       *)

(* run_one: a table entry, a fresh scheduler and its first task.           *)
run_one ==
    /\ boot.at = "start"
    /\ next_pid <= MaxPid
    /\ spawn(next_pid)
    /\ N' = 2
    /\ pid' = [s \in Threads |-> IF s = 1 THEN next_pid ELSE 0]
    /\ parent_pid' = [s \in Threads |-> 0]
    /\ state' = [s \in Threads |-> IF s = 1 THEN "Runnable" ELSE "Free"]
    /\ sig_pending' = [s \in Threads |-> {}]
    /\ sig_blocked' = [s \in Threads |-> {}]
    /\ sig_handlers' = [s \in Threads |-> NoHandlers]
    /\ sig_restorer' = [s \in Threads |-> FALSE]
    /\ sched_state' = "Active" /\ runnable' = 1
    /\ pc' = [s \in Threads |-> "user"]
    /\ boot' = [at |-> "run", pid |-> next_pid]
    /\ UNCHANGED <<CURRENT, irq_on, PENDING_EXIT, arg>>

(* run_until_idle ends and run_one reaps its process.                      *)
BootReaps ==
    /\ boot.at = "run" /\ CURRENT = 0
    /\ sched_state = "Idle"
    /\ reap_pid(boot.pid)
    /\ boot' = [at |-> "start", pid |-> 0]
    /\ UNCHANGED <<id_vars, CURRENT, irq_on, state, sig_vars, fsm_vars,
                   PENDING_EXIT, pc, arg>>

-----------------------------------------------------------------------------

(* What a program may do in user mode.                                     *)
Program(s) ==
    \/ "exit" \in Calls /\ \E code \in Codes : sys_exit(s, code)
    \/ "fork" \in Calls /\ (do_fork(s) \/ ForkPanics(s))
    \/ "wait" \in Calls /\ \E t \in 0 .. MaxPid : sys_wait(s, t)
    \/ "reap_nohang" \in Calls /\ \E t \in 0 .. MaxPid : sys_reap_nohang(s, t)
    \/ "kill" \in Calls /\ \E t \in 1 .. MaxPid, g \in Signals : sys_kill(s, t, g)
    \/ "sigaction" \in Calls /\
          \E g \in Signals, h \in {"SIG_DFL", "SIG_IGN", "handler"}, r \in BOOLEAN :
             sys_sigaction(s, g, h, r)
    \/ "sigprocmask" \in Calls /\
          \E how \in 0 .. 2, mask \in SUBSET Signals : set_signal_mask(s, how, mask)
    \/ "other" \in Calls /\ sys_other(s)
    \/ "read_line" \in Calls /\ read_line(s)
    \/ "exec" \in Calls /\ exec(s)
    \/ "fault" \in Calls /\ kill_current_user_process(s)

(* What the kernel does for a process in a syscall.                        *)
Kernel(s) ==
    \/ Trampoline(s)
    \/ Boundary(s)
    \/ CheckOrBlock(s, "wait?", WaitReady(s), "wait!", "wait.")
    \/ Park(s, "wait!", "Blocked", "wait?", irq_on)
    \/ WaitReturn(s)
    \/ \E done \in BOOLEAN : CheckOrBlock(s, "disk?", done, "disk!", "disk.")
    \/ Park(s, "disk!", "Blocked", "disk?", irq_on)
    \/ exec_into(s)
    \/ Park(s, "stop!", "Stopped", "boundary", FALSE)
    \/ Park(s, "xstop!", "Stopped", "exiting", FALSE)

(* A panic, or the end of the list of programs, for ever.                  *)
Halted ==
    /\ \/ \E s \in Threads : pc[s] = "panic"
       \/ boot.at = "start" /\ next_pid > MaxPid
    /\ UNCHANGED procs_vars

ProcsNext ==
    \/ run_one
    \/ BootReaps
    \/ schedule
    \/ \E g \in Signals : ConsoleSignal(g)
    \/ \E s \in Threads : Program(s) \/ Kernel(s) \/ LineRead(s) \/ DiskWake(s)
    \/ Halted

(* The timer keeps ticking, a process that keeps being scheduled runs, and *)
(* the disk answers.  Nothing is assumed of what programs do.              *)
ProcsFair ==
    /\ SF_procs_vars(schedule)
    /\ \A s \in Threads : SF_procs_vars(Kernel(s)) /\ SF_procs_vars(DiskWake(s))

ProcsSpec == ProcsInit /\ [][ProcsNext]_procs_vars

-----------------------------------------------------------------------------

PCs == {"user", "tramp", "boundary", "exiting", "stop!", "xstop!", "wait?", "wait!",
        "wait.", "disk?", "disk!", "disk.", "tty", "dead", "panic"}

ProcsTypeOK ==
    /\ TableTypeOK
    /\ N \in 1 .. MAX_THREADS - 1
    /\ CURRENT \in 0 .. N - 1
    /\ irq_on \in BOOLEAN
    /\ state \in [Threads -> {"Free", "Runnable", "Blocked", "Stopped", "Dead"}]
    /\ pid \in [Threads -> 0 .. MaxPid]
    /\ parent_pid \in [Threads -> 0 .. MaxPid]
    /\ sig_pending \in [Threads -> SUBSET AllSignals]
    /\ sig_blocked \in [Threads -> SUBSET (AllSignals \ {SIGKILL, SIGSTOP})]
    /\ sig_handlers \in [Threads -> [AllSignals -> {"SIG_DFL", "SIG_IGN", "handler"}]]
    /\ sig_restorer \in [Threads -> BOOLEAN]
    /\ sched_state \in {"Idle", "Active"}
    /\ runnable \in Nat
    /\ PENDING_EXIT \in {-1} \cup Codes \cup (128 .. 128 + 31)
    /\ pc \in [Threads -> PCs]
    /\ arg \in [Threads -> Nat]

Used == {s \in Threads : state[s] # "Free"}

(* The scheduler's table and the ProcessTable describe the same processes: *)
(* one entry each, a zombie exactly when its thread is dead.  So wait      *)
(* always finds the exit code of the thread it reaps.                      *)
TablesAgree ==
    boot.at = "run" =>
        /\ \A s \in Used : /\ pid[s] \in DOMAIN procs
                           /\ procs[pid[s]].state =
                                 IF state[s] = "Dead" THEN "Zombie" ELSE "Ready"
        /\ \A s, t \in Used : pid[s] = pid[t] => s = t

(* The Frame Scheduler counts the processes that have not exited, blocked  *)
(* and stopped ones included, so boot leaves run_until_idle when the last  *)
(* one has exited, and finds the exit code of the process it started.      *)
IdleWhenAllExited ==
    boot.at = "run" =>
        /\ runnable = Cardinality({s \in Threads : Alive(s)})
        /\ sched_state = "Idle" <=> runnable = 0
        /\ sched_state = "Idle" => procs[boot.pid].state = "Zombie"

(* No lost wakeup in wait: a parent is asleep only while it has a matching *)
(* child and none of them is dead or stopped.                              *)
WaitersHaveReason ==
    \A s \in Threads : state[s] = "Blocked" /\ pc[s] = "wait!" => ~WaitReady(s)

(* The two tables, the run queue's count and the sleeping parents are      *)
(* consistent between any two steps of fork, exit, wait, reap and signals. *)
ProcsSound == ProcsTypeOK /\ TablesAgree /\ IdleWhenAllExited /\ WaitersHaveReason

ResumeStep ==
    \A s \in Threads :
        state[s] = "Stopped" /\ state'[s] # "Stopped" =>
            state'[s] = "Runnable" /\ sig_pending'[s] \cap {SIGCONT, SIGKILL} # {}

(* Only SIGCONT and SIGKILL bring a stopped process back; a child's exit,  *)
(* a disk interrupt or another signal does not.                            *)
OnlyContResumes == [][ResumeStep]_procs_vars

MaskStep ==
    \A s \in Threads :
        state'[s] # "Free" /\ boot.at = "run" =>
            sig_pending[s] \cap sig_blocked[s] \subseteq sig_pending'[s]

(* A masked signal waits: no delivery point consumes it, neither at a      *)
(* syscall's return nor on preemption, until it is unblocked.              *)
BlockedStaysPending == [][MaskStep]_procs_vars

EchildStep ==
    \A s \in Threads :
        pc[s] = "wait." /\ pc'[s] = "boundary" /\ WaitResult(s) = ECHILD =>
            ~exists(pid[s], arg[s])

(* wait answers ECHILD (u64::MAX) only to a process without such a child,  *)
(* as long as children end by exit.  (A faulted child's status -1 is that  *)
(* value, and so is the answer when a stopped child is continued between   *)
(* wait's two looks at it.)                                                *)
EchildMeansNoChild == [][EchildStep]_procs_vars

Waiting(s) == pc[s] \in {"wait?", "wait!", "wait."}

(* alloc_slot's assertion failed, and the kernel has halted.               *)
Panicked == \E s \in Threads : pc[s] = "panic"

(* A parent waiting for a child that has exited gets to run and return:    *)
(* the exit wakes it, and nothing on the way puts it back to sleep, short  *)
(* of a kernel panic.                                                      *)
WaitNoticesExit ==
    \A s \in Threads :
        Waiting(s) /\ child_reapable(pid[s], arg[s]) ~> ~Waiting(s) \/ Panicked

(* wait answers what is so: no ECHILD while there is a child to wait for,  *)
(* and an answer once the child has exited.                                *)
WaitAnswers == EchildMeansNoChild /\ WaitNoticesExit

(* A signal reaches a process that makes no syscalls: it is never for ever *)
(* runnable in user mode with a deliverable signal.                        *)
UserModeTakesSignals ==
    \A s \in Threads :
        []<>~(state[s] = "Runnable" /\ pc[s] = "user" /\ Deliverable(s) # {})
=============================================================================
