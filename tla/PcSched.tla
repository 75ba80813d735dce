------------------------------ MODULE PcSched ------------------------------
(***************************************************************************)
(* One application processor's own run queue (pcsched.rs): its boot        *)
(* context is slot 0 and drives the core's Scheduler from a mailbox; the   *)
(* workers are the other slots; the core's timer switches between them at  *)
(* any instruction that runs with interrupts on.                           *)
(***************************************************************************)
EXTENDS Integers, Sequences

CONSTANTS WORKERS_PER_CORE, WORK_ROUNDS, MAILBOX_CAP

PcSlots == 0 .. WORKERS_PER_CORE
Workers == 1 .. WORKERS_PER_CORE

VARIABLES
    tcb,        \* RunState of each slot
    pc_at,         \* where each slot's thread is
    rounds,     \* rounds of work each worker has left
    pc_current,    \* PC_CURRENT
    mailbox, tasks,     \* the core's mailbox, and its Scheduler's runnable count
    active, exited, done    \* PC_ACTIVE, PC_EXITED, PC_DONE
pcs_vars == <<tcb, pc_at, rounds, pc_current, mailbox, tasks, active, exited, done>>

PcsInit ==
    /\ tcb = [s \in PcSlots |-> "Free"]
    /\ pc_at = [s \in PcSlots |-> IF s = 0 THEN "wait_go" ELSE "worker"]
    /\ rounds = [w \in Workers |-> WORK_ROUNDS]
    /\ pc_current = 0 /\ mailbox = <<>> /\ tasks = 0
    /\ active = FALSE /\ exited = 0 /\ done = FALSE

Move(s, where) == pc_at' = [pc_at EXCEPT ![s] = where]
Push(m) == mailbox' = IF Len(mailbox) < MAILBOX_CAP THEN Append(mailbox, m) ELSE mailbox

\* ap_run: the slots and their Ready posts, and then ticks may switch.
ap_run ==
    /\ pc_current = 0 /\ pc_at[0] = "wait_go"
    /\ tcb' = [s \in PcSlots |-> "Runnable"]
    /\ mailbox' = [i \in 1 .. (IF WORKERS_PER_CORE < MAILBOX_CAP THEN WORKERS_PER_CORE ELSE MAILBOX_CAP) |-> "Ready"]
    /\ active' = TRUE /\ Move(0, "drain")
    /\ UNCHANGED <<rounds, pc_current, tasks, exited, done>>

drain_mailbox ==
    /\ pc_current = 0 /\ pc_at[0] = "drain" /\ mailbox # <<>>
    /\ mailbox' = Tail(mailbox)
    /\ tasks' = IF Head(mailbox) = "Ready" THEN tasks + 1 ELSE IF tasks > 0 THEN tasks - 1 ELSE 0
    /\ UNCHANGED <<tcb, pc_at, rounds, pc_current, active, exited, done>>

\* The mailbox is empty: stop when the Scheduler is idle, else halt.
is_idle ==
    /\ pc_current = 0 /\ pc_at[0] = "drain" /\ mailbox = <<>>
    /\ Move(0, IF tasks = 0 THEN "idle" ELSE "hlt")
    /\ UNCHANGED <<tcb, rounds, pc_current, mailbox, tasks, active, exited, done>>

ap_run_ends ==
    /\ pc_current = 0
    /\ \/ pc_at[0] = "idle" /\ Move(0, "report") /\ active' = FALSE /\ UNCHANGED done
       \/ pc_at[0] = "report" /\ Move(0, "end") /\ done' = TRUE /\ UNCHANGED active
    /\ UNCHANGED <<tcb, rounds, pc_current, mailbox, tasks, exited>>

pc_worker ==
    /\ pc_current \in Workers /\ pc_at[pc_current] = "worker"
    /\ \/ rounds[pc_current] > 0 /\ rounds' = [rounds EXCEPT ![pc_current] = @ - 1] /\ UNCHANGED pc_at
       \/ rounds[pc_current] = 0 /\ Move(pc_current, "exit") /\ UNCHANGED rounds
    /\ UNCHANGED <<tcb, pc_current, mailbox, tasks, active, exited, done>>

\* Mutant: the slot is Dead before the Unready post, and a tick fits between.
pc_exit_current_TwoSteps ==
    /\ pc_current \in Workers
    /\ \/ pc_at[pc_current] = "exit" /\ tcb' = [tcb EXCEPT ![pc_current] = "Dead"]
          /\ Move(pc_current, "posts") /\ UNCHANGED mailbox
       \/ pc_at[pc_current] = "posts" /\ Push("Unready") /\ Move(pc_current, "counts") /\ UNCHANGED tcb
    /\ UNCHANGED <<rounds, pc_current, tasks, active, exited, done>>

\* exit_current: Dead and posted with interrupts off, ...
pc_exit_current ==
    /\ pc_current \in Workers /\ pc_at[pc_current] = "exit"
    /\ tcb' = [tcb EXCEPT ![pc_current] = "Dead"] /\ Push("Unready")
    /\ Move(pc_current, "counts")
    /\ UNCHANGED <<rounds, pc_current, tasks, active, exited, done>>

\* ... and counted with interrupts on again.
count_exit ==
    /\ pc_current \in Workers /\ pc_at[pc_current] = "counts"
    /\ exited' = exited + 1 /\ Move(pc_current, "hlt")
    /\ UNCHANGED <<tcb, rounds, pc_current, mailbox, tasks, active, done>>

\* The next Runnable worker after the current slot, or slot 0.
NextReady ==
    LET After(k) == (pc_current + k) % (WORKERS_PER_CORE + 1)
        Picks == {k \in 1 .. WORKERS_PER_CORE + 1 : After(k) # 0 /\ tcb[After(k)] = "Runnable"}
    IN  IF Picks = {} THEN 0 ELSE After(CHOOSE k \in Picks : \A j \in Picks : k <= j)

\* A tick: it ends a halt of slot 0, and while the run queue is active it switches.
pc_schedule ==
    /\ \/ active /\ pc_current' = NextReady
       \/ ~active /\ UNCHANGED pc_current
    /\ pc_at' = [s \in PcSlots |-> IF s = 0 /\ pc_current' = 0 /\ pc_at[0] = "hlt" THEN "drain" ELSE pc_at[s]]
    /\ UNCHANGED <<tcb, rounds, mailbox, tasks, active, exited, done>>

PcsThread ==
    \/ ap_run \/ drain_mailbox \/ is_idle \/ ap_run_ends
    \/ pc_worker \/ pc_exit_current \/ count_exit
PcsNext == PcsThread \/ pc_schedule

(* Every worker is retired and the core reports its run queue idle: no     *)
(* tick, wherever it falls in exit_current or ap_run, leaves the Scheduler *)
(* counting a task that can never run again.                               *)
WorkersRetired == done /\ tasks = 0 /\ \A w \in Workers : tcb[w] = "Dead"

(* threads_run counts the "workers that ran to completion" on the core.    *)
ThreadsRun == done => exited = WORKERS_PER_CORE
=============================================================================
