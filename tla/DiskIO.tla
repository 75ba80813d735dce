------------------------------- MODULE DiskIO -------------------------------
(***************************************************************************)
(* Blocking disk I/O: read_sector and write_sector of virtio_blk.rs, the   *)
(* IoScheduler that hands them request slots, block_current_until and      *)
(* wake_pid of sched.rs, the timer's round-robin, the completion interrupt *)
(* and the device.                                                         *)
(*                                                                         *)
(* One core.  A process in a syscall runs with interrupts off, so nothing  *)
(* but the device interleaves with it, except while it is parked in        *)
(* block_current_until: sti;hlt leaves interrupts on until the wait is     *)
(* over.  Every step below is one stretch of code that no interrupt can    *)
(* split.                                                                  *)
(***************************************************************************)
EXTENDS IoScheduler, FiniteSets

CONSTANTS
    Sectors, Values,
    Statuses         \* the status bytes the device may write

(* Processes sit in TCB slots 1..n in order; slot 0 is the boot context.   *)
ASSUME TcbAssumption == IsFiniteSet(Pids) /\ Pids = 1 .. Cardinality(Pids)

ASSUME ValuesAssumption == Values # {}

VARIABLES
    current,      \* CURRENT: the TCB slot on the core, 0 for boot
    irq_on,       \* RFLAGS.IF of the running context
    state,        \* TCB run state of each process
    pc,           \* where each process is in read_sector / write_sector
    req,          \* the request it is making
    ret,          \* what its last one returned
    slot_done,    \* per slot: its used-ring element has been drained
    slot_status,  \* per slot: the status byte the drain recorded
    SLOT_WAITER,  \* per slot: the pid blocked on it, 0 for none
    buf,          \* per slot: the DMA data buffer
    status,       \* per slot: the DMA status byte
    header,       \* per slot: the request header and descriptors
    avail,        \* slots published to the device, not completed
    used,         \* slots in the used ring between last_used and used.idx
    isr,          \* the device is asserting its interrupt
    disk          \* the sectors

dev_vars == <<buf, status, header, avail, used, isr, disk>>
drv_vars == <<slot_done, slot_status, SLOT_WAITER>>
cpu_vars == <<current, irq_on, state>>
disk_vars == <<io_vars, cpu_vars, pc, req, ret, drv_vars, dev_vars>>

SENTINEL == 255  \* the status byte before the device writes it
OK == 0

ASSUME StatusAssumption == OK \in Statuses /\ SENTINEL \notin Statuses

Requests ==
    [op : {"read"}, sec : Sectors] \cup [op : {"write"}, sec : Sectors, val : Values]

(* The arguments of read_sector / write_sector outside a call.             *)
NoRequest == [op |-> "none"]

DiskInit ==
    /\ IoInit
    /\ current = 0
    /\ irq_on = TRUE
    /\ state = [p \in Pids |-> "Runnable"]
    /\ pc = [p \in Pids |-> "user"]
    /\ req = [p \in Pids |-> NoRequest]
    /\ ret = [p \in Pids |-> <<>>]
    /\ slot_done = [s \in Slots |-> FALSE]
    /\ slot_status = [s \in Slots |-> 0]
    /\ SLOT_WAITER = [s \in Slots |-> 0]
    /\ buf = [s \in Slots |-> CHOOSE v \in Values : TRUE]
    /\ status = [s \in Slots |-> SENTINEL]
    /\ header = [s \in Slots |-> NoRequest]
    /\ avail = {}
    /\ used = {}
    /\ isr = FALSE
    /\ disk \in [Sectors -> Values]

-----------------------------------------------------------------------------
(* Pieces of sched.rs.                                                     *)

wake_pid(p, st) ==
    IF p \in Pids /\ st[p] = "Blocked" THEN [st EXCEPT ![p] = "Runnable"] ELSE st

(* Mutant: the search starts at the first worker every time.               *)
RoundRobin_Lowest ==
    LET Ready == {p \in Pids : state[p] = "Runnable"}
    IN  IF Ready = {} THEN 0 ELSE CHOOSE p \in Ready : \A q \in Ready : p <= q

(* Round-robin over the worker slots after the current one, which comes    *)
(* last; boot when no worker is runnable.                                  *)
RoundRobin ==
    LET n == Cardinality(Pids) + 1
        nth(k) == (current + k) % n
        Ready == {k \in 1 .. n : nth(k) # 0 /\ state[nth(k)] = "Runnable"}
    IN  IF Ready = {} THEN 0
        ELSE nth(CHOOSE k \in Ready : \A j \in Ready : k <= j)

(* The timer interrupt.                                                    *)
schedule ==
    /\ irq_on
    /\ current' = RoundRobin
    /\ UNCHANGED <<io_vars, irq_on, state, pc, req, ret, drv_vars, dev_vars>>

(* block_current_until's test: done, or Blocked in the same interrupts-off *)
(* step.  `ready' is the predicate, st the run states after evaluating it. *)
CheckOrBlock(p, ready, st, done, parked) ==
    /\ state' = IF ready THEN st ELSE [st EXCEPT ![p] = "Blocked"]
    /\ pc' = [pc EXCEPT ![p] = IF ready THEN done ELSE parked]

(* Its inner loop: sti;hlt while Blocked, back to the test once woken.     *)
Park(p, parked, check) ==
    /\ current = p /\ pc[p] = parked
    /\ \/ /\ state[p] = "Blocked" /\ ~irq_on
          /\ irq_on' = TRUE
          /\ UNCHANGED pc
       \/ /\ state[p] = "Runnable"
          /\ pc' = [pc EXCEPT ![p] = check]
          /\ UNCHANGED irq_on
    /\ UNCHANGED <<io_vars, current, state, req, ret, drv_vars, dev_vars>>

(* A wake that has nothing to do with the disk: send_signal to a blocked   *)
(* process, or exit_current of a child of one.                             *)
SpuriousWake(p) ==
    /\ irq_on
    /\ state[p] = "Blocked"
    /\ state' = wake_pid(p, state)
    /\ UNCHANGED <<io_vars, current, irq_on, pc, req, ret, drv_vars, dev_vars>>

-----------------------------------------------------------------------------
(* The device (external): it may complete the published requests in any    *)
(* order, and may report an error.  The used-ring element is written after *)
(* the buffers, then the interrupt is asserted.                            *)
DeviceComplete(s) ==
    /\ s \in avail
    /\ LET r == header[s] IN
       \/ /\ r.op = "read"
          /\ buf' = [buf EXCEPT ![s] = disk[r.sec]]
          /\ status' = [status EXCEPT ![s] = OK]
          /\ UNCHANGED disk
       \/ /\ r.op = "write"
          /\ disk' = [disk EXCEPT ![r.sec] = buf[s]]
          /\ status' = [status EXCEPT ![s] = OK]
          /\ UNCHANGED buf
       \/ /\ \E e \in Statuses \ {OK} : status' = [status EXCEPT ![s] = e]
          /\ UNCHANGED <<buf, disk>>
    /\ avail' = avail \ {s}
    /\ used' = used \cup {s}
    /\ isr' = TRUE
    /\ UNCHANGED <<io_vars, cpu_vars, pc, req, ret, drv_vars, header>>

(* Mutant: the status byte is not read.                                    *)
drain_used_AssumesOK ==
    /\ slot_done' = [s \in Slots |-> slot_done[s] \/ s \in used]
    /\ slot_status' = [s \in Slots |-> IF s \in used THEN OK ELSE slot_status[s]]
    /\ used' = {}

(* drain_used consumes the new elements of the used ring: the slots are    *)
(* done, their status bytes recorded, their waiters woken.                 *)
drain_used ==
    /\ slot_done' = [s \in Slots |-> slot_done[s] \/ s \in used]
    /\ slot_status' = [s \in Slots |-> IF s \in used THEN status[s] ELSE slot_status[s]]
    /\ used' = {}

(* The run states after a drain.                                           *)
DrainWakes ==
    [p \in Pids |-> IF \E s \in used : SLOT_WAITER[s] = p
                    THEN wake_pid(p, state)[p]
                    ELSE state[p]]

(* Mutant: the interrupt drains the ring and wakes nobody.                 *)
on_irq_NoWake ==
    /\ irq_on /\ isr
    /\ isr' = FALSE
    /\ drain_used
    /\ UNCHANGED <<io_vars, cpu_vars, pc, req, ret, SLOT_WAITER,
                   buf, status, header, avail, disk>>

(* The completion interrupt: acknowledge, drain, wake.                     *)
on_irq ==
    /\ irq_on /\ isr
    /\ isr' = FALSE
    /\ drain_used
    /\ state' = DrainWakes
    /\ UNCHANGED <<io_vars, current, irq_on, pc, req, ret, SLOT_WAITER,
                   buf, status, header, avail, disk>>

-----------------------------------------------------------------------------
(* read_sector and write_sector.                                           *)

(* Entry, from user mode (the syscall clears IF) or for the next sector of *)
(* the same syscall, up to the IoScheduler's answer.                       *)
acquire_disk(p) ==
    /\ current = p /\ pc[p] \in {"user", "sysret"}
    /\ irq_on' = FALSE
    /\ \E r \in Requests : req' = [req EXCEPT ![p] = r]
    /\ ret' = [ret EXCEPT ![p] = <<>>]
    /\ AcquireFree(p) \/ AcquireFull(p)
    /\ pc' = [pc EXCEPT ![p] = IF owners'[p] # -1 THEN "submit" ELSE "grant?"]
    /\ UNCHANGED <<current, state, drv_vars, dev_vars>>

(* Mutant: a woken process asks again instead of looking.                  *)
CheckGrant_AsksAgain(p) ==
    /\ current = p /\ pc[p] = "grant?"
    /\ CheckOrBlock(p, slot_for(p) >= 0, state, "submit", "grant!")
    /\ wait_q' = IF slot_for(p) >= 0 THEN wait_q ELSE Append(wait_q, p)
    /\ UNCHANGED <<mode, free, owners, current, irq_on, req, ret, drv_vars, dev_vars>>

(* acquire_disk's wait for a slot: has the supervisor made us an owner?    *)
CheckGrant(p) ==
    /\ current = p /\ pc[p] = "grant?"
    /\ CheckOrBlock(p, slot_for(p) >= 0, state, "submit", "grant!")
    /\ UNCHANGED <<io_vars, current, irq_on, req, ret, drv_vars, dev_vars>>

(* submit: fill the slot's buffers and descriptors, publish its chain.     *)
submit(p) ==
    LET s == owners[p] IN
    /\ current = p /\ pc[p] = "submit"
    /\ irq_on' = FALSE
    /\ header' = [header EXCEPT ![s] = req[p]]
    /\ buf' = IF req[p].op = "write" THEN [buf EXCEPT ![s] = req[p].val] ELSE buf
    /\ status' = [status EXCEPT ![s] = SENTINEL]
    /\ avail' = avail \cup {s}
    /\ pc' = [pc EXCEPT ![p] = "arm"]
    /\ UNCHANGED <<io_vars, current, state, req, ret, drv_vars, used, isr, disk>>

(* wait_and_drain up to its wait: forget the slot's last completion and    *)
(* register as its waiter.  The request is already with the device.        *)
ArmWait(p) ==
    LET s == owners[p] IN
    /\ current = p /\ pc[p] = "arm"
    /\ slot_done' = [slot_done EXCEPT ![s] = FALSE]
    /\ SLOT_WAITER' = [SLOT_WAITER EXCEPT ![s] = p]
    /\ pc' = [pc EXCEPT ![p] = "done?"]
    /\ UNCHANGED <<io_vars, cpu_vars, req, ret, slot_status, dev_vars>>

(* wait_and_drain's wait: its predicate drains the used ring itself.       *)
CheckDone(p) ==
    /\ current = p /\ pc[p] = "done?"
    /\ drain_used
    /\ CheckOrBlock(p, slot_done'[owners[p]], DrainWakes, "finish", "done!")
    /\ UNCHANGED <<io_vars, current, irq_on, req, ret, SLOT_WAITER,
                   buf, status, header, avail, isr, disk>>

(* The end of wait_and_drain, the copy out of the slot's buffer and the    *)
(* BlockRequest's verdict, then release_disk: the slot is handed on and    *)
(* its new owner woken.                                                    *)
release_disk(p) ==
    LET s == owners[p]
        ok == slot_status[s] = OK
    IN
    /\ current = p /\ pc[p] = "finish"
    /\ irq_on' = FALSE
    /\ SLOT_WAITER' = [SLOT_WAITER EXCEPT ![s] = 0]
    /\ ret' = [ret EXCEPT ![p] =
                  IF ok /\ req[p].op = "read" THEN <<ok, buf[s]>> ELSE <<ok>>]
    /\ req' = [req EXCEPT ![p] = NoRequest]
    /\ release(p)
    /\ state' = wake_pid(admitted(p), state)
    /\ pc' = [pc EXCEPT ![p] = "sysret"]
    /\ UNCHANGED <<current, slot_done, slot_status, dev_vars>>

(* Back to user mode: the return restores IF.                              *)
SysRet(p) ==
    /\ current = p /\ pc[p] = "sysret"
    /\ irq_on' = TRUE
    /\ pc' = [pc EXCEPT ![p] = "user"]
    /\ UNCHANGED <<io_vars, current, state, req, ret, drv_vars, dev_vars>>

-----------------------------------------------------------------------------

(* What a process does once it has asked for a slot.                       *)
Continue(p) ==
    \/ CheckGrant(p)
    \/ Park(p, "grant!", "grant?")
    \/ submit(p)
    \/ ArmWait(p)
    \/ CheckDone(p)
    \/ Park(p, "done!", "done?")
    \/ release_disk(p)
    \/ SysRet(p)

DiskNext ==
    \/ \E p \in Pids : acquire_disk(p) \/ Continue(p) \/ SpuriousWake(p)
    \/ \E s \in Slots : DeviceComplete(s)
    \/ on_irq
    \/ schedule

DiskSpec == DiskInit /\ [][DiskNext]_disk_vars

-----------------------------------------------------------------------------

PCs == {"user", "grant?", "grant!", "submit", "arm", "done?", "done!",
        "finish", "sysret"}

DiskTypeOK ==
    /\ IoTypeOK
    /\ current \in Pids \cup {0}
    /\ irq_on \in BOOLEAN
    /\ state \in [Pids -> {"Runnable", "Blocked"}]
    /\ pc \in [Pids -> PCs]
    /\ req \in [Pids -> Requests \cup {NoRequest}]
    /\ slot_done \in [Slots -> BOOLEAN]
    /\ slot_status \in [Slots -> Statuses \cup {SENTINEL}]
    /\ SLOT_WAITER \in [Slots -> Pids \cup {0}]
    /\ buf \in [Slots -> Values]
    /\ status \in [Slots -> Statuses \cup {SENTINEL}]
    /\ header \in [Slots -> Requests \cup {NoRequest}]
    /\ avail \subseteq Slots /\ used \subseteq Slots
    /\ isr \in BOOLEAN
    /\ disk \in [Sectors -> Values]

(* The device owns a slot's buffers only while the process that holds the  *)
(* slot waits for them: no slot is released or resubmitted while a DMA may *)
(* still land in it, and a request's completion is pending exactly once.   *)
DmaOnlyWhileAwaited ==
    /\ avail \cap used = {}
    /\ \A s \in avail \cup used :
          \E p \in Pids : /\ owners[p] = s
                          /\ pc[p] \in {"arm", "done?", "done!"}
                          /\ pc[p] # "arm" => ~slot_done[s]

(* No lost wakeup: a process asleep on a slot grant is still in the queue, *)
(* and one asleep on a completion is the registered waiter of a slot that  *)
(* the device still has or whose completion has an interrupt coming.       *)
SleepersWillBeWoken ==
    \A p \in Pids : state[p] = "Blocked" =>
        \/ pc[p] = "grant!" /\ p \in Elements(wait_q)
        \/ /\ pc[p] = "done!"
           /\ SLOT_WAITER[owners[p]] = p
           /\ \/ owners[p] \in avail
              \/ owners[p] \in used /\ isr

(* A call is over for the device once its slot's element is in the used    *)
(* ring or drained.                                                        *)
Completed(p) ==
    \/ pc[p] \in {"arm", "done?", "done!"} /\ owners[p] \notin avail
    \/ pc[p] = "finish"

Store == INSTANCE SectorStore WITH
    store <- disk,
    call <- [p \in Pids |->
        IF pc[p] \in {"user", "sysret"} THEN [st |-> "idle"]
        ELSE IF ~Completed(p) THEN [st |-> "pending", req |-> req[p]]
        ELSE [st |-> "done", req |-> req[p],
              ok |-> status[owners[p]] = OK, val |-> buf[owners[p]]]]

(* However requests queue, overlap and complete out of order, each call    *)
(* acts on its own sector at one instant and returns what it found there.  *)
ImplementsSectorStore == Store!StoreSpec

(* The driver keeps to the IoScheduler's contract: it asks for a slot only *)
(* when it has none and is not queued.                                     *)
UsesPoolCorrectly == IoSpec

(* Every sector request returns, whoever else is doing I/O.                *)
RequestsReturn == \A p \in Pids : pc[p] # "user" ~> pc[p] \in {"user", "sysret"}

(* Nothing is lost between the driver, the interrupt and the device: no    *)
(* DMA into a slot nobody waits for, no sleeper without a wakeup coming.   *)
DiskSound == DiskTypeOK /\ DmaOnlyWhileAwaited /\ SleepersWillBeWoken
=============================================================================
