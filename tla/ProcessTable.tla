---------------------------- MODULE ProcessTable ----------------------------
(***************************************************************************)
(* The Process and ProcessTable systems (process.frs, process_table.frs):  *)
(* the lifecycle of one process and the table that numbers, finds and      *)
(* frees them.  A method that the current state does not handle is         *)
(* ignored, which is what the operators below do.                          *)
(***************************************************************************)
EXTENDS Integers, FiniteSets

CONSTANTS
    capacity,  \* MAX_PROCS
    MaxPid,    \* bound on the pids handed out in a behaviour
    Codes      \* the exit codes programs use

ASSUME TableAssumption ==
    /\ capacity \in Nat \ {0}
    /\ MaxPid \in Nat \ {0}
    /\ Codes \subseteq Int

VARIABLES
    procs,       \* the Vec<Process>: pid -> lifecycle state and exit code
    next_pid,
    table_state  \* "HasCapacity" or "Full"

table_vars == <<procs, next_pid, table_state>>

KILLED == -1

TableInit ==
    /\ procs = <<>>
    /\ next_pid = 1
    /\ table_state = "HasCapacity"

-----------------------------------------------------------------------------
(* The Process system.                                                     *)

NewProcess == [state |-> "Created", exit_code |-> 0]

make_ready(p) == IF p.state = "Created" THEN [p EXCEPT !.state = "Ready"] ELSE p

block(p) == IF p.state = "Ready" THEN [p EXCEPT !.state = "Blocked"] ELSE p

unblock(p) == IF p.state = "Blocked" THEN [p EXCEPT !.state = "Ready"] ELSE p

exit(p, code) ==
    IF p.state = "Ready" THEN [state |-> "Zombie", exit_code |-> code] ELSE p

kill(p) ==
    IF p.state \in {"Created", "Ready", "Blocked"}
    THEN [state |-> "Zombie", exit_code |-> KILLED]
    ELSE p

-----------------------------------------------------------------------------
(* The ProcessTable system.                                                *)

Count(table) == Cardinality(DOMAIN table)

(* Mutant: the pid is the table's length plus one.                         *)
spawn_PidFromCount(pid) ==
    LET q == Count(procs) + 1 IN
    /\ table_state = "HasCapacity"
    /\ procs' = [p \in DOMAIN procs \cup {q} |->
                    IF p = q THEN make_ready(NewProcess) ELSE procs[p]]
    /\ next_pid' = IF q = next_pid THEN q + 1 ELSE next_pid
    /\ table_state' = IF Count(procs') >= capacity THEN "Full" ELSE "HasCapacity"

(* Mutant: the count is tested before the push.                            *)
spawn_LateFull(pid) ==
    /\ table_state = "HasCapacity"
    /\ pid = next_pid
    /\ procs' = [p \in DOMAIN procs \cup {pid} |->
                    IF p = pid THEN make_ready(NewProcess) ELSE procs[p]]
    /\ next_pid' = next_pid + 1
    /\ table_state' = IF Count(procs) >= capacity THEN "Full" ELSE "HasCapacity"

(* spawn in $HasCapacity: pid is the result.                               *)
spawn(pid) ==
    /\ table_state = "HasCapacity"
    /\ pid = next_pid
    /\ procs' = [p \in DOMAIN procs \cup {pid} |->
                    IF p = pid THEN make_ready(NewProcess) ELSE procs[p]]
    /\ next_pid' = next_pid + 1
    /\ table_state' = IF Count(procs') >= capacity THEN "Full" ELSE "HasCapacity"

(* spawn in $Full answers 0 and does nothing.                              *)
spawn_full ==
    /\ table_state = "Full"
    /\ UNCHANGED table_vars

(* The forward_* actions: p is what the method makes of the process.       *)
forward(pid, p) ==
    /\ procs' = IF pid \in DOMAIN procs THEN [procs EXCEPT ![pid] = p] ELSE procs
    /\ UNCHANGED <<next_pid, table_state>>

block_pid(pid) == forward(pid, block(procs[pid]))

unblock_pid(pid) == forward(pid, unblock(procs[pid]))

exit_pid(pid, code) == forward(pid, exit(procs[pid], code))

kill_pid(pid) == forward(pid, kill(procs[pid]))

(* What reap_pid answers.                                                  *)
reap_status(pid) ==
    IF pid \in DOMAIN procs /\ procs[pid].state = "Zombie"
    THEN procs[pid].exit_code
    ELSE -1

(* reap_pid, in both modes: a zombie leaves the table.                     *)
reap_pid(pid) ==
    /\ procs' = IF pid \in DOMAIN procs /\ procs[pid].state = "Zombie"
                THEN [p \in DOMAIN procs \ {pid} |-> procs[p]]
                ELSE procs
    /\ table_state' = IF Count(procs') < capacity THEN "HasCapacity" ELSE table_state
    /\ UNCHANGED next_pid

(* Any client: every method, with any pid.                                 *)
TableNext ==
    \/ next_pid <= MaxPid /\ spawn(next_pid)
    \/ spawn_full
    \/ \E pid \in 1 .. MaxPid :
          \/ block_pid(pid)
          \/ unblock_pid(pid)
          \/ \E code \in Codes : exit_pid(pid, code)
          \/ kill_pid(pid)
          \/ reap_pid(pid)

TableSpec == TableInit /\ [][TableNext]_table_vars

-----------------------------------------------------------------------------

Processes ==
    [state : {"Created", "Ready", "Blocked", "Zombie", "Reaped"},
     exit_code : Int]

TableTypeOK ==
    /\ next_pid \in Nat \ {0}
    /\ DOMAIN procs \in SUBSET (1 .. next_pid - 1)
    /\ procs \in [DOMAIN procs -> Processes]
    /\ table_state \in {"HasCapacity", "Full"}

(* The mode is the capacity test: spawn refuses exactly when the table is  *)
(* full, and the table never holds more than `capacity' processes.         *)
FullWhenAtCapacity ==
    /\ Count(procs) <= capacity
    /\ table_state = "Full" <=> Count(procs) = capacity

(* What a step may do to a pid: a new one is above all that were used, and *)
(* one that has left the table is never used again.  A waiter holding a    *)
(* stale pid can therefore never reap a stranger.                          *)
PidStep ==
    /\ next_pid' >= next_pid
    /\ \A p \in DOMAIN procs' \ DOMAIN procs : p >= next_pid /\ p < next_pid'

PidsNeverReused == [][PidStep]_table_vars

(* The first exit or kill decides: a zombie keeps its exit code until it   *)
(* is reaped, and a process leaves the table only as a zombie.             *)
ZombieStep ==
    /\ \A p \in DOMAIN procs \ DOMAIN procs' : procs[p].state = "Zombie"
    /\ \A p \in DOMAIN procs \cap DOMAIN procs' :
          procs[p].state = "Zombie" => procs'[p] = procs[p]

ExitCodeKeptUntilReaped == [][ZombieStep]_table_vars

TableSound == TableTypeOK /\ FullWhenAtCapacity

(* What no method does to the table: use a pid again, change an exit code, *)
(* or lose one before it is collected.                                     *)
TableHistory == PidsNeverReused /\ ExitCodeKeptUntilReaped
=============================================================================
