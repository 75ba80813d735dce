----------------------------- MODULE ProcsProofs -----------------------------
(***************************************************************************)
(* Proofs about ProcessTable and Procs, for every capacity, any number of  *)
(* threads, pids and signals, and programs that make any of the calls.     *)
(*                                                                         *)
(* The table first: its types, the meaning of its two modes, and the two   *)
(* promises that waiting rests on, fresh pids and exit codes kept until    *)
(* reaped.  Then the scheduler's view of the same processes.               *)
(***************************************************************************)
EXTENDS Procs, FiniteSetTheorems, WellFoundedInduction, TLAPS

(* The invariant: the types, and the mode as the capacity test.            *)
TableInv == TableTypeOK /\ FullWhenAtCapacity

(* The table is finite and Count is its size.                              *)
LEMMA TableFinite ==
    ASSUME TableTypeOK
    PROVE  IsFiniteSet(DOMAIN procs) /\ Count(procs) \in Nat
<1>1. IsFiniteSet(1 .. next_pid - 1)
  BY FS_Interval DEF TableTypeOK
<1>2. IsFiniteSet(DOMAIN procs)
  BY <1>1, FS_Subset DEF TableTypeOK
<1> QED
  BY <1>2, FS_CardinalityType DEF Count

(* No Process method touches a zombie.                                     *)
LEMMA ZombieIgnores ==
    ASSUME NEW p, p.state = "Zombie", NEW code
    PROVE  block(p) = p /\ unblock(p) = p /\ exit(p, code) = p /\ kill(p) = p
BY DEF block, unblock, exit, kill

(* A forwarded method keeps the invariant.                                 *)
LEMMA ForwardInv ==
    ASSUME TableInv, NEW q, NEW p \in Processes, forward(q, p)
    PROVE  TableInv'
<1>1. DOMAIN procs' = DOMAIN procs
  BY DEF forward
<1>2. TableTypeOK'
  BY <1>1 DEF TableInv, TableTypeOK, forward
<1>3. FullWhenAtCapacity'
  BY <1>1 DEF TableInv, FullWhenAtCapacity, Count, forward
<1> QED
  BY <1>2, <1>3 DEF TableInv

(* spawn keeps the invariant.                                              *)
LEMMA SpawnInv ==
    ASSUME TableInv, spawn(next_pid)
    PROVE  TableInv'
<1>1. /\ DOMAIN procs' = DOMAIN procs \cup {next_pid}
      /\ next_pid \notin DOMAIN procs
      /\ next_pid' = next_pid + 1
      /\ next_pid \in Nat \ {0}
  BY DEF spawn, TableInv, TableTypeOK
<1>2. make_ready(NewProcess) \in Processes
  BY DEF make_ready, NewProcess, Processes
<1>3. DOMAIN procs' \in SUBSET (1 .. next_pid' - 1)
  BY <1>1 DEF TableInv, TableTypeOK
<1>4. procs' \in [DOMAIN procs' -> Processes]
  BY <1>1, <1>2 DEF spawn, TableInv, TableTypeOK
<1>5. TableTypeOK'
  BY <1>1, <1>3, <1>4 DEF TableTypeOK, spawn
<1>6. Count(procs') = Count(procs) + 1 /\ Count(procs) \in Nat
  BY <1>1, TableFinite, FS_AddElement DEF TableInv, Count
<1>7. FullWhenAtCapacity'
  BY <1>6, TableAssumption DEF TableInv, FullWhenAtCapacity, spawn
<1> QED
  BY <1>5, <1>7 DEF TableInv

(* reap_pid keeps the invariant.                                           *)
LEMMA ReapInv ==
    ASSUME TableInv, NEW q, reap_pid(q)
    PROVE  TableInv'
<1>0. IsFiniteSet(DOMAIN procs) /\ Count(procs) \in Nat
  BY TableFinite DEF TableInv
<1>1. CASE q \in DOMAIN procs /\ procs[q].state = "Zombie"
  <2>1. DOMAIN procs' = DOMAIN procs \ {q}
    BY <1>1 DEF reap_pid
  <2>2. Count(procs') = Count(procs) - 1
    BY <1>0, <1>1, <2>1, FS_RemoveElement DEF Count
  <2>3. procs' \in [DOMAIN procs' -> Processes]
    BY <1>1, <2>1 DEF reap_pid, TableInv, TableTypeOK
  <2>4. TableTypeOK'
    BY <2>1, <2>3 DEF TableInv, TableTypeOK, reap_pid
  <2>5. FullWhenAtCapacity'
    BY <1>0, <2>2, TableAssumption DEF TableInv, FullWhenAtCapacity, reap_pid
  <2> QED
    BY <2>4, <2>5 DEF TableInv
<1>2. CASE ~(q \in DOMAIN procs /\ procs[q].state = "Zombie")
  <2>1. procs' = procs /\ next_pid' = next_pid
    BY <1>2 DEF reap_pid
  <2>2. table_state' = table_state
    BY <1>0, <2>1, TableAssumption
       DEF reap_pid, TableInv, FullWhenAtCapacity, TableTypeOK
  <2> QED
    BY <2>1, <2>2 DEF TableInv, TableTypeOK, FullWhenAtCapacity, Count
<1> QED
  BY <1>1, <1>2

(* Every method keeps the invariant.                                       *)
LEMMA NextTableInv ==
    ASSUME TableInv, [TableNext]_table_vars
    PROVE  TableInv'
<1>1. CASE next_pid <= MaxPid /\ spawn(next_pid)
  BY <1>1, SpawnInv
<1>2. CASE spawn_full
  BY <1>2 DEF spawn_full, table_vars, TableInv, TableTypeOK, FullWhenAtCapacity, Count
<1>3. ASSUME NEW q \in 1 .. MaxPid,
             \/ block_pid(q) \/ unblock_pid(q) \/ kill_pid(q)
             \/ \E code \in Codes : exit_pid(q, code)
      PROVE  TableInv'
  <2>1. CASE q \notin DOMAIN procs
    <3>1. UNCHANGED table_vars
      BY <1>3, <2>1
         DEF block_pid, unblock_pid, exit_pid, kill_pid, forward, table_vars
    <3> QED
      BY <3>1 DEF table_vars, TableInv, TableTypeOK, FullWhenAtCapacity, Count
  <2>2. CASE q \in DOMAIN procs
    <3>1. procs[q] \in Processes
      BY <2>2 DEF TableInv, TableTypeOK
    <3>2. /\ block(procs[q]) \in Processes
          /\ unblock(procs[q]) \in Processes
          /\ kill(procs[q]) \in Processes
          /\ \A code \in Codes : exit(procs[q], code) \in Processes
      BY <3>1, TableAssumption DEF Processes, block, unblock, exit, kill, KILLED
    <3> QED
      BY <1>3, <3>2, ForwardInv DEF block_pid, unblock_pid, exit_pid, kill_pid
  <2> QED
    BY <2>1, <2>2
<1>4. ASSUME NEW q \in 1 .. MaxPid, reap_pid(q)
      PROVE  TableInv'
  BY <1>4, ReapInv
<1>5. CASE UNCHANGED table_vars
  BY <1>5 DEF table_vars, TableInv, TableTypeOK, FullWhenAtCapacity, Count
<1> QED
  BY <1>1, <1>2, <1>3, <1>4, <1>5 DEF TableNext

(* The invariant holds in every reachable state.                           *)
THEOREM TableInvariant == TableSpec => []TableInv
<1>1. TableInit => TableInv
  <2> SUFFICES ASSUME TableInit PROVE TableInv
    OBVIOUS
  <2>1. DOMAIN procs = {}
    BY DEF TableInit
  <2>2. Count(procs) = 0
    BY <2>1, FS_EmptySet DEF Count
  <2>3. procs \in [DOMAIN procs -> Processes]
    BY <2>1 DEF TableInit
  <2> QED
    BY <2>1, <2>2, <2>3, TableAssumption
       DEF TableInit, TableInv, TableTypeOK, FullWhenAtCapacity
<1>2. TableInv /\ [TableNext]_table_vars => TableInv'
  BY NextTableInv
<1> QED
  BY <1>1, <1>2, PTL DEF TableSpec

(* The table's fields keep their types; every q in it is below next_pid. *)
THEOREM TableTypeCorrect == TableSpec => []TableTypeOK
BY TableInvariant, PTL DEF TableInv

(* spawn refuses exactly when `capacity' processes are in the table.       *)
THEOREM FullMeansFull == TableSpec => []FullWhenAtCapacity
BY TableInvariant, PTL DEF TableInv

(* A q that was ever handed out is never handed out again.               *)
THEOREM FreshPids == TableSpec => PidsNeverReused
<1>1. TableInv /\ [TableNext]_table_vars => [PidStep]_table_vars
  <2> SUFFICES ASSUME TableInv, TableNext PROVE PidStep
    BY DEF table_vars
  <2>0. next_pid \in Nat
    BY DEF TableInv, TableTypeOK
  <2>1. CASE next_pid <= MaxPid /\ spawn(next_pid)
    BY <2>0, <2>1 DEF spawn, PidStep
  <2>2. CASE spawn_full
    BY <2>0, <2>2 DEF spawn_full, table_vars, PidStep
  <2>3. ASSUME NEW q, NEW p, forward(q, p)
        PROVE  PidStep
    BY <2>0, <2>3 DEF forward, PidStep
  <2>4. ASSUME NEW q, reap_pid(q)
        PROVE  PidStep
    BY <2>0, <2>4 DEF reap_pid, PidStep
  <2> QED
    BY <2>1, <2>2, <2>3, <2>4
       DEF TableNext, block_pid, unblock_pid, exit_pid, kill_pid
<1> QED
  BY <1>1, TableInvariant, PTL DEF TableSpec, PidsNeverReused

(* An exit status survives, unchanged, until the parent collects it.       *)
THEOREM ExitCodeKept == TableSpec => ExitCodeKeptUntilReaped
<1>1. TableInv /\ [TableNext]_table_vars => [ZombieStep]_table_vars
  <2> SUFFICES ASSUME TableInv, TableNext PROVE ZombieStep
    BY DEF table_vars
  <2>1. CASE next_pid <= MaxPid /\ spawn(next_pid)
    <3>1. next_pid \notin DOMAIN procs
      BY DEF TableInv, TableTypeOK
    <3> QED
      BY <2>1, <3>1 DEF spawn, ZombieStep
  <2>2. CASE spawn_full
    BY <2>2 DEF spawn_full, table_vars, ZombieStep
  <2>3. ASSUME NEW q, NEW code,
               \/ block_pid(q) \/ unblock_pid(q)
               \/ kill_pid(q) \/ exit_pid(q, code)
        PROVE  ZombieStep
    BY <2>3, ZombieIgnores
       DEF block_pid, unblock_pid, exit_pid, kill_pid, forward, ZombieStep
  <2>4. ASSUME NEW q, reap_pid(q)
        PROVE  ZombieStep
    BY <2>4 DEF reap_pid, ZombieStep
  <2> QED
    BY <2>1, <2>2, <2>3, <2>4 DEF TableNext
<1> QED
  BY <1>1, TableInvariant, PTL DEF TableSpec, ExitCodeKeptUntilReaped

(* Together: the table's contents and its state agree.                     *)
THEOREM TableIsSound == TableSpec => []TableSound
<1>1. TableInv => TableSound
  BY DEF TableInv, TableSound
<1> QED
  BY <1>1, TableInvariant, PTL

(* A pid names one process for ever, and that process's exit code stays    *)
(* what it was until its parent has read it.                               *)
THEOREM HistoryIsKept == TableSpec => TableHistory
BY FreshPids, ExitCodeKept DEF TableHistory

-----------------------------------------------------------------------------
(***************************************************************************)
(* The scheduler.  ProcsSound is not inductive by itself: that an exit     *)
(* finds its process alive depends on what the program counter says of the *)
(* run state, that boot's process is a zombie at the end on nobody else    *)
(* being able to reap it, and that a stop wakes the right sleeper on pids  *)
(* being unique.                                                           *)
(***************************************************************************)

(* Where a process can be stopped, and where it sleeps.                    *)
Stoppable == {"user", "tramp", "stop!", "xstop!"}
Sleeping == {"wait!", "disk!"}

(* A slot's run state is one its program counter allows.                   *)
PcsMatch ==
    \A s \in Threads :
        /\ state[s] = "Free" => pc[s] = "user"
        /\ state[s] = "Stopped" => pc[s] \in Stoppable
        /\ state[s] = "Blocked" => pc[s] \in Sleeping
        /\ state[s] = "Dead" <=> pc[s] = "dead"

(* The trampoline carries the status of a signal.                          *)
TrampsArmed == \A s \in Threads : pc[s] = "tramp" => arg[s] \in 128 .. 159

(* The process on the core has a TCB, and runs when it is in user mode.    *)
OnCore ==
    CURRENT # 0 => /\ state[CURRENT] # "Free"
                   /\ pc[CURRENT] \in {"user", "tramp"} => state[CURRENT] = "Runnable"

(* The slots in use are below N.                                           *)
SlotsBelow == \A s \in Threads : s >= N => state[s] = "Free"

(* Between programs nothing runs; the program boot started has slot 1 and  *)
(* no parent, so nobody but boot reaps it.                                 *)
BootSlot ==
    /\ boot.at \in {"start", "run"}
    /\ boot.at = "start" => CURRENT = 0 /\ \A s \in Threads : ~Alive(s)
    /\ boot.at = "run" => state[1] # "Free" /\ pid[1] = boot.pid /\ parent_pid[1] = 0
    /\ \A s \in Threads : state[s] # "Free" => pid[s] # 0

ProcsInv ==
    /\ ProcsTypeOK
    /\ PcsMatch /\ TrampsArmed /\ OnCore /\ SlotsBelow /\ BootSlot
    /\ TablesAgree /\ IdleWhenAllExited /\ WaitersHaveReason

(* The types in two parts: what signals use, and the rest.                 *)
SigTypeOK ==
    /\ sig_pending \in [Threads -> SUBSET AllSignals]
    /\ sig_blocked \in [Threads -> SUBSET (AllSignals \ {SIGKILL, SIGSTOP})]
    /\ sig_handlers \in [Threads -> [AllSignals -> {"SIG_DFL", "SIG_IGN", "handler"}]]
    /\ sig_restorer \in [Threads -> BOOLEAN]

Status == {-1} \cup Codes \cup (128 .. 159)

CoreTypeOK ==
    /\ N \in 1 .. MAX_THREADS - 1
    /\ CURRENT \in 0 .. N - 1
    /\ irq_on \in BOOLEAN
    /\ state \in [Threads -> {"Free", "Runnable", "Blocked", "Stopped", "Dead"}]
    /\ pid \in [Threads -> 0 .. MaxPid]
    /\ parent_pid \in [Threads -> 0 .. MaxPid]
    /\ sched_state \in {"Idle", "Active"}
    /\ runnable \in Nat
    /\ PENDING_EXIT \in Status
    /\ pc \in [Threads -> PCs]
    /\ arg \in [Threads -> Nat]

LEMMA TypeParts == ProcsTypeOK <=> TableTypeOK /\ CoreTypeOK /\ SigTypeOK
<1>1. 128 + 31 = 159
  OBVIOUS
<1> QED BY <1>1 DEF ProcsTypeOK, CoreTypeOK, SigTypeOK, Status

-----------------------------------------------------------------------------
(* Facts about the operators.                                              *)

LEMMA LowestOf ==
    ASSUME NEW S \in SUBSET Nat, S # {}
    PROVE  Lowest(S) \in S /\ \A y \in S : Lowest(S) <= y
<1>1. PICK x \in S : \A y \in S : <<y, x>> \notin OpToRel(<, Nat)
  BY NatLessThanWellFounded, WFMin, Zenon
<1>2. ASSUME NEW y \in S PROVE x <= y
  <2>1. <<y, x>> \in Nat \X Nat /\ <<y, x>>[1] = y /\ <<y, x>>[2] = x
    OBVIOUS
  <2>2. ~(y < x)
    BY <1>1, <2>1, Zenon DEF OpToRel
  <2> QED BY <2>1, <2>2
<1> QED BY <1>2, Zenon DEF Lowest

LEMMA ThreadsFacts ==
    /\ Threads \in SUBSET Nat /\ 1 \in Threads /\ 0 \notin Threads /\ IsFiniteSet(Threads)
    /\ \A n \in 1 .. MAX_THREADS - 1 : 1 .. n - 1 \in SUBSET Threads
<1>1. IsFiniteSet(Threads)
  BY FS_Interval, ThreadsAssumption DEF Threads
<1> QED BY <1>1, ThreadsAssumption DEF Threads

LEMMA SignalsFacts ==
    /\ AllSignals \in SUBSET (1 .. 31) /\ AllSignals \in SUBSET Nat
    /\ SIGCHLD \in AllSignals /\ Signals \in SUBSET AllSignals
BY ThreadsAssumption DEF AllSignals, SIGCHLD

(* The process on the core.                                                *)
LEMMA CurrentFacts ==
    ASSUME ProcsInv, NEW s \in Threads, CURRENT = s
    PROVE  /\ state[s] # "Free" /\ pid[s] # 0 /\ boot.at = "run" /\ s \in 1 .. N - 1
           /\ pc[s] \notin {"stop!", "xstop!", "wait!", "disk!", "dead"} => state[s] = "Runnable"
<1>1. s # 0 /\ CURRENT \in 0 .. N - 1 /\ s \in Nat
  BY ThreadsFacts DEF ProcsInv, ProcsTypeOK
<1>2. state[s] # "Free" /\ (pc[s] \in {"user", "tramp"} => state[s] = "Runnable")
  BY <1>1 DEF ProcsInv, OnCore
<1>3. pid[s] # 0 /\ boot.at = "run"
  BY <1>1, <1>2 DEF ProcsInv, BootSlot
<1>4. ASSUME pc[s] \notin {"stop!", "xstop!", "wait!", "disk!", "dead", "user", "tramp"}
      PROVE  state[s] = "Runnable"
  BY <1>2, <1>4 DEF ProcsInv, ProcsTypeOK, PcsMatch, Stoppable, Sleeping
<1>5. N \in Nat
  BY DEF ProcsInv, ProcsTypeOK
<1> QED BY <1>1, <1>2, <1>3, <1>4, <1>5

(* Two processes never share a pid.                                        *)
LEMMA PidsUnique ==
    ASSUME ProcsInv, boot.at = "run",
           NEW s \in Threads, NEW t \in Threads, state[s] # "Free", state[t] # "Free",
           pid[s] = pid[t]
    PROVE  s = t
BY DEF ProcsInv, TablesAgree, Used

(* What the scheduler is about to run is runnable.                         *)
LEMMA RoundRobinRuns ==
    ASSUME ProcsTypeOK, NEW st
    PROVE  /\ RoundRobin(st) \in 0 .. N - 1
           /\ RoundRobin(st) # 0 => st[RoundRobin(st)] = "Runnable"
<1> DEFINE nth(k) == (CURRENT + k) % N
           Ready == {k \in 1 .. N : nth(k) # 0 /\ st[nth(k)] = "Runnable"}
<1>1. N \in Nat /\ N >= 1 /\ CURRENT \in Nat
  BY DEF ProcsTypeOK
<1>2. \A k \in 1 .. N : nth(k) \in 0 .. N - 1
  BY <1>1
<1>3. RoundRobin(st) = IF Ready = {} THEN 0 ELSE nth(Lowest(Ready))
  BY DEF RoundRobin
<1>4. CASE Ready = {}
  BY <1>1, <1>3, <1>4
<1>5. CASE Ready # {}
  <2>1. Lowest(Ready) \in Ready
    <3>1. Ready \in SUBSET Nat
      BY <1>1
    <3> HIDE DEF Ready
    <3> QED BY <3>1, <1>5, LowestOf
  <2> QED BY <2>1, <1>2, <1>3, <1>5
<1> QED BY <1>4, <1>5

(* What a delivery point takes is deliverable, and what it acts on is a    *)
(* signal.                                                                 *)
LEMMA TakenFacts ==
    ASSUME ProcsTypeOK, NEW s \in Threads
    PROVE  /\ Taken(s) \subseteq sig_pending[s] \ sig_blocked[s]
           /\ AfterTaking(s) \in [Threads -> SUBSET AllSignals]
           /\ \A t \in Threads :
                 AfterTaking(s)[t] = IF t = s THEN sig_pending[s] \ Taken(s) ELSE sig_pending[t]
<1>1. Taken(s) \subseteq Deliverable(s)
  BY DEF Taken
<1> HIDE DEF Taken
<1> QED BY <1>1 DEF AfterTaking, Deliverable, ProcsTypeOK

LEMMA EffectiveFacts ==
    ASSUME ProcsTypeOK, NEW s \in Threads, Outcome(s) # "none"
    PROVE  Lowest(Effective(s)) \in AllSignals /\ 128 + Lowest(Effective(s)) \in 128 .. 159
<1>1. Effective(s) \in SUBSET AllSignals
  BY DEF Effective, Deliverable, ProcsTypeOK
<1>2. Effective(s) # {}
  BY DEF Outcome
<1>3. Lowest(Effective(s)) \in Effective(s)
  BY <1>1, <1>2, SignalsFacts, LowestOf
<1>4. Lowest(Effective(s)) \in AllSignals
  BY <1>1, <1>3
<1>5. Lowest(Effective(s)) \in 1 .. 31
  BY <1>4, SignalsFacts, Zenon
<1> QED BY <1>4, <1>5

(* A stop signals the parent: SIGCHLD wakes it if it sleeps.               *)
LEMMA StopFacts ==
    ASSUME ProcsInv, NEW s \in Threads, CURRENT = s, state[s] = "Runnable"
    PROVE  /\ StopState(s) \in [Threads -> {"Free", "Runnable", "Blocked", "Stopped", "Dead"}]
           /\ \A t \in Threads : StopState(s)[t] =
                 IF t = s THEN "Stopped"
                 ELSE IF parent_pid[s] # 0 /\ pid[t] = parent_pid[s] /\ state[t] = "Blocked"
                      THEN "Runnable" ELSE state[t]
           /\ StopPending(s) \in [Threads -> SUBSET AllSignals]
           /\ \A t \in Threads : AfterTaking(s)[t] \subseteq StopPending(s)[t]
<1> DEFINE P == slot_of_pid(parent_pid[s])
<1>1. ProcsTypeOK /\ s \in Nat
  BY ThreadsFacts DEF ProcsInv
<1>2. P = {t \in Threads : pid[t] = parent_pid[s] /\ state[t] # "Free"}
  <2>1. 1 .. N - 1 \in SUBSET Threads /\ N \in Nat
    BY <1>1, ThreadsFacts DEF ProcsTypeOK
  <2>2. \A t \in Threads : state[t] # "Free" => t \in 1 .. N - 1
    <3> SUFFICES ASSUME NEW t \in Threads, state[t] # "Free" PROVE t \in 1 .. N - 1
      OBVIOUS
    <3>1. ~(t >= N) /\ t \in Nat /\ t # 0
      BY ThreadsFacts DEF ProcsInv, SlotsBelow
    <3> QED BY <3>1, <2>1
  <2> QED BY <2>1, <2>2 DEF slot_of_pid
<1>3. \A t, u \in P : t = u
  BY <1>2, PidsUnique, CurrentFacts
<1>4. AfterTaking(s) \in [Threads -> SUBSET AllSignals]
  BY <1>1, TakenFacts, Zenon
<1>5. state \in [Threads -> {"Free", "Runnable", "Blocked", "Stopped", "Dead"}]
  BY <1>1 DEF ProcsTypeOK
<1>6. CASE parent_pid[s] # 0 /\ P # {}
  <2>1. Lowest(P) \in P
    <3>1. P \in SUBSET Nat
      BY <1>2, ThreadsFacts, Zenon
    <3> HIDE DEF P
    <3> QED BY <3>1, <1>6, LowestOf
  <2>2. PICK u \in P : u = Lowest(P)
    BY <2>1
  <2>3. u \in Threads /\ pid[u] = parent_pid[s] /\ \A t \in Threads : pid[t] = parent_pid[s] /\ state[t] # "Free" => t = u
    BY <1>2, <1>3
  <2>4. StopState(s) = [Prod(u, SIGCHLD, state) EXCEPT ![s] = "Stopped"]
    BY <1>6, <2>2 DEF StopState
  <2>5. StopPending(s) = Pend(u, SIGCHLD, AfterTaking(s))
    BY <1>6, <2>2 DEF StopPending
  <2>6. Prod(u, SIGCHLD, state) = IF state[u] = "Blocked" THEN [state EXCEPT ![u] = "Runnable"] ELSE state
    BY DEF Prod, SIGCHLD, SIGCONT, SIGKILL
  <2> HIDE DEF P
  <2>7. StopPending(s) \in [Threads -> SUBSET AllSignals] /\ \A t \in Threads : AfterTaking(s)[t] \subseteq StopPending(s)[t]
    BY <1>4, <2>3, <2>5, SignalsFacts DEF Pend
  <2>8. CASE state[u] = "Blocked"
    BY <1>5, <2>3, <2>4, <2>6, <2>7, <2>8, <1>6, ZenonT(60)
  <2>9. CASE state[u] # "Blocked"
    BY <1>5, <2>3, <2>4, <2>6, <2>7, <2>9, <1>6, ZenonT(60)
  <2> QED BY <2>8, <2>9
<1>7. CASE ~(parent_pid[s] # 0 /\ P # {})
  <2>1. StopState(s) = [state EXCEPT ![s] = "Stopped"] /\ StopPending(s) = AfterTaking(s)
    BY <1>7 DEF StopState, StopPending
  <2>2. \A t \in Threads : ~(parent_pid[s] # 0 /\ pid[t] = parent_pid[s] /\ state[t] = "Blocked")
    BY <1>2, <1>7
  <2> HIDE DEF P
  <2> QED BY <1>4, <1>5, <2>1, <2>2
<1> QED BY <1>6, <1>7

-----------------------------------------------------------------------------
(* What each kind of step preserves.                                       *)

(* Nothing is created, reaped or renamed.                                  *)
TablesKept == UNCHANGED <<table_vars, id_vars, fsm_vars, boot>>

(* Processes move between their live states.                               *)
LiveMoves ==
    \A t \in Threads : \/ state'[t] = state[t]
                       \/ /\ state[t] \in {"Runnable", "Blocked", "Stopped"}
                          /\ state'[t] \in {"Runnable", "Blocked", "Stopped"}

LEMMA LiveTables ==
    ASSUME ProcsInv, TablesKept, LiveMoves, boot.at = "start" => CURRENT' = 0
    PROVE  SlotsBelow' /\ BootSlot' /\ TablesAgree' /\ IdleWhenAllExited'
<1>1. \A t \in Threads : /\ state'[t] = "Free" <=> state[t] = "Free"
                         /\ state'[t] = "Dead" <=> state[t] = "Dead"
                         /\ Alive(t)' <=> Alive(t)
  BY DEF LiveMoves, Alive
<1>2. /\ procs' = procs /\ N' = N /\ pid' = pid /\ parent_pid' = parent_pid
      /\ sched_state' = sched_state /\ runnable' = runnable /\ boot' = boot
  BY DEF TablesKept, table_vars, id_vars, fsm_vars
<1>3. SlotsBelow'
  BY <1>1, <1>2 DEF ProcsInv, SlotsBelow
<1>4. BootSlot'
  BY <1>1, <1>2, ThreadsFacts DEF ProcsInv, BootSlot
<1>5. TablesAgree'
  BY <1>1, <1>2 DEF ProcsInv, TablesAgree, Used
<1>6. IdleWhenAllExited'
  <2>1. {s \in Threads : Alive(s)}' = {s \in Threads : Alive(s)}
    BY <1>1
  <2> QED BY <1>2, <2>1 DEF ProcsInv, IdleWhenAllExited
<1> QED BY <1>3, <1>4, <1>5, <1>6

(* A sleeping parent's reason lasts while its children neither come, go,   *)
(* die nor stop.                                                           *)
LEMMA ReasonLasts ==
    ASSUME ProcsInv, NEW t \in Threads, ~WaitReady(t),
           pid'[t] = pid[t], arg'[t] = arg[t],
           \A c \in Threads : c \in 1 .. N' - 1 /\ parent_pid'[c] = pid[t] /\ state'[c] # "Free"
              <=> c \in 1 .. N - 1 /\ parent_pid[c] = pid[t] /\ state[c] # "Free",
           \A c \in Threads : parent_pid'[c] = pid[t] /\ state'[c] # "Free" =>
              /\ pid'[c] = pid[c]
              /\ state'[c] \in {"Dead", "Stopped"} => state[c] = state'[c],
           1 .. N' - 1 \in SUBSET Threads
    PROVE  ~WaitReady(t)'
<1>1. 1 .. N - 1 \in SUBSET Threads
  BY ThreadsFacts DEF ProcsInv, ProcsTypeOK
<1>2. Children(pid[t], arg[t])' = Children(pid[t], arg[t])
  BY <1>1 DEF Children, Matches
<1>3. \A c \in Children(pid[t], arg[t]) : state'[c] \in {"Dead", "Stopped"} => state[c] = state'[c]
  BY <1>1 DEF Children
<1> QED BY <1>2, <1>3 DEF WaitReady, child_reapable, child_stopped, exists

(* A step of slot c, or an event that wakes processes: everyone else stays *)
(* where it is, is woken or is resumed, and c may go to sleep.             *)
CalmStep(c) ==
    /\ TablesKept /\ CURRENT' = CURRENT
    /\ \A t \in Threads \ {c} : pc'[t] = pc[t] /\ arg'[t] = arg[t]
    /\ \A t \in Threads : \/ state'[t] = state[t]
                          \/ state[t] \in {"Blocked", "Stopped"} /\ state'[t] = "Runnable"
                          \/ t = c /\ state[t] = "Runnable" /\ state'[t] = "Blocked"
    /\ state'[c] = "Free" => pc'[c] = "user"
    /\ state'[c] = "Stopped" => pc'[c] \in Stoppable
    /\ state'[c] = "Blocked" => pc'[c] \in Sleeping
    /\ state'[c] = "Dead" <=> pc'[c] = "dead"
    /\ pc'[c] = "tramp" => arg'[c] \in 128 .. 159
    /\ CURRENT = c /\ pc'[c] \in {"user", "tramp"} => state'[c] = "Runnable"
    /\ state'[c] = "Blocked" /\ pc'[c] = "wait!" => ~WaitReady(c) /\ arg'[c] = arg[c]

LEMMA CalmInv ==
    ASSUME ProcsInv, ProcsTypeOK', NEW c \in Threads, CalmStep(c)
    PROVE  ProcsInv'
<1>1. TablesKept /\ LiveMoves /\ CURRENT' = CURRENT
  BY DEF CalmStep, LiveMoves
<1>2. SlotsBelow' /\ BootSlot' /\ TablesAgree' /\ IdleWhenAllExited'
  <2>1. boot.at = "start" => CURRENT' = 0
    BY <1>1 DEF ProcsInv, BootSlot
  <2> QED BY <1>1, <2>1, LiveTables
<1>3. PcsMatch' /\ TrampsArmed'
  <2> SUFFICES ASSUME NEW t \in Threads
               PROVE  /\ state'[t] = "Free" => pc'[t] = "user"
                      /\ state'[t] = "Stopped" => pc'[t] \in Stoppable
                      /\ state'[t] = "Blocked" => pc'[t] \in Sleeping
                      /\ state'[t] = "Dead" <=> pc'[t] = "dead"
                      /\ pc'[t] = "tramp" => arg'[t] \in 128 .. 159
    BY DEF PcsMatch, TrampsArmed
  <2>1. CASE t = c
    BY <2>1 DEF CalmStep
  <2>2. CASE t # c
    BY <2>2 DEF CalmStep, ProcsInv, PcsMatch, TrampsArmed
  <2> QED BY <2>1, <2>2
<1>4. OnCore'
  <2> SUFFICES ASSUME CURRENT # 0
               PROVE  /\ state'[CURRENT] # "Free"
                      /\ pc'[CURRENT] \in {"user", "tramp"} => state'[CURRENT] = "Runnable"
    BY <1>1 DEF OnCore
  <2>1. CURRENT \in Threads
    BY ThreadsFacts DEF ProcsInv, ProcsTypeOK
  <2>2. state[CURRENT] # "Free" /\ (pc[CURRENT] \in {"user", "tramp"} => state[CURRENT] = "Runnable")
    BY DEF ProcsInv, OnCore
  <2>3. CASE CURRENT = c
    BY <2>1, <2>2, <2>3 DEF CalmStep
  <2>4. CASE CURRENT # c
    BY <2>1, <2>2, <2>4 DEF CalmStep
  <2> QED BY <2>3, <2>4
<1>5. WaitersHaveReason'
  <2> SUFFICES ASSUME NEW t \in Threads, state'[t] = "Blocked", pc'[t] = "wait!"
               PROVE  ~WaitReady(t)'
    BY DEF WaitersHaveReason
  <2>1. ~WaitReady(t) /\ arg'[t] = arg[t]
    <3>1. CASE t = c
      BY <3>1 DEF CalmStep
    <3>2. CASE t # c
      BY <3>2 DEF CalmStep, ProcsInv, WaitersHaveReason
    <3> QED BY <3>1, <3>2
  <2>2. N' = N /\ pid' = pid /\ parent_pid' = parent_pid
    BY <1>1 DEF TablesKept, id_vars
  <2>3. \A u \in Threads : /\ state'[u] = "Free" <=> state[u] = "Free"
                           /\ state'[u] \in {"Dead", "Stopped"} => state[u] = state'[u]
    BY DEF CalmStep
  <2>4. 1 .. N' - 1 \in SUBSET Threads
    BY ThreadsFacts, ZenonT(60) DEF ProcsTypeOK
  <2> QED BY <2>1, <2>2, <2>3, <2>4, ReasonLasts
<1> QED BY <1>2, <1>3, <1>4, <1>5 DEF ProcsInv

(* Slot s stops or exits, and wakes the parent that sleeps.                *)
LeaveStep(s, st) ==
    /\ UNCHANGED <<id_vars, boot>>
    /\ \A t \in Threads : state'[t] =
          IF t = s THEN st
          ELSE IF parent_pid[s] # 0 /\ pid[t] = parent_pid[s] /\ state[t] = "Blocked"
               THEN "Runnable" ELSE state[t]
    /\ \A t \in Threads \ {s} : pc'[t] = pc[t] /\ arg'[t] = arg[t]

(* The sleepers it leaves asleep are not its parent.                       *)
LEMMA LeaveWaiters ==
    ASSUME ProcsInv, ProcsTypeOK', NEW s \in Threads, state[s] # "Free",
           NEW st \in {"Stopped", "Dead"}, LeaveStep(s, st)
    PROVE  WaitersHaveReason'
<1> SUFFICES ASSUME NEW t \in Threads, state'[t] = "Blocked", pc'[t] = "wait!"
             PROVE  ~WaitReady(t)'
  BY DEF WaitersHaveReason
<1>1. t # s /\ state[t] = "Blocked" /\ pc[t] = "wait!" /\ arg'[t] = arg[t]
  BY DEF LeaveStep
<1>2. ~WaitReady(t)
  BY <1>1 DEF ProcsInv, WaitersHaveReason
<1>3. pid[t] # 0 /\ pid[t] # parent_pid[s]
  BY <1>1 DEF LeaveStep, ProcsInv, BootSlot
<1>4. N' = N /\ pid' = pid /\ parent_pid' = parent_pid
  BY DEF LeaveStep, id_vars
<1>5. \A u \in Threads : /\ state'[u] = "Free" <=> state[u] = "Free"
                         /\ u # s /\ state'[u] \in {"Dead", "Stopped"} => state[u] = state'[u]
  BY DEF LeaveStep
<1>6. 1 .. N' - 1 \in SUBSET Threads
  BY ThreadsFacts, ZenonT(60) DEF ProcsTypeOK
<1> QED BY <1>1, <1>2, <1>3, <1>4, <1>5, <1>6, ReasonLasts

LEMMA LeavePcs ==
    ASSUME ProcsInv, NEW s \in Threads, NEW st \in {"Stopped", "Dead"}, LeaveStep(s, st),
           st = "Stopped" => pc'[s] \in Stoppable, st = "Dead" <=> pc'[s] = "dead",
           pc'[s] = "tramp" => arg'[s] \in 128 .. 159
    PROVE  PcsMatch' /\ TrampsArmed'
<1> SUFFICES ASSUME NEW t \in Threads
             PROVE  /\ state'[t] = "Free" => pc'[t] = "user"
                    /\ state'[t] = "Stopped" => pc'[t] \in Stoppable
                    /\ state'[t] = "Blocked" => pc'[t] \in Sleeping
                    /\ state'[t] = "Dead" <=> pc'[t] = "dead"
                    /\ pc'[t] = "tramp" => arg'[t] \in 128 .. 159
  BY DEF PcsMatch, TrampsArmed
<1>1. CASE t = s
  BY <1>1 DEF LeaveStep, Stoppable
<1>2. CASE t # s
  BY <1>2 DEF LeaveStep, ProcsInv, PcsMatch, TrampsArmed, Sleeping
<1> QED BY <1>1, <1>2

(* A stop, on the core or on the way off it.                               *)
LEMMA StopInv ==
    ASSUME ProcsInv, ProcsTypeOK', NEW s \in Threads, CURRENT = s, state[s] = "Runnable",
           TablesKept, LeaveStep(s, "Stopped"), OnCore',
           pc'[s] \in Stoppable, pc'[s] = "tramp" => arg'[s] \in 128 .. 159
    PROVE  ProcsInv'
<1>1. boot.at = "run" /\ s # 0
  BY CurrentFacts, ThreadsFacts
<1>2. LiveMoves
  BY DEF LiveMoves, LeaveStep
<1>3. SlotsBelow' /\ BootSlot' /\ TablesAgree' /\ IdleWhenAllExited'
  BY <1>1, <1>2, LiveTables
<1>4. PcsMatch' /\ TrampsArmed'
  BY LeavePcs DEF Stoppable
<1>5. WaitersHaveReason'
  BY LeaveWaiters
<1> QED BY <1>3, <1>4, <1>5 DEF ProcsInv

(* The last to exit leaves boot a zombie to reap.                          *)
LEMMA IdleMeansZombie ==
    ASSUME BootSlot', TablesAgree', boot'.at = "run", IsFiniteSet({t \in Threads : Alive(t)})',
           ProcsTypeOK', Cardinality({t \in Threads : Alive(t)})' = 0
    PROVE  procs'[boot'.pid].state = "Zombie"
<1>1. {t \in Threads : Alive(t)}' = {}
  BY FS_EmptySet
<1>2. 1 \in Threads /\ state'[1] # "Free" /\ pid'[1] = boot'.pid
  BY ThreadsFacts DEF BootSlot
<1>3. state'[1] = "Dead"
  BY <1>1, <1>2 DEF Alive, ProcsTypeOK
<1> QED BY <1>2, <1>3 DEF TablesAgree, Used

(* An exit or a kill: the Process becomes a zombie and the thread dies.    *)
ExitStep(s) ==
    /\ UNCHANGED <<next_pid, table_state>>
    /\ DOMAIN procs' = DOMAIN procs
    /\ \A q \in DOMAIN procs : q # pid[s] => procs'[q] = procs[q]
    /\ pid[s] \in DOMAIN procs /\ procs[pid[s]].state = "Ready" =>
          procs'[pid[s]].state = "Zombie"
    /\ task_unready
    /\ LeaveStep(s, "Dead") /\ pc'[s] = "dead" /\ arg'[s] = 0
    /\ CURRENT' = CURRENT

LEMMA ExitInv ==
    ASSUME ProcsInv, ProcsTypeOK', NEW s \in Threads, CURRENT = s, state[s] = "Runnable",
           ExitStep(s)
    PROVE  ProcsInv'
<1> DEFINE A == {t \in Threads : Alive(t)}
<1>1. boot.at = "run" /\ s # 0 /\ LeaveStep(s, "Dead") /\ boot' = boot /\ N' = N
      /\ pid' = pid /\ parent_pid' = parent_pid /\ CURRENT' = CURRENT /\ pc'[s] = "dead"
  BY CurrentFacts, ThreadsFacts DEF ExitStep, LeaveStep, id_vars
<1>2. PcsMatch' /\ TrampsArmed'
  BY <1>1, LeavePcs
<1>3. WaitersHaveReason'
  BY <1>1, LeaveWaiters, Zenon
<1>4. \A t \in Threads : /\ state'[t] = "Free" <=> state[t] = "Free"
                         /\ t # s => (state'[t] = "Dead" <=> state[t] = "Dead")
                         /\ Alive(t)' <=> t # s /\ Alive(t)
  BY Zenon DEF ExitStep, LeaveStep, Alive
<1>5. state'[s] = "Dead"
  BY <1>1 DEF LeaveStep
<1>6. OnCore'
  BY <1>1, <1>5 DEF OnCore
<1>7. SlotsBelow'
  BY <1>1, <1>4 DEF ProcsInv, SlotsBelow
<1>8. BootSlot'
  BY <1>1, <1>4, ThreadsFacts DEF ProcsInv, BootSlot
<1>9. TablesAgree'
  <2>1. \A t \in Threads : state[t] # "Free" =>
           /\ pid[t] \in DOMAIN procs
           /\ procs[pid[t]].state = IF state[t] = "Dead" THEN "Zombie" ELSE "Ready"
           /\ t # s => pid[t] # pid[s]
    BY <1>1, PidsUnique DEF ProcsInv, TablesAgree, Used
  <2>2. ASSUME NEW t \in Threads, state'[t] # "Free"
        PROVE  /\ pid'[t] \in DOMAIN procs'
               /\ procs'[pid'[t]].state = IF state'[t] = "Dead" THEN "Zombie" ELSE "Ready"
    <3>1. state[t] # "Free"
      BY <1>4, <2>2
    <3>2. CASE t = s
      BY <1>1, <1>5, <2>1, <3>2, Zenon DEF ExitStep
    <3>3. CASE t # s
      BY <1>1, <1>4, <2>1, <3>1, <3>3 DEF ExitStep
    <3> QED BY <3>2, <3>3
  <2>3. \A t, u \in Threads : state'[t] # "Free" /\ state'[u] # "Free" /\ pid'[t] = pid'[u] => t = u
    BY <1>1, <1>4, PidsUnique
  <2> QED BY <2>2, <2>3, Zenon DEF TablesAgree, Used
<1>10. IdleWhenAllExited'
  <2>1. IsFiniteSet(A) /\ s \in A /\ A' = A \ {s}
    <3>1. IsFiniteSet(A)
      BY ThreadsFacts, FS_Subset
    <3> QED BY <3>1, <1>4 DEF Alive
  <2>2. runnable = Cardinality(A) /\ (sched_state = "Idle" <=> runnable = 0) /\ sched_state \in {"Idle", "Active"}
    BY <1>1 DEF ProcsInv, IdleWhenAllExited, ProcsTypeOK
  <2>3. Cardinality(A') = Cardinality(A) - 1 /\ Cardinality(A) \in Nat /\ IsFiniteSet(A') /\ Cardinality(A') \in Nat
    <3> HIDE DEF A
    <3> QED BY <2>1, FS_RemoveElement, FS_CardinalityType, ZenonT(60)
  <2>4. runnable' = Cardinality(A') /\ (sched_state' = "Idle" <=> runnable' = 0)
    <3> HIDE DEF A
    <3> QED BY <2>2, <2>3 DEF ExitStep, task_unready
  <2>5. ASSUME runnable' = 0 PROVE procs'[boot'.pid].state = "Zombie"
    BY <1>1, <1>8, <1>9, <2>3, <2>4, <2>5, IdleMeansZombie
  <2> QED BY <2>4, <2>5 DEF IdleWhenAllExited
<1> QED BY <1>2, <1>3, <1>6, <1>7, <1>8, <1>9, <1>10, Zenon DEF ProcsInv

(* A fork: a fresh pid in a free slot, for the process on the core.        *)
ForkStep(s, n) ==
    /\ spawn(next_pid) /\ next_pid <= MaxPid
    /\ N' = (IF n = N THEN N + 1 ELSE N)
    /\ pid' = [pid EXCEPT ![n] = next_pid]
    /\ parent_pid' = [parent_pid EXCEPT ![n] = pid[s]]
    /\ state' = [state EXCEPT ![n] = "Runnable"]
    /\ task_ready
    /\ pc' = [pc EXCEPT ![s] = "boundary"]
    /\ UNCHANGED <<arg, CURRENT, boot>>

LEMMA AllocFacts ==
    ASSUME ProcsInv, NEW n \in alloc_slot
    PROVE  n \in Threads /\ state[n] = "Free" /\ n <= N /\ n \in Nat /\ n >= 1
<1> DEFINE freed == {s \in 1 .. N - 1 : state[s] = "Free"}
<1>1. N \in Nat /\ N >= 1 /\ 1 .. N - 1 \in SUBSET Threads
  BY ThreadsFacts DEF ProcsInv, ProcsTypeOK
<1>2. CASE freed # {}
  <2>1. n = Lowest(freed)
    BY <1>2 DEF alloc_slot
  <2>2. freed \in SUBSET Nat
    BY <1>1
  <2>3. n \in freed
    <3> HIDE DEF freed
    <3> QED BY <1>2, <2>1, <2>2, LowestOf
  <2> QED BY <1>1, <2>3
<1>3. CASE freed = {}
  <2>1. n = N /\ N + 1 < MAX_THREADS
    BY <1>3 DEF alloc_slot
  <2>2. n \in Threads
    BY <1>1, <2>1, ThreadsAssumption DEF Threads
  <2> QED BY <1>1, <2>1, <2>2 DEF ProcsInv, SlotsBelow
<1> QED BY <1>2, <1>3

LEMMA ForkInv ==
    ASSUME ProcsInv, ProcsTypeOK', NEW s \in Threads, CURRENT = s, state[s] = "Runnable",
           pc[s] = "user", NEW n \in alloc_slot, ForkStep(s, n)
    PROVE  ProcsInv'
<1> DEFINE A == {t \in Threads : Alive(t)}
<1>1. boot.at = "run" /\ s # 0 /\ pid[s] # 0 /\ s \in 1 .. N - 1
  BY CurrentFacts, ThreadsFacts
<1>2. n \in Threads /\ state[n] = "Free" /\ n # s /\ n <= N /\ n \in Nat /\ n >= 1
  BY AllocFacts
<1>3. /\ boot' = boot /\ CURRENT' = CURRENT /\ arg' = arg
      /\ N \in Nat /\ N' = (IF n = N THEN N + 1 ELSE N)
      /\ \A t \in Threads : pid'[t] = IF t = n THEN next_pid ELSE pid[t]
      /\ \A t \in Threads : parent_pid'[t] = IF t = n THEN pid[s] ELSE parent_pid[t]
      /\ \A t \in Threads : state'[t] = IF t = n THEN "Runnable" ELSE state[t]
      /\ \A t \in Threads : pc'[t] = IF t = s THEN "boundary" ELSE pc[t]
  BY DEF ForkStep, ProcsInv, ProcsTypeOK
<1>4. PcsMatch' /\ TrampsArmed'
  <2>1. pc[n] = "user"
    BY <1>2 DEF ProcsInv, PcsMatch
  <2> QED BY <1>2, <1>3, <2>1 DEF ProcsInv, PcsMatch, TrampsArmed
<1>5. OnCore'
  BY <1>1, <1>2, <1>3, Zenon DEF OnCore
<1>6. SlotsBelow'
  <2> SUFFICES ASSUME NEW t \in Threads, t >= N' PROVE state'[t] = "Free"
    BY DEF SlotsBelow
  <2>1. t \in Nat
    BY ThreadsFacts
  <2>2. t # n /\ t >= N
    BY <1>2, <1>3, <2>1
  <2> QED BY <1>3, <2>2 DEF ProcsInv, SlotsBelow
<1>7. next_pid \in Nat \ {0} /\ next_pid \notin DOMAIN procs
  BY DEF ProcsInv, ProcsTypeOK, TableTypeOK
<1>8. BootSlot'
  BY <1>1, <1>2, <1>3, <1>7, ThreadsFacts, Zenon DEF ProcsInv, BootSlot
<1>9. TablesAgree'
  <2>1. /\ DOMAIN procs' = DOMAIN procs \cup {next_pid}
        /\ procs'[next_pid].state = "Ready"
        /\ \A q \in DOMAIN procs : procs'[q] = procs[q]
    BY <1>7, Zenon DEF ForkStep, spawn, make_ready, NewProcess
  <2>2. \A t \in Threads : state[t] # "Free" =>
           /\ pid[t] \in DOMAIN procs
           /\ procs[pid[t]].state = IF state[t] = "Dead" THEN "Zombie" ELSE "Ready"
    BY <1>1 DEF ProcsInv, TablesAgree, Used
  <2>3. ASSUME NEW t \in Threads, state'[t] # "Free"
        PROVE  /\ pid'[t] \in DOMAIN procs'
               /\ procs'[pid'[t]].state = IF state'[t] = "Dead" THEN "Zombie" ELSE "Ready"
    <3>1. CASE t = n
      BY <1>3, <2>1, <3>1, SMTT(30)
    <3>2. CASE t # n
      <4>1. state'[t] = state[t] /\ pid'[t] = pid[t]
        BY <1>3, <3>2
      <4>2. /\ pid[t] \in DOMAIN procs
            /\ procs[pid[t]].state = IF state[t] = "Dead" THEN "Zombie" ELSE "Ready"
        BY <2>2, <2>3, <4>1, Zenon
      <4>3. pid[t] \in DOMAIN procs' /\ procs'[pid[t]] = procs[pid[t]]
        BY <2>1, <4>2, Zenon
      <4> QED BY <4>1, <4>2, <4>3, Zenon
    <3> QED BY <3>1, <3>2, Zenon
  <2>4. ASSUME NEW t \in Threads, NEW u \in Threads, state'[t] # "Free", state'[u] # "Free",
               pid'[t] = pid'[u]
        PROVE  t = u
    <3>1. CASE t # n /\ u # n
      BY <1>1, <1>3, <2>4, <3>1, PidsUnique
    <3>2. CASE t = n \/ u = n
      BY <1>3, <1>7, <2>2, <2>4, <3>2
    <3> QED BY <3>1, <3>2
  <2> QED BY <2>3, <2>4 DEF TablesAgree, Used
<1>10. IdleWhenAllExited'
  <2>1. IsFiniteSet(A) /\ n \notin A /\ A' = A \cup {n}
    <3>1. IsFiniteSet(A)
      BY ThreadsFacts, FS_Subset
    <3> QED BY <3>1, <1>2, <1>3, Zenon DEF Alive
  <2>2. Cardinality(A') = Cardinality(A) + 1 /\ Cardinality(A) \in Nat
    <3> HIDE DEF A
    <3> QED BY <2>1, FS_AddElement, FS_CardinalityType, ZenonT(60)
  <2>3. runnable = Cardinality(A)
    BY <1>1 DEF ProcsInv, IdleWhenAllExited
  <2>4. runnable' = Cardinality(A') /\ runnable' # 0 /\ sched_state' = "Active"
    <3> HIDE DEF A
    <3> QED BY <2>2, <2>3 DEF ForkStep, task_ready
  <2> QED BY <2>4 DEF IdleWhenAllExited
<1>11. WaitersHaveReason'
  <2> SUFFICES ASSUME NEW t \in Threads, state'[t] = "Blocked", pc'[t] = "wait!"
               PROVE  ~WaitReady(t)'
    BY Zenon DEF WaitersHaveReason
  <2>1. t # n /\ t # s /\ state[t] = "Blocked" /\ pc[t] = "wait!"
    BY <1>3, SMTT(30)
  <2>2. ~WaitReady(t) /\ pid'[t] = pid[t] /\ arg'[t] = arg[t]
    BY <1>3, <2>1, ZenonT(60) DEF ProcsInv, WaitersHaveReason
  <2>3. pid[t] # pid[s]
    BY <1>1, <2>1, PidsUnique
  <2>4. \A c \in Threads : c # n => (c \in 1 .. N' - 1 <=> c \in 1 .. N - 1)
    BY <1>2, <1>3, ThreadsFacts
  <2>5. 1 .. N' - 1 \in SUBSET Threads
    BY ThreadsFacts, ZenonT(60) DEF ProcsTypeOK
  <2>6. \A c \in Threads : c \in 1 .. N' - 1 /\ parent_pid'[c] = pid[t] /\ state'[c] # "Free"
              <=> c \in 1 .. N - 1 /\ parent_pid[c] = pid[t] /\ state[c] # "Free"
    BY <1>2, <1>3, <2>3, <2>4, Zenon
  <2>7. \A c \in Threads : parent_pid'[c] = pid[t] /\ state'[c] # "Free" =>
              pid'[c] = pid[c] /\ (state'[c] \in {"Dead", "Stopped"} => state[c] = state'[c])
    BY <1>3, <2>3, Zenon
  <2> QED BY <2>2, <2>5, <2>6, <2>7, ReasonLasts, Zenon
<1> QED BY <1>4, <1>5, <1>6, <1>8, <1>9, <1>10, <1>11 DEF ProcsInv

(* Reaping: dead children of the process on the core leave both tables.    *)
LEMMA ReapProcsInv ==
    ASSUME ProcsInv, ProcsTypeOK', NEW s \in Threads, CURRENT = s, state[s] = "Runnable",
           NEW R \in SUBSET Threads,
           \A c \in R : state[c] = "Dead" /\ parent_pid[c] = pid[s],
           Reap(R),
           \A t \in Threads : pc'[t] = IF t = s THEN "boundary"
                                       ELSE IF t \in R THEN "user" ELSE pc[t],
           UNCHANGED <<CURRENT, fsm_vars, arg, boot>>
    PROVE  ProcsInv'
<1>1. boot.at = "run" /\ s # 0 /\ pid[s] # 0 /\ s \notin R
  BY CurrentFacts, ThreadsFacts, Zenon
<1>2. /\ \A t \in Threads : state'[t] = IF t \in R THEN "Free" ELSE state[t]
      /\ \A t \in Threads : pid'[t] = IF t \in R THEN 0 ELSE pid[t]
      /\ \A t \in Threads : parent_pid'[t] = IF t \in R THEN 0 ELSE parent_pid[t]
      /\ N' = N /\ boot' = boot /\ CURRENT' = CURRENT /\ arg' = arg
      /\ runnable' = runnable /\ sched_state' = sched_state
  BY DEF Reap, fsm_vars
<1>3. 1 \notin R
  BY <1>1 DEF ProcsInv, BootSlot
<1>4. \A t \in Threads : Alive(t)' <=> Alive(t)
  BY <1>2 DEF Alive
<1>5. PcsMatch' /\ TrampsArmed'
  BY <1>1, <1>2 DEF ProcsInv, PcsMatch, TrampsArmed
<1>6. OnCore'
  BY <1>1, <1>2 DEF OnCore
<1>7. SlotsBelow'
  BY <1>2 DEF ProcsInv, SlotsBelow
<1>8. BootSlot'
  BY <1>1, <1>2, <1>3, ThreadsFacts, Zenon DEF ProcsInv, BootSlot
<1>9. \A t \in Threads : state'[t] # "Free" =>
         /\ t \notin R /\ pid'[t] = pid[t] /\ pid[t] \in DOMAIN procs' /\ procs'[pid[t]] = procs[pid[t]]
         /\ pid[t] \in DOMAIN procs
         /\ procs[pid[t]].state = IF state[t] = "Dead" THEN "Zombie" ELSE "Ready"
  <2> SUFFICES ASSUME NEW t \in Threads, state'[t] # "Free"
               PROVE  /\ t \notin R /\ pid'[t] = pid[t] /\ pid[t] \in DOMAIN procs'
                      /\ procs'[pid[t]] = procs[pid[t]] /\ pid[t] \in DOMAIN procs
                      /\ procs[pid[t]].state = IF state[t] = "Dead" THEN "Zombie" ELSE "Ready"
    OBVIOUS
  <2>1. t \notin R /\ state[t] # "Free"
    BY <1>2, SMTT(30)
  <2>2. /\ pid[t] \in DOMAIN procs
        /\ procs[pid[t]].state = IF state[t] = "Dead" THEN "Zombie" ELSE "Ready"
    BY <1>1, <2>1, ZenonT(60) DEF ProcsInv, TablesAgree, Used
  <2>3. pid[t] \notin {pid[u] : u \in R}
    BY <1>1, <2>1, PidsUnique, Zenon
  <2>4. pid[t] \in DOMAIN procs' /\ procs'[pid[t]] = procs[pid[t]]
    BY <2>2, <2>3, Zenon DEF Reap
  <2> QED BY <1>2, <2>1, <2>2, <2>4, Zenon
<1>10. TablesAgree'
  <2>1. ASSUME NEW t \in Threads, state'[t] # "Free"
        PROVE  /\ pid'[t] \in DOMAIN procs'
               /\ procs'[pid'[t]].state = IF state'[t] = "Dead" THEN "Zombie" ELSE "Ready"
    <3>1. /\ t \notin R /\ pid'[t] = pid[t] /\ pid[t] \in DOMAIN procs'
          /\ procs'[pid[t]] = procs[pid[t]]
          /\ procs[pid[t]].state = IF state[t] = "Dead" THEN "Zombie" ELSE "Ready"
      BY <1>9, <2>1, Zenon
    <3>2. state'[t] = state[t]
      BY <1>2, <3>1, Zenon
    <3> QED BY <3>1, <3>2, Zenon
  <2>2. ASSUME NEW t \in Threads, NEW u \in Threads, state'[t] # "Free", state'[u] # "Free",
               pid'[t] = pid'[u]
        PROVE  t = u
    <3>1. pid[t] = pid[u] /\ state[t] # "Free" /\ state[u] # "Free"
      BY <1>2, <1>9, <2>2, Zenon
    <3> QED BY <1>1, <3>1, PidsUnique, Zenon
  <2> QED BY <2>1, <2>2, Zenon DEF TablesAgree, Used
<1>11. IdleWhenAllExited'
  <2>1. {t \in Threads : Alive(t)}' = {t \in Threads : Alive(t)}
    BY <1>4
  <2>2. boot.pid = pid[1] /\ state'[1] # "Free" /\ 1 \in Threads
    BY <1>1, <1>2, <1>3, ThreadsFacts, Zenon DEF ProcsInv, BootSlot
  <2>3. procs'[boot.pid] = procs[boot.pid]
    BY <1>9, <2>2
  <2> QED BY <1>1, <1>2, <2>1, <2>3, ZenonT(60) DEF ProcsInv, IdleWhenAllExited
<1>12. WaitersHaveReason'
  <2> SUFFICES ASSUME NEW t \in Threads, state'[t] = "Blocked", pc'[t] = "wait!"
               PROVE  ~WaitReady(t)'
    BY Zenon DEF WaitersHaveReason
  <2>1. t \notin R /\ t # s /\ state[t] = "Blocked" /\ pc[t] = "wait!" /\ pid'[t] = pid[t]
    BY <1>2
  <2>2. ~WaitReady(t) /\ arg'[t] = arg[t]
    BY <1>2, <2>1 DEF ProcsInv, WaitersHaveReason
  <2>3. pid[t] # pid[s]
    BY <1>1, <2>1, PidsUnique, SMTT(30)
  <2>4. 1 .. N' - 1 \in SUBSET Threads
    BY ThreadsFacts, Zenon DEF ProcsTypeOK
  <2>5. \A c \in Threads : c \in 1 .. N' - 1 /\ parent_pid'[c] = pid[t] /\ state'[c] # "Free"
              <=> c \in 1 .. N - 1 /\ parent_pid[c] = pid[t] /\ state[c] # "Free"
    BY <1>2, <2>3
  <2>6. \A c \in Threads : parent_pid'[c] = pid[t] /\ state'[c] # "Free" =>
              pid'[c] = pid[c] /\ (state'[c] \in {"Dead", "Stopped"} => state[c] = state'[c])
    BY <1>2
  <2> QED BY <2>1, <2>2, <2>4, <2>5, <2>6, ReasonLasts, Zenon
<1> QED BY <1>5, <1>6, <1>7, <1>8, <1>10, <1>11, <1>12 DEF ProcsInv

-----------------------------------------------------------------------------
(* The actions.                                                            *)

RunStates == {"Free", "Runnable", "Blocked", "Stopped", "Dead"}

(* Sleepers woken, stopped processes resumed, nothing else.                *)
Wakes ==
    /\ state' \in [Threads -> RunStates]
    /\ \A t \in Threads : \/ state'[t] = state[t]
                          \/ state[t] \in {"Blocked", "Stopped"} /\ state'[t] = "Runnable"

LEMMA NobodyWoken == ASSUME ProcsTypeOK, UNCHANGED state PROVE Wakes
BY DEF ProcsTypeOK, Wakes, RunStates

LEMMA ProdWakes ==
    ASSUME ProcsTypeOK, NEW s \in Threads, NEW sig, state' = Prod(s, sig, state)
    PROVE  Wakes
<1>1. CASE state[s] \in {"Blocked", "Stopped"} /\ state' = [state EXCEPT ![s] = "Runnable"]
  BY <1>1 DEF ProcsTypeOK, Wakes, RunStates
<1>2. CASE state' = state
  BY <1>2, NobodyWoken
<1> QED BY <1>1, <1>2 DEF Prod

LEMMA TableTypeKept == ASSUME TableTypeOK, UNCHANGED table_vars PROVE TableTypeOK'
BY DEF TableTypeOK, table_vars

LEMMA SigTypeKept == ASSUME ProcsTypeOK, UNCHANGED sig_vars PROVE SigTypeOK'
BY DEF ProcsTypeOK, SigTypeOK, sig_vars

LEMMA TypesTogether == ASSUME TableTypeOK', CoreTypeOK', SigTypeOK' PROVE ProcsTypeOK'
<1>1. 128 + 31 = 159
  OBVIOUS
<1> QED BY <1>1, ZenonT(60) DEF ProcsTypeOK, CoreTypeOK, SigTypeOK, Status

(* The process on the core goes on to `next', waking whom it likes.        *)
MoveOn(s, next) ==
    /\ TablesKept /\ Wakes
    /\ CURRENT' = CURRENT /\ irq_on' \in BOOLEAN
    /\ pc' = [pc EXCEPT ![s] = next]
    /\ arg' \in [Threads -> Nat] /\ \A t \in Threads \ {s} : arg'[t] = arg[t]
    /\ PENDING_EXIT' \in Status

LEMMA MoveOnInv ==
    ASSUME ProcsInv, NEW s \in Threads, CURRENT = s, state[s] = "Runnable",
           NEW next \in PCs \ {"tramp", "dead"}, MoveOn(s, next), SigTypeOK'
    PROVE  ProcsInv'
<1>1. ProcsTypeOK'
  <2>1. TableTypeOK'
    BY TableTypeKept DEF ProcsInv, ProcsTypeOK, MoveOn, TablesKept
  <2>2. CoreTypeOK'
    <3>1. pc' \in [Threads -> PCs]
      BY DEF MoveOn, ProcsInv, ProcsTypeOK
    <3> HIDE DEF PCs
    <3> QED BY <3>1 DEF MoveOn, TablesKept, Wakes, RunStates, ProcsInv, ProcsTypeOK,
                 CoreTypeOK, id_vars, fsm_vars
  <2> QED BY <2>1, <2>2, TypesTogether
<1>2. CalmStep(s)
  BY DEF MoveOn, Wakes, CalmStep, ProcsInv, ProcsTypeOK
<1> QED BY <1>1, <1>2, CalmInv

(* An interrupt wakes processes.                                           *)
LEMMA WakeInv ==
    ASSUME ProcsInv, TablesKept, Wakes, SigTypeOK', irq_on' \in BOOLEAN,
           UNCHANGED <<CURRENT, PENDING_EXIT, pc, arg>>
    PROVE  ProcsInv'
<1>1. ProcsTypeOK'
  <2>1. TableTypeOK'
    BY TableTypeKept DEF ProcsInv, ProcsTypeOK, TablesKept
  <2>2. CoreTypeOK'
    BY DEF TablesKept, Wakes, RunStates, ProcsInv, ProcsTypeOK, CoreTypeOK, id_vars,
           fsm_vars, Status
  <2> QED BY <2>1, <2>2, TypesTogether
<1>2. CalmStep(1)
  BY ThreadsFacts DEF Wakes, CalmStep, ProcsInv, ProcsTypeOK, PcsMatch, TrampsArmed,
     OnCore, WaitersHaveReason, Stoppable, Sleeping
<1> QED BY <1>1, <1>2, CalmInv, ThreadsFacts

(* The calls that only move on.                                            *)
Plain(s) ==
    \/ \E code \in Codes : sys_exit(s, code)
    \/ ForkPanics(s)
    \/ \E t \in 0 .. MaxPid : sys_wait(s, t)
    \/ sys_other(s) \/ read_line(s) \/ exec(s)
    \/ LineRead(s) \/ Trampoline(s)

LEMMA PlainInv ==
    ASSUME ProcsInv, NEW s \in Threads, Plain(s)
    PROVE  ProcsInv'
<1>1. CURRENT = s /\ pc[s] \in {"user", "tty", "tramp"} /\ UNCHANGED <<sig_vars, state>>
  BY DEF Plain, sys_exit, ForkPanics, sys_wait, sys_other, read_line, exec, LineRead,
         Trampoline, Syscall
<1>2. state[s] = "Runnable" /\ ProcsTypeOK /\ SigTypeOK' /\ Wakes
  BY <1>1, CurrentFacts, SigTypeKept, NobodyWoken DEF ProcsInv
<1>3. PENDING_EXIT \in Status /\ Codes \subseteq Status /\ 128 .. 159 \subseteq Status
  BY <1>2 DEF ProcsTypeOK, Status
<1>4. arg \in [Threads -> Nat] /\ (pc[s] = "tramp" => arg[s] \in 128 .. 159)
  BY DEF ProcsInv, ProcsTypeOK, TrampsArmed
<1> DEFINE Kept == TablesKept /\ CURRENT' = CURRENT /\ irq_on' \in BOOLEAN
<1>5. Kept
  BY ZenonT(60) DEF Plain, sys_exit, ForkPanics, sys_wait, sys_other, read_line, exec, LineRead,
         Trampoline, Syscall, TablesKept, Untouched
<1> HIDE DEF Kept
<1>6. ASSUME NEW code \in Codes, sys_exit(s, code) PROVE MoveOn(s, "exiting")
  BY <1>2, <1>3, <1>4, <1>5, <1>6 DEF sys_exit, Syscall, MoveOn, Kept
<1>7. ASSUME ForkPanics(s) PROVE MoveOn(s, "panic")
  BY <1>2, <1>3, <1>4, <1>5, <1>7 DEF ForkPanics, Syscall, MoveOn, Kept
<1>8. ASSUME NEW t \in 0 .. MaxPid, sys_wait(s, t) PROVE MoveOn(s, "wait?")
  BY <1>2, <1>3, <1>4, <1>5, <1>8, TableAssumption DEF sys_wait, Syscall, MoveOn, Kept
<1>9. ASSUME sys_other(s) PROVE MoveOn(s, "boundary")
  BY <1>2, <1>3, <1>4, <1>5, <1>9 DEF sys_other, Syscall, MoveOn, Kept
<1>10. ASSUME read_line(s) PROVE MoveOn(s, "tty")
  BY <1>2, <1>3, <1>4, <1>5, <1>10 DEF read_line, MoveOn, Kept
<1>11. ASSUME exec(s) PROVE MoveOn(s, "disk?")
  BY <1>2, <1>3, <1>4, <1>5, <1>11 DEF exec, Syscall, MoveOn, Kept
<1>12. ASSUME LineRead(s) PROVE MoveOn(s, "boundary")
  BY <1>2, <1>3, <1>4, <1>5, <1>12 DEF LineRead, MoveOn, Kept
<1>13. ASSUME Trampoline(s) PROVE MoveOn(s, "exiting")
  BY <1>2, <1>3, <1>4, <1>5, <1>13 DEF Trampoline, MoveOn, Kept
<1>14. \E next \in {"exiting", "panic", "wait?", "boundary", "tty", "disk?"} : MoveOn(s, next)
  BY <1>6, <1>7, <1>8, <1>9, <1>10, <1>11, <1>12, <1>13 DEF Plain
<1>15. {"exiting", "panic", "wait?", "boundary", "tty", "disk?"} \subseteq PCs \ {"tramp", "dead"}
  BY DEF PCs
<1> QED BY <1>1, <1>2, <1>14, <1>15, MoveOnInv, Zenon

(* kill, sigaction, sigprocmask and exec's reset of the handlers.          *)
LEMMA SlotOfPid ==
    ASSUME ProcsTypeOK, NEW p, slot_of_pid(p) # {}
    PROVE  Lowest(slot_of_pid(p)) \in Threads
<1>1. slot_of_pid(p) \in SUBSET Threads /\ slot_of_pid(p) \in SUBSET Nat
  BY ThreadsFacts DEF slot_of_pid, ProcsTypeOK
<1> HIDE DEF slot_of_pid
<1> QED BY <1>1, LowestOf

LEMMA PendType ==
    ASSUME NEW s \in Threads, NEW sig \in AllSignals,
           NEW P \in [Threads -> SUBSET AllSignals]
    PROVE  Pend(s, sig, P) \in [Threads -> SUBSET AllSignals]
BY DEF Pend

LEMMA SignalCallsInv ==
    ASSUME ProcsInv, NEW s \in Threads,
           \/ \E t \in 1 .. MaxPid, g \in Signals : sys_kill(s, t, g)
           \/ \E g \in Signals, h \in {"SIG_DFL", "SIG_IGN", "handler"}, r \in BOOLEAN :
                 sys_sigaction(s, g, h, r)
           \/ \E how \in 0 .. 2, mask \in SUBSET Signals : set_signal_mask(s, how, mask)
           \/ exec_into(s)
    PROVE  ProcsInv'
<1>1. CURRENT = s /\ pc[s] \in {"user", "disk."}
  BY DEF sys_kill, sys_sigaction, set_signal_mask, exec_into, Syscall
<1>2. state[s] = "Runnable" /\ ProcsTypeOK
  BY <1>1, CurrentFacts DEF ProcsInv
<1>3. /\ TablesKept /\ CURRENT' = CURRENT /\ irq_on' \in BOOLEAN /\ arg' = arg
      /\ PENDING_EXIT' = PENDING_EXIT /\ pc' = [pc EXCEPT ![s] = "boundary"]
  BY ZenonT(60) DEF sys_kill, sys_sigaction, set_signal_mask, exec_into, Syscall, TablesKept, Untouched
<1>4. Wakes /\ SigTypeOK' => ProcsInv'
  <2>1. Wakes => MoveOn(s, "boundary")
    BY <1>2, <1>3 DEF MoveOn, ProcsTypeOK, Status
  <2>2. "boundary" \in PCs \ {"tramp", "dead"}
    BY DEF PCs
  <2> QED BY <1>1, <1>2, <2>1, <2>2, MoveOnInv
<1>5. sig_handlers \in [Threads -> [AllSignals -> {"SIG_DFL", "SIG_IGN", "handler"}]]
  BY <1>2 DEF ProcsTypeOK
<1>6. ASSUME NEW t \in 1 .. MaxPid, NEW g \in Signals, sys_kill(s, t, g)
      PROVE  Wakes /\ SigTypeOK'
  <2>1. UNCHANGED <<sig_blocked, sig_handlers, sig_restorer>>
    BY <1>6, Zenon DEF sys_kill
  <2>2. CASE slot_of_pid(t) = {}
    <3>1. UNCHANGED <<sig_pending, state>>
      BY <1>6, <2>2 DEF sys_kill
    <3> QED BY <1>2, <2>1, <3>1, NobodyWoken, Zenon DEF ProcsTypeOK, SigTypeOK
  <2>3. CASE slot_of_pid(t) # {}
    <3>1. PICK u \in Threads : u = Lowest(slot_of_pid(t))
      BY <1>2, <2>3, SlotOfPid
    <3>2. sig_pending' = Pend(u, g, sig_pending) /\ state' = Prod(u, g, state)
      BY <1>6, <2>3, <3>1 DEF sys_kill
    <3>3. Wakes
      BY <1>2, <3>2, ProdWakes
    <3>4. sig_pending' \in [Threads -> SUBSET AllSignals]
      <4>1. g \in AllSignals /\ sig_pending \in [Threads -> SUBSET AllSignals]
        BY <1>2, SignalsFacts, Zenon DEF ProcsTypeOK
      <4> QED BY <3>2, <4>1, PendType
    <3> QED BY <1>2, <2>1, <3>3, <3>4 DEF ProcsTypeOK, SigTypeOK
  <2> QED BY <2>2, <2>3
<1>7. ASSUME NEW g \in Signals, NEW h \in {"SIG_DFL", "SIG_IGN", "handler"}, NEW r \in BOOLEAN,
             sys_sigaction(s, g, h, r)
      PROVE  Wakes /\ SigTypeOK'
  <2>1. UNCHANGED <<state, sig_pending, sig_blocked>>
    BY <1>7 DEF sys_sigaction
  <2>2. sig_handlers' \in [Threads -> [AllSignals -> {"SIG_DFL", "SIG_IGN", "handler"}]]
    <3>1. sig_handlers' = [sig_handlers EXCEPT ![s] = [sig_handlers[s] EXCEPT ![g] = h]]
      BY <1>7 DEF sys_sigaction
    <3>2. [sig_handlers[s] EXCEPT ![g] = h] \in [AllSignals -> {"SIG_DFL", "SIG_IGN", "handler"}]
      BY <1>5, ZenonT(60)
    <3> QED BY <1>5, <3>1, <3>2
  <2>3. sig_restorer' \in [Threads -> BOOLEAN]
    <3>1. (sig_restorer[s] \/ r) \in BOOLEAN
      OBVIOUS
    <3>2. sig_restorer' = [sig_restorer EXCEPT ![s] = sig_restorer[s] \/ r]
      BY <1>7 DEF sys_sigaction
    <3> QED BY <1>2, <3>1, <3>2, Zenon DEF ProcsTypeOK
  <2> QED BY <1>2, <2>1, <2>2, <2>3, NobodyWoken DEF ProcsTypeOK, SigTypeOK
<1>8. ASSUME NEW how \in 0 .. 2, NEW mask \in SUBSET Signals, set_signal_mask(s, how, mask)
      PROVE  Wakes /\ SigTypeOK'
  <2>1. UNCHANGED <<state, sig_pending, sig_handlers, sig_restorer>>
    BY <1>8 DEF set_signal_mask
  <2>2. PICK m \in SUBSET AllSignals :
           sig_blocked' = [sig_blocked EXCEPT ![s] = m \ {SIGKILL, SIGSTOP}]
    <3>1. sig_blocked[s] \in SUBSET AllSignals /\ mask \in SUBSET AllSignals
      BY <1>2, SignalsFacts DEF ProcsTypeOK
    <3>2. CASE how = 1
      <4>1. how # 2
        BY <3>2
      <4>2. sig_blocked' = [sig_blocked EXCEPT ![s] = (sig_blocked[s] \cup mask) \ {SIGKILL, SIGSTOP}]
        BY <1>8, <3>2, <4>1, Zenon DEF set_signal_mask
      <4> QED BY <3>1, <4>2, Zenon
    <3>3. CASE how = 2
      <4>1. sig_blocked' = [sig_blocked EXCEPT ![s] = (sig_blocked[s] \ mask) \ {SIGKILL, SIGSTOP}]
        BY <1>8, <3>3 DEF set_signal_mask
      <4> QED BY <3>1, <4>1, Zenon
    <3>4. CASE how # 1 /\ how # 2
      <4>1. sig_blocked' = [sig_blocked EXCEPT ![s] = mask \ {SIGKILL, SIGSTOP}]
        BY <1>8, <3>4, Zenon DEF set_signal_mask
      <4> QED BY <3>1, <4>1, ZenonT(60)
    <3> QED BY <3>2, <3>3, <3>4
  <2> QED BY <1>2, <2>1, <2>2, NobodyWoken DEF ProcsTypeOK, SigTypeOK
<1>9. ASSUME exec_into(s) PROVE Wakes /\ SigTypeOK'
  <2>1. UNCHANGED <<state, sig_pending, sig_blocked, sig_restorer>>
    BY <1>9 DEF exec_into
  <2>2. NoHandlers \in [AllSignals -> {"SIG_DFL", "SIG_IGN", "handler"}]
    BY DEF NoHandlers
  <2>3. sig_handlers' \in [Threads -> [AllSignals -> {"SIG_DFL", "SIG_IGN", "handler"}]]
    BY <1>5, <1>9, <2>2 DEF exec_into
  <2> QED BY <1>2, <2>1, <2>3, NobodyWoken DEF ProcsTypeOK, SigTypeOK
<1> QED BY <1>4, <1>6, <1>7, <1>8, <1>9

(* sti;hlt, and the test before it.                                        *)
LEMMA ParkInv ==
    ASSUME ProcsInv, NEW s \in Threads, NEW irq \in BOOLEAN,
           \/ Park(s, "wait!", "Blocked", "wait?", irq)
           \/ Park(s, "disk!", "Blocked", "disk?", irq)
           \/ Park(s, "stop!", "Stopped", "boundary", irq)
           \/ Park(s, "xstop!", "Stopped", "exiting", irq)
    PROVE  ProcsInv'
<1>1. /\ UNCHANGED <<table_vars, id_vars, CURRENT, state, sig_vars, fsm_vars, PENDING_EXIT, arg, boot>>
      /\ CURRENT = s /\ pc[s] \in {"wait!", "disk!", "stop!", "xstop!"}
  BY DEF Park
<1>2. ProcsTypeOK /\ SigTypeOK' /\ Wakes /\ TablesKept /\ state[s] # "Free"
  BY <1>1, SigTypeKept, NobodyWoken, CurrentFacts, Zenon DEF ProcsInv, TablesKept
<1>3. CASE irq_on' = TRUE /\ UNCHANGED pc
  BY <1>1, <1>2, <1>3, WakeInv, Zenon
<1>4. CASE /\ irq_on' = irq
           /\ \/ pc[s] = "wait!" /\ state[s] # "Blocked" /\ pc' = [pc EXCEPT ![s] = "wait?"]
              \/ pc[s] = "disk!" /\ state[s] # "Blocked" /\ pc' = [pc EXCEPT ![s] = "disk?"]
              \/ pc[s] = "stop!" /\ state[s] # "Stopped" /\ pc' = [pc EXCEPT ![s] = "boundary"]
              \/ pc[s] = "xstop!" /\ state[s] # "Stopped" /\ pc' = [pc EXCEPT ![s] = "exiting"]
  <2>1. state[s] = "Runnable"
    BY <1>2, <1>4, Zenon DEF ProcsInv, PcsMatch, ProcsTypeOK, Stoppable, Sleeping
  <2>2. \E next \in {"wait?", "disk?", "boundary", "exiting"} : MoveOn(s, next)
    <3>1. PICK next \in {"wait?", "disk?", "boundary", "exiting"} : pc' = [pc EXCEPT ![s] = next]
      BY <1>4, Zenon
    <3>2. arg \in [Threads -> Nat] /\ PENDING_EXIT \in Status /\ irq_on' \in BOOLEAN
      BY <1>2, <1>4 DEF ProcsTypeOK, Status
    <3>3. MoveOn(s, next)
      BY <1>1, <1>2, <3>1, <3>2 DEF MoveOn
    <3> QED BY <3>3
  <2>3. {"wait?", "disk?", "boundary", "exiting"} \subseteq PCs \ {"tramp", "dead"}
    BY DEF PCs
  <2> QED BY <1>1, <1>2, <2>1, <2>2, <2>3, MoveOnInv, Zenon
<1> QED BY <1>3, <1>4, ZenonT(60) DEF Park

LEMMA CheckInv ==
    ASSUME ProcsInv, NEW s \in Threads,
           \/ CheckOrBlock(s, "wait?", WaitReady(s), "wait!", "wait.")
           \/ \E done \in BOOLEAN : CheckOrBlock(s, "disk?", done, "disk!", "disk.")
    PROVE  ProcsInv'
<1>1. /\ UNCHANGED <<table_vars, id_vars, CURRENT, irq_on, sig_vars, fsm_vars, PENDING_EXIT, arg, boot>>
      /\ CURRENT = s /\ pc[s] \in {"wait?", "disk?"}
  BY DEF CheckOrBlock
<1>2. ProcsTypeOK /\ SigTypeOK' /\ TablesKept /\ state[s] = "Runnable"
  BY <1>1, SigTypeKept, CurrentFacts DEF ProcsInv, TablesKept
<1>3. CASE state' = state /\ \E next \in {"wait.", "disk."} : pc' = [pc EXCEPT ![s] = next]
  <2>1. \E next \in {"wait.", "disk."} : MoveOn(s, next)
    <3>1. PICK next \in {"wait.", "disk."} : pc' = [pc EXCEPT ![s] = next]
      BY <1>3, ZenonT(60)
    <3>2. arg \in [Threads -> Nat] /\ PENDING_EXIT \in Status /\ irq_on' \in BOOLEAN /\ Wakes
      BY <1>1, <1>2, <1>3, NobodyWoken DEF ProcsTypeOK, Status
    <3>3. MoveOn(s, next)
      BY <1>1, <1>2, <3>1, <3>2 DEF MoveOn
    <3> QED BY <3>3
  <2>2. {"wait.", "disk."} \subseteq PCs \ {"tramp", "dead"}
    BY DEF PCs
  <2> QED BY <1>1, <1>2, <2>1, <2>2, MoveOnInv
<1>4. CASE /\ state' = [state EXCEPT ![s] = "Blocked"]
           /\ \E next \in Sleeping : /\ pc' = [pc EXCEPT ![s] = next]
                                     /\ next = "wait!" => ~WaitReady(s)
  <2>1. ProcsTypeOK'
    <3>1. TableTypeOK'
      BY <1>1, TableTypeKept, Zenon DEF ProcsInv, ProcsTypeOK
    <3>2. CoreTypeOK'
      BY <1>1, <1>2, <1>4 DEF CoreTypeOK, ProcsTypeOK, id_vars, fsm_vars, Status, Sleeping, PCs
    <3> QED BY <1>2, <3>1, <3>2, TypesTogether, Zenon
  <2>2. CalmStep(s)
    <3>1. /\ \A t \in Threads \ {s} : pc'[t] = pc[t] /\ state'[t] = state[t]
          /\ state'[s] = "Blocked" /\ pc'[s] \in Sleeping /\ (pc'[s] = "wait!" => ~WaitReady(s))
      BY <1>2, <1>4 DEF ProcsTypeOK
    <3> QED BY <1>1, <1>2, <3>1, Zenon DEF CalmStep, Sleeping
  <2> QED BY <2>1, <2>2, CalmInv
<1>5. ASSUME CheckOrBlock(s, "wait?", WaitReady(s), "wait!", "wait.") PROVE ProcsInv'
  <2>1. CASE WaitReady(s)
    BY <1>3, <1>5, <2>1 DEF CheckOrBlock
  <2>2. CASE ~WaitReady(s)
    BY <1>4, <1>5, <2>2 DEF CheckOrBlock, Sleeping
  <2> QED BY <2>1, <2>2
<1>6. ASSUME NEW done \in BOOLEAN, CheckOrBlock(s, "disk?", done, "disk!", "disk.") PROVE ProcsInv'
  <2>1. CASE done
    BY <1>3, <1>6, <2>1 DEF CheckOrBlock
  <2>2. CASE ~done
    BY <1>4, <1>6, <2>2 DEF CheckOrBlock, Sleeping
  <2> QED BY <2>1, <2>2
<1> QED BY <1>5, <1>6

(* The serial and the disk interrupt.                                      *)
LEMMA InterruptInv ==
    ASSUME ProcsInv,
           (\E g \in Signals : ConsoleSignal(g)) \/ (\E s \in Threads : DiskWake(s))
    PROVE  ProcsInv'
<1>1. /\ ProcsTypeOK /\ TablesKept /\ irq_on' \in BOOLEAN
      /\ UNCHANGED <<CURRENT, PENDING_EXIT, pc, arg, sig_blocked, sig_handlers, sig_restorer>>
  BY Zenon DEF ConsoleSignal, DiskWake, ProcsInv, ProcsTypeOK, TablesKept, sig_vars
<1>2. ASSUME NEW g \in Signals, ConsoleSignal(g) PROVE Wakes /\ SigTypeOK'
  <2>1. PICK s \in 1 .. N - 1 : sig_pending' = Pend(s, g, sig_pending) /\ state' = Prod(s, g, state)
    BY <1>2 DEF ConsoleSignal
  <2>2. s \in Threads /\ g \in AllSignals /\ sig_pending \in [Threads -> SUBSET AllSignals]
    BY <1>1, ThreadsFacts, SignalsFacts DEF ProcsTypeOK
  <2>3. sig_pending' \in [Threads -> SUBSET AllSignals]
    BY <2>1, <2>2, PendType, Zenon
  <2> QED BY <1>1, <2>1, <2>2, <2>3, ProdWakes, Zenon DEF SigTypeOK, ProcsTypeOK
<1>3. ASSUME NEW s \in Threads, DiskWake(s) PROVE Wakes /\ SigTypeOK'
  BY <1>1, <1>3 DEF DiskWake, Wakes, RunStates, ProcsTypeOK, SigTypeOK, sig_vars
<1> QED BY <1>1, <1>2, <1>3, WakeInv, Zenon

(* Leaving: by a fault, by exit or by a signal.                            *)
Buried(s) ==
    /\ \E p \in Processes : p.state = "Zombie" /\ procs' = [procs EXCEPT ![pid[s]] = p]
    /\ UNCHANGED <<next_pid, table_state>>

LEMMA ExitTypes ==
    ASSUME ProcsInv, NEW s \in Threads, CURRENT = s, state[s] = "Runnable",
           Buried(s), UNCHANGED <<id_vars, CURRENT, boot>>,
           exit_current(s), PENDING_EXIT' \in Status, SigTypeOK'
    PROVE  ProcsTypeOK' /\ ExitStep(s)
<1>1. ProcsTypeOK /\ TableTypeOK
  BY DEF ProcsInv, ProcsTypeOK
<1>2. TableTypeOK' /\ DOMAIN procs' = DOMAIN procs
  BY <1>1, ZenonT(60) DEF TableTypeOK, Buried
<1>3. \A t \in Threads : state'[t] =
          IF t = s THEN "Dead"
          ELSE IF parent_pid[s] # 0 /\ pid[t] = parent_pid[s] /\ state[t] = "Blocked"
               THEN "Runnable" ELSE state[t]
  <2> SUFFICES ASSUME NEW t \in Threads
               PROVE  state'[t] =
                         IF t = s THEN "Dead"
                         ELSE IF parent_pid[s] # 0 /\ pid[t] = parent_pid[s] /\ state[t] = "Blocked"
                              THEN "Runnable" ELSE state[t]
    BY Zenon
  <2>1. CASE t = s
    BY <2>1, Zenon DEF exit_current
  <2>2. CASE t # s /\ parent_pid[s] # 0 /\ pid[t] = parent_pid[s] /\ state[t] = "Blocked"
    BY <2>2, Zenon DEF exit_current
  <2>3. CASE t # s /\ ~(parent_pid[s] # 0 /\ pid[t] = parent_pid[s] /\ state[t] = "Blocked")
    BY <2>3, Zenon DEF exit_current
  <2> QED BY <2>1, <2>2, <2>3, Zenon
<1>4. state' \in [Threads -> RunStates]
  <2>1. state' = [t \in Threads |-> state'[t]]
    BY Zenon DEF exit_current
  <2>2. \A t \in Threads : state'[t] \in RunStates
    BY <1>1, <1>3 DEF ProcsTypeOK, RunStates
  <2> QED BY <2>1, <2>2
<1>5. /\ irq_on' = TRUE /\ task_unready
      /\ pc' = [pc EXCEPT ![s] = "dead"] /\ arg' = [arg EXCEPT ![s] = 0]
  BY DEF exit_current
<1>6. runnable \in Nat /\ (sched_state = "Active" => runnable # 0) /\ sched_state \in {"Idle", "Active"}
  <2>1. boot.at = "run"
    BY CurrentFacts
  <2> QED BY <2>1 DEF ProcsInv, ProcsTypeOK, IdleWhenAllExited
<1>7. runnable' \in Nat /\ sched_state' \in {"Idle", "Active"}
  BY <1>5, <1>6 DEF task_unready
<1>8. CoreTypeOK'
  BY <1>1, <1>4, <1>5, <1>7, Zenon DEF ProcsTypeOK, CoreTypeOK, id_vars, RunStates, PCs
<1>9. ProcsTypeOK'
  BY <1>2, <1>8, TypesTogether, Zenon
<1>10. LeaveStep(s, "Dead") /\ pc'[s] = "dead" /\ arg'[s] = 0
  BY <1>1, <1>3, <1>5, Zenon DEF LeaveStep, ProcsTypeOK
<1>11. ExitStep(s)
  BY <1>1, <1>2, <1>5, <1>10 DEF ExitStep, TableTypeOK, Buried
<1> QED BY <1>9, <1>11

LEMMA DoExitInv ==
    ASSUME ProcsInv, NEW s \in Threads, CURRENT = s, state[s] = "Runnable",
           NEW code \in Int, do_exit(s, code), UNCHANGED <<id_vars, CURRENT, boot>>,
           PENDING_EXIT' \in Status, SigTypeOK'
    PROVE  ProcsInv'
<1>1. boot.at = "run" /\ state[s] # "Free"
  BY CurrentFacts, Zenon
<1>2. pid[s] \in DOMAIN procs /\ procs[pid[s]].state = "Ready"
  BY <1>1, SMTT(30) DEF ProcsInv, TablesAgree, Used
<1>3. /\ procs' = [procs EXCEPT ![pid[s]] = [state |-> "Zombie", exit_code |-> code]]
      /\ UNCHANGED <<next_pid, table_state>> /\ exit_current(s)
  BY <1>2, ZenonT(60) DEF do_exit, exit_pid, forward, exit
<1>4. [state |-> "Zombie", exit_code |-> code] \in Processes
  BY SMTT(30) DEF Processes
<1>5. Buried(s) /\ exit_current(s)
  BY <1>3, <1>4, ZenonT(60) DEF Buried
<1>6. ProcsTypeOK' /\ ExitStep(s)
  BY <1>5, ExitTypes, Zenon
<1> QED BY <1>6, ExitInv

LEMMA FaultInv ==
    ASSUME ProcsInv, NEW s \in Threads, kill_current_user_process(s)
    PROVE  ProcsInv'
<1>1. /\ CURRENT = s /\ pc[s] = "user" /\ exit_current(s) /\ kill_pid(pid[s])
      /\ UNCHANGED <<id_vars, CURRENT, sig_vars, PENDING_EXIT, boot>>
  BY DEF kill_current_user_process
<1>2. state[s] = "Runnable" /\ boot.at = "run" /\ state[s] # "Free"
  BY <1>1, CurrentFacts
<1>3. pid[s] \in DOMAIN procs /\ procs[pid[s]].state = "Ready"
  BY <1>2, Zenon DEF ProcsInv, TablesAgree, Used
<1>4. /\ procs' = [procs EXCEPT ![pid[s]] = [state |-> "Zombie", exit_code |-> KILLED]]
      /\ UNCHANGED <<next_pid, table_state>>
  BY <1>1, <1>3 DEF kill_pid, forward, kill
<1>5. [state |-> "Zombie", exit_code |-> KILLED] \in Processes
  BY DEF Processes, KILLED
<1>6. PENDING_EXIT' \in Status /\ SigTypeOK'
  BY <1>1, SigTypeKept DEF ProcsInv, ProcsTypeOK, Status
<1>7. Buried(s)
  BY <1>4, <1>5, ZenonT(60) DEF Buried
<1>8. ProcsTypeOK' /\ ExitStep(s)
  BY <1>1, <1>2, <1>6, <1>7, ExitTypes, Zenon
<1> QED BY <1>1, <1>2, <1>8, ExitInv, Zenon

(* The syscall-return boundary.                                            *)
LEMMA BoundaryInv ==
    ASSUME ProcsInv, NEW s \in Threads, Boundary(s)
    PROVE  ProcsInv'
<1>1. /\ CURRENT = s /\ pc[s] \in {"boundary", "exiting"}
      /\ UNCHANGED <<id_vars, CURRENT, sig_blocked, sig_handlers, sig_restorer, boot>>
  BY DEF Boundary
<1>2. state[s] = "Runnable" /\ ProcsTypeOK /\ s # 0
  BY <1>1, CurrentFacts, ThreadsFacts, Zenon DEF ProcsInv
<1>3. PENDING_EXIT \in Status /\ -1 \in Status /\ Status \subseteq Int
      /\ arg \in [Threads -> Nat] /\ irq_on \in BOOLEAN
  BY <1>2, TableAssumption DEF ProcsTypeOK, Status
<1>4. sig_pending' \in [Threads -> SUBSET AllSignals] => SigTypeOK'
  BY <1>1, <1>2 DEF SigTypeOK, ProcsTypeOK
<1>5. AfterTaking(s) \in [Threads -> SUBSET AllSignals]
  BY <1>2, TakenFacts, Zenon
<1>6. ASSUME sig_pending' = AfterTaking(s), ReturnOrExit(s) PROVE ProcsInv'
  <2>1. SigTypeOK'
    BY <1>4, <1>5, <1>6
  <2>2. CASE PENDING_EXIT >= 0 /\ PENDING_EXIT' = -1 /\ do_exit(s, PENDING_EXIT)
    BY <1>1, <1>2, <1>3, <2>1, <2>2, DoExitInv, Zenon
  <2>3. CASE /\ irq_on' = TRUE /\ pc' = [pc EXCEPT ![s] = "user"]
             /\ arg' = [arg EXCEPT ![s] = 0]
             /\ UNCHANGED <<table_vars, state, fsm_vars, PENDING_EXIT>>
    <3>1. TablesKept /\ Wakes
      BY <1>1, <1>2, <2>3, NobodyWoken DEF TablesKept
    <3>2. MoveOn(s, "user")
      BY <1>1, <1>3, <2>3, <3>1 DEF MoveOn
    <3>3. "user" \in PCs \ {"tramp", "dead"}
      BY DEF PCs
    <3> QED BY <1>1, <1>2, <2>1, <3>2, <3>3, MoveOnInv
  <2> QED BY <1>6, <2>2, <2>3, ZenonT(60) DEF ReturnOrExit
<1>7. ASSUME Outcome(s) = "terminate", sig_pending' = AfterTaking(s),
             do_exit(s, 128 + Lowest(Effective(s))), UNCHANGED PENDING_EXIT
      PROVE  ProcsInv'
  <2>1. SigTypeOK'
    BY <1>4, <1>5, <1>7
  <2>2. 128 + Lowest(Effective(s)) \in Int
    <3>1. Outcome(s) # "none"
      BY <1>7
    <3> QED BY <1>2, <3>1, EffectiveFacts
  <2> QED BY <1>1, <1>2, <1>3, <1>7, <2>1, <2>2, DoExitInv, Zenon
<1>8. ASSUME sig_pending' = StopPending(s), state' = StopState(s),
             pc' = [pc EXCEPT ![s] = IF @ = "exiting" THEN "xstop!" ELSE "stop!"],
             UNCHANGED <<table_vars, irq_on, fsm_vars, PENDING_EXIT, arg>>
      PROVE  ProcsInv'
  <2>1. /\ state' \in [Threads -> RunStates]
        /\ sig_pending' \in [Threads -> SUBSET AllSignals]
        /\ \A t \in Threads : state'[t] =
              IF t = s THEN "Stopped"
              ELSE IF parent_pid[s] # 0 /\ pid[t] = parent_pid[s] /\ state[t] = "Blocked"
                   THEN "Runnable" ELSE state[t]
    BY <1>1, <1>2, <1>8, StopFacts, Zenon DEF RunStates
  <2>2. /\ pc' \in [Threads -> PCs] /\ pc'[s] \in {"stop!", "xstop!"}
        /\ \A t \in Threads \ {s} : pc'[t] = pc[t]
    BY <1>2, <1>8 DEF ProcsTypeOK, PCs
  <2>3. ProcsTypeOK'
    <3>1. TableTypeOK'
      BY <1>2, <1>8, TableTypeKept, Zenon DEF ProcsTypeOK
    <3>2. CoreTypeOK'
      <4> HIDE DEF PCs
      <4> QED BY <1>1, <1>2, <1>8, <2>1, <2>2, SMTT(30) DEF CoreTypeOK, ProcsTypeOK, id_vars, fsm_vars, Status, RunStates
    <3> QED BY <1>4, <2>1, <3>1, <3>2, TypesTogether, Zenon
  <2>4. TablesKept /\ LeaveStep(s, "Stopped")
    BY <1>1, <1>8, <2>1, <2>2, ZenonT(60) DEF TablesKept, LeaveStep
  <2>5. OnCore'
    BY <1>1, <2>1, <2>2 DEF OnCore
  <2> QED BY <1>1, <1>2, <2>2, <2>3, <2>4, <2>5, StopInv, Zenon DEF Stoppable
<1> QED BY <1>6, <1>7, <1>8 DEF Boundary

(* fork.                                                                   *)
LEMMA DoForkInv ==
    ASSUME ProcsInv, NEW s \in Threads, do_fork(s)
    PROVE  ProcsInv'
<1>1. PICK n \in alloc_slot : Admit(n, next_pid, s)
  BY DEF do_fork
<1>2. /\ CURRENT = s /\ pc[s] = "user" /\ irq_on' = FALSE /\ pc' = [pc EXCEPT ![s] = "boundary"]
      /\ next_pid <= MaxPid /\ spawn(next_pid)
      /\ UNCHANGED <<sig_pending, sig_restorer, PENDING_EXIT, arg, CURRENT, boot>>
  BY DEF do_fork, Syscall, Untouched
<1>3. state[s] = "Runnable" /\ ProcsTypeOK
  BY <1>2, CurrentFacts DEF ProcsInv
<1>4. n \in Threads /\ n <= N /\ n \in Nat /\ n >= 1
  BY AllocFacts
<1>5. ForkStep(s, n)
  BY <1>1, <1>2 DEF Admit, ForkStep
<1>6. TableTypeOK'
  BY <1>2, <1>3, SMTT(30) DEF ProcsTypeOK, TableTypeOK, spawn, make_ready, NewProcess, Processes
<1>7. SigTypeOK'
  BY <1>1, <1>2, <1>3, <1>4 DEF Admit, SigTypeOK, ProcsTypeOK
<1>8. CoreTypeOK'
  <2>1. N' \in 1 .. MAX_THREADS - 1 /\ CURRENT' \in 0 .. N' - 1
    BY <1>1, <1>2, <1>3, <1>4, ThreadsAssumption DEF Admit, ProcsTypeOK, Threads
  <2>2. next_pid \in 0 .. MaxPid /\ pid[s] \in 0 .. MaxPid
    BY <1>2, <1>3, TableAssumption DEF ProcsTypeOK, TableTypeOK
  <2>3. /\ state' \in [Threads -> RunStates]
        /\ pid' \in [Threads -> 0 .. MaxPid] /\ parent_pid' \in [Threads -> 0 .. MaxPid]
    BY <1>1, <1>3, <1>4, <2>2, Zenon DEF Admit, ProcsTypeOK, RunStates
  <2>4. sched_state' \in {"Idle", "Active"} /\ runnable' \in Nat
    BY <1>1, <1>3 DEF Admit, task_ready, ProcsTypeOK
  <2>5. pc' \in [Threads -> PCs]
    BY <1>2, <1>3 DEF ProcsTypeOK, PCs
  <2>6. irq_on' \in BOOLEAN
    BY <1>2, Zenon
  <2>7. PENDING_EXIT' \in Status /\ arg' \in [Threads -> Nat]
    BY <1>2, <1>3 DEF ProcsTypeOK, Status
  <2> QED BY <2>1, <2>3, <2>4, <2>5, <2>6, <2>7, ZenonT(60) DEF CoreTypeOK, RunStates
<1>9. ProcsTypeOK'
  BY <1>6, <1>7, <1>8, TypesTogether
<1> QED BY <1>2, <1>3, <1>5, <1>9, ForkInv

(* wait and reap_nohang.                                                   *)
LEMMA ReapTypes ==
    ASSUME ProcsInv, NEW s \in Threads, NEW R \in SUBSET Threads, Reap(R),
           \A t \in Threads : pc'[t] = IF t = s THEN "boundary"
                                       ELSE IF t \in R THEN "user" ELSE pc[t],
           pc' = [t \in Threads |-> pc'[t]], irq_on' \in BOOLEAN,
           UNCHANGED <<CURRENT, fsm_vars, PENDING_EXIT, arg, boot>>
    PROVE  ProcsTypeOK'
<1>1. ProcsTypeOK /\ TableTypeOK
  BY DEF ProcsInv, ProcsTypeOK
<1>2. TableTypeOK'
  <2>1. /\ next_pid' = next_pid /\ DOMAIN procs' \subseteq DOMAIN procs
        /\ procs' = [q \in DOMAIN procs' |-> procs[q]]
        /\ table_state' = "HasCapacity" \/ table_state' = table_state
    BY DEF Reap
  <2> QED BY <1>1, <2>1 DEF TableTypeOK
<1>3. SigTypeOK'
  <2>1. NoHandlers \in [AllSignals -> {"SIG_DFL", "SIG_IGN", "handler"}]
    BY Zenon DEF NoHandlers
  <2>2. sig_pending' \in [Threads -> SUBSET AllSignals]
        /\ sig_blocked' \in [Threads -> SUBSET (AllSignals \ {SIGKILL, SIGSTOP})]
    BY <1>1, Zenon DEF Reap, ProcsTypeOK
  <2>3. sig_handlers' \in [Threads -> [AllSignals -> {"SIG_DFL", "SIG_IGN", "handler"}]]
    BY <1>1, <2>1 DEF Reap, ProcsTypeOK
  <2>4. sig_restorer' \in [Threads -> BOOLEAN]
    <3>1. sig_restorer' = [t \in Threads |-> sig_restorer[t] /\ t \notin R]
      BY DEF Reap
    <3>2. \A t \in Threads : (sig_restorer[t] /\ t \notin R) \in BOOLEAN
      BY Zenon
    <3> QED BY <3>1, <3>2, Zenon
  <2> QED BY <2>2, <2>3, <2>4 DEF SigTypeOK
<1>4. CoreTypeOK'
  <2>1. pc' \in [Threads -> PCs]
    BY <1>1, Zenon DEF ProcsTypeOK, PCs
  <2>2. state' \in [Threads -> RunStates]
    BY <1>1, Zenon DEF Reap, ProcsTypeOK, RunStates
  <2>3. pid' \in [Threads -> 0 .. MaxPid] /\ parent_pid' \in [Threads -> 0 .. MaxPid] /\ N' = N
    BY <1>1, TableAssumption DEF Reap, ProcsTypeOK
  <2>4. UNCHANGED <<CURRENT, sched_state, runnable, PENDING_EXIT, arg>>
    BY DEF fsm_vars
  <2>5. N' \in 1 .. MAX_THREADS - 1 /\ CURRENT' \in 0 .. N' - 1
    BY <1>1, <2>3, <2>4, Zenon DEF ProcsTypeOK
  <2>6. /\ sched_state' \in {"Idle", "Active"} /\ runnable' \in Nat /\ PENDING_EXIT' \in Status
        /\ arg' \in [Threads -> Nat]
    BY <1>1, <2>4, TypeParts, Zenon DEF CoreTypeOK
  <2> QED BY <2>1, <2>2, <2>3, <2>5, <2>6, Zenon DEF CoreTypeOK, RunStates
<1> QED BY <1>2, <1>3, <1>4, TypesTogether, Zenon

LEMMA ReapersInv ==
    ASSUME ProcsInv, NEW s \in Threads,
           WaitReturn(s) \/ \E t \in 0 .. MaxPid : sys_reap_nohang(s, t)
    PROVE  ProcsInv'
<1>1. PICK R : /\ R = ToReap(s) \/ \E t \in 0 .. MaxPid : R = NohangReaps(s, t)
               /\ Reap(R)
               /\ pc' = [t \in Threads |-> CASE t = s -> "boundary"
                                             [] t # s /\ t \in R -> "user"
                                             [] OTHER -> pc[t]]
               /\ CURRENT = s /\ pc[s] \in {"wait.", "user"} /\ irq_on' = FALSE
               /\ UNCHANGED <<CURRENT, fsm_vars, PENDING_EXIT, arg, boot>>
  BY Zenon DEF WaitReturn, sys_reap_nohang
<1>2. state[s] = "Runnable" /\ ProcsTypeOK
  BY <1>1, CurrentFacts, Zenon DEF ProcsInv
<1>3. 1 .. N - 1 \in SUBSET Threads /\ 1 .. N - 1 \in SUBSET Nat
  BY <1>2, ThreadsFacts DEF ProcsTypeOK
<1>4. R \in SUBSET Threads /\ \A c \in R : state[c] = "Dead" /\ parent_pid[c] = pid[s]
  <2>1. CASE R = ToReap(s)
    <3> DEFINE D == {c \in Children(pid[s], arg[s]) : state[c] = "Dead"}
    <3>1. D \in SUBSET Nat /\ \A c \in D : c \in Threads /\ state[c] = "Dead" /\ parent_pid[c] = pid[s]
      BY <1>3, Zenon DEF Children
    <3>2. R = IF D = {} THEN {} ELSE {Lowest(D)}
      BY <2>1, Zenon DEF ToReap
    <3> HIDE DEF D
    <3> QED BY <3>1, <3>2, LowestOf, ZenonT(60)
  <2>2. ASSUME NEW t \in 0 .. MaxPid, R = NohangReaps(s, t)
        PROVE  R \in SUBSET Threads /\ \A c \in R : state[c] = "Dead" /\ parent_pid[c] = pid[s]
    <3>1. R \subseteq {c \in Children(pid[s], 0) : state[c] = "Dead"}
      BY <2>2, Zenon DEF NohangReaps
    <3> QED BY <1>3, <3>1, Zenon DEF Children
  <2> QED BY <1>1, <2>1, <2>2
<1>5. \A t \in Threads : pc'[t] = IF t = s THEN "boundary" ELSE IF t \in R THEN "user" ELSE pc[t]
  <2> SUFFICES ASSUME NEW t \in Threads
               PROVE  pc'[t] = IF t = s THEN "boundary" ELSE IF t \in R THEN "user" ELSE pc[t]
    OBVIOUS
  <2>1. CASE t = s
    BY <1>1, <2>1, Zenon
  <2>2. CASE t # s /\ t \in R
    BY <1>1, <2>2, Zenon
  <2>3. CASE t # s /\ t \notin R
    BY <1>1, <2>3, Zenon
  <2> QED BY <2>1, <2>2, <2>3
<1>6. pc' = [t \in Threads |-> pc'[t]] /\ irq_on' \in BOOLEAN
  BY <1>1, Zenon
<1>7. Reap(R) /\ CURRENT = s /\ UNCHANGED <<CURRENT, fsm_vars, PENDING_EXIT, arg, boot>>
  BY <1>1
<1>8. ProcsTypeOK'
  BY <1>4, <1>5, <1>6, <1>7, ReapTypes, Zenon
<1> QED BY <1>2, <1>4, <1>5, <1>7, <1>8, ReapProcsInv, Zenon

(* The boot context.                                                       *)
LEMMA RunOneInv ==
    ASSUME ProcsInv, run_one
    PROVE  ProcsInv'
<1>1. ProcsTypeOK /\ boot.at = "start" /\ CURRENT = 0 /\ next_pid <= MaxPid
  BY Zenon DEF run_one, ProcsInv, BootSlot
<1>2. /\ spawn(next_pid) /\ N' = 2 /\ boot' = [at |-> "run", pid |-> next_pid]
      /\ \A t \in Threads : /\ pid'[t] = IF t = 1 THEN next_pid ELSE 0
                            /\ parent_pid'[t] = 0
                            /\ state'[t] = IF t = 1 THEN "Runnable" ELSE "Free"
                            /\ pc'[t] = "user"
      /\ sched_state' = "Active" /\ runnable' = 1
      /\ UNCHANGED <<CURRENT, irq_on, PENDING_EXIT, arg>>
  BY Zenon DEF run_one
<1>3. next_pid \in Nat \ {0} /\ next_pid \in 0 .. MaxPid
  BY <1>1, TableAssumption DEF ProcsTypeOK, TableTypeOK
<1>4. ProcsTypeOK'
  <2>1. TableTypeOK'
    BY <1>1, <1>2 DEF ProcsTypeOK, TableTypeOK, spawn, make_ready, NewProcess, Processes
  <2>2. SigTypeOK'
    <3>1. NoHandlers \in [AllSignals -> {"SIG_DFL", "SIG_IGN", "handler"}]
      BY Zenon DEF NoHandlers
    <3>2. /\ sig_pending' = [t \in Threads |-> {}] /\ sig_blocked' = [t \in Threads |-> {}]
          /\ sig_handlers' = [t \in Threads |-> NoHandlers]
          /\ sig_restorer' = [t \in Threads |-> FALSE]
      BY DEF run_one
    <3>3. sig_restorer' \in [Threads -> BOOLEAN]
      BY <3>2, Zenon
    <3> QED BY <3>1, <3>2, <3>3 DEF SigTypeOK
  <2>3. CoreTypeOK'
    <3>1. /\ state' \in [Threads -> RunStates] /\ pc' \in [Threads -> PCs]
          /\ pid' \in [Threads -> 0 .. MaxPid] /\ parent_pid' \in [Threads -> 0 .. MaxPid]
      BY <1>3, TableAssumption DEF run_one, RunStates, PCs
    <3>2. N' \in 1 .. MAX_THREADS - 1 /\ CURRENT' \in 0 .. N' - 1
      BY <1>1, <1>2, ThreadsAssumption
    <3>3. /\ irq_on' \in BOOLEAN /\ PENDING_EXIT' \in Status /\ arg' \in [Threads -> Nat]
      BY <1>1, <1>2, TypeParts, Zenon DEF CoreTypeOK
    <3>4. sched_state' \in {"Idle", "Active"} /\ runnable' \in Nat
      BY <1>2
    <3> QED BY <3>1, <3>2, <3>3, <3>4, Zenon DEF CoreTypeOK, RunStates
  <2> QED BY <2>1, <2>2, <2>3, TypesTogether
<1>5. PcsMatch' /\ TrampsArmed' /\ OnCore'
  BY <1>1, <1>2, Zenon DEF PcsMatch, TrampsArmed, OnCore, Stoppable
<1>6. SlotsBelow' /\ BootSlot' /\ WaitersHaveReason'
  <2>1. SlotsBelow'
    BY <1>2, ThreadsFacts DEF SlotsBelow
  <2>2. BootSlot'
    BY <1>2, <1>3, ThreadsFacts DEF BootSlot
  <2>3. \A t \in Threads : state'[t] # "Blocked"
    BY <1>2
  <2>4. WaitersHaveReason'
    BY <1>2, <2>3, Zenon DEF WaitersHaveReason
  <2> QED BY <2>1, <2>2, <2>4, Zenon
<1>7. TablesAgree'
  <2>1. next_pid \in DOMAIN procs' /\ procs'[next_pid].state = "Ready"
    BY <1>2, Zenon DEF spawn, make_ready, NewProcess
  <2> QED BY <1>2, <2>1 DEF TablesAgree, Used
<1>8. IdleWhenAllExited'
  <2>1. {t \in Threads : Alive(t)}' = {1}
    <3>1. \A t \in Threads : Alive(t)' <=> t = 1
      BY <1>2 DEF Alive
    <3> QED BY <3>1, ThreadsFacts, ZenonT(60)
  <2>2. Cardinality({1}) = 1
    BY FS_Singleton
  <2> QED BY <1>2, <2>1, <2>2 DEF IdleWhenAllExited
<1> QED BY <1>4, <1>5, <1>6, <1>7, <1>8, Zenon DEF ProcsInv

LEMMA BootReapsInv ==
    ASSUME ProcsInv, BootReaps
    PROVE  ProcsInv'
<1>1. /\ ProcsTypeOK /\ boot.at = "run" /\ CURRENT = 0 /\ sched_state = "Idle"
      /\ boot' = [at |-> "start", pid |-> 0]
      /\ UNCHANGED <<id_vars, CURRENT, irq_on, state, sig_vars, fsm_vars, PENDING_EXIT, pc, arg>>
  BY Zenon DEF BootReaps, ProcsInv
<1>2. ProcsTypeOK'
  <2>1. TableTypeOK'
    <3>1. /\ next_pid' = next_pid /\ DOMAIN procs' \subseteq DOMAIN procs
          /\ procs' = [q \in DOMAIN procs' |-> procs[q]]
          /\ table_state' = "HasCapacity" \/ table_state' = table_state
      BY <1>1 DEF BootReaps, reap_pid, ProcsTypeOK, TableTypeOK
    <3> QED BY <1>1, <3>1, Zenon DEF ProcsTypeOK, TableTypeOK
  <2>2. SigTypeOK'
    BY <1>1, SigTypeKept, Zenon
  <2>3. CoreTypeOK'
    BY <1>1 DEF CoreTypeOK, ProcsTypeOK, id_vars, fsm_vars, Status
  <2> QED BY <2>1, <2>2, <2>3, TypesTogether
<1>3. \A t \in Threads : ~Alive(t)
  <2> DEFINE A == {t \in Threads : Alive(t)}
  <2>1. IsFiniteSet(A)
    BY ThreadsFacts, FS_Subset, Zenon
  <2>2. Cardinality(A) = 0
    BY <1>1 DEF ProcsInv, IdleWhenAllExited
  <2>3. A = {}
    <3> HIDE DEF A
    <3> QED BY <2>1, <2>2, FS_EmptySet, Zenon
  <2> QED BY <2>3
<1>4. PcsMatch' /\ TrampsArmed' /\ OnCore' /\ SlotsBelow'
  BY <1>1, Zenon DEF ProcsInv, PcsMatch, TrampsArmed, OnCore, SlotsBelow, id_vars
<1>5. BootSlot' /\ TablesAgree' /\ IdleWhenAllExited'
  BY <1>1, <1>3, Zenon DEF ProcsInv, BootSlot, TablesAgree, IdleWhenAllExited, Alive, id_vars
<1>6. WaitersHaveReason'
  BY <1>1, <1>3 DEF WaitersHaveReason, Alive
<1> QED BY <1>2, <1>4, <1>5, <1>6, Zenon DEF ProcsInv

(* The timer.                                                              *)
LEMMA ScheduleInv ==
    ASSUME ProcsInv, schedule
    PROVE  ProcsInv'
<1> DEFINE in_user == CURRENT # 0 /\ pc[CURRENT] \in {"user", "tramp"} /\ Deliverable(CURRENT) # {}
           outcome == IF in_user THEN Outcome(CURRENT) ELSE "none"
<1>1. /\ ProcsTypeOK /\ boot.at = "run" /\ TablesKept
      /\ UNCHANGED <<irq_on, sig_blocked, sig_handlers, sig_restorer, PENDING_EXIT>>
      /\ CURRENT' = RoundRobin(state')
  BY DEF schedule, ProcsInv, TablesKept
<1>2. /\ state' = (IF outcome = "stop" THEN StopState(CURRENT) ELSE state)
      /\ pc' = (IF outcome = "terminate" THEN [pc EXCEPT ![CURRENT] = "tramp"] ELSE pc)
      /\ arg' = (IF outcome = "terminate"
                 THEN [arg EXCEPT ![CURRENT] = 128 + Lowest(Effective(CURRENT))] ELSE arg)
  BY DEF schedule
<1>3. /\ outcome = "stop" => sig_pending' = StopPending(CURRENT)
      /\ outcome # "stop" => sig_pending' \in {AfterTaking(CURRENT), sig_pending}
      /\ ~in_user => sig_pending' = sig_pending
  <2>1. sig_pending' = CASE outcome = "stop" -> StopPending(CURRENT)
                         [] in_user /\ outcome # "stop" -> AfterTaking(CURRENT)
                         [] OTHER -> sig_pending
    BY Zenon DEF schedule
  <2>2. outcome = "stop" => in_user
    OBVIOUS
  <2> HIDE DEF in_user, outcome
  <2> QED BY <2>1, <2>2, Zenon
<1>4. CURRENT' \in 0 .. N - 1 /\ (CURRENT' # 0 => state'[CURRENT'] = "Runnable")
  BY <1>1, RoundRobinRuns
<1>5. OnCore'
  <2>1. CURRENT' # 0 => state'[CURRENT'] # "Free" /\ state'[CURRENT'] = "Runnable"
    BY <1>4
  <2> QED BY <2>1 DEF OnCore
<1>6. in_user => CURRENT \in Threads /\ state[CURRENT] = "Runnable"
  <2> SUFFICES ASSUME CURRENT # 0, pc[CURRENT] \in {"user", "tramp"}
               PROVE  CURRENT \in Threads /\ state[CURRENT] = "Runnable"
    BY Zenon
  <2>1. CURRENT \in Threads
    BY <1>1, ThreadsFacts DEF ProcsTypeOK
  <2> QED BY <2>1 DEF ProcsInv, OnCore
<1>7. TableTypeOK'
  BY <1>1, TableTypeKept, Zenon DEF ProcsTypeOK, TablesKept
<1> HIDE DEF in_user
<1>8. sig_pending' \in [Threads -> SUBSET AllSignals] => SigTypeOK'
  BY <1>1, Zenon DEF SigTypeOK, ProcsTypeOK
<1>9. state' \in [Threads -> RunStates] /\ pc' \in [Threads -> PCs] /\ arg' \in [Threads -> Nat] => CoreTypeOK'
  <2> HIDE DEF PCs
  <2> QED BY <1>1, <1>4 DEF CoreTypeOK, ProcsTypeOK, TablesKept, id_vars, fsm_vars, RunStates, Status
<1>10. outcome \in {"stop", "terminate"} => in_user /\ Outcome(CURRENT) = outcome
  BY Zenon
<1> HIDE DEF outcome
<1>11. CASE outcome = "stop"
  <2>1. PICK s \in Threads : s = CURRENT /\ state[s] = "Runnable"
    BY <1>6, <1>10, <1>11, Zenon
  <2>2. state' = StopState(s) /\ sig_pending' = StopPending(s) /\ pc' = pc /\ arg' = arg
    BY <1>2, <1>3, <1>11, <2>1, Zenon
  <2>3. /\ state' \in [Threads -> RunStates]
        /\ sig_pending' \in [Threads -> SUBSET AllSignals]
        /\ \A t \in Threads : state'[t] =
              IF t = s THEN "Stopped"
              ELSE IF parent_pid[s] # 0 /\ pid[t] = parent_pid[s] /\ state[t] = "Blocked"
                   THEN "Runnable" ELSE state[t]
    BY <2>1, <2>2, StopFacts, Zenon DEF RunStates
  <2>4. ProcsTypeOK'
    BY <1>1, <1>7, <1>8, <1>9, <2>2, <2>3, TypesTogether, Zenon DEF ProcsTypeOK
  <2>5. LeaveStep(s, "Stopped")
    BY <1>1, <2>2, <2>3, ZenonT(60) DEF LeaveStep, TablesKept
  <2>6. pc'[s] \in {"user", "tramp"} /\ (pc'[s] = "tramp" => arg'[s] \in 128 .. 159)
    BY <1>10, <1>11, <2>1, <2>2, Zenon DEF in_user, ProcsInv, TrampsArmed
  <2> QED BY <1>1, <1>5, <2>1, <2>4, <2>5, <2>6, StopInv, Zenon DEF Stoppable
<1>12. CASE outcome # "stop"
  <2>1. state' = state /\ LiveMoves
    BY <1>2, <1>12 DEF LiveMoves
  <2>2. sig_pending' \in [Threads -> SUBSET AllSignals]
    <3>1. CASE in_user
      <4>1. PICK s \in Threads : s = CURRENT
        BY <1>6, <3>1
      <4>2. AfterTaking(s) \in [Threads -> SUBSET AllSignals]
        BY <1>1, TakenFacts, Zenon
      <4> QED BY <1>1, <1>3, <1>12, <4>1, <4>2, Zenon DEF ProcsTypeOK
    <3>2. CASE ~in_user
      BY <1>1, <1>3, <3>2, Zenon DEF ProcsTypeOK
    <3> QED BY <3>1, <3>2, Zenon
  <2>3. \/ pc' = pc /\ arg' = arg
        \/ \E s \in Threads : /\ state[s] = "Runnable"
                              /\ pc' = [pc EXCEPT ![s] = "tramp"]
                              /\ \E a \in 128 .. 159 : arg' = [arg EXCEPT ![s] = a]
    <3>1. CASE outcome = "terminate"
      <4>1. PICK s \in Threads : s = CURRENT /\ state[s] = "Runnable" /\ Outcome(s) = "terminate"
        BY <1>6, <1>10, <3>1, Zenon
      <4>2. PICK a \in 128 .. 159 : a = 128 + Lowest(Effective(s))
        <5>1. Outcome(s) # "none"
          BY <4>1
        <5> QED BY <1>1, <5>1, EffectiveFacts
      <4> QED BY <1>2, <3>1, <4>1, <4>2, ZenonT(60)
    <3>2. CASE outcome # "terminate"
      BY <1>2, <3>2
    <3> QED BY <3>1, <3>2, SMTT(30)
  <2>4. /\ pc' \in [Threads -> PCs] /\ arg' \in [Threads -> Nat]
        /\ \A t \in Threads : \/ pc'[t] = pc[t] /\ arg'[t] = arg[t]
                              \/ state[t] = "Runnable" /\ pc'[t] = "tramp" /\ arg'[t] \in 128 .. 159
    <3>1. pc \in [Threads -> PCs] /\ arg \in [Threads -> Nat] /\ "tramp" \in PCs
      BY <1>1, Zenon DEF ProcsTypeOK, PCs
    <3> HIDE DEF PCs
    <3> QED BY <2>3, <3>1
  <2>5. ProcsTypeOK'
    <3>1. state' \in [Threads -> RunStates]
      BY <1>1, <2>1, Zenon DEF ProcsTypeOK, RunStates
    <3> QED BY <1>7, <1>8, <1>9, <2>2, <2>4, <3>1, TypesTogether, Zenon
  <2>6. PcsMatch' /\ TrampsArmed'
    <3> SUFFICES ASSUME NEW t \in Threads
                 PROVE  /\ state'[t] = "Free" => pc'[t] = "user"
                        /\ state'[t] = "Stopped" => pc'[t] \in Stoppable
                        /\ state'[t] = "Blocked" => pc'[t] \in Sleeping
                        /\ state'[t] = "Dead" <=> pc'[t] = "dead"
                        /\ pc'[t] = "tramp" => arg'[t] \in 128 .. 159
      BY DEF PcsMatch, TrampsArmed
    <3> QED BY <2>1, <2>4, ZenonT(60) DEF ProcsInv, PcsMatch, TrampsArmed
  <2>7. SlotsBelow' /\ BootSlot' /\ TablesAgree' /\ IdleWhenAllExited'
    BY <1>1, <2>1, LiveTables, Zenon
  <2>8. WaitersHaveReason'
    <3> SUFFICES ASSUME NEW t \in Threads, state'[t] = "Blocked", pc'[t] = "wait!"
                 PROVE  ~WaitReady(t)'
      BY Zenon DEF WaitersHaveReason
    <3>1. state[t] = "Blocked" /\ pc[t] = "wait!" /\ arg'[t] = arg[t]
      BY <2>1, <2>4, Zenon
    <3>2. ~WaitReady(t)
      BY <3>1 DEF ProcsInv, WaitersHaveReason
    <3>3. N' = N /\ pid' = pid /\ parent_pid' = parent_pid
      BY <1>1 DEF TablesKept, id_vars
    <3>4. 1 .. N' - 1 \in SUBSET Threads
      BY <2>5, ThreadsFacts, Zenon DEF ProcsTypeOK
    <3> QED BY <2>1, <3>1, <3>2, <3>3, <3>4, ReasonLasts, Zenon
  <2> QED BY <1>5, <2>5, <2>6, <2>7, <2>8, Zenon DEF ProcsInv
<1> QED BY <1>11, <1>12

-----------------------------------------------------------------------------
(* The theorems.                                                           *)

LEMMA ProcsStep ==
    ASSUME ProcsInv, [ProcsNext]_procs_vars
    PROVE  ProcsInv'
<1>1. CASE run_one
  BY <1>1, RunOneInv
<1>2. CASE BootReaps
  BY <1>2, BootReapsInv
<1>3. CASE schedule
  BY <1>3, ScheduleInv
<1>4. CASE \E g \in Signals : ConsoleSignal(g)
  BY <1>4, InterruptInv
<1>5. ASSUME NEW s \in Threads, Program(s) PROVE ProcsInv'
  <2>1. CASE do_fork(s)
    BY <2>1, DoForkInv
  <2>2. CASE \E t \in 0 .. MaxPid : sys_reap_nohang(s, t)
    BY <2>2, ReapersInv
  <2>3. CASE kill_current_user_process(s)
    BY <2>3, FaultInv
  <2>4. CASE Plain(s)
    BY <2>4, PlainInv
  <2>5. CASE \/ \E t \in 1 .. MaxPid, g \in Signals : sys_kill(s, t, g)
             \/ \E g \in Signals, h \in {"SIG_DFL", "SIG_IGN", "handler"}, r \in BOOLEAN :
                   sys_sigaction(s, g, h, r)
             \/ \E how \in 0 .. 2, mask \in SUBSET Signals : set_signal_mask(s, how, mask)
    BY <2>5, SignalCallsInv, Zenon
  <2> QED BY <1>5, <2>1, <2>2, <2>3, <2>4, <2>5, Zenon DEF Program, Plain
<1>6. ASSUME NEW s \in Threads, Kernel(s) PROVE ProcsInv'
  <2>1. CASE Trampoline(s)
    BY <2>1, PlainInv DEF Plain
  <2>2. CASE Boundary(s)
    BY <2>2, BoundaryInv
  <2>3. CASE \/ CheckOrBlock(s, "wait?", WaitReady(s), "wait!", "wait.")
             \/ \E done \in BOOLEAN : CheckOrBlock(s, "disk?", done, "disk!", "disk.")
    BY <2>3, CheckInv, Zenon
  <2>4. CASE \/ Park(s, "wait!", "Blocked", "wait?", irq_on)
             \/ Park(s, "disk!", "Blocked", "disk?", irq_on)
             \/ Park(s, "stop!", "Stopped", "boundary", FALSE)
             \/ Park(s, "xstop!", "Stopped", "exiting", FALSE)
    <3>1. irq_on \in BOOLEAN /\ FALSE \in BOOLEAN
      BY DEF ProcsInv, ProcsTypeOK
    <3> QED BY <2>4, <3>1, ParkInv, Zenon
  <2>5. CASE WaitReturn(s)
    BY <2>5, ReapersInv
  <2>6. CASE exec_into(s)
    BY <2>6, SignalCallsInv, Zenon
  <2> QED BY <1>6, <2>1, <2>2, <2>3, <2>4, <2>5, <2>6, Zenon DEF Kernel
<1>7. ASSUME NEW s \in Threads, LineRead(s) PROVE ProcsInv'
  BY <1>7, PlainInv DEF Plain
<1>8. ASSUME NEW s \in Threads, DiskWake(s) PROVE ProcsInv'
  BY <1>8, InterruptInv
<1>9. CASE UNCHANGED procs_vars
  <2>1. /\ TablesKept /\ Wakes /\ SigTypeOK' /\ irq_on' \in BOOLEAN
        /\ UNCHANGED <<CURRENT, PENDING_EXIT, pc, arg>>
    BY <1>9, NobodyWoken, SigTypeKept, Zenon DEF procs_vars, TablesKept, ProcsInv, ProcsTypeOK
  <2> QED BY <2>1, WakeInv, Zenon
<1> QED BY <1>1, <1>2, <1>3, <1>4, <1>5, <1>6, <1>7, <1>8, <1>9, Zenon DEF ProcsNext, Halted

LEMMA ProcsStart == ProcsInit => ProcsInv
<1> SUFFICES ASSUME ProcsInit PROVE ProcsInv
  OBVIOUS
<1>1. TableTypeOK
  BY DEF ProcsInit, TableInit, TableTypeOK, Processes
<1>2. SigTypeOK
  <2>1. NoHandlers \in [AllSignals -> {"SIG_DFL", "SIG_IGN", "handler"}]
    BY DEF NoHandlers
  <2>2. sig_restorer \in [Threads -> BOOLEAN]
    BY Zenon DEF ProcsInit
  <2> QED BY <2>1, <2>2 DEF SigTypeOK, ProcsInit
<1>3. CoreTypeOK
  BY ThreadsAssumption, TableAssumption DEF ProcsInit, CoreTypeOK, PCs, Status
<1>4. ProcsTypeOK
  BY <1>1, <1>2, <1>3, TypeParts, Zenon
<1>5. PcsMatch /\ TrampsArmed /\ OnCore /\ SlotsBelow /\ BootSlot
  BY SMTT(30) DEF ProcsInit, PcsMatch, TrampsArmed, OnCore, SlotsBelow, BootSlot, Alive
<1>6. TablesAgree /\ IdleWhenAllExited /\ WaitersHaveReason
  BY Zenon DEF ProcsInit, TablesAgree, IdleWhenAllExited, WaitersHaveReason
<1> QED BY <1>4, <1>5, <1>6, Zenon DEF ProcsInv

THEOREM ProcsInvariant == ProcsSpec => []ProcsInv
<1>1. ProcsInv /\ [ProcsNext]_procs_vars => ProcsInv'
  BY ProcsStep
<1> QED BY <1>1, ProcsStart, PTL DEF ProcsSpec

(* Whatever programs, signals and interrupts do, the scheduler's table and *)
(* the ProcessTable list the same processes with the same fates, the Frame *)
(* Scheduler's count is the number of processes that have not exited, boot *)
(* finds its program a zombie when the count reaches zero, and no parent   *)
(* sleeps in wait past a child's death or stop.                            *)
THEOREM ProcsAreSound == ProcsSpec => []ProcsSound
<1>1. ProcsInv => ProcsSound
  BY DEF ProcsInv, ProcsSound
<1> QED BY <1>1, ProcsInvariant, PTL

(* What a step may do to a stopped process and to a masked signal, action  *)
(* by action.                                                              *)
LEMMA SignalStep ==
    ASSUME ProcsInv, [ProcsNext]_procs_vars
    PROVE  ResumeStep /\ MaskStep
<1>1. ProcsTypeOK /\ state \in [Threads -> RunStates] /\ sig_pending \in [Threads -> SUBSET AllSignals]
  BY DEF ProcsInv, ProcsTypeOK, RunStates
<1>2. UNCHANGED <<state, sig_pending>> => ResumeStep /\ MaskStep
  BY DEF ResumeStep, MaskStep
<1>3. ASSUME NEW u \in Threads, NEW g \in AllSignals, sig_pending' = Pend(u, g, sig_pending),
             state' = Prod(u, g, state)
      PROVE  ResumeStep /\ MaskStep
  <2>1. \A t \in Threads : sig_pending[t] \subseteq sig_pending'[t] /\ (t = u => g \in sig_pending'[t])
    BY <1>1, <1>3, Zenon DEF Pend
  <2>2. MaskStep
    BY <2>1 DEF MaskStep
  <2>3. \A t \in Threads : state'[t] # state[t] => state'[t] = "Runnable"
           /\ (state[t] = "Blocked" \/ (t = u /\ g \in {SIGCONT, SIGKILL}))
    BY <1>1, <1>3, SMTT(30) DEF Prod
  <2>4. ResumeStep
    BY <2>1, <2>3, ZenonT(60) DEF ResumeStep
  <2> QED BY <2>2, <2>4
<1>4. ASSUME NEW s \in Threads, \A t \in Threads : AfterTaking(s)[t] \subseteq sig_pending'[t]
      PROVE  MaskStep
  BY <1>1, <1>4, TakenFacts, ZenonT(60) DEF MaskStep
<1>5. ASSUME \A t \in Threads : state'[t] # state[t] => state[t] # "Stopped" PROVE ResumeStep
  BY <1>5, Zenon DEF ResumeStep
<1>6. ASSUME NEW s \in Threads, state[s] = "Runnable", exit_current(s) PROVE ResumeStep
  <2>1. \A t \in Threads : state[t] = "Stopped" => state'[t] = state[t]
    BY <1>6, Zenon DEF exit_current
  <2> QED BY <1>5, <2>1, Zenon
<1>7. CASE run_one
  <2>1. boot.at = "start" /\ \A t \in Threads : ~Alive(t)
    BY <1>7 DEF run_one, ProcsInv, BootSlot
  <2> QED BY <2>1, Zenon DEF ResumeStep, MaskStep, Alive
<1>8. CASE BootReaps
  BY <1>2, <1>8 DEF BootReaps, sig_vars
<1>9. CASE schedule
  <2> DEFINE in_user == CURRENT # 0 /\ pc[CURRENT] \in {"user", "tramp"} /\ Deliverable(CURRENT) # {}
             outcome == IF in_user THEN Outcome(CURRENT) ELSE "none"
  <2>1. sig_pending' = CASE outcome = "stop" -> StopPending(CURRENT)
                         [] in_user /\ outcome # "stop" -> AfterTaking(CURRENT)
                         [] OTHER -> sig_pending
    BY <1>9, Zenon DEF schedule
  <2>2. state' = IF outcome = "stop" THEN StopState(CURRENT) ELSE state
    BY <1>9, Zenon DEF schedule
  <2>3. in_user => CURRENT \in Threads /\ state[CURRENT] = "Runnable"
    BY <1>1, ThreadsFacts DEF ProcsInv, OnCore, ProcsTypeOK
  <2>4. outcome = "stop" => in_user
    BY SMTT(30)
  <2> HIDE DEF in_user, outcome
  <2>5. CASE outcome = "stop"
    <3>1. PICK s \in Threads : s = CURRENT /\ state[s] = "Runnable"
      BY <2>3, <2>4, <2>5
    <3>2. sig_pending' = StopPending(s) /\ state' = StopState(s)
      BY <2>1, <2>2, <2>5, <3>1, Zenon
    <3> QED BY <1>4, <1>5, <3>1, <3>2, StopFacts, ZenonT(60)
  <2>6. CASE outcome # "stop" /\ in_user
    <3>1. sig_pending' = AfterTaking(CURRENT) /\ state' = state /\ CURRENT \in Threads
      BY <2>1, <2>2, <2>3, <2>6, Zenon
    <3> QED BY <1>4, <1>5, <3>1, ZenonT(60)
  <2>7. CASE outcome # "stop" /\ ~in_user
    <3>1. sig_pending' = sig_pending /\ state' = state
      BY <2>1, <2>2, <2>7, Zenon
    <3> QED BY <1>2, <3>1
  <2> QED BY <2>5, <2>6, <2>7
<1>10. ASSUME NEW g \in Signals, ConsoleSignal(g) PROVE ResumeStep /\ MaskStep
  <2>1. PICK u \in 1 .. N - 1 : sig_pending' = Pend(u, g, sig_pending) /\ state' = Prod(u, g, state)
    BY <1>10, Zenon DEF ConsoleSignal
  <2>2. u \in Threads /\ g \in AllSignals
    BY <1>1, ThreadsFacts, SignalsFacts DEF ProcsTypeOK
  <2> QED BY <1>3, <2>1, <2>2, Zenon
<1>11. ASSUME NEW s \in Threads, Program(s) PROVE ResumeStep /\ MaskStep
  <2>1. ASSUME do_fork(s) PROVE ResumeStep /\ MaskStep
    <3>1. PICK n \in alloc_slot : state' = [state EXCEPT ![n] = "Runnable"] /\ sig_pending' = sig_pending
      BY <2>1, ZenonT(60) DEF do_fork, Admit
    <3>2. n \in Threads /\ state[n] = "Free"
      BY AllocFacts, Zenon
    <3>3. MaskStep
      BY <3>1 DEF MaskStep
    <3> QED BY <1>1, <1>5, <3>1, <3>2, <3>3
  <2>2. ASSUME NEW t \in 0 .. MaxPid, sys_reap_nohang(s, t) PROVE ResumeStep /\ MaskStep
    <3>1. PICK R : R = NohangReaps(s, t) /\ Reap(R)
      BY <2>2, Zenon DEF sys_reap_nohang
    <3>2. \A c \in R : state[c] = "Dead"
      BY <3>1, Zenon DEF NohangReaps
    <3> QED BY <1>5, <3>1, <3>2, Zenon DEF Reap, MaskStep
  <2>3. ASSUME kill_current_user_process(s) PROVE ResumeStep /\ MaskStep
    <3>1. CURRENT = s /\ pc[s] = "user" /\ exit_current(s) /\ sig_pending' = sig_pending
      BY <2>3 DEF kill_current_user_process, sig_vars
    <3>2. state[s] = "Runnable"
      BY <3>1, CurrentFacts
    <3> QED BY <1>6, <3>1, <3>2, Zenon DEF MaskStep
  <2>4. ASSUME NEW t \in 1 .. MaxPid, NEW g \in Signals, sys_kill(s, t, g) PROVE ResumeStep /\ MaskStep
    <3>1. CASE slot_of_pid(t) = {}
      BY <1>2, <2>4, <3>1 DEF sys_kill
    <3>2. CASE slot_of_pid(t) # {}
      <4>1. PICK u \in Threads : u = Lowest(slot_of_pid(t))
        BY <1>1, <3>2, SlotOfPid, Zenon
      <4>2. sig_pending' = Pend(u, g, sig_pending) /\ state' = Prod(u, g, state)
        BY <2>4, <3>2, <4>1 DEF sys_kill
      <4> QED BY <1>3, <4>2, SignalsFacts
    <3> QED BY <3>1, <3>2
  <2>5. ASSUME \/ Plain(s)
               \/ \E g \in Signals, h \in {"SIG_DFL", "SIG_IGN", "handler"}, r \in BOOLEAN :
                     sys_sigaction(s, g, h, r)
               \/ \E how \in 0 .. 2, mask \in SUBSET Signals : set_signal_mask(s, how, mask)
        PROVE  ResumeStep /\ MaskStep
    <3>1. UNCHANGED <<state, sig_pending>>
      BY <2>5 DEF Plain, sys_exit, ForkPanics, sys_wait, sys_other, read_line, exec, LineRead,
                  Trampoline, sys_sigaction, set_signal_mask, sig_vars
    <3> QED BY <1>2, <3>1
  <2> QED BY <1>11, <2>1, <2>2, <2>3, <2>4, <2>5, Zenon DEF Program, Plain
<1>12. ASSUME NEW s \in Threads, Kernel(s) PROVE ResumeStep /\ MaskStep
  <2>1. ASSUME Boundary(s) PROVE ResumeStep /\ MaskStep
    <3>1. CURRENT = s /\ pc[s] \in {"boundary", "exiting"}
      BY <2>1 DEF Boundary
    <3>2. state[s] = "Runnable"
      BY <3>1, CurrentFacts, Zenon
    <3>3. CASE sig_pending' = AfterTaking(s) /\ (state' = state \/ exit_current(s))
      BY <1>4, <1>5, <1>6, <3>2, <3>3, Zenon
    <3>4. CASE sig_pending' = StopPending(s) /\ state' = StopState(s)
      BY <1>4, <1>5, <3>1, <3>2, <3>4, StopFacts, Zenon
    <3> QED BY <2>1, <3>3, <3>4, ZenonT(60) DEF Boundary, ReturnOrExit, do_exit
  <2>2. ASSUME \/ CheckOrBlock(s, "wait?", WaitReady(s), "wait!", "wait.")
               \/ \E done \in BOOLEAN : CheckOrBlock(s, "disk?", done, "disk!", "disk.")
        PROVE  ResumeStep /\ MaskStep
    <3>1. /\ CURRENT = s /\ pc[s] \in {"wait?", "disk?"} /\ sig_pending' = sig_pending
          /\ state' = state \/ state' = [state EXCEPT ![s] = "Blocked"]
      BY <2>2 DEF CheckOrBlock, sig_vars
    <3>2. state[s] = "Runnable"
      BY <3>1, CurrentFacts, SMTT(30)
    <3> QED BY <1>1, <1>5, <3>1, <3>2, Zenon DEF MaskStep
  <2>3. ASSUME WaitReturn(s) PROVE ResumeStep /\ MaskStep
    <3>1. PICK R : R = ToReap(s) /\ Reap(R)
      BY <2>3, Zenon DEF WaitReturn
    <3>2. 1 .. N - 1 \in SUBSET Nat
      OBVIOUS
    <3>3. \A c \in R : state[c] = "Dead"
      <4> DEFINE D == {c \in Children(pid[s], arg[s]) : state[c] = "Dead"}
      <4>1. D \in SUBSET Nat /\ \A c \in D : state[c] = "Dead"
        BY <3>2, Zenon DEF Children
      <4>2. R = IF D = {} THEN {} ELSE {Lowest(D)}
        BY <3>1 DEF ToReap
      <4> HIDE DEF D
      <4> QED BY <4>1, <4>2, LowestOf, ZenonT(60)
    <3> QED BY <1>5, <3>1, <3>3, ZenonT(60) DEF Reap, MaskStep
  <2>4. ASSUME \/ Trampoline(s) \/ exec_into(s)
               \/ Park(s, "wait!", "Blocked", "wait?", irq_on)
               \/ Park(s, "disk!", "Blocked", "disk?", irq_on)
               \/ Park(s, "stop!", "Stopped", "boundary", FALSE)
               \/ Park(s, "xstop!", "Stopped", "exiting", FALSE)
        PROVE  ResumeStep /\ MaskStep
    <3>1. UNCHANGED <<state, sig_pending>>
      BY <2>4, Zenon DEF Trampoline, exec_into, Park, sig_vars
    <3> QED BY <1>2, <3>1
  <2> QED BY <1>12, <2>1, <2>2, <2>3, <2>4, Zenon DEF Kernel
<1>13. ASSUME NEW s \in Threads, LineRead(s) PROVE ResumeStep /\ MaskStep
  BY <1>2, <1>13, SMTT(30) DEF LineRead, sig_vars
<1>14. ASSUME NEW s \in Threads, DiskWake(s) PROVE ResumeStep /\ MaskStep
  BY <1>1, <1>5, <1>14, ZenonT(60) DEF DiskWake, sig_vars, MaskStep
<1>15. CASE UNCHANGED procs_vars
  BY <1>2, <1>15 DEF procs_vars, sig_vars
<1> QED BY <1>7, <1>8, <1>9, <1>10, <1>11, <1>12, <1>13, <1>14, <1>15, Zenon DEF ProcsNext, Halted

(* Only SIGCONT and SIGKILL resume a stopped process: no exit of a child,  *)
(* no disk interrupt, no other signal and no reuse of its slot does.       *)
THEOREM OnlyContinueResumes == ProcsSpec => OnlyContResumes
<1>1. ProcsInv /\ [ProcsNext]_procs_vars => [ResumeStep]_procs_vars
  BY SignalStep
<1> QED BY <1>1, ProcsInvariant, PTL DEF ProcsSpec, OnlyContResumes

(* A signal that is pending and masked stays pending at every delivery     *)
(* point, for as long as its process exists.                               *)
THEOREM MaskedStaysPending == ProcsSpec => BlockedStaysPending
<1>1. ProcsInv /\ [ProcsNext]_procs_vars => [MaskStep]_procs_vars
  BY SignalStep
<1> QED BY <1>1, ProcsInvariant, PTL DEF ProcsSpec, BlockedStaysPending
=============================================================================
