----------------------------- MODULE ShellJobs -----------------------------
(***************************************************************************)
(* Job control of the two shells: the Job and JobControl Frame systems     *)
(* (frame/job.frs, frame/job_control.frs) over their two backends, the     *)
(* hosted one (shell/src/process_backend.rs, shell_env.rs, builtin.rs,     *)
(* signals.rs, exec.rs) and the ring-3 one of ish (user/src/ish.rs) with   *)
(* the kernel's waitpid, reap_nohang and foreground pid behind it.  target *)
(* says which shell a behaviour is of.  The user types commands and        *)
(* terminal signals; children run, exit and stop on their own.             *)
(***************************************************************************)
EXTENDS Integers, Sequences, FiniteSets, SequencesExt, FiniteSetsExt

CONSTANTS
    NSLOTS,     \* process slots of the system
    MaxJobPid,     \* bound: children ever spawned
    MaxId       \* bound: job ids handed out

VARIABLES
    target,     \* "hosted" or "ring3"
    kids,       \* the shell's children by process slot
    last_pid,   \* pids are handed out in order
    jobs,       \* JobControl.jobs
    jc,         \* JobControl: next_id and foreground_id
    FOREGROUND_PID,     \* the kernel's idea of the foreground job (ring 3)
    SUSPEND_REQUESTED,  \* the hosted shell's SIGTSTP flag
    sh          \* where the shell is
job_vars == <<target, kids, last_pid, jobs, jc, FOREGROUND_PID, SUSPEND_REQUESTED, sh>>

NoKid == [pid |-> 0, st |-> "free", group |-> "own"]
Slots == 1 .. NSLOTS
Prompt == [pc |-> "prompt", k |-> 0]
Tick == [pc |-> "tick", k |-> 1]

JobsInit ==
    /\ target \in {"hosted", "ring3"}
    /\ kids = [s \in Slots |-> NoKid] /\ last_pid = 0
    /\ jobs = <<>> /\ jc = [next_id |-> 1, foreground_id |-> 0]
    /\ FOREGROUND_PID = 0 /\ SUSPEND_REQUESTED = FALSE /\ sh = Prompt

-----------------------------------------------------------------------------
(* The children.                                                           *)

SlotOf(pid) == {s \in Slots : kids[s].st # "free" /\ kids[s].pid = pid}
Is(K, pid, st) == \E s \in Slots : K[s].pid = pid /\ K[s].st = st
FreeSlots == {s \in Slots : kids[s].st = "free"}
CanSpawn == FreeSlots # {} /\ last_pid < MaxJobPid

\* A new child takes the lowest free slot.
Spawned(group) ==
    [kids EXCEPT ![Min(FreeSlots)] = [pid |-> last_pid + 1, st |-> "running", group |-> group]]

\* K with the children of S gone.
Freed(K, S) == [s \in Slots |-> IF s \in S THEN NoKid ELSE K[s]]

\* K after a signal to pid.  SIGKILL ends a stopped process too.
Signalled(K, pid, sig) ==
    [s \in Slots |->
        IF K[s].pid # pid THEN K[s]
        ELSE CASE sig = "KILL" /\ K[s].st \in {"running", "stopped"} -> [K[s] EXCEPT !.st = "zombie"]
               [] sig = "TSTP" /\ K[s].st = "running" -> [K[s] EXCEPT !.st = "stopped"]
               [] sig = "CONT" /\ K[s].st = "stopped" -> [K[s] EXCEPT !.st = "running"]
               [] OTHER -> K[s]]

\* The slots reap_nohang frees when asked for pid: dead children in slot order
\* until the one asked for, and none when that one is not dead.
nohang_reaps(K, pid) ==
    LET dead == {s \in Slots : K[s].st = "zombie"}
        match == {s \in dead : K[s].pid = pid} IN
    IF match = {} THEN {} ELSE {s \in dead : s <= Min(match)}

\* try_wait looks at the one child.
WaitReaps(K, pid) == {s \in Slots : K[s].pid = pid /\ K[s].st = "zombie"}

Reaps(K, pid) == IF target = "hosted" THEN WaitReaps(K, pid) ELSE nohang_reaps(K, pid)

-----------------------------------------------------------------------------
(* Job.  live: the backend still has a child.                              *)

Job(id, pid, st, live, spawned_fg) ==
    [id |-> id, pid |-> pid, st |-> st, live |-> live, foreground |-> spawned_fg]

\* try_reap: has the job's child gone?
Gone(K, j) == ~j.live \/ Is(K, j.pid, "zombie")
AfterReap(K, j) == IF j.live THEN Freed(K, Reaps(K, j.pid)) ELSE K

IndexOf(id) == {i \in 1 .. Len(jobs) : jobs[i].id = id}
First(S) == Min(S)
Unfinished(id) == {i \in IndexOf(id) : jobs[i].st # "Done"}

-----------------------------------------------------------------------------
(* JobControl.tick, one job at a time, then the environment's report.      *)

tick_polls ==
    /\ sh.pc = "tick" /\ sh.k <= Len(jobs)
    /\ sh' = [sh EXCEPT !.k = @ + 1]
    /\ LET j == jobs[sh.k] IN
       IF j.st \in {"Foreground", "Background"} /\ Gone(kids, j)
       THEN /\ kids' = AfterReap(kids, j)
            /\ jobs' = [jobs EXCEPT ![sh.k] = [@ EXCEPT !.st = "Done", !.live = FALSE]]
       ELSE UNCHANGED <<kids, jobs>>
    /\ UNCHANGED <<target, last_pid, jc, FOREGROUND_PID, SUSPEND_REQUESTED>>

tick_ends == sh.pc = "tick" /\ sh.k > Len(jobs) /\ sh' = Prompt

\* ish reports and removes what is done; the hosted shell keeps it listed.
ish_reports ==
    /\ target = "ring3" /\ tick_ends
    /\ jobs' = SelectSeq(jobs, LAMBDA j : j.st # "Done")
    /\ UNCHANGED <<target, kids, last_pid, jc, FOREGROUND_PID, SUSPEND_REQUESTED>>

hosted_prompts ==
    /\ target = "hosted" /\ tick_ends
    /\ UNCHANGED <<target, kids, last_pid, jobs, jc, FOREGROUND_PID, SUSPEND_REQUESTED>>

-----------------------------------------------------------------------------
(* What the user types.                                                    *)

\* JobControl.spawn_foreground: the job has the next id without taking it.
RunsForeground(job) ==
    /\ jobs' = Append(jobs, job)
    /\ jc' = [jc EXCEPT !.foreground_id = jc.next_id]
    /\ sh' = [pc |-> "wait", k |-> 0]

\* Mutant: the counter is left alone, as for a foreground job.
RunsBackground_NoBump(job) == jobs' = Append(jobs, job) /\ UNCHANGED jc /\ sh' = Tick

\* JobControl.spawn_background takes the id.
RunsBackground(job) ==
    /\ jobs' = Append(jobs, job)
    /\ jc' = [jc EXCEPT !.next_id = @ + 1]
    /\ sh' = Tick

SpawnFailed(fg) == Job(jc.next_id, 0, "Done", FALSE, fg)
SpawnedJob(st) == Job(jc.next_id, last_pid + 1, st, TRUE, st = "Foreground")

\* StdProcessBackend.spawn: the child stays in the shell's process group.
hosted_spawn_foreground ==
    /\ target = "hosted" /\ sh = Prompt /\ jc.next_id <= MaxId
    /\ \/ /\ CanSpawn /\ kids' = Spawned("shell") /\ last_pid' = last_pid + 1
          /\ RunsForeground(SpawnedJob("Foreground"))
       \/ RunsForeground(SpawnFailed(TRUE)) /\ UNCHANGED <<kids, last_pid>>
    /\ UNCHANGED <<target, FOREGROUND_PID, SUSPEND_REQUESTED>>

\* StdProcessBackend.spawn_detached: a process group of its own.
hosted_spawn_background ==
    /\ target = "hosted" /\ sh = Prompt /\ jc.next_id <= MaxId
    /\ \/ /\ CanSpawn /\ kids' = Spawned("own") /\ last_pid' = last_pid + 1
          /\ RunsBackground(SpawnedJob("Background"))
       \/ RunsBackground(SpawnFailed(FALSE)) /\ UNCHANGED <<kids, last_pid>>
    /\ UNCHANGED <<target, FOREGROUND_PID, SUSPEND_REQUESTED>>

\* SyscallProcessBackend.do_spawn: the parent forks and tells the kernel who is
\* in the foreground.  A program that is not there is found out by the child,
\* which exits 127.
do_spawn(fg) ==
    /\ CanSpawn /\ kids' = Spawned("own") /\ last_pid' = last_pid + 1
    /\ FOREGROUND_PID' = IF fg THEN last_pid + 1 ELSE FOREGROUND_PID

ish_spawn_foreground ==
    /\ target = "ring3" /\ sh = Prompt /\ jc.next_id <= MaxId
    /\ do_spawn(TRUE) /\ RunsForeground(SpawnedJob("Foreground"))
    /\ UNCHANGED <<target, SUSPEND_REQUESTED>>

ish_spawn_background ==
    /\ target = "ring3" /\ sh = Prompt /\ jc.next_id <= MaxId
    /\ do_spawn(FALSE) /\ RunsBackground(SpawnedJob("Background"))
    /\ UNCHANGED <<target, SUSPEND_REQUESTED>>

\* fg <id>: a stopped job is continued; then the shell waits for it.
fg(id) ==
    /\ sh = Prompt /\ Unfinished(id) # {} /\ jc.next_id <= MaxId
    /\ LET i == First(Unfinished(id)) IN
       /\ jobs' = [jobs EXCEPT ![i].st = "Foreground"]
       /\ kids' = IF jobs[i].st = "Stopped" /\ jobs[i].live
                  THEN Signalled(kids, jobs[i].pid, "CONT") ELSE kids
    /\ jc' = [jc EXCEPT !.foreground_id = id] /\ sh' = [pc |-> "wait", k |-> 0]
    /\ UNCHANGED <<target, last_pid, FOREGROUND_PID, SUSPEND_REQUESTED>>

\* JobControl.bg: only a stopped job hears it.
Continues(i) ==
    /\ jobs' = IF jobs[i].st = "Stopped" THEN [jobs EXCEPT ![i].st = "Background"] ELSE jobs
    /\ kids' = IF jobs[i].st = "Stopped" /\ jobs[i].live
               THEN Signalled(kids, jobs[i].pid, "CONT") ELSE kids
    /\ sh' = Tick /\ UNCHANGED <<target, last_pid, jc, FOREGROUND_PID, SUSPEND_REQUESTED>>

hosted_bg(id) == target = "hosted" /\ sh = Prompt /\ Unfinished(id) # {} /\ Continues(First(Unfinished(id)))

\* bg [%id] of ish: without an id, the stopped job with the highest one.
ish_bg ==
    /\ target = "ring3" /\ sh = Prompt
    /\ LET stopped == {i \in 1 .. Len(jobs) : jobs[i].st = "Stopped"}
           newest == {i \in stopped : \A o \in stopped : jobs[o].id <= jobs[i].id} IN
       \E i \in newest \cup {i \in 1 .. Len(jobs) : jobs[i].st # "Done" /\ jobs[i].live} : Continues(i)

\* kill <id> of the hosted shell: SIGKILL, one try to reap, and the job is
\* done.  The child may not have died yet when it is tried.
kill_job(id) ==
    /\ sh = Prompt /\ target = "hosted" /\ Unfinished(id) # {}
    /\ LET i == First(Unfinished(id))
           K == Signalled(kids, jobs[i].pid, "KILL") IN
       /\ \/ kids' = AfterReap(K, jobs[i]) /\ jobs' = [jobs EXCEPT ![i] = [@ EXCEPT !.st = "Done", !.live = FALSE]]
          \/ kids' = K /\ jobs' = [jobs EXCEPT ![i].st = "Done"]
    /\ sh' = Tick /\ UNCHANGED <<target, last_pid, jc, FOREGROUND_PID, SUSPEND_REQUESTED>>

\* kill -SIG %<id> of ish goes to the process; the Job is not told.
ish_kill(id, sig) ==
    /\ sh = Prompt /\ target = "ring3" /\ Unfinished(id) # {}
    /\ kids' = Signalled(kids, jobs[First(Unfinished(id))].pid, sig)
    /\ sh' = Tick
    /\ UNCHANGED <<target, last_pid, jobs, jc, FOREGROUND_PID, SUSPEND_REQUESTED>>

\* wait <id> of the hosted shell blocks on a running job only.
wait_for(id) ==
    /\ sh = Prompt /\ target = "hosted" /\ IndexOf(id) # {}
    /\ LET i == First(IndexOf(id)) IN
       sh' = IF jobs[i].st \in {"Foreground", "Background"} THEN [pc |-> "flag", k |-> i] ELSE Tick
    /\ UNCHANGED <<target, kids, last_pid, jobs, jc, FOREGROUND_PID, SUSPEND_REQUESTED>>

\* A redirected foreground command is no job; the shell waits for its pid.
hosted_run_redirected ==
    /\ target = "hosted" /\ sh = Prompt /\ CanSpawn
    /\ kids' = Spawned("shell") /\ last_pid' = last_pid + 1
    /\ sh' = [pc |-> "untracked", k |-> last_pid + 1]
    /\ UNCHANGED <<target, jobs, jc, FOREGROUND_PID, SUSPEND_REQUESTED>>

ish_run_redirected ==
    /\ target = "ring3" /\ sh = Prompt
    /\ do_spawn(TRUE) /\ sh' = [pc |-> "untracked", k |-> last_pid + 1]
    /\ UNCHANGED <<target, jobs, jc, SUSPEND_REQUESTED>>

\* A redirected background command is left to itself.
spawn_background_redirected ==
    /\ sh = Prompt /\ CanSpawn
    /\ kids' = Spawned("own") /\ last_pid' = last_pid + 1
    /\ sh' = Tick /\ UNCHANGED <<target, jobs, jc, FOREGROUND_PID, SUSPEND_REQUESTED>>

-----------------------------------------------------------------------------
(* Waiting in the foreground.                                              *)

\* The hosted environment drops a finished job whose id was never committed.
HostedDrops(job, next) == job.st = "Done" /\ job.id = next

\* ish drops a job that did not stop.
IshDrops(job) == job.st # "Stopped"

\* The end of wait_foreground: the job at i rests in st, a job that stopped has
\* its id committed, and the environment has its say.
Rested(i, st, live, K) ==
    LET next == IF st = "Stopped" THEN jc.next_id + 1 ELSE jc.next_id
        marked == [jobs EXCEPT ![i] = [@ EXCEPT !.st = st, !.live = live]]
        drop == IF target = "hosted" THEN HostedDrops(marked[i], next) ELSE IshDrops(marked[i]) IN
    /\ kids' = K
    /\ jc' = [next_id |-> next, foreground_id |-> 0]
    /\ jobs' = IF drop THEN RemoveAt(marked, i) ELSE marked
    /\ sh' = Tick

\* drive_foreground_to_idle finds the first job with the id.
wait_starts ==
    /\ sh.pc = "wait"
    /\ LET i == First(IndexOf(jc.foreground_id)) IN
       IF jobs[i].st = "Done"
       THEN Rested(i, "Done", FALSE, kids) /\ UNCHANGED <<target, last_pid, FOREGROUND_PID, SUSPEND_REQUESTED>>
       ELSE /\ sh' = [pc |-> IF target = "hosted" THEN "flag" ELSE "waitpid", k |-> i]
            /\ UNCHANGED <<target, kids, last_pid, jobs, jc, FOREGROUND_PID, SUSPEND_REQUESTED>>

\* What ends a wait: wait_foreground's has the foreground id set, wait_for's
\* only moves the job.
WaitEnds(i, st, live, K) ==
    IF jc.foreground_id # 0 THEN Rested(i, st, live, K)
    ELSE /\ kids' = K /\ sh' = Tick /\ UNCHANGED jc
         /\ jobs' = [jobs EXCEPT ![i] = [@ EXCEPT !.st = st, !.live = live]]

\* StdProcessBackend.wait_foreground: the flag first, ...
hosted_checks_flag ==
    /\ sh.pc = "flag"
    /\ SUSPEND_REQUESTED' = FALSE
    /\ IF SUSPEND_REQUESTED
       THEN WaitEnds(sh.k, "Stopped", jobs[sh.k].live, Signalled(kids, jobs[sh.k].pid, "TSTP"))
       ELSE sh' = [sh EXCEPT !.pc = "reap"] /\ UNCHANGED <<kids, jobs, jc>>
    /\ UNCHANGED <<target, last_pid, FOREGROUND_PID>>

\* ... then the child, then sleep and look again.
hosted_tries_reap ==
    /\ sh.pc = "reap"
    /\ IF Gone(kids, jobs[sh.k])
       THEN WaitEnds(sh.k, "Done", FALSE, AfterReap(kids, jobs[sh.k]))
       ELSE sh' = [sh EXCEPT !.pc = "flag"] /\ UNCHANGED <<kids, jobs, jc>>
    /\ UNCHANGED <<target, last_pid, FOREGROUND_PID, SUSPEND_REQUESTED>>

\* waitpid(pid) of the kernel returns for a dead, stopped or missing child.
Waitable(pid) == SlotOf(pid) = {} \/ Is(kids, pid, "zombie") \/ Is(kids, pid, "stopped")

\* SyscallProcessBackend.wait_foreground.  No such child answers u64::MAX,
\* which has the WSTOPPED bit too.
ish_waits ==
    /\ sh.pc = "waitpid" /\ Waitable(jobs[sh.k].pid)
    /\ LET j == jobs[sh.k] IN
       /\ FOREGROUND_PID' = IF j.foreground THEN 0 ELSE FOREGROUND_PID
       /\ IF Is(kids, j.pid, "zombie")
          THEN Rested(sh.k, "Done", FALSE, Freed(kids, WaitReaps(kids, j.pid)))
          ELSE Rested(sh.k, "Stopped", TRUE, kids)
    /\ UNCHANGED <<target, last_pid, SUSPEND_REQUESTED>>

\* The hosted shell's Child::wait returns for a dead child only.
hosted_untracked_ends ==
    /\ target = "hosted" /\ sh.pc = "untracked" /\ Is(kids, sh.k, "zombie")
    /\ kids' = Freed(kids, WaitReaps(kids, sh.k)) /\ sh' = Tick
    /\ UNCHANGED <<target, last_pid, jobs, jc, FOREGROUND_PID, SUSPEND_REQUESTED>>

ish_untracked_ends ==
    /\ target = "ring3" /\ sh.pc = "untracked" /\ Waitable(sh.k)
    /\ kids' = Freed(kids, WaitReaps(kids, sh.k)) /\ FOREGROUND_PID' = 0 /\ sh' = Tick
    /\ UNCHANGED <<target, last_pid, jobs, jc, SUSPEND_REQUESTED>>

-----------------------------------------------------------------------------
(* The rest of the world.                                                  *)

child_exits ==
    /\ \E s \in Slots : kids[s].st = "running" /\ kids' = [kids EXCEPT ![s].st = "zombie"]
    /\ UNCHANGED <<target, last_pid, jobs, jc, FOREGROUND_PID, SUSPEND_REQUESTED, sh>>

\* Ctrl-C or Ctrl-Z while a command runs.  The hosted terminal signals the
\* shell's process group, ish's console the kernel's foreground pid.
terminal_signal(sig) ==
    /\ sh.pc \notin {"prompt", "tick"}
    /\ kids' = IF target = "hosted"
               THEN [s \in Slots |-> IF kids[s].group = "shell"
                                     THEN Signalled(kids, kids[s].pid, sig)[s] ELSE kids[s]]
               ELSE Signalled(kids, FOREGROUND_PID, sig)
    /\ SUSPEND_REQUESTED' = (SUSPEND_REQUESTED \/ (target = "hosted" /\ sig = "TSTP"))
    /\ UNCHANGED <<target, last_pid, jobs, jc, FOREGROUND_PID, sh>>

Ids == 1 .. MaxId

ShellStep ==
    \/ tick_polls \/ ish_reports \/ hosted_prompts \/ wait_starts
    \/ hosted_checks_flag \/ hosted_tries_reap \/ hosted_untracked_ends
    \/ ish_waits \/ ish_untracked_ends

User ==
    \/ hosted_spawn_foreground \/ hosted_spawn_background \/ hosted_run_redirected
    \/ ish_spawn_foreground \/ ish_spawn_background \/ ish_run_redirected
    \/ spawn_background_redirected \/ ish_bg
    \/ \E id \in Ids : fg(id) \/ hosted_bg(id) \/ kill_job(id) \/ wait_for(id)
    \/ \E id \in Ids, sig \in {"KILL", "TSTP", "CONT"} : ish_kill(id, sig)

Outside == child_exits \/ \E sig \in {"KILL", "TSTP"} : terminal_signal(sig)

JobsNext == ShellStep \/ User \/ Outside

JobsSpec == JobsInit /\ [][JobsNext]_job_vars

-----------------------------------------------------------------------------
(* Properties.                                                             *)

(* No two jobs in the table have the same id, and no id is handed out      *)
(* while a job has it: a foreground command carries the next id without    *)
(* taking it, so the entry must be gone, or the id committed, before the   *)
(* next command.  The commands fg, bg, kill and wait and the foreground    *)
(* wait itself all pick the first job with an id.                          *)
JobIdsUnique ==
    /\ \A i, j \in 1 .. Len(jobs) : jobs[i].id = jobs[j].id => i = j
    /\ \A i \in 1 .. Len(jobs) : jobs[i].id >= jc.next_id => jc.foreground_id = jobs[i].id

(* At the prompt nothing is in the foreground: no job is in $Foreground,   *)
(* JobControl is idle, and ring 3's kernel routes terminal signals to      *)
(* nobody, whichever way the last command ended.                           *)
PromptIsFree ==
    sh.pc \in {"prompt", "tick"} =>
      /\ jc.foreground_id = 0 /\ FOREGROUND_PID = 0
      /\ \A i \in 1 .. Len(jobs) : jobs[i].st # "Foreground"

(* A job that is not done still has its child, if only as a zombie.        *)
(* usermode.rs says of reaping a background child behind the job table     *)
(* that its "Done" report would be lost and its entry would linger as      *)
(* "Running" forever.                                                      *)
JobHasChild ==
    \A i \in 1 .. Len(jobs) : jobs[i].st # "Done" => SlotOf(jobs[i].pid) # {}

(* While ish waits for a foreground job, the kernel routes terminal        *)
(* signals to that job: "tell the kernel which pid is the foreground job,  *)
(* so the console's Ctrl-C/Ctrl-Z routes the terminal signal to it".       *)
ForegroundRouted ==
    target = "ring3" /\ sh.pc = "waitpid" => FOREGROUND_PID = jobs[sh.k].pid

(* The job table can be relied on: an id names one job, and at the prompt  *)
(* none is in the foreground.                                              *)
JobsSound == JobIdsUnique /\ PromptIsFree

=============================================================================
