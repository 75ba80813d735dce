--------------------------- MODULE ShellPipeline ---------------------------
(***************************************************************************)
(* A foreground pipeline: run_foreground_pipeline of the hosted shell      *)
(* (shell/src/exec.rs) and run_pipeline of ish (user/src/ish.rs).  What    *)
(* counts is who holds which end of each pipe: a reader sees the end of    *)
(* its input when no writer is left, and a hosted writer on a full pipe    *)
(* blocks while somebody, the shell included, could still read.  Pipe i    *)
(* joins stage i to stage i + 1.                                           *)
(***************************************************************************)
EXTENDS Integers, FiniteSets

CONSTANTS
    Shells,     \* pairs of a shell and a number of stages
    Fails,      \* stages whose spawn (or output file) may fail; 0: none does
    CAP,        \* bytes a pipe holds
    MaxWrites   \* bound: what the first stage writes before it exits

VARIABLES
    shell,      \* "hosted" or "ring3"
    stages,          \* stages
    failing,       \* the stage that cannot start, or 0
    shell_at, stage,      \* where the shell is, and at which stage
    proc,       \* the stages' processes
    reads, writes,  \* who holds the read and the write end of each pipe
    level,      \* bytes in each pipe
    left        \* what the first stage has still to write
pl_vars == <<shell, stages, failing, shell_at, stage, proc, reads, writes, level, left>>

Stages == 1 .. stages
AllStages == 1 .. 3
Shell == 0      \* the shell as a holder of an end

PipelineInit ==
    /\ \E sn \in Shells : shell = sn[1] /\ stages = sn[2]
    /\ failing \in Fails /\ (shell = "ring3" => failing = 0)
    /\ shell_at = "spawn" /\ stage = 1
    /\ proc = [s \in AllStages |-> "none"]
    /\ reads = [s \in AllStages |-> {}] /\ writes = [s \in AllStages |-> {}]
    /\ level = [s \in AllStages |-> 0] /\ left = MaxWrites

-----------------------------------------------------------------------------
(* The hosted shell.                                                       *)

\* Stage i starts: its stdout is a new pipe whose read end the shell keeps in
\* prev_stdout, unless it is the last; its stdin is the previous pipe, whose
\* read end the shell drops with the Command at the end of the iteration.
spawn_stage ==
    /\ shell = "hosted" /\ shell_at = "spawn" /\ stage <= stages /\ failing # stage
    /\ proc' = [proc EXCEPT ![stage] = "up"]
    /\ reads' = [s \in AllStages |-> CASE s = stage /\ stage < stages -> {Shell}
                                       [] s = stage - 1 -> {stage}
                                       [] OTHER -> reads[s]]
    /\ writes' = IF stage < stages THEN [writes EXCEPT ![stage] = {stage}] ELSE writes
    /\ stage' = stage + 1
    /\ UNCHANGED <<shell, stages, failing, shell_at, level, left>>

\* Stage i cannot be spawned, or is the last and its output file cannot be
\* opened.  prev_stdout was taken for the Command's stdin, so dropping it drops
\* nothing: the Command holds the read end until the function returns.
spawn_fails ==
    /\ shell = "hosted" /\ shell_at = "spawn" /\ stage <= stages /\ failing = stage
    /\ shell_at' = "wait" /\ stage' = 1
    /\ UNCHANGED <<shell, stages, failing, proc, reads, writes, level, left>>

all_spawned ==
    /\ shell = "hosted" /\ shell_at = "spawn" /\ stage = stages + 1
    /\ shell_at' = "wait" /\ stage' = 1
    /\ UNCHANGED <<shell, stages, failing, proc, reads, writes, level, left>>

-----------------------------------------------------------------------------
(* ish: pipe, two forks, both ends closed, two waitpids.                   *)

ish_pipe ==
    /\ shell = "ring3" /\ shell_at = "spawn" /\ stage = 1
    /\ reads' = [reads EXCEPT ![1] = {Shell}] /\ writes' = [writes EXCEPT ![1] = {Shell}]
    /\ shell_at' = "fork" /\ UNCHANGED <<shell, stages, failing, stage, proc, level, left>>

\* The child inherits both ends.
ish_forks ==
    /\ shell_at = "fork" /\ stage <= stages
    /\ proc' = [proc EXCEPT ![stage] = "forked"]
    /\ reads' = [reads EXCEPT ![1] = @ \cup {stage}] /\ writes' = [writes EXCEPT ![1] = @ \cup {stage}]
    /\ stage' = stage + 1 /\ UNCHANGED <<shell, stages, failing, shell_at, level, left>>

\* It moves its end to stdin or stdout, closes the rest and execs.
ish_child_execs(s) ==
    /\ proc[s] = "forked"
    /\ proc' = [proc EXCEPT ![s] = "up"]
    /\ reads' = IF s = 1 THEN [reads EXCEPT ![1] = @ \ {s}] ELSE reads
    /\ writes' = IF s = 2 THEN [writes EXCEPT ![1] = @ \ {s}] ELSE writes
    /\ UNCHANGED <<shell, stages, failing, shell_at, stage, level, left>>

ish_closes ==
    /\ shell_at = "fork" /\ stage = stages + 1
    /\ reads' = [reads EXCEPT ![1] = @ \ {Shell}] /\ writes' = [writes EXCEPT ![1] = @ \ {Shell}]
    /\ shell_at' = "wait" /\ stage' = 1 /\ UNCHANGED <<shell, stages, failing, proc, level, left>>

-----------------------------------------------------------------------------
(* Waiting, in spawn order, then back to the prompt.                       *)

wait_child ==
    /\ shell_at = "wait" /\ stage <= stages /\ proc[stage] \in {"none", "dead"}
    /\ stage' = stage + 1 /\ UNCHANGED <<shell, stages, failing, shell_at, proc, reads, writes, level, left>>

pipeline_returns ==
    /\ shell_at = "wait" /\ stage = stages + 1
    /\ shell_at' = "prompt"
    /\ reads' = [s \in AllStages |-> reads[s] \ {Shell}]
    /\ writes' = [s \in AllStages |-> writes[s] \ {Shell}]
    /\ UNCHANGED <<shell, stages, failing, stage, proc, level, left>>

-----------------------------------------------------------------------------
(* The programs: the first writes and exits, the others copy their input   *)
(* until it ends.  A hosted writer with no reader gets SIGPIPE; a kernel   *)
(* pipe takes what fits and drops the rest.                                *)

Exits(s) ==
    /\ proc' = [proc EXCEPT ![s] = "dead"]
    /\ reads' = [p \in AllStages |-> reads[p] \ {s}]
    /\ writes' = [p \in AllStages |-> writes[p] \ {s}]
    /\ UNCHANGED <<shell, stages, failing, shell_at, stage, level, left>>

\* What writing does to the pipe after stage s, from the levels L; the last
\* stage writes to the terminal or a file.
Written(s, L) == IF s < stages /\ L[s] < CAP THEN [L EXCEPT ![s] = @ + 1] ELSE L
CanWrite(s) == s = stages \/ level[s] < CAP \/ shell = "ring3"

first_writes ==
    /\ proc[1] = "up" /\ left > 0
    /\ \/ reads[1] # {} /\ CanWrite(1) /\ level' = Written(1, level) /\ left' = left - 1
          /\ UNCHANGED <<shell, stages, failing, shell_at, stage, proc, reads, writes>>
       \/ reads[1] = {} /\ Exits(1)

first_exits == proc[1] = "up" /\ left = 0 /\ Exits(1)

copies(s) ==
    /\ proc[s] = "up" /\ s > 1 /\ level[s - 1] > 0
    /\ \/ (s = stages \/ reads[s] # {}) /\ CanWrite(s)
          /\ level' = Written(s, [level EXCEPT ![s - 1] = @ - 1])
          /\ UNCHANGED <<shell, stages, failing, shell_at, stage, proc, reads, writes, left>>
       \/ s < stages /\ reads[s] = {} /\ Exits(s)

sees_eof(s) ==
    /\ proc[s] = "up" /\ s > 1 /\ level[s - 1] = 0 /\ writes[s - 1] = {}
    /\ Exits(s)

\* A program may also leave before its input ends, as head does.
leaves_early(s) == proc[s] = "up" /\ s > 1 /\ Exits(s)

PipelineShell ==
    \/ spawn_stage \/ spawn_fails \/ all_spawned
    \/ ish_pipe \/ ish_forks \/ ish_closes
    \/ wait_child \/ pipeline_returns
StageRuns(s) ==
    \/ ish_child_execs(s) \/ copies(s) \/ sees_eof(s)
    \/ s = 1 /\ (first_writes \/ first_exits)

PipelineNext ==
    \/ PipelineShell
    \/ \E s \in AllStages : StageRuns(s) \/ leaves_early(s)

PipelineSpec == PipelineInit /\ [][PipelineNext]_pl_vars

-----------------------------------------------------------------------------
(* The shell is back at its prompt: it must get there, for every way the   *)
(* stages interleave.                                                      *)
(* exec.rs says it drops the upstream read end "BEFORE waiting, so the     *)
(* previous stage sees EOF on its stdout and can exit instead of blocking  *)
(* on a full pipe (which would deadlock our wait())"; ish.rs says its      *)
(* parent closes both ends, "otherwise the reader never sees EOF".         *)
PipelineReturned == shell_at = "prompt"
=============================================================================
