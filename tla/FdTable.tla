------------------------------ MODULE FdTable ------------------------------
(***************************************************************************)
(* Open descriptors: the per-slot tables of vfs.rs, the pool of pipe.rs    *)
(* and the Pipe system of pipe.frs, whose counts decide when a reader sees *)
(* end of file and when a pipe is freed.  The operations run with          *)
(* interrupts off, so each is one step.  Console streams and files are     *)
(* told apart from pipe ends, not from each other: they only take up room. *)
(***************************************************************************)
EXTENDS Integers, FiniteSets

CONSTANTS
    FdSlots,      \* scheduler slots, each with a table
    MAX_OPEN,
    MAX_PIPES,
    MaxLost     \* bound on the references a full table loses

ASSUME FdAssumption ==
    /\ IsFiniteSet(FdSlots)
    /\ MAX_OPEN \in Nat /\ MAX_OPEN >= 3
    /\ MAX_PIPES \in Nat
    /\ MaxLost \in Nat

VARIABLES
    TABLES,   \* per slot, per descriptor: what it refers to
    POOL,     \* per pipe: its Pipe system, "None" when the pool slot is free
    state,    \* per slot: "Free", "Live" or "Dead"
    lost      \* history: references dup counted and did not install, per end

fd_vars == <<TABLES, POOL, state, lost>>

FDs == 0 .. MAX_OPEN - 1
Ids == 0 .. MAX_PIPES - 1

NoFile == <<"none">>
Other == <<"other">>
End(id, write_end) == <<"pipe", id, write_end>>
Slot == {NoFile, Other} \cup {End(id, w) : id \in Ids, w \in BOOLEAN}

EmptyTable == [fd \in FDs |-> NoFile]
ConsoleFds == [fd \in FDs |-> IF fd <= 2 THEN Other ELSE NoFile]

NoPipe == [st |-> "None", readers |-> 0, writers |-> 0]
Created == [st |-> "Writable", readers |-> 1, writers |-> 1]

FdInit ==
    /\ TABLES = [s \in FdSlots |-> EmptyTable]
    /\ POOL = [id \in Ids |-> NoPipe]
    /\ state = [s \in FdSlots |-> "Free"]
    /\ lost = [id \in Ids |-> [w \in BOOLEAN |-> 0]]

-----------------------------------------------------------------------------
(* The Pipe system.  Several events of one step are taken together.        *)

(* r reader_opened and w writer_opened events: ignored by a free slot.     *)
Opened(p, r, w) ==
    IF p.st = "None" THEN p
    ELSE [st |-> IF w > 0 THEN "Writable" ELSE p.st,
          readers |-> p.readers + r, writers |-> p.writers + w]

(* r reader_closed and w writer_closed events, each followed by            *)
(* free_if_idle.  $Drained ignores writer_closed.                          *)
Closed(p, r, w) ==
    LET left == IF p.writers < w THEN 0 ELSE p.writers - w IN
    IF r + w = 0 \/ p.st = "None" THEN p
    ELSE IF p.readers - r <= 0 /\ left = 0 THEN NoPipe
    ELSE [st |-> IF left = 0 THEN "Drained" ELSE p.st,
          readers |-> p.readers - r, writers |-> left]

has_writers(id) == POOL[id].st = "Writable"

(* How many descriptors of table t, among S, are this end.                 *)
Refs(t, S, id, w) == Cardinality({fd \in S : t[fd] = End(id, w)})

(* clone_slot of the descriptors S of t.                                   *)
CloneEnds(pool, t, S) ==
    [id \in Ids |-> Opened(pool[id], Refs(t, S, id, FALSE), Refs(t, S, id, TRUE))]

(* The pipe part of close and clear_table, for the descriptors S of t.     *)
CloseEnds(pool, t, S) ==
    [id \in Ids |-> Closed(pool[id], Refs(t, S, id, FALSE), Refs(t, S, id, TRUE))]

FreeFds(t) == {fd \in FDs : t[fd] = NoFile}
Lowest(S) == CHOOSE x \in S : \A y \in S : x <= y

-----------------------------------------------------------------------------
(* System calls of the live process in slot s.                             *)

(* open_read and open_write: the lowest free descriptor.                   *)
open(s) ==
    /\ state[s] = "Live"
    /\ FreeFds(TABLES[s]) # {}
    /\ TABLES' = [TABLES EXCEPT ![s][Lowest(FreeFds(TABLES[s]))] = Other]
    /\ UNCHANGED <<POOL, state, lost>>

close(s, fd) ==
    /\ state[s] = "Live"
    /\ POOL' = CloseEnds(POOL, TABLES[s], {fd})
    /\ TABLES' = [TABLES EXCEPT ![s][fd] = NoFile]
    /\ UNCHANGED <<state, lost>>

(* The two lowest free descriptors; with fewer, both ends are dropped.     *)
make_pipe(s) ==
    LET free == FreeFds(TABLES[s])
        pipes == {id \in Ids : POOL[id].st = "None"}
        id == Lowest(pipes)
        r == Lowest(free)
        w == Lowest(free \ {r})
    IN  /\ state[s] = "Live"
        /\ pipes # {}
        /\ IF Cardinality(free) >= 2
           THEN /\ POOL' = [POOL EXCEPT ![id] = Created]
                /\ TABLES' = [TABLES EXCEPT ![s][r] = End(id, FALSE), ![s][w] = End(id, TRUE)]
           ELSE /\ POOL' = [POOL EXCEPT ![id] = Closed(Created, 1, 1)]
                /\ UNCHANGED TABLES
        /\ UNCHANGED <<state, lost>>

(* clone_slot counts the reference before a free descriptor is looked for. *)
dup(s, fd) ==
    LET free == FreeFds(TABLES[s])
        e == TABLES[s][fd]
    IN  /\ state[s] = "Live"
        /\ e # NoFile
        /\ POOL' = CloneEnds(POOL, TABLES[s], {fd})
        /\ IF free # {}
           THEN TABLES' = [TABLES EXCEPT ![s][Lowest(free)] = e] /\ UNCHANGED lost
           ELSE /\ lost' = IF e = Other THEN lost ELSE [lost EXCEPT ![e[2]][e[3]] = @ + 1]
                /\ e # Other => lost[e[2]][e[3]] < MaxLost
                /\ UNCHANGED TABLES
        /\ UNCHANGED state

(* oldfd is cloned, then newfd is closed.                                  *)
dup2(s, oldfd, newfd) ==
    /\ state[s] = "Live"
    /\ TABLES[s][oldfd] # NoFile
    /\ oldfd # newfd
    /\ POOL' = CloseEnds(CloneEnds(POOL, TABLES[s], {oldfd}), TABLES[s], {newfd})
    /\ TABLES' = [TABLES EXCEPT ![s][newfd] = TABLES[s][oldfd]]
    /\ UNCHANGED <<state, lost>>

-----------------------------------------------------------------------------
(* The life of a process, as far as its table goes.  exec keeps the table. *)

(* spawn_user_from_frame, clone_fds.                                       *)
fork(s, child) ==
    /\ state[s] = "Live" /\ state[child] = "Free"
    /\ state' = [state EXCEPT ![child] = "Live"]
    /\ POOL' = CloneEnds(CloseEnds(POOL, TABLES[child], FDs), TABLES[s], FDs)
    /\ TABLES' = [TABLES EXCEPT ![child] = TABLES[s]]
    /\ UNCHANGED lost

(* spawn_user, init_console_fds.                                           *)
spawn_user(s) ==
    /\ state[s] = "Free"
    /\ state' = [state EXCEPT ![s] = "Live"]
    /\ POOL' = CloseEnds(POOL, TABLES[s], FDs)
    /\ TABLES' = [TABLES EXCEPT ![s] = ConsoleFds]
    /\ UNCHANGED lost

(* A dead process keeps its descriptors until it is reaped.                *)
exit_current_fds(s) ==
    /\ state[s] = "Live"
    /\ state' = [state EXCEPT ![s] = "Dead"]
    /\ UNCHANGED <<TABLES, POOL, lost>>

(* Mutant: the table is emptied and its pipe ends stay counted.            *)
reap_dead_child_Forgets(s) ==
    /\ state[s] = "Dead"
    /\ state' = [state EXCEPT ![s] = "Free"]
    /\ TABLES' = [TABLES EXCEPT ![s] = EmptyTable]
    /\ UNCHANGED <<POOL, lost>>

(* reap_dead_child and reap_dead_pid, clear_fds.                           *)
reap_dead_child(s) ==
    /\ state[s] = "Dead"
    /\ state' = [state EXCEPT ![s] = "Free"]
    /\ POOL' = CloseEnds(POOL, TABLES[s], FDs)
    /\ TABLES' = [TABLES EXCEPT ![s] = EmptyTable]
    /\ UNCHANGED lost

FdNext ==
    \E s \in FdSlots :
       \/ open(s) \/ make_pipe(s) \/ spawn_user(s) \/ exit_current_fds(s) \/ reap_dead_child(s)
       \/ \E fd \in FDs : close(s, fd) \/ dup(s, fd) \/ \E newfd \in FDs : dup2(s, fd, newfd)
       \/ \E child \in FdSlots : fork(s, child)

FdSpec == FdInit /\ [][FdNext]_fd_vars

-----------------------------------------------------------------------------

FdTypeOK ==
    /\ TABLES \in [FdSlots -> [FDs -> Slot]]
    /\ POOL \in [Ids -> [st : {"None", "Writable", "Drained"}, readers : Nat, writers : Nat]]
    /\ state \in [FdSlots -> {"Free", "Live", "Dead"}]
    /\ lost \in [Ids -> [BOOLEAN -> 0 .. MaxLost]]

(* The descriptors, of any process, on one end of a pipe.                  *)
Holders(id, w) == {h \in FdSlots \X FDs : TABLES[h[1]][h[2]] = End(id, w)}

(* The Pipe system's counts are the descriptors onto each end, plus the    *)
(* references a failed dup left behind: no close, fork, dup2 or reap, in   *)
(* any order by any process, loses or invents one.                         *)
EndsCounted ==
    \A id \in Ids :
        /\ POOL[id].readers = Cardinality(Holders(id, FALSE)) + lost[id][FALSE]
        /\ POOL[id].writers = Cardinality(Holders(id, TRUE)) + lost[id][TRUE]

(* A reader is never told end of file while some process can still write:  *)
(* a pipe with a write end open is allocated and $Writable.                *)
NoEarlyEof == \A id \in Ids : Holders(id, TRUE) # {} => has_writers(id)

(* The tables and the pipes agree over every sequence of open, pipe, dup,  *)
(* close, fork, exit and reap.                                             *)
FdSound == FdTypeOK /\ EndsCounted /\ NoEarlyEof
=============================================================================
