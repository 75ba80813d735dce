---------------------------- MODULE IoScheduler ----------------------------
(***************************************************************************)
(* The slot-pool supervisor of the disk engine, frame/io_scheduler.frs.    *)
(* It admits up to `slots' concurrent disk requests: acquire(pid) hands    *)
(* out a free slot or queues the requester, release(pid) hands the freed   *)
(* slot to the requester at the front of the queue or returns it to the    *)
(* pool.  The machine has two states, $HasFreeSlots and $Full.             *)
(***************************************************************************)
EXTENDS Integers, Sequences

CONSTANTS
    Pids,   \* the processes that do disk I/O
    slots   \* constructor parameter: the size of the driver's request pool

(* pid 0 is the boot context, which never enters the machine               *)
(* (acquire_disk bypasses it), and 0 is release's "nobody admitted".       *)
ASSUME PidsAssumption == Pids \subseteq Nat \ {0}

(* $HasFreeSlots is the initial state, valid for slots >= 1.               *)
ASSUME SlotsAssumption == slots \in Nat \ {0}

VARIABLES
    mode,    \* the Frame state
    free,    \* free slot indices, a FIFO
    owners,  \* pid -> granted slot, -1 when the map has no such key
    wait_q   \* requesters waiting for a slot, a FIFO

io_vars == <<mode, free, owners, wait_q>>

Slots == 0 .. slots - 1

Elements(q) == {q[i] : i \in 1 .. Len(q)}

slot_for(pid) == owners[pid]

IoInit ==
    /\ mode = "HasFreeSlots"
    /\ free = [i \in 1 .. slots |-> i - 1]
    /\ owners = [p \in Pids |-> -1]
    /\ wait_q = <<>>

-----------------------------------------------------------------------------

assign(pid) ==
    IF free = <<>>
    THEN UNCHANGED <<free, owners>>
    ELSE /\ owners' = [owners EXCEPT ![pid] = Head(free)]
         /\ free' = Tail(free)

AcquireFree(pid) ==
    /\ mode = "HasFreeSlots"
    /\ assign(pid)
    /\ mode' = IF free' = <<>> THEN "Full" ELSE mode
    /\ UNCHANGED wait_q

AcquireFull(pid) ==
    /\ mode = "Full"
    /\ wait_q' = Append(wait_q, pid)
    /\ UNCHANGED <<mode, free, owners>>

(* The pid do_release hands the slot to and returns, 0 when there is none. *)
admitted(pid) ==
    IF owners[pid] = -1 \/ wait_q = <<>> THEN 0 ELSE Head(wait_q)

(* do_release's arms: pid holds nothing, nobody waits, somebody waits.     *)
ReleaseNothing(pid) ==
    /\ owners[pid] = -1
    /\ UNCHANGED <<free, owners, wait_q>>

ReleaseToPool(pid) ==
    /\ owners[pid] # -1 /\ wait_q = <<>>
    /\ owners' = [owners EXCEPT ![pid] = -1]
    /\ free' = Append(free, owners[pid])
    /\ UNCHANGED wait_q

(* Mutant: the slot is handed over and also returned to the pool.          *)
HandOff_AlsoPools(pid) ==
    /\ owners[pid] # -1 /\ wait_q # <<>>
    /\ owners' = [owners EXCEPT ![pid] = -1, ![Head(wait_q)] = owners[pid]]
    /\ wait_q' = Tail(wait_q)
    /\ free' = Append(free, owners[pid])

(* Mutant: the queue is popped at the wrong end.                           *)
HandOff_AdmitsLast(pid) ==
    LET last == wait_q[Len(wait_q)] IN
    /\ owners[pid] # -1 /\ wait_q # <<>>
    /\ owners' = [owners EXCEPT ![pid] = -1, ![last] = owners[pid]]
    /\ wait_q' = SubSeq(wait_q, 1, Len(wait_q) - 1)
    /\ UNCHANGED free

HandOff(pid) ==
    /\ owners[pid] # -1 /\ wait_q # <<>>
    /\ owners' = [owners EXCEPT ![pid] = -1, ![Head(wait_q)] = owners[pid]]
    /\ wait_q' = Tail(wait_q)
    /\ UNCHANGED free

do_release(pid) == ReleaseNothing(pid) \/ ReleaseToPool(pid) \/ HandOff(pid)

release(pid) ==
    /\ do_release(pid)
    /\ mode' = IF mode = "Full" /\ free' # <<>> THEN "HasFreeSlots" ELSE mode

(* A process is inside acquire_disk until it holds a slot, and releases it *)
(* before its next request, so it never asks twice.  release has no such   *)
(* guard: the machine tolerates a pid that holds nothing.                  *)
acquire(pid) ==
    /\ owners[pid] = -1
    /\ pid \notin Elements(wait_q)
    /\ AcquireFree(pid) \/ AcquireFull(pid)

IoNext == \E p \in Pids : acquire(p) \/ release(p)

IoSpec == IoInit /\ [][IoNext]_io_vars

-----------------------------------------------------------------------------

IoTypeOK ==
    /\ mode \in {"HasFreeSlots", "Full"}
    /\ free \in Seq(Slots)
    /\ owners \in [Pids -> Slots \cup {-1}]
    /\ wait_q \in Seq(Pids)

Owned == {owners[p] : p \in {q \in Pids : owners[q] # -1}}

NoDuplicates(q) == \A i, j \in 1 .. Len(q) : q[i] = q[j] => i = j

(* No two requests ever share a DMA buffer: a slot has at most one owner   *)
(* and appears at most once in the pool, never both.                       *)
SlotsDisjoint ==
    /\ \A p, q \in Pids : owners[p] = owners[q] /\ owners[p] # -1 => p = q
    /\ NoDuplicates(free)
    /\ Owned \cap Elements(free) = {}

(* No slot leaks: whatever sequence of acquires and releases happened,     *)
(* each slot is owned or in the pool.                                      *)
SlotsConserved == Owned \cup Elements(free) = Slots

(* "the wait queue is non-empty only in $Full (a free slot is always       *)
(* granted immediately, never queued)", and nobody both holds and waits.   *)
WaitersOnlyWhenFull ==
    /\ mode = "Full" <=> free = <<>>
    /\ wait_q # <<>> => mode = "Full"
    /\ NoDuplicates(wait_q)
    /\ \A p \in Elements(wait_q) : owners[p] = -1

(* What a step that grants a slot to p may do.                             *)
InOrder ==
    \A p \in Pids :
        owners[p] = -1 /\ owners'[p] # -1 => wait_q = <<>> \/ p = Head(wait_q)

(* Slots are granted in the order of the requests: a step that grants to p *)
(* found p at the front of the queue, or found the queue empty.            *)
GrantsInOrder == [][InOrder]_io_vars

(* The pool is exact: each slot is free or has one owner, and a process    *)
(* waits only when none is free.                                           *)
PoolSound == IoTypeOK /\ SlotsDisjoint /\ SlotsConserved /\ WaitersOnlyWhenFull
=============================================================================
