-------------------------------- MODULE Smp --------------------------------
(***************************************************************************)
(* Multi-core bring-up: the bootstrap core (core 0) runs the SMP block of  *)
(* kmain while every application processor runs ap_entry (main.rs), over   *)
(* the spinlock with its rank check (spin.rs), the cross-core post queue   *)
(* (crosscore.rs, reactor.rs), the per-core Scheduler posts (ksched.rs),   *)
(* the nested-lock stress (lockorder.rs) and the TLB shootdown             *)
(* (interrupts.rs).  The per-core run queues are in PcSched.  The waits of *)
(* the bootstrap core are bounded spins, so any of them may end early.     *)
(***************************************************************************)
EXTENDS Integers, Sequences, FiniteSets

CONSTANTS
    APS,            \* application processors
    HAMMER_ITERS, POSTS_PER_CORE, TARGET_TICKS, TASKS_PER_CORE, ITERS,
    QUEUE_CAP,      \* capacity of the post queue
    GiveUps         \* whether a bounded wait of the bootstrap core may run out

ASSUME SmpAssumption ==
    /\ APS \in Nat /\ QUEUE_CAP \in Nat /\ TARGET_TICKS \in Nat
    /\ {HAMMER_ITERS, POSTS_PER_CORE, TASKS_PER_CORE, ITERS} \subseteq Nat \ {0}

Aps == 1 .. APS
Cores == 0 .. APS
Locks == {"counter", "A", "B"}
rank == [counter |-> 0, A |-> 1, B |-> 2]
Nobody == -1

VARIABLES
    core_pc,         \* where each core is
    n,          \* its loop counter
    tmp,        \* the value it read under a lock and has not written yet
    holder, HELD_RANK,
    value,      \* what each lock protects
    queue,      \* ticks in the post queue
    count,      \* the EventCounter
    arrived,    \* AP_ONLINE, AP_HAMMERED, AP_POSTED, AP_PREEMPTED, SCHED_DONE, PC_DONE, DONE
    ticks,      \* LAPIC timer ticks of each core
    mapped, tlb, ipi, acks, freed,  \* the test page and the shootdown
    expected, kqueue, ksched_runnable, peak,   \* ksched
    PC_GO,
    patient     \* no wait has run out so far
smp_vars == <<core_pc, n, tmp, holder, HELD_RANK, value, queue, count, arrived, ticks,
              mapped, tlb, ipi, acks, freed, expected, kqueue, ksched_runnable, peak, PC_GO, patient>>
lock_vars == <<holder, HELD_RANK, value, tmp>>
page_vars == <<mapped, tlb, ipi, acks, freed>>
sched_vars == <<expected, kqueue, ksched_runnable, peak, PC_GO>>

Marks == {"online", "hammered", "posted", "preempted", "scheduled", "sliced", "stressed"}

SmpInit ==
    /\ core_pc = [c \in Cores |-> IF c = 0 THEN "launch" ELSE "parked"]
    /\ n = [c \in Cores |-> 0] /\ tmp = [c \in Cores |-> 0]
    /\ holder = [l \in Locks |-> Nobody] /\ HELD_RANK = [c \in Cores |-> 0]
    /\ value = [l \in Locks |-> 0]
    /\ queue = 0 /\ count = 0 /\ arrived = [m \in Marks |-> 0]
    /\ ticks = [c \in Aps |-> 0]
    /\ mapped = FALSE /\ tlb = {} /\ ipi = {} /\ acks = 0 /\ freed = FALSE
    /\ expected = [c \in Aps |-> 0] /\ kqueue = [c \in Aps |-> <<>>]
    /\ ksched_runnable = [c \in Aps |-> 0] /\ peak = [c \in Aps |-> 0]
    /\ PC_GO = FALSE /\ patient = TRUE

Go(c, where) == core_pc' = [core_pc EXCEPT ![c] = where]
Arrive(m) == arrived' = [arrived EXCEPT ![m] = @ + 1]

-----------------------------------------------------------------------------
(* SpinLock.  Interrupts are off on the core from the call of lock(), so   *)
(* also while it spins, to the drop of the guard.                          *)

\* lock(), and the read of the counter under it.
Acquires(c, l) ==
    /\ rank[l] # 0 => rank[l] > HELD_RANK[c]
    /\ holder[l] = Nobody
    /\ holder' = [holder EXCEPT ![l] = c]
    /\ HELD_RANK' = IF rank[l] = 0 THEN HELD_RANK ELSE [HELD_RANK EXCEPT ![c] = rank[l]]
    /\ tmp' = [tmp EXCEPT ![c] = value[l]]
    /\ UNCHANGED value

\* The write of the incremented counter.
Increments(c, l) ==
    /\ value' = [value EXCEPT ![l] = tmp[c] + 1]
    /\ tmp' = [tmp EXCEPT ![c] = 0] /\ UNCHANGED <<holder, HELD_RANK>>

\* The guard drops and puts the core's rank back.
Releases(c, l, saved) ==
    /\ holder' = [holder EXCEPT ![l] = Nobody]
    /\ HELD_RANK' = IF rank[l] = 0 THEN HELD_RANK ELSE [HELD_RANK EXCEPT ![c] = saved]
    /\ UNCHANGED <<value, tmp>>

LocksHeld(c) == {l \in Locks : holder[l] = c}

-----------------------------------------------------------------------------
(* What every core runs.                                                   *)

\* hammer_counter.
hammer(c) ==
    /\ \/ core_pc[c] = "hammer" /\ Acquires(c, "counter") /\ Go(c, "hammer_inc") /\ UNCHANGED n
       \/ core_pc[c] = "hammer_inc" /\ Increments(c, "counter") /\ Go(c, "hammer_drop") /\ UNCHANGED n
       \/ /\ core_pc[c] = "hammer_drop" /\ Releases(c, "counter", 0)
          /\ n' = [n EXCEPT ![c] = IF @ + 1 < HAMMER_ITERS THEN @ + 1 ELSE 0]
          /\ Go(c, IF n[c] + 1 < HAMMER_ITERS THEN "hammer" ELSE "hammered")
    /\ UNCHANGED <<queue, count, arrived, ticks, page_vars, sched_vars, patient>>

ap_hammered(c) ==
    /\ c # 0 /\ core_pc[c] = "hammered" /\ Arrive("hammered") /\ Go(c, "post")
    /\ UNCHANGED <<n, lock_vars, queue, count, ticks, page_vars, sched_vars, patient>>

\* The mailbox takes a post unless it is full.
push_fits == queue < QUEUE_CAP

\* post_tick, until the queue takes it.
post_tick(c) ==
    /\ core_pc[c] = "post" /\ push_fits
    /\ queue' = queue + 1
    /\ n' = [n EXCEPT ![c] = IF @ + 1 < POSTS_PER_CORE THEN @ + 1 ELSE 0]
    /\ Go(c, IF n[c] + 1 < POSTS_PER_CORE THEN "post" ELSE "posted")
    /\ UNCHANGED <<lock_vars, count, arrived, ticks, page_vars, sched_vars, patient>>

ap_posted(c) ==
    /\ c # 0 /\ core_pc[c] = "posted" /\ Arrive("posted") /\ Go(c, "ticking")
    /\ UNCHANGED <<n, lock_vars, queue, count, ticks, page_vars, sched_vars, patient>>

\* lockorder::stress: A, then B inside it.  lock() masks interrupts and then
\* spins.
stress(c) ==
    /\ \/ core_pc[c] = "stress" /\ Go(c, "lock_A") /\ UNCHANGED <<n, lock_vars>>
       \/ core_pc[c] = "lock_A" /\ Acquires(c, "A") /\ Go(c, "inc_A") /\ UNCHANGED n
       \/ core_pc[c] = "inc_A" /\ Increments(c, "A") /\ Go(c, "lock_B") /\ UNCHANGED n
       \/ core_pc[c] = "lock_B" /\ Acquires(c, "B") /\ Go(c, "inc_B") /\ UNCHANGED n
       \/ core_pc[c] = "inc_B" /\ Increments(c, "B") /\ Go(c, "drop_B") /\ UNCHANGED n
       \/ core_pc[c] = "drop_B" /\ Releases(c, "B", rank["A"]) /\ Go(c, "drop_A") /\ UNCHANGED n
       \/ /\ core_pc[c] = "drop_A" /\ Releases(c, "A", 0)
          /\ n' = [n EXCEPT ![c] = IF @ + 1 < ITERS THEN @ + 1 ELSE 0]
          /\ Go(c, IF n[c] + 1 < ITERS THEN "stress" ELSE "stressed")
    /\ UNCHANGED <<queue, count, arrived, ticks, page_vars, sched_vars, patient>>

stress_done(c) ==
    /\ core_pc[c] = "stressed" /\ Arrive("stressed") /\ Go(c, IF c = 0 THEN "wait_stress" ELSE "idle")
    /\ UNCHANGED <<n, lock_vars, queue, count, ticks, page_vars, sched_vars, patient>>

-----------------------------------------------------------------------------
(* The rest of ap_entry.                                                   *)

ap_entry(c) ==
    /\ core_pc[c] = "entry" /\ Arrive("online") /\ Go(c, "hammer")
    /\ UNCHANGED <<n, lock_vars, queue, count, ticks, page_vars, sched_vars, patient>>

\* From here on the core takes interrupts, except while it spins for a lock or
\* holds one.
Interruptible(c) ==
    core_pc[c] \notin {"parked", "entry", "hammer", "hammer_inc", "hammer_drop", "hammered", "post", "posted",
                     "lock_A"}
    /\ LocksHeld(c) = {}

\* The core's own timer.
record_tick(c) ==
    /\ c # 0 /\ Interruptible(c) /\ ticks[c] < TARGET_TICKS
    /\ ticks' = [ticks EXCEPT ![c] = @ + 1]
    /\ UNCHANGED <<core_pc, n, lock_vars, queue, count, arrived, page_vars, sched_vars, patient>>

ap_preempted(c) ==
    /\ core_pc[c] = "ticking" /\ ticks[c] >= TARGET_TICKS /\ Arrive("preempted") /\ Go(c, "ksched")
    /\ UNCHANGED <<n, lock_vars, queue, count, ticks, page_vars, sched_vars, patient>>

\* ksched::ap_run: one post into the core's own Scheduler, which is $Active
\* with runnable tasks and $Idle without.
ksched_dispatch(c) ==
    /\ core_pc[c] = "ksched" /\ expected[c] > 0 /\ n[c] < expected[c] /\ kqueue[c] # <<>>
    /\ kqueue' = [kqueue EXCEPT ![c] = Tail(@)]
    /\ LET ready == Head(kqueue[c]) = "Ready" IN
       /\ ksched_runnable' = [ksched_runnable EXCEPT ![c] = IF ready THEN @ + 1 ELSE IF @ > 0 THEN @ - 1 ELSE 0]
       /\ peak' = [peak EXCEPT ![c] = IF ready /\ ksched_runnable[c] + 1 > @ THEN ksched_runnable[c] + 1 ELSE @]
    /\ n' = [n EXCEPT ![c] = @ + 1]
    /\ UNCHANGED <<core_pc, lock_vars, queue, count, arrived, ticks, page_vars, expected, PC_GO, patient>>

ksched_done(c) ==
    /\ core_pc[c] = "ksched" /\ expected[c] > 0 /\ n[c] = expected[c]
    /\ n' = [n EXCEPT ![c] = 0] /\ Arrive("scheduled") /\ Go(c, "pcsched")
    /\ UNCHANGED <<lock_vars, queue, count, ticks, page_vars, sched_vars, patient>>

\* pcsched::ap_run, whose inside is PcSched.
pcsched(c) ==
    /\ core_pc[c] = "pcsched" /\ PC_GO /\ Arrive("sliced") /\ Go(c, "stress")
    /\ UNCHANGED <<n, lock_vars, queue, count, ticks, page_vars, sched_vars, patient>>

\* The shootdown IPI: flush the page, acknowledge.
tlb_shootdown_irq(c) ==
    /\ c \in ipi /\ Interruptible(c)
    /\ ipi' = ipi \ {c} /\ tlb' = tlb \ {c} /\ acks' = acks + 1
    /\ UNCHANGED <<core_pc, n, lock_vars, queue, count, arrived, ticks, mapped, freed, sched_vars, patient>>

\* While the page is mapped any core may come to hold its translation.
tlb_fill(c) ==
    /\ mapped /\ c \notin tlb /\ tlb' = tlb \cup {c}
    /\ UNCHANGED <<core_pc, n, lock_vars, queue, count, arrived, ticks, mapped, ipi, acks, freed, sched_vars, patient>>

-----------------------------------------------------------------------------
(* The bootstrap core.                                                     *)

launch ==
    /\ core_pc[0] = "launch"
    /\ core_pc' = [c \in Cores |-> IF c = 0 THEN "wait_online" ELSE "entry"]
    /\ UNCHANGED <<n, lock_vars, queue, count, arrived, ticks, page_vars, sched_vars, patient>>

\* Mutant: the bootstrap core counts itself among the cores it waits for.
Waits_CountsItself(at, m, k, next) ==
    /\ core_pc[0] = at /\ Go(0, next)
    /\ \/ arrived[m] + 1 >= k /\ UNCHANGED patient
       \/ GiveUps /\ arrived[m] + 1 < k /\ patient' = FALSE
    /\ UNCHANGED <<n, lock_vars, queue, count, arrived, ticks, page_vars, sched_vars>>

\* A bounded wait for m to reach k: it does, or the spins run out.
Waits(at, m, k, next) ==
    /\ core_pc[0] = at /\ Go(0, next)
    /\ \/ arrived[m] >= k /\ UNCHANGED patient
       \/ GiveUps /\ arrived[m] < k /\ patient' = FALSE
    /\ UNCHANGED <<n, lock_vars, queue, count, arrived, ticks, page_vars, sched_vars>>

wait_online == Waits("wait_online", "online", APS, "hammer")
wait_hammered == Waits("hammered", "hammered", APS, "post")
wait_preempted == Waits("wait_preempted", "preempted", APS, "map")
wait_scheduled == Waits("wait_scheduled", "scheduled", APS, "release")
wait_sliced == Waits("wait_sliced", "sliced", APS, "stress")
wait_stressed == Waits("wait_stress", "stressed", APS + 1, "done")

\* run_drain_demo: drain, look at AP_POSTED, drain once more.
drain_into ==
    /\ queue > 0
    /\ core_pc[0] \in {"posted", "last_drain"}
    /\ queue' = queue - 1 /\ count' = count + 1
    /\ UNCHANGED <<core_pc, n, lock_vars, arrived, ticks, page_vars, sched_vars, patient>>

\* The queue was empty.
drained_once ==
    /\ core_pc[0] = "posted" /\ queue = 0 /\ Go(0, "look")
    /\ UNCHANGED <<n, lock_vars, queue, count, arrived, ticks, page_vars, sched_vars, patient>>

\* The look at AP_POSTED, which posts may have overtaken.
all_posted ==
    /\ core_pc[0] = "look"
    /\ \/ arrived["posted"] >= APS /\ Go(0, "last_drain") /\ UNCHANGED patient
       \/ arrived["posted"] < APS /\ Go(0, "posted") /\ UNCHANGED patient
       \/ GiveUps /\ arrived["posted"] < APS /\ Go(0, "wait_preempted") /\ patient' = FALSE
    /\ UNCHANGED <<n, lock_vars, queue, count, arrived, ticks, page_vars, sched_vars>>

drained ==
    /\ core_pc[0] = "last_drain" /\ queue = 0 /\ Go(0, "wait_preempted")
    /\ UNCHANGED <<n, lock_vars, queue, count, arrived, ticks, page_vars, sched_vars, patient>>

\* The test page: mapped and written, or no frame for it; ...
map_page ==
    /\ core_pc[0] = "map"
    /\ \/ mapped' = TRUE /\ tlb' = {0} /\ Go(0, "unmap") /\ UNCHANGED n
       \/ Go(0, "stage") /\ n' = [n EXCEPT ![0] = 1] /\ UNCHANGED <<mapped, tlb>>
    /\ UNCHANGED <<lock_vars, queue, count, arrived, ticks, ipi, acks, freed, sched_vars, patient>>

\* ... unmapped with a flush of the core's own entry, and the IPI sent.
shootdown ==
    /\ core_pc[0] = "unmap" /\ mapped' = FALSE /\ tlb' = tlb \ {0}
    /\ acks' = 0 /\ ipi' = Aps /\ Go(0, "wait_acks")
    /\ UNCHANGED <<n, lock_vars, queue, count, arrived, ticks, freed, sched_vars, patient>>

wait_acks ==
    /\ core_pc[0] = "wait_acks" /\ Go(0, "free")
    /\ \/ acks >= APS /\ UNCHANGED patient
       \/ GiveUps /\ acks < APS /\ patient' = FALSE
    /\ UNCHANGED <<n, lock_vars, queue, count, arrived, ticks, page_vars, sched_vars>>

free_page ==
    /\ core_pc[0] = "free" /\ freed' = TRUE /\ n' = [n EXCEPT ![0] = 1] /\ Go(0, "stage")
    /\ UNCHANGED <<lock_vars, queue, count, arrived, ticks, mapped, tlb, ipi, acks, sched_vars, patient>>

\* Core n's posts, and then how many to expect.
Posts == [i \in 1 .. 2 * TASKS_PER_CORE |-> IF i <= TASKS_PER_CORE THEN "Ready" ELSE "Unready"]
stage_posts ==
    /\ core_pc[0] = "stage" /\ n[0] \in Aps
    /\ \/ /\ Len(kqueue[n[0]]) < Len(Posts) /\ expected[n[0]] = 0
          /\ kqueue' = [kqueue EXCEPT ![n[0]] = Append(@, Posts[Len(@) + 1])]
          /\ UNCHANGED <<n, expected, core_pc>>
       \/ /\ Len(kqueue[n[0]]) = Len(Posts)
          /\ expected' = [expected EXCEPT ![n[0]] = Len(Posts)]
          /\ n' = [n EXCEPT ![0] = IF @ = APS THEN 0 ELSE @ + 1]
          /\ Go(0, IF n[0] = APS THEN "wait_scheduled" ELSE "stage") /\ UNCHANGED kqueue
    /\ UNCHANGED <<lock_vars, queue, count, arrived, ticks, page_vars, ksched_runnable, peak, PC_GO, patient>>

pcsched_release ==
    /\ core_pc[0] = "release" /\ PC_GO' = TRUE /\ Go(0, "wait_sliced")
    /\ UNCHANGED <<n, lock_vars, queue, count, arrived, ticks, page_vars, expected, kqueue, ksched_runnable, peak, patient>>

Bsp ==
    \/ launch \/ wait_online \/ wait_hammered \/ drain_into \/ drained_once \/ all_posted \/ drained
    \/ wait_preempted \/ map_page \/ shootdown \/ wait_acks \/ free_page
    \/ stage_posts \/ wait_scheduled \/ pcsched_release \/ wait_sliced \/ wait_stressed

Core(c) == hammer(c) \/ post_tick(c) \/ stress(c) \/ stress_done(c)

Ap(c) ==
    \/ ap_entry(c) \/ ap_hammered(c) \/ ap_posted(c) \/ ap_preempted(c)
    \/ ksched_dispatch(c) \/ ksched_done(c) \/ pcsched(c)

SmpNext ==
    \/ Bsp
    \/ \E c \in Cores : Core(c) \/ tlb_fill(c)
    \/ \E c \in Aps : Ap(c) \/ record_tick(c) \/ tlb_shootdown_irq(c)

SmpSpec == SmpInit /\ [][SmpNext]_smp_vars

-----------------------------------------------------------------------------
(* Properties.                                                             *)

(* Nothing is lost between cores: unless a wait ran out, the counter every *)
(* core increments under the lock, the two under nested locks and the      *)
(* EventCounter fed through the post queue have the exact totals when the  *)
(* bootstrap core looks at them.                                           *)
TotalsExact ==
    patient =>
      /\ core_pc[0] = "post" => value["counter"] = (APS + 1) * HAMMER_ITERS
      /\ core_pc[0] = "wait_preempted" => count = (APS + 1) * POSTS_PER_CORE
      /\ core_pc[0] = "done" => value["A"] = (APS + 1) * ITERS /\ value["B"] = (APS + 1) * ITERS

(* A page is given back only when no core can still translate to it,       *)
(* unless the acknowledgement wait ran out.                                *)
FlushedBeforeFree == freed /\ patient => tlb = {}

(* Each core's Scheduler, driven only by posts from another core, has seen *)
(* every task at once and is idle again when the core reports.             *)
SchedulersDriven ==
    \A c \in Aps :
        core_pc[c] \in {"pcsched", "stress", "idle"} =>
            peak[c] = TASKS_PER_CORE /\ ksched_runnable[c] = 0

SmpSound == TotalsExact /\ FlushedBeforeFree /\ SchedulersDriven

(* The bring-up has ended.  It must when the queue has room for every post *)
(* of every core, as it has for up to five cores: the bootstrap core makes *)
(* all its own posts before it takes the first one out.  Then no core      *)
(* waits for a lock, an acknowledgement or a count that never comes.       *)
BringUpEnded == core_pc[0] = "done"
=============================================================================
