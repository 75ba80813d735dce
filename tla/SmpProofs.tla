----------------------------- MODULE SmpProofs -----------------------------
(***************************************************************************)
(* The multi-core bring-up is sound for every number of cores, iterations, *)
(* posts, tasks and queue places: the steps of the bootstrap core keep the *)
(* invariant that SmpApProofs states, and what it says where that core     *)
(* and the others look at the totals is SmpSound.                          *)
(***************************************************************************)
EXTENDS SmpApProofs

-----------------------------------------------------------------------------
(* The bootstrap core.                                                     *)

(* The core goes ahead without touching a lock or a total.                 *)
Ahead(p0, k0, p, k) ==
    /\ p \in BspPcs /\ p # "launch" /\ InRange(p, k)
    /\ HammeredAt(p, k) = HammeredAt(p0, k0) /\ PostedAt(p, k) = PostedAt(p0, k0)
    /\ StressedAt(p, k, BeforeA) = StressedAt(p0, k0, BeforeA)
    /\ StressedAt(p, k, BeforeB) = StressedAt(p0, k0, BeforeB)
    /\ \A l \in Locks : p \in HoldsAt(l) <=> p0 \in HoldsAt(l)
    /\ \A l \in Locks : p # IncAt(l)

(* Which side of the shootdown it is on.                                   *)
SameSide(p0, p) ==
    \/ p0 \in BeforePage /\ p \in BeforePage \cup {"map"}
    \/ p0 \notin BeforePage \cup Mapping /\ p \notin BeforePage \cup Mapping

LEMMA AheadMoves ==
    /\ Ahead("wait_online", 0, "hammer", 0) /\ SameSide("wait_online", "hammer")
    /\ Ahead("hammered", 0, "post", 0) /\ SameSide("hammered", "post")
    /\ Ahead("posted", 0, "look", 0) /\ SameSide("posted", "look")
    /\ Ahead("look", 0, "last_drain", 0) /\ SameSide("look", "last_drain")
    /\ Ahead("look", 0, "posted", 0) /\ SameSide("look", "posted")
    /\ Ahead("look", 0, "wait_preempted", 0) /\ SameSide("look", "wait_preempted")
    /\ Ahead("last_drain", 0, "wait_preempted", 0) /\ SameSide("last_drain", "wait_preempted")
    /\ Ahead("wait_preempted", 0, "map", 0) /\ SameSide("wait_preempted", "map")
    /\ Ahead("map", 0, "unmap", 0)
    /\ Ahead("map", 0, "stage", 1)
    /\ Ahead("unmap", 0, "wait_acks", 0)
    /\ Ahead("wait_acks", 0, "free", 0)
    /\ Ahead("free", 0, "stage", 1)
    /\ Ahead("wait_scheduled", 0, "release", 0) /\ SameSide("wait_scheduled", "release")
    /\ Ahead("release", 0, "wait_sliced", 0) /\ SameSide("release", "wait_sliced")
    /\ Ahead("wait_sliced", 0, "stress", 0) /\ SameSide("wait_sliced", "stress")
    /\ Ahead("stressed", 0, "wait_stress", 0) /\ SameSide("stressed", "wait_stress")
    /\ Ahead("wait_stress", 0, "done", 0) /\ SameSide("wait_stress", "done")
    /\ \A k0, k \in Nat : Ahead("stage", k0, "stage", k)
    /\ \A k0 \in Nat : Ahead("stage", k0, "wait_scheduled", 0)
    /\ SameSide("stage", "stage") /\ SameSide("stage", "wait_scheduled")
<1> USE SmpAssumption DEF Ahead, SameSide, HammeredAt, PostedAt, StressedAt, BeforeA, BeforeB, HoldsAt, IncAt,
        InRange, PreHammer, Hammer, PrePost, Stress, PostStress, Locks, BspPcs, Drain, Mapping, BeforePage
<1>1. Ahead("wait_online", 0, "hammer", 0) /\ SameSide("wait_online", "hammer")
  OBVIOUS
<1>2. Ahead("hammered", 0, "post", 0) /\ SameSide("hammered", "post")
  OBVIOUS
<1>3. Ahead("posted", 0, "look", 0) /\ SameSide("posted", "look")
  OBVIOUS
<1>4. Ahead("look", 0, "last_drain", 0) /\ SameSide("look", "last_drain")
  OBVIOUS
<1>5. Ahead("look", 0, "posted", 0) /\ SameSide("look", "posted")
  OBVIOUS
<1>6. Ahead("look", 0, "wait_preempted", 0) /\ SameSide("look", "wait_preempted")
  OBVIOUS
<1>7. Ahead("last_drain", 0, "wait_preempted", 0) /\ SameSide("last_drain", "wait_preempted")
  OBVIOUS
<1>8. Ahead("wait_preempted", 0, "map", 0) /\ SameSide("wait_preempted", "map")
  OBVIOUS
<1>9. Ahead("map", 0, "unmap", 0)
  OBVIOUS
<1>10. Ahead("map", 0, "stage", 1)
  OBVIOUS
<1>11. Ahead("unmap", 0, "wait_acks", 0)
  OBVIOUS
<1>12. Ahead("wait_acks", 0, "free", 0)
  OBVIOUS
<1>13. Ahead("free", 0, "stage", 1)
  OBVIOUS
<1>14. Ahead("wait_scheduled", 0, "release", 0) /\ SameSide("wait_scheduled", "release")
  OBVIOUS
<1>15. Ahead("release", 0, "wait_sliced", 0) /\ SameSide("release", "wait_sliced")
  OBVIOUS
<1>16. Ahead("wait_sliced", 0, "stress", 0) /\ SameSide("wait_sliced", "stress")
  OBVIOUS
<1>17. Ahead("stressed", 0, "wait_stress", 0) /\ SameSide("stressed", "wait_stress")
  OBVIOUS
<1>18. Ahead("wait_stress", 0, "done", 0) /\ SameSide("wait_stress", "done")
  OBVIOUS
<1>19. \A k0, k \in Nat : Ahead("stage", k0, "stage", k)
  OBVIOUS
<1>20. \A k0 \in Nat : Ahead("stage", k0, "wait_scheduled", 0)
  OBVIOUS
<1>21. SameSide("stage", "stage") /\ SameSide("stage", "wait_scheduled")
  OBVIOUS
<1> HIDE DEF Ahead, SameSide
<1> QED
  BY <1>1, <1>2, <1>3, <1>4, <1>5, <1>6, <1>7, <1>8, <1>9, <1>10, <1>11, <1>12, <1>13, <1>14, <1>15,
     <1>16, <1>17, <1>18, <1>19, <1>20, <1>21, Zenon

LEMMA AheadKeeps ==
    ASSUME SmpInv, NEW p, NEW k \in Nat, Moves(0, p, k), Ahead(core_pc[0], n[0], p, k), RestOK',
           UNCHANGED <<lock_vars, queue, count>>,
           Arrives(core_pc[0] \in StressedPcs, p \in StressedPcs,
                   arrived["stressed"], arrived'["stressed"]),
           arrived'["hammered"] = arrived["hammered"], arrived'["posted"] = arrived["posted"]
    PROVE  /\ SmpTypeOK' /\ (\A d \in Cores : LoopCounter(d)')
           /\ LockInv' /\ TotalsInv' /\ ArrivalsInv'
<1>1. 0 \in Cores /\ p \in BspPcs /\ p \in BspPcs \cup ApPcs /\ InRange(p, k)
  BY CoresFinite DEF Ahead
<1>2. Quiet(0, p, k) /\ Lockless(0, p)
  BY DEF Ahead, Quiet, Lockless
<1>3. UNCHANGED <<holder, value, tmp>> /\ value' = value /\ queue' + count' = queue + count
  BY DEF lock_vars
<1>4. SmpTypeOK'
  BY <1>1, MoveTypes
<1>5. \A d \in Cores : LoopCounter(d)'
  BY <1>1, MoveLoops
<1>6. LockInv'
  BY <1>1, <1>2, <1>3, LocksSame, SMTT(30)
<1>7. TotalsInv'
  BY <1>1, <1>2, <1>3, QuietTotals, SMTT(30)
<1>8. ArrivalsInv'
  <2>1. /\ Arrives(0 # 0 /\ core_pc[0] \notin PrePost, 0 # 0 /\ p \notin PrePost,
                   arrived["hammered"], arrived'["hammered"])
        /\ Arrives(0 # 0 /\ core_pc[0] \notin PrePost \cup {"post", "posted"},
                   0 # 0 /\ p \notin PrePost \cup {"post", "posted"},
                   arrived["posted"], arrived'["posted"])
    BY DEF Arrives
  <2> QED BY <1>1, <2>1, MoveArrivals, SMTT(30)
<1> QED BY <1>4, <1>5, <1>6, <1>7, <1>8, Zenon

(* What the core has waited for, where it goes on patiently.               *)
LEMMA BspWaited ==
    ASSUME SmpInv, NEW p, NEW k, Moves(0, p, k), p # "launch",
           patient' => /\ p = "post" => \A d \in Aps : core_pc[d] \notin PrePost
                       /\ p \in {"last_drain", "wait_preempted"} =>
                             \A d \in Aps : core_pc[d] \notin PrePost \cup {"post"}
                       /\ p = "wait_preempted" => queue' = 0
                       /\ p = "done" => \A d \in Aps : core_pc[d] = "idle"
    PROVE  WaitsInv'
<1>1. core_pc'[0] = p /\ \A d \in Aps : core_pc'[d] = core_pc[d]
  BY MoveFacts, CoresFinite DEF SmpInv
<1> QED BY <1>1 DEF WaitsInv

(* A step ahead that changes neither the page nor the schedulers.          *)
LEMMA BspPasses ==
    ASSUME SmpInv, NEW p, Moves(0, p, 0), Ahead(core_pc[0], n[0], p, 0), SameSide(core_pc[0], p),
           core_pc[0] \in StressedPcs <=> p \in StressedPcs,
           UNCHANGED <<lock_vars, queue, count, arrived>>, UNCHANGED page_vars,
           UNCHANGED <<expected, kqueue, ksched_runnable, peak>>, patient' => patient, WaitsInv'
    PROVE  SmpInv'
<1>1. RestOK'
  BY DEF SmpInv, SmpTypeOK, RestOK, lock_vars, page_vars
<1>2. UNCHANGED <<mapped, tlb, ipi, acks, freed>> /\ arrived' = arrived
  BY DEF page_vars
<1>3. core_pc'[0] = p
  BY MoveFacts, CoresFinite DEF SmpInv
<1>4. PageInv'
  BY <1>2, <1>3, PageSame, SMTT(30) DEF SameSide
<1>5. SchedInv'
  BY SchedSame, CoresFinite
<1>6. Arrives(core_pc[0] \in StressedPcs, p \in StressedPcs,
              arrived["stressed"], arrived'["stressed"])
  BY <1>2 DEF Arrives
<1>7. /\ SmpTypeOK' /\ (\A d \in Cores : LoopCounter(d)')
      /\ LockInv' /\ TotalsInv' /\ ArrivalsInv'
  BY <1>1, <1>2, <1>6, AheadKeeps, Zenon
<1> QED BY <1>4, <1>5, <1>7, SMTT(30) DEF SmpInv

(* A wait: it passes on, and whoever is still patient saw the count.       *)
LEMMA WaitPasses ==
    ASSUME SmpInv, NEW p0, NEW m, NEW k, NEW p, Waits(p0, m, k, p),
           p0 \notin Hammer \cup Stress \cup {"post", "ksched", "stage"}
    PROVE  /\ core_pc[0] = p0 /\ n[0] = 0 /\ Moves(0, p, 0)
           /\ UNCHANGED <<lock_vars, queue, count, arrived>> /\ UNCHANGED page_vars
           /\ UNCHANGED <<expected, kqueue, ksched_runnable, peak>>
           /\ patient' => patient /\ arrived[m] >= k
<1>1. core_pc[0] = p0 /\ Go(0, p) /\ n' = n
  BY DEF Waits
<1>2. n[0] = 0
  BY <1>1, CoresFinite, SMTT(30) DEF SmpInv, LoopCounter
<1>3. Moves(0, p, 0)
  BY <1>1, <1>2, CoresFinite, SMTT(30) DEF SmpInv, SmpTypeOK, Moves, Go
<1>4. /\ UNCHANGED <<lock_vars, queue, count, arrived>> /\ UNCHANGED page_vars
      /\ UNCHANGED <<expected, kqueue, ksched_runnable, peak>>
  BY DEF Waits, sched_vars
<1>5. patient' => patient /\ arrived[m] >= k
  BY Zenon DEF Waits
<1> QED BY <1>1, <1>2, <1>3, <1>4, <1>5, Zenon

LEMMA PlainWait ==
    ASSUME SmpInv, NEW p0, NEW m, NEW k, NEW p, Waits(p0, m, k, p), Ahead(p0, 0, p, 0), SameSide(p0, p),
           p0 \notin Hammer \cup Stress \cup StressedPcs \cup {"post", "ksched", "stage"},
           p \notin StressedPcs \cup {"launch", "last_drain", "wait_preempted", "done", "post"}
    PROVE  SmpInv'
<1>1. core_pc[0] = p0 /\ n[0] = 0 /\ Moves(0, p, 0) /\ (patient' => patient)
  BY WaitPasses
<1>2. WaitsInv'
  BY <1>1, BspWaits
<1> QED BY <1>1, <1>2, WaitPasses, BspPasses

LEMMA WaitSteps ==
    ASSUME SmpInv, wait_online \/ wait_preempted \/ wait_scheduled \/ wait_sliced
    PROVE  SmpInv'
<1>1. PICK p0, m, p :
         /\ Waits(p0, m, APS, p)
         /\ \/ p0 = "wait_online" /\ p = "hammer"
            \/ p0 = "wait_preempted" /\ p = "map"
            \/ p0 = "wait_scheduled" /\ p = "release"
            \/ p0 = "wait_sliced" /\ p = "stress"
  BY DEF wait_online, wait_preempted, wait_scheduled, wait_sliced
<1>2. Ahead(p0, 0, p, 0) /\ SameSide(p0, p)
  BY <1>1, AheadMoves
<1>3. /\ p0 \notin Hammer \cup Stress \cup StressedPcs \cup {"post", "ksched", "stage"}
      /\ p \notin StressedPcs \cup {"launch", "last_drain", "wait_preempted", "done", "post"}
  BY <1>1, SMTT(30) DEF Hammer, Stress, StressedPcs
<1> QED BY <1>1, <1>2, <1>3, PlainWait, Zenon

(* The wait for the hammering sees every application processor past it.    *)
LEMMA HammeredStep ==
    ASSUME SmpInv, wait_hammered
    PROVE  SmpInv'
<1>1. Waits("hammered", "hammered", APS, "post")
  BY DEF wait_hammered
<1>2. "hammered" \notin Hammer \cup Stress \cup {"post", "ksched", "stage"}
  BY DEF Hammer, Stress
<1>3. /\ core_pc[0] = "hammered" /\ n[0] = 0 /\ Moves(0, "post", 0)
      /\ patient' => patient /\ arrived["hammered"] >= APS
  BY <1>1, <1>2, WaitPasses, SMTT(30)
<1>4. "hammered" \in StressedPcs <=> "post" \in StressedPcs
  BY DEF StressedPcs
<1>5. WaitsInv'
  <2>1. ASSUME patient', NEW d \in Aps PROVE core_pc[d] \notin PrePost
    <3>1. GoneHammered \in SUBSET Aps /\ Cardinality(GoneHammered) >= Cardinality(Aps)
      BY <1>3, <2>1, CoresFinite, Zenon DEF SmpInv, ArrivalsInv, GoneHammered
    <3>2. GoneHammered = Aps
      BY <3>1, AllGone, CoresFinite, Zenon
    <3> QED BY <3>2 DEF GoneHammered
  <2> QED BY <1>3, <2>1, BspWaited, SMTT(30)
<1> QED BY <1>1, <1>2, <1>3, <1>4, <1>5, WaitPasses, AheadMoves, BspPasses, Zenon

(* The last wait sees every core done.                                     *)
LEMMA StressedStep ==
    ASSUME SmpInv, wait_stressed
    PROVE  SmpInv'
<1>1. Waits("wait_stress", "stressed", APS + 1, "done")
  BY DEF wait_stressed
<1>2. "wait_stress" \notin Hammer \cup Stress \cup {"post", "ksched", "stage"}
  BY DEF Hammer, Stress
<1>3. /\ core_pc[0] = "wait_stress" /\ n[0] = 0 /\ Moves(0, "done", 0)
      /\ patient' => patient /\ arrived["stressed"] >= APS + 1
  BY <1>1, <1>2, WaitPasses, SMTT(30)
<1>4. "wait_stress" \in StressedPcs <=> "done" \in StressedPcs
  BY DEF StressedPcs
<1>5. WaitsInv'
  <2>1. ASSUME patient', NEW d \in Aps PROVE core_pc[d] = "idle"
    <3>1. GoneStressed \in SUBSET Cores /\ Cardinality(GoneStressed) >= Cardinality(Cores)
      BY <1>3, <2>1, CoresFinite, Zenon DEF SmpInv, ArrivalsInv, GoneStressed
    <3>2. GoneStressed = Cores
      BY <3>1, AllGone, CoresFinite, SMTT(30)
    <3>3. core_pc[d] \in {"wait_stress", "done", "idle"}
      BY <3>2, CoresFinite, Zenon DEF GoneStressed
    <3>4. core_pc[d] \in ApPcs
      BY DEF SmpInv, SmpTypeOK
    <3> QED BY <3>3, <3>4, Zenon DEF ApPcs, Hammer, Stress
  <2> QED BY <1>3, <2>1, BspWaited, Zenon
<1> QED BY <1>1, <1>2, <1>3, <1>4, <1>5, WaitPasses, AheadMoves, BspPasses, Zenon

(* The core's loop counter is zero where it runs no loop.                  *)
LEMMA BspMoves ==
    ASSUME SmpInv, NEW p, Go(0, p), UNCHANGED n,
           core_pc[0] \notin Hammer \cup Stress \cup {"post", "ksched", "stage"}
    PROVE  n[0] = 0 /\ Moves(0, p, 0)
<1>1. n[0] = 0
  BY CoresFinite, SMTT(30) DEF SmpInv, LoopCounter
<1> QED BY <1>1, CoresFinite, Zenon DEF SmpInv, SmpTypeOK, Moves, Go

(* A drain moves posts from the queue to the count.                        *)
LEMMA DrainStep ==
    ASSUME SmpInv, drain_into
    PROVE  SmpInv'
<1>1. /\ UNCHANGED <<core_pc, n, holder, value, tmp, arrived, patient>>
      /\ UNCHANGED <<mapped, tlb, ipi, acks, freed>>
      /\ UNCHANGED <<expected, kqueue, ksched_runnable, peak>>
      /\ queue > 0 /\ queue' = queue - 1 /\ count' = count + 1
      /\ core_pc[0] # "wait_preempted"
  BY DEF drain_into, lock_vars, page_vars, sched_vars
<1>2. queue \in Nat /\ count \in Nat
  BY DEF SmpInv, SmpTypeOK
<1>3. queue' \in Nat /\ count' \in Nat /\ queue' + count' = queue + count
  BY <1>1, <1>2, SMTT(30)
<1>4. SmpTypeOK'
  BY <1>1, <1>3, SMTT(30) DEF SmpInv, SmpTypeOK
<1>5. PageInv'
  BY <1>1, PageSame, Zenon
<1> QED BY <1>1, <1>3, <1>4, <1>5, StaysPut, Zenon DEF SmpInv

LEMMA DrainedOnceStep ==
    ASSUME SmpInv, drained_once
    PROVE  SmpInv'
<1>1. /\ core_pc[0] = "posted" /\ Go(0, "look") /\ UNCHANGED n
      /\ UNCHANGED <<lock_vars, queue, count, arrived>> /\ UNCHANGED page_vars
      /\ UNCHANGED <<expected, kqueue, ksched_runnable, peak>> /\ patient' = patient
  BY DEF drained_once, sched_vars
<1>2. n[0] = 0 /\ Moves(0, "look", 0)
  BY <1>1, BspMoves, Zenon DEF Hammer, Stress
<1>3. WaitsInv'
  BY <1>1, <1>2, BspWaits, Zenon
<1>4. "posted" \in StressedPcs <=> "look" \in StressedPcs
  BY DEF StressedPcs
<1> QED BY <1>1, <1>2, <1>3, <1>4, AheadMoves, BspPasses, Zenon

(* The look at AP_POSTED: whoever goes on saw every post made.             *)
LEMMA AllPostedStep ==
    ASSUME SmpInv, all_posted
    PROVE  SmpInv'
<1>1. /\ core_pc[0] = "look" /\ UNCHANGED n
      /\ UNCHANGED <<lock_vars, queue, count, arrived>> /\ UNCHANGED page_vars
      /\ UNCHANGED <<expected, kqueue, ksched_runnable, peak>>
  BY DEF all_posted, sched_vars
<1>2. /\ "look" \in StressedPcs <=> "last_drain" \in StressedPcs
      /\ "look" \in StressedPcs <=> "posted" \in StressedPcs
      /\ "look" \in StressedPcs <=> "wait_preempted" \in StressedPcs
  BY DEF StressedPcs
<1>3. CASE arrived["posted"] >= APS /\ Go(0, "last_drain") /\ UNCHANGED patient
  <2>1. n[0] = 0 /\ Moves(0, "last_drain", 0)
    BY <1>1, <1>3, BspMoves, Zenon DEF Hammer, Stress
  <2>2. GonePosted \in SUBSET Aps /\ Cardinality(GonePosted) >= Cardinality(Aps)
    BY <1>3, CoresFinite, SMTT(30) DEF SmpInv, ArrivalsInv, GonePosted
  <2>3. GonePosted = Aps
    BY <2>2, AllGone, CoresFinite, SMTT(30)
  <2>4. \A d \in Aps : core_pc[d] \notin PrePost \cup {"post"}
    BY <2>3 DEF GonePosted
  <2>5. WaitsInv'
    BY <2>1, <2>4, BspWaited, Zenon
  <2> QED BY <1>1, <1>2, <1>3, <2>1, <2>5, AheadMoves, BspPasses, Zenon
<1>4. CASE Go(0, "posted") /\ UNCHANGED patient
  <2>1. n[0] = 0 /\ Moves(0, "posted", 0)
    BY <1>1, <1>4, BspMoves, Zenon DEF Hammer, Stress
  <2>2. WaitsInv'
    BY <1>4, <2>1, BspWaits, Zenon
  <2> QED BY <1>1, <1>2, <1>4, <2>1, <2>2, AheadMoves, BspPasses, Zenon
<1>5. CASE Go(0, "wait_preempted") /\ patient' = FALSE
  <2>1. n[0] = 0 /\ Moves(0, "wait_preempted", 0)
    BY <1>1, <1>5, BspMoves, Zenon DEF Hammer, Stress
  <2>2. WaitsInv'
    BY <1>5, <2>1, BspWaited, Zenon
  <2> QED BY <1>1, <1>2, <1>5, <2>1, <2>2, AheadMoves, BspPasses, Zenon
<1> QED BY <1>3, <1>4, <1>5, ZenonT(60) DEF all_posted

(* The last drain ends on an empty queue nobody posts to any more.         *)
LEMMA DrainedStep ==
    ASSUME SmpInv, drained
    PROVE  SmpInv'
<1>1. /\ core_pc[0] = "last_drain" /\ queue = 0 /\ Go(0, "wait_preempted") /\ UNCHANGED n
      /\ UNCHANGED <<lock_vars, queue, count, arrived>> /\ UNCHANGED page_vars
      /\ UNCHANGED <<expected, kqueue, ksched_runnable, peak>> /\ patient' = patient
  BY DEF drained, sched_vars
<1>2. n[0] = 0 /\ Moves(0, "wait_preempted", 0)
  BY <1>1, BspMoves, Zenon DEF Hammer, Stress
<1>3. patient => \A d \in Aps : core_pc[d] \notin PrePost \cup {"post"}
  BY <1>1 DEF SmpInv, WaitsInv
<1>4. WaitsInv'
  BY <1>1, <1>2, <1>3, BspWaited, Zenon
<1>5. "last_drain" \in StressedPcs <=> "wait_preempted" \in StressedPcs
  BY SMTT(30) DEF StressedPcs
<1> QED BY <1>1, <1>2, <1>4, <1>5, AheadMoves, BspPasses, Zenon

LEMMA ReleaseStep ==
    ASSUME SmpInv, pcsched_release
    PROVE  SmpInv'
<1>1. /\ core_pc[0] = "release" /\ Go(0, "wait_sliced") /\ UNCHANGED n
      /\ UNCHANGED <<lock_vars, queue, count, arrived>> /\ UNCHANGED page_vars
      /\ UNCHANGED <<expected, kqueue, ksched_runnable, peak>> /\ patient' = patient
  BY DEF pcsched_release
<1>2. n[0] = 0 /\ Moves(0, "wait_sliced", 0)
  BY <1>1, BspMoves, SMTT(30) DEF Hammer, Stress
<1>3. WaitsInv'
  BY <1>1, <1>2, BspWaits, SMTT(30)
<1>4. "release" \in StressedPcs <=> "wait_sliced" \in StressedPcs
  BY DEF StressedPcs
<1> QED BY <1>1, <1>2, <1>3, <1>4, AheadMoves, BspPasses, Zenon

(* The core's own part in the stress is counted with the others'.          *)
LEMMA BspStressed ==
    ASSUME SmpInv, stress_done(0)
    PROVE  SmpInv'
<1>1. /\ core_pc[0] = "stressed" /\ Go(0, "wait_stress") /\ UNCHANGED n
      /\ UNCHANGED <<lock_vars, queue, count>> /\ UNCHANGED <<mapped, tlb, ipi, acks, freed>>
      /\ UNCHANGED <<expected, kqueue, ksched_runnable, peak>> /\ patient' = patient
      /\ Arrive("stressed")
  BY DEF stress_done, page_vars, sched_vars
<1>2. n[0] = 0 /\ Moves(0, "wait_stress", 0)
  BY <1>1, BspMoves, Zenon DEF Hammer, Stress
<1>3. /\ arrived' \in [Marks -> Nat] /\ arrived'["stressed"] = arrived["stressed"] + 1
      /\ arrived'["hammered"] = arrived["hammered"] /\ arrived'["posted"] = arrived["posted"]
  <2>1. arrived \in [Marks -> Nat] /\ arrived' = [arrived EXCEPT !["stressed"] = @ + 1]
    BY <1>1, Zenon DEF SmpInv, SmpTypeOK, Arrive
  <2> QED BY <2>1 DEF Marks
<1>4. RestOK'
  BY <1>1, <1>3, Zenon DEF SmpInv, SmpTypeOK, RestOK, lock_vars
<1>5. Arrives("stressed" \in StressedPcs, "wait_stress" \in StressedPcs,
              arrived["stressed"], arrived'["stressed"])
  BY <1>3, Zenon DEF Arrives, StressedPcs
<1>6. /\ SmpTypeOK' /\ (\A d \in Cores : LoopCounter(d)')
      /\ LockInv' /\ TotalsInv' /\ ArrivalsInv'
  BY <1>1, <1>2, <1>3, <1>4, <1>5, AheadMoves, AheadKeeps, Zenon
<1>7. WaitsInv'
  BY <1>1, <1>2, BspWaits, Zenon
<1>8. core_pc'[0] = "wait_stress"
  BY <1>2, MoveFacts, CoresFinite, SMTT(30) DEF SmpInv
<1>9. PageInv'
  <2>1. SameSide("stressed", "wait_stress")
    BY AheadMoves
  <2> QED BY <1>1, <1>8, <2>1, PageSame, Zenon DEF SameSide
<1>10. SchedInv'
  BY <1>1, <1>2, SchedSame, CoresFinite, Zenon
<1> QED BY <1>6, <1>7, <1>9, <1>10, Zenon DEF SmpInv

(* The steps of the core that change the page: everything but PageInv.     *)
LEMMA PageMoves ==
    ASSUME SmpInv, NEW p, NEW k \in Nat, Moves(0, p, k), Ahead(core_pc[0], n[0], p, k),
           p \in Mapping \cup {"stage"}, core_pc[0] \in Mapping,
           UNCHANGED <<lock_vars, queue, count, arrived>>,
           UNCHANGED <<expected, kqueue, ksched_runnable, peak>>, patient' => patient,
           tlb' \subseteq Cores, ipi' \subseteq Aps, acks' \in Nat, PageInv'
    PROVE  SmpInv'
<1>1. RestOK' /\ arrived' = arrived
  BY DEF SmpInv, SmpTypeOK, RestOK, lock_vars
<1>2. Arrives(core_pc[0] \in StressedPcs, p \in StressedPcs,
              arrived["stressed"], arrived'["stressed"])
  BY <1>1, SMTT(30) DEF Arrives, StressedPcs, Mapping
<1>3. /\ SmpTypeOK' /\ (\A d \in Cores : LoopCounter(d)')
      /\ LockInv' /\ TotalsInv' /\ ArrivalsInv'
  BY <1>1, <1>2, AheadKeeps, SMTT(30)
<1>4. WaitsInv'
  <2>1. p \notin {"launch", "last_drain", "wait_preempted", "done", "post"}
    BY DEF Mapping
  <2> QED BY <2>1, BspWaits
<1>5. SchedInv'
  BY SchedSame, CoresFinite
<1> QED BY <1>3, <1>4, <1>5, Zenon DEF SmpInv

LEMMA MapStep ==
    ASSUME SmpInv, map_page
    PROVE  SmpInv'
<1>1. /\ core_pc[0] = "map" /\ UNCHANGED <<lock_vars, queue, count, arrived>>
      /\ UNCHANGED <<expected, kqueue, ksched_runnable, peak>> /\ patient' = patient
      /\ UNCHANGED <<ipi, acks, freed>>
  BY DEF map_page, sched_vars
<1>2. /\ ~mapped /\ tlb \subseteq ipi /\ ipi = {} /\ ~freed
      /\ tlb \subseteq Cores /\ ipi \subseteq Aps /\ acks \in Nat
  BY <1>1 DEF SmpInv, SmpTypeOK, PageInv, Mapping
<1>3. "map" \in Mapping /\ "unmap" \in Mapping
  BY Zenon DEF Mapping
<1>4. n[0] = 0
  BY <1>1, CoresFinite, Zenon DEF SmpInv, LoopCounter, Hammer, Stress
<1>5. CASE mapped' = TRUE /\ tlb' = {0} /\ Go(0, "unmap") /\ UNCHANGED n
  <2>1. Moves(0, "unmap", 0)
    BY <1>1, <1>5, BspMoves, Zenon DEF Hammer, Stress
  <2>2. core_pc'[0] = "unmap"
    BY <2>1, MoveFacts, CoresFinite, Zenon DEF SmpInv
  <2>3. PageInv'
    BY <1>1, <1>2, <1>5, <2>2, Zenon DEF PageInv
  <2> QED BY <1>1, <1>2, <1>3, <1>4, <1>5, <2>1, <2>3, AheadMoves, PageMoves, CoresFinite, Zenon
<1>6. CASE Go(0, "stage") /\ n' = [n EXCEPT ![0] = 1] /\ UNCHANGED <<mapped, tlb>>
  <2>1. Moves(0, "stage", 1)
    BY <1>6 DEF Moves, Go
  <2>2. core_pc'[0] = "stage"
    BY <2>1, MoveFacts, CoresFinite, ZenonT(60) DEF SmpInv
  <2>3. PageInv'
    BY <1>1, <1>2, <1>6, <2>2, Zenon DEF PageInv
  <2> QED BY <1>1, <1>2, <1>3, <1>4, <1>6, <2>1, <2>3, AheadMoves, PageMoves, Zenon
<1> QED BY <1>5, <1>6, ZenonT(60) DEF map_page

(* The shootdown: every application processor owes a flush.                *)
LEMMA ShootdownStep ==
    ASSUME SmpInv, shootdown
    PROVE  SmpInv'
<1>1. /\ core_pc[0] = "unmap" /\ UNCHANGED <<lock_vars, queue, count, arrived>>
      /\ UNCHANGED <<expected, kqueue, ksched_runnable, peak>> /\ patient' = patient
      /\ mapped' = FALSE /\ tlb' = tlb \ {0} /\ acks' = 0 /\ ipi' = Aps
      /\ freed' = freed /\ Go(0, "wait_acks") /\ UNCHANGED n
  BY SMTT(30) DEF shootdown, sched_vars
<1>2. ~freed /\ tlb \subseteq Cores
  BY <1>1, SMTT(30) DEF SmpInv, SmpTypeOK, PageInv, Mapping
<1>3. n[0] = 0 /\ Moves(0, "wait_acks", 0)
  BY <1>1, BspMoves, Zenon DEF Hammer, Stress
<1>4. core_pc'[0] = "wait_acks"
  BY <1>3, MoveFacts, CoresFinite, Zenon DEF SmpInv
<1>5. Cardinality(Aps \ Aps) = 0 /\ tlb' \subseteq Aps
  <2>1. Aps \ Aps = {}
    OBVIOUS
  <2> QED BY <1>1, <1>2, <2>1, FS_EmptySet, CoresFinite, Zenon
<1>6. "wait_acks" \notin BeforePage
  BY DEF BeforePage, Mapping
<1>7. PageInv'
  BY <1>1, <1>2, <1>4, <1>5, <1>6, Zenon DEF PageInv
<1>8. "wait_acks" \in Mapping /\ "unmap" \in Mapping /\ tlb' \subseteq Cores
  BY <1>5, CoresFinite, Zenon DEF Mapping
<1> QED BY <1>1, <1>3, <1>7, <1>8, AheadMoves, PageMoves, Zenon

(* As many acknowledgements as cores: all of them have flushed.            *)
LEMMA AcksStep ==
    ASSUME SmpInv, wait_acks
    PROVE  SmpInv'
<1>1. /\ core_pc[0] = "wait_acks" /\ UNCHANGED <<lock_vars, queue, count, arrived>>
      /\ UNCHANGED <<expected, kqueue, ksched_runnable, peak>>
      /\ UNCHANGED <<mapped, tlb, ipi, acks, freed>> /\ Go(0, "free") /\ UNCHANGED n
      /\ patient' => patient /\ acks >= APS
  BY SMTT(30) DEF wait_acks, sched_vars, page_vars
<1>2. /\ ~freed /\ ~mapped /\ tlb \subseteq ipi /\ acks = Cardinality(Aps \ ipi)
      /\ tlb \subseteq Cores /\ ipi \subseteq Aps /\ acks \in Nat
  BY <1>1 DEF SmpInv, SmpTypeOK, PageInv, Mapping
<1>3. n[0] = 0 /\ Moves(0, "free", 0)
  BY <1>1, BspMoves, Zenon DEF Hammer, Stress
<1>4. core_pc'[0] = "free"
  BY <1>3, MoveFacts, CoresFinite, SMTT(30) DEF SmpInv
<1>5. ASSUME patient' PROVE ipi = {}
  <2>1. Aps \ ipi \in SUBSET Aps /\ Cardinality(Aps \ ipi) >= Cardinality(Aps)
    BY <1>1, <1>2, <1>5, CoresFinite, Zenon
  <2>2. Aps \ ipi = Aps
    BY <2>1, AllGone, CoresFinite
  <2> QED BY <1>2, <2>2, SMTT(30)
<1>6. "free" \notin BeforePage
  BY DEF BeforePage, Mapping
<1>7. PageInv'
  BY <1>1, <1>2, <1>4, <1>5, <1>6, Zenon DEF PageInv
<1>8. "wait_acks" \in Mapping /\ "free" \in Mapping
  BY Zenon DEF Mapping
<1> QED BY <1>1, <1>2, <1>3, <1>7, <1>8, AheadMoves, PageMoves, Zenon

LEMMA FreeStep ==
    ASSUME SmpInv, free_page
    PROVE  SmpInv'
<1>1. /\ core_pc[0] = "free" /\ UNCHANGED <<lock_vars, queue, count, arrived>>
      /\ UNCHANGED <<expected, kqueue, ksched_runnable, peak>> /\ patient' = patient
      /\ UNCHANGED <<mapped, tlb, ipi, acks>> /\ freed' = TRUE /\ Moves(0, "stage", 1)
  BY Zenon DEF free_page, sched_vars, Moves, Go
<1>2. /\ ~mapped /\ tlb \subseteq ipi /\ (patient => ipi = {})
      /\ tlb \subseteq Cores /\ ipi \subseteq Aps /\ acks \in Nat
  BY <1>1, Zenon DEF SmpInv, SmpTypeOK, PageInv, Mapping
<1>3. n[0] = 0
  BY <1>1, CoresFinite, Zenon DEF SmpInv, LoopCounter, Hammer, Stress
<1>4. core_pc'[0] = "stage"
  BY <1>1, MoveFacts, CoresFinite, ZenonT(60) DEF SmpInv
<1>5. "stage" \notin BeforePage \cup Mapping /\ "free" \in Mapping
  BY DEF BeforePage, Mapping
<1>6. PageInv'
  BY <1>1, <1>2, <1>4, <1>5, Zenon DEF PageInv
<1> QED BY <1>1, <1>2, <1>3, <1>5, <1>6, AheadMoves, PageMoves, Zenon

(* A post is staged at the end of the core's queue; the count comes last.  *)
LEMMA StageStep ==
    ASSUME SmpInv, stage_posts
    PROVE  SmpInv'
<1>1. /\ core_pc \in [Cores -> BspPcs \cup ApPcs] /\ n \in [Cores -> Nat] /\ RestOK
      /\ kqueue \in [Aps -> Seq({"Ready", "Unready"})] /\ expected \in [Aps -> Nat]
      /\ 0 \in Cores /\ APS \in Nat
  BY CoresFinite, Zenon DEF SmpInv, SmpTypeOK, RestOK
<1>2. /\ core_pc[0] = "stage" /\ n[0] \in Aps /\ patient' = patient
      /\ UNCHANGED <<lock_vars, queue, count>> /\ arrived' = arrived
      /\ UNCHANGED <<mapped, tlb, ipi, acks, freed>> /\ UNCHANGED <<ksched_runnable, peak>>
  BY DEF stage_posts, page_vars
<1>3. PICK c \in Aps, q \in Seq({"Ready", "Unready"}) : c = n[0] /\ q = kqueue[c]
  BY <1>1, <1>2, SMTT(30)
<1>4. PICK T \in Nat \ {0} : T = TASKS_PER_CORE
  BY SmpAssumption
<1>5. /\ Len(Posts) = 2 * T /\ 2 * T \in Nat \ {0}
      /\ \A i \in 1 .. 2 * T : Posts[i] \in {"Ready", "Unready"}
  BY <1>4, SMTT(30) DEF Posts
<1>6. PICK p \in {"stage", "wait_scheduled"}, k \in Nat :
         Moves(0, p, k) /\ (p = "wait_scheduled" => k = 0)
  <2>1. CASE UNCHANGED <<n, core_pc>>
    <3>1. Moves(0, "stage", n[0])
      BY <1>1, <1>2, <2>1, Zenon DEF Moves
    <3> QED BY <1>1, <3>1, SMTT(30)
  <2>2. CASE /\ n' = [n EXCEPT ![0] = IF n[0] = APS THEN 0 ELSE n[0] + 1]
             /\ Go(0, IF n[0] = APS THEN "wait_scheduled" ELSE "stage")
    <3>1. CASE n[0] = APS
      <4>1. Moves(0, "wait_scheduled", 0)
        BY <2>2, <3>1, SMTT(30) DEF Moves, Go
      <4> QED BY <4>1
    <3>2. CASE n[0] # APS
      <4>1. Moves(0, "stage", n[0] + 1)
        BY <2>2, <3>2, Zenon DEF Moves, Go
      <4> QED BY <1>1, <4>1, SMTT(30)
    <3> QED BY <3>1, <3>2, Zenon
  <2> QED BY <1>1, <2>1, <2>2, Zenon DEF stage_posts
<1>7. Ahead(core_pc[0], n[0], p, k) /\ SameSide(core_pc[0], p)
  <2>1. n[0] \in Nat
    BY <1>1, Zenon
  <2> QED BY <1>2, <1>6, <2>1, AheadMoves, Zenon
<1>8. \/ /\ Len(q) < 2 * T /\ expected[c] = 0 /\ expected' = expected
         /\ kqueue' = [kqueue EXCEPT ![c] = Append(q, Posts[Len(q) + 1])]
      \/ /\ Len(q) = 2 * T /\ kqueue' = kqueue
         /\ expected' = [expected EXCEPT ![c] = 2 * T]
  BY <1>1, <1>3, <1>5, Zenon DEF stage_posts
<1>9. RestOK'
  <2>1. expected' \in [Aps -> Nat]
    BY <1>1, <1>5, <1>8, ZenonT(60)
  <2>2. kqueue' \in [Aps -> Seq({"Ready", "Unready"})]
    <3>1. CASE Len(q) < 2 * T /\ kqueue' = [kqueue EXCEPT ![c] = Append(q, Posts[Len(q) + 1])]
      <4>1. Posts[Len(q) + 1] \in {"Ready", "Unready"}
        BY <1>4, <1>5, <3>1, SMTT(30)
      <4>2. Append(q, Posts[Len(q) + 1]) \in Seq({"Ready", "Unready"})
        BY <4>1
      <4> QED BY <1>1, <3>1, <4>2, Zenon
    <3> QED BY <1>1, <1>8, <3>1, Zenon
  <2> QED BY <1>1, <1>2, <2>1, <2>2, Zenon DEF RestOK, lock_vars
<1>10. Arrives(core_pc[0] \in StressedPcs, p \in StressedPcs,
               arrived["stressed"], arrived'["stressed"])
  BY <1>2, <1>6, Zenon DEF Arrives, StressedPcs
<1>11. /\ SmpTypeOK' /\ (\A d \in Cores : LoopCounter(d)')
       /\ LockInv' /\ TotalsInv' /\ ArrivalsInv'
  BY <1>2, <1>6, <1>7, <1>9, <1>10, AheadKeeps, Zenon
<1>12. WaitsInv'
  BY <1>2, <1>6, BspWaits, Zenon
<1>13. core_pc'[0] = p /\ \A e \in Aps : core_pc'[e] = core_pc[e] /\ n'[e] = n[e]
  BY <1>6, MoveFacts, CoresFinite, ZenonT(60) DEF SmpInv
<1>14. PageInv'
  BY <1>2, <1>7, <1>13, PageSame, Zenon DEF SameSide
<1>15. SchedInv'
  <2>1. ASSUME NEW e \in Aps PROVE Driven(e, DispatchedAt(core_pc[e], n[e]))
    BY SMTT(30) DEF SmpInv, SchedInv
  <2>2. ASSUME NEW e \in Aps, e # c PROVE Driven(e, DispatchedAt(core_pc[e], n[e]))'
    <3>1. kqueue'[e] = kqueue[e] /\ expected'[e] = expected[e]
      BY <1>1, <1>8, <2>2, Zenon
    <3>2. ASSUME NEW d, Driven(e, d) PROVE Driven(e, d)'
      BY <1>2, <3>1, <3>2, Zenon DEF Driven
    <3>3. DispatchedAt(core_pc'[e], n'[e]) = DispatchedAt(core_pc[e], n[e])
      BY <1>13, Zenon
    <3> QED BY <2>1, <3>2, <3>3, SMTT(30)
  <2>3. Driven(c, DispatchedAt(core_pc[c], n[c]))'
    <3>1. PICK d : d = DispatchedAt(core_pc[c], n[c])
      OBVIOUS
    <3>2. d = DispatchedAt(core_pc'[c], n'[c])
      BY <1>13, <3>1, Zenon
    <3>3. /\ expected[c] \in {0, 2 * T} /\ (expected[c] = 0 => d = 0 /\ Len(q) <= 2 * T)
          /\ expected[c] # 0 => d + Len(q) = 2 * T
          /\ \A i \in 1 .. Len(q) : q[i] = Posts[d + i]
          /\ ksched_runnable'[c] = IF d <= T THEN d ELSE 2 * T - d
          /\ peak'[c] = IF d <= T THEN d ELSE T
      <4>1. Driven(c, d)
        BY <2>1, <3>1, Zenon
      <4> QED BY <1>2, <1>3, <1>4, <4>1, Zenon DEF Driven
    <3>4. CASE /\ Len(q) < 2 * T /\ expected[c] = 0 /\ expected' = expected
               /\ kqueue' = [kqueue EXCEPT ![c] = Append(q, Posts[Len(q) + 1])]
      <4>1. PICK x : x = Posts[Len(q) + 1]
        OBVIOUS
      <4>2. PICK l \in Nat : l = Len(q)
        OBVIOUS
      <4>3. /\ kqueue'[c] = Append(q, x) /\ expected'[c] = 0
        BY <1>1, <3>4, <4>1, Zenon
      <4>4. /\ Len(Append(q, x)) = l + 1 /\ Append(q, x)[l + 1] = x
            /\ \A i \in 1 .. l : Append(q, x)[i] = q[i]
        BY <4>2, SMTT(30)
      <4>5. ASSUME NEW i \in 1 .. l + 1 PROVE Append(q, x)[i] = Posts[0 + i]
        <5>1. CASE i = l + 1
          <6>1. 0 + i = l + 1
            BY <5>1
          <6> QED BY <4>1, <4>2, <4>4, <5>1, <6>1, Zenon
        <5>2. CASE i \in 1 .. l
          BY <3>3, <3>4, <4>2, <4>4, <5>2, Zenon
        <5>3. i = l + 1 \/ i \in 1 .. l
          BY <4>5, SMTT(30)
        <5> QED BY <5>1, <5>2, <5>3, ZenonT(60)
      <4>6. l + 1 <= 2 * T
        BY <1>4, <3>4, <4>2, SMTT(30)
      <4>7. PICK s : s = Append(q, x)
        BY ZenonT(60)
      <4>8. /\ kqueue'[c] = s /\ Len(s) = l + 1 /\ d = 0
            /\ \A i \in 1 .. l + 1 : s[i] = Posts[d + i]
        BY <3>3, <3>4, <4>3, <4>4, <4>5, <4>7, Zenon
      <4>9. Driven(c, d)'
        BY <1>4, <3>3, <4>3, <4>6, <4>8, Zenon DEF Driven
      <4> QED BY <3>2, <4>9, SMTT(30)
    <3>5. CASE /\ Len(q) = 2 * T /\ kqueue' = kqueue
               /\ expected' = [expected EXCEPT ![c] = 2 * T]
      <4>1. kqueue'[c] = q /\ expected'[c] = 2 * T
        BY <1>1, <1>3, <3>5, Zenon
      <4>2. d + Len(q) = 2 * T
        <5>1. 0 + 2 * T = 2 * T
          BY <1>4
        <5> QED BY <3>3, <3>5, <5>1, Zenon
      <4>3. Driven(c, d)'
        BY <1>4, <1>5, <3>3, <4>1, <4>2, Zenon DEF Driven
      <4> QED BY <3>2, <4>3, Zenon
    <3> QED BY <1>8, <3>4, <3>5, Zenon
  <2> QED BY <2>2, <2>3, Zenon DEF SchedInv
<1> QED BY <1>11, <1>12, <1>14, <1>15, Zenon DEF SmpInv

(* The launch lets every parked core in.                                   *)
LEMMA LaunchStep ==
    ASSUME SmpInv, launch
    PROVE  SmpInv'
<1>1. /\ core_pc[0] = "launch" /\ n' = n
      /\ core_pc' = [c \in Cores |-> IF c = 0 THEN "wait_online" ELSE "entry"]
      /\ UNCHANGED <<holder, value, tmp, queue, count, arrived, patient>>
      /\ UNCHANGED <<mapped, tlb, ipi, acks, freed>>
      /\ UNCHANGED <<expected, kqueue, ksched_runnable, peak>>
  BY SMTT(30) DEF launch, lock_vars, page_vars, sched_vars
<1>2. /\ \A c \in Aps : core_pc[c] = "parked" /\ core_pc'[c] = "entry"
      /\ core_pc'[0] = "wait_online"
  BY <1>1, CoresFinite, Zenon DEF SmpInv, WaitsInv
<1>3. /\ \A c \in Cores : core_pc[c] \in {"launch", "parked"} /\ core_pc'[c] \in {"wait_online", "entry"}
      /\ Cores = Aps \cup {0} /\ Aps \subseteq Cores
  BY <1>1, <1>2, CoresFinite, Zenon
<1>4. SmpTypeOK'
  <2>1. "wait_online" \in BspPcs /\ "entry" \in ApPcs
    BY Zenon DEF BspPcs, ApPcs
  <2> QED BY <1>1, <1>2, <1>3, <2>1, Zenon DEF SmpInv, SmpTypeOK
<1>5. \A c \in Cores : LoopCounter(c)'
  BY <1>1, <1>3, Zenon DEF SmpInv, LoopCounter, Hammer, Stress
<1>6. LockInv'
  <2>1. ASSUME NEW c \in Cores, NEW l \in Locks
        PROVE  core_pc[c] \notin HoldsAt(l) /\ core_pc'[c] \notin HoldsAt(l) /\ core_pc'[c] # IncAt(l)
    BY <1>3, Zenon DEF Locks, HoldsAt, IncAt, Stress
  <2> QED BY <1>1, <2>1, Zenon DEF SmpInv, LockInv
<1>7. TotalsInv'
  <2>1. Hammered' = Hammered /\ Posted' = Posted
    BY <1>3, Zenon DEF Hammered, Posted, HammeredAt, PostedAt, PrePost, PreHammer
  <2>2. StressedA' = StressedA /\ StressedB' = StressedB
    BY <1>3 DEF StressedA, StressedB, StressedAt, BeforeA, BeforeB, Stress, PostStress
  <2> QED BY <1>1, <2>1, <2>2, Zenon DEF SmpInv, TotalsInv
<1>8. ArrivalsInv'
  <2>1. GoneHammered' = GoneHammered /\ GonePosted' = GonePosted
    BY <1>2, Zenon DEF GoneHammered, GonePosted, PrePost, PreHammer
  <2>2. GoneStressed' = GoneStressed
    BY <1>3 DEF GoneStressed
  <2> QED BY <1>1, <2>1, <2>2, Zenon DEF SmpInv, ArrivalsInv
<1>9. WaitsInv'
  BY <1>2, Zenon DEF WaitsInv
<1>10. PageInv'
  BY <1>1, <1>2, PageSame, Zenon DEF BeforePage, BspPcs, Hammer, Drain, Stress, Mapping, PostStress
<1>11. SchedInv'
  <2>1. \A c \in Aps : DispatchedAt(core_pc'[c], n'[c]) = DispatchedAt(core_pc[c], n[c])
    BY <1>2, Zenon DEF DispatchedAt, Stress, PostStress
  <2>2. ASSUME NEW c \in Aps, NEW d, Driven(c, d) PROVE Driven(c, d)'
    BY <1>1, <2>2 DEF Driven
  <2> QED BY <2>1, <2>2 DEF SmpInv, SchedInv
<1> QED BY <1>4, <1>5, <1>6, <1>7, <1>8, <1>9, <1>10, <1>11, Zenon DEF SmpInv

-----------------------------------------------------------------------------
(* The theorems.                                                           *)

LEMMA SmpInitInv == SmpInit => SmpInv
<1> SUFFICES ASSUME SmpInit PROVE SmpInv
  OBVIOUS
<1>1. /\ core_pc = [c \in Cores |-> IF c = 0 THEN "launch" ELSE "parked"]
      /\ n = [c \in Cores |-> 0] /\ tmp = [c \in Cores |-> 0]
      /\ holder = [l \in Locks |-> Nobody] /\ value = [l \in Locks |-> 0]
      /\ queue = 0 /\ count = 0 /\ arrived = [m \in Marks |-> 0]
      /\ mapped = FALSE /\ tlb = {} /\ ipi = {} /\ acks = 0 /\ freed = FALSE
      /\ expected = [c \in Aps |-> 0] /\ kqueue = [c \in Aps |-> <<>>]
      /\ ksched_runnable = [c \in Aps |-> 0] /\ peak = [c \in Aps |-> 0]
  BY DEF SmpInit
<1>2. /\ \A c \in Cores : core_pc[c] \in {"launch", "parked"} /\ n[c] = 0
      /\ core_pc[0] = "launch" /\ \A c \in Aps : core_pc[c] = "parked" /\ n[c] = 0
  BY <1>1, CoresFinite, Zenon
<1>3. SmpTypeOK
  <2>1. "launch" \in BspPcs /\ "parked" \in ApPcs
    BY DEF BspPcs, ApPcs
  <2>2. kqueue \in [Aps -> Seq({"Ready", "Unready"})]
    BY <1>1
  <2> QED BY <1>1, <1>2, <2>1, <2>2, CoresFinite, Zenon DEF SmpTypeOK
<1>4. \A c \in Cores : LoopCounter(c)
  BY <1>2 DEF LoopCounter, Hammer, Stress
<1>5. LockInv
  <2>1. ASSUME NEW c \in Cores, NEW l \in Locks
        PROVE  core_pc[c] \notin HoldsAt(l) /\ core_pc[c] # IncAt(l) /\ holder[l] # c
    <3>1. c # Nobody
      BY NobodyIsNoCore, Zenon
    <3> QED BY <1>1, <1>2, <3>1, Zenon DEF Locks, HoldsAt, IncAt, Stress
  <2> QED BY <2>1, Zenon DEF LockInv
<1>6. TotalsInv
  <2>1. \A c \in Cores : Hammered[c] = 0 /\ Posted[c] = 0
    BY <1>2, Zenon DEF Hammered, Posted, HammeredAt, PostedAt, PrePost, PreHammer
  <2>2. \A c \in Cores : StressedA[c] = 0 /\ StressedB[c] = 0
    BY <1>2 DEF StressedA, StressedB, StressedAt, BeforeA, BeforeB, Stress, PostStress
  <2>3. HAMMER_ITERS \in Nat /\ POSTS_PER_CORE \in Nat /\ ITERS \in Nat
    BY SmpAssumption
  <2>4. /\ Tally(Hammered, HAMMER_ITERS) = 0 /\ Tally(Posted, POSTS_PER_CORE) = 0
        /\ Tally(StressedA, ITERS) = 0 /\ Tally(StressedB, ITERS) = 0
    BY <2>1, <2>2, <2>3, TallyZero, Zenon
  <2> QED BY <1>1, <2>4, SMTT(30) DEF TotalsInv, Locks
<1>7. ArrivalsInv
  <2>1. GoneHammered = {} /\ GonePosted = {} /\ GoneStressed = {}
    BY <1>2, Zenon DEF GoneHammered, GonePosted, GoneStressed, PrePost, PreHammer
  <2> QED BY <1>1, <2>1, FS_EmptySet, Zenon DEF ArrivalsInv, Marks
<1>8. WaitsInv
  BY <1>2, Zenon DEF WaitsInv
<1>9. PageInv
  BY <1>1, <1>2, Zenon DEF PageInv
<1>10. SchedInv
  <2>1. ASSUME NEW c \in Aps PROVE Driven(c, 0)
    <3>1. /\ expected[c] = 0 /\ kqueue[c] = <<>> /\ ksched_runnable[c] = 0 /\ peak[c] = 0
      BY <1>1
    <3>2. TASKS_PER_CORE \in Nat
      BY SmpAssumption, Zenon
    <3> QED BY <3>1, <3>2, SMTT(30) DEF Driven
  <2>2. \A c \in Aps : DispatchedAt(core_pc[c], n[c]) = 0
    BY <1>2, Zenon DEF DispatchedAt, Stress, PostStress
  <2> QED BY <2>1, <2>2, Zenon DEF SchedInv
<1> QED BY <1>3, <1>4, <1>5, <1>6, <1>7, <1>8, <1>9, <1>10, Zenon DEF SmpInv

LEMMA SmpNextInv ==
    ASSUME SmpInv, [SmpNext]_smp_vars
    PROVE  SmpInv'
<1>1. CASE Bsp
  BY <1>1, LaunchStep, WaitSteps, HammeredStep, DrainStep, DrainedOnceStep, AllPostedStep, DrainedStep,
     MapStep, ShootdownStep, AcksStep, FreeStep, StageStep, ReleaseStep, StressedStep, Zenon DEF Bsp
<1>2. ASSUME NEW c \in Cores, Core(c) PROVE SmpInv'
  <2>1. c = 0 \/ c \in Aps
    BY CoresFinite
  <2> QED BY <1>2, <2>1, HammerStep, PostStep, StressStep, BspStressed, PassingActions, Zenon DEF Core
<1>3. ASSUME NEW c \in Cores, tlb_fill(c) PROVE SmpInv'
  BY <1>3, FillStep
<1>4. ASSUME NEW c \in Aps, Ap(c) PROVE SmpInv'
  BY <1>4, PassingActions, DispatchStep, KschedDone, Zenon DEF Ap
<1>5. ASSUME NEW c \in Aps, record_tick(c) \/ tlb_shootdown_irq(c) PROVE SmpInv'
  BY <1>5, TickStep, ShootdownIrqStep, Zenon
<1>6. CASE UNCHANGED smp_vars
  <2>1. /\ UNCHANGED <<core_pc, n, holder, value, tmp, arrived, patient>> /\ UNCHANGED <<queue, count>>
        /\ UNCHANGED <<mapped, tlb, ipi, acks, freed>>
        /\ UNCHANGED <<expected, kqueue, ksched_runnable, peak>>
    BY <1>6, Zenon DEF smp_vars
  <2>2. SmpTypeOK'
    BY <2>1, Zenon DEF SmpInv, SmpTypeOK
  <2>3. PageInv'
    BY <2>1, PageSame
  <2> QED BY <2>1, <2>2, <2>3, StaysPut, Zenon DEF SmpInv
<1> QED BY <1>1, <1>2, <1>3, <1>4, <1>5, <1>6, Zenon DEF SmpNext

(* Every reachable state of the bring-up satisfies the invariant.          *)
THEOREM SmpInvariant == SmpSpec => []SmpInv
<1>1. SmpInit => SmpInv
  BY SmpInitInv
<1>2. SmpInv /\ [SmpNext]_smp_vars => SmpInv'
  BY SmpNextInv
<1> QED BY <1>1, <1>2, PTL DEF SmpSpec

(* What the bootstrap core and the others look at when they report.        *)
LEMMA InvSound == SmpInv => SmpSound
<1> SUFFICES ASSUME SmpInv PROVE SmpSound
  BY Zenon
<1>1. HAMMER_ITERS \in Nat /\ POSTS_PER_CORE \in Nat /\ ITERS \in Nat
  BY SmpAssumption
<1>2. SmpTypeOK /\ TotalsInv /\ WaitsInv /\ PageInv /\ SchedInv /\ Cores = Aps \cup {0}
  BY CoresFinite DEF SmpInv
<1>3. ASSUME patient, core_pc[0] = "post" PROVE value["counter"] = (APS + 1) * HAMMER_ITERS
  <2>1. \A c \in Cores : core_pc[c] \notin PrePost
    BY <1>2, <1>3, SMTT(30) DEF WaitsInv, PrePost, PreHammer, Hammer
  <2>2. \A c \in Cores : Hammered[c] = HAMMER_ITERS
    BY <2>1 DEF Hammered, HammeredAt, PrePost, Hammer
  <2>3. Tally(Hammered, HAMMER_ITERS) = (APS + 1) * HAMMER_ITERS
    BY <1>1, <2>2, TallyFull, Zenon
  <2> QED BY <1>2, <2>3, Zenon DEF TotalsInv
<1>4. ASSUME patient, core_pc[0] = "wait_preempted" PROVE count = (APS + 1) * POSTS_PER_CORE
  <2>1. \A c \in Cores : core_pc[c] \notin PrePost \cup {"post"}
    BY <1>2, <1>4, Zenon DEF WaitsInv, PrePost, PreHammer, Hammer
  <2>2. \A c \in Cores : Posted[c] = POSTS_PER_CORE
    BY <2>1 DEF Posted, PostedAt
  <2>3. Tally(Posted, POSTS_PER_CORE) = (APS + 1) * POSTS_PER_CORE
    BY <1>1, <2>2, TallyFull, Zenon
  <2>4. queue = 0 /\ count \in Nat
    BY <1>2, <1>4 DEF WaitsInv, SmpTypeOK
  <2>5. count = queue + count
    BY <2>4
  <2> QED BY <1>2, <2>3, <2>5, Zenon DEF TotalsInv
<1>5. ASSUME patient, core_pc[0] = "done"
      PROVE  value["A"] = (APS + 1) * ITERS /\ value["B"] = (APS + 1) * ITERS
  <2>1. \A c \in Cores : core_pc[c] \in {"done", "idle"}
    BY <1>2, <1>5, Zenon DEF WaitsInv
  <2>2. \A c \in Cores : StressedA[c] = ITERS /\ StressedB[c] = ITERS
    BY <2>1, SMTT(30) DEF StressedA, StressedB, StressedAt, BeforeA, BeforeB, Stress, PostStress
  <2>3. Tally(StressedA, ITERS) = (APS + 1) * ITERS /\ Tally(StressedB, ITERS) = (APS + 1) * ITERS
    BY <1>1, <2>2, TallyFull, Zenon
  <2> QED BY <1>2, <2>3, Zenon DEF TotalsInv
<1>6. FlushedBeforeFree
  <2>1. ASSUME freed, patient PROVE tlb = {}
    <3>1. ipi = {} /\ ~mapped
      BY <1>2, <2>1, Zenon DEF PageInv, Mapping
    <3> QED BY <1>2, <3>1, Zenon DEF PageInv
  <2> QED BY <2>1 DEF FlushedBeforeFree
<1>7. SchedulersDriven
  <2>1. ASSUME NEW c \in Aps, core_pc[c] \in {"pcsched", "stress", "idle"}
        PROVE  peak[c] = TASKS_PER_CORE /\ ksched_runnable[c] = 0
    <3>1. PICK T \in Nat \ {0} : T = TASKS_PER_CORE
      BY SmpAssumption, Zenon
    <3>2. DispatchedAt(core_pc[c], n[c]) = 2 * T
      BY <2>1, <3>1, Zenon DEF DispatchedAt, Stress, PostStress
    <3>3. /\ ksched_runnable[c] = IF 2 * T <= T THEN 2 * T ELSE 2 * T - 2 * T
          /\ peak[c] = IF 2 * T <= T THEN 2 * T ELSE T
      <4>1. Driven(c, 2 * T)
        BY <1>2, <3>2, SMTT(30) DEF SchedInv
      <4> QED BY <3>1, <4>1, Zenon DEF Driven
    <3> QED BY <3>1, <3>3, SMTT(30)
  <2> QED BY <2>1, Zenon DEF SchedulersDriven
<1>8. TotalsExact
  BY <1>3, <1>4, <1>5, SMTT(30) DEF TotalsExact
<1> QED BY <1>6, <1>7, <1>8 DEF SmpSound

(* For any number of cores, iterations, posts, tasks and queue places: a   *)
(* bring-up in which no wait ran out finds every total exact, a page is    *)
(* freed only when no core can translate to it, and every per-core         *)
(* Scheduler has seen all its tasks and is idle again.                     *)
THEOREM SmpIsSound == SmpSpec => []SmpSound
<1>1. SmpSpec => []SmpInv
  BY SmpInvariant
<1>2. SmpInv => SmpSound
  BY InvSound
<1> QED BY <1>1, <1>2, PTL
=============================================================================
