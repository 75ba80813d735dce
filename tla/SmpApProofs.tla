---------------------------- MODULE SmpApProofs ----------------------------
(***************************************************************************)
(* The multi-core bring-up is sound for every number of cores, iterations, *)
(* posts, tasks and queue places.                                          *)
(*                                                                         *)
(* SmpSound speaks of the totals only where the bootstrap core looks at    *)
(* them.  The invariant says what they are at every step: each is the sum, *)
(* over the cores, of what a core has contributed by its place in ap_entry *)
(* or kmain (TotalsInv), because only the holder of a lock is between its  *)
(* read and its write (LockInv).  A count of arrivals is the number of     *)
(* cores that have gone on (ArrivalsInv), so a wait that did not run out   *)
(* has seen all of them (WaitsInv); a core that may still translate to the *)
(* test page owes an acknowledgement (PageInv); and a core's post queue    *)
(* holds, in order, the posts its Scheduler has not seen (SchedInv).       *)
(*                                                                         *)
(* Here: the invariant, and that the steps of the application processors   *)
(* and the work every core does keep it.  SmpProofs has the bootstrap      *)
(* core's own steps and the theorems.                                      *)
(***************************************************************************)
EXTENDS Smp, FiniteSetTheorems, TLAPS

(* Where a core can be, by the phases of the bring-up.                     *)
PreHammer == {"parked", "entry", "launch", "wait_online"}
Hammer == {"hammer", "hammer_inc", "hammer_drop"}
PrePost == PreHammer \cup Hammer \cup {"hammered"}
Drain == {"posted", "look", "last_drain", "wait_preempted"}
Mapping == {"map", "unmap", "wait_acks", "free"}
Stress == {"stress", "lock_A", "inc_A", "lock_B", "inc_B", "drop_B", "drop_A"}
PostStress == {"stressed", "wait_stress", "done", "idle"}
BspPcs ==
    {"launch", "wait_online", "hammered", "post", "stage", "wait_scheduled", "release",
     "wait_sliced", "stressed", "wait_stress", "done"} \cup Hammer \cup Drain \cup Mapping \cup Stress
ApPcs ==
    {"parked", "entry", "hammered", "post", "posted", "ticking", "ksched", "pcsched",
     "stressed", "idle"} \cup Hammer \cup Stress

SmpTypeOK ==
    /\ core_pc \in [Cores -> BspPcs \cup ApPcs]
    /\ core_pc[0] \in BspPcs /\ \A c \in Aps : core_pc[c] \in ApPcs
    /\ n \in [Cores -> Nat] /\ tmp \in [Cores -> Nat]
    /\ holder \in [Locks -> Cores \cup {Nobody}] /\ value \in [Locks -> Nat]
    /\ queue \in Nat /\ count \in Nat /\ arrived \in [Marks -> Nat]
    /\ tlb \subseteq Cores /\ ipi \subseteq Aps /\ acks \in Nat
    /\ expected \in [Aps -> Nat] /\ kqueue \in [Aps -> Seq({"Ready", "Unready"})]
    /\ ksched_runnable \in [Aps -> Nat] /\ peak \in [Aps -> Nat]

(* A core's loop counter is in the range of the loop it is in, and zero    *)
(* between two loops.                                                      *)
LoopCounter(c) ==
    /\ core_pc[c] \in Hammer => n[c] < HAMMER_ITERS
    /\ core_pc[c] = "post" => n[c] < POSTS_PER_CORE
    /\ core_pc[c] \in Stress => n[c] < ITERS
    /\ core_pc[c] \notin Hammer \cup Stress \cup {"post", "ksched", "stage"} => n[c] = 0

(* A lock is held by the core that is between its acquire and its drop,    *)
(* and what that core has read is still the value.                         *)
HoldsAt(l) ==
    IF l = "counter" THEN {"hammer_inc", "hammer_drop"}
    ELSE IF l = "A" THEN Stress \ {"stress", "lock_A"} ELSE {"inc_B", "drop_B"}
IncAt(l) == IF l = "counter" THEN "hammer_inc" ELSE IF l = "A" THEN "inc_A" ELSE "inc_B"
LockInv ==
    \A c \in Cores, l \in Locks :
        /\ holder[l] = c <=> core_pc[c] \in HoldsAt(l)
        /\ core_pc[c] = IncAt(l) => tmp[c] = value[l]

(* What each core has contributed, by where it is.                         *)
HammeredAt(p, k) ==
    IF p \in PreHammer THEN 0
    ELSE IF p \in {"hammer", "hammer_inc"} THEN k
    ELSE IF p = "hammer_drop" THEN k + 1 ELSE HAMMER_ITERS
PostedAt(p, k) ==
    IF p \in PrePost THEN 0 ELSE IF p = "post" THEN k ELSE POSTS_PER_CORE
StressedAt(p, k, before) ==
    IF p \in before THEN k
    ELSE IF p \in Stress THEN k + 1
    ELSE IF p \in PostStress THEN ITERS ELSE 0

BeforeA == {"stress", "lock_A", "inc_A"}
BeforeB == {"stress", "lock_A", "inc_A", "lock_B", "inc_B"}

Hammered == [c \in Cores |-> HammeredAt(core_pc[c], n[c])]
Posted == [c \in Cores |-> PostedAt(core_pc[c], n[c])]
StressedA == [c \in Cores |-> StressedAt(core_pc[c], n[c], BeforeA)]
StressedB == [c \in Cores |-> StressedAt(core_pc[c], n[c], BeforeB)]

(* The sum of the contributions, each at most m.                           *)
Pairs(f, m) == {x \in Cores \X (1 .. m) : x[2] <= f[x[1]]}
Tally(f, m) == Cardinality(Pairs(f, m))

TotalsInv ==
    /\ value["counter"] = Tally(Hammered, HAMMER_ITERS)
    /\ queue + count = Tally(Posted, POSTS_PER_CORE)
    /\ value["A"] = Tally(StressedA, ITERS)
    /\ value["B"] = Tally(StressedB, ITERS)

(* The counts of arrivals are the cores that have gone on.                 *)
GoneHammered == {c \in Aps : core_pc[c] \notin PrePost}
GonePosted == {c \in Aps : core_pc[c] \notin PrePost \cup {"post", "posted"}}
GoneStressed == {c \in Cores : core_pc[c] \in {"wait_stress", "done", "idle"}}
ArrivalsInv ==
    /\ arrived["hammered"] = Cardinality(GoneHammered)
    /\ arrived["posted"] = Cardinality(GonePosted)
    /\ arrived["stressed"] = Cardinality(GoneStressed)

(* What a wait of the bootstrap core that did not run out has established. *)
WaitsInv ==
    /\ core_pc[0] = "launch" => \A c \in Aps : core_pc[c] = "parked"
    /\ patient =>
         /\ core_pc[0] = "post" => \A c \in Aps : core_pc[c] \notin PrePost
         /\ core_pc[0] \in {"last_drain", "wait_preempted"} =>
               \A c \in Aps : core_pc[c] \notin PrePost \cup {"post"}
         /\ core_pc[0] = "wait_preempted" => queue = 0
         /\ core_pc[0] = "done" => \A c \in Aps : core_pc[c] = "idle"

(* The page: a core that may still translate to it owes its flush.         *)
BeforePage == BspPcs \ ({"stage", "wait_scheduled", "release", "wait_sliced"} \cup Mapping
                        \cup Stress \cup PostStress)
PageInv ==
    /\ mapped <=> core_pc[0] = "unmap"
    /\ ~mapped => tlb \subseteq ipi
    /\ core_pc[0] \in BeforePage \cup {"map", "unmap"} => ipi = {}
    /\ core_pc[0] \in BeforePage \cup Mapping => ~freed
    /\ core_pc[0] = "wait_acks" => acks = Cardinality(Aps \ ipi)
    /\ patient /\ (core_pc[0] = "free" \/ freed) => ipi = {}

(* Of its posts a core has dispatched the first so many; the rest, in      *)
(* order, are in its queue.                                                *)
DispatchedAt(p, k) ==
    IF p = "ksched" THEN k
    ELSE IF p \in {"pcsched"} \cup Stress \cup PostStress THEN 2 * TASKS_PER_CORE ELSE 0
Driven(c, d) ==
    /\ expected[c] \in {0, 2 * TASKS_PER_CORE}
    /\ expected[c] = 0 => d = 0 /\ Len(kqueue[c]) <= 2 * TASKS_PER_CORE
    /\ expected[c] # 0 => d + Len(kqueue[c]) = 2 * TASKS_PER_CORE
    /\ \A i \in 1 .. Len(kqueue[c]) : kqueue[c][i] = Posts[d + i]
    /\ ksched_runnable[c] = IF d <= TASKS_PER_CORE THEN d ELSE 2 * TASKS_PER_CORE - d
    /\ peak[c] = IF d <= TASKS_PER_CORE THEN d ELSE TASKS_PER_CORE
SchedInv == \A c \in Aps : Driven(c, DispatchedAt(core_pc[c], n[c]))

SmpInv ==
    /\ SmpTypeOK
    /\ \A c \in Cores : LoopCounter(c)
    /\ LockInv /\ TotalsInv /\ ArrivalsInv /\ WaitsInv /\ PageInv /\ SchedInv

-----------------------------------------------------------------------------
(* Sums over the cores.                                                    *)

LEMMA CoresFinite ==
    /\ APS \in Nat /\ 0 \in Cores /\ Aps \subseteq Cores /\ 0 \notin Aps
    /\ Cores = Aps \cup {0}
    /\ IsFiniteSet(Cores) /\ Cardinality(Cores) = APS + 1
    /\ IsFiniteSet(Aps) /\ Cardinality(Aps) = APS
<1>1. APS \in Nat
  BY SmpAssumption
<1>2. IsFiniteSet(0 .. APS) /\ Cardinality(0 .. APS) = APS + 1
  BY <1>1, FS_Interval
<1>3. IsFiniteSet(1 .. APS) /\ Cardinality(1 .. APS) = APS
  BY <1>1, FS_Interval
<1> QED BY <1>1, <1>2, <1>3 DEF Cores, Aps

(* No core has the number that stands for a free lock.                     *)
LEMMA NobodyIsNoCore == \A c \in Cores : c # Nobody
BY CoresFinite DEF Cores, Nobody

LEMMA TallyFinite ==
    ASSUME NEW m \in Nat, NEW f
    PROVE  /\ IsFiniteSet(Pairs(f, m)) /\ Tally(f, m) \in Nat
           /\ Cardinality(Cores \X (1 .. m)) = (APS + 1) * m
<1>1. IsFiniteSet(1 .. m) /\ Cardinality(1 .. m) = m
  BY FS_Interval
<1>2. IsFiniteSet(Cores \X (1 .. m)) /\ Cardinality(Cores \X (1 .. m)) = (APS + 1) * m
  <2>1. /\ IsFiniteSet(Cores \X (1 .. m))
        /\ Cardinality(Cores \X (1 .. m)) = Cardinality(Cores) * Cardinality(1 .. m)
    BY <1>1, CoresFinite, FS_Product, Zenon
  <2> QED BY <1>1, <2>1, CoresFinite, Zenon
<1>3. Pairs(f, m) \in SUBSET (Cores \X (1 .. m))
  BY DEF Pairs
<1>4. IsFiniteSet(Pairs(f, m))
  BY <1>2, <1>3, FS_Subset
<1>5. Tally(f, m) \in Nat
  BY <1>4, FS_CardinalityType DEF Tally
<1> QED BY <1>2, <1>4, <1>5

LEMMA TallyZero ==
    ASSUME NEW m \in Nat, NEW f, \A c \in Cores : f[c] = 0
    PROVE  Tally(f, m) = 0
<1>1. Pairs(f, m) = {}
  BY DEF Pairs
<1> QED BY <1>1, FS_EmptySet DEF Tally

LEMMA TallyFull ==
    ASSUME NEW m \in Nat, NEW f, \A c \in Cores : f[c] = m
    PROVE  Tally(f, m) = (APS + 1) * m
<1>1. Pairs(f, m) = Cores \X (1 .. m)
  BY DEF Pairs
<1> QED BY <1>1, TallyFinite DEF Tally

LEMMA TallyStep ==
    ASSUME NEW m \in Nat, NEW f \in [Cores -> Nat], NEW g \in [Cores -> Nat], NEW c \in Cores,
           g[c] = f[c] + 1, g[c] <= m, \A d \in Cores \ {c} : g[d] = f[d]
    PROVE  Tally(g, m) = Tally(f, m) + 1
<1>1. <<c, f[c] + 1>> \notin Pairs(f, m)
  BY DEF Pairs
<1>2. Pairs(g, m) = Pairs(f, m) \cup {<<c, f[c] + 1>>}
  <2>1. ASSUME NEW x \in Pairs(g, m) PROVE x \in Pairs(f, m) \cup {<<c, f[c] + 1>>}
    <3>1. PICK d \in Cores, i \in 1 .. m : x = <<d, i>> /\ i <= g[d]
      BY <2>1 DEF Pairs
    <3>2. CASE d = c /\ i = f[c] + 1
      BY <3>1, <3>2
    <3>3. CASE ~(d = c /\ i = f[c] + 1)
      <4>1. i <= f[d]
        BY <3>1, <3>3
      <4> QED BY <3>1, <4>1 DEF Pairs
    <3> QED BY <3>2, <3>3
  <2>2. ASSUME NEW x \in Pairs(f, m) PROVE x \in Pairs(g, m)
    <3>1. PICK d \in Cores, i \in 1 .. m : x = <<d, i>> /\ i <= f[d]
      BY <2>2 DEF Pairs
    <3>2. i <= g[d]
      BY <3>1
    <3> QED BY <3>1, <3>2 DEF Pairs
  <2>3. <<c, f[c] + 1>> \in Pairs(g, m)
    <3>1. f[c] + 1 \in 1 .. m
      OBVIOUS
    <3> QED BY <3>1 DEF Pairs
  <2> QED BY <2>1, <2>2, <2>3
<1>3. IsFiniteSet(Pairs(f, m))
  BY TallyFinite, Zenon
<1>4. PICK s : s = Pairs(f, m)
  OBVIOUS
<1>5. PICK x : x = <<c, f[c] + 1>>
  BY Zenon
<1>6. Cardinality(s \cup {x}) = Cardinality(s) + 1
  BY <1>1, <1>3, <1>4, <1>5, FS_AddElement, Zenon
<1> QED BY <1>2, <1>4, <1>5, <1>6, Zenon DEF Tally

(* A contribution and the total it goes into grow together, or neither.    *)
Counted(own, own1, total, total1, m) ==
    \/ own1 = own /\ total1 = total
    \/ own1 = own + 1 /\ own1 <= m /\ total1 = total + 1

(* A core's own number and the total move together by 0 or by 1.           *)
LEMMA CountedBy ==
    ASSUME NEW h \in Nat, NEW h1, NEW v \in Nat, NEW v1, NEW d \in {0, 1}, NEW m,
           h1 = h + d, v1 = v + d, d = 1 => h1 <= m
    PROVE  Counted(h, h1, v, v1, m)
BY SMTT(30) DEF Counted

LEMMA TallyCounted ==
    ASSUME NEW m \in Nat, NEW f \in [Cores -> Nat], NEW g \in [Cores -> Nat], NEW c \in Cores,
           \A d \in Cores \ {c} : g[d] = f[d],
           NEW total, NEW total1, Counted(f[c], g[c], total, total1, m), total = Tally(f, m)
    PROVE  total1 = Tally(g, m)
<1>1. CASE g[c] = f[c] /\ total1 = total
  <2>1. g = f
    BY <1>1
  <2> QED BY <1>1, <2>1
<1>2. CASE g[c] = f[c] + 1 /\ g[c] <= m /\ total1 = total + 1
  BY <1>2, TallyStep
<1> QED BY <1>1, <1>2 DEF Counted

(* One core goes to p with the loop counter k.                             *)
Moves(c, p, k) == core_pc' = [core_pc EXCEPT ![c] = p] /\ n' = [n EXCEPT ![c] = k]

LEMMA MoveFacts ==
    ASSUME SmpTypeOK, NEW c \in Cores, NEW p, NEW k, Moves(c, p, k)
    PROVE  /\ core_pc'[c] = p /\ n'[c] = k
           /\ \A d \in Cores : d # c => core_pc'[d] = core_pc[d] /\ n'[d] = n[d]
BY DEF SmpTypeOK, Moves

LEMMA AtTypes ==
    ASSUME NEW p, NEW k \in Nat
    PROVE  /\ HammeredAt(p, k) \in Nat /\ PostedAt(p, k) \in Nat
           /\ \A before : StressedAt(p, k, before) \in Nat
BY SmpAssumption DEF HammeredAt, PostedAt, StressedAt

LEMMA MoveTotals ==
    ASSUME SmpInv, NEW c \in Cores, NEW p, NEW k \in Nat, Moves(c, p, k),
           Counted(HammeredAt(core_pc[c], n[c]), HammeredAt(p, k),
                   value["counter"], value'["counter"], HAMMER_ITERS),
           Counted(PostedAt(core_pc[c], n[c]), PostedAt(p, k),
                   queue + count, queue' + count', POSTS_PER_CORE),
           Counted(StressedAt(core_pc[c], n[c], BeforeA), StressedAt(p, k, BeforeA),
                   value["A"], value'["A"], ITERS),
           Counted(StressedAt(core_pc[c], n[c], BeforeB), StressedAt(p, k, BeforeB),
                   value["B"], value'["B"], ITERS)
    PROVE  TotalsInv'
<1>1. SmpTypeOK /\ TotalsInv
  BY DEF SmpInv
<1>2. /\ core_pc'[c] = p /\ n'[c] = k
      /\ \A d \in Cores : d # c => core_pc'[d] = core_pc[d] /\ n'[d] = n[d]
  BY <1>1, MoveFacts
<1>3. \A d \in Cores : n[d] \in Nat /\ n'[d] \in Nat
  BY <1>1, <1>2, Zenon DEF SmpTypeOK
<1>4. /\ HAMMER_ITERS \in Nat /\ POSTS_PER_CORE \in Nat /\ ITERS \in Nat
  BY SmpAssumption
<1>5. value'["counter"] = Tally(Hammered', HAMMER_ITERS)
  <2>1. Hammered \in [Cores -> Nat] /\ Hammered' \in [Cores -> Nat]
    BY <1>3, AtTypes DEF Hammered
  <2>2. \A d \in Cores \ {c} : Hammered'[d] = Hammered[d]
    BY <1>2, SMTT(30) DEF Hammered
  <2>3. Hammered[c] = HammeredAt(core_pc[c], n[c]) /\ Hammered'[c] = HammeredAt(p, k)
    BY <1>2, SMTT(30) DEF Hammered
  <2>4. value["counter"] = Tally(Hammered, HAMMER_ITERS)
    BY <1>1, SMTT(30) DEF TotalsInv
  <2> QED BY <1>4, <2>1, <2>2, <2>3, <2>4, TallyCounted, ZenonT(60)
<1>6. queue' + count' = Tally(Posted', POSTS_PER_CORE)
  <2>1. Posted \in [Cores -> Nat] /\ Posted' \in [Cores -> Nat]
    BY <1>3, AtTypes DEF Posted
  <2>2. \A d \in Cores \ {c} : Posted'[d] = Posted[d]
    BY <1>2 DEF Posted
  <2>3. Posted[c] = PostedAt(core_pc[c], n[c]) /\ Posted'[c] = PostedAt(p, k)
    BY <1>2 DEF Posted
  <2>4. queue + count = Tally(Posted, POSTS_PER_CORE)
    BY <1>1 DEF TotalsInv
  <2> QED BY <1>4, <2>1, <2>2, <2>3, <2>4, TallyCounted, ZenonT(60)
<1>7. value'["A"] = Tally(StressedA', ITERS)
  <2>1. StressedA \in [Cores -> Nat] /\ StressedA' \in [Cores -> Nat]
    BY <1>3, AtTypes, ZenonT(60) DEF StressedA
  <2>2. \A d \in Cores \ {c} : StressedA'[d] = StressedA[d]
    BY <1>2 DEF StressedA
  <2>3. /\ StressedA[c] = StressedAt(core_pc[c], n[c], BeforeA)
        /\ StressedA'[c] = StressedAt(p, k, BeforeA)
    BY <1>2, SMTT(30) DEF StressedA
  <2>4. value["A"] = Tally(StressedA, ITERS)
    BY <1>1, SMTT(30) DEF TotalsInv
  <2> QED BY <1>4, <2>1, <2>2, <2>3, <2>4, TallyCounted, ZenonT(60)
<1>8. value'["B"] = Tally(StressedB', ITERS)
  <2>1. StressedB \in [Cores -> Nat] /\ StressedB' \in [Cores -> Nat]
    BY <1>3, AtTypes, Zenon DEF StressedB
  <2>2. \A d \in Cores \ {c} : StressedB'[d] = StressedB[d]
    BY <1>2 DEF StressedB
  <2>3. /\ StressedB[c] = StressedAt(core_pc[c], n[c], BeforeB)
        /\ StressedB'[c] = StressedAt(p, k, BeforeB)
    BY <1>2 DEF StressedB
  <2>4. value["B"] = Tally(StressedB, ITERS)
    BY <1>1 DEF TotalsInv
  <2> QED BY <1>4, <2>1, <2>2, <2>3, <2>4, TallyCounted, ZenonT(60)
<1> QED BY <1>5, <1>6, <1>7, <1>8 DEF TotalsInv

(* The cores that have gone on: one more has, and the count with it.       *)
LEMMA GoneStep ==
    ASSUME NEW S \in SUBSET Cores, NEW T \in SUBSET Cores, NEW c \in Cores,
           \A d \in Cores \ {c} : d \in T <=> d \in S,
           NEW k, NEW k1, k = Cardinality(S),
           \/ (c \in T <=> c \in S) /\ k1 = k
           \/ c \in T /\ c \notin S /\ k1 = k + 1
    PROVE  k1 = Cardinality(T)
<1>1. IsFiniteSet(S)
  BY CoresFinite, FS_Subset
<1>2. CASE (c \in T <=> c \in S) /\ k1 = k
  <2>1. T = S
    BY <1>2
  <2> QED BY <1>2, <2>1
<1>3. CASE c \in T /\ c \notin S /\ k1 = k + 1
  <2>1. T = S \cup {c}
    BY <1>3
  <2>2. Cardinality(S \cup {c}) = Cardinality(S) + 1
    BY <1>1, <1>3, FS_AddElement
  <2> QED BY <1>3, <2>1, <2>2
<1> QED BY <1>2, <1>3

(* What a move adds to the counts of arrivals.                             *)
Arrives(was, is, k, k1) ==
    \/ (is <=> was) /\ k1 = k
    \/ is /\ ~was /\ k1 = k + 1

StressedPcs == {"wait_stress", "done", "idle"}

LEMMA MoveArrivals ==
    ASSUME SmpInv, NEW c \in Cores, NEW p \in BspPcs \cup ApPcs, NEW k, Moves(c, p, k),
           Arrives(c # 0 /\ core_pc[c] \notin PrePost, c # 0 /\ p \notin PrePost,
                   arrived["hammered"], arrived'["hammered"]),
           Arrives(c # 0 /\ core_pc[c] \notin PrePost \cup {"post", "posted"},
                   c # 0 /\ p \notin PrePost \cup {"post", "posted"},
                   arrived["posted"], arrived'["posted"]),
           Arrives(core_pc[c] \in StressedPcs, p \in StressedPcs,
                   arrived["stressed"], arrived'["stressed"])
    PROVE  ArrivalsInv'
<1>1. SmpTypeOK /\ ArrivalsInv
  BY DEF SmpInv
<1>2. core_pc'[c] = p /\ \A d \in Cores : d # c => core_pc'[d] = core_pc[d]
  BY <1>1, MoveFacts
<1>3. Aps \subseteq Cores /\ \A d \in Cores : d \in Aps <=> d # 0
  BY CoresFinite
<1>4. arrived'["hammered"] = Cardinality(GoneHammered')
  <2>1. GoneHammered \in SUBSET Cores /\ GoneHammered' \in SUBSET Cores
    BY <1>3 DEF GoneHammered
  <2>2. \A d \in Cores \ {c} : d \in GoneHammered' <=> d \in GoneHammered
    BY <1>2 DEF GoneHammered
  <2>3. /\ c \in GoneHammered <=> c # 0 /\ core_pc[c] \notin PrePost
        /\ c \in GoneHammered' <=> c # 0 /\ p \notin PrePost
    BY <1>2, <1>3 DEF GoneHammered
  <2>4. arrived["hammered"] = Cardinality(GoneHammered)
    BY <1>1 DEF ArrivalsInv
  <2>5. \/ (c \in GoneHammered' <=> c \in GoneHammered) /\ arrived'["hammered"] = arrived["hammered"]
        \/ c \in GoneHammered' /\ c \notin GoneHammered /\ arrived'["hammered"] = arrived["hammered"] + 1
    BY <2>3 DEF Arrives
  <2> QED BY <2>1, <2>2, <2>4, <2>5, GoneStep
<1>5. arrived'["posted"] = Cardinality(GonePosted')
  <2>1. GonePosted \in SUBSET Cores /\ GonePosted' \in SUBSET Cores
    BY <1>3 DEF GonePosted
  <2>2. \A d \in Cores \ {c} : d \in GonePosted' <=> d \in GonePosted
    BY <1>2 DEF GonePosted
  <2>3. /\ c \in GonePosted <=> c # 0 /\ core_pc[c] \notin PrePost \cup {"post", "posted"}
        /\ c \in GonePosted' <=> c # 0 /\ p \notin PrePost \cup {"post", "posted"}
    BY <1>2, <1>3 DEF GonePosted
  <2>4. arrived["posted"] = Cardinality(GonePosted)
    BY <1>1 DEF ArrivalsInv
  <2>5. \/ (c \in GonePosted' <=> c \in GonePosted) /\ arrived'["posted"] = arrived["posted"]
        \/ c \in GonePosted' /\ c \notin GonePosted /\ arrived'["posted"] = arrived["posted"] + 1
    BY <2>3 DEF Arrives
  <2> QED BY <2>1, <2>2, <2>4, <2>5, GoneStep
<1>6. arrived'["stressed"] = Cardinality(GoneStressed')
  <2>1. GoneStressed \in SUBSET Cores /\ GoneStressed' \in SUBSET Cores
    BY DEF GoneStressed
  <2>2. \A d \in Cores \ {c} : d \in GoneStressed' <=> d \in GoneStressed
    BY <1>2 DEF GoneStressed
  <2>3. /\ c \in GoneStressed <=> core_pc[c] \in StressedPcs
        /\ c \in GoneStressed' <=> p \in StressedPcs
    BY <1>2 DEF GoneStressed, StressedPcs
  <2>4. arrived["stressed"] = Cardinality(GoneStressed)
    BY <1>1 DEF ArrivalsInv
  <2>5. \/ (c \in GoneStressed' <=> c \in GoneStressed) /\ arrived'["stressed"] = arrived["stressed"]
        \/ c \in GoneStressed' /\ c \notin GoneStressed /\ arrived'["stressed"] = arrived["stressed"] + 1
    BY <2>3 DEF Arrives
  <2>6. PICK a, a1 : a = arrived["stressed"] /\ a1 = arrived'["stressed"]
    OBVIOUS
  <2>7. PICK s \in SUBSET Cores, t \in SUBSET Cores : s = GoneStressed /\ t = GoneStressed'
    BY <2>1
  <2>8. a1 = Cardinality(t)
    BY <2>2, <2>4, <2>5, <2>6, <2>7, GoneStep
  <2> QED BY <2>6, <2>7, <2>8
<1> QED BY <1>4, <1>5, <1>6 DEF ArrivalsInv

(* Everyone has gone on when the count says so.                            *)
LEMMA AllGone ==
    ASSUME NEW U, NEW S \in SUBSET U, IsFiniteSet(U), Cardinality(S) >= Cardinality(U)
    PROVE  S = U
<1>1. IsFiniteSet(S) /\ Cardinality(S) <= Cardinality(U)
  BY FS_Subset
<1>2. Cardinality(S) \in Nat /\ Cardinality(U) \in Nat
  BY <1>1, FS_CardinalityType
<1>3. Cardinality(U) = Cardinality(S)
  BY <1>1, <1>2, SMTT(30)
<1> QED BY <1>3, FS_Subset

(* A move that touches no lock, adds to no total, or to no core's posts.   *)
Quiet(c, p, k) ==
    /\ HammeredAt(p, k) = HammeredAt(core_pc[c], n[c])
    /\ PostedAt(p, k) = PostedAt(core_pc[c], n[c])
    /\ StressedAt(p, k, BeforeA) = StressedAt(core_pc[c], n[c], BeforeA)
    /\ StressedAt(p, k, BeforeB) = StressedAt(core_pc[c], n[c], BeforeB)
Lockless(c, p) ==
    /\ \A l \in Locks : p \in HoldsAt(l) <=> core_pc[c] \in HoldsAt(l)
    /\ \A l \in Locks : p # IncAt(l)

(* The stages outside every critical section.                              *)
LEMMA NoLockPcs ==
    \A l \in Locks, p \in {"post", "posted", "ksched", "stress", "lock_A"} :
        p \notin HoldsAt(l) /\ p # IncAt(l)
BY SMTT(30) DEF Locks, HoldsAt, IncAt, Stress

LEMMA QuietTotals ==
    ASSUME SmpInv, NEW c \in Cores, NEW p, NEW k \in Nat, Moves(c, p, k), Quiet(c, p, k),
           UNCHANGED value, queue' + count' = queue + count
    PROVE  TotalsInv'
BY MoveTotals, SMTT(30) DEF Quiet, Counted

LEMMA LocksSame ==
    ASSUME SmpInv, NEW c \in Cores, NEW p, NEW k, Moves(c, p, k), Lockless(c, p),
           UNCHANGED <<holder, value, tmp>>
    PROVE  LockInv'
<1>1. SmpTypeOK /\ LockInv
  BY DEF SmpInv
<1>2. core_pc'[c] = p /\ \A d \in Cores : d # c => core_pc'[d] = core_pc[d]
  BY <1>1, MoveFacts
<1> SUFFICES ASSUME NEW d \in Cores, NEW l \in Locks
             PROVE  /\ holder'[l] = d <=> core_pc'[d] \in HoldsAt(l)
                    /\ core_pc'[d] = IncAt(l) => tmp'[d] = value'[l]
  BY DEF LockInv
<1>3. CASE d = c
  BY <1>1, <1>2, <1>3 DEF LockInv, Lockless
<1>4. CASE d # c
  BY <1>1, <1>2, <1>4, SMTT(30) DEF LockInv
<1> QED BY <1>3, <1>4

(* The schedulers of the cores see a move only through what it dispatches. *)
LEMMA SchedSame ==
    ASSUME SmpInv, NEW c \in Cores, NEW p, NEW k, Moves(c, p, k),
           UNCHANGED <<expected, kqueue, ksched_runnable, peak>>,
           c \in Aps => DispatchedAt(p, k) = DispatchedAt(core_pc[c], n[c])
    PROVE  SchedInv'
<1>1. SmpTypeOK /\ SchedInv
  BY DEF SmpInv
<1>2. /\ core_pc'[c] = p /\ n'[c] = k
      /\ \A d \in Cores : d # c => core_pc'[d] = core_pc[d] /\ n'[d] = n[d]
  BY <1>1, MoveFacts
<1>3. ASSUME NEW d \in Aps PROVE DispatchedAt(core_pc'[d], n'[d]) = DispatchedAt(core_pc[d], n[d])
  <2>1. d \in Cores
    BY CoresFinite
  <2> QED BY <1>2, <2>1
<1> QED BY <1>1, <1>3 DEF SchedInv, Driven

(* The page is not concerned by a move of another core, nor by one of the  *)
(* bootstrap core that stays on one side of the shootdown.                 *)
LEMMA PageSame ==
    ASSUME SmpInv, UNCHANGED <<mapped, tlb, ipi, acks, freed>>, patient' => patient,
           \/ core_pc'[0] = core_pc[0]
           \/ core_pc[0] \in BeforePage /\ core_pc'[0] \in BeforePage \cup {"map"}
           \/ /\ core_pc[0] \notin BeforePage \cup Mapping
              /\ core_pc'[0] \notin BeforePage \cup Mapping
    PROVE  PageInv'
<1>1. PageInv
  BY DEF SmpInv
<1>2. CASE core_pc'[0] = core_pc[0]
  BY <1>1, <1>2 DEF PageInv
<1>3. CASE core_pc[0] \in BeforePage /\ core_pc'[0] \in BeforePage \cup {"map"}
  BY <1>1, <1>3 DEF PageInv, BeforePage, Mapping
<1>4. CASE /\ core_pc[0] \notin BeforePage \cup Mapping
           /\ core_pc'[0] \notin BeforePage \cup Mapping
  BY <1>1, <1>4 DEF PageInv, Mapping
<1> QED BY <1>2, <1>3, <1>4

(* An application processor never goes back behind what a wait saw.        *)
LEMMA ApWaits ==
    ASSUME SmpInv, NEW c \in Aps, NEW p, NEW k, Moves(c, p, k), patient' = patient,
           core_pc[c] \notin {"parked", "idle"},
           core_pc[c] \notin PrePost => p \notin PrePost,
           core_pc[c] \notin PrePost \cup {"post"} => p \notin PrePost \cup {"post"},
           queue' = queue \/ core_pc[c] = "post"
    PROVE  WaitsInv'
<1>1. SmpTypeOK /\ WaitsInv
  BY DEF SmpInv
<1>2. /\ core_pc'[c] = p /\ core_pc'[0] = core_pc[0]
      /\ \A d \in Aps : d # c => core_pc'[d] = core_pc[d]
  BY <1>1, MoveFacts, CoresFinite
<1>3. core_pc'[0] # "launch" /\ (patient' => core_pc'[0] # "done")
  BY <1>1, <1>2 DEF WaitsInv
<1>4. ASSUME patient', core_pc'[0] = "post", NEW d \in Aps PROVE core_pc'[d] \notin PrePost
  BY <1>1, <1>2, <1>4 DEF WaitsInv
<1>5. ASSUME patient', core_pc'[0] \in {"last_drain", "wait_preempted"}
      PROVE  /\ \A d \in Aps : core_pc'[d] \notin PrePost \cup {"post"}
             /\ core_pc'[0] = "wait_preempted" => queue' = 0
  <2>1. \A d \in Aps : core_pc[d] \notin PrePost \cup {"post"}
    BY <1>1, <1>2, <1>5 DEF WaitsInv
  <2>2. queue' = queue
    BY <2>1
  <2> QED BY <1>1, <1>2, <1>5, <2>1, <2>2 DEF WaitsInv
<1> QED BY <1>3, <1>4, <1>5 DEF WaitsInv

(* Nor does the bootstrap core, away from its waits.                       *)
LEMMA BspWaits ==
    ASSUME SmpInv, NEW p, NEW k, Moves(0, p, k), patient' => patient,
           p \notin {"launch", "last_drain", "wait_preempted", "done"},
           p = "post" => core_pc[0] = "post"
    PROVE  WaitsInv'
<1>1. SmpTypeOK /\ WaitsInv
  BY DEF SmpInv
<1>2. core_pc'[0] = p /\ \A d \in Aps : core_pc'[d] = core_pc[d]
  BY <1>1, MoveFacts, CoresFinite
<1> QED BY <1>1, <1>2 DEF WaitsInv

(* A step that leaves every core where it is.                              *)
LEMMA StaysPut ==
    ASSUME SmpInv, UNCHANGED <<core_pc, n, holder, value, tmp, arrived, patient>>,
           queue' + count' = queue + count,
           queue' = queue \/ core_pc[0] # "wait_preempted",
           UNCHANGED <<expected, kqueue, ksched_runnable, peak>>
    PROVE  (\A c \in Cores : LoopCounter(c)') /\ LockInv' /\ TotalsInv' /\ ArrivalsInv' /\ WaitsInv'
           /\ SchedInv'
<1>1. SmpInv
  OBVIOUS
<1>2. \A c \in Cores : LoopCounter(c)'
  BY <1>1, SMTT(30) DEF SmpInv, LoopCounter
<1>3. LockInv'
  BY <1>1, SMTT(30) DEF SmpInv, LockInv
<1>4. TotalsInv'
  BY <1>1 DEF SmpInv, TotalsInv, Hammered, Posted, StressedA, StressedB
<1>5. ArrivalsInv'
  BY <1>1 DEF SmpInv, ArrivalsInv, GoneHammered, GonePosted, GoneStressed
<1>6. WaitsInv'
  BY <1>1, Zenon DEF SmpInv, WaitsInv
<1>7. SchedInv'
  BY <1>1, SMTT(30) DEF SmpInv, SchedInv, Driven
<1> QED BY <1>2, <1>3, <1>4, <1>5, <1>6, <1>7

(* The loop counter after a move.                                          *)
InRange(p, k) ==
    /\ p \in Hammer => k < HAMMER_ITERS
    /\ p = "post" => k < POSTS_PER_CORE
    /\ p \in Stress => k < ITERS
    /\ p \notin Hammer \cup Stress \cup {"post", "ksched", "stage"} => k = 0

LEMMA MoveLoops ==
    ASSUME SmpInv, NEW c \in Cores, NEW p, NEW k, Moves(c, p, k), InRange(p, k)
    PROVE  \A d \in Cores : LoopCounter(d)'
<1>1. SmpTypeOK /\ \A d \in Cores : LoopCounter(d)
  BY SMTT(30) DEF SmpInv
<1>2. /\ core_pc'[c] = p /\ n'[c] = k
      /\ \A d \in Cores : d # c => core_pc'[d] = core_pc[d] /\ n'[d] = n[d]
  BY <1>1, MoveFacts
<1> QED BY <1>1, <1>2 DEF LoopCounter, InRange

(* The types of a move: everything but the pcs and loop counters.          *)
RestOK ==
    /\ tmp \in [Cores -> Nat]
    /\ holder \in [Locks -> Cores \cup {Nobody}] /\ value \in [Locks -> Nat]
    /\ queue \in Nat /\ count \in Nat /\ arrived \in [Marks -> Nat]
    /\ tlb \subseteq Cores /\ ipi \subseteq Aps /\ acks \in Nat
    /\ expected \in [Aps -> Nat] /\ kqueue \in [Aps -> Seq({"Ready", "Unready"})]
    /\ ksched_runnable \in [Aps -> Nat] /\ peak \in [Aps -> Nat]

LEMMA MoveTypes ==
    ASSUME SmpInv, NEW c \in Cores, NEW p, NEW k \in Nat, Moves(c, p, k),
           c = 0 => p \in BspPcs, c # 0 => p \in ApPcs, RestOK'
    PROVE  SmpTypeOK'
<1>1. SmpTypeOK
  BY DEF SmpInv
<1>2. p \in BspPcs \cup ApPcs
  OBVIOUS
<1>3. core_pc' \in [Cores -> BspPcs \cup ApPcs] /\ n' \in [Cores -> Nat]
  BY <1>1, <1>2 DEF SmpTypeOK, Moves
<1>4. core_pc'[c] = p /\ \A d \in Cores : d # c => core_pc'[d] = core_pc[d]
  BY <1>1, MoveFacts
<1>5. core_pc'[0] \in BspPcs /\ \A d \in Aps : core_pc'[d] \in ApPcs
  BY <1>1, <1>4, CoresFinite, ZenonT(60) DEF SmpTypeOK
<1> QED BY <1>3, <1>5, Zenon DEF SmpTypeOK, RestOK

-----------------------------------------------------------------------------
(* The moves of an application processor that only pass on.                *)

Onward(p0, k0, p, k) ==
    /\ HammeredAt(p, k) = HammeredAt(p0, k0) /\ PostedAt(p, k) = PostedAt(p0, k0)
    /\ StressedAt(p, k, BeforeA) = StressedAt(p0, k0, BeforeA)
    /\ StressedAt(p, k, BeforeB) = StressedAt(p0, k0, BeforeB)
    /\ \A l \in Locks : p \in HoldsAt(l) <=> p0 \in HoldsAt(l)
    /\ \A l \in Locks : p # IncAt(l)
    /\ InRange(p, k) /\ DispatchedAt(p, k) = DispatchedAt(p0, k0)
Forward(p0, p) ==
    /\ p0 \notin {"parked", "idle"} /\ (p0 \notin PrePost => p \notin PrePost)
    /\ p0 \notin PrePost \cup {"post"} => p \notin PrePost \cup {"post"}
ArrivesAt(p0, p, a, a1) ==
    /\ Arrives(p0 \notin PrePost, p \notin PrePost, a["hammered"], a1["hammered"])
    /\ Arrives(p0 \notin PrePost \cup {"post", "posted"}, p \notin PrePost \cup {"post", "posted"},
               a["posted"], a1["posted"])
    /\ Arrives(p0 \in StressedPcs, p \in StressedPcs, a["stressed"], a1["stressed"])

LEMMA OnwardMoves ==
    /\ Onward("entry", 0, "hammer", 0) /\ Forward("entry", "hammer")
    /\ Onward("hammered", 0, "post", 0) /\ Forward("hammered", "post")
    /\ Onward("posted", 0, "ticking", 0) /\ Forward("posted", "ticking")
    /\ Onward("ticking", 0, "ksched", 0) /\ Forward("ticking", "ksched")
    /\ Onward("ksched", 2 * TASKS_PER_CORE, "pcsched", 0) /\ Forward("ksched", "pcsched")
    /\ Onward("pcsched", 0, "stress", 0) /\ Forward("pcsched", "stress")
    /\ Onward("stressed", 0, "idle", 0) /\ Forward("stressed", "idle")
<1> USE SmpAssumption DEF Onward, Forward, HammeredAt, PostedAt, StressedAt, BeforeA, BeforeB, HoldsAt, IncAt,
        InRange, DispatchedAt, PreHammer, Hammer, PrePost, Stress, PostStress, Locks
<1>1. Onward("entry", 0, "hammer", 0) /\ Forward("entry", "hammer")
  BY SMTT(30)
<1>2. Onward("hammered", 0, "post", 0) /\ Forward("hammered", "post")
  BY SMTT(30)
<1>3. Onward("posted", 0, "ticking", 0) /\ Forward("posted", "ticking")
  BY SMTT(30)
<1>4. Onward("ticking", 0, "ksched", 0) /\ Forward("ticking", "ksched")
  BY SMTT(30)
<1>5. Onward("ksched", 2 * TASKS_PER_CORE, "pcsched", 0) /\ Forward("ksched", "pcsched")
  BY SMTT(30)
<1>6. Onward("pcsched", 0, "stress", 0) /\ Forward("pcsched", "stress")
  BY SMTT(30)
<1>7. Onward("stressed", 0, "idle", 0) /\ Forward("stressed", "idle")
  BY SMTT(30)
<1> QED BY <1>1, <1>2, <1>3, <1>4, <1>5, <1>6, <1>7, Zenon

LEMMA ApPasses ==
    ASSUME SmpInv, NEW c \in Aps, NEW p \in ApPcs, NEW k \in Nat, Moves(c, p, k),
           Onward(core_pc[c], n[c], p, k), Forward(core_pc[c], p),
           ArrivesAt(core_pc[c], p, arrived, arrived'), arrived' \in [Marks -> Nat],
           UNCHANGED <<lock_vars, queue, count, page_vars, sched_vars, patient>>
    PROVE  SmpInv'
<1>1. c \in Cores /\ c # 0 /\ p \in BspPcs \cup ApPcs
  BY CoresFinite, SMTT(30)
<1>2. Quiet(c, p, k) /\ Lockless(c, p) /\ InRange(p, k)
      /\ DispatchedAt(p, k) = DispatchedAt(core_pc[c], n[c])
  BY ZenonT(60) DEF Onward, Quiet, Lockless
<1>3. /\ UNCHANGED <<holder, value, tmp>> /\ UNCHANGED <<queue, count, patient>>
      /\ UNCHANGED <<mapped, tlb, ipi, acks, freed>>
      /\ UNCHANGED <<expected, kqueue, ksched_runnable, peak>>
  BY ZenonT(60) DEF lock_vars, page_vars, sched_vars
<1>4. SmpTypeOK'
  <2>1. RestOK'
    BY <1>3, Zenon DEF SmpInv, SmpTypeOK, RestOK
  <2> QED BY <1>1, <2>1, MoveTypes, SMTT(30)
<1>5. \A d \in Cores : LoopCounter(d)'
  BY <1>1, <1>2, MoveLoops, SMTT(30)
<1>6. LockInv'
  BY <1>1, <1>2, <1>3, LocksSame, SMTT(30)
<1>7. TotalsInv'
  BY <1>1, <1>2, <1>3, QuietTotals, Zenon
<1>8. ArrivalsInv'
  BY <1>1, MoveArrivals, SMTT(30) DEF ArrivesAt
<1>9. WaitsInv'
  BY <1>3, ApWaits, ZenonT(60) DEF Forward
<1>10. PageInv'
  <2>1. core_pc'[0] = core_pc[0]
    BY <1>1, MoveFacts, CoresFinite, ZenonT(60) DEF SmpInv
  <2> QED BY <1>3, <2>1, PageSame, SMTT(30)
<1>11. SchedInv'
  BY <1>1, <1>2, <1>3, SchedSame
<1> QED BY <1>4, <1>5, <1>6, <1>7, <1>8, <1>9, <1>10, <1>11, ZenonT(60) DEF SmpInv

(* Which count an arrival adds to is the one the move goes past.           *)
Reports(p0, p, m) ==
    /\ m \in Marks /\ p \in ApPcs /\ p0 \notin Hammer \cup Stress \cup {"post", "ksched", "stage"}
    /\ IF m = "hammered" THEN p0 \in PrePost /\ p \notin PrePost ELSE p0 \in PrePost <=> p \in PrePost
    /\ LET before == PrePost \cup {"post", "posted"} IN
       IF m = "posted" THEN p0 \in before /\ p \notin before ELSE p0 \in before <=> p \in before
    /\ IF m = "stressed" THEN p0 \notin StressedPcs /\ p \in StressedPcs
       ELSE p0 \in StressedPcs <=> p \in StressedPcs

LEMMA ReportMoves ==
    /\ Reports("entry", "hammer", "online") /\ Reports("hammered", "post", "hammered")
    /\ Reports("posted", "ticking", "posted") /\ Reports("ticking", "ksched", "preempted")
    /\ Reports("pcsched", "stress", "sliced") /\ Reports("stressed", "idle", "stressed")
<1> USE DEF Reports, Marks, ApPcs, Hammer, Stress, PrePost, PreHammer, StressedPcs
<1>1. /\ Reports("entry", "hammer", "online") /\ Reports("hammered", "post", "hammered")
      /\ Reports("posted", "ticking", "posted")
  BY SMTT(30)
<1>2. /\ Reports("ticking", "ksched", "preempted") /\ Reports("pcsched", "stress", "sliced")
      /\ Reports("stressed", "idle", "stressed")
  BY SMTT(30)
<1> QED BY <1>1, <1>2, ZenonT(60)

LEMMA ApReports ==
    ASSUME SmpInv, NEW c \in Aps, NEW p0, NEW p, NEW m, core_pc[c] = p0, Go(c, p), UNCHANGED n,
           Arrive(m), Reports(p0, p, m), Onward(p0, 0, p, 0), Forward(p0, p),
           UNCHANGED <<lock_vars, queue, count, page_vars, sched_vars, patient>>
    PROVE  SmpInv'
<1>1. /\ core_pc \in [Cores -> BspPcs \cup ApPcs] /\ n \in [Cores -> Nat]
      /\ arrived \in [Marks -> Nat] /\ c \in Cores /\ LoopCounter(c) /\ m \in Marks /\ p \in ApPcs
  BY CoresFinite, SMTT(30) DEF SmpInv, SmpTypeOK, Reports
<1>2. n[c] = 0
  BY <1>1 DEF LoopCounter, Reports
<1>3. Moves(c, p, 0)
  BY <1>1, <1>2, SMTT(30) DEF Go, Moves
<1>4. /\ arrived' \in [Marks -> Nat] /\ arrived'[m] = arrived[m] + 1
      /\ \A m1 \in Marks : m1 # m => arrived'[m1] = arrived[m1]
  BY <1>1, SMTT(30) DEF Arrive
<1>5. ArrivesAt(p0, p, arrived, arrived')
  <2>1. "hammered" \in Marks /\ "posted" \in Marks /\ "stressed" \in Marks
    BY SMTT(30) DEF Marks
  <2> QED BY <1>4, <2>1 DEF ArrivesAt, Arrives, Reports
<1> QED BY <1>1, <1>2, <1>3, <1>4, <1>5, ApPasses, Zenon

LEMMA PassingActions ==
    ASSUME SmpInv, NEW c \in Aps,
           \/ ap_entry(c) \/ ap_hammered(c) \/ ap_posted(c) \/ ap_preempted(c)
           \/ pcsched(c) \/ stress_done(c)
    PROVE  SmpInv'
<1>1. c # 0
  BY CoresFinite, SMTT(30)
<1>2. PICK p0, p, m :
         /\ core_pc[c] = p0 /\ Go(c, p) /\ Arrive(m) /\ UNCHANGED n
         /\ UNCHANGED <<lock_vars, queue, count, page_vars, sched_vars, patient>>
         /\ \/ p0 = "entry" /\ p = "hammer" /\ m = "online"
            \/ p0 = "hammered" /\ p = "post" /\ m = "hammered"
            \/ p0 = "posted" /\ p = "ticking" /\ m = "posted"
            \/ p0 = "ticking" /\ p = "ksched" /\ m = "preempted"
            \/ p0 = "pcsched" /\ p = "stress" /\ m = "sliced"
            \/ p0 = "stressed" /\ p = "idle" /\ m = "stressed"
  BY <1>1, SMTT(30) DEF ap_entry, ap_hammered, ap_posted, ap_preempted, pcsched, stress_done
<1>3. Reports(p0, p, m) /\ Onward(p0, 0, p, 0) /\ Forward(p0, p)
  BY <1>2, ReportMoves, OnwardMoves, SMTT(30)
<1> QED BY <1>2, <1>3, ApReports, SMTT(30)

(* ap_run of ksched ends when all the posts expected have been dispatched. *)
LEMMA KschedDone ==
    ASSUME SmpInv, NEW c \in Aps, ksched_done(c)
    PROVE  SmpInv'
<1>1. core_pc[c] = "ksched" /\ Moves(c, "pcsched", 0) /\ Arrive("scheduled")
      /\ UNCHANGED <<lock_vars, queue, count, page_vars, sched_vars, patient>>
  BY SMTT(30) DEF ksched_done, Moves, Go
<1>2. n[c] = 2 * TASKS_PER_CORE
  <2>1. expected[c] \in {0, 2 * TASKS_PER_CORE}
    BY SMTT(30) DEF SmpInv, SchedInv, Driven
  <2> QED BY <2>1, SMTT(30) DEF ksched_done
<1>3. /\ arrived' \in [Marks -> Nat] /\ arrived'["hammered"] = arrived["hammered"]
      /\ arrived'["posted"] = arrived["posted"] /\ arrived'["stressed"] = arrived["stressed"]
  <2>1. arrived \in [Marks -> Nat] /\ arrived' = [arrived EXCEPT !["scheduled"] = @ + 1]
    BY <1>1, Zenon DEF SmpInv, SmpTypeOK, Arrive
  <2> QED BY <2>1 DEF Marks
<1>4. ArrivesAt("ksched", "pcsched", arrived, arrived') /\ "pcsched" \in ApPcs
  BY <1>3 DEF ArrivesAt, Arrives, PrePost, PreHammer, Hammer, StressedPcs, ApPcs
<1> QED BY <1>1, <1>2, <1>3, <1>4, OnwardMoves, ApPasses, ZenonT(60)

-----------------------------------------------------------------------------
(* The spinlock.                                                           *)

LEMMA HoldsInc ==
    ASSUME NEW l \in Locks
    PROVE  /\ IncAt(l) \in HoldsAt(l) /\ \A m \in Locks : m # l => IncAt(m) # IncAt(l)
BY DEF Locks, IncAt, HoldsAt, Stress

(* Taking a free lock: nobody is between its acquire and its drop.         *)
LEMMA AcquireLock ==
    ASSUME SmpInv, NEW c \in Cores, NEW l \in Locks, NEW p, NEW k, Moves(c, p, k), Acquires(c, l),
           \A m \in Locks : p \in HoldsAt(m) <=> m = l \/ core_pc[c] \in HoldsAt(m),
           p = IncAt(l)
    PROVE  LockInv' /\ tmp' \in [Cores -> Nat] /\ holder' \in [Locks -> Cores \cup {Nobody}]
<1>1. SmpTypeOK /\ LockInv
  BY SMTT(30) DEF SmpInv
<1>2. core_pc'[c] = p /\ \A d \in Cores : d # c => core_pc'[d] = core_pc[d]
  BY <1>1, MoveFacts, ZenonT(60)
<1>3. /\ holder[l] = Nobody /\ holder' = [holder EXCEPT ![l] = c]
      /\ tmp' = [tmp EXCEPT ![c] = value[l]] /\ value' = value
  BY SMTT(30) DEF Acquires
<1>4. /\ holder'[l] = c /\ \A m \in Locks : m # l => holder'[m] = holder[m]
      /\ tmp'[c] = value[l] /\ \A d \in Cores : d # c => tmp'[d] = tmp[d]
      /\ tmp' \in [Cores -> Nat] /\ holder' \in [Locks -> Cores \cup {Nobody}]
  BY <1>1, <1>3, SMTT(30) DEF SmpTypeOK
<1>5. \A d \in Cores : d # Nobody
  BY NobodyIsNoCore, Zenon
<1>6. ASSUME NEW d \in Cores, NEW m \in Locks
      PROVE  /\ holder'[m] = d <=> core_pc'[d] \in HoldsAt(m)
             /\ core_pc'[d] = IncAt(m) => tmp'[d] = value'[m]
  <2>1. CASE d = c
    <3>1. CASE m = l
      BY <1>2, <1>3, <1>4, <2>1, <3>1, Zenon
    <3>2. CASE m # l
      <4>1. holder[m] = c <=> core_pc[c] \in HoldsAt(m)
        BY <1>1, Zenon DEF LockInv
      <4> QED BY <1>2, <1>4, <2>1, <3>2, <4>1, HoldsInc, Zenon
    <3> QED BY <3>1, <3>2, Zenon
  <2>2. CASE d # c
    BY <1>1, <1>2, <1>3, <1>4, <1>5, <2>2, SMTT(30) DEF LockInv
  <2> QED BY <2>1, <2>2, Zenon
<1> QED BY <1>4, <1>6, ZenonT(60) DEF LockInv

(* Only the holder writes, so what it read is what it increments.          *)
LEMMA IncrementLocked ==
    ASSUME SmpInv, NEW c \in Cores, NEW l \in Locks, NEW p, NEW k, Moves(c, p, k), Increments(c, l),
           core_pc[c] = IncAt(l), Lockless(c, p)
    PROVE  /\ LockInv' /\ tmp' \in [Cores -> Nat] /\ value' \in [Locks -> Nat]
           /\ value'[l] = value[l] + 1 /\ \A m \in Locks : m # l => value'[m] = value[m]
<1>1. SmpTypeOK /\ LockInv
  BY SMTT(30) DEF SmpInv
<1>2. core_pc'[c] = p /\ \A d \in Cores : d # c => core_pc'[d] = core_pc[d]
  BY <1>1, MoveFacts, SMTT(30)
<1>3. /\ value' = [value EXCEPT ![l] = tmp[c] + 1] /\ tmp' = [tmp EXCEPT ![c] = 0]
      /\ holder' = holder
  BY SMTT(30) DEF Increments
<1>4. tmp[c] = value[l] /\ holder[l] = c
  BY <1>1, HoldsInc, SMTT(30) DEF LockInv
<1>5. /\ value'[l] = value[l] + 1 /\ \A m \in Locks : m # l => value'[m] = value[m]
      /\ tmp' \in [Cores -> Nat] /\ value' \in [Locks -> Nat]
      /\ \A d \in Cores : d # c => tmp'[d] = tmp[d]
  BY <1>1, <1>3, <1>4 DEF SmpTypeOK
<1>6. ASSUME NEW d \in Cores, NEW m \in Locks
      PROVE  /\ holder'[m] = d <=> core_pc'[d] \in HoldsAt(m)
             /\ core_pc'[d] = IncAt(m) => tmp'[d] = value'[m]
  <2>1. CASE d = c
    BY <1>1, <1>2, <1>3, <2>1, ZenonT(60) DEF LockInv, Lockless
  <2>2. CASE d # c
    <3>1. core_pc[d] # IncAt(l)
      BY <1>1, <1>4, <2>2, HoldsInc, ZenonT(60) DEF LockInv
    <3> QED BY <1>1, <1>2, <1>3, <1>5, <2>2, <3>1, SMTT(30) DEF LockInv
  <2> QED BY <2>1, <2>2, Zenon
<1> QED BY <1>5, <1>6, ZenonT(60) DEF LockInv

LEMMA ReleaseLock ==
    ASSUME SmpInv, NEW c \in Cores, NEW l \in Locks, NEW saved, NEW p, NEW k, Moves(c, p, k),
           Releases(c, l, saved), core_pc[c] \in HoldsAt(l),
           \A m \in Locks : p \in HoldsAt(m) <=> m # l /\ core_pc[c] \in HoldsAt(m),
           \A m \in Locks : p # IncAt(m)
    PROVE  LockInv' /\ holder' \in [Locks -> Cores \cup {Nobody}]
<1>1. SmpTypeOK /\ LockInv
  BY SMTT(30) DEF SmpInv
<1>2. core_pc'[c] = p /\ \A d \in Cores : d # c => core_pc'[d] = core_pc[d]
  BY <1>1, MoveFacts, ZenonT(60)
<1>3. holder' = [holder EXCEPT ![l] = Nobody] /\ value' = value /\ tmp' = tmp
  BY SMTT(30) DEF Releases
<1>4. /\ holder'[l] = Nobody /\ \A m \in Locks : m # l => holder'[m] = holder[m]
      /\ holder' \in [Locks -> Cores \cup {Nobody}]
  BY <1>1, <1>3, SMTT(30) DEF SmpTypeOK
<1>5. \A d \in Cores : d # Nobody
  BY NobodyIsNoCore, Zenon
<1>6. holder[l] = c
  BY <1>1, ZenonT(60) DEF LockInv
<1>7. ASSUME NEW d \in Cores, NEW m \in Locks
      PROVE  /\ holder'[m] = d <=> core_pc'[d] \in HoldsAt(m)
             /\ core_pc'[d] = IncAt(m) => tmp'[d] = value'[m]
  <2>1. CASE d = c
    BY <1>1, <1>2, <1>3, <1>4, <1>5, <2>1, ZenonT(60) DEF LockInv
  <2>2. CASE d # c
    <3>1. /\ core_pc'[d] = core_pc[d] /\ tmp'[d] = tmp[d] /\ value'[m] = value[m]
          /\ holder[m] = d <=> core_pc[d] \in HoldsAt(m)
          /\ core_pc[d] = IncAt(m) => tmp[d] = value[m]
      BY <1>1, <1>2, <1>3, <2>2, Zenon DEF LockInv
    <3>2. holder'[m] = d <=> holder[m] = d
      BY <1>4, <1>5, <1>6, <2>2, Zenon
    <3> QED BY <3>1, <3>2, Zenon
  <2> QED BY <2>1, <2>2, ZenonT(60)
<1> QED BY <1>4, <1>7, ZenonT(60) DEF LockInv

-----------------------------------------------------------------------------
(* What every core runs: hammer_counter, post_tick, stress.                *)

Working(p0, k0, p, k) ==
    /\ p0 \in Hammer \cup Stress \cup {"post"}
    /\ p \in BspPcs \cap ApPcs /\ p \notin PreHammer \cup {"last_drain", "wait_preempted"}
    /\ p = "post" => p0 = "post"
    /\ p0 \in PrePost <=> p \in PrePost
    /\ p0 \in PrePost \cup {"post", "posted"} <=> p \in PrePost \cup {"post", "posted"}
    /\ p \notin StressedPcs
    /\ InRange(p, k) /\ DispatchedAt(p, k) = DispatchedAt(p0, k0)

LEMMA WorkSteps ==
    ASSUME NEW k0 \in Nat, NEW k \in Nat
    PROVE  /\ k0 < HAMMER_ITERS => Working("hammer", k0, "hammer_inc", k0)
           /\ k0 < HAMMER_ITERS => Working("hammer_inc", k0, "hammer_drop", k0)
           /\ k < HAMMER_ITERS => Working("hammer_drop", k0, "hammer", k)
           /\ Working("hammer_drop", k0, "hammered", 0)
           /\ k < POSTS_PER_CORE => Working("post", k0, "post", k)
           /\ Working("post", k0, "posted", 0)
           /\ k0 < ITERS => Working("stress", k0, "lock_A", k0)
           /\ k0 < ITERS => Working("lock_A", k0, "inc_A", k0)
           /\ k0 < ITERS => Working("inc_A", k0, "lock_B", k0)
           /\ k0 < ITERS => Working("lock_B", k0, "inc_B", k0)
           /\ k0 < ITERS => Working("inc_B", k0, "drop_B", k0)
           /\ k0 < ITERS => Working("drop_B", k0, "drop_A", k0)
           /\ k < ITERS => Working("drop_A", k0, "stress", k)
           /\ Working("drop_A", k0, "stressed", 0)
<1> USE DEF Working, InRange, DispatchedAt, PreHammer, Hammer, PrePost, Stress, PostStress, StressedPcs,
            BspPcs, ApPcs, Drain
<1>1. /\ k0 < HAMMER_ITERS => Working("hammer", k0, "hammer_inc", k0)
      /\ k0 < HAMMER_ITERS => Working("hammer_inc", k0, "hammer_drop", k0)
      /\ k < HAMMER_ITERS => Working("hammer_drop", k0, "hammer", k)
      /\ Working("hammer_drop", k0, "hammered", 0)
  BY ZenonT(60)
<1>2. /\ k < POSTS_PER_CORE => Working("post", k0, "post", k)
      /\ Working("post", k0, "posted", 0)
  BY SMTT(30)
<1>3. /\ k0 < ITERS => Working("stress", k0, "lock_A", k0)
      /\ k0 < ITERS => Working("lock_A", k0, "inc_A", k0)
      /\ k0 < ITERS => Working("inc_A", k0, "lock_B", k0)
      /\ k0 < ITERS => Working("lock_B", k0, "inc_B", k0)
  BY ZenonT(60)
<1>4. /\ k0 < ITERS => Working("inc_B", k0, "drop_B", k0)
      /\ k0 < ITERS => Working("drop_B", k0, "drop_A", k0)
      /\ k < ITERS => Working("drop_A", k0, "stress", k)
      /\ Working("drop_A", k0, "stressed", 0)
  BY ZenonT(60)
<1> QED BY <1>1, <1>2, <1>3, <1>4, ZenonT(60)

LEMMA WorkRest ==
    ASSUME SmpInv, NEW c \in Cores, NEW p, NEW k \in Nat, Moves(c, p, k),
           Working(core_pc[c], n[c], p, k), RestOK',
           UNCHANGED <<arrived, page_vars, sched_vars, patient>>,
           queue' = queue \/ core_pc[c] = "post"
    PROVE  /\ SmpTypeOK' /\ (\A d \in Cores : LoopCounter(d)') /\ ArrivalsInv' /\ WaitsInv'
           /\ PageInv' /\ SchedInv'
<1>1. /\ UNCHANGED <<arrived, patient>> /\ UNCHANGED <<mapped, tlb, ipi, acks, freed>>
      /\ UNCHANGED <<expected, kqueue, ksched_runnable, peak>>
  BY SMTT(30) DEF page_vars, sched_vars
<1>2. p \in BspPcs /\ p \in ApPcs /\ p \in BspPcs \cup ApPcs /\ InRange(p, k)
  BY SMTT(30) DEF Working
<1>3. SmpTypeOK'
  BY <1>2, MoveTypes, SMTT(30)
<1>4. \A d \in Cores : LoopCounter(d)'
  BY <1>2, MoveLoops, ZenonT(60)
<1>5. ArrivalsInv'
  <2>1. /\ Arrives(c # 0 /\ core_pc[c] \notin PrePost, c # 0 /\ p \notin PrePost,
                   arrived["hammered"], arrived'["hammered"])
        /\ Arrives(c # 0 /\ core_pc[c] \notin PrePost \cup {"post", "posted"},
                   c # 0 /\ p \notin PrePost \cup {"post", "posted"},
                   arrived["posted"], arrived'["posted"])
    BY <1>1, SMTT(30) DEF Arrives, Working
  <2>2. Arrives(core_pc[c] \in StressedPcs, p \in StressedPcs,
                arrived["stressed"], arrived'["stressed"])
    BY <1>1, ZenonT(60) DEF Arrives, Working, StressedPcs, Hammer, Stress
  <2> QED BY <1>2, <2>1, <2>2, MoveArrivals, Zenon
<1>6. core_pc[0] \in BspPcs
  BY DEF SmpInv, SmpTypeOK
<1>7. WaitsInv' /\ PageInv'
  <2>1. CASE c = 0
    <3>1. Moves(0, p, k) /\ core_pc'[0] = p
      BY <2>1, MoveFacts, SMTT(30) DEF SmpInv
    <3>2. p \notin {"launch", "last_drain", "wait_preempted", "done"} /\ (p = "post" => core_pc[0] = "post")
      BY <2>1, SMTT(30) DEF Working, PreHammer, StressedPcs
    <3>3. \/ core_pc[0] \in BeforePage /\ p \in BeforePage \cup {"map"}
          \/ core_pc[0] \notin BeforePage \cup Mapping /\ p \notin BeforePage \cup Mapping
      <4>1. CASE core_pc[0] \in Stress
        <5>1. p \in Stress \cup {"stressed"}
          BY <1>2, <2>1, <4>1, Zenon DEF Working, Stress, BspPcs, ApPcs, PrePost, PreHammer, Hammer,
             StressedPcs, DispatchedAt, PostStress, Drain, Mapping
        <5> QED BY <4>1, <5>1, Zenon DEF BeforePage, Stress, Mapping, PostStress
      <4>2. CASE core_pc[0] \in Hammer \cup {"post"}
        <5>1. p \in Hammer \cup {"hammered", "post", "posted"}
          BY <1>2, <2>1, <4>2, SMTT(30) DEF Working, Stress, BspPcs, ApPcs, PrePost, PreHammer, Hammer,
             StressedPcs, Drain, Mapping
        <5> QED BY <4>2, <5>1, ZenonT(60) DEF BeforePage, BspPcs, Hammer, Stress, Mapping, PostStress, Drain
      <4> QED BY <2>1, <4>1, <4>2, Zenon DEF Working
    <3>4. WaitsInv'
      BY <1>1, <3>1, <3>2, BspWaits, SMTT(30)
    <3>5. PageInv'
      BY <1>1, <3>1, <3>3, PageSame, SMTT(30)
    <3> QED BY <3>4, <3>5, SMTT(30)
  <2>2. CASE c # 0
    <3>1. c \in Aps /\ core_pc'[0] = core_pc[0]
      BY <2>2, MoveFacts, CoresFinite, ZenonT(60) DEF SmpInv
    <3>2. /\ core_pc[c] \notin {"parked", "idle"} /\ (core_pc[c] \notin PrePost => p \notin PrePost)
          /\ core_pc[c] \notin PrePost \cup {"post"} => p \notin PrePost \cup {"post"}
      BY SMTT(30) DEF Working, Hammer, Stress
    <3>3. WaitsInv'
      BY <1>1, <3>1, <3>2, ApWaits, Zenon
    <3>4. PageInv'
      BY <1>1, <3>1, PageSame, SMTT(30)
    <3> QED BY <3>3, <3>4
  <2> QED BY <2>1, <2>2, SMTT(30)
<1>8. SchedInv'
  BY <1>1, SchedSame, ZenonT(60) DEF Working
<1> QED BY <1>3, <1>4, <1>5, <1>7, <1>8, Zenon

(* How a work step changes the totals.                                     *)
Contributes(p0, k0, p, k, dh, dp, da, db) ==
    /\ HammeredAt(p, k) = HammeredAt(p0, k0) + dh /\ (dh = 1 => HammeredAt(p, k) <= HAMMER_ITERS)
    /\ PostedAt(p, k) = PostedAt(p0, k0) + dp /\ (dp = 1 => PostedAt(p, k) <= POSTS_PER_CORE)
    /\ StressedAt(p, k, BeforeA) = StressedAt(p0, k0, BeforeA) + da
    /\ da = 1 => StressedAt(p, k, BeforeA) <= ITERS
    /\ StressedAt(p, k, BeforeB) = StressedAt(p0, k0, BeforeB) + db
    /\ db = 1 => StressedAt(p, k, BeforeB) <= ITERS

LEMMA WorkContributes ==
    ASSUME NEW k0 \in Nat
    PROVE  /\ k0 < HAMMER_ITERS =>
                 /\ Contributes("hammer", k0, "hammer_inc", k0, 0, 0, 0, 0)
                 /\ Contributes("hammer_inc", k0, "hammer_drop", k0, 1, 0, 0, 0)
                 /\ k0 + 1 < HAMMER_ITERS =>
                       Contributes("hammer_drop", k0, "hammer", k0 + 1, 0, 0, 0, 0)
                 /\ ~(k0 + 1 < HAMMER_ITERS) =>
                       Contributes("hammer_drop", k0, "hammered", 0, 0, 0, 0, 0)
           /\ k0 < POSTS_PER_CORE =>
                 /\ k0 + 1 < POSTS_PER_CORE => Contributes("post", k0, "post", k0 + 1, 0, 1, 0, 0)
                 /\ ~(k0 + 1 < POSTS_PER_CORE) => Contributes("post", k0, "posted", 0, 0, 1, 0, 0)
           /\ k0 < ITERS =>
                 /\ Contributes("stress", k0, "lock_A", k0, 0, 0, 0, 0)
                 /\ Contributes("lock_A", k0, "inc_A", k0, 0, 0, 0, 0)
                 /\ Contributes("inc_A", k0, "lock_B", k0, 0, 0, 1, 0)
                 /\ Contributes("lock_B", k0, "inc_B", k0, 0, 0, 0, 0)
                 /\ Contributes("inc_B", k0, "drop_B", k0, 0, 0, 0, 1)
                 /\ Contributes("drop_B", k0, "drop_A", k0, 0, 0, 0, 0)
                 /\ k0 + 1 < ITERS => Contributes("drop_A", k0, "stress", k0 + 1, 0, 0, 0, 0)
                 /\ ~(k0 + 1 < ITERS) => Contributes("drop_A", k0, "stressed", 0, 0, 0, 0, 0)
<1> USE SmpAssumption DEF Contributes, HammeredAt, PostedAt, StressedAt, BeforeA, BeforeB, PreHammer,
        Hammer, PrePost, Stress, PostStress
<1>1. ASSUME k0 < HAMMER_ITERS
      PROVE  /\ Contributes("hammer", k0, "hammer_inc", k0, 0, 0, 0, 0)
             /\ Contributes("hammer_inc", k0, "hammer_drop", k0, 1, 0, 0, 0)
             /\ k0 + 1 < HAMMER_ITERS =>
                   Contributes("hammer_drop", k0, "hammer", k0 + 1, 0, 0, 0, 0)
             /\ ~(k0 + 1 < HAMMER_ITERS) =>
                   Contributes("hammer_drop", k0, "hammered", 0, 0, 0, 0, 0)
  <2>1. Contributes("hammer", k0, "hammer_inc", k0, 0, 0, 0, 0)
    BY <1>1
  <2>2. Contributes("hammer_inc", k0, "hammer_drop", k0, 1, 0, 0, 0)
    BY <1>1
  <2>3. k0 + 1 < HAMMER_ITERS => Contributes("hammer_drop", k0, "hammer", k0 + 1, 0, 0, 0, 0)
    BY <1>1
  <2>4. ~(k0 + 1 < HAMMER_ITERS) => Contributes("hammer_drop", k0, "hammered", 0, 0, 0, 0, 0)
    BY <1>1
  <2> HIDE DEF Contributes
  <2> QED BY <2>1, <2>2, <2>3, <2>4, Zenon
<1>2. ASSUME k0 < POSTS_PER_CORE
      PROVE  /\ k0 + 1 < POSTS_PER_CORE => Contributes("post", k0, "post", k0 + 1, 0, 1, 0, 0)
             /\ ~(k0 + 1 < POSTS_PER_CORE) => Contributes("post", k0, "posted", 0, 0, 1, 0, 0)
  <2>1. k0 + 1 < POSTS_PER_CORE => Contributes("post", k0, "post", k0 + 1, 0, 1, 0, 0)
    BY <1>2
  <2>2. ~(k0 + 1 < POSTS_PER_CORE) => Contributes("post", k0, "posted", 0, 0, 1, 0, 0)
    BY <1>2
  <2> HIDE DEF Contributes
  <2> QED BY <2>1, <2>2, Zenon
<1>3. ASSUME k0 < ITERS
      PROVE  /\ Contributes("stress", k0, "lock_A", k0, 0, 0, 0, 0)
             /\ Contributes("lock_A", k0, "inc_A", k0, 0, 0, 0, 0)
             /\ Contributes("inc_A", k0, "lock_B", k0, 0, 0, 1, 0)
             /\ Contributes("lock_B", k0, "inc_B", k0, 0, 0, 0, 0)
  <2>1. Contributes("stress", k0, "lock_A", k0, 0, 0, 0, 0)
    BY <1>3
  <2>2. Contributes("lock_A", k0, "inc_A", k0, 0, 0, 0, 0)
    BY <1>3
  <2>3. Contributes("inc_A", k0, "lock_B", k0, 0, 0, 1, 0)
    BY <1>3
  <2>4. Contributes("lock_B", k0, "inc_B", k0, 0, 0, 0, 0)
    BY <1>3
  <2> HIDE DEF Contributes
  <2> QED BY <2>1, <2>2, <2>3, <2>4, Zenon
<1>4. ASSUME k0 < ITERS
      PROVE  /\ Contributes("inc_B", k0, "drop_B", k0, 0, 0, 0, 1)
             /\ Contributes("drop_B", k0, "drop_A", k0, 0, 0, 0, 0)
  <2>1. Contributes("inc_B", k0, "drop_B", k0, 0, 0, 0, 1)
    BY <1>4
  <2>2. Contributes("drop_B", k0, "drop_A", k0, 0, 0, 0, 0)
    BY <1>4
  <2> HIDE DEF Contributes
  <2> QED BY <2>1, <2>2, Zenon
<1>5. ASSUME k0 < ITERS
      PROVE  /\ k0 + 1 < ITERS => Contributes("drop_A", k0, "stress", k0 + 1, 0, 0, 0, 0)
             /\ ~(k0 + 1 < ITERS) => Contributes("drop_A", k0, "stressed", 0, 0, 0, 0, 0)
  <2>1. k0 + 1 < ITERS => Contributes("drop_A", k0, "stress", k0 + 1, 0, 0, 0, 0)
    BY <1>5
  <2>2. ~(k0 + 1 < ITERS) => Contributes("drop_A", k0, "stressed", 0, 0, 0, 0, 0)
    BY <1>5
  <2> HIDE DEF Contributes
  <2> QED BY <2>1, <2>2, Zenon
<1> HIDE DEF Contributes
<1> QED BY <1>1, <1>2, <1>3, <1>4, <1>5, ZenonT(60)

LEMMA WorkTotals ==
    ASSUME SmpInv, NEW c \in Cores, NEW p, NEW k \in Nat, Moves(c, p, k),
           NEW dh \in {0, 1}, NEW dp \in {0, 1}, NEW da \in {0, 1}, NEW db \in {0, 1},
           Contributes(core_pc[c], n[c], p, k, dh, dp, da, db),
           value'["counter"] = value["counter"] + dh, queue' + count' = queue + count + dp,
           value'["A"] = value["A"] + da, value'["B"] = value["B"] + db
    PROVE  TotalsInv'
<1>1. /\ n[c] \in Nat /\ value["counter"] \in Nat /\ value["A"] \in Nat /\ value["B"] \in Nat
      /\ queue + count \in Nat
  BY SMTT(30) DEF SmpInv, SmpTypeOK, Locks
<1>2. Counted(HammeredAt(core_pc[c], n[c]), HammeredAt(p, k),
              value["counter"], value'["counter"], HAMMER_ITERS)
  <2>1. HammeredAt(core_pc[c], n[c]) \in Nat
    BY <1>1, AtTypes, ZenonT(60)
  <2>2. /\ HammeredAt(p, k) = HammeredAt(core_pc[c], n[c]) + dh
        /\ dh = 1 => HammeredAt(p, k) <= HAMMER_ITERS
    BY ZenonT(60) DEF Contributes
  <2> QED BY <1>1, <2>1, <2>2, CountedBy, ZenonT(60)
<1>3. Counted(PostedAt(core_pc[c], n[c]), PostedAt(p, k),
              queue + count, queue' + count', POSTS_PER_CORE)
  <2>1. PostedAt(core_pc[c], n[c]) \in Nat
    BY <1>1, AtTypes, Zenon
  <2>2. /\ PostedAt(p, k) = PostedAt(core_pc[c], n[c]) + dp
        /\ dp = 1 => PostedAt(p, k) <= POSTS_PER_CORE
    BY Zenon DEF Contributes
  <2> QED BY <1>1, <2>1, <2>2, CountedBy, ZenonT(60)
<1>4. Counted(StressedAt(core_pc[c], n[c], BeforeA), StressedAt(p, k, BeforeA),
              value["A"], value'["A"], ITERS)
  <2>1. StressedAt(core_pc[c], n[c], BeforeA) \in Nat
    BY <1>1, AtTypes, Zenon
  <2>2. /\ StressedAt(p, k, BeforeA) = StressedAt(core_pc[c], n[c], BeforeA) + da
        /\ da = 1 => StressedAt(p, k, BeforeA) <= ITERS
    BY Zenon DEF Contributes
  <2> QED BY <1>1, <2>1, <2>2, CountedBy, ZenonT(60)
<1>5. Counted(StressedAt(core_pc[c], n[c], BeforeB), StressedAt(p, k, BeforeB),
              value["B"], value'["B"], ITERS)
  <2>1. StressedAt(core_pc[c], n[c], BeforeB) \in Nat
    BY <1>1, AtTypes, Zenon
  <2>2. /\ StressedAt(p, k, BeforeB) = StressedAt(core_pc[c], n[c], BeforeB) + db
        /\ db = 1 => StressedAt(p, k, BeforeB) <= ITERS
    BY Zenon DEF Contributes
  <2> QED BY <1>1, <2>1, <2>2, CountedBy, ZenonT(60)
<1> QED BY <1>2, <1>3, <1>4, <1>5, MoveTotals, ZenonT(60)

(* The three steps of a critical section, in either loop.                  *)
Acquiring(p0, p, l) ==
    /\ p = IncAt(l) /\ \A m \in Locks : p \in HoldsAt(m) <=> m = l \/ p0 \in HoldsAt(m)
Incrementing(p0, p, l) ==
    /\ p0 = IncAt(l) /\ \A m \in Locks : (p \in HoldsAt(m) <=> p0 \in HoldsAt(m)) /\ p # IncAt(m)
Releasing(p0, p, l) ==
    /\ p0 \in HoldsAt(l)
    /\ \A m \in Locks : (p \in HoldsAt(m) <=> m # l /\ p0 \in HoldsAt(m)) /\ p # IncAt(m)

LEMMA SectionSteps ==
    /\ Acquiring("hammer", "hammer_inc", "counter") /\ Incrementing("hammer_inc", "hammer_drop", "counter")
    /\ Releasing("hammer_drop", "hammer", "counter") /\ Releasing("hammer_drop", "hammered", "counter")
    /\ Acquiring("lock_A", "inc_A", "A") /\ Incrementing("inc_A", "lock_B", "A")
    /\ Acquiring("lock_B", "inc_B", "B") /\ Incrementing("inc_B", "drop_B", "B")
    /\ Releasing("drop_B", "drop_A", "B")
    /\ Releasing("drop_A", "stress", "A") /\ Releasing("drop_A", "stressed", "A")
<1> USE DEF Acquiring, Incrementing, Releasing, HoldsAt, IncAt, Locks, Stress
<1>1. /\ Acquiring("hammer", "hammer_inc", "counter") /\ Incrementing("hammer_inc", "hammer_drop", "counter")
      /\ Releasing("hammer_drop", "hammer", "counter") /\ Releasing("hammer_drop", "hammered", "counter")
  BY SMTT(30)
<1>2. /\ Acquiring("lock_A", "inc_A", "A") /\ Incrementing("inc_A", "lock_B", "A")
      /\ Acquiring("lock_B", "inc_B", "B") /\ Incrementing("inc_B", "drop_B", "B")
  BY SMTT(30)
<1>3. /\ Releasing("drop_B", "drop_A", "B")
      /\ Releasing("drop_A", "stress", "A") /\ Releasing("drop_A", "stressed", "A")
  BY SMTT(30)
<1> QED BY <1>1, <1>2, <1>3, ZenonT(60)

(* What a step of a critical section leaves, and by how much it raises     *)
(* the counter behind each lock.                                           *)
Section(dh, da, db) ==
    /\ LockInv' /\ tmp' \in [Cores -> Nat] /\ holder' \in [Locks -> Cores \cup {Nobody}]
    /\ value' \in [Locks -> Nat]
    /\ value'["counter"] = value["counter"] + dh
    /\ value'["A"] = value["A"] + da /\ value'["B"] = value["B"] + db

LEMMA SectionAcquires ==
    ASSUME SmpInv, NEW c \in Cores, NEW l \in Locks, NEW p, NEW k, Moves(c, p, k),
           Acquires(c, l), Acquiring(core_pc[c], p, l)
    PROVE  Section(0, 0, 0)
<1>1. LockInv' /\ tmp' \in [Cores -> Nat] /\ holder' \in [Locks -> Cores \cup {Nobody}]
  BY AcquireLock, SMTT(30) DEF Acquiring
<1>2. value' = value /\ value \in [Locks -> Nat] /\ {"counter", "A", "B"} \subseteq Locks
  BY SMTT(30) DEF Acquires, SmpInv, SmpTypeOK, Locks
<1> QED BY <1>1, <1>2, SMTT(30) DEF Section

LEMMA SectionIncrements ==
    ASSUME SmpInv, NEW c \in Cores, NEW l \in Locks, NEW p, NEW k, Moves(c, p, k),
           Increments(c, l), Incrementing(core_pc[c], p, l)
    PROVE  Section(IF l = "counter" THEN 1 ELSE 0, IF l = "A" THEN 1 ELSE 0, IF l = "B" THEN 1 ELSE 0)
<1>1. core_pc[c] = IncAt(l) /\ Lockless(c, p)
  BY SMTT(30) DEF Incrementing, Lockless
<1>2. /\ LockInv' /\ tmp' \in [Cores -> Nat] /\ value' \in [Locks -> Nat]
      /\ value'[l] = value[l] + 1 /\ \A m \in Locks : m # l => value'[m] = value[m]
  BY <1>1, IncrementLocked, SMTT(30)
<1>3. holder' \in [Locks -> Cores \cup {Nobody}] /\ value \in [Locks -> Nat]
  BY SMTT(30) DEF SmpInv, SmpTypeOK, Increments
<1> QED BY <1>2, <1>3, SMTT(30) DEF Section, Locks

LEMMA SectionReleases ==
    ASSUME SmpInv, NEW c \in Cores, NEW l \in Locks, NEW saved, NEW p, NEW k, Moves(c, p, k),
           Releases(c, l, saved), Releasing(core_pc[c], p, l)
    PROVE  Section(0, 0, 0)
<1>1. LockInv' /\ holder' \in [Locks -> Cores \cup {Nobody}]
  BY ReleaseLock, SMTT(30) DEF Releasing
<1>2. /\ value' = value /\ value \in [Locks -> Nat] /\ {"counter", "A", "B"} \subseteq Locks
      /\ tmp' = tmp /\ tmp \in [Cores -> Nat]
  BY SMTT(30) DEF Releases, SmpInv, SmpTypeOK, Locks
<1> QED BY <1>1, <1>2, SMTT(30) DEF Section

LEMMA SectionStep ==
    ASSUME SmpInv, NEW c \in Cores, NEW p, NEW k \in Nat, Moves(c, p, k),
           Working(core_pc[c], n[c], p, k),
           NEW dh \in {0, 1}, NEW da \in {0, 1}, NEW db \in {0, 1},
           Contributes(core_pc[c], n[c], p, k, dh, 0, da, db), Section(dh, da, db),
           UNCHANGED <<arrived, page_vars, sched_vars, patient>>, UNCHANGED <<queue, count>>
    PROVE  SmpInv'
<1>1. RestOK /\ queue \in Nat /\ count \in Nat
  BY SMTT(30) DEF SmpInv, SmpTypeOK, RestOK
<1>2. UNCHANGED <<arrived, mapped, tlb, ipi, acks, freed, expected, kqueue, ksched_runnable, peak>>
  BY ZenonT(60) DEF page_vars, sched_vars
<1>3. RestOK'
  BY <1>1, <1>2, ZenonT(60) DEF RestOK, Section
<1>4. TotalsInv'
  <2>1. queue' + count' = queue + count + 0
    BY <1>1, SMTT(30)
  <2> QED BY <2>1, WorkTotals, ZenonT(60) DEF Section
<1> QED BY <1>3, <1>4, WorkRest, ZenonT(60) DEF SmpInv, Section

(* hammer_counter.                                                         *)
LEMMA HammerStep ==
    ASSUME SmpInv, NEW c \in Cores, hammer(c)
    PROVE  SmpInv'
<1>1. /\ core_pc \in [Cores -> BspPcs \cup ApPcs] /\ n \in [Cores -> Nat] /\ n[c] \in Nat
      /\ core_pc[c] \in Hammer /\ LoopCounter(c)
      /\ UNCHANGED <<arrived, page_vars, sched_vars, patient>> /\ UNCHANGED <<queue, count>>
      /\ "counter" \in Locks /\ "A" \in Locks /\ "B" \in Locks
  BY ZenonT(60) DEF SmpInv, SmpTypeOK, hammer, Hammer, Locks
<1>2. n[c] < HAMMER_ITERS
  BY <1>1, SMTT(30) DEF LoopCounter
<1>3. ASSUME NEW p, Go(c, p), UNCHANGED n PROVE Moves(c, p, n[c])
  BY <1>1, <1>3, SMTT(30) DEF Go, Moves
<1>4. CASE core_pc[c] = "hammer"
  <2>1. Acquires(c, "counter") /\ Moves(c, "hammer_inc", n[c])
    BY <1>3, <1>4, SMTT(30) DEF hammer
  <2>2. /\ Working("hammer", n[c], "hammer_inc", n[c])
        /\ Contributes("hammer", n[c], "hammer_inc", n[c], 0, 0, 0, 0)
    BY <1>1, <1>2, WorkSteps, WorkContributes, ZenonT(60)
  <2>3. Section(0, 0, 0)
    BY <1>1, <1>4, <2>1, SectionSteps, SectionAcquires, Zenon
  <2> QED BY <1>1, <1>4, <2>1, <2>2, <2>3, SectionStep, Zenon
<1>5. CASE core_pc[c] = "hammer_inc"
  <2>1. Increments(c, "counter") /\ Moves(c, "hammer_drop", n[c])
    BY <1>3, <1>5, SMTT(30) DEF hammer
  <2>2. /\ Working("hammer_inc", n[c], "hammer_drop", n[c])
        /\ Contributes("hammer_inc", n[c], "hammer_drop", n[c], 1, 0, 0, 0)
    BY <1>1, <1>2, WorkSteps, WorkContributes, ZenonT(60)
  <2>3. Section(1, 0, 0)
    BY <1>1, <1>5, <2>1, SectionSteps, SectionIncrements, Zenon
  <2> QED BY <1>1, <1>5, <2>1, <2>2, <2>3, SectionStep, SMTT(30)
<1>6. CASE core_pc[c] = "hammer_drop"
  <2>1. PICK p \in {"hammer", "hammered"}, k \in Nat :
           /\ Moves(c, p, k)
           /\ \/ p = "hammer" /\ k = n[c] + 1 /\ n[c] + 1 < HAMMER_ITERS
              \/ p = "hammered" /\ k = 0 /\ ~(n[c] + 1 < HAMMER_ITERS)
    BY <1>1, <1>6, SMTT(30) DEF hammer, Moves, Go
  <2>2. Releases(c, "counter", 0)
    BY <1>6, SMTT(30) DEF hammer
  <2>3. Working("hammer_drop", n[c], p, k) /\ Contributes("hammer_drop", n[c], p, k, 0, 0, 0, 0)
    BY <1>1, <1>2, <2>1, WorkSteps, WorkContributes, ZenonT(60)
  <2>4. Releasing("hammer_drop", p, "counter")
    BY <2>1, SectionSteps, SMTT(30)
  <2>5. Section(0, 0, 0)
    BY <1>1, <1>6, <2>1, <2>2, <2>4, SectionReleases, SMTT(30)
  <2> QED BY <1>1, <1>6, <2>1, <2>3, <2>5, SectionStep, Zenon
<1> QED BY <1>1, <1>4, <1>5, <1>6, SMTT(30) DEF hammer

(* lockorder::stress: A, then B inside it.                                 *)
LEMMA StressStep ==
    ASSUME SmpInv, NEW c \in Cores, stress(c)
    PROVE  SmpInv'
<1>1. /\ core_pc \in [Cores -> BspPcs \cup ApPcs] /\ n \in [Cores -> Nat] /\ n[c] \in Nat
      /\ core_pc[c] \in Stress /\ LoopCounter(c)
      /\ UNCHANGED <<arrived, page_vars, sched_vars, patient>> /\ UNCHANGED <<queue, count>>
      /\ "counter" \in Locks /\ "A" \in Locks /\ "B" \in Locks
  BY ZenonT(60) DEF SmpInv, SmpTypeOK, stress, Stress, Locks
<1>2. n[c] < ITERS
  BY <1>1, Zenon DEF LoopCounter
<1>3. ASSUME NEW p, Go(c, p), UNCHANGED n PROVE Moves(c, p, n[c])
  BY <1>1, <1>3 DEF Go, Moves
<1>4. CASE core_pc[c] = "stress"
  <2>1. UNCHANGED lock_vars /\ Moves(c, "lock_A", n[c])
    BY <1>3, <1>4, SMTT(30) DEF stress
  <2>2. /\ Working("stress", n[c], "lock_A", n[c])
        /\ Contributes("stress", n[c], "lock_A", n[c], 0, 0, 0, 0)
    BY <1>1, <1>2, WorkSteps, WorkContributes, ZenonT(60)
  <2>3. UNCHANGED <<holder, value, tmp>> /\ Lockless(c, "lock_A")
    BY <1>4, <2>1, NoLockPcs, Zenon DEF lock_vars, Lockless
  <2>4. LockInv'
    BY <2>1, <2>3, LocksSame, Zenon
  <2>5. /\ tmp \in [Cores -> Nat] /\ holder \in [Locks -> Cores \cup {Nobody}]
        /\ value \in [Locks -> Nat]
    BY Zenon DEF SmpInv, SmpTypeOK
  <2>6. Section(0, 0, 0)
    BY <1>1, <2>3, <2>4, <2>5, SMTT(30) DEF Section
  <2> QED BY <1>1, <1>4, <2>1, <2>2, <2>6, SectionStep, Zenon
<1>5. CASE core_pc[c] = "lock_A"
  <2>1. Acquires(c, "A") /\ Moves(c, "inc_A", n[c])
    BY <1>3, <1>5, SMTT(30) DEF stress
  <2>2. /\ Working("lock_A", n[c], "inc_A", n[c])
        /\ Contributes("lock_A", n[c], "inc_A", n[c], 0, 0, 0, 0)
    BY <1>1, <1>2, WorkSteps, WorkContributes, ZenonT(60)
  <2>3. Section(0, 0, 0)
    BY <1>1, <1>5, <2>1, SectionSteps, SectionAcquires, Zenon
  <2> QED BY <1>1, <1>5, <2>1, <2>2, <2>3, SectionStep, Zenon
<1>6. CASE core_pc[c] = "inc_A"
  <2>1. Increments(c, "A") /\ Moves(c, "lock_B", n[c])
    BY <1>3, <1>6, SMTT(30) DEF stress
  <2>2. /\ Working("inc_A", n[c], "lock_B", n[c])
        /\ Contributes("inc_A", n[c], "lock_B", n[c], 0, 0, 1, 0)
    BY <1>1, <1>2, WorkSteps, WorkContributes, ZenonT(60)
  <2>3. Section(0, 1, 0)
    BY <1>1, <1>6, <2>1, SectionSteps, SectionIncrements, Zenon
  <2> QED BY <1>1, <1>6, <2>1, <2>2, <2>3, SectionStep, Zenon
<1>7. CASE core_pc[c] = "lock_B"
  <2>1. Acquires(c, "B") /\ Moves(c, "inc_B", n[c])
    BY <1>3, <1>7, SMTT(30) DEF stress
  <2>2. /\ Working("lock_B", n[c], "inc_B", n[c])
        /\ Contributes("lock_B", n[c], "inc_B", n[c], 0, 0, 0, 0)
    BY <1>1, <1>2, WorkSteps, WorkContributes, ZenonT(60)
  <2>3. Section(0, 0, 0)
    BY <1>1, <1>7, <2>1, SectionSteps, SectionAcquires, Zenon
  <2> QED BY <1>1, <1>7, <2>1, <2>2, <2>3, SectionStep, Zenon
<1>8. CASE core_pc[c] = "inc_B"
  <2>1. Increments(c, "B") /\ Moves(c, "drop_B", n[c])
    BY <1>3, <1>8, SMTT(30) DEF stress
  <2>2. /\ Working("inc_B", n[c], "drop_B", n[c])
        /\ Contributes("inc_B", n[c], "drop_B", n[c], 0, 0, 0, 1)
    BY <1>1, <1>2, WorkSteps, WorkContributes, ZenonT(60)
  <2>3. Section(0, 0, 1)
    BY <1>1, <1>8, <2>1, SectionSteps, SectionIncrements, Zenon
  <2> QED BY <1>1, <1>8, <2>1, <2>2, <2>3, SectionStep, Zenon
<1>9. CASE core_pc[c] = "drop_B"
  <2>1. Releases(c, "B", rank["A"]) /\ Moves(c, "drop_A", n[c])
    BY <1>3, <1>9, SMTT(30) DEF stress
  <2>2. /\ Working("drop_B", n[c], "drop_A", n[c])
        /\ Contributes("drop_B", n[c], "drop_A", n[c], 0, 0, 0, 0)
    BY <1>1, <1>2, WorkSteps, WorkContributes, ZenonT(60)
  <2>3. Section(0, 0, 0)
    BY <1>1, <1>9, <2>1, SectionSteps, SectionReleases, Zenon
  <2> QED BY <1>1, <1>9, <2>1, <2>2, <2>3, SectionStep, Zenon
<1>10. CASE core_pc[c] = "drop_A"
  <2>1. PICK p \in {"stress", "stressed"}, k \in Nat :
           /\ Moves(c, p, k)
           /\ \/ p = "stress" /\ k = n[c] + 1 /\ n[c] + 1 < ITERS
              \/ p = "stressed" /\ k = 0 /\ ~(n[c] + 1 < ITERS)
    BY <1>1, <1>10, SMTT(30) DEF stress, Moves, Go
  <2>2. Releases(c, "A", 0)
    BY <1>10, SMTT(30) DEF stress
  <2>3. Working("drop_A", n[c], p, k) /\ Contributes("drop_A", n[c], p, k, 0, 0, 0, 0)
    BY <1>1, <1>2, <2>1, WorkSteps, WorkContributes, ZenonT(60)
  <2>4. Releasing("drop_A", p, "A")
    BY <2>1, SectionSteps, SMTT(30)
  <2>5. Section(0, 0, 0)
    BY <1>1, <1>10, <2>1, <2>2, <2>4, SectionReleases, Zenon
  <2> QED BY <1>1, <1>10, <2>1, <2>3, <2>5, SectionStep, Zenon
<1> QED BY <1>1, <1>4, <1>5, <1>6, <1>7, <1>8, <1>9, <1>10, ZenonT(60) DEF stress

(* post_tick: one more post, in the queue.                                 *)
LEMMA PostStep ==
    ASSUME SmpInv, NEW c \in Cores, post_tick(c)
    PROVE  SmpInv'
<1>1. /\ core_pc \in [Cores -> BspPcs \cup ApPcs] /\ n \in [Cores -> Nat] /\ n[c] \in Nat
      /\ value \in [Locks -> Nat] /\ RestOK /\ LoopCounter(c)
      /\ queue \in Nat /\ count \in Nat
  BY SMTT(30) DEF SmpInv, SmpTypeOK, RestOK
<1>2. /\ core_pc[c] = "post" /\ queue' = queue + 1 /\ count' = count
      /\ UNCHANGED <<arrived, page_vars, sched_vars, patient>> /\ UNCHANGED lock_vars
  BY ZenonT(60) DEF post_tick
<1>3. /\ UNCHANGED <<arrived, mapped, tlb, ipi, acks, freed, expected, kqueue, ksched_runnable, peak>>
      /\ UNCHANGED <<holder, value, tmp>>
  BY <1>2, SMTT(30) DEF page_vars, sched_vars, lock_vars
<1>4. PICK p \in {"post", "posted"}, k \in Nat :
         /\ Moves(c, p, k)
         /\ \/ p = "post" /\ k = n[c] + 1 /\ n[c] + 1 < POSTS_PER_CORE
            \/ p = "posted" /\ k = 0 /\ ~(n[c] + 1 < POSTS_PER_CORE)
  <2>1. /\ core_pc' = [core_pc EXCEPT ![c] = IF n[c] + 1 < POSTS_PER_CORE THEN "post" ELSE "posted"]
        /\ n' = [n EXCEPT ![c] = IF n[c] + 1 < POSTS_PER_CORE THEN n[c] + 1 ELSE 0]
    BY <1>1, SMTT(30) DEF post_tick, Go
  <2>2. CASE n[c] + 1 < POSTS_PER_CORE
    <3>1. Moves(c, "post", n[c] + 1)
      BY <2>1, <2>2, SMTT(30) DEF Moves
    <3> QED BY <1>1, <2>2, <3>1, SMTT(30)
  <2>3. CASE ~(n[c] + 1 < POSTS_PER_CORE)
    <3>1. Moves(c, "posted", 0)
      BY <2>1, <2>3, SMTT(30) DEF Moves
    <3> QED BY <2>3, <3>1, SMTT(30)
  <2> QED BY <2>2, <2>3, SMTT(30)
<1>5. Working("post", n[c], p, k) /\ Contributes("post", n[c], p, k, 0, 1, 0, 0)
  <2>1. n[c] < POSTS_PER_CORE
    BY <1>1, <1>2, Zenon DEF LoopCounter
  <2> QED BY <1>1, <1>4, <2>1, WorkSteps, WorkContributes, ZenonT(60)
<1>6. RestOK'
  BY <1>1, <1>2, <1>3, SMTT(30) DEF RestOK
<1>7. LockInv'
  <2>1. Lockless(c, p)
    BY <1>2, <1>4, NoLockPcs, Zenon DEF Lockless
  <2> QED BY <1>3, <1>4, <2>1, LocksSame, SMTT(30)
<1>8. TotalsInv'
  <2>1. /\ value'["counter"] = value["counter"] + 0 /\ queue' + count' = queue + count + 1
        /\ value'["A"] = value["A"] + 0 /\ value'["B"] = value["B"] + 0
    BY <1>1, <1>2, <1>3, SMTT(30) DEF Locks
  <2> QED BY <1>1, <1>2, <1>4, <1>5, <2>1, WorkTotals, ZenonT(60)
<1> QED BY <1>1, <1>2, <1>4, <1>5, <1>6, <1>7, <1>8, WorkRest, Zenon DEF SmpInv

-----------------------------------------------------------------------------
(* The rest of an application processor.                                   *)

(* ksched_dispatch takes the core's next post.                             *)
LEMMA DispatchDrives ==
    ASSUME NEW T \in Nat \ {0}, NEW d \in Nat, d < 2 * T, NEW r, NEW pk,
           r = IF d <= T THEN d ELSE 2 * T - d, pk = IF d <= T THEN d ELSE T,
           NEW ready \in BOOLEAN, ready <=> d + 1 <= T
    PROVE  /\ (IF ready THEN r + 1 ELSE IF r > 0 THEN r - 1 ELSE 0)
                 = IF d + 1 <= T THEN d + 1 ELSE 2 * T - (d + 1)
           /\ (IF ready /\ r + 1 > pk THEN r + 1 ELSE pk) = IF d + 1 <= T THEN d + 1 ELSE T
<1>1. CASE d + 1 <= T
  BY <1>1, SMTT(30)
<1>2. CASE ~(d + 1 <= T)
  <2>1. d >= T /\ r = 2 * T - d /\ pk = T
    BY <1>2, SMTT(30)
  <2> QED BY <1>2, <2>1, SMTT(30)
<1> QED BY <1>1, <1>2, SMTT(30)

LEMMA DispatchStep ==
    ASSUME SmpInv, NEW c \in Aps, ksched_dispatch(c)
    PROVE  SmpInv'
<1>1. /\ core_pc \in [Cores -> BspPcs \cup ApPcs] /\ n \in [Cores -> Nat]
      /\ c \in Cores /\ c # 0 /\ n[c] \in Nat /\ RestOK
      /\ kqueue \in [Aps -> Seq({"Ready", "Unready"})]
      /\ ksched_runnable \in [Aps -> Nat] /\ peak \in [Aps -> Nat]
  BY CoresFinite, Zenon DEF SmpInv, SmpTypeOK, RestOK
<1>2. /\ core_pc[c] = "ksched" /\ Moves(c, "ksched", n[c] + 1) /\ core_pc' = core_pc
      /\ UNCHANGED <<lock_vars, page_vars, queue, count, arrived, expected, patient>>
  BY <1>1, SMTT(30) DEF ksched_dispatch, Moves
<1>3. /\ UNCHANGED <<holder, value, tmp>> /\ UNCHANGED <<queue, count, arrived, expected, patient>>
      /\ UNCHANGED <<mapped, tlb, ipi, acks, freed>>
  BY <1>2, SMTT(30) DEF lock_vars, page_vars
<1>4. PICK d \in Nat, q \in Seq({"Ready", "Unready"}), r \in Nat, pk \in Nat :
         d = n[c] /\ q = kqueue[c] /\ r = ksched_runnable[c] /\ pk = peak[c]
  BY <1>1
<1>5. PICK ready \in BOOLEAN : ready <=> Head(q) = "Ready"
  BY ZenonT(60)
<1>6. /\ kqueue' = [kqueue EXCEPT ![c] = Tail(q)]
      /\ ksched_runnable' = [ksched_runnable EXCEPT ![c] = IF ready THEN r + 1 ELSE IF r > 0 THEN r - 1 ELSE 0]
      /\ peak' = [peak EXCEPT ![c] = IF ready /\ r + 1 > pk THEN r + 1 ELSE pk]
      /\ q # <<>> /\ expected[c] > 0
  BY <1>1, <1>4, <1>5, Zenon DEF ksched_dispatch
<1>7. Tail(q) \in Seq({"Ready", "Unready"}) /\ Len(Tail(q)) = Len(q) - 1 /\ Head(q) = q[1]
      /\ Len(q) \in Nat \ {0} /\ \A i \in 1 .. Len(q) - 1 : Tail(q)[i] = q[i + 1]
  BY <1>6, SMTT(30)
<1>8. RestOK'
  <2>1. kqueue' \in [Aps -> Seq({"Ready", "Unready"})]
    BY <1>1, <1>6, <1>7, Zenon
  <2>2. ksched_runnable' \in [Aps -> Nat] /\ peak' \in [Aps -> Nat]
    BY <1>1, <1>4, <1>6, SMTT(30)
  <2> QED BY <1>1, <1>3, <2>1, <2>2, Zenon DEF RestOK
<1>9. "ksched" \in ApPcs /\ "ksched" \in BspPcs \cup ApPcs
  BY SMTT(30) DEF ApPcs
<1>10. SmpTypeOK'
  BY <1>1, <1>2, <1>8, <1>9, MoveTypes, SMTT(30)
<1>11. \A e \in Cores : LoopCounter(e)'
  <2>1. InRange("ksched", n[c] + 1)
    BY SMTT(30) DEF InRange, Hammer, Stress
  <2> QED BY <1>1, <1>2, <2>1, MoveLoops, Zenon
<1>12. LockInv'
  <2>1. Lockless(c, "ksched")
    BY <1>2, NoLockPcs, Zenon DEF Lockless
  <2> QED BY <1>1, <1>2, <1>3, <2>1, LocksSame, Zenon
<1>13. TotalsInv'
  <2>1. Quiet(c, "ksched", n[c] + 1)
    BY <1>2, ZenonT(60) DEF Quiet, HammeredAt, PostedAt, StressedAt, BeforeA, BeforeB, PreHammer, Hammer, PrePost,
                Stress, PostStress
  <2> QED BY <1>1, <1>2, <1>3, <2>1, QuietTotals, SMTT(30)
<1>14. ArrivalsInv'
  <2>1. ArrivesAt("ksched", "ksched", arrived, arrived')
    BY <1>3, SMTT(30) DEF ArrivesAt, Arrives
  <2> QED BY <1>1, <1>2, <1>9, <2>1, MoveArrivals, ZenonT(60) DEF ArrivesAt
<1>15. WaitsInv'
  BY <1>2, <1>3, ApWaits, ZenonT(60) DEF PrePost, PreHammer, Hammer
<1>16. PageInv'
  BY <1>2, <1>3, PageSame, SMTT(30)
<1>17. SchedInv'
  <2>1. ASSUME NEW e \in Aps PROVE Driven(e, DispatchedAt(core_pc[e], n[e]))
    BY Zenon DEF SmpInv, SchedInv
  <2>2. Driven(c, DispatchedAt(core_pc[c], n[c]))'
    <3>1. PICK T \in Nat \ {0} : T = TASKS_PER_CORE
      BY SmpAssumption, Zenon
    <3>2. DispatchedAt(core_pc[c], n[c]) = d /\ DispatchedAt(core_pc'[c], n'[c]) = d + 1
      BY <1>1, <1>2, <1>4, SMTT(30) DEF DispatchedAt, Moves
    <3>3. /\ expected[c] = 2 * T /\ d + Len(q) = 2 * T /\ 2 * T # 0
          /\ \A i \in 1 .. Len(q) : q[i] = Posts[d + i]
          /\ r = IF d <= T THEN d ELSE 2 * T - d
          /\ pk = IF d <= T THEN d ELSE T
      <4>1. Driven(c, d)
        BY <2>1, <3>2, ZenonT(60)
      <4>2. /\ expected[c] \in {0, 2 * T} /\ (expected[c] # 0 => d + Len(q) = 2 * T)
            /\ \A i \in 1 .. Len(q) : q[i] = Posts[d + i]
            /\ r = IF d <= T THEN d ELSE 2 * T - d
            /\ pk = IF d <= T THEN d ELSE T
        BY <1>4, <3>1, <4>1, Zenon DEF Driven
      <4>3. expected[c] # 0
        BY <1>6, SMTT(30)
      <4> QED BY <3>1, <4>2, <4>3, ZenonT(60)
    <3>4. d + 1 \in 1 .. 2 * T /\ d < 2 * T
      <4>1. PICK l \in Nat \ {0} : l = Len(q)
        BY <1>7, ZenonT(60)
      <4>2. d + l = 2 * T
        BY <3>3, <4>1, SMTT(30)
      <4> QED BY <4>2, SMTT(30)
    <3>5. ready <=> d + 1 <= T
      <4>1. Head(q) = Posts[d + 1]
        BY <1>7, <3>3, SMTT(30)
      <4>2. Posts[d + 1] = IF d + 1 <= T THEN "Ready" ELSE "Unready"
        BY <3>1, <3>4, Zenon DEF Posts
      <4> QED BY <1>5, <4>1, <4>2, Zenon
    <3>6. /\ kqueue'[c] = Tail(q) /\ expected'[c] = 2 * T
          /\ ksched_runnable'[c] = IF d + 1 <= T THEN d + 1 ELSE 2 * T - (d + 1)
          /\ peak'[c] = IF d + 1 <= T THEN d + 1 ELSE T
      <4>1. /\ kqueue'[c] = Tail(q) /\ expected'[c] = 2 * T
            /\ ksched_runnable'[c] = IF ready THEN r + 1 ELSE IF r > 0 THEN r - 1 ELSE 0
            /\ peak'[c] = IF ready /\ r + 1 > pk THEN r + 1 ELSE pk
        BY <1>1, <1>3, <1>6, <3>3, Zenon
      <4>2. /\ r = IF d <= T THEN d ELSE 2 * T - d
            /\ pk = IF d <= T THEN d ELSE T
        BY <3>3, Zenon
      <4>3. /\ (IF ready THEN r + 1 ELSE IF r > 0 THEN r - 1 ELSE 0)
                  = IF d + 1 <= T THEN d + 1 ELSE 2 * T - (d + 1)
            /\ (IF ready /\ r + 1 > pk THEN r + 1 ELSE pk) = IF d + 1 <= T THEN d + 1 ELSE T
        BY <3>4, <3>5, <4>2, DispatchDrives, SMTT(30)
      <4> QED BY <4>1, <4>3, Zenon
    <3>7. d + 1 + Len(Tail(q)) = 2 * T
      BY <1>7, <3>1, <3>3, SMTT(30)
    <3>8. ASSUME NEW i \in 1 .. Len(Tail(q)) PROVE Tail(q)[i] = Posts[(d + 1) + i]
      <4>1. Tail(q)[i] = q[i + 1] /\ i + 1 \in 1 .. Len(q)
        BY <1>7, <3>8
      <4>2. q[i + 1] = Posts[d + (i + 1)]
        BY <3>3, <4>1, Zenon
      <4>3. d + (i + 1) = (d + 1) + i
        BY <3>8, <1>7, SMTT(30)
      <4> QED BY <4>1, <4>2, <4>3, Zenon
    <3>9. Driven(c, d + 1)'
      BY <3>1, <3>3, <3>6, <3>7, <3>8, ZenonT(60) DEF Driven
    <3> QED BY <3>2, <3>9, Zenon
  <2>3. ASSUME NEW e \in Aps, e # c PROVE Driven(e, DispatchedAt(core_pc[e], n[e]))'
    <3>1. /\ kqueue'[e] = kqueue[e] /\ ksched_runnable'[e] = ksched_runnable[e]
          /\ peak'[e] = peak[e] /\ expected'[e] = expected[e]
      BY <1>1, <1>3, <1>6, <2>3, Zenon
    <3>2. e \in Cores
      BY CoresFinite, SMTT(30)
    <3>3. core_pc'[e] = core_pc[e] /\ n'[e] = n[e]
      BY <1>1, <1>2, <2>3, <3>2, Zenon DEF Moves
    <3> QED BY <2>1, <3>1, <3>3, ZenonT(60) DEF Driven
  <2> QED BY <2>2, <2>3, ZenonT(60) DEF SchedInv
<1> QED BY <1>10, <1>11, <1>12, <1>13, <1>14, <1>15, <1>16, <1>17, Zenon DEF SmpInv

(* The core's own timer leaves the bring-up alone.                         *)
LEMMA TickStep ==
    ASSUME SmpInv, NEW c \in Aps, record_tick(c)
    PROVE  SmpInv'
<1>1. /\ UNCHANGED <<core_pc, n, holder, value, tmp, arrived, patient>> /\ UNCHANGED <<queue, count>>
      /\ UNCHANGED <<mapped, tlb, ipi, acks, freed>>
      /\ UNCHANGED <<expected, kqueue, ksched_runnable, peak>>
  BY SMTT(30) DEF record_tick, lock_vars, page_vars, sched_vars
<1>2. SmpTypeOK'
  BY <1>1, ZenonT(60) DEF SmpInv, SmpTypeOK
<1>3. PageInv'
  BY <1>1, PageSame, Zenon
<1> QED BY <1>1, <1>2, <1>3, StaysPut, Zenon DEF SmpInv

(* The interrupt takes the core off the list and counts it.                *)
LEMMA ShootdownIrqStep ==
    ASSUME SmpInv, NEW c \in Aps, tlb_shootdown_irq(c)
    PROVE  SmpInv'
<1>1. /\ UNCHANGED <<core_pc, n, holder, value, tmp, arrived, patient>> /\ UNCHANGED <<queue, count>>
      /\ UNCHANGED <<mapped, freed>>
      /\ UNCHANGED <<expected, kqueue, ksched_runnable, peak>>
      /\ c \in ipi /\ ipi' = ipi \ {c} /\ tlb' = tlb \ {c} /\ acks' = acks + 1
  BY DEF tlb_shootdown_irq, lock_vars, sched_vars
<1>2. SmpTypeOK /\ PageInv
  BY SMTT(30) DEF SmpInv
<1>3. SmpTypeOK'
  BY <1>1, <1>2, SMTT(30) DEF SmpTypeOK
<1>4. ASSUME core_pc[0] = "wait_acks" PROVE acks' = Cardinality(Aps \ ipi')
  <2>1. acks = Cardinality(Aps \ ipi)
    BY <1>2, <1>4, SMTT(30) DEF PageInv
  <2>2. IsFiniteSet(Aps \ ipi)
    BY CoresFinite, FS_Difference, Zenon
  <2>3. c \notin Aps \ ipi
    BY <1>1
  <2>4. Cardinality((Aps \ ipi) \cup {c}) = Cardinality(Aps \ ipi) + 1
    BY <2>2, <2>3, FS_AddElement, Zenon
  <2>5. Aps \ ipi' = (Aps \ ipi) \cup {c}
    BY <1>1, Zenon
  <2> QED BY <1>1, <2>1, <2>4, <2>5, SMTT(30)
<1>5. PageInv'
  BY <1>1, <1>2, <1>4, Zenon DEF PageInv
<1> QED BY <1>1, <1>3, <1>5, StaysPut, Zenon DEF SmpInv

LEMMA FillStep ==
    ASSUME SmpInv, NEW c \in Cores, tlb_fill(c)
    PROVE  SmpInv'
<1>1. /\ UNCHANGED <<core_pc, n, holder, value, tmp, arrived, patient>> /\ UNCHANGED <<queue, count>>
      /\ UNCHANGED <<mapped, ipi, acks, freed>>
      /\ UNCHANGED <<expected, kqueue, ksched_runnable, peak>>
      /\ mapped /\ tlb' = tlb \cup {c}
  BY DEF tlb_fill, lock_vars, sched_vars
<1>2. SmpTypeOK /\ PageInv
  BY Zenon DEF SmpInv
<1>3. SmpTypeOK'
  BY <1>1, <1>2, Zenon DEF SmpTypeOK
<1>4. PageInv'
  BY <1>1, <1>2 DEF PageInv
<1> QED BY <1>1, <1>3, <1>4, StaysPut, Zenon DEF SmpInv
=============================================================================
