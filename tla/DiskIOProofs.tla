---------------------------- MODULE DiskIOProofs ----------------------------
(***************************************************************************)
(* For every number of processes and slots and every set of sectors and    *)
(* values: the slot pool shares and loses no slot and grants in order; the *)
(* block driver keeps to the pool's contract, loses no completion and no   *)
(* wakeup, and implements the atomic sector store.                         *)
(***************************************************************************)
EXTENDS DiskIO, FiniteSetTheorems, WellFoundedInduction, TLAPS

-----------------------------------------------------------------------------
(* The slot pool.                                                          *)

(* Taking the front of a FIFO removes exactly that element.                *)
LEMMA TailElements ==
    ASSUME NEW S, NEW q \in Seq(S), q # <<>>
    PROVE  /\ Head(q) \in S
           /\ Tail(q) \in Seq(S)
           /\ Elements(q) = {Head(q)} \cup Elements(Tail(q))
           /\ NoDuplicates(q) => /\ NoDuplicates(Tail(q))
                                 /\ Head(q) \notin Elements(Tail(q))
<1>1. /\ Len(q) \in Nat \ {0}
      /\ Head(q) = q[1] /\ Head(q) \in S
      /\ Tail(q) \in Seq(S)
      /\ Len(Tail(q)) = Len(q) - 1
      /\ \A i \in 1 .. Len(q) - 1 : Tail(q)[i] = q[i + 1]
  OBVIOUS
<1>2. Elements(q) = {Head(q)} \cup Elements(Tail(q))
  <2>1. ASSUME NEW i \in 1 .. Len(q)
        PROVE  q[i] = Head(q) \/ q[i] \in Elements(Tail(q))
    <3>1. CASE i = 1
      BY <3>1, <1>1
    <3>2. CASE i # 1
      <4>1. i - 1 \in 1 .. Len(Tail(q)) /\ Tail(q)[i - 1] = q[i]
        BY <3>2, <1>1
      <4> QED BY <4>1 DEF Elements
    <3> QED BY <3>1, <3>2
  <2>2. ASSUME NEW i \in 1 .. Len(Tail(q))
        PROVE  Tail(q)[i] \in Elements(q)
    <3>1. i + 1 \in 1 .. Len(q) /\ Tail(q)[i] = q[i + 1]
      BY <1>1
    <3> QED BY <3>1 DEF Elements
  <2>3. Head(q) \in Elements(q)
    BY <1>1 DEF Elements
  <2> QED BY <2>1, <2>2, <2>3 DEF Elements
<1>3. ASSUME NoDuplicates(q)
      PROVE  NoDuplicates(Tail(q)) /\ Head(q) \notin Elements(Tail(q))
  <2>1. ASSUME NEW i \in 1 .. Len(Tail(q)), NEW j \in 1 .. Len(Tail(q)),
               Tail(q)[i] = Tail(q)[j]
        PROVE  i = j
    <3>1. /\ i + 1 \in 1 .. Len(q) /\ j + 1 \in 1 .. Len(q)
          /\ q[i + 1] = q[j + 1]
      BY <2>1, <1>1
    <3>2. i + 1 = j + 1
      BY <3>1, <1>3 DEF NoDuplicates
    <3> QED BY <3>2
  <2>2. ASSUME NEW i \in 1 .. Len(Tail(q)), Tail(q)[i] = Head(q)
        PROVE  FALSE
    <3>1. /\ i + 1 \in 1 .. Len(q) /\ 1 \in 1 .. Len(q)
          /\ q[i + 1] = q[1]
      BY <2>2, <1>1
    <3>2. i + 1 = 1
      BY <3>1, <1>3 DEF NoDuplicates
    <3> QED BY <3>2
  <2> QED BY <2>1, <2>2, Zenon DEF NoDuplicates, Elements
<1> QED BY <1>1, <1>2, <1>3

(* Putting an element at the back of a FIFO adds exactly that element.     *)
LEMMA AppendElements ==
    ASSUME NEW S, NEW q \in Seq(S), NEW e \in S
    PROVE  /\ Append(q, e) \in Seq(S)
           /\ Append(q, e) # <<>>
           /\ Elements(Append(q, e)) = Elements(q) \cup {e}
           /\ NoDuplicates(q) /\ e \notin Elements(q)
                => NoDuplicates(Append(q, e))
<1> DEFINE a == Append(q, e)
<1>1. /\ a \in Seq(S) /\ Len(a) = Len(q) + 1 /\ Len(q) \in Nat
      /\ \A i \in 1 .. Len(q) : a[i] = q[i]
      /\ a[Len(q) + 1] = e
  OBVIOUS
<1> HIDE DEF a
<1>2. a # <<>>
  BY <1>1
<1>3. Elements(a) = Elements(q) \cup {e}
  <2>1. ASSUME NEW i \in 1 .. Len(a)
        PROVE  a[i] \in Elements(q) \cup {e}
    <3>1. i \in 1 .. Len(q) \/ i = Len(q) + 1
      BY <1>1
    <3> QED BY <3>1, <1>1 DEF Elements
  <2>2. ASSUME NEW i \in 1 .. Len(q)
        PROVE  q[i] \in Elements(a)
    <3>1. i \in 1 .. Len(a) /\ a[i] = q[i]
      BY <1>1
    <3> QED BY <3>1 DEF Elements
  <2>3. e \in Elements(a)
    <3>1. Len(q) + 1 \in 1 .. Len(a)
      BY <1>1
    <3> QED BY <3>1, <1>1 DEF Elements
  <2> QED BY <2>1, <2>2, <2>3 DEF Elements
<1>4. ASSUME NoDuplicates(q), e \notin Elements(q)
      PROVE  NoDuplicates(a)
  <2>1. ASSUME NEW i \in 1 .. Len(a), NEW j \in 1 .. Len(a), a[i] = a[j]
        PROVE  i = j
    <3>1. CASE i \in 1 .. Len(q) /\ j \in 1 .. Len(q)
      BY <3>1, <2>1, <1>1, <1>4 DEF NoDuplicates
    <3>2. CASE i \in 1 .. Len(q) /\ j = Len(q) + 1
      BY <3>2, <2>1, <1>1, <1>4 DEF Elements
    <3>3. CASE i = Len(q) + 1 /\ j \in 1 .. Len(q)
      BY <3>3, <2>1, <1>1, <1>4 DEF Elements
    <3>4. CASE i = Len(q) + 1 /\ j = Len(q) + 1
      BY <3>4
    <3> QED BY <3>1, <3>2, <3>3, <3>4, <1>1
  <2> QED BY <2>1 DEF NoDuplicates
<1> QED BY <1>1, <1>2, <1>3, <1>4 DEF a

-----------------------------------------------------------------------------

(* None of the three safety properties is inductive without the others:    *)
(* that a granted slot is nobody else's needs the pool and the owners to   *)
(* be disjoint, and that a freed slot may be pooled while the machine is   *)
(* in $HasFreeSlots needs the queue to be empty there.                     *)
IoInv ==
    /\ IoTypeOK
    /\ SlotsDisjoint
    /\ SlotsConserved
    /\ WaitersOnlyWhenFull

LEMMA InitIoInv == IoInit => IoInv
<1> SUFFICES ASSUME IoInit PROVE IoInv
  OBVIOUS
<1> USE SlotsAssumption, PidsAssumption DEF IoInit
<1>1. free \in Seq(Slots) /\ Len(free) = slots
      /\ \A i \in 1 .. slots : free[i] = i - 1
  BY DEF Slots
<1>2. IoTypeOK
  BY <1>1 DEF IoTypeOK
<1>3. Elements(free) = Slots
  <2>1. ASSUME NEW s \in Slots PROVE s \in Elements(free)
    <3>1. s + 1 \in 1 .. Len(free) /\ free[s + 1] = s
      BY <1>1 DEF Slots
    <3> QED BY <3>1 DEF Elements
  <2> QED BY <2>1, <1>1 DEF Elements, Slots
<1>4. NoDuplicates(free)
  BY <1>1 DEF NoDuplicates
<1>5. Owned = {}
  BY DEF Owned
<1>6. SlotsDisjoint
  BY <1>4, <1>5 DEF SlotsDisjoint
<1>7. SlotsConserved
  BY <1>3, <1>5 DEF SlotsConserved
<1>8. WaitersOnlyWhenFull
  BY <1>1 DEF WaitersOnlyWhenFull, NoDuplicates, Elements
<1> QED BY <1>2, <1>6, <1>7, <1>8 DEF IoInv

(* acquire in $HasFreeSlots: the front of the pool moves to the requester. *)
LEMMA AcquireFreeIoInv ==
    ASSUME IoInv, NEW p \in Pids, owners[p] = -1, AcquireFree(p)
    PROVE  IoInv'
<1> USE DEF IoInv
<1>1. mode = "HasFreeSlots" /\ free # <<>> /\ wait_q = <<>>
  BY DEF AcquireFree, WaitersOnlyWhenFull
<1>2. /\ owners' = [owners EXCEPT ![p] = Head(free)]
      /\ free' = Tail(free) /\ wait_q' = wait_q
      /\ mode' = IF free' = <<>> THEN "Full" ELSE mode
  BY <1>1 DEF AcquireFree, assign
<1>3. /\ Head(free) \in Slots /\ free' \in Seq(Slots)
      /\ Elements(free) = {Head(free)} \cup Elements(free')
      /\ NoDuplicates(free') /\ Head(free) \notin Elements(free')
  BY <1>1, <1>2, TailElements DEF IoTypeOK, SlotsDisjoint
<1>4. Head(free) # -1 /\ Head(free) \notin Owned
  BY <1>3 DEF Slots, SlotsDisjoint
<1>5. Owned' = Owned \cup {Head(free)}
  <2>1. ASSUME NEW q \in Pids PROVE owners'[q] = IF q = p THEN Head(free) ELSE owners[q]
    BY <1>2 DEF IoTypeOK
  <2> QED BY <2>1, <1>4 DEF Owned
<1>6. IoTypeOK'
  BY <1>2, <1>3 DEF IoTypeOK
<1>7. SlotsDisjoint'
  <2>1. \A q, r \in Pids : owners'[q] = owners'[r] /\ owners'[q] # -1 => q = r
    BY <1>2, <1>4 DEF IoTypeOK, SlotsDisjoint, Owned
  <2> QED BY <2>1, <1>3, <1>4, <1>5 DEF SlotsDisjoint
<1>8. SlotsConserved'
  BY <1>3, <1>5 DEF SlotsConserved
<1>9. WaitersOnlyWhenFull'
  BY <1>1, <1>2 DEF WaitersOnlyWhenFull, NoDuplicates, Elements
<1> QED BY <1>6, <1>7, <1>8, <1>9

(* acquire in $Full: the requester joins the queue.                        *)
LEMMA AcquireFullIoInv ==
    ASSUME IoInv, NEW p \in Pids, owners[p] = -1, p \notin Elements(wait_q),
           AcquireFull(p)
    PROVE  IoInv'
<1> USE DEF IoInv
<1>1. /\ mode = "Full" /\ mode' = mode /\ free' = free /\ owners' = owners
      /\ wait_q' = Append(wait_q, p)
  BY DEF AcquireFull
<1>2. /\ wait_q' \in Seq(Pids)
      /\ Elements(wait_q') = Elements(wait_q) \cup {p}
      /\ NoDuplicates(wait_q')
  BY <1>1, AppendElements DEF IoTypeOK, WaitersOnlyWhenFull
<1>3. IoTypeOK' /\ SlotsDisjoint' /\ SlotsConserved'
  BY <1>1, <1>2 DEF IoTypeOK, SlotsDisjoint, SlotsConserved, Owned
<1>4. WaitersOnlyWhenFull'
  BY <1>1, <1>2 DEF WaitersOnlyWhenFull
<1> QED BY <1>3, <1>4

(* release by an owner with nobody queued: the slot returns to the pool.   *)
LEMMA ReleaseToPoolIoInv ==
    ASSUME IoInv, NEW p \in Pids, owners[p] # -1, wait_q = <<>>, release(p)
    PROVE  IoInv'
<1> USE DEF IoInv
<1>1. /\ owners' = [owners EXCEPT ![p] = -1]
      /\ free' = Append(free, owners[p]) /\ wait_q' = wait_q
      /\ mode' = IF mode = "Full" /\ free' # <<>> THEN "HasFreeSlots" ELSE mode
  BY DEF release, do_release, ReleaseNothing, ReleaseToPool, HandOff
<1>2. owners[p] \in Slots /\ owners[p] \notin Elements(free)
  BY DEF IoTypeOK, SlotsDisjoint, Owned
<1>3. /\ free' \in Seq(Slots) /\ free' # <<>>
      /\ Elements(free') = Elements(free) \cup {owners[p]}
      /\ NoDuplicates(free')
  BY <1>1, <1>2, AppendElements DEF IoTypeOK, SlotsDisjoint
<1>4. \A q \in Pids : owners'[q] = IF q = p THEN -1 ELSE owners[q]
  BY <1>1 DEF IoTypeOK
<1>5. Owned' = Owned \ {owners[p]}
  BY <1>4 DEF Owned, SlotsDisjoint
<1>6. owners[p] \in Owned
  BY DEF Owned
<1>7. IoTypeOK'
  BY <1>1, <1>3 DEF IoTypeOK
<1>8. SlotsDisjoint'
  BY <1>2, <1>3, <1>4, <1>5 DEF SlotsDisjoint
<1>9. SlotsConserved'
  BY <1>3, <1>5, <1>6 DEF SlotsConserved
<1>10. WaitersOnlyWhenFull'
  BY <1>1, <1>3 DEF WaitersOnlyWhenFull, IoTypeOK, NoDuplicates, Elements
<1> QED BY <1>7, <1>8, <1>9, <1>10

(* release by an owner with waiters: the slot goes straight to the front   *)
(* of the queue, and the machine stays in $Full.                           *)
LEMMA ReleaseHandOffIoInv ==
    ASSUME IoInv, NEW p \in Pids, owners[p] # -1, wait_q # <<>>, release(p)
    PROVE  IoInv'
<1> USE DEF IoInv
<1> DEFINE w == Head(wait_q)
<1>1. /\ owners' = [owners EXCEPT ![p] = -1, ![w] = owners[p]]
      /\ free' = free /\ wait_q' = Tail(wait_q)
      /\ mode' = IF mode = "Full" /\ free' # <<>> THEN "HasFreeSlots" ELSE mode
  BY DEF release, do_release, ReleaseNothing, ReleaseToPool, HandOff
<1>2. /\ w \in Pids /\ wait_q' \in Seq(Pids)
      /\ Elements(wait_q) = {w} \cup Elements(wait_q')
      /\ NoDuplicates(wait_q') /\ w \notin Elements(wait_q')
  BY <1>1, TailElements DEF IoTypeOK, WaitersOnlyWhenFull
<1>3. owners[w] = -1 /\ w # p /\ mode = "Full" /\ free = <<>>
  BY <1>2 DEF WaitersOnlyWhenFull
<1> HIDE DEF w
<1>4. \A q \in Pids : owners'[q] = IF q = w THEN owners[p]
                                   ELSE IF q = p THEN -1 ELSE owners[q]
  BY <1>1, <1>2, <1>3 DEF IoTypeOK
<1>5. Owned' = Owned
  BY <1>2, <1>3, <1>4 DEF Owned
<1>6. IoTypeOK'
  BY <1>1, <1>2, <1>3, <1>4 DEF IoTypeOK
<1>7. SlotsDisjoint'
  <2>1. ASSUME NEW q \in Pids, NEW r \in Pids,
               owners'[q] = owners'[r], owners'[q] # -1
        PROVE  q = r
    <3>1. q # p /\ r # p
      BY <2>1, <1>3, <1>4
    <3>2. \A x, y \in Pids : owners[x] = owners[y] /\ owners[x] # -1 => x = y
      BY DEF SlotsDisjoint
    <3>3. CASE q = w /\ r # w
      BY <2>1, <3>1, <3>2, <3>3, <1>4
    <3>4. CASE q # w /\ r = w
      BY <2>1, <3>1, <3>2, <3>4, <1>4
    <3>5. CASE q # w /\ r # w
      BY <2>1, <3>1, <3>2, <3>5, <1>4
    <3> QED BY <3>3, <3>4, <3>5
  <2>2. NoDuplicates(free') /\ Owned' \cap Elements(free') = {}
    BY <1>1, <1>5 DEF SlotsDisjoint
  <2> QED BY <2>1, <2>2 DEF SlotsDisjoint
<1>8. SlotsConserved'
  BY <1>1, <1>5 DEF SlotsConserved
<1>9. WaitersOnlyWhenFull'
  <2>1. p \notin Elements(wait_q)
    BY DEF WaitersOnlyWhenFull
  <2>2. Elements(wait_q') \subseteq Pids
    BY <1>2 DEF Elements
  <2>3. \A q \in Elements(wait_q') : q # p /\ q # w /\ owners[q] = -1
    BY <2>1, <1>2 DEF WaitersOnlyWhenFull
  <2>4. \A q \in Elements(wait_q') : owners'[q] = -1
    BY <2>2, <2>3, <1>4
  <2> QED BY <2>4, <1>1, <1>2, <1>3, Zenon DEF WaitersOnlyWhenFull
<1> QED BY <1>6, <1>7, <1>8, <1>9

LEMMA NextIoInv == IoInv /\ [IoNext]_io_vars => IoInv'
<1> SUFFICES ASSUME IoInv, [IoNext]_io_vars PROVE IoInv'
  OBVIOUS
<1>1. CASE UNCHANGED io_vars
  BY <1>1 DEF io_vars, IoInv, IoTypeOK, SlotsDisjoint, SlotsConserved,
              WaitersOnlyWhenFull, Owned
<1>2. ASSUME NEW p \in Pids, acquire(p) PROVE IoInv'
  BY <1>2, AcquireFreeIoInv, AcquireFullIoInv DEF acquire
<1>3. ASSUME NEW p \in Pids, release(p) PROVE IoInv'
  <2>1. CASE owners[p] = -1
    <3>1. UNCHANGED <<free, owners, wait_q>> /\ mode' = mode
      BY <1>3, <2>1 DEF release, do_release, ReleaseNothing, ReleaseToPool, HandOff, IoInv, WaitersOnlyWhenFull
    <3> QED BY <3>1, <1>1 DEF io_vars
  <2>2. CASE owners[p] # -1
    BY <1>3, <2>2, ReleaseToPoolIoInv, ReleaseHandOffIoInv
  <2> QED BY <2>1, <2>2
<1> QED BY <1>1, <1>2, <1>3 DEF IoNext

(* The whole invariant: type correctness, no slot shared, no slot lost, no *)
(* waiter while a slot is free, for every pool size and set of processes.  *)
THEOREM PoolInvariant == IoSpec => []IoInv
<1> QED BY InitIoInv, NextIoInv, PTL DEF IoSpec

(* Type correctness of the machine's domain.                               *)
THEOREM IoTypeCorrect == IoSpec => []IoTypeOK
<1>1. IoInv => IoTypeOK
  BY DEF IoInv
<1> QED BY <1>1, PoolInvariant, PTL

(* acquire never hands out a slot somebody holds, release never returns a  *)
(* slot to the pool twice: no two requests share a DMA buffer.             *)
THEOREM SlotsNeverShared == IoSpec => []SlotsDisjoint
<1>1. IoInv => SlotsDisjoint
  BY DEF IoInv
<1> QED BY <1>1, PoolInvariant, PTL

(* The pool never shrinks: a slot is always owned or free.                 *)
THEOREM SlotsNeverLost == IoSpec => []SlotsConserved
<1>1. IoInv => SlotsConserved
  BY DEF IoInv
<1> QED BY <1>1, PoolInvariant, PTL

(* The invariant io_scheduler.frs states in its header: the queue is       *)
(* non-empty only in $Full.                                                *)
THEOREM QueueOnlyWhenFull == IoSpec => []WaitersOnlyWhenFull
<1>1. IoInv => WaitersOnlyWhenFull
  BY DEF IoInv
<1> QED BY <1>1, PoolInvariant, PTL

(* No request overtakes another: acquire grants at once only when nobody   *)
(* waits, and release grants to the front of the queue.                    *)
THEOREM NoOvertaking == IoSpec => GrantsInOrder
<1>1. IoInv /\ [IoNext]_io_vars => [InOrder]_io_vars
  <2> SUFFICES ASSUME IoInv, IoNext, NEW p \in Pids,
                      owners[p] = -1, owners'[p] # -1, wait_q # <<>>
               PROVE  p = Head(wait_q)
    BY DEF InOrder
  <2>1. ASSUME NEW r \in Pids, acquire(r) PROVE FALSE
    BY <2>1 DEF acquire, AcquireFree, AcquireFull, IoInv, WaitersOnlyWhenFull
  <2>2. ASSUME NEW r \in Pids, release(r) PROVE p = Head(wait_q)
    <3>1. CASE owners[r] = -1
      BY <2>2, <3>1 DEF release, do_release, ReleaseNothing, ReleaseToPool, HandOff
    <3>2. CASE owners[r] # -1
      <4>1. owners' = [owners EXCEPT ![r] = -1, ![Head(wait_q)] = owners[r]]
        BY <2>2, <3>2 DEF release, do_release, ReleaseNothing, ReleaseToPool, HandOff
      <4> QED BY <4>1 DEF IoInv, IoTypeOK
    <3> QED BY <3>1, <3>2
  <2> QED BY <2>1, <2>2 DEF IoNext
<1> QED BY <1>1, PoolInvariant, PTL DEF IoSpec, GrantsInOrder

(* Together: the pool is exact, whatever the order of acquire and release. *)
THEOREM PoolIsSound == IoSpec => []PoolSound
<1>1. IoInv => PoolSound
  BY DEF IoInv, PoolSound
<1> QED BY <1>1, PoolInvariant, PTL

-----------------------------------------------------------------------------
(* The block driver.                                                       *)

Outside == {"user", "sysret"}
Queued == {"grant?", "grant!"}
Holding == {"submit", "arm", "done?", "done!", "finish"}
Submitted == {"arm", "done?", "done!", "finish"}

(* Where a process is tells what it has of the pool.                       *)
PoolUse ==
    \A p \in Pids :
        /\ pc[p] \in Outside => owners[p] = -1 /\ p \notin Elements(wait_q)
        /\ pc[p] \in Queued => owners[p] # -1 \/ p \in Elements(wait_q)
        /\ pc[p] \in Holding => owners[p] # -1

(* Between submit and the wait nothing runs that could drain the ring.     *)
Armed ==
    \A p \in Pids : pc[p] = "arm" =>
        current = p /\ ~irq_on /\ owners[p] \in avail \cup used

(* A waiting process is its slot's waiter, and the slot is with the        *)
(* device, in the used ring or drained; it goes on only once drained.      *)
Awaited ==
    \A p \in Pids :
        /\ pc[p] \in {"done?", "done!"} =>
              /\ SLOT_WAITER[owners[p]] = p
              /\ owners[p] \in avail \cup used \/ slot_done[owners[p]]
        /\ pc[p] = "finish" => slot_done[owners[p]]

(* The slot's header is the request of its owner, its buffer the data of   *)
(* a write still with the device, and a drained slot's status was recorded.*)
SlotsMatch ==
    \A p \in Pids :
        /\ pc[p] \notin Outside => req[p] \in Requests
        /\ pc[p] \in Submitted =>
              /\ header[owners[p]] = req[p]
              /\ req[p].op = "write" /\ owners[p] \in avail => buf[owners[p]] = req[p].val
        /\ pc[p] \in Submitted \ {"arm"} /\ slot_done[owners[p]] =>
              slot_status[owners[p]] = status[owners[p]]

IrqComing == used # {} => isr

DiskInv ==
    /\ IoInv
    /\ DiskTypeOK
    /\ PoolUse
    /\ Armed
    /\ Awaited
    /\ SlotsMatch
    /\ IrqComing
    /\ DmaOnlyWhileAwaited
    /\ SleepersWillBeWoken
-----------------------------------------------------------------------------
(* What the invariant says of one process.                                 *)

LEMMA RequestFields ==
    ASSUME NEW r \in Requests
    PROVE  /\ r.op \in {"read", "write"} /\ r.sec \in Sectors
           /\ r.op = "write" => r.val \in Values
BY DEF Requests

(* A slot has one owner, and a slot that the device or the used ring has   *)
(* is its owner's, who waits.                                              *)
LEMMA SlotOwner ==
    ASSUME DiskInv, NEW p \in Pids
    PROVE  /\ pc[p] \in Holding => owners[p] \in Slots
           /\ owners[p] # -1 => owners[p] \in Slots
           /\ \A q \in Pids : owners[q] = owners[p] /\ owners[p] # -1 => q = p
           /\ owners[p] \in avail \cup used => pc[p] \in {"arm", "done?", "done!"}
           /\ owners[p] \in Slots => owners[p] # -1
<1> USE DEF DiskInv, DiskTypeOK, IoTypeOK
<1>1. pc[p] \in Holding => owners[p] \in Slots
  BY DEF PoolUse
<1>2. owners[p] # -1 => owners[p] \in Slots
  OBVIOUS
<1>3. \A q \in Pids : owners[q] = owners[p] /\ owners[p] # -1 => q = p
  BY DEF IoInv, SlotsDisjoint
<1>4. \A s \in Slots : s # -1
  BY SlotsAssumption DEF Slots
<1>5. owners[p] \in avail \cup used => pc[p] \in {"arm", "done?", "done!"}
  BY <1>3, <1>4 DEF DmaOnlyWhileAwaited
<1> QED BY <1>1, <1>2, <1>3, <1>4, <1>5

LEMMA PoolUntouched ==
    ASSUME DiskInv, UNCHANGED io_vars
    PROVE  IoInv' /\ IoTypeOK'
BY NextIoInv DEF DiskInv, IoInv

-----------------------------------------------------------------------------
(* One lemma for each action.                                              *)

LEMMA InitDiskInv == DiskInit => DiskInv
<1> SUFFICES ASSUME DiskInit PROVE DiskInv
  OBVIOUS
<1> USE DEF DiskInit
<1>1. IoInv /\ IoTypeOK
  BY InitIoInv DEF IoInv
<1>2. DiskTypeOK
  BY <1>1, ValuesAssumption, StatusAssumption, ZenonT(60) DEF DiskTypeOK, PCs, OK
<1>3. PoolUse
  <2>1. Elements(wait_q) = {}
    BY DEF IoInit, Elements
  <2>2. \A q \in Pids : owners[q] = -1 /\ pc[q] = "user"
    BY DEF IoInit
  <2> QED BY <2>1, <2>2, ZenonT(60) DEF PoolUse, Outside, Queued, Holding
<1>4. Armed /\ Awaited
  BY DEF Armed, Awaited
<1>5. SlotsMatch
  BY ZenonT(60) DEF SlotsMatch, Outside, Submitted
<1>6. IrqComing /\ DmaOnlyWhileAwaited /\ SleepersWillBeWoken
  BY DEF IrqComing, DmaOnlyWhileAwaited, SleepersWillBeWoken
<1> QED BY <1>1, <1>2, <1>3, <1>4, <1>5, <1>6 DEF DiskInv

(* The process alone moves, in its own pc and the run states.              *)
LEMMA CheckGrantInv ==
    ASSUME DiskInv, NEW p \in Pids, CheckGrant(p)
    PROVE  DiskInv'
<1>1. /\ pc[p] = "grant?" /\ UNCHANGED <<io_vars, current, irq_on, req, ret, drv_vars, dev_vars>>
      /\ state' = IF owners[p] >= 0 THEN state ELSE [state EXCEPT ![p] = "Blocked"]
      /\ pc' = [pc EXCEPT ![p] = IF owners[p] >= 0 THEN "submit" ELSE "grant!"]
  BY DEF CheckGrant, CheckOrBlock, slot_for
<1>2. /\ UNCHANGED <<mode, free, owners, wait_q, current, irq_on, req, slot_done, slot_status>>
      /\ UNCHANGED <<SLOT_WAITER, buf, status, header, avail, used, isr, disk>>
  BY <1>1 DEF io_vars, drv_vars, dev_vars
<1>3. DiskTypeOK
  BY DEF DiskInv
<1>4. /\ owners[p] >= 0 <=> owners[p] # -1
      /\ \A q \in Pids \ {p} : pc'[q] = pc[q] /\ state'[q] = state[q]
      /\ pc'[p] = IF owners[p] # -1 THEN "submit" ELSE "grant!"
      /\ state'[p] = IF owners[p] # -1 THEN state[p] ELSE "Blocked"
  <2>1. owners[p] >= 0 <=> owners[p] # -1
    BY <1>3, SlotsAssumption DEF DiskTypeOK, IoTypeOK, Slots
  <2> QED BY <2>1, <1>1, <1>3 DEF DiskTypeOK
<1>5. IoInv' /\ IoTypeOK'
  BY <1>1, PoolUntouched
<1>6. DiskTypeOK'
  BY <1>1, <1>2, <1>3, <1>5, Zenon DEF DiskTypeOK, PCs
<1>7. PoolUse'
  <2>1. ASSUME NEW q \in Pids \ {p} PROVE PoolUse!(q)'
    BY <1>2, <1>4, ZenonT(60) DEF DiskInv, PoolUse
  <2>2. owners[p] # -1 \/ p \in Elements(wait_q)
    BY <1>1 DEF DiskInv, PoolUse, Queued
  <2>3. PoolUse!(p)'
    BY <1>2, <1>4, <2>2, ZenonT(60) DEF Outside, Queued, Holding
  <2> QED BY <2>1, <2>3, ZenonT(60) DEF PoolUse
<1>8. Armed' /\ Awaited'
  BY <1>2, <1>4, ZenonT(60) DEF DiskInv, Armed, Awaited
<1>9. SlotsMatch'
  BY <1>2, <1>4, <1>1 DEF DiskInv, SlotsMatch, Outside, Submitted
<1>10. IrqComing' /\ DmaOnlyWhileAwaited'
  BY <1>1, <1>2, <1>4, SMTT(30) DEF DiskInv, IrqComing, DmaOnlyWhileAwaited
<1>11. SleepersWillBeWoken'
  BY <1>1, <1>2, <1>4 DEF DiskInv, SleepersWillBeWoken, PoolUse, Queued
<1> QED BY <1>5, <1>6, <1>7, <1>8, <1>9, <1>10, <1>11 DEF DiskInv

(* Going to sleep turns interrupts on; nobody is between submit and its    *)
(* wait then, since the core is the sleeper's.                             *)
LEMMA ParkInv ==
    ASSUME DiskInv, NEW p \in Pids,
           Park(p, "grant!", "grant?") \/ Park(p, "done!", "done?")
    PROVE  DiskInv'
<1>1. /\ current = p /\ pc[p] \in {"grant!", "done!"}
      /\ UNCHANGED <<io_vars, current, state, req, ret, drv_vars, dev_vars>>
      /\ \/ irq_on' = TRUE /\ pc' = pc
         \/ /\ state[p] = "Runnable" /\ irq_on' = irq_on
            /\ pc' = [pc EXCEPT ![p] = IF pc[p] = "grant!" THEN "grant?" ELSE "done?"]
  BY DEF Park
<1>2. /\ UNCHANGED <<mode, free, owners, wait_q, current, state, req, slot_done, slot_status>>
      /\ UNCHANGED <<SLOT_WAITER, buf, status, header, avail, used, isr, disk>>
  BY <1>1 DEF io_vars, drv_vars, dev_vars
<1>3. DiskTypeOK
  BY DEF DiskInv
<1>4. /\ \A q \in Pids \ {p} : pc'[q] = pc[q]
      /\ pc[p] = "grant!" => pc'[p] \in {"grant!", "grant?"}
      /\ pc[p] = "done!" => pc'[p] \in {"done!", "done?"}
      /\ pc'[p] = pc[p] \/ state[p] = "Runnable"
  BY <1>1, <1>3 DEF DiskTypeOK
<1>5. IoInv' /\ IoTypeOK'
  BY <1>1, PoolUntouched
<1>6. DiskTypeOK'
  BY <1>1, <1>2, <1>3, <1>5, ZenonT(60) DEF DiskTypeOK, PCs
<1>7. PoolUse'
  BY <1>1, <1>2, <1>4, SMTT(30) DEF DiskInv, PoolUse, Outside, Queued, Holding
<1>8. Armed' /\ Awaited'
  BY <1>1, <1>2, <1>4, SMTT(30) DEF DiskInv, Armed, Awaited
<1>9. SlotsMatch'
  BY <1>1, <1>2, <1>4, SMTT(30) DEF DiskInv, SlotsMatch, Outside, Submitted
<1>10. IrqComing' /\ DmaOnlyWhileAwaited'
  BY <1>1, <1>2, <1>4, SMTT(30) DEF DiskInv, IrqComing, DmaOnlyWhileAwaited
<1>11. SleepersWillBeWoken'
  BY <1>1, <1>2, <1>4 DEF DiskInv, SleepersWillBeWoken
<1> QED BY <1>5, <1>6, <1>7, <1>8, <1>9, <1>10, <1>11, SMTT(30) DEF DiskInv

LEMMA SysRetInv ==
    ASSUME DiskInv, NEW p \in Pids, SysRet(p)
    PROVE  DiskInv'
<1>1. /\ current = p /\ pc[p] = "sysret" /\ irq_on' = TRUE
      /\ pc' = [pc EXCEPT ![p] = "user"]
      /\ UNCHANGED <<io_vars, current, state, req, ret, drv_vars, dev_vars>>
  BY DEF SysRet
<1>2. /\ UNCHANGED <<mode, free, owners, wait_q, current, state, req, slot_done, slot_status>>
      /\ UNCHANGED <<SLOT_WAITER, buf, status, header, avail, used, isr, disk>>
  BY <1>1 DEF io_vars, drv_vars, dev_vars
<1>3. DiskTypeOK
  BY DEF DiskInv
<1>4. pc'[p] = "user" /\ \A q \in Pids \ {p} : pc'[q] = pc[q]
  BY <1>1, <1>3 DEF DiskTypeOK
<1>5. IoInv' /\ IoTypeOK'
  BY <1>1, PoolUntouched
<1>6. DiskTypeOK'
  BY <1>1, <1>2, <1>3, <1>5, Zenon DEF DiskTypeOK, PCs
<1>7. PoolUse'
  BY <1>1, <1>2, <1>4 DEF DiskInv, PoolUse, Outside, Queued, Holding
<1>8. Armed' /\ Awaited'
  BY <1>1, <1>2, <1>4, Zenon DEF DiskInv, Armed, Awaited
<1>9. SlotsMatch'
  BY <1>1, <1>2, <1>4, ZenonT(60) DEF DiskInv, SlotsMatch, Outside, Submitted
<1>10. IrqComing' /\ DmaOnlyWhileAwaited'
  BY <1>1, <1>2, <1>4, SMTT(30) DEF DiskInv, IrqComing, DmaOnlyWhileAwaited
<1>11. SleepersWillBeWoken'
  BY <1>1, <1>2, <1>4 DEF DiskInv, SleepersWillBeWoken
<1> QED BY <1>5, <1>6, <1>7, <1>8, <1>9, <1>10, <1>11 DEF DiskInv

(* The slot is neither with the device nor in the used ring when it is     *)
(* published: its owner is not waiting yet.                                *)
LEMMA SubmitInv ==
    ASSUME DiskInv, NEW p \in Pids, submit(p)
    PROVE  DiskInv'
<1> DEFINE s == owners[p]
<1>1. /\ current = p /\ pc[p] = "submit" /\ irq_on' = FALSE
      /\ header' = [header EXCEPT ![s] = req[p]]
      /\ buf' = IF req[p].op = "write" THEN [buf EXCEPT ![s] = req[p].val] ELSE buf
      /\ status' = [status EXCEPT ![s] = SENTINEL]
      /\ avail' = avail \cup {s}
      /\ pc' = [pc EXCEPT ![p] = "arm"]
      /\ UNCHANGED <<io_vars, current, state, req, ret, drv_vars, used, isr, disk>>
  BY Zenon DEF submit
<1>2. /\ UNCHANGED <<mode, free, owners, wait_q, current, state, req, slot_done, slot_status>>
      /\ UNCHANGED <<SLOT_WAITER, used, isr, disk>>
  BY <1>1, SMTT(30) DEF io_vars, drv_vars
<1>3. DiskTypeOK
  BY DEF DiskInv
<1>4. /\ s \in Slots /\ s # -1 /\ s \notin avail \cup used
      /\ \A q \in Pids \ {p} : owners[q] # s
  BY <1>1, SlotOwner, SMTT(30) DEF Holding
<1>5. req[p] \in Requests /\ (req[p].op = "write" => req[p].val \in Values)
  BY <1>1, RequestFields, SMTT(30) DEF DiskInv, SlotsMatch, Outside
<1> HIDE DEF s
<1>6. /\ pc'[p] = "arm" /\ \A q \in Pids \ {p} : pc'[q] = pc[q]
      /\ header'[s] = req[p] /\ (req[p].op = "write" => buf'[s] = req[p].val)
      /\ \A t \in Slots \ {s} : header'[t] = header[t] /\ buf'[t] = buf[t] /\ status'[t] = status[t]
  BY <1>1, <1>3, <1>4, SMTT(30) DEF DiskTypeOK
<1>7. IoInv' /\ IoTypeOK'
  BY <1>1, PoolUntouched, Zenon
<1>8. DiskTypeOK'
  BY <1>1, <1>2, <1>3, <1>4, <1>5, <1>7, ZenonT(60) DEF DiskTypeOK, PCs
<1>9. PoolUse'
  BY <1>1, <1>2, <1>6, Zenon DEF DiskInv, PoolUse, Outside, Queued, Holding
<1>10. Armed' /\ Awaited'
  BY <1>1, <1>2, <1>6, ZenonT(60) DEF DiskInv, Armed, Awaited, s
<1>11. SlotsMatch'
  <2>1. ASSUME NEW q \in Pids \ {p}, pc[q] \in Submitted
        PROVE  /\ owners[q] \in Slots \ {s}
               /\ owners[q] \in avail' <=> owners[q] \in avail
    BY <2>1, <1>1, <1>4, SlotOwner, Zenon DEF Submitted, Holding
  <2>2. ASSUME NEW q \in Pids \ {p} PROVE SlotsMatch!(q)'
    <3>1. pc'[q] = pc[q] /\ req'[q] = req[q] /\ owners'[q] = owners[q]
      BY <1>2, <1>6, Zenon
    <3>2. pc[q] \in Submitted =>
             /\ header'[owners[q]] = header[owners[q]] /\ buf'[owners[q]] = buf[owners[q]]
             /\ status'[owners[q]] = status[owners[q]]
      BY <1>6, <2>1, Zenon
    <3> QED BY <1>2, <2>1, <3>1, <3>2, ZenonT(60) DEF DiskInv, SlotsMatch
  <2>3. SlotsMatch!(p)'
    BY <1>2, <1>5, <1>6, ZenonT(60) DEF s
  <2> QED BY <2>2, <2>3, ZenonT(60) DEF SlotsMatch
<1>12. IrqComing' /\ SleepersWillBeWoken'
  <2>1. IrqComing'
    BY <1>2, Zenon DEF DiskInv, IrqComing
  <2>2. SleepersWillBeWoken'
    <3>1. ASSUME NEW q \in Pids, state'[q] = "Blocked"
          PROVE  SleepersWillBeWoken!(q)!2'
      <4>1. SleepersWillBeWoken!(q)!2
        BY <1>2, <3>1, Zenon DEF DiskInv, SleepersWillBeWoken
      <4>2. q # p
        BY <1>1, <4>1, Zenon
      <4>3. pc'[q] = pc[q] /\ \A t \in avail : t \in avail'
        BY <1>1, <1>6, <4>2, Zenon
      <4>4. /\ owners'[q] = owners[q] /\ SLOT_WAITER' = SLOT_WAITER /\ used' = used /\ isr' = isr
            /\ Elements(wait_q') = Elements(wait_q)
        BY <1>2, Zenon
      <4> QED BY <4>1, <4>3, <4>4, ZenonT(60)
    <3> QED BY <3>1, Zenon DEF SleepersWillBeWoken
  <2> QED BY <2>1, <2>2, Zenon
<1>13. DmaOnlyWhileAwaited'
  <2>1. avail' \cap used' = {}
    BY <1>1, <1>2, <1>4 DEF DiskInv, DmaOnlyWhileAwaited
  <2>2. ASSUME NEW t \in avail' \cup used'
        PROVE  \E q \in Pids : /\ owners'[q] = t
                               /\ pc'[q] \in {"arm", "done?", "done!"}
                               /\ pc'[q] # "arm" => ~slot_done'[t]
    <3>1. CASE t = s
      BY <1>2, <1>6, <3>1, Zenon DEF s
    <3>2. CASE t # s
      <4>1. PICK q \in Pids : /\ owners[q] = t
                              /\ pc[q] \in {"arm", "done?", "done!"}
                              /\ pc[q] # "arm" => ~slot_done[t]
        BY <1>1, <1>2, <2>2, <3>2, Zenon DEF DiskInv, DmaOnlyWhileAwaited
      <4>2. q # p
        BY <3>2, <4>1, Zenon DEF s
      <4> QED BY <1>2, <1>6, <4>1, <4>2, Zenon
    <3> QED BY <3>1, <3>2, Zenon
  <2> QED BY <2>1, <2>2, Zenon DEF DmaOnlyWhileAwaited
<1> QED BY <1>7, <1>8, <1>9, <1>10, <1>11, <1>12, <1>13, Zenon DEF DiskInv

(* Forgetting the slot's last completion loses nothing: the request just   *)
(* published cannot have been drained, for nothing ran in between.         *)
LEMMA ArmWaitInv ==
    ASSUME DiskInv, NEW p \in Pids, ArmWait(p)
    PROVE  DiskInv'
<1> DEFINE s == owners[p]
<1>1. /\ current = p /\ pc[p] = "arm"
      /\ slot_done' = [slot_done EXCEPT ![s] = FALSE]
      /\ SLOT_WAITER' = [SLOT_WAITER EXCEPT ![s] = p]
      /\ pc' = [pc EXCEPT ![p] = "done?"]
      /\ UNCHANGED <<io_vars, cpu_vars, req, ret, slot_status, dev_vars>>
  BY DEF ArmWait
<1>2. /\ UNCHANGED <<mode, free, owners, wait_q, current, irq_on, state, req, slot_status>>
      /\ UNCHANGED <<buf, status, header, avail, used, isr, disk>>
  BY <1>1 DEF io_vars, cpu_vars, dev_vars
<1>3. DiskTypeOK
  BY DEF DiskInv
<1>4. s \in Slots /\ s # -1 /\ \A q \in Pids \ {p} : owners[q] # s
  BY <1>1, SlotOwner, SMTT(30) DEF Holding
<1>5. s \in avail \cup used
  BY <1>1 DEF DiskInv, Armed
<1>6. /\ pc'[p] = "done?" /\ \A q \in Pids \ {p} : pc'[q] = pc[q]
      /\ ~slot_done'[s] /\ SLOT_WAITER'[s] = p
      /\ \A t \in Slots \ {s} : slot_done'[t] = slot_done[t] /\ SLOT_WAITER'[t] = SLOT_WAITER[t]
  BY <1>1, <1>3, <1>4, ZenonT(60) DEF DiskTypeOK
<1>7. IoInv' /\ IoTypeOK'
  BY <1>1, PoolUntouched, SMTT(30)
<1>8. DiskTypeOK'
  BY <1>1, <1>2, <1>3, <1>4, <1>7, Zenon DEF DiskTypeOK, PCs
<1>9. PoolUse'
  BY <1>1, <1>2, <1>6, SMTT(30) DEF DiskInv, PoolUse, Outside, Queued, Holding
<1>10. \A q \in Pids \ {p} : pc[q] \in Holding => owners[q] \in Slots \ {s}
  BY <1>4, SlotOwner, Zenon
<1>11. Armed' /\ Awaited'
  <2>1. ASSUME NEW q \in Pids \ {p} PROVE Armed!(q)' /\ Awaited!(q)'
    <3>1. /\ pc'[q] = pc[q] /\ owners'[q] = owners[q]
          /\ pc[q] \in Holding => /\ slot_done'[owners[q]] = slot_done[owners[q]]
                                 /\ SLOT_WAITER'[owners[q]] = SLOT_WAITER[owners[q]]
      BY <1>2, <1>6, <1>10, Zenon
    <3>2. Armed!(q) /\ Awaited!(q)
      BY Zenon DEF DiskInv, Armed, Awaited
    <3> QED BY <1>2, <3>1, <3>2, ZenonT(60) DEF Holding
  <2>2. Armed!(p)' /\ Awaited!(p)'
    BY <1>2, <1>5, <1>6, ZenonT(60)
  <2> QED BY <2>1, <2>2, ZenonT(60) DEF Armed, Awaited
<1>12. SlotsMatch'
  BY <1>1, <1>2, <1>6, <1>10 DEF DiskInv, SlotsMatch, Outside, Submitted, Holding
<1>13. IrqComing'
  BY <1>2, Zenon DEF DiskInv, IrqComing
<1>14. SleepersWillBeWoken'
  BY <1>1, <1>2, <1>6, <1>10 DEF DiskInv, SleepersWillBeWoken, Holding
<1>15. DmaOnlyWhileAwaited'
  <2>1. ASSUME NEW t \in avail' \cup used'
        PROVE  \E q \in Pids : /\ owners'[q] = t
                               /\ pc'[q] \in {"arm", "done?", "done!"}
                               /\ pc'[q] # "arm" => ~slot_done'[t]
    <3>1. CASE t = s
      BY <3>1, <1>2, <1>6, Zenon
    <3>2. CASE t # s
      <4>1. PICK q \in Pids : /\ owners[q] = t
                              /\ pc[q] \in {"arm", "done?", "done!"}
                              /\ pc[q] # "arm" => ~slot_done[t]
        BY <2>1, <1>2, Zenon DEF DiskInv, DmaOnlyWhileAwaited
      <4>2. q # p /\ t \in Slots \ {s}
        BY <3>2, <4>1, <1>2, <1>3, <2>1, Zenon DEF DiskTypeOK
      <4> QED BY <4>1, <4>2, <1>2, <1>6, Zenon
    <3> QED BY <3>1, <3>2, Zenon
  <2>2. avail' \cap used' = {}
    BY <1>2 DEF DiskInv, DmaOnlyWhileAwaited
  <2> QED BY <2>1, <2>2, Zenon DEF DmaOnlyWhileAwaited
<1> QED BY <1>7, <1>8, <1>9, <1>11, <1>12, <1>13, <1>14, <1>15, SMTT(30) DEF DiskInv

(* Draining wakes the waiters of the drained slots and touches no other    *)
(* run state.                                                              *)
LEMMA DrainWakesStates ==
    ASSUME DiskTypeOK
    PROVE  /\ DrainWakes \in [Pids -> {"Runnable", "Blocked"}]
           /\ \A q \in Pids : DrainWakes[q] = IF \E s \in used : SLOT_WAITER[s] = q
                                              THEN "Runnable" ELSE state[q]
<1>1. ASSUME NEW q \in Pids PROVE wake_pid(q, state)[q] = "Runnable"
  BY Zenon DEF wake_pid, DiskTypeOK
<1> QED BY <1>1 DEF DrainWakes, DiskTypeOK

(* What a drain does to the slots, whoever calls drain_used: nothing is    *)
(* left in the ring, and what was there is done with its status recorded.  *)
LEMMA Drained ==
    ASSUME DiskInv, drain_used, UNCHANGED <<owners, req, SLOT_WAITER, buf>>,
           UNCHANGED <<status, header, avail>>, NEW q \in Pids,
           owners[q] \in Slots
    PROVE  /\ slot_done'[owners[q]] <=> slot_done[owners[q]] \/ owners[q] \in used
           /\ owners[q] \in avail /\ pc[q] # "arm" => ~slot_done'[owners[q]]
           /\ pc[q] \in {"done?", "done!"} => owners[q] \in avail \/ slot_done'[owners[q]]
           /\ pc[q] \in Submitted \ {"arm"} /\ slot_done'[owners[q]] =>
                 slot_status'[owners[q]] = status[owners[q]]
<1> DEFINE s == owners[q]
<1>1. /\ slot_done'[s] = (slot_done[s] \/ s \in used)
      /\ slot_status'[s] = IF s \in used THEN status[s] ELSE slot_status[s]
  BY DEF drain_used
<1>2. s \in avail => s \notin used
  BY DEF DiskInv, DmaOnlyWhileAwaited
<1>3. s \in avail /\ pc[q] # "arm" => ~slot_done[s]
  BY SlotOwner DEF DiskInv, DmaOnlyWhileAwaited
<1>4. pc[q] \in {"done?", "done!"} => s \in avail \cup used \/ slot_done[s]
  BY DEF DiskInv, Awaited
<1>5. pc[q] \in Submitted \ {"arm"} /\ slot_done[s] => slot_status[s] = status[s]
  BY DEF DiskInv, SlotsMatch
<1>6. slot_done[s] \in BOOLEAN
  BY DEF DiskInv, DiskTypeOK
<1> HIDE DEF s
<1>7. /\ slot_done'[s] <=> slot_done[s] \/ s \in used
      /\ s \in avail /\ pc[q] # "arm" => ~slot_done'[s]
      /\ pc[q] \in {"done?", "done!"} => s \in avail \/ slot_done'[s]
  BY <1>1, <1>2, <1>3, <1>4, <1>6, ZenonT(60)
<1>8. pc[q] \in Submitted \ {"arm"} /\ slot_done'[s] => slot_status'[s] = status[s]
  BY <1>1, <1>5, <1>6
<1> QED BY <1>7, <1>8, Zenon DEF s

(* The waiter's own drain: it goes on only if its slot is done, and sleeps *)
(* only if the device still has it.                                        *)
LEMMA CheckDoneInv ==
    ASSUME DiskInv, NEW p \in Pids, CheckDone(p)
    PROVE  DiskInv'
<1> DEFINE s == owners[p]
<1>1. /\ current = p /\ pc[p] = "done?" /\ drain_used
      /\ state' = IF slot_done'[s] THEN DrainWakes ELSE [DrainWakes EXCEPT ![p] = "Blocked"]
      /\ pc' = [pc EXCEPT ![p] = IF slot_done'[s] THEN "finish" ELSE "done!"]
      /\ UNCHANGED <<io_vars, current, irq_on, req, ret, SLOT_WAITER>>
      /\ UNCHANGED <<buf, status, header, avail, isr, disk>>
  BY Zenon DEF CheckDone, CheckOrBlock
<1>2. /\ UNCHANGED <<mode, free, owners, wait_q, current, irq_on, req, SLOT_WAITER>>
      /\ UNCHANGED <<buf, status, header, avail, isr, disk>> /\ used' = {}
  BY <1>1 DEF io_vars, drain_used
<1>3. DiskTypeOK
  BY DEF DiskInv
<1>4. s \in Slots /\ s # -1 /\ \A q \in Pids \ {p} : owners[q] # s
  BY <1>1, SlotOwner, Zenon DEF Holding
<1>5. /\ \A q \in Pids \ {p} : pc'[q] = pc[q]
      /\ pc'[p] = IF slot_done'[s] THEN "finish" ELSE "done!"
  BY <1>1, <1>3, Zenon DEF DiskTypeOK
<1>6. /\ state' \in [Pids -> {"Runnable", "Blocked"}]
      /\ \A q \in Pids \ {p} :
            state'[q] = IF \E t \in used : SLOT_WAITER[t] = q THEN "Runnable" ELSE state[q]
      /\ state'[p] = "Blocked" => ~slot_done'[s] \/ state[p] = "Blocked"
  BY <1>1, <1>3, DrainWakesStates
<1>7. IoInv' /\ IoTypeOK'
  BY <1>1, PoolUntouched, SMTT(30)
<1>8. DiskTypeOK'
  <2>1. slot_done' \in [Slots -> BOOLEAN] /\ slot_status' \in [Slots -> Statuses \cup {SENTINEL}]
    BY <1>1, <1>3, Zenon DEF drain_used, DiskTypeOK
  <2>2. pc' \in [Pids -> PCs]
    BY <1>1, <1>3, Zenon DEF DiskTypeOK, PCs
  <2> QED BY <2>1, <2>2, <1>2, <1>3, <1>6, <1>7, Zenon DEF DiskTypeOK
<1>9. PoolUse'
  <2>1. ASSUME NEW q \in Pids \ {p} PROVE PoolUse!(q)'
    BY <1>2, <1>5, ZenonT(60) DEF DiskInv, PoolUse
  <2>2. PoolUse!(p)'
    BY <1>2, <1>4, <1>5, ZenonT(60) DEF Outside, Queued
  <2> QED BY <2>1, <2>2, ZenonT(60) DEF PoolUse
<1>10. \A q \in Pids : pc[q] \in Holding =>
          /\ owners[q] \in Slots
          /\ owners[q] \in avail /\ pc[q] # "arm" => ~slot_done'[owners[q]]
          /\ pc[q] \in {"done?", "done!"} => owners[q] \in avail \/ slot_done'[owners[q]]
          /\ slot_done[owners[q]] => slot_done'[owners[q]]
          /\ pc[q] \in Submitted \ {"arm"} /\ slot_done'[owners[q]] =>
                slot_status'[owners[q]] = status[owners[q]]
  BY <1>1, <1>2, SlotOwner, Drained, Zenon
<1>11. Armed'
  <2>1. pc'[p] # "arm"
    BY <1>5
  <2>2. ASSUME NEW q \in Pids, pc'[q] = "arm"
        PROVE  current' = q /\ ~irq_on' /\ owners'[q] \in avail' \cup used'
    BY <1>1, <1>5, <2>1, <2>2, ZenonT(60) DEF DiskInv, Armed
  <2> QED BY <2>2, Zenon DEF Armed
<1>12. Awaited'
  <2>1. ASSUME NEW q \in Pids \ {p} PROVE Awaited!(q)'
    <3>1. Awaited!(q) /\ pc'[q] = pc[q] /\ owners'[q] = owners[q] /\ SLOT_WAITER' = SLOT_WAITER
      BY <1>2, <1>5, Zenon DEF DiskInv, Awaited
    <3>2. /\ pc[q] \in {"done?", "done!"} => owners[q] \in avail' \/ slot_done'[owners[q]]
          /\ pc[q] = "finish" => slot_done'[owners[q]]
      BY <1>2, <1>10, <3>1, ZenonT(60) DEF Holding
    <3> QED BY <3>1, <3>2, ZenonT(60)
  <2>2. /\ SLOT_WAITER'[s] = p /\ owners'[p] = s
        /\ s \in avail' \/ slot_done'[s]
    BY <1>1, <1>2, <1>10, ZenonT(60) DEF DiskInv, Awaited, Holding
  <2>3. Awaited!(p)'
    BY <1>5, <2>2, ZenonT(60)
  <2> QED BY <2>1, <2>3, ZenonT(60) DEF Awaited
<1>13. SlotsMatch'
  <2>1. ASSUME NEW q \in Pids PROVE SlotsMatch!(q)'
    <3>1. /\ pc'[q] \in Outside <=> pc[q] \in Outside
          /\ pc'[q] \in Submitted <=> pc[q] \in Submitted
          /\ pc'[q] = "arm" <=> pc[q] = "arm"
      <4>1. CASE q # p
        BY <1>5, <4>1
      <4>2. CASE q = p
        <5>1. pc[q] = "done?" /\ (pc'[q] = "finish" \/ pc'[q] = "done!")
          BY <1>1, <1>5, <4>2
        <5> QED BY <5>1 DEF Outside, Submitted
      <4> QED BY <4>1, <4>2, Zenon
    <3> QED BY <3>1, <1>2, <1>10, ZenonT(60) DEF DiskInv, SlotsMatch, Submitted, Holding
  <2> QED BY <2>1, Zenon DEF SlotsMatch
<1>14. IrqComing'
  BY <1>2 DEF IrqComing
<1>15. DmaOnlyWhileAwaited'
  <2>1. ASSUME NEW t \in avail'
        PROVE  \E q \in Pids : /\ owners'[q] = t
                               /\ pc'[q] \in {"arm", "done?", "done!"}
                               /\ pc'[q] # "arm" => ~slot_done'[t]
    <3>1. PICK q \in Pids : owners[q] = t /\ pc[q] \in {"arm", "done?", "done!"}
      BY <2>1, <1>2, Zenon DEF DiskInv, DmaOnlyWhileAwaited
    <3>2. pc[q] # "arm" => ~slot_done'[t]
      BY <3>1, <2>1, <1>2, <1>10, Zenon DEF Holding
    <3> QED BY <3>1, <3>2, <1>1, <1>2, <1>5, Zenon
  <2> QED BY <2>1, <1>2, Zenon DEF DmaOnlyWhileAwaited
<1>16. SleepersWillBeWoken'
  <2>1. ASSUME NEW q \in Pids \ {p}, state'[q] = "Blocked"
        PROVE  \/ pc[q] = "grant!" /\ q \in Elements(wait_q)
               \/ pc[q] = "done!" /\ SLOT_WAITER[owners[q]] = q /\ owners[q] \in avail
    BY <2>1, <1>6, SMTT(30) DEF DiskInv, SleepersWillBeWoken
  <2>2. ASSUME state'[p] = "Blocked"
        PROVE  pc'[p] = "done!" /\ SLOT_WAITER[s] = p /\ s \in avail
    BY <2>2, <1>1, <1>5, <1>6, <1>10, ZenonT(60) DEF DiskInv, SleepersWillBeWoken, Awaited, Holding
  <2> QED BY <2>1, <2>2, <1>2, <1>5, Zenon DEF SleepersWillBeWoken
<1> QED BY <1>7, <1>8, <1>9, <1>11, <1>12, <1>13, <1>14, <1>15, <1>16, Zenon DEF DiskInv

(* The completion interrupt.  It is off between submit and the wait.       *)
LEMMA OnIrqInv ==
    ASSUME DiskInv, on_irq
    PROVE  DiskInv'
<1>1. /\ irq_on /\ drain_used /\ state' = DrainWakes /\ isr' = FALSE
      /\ UNCHANGED <<io_vars, current, irq_on, pc, req, ret, SLOT_WAITER>>
      /\ UNCHANGED <<buf, status, header, avail, disk>>
  BY DEF on_irq
<1>2. /\ UNCHANGED <<mode, free, owners, wait_q, current, irq_on, pc, req, SLOT_WAITER>>
      /\ UNCHANGED <<buf, status, header, avail, disk>> /\ used' = {}
  BY <1>1 DEF io_vars, drain_used
<1>3. DiskTypeOK
  BY DEF DiskInv
<1>4. /\ state' \in [Pids -> {"Runnable", "Blocked"}]
      /\ \A q \in Pids :
            state'[q] = IF \E t \in used : SLOT_WAITER[t] = q THEN "Runnable" ELSE state[q]
  BY <1>1, <1>3, DrainWakesStates
<1>5. IoInv' /\ IoTypeOK'
  BY <1>1, PoolUntouched
<1>6. DiskTypeOK'
  <2>1. slot_done' \in [Slots -> BOOLEAN] /\ slot_status' \in [Slots -> Statuses \cup {SENTINEL}]
    BY <1>1, <1>3, SMTT(30) DEF drain_used, DiskTypeOK
  <2> QED BY <2>1, <1>1, <1>2, <1>3, <1>4, <1>5, ZenonT(60) DEF DiskTypeOK
<1>7. PoolUse'
  BY <1>2, ZenonT(60) DEF DiskInv, PoolUse
<1>8. \A q \in Pids : pc[q] \in Holding =>
          /\ owners[q] \in Slots
          /\ owners[q] \in avail /\ pc[q] # "arm" => ~slot_done'[owners[q]]
          /\ pc[q] \in {"done?", "done!"} => owners[q] \in avail \/ slot_done'[owners[q]]
          /\ slot_done[owners[q]] => slot_done'[owners[q]]
          /\ pc[q] \in Submitted \ {"arm"} /\ slot_done'[owners[q]] =>
                slot_status'[owners[q]] = status[owners[q]]
  BY <1>1, <1>2, SlotOwner, Drained, Zenon
<1>9. Armed' /\ Awaited'
  <2>1. Armed'
    BY <1>1, <1>2, ZenonT(60) DEF DiskInv, Armed
  <2>2. ASSUME NEW q \in Pids PROVE Awaited!(q)'
    <3>1. Awaited!(q) /\ pc'[q] = pc[q] /\ owners'[q] = owners[q] /\ SLOT_WAITER' = SLOT_WAITER
      BY <1>2, Zenon DEF DiskInv, Awaited
    <3>2. /\ pc[q] \in {"done?", "done!"} => owners[q] \in avail' \/ slot_done'[owners[q]]
          /\ pc[q] = "finish" => slot_done'[owners[q]]
      BY <1>2, <1>8, <3>1, ZenonT(60) DEF Holding
    <3> QED BY <3>1, <3>2, ZenonT(60)
  <2> QED BY <2>1, <2>2, Zenon DEF Awaited
<1>10. SlotsMatch'
  BY <1>2, <1>8 DEF DiskInv, SlotsMatch, Submitted, Holding
<1>11. IrqComing'
  BY <1>2, Zenon DEF IrqComing
<1>12. DmaOnlyWhileAwaited'
  <2>1. ASSUME NEW t \in avail'
        PROVE  \E q \in Pids : /\ owners'[q] = t
                               /\ pc'[q] \in {"arm", "done?", "done!"}
                               /\ pc'[q] # "arm" => ~slot_done'[t]
    <3>1. PICK q \in Pids : owners[q] = t /\ pc[q] \in {"arm", "done?", "done!"}
      BY <2>1, <1>2, Zenon DEF DiskInv, DmaOnlyWhileAwaited
    <3>2. pc[q] # "arm" => ~slot_done'[t]
      BY <3>1, <2>1, <1>2, <1>8, Zenon DEF Holding
    <3> QED BY <3>1, <3>2, <1>2
  <2> QED BY <2>1, <1>2 DEF DmaOnlyWhileAwaited
<1>13. SleepersWillBeWoken'
  <2>1. ASSUME NEW q \in Pids, state'[q] = "Blocked"
        PROVE  \/ pc[q] = "grant!" /\ q \in Elements(wait_q)
               \/ pc[q] = "done!" /\ SLOT_WAITER[owners[q]] = q /\ owners[q] \in avail
    BY <2>1, <1>4 DEF DiskInv, SleepersWillBeWoken
  <2> QED BY <2>1, <1>2, SMTT(30) DEF SleepersWillBeWoken
<1> QED BY <1>5, <1>6, <1>7, <1>9, <1>10, <1>11, <1>12, <1>13 DEF DiskInv

(* The device moves a slot it was given to the used ring.                  *)
LEMMA DeviceCompleteInv ==
    ASSUME DiskInv, NEW s \in Slots, DeviceComplete(s)
    PROVE  DiskInv'
<1>1. /\ s \in avail /\ avail' = avail \ {s} /\ used' = used \cup {s} /\ isr' = TRUE
      /\ UNCHANGED <<io_vars, cpu_vars, pc, req, ret, drv_vars, header>>
  BY DEF DeviceComplete
<1>2. /\ UNCHANGED <<mode, free, owners, wait_q, current, irq_on, state, pc, req>>
      /\ UNCHANGED <<slot_done, slot_status, SLOT_WAITER, header>>
  BY <1>1 DEF io_vars, cpu_vars, drv_vars
<1>3. DiskTypeOK
  BY SMTT(30) DEF DiskInv
<1>4. PICK p \in Pids : /\ owners[p] = s /\ pc[p] \in {"arm", "done?", "done!"}
                        /\ pc[p] # "arm" => ~slot_done[s]
  BY <1>1, ZenonT(60) DEF DiskInv, DmaOnlyWhileAwaited
<1>5. /\ header[s] = req[p] /\ header[s] \in Requests
      /\ header[s].sec \in Sectors
  BY <1>4, RequestFields, Zenon DEF DiskInv, SlotsMatch, Submitted, Outside
<1>6. /\ status' \in [Slots -> Statuses \cup {SENTINEL}]
      /\ buf' \in [Slots -> Values] /\ disk' \in [Sectors -> Values]
      /\ \A t \in Slots \ {s} : status'[t] = status[t] /\ buf'[t] = buf[t]
  BY <1>3, <1>5, StatusAssumption, SMTT(30) DEF DeviceComplete, DiskTypeOK
<1>7. IoInv' /\ IoTypeOK'
  BY <1>1, PoolUntouched, Zenon
<1>8. DiskTypeOK'
  BY <1>1, <1>2, <1>3, <1>6, <1>7 DEF DiskTypeOK
<1>9. PoolUse'
  BY <1>2, ZenonT(60) DEF DiskInv, PoolUse
<1>10. Armed' /\ Awaited'
  BY <1>1, <1>2, SMTT(30) DEF DiskInv, Armed, Awaited
<1>11. SlotsMatch'
  <2>1. \A q \in Pids : pc[q] \in Submitted => owners[q] \in Slots
    BY SlotOwner DEF Submitted, Holding
  <2>2. \A q \in Pids \ {p} : owners[q] # s
    BY <1>4, SlotOwner
  <2>3. pc[p] \in Submitted \ {"arm"} => ~slot_done[s]
    BY <1>4
  <2>4. owners[p] \notin avail'
    BY <1>1, <1>4
  <2>5. ASSUME NEW q \in Pids PROVE SlotsMatch!(q)'
    <3>1. CASE q = p
      BY <3>1, <2>3, <2>4, <1>2, <1>4 DEF DiskInv, SlotsMatch
    <3>2. CASE q # p
      BY <3>2, <2>1, <2>2, <1>1, <1>2, <1>6, ZenonT(60) DEF DiskInv, SlotsMatch, Submitted
    <3> QED BY <3>1, <3>2, ZenonT(60)
  <2> QED BY <2>5, ZenonT(60) DEF SlotsMatch
<1>12. IrqComing' /\ SleepersWillBeWoken'
  BY <1>1, <1>2, ZenonT(60) DEF DiskInv, IrqComing, SleepersWillBeWoken
<1>13. DmaOnlyWhileAwaited'
  BY <1>1, <1>2, ZenonT(60) DEF DiskInv, DmaOnlyWhileAwaited
<1> QED BY <1>7, <1>8, <1>9, <1>10, <1>11, <1>12, <1>13, Zenon DEF DiskInv

LEMMA SpuriousWakeInv ==
    ASSUME DiskInv, NEW p \in Pids, SpuriousWake(p)
    PROVE  DiskInv'
<1>1. /\ irq_on /\ state' = wake_pid(p, state)
      /\ UNCHANGED <<io_vars, current, irq_on, pc, req, ret, drv_vars, dev_vars>>
  BY DEF SpuriousWake
<1>2. /\ UNCHANGED <<mode, free, owners, wait_q, current, irq_on, pc, req, slot_done, slot_status>>
      /\ UNCHANGED <<SLOT_WAITER, buf, status, header, avail, used, isr, disk>>
  BY <1>1 DEF io_vars, drv_vars, dev_vars
<1>3. /\ state' \in [Pids -> {"Runnable", "Blocked"}]
      /\ \A q \in Pids : state'[q] = "Blocked" => state[q] = "Blocked"
  BY <1>1 DEF DiskInv, DiskTypeOK, wake_pid
<1>4. IoInv' /\ IoTypeOK'
  BY <1>1, PoolUntouched
<1>5. DiskTypeOK'
  BY <1>2, <1>3, <1>4 DEF DiskInv, DiskTypeOK
<1>6. PoolUse' /\ Armed' /\ Awaited' /\ SlotsMatch' /\ IrqComing' /\ DmaOnlyWhileAwaited'
  BY <1>2, ZenonT(60) DEF DiskInv, PoolUse, Armed, Awaited, SlotsMatch, IrqComing, DmaOnlyWhileAwaited
<1>7. SleepersWillBeWoken'
  BY <1>2, <1>3, ZenonT(60) DEF DiskInv, SleepersWillBeWoken
<1> QED BY <1>4, <1>5, <1>6, <1>7 DEF DiskInv

(* A nonempty set of naturals has a least element, so the round-robin's    *)
(* search is defined.                                                      *)
LEMMA NatMin ==
    ASSUME NEW S \in SUBSET Nat, S # {}
    PROVE  \E k \in S : \A j \in S : k <= j
<1> DEFINE R == OpToRel(<, Nat)
<1>1. IsWellFoundedOn(R, Nat)
  BY NatLessThanWellFounded, ZenonT(60)
<1>2. \E x \in S : \A y \in S : ~(<<y, x>> \in R)
  BY <1>1, WFMin, ZenonT(60)
<1>3. PICK x \in S : \A y \in S : ~(<<y, x>> \in R)
  BY <1>2, ZenonT(60)
<1>4. ASSUME NEW y \in S PROVE x <= y
  <2>1. x \in Nat /\ y \in Nat
    OBVIOUS
  <2>2. ~(y < x)
    BY <1>3, <2>1, ZenonT(60) DEF OpToRel
  <2> QED BY <2>1, <2>2
<1> QED BY <1>3, <1>4, ZenonT(60)

LEMMA RoundRobinPicks ==
    ASSUME DiskTypeOK
    PROVE  RoundRobin \in Pids \cup {0}
<1> DEFINE n == Cardinality(Pids) + 1
           nth(k) == (current + k) % n
           Ready == {k \in 1 .. n : nth(k) # 0 /\ state[nth(k)] = "Runnable"}
<1>1. Cardinality(Pids) \in Nat /\ Pids = 1 .. n - 1 /\ current \in Nat
  BY TcbAssumption, FS_CardinalityType DEF DiskTypeOK
<1>2. ASSUME NEW k \in 1 .. n PROVE nth(k) \in 0 .. n - 1
  BY <1>1
<1> HIDE DEF nth, n
<1>3. CASE Ready = {}
  BY <1>3 DEF RoundRobin, n, nth
<1>4. CASE Ready # {}
  <2>1. Ready \in SUBSET Nat
    BY <1>1 DEF n
  <2>2. \E k \in Ready : \A j \in Ready : k <= j
    BY <2>1, <1>4, NatMin, ZenonT(60)
  <2> DEFINE c == CHOOSE k \in Ready : \A j \in Ready : k <= j
  <2>3. c \in Ready
    BY <2>2
  <2>4. RoundRobin = nth(c)
    BY <1>4 DEF RoundRobin, n, nth
  <2> HIDE DEF c
  <2>5. c \in 1 .. n /\ nth(c) # 0
    BY <2>3
  <2>6. nth(c) \in 0 .. n - 1
    BY <2>5, <1>2
  <2>7. nth(c) \in Pids
    BY <2>5, <2>6, <1>1 DEF n
  <2> QED BY <2>4, <2>7
<1> QED BY <1>3, <1>4

LEMMA ScheduleInv ==
    ASSUME DiskInv, schedule
    PROVE  DiskInv'
<1>1. /\ irq_on /\ current' = RoundRobin
      /\ UNCHANGED <<io_vars, irq_on, state, pc, req, ret, drv_vars, dev_vars>>
  BY DEF schedule
<1>2. /\ UNCHANGED <<mode, free, owners, wait_q, irq_on, state, pc, req, slot_done, slot_status>>
      /\ UNCHANGED <<SLOT_WAITER, buf, status, header, avail, used, isr, disk>>
  BY <1>1 DEF io_vars, drv_vars, dev_vars
<1>3. current' \in Pids \cup {0}
  BY <1>1, RoundRobinPicks DEF DiskInv
<1>4. IoInv' /\ IoTypeOK'
  BY <1>1, PoolUntouched
<1>5. DiskTypeOK'
  BY <1>2, <1>3, <1>4, SMTT(30) DEF DiskInv, DiskTypeOK
<1>6. PoolUse' /\ Awaited' /\ SlotsMatch' /\ IrqComing' /\ DmaOnlyWhileAwaited'
  BY <1>2, ZenonT(60) DEF DiskInv, PoolUse, Awaited, SlotsMatch, IrqComing, DmaOnlyWhileAwaited
<1>7. Armed' /\ SleepersWillBeWoken'
  BY <1>1, <1>2, ZenonT(60) DEF DiskInv, Armed, SleepersWillBeWoken
<1> QED BY <1>4, <1>5, <1>6, <1>7 DEF DiskInv

(* A process enters with no slot and not queued, so its acquire is one the *)
(* IoScheduler's contract allows.                                          *)
LEMMA AcquireAllowed ==
    ASSUME DiskInv, NEW p \in Pids, acquire_disk(p)
    PROVE  acquire(p) /\ IoNext
<1>1. owners[p] = -1 /\ p \notin Elements(wait_q)
  BY Zenon DEF acquire_disk, DiskInv, PoolUse, Outside
<1>2. AcquireFree(p) \/ AcquireFull(p)
  BY SMTT(30) DEF acquire_disk
<1> QED BY <1>1, <1>2 DEF acquire, IoNext

(* Either the process gets a slot nobody has, or it joins the queue.       *)
LEMMA AcquireEffect ==
    ASSUME IoInv, NEW p \in Pids, acquire(p)
    PROVE  /\ \A q \in Pids \ {p} : owners'[q] = owners[q]
           /\ \A q \in Pids \ {p} : q \in Elements(wait_q') <=> q \in Elements(wait_q)
           /\ owners'[p] # -1 \/ p \in Elements(wait_q')
           /\ owners'[p] # -1 => \A q \in Pids \ {p} : owners[q] # owners'[p]
<1>1. CASE AcquireFree(p)
  <2>1. free # <<>> /\ wait_q' = wait_q /\ owners' = [owners EXCEPT ![p] = Head(free)]
    BY <1>1 DEF AcquireFree, assign, IoInv, WaitersOnlyWhenFull
  <2>2. Head(free) \in Slots /\ Head(free) \in Elements(free)
    BY <2>1, TailElements DEF IoInv, IoTypeOK
  <2>3. Head(free) # -1
    BY <2>2, SlotsAssumption, SMTT(30) DEF Slots
  <2>4. \A q \in Pids : owners[q] # Head(free)
    BY <2>2, <2>3 DEF IoInv, SlotsDisjoint, Owned
  <2> QED BY <2>1, <2>3, <2>4 DEF IoInv, IoTypeOK
<1>2. CASE AcquireFull(p)
  <2>1. wait_q' = Append(wait_q, p) /\ owners' = owners
    BY <1>2 DEF AcquireFull
  <2>2. Elements(wait_q') = Elements(wait_q) \cup {p}
    BY <2>1, AppendElements DEF IoInv, IoTypeOK
  <2>3. owners[p] = -1
    BY DEF acquire
  <2> QED BY <2>1, <2>2, <2>3
<1> QED BY <1>1, <1>2, ZenonT(60) DEF acquire

LEMMA AcquireDiskInv ==
    ASSUME DiskInv, NEW p \in Pids, acquire_disk(p)
    PROVE  DiskInv'
<1>1. /\ current = p /\ pc[p] \in {"user", "sysret"} /\ irq_on' = FALSE
      /\ pc' = [pc EXCEPT ![p] = IF owners'[p] # -1 THEN "submit" ELSE "grant?"]
      /\ UNCHANGED <<current, state, drv_vars, dev_vars>>
  BY DEF acquire_disk
<1>2. PICK r \in Requests : req' = [req EXCEPT ![p] = r]
  BY ZenonT(60) DEF acquire_disk
<1>3. /\ UNCHANGED <<current, state, slot_done, slot_status, SLOT_WAITER>>
      /\ UNCHANGED <<buf, status, header, avail, used, isr, disk>>
  BY <1>1 DEF drv_vars, dev_vars
<1>4. DiskTypeOK /\ IoInv
  BY DEF DiskInv
<1>5. IoInv' /\ IoTypeOK'
  BY AcquireAllowed, NextIoInv, <1>4, SMTT(30) DEF IoInv
<1>6. /\ \A q \in Pids \ {p} : owners'[q] = owners[q]
      /\ \A q \in Pids \ {p} : q \in Elements(wait_q') <=> q \in Elements(wait_q)
      /\ owners'[p] # -1 \/ p \in Elements(wait_q')
  BY AcquireAllowed, AcquireEffect, <1>4, ZenonT(60)
<1>7. /\ \A q \in Pids \ {p} : pc'[q] = pc[q] /\ req'[q] = req[q]
      /\ pc'[p] = IF owners'[p] # -1 THEN "submit" ELSE "grant?"
      /\ req'[p] \in Requests
  BY <1>1, <1>2, <1>4 DEF DiskTypeOK
<1>8. DiskTypeOK'
  BY <1>1, <1>2, <1>3, <1>4, <1>5, ZenonT(60) DEF DiskTypeOK, PCs
<1>9. PoolUse!(p)' /\ Armed!(p)' /\ Awaited!(p)' /\ SlotsMatch!(p)'
  BY <1>6, <1>7, ZenonT(60) DEF Outside, Queued, Holding, Submitted
<1>10. ASSUME NEW q \in Pids \ {p}
       PROVE  PoolUse!(q)' /\ Armed!(q)' /\ Awaited!(q)' /\ SlotsMatch!(q)'
  <2>1. /\ pc'[q] = pc[q] /\ req'[q] = req[q] /\ owners'[q] = owners[q]
        /\ q \in Elements(wait_q') <=> q \in Elements(wait_q)
    BY <1>6, <1>7, Zenon
  <2>2. PoolUse!(q)'
    BY <2>1, ZenonT(60) DEF DiskInv, PoolUse
  <2>3. Armed!(q)'
    BY <2>1, <1>1, <1>3, Zenon DEF DiskInv, Armed
  <2>4. Awaited!(q)'
    BY <2>1, <1>3, ZenonT(60) DEF DiskInv, Awaited
  <2>5. SlotsMatch!(q)'
    BY <2>1, <1>3, Zenon DEF DiskInv, SlotsMatch
  <2> QED BY <2>2, <2>3, <2>4, <2>5, ZenonT(60)
<1>11. PoolUse' /\ Armed' /\ Awaited' /\ SlotsMatch'
  BY <1>9, <1>10, ZenonT(60) DEF PoolUse, Armed, Awaited, SlotsMatch
<1>12. IrqComing' /\ DmaOnlyWhileAwaited'
  <2>1. ASSUME NEW t \in avail \cup used
        PROVE  \E q \in Pids : /\ owners'[q] = t
                               /\ pc'[q] \in {"arm", "done?", "done!"}
                               /\ pc'[q] # "arm" => ~slot_done[t]
    <3>1. PICK q \in Pids : /\ owners[q] = t
                            /\ pc[q] \in {"arm", "done?", "done!"}
                            /\ pc[q] # "arm" => ~slot_done[t]
      BY <2>1, SMTT(30) DEF DiskInv, DmaOnlyWhileAwaited
    <3>2. q # p
      BY <3>1, <1>1, Zenon
    <3> QED BY <3>1, <3>2, <1>6, <1>7, ZenonT(60)
  <2>2. DmaOnlyWhileAwaited'
    BY <2>1, <1>3, ZenonT(60) DEF DiskInv, DmaOnlyWhileAwaited
  <2> QED BY <2>2, <1>3 DEF DiskInv, IrqComing
<1>13. SleepersWillBeWoken'
  BY <1>1, <1>3, <1>6, <1>7, SMTT(30) DEF DiskInv, SleepersWillBeWoken
<1> QED BY <1>5, <1>8, <1>11, <1>12, <1>13, Zenon DEF DiskInv

(* A release by an owner: the process at the front of the queue, if there  *)
(* is one, holds the slot now, and nobody else's share changes.            *)
LEMMA ReleaseEffect ==
    ASSUME IoInv, NEW p \in Pids, owners[p] # -1, release(p)
    PROVE  /\ owners'[p] = -1
           /\ \A q \in Pids \ {p} :
                 IF q = admitted(p)
                 THEN owners'[q] = owners[p] /\ q \in Elements(wait_q)
                 ELSE /\ owners'[q] = owners[q]
                      /\ q \in Elements(wait_q') <=> q \in Elements(wait_q)
           /\ admitted(p) # p
           /\ p \notin Elements(wait_q')
<1>1. p \notin Elements(wait_q)
  BY DEF IoInv, WaitersOnlyWhenFull
<1>2. CASE wait_q = <<>>
  <2>1. owners' = [owners EXCEPT ![p] = -1] /\ wait_q' = wait_q /\ admitted(p) = 0
    BY <1>2 DEF release, do_release, ReleaseNothing, ReleaseToPool, HandOff, admitted
  <2> QED BY <2>1, <1>1, PidsAssumption, SMTT(30) DEF IoInv, IoTypeOK
<1>3. CASE wait_q # <<>>
  <2> DEFINE w == Head(wait_q)
  <2>1. /\ owners' = [owners EXCEPT ![p] = -1, ![w] = owners[p]]
        /\ wait_q' = Tail(wait_q) /\ admitted(p) = w
    BY <1>3 DEF release, do_release, ReleaseNothing, ReleaseToPool, HandOff, admitted
  <2>2. w \in Pids /\ Elements(wait_q) = {w} \cup Elements(wait_q')
    BY <2>1, <1>3, TailElements, SMTT(30) DEF IoInv, IoTypeOK
  <2>3. w # p
    BY <2>2, <1>1
  <2> HIDE DEF w
  <2>4. \A q \in Pids : owners'[q] = IF q = w THEN owners[p]
                                     ELSE IF q = p THEN -1 ELSE owners[q]
    BY <2>1, <2>2, <2>3 DEF IoInv, IoTypeOK
  <2> QED BY <2>1, <2>2, <2>3, <2>4, <1>1, ZenonT(60)
<1> QED BY <1>2, <1>3, ZenonT(60)

(* The slot handed on is quiet: no DMA is pending in it, and its new owner *)
(* was waiting for it and is awake.                                        *)
LEMMA ReleaseDiskInv ==
    ASSUME DiskInv, NEW p \in Pids, release_disk(p)
    PROVE  DiskInv'
<1> DEFINE s == owners[p]
           w == admitted(p)
<1>1. /\ current = p /\ pc[p] = "finish" /\ irq_on' = FALSE
      /\ SLOT_WAITER' = [SLOT_WAITER EXCEPT ![s] = 0]
      /\ req' = [req EXCEPT ![p] = NoRequest]
      /\ release(p) /\ state' = wake_pid(w, state)
      /\ pc' = [pc EXCEPT ![p] = "sysret"]
      /\ UNCHANGED <<current, slot_done, slot_status, dev_vars>>
  BY ZenonT(60) DEF release_disk
<1>2. /\ UNCHANGED <<current, slot_done, slot_status>>
      /\ UNCHANGED <<buf, status, header, avail, used, isr, disk>>
  BY <1>1 DEF dev_vars
<1>3. DiskTypeOK /\ IoInv
  BY DEF DiskInv
<1>4. s \in Slots /\ s # -1 /\ s \notin avail \cup used /\ \A q \in Pids \ {p} : owners[q] # s
  BY <1>1, SlotOwner DEF Holding
<1>5. IoInv' /\ IoTypeOK'
  BY <1>1, <1>3, NextIoInv DEF IoNext, IoInv
<1>6. /\ owners'[p] = -1 /\ w # p /\ p \notin Elements(wait_q')
      /\ \A q \in Pids \ {p, w} : /\ owners'[q] = owners[q]
                                  /\ q \in Elements(wait_q') <=> q \in Elements(wait_q)
      /\ w \in Pids => owners'[w] = s /\ w \in Elements(wait_q)
  BY <1>1, <1>3, <1>4, ReleaseEffect, ZenonT(60)
<1> HIDE DEF s, w
<1>7. w \in Pids => pc[w] \in Queued
  <2>1. \A q \in Elements(wait_q) : owners[q] = -1
    BY <1>3, SMTT(30) DEF IoInv, WaitersOnlyWhenFull
  <2>2. \A q \in Pids : pc[q] \in Outside \cup Queued \cup Holding
    BY <1>3, Zenon DEF DiskTypeOK, PCs, Outside, Queued, Holding
  <2> QED BY <2>1, <2>2, <1>6, ZenonT(60) DEF DiskInv, PoolUse
<1>8. /\ \A q \in Pids \ {p} : pc'[q] = pc[q] /\ req'[q] = req[q]
      /\ pc'[p] = "sysret"
      /\ \A t \in Slots \ {s} : SLOT_WAITER'[t] = SLOT_WAITER[t]
  BY <1>1, <1>3, <1>4, Zenon DEF DiskTypeOK
<1>9. /\ state' \in [Pids -> {"Runnable", "Blocked"}]
      /\ \A q \in Pids : state'[q] = "Blocked" => q # w /\ state[q] = "Blocked"
  BY <1>1, <1>3 DEF DiskTypeOK, wake_pid
<1>10. DiskTypeOK'
  BY <1>1, <1>2, <1>3, <1>4, <1>5, <1>9, ZenonT(60) DEF DiskTypeOK, PCs
<1>11. PoolUse'
  BY <1>4, <1>6, <1>7, <1>8, ZenonT(60) DEF DiskInv, PoolUse, Outside, Queued, Holding
<1>12. \A q \in Pids \ {p} : pc[q] \in Holding => q # w /\ owners[q] \in Slots \ {s}
  BY <1>4, <1>7, SlotOwner, Zenon DEF Holding, Queued
<1>13. Armed' /\ Awaited'
  BY <1>1, <1>2, <1>6, <1>8, <1>12, SMTT(30) DEF DiskInv, Armed, Awaited, Holding
<1>14. SlotsMatch'
  <2>1. SlotsMatch!(p)'
    BY <1>8, Zenon DEF Outside, Submitted
  <2>2. ASSUME NEW q \in Pids \ {p} PROVE SlotsMatch!(q)'
    <3>1. pc'[q] = pc[q] /\ req'[q] = req[q]
      BY <1>8, Zenon
    <3>2. pc[q] \in Submitted => owners'[q] = owners[q]
      BY <1>6, <1>12, ZenonT(60) DEF Submitted, Holding
    <3> QED BY <3>1, <3>2, <1>2, ZenonT(60) DEF DiskInv, SlotsMatch
  <2> QED BY <2>1, <2>2, ZenonT(60) DEF SlotsMatch
<1>15. IrqComing'
  BY <1>2, Zenon DEF DiskInv, IrqComing
<1>16. DmaOnlyWhileAwaited'
  <2>1. ASSUME NEW t \in avail' \cup used'
        PROVE  \E q \in Pids : /\ owners'[q] = t
                               /\ pc'[q] \in {"arm", "done?", "done!"}
                               /\ pc'[q] # "arm" => ~slot_done'[t]
    <3>1. PICK q \in Pids : /\ owners[q] = t
                            /\ pc[q] \in {"arm", "done?", "done!"}
                            /\ pc[q] # "arm" => ~slot_done[t]
      BY <2>1, <1>2, Zenon DEF DiskInv, DmaOnlyWhileAwaited
    <3>2. q # p /\ q # w
      BY <3>1, <1>1, <1>12, Zenon DEF Holding
    <3> QED BY <3>1, <3>2, <1>2, <1>6, <1>8, ZenonT(60)
  <2>2. avail' \cap used' = {}
    BY <1>2, Zenon DEF DiskInv, DmaOnlyWhileAwaited
  <2> QED BY <2>1, <2>2 DEF DmaOnlyWhileAwaited
<1>17. SleepersWillBeWoken'
  <2>1. ASSUME NEW q \in Pids, state'[q] = "Blocked"
        PROVE  /\ q \notin {p, w}
               /\ \/ pc[q] = "grant!" /\ q \in Elements(wait_q)
                  \/ /\ pc[q] = "done!" /\ SLOT_WAITER[owners[q]] = q
                     /\ owners[q] \in avail \/ (owners[q] \in used /\ isr)
    <3>1. q # w /\ state[q] = "Blocked"
      BY <2>1, <1>9
    <3>2. pc[p] \notin {"grant!", "done!"}
      BY <1>1
    <3> QED BY <3>1, <3>2, ZenonT(60) DEF DiskInv, SleepersWillBeWoken
  <2> QED BY <2>1, <1>2, <1>6, <1>8, <1>12, SMTT(30) DEF SleepersWillBeWoken, Holding
<1> QED BY <1>5, <1>10, <1>11, <1>13, <1>14, <1>15, <1>16, <1>17, SMTT(30) DEF DiskInv

LEMMA NextDiskInv == DiskInv /\ [DiskNext]_disk_vars => DiskInv'
<1> SUFFICES ASSUME DiskInv, [DiskNext]_disk_vars PROVE DiskInv'
  OBVIOUS
<1>1. CASE UNCHANGED disk_vars
  <2>1. /\ UNCHANGED <<io_vars, mode, free, owners, wait_q, current, irq_on, state, pc, req>>
        /\ UNCHANGED <<slot_done, slot_status, SLOT_WAITER, buf, status, header>>
        /\ UNCHANGED <<avail, used, isr, disk>>
    BY <1>1 DEF disk_vars, io_vars, cpu_vars, drv_vars, dev_vars
  <2>2. IoInv' /\ IoTypeOK'
    BY <2>1, PoolUntouched
  <2> QED BY <2>1, <2>2, ZenonT(60) DEF DiskInv, DiskTypeOK, PoolUse, Armed, Awaited, SlotsMatch,
                            IrqComing, DmaOnlyWhileAwaited, SleepersWillBeWoken
<1>2. ASSUME NEW p \in Pids, Continue(p) PROVE DiskInv'
  BY <1>2, CheckGrantInv, ParkInv, SubmitInv, ArmWaitInv, CheckDoneInv,
     ReleaseDiskInv, SysRetInv, Zenon DEF Continue
<1> QED BY <1>1, <1>2, AcquireDiskInv, SpuriousWakeInv, DeviceCompleteInv,
           OnIrqInv, ScheduleInv DEF DiskNext

-----------------------------------------------------------------------------

(* Where each process is in read_sector or write_sector tells what it has  *)
(* of the pool, of the device and of the interrupt, in every behaviour.    *)
THEOREM DiskInvariant == DiskSpec => []DiskInv
BY InitDiskInv, NextDiskInv, PTL DEF DiskSpec

(* read_sector and write_sector lose nothing, however many processes share *)
(* however few slots: the device writes only into the buffers of a process *)
(* that waits for them, and whoever sleeps has a wakeup coming.            *)
THEOREM DiskIsSound == DiskSpec => []DiskSound
<1>1. DiskInv => DiskSound
  BY DEF DiskInv, DiskSound
<1> QED BY <1>1, DiskInvariant, PTL

(* The driver keeps the IoScheduler's contract: a process asks for a slot  *)
(* only when it has none and is not queued, so all that is proved of the   *)
(* pool holds of the pool in use.                                          *)
THEOREM DriverUsesPool == DiskSpec => UsesPoolCorrectly
<1>1. DiskInit => IoInit
  BY DEF DiskInit
<1>2. DiskInv /\ [DiskNext]_disk_vars => [IoNext]_io_vars
  <2> SUFFICES ASSUME DiskInv, [DiskNext]_disk_vars PROVE IoNext \/ UNCHANGED io_vars
    OBVIOUS
  <2>1. CASE UNCHANGED disk_vars
    BY <2>1 DEF disk_vars
  <2>2. ASSUME NEW p \in Pids, Continue(p) PROVE IoNext \/ UNCHANGED io_vars
    BY <2>2, ZenonT(60) DEF Continue, CheckGrant, Park, submit, ArmWait, CheckDone, release_disk,
                SysRet, IoNext
  <2>3. ASSUME NEW p \in Pids, SpuriousWake(p) PROVE UNCHANGED io_vars
    BY <2>3 DEF SpuriousWake
  <2>4. ASSUME NEW s \in Slots, DeviceComplete(s) PROVE UNCHANGED io_vars
    BY <2>4, ZenonT(60) DEF DeviceComplete
  <2>5. on_irq \/ schedule => UNCHANGED io_vars
    BY DEF on_irq, schedule
  <2> QED BY <2>1, <2>2, <2>3, <2>4, <2>5, AcquireAllowed DEF DiskNext
<1> QED BY <1>1, <1>2, DiskInvariant, PTL DEF DiskSpec, UsesPoolCorrectly, IoSpec

-----------------------------------------------------------------------------
(* The refinement of SectorStore.                                          *)

(* The call of the sector store that a process is in.                      *)
AbsCall ==
    [p \in Pids |->
        IF pc[p] \in {"user", "sysret"} THEN [st |-> "idle"]
        ELSE IF ~Completed(p) THEN [st |-> "pending", req |-> req[p]]
        ELSE [st |-> "done", req |-> req[p],
              ok |-> status[owners[p]] = OK, val |-> buf[owners[p]]]]

LEMMA StoreInvoke ==
    ASSUME NEW p \in Pids, AbsCall[p].st = "idle",
           NEW r \in Requests, AbsCall' = [AbsCall EXCEPT ![p] = [st |-> "pending", req |-> r]],
           ret' = [ret EXCEPT ![p] = <<>>], disk' = disk
    PROVE  Store!StoreNext
<1>1. Store!Invoke(p)
  BY ZenonT(60) DEF Store!Invoke, Store!Pending, Store!Requests, Requests, AbsCall
<1> QED BY <1>1 DEF Store!StoreNext

LEMMA StoreReturn ==
    ASSUME NEW p \in Pids, AbsCall[p].st = "done",
           ret' = [ret EXCEPT ![p] = IF AbsCall[p].ok /\ AbsCall[p].req.op = "read"
                                     THEN <<AbsCall[p].ok, AbsCall[p].val>>
                                     ELSE <<AbsCall[p].ok>>],
           AbsCall' = [AbsCall EXCEPT ![p] = [st |-> "idle"]], disk' = disk
    PROVE  Store!StoreNext
<1>1. Store!Return(p)
  BY ZenonT(60) DEF Store!Return, Store!Answer, Store!Idle, AbsCall
<1> QED BY <1>1, Zenon DEF Store!StoreNext

LEMMA StoreTakeEffect ==
    ASSUME NEW p \in Pids, NEW r, NEW ok, NEW v,
           AbsCall[p].st = "pending", AbsCall[p].req = r,
           AbsCall' = [AbsCall EXCEPT ![p] = [st |-> "done", req |-> r, ok |-> ok, val |-> v]],
           \/ r.op = "read" /\ ok = TRUE /\ v = disk[r.sec] /\ disk' = disk
           \/ r.op = "write" /\ ok = TRUE /\ v = r.val /\ disk' = [disk EXCEPT ![r.sec] = r.val]
           \/ ok = FALSE /\ v \in Values /\ disk' = disk,
           ret' = ret
    PROVE  Store!StoreNext
<1>1. Store!TakeEffect(p)
  BY ZenonT(60) DEF Store!TakeEffect, Store!Done, AbsCall
<1> QED BY <1>1, ZenonT(60) DEF Store!StoreNext

LEMMA StoreStutter ==
    ASSUME AbsCall' = AbsCall, ret' = ret, disk' = disk
    PROVE  UNCHANGED Store!store_vars
BY ZenonT(60) DEF Store!store_vars, AbsCall

LEMMA StoreInitially == DiskInit => Store!StoreInit
BY ZenonT(60) DEF DiskInit, Store!StoreInit, Store!Idle

(* What a step must leave alone for a call to stay where it is.            *)
LEMMA CallKept ==
    ASSUME NEW q \in Pids, pc[q] \in Outside <=> pc'[q] \in Outside,
           pc[q] \notin Outside =>
              /\ req'[q] = req[q] /\ (Completed(q)' <=> Completed(q))
              /\ Completed(q) => /\ status'[owners'[q]] = status[owners[q]]
                                 /\ buf'[owners'[q]] = buf[owners[q]]
    PROVE  AbsCall'[q] = AbsCall[q]
<1>1. CASE pc[q] \in Outside
  BY <1>1, ZenonT(60) DEF AbsCall, Outside
<1>2. CASE pc[q] \notin Outside /\ ~Completed(q)
  BY <1>2, ZenonT(60) DEF AbsCall, Outside
<1>3. CASE pc[q] \notin Outside /\ Completed(q)
  BY <1>3, ZenonT(60) DEF AbsCall, Outside
<1> QED BY <1>1, <1>2, <1>3, Zenon

(* A step that leaves the slots and what is known of them alone, and moves *)
(* no process across a boundary of its call, is none of the sector store.  *)
LEMMA QuietStep ==
    ASSUME UNCHANGED <<owners, req, avail, status, buf, ret, disk>>,
           \A q \in Pids : /\ pc[q] \in Outside <=> pc'[q] \in Outside
                           /\ Completed(q)' <=> Completed(q)
    PROVE  UNCHANGED Store!store_vars
<1>1. \A q \in Pids : AbsCall'[q] = AbsCall[q]
  BY CallKept, ZenonT(60)
<1>2. AbsCall' = AbsCall
  BY <1>1, ZenonT(60) DEF AbsCall
<1> QED BY <1>2, StoreStutter, Zenon

(* Waiting for a slot and for a completion, waking, returning to user mode.*)
LEMMA WaitingIsQuiet ==
    ASSUME DiskInv, NEW p \in Pids,
           CheckGrant(p) \/ Park(p, "grant!", "grant?") \/ Park(p, "done!", "done?")
           \/ ArmWait(p) \/ SysRet(p) \/ SpuriousWake(p)
    PROVE  UNCHANGED Store!store_vars
<1>1. /\ UNCHANGED <<owners, req, avail, status, buf, ret, disk>>
      /\ \/ pc' = pc
         \/ /\ pc[p] \in Queued
            /\ \E to \in Queued \cup {"submit"} : pc' = [pc EXCEPT ![p] = to]
         \/ /\ pc[p] \in {"arm", "done!"}
            /\ pc' = [pc EXCEPT ![p] = "done?"]
         \/ /\ pc[p] = "sysret"
            /\ pc' = [pc EXCEPT ![p] = "user"]
  BY ZenonT(60) DEF CheckGrant, CheckOrBlock, Park, ArmWait, SysRet, SpuriousWake,
         io_vars, drv_vars, dev_vars, cpu_vars, Queued
<1>2. pc \in [Pids -> PCs]
  BY SMTT(30) DEF DiskInv, DiskTypeOK
<1>3. ASSUME NEW q \in Pids
      PROVE  (pc[q] \in Outside <=> pc'[q] \in Outside) /\ (Completed(q)' <=> Completed(q))
  BY <1>1, <1>2 DEF Outside, Queued, Completed
<1> QED BY <1>1, <1>3, QuietStep

(* A waiter goes on only once its request has been completed.              *)
LEMMA CheckDoneIsQuiet ==
    ASSUME DiskInv, NEW p \in Pids, CheckDone(p)
    PROVE  UNCHANGED Store!store_vars
<1>1. /\ pc[p] = "done?" /\ drain_used
      /\ pc' = [pc EXCEPT ![p] = IF slot_done'[owners[p]] THEN "finish" ELSE "done!"]
      /\ UNCHANGED <<owners, req, SLOT_WAITER, buf>> /\ UNCHANGED <<status, header, avail>>
      /\ UNCHANGED <<ret, disk>>
  BY SMTT(30) DEF CheckDone, CheckOrBlock, io_vars
<1>2. pc \in [Pids -> PCs]
  BY SMTT(30) DEF DiskInv, DiskTypeOK
<1>3. owners[p] \in Slots
  BY <1>1, SlotOwner, Zenon DEF Holding
<1>4. slot_done'[owners[p]] => owners[p] \notin avail
  BY <1>1, <1>3, Drained, Zenon
<1>5. ASSUME NEW q \in Pids
      PROVE  (pc[q] \in Outside <=> pc'[q] \in Outside) /\ (Completed(q)' <=> Completed(q))
  BY <1>1, <1>2, <1>4 DEF Outside, Completed
<1> QED BY <1>1, <1>5, QuietStep, ZenonT(60)

(* Publishing the request changes no buffer that somebody has yet to read. *)
LEMMA SubmitIsQuiet ==
    ASSUME DiskInv, NEW p \in Pids, submit(p)
    PROVE  UNCHANGED Store!store_vars
<1> DEFINE s == owners[p]
<1>1. /\ pc[p] = "submit" /\ pc' = [pc EXCEPT ![p] = "arm"]
      /\ buf' = IF req[p].op = "write" THEN [buf EXCEPT ![s] = req[p].val] ELSE buf
      /\ status' = [status EXCEPT ![s] = SENTINEL] /\ avail' = avail \cup {s}
      /\ UNCHANGED <<owners, req, ret, disk>>
  BY Zenon DEF submit, io_vars
<1>2. DiskTypeOK
  BY DEF DiskInv
<1>3. s # -1 /\ \A q \in Pids \ {p} : owners[q] # s
  BY <1>1, SlotOwner, ZenonT(60) DEF Holding
<1>4. \A q \in Pids \ {p} : Completed(q) => owners[q] \in Slots \ {s}
  BY <1>3, SlotOwner, Zenon DEF Completed, Holding
<1> HIDE DEF s
<1>5. \A t \in Slots \ {s} : status'[t] = status[t] /\ buf'[t] = buf[t]
  BY <1>1, <1>2, Zenon DEF DiskTypeOK
<1>6. ASSUME NEW q \in Pids \ {p} PROVE AbsCall'[q] = AbsCall[q]
  <2>1. pc'[q] = pc[q] /\ req'[q] = req[q] /\ owners'[q] = owners[q]
    BY <1>1, <1>2, Zenon DEF DiskTypeOK
  <2>2. owners[q] \in avail' <=> owners[q] \in avail
    BY <1>1, <1>3, Zenon
  <2>3. Completed(q)' <=> Completed(q)
    BY <2>1, <2>2 DEF Completed
  <2> QED BY <2>1, <2>3, <1>4, <1>5, CallKept, Zenon
<1>7. AbsCall'[p] = AbsCall[p]
  <2>1. pc'[p] = "arm" /\ req'[p] = req[p] /\ owners'[p] \in avail'
    BY <1>1, <1>2 DEF DiskTypeOK, s
  <2>2. ~Completed(p) /\ ~Completed(p)'
    BY <2>1, <1>1, ZenonT(60) DEF Completed
  <2> QED BY <2>1, <2>2, <1>1, CallKept, ZenonT(60) DEF Outside
<1>8. AbsCall' = AbsCall
  BY <1>6, <1>7, ZenonT(60) DEF AbsCall
<1> QED BY <1>1, <1>8, StoreStutter, ZenonT(60)

(* Entry is the invocation: nobody else's slot or request changes.         *)
LEMMA AcquireInvokes ==
    ASSUME DiskInv, NEW p \in Pids, acquire_disk(p)
    PROVE  Store!StoreNext
<1>1. /\ pc[p] \in Outside /\ ret' = [ret EXCEPT ![p] = <<>>]
      /\ pc' = [pc EXCEPT ![p] = IF owners'[p] # -1 THEN "submit" ELSE "grant?"]
      /\ UNCHANGED <<avail, status, buf, disk>>
  BY ZenonT(60) DEF acquire_disk, dev_vars, Outside
<1>2. PICK r \in Requests : req' = [req EXCEPT ![p] = r]
  BY ZenonT(60) DEF acquire_disk
<1>3. DiskTypeOK /\ IoInv
  BY DEF DiskInv
<1>4. \A q \in Pids \ {p} : owners'[q] = owners[q]
  BY AcquireAllowed, AcquireEffect, <1>3, ZenonT(60)
<1>5. ASSUME NEW q \in Pids \ {p} PROVE AbsCall'[q] = AbsCall[q]
  <2>1. pc'[q] = pc[q] /\ req'[q] = req[q] /\ owners'[q] = owners[q]
    BY <1>1, <1>2, <1>3, <1>4 DEF DiskTypeOK
  <2>2. Completed(q)' <=> Completed(q)
    BY <2>1, <1>1, ZenonT(60) DEF Completed
  <2> QED BY <2>1, <2>2, <1>1, CallKept, Zenon
<1>6. AbsCall'[p] = [st |-> "pending", req |-> r]
  <2>1. pc'[p] \in {"submit", "grant?"} /\ req'[p] = r
    BY <1>1, <1>2, <1>3 DEF DiskTypeOK
  <2> QED BY <2>1, ZenonT(60) DEF AbsCall, Completed
<1>7. AbsCall[p].st = "idle"
  BY <1>1, ZenonT(60) DEF AbsCall, Outside
<1>8. AbsCall' = [AbsCall EXCEPT ![p] = [st |-> "pending", req |-> r]]
  BY <1>5, <1>6, ZenonT(60) DEF AbsCall
<1> QED BY <1>1, <1>7, <1>8, StoreInvoke, ZenonT(60)

(* The device's completion is the instant at which the call of the slot's  *)
(* owner takes effect.                                                     *)
LEMMA CompletionTakesEffect ==
    ASSUME DiskInv, NEW s \in Slots, DeviceComplete(s)
    PROVE  Store!StoreNext
<1>1. PICK p \in Pids : owners[p] = s /\ pc[p] \in {"arm", "done?", "done!"}
  BY ZenonT(60) DEF DeviceComplete, DiskInv, DmaOnlyWhileAwaited
<1> DEFINE r == req[p]
           ok == status'[s] = OK
           v == buf'[s]
<1>2. /\ s \in avail /\ avail' = avail \ {s}
      /\ UNCHANGED <<pc, req, ret, owners>>
  BY Zenon DEF DeviceComplete, io_vars
<1>3. DiskTypeOK
  BY SMTT(30) DEF DiskInv
<1>4. r \in Requests /\ header[s] = r /\ (r.op = "write" => buf[s] = r.val)
  BY <1>1, <1>2, Zenon DEF DiskInv, SlotsMatch, Outside, Submitted
<1>5. /\ \A t \in Slots \ {s} : status'[t] = status[t] /\ buf'[t] = buf[t]
      /\ \/ r.op = "read" /\ ok = TRUE /\ v = disk[r.sec] /\ disk' = disk
         \/ r.op = "write" /\ ok = TRUE /\ v = r.val /\ disk' = [disk EXCEPT ![r.sec] = r.val]
         \/ ok = FALSE /\ v \in Values /\ disk' = disk
  BY <1>3, <1>4, ZenonT(60) DEF DeviceComplete, DiskTypeOK
<1>6. s # -1 /\ \A q \in Pids \ {p} : owners[q] # s
  BY <1>1, SlotOwner, ZenonT(60)
<1>7. ASSUME NEW q \in Pids \ {p} PROVE AbsCall'[q] = AbsCall[q]
  <2>1. Completed(q)' <=> Completed(q)
    BY <1>2, <1>6, Zenon DEF Completed
  <2>2. Completed(q) => owners[q] \in Slots \ {s}
    BY <1>6, SlotOwner DEF Completed, Holding
  <2> QED BY <2>1, <2>2, <1>2, <1>5, CallKept, ZenonT(60)
<1>8. AbsCall[p] = [st |-> "pending", req |-> r]
  BY <1>1, <1>2, ZenonT(60) DEF AbsCall, Completed
<1>9. AbsCall'[p] = [st |-> "done", req |-> r, ok |-> ok, val |-> v]
  BY <1>1, <1>2, ZenonT(60) DEF AbsCall, Completed
<1> HIDE DEF r, ok, v
<1>10. AbsCall' = [AbsCall EXCEPT ![p] = [st |-> "done", req |-> r, ok |-> ok, val |-> v]]
  BY <1>7, <1>9, ZenonT(60) DEF AbsCall
<1>11. AbsCall[p].st = "pending" /\ AbsCall[p].req = r
  BY <1>8
<1> QED BY <1>2, <1>5, <1>10, <1>11, StoreTakeEffect, ZenonT(60)

(* The release is the return: what the caller is told is what the device   *)
(* wrote, and the process that gets the slot is still to submit.           *)
LEMMA ReleaseReturns ==
    ASSUME DiskInv, NEW p \in Pids, release_disk(p)
    PROVE  Store!StoreNext
<1> DEFINE s == owners[p]
           w == admitted(p)
           ok == status[s] = OK
<1>1. /\ pc[p] = "finish" /\ release(p)
      /\ req' = [req EXCEPT ![p] = NoRequest] /\ pc' = [pc EXCEPT ![p] = "sysret"]
      /\ UNCHANGED <<avail, status, buf, disk>>
  BY ZenonT(60) DEF release_disk, dev_vars
<1>2. ret' = [ret EXCEPT ![p] = IF slot_status[s] = OK /\ req[p].op = "read"
                                THEN <<slot_status[s] = OK, buf[s]>>
                                ELSE <<slot_status[s] = OK>>]
  BY ZenonT(60) DEF release_disk
<1>3. DiskTypeOK /\ IoInv
  BY DEF DiskInv
<1>4. s \in Slots /\ s # -1
  BY <1>1, SlotOwner, Zenon DEF Holding
<1>5. slot_status[s] = status[s]
  BY <1>1 DEF DiskInv, Awaited, SlotsMatch, Submitted
<1>6. /\ \A q \in Pids \ {p, w} : owners'[q] = owners[q]
      /\ w \in Pids => w # p /\ w \in Elements(wait_q)
  BY <1>1, <1>3, <1>4, ReleaseEffect, ZenonT(60)
<1>7. w \in Pids => pc[w] \in Queued
  <2>1. \A q \in Elements(wait_q) : owners[q] = -1
    BY <1>3 DEF IoInv, WaitersOnlyWhenFull
  <2>2. \A q \in Pids : pc[q] \in Outside \cup Queued \cup Holding
    BY <1>3 DEF DiskTypeOK, PCs, Outside, Queued, Holding
  <2> QED BY <2>1, <2>2, <1>6, ZenonT(60) DEF DiskInv, PoolUse
<1> HIDE DEF s, w, ok
<1>8. ASSUME NEW q \in Pids \ {p} PROVE AbsCall'[q] = AbsCall[q]
  <2>1. pc'[q] = pc[q] /\ req'[q] = req[q]
    BY <1>1, <1>3 DEF DiskTypeOK
  <2>2. CASE q = w
    <3>1. ~Completed(q) /\ ~Completed(q)'
      BY <2>1, <2>2, <1>7, ZenonT(60) DEF Completed, Queued
    <3> QED BY <2>1, <3>1, CallKept, ZenonT(60)
  <2>3. CASE q # w
    <3>1. owners'[q] = owners[q]
      BY <2>3, <1>6, Zenon
    <3>2. Completed(q)' <=> Completed(q)
      BY <2>1, <3>1, <1>1, Zenon DEF Completed
    <3> QED BY <2>1, <3>1, <3>2, <1>1, CallKept, ZenonT(60)
  <2> QED BY <2>2, <2>3, Zenon
<1>9. AbsCall[p] = [st |-> "done", req |-> req[p], ok |-> ok, val |-> buf[s]]
  BY <1>1, ZenonT(60) DEF AbsCall, Completed, s, ok
<1>10. AbsCall'[p] = [st |-> "idle"]
  <2>1. pc'[p] = "sysret"
    BY <1>1, <1>3 DEF DiskTypeOK
  <2> QED BY <2>1, ZenonT(60) DEF AbsCall
<1>11. AbsCall' = [AbsCall EXCEPT ![p] = [st |-> "idle"]]
  BY <1>8, <1>10, ZenonT(60) DEF AbsCall
<1>12. /\ AbsCall[p].st = "done" /\ AbsCall[p].req = req[p]
       /\ AbsCall[p].ok = ok /\ AbsCall[p].val = buf[s]
  BY <1>9, SMTT(30)
<1>13. ok = (slot_status[s] = OK)
  BY <1>5 DEF ok
<1> QED BY <1>1, <1>2, <1>11, <1>12, <1>13, StoreReturn, ZenonT(60)

(* However many processes queue for however few slots, and in whatever     *)
(* order the device completes their requests: read_sector and write_sector *)
(* behave as if each call acted on its sector at one instant between its   *)
(* entry and its return, and returned what it found.                       *)
THEOREM DiskImplementsStore == DiskSpec => ImplementsSectorStore
<1>1. DiskInv /\ [DiskNext]_disk_vars => [Store!StoreNext]_(Store!store_vars)
  <2> SUFFICES ASSUME DiskInv, [DiskNext]_disk_vars
               PROVE  Store!StoreNext \/ UNCHANGED Store!store_vars
    OBVIOUS
  <2>1. CASE UNCHANGED disk_vars
    <3>1. UNCHANGED <<owners, req, avail, status, buf, ret, disk, pc>>
      BY <2>1, SMTT(30) DEF disk_vars, io_vars, cpu_vars, drv_vars, dev_vars
    <3>2. \A q \in Pids : Completed(q)' <=> Completed(q)
      BY <3>1, SMTT(30) DEF Completed
    <3> QED BY <3>1, <3>2, QuietStep, SMTT(30)
  <2>2. ASSUME NEW p \in Pids, Continue(p)
        PROVE  Store!StoreNext \/ UNCHANGED Store!store_vars
    BY <2>2, WaitingIsQuiet, CheckDoneIsQuiet, SubmitIsQuiet, ReleaseReturns, SMTT(30) DEF Continue
  <2>3. on_irq \/ schedule => UNCHANGED Store!store_vars
    <3>1. ASSUME on_irq \/ schedule
          PROVE  UNCHANGED <<owners, req, avail, status, buf, ret, disk, pc>>
      BY <3>1, SMTT(30) DEF on_irq, schedule, io_vars, drv_vars, dev_vars
    <3>2. (on_irq \/ schedule) => \A q \in Pids : Completed(q)' <=> Completed(q)
      BY <3>1 DEF Completed
    <3> QED BY <3>1, <3>2, QuietStep, SMTT(30)
  <2> QED BY <2>1, <2>2, <2>3, AcquireInvokes, WaitingIsQuiet, CompletionTakesEffect, SMTT(30)
             DEF DiskNext
<1> QED BY <1>1, StoreInitially, DiskInvariant, PTL
        DEF DiskSpec, ImplementsSectorStore, Store!StoreSpec
=============================================================================
