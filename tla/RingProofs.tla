----------------------------- MODULE RingProofs -----------------------------
(***************************************************************************)
(* The rings, for every length of the ring and any number of laps.         *)
(*                                                                         *)
(* The rings a driver shares with its device: the cycle bit of the xHCI    *)
(* rings and the wrapped indices of the virtio queues tell each side       *)
(* exactly which entries are outstanding.                                  *)
(*                                                                         *)
(* The pipe: it hands over its bytes in order, for any sizes of reads and  *)
(* writes and any interleaving of the reader's poll with the writer.  Two  *)
(* facts about its ring are kept beside each other.  InStep: as long as    *)
(* len accounts for every byte, the unread bytes start at tail and end at  *)
(* head.  FirstLap: until the ring wraps, a byte's place is its number,    *)
(* whatever len says.  Counts says why neither is upset by a lost update:  *)
(* the race can only make len too small, so a read never goes past head.   *)
(***************************************************************************)
EXTENDS XhciRing, VirtioNet, Pipe, TLAPS

(* The xHCI transfer and event rings.                                      *)

(* Of a ring of size n that carries TRBs: the slots before the producer's  *)
(* are of its lap, the others of the lap before.                           *)
Laps(r, n, e, cycle) ==
    \A i \in 0 .. n - 1 : r[i].cycle = IF i < e THEN cycle ELSE 1 - cycle

(* The TRBs from the consumer's slot c to the producer's e, the producer   *)
(* being on the same lap or one lap ahead, are the next ones from k on.    *)
Numbered(r, n, e, c, same, k) ==
    /\ \A i \in 0 .. n - 1 : i >= c /\ (same => i < e) => r[i].id = k + (i - c)
    /\ ~same => \A i \in 0 .. n - 1 : i < e => r[i].id = k + (n - c) + i

(* The transfer ring: the last slot is the Link TRB, which the producer    *)
(* has handed over when it is a lap ahead.                                 *)
TransferInv ==
    /\ ring \in [0 .. Link -> [id : Int, cycle : {0, 1}]]
    /\ enq \in 0 .. Link /\ deq \in 0 .. Link
    /\ pcs \in {0, 1} /\ ccs \in {0, 1}
    /\ put \in Nat /\ consumed \in Nat
    /\ put - consumed <= MaxOutstanding
    /\ put - consumed = IF pcs = ccs THEN enq - deq ELSE (Link - deq) + enq
    /\ pcs = ccs => deq <= enq
    /\ pcs # ccs => enq > 0 /\ ring[Link].cycle = ccs
    /\ Laps(ring, Link, enq, pcs)
    /\ Numbered(ring, Link, enq, deq, pcs = ccs, consumed)

(* The event ring has no Link TRB: all slots carry events.                 *)
EventInv ==
    /\ ering \in [0 .. RING_TRBS - 1 -> [id : Int, cycle : {0, 1}]]
    /\ eenq \in 0 .. RING_TRBS - 1 /\ event_dequeue \in 0 .. RING_TRBS - 1
    /\ epcs \in {0, 1} /\ event_ccs \in {0, 1}
    /\ eput \in Nat /\ egot \in Nat
    /\ eput - egot <= RING_TRBS - 1
    /\ eput - egot = IF epcs = event_ccs THEN eenq - event_dequeue
                     ELSE (RING_TRBS - event_dequeue) + eenq
    /\ epcs = event_ccs => event_dequeue <= eenq
    /\ Laps(ering, RING_TRBS, eenq, epcs)
    /\ Numbered(ering, RING_TRBS, eenq, event_dequeue, epcs = event_ccs, egot)

RingsInv == TransferInv /\ EventInv

-----------------------------------------------------------------------------

LEMMA InitRingsInv == RingInit => RingsInv
<1> SUFFICES ASSUME RingInit PROVE RingsInv
  OBVIOUS
<1> USE RingConstants DEF RingInit, Trb, NoId
<1>1. TransferInv
  <2>1. Link \in Nat /\ Link >= 2
    BY DEF Link
  <2>2. /\ ring \in [0 .. Link -> [id : Int, cycle : {0, 1}]]
        /\ \A i \in 0 .. Link - 1 : ring[i].cycle = 0
    BY <2>1 DEF NewRing
  <2>3. Laps(ring, Link, enq, pcs)
    BY <2>1, <2>2 DEF Laps
  <2>4. Numbered(ring, Link, enq, deq, pcs = ccs, consumed)
    BY <2>1 DEF Numbered
  <2> QED BY <2>1, <2>2, <2>3, <2>4 DEF TransferInv
<1>2. EventInv
  BY DEF EventInv, Laps, Numbered, ZeroPage
<1> QED BY <1>1, <1>2 DEF RingsInv

LEMMA LinkSlot == Link \in Nat /\ Link >= 2 /\ MaxOutstanding < Link
BY RingConstants DEF Link

LEMMA EnqueueInv == ASSUME TransferInv, enqueue PROVE TransferInv'
<1> USE LinkSlot
<1> DEFINE wrap == enq >= Link
           at == IF wrap THEN 0 ELSE enq
           cycle == IF wrap THEN 1 - pcs ELSE pcs
<1>1. /\ put - consumed < MaxOutstanding
      /\ ring' = [i \in 0 .. Link |->
                     IF i = at THEN Trb(put, cycle)
                     ELSE IF wrap /\ i = Link THEN Trb(NoId, pcs)
                     ELSE ring[i]]
      /\ enq' = at + 1 /\ pcs' = cycle /\ put' = put + 1
      /\ UNCHANGED <<deq, ccs, consumed>>
  BY DEF enqueue
<1>2. /\ enq \in 0 .. Link /\ deq \in 0 .. Link /\ pcs \in {0, 1} /\ ccs \in {0, 1}
      /\ put \in Nat /\ consumed \in Nat /\ MaxOutstanding \in Nat
      /\ ring \in [0 .. Link -> [id : Int, cycle : {0, 1}]]
      /\ put - consumed = IF pcs = ccs THEN enq - deq ELSE (Link - deq) + enq
      /\ pcs = ccs => deq <= enq
      /\ pcs # ccs => enq > 0 /\ ring[Link].cycle = ccs
  BY RingConstants DEF TransferInv
<1>3. wrap => enq = Link /\ pcs = ccs /\ deq > 0
  BY <1>1, <1>2
<1>4. at \in 0 .. Link - 1 /\ cycle \in {0, 1}
  BY <1>2
<1>5. /\ ring' \in [0 .. Link -> [id : Int, cycle : {0, 1}]]
      /\ ring'[at].id = put /\ ring'[at].cycle = cycle
      /\ wrap => ring'[Link].cycle = pcs
      /\ ~wrap => ring'[Link] = ring[Link]
      /\ \A i \in 0 .. Link - 1 : i # at => ring'[i] = ring[i]
  BY <1>1, <1>2, <1>4 DEF Trb, NoId
<1> HIDE DEF at, cycle
<1>6. Laps(ring, Link, enq, pcs) /\ Numbered(ring, Link, enq, deq, pcs = ccs, consumed)
  BY DEF TransferInv
<1>7. Laps(ring', Link, enq', pcs')
  BY <1>1, <1>2, <1>4, <1>5, <1>6 DEF Laps, at, cycle
<1>8. Numbered(ring', Link, enq', deq', pcs' = ccs', consumed')
  <2>1. CASE wrap
    BY <2>1, <1>1, <1>2, <1>3, <1>4, <1>5, <1>6 DEF Numbered, at, cycle
  <2>2. CASE ~wrap
    <3>1. at = enq /\ enq' = enq + 1 /\ pcs' = pcs
      BY <2>2, <1>1 DEF at, cycle
    <3>2. CASE pcs = ccs
      <4>1. ASSUME NEW i \in 0 .. Link - 1, i >= deq, i < enq'
            PROVE  ring'[i].id = consumed + (i - deq)
        <5>1. CASE i = enq
          BY <5>1, <3>1, <3>2, <1>2, <1>5
        <5>2. CASE i # enq
          <6>1. i < enq /\ ring'[i] = ring[i]
            BY <5>2, <4>1, <3>1, <1>2, <1>5
          <6> QED BY <6>1, <4>1, <3>2, <1>6 DEF Numbered
        <5> QED BY <5>1, <5>2
      <4> QED BY <4>1, <3>1, <3>2, <1>1 DEF Numbered
    <3>3. CASE pcs # ccs
      <4>1. enq < deq
        BY <3>3, <1>1, <1>2
      <4>2. \A i \in 0 .. Link - 1 : i >= deq => ring'[i].id = consumed + (i - deq)
        BY <4>1, <3>1, <3>3, <1>2, <1>5, <1>6 DEF Numbered
      <4>3. ASSUME NEW i \in 0 .. Link - 1, i < enq'
            PROVE  ring'[i].id = consumed + (Link - deq) + i
        <5>1. CASE i = enq
          BY <5>1, <3>1, <3>3, <1>2, <1>5
        <5>2. CASE i # enq
          <6>1. i < enq /\ ring'[i] = ring[i]
            BY <5>2, <4>3, <3>1, <1>2, <1>5
          <6> QED BY <6>1, <3>3, <1>6 DEF Numbered
        <5> QED BY <5>1, <5>2
      <4> QED BY <4>2, <4>3, <3>1, <3>3, <1>1, Zenon DEF Numbered
    <3> QED BY <3>2, <3>3
  <2> QED BY <2>1, <2>2
<1>9. /\ enq' \in 0 .. Link /\ put' \in Nat /\ put' - consumed' <= MaxOutstanding
      /\ pcs' \in {0, 1}
      /\ put' - consumed' = IF pcs' = ccs' THEN enq' - deq' ELSE (Link - deq') + enq'
      /\ pcs' = ccs' => deq' <= enq'
      /\ pcs' # ccs' => enq' > 0 /\ ring'[Link].cycle = ccs'
  BY <1>1, <1>2, <1>3, <1>5 DEF at, cycle
<1> QED BY <1>1, <1>2, <1>5, <1>7, <1>8, <1>9 DEF TransferInv, Link

(* What the consumer sees.                                                 *)
LEMMA TransferExact ==
    ASSUME TransferInv
    PROVE  /\ Visible <=> put > consumed
           /\ Visible => ring[At].id = consumed
<1> USE LinkSlot DEF TransferInv
<1>1. CASE pcs = ccs
  <2>1. deq = Link => enq = Link
    BY <1>1
  <2>2. ring[0].cycle = IF 0 < enq THEN pcs ELSE 1 - pcs
    BY DEF Laps
  <2>3. deq < Link => /\ ring[deq].cycle = IF deq < enq THEN pcs ELSE 1 - pcs
                      /\ deq < enq => ring[deq].id = consumed
    BY <1>1 DEF Laps, Numbered
  <2> QED BY <1>1, <2>1, <2>2, <2>3 DEF Visible, At, Followed, Cycle
<1>2. CASE pcs # ccs
  <2>1. enq < deq /\ enq > 0 /\ put > consumed /\ ccs = 1 - pcs
    BY <1>2, RingConstants
  <2>2. ring[0].cycle = pcs /\ (deq = Link => ring[0].id = consumed)
    BY <1>2, <2>1 DEF Laps, Numbered
  <2>3. deq < Link => ring[deq].cycle = 1 - pcs /\ ring[deq].id = consumed
    BY <1>2, <2>1 DEF Laps, Numbered
  <2> QED BY <1>2, <2>1, <2>2, <2>3 DEF Visible, At, Followed, Cycle
<1> QED BY <1>1, <1>2

LEMMA ConsumeInv == ASSUME TransferInv, consume PROVE TransferInv'
<1> USE LinkSlot
<1>1. put > consumed /\ Visible
  BY TransferExact DEF consume
<1>2. /\ deq' = At + 1 /\ ccs' = Cycle /\ consumed' = consumed + 1
      /\ UNCHANGED <<ring, enq, pcs, put>>
  BY DEF consume
<1>3. CASE pcs = ccs
  <2>1. ~Followed /\ deq < enq
    <3>1. deq < enq
      BY <1>1, <1>3 DEF TransferInv
    <3> QED BY <3>1 DEF Followed, TransferInv
  <2>2. deq' = deq + 1 /\ ccs' = ccs
    BY <2>1, <1>2 DEF At, Cycle
  <2>3. Numbered(ring, Link, enq, deq', pcs = ccs', consumed')
    BY <2>1, <2>2, <1>2, <1>3 DEF TransferInv, Numbered
  <2> QED BY <2>1, <2>2, <2>3, <1>2, <1>3, RingConstants DEF TransferInv, Link
<1>4. CASE pcs # ccs
  <2>1. CASE deq = Link
    <3>1. deq' = 1 /\ ccs' = 1 - ccs /\ pcs = 1 - ccs
      BY <2>1, <1>2, <1>4 DEF At, Cycle, Followed, TransferInv
    <3>2. Numbered(ring, Link, enq, deq', pcs = ccs', consumed')
      BY <2>1, <3>1, <1>2, <1>4 DEF TransferInv, Numbered
    <3> QED BY <2>1, <3>1, <3>2, <1>2, <1>4, RingConstants, SMTT(30) DEF TransferInv, Link
  <2>2. CASE deq # Link
    <3>1. deq' = deq + 1 /\ ccs' = ccs
      BY <2>2, <1>2 DEF At, Cycle, Followed
    <3>2. Numbered(ring, Link, enq, deq', pcs = ccs', consumed')
      BY <2>2, <3>1, <1>2, <1>4 DEF TransferInv, Numbered
    <3> QED BY <2>2, <3>1, <3>2, <1>2, <1>4, RingConstants, SMTT(30) DEF TransferInv, Link
  <2> QED BY <2>1, <2>2
<1> QED BY <1>3, <1>4

-----------------------------------------------------------------------------
(* The event ring.                                                         *)

LEMMA PostInv == ASSUME EventInv, post_event PROVE EventInv'
<1> DEFINE N == RING_TRBS
           wrap == eenq + 1 = N
<1>1. /\ eput - egot < N - 1
      /\ ering' = [ering EXCEPT ![eenq] = Trb(eput, epcs)]
      /\ eenq' = IF wrap THEN 0 ELSE eenq + 1
      /\ epcs' = IF wrap THEN 1 - epcs ELSE epcs
      /\ eput' = eput + 1
      /\ UNCHANGED <<event_dequeue, event_ccs, egot>>
  BY DEF post_event
<1>2. /\ N \in Nat /\ N > 2
      /\ eenq \in 0 .. N - 1 /\ event_dequeue \in 0 .. N - 1
      /\ epcs \in {0, 1} /\ event_ccs \in {0, 1} /\ eput \in Nat /\ egot \in Nat
      /\ ering \in [0 .. N - 1 -> [id : Int, cycle : {0, 1}]]
      /\ eput - egot = IF epcs = event_ccs THEN eenq - event_dequeue
                       ELSE (N - event_dequeue) + eenq
      /\ epcs = event_ccs => event_dequeue <= eenq
      /\ Laps(ering, N, eenq, epcs)
      /\ Numbered(ering, N, eenq, event_dequeue, epcs = event_ccs, egot)
  BY RingConstants DEF EventInv
<1> HIDE DEF N
<1>3. epcs # event_ccs => eenq + 1 < event_dequeue
  BY <1>1, <1>2
<1>4. /\ ering' \in [0 .. N - 1 -> [id : Int, cycle : {0, 1}]]
      /\ ering'[eenq].id = eput /\ ering'[eenq].cycle = epcs
      /\ \A i \in 0 .. N - 1 : i # eenq => ering'[i] = ering[i]
  BY <1>1, <1>2 DEF Trb
<1>5. Laps(ering', N, eenq', epcs')
  BY <1>1, <1>2, <1>4, SMTT(30) DEF Laps
<1>6. Numbered(ering', N, eenq', event_dequeue', epcs' = event_ccs', egot')
  <2>1. CASE epcs = event_ccs
    <3>1. \A i \in 0 .. N - 1 : i >= event_dequeue /\ i < eenq + 1 =>
             ering'[i].id = egot + (i - event_dequeue)
      <4>1. SUFFICES ASSUME NEW i \in 0 .. N - 1, i >= event_dequeue, i < eenq + 1
                     PROVE  ering'[i].id = egot + (i - event_dequeue)
        OBVIOUS
      <4>2. CASE i = eenq
        BY <4>2, <2>1, <1>2, <1>4
      <4>3. CASE i # eenq
        <5>1. i < eenq /\ ering'[i] = ering[i]
          BY <4>1, <4>3, <1>2, <1>4
        <5> QED BY <4>1, <5>1, <2>1, <1>2, Zenon DEF Numbered
      <4> QED BY <4>2, <4>3
    <3>2. CASE wrap
      <4>1. eenq' = 0 /\ epcs' # event_ccs'
        BY <3>2, <2>1, <1>1, <1>2
      <4>2. \A i \in 0 .. N - 1 : i < eenq + 1
        BY <3>2, <1>2
      <4> QED BY <3>1, <4>1, <4>2, <1>1, <1>2 DEF Numbered
    <3>3. CASE ~wrap
      BY <3>1, <3>3, <2>1, <1>1, <1>2 DEF Numbered
    <3> QED BY <3>2, <3>3
  <2>2. CASE epcs # event_ccs
    <3>1. ~wrap /\ eenq' = eenq + 1 /\ epcs' = epcs
      BY <2>2, <1>1, <1>2, <1>3
    <3>2. \A i \in 0 .. N - 1 : i >= event_dequeue =>
             ering'[i].id = egot + (i - event_dequeue)
      BY <2>2, <1>2, <1>3, <1>4 DEF Numbered
    <3>3. ASSUME NEW i \in 0 .. N - 1, i < eenq'
          PROVE  ering'[i].id = egot + (N - event_dequeue) + i
      <4>1. CASE i = eenq
        BY <4>1, <2>2, <1>2, <1>4
      <4>2. CASE i # eenq
        <5>1. i < eenq /\ ering'[i] = ering[i]
          BY <4>2, <3>3, <3>1, <1>2, <1>4
        <5> QED BY <5>1, <2>2, <1>2, Zenon DEF Numbered
      <4> QED BY <4>1, <4>2
    <3> QED BY <3>1, <3>2, <3>3, <2>2, <1>1 DEF Numbered
  <2> QED BY <2>1, <2>2
<1>7. /\ eenq' \in 0 .. N - 1 /\ epcs' \in {0, 1} /\ eput' \in Nat
      /\ eput' - egot' <= N - 1
      /\ eput' - egot' = IF epcs' = event_ccs' THEN eenq' - event_dequeue'
                         ELSE (N - event_dequeue') + eenq'
      /\ epcs' = event_ccs' => event_dequeue' <= eenq'
  BY <1>1, <1>2, <1>3
<1> QED BY <1>1, <1>2, <1>4, <1>5, <1>6, <1>7 DEF EventInv, N

LEMMA EventsExact ==
    ASSUME EventInv
    PROVE  /\ EventThere <=> eput > egot
           /\ EventThere => ering[event_dequeue].id = egot
BY RingConstants DEF EventInv, EventThere, Laps, Numbered

LEMMA PollInv == ASSUME EventInv, poll_event PROVE EventInv'
<1> DEFINE N == RING_TRBS
<1>1. eput > egot
  BY EventsExact DEF poll_event
<1>2. /\ event_dequeue' = IF event_dequeue + 1 >= N THEN 0 ELSE event_dequeue + 1
      /\ event_ccs' = IF event_dequeue + 1 >= N THEN 1 - event_ccs ELSE event_ccs
      /\ egot' = egot + 1
      /\ UNCHANGED <<ering, eenq, epcs, eput>>
  BY DEF poll_event
<1>3. /\ N \in Nat /\ N > 2
      /\ eenq \in 0 .. N - 1 /\ event_dequeue \in 0 .. N - 1
      /\ epcs \in {0, 1} /\ event_ccs \in {0, 1} /\ eput \in Nat /\ egot \in Nat
      /\ eput - egot <= N - 1
      /\ eput - egot = IF epcs = event_ccs THEN eenq - event_dequeue
                       ELSE (N - event_dequeue) + eenq
      /\ epcs = event_ccs => event_dequeue <= eenq
      /\ Numbered(ering, N, eenq, event_dequeue, epcs = event_ccs, egot)
  BY RingConstants DEF EventInv
<1> HIDE DEF N
<1>4. Numbered(ering, N, eenq, event_dequeue', epcs = event_ccs', egot')
  <2>1. CASE event_dequeue + 1 >= N
    <3>1. /\ event_dequeue' = 0 /\ event_dequeue = N - 1
          /\ epcs # event_ccs /\ epcs = event_ccs'
      BY <2>1, <1>1, <1>2, <1>3
    <3>2. \A i \in 0 .. N - 1 : i < eenq => ering[i].id = egot + (N - event_dequeue) + i
      BY <3>1, <1>3 DEF Numbered
    <3>3. \A i \in 0 .. N - 1 : egot + (N - event_dequeue) + i = egot' + (i - event_dequeue')
      BY <3>1, <1>2, <1>3
    <3> QED BY <3>1, <3>2, <3>3 DEF Numbered
  <2>2. CASE event_dequeue + 1 < N
    <3>1. event_dequeue' = event_dequeue + 1 /\ event_ccs' = event_ccs
      BY <2>2, <1>2, <1>3
    <3>2. \A i \in 0 .. N - 1 :
             /\ i >= event_dequeue' => i >= event_dequeue
             /\ egot + (i - event_dequeue) = egot' + (i - event_dequeue')
             /\ egot + (N - event_dequeue) + i = egot' + (N - event_dequeue') + i
      BY <3>1, <1>2, <1>3
    <3> QED BY <3>1, <3>2, <1>3 DEF Numbered
  <2> QED BY <2>1, <2>2, <1>3
<1>5. /\ event_dequeue' \in 0 .. N - 1 /\ event_ccs' \in {0, 1}
      /\ egot' \in Nat /\ eput - egot' <= N - 1
      /\ eput - egot' = IF epcs = event_ccs' THEN eenq - event_dequeue'
                        ELSE (N - event_dequeue') + eenq
      /\ epcs = event_ccs' => event_dequeue' <= eenq
  BY <1>1, <1>2, <1>3
<1> QED BY <1>2, <1>4, <1>5 DEF EventInv, N

LEMMA NextRingsInv == RingsInv /\ [RingNext]_rings_vars => RingsInv'
<1> SUFFICES ASSUME RingsInv, [RingNext]_rings_vars PROVE RingsInv'
  OBVIOUS
<1>1. ASSUME UNCHANGED transfer_vars PROVE TransferInv'
  BY <1>1 DEF transfer_vars, RingsInv, TransferInv, Link
<1>2. ASSUME UNCHANGED event_vars PROVE EventInv'
  BY <1>2 DEF event_vars, RingsInv, EventInv
<1>3. CASE enqueue
  BY <1>2, <1>3, EnqueueInv DEF RingsInv, enqueue
<1>4. CASE consume
  BY <1>2, <1>4, ConsumeInv DEF RingsInv, consume
<1>5. CASE post_event
  BY <1>1, <1>5, PostInv DEF RingsInv, post_event
<1>6. CASE poll_event
  BY <1>1, <1>6, PollInv DEF RingsInv, poll_event
<1>7. CASE UNCHANGED rings_vars
  BY <1>1, <1>2, <1>7 DEF RingsInv, rings_vars
<1> QED BY <1>3, <1>4, <1>5, <1>6, <1>7 DEF RingNext

-----------------------------------------------------------------------------

(* Producer and consumer are on the same lap or one apart, and the cycle   *)
(* bits show which.                                                        *)
THEOREM RingsInvariant == RingSpec => []RingsInv
BY InitRingsInv, NextRingsInv, PTL DEF RingSpec

(* On the command, transfer and event rings the consumer finds a TRB       *)
(* exactly when one is outstanding, and it is the oldest: none is lost,    *)
(* repeated or taken for a leftover, for rings of any length and any       *)
(* number of laps.                                                         *)
THEOREM RingsAreExact == RingSpec => []RingsExact
<1>1. RingsInv => RingsExact
  BY TransferExact, EventsExact DEF RingsInv, RingsExact
<1> QED BY <1>1, RingsInvariant, PTL

-----------------------------------------------------------------------------
(***************************************************************************)
(* The virtio queues, for every queue size and any index width that the    *)
(* queue size divides.                                                     *)
(***************************************************************************)

LEMMA DivMod ==
    ASSUME NEW d \in Nat \ {0}, NEW x \in Nat
    PROVE  x = d * (x \div d) + (x % d) /\ x \div d \in Nat /\ x % d \in 0 .. d - 1
OBVIOUS

LEMMA SmallMultiple ==
    ASSUME NEW d \in Nat \ {0}, NEW k \in Int, d * k < d, -d < d * k
    PROVE  k = 0
<1>1. CASE k >= 1
  <2>1. d * k >= d
    BY <1>1
  <2> QED BY <2>1
<1>2. CASE k <= -1
  <2>1. d * k <= -d
    BY <1>2
  <2> QED BY <2>1
<1> QED BY <1>1, <1>2

LEMMA ModUnique ==
    ASSUME NEW d \in Nat \ {0}, NEW x \in Nat, NEW q \in Int, NEW r \in 0 .. d - 1,
           x = d * q + r
    PROVE  x % d = r
<1>1. x = d * (x \div d) + (x % d) /\ x \div d \in Nat /\ x % d \in 0 .. d - 1
  BY DivMod, Zenon
<1>2. PICK a \in Nat : a = x \div d
  BY <1>1
<1>3. PICK b \in 0 .. d - 1 : b = x % d
  BY <1>1
<1>4. d * a + b = d * q + r
  BY <1>1, <1>2, <1>3
<1>5. d * (a - q) = d * a - d * q
  OBVIOUS
<1>6. d * (a - q) = r - b
  BY <1>4, <1>5
<1>7. a - q = 0
  BY <1>6, SmallMultiple
<1>8. a = q
  BY <1>7
<1> QED BY <1>3, <1>4, <1>8

(* Two numbers less than d apart differ modulo d.                          *)
LEMMA ModWindow ==
    ASSUME NEW d \in Nat \ {0}, NEW x \in Nat, NEW y \in Nat, x < y, y < x + d
    PROVE  x % d # y % d
<1> SUFFICES ASSUME x % d = y % d PROVE FALSE
  OBVIOUS
<1>1. PICK a \in Nat : x = d * a + (x % d)
  BY DivMod, Zenon
<1>2. PICK b \in Nat : y = d * b + (y % d)
  BY DivMod, Zenon
<1>3. d * (b - a) = d * b - d * a
  OBVIOUS
<1>4. x % d \in Int
  BY DivMod
<1>5. y - x = d * (b - a)
  BY <1>1, <1>2, <1>3, <1>4
<1>6. b - a = 0
  BY <1>5, SmallMultiple
<1>7. d * (b - a) = 0
  BY <1>6
<1> QED BY <1>5, <1>7

LEMMA ModNext ==
    ASSUME NEW d \in Nat \ {0}, NEW x \in Nat
    PROVE  ((x % d) + 1) % d = (x + 1) % d
<1>1. PICK a \in Nat : a = x \div d
  BY DivMod
<1>2. PICK b \in 0 .. d - 1 : b = x % d
  BY DivMod
<1>3. x = d * a + b
  BY <1>1, <1>2, DivMod
<1>4. PICK y \in Nat : y = x + 1
  OBVIOUS
<1>5. PICK c \in Nat : c = b + 1
  OBVIOUS
<1>6. CASE c < d
  <2>1. c \in 0 .. d - 1 /\ y = d * a + c
    BY <1>3, <1>4, <1>5, <1>6
  <2>2. y % d = c
    BY <2>1, ModUnique
  <2>3. c % d = c
    BY <1>6
  <2> QED BY <1>2, <1>4, <1>5, <2>2, <2>3
<1>7. CASE c = d
  <2>1. d * (a + 1) = d * a + d
    OBVIOUS
  <2>2. PICK e \in Nat : e = a + 1
    OBVIOUS
  <2>3. PICK z \in 0 .. d - 1 : z = 0
    OBVIOUS
  <2>4. y = d * e + z
    BY <1>3, <1>4, <1>5, <1>7, <2>1, <2>2, <2>3
  <2>5. y % d = z
    BY <2>4, ModUnique
  <2>6. c % d = 0
    BY <1>7
  <2> QED BY <1>2, <1>4, <1>5, <2>3, <2>5, <2>6
<1> QED BY <1>5, <1>6, <1>7

LEMMA ModOfMultiple ==
    ASSUME NEW d \in Nat \ {0}, NEW w \in Nat \ {0}, NEW x \in Nat, w % d = 0
    PROVE  (x % w) % d = x % d
<1>0. PICK m \in Nat : w = d * m
  <2>1. PICK m \in Nat : m = w \div d
    BY DivMod
  <2>2. w = d * m
    BY <2>1, DivMod
  <2> QED BY <2>2
<1>1. PICK a \in Nat : a = x \div w
  BY DivMod
<1>2. PICK b \in Nat : b = x % w
  BY DivMod
<1>3. x = w * a + b
  BY <1>1, <1>2, DivMod
<1>4. PICK c \in Nat : c = b \div d
  BY DivMod
<1>5. PICK e \in 0 .. d - 1 : e = b % d
  BY DivMod
<1>6. b = d * c + e
  BY <1>4, <1>5, DivMod
<1>7. PICK q \in Nat : q = m * a + c
  OBVIOUS
<1>8. d * q = w * a + d * c
  BY <1>0, <1>7
<1>9. x = d * q + e
  BY <1>3, <1>6, <1>8
<1>10. x % d = e
  BY <1>9, ModUnique
<1> QED BY <1>2, <1>5, <1>10

(* An index kept modulo IDX_MOD selects the same entry as the number it    *)
(* stands for.                                                             *)
LEMMA SameEntry ==
    ASSUME NEW x \in Nat
    PROVE  (x % IDX_MOD) % QSIZE = x % QSIZE
<1>1. QSIZE \in Nat \ {0} /\ IDX_MOD \in Nat \ {0} /\ IDX_MOD % QSIZE = 0
  BY VirtioConstants
<1> QED BY <1>1, ModOfMultiple, ZenonT(60)

(* The numbers behind the ring indices: frames recycled so far, and the    *)
(* descriptor that is used or available at position p of the receive ring. *)
Recycled == Len(got) - (IF vpc = "copied" THEN 1 ELSE 0)
Window == Recycled .. Recycled + NUM_RX_BUFS - 1
Desc(p) == IF p < frames_in THEN rx.used[p % QSIZE] ELSE rx.avail[p % QSIZE]

Queue(bufs) ==
    [avail : [0 .. QSIZE - 1 -> Nat], avail_idx : Nat, used : [0 .. QSIZE - 1 -> Nat],
     used_idx : Nat, last_used : Nat, dev_idx : Nat, buf : [bufs -> Nat]]

VirtioTypeOK ==
    /\ rx \in Queue(1 .. NUM_RX_BUFS)
    /\ txq \in [q : Queue({1}), asked : Nat, wire : Seq(Nat), gave_up : BOOLEAN]
    /\ vpc \in {"idle", "copied", "spin"}
    /\ frames_in \in Nat /\ got \in Seq(Nat)

(* Every buffer is in exactly one place of the window, and the ones the    *)
(* device has filled hold the next frames to be returned.                  *)
RxInv ==
    /\ Recycled \in Nat
    /\ frames_in \in Recycled .. Recycled + NUM_RX_BUFS
    /\ vpc = "copied" => Recycled < frames_in
    /\ rx.avail_idx = (Recycled + NUM_RX_BUFS) % IDX_MOD
    /\ rx.dev_idx = frames_in % IDX_MOD /\ rx.used_idx = frames_in % IDX_MOD
    /\ rx.last_used = Recycled % IDX_MOD
    /\ \A p \in Window : Desc(p) \in 1 .. NUM_RX_BUFS
    /\ \A p1, p2 \in Window : Desc(p1) = Desc(p2) => p1 = p2
    /\ \A p \in Recycled .. frames_in - 1 : rx.buf[rx.used[p % QSIZE]] = p + 1
    /\ ReceivesExact

(* Until a wait is abandoned at most one frame is with the device, and it  *)
(* is the one in the buffer.                                               *)
TxInv ==
    ~txq.gave_up =>
      /\ \/ txq.asked = Len(txq.wire)
         \/ txq.asked = Len(txq.wire) + 1 /\ vpc = "spin" /\ txq.q.buf[1] = txq.asked
      /\ txq.q.avail_idx = txq.asked % IDX_MOD
      /\ txq.q.dev_idx = Len(txq.wire) % IDX_MOD /\ txq.q.used_idx = Len(txq.wire) % IDX_MOD
      /\ vpc = "spin" => txq.asked >= 1 /\ txq.q.last_used = (txq.asked - 1) % IDX_MOD
      /\ vpc # "spin" => txq.q.last_used = txq.asked % IDX_MOD
      /\ \A k \in 1 .. Len(txq.wire) : txq.wire[k] = k

VirtioInv == VirtioTypeOK /\ RxInv /\ TxInv

LEMMA VirtioFacts ==
    /\ QSIZE \in Nat \ {0} /\ NUM_RX_BUFS \in Nat \ {0} /\ NUM_RX_BUFS <= QSIZE
    /\ IDX_MOD \in Nat \ {0, 1}
    /\ \A p \in Nat : p % QSIZE \in 0 .. QSIZE - 1 /\ p % IDX_MOD \in Nat
    /\ \A p \in Nat : (p % IDX_MOD) % QSIZE = p % QSIZE
    /\ \A p \in Nat : ((p % IDX_MOD) + 1) % IDX_MOD = (p + 1) % IDX_MOD
    /\ \A p1, p2 \in Nat : p1 < p2 /\ p2 < p1 + QSIZE => p1 % QSIZE # p2 % QSIZE
    /\ \A p \in Nat : p % IDX_MOD # (p + 1) % IDX_MOD
<1>1. /\ QSIZE \in Nat \ {0} /\ NUM_RX_BUFS \in Nat \ {0} /\ NUM_RX_BUFS <= QSIZE
      /\ IDX_MOD \in Nat \ {0, 1} /\ IDX_MOD \in Nat \ {0}
  BY VirtioConstants
<1>2. \A p \in Nat : p % QSIZE \in 0 .. QSIZE - 1 /\ p % IDX_MOD \in Nat
  BY <1>1, DivMod
<1>3. \A p \in Nat : (p % IDX_MOD) % QSIZE = p % QSIZE
  BY SameEntry
<1>4. \A p \in Nat : ((p % IDX_MOD) + 1) % IDX_MOD = (p + 1) % IDX_MOD
  BY <1>1, ModNext, Zenon
<1>5. \A p1, p2 \in Nat : p1 < p2 /\ p2 < p1 + QSIZE => p1 % QSIZE # p2 % QSIZE
  BY <1>1, ModWindow, Zenon
<1>6. ASSUME NEW p \in Nat PROVE p % IDX_MOD # (p + 1) % IDX_MOD
  <2>1. p + 1 \in Nat /\ p < p + 1 /\ p + 1 < p + IDX_MOD
    BY <1>1
  <2> QED BY <1>1, <2>1, ModWindow, Zenon
<1> QED BY <1>1, <1>2, <1>3, <1>4, <1>5, <1>6

LEMMA VirtioStart == VirtioInit => VirtioInv
<1> SUFFICES ASSUME VirtioInit PROVE VirtioInv
  OBVIOUS
<1>1. /\ rx = [avail |-> [k \in 0 .. QSIZE - 1 |-> IF k < NUM_RX_BUFS THEN k + 1 ELSE 0],
               avail_idx |-> NUM_RX_BUFS, used |-> [k \in 0 .. QSIZE - 1 |-> 0], used_idx |-> 0,
               last_used |-> 0, dev_idx |-> 0, buf |-> [b \in 1 .. NUM_RX_BUFS |-> 0]]
      /\ vpc = "idle" /\ frames_in = 0 /\ got = <<>>
  BY ZenonT(60) DEF VirtioInit, Empty, Nothing
<1>2. txq = [q |-> Empty({1}), asked |-> 0, wire |-> <<>>, gave_up |-> FALSE]
  BY DEF VirtioInit
<1>3. /\ Empty({1}) \in Queue({1}) /\ Empty({1}).avail_idx = 0 /\ Empty({1}).used_idx = 0
      /\ Empty({1}).dev_idx = 0 /\ Empty({1}).last_used = 0
  BY DEF Empty, Queue, Nothing
<1>4. rx \in Queue(1 .. NUM_RX_BUFS)
  BY <1>1, VirtioConstants DEF Queue
<1>5. txq \in [q : Queue({1}), asked : Nat, wire : Seq(Nat), gave_up : BOOLEAN]
  <2>1. <<>> \in Seq(Nat) /\ 0 \in Nat /\ FALSE \in BOOLEAN
    OBVIOUS
  <2> QED BY <1>2, <1>3, <2>1, Zenon
<1>6. VirtioTypeOK
  BY <1>1, <1>4, <1>5 DEF VirtioTypeOK
<1>7. /\ txq.asked = 0 /\ txq.wire = <<>> /\ txq.q.avail_idx = 0 /\ txq.q.used_idx = 0
      /\ txq.q.dev_idx = 0 /\ txq.q.last_used = 0
  BY <1>2, <1>3
<1>8. 0 % IDX_MOD = 0 /\ NUM_RX_BUFS % IDX_MOD = NUM_RX_BUFS
      /\ \A k \in 0 .. QSIZE - 1 : k % QSIZE = k
  BY VirtioConstants, SMTT(30)
<1>9. TxInv
  BY <1>1, <1>7, <1>8 DEF TxInv
<1>10. Recycled = 0
  BY <1>1 DEF Recycled
<1>11. RxInv
  <2>1. /\ Window = 0 .. NUM_RX_BUFS - 1 /\ \A p \in Window : Desc(p) = p + 1
    <3>1. /\ Window = 0 .. NUM_RX_BUFS - 1
          /\ NUM_RX_BUFS \in Nat /\ NUM_RX_BUFS <= QSIZE /\ QSIZE \in Nat
      BY <1>10, VirtioConstants DEF Window
    <3>2. ASSUME NEW p \in Window PROVE Desc(p) = p + 1
      <4>1. p \in 0 .. QSIZE - 1 /\ p < NUM_RX_BUFS /\ ~(p < 0)
        BY <3>1
      <4>2. p % QSIZE = p
        BY <1>8, <4>1
      <4>3. rx.avail[p] = p + 1
        BY <1>1, <4>1
      <4> QED BY <1>1, <4>1, <4>2, <4>3 DEF Desc
    <3> QED BY <3>1, <3>2
  <2>2. /\ rx.avail_idx = NUM_RX_BUFS /\ rx.dev_idx = 0 /\ rx.used_idx = 0 /\ rx.last_used = 0
    BY <1>1
  <2>3. ReceivesExact
    BY <1>1 DEF ReceivesExact
  <2> QED BY <1>1, <1>8, <1>10, <2>1, <2>2, <2>3, VirtioConstants DEF RxInv
<1> QED BY <1>6, <1>9, <1>11 DEF VirtioInv

LEMMA RxSame ==
    ASSUME VirtioInv, UNCHANGED <<rx, frames_in, got>>, vpc' = "copied" <=> vpc = "copied"
    PROVE  RxInv'
<1>1. Recycled' = Recycled
  BY DEF Recycled
<1>2. Window' = Window /\ \A p : Desc(p)' = Desc(p)
  BY <1>1 DEF Window, Desc
<1> QED BY <1>1, <1>2 DEF VirtioInv, RxInv, ReceivesExact

LEMMA TxSame ==
    ASSUME VirtioInv, UNCHANGED txq, vpc' = "spin" <=> vpc = "spin"
    PROVE  TxInv'
BY DEF VirtioInv, TxInv

(* The device fills the next available buffer.                             *)
LEMMA DeviceReceives ==
    ASSUME VirtioInv, device_receives
    PROVE  VirtioInv'
<1> DEFINE desc == rx.avail[rx.dev_idx % QSIZE]
<1>1. /\ rx \in Queue(1 .. NUM_RX_BUFS) /\ frames_in \in Nat /\ Recycled \in Nat
      /\ frames_in >= Recycled /\ frames_in <= Recycled + NUM_RX_BUFS
  BY DEF VirtioInv, VirtioTypeOK, RxInv
<1>2. /\ rx' = used_push([rx EXCEPT !.buf[desc] = frames_in + 1], desc)
      /\ frames_in' = frames_in + 1 /\ UNCHANGED <<txq, vpc, got>>
      /\ rx.dev_idx # rx.avail_idx
  BY DEF device_receives
<1>3. frames_in < Recycled + NUM_RX_BUFS
  <2>1. frames_in % IDX_MOD # (Recycled + NUM_RX_BUFS) % IDX_MOD
    BY <1>2 DEF VirtioInv, RxInv
  <2>2. frames_in # Recycled + NUM_RX_BUFS
    BY <2>1
  <2> QED BY <1>1, <2>2, VirtioFacts
<1>4. frames_in \in Window
  BY <1>1, <1>3, VirtioFacts DEF Window
<1>5. rx.dev_idx % QSIZE = frames_in % QSIZE /\ rx.used_idx % QSIZE = frames_in % QSIZE
  BY <1>1, VirtioFacts, Zenon DEF VirtioInv, RxInv
<1>6. PICK d \in 1 .. NUM_RX_BUFS : d = desc /\ d = Desc(frames_in)
  <2>1. Desc(frames_in) = desc
    BY <1>1, <1>5 DEF Desc
  <2>2. Desc(frames_in) \in 1 .. NUM_RX_BUFS
    BY <1>4 DEF VirtioInv, RxInv
  <2> QED BY <2>1, <2>2
<1>7. PICK i \in 0 .. QSIZE - 1 : i = frames_in % QSIZE
  BY <1>1, VirtioFacts, Zenon
<1>8. d \in Nat
  BY VirtioFacts
<1>9. rx' = [rx EXCEPT !.buf = [rx.buf EXCEPT ![d] = frames_in + 1],
                       !.used = [rx.used EXCEPT ![i] = d],
                       !.used_idx = (rx.used_idx + 1) % IDX_MOD,
                       !.dev_idx = (rx.dev_idx + 1) % IDX_MOD]
  <2> HIDE DEF desc
  <2> QED BY <1>1, <1>2, <1>5, <1>6, <1>7, Zenon DEF used_push, Queue
<1> HIDE DEF desc
<1>10. /\ rx'.avail = rx.avail /\ rx'.avail_idx = rx.avail_idx /\ rx'.last_used = rx.last_used
       /\ rx'.used_idx = (rx.used_idx + 1) % IDX_MOD /\ rx'.dev_idx = (rx.dev_idx + 1) % IDX_MOD
       /\ rx'.used = [rx.used EXCEPT ![i] = d]
       /\ rx'.buf = [rx.buf EXCEPT ![d] = frames_in + 1]
  BY <1>1, <1>9 DEF Queue
<1>11. rx' \in Queue(1 .. NUM_RX_BUFS)
  <2>1. (rx.used_idx + 1) % IDX_MOD \in Nat /\ (rx.dev_idx + 1) % IDX_MOD \in Nat
    <3>1. PICK m \in Nat : m = frames_in + 1
      BY <1>1
    <3>2. /\ (rx.used_idx + 1) % IDX_MOD = m % IDX_MOD /\ (rx.dev_idx + 1) % IDX_MOD = m % IDX_MOD
      BY <1>1, <3>1, VirtioFacts, ZenonT(60) DEF VirtioInv, RxInv
    <3> QED BY <3>2, VirtioFacts, Zenon
  <2>2. [rx.used EXCEPT ![i] = d] \in [0 .. QSIZE - 1 -> Nat]
    BY <1>1, <1>8 DEF Queue
  <2>3. [rx.buf EXCEPT ![d] = frames_in + 1] \in [1 .. NUM_RX_BUFS -> Nat]
    BY <1>1 DEF Queue
  <2> QED BY <1>1, <1>9, <2>1, <2>2, <2>3, Zenon DEF Queue
<1>12. VirtioTypeOK'
  BY <1>1, <1>2, <1>11 DEF VirtioInv, VirtioTypeOK
<1>13. Recycled' = Recycled /\ Window' = Window
  BY <1>2 DEF Recycled, Window
<1>14. rx'.dev_idx = frames_in' % IDX_MOD /\ rx'.used_idx = frames_in' % IDX_MOD
  BY <1>1, <1>2, <1>10, VirtioFacts, SMTT(30) DEF VirtioInv, RxInv
<1>15. ASSUME NEW p \in Nat, p \in Recycled .. frames_in - 1
       PROVE  /\ rx'.used[p % QSIZE] = rx.used[p % QSIZE]
              /\ rx.used[p % QSIZE] = Desc(p) /\ Desc(p) # d /\ Desc(p) \in 1 .. NUM_RX_BUFS
  <2>1. p \in Window /\ p < frames_in /\ frames_in < p + QSIZE
    BY <1>1, <1>3, <1>15, VirtioFacts DEF Window
  <2>2. p % QSIZE # i /\ p % QSIZE \in 0 .. QSIZE - 1
    BY <1>1, <1>7, <2>1, VirtioFacts, ZenonT(60)
  <2>3. Desc(p) # d /\ Desc(p) \in 1 .. NUM_RX_BUFS
    BY <1>4, <1>6, <2>1, SMTT(30) DEF VirtioInv, RxInv
  <2> QED BY <1>1, <1>10, <2>1, <2>2, <2>3, ZenonT(60) DEF Queue, Desc
<1>16. \A p \in Window : Desc(p)' = Desc(p)
  <2> SUFFICES ASSUME NEW p \in Window PROVE Desc(p)' = Desc(p)
    OBVIOUS
  <2>1. p \in Nat /\ p >= Recycled
    BY <1>1, VirtioFacts, SMTT(30) DEF Window
  <2>2. CASE p < frames_in
    <3>1. Desc(p)' = rx'.used[p % QSIZE]
      BY <1>1, <1>2, <2>1, <2>2 DEF Desc
    <3> QED BY <1>1, <1>15, <2>1, <2>2, <3>1
  <2>3. CASE p = frames_in
    <3>1. Desc(p)' = rx'.used[i]
      BY <1>1, <1>2, <1>7, <2>3 DEF Desc
    <3>2. rx'.used[i] = d
      BY <1>1, <1>10, Zenon DEF Queue
    <3> QED BY <1>6, <2>3, <3>1, <3>2
  <2>4. CASE p > frames_in
    BY <1>1, <1>2, <1>10, <2>1, <2>4 DEF Desc
  <2> QED BY <1>1, <2>1, <2>2, <2>3, <2>4
<1>17. ASSUME NEW p \in Recycled .. frames_in' - 1
       PROVE  rx'.buf[rx'.used[p % QSIZE]] = p + 1
  <2>1. p \in Nat
    BY <1>1, <1>2
  <2>2. CASE p = frames_in
    <3>1. rx'.used[p % QSIZE] = d
      BY <1>1, <1>7, <1>10, <2>2, Zenon DEF Queue
    <3> QED BY <1>1, <1>10, <2>2, <3>1, Zenon DEF Queue
  <2>3. CASE p # frames_in
    <3>1. p \in Recycled .. frames_in - 1
      BY <1>1, <1>2, <2>3
    <3>2. /\ rx'.used[p % QSIZE] = rx.used[p % QSIZE] /\ rx.used[p % QSIZE] # d
          /\ rx.used[p % QSIZE] \in 1 .. NUM_RX_BUFS
      BY <1>15, <2>1, <3>1, ZenonT(60)
    <3>3. rx.buf[rx.used[p % QSIZE]] = p + 1
      BY <3>1, SMTT(30) DEF VirtioInv, RxInv
    <3> QED BY <1>1, <1>10, <3>2, <3>3, SMTT(30) DEF Queue
  <2> QED BY <2>2, <2>3
<1>18. RxInv'
  <2>1. frames_in' \in Recycled .. Recycled + NUM_RX_BUFS
    <3>1. frames_in + 1 \in Recycled .. Recycled + NUM_RX_BUFS
      BY <1>1, <1>3, VirtioFacts
    <3> QED BY <1>2, <3>1, Zenon
  <2>2. vpc' = "copied" => Recycled < frames_in'
    BY <1>1, <1>2, SMTT(30)
  <2>3. /\ \A p \in Window : Desc(p)' \in 1 .. NUM_RX_BUFS
        /\ \A p1, p2 \in Window : Desc(p1)' = Desc(p2)' => p1 = p2
    BY <1>16 DEF VirtioInv, RxInv
  <2>4. ReceivesExact'
    BY <1>2, SMTT(30) DEF VirtioInv, RxInv, ReceivesExact
  <2>5. /\ rx'.avail_idx = (Recycled + NUM_RX_BUFS) % IDX_MOD /\ rx'.last_used = Recycled % IDX_MOD
    BY <1>10 DEF VirtioInv, RxInv
  <2> QED BY <1>1, <1>13, <1>14, <1>17, <2>1, <2>2, <2>3, <2>4, <2>5, Zenon DEF RxInv
<1>19. TxInv'
  BY <1>2 DEF VirtioInv, TxInv
<1> QED BY <1>12, <1>18, <1>19 DEF VirtioInv

(* poll_rx copies the oldest filled buffer.                                *)
LEMMA PollRxCopies ==
    ASSUME VirtioInv, poll_rx_copies
    PROVE  VirtioInv'
<1>1. /\ rx \in Queue(1 .. NUM_RX_BUFS) /\ frames_in \in Nat /\ got \in Seq(Nat) /\ Recycled \in Nat
      /\ frames_in >= Recycled /\ frames_in <= Recycled + NUM_RX_BUFS
  BY DEF VirtioInv, VirtioTypeOK, RxInv
<1>2. /\ vpc = "idle" /\ vpc' = "copied" /\ UNCHANGED <<rx, txq, frames_in>>
      /\ got' = Append(got, rx.buf[rx.used[rx.last_used % QSIZE]])
      /\ rx.used_idx # rx.last_used
  BY DEF poll_rx_copies
<1>3. Recycled = Len(got)
  BY <1>1, <1>2 DEF Recycled
<1>4. Recycled < frames_in
  <2>1. frames_in % IDX_MOD # Recycled % IDX_MOD
    BY <1>2 DEF VirtioInv, RxInv
  <2>2. frames_in # Recycled
    BY <2>1
  <2> QED BY <1>1, <2>2
<1>5. rx.buf[rx.used[rx.last_used % QSIZE]] = Recycled + 1
  <2>1. rx.last_used % QSIZE = Recycled % QSIZE
    BY <1>1, VirtioFacts, Zenon DEF VirtioInv, RxInv
  <2>2. Recycled \in Recycled .. frames_in - 1
    BY <1>1, <1>4
  <2> QED BY <2>1, <2>2 DEF VirtioInv, RxInv
<1>6. got' = Append(got, Len(got) + 1)
  BY <1>2, <1>3, <1>5
<1>7. /\ got' \in Seq(Nat) /\ Len(got') = Len(got) + 1
      /\ \A k \in 1 .. Len(got) : got'[k] = got[k]
      /\ got'[Len(got) + 1] = Len(got) + 1
  BY <1>1, <1>6
<1>8. Recycled' = Recycled
  BY <1>1, <1>2, <1>3, <1>7 DEF Recycled
<1>9. ReceivesExact'
  <2>1. \A k \in 1 .. Len(got) : got[k] = k
    BY DEF VirtioInv, RxInv, ReceivesExact
  <2>2. ASSUME NEW k \in 1 .. Len(got) + 1 PROVE got'[k] = k
    <3>1. k \in 1 .. Len(got) \/ k = Len(got) + 1
      BY <1>1
    <3> QED BY <1>7, <2>1, <3>1
  <2> QED BY <1>7, <2>2 DEF ReceivesExact
<1>10. Window' = Window /\ \A p : Desc(p)' = Desc(p)
  BY <1>2, <1>8, Zenon DEF Window, Desc
<1>11. RxInv'
  <2>1. RxInv
    BY DEF VirtioInv
  <2> QED BY <1>2, <1>4, <1>8, <1>9, <1>10, <2>1 DEF RxInv
<1>12. TxInv'
  BY <1>2, TxSame, Zenon
<1>13. VirtioTypeOK'
  BY <1>2, <1>7 DEF VirtioInv, VirtioTypeOK
<1> QED BY <1>11, <1>12, <1>13 DEF VirtioInv

(* It is then published again, in the entry behind the last available one. *)
LEMMA PollRxRecycles ==
    ASSUME VirtioInv, poll_rx_recycles
    PROVE  VirtioInv'
<1>0. PICK last \in Nat : last = Recycled + NUM_RX_BUFS
  <2>1. Recycled \in Nat
    BY DEF VirtioInv, RxInv
  <2>2. Recycled + NUM_RX_BUFS \in Nat
    BY <2>1, VirtioFacts
  <2> QED BY <2>2
<1>1. /\ rx \in Queue(1 .. NUM_RX_BUFS) /\ frames_in \in Nat /\ got \in Seq(Nat) /\ Recycled \in Nat
      /\ frames_in >= Recycled /\ frames_in <= last
  BY <1>0 DEF VirtioInv, VirtioTypeOK, RxInv
<1>2. /\ vpc = "copied" /\ vpc' = "idle" /\ UNCHANGED <<txq, frames_in, got>>
      /\ rx' = avail_push([rx EXCEPT !.last_used = (@ + 1) % IDX_MOD], rx.used[rx.last_used % QSIZE])
  BY DEF poll_rx_recycles
<1>3. Recycled < frames_in
  BY <1>2 DEF VirtioInv, RxInv
<1>4. Recycled' = Recycled + 1
  BY <1>1, <1>2 DEF Recycled
<1>5. Recycled \in Window /\ Window \subseteq Nat
  BY <1>1, VirtioFacts DEF Window
<1>6. PICK d \in 1 .. NUM_RX_BUFS : d = Desc(Recycled)
  BY <1>5 DEF VirtioInv, RxInv
<1>7. rx.used[rx.last_used % QSIZE] = d
  <2>1. rx.last_used % QSIZE = Recycled % QSIZE
    BY <1>1, VirtioFacts, Zenon DEF VirtioInv, RxInv
  <2> QED BY <1>1, <1>3, <1>6, <2>1 DEF Desc
<1>8. PICK i \in 0 .. QSIZE - 1 : i = last % QSIZE
  BY <1>1, VirtioFacts, Zenon
<1>9. rx.avail_idx % QSIZE = i
  <2>1. rx.avail_idx = last % IDX_MOD
    BY <1>0, Zenon DEF VirtioInv, RxInv
  <2> QED BY <1>8, <2>1, VirtioFacts, ZenonT(60)
<1>10. PICK m1 \in Nat, m2 \in Nat :
          /\ m1 = (rx.last_used + 1) % IDX_MOD /\ m1 = (Recycled + 1) % IDX_MOD
          /\ m2 = (rx.avail_idx + 1) % IDX_MOD /\ m2 = (last + 1) % IDX_MOD
  <2>1. rx.avail_idx = last % IDX_MOD /\ rx.last_used = Recycled % IDX_MOD
    BY <1>0 DEF VirtioInv, RxInv
  <2>2. PICK r \in Nat, r1 \in Nat, l1 \in Nat : r = Recycled /\ r1 = r + 1 /\ l1 = last + 1
    BY <1>1
  <2>3. (rx.last_used + 1) % IDX_MOD = r1 % IDX_MOD /\ (rx.avail_idx + 1) % IDX_MOD = l1 % IDX_MOD
    BY <2>1, <2>2, VirtioFacts, ZenonT(60)
  <2>4. r1 % IDX_MOD \in Nat /\ l1 % IDX_MOD \in Nat
    BY VirtioFacts
  <2> QED BY <2>2, <2>3, <2>4
<1>11. rx' = [rx EXCEPT !.avail = [rx.avail EXCEPT ![i] = d], !.avail_idx = m2, !.last_used = m1]
  BY <1>1, <1>2, <1>7, <1>9, <1>10, ZenonT(60) DEF avail_push, Queue
<1>12. /\ rx'.avail = [rx.avail EXCEPT ![i] = d] /\ rx'.avail_idx = m2 /\ rx'.last_used = m1
       /\ rx'.used = rx.used /\ rx'.buf = rx.buf /\ rx'.dev_idx = rx.dev_idx
       /\ rx'.used_idx = rx.used_idx
  BY <1>1, <1>11 DEF Queue
<1>13. rx' \in Queue(1 .. NUM_RX_BUFS)
  <2>1. d \in Nat
    BY VirtioFacts
  <2> QED BY <1>1, <1>11, <2>1, ZenonT(60) DEF Queue
<1>14. VirtioTypeOK'
  BY <1>2, <1>13, SMTT(30) DEF VirtioInv, VirtioTypeOK
<1>15. \A p \in Window' : p \in Nat /\ (p = last \/ (p \in Window /\ p # Recycled))
  BY <1>0, <1>1, <1>4, VirtioFacts, SMTT(30) DEF Window
<1>16. ASSUME NEW p \in Window, p # Recycled PROVE Desc(p)' = Desc(p)
  <2>1. p \in Nat /\ Recycled < p /\ p < last /\ last < p + QSIZE
    BY <1>0, <1>1, <1>16, VirtioFacts, SMTT(30) DEF Window
  <2>2. p % QSIZE # last % QSIZE /\ p % QSIZE \in 0 .. QSIZE - 1
    BY <1>1, <2>1, VirtioFacts, ZenonT(60)
  <2>3. rx'.avail[p % QSIZE] = rx.avail[p % QSIZE]
    BY <1>1, <1>8, <1>12, <2>2 DEF Queue
  <2> QED BY <1>2, <1>12, <2>3, ZenonT(60) DEF Desc
<1>17. Desc(last)' = d
  <2>1. ~(last < frames_in)
    BY <1>1
  <2>2. Desc(last)' = rx'.avail[i]
    BY <1>2, <1>8, <2>1 DEF Desc
  <2> QED BY <1>1, <1>12, <2>2, ZenonT(60) DEF Queue
<1>18. \A p \in Window' : Desc(p)' \in 1 .. NUM_RX_BUFS
  BY <1>15, <1>16, <1>17 DEF VirtioInv, RxInv
<1>19. ASSUME NEW p1 \in Window', NEW p2 \in Window', Desc(p1)' = Desc(p2)'
       PROVE  p1 = p2
  <2>1. \A p \in Window : Desc(p) = d => p = Recycled
    BY <1>5, <1>6 DEF VirtioInv, RxInv
  <2>2. \A q1, q2 \in Window : Desc(q1) = Desc(q2) => q1 = q2
    BY DEF VirtioInv, RxInv
  <2>3. CASE p1 = last /\ p2 # last
    BY <1>15, <1>16, <1>17, <1>19, <2>1, <2>3
  <2>4. CASE p1 # last /\ p2 = last
    BY <1>15, <1>16, <1>17, <1>19, <2>1, <2>4
  <2>5. CASE p1 # last /\ p2 # last
    BY <1>15, <1>16, <1>19, <2>2, <2>5, SMTT(30)
  <2> QED BY <2>3, <2>4, <2>5, SMTT(30)
<1>20. RxInv'
  <2>1. Recycled' \in Nat /\ frames_in' \in Recycled' .. Recycled' + NUM_RX_BUFS
    <3>1. Recycled + 1 \in Nat /\ frames_in \in Recycled + 1 .. Recycled + 1 + NUM_RX_BUFS
      BY <1>0, <1>1, <1>3, VirtioFacts
    <3> QED BY <1>2, <1>4, <3>1
  <2>2. /\ rx'.avail_idx = (Recycled' + NUM_RX_BUFS) % IDX_MOD
        /\ rx'.last_used = Recycled' % IDX_MOD
    <3>1. Recycled' + NUM_RX_BUFS = last + 1
      BY <1>0, <1>1, <1>4, VirtioFacts, SMTT(30)
    <3> QED BY <1>4, <1>10, <1>12, <3>1
  <2>3. rx'.dev_idx = frames_in' % IDX_MOD /\ rx'.used_idx = frames_in' % IDX_MOD
    BY <1>2, <1>12, ZenonT(60) DEF VirtioInv, RxInv
  <2>4. ASSUME NEW p \in Recycled' .. frames_in' - 1
        PROVE  rx'.buf[rx'.used[p % QSIZE]] = p + 1
    <3>1. p \in Recycled .. frames_in - 1
      BY <1>1, <1>2, <1>4
    <3> QED BY <1>12, <3>1 DEF VirtioInv, RxInv
  <2>5. ReceivesExact'
    BY <1>2 DEF VirtioInv, RxInv, ReceivesExact
  <2> QED BY <1>2, <1>18, <1>19, <2>1, <2>2, <2>3, <2>4, <2>5, ZenonT(60) DEF RxInv
<1>21. TxInv'
  BY <1>2, TxSame
<1> QED BY <1>14, <1>20, <1>21 DEF VirtioInv

(* The device sends the one frame it was given.                            *)
LEMMA DeviceTransmits ==
    ASSUME VirtioInv, device_transmits
    PROVE  VirtioInv'
<1> DEFINE w == Len(txq.wire)
<1>1. /\ txq \in [q : Queue({1}), asked : Nat, wire : Seq(Nat), gave_up : BOOLEAN]
      /\ w \in Nat
  BY DEF VirtioInv, VirtioTypeOK
<1>2. /\ txq' = [txq EXCEPT !.q = used_push(txq.q, 1), !.wire = Append(txq.wire, txq.q.buf[1])]
      /\ txq.q.dev_idx # txq.q.avail_idx /\ UNCHANGED <<rx, vpc, frames_in, got>>
  BY DEF device_transmits
<1>3. PICK i \in 0 .. QSIZE - 1 : i = txq.q.used_idx % QSIZE
  BY <1>1, VirtioFacts, Zenon DEF Queue
<1>4. PICK u1 \in Nat, d1 \in Nat :
         u1 = (txq.q.used_idx + 1) % IDX_MOD /\ d1 = (txq.q.dev_idx + 1) % IDX_MOD
  <2>1. txq.q.used_idx + 1 \in Nat /\ txq.q.dev_idx + 1 \in Nat
    BY <1>1 DEF Queue
  <2> QED BY <2>1, VirtioFacts, Zenon
<1>5. used_push(txq.q, 1) = [txq.q EXCEPT !.used = [txq.q.used EXCEPT ![i] = 1],
                                          !.used_idx = u1, !.dev_idx = d1]
  BY <1>1, <1>3, <1>4 DEF used_push, Queue
<1>6. PICK q1 \in Queue({1}) :
         /\ q1 = used_push(txq.q, 1) /\ q1.used_idx = u1 /\ q1.dev_idx = d1
         /\ q1.avail_idx = txq.q.avail_idx /\ q1.last_used = txq.q.last_used
         /\ q1.buf = txq.q.buf
  BY <1>1, <1>5, ZenonT(60) DEF Queue
<1>7. PICK b \in Nat : b = txq.q.buf[1]
  BY <1>1, SMTT(30) DEF Queue
<1>8. PICK w1 \in Seq(Nat) : /\ w1 = Append(txq.wire, b) /\ Len(w1) = w + 1 /\ w1[w + 1] = b
                             /\ \A k \in 1 .. w : w1[k] = txq.wire[k]
  <2>1. PICK s \in Seq(Nat) : s = txq.wire
    BY <1>1
  <2>2. /\ Append(s, b) \in Seq(Nat) /\ Len(Append(s, b)) = Len(s) + 1
        /\ Append(s, b)[Len(s) + 1] = b /\ \A k \in 1 .. Len(s) : Append(s, b)[k] = s[k]
    OBVIOUS
  <2> QED BY <2>1, <2>2, Zenon
<1>9. /\ txq'.q = q1 /\ txq'.wire = w1 /\ txq'.asked = txq.asked /\ txq'.gave_up = txq.gave_up
      /\ txq' \in [q : Queue({1}), asked : Nat, wire : Seq(Nat), gave_up : BOOLEAN]
  BY <1>1, <1>2, <1>6, <1>7, <1>8, ZenonT(60)
<1>10. VirtioTypeOK'
  BY <1>2, <1>9 DEF VirtioInv, VirtioTypeOK
<1>11. RxInv'
  BY <1>2, RxSame
<1>12. TxInv'
  <2> SUFFICES ASSUME ~txq.gave_up PROVE TxInv'
    BY <1>9, ZenonT(60) DEF TxInv
  <2>1. /\ \/ txq.asked = w
           \/ txq.asked = w + 1 /\ vpc = "spin" /\ txq.q.buf[1] = txq.asked
        /\ txq.q.avail_idx = txq.asked % IDX_MOD
        /\ txq.q.dev_idx = w % IDX_MOD /\ txq.q.used_idx = w % IDX_MOD
        /\ txq.q.last_used = (txq.asked - 1) % IDX_MOD \/ vpc # "spin"
        /\ \A k \in 1 .. w : txq.wire[k] = k
    BY Zenon DEF VirtioInv, TxInv
  <2>2. txq.asked # w
    BY <1>2, <2>1, SMTT(30)
  <2>3. txq.asked = w + 1 /\ vpc = "spin" /\ b = w + 1
    BY <1>7, <2>1, <2>2, ZenonT(60)
  <2>4. u1 = (w + 1) % IDX_MOD /\ d1 = (w + 1) % IDX_MOD
    BY <1>1, <1>4, <2>1, VirtioFacts, ZenonT(60)
  <2>5. ASSUME NEW k \in 1 .. w + 1 PROVE w1[k] = k
    <3>1. k \in 1 .. w \/ k = w + 1
      BY <1>1
    <3> QED BY <1>8, <2>1, <2>3, <3>1
  <2>6. txq.asked >= 1 /\ txq'.asked = Len(txq'.wire)
    BY <1>1, <1>8, <1>9, <2>3, SMTT(30)
  <2>7. /\ txq'.q.avail_idx = txq'.asked % IDX_MOD
        /\ txq'.q.dev_idx = Len(txq'.wire) % IDX_MOD /\ txq'.q.used_idx = Len(txq'.wire) % IDX_MOD
    BY <1>6, <1>8, <1>9, <2>1, <2>4, Zenon
  <2>8. vpc' = "spin" /\ txq'.asked >= 1 /\ txq'.q.last_used = (txq'.asked - 1) % IDX_MOD
    BY <1>2, <1>6, <1>9, <2>1, <2>3, <2>6
  <2>9. \A k \in 1 .. Len(txq'.wire) : txq'.wire[k] = k
    BY <1>8, <1>9, <2>5, SMTT(30)
  <2> QED BY <2>6, <2>7, <2>8, <2>9, Zenon DEF TxInv
<1> QED BY <1>10, <1>11, <1>12 DEF VirtioInv

(* A frame is written into the buffer only when the last one has left it.  *)
LEMMA TxFramePosts ==
    ASSUME VirtioInv, tx_frame_posts
    PROVE  VirtioInv'
<1>1. txq \in [q : Queue({1}), asked : Nat, wire : Seq(Nat), gave_up : BOOLEAN]
  BY DEF VirtioInv, VirtioTypeOK
<1>2. /\ vpc = "idle" /\ vpc' = "spin" /\ UNCHANGED <<rx, frames_in, got>>
      /\ txq' = [txq EXCEPT !.asked = txq.asked + 1,
                            !.q = avail_push([txq.q EXCEPT !.buf[1] = txq.asked + 1], 1)]
  BY DEF tx_frame_posts
<1>3. PICK i \in 0 .. QSIZE - 1 : i = txq.q.avail_idx % QSIZE
  BY <1>1, VirtioFacts, Zenon DEF Queue
<1>4. PICK a1 \in Nat : a1 = (txq.q.avail_idx + 1) % IDX_MOD
  <2>1. txq.q.avail_idx + 1 \in Nat
    BY <1>1 DEF Queue
  <2> QED BY <2>1, VirtioFacts
<1>5. avail_push([txq.q EXCEPT !.buf[1] = txq.asked + 1], 1)
        = [txq.q EXCEPT !.buf = [txq.q.buf EXCEPT ![1] = txq.asked + 1],
                        !.avail = [txq.q.avail EXCEPT ![i] = 1], !.avail_idx = a1]
  BY <1>1, <1>3, <1>4 DEF avail_push, Queue
<1>6. PICK q1 \in Queue({1}) :
         /\ q1 = avail_push([txq.q EXCEPT !.buf[1] = txq.asked + 1], 1) /\ q1.avail_idx = a1
         /\ q1.used_idx = txq.q.used_idx /\ q1.dev_idx = txq.q.dev_idx
         /\ q1.last_used = txq.q.last_used /\ q1.buf[1] = txq.asked + 1
  <2>1. PICK b1 \in [{1} -> Nat] :
           b1 = [txq.q.buf EXCEPT ![1] = txq.asked + 1] /\ b1[1] = txq.asked + 1
    <3>0. txq.q.buf \in [{1} -> Nat] /\ txq.asked + 1 \in Nat
      BY <1>1 DEF Queue
    <3>1. PICK b \in [{1} -> Nat], m \in Nat : b = txq.q.buf /\ m = txq.asked + 1
      BY <3>0, Zenon
    <3>2. [b EXCEPT ![1] = m] \in [{1} -> Nat] /\ [b EXCEPT ![1] = m][1] = m
      OBVIOUS
    <3> QED BY <3>1, <3>2, Zenon
  <2>2. PICK v1 \in [0 .. QSIZE - 1 -> Nat] : v1 = [txq.q.avail EXCEPT ![i] = 1]
    BY <1>1, Zenon DEF Queue
  <2>3. [txq.q EXCEPT !.buf = b1, !.avail = v1, !.avail_idx = a1] \in Queue({1})
    BY <1>1, Zenon DEF Queue
  <2> QED BY <1>1, <1>5, <2>1, <2>2, <2>3, Zenon DEF Queue
<1>7. /\ txq'.q = q1 /\ txq'.asked = txq.asked + 1 /\ txq'.wire = txq.wire
      /\ txq'.gave_up = txq.gave_up
      /\ txq' \in [q : Queue({1}), asked : Nat, wire : Seq(Nat), gave_up : BOOLEAN]
  <2>1. PICK n \in Nat : n = txq.asked + 1
    BY <1>1
  <2>2. txq' = [txq EXCEPT !.asked = n, !.q = q1]
    BY <1>2, <1>6, <2>1
  <2> QED BY <1>1, <2>1, <2>2, Zenon
<1>8. VirtioTypeOK'
  BY <1>2, <1>7 DEF VirtioInv, VirtioTypeOK
<1>9. RxInv'
  BY <1>2, RxSame
<1>10. TxInv'
  <2> SUFFICES ASSUME ~txq.gave_up PROVE TxInv'
    BY <1>7, ZenonT(60) DEF TxInv
  <2>1. /\ txq.asked = Len(txq.wire)
        /\ txq.q.avail_idx = txq.asked % IDX_MOD
        /\ txq.q.dev_idx = Len(txq.wire) % IDX_MOD /\ txq.q.used_idx = Len(txq.wire) % IDX_MOD
        /\ txq.q.last_used = txq.asked % IDX_MOD
        /\ \A k \in 1 .. Len(txq.wire) : txq.wire[k] = k
    BY <1>2, SMTT(30) DEF VirtioInv, TxInv
  <2>2. a1 = (txq.asked + 1) % IDX_MOD
    BY <1>1, <1>4, <2>1, VirtioFacts, ZenonT(60)
  <2>3. txq'.asked - 1 = txq.asked /\ txq'.asked >= 1
    BY <1>1, <1>7
  <2>4. txq'.q.last_used = (txq'.asked - 1) % IDX_MOD /\ txq'.q.avail_idx = txq'.asked % IDX_MOD
    BY <1>6, <1>7, <2>1, <2>2, <2>3
  <2>5. txq'.asked = Len(txq'.wire) + 1 /\ txq'.q.buf[1] = txq'.asked
    BY <1>6, <1>7, <2>1
  <2>6. /\ txq'.q.dev_idx = Len(txq'.wire) % IDX_MOD /\ txq'.q.used_idx = Len(txq'.wire) % IDX_MOD
        /\ \A k \in 1 .. Len(txq'.wire) : txq'.wire[k] = k
    BY <1>6, <1>7, <2>1
  <2> QED BY <1>2, <2>3, <2>4, <2>5, <2>6, SMTT(30) DEF TxInv
<1> QED BY <1>8, <1>9, <1>10 DEF VirtioInv

(* The wait ends because the used index moved: the frame is on the wire.   *)
LEMMA TxFrameReturns ==
    ASSUME VirtioInv, tx_frame_returns
    PROVE  VirtioInv'
<1>1. txq \in [q : Queue({1}), asked : Nat, wire : Seq(Nat), gave_up : BOOLEAN]
  BY DEF VirtioInv, VirtioTypeOK
<1>2. /\ vpc = "spin" /\ vpc' = "idle" /\ UNCHANGED <<rx, frames_in, got>>
      /\ txq.q.used_idx # txq.q.last_used
      /\ txq' = [txq EXCEPT !.q = [txq.q EXCEPT !.last_used = txq.q.used_idx]]
  BY <1>1 DEF tx_frame_returns
<1>3. /\ txq'.asked = txq.asked /\ txq'.wire = txq.wire /\ txq'.gave_up = txq.gave_up
      /\ txq'.q.last_used = txq.q.used_idx /\ txq'.q.used_idx = txq.q.used_idx
      /\ txq'.q.dev_idx = txq.q.dev_idx /\ txq'.q.avail_idx = txq.q.avail_idx
      /\ txq' \in [q : Queue({1}), asked : Nat, wire : Seq(Nat), gave_up : BOOLEAN]
  BY <1>1, <1>2, Zenon DEF Queue
<1>4. VirtioTypeOK'
  BY <1>2, <1>3 DEF VirtioInv, VirtioTypeOK
<1>5. RxInv'
  BY <1>2, RxSame
<1>6. TxInv'
  <2> SUFFICES ASSUME ~txq.gave_up PROVE TxInv'
    BY <1>3, Zenon DEF TxInv
  <2>1. /\ txq.asked = Len(txq.wire) \/ txq.asked = Len(txq.wire) + 1
        /\ txq.q.avail_idx = txq.asked % IDX_MOD
        /\ txq.q.dev_idx = Len(txq.wire) % IDX_MOD /\ txq.q.used_idx = Len(txq.wire) % IDX_MOD
        /\ txq.q.last_used = (txq.asked - 1) % IDX_MOD
        /\ \A k \in 1 .. Len(txq.wire) : txq.wire[k] = k
    BY <1>2 DEF VirtioInv, TxInv
  <2>2. Len(txq.wire) # txq.asked - 1
    BY <1>2, <2>1
  <2>3. txq.asked = Len(txq.wire)
    BY <1>1, <2>1, <2>2
  <2> QED BY <1>2, <1>3, <2>1, <2>3 DEF TxInv
<1> QED BY <1>4, <1>5, <1>6 DEF VirtioInv

LEMMA TxFrameGivesUp ==
    ASSUME VirtioInv, tx_frame_gives_up
    PROVE  VirtioInv'
<1>1. txq \in [q : Queue({1}), asked : Nat, wire : Seq(Nat), gave_up : BOOLEAN]
  BY DEF VirtioInv, VirtioTypeOK
<1>2. /\ vpc = "spin" /\ vpc' = "idle" /\ UNCHANGED <<rx, frames_in, got>>
      /\ txq' = [txq EXCEPT !.gave_up = TRUE]
  BY DEF tx_frame_gives_up
<1>3. /\ txq' \in [q : Queue({1}), asked : Nat, wire : Seq(Nat), gave_up : BOOLEAN]
      /\ txq'.gave_up = TRUE
  BY <1>1, <1>2, Zenon
<1>4. VirtioTypeOK'
  BY <1>2, <1>3 DEF VirtioInv, VirtioTypeOK
<1>5. RxInv'
  BY <1>2, RxSame, SMTT(30)
<1>6. TxInv'
  BY <1>3, Zenon DEF TxInv
<1> QED BY <1>4, <1>5, <1>6 DEF VirtioInv

(* The invariant of both queues: every receive buffer is in exactly one    *)
(* ring entry of the window that the indices delimit, the filled ones hold *)
(* the next frames in order, and at most one transmit is outstanding.      *)
THEOREM VirtioInvariant == VirtioSpec => []VirtioInv
<1>1. VirtioInit => VirtioInv
  BY VirtioStart
<1>2. VirtioInv /\ [VirtioNext]_virtio_vars => VirtioInv'
  <2> SUFFICES ASSUME VirtioInv, [VirtioNext]_virtio_vars PROVE VirtioInv'
    OBVIOUS
  <2>1. CASE UNCHANGED virtio_vars
    <3>1. UNCHANGED <<rx, txq, vpc, frames_in, got>>
      BY <2>1 DEF virtio_vars
    <3>2. RxInv' /\ TxInv'
      BY <3>1, RxSame, TxSame, SMTT(30)
    <3>3. VirtioTypeOK'
      BY <3>1, ZenonT(60) DEF VirtioInv, VirtioTypeOK
    <3> QED BY <3>2, <3>3 DEF VirtioInv
  <2> QED BY <2>1, DeviceReceives, DeviceTransmits, PollRxCopies, PollRxRecycles, TxFramePosts,
             TxFrameReturns, TxFrameGivesUp DEF VirtioNext
<1> QED BY <1>1, <1>2, PTL DEF VirtioSpec

(* For rings and pools of any size whose indices wrap at a multiple of the *)
(* ring: poll_rx returns the frames that arrived, in order, each once and  *)
(* intact, and until tx_frame gives up on a wait each frame it was asked   *)
(* to send goes out once, in order and as written.                         *)
THEOREM QueuesAreExact == VirtioSpec => []QueuesExact
<1>1. VirtioInv => QueuesExact
  <2> SUFFICES ASSUME VirtioInv PROVE ReceivesExact /\ TransmitsExact
    BY DEF QueuesExact
  <2>1. ReceivesExact
    BY DEF VirtioInv, RxInv
  <2>2. TransmitsExact
    BY DEF VirtioInv, TxInv, TransmitsExact
  <2> QED BY <2>1, <2>2
<1> QED BY <1>1, VirtioInvariant, PTL

-----------------------------------------------------------------------------
(* The pipe.                                                               *)

Wrap(x) == IF x < PIPE_CAP THEN x ELSE x - PIPE_CAP

Unread == sent - rcvd
Pending == IF reader = "store" THEN nread ELSE 0

(* How many bytes the reader takes before it comes to place i.             *)
Ahead(i) == IF i >= tail THEN i - tail ELSE i - tail + PIPE_CAP

(* The unread bytes lie between tail and head.                             *)
RingHolds ==
    /\ head = Wrap(tail + Unread)
    /\ \A i \in Ring : Ahead(i) < Unread => bytes[i] = rcvd + 1 + Ahead(i)

(* Every byte ever written lies at its number.                             *)
LapHolds ==
    /\ head = Wrap(sent) /\ tail = Wrap(rcvd)
    /\ \A i \in Ring : i < sent => bytes[i] = i + 1

(* len never counts a byte that is not there, and what a poll copies is    *)
(* there when it subtracts it, from the loaded len or from the present one. *)
Counts ==
    /\ rcvd <= sent
    /\ len <= Unread + Pending
    /\ reader \in {"copy", "store"} => loaded \in Nat /\ nread <= loaded /\ loaded <= len

InStep == Accounted => RingHolds /\ ordered
FirstLap == sent <= PIPE_CAP => LapHolds /\ ordered

PipeInv ==
    /\ PipeTypeOK /\ ordered \in BOOLEAN
    /\ Counts /\ InStep /\ FirstLap

-----------------------------------------------------------------------------
(* The remainders the ring takes.                                          *)

(* An index at most one lap ahead is brought back by one subtraction.      *)
LEMMA OneLap ==
    ASSUME NEW x \in 0 .. 2 * PIPE_CAP - 1
    PROVE  x % PIPE_CAP = Wrap(x)
<1>1. CASE x < PIPE_CAP
    BY <1>1, PipeAssumption DEF Wrap
<1>2. CASE x >= PIPE_CAP
    BY <1>2, PipeAssumption DEF Wrap
<1>3. QED BY <1>1, <1>2, PipeAssumption

(* The distance from one index to another, as pipe::write's loop meets it. *)
LEMMA Distance ==
    ASSUME NEW i \in Ring, NEW h \in Ring
    PROVE  (i - h) % PIPE_CAP = IF i >= h THEN i - h ELSE i - h + PIPE_CAP
<1>1. i \in Int /\ h \in Int /\ i - h < PIPE_CAP /\ 0 - PIPE_CAP <= i - h
    BY PipeAssumption DEF Ring
<1>2. CASE i >= h
    BY <1>1, <1>2, PipeAssumption
<1>3. CASE i < h
    BY <1>1, <1>3, PipeAssumption
<1>4. QED BY <1>1, <1>2, <1>3

(* The places pipe::write fills with m bytes are those less than m after   *)
(* head.                                                                   *)
LEMMA Filled ==
    ASSUME NEW i \in Ring, NEW h \in Ring, NEW m \in 0 .. PIPE_CAP
    PROVE  (\E j \in 1 .. m : i = (h + j - 1) % PIPE_CAP) <=> (i - h) % PIPE_CAP < m
<1> DEFINE d == IF i >= h THEN i - h ELSE i - h + PIPE_CAP
<1>1. (i - h) % PIPE_CAP = d
    BY Distance
<1>2. d \in 0 .. PIPE_CAP - 1 /\ i = Wrap(h + d)
    BY PipeAssumption DEF Ring, Wrap
<1>3. \A j \in 1 .. m : (h + j - 1) % PIPE_CAP = Wrap(h + j - 1)
  <2>1. \A j \in 1 .. m : h + j - 1 \in 0 .. 2 * PIPE_CAP - 1
    BY PipeAssumption DEF Ring
  <2>2. QED BY <2>1, OneLap
<1>4. ASSUME NEW j \in 1 .. m, i = Wrap(h + j - 1) PROVE d < m
    BY <1>4, PipeAssumption DEF Ring, Wrap
<1>5. ASSUME d < m PROVE d + 1 \in 1 .. m /\ i = Wrap(h + (d + 1) - 1)
    BY <1>2, <1>5, PipeAssumption DEF Ring
<1> HIDE DEF d
<1>6. QED BY <1>1, <1>3, <1>4, <1>5

-----------------------------------------------------------------------------
(* The copy of pipe::read.                                                 *)

(* Reading m of the unread bytes moves tail over them ...                  *)
LEMMA TailMoves ==
    ASSUME PipeTypeOK, NEW m \in 0 .. PIPE_CAP, CopyOut(m)
    PROVE  tail' = Wrap(tail + m) /\ tail' \in Ring
<1>1. tail + m \in 0 .. 2 * PIPE_CAP - 1
    BY PipeAssumption DEF PipeTypeOK, Ring
<1>2. tail' = Wrap(tail + m)
    BY <1>1, OneLap DEF CopyOut
<1>3. QED BY <1>1, <1>2, PipeAssumption DEF Wrap, Ring

(* ... and the bytes it meets are those it should, in either view.         *)
LEMMA PlacesRead ==
    ASSUME PipeTypeOK, NEW m \in 0 .. PIPE_CAP
    PROVE  \A j \in 1 .. m : /\ Wrap(tail + j - 1) \in Ring
                             /\ (tail + j - 1) % PIPE_CAP = Wrap(tail + j - 1)
                             /\ Ahead(Wrap(tail + j - 1)) = j - 1
<1>1. \A j \in 1 .. m : tail + j - 1 \in 0 .. 2 * PIPE_CAP - 1
    BY PipeAssumption DEF PipeTypeOK, Ring
<1>2. \A j \in 1 .. m : /\ Wrap(tail + j - 1) \in Ring
                        /\ Ahead(Wrap(tail + j - 1)) = j - 1
    BY PipeAssumption DEF PipeTypeOK, Ring, Wrap, Ahead
<1>3. QED BY <1>1, <1>2, OneLap

LEMMA CopyKeepsRing ==
    ASSUME PipeTypeOK, rcvd <= sent, Unread <= PIPE_CAP, RingHolds,
           NEW m \in 0 .. PIPE_CAP, m <= Unread, CopyOut(m),
           bytes' = bytes, head' = head, sent' = sent
    PROVE  RingHolds' /\ (ordered => ordered')
<1> USE PipeAssumption
<1>1. tail' = Wrap(tail + m) /\ tail' \in Ring /\ rcvd' = rcvd + m
    BY TailMoves DEF CopyOut
<1>2. head' = Wrap(tail' + Unread')
    BY <1>1 DEF RingHolds, Unread, Wrap, PipeTypeOK, Ring
<1>3. ASSUME NEW i \in Ring, Ahead(i)' < Unread' PROVE bytes'[i] = rcvd' + 1 + Ahead(i)'
  <2>1. Ahead(i)' \in Int /\ Ahead(i) = Ahead(i)' + m
    BY <1>1, <1>3 DEF Ahead, Unread, Wrap, PipeTypeOK, Ring
  <2>2. Ahead(i) < Unread /\ rcvd' + 1 + Ahead(i)' = rcvd + 1 + Ahead(i)
    BY <1>1, <1>3, <2>1 DEF Unread, PipeTypeOK
  <2>3. bytes[i] = rcvd + 1 + Ahead(i)
    BY <2>2 DEF RingHolds
  <2>4. QED BY <2>2, <2>3
<1>4. \A j \in 1 .. m : bytes[(tail + j - 1) % PIPE_CAP] = rcvd + j
  <2>1. SUFFICES ASSUME NEW j \in 1 .. m
                 PROVE  bytes[(tail + j - 1) % PIPE_CAP] = rcvd + j
    OBVIOUS
  <2> DEFINE i == Wrap(tail + j - 1)
  <2>2. i \in Ring /\ (tail + j - 1) % PIPE_CAP = i /\ Ahead(i) = j - 1
    BY PlacesRead
  <2> HIDE DEF i
  <2>3. QED BY <2>2 DEF RingHolds, Unread, PipeTypeOK
<1>5. ordered => ordered'
    BY <1>4, ZenonT(60) DEF CopyOut
<1>6. QED BY <1>2, <1>3, <1>5, SMTT(30) DEF RingHolds

LEMMA CopyKeepsLap ==
    ASSUME PipeTypeOK, sent <= PIPE_CAP, rcvd <= sent, LapHolds,
           NEW m \in 0 .. PIPE_CAP, m <= Unread, CopyOut(m),
           bytes' = bytes, head' = head, sent' = sent
    PROVE  LapHolds' /\ (ordered => ordered')
<1> USE PipeAssumption
<1>1. tail' = Wrap(tail + m) /\ tail' \in Ring /\ rcvd' = rcvd + m
    BY TailMoves DEF CopyOut
<1>2. tail' = Wrap(rcvd')
    BY <1>1 DEF LapHolds, Unread, Wrap, PipeTypeOK, Ring
<1>3. \A j \in 1 .. m : bytes[(tail + j - 1) % PIPE_CAP] = rcvd + j
  <2>1. SUFFICES ASSUME NEW j \in 1 .. m
                 PROVE  bytes[(tail + j - 1) % PIPE_CAP] = rcvd + j
    OBVIOUS
  <2>2. (tail + j - 1) % PIPE_CAP = Wrap(tail + j - 1)
    BY PlacesRead
  <2>3. Wrap(tail + j - 1) = rcvd + j - 1 /\ rcvd + j - 1 \in Ring /\ rcvd + j - 1 < sent
    BY DEF LapHolds, Unread, Wrap, PipeTypeOK, Ring
  <2>4. QED BY <2>2, <2>3 DEF LapHolds, PipeTypeOK
<1>4. ordered => ordered'
    BY <1>3, ZenonT(60) DEF CopyOut
<1>5. QED BY <1>2, <1>4 DEF LapHolds

-----------------------------------------------------------------------------
(* pipe::write.                                                            *)

(* What writing m bytes does to the ring, with the loop summed up.         *)
Wrote(m) ==
    /\ bytes' = [i \in Ring |->
                  IF \E j \in 1 .. m : i = (head + j - 1) % PIPE_CAP
                  THEN sent + 1 + ((i - head) % PIPE_CAP)
                  ELSE bytes[i]]
    /\ head' = (head + m) % PIPE_CAP
    /\ sent' = sent + m
    /\ tail' = tail /\ rcvd' = rcvd

(* The bytes written follow head; the others stay.                         *)
LEMMA PlacesWritten ==
    ASSUME PipeTypeOK, NEW m \in 0 .. PIPE_CAP, Wrote(m)
    PROVE  /\ head' = Wrap(head + m) /\ head' \in Ring
           /\ \A i \in Ring :
                LET d == IF i >= head THEN i - head ELSE i - head + PIPE_CAP
                IN  bytes'[i] = IF d < m THEN sent + 1 + d ELSE bytes[i]
           /\ bytes' \in [Ring -> Nat]
<1>1. head \in Ring /\ head + m \in 0 .. 2 * PIPE_CAP - 1
    BY PipeAssumption DEF PipeTypeOK, Ring
<1>2. head' = Wrap(head + m)
    BY <1>1, OneLap DEF Wrote
<1>3. head' \in Ring
    BY <1>1, <1>2, PipeAssumption DEF Wrap, Ring
<1>4. ASSUME NEW i \in Ring
      PROVE  LET d == IF i >= head THEN i - head ELSE i - head + PIPE_CAP
             IN  bytes'[i] = (IF d < m THEN sent + 1 + d ELSE bytes[i]) /\ bytes'[i] \in Nat
  <2> DEFINE d == IF i >= head THEN i - head ELSE i - head + PIPE_CAP
  <2>1. (i - head) % PIPE_CAP = d
    BY <1>1, Distance
  <2>2. (\E j \in 1 .. m : i = (head + j - 1) % PIPE_CAP) <=> (i - head) % PIPE_CAP < m
    BY <1>1, Filled
  <2>3. bytes'[i] = IF \E j \in 1 .. m : i = (head + j - 1) % PIPE_CAP
                    THEN sent + 1 + ((i - head) % PIPE_CAP)
                    ELSE bytes[i]
    BY DEF Wrote
  <2>4. bytes'[i] = IF d < m THEN sent + 1 + d ELSE bytes[i]
    BY <2>1, <2>2, <2>3
  <2>5. d \in Nat
    BY <1>1, PipeAssumption DEF Ring
  <2> HIDE DEF d
  <2>6. bytes'[i] \in Nat
    BY <2>4, <2>5, PipeAssumption DEF PipeTypeOK
  <2>7. QED BY <2>4, <2>6 DEF d
<1>5. bytes' \in [Ring -> Nat]
  <2>1. bytes' = [i \in Ring |-> bytes'[i]]
    BY SMTT(30) DEF Wrote
  <2>2. QED BY <1>4, <2>1
<1>6. QED BY <1>2, <1>3, <1>4, <1>5

LEMMA WriteKeepsRing ==
    ASSUME PipeTypeOK, rcvd <= sent, RingHolds,
           NEW m \in 0 .. PIPE_CAP, Unread + m <= PIPE_CAP, Wrote(m)
    PROVE  RingHolds'
<1> USE PipeAssumption
<1>1. head' = Wrap(head + m) /\ sent' = sent + m /\ tail' = tail /\ rcvd' = rcvd
    BY PlacesWritten DEF Wrote
<1>2. head' = Wrap(tail' + Unread')
    BY <1>1 DEF RingHolds, Unread, Wrap, PipeTypeOK, Ring
<1>3. ASSUME NEW i \in Ring, Ahead(i) < Unread + m PROVE bytes'[i] = rcvd + 1 + Ahead(i)
  <2> DEFINE d == IF i >= head THEN i - head ELSE i - head + PIPE_CAP
  <2>1. bytes'[i] = IF d < m THEN sent + 1 + d ELSE bytes[i]
    BY PlacesWritten
  <2>2. CASE Ahead(i) < Unread
    <3>1. ~(d < m)
      BY <2>2 DEF RingHolds, Unread, Ahead, Wrap, PipeTypeOK, Ring
    <3>2. QED BY <2>1, <2>2, <3>1 DEF RingHolds
  <2>3. CASE ~(Ahead(i) < Unread)
    <3>1. d < m /\ sent + 1 + d = rcvd + 1 + Ahead(i)
      BY <1>3, <2>3 DEF RingHolds, Unread, Ahead, Wrap, PipeTypeOK, Ring
    <3>2. QED BY <2>1, <3>1
  <2>4. QED BY <2>2, <2>3
<1>4. \A i \in Ring : Ahead(i)' = Ahead(i)
    BY <1>1 DEF Ahead
<1>5. Unread' = Unread + m
    BY <1>1 DEF Unread, PipeTypeOK
<1>6. QED BY <1>1, <1>2, <1>3, <1>4, <1>5 DEF RingHolds

LEMMA WriteKeepsLap ==
    ASSUME PipeTypeOK, LapHolds,
           NEW m \in 0 .. PIPE_CAP, sent + m <= PIPE_CAP, Wrote(m)
    PROVE  LapHolds'
<1> USE PipeAssumption
<1>1. head' = Wrap(head + m) /\ sent' = sent + m /\ tail' = tail /\ rcvd' = rcvd
    BY PlacesWritten DEF Wrote
<1>2. head' = Wrap(sent')
    BY <1>1 DEF LapHolds, Wrap, PipeTypeOK, Ring
<1>3. ASSUME NEW i \in Ring, i < sent + m PROVE bytes'[i] = i + 1
  <2> DEFINE d == IF i >= head THEN i - head ELSE i - head + PIPE_CAP
  <2>1. bytes'[i] = IF d < m THEN sent + 1 + d ELSE bytes[i]
    BY PlacesWritten
  <2>2. CASE i < sent
    <3>1. ~(d < m)
      BY <2>2 DEF LapHolds, Wrap, PipeTypeOK, Ring
    <3>2. QED BY <2>1, <2>2, <3>1 DEF LapHolds
  <2>3. CASE ~(i < sent)
    <3>1. d < m /\ sent + 1 + d = i + 1
      BY <1>3, <2>3 DEF LapHolds, Wrap, PipeTypeOK, Ring
    <3>2. QED BY <2>1, <3>1
  <2>4. QED BY <2>2, <2>3
<1>4. QED BY <1>1, <1>2, <1>3 DEF LapHolds

-----------------------------------------------------------------------------
(* The inductive invariant.                                                *)

LEMMA PipeInitInv == PipeInit => PipeInv
<1> SUFFICES ASSUME PipeInit PROVE PipeInv
    OBVIOUS
<1> USE PipeAssumption DEF PipeInit
<1>1. PipeTypeOK /\ ordered \in BOOLEAN
    BY DEF PipeTypeOK, Ring
<1>2. Counts
    BY DEF Counts, Unread, Pending
<1>3. RingHolds /\ LapHolds
    BY DEF RingHolds, LapHolds, Unread, Ahead, Wrap, Ring
<1>4. QED BY <1>1, <1>2, <1>3 DEF PipeInv, InStep, FirstLap

(* A step that leaves the ring alone keeps what is said of it.             *)
LEMMA RingKept ==
    ASSUME UNCHANGED ring_vars
    PROVE  RingHolds' = RingHolds /\ LapHolds' = LapHolds /\ Unread' = Unread
BY DEF ring_vars, RingHolds, LapHolds, Unread, Ahead, Wrap

LEMMA WriteInv ==
    ASSUME PipeInv, NEW k \in 1 .. MaxLen, write(k)
    PROVE  PipeInv'
<1> USE PipeAssumption
<1> DEFINE m == Lesser(k, PIPE_CAP - len)
<1>1. m \in 0 .. PIPE_CAP /\ len + m <= PIPE_CAP /\ m <= k
    BY DEF PipeInv, PipeTypeOK, Lesser
<1>2. Wrote(m) /\ len' = len + m /\ sent + k <= Total
    BY DEF write, Wrote
<1>3. UNCHANGED <<tail, rcvd, ordered, reader, nread, want, loaded>>
    BY DEF write
<1> HIDE DEF m
<1>4. sent' = sent + m
    BY <1>2 DEF Wrote
<1>5. PipeTypeOK
    BY DEF PipeInv
<1>6. PipeTypeOK' /\ (ordered \in BOOLEAN)'
  <2>1. head' \in Ring /\ bytes' \in [Ring -> Nat]
    BY <1>1, <1>2, <1>5, PlacesWritten
  <2>2. sent' \in 0 .. Total /\ len' \in 0 .. PIPE_CAP
    BY <1>1, <1>2, <1>4, <1>5 DEF PipeTypeOK
  <2>3. QED BY <1>3, <1>5, <2>1, <2>2 DEF PipeInv, PipeTypeOK
<1>7. Counts'
    BY <1>1, <1>2, <1>3, <1>4, <1>5 DEF PipeInv, PipeTypeOK, Counts, Unread, Pending
<1>8. InStep'
  <2>1. SUFFICES ASSUME Accounted' PROVE RingHolds' /\ ordered'
    BY DEF InStep
  <2>2. Accounted
    BY <1>1, <1>2, <1>3, <1>4, <1>5, <2>1 DEF Accounted, PipeTypeOK
  <2>3. rcvd <= sent /\ Unread + m <= PIPE_CAP
    BY <1>1, <1>5, <2>2 DEF PipeInv, Counts, Accounted, Unread, PipeTypeOK
  <2>4. QED BY <1>1, <1>2, <1>3, <1>5, <2>2, <2>3, WriteKeepsRing DEF PipeInv, InStep
<1>9. FirstLap'
  <2>1. SUFFICES ASSUME sent + m <= PIPE_CAP PROVE LapHolds' /\ ordered'
    BY <1>4 DEF FirstLap
  <2>2. sent <= PIPE_CAP
    BY <1>1, <1>5, <2>1 DEF PipeTypeOK
  <2>3. QED BY <1>1, <1>2, <1>3, <1>5, <2>1, <2>2, WriteKeepsLap DEF PipeInv, FirstLap
<1>10. QED BY <1>6, <1>7, <1>8, <1>9 DEF PipeInv

(* Both polls copy bytes that are there.                                   *)
LEMMA CopyInv ==
    ASSUME PipeInv, reader # "store", NEW m \in 0 .. PIPE_CAP, m <= len, CopyOut(m),
           UNCHANGED <<bytes, head, sent>>
    PROVE  /\ bytes' \in [Ring -> Nat] /\ head' \in Ring /\ tail' \in Ring
           /\ sent' \in 0 .. Total /\ rcvd' \in Nat
           /\ ordered' \in BOOLEAN
           /\ rcvd' <= sent' /\ Unread' = Unread - m /\ len <= Unread
           /\ Accounted => RingHolds' /\ ordered'
           /\ FirstLap'
<1> USE PipeAssumption
<1>1. PipeTypeOK /\ rcvd <= sent /\ len <= Unread /\ m <= Unread
    BY DEF PipeInv, PipeTypeOK, Counts, Unread, Pending
<1>2. tail' \in Ring /\ rcvd' = rcvd + m
    BY <1>1, TailMoves DEF CopyOut
<1>3. ordered' \in BOOLEAN
    BY DEF CopyOut, PipeInv
<1>4. rcvd' <= sent' /\ rcvd' \in Nat /\ Unread' = Unread - m
    BY <1>1, <1>2 DEF PipeTypeOK, Unread
<1>5. ASSUME Accounted PROVE RingHolds' /\ ordered'
  <2>1. Unread <= PIPE_CAP
    BY <1>1, <1>5 DEF Accounted, Unread, PipeTypeOK
  <2>2. RingHolds /\ ordered
    BY <1>5 DEF PipeInv, InStep
  <2>3. QED BY <1>1, <2>1, <2>2, CopyKeepsRing
<1>6. FirstLap'
  <2>1. SUFFICES ASSUME sent <= PIPE_CAP PROVE LapHolds' /\ ordered'
    BY DEF FirstLap
  <2>2. LapHolds /\ ordered
    BY <2>1 DEF PipeInv, FirstLap
  <2>3. QED BY <1>1, <2>1, <2>2, CopyKeepsLap
<1>7. QED BY <1>1, <1>2, <1>3, <1>4, <1>5, <1>6 DEF PipeTypeOK

LEMMA FirstPollInv ==
    ASSUME PipeInv, NEW k \in 1 .. MaxLen, FirstPoll(k)
    PROVE  PipeInv'
<1> USE PipeAssumption
<1> DEFINE m == Lesser(k, len)
<1>1. m \in 0 .. PIPE_CAP /\ m <= len /\ m <= k /\ m \in 0 .. MaxLen
    BY DEF PipeInv, PipeTypeOK, Lesser
<1>2. /\ CopyOut(m) /\ len' = len - m /\ UNCHANGED <<bytes, head, sent>>
      /\ reader = "user" /\ reader' \in {"user", "parked"} /\ nread' \in {0, m} /\ want' = k
    BY DEF FirstPoll, Return
<1> HIDE DEF m
<1>3. /\ bytes' \in [Ring -> Nat] /\ head' \in Ring /\ tail' \in Ring
      /\ sent' \in 0 .. Total /\ rcvd' \in Nat
      /\ ordered' \in BOOLEAN
      /\ rcvd' <= sent' /\ Unread' = Unread - m /\ len <= Unread
      /\ Accounted => RingHolds' /\ ordered'
      /\ FirstLap'
    BY <1>1, <1>2, CopyInv
<1>4. PipeTypeOK' /\ (ordered \in BOOLEAN)'
    BY <1>1, <1>2, <1>3 DEF PipeInv, PipeTypeOK
<1>5. Unread \in Int /\ len \in Int
    BY DEF PipeInv, PipeTypeOK, Unread
<1>6. Counts'
  <2>1. Pending' = 0 /\ len - m <= (Unread - m) + 0
    BY <1>1, <1>2, <1>3, <1>5 DEF Pending
  <2>2. QED BY <1>2, <1>3, <2>1 DEF Counts
<1>7. Accounted' => Accounted
  <2>1. sent - rcvd = Unread /\ (sent - rcvd)' = Unread - m
    BY <1>3 DEF Unread
  <2>2. QED BY <1>1, <1>2, <1>5, <2>1 DEF Accounted
<1>8. QED BY <1>3, <1>4, <1>6, <1>7 DEF PipeInv, InStep

LEMMA CopyStepInv ==
    ASSUME PipeInv, Copy
    PROVE  PipeInv'
<1> USE PipeAssumption
<1>1. /\ CopyOut(nread) /\ len' = len /\ UNCHANGED <<bytes, head, sent, nread, want, loaded>>
      /\ reader = "copy" /\ reader' = "store"
    BY DEF Copy
<1>2. nread \in 0 .. PIPE_CAP /\ nread <= len /\ loaded \in Nat /\ nread <= loaded /\ loaded <= len
    BY <1>1 DEF PipeInv, PipeTypeOK, Counts
<1>3. /\ bytes' \in [Ring -> Nat] /\ head' \in Ring /\ tail' \in Ring
      /\ sent' \in 0 .. Total /\ rcvd' \in Nat
      /\ ordered' \in BOOLEAN
      /\ rcvd' <= sent' /\ Unread' = Unread - nread /\ len <= Unread
      /\ Accounted => RingHolds' /\ ordered'
      /\ FirstLap'
    BY <1>1, <1>2, CopyInv
<1>4. PipeTypeOK' /\ (ordered \in BOOLEAN)'
    BY <1>1, <1>3 DEF PipeInv, PipeTypeOK
<1>5. Unread \in Int /\ len \in Int
    BY DEF PipeInv, PipeTypeOK, Unread
<1>6. Counts'
    BY <1>1, <1>2, <1>3, <1>5 DEF Counts, Pending
<1>7. Accounted' => Accounted
  <2>1. sent - rcvd = Unread /\ (sent - rcvd)' = Unread - nread
    BY <1>3 DEF Unread
  <2>2. QED BY <1>1, <1>2, <1>5, <2>1 DEF Accounted
<1>8. QED BY <1>3, <1>4, <1>6, <1>7 DEF PipeInv, InStep

(* The race: the length stored is at most what is there, and it is all     *)
(* that is there only if nothing was lost.                                 *)
LEMMA StoreInv ==
    ASSUME PipeInv, StoreLen
    PROVE  PipeInv'
<1> USE PipeAssumption
<1>1. /\ bytes' = bytes /\ head' = head /\ tail' = tail /\ sent' = sent /\ rcvd' = rcvd
      /\ ordered' = ordered /\ want' = want
      /\ reader = "store" /\ reader' \in {"user", "asking"} /\ nread' = nread
      /\ len' \in {loaded - nread, len - nread}
    BY DEF StoreLen, Return
<1>2. PipeTypeOK /\ loaded \in Nat /\ nread <= loaded /\ loaded <= len /\ nread \in Nat
    BY <1>1 DEF PipeInv, PipeTypeOK, Counts
<1>3. PipeTypeOK' /\ (ordered \in BOOLEAN)'
    BY <1>1, <1>2 DEF PipeInv, PipeTypeOK
<1>4. Counts'
    BY <1>1, <1>2 DEF PipeInv, PipeTypeOK, Counts, Unread, Pending
<1>5. Accounted' => Accounted
    BY <1>1, <1>2 DEF PipeInv, PipeTypeOK, Counts, Unread, Pending, Accounted
<1>6. RingHolds' = RingHolds /\ LapHolds' = LapHolds
    BY <1>1 DEF RingHolds, LapHolds, Unread, Ahead, Wrap
<1>7. QED BY <1>1, <1>3, <1>4, <1>5, <1>6 DEF PipeInv, InStep, FirstLap

(* The steps that touch neither the ring nor its length.                   *)
LEMMA OtherInv ==
    ASSUME PipeInv, UNCHANGED <<ring_vars, want>>, reader # "store", reader' # "store",
           reader' \in {"user", "parked", "copy", "asking"}, nread' \in 0 .. MaxLen,
           reader' = "copy" => loaded' \in Nat /\ nread' <= loaded' /\ loaded' <= len
    PROVE  PipeInv'
<1>1. PipeTypeOK' /\ (ordered \in BOOLEAN)'
    BY DEF PipeInv, PipeTypeOK, ring_vars
<1>2. Counts'
    BY DEF PipeInv, Counts, Unread, Pending, ring_vars
<1>3. Accounted' = Accounted
    BY DEF Accounted, ring_vars
<1>4. QED BY <1>1, <1>2, <1>3, RingKept DEF PipeInv, InStep, FirstLap, ring_vars

LEMMA PipeNextInv ==
    ASSUME PipeInv, [PipeNext]_pipe_vars
    PROVE  PipeInv'
<1> USE PipeAssumption
<1>1. ASSUME UNCHANGED <<ring_vars, reader, nread, want, loaded>> PROVE PipeInv'
  <2>1. PipeTypeOK' /\ (ordered \in BOOLEAN)' /\ Counts'
    BY <1>1 DEF PipeInv, PipeTypeOK, Counts, Unread, Pending, ring_vars
  <2>2. Accounted' = Accounted
    BY <1>1 DEF Accounted, ring_vars
  <2>3. QED BY <1>1, <2>1, <2>2, RingKept DEF PipeInv, InStep, FirstLap, ring_vars
<1>2. CASE pipe_schedule
    BY <1>1, <1>2 DEF pipe_schedule
<1>3. CASE \E k \in 1 .. MaxLen : write(k)
    BY <1>3, WriteInv
<1>4. CASE \E k \in 1 .. MaxLen : FirstPoll(k)
    BY <1>4, FirstPollInv
<1>5. CASE close
    BY <1>1, <1>5 DEF close
<1>6. CASE Load
  <2>1. Lesser(want, len) \in 0 .. MaxLen /\ Lesser(want, len) <= len /\ len \in Nat
    BY DEF PipeInv, PipeTypeOK, Lesser
  <2>2. QED BY <1>6, <2>1, OtherInv DEF Load
<1>7. CASE Copy
    BY <1>7, CopyStepInv
<1>8. CASE StoreLen
    BY <1>8, StoreInv
<1>9. CASE Ask
  <2>1. nread \in 0 .. MaxLen /\ 0 \in 0 .. MaxLen
    BY DEF PipeInv, PipeTypeOK
  <2>2. QED BY <1>9, <2>1, OtherInv DEF Ask, Return
<1>10. CASE UNCHANGED pipe_vars
    BY <1>1, <1>10 DEF pipe_vars
<1>11. QED BY <1>2, <1>3, <1>4, <1>5, <1>6, <1>7, <1>8, <1>9, <1>10 DEF PipeNext, Poll

(* PipeInv holds in every reachable state of the pipe.                     *)
THEOREM PipeInvariant == PipeSpec => []PipeInv
<1>1. PipeInit => PipeInv
    BY PipeInitInv
<1>2. PipeInv /\ [PipeNext]_pipe_vars => PipeInv'
    BY PipeNextInv
<1>3. QED BY <1>1, <1>2, PTL DEF PipeSpec

(* For every ring size: the reader of do_pipe_read_loop takes the bytes in *)
(* the order pipe::write put them, as long as the race on len has lost     *)
(* none, and until the ring wraps even if it has.                          *)
THEOREM PipeIsSound == PipeSpec => []PipeSound
<1>1. PipeInv => PipeSound
    BY DEF PipeInv, PipeSound, BytesInOrder, InStep, FirstLap
<1>2. QED BY <1>1, PipeInvariant, PTL
=============================================================================
