----------------------------- MODULE XhciRing -----------------------------
(***************************************************************************)
(* The two kinds of ring the xHCI driver shares with the controller        *)
(* (kernel/src/xhci.rs).  On a command or transfer ring the driver is the  *)
(* producer: it stamps each TRB with its cycle state (pcs) and, at the     *)
(* last slot, rewrites the Link TRB and toggles pcs.  On the event ring it *)
(* is the consumer: a TRB is there when its cycle bit is the consumer's.   *)
(* No index is shared: the cycle bit alone tells a fresh TRB from the one  *)
(* the previous lap left in the slot.                                      *)
(*                                                                         *)
(* TRBs are numbered from 0 in the order they are produced.                *)
(***************************************************************************)
EXTENDS Integers

CONSTANTS
    RING_TRBS,      \* slots of a ring, the Link TRB included
    MaxOutstanding, \* TRBs the producer leaves unconsumed
    MaxTrbs         \* bound of the model: TRBs ever produced on a ring

ASSUME RingConstants ==
    /\ RING_TRBS \in Nat /\ RING_TRBS > 2
    /\ MaxOutstanding \in 1 .. RING_TRBS - 2
    /\ MaxTrbs \in Nat

VARIABLES
    ring,   \* transfer ring: slot -> [id, cycle]; the last slot is the Link TRB
    enq, pcs,       \* driver: enqueue index and producer cycle state
    deq, ccs,       \* controller: dequeue index and cycle state
    put, consumed,       \* TRBs produced and consumed on the transfer ring
    ering,          \* event ring: slot -> [id, cycle]; it has no Link TRB
    eenq, epcs,     \* controller: where the next event goes
    event_dequeue, event_ccs,   \* driver: Xhci.event_dequeue, event_ccs
    eput, egot      \* events produced and consumed

transfer_vars == <<ring, enq, pcs, deq, ccs, put, consumed>>
event_vars == <<ering, eenq, epcs, event_dequeue, event_ccs, eput, egot>>
rings_vars == <<transfer_vars, event_vars>>

Link == RING_TRBS - 1
Trb(id, cycle) == [id |-> id, cycle |-> cycle]
NoId == -1

\* write_link_trb on a zeroed page: the Link TRB starts with its cycle bit set.
NewRing == [i \in 0 .. Link |-> Trb(NoId, IF i = Link THEN 1 ELSE 0)]
ZeroPage == [i \in 0 .. RING_TRBS - 1 |-> Trb(NoId, 0)]

RingInit ==
    /\ ring = NewRing
    /\ enq = 0 /\ pcs = 1 /\ deq = 0 /\ ccs = 1 /\ put = 0 /\ consumed = 0
    /\ ering = ZeroPage
    /\ eenq = 0 /\ epcs = 1 /\ event_dequeue = 0 /\ event_ccs = 1 /\ eput = 0 /\ egot = 0

-----------------------------------------------------------------------------
(* The driver produces: enqueue_cmd, enqueue_ep0, queue_interrupt_in,      *)
(* enqueue_bulk all run these lines on their own ring and cursor.          *)

\* Mutant: the producer wraps without toggling its cycle state.
enqueue_SameCycle ==
    /\ put - consumed < MaxOutstanding /\ put < MaxTrbs
    /\ LET wrap == enq >= Link
           at == IF wrap THEN 0 ELSE enq IN
       /\ ring' = [i \in 0 .. Link |->
                     IF i = at THEN Trb(put, pcs)
                     ELSE IF wrap /\ i = Link THEN Trb(NoId, pcs)
                     ELSE ring[i]]
       /\ enq' = at + 1
    /\ put' = put + 1
    /\ UNCHANGED <<pcs, deq, ccs, consumed, event_vars>>

enqueue ==
    /\ put - consumed < MaxOutstanding /\ put < MaxTrbs
    /\ LET wrap == enq >= Link
           at == IF wrap THEN 0 ELSE enq
           cycle == IF wrap THEN 1 - pcs ELSE pcs IN
       /\ ring' = [i \in 0 .. Link |->
                     IF i = at THEN Trb(put, cycle)
                     ELSE IF wrap /\ i = Link THEN Trb(NoId, pcs)
                     ELSE ring[i]]
       /\ enq' = at + 1
       /\ pcs' = cycle
    /\ put' = put + 1
    /\ UNCHANGED <<deq, ccs, consumed, event_vars>>

\* The controller's side: it follows the Link TRB when that is its cycle,
\* toggling its own, and takes the TRB it lands on when the cycle bits agree.
Followed == deq = Link /\ ring[Link].cycle = ccs
At == IF Followed THEN 0 ELSE deq
Cycle == IF Followed THEN 1 - ccs ELSE ccs
Visible == At # Link /\ ring[At].cycle = Cycle

consume ==
    /\ Visible
    /\ deq' = At + 1
    /\ ccs' = Cycle
    /\ consumed' = consumed + 1
    /\ UNCHANGED <<ring, enq, pcs, put, event_vars>>

-----------------------------------------------------------------------------
(* The controller produces events and stops short of the dequeue pointer   *)
(* the driver last wrote to ERDP.                                          *)

post_event ==
    /\ eput - egot < RING_TRBS - 1 /\ eput < MaxTrbs
    /\ ering' = [ering EXCEPT ![eenq] = Trb(eput, epcs)]
    /\ LET wrap == eenq + 1 = RING_TRBS IN
       /\ eenq' = IF wrap THEN 0 ELSE eenq + 1
       /\ epcs' = IF wrap THEN 1 - epcs ELSE epcs
    /\ eput' = eput + 1
    /\ UNCHANGED <<event_dequeue, event_ccs, egot, transfer_vars>>

EventThere == ering[event_dequeue].cycle = event_ccs

poll_event ==
    /\ EventThere
    /\ LET next == event_dequeue + 1
           wrap == next >= RING_TRBS IN
       /\ event_dequeue' = IF wrap THEN 0 ELSE next
       /\ event_ccs' = IF wrap THEN 1 - event_ccs ELSE event_ccs
    /\ egot' = egot + 1
    /\ UNCHANGED <<ering, eenq, epcs, eput, transfer_vars>>

RingNext == enqueue \/ consume \/ post_event \/ poll_event

RingSpec == RingInit /\ [][RingNext]_rings_vars

-----------------------------------------------------------------------------
(* On both rings the consumer finds a TRB exactly when one is outstanding, *)
(* and it is the oldest one: across any number of laps no TRB is lost,     *)
(* repeated, or taken for a leftover of the lap before (the Link and cycle *)
(* handling of enqueue_cmd and poll_event).                                *)
RingsExact ==
    /\ Visible <=> put > consumed
    /\ Visible => ring[At].id = consumed
    /\ EventThere <=> eput > egot
    /\ EventThere => ering[event_dequeue].id = egot

=============================================================================
