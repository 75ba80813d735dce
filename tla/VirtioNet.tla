----------------------------- MODULE VirtioNet -----------------------------
(***************************************************************************)
(* The virtio-net driver (kernel/src/virtio_net.rs) and its device.  The   *)
(* receive queue holds NUM_RX_BUFS buffers, posted once and recycled by    *)
(* poll_rx; the transmit queue has one buffer and one descriptor, so       *)
(* tx_frame waits for the device to be done with it, but not for ever.     *)
(* Ring indices are modulo IDX_MOD (2^16) and select entries modulo the    *)
(* queue size.  The device is the other actor.                             *)
(***************************************************************************)
EXTENDS Integers, Sequences

CONSTANTS
    QSIZE,          \* entries of each ring
    NUM_RX_BUFS,    \* receive buffers, at most QSIZE
    IDX_MOD,        \* ring indices wrap here
    MaxFrames,      \* bound: frames that arrive
    MaxSends        \* bound: frames sent

ASSUME VirtioConstants ==
    /\ QSIZE \in Nat \ {0} /\ NUM_RX_BUFS \in 1 .. QSIZE
    /\ IDX_MOD \in Nat /\ IDX_MOD > QSIZE /\ IDX_MOD % QSIZE = 0

VARIABLES
    rx,         \* receive queue: rings, both sides' indices, buffers
    txq,        \* transmit queue, its buffer, and what is on the wire
    vpc,        \* where the driver is: idle, in poll_rx, or in tx_frame
    frames_in,    \* frames the device took from the link
    got         \* frames poll_rx returned
virtio_vars == <<rx, txq, vpc, frames_in, got>>

Nothing == 0

\* Publish a descriptor: ring entry first, then the index.
avail_push(q, desc) ==
    [q EXCEPT !.avail[q.avail_idx % QSIZE] = desc, !.avail_idx = (@ + 1) % IDX_MOD]

\* The device hands a descriptor back.
used_push(q, desc) ==
    [q EXCEPT !.used[q.used_idx % QSIZE] = desc, !.used_idx = (@ + 1) % IDX_MOD,
              !.dev_idx = (@ + 1) % IDX_MOD]

Empty(bufs) == [avail |-> [k \in 0 .. QSIZE - 1 |-> Nothing], avail_idx |-> 0,
                used |-> [k \in 0 .. QSIZE - 1 |-> Nothing], used_idx |-> 0,
                last_used |-> 0, dev_idx |-> 0, buf |-> [b \in bufs |-> Nothing]]

\* init: every receive buffer is posted, in order.
VirtioInit ==
    /\ rx = [Empty(1 .. NUM_RX_BUFS) EXCEPT
                !.avail = [k \in 0 .. QSIZE - 1 |-> IF k < NUM_RX_BUFS THEN k + 1 ELSE Nothing],
                !.avail_idx = NUM_RX_BUFS]
    /\ txq = [q |-> Empty({1}), asked |-> 0, wire |-> <<>>, gave_up |-> FALSE]
    /\ vpc = "idle" /\ frames_in = 0 /\ got = <<>>

-----------------------------------------------------------------------------
(* The device.                                                             *)

\* Receive: fill the next posted buffer.  With none posted the frame is lost.
device_receives ==
    /\ frames_in < MaxFrames /\ rx.dev_idx # rx.avail_idx
    /\ LET desc == rx.avail[rx.dev_idx % QSIZE] IN
       rx' = used_push([rx EXCEPT !.buf[desc] = frames_in + 1], desc)
    /\ frames_in' = frames_in + 1 /\ UNCHANGED <<txq, vpc, got>>

\* Transmit: read the buffer as it is now.
device_transmits ==
    /\ txq.q.dev_idx # txq.q.avail_idx
    /\ txq' = [txq EXCEPT !.q = used_push(@, 1), !.wire = Append(@, txq.q.buf[1])]
    /\ UNCHANGED <<rx, vpc, frames_in, got>>

-----------------------------------------------------------------------------
(* The driver.                                                             *)

\* poll_rx: copy the frame out of the buffer the used ring names ...
poll_rx_copies ==
    /\ vpc = "idle" /\ rx.used_idx # rx.last_used
    /\ got' = Append(got, rx.buf[rx.used[rx.last_used % QSIZE]])
    /\ vpc' = "copied" /\ UNCHANGED <<rx, txq, frames_in>>

\* ... then take the entry and recycle the buffer.
poll_rx_recycles ==
    /\ vpc = "copied"
    /\ rx' = avail_push([rx EXCEPT !.last_used = (@ + 1) % IDX_MOD], rx.used[rx.last_used % QSIZE])
    /\ vpc' = "idle" /\ UNCHANGED <<txq, frames_in, got>>

\* tx_frame: fill the one buffer and publish the one descriptor.
tx_frame_posts ==
    /\ vpc = "idle" /\ txq.asked < MaxSends
    /\ txq' = [txq EXCEPT !.asked = @ + 1, !.q = avail_push([@ EXCEPT !.buf[1] = txq.asked + 1], 1)]
    /\ vpc' = "spin" /\ UNCHANGED <<rx, frames_in, got>>

\* Mutant: the wait is left out.
tx_frame_returns_NoWait ==
    /\ vpc = "spin" /\ vpc' = "idle" /\ UNCHANGED <<rx, txq, frames_in, got>>

\* The used index moved.
tx_frame_returns ==
    /\ vpc = "spin" /\ txq.q.used_idx # txq.q.last_used
    /\ txq' = [txq EXCEPT !.q.last_used = txq.q.used_idx]
    /\ vpc' = "idle" /\ UNCHANGED <<rx, frames_in, got>>

\* The bound on the spin was reached.
tx_frame_gives_up ==
    /\ vpc = "spin" /\ txq.q.used_idx = txq.q.last_used
    /\ txq' = [txq EXCEPT !.gave_up = TRUE]
    /\ vpc' = "idle" /\ UNCHANGED <<rx, frames_in, got>>

VirtioNext ==
    \/ device_receives \/ device_transmits
    \/ poll_rx_copies \/ poll_rx_recycles
    \/ tx_frame_posts \/ tx_frame_returns \/ tx_frame_gives_up

VirtioSpec == VirtioInit /\ [][VirtioNext]_virtio_vars

-----------------------------------------------------------------------------

(* The frames poll_rx returns are the frames the device took from the      *)
(* link, in order, each once and intact, across any wrap of the ring       *)
(* indices: no buffer is filled again before it has been copied.           *)
ReceivesExact == \A k \in 1 .. Len(got) : got[k] = k

(* Until a wait for the device has been abandoned, every frame asked for   *)
(* goes out once, in order, as it was written: the single transmit buffer  *)
(* is never overwritten while the device may still read it.                *)
TransmitsExact ==
    ~txq.gave_up =>
      /\ \A k \in 1 .. Len(txq.wire) : txq.wire[k] = k
      /\ vpc = "idle" => Len(txq.wire) = txq.asked

(* Both queues carry each frame once, in order and intact.                 *)
QueuesExact == ReceivesExact /\ TransmitsExact

=============================================================================
