----------------------------- MODULE VirtioMmio -----------------------------
(***************************************************************************)
(* The aarch64 block driver (kernel/src/arch/aarch64/virtio_mmio.rs): one  *)
(* request at a time through one shared buffer, completion polled with a   *)
(* time-out.  The device works on its own, fast or slow, and may report an *)
(* error.  The demo reads sector 0, writes sector 1 and reads it back.     *)
(***************************************************************************)
EXTENDS Naturals, Sequences

CONSTANT
    Present       \* {TRUE}, {FALSE} or both: a block device answers the probe

POISON == "poison"
VARIABLES
    vm_pc,        \* where the driver is
    step,         \* which request of the demo
    buf,          \* the shared region: [type, sector, data, status]
    avail, used,  \* the ring indices
    sampled,      \* initial_used
    device,       \* [present, taken, job]: entries taken, the request in work
    disk,         \* sector -> data
    served,       \* step -> the status the device reported for it, or "none"
    result        \* step -> [ok, data, status]: what run_request returned, and the
                  \* status the device had reported by then
vm_vars == <<vm_pc, step, buf, avail, used, sampled, device, disk, served, result>>

Requests == << [type |-> "in", sector |-> 0, data |-> "none"],
               [type |-> "out", sector |-> 1, data |-> "pattern"],
               [type |-> "in", sector |-> 1, data |-> "none"] >>
NoJob == [step |-> 0, type |-> "in", sector |-> 0]

(* probe, handshake, setup_vqueue: the queue starts empty.                 *)
probe_block_device ==
    /\ vm_pc = "probe"
    /\ vm_pc' = IF device.present THEN "fill" ELSE "done"
    /\ UNCHANGED <<step, buf, avail, used, sampled, device, disk, served, result>>

(* submit_and_wait: header, data, poisoned status and descriptors, then    *)
(* the avail index; then the notify; then the used index is sampled.       *)
fill ==
    LET r == Requests[step]
    IN  /\ vm_pc = "fill" /\ vm_pc' = "sample"
        /\ buf' = [type |-> r.type, sector |-> r.sector, status |-> POISON,
                   data |-> IF r.type = "out" THEN r.data ELSE buf.data]
        /\ avail' = avail + 1
        /\ UNCHANGED <<step, used, sampled, device, disk, served, result>>
sample ==
    /\ vm_pc = "sample" /\ vm_pc' = "poll" /\ sampled' = used
    /\ UNCHANGED <<step, buf, avail, used, device, disk, served, result>>

Returns(ok, data) ==
    /\ result' = Append(result, [ok |-> ok, data |-> data, status |-> served[step]])
    /\ step' = step + 1 /\ vm_pc' = IF step = Len(Requests) THEN "done" ELSE "fill"
(* The used index moved: acknowledge, check the status byte, copy back.    *)
\* Mutant: the status byte is not looked at.
completion_NoStatus ==
    /\ vm_pc = "poll" /\ used # sampled
    /\ Returns(TRUE, IF Requests[step].type = "in" THEN buf.data ELSE "none")
    /\ UNCHANGED <<buf, avail, used, sampled, device, disk, served>>
completion ==
    /\ vm_pc = "poll" /\ used # sampled
    /\ IF buf.status = "ok"
       THEN Returns(TRUE, IF Requests[step].type = "in" THEN buf.data ELSE "none")
       ELSE Returns(FALSE, "none")
    /\ UNCHANGED <<buf, avail, used, sampled, device, disk, served>>
(* The spin count runs out first.                                          *)
poll_times_out ==
    /\ vm_pc = "poll" /\ used = sampled /\ Returns(FALSE, "none")
    /\ UNCHANGED <<buf, avail, used, sampled, device, disk, served>>

-----------------------------------------------------------------------------
(* The device: takes an entry that avail shows, reads its header, moves    *)
(* the data by DMA, reports.                                               *)
device_takes ==
    /\ device.present /\ device.job.step = 0 /\ device.taken # avail
    /\ device' = [device EXCEPT !.taken = @ + 1,
                  !.job = [step |-> device.taken + 1, type |-> buf.type, sector |-> buf.sector]]
    /\ UNCHANGED <<vm_pc, step, buf, avail, used, sampled, disk, served, result>>
device_reports(status) ==
    /\ device.job.step # 0
    /\ device' = [device EXCEPT !.job = NoJob]
    /\ buf' = [buf EXCEPT !.status = status,
               !.data = IF device.job.type = "in" /\ status = "ok" THEN disk[device.job.sector] ELSE @]
    /\ disk' = IF device.job.type = "out" /\ status = "ok"
               THEN [disk EXCEPT ![device.job.sector] = buf.data] ELSE disk
    /\ used' = used + 1 /\ served' = [served EXCEPT ![device.job.step] = status]
    /\ UNCHANGED <<vm_pc, step, avail, sampled, result>>

-----------------------------------------------------------------------------
VmInit ==
    /\ vm_pc = "probe" /\ step = 1 /\ avail = 0 /\ used = 0 /\ sampled = 0
    /\ buf = [type |-> "in", sector |-> 0, data |-> "zero", status |-> "zero"]
    /\ \E p \in Present : device = [present |-> p, taken |-> 0, job |-> NoJob]
    /\ disk = [s \in 0..1 |-> IF s = 0 THEN "marker" ELSE "old"]
    /\ served = [i \in DOMAIN Requests |-> "none"] /\ result = <<>>
VmNext ==
    \/ probe_block_device \/ fill \/ sample \/ completion \/ poll_times_out
    \/ device_takes \/ \E status \in {"ok", "error"} : device_reports(status)

(* As long as no request timed out, one that returned true did what it     *)
(* says, whenever the device answered: the write is on the disk, a read's  *)
(* data are the sector's (submit_and_wait's poison, status and copy).      *)
TrueMeansDone ==
    LET timed_out(i) == ~result[i].ok /\ result[i].status # "error"
    IN  \A i \in DOMAIN result :
          (result[i].ok /\ \A j \in 1..i : ~timed_out(j)) =>
             /\ served[i] = "ok"
             /\ i = 1 => result[1].data = "marker"
             /\ i = 2 => disk[1] = "pattern"
             /\ (i = 3 /\ result[2].ok) => result[3].data = "pattern"

(* A request the device has answered returns true iff the device reported  *)
(* status 0 for it.                                                        *)
TrueIffStatusZero ==
    \A i \in DOMAIN result :
       result[i].status # "none" => (result[i].ok <=> result[i].status = "ok")
=============================================================================
