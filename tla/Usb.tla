-------------------------------- MODULE Usb --------------------------------
(***************************************************************************)
(* The USB stack (kernel/src/xhci.rs with the Frame systems HubPort,       *)
(* UsbEnumeration, UsbTransfer and UsbMsd), as kmain runs it at boot:      *)
(* bring-up, port resets, concurrent enumeration of the attached devices,  *)
(* classification, one keyboard transfer, then three SCSI commands over    *)
(* Bulk-Only Transport.  The driver is one thread; what runs beside it is  *)
(* the controller, which answers commands and transfers whenever it likes. *)
(* Every wait of the driver has a deadline, after which it goes on with    *)
(* its request still queued in the controller.                             *)
(*                                                                         *)
(* Rings are sequences here; module XhciRing is about their cycle bits.    *)
(* A DMA page is whether it was allocated and what it holds.               *)
(***************************************************************************)
EXTENDS Integers, Sequences, FiniteSets, SequencesExt

CONSTANTS
    Attached,       \* port -> "kbd" | "mouse" | "msd" | "none"
    MAX_DEVICES,    \* entries of the device table
    PageCounts,     \* free DMA pages at the start, one of these
    MaxLate         \* waits that may give up on a live request, a bound

InitPages == 4      \* DCBAA, command ring, event ring, ERST
Commands == <<"INQUIRY", "READ_CAPACITY10", "READ10">>

ConnectedPorts == SelectSeq([p \in 1 .. Len(Attached) |-> p], LAMBDA p : Attached[p] # "none")
NDEVS == IF Len(ConnectedPorts) < MAX_DEVICES THEN Len(ConnectedPorts) ELSE MAX_DEVICES
Devs == 1 .. NDEVS
UsbSlots == 1 .. NDEVS
Endpoints == {"ep0", "ep1", "in", "out"}

VARIABLES
    at,         \* which wait or step of the boot sequence the driver is in
    ui,         \* the loop variable of that step: a device, or a command
    dev,        \* DEVICES, each with its HubPort (hp) and UsbEnumeration (st)
    fsm,        \* the UsbTransfer or UsbMsd instance of the current step
    pages,      \* DMA pages left
    msd_buf,        \* the mass-storage data and CSW buffers
    reported,   \* what msd_report printed, with the CSW that let it
    cmds,       \* controller: commands not yet answered, oldest first
    xfers,      \* controller: transfers queued per slot and endpoint
    hc,         \* controller: enabled ports, slot -> port, endpoints, halts
    answers,    \* mass-storage device: what its bulk IN endpoint sends next
    events,     \* the event ring
    late,       \* waits that gave up on a request the controller still had
    null        \* a ring or buffer that was never allocated was used

usb_vars == <<at, ui, dev, fsm, pages, msd_buf, reported, cmds, xfers, hc, answers, events,
              late, null>>

Device(p) == [port |-> p, hp |-> "Disconnected", st |-> "None", slot |-> 0,
              configured |-> FALSE, class |-> "unknown", ep0 |-> FALSE, desc |-> "none",
              ep1 |-> FALSE, report |-> "none", bulk |-> FALSE, bufs |-> FALSE]

Max0(x) == IF x < 0 THEN 0 ELSE x
Blank == [kind |-> "zero", cmd |-> "", pass |-> FALSE]

UsbInit ==
    /\ at = "init" /\ ui = 1
    /\ dev = [d \in Devs |-> Device(0)]
    /\ fsm = "Idle"
    /\ pages \in PageCounts
    /\ msd_buf = [data |-> Blank, csw |-> Blank]
    /\ reported = {}
    /\ cmds = <<>> /\ events = <<>> /\ answers = <<>>
    /\ xfers = [q \in UsbSlots \X Endpoints |-> <<>>]
    /\ hc = [ped |-> {}, slots |-> {}, port |-> [s \in UsbSlots |-> 0], conf |-> {}, halted |-> {}]
    /\ late = 0 /\ null = FALSE

-----------------------------------------------------------------------------
(* What the driver's functions do to the part of the state they share, w.  *)

World == [dev |-> dev, pages |-> pages, cmds |-> cmds, xfers |-> xfers, null |-> null]
Becomes(w) ==
    /\ dev' = w.dev /\ pages' = w.pages /\ cmds' = w.cmds /\ xfers' = w.xfers
    /\ null' = w.null

enqueue_cmd(w, op, d, slot) == [w EXCEPT !.cmds = Append(@, [op |-> op, d |-> d, slot |-> slot])]

\* A transfer TRB on one of device d's rings, and the doorbell: `what` is the
\* buffer it names, `there` whether ring and buffer were ever allocated.
Queue(w, d, ep, what, there) ==
    LET slot == w.dev[d].slot IN
    IF ~there \/ slot = 0 THEN [w EXCEPT !.null = TRUE]
    ELSE [w EXCEPT !.xfers[<<slot, ep>>] = Append(@, [d |-> d, what |-> what])]

dev_by_slot(slot) == {d \in Devs : dev[d].slot = slot /\ \A e \in 1 .. d - 1 : dev[e].slot # slot}

\* Device context, EP0 ring and input context, each of which may not be had.
address_device(w, d, slot) ==
    IF w.pages < 3 THEN [w EXCEPT !.pages = 0]
    ELSE enqueue_cmd([w EXCEPT !.pages = @ - 3, !.dev[d].slot = slot, !.dev[d].ep0 = TRUE],
                     "address", d, slot)

get_device_descriptor(w, d) ==
    IF w.dev[d].desc = "none" /\ w.pages = 0 THEN w
    ELSE LET x == IF w.dev[d].desc = "none"
                  THEN [w EXCEPT !.pages = @ - 1, !.dev[d].desc = "zero"] ELSE w IN
         Queue(x, d, "ep0", "device", x.dev[d].ep0)

set_configuration(w, d) == Queue(w, d, "ep0", "setconf", w.dev[d].ep0)

\* UsbEnumeration: each stage's enter handler issues the next request.
Enters(w, d, st) ==
    LET x == [w EXCEPT !.dev[d].st = st] IN
    CASE st = "Powered" -> enqueue_cmd(x, "enable", d, 0)
      [] st = "AddressAssigned" -> get_device_descriptor(x, d)
      [] st = "DeviceDescribed" -> set_configuration(x, d)
      [] st = "Configured" -> [x EXCEPT !.dev[d].configured = TRUE]
      [] OTHER -> x

slot_enabled(w, d, slot) ==
    IF w.dev[d].st = "Powered"
    THEN address_device([w EXCEPT !.dev[d].st = "SlotEnabled"], d, slot) ELSE w

fail(w, d) == IF w.dev[d].st = "None" THEN w ELSE [w EXCEPT !.dev[d].st = "Failed"]

advance_enum(w, d, e) ==
    LET st == w.dev[d].st IN
    CASE ~e.ok -> fail(w, d)
      [] e.ty = "cmd" /\ e.ok /\ st = "Powered" -> slot_enabled(w, d, e.slot)
      [] e.ty = "cmd" /\ e.ok /\ st = "SlotEnabled" -> Enters(w, d, "AddressAssigned")
      [] e.ty = "xfer" /\ e.ok /\ st = "AddressAssigned" -> Enters(w, d, "DeviceDescribed")
      [] e.ty = "xfer" /\ e.ok /\ st = "DeviceDescribed" -> Enters(w, d, "Configured")
      [] OTHER -> w

-----------------------------------------------------------------------------
(* Waiting.                                                                *)

\* poll_event: take the oldest event.
Polls == events # <<>> /\ events' = Tail(events)
ev == Head(events)

Outstanding == cmds # <<>> \/ events # <<>> \/ \E q \in DOMAIN xfers : xfers[q] # <<>>

\* The deadline passes before the event the loop waits for has been polled.
Expires ==
    IF Outstanding THEN late < MaxLate /\ late' = late + 1 ELSE UNCHANGED late

Stays == UNCHANGED <<at, ui>>
Moves(to, i) == at' = to /\ ui' = i
hw == <<hc, answers, msd_buf>>

-----------------------------------------------------------------------------
(* Bring-up and port resets.                                               *)

\* init: a controller that is absent or misses a bounded poll, or a page
\* that cannot be had, ends the USB boot; otherwise every connected port up
\* to MAX_DEVICES gets a table entry.
init ==
    /\ at = "init"
    /\ \/ /\ Moves("done", 1)
          /\ UNCHANGED dev
          /\ pages' \in Max0(pages - InitPages) .. pages
       \/ /\ pages >= InitPages
          /\ pages' = pages - InitPages
          /\ dev' = [d \in Devs |-> Device(ConnectedPorts[d])]
          /\ IF NDEVS = 0 THEN Moves("done", 1) ELSE Moves("reset", 1)
    /\ UNCHANGED <<fsm, msd_buf, reported, cmds, xfers, hc, answers, events, late, null>>

\* run_port_lifecycle asserts every port's reset before it waits for any.
begin_port_reset ==
    /\ at = "reset"
    /\ dev' = [d \in Devs |-> [dev[d] EXCEPT !.hp = "Resetting"]]
    /\ Moves("ports", 1)
    /\ UNCHANGED <<fsm, pages, reported, cmds, xfers, hw, events, late, null>>

PortDone(d, hp) ==
    /\ dev' = [dev EXCEPT ![d].hp = hp]
    /\ IF \A e \in Devs \ {d} : dev[e].hp # "Resetting" THEN Moves("slot", 1) ELSE Stays
    /\ UNCHANGED <<fsm, pages, reported, cmds, xfers, hw, events, late, null>>

reset_complete(d) ==
    at = "ports" /\ dev[d].hp = "Resetting" /\ dev[d].port \in hc.ped /\ PortDone(d, "Enabled")

reset_timeout(d) ==
    at = "ports" /\ dev[d].hp = "Resetting" /\ dev[d].port \notin hc.ped /\ PortDone(d, "Connected")

-----------------------------------------------------------------------------
(* run_enumeration.                                                        *)

sw == <<fsm, reported, hw>>
NextSlot(i) == IF i = NDEVS THEN Moves("enum", 1) ELSE Moves("slot", i + 1)

\* Phase A, one Enable Slot at a time.
cmd_enable_slot ==
    /\ at = "slot" /\ dev[ui].st = "None"
    /\ Becomes(Enters(World, ui, "Powered"))
    /\ UNCHANGED <<at, ui, events, late, sw>>

BindSlot(d, slot) == [slot_enabled(World, d, slot) EXCEPT !.dev[d].slot = slot]

\* The device that has the event's slot, if any, is the one it advances.
Demux(e) ==
    LET owner == dev_by_slot(e.slot) IN
    IF owner = {} THEN World ELSE advance_enum(World, CHOOSE d \in owner : TRUE, e)

\* A successful completion for a slot no device has is this device's; one for
\* a bound slot advances the device that has it.
slot_event ==
    /\ at = "slot" /\ dev[ui].st # "None"
    /\ Polls
    /\ IF ev.ty = "cmd" /\ ev.ok /\ dev_by_slot(ev.slot) = {}
       THEN Becomes(BindSlot(ui, ev.slot)) /\ NextSlot(ui)
       ELSE Becomes(Demux(ev)) /\ Stays
    /\ UNCHANGED <<late, sw>>

slot_timeout ==
    /\ at = "slot" /\ dev[ui].st # "None"
    /\ Becomes(fail(World, ui))
    /\ NextSlot(ui)
    /\ Expires
    /\ UNCHANGED <<events, sw>>

\* Phase B, every completion to the device whose slot it carries.
AllDone == \A d \in Devs : dev[d].st \in {"Configured", "Failed"}

enum_event ==
    /\ at = "enum" /\ ~AllDone
    /\ Polls
    /\ Becomes(Demux(ev))
    /\ UNCHANGED <<at, ui, late, sw>>

enum_ends ==
    /\ at = "enum"
    /\ IF AllDone THEN UNCHANGED late ELSE Expires
    /\ Moves("classify", 1)
    /\ UNCHANGED <<dev, pages, cmds, xfers, null, events, sw>>

-----------------------------------------------------------------------------
(* classify_devices: read each configured device's configuration           *)
(* descriptor and record its interface class.                              *)

NextClass == IF ui = NDEVS THEN Moves("key", 1) ELSE Moves("classify", ui + 1)

\* Drain the event ring, then queue the read.
classify_device ==
    /\ at = "classify"
    /\ IF dev[ui].configured /\ dev[ui].desc # "none"
       THEN /\ events' = <<>>
            /\ Becomes(Queue(World, ui, "ep0", "config", dev[ui].ep0))
            /\ Moves("classifying", ui)
       ELSE NextClass /\ UNCHANGED <<events, dev, pages, cmds, xfers, null>>
    /\ UNCHANGED <<late, sw>>

\* The walk over the buffer finds an interface only in a configuration
\* descriptor; the device descriptor it may still hold has none.
ParsedClass(d) == IF dev[d].desc = "config" THEN Attached[dev[d].port] ELSE "unknown"

wait_transfer_completion ==
    /\ at = "classifying"
    /\ Polls
    /\ IF ev.ty = "xfer"
       THEN /\ dev' = IF ev.ok THEN [dev EXCEPT ![ui].class = ParsedClass(ui)] ELSE dev
            /\ NextClass
       ELSE UNCHANGED dev /\ Stays
    /\ UNCHANGED <<pages, cmds, xfers, null, late, sw>>

classify_timeout ==
    /\ at = "classifying"
    /\ NextClass
    /\ Expires
    /\ UNCHANGED <<dev, pages, cmds, xfers, null, events, sw>>

find_device(class) ==
    {d \in Devs : /\ dev[d].configured /\ dev[d].class = class
                  /\ \A e \in 1 .. d - 1 : ~(dev[e].configured /\ dev[e].class = class)}

-----------------------------------------------------------------------------
(* run_transfer: one report from the keyboard.                             *)

\* The endpoint's ring, then its input context; the command needs both.
configure_endpoint ==
    /\ at = "key"
    /\ LET kbd == {d \in find_device("kbd") : dev[d].slot # 0} IN
       IF kbd = {} THEN Moves("msd", 1) /\ UNCHANGED <<dev, pages, cmds, xfers, null>>
       ELSE LET d == CHOOSE d \in kbd : TRUE
                w == [World EXCEPT !.pages = Max0(@ - 2), !.dev[d].ep1 = pages > 0] IN
            /\ Becomes(IF pages < 2 THEN w ELSE enqueue_cmd(w, "configure ep1", d, dev[d].slot))
            /\ Moves("keycfg", d)
    /\ UNCHANGED <<events, late, sw>>

queue_interrupt_in(w, d) ==
    IF w.dev[d].report = "none" /\ w.pages = 0 THEN w
    ELSE LET x == IF w.dev[d].report = "none"
                  THEN [w EXCEPT !.pages = @ - 1, !.dev[d].report = "zero"] ELSE w IN
         Queue(x, d, "ep1", "report", x.dev[d].ep1)

\* wait_cmd_completion takes the next command completion there is.
key_configured ==
    /\ at = "keycfg"
    /\ Polls
    /\ CASE ev.ty = "cmd" /\ ev.ok ->
              /\ fsm' = "InFlight"
              /\ Becomes(queue_interrupt_in(World, ui))
              /\ Moves("keywait", ui)
         [] ev.ty = "cmd" /\ ~ev.ok ->
              Moves("msd", 1) /\ UNCHANGED <<fsm, dev, pages, cmds, xfers, null>>
         [] OTHER -> UNCHANGED <<at, ui, fsm, dev, pages, cmds, xfers, null>>
    /\ UNCHANGED <<late, reported, hw>>

key_report ==
    /\ at = "keywait"
    /\ Polls
    /\ IF ev.ty = "xfer"
       THEN fsm' = (IF ev.ok THEN "Complete" ELSE "Failed") /\ Moves("msd", 1)
       ELSE UNCHANGED <<at, ui, fsm>>
    /\ UNCHANGED <<dev, pages, cmds, xfers, null, late, reported, hw>>

key_timeout ==
    /\ at \in {"keycfg", "keywait"}
    /\ Moves("msd", 1)
    /\ Expires
    /\ UNCHANGED <<dev, pages, cmds, xfers, null, events, sw>>

-----------------------------------------------------------------------------
(* run_msd: INQUIRY, READ CAPACITY, READ over Bulk-Only Transport.         *)

Msd == CHOOSE d \in find_device("msd") : TRUE

configure_bulk_endpoints ==
    /\ at = "msd"
    /\ IF find_device("msd") = {} THEN Moves("done", 1) /\ UNCHANGED <<dev, pages, cmds, xfers, null>>
       ELSE LET d == Msd
                w == [World EXCEPT !.pages = Max0(@ - 3), !.dev[d].bulk = pages > 1] IN
            /\ Becomes(IF pages < 3 THEN w ELSE enqueue_cmd(w, "configure bulk", d, dev[d].slot))
            /\ Moves("msdcfg", 1)
    /\ UNCHANGED <<events, late, sw>>

msd_configured ==
    /\ at = "msdcfg"
    /\ Polls
    /\ CASE ev.ty = "cmd" /\ ev.ok -> Moves("begin", 1)
         [] ev.ty = "cmd" /\ ~ev.ok -> Moves("done", 1)
         [] OTHER -> Stays
    /\ UNCHANGED <<dev, pages, cmds, xfers, null, late, sw>>

msd_config_timeout ==
    /\ at = "msdcfg"
    /\ Moves("done", 1)
    /\ Expires
    /\ UNCHANGED <<dev, pages, cmds, xfers, null, events, sw>>

enqueue_bulk(w, ep, what) == Queue(w, Msd, ep, what, w.dev[Msd].bulk /\ w.dev[Msd].bufs)

\* $CommandPhase: the three buffers are allocated with the first command, or
\* not at all, and then nothing is sent.
msd_send_cbw ==
    /\ at = "begin"
    /\ LET d == Msd
           w == IF dev[d].bufs THEN World
                ELSE [World EXCEPT !.pages = Max0(@ - 3), !.dev[d].bufs = pages >= 3] IN
       Becomes(IF w.dev[d].bufs THEN enqueue_bulk(w, "out", Commands[ui]) ELSE w)
    /\ fsm' = "CommandPhase"
    /\ Moves("command", ui)
    /\ UNCHANGED <<events, late, reported, hw>>

msd_recv_data(w) == enqueue_bulk(w, "in", "data")
msd_recv_csw(w) == enqueue_bulk(w, "in", "csw")

msd_report(cmd) == [cmd |-> cmd, data |-> msd_buf.data, csw |-> msd_buf.csw]

csw_ok == msd_buf.csw.kind = "csw" /\ msd_buf.csw.pass

NextCommand == IF ui = Len(Commands) THEN Moves("done", 1) ELSE Moves("begin", ui + 1)

\* Mutant: the command completes with its data, before its status is read.
msd_event_NoStatus ==
    /\ at = "command"
    /\ Polls
    /\ CASE ev.ty = "xfer" /\ ev.ok /\ fsm = "CommandPhase" ->
              /\ fsm' = "DataPhase" /\ Becomes(msd_recv_data(World))
              /\ UNCHANGED <<at, ui, reported>>
         [] ev.ty = "xfer" /\ ev.ok /\ fsm = "DataPhase" ->
              /\ fsm' = "Complete"
              /\ reported' = reported \cup {msd_report(Commands[ui])}
              /\ NextCommand
              /\ Becomes(World)
         [] ev.ty = "xfer" /\ ~ev.ok ->
              fsm' = "Failed" /\ NextCommand /\ Becomes(World) /\ UNCHANGED reported
         [] OTHER -> UNCHANGED <<at, ui, fsm, reported, dev, pages, cmds, xfers, null>>
    /\ UNCHANGED <<late, hw>>

\* Each transfer event moves the phase on; msd_report follows a completion.
msd_event ==
    /\ at = "command"
    /\ Polls
    /\ CASE ev.ty = "xfer" /\ ev.ok /\ fsm = "CommandPhase" ->
              /\ fsm' = "DataPhase" /\ Becomes(msd_recv_data(World))
              /\ UNCHANGED <<at, ui, reported>>
         [] ev.ty = "xfer" /\ ev.ok /\ fsm = "DataPhase" ->
              /\ fsm' = "StatusPhase" /\ Becomes(msd_recv_csw(World))
              /\ UNCHANGED <<at, ui, reported>>
         [] ev.ty = "xfer" /\ ev.ok /\ fsm = "StatusPhase" ->
              /\ fsm' = IF csw_ok THEN "Complete" ELSE "Failed"
              /\ reported' = IF csw_ok
                             THEN reported \cup {msd_report(Commands[ui])}
                             ELSE reported
              /\ NextCommand
              /\ Becomes(World)
         [] ev.ty = "xfer" /\ ~ev.ok ->
              fsm' = "Failed" /\ NextCommand /\ Becomes(World) /\ UNCHANGED reported
         [] OTHER -> UNCHANGED <<at, ui, fsm, reported, dev, pages, cmds, xfers, null>>
    /\ UNCHANGED <<late, hw>>

msd_timeout ==
    /\ at = "command"
    /\ NextCommand
    /\ Expires
    /\ UNCHANGED <<dev, pages, cmds, xfers, null, events, sw>>

-----------------------------------------------------------------------------
(* The controller and the devices behind it.                               *)

Post(ty, ok, slot) == events' = Append(events, [ty |-> ty, ok |-> ok, slot |-> slot])
driver == <<at, ui, dev, fsm, pages, reported, late, null>>

PortEnabled(d) ==
    /\ dev[d].hp # "Disconnected" /\ dev[d].port \notin hc.ped
    /\ hc' = [hc EXCEPT !.ped = @ \cup {dev[d].port}]
    /\ UNCHANGED <<driver, msd_buf, cmds, xfers, answers, events>>

\* The oldest command is answered.  Enable Slot hands out a slot of its own;
\* Address Device ties the slot to the port its input context names.
CommandDone(ok) ==
    /\ cmds # <<>>
    /\ cmds' = Tail(cmds)
    /\ LET c == Head(cmds)
           free == UsbSlots \ hc.slots
           s == IF c.op # "enable" THEN c.slot ELSE IF ok THEN Min(free) ELSE 0 IN
       /\ c.op = "address" /\ ok => dev[c.d].port \in hc.ped
       /\ Post("cmd", ok, s)
       /\ hc' = CASE ~ok -> hc
                  [] ok /\ c.op = "enable" -> [hc EXCEPT !.slots = @ \cup {s}]
                  [] ok /\ c.op = "address" -> [hc EXCEPT !.port[s] = dev[c.d].port]
                  [] OTHER -> [hc EXCEPT !.conf = @ \cup {<<s, c.op>>}]
    /\ UNCHANGED <<driver, msd_buf, xfers, answers>>

Ready(s, ep) ==
    /\ xfers[<<s, ep>>] # <<>> /\ <<s, ep>> \notin hc.halted
    /\ ep = "ep1" => <<s, "configure ep1">> \in hc.conf
    /\ ep \in {"in", "out"} => <<s, "configure bulk">> \in hc.conf

\* A transfer that goes wrong halts its endpoint; nothing un-halts it.
TransferFails(s, ep) ==
    /\ Ready(s, ep)
    /\ hc' = [hc EXCEPT !.halted = @ \cup {<<s, ep>>}]
    /\ xfers' = [xfers EXCEPT ![<<s, ep>>] = Tail(@)]
    /\ Post("xfer", FALSE, s)
    /\ UNCHANGED <<driver, msd_buf, cmds, answers>>

\* The oldest transfer of an endpoint completes, its data in its buffer.  The
\* mass-storage device takes a CBW when it has nothing left to send, and then
\* sends the command's data and its CSW to the next two bulk IN transfers.
TransferDone(s, ep, pass) ==
    /\ Ready(s, ep)
    /\ LET x == Head(xfers[<<s, ep>>]) IN
       /\ CASE ep = "ep0" ->
                 /\ dev' = [dev EXCEPT ![x.d].desc = IF x.what = "setconf" THEN @ ELSE x.what]
                 /\ UNCHANGED <<msd_buf, answers>>
            [] ep = "ep1" ->
                 dev' = [dev EXCEPT ![x.d].report = "key"] /\ UNCHANGED <<msd_buf, answers>>
            [] ep = "out" ->
                 /\ answers = <<>>
                 /\ answers' = <<[kind |-> "data", cmd |-> x.what, pass |-> pass],
                                 [kind |-> "csw", cmd |-> x.what, pass |-> pass]>>
                 /\ UNCHANGED <<dev, msd_buf>>
            [] OTHER ->
                 /\ answers # <<>>
                 /\ msd_buf' = [msd_buf EXCEPT ![x.what] = Head(answers)]
                 /\ answers' = Tail(answers)
                 /\ UNCHANGED dev
    /\ xfers' = [xfers EXCEPT ![<<s, ep>>] = Tail(@)]
    /\ Post("xfer", TRUE, s)
    /\ UNCHANGED <<at, ui, fsm, pages, reported, late, null, cmds, hc>>

-----------------------------------------------------------------------------
Driver ==
    \/ init \/ begin_port_reset
    \/ \E d \in Devs : reset_complete(d) \/ reset_timeout(d)
    \/ cmd_enable_slot \/ slot_event \/ slot_timeout \/ enum_event \/ enum_ends
    \/ classify_device \/ wait_transfer_completion \/ classify_timeout
    \/ configure_endpoint \/ key_configured \/ key_report \/ key_timeout
    \/ configure_bulk_endpoints \/ msd_configured \/ msd_config_timeout
    \/ msd_send_cbw \/ msd_event \/ msd_timeout

Controller ==
    \/ \E d \in Devs : PortEnabled(d)
    \/ \E ok \in BOOLEAN : CommandDone(ok)
    \/ \E s \in UsbSlots, ep \in Endpoints :
          TransferFails(s, ep) \/ \E pass \in {TRUE, ep # "out"} : TransferDone(s, ep, pass)

UsbNext == Driver \/ Controller

\* The driver is kmain's thread: it is never starved, and the timer that ends
\* its waits keeps ticking.  The controller owes nothing.
UsbSpec == UsbInit /\ [][UsbNext]_usb_vars /\ WF_usb_vars(Driver)

-----------------------------------------------------------------------------
(* Properties.                                                             *)

Reached(d, sts) == dev[d].st \in sts

(* No two devices hold the same slot, and a device that has gone past      *)
(* $SlotEnabled does so on a slot the controller has addressed to that     *)
(* device's own port: the slot demultiplexing of run_enumeration never     *)
(* lets one device run on another's completions, whatever was answered     *)
(* after its wait had been given up.                                       *)
SlotsOwn ==
    /\ \A d, e \in Devs : d # e /\ dev[d].slot # 0 => dev[d].slot # dev[e].slot
    /\ \A d \in Devs : Reached(d, {"AddressAssigned", "DeviceDescribed", "Configured"})
                          => hc.port[dev[d].slot] = dev[d].port

(* While no wait has given up on a live request, a class is the device's   *)
(* own and a SCSI result is printed for the command that was asked, with   *)
(* the data and the passing CSW of that command (classify_device, run_msd):*)
(* the loops that take "the next transfer event" never take another's.     *)
ResultsOwn ==
    late = 0 =>
      /\ \A d \in Devs : dev[d].class # "unknown" => dev[d].class = Attached[dev[d].port]
      /\ \A r \in reported : r.data = [kind |-> "data", cmd |-> r.cmd, pass |-> TRUE]
                             /\ r.csw = [kind |-> "csw", cmd |-> r.cmd, pass |-> TRUE]

(* While no wait has given up on a live request, a page that could not be  *)
(* had ends what needed it: no ring or buffer is used that was never       *)
(* allocated (the early returns of address_device and its like).           *)
OnlyAllocatedUsed == late = 0 => ~null

(* The boot is past USB, and it must get there: with devices that answer,  *)
(* fail or stay silent in any order, every loop of the driver ends.        *)
UsbEnded == at = "done"

(* A SCSI command is declared complete on its own CSW: the comment in      *)
(* run_msd says "The CSW was just read" when csw_ok looks at it.           *)
CswJustRead == \A r \in reported : r.csw.cmd = r.cmd

(* Enumeration and the SCSI exchange keep their devices apart: slots,      *)
(* results and pages are those of the device and the command at hand.      *)
UsbSound == SlotsOwn /\ ResultsOwn /\ OnlyAllocatedUsed

=============================================================================
