------------------------------ MODULE MCEdges -------------------------------
(***************************************************************************)
(* The edges of the system: the drivers against their devices, the network *)
(* stack against its peers, the shells against their users and children.   *)
(* A behaviour is of one part; the others keep their initial state.        *)
(***************************************************************************)
EXTENDS Usb, XhciRing, VirtioNet, VirtioMmio, Clock, NetStack, IpReasm,
        ShellJobs, ShellGrammar

CONSTANT Parts

VARIABLE part

bus_side == <<usb_vars, rings_vars, vm_vars, clock_vars>>
net_side == <<net_vars, tcp_vars, reasm_vars, virtio_vars>>
shell_side == <<job_vars, grammar_vars>>
all_vars == <<part, bus_side, net_side, shell_side>>

MCAttached == <<"msd", "kbd", "none", "mouse">>

Seg(peer, port, f, data) ==
    [peer |-> peer, port |-> port, syn |-> "S" \in f, ack |-> "A" \in f, fin |-> "F" \in f,
     rst |-> "R" \in f, data |-> data]
Shapes == {<<{"S"}, "">>, <<{"S", "A"}, "">>, <<{"A"}, "">>, <<{"A"}, "d">>, <<{"F", "A"}, "">>,
           <<{"F"}, "">>, <<{"R"}, "">>}
\* The second peer only tries to take the port the first one has.
MCTcpSegs ==
    {Seg("p", i, s[1], s[2]) : i \in 1 .. SERVER_SLOTS, s \in Shapes}
    \cup {Seg(p, i, {f}, "") : p \in Peers \ {"p"}, i \in 1 .. SERVER_SLOTS, f \in {"S", "A"}}
    \cup {Seg(ServerPeer, CLIENT_SLOT, s[1], s[2]) : s \in Shapes}

\* One datagram of several fragments that the peer cuts in two ways, one that
\* is not a whole number of units, one that is too long, and one that is whole.
MCLength == ("a" :> 7) @@ ("b" :> 6) @@ ("c" :> 10) @@ ("d" :> 2)

Init ==
    /\ part \in Parts
    /\ UsbInit /\ RingInit /\ VmInit /\ ClockInit
    /\ NetInit /\ ReasmInit /\ VirtioInit
    /\ JobsInit /\ GrammarInit
    /\ part # "usb" => pages = Min(PageCounts)
    /\ part # "mmio" => device.present
    /\ part # "jobs" => target = "ring3"
    /\ part # "grammar" => line = <<>>

\* The boot ends, the line ends, and so does what the bounds let be sent.
Rests == UNCHANGED all_vars

Bus ==
    /\ \/ part = "usb" /\ UsbNext /\ UNCHANGED <<rings_vars, vm_vars, clock_vars>>
       \/ part = "ring" /\ RingNext /\ UNCHANGED <<usb_vars, vm_vars, clock_vars>>
       \/ part = "mmio" /\ VmNext /\ UNCHANGED <<usb_vars, rings_vars, clock_vars>>
       \/ /\ \/ part = "rtc" /\ ReadNext
             \/ part = "calendar" /\ CalendarNext
          /\ UNCHANGED <<usb_vars, rings_vars, vm_vars>>
    /\ UNCHANGED <<part, net_side, shell_side>>

Network ==
    /\ \/ part = "net" /\ NetNext /\ UNCHANGED <<reasm_vars, virtio_vars>>
       \/ part = "reasm" /\ ReasmNext /\ UNCHANGED <<net_vars, tcp_vars, virtio_vars>>
       \/ part = "nic" /\ VirtioNext /\ UNCHANGED <<net_vars, tcp_vars, reasm_vars>>
    /\ UNCHANGED <<part, bus_side, shell_side>>

Shells ==
    /\ \/ part = "jobs" /\ JobsNext /\ UNCHANGED grammar_vars
       \/ part = "grammar" /\ GrammarNext /\ UNCHANGED job_vars
    /\ UNCHANGED <<part, bus_side, net_side>>

Next == Bus \/ Network \/ Shells \/ Rests

Spec == Init /\ [][Next]_all_vars

=============================================================================
