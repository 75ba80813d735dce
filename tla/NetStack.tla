------------------------------ MODULE NetStack ------------------------------
(***************************************************************************)
(* The network boot sequence of kernel/src/net.rs over the TCP table: ARP  *)
(* for the gateway, a ping, a DHCP exchange, a TCP server window and an    *)
(* active open, or, with no gateway, a window of answering the peer.       *)
(* Every wait is a loop that pumps one received frame at a time through    *)
(* the RxPipeline, whatever the loop is waiting for.  The network is the   *)
(* environment: any frame of the list below may be received at any moment, *)
(* any number of times, so replies may be lost, late, repeated or left     *)
(* over from before the boot.                                              *)
(*                                                                         *)
(* Ticks are counted in units of 50 where two limits race (ARP); elsewhere *)
(* a deadline passes at an arbitrary moment.                               *)
(***************************************************************************)
EXTENDS Tcp

CONSTANTS
    TcpSegs     \* the TCP segments the environment may deliver

ASSUME TcpSegsAssumption == TcpSegs \subseteq TcpSegment

VARIABLES
    phase,      \* where run_demo is
    arp,        \* the ArpResolver, its timer and the loop's time
    flags,      \* ARP_GATEWAY_SEEN, ICMP_REPLY_SEEN, DHCP_OFFER_SEEN
    gateway,    \* GATEWAY_MAC has been stored
    bound,      \* UDP_SOCK is in $Bound
    loop,       \* the locals announced, closing, closed_logged of the TCP loops
    told,       \* successes the boot has reported, with whether the reply was fresh
    wire,       \* the request the last step sent, if any
    fresh       \* history: replies received since their request went out
net_vars == <<phase, arp, flags, gateway, bound, loop, told, wire, fresh>>

ARP_RETRANSMIT == 2     \* ARP_RETRANSMIT_TICKS, 100
ArpOverall == 3         \* 150
MaxAttempts == 5

NoArp == [st |-> "none", attempts |-> 0, deadline |-> 0, now |-> 0]
NoSlots == [announced |-> {}, closing |-> {}, closed |-> {}]

NetInit ==
    /\ TcpInit
    /\ phase = "off"
    /\ arp = NoArp
    /\ flags = {} /\ gateway = FALSE /\ bound = FALSE
    /\ loop = NoSlots /\ told = {} /\ wire = "" /\ fresh = {}

-----------------------------------------------------------------------------
(* The receive path.  n carries the module-level state one frame may       *)
(* change.                                                                 *)

NetNow == [flags |-> flags, gateway |-> gateway, bound |-> bound, tcp |-> Table]

\* What the parsers look for; another frame is none of these.
is_gateway_arp_reply(frame) == frame.kind = "arp_reply"
is_icmp_echo_reply(frame) == frame.kind = "echo_reply"
IsOffer(frame) == frame.kind = "offer"

\* A request for our address is answered from the frame itself; nothing is kept.
on_arp(n, frame) ==
    IF is_gateway_arp_reply(frame) THEN [n EXCEPT !.gateway = TRUE, !.flags = @ \cup {"arp"}] ELSE n

\* An echo request is answered likewise.  A fragment goes to ip_reasm (module
\* IpReasm, which has the answer too) and changes nothing here.
on_icmp(n, frame) ==
    IF is_icmp_echo_reply(frame) THEN [n EXCEPT !.flags = @ \cup {"icmp"}] ELSE n

on_udp(n, frame) ==
    IF n.bound /\ IsOffer(frame) THEN [n EXCEPT !.flags = @ \cup {"dhcp"}] ELSE n

on_tcp(n, frame) == [n EXCEPT !.tcp = on_segment(@, frame.seg)]

\* RxPipeline: by ethertype, then by IP protocol; anything else is dropped.
deliver(n, frame) ==
    CASE frame.kind \in {"arp_reply", "arp_request"} -> on_arp(n, frame)
      [] frame.kind \in {"echo_request", "echo_reply"} -> on_icmp(n, frame)
      [] frame.kind \in {"offer", "datagram"} -> on_udp(n, frame)
      [] frame.kind = "tcp" -> on_tcp(n, frame)
      [] OTHER -> n

Frames == [kind : {"arp_reply", "arp_request", "echo_request", "echo_reply", "offer", "datagram",
                   "other"}]
          \cup [kind : {"tcp"}, seg : TcpSegs]
NoFrame == [kind |-> "none"]

Answers == [arp |-> "arp_reply", icmp |-> "echo_reply", dhcp |-> "offer"]

\* One pass of a wait loop: pump a frame, or sleep until the next interrupt.
\* n is what the frame leaves; everything but TCP's table is set here.
pump(frame, n) ==
    /\ flags' = n.flags /\ gateway' = n.gateway /\ bound' = n.bound
    /\ wire' = ""
    /\ fresh' = IF phase \in {"arp", "ping", "dhcp"}
                THEN fresh \cup {k \in DOMAIN Answers : Answers[k] = frame.kind} ELSE {}

-----------------------------------------------------------------------------
(* run_demo                                                                *)

\* The requests the boot sends; to the gateway's address where it needs one.
arp_send_request == wire' = "arp_request"
send_ping == wire' = "ping"
send_dhcp_discover == wire' = "discover"
ConnectToGateway == wire' = "tcp_client"

\* $Incomplete's enter handler: one more request, timer armed.
Incomplete(a) ==
    [a EXCEPT !.st = "Incomplete", !.attempts = @ + 1, !.deadline = a.now + ARP_RETRANSMIT]

arp_timeout(a) == IF a.attempts >= MaxAttempts THEN [a EXCEPT !.st = "Failed"] ELSE Incomplete(a)

run_demo_starts ==
    /\ phase = "off"
    /\ \/ phase' = "done" /\ UNCHANGED <<arp, wire, flags, fresh>>      \* no device
       \/ /\ phase' = "arp" /\ flags' = flags \ {"arp"} /\ fresh' = fresh \ {"arp"}
          /\ arp' = Incomplete(arp) /\ arp_send_request
    /\ UNCHANGED <<gateway, bound, loop, told, tcp_vars>>

ArpLoop == phase = "arp" /\ arp.st = "Incomplete" /\ arp.now < ArpOverall

arp_pumps ==
    /\ ArpLoop
    /\ \E frame \in Frames : \E n \in {deliver(NetNow, frame)} :
         /\ pump(frame, n) /\ TableBecomes(n.tcp)
         /\ arp' = IF "arp" \in n.flags THEN [arp EXCEPT !.st = "Resolved"] ELSE arp
    /\ UNCHANGED <<phase, loop, told>>

arp_expires ==
    /\ ArpLoop /\ arp.now >= arp.deadline
    /\ arp' = arp_timeout(arp) /\ arp_send_request
    /\ UNCHANGED <<phase, flags, gateway, bound, loop, told, fresh, tcp_vars>>

arp_waits ==
    /\ ArpLoop /\ arp.now < arp.deadline
    /\ arp' = [arp EXCEPT !.now = @ + 1] /\ wire' = ""
    /\ UNCHANGED <<phase, flags, gateway, bound, loop, told, fresh, tcp_vars>>

\* The ARP loop is over and the resolver is dead: with a gateway ping_gateway
\* starts, else serve_inbound.
arp_ends ==
    /\ phase = "arp" /\ ~ArpLoop
    /\ IF arp.st = "Resolved"
       THEN /\ told' = told \cup {<<"arp", "arp" \in fresh>>} /\ phase' = "ping" /\ send_ping
            /\ flags' = flags \ {"icmp"} /\ fresh' = fresh \ {"icmp"}
       ELSE /\ phase' = "inbound" /\ wire' = "" /\ UNCHANGED <<told, flags, fresh>>
    /\ arp' = NoArp
    /\ UNCHANGED <<gateway, bound, loop, tcp_vars>>

\* ping_gateway's and dhcp_exchange's loops stop at their reply.
NetWaiting ==
    \/ phase = "ping" /\ "icmp" \notin flags
    \/ phase = "dhcp" /\ "dhcp" \notin flags
    \/ phase = "inbound"

loop_pumps ==
    /\ NetWaiting
    /\ \E frame \in Frames : \E n \in {deliver(NetNow, frame)} :
         pump(frame, n) /\ TableBecomes(n.tcp)
    /\ UNCHANGED <<phase, arp, loop, told>>

\* The reply came, or the deadline passed; dhcp_exchange binds and asks.
ping_ends ==
    /\ phase = "ping"
    /\ told' = told \cup {<<k, k \in fresh>> : k \in flags \cap {"icmp"}}
    /\ phase' = "dhcp" /\ bound' = TRUE
    /\ flags' = flags \ {"dhcp"} /\ fresh' = fresh \ {"dhcp"} /\ send_dhcp_discover
    /\ UNCHANGED <<arp, gateway, loop, tcp_vars>>

dhcp_ends ==
    /\ phase = "dhcp"
    /\ told' = told \cup {<<k, k \in fresh>> : k \in flags \cap {"dhcp"}}
    /\ phase' = "serve" /\ loop' = NoSlots /\ wire' = ""
    /\ TableBecomes(FoldLeft(listen, Table, [i \in 1 .. SERVER_SLOTS |-> i]))
    /\ UNCHANGED <<arp, flags, gateway, bound, fresh>>

serve_inbound_ends ==
    /\ phase = "inbound" /\ phase' = "done" /\ wire' = ""
    /\ UNCHANGED <<arp, flags, gateway, bound, loop, told, fresh, tcp_vars>>

-----------------------------------------------------------------------------
(* The TCP windows.                                                        *)

\* Timers whose deadline may have passed: armed before this pass, and not
\* armed afresh by the frame just pumped.
MayBeDue(w) ==
    LET same == {i \in SlotIds : w.conns[i].st = conns[i].st} IN
    {<<i, "rt">> : i \in {j \in same : conns[j].retransmit}}
    \cup {<<i, "tw">> : i \in {j \in same : conns[j].timewait}}

\* tcp_serve's scan of the server slots after a pass.
Scan(w, l) ==
    LET one(x, s) ==
          LET est == x.w.conns[s].st = "Established"
              closes == est /\ x.w.conns[s].echoed /\ s \notin x.l.closing
              cur == set_current(x.w, s)
              w1 == IF closes THEN close(cur, s) ELSE cur
              ann == IF est THEN x.l.announced \cup {s} ELSE x.l.announced
              clo == IF closes THEN x.l.closing \cup {s} ELSE x.l.closing
              log == IF s \in clo /\ w1.conns[s].st = "Closed" THEN x.l.closed \cup {s} ELSE x.l.closed
          IN [w |-> w1, l |-> [announced |-> ann, closing |-> clo, closed |-> log]]
    IN FoldLeft(one, [w |-> w, l |-> l], [i \in 1 .. SERVER_SLOTS |-> i])

tcp_serve ==
    /\ phase = "serve"
    /\ \E frame \in Frames \cup {NoFrame} : \E n \in {deliver(NetNow, frame)} :
         /\ pump(frame, n)
         /\ \E due \in SUBSET MayBeDue(n.tcp) : \E s \in {Scan(drain_timers(n.tcp, due), loop)} :
              loop' = s.l /\ TableBecomes(s.w)
    /\ UNCHANGED <<phase, arp, told>>

\* The reasons to stop: all served, none served, no TCP at all, or the cap.
\* Each waits for its own time-out, and the last one always comes.
tcp_serve_ends ==
    /\ phase = "serve"
    /\ phase' = "connect" /\ ConnectToGateway /\ TableBecomes(connect(Table))
    /\ UNCHANGED <<arp, flags, gateway, bound, loop, told, fresh>>

ClientAnnounced == CLIENT_SLOT \in loop.announced

\* The loop leaves at once when the peer refuses.
tcp_connect ==
    /\ phase = "connect"
    /\ ClientAnnounced \/ conns[CLIENT_SLOT].st # "Closed"
    /\ \E frame \in Frames \cup {NoFrame} : \E n \in {deliver(NetNow, frame)} :
         /\ pump(frame, n)
         /\ \E due \in SUBSET MayBeDue(n.tcp) :
            \E w \in {set_current(drain_timers(n.tcp, due), CLIENT_SLOT)} :
              /\ TableBecomes(w)
              /\ loop' = IF w.conns[CLIENT_SLOT].st = "Established"
                         THEN [loop EXCEPT !.announced = @ \cup {CLIENT_SLOT}] ELSE loop
    /\ UNCHANGED <<phase, arp, told>>

tcp_connect_ends ==
    /\ phase = "connect" /\ phase' = "done" /\ wire' = ""
    /\ UNCHANGED <<arp, flags, gateway, bound, loop, told, fresh, tcp_vars>>

NetNext ==
    \/ run_demo_starts \/ arp_pumps \/ arp_expires \/ arp_waits \/ arp_ends
    \/ loop_pumps \/ ping_ends \/ dhcp_ends \/ serve_inbound_ends
    \/ tcp_serve \/ tcp_serve_ends \/ tcp_connect \/ tcp_connect_ends

NetSpec == NetInit /\ [][NetNext]_<<net_vars, tcp_vars>>

-----------------------------------------------------------------------------
(* Properties.                                                             *)

(* A step of the boot reports success only for a reply that arrived after  *)
(* that step's own request: ping and DHCP latch replies in flags any loop  *)
(* may set, and the network may still deliver answers to an earlier boot,  *)
(* so the flag must be cleared (and the socket unbound) until the request  *)
(* is on its way.  And what goes to the gateway goes to the address ARP    *)
(* learned, never to the zero one the table starts with.                   *)
RepliesFresh ==
    /\ \A t \in told : t[2]
    /\ wire \in {"ping", "tcp_client"} => gateway

(* The stack as a whole: TCP timers run in the states that wait for them,  *)
(* segments leave from the connection dispatched, and boot steps believe   *)
(* only replies to their own requests.                                     *)
NetSound == TimersMatch /\ SentByOwner /\ RepliesFresh

=============================================================================
