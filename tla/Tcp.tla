-------------------------------- MODULE Tcp --------------------------------
(***************************************************************************)
(* The TCP connection table (kernel/src/tcp.rs) and the TcpConnection      *)
(* Frame system (frame/tcp_connection.frs).  Every slot of the table is    *)
(* one TcpConnection with its sequence number, peer and two timers.  The   *)
(* actions a TcpConnection calls work on the slot CURRENT names, not on a  *)
(* slot they are given: whoever dispatches to connection i must first set  *)
(* CURRENT to i.                                                           *)
(*                                                                         *)
(* Sequence numbers are modulo SEQ_MOD (2^32 in the code).  Acknowledgement *)
(* numbers steer nothing in this code and are left out.                    *)
(***************************************************************************)
EXTENDS Integers, Sequences, FiniteSets, SequencesExt

CONSTANTS
    SERVER_SLOTS,   \* listening slots; the next one is the client's
    Peers,          \* remote address and port of a client of ours
    ServerPeer,     \* the remote end of the active open
    SEQ_MOD          \* sequence numbers wrap here

CLIENT_SLOT == SERVER_SLOTS + 1
SlotIds == 1 .. CLIENT_SLOT
NoPeer == "none"
INITIAL_SND == 0

\* What parse leaves of a received segment: the 4-tuple's remote end and local
\* port, the flags, and the payload ("" for none).
TcpSegment ==
    [peer : Peers \cup {ServerPeer}, port : SlotIds, syn : BOOLEAN, ack : BOOLEAN, fin : BOOLEAN,
     rst : BOOLEAN, data : {"", "d"}]

\* Slot i serves port i; the client's own port is CLIENT_SLOT.
VARIABLES
    conns,      \* CONNS
    CURRENT_CONN,    \* the slot the FSM's actions work on
    saw_tcp,    \* SAW_TCP
    sent        \* segments the last step transmitted, with the slot whose
                \* event it was dispatching
tcp_vars == <<conns, CURRENT_CONN, saw_tcp, sent>>

CONN_INIT == [st |-> "Closed", in_use |-> FALSE, listening |-> FALSE, peer |-> NoPeer,
              snd_nxt |-> INITIAL_SND, retransmit |-> FALSE, timewait |-> FALSE,
              last_payload |-> "", echoed |-> FALSE]

TcpInit ==
    /\ conns = [i \in SlotIds |-> CONN_INIT]
    /\ CURRENT_CONN = 1 /\ saw_tcp = FALSE /\ sent = <<>>

\* What the functions below pass along: the table, CURRENT, and the segments
\* sent since the step began.
Table == [conns |-> conns, cur |-> CURRENT_CONN, saw |-> saw_tcp, sent |-> <<>>, event |-> 0]
TableBecomes(w) == conns' = w.conns /\ CURRENT_CONN' = w.cur /\ saw_tcp' = w.saw /\ sent' = w.sent

\* set_current(i), noting whose event is about to be dispatched.
set_current(w, i) == [w EXCEPT !.cur = i, !.event = i]

-----------------------------------------------------------------------------
(* The actions of the FSM, on the current connection.                      *)

send(w, flags, data) ==
    LET c == w.conns[w.cur]
        seg == [syn |-> "SYN" \in flags, seq |-> c.snd_nxt, peer |-> c.peer,
                from |-> w.cur, event |-> w.event]
        used == (IF flags \cap {"SYN", "FIN"} # {} THEN 1 ELSE 0) + (IF data = "" THEN 0 ELSE 1) IN
    [w EXCEPT !.sent = Append(@, seg), !.conns[w.cur].snd_nxt = (@ + used) % SEQ_MOD]

send_syn(w) == send(w, {"SYN"}, "")
send_syn_ack(w) == send(w, {"SYN", "ACK"}, "")
send_ack(w) == send(w, {"ACK"}, "")
send_fin(w) == send(w, {"FIN", "ACK"}, "")

\* The echo application.
deliver_data(w) ==
    LET data == w.conns[w.cur].last_payload IN
    IF data = "" THEN w ELSE [send(w, {"ACK"}, data) EXCEPT !.conns[w.cur].echoed = TRUE]

on_reset(w) ==
    [w EXCEPT !.conns[w.cur].retransmit = FALSE, !.conns[w.cur].timewait = FALSE,
              !.conns[w.cur].snd_nxt = INITIAL_SND]

-----------------------------------------------------------------------------
(* TcpConnection number i.                                                 *)

\* -> $st, with the exit and enter handlers.
Goto(w, i, st) ==
    LET left == IF w.conns[i].st \in {"SynSent", "SynReceived"}
                THEN [w EXCEPT !.conns[w.cur].retransmit = FALSE] ELSE w
        moved == [left EXCEPT !.conns[i].st = st] IN
    CASE st \in {"SynSent", "SynReceived"} -> [moved EXCEPT !.conns[w.cur].retransmit = TRUE]
      [] st = "TimeWait" -> [moved EXCEPT !.conns[w.cur].timewait = TRUE]
      [] OTHER -> moved

open_passive(w, i) == IF w.conns[i].st = "Closed" THEN Goto(w, i, "Listen") ELSE w
open_active(w, i) == IF w.conns[i].st = "Closed" THEN Goto(send_syn(w), i, "SynSent") ELSE w

rst(w, i) == IF w.conns[i].st = "Closed" THEN w ELSE Goto(on_reset(w), i, "Closed")

fsm_close(w, i) ==
    CASE w.conns[i].st = "Established" -> Goto(send_fin(w), i, "FinWait1")
      [] w.conns[i].st = "CloseWait" -> Goto(send_fin(w), i, "LastAck")
      [] OTHER -> w

timeout(w, i) ==
    CASE w.conns[i].st = "SynSent" -> send_syn(w)
      [] w.conns[i].st = "SynReceived" -> send_syn_ack(w)
      [] w.conns[i].st = "TimeWait" -> Goto(w, i, "Closed")
      [] OTHER -> w

segment(w, i, seg) ==
    LET st == w.conns[i].st IN
    CASE st = "Listen" /\ seg.syn -> Goto(send_syn_ack(w), i, "SynReceived")
      [] st = "SynSent" /\ seg.syn /\ seg.ack -> Goto(send_ack(w), i, "Established")
      [] st = "SynSent" /\ seg.syn /\ ~seg.ack -> Goto(send_syn_ack(w), i, "SynReceived")
      [] st = "SynReceived" /\ seg.ack -> Goto(w, i, "Established")
      [] st = "Established" /\ seg.fin -> Goto(send_ack(w), i, "CloseWait")
      [] st = "Established" /\ ~seg.fin /\ seg.data # "" -> deliver_data(w)
      [] st = "FinWait1" /\ seg.fin /\ seg.ack -> Goto(send_ack(w), i, "TimeWait")
      [] st = "FinWait1" /\ seg.fin /\ ~seg.ack -> Goto(send_ack(w), i, "Closing")
      [] st = "FinWait1" /\ ~seg.fin /\ seg.ack -> Goto(w, i, "FinWait2")
      [] st = "FinWait2" /\ seg.fin -> Goto(send_ack(w), i, "TimeWait")
      [] st = "Closing" /\ seg.ack -> Goto(w, i, "TimeWait")
      [] st = "LastAck" /\ seg.ack -> Goto(w, i, "Closed")
      [] OTHER -> w

-----------------------------------------------------------------------------
(* Delivery and timers.                                                    *)

LowestOf(S) == {i \in S : \A j \in S : i <= j}

\* The slot bound to the segment's 4-tuple, or the listener of its port.
Bound(w, seg) ==
    {i \in SlotIds : w.conns[i].in_use /\ i = seg.port /\ w.conns[i].peer = seg.peer}
Listener(w, seg) ==
    {i \in 1 .. SERVER_SLOTS : seg.syn /\ w.conns[i].listening /\ i = seg.port}

Bind(w, i, peer) ==
    [w EXCEPT !.conns[i].listening = FALSE, !.conns[i].in_use = TRUE, !.conns[i].peer = peer,
              !.conns[i].snd_nxt = INITIAL_SND]

on_segment(w, seg) ==
    LET bound == Bound(w, seg)
        fresh == IF bound = {} THEN Listener(w, seg) ELSE {} IN
    IF bound \cup fresh = {} THEN w
    ELSE LET i == CHOOSE i \in LowestOf(bound \cup fresh) : TRUE
             x == set_current(IF bound = {} THEN Bind(w, i, seg.peer) ELSE w, i)
             y == [x EXCEPT !.saw = TRUE, !.conns[x.cur].last_payload = seg.data] IN
         IF seg.rst THEN rst(y, i) ELSE segment(y, i, seg)

\* Timer of slot i has run out.
fire(w, i) == timeout(set_current(w, i), i)

\* Mutant: the 2MSL timer is fired but stays armed.
drain_timers_StaysArmed(w, due) ==
    LET one(x, i) ==
          LET used == x.conns[i].in_use
              rt == used /\ x.conns[i].retransmit /\ <<i, "rt">> \in due
              tw == used /\ x.conns[i].timewait /\ <<i, "tw">> \in due
              y == IF rt THEN fire(x, i) ELSE x IN
          IF tw THEN fire(y, i) ELSE y IN
    FoldLeft(one, w, [i \in SlotIds |-> i])

\* due: the armed timers whose deadline has passed.  A retransmit timer is
\* re-armed, the 2MSL timer disarmed, and then the connection is told.
drain_timers(w, due) ==
    LET one(x, i) ==
          LET used == x.conns[i].in_use
              rt == used /\ x.conns[i].retransmit /\ <<i, "rt">> \in due
              tw == used /\ x.conns[i].timewait /\ <<i, "tw">> \in due
              y == IF rt THEN fire(x, i) ELSE x IN
          IF tw THEN fire([y EXCEPT !.conns[i].timewait = FALSE], i) ELSE y IN
    FoldLeft(one, w, [i \in SlotIds |-> i])

close(w, i) == fsm_close(set_current(w, i), i)

listen(w, i) ==
    open_passive(set_current([w EXCEPT !.conns[i] =
        [@ EXCEPT !.listening = TRUE, !.in_use = FALSE, !.peer = NoPeer, !.snd_nxt = INITIAL_SND]], i), i)

connect(w) ==
    LET i == CLIENT_SLOT
        x == set_current([w EXCEPT !.conns[i] =
               [@ EXCEPT !.in_use = TRUE, !.listening = FALSE, !.peer = ServerPeer,
                         !.snd_nxt = INITIAL_SND]], i) IN
    open_active(on_reset(rst(x, i)), i)

-----------------------------------------------------------------------------
(* Properties.                                                             *)

(* A timer runs in exactly the states that wait for it, and then its slot  *)
(* is one drain_timers looks at: retransmission in $SynSent and            *)
(* $SynReceived, 2MSL in $TimeWait.  No segment, reset or time-out, in any *)
(* order, leaves a connection waiting for a timer nobody armed, or a timer *)
(* to go off in a state that has moved on.                                 *)
TimersMatch ==
    \A i \in SlotIds :
      /\ conns[i].retransmit <=> conns[i].st \in {"SynSent", "SynReceived"}
      /\ conns[i].timewait <=> conns[i].st = "TimeWait"
      /\ conns[i].retransmit \/ conns[i].timewait => conns[i].in_use

(* Every segment leaves from the connection whose event made it leave, to  *)
(* that connection's peer: the ambient CURRENT is the dispatched slot in   *)
(* on_segment, drain_timers, close and connect.                            *)
SentByOwner ==
    \A k \in 1 .. Len(sent) :
      sent[k].from = sent[k].event /\ sent[k].peer = conns[sent[k].event].peer /\ sent[k].peer # NoPeer

(* What a time-out sends again is the segment sent before, sequence number *)
(* included: tcp_connection.frs says of these sends "retransmit the SYN"   *)
(* and "retransmit the SYN-ACK".                                           *)
ResendsSame ==
    \A k \in 1 .. Len(sent) :
      sent[k].syn => sent[k].seq = INITIAL_SND

=============================================================================
