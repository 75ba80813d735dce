------------------------------ MODULE IpReasm ------------------------------
(***************************************************************************)
(* Reassembly of a fragmented ICMP echo request and fragmentation of its   *)
(* reply: kernel/src/ip_reasm.rs, the IpReassembly Frame system            *)
(* (frame/ip_reassembly.frs), and reply_to_echo_request and                *)
(* tx_ipv4_fragmented of kernel/src/net.rs.  One datagram is reassembled   *)
(* at a time.  The network may deliver any fragment of any datagram of the *)
(* peer's at any moment and any number of times, so it loses, repeats and  *)
(* reorders; the peer may also have cut the same datagram in two ways.     *)
(*                                                                         *)
(* Byte k of datagram d is the pair of d and k: BUF[k] holds only the d.   *)
(***************************************************************************)
EXTENDS Integers, Sequences, FiniteSets, SequencesExt, FiniteSetsExt

CONSTANTS
    Datagrams,      \* identifications, each used for one datagram
    Length,         \* a datagram's payload length
    PeerChunks,     \* the fragment sizes the peer cuts with
    UNIT,           \* bytes in a unit of the fragment offset (8)
    MTU,            \* payload room of a frame (MAX_FRAME - 14 - ihl)
    REASM_MAX       \* largest payload reassembled

ASSUME ReasmConstants ==
    /\ UNIT \in Nat \ {0} /\ MTU \in Nat /\ MTU >= UNIT /\ REASM_MAX \in Nat
    /\ Length \in [Datagrams -> Nat \ {0}]
    /\ \A c \in PeerChunks : c \in Nat \ {0} /\ c % UNIT = 0

VARIABLES
    re,         \* ACTIVE, IDENT, coverage, COVERED, total length, the FSM's state
    BUF,        \* the reassembly buffer
    handed,     \* the datagrams the last step handed to on_reassembled_ipv4
    tx          \* the frames the last step transmitted
reasm_vars == <<re, BUF, handed, tx>>

NoKey == "nobody"

ReasmInit ==
    /\ re = [active |-> FALSE, ident |-> NoKey, coverage |-> {}, covered |-> 0,
             total_known |-> FALSE, total |-> 0, st |-> "Idle"]
    /\ BUF = [k \in 0 .. REASM_MAX - 1 |-> NoKey]
    /\ handed = <<>> /\ tx = <<>>

\* A datagram of n bytes cut into chunks of c: offset (in units), length, MF.
Cut(n, c) ==
    [k \in 1 .. (n + c - 1) \div c |->
        LET off == (k - 1) * c
            chunk == Min({c, n - off}) IN
        [off |-> off \div UNIT, len |-> chunk, more |-> off + chunk < n]]

max_chunk(mtu) == (mtu \div UNIT) * UNIT

\* The frames of an outgoing datagram of n bytes.
tx_ipv4_fragmented(n) ==
    IF n <= MTU THEN <<[off |-> 0, len |-> n, more |-> FALSE]>> ELSE Cut(n, max_chunk(MTU))

\* The echo reply is the request turned round: as long, cut to the link.
reply_to_echo_request(n) == tx_ipv4_fragmented(n)

\* What may arrive: every fragment of every datagram, cut in every way.
Arrivals ==
    UNION {{[d |-> d, frag |-> f] : f \in UNION {Range(Cut(Length[d], c)) : c \in PeerChunks}}
           : d \in Datagrams}

\* parse_fragment: MF or an offset; anything else is a whole datagram.
parse_fragment(f) == [offset |-> f.off * UNIT, len |-> f.len, more |-> f.more]
IsFragment(f) == f.more \/ f.off # 0

-----------------------------------------------------------------------------

begin(r, d) ==
    [r EXCEPT !.active = TRUE, !.ident = d, !.coverage = {}, !.covered = 0,
              !.total_known = FALSE, !.total = 0, !.st = "Idle"]

\* Mutant: every byte counts, though it was covered before.
store_Recounts(r, frag) ==
    LET new == frag.offset .. frag.offset + frag.len - 1 IN
    [r EXCEPT !.coverage = @ \cup new, !.covered = @ + Cardinality(new),
              !.total_known = @ \/ ~frag.more,
              !.total = IF frag.more THEN @ ELSE frag.offset + frag.len]

store(r, frag) ==
    LET new == frag.offset .. frag.offset + frag.len - 1 IN
    [r EXCEPT !.coverage = @ \cup new, !.covered = @ + Cardinality(new \ r.coverage),
              !.total_known = @ \/ ~frag.more,
              !.total = IF frag.more THEN @ ELSE frag.offset + frag.len]

is_complete(r) == r.total_known /\ r.covered = r.total

\* What on_complete hands up: the header's identification, the length and the
\* bytes [0, total) of the buffer.
Rebuilt(r, buf) ==
    [ident |-> r.ident, len |-> r.total, bytes |-> [k \in 0 .. r.total - 1 |-> buf[k]]]

on_fragment(d, f) ==
    LET frag == parse_fragment(f)
        r0 == IF ~re.active \/ re.ident # d THEN begin(re, d) ELSE re
        r1 == [store(r0, frag) EXCEPT !.st = "Reassembling"]
        buf == [k \in DOMAIN BUF |->
                  IF k \in frag.offset .. frag.offset + frag.len - 1 THEN d ELSE BUF[k]] IN
    IF frag.offset + frag.len > REASM_MAX
    THEN re' = [re EXCEPT !.active = FALSE] /\ handed' = <<>> /\ tx' = <<>> /\ UNCHANGED BUF
    ELSE /\ BUF' = buf
         /\ IF is_complete(r1)
            THEN /\ re' = [r1 EXCEPT !.st = "Complete", !.active = FALSE]
                 /\ handed' = <<Rebuilt(r1, buf)>>
                 /\ tx' = reply_to_echo_request(r1.total)
            ELSE re' = r1 /\ handed' = <<>> /\ tx' = <<>>

\* A datagram that came whole is answered from the receive buffer.
on_whole(d, f) ==
    /\ handed' = <<>> /\ tx' = reply_to_echo_request(f.len)
    /\ UNCHANGED <<re, BUF>>

on_icmp_frame ==
    \E a \in Arrivals :
      IF IsFragment(a.frag) THEN on_fragment(a.d, a.frag) ELSE on_whole(a.d, a.frag)

\* The deadline passed while serve_inbound polls it.
reasm_expires ==
    /\ re.active /\ re.st = "Reassembling"
    /\ re' = [re EXCEPT !.st = "Expired", !.active = FALSE]
    /\ handed' = <<>> /\ tx' = <<>> /\ UNCHANGED BUF

ReasmNext == on_icmp_frame \/ reasm_expires

ReasmSpec == ReasmInit /\ [][ReasmNext]_reasm_vars

-----------------------------------------------------------------------------

(* A datagram handed to the responder is the one the peer sent under that  *)
(* identification, whole and byte for byte, whatever the network did with  *)
(* its fragments and with those of other datagrams, and although the       *)
(* buffer is never cleared between datagrams.                              *)
ReassembledExact ==
    \A k \in 1 .. Len(handed) :
      LET h == handed[k] IN
      h.len = Length[h.ident] /\ \A b \in DOMAIN h.bytes : h.bytes[b] = h.ident

(* The frames a reply is cut into tile it: each fits the link, each starts *)
(* at the byte its offset field (in units) says, which is where the one    *)
(* before ended, MF is on all but the last, and together they are the      *)
(* reply.  Offsets can only name whole units, so a chunk that is not a     *)
(* multiple of the unit would shift every fragment behind it.              *)
ReplyTiles ==
    tx # <<>> =>
      /\ \A k \in 1 .. Len(tx) :
           /\ tx[k].len <= MTU
           /\ tx[k].more <=> k < Len(tx)
           /\ tx[k].off * UNIT = (IF k = 1 THEN 0 ELSE tx[k - 1].off * UNIT + tx[k - 1].len)
      /\ handed # <<>> => Last(tx).off * UNIT + Last(tx).len = handed[1].len

(* Fragmentation is invisible in both directions: what is handed up is the *)
(* datagram sent, and the fragments of a reply tile it.                    *)
FragmentsExact == ReassembledExact /\ ReplyTiles

=============================================================================
