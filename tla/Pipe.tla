-------------------------------- MODULE Pipe --------------------------------
(***************************************************************************)
(* One pipe between a reader and a writer process: the ring of pipe.rs,    *)
(* the writer's presence in the Pipe system of pipe.frs, and the blocking  *)
(* read of usermode.rs, do_pipe_read_loop.                                 *)
(*                                                                         *)
(* The loop's first poll runs with interrupts off.  After a park it polls  *)
(* with interrupts on (sti;hlt sets IF and only the returns clear it), so  *)
(* the writer may run between any two of its accesses to the ring.         *)
(***************************************************************************)
EXTENDS Integers

CONSTANTS
    PIPE_CAP,
    MaxLen,   \* the longest read or write
    Total     \* bytes the writer has to write

ASSUME PipeAssumption ==
    /\ PIPE_CAP \in Nat \ {0} /\ MaxLen \in Nat \ {0} /\ Total \in Nat

VARIABLES
    bytes, head, tail, len,  \* the ring; a byte is its place in the stream
    sent, rcvd,            \* bytes the writer wrote, bytes the reader took
    writer_open,           \* $Writable, or $Drained
    on_core,               \* the process on the core
    reader,                    \* the reader
    nread, want,               \* its count and buffer length
    loaded,                \* the len it loaded
    ordered                \* every byte it took was the next of the stream

ring_vars == <<bytes, head, tail, len, sent, rcvd, ordered>>
pipe_vars == <<ring_vars, writer_open, on_core, reader, nread, want, loaded>>

Ring == 0 .. PIPE_CAP - 1
Lesser(a, b) == IF a <= b THEN a ELSE b

PipeInit ==
    /\ bytes = [i \in Ring |-> 0]
    /\ head = 0 /\ tail = 0 /\ len = 0
    /\ sent = 0 /\ rcvd = 0
    /\ ordered = TRUE
    /\ writer_open = TRUE
    /\ on_core = "reader"
    /\ reader = "user" /\ nread = 0 /\ want = 1 /\ loaded = 0

(* The timer: every kernel path not taken in one step here runs with       *)
(* interrupts on.                                                          *)
pipe_schedule ==
    /\ on_core' \in {"reader", "writer"}
    /\ UNCHANGED <<ring_vars, writer_open, reader, nread, want, loaded>>

-----------------------------------------------------------------------------
(* The writer: each syscall is one step.                                   *)

(* pipe::write: as much as fits.                                           *)
write(k) ==
    LET m == Lesser(k, PIPE_CAP - len) IN
    /\ on_core = "writer" /\ writer_open
    /\ sent + k <= Total
    /\ bytes' = [i \in Ring |->
                  IF \E j \in 1 .. m : i = (head + j - 1) % PIPE_CAP
                  THEN sent + 1 + ((i - head) % PIPE_CAP)
                  ELSE bytes[i]]
    /\ head' = (head + m) % PIPE_CAP
    /\ len' = len + m
    /\ sent' = sent + m
    /\ UNCHANGED <<tail, rcvd, ordered, writer_open, on_core, reader, nread, want, loaded>>

(* close of the last write end: writer_closed, $Writable -> $Drained.      *)
close ==
    /\ on_core = "writer" /\ writer_open
    /\ writer_open' = FALSE
    /\ UNCHANGED <<ring_vars, on_core, reader, nread, want, loaded>>

-----------------------------------------------------------------------------
(* The reader.                                                             *)

(* Mutant: the cursor moves one byte however many were copied.             *)
CopyOut_OneStep(m) ==
    /\ ordered' = (ordered /\ \A j \in 1 .. m : bytes[(tail + j - 1) % PIPE_CAP] = rcvd + j)
    /\ tail' = (tail + Lesser(m, 1)) % PIPE_CAP
    /\ rcvd' = rcvd + m

(* pipe::read's copy of m bytes.                                           *)
CopyOut(m) ==
    /\ ordered' = (ordered /\ \A j \in 1 .. m : bytes[(tail + j - 1) % PIPE_CAP] = rcvd + j)
    /\ tail' = (tail + m) % PIPE_CAP
    /\ rcvd' = rcvd + m

Return(m) ==
    /\ reader' = "user"
    /\ nread' = m

(* The first poll, nothing can intervene: bytes, end of file or a park.    *)
FirstPoll(k) ==
    LET m == Lesser(k, len) IN
    /\ on_core = "reader" /\ reader = "user"
    /\ want' = k
    /\ CopyOut(m)
    /\ len' = len - m
    /\ IF m > 0 \/ ~writer_open
       THEN Return(m)
       ELSE reader' = "parked" /\ nread' = 0
    /\ UNCHANGED <<bytes, head, sent, writer_open, on_core, loaded>>

(* Any interrupt ends the halt.  The next poll loads len ...               *)
Load ==
    /\ on_core = "reader" /\ reader = "parked"
    /\ loaded' = len
    /\ nread' = Lesser(want, len)
    /\ reader' = "copy"
    /\ UNCHANGED <<ring_vars, writer_open, on_core, want>>

(* ... copies ...                                                          *)
Copy ==
    /\ on_core = "reader" /\ reader = "copy"
    /\ CopyOut(nread)
    /\ reader' = "store"
    /\ UNCHANGED <<bytes, head, len, sent, writer_open, on_core, nread, want, loaded>>

(* ... and stores len - n: from the value it loaded, or read again where   *)
(* the compiler subtracts in memory.                                       *)
StoreLen ==
    /\ on_core = "reader" /\ reader = "store"
    /\ len' \in {loaded - nread, len - nread}
    /\ IF nread > 0 THEN Return(nread) ELSE reader' = "asking" /\ nread' = nread
    /\ UNCHANGED <<bytes, head, tail, sent, rcvd, ordered, writer_open, on_core, want, loaded>>

(* Mutant: an empty pipe is polled for ever.                               *)
Ask_Never ==
    /\ on_core = "reader" /\ reader = "asking"
    /\ reader' = "parked" /\ nread' = nread
    /\ UNCHANGED <<ring_vars, writer_open, on_core, want, loaded>>

(* Nothing read: end of file if no writer is left, else the next park.     *)
Ask ==
    /\ on_core = "reader" /\ reader = "asking"
    /\ IF writer_open THEN reader' = "parked" /\ nread' = nread ELSE Return(0)
    /\ UNCHANGED <<ring_vars, writer_open, on_core, want, loaded>>

Poll == Load \/ Copy \/ StoreLen \/ Ask

PipeNext ==
    \/ pipe_schedule
    \/ \E k \in 1 .. MaxLen : write(k) \/ FirstPoll(k)
    \/ close
    \/ Poll

(* The timer brings every runnable process back, and what it brings back   *)
(* executes; the writer need not write, close or do anything.              *)
PipeFair ==
    /\ WF_pipe_vars(pipe_schedule /\ on_core' = "reader")
    /\ SF_pipe_vars(Poll)

PipeSpec == PipeInit /\ [][PipeNext]_pipe_vars

-----------------------------------------------------------------------------

PipeTypeOK ==
    /\ bytes \in [Ring -> Nat]
    /\ head \in Ring /\ tail \in Ring
    /\ sent \in 0 .. Total /\ rcvd \in Nat
    /\ len \in 0 .. PIPE_CAP
    /\ reader \in {"user", "parked", "copy", "store", "asking"}
    /\ nread \in 0 .. MaxLen /\ want \in 1 .. MaxLen

(* len accounts for the bytes written and not read, those of a copy that   *)
(* is not yet stored included.                                             *)
Accounted == len = sent - rcvd + (IF reader = "store" THEN nread ELSE 0)

(* The reader takes the bytes in the order they were written, none twice   *)
(* and none skipped, wherever the writer preempts it and however often the *)
(* ring wraps; once Store has lost bytes from len, until it wraps.         *)
BytesInOrder == Accounted \/ sent <= PIPE_CAP => ordered

PipeSound == PipeTypeOK /\ BytesInOrder

(* Once the writer has closed, a reader parked on the pipe comes back: it  *)
(* gets bytes or end of file.                                              *)
ReaderReturns == ~writer_open ~> reader = "user"
=============================================================================
