------------------------------ MODULE Streams ------------------------------
(***************************************************************************)
(* The C library's buffered streams (libc/src/stdio.rs) over one kernel    *)
(* file.  A byte the program writes is its sequence number; the file on    *)
(* disk starts as the bytes 101, 102, ... and a write is cut short when    *)
(* the disk is full.  One stream is open at a time.                        *)
(***************************************************************************)
EXTENDS Integers, Sequences, SequencesExt

CONSTANTS
    FileLen,      \* bytes in the file at the start
    DiskCap,      \* bytes the disk has room for
    FLUSH_AT,     \* output bytes that force a flush
    REFILL,       \* bytes one refill asks for
    MaxItem,      \* longest fwrite and fread
    MaxWritten,   \* bytes a program writes in all
    MaxJumped     \* input bytes a program lets fseek jump over

Whences == {"set", "cur", "end"}
MaxOffset == DiskCap + 1    \* bound: the furthest a program seeks

VARIABLES
    file,      \* the bytes of the kernel's file
    stream,    \* [mode, off, obuf, ibuf, ipos, eof]: mode is OpenFile's state
    pos,       \* where C says the stream is: what was read, written or sought
    jumped,    \* how far it is ahead of that: input read ahead and dropped
    ideal,     \* the file if every write had gone straight to it
    count,     \* bytes written so far
    last       \* [from, got, want]: the read just made, for the properties
stream_vars == <<file, stream, pos, jumped, ideal, count, last>>

NoStream == [mode |-> "closed", off |-> 0, obuf |-> <<>>, ibuf |-> <<>>, ipos |-> 0,
             eof |-> FALSE]
NEWLINE == 102
NoRead == [from |-> 0, got |-> <<>>, want |-> 0]
Lower(a, b) == IF a < b THEN a ELSE b
Bytes(s, from, k) == SubSeq(s, from + 1, Lower(from + k, Len(s)))

(* The kernel's side (vfs.rs): read and write at the descriptor's offset.  *)
Room(off) == IF off >= DiskCap THEN 0 ELSE DiskCap - off
WriteAt(f, off, buf) ==
    LET k == Lower(Len(buf), Room(off))
        end == IF off + k > Len(f) THEN off + k ELSE Len(f)
    IN  IF k = 0 THEN f
        ELSE [i \in 1..end |-> IF i > off /\ i <= off + k THEN buf[i - off]
                               ELSE IF i <= Len(f) THEN f[i] ELSE 0]
Written(off, buf) == Lower(Len(buf), Room(off))

(* flush: the bytes go out in one write, whose count is not looked at.     *)
FlushedFile == WriteAt(file, stream.off, stream.obuf)
flush(s) == [s EXCEPT !.off = @ + Written(s.off, s.obuf), !.obuf = <<>>]

(* One refill of the input buffer; the loop of fread, fgetc and fgets: take *)
(* until k bytes are read, a refill finds the end, or a byte of stop came. *)
refill(s) ==
    LET chunk == Bytes(file, s.off, REFILL)
    IN  [s EXCEPT !.ibuf = chunk, !.ipos = 0, !.off = @ + Len(chunk),
                  !.eof = @ \/ chunk = <<>>]
next_byte(a, stop) ==
    LET s == IF a.s.ipos >= Len(a.s.ibuf) THEN refill(a.s) ELSE a.s
    IN  IF a.done THEN a
        ELSE IF s.ibuf = <<>> THEN [a EXCEPT !.s = s, !.done = TRUE]
        ELSE [s |-> [s EXCEPT !.ipos = @ + 1], got |-> Append(a.got, s.ibuf[s.ipos + 1]),
              done |-> s.ibuf[s.ipos + 1] \in stop]
take(s, k, stop) ==
    FoldLeft(next_byte, [s |-> s, got |-> <<>>, done |-> FALSE], [i \in 1..k |-> stop])

-----------------------------------------------------------------------------
StreamInit ==
    /\ file = [i \in 1..FileLen |-> 100 + i]
    /\ stream = NoStream /\ pos = 0 /\ jumped = 0 /\ ideal = file /\ count = 0 /\ last = NoRead

IsOpen == stream.mode # "closed"

fopen(mode) ==
    /\ ~IsOpen
    /\ file' = IF mode = "writing" THEN <<>> ELSE file
    /\ stream' = [NoStream EXCEPT !.mode = mode]
    /\ pos' = 0 /\ jumped' = 0 /\ ideal' = file' /\ last' = NoRead /\ UNCHANGED count

(* fwrite, fputs and fputc: gated by OpenFile, buffered, flushed when the  *)
(* buffer reaches FLUSH_AT.                                                *)
fwrite(k) ==
    LET new == [i \in 1..k |-> count + i]
        s == [stream EXCEPT !.obuf = @ \o new]
        full == Len(s.obuf) >= FLUSH_AT
    IN  /\ stream.mode = "writing" /\ count + k <= MaxWritten
        /\ stream' = IF full THEN flush(s) ELSE s
        /\ file' = IF full THEN WriteAt(file, s.off, s.obuf) ELSE file
        /\ ideal' = WriteAt(ideal, pos, new)
        /\ count' = count + k /\ pos' = pos + Written(pos, new)
        /\ UNCHANGED jumped /\ last' = NoRead

fread(k) ==
    LET a == take(stream, k, {})
    IN  /\ stream.mode = "reading"
        /\ stream' = a.s /\ pos' = pos + Len(a.got)
        /\ last' = [from |-> pos + jumped, got |-> a.got, want |-> k]
        /\ UNCHANGED <<file, jumped, ideal, count>>
(* fgets: at most k - 1 bytes, up to and with a newline.                   *)
fgets(k) ==
    LET a == take(stream, k - 1, {NEWLINE})
        line == a.got # <<>> /\ Last(a.got) = NEWLINE
    IN  /\ stream.mode = "reading"
        /\ stream' = a.s /\ pos' = pos + Len(a.got)
        /\ last' = [from |-> pos + jumped, got |-> a.got, want |-> IF line THEN Len(a.got) ELSE k - 1]
        /\ UNCHANGED <<file, jumped, ideal, count>>

fflush ==
    /\ IsOpen /\ file' = FlushedFile /\ stream' = flush(stream)
    /\ UNCHANGED <<pos, jumped, ideal, count>> /\ last' = NoRead

(* lseek on the descriptor: an offset below 0 is refused.                  *)
SeekBase(s, whence) ==
    CASE whence = "set" -> 0 [] whence = "cur" -> s.off [] whence = "end" -> Len(FlushedFile)
lseek(s, off, whence) ==
    IF SeekBase(s, whence) + off < 0 THEN s ELSE [s EXCEPT !.off = SeekBase(s, whence) + off]

(* The input buffer goes, even if the seek is refused then.  From the      *)
(* current position the base is the descriptor's, past the input read      *)
(* ahead.                                                                  *)
Unread(s) == Len(s.ibuf) - s.ipos
DropsInput(s) == [s EXCEPT !.ibuf = <<>>, !.ipos = 0, !.eof = FALSE]
Jumps(off, whence) ==
    LET refused == SeekBase(flush(stream), whence) + off < 0
        here == IF whence = "cur" THEN pos ELSE SeekBase(stream, whence)
    IN  /\ pos' = IF refused THEN pos ELSE here + off
        /\ jumped' = IF refused \/ whence = "cur" THEN jumped + Unread(stream) ELSE 0
        /\ jumped' <= MaxJumped

\* Mutant: the input read ahead survives the seek.
fseek_KeepsInput(off, whence) ==
    /\ IsOpen /\ SeekBase(flush(stream), whence) + off <= MaxOffset
    /\ file' = FlushedFile
    /\ stream' = lseek([flush(stream) EXCEPT !.eof = FALSE], off, whence)
    /\ Jumps(off, whence)
    /\ UNCHANGED <<ideal, count>> /\ last' = NoRead

(* fseek: flush, drop the input buffer, lseek the descriptor.              *)
fseek(off, whence) ==
    /\ IsOpen /\ SeekBase(flush(stream), whence) + off <= MaxOffset
    /\ file' = FlushedFile
    /\ stream' = lseek(DropsInput(flush(stream)), off, whence)
    /\ Jumps(off, whence)
    /\ UNCHANGED <<ideal, count>> /\ last' = NoRead

(* ftell, after its flush: the descriptor's offset less the unread input.  *)
ftell == flush(stream).off - Unread(stream)

clearerr ==
    /\ IsOpen /\ stream' = [stream EXCEPT !.eof = FALSE]
    /\ UNCHANGED <<file, pos, jumped, ideal, count>> /\ last' = NoRead

fclose ==
    /\ IsOpen /\ file' = FlushedFile /\ stream' = NoStream
    /\ pos' = 0 /\ jumped' = 0 /\ last' = NoRead /\ UNCHANGED <<ideal, count>>

StreamNext ==
    \/ \E mode \in {"reading", "writing"} : fopen(mode)
    \/ \E k \in 1..MaxItem : fwrite(k) \/ fread(k) \/ fgets(k)
    \/ \E whence \in Whences, off \in -1..1 : fseek(off, whence)
    \/ fflush \/ clearerr \/ fclose

-----------------------------------------------------------------------------
(* A read returns the bytes of the file from the stream's position on, all *)
(* that was asked for unless the file ends first, through any mixture of   *)
(* reads and seeks, refused ones included, and wherever the refills fall   *)
(* (fread, fgets, fseek, refill).  The position is C's, except that a seek *)
(* from the current position and a refused seek jump over exactly the      *)
(* input that was read ahead.                                              *)
ReadsInOrder == last.got = Bytes(file, last.from, last.want)

(* With its buffer flushed, a stream's file is byte for byte what it would *)
(* be had every write gone straight to the disk, full disk included, for   *)
(* any mixture of writes, flushes and seeks; a closed stream leaves        *)
(* nothing behind (fwrite, flush, fseek, fclose).                          *)
BufferTransparent == FlushedFile = ideal

(* What ftell reports is where the next byte comes from (its doc comment). *)
TellsPosition == stream.mode = "reading" => ftell = pos + jumped

(* Buffering is invisible in both directions: reads deliver the file from  *)
(* the position ftell reports on, writes reach it as if unbuffered.        *)
StreamsSound == ReadsInOrder /\ TellsPosition /\ BufferTransparent

(* Seeks count from where the program has read to, as C has it and as      *)
(* ftell reports it.  They do not: see Jumps.                              *)
SeeksFromPosition == jumped = 0

=============================================================================
