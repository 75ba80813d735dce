----------------------------- MODULE BlockCache -----------------------------
(***************************************************************************)
(* The file system's buffer cache (read_block and write_block of fs.rs):   *)
(* direct-mapped, write-through, unlocked, over the disk as SectorStore    *)
(* promises it.  A process runs with interrupts off except while its       *)
(* sector request is outstanding; any other process may use the cache      *)
(* then.                                                                   *)
(***************************************************************************)
EXTENDS Integers

CONSTANTS
    CachePids,
    BlockNos,       \* block numbers
    Versions,     \* what a block may hold, the zeroed buffer apart
    CACHE_SLOTS,
    Faults        \* whether the device may fail a request

ASSUME CacheAssumption ==
    /\ BlockNos \subseteq Nat
    /\ CACHE_SLOTS \in Nat \ {0}
    /\ Faults \in BOOLEAN

VARIABLES
    store, call, answered,  \* the disk and the sector requests (SectorStore)
    CACHE,             \* per cache slot: [valid, block, data]
    got,               \* what each process's last call, a read_block, returned
    overtaken,         \* (history) a write to its block came after its read
    doubtful           \* (history) blocks last installed by an overtaken read
                       \* or after a request that failed

history == <<overtaken, doubtful>>
cache_vars == <<store, call, answered, CACHE, got, history>>

(* A block's contents name the block they were written for.                *)
Contents(b) == {b} \X Versions
Zeroed == <<-1, 0>>
BlockValues == UNION {Contents(b) : b \in BlockNos} \cup {Zeroed}

Disk == INSTANCE SectorStore WITH
    Pids <- CachePids, Sectors <- BlockNos, Values <- BlockValues, ret <- answered

slot(b) == b % CACHE_SLOTS
CacheSlots == 0 .. CACHE_SLOTS - 1

Read(b) == [op |-> "read", sec |-> b]
Write(b, v) == [op |-> "write", sec |-> b, val |-> v]

CacheInit ==
    /\ Disk!StoreInit
    /\ \A b \in BlockNos : store[b] \in Contents(b)
    /\ CACHE = [s \in CacheSlots |-> [valid |-> FALSE, block |-> 0, data |-> Zeroed]]
    /\ got = [p \in CachePids |-> <<>>]
    /\ overtaken = [p \in CachePids |-> FALSE]
    /\ doubtful = {}

-----------------------------------------------------------------------------

(* Mutant: the block number is not compared.                               *)
Cached_AnyBlock(b) == CACHE[slot(b)].valid

Cached(b) == CACHE[slot(b)].valid /\ CACHE[slot(b)].block = b

Install(b, v, inDoubt) ==
    /\ CACHE' = [CACHE EXCEPT ![slot(b)] = [valid |-> TRUE, block |-> b, data |-> v]]
    /\ doubtful' = IF inDoubt THEN doubtful \cup {b} ELSE doubtful \ {b}

(* read_block that finds its block in the cache.                           *)
ReadHit(p, b) ==
    /\ call[p].st = "idle"
    /\ Cached(b)
    /\ got' = [got EXCEPT ![p] = <<b, CACHE[slot(b)].data>>]
    /\ UNCHANGED <<store, call, answered, CACHE, history>>

(* read_block that does not: the sector request goes out.                  *)
ReadMiss(p, b) ==
    /\ ~Cached(b)
    /\ Disk!Invoke(p) /\ call'[p] = Disk!Pending(Read(b))
    /\ got' = [got EXCEPT ![p] = <<>>]
    /\ UNCHANGED <<CACHE, history>>

(* Its answer is installed and returned, the zeroed buffer if the request  *)
(* failed: read_sector's verdict is not looked at.                         *)
ReadFill(p) ==
    /\ Disk!Return(p)
    /\ LET r == call[p].req
           buf == IF call[p].ok THEN call[p].val ELSE Zeroed
       IN /\ r.op = "read"
          /\ Install(r.sec, buf, overtaken[p] \/ ~call[p].ok)
          /\ got' = [got EXCEPT ![p] = <<r.sec, buf>>]
    /\ overtaken' = [overtaken EXCEPT ![p] = FALSE]

Writing(p) == call[p].st # "idle" /\ call[p].req.op = "write"

(* write_block: the sector first, then the cache, whatever the verdict.    *)
(* Only a file syscall writes, and there is one at a time: while its       *)
(* handler is parked the dispatcher ignores every other (SyscallDispatch). *)
(* The other processes in the cache load programs.                         *)
WriteStart(p, b, v) ==
    /\ \A q \in CachePids : ~Writing(q)
    /\ Disk!Invoke(p) /\ call'[p] = Disk!Pending(Write(b, v))
    /\ got' = [got EXCEPT ![p] = <<>>]
    /\ UNCHANGED <<CACHE, history>>

WriteThrough(p) ==
    /\ Disk!Return(p)
    /\ call[p].req.op = "write"
    /\ Install(call[p].req.sec, call[p].req.val, ~call[p].ok)
    /\ UNCHANGED <<got, overtaken>>

(* The disk (DiskIO implements it).  Nobody looks at what a failed call    *)
(* leaves behind.                                                          *)
DiskStep(p) ==
    /\ Disk!TakeEffect(p)
    /\ call'[p].ok \/ (Faults /\ call'[p].val = Zeroed)
    /\ overtaken' = [q \in CachePids |->
          overtaken[q] \/ /\ call[q].st = "done" /\ call[q].req.op = "read"
                          /\ Writing(p) /\ call'[p].ok
                          /\ call[q].req.sec = call[p].req.sec]
    /\ UNCHANGED <<CACHE, got, doubtful>>

CacheNext ==
    \E p \in CachePids :
        \/ \E b \in BlockNos :
              \/ ReadHit(p, b)
              \/ ReadMiss(p, b)
              \/ \E v \in Contents(b) : WriteStart(p, b, v)
        \/ ReadFill(p)
        \/ WriteThrough(p)
        \/ DiskStep(p)

CacheSpec == CacheInit /\ [][CacheNext]_cache_vars

-----------------------------------------------------------------------------

(* read_block never returns another block's contents, although blocks      *)
(* share slots and fills complete in any order: it returns contents of its *)
(* block, or the zeroed buffer where the device may fail.                  *)
ReadsOwnBlock ==
    \A p \in CachePids : got[p] # <<>> =>
        \/ got[p][2] \in Contents(got[p][1])
        \/ Faults /\ got[p][2] = Zeroed

(* Write-through: what is cached of a block is what the disk holds, except *)
(* from the instant a write takes effect to its write_block's return, and  *)
(* for a block that was last installed by a read which a write overtook    *)
(* (the old contents are put back) or after a request that failed.         *)
Coherent ==
    \A b \in BlockNos :
        Cached(b) /\ b \notin doubtful =>
            \/ CACHE[slot(b)].data = store[b]
            \/ \E p \in CachePids : /\ Writing(p) /\ call[p].req.sec = b
                                    /\ call[p].st = "done" /\ call[p].ok

(* The cache does not show through: a read is of its own block, and cache  *)
(* and disk agree but where the driver failed or a read was overtaken.     *)
CacheTransparent == ReadsOwnBlock /\ Coherent
=============================================================================
