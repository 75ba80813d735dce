-------------------------- MODULE BlockCacheProofs --------------------------
(***************************************************************************)
(* For every set of processes, blocks and contents and every size of the   *)
(* cache: read_block returns its own block, and the cache agrees with the  *)
(* disk but where a request failed or a write overtook a read.             *)
(***************************************************************************)
EXTENDS BlockCache, TLAPS

(* A version of the block, or the zeroed buffer of a failed read.          *)
Acceptable(b) == Contents(b) \cup IF Faults THEN {Zeroed} ELSE {}

(* read_block and write_block ask for blocks, and write a block's own      *)
(* contents.                                                               *)
BlockRequests ==
    {Read(b) : b \in BlockNos} \cup
    UNION {{Write(b, v) : v \in Contents(b)} : b \in BlockNos}

(* A read that has been answered holds contents of its block: the present  *)
(* ones unless a write overtook it.  An answered write is on the disk.     *)
Answered(p) ==
    call[p].ok =>
        LET r == call[p].req IN
        IF r.op = "read"
        THEN /\ call[p].val \in Contents(r.sec)
             /\ ~overtaken[p] => call[p].val = store[r.sec]
        ELSE store[r.sec] = r.val

CallsOK ==
    \A p \in CachePids :
        /\ call[p].st \in {"idle", "pending", "done"}
        /\ call[p].st # "idle" => call[p].req \in BlockRequests
        /\ call[p].st = "done" => /\ call[p].ok \in BOOLEAN
                                  /\ call[p].ok \/ Faults
                                  /\ Answered(p)
        /\ overtaken[p] => call[p].st = "done" /\ call[p].req.op = "read"

OneWriter == \A p, q \in CachePids : Writing(p) /\ Writing(q) => p = q

EntriesOK ==
    \A s \in CacheSlots : CACHE[s].valid => CACHE[s].data \in Acceptable(CACHE[s].block)

CacheTypeOK ==
    /\ store \in [BlockNos -> BlockValues]
    /\ \A b \in BlockNos : store[b] \in Contents(b)
    /\ call = [p \in CachePids |-> call[p]]
    /\ CACHE = [s \in CacheSlots |-> CACHE[s]]
    /\ got = [p \in CachePids |-> got[p]]
    /\ overtaken \in [CachePids -> BOOLEAN]
    /\ doubtful \subseteq BlockNos

CacheInv ==
    /\ CacheTypeOK /\ CallsOK /\ OneWriter /\ EntriesOK
    /\ ReadsOwnBlock /\ Coherent

-----------------------------------------------------------------------------
(* The operators.                                                          *)

LEMMA RequestCases ==
    ASSUME NEW r \in BlockRequests
    PROVE  /\ r.sec \in BlockNos /\ r.op \in {"read", "write"}
           /\ r.op = "write" => r.val \in Contents(r.sec)
BY DEF BlockRequests, Read, Write

LEMMA SlotInCache == ASSUME NEW b \in BlockNos PROVE slot(b) \in CacheSlots
BY CacheAssumption DEF slot, CacheSlots

(* A step of one process's request leaves the other requests alone.        *)
LEMMA Invoked ==
    ASSUME CacheTypeOK, NEW p \in CachePids, NEW r,
           Disk!Invoke(p), call'[p] = Disk!Pending(r)
    PROVE  /\ call[p].st = "idle" /\ store' = store
           /\ call'[p].st = "pending" /\ call'[p].req = r
           /\ \A q \in CachePids \ {p} : call'[q] = call[q]
           /\ call' = [q \in CachePids |-> call'[q]]
<1>1. /\ call[p].st = "idle" /\ store' = store
      /\ \E c : call' = [call EXCEPT ![p] = c]
  BY Zenon DEF Disk!Invoke
<1>2. /\ \A q \in CachePids \ {p} : call'[q] = call[q]
      /\ call' = [q \in CachePids |-> call'[q]]
  BY <1>1 DEF CacheTypeOK
<1>3. call'[p].st = "pending" /\ call'[p].req = r
  BY DEF Disk!Pending
<1> QED BY <1>1, <1>2, <1>3

LEMMA Returned ==
    ASSUME CacheTypeOK, NEW p \in CachePids, Disk!Return(p)
    PROVE  /\ call[p].st = "done" /\ store' = store
           /\ call'[p].st = "idle"
           /\ \A q \in CachePids \ {p} : call'[q] = call[q]
           /\ call' = [q \in CachePids |-> call'[q]]
BY DEF CacheTypeOK, Disk!Return, Disk!Idle

LEMMA TookEffect ==
    ASSUME CacheTypeOK, NEW p \in CachePids, Disk!TakeEffect(p)
    PROVE  /\ call[p].st = "pending" /\ call'[p].st = "done" /\ call'[p].req = call[p].req
           /\ call'[p].ok \in BOOLEAN
           /\ \/ /\ call[p].req.op = "read" /\ call'[p].ok /\ store' = store
                 /\ call'[p].val = store[call[p].req.sec]
              \/ /\ call[p].req.op = "write" /\ call'[p].ok
                 /\ store' = [store EXCEPT ![call[p].req.sec] = call[p].req.val]
              \/ ~call'[p].ok /\ store' = store
           /\ \A q \in CachePids \ {p} : call'[q] = call[q]
           /\ call' = [q \in CachePids |-> call'[q]]
<1>1. \E c : call' = [call EXCEPT ![p] = c]
  BY Zenon DEF Disk!TakeEffect
<1>2. /\ \A q \in CachePids \ {p} : call'[q] = call[q]
      /\ call' = [q \in CachePids |-> call'[q]]
  BY <1>1 DEF CacheTypeOK
<1> DEFINE r == call[p].req
<1>3. /\ call[p].st = "pending"
      /\ \/ /\ r.op = "read" /\ call'[p] = Disk!Done(r, TRUE, store[r.sec])
            /\ store' = store
         \/ /\ r.op = "write" /\ call'[p] = Disk!Done(r, TRUE, r.val)
            /\ store' = [store EXCEPT ![r.sec] = r.val]
         \/ /\ \E v : call'[p] = Disk!Done(r, FALSE, v)
            /\ store' = store
  BY Zenon DEF CacheTypeOK, Disk!TakeEffect
<1>4. CASE /\ r.op = "read" /\ call'[p] = Disk!Done(r, TRUE, store[r.sec])
           /\ store' = store
  BY <1>2, <1>3, <1>4 DEF Disk!Done
<1>5. CASE /\ r.op = "write" /\ call'[p] = Disk!Done(r, TRUE, r.val)
           /\ store' = [store EXCEPT ![r.sec] = r.val]
  BY <1>2, <1>3, <1>5 DEF Disk!Done
<1>6. CASE store' = store /\ \E v : call'[p] = Disk!Done(r, FALSE, v)
  BY <1>2, <1>3, <1>6 DEF Disk!Done
<1> QED BY <1>3, <1>4, <1>5, <1>6, Zenon

-----------------------------------------------------------------------------

LEMMA InitCacheInv == CacheInit => CacheInv
<1> SUFFICES ASSUME CacheInit PROVE CacheInv
  OBVIOUS
<1>1. /\ \A p \in CachePids : got[p] = <<>> /\ overtaken[p] = FALSE
      /\ \A s \in CacheSlots : CACHE[s].valid = FALSE
      /\ store \in [BlockNos -> BlockValues] /\ \A b \in BlockNos : store[b] \in Contents(b)
  BY DEF CacheInit, Disk!StoreInit
<1>2. \A p \in CachePids : call[p].st = "idle"
  BY Zenon DEF CacheInit, Disk!StoreInit, Disk!Idle
<1>3. CacheTypeOK
  BY <1>1 DEF CacheTypeOK, CacheInit, Disk!StoreInit
<1>4. CallsOK /\ OneWriter /\ EntriesOK /\ ReadsOwnBlock
  BY <1>1, <1>2 DEF CallsOK, OneWriter, Writing, EntriesOK, ReadsOwnBlock
<1>5. Coherent
  BY <1>1, SlotInCache DEF Coherent, Cached
<1> QED BY <1>3, <1>4, <1>5 DEF CacheInv

(* A hit returns what the entry holds, and the entry is of the block.      *)
LEMMA ReadHitInv ==
    ASSUME CacheInv, NEW p \in CachePids, NEW b \in BlockNos, ReadHit(p, b)
    PROVE  CacheInv'
<1>1. /\ Cached(b) /\ got' = [got EXCEPT ![p] = <<b, CACHE[slot(b)].data>>]
      /\ UNCHANGED <<store, call, CACHE, overtaken, doubtful>>
  BY DEF ReadHit, history
<1>2. CACHE[slot(b)].data \in Acceptable(b)
  BY <1>1, SlotInCache DEF CacheInv, EntriesOK, Cached
<1>3. ReadsOwnBlock'
  <2>1. \A q \in CachePids \ {p} : got'[q] = got[q]
    BY <1>1 DEF CacheInv, CacheTypeOK
  <2>2. got'[p] = <<b, CACHE[slot(b)].data>>
    BY <1>1 DEF CacheInv, CacheTypeOK
  <2> QED BY <2>1, <2>2, <1>2 DEF CacheInv, ReadsOwnBlock, Acceptable
<1>4. CacheTypeOK'
  BY <1>1, Zenon DEF CacheInv, CacheTypeOK
<1>5. CallsOK' /\ OneWriter' /\ EntriesOK' /\ Coherent'
  BY <1>1 DEF CacheInv, CallsOK, Answered, OneWriter, Writing, EntriesOK, Coherent, Cached
<1> QED BY <1>3, <1>4, <1>5 DEF CacheInv

(* A request goes out: nothing else changes.                               *)
LEMMA RequestInv ==
    ASSUME CacheInv, NEW p \in CachePids, NEW r \in BlockRequests,
           Disk!Invoke(p), call'[p] = Disk!Pending(r),
           r.op = "write" => \A q \in CachePids : ~Writing(q),
           got' = [got EXCEPT ![p] = <<>>], UNCHANGED <<CACHE, overtaken, doubtful>>
    PROVE  CacheInv'
<1>1. /\ call[p].st = "idle" /\ store' = store
      /\ call'[p].st = "pending" /\ call'[p].req = r
      /\ \A q \in CachePids \ {p} : call'[q] = call[q]
      /\ call' = [q \in CachePids |-> call'[q]]
  BY Invoked DEF CacheInv
<1>2. /\ \A q \in CachePids \ {p} : got'[q] = got[q]
      /\ got'[p] = <<>> /\ got' = [q \in CachePids |-> got'[q]]
  BY DEF CacheInv, CacheTypeOK
<1>3. CacheTypeOK'
  BY <1>1, <1>2 DEF CacheInv, CacheTypeOK
<1>4. CallsOK'
  BY <1>1 DEF CacheInv, CallsOK, Answered
<1>5. OneWriter'
  BY <1>1 DEF CacheInv, OneWriter, Writing
<1>6. EntriesOK' /\ ReadsOwnBlock'
  BY <1>2 DEF CacheInv, EntriesOK, ReadsOwnBlock
<1>7. Coherent'
  <2>1. ASSUME NEW b \in BlockNos, NEW q \in CachePids,
               Writing(q) /\ call[q].req.sec = b /\ call[q].st = "done" /\ call[q].ok
        PROVE  (Writing(q) /\ call[q].req.sec = b /\ call[q].st = "done" /\ call[q].ok)'
    BY <2>1, <1>1 DEF Writing
  <2> QED BY <2>1, <1>1 DEF CacheInv, Coherent, Cached
<1> QED BY <1>3, <1>4, <1>5, <1>6, <1>7 DEF CacheInv

LEMMA ReadMissInv ==
    ASSUME CacheInv, NEW p \in CachePids, NEW b \in BlockNos, ReadMiss(p, b)
    PROVE  CacheInv'
<1>1. Read(b) \in BlockRequests /\ Read(b).op = "read"
  BY DEF BlockRequests, Read
<1> QED BY <1>1, RequestInv, Zenon DEF ReadMiss, history

LEMMA WriteStartInv ==
    ASSUME CacheInv, NEW p \in CachePids, NEW b \in BlockNos, NEW v \in Contents(b),
           WriteStart(p, b, v)
    PROVE  CacheInv'
<1>1. Write(b, v) \in BlockRequests
  BY DEF BlockRequests
<1> QED BY <1>1, RequestInv, Zenon DEF WriteStart, history

(* Installing a block evicts at most the block that shared its slot.       *)
LEMMA InstallEffect ==
    ASSUME CacheTypeOK, NEW b \in BlockNos, NEW v, NEW d \in BOOLEAN, Install(b, v, d)
    PROVE  /\ CACHE'[slot(b)] = [valid |-> TRUE, block |-> b, data |-> v]
           /\ \A s \in CacheSlots \ {slot(b)} : CACHE'[s] = CACHE[s]
           /\ CACHE' = [s \in CacheSlots |-> CACHE'[s]]
           /\ doubtful' \subseteq BlockNos /\ (b \in doubtful' <=> d)
           /\ \A c \in BlockNos \ {b} :
                 Cached(c)' /\ c \notin doubtful' =>
                     /\ Cached(c) /\ c \notin doubtful
                     /\ CACHE'[slot(c)] = CACHE[slot(c)]
<1>1. slot(b) \in CacheSlots
  BY SlotInCache
<1>2. /\ CACHE'[slot(b)] = [valid |-> TRUE, block |-> b, data |-> v]
      /\ \A s \in CacheSlots \ {slot(b)} : CACHE'[s] = CACHE[s]
      /\ CACHE' = [s \in CacheSlots |-> CACHE'[s]]
  BY <1>1, ZenonT(60) DEF CacheTypeOK, Install
<1>3. /\ doubtful' \subseteq BlockNos /\ (b \in doubtful' <=> d)
      /\ \A c \in BlockNos \ {b} : c \in doubtful' <=> c \in doubtful
  BY DEF CacheTypeOK, Install
<1>4. ASSUME NEW c \in BlockNos \ {b}, Cached(c)'
      PROVE  Cached(c) /\ CACHE'[slot(c)] = CACHE[slot(c)]
  <2>1. slot(c) \in CacheSlots /\ CACHE'[slot(c)].valid /\ CACHE'[slot(c)].block = c
    BY <1>4, SlotInCache DEF Cached
  <2>2. slot(c) # slot(b)
    BY <2>1, <1>2
  <2> QED BY <2>1, <2>2, <1>2 DEF Cached
<1> QED BY <1>2, <1>3, <1>4

(* A call returns and installs its block: acceptable contents, and those   *)
(* of the disk unless they are in doubt.                                   *)
LEMMA InstallInv ==
    ASSUME CacheInv, NEW p \in CachePids, Disk!Return(p), NEW v, NEW d \in BOOLEAN,
           Install(call[p].req.sec, v, d),
           v \in Acceptable(call[p].req.sec), ~d => v = store[call[p].req.sec],
           overtaken' \in [CachePids -> BOOLEAN], ~overtaken'[p],
           \A q \in CachePids \ {p} : overtaken'[q] = overtaken[q],
           got' = [q \in CachePids |-> got'[q]], ReadsOwnBlock'
    PROVE  CacheInv'
<1> DEFINE b == call[p].req.sec
<1>1. /\ call[p].st = "done" /\ store' = store /\ call'[p].st = "idle"
      /\ \A q \in CachePids \ {p} : call'[q] = call[q]
      /\ call' = [q \in CachePids |-> call'[q]]
  BY Returned DEF CacheInv
<1>2. b \in BlockNos
  BY <1>1, RequestCases DEF CacheInv, CallsOK
<1> HIDE DEF b
<1>3. /\ CACHE'[slot(b)] = [valid |-> TRUE, block |-> b, data |-> v]
      /\ \A s \in CacheSlots \ {slot(b)} : CACHE'[s] = CACHE[s]
      /\ CACHE' = [s \in CacheSlots |-> CACHE'[s]]
      /\ doubtful' \subseteq BlockNos /\ (b \in doubtful' <=> d)
      /\ \A c \in BlockNos \ {b} :
            Cached(c)' /\ c \notin doubtful' =>
                /\ Cached(c) /\ c \notin doubtful
                /\ CACHE'[slot(c)] = CACHE[slot(c)]
  BY <1>2, InstallEffect DEF CacheInv, b
<1>4. CacheTypeOK'
  BY <1>1, <1>3 DEF CacheInv, CacheTypeOK
<1>5. CallsOK'
  BY <1>1 DEF CacheInv, CallsOK, Answered
<1>6. OneWriter'
  BY <1>1 DEF CacheInv, OneWriter, Writing
<1>7. EntriesOK'
  BY <1>3 DEF CacheInv, EntriesOK, Acceptable, b
<1>8. Coherent'
  <2> SUFFICES ASSUME NEW c \in BlockNos, Cached(c)', c \notin doubtful'
               PROVE  \/ CACHE'[slot(c)].data = store'[c]
                      \/ \E q \in CachePids : (/\ Writing(q) /\ call[q].req.sec = c
                                               /\ call[q].st = "done" /\ call[q].ok)'
    BY DEF Coherent, slot
  <2>1. CASE c = b
    BY <2>1, <1>1, <1>3 DEF b
  <2>2. CASE c # b
    <3>1. Cached(c) /\ c \notin doubtful /\ CACHE'[slot(c)] = CACHE[slot(c)]
      BY <2>2, <1>3
    <3>2. CASE CACHE[slot(c)].data = store[c]
      BY <3>1, <3>2, <1>1
    <3>3. ASSUME NEW q \in CachePids, Writing(q) /\ call[q].req.sec = c,
                 call[q].st = "done" /\ call[q].ok
          PROVE  (Writing(q) /\ call[q].req.sec = c /\ call[q].st = "done" /\ call[q].ok)'
      <4>1. q # p
        BY <3>3, <2>2 DEF b
      <4> QED BY <4>1, <3>3, <1>1 DEF Writing
    <3> QED BY <3>1, <3>2, <3>3 DEF CacheInv, Coherent
  <2> QED BY <2>1, <2>2
<1> QED BY <1>4, <1>5, <1>6, <1>7, <1>8 DEF CacheInv

LEMMA ReadFillInv ==
    ASSUME CacheInv, NEW p \in CachePids, ReadFill(p)
    PROVE  CacheInv'
<1> DEFINE r == call[p].req
           buf == IF call[p].ok THEN call[p].val ELSE Zeroed
           d == overtaken[p] \/ ~call[p].ok
<1>1. /\ Disk!Return(p) /\ r.op = "read" /\ Install(r.sec, buf, d)
      /\ got' = [got EXCEPT ![p] = <<r.sec, buf>>]
      /\ overtaken' = [overtaken EXCEPT ![p] = FALSE]
  BY DEF ReadFill
<1>2. call[p].st = "done"
  BY <1>1, Returned DEF CacheInv
<1>3. /\ call[p].ok \in BOOLEAN /\ (call[p].ok \/ Faults)
      /\ call[p].ok => /\ call[p].val \in Contents(r.sec)
                       /\ ~overtaken[p] => call[p].val = store[r.sec]
  BY <1>1, <1>2 DEF CacheInv, CallsOK, Answered
<1>4. d \in BOOLEAN /\ buf \in Acceptable(r.sec) /\ (~d => buf = store[r.sec])
  BY <1>3 DEF Acceptable
<1>5. /\ overtaken' \in [CachePids -> BOOLEAN] /\ ~overtaken'[p]
      /\ \A q \in CachePids \ {p} : overtaken'[q] = overtaken[q]
  BY <1>1 DEF CacheInv, CacheTypeOK
<1> HIDE DEF buf, d, r
<1>6. /\ got' = [q \in CachePids |-> got'[q]] /\ got'[p] = <<r.sec, buf>>
      /\ \A q \in CachePids \ {p} : got'[q] = got[q]
  BY <1>1 DEF CacheInv, CacheTypeOK
<1>7. ReadsOwnBlock'
  BY <1>4, <1>6 DEF CacheInv, ReadsOwnBlock, Acceptable
<1> QED BY <1>1, <1>4, <1>5, <1>6, <1>7, InstallInv, ZenonT(60) DEF r

LEMMA WriteThroughInv ==
    ASSUME CacheInv, NEW p \in CachePids, WriteThrough(p)
    PROVE  CacheInv'
<1> DEFINE r == call[p].req
<1>1. /\ Disk!Return(p) /\ r.op = "write" /\ Install(r.sec, r.val, ~call[p].ok)
      /\ got' = got /\ overtaken' = overtaken
  BY DEF WriteThrough
<1>2. call[p].st = "done"
  BY <1>1, Returned DEF CacheInv
<1>3. /\ r \in BlockRequests /\ call[p].ok \in BOOLEAN /\ ~overtaken[p]
      /\ call[p].ok => store[r.sec] = r.val
  BY <1>1, <1>2 DEF CacheInv, CallsOK, Answered, CacheTypeOK
<1>4. r.val \in Acceptable(r.sec)
  BY <1>1, <1>3, RequestCases DEF Acceptable
<1>5. /\ overtaken' \in [CachePids -> BOOLEAN] /\ ~overtaken'[p]
      /\ \A q \in CachePids \ {p} : overtaken'[q] = overtaken[q]
  BY <1>1, <1>3 DEF CacheInv, CacheTypeOK
<1>6. got' = [q \in CachePids |-> got'[q]] /\ ReadsOwnBlock'
  BY <1>1 DEF CacheInv, CacheTypeOK, ReadsOwnBlock
<1> QED BY <1>1, <1>3, <1>4, <1>5, <1>6, InstallInv, Zenon

(* The instant a request takes effect: the answered reads of the block a   *)
(* write changes are overtaken, and the writer is the only one to write.   *)
LEMMA DiskStepInv ==
    ASSUME CacheInv, NEW p \in CachePids, DiskStep(p)
    PROVE  CacheInv'
<1> DEFINE r == call[p].req
           wrote == r.op = "write" /\ call'[p].ok
<1>1. /\ call[p].st = "pending" /\ call'[p].st = "done" /\ call'[p].req = r
      /\ call'[p].ok \in BOOLEAN
      /\ \/ r.op = "read" /\ call'[p].ok /\ store' = store /\ call'[p].val = store[r.sec]
         \/ r.op = "write" /\ call'[p].ok /\ store' = [store EXCEPT ![r.sec] = r.val]
         \/ ~call'[p].ok /\ store' = store
      /\ \A q \in CachePids \ {p} : call'[q] = call[q]
      /\ call' = [q \in CachePids |-> call'[q]]
  BY TookEffect DEF CacheInv, DiskStep
<1>2. /\ call'[p].ok \/ Faults
      /\ UNCHANGED <<CACHE, got, doubtful>>
  BY DEF DiskStep
<1>3. r \in BlockRequests /\ ~overtaken[p]
  BY <1>1 DEF CacheInv, CallsOK, CacheTypeOK
<1>4. /\ r.sec \in BlockNos /\ r.op \in {"read", "write"}
      /\ r.op = "write" => r.val \in Contents(r.sec)
  BY <1>3, RequestCases
<1>5. /\ store' \in [BlockNos -> BlockValues]
      /\ \A b \in BlockNos : store'[b] \in Contents(b)
      /\ \A b \in BlockNos : store'[b] = IF wrote /\ b = r.sec THEN r.val ELSE store[b]
  <2>1. \A b \in BlockNos : Contents(b) \subseteq BlockValues
    BY DEF BlockValues
  <2> QED BY <2>1, <1>1, <1>4 DEF CacheInv, CacheTypeOK
<1>6. overtaken' = [q \in CachePids |->
          overtaken[q] \/ /\ call[q].st = "done" /\ call[q].req.op = "read"
                          /\ wrote /\ call[q].req.sec = r.sec]
  BY <1>1 DEF DiskStep, Writing
<1> HIDE DEF r, wrote
<1>7. CacheTypeOK'
  BY <1>1, <1>2, <1>5, <1>6 DEF CacheInv, CacheTypeOK
<1>8. CallsOK'
  <2>1. ASSUME NEW q \in CachePids \ {p}
        PROVE  /\ call'[q].st \in {"idle", "pending", "done"}
               /\ call'[q].st # "idle" => call'[q].req \in BlockRequests
               /\ call'[q].st = "done" => call'[q].ok \in BOOLEAN /\ (call'[q].ok \/ Faults)
               /\ overtaken'[q] => call'[q].st = "done" /\ call'[q].req.op = "read"
    BY <1>1, <1>6 DEF CacheInv, CallsOK, CacheTypeOK
  <2>2. ASSUME NEW q \in CachePids \ {p}, call'[q].st = "done" PROVE Answered(q)'
    <3>1. call'[q] = call[q] /\ call[q].req \in BlockRequests /\ Answered(q)
      BY <1>1, <2>2 DEF CacheInv, CallsOK
    <3>2. call[q].req.sec \in BlockNos /\ call[q].req.op \in {"read", "write"}
      BY <3>1, RequestCases
    <3>3. CASE call[q].req.op = "read"
      <4>1. ASSUME ~overtaken'[q]
            PROVE  ~overtaken[q] /\ ~(wrote /\ call[q].req.sec = r.sec)
        BY <1>6, <2>2, <3>1, <3>3, <4>1, Zenon
      <4>2. ASSUME ~overtaken'[q] PROVE store'[call[q].req.sec] = store[call[q].req.sec]
        BY <1>5, <3>2, <4>1, <4>2, Zenon
      <4>3. call[q].ok => /\ call[q].val \in Contents(call[q].req.sec)
                          /\ ~overtaken[q] => call[q].val = store[call[q].req.sec]
        BY <3>1, <3>3, Zenon DEF Answered
      <4> QED BY <3>1, <3>3, <4>1, <4>2, <4>3, Zenon DEF Answered
    <3>4. CASE call[q].req.op = "write"
      <4>1. Writing(q) /\ (wrote => Writing(p))
        BY <3>1, <3>4, <2>2, <1>1 DEF Writing, wrote, r
      <4>2. ~wrote
        BY <4>1 DEF CacheInv, OneWriter
      <4> QED BY <4>2, <3>1, <3>2, <3>4, <1>5 DEF Answered
    <3> QED BY <3>2, <3>3, <3>4
  <2>3. Answered(p)'
    <3>1. CASE r.op = "read"
      BY <3>1, <1>1, <1>4 DEF Answered, r, CacheInv, CacheTypeOK
    <3>2. CASE r.op = "write"
      BY <3>2, <1>1, <1>4, <1>5 DEF Answered, wrote
    <3> QED BY <3>1, <3>2, <1>4
  <2>4. ~overtaken'[p]
    BY <1>1, <1>3, <1>6, Zenon
  <2>5. /\ call'[p].st = "done" /\ call'[p].req \in BlockRequests
        /\ call'[p].ok \in BOOLEAN /\ (call'[p].ok \/ Faults)
    BY <1>1, <1>2, <1>3
  <2> QED BY <2>1, <2>2, <2>3, <2>4, <2>5 DEF CallsOK
<1>9. OneWriter'
  BY <1>1 DEF CacheInv, OneWriter, Writing, r
<1>10. EntriesOK' /\ ReadsOwnBlock'
  BY <1>2 DEF CacheInv, EntriesOK, ReadsOwnBlock
<1>11. Coherent'
  <2> SUFFICES ASSUME NEW c \in BlockNos, Cached(c)', c \notin doubtful'
               PROVE  \/ CACHE'[slot(c)].data = store'[c]
                      \/ \E q \in CachePids : (/\ Writing(q) /\ call[q].req.sec = c
                                               /\ call[q].st = "done" /\ call[q].ok)'
    BY DEF Coherent, slot
  <2>1. Cached(c) /\ c \notin doubtful /\ CACHE'[slot(c)] = CACHE[slot(c)]
    BY <1>2 DEF Cached
  <2>2. CASE wrote /\ c = r.sec
    <3>1. (Writing(p) /\ call[p].req.sec = c /\ call[p].st = "done" /\ call[p].ok)'
      BY <2>2, <1>1 DEF Writing, wrote
    <3> QED BY <3>1
  <2>3. CASE ~(wrote /\ c = r.sec)
    <3>1. store'[c] = store[c]
      BY <2>3, <1>5
    <3>2. ASSUME NEW q \in CachePids, Writing(q) /\ call[q].req.sec = c,
                 call[q].st = "done" /\ call[q].ok
          PROVE  (Writing(q) /\ call[q].req.sec = c /\ call[q].st = "done" /\ call[q].ok)'
      <4>1. q # p
        BY <3>2, <1>1
      <4> QED BY <4>1, <3>2, <1>1 DEF Writing
    <3> QED BY <2>1, <3>1, <3>2 DEF CacheInv, Coherent
  <2> QED BY <2>2, <2>3
<1> QED BY <1>7, <1>8, <1>9, <1>10, <1>11 DEF CacheInv

LEMMA NextCacheInv == CacheInv /\ [CacheNext]_cache_vars => CacheInv'
<1> SUFFICES ASSUME CacheInv, [CacheNext]_cache_vars PROVE CacheInv'
  OBVIOUS
<1>1. CASE UNCHANGED cache_vars
  <2>1. UNCHANGED <<store, call, CACHE, got, overtaken, doubtful>>
    BY <1>1 DEF cache_vars, history
  <2>2. CacheTypeOK' /\ EntriesOK' /\ ReadsOwnBlock'
    BY <2>1 DEF CacheInv, CacheTypeOK, EntriesOK, ReadsOwnBlock
  <2>3. CallsOK' /\ OneWriter'
    BY <2>1 DEF CacheInv, CallsOK, Answered, OneWriter, Writing
  <2>4. Coherent'
    BY <2>1 DEF CacheInv, Coherent, Cached, Writing
  <2> QED BY <2>2, <2>3, <2>4 DEF CacheInv
<1> QED BY <1>1, ReadHitInv, ReadMissInv, WriteStartInv, ReadFillInv, WriteThroughInv,
           DiskStepInv DEF CacheNext

-----------------------------------------------------------------------------

(* Every entry of the cache and every request in flight is accounted for,  *)
(* in every behaviour of read_block and write_block.                       *)
THEOREM CacheInvariant == CacheSpec => []CacheInv
BY InitCacheInv, NextCacheInv, PTL DEF CacheSpec

(* read_block returns contents of the block it was asked for, and what is  *)
(* cached is what is on the disk, except while a write is on its way back  *)
(* and where a request failed or a write overtook a read.                  *)
THEOREM CacheIsTransparent == CacheSpec => []CacheTransparent
<1>1. CacheInv => CacheTransparent
  BY DEF CacheInv, CacheTransparent
<1> QED BY <1>1, CacheInvariant, PTL
=============================================================================
