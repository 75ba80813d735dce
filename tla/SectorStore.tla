---------------------------- MODULE SectorStore ----------------------------
(***************************************************************************)
(* What read_sector and write_sector promise their callers: each call      *)
(* takes effect at one instant between its invocation and its return, on   *)
(* its own sector, and returns what it found there.  A call may fail, and  *)
(* then has no effect.                                                     *)
(***************************************************************************)
CONSTANTS Pids, Sectors, Values

VARIABLES
    store,  \* what the disk holds
    call,   \* the call each process is in
    ret     \* what each process's last call returned, <<>> during a call

store_vars == <<store, call, ret>>

Idle == [st |-> "idle"]

Requests ==
    [op : {"read"}, sec : Sectors] \cup [op : {"write"}, sec : Sectors, val : Values]

Pending(r) == [st |-> "pending", req |-> r]
Done(r, ok, v) == [st |-> "done", req |-> r, ok |-> ok, val |-> v]

(* What a caller sees: the flag, and the data of a read that succeeded.    *)
Answer(r, ok, v) ==
    IF ok /\ r.op = "read" THEN <<ok, v>> ELSE <<ok>>

StoreInit ==
    /\ store \in [Sectors -> Values]
    /\ call = [p \in Pids |-> Idle]
    /\ ret = [p \in Pids |-> <<>>]

Invoke(p) ==
    /\ call[p].st = "idle"
    /\ \E r \in Requests : call' = [call EXCEPT ![p] = Pending(r)]
    /\ ret' = [ret EXCEPT ![p] = <<>>]
    /\ UNCHANGED store

(* The instant a call takes effect.                                        *)
TakeEffect(p) ==
    /\ call[p].st = "pending"
    /\ LET r == call[p].req IN
       \/ /\ r.op = "read"
          /\ call' = [call EXCEPT ![p] = Done(r, TRUE, store[r.sec])]
          /\ UNCHANGED store
       \/ /\ r.op = "write"
          /\ call' = [call EXCEPT ![p] = Done(r, TRUE, r.val)]
          /\ store' = [store EXCEPT ![r.sec] = r.val]
       \/ /\ \E v \in Values : call' = [call EXCEPT ![p] = Done(r, FALSE, v)]
          /\ UNCHANGED store
    /\ UNCHANGED ret

Return(p) ==
    /\ call[p].st = "done"
    /\ ret' = [ret EXCEPT ![p] = Answer(call[p].req, call[p].ok, call[p].val)]
    /\ call' = [call EXCEPT ![p] = Idle]
    /\ UNCHANGED store

StoreNext == \E p \in Pids : Invoke(p) \/ TakeEffect(p) \/ Return(p)

StoreSpec == StoreInit /\ [][StoreNext]_store_vars
=============================================================================
