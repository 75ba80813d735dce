------------------------ MODULE SyscallDispatchProofs ------------------------
(***************************************************************************)
(* OneInHandler, FramesAreOwn and DeferredIsOwn, for any set of processes. *)
(***************************************************************************)
EXTENDS SyscallDispatch, TLAPS

(* Only the process on the core, with interrupts off, is between the entry *)
(* and a park.                                                             *)
Solo ==
    \A p \in Callers : pc[p] \in {"perform", "settle", "defer"} => p = CURRENT /\ ~irq_on

(* The handler starts with the global pointing at its caller's frame.      *)
FrameSet == \A p \in Callers : pc[p] = "perform" => CURRENT_TRAP_FRAME = p

(* The walk over the globals starts at the first, and a parked operation   *)
(* is the one the walk has reached.                                        *)
Walk ==
    \A p \in Callers :
        /\ pc[p] \in {"perform", "disk", "settle"} => at[p] = 1
        /\ pc[p] \in Deferred => pc[p] # "exit" /\ Order[at[p]] = pc[p]

(* At most one request other than exit is recorded: that of the process on *)
(* the core, which has yet to come to it.                                  *)
Recorded ==
    \A d \in Deferred \ {"exit"} : PENDING[d] # 0 =>
        /\ PENDING[d] = CURRENT
        /\ pc[CURRENT] \in {"settle", "defer"}
        /\ \A k \in 1 .. 6 : Order[k] = d => at[CURRENT] <= k
        /\ \A e \in Deferred \ {"exit"} : PENDING[e] # 0 => e = d

IInv ==
    /\ DispatchTypeOK /\ OneInHandler /\ FramesAreOwn
    /\ Solo /\ FrameSet /\ Walk /\ Recorded

LEMMA OrderFacts ==
    /\ DOMAIN Order = 1 .. 6 /\ Len(Order) = 6
    /\ Order[1] = "exec" /\ Order[2] = "wait" /\ Order[3] = "read_line"
    /\ Order[4] = "pipe_read" /\ Order[5] = "signal" /\ Order[6] = "exit"
BY DEF Order

LEMMA InitIInv == DispatchInit => IInv
<1> SUFFICES ASSUME DispatchInit PROVE IInv
  OBVIOUS
<1>1. DispatchTypeOK
  BY OrderFacts, CallersAssumption DEF DispatchInit, DispatchTypeOK, Results, Kinds, Deferred
<1>2. OneInHandler /\ FramesAreOwn
  BY DEF DispatchInit, OneInHandler, FramesAreOwn
<1>3. Solo /\ FrameSet /\ Walk /\ Recorded
  BY DEF DispatchInit, Solo, FrameSet, Walk, Recorded, Deferred
<1> QED
  BY <1>1, <1>2, <1>3 DEF IInv

LEMMA ScheduleIInv ==
    ASSUME IInv, schedule
    PROVE  IInv'
<1>1. DispatchTypeOK'
  BY OrderFacts, CallsAssumption, CallersAssumption DEF IInv, DispatchTypeOK, schedule, proc_vars, Results, Kinds, Deferred, Walk, Solo, FrameSet
<1>2. OneInHandler'
  BY DEF IInv, DispatchTypeOK, schedule, proc_vars, OneInHandler, Deferred, Solo
<1>3. FramesAreOwn'
  BY DEF IInv, DispatchTypeOK, schedule, proc_vars, FramesAreOwn, FrameSet
<1>4. Solo'
  BY DEF IInv, DispatchTypeOK, schedule, proc_vars, Solo, Deferred
<1>5. FrameSet'
  BY DEF IInv, DispatchTypeOK, schedule, proc_vars, FrameSet, Solo, Deferred
<1>6. Walk'
  BY OrderFacts DEF IInv, DispatchTypeOK, schedule, proc_vars, Walk, Deferred
<1>7. Recorded'
  BY OrderFacts DEF IInv, DispatchTypeOK, schedule, proc_vars, Recorded, Solo, Walk, Deferred
<1> QED
  BY <1>1, <1>2, <1>3, <1>4, <1>5, <1>6, <1>7 DEF IInv

LEMMA EntryIInv ==
    ASSUME IInv, NEW p \in Callers, NEW c \in Calls, syscall_dispatch(p, c)
    PROVE  IInv'
<1>1. DispatchTypeOK'
  <2> USE DEF IInv, DispatchTypeOK, syscall_dispatch, request
  <2>1. pc' \in [Callers -> {"user", "perform", "disk", "settle", "defer", "stopped",
                         "dead"} \cup Deferred]
    BY ZenonT(60)
  <2>2. result' \in Results /\ dstate' \in {"Validating", "Executing"}
    BY DEF Results
  <2>3. call' \in [Callers -> Kinds] /\ at' \in [Callers -> 1 .. Len(Order)]
    BY CallsAssumption, OrderFacts
  <2> QED
    BY <2>1, <2>2, <2>3, Zenon
<1>2. OneInHandler'
  BY DEF IInv, DispatchTypeOK, syscall_dispatch, request, proc_vars, OneInHandler, Deferred, Solo
<1>3. FramesAreOwn'
  BY DEF IInv, DispatchTypeOK, syscall_dispatch, request, proc_vars, FramesAreOwn, FrameSet
<1>4. Solo'
  BY DEF IInv, DispatchTypeOK, syscall_dispatch, request, proc_vars, Solo, Deferred
<1>5. FrameSet'
  BY DEF IInv, DispatchTypeOK, syscall_dispatch, request, proc_vars, FrameSet, Solo, Deferred
<1>6. Walk'
  BY OrderFacts DEF IInv, DispatchTypeOK, syscall_dispatch, request, proc_vars, Walk, Deferred
<1>7. Recorded'
  BY OrderFacts DEF IInv, DispatchTypeOK, syscall_dispatch, request, proc_vars, Recorded, Solo, Walk, Deferred
<1> QED
  BY <1>1, <1>2, <1>3, <1>4, <1>5, <1>6, <1>7 DEF IInv

LEMMA PerformIInv ==
    ASSUME IInv, NEW p \in Callers, perform_syscall(p)
    PROVE  IInv'
<1>1. DispatchTypeOK'
  <2> USE DEF IInv, DispatchTypeOK, perform_syscall, Executed
  <2>1. pc' \in [Callers -> {"user", "perform", "disk", "settle", "defer", "stopped",
                         "dead"} \cup Deferred]
    BY ZenonT(60)
  <2>2. result' \in Results /\ dstate' \in {"Validating", "Executing"}
    <3>1. <<p, "deferred">> \in Results /\ <<p, call[p]>> \in Results
      BY DEF Results
    <3>2. \/ dstate' = "Executing" /\ result' = result
          \/ dstate' = "Validating" /\ result' \in {<<p, "deferred">>, <<p, call[p]>>}
      BY DEF OneInHandler
    <3> QED
      BY <3>1, <3>2, ZenonT(60)
  <2>3. args' \in [Callers -> Callers]
    BY DEF FrameSet
  <2>4. irq_on' \in BOOLEAN
    BY Zenon
  <2>5. PENDING' \in [Deferred -> Callers \cup {0}]
    <3>1. PENDING' = PENDING \/ PENDING' = [PENDING EXCEPT ![call[p]] = p]
      OBVIOUS
    <3> QED
      BY <3>1, ZenonT(60)
  <2> QED
    BY <2>1, <2>2, <2>3, <2>4, <2>5
<1>2. OneInHandler'
  <2> USE DEF IInv, DispatchTypeOK, OneInHandler
  <2>1. \A q \in Callers : pc[q] \in {"perform", "disk"} => q = p
    BY DEF perform_syscall
  <2>2. CASE dstate' = "Validating" /\ pc' = [pc EXCEPT ![p] = "settle"]
    BY <2>1, <2>2
  <2>3. CASE dstate' = "Executing" /\ pc' = [pc EXCEPT ![p] = "disk"]
    BY <2>1, <2>3
  <2>4. dstate = "Executing"
    BY DEF perform_syscall
  <2> QED
    BY <2>2, <2>3, <2>4 DEF perform_syscall, Executed
<1>3. FramesAreOwn'
  BY DEF IInv, DispatchTypeOK, perform_syscall, Executed, proc_vars, FramesAreOwn, FrameSet
<1>4. Solo'
  BY DEF IInv, DispatchTypeOK, perform_syscall, Executed, proc_vars, Solo, Deferred
<1>5. FrameSet'
  BY DEF IInv, DispatchTypeOK, perform_syscall, Executed, proc_vars, FrameSet, Solo, Deferred
<1>6. Walk'
  BY OrderFacts DEF IInv, DispatchTypeOK, perform_syscall, Executed, proc_vars, Walk, Deferred
<1>7. Recorded'
  BY OrderFacts DEF IInv, DispatchTypeOK, perform_syscall, Executed, proc_vars, Recorded, Solo, Walk, Deferred
<1> QED
  BY <1>1, <1>2, <1>3, <1>4, <1>5, <1>6, <1>7 DEF IInv

LEMMA DiskDoneIInv ==
    ASSUME IInv, NEW p \in Callers, DiskDone(p)
    PROVE  IInv'
<1>1. DispatchTypeOK'
  BY OrderFacts, CallsAssumption, CallersAssumption, ZenonT(60) DEF IInv, DispatchTypeOK, DiskDone, Executed, proc_vars, Results, Kinds, Deferred, Walk, Solo, FrameSet
<1>2. OneInHandler'
  BY DEF IInv, DispatchTypeOK, DiskDone, Executed, proc_vars, OneInHandler, Deferred, Solo
<1>3. FramesAreOwn'
  BY DEF IInv, DispatchTypeOK, DiskDone, Executed, proc_vars, FramesAreOwn, FrameSet
<1>4. Solo'
  BY DEF IInv, DispatchTypeOK, DiskDone, Executed, proc_vars, Solo, Deferred
<1>5. FrameSet'
  BY DEF IInv, DispatchTypeOK, DiskDone, Executed, proc_vars, FrameSet, Solo, Deferred
<1>6. Walk'
  BY OrderFacts DEF IInv, DispatchTypeOK, DiskDone, Executed, proc_vars, Walk, Deferred
<1>7. Recorded'
  BY OrderFacts DEF IInv, DispatchTypeOK, DiskDone, Executed, proc_vars, Recorded, Solo, Walk, Deferred
<1> QED
  BY <1>1, <1>2, <1>3, <1>4, <1>5, <1>6, <1>7 DEF IInv

LEMMA TakeResultIInv ==
    ASSUME IInv, NEW p \in Callers, TakeResult(p)
    PROVE  IInv'
<1>1. DispatchTypeOK'
  BY OrderFacts, CallsAssumption, CallersAssumption DEF IInv, DispatchTypeOK, TakeResult, proc_vars, Results, Kinds, Deferred, Walk, Solo, FrameSet
<1>2. OneInHandler'
  BY DEF IInv, DispatchTypeOK, TakeResult, proc_vars, OneInHandler, Deferred, Solo
<1>3. FramesAreOwn'
  BY DEF IInv, DispatchTypeOK, TakeResult, proc_vars, FramesAreOwn, FrameSet
<1>4. Solo'
  BY DEF IInv, DispatchTypeOK, TakeResult, proc_vars, Solo, Deferred
<1>5. FrameSet'
  BY DEF IInv, DispatchTypeOK, TakeResult, proc_vars, FrameSet, Solo, Deferred
<1>6. Walk'
  BY OrderFacts DEF IInv, DispatchTypeOK, TakeResult, proc_vars, Walk, Deferred
<1>7. Recorded'
  BY OrderFacts DEF IInv, DispatchTypeOK, TakeResult, proc_vars, Recorded, Solo, Walk, Deferred
<1> QED
  BY <1>1, <1>2, <1>3, <1>4, <1>5, <1>6, <1>7 DEF IInv

LEMMA NothingPendingIInv ==
    ASSUME IInv, NEW p \in Callers, NothingPending(p)
    PROVE  IInv'
<1>1. DispatchTypeOK'
  <2> USE DEF IInv, DispatchTypeOK, NothingPending
  <2>1. at' \in [Callers -> 1 .. Len(Order)]
    BY OrderFacts
  <2>2. pc' \in [Callers -> {"user", "perform", "disk", "settle", "defer", "stopped",
                         "dead"} \cup Deferred]
    BY ZenonT(60)
  <2> QED
    BY <2>1, <2>2, Zenon
<1>2. OneInHandler'
  <2>1. \A q \in Callers : pc'[q] \in {"perform", "disk"} <=> pc[q] \in {"perform", "disk"}
    BY DEF IInv, DispatchTypeOK, NothingPending
  <2>2. dstate' = dstate
    BY DEF NothingPending
  <2> QED
    BY <2>1, <2>2 DEF IInv, OneInHandler
<1>3. FramesAreOwn'
  BY DEF IInv, DispatchTypeOK, NothingPending, proc_vars, FramesAreOwn, FrameSet
<1>4. Solo'
  BY DEF IInv, DispatchTypeOK, NothingPending, proc_vars, Solo, Deferred
<1>5. FrameSet'
  BY DEF IInv, DispatchTypeOK, NothingPending, proc_vars, FrameSet, Solo, Deferred
<1>6. Walk'
  BY OrderFacts DEF IInv, DispatchTypeOK, NothingPending, proc_vars, Walk, Deferred
<1>7. Recorded'
  BY OrderFacts DEF IInv, DispatchTypeOK, NothingPending, proc_vars, Recorded, Solo, Walk, Deferred
<1> QED
  BY <1>1, <1>2, <1>3, <1>4, <1>5, <1>6, <1>7 DEF IInv

LEMMA HonorPendingIInv ==
    ASSUME IInv, NEW p \in Callers, HonorPending(p)
    PROVE  IInv'
<1>1. DispatchTypeOK'
  BY OrderFacts, CallsAssumption, CallersAssumption DEF IInv, DispatchTypeOK, HonorPending, proc_vars, Results, Kinds, Deferred, Walk, Solo, FrameSet
<1>2. OneInHandler'
  BY DEF IInv, DispatchTypeOK, HonorPending, proc_vars, OneInHandler, Deferred, Solo
<1>3. FramesAreOwn'
  BY DEF IInv, DispatchTypeOK, HonorPending, proc_vars, FramesAreOwn, FrameSet
<1>4. Solo'
  BY DEF IInv, DispatchTypeOK, HonorPending, proc_vars, Solo, Deferred
<1>5. FrameSet'
  BY DEF IInv, DispatchTypeOK, HonorPending, proc_vars, FrameSet, Solo, Deferred
<1>6. Walk'
  BY OrderFacts DEF IInv, DispatchTypeOK, HonorPending, proc_vars, Walk, Deferred
<1>7. Recorded'
  BY OrderFacts DEF IInv, DispatchTypeOK, HonorPending, proc_vars, Recorded, Solo, Walk, Deferred
<1> QED
  BY <1>1, <1>2, <1>3, <1>4, <1>5, <1>6, <1>7 DEF IInv

LEMMA ServedIInv ==
    ASSUME IInv, NEW p \in Callers, Served(p)
    PROVE  IInv'
<1>1. DispatchTypeOK'
  <2> USE DEF IInv, DispatchTypeOK, Served
  <2>1. at[p] # 6
    BY OrderFacts DEF Walk
  <2>2. at' \in [Callers -> 1 .. Len(Order)]
    BY <2>1, OrderFacts
  <2>3. rax' \in [Callers -> Results]
    BY DEF Results, Kinds, Deferred
  <2>4. pc' \in [Callers -> {"user", "perform", "disk", "settle", "defer", "stopped",
                         "dead"} \cup Deferred]
    OBVIOUS
  <2> QED
    BY <2>2, <2>3, <2>4, Zenon
<1>2. OneInHandler'
  BY DEF IInv, DispatchTypeOK, Served, proc_vars, OneInHandler, Deferred, Solo
<1>3. FramesAreOwn'
  BY DEF IInv, DispatchTypeOK, Served, proc_vars, FramesAreOwn, FrameSet
<1>4. Solo'
  BY DEF IInv, DispatchTypeOK, Served, proc_vars, Solo, Deferred
<1>5. FrameSet'
  BY DEF IInv, DispatchTypeOK, Served, proc_vars, FrameSet, Solo, Deferred
<1>6. Walk'
  BY OrderFacts DEF IInv, DispatchTypeOK, Served, proc_vars, Walk, Deferred
<1>7. Recorded'
  BY OrderFacts DEF IInv, DispatchTypeOK, Served, proc_vars, Recorded, Solo, Walk, Deferred
<1> QED
  BY <1>1, <1>2, <1>3, <1>4, <1>5, <1>6, <1>7 DEF IInv

LEMMA SignalIInv ==
    ASSUME IInv, NEW p \in Callers, maybe_deliver_signal(p)
    PROVE  IInv'
<1>0. \/ pc' = pc
      \/ /\ pc[p] \in {"defer", "stopped"}
         /\ \E next \in {"dead", "stopped", "defer"} : pc' = [pc EXCEPT ![p] = next]
  BY DEF maybe_deliver_signal
<1>1. DispatchTypeOK'
  <2> USE DEF IInv, DispatchTypeOK
  <2>1. at' \in [Callers -> 1 .. Len(Order)]
    <3>1. Order[at[p]] = "signal" => at[p] # 6
      BY OrderFacts
    <3> QED
      BY <3>1, OrderFacts DEF maybe_deliver_signal
  <2>2. pc' \in [Callers -> {"user", "perform", "disk", "settle", "defer", "stopped",
                         "dead"} \cup Deferred]
    BY <1>0, ZenonT(60)
  <2> QED
    BY <2>1, <2>2, Zenon DEF maybe_deliver_signal
<1>2. OneInHandler'
  <2>1. \A q \in Callers : pc'[q] \in {"perform", "disk"} <=> pc[q] \in {"perform", "disk"}
    BY <1>0 DEF IInv, DispatchTypeOK
  <2> QED
    BY <2>1 DEF IInv, OneInHandler, maybe_deliver_signal
<1>3. FramesAreOwn'
  BY DEF IInv, DispatchTypeOK, maybe_deliver_signal, proc_vars, FramesAreOwn, FrameSet
<1>4. Solo'
  BY DEF IInv, DispatchTypeOK, maybe_deliver_signal, proc_vars, Solo, Deferred
<1>5. FrameSet'
  BY DEF IInv, DispatchTypeOK, maybe_deliver_signal, proc_vars, FrameSet, Solo, Deferred
<1>6. Walk'
  BY OrderFacts DEF IInv, DispatchTypeOK, maybe_deliver_signal, proc_vars, Walk, Deferred
<1>7. Recorded'
  BY OrderFacts DEF IInv, DispatchTypeOK, maybe_deliver_signal, proc_vars, Recorded, Solo, Walk, Deferred
<1> QED
  BY <1>1, <1>2, <1>3, <1>4, <1>5, <1>6, <1>7 DEF IInv

LEMMA NextIInv == IInv /\ [DispatchNext]_dispatch_vars => IInv'
<1> SUFFICES ASSUME IInv, [DispatchNext]_dispatch_vars PROVE IInv'
  OBVIOUS
<1>1. CASE UNCHANGED dispatch_vars
  BY <1>1 DEF IInv, DispatchTypeOK, OneInHandler, FramesAreOwn, Solo, FrameSet, Walk, Recorded,
              dispatch_vars, proc_vars
<1>2. CASE schedule
  BY <1>2, ScheduleIInv
<1>3. CASE \E p \in Callers, c \in Calls : syscall_dispatch(p, c)
  BY <1>3, EntryIInv
<1>4. CASE \E p \in Callers : \/ perform_syscall(p) \/ DiskDone(p) \/ TakeResult(p)
                              \/ NothingPending(p) \/ HonorPending(p) \/ Served(p)
                              \/ maybe_deliver_signal(p)
  BY <1>4, PerformIInv, DiskDoneIInv, TakeResultIInv, NothingPendingIInv,
     HonorPendingIInv, ServedIInv, SignalIInv
<1> QED
  BY <1>1, <1>2, <1>3, <1>4 DEF DispatchNext

(* The inductive invariant: one process at a time is between the entry of  *)
(* syscall_dispatch and a park, and what it has recorded it takes back     *)
(* before it parks.                                                        *)
THEOREM DispatchInvariant == DispatchSpec => []IInv
BY InitIInv, NextIInv, PTL DEF DispatchSpec

(* The shared dispatcher is never entered by a second process and never    *)
(* left in $Executing, whatever calls are made and wherever they park.     *)
THEOREM DispatcherSettles == DispatchSpec => []OneInHandler
<1>1. IInv => OneInHandler
  BY DEF IInv
<1> QED
  BY <1>1, DispatchInvariant, PTL

(* No syscall reads its arguments from, or has exec write its registers    *)
(* to, another process's trap frame.                                       *)
THEOREM FramesNeverMixed == DispatchSpec => []FramesAreOwn
<1>1. IInv => FramesAreOwn
  BY DEF IInv
<1> QED
  BY <1>1, DispatchInvariant, PTL

(* A deferred call is never carried out by another process.                *)
THEOREM DeferralIsSound == DispatchSpec => DeferredIsOwn
<1>1. IInv /\ [DispatchNext]_dispatch_vars => [DeferStep]_dispatch_vars
  <2> SUFFICES ASSUME IInv, DispatchNext, NEW p \in Callers,
                      pc[p] = "defer", pc'[p] \in Deferred
               PROVE  PENDING[pc'[p]] = p
    BY DEF DeferStep
  <2>1. pc[p] \notin Deferred /\ CURRENT = p
    BY DEF IInv, Solo, Deferred
  <2>2. HonorPending(p)
    <3>1. ~schedule
      BY <2>1 DEF schedule, proc_vars
    <3>2. ASSUME NEW q \in Callers, NEW c \in Calls, syscall_dispatch(q, c) PROVE FALSE
      BY <2>1, <3>2 DEF syscall_dispatch
    <3>3. ASSUME NEW q \in Callers, perform_syscall(q) \/ DiskDone(q) \/ TakeResult(q)
          PROVE FALSE
      BY <2>1, <3>3 DEF perform_syscall, DiskDone, TakeResult, Deferred
    <3>4. ASSUME NEW q \in Callers, Served(q) PROVE FALSE
      BY <2>1, <3>4 DEF Served
    <3>5. ASSUME NEW q \in Callers, NothingPending(q) PROVE FALSE
      BY <2>1, <3>5 DEF NothingPending, IInv, DispatchTypeOK, Deferred
    <3>6. ASSUME NEW q \in Callers, maybe_deliver_signal(q) PROVE FALSE
      BY <2>1, <3>6 DEF maybe_deliver_signal, IInv, DispatchTypeOK, Deferred
    <3>7. ASSUME NEW q \in Callers, HonorPending(q) PROVE HonorPending(p)
      BY <2>1, <3>7 DEF HonorPending
    <3> QED
      BY <3>1, <3>2, <3>3, <3>4, <3>5, <3>6, <3>7 DEF DispatchNext
  <2>3. pc'[p] = Order[at[p]] /\ pc'[p] # "exit"
    BY <2>2 DEF HonorPending, IInv, DispatchTypeOK, Deferred
  <2> QED
    BY <2>1, <2>2, <2>3 DEF HonorPending, IInv, Recorded
<1> QED
  BY <1>1, DispatchInvariant, PTL DEF DispatchSpec, DeferredIsOwn

(* Together: every process is served by the dispatcher alone, from its own *)
(* trap frame, at every point of syscall_dispatch.                         *)
THEOREM DispatchIsSound == DispatchSpec => []DispatchSound
<1>1. IInv => DispatchSound
  BY DEF IInv, DispatchSound
<1> QED
  BY <1>1, DispatchInvariant, PTL
=============================================================================
