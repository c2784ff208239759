-------------------------- MODULE ThreadCall_proofs --------------------------
(***************************************************************************)
(* The pool of callout threads strands no call, whatever the number of     *)
(* entries, processors and threads: the first half, where only the         *)
(* counters matter.  Every entry is in one place, so that none is lost and *)
(* a cancel unschedules: the second half, which rests on the queues of     *)
(* ThreadCall_queues.                                                      *)
(***************************************************************************)
EXTENDS ThreadCall_queues

\* The counters have their types.
Counters ==
    /\ pending_call_num \in Int
    /\ active_call_num \in Nat /\ call_thread_num \in Nat
    /\ ready \in Nat /\ waiters \in Nat
    /\ activate \in BOOLEAN /\ intrWake \in BOOLEAN
    /\ waking \in [WakeKinds -> Nat]

\* The inductive invariant: the counters agree, and no call is stranded.
PoolInv == Counters /\ ThreadsAccounted /\ NoCallStranded

-----------------------------------------------------------------------------
\* A step that leaves the pool, the wakeups and the interrupt's place alone and
\* adds no pending call keeps the invariant.
LEMMA FewerCalls ==
    ASSUME PoolInv, UNCHANGED <<poolVars, waking, intr, intrWake>>,
           pending_call_num' \in Int, pending_call_num' <= pending_call_num
    PROVE  PoolInv'
<1>1. /\ UNCHANGED <<active_call_num, call_thread_num, ready, waiters, activate>>
      /\ UNCHANGED <<waking, intr, intrWake>>
  BY DEF poolVars
<1>2. Counters' /\ ThreadsAccounted'
  BY <1>1 DEF PoolInv, Counters, ThreadsAccounted
<1>3. WakesDue' = WakesDue /\ WakesDue \in Nat
  BY <1>1 DEF WakesDue, InWake, PoolInv, Counters, WakeKinds
<1>4. ActivateDue' = ActivateDue
  BY <1>1 DEF ActivateDue
<1>5. MoreThreads(pending_call_num)' => MoreThreads(pending_call_num)
  <2>1. /\ active_call_num \in Nat /\ call_thread_num \in Nat
        /\ pending_call_num \in Int
    BY DEF PoolInv, Counters
  <2>2. ASSUME NEW n \in Int, n <= pending_call_num,
               call_thread_num < active_call_num + n
        PROVE  call_thread_num < active_call_num + pending_call_num
    BY <2>1, <2>2
  <2>3. QED
    BY <1>1, <2>2 DEF MoreThreads
<1>6. NoCallStranded'
  <2>1. (pending_call_num <= ready + WakesDue \/ waiters = 0)'
    BY <1>1, <1>3 DEF NoCallStranded, PoolInv, Counters
  <2>2. (call_thread_num < active_call_num + pending_call_num => ActivateDue)'
    BY <1>4, <1>5 DEF MoreThreads, NoCallStranded, PoolInv
  <2>3. QED
    BY <2>1, <2>2 DEF NoCallStranded
<1>7. QED
  BY <1>2, <1>6 DEF PoolInv

\* An interrupt that is not at its wakeup owes none.
LEMMA IntrMoves ==
    ASSUME PoolInv, UNCHANGED <<poolVars, waking, intrWake, pending_call_num>>,
           intr # "wake", intr' # "wake"
    PROVE  PoolInv'
BY DEF PoolInv, Counters, ThreadsAccounted, NoCallStranded, WakesDue, ActivateDue,
       InWake, MoreThreads, poolVars, WakeKinds

\* A new pending call comes with a wakeup, for the activate thread too if there
\* are more calls than threads.
LEMMA PendKeeps ==
    ASSUME PoolInv, NEW e, PendAndWake(e), UNCHANGED <<poolVars, intr, intrWake>>
    PROVE  PoolInv'
<1> USE DEF PoolInv, Counters, ThreadsAccounted, NoCallStranded, WakesDue,
            ActivateDue, InWake, MoreThreads, poolVars, WakeKinds, PendAndWake
<1>1. CASE MoreThreads(pending_call_num + 1)
  BY <1>1
<1>2. CASE ~MoreThreads(pending_call_num + 1)
  BY <1>2
<1>3. QED
  BY <1>1, <1>2

\* A wakeup turns a sleeping thread into one on its way to the lock; if none
\* sleeps there is nothing it could have done.
LEMMA WakeKeeps ==
    ASSUME PoolInv, _call_thread_wake
    PROVE  PoolInv'
<1>1. PICK kind \in WakeKinds :
        /\ waking[kind] > 0
        /\ waking' = [waking EXCEPT ![kind] = @ - 1]
        /\ WakeOne
        /\ activate' = (activate \/ kind = "both")
        /\ UNCHANGED <<pending_call_num, active_call_num, call_thread_num, intr, intrWake>>
  BY DEF _call_thread_wake, queueVars, intrVars
<1>2. WakesDue \in Nat /\ WakesDue' = WakesDue - 1 /\ waking' \in [WakeKinds -> Nat]
  BY <1>1 DEF PoolInv, Counters, WakesDue, InWake, WakeKinds
<1>3. ActivateDue => ActivateDue'
  BY <1>1 DEF PoolInv, Counters, ActivateDue, WakeKinds
<1>4. MoreThreads(pending_call_num)' => MoreThreads(pending_call_num)
  BY <1>1 DEF MoreThreads
<1>5. Counters' /\ ThreadsAccounted'
  BY <1>1, <1>2 DEF PoolInv, Counters, ThreadsAccounted, WakeOne
<1>6. pending_call_num' <= ready' + WakesDue' \/ waiters' = 0
  BY <1>1, <1>2 DEF PoolInv, Counters, NoCallStranded, WakeOne
<1>7. QED
  BY <1>3, <1>4, <1>5, <1>6 DEF PoolInv, NoCallStranded, MoreThreads

-----------------------------------------------------------------------------
(* The interrupt.                                                          *)

LEMMA InterruptKeeps ==
    ASSUME PoolInv, Interrupt
    PROVE  PoolInv'
<1>1. CASE clock_interrupt
  BY <1>1, IntrMoves DEF clock_interrupt, queueVars
<1>2. CASE _delayed_call_interrupt
  BY <1>2, IntrMoves DEF _delayed_call_interrupt
<1>3. CASE interrupt_pend
  <2>1. /\ pending_call_num' = pending_call_num + 1
        /\ intrWake' = MoreThreads(pending_call_num + 1)
        /\ intr = "loop" /\ intr' = "wake"
        /\ UNCHANGED <<active_call_num, call_thread_num, ready, waiters, activate, waking>>
    BY <1>3 DEF interrupt_pend, poolVars
  <2>2. WakesDue \in Nat /\ WakesDue' = WakesDue + 1
    BY <2>1 DEF PoolInv, Counters, WakesDue, InWake, WakeKinds
  <2>3. Counters' /\ ThreadsAccounted'
    BY <2>1 DEF PoolInv, Counters, ThreadsAccounted, MoreThreads
  <2>4. MoreThreads(pending_call_num)' => ActivateDue'
    BY <2>1 DEF MoreThreads, ActivateDue
  <2>5. pending_call_num' <= ready' + WakesDue' \/ waiters' = 0
    BY <2>1, <2>2 DEF PoolInv, Counters, NoCallStranded
  <2>6. QED
    BY <2>3, <2>4, <2>5 DEF PoolInv, NoCallStranded, MoreThreads
<1>4. CASE interrupt_wake
  <2>1. /\ intr = "wake" /\ intr' = "relock"
        /\ WakeOne
        /\ activate' = (activate \/ intrWake)
        /\ intrWake' = FALSE
        /\ UNCHANGED <<pending_call_num, active_call_num, call_thread_num, waking>>
    BY <1>4 DEF interrupt_wake, queueVars
  <2>2. WakesDue \in Nat /\ WakesDue' = WakesDue - 1
    BY <2>1 DEF PoolInv, Counters, WakesDue, InWake, WakeKinds
  <2>3. Counters' /\ ThreadsAccounted'
    <3>1. activate' \in BOOLEAN /\ intrWake' \in BOOLEAN
      BY <2>1, Zenon
    <3>2. QED
      BY <2>1, <3>1 DEF PoolInv, Counters, ThreadsAccounted, WakeOne
  <2>4. MoreThreads(pending_call_num)' => ActivateDue'
    BY <2>1 DEF PoolInv, Counters, NoCallStranded, MoreThreads, ActivateDue
  <2>5. pending_call_num' <= ready' + WakesDue' \/ waiters' = 0
    BY <2>1, <2>2 DEF PoolInv, Counters, NoCallStranded, WakeOne
  <2>6. QED
    BY <2>3, <2>4, <2>5 DEF PoolInv, NoCallStranded, MoreThreads
<1>5. CASE interrupt_relock
  BY <1>5, IntrMoves DEF interrupt_relock, queueVars
<1>6. CASE interrupt_done
  BY <1>6, IntrMoves DEF interrupt_done, queueVars
<1>7. QED
  BY <1>1, <1>2, <1>3, <1>4, <1>5, <1>6 DEF Interrupt

-----------------------------------------------------------------------------
(* The threads of the pool.                                                *)

\* A thread goes to sleep or ends only when no call is pending.
LEMMA PoolKeeps ==
    ASSUME PoolInv, Pool
    PROVE  PoolInv'
<1> USE CountsAssumption
<1>1. CASE _call_thread_continue
  <2>1. /\ ready > 0 /\ ready' = ready - 1
        /\ TakeOrPark(active_call_num)
        /\ UNCHANGED <<activate, waking, intr, intrWake>>
    BY <1>1 DEF _call_thread_continue, intrVars
  <2>2. WakesDue \in Nat /\ WakesDue' = WakesDue /\ ActivateDue' = ActivateDue
    BY <2>1 DEF PoolInv, Counters, WakesDue, ActivateDue, InWake, WakeKinds
  <2>3. Counters' /\ ThreadsAccounted'
    BY <2>1 DEF PoolInv, Counters, ThreadsAccounted, TakeOrPark
  <2>4. MoreThreads(pending_call_num)' => MoreThreads(pending_call_num)
    BY <2>1 DEF PoolInv, Counters, ThreadsAccounted, MoreThreads, TakeOrPark
  <2>5. pending_call_num' <= ready' + WakesDue' \/ waiters' = 0
    BY <2>1, <2>2 DEF PoolInv, Counters, NoCallStranded, TakeOrPark
  <2>6. QED
    BY <2>2, <2>3, <2>4, <2>5 DEF PoolInv, NoCallStranded, MoreThreads
<1>2. CASE call_returns
  <2>1. /\ active_call_num > 0
        /\ TakeOrPark(active_call_num - 1)
        /\ UNCHANGED <<ready, activate, waking, intr, intrWake>>
    BY <1>2 DEF call_returns, intrVars
  <2>2. WakesDue \in Nat /\ WakesDue' = WakesDue /\ ActivateDue' = ActivateDue
    BY <2>1 DEF PoolInv, Counters, WakesDue, ActivateDue, InWake, WakeKinds
  <2>3. Counters' /\ ThreadsAccounted'
    BY <2>1 DEF PoolInv, Counters, ThreadsAccounted, TakeOrPark
  <2>4. MoreThreads(pending_call_num)' => MoreThreads(pending_call_num)
    BY <2>1 DEF PoolInv, Counters, ThreadsAccounted, MoreThreads, TakeOrPark
  <2>5. pending_call_num' <= ready' + WakesDue' \/ waiters' = 0
    BY <2>1, <2>2 DEF PoolInv, Counters, NoCallStranded, TakeOrPark
  <2>6. QED
    BY <2>2, <2>3, <2>4, <2>5 DEF PoolInv, NoCallStranded, MoreThreads
<1>3. CASE _call_activate_thread_continue
  <2>1. /\ activate
        /\ UNCHANGED <<pending_call_num, active_call_num, waiters, waking, intr, intrWake>>
    BY <1>3 DEF _call_activate_thread_continue, queueVars, intrVars
  <2>2. WakesDue \in Nat /\ WakesDue' = WakesDue
    BY <2>1 DEF PoolInv, Counters, WakesDue, InWake, WakeKinds
  <2>3. CASE /\ MoreThreads(pending_call_num)
             /\ call_thread_num' = call_thread_num + 1
             /\ ready' = ready + 1
             /\ UNCHANGED activate
    <3>1. Counters' /\ ThreadsAccounted'
      BY <2>1, <2>3 DEF PoolInv, Counters, ThreadsAccounted
    <3>2. ActivateDue'
      BY <2>1, <2>3 DEF ActivateDue
    <3>3. pending_call_num' <= ready' + WakesDue' \/ waiters' = 0
      BY <2>1, <2>2, <2>3 DEF PoolInv, Counters, NoCallStranded
    <3>4. QED
      BY <3>1, <3>2, <3>3 DEF PoolInv, NoCallStranded
  <2>4. CASE /\ ~MoreThreads(pending_call_num)
             /\ activate' = FALSE
             /\ UNCHANGED <<call_thread_num, ready>>
    <3>1. Counters' /\ ThreadsAccounted'
      BY <2>1, <2>4 DEF PoolInv, Counters, ThreadsAccounted
    <3>2. ~MoreThreads(pending_call_num)'
      BY <2>1, <2>4 DEF MoreThreads
    <3>3. pending_call_num' <= ready' + WakesDue' \/ waiters' = 0
      BY <2>1, <2>2, <2>4 DEF PoolInv, Counters, NoCallStranded
    <3>4. QED
      BY <3>1, <3>2, <3>3 DEF PoolInv, NoCallStranded, MoreThreads
  <2>5. QED
    BY <1>3, <2>3, <2>4 DEF _call_activate_thread_continue
<1>4. QED
  BY <1>1, <1>2, <1>3 DEF Pool

-----------------------------------------------------------------------------
(* The clients.                                                            *)

\* The number of calls thread_call_func_cancel removes is a natural number.
LEMMA MatchesCounted ==
    ASSUME TypeOK, NEW job
    PROVE  Cardinality(Matches(pending, job)) \in Nat
BY WithoutProperties, MatchesDomain DEF TypeOK

LEMMA ClientKeeps ==
    ASSUME PoolInv, TypeOK, Client
    PROVE  PoolInv'
<1>1. ASSUME NEW job, NEW unique, thread_call_func(job, unique)
      PROVE  PoolInv'
  BY <1>1, PendKeeps DEF thread_call_func, intrVars
<1>2. ASSUME NEW job, NEW deadline, thread_call_func_delayed(job, deadline)
      PROVE  PoolInv'
  <2>1. UNCHANGED <<poolVars, waking, intr, intrWake, pending_call_num>>
    BY <1>2 DEF thread_call_func_delayed, intrVars
  <2>2. QED
    BY <2>1, FewerCalls DEF PoolInv, Counters
<1>3. ASSUME NEW job, thread_call_func_cancel_one(job)
      PROVE  PoolInv'
  <2>1. /\ UNCHANGED <<poolVars, waking, intr, intrWake>>
        /\ pending_call_num' = pending_call_num - 1 \/ pending_call_num' = pending_call_num
    BY <1>3 DEF thread_call_func_cancel_one, intrVars
  <2>2. pending_call_num' \in Int /\ pending_call_num' <= pending_call_num
    BY <2>1 DEF PoolInv, Counters
  <2>3. QED
    BY <2>1, <2>2, FewerCalls
<1>4. ASSUME NEW job, thread_call_func_cancel_all(job)
      PROVE  PoolInv'
  <2>1. /\ UNCHANGED <<poolVars, waking, intr, intrWake>>
        /\ pending_call_num' = pending_call_num - Cardinality(Matches(pending, job))
    BY <1>4 DEF thread_call_func_cancel_all, intrVars
  <2>2. pending_call_num' \in Int /\ pending_call_num' <= pending_call_num
    BY <2>1, MatchesCounted DEF PoolInv, Counters
  <2>3. QED
    BY <2>1, <2>2, FewerCalls
<1>5. ASSUME NEW call, NEW job, thread_call_allocate(call, job)
      PROVE  PoolInv'
  <2>1. UNCHANGED <<poolVars, waking, intr, intrWake, pending_call_num>>
    BY <1>5 DEF thread_call_allocate, intrVars
  <2>2. QED
    BY <2>1, FewerCalls DEF PoolInv, Counters
<1>6. ASSUME NEW call, NEW job, thread_call_enter_spec(call, job)
      PROVE  PoolInv'
  BY <1>6, PendKeeps DEF thread_call_enter_spec, intrVars
<1>7. ASSUME NEW call, NEW job, NEW deadline,
             thread_call_enter_spec_delayed(call, job, deadline)
      PROVE  PoolInv'
  <2>1. UNCHANGED <<poolVars, waking, intr, intrWake, pending_call_num>>
    BY <1>7 DEF thread_call_enter_spec_delayed, intrVars
  <2>2. QED
    BY <2>1, FewerCalls DEF PoolInv, Counters
<1>8. ASSUME NEW call, thread_call_cancel(call)
      PROVE  PoolInv'
  <2>1. /\ UNCHANGED <<poolVars, waking, intr, intrWake>>
        /\ pending_call_num' = pending_call_num - 1 \/ pending_call_num' = pending_call_num
    BY <1>8 DEF thread_call_cancel, intrVars
  <2>2. pending_call_num' \in Int /\ pending_call_num' <= pending_call_num
    BY <2>1 DEF PoolInv, Counters
  <2>3. QED
    BY <2>1, <2>2, FewerCalls
<1>9. ASSUME NEW call, thread_call_free(call)
      PROVE  PoolInv'
  <2>1. UNCHANGED <<poolVars, waking, intr, intrWake, pending_call_num>>
    BY <1>9 DEF thread_call_free, intrVars, queueVars
  <2>2. QED
    BY <2>1, FewerCalls DEF PoolInv, Counters
<1>10. QED
  BY <1>1, <1>2, <1>3, <1>4, <1>5, <1>6, <1>7, <1>8, <1>9
     DEF Client, thread_call_enter, thread_call_enter_delayed

-----------------------------------------------------------------------------
(* The invariant holds.                                                    *)

LEMMA InitPool ==
    ASSUME Init
    PROVE  PoolInv
<1>1. /\ pending_call_num = 0 /\ active_call_num = 0 /\ call_thread_num = 0
      /\ ready = 0 /\ waiters = 0 /\ activate = TRUE /\ intrWake = FALSE
      /\ waking = [kind \in WakeKinds |-> 0]
  BY DEF Init, thread_call_init
<1>2. Counters /\ ThreadsAccounted
  <2>1. waking \in [WakeKinds -> Nat]
    BY <1>1
  <2>2. activate \in BOOLEAN /\ intrWake \in BOOLEAN
    BY <1>1, Zenon
  <2>3. /\ pending_call_num \in Int
        /\ active_call_num \in Nat /\ call_thread_num \in Nat
        /\ ready \in Nat /\ waiters \in Nat
        /\ call_thread_num = active_call_num + ready + waiters
    BY <1>1, SMT
  <2>4. QED
    BY <2>1, <2>2, <2>3, Zenon DEF Counters, ThreadsAccounted
<1>3. ~MoreThreads(pending_call_num)
  BY <1>1 DEF MoreThreads
<1>4. NoCallStranded
  BY <1>1, <1>3 DEF NoCallStranded
<1>5. QED
  BY <1>2, <1>4 DEF PoolInv

LEMMA StepPool ==
    ASSUME PoolInv, TypeOK, [Next]_vars
    PROVE  PoolInv'
<1>1. CASE Client
  BY <1>1, ClientKeeps
<1>2. CASE _call_thread_wake
  BY <1>2, WakeKeeps
<1>3. CASE Interrupt
  BY <1>3, InterruptKeeps
<1>4. CASE Pool
  BY <1>4, PoolKeeps
<1>5. CASE UNCHANGED vars
  <2>1. UNCHANGED <<poolVars, waking, intr, intrWake, pending_call_num>>
    BY <1>5 DEF vars, queueVars, intrVars
  <2>2. QED
    BY <2>1, FewerCalls DEF PoolInv, Counters
<1>6. QED
  BY <1>1, <1>2, <1>3, <1>4, <1>5 DEF Next

\* Whatever the interleaving of clients, processors, interrupts and threads, the
\* counters of thread_call.c keep their meaning and no call is stranded.
THEOREM PoolInvariance == Spec => []PoolInv
<1>1. Init => PoolInv
  BY InitPool
<1>2. PoolInv /\ TypeOK /\ [Next]_vars => PoolInv'
  BY StepPool
<1>3. QED
  BY <1>1, <1>2, TypeCorrect, PTL DEF Spec

\* Every pending call has a thread on its way to it, or no callout thread is left
\* to wake and the activate thread is due to create one (_call_thread_wake,
\* _call_thread_continue, _call_activate_thread_continue).
THEOREM PoolNeverStrands == Spec => []NoCallStranded
<1>1. PoolInv => NoCallStranded
  BY DEF PoolInv
<1>2. QED
  BY <1>1, PoolInvariance, PTL

\* call_thread_num is the number of callout threads there are.
THEOREM PoolAccounted == Spec => []ThreadsAccounted
<1>1. PoolInv => ThreadsAccounted
  BY DEF PoolInv
<1>2. QED
  BY <1>1, PoolInvariance, PTL

-----------------------------------------------------------------------------
(* Where an entry is.  An entry in transit from the delayed to the pending *)
(* queue is idle, and on a multiprocessor its owner may enter it again.    *)
(* On one processor the interrupt is over before the owner runs, and the   *)
(* entries of function callouts have no owner who could.                   *)

OwnersWait == NCPUS = 1 \/ External = {}

InFree == {free[i] : i \in DOMAIN free}

\* The external entries nobody may schedule: not allocated, or cancelled.
Unscheduled == (External \ allocated) \cup cancelled

Placed ==
    \A c \in Calls :
        /\ c \in CallsIn(pending) => status[c] = "PENDING"
        /\ c \in CallsIn(delayed) => status[c] = "DELAYED"
        /\ c \in CallsIn(transit) => status[c] = "IDLE" /\ c \notin InFree
        /\ c \in InFree => status[c] = "IDLE"
        /\ c \in Internal /\ status[c] = "IDLE" => c \in InFree \cup CallsIn(transit)
        /\ c \in Unscheduled => status[c] = "IDLE" /\ c \notin CallsIn(transit)

\* With QueueInv this is inductive.
OnePlace ==
    /\ Distinct(pending) /\ Distinct(delayed) /\ Distinct(transit) /\ Once(free)
    /\ Placed
    /\ transit # <<>> => intr \in {"loop", "wake", "relock"}

LEMMA CallsTyped ==
    ASSUME TypeOK
    PROVE  /\ CallsIn(pending) \subseteq Calls
           /\ CallsIn(delayed) \subseteq Calls
           /\ CallsIn(transit) \subseteq Calls
           /\ InFree \subseteq Internal
           /\ Unscheduled \subseteq External
<1>1. /\ pending \in Seq(Entry) /\ delayed \in Seq(DelayedEntry) /\ transit \in Seq(Entry)
      /\ free \in Seq(Internal) /\ allocated \subseteq External /\ cancelled \subseteq allocated
  BY DEF TypeOK
<1>2. \A i \in DOMAIN pending : pending[i] \in Entry
  BY <1>1, LenProperties, ElementOfSeq
<1>3. \A i \in DOMAIN delayed : delayed[i] \in DelayedEntry
  BY <1>1, LenProperties, ElementOfSeq
<1>4. \A i \in DOMAIN transit : transit[i] \in Entry
  BY <1>1, LenProperties, ElementOfSeq
<1>5. \A i \in DOMAIN free : free[i] \in Internal
  BY <1>1, LenProperties, ElementOfSeq
<1>6. \A e \in Entry : e.call \in Calls
  BY DEF Entry
<1>7. \A e \in DelayedEntry : e.call \in Calls
  BY DEF DelayedEntry
<1>8. CallsIn(pending) \subseteq Calls /\ CallsIn(transit) \subseteq Calls
  BY <1>2, <1>4, <1>6 DEF CallsIn
<1>9. CallsIn(delayed) \subseteq Calls
  BY <1>3, <1>7 DEF CallsIn
<1>10. InFree \subseteq Internal
  BY <1>5 DEF InFree
<1>11. Unscheduled \subseteq External
  BY <1>1 DEF Unscheduled
<1>12. QED
  BY <1>8, <1>9, <1>10, <1>11

\* While an owner runs, nothing is in transit.
LEMMA NothingInTransit ==
    ASSUME OwnersWait, TypeOK, OnePlace, CpuFree, External # {}
    PROVE  transit = <<>>
<1>1. NCPUS = 1
  BY DEF OwnersWait
<1>2. InWake \in Nat
  BY DEF TypeOK, InWake, WakeKinds
<1>3. InIntr = 0 \/ InIntr = 1
  BY DEF InIntr
<1>4. InIntr = 0
  BY <1>1, <1>2, <1>3 DEF CpuFree
<1>5. intr = "off"
  BY <1>4 DEF InIntr
<1>6. QED
  BY <1>5 DEF OnePlace

LEMMA EmptyCalls == CallsIn(<<>>) = {} /\ Distinct(<<>>)
BY DEF CallsIn, Distinct

\* An idle entry goes to one of the two queues.
LEMMA EnterPlace ==
    ASSUME TypeOK, OnePlace, NEW c \in Calls, NEW st \in {"PENDING", "DELAYED"},
           status[c] = "IDLE",
           status' = [status EXCEPT ![c] = st],
           CallsIn(pending') = CallsIn(pending) \cup (IF st = "PENDING" THEN {c} ELSE {}),
           CallsIn(delayed') = CallsIn(delayed) \cup (IF st = "DELAYED" THEN {c} ELSE {}),
           Distinct(pending'), Distinct(delayed'), Distinct(transit'), Once(free'),
           c \notin CallsIn(transit') \cup InFree',
           CallsIn(transit') \subseteq CallsIn(transit), InFree' \subseteq InFree,
           CallsIn(transit) \cup InFree \subseteq CallsIn(transit') \cup InFree' \cup {c},
           Unscheduled' \subseteq Unscheduled \ {c},
           transit' # <<>> => intr' \in {"loop", "wake", "relock"}
    PROVE  OnePlace'
<1>1. status \in [Calls -> Status]
  BY DEF TypeOK
<1>2. status'[c] = st /\ \A x \in Calls : x # c => status'[x] = status[x]
  BY <1>1
<1>3. Placed
  BY DEF OnePlace
<1>4. Placed'
  <2> SUFFICES ASSUME NEW x \in Calls
               PROVE  /\ x \in CallsIn(pending') => status'[x] = "PENDING"
                      /\ x \in CallsIn(delayed') => status'[x] = "DELAYED"
                      /\ x \in CallsIn(transit') => status'[x] = "IDLE" /\ x \notin InFree'
                      /\ x \in InFree' => status'[x] = "IDLE"
                      /\ x \in Internal /\ status'[x] = "IDLE" =>
                            x \in InFree' \cup CallsIn(transit')
                      /\ x \in Unscheduled' => status'[x] = "IDLE" /\ x \notin CallsIn(transit')
    BY DEF Placed
  <2>1. CASE x = c
    <3>1. c \notin CallsIn(pending) /\ c \notin CallsIn(delayed)
      BY <1>3 DEF Placed
    <3>2. QED
      BY <1>2, <2>1, <3>1
  <2>2. CASE x # c
    BY <1>2, <1>3, <2>2 DEF Placed
  <2>3. QED
    BY <2>1, <2>2
<1>5. QED
  BY <1>4 DEF OnePlace

\* The entries of R leave the queues and are idle: back on the free queue, with
\* their owners, or in transit.
LEMMA LeavePlace ==
    ASSUME TypeOK, OnePlace, NEW R \in SUBSET (CallsIn(pending) \cup CallsIn(delayed)),
           \A c \in Calls : status'[c] = IF c \in R THEN "IDLE" ELSE status[c],
           CallsIn(pending') = CallsIn(pending) \ R,
           CallsIn(delayed') = CallsIn(delayed) \ R,
           Distinct(pending'), Distinct(delayed'), Distinct(transit'), Once(free'),
           \/ InFree' = InFree \cup (R \cap Internal) /\ transit' = transit
           \/ InFree' = InFree /\ transit = <<>> /\ CallsIn(transit') = R,
           \A c \in Unscheduled' : \/ c \in Unscheduled
                                   \/ status'[c] = "IDLE" /\ c \notin CallsIn(transit'),
           transit' # <<>> => intr' \in {"loop", "wake", "relock"}
    PROVE  OnePlace'
<1>1. Placed
  BY DEF OnePlace
<1>2. Placed'
  <2> SUFFICES ASSUME NEW x \in Calls
               PROVE  /\ x \in CallsIn(pending') => status'[x] = "PENDING"
                      /\ x \in CallsIn(delayed') => status'[x] = "DELAYED"
                      /\ x \in CallsIn(transit') => status'[x] = "IDLE" /\ x \notin InFree'
                      /\ x \in InFree' => status'[x] = "IDLE"
                      /\ x \in Internal /\ status'[x] = "IDLE" =>
                            x \in InFree' \cup CallsIn(transit')
                      /\ x \in Unscheduled' => status'[x] = "IDLE" /\ x \notin CallsIn(transit')
    BY DEF Placed
  <2>1. CASE InFree' = InFree \cup (R \cap Internal) /\ transit' = transit
    <3>1. CallsIn(transit') = CallsIn(transit)
      BY <2>1
    <3>2. CASE x \in R
      <4>1. status[x] # "IDLE" /\ x \notin CallsIn(transit) /\ x \notin InFree
        BY <1>1, <3>2 DEF Placed
      <4>2. QED
        BY <2>1, <3>1, <3>2, <4>1
    <3>3. CASE x \notin R
      BY <1>1, <2>1, <3>1, <3>3 DEF Placed
    <3>4. QED
      BY <3>2, <3>3
  <2>2. CASE InFree' = InFree /\ transit = <<>> /\ CallsIn(transit') = R
    <3>1. CallsIn(transit) = {}
      BY <2>2, EmptyCalls
    <3>2. CASE x \in R
      <4>1. status[x] # "IDLE" /\ x \notin InFree /\ x \notin Unscheduled
        BY <1>1, <3>2 DEF Placed
      <4>2. QED
        BY <2>2, <3>2, <4>1
    <3>3. CASE x \notin R
      BY <1>1, <2>2, <3>1, <3>3 DEF Placed
    <3>4. QED
      BY <3>2, <3>3
  <2>3. QED
    BY <2>1, <2>2
<1>3. QED
  BY <1>2 DEF OnePlace

\* Steps that move no entry.
LEMMA SamePlace ==
    ASSUME TypeOK, OnePlace, UNCHANGED <<status, free, pending, delayed, transit>>,
           \A c \in Unscheduled' : \/ c \in Unscheduled
                                   \/ status[c] = "IDLE" /\ c \notin CallsIn(transit),
           transit # <<>> => intr' \in {"loop", "wake", "relock"}
    PROVE  OnePlace'
<1>1. /\ CallsIn(pending') = CallsIn(pending) /\ CallsIn(delayed') = CallsIn(delayed)
      /\ CallsIn(transit') = CallsIn(transit) /\ InFree' = InFree
  BY DEF CallsIn, InFree
<1>2. Placed'
  BY <1>1 DEF OnePlace, Placed
<1>3. Distinct(pending') /\ Distinct(delayed') /\ Distinct(transit') /\ Once(free')
  BY DEF OnePlace, Distinct, Once
<1>4. QED
  BY <1>2, <1>3 DEF OnePlace

\* Steps of others than the owners that move no entry.
LEMMA NoMove ==
    ASSUME TypeOK, OnePlace, status' = status, free' = free, pending' = pending,
           delayed' = delayed, transit' = transit, Unscheduled' \subseteq Unscheduled,
           \/ transit = <<>> \/ intr' = intr \/ intr' \in {"loop", "wake", "relock"}
    PROVE  OnePlace'
<1>1. transit # <<>> => intr' \in {"loop", "wake", "relock"}
  BY DEF OnePlace
<1>2. \A c \in Unscheduled' : c \in Unscheduled
  OBVIOUS
<1>3. QED
  BY <1>1, <1>2, SamePlace

-----------------------------------------------------------------------------
(* The free queue.                                                         *)

LEMMA FreeTail ==
    ASSUME TypeOK, Once(free), free # <<>>, free' = Tail(free)
    PROVE  /\ Once(free')
           /\ Head(free) \in InFree
           /\ Head(free) \notin InFree'
           /\ InFree = InFree' \cup {Head(free)}
<1> DEFINE n == Len(free)
           h == Head(free)
<1>1. free \in Seq(Internal)
  BY DEF TypeOK
<1>2. n \in Nat /\ n >= 1 /\ DOMAIN free = 1 .. n
  BY <1>1, LenProperties, EmptySeq
<1>3. /\ free' \in Seq(Internal) /\ Len(free') = n - 1
      /\ h = free[1]
      /\ \A i \in 1 .. n - 1 : free'[i] = free[i + 1]
  BY <1>1, <1>2, HeadTailProperties
<1>4. DOMAIN free' = 1 .. n - 1
  BY <1>3, LenProperties
<1> HIDE DEF n, h
<1>5. \A i \in 1 .. n : i = 1 \/ (i - 1 \in 1 .. n - 1 /\ (i - 1) + 1 = i)
  BY <1>2
<1>6. \A i \in 1 .. n - 1 : i + 1 \in 1 .. n /\ i + 1 # 1
  BY <1>2
<1>7. 1 \in 1 .. n
  BY <1>2
<1>8. \A i, j \in 1 .. n : free[i] = free[j] => i = j
  BY <1>2 DEF Once
<1>9. Once(free')
  <2> SUFFICES ASSUME NEW i \in 1 .. n - 1, NEW j \in 1 .. n - 1, free[i + 1] = free[j + 1]
               PROVE  i = j
    BY <1>3, <1>4 DEF Once
  <2>1. i + 1 = j + 1
    BY <1>6, <1>8
  <2>2. QED
    BY <1>2, <2>1
<1>10. h \in InFree
  BY <1>2, <1>3, <1>7 DEF InFree
<1>11. h \notin InFree'
  <2> SUFFICES ASSUME NEW i \in 1 .. n - 1, free[1] = free[i + 1] PROVE FALSE
    BY <1>3, <1>4 DEF InFree
  <2>1. QED
    BY <1>6, <1>7, <1>8
<1>12. InFree = InFree' \cup {h}
  <2>1. ASSUME NEW i \in 1 .. n PROVE free[i] \in InFree' \cup {h}
    <3>1. CASE i = 1
      BY <1>3, <3>1
    <3>2. CASE i # 1
      <4>1. i - 1 \in 1 .. n - 1 /\ free'[i - 1] = free[i]
        BY <1>3, <1>5, <3>2
      <4>2. QED
        BY <1>4, <4>1 DEF InFree
    <3>3. QED
      BY <3>1, <3>2
  <2>2. ASSUME NEW i \in 1 .. n - 1 PROVE free'[i] \in InFree
    BY <1>2, <1>3, <1>6 DEF InFree
  <2>3. QED
    BY <1>2, <1>4, <1>10, <2>1, <2>2 DEF InFree
<1>13. QED
  BY <1>9, <1>10, <1>11, <1>12 DEF h

\* thread_call_release of an entry that is not on the free queue.
LEMMA FreeRelease ==
    ASSUME TypeOK, Once(free), NEW c, c \notin InFree, free' = Release(free, c)
    PROVE  Once(free') /\ InFree' = InFree \cup ({c} \cap Internal)
<1>1. free \in Seq(Internal)
  BY DEF TypeOK
<1>2. CASE c \in Internal
  <2> DEFINE n == Len(free)
  <2>1. free' = Append(free, c)
    BY <1>2 DEF Release
  <2>2. /\ n \in Nat /\ DOMAIN free = 1 .. n /\ free' \in Seq(Internal) /\ Len(free') = n + 1
        /\ \A i \in 1 .. n : free'[i] = free[i]
        /\ free'[n + 1] = c
    BY <1>1, <1>2, <2>1, AppendProperties, LenProperties
  <2>3. DOMAIN free' = 1 .. n + 1
    BY <2>2, LenProperties
  <2> HIDE DEF n
  <2>4. \A i \in 1 .. n + 1 : i \in 1 .. n \/ i = n + 1
    BY <2>2
  <2>5. \A i \in 1 .. n : i \in 1 .. n + 1
    BY <2>2
  <2>6. n + 1 \in 1 .. n + 1
    BY <2>2
  <2>7. \A i \in 1 .. n : free[i] # c
    BY <2>2 DEF InFree
  <2>8. Once(free')
    BY <2>2, <2>3, <2>4, <2>7 DEF Once
  <2>9. InFree' = InFree \cup {c}
    BY <2>2, <2>3, <2>4, <2>5, <2>6 DEF InFree
  <2>10. QED
    BY <1>2, <2>8, <2>9
<1>3. CASE c \notin Internal
  BY <1>3 DEF Release, InFree
<1>4. QED
  BY <1>2, <1>3

\* The internal entries with a job, each once.
LEMMA ReleasedOnce ==
    ASSUME NEW S, NEW q \in Seq(S), Distinct(q), NEW job
    PROVE  /\ Once(ReleasedBy(q, job))
           /\ {ReleasedBy(q, job)[i] : i \in DOMAIN ReleasedBy(q, job)} =
                {q[i].call : i \in Matches(q, job)} \cap Internal
<1> DEFINE stay == {i \in DOMAIN q : q[i].job # job \/ q[i].call \notin Internal}
           gone == Without(q, stay)
           r == [i \in DOMAIN gone |-> gone[i].call]
<1>1. stay \in SUBSET DOMAIN q
  OBVIOUS
<1>2. DOMAIN q \ stay = {i \in Matches(q, job) : q[i].call \in Internal}
  BY DEF Matches
<1>3. ReleasedBy(q, job) = r
  BY DEF ReleasedBy
<1> HIDE DEF stay
<1>4. /\ Distinct(gone)
      /\ \A i \in DOMAIN q \ stay : q[i].call \in CallsIn(gone)
  BY <1>1, WithoutCalls
<1>5. \A j \in DOMAIN gone : \E i \in DOMAIN q \ stay : gone[j] = q[i]
  BY <1>1, WithoutProperties
<1> HIDE DEF gone
<1>6. DOMAIN r = DOMAIN gone /\ \A i \in DOMAIN gone : r[i] = gone[i].call
  OBVIOUS
<1> HIDE DEF r
<1>7. Once(r)
  BY <1>4, <1>6 DEF Once, Distinct
<1>8. {r[i] : i \in DOMAIN r} = CallsIn(gone)
  BY <1>6 DEF CallsIn
<1>9. CallsIn(gone) = {q[i].call : i \in Matches(q, job)} \cap Internal
  <2>1. ASSUME NEW j \in DOMAIN gone
        PROVE  gone[j].call \in {q[i].call : i \in Matches(q, job)} \cap Internal
    BY <1>2, <1>5
  <2>2. ASSUME NEW i \in Matches(q, job), q[i].call \in Internal
        PROVE  q[i].call \in CallsIn(gone)
    BY <1>2, <1>4, <2>2
  <2>3. QED
    BY <2>1, <2>2 DEF CallsIn
<1>10. QED
  BY <1>3, <1>7, <1>8, <1>9

\* A removal takes the entries at the positions I, and no other.
LEMMA WithoutExactly ==
    ASSUME NEW S, NEW q \in Seq(S), Distinct(q), NEW I \in SUBSET DOMAIN q
    PROVE  /\ Distinct(Without(q, I))
           /\ CallsIn(Without(q, I)) = CallsIn(q) \ {q[i].call : i \in I}
<1>1. /\ Distinct(Without(q, I))
      /\ CallsIn(Without(q, I)) \subseteq CallsIn(q)
      /\ \A i \in I : q[i].call \notin CallsIn(Without(q, I))
  BY WithoutCalls
<1>2. \A c \in CallsIn(q) : (\A i \in I : q[i].call # c) => c \in CallsIn(Without(q, I))
  BY WithoutOthers
<1>3. QED
  BY <1>1, <1>2

-----------------------------------------------------------------------------
(* Every step keeps the entries in one place.                              *)

\* An entry that is appended to the pending queue.
LEMMA AppendPlace ==
    ASSUME TypeOK, OnePlace, NEW e \in Entry, status[e.call] = "IDLE",
           pending' = Append(pending, e)
    PROVE  Distinct(pending') /\ CallsIn(pending') = CallsIn(pending) \cup {e.call}
<1>1. pending \in Seq(Entry) /\ Distinct(pending) /\ Placed /\ e.call \in Calls
  BY DEF TypeOK, OnePlace, Entry
<1>2. e.call \notin CallsIn(pending)
  BY <1>1 DEF Placed
<1>3. QED
  BY <1>1, <1>2, AppendCalls

\* An entry that is inserted in the delayed queue.
LEMMA InsertPlace ==
    ASSUME QueueInv, OnePlace, NEW e \in DelayedEntry, status[e.call] = "IDLE",
           _delayed_call_enqueue(e)
    PROVE  Distinct(delayed') /\ CallsIn(delayed') = CallsIn(delayed) \cup {e.call}
<1> DEFINE p == InsertAt(delayed, e.deadline)
<1>1. /\ delayed \in Seq(DelayedEntry) /\ Sorted(delayed) /\ Distinct(delayed) /\ Placed
      /\ e.call \in Calls /\ e.deadline \in Times
  BY DEF QueueInv, TypeOK, OnePlace, DelayedEntry
<1>2. e.call \notin CallsIn(delayed)
  BY <1>1 DEF Placed
<1>3. p \in 0 .. Len(delayed)
  BY <1>1, InsertAtProperties
<1>4. delayed' = Inserted(delayed, p, e)
  BY DEF _delayed_call_enqueue, Inserted
<1> HIDE DEF p
<1>5. Distinct(delayed')
  BY <1>1, <1>2, <1>3, <1>4, InsertCalls
<1>6. CallsIn(delayed') = CallsIn(delayed) \cup {e.call}
  BY <1>1, <1>3, <1>4, InsertCalls
<1>7. QED
  BY <1>5, <1>6

LEMMA FuncPlace ==
    ASSUME QueueInv, OnePlace
    PROVE  /\ \A job \in Jobs, unique \in BOOLEAN :
                thread_call_func(job, unique) => OnePlace'
           /\ \A job \in Jobs, deadline \in Times :
                thread_call_func_delayed(job, deadline) => OnePlace'
<1> DEFINE h == Head(free)
<1>0. /\ TypeOK /\ Placed /\ Distinct(pending) /\ Distinct(delayed) /\ Distinct(transit)
      /\ Once(free)
  BY DEF QueueInv, OnePlace
<1>1. ASSUME free # <<>>, free' = Tail(free)
      PROVE  /\ h \in Calls /\ h \in Internal /\ status[h] = "IDLE"
             /\ h \notin CallsIn(transit)
             /\ Once(free') /\ h \notin InFree' /\ InFree = InFree' \cup {h}
  <2>1. /\ Once(free') /\ h \in InFree /\ h \notin InFree' /\ InFree = InFree' \cup {h}
    BY <1>0, <1>1, FreeTail
  <2>2. h \in Internal /\ h \in Calls
    BY <1>0, <2>1, CallsTyped DEF Calls
  <2>3. QED
    BY <1>0, <2>1, <2>2 DEF Placed
<1> HIDE DEF h
<1>2. h \in Internal => h \notin Unscheduled
  BY <1>0, CallsTyped, CallsAssumption
<1>3. ASSUME NEW job \in Jobs, NEW unique \in BOOLEAN, thread_call_func(job, unique)
      PROVE  OnePlace'
  <2> DEFINE e == [call |-> h, job |-> job]
  <2>1. /\ free # <<>> /\ free' = Tail(free)
        /\ status' = [status EXCEPT ![h] = "PENDING"]
        /\ pending' = Append(pending, e)
        /\ UNCHANGED <<clientVars, delayed, intrVars>>
    BY <1>3 DEF thread_call_func, PendAndWake, h
  <2>2. e \in Entry /\ e.call = h
    BY <1>1, <2>1 DEF Entry
  <2> HIDE DEF e
  <2>3. Distinct(pending') /\ CallsIn(pending') = CallsIn(pending) \cup {h}
    BY <1>0, <1>1, <2>1, <2>2, AppendPlace
  <2>4. /\ transit' = transit /\ intr' = intr /\ delayed' = delayed
        /\ Unscheduled' = Unscheduled
    BY <2>1 DEF intrVars, clientVars, Unscheduled
  <2>5. CallsIn(delayed') = CallsIn(delayed) /\ CallsIn(transit') = CallsIn(transit)
    BY <2>4
  <2>6. QED
    BY <1>0, <1>1, <1>2, <2>1, <2>3, <2>4, <2>5, EnterPlace DEF OnePlace
<1>4. ASSUME NEW job \in Jobs, NEW deadline \in Times,
             thread_call_func_delayed(job, deadline)
      PROVE  OnePlace'
  <2> DEFINE e == [call |-> h, job |-> job, deadline |-> deadline]
  <2>1. /\ free # <<>> /\ free' = Tail(free)
        /\ status' = [status EXCEPT ![h] = "DELAYED"]
        /\ _delayed_call_enqueue(e)
        /\ UNCHANGED <<clientVars, pending, intrVars>>
    BY <1>4 DEF thread_call_func_delayed, h
  <2>2. e \in DelayedEntry /\ e.call = h
    BY <1>1, <2>1 DEF DelayedEntry
  <2> HIDE DEF e
  <2>3. Distinct(delayed') /\ CallsIn(delayed') = CallsIn(delayed) \cup {h}
    BY <1>0, <1>1, <2>1, <2>2, InsertPlace
  <2>4. /\ transit' = transit /\ intr' = intr /\ pending' = pending
        /\ Unscheduled' = Unscheduled
    BY <2>1 DEF intrVars, clientVars, Unscheduled
  <2>5. CallsIn(pending') = CallsIn(pending) /\ CallsIn(transit') = CallsIn(transit)
    BY <2>4
  <2>6. QED
    BY <1>0, <1>1, <1>2, <2>1, <2>3, <2>4, <2>5, EnterPlace DEF OnePlace
<1>5. QED
  BY <1>3, <1>4

LEMMA OwnerPlace ==
    ASSUME OwnersWait, QueueInv, OnePlace
    PROVE  /\ \A call \in External, job \in Jobs :
                thread_call_enter_spec(call, job) => OnePlace'
           /\ \A call \in External, job \in Jobs, deadline \in Times :
                thread_call_enter_spec_delayed(call, job, deadline) => OnePlace'
<1>0. /\ TypeOK /\ Placed /\ Distinct(pending) /\ Distinct(delayed) /\ Distinct(transit)
      /\ Once(free)
  BY DEF QueueInv, OnePlace
<1>1. ASSUME NEW call \in External, Section
      PROVE  /\ call \in Calls /\ transit = <<>> /\ CallsIn(transit) = {}
             /\ call \notin InFree
  <2>1. transit = <<>>
    BY <1>0, <1>1, NothingInTransit DEF Section
  <2>2. CallsIn(transit) = {}
    BY <2>1, EmptyCalls
  <2>3. QED
    BY <1>0, <2>1, <2>2, CallsTyped, CallsAssumption DEF Calls
<1>2. ASSUME NEW call \in External, NEW job \in Jobs, thread_call_enter_spec(call, job)
      PROVE  OnePlace'
  <2> DEFINE e == [call |-> call, job |-> job]
  <2>1. /\ Section /\ call \in allocated /\ status[call] = "IDLE"
        /\ status' = [status EXCEPT ![call] = "PENDING"]
        /\ pending' = Append(pending, e)
        /\ cancelled' = cancelled \ {call}
        /\ UNCHANGED <<allocated, free, delayed, intrVars>>
    BY <1>2 DEF thread_call_enter_spec, PendAndWake
  <2>2. e \in Entry /\ e.call = call
    BY <1>1, <2>1 DEF Entry
  <2> HIDE DEF e
  <2>3. Distinct(pending') /\ CallsIn(pending') = CallsIn(pending) \cup {call}
    BY <1>0, <2>1, <2>2, AppendPlace
  <2>4. /\ transit' = transit /\ intr' = intr /\ delayed' = delayed /\ free' = free
        /\ Unscheduled' \subseteq Unscheduled \ {call}
    BY <2>1 DEF intrVars, Unscheduled
  <2>5. /\ CallsIn(delayed') = CallsIn(delayed) /\ CallsIn(transit') = CallsIn(transit)
        /\ InFree' = InFree
    BY <2>4 DEF InFree
  <2>6. QED
    BY <1>0, <1>1, <2>1, <2>3, <2>4, <2>5, EnterPlace DEF OnePlace
<1>3. ASSUME NEW call \in External, NEW job \in Jobs, NEW deadline \in Times,
             thread_call_enter_spec_delayed(call, job, deadline)
      PROVE  OnePlace'
  <2> DEFINE e == [call |-> call, job |-> job, deadline |-> deadline]
  <2>1. /\ Section /\ call \in allocated /\ status[call] = "IDLE"
        /\ status' = [status EXCEPT ![call] = "DELAYED"]
        /\ _delayed_call_enqueue(e)
        /\ cancelled' = cancelled \ {call}
        /\ UNCHANGED <<allocated, free, pending, intrVars>>
    BY <1>3 DEF thread_call_enter_spec_delayed
  <2>2. e \in DelayedEntry /\ e.call = call
    BY <1>1, <2>1 DEF DelayedEntry
  <2> HIDE DEF e
  <2>3. Distinct(delayed') /\ CallsIn(delayed') = CallsIn(delayed) \cup {call}
    BY <1>0, <2>1, <2>2, InsertPlace
  <2>4. /\ transit' = transit /\ intr' = intr /\ pending' = pending /\ free' = free
        /\ Unscheduled' \subseteq Unscheduled \ {call}
    BY <2>1 DEF intrVars, Unscheduled
  <2>5. /\ CallsIn(pending') = CallsIn(pending) /\ CallsIn(transit') = CallsIn(transit)
        /\ InFree' = InFree
    BY <2>4 DEF InFree
  <2>6. QED
    BY <1>0, <1>1, <2>1, <2>3, <2>4, <2>5, EnterPlace DEF OnePlace
<1>4. QED
  BY <1>2, <1>3

\* An entry leaves its queue for its owner or for the free queue.
LEMMA RemoveOnePlace ==
    ASSUME TypeOK, OnePlace, NEW c \in CallsIn(pending) \cup CallsIn(delayed),
           status' = [status EXCEPT ![c] = "IDLE"],
           CallsIn(pending') = CallsIn(pending) \ {c}, Distinct(pending'),
           CallsIn(delayed') = CallsIn(delayed) \ {c}, Distinct(delayed'),
           free' = Release(free, c),
           UNCHANGED intrVars,
           \A x \in Unscheduled' : x \in Unscheduled \/ x = c
    PROVE  OnePlace'
<1>1. /\ Placed /\ Distinct(transit) /\ Once(free) /\ status \in [Calls -> Status]
      /\ c \in Calls
  BY CallsTyped DEF OnePlace, TypeOK
<1>2. c \notin InFree /\ c \notin CallsIn(transit)
  BY <1>1 DEF Placed
<1>3. Once(free') /\ InFree' = InFree \cup ({c} \cap Internal)
  BY <1>1, <1>2, FreeRelease
<1>4. transit' = transit /\ intr' = intr
  BY DEF intrVars
<1>5. \A x \in Calls : status'[x] = IF x \in {c} THEN "IDLE" ELSE status[x]
  BY <1>1
<1>6. CallsIn(transit') = CallsIn(transit)
  BY <1>4
<1>7. \A x \in Unscheduled' : \/ x \in Unscheduled
                              \/ status'[x] = "IDLE" /\ x \notin CallsIn(transit')
  BY <1>1, <1>2, <1>5, <1>6
<1>8. QED
  BY <1>1, <1>3, <1>4, <1>5, <1>7, LeavePlace DEF OnePlace

\* The removal of one position.
LEMMA WithoutOne ==
    ASSUME NEW S, NEW q \in Seq(S), Distinct(q), NEW I \in SUBSET DOMAIN q, I # {}
    PROVE  /\ q[FirstOf(I)].call \in CallsIn(q)
           /\ Distinct(Without(q, {FirstOf(I)}))
           /\ CallsIn(Without(q, {FirstOf(I)})) = CallsIn(q) \ {q[FirstOf(I)].call}
<1> DEFINE f == FirstOf(I)
<1>1. f \in I /\ {f} \in SUBSET DOMAIN q
  BY FirstPosition
<1> HIDE DEF f
<1>2. /\ Distinct(Without(q, {f}))
      /\ CallsIn(Without(q, {f})) = CallsIn(q) \ {q[i].call : i \in {f}}
  BY <1>1, WithoutExactly
<1>3. {q[i].call : i \in {f}} = {q[f].call}
  OBVIOUS
<1>4. q[f].call \in CallsIn(q)
  BY <1>1 DEF CallsIn
<1>5. QED
  BY <1>2, <1>3, <1>4 DEF f

\* An entry is in one queue only.
LEMMA QueuesApart ==
    ASSUME TypeOK, OnePlace
    PROVE  CallsIn(pending) \cap CallsIn(delayed) = {}
BY CallsTyped DEF OnePlace, Placed

LEMMA CancelOnePlace ==
    ASSUME QueueInv, OnePlace, NEW job, thread_call_func_cancel_one(job)
    PROVE  OnePlace'
<1> DEFINE p == Matches(pending, job)
           d == Matches(delayed, job)
<1>1. /\ TypeOK /\ Distinct(pending) /\ Distinct(delayed)
      /\ pending \in Seq(Entry) /\ delayed \in Seq(DelayedEntry)
      /\ CallsIn(pending) \cap CallsIn(delayed) = {}
  BY QueuesApart DEF QueueInv, TypeOK, OnePlace
<1>2. UNCHANGED intrVars /\ Unscheduled' = Unscheduled
  BY DEF thread_call_func_cancel_one, clientVars, Unscheduled
<1>3. p \in SUBSET DOMAIN pending /\ d \in SUBSET DOMAIN delayed
  BY MatchesDomain
<1>4. CASE /\ p # {}
           /\ pending' = Without(pending, {FirstOf(p)})
           /\ status' = [status EXCEPT ![pending[FirstOf(p)].call] = "IDLE"]
           /\ free' = Release(free, pending[FirstOf(p)].call)
           /\ UNCHANGED delayed
  <2> DEFINE c == pending[FirstOf(p)].call
  <2> HIDE DEF p
  <2>1. /\ c \in CallsIn(pending) /\ Distinct(pending')
        /\ CallsIn(pending') = CallsIn(pending) \ {c}
    BY <1>1, <1>3, <1>4, WithoutOne
  <2>2. CallsIn(delayed') = CallsIn(delayed) \ {c} /\ Distinct(delayed')
    BY <1>1, <1>4, <2>1
  <2>3. status' = [status EXCEPT ![c] = "IDLE"] /\ free' = Release(free, c)
    BY <1>4
  <2> HIDE DEF c
  <2>4. QED
    BY <1>1, <1>2, <2>1, <2>2, <2>3, RemoveOnePlace
<1>5. CASE /\ p = {} /\ d # {}
           /\ delayed' = Without(delayed, {FirstOf(d)})
           /\ status' = [status EXCEPT ![delayed[FirstOf(d)].call] = "IDLE"]
           /\ free' = Release(free, delayed[FirstOf(d)].call)
           /\ UNCHANGED pending
  <2> DEFINE c == delayed[FirstOf(d)].call
  <2> HIDE DEF d, p
  <2>1. /\ c \in CallsIn(delayed) /\ Distinct(delayed')
        /\ CallsIn(delayed') = CallsIn(delayed) \ {c}
    BY <1>1, <1>3, <1>5, WithoutOne
  <2>2. CallsIn(pending') = CallsIn(pending) \ {c} /\ Distinct(pending')
    BY <1>1, <1>5, <2>1
  <2>3. status' = [status EXCEPT ![c] = "IDLE"] /\ free' = Release(free, c)
    BY <1>5
  <2> HIDE DEF c
  <2>4. QED
    BY <1>1, <1>2, <2>1, <2>2, <2>3, RemoveOnePlace
<1>6. QED
  BY <1>4, <1>5 DEF thread_call_func_cancel_one

LEMMA CancelAllPlace ==
    ASSUME QueueInv, OnePlace, NEW job, thread_call_func_cancel_all(job)
    PROVE  OnePlace'
<1> DEFINE I == Matches(pending, job)
           J == Matches(delayed, job)
           P == {pending[i].call : i \in I}
           D == {delayed[i].call : i \in J}
           rp == ReleasedBy(pending, job)
           rd == ReleasedBy(delayed, job)
<1>1. /\ TypeOK /\ Placed /\ Distinct(pending) /\ Distinct(delayed) /\ Distinct(transit)
      /\ Once(free) /\ free \in Seq(Internal)
      /\ pending \in Seq(Entry) /\ delayed \in Seq(DelayedEntry)
      /\ CallsIn(pending) \cap CallsIn(delayed) = {}
  BY QueuesApart DEF QueueInv, TypeOK, OnePlace
<1>2. /\ pending' = Without(pending, I)
      /\ delayed' = Without(delayed, J)
      /\ status' = [c \in Calls |->
                      IF c \in Victims(pending, job) \cup Victims(delayed, job)
                      THEN "IDLE" ELSE status[c]]
      /\ free' = free \o rp \o rd
      /\ UNCHANGED <<clientVars, intrVars>>
  BY DEF thread_call_func_cancel_all
<1>3. I \in SUBSET DOMAIN pending /\ J \in SUBSET DOMAIN delayed
  BY MatchesDomain
<1>4. P \subseteq CallsIn(pending) /\ D \subseteq CallsIn(delayed)
  BY <1>3 DEF CallsIn
<1>5. /\ CallsIn(pending) \subseteq Calls /\ CallsIn(delayed) \subseteq Calls
      /\ InFree \subseteq Calls
  BY <1>1, CallsTyped DEF Calls
<1>6. Victims(pending, job) = P /\ Victims(delayed, job) = D
  BY <1>4, <1>5 DEF Victims
<1>7. /\ rp \in Seq(Internal) /\ Once(rp) /\ {rp[i] : i \in DOMAIN rp} = P \cap Internal
      /\ rd \in Seq(Internal) /\ Once(rd) /\ {rd[i] : i \in DOMAIN rd} = D \cap Internal
  BY <1>1, ReleasedType, ReleasedOnce
<1> HIDE DEF P, D, I, J, rp, rd
<1>8. /\ Distinct(pending') /\ CallsIn(pending') = CallsIn(pending) \ P
      /\ Distinct(delayed') /\ CallsIn(delayed') = CallsIn(delayed) \ D
  BY <1>1, <1>2, <1>3, WithoutExactly DEF P, D
<1>9. /\ CallsIn(pending') = CallsIn(pending) \ (P \cup D)
      /\ CallsIn(delayed') = CallsIn(delayed) \ (P \cup D)
  BY <1>1, <1>4, <1>8
<1>10. InFree \cap (P \cup D) = {}
  BY <1>1, <1>4, <1>5 DEF Placed
<1>11. Once(free') /\ InFree' = InFree \cup ((P \cup D) \cap Internal)
  <2> DEFINE fp == free \o rp
  <2>1. \A i \in DOMAIN free, j \in DOMAIN rp : free[i] # rp[j]
    <3> SUFFICES ASSUME NEW i \in DOMAIN free, NEW j \in DOMAIN rp PROVE free[i] # rp[j]
      OBVIOUS
    <3>1. free[i] \in InFree
      BY DEF InFree
    <3>2. rp[j] \in P
      BY <1>7
    <3>3. QED
      BY <1>10, <3>1, <3>2
  <2>2. fp \in Seq(Internal) /\ Once(fp) /\ Members(fp) = Members(free) \cup Members(rp)
    BY <1>1, <1>7, <2>1, OnceConcat
  <2> HIDE DEF fp
  <2>3. Members(fp) = InFree \cup (P \cap Internal)
    BY <1>7, <2>2 DEF InFree, Members
  <2>4. \A i \in DOMAIN fp, j \in DOMAIN rd : fp[i] # rd[j]
    <3> SUFFICES ASSUME NEW i \in DOMAIN fp, NEW j \in DOMAIN rd PROVE fp[i] # rd[j]
      OBVIOUS
    <3>1. fp[i] \in InFree \cup P
      BY <2>3 DEF Members
    <3>2. rd[j] \in D
      BY <1>7
    <3>3. QED
      BY <1>1, <1>4, <1>10, <3>1, <3>2
  <2>5. Once(fp \o rd) /\ Members(fp \o rd) = Members(fp) \cup Members(rd)
    BY <1>7, <2>2, <2>4, OnceConcat
  <2>6. free' = fp \o rd
    BY <1>2 DEF fp
  <2>7. InFree' = Members(free') /\ Members(rd) = D \cap Internal
    BY <1>7 DEF InFree, Members
  <2>8. QED
    BY <2>3, <2>5, <2>6, <2>7
<1>12. \A c \in Calls : status'[c] = IF c \in P \cup D THEN "IDLE" ELSE status[c]
  BY <1>2, <1>6
<1>13. transit' = transit /\ intr' = intr /\ Unscheduled' = Unscheduled
  BY <1>2 DEF intrVars, clientVars, Unscheduled
<1>14. P \cup D \in SUBSET (CallsIn(pending) \cup CallsIn(delayed))
  BY <1>4
<1>15. QED
  BY <1>1, <1>8, <1>9, <1>11, <1>12, <1>13, <1>14, LeavePlace DEF OnePlace

LEMMA CancelPlace ==
    ASSUME OwnersWait, QueueInv, OnePlace, NEW call \in External, thread_call_cancel(call)
    PROVE  OnePlace'
<1> DEFINE P == {i \in DOMAIN pending : pending[i].call = call}
           D == {i \in DOMAIN delayed : delayed[i].call = call}
<1>1. /\ TypeOK /\ Placed /\ Listed /\ Distinct(pending) /\ Distinct(delayed)
      /\ pending \in Seq(Entry) /\ delayed \in Seq(DelayedEntry)
      /\ status \in [Calls -> Status]
      /\ CallsIn(pending) \cap CallsIn(delayed) = {}
  BY QueuesApart DEF QueueInv, TypeOK, OnePlace
<1>2. /\ Section
      /\ status' = [status EXCEPT ![call] = "IDLE"]
      /\ cancelled' = cancelled \cup {call}
      /\ UNCHANGED <<allocated, free, intrVars>>
  BY DEF thread_call_cancel
<1>3. call \in Calls /\ call \notin Internal
  BY CallsAssumption DEF Calls
<1>4. free' = Release(free, call)
  BY <1>2, <1>3 DEF Release
<1>5. \A x \in Unscheduled' : x \in Unscheduled \/ x = call
  BY <1>2 DEF Unscheduled
<1>6. CASE status[call] = "PENDING"
  <2>1. pending' = Without(pending, {FirstOf(P)}) /\ UNCHANGED delayed
    BY <1>6 DEF thread_call_cancel, Remove
  <2>2. P # {} /\ P \in SUBSET DOMAIN pending
    BY <1>1, <1>3, <1>6 DEF Listed, CallsIn
  <2>3. \A i \in P : pending[i].call = call
    OBVIOUS
  <2> HIDE DEF P
  <2>4. pending[FirstOf(P)].call = call
    BY <1>1, <2>2, <2>3, FirstPosition
  <2>5. /\ call \in CallsIn(pending) /\ Distinct(pending')
        /\ CallsIn(pending') = CallsIn(pending) \ {call}
    BY <1>1, <2>1, <2>2, <2>4, WithoutOne
  <2>6. CallsIn(delayed') = CallsIn(delayed) \ {call} /\ Distinct(delayed')
    BY <1>1, <2>1, <2>5
  <2>7. QED
    BY <1>1, <1>2, <1>4, <1>5, <2>5, <2>6, RemoveOnePlace
<1>7. CASE status[call] = "DELAYED"
  <2>1. delayed' = Without(delayed, {FirstOf(D)}) /\ UNCHANGED pending
    BY <1>7 DEF thread_call_cancel, Remove
  <2>2. D # {} /\ D \in SUBSET DOMAIN delayed
    BY <1>1, <1>3, <1>7 DEF Listed, CallsIn
  <2>3. \A i \in D : delayed[i].call = call
    OBVIOUS
  <2> HIDE DEF D
  <2>4. delayed[FirstOf(D)].call = call
    BY <1>1, <2>2, <2>3, FirstPosition
  <2>5. /\ call \in CallsIn(delayed) /\ Distinct(delayed')
        /\ CallsIn(delayed') = CallsIn(delayed) \ {call}
    BY <1>1, <2>1, <2>2, <2>4, WithoutOne
  <2>6. CallsIn(pending') = CallsIn(pending) \ {call} /\ Distinct(pending')
    BY <1>1, <2>1, <2>5
  <2>7. QED
    BY <1>1, <1>2, <1>4, <1>5, <2>5, <2>6, RemoveOnePlace
<1>8. CASE status[call] = "IDLE"
  <2>1. UNCHANGED <<pending, delayed>>
    BY <1>8 DEF thread_call_cancel
  <2>2. status' = status
    BY <1>1, <1>2, <1>3, <1>8
  <2>3. transit = <<>>
    BY <1>1, <1>2, NothingInTransit DEF Section
  <2>4. CallsIn(transit) = {}
    BY <2>3, EmptyCalls
  <2>5. transit' = transit
    BY <1>2 DEF intrVars
  <2>6. QED
    BY <1>1, <1>2, <1>5, <1>8, <2>1, <2>2, <2>3, <2>4, <2>5, SamePlace
<1>9. QED
  BY <1>1, <1>3, <1>6, <1>7, <1>8 DEF Status

\* A callout thread takes the first pending call.
LEMMA TakePlace ==
    ASSUME QueueInv, OnePlace, NEW running \in Nat, TakeOrPark(running),
           UNCHANGED <<clientVars, delayed, intrVars>>
    PROVE  OnePlace'
<1>1. /\ TypeOK /\ Distinct(pending) /\ Distinct(delayed) /\ pending \in Seq(Entry)
      /\ pending_call_num = Len(pending)
      /\ CallsIn(pending) \cap CallsIn(delayed) = {}
  BY QueuesApart DEF QueueInv, TypeOK, OnePlace
<1>2. Unscheduled' = Unscheduled /\ delayed' = delayed /\ transit' = transit /\ intr' = intr
  BY DEF clientVars, intrVars, Unscheduled
<1>3. CASE pending_call_num > 0
  <2> DEFINE c == Head(pending).call
  <2>1. /\ pending' = Tail(pending)
        /\ status' = [status EXCEPT ![c] = "IDLE"]
        /\ free' = Release(free, c)
    BY <1>3 DEF TakeOrPark
  <2>2. pending # <<>>
    BY <1>1, <1>3, EmptySeq
  <2>3. CallsIn(pending) = CallsIn(pending') \cup {c}
    BY <1>1, <2>1, <2>2, TailCalls
  <2>4. Distinct(pending') /\ c \notin CallsIn(pending')
    BY <1>1, <2>1, <2>2, TailCalls
  <2> HIDE DEF c
  <2>5. CallsIn(delayed') = CallsIn(delayed) \ {c} /\ Distinct(delayed')
    BY <1>1, <1>2, <2>3
  <2>6. c \in CallsIn(pending) /\ CallsIn(pending') = CallsIn(pending) \ {c}
    BY <2>3, <2>4
  <2>7. QED
    BY <1>1, <1>2, <2>1, <2>4, <2>5, <2>6, RemoveOnePlace
<1>4. CASE ~(pending_call_num > 0)
  <2>1. UNCHANGED <<pending, status, free>>
    BY <1>4 DEF TakeOrPark
  <2>2. QED
    BY <1>1, <1>2, <2>1, NoMove
<1>5. QED
  BY <1>3, <1>4

LEMMA PoolPlace ==
    ASSUME QueueInv, OnePlace, Pool \/ _call_thread_wake
    PROVE  OnePlace'
<1>1. TypeOK /\ active_call_num \in Nat
  BY DEF QueueInv, TypeOK
<1>2. CASE _call_thread_continue
  <2>1. TakeOrPark(active_call_num) /\ UNCHANGED <<clientVars, delayed, intrVars>>
    BY <1>2 DEF _call_thread_continue
  <2>2. QED
    BY <1>1, <2>1, TakePlace
<1>3. CASE call_returns
  <2>1. /\ TakeOrPark(active_call_num - 1) /\ UNCHANGED <<clientVars, delayed, intrVars>>
        /\ active_call_num > 0
    BY <1>3 DEF call_returns
  <2>2. active_call_num - 1 \in Nat
    BY <1>1, <2>1
  <2>3. QED
    BY <2>1, <2>2, TakePlace
<1>4. CASE _call_activate_thread_continue \/ _call_thread_wake
  <2>1. UNCHANGED <<clientVars, queueVars, intrVars>>
    BY <1>4 DEF _call_activate_thread_continue, _call_thread_wake
  <2>2. /\ UNCHANGED <<status, free, pending, delayed, transit>>
        /\ Unscheduled' = Unscheduled /\ intr' = intr
    BY <2>1 DEF clientVars, queueVars, intrVars, Unscheduled
  <2>3. QED
    BY <1>1, <2>2, NoMove
<1>5. QED
  BY <1>2, <1>3, <1>4 DEF Pool

\* An entry is idle before it is allocated and when it is freed.
LEMMA StoragePlace ==
    ASSUME OwnersWait, QueueInv, OnePlace, NEW call \in External
    PROVE  /\ \A job \in Jobs : thread_call_allocate(call, job) => OnePlace'
           /\ thread_call_free(call) => OnePlace'
<1>1. /\ TypeOK /\ Placed /\ status \in [Calls -> Status] /\ call \in Calls
  BY DEF QueueInv, TypeOK, OnePlace, Calls
<1>2. ASSUME NEW job \in Jobs, thread_call_allocate(call, job)
      PROVE  OnePlace'
  <2>1. /\ call \notin allocated /\ allocated' = allocated \cup {call}
        /\ status' = [status EXCEPT ![call] = "IDLE"]
        /\ UNCHANGED <<cancelled, free, pending, delayed, intrVars>>
    BY <1>2 DEF thread_call_allocate
  <2>2. status[call] = "IDLE"
    BY <1>1, <2>1 DEF Placed, Unscheduled
  <2>3. status' = status
    BY <1>1, <2>1, <2>2
  <2>4. Unscheduled' \subseteq Unscheduled /\ transit' = transit /\ intr' = intr
    BY <2>1 DEF Unscheduled, intrVars
  <2>5. QED
    BY <1>1, <2>1, <2>3, <2>4, NoMove
<1>3. ASSUME thread_call_free(call)
      PROVE  OnePlace'
  <2>1. /\ Section /\ status[call] = "IDLE" /\ allocated' = allocated \ {call}
        /\ cancelled' = cancelled \ {call}
        /\ UNCHANGED <<queueVars, intrVars>>
    BY <1>3 DEF thread_call_free
  <2>2. \A x \in Unscheduled' : x \in Unscheduled \/ x = call
    BY <2>1 DEF Unscheduled
  <2>3. transit = <<>>
    BY <1>1, <2>1, NothingInTransit DEF Section
  <2>4. CallsIn(transit) = {}
    BY <2>3, EmptyCalls
  <2>5. UNCHANGED <<status, free, pending, delayed, transit, intr>>
    BY <2>1 DEF queueVars, intrVars
  <2>6. QED
    BY <1>1, <2>1, <2>2, <2>3, <2>4, <2>5, SamePlace
<1>4. QED
  BY <1>2, <1>3

LEMMA ClientPlace ==
    ASSUME OwnersWait, QueueInv, OnePlace, Client
    PROVE  OnePlace'
<1>0. \A call \in External : spec_proto[call] \in Jobs
  BY DEF QueueInv, TypeOK
<1>1. CASE \E job \in Jobs :
             \/ \E unique \in BOOLEAN : thread_call_func(job, unique)
             \/ \E deadline \in Times : thread_call_func_delayed(job, deadline)
             \/ thread_call_func_cancel_one(job)
             \/ thread_call_func_cancel_all(job)
  BY <1>1, FuncPlace, CancelOnePlace, CancelAllPlace
<1>2. CASE \E call \in External, job \in Jobs :
             \/ thread_call_allocate(call, job)
             \/ thread_call_enter_spec(call, job)
             \/ \E deadline \in Times : thread_call_enter_spec_delayed(call, job, deadline)
  BY <1>2, StoragePlace, OwnerPlace
<1>3. CASE \E call \in External :
             \/ thread_call_enter(call)
             \/ \E deadline \in Times : thread_call_enter_delayed(call, deadline)
             \/ thread_call_cancel(call)
             \/ thread_call_free(call)
  BY <1>0, <1>3, StoragePlace, OwnerPlace, CancelPlace
     DEF thread_call_enter, thread_call_enter_delayed
<1>4. QED
  BY <1>1, <1>2, <1>3 DEF Client

\* The entries that are due go from the delayed queue into transit.
LEMMA ExpirePlace ==
    ASSUME QueueInv, OnePlace, _delayed_call_interrupt
    PROVE  OnePlace'
<1> DEFINE k == DueNum
           R == {delayed[i].call : i \in 1 .. k}
<1>1. /\ TypeOK /\ Placed /\ Distinct(delayed) /\ Distinct(pending) /\ Once(free)
      /\ delayed \in Seq(DelayedEntry) /\ stamp \in Times
      /\ CallsIn(pending) \cap CallsIn(delayed) = {}
  BY QueuesApart DEF QueueInv, TypeOK, OnePlace
<1>2. k \in 0 .. Len(delayed)
  BY <1>1, DueProperties
<1>3. /\ intr = "lock" /\ intr' = "loop"
      /\ transit' = [i \in 1 .. k |-> [call |-> delayed[i].call, job |-> delayed[i].job]]
      /\ delayed' = SubSeq(delayed, k + 1, Len(delayed))
      /\ status' = [c \in Calls |-> IF \E i \in 1 .. k : delayed[i].call = c
                                    THEN "IDLE" ELSE status[c]]
      /\ UNCHANGED <<clientVars, free, pending>>
  BY DEF _delayed_call_interrupt
<1> HIDE DEF k
<1>4. transit = <<>>
  BY <1>3 DEF OnePlace
<1>5. Len(delayed) \in Nat /\ DOMAIN delayed = 1 .. Len(delayed) /\ k \in Nat
  BY <1>1, <1>2, LenProperties
<1>6. 1 .. k \subseteq DOMAIN delayed
  BY <1>2, <1>5
<1>7. DOMAIN transit' = 1 .. k /\ \A i \in 1 .. k : transit'[i].call = delayed[i].call
  BY <1>3
<1>8. CallsIn(transit') = R
  BY <1>7 DEF CallsIn
<1>9. Distinct(transit')
  BY <1>1, <1>6, <1>7 DEF Distinct
<1>10. Distinct(delayed')
  BY <1>1, <1>2, <1>3, SuffixCalls
<1>11. CallsIn(delayed') = {delayed[i].call : i \in k + 1 .. Len(delayed)}
  BY <1>1, <1>2, <1>3, SuffixCalls
<1>12. \A i \in 1 .. k : delayed[i].call \notin CallsIn(delayed')
  BY <1>1, <1>2, <1>3, SuffixCalls
<1>13. CallsIn(delayed') = CallsIn(delayed) \ R
  <2>1. \A i \in DOMAIN delayed : i \in 1 .. k \/ i \in k + 1 .. Len(delayed)
    BY <1>2, <1>5
  <2>2. \A i \in k + 1 .. Len(delayed) : i \in DOMAIN delayed
    BY <1>2, <1>5
  <2>3. CallsIn(delayed') \subseteq CallsIn(delayed)
    BY <1>11, <2>2 DEF CallsIn
  <2>4. CallsIn(delayed') \cap R = {}
    BY <1>12
  <2>5. \A c \in CallsIn(delayed) : c \in R \/ c \in CallsIn(delayed')
    BY <1>11, <2>1 DEF CallsIn
  <2>6. QED
    BY <2>3, <2>4, <2>5
<1>14. R \subseteq CallsIn(delayed)
  BY <1>6 DEF CallsIn
<1>15. \A c \in Calls : status'[c] = IF c \in R THEN "IDLE" ELSE status[c]
  BY <1>3
<1> HIDE DEF R
<1>16. CallsIn(pending') = CallsIn(pending) \ R
  BY <1>1, <1>3, <1>14
<1>17. free' = free /\ InFree' = InFree /\ Unscheduled' = Unscheduled /\ pending' = pending
  BY <1>3 DEF InFree, Unscheduled, clientVars
<1>18. R \in SUBSET (CallsIn(pending) \cup CallsIn(delayed))
  BY <1>14
<1>19. QED
  BY <1>1, <1>3, <1>4, <1>8, <1>9, <1>10, <1>13, <1>15, <1>16, <1>17, <1>18, LeavePlace

\* The first entry in transit becomes pending.
LEMMA PendPlace ==
    ASSUME QueueInv, OnePlace, interrupt_pend
    PROVE  OnePlace'
<1> DEFINE e == Head(transit)
           c == e.call
<1>1. /\ TypeOK /\ Placed /\ Distinct(transit) /\ Distinct(delayed) /\ Once(free)
      /\ transit \in Seq(Entry)
  BY DEF QueueInv, TypeOK, OnePlace
<1>2. /\ transit # <<>> /\ transit' = Tail(transit) /\ intr' = "wake"
      /\ pending' = Append(pending, e)
      /\ status' = [status EXCEPT ![c] = "PENDING"]
      /\ UNCHANGED <<clientVars, free, delayed>>
  BY DEF interrupt_pend
<1>3. e \in Entry
  BY <1>1, <1>2, TailCalls
<1>4. CallsIn(transit) = CallsIn(transit') \cup {c}
  BY <1>1, <1>2, TailCalls
<1>5. Distinct(transit') /\ c \notin CallsIn(transit')
  BY <1>1, <1>2, TailCalls
<1>6. c \in Calls
  BY <1>3 DEF Entry
<1> HIDE DEF e
<1>7. status[c] = "IDLE" /\ c \notin InFree /\ c \notin Unscheduled
  BY <1>1, <1>4, <1>6 DEF Placed
<1>8. Distinct(pending') /\ CallsIn(pending') = CallsIn(pending) \cup {c}
  BY <1>1, <1>2, <1>3, <1>7, AppendPlace
<1> HIDE DEF c
<1>9. /\ free' = free /\ InFree' = InFree /\ Unscheduled' = Unscheduled
      /\ delayed' = delayed /\ CallsIn(delayed') = CallsIn(delayed)
  BY <1>2 DEF InFree, Unscheduled, clientVars
<1>10. QED
  BY <1>1, <1>2, <1>4, <1>5, <1>6, <1>7, <1>8, <1>9, EnterPlace

LEMMA InterruptPlace ==
    ASSUME QueueInv, OnePlace, Interrupt
    PROVE  OnePlace'
<1>1. TypeOK
  BY DEF QueueInv
<1>2. CASE clock_interrupt
  <2>1. UNCHANGED <<clientVars, queueVars, transit>> /\ intr = "off"
    BY <1>2 DEF clock_interrupt
  <2>2. UNCHANGED <<status, free, pending, delayed, transit>> /\ Unscheduled' = Unscheduled
    BY <2>1 DEF clientVars, queueVars, Unscheduled
  <2>3. transit = <<>>
    BY <2>1 DEF OnePlace
  <2>4. QED
    BY <1>1, <2>2, <2>3, NoMove
<1>3. CASE interrupt_wake \/ interrupt_relock
  <2>1. UNCHANGED <<clientVars, queueVars, transit>> /\ intr' \in {"relock", "loop"}
    BY <1>3 DEF interrupt_wake, interrupt_relock
  <2>2. UNCHANGED <<status, free, pending, delayed, transit>> /\ Unscheduled' = Unscheduled
    BY <2>1 DEF clientVars, queueVars, Unscheduled
  <2>3. QED
    BY <1>1, <2>1, <2>2, NoMove
<1>4. CASE interrupt_done
  <2>1. UNCHANGED <<clientVars, queueVars, transit>> /\ transit = <<>>
    BY <1>4 DEF interrupt_done
  <2>2. UNCHANGED <<status, free, pending, delayed, transit>> /\ Unscheduled' = Unscheduled
    BY <2>1 DEF clientVars, queueVars, Unscheduled
  <2>3. QED
    BY <1>1, <2>1, <2>2, NoMove
<1>5. QED
  BY <1>2, <1>3, <1>4, ExpirePlace, PendPlace DEF Interrupt

LEMMA InitPlace ==
    ASSUME Init
    PROVE  OnePlace
<1> DEFINE n == Cardinality(Internal)
<1>1. /\ status = [c \in Calls |-> "IDLE"] /\ pending = <<>> /\ delayed = <<>>
      /\ transit = <<>> /\ allocated = {} /\ cancelled = {}
      /\ free \in [1 .. n -> Internal] /\ {free[i] : i \in DOMAIN free} = Internal
  BY DEF Init, thread_call_init
<1>2. n \in Nat
  BY CallsAssumption, FS_CardinalityType
<1>3. IsFiniteSet(1 .. n) /\ Cardinality(1 .. n) = n
  BY <1>2, FS_Interval
<1>4. free \in Surjection(1 .. n, Internal)
  BY <1>1 DEF Surjection
<1>5. free \in Injection(1 .. n, Internal)
  BY <1>3, <1>4, FS_SurjSameCardinalityImpliesInj
<1>6. Once(free)
  BY <1>1, <1>5 DEF Once, Injection, IsInjective
<1>7. CallsIn(pending) = {} /\ CallsIn(delayed) = {} /\ CallsIn(transit) = {}
  BY <1>1, EmptyCalls
<1>8. Distinct(pending) /\ Distinct(delayed) /\ Distinct(transit)
  BY <1>1, EmptyCalls
<1>9. InFree = Internal
  BY <1>1 DEF InFree
<1>10. Placed
  BY <1>1, <1>7, <1>9 DEF Placed
<1>11. QED
  BY <1>1, <1>6, <1>8, <1>10 DEF OnePlace

LEMMA StepPlace ==
    ASSUME OwnersWait, QueueInv, OnePlace, [Next]_vars
    PROVE  OnePlace'
<1>1. CASE UNCHANGED vars
  <2>1. UNCHANGED <<clientVars, queueVars, intrVars>>
    BY <1>1 DEF vars
  <2>2. /\ UNCHANGED <<status, free, pending, delayed, transit, intr>>
        /\ Unscheduled' = Unscheduled
    BY <2>1 DEF clientVars, queueVars, intrVars, Unscheduled
  <2>3. QED
    BY <2>2, NoMove DEF QueueInv
<1>2. QED
  BY <1>1, ClientPlace, PoolPlace, InterruptPlace DEF Next

\* Every entry is in one place: the queue its status names, in transit, on the
\* free queue or with its owner (thread_call.c).
THEOREM PlaceInvariance == ASSUME OwnersWait PROVE Spec => []OnePlace
<1>1. Init => OnePlace
  BY InitPlace
<1>2. QueueInv /\ OnePlace /\ [Next]_vars => OnePlace'
  BY StepPlace
<1>3. QED
  BY <1>1, <1>2, QueueInvariance, PTL DEF Spec

\* How often an entry occurs in a queue without repetition.
LEMMA OccursOnce ==
    ASSUME NEW q, Distinct(q), NEW c
    PROVE  Occurs(q, c) = IF c \in CallsIn(q) THEN 1 ELSE 0
<1> DEFINE I == {i \in DOMAIN q : q[i].call = c}
<1>1. CASE c \in CallsIn(q)
  <2>1. PICK i \in DOMAIN q : q[i].call = c
    BY <1>1 DEF CallsIn
  <2>2. I = {i}
    BY <2>1 DEF Distinct
  <2>3. Cardinality(I) = 1
    BY <2>2, FS_Singleton
  <2>4. QED
    BY <1>1, <2>3 DEF Occurs
<1>2. CASE c \notin CallsIn(q)
  <2>1. I = {}
    BY <1>2 DEF CallsIn
  <2>2. Cardinality(I) = 0
    BY <2>1, FS_EmptySet
  <2>3. QED
    BY <1>2, <2>2 DEF Occurs
<1>3. QED
  BY <1>1, <1>2

LEMMA FreeOnce ==
    ASSUME Once(free), NEW c
    PROVE  Cardinality({i \in DOMAIN free : free[i] = c}) = IF c \in InFree THEN 1 ELSE 0
<1> DEFINE I == {i \in DOMAIN free : free[i] = c}
<1>1. CASE c \in InFree
  <2>1. PICK i \in DOMAIN free : free[i] = c
    BY <1>1 DEF InFree
  <2>2. I = {i}
    BY <2>1 DEF Once
  <2>3. Cardinality(I) = 1
    BY <2>2, FS_Singleton
  <2>4. QED
    BY <1>1, <2>3
<1>2. CASE c \notin InFree
  <2>1. I = {}
    BY <1>2 DEF InFree
  <2>2. Cardinality(I) = 0
    BY <2>1, FS_EmptySet
  <2>3. QED
    BY <1>2, <2>2
<1>3. QED
  BY <1>1, <1>2

LEMMA OnePlaceImplies ==
    ASSUME QueueInv, OnePlace
    PROVE  OneQueue /\ CancelUnschedules
<1>1. /\ TypeOK /\ Placed /\ Listed /\ pending_call_num = Len(pending)
      /\ Distinct(pending) /\ Distinct(delayed) /\ Distinct(transit) /\ Once(free)
      /\ status \in [Calls -> Status]
  BY DEF QueueInv, OnePlace, TypeOK
<1>2. OneQueue
  <2> SUFFICES ASSUME NEW c \in Calls
               PROVE  /\ Occurs(pending, c) = (IF status[c] = "PENDING" THEN 1 ELSE 0)
                      /\ Occurs(delayed, c) = (IF status[c] = "DELAYED" THEN 1 ELSE 0)
                      /\ Occurs(transit, c) <= (IF status[c] = "IDLE" THEN 1 ELSE 0)
                      /\ c \in Internal =>
                           Cardinality({i \in DOMAIN free : free[i] = c}) +
                           Occurs(pending, c) + Occurs(delayed, c) + Occurs(transit, c) = 1
                      /\ c \in External \ allocated =>
                           Occurs(pending, c) + Occurs(delayed, c) + Occurs(transit, c) = 0
    BY <1>1 DEF OneQueue
  <2> DEFINE f == Cardinality({i \in DOMAIN free : free[i] = c})
             p == Occurs(pending, c)
             d == Occurs(delayed, c)
             t == Occurs(transit, c)
  <2>1. p = (IF c \in CallsIn(pending) THEN 1 ELSE 0)
    BY <1>1, OccursOnce
  <2>2. d = (IF c \in CallsIn(delayed) THEN 1 ELSE 0)
    BY <1>1, OccursOnce
  <2>3. t = (IF c \in CallsIn(transit) THEN 1 ELSE 0)
    BY <1>1, OccursOnce
  <2>4. f = (IF c \in InFree THEN 1 ELSE 0)
    BY <1>1, FreeOnce
  <2> HIDE DEF f, p, d, t
  <2>5. status[c] \in {"IDLE", "PENDING", "DELAYED"}
    BY <1>1 DEF Status
  <2>6. c \in CallsIn(pending) <=> status[c] = "PENDING"
    BY <1>1 DEF Placed, Listed
  <2>7. c \in CallsIn(delayed) <=> status[c] = "DELAYED"
    BY <1>1 DEF Placed, Listed
  <2>8. c \in CallsIn(transit) => status[c] = "IDLE" /\ c \notin InFree
    BY <1>1 DEF Placed
  <2>9. p = (IF status[c] = "PENDING" THEN 1 ELSE 0) /\ d = (IF status[c] = "DELAYED" THEN 1 ELSE 0)
    BY <2>1, <2>2, <2>6, <2>7
  <2>10. t <= (IF status[c] = "IDLE" THEN 1 ELSE 0)
    BY <2>3, <2>8
  <2>11. c \in Internal => f + p + d + t = 1
    <3> SUFFICES ASSUME c \in Internal PROVE f + p + d + t = 1
      OBVIOUS
    <3>1. /\ c \in InFree => status[c] = "IDLE"
          /\ status[c] = "IDLE" => c \in InFree \/ c \in CallsIn(transit)
      BY <1>1 DEF Placed
    <3>2. QED
      BY <2>3, <2>4, <2>5, <2>8, <2>9, <3>1
  <2>12. c \in External \ allocated => p + d + t = 0
    <3> SUFFICES ASSUME c \in External \ allocated PROVE p + d + t = 0
      OBVIOUS
    <3>1. status[c] = "IDLE" /\ c \notin CallsIn(transit)
      BY <1>1 DEF Placed, Unscheduled
    <3>2. QED
      BY <2>3, <2>9, <3>1
  <2>13. QED
    BY <2>9, <2>10, <2>11, <2>12 DEF f, p, d, t
<1>3. CancelUnschedules
  <2> SUFFICES ASSUME NEW c \in cancelled, c \in CallsIn(pending) \cup CallsIn(delayed)
               PROVE  FALSE
    BY DEF CancelUnschedules
  <2>1. c \in Calls
    BY <1>1, CallsTyped
  <2>2. status[c] = "IDLE"
    BY <1>1, <2>1 DEF Placed, Unscheduled
  <2>3. QED
    BY <1>1, <2>1, <2>2 DEF Placed
<1>4. QED
  BY <1>2, <1>3

\* No entry of thread_call.c is on two queues, on a queue its status does not
\* name, or lost from the internal storage.
THEOREM OneQueueHolds == ASSUME OwnersWait PROVE Spec => []OneQueue
<1>1. QueueInv /\ OnePlace => OneQueue
  BY OnePlaceImplies
<1>2. QED
  BY <1>1, QueueInvariance, PlaceInvariance, PTL

\* After thread_call_cancel an entry stays off both queues until its owner
\* enters it again.
THEOREM CancelsHold == ASSUME OwnersWait PROVE Spec => []CancelUnschedules
<1>1. QueueInv /\ OnePlace => CancelUnschedules
  BY OnePlaceImplies
<1>2. QED
  BY <1>1, QueueInvariance, PlaceInvariance, PTL
=============================================================================
