----------------------------- MODULE ThreadCall -----------------------------
(***************************************************************************)
(* Thread-based callouts (kern/thread_call.c): functions to be called by   *)
(* a pool of kernel threads, at once or at a deadline, with the system     *)
(* timer (machdep/*/machine_clock.c) that drives the deadlines.            *)
(*                                                                         *)
(* One action is one critical section of thread_call_lock, taken at        *)
(* splsched.  The code drops the lock before its wakeups are issued and    *)
(* between two entries of the timer interrupt; what another processor can  *)
(* do there is what NCPUS > 1 adds.  With NCPUS = 1 (the default of        *)
(* conf/MASTER) nothing runs before the section that is under way has      *)
(* ended, interrupts included, since splsched masks the clock.             *)
(*                                                                         *)
(* Callout threads are interchangeable, so the model counts them.          *)
(***************************************************************************)
EXTENDS Queue

CONSTANTS Internal,       \* the entries of internal_call_storage
          External,       \* the entries clients allocate
          Jobs,           \* the {func, spec} pairs
          CallThreadMin,  \* call_thread_min
          NCPUS,          \* number of processors
          MaxTime,        \* bound: the clock stops there, ticks go on
          MaxLoad         \* bound: calls scheduled or running at a time

ASSUME CallsAssumption == /\ IsFiniteSet(Internal) /\ IsFiniteSet(External)
                          /\ Internal \cap External = {}
ASSUME CountsAssumption == /\ CallThreadMin \in Nat
                           /\ NCPUS \in Nat \ {0}
                           /\ MaxTime \in Nat
                           /\ MaxLoad \in Nat

VARIABLES status,            \* IDLE, PENDING or DELAYED, of each entry
          spec_proto,        \* the job an external entry was allocated with
          allocated,         \* the external entries that exist
          free,              \* internal_call_free_queue
          pending,           \* pending_call_queue
          delayed,           \* delayed_call_queue
          pending_call_num,  \* calls on the pending queue
          active_call_num,   \* calls being executed
          call_thread_num,   \* callout threads, the one being created included
          ready,             \* callout threads on their way to the lock
          waiters,           \* callout threads asleep on &pending_call_num
          activate,          \* the activate thread is not asleep
          waking,            \* callers in _call_thread_wake past the unlock: how
                             \* many wake a "call" thread, how many "both" that
                             \* and the activate thread
          timer,             \* system_timer: [is_set, expire_time]
          now,               \* the clock
          intr,              \* where _delayed_call_interrupt is
          stamp,             \* its timestamp
          transit,           \* its intransit_call_queue
          intrWake,          \* its wake_activate_thread
          cancelled          \* history: external entries not entered since
                             \* thread_call_cancel returned

clientVars == <<spec_proto, allocated, cancelled>>
queueVars  == <<status, free, pending, delayed, pending_call_num>>
poolVars   == <<active_call_num, call_thread_num, ready, waiters, activate>>
clockVars  == <<timer, now>>
intrVars   == <<intr, stamp, transit, intrWake>>
vars == <<clientVars, queueVars, poolVars, waking, clockVars, intrVars>>

Calls  == Internal \cup External
Times  == 0..MaxTime
Status == {"IDLE", "PENDING", "DELAYED"}

-----------------------------------------------------------------------------
(* Processors and the lock.                                                *)

\* The interrupt handler holds thread_call_lock between its wakeups.
LockFree == intr # "loop"

InWake == waking["call"] + waking["both"]
InIntr == IF intr = "off" THEN 0 ELSE 1

\* A processor that is not in the middle of a section runs the next action.
CpuFree == InWake + InIntr < NCPUS
Section == LockFree /\ CpuFree

-----------------------------------------------------------------------------
(* Queues.                                                                 *)

CallsIn(q) == {q[i].call : i \in DOMAIN q}
Matches(q, job) == {i \in DOMAIN q : q[i].job = job}

\* _delayed_call_enqueue: behind the entries with an earlier deadline, and
\* behind the first one with the same deadline.
InsertAt(q, deadline) ==
    LET later == {i \in DOMAIN q : deadline <= q[i].deadline}
    IN  IF later = {} THEN Len(q)
        ELSE IF deadline = q[FirstOf(later)].deadline THEN FirstOf(later)
        ELSE FirstOf(later) - 1

\* Mutant: sets the timer only for the first entry of an empty queue.
_delayed_call_enqueue_late(e) ==
    LET p == InsertAt(delayed, e.deadline)
    IN  /\ delayed' = SubSeq(delayed, 1, p) \o <<e>> \o SubSeq(delayed, p + 1, Len(delayed))
        /\ timer' = IF delayed = <<>> THEN [is_set |-> TRUE, expire_time |-> e.deadline]
                    ELSE timer

_delayed_call_enqueue(e) ==
    LET p == InsertAt(delayed, e.deadline)
    IN  /\ delayed' = SubSeq(delayed, 1, p) \o <<e>> \o SubSeq(delayed, p + 1, Len(delayed))
        /\ timer' = IF p = 0 THEN [is_set |-> TRUE, expire_time |-> e.deadline]
                    ELSE timer

\* thread_call_release: internal entries go back to the free queue.
Release(f, call) == IF call \in Internal THEN Append(f, call) ELSE f

-----------------------------------------------------------------------------
(* _call_thread_wake: first the decision, under the lock, then the wakeups *)
(* of a sleeping callout thread and, if so decided, the activate thread.   *)

\* Mutant: forgets the threads that are busy.
MoreThreads_idle(pendingNum) == call_thread_num < pendingNum

MoreThreads(pendingNum) == call_thread_num < active_call_num + pendingNum
WakeKinds == {"call", "both"}

WakeOne ==
    IF waiters > 0
    THEN waiters' = waiters - 1 /\ ready' = ready + 1
    ELSE UNCHANGED <<waiters, ready>>

\* Put an entry on the pending queue and go on to the wakeups.
PendAndWake(e) ==
    /\ pending' = Append(pending, e)
    /\ pending_call_num' = pending_call_num + 1
    /\ LET kind == IF MoreThreads(pending_call_num + 1) THEN "both" ELSE "call"
       IN  waking' = [waking EXCEPT ![kind] = @ + 1]

_call_thread_wake ==
    \E kind \in WakeKinds :
        /\ waking[kind] > 0
        /\ waking' = [waking EXCEPT ![kind] = @ - 1]
        /\ WakeOne
        /\ activate' = (activate \/ kind = "both")
        /\ UNCHANGED <<clientVars, queueVars, active_call_num, call_thread_num,
                       clockVars, intrVars>>

-----------------------------------------------------------------------------
(* Function callouts.                                                      *)

\* The calls that are scheduled or running; clients keep them below MaxLoad.
Load == active_call_num + Len(pending) + Len(delayed) + Len(transit)

\* _internal_call_allocate panics if there is no free entry; the clients of
\* the model stay within the storage.
thread_call_func(job, unique) ==
    /\ Section
    /\ Load < MaxLoad
    /\ unique => Matches(pending, job) = {}
    /\ free # <<>>
    /\ free' = Tail(free)
    /\ status' = [status EXCEPT ![Head(free)] = "PENDING"]
    /\ PendAndWake([call |-> Head(free), job |-> job])
    /\ UNCHANGED <<clientVars, delayed, poolVars, clockVars, intrVars>>

thread_call_func_delayed(job, deadline) ==
    /\ Section
    /\ Load < MaxLoad
    /\ free # <<>>
    /\ free' = Tail(free)
    /\ status' = [status EXCEPT ![Head(free)] = "DELAYED"]
    /\ _delayed_call_enqueue([call |-> Head(free), job |-> job, deadline |-> deadline])
    /\ UNCHANGED <<clientVars, pending, pending_call_num, poolVars, waking, now,
                   intrVars>>

\* One instance, from the pending queue if there is one there.
thread_call_func_cancel_one(job) ==
    /\ Section
    /\ LET p == Matches(pending, job)
           d == Matches(delayed, job)
       IN  \/ /\ p # {}
              /\ pending' = Without(pending, {FirstOf(p)})
              /\ status' = [status EXCEPT ![pending[FirstOf(p)].call] = "IDLE"]
              /\ free' = Release(free, pending[FirstOf(p)].call)
              /\ pending_call_num' = pending_call_num - 1
              /\ UNCHANGED delayed
           \/ /\ p = {} /\ d # {}
              /\ delayed' = Without(delayed, {FirstOf(d)})
              /\ status' = [status EXCEPT ![delayed[FirstOf(d)].call] = "IDLE"]
              /\ free' = Release(free, delayed[FirstOf(d)].call)
              /\ UNCHANGED <<pending, pending_call_num>>
    /\ UNCHANGED <<clientVars, poolVars, waking, clockVars, intrVars>>

\* The internal calls of the entries of q with a job, in the order of q.
ReleasedBy(q, job) ==
    LET stay == {i \in DOMAIN q : q[i].job # job \/ q[i].call \notin Internal}
        gone == Without(q, stay)
    IN  [i \in DOMAIN gone |-> gone[i].call]

\* The entries of q with a job.
Victims(q, job) == {c \in Calls : \E i \in Matches(q, job) : q[i].call = c}

\* All instances, from both queues.
thread_call_func_cancel_all(job) ==
    /\ Section
    /\ Matches(pending, job) \cup Matches(delayed, job) # {}
    /\ pending' = Without(pending, Matches(pending, job))
    /\ pending_call_num' = pending_call_num - Cardinality(Matches(pending, job))
    /\ delayed' = Without(delayed, Matches(delayed, job))
    /\ status' = [c \in Calls |->
                    IF c \in Victims(pending, job) \cup Victims(delayed, job)
                    THEN "IDLE" ELSE status[c]]
    /\ free' = free \o ReleasedBy(pending, job) \o ReleasedBy(delayed, job)
    /\ UNCHANGED <<clientVars, poolVars, waking, clockVars, intrVars>>

-----------------------------------------------------------------------------
(* External entries.                                                       *)

thread_call_allocate(call, job) ==
    /\ CpuFree
    /\ call \notin allocated
    /\ allocated' = allocated \cup {call}
    /\ spec_proto' = [spec_proto EXCEPT ![call] = job]
    /\ status' = [status EXCEPT ![call] = "IDLE"]
    /\ UNCHANGED <<cancelled, free, pending, delayed, pending_call_num, poolVars,
                   waking, clockVars, intrVars>>

\* Panics if the entry is not idle: clients free idle entries only.
thread_call_free(call) ==
    /\ Section
    /\ call \in allocated
    /\ status[call] = "IDLE"
    /\ allocated' = allocated \ {call}
    /\ cancelled' = cancelled \ {call}
    /\ UNCHANGED <<spec_proto, queueVars, poolVars, waking, clockVars, intrVars>>

\* Mutant: does not look at the status.
thread_call_enter_spec_again(call, job) ==
    /\ Section
    /\ Load < MaxLoad
    /\ call \in allocated
    /\ status' = [status EXCEPT ![call] = "PENDING"]
    /\ PendAndWake([call |-> call, job |-> job])
    /\ cancelled' = cancelled \ {call}
    /\ UNCHANGED <<spec_proto, allocated, free, delayed, poolVars, clockVars,
                   intrVars>>

\* thread_call_enter with job = spec_proto[call], else thread_call_enter_spec.
thread_call_enter_spec(call, job) ==
    /\ Section
    /\ Load < MaxLoad
    /\ call \in allocated
    /\ status[call] = "IDLE"
    /\ status' = [status EXCEPT ![call] = "PENDING"]
    /\ PendAndWake([call |-> call, job |-> job])
    /\ cancelled' = cancelled \ {call}
    /\ UNCHANGED <<spec_proto, allocated, free, delayed, poolVars, clockVars,
                   intrVars>>

thread_call_enter(call) == thread_call_enter_spec(call, spec_proto[call])

thread_call_enter_spec_delayed(call, job, deadline) ==
    /\ Section
    /\ Load < MaxLoad
    /\ call \in allocated
    /\ status[call] = "IDLE"
    /\ status' = [status EXCEPT ![call] = "DELAYED"]
    /\ _delayed_call_enqueue([call |-> call, job |-> job, deadline |-> deadline])
    /\ cancelled' = cancelled \ {call}
    /\ UNCHANGED <<spec_proto, allocated, free, pending, pending_call_num, poolVars,
                   waking, now, intrVars>>

thread_call_enter_delayed(call, deadline) ==
    thread_call_enter_spec_delayed(call, spec_proto[call], deadline)

Remove(q, call) == Without(q, {FirstOf({i \in DOMAIN q : q[i].call = call})})

\* Mutant: counts a delayed entry as a pending one.
thread_call_cancel_count(call) ==
    /\ Section
    /\ call \in allocated
    /\ pending' = IF status[call] = "PENDING" THEN Remove(pending, call) ELSE pending
    /\ pending_call_num' = IF status[call] # "IDLE" THEN pending_call_num - 1
                           ELSE pending_call_num
    /\ delayed' = IF status[call] = "DELAYED" THEN Remove(delayed, call) ELSE delayed
    /\ status' = [status EXCEPT ![call] = "IDLE"]
    /\ cancelled' = cancelled \cup {call}
    /\ UNCHANGED <<spec_proto, allocated, free, poolVars, waking, clockVars,
                   intrVars>>

\* Mutant: forgets the delayed queue.
thread_call_cancel_pending(call) ==
    /\ Section
    /\ call \in allocated
    /\ IF status[call] = "PENDING"
       THEN /\ pending' = Remove(pending, call)
            /\ pending_call_num' = pending_call_num - 1
            /\ status' = [status EXCEPT ![call] = "IDLE"]
       ELSE UNCHANGED <<pending, pending_call_num, status>>
    /\ cancelled' = cancelled \cup {call}
    /\ UNCHANGED <<spec_proto, allocated, free, delayed, poolVars, waking, clockVars,
                   intrVars>>

thread_call_cancel(call) ==
    /\ Section
    /\ call \in allocated
    /\ IF status[call] = "PENDING"
       THEN /\ pending' = Remove(pending, call)
            /\ pending_call_num' = pending_call_num - 1
       ELSE UNCHANGED <<pending, pending_call_num>>
    /\ delayed' = IF status[call] = "DELAYED" THEN Remove(delayed, call) ELSE delayed
    /\ status' = [status EXCEPT ![call] = "IDLE"]
    /\ cancelled' = cancelled \cup {call}
    /\ UNCHANGED <<spec_proto, allocated, free, poolVars, waking, clockVars,
                   intrVars>>

-----------------------------------------------------------------------------
(* Callout threads.  A thread that has the lock takes the first pending    *)
(* call; without one it goes to sleep, or ends if there are enough idle    *)
(* threads.  running is the number of calls being executed by the others.  *)

\* Mutant: a thread ends without leaving call_thread_num.
TakeOrPark_uncounted(running) ==
    \/ /\ pending_call_num > 0
       /\ pending' = Tail(pending)
       /\ pending_call_num' = pending_call_num - 1
       /\ status' = [status EXCEPT ![Head(pending).call] = "IDLE"]
       /\ free' = Release(free, Head(pending).call)
       /\ active_call_num' = running + 1
       /\ UNCHANGED <<waiters, call_thread_num>>
    \/ /\ pending_call_num = 0
       /\ call_thread_num <= running + CallThreadMin
       /\ waiters' = waiters + 1
       /\ active_call_num' = running
       /\ UNCHANGED <<pending, pending_call_num, status, free, call_thread_num>>
    \/ /\ pending_call_num = 0
       /\ call_thread_num > running + CallThreadMin
       /\ active_call_num' = running
       /\ UNCHANGED <<pending, pending_call_num, status, free, waiters, call_thread_num>>

TakeOrPark(running) ==
    \/ /\ pending_call_num > 0
       /\ pending' = Tail(pending)
       /\ pending_call_num' = pending_call_num - 1
       /\ status' = [status EXCEPT ![Head(pending).call] = "IDLE"]
       /\ free' = Release(free, Head(pending).call)
       /\ active_call_num' = running + 1
       /\ UNCHANGED <<waiters, call_thread_num>>
    \/ /\ pending_call_num = 0
       /\ call_thread_num <= running + CallThreadMin
       /\ waiters' = waiters + 1
       /\ active_call_num' = running
       /\ UNCHANGED <<pending, pending_call_num, status, free, call_thread_num>>
    \/ /\ pending_call_num = 0
       /\ call_thread_num > running + CallThreadMin
       /\ call_thread_num' = call_thread_num - 1
       /\ active_call_num' = running
       /\ UNCHANGED <<pending, pending_call_num, status, free, waiters>>

\* _call_thread_continue from its start: a new or a woken thread.
_call_thread_continue ==
    /\ Section
    /\ ready > 0
    /\ ready' = ready - 1
    /\ TakeOrPark(active_call_num)
    /\ UNCHANGED <<clientVars, delayed, activate, waking, clockVars, intrVars>>

\* The function returned: round the loop again.
call_returns ==
    /\ Section
    /\ active_call_num > 0
    /\ TakeOrPark(active_call_num - 1)
    /\ UNCHANGED <<clientVars, delayed, ready, activate, waking, clockVars,
                   intrVars>>

\* The activate thread creates a callout thread and looks again, or sleeps.
_call_activate_thread_continue ==
    /\ Section
    /\ activate
    /\ \/ /\ MoreThreads(pending_call_num)
          /\ call_thread_num' = call_thread_num + 1
          /\ ready' = ready + 1
          /\ UNCHANGED activate
       \/ /\ ~MoreThreads(pending_call_num)
          /\ activate' = FALSE
          /\ UNCHANGED <<call_thread_num, ready>>
    /\ UNCHANGED <<clientVars, queueVars, active_call_num, waiters, waking,
                   clockVars, intrVars>>

-----------------------------------------------------------------------------
(* The clock interrupt and _delayed_call_interrupt.                        *)

\* The clock advances and calls the expire function if the timer has expired.
clock_interrupt ==
    /\ intr = "off"
    /\ CpuFree
    /\ now' = IF now < MaxTime THEN now + 1 ELSE now
    /\ IF timer.is_set /\ timer.expire_time <= now'
       THEN /\ timer' = [timer EXCEPT !.is_set = FALSE]
            /\ intr' = "lock"
            /\ stamp' = now'
       ELSE UNCHANGED <<timer, intr, stamp>>
    /\ UNCHANGED <<clientVars, queueVars, poolVars, waking, transit, intrWake>>

\* Number of entries at the head of the delayed queue that are due.
DueNum ==
    CHOOSE n \in 0..Len(delayed) :
        /\ \A i \in 1..n : delayed[i].deadline <= stamp
        /\ n < Len(delayed) => delayed[n + 1].deadline > stamp

\* Mutant: leaves the timer off.
_delayed_call_interrupt_once ==
    /\ intr = "lock"
    /\ transit' = [i \in 1..DueNum |-> [call |-> delayed[i].call, job |-> delayed[i].job]]
    /\ delayed' = SubSeq(delayed, DueNum + 1, Len(delayed))
    /\ status' = [c \in Calls |-> IF \E i \in 1..DueNum : delayed[i].call = c
                                  THEN "IDLE" ELSE status[c]]
    /\ intr' = "loop"
    /\ UNCHANGED <<clientVars, free, pending, pending_call_num, poolVars, waking,
                   clockVars, stamp, intrWake>>

\* The first critical section takes the due entries off the delayed queue and
\* sets the timer for the next one.
_delayed_call_interrupt ==
    /\ intr = "lock"
    /\ transit' = [i \in 1..DueNum |-> [call |-> delayed[i].call, job |-> delayed[i].job]]
    /\ delayed' = SubSeq(delayed, DueNum + 1, Len(delayed))
    /\ status' = [c \in Calls |-> IF \E i \in 1..DueNum : delayed[i].call = c
                                  THEN "IDLE" ELSE status[c]]
    /\ timer' = IF DueNum < Len(delayed)
                THEN [is_set |-> TRUE, expire_time |-> delayed[DueNum + 1].deadline]
                ELSE timer
    /\ intr' = "loop"
    /\ UNCHANGED <<clientVars, free, pending, pending_call_num, poolVars, waking, now,
                   stamp, intrWake>>

interrupt_pend ==
    /\ intr = "loop"
    /\ transit # <<>>
    /\ transit' = Tail(transit)
    /\ pending' = Append(pending, Head(transit))
    /\ status' = [status EXCEPT ![Head(transit).call] = "PENDING"]
    /\ pending_call_num' = pending_call_num + 1
    /\ intrWake' = MoreThreads(pending_call_num + 1)
    /\ intr' = "wake"
    /\ UNCHANGED <<clientVars, free, delayed, poolVars, waking, clockVars, stamp>>

\* Mutant: wakes the activate thread only.
interrupt_wake_activate ==
    /\ intr = "wake"
    /\ activate' = (activate \/ intrWake)
    /\ intrWake' = FALSE
    /\ intr' = "relock"
    /\ UNCHANGED <<clientVars, queueVars, active_call_num, call_thread_num, ready,
                   waiters, waking, clockVars, stamp, transit>>

interrupt_wake ==
    /\ intr = "wake"
    /\ WakeOne
    /\ activate' = (activate \/ intrWake)
    /\ intrWake' = FALSE
    /\ intr' = "relock"
    /\ UNCHANGED <<clientVars, queueVars, active_call_num, call_thread_num, waking,
                   clockVars, stamp, transit>>

interrupt_relock ==
    /\ intr = "relock"
    /\ intr' = "loop"
    /\ UNCHANGED <<clientVars, queueVars, poolVars, waking, clockVars, stamp,
                   transit, intrWake>>

interrupt_done ==
    /\ intr = "loop"
    /\ transit = <<>>
    /\ intr' = "off"
    /\ UNCHANGED <<clientVars, queueVars, poolVars, waking, clockVars, stamp,
                   transit, intrWake>>

-----------------------------------------------------------------------------
\* thread_call_init, with the activate thread about to run for the first time.
thread_call_init ==
    /\ status = [c \in Calls |-> "IDLE"]
    /\ pending = <<>> /\ delayed = <<>>
    /\ free \in {q \in [1..Cardinality(Internal) -> Internal] :
                   {q[i] : i \in DOMAIN q} = Internal}
    /\ pending_call_num = 0 /\ active_call_num = 0 /\ call_thread_num = 0
    /\ ready = 0 /\ waiters = 0 /\ activate = TRUE
    /\ waking = [kind \in WakeKinds |-> 0]
    /\ timer = [is_set |-> FALSE, expire_time |-> 0]
    /\ now = 0
    /\ intr = "off" /\ stamp = 0 /\ transit = <<>> /\ intrWake = FALSE

Init ==
    /\ thread_call_init
    /\ spec_proto \in [External -> Jobs]
    /\ allocated = {}
    /\ cancelled = {}

Client ==
    \/ \E job \in Jobs :
          \/ \E unique \in BOOLEAN : thread_call_func(job, unique)
          \/ \E deadline \in Times : thread_call_func_delayed(job, deadline)
          \/ thread_call_func_cancel_one(job)
          \/ thread_call_func_cancel_all(job)
    \/ \E call \in External, job \in Jobs :
          \/ thread_call_allocate(call, job)
          \/ thread_call_enter_spec(call, job)
          \/ \E deadline \in Times : thread_call_enter_spec_delayed(call, job, deadline)
    \/ \E call \in External :
          \/ thread_call_enter(call)
          \/ \E deadline \in Times : thread_call_enter_delayed(call, deadline)
          \/ thread_call_cancel(call)
          \/ thread_call_free(call)

Interrupt ==
    \/ clock_interrupt \/ _delayed_call_interrupt \/ interrupt_pend
    \/ interrupt_wake \/ interrupt_relock \/ interrupt_done

Pool == _call_thread_continue \/ call_returns \/ _call_activate_thread_continue

Next == Client \/ _call_thread_wake \/ Interrupt \/ Pool

Spec == Init /\ [][Next]_vars

\* The clock ticks, sections end, and threads that can run do run.  Nothing is
\* assumed of the functions: they may never return.
Fairness ==
    /\ WF_vars(_call_thread_wake)
    /\ SF_vars(Interrupt)
    /\ SF_vars(_call_thread_continue)
    /\ SF_vars(_call_activate_thread_continue)

FairSpec == Spec /\ Fairness

-----------------------------------------------------------------------------
(* Properties.                                                             *)

Entry == [call : Calls, job : Jobs]
DelayedEntry == [call : Calls, job : Jobs, deadline : Times]

\* Every variable has its type.
TypeOK ==
    /\ status \in [Calls -> Status]
    /\ spec_proto \in [External -> Jobs]
    /\ allocated \subseteq External
    /\ cancelled \subseteq allocated
    /\ free \in Seq(Internal)
    /\ pending \in Seq(Entry)
    /\ delayed \in Seq(DelayedEntry)
    /\ pending_call_num \in Nat
    /\ active_call_num \in Nat /\ call_thread_num \in Nat
    /\ ready \in Nat /\ waiters \in Nat
    /\ activate \in BOOLEAN
    /\ waking \in [WakeKinds -> Nat]
    /\ timer \in [is_set : BOOLEAN, expire_time : Times]
    /\ now \in Times /\ stamp \in Times
    /\ intr \in {"off", "lock", "loop", "wake", "relock"}
    /\ transit \in Seq(Entry)
    /\ intrWake \in BOOLEAN

\* An entry is on at most one queue, the one its status names; the internal
\* entries on no queue are those of the free queue, so none leaks.
Occurs(q, c) == Cardinality({i \in DOMAIN q : q[i].call = c})
OneQueue ==
    /\ pending_call_num = Len(pending)
    /\ \A c \in Calls :
         /\ Occurs(pending, c) = (IF status[c] = "PENDING" THEN 1 ELSE 0)
         /\ Occurs(delayed, c) = (IF status[c] = "DELAYED" THEN 1 ELSE 0)
         /\ Occurs(transit, c) <= (IF status[c] = "IDLE" THEN 1 ELSE 0)
         /\ c \in Internal =>
               Cardinality({i \in DOMAIN free : free[i] = c}) +
               Occurs(pending, c) + Occurs(delayed, c) + Occurs(transit, c) = 1
         /\ c \in External \ allocated =>
               Occurs(pending, c) + Occurs(delayed, c) + Occurs(transit, c) = 0

\* The timer expires no later than any delayed entry is due, except while the
\* interrupt that will set it again waits for the lock.  Cancelling the first
\* entry leaves an early timer behind, never a late one.
TimerArmed ==
    intr # "lock" =>
        \A i \in DOMAIN delayed :
            timer.is_set /\ timer.expire_time <= delayed[i].deadline

\* call_thread_num counts the threads there are: running, on their way to the
\* lock, or asleep.
ThreadsAccounted == call_thread_num = active_call_num + ready + waiters

\* The wakeups that are still to be issued, and those for the activate thread.
WakesDue    == InWake + (IF intr = "wake" THEN 1 ELSE 0)
ActivateDue == activate \/ waking["both"] > 0 \/ (intr = "wake" /\ intrWake)

\* No call is stranded: the pending calls have threads on their way to them, or
\* no thread is left to wake and the activate thread will create one, even if
\* every running function blocks forever.
NoCallStranded ==
    /\ pending_call_num <= ready + WakesDue \/ waiters = 0
    /\ call_thread_num < active_call_num + pending_call_num => ActivateDue

\* An entry stays unscheduled after thread_call_cancel until it is entered
\* again: "Unschedule a callout entry" (thread_call.c).
CancelUnschedules == cancelled \cap (CallsIn(pending) \cup CallsIn(delayed)) = {}

\* A pending call is taken by a thread (or cancelled), whatever the functions
\* that are running do.
PendingTaken == \A c \in Calls : status[c] = "PENDING" ~> status[c] # "PENDING"

\* A delayed call leaves the delayed queue once its time has come.
DelayedExpires == \A c \in Calls : status[c] = "DELAYED" ~> status[c] # "DELAYED"
=============================================================================
