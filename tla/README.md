# Verification of Darwin 0.3 synchronisation and message passing

Darwin 0.3 is an operating system: a Mach kernel with a 4.4BSD personality
(`src/kernel-7`), a driver kit, a C library, system servers and many
third-party packages. This project models parts on which much else rests and in
which interleavings and failures decide: the kernel's two sleeping lock packages,
its thread callouts, its message queues, and the transport by which the network
message servers of several machines extend message passing over a network.

## Inventory

| Component | Source | State | Operations | Model |
|---|---|---|---|---|
| Mach complex locks | `kern/lock.c`, `kern/lock.h` | `struct lock`: read count, two want bits, waiting, can_sleep, recursive owner and depth | read, write, try, upgrade, downgrade, done, set/clear recursive, sleepable | `ComplexLock` implements `RWLock` |
| Thread callouts | `kern/thread_call.c` | three queues, three counters, pool of threads, timer | schedule now or at a deadline, cancel, allocate, free; callout threads; activate thread; timer interrupt | `ThreadCall` |
| System timer | `machdep/*/machine_clock.c` | deadline, is_set, clock | set deadline, clock interrupt | in `ThreadCall` |
| BSD lock manager | `bsd/kern/kern_lock.c`, `bsd/sys/lock.h` | flags, share, wait and exclusive counts, holder | shared, exclusive, upgrade, exclusive upgrade, downgrade, release, drain; polling, failing sleeps | `Lockmgr` |
| Sleep and wakeup | `bsd/kern/kern_synch.c`, `kern/sched_prim.c` | wait queues, thread states | tsleep, wakeup; thread_sleep, thread_wakeup | as their clients see them |
| Mach message queues | `ipc/ipc_mqueue.c`, `ipc_pset.c`, parts of `ipc_port.c`, `ipc_right.c`, `mach_msg.c`, `kern/ipc_sched.c` | per port: set, message count, limit, sequence number, blocked senders; per queue: messages or waiting receivers; thread wait states | send, receive, timeout, abort, set limit, move into and out of sets, destroy port or set | `Mqueue` implements `PortFifo` |
| Rest of Mach IPC | `ipc/` | names, rights, notifications | copy in and out, notify | not modelled |
| Zone allocator | `kern/zalloc.c` | zones | alloc, refill, collect | planned |
| Tasks, threads, scheduling | `kern/` | thread states, run queues | create, suspend, terminate | planned in part |
| Virtual memory | `vm/` | maps, objects, pages | fault, copy, page out | not modelled |
| BSD processes, files, sockets, vnodes | `bsd/` | | | not modelled, vnodes planned |
| Bootstrap server | `system_cmds-2/mach_init.tproj` | services, servers | register, look up, restart | planned |
| Network message server, request-response transport | `nmserver-1/srr*.c`, `timer.c`, `lock_queue_macros.h` | per host: queue of requests, status, tries, uid, timer, last answer; timer queue | send, retransmit, give up, handle request, response and crypt failure, restart | `Srr` |
| Network message server, rest | `nmserver-1` | port records, translation | dispatch, look up, transfer | not modelled |
| Driver kit, kernel loader, C library, tools, third-party packages | | | | not modelled |

How they interact: callout threads and lock clients block in the scheduling
primitives and are woken through them. The memory maps (`vm/vm_map.c`,
`vm/vm_kern.c`) and `kern/mapfs.c` are the clients that use recursive complex
locks; the vnode layer is the main client of `lockmgr`. The clock interrupt
calls `_delayed_call_interrupt`, which feeds the callout threads. Senders and
receivers of messages sleep in `thread_block` and are woken by `thread_go`, by
timeouts and by `thread_abort`. A network message server receives messages
for remote ports and hands them to `srr_send`; its timer thread and the thread
that listens to the network share the host records.

What is hard here: several threads wait for different conditions of one lock and
share one wakeup; `lock_done` guesses which hold it drops; upgrades race;
sleeps fail and have to be undone; wakeups are issued after the lock that
protected the decision was released; an interrupt takes entries off a queue
and publishes them one by one; a timeout hits a thread that is being handed a
message; a port moves to another queue, or dies, between two sections of a
receive; packets are lost, repeated and reordered, and machines restart; two
threads leave the lock of a host record to call their client. `PROJECT.json` lists these as hazards, each at its
line and with the properties that would catch it.

What makes the components correct:

* complex locks: writers exclude, nobody writes inside an upgrade, no wakeup is
  lost, the lock comes back to its initial state, writers and upgrades get in;
* callouts: an entry is on the queue its status names and never lost, the timer
  is never late, no call is stranded when all threads are blocked, the thread
  count is exact, a cancelled entry does not run;
* lock manager: exclusion, exact counts and flags on every path, failing sleeps
  included, no panic, a drain that leaves nobody
  behind, no lost wakeup;
* message queues: each port is a FIFO channel that loses and duplicates nothing,
  counts are exact, no receiver sleeps beside a message and no sender below the
  limit, everyone is in the queue its state says, senders and messages get on;
* request-response transport: a client is given the answer to its own request,
  a server executes nothing older than what it has answered since it started, the
  two threads agree on what the head of a queue is, timers are lost in one known way
  only, and a request leaves its queue unless its timer was lost so.

## Modules

**`RWLock`** is the abstract specification of a read/write lock: which holds each
thread has. A write hold excludes everything of other threads, and an upgrade
turns a read hold into a write hold in one step.

**`ComplexLock`** has the fields of `struct lock` as variables of the same names.
An action is a critical section of the interlock. `pc` names the loop a
thread waits in: `w1` and `w2` (`lock_write`, before and after it has
`want_write`), `rd`, `up` and `tup` (the two upgrades). `asleep` is the set of
threads asleep on the lock; a thread in a loop that is not asleep spins or has
been woken, and the loop's condition is tested again in the action that leaves the
loop or goes to sleep. `readers` and `writes` are history variables: the holds
clients have by the calls that returned. `writeBy` and `upgradeBy` remember who
set the want bits. Clients follow the discipline of the kernel's callers: they
release what they hold, ask again only as the recursive owner, and clear the
recursion before they let go. `Uses` says how far they go with recursion: the
kernel needs `{"recursion"}` (`lock_set_recursive` right after `lock_write`).

**`ThreadCall`** has the queues and counters of `thread_call.c`. An action is a
critical section of `thread_call_lock`. The code drops that lock before it
issues wakeups and between two entries of the timer interrupt, and these are
states of their own (`waking`, `intr`). `NCPUS` limits how many sections are
under way: with one processor a section runs to its end, since `splsched` masks
the clock. Callout threads are interchangeable and counted: running
(`active_call_num`), on their way to the lock (`ready`), asleep (`waiters`). A
job stands for the pair of function and parameter. Operations that find nothing
to do (an entry already scheduled, no match to cancel) change nothing and are left
out.

**`Lockmgr`** has the fields of `struct lock__bsd__`. An action is a critical
section of `lk_interlock`: a request up to its return or first sleep, or what
follows a sleep. `sleep` is the state of a thread's `tsleep`; with `Errors` a sleep
may fail, before or after the wakeup (`_sleep` reports a pending signal even
to a thread that was awakened). `Requests` and `ExtFlags` are the requests and
flags in use. The pair of `lk_lockholder` and `lk_lockthread` is one thread.
A thread asks for a lock only while it has none, or for a recursive one.

**`PortFifo`** is the abstract specification of a port: accepted messages are
delivered once, oldest first, into the hand of a receiver, or die with the port;
the sequence number counts deliveries. It knows no queues, sets, limits or threads.

**`Mqueue`** has `ip` (the fields of `struct ipc_port` that matter), `imq` (the
queue of each port and set) and `th`, the threads: `ith_state` and `kmsg` as in
the code, `wait` for `TH_WAIT` and the wait result. An action is what runs under
the port's or the queue's lock without a window. `ipc_mqueue_send` is `Send` and,
after a sleep, `SendResume`; a message that carries the receive right of its own
port is copied in by a step of its own (`CopyinReceive`, `SendCopied`), since the
port is without a receiver in between ("limbo"). `ipc_mqueue_receive` is
`Receive`, `ReceiveResume` and `ReceiveDone`, the last one for the part that locks
the port after the queue was unlocked. `Timeout` and `Interrupt` end a wait
without touching the queues, as `clear_wait` does. `Deliver` is the loop over
receivers, which `ipc_mqueue_send` and `ipc_mqueue_move` share. Messages have
a port, a number and two sizes. `how` is the time a call has: `always` is
`MACH_SEND_ALWAYS` or a send-once right, `poll` a timeout of zero.

**`Srr`** is one client and the servers it sends to. `host` has the request half
of the client's host records, `response` the response half of the servers'.
The network is the set of packets ever sent, any of which may arrive at any time
or never. `srr_retry` and `srr_handle_response` leave the host lock to call their
client; each is split there (`srr_retry_fails` and `srr_retry_cleanup`;
`srr_handle_response` and `srr_handle_response_done` or `_refused`). The timer
thread is in addition split between reading the head of the timer queue, removing
it and acting, as in `timer_run`. `Inserted` does to a queue what
`lq_insert_macro` does, also to a timer that is queued already. A restart of the
client loses everything but the packets. One of a server empties its host records
(`response`). `told` and `executed` are history variables: what the maker of a
request was told, and a server's log of what it executed, with or without keeping
the answer (an answer that cannot be encrypted is neither kept nor sent), and of
its restarts. `Encrypted` are the requests that are to be encrypted; each of the
encryptions and decryptions on the way may fail, broadcasts included. `faults`
counts restarts and lost answers, for the bound `MaxEvents`.

**`Queue`** has the operations on linked queues that `ThreadCall` and `Mqueue`
share: taking out entries at given positions, the n-th of a set of positions.

The `MC` modules add the symmetry sets for TLC, and `MCMqueue` says who receives
from where. The theorems are in `ComplexLock_proofs`, `Queue_proofs`,
`ThreadCall_queues`, `ThreadCall_proofs`, `Lockmgr_proofs`, `Mqueue_proofs`,
`Mqueue_refinement` and `Srr_proofs`. Definitions whose comment begins with
"Mutant" are plausible bugs, used to show that the properties can fail.

## Runs

| Run | Bounds | Shows |
|---|---|---|
| `lock_safety` | 4 threads, 3 nested holds, recursion | exclusion, no lost wakeup, a quiet lock is free, implements `RWLock` (7394 states) |
| `lock_live` | 3 threads, no recursion | the writer with `want_write` enters, upgrades are granted, sleepers wake |
| `thread_call_up` | 1 processor, 2 + 2 entries, 2 jobs, 3 times | queues, counters, timer and pool agree; cancel works (1.2 million states) |
| `thread_call_mp` | 3 processors, 2 entries | no call is stranded on the multiprocessor; liveness of pending and delayed calls |
| `thread_call_mp_cancel` | 2 processors, 2 client entries | *violated*: a cancel misses an entry in transit |
| `lockmgr_safety` | 4 threads, all requests and flags, failing sleeps | exclusion, exact counts, owned flags, undisturbed upgrades, drains wait for all; up to a panic |
| `lockmgr_live` | 3 threads, the kernel's requests, no failing sleeps | no panic, no lost wakeup, exclusive requests are granted |
| `lockmgr_upgrade_panic` | 3 threads | *violated*: an exclusive request panics after an upgrade |
| `mqueue_safety` | 2 ports, 1 set, 2 senders, 2 receivers, 3 messages, 2 operations | implements `PortFifo`; exact counts, nothing left behind, nobody asleep for nothing, wait queues agree with thread states |
| `mqueue_live` | 1 port, 1 set, 2 senders, 2 receivers, 3 messages, 2 operations | blocked senders go on, queued messages are received |
| `srr` | 2 servers, 3 requests (1 encrypted) or faults, 2 tries | own answers, execution in order, agreement on the head, which steps lose timers, requests leave unless their timer is lost (264 thousand states) |
| `srr_answered_and_failed` | a broadcast to 2 servers, 1 request | *violated*: a request is answered and reported as failed |

Why the bounds are enough. In a lock four threads can be a holder or the last reader,
an upgrader, the writer with the want bit and one more waiter, which are all the
roles the conditions tell apart; three nested holds reach depth two beside a
read hold. For callouts two entries make a queue with an order and an interrupt
with an entry in transit behind the one being published; three processors run two
wakers beside the interrupt; with `CallThreadMin` 1 both parking and ending
of threads happen. Three times give a deadline that is past, now or to come. The clock
stops at `MaxTime` while its interrupts go on, so that every deadline comes.
For message queues two senders at a limit of one make a sender block, be given a
turn and lose it to the other; two operations (aborts, limits, sets, deaths)
give a port that enters a set which then dies, and three messages a queue with an
order behind one in hand. One port with a receiver of its own and one set with a receiver
have all the moves between queues in which a receiver is met; the second port
has its messages in the same set. For the transport requests and faults share one bound of three: three requests make a
queue behind the one awaited, or two at one server and one at the other; two requests
and a fault give packets of an earlier life, or a late request after an answer that
was lost; two tries make a retransmission and a failure. Two destinations have timers in one queue, so that one may drop
the other: with a single one `TimersKept` could not tell its exception. More of each
is left to the proofs, which have no bound.

Deadlock is checked where the system can always go on. It is off in `lockmgr_safety`, where a panic stops
the system, in the runs of `Mqueue` and `Srr`, whose bounds on sends and operations let the
system come to rest (their liveness properties say what must have happened by
then), and in runs that look for one violation.

### Fairness

* `ComplexLock`: a thread in a loop that can leave it does so (weak: it spins or
  has been woken and is scheduled), and a client that can release the lock again and again
  releases it some time (strong: between two calls the client is somewhere
  inside the lock's routines, so that release is not continuously enabled).
  Nothing is assumed of new requests, and spinning threads need never sleep.
  The first loop of `lock_write` makes no promise: which of two writers gets
  `want_write` is left to the scheduler, and the model claims nothing for the loser.
* `ThreadCall`: interrupts happen and their sections end, callout threads and the
  activate thread that are ready run. Strong fairness stands for the simple lock,
  which other processors hold now and then. Nothing is assumed of the functions called:
  they may block forever, and pending calls are taken all the same.
* `Lockmgr`: a thread that was woken runs, and a holder releases some time.
* `Mqueue`: threads that can run do, and servers that are between two calls call
  `mach_msg_receive` again, from some port or set they serve (weak fairness of both). Nothing is
  assumed of senders, timeouts, aborts and operations on rights.
* `Srr`: the timer thread and the listening thread of the client run. Nothing is
  assumed of the network, the servers or new requests: `RequestLeaves` holds
  although every packet may be lost.

## Proofs

All theorems hold for every number of threads, entries and processors and every
value of the bounds. They assume the ASSUMEs of the modules (finite sets, natural
bounds).

* `ComplexLock_proofs`, under `KernelUses` (recursion as the kernel uses it):
  `Invariance` shows `IInv` inductive; `TypeCorrect`, `WritersExclude`,
  `NoLostWakeup` and `QuietLockIsFree` follow. Exclusion is not inductive by
  itself: one must know which want bit belongs to whom (`BitsOwned`), that a write
  hold is such a bit or a level of the owner's recursion (`WritesAreBits`), that a
  waiting thread holds nothing and that an owner holds something
  (`WaitersAndOwner`), and that `read_count` is the number of read holds
  (`ReadCountExact`). There is a lemma for each action, and lemmas on the set of
  read holds and on the guess `lock_done` makes.
  `Refinement` shows that the complex lock implements `RWLock`. Under the mapping a
  thread waiting in an upgrade still has its read hold; the proof uses `IInv` at
  each step and its successor.
* `Queue_proofs`: lemmas on the operators of `Queue`. `Without` keeps the entries that
  are not taken out, in their order, and taking one out of a queue in which
  everything occurs once leaves the others. They are used by both components with queues.
* `ThreadCall_queues`, for any number of processors: `QueueInvariance` shows `QueueInv`
  inductive, and `TypeCorrect` and `TimerInTime` follow. That the timer is set for
  the earliest deadline needs that the delayed queue is sorted, which
  `_delayed_call_enqueue` keeps by where it inserts, and that an entry whose state
  names a queue is on that queue (`Listed`), so that a removal hits it.
* `ThreadCall_proofs`: `PoolNeverStrands` and `PoolAccounted`, from the invariant
  `PoolInv` on counters, wakeups under way and the activate thread. It needs
  nothing of the queues but their lengths. `OneQueueHolds` and `CancelsHold` follow from
  `OnePlace`: an entry is on one queue, in transit, free, or with its owner, and its
  state says which. They are proved under `OwnersWait`: one processor, or
  no entries that clients own. Without it they are false, as
  `thread_call_mp_cancel` shows: an entry in transit is idle, and its owner on another
  processor may enter or cancel it.
* `Lockmgr_proofs`: `LkInvariance` shows `LkInv` inductive, whatever is requested and
  whatever sleeps fail. `TypeCorrect`, `LocksExclude`, `CountsAreExact`, `FlagsAreOwned`
  and `UpgradesUndisturbed` follow, and the action property `DrainEnded` with it. Exclusion
  is tested in the code on flags and counts, so one must know that `lk_sharecount` and
  `lk_waitcount` are the sizes of what they count (`SharesExact`, `WaitsExact`), that
  `lk_exclusivecount` and `lk_lockholder` are those of the one owner (`OwnerExact`),
  who has no shared lock besides (`Alone`), and that each want flag has
  exactly one request behind it (`FlagsOwned`, `OneWant`).
  `NoPanicWithoutUpgrades`, under `NoUpgrades`, from `ExclInv`: `LK_HAVE_EXCL`,
  `lk_exclusivecount` and the request with `LK_WANT_EXCL` agree.
  With upgrades the statement is false (`lockmgr_upgrade_panic`).
  `NoLostWakeup`, under `KernelUse`: no upgrades and no sleep that fails. A request that
  fails clears its flag and wakes nobody (see the findings below), so that it is
  false without the last.
* `Mqueue_proofs`: `LinkInvariance` shows `LinkInv` inductive; `WaitersStayQueued`,
  `MessagesFollow` and `MessagesFindReceivers` follow. The conjuncts lean on each
  other: a thread is in progress exactly if it is linked in the one queue
  its record names (`SenderLinks`, `ReceiverLinks`), a message is in the queue of the
  port or of its set (`MessagesPlaced`), the receive right that travels to its own port is in one
  message (`Circulars`), and a queue has not both a message and a receiver.
  `Deliver` chooses who of the receivers gets which message; `ChainExists` shows that there is
  such a choice and `DeliverProperties` what every one of them guarantees.
  `CountsAreExact` and `TurnsAreKept` rest on two relations between a state and the
  next (`Counted`: `ip_msgcount` changes by as much as the messages queued and in hand;
  `Promised`: where senders sleep the port is full, or the step makes no room that was
  not promised to one of them), shown for every action.
  `TypeCorrect` needs both invariants, since a count is a type only together with what it counts.
* `Mqueue_refinement`: `Refinement` shows that the queues implement `PortFifo`. Every
  action is shown to be one of four steps (`Stepped`): nothing moves for the abstract port
  (`Rests`), messages come in and the oldest go to hands (`Passes`), a receiver
  accounts for the message in its hand (`Accounts`), a port dies or its receive right leaves
  (`Resets`); each maps to steps of `PortFifo` or to a stutter. Since a set holds the messages of many ports, a
  port's channel is a subsequence of its queue, and the lemmas on `SentTo` say what
  appending, removing and merging do to it. Besides `LinkInv` the proof needs that every
  message is in one place, with a number already given out (`Unique`), and that a port
  whose receive right is in a message has sequence number 0 (`LimboZero`).
* `Srr_proofs`: `Invariance` shows `IInv` inductive, for any number of hosts, destinations,
  requests, tries and faults; `TypeCorrect`, `HeadAwaited`, `OwnAnswer` and
  `ExecutedInOrder` follow. None of the three is inductive by itself. That answers
  match needs that two packets for one destination with one uid are of one request, and that
  the order of uids is the order of requests (`NetInv`); this survives a new packet only
  because queued requests are younger than all that were sent and in order
  (`QueueInv`), and the awaited one has a packet with the record's uid (`AwaitInv`).
  Execution in order is a property of the log, which outlives the server: it needs that
  what a server keeps was a packet once, and bounds every answered request of the log since the
  last restart in it (`ServerInv`). An executed request whose answer was lost bounds nothing,
  as in the code, and `InOrder` makes no claim about what follows it.
  `TimersAreKept`, the action property, rests on `TimerInv`: no timer is queued twice, only
  the head of a queue may be aborted, the status tells whether there is one to send, and
  a destination that becomes active again while `srq_cleanup` runs has its timer queued.
  Lemmas say what inserting, taking off and restarting do to a queue of distinct timers, and
  there is one for each action. `OneDestinationTimed` draws the consequence for a client of
  one destination: no request is ever without a timer.

Every invariant, action property and refinement of the passing runs is proved. Only
model-checked are the liveness properties, which are beyond the prover (fairness and
ENABLED): `WriterEnters`, `UpgradeGranted` and `SleeperWakes` of `ComplexLock`,
`PendingTaken` and `DelayedExpires` of `ThreadCall`, `WriterEnters` of `Lockmgr`,
`SenderReleased` and `QueueDrains` of `Mqueue`, and `RequestLeaves` of `Srr`.
The hypotheses on how a component is used (`KernelUses`, `OwnersWait`, `NoUpgrades`,
`KernelUse`) are needed: a run or a finding shows what happens without.

## Findings

Three runs end in a violation; `PROJECT.json` quotes the comments they contradict.
`thread_call_mp_cancel` concerns the multiprocessor build, `lockmgr_upgrade_panic`
the interface as documented, since no caller in the kernel upgrades a `lockmgr` lock.
`srr_answered_and_failed` concerns the server as built: an answer that
arrives with the last retransmission is given to the client, which is then told
that the request failed.

Met while modelling, in the model, and not given runs of their own:

* `lock_set_recursive` (`kern/lock.c:555`) panics for a write lock that came from
  an upgrade, although its comment allows any "lock for write";
* `lock_try_read_to_write` (`kern/lock.c:536`) sleeps without testing `can_sleep`;
* a polling upgrade (`bsd/kern/kern_lock.c:307`) sleeps when one other shared lock
  is left, because the count is compared after the caller's lock is gone;
* an exclusive request whose sleep fails (`bsd/kern/kern_lock.c:373`) clears
  `LK_WANT_EXCL` without a wakeup;
* a recursive owner that has downgraded a complex lock writes again at once
  (`kern/lock.c:227`), beside other readers; `vm/vm_map.c` knows of "problems in the
  recursive lock package", and no caller does it (`Uses` has it as
  `update_while_downgraded`, which the runs leave out);
* an entry goes behind the first delayed entry with its deadline
  (`kern/thread_call.c:291`), not behind the last as the comment at line 262 says;
* an `LK_EXCLUPGRADE` that fails (`bsd/kern/kern_lock.c:280`) gives up the last
  shared lock without waking the upgrade that waits for it;
* a sender that moves a port's own receive right to that port while its queue is
  full (`ipc/ipc_mqueue.c:442`) sleeps until it times out or is interrupted, since
  the test for such messages comes after the wait;
* `srr_retry` (`nmserver-1/srr.c:328`) overwrites the status it then switches on, so
  that clients are never told of an encryption failure, and reads the head of a
  queue that may be empty (`srr.c:280`);
* `srr_handle_response` (`nmserver-1/srr_handler.c:408`) dequeues whatever is at the head
  when it has the lock again, and a request queued while `srq_cleanup` runs is sent twice,
  with two uids;
* `timer_start` "Assumes that timer is NOT on the queue" (`nmserver-1/timer.c:162`), but
  `srr_retry` calls it (`srr.c:313`) while the listening thread may have queued the timer again; the
  timers of other hosts behind it are dropped, and their requests wait for ever unless a
  late answer comes. It happens with two destinations; `TimersKept` states that nothing
  else loses a timer, and `RequestLeaves` excepts the destinations that have lost theirs;
* a server that cannot encrypt its answer (`nmserver-1/srr_handler.c:262`) has executed the
  request and forgets it: it executes the retransmission again, and a late older request
  after it. `crypt_encrypt_packet` as it stands refuses every level but
  `CRYPT_DONT_ENCRYPT` (`crypt.c:125`); the model allows both outcomes at each call;
* a crypt failure of a broadcast is matched against the record of the server that
  reports it (`nmserver-1/srr_handler.c:75`), not against that of the broadcast;
* a local encryption failure leaves the host with a retry interval of zero
  (`nmserver-1/srr_handler.c:504`);
* not in the model, since it is compiled for multiprocessors only: the `break` of
  `PAUSE` (`bsd/kern/kern_lock.c:102`) leaves the `switch` of `lockmgr`.

## Not modelled

* Widths of counters (`read_count` has 16 bits, `recursion_depth` 12).
* Failure of `kernel_thread` in the activate thread; exhaustion of the internal
  entries, which panics: clients stay within the storage and the load bound.
* In `Lockmgr`, another processor between the release of the interlock and the sleep;
  recursive shared locks of one thread; reuse of a lock after a drain is allowed,
  since the check that forbids it is compiled out; the per-process lock count.
* In `Mqueue`: messages to the kernel's own ports (`ipc_kobject_server`), the fast paths of
  `mach_msg_trap` that hand a message over without the queues, scatter lists and
  the old message format, `MACH_SEND_CANCEL`, port-destroyed requests, `ipc_port_set_seqno`, and receive rights that
  travel in messages to other ports. `thread_go` comes after `imq_unlock` in the code
  (`ipc_mqueue.c:502-504`, `615-616`) and is part of the locked step in the model, which is
  exact on one processor only.
* In `Srr`: a server that is a client of its client, several listening threads, requests
  the dispatcher declines (they change nothing), packets that `sendto` refuses (as lost), growth of the hash table, wrap of sequence
  numbers, incarnations that are not new (two starts in one second, a clock set back).
* Client errors that the code answers with a panic, unless a property is about them.
* The components marked so in the inventory: virtual memory and most of BSD are too
  large to be told in a model of this kind, the rest is I/O, generated or third-party
  code.

## Plan

1. Done: `RWLock`, `ComplexLock`, `ThreadCall`, `Lockmgr` with their runs and first theorems.
   Done since: `PortFifo`, `Mqueue`, `Srr` with their runs, `Srr_proofs`.
2. Done: proofs of `Lockmgr`, of the queues of `ThreadCall`, and of `Mqueue` with its
   refinement of `PortFifo`. Next: what the liveness properties rest on and the prover
   can reach (a blocked thread that may go on is never put back by another's step),
   and the order of callouts with one deadline, which no run checks yet.
3. `WaitState`: the wait state machine of `kern/sched_prim.c` (`assert_wait`,
   `clear_wait`, `thread_block`, `thread_wakeup_prim`, timeouts), with an abstract
   specification of sleep and wakeup; then `ComplexLock`'s sleep as its client.
4. `Bootstrap`: services and servers of `mach_init`, notifications of dead ports,
   restarts; runs with two services and two servers.
