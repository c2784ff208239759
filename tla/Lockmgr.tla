------------------------------ MODULE Lockmgr ------------------------------
(***************************************************************************)
(* The BSD lock manager (bsd/kern/kern_lock.c): shared and exclusive       *)
(* locks with upgrades, downgrades, polling, sleeps that fail, and drains. *)
(*                                                                         *)
(* One action is one critical section of lk_interlock: a request up to its *)
(* return or its first sleep, or what follows a sleep.  The code releases  *)
(* the interlock just before tsleep; on the uniprocessor that conf/MASTER  *)
(* configures nothing runs in between.                                     *)
(*                                                                         *)
(* A request sleeps on lkp inside one of the loops "sh" (LK_SHARED), "up"  *)
(* (an upgrade), "ex1" and "ex2" (LK_EXCLUSIVE, before and after it has    *)
(* LK_WANT_EXCL), or on &lk_flags inside "drain".                          *)
(***************************************************************************)
EXTENDS Naturals, FiniteSets

CONSTANTS Threads,   \* the threads using one lock (lk_lockholder, lk_lockthread)
          None,      \* LK_NOPROC
          Requests,  \* the request types in use
          ExtFlags,  \* the external flags in use
          Errors,    \* tsleep may fail: lk_prio has PCATCH, or lk_timo is not 0
          MaxNest    \* bound: recursive exclusive locks

ASSUME ThreadsAssumption == IsFiniteSet(Threads) /\ None \notin Threads
ASSUME UseAssumption ==
    /\ Requests \subseteq {"SHARED", "EXCLUSIVE", "UPGRADE", "EXCLUPGRADE",
                           "DOWNGRADE", "DRAIN"}
    /\ ExtFlags \subseteq {"NOWAIT", "SLEEPFAIL", "CANRECURSE"}
    /\ Errors \in BOOLEAN
ASSUME BoundAssumption == MaxNest \in Nat \ {0}

VARIABLES lk_flags,           \* the internal flags that are set
          lk_sharecount,      \* number of accepted shared locks
          lk_waitcount,       \* number of threads sleeping for the lock
          lk_exclusivecount,  \* number of recursive exclusive locks
          lk_lockholder,      \* the thread with the exclusive lock, or None
          pc,                 \* the loop each thread sleeps in, or "idle"
          sleep,              \* its tsleep: "run" (none), "asleep", "woken",
                              \* or "error" (about to return an error)
          ext,                \* extflags of the call under way
          panicked,           \* the panic that stopped the system, or "no"
          shared,             \* history: shared locks of each thread
          excl,               \* history: exclusive locks of each thread
          drained             \* history: the thread LK_DRAIN returned the lock to

fields == <<lk_flags, lk_sharecount, lk_waitcount, lk_exclusivecount, lk_lockholder>>
vars   == <<fields, pc, sleep, ext, panicked, shared, excl, drained>>

LkpLoops == {"sh", "up", "ex1", "ex2"}
Loops    == LkpLoops \cup {"drain"}
AnyExcl  == {"HAVE_EXCL", "WANT_EXCL", "WANT_UPGRADE"}
Flags    == AnyExcl \cup {"WAITDRAIN", "DRAINING"}

Idle(t)    == pc[t] = "idle" /\ panicked = "no"
HasNone(t) == shared[t] = 0 /\ excl[t] = 0

-----------------------------------------------------------------------------
(* The conditions of the loops, with n accepted shared locks.              *)

\* Mutant: LK_EXCLUSIVE does not wait for the shared locks.
Blocked_not_shared(loop, flags, n) ==
    \/ loop = "sh"  /\ flags \cap AnyExcl # {}
    \/ loop = "up"  /\ n # 0
    \/ loop = "ex1" /\ flags \cap {"HAVE_EXCL", "WANT_EXCL"} # {}
    \/ loop = "ex2" /\ "WANT_UPGRADE" \in flags

\* Mutant: LK_EXCLUSIVE does not wait for an upgrade.
Blocked_not_upgrade(loop, flags, n) ==
    \/ loop = "sh"  /\ flags \cap AnyExcl # {}
    \/ loop = "up"  /\ n # 0
    \/ loop = "ex1" /\ flags \cap {"HAVE_EXCL", "WANT_EXCL"} # {}
    \/ loop = "ex2" /\ n # 0

\* Mutant: LK_EXCLUSIVE waits for LK_WANT_EXCL only.
Blocked_not_held(loop, flags, n) ==
    \/ loop = "sh"  /\ flags \cap AnyExcl # {}
    \/ loop = "up"  /\ n # 0
    \/ loop = "ex1" /\ "WANT_EXCL" \in flags
    \/ loop = "ex2" /\ (n # 0 \/ "WANT_UPGRADE" \in flags)

\* Mutant: LK_SHARED overtakes a waiting LK_EXCLUSIVE.
Blocked_barge(loop, flags, n) ==
    \/ loop = "sh"  /\ flags \cap {"HAVE_EXCL", "WANT_UPGRADE"} # {}
    \/ loop = "up"  /\ n # 0
    \/ loop = "ex1" /\ flags \cap {"HAVE_EXCL", "WANT_EXCL"} # {}
    \/ loop = "ex2" /\ (n # 0 \/ "WANT_UPGRADE" \in flags)

Blocked(loop, flags, n) ==
    \/ loop = "sh"  /\ flags \cap AnyExcl # {}
    \/ loop = "up"  /\ n # 0
    \/ loop = "ex1" /\ flags \cap {"HAVE_EXCL", "WANT_EXCL"} # {}
    \/ loop = "ex2" /\ (n # 0 \/ "WANT_UPGRADE" \in flags)

\* Mutant: forgets the threads that sleep for the lock.
Active_no_waiters(flags, n, w) == flags \cap AnyExcl # {} \/ n # 0

\* There is activity on the lock: LK_DRAIN waits, LK_WAITDRAIN stays.
Active(flags, n, w) == flags \cap AnyExcl # {} \/ n # 0 \/ w # 0

-----------------------------------------------------------------------------
(* How a section ends.  The parameters are the flags, the shared count and *)
(* the wait count it leaves (without t), and the state of the sleepers.    *)

\* wakeup: everybody asleep in one of the loops.
Woken(s, loops) ==
    [u \in Threads |-> IF s[u] = "asleep" /\ pc[u] \in loops THEN "woken" ELSE s[u]]

\* Mutant: takes one waiter for none.
WakeWaiters_two(s, w) == IF w > 1 THEN Woken(s, LkpLoops) ELSE s

\* wakeup(lkp) if somebody waits.
WakeWaiters(s, w) == IF w # 0 THEN Woken(s, LkpLoops) ELSE s

\* t sleeps for the lock inside a loop.
Wait(t, loop, flags, n, w, s) ==
    /\ lk_flags' = flags
    /\ lk_sharecount' = n
    /\ lk_waitcount' = w + 1
    /\ pc' = [pc EXCEPT ![t] = loop]
    /\ sleep' = [s EXCEPT ![t] = "asleep"]

\* lockmgr returns to t; threads that wait for the drain are woken if the
\* lock has become quiet.
Return(t, flags, n, w, s) ==
    LET quiet == "WAITDRAIN" \in flags /\ ~Active(flags, n, w)
    IN  /\ lk_flags' = IF quiet THEN flags \ {"WAITDRAIN"} ELSE flags
        /\ lk_sharecount' = n
        /\ lk_waitcount' = w
        /\ pc' = [pc EXCEPT ![t] = "idle"]
        /\ sleep' = [(IF quiet THEN Woken(s, {"drain"}) ELSE s) EXCEPT ![t] = "run"]

\* t gets the exclusive lock.
TakeExcl(t, flags, n, w, s) ==
    /\ lk_lockholder' = t
    /\ IF lk_exclusivecount # 0
       THEN panicked' = "exclusive_count" /\ UNCHANGED <<lk_exclusivecount, excl>>
       ELSE /\ lk_exclusivecount' = 1
            /\ excl' = [excl EXCEPT ![t] = @ + 1]
            /\ UNCHANGED panicked
    /\ Return(t, flags \cup {"HAVE_EXCL"}, n, w, s)

KeepExcl == UNCHANGED <<lk_lockholder, lk_exclusivecount, excl, panicked>>

\* The parts of the four requests that begin with a loop (ACQUIRE).
AcquireShared(t, w) ==
    /\ IF Blocked("sh", lk_flags, lk_sharecount)
       THEN /\ Wait(t, "sh", lk_flags, lk_sharecount, w, sleep)
            /\ UNCHANGED shared
       ELSE /\ Return(t, lk_flags, lk_sharecount + 1, w, sleep)
            /\ shared' = [shared EXCEPT ![t] = @ + 1]
    /\ KeepExcl

AcquireUpgrade(t, flags, n, w) ==
    IF Blocked("up", flags, n)
    THEN Wait(t, "up", flags, n, w, sleep) /\ KeepExcl
    ELSE TakeExcl(t, flags \ {"WANT_UPGRADE"}, n, w, sleep)

AcquireExcl2(t, flags, n, w, s) ==
    IF Blocked("ex2", flags, n)
    THEN Wait(t, "ex2", flags, n, w, s) /\ KeepExcl
    ELSE TakeExcl(t, flags \ {"WANT_EXCL"}, n, w, s)

AcquireExcl1(t, flags, n, w, s) ==
    IF Blocked("ex1", flags, n)
    THEN Wait(t, "ex1", flags, n, w, s) /\ KeepExcl
    ELSE AcquireExcl2(t, flags \cup {"WANT_EXCL"}, n, w, s)

AcquireDrain(t) ==
    /\ IF Active(lk_flags, lk_sharecount, lk_waitcount)
       THEN /\ lk_flags' = lk_flags \cup {"WAITDRAIN"}
            /\ pc' = [pc EXCEPT ![t] = "drain"]
            /\ sleep' = [sleep EXCEPT ![t] = "asleep"]
            /\ UNCHANGED <<lk_lockholder, lk_exclusivecount, excl, drained>>
       ELSE /\ lk_flags' = lk_flags \cup {"DRAINING", "HAVE_EXCL"}
            /\ lk_lockholder' = t
            /\ lk_exclusivecount' = 1
            /\ excl' = [excl EXCEPT ![t] = @ + 1]
            /\ drained' = t
            /\ pc' = [pc EXCEPT ![t] = "idle"]
            /\ sleep' = [sleep EXCEPT ![t] = "run"]
    /\ UNCHANGED <<lk_sharecount, lk_waitcount, panicked, shared>>

-----------------------------------------------------------------------------
(* Requests.  Clients follow the rules the panics of lockmgr enforce, ask  *)
(* for a lock only while they have none (or for a recursive one), and      *)
(* upgrade only a sole shared lock.  A polling LK_SHARED, LK_EXCLUSIVE or  *)
(* LK_DRAIN that would block returns EBUSY and changes nothing.            *)

Call(t, request, x) ==
    /\ Idle(t)
    /\ request \in Requests
    /\ ext' = [ext EXCEPT ![t] = IF pc'[t] = "idle" THEN {} ELSE x]

\* LK_NOWAIT, and the request would block.
Polls(x, wouldBlock) == "NOWAIT" \in x /\ wouldBlock

LK_SHARED(t, x) ==
    /\ Idle(t) /\ HasNone(t)
    /\ ~Polls(x, Blocked("sh", lk_flags, lk_sharecount))
    /\ AcquireShared(t, lk_waitcount)
    /\ Call(t, "SHARED", x)
    /\ UNCHANGED drained

\* The exclusive locks of t turn into shared ones.
Downgrade(t, extra) ==
    /\ Idle(t) /\ excl[t] > 0
    /\ lk_exclusivecount' = 0
    /\ lk_lockholder' = None
    /\ Return(t, lk_flags \ {"HAVE_EXCL"},
              lk_sharecount + extra + lk_exclusivecount, lk_waitcount,
              WakeWaiters(sleep, lk_waitcount))
    /\ shared' = [shared EXCEPT ![t] = @ + extra + excl[t]]
    /\ excl' = [excl EXCEPT ![t] = 0]
    /\ drained' = None
    /\ UNCHANGED panicked

\* LK_SHARED of the thread that has the exclusive lock adds one and falls
\* into LK_DOWNGRADE.
LK_SHARED_holder(t) == Downgrade(t, 1) /\ Call(t, "SHARED", {})

LK_DOWNGRADE(t) == Downgrade(t, 0) /\ Call(t, "DOWNGRADE", {})

\* Another upgrade is ahead: the shared lock is lost.
LK_EXCLUPGRADE_fails(t) ==
    /\ Idle(t) /\ shared[t] = 1
    /\ "WANT_UPGRADE" \in lk_flags
    /\ Return(t, lk_flags, lk_sharecount - 1, lk_waitcount, sleep)
    /\ shared' = [shared EXCEPT ![t] = @ - 1]
    /\ KeepExcl
    /\ Call(t, "EXCLUPGRADE", {})
    /\ UNCHANGED drained

\* Polling fails, with the shared lock given up, if an upgrade is ahead or
\* more than one other shared lock is left.
PollFails(x) ==
    Polls(x, "WANT_UPGRADE" \in lk_flags \/ lk_sharecount - 1 > 1)

LK_UPGRADE_polls(t, request, x) ==
    /\ Idle(t) /\ shared[t] = 1
    /\ request = "EXCLUPGRADE" => "WANT_UPGRADE" \notin lk_flags
    /\ PollFails(x)
    /\ Return(t, lk_flags, lk_sharecount - 1, lk_waitcount, sleep)
    /\ shared' = [shared EXCEPT ![t] = @ - 1]
    /\ KeepExcl
    /\ Call(t, request, x)
    /\ UNCHANGED drained

\* The first upgrade.
LK_UPGRADE_first(t, request, x) ==
    /\ Idle(t) /\ shared[t] = 1
    /\ ~PollFails(x)
    /\ "WANT_UPGRADE" \notin lk_flags
    /\ AcquireUpgrade(t, lk_flags \cup {"WANT_UPGRADE"}, lk_sharecount - 1, lk_waitcount)
    /\ shared' = [shared EXCEPT ![t] = @ - 1]
    /\ Call(t, request, x)
    /\ UNCHANGED drained

\* Another upgrade is ahead: the shared lock is released, and an exclusive
\* lock is requested.
LK_UPGRADE_second(t, x) ==
    /\ Idle(t) /\ shared[t] = 1
    /\ "WANT_UPGRADE" \in lk_flags
    /\ ~PollFails(x)
    /\ AcquireExcl1(t, lk_flags, lk_sharecount - 1, lk_waitcount,
                    IF lk_sharecount - 1 = 0 THEN WakeWaiters(sleep, lk_waitcount)
                    ELSE sleep)
    /\ shared' = [shared EXCEPT ![t] = @ - 1]
    /\ Call(t, "UPGRADE", x)
    /\ UNCHANGED drained

LK_EXCLUSIVE_recursive(t) ==
    /\ Idle(t) /\ excl[t] \in 1..(MaxNest - 1)
    /\ "CANRECURSE" \in ExtFlags
    /\ lk_exclusivecount' = lk_exclusivecount + 1
    /\ excl' = [excl EXCEPT ![t] = @ + 1]
    /\ Return(t, lk_flags, lk_sharecount, lk_waitcount, sleep)
    /\ Call(t, "EXCLUSIVE", {"CANRECURSE"})
    /\ UNCHANGED <<lk_lockholder, panicked, shared, drained>>

LK_EXCLUSIVE(t, x) ==
    /\ Idle(t) /\ HasNone(t)
    /\ ~Polls(x, lk_flags \cap AnyExcl # {} \/ lk_sharecount # 0)
    /\ AcquireExcl1(t, lk_flags, lk_sharecount, lk_waitcount, sleep)
    /\ Call(t, "EXCLUSIVE", x)
    /\ UNCHANGED <<shared, drained>>

\* t gives up one of its exclusive locks, the last one with the lock.
ReleaseExcl(t) ==
    LET last == lk_exclusivecount = 1
    IN  /\ lk_exclusivecount' = lk_exclusivecount - 1
        /\ lk_lockholder' = IF last THEN None ELSE lk_lockholder
        /\ Return(t, IF last THEN lk_flags \ {"HAVE_EXCL"} ELSE lk_flags,
                  lk_sharecount, lk_waitcount, WakeWaiters(sleep, lk_waitcount))
        /\ excl' = [excl EXCEPT ![t] = @ - 1]
        /\ drained' = IF last THEN None ELSE drained
        /\ UNCHANGED <<shared, panicked>>

ReleaseShared(t) ==
    /\ Return(t, lk_flags, IF lk_sharecount # 0 THEN lk_sharecount - 1 ELSE 0,
              lk_waitcount, WakeWaiters(sleep, lk_waitcount))
    /\ shared' = [shared EXCEPT ![t] = @ - 1]
    /\ KeepExcl
    /\ UNCHANGED drained

\* Somebody else has the exclusive lock: panic.
ReleaseForeign ==
    /\ panicked' = "unlocking"
    /\ UNCHANGED <<fields, pc, sleep, shared, excl, drained>>

LK_RELEASE(t) ==
    /\ Idle(t) /\ ~HasNone(t)
    /\ IF lk_exclusivecount # 0
       THEN IF lk_lockholder = t THEN ReleaseExcl(t) ELSE ReleaseForeign
       ELSE ReleaseShared(t)
    /\ UNCHANGED ext

LK_DRAIN(t, x) ==
    /\ Idle(t) /\ HasNone(t)
    /\ ~Polls(x, Active(lk_flags, lk_sharecount, lk_waitcount))
    /\ AcquireDrain(t)
    /\ Call(t, "DRAIN", x)

-----------------------------------------------------------------------------
(* tsleep.                                                                 *)

\* A signal or the timeout ends a sleep, or overrides a wakeup; a thread may
\* also be woken for no reason.
Disturb(t) ==
    /\ Errors
    /\ panicked = "no"
    /\ \/ sleep[t] = "asleep" /\ \E s \in {"woken", "error"} : sleep' = [sleep EXCEPT ![t] = s]
       \/ sleep[t] = "woken" /\ sleep' = [sleep EXCEPT ![t] = "error"]
    /\ UNCHANGED <<fields, pc, ext, panicked, shared, excl, drained>>

\* tsleep returned: lk_waitcount goes down, and the loop goes on.
Resume(t) ==
    /\ sleep[t] = "woken" /\ "SLEEPFAIL" \notin ext[t] /\ panicked = "no"
    /\ \/ pc[t] = "sh" /\ AcquireShared(t, lk_waitcount - 1) /\ UNCHANGED drained
       \/ /\ pc[t] = "up"
          /\ AcquireUpgrade(t, lk_flags, lk_sharecount, lk_waitcount - 1)
          /\ UNCHANGED <<shared, drained>>
       \/ /\ pc[t] = "ex1"
          /\ AcquireExcl1(t, lk_flags, lk_sharecount, lk_waitcount - 1, sleep)
          /\ UNCHANGED <<shared, drained>>
       \/ /\ pc[t] = "ex2"
          /\ AcquireExcl2(t, lk_flags, lk_sharecount, lk_waitcount - 1, sleep)
          /\ UNCHANGED <<shared, drained>>
       \/ pc[t] = "drain" /\ AcquireDrain(t)
    /\ ext' = [ext EXCEPT ![t] = IF pc'[t] = "idle" THEN {} ELSE @]

\* Mutant: the flag stays.
FlagOf_none(loop) == {}

\* The flag of the request is dropped with it.
FlagOf(loop) == CASE loop = "up"  -> {"WANT_UPGRADE"}
                  [] loop = "ex2" -> {"WANT_EXCL"}
                  [] OTHER        -> {}

\* Mutant: stays in lk_waitcount.
SleepFails_counted(t) ==
    /\ sleep[t] = "error" \/ (sleep[t] = "woken" /\ "SLEEPFAIL" \in ext[t])
    /\ panicked = "no"
    /\ \/ /\ pc[t] \in LkpLoops
          /\ Return(t, lk_flags \ FlagOf(pc[t]), lk_sharecount, lk_waitcount, sleep)
          /\ UNCHANGED <<lk_exclusivecount, lk_lockholder>>
       \/ /\ pc[t] = "drain"
          /\ pc' = [pc EXCEPT ![t] = "idle"]
          /\ sleep' = [sleep EXCEPT ![t] = "run"]
          /\ UNCHANGED fields
    /\ ext' = [ext EXCEPT ![t] = {}]
    /\ UNCHANGED <<panicked, shared, excl, drained>>

\* Mutant: takes back lk_waitcount, which LK_DRAIN has not raised.
SleepFails_drain(t) ==
    /\ sleep[t] = "error" \/ (sleep[t] = "woken" /\ "SLEEPFAIL" \in ext[t])
    /\ panicked = "no"
    /\ Return(t, lk_flags \ FlagOf(pc[t]), lk_sharecount, lk_waitcount - 1, sleep)
    /\ ext' = [ext EXCEPT ![t] = {}]
    /\ UNCHANGED <<lk_exclusivecount, lk_lockholder, panicked, shared, excl, drained>>

\* tsleep failed, or the request was not to sleep twice: it fails.  LK_DRAIN
\* returns without the interlock.
SleepFails(t) ==
    /\ sleep[t] = "error" \/ (sleep[t] = "woken" /\ "SLEEPFAIL" \in ext[t])
    /\ panicked = "no"
    /\ \/ /\ pc[t] \in LkpLoops
          /\ Return(t, lk_flags \ FlagOf(pc[t]), lk_sharecount, lk_waitcount - 1, sleep)
          /\ UNCHANGED <<lk_exclusivecount, lk_lockholder>>
       \/ /\ pc[t] = "drain"
          /\ pc' = [pc EXCEPT ![t] = "idle"]
          /\ sleep' = [sleep EXCEPT ![t] = "run"]
          /\ UNCHANGED fields
    /\ ext' = [ext EXCEPT ![t] = {}]
    /\ UNCHANGED <<panicked, shared, excl, drained>>

-----------------------------------------------------------------------------
\* lockinit.
Init ==
    /\ lk_flags = {}
    /\ lk_sharecount = 0 /\ lk_waitcount = 0 /\ lk_exclusivecount = 0
    /\ lk_lockholder = None
    /\ pc = [t \in Threads |-> "idle"]
    /\ sleep = [t \in Threads |-> "run"]
    /\ ext = [t \in Threads |-> {}]
    /\ panicked = "no"
    /\ shared = [t \in Threads |-> 0]
    /\ excl = [t \in Threads |-> 0]
    /\ drained = None

Request(t) ==
    \/ LK_SHARED_holder(t) \/ LK_DOWNGRADE(t)
    \/ LK_EXCLUPGRADE_fails(t)
    \/ LK_EXCLUSIVE_recursive(t)
    \/ LK_RELEASE(t)
    \/ \E x \in SUBSET (ExtFlags \ {"CANRECURSE"}) :
          \/ LK_SHARED(t, x) \/ LK_EXCLUSIVE(t, x) \/ LK_DRAIN(t, x)
          \/ \E request \in {"UPGRADE", "EXCLUPGRADE"} :
                LK_UPGRADE_polls(t, request, x) \/ LK_UPGRADE_first(t, request, x)
          \/ LK_UPGRADE_second(t, x)

Next == \E t \in Threads : Request(t) \/ Disturb(t) \/ Resume(t) \/ SleepFails(t)

Spec == Init /\ [][Next]_vars

\* A thread that was woken runs, and a client releases the lock some time.
Fairness ==
    \A t \in Threads : /\ WF_vars(Resume(t))
                       /\ WF_vars(SleepFails(t))
                       /\ SF_vars(LK_RELEASE(t))

FairSpec == Spec /\ Fairness

-----------------------------------------------------------------------------
(* Properties.                                                             *)

\* Every variable has its type.
TypeOK ==
    /\ lk_flags \subseteq Flags
    /\ lk_sharecount \in Nat /\ lk_waitcount \in Nat /\ lk_exclusivecount \in Nat
    /\ lk_lockholder \in Threads \cup {None}
    /\ pc \in [Threads -> {"idle"} \cup Loops]
    /\ sleep \in [Threads -> {"run", "asleep", "woken", "error"}]
    /\ ext \in [Threads -> SUBSET ExtFlags]
    /\ panicked \in {"no", "exclusive_count", "unlocking"}
    /\ shared \in [Threads -> Nat]
    /\ excl \in [Threads -> Nat]
    /\ drained \in Threads \cup {None}

\* "Only one exclusive lock may exist at a time" (sys/lock.h), and no shared
\* lock beside it.
Exclusion ==
    \A t, u \in Threads :
        excl[t] > 0 /\ u # t => excl[u] = 0 /\ shared[u] = 0

\* lockmgr never finds an exclusive lock when it is about to grant one: it
\* panics with "non-zero exclusive count" (kern_lock.c) if it does.
NoExclusivePanic == panicked # "exclusive_count"

\* The locks that were handed out, where thread t has f[t] of them.
HandedOut(f) == UNION {{t} \X (1 .. f[t]) : t \in Threads}

\* The requests that sleep for the lock.
Waiting == {t \in Threads : pc[t] \in LkpLoops}

\* The counts are those of the locks that were handed out and of the requests
\* that are inside tsleep, whichever way each of them ended.
CountsExact ==
    /\ lk_sharecount = Cardinality(HandedOut(shared))
    /\ lk_exclusivecount = Cardinality(HandedOut(excl))
    /\ lk_waitcount = Cardinality(Waiting)

\* A flag is set while a request stands behind it, so that no request is kept
\* waiting by a flag nobody will clear.
FlagsOwned ==
    /\ "HAVE_EXCL" \in lk_flags <=> \E t \in Threads : excl[t] > 0
    /\ "WANT_EXCL" \in lk_flags <=> \E t \in Threads : pc[t] = "ex2"
    /\ "WANT_UPGRADE" \in lk_flags <=> \E t \in Threads : pc[t] = "up"

\* An upgrade that waits is not overtaken: "no other processes will have gotten
\* exclusive access to the resource" (sys/lock.h) before it is granted.
UpgradeUndisturbed ==
    \A t \in Threads : pc[t] = "up" => lk_exclusivecount = 0

\* "wait for all activity on the lock to end" (sys/lock.h): when LK_DRAIN
\* returns, no other thread has the lock or is inside lockmgr, other than to
\* drain it too.
DrainEndsActivity ==
    [][drained' \in Threads /\ drained' # drained =>
          \A u \in Threads \ {drained'} :
              HasNone(u) /\ pc[u] \in {"idle", "drain"}]_vars

\* No lost wakeup: "Wait for exclusive locks and upgrades to clear"
\* (kern_lock.c), and no longer.
SleepersBlocked ==
    \A t \in Threads :
        sleep[t] = "asleep" =>
            IF pc[t] = "drain"
            THEN "WAITDRAIN" \in lk_flags /\ Active(lk_flags, lk_sharecount, lk_waitcount)
            ELSE Blocked(pc[t], lk_flags, lk_sharecount)

\* The request that has LK_WANT_EXCL gets the exclusive lock.
WriterEnters == \A t \in Threads : pc[t] = "ex2" ~> excl[t] > 0
=============================================================================
