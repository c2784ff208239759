---------------------------- MODULE ComplexLock ----------------------------
(***************************************************************************)
(* The Mach complex lock (kern/lock.c): a sleeping reader/writer lock with *)
(* upgrades, downgrades and a recursive owner.                             *)
(*                                                                         *)
(* One action is one critical section of the lock's interlock: the code    *)
(* drops the interlock only to spin or in thread_sleep, which queues the   *)
(* thread on the event before it unlocks (assert_wait, then simple_unlock).*)
(* A thread inside a wait loop has a program counter naming the loop; it   *)
(* is asleep on the event "l" or about to test the loop's condition again. *)
(*                                                                         *)
(* The fields of struct lock (lock.h) are variables of the same names.     *)
(* The rest is history: what each client holds according to the calls that *)
(* returned to it, and which thread set the two "want" bits.               *)
(***************************************************************************)
EXTENDS Naturals, FiniteSets

CONSTANTS Threads,   \* the kernel threads using one lock
          None,      \* (struct thread *)-1: no recursive owner
          MaxNest,   \* bound: read holds, and nested writes, of one thread
          Uses       \* how the clients use the recursion feature, see below

(***************************************************************************)
(* "recursion": clients call lock_set_recursive, as vm_map.c, vm_kern.c    *)
(* and mapfs.c do after a lock_write.  The other two go beyond what these  *)
(* callers do: "recursion_after_upgrade" calls it on a write lock that was *)
(* obtained with lock_read_to_write, and "update_while_downgraded" asks    *)
(* for the write lock again after the owner downgraded it.                 *)
(***************************************************************************)
AllUses == {"recursion", "recursion_after_upgrade", "update_while_downgraded"}

ASSUME ThreadsAssumption == IsFiniteSet(Threads) /\ None \notin Threads
ASSUME BoundAssumption   == MaxNest \in Nat \ {0}
ASSUME UsesAssumption    == Uses \subseteq AllUses

VARIABLES thread,           \* the recursive owner, or None
          read_count,       \* number of accepted readers
          want_upgrade,     \* a read-to-write upgrade is waiting, or holds
          want_write,       \* a writer is waiting, or holds the lock
          waiting,          \* someone is sleeping on the lock
          can_sleep,        \* attempts to lock may go to sleep
          recursion_depth,  \* nested write holds of the owner
          pc,               \* the wait loop each thread is in, or "idle"
          asleep,           \* threads asleep on the event l
          panicked,         \* panic() was called
          readers,          \* history: the read holds, <<thread, level>>
          writes,           \* history: number of write holds of a thread
          writeBy,          \* history: the thread that set want_write
          upgradeBy         \* history: the thread that set want_upgrade

lockFields == <<thread, read_count, want_upgrade, want_write, can_sleep,
                recursion_depth>>
control    == <<pc, asleep, waiting>>
wantedBy   == <<writeBy, upgradeBy>>
holds      == <<readers, writes>>
vars       == <<lockFields, control, panicked, holds, wantedBy>>

Levels     == 1..MaxNest
Upgrading  == {"up", "tup"}
Loops      == {"w1", "w2", "rd"} \cup Upgrading

-----------------------------------------------------------------------------
(* What a client holds.                                                    *)

ReadsOf(R, t) == {r \in R : r[1] = t}
Reads(t) == ReadsOf(readers, t)
Holds(t) == Reads(t) # {} \/ writes[t] > 0
SoleHold(t) == \/ writes[t] = 0 /\ \E n \in Levels : Reads(t) = {<<t, n>>}
               \/ writes[t] = 1 /\ Reads(t) = {}

\* A level that is free for a new read hold, and one that is taken.
NewRead(t)  == <<t, CHOOSE n \in Levels : <<t, n>> \notin readers>>
OneRead(t)  == <<t, CHOOSE n \in Levels : <<t, n>> \in readers>>
CanNestRead(t)  == \E n \in Levels : <<t, n>> \notin readers
CanNestWrite(t) == writes[t] < MaxNest

\* A thread that is not in one of the lock routines.
Idle(t) == pc[t] = "idle" /\ ~panicked

\* A write lock asked for by the recursive owner: callers in the kernel do
\* so only while they still hold it for writing.
MayUpdate(t) == writes[t] > 0 \/ "update_while_downgraded" \in Uses

-----------------------------------------------------------------------------
(* lock_init and lock_sleepable.                                           *)

lock_init ==
    /\ thread = None
    /\ read_count = 0
    /\ want_upgrade = FALSE
    /\ want_write = FALSE
    /\ waiting = FALSE
    /\ can_sleep \in BOOLEAN
    /\ recursion_depth = 0

Init ==
    /\ lock_init
    /\ pc = [t \in Threads |-> "idle"]
    /\ asleep = {}
    /\ panicked = FALSE
    /\ readers = {}
    /\ writes = [t \in Threads |-> 0]
    /\ writeBy = None
    /\ upgradeBy = None

lock_sleepable(t) ==
    /\ Idle(t)
    /\ can_sleep' \in BOOLEAN
    /\ UNCHANGED <<thread, read_count, want_upgrade, want_write,
                   recursion_depth, control, panicked, holds, wantedBy>>

-----------------------------------------------------------------------------
(* Sleeping and waking: thread_sleep(l, interlock, FALSE), thread_wakeup.  *)

\* Mutant: forgets to note that somebody sleeps.
thread_sleep_unnoted(t) ==
    /\ asleep' = asleep \cup {t}
    /\ UNCHANGED <<waiting, lockFields, pc, panicked, holds, wantedBy>>

thread_sleep(t) ==
    /\ waiting' = TRUE
    /\ asleep' = asleep \cup {t}
    /\ UNCHANGED <<lockFields, pc, panicked, holds, wantedBy>>

WakeIf(cond) ==
    IF waiting /\ cond
    THEN waiting' = FALSE /\ asleep' = {}
    ELSE UNCHANGED <<waiting, asleep>>

\* Mutant: lock_write does not wait for an upgrade under way.
Blocked_no_upgrade(loop) ==
    \/ loop = "w1" /\ want_write
    \/ loop = "w2" /\ read_count # 0
    \/ loop = "rd" /\ (want_write \/ want_upgrade)
    \/ loop \in Upgrading /\ read_count # 0

\* Mutant: lock_read overtakes a waiting writer.
Blocked_readers_barge(loop) ==
    \/ loop = "w1" /\ want_write
    \/ loop = "w2" /\ (read_count # 0 \/ want_upgrade)
    \/ loop = "rd" /\ want_upgrade
    \/ loop \in Upgrading /\ read_count # 0

\* The conditions of the wait loops.
Blocked(loop) ==
    \/ loop = "w1" /\ want_write
    \/ loop = "w2" /\ (read_count # 0 \/ want_upgrade)
    \/ loop = "rd" /\ (want_write \/ want_upgrade)
    \/ loop \in Upgrading /\ read_count # 0

Running(t, loop) == pc[t] = loop /\ t \notin asleep /\ ~panicked

\* The body of a wait loop once spinning did not help.  lock_try_read_to_write
\* does not look at can_sleep; the other loops go on spinning without it.
Sleep(t) ==
    \E loop \in Loops :
        /\ Running(t, loop)
        /\ Blocked(loop)
        /\ can_sleep \/ loop = "tup"
        /\ thread_sleep(t)

-----------------------------------------------------------------------------
(* lock_write.                                                             *)

lock_write(t) ==
    /\ Idle(t)
    /\ ~Holds(t)
    /\ thread # t
    /\ pc' = [pc EXCEPT ![t] = "w1"]
    /\ UNCHANGED <<lockFields, waiting, asleep, panicked, holds, wantedBy>>

lock_write_recursive(t) ==
    /\ Idle(t)
    /\ thread = t
    /\ MayUpdate(t)
    /\ CanNestWrite(t)
    /\ recursion_depth' = recursion_depth + 1
    /\ writes' = [writes EXCEPT ![t] = @ + 1]
    /\ UNCHANGED <<thread, read_count, want_upgrade, want_write, can_sleep,
                   control, panicked, readers, wantedBy>>

\* The first loop is left with the want_write bit.
lock_write_want(t) ==
    /\ Running(t, "w1")
    /\ ~Blocked("w1")
    /\ want_write' = TRUE
    /\ writeBy' = t
    /\ pc' = [pc EXCEPT ![t] = "w2"]
    /\ UNCHANGED <<thread, read_count, want_upgrade, can_sleep, recursion_depth,
                   asleep, waiting, panicked, holds, upgradeBy>>

\* The second loop is left with the lock.
lock_write_return(t) ==
    /\ Running(t, "w2")
    /\ ~Blocked("w2")
    /\ writes' = [writes EXCEPT ![t] = @ + 1]
    /\ pc' = [pc EXCEPT ![t] = "idle"]
    /\ UNCHANGED <<lockFields, asleep, waiting, panicked, readers, wantedBy>>

-----------------------------------------------------------------------------
(* lock_read.                                                              *)

lock_read(t) ==
    /\ Idle(t)
    /\ ~Holds(t)
    /\ thread # t
    /\ pc' = [pc EXCEPT ![t] = "rd"]
    /\ UNCHANGED <<lockFields, waiting, asleep, panicked, holds, wantedBy>>

lock_read_recursive(t) ==
    /\ Idle(t)
    /\ thread = t
    /\ CanNestRead(t)
    /\ read_count' = read_count + 1
    /\ readers' = readers \cup {NewRead(t)}
    /\ UNCHANGED <<thread, want_upgrade, want_write, can_sleep, recursion_depth,
                   control, panicked, writes, wantedBy>>

lock_read_return(t) ==
    /\ Running(t, "rd")
    /\ ~Blocked("rd")
    /\ read_count' = read_count + 1
    /\ readers' = readers \cup {NewRead(t)}
    /\ pc' = [pc EXCEPT ![t] = "idle"]
    /\ UNCHANGED <<thread, want_upgrade, want_write, can_sleep, recursion_depth,
                   asleep, waiting, panicked, writes, wantedBy>>

-----------------------------------------------------------------------------
(* lock_done, for read and for write holds.                                *)

\* Mutant: forgets that a write hold may have come from an upgrade.
DropWriteHold_want_write ==
    IF recursion_depth # 0
    THEN /\ recursion_depth' = recursion_depth - 1
         /\ UNCHANGED <<want_upgrade, want_write, wantedBy>>
    ELSE /\ want_write' = FALSE
         /\ writeBy' = None
         /\ UNCHANGED <<recursion_depth, want_upgrade, upgradeBy>>

\* The bit or the depth that stands for the innermost write hold is dropped.
DropWriteHold ==
    IF recursion_depth # 0
    THEN /\ recursion_depth' = recursion_depth - 1
         /\ UNCHANGED <<want_upgrade, want_write, wantedBy>>
    ELSE IF want_upgrade
    THEN /\ want_upgrade' = FALSE
         /\ upgradeBy' = None
         /\ UNCHANGED <<recursion_depth, want_write, writeBy>>
    ELSE /\ want_write' = FALSE
         /\ writeBy' = None
         /\ UNCHANGED <<recursion_depth, want_upgrade, upgradeBy>>

\* The client gives up a read hold if it has one, else a write hold.
ClientReleases(t) ==
    IF Reads(t) # {}
    THEN readers' = readers \ {OneRead(t)} /\ UNCHANGED writes
    ELSE writes' = [writes EXCEPT ![t] = @ - 1] /\ UNCHANGED readers

\* Mutant: takes every hold for a read hold.
lock_done_reads(t) ==
    /\ Idle(t)
    /\ Holds(t)
    /\ SoleHold(t) => thread # t
    /\ read_count' = read_count - 1
    /\ UNCHANGED <<want_upgrade, want_write, recursion_depth, wantedBy>>
    /\ WakeIf(read_count' = 0)
    /\ ClientReleases(t)
    /\ UNCHANGED <<thread, can_sleep, pc, panicked>>

\* The recursive owner clears the recursion before it lets go of the lock.
lock_done(t) ==
    /\ Idle(t)
    /\ Holds(t)
    /\ SoleHold(t) => thread # t
    /\ IF read_count # 0
       THEN /\ read_count' = read_count - 1
            /\ UNCHANGED <<want_upgrade, want_write, recursion_depth, wantedBy>>
       ELSE DropWriteHold /\ UNCHANGED read_count
    /\ WakeIf(read_count' = 0)
    /\ ClientReleases(t)
    /\ UNCHANGED <<thread, can_sleep, pc, panicked>>

-----------------------------------------------------------------------------
(* Upgrades.  The read hold is given up when the upgrade is asked for, and *)
(* turns into a write hold once the other readers are gone.                *)

lock_read_to_write_recursive(t) ==
    /\ Idle(t)
    /\ thread = t
    /\ Reads(t) # {}
    /\ MayUpdate(t)
    /\ CanNestWrite(t)
    /\ read_count' = read_count - 1
    /\ recursion_depth' = recursion_depth + 1
    /\ readers' = readers \ {OneRead(t)}
    /\ writes' = [writes EXCEPT ![t] = @ + 1]
    /\ UNCHANGED <<thread, want_upgrade, want_write, can_sleep, control,
                   panicked, wantedBy>>

\* A client that is not the owner upgrades the only hold it has.
MayUpgrade(t) ==
    /\ Idle(t)
    /\ thread # t
    /\ Reads(t) # {}
    /\ SoleHold(t)

BeginUpgrade(t, loop) ==
    /\ MayUpgrade(t)
    /\ ~want_upgrade
    /\ want_upgrade' = TRUE
    /\ upgradeBy' = t
    /\ read_count' = read_count - 1
    /\ readers' = readers \ {OneRead(t)}
    /\ pc' = [pc EXCEPT ![t] = loop]
    /\ UNCHANGED <<thread, want_write, can_sleep, recursion_depth, waiting,
                   asleep, panicked, writes, writeBy>>

lock_read_to_write(t) == BeginUpgrade(t, "up")

\* Mutant: does not wake the upgrader it lost against.
lock_read_to_write_fails_quiet(t) ==
    /\ MayUpgrade(t)
    /\ want_upgrade
    /\ read_count' = read_count - 1
    /\ readers' = readers \ {OneRead(t)}
    /\ UNCHANGED <<thread, want_upgrade, want_write, can_sleep, recursion_depth,
                   control, panicked, writes, wantedBy>>

\* Somebody else upgrades: the lock is lost and TRUE is returned.
lock_read_to_write_fails(t) ==
    /\ MayUpgrade(t)
    /\ want_upgrade
    /\ read_count' = read_count - 1
    /\ readers' = readers \ {OneRead(t)}
    /\ WakeIf(read_count' = 0)
    /\ UNCHANGED <<thread, want_upgrade, want_write, can_sleep, recursion_depth,
                   pc, panicked, writes, wantedBy>>

lock_try_read_to_write(t) == BeginUpgrade(t, "tup")

\* Somebody else upgrades: FALSE is returned with the read lock still held,
\* so that no variable changes.
lock_try_read_to_write_fails(t) ==
    /\ MayUpgrade(t)
    /\ want_upgrade
    /\ UNCHANGED vars

upgrade_return(t) ==
    \E loop \in Upgrading :
        /\ Running(t, loop)
        /\ ~Blocked(loop)
        /\ writes' = [writes EXCEPT ![t] = @ + 1]
        /\ pc' = [pc EXCEPT ![t] = "idle"]
        /\ UNCHANGED <<lockFields, asleep, waiting, panicked, readers, wantedBy>>

lock_write_to_read(t) ==
    /\ Idle(t)
    /\ writes[t] > 0
    /\ CanNestRead(t)
    /\ read_count' = read_count + 1
    /\ DropWriteHold
    /\ WakeIf(TRUE)
    /\ readers' = readers \cup {NewRead(t)}
    /\ writes' = [writes EXCEPT ![t] = @ - 1]
    /\ UNCHANGED <<thread, can_sleep, pc, panicked>>

-----------------------------------------------------------------------------
(* lock_try_write and lock_try_read: the recursive cases are those of      *)
(* lock_write and lock_read; a failure changes nothing.                    *)

\* Mutant: does not look at the readers.
lock_try_write_unread(t) ==
    /\ Idle(t)
    /\ ~Holds(t)
    /\ thread # t
    /\ ~(want_write \/ want_upgrade)
    /\ want_write' = TRUE
    /\ writeBy' = t
    /\ writes' = [writes EXCEPT ![t] = @ + 1]
    /\ UNCHANGED <<thread, read_count, want_upgrade, can_sleep, recursion_depth,
                   control, panicked, readers, upgradeBy>>

lock_try_write(t) ==
    /\ Idle(t)
    /\ ~Holds(t)
    /\ thread # t
    /\ ~(want_write \/ want_upgrade \/ read_count # 0)
    /\ want_write' = TRUE
    /\ writeBy' = t
    /\ writes' = [writes EXCEPT ![t] = @ + 1]
    /\ UNCHANGED <<thread, read_count, want_upgrade, can_sleep, recursion_depth,
                   control, panicked, readers, upgradeBy>>

lock_try_read(t) ==
    /\ Idle(t)
    /\ ~Holds(t)
    /\ thread # t
    /\ ~(want_write \/ want_upgrade)
    /\ read_count' = read_count + 1
    /\ readers' = readers \cup {NewRead(t)}
    /\ UNCHANGED <<thread, want_upgrade, want_write, can_sleep, recursion_depth,
                   control, panicked, writes, wantedBy>>

-----------------------------------------------------------------------------
(* The recursive owner.                                                    *)

lock_set_recursive(t) ==
    /\ Idle(t)
    /\ "recursion" \in Uses
    /\ writes[t] > 0
    /\ writeBy = t \/ "recursion_after_upgrade" \in Uses
    /\ IF ~want_write
       THEN panicked' = TRUE /\ UNCHANGED thread
       ELSE thread' = t /\ UNCHANGED panicked
    /\ UNCHANGED <<read_count, want_upgrade, want_write, can_sleep,
                   recursion_depth, control, holds, wantedBy>>

lock_clear_recursive(t) ==
    /\ Idle(t)
    /\ thread = t
    /\ thread' = IF recursion_depth = 0 THEN None ELSE thread
    /\ UNCHANGED <<read_count, want_upgrade, want_write, can_sleep,
                   recursion_depth, control, panicked, holds, wantedBy>>

-----------------------------------------------------------------------------
Step(t) ==
    \/ lock_sleepable(t)
    \/ Sleep(t)
    \/ lock_write(t) \/ lock_write_recursive(t)
    \/ lock_write_want(t) \/ lock_write_return(t)
    \/ lock_read(t) \/ lock_read_recursive(t) \/ lock_read_return(t)
    \/ lock_done(t)
    \/ lock_read_to_write(t) \/ lock_read_to_write_recursive(t)
    \/ lock_read_to_write_fails(t)
    \/ lock_try_read_to_write(t) \/ lock_try_read_to_write_fails(t)
    \/ upgrade_return(t)
    \/ lock_write_to_read(t)
    \/ lock_try_write(t) \/ lock_try_read(t)
    \/ lock_set_recursive(t) \/ lock_clear_recursive(t)

Next == \E t \in Threads : Step(t)

Spec == Init /\ [][Next]_vars

\* A thread in a wait loop keeps testing the loop's condition, and a client
\* that has the lock time and again calls lock_done some time.
Fairness ==
    \A t \in Threads :
        /\ WF_vars(lock_write_want(t))
        /\ WF_vars(lock_write_return(t))
        /\ WF_vars(lock_read_return(t))
        /\ WF_vars(upgrade_return(t))
        /\ SF_vars(lock_done(t))

FairSpec == Spec /\ Fairness

-----------------------------------------------------------------------------
(* Properties.                                                             *)

\* Every variable has its type.
TypeOK ==
    /\ thread \in Threads \cup {None}
    /\ read_count \in Nat
    /\ want_upgrade \in BOOLEAN
    /\ want_write \in BOOLEAN
    /\ waiting \in BOOLEAN
    /\ can_sleep \in BOOLEAN
    /\ recursion_depth \in Nat
    /\ pc \in [Threads -> {"idle"} \cup Loops]
    /\ asleep \subseteq Threads
    /\ panicked \in BOOLEAN
    /\ readers \subseteq Threads \X Levels
    /\ writes \in [Threads -> Nat]
    /\ writeBy \in Threads \cup {None}
    /\ upgradeBy \in Threads \cup {None}

\* A thread that holds the lock for writing (lock_write, lock_try_write or an
\* upgrade returned to it) excludes every other hold, the read hold of a
\* thread whose upgrade is under way included: nobody writes between the
\* read hold and the write hold lock_read_to_write makes of it.
Exclusion ==
    \A t, u \in Threads :
        writes[t] > 0 /\ u # t =>
            writes[u] = 0 /\ Reads(u) = {} /\ pc[u] \notin Upgrading

\* No lost wakeup: what a sleeping thread waits for has not happened yet, and
\* "waiting" is set, so that the lock_done, lock_write_to_read or failed
\* lock_read_to_write that makes it happen calls thread_wakeup.
SleepersBlocked ==
    \A t \in asleep : waiting /\ pc[t] # "idle" /\ Blocked(pc[t])

\* read_count counts the read holds, whatever the interleaving of upgrades,
\* downgrades and of lock_done, which guesses the kind of the hold it drops.
ReadCountExact == read_count = Cardinality(readers)

\* When no thread holds or wants the lock nothing is left behind in it: it
\* may be freed or acquired at once.
QuietMeansFree ==
    (\A t \in Threads : pc[t] = "idle" /\ ~Holds(t)) =>
        /\ read_count = 0 /\ recursion_depth = 0
        /\ ~want_write /\ ~want_upgrade /\ ~waiting
        /\ thread = None

-----------------------------------------------------------------------------
(* The inductive invariant of the proofs: which bit stands for which hold. *)

HasBit(t) == \/ writeBy = t /\ pc[t] # "w2"
             \/ upgradeBy = t /\ pc[t] \notin Upgrading

\* The want bits are set exactly while the thread that set them wants or has
\* the lock, and a thread waiting with a bit is the one that set it.
BitsOwned ==
    /\ want_write <=> writeBy # None
    /\ want_upgrade <=> upgradeBy # None
    /\ \A t \in Threads : /\ pc[t] = "w2" => writeBy = t
                          /\ pc[t] \in Upgrading => upgradeBy = t

\* A write hold is a bit or a level of the owner's recursion, and one of the
\* holds is a bit.
WritesAreBits ==
    \A t \in Threads :
        /\ writes[t] = (IF writeBy = t /\ pc[t] # "w2" THEN 1 ELSE 0)
                     + (IF upgradeBy = t /\ pc[t] \notin Upgrading THEN 1 ELSE 0)
                     + (IF thread = t THEN recursion_depth ELSE 0)
        /\ writes[t] > 0 => HasBit(t)

\* A thread in a wait loop holds nothing and is not the owner; the owner
\* holds the lock, and without one there is no recursion.
WaitersAndOwner ==
    /\ \A t \in Threads : pc[t] # "idle" => ~Holds(t) /\ thread # t
    /\ \A t \in Threads : thread = t => Holds(t)
    /\ thread = None => recursion_depth = 0

\* waiting is set exactly while somebody sleeps on the lock.
WaitingExact == waiting <=> asleep # {}

IInv == /\ TypeOK
        /\ BitsOwned
        /\ WritesAreBits
        /\ WaitersAndOwner
        /\ WaitingExact
        /\ ReadCountExact
        /\ Exclusion
        /\ SleepersBlocked

-----------------------------------------------------------------------------
(* Further properties.                                                     *)

\* The holds of the clients are those of a read/write lock; a thread waiting
\* in an upgrade still has its read hold.
RW == INSTANCE RWLock WITH
        rd <- [t \in Threads |-> Cardinality(Reads(t)) +
                                   IF pc[t] \in Upgrading THEN 1 ELSE 0],
        wr <- writes
ImplementsRWLock == RW!Spec

\* The writer that owns want_write gets the lock: later readers and writers
\* wait for it, and the holders before it let go.
WriterEnters == \A t \in Threads : pc[t] = "w2" ~> writes[t] > 0

\* An upgrade that was accepted is granted.
UpgradeGranted == \A t \in Threads : pc[t] \in Upgrading ~> writes[t] > 0

\* Nobody sleeps forever on the lock.
SleeperWakes == \A t \in Threads : t \in asleep ~> t \notin asleep
=============================================================================
