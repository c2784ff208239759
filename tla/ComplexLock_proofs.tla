------------------------- MODULE ComplexLock_proofs -------------------------
(***************************************************************************)
(* Proofs about ComplexLock for every finite set of threads.  The clients  *)
(* use the recursion feature the way the kernel's own callers do.          *)
(***************************************************************************)
EXTENDS ComplexLock, FiniteSetTheorems, TLAPS

\* Clients stay within what vm_map.c, vm_kern.c and mapfs.c do.
KernelUses == Uses \subseteq {"recursion"}

-----------------------------------------------------------------------------
(* The set of read holds.                                                  *)

\* The read holds are a finite set, so that they can be counted.
LEMMA ReadersFinite ==
    ASSUME TypeOK
    PROVE  IsFiniteSet(readers) /\ Cardinality(readers) \in Nat
<1>1. IsFiniteSet(Levels)
  BY BoundAssumption, FS_Interval DEF Levels
<1>2. IsFiniteSet(Threads \X Levels)
  BY <1>1, ThreadsAssumption, FS_Product
<1>3. IsFiniteSet(readers)
  BY <1>2, FS_Subset DEF TypeOK
<1>4. QED
  BY <1>3, FS_CardinalityType

\* A new read hold of a thread adds one to the count and to nobody else.
LEMMA AddRead ==
    ASSUME TypeOK, NEW t \in Threads, CanNestRead(t),
           readers' = readers \cup {NewRead(t)}
    PROVE  /\ readers' \subseteq Threads \X Levels
           /\ Cardinality(readers') = Cardinality(readers) + 1
           /\ ReadsOf(readers', t) # {}
           /\ \A u \in Threads : u # t => ReadsOf(readers', u) = ReadsOf(readers, u)
<1> DEFINE r == NewRead(t)
<1>1. r \in Threads \X Levels /\ r \notin readers /\ r[1] = t
  BY DEF NewRead, CanNestRead
<1>2. Cardinality(readers') = Cardinality(readers) + 1
  BY <1>1, ReadersFinite, FS_AddElement
<1>3. readers' \subseteq Threads \X Levels
  BY <1>1 DEF TypeOK
<1>4. r \in ReadsOf(readers', t)
  BY <1>1 DEF ReadsOf
<1>5. ASSUME NEW u \in Threads, u # t
      PROVE  ReadsOf(readers', u) = ReadsOf(readers, u)
  BY <1>1, <1>5 DEF ReadsOf
<1>6. QED
  BY <1>2, <1>3, <1>4, <1>5

\* Giving up a read hold takes one from the count and nothing from the other
\* threads; it leaves a thread without any hold exactly if it was its only one.
LEMMA DropRead ==
    ASSUME TypeOK, NEW t \in Threads, ReadsOf(readers, t) # {},
           readers' = readers \ {OneRead(t)}
    PROVE  /\ readers' \subseteq Threads \X Levels
           /\ Cardinality(readers) \in Nat \ {0}
           /\ Cardinality(readers') = Cardinality(readers) - 1
           /\ \A u \in Threads : u # t => ReadsOf(readers', u) = ReadsOf(readers, u)
           /\ SoleHold(t) => ReadsOf(readers', t) = {}
           /\ ~SoleHold(t) /\ writes[t] = 0 => ReadsOf(readers', t) # {}
<1> DEFINE r == OneRead(t)
<1>1. PICK p \in readers : p[1] = t
  BY DEF ReadsOf
<1>2. p \in Threads \X Levels
  BY DEF TypeOK
<1>3. r \in readers /\ r[1] = t /\ r[2] \in Levels /\ r = <<t, r[2]>>
  BY <1>1, <1>2 DEF OneRead
<1>4. Cardinality(readers') = Cardinality(readers) - 1
  BY <1>3, ReadersFinite, FS_RemoveElement
<1>5. Cardinality(readers) # 0
  BY <1>3, ReadersFinite, FS_EmptySet
<1>6. ASSUME NEW u \in Threads, u # t
      PROVE  ReadsOf(readers', u) = ReadsOf(readers, u)
  BY <1>3, <1>6 DEF ReadsOf
<1>7. ASSUME SoleHold(t)
      PROVE  ReadsOf(readers', t) = {}
  <2>1. PICK n \in Levels : ReadsOf(readers, t) = {<<t, n>>}
    BY <1>7 DEF SoleHold, Reads
  <2>2. QED
    BY <2>1, <1>3 DEF ReadsOf
<1>8. ASSUME ~SoleHold(t), writes[t] = 0, ReadsOf(readers', t) = {}
      PROVE  FALSE
  <2>1. ReadsOf(readers, t) = {r}
    BY <1>8, <1>3 DEF ReadsOf
  <2>2. QED
    BY <2>1, <1>3, <1>8 DEF SoleHold, Reads
<1>9. QED
  BY <1>4, <1>5, <1>6, <1>7, <1>8, ReadersFinite DEF TypeOK

\* If nobody is counted nobody reads.
LEMMA NoReaders ==
    ASSUME TypeOK, Cardinality(readers) = 0
    PROVE  \A u \in Threads : ReadsOf(readers, u) = {}
BY ReadersFinite, FS_EmptySet DEF ReadsOf

\* A thread without read holds has a free level.
LEMMA RoomToRead ==
    ASSUME NEW t \in Threads, ReadsOf(readers, t) = {}
    PROVE  CanNestRead(t)
<1>1. 1 \in Levels
  BY BoundAssumption DEF Levels
<1>2. <<t, 1>> \notin readers
  BY DEF ReadsOf
<1>3. QED
  BY <1>1, <1>2 DEF CanNestRead

\* Without the bits nobody holds the lock for writing.
LEMMA NoBitsNoWrites ==
    ASSUME IInv, ~want_write, ~want_upgrade
    PROVE  \A u \in Threads : writes[u] = 0
BY ThreadsAssumption DEF IInv, TypeOK, BitsOwned, WritesAreBits, HasBit

\* If no thread has a read hold there is none.
LEMMA NobodyReads ==
    ASSUME TypeOK, \A u \in Threads : ReadsOf(readers, u) = {}
    PROVE  Cardinality(readers) = 0
<1>1. readers = {}
  <2>1. ASSUME NEW r \in readers
        PROVE  FALSE
    <3>1. r[1] \in Threads /\ r \in ReadsOf(readers, r[1])
      BY DEF TypeOK, ReadsOf
    <3>2. QED
      BY <3>1
  <2>2. QED
    BY <2>1
<1>2. QED
  BY <1>1, FS_EmptySet

\* What DropWriteHold drops for a writer is a hold of that writer: the
\* recursion is its own, and the bit that is set is the one it set.
LEMMA InnermostHold ==
    ASSUME IInv, NEW t \in Threads, pc[t] = "idle", writes[t] > 0
    PROVE  /\ recursion_depth # 0 => thread = t
           /\ want_upgrade => upgradeBy = t
           /\ ~want_upgrade => writeBy = t
<1> USE DEF IInv
<1>1. ASSUME NEW u \in Threads, u # t
      PROVE  ~Holds(u) /\ pc[u] \notin Upgrading
  BY <1>1 DEF Exclusion, Holds, TypeOK
<1>2. recursion_depth # 0 => thread = t
  BY <1>1, ThreadsAssumption DEF WaitersAndOwner, TypeOK
<1>3. want_upgrade => upgradeBy = t
  <2>1. SUFFICES ASSUME NEW u \in Threads, u # t, upgradeBy = u
                 PROVE  FALSE
    BY ThreadsAssumption DEF BitsOwned, TypeOK
  <2>2. writes[u] > 0
    BY <1>1, <2>1, ThreadsAssumption DEF WritesAreBits, TypeOK
  <2>3. QED
    BY <1>1, <2>1, <2>2 DEF Holds
<1>4. ~want_upgrade => writeBy = t
  BY ThreadsAssumption DEF WritesAreBits, HasBit, BitsOwned, TypeOK
<1>5. QED
  BY <1>2, <1>3, <1>4

\* Dropping a writer's hold keeps the bits and the holds in step.
LEMMA DropWrite ==
    ASSUME IInv, NEW t \in Threads, pc[t] = "idle", writes[t] > 0,
           DropWriteHold, writes' = [writes EXCEPT ![t] = @ - 1],
           pc' = pc, thread' = thread
    PROVE  /\ want_upgrade' \in BOOLEAN /\ want_write' \in BOOLEAN
           /\ recursion_depth' \in Nat
           /\ writes' \in [Threads -> Nat]
           /\ writeBy' \in Threads \cup {None}
           /\ upgradeBy' \in Threads \cup {None}
           /\ thread = None => recursion_depth' = 0
           /\ BitsOwned'
           /\ WritesAreBits'
<1> USE DEF IInv, TypeOK, BitsOwned, WritesAreBits, HasBit, wantedBy,
            DropWriteHold, Upgrading
<1>1. /\ recursion_depth # 0 => thread = t
      /\ want_upgrade => upgradeBy = t
      /\ ~want_upgrade => writeBy = t
  BY InnermostHold
<1>2. CASE recursion_depth # 0
  BY <1>1, <1>2, ThreadsAssumption
<1>3. CASE recursion_depth = 0 /\ want_upgrade
  <2>1. want_upgrade' = FALSE /\ upgradeBy' = None
        /\ UNCHANGED <<recursion_depth, want_write, writeBy>>
    BY <1>3
  <2>2. QED
    <3>1. BitsOwned'
      BY <1>1, <1>3, <2>1, ThreadsAssumption
    <3>2. WritesAreBits'
      BY <1>1, <1>3, <2>1, ThreadsAssumption
    <3>3. writes' \in [Threads -> Nat]
      OBVIOUS
    <3>4. QED
      BY <1>3, <2>1, <3>1, <3>2, <3>3
<1>4. CASE recursion_depth = 0 /\ ~want_upgrade
  <2>1. want_write' = FALSE /\ writeBy' = None
        /\ UNCHANGED <<recursion_depth, want_upgrade, upgradeBy>>
    BY <1>4
  <2>2. QED
    <3>1. BitsOwned'
      BY <1>1, <1>4, <2>1, ThreadsAssumption
    <3>2. WritesAreBits'
      BY <1>1, <1>4, <2>1, ThreadsAssumption
    <3>3. writes' \in [Threads -> Nat]
      OBVIOUS
    <3>4. QED
      BY <1>4, <2>1, <3>1, <3>2, <3>3
<1>5. QED
  BY <1>2, <1>3, <1>4

-----------------------------------------------------------------------------
(* Every action preserves the invariant.                                   *)

\* lock_sleepable only changes can_sleep.
LEMMA lock_sleepable_inv ==
    ASSUME IInv, KernelUses, NEW t \in Threads, lock_sleepable(t)
    PROVE  IInv'
<1> USE DEF lock_sleepable, Idle, control, holds, wantedBy, Upgrading, Loops
<1>1. TypeOK'
  BY DEF IInv, TypeOK
<1>2. BitsOwned'
  BY ThreadsAssumption DEF IInv, TypeOK, BitsOwned, WaitersAndOwner
<1>3. WritesAreBits'
  BY ThreadsAssumption DEF IInv, TypeOK, BitsOwned, WritesAreBits,
     WaitersAndOwner, HasBit
<1>4. WaitersAndOwner'
  BY DEF IInv, TypeOK, WaitersAndOwner, Holds, Reads
<1>5. WaitingExact'
  BY DEF IInv, TypeOK, WaitingExact
<1>6. ReadCountExact'
  BY DEF IInv, TypeOK, ReadCountExact
<1>7. Exclusion'
  BY DEF IInv, TypeOK, Exclusion, WaitersAndOwner, Holds, Reads
<1>8. SleepersBlocked'
  BY DEF IInv, TypeOK, SleepersBlocked, WaitingExact, Blocked
<1>9. QED
  BY <1>1, <1>2, <1>3, <1>4, <1>5, <1>6, <1>7, <1>8 DEF IInv

\* A thread goes to sleep only on a condition that is false, and says so in
\* waiting.
LEMMA Sleep_inv ==
    ASSUME IInv, KernelUses, NEW t \in Threads, Sleep(t)
    PROVE  IInv'
<1> USE DEF Sleep, Loops, Running, Blocked, thread_sleep, Upgrading,
        lockFields, holds, wantedBy
<1>1. TypeOK'
  BY DEF IInv, TypeOK
<1>2. BitsOwned'
  BY ThreadsAssumption DEF IInv, TypeOK, BitsOwned, WaitersAndOwner
<1>3. WritesAreBits'
  BY ThreadsAssumption DEF IInv, TypeOK, BitsOwned, WritesAreBits,
     WaitersAndOwner, HasBit
<1>4. WaitersAndOwner'
  BY DEF IInv, TypeOK, WaitersAndOwner, Holds, Reads
<1>5. WaitingExact'
  BY DEF IInv, TypeOK, WaitingExact
<1>6. ReadCountExact'
  BY DEF IInv, TypeOK, ReadCountExact
<1>7. Exclusion'
  BY DEF IInv, TypeOK, Exclusion, WaitersAndOwner, Holds, Reads
<1>8. SleepersBlocked'
  BY DEF IInv, TypeOK, SleepersBlocked, WaitingExact
<1>9. QED
  BY <1>1, <1>2, <1>3, <1>4, <1>5, <1>6, <1>7, <1>8 DEF IInv

\* Entering lock_write takes nothing yet.
LEMMA lock_write_inv ==
    ASSUME IInv, KernelUses, NEW t \in Threads, lock_write(t)
    PROVE  IInv'
<1> USE DEF lock_write, Idle, Holds, lockFields, holds, wantedBy, Reads,
        Upgrading, Loops
<1>1. TypeOK'
  BY DEF IInv, TypeOK
<1>2. BitsOwned'
  BY ThreadsAssumption DEF IInv, TypeOK, BitsOwned, WaitersAndOwner
<1>3. WritesAreBits'
  BY ThreadsAssumption DEF IInv, TypeOK, BitsOwned, WritesAreBits,
     WaitersAndOwner, HasBit
<1>4. WaitersAndOwner'
  BY DEF IInv, TypeOK, WaitersAndOwner
<1>5. WaitingExact'
  BY DEF IInv, TypeOK, WaitingExact
<1>6. ReadCountExact'
  BY DEF IInv, TypeOK, ReadCountExact
<1>7. Exclusion'
  BY DEF IInv, TypeOK, Exclusion, WaitersAndOwner
<1>8. SleepersBlocked'
  BY DEF IInv, TypeOK, SleepersBlocked, WaitingExact, Blocked
<1>9. QED
  BY <1>1, <1>2, <1>3, <1>4, <1>5, <1>6, <1>7, <1>8 DEF IInv

\* The recursive owner, which holds the lock for writing, nests a write hold.
LEMMA lock_write_recursive_inv ==
    ASSUME IInv, KernelUses, NEW t \in Threads, lock_write_recursive(t)
    PROVE  IInv'
<1> USE DEF lock_write_recursive, Idle, MayUpdate, control, wantedBy,
        Upgrading, Loops, KernelUses
<1>1. TypeOK'
  BY DEF IInv, TypeOK
<1>2. BitsOwned'
  BY ThreadsAssumption DEF IInv, TypeOK, BitsOwned, WaitersAndOwner
<1>3. WritesAreBits'
  BY ThreadsAssumption DEF IInv, TypeOK, BitsOwned, WritesAreBits,
     WaitersAndOwner, HasBit
<1>4. WaitersAndOwner'
  BY ThreadsAssumption DEF IInv, TypeOK, WaitersAndOwner, Holds, Reads
<1>5. WaitingExact'
  BY DEF IInv, TypeOK, WaitingExact
<1>6. ReadCountExact'
  BY DEF IInv, TypeOK, ReadCountExact
<1>7. Exclusion'
  BY DEF IInv, TypeOK, Exclusion, WaitersAndOwner, Holds, Reads
<1>8. SleepersBlocked'
  BY DEF IInv, TypeOK, SleepersBlocked, WaitingExact, Blocked
<1>9. QED
  BY <1>1, <1>2, <1>3, <1>4, <1>5, <1>6, <1>7, <1>8 DEF IInv

\* Leaving the first loop takes the want_write bit, which nobody had.
LEMMA lock_write_want_inv ==
    ASSUME IInv, KernelUses, NEW t \in Threads, lock_write_want(t)
    PROVE  IInv'
<1> USE DEF lock_write_want, Running, Blocked, holds, Upgrading, Loops
<1>1. TypeOK'
  BY DEF IInv, TypeOK
<1>2. BitsOwned'
  BY ThreadsAssumption DEF IInv, TypeOK, BitsOwned, WaitersAndOwner
<1>3. WritesAreBits'
  BY ThreadsAssumption DEF IInv, TypeOK, BitsOwned, WritesAreBits,
     WaitersAndOwner, HasBit
<1>4. WaitersAndOwner'
  BY DEF IInv, TypeOK, WaitersAndOwner, Holds, Reads
<1>5. WaitingExact'
  BY DEF IInv, TypeOK, WaitingExact
<1>6. ReadCountExact'
  BY DEF IInv, TypeOK, ReadCountExact
<1>7. Exclusion'
  BY DEF IInv, TypeOK, Exclusion, WaitersAndOwner, Holds, Reads
<1>8. SleepersBlocked'
  BY DEF IInv, TypeOK, SleepersBlocked, WaitingExact
<1>9. QED
  BY <1>1, <1>2, <1>3, <1>4, <1>5, <1>6, <1>7, <1>8 DEF IInv

\* The second loop of lock_write is left when no reader and no upgrade is left.
LEMMA lock_write_return_inv ==
    ASSUME IInv, KernelUses, NEW t \in Threads, lock_write_return(t)
    PROVE  IInv'
<1> USE DEF lock_write_return, Running, Blocked, lockFields, wantedBy,
        Upgrading, Loops
<1>1. TypeOK'
  BY DEF IInv, TypeOK
<1>2. BitsOwned'
  BY ThreadsAssumption DEF IInv, TypeOK, BitsOwned, WaitersAndOwner
<1>3. WritesAreBits'
  BY ThreadsAssumption DEF IInv, TypeOK, BitsOwned, WritesAreBits,
     WaitersAndOwner, HasBit
<1>4. WaitersAndOwner'
  BY DEF IInv, TypeOK, WaitersAndOwner, Holds, Reads
<1>5. WaitingExact'
  BY DEF IInv, TypeOK, WaitingExact
<1>6. ReadCountExact'
  BY DEF IInv, TypeOK, ReadCountExact
<1>7. Exclusion'
  <2>1. \A u \in Threads : u # t => writes[u] = 0 /\ pc[u] \notin Upgrading
    BY ThreadsAssumption DEF IInv, TypeOK, BitsOwned, WritesAreBits, HasBit
  <2>2. \A u \in Threads : ReadsOf(readers, u) = {}
    BY NoReaders DEF IInv, ReadCountExact
  <2>3. QED
    BY <2>1, <2>2 DEF IInv, TypeOK, Exclusion, Reads
<1>8. SleepersBlocked'
  BY DEF IInv, TypeOK, SleepersBlocked, WaitingExact
<1>9. QED
  BY <1>1, <1>2, <1>3, <1>4, <1>5, <1>6, <1>7, <1>8 DEF IInv

\* Entering lock_read takes nothing yet.
LEMMA lock_read_inv ==
    ASSUME IInv, KernelUses, NEW t \in Threads, lock_read(t)
    PROVE  IInv'
<1> USE DEF lock_read, Idle, Holds, lockFields, holds, wantedBy, Reads,
        Upgrading, Loops
<1>1. TypeOK'
  BY DEF IInv, TypeOK
<1>2. BitsOwned'
  BY ThreadsAssumption DEF IInv, TypeOK, BitsOwned, WaitersAndOwner
<1>3. WritesAreBits'
  BY ThreadsAssumption DEF IInv, TypeOK, BitsOwned, WritesAreBits,
     WaitersAndOwner, HasBit
<1>4. WaitersAndOwner'
  BY DEF IInv, TypeOK, WaitersAndOwner
<1>5. WaitingExact'
  BY DEF IInv, TypeOK, WaitingExact
<1>6. ReadCountExact'
  BY DEF IInv, TypeOK, ReadCountExact
<1>7. Exclusion'
  BY DEF IInv, TypeOK, Exclusion, WaitersAndOwner
<1>8. SleepersBlocked'
  BY DEF IInv, TypeOK, SleepersBlocked, WaitingExact, Blocked
<1>9. QED
  BY <1>1, <1>2, <1>3, <1>4, <1>5, <1>6, <1>7, <1>8 DEF IInv

\* The recursive owner nests a read hold: it holds the lock, so no other thread
\* has it for writing.
LEMMA lock_read_recursive_inv ==
    ASSUME IInv, KernelUses, NEW t \in Threads, lock_read_recursive(t)
    PROVE  IInv'
<1> USE DEF lock_read_recursive, Idle, control, wantedBy, Upgrading, Loops
<1>0. /\ readers' \subseteq Threads \X Levels
      /\ Cardinality(readers') = Cardinality(readers) + 1
      /\ ReadsOf(readers', t) # {}
      /\ \A u \in Threads : u # t => ReadsOf(readers', u) = ReadsOf(readers, u)
  BY AddRead DEF IInv
<1>1. TypeOK'
  BY <1>0 DEF IInv, TypeOK
<1>2. BitsOwned'
  BY <1>0, ThreadsAssumption DEF IInv, TypeOK, BitsOwned, WaitersAndOwner
<1>3. WritesAreBits'
  BY <1>0, ThreadsAssumption DEF IInv, TypeOK, BitsOwned, WritesAreBits,
     WaitersAndOwner, HasBit
<1>4. WaitersAndOwner'
  BY <1>0 DEF IInv, TypeOK, WaitersAndOwner, Holds, Reads
<1>5. WaitingExact'
  BY <1>0 DEF IInv, TypeOK, WaitingExact
<1>6. ReadCountExact'
  BY <1>0 DEF IInv, TypeOK, ReadCountExact
<1>7. Exclusion'
  <2>1. Holds(t)
    BY DEF IInv, WaitersAndOwner
  <2>2. \A u \in Threads : u # t => writes[u] = 0
    BY <2>1 DEF IInv, TypeOK, Exclusion, Holds
  <2>3. QED
    BY <1>0, <2>2 DEF IInv, TypeOK, Exclusion, Reads
<1>8. SleepersBlocked'
  BY <1>0 DEF IInv, TypeOK, SleepersBlocked, WaitingExact, Blocked
<1>9. QED
  BY <1>1, <1>2, <1>3, <1>4, <1>5, <1>6, <1>7, <1>8 DEF IInv

\* lock_read returns while no bit is set, hence without a writer.
LEMMA lock_read_return_inv ==
    ASSUME IInv, KernelUses, NEW t \in Threads, lock_read_return(t)
    PROVE  IInv'
<1> USE DEF lock_read_return, Running, Blocked, wantedBy, Upgrading, Loops
<1>0. /\ readers' \subseteq Threads \X Levels
      /\ Cardinality(readers') = Cardinality(readers) + 1
      /\ ReadsOf(readers', t) # {}
      /\ \A u \in Threads : u # t => ReadsOf(readers', u) = ReadsOf(readers, u)
  BY AddRead, RoomToRead DEF IInv, WaitersAndOwner, Holds, Reads
<1>1. TypeOK'
  BY <1>0 DEF IInv, TypeOK
<1>2. BitsOwned'
  BY <1>0, ThreadsAssumption DEF IInv, TypeOK, BitsOwned, WaitersAndOwner
<1>3. WritesAreBits'
  BY <1>0, ThreadsAssumption DEF IInv, TypeOK, BitsOwned, WritesAreBits,
     WaitersAndOwner, HasBit
<1>4. WaitersAndOwner'
  BY <1>0 DEF IInv, TypeOK, WaitersAndOwner, Holds, Reads
<1>5. WaitingExact'
  BY <1>0 DEF IInv, TypeOK, WaitingExact
<1>6. ReadCountExact'
  BY <1>0 DEF IInv, TypeOK, ReadCountExact
<1>7. Exclusion'
  BY <1>0, NoBitsNoWrites DEF IInv, TypeOK, Exclusion, WaitersAndOwner,
     Holds, Reads
<1>8. SleepersBlocked'
  BY <1>0 DEF IInv, TypeOK, SleepersBlocked, WaitingExact
<1>9. QED
  BY <1>1, <1>2, <1>3, <1>4, <1>5, <1>6, <1>7, <1>8 DEF IInv

\* lock_done drops a read hold of the caller if the caller has one, and its
\* innermost write hold otherwise: the count it looks at first is zero exactly
\* if the caller holds no read.
LEMMA lock_done_inv ==
    ASSUME IInv, NEW t \in Threads, lock_done(t)
    PROVE  IInv'
<1> USE DEF lock_done, Idle, Upgrading, Loops
<1>1. CASE Reads(t) # {}
<2>0. /\ readers' \subseteq Threads \X Levels
      /\ Cardinality(readers) \in Nat \ {0}
      /\ Cardinality(readers') = Cardinality(readers) - 1
      /\ \A u \in Threads : u # t => ReadsOf(readers', u) = ReadsOf(readers, u)
      /\ SoleHold(t) => ReadsOf(readers', t) = {}
      /\ ~SoleHold(t) /\ writes[t] = 0 => ReadsOf(readers', t) # {}
    BY <1>1, DropRead DEF IInv, ClientReleases, Reads
  <2>1. /\ read_count' = read_count - 1 /\ writes' = writes
        /\ UNCHANGED <<want_upgrade, want_write, recursion_depth, wantedBy>>
    BY <1>1, <2>0 DEF IInv, ReadCountExact, ClientReleases
  <2>2. IF waiting /\ read_count' = 0
        THEN waiting' = FALSE /\ asleep' = {}
        ELSE waiting' = waiting /\ asleep' = asleep
    BY DEF WakeIf
  <2>3. TypeOK'
    <3>1. read_count' \in Nat
      BY <2>0, <2>1 DEF IInv, TypeOK, ReadCountExact
    <3>2. waiting' \in BOOLEAN /\ asleep' \subseteq Threads
      BY <2>2 DEF IInv, TypeOK
    <3>3. QED
      BY <2>0, <2>1, <3>1, <3>2 DEF IInv, TypeOK, wantedBy
  <2>4. BitsOwned'
    BY <2>1 DEF IInv, BitsOwned, wantedBy
  <2>5. WritesAreBits'
    BY <2>1 DEF IInv, WritesAreBits, HasBit, wantedBy
  <2>6. WaitersAndOwner'
    BY <1>1, <2>0, <2>1 DEF IInv, TypeOK, WaitersAndOwner, Holds, Reads
  <2>7. WaitingExact'
    BY <2>2 DEF IInv, WaitingExact
  <2>8. ReadCountExact'
    BY <2>0, <2>1 DEF IInv, ReadCountExact
  <2>9. Exclusion'
    BY <1>1, <2>0, <2>1 DEF IInv, TypeOK, Exclusion, Reads
  <2>10. SleepersBlocked'
    BY <2>1, <2>2, <2>3 DEF IInv, TypeOK, SleepersBlocked, WaitingExact, Blocked
  <2>11. QED
    BY <2>3, <2>4, <2>5, <2>6, <2>7, <2>8, <2>9, <2>10 DEF IInv
<1>2. CASE Reads(t) = {}
  <2>1. writes[t] > 0 /\ writes[t] \in Nat
    BY <1>2 DEF Holds, IInv, TypeOK
  <2>2. read_count = 0
    BY <1>2, <2>1, NobodyReads DEF IInv, TypeOK, Exclusion, ReadCountExact, Reads
  <2>3. /\ DropWriteHold /\ read_count' = 0 /\ readers' = readers
        /\ writes' = [writes EXCEPT ![t] = @ - 1]
    BY <1>2, <2>2 DEF ClientReleases
  <2>4. /\ want_upgrade' \in BOOLEAN /\ want_write' \in BOOLEAN
        /\ recursion_depth' \in Nat
        /\ writes' \in [Threads -> Nat]
        /\ writeBy' \in Threads \cup {None}
        /\ upgradeBy' \in Threads \cup {None}
        /\ thread = None => recursion_depth' = 0
        /\ BitsOwned'
        /\ WritesAreBits'
    BY <2>1, <2>3, DropWrite
  <2>5. waiting' = FALSE /\ asleep' = {}
    BY <2>3 DEF IInv, TypeOK, WaitingExact, WakeIf
  <2>6. TypeOK'
    BY <2>3, <2>4, <2>5 DEF IInv, TypeOK
  <2>7. WaitersAndOwner'
    BY <1>2, <2>1, <2>3, <2>4 DEF IInv, TypeOK, WaitersAndOwner, Holds, Reads, SoleHold
  <2>8. WaitingExact' /\ SleepersBlocked'
    BY <2>5 DEF WaitingExact, SleepersBlocked
  <2>9. ReadCountExact'
    BY <2>2, <2>3 DEF IInv, ReadCountExact
  <2>10. Exclusion'
    BY <2>1, <2>3 DEF IInv, TypeOK, Exclusion, Reads
  <2>11. QED
    BY <2>4, <2>6, <2>7, <2>8, <2>9, <2>10 DEF IInv
<1>3. QED
  BY <1>1, <1>2

\* The owner trades a read hold for a nested write hold.  It wakes nobody, and
\* need not: whoever sleeps waits for a bit that stays set.
LEMMA lock_read_to_write_recursive_inv ==
    ASSUME IInv, KernelUses, NEW t \in Threads, lock_read_to_write_recursive(t)
    PROVE  IInv'
<1> USE DEF lock_read_to_write_recursive, Idle, Reads, MayUpdate, control,
        wantedBy, Upgrading, Loops, KernelUses
<1>0. /\ readers' \subseteq Threads \X Levels
      /\ Cardinality(readers) \in Nat \ {0}
      /\ Cardinality(readers') = Cardinality(readers) - 1
      /\ \A u \in Threads : u # t => ReadsOf(readers', u) = ReadsOf(readers, u)
      /\ SoleHold(t) => ReadsOf(readers', t) = {}
  BY DropRead DEF IInv
<1>1. TypeOK'
  BY <1>0 DEF IInv, TypeOK, ReadCountExact
<1>2. BitsOwned'
  BY <1>0, ThreadsAssumption DEF IInv, TypeOK, BitsOwned, WaitersAndOwner
<1>3. WritesAreBits'
  BY <1>0, ThreadsAssumption DEF IInv, TypeOK, BitsOwned, WritesAreBits,
     WaitersAndOwner, HasBit, Exclusion
<1>4. WaitersAndOwner'
  <2>1. writes'[t] > 0 /\ pc[t] = "idle" /\ thread = t /\ t # None
    BY ThreadsAssumption DEF IInv, TypeOK
  <2>2. ASSUME NEW u \in Threads, u # t
        PROVE  (Holds(u)' <=> Holds(u)) /\ thread # u /\ pc'[u] = pc[u]
    BY <1>0, <2>1, <2>2 DEF IInv, TypeOK, Holds, Reads
  <2>3. QED
    BY <2>1, <2>2 DEF IInv, WaitersAndOwner, Holds
<1>5. WaitingExact'
  BY <1>0 DEF IInv, TypeOK, WaitingExact
<1>6. ReadCountExact'
  BY <1>0 DEF IInv, TypeOK, ReadCountExact
<1>7. Exclusion'
  BY <1>0 DEF IInv, TypeOK, Exclusion, WaitersAndOwner, Holds
<1>8. SleepersBlocked'
  <2>1. writes[t] > 0
    OBVIOUS
  <2>2. ASSUME NEW u \in asleep
        PROVE  u \in Threads /\ u # t /\ pc[u] \notin Upgrading
    BY <2>1, <2>2 DEF IInv, TypeOK, Exclusion, SleepersBlocked
  <2>3. ASSUME NEW u \in asleep, pc[u] = "w2"
        PROVE  want_upgrade
    <3>1. writeBy = u
      BY <2>2, <2>3 DEF IInv, BitsOwned
    <3>2. upgradeBy = t
      BY <2>1, <2>2, <3>1 DEF IInv, WritesAreBits, HasBit
    <3>3. QED
      BY <3>2, ThreadsAssumption DEF IInv, BitsOwned
  <2>4. QED
    BY <2>2, <2>3 DEF IInv, SleepersBlocked, Blocked
<1>9. QED
  BY <1>1, <1>2, <1>3, <1>4, <1>5, <1>6, <1>7, <1>8 DEF IInv

\* An accepted upgrade gives up the read hold and takes the want_upgrade bit.
LEMMA BeginUpgrade_inv ==
    ASSUME IInv, KernelUses, NEW t \in Threads, NEW loop \in Upgrading, BeginUpgrade(t, loop)
    PROVE  IInv'
<1> USE DEF BeginUpgrade, MayUpgrade, Idle, Reads, Upgrading, Loops
<1>0. /\ readers' \subseteq Threads \X Levels
      /\ Cardinality(readers) \in Nat \ {0}
      /\ Cardinality(readers') = Cardinality(readers) - 1
      /\ \A u \in Threads : u # t => ReadsOf(readers', u) = ReadsOf(readers, u)
      /\ SoleHold(t) => ReadsOf(readers', t) = {}
  BY DropRead DEF IInv
<1>1. TypeOK'
  BY <1>0 DEF IInv, TypeOK, ReadCountExact
<1>2. BitsOwned'
  BY <1>0, ThreadsAssumption DEF IInv, TypeOK, BitsOwned, WaitersAndOwner
<1>3. WritesAreBits'
  BY <1>0, ThreadsAssumption DEF IInv, TypeOK, BitsOwned, WritesAreBits,
     WaitersAndOwner, HasBit
<1>4. WaitersAndOwner'
  <2>1. writes[t] = 0
    BY DEF SoleHold
  <2>2. ReadsOf(readers', t) = {}
    BY <1>0
  <2>3. ASSUME NEW u \in Threads, u # t
        PROVE  (Holds(u)' <=> Holds(u)) /\ pc'[u] = pc[u]
    BY <1>0, <2>3 DEF IInv, TypeOK, Holds, Reads
  <2>4. ~Holds(t)'
    BY <2>1, <2>2 DEF Holds, Reads
  <2>5. QED
    BY <2>3, <2>4 DEF IInv, WaitersAndOwner
<1>5. WaitingExact'
  BY <1>0 DEF IInv, TypeOK, WaitingExact
<1>6. ReadCountExact'
  BY <1>0 DEF IInv, TypeOK, ReadCountExact
<1>7. Exclusion'
  BY <1>0 DEF IInv, TypeOK, Exclusion, WaitersAndOwner, Holds, BitsOwned
<1>8. SleepersBlocked'
  <2>1. ASSUME NEW u \in asleep
        PROVE  u \in Threads /\ u # t /\ pc[u] \notin Upgrading
    BY <2>1, ThreadsAssumption DEF IInv, TypeOK, BitsOwned, SleepersBlocked
  <2>2. QED
    BY <2>1 DEF IInv, TypeOK, SleepersBlocked, Blocked
<1>9. QED
  BY <1>1, <1>2, <1>3, <1>4, <1>5, <1>6, <1>7, <1>8 DEF IInv

\* A refused lock_read_to_write loses the read hold and wakes the upgrader if
\* it was the last one.
LEMMA lock_read_to_write_fails_inv ==
    ASSUME IInv, KernelUses, NEW t \in Threads, lock_read_to_write_fails(t)
    PROVE  IInv'
<1> USE DEF lock_read_to_write_fails, MayUpgrade, WakeIf, wantedBy, Idle,
        Reads, Upgrading, Loops
<1>0. /\ readers' \subseteq Threads \X Levels
      /\ Cardinality(readers) \in Nat \ {0}
      /\ Cardinality(readers') = Cardinality(readers) - 1
      /\ \A u \in Threads : u # t => ReadsOf(readers', u) = ReadsOf(readers, u)
      /\ SoleHold(t) => ReadsOf(readers', t) = {}
  BY DropRead DEF IInv
<1>1. TypeOK'
  <2>1. read_count' \in Nat
    BY <1>0 DEF IInv, TypeOK, ReadCountExact
  <2>2. waiting' \in BOOLEAN /\ asleep' \subseteq Threads
    BY DEF IInv, TypeOK
  <2>3. QED
    BY <1>0, <2>1, <2>2 DEF IInv, TypeOK
<1>2. BitsOwned'
  BY <1>0, ThreadsAssumption DEF IInv, TypeOK, BitsOwned, WaitersAndOwner
<1>3. WritesAreBits'
  BY <1>0, ThreadsAssumption DEF IInv, TypeOK, BitsOwned, WritesAreBits,
     WaitersAndOwner, HasBit
<1>4. WaitersAndOwner'
  BY <1>0 DEF IInv, TypeOK, WaitersAndOwner, Holds
<1>5. WaitingExact'
  BY <1>0 DEF IInv, TypeOK, WaitingExact
<1>6. ReadCountExact'
  BY <1>0 DEF IInv, TypeOK, ReadCountExact
<1>7. Exclusion'
  BY <1>0 DEF IInv, TypeOK, Exclusion, WaitersAndOwner, Holds
<1>8. SleepersBlocked'
  BY <1>0 DEF IInv, TypeOK, SleepersBlocked, WaitingExact, Blocked
<1>9. QED
  BY <1>1, <1>2, <1>3, <1>4, <1>5, <1>6, <1>7, <1>8 DEF IInv

\* A refused lock_try_read_to_write changes nothing.
LEMMA lock_try_read_to_write_fails_inv ==
    ASSUME IInv, KernelUses, NEW t \in Threads, lock_try_read_to_write_fails(t)
    PROVE  IInv'
<1> USE DEF lock_try_read_to_write_fails, MayUpgrade, vars, Idle, Reads,
        lockFields, control, holds, wantedBy, Upgrading, Loops
<1>1. TypeOK'
  BY DEF IInv, TypeOK
<1>2. BitsOwned'
  BY ThreadsAssumption DEF IInv, TypeOK, BitsOwned, WaitersAndOwner
<1>3. WritesAreBits'
  BY ThreadsAssumption DEF IInv, TypeOK, BitsOwned, WritesAreBits,
     WaitersAndOwner, HasBit
<1>4. WaitersAndOwner'
  BY DEF IInv, TypeOK, WaitersAndOwner, Holds
<1>5. WaitingExact'
  BY DEF IInv, TypeOK, WaitingExact
<1>6. ReadCountExact'
  BY DEF IInv, TypeOK, ReadCountExact
<1>7. Exclusion'
  BY DEF IInv, TypeOK, Exclusion, WaitersAndOwner, Holds
<1>8. SleepersBlocked'
  BY DEF IInv, TypeOK, SleepersBlocked, WaitingExact, Blocked
<1>9. QED
  BY <1>1, <1>2, <1>3, <1>4, <1>5, <1>6, <1>7, <1>8 DEF IInv

\* An upgrade is granted when the other readers are gone; no writer came in
\* between because the upgrading thread still counts as a reader.
LEMMA upgrade_return_inv ==
    ASSUME IInv, KernelUses, NEW t \in Threads, upgrade_return(t)
    PROVE  IInv'
<1> USE DEF upgrade_return, Upgrading, Running, Blocked, lockFields, wantedBy,
        Loops
<1>1. TypeOK'
  BY DEF IInv, TypeOK
<1>2. BitsOwned'
  BY ThreadsAssumption DEF IInv, TypeOK, BitsOwned, WaitersAndOwner
<1>3. WritesAreBits'
  BY ThreadsAssumption DEF IInv, TypeOK, BitsOwned, WritesAreBits,
     WaitersAndOwner, HasBit
<1>4. WaitersAndOwner'
  BY DEF IInv, TypeOK, WaitersAndOwner, Holds, Reads
<1>5. WaitingExact'
  BY DEF IInv, TypeOK, WaitingExact
<1>6. ReadCountExact'
  BY DEF IInv, TypeOK, ReadCountExact
<1>7. Exclusion'
  BY NoReaders DEF IInv, TypeOK, Exclusion, WaitersAndOwner, Holds, Reads,
     ReadCountExact, BitsOwned, WritesAreBits, HasBit
<1>8. SleepersBlocked'
  BY DEF IInv, TypeOK, SleepersBlocked, WaitingExact
<1>9. QED
  BY <1>1, <1>2, <1>3, <1>4, <1>5, <1>6, <1>7, <1>8 DEF IInv

\* lock_write_to_read turns the innermost write hold into a read hold.
LEMMA lock_write_to_read_inv ==
    ASSUME IInv, NEW t \in Threads, lock_write_to_read(t)
    PROVE  IInv'
<1> USE DEF lock_write_to_read, Idle, Upgrading, Loops
<1>0. /\ readers' \subseteq Threads \X Levels
      /\ Cardinality(readers') = Cardinality(readers) + 1
      /\ ReadsOf(readers', t) # {}
      /\ \A u \in Threads : u # t => ReadsOf(readers', u) = ReadsOf(readers, u)
  BY AddRead DEF IInv
<1>1. /\ want_upgrade' \in BOOLEAN /\ want_write' \in BOOLEAN
      /\ recursion_depth' \in Nat
      /\ writes' \in [Threads -> Nat]
      /\ writeBy' \in Threads \cup {None}
      /\ upgradeBy' \in Threads \cup {None}
      /\ thread = None => recursion_depth' = 0
      /\ BitsOwned'
      /\ WritesAreBits'
  BY DropWrite
<1>2. waiting' = FALSE /\ asleep' = {}
  BY DEF IInv, TypeOK, WaitingExact, WakeIf
<1>3. TypeOK'
  <2>1. read_count' \in Nat /\ UNCHANGED <<thread, can_sleep, pc, panicked>>
    BY DEF IInv, TypeOK
  <2>2. QED
    BY <1>0, <1>1, <1>2, <2>1 DEF IInv, TypeOK
<1>4. WaitersAndOwner'
  BY <1>0, <1>1 DEF IInv, TypeOK, WaitersAndOwner, Holds, Reads
<1>5. WaitingExact' /\ SleepersBlocked'
  BY <1>2 DEF WaitingExact, SleepersBlocked
<1>6. ReadCountExact'
  BY <1>0 DEF IInv, ReadCountExact
<1>7. Exclusion'
  <2>1. \A u \in Threads : u # t => writes[u] = 0 /\ writes'[u] = 0
    BY DEF IInv, TypeOK, Exclusion
  <2>2. \A u \in Threads : u # t => ReadsOf(readers', u) = {}
    BY <1>0 DEF IInv, TypeOK, Exclusion, Reads
  <2>3. \A u \in Threads : u # t => pc[u] \notin Upgrading
    BY DEF IInv, TypeOK, Exclusion
  <2>4. QED
    BY <2>1, <2>2, <2>3 DEF Exclusion, Reads
<1>8. QED
  BY <1>1, <1>3, <1>4, <1>5, <1>6, <1>7 DEF IInv

\* lock_try_write succeeds on a free lock only.
LEMMA lock_try_write_inv ==
    ASSUME IInv, KernelUses, NEW t \in Threads, lock_try_write(t)
    PROVE  IInv'
<1> USE DEF lock_try_write, Idle, Holds, control, Reads, Upgrading, Loops
<1>1. TypeOK'
  BY DEF IInv, TypeOK
<1>2. BitsOwned'
  BY ThreadsAssumption DEF IInv, TypeOK, BitsOwned, WaitersAndOwner
<1>3. WritesAreBits'
  BY ThreadsAssumption DEF IInv, TypeOK, BitsOwned, WritesAreBits,
     WaitersAndOwner, HasBit
<1>4. WaitersAndOwner'
  BY DEF IInv, TypeOK, WaitersAndOwner
<1>5. WaitingExact'
  BY DEF IInv, TypeOK, WaitingExact
<1>6. ReadCountExact'
  BY DEF IInv, TypeOK, ReadCountExact
<1>7. Exclusion'
  BY NoReaders, NoBitsNoWrites DEF IInv, TypeOK, Exclusion, WaitersAndOwner,
     ReadCountExact, BitsOwned
<1>8. SleepersBlocked'
  BY DEF IInv, TypeOK, SleepersBlocked, WaitingExact, Blocked
<1>9. QED
  BY <1>1, <1>2, <1>3, <1>4, <1>5, <1>6, <1>7, <1>8 DEF IInv

\* lock_try_read succeeds while no bit is set.
LEMMA lock_try_read_inv ==
    ASSUME IInv, KernelUses, NEW t \in Threads, lock_try_read(t)
    PROVE  IInv'
<1> USE DEF lock_try_read, Idle, Holds, control, wantedBy, Reads, Upgrading,
        Loops
<1>0. /\ readers' \subseteq Threads \X Levels
      /\ Cardinality(readers') = Cardinality(readers) + 1
      /\ ReadsOf(readers', t) # {}
      /\ \A u \in Threads : u # t => ReadsOf(readers', u) = ReadsOf(readers, u)
  BY AddRead, RoomToRead DEF IInv
<1>1. TypeOK'
  BY <1>0 DEF IInv, TypeOK
<1>2. BitsOwned'
  BY <1>0, ThreadsAssumption DEF IInv, TypeOK, BitsOwned, WaitersAndOwner
<1>3. WritesAreBits'
  BY <1>0, ThreadsAssumption DEF IInv, TypeOK, BitsOwned, WritesAreBits,
     WaitersAndOwner, HasBit
<1>4. WaitersAndOwner'
  BY <1>0 DEF IInv, TypeOK, WaitersAndOwner
<1>5. WaitingExact'
  BY <1>0 DEF IInv, TypeOK, WaitingExact
<1>6. ReadCountExact'
  BY <1>0 DEF IInv, TypeOK, ReadCountExact
<1>7. Exclusion'
  BY <1>0, NoBitsNoWrites DEF IInv, TypeOK, Exclusion, WaitersAndOwner
<1>8. SleepersBlocked'
  BY <1>0 DEF IInv, TypeOK, SleepersBlocked, WaitingExact, Blocked
<1>9. QED
  BY <1>1, <1>2, <1>3, <1>4, <1>5, <1>6, <1>7, <1>8 DEF IInv

\* lock_set_recursive by the writer finds no other owner.
LEMMA lock_set_recursive_inv ==
    ASSUME IInv, KernelUses, NEW t \in Threads, lock_set_recursive(t)
    PROVE  IInv'
<1> USE DEF lock_set_recursive, Idle, control, holds, wantedBy, Upgrading,
        Loops, KernelUses
<1>1. TypeOK'
  BY DEF IInv, TypeOK
<1>2. BitsOwned'
  BY ThreadsAssumption DEF IInv, TypeOK, BitsOwned, WaitersAndOwner
<1>3. WritesAreBits'
  <2>1. thread = t \/ thread = None
    BY DEF IInv, TypeOK, Exclusion, WaitersAndOwner, Holds
  <2>2. thread # t => recursion_depth = 0
    BY <2>1 DEF IInv, WaitersAndOwner
  <2>3. QED
    BY <2>1, <2>2, ThreadsAssumption DEF IInv, TypeOK, WritesAreBits, HasBit
<1>4. WaitersAndOwner'
  BY ThreadsAssumption DEF IInv, TypeOK, WaitersAndOwner, Holds, Reads
<1>5. WaitingExact'
  BY DEF IInv, TypeOK, WaitingExact
<1>6. ReadCountExact'
  BY DEF IInv, TypeOK, ReadCountExact
<1>7. Exclusion'
  BY DEF IInv, TypeOK, Exclusion, WaitersAndOwner, Holds, Reads
<1>8. SleepersBlocked'
  BY DEF IInv, TypeOK, SleepersBlocked, WaitingExact, Blocked
<1>9. QED
  BY <1>1, <1>2, <1>3, <1>4, <1>5, <1>6, <1>7, <1>8 DEF IInv

\* lock_clear_recursive forgets the owner once nothing is nested.
LEMMA lock_clear_recursive_inv ==
    ASSUME IInv, KernelUses, NEW t \in Threads, lock_clear_recursive(t)
    PROVE  IInv'
<1> USE DEF lock_clear_recursive, Idle, control, holds, wantedBy, Upgrading,
        Loops
<1>1. TypeOK'
  BY ThreadsAssumption DEF IInv, TypeOK
<1>2. BitsOwned'
  BY ThreadsAssumption DEF IInv, TypeOK, BitsOwned, WaitersAndOwner
<1>3. WritesAreBits'
  BY ThreadsAssumption DEF IInv, TypeOK, BitsOwned, WritesAreBits,
     WaitersAndOwner, HasBit
<1>4. WaitersAndOwner'
  BY ThreadsAssumption DEF IInv, TypeOK, WaitersAndOwner, Holds, Reads
<1>5. WaitingExact'
  BY ThreadsAssumption DEF IInv, TypeOK, WaitingExact
<1>6. ReadCountExact'
  BY ThreadsAssumption DEF IInv, TypeOK, ReadCountExact
<1>7. Exclusion'
  BY ThreadsAssumption DEF IInv, TypeOK, Exclusion, WaitersAndOwner, Holds,
     Reads
<1>8. SleepersBlocked'
  BY ThreadsAssumption DEF IInv, TypeOK, SleepersBlocked, WaitingExact,
     Blocked
<1>9. QED
  BY <1>1, <1>2, <1>3, <1>4, <1>5, <1>6, <1>7, <1>8 DEF IInv

\* A step that changes no variable keeps the invariant.
LEMMA Stutter_inv ==
    ASSUME IInv, UNCHANGED vars
    PROVE  IInv'
BY DEF IInv, TypeOK, BitsOwned, WritesAreBits, HasBit, WaitersAndOwner, Holds,
       Reads, WaitingExact, ReadCountExact, Exclusion, SleepersBlocked, Blocked,
       vars, lockFields, control, holds, wantedBy

\* Every step of the kernel's clients keeps the invariant.
LEMMA Step_inv ==
    ASSUME IInv, KernelUses, [Next]_vars
    PROVE  IInv'
<1>1. CASE UNCHANGED vars
  BY <1>1, Stutter_inv
<1>2. ASSUME NEW t \in Threads, Step(t)
      PROVE  IInv'
  <2>1. CASE lock_read_to_write(t)
    BY <2>1, BeginUpgrade_inv DEF lock_read_to_write, Upgrading
  <2>2. CASE lock_try_read_to_write(t)
    BY <2>2, BeginUpgrade_inv DEF lock_try_read_to_write, Upgrading
  <2>3. QED
    BY <1>2, <2>1, <2>2, lock_sleepable_inv, Sleep_inv, lock_write_inv,
       lock_write_recursive_inv, lock_write_want_inv, lock_write_return_inv,
       lock_read_inv, lock_read_recursive_inv, lock_read_return_inv,
       lock_done_inv, lock_read_to_write_recursive_inv,
       lock_read_to_write_fails_inv, lock_try_read_to_write_fails_inv,
       upgrade_return_inv, lock_write_to_read_inv, lock_try_write_inv,
       lock_try_read_inv, lock_set_recursive_inv, lock_clear_recursive_inv
       DEF Step
<1>3. QED
  BY <1>1, <1>2 DEF Next

\* lock_init establishes the invariant.
LEMMA Init_inv == Init => IInv
<1> SUFFICES ASSUME Init PROVE IInv
  OBVIOUS
<1>1. Cardinality(readers) = 0
  BY FS_EmptySet DEF Init
<1>2. \A u \in Threads : Reads(u) = {}
  BY DEF Init, Reads, ReadsOf
<1>3. TypeOK
  BY DEF Init, lock_init, TypeOK
<1>4. BitsOwned /\ WritesAreBits
  BY ThreadsAssumption
     DEF Init, lock_init, BitsOwned, WritesAreBits, HasBit, Upgrading
<1>5. WaitersAndOwner
  BY <1>2, ThreadsAssumption DEF Init, lock_init, WaitersAndOwner
<1>6. Exclusion
  BY DEF Init, Exclusion
<1>7. WaitingExact /\ SleepersBlocked
  BY DEF Init, lock_init, WaitingExact, SleepersBlocked
<1>8. QED
  BY <1>1, <1>3, <1>4, <1>5, <1>6, <1>7 DEF Init, lock_init, IInv, ReadCountExact

-----------------------------------------------------------------------------
(* The theorems.                                                           *)

\* The invariant holds in every reachable state.
THEOREM Invariance ==
    ASSUME KernelUses
    PROVE  Spec => []IInv
<1>1. IInv /\ [Next]_vars => IInv'
  BY Step_inv
<1>2. QED
  BY <1>1, Init_inv, PTL DEF Spec

\* Every variable keeps its type; read_count in particular never goes below
\* zero, although lock_read_to_write decrements it before any test.
THEOREM TypeCorrect ==
    ASSUME KernelUses
    PROVE  Spec => []TypeOK
<1>1. IInv => TypeOK
  BY DEF IInv
<1>2. QED
  BY <1>1, Invariance, PTL

\* A thread that holds the lock for writing excludes every other hold.
THEOREM WritersExclude ==
    ASSUME KernelUses
    PROVE  Spec => []Exclusion
<1>1. IInv => Exclusion
  BY DEF IInv
<1>2. QED
  BY <1>1, Invariance, PTL

\* No wakeup is lost: a sleeper's condition is still false and waiting is set.
THEOREM NoLostWakeup ==
    ASSUME KernelUses
    PROVE  Spec => []SleepersBlocked
<1>1. IInv => SleepersBlocked
  BY DEF IInv
<1>2. QED
  BY <1>1, Invariance, PTL

\* A lock that nobody holds or wants is back in its initial state.
THEOREM QuietLockIsFree ==
    ASSUME KernelUses
    PROVE  Spec => []QuietMeansFree
<1>1. IInv => QuietMeansFree
  <2> SUFFICES ASSUME IInv, \A t \in Threads : pc[t] = "idle" /\ ~Holds(t)
               PROVE  /\ read_count = 0 /\ recursion_depth = 0
                      /\ ~want_write /\ ~want_upgrade /\ ~waiting
                      /\ thread = None
    BY DEF QuietMeansFree
  <2>1. read_count = 0
    BY NobodyReads DEF IInv, ReadCountExact, Holds, Reads
  <2>2. thread = None /\ recursion_depth = 0
    BY DEF IInv, TypeOK, WaitersAndOwner
  <2>3. ~want_write /\ ~want_upgrade
    BY ThreadsAssumption
       DEF IInv, TypeOK, BitsOwned, WritesAreBits, Holds, Upgrading
  <2>4. ~waiting
    BY DEF IInv, TypeOK, WaitingExact, SleepersBlocked
  <2>5. QED
    BY <2>1, <2>2, <2>3, <2>4
<1>2. QED
  BY <1>1, Invariance, PTL

-----------------------------------------------------------------------------
(***************************************************************************)
(* The refinement of RWLock: every step of ComplexLock is a step of RWLock *)
(* on the holds of the clients, or leaves them alone.  The argument is the *)
(* invariant above plus the count of the read holds of each single thread. *)
(***************************************************************************)

\* Number of read holds of a thread in the set R with the program counters p;
\* a thread waiting in an upgrade counts as a reader.
ReadHolds(R, p) == [t \in Threads |-> Cardinality(ReadsOf(R, t)) +
                                       IF p[t] \in Upgrading THEN 1 ELSE 0]

\* A thread's read holds are finite.
LEMMA ReadsFinite ==
    ASSUME TypeOK, NEW t \in Threads
    PROVE  /\ IsFiniteSet(ReadsOf(readers, t))
           /\ Cardinality(ReadsOf(readers, t)) \in Nat
           /\ ReadsOf(readers, t) # {} => Cardinality(ReadsOf(readers, t)) > 0
           /\ ReadsOf(readers, t) = {} => Cardinality(ReadsOf(readers, t)) = 0
<1>1. ReadsOf(readers, t) \subseteq readers
  BY DEF ReadsOf
<1>2. IsFiniteSet(ReadsOf(readers, t))
  BY <1>1, ReadersFinite, FS_Subset
<1>3. QED
  BY <1>2, FS_CardinalityType, FS_EmptySet

\* A new read hold is one more for its thread.
LEMMA AddReadCount ==
    ASSUME TypeOK, NEW t \in Threads, CanNestRead(t),
           readers' = readers \cup {NewRead(t)}
    PROVE  Cardinality(ReadsOf(readers', t)) = Cardinality(ReadsOf(readers, t)) + 1
<1> DEFINE r == NewRead(t)
<1>1. r \notin readers /\ r[1] = t
  BY DEF NewRead, CanNestRead
<1>2. ReadsOf(readers', t) = ReadsOf(readers, t) \cup {r} /\ r \notin ReadsOf(readers, t)
  BY <1>1 DEF ReadsOf
<1>3. QED
  BY <1>2, ReadsFinite, FS_AddElement

\* Giving up a read hold is one less for its thread.
LEMMA DropReadCount ==
    ASSUME TypeOK, NEW t \in Threads, ReadsOf(readers, t) # {},
           readers' = readers \ {OneRead(t)}
    PROVE  Cardinality(ReadsOf(readers', t)) = Cardinality(ReadsOf(readers, t)) - 1
<1> DEFINE r == OneRead(t)
<1>1. PICK p \in readers : p[1] = t /\ p \in Threads \X Levels
  BY DEF ReadsOf, TypeOK
<1>2. r \in readers /\ r[1] = t
  BY <1>1 DEF OneRead
<1>3. ReadsOf(readers', t) = ReadsOf(readers, t) \ {r} /\ r \in ReadsOf(readers, t)
  BY <1>2 DEF ReadsOf
<1>4. QED
  BY <1>3, ReadsFinite, FS_RemoveElement

\* The refinement mapping in terms of ReadHolds.
LEMMA Mapping ==
    /\ RW!Init <=> /\ ReadHolds(readers, pc) = [t \in Threads |-> 0]
                   /\ writes = [t \in Threads |-> 0]
    /\ RW!rwvars = <<ReadHolds(readers, pc), writes>>
BY DEF RW!Init, RW!rwvars, ReadHolds, Reads

-----------------------------------------------------------------------------
(* The steps of RWLock.                                                    *)

\* The step starts and ends nobody's waiting for an upgrade.
SameUpgraders == \A u \in Threads : pc'[u] \in Upgrading <=> pc[u] \in Upgrading

\* One read hold more in one thread.
LEMMA OneMore ==
    ASSUME NEW t \in Threads, SameUpgraders,
           Cardinality(ReadsOf(readers, t)) \in Nat,
           Cardinality(ReadsOf(readers', t)) = Cardinality(ReadsOf(readers, t)) + 1,
           \A u \in Threads : u # t => ReadsOf(readers', u) = ReadsOf(readers, u)
    PROVE  ReadHolds(readers', pc') = [ReadHolds(readers, pc) EXCEPT ![t] = @ + 1]
<1> DEFINE old == ReadHolds(readers, pc)
           new == ReadHolds(readers', pc')
<1>1. new[t] = old[t] + 1
  BY DEF ReadHolds, SameUpgraders
<1>2. \A u \in Threads : u # t => new[u] = old[u]
  BY DEF ReadHolds, SameUpgraders
<1>3. /\ new = [u \in Threads |-> new[u]]
      /\ [old EXCEPT ![t] = @ + 1] =
           [u \in Threads |-> IF u = t THEN old[t] + 1 ELSE old[u]]
  BY DEF ReadHolds, SameUpgraders
<1>4. QED
  BY <1>1, <1>2, <1>3

\* One read hold less in one thread.
LEMMA OneLess ==
    ASSUME NEW t \in Threads, SameUpgraders,
           Cardinality(ReadsOf(readers, t)) \in Nat,
           Cardinality(ReadsOf(readers', t)) = Cardinality(ReadsOf(readers, t)) - 1,
           \A u \in Threads : u # t => ReadsOf(readers', u) = ReadsOf(readers, u)
    PROVE  ReadHolds(readers', pc') = [ReadHolds(readers, pc) EXCEPT ![t] = @ - 1]
<1> DEFINE old == ReadHolds(readers, pc)
           new == ReadHolds(readers', pc')
<1>1. new[t] = old[t] - 1
  BY DEF ReadHolds, SameUpgraders
<1>2. \A u \in Threads : u # t => new[u] = old[u]
  BY DEF ReadHolds, SameUpgraders
<1>3. /\ new = [u \in Threads |-> new[u]]
      /\ [old EXCEPT ![t] = @ - 1] =
           [u \in Threads |-> IF u = t THEN old[t] - 1 ELSE old[u]]
  BY DEF ReadHolds, SameUpgraders
<1>4. QED
  BY <1>1, <1>2, <1>3

\* With the holds of the clients unchanged RWLock does not move.
LEMMA HoldsUnchanged ==
    ASSUME readers' = readers, writes' = writes, SameUpgraders
    PROVE  UNCHANGED RW!rwvars
<1>1. ReadHolds(readers', pc') = ReadHolds(readers, pc)
  BY DEF ReadHolds, SameUpgraders
<1>2. QED
  BY <1>1 DEF RW!rwvars, ReadHolds, Reads

\* A new read hold is RWLock's AcquireRead.
LEMMA ReadStep ==
    ASSUME IInv, IInv', NEW t \in Threads, CanNestRead(t), pc[t] \notin Upgrading,
           readers' = readers \cup {NewRead(t)}, writes' = writes, SameUpgraders
    PROVE  RW!AcquireRead(t)
<1> DEFINE rd == ReadHolds(readers, pc)
           rdn == ReadHolds(readers', pc')
<1>1. Cardinality(ReadsOf(readers', t)) = Cardinality(ReadsOf(readers, t)) + 1
  BY AddReadCount DEF IInv
<1>2. /\ ReadsOf(readers', t) # {}
      /\ \A u \in Threads : u # t => ReadsOf(readers', u) = ReadsOf(readers, u)
  BY AddRead DEF IInv
<1>3. rdn = [rd EXCEPT ![t] = @ + 1]
  BY <1>1, <1>2, OneMore, ReadsFinite DEF IInv
<1>4. \A u \in Threads \ {t} : writes[u] = 0
  <2>1. ASSUME NEW u \in Threads \ {t}
        PROVE  ~(writes'[u] > 0) /\ writes[u] \in Nat
    BY <1>2 DEF IInv, TypeOK, Exclusion, Reads
  <2>2. QED
    BY <2>1
<1>5. QED
  BY <1>3, <1>4 DEF RW!AcquireRead, RW!NoOtherWriter, ReadHolds, Reads

\* While a thread holds the lock for writing RWLock sees no other holder.
LEMMA SoleWriter ==
    ASSUME IInv, NEW t \in Threads, writes[t] > 0
    PROVE  \A u \in Threads \ {t} :
              writes[u] = 0 /\ ReadsOf(readers, u) = {} /\ pc[u] \notin Upgrading
                            /\ ReadHolds(readers, pc)[u] = 0
BY ReadsFinite DEF IInv, Exclusion, Reads, ReadHolds

\* A new write hold is RWLock's AcquireWrite.
LEMMA WriteStep ==
    ASSUME IInv, IInv', NEW t \in Threads, readers' = readers,
           writes' = [writes EXCEPT ![t] = @ + 1], SameUpgraders
    PROVE  RW!AcquireWrite(t)
<1> DEFINE rd == ReadHolds(readers, pc)
<1>1. writes'[t] > 0 /\ \A u \in Threads \ {t} : writes'[u] = writes[u]
  BY DEF IInv, TypeOK
<1>2. \A u \in Threads \ {t} :
         writes[u] = 0 /\ ReadsOf(readers, u) = {} /\ pc[u] \notin Upgrading
  BY <1>1 DEF IInv, Exclusion, Reads, SameUpgraders
<1>3. \A u \in Threads \ {t} : rd[u] = 0
  BY <1>2, ReadsFinite DEF IInv, ReadHolds
<1>4. ReadHolds(readers', pc') = rd
  BY DEF ReadHolds, SameUpgraders
<1>5. QED
  BY <1>2, <1>3, <1>4 DEF RW!AcquireWrite, RW!NoOtherHolder, ReadHolds, Reads

\* Giving up a read hold is RWLock's ReleaseRead.
LEMMA ReleaseReadStep ==
    ASSUME IInv, NEW t \in Threads, ReadsOf(readers, t) # {},
           readers' = readers \ {OneRead(t)}, writes' = writes, SameUpgraders
    PROVE  RW!ReleaseRead(t)
<1> DEFINE rd == ReadHolds(readers, pc)
           rdn == ReadHolds(readers', pc')
<1>1. Cardinality(ReadsOf(readers', t)) = Cardinality(ReadsOf(readers, t)) - 1
  BY DropReadCount DEF IInv
<1>2. \A u \in Threads : u # t => ReadsOf(readers', u) = ReadsOf(readers, u)
  BY DropRead DEF IInv
<1>3. Cardinality(ReadsOf(readers, t)) > 0 /\ Cardinality(ReadsOf(readers, t)) \in Nat
  BY ReadsFinite DEF IInv
<1>4. rdn = [rd EXCEPT ![t] = @ - 1] /\ rd[t] > 0
  <2>1. rdn = [rd EXCEPT ![t] = @ - 1]
    BY <1>1, <1>2, <1>3, OneLess
  <2>2. rd[t] > 0
    BY <1>3 DEF ReadHolds
  <2>3. QED
    BY <2>1, <2>2
<1>5. QED
  BY <1>4 DEF RW!ReleaseRead, ReadHolds, Reads

\* Giving up a write hold is RWLock's ReleaseWrite.
LEMMA ReleaseWriteStep ==
    ASSUME NEW t \in Threads, writes[t] > 0, readers' = readers,
           writes' = [writes EXCEPT ![t] = @ - 1], SameUpgraders
    PROVE  RW!ReleaseWrite(t)
<1>1. ReadHolds(readers', pc') = ReadHolds(readers, pc)
  BY DEF ReadHolds, SameUpgraders
<1>2. QED
  BY <1>1 DEF RW!ReleaseWrite, ReadHolds, Reads

\* Trading a read hold for a write hold is RWLock's Upgrade.
LEMMA UpgradeStep ==
    ASSUME IInv, NEW t \in Threads, ReadsOf(readers, t) # {}, writes[t] > 0,
           readers' = readers \ {OneRead(t)},
           writes' = [writes EXCEPT ![t] = @ + 1], SameUpgraders
    PROVE  RW!Upgrade(t)
<1> DEFINE rd == ReadHolds(readers, pc)
           rdn == ReadHolds(readers', pc')
<1>1. Cardinality(ReadsOf(readers', t)) = Cardinality(ReadsOf(readers, t)) - 1
  BY DropReadCount DEF IInv
<1>2. \A u \in Threads : u # t => ReadsOf(readers', u) = ReadsOf(readers, u)
  BY DropRead DEF IInv
<1>3. Cardinality(ReadsOf(readers, t)) > 0 /\ Cardinality(ReadsOf(readers, t)) \in Nat
  BY ReadsFinite DEF IInv
<1>4. rdn = [rd EXCEPT ![t] = @ - 1] /\ rd[t] > 0
  <2>1. rdn = [rd EXCEPT ![t] = @ - 1]
    BY <1>1, <1>2, <1>3, OneLess
  <2>2. rd[t] > 0
    BY <1>3 DEF ReadHolds
  <2>3. QED
    BY <2>1, <2>2
<1>5. \A u \in Threads \ {t} : writes[u] = 0 /\ rd[u] = 0
  BY SoleWriter
<1>6. QED
  BY <1>4, <1>5 DEF RW!Upgrade, RW!NoOtherHolder, ReadHolds, Reads

\* Trading a write hold for a read hold is RWLock's Downgrade.
LEMMA DowngradeStep ==
    ASSUME IInv, NEW t \in Threads, writes[t] > 0, CanNestRead(t),
           readers' = readers \cup {NewRead(t)},
           writes' = [writes EXCEPT ![t] = @ - 1], SameUpgraders
    PROVE  RW!Downgrade(t)
<1> DEFINE rd == ReadHolds(readers, pc)
           rdn == ReadHolds(readers', pc')
<1>1. Cardinality(ReadsOf(readers', t)) = Cardinality(ReadsOf(readers, t)) + 1
  BY AddReadCount DEF IInv
<1>2. \A u \in Threads : u # t => ReadsOf(readers', u) = ReadsOf(readers, u)
  BY AddRead DEF IInv
<1>3. rdn = [rd EXCEPT ![t] = @ + 1]
  BY <1>1, <1>2, OneMore, ReadsFinite DEF IInv
<1>4. \A u \in Threads \ {t} : writes[u] = 0
  BY SoleWriter
<1>5. QED
  BY <1>3, <1>4 DEF RW!Downgrade, RW!NoOtherWriter, ReadHolds, Reads

-----------------------------------------------------------------------------
(* Every action is one of these steps.                                     *)

\* Actions that leave every hold alone: the entry of a routine, taking the
\* want_write bit, going to sleep, and the owner's recursion flag.
LEMMA SilentActions ==
    ASSUME IInv, NEW t \in Threads,
           \/ lock_sleepable(t) \/ Sleep(t) \/ lock_write(t) \/ lock_write_want(t)
           \/ lock_read(t) \/ lock_try_read_to_write_fails(t)
           \/ lock_set_recursive(t) \/ lock_clear_recursive(t)
    PROVE  UNCHANGED RW!rwvars
<1>1. readers' = readers /\ writes' = writes
  BY DEF lock_sleepable, Sleep, thread_sleep, lock_write, lock_write_want,
         lock_read, lock_try_read_to_write_fails, lock_set_recursive,
         lock_clear_recursive, holds, vars
<1>2. pc' = pc \/ pc' = [pc EXCEPT ![t] = "w1"] \/ pc' = [pc EXCEPT ![t] = "w2"]
      \/ pc' = [pc EXCEPT ![t] = "rd"]
  BY DEF lock_sleepable, Sleep, thread_sleep, lock_write, lock_write_want,
         lock_read, lock_try_read_to_write_fails, lock_set_recursive,
         lock_clear_recursive, control, vars
<1>3. pc' # pc => pc[t] \notin Upgrading
  BY DEF lock_sleepable, Sleep, thread_sleep, lock_write, lock_write_want,
         lock_read, lock_try_read_to_write_fails, lock_set_recursive,
         lock_clear_recursive, control, vars, Idle, Running, Upgrading
<1>4. SameUpgraders
  BY <1>2, <1>3 DEF SameUpgraders, Upgrading, IInv, TypeOK
<1>5. QED
  BY <1>1, <1>4, HoldsUnchanged

\* An upgrade that is accepted keeps the read hold until it is granted.
LEMMA BeginUpgradeSilent ==
    ASSUME IInv, NEW t \in Threads, NEW loop \in Upgrading, BeginUpgrade(t, loop)
    PROVE  UNCHANGED RW!rwvars
<1> USE DEF BeginUpgrade, MayUpgrade, Idle
<1> DEFINE old == ReadHolds(readers, pc)
           new == ReadHolds(readers', pc')
<1>1. /\ Cardinality(ReadsOf(readers', t)) = Cardinality(ReadsOf(readers, t)) - 1
      /\ \A u \in Threads : u # t => ReadsOf(readers', u) = ReadsOf(readers, u)
  BY DropRead, DropReadCount DEF IInv, Reads
<1>2. pc[t] \notin Upgrading /\ pc'[t] \in Upgrading
  BY DEF IInv, TypeOK, Upgrading
<1>3. new[t] = old[t]
  BY <1>1, <1>2, ReadsFinite DEF ReadHolds, IInv
<1>4. \A u \in Threads : u # t => new[u] = old[u]
  BY <1>1 DEF ReadHolds, IInv, TypeOK
<1>5. new = old
  <2>1. /\ new = [u \in Threads |-> new[u]]
        /\ old = [u \in Threads |-> old[u]]
    BY DEF ReadHolds
  <2>2. QED
    BY <1>3, <1>4, <2>1
<1>6. QED
  BY <1>5 DEF RW!rwvars, ReadHolds, Reads

\* A granted upgrade turns the read hold into a write hold.
LEMMA GrantUpgrade ==
    ASSUME IInv, IInv', NEW t \in Threads, upgrade_return(t)
    PROVE  RW!Upgrade(t)
<1> DEFINE old == ReadHolds(readers, pc)
           new == ReadHolds(readers', pc')
<1>1. /\ pc[t] \in Upgrading /\ pc' = [pc EXCEPT ![t] = "idle"]
      /\ readers' = readers /\ writes' = [writes EXCEPT ![t] = @ + 1]
  BY DEF upgrade_return, Running
<1>2. pc'[t] \notin Upgrading /\ \A u \in Threads : u # t => pc'[u] = pc[u]
  BY <1>1 DEF IInv, TypeOK, Upgrading
<1>3. new[t] = old[t] - 1 /\ old[t] > 0
  BY <1>1, <1>2, ReadsFinite DEF ReadHolds, IInv
<1>4. \A u \in Threads : u # t => new[u] = old[u]
  BY <1>1, <1>2 DEF ReadHolds
<1>5. new = [old EXCEPT ![t] = @ - 1]
  <2>1. /\ new = [u \in Threads |-> new[u]]
        /\ [old EXCEPT ![t] = @ - 1] =
             [u \in Threads |-> IF u = t THEN old[t] - 1 ELSE old[u]]
    BY DEF ReadHolds
  <2>2. QED
    BY <1>3, <1>4, <2>1
<1>6. \A u \in Threads \ {t} : writes[u] = 0 /\ old[u] = 0
  <2>1. writes'[t] > 0 /\ \A u \in Threads \ {t} : writes'[u] = writes[u]
    BY <1>1 DEF IInv, TypeOK
  <2>2. \A u \in Threads \ {t} :
           writes[u] = 0 /\ ReadsOf(readers, u) = {} /\ pc[u] \notin Upgrading
    BY <1>1, <1>2, <2>1 DEF IInv, Exclusion, Reads
  <2>3. QED
    BY <2>2, ReadsFinite DEF IInv, ReadHolds
<1>7. QED
  BY <1>1, <1>3, <1>5, <1>6 DEF RW!Upgrade, RW!NoOtherHolder, ReadHolds, Reads

\* lock_done is a release of RWLock.
LEMMA DoneReleases ==
    ASSUME IInv, NEW t \in Threads, lock_done(t)
    PROVE  RW!ReleaseRead(t) \/ RW!ReleaseWrite(t)
<1> USE DEF lock_done
<1>1. SameUpgraders
  BY DEF SameUpgraders
<1>2. CASE Reads(t) # {}
  BY <1>1, <1>2, ReleaseReadStep DEF ClientReleases, Reads
<1>3. CASE Reads(t) = {}
  BY <1>1, <1>3, ReleaseWriteStep DEF ClientReleases, Holds
<1>4. QED
  BY <1>2, <1>3

\* The other actions that give or take a hold.
LEMMA HoldActions ==
    ASSUME IInv, IInv', KernelUses, NEW t \in Threads
    PROVE  /\ lock_write_recursive(t) \/ lock_write_return(t) \/ lock_try_write(t)
                => RW!AcquireWrite(t)
           /\ lock_read_recursive(t) \/ lock_read_return(t) \/ lock_try_read(t)
                => RW!AcquireRead(t)
           /\ lock_read_to_write_fails(t) => RW!ReleaseRead(t)
           /\ lock_read_to_write_recursive(t) => RW!Upgrade(t)
           /\ lock_write_to_read(t) => RW!Downgrade(t)
<1>1. ASSUME pc' = pc \/ pc' = [pc EXCEPT ![t] = "idle"], pc[t] \notin Upgrading
      PROVE  SameUpgraders
  BY <1>1 DEF SameUpgraders, Upgrading, IInv, TypeOK
<1>2. ASSUME lock_write_recursive(t) \/ lock_write_return(t) \/ lock_try_write(t)
      PROVE  RW!AcquireWrite(t)
  <2>1. SameUpgraders
    BY <1>1, <1>2 DEF lock_write_recursive, lock_write_return, lock_try_write,
                      Idle, Running, Upgrading, control
  <2>2. readers' = readers /\ writes' = [writes EXCEPT ![t] = @ + 1]
    BY <1>2 DEF lock_write_recursive, lock_write_return, lock_try_write
  <2>3. QED
    BY <2>1, <2>2, WriteStep
<1>3. ASSUME lock_read_recursive(t) \/ lock_read_return(t) \/ lock_try_read(t)
      PROVE  RW!AcquireRead(t)
  <2>1. SameUpgraders /\ pc[t] \notin Upgrading
    BY <1>1, <1>3 DEF lock_read_recursive, lock_read_return, lock_try_read,
                      Idle, Running, Upgrading, control
  <2>2. readers' = readers \cup {NewRead(t)} /\ writes' = writes
    BY <1>3 DEF lock_read_recursive, lock_read_return, lock_try_read
  <2>3. CanNestRead(t)
    BY <1>3, RoomToRead DEF lock_read_recursive, lock_read_return, lock_try_read,
                            Running, IInv, WaitersAndOwner, Holds, Reads
  <2>4. QED
    BY <2>1, <2>2, <2>3, ReadStep
<1>4. ASSUME lock_read_to_write_fails(t)
      PROVE  RW!ReleaseRead(t)
  <2>1. SameUpgraders
    BY <1>1, <1>4 DEF lock_read_to_write_fails, MayUpgrade, Idle, Upgrading
  <2>2. QED
    BY <1>4, <2>1, ReleaseReadStep DEF lock_read_to_write_fails, MayUpgrade, Reads
<1>5. ASSUME lock_read_to_write_recursive(t)
      PROVE  RW!Upgrade(t)
  <2>1. SameUpgraders
    BY <1>1, <1>5 DEF lock_read_to_write_recursive, Idle, Upgrading, control
  <2>2. writes[t] > 0
    BY <1>5 DEF lock_read_to_write_recursive, MayUpdate, KernelUses
  <2>3. QED
    BY <1>5, <2>1, <2>2, UpgradeStep DEF lock_read_to_write_recursive, Reads
<1>6. ASSUME lock_write_to_read(t)
      PROVE  RW!Downgrade(t)
  <2>1. SameUpgraders
    BY <1>1, <1>6 DEF lock_write_to_read, Idle, Upgrading
  <2>2. QED
    BY <1>6, <2>1, DowngradeStep DEF lock_write_to_read
<1>7. QED
  BY <1>2, <1>3, <1>4, <1>5, <1>6

\* Every step of the complex lock is a step of the read/write lock, or none.
LEMMA StepRefines ==
    ASSUME IInv, IInv', KernelUses, [Next]_vars
    PROVE  [RW!Next]_(RW!rwvars)
<1>1. CASE UNCHANGED vars
  BY <1>1 DEF RW!rwvars, vars, control, holds, Reads
<1>2. ASSUME NEW t \in Threads, Step(t)
      PROVE  [RW!Next]_(RW!rwvars)
  <2>1. CASE lock_read_to_write(t) \/ lock_try_read_to_write(t)
    BY <2>1, BeginUpgradeSilent
       DEF lock_read_to_write, lock_try_read_to_write, Upgrading
  <2>2. CASE upgrade_return(t)
    BY <2>2, GrantUpgrade DEF RW!Next
  <2>3. CASE lock_done(t)
    BY <2>3, DoneReleases DEF RW!Next
  <2>4. CASE \/ lock_sleepable(t) \/ Sleep(t) \/ lock_write(t) \/ lock_write_want(t)
             \/ lock_read(t) \/ lock_try_read_to_write_fails(t)
             \/ lock_set_recursive(t) \/ lock_clear_recursive(t)
    BY <2>4, SilentActions
  <2>5. CASE \/ lock_write_recursive(t) \/ lock_write_return(t) \/ lock_try_write(t)
             \/ lock_read_recursive(t) \/ lock_read_return(t) \/ lock_try_read(t)
             \/ lock_read_to_write_fails(t) \/ lock_read_to_write_recursive(t)
             \/ lock_write_to_read(t)
    BY <2>5, HoldActions DEF RW!Next
  <2>6. QED
    BY <1>2, <2>1, <2>2, <2>3, <2>4, <2>5 DEF Step
<1>3. QED
  BY <1>1, <1>2 DEF Next

\* The complex lock implements the abstract read/write lock: what the calls
\* of lock.c give to and take from their callers is what RWLock allows.
THEOREM Refinement ==
    ASSUME KernelUses
    PROVE  Spec => ImplementsRWLock
<1>1. Init => RW!Init
  <2>1. SUFFICES ASSUME Init PROVE RW!Init
    OBVIOUS
  <2>2. \A t \in Threads : ReadsOf(readers, t) = {} /\ pc[t] \notin Upgrading
    BY <2>1 DEF Init, ReadsOf, Upgrading
  <2>3. Cardinality({}) = 0
    BY FS_EmptySet
  <2>4. ReadHolds(readers, pc) = [t \in Threads |-> 0]
    BY <2>2, <2>3 DEF ReadHolds
  <2>5. QED
    BY <2>1, <2>4, Mapping DEF Init
<1>2. IInv /\ IInv' /\ [Next]_vars => [RW!Next]_(RW!rwvars)
  BY StepRefines
<1>3. QED
  BY <1>1, <1>2, Invariance, PTL DEF Spec, ImplementsRWLock, RW!Spec
=============================================================================
