--------------------------- MODULE Lockmgr_proofs ---------------------------
(***************************************************************************)
(* First, what lockmgr keeps for any number of threads, whatever they      *)
(* request and whatever sleeps fail, up to a panic: exclusion, exact       *)
(* counts, and no flag without the request behind it.                      *)
(*                                                                         *)
(* Then, as long as nobody upgrades a lock, lockmgr never grants an        *)
(* exclusive lock twice.  (With upgrades it may panic: see the run         *)
(* lockmgr_upgrade_panic.)  If sleeps do not fail either, no wakeup is     *)
(* lost.                                                                   *)
(***************************************************************************)
EXTENDS Lockmgr, FiniteSetTheorems, TLAPS

\* lk_sharecount is exact.  (That the set is finite is part of the induction.)
SharesExact ==
    /\ IsFiniteSet(HandedOut(shared))
    /\ lk_sharecount = Cardinality(HandedOut(shared))

WaitsExact == lk_waitcount = Cardinality(Waiting)

\* lk_exclusivecount is the number of exclusive locks of the thread that has
\* any, and lk_lockholder is that thread until lockmgr panics.
OwnerExact ==
    /\ \A t \in Threads : excl[t] > 0 => /\ lk_exclusivecount = excl[t]
                                         /\ panicked = "no" => lk_lockholder = t
    /\ lk_exclusivecount # 0 => \E t \in Threads : excl[t] > 0
    /\ panicked = "no" /\ lk_exclusivecount = 0 => lk_lockholder = None
    /\ panicked # "unlocking"

\* Nobody, the owner included, has a lock beside the exclusive one.
Alone ==
    \A t, u \in Threads :
        excl[t] > 0 => shared[u] = 0 /\ (u # t => excl[u] = 0)

\* One upgrade and one exclusive request at most have set their flag.
OneWant ==
    \A t, u \in Threads : pc[t] \in {"up", "ex2"} /\ pc[t] = pc[u] => t = u

\* The inductive invariant.
LkInv ==
    /\ TypeOK
    /\ SharesExact
    /\ WaitsExact
    /\ OwnerExact
    /\ Alone
    /\ FlagsOwned
    /\ OneWant
    /\ UpgradeUndisturbed

-----------------------------------------------------------------------------
(* Locks that were handed out.                                             *)

LEMMA HandedOutElements ==
    ASSUME NEW f, NEW x
    PROVE  x \in HandedOut(f) <=>
             \E t \in Threads, i \in Nat : i \in 1 .. f[t] /\ x = <<t, i>>
BY DEF HandedOut

\* A thread gets one more.
LEMMA HandedOutMore ==
    ASSUME NEW f \in [Threads -> Nat], NEW t \in Threads, NEW g \in [Threads -> Nat],
           g[t] = f[t] + 1, \A u \in Threads : u # t => g[u] = f[u],
           IsFiniteSet(HandedOut(f))
    PROVE  /\ IsFiniteSet(HandedOut(g))
           /\ Cardinality(HandedOut(g)) = Cardinality(HandedOut(f)) + 1
<1> DEFINE new == <<t, f[t] + 1>>
<1>1. new \notin HandedOut(f)
  BY HandedOutElements
<1>2. HandedOut(g) = HandedOut(f) \cup {new}
  <2>1. ASSUME NEW x \in HandedOut(g) PROVE x \in HandedOut(f) \cup {new}
    <3>1. PICK u \in Threads, i \in Nat : i \in 1 .. g[u] /\ x = <<u, i>>
      BY HandedOutElements
    <3>2. i \in 1 .. f[u] \/ (u = t /\ i = f[t] + 1)
      BY <3>1
    <3>3. QED
      BY <3>1, <3>2, HandedOutElements
  <2>2. ASSUME NEW x \in HandedOut(f) PROVE x \in HandedOut(g)
    <3>1. PICK u \in Threads, i \in Nat : i \in 1 .. f[u] /\ x = <<u, i>>
      BY HandedOutElements
    <3>2. i \in 1 .. g[u]
      BY <3>1
    <3>3. QED
      BY <3>1, <3>2, HandedOutElements
  <2>3. new \in HandedOut(g)
    <3>1. f[t] + 1 \in 1 .. g[t] /\ f[t] + 1 \in Nat
      OBVIOUS
    <3>2. QED
      BY <3>1, HandedOutElements
  <2>4. QED
    BY <2>1, <2>2, <2>3
<1> HIDE DEF new
<1>3. QED
  BY <1>1, <1>2, FS_AddElement, FS_CardinalityType

\* A thread gives one back.
LEMMA HandedOutLess ==
    ASSUME NEW f \in [Threads -> Nat], NEW t \in Threads, f[t] > 0, NEW g \in [Threads -> Nat],
           g[t] = f[t] - 1, \A u \in Threads : u # t => g[u] = f[u],
           IsFiniteSet(HandedOut(f))
    PROVE  /\ IsFiniteSet(HandedOut(g))
           /\ Cardinality(HandedOut(g)) = Cardinality(HandedOut(f)) - 1
           /\ Cardinality(HandedOut(f)) > 0
<1> DEFINE old == <<t, f[t]>>
<1>1. old \in HandedOut(f)
  <2>1. f[t] \in 1 .. f[t]
    OBVIOUS
  <2>2. QED
    BY <2>1, HandedOutElements
<1>2. HandedOut(g) = HandedOut(f) \ {old}
  <2>1. ASSUME NEW x \in HandedOut(g) PROVE x \in HandedOut(f) /\ x # old
    <3>1. PICK u \in Threads, i \in Nat : i \in 1 .. g[u] /\ x = <<u, i>>
      BY HandedOutElements
    <3>2. i \in 1 .. f[u] /\ ~(u = t /\ i = f[t])
      BY <3>1
    <3>3. QED
      BY <3>1, <3>2, HandedOutElements
  <2>2. ASSUME NEW x \in HandedOut(f), x # old PROVE x \in HandedOut(g)
    <3>1. PICK u \in Threads, i \in Nat : i \in 1 .. f[u] /\ x = <<u, i>>
      BY HandedOutElements
    <3>2. ~(u = t /\ i = f[t])
      BY <3>1, <2>2
    <3>3. i \in 1 .. g[u]
      BY <3>1, <3>2
    <3>4. QED
      BY <3>1, <3>3, HandedOutElements
  <2>3. QED
    BY <2>1, <2>2
<1> HIDE DEF old
<1>3. Cardinality(HandedOut(f)) \in Nat /\ Cardinality(HandedOut(f)) # 0
  BY <1>1, FS_CardinalityType, FS_EmptySet
<1>4. Cardinality(HandedOut(f) \ {old}) = Cardinality(HandedOut(f)) - 1
  BY <1>1, FS_RemoveElement
<1>5. IsFiniteSet(HandedOut(f) \ {old})
  BY FS_RemoveElement
<1>6. QED
  BY <1>2, <1>3, <1>4, <1>5

\* Only one thread has any.
LEMMA HandedOutOne ==
    ASSUME NEW f \in [Threads -> Nat], NEW t \in Threads,
           \A u \in Threads : u # t => f[u] = 0
    PROVE  IsFiniteSet(HandedOut(f)) /\ Cardinality(HandedOut(f)) = f[t]
<1>1. HandedOut(f) = {t} \X (1 .. f[t])
  <2>1. ASSUME NEW x \in HandedOut(f) PROVE x \in {t} \X (1 .. f[t])
    <3>1. PICK u \in Threads, i \in Nat : i \in 1 .. f[u] /\ x = <<u, i>>
      BY HandedOutElements
    <3>2. u = t
      BY <3>1
    <3>3. QED
      BY <3>1, <3>2
  <2>2. ASSUME NEW x \in {t} \X (1 .. f[t]) PROVE x \in HandedOut(f)
    <3>1. PICK i \in 1 .. f[t] : x = <<t, i>>
      OBVIOUS
    <3>2. QED
      BY <3>1, HandedOutElements
  <2>3. QED
    BY <2>1, <2>2
<1>2. IsFiniteSet({t}) /\ Cardinality({t}) = 1
  BY FS_Singleton
<1>3. IsFiniteSet(1 .. f[t]) /\ Cardinality(1 .. f[t]) = f[t]
  BY FS_Interval
<1>4. IsFiniteSet({t} \X (1 .. f[t])) /\ Cardinality({t} \X (1 .. f[t])) = 1 * f[t]
  BY <1>2, <1>3, FS_Product
<1>5. QED
  BY <1>1, <1>4

\* Nobody has any.
LEMMA HandedOutEmpty ==
    ASSUME NEW f, \A t \in Threads : f[t] = 0
    PROVE  HandedOut(f) = {}
<1>1. SUFFICES ASSUME NEW x \in HandedOut(f) PROVE FALSE
  OBVIOUS
<1>2. PICK u \in Threads, i \in Nat : i \in 1 .. f[u] /\ x = <<u, i>>
  BY HandedOutElements
<1>3. QED
  BY <1>2

\* Nobody has any if and only if there are none.
LEMMA HandedOutNone ==
    ASSUME NEW f \in [Threads -> Nat], IsFiniteSet(HandedOut(f))
    PROVE  Cardinality(HandedOut(f)) = 0 <=> \A t \in Threads : f[t] = 0
<1>1. ASSUME \A t \in Threads : f[t] = 0 PROVE HandedOut(f) = {}
  BY <1>1, HandedOutEmpty
<1>2. ASSUME HandedOut(f) = {}, NEW t \in Threads PROVE f[t] = 0
  <2>1. SUFFICES ASSUME f[t] # 0 PROVE FALSE
    OBVIOUS
  <2>2. f[t] \in 1 .. f[t]
    BY <2>1
  <2>3. <<t, f[t]>> \in HandedOut(f)
    BY <2>2, HandedOutElements
  <2>4. QED
    BY <2>3, <1>2
<1>3. Cardinality(HandedOut(f)) = 0 <=> HandedOut(f) = {}
  BY FS_EmptySet
<1>4. QED
  BY <1>1, <1>2, <1>3

-----------------------------------------------------------------------------
(* What a section leaves behind, part by part.                             *)

SleepTypes == [Threads -> {"run", "asleep", "woken", "error"}]
Counted(loop) == IF loop \in LkpLoops THEN 1 ELSE 0

\* lk_waitcount without t.
Left(t) == lk_waitcount - Counted(pc[t])

\* There are n shared locks.
SharesNow(n) ==
    /\ shared' \in [Threads -> Nat]
    /\ n \in Nat
    /\ IsFiniteSet(HandedOut(shared')) /\ n = Cardinality(HandedOut(shared'))

\* And nobody got one beside an exclusive lock.
SharesMove(n) ==
    /\ SharesNow(n)
    /\ \A u \in Threads : shared'[u] > 0 => shared[u] > 0 \/ "HAVE_EXCL" \notin lk_flags

\* t goes to a loop, and the flags say so.
Wants(t, flags, loop) ==
    /\ flags \subseteq Flags
    /\ "WANT_EXCL" \in flags <=> \/ loop = "ex2"
                                 \/ "WANT_EXCL" \in lk_flags /\ pc[t] # "ex2"
    /\ "WANT_UPGRADE" \in flags <=> \/ loop = "up"
                                    \/ "WANT_UPGRADE" \in lk_flags /\ pc[t] # "up"
    /\ loop = "ex2" => pc[t] = "ex2" \/ "WANT_EXCL" \notin lk_flags
    /\ loop = "up" => pc[t] = "up" \/ "WANT_UPGRADE" \notin lk_flags

\* The exclusive lock, if t does not wait to upgrade.
OwnersMove(t, flags) ==
    /\ lk_exclusivecount' \in Nat
    /\ lk_lockholder' \in Threads \cup {None}
    /\ excl' \in [Threads -> Nat]
    /\ panicked' \in {"no", "exclusive_count"}
    /\ OwnerExact'
    /\ Alone'
    /\ "HAVE_EXCL" \in flags <=> \E u \in Threads : excl'[u] > 0
    /\ \A u \in Threads : u # t /\ pc[u] = "up" => lk_exclusivecount' = 0

FrameOK ==
    /\ ext' \in [Threads -> SUBSET ExtFlags]
    /\ drained' \in Threads \cup {None}

SameWants(flags) ==
    /\ lk_flags' \subseteq Flags
    /\ "HAVE_EXCL" \in lk_flags' <=> "HAVE_EXCL" \in flags
    /\ "WANT_EXCL" \in lk_flags' <=> "WANT_EXCL" \in flags
    /\ "WANT_UPGRADE" \in lk_flags' <=> "WANT_UPGRADE" \in flags

LEMMA WaitsKept ==
    ASSUME LkInv, NEW t \in Threads, NEW loop \in {"idle"} \cup Loops,
           pc' = [pc EXCEPT ![t] = loop],
           lk_waitcount' = Left(t) + Counted(loop)
    PROVE  WaitsExact' /\ lk_waitcount' \in Nat
<1>1. IsFiniteSet(Waiting)
  <2>1. Waiting \in SUBSET Threads
    BY DEF Waiting
  <2>2. QED
    BY <2>1, ThreadsAssumption, FS_Subset
<1>2. Cardinality(Waiting) \in Nat /\ lk_waitcount = Cardinality(Waiting)
  BY <1>1, FS_CardinalityType DEF LkInv, WaitsExact
<1>3. t \in Waiting <=> pc[t] \in LkpLoops
  BY DEF Waiting
<1>4. t \in Waiting => Cardinality(Waiting) # 0
  BY <1>1, FS_EmptySet
<1>5. CASE loop \in LkpLoops
  <2>1. Waiting' = Waiting \cup {t}
    BY <1>5 DEF Waiting, LkInv, TypeOK
  <2>2. Cardinality(Waiting \cup {t}) =
           IF t \in Waiting THEN Cardinality(Waiting) ELSE Cardinality(Waiting) + 1
    BY <1>1, FS_AddElement
  <2>3. lk_waitcount' = Cardinality(Waiting \cup {t})
    BY <1>2, <1>3, <1>5, <2>2 DEF Left, Counted
  <2>4. lk_waitcount' \in Nat
    BY <1>2, <2>2, <2>3
  <2>5. QED
    BY <2>1, <2>3, <2>4 DEF WaitsExact
<1>6. CASE loop \notin LkpLoops
  <2>1. Waiting' = Waiting \ {t}
    BY <1>6 DEF Waiting, LkInv, TypeOK
  <2>2. Cardinality(Waiting \ {t}) =
           IF t \in Waiting THEN Cardinality(Waiting) - 1 ELSE Cardinality(Waiting)
    BY <1>1, FS_RemoveElement
  <2>3. lk_waitcount' = Cardinality(Waiting \ {t})
    BY <1>2, <1>3, <1>6, <2>2 DEF Left, Counted
  <2>4. lk_waitcount' \in Nat
    BY <1>2, <1>4, <2>2, <2>3
  <2>5. QED
    BY <2>1, <2>3, <2>4 DEF WaitsExact
<1>7. QED
  BY <1>5, <1>6

LEMMA WantsKept ==
    ASSUME LkInv, NEW t \in Threads, NEW loop, NEW flags,
           Wants(t, flags, loop), SameWants(flags), pc' = [pc EXCEPT ![t] = loop]
    PROVE  /\ OneWant'
           /\ "WANT_EXCL" \in lk_flags' <=> \E u \in Threads : pc'[u] = "ex2"
           /\ "WANT_UPGRADE" \in lk_flags' <=> \E u \in Threads : pc'[u] = "up"
<1>1. pc'[t] = loop /\ \A u \in Threads : u # t => pc'[u] = pc[u]
  BY DEF LkInv, TypeOK
<1>2. /\ "WANT_EXCL" \in lk_flags <=> \E u \in Threads : pc[u] = "ex2"
      /\ "WANT_UPGRADE" \in lk_flags <=> \E u \in Threads : pc[u] = "up"
      /\ \A u, v \in Threads : pc[u] \in {"up", "ex2"} /\ pc[u] = pc[v] => u = v
  BY DEF LkInv, FlagsOwned, OneWant
<1>3. OneWant'
  BY <1>1, <1>2 DEF OneWant, Wants
<1>4. "WANT_EXCL" \in lk_flags' <=> \E u \in Threads : pc'[u] = "ex2"
  BY <1>1, <1>2 DEF Wants, SameWants
<1>5. "WANT_UPGRADE" \in lk_flags' <=> \E u \in Threads : pc'[u] = "up"
  BY <1>1, <1>2 DEF Wants, SameWants
<1>6. QED
  BY <1>3, <1>4, <1>5

\* A section ends.
LEMMA SectionKeeps ==
    ASSUME LkInv, NEW t \in Threads, NEW loop \in {"idle"} \cup Loops,
           NEW flags, NEW n,
           pc' = [pc EXCEPT ![t] = loop],
           lk_waitcount' = Left(t) + Counted(loop),
           lk_sharecount' = n, SharesNow(n),
           Wants(t, flags, loop), SameWants(flags),
           OwnersMove(t, flags), loop = "up" => lk_exclusivecount' = 0,
           sleep' \in SleepTypes, FrameOK
    PROVE  LkInv'
<1>1. WaitsExact' /\ lk_waitcount' \in Nat
  BY WaitsKept
<1>2. /\ OneWant'
      /\ "WANT_EXCL" \in lk_flags' <=> \E u \in Threads : pc'[u] = "ex2"
      /\ "WANT_UPGRADE" \in lk_flags' <=> \E u \in Threads : pc'[u] = "up"
  BY WantsKept
<1>3. FlagsOwned'
  BY <1>2 DEF FlagsOwned, OwnersMove, SameWants
<1>4. pc' \in [Threads -> {"idle"} \cup Loops]
  BY DEF LkInv, TypeOK
<1>5. TypeOK'
  BY <1>1, <1>4 DEF TypeOK, OwnersMove, SharesNow, FrameOK, SameWants, SleepTypes
<1>6. SharesExact'
  BY DEF SharesNow, SharesExact
<1>7. OwnerExact' /\ Alone'
  BY DEF OwnersMove
<1>8. UpgradeUndisturbed'
  BY DEF UpgradeUndisturbed, OwnersMove, LkInv, TypeOK
<1>9. QED
  BY <1>1, <1>2, <1>3, <1>5, <1>6, <1>7, <1>8 DEF LkInv

-----------------------------------------------------------------------------
(* The shared locks.                                                       *)

LEMMA SharesSame ==
    ASSUME LkInv, UNCHANGED shared
    PROVE  SharesMove(lk_sharecount)
BY DEF LkInv, TypeOK, SharesExact, SharesMove, SharesNow

LEMMA SharesMore ==
    ASSUME LkInv, NEW t \in Threads, "HAVE_EXCL" \notin lk_flags,
           shared' = [shared EXCEPT ![t] = @ + 1]
    PROVE  SharesMove(lk_sharecount + 1)
<1>1. /\ shared \in [Threads -> Nat]
      /\ IsFiniteSet(HandedOut(shared)) /\ lk_sharecount = Cardinality(HandedOut(shared))
      /\ lk_sharecount \in Nat
  BY DEF LkInv, TypeOK, SharesExact
<1>2. /\ shared' \in [Threads -> Nat]
      /\ shared'[t] = shared[t] + 1
      /\ \A u \in Threads : u # t => shared'[u] = shared[u]
  BY <1>1
<1>3. /\ IsFiniteSet(HandedOut(shared'))
      /\ Cardinality(HandedOut(shared')) = Cardinality(HandedOut(shared)) + 1
  <2>1. ASSUME NEW w \in [Threads -> Nat], w[t] = shared[t] + 1,
               \A u \in Threads : u # t => w[u] = shared[u]
        PROVE  /\ IsFiniteSet(HandedOut(w))
               /\ Cardinality(HandedOut(w)) = Cardinality(HandedOut(shared)) + 1
    BY <1>1, <2>1, HandedOutMore
  <2>2. QED
    BY <1>2, <2>1
<1>4. QED
  BY <1>1, <1>2, <1>3 DEF SharesMove, SharesNow

LEMMA SharesLess ==
    ASSUME LkInv, NEW t \in Threads, shared[t] > 0,
           shared' = [shared EXCEPT ![t] = @ - 1]
    PROVE  SharesMove(lk_sharecount - 1) /\ lk_sharecount > 0
<1>1. /\ shared \in [Threads -> Nat]
      /\ IsFiniteSet(HandedOut(shared)) /\ lk_sharecount = Cardinality(HandedOut(shared))
      /\ lk_sharecount \in Nat
  BY DEF LkInv, TypeOK, SharesExact
<1>2. /\ shared' \in [Threads -> Nat]
      /\ shared'[t] = shared[t] - 1
      /\ \A u \in Threads : u # t => shared'[u] = shared[u]
  BY <1>1
<1>3. /\ IsFiniteSet(HandedOut(shared'))
      /\ Cardinality(HandedOut(shared')) = Cardinality(HandedOut(shared)) - 1
      /\ Cardinality(HandedOut(shared)) > 0
  <2>1. ASSUME NEW w \in [Threads -> Nat], w[t] = shared[t] - 1,
               \A u \in Threads : u # t => w[u] = shared[u]
        PROVE  /\ IsFiniteSet(HandedOut(w))
               /\ Cardinality(HandedOut(w)) = Cardinality(HandedOut(shared)) - 1
               /\ Cardinality(HandedOut(shared)) > 0
    BY <1>1, <2>1, HandedOutLess
  <2>2. QED
    BY <1>2, <2>1
<1>4. \A u \in Threads : shared'[u] > 0 => shared[u] > 0
  BY <1>1, <1>2
<1>5. QED
  BY <1>1, <1>2, <1>3, <1>4 DEF SharesMove, SharesNow

\* Nobody has a shared lock if lk_sharecount is 0, and the other way round.
LEMMA NoShares ==
    ASSUME LkInv
    PROVE  lk_sharecount = 0 <=> \A t \in Threads : shared[t] = 0
BY HandedOutNone DEF LkInv, TypeOK, SharesExact

-----------------------------------------------------------------------------
(* The exclusive lock.                                                     *)

LEMMA NotUnlocking ==
    ASSUME LkInv
    PROVE  panicked \in {"no", "exclusive_count"}
BY DEF LkInv, TypeOK, OwnerExact

\* It does not change hands.
LEMMA OwnersKept ==
    ASSUME LkInv, NEW t \in Threads, NEW flags, NEW n, SharesMove(n),
           UNCHANGED <<lk_lockholder, lk_exclusivecount, excl, panicked>>,
           "HAVE_EXCL" \in flags <=> "HAVE_EXCL" \in lk_flags
    PROVE  OwnersMove(t, flags)
<1>1. OwnerExact'
  BY DEF LkInv, OwnerExact
<1>2. Alone'
  BY DEF LkInv, Alone, SharesMove, SharesNow, FlagsOwned, TypeOK
<1>3. "HAVE_EXCL" \in flags <=> \E u \in Threads : excl'[u] > 0
  BY DEF LkInv, FlagsOwned
<1>4. \A u \in Threads : u # t /\ pc[u] = "up" => lk_exclusivecount' = 0
  BY DEF LkInv, UpgradeUndisturbed
<1>5. QED
  BY <1>1, <1>2, <1>3, <1>4, NotUnlocking DEF OwnersMove, LkInv, TypeOK

\* Without an exclusive lock lk_exclusivecount is 0, and the other way round.
LEMMA NoOwner ==
    ASSUME LkInv
    PROVE  /\ lk_exclusivecount = 0 <=> \A t \in Threads : excl[t] = 0
           /\ lk_exclusivecount = 0 <=> "HAVE_EXCL" \notin lk_flags
           /\ \A t \in Threads : excl[t] > 0 => lk_sharecount = 0
<1>1. \A t \in Threads : excl[t] \in Nat
  BY DEF LkInv, TypeOK
<1>2. lk_exclusivecount = 0 <=> \A t \in Threads : excl[t] = 0
  BY <1>1 DEF LkInv, OwnerExact
<1>3. lk_exclusivecount = 0 <=> "HAVE_EXCL" \notin lk_flags
  BY <1>1, <1>2 DEF LkInv, FlagsOwned
<1>4. \A t \in Threads : excl[t] > 0 => lk_sharecount = 0
  BY NoShares DEF LkInv, Alone
<1>5. QED
  BY <1>2, <1>3, <1>4

\* It is given to t.
LEMMA OwnersGiven ==
    ASSUME LkInv, NEW t \in Threads, NEW flags, "HAVE_EXCL" \in flags,
           lk_exclusivecount = 0,
           lk_lockholder' = t, lk_exclusivecount' = 1,
           excl' = [excl EXCEPT ![t] = @ + 1], UNCHANGED panicked,
           \A u \in Threads : shared'[u] = 0,
           \A u \in Threads : u # t => pc[u] # "up"
    PROVE  OwnersMove(t, flags)
<1>1. \A u \in Threads : excl'[u] = IF u = t THEN 1 ELSE 0
  BY NoOwner DEF LkInv, TypeOK
<1>2. OwnerExact'
  BY <1>1, NotUnlocking DEF OwnerExact
<1>3. Alone'
  BY <1>1 DEF Alone
<1>4. \E u \in Threads : excl'[u] > 0
  BY <1>1
<1>5. excl' \in [Threads -> Nat]
  BY DEF LkInv, TypeOK
<1>6. QED
  BY <1>2, <1>3, <1>4, <1>5, NotUnlocking DEF OwnersMove, LkInv, TypeOK

\* It is about to be given to t, but somebody has it: lockmgr panics.
LEMMA OwnersPanic ==
    ASSUME LkInv, NEW t \in Threads, NEW flags, "HAVE_EXCL" \in flags,
           lk_exclusivecount # 0, panicked' = "exclusive_count",
           lk_lockholder' = t, UNCHANGED <<lk_exclusivecount, excl>>,
           \A u \in Threads : shared'[u] = 0,
           \A u \in Threads : u # t => pc[u] # "up"
    PROVE  OwnersMove(t, flags)
<1>1. OwnerExact'
  BY DEF LkInv, OwnerExact
<1>2. Alone'
  BY DEF LkInv, Alone
<1>3. \E u \in Threads : excl'[u] > 0
  BY DEF LkInv, OwnerExact
<1>4. QED
  BY <1>1, <1>2, <1>3 DEF OwnersMove, LkInv, TypeOK

\* Its owner t changes the number of its exclusive locks to m.
LEMMA OwnersChange ==
    ASSUME LkInv, panicked = "no", NEW t \in Threads, excl[t] > 0, NEW m \in Nat,
           NEW flags, "HAVE_EXCL" \in flags <=> m # 0,
           lk_exclusivecount' = m,
           lk_lockholder' = IF m = 0 THEN None ELSE t,
           excl' = [excl EXCEPT ![t] = m], UNCHANGED panicked,
           m # 0 => UNCHANGED shared
    PROVE  OwnersMove(t, flags)
<1>1. \A u \in Threads : excl'[u] = IF u = t THEN m ELSE 0
  BY DEF LkInv, TypeOK, Alone
<1>2. OwnerExact'
  BY <1>1 DEF OwnerExact
<1>3. Alone'
  BY <1>1 DEF Alone, LkInv
<1>4. "HAVE_EXCL" \in flags <=> \E u \in Threads : excl'[u] > 0
  BY <1>1
<1>5. excl' \in [Threads -> Nat]
  BY DEF LkInv, TypeOK
<1>6. \A u \in Threads : pc[u] # "up"
  BY NoOwner DEF LkInv, UpgradeUndisturbed
<1>7. QED
  BY <1>2, <1>3, <1>4, <1>5, <1>6 DEF OwnersMove, LkInv, TypeOK

-----------------------------------------------------------------------------
(* The ends of a section.                                                  *)

LEMMA WokenTypes ==
    ASSUME NEW s \in SleepTypes, NEW loops
    PROVE  Woken(s, loops) \in SleepTypes
BY DEF SleepTypes, Woken

LEMMA WakeTypes ==
    ASSUME LkInv, NEW w
    PROVE  WakeWaiters(sleep, w) \in SleepTypes /\ sleep \in SleepTypes
<1>1. sleep \in SleepTypes
  BY DEF LkInv, TypeOK, SleepTypes
<1>2. QED
  BY <1>1, WokenTypes DEF WakeWaiters

LEMMA WaitEnds ==
    ASSUME LkInv, NEW t \in Threads, NEW loop \in LkpLoops, NEW flags, NEW n,
           NEW s \in SleepTypes, Wait(t, loop, flags, n, Left(t), s), KeepExcl,
           SharesMove(n), Wants(t, flags, loop),
           "HAVE_EXCL" \in flags <=> "HAVE_EXCL" \in lk_flags,
           loop = "up" => lk_exclusivecount = 0, FrameOK
    PROVE  LkInv'
<1>1. /\ lk_flags' = flags /\ lk_sharecount' = n
      /\ lk_waitcount' = Left(t) + 1
      /\ pc' = [pc EXCEPT ![t] = loop]
      /\ sleep' = [s EXCEPT ![t] = "asleep"]
  BY DEF Wait
<1>2. sleep' \in SleepTypes
  BY <1>1 DEF SleepTypes
<1>3. SameWants(flags)
  BY <1>1 DEF Wants, SameWants
<1>4. OwnersMove(t, flags)
  BY OwnersKept DEF KeepExcl
<1>5. lk_waitcount' = Left(t) + Counted(loop) /\ loop \in {"idle"} \cup Loops
  BY <1>1 DEF Counted, Loops
<1>6. loop = "up" => lk_exclusivecount' = 0
  BY DEF KeepExcl
<1>7. QED
  BY <1>1, <1>2, <1>3, <1>4, <1>5, <1>6, SectionKeeps DEF SharesMove

LEMMA ReturnEnds ==
    ASSUME LkInv, NEW t \in Threads, NEW flags, NEW n,
           NEW s \in SleepTypes, Return(t, flags, n, Left(t), s),
           SharesNow(n), Wants(t, flags, "idle"), OwnersMove(t, flags), FrameOK
    PROVE  LkInv'
<1>1. /\ lk_sharecount' = n
      /\ lk_waitcount' = Left(t)
      /\ pc' = [pc EXCEPT ![t] = "idle"]
  BY DEF Return
<1>2. sleep' \in SleepTypes
  BY WokenTypes DEF Return, SleepTypes
<1>3. SameWants(flags)
  BY DEF Wants, SameWants, Return
<1>4. Left(t) \in Int
  BY DEF Left, Counted, LkInv, TypeOK
<1>5. lk_waitcount' = Left(t) + Counted("idle")
  BY <1>1, <1>4 DEF Counted, LkpLoops
<1>6. QED
  BY <1>1, <1>2, <1>3, <1>5, SectionKeeps DEF Loops

LEMMA TakeEnds ==
    ASSUME LkInv, NEW t \in Threads, NEW flags, NEW s \in SleepTypes,
           TakeExcl(t, flags, 0, Left(t), s), SharesNow(0),
           Wants(t, flags, "idle"),
           \A u \in Threads : u # t => pc[u] # "up", FrameOK
    PROVE  LkInv'
<1> DEFINE held == flags \cup {"HAVE_EXCL"}
<1>1. Return(t, held, 0, Left(t), s)
  BY DEF TakeExcl
<1>2. Wants(t, held, "idle") /\ "HAVE_EXCL" \in held
  BY DEF Wants, Flags, AnyExcl
<1>3. \A u \in Threads : shared'[u] = 0
  BY HandedOutNone DEF SharesNow
<1> HIDE DEF held
<1>4. OwnersMove(t, held)
  <2>1. CASE lk_exclusivecount = 0
    BY <1>2, <1>3, <2>1, OwnersGiven DEF TakeExcl
  <2>2. CASE lk_exclusivecount # 0
    BY <1>2, <1>3, <2>2, OwnersPanic DEF TakeExcl
  <2>3. QED
    BY <2>1, <2>2
<1>5. QED
  BY <1>1, <1>2, <1>4, ReturnEnds

-----------------------------------------------------------------------------
(* The loops.                                                              *)

\* A thread that is in none of the loops that set a flag.
LEMMA PlainWants ==
    ASSUME LkInv, NEW t \in Threads, pc[t] \notin {"up", "ex2"},
           NEW loop, loop \notin {"up", "ex2"}
    PROVE  Wants(t, lk_flags, loop)
BY DEF LkInv, TypeOK, Wants

LEMMA SharedEnds ==
    ASSUME LkInv, NEW t \in Threads, pc[t] \notin {"up", "ex2"},
           AcquireShared(t, Left(t)), FrameOK
    PROVE  LkInv'
<1>1. Wants(t, lk_flags, "sh") /\ Wants(t, lk_flags, "idle")
  BY PlainWants
<1>2. sleep \in SleepTypes
  BY WakeTypes
<1>3. CASE Blocked("sh", lk_flags, lk_sharecount)
  <2>1. /\ Wait(t, "sh", lk_flags, lk_sharecount, Left(t), sleep)
        /\ KeepExcl /\ UNCHANGED shared
    BY <1>3 DEF AcquireShared
  <2>2. SharesMove(lk_sharecount)
    BY <2>1, SharesSame
  <2>3. QED
    BY <1>1, <1>2, <2>1, <2>2, WaitEnds DEF LkpLoops
<1>4. CASE ~Blocked("sh", lk_flags, lk_sharecount)
  <2>1. /\ Return(t, lk_flags, lk_sharecount + 1, Left(t), sleep)
        /\ KeepExcl /\ shared' = [shared EXCEPT ![t] = @ + 1]
    BY <1>4 DEF AcquireShared
  <2>2. "HAVE_EXCL" \notin lk_flags
    BY <1>4 DEF Blocked, AnyExcl
  <2>3. SharesMove(lk_sharecount + 1)
    BY <2>1, <2>2, SharesMore
  <2>4. OwnersMove(t, lk_flags)
    BY <2>1, <2>3, OwnersKept DEF KeepExcl
  <2>5. QED
    BY <1>1, <1>2, <2>1, <2>3, <2>4, ReturnEnds DEF SharesMove
<1>5. QED
  BY <1>3, <1>4

LEMMA UpgradeEnds ==
    ASSUME LkInv, NEW t \in Threads, NEW flags, NEW n,
           AcquireUpgrade(t, flags, n, Left(t)), SharesMove(n),
           Wants(t, flags, "up"), lk_exclusivecount = 0,
           "HAVE_EXCL" \in flags <=> "HAVE_EXCL" \in lk_flags, FrameOK
    PROVE  LkInv'
<1>1. sleep \in SleepTypes
  BY WakeTypes
<1>2. CASE Blocked("up", flags, n)
  BY <1>1, <1>2, WaitEnds DEF AcquireUpgrade, LkpLoops
<1>3. CASE ~Blocked("up", flags, n)
  <2>1. n = 0
    BY <1>3 DEF Blocked
  <2>2. TakeExcl(t, flags \ {"WANT_UPGRADE"}, 0, Left(t), sleep)
    BY <1>3, <2>1 DEF AcquireUpgrade
  <2>3. Wants(t, flags \ {"WANT_UPGRADE"}, "idle")
    BY DEF Wants
  <2>4. \A u \in Threads : u # t => pc[u] # "up"
    BY DEF LkInv, FlagsOwned, OneWant, Wants
  <2>5. QED
    BY <1>1, <2>1, <2>2, <2>3, <2>4, TakeEnds DEF SharesMove
<1>4. QED
  BY <1>2, <1>3

LEMMA Excl2Ends ==
    ASSUME LkInv, NEW t \in Threads, pc[t] # "up", NEW flags, NEW n,
           NEW s \in SleepTypes, AcquireExcl2(t, flags, n, Left(t), s),
           SharesMove(n), Wants(t, flags, "ex2"),
           "HAVE_EXCL" \in flags <=> "HAVE_EXCL" \in lk_flags, FrameOK
    PROVE  LkInv'
<1>1. CASE Blocked("ex2", flags, n)
  BY <1>1, WaitEnds DEF AcquireExcl2, LkpLoops
<1>2. CASE ~Blocked("ex2", flags, n)
  <2>1. n = 0 /\ "WANT_UPGRADE" \notin flags
    BY <1>2 DEF Blocked
  <2>2. TakeExcl(t, flags \ {"WANT_EXCL"}, 0, Left(t), s)
    BY <1>2, <2>1 DEF AcquireExcl2
  <2>3. Wants(t, flags \ {"WANT_EXCL"}, "idle")
    BY DEF Wants
  <2>4. \A u \in Threads : pc[u] # "up"
    BY <2>1 DEF LkInv, FlagsOwned, Wants
  <2>5. QED
    BY <2>1, <2>2, <2>3, <2>4, TakeEnds DEF SharesMove
<1>3. QED
  BY <1>1, <1>2

LEMMA Excl1Ends ==
    ASSUME LkInv, NEW t \in Threads, pc[t] \notin {"up", "ex2"}, NEW n,
           NEW s \in SleepTypes, AcquireExcl1(t, lk_flags, n, Left(t), s),
           SharesMove(n), FrameOK
    PROVE  LkInv'
<1>1. CASE Blocked("ex1", lk_flags, n)
  <2>1. Wants(t, lk_flags, "ex1")
    BY PlainWants
  <2>2. QED
    BY <1>1, <2>1, WaitEnds DEF AcquireExcl1, LkpLoops
<1>2. CASE ~Blocked("ex1", lk_flags, n)
  <2> DEFINE flags == lk_flags \cup {"WANT_EXCL"}
  <2>1. AcquireExcl2(t, flags, n, Left(t), s)
    BY <1>2 DEF AcquireExcl1
  <2>2. "WANT_EXCL" \notin lk_flags
    BY <1>2 DEF Blocked
  <2>3. Wants(t, flags, "ex2")
    BY <2>2 DEF Wants, LkInv, TypeOK, Flags, AnyExcl
  <2>4. "HAVE_EXCL" \in flags <=> "HAVE_EXCL" \in lk_flags
    OBVIOUS
  <2> HIDE DEF flags
  <2>5. QED
    BY <2>1, <2>3, <2>4, Excl2Ends
<1>3. QED
  BY <1>1, <1>2

\* When the drain goes on without a wait, nobody else has the lock or waits.
LEMMA DrainQuiet ==
    ASSUME LkInv, ~Active(lk_flags, lk_sharecount, lk_waitcount)
    PROVE  /\ lk_exclusivecount = 0
           /\ \A u \in Threads : HasNone(u) /\ pc[u] \notin LkpLoops
<1>1. "HAVE_EXCL" \notin lk_flags /\ lk_sharecount = 0 /\ lk_waitcount = 0
  BY DEF Active, AnyExcl
<1>2. lk_exclusivecount = 0 /\ \A u \in Threads : excl[u] = 0
  BY <1>1, NoOwner
<1>3. \A u \in Threads : shared[u] = 0
  BY <1>1, NoShares
<1>4. Waiting = {}
  <2>1. IsFiniteSet(Waiting)
    <3>1. Waiting \in SUBSET Threads
      BY DEF Waiting
    <3>2. QED
      BY <3>1, ThreadsAssumption, FS_Subset
  <2>2. Cardinality(Waiting) = 0
    BY <1>1 DEF LkInv, WaitsExact
  <2>3. QED
    BY <2>1, <2>2, FS_EmptySet
<1>5. QED
  BY <1>2, <1>3, <1>4 DEF HasNone, Waiting

LEMMA DrainEnds ==
    ASSUME LkInv, NEW t \in Threads, pc[t] \in {"idle", "drain"},
           AcquireDrain(t), ext' \in [Threads -> SUBSET ExtFlags]
    PROVE  LkInv'
<1>1. /\ lk_sharecount' = lk_sharecount
      /\ lk_waitcount' = lk_waitcount
      /\ panicked' = panicked /\ shared' = shared
  BY DEF AcquireDrain
<1>2. SharesMove(lk_sharecount)
  BY <1>1, SharesSame
<1>3. Left(t) = lk_waitcount /\ lk_waitcount + 0 = lk_waitcount
  BY DEF Left, Counted, LkpLoops, LkInv, TypeOK
<1>4. Counted("idle") = 0 /\ Counted("drain") = 0
  BY DEF Counted, LkpLoops
<1>5. CASE Active(lk_flags, lk_sharecount, lk_waitcount)
  <2>1. /\ lk_flags' = lk_flags \cup {"WAITDRAIN"}
        /\ pc' = [pc EXCEPT ![t] = "drain"]
        /\ sleep' = [sleep EXCEPT ![t] = "asleep"]
        /\ UNCHANGED <<lk_lockholder, lk_exclusivecount, excl, drained>>
    BY <1>5 DEF AcquireDrain
  <2>2. Wants(t, lk_flags, "drain")
    BY PlainWants
  <2>3. SameWants(lk_flags)
    BY <2>1 DEF SameWants, LkInv, TypeOK, Flags
  <2>4. OwnersMove(t, lk_flags)
    BY <1>1, <1>2, <2>1, OwnersKept
  <2>5. sleep' \in SleepTypes /\ FrameOK
    BY <2>1 DEF LkInv, TypeOK, SleepTypes, FrameOK
  <2>6. QED
    BY <1>1, <1>2, <1>3, <1>4, <2>1, <2>2, <2>3, <2>4, <2>5, SectionKeeps DEF Loops, SharesMove
<1>6. CASE ~Active(lk_flags, lk_sharecount, lk_waitcount)
  <2>1. /\ lk_flags' = lk_flags \cup {"DRAINING", "HAVE_EXCL"}
        /\ lk_lockholder' = t
        /\ lk_exclusivecount' = 1
        /\ excl' = [excl EXCEPT ![t] = @ + 1]
        /\ drained' = t
        /\ pc' = [pc EXCEPT ![t] = "idle"]
        /\ sleep' = [sleep EXCEPT ![t] = "run"]
    BY <1>6 DEF AcquireDrain
  <2> DEFINE held == lk_flags \cup {"HAVE_EXCL"}
  <2>2. Wants(t, held, "idle") /\ "HAVE_EXCL" \in held
    BY PlainWants DEF Wants, Flags, AnyExcl
  <2>3. SameWants(held)
    BY <2>1 DEF SameWants, LkInv, TypeOK, Flags, AnyExcl
  <2> HIDE DEF held
  <2>4. OwnersMove(t, held)
    <3>1. lk_exclusivecount = 0 /\ \A u \in Threads : shared'[u] = 0 /\ pc[u] # "up"
      BY <1>1, <1>6, DrainQuiet DEF HasNone, LkpLoops
    <3>2. QED
      BY <1>1, <2>1, <2>2, <3>1, OwnersGiven
  <2>5. sleep' \in SleepTypes /\ FrameOK
    BY <2>1 DEF LkInv, TypeOK, SleepTypes, FrameOK
  <2>6. QED
    BY <1>1, <1>2, <1>3, <1>4, <2>1, <2>2, <2>3, <2>4, <2>5, SectionKeeps DEF SharesMove
<1>7. QED
  BY <1>5, <1>6

-----------------------------------------------------------------------------
(* The requests.                                                           *)

LEMMA IdleLeft ==
    ASSUME LkInv, NEW t \in Threads, Idle(t)
    PROVE  Left(t) = lk_waitcount /\ pc[t] = "idle" /\ panicked = "no"
BY DEF Idle, Left, Counted, LkpLoops, LkInv, TypeOK

LEMMA CallFrame ==
    ASSUME LkInv, NEW t \in Threads, NEW request, NEW x \in SUBSET ExtFlags,
           Call(t, request, x)
    PROVE  ext' \in [Threads -> SUBSET ExtFlags]
BY DEF Call, LkInv, TypeOK

\* A thread with a shared lock: nobody has the exclusive one.
LEMMA SharedHeld ==
    ASSUME LkInv, NEW t \in Threads, shared[t] > 0
    PROVE  lk_exclusivecount = 0 /\ lk_sharecount > 0
<1>1. \A u \in Threads : excl[u] = 0
  BY DEF LkInv, Alone, TypeOK
<1>2. lk_sharecount # 0 /\ lk_sharecount \in Nat
  BY NoShares DEF LkInv, TypeOK
<1>3. QED
  BY <1>1, <1>2, NoOwner

LEMMA DowngradeEnds ==
    ASSUME LkInv, NEW t \in Threads, NEW extra \in Nat, Downgrade(t, extra),
           ext' \in [Threads -> SUBSET ExtFlags]
    PROVE  LkInv'
<1> DEFINE n == lk_sharecount + extra + lk_exclusivecount
           flags == lk_flags \ {"HAVE_EXCL"}
<1>1. /\ Idle(t) /\ excl[t] > 0
      /\ lk_exclusivecount' = 0 /\ lk_lockholder' = None
      /\ Return(t, flags, n, lk_waitcount, WakeWaiters(sleep, lk_waitcount))
      /\ shared' = [shared EXCEPT ![t] = @ + extra + excl[t]]
      /\ excl' = [excl EXCEPT ![t] = 0]
      /\ drained' = None
      /\ UNCHANGED panicked
  BY DEF Downgrade
<1>2. Left(t) = lk_waitcount /\ pc[t] = "idle" /\ panicked = "no"
  BY <1>1, IdleLeft
<1>3. SharesNow(n)
  <2>1. /\ \A u \in Threads : shared[u] = 0
        /\ shared \in [Threads -> Nat] /\ excl[t] \in Nat
    BY <1>1 DEF LkInv, Alone, TypeOK
  <2>2. lk_sharecount = 0 /\ lk_exclusivecount = excl[t]
    BY <1>1, NoOwner DEF LkInv, OwnerExact
  <2>3. /\ shared' \in [Threads -> Nat]
        /\ shared'[t] = extra + excl[t]
        /\ \A u \in Threads : u # t => shared'[u] = 0
    BY <1>1, <2>1
  <2>4. n = extra + excl[t] /\ n \in Nat
    BY <2>1, <2>2
  <2>5. IsFiniteSet(HandedOut(shared')) /\ Cardinality(HandedOut(shared')) = shared'[t]
    BY <2>3, HandedOutOne
  <2>6. QED
    BY <2>3, <2>4, <2>5 DEF SharesNow
<1>4. Wants(t, flags, "idle")
  BY <1>2, PlainWants DEF Wants
<1>5. "HAVE_EXCL" \notin flags
  OBVIOUS
<1> HIDE DEF n, flags
<1>6. OwnersMove(t, flags)
  BY <1>1, <1>2, <1>5, OwnersChange
<1>7. FrameOK
  BY <1>1 DEF FrameOK
<1>8. QED
  BY <1>1, <1>2, <1>3, <1>4, <1>6, <1>7, WakeTypes, ReturnEnds

\* A request returns without the shared lock it had.
LEMMA SharedLost ==
    ASSUME LkInv, NEW t \in Threads, Idle(t), shared[t] > 0,
           NEW s \in SleepTypes,
           Return(t, lk_flags, lk_sharecount - 1, lk_waitcount, s),
           shared' = [shared EXCEPT ![t] = @ - 1], KeepExcl, FrameOK
    PROVE  LkInv'
<1>1. Left(t) = lk_waitcount /\ pc[t] = "idle"
  BY IdleLeft
<1>2. SharesMove(lk_sharecount - 1)
  BY SharesLess
<1>3. OwnersMove(t, lk_flags)
  BY <1>2, OwnersKept DEF KeepExcl
<1>4. Wants(t, lk_flags, "idle")
  BY <1>1, PlainWants
<1>5. QED
  BY <1>1, <1>2, <1>3, <1>4, ReturnEnds DEF SharesMove

LEMMA ReleaseEnds ==
    ASSUME LkInv, NEW t \in Threads, LK_RELEASE(t)
    PROVE  LkInv'
<1>1. Idle(t) /\ ~HasNone(t) /\ ext' = ext
  BY DEF LK_RELEASE
<1>2. Left(t) = lk_waitcount /\ pc[t] = "idle" /\ panicked = "no"
  BY <1>1, IdleLeft
<1>3. excl[t] \in Nat /\ shared[t] \in Nat /\ lk_exclusivecount \in Nat
  BY DEF LkInv, TypeOK
<1>4. CASE lk_exclusivecount # 0
  <2>1. excl[t] > 0
    BY <1>1, <1>3, <1>4, SharedHeld DEF HasNone
  <2>2. lk_lockholder = t /\ lk_exclusivecount = excl[t]
    BY <1>2, <2>1 DEF LkInv, OwnerExact
  <2>3. ReleaseExcl(t)
    BY <1>4, <2>2 DEF LK_RELEASE
  <2> DEFINE m == excl[t] - 1
             flags == IF lk_exclusivecount = 1 THEN lk_flags \ {"HAVE_EXCL"} ELSE lk_flags
  <2>4. m \in Nat /\ (m = 0 <=> lk_exclusivecount = 1)
    BY <1>3, <2>1, <2>2
  <2>5. /\ lk_exclusivecount' = m
        /\ lk_lockholder' = IF m = 0 THEN None ELSE t
        /\ excl' = [excl EXCEPT ![t] = m]
        /\ UNCHANGED <<shared, panicked>>
        /\ drained' = IF lk_exclusivecount = 1 THEN None ELSE drained
    BY <2>2, <2>3, <2>4 DEF ReleaseExcl
  <2>6. Return(t, flags, lk_sharecount, lk_waitcount, WakeWaiters(sleep, lk_waitcount))
    BY <2>3 DEF ReleaseExcl
  <2>7. "HAVE_EXCL" \in lk_flags
    BY <1>4, NoOwner
  <2>8. "HAVE_EXCL" \in flags <=> m # 0
    BY <2>4, <2>7
  <2>9. Wants(t, flags, "idle")
    BY <1>2, PlainWants DEF Wants
  <2> HIDE DEF m, flags
  <2>10. OwnersMove(t, flags)
    BY <1>2, <2>1, <2>4, <2>5, <2>8, OwnersChange
  <2>11. SharesNow(lk_sharecount)
    BY <2>5, SharesSame DEF SharesMove
  <2>12. FrameOK
    BY <1>1, <2>5 DEF FrameOK, LkInv, TypeOK
  <2>13. QED
    BY <1>2, <2>6, <2>9, <2>10, <2>11, <2>12, WakeTypes, ReturnEnds
<1>5. CASE lk_exclusivecount = 0
  <2>1. ReleaseShared(t)
    BY <1>5 DEF LK_RELEASE
  <2>2. shared[t] > 0
    BY <1>1, <1>3, <1>5, NoOwner DEF HasNone
  <2>3. lk_sharecount > 0
    BY <2>2, SharedHeld
  <2>4. /\ Return(t, lk_flags, lk_sharecount - 1, lk_waitcount, WakeWaiters(sleep, lk_waitcount))
        /\ shared' = [shared EXCEPT ![t] = @ - 1]
        /\ KeepExcl
        /\ UNCHANGED drained
    BY <2>1, <2>3 DEF ReleaseShared
  <2>5. FrameOK
    BY <1>1, <2>4 DEF FrameOK, LkInv, TypeOK
  <2>6. QED
    BY <1>1, <2>2, <2>4, <2>5, WakeTypes, SharedLost
<1>6. QED
  BY <1>4, <1>5

LEMMA RecursiveEnds ==
    ASSUME LkInv, NEW t \in Threads, LK_EXCLUSIVE_recursive(t)
    PROVE  LkInv'
<1>1. Idle(t) /\ excl[t] > 0 /\ "CANRECURSE" \in ExtFlags
  BY BoundAssumption DEF LK_EXCLUSIVE_recursive
<1>2. Left(t) = lk_waitcount /\ pc[t] = "idle" /\ panicked = "no"
  BY <1>1, IdleLeft
<1>3. lk_lockholder = t /\ lk_exclusivecount = excl[t] /\ lk_exclusivecount \in Nat
  BY <1>1, <1>2 DEF LkInv, OwnerExact, TypeOK
<1> DEFINE m == excl[t] + 1
<1>4. m \in Nat /\ m # 0
  BY <1>3
<1>5. /\ lk_exclusivecount' = m
      /\ lk_lockholder' = t
      /\ excl' = [excl EXCEPT ![t] = m]
      /\ Return(t, lk_flags, lk_sharecount, lk_waitcount, sleep)
      /\ UNCHANGED <<panicked, shared, drained>>
      /\ Call(t, "EXCLUSIVE", {"CANRECURSE"})
  BY <1>3 DEF LK_EXCLUSIVE_recursive
<1> HIDE DEF m
<1>6. "HAVE_EXCL" \in lk_flags
  BY <1>1, <1>3, NoOwner
<1>7. OwnersMove(t, lk_flags)
  BY <1>1, <1>2, <1>4, <1>5, <1>6, OwnersChange
<1>8. SharesNow(lk_sharecount)
  BY <1>5, SharesSame DEF SharesMove
<1>9. FrameOK
  <2>1. {"CANRECURSE"} \in SUBSET ExtFlags
    BY <1>1
  <2>2. QED
    BY <1>5, <2>1, CallFrame DEF FrameOK, LkInv, TypeOK
<1>10. Wants(t, lk_flags, "idle")
  BY <1>2, PlainWants
<1>11. QED
  BY <1>2, <1>5, <1>7, <1>8, <1>9, <1>10, WakeTypes, ReturnEnds

\* The flag of an upgrade is set.
LEMMA UpgradeWants ==
    ASSUME LkInv, NEW t \in Threads, pc[t] = "idle", "WANT_UPGRADE" \notin lk_flags
    PROVE  Wants(t, lk_flags \cup {"WANT_UPGRADE"}, "up")
BY DEF Wants, LkInv, TypeOK, Flags, AnyExcl

LEMMA UpgradeRequests ==
    ASSUME LkInv, NEW t \in Threads, NEW x \in SUBSET ExtFlags, NEW request,
           \/ LK_UPGRADE_polls(t, request, x) \/ LK_UPGRADE_first(t, request, x)
           \/ LK_UPGRADE_second(t, x)
    PROVE  LkInv'
<1>1. /\ Idle(t) /\ shared[t] > 0
      /\ shared' = [shared EXCEPT ![t] = @ - 1]
      /\ UNCHANGED drained
      /\ \E r : Call(t, r, x)
  BY DEF LK_UPGRADE_polls, LK_UPGRADE_first, LK_UPGRADE_second
<1>2. FrameOK
  BY <1>1, CallFrame DEF FrameOK, LkInv, TypeOK
<1>3. Left(t) = lk_waitcount /\ pc[t] = "idle"
  BY <1>1, IdleLeft
<1>4. SharesMove(lk_sharecount - 1)
  BY <1>1, SharesLess
<1>5. sleep \in SleepTypes /\ WakeWaiters(sleep, lk_waitcount) \in SleepTypes
  BY WakeTypes
<1>6. CASE LK_UPGRADE_polls(t, request, x)
  BY <1>1, <1>2, <1>5, <1>6, SharedLost DEF LK_UPGRADE_polls
<1>7. CASE LK_UPGRADE_first(t, request, x)
  <2> DEFINE flags == lk_flags \cup {"WANT_UPGRADE"}
  <2>1. AcquireUpgrade(t, flags, lk_sharecount - 1, lk_waitcount)
    BY <1>7 DEF LK_UPGRADE_first
  <2>2. Wants(t, flags, "up")
    BY <1>3, <1>7, UpgradeWants DEF LK_UPGRADE_first
  <2>3. "HAVE_EXCL" \in flags <=> "HAVE_EXCL" \in lk_flags
    OBVIOUS
  <2>4. lk_exclusivecount = 0
    BY <1>1, SharedHeld
  <2> HIDE DEF flags
  <2>5. QED
    BY <1>2, <1>3, <1>4, <2>1, <2>2, <2>3, <2>4, UpgradeEnds
<1>8. CASE LK_UPGRADE_second(t, x)
  <2> DEFINE s == IF lk_sharecount - 1 = 0 THEN WakeWaiters(sleep, lk_waitcount)
                  ELSE sleep
  <2>1. AcquireExcl1(t, lk_flags, lk_sharecount - 1, lk_waitcount, s)
    BY <1>8 DEF LK_UPGRADE_second
  <2>2. s \in SleepTypes
    BY <1>5
  <2> HIDE DEF s
  <2>3. QED
    BY <1>2, <1>3, <1>4, <2>1, <2>2, Excl1Ends
<1>9. QED
  BY <1>6, <1>7, <1>8

LEMMA RequestEnds ==
    ASSUME LkInv, NEW t \in Threads, Request(t)
    PROVE  LkInv'
<1>1. CASE LK_SHARED_holder(t) \/ LK_DOWNGRADE(t)
  <2>1. \E request : Call(t, request, {})
    BY <1>1 DEF LK_SHARED_holder, LK_DOWNGRADE
  <2>2. ext' \in [Threads -> SUBSET ExtFlags]
    BY <2>1, CallFrame
  <2>3. Downgrade(t, 0) \/ Downgrade(t, 1)
    BY <1>1 DEF LK_SHARED_holder, LK_DOWNGRADE
  <2>4. QED
    BY <2>2, <2>3, DowngradeEnds
<1>2. CASE LK_EXCLUPGRADE_fails(t)
  <2>1. /\ Idle(t) /\ shared[t] > 0
        /\ Return(t, lk_flags, lk_sharecount - 1, lk_waitcount, sleep)
        /\ shared' = [shared EXCEPT ![t] = @ - 1]
        /\ KeepExcl /\ UNCHANGED drained
        /\ Call(t, "EXCLUPGRADE", {})
    BY <1>2 DEF LK_EXCLUPGRADE_fails
  <2>2. FrameOK
    BY <2>1, CallFrame DEF FrameOK, LkInv, TypeOK
  <2>3. QED
    BY <2>1, <2>2, WakeTypes, SharedLost
<1>3. CASE LK_EXCLUSIVE_recursive(t)
  BY <1>3, RecursiveEnds
<1>4. CASE LK_RELEASE(t)
  BY <1>4, ReleaseEnds
<1>5. ASSUME NEW x \in SUBSET ExtFlags, LK_SHARED(t, x)
      PROVE  LkInv'
  <2>1. Left(t) = lk_waitcount /\ pc[t] = "idle"
    BY <1>5, IdleLeft DEF LK_SHARED
  <2>2. FrameOK
    BY <1>5, CallFrame DEF LK_SHARED, FrameOK, LkInv, TypeOK
  <2>3. QED
    BY <1>5, <2>1, <2>2, SharedEnds DEF LK_SHARED
<1>6. ASSUME NEW x \in SUBSET ExtFlags, LK_EXCLUSIVE(t, x)
      PROVE  LkInv'
  <2>1. Left(t) = lk_waitcount /\ pc[t] = "idle"
    BY <1>6, IdleLeft DEF LK_EXCLUSIVE
  <2>2. FrameOK
    BY <1>6, CallFrame DEF LK_EXCLUSIVE, FrameOK, LkInv, TypeOK
  <2>3. SharesMove(lk_sharecount)
    BY <1>6, SharesSame DEF LK_EXCLUSIVE
  <2>4. QED
    BY <1>6, <2>1, <2>2, <2>3, WakeTypes, Excl1Ends DEF LK_EXCLUSIVE
<1>7. ASSUME NEW x \in SUBSET ExtFlags, LK_DRAIN(t, x)
      PROVE  LkInv'
  BY <1>7, CallFrame, DrainEnds DEF LK_DRAIN, Idle
<1>8. QED
  BY <1>1, <1>2, <1>3, <1>4, <1>5, <1>6, <1>7, UpgradeRequests DEF Request

-----------------------------------------------------------------------------
(* The ends of a sleep.                                                    *)

LEMMA ResumeEnds ==
    ASSUME LkInv, NEW t \in Threads, Resume(t)
    PROVE  LkInv'
<1>1. ext' \in [Threads -> SUBSET ExtFlags] /\ drained \in Threads \cup {None}
  BY DEF Resume, LkInv, TypeOK
<1>2. pc[t] \in LkpLoops => Left(t) = lk_waitcount - 1
  BY DEF Left, Counted
<1>3. UNCHANGED shared => SharesMove(lk_sharecount)
  BY SharesSame
<1>4. CASE pc[t] = "sh"
  <2>1. AcquireShared(t, Left(t)) /\ UNCHANGED drained
    BY <1>2, <1>4 DEF Resume, LkpLoops
  <2>2. QED
    BY <1>1, <1>4, <2>1, SharedEnds DEF FrameOK
<1>5. CASE pc[t] = "up"
  <2>1. AcquireUpgrade(t, lk_flags, lk_sharecount, Left(t)) /\ UNCHANGED <<shared, drained>>
    BY <1>2, <1>5 DEF Resume, LkpLoops
  <2>2. Wants(t, lk_flags, "up") /\ lk_exclusivecount = 0
    BY <1>5 DEF Wants, LkInv, TypeOK, FlagsOwned, UpgradeUndisturbed
  <2>3. QED
    BY <1>1, <1>3, <2>1, <2>2, UpgradeEnds DEF FrameOK
<1>6. CASE pc[t] = "ex1"
  <2>1. /\ AcquireExcl1(t, lk_flags, lk_sharecount, Left(t), sleep)
        /\ UNCHANGED <<shared, drained>>
    BY <1>2, <1>6 DEF Resume, LkpLoops
  <2>2. QED
    BY <1>1, <1>3, <1>6, <2>1, WakeTypes, Excl1Ends DEF FrameOK
<1>7. CASE pc[t] = "ex2"
  <2>1. /\ AcquireExcl2(t, lk_flags, lk_sharecount, Left(t), sleep)
        /\ UNCHANGED <<shared, drained>>
    BY <1>2, <1>7 DEF Resume, LkpLoops
  <2>2. Wants(t, lk_flags, "ex2")
    BY <1>7 DEF Wants, LkInv, TypeOK, FlagsOwned
  <2>3. QED
    BY <1>1, <1>3, <1>7, <2>1, <2>2, WakeTypes, Excl2Ends DEF FrameOK
<1>8. CASE pc[t] = "drain"
  BY <1>1, <1>8, DrainEnds DEF Resume
<1>9. QED
  BY <1>4, <1>5, <1>6, <1>7, <1>8 DEF Resume

LEMMA FailEnds ==
    ASSUME LkInv, NEW t \in Threads, SleepFails(t)
    PROVE  LkInv'
<1>1. /\ ext' = [ext EXCEPT ![t] = {}]
      /\ UNCHANGED <<panicked, shared, excl, drained, lk_exclusivecount, lk_lockholder>>
  BY DEF SleepFails, fields
<1>2. FrameOK
  BY <1>1 DEF FrameOK, LkInv, TypeOK
<1>3. SharesMove(lk_sharecount)
  BY <1>1, SharesSame
<1>4. CASE pc[t] \in LkpLoops
  <2> DEFINE flags == lk_flags \ FlagOf(pc[t])
  <2>1. Return(t, flags, lk_sharecount, Left(t), sleep)
    BY <1>4 DEF SleepFails, LkpLoops, Left, Counted
  <2>2. Wants(t, flags, "idle")
    <3>1. flags \subseteq Flags
      BY DEF LkInv, TypeOK
    <3>2. "WANT_EXCL" \in flags <=> "WANT_EXCL" \in lk_flags /\ pc[t] # "ex2"
      BY DEF FlagOf
    <3>3. "WANT_UPGRADE" \in flags <=> "WANT_UPGRADE" \in lk_flags /\ pc[t] # "up"
      BY DEF FlagOf
    <3>4. QED
      BY <3>1, <3>2, <3>3 DEF Wants
  <2>3. "HAVE_EXCL" \in flags <=> "HAVE_EXCL" \in lk_flags
    BY DEF FlagOf
  <2> HIDE DEF flags
  <2>4. OwnersMove(t, flags)
    BY <1>1, <1>3, <2>3, OwnersKept
  <2>5. QED
    BY <1>2, <1>3, <2>1, <2>2, <2>4, WakeTypes, ReturnEnds DEF SharesMove
<1>5. CASE pc[t] = "drain"
  <2>1. /\ pc' = [pc EXCEPT ![t] = "idle"]
        /\ sleep' = [sleep EXCEPT ![t] = "run"]
        /\ UNCHANGED <<lk_flags, lk_sharecount, lk_waitcount>>
    BY <1>5 DEF SleepFails, LkpLoops, fields
  <2>2. lk_waitcount' = Left(t) + Counted("idle")
    BY <1>5, <2>1 DEF Left, Counted, LkpLoops, LkInv, TypeOK
  <2>3. Wants(t, lk_flags, "idle")
    BY <1>5, PlainWants
  <2>4. SameWants(lk_flags)
    BY <2>1 DEF SameWants, LkInv, TypeOK
  <2>5. OwnersMove(t, lk_flags)
    BY <1>1, <1>3, OwnersKept
  <2>6. sleep' \in SleepTypes
    BY <2>1 DEF SleepTypes, LkInv, TypeOK
  <2>7. QED
    BY <1>2, <1>3, <2>1, <2>2, <2>3, <2>4, <2>5, <2>6, SectionKeeps DEF SharesMove
<1>6. QED
  BY <1>4, <1>5 DEF SleepFails

LEMMA DisturbEnds ==
    ASSUME LkInv, NEW t \in Threads, Disturb(t)
    PROVE  LkInv'
<1>1. UNCHANGED <<fields, pc, ext, panicked, shared, excl, drained>>
  BY DEF Disturb
<1>2. sleep' \in [Threads -> {"run", "asleep", "woken", "error"}]
  BY DEF Disturb, LkInv, TypeOK
<1>3. TypeOK'
  BY <1>1, <1>2 DEF LkInv, TypeOK, fields
<1>4. SharesExact' /\ WaitsExact'
  BY <1>1 DEF LkInv, SharesExact, WaitsExact, Waiting, fields
<1>5. OwnerExact' /\ Alone' /\ FlagsOwned' /\ OneWant' /\ UpgradeUndisturbed'
  BY <1>1 DEF LkInv, OwnerExact, Alone, FlagsOwned, OneWant, UpgradeUndisturbed, fields
<1>6. QED
  BY <1>3, <1>4, <1>5 DEF LkInv

LEMMA StutterEnds ==
    ASSUME LkInv, UNCHANGED vars
    PROVE  LkInv'
<1>1. UNCHANGED <<fields, pc, sleep, ext, panicked, shared, excl, drained>>
  BY DEF vars
<1>2. TypeOK'
  BY <1>1 DEF LkInv, TypeOK, fields
<1>3. SharesExact' /\ WaitsExact'
  BY <1>1 DEF LkInv, SharesExact, WaitsExact, Waiting, fields
<1>4. OwnerExact' /\ Alone' /\ FlagsOwned' /\ OneWant' /\ UpgradeUndisturbed'
  BY <1>1 DEF LkInv, OwnerExact, Alone, FlagsOwned, OneWant, UpgradeUndisturbed, fields
<1>5. QED
  BY <1>2, <1>3, <1>4 DEF LkInv

LEMMA InitLkInv == Init => LkInv
<1> SUFFICES ASSUME Init PROVE LkInv
  OBVIOUS
<1>1. TypeOK /\ OwnerExact /\ Alone /\ FlagsOwned /\ OneWant /\ UpgradeUndisturbed
  BY DEF Init, TypeOK, OwnerExact, Alone, FlagsOwned, OneWant, UpgradeUndisturbed
<1>2. SharesExact
  <2>1. HandedOut(shared) = {}
    BY HandedOutEmpty DEF Init
  <2>2. QED
    BY <2>1, FS_EmptySet DEF SharesExact, Init
<1>3. WaitsExact
  <2>1. Waiting = {}
    BY DEF Init, Waiting, LkpLoops
  <2>2. QED
    BY <2>1, FS_EmptySet DEF WaitsExact, Init
<1>4. QED
  BY <1>1, <1>2, <1>3 DEF LkInv

LEMMA NextLkInv == LkInv /\ [Next]_vars => LkInv'
BY RequestEnds, ResumeEnds, FailEnds, DisturbEnds, StutterEnds DEF Next

-----------------------------------------------------------------------------
(* The theorems.                                                           *)

\* The inductive invariant holds of every lock, whatever is requested.
THEOREM LkInvariance == Spec => []LkInv
BY InitLkInv, NextLkInv, PTL DEF Spec

\* Every variable of the lock has its type; no count becomes negative.
THEOREM TypeCorrect == Spec => []TypeOK
<1>1. LkInv => TypeOK
  BY DEF LkInv
<1>2. QED
  BY <1>1, LkInvariance, PTL

\* An exclusive lock is the only lock there is, until lockmgr panics and then.
THEOREM LocksExclude == Spec => []Exclusion
<1>1. LkInv => Exclusion
  BY DEF LkInv, Alone, Exclusion
<1>2. QED
  BY <1>1, LkInvariance, PTL

LEMMA InvCounts == LkInv => CountsExact
<1> SUFFICES ASSUME LkInv PROVE CountsExact
  OBVIOUS
<1>1. excl \in [Threads -> Nat] /\ lk_exclusivecount \in Nat
  BY DEF LkInv, TypeOK
<1>2. lk_exclusivecount = Cardinality(HandedOut(excl))
  <2>1. CASE \E t \in Threads : excl[t] > 0
    <3>1. PICK t \in Threads : excl[t] > 0
      BY <2>1
    <3>2. lk_exclusivecount = excl[t] /\ \A u \in Threads : u # t => excl[u] = 0
      BY <3>1 DEF LkInv, OwnerExact, Alone
    <3>3. QED
      BY <1>1, <3>2, HandedOutOne
  <2>2. CASE ~ \E t \in Threads : excl[t] > 0
    <3>1. \A t \in Threads : excl[t] = 0
      BY <1>1, <2>2
    <3>2. lk_exclusivecount = 0
      BY <3>1, NoOwner
    <3>3. HandedOut(excl) = {}
      BY <3>1, HandedOutEmpty
    <3>4. QED
      BY <3>2, <3>3, FS_EmptySet
  <2>3. QED
    BY <2>1, <2>2
<1>3. QED
  BY <1>2 DEF LkInv, SharesExact, WaitsExact, CountsExact

\* lk_sharecount, lk_exclusivecount and lk_waitcount count what they are for.
THEOREM CountsAreExact == Spec => []CountsExact
BY InvCounts, LkInvariance, PTL

\* LK_HAVE_EXCL, LK_WANT_EXCL and LK_WANT_UPGRADE are set exactly while there is
\* an owner, a writer in its second loop, or an upgrade that waits.
THEOREM FlagsAreOwned == Spec => []FlagsOwned
<1>1. LkInv => FlagsOwned
  BY DEF LkInv
<1>2. QED
  BY <1>1, LkInvariance, PTL

\* Nobody has the exclusive lock while an upgrade waits.
THEOREM UpgradesUndisturbed == Spec => []UpgradeUndisturbed
<1>1. LkInv => UpgradeUndisturbed
  BY DEF LkInv
<1>2. QED
  BY <1>1, LkInvariance, PTL

\* Only LK_DRAIN sets the history variable, and only when the lock is quiet.
LEMMA DrainStep ==
    ASSUME LkInv, [Next]_vars, drained' \in Threads, drained' # drained
    PROVE  \A u \in Threads \ {drained'} : HasNone(u) /\ pc[u] \in {"idle", "drain"}
<1>1. \E t \in Threads : AcquireDrain(t)
  <2>1. drained' # None
    BY ThreadsAssumption
  <2>2. ASSUME NEW t \in Threads, Request(t) PROVE \E x : LK_DRAIN(t, x)
    BY <2>1, <2>2 DEF Request, LK_SHARED_holder, LK_DOWNGRADE, Downgrade,
          LK_EXCLUPGRADE_fails, LK_EXCLUSIVE_recursive, LK_RELEASE, ReleaseExcl,
          ReleaseShared, ReleaseForeign, LK_SHARED, LK_EXCLUSIVE, LK_UPGRADE_polls,
          LK_UPGRADE_first, LK_UPGRADE_second
  <2>3. ASSUME NEW t \in Threads, Resume(t) PROVE AcquireDrain(t)
    BY <2>3 DEF Resume
  <2>4. ASSUME NEW t \in Threads PROVE ~Disturb(t) /\ ~SleepFails(t)
    BY DEF Disturb, SleepFails
  <2>5. ~UNCHANGED vars
    BY DEF vars
  <2>6. QED
    BY <2>2, <2>3, <2>4, <2>5 DEF Next, LK_DRAIN
<1>2. ~Active(lk_flags, lk_sharecount, lk_waitcount)
  BY <1>1 DEF AcquireDrain
<1>3. \A u \in Threads : HasNone(u) /\ pc[u] \notin LkpLoops
  BY <1>2, DrainQuiet
<1>4. QED
  BY <1>3 DEF LkInv, TypeOK, Loops

\* When LK_DRAIN returns the lock, no other thread has it or waits for it, other
\* than to drain it too.
THEOREM DrainEnded == Spec => DrainEndsActivity
<1>1. LkInv /\ [Next]_vars =>
        [drained' \in Threads /\ drained' # drained =>
           \A u \in Threads \ {drained'} :
              HasNone(u) /\ pc[u] \in {"idle", "drain"}]_vars
  BY DrainStep
<1>2. QED
  BY <1>1, LkInvariance, PTL DEF Spec, DrainEndsActivity

-----------------------------------------------------------------------------
(* Without upgrades.                                                       *)

\* The requests the kernel's own callers make.
NoUpgrades == Requests \cap {"UPGRADE", "EXCLUPGRADE"} = {}

\* The exclusive lock is that of the lock holder, and LK_HAVE_EXCL says so.
HolderExact ==
    /\ \A t \in Threads : excl[t] = IF lk_lockholder = t THEN lk_exclusivecount ELSE 0
    /\ lk_lockholder = None <=> lk_exclusivecount = 0
    /\ "HAVE_EXCL" \in lk_flags <=> lk_exclusivecount # 0

\* At most one request is in its second loop, with LK_WANT_EXCL, and while it
\* is there nobody has the exclusive lock.
OneWriter ==
    /\ \A t \in Threads :
          pc[t] = "ex2" => "WANT_EXCL" \in lk_flags /\ "HAVE_EXCL" \notin lk_flags
    /\ \A t, u \in Threads : pc[t] = "ex2" /\ pc[u] = "ex2" => t = u

Types ==
    /\ lk_exclusivecount \in Nat
    /\ lk_lockholder \in Threads \cup {None}
    /\ excl \in [Threads -> Nat]
    /\ pc \in [Threads -> {"idle"} \cup Loops]

\* The inductive invariant.
ExclInv ==
    /\ Types
    /\ HolderExact
    /\ OneWriter
    /\ \A t \in Threads : pc[t] # "up"
    /\ panicked # "exclusive_count"

-----------------------------------------------------------------------------
(* The ends of a section.                                                  *)

\* Return changes no flag but LK_WAITDRAIN.
LEMMA ReturnFlags ==
    ASSUME NEW t, NEW flags, NEW n, NEW w, NEW s, Return(t, flags, n, w, s)
    PROVE  /\ "HAVE_EXCL" \in lk_flags' <=> "HAVE_EXCL" \in flags
           /\ "WANT_EXCL" \in lk_flags' <=> "WANT_EXCL" \in flags
           /\ pc' = [pc EXCEPT ![t] = "idle"]
BY DEF Return

\* A thread goes to sleep; one that enters the second loop just set
\* LK_WANT_EXCL, or was there before.
LEMMA WaitKeeps ==
    ASSUME ExclInv, NEW t \in Threads, NEW loop \in {"sh", "ex1", "ex2"},
           NEW flags, NEW n, NEW w, NEW s,
           Wait(t, loop, flags, n, w, s), KeepExcl,
           "HAVE_EXCL" \in flags <=> "HAVE_EXCL" \in lk_flags,
           "WANT_EXCL" \in lk_flags => "WANT_EXCL" \in flags,
           loop = "ex2" => /\ "WANT_EXCL" \in flags
                           /\ "HAVE_EXCL" \notin flags
                           /\ pc[t] = "ex2" \/ "WANT_EXCL" \notin lk_flags
    PROVE  ExclInv'
<1>1. /\ lk_flags' = flags /\ pc' = [pc EXCEPT ![t] = loop]
      /\ UNCHANGED <<lk_lockholder, lk_exclusivecount, excl, panicked>>
  BY DEF Wait, KeepExcl
<1>2. Types'
  BY <1>1 DEF ExclInv, Types, Loops, LkpLoops
<1>3. HolderExact'
  BY <1>1 DEF ExclInv, HolderExact
<1>4. OneWriter'
  BY <1>1 DEF ExclInv, OneWriter, Types
<1>5. \A u \in Threads : pc'[u] # "up"
  BY <1>1 DEF ExclInv, Types
<1>6. QED
  BY <1>1, <1>2, <1>3, <1>4, <1>5 DEF ExclInv

\* A request ends without the exclusive lock changing hands.
LEMMA ReturnKeeps ==
    ASSUME ExclInv, NEW t \in Threads, NEW flags, NEW n, NEW w, NEW s,
           Return(t, flags, n, w, s),
           UNCHANGED <<lk_lockholder, lk_exclusivecount, excl, panicked>>,
           "HAVE_EXCL" \in flags <=> "HAVE_EXCL" \in lk_flags,
           pc[t] = "ex2" \/ ("WANT_EXCL" \in lk_flags => "WANT_EXCL" \in flags)
    PROVE  ExclInv'
<1>1. /\ "HAVE_EXCL" \in lk_flags' <=> "HAVE_EXCL" \in flags
      /\ "WANT_EXCL" \in lk_flags' <=> "WANT_EXCL" \in flags
      /\ pc' = [pc EXCEPT ![t] = "idle"]
  BY ReturnFlags
<1>2. Types'
  BY <1>1 DEF ExclInv, Types
<1>3. HolderExact'
  BY <1>1 DEF ExclInv, HolderExact
<1>4. OneWriter'
  BY <1>1 DEF ExclInv, OneWriter, Types
<1>5. \A u \in Threads : pc'[u] # "up"
  BY <1>1 DEF ExclInv, Types
<1>6. QED
  BY <1>2, <1>3, <1>4, <1>5 DEF ExclInv

\* The exclusive lock is granted to a thread while nobody has it and no other
\* request is in its second loop: there is nothing to panic about.
LEMMA TakeKeeps ==
    ASSUME ExclInv, NEW t \in Threads, NEW flags, NEW n, NEW w, NEW s,
           TakeExcl(t, flags, n, w, s),
           "HAVE_EXCL" \notin lk_flags,
           \A u \in Threads \ {t} : pc[u] # "ex2"
    PROVE  ExclInv'
<1>1. lk_exclusivecount = 0 /\ lk_lockholder = None
  BY DEF ExclInv, HolderExact
<1>2. /\ lk_lockholder' = t /\ lk_exclusivecount' = 1
      /\ excl' = [excl EXCEPT ![t] = @ + 1]
      /\ UNCHANGED panicked
  BY <1>1 DEF TakeExcl
<1>3. "HAVE_EXCL" \in lk_flags' /\ pc' = [pc EXCEPT ![t] = "idle"]
  BY ReturnFlags DEF TakeExcl
<1>4. Types'
  BY <1>2, <1>3 DEF ExclInv, Types
<1>5. HolderExact'
  <2>1. \A u \in Threads : excl[u] = 0
    BY <1>1, ThreadsAssumption DEF ExclInv, HolderExact
  <2>2. \A u \in Threads : excl'[u] = IF u = t THEN 1 ELSE 0
    BY <1>2, <2>1 DEF ExclInv, Types
  <2>3. QED
    BY <1>2, <1>3, <2>2, ThreadsAssumption DEF HolderExact
<1>6. OneWriter'
  BY <1>3 DEF ExclInv, Types, OneWriter
<1>7. \A u \in Threads : pc'[u] # "up"
  BY <1>3 DEF ExclInv, Types
<1>8. QED
  BY <1>2, <1>4, <1>5, <1>6, <1>7 DEF ExclInv

-----------------------------------------------------------------------------
(* The loops.                                                              *)

LEMMA SharedKeeps ==
    ASSUME ExclInv, NEW t \in Threads, NEW w, AcquireShared(t, w)
    PROVE  ExclInv'
BY WaitKeeps, ReturnKeeps DEF AcquireShared, KeepExcl

LEMMA Excl2Keeps ==
    ASSUME ExclInv, NEW t \in Threads, NEW flags, NEW n, NEW w, NEW s,
           AcquireExcl2(t, flags, n, w, s),
           "WANT_EXCL" \in flags, "HAVE_EXCL" \notin lk_flags,
           "HAVE_EXCL" \notin flags,
           pc[t] = "ex2" \/ "WANT_EXCL" \notin lk_flags
    PROVE  ExclInv'
<1>1. CASE Blocked("ex2", flags, n)
  BY <1>1, WaitKeeps DEF AcquireExcl2
<1>2. CASE ~Blocked("ex2", flags, n)
  <2>1. \A u \in Threads \ {t} : pc[u] # "ex2"
    BY DEF ExclInv, OneWriter
  <2>2. QED
    BY <1>2, <2>1, TakeKeeps DEF AcquireExcl2
<1>3. QED
  BY <1>1, <1>2

LEMMA Excl1Keeps ==
    ASSUME ExclInv, NEW t \in Threads, NEW n, NEW w, NEW s,
           AcquireExcl1(t, lk_flags, n, w, s)
    PROVE  ExclInv'
<1>1. CASE Blocked("ex1", lk_flags, n)
  BY <1>1, WaitKeeps DEF AcquireExcl1
<1>2. CASE ~Blocked("ex1", lk_flags, n)
  <2>1. "HAVE_EXCL" \notin lk_flags /\ "WANT_EXCL" \notin lk_flags
    BY <1>2 DEF Blocked
  <2>2. AcquireExcl2(t, lk_flags \cup {"WANT_EXCL"}, n, w, s)
    BY <1>2 DEF AcquireExcl1
  <2>3. QED
    BY <2>1, <2>2, Excl2Keeps
<1>3. QED
  BY <1>1, <1>2

LEMMA DrainKeeps ==
    ASSUME ExclInv, NEW t \in Threads, AcquireDrain(t)
    PROVE  ExclInv'
<1>1. CASE Active(lk_flags, lk_sharecount, lk_waitcount)
  <2>1. /\ lk_flags' = lk_flags \cup {"WAITDRAIN"}
        /\ pc' = [pc EXCEPT ![t] = "drain"]
        /\ UNCHANGED <<lk_lockholder, lk_exclusivecount, excl, panicked>>
    BY <1>1 DEF AcquireDrain
  <2>2. Types'
    BY <2>1 DEF ExclInv, Types, Loops
  <2>3. HolderExact' /\ OneWriter'
    BY <2>1 DEF ExclInv, Types, HolderExact, OneWriter
  <2>4. \A u \in Threads : pc'[u] # "up"
    BY <2>1 DEF ExclInv, Types
  <2>5. QED
    BY <2>1, <2>2, <2>3, <2>4 DEF ExclInv
<1>2. CASE ~Active(lk_flags, lk_sharecount, lk_waitcount)
  <2>1. "HAVE_EXCL" \notin lk_flags /\ "WANT_EXCL" \notin lk_flags
    BY <1>2 DEF Active, AnyExcl
  <2>2. lk_exclusivecount = 0 /\ lk_lockholder = None
    BY <2>1 DEF ExclInv, HolderExact
  <2>3. /\ lk_flags' = lk_flags \cup {"DRAINING", "HAVE_EXCL"}
        /\ lk_lockholder' = t /\ lk_exclusivecount' = 1
        /\ excl' = [excl EXCEPT ![t] = @ + 1]
        /\ pc' = [pc EXCEPT ![t] = "idle"]
        /\ UNCHANGED panicked
    BY <1>2 DEF AcquireDrain
  <2>4. Types'
    BY <2>3 DEF ExclInv, Types
  <2>5. HolderExact'
    <3>1. \A u \in Threads : excl[u] = 0
      BY <2>2, ThreadsAssumption DEF ExclInv, HolderExact
    <3>2. \A u \in Threads : excl'[u] = IF u = t THEN 1 ELSE 0
      BY <2>3, <3>1 DEF ExclInv, Types
    <3>3. QED
      BY <2>3, <3>2, ThreadsAssumption DEF HolderExact
  <2>6. OneWriter'
    BY <2>1, <2>3 DEF ExclInv, Types, OneWriter
  <2>7. \A u \in Threads : pc'[u] # "up"
    BY <2>3 DEF ExclInv, Types
  <2>8. QED
    BY <2>3, <2>4, <2>5, <2>6, <2>7 DEF ExclInv
<1>3. QED
  BY <1>1, <1>2

-----------------------------------------------------------------------------
(* The exclusive lock is given up, or taken again by its holder.           *)

\* The holder changes the number of its exclusive locks; without any left it
\* is no longer the holder.
LEMMA HolderKeeps ==
    ASSUME ExclInv, NEW t \in Threads, excl[t] > 0, NEW m \in Nat,
           NEW flags, NEW n, NEW w, NEW s, Return(t, flags, n, w, s),
           lk_exclusivecount' = m,
           lk_lockholder' = IF m = 0 THEN None ELSE t,
           excl' = [excl EXCEPT ![t] = m],
           "HAVE_EXCL" \in flags <=> m # 0,
           "WANT_EXCL" \in lk_flags => "WANT_EXCL" \in flags,
           UNCHANGED panicked
    PROVE  ExclInv'
<1>1. /\ "HAVE_EXCL" \in lk_flags' <=> "HAVE_EXCL" \in flags
      /\ "WANT_EXCL" \in lk_flags' <=> "WANT_EXCL" \in flags
      /\ pc' = [pc EXCEPT ![t] = "idle"]
  BY ReturnFlags
<1>2. lk_lockholder = t /\ lk_exclusivecount = excl[t]
  BY DEF ExclInv, HolderExact, Types
<1>3. \A u \in Threads : u # t => excl[u] = 0
  BY <1>2 DEF ExclInv, HolderExact
<1>4. Types'
  BY <1>1 DEF ExclInv, Types
<1>5. HolderExact'
  <2>1. \A u \in Threads : excl'[u] = IF u = t THEN m ELSE 0
    BY <1>3 DEF ExclInv, Types
  <2>2. QED
    BY <1>1, <2>1, ThreadsAssumption DEF HolderExact
<1>6. OneWriter'
  <2>1. "HAVE_EXCL" \in lk_flags
    BY <1>2 DEF ExclInv, HolderExact, Types
  <2>2. \A u \in Threads : pc[u] # "ex2"
    BY <2>1 DEF ExclInv, OneWriter
  <2>3. QED
    BY <1>1, <2>2 DEF OneWriter, ExclInv, Types
<1>7. \A u \in Threads : pc'[u] # "up"
  BY <1>1 DEF ExclInv, Types
<1>8. QED
  BY <1>4, <1>5, <1>6, <1>7 DEF ExclInv

\* Only the holder has exclusive locks.
LEMMA HolderCount ==
    ASSUME ExclInv, NEW t \in Threads, excl[t] > 0
    PROVE  lk_lockholder = t /\ lk_exclusivecount = excl[t] /\ "HAVE_EXCL" \in lk_flags
BY DEF ExclInv, HolderExact, Types

LEMMA DowngradeKeeps ==
    ASSUME ExclInv, NEW t \in Threads, NEW extra, Downgrade(t, extra)
    PROVE  ExclInv'
<1>1. excl[t] > 0
  BY DEF Downgrade
<1>2. QED
  BY <1>1, HolderKeeps DEF Downgrade

LEMMA ReleaseKeeps ==
    ASSUME ExclInv, NEW t \in Threads, LK_RELEASE(t)
    PROVE  ExclInv'
<1>1. CASE lk_exclusivecount # 0 /\ lk_lockholder = t
  <2>1. excl[t] = lk_exclusivecount /\ excl[t] > 0 /\ "HAVE_EXCL" \in lk_flags
    BY <1>1 DEF ExclInv, HolderExact, Types
  <2>2. lk_exclusivecount - 1 \in Nat /\ (lk_exclusivecount = 1 <=> lk_exclusivecount - 1 = 0)
    BY <1>1 DEF ExclInv, Types
  <2>3. ReleaseExcl(t)
    BY <1>1 DEF LK_RELEASE
  <2>4. /\ lk_exclusivecount' = lk_exclusivecount - 1
        /\ lk_lockholder' = IF lk_exclusivecount - 1 = 0 THEN None ELSE t
        /\ excl' = [excl EXCEPT ![t] = lk_exclusivecount - 1]
        /\ UNCHANGED panicked
    BY <1>1, <2>1, <2>2, <2>3 DEF ReleaseExcl
  <2> DEFINE flags == IF lk_exclusivecount = 1 THEN lk_flags \ {"HAVE_EXCL"} ELSE lk_flags
  <2>5. Return(t, flags, lk_sharecount, lk_waitcount, WakeWaiters(sleep, lk_waitcount))
    BY <2>3 DEF ReleaseExcl
  <2>6. "HAVE_EXCL" \in flags <=> lk_exclusivecount - 1 # 0
    BY <2>1, <2>2
  <2>7. "WANT_EXCL" \in lk_flags => "WANT_EXCL" \in flags
    OBVIOUS
  <2> HIDE DEF flags
  <2>8. QED
    BY <2>1, <2>2, <2>4, <2>5, <2>6, <2>7, HolderKeeps
<1>2. CASE lk_exclusivecount # 0 /\ lk_lockholder # t
  <2>1. ReleaseForeign
    BY <1>2 DEF LK_RELEASE
  <2>2. QED
    BY <2>1 DEF ReleaseForeign, ExclInv, Types, HolderExact, OneWriter, fields
<1>3. CASE lk_exclusivecount = 0
  <2>1. ReleaseShared(t)
    BY <1>3 DEF LK_RELEASE
  <2>2. QED
    BY <2>1, ReturnKeeps DEF ReleaseShared, KeepExcl
<1>4. QED
  BY <1>1, <1>2, <1>3

LEMMA RecursiveKeeps ==
    ASSUME ExclInv, NEW t \in Threads, LK_EXCLUSIVE_recursive(t)
    PROVE  ExclInv'
<1>1. excl[t] > 0
  BY BoundAssumption DEF LK_EXCLUSIVE_recursive
<1>2. lk_lockholder = t /\ lk_exclusivecount = excl[t] /\ "HAVE_EXCL" \in lk_flags
  BY <1>1, HolderCount
<1>3. lk_exclusivecount + 1 \in Nat /\ lk_exclusivecount + 1 # 0
  BY DEF ExclInv, Types
<1>4. /\ lk_exclusivecount' = lk_exclusivecount + 1
      /\ lk_lockholder' = IF lk_exclusivecount + 1 = 0 THEN None ELSE t
      /\ excl' = [excl EXCEPT ![t] = lk_exclusivecount + 1]
      /\ Return(t, lk_flags, lk_sharecount, lk_waitcount, sleep)
      /\ UNCHANGED panicked
  BY <1>2, <1>3 DEF LK_EXCLUSIVE_recursive
<1>5. QED
  BY <1>1, <1>2, <1>3, <1>4, HolderKeeps

-----------------------------------------------------------------------------
(* The steps.                                                              *)

LEMMA RequestKeeps ==
    ASSUME ExclInv, NoUpgrades, NEW t \in Threads, Request(t)
    PROVE  ExclInv'
<1>1. CASE LK_SHARED_holder(t) \/ LK_DOWNGRADE(t)
  BY <1>1, DowngradeKeeps DEF LK_SHARED_holder, LK_DOWNGRADE
<1>2. CASE LK_EXCLUPGRADE_fails(t)
  BY <1>2 DEF LK_EXCLUPGRADE_fails, Call, NoUpgrades
<1>3. CASE LK_EXCLUSIVE_recursive(t)
  BY <1>3, RecursiveKeeps
<1>4. CASE LK_RELEASE(t)
  BY <1>4, ReleaseKeeps
<1>5. ASSUME NEW x, LK_SHARED(t, x)
      PROVE  ExclInv'
  BY <1>5, SharedKeeps DEF LK_SHARED
<1>6. ASSUME NEW x, LK_EXCLUSIVE(t, x)
      PROVE  ExclInv'
  BY <1>6, Excl1Keeps DEF LK_EXCLUSIVE
<1>7. ASSUME NEW x, LK_DRAIN(t, x)
      PROVE  ExclInv'
  BY <1>7, DrainKeeps DEF LK_DRAIN
<1>8. ASSUME NEW x, NEW request \in {"UPGRADE", "EXCLUPGRADE"},
             LK_UPGRADE_polls(t, request, x) \/ LK_UPGRADE_first(t, request, x)
      PROVE  ExclInv'
  BY <1>8 DEF LK_UPGRADE_polls, LK_UPGRADE_first, Call, NoUpgrades
<1>9. ASSUME NEW x, LK_UPGRADE_second(t, x)
      PROVE  ExclInv'
  BY <1>9 DEF LK_UPGRADE_second, Call, NoUpgrades
<1>10. QED
  BY <1>1, <1>2, <1>3, <1>4, <1>5, <1>6, <1>7, <1>8, <1>9 DEF Request

LEMMA ResumeKeeps ==
    ASSUME ExclInv, NEW t \in Threads, Resume(t)
    PROVE  ExclInv'
<1>1. CASE pc[t] = "sh"
  BY <1>1, SharedKeeps DEF Resume
<1>2. CASE pc[t] = "ex1"
  BY <1>2, Excl1Keeps DEF Resume
<1>3. CASE pc[t] = "ex2"
  <2>1. "WANT_EXCL" \in lk_flags /\ "HAVE_EXCL" \notin lk_flags
    BY <1>3 DEF ExclInv, OneWriter
  <2>2. AcquireExcl2(t, lk_flags, lk_sharecount, lk_waitcount - 1, sleep)
    BY <1>3 DEF Resume
  <2>3. QED
    BY <1>3, <2>1, <2>2, Excl2Keeps
<1>4. CASE pc[t] = "drain"
  BY <1>4, DrainKeeps DEF Resume
<1>5. QED
  BY <1>1, <1>2, <1>3, <1>4 DEF Resume, ExclInv

LEMMA FailKeeps ==
    ASSUME ExclInv, NEW t \in Threads, SleepFails(t)
    PROVE  ExclInv'
<1>1. CASE pc[t] \in LkpLoops
  <2>1. /\ Return(t, lk_flags \ FlagOf(pc[t]), lk_sharecount, lk_waitcount - 1, sleep)
        /\ UNCHANGED <<lk_lockholder, lk_exclusivecount, excl, panicked>>
    BY <1>1 DEF SleepFails, LkpLoops
  <2>2. "HAVE_EXCL" \notin FlagOf(pc[t])
    BY DEF FlagOf
  <2>3. pc[t] = "ex2" \/ "WANT_EXCL" \notin FlagOf(pc[t])
    BY DEF FlagOf
  <2>4. QED
    BY <2>1, <2>2, <2>3, ReturnKeeps
<1>2. CASE pc[t] = "drain"
  <2>1. /\ pc' = [pc EXCEPT ![t] = "idle"]
        /\ UNCHANGED <<fields, panicked, excl>>
    BY <1>2 DEF SleepFails, LkpLoops
  <2>2. Types'
    BY <2>1 DEF ExclInv, Types, fields
  <2>3. HolderExact' /\ OneWriter'
    BY <2>1 DEF ExclInv, Types, HolderExact, OneWriter, fields
  <2>4. \A u \in Threads : pc'[u] # "up"
    BY <2>1 DEF ExclInv, Types
  <2>5. QED
    BY <2>1, <2>2, <2>3, <2>4 DEF ExclInv
<1>3. QED
  BY <1>1, <1>2 DEF SleepFails

LEMMA Unmoved ==
    ASSUME ExclInv, UNCHANGED <<fields, pc, panicked, excl>>
    PROVE  ExclInv'
BY DEF ExclInv, Types, HolderExact, OneWriter, fields

\* In a kernel that upgrades no lock, the exclusive lock is always that of
\* lk_lockholder, and one request at most is about to get it.
THEOREM ExclInvariance == ASSUME NoUpgrades PROVE Spec => []ExclInv
<1>1. Init => ExclInv
  BY DEF Init, ExclInv, Types, HolderExact, OneWriter
<1>2. ExclInv /\ [Next]_vars => ExclInv'
  <2> SUFFICES ASSUME ExclInv, [Next]_vars PROVE ExclInv'
    OBVIOUS
  <2>1. ASSUME NEW t \in Threads, Disturb(t) PROVE ExclInv'
    BY <2>1, Unmoved DEF Disturb
  <2>2. CASE UNCHANGED vars
    BY <2>2, Unmoved DEF vars
  <2>3. QED
    BY <2>1, <2>2, RequestKeeps, ResumeKeeps, FailKeeps DEF Next
<1>3. QED
  BY <1>1, <1>2, PTL DEF Spec

\* lockmgr never panics with "non-zero exclusive count" in a kernel that upgrades
\* no lock, whatever requests poll, recurse, drain, or fail in their sleep.
THEOREM NoPanicWithoutUpgrades == ASSUME NoUpgrades PROVE Spec => []NoExclusivePanic
<1>1. ExclInv => NoExclusivePanic
  BY DEF ExclInv, NoExclusivePanic
<1>2. QED
  BY <1>1, ExclInvariance, PTL

-----------------------------------------------------------------------------
(* Wakeups.  Under the requests the kernel makes (no upgrades, no sleep    *)
(* that fails) whoever is asleep still has something to wait for.          *)

KernelUse == NoUpgrades /\ ~Errors /\ "SLEEPFAIL" \notin ExtFlags

SleepInv ==
    /\ SleepersBlocked
    /\ \A t \in Threads : sleep[t] # "error"

\* What is used of the invariants shown before.
Known == LkInv /\ ExclInv

\* Nobody waits to upgrade, and LK_WANT_UPGRADE is clear.
LEMMA NoUpgradeFlag ==
    ASSUME Known
    PROVE  /\ "WANT_UPGRADE" \notin lk_flags
           /\ \A t \in Threads : pc[t] # "up"
BY DEF Known, LkInv, ExclInv, FlagsOwned

LEMMA SleeperCounted ==
    ASSUME LkInv, NEW u \in Threads, pc[u] \in LkpLoops
    PROVE  lk_waitcount # 0
<1>1. u \in Waiting /\ Waiting \in SUBSET Threads
  BY DEF Waiting
<1>2. IsFiniteSet(Waiting)
  BY <1>1, ThreadsAssumption, FS_Subset
<1>3. Cardinality(Waiting) # 0
  BY <1>1, <1>2, FS_EmptySet
<1>4. QED
  BY <1>3 DEF LkInv, WaitsExact

\* lockmgr returns to t: the drains stay asleep only while the lock is active,
\* the others if the flags and the count that are left still block them.
LEMMA ReturnSleeps ==
    ASSUME Known, SleepInv, NEW t \in Threads, NEW flags, NEW n, NEW w,
           NEW s \in SleepTypes, Return(t, flags, n, w, s),
           \A u \in Threads : s[u] # "error" /\ (s[u] = "asleep" => sleep[u] = "asleep"),
           \A u \in Threads : u # t /\ s[u] = "asleep" /\ pc[u] # "drain"
                                => Blocked(pc[u], flags, n),
           "WAITDRAIN" \in lk_flags => "WAITDRAIN" \in flags
    PROVE  SleepInv'
<1> DEFINE quiet == "WAITDRAIN" \in flags /\ ~Active(flags, n, w)
<1>1. /\ lk_flags' = IF quiet THEN flags \ {"WAITDRAIN"} ELSE flags
      /\ lk_sharecount' = n /\ lk_waitcount' = w
      /\ pc' = [pc EXCEPT ![t] = "idle"]
      /\ sleep' = [(IF quiet THEN Woken(s, {"drain"}) ELSE s) EXCEPT ![t] = "run"]
  BY DEF Return
<1>2. /\ sleep'[t] = "run"
      /\ \A u \in Threads : u # t => /\ pc'[u] = pc[u]
                                     /\ sleep'[u] = "asleep" => s[u] = "asleep"
                                     /\ sleep'[u] # "error"
                                     /\ sleep'[u] = "asleep" /\ pc[u] = "drain" => ~quiet
  BY <1>1 DEF Woken, SleepTypes, Known, LkInv, TypeOK
<1>3. \A u \in Threads : sleep'[u] # "error"
  BY <1>2
<1>4. ASSUME NEW u \in Threads, sleep'[u] = "asleep", pc'[u] = "drain"
      PROVE  "WAITDRAIN" \in lk_flags' /\ Active(lk_flags', lk_sharecount', lk_waitcount')
  <2>1. u # t /\ pc[u] = "drain" /\ sleep[u] = "asleep" /\ ~quiet
    BY <1>2, <1>4
  <2>2. "WAITDRAIN" \in lk_flags
    BY <2>1 DEF SleepInv, SleepersBlocked
  <2>3. QED
    BY <1>1, <2>1, <2>2
<1>5. ASSUME NEW u \in Threads, sleep'[u] = "asleep", pc'[u] # "drain"
      PROVE  Blocked(pc'[u], lk_flags', lk_sharecount')
  <2>1. u # t /\ pc'[u] = pc[u] /\ s[u] = "asleep"
    BY <1>2, <1>5
  <2>2. Blocked(pc[u], flags, n)
    BY <1>5, <2>1
  <2>3. \A f \in AnyExcl : f \in lk_flags' <=> f \in flags
    BY <1>1 DEF AnyExcl
  <2>4. Blocked(pc[u], lk_flags', n)
    BY <2>2, <2>3 DEF Blocked, AnyExcl
  <2>5. QED
    BY <1>1, <2>1, <2>4
<1>6. QED
  BY <1>3, <1>4, <1>5 DEF SleepInv, SleepersBlocked

\* t goes to sleep: the flags and the count block the others as before.
LEMMA WaitSleeps ==
    ASSUME Known, SleepInv, NEW t \in Threads, NEW loop \in LkpLoops, NEW flags,
           NEW w \in Nat, Wait(t, loop, flags, lk_sharecount, w, sleep),
           lk_flags \subseteq flags, Blocked(loop, flags, lk_sharecount)
    PROVE  SleepInv'
<1>1. /\ lk_flags' = flags /\ lk_sharecount' = lk_sharecount /\ lk_waitcount' = w + 1
      /\ pc' = [pc EXCEPT ![t] = loop]
      /\ sleep' = [sleep EXCEPT ![t] = "asleep"]
  BY DEF Wait
<1>2. /\ pc'[t] = loop /\ sleep'[t] = "asleep"
      /\ \A u \in Threads : u # t => pc'[u] = pc[u] /\ sleep'[u] = sleep[u]
  BY <1>1 DEF Known, LkInv, TypeOK
<1>3. \A u \in Threads : sleep'[u] # "error"
  BY <1>2 DEF SleepInv
<1>4. Active(lk_flags', lk_sharecount', lk_waitcount')
  BY <1>1 DEF Active
<1>5. ASSUME NEW u \in Threads, sleep'[u] = "asleep", pc'[u] = "drain"
      PROVE  "WAITDRAIN" \in lk_flags'
  BY <1>1, <1>2, <1>5 DEF SleepInv, SleepersBlocked, LkpLoops
<1>6. ASSUME NEW u \in Threads, sleep'[u] = "asleep", pc'[u] # "drain"
      PROVE  Blocked(pc'[u], lk_flags', lk_sharecount')
  <2>1. CASE u = t
    BY <1>1, <1>2, <2>1
  <2>2. CASE u # t
    <3>1. Blocked(pc[u], lk_flags, lk_sharecount) /\ pc'[u] = pc[u]
      BY <1>2, <1>6, <2>2 DEF SleepInv, SleepersBlocked
    <3>2. Blocked(pc[u], flags, lk_sharecount)
      BY <3>1 DEF Blocked
    <3>3. QED
      BY <1>1, <3>1, <3>2
  <2>3. QED
    BY <2>1, <2>2
<1>7. QED
  BY <1>3, <1>4, <1>5, <1>6 DEF SleepInv, SleepersBlocked

\* t gets the exclusive lock and gives up LK_WANT_EXCL, for which nobody else
\* waits in the second loop.
LEMMA TakeSleeps ==
    ASSUME Known, SleepInv, NEW t \in Threads, NEW flags, NEW n, NEW w,
           TakeExcl(t, flags, n, w, sleep), lk_flags \ {"WANT_EXCL"} \subseteq flags,
           \A u \in Threads : u # t => pc[u] # "ex2"
    PROVE  SleepInv'
<1> DEFINE held == flags \cup {"HAVE_EXCL"}
<1>1. Return(t, held, n, w, sleep)
  BY DEF TakeExcl
<1>2. \A u \in Threads : u # t /\ sleep[u] = "asleep" /\ pc[u] # "drain"
                           => Blocked(pc[u], held, n)
  <2>1. SUFFICES ASSUME NEW u \in Threads, u # t, sleep[u] = "asleep", pc[u] # "drain"
                 PROVE  Blocked(pc[u], held, n)
    OBVIOUS
  <2>2. Blocked(pc[u], lk_flags, lk_sharecount)
    BY <2>1 DEF SleepInv, SleepersBlocked
  <2>3. pc[u] \in {"sh", "ex1"}
    BY <2>1, <2>2, NoUpgradeFlag DEF Blocked
  <2>4. QED
    BY <2>3 DEF Blocked, AnyExcl
<1>3. "WAITDRAIN" \in lk_flags => "WAITDRAIN" \in held
  OBVIOUS
<1>4. sleep \in SleepTypes
  BY WakeTypes DEF Known
<1> HIDE DEF held
<1>5. QED
  BY <1>1, <1>2, <1>3, <1>4, ReturnSleeps DEF SleepInv

LEMMA SharedSleeps ==
    ASSUME Known, SleepInv, NEW t \in Threads, NEW w \in Nat, AcquireShared(t, w)
    PROVE  SleepInv'
<1>1. CASE Blocked("sh", lk_flags, lk_sharecount)
  BY <1>1, WaitSleeps DEF AcquireShared, LkpLoops
<1>2. CASE ~Blocked("sh", lk_flags, lk_sharecount)
  <2>1. Return(t, lk_flags, lk_sharecount + 1, w, sleep)
    BY <1>2 DEF AcquireShared
  <2>2. \A u \in Threads : sleep[u] = "asleep" /\ pc[u] # "drain"
                             => Blocked(pc[u], lk_flags, lk_sharecount + 1)
    <3>1. SUFFICES ASSUME NEW u \in Threads, sleep[u] = "asleep", pc[u] # "drain"
                   PROVE  Blocked(pc[u], lk_flags, lk_sharecount + 1)
      OBVIOUS
    <3>2. Blocked(pc[u], lk_flags, lk_sharecount)
      BY <3>1 DEF SleepInv, SleepersBlocked
    <3>3. lk_sharecount \in Nat
      BY DEF Known, LkInv, TypeOK
    <3>4. QED
      BY <3>2, <3>3 DEF Blocked
  <2>3. sleep \in SleepTypes
    BY WakeTypes DEF Known
  <2>4. QED
    BY <2>1, <2>2, <2>3, ReturnSleeps DEF SleepInv
<1>3. QED
  BY <1>1, <1>2

LEMMA Excl2Sleeps ==
    ASSUME Known, SleepInv, NEW t \in Threads, NEW flags, NEW w \in Nat,
           AcquireExcl2(t, flags, lk_sharecount, w, sleep), lk_flags \subseteq flags,
           \A u \in Threads : u # t => pc[u] # "ex2"
    PROVE  SleepInv'
<1>1. CASE Blocked("ex2", flags, lk_sharecount)
  BY <1>1, WaitSleeps DEF AcquireExcl2, LkpLoops
<1>2. CASE ~Blocked("ex2", flags, lk_sharecount)
  <2>1. TakeExcl(t, flags \ {"WANT_EXCL"}, lk_sharecount, w, sleep)
    BY <1>2 DEF AcquireExcl2
  <2>2. lk_flags \ {"WANT_EXCL"} \subseteq flags \ {"WANT_EXCL"}
    OBVIOUS
  <2>3. QED
    BY <2>1, <2>2, TakeSleeps
<1>3. QED
  BY <1>1, <1>2

LEMMA Excl1Sleeps ==
    ASSUME Known, SleepInv, NEW t \in Threads, NEW w \in Nat,
           AcquireExcl1(t, lk_flags, lk_sharecount, w, sleep)
    PROVE  SleepInv'
<1>1. CASE Blocked("ex1", lk_flags, lk_sharecount)
  BY <1>1, WaitSleeps DEF AcquireExcl1, LkpLoops
<1>2. CASE ~Blocked("ex1", lk_flags, lk_sharecount)
  <2>1. AcquireExcl2(t, lk_flags \cup {"WANT_EXCL"}, lk_sharecount, w, sleep)
    BY <1>2 DEF AcquireExcl1
  <2>2. "WANT_EXCL" \notin lk_flags
    BY <1>2 DEF Blocked
  <2>3. \A u \in Threads : pc[u] # "ex2"
    BY <2>2 DEF Known, LkInv, FlagsOwned
  <2>4. QED
    BY <2>1, <2>3, Excl2Sleeps
<1>3. QED
  BY <1>1, <1>2

LEMMA DrainSleeps ==
    ASSUME Known, SleepInv, NEW t \in Threads, AcquireDrain(t)
    PROVE  SleepInv'
<1>1. pc \in [Threads -> {"idle"} \cup Loops] /\ sleep \in SleepTypes
  BY WakeTypes DEF Known, LkInv, TypeOK
<1>2. CASE Active(lk_flags, lk_sharecount, lk_waitcount)
  <2>1. /\ lk_flags' = lk_flags \cup {"WAITDRAIN"}
        /\ pc' = [pc EXCEPT ![t] = "drain"]
        /\ sleep' = [sleep EXCEPT ![t] = "asleep"]
        /\ UNCHANGED <<lk_sharecount, lk_waitcount>>
    BY <1>2 DEF AcquireDrain
  <2>2. /\ pc'[t] = "drain"
        /\ \A u \in Threads : u # t => pc'[u] = pc[u] /\ sleep'[u] = sleep[u]
        /\ \A u \in Threads : sleep'[u] # "error"
    BY <1>1, <2>1 DEF SleepInv, SleepTypes
  <2>3. Active(lk_flags', lk_sharecount', lk_waitcount')
    BY <1>2, <2>1 DEF Active
  <2>4. ASSUME NEW u \in Threads, sleep'[u] = "asleep", pc'[u] # "drain"
        PROVE  Blocked(pc'[u], lk_flags', lk_sharecount')
    <3>1. Blocked(pc[u], lk_flags, lk_sharecount) /\ pc'[u] = pc[u]
      BY <2>2, <2>4 DEF SleepInv, SleepersBlocked
    <3>2. QED
      BY <2>1, <3>1 DEF Blocked
  <2>5. QED
    BY <2>1, <2>2, <2>3, <2>4 DEF SleepInv, SleepersBlocked
<1>3. CASE ~Active(lk_flags, lk_sharecount, lk_waitcount)
  <2>1. \A u \in Threads : sleep[u] # "asleep"
    <3>1. SUFFICES ASSUME NEW u \in Threads, sleep[u] = "asleep" PROVE FALSE
      OBVIOUS
    <3>2. pc[u] # "drain"
      BY <1>3, <3>1 DEF SleepInv, SleepersBlocked
    <3>3. pc[u] \notin LkpLoops
      BY <1>3, DrainQuiet DEF Known
    <3>4. Blocked(pc[u], lk_flags, lk_sharecount)
      BY <3>1, <3>2 DEF SleepInv, SleepersBlocked
    <3>5. QED
      BY <3>3, <3>4 DEF Blocked, LkpLoops
  <2>2. sleep' = [sleep EXCEPT ![t] = "run"]
    BY <1>3 DEF AcquireDrain
  <2>3. \A u \in Threads : sleep'[u] # "asleep" /\ sleep'[u] # "error"
    BY <1>1, <2>1, <2>2 DEF SleepTypes, SleepInv
  <2>4. QED
    BY <2>3 DEF SleepInv, SleepersBlocked
<1>4. QED
  BY <1>2, <1>3

\* Whoever gives up a lock wakes everybody who sleeps for it.
LEMMA WakeSleeps ==
    ASSUME Known, SleepInv, NEW t \in Threads, NEW flags, NEW n,
           Return(t, flags, n, lk_waitcount, WakeWaiters(sleep, lk_waitcount)),
           "WAITDRAIN" \in lk_flags => "WAITDRAIN" \in flags
    PROVE  SleepInv'
<1> DEFINE s == WakeWaiters(sleep, lk_waitcount)
<1>1. s \in SleepTypes /\ sleep \in SleepTypes
  BY WakeTypes DEF Known
<1>2. \A u \in Threads : s[u] # "error" /\ (s[u] = "asleep" => sleep[u] = "asleep")
  BY <1>1 DEF WakeWaiters, Woken, SleepInv, SleepTypes
<1>3. \A u \in Threads : s[u] = "asleep" => pc[u] = "drain"
  <2>1. SUFFICES ASSUME NEW u \in Threads, s[u] = "asleep", pc[u] # "drain" PROVE FALSE
    OBVIOUS
  <2>2. sleep[u] = "asleep"
    BY <1>2, <2>1
  <2>3. Blocked(pc[u], lk_flags, lk_sharecount)
    BY <2>1, <2>2 DEF SleepInv, SleepersBlocked
  <2>4. pc[u] \in LkpLoops
    BY <2>3 DEF Blocked, LkpLoops
  <2>5. lk_waitcount # 0
    BY <2>4, SleeperCounted DEF Known
  <2>6. QED
    BY <2>1, <2>2, <2>4, <2>5 DEF WakeWaiters, Woken
<1> HIDE DEF s
<1>4. Return(t, flags, n, lk_waitcount, s)
  BY DEF s
<1>5. QED
  BY <1>1, <1>2, <1>3, <1>4, ReturnSleeps

LEMMA RequestSleeps ==
    ASSUME KernelUse, Known, SleepInv, NEW t \in Threads, Request(t)
    PROVE  SleepInv'
<1>0. lk_waitcount \in Nat /\ sleep \in SleepTypes
  BY WakeTypes DEF Known, LkInv, TypeOK
<1>1. CASE LK_SHARED_holder(t) \/ LK_DOWNGRADE(t)
  <2>1. \E n : Return(t, lk_flags \ {"HAVE_EXCL"}, n, lk_waitcount,
                      WakeWaiters(sleep, lk_waitcount))
    BY <1>1 DEF LK_SHARED_holder, LK_DOWNGRADE, Downgrade
  <2>2. QED
    BY <2>1, WakeSleeps
<1>2. CASE LK_EXCLUPGRADE_fails(t)
  BY <1>2 DEF LK_EXCLUPGRADE_fails, Call, NoUpgrades, KernelUse
<1>3. CASE LK_EXCLUSIVE_recursive(t)
  <2>1. Return(t, lk_flags, lk_sharecount, lk_waitcount, sleep)
    BY <1>3 DEF LK_EXCLUSIVE_recursive
  <2>2. QED
    BY <1>0, <2>1, ReturnSleeps DEF SleepInv, SleepersBlocked
<1>4. CASE LK_RELEASE(t)
  <2>1. \/ ReleaseForeign
        \/ \E flags, n : /\ Return(t, flags, n, lk_waitcount,
                                   WakeWaiters(sleep, lk_waitcount))
                         /\ "WAITDRAIN" \in lk_flags => "WAITDRAIN" \in flags
    BY <1>4 DEF LK_RELEASE, ReleaseExcl, ReleaseShared
  <2>2. CASE ReleaseForeign
    BY <2>2 DEF ReleaseForeign, SleepInv, SleepersBlocked, fields
  <2>3. QED
    BY <2>1, <2>2, WakeSleeps
<1>5. ASSUME NEW x, LK_SHARED(t, x) PROVE SleepInv'
  BY <1>0, <1>5, SharedSleeps DEF LK_SHARED
<1>6. ASSUME NEW x, LK_EXCLUSIVE(t, x) PROVE SleepInv'
  BY <1>0, <1>6, Excl1Sleeps DEF LK_EXCLUSIVE
<1>7. ASSUME NEW x, LK_DRAIN(t, x) PROVE SleepInv'
  BY <1>7, DrainSleeps DEF LK_DRAIN
<1>8. ASSUME NEW x, NEW request \in {"UPGRADE", "EXCLUPGRADE"},
             LK_UPGRADE_polls(t, request, x) \/ LK_UPGRADE_first(t, request, x)
      PROVE  SleepInv'
  BY <1>8 DEF LK_UPGRADE_polls, LK_UPGRADE_first, Call, NoUpgrades, KernelUse
<1>9. ASSUME NEW x, LK_UPGRADE_second(t, x) PROVE SleepInv'
  BY <1>9 DEF LK_UPGRADE_second, Call, NoUpgrades, KernelUse
<1>10. QED
  BY <1>1, <1>2, <1>3, <1>4, <1>5, <1>6, <1>7, <1>8, <1>9 DEF Request

LEMMA ResumeSleeps ==
    ASSUME Known, SleepInv, NEW t \in Threads, Resume(t)
    PROVE  SleepInv'
<1>1. pc[t] \in LkpLoops => lk_waitcount - 1 \in Nat
  <2>1. lk_waitcount \in Nat
    BY DEF Known, LkInv, TypeOK
  <2>2. QED
    BY <2>1, SleeperCounted DEF Known
<1>2. CASE pc[t] = "sh"
  BY <1>1, <1>2, SharedSleeps DEF Resume, LkpLoops
<1>3. CASE pc[t] = "ex1"
  BY <1>1, <1>3, Excl1Sleeps DEF Resume, LkpLoops
<1>4. CASE pc[t] = "ex2"
  <2>1. AcquireExcl2(t, lk_flags, lk_sharecount, lk_waitcount - 1, sleep)
    BY <1>4 DEF Resume
  <2>2. \A u \in Threads : u # t => pc[u] # "ex2"
    BY <1>4 DEF Known, LkInv, OneWant
  <2>3. QED
    BY <1>1, <1>4, <2>1, <2>2, Excl2Sleeps DEF LkpLoops
<1>5. CASE pc[t] = "drain"
  BY <1>5, DrainSleeps DEF Resume
<1>6. CASE pc[t] = "up"
  BY <1>6, NoUpgradeFlag
<1>7. QED
  BY <1>2, <1>3, <1>4, <1>5, <1>6 DEF Resume

\* No wakeup is lost in a kernel that upgrades no lock and whose sleeps do not
\* fail: a thread that sleeps in lockmgr waits for a lock that is held or
\* claimed, and a thread that sleeps in LK_DRAIN will be told.
THEOREM NoLostWakeup == ASSUME KernelUse PROVE Spec => []SleepersBlocked
<1>1. Init => SleepInv
  BY DEF Init, SleepInv, SleepersBlocked
<1>2. Known /\ SleepInv /\ [Next]_vars => SleepInv'
  <2> SUFFICES ASSUME Known, SleepInv, [Next]_vars PROVE SleepInv'
    OBVIOUS
  <2>1. ASSUME NEW t \in Threads PROVE ~Disturb(t) /\ ~SleepFails(t)
    BY DEF Disturb, SleepFails, KernelUse, SleepInv, Known, LkInv, TypeOK
  <2>2. CASE UNCHANGED vars
    BY <2>2 DEF vars, fields, SleepInv, SleepersBlocked
  <2>3. QED
    BY <2>1, <2>2, RequestSleeps, ResumeSleeps DEF Next
<1>3. Spec => []Known
  <2>1. NoUpgrades
    BY DEF KernelUse
  <2>2. Spec => []ExclInv
    BY <2>1, ExclInvariance
  <2>3. QED
    BY <2>2, LkInvariance, PTL DEF Known
<1>4. SleepInv => SleepersBlocked
  BY DEF SleepInv
<1>5. QED
  BY <1>1, <1>2, <1>3, <1>4, PTL DEF Spec
=============================================================================
