------------------------- MODULE HubServices_proofs -------------------------
(***************************************************************************)
(* Safety of the hub's services, for any configurations.                   *)
(*                                                                         *)
(* WorkerPool: RegistryTruthful is inductive with the types.               *)
(* SlotsAccounted counts places in the code: each step moves one call, so  *)
(* that each counter follows the set of the calls at its places (Counted). *)
(* SessionWatcher: a change is on its way or given up, also while no hub   *)
(* watches (Remembered).  HubRouting: what a digest is recorded for, or    *)
(* will be, is trusted (Consented); what is registered is what the file    *)
(* lists under the key (Listed).                                           *)
(* Watchdog: the repair's loop follows a reader of the text, character by  *)
(* character (Follows), and the closers it adds close what the reader has  *)
(* open (ClosersClose); by induction, as least numbers that fail.          *)
(***************************************************************************)
EXTENDS WorkerPool, SessionWatcher, HubRouting, Watchdog,
        FiniteSetTheorems, SequenceTheorems, WellFoundedInduction, TLAPS

\* The calls of a kind that hold a slot, and those that wait for one.
Holding == [k \in Kinds |-> {c \in Callers : KindOf[c] = k /\ HoldsSlot(c)}]
InQueue == [k \in Kinds |-> {c \in Callers : KindOf[c] = k /\ IsQueued(c)}]

\* A counter per kind tells the sizes of a set per kind.
Counts(f, S) == f \in [Kinds -> Nat] /\ \A k \in Kinds : f[k] = Cardinality(S[k])

Counted ==
  /\ Counts(slots, Holding) /\ Counts(queued, InQueue) /\ active = slots
  /\ \A k \in Kinds : slots[k] <= Limit[k]

-----------------------------------------------------------------------------
(* Counting.                                                                *)

LEMMA Finite ==
  ASSUME NEW k \in Kinds
  PROVE  IsFiniteSet(Holding[k]) /\ IsFiniteSet(InQueue[k])
<1>1. Holding[k] \in SUBSET Callers /\ InQueue[k] \in SUBSET Callers
  BY DEF Holding, InQueue
<1> QED
  BY <1>1, FS_Subset, PoolAssumption

\* A call enters the set of its kind, or leaves it.
LEMMA AddCounts ==
  ASSUME NEW f, NEW S, NEW T, Counts(f, S), NEW c \in Callers,
         \A k \in Kinds : IsFiniteSet(S[k]), c \notin S[KindOf[c]],
         T[KindOf[c]] = S[KindOf[c]] \cup {c}, \A k \in Kinds \ {KindOf[c]} : T[k] = S[k]
  PROVE  Counts(Add(f, c), T)
<1>1. KindOf[c] \in Kinds
  BY PoolAssumption
<1>2. Cardinality(T[KindOf[c]]) = Cardinality(S[KindOf[c]]) + 1
  BY <1>1, FS_AddElement
<1>3. f \in [Kinds -> Nat] /\ Add(f, c) \in [Kinds -> Nat]
  BY <1>1 DEF Counts, Add
<1>4. \A k \in Kinds : Add(f, c)[k] = IF k = KindOf[c] THEN f[k] + 1 ELSE f[k]
  BY <1>1, <1>3 DEF Add
<1>5. \A k \in Kinds : Add(f, c)[k] = Cardinality(T[k])
  BY <1>2, <1>4 DEF Counts
<1> QED
  BY <1>3, <1>5 DEF Counts

LEMMA TakeCounts ==
  ASSUME NEW f, NEW S, NEW T, Counts(f, S), NEW c \in Callers,
         \A k \in Kinds : IsFiniteSet(S[k]), c \in S[KindOf[c]],
         T[KindOf[c]] = S[KindOf[c]] \ {c}, \A k \in Kinds \ {KindOf[c]} : T[k] = S[k]
  PROVE  Counts(Take(f, c), T)
<1>1. KindOf[c] \in Kinds
  BY PoolAssumption
<1>2. /\ IsFiniteSet(T[KindOf[c]])
      /\ Cardinality(T[KindOf[c]]) = Cardinality(S[KindOf[c]]) - 1
  BY <1>1, FS_RemoveElement
<1>3. Cardinality(T[KindOf[c]]) \in Nat
  BY <1>2, FS_CardinalityType
<1> QED
  BY <1>1, <1>2, <1>3 DEF Counts, Take

-----------------------------------------------------------------------------
(* Types.                                                                   *)

Registers ==
  /\ worker \in [Callers -> WorkerIds \cup {Nobody}]
  /\ registry \in [DOMAIN registry -> Callers] /\ DOMAIN registry \subseteq WorkerIds

Places == {"idle", "throttle", "asleep", "select", "error", "refusing", "register", "call",
           "answer", "writing", "unregister", "release"}

Placed == at \in [Callers -> Places] /\ Registers

LEMMA PlacedInit == PoolInit => Placed
  BY DEF PoolInit, Placed, Places, Registers

LEMMA DelistTyped ==
  ASSUME Registers, NEW i, Delist(i)
  PROVE  registry' \in [DOMAIN registry' -> Callers] /\ DOMAIN registry' \subseteq WorkerIds
  BY DEF Registers, Delist

\* What a step of one call leaves alone.
LEMMA PlacedStep == Placed /\ [PoolNext]_poolVars => Placed'
<1> SUFFICES ASSUME Placed, [PoolNext]_poolVars
             PROVE  Placed'
  OBVIOUS
<1> USE DEF bucket, gauges, listed, Move, Places
<1>1. ASSUME NEW c \in Callers,
             Call(c) \/ Throttle(c) \/ Wake(c) \/ TakeSlot(c) \/ Refused(c)
      PROVE  Placed'
  BY <1>1 DEF Call, Throttle, Wake, TakeSlot, Refused, Enqueue, Placed, Registers
<1>2. ASSUME NEW c \in Callers, Register(c)
      PROVE  Placed'
  BY <1>2 DEF Register, Placed, Registers
<1>3. ASSUME NEW c \in Callers,
             ToolAnswers(c) \/ ContextOver(c) \/ LockWriter(c) \/ Written(c) \/ CallReturns(c)
      PROVE  Placed'
  BY <1>3 DEF ToolAnswers, ContextOver, LockWriter, Written, CallReturns, Placed, Registers
<1>4. ASSUME NEW c \in Callers, Unregister(c)
      PROVE  Placed'
  BY <1>4, DelistTyped DEF Unregister, Placed, Registers
<1>5. CASE KillCancel
  BY <1>5, DelistTyped DEF KillCancel, Placed, Registers
<1>6. ASSUME \/ \E c \in Callers : StepDeadline(c) \/ Stall(c)
             \/ \E i \in WorkerIds : KillLookup(i)
             \/ PoolTick \/ UNCHANGED poolVars
      PROVE  Placed'
  BY <1>6 DEF StepDeadline, Stall, KillLookup, PoolTick, poolVars, Placed, Registers
<1> QED
  BY <1>1, <1>2, <1>3, <1>4, <1>5, <1>6 DEF PoolNext, CallStep

-----------------------------------------------------------------------------
(* The registry.                                                            *)

LEMMA TruthfulInit == PoolInit => RegistryTruthful
  BY DEF PoolInit, RegistryTruthful

LEMMA TruthfulStep == Placed /\ RegistryTruthful /\ [PoolNext]_poolVars => RegistryTruthful'
<1> SUFFICES ASSUME Placed, RegistryTruthful, [PoolNext]_poolVars
             PROVE  RegistryTruthful'
  OBVIOUS
<1> USE DEF bucket, gauges, listed, Move
\* A call moves that is not listed before, or stays where listed calls are.
<1>1. ASSUME NEW c \in Callers, UNCHANGED <<worker, registry>>,
             \A d \in Callers \ {c} : at'[d] = at[d],
             at[c] \in {"call", "answer", "writing", "unregister"} =>
               at'[c] \in {"call", "answer", "writing", "unregister"}
      PROVE  RegistryTruthful'
  BY <1>1 DEF Placed, Registers, RegistryTruthful
<1>2. ASSUME NEW c \in Callers,
             \/ Call(c) \/ Throttle(c) \/ Wake(c) \/ TakeSlot(c) \/ Refused(c)
             \/ ToolAnswers(c) \/ ContextOver(c) \/ LockWriter(c) \/ Written(c) \/ CallReturns(c)
      PROVE  RegistryTruthful'
  <2>1. /\ UNCHANGED <<worker, registry>> /\ \A d \in Callers \ {c} : at'[d] = at[d]
        /\ at[c] \in {"call", "answer", "writing", "unregister"} =>
             at'[c] \in {"call", "answer", "writing", "unregister"}
    BY <1>2 DEF Call, Throttle, Wake, TakeSlot, Refused, Enqueue, ToolAnswers, ContextOver,
                LockWriter, Written, CallReturns, Placed
  <2> QED
    BY <1>1, <2>1
<1>3. ASSUME NEW c \in Callers, Register(c)
      PROVE  RegistryTruthful'
  <2> PICK i \in WorkerIds :
        /\ worker' = [worker EXCEPT ![c] = i]
        /\ registry' = [j \in DOMAIN registry \cup {i} |-> IF j = i THEN c ELSE registry[j]]
    BY <1>3 DEF Register
  <2>1. \A j \in DOMAIN registry : registry[j] \in Callers \ {c}
    BY <1>3 DEF Register, Placed, Registers, RegistryTruthful
  <2> QED
    BY <1>3, <2>1 DEF Register, Placed, Registers, RegistryTruthful
<1>4. ASSUME NEW c \in Callers, Unregister(c)
      PROVE  RegistryTruthful'
  <2>1. /\ DOMAIN registry' = DOMAIN registry \ {worker[c]}
        /\ \A j \in DOMAIN registry' : registry'[j] = registry[j]
    BY <1>4 DEF Unregister, Delist
  <2>2. \A j \in DOMAIN registry' : registry[j] \in Callers \ {c}
    BY <2>1 DEF Placed, Registers, RegistryTruthful
  <2> QED
    BY <1>4, <2>1, <2>2 DEF Unregister, Placed, RegistryTruthful
<1>5. CASE KillCancel
  BY <1>5 DEF KillCancel, Delist, RegistryTruthful
<1>6. ASSUME \/ \E c \in Callers : StepDeadline(c) \/ Stall(c)
             \/ \E i \in WorkerIds : KillLookup(i)
             \/ PoolTick \/ UNCHANGED poolVars
      PROVE  RegistryTruthful'
  <2>1. UNCHANGED <<at, worker, registry>>
    BY <1>6 DEF StepDeadline, Stall, KillLookup, PoolTick, poolVars
  <2> QED
    BY <2>1 DEF RegistryTruthful
<1> QED
  BY <1>2, <1>3, <1>4, <1>5, <1>6 DEF PoolNext, CallStep

-----------------------------------------------------------------------------
(* The slots.                                                               *)

LEMMA CountedInit == PoolInit => Counted
<1> SUFFICES ASSUME PoolInit
             PROVE  Counted
  OBVIOUS
<1>1. \A k \in Kinds : Holding[k] = {} /\ InQueue[k] = {}
  BY DEF PoolInit, Holding, InQueue, HoldsSlot, IsQueued
<1>2. Cardinality({}) = 0
  BY FS_EmptySet
<1>3. slots \in [Kinds -> Nat] /\ \A k \in Kinds : slots[k] = 0 /\ slots[k] <= Limit[k]
  BY PoolAssumption DEF PoolInit
<1>4. queued = slots /\ active = slots
  BY DEF PoolInit
<1> QED
  BY <1>1, <1>2, <1>3, <1>4 DEF Counted, Counts

\* Where a call's move leaves the sets of its kind.
LEMMA Moved ==
  ASSUME Placed, NEW c \in Callers, NEW l \in Places, Move(c, l)
  PROVE  at'[c] = l /\ \A d \in Callers \ {c} : at'[d] = at[d]
  BY DEF Placed, Move

LEMMA HoldingMoved ==
  ASSUME Placed, NEW c \in Callers, NEW l \in Places, Move(c, l)
  PROVE  /\ (HoldsSlot(c)' <=> HoldsSlot(c)) => \A k \in Kinds : Holding'[k] = Holding[k]
         /\ \A k \in Kinds \ {KindOf[c]} : Holding'[k] = Holding[k]
         /\ HoldsSlot(c)' => Holding'[KindOf[c]] = Holding[KindOf[c]] \cup {c}
         /\ ~HoldsSlot(c)' => Holding'[KindOf[c]] = Holding[KindOf[c]] \ {c}
<1>1. \A d \in Callers \ {c} : HoldsSlot(d)' <=> HoldsSlot(d)
  BY Moved DEF HoldsSlot
<1> QED
  BY <1>1, PoolAssumption DEF Holding

LEMMA QueueMoved ==
  ASSUME Placed, NEW c \in Callers, NEW l \in Places, Move(c, l)
  PROVE  /\ (IsQueued(c)' <=> IsQueued(c)) => \A k \in Kinds : InQueue'[k] = InQueue[k]
         /\ \A k \in Kinds \ {KindOf[c]} : InQueue'[k] = InQueue[k]
         /\ IsQueued(c)' => InQueue'[KindOf[c]] = InQueue[KindOf[c]] \cup {c}
         /\ ~IsQueued(c)' => InQueue'[KindOf[c]] = InQueue[KindOf[c]] \ {c}
<1>1. \A d \in Callers \ {c} : IsQueued(d)' <=> IsQueued(d)
  BY Moved DEF IsQueued
<1> QED
  BY <1>1, PoolAssumption DEF InQueue

\* A call moves without a slot or a place in the queue, or keeps what it has.
LEMMA MoveCounted ==
  ASSUME Placed, Counted, NEW c \in Callers, NEW l \in Places, Move(c, l),
         HoldsSlot(c)' <=> HoldsSlot(c), IsQueued(c)' <=> IsQueued(c), UNCHANGED gauges
  PROVE  Counted'
<1>1. \A k \in Kinds : Holding'[k] = Holding[k] /\ InQueue'[k] = InQueue[k]
  BY HoldingMoved, QueueMoved
<1> QED
  BY <1>1 DEF Counted, Counts, gauges

LEMMA EnqueueCounted ==
  ASSUME Placed, Counted, NEW c \in Callers, at[c] \in {"throttle", "asleep"}, Enqueue(c),
         UNCHANGED <<slots, active>>
  PROVE  Counted'
<1>1. Move(c, "select") /\ "select" \in Places /\ queued' = Add(queued, c)
  BY DEF Enqueue, Places
<1>0. ~HoldsSlot(c) /\ ~HoldsSlot(c)' /\ IsQueued(c)'
  BY <1>1, Moved DEF HoldsSlot, IsQueued
<1>2. /\ \A k \in Kinds : Holding'[k] = Holding[k]
      /\ InQueue'[KindOf[c]] = InQueue[KindOf[c]] \cup {c}
      /\ \A k \in Kinds \ {KindOf[c]} : InQueue'[k] = InQueue[k]
  BY <1>0, <1>1, HoldingMoved, QueueMoved
<1>3. c \notin InQueue[KindOf[c]]
  BY PoolAssumption DEF InQueue, IsQueued
<1>4. Counts(queued', InQueue')
  <2>1. Counts(queued, InQueue) /\ \A k \in Kinds : IsFiniteSet(InQueue[k])
    BY Finite DEF Counted
  <2> QED
    BY <1>1, <1>2, <1>3, <2>1, AddCounts
<1> QED
  BY <1>2, <1>4 DEF Counted, Counts

LEMMA CountedStep == Placed /\ Counted /\ [PoolNext]_poolVars => Counted'
<1> SUFFICES ASSUME Placed, Counted, [PoolNext]_poolVars
             PROVE  Counted'
  OBVIOUS
<1> USE DEF bucket, listed
<1>1. ASSUME NEW c \in Callers,
             \/ Call(c) \/ Register(c) \/ ToolAnswers(c) \/ ContextOver(c) \/ LockWriter(c)
             \/ Written(c) \/ Unregister(c)
      PROVE  Counted'
  <2>1. PICK l \in Places : Move(c, l) /\ UNCHANGED gauges
               /\ (l \in {"register", "call", "answer", "writing", "unregister", "release"}
                     <=> HoldsSlot(c))
               /\ l # "select" /\ ~IsQueued(c)
    BY <1>1 DEF Call, Register, ToolAnswers, ContextOver, LockWriter, Written, Unregister,
                Places, HoldsSlot, IsQueued, gauges
  <2>2. at'[c] = l
    BY <2>1 DEF Placed, Move
  <2> QED
    BY <2>1, <2>2, MoveCounted DEF HoldsSlot, IsQueued
<1>2. ASSUME NEW c \in Callers, Throttle(c)
      PROVE  Counted'
  <2>1. CASE Enqueue(c)
    BY <1>2, <2>1, EnqueueCounted DEF Throttle
  <2>2. CASE Move(c, "asleep") /\ UNCHANGED queued
    <3>1. at'[c] = "asleep" /\ at[c] = "throttle" /\ UNCHANGED gauges
      BY <1>2, <2>2 DEF Throttle, Placed, Move, gauges
    <3> QED
      BY <2>2, <3>1, MoveCounted DEF Places, HoldsSlot, IsQueued
  <2> QED
    BY <1>2, <2>1, <2>2 DEF Throttle
<1>3. ASSUME NEW c \in Callers, Wake(c)
      PROVE  Counted'
  BY <1>3, EnqueueCounted DEF Wake
<1>4. ASSUME NEW c \in Callers, TakeSlot(c)
      PROVE  Counted'
  <2>1. Move(c, "register") /\ "register" \in Places
    BY <1>4 DEF TakeSlot, Places
  <2>2. /\ c \notin Holding[KindOf[c]] /\ c \in InQueue[KindOf[c]]
        /\ slots' = Add(slots, c) /\ active' = Add(active, c) /\ queued' = Take(queued, c)
    BY <1>4, PoolAssumption DEF TakeSlot, Holding, InQueue, HoldsSlot, IsQueued
  <2>3. /\ Holding'[KindOf[c]] = Holding[KindOf[c]] \cup {c}
        /\ InQueue'[KindOf[c]] = InQueue[KindOf[c]] \ {c}
        /\ \A k \in Kinds \ {KindOf[c]} : Holding'[k] = Holding[k] /\ InQueue'[k] = InQueue[k]
    <3>1. HoldsSlot(c)' /\ ~IsQueued(c)'
      BY <2>1, Moved DEF HoldsSlot, IsQueued
    <3> QED
      BY <2>1, <3>1, HoldingMoved, QueueMoved
  <2>4. Counts(slots', Holding') /\ Counts(queued', InQueue')
    <3>1. /\ Counts(slots, Holding) /\ \A k \in Kinds : IsFiniteSet(Holding[k])
          /\ Counts(queued, InQueue) /\ \A k \in Kinds : IsFiniteSet(InQueue[k])
      BY Finite DEF Counted
    <3>2. Counts(slots', Holding')
      BY <2>2, <2>3, <3>1, AddCounts
    <3>3. Counts(queued', InQueue')
      BY <2>2, <2>3, <3>1, TakeCounts
    <3> QED
      BY <3>2, <3>3
  <2>5. \A k \in Kinds : slots'[k] <= Limit[k]
    <3>1. slots \in [Kinds -> Nat] /\ Limit \in [Kinds -> Nat] /\ KindOf[c] \in Kinds
      BY PoolAssumption DEF Counted, Counts
    <3>2. slots[KindOf[c]] < Limit[KindOf[c]] /\ \A k \in Kinds : slots[k] <= Limit[k]
      BY <1>4 DEF TakeSlot, Counted
    <3>3. \A k \in Kinds : slots'[k] = IF k = KindOf[c] THEN slots[k] + 1 ELSE slots[k]
      BY <2>2, <3>1 DEF Add
    <3> QED
      BY <3>1, <3>2, <3>3
  <2> QED
    BY <2>2, <2>4, <2>5 DEF Counted, Add
<1>5. ASSUME NEW c \in Callers, Refused(c)
      PROVE  Counted'
  <2>1. Move(c, "error") /\ "error" \in Places
    BY <1>5 DEF Refused, Places
  <2>2. c \in InQueue[KindOf[c]] /\ queued' = Take(queued, c) /\ UNCHANGED <<slots, active>>
    BY <1>5, PoolAssumption DEF Refused, InQueue, IsQueued
  <2>3. /\ \A k \in Kinds : Holding'[k] = Holding[k]
        /\ InQueue'[KindOf[c]] = InQueue[KindOf[c]] \ {c}
        /\ \A k \in Kinds \ {KindOf[c]} : InQueue'[k] = InQueue[k]
    <3>1. ~HoldsSlot(c) /\ ~HoldsSlot(c)' /\ ~IsQueued(c)'
      BY <1>5, <2>1, Moved DEF Refused, HoldsSlot, IsQueued
    <3> QED
      BY <2>1, <3>1, HoldingMoved, QueueMoved
  <2>4. Counts(queued', InQueue')
    <3>1. Counts(queued, InQueue) /\ \A k \in Kinds : IsFiniteSet(InQueue[k])
      BY Finite DEF Counted
    <3> QED
      BY <2>2, <2>3, <3>1, TakeCounts
  <2> QED
    BY <2>2, <2>3, <2>4 DEF Counted, Counts
<1>6. ASSUME NEW c \in Callers, CallReturns(c)
      PROVE  Counted'
  <2>1. Move(c, "idle") /\ "idle" \in Places
    BY <1>6 DEF CallReturns, Places
  <2>2. /\ c \in Holding[KindOf[c]]
        /\ slots' = Take(slots, c) /\ active' = Take(active, c) /\ UNCHANGED queued
    BY <1>6, PoolAssumption DEF CallReturns, Holding, HoldsSlot
  <2>3. /\ Holding'[KindOf[c]] = Holding[KindOf[c]] \ {c}
        /\ \A k \in Kinds \ {KindOf[c]} : Holding'[k] = Holding[k]
        /\ \A k \in Kinds : InQueue'[k] = InQueue[k]
    <3>1. ~IsQueued(c) /\ ~IsQueued(c)' /\ ~HoldsSlot(c)'
      BY <1>6, <2>1, Moved DEF CallReturns, HoldsSlot, IsQueued
    <3> QED
      BY <2>1, <3>1, HoldingMoved, QueueMoved
  <2>4. Counts(slots', Holding')
    <3>1. Counts(slots, Holding) /\ \A k \in Kinds : IsFiniteSet(Holding[k])
      BY Finite DEF Counted
    <3> QED
      BY <2>2, <2>3, <3>1, TakeCounts
  <2>5. \A k \in Kinds : slots'[k] <= Limit[k]
    <3>1. slots \in [Kinds -> Nat] /\ Limit \in [Kinds -> Nat] /\ KindOf[c] \in Kinds
          /\ \A k \in Kinds : slots[k] <= Limit[k]
      BY PoolAssumption DEF Counted, Counts
    <3>2. \A k \in Kinds : slots'[k] = IF k = KindOf[c] THEN slots[k] - 1 ELSE slots[k]
      BY <2>2, <3>1 DEF Take
    <3> QED
      BY <3>1, <3>2
  <2> QED
    BY <2>2, <2>3, <2>4, <2>5 DEF Counted, Counts, Take
<1>7. ASSUME \/ \E c \in Callers : StepDeadline(c) \/ Stall(c)
             \/ \E i \in WorkerIds : KillLookup(i)
             \/ KillCancel \/ PoolTick \/ UNCHANGED poolVars
      PROVE  Counted'
  <2>1. UNCHANGED <<at, slots, queued, active>>
    BY <1>7 DEF StepDeadline, Stall, KillLookup, KillCancel, PoolTick, poolVars, gauges
  <2> QED
    BY <2>1 DEF Counted, Counts, Holding, InQueue, HoldsSlot, IsQueued
<1> QED
  BY <1>1, <1>2, <1>3, <1>4, <1>5, <1>6, <1>7 DEF PoolNext, CallStep

-----------------------------------------------------------------------------
LEMMA PoolInvariant == PoolSpec => [](Placed /\ RegistryTruthful /\ Counted)
<1> QED
  BY PlacedInit, PlacedStep, TruthfulInit, TruthfulStep, CountedInit, CountedStep, PTL DEF PoolSpec

\* worker_list shows calls in progress that hold a slot, each under its id, for
\* any number of calls and however ids collide with kills.
THEOREM RegistryTruthfulAlways == PoolSpec => []RegistryTruthful
<1> QED
  BY PoolInvariant, PTL

\* Every end of a call gives its slot and its place in the gauges back once, and
\* no kind of worker exceeds its limit.
THEOREM SlotsAccountedAlways == PoolSpec => []SlotsAccounted
<1>1. Counted => SlotsAccounted
  BY DEF Counted, Counts, Holding, InQueue, SlotsAccounted, Of
<1> QED
  BY <1>1, PoolInvariant, PTL

-----------------------------------------------------------------------------
(* SessionWatcher.                                                          *)

\* No pending time counts up to the zero time; and what is not distilled is on
\* its way, or given up: while no hub watches, all of it.
Remembered ==
  /\ waiting \in [Watched -> 0..MaxWait \cup {Zero}]
  /\ fresh \subseteq Watched /\ undistilled \subseteq Watched
  /\ ~watching => undistilled \subseteq given_up
  /\ NoChangeForgotten

LEMMA RememberedStep == Remembered /\ [SessionNext]_watcherVars => Remembered'
<1> SUFFICES ASSUME Remembered, [SessionNext]_watcherVars PROVE Remembered'
  OBVIOUS
<1> USE WatcherAssumption
<1>1. ASSUME NEW p \in Watched, SessionWritten(p) PROVE Remembered'
  BY <1>1 DEF SessionWritten, Remembered, NoChangeForgotten
<1>2. CASE StartWatching
  BY <1>2 DEF StartWatching, Nothing, Remembered, NoChangeForgotten
<1>3. CASE HubCrash
  BY <1>3 DEF HubCrash, Remembered, NoChangeForgotten
<1>4. CASE SessionTick
  <2>1. waiting' = [p \in Watched |-> IF waiting[p] < MaxWait THEN waiting[p] + 1 ELSE waiting[p]]
    BY <1>4 DEF SessionTick
  <2>2. \A p \in Watched : waiting'[p] \in 0..MaxWait \cup {Zero} /\ (waiting[p] # Zero => waiting'[p] # Zero)
    BY <2>1 DEF Remembered, Zero
  <2> QED
    BY <1>4, <2>1, <2>2 DEF SessionTick, Remembered, NoChangeForgotten
<1>5. CASE PollOnce
  <2> DEFINE due == {p \in Watched : Due(p)}
  <2>1. waiting' = [p \in Watched |-> IF p \in due THEN Zero ELSE Waiting(p)]
        /\ distills' = due /\ distills = {} /\ watching /\ fresh' = {}
        /\ UNCHANGED <<undistilled, given_up, watching>>
    BY <1>5 DEF PollOnce
  <2>2. \A p \in Watched : Waiting(p) \in 0..MaxWait \cup {Zero}
                         /\ (p \in fresh \/ waiting[p] # Zero => Waiting(p) # Zero)
    BY DEF Waiting, Remembered, Zero
  <2> HIDE DEF due
  <2> QED
    BY <2>1, <2>2 DEF Remembered, NoChangeForgotten
<1>6. CASE Distilled \/ DistillFails
  BY <1>6 DEF Distilled, DistillFails, Remembered, NoChangeForgotten
<1>7. CASE UNCHANGED watcherVars
  BY <1>7 DEF watcherVars, Remembered, NoChangeForgotten
<1> QED
  BY <1>1, <1>2, <1>3, <1>4, <1>5, <1>6, <1>7 DEF SessionNext

\* While a hub watches, a change that no distillation has read is seen by the next
\* poll, pending or listed to run, unless a distillation failed or no hub ran.
THEOREM NoChangeForgottenAlways == WatcherSpec => []NoChangeForgotten
<1>1. SessionInit => Remembered
  BY WatcherAssumption DEF SessionInit, Nothing, Remembered, NoChangeForgotten
<1>2. Remembered => NoChangeForgotten
  BY DEF Remembered
<1> QED
  BY <1>1, <1>2, RememberedStep, PTL DEF WatcherSpec

-----------------------------------------------------------------------------
(* HubRouting: consent.                                                     *)

\* Whatever a digest is recorded for, or about to be, and whatever runs.
Consented == {sidecar, rendering, loaded} \subseteq trusted \cup {Missing}

\* A running hub's configuration was rendered, was there before any digest, or
\* was accepted by name (checkDigestSidecar), in whatever order files are written.
THEOREM ConsentAlways == RoutingSpec => []HandEditNeedsConsent
<1>1. RoutingInit => Consented
  BY DEF RoutingInit, Consented
<1>2. Consented /\ [RoutingNext]_routingVars => Consented'
  <2> SUFFICES ASSUME Consented, [RoutingNext]_routingVars PROVE Consented'
    OBVIOUS
  <2>1. ASSUME NEW h \in Contents, RenderHarness(h) \/ HandEdit(h) PROVE Consented'
    BY <2>1 DEF RenderHarness, HandEdit, Consented
  <2>2. CASE RenderSidecar
    BY <2>2 DEF RenderSidecar, Consented
  <2>3. ASSUME NEW accept \in BOOLEAN, StartHub(accept) PROVE Consented'
    BY <2>3 DEF StartHub, Consented
  <2>4. CASE ReadHarness \/ RefuseStart \/ StopHub
    BY <2>4 DEF ReadHarness, RefuseStart, StopHub, Consented
  <2>5. ASSUME NEW f, NEW v, EnvFileWritten(f, v) PROVE Consented'
    BY <2>5 DEF EnvFileWritten, Consented
  <2>6. ASSUME NEW r \in Requests, Attach(r) PROVE Consented'
    BY <2>6 DEF Attach, Consented
  <2>7. CASE UNCHANGED routingVars
    BY <2>7 DEF routingVars, Consented
  <2> QED
    BY <2>1, <2>2, <2>3, <2>4, <2>5, <2>6, <2>7 DEF RoutingNext
<1>3. Consented => HandEditNeedsConsent
  BY DEF Consented, HandEditNeedsConsent
<1> QED
  BY <1>1, <1>2, <1>3, PTL DEF RoutingSpec

-----------------------------------------------------------------------------
(* HubRouting: isolation.                                                   *)

\* What may be registered under a key: the pool's tool, one of the profile's.
ListedAt(cfg, tools) ==
  \A k \in DOMAIN tools :
    /\ \A s \in DOMAIN cfg.shared : k = SharedKey(s) => tools[k].command = cfg.shared[s].command
    /\ \A p \in DOMAIN cfg.profiles :
         k \in ProfileKeys(cfg, p) => tools[k].command \in Commands(cfg, p)

\* The keys a connection that names a profile may get.
OwnKey(cfg, r, key) ==
  \/ key = SharedKey(r.server) /\ r.server \in DOMAIN cfg.shared
  \/ /\ key = ProfileKey(r.profile, r.server) /\ r.profile \in DOMAIN cfg.profiles
     /\ r.server \in DOMAIN cfg.profiles[r.profile].tools

\* A named profile's connection has a registered key, which the file lists.
Routed(cfg, tools) ==
  \A r \in Requests : r.profile # Unnamed => \A key \in routes[r] \ {NotServed} :
    key \in DOMAIN tools /\ OwnKey(cfg, r, key)

\* Without a hub there are neither tools nor connections.
Listed ==
  /\ {harness, starting, loaded} \subseteq Contents \cup {Missing}
  /\ registered = [k \in DOMAIN registered |-> registered[k]]
  /\ routes = [r \in Requests |-> routes[r]]
  /\ starting # Missing => loaded = Missing
  /\ loaded = Missing => DOMAIN registered = {} /\ \A r \in Requests : routes[r] = {}
  /\ loaded # Missing /\ KeysApart(Harness[loaded]) =>
       ListedAt(Harness[loaded], registered) /\ Routed(Harness[loaded], registered)

\* The pool's keys tell its names apart.
LEMMA SharedKeysTell ==
  \A s, u \in Seq(STRING) : SharedKey(s) = SharedKey(u) => s = u
<1> SUFFICES ASSUME NEW s \in Seq(STRING), NEW u \in Seq(STRING), SharedKey(s) = SharedKey(u)
             PROVE  s = u
  OBVIOUS
<1>1. /\ Len(SharedKey(s)) = 1 + Len(s) /\ Len(SharedKey(u)) = 1 + Len(u)
      /\ \A i \in 1..Len(s) : s[i] = SharedKey(s)[i + 1]
      /\ \A i \in 1..Len(u) : u[i] = SharedKey(u)[i + 1]
  BY DEF SharedKey
<1>2. Len(s) = Len(u)
  BY <1>1
<1>3. \A i \in 1..Len(s) : s[i] = u[i]
  BY <1>1, <1>2
<1> QED
  BY <1>2, <1>3

\* Keys that keep apart tell the section they are from.
LEMMA KeysTell ==
  ASSUME NEW cfg, KeysApart(cfg)
  PROVE  /\ \A k \in PoolKeys(cfg) : k \notin LegacyKeys(cfg)
         /\ \A p \in DOMAIN cfg.profiles : \A k \in ProfileKeys(cfg, p) :
              /\ k \notin PoolKeys(cfg) /\ k \notin LegacyKeys(cfg)
              /\ \A q \in DOMAIN cfg.profiles : k \in ProfileKeys(cfg, q) => p = q
  BY DEF KeysApart

\* New registers what the file lists.
LEMMA NewLists ==
  ASSUME NEW cfg, DOMAIN cfg.shared \subseteq Seq(STRING), KeysApart(cfg),
         NEW tools \in RegisteredBy(cfg)
  PROVE  ListedAt(cfg, tools)
<1>1. \A k, p : p \in DOMAIN cfg.profiles =>
        \A t \in ProfileTools(cfg, k) : k \in ProfileKeys(cfg, p) => t.command \in Commands(cfg, p)
  <2> SUFFICES ASSUME NEW k, NEW p \in DOMAIN cfg.profiles, NEW t \in ProfileTools(cfg, k),
                      k \in ProfileKeys(cfg, p)
               PROVE  t.command \in Commands(cfg, p)
    OBVIOUS
  <2>1. PICK q \in DOMAIN cfg.profiles : \E s \in DOMAIN cfg.profiles[q].tools :
          /\ ProfileKey(q, cfg.profiles[q].tools[s].name) = k
          /\ t = Hydrated(cfg.profiles[q].tools[s], EnvOf(cfg, q))
    BY DEF ProfileTools
  <2>2. k \in ProfileKeys(cfg, q)
    BY <2>1 DEF ProfileKeys
  <2>3. q = p
    BY <2>2, KeysTell
  <2> QED
    BY <2>1, <2>3 DEF Hydrated, Commands
<1>2. \A k \in DOMAIN tools : tools[k] \in RegisteredTool(cfg, k)
  <2> DEFINE all == {SharedKey(s) : s \in DOMAIN cfg.shared}
                      \cup {cfg.legacy[s].name : s \in DOMAIN cfg.legacy}
                      \cup (UNION {{ProfileKey(p, cfg.profiles[p].tools[s].name)
                                     : s \in DOMAIN cfg.profiles[p].tools} : p \in DOMAIN cfg.profiles})
             contested == {k \in all : \E t, u \in RegisteredTool(cfg, k) : t # u}
             Winners == {w \in [contested -> UNION {RegisteredTool(cfg, k) : k \in contested}] :
                           \A k \in contested : w[k] \in RegisteredTool(cfg, k)}
  <2>1. \E w \in Winners : tools = [k \in all |-> IF k \in contested THEN w[k]
                                               ELSE CHOOSE t \in RegisteredTool(cfg, k) : TRUE]
    BY Zenon DEF RegisteredBy
  <2>2. /\ DOMAIN tools = all
        /\ \A k \in all : \/ tools[k] \in RegisteredTool(cfg, k)
                         \/ tools[k] = CHOOSE t \in RegisteredTool(cfg, k) : TRUE
    <3> HIDE DEF all, contested
    <3> QED
      BY <2>1
  <2>3. \A k \in DOMAIN tools : RegisteredTool(cfg, k) # {}
    <3> SUFFICES ASSUME NEW k \in DOMAIN tools
                 PROVE  ProfileTools(cfg, k) # {} \/ PoolTools(cfg, k) # {} \/ LegacyTools(cfg, k) # {}
      BY DEF RegisteredTool, Else
    <3>1. \/ \E s \in DOMAIN cfg.shared : k = SharedKey(s)
          \/ \E s \in DOMAIN cfg.legacy : k = cfg.legacy[s].name
          \/ \E p \in DOMAIN cfg.profiles : \E s \in DOMAIN cfg.profiles[p].tools :
               k = ProfileKey(p, cfg.profiles[p].tools[s].name)
      BY <2>2
    <3>2. ASSUME NEW s \in DOMAIN cfg.shared, k = SharedKey(s) PROVE PoolTools(cfg, k) # {}
      BY <3>2 DEF PoolTools
    <3>3. ASSUME NEW s \in DOMAIN cfg.legacy, k = cfg.legacy[s].name PROVE LegacyTools(cfg, k) # {}
      BY <3>3 DEF LegacyTools
    <3>4. ASSUME NEW p \in DOMAIN cfg.profiles, NEW s \in DOMAIN cfg.profiles[p].tools,
                 k = ProfileKey(p, cfg.profiles[p].tools[s].name)
          PROVE  ProfileTools(cfg, k) # {}
      <4>1. Hydrated(cfg.profiles[p].tools[s], EnvOf(cfg, p)) \in ProfileTools(cfg, k)
        BY <3>4 DEF ProfileTools
      <4> QED
        BY <4>1
    <3> QED
      BY <3>1, <3>2, <3>3, <3>4
  <2> QED
    BY <2>3, <2>2
<1>3. ASSUME NEW k \in DOMAIN tools, NEW s \in DOMAIN cfg.shared, k = SharedKey(s)
      PROVE  tools[k].command = cfg.shared[s].command
  <2>1. k \in PoolKeys(cfg)
    BY <1>3 DEF PoolKeys
  <2>2. ProfileTools(cfg, k) = {}
    <3> SUFFICES ASSUME NEW p \in DOMAIN cfg.profiles, NEW x \in DOMAIN cfg.profiles[p].tools,
                        ProfileKey(p, cfg.profiles[p].tools[x].name) = k
                 PROVE  FALSE
      BY DEF ProfileTools
    <3>1. k \in ProfileKeys(cfg, p)
      BY DEF ProfileKeys
    <3> QED
      BY <2>1, <3>1, KeysTell
  <2>3. PoolTools(cfg, k) = {Hydrated(cfg.shared[s], Missing)}
    BY <1>3, SharedKeysTell DEF PoolTools
  <2>4. tools[k] = Hydrated(cfg.shared[s], Missing)
    BY <1>2, <2>2, <2>3 DEF RegisteredTool, Else
  <2> QED
    BY <2>4 DEF Hydrated
<1>4. ASSUME NEW k \in DOMAIN tools, NEW p \in DOMAIN cfg.profiles, k \in ProfileKeys(cfg, p)
      PROVE  tools[k].command \in Commands(cfg, p)
  <2>1. k \notin PoolKeys(cfg) /\ k \notin LegacyKeys(cfg)
    BY <1>4, KeysTell
  <2>2. PoolTools(cfg, k) = {}
    BY <2>1 DEF PoolTools, PoolKeys
  <2>3. LegacyTools(cfg, k) = {}
    BY <2>1 DEF LegacyTools, LegacyKeys
  <2>4. tools[k] \in ProfileTools(cfg, k)
    BY <1>2, <2>2, <2>3 DEF RegisteredTool, Else
  <2> QED
    BY <1>1, <1>4, <2>4
<1> QED
  BY <1>3, <1>4 DEF ListedAt

\* What a connection registers, and what it is routed to, are listed too.
LEMMA AttachLists ==
  ASSUME NEW cfg, DOMAIN cfg.shared \subseteq Seq(STRING), KeysApart(cfg),
         NEW r \in Requests, NEW t \in ResolveServer(cfg, r)
  PROVE  /\ \A s \in DOMAIN cfg.shared : t.key = SharedKey(s) => t.command = cfg.shared[s].command
         /\ \A p \in DOMAIN cfg.profiles :
              t.key \in ProfileKeys(cfg, p) => t.command \in Commands(cfg, p)
         /\ r.profile # Unnamed => OwnKey(cfg, r, t.key)
<1> DEFINE OfPool == /\ r.server \in DOMAIN cfg.shared /\ t.key = SharedKey(r.server)
                     /\ t.command = cfg.shared[r.server].command
           OfLegacy == r.profile = Unnamed /\ r.server \in DOMAIN cfg.legacy /\ t.key = r.server
           OfProfile(p) == /\ r.profile # Unnamed => p = r.profile
                           /\ r.server \in DOMAIN cfg.profiles[p].tools
                           /\ t.key = ProfileKey(p, r.server)
                           /\ t.command = cfg.profiles[p].tools[r.server].command
<1>1. /\ t \in SharedTool(cfg, r.server) => OfPool
      /\ t \in LegacyTool(cfg, r.server) => r.server \in DOMAIN cfg.legacy /\ t.key = r.server
      /\ \A p : t \in OwnTool(cfg, p, r.server) /\ (r.profile # Unnamed => p = r.profile) => OfProfile(p)
  <2>1. \A key, tool, env : t \in Resolved(key, tool, env) => t.key = key /\ t.command = tool.command
    BY DEF Resolved
  <2> QED
    BY <2>1 DEF SharedTool, LegacyTool, OwnTool, NotFound
<1>2. OfPool \/ OfLegacy \/ \E p \in DOMAIN cfg.profiles : OfProfile(p)
  <2> HIDE DEF OfPool, OfProfile
  <2>1. CASE r.profile # Unnamed
    <3>1. r.profile \in DOMAIN cfg.profiles
          /\ t \in Else(OwnTool(cfg, r.profile, r.server), SharedTool(cfg, r.server))
      BY <2>1 DEF ResolveServer, NotFound
    <3> QED
      BY <1>1, <3>1 DEF Else
  <2>2. CASE r.profile = Unnamed /\ DetectedProfiles(cfg, r.cwd) # {}
    <3>1. PICK p \in DOMAIN cfg.profiles :
            t \in Else(OwnTool(cfg, p, r.server), Else(SharedTool(cfg, r.server), LegacyTool(cfg, r.server)))
      <4>1. DetectedProfiles(cfg, r.cwd) \subseteq DOMAIN cfg.profiles
        BY DEF DetectedProfiles
      <4> QED
        BY <2>2, <4>1 DEF ResolveServer
    <3> QED
      BY <1>1, <2>2, <3>1 DEF Else
  <2>3. CASE r.profile = Unnamed /\ DetectedProfiles(cfg, r.cwd) = {}
    <3>1. t \in Else(SharedTool(cfg, r.server), Else(LegacyTool(cfg, r.server),
                     UNION {OwnTool(cfg, p, r.server) : p \in DOMAIN cfg.profiles}))
      BY <2>3 DEF ResolveServer
    <3>2. \/ t \in SharedTool(cfg, r.server) \/ t \in LegacyTool(cfg, r.server)
          \/ \E p \in DOMAIN cfg.profiles : t \in OwnTool(cfg, p, r.server)
      BY <3>1 DEF Else
    <3> QED
      BY <1>1, <2>3, <3>2
  <2> QED
    BY <2>1, <2>2, <2>3
<1>3. CASE OfPool
  <2>1. t.key \in PoolKeys(cfg)
    BY <1>3 DEF PoolKeys
  <2>2. \A p \in DOMAIN cfg.profiles : t.key \notin ProfileKeys(cfg, p)
    BY <2>1, KeysTell
  <2>3. \A s \in DOMAIN cfg.shared : t.key = SharedKey(s) => s = r.server
    BY <1>3, SharedKeysTell
  <2> QED
    BY <1>3, <2>2, <2>3 DEF OwnKey
<1>4. CASE OfLegacy
  <2>1. t.key \in LegacyKeys(cfg)
    BY <1>4 DEF LegacyKeys
  <2>2. t.key \notin PoolKeys(cfg) /\ \A p \in DOMAIN cfg.profiles : t.key \notin ProfileKeys(cfg, p)
    BY <2>1, KeysTell
  <2> QED
    BY <1>4, <2>2 DEF PoolKeys
<1>5. ASSUME NEW p \in DOMAIN cfg.profiles, OfProfile(p)
      PROVE  /\ \A s \in DOMAIN cfg.shared : t.key # SharedKey(s)
             /\ \A q \in DOMAIN cfg.profiles :
                  t.key \in ProfileKeys(cfg, q) => t.command \in Commands(cfg, q)
             /\ r.profile # Unnamed => OwnKey(cfg, r, t.key)
  <2>1. t.key \in ProfileKeys(cfg, p)
    BY <1>5 DEF ProfileKeys
  <2>2. t.key \notin PoolKeys(cfg) /\ \A q \in DOMAIN cfg.profiles : t.key \in ProfileKeys(cfg, q) => q = p
    BY <2>1, KeysTell
  <2>3. t.command \in Commands(cfg, p)
    BY <1>5 DEF Commands
  <2>4. r.profile # Unnamed => OwnKey(cfg, r, t.key)
    BY <1>5 DEF OwnKey
  <2> QED
    BY <2>2, <2>3, <2>4 DEF PoolKeys
<1> QED
  BY <1>2, <1>3, <1>4, <1>5

LEMMA ListedStep == Listed /\ [RoutingNext]_routingVars => Listed'
<1> SUFFICES ASSUME Listed, [RoutingNext]_routingVars PROVE Listed'
  OBVIOUS
<1>1. ASSUME NEW accept \in BOOLEAN, StartHub(accept) PROVE Listed'
  <2>1. /\ loaded' = starting /\ starting # Missing /\ starting' = Missing
        /\ UNCHANGED <<routes, harness>> /\ registered' \in RegisteredBy(Harness[starting])
        /\ starting \in Contents
    BY <1>1 DEF StartHub, Listed
  <2>2. registered' = [k \in DOMAIN registered' |-> registered'[k]]
    BY <2>1 DEF RegisteredBy
  <2>3. DOMAIN Harness[starting].shared \subseteq Seq(STRING)
    BY <2>1, HarnessAssumption DEF Contents
  <2>4. KeysApart(Harness[starting]) => ListedAt(Harness[starting], registered')
    BY <2>1, <2>3, NewLists
  <2>5. Routed(Harness[loaded], registered)'
    BY <2>1 DEF Listed, Routed
  <2>6. loaded' # Missing /\ {harness', starting', loaded'} \subseteq Contents \cup {Missing}
    BY <2>1 DEF Listed
  <2>7. routes' = [r \in Requests |-> routes'[r]]
    BY <2>1 DEF Listed
  <2> QED
    BY <2>1, <2>2, <2>4, <2>5, <2>6, <2>7 DEF Listed
<1>2. CASE StopHub
  BY <1>2 DEF StopHub, NoTools, Listed
<1>3. ASSUME NEW r \in Requests, Attach(r) PROVE Listed'
  <2> DEFINE cfg == Harness[loaded]
  <2>1. /\ loaded # Missing /\ UNCHANGED <<loaded, starting, harness>>
        /\ routes' = [q \in Requests |-> routes'[q]] /\ loaded \in Contents
    BY <1>3 DEF Attach, Listed
  <2>2. ASSUME routes' = [routes EXCEPT ![r] = {IF r.profile = Unnamed THEN r.server ELSE NotServed}],
               UNCHANGED registered
        PROVE  Listed'
    <3>1. \A q \in Requests : q.profile # Unnamed =>
            routes'[q] \ {NotServed} \subseteq routes[q] \ {NotServed}
      BY <2>2 DEF Listed
    <3>2. Routed(cfg, registered) => Routed(cfg, registered)'
      BY <2>1, <2>2, <3>1 DEF Routed
    <3> QED
      BY <2>1, <2>2, <3>2 DEF Listed
  <2>3. ASSUME NEW t \in ResolveServer(cfg, r), routes' = [routes EXCEPT ![r] = {t.key}],
               registered' = [k \in DOMAIN registered \cup {t.key} |->
                                IF k \in DOMAIN registered THEN registered[k]
                                ELSE [command |-> t.command, env |-> t.env]]
        PROVE  Listed'
    <3>1. SUFFICES ASSUME KeysApart(cfg)
          PROVE  ListedAt(cfg, registered') /\ Routed(cfg, registered)'
      BY <2>1, <2>3 DEF Listed
    <3>2. DOMAIN cfg.shared \subseteq Seq(STRING)
      BY <2>1, HarnessAssumption DEF Contents
    <3>3. ListedAt(cfg, registered')
      <4>1. ListedAt(cfg, registered)
        BY <2>1, <3>1 DEF Listed
      <4>2. /\ \A s \in DOMAIN cfg.shared : t.key = SharedKey(s) => t.command = cfg.shared[s].command
            /\ \A p \in DOMAIN cfg.profiles :
                 t.key \in ProfileKeys(cfg, p) => t.command \in Commands(cfg, p)
        BY <3>1, <3>2, AttachLists
      <4>3. /\ DOMAIN registered' = DOMAIN registered \cup {t.key}
            /\ \A k \in DOMAIN registered : registered'[k] = registered[k]
            /\ t.key \notin DOMAIN registered => registered'[t.key].command = t.command
        BY <2>3
      <4> QED
        BY <4>1, <4>2, <4>3 DEF ListedAt
    <3>4. ASSUME NEW q \in Requests, q.profile # Unnamed, NEW key \in routes'[q] \ {NotServed}
          PROVE  key \in DOMAIN registered' /\ OwnKey(cfg, q, key)
      <4>1. CASE q = r
        <5>1. key = t.key /\ key \in DOMAIN registered'
          BY <2>3, <3>4, <4>1 DEF Listed
        <5> QED
          BY <3>1, <3>2, <3>4, <4>1, <5>1, AttachLists
      <4>2. CASE q # r
        BY <2>1, <2>3, <3>1, <3>4, <4>2 DEF Listed, Routed
      <4> QED
        BY <4>1, <4>2
    <3> QED
      BY <2>1, <3>3, <3>4 DEF Routed
  <2> QED
    BY <1>3, <2>2, <2>3 DEF Attach
<1>4. CASE ReadHarness \/ RefuseStart
  BY <1>4 DEF ReadHarness, RefuseStart, Listed, Routed
<1>5. ASSUME harness' \in Contents \cup {Missing}, UNCHANGED <<loaded, starting, registered, routes>>
      PROVE  Listed'
  BY <1>5 DEF Listed, Routed
<1>6. ASSUME NEW h \in Contents, RenderHarness(h) \/ HandEdit(h) PROVE Listed'
  BY <1>5, <1>6 DEF RenderHarness, HandEdit
<1>7. ASSUME NEW f, NEW v, EnvFileWritten(f, v) PROVE Listed'
  BY <1>5, <1>7 DEF EnvFileWritten, Listed
<1>8. CASE RenderSidecar \/ UNCHANGED routingVars
  BY <1>5, <1>8 DEF RenderSidecar, routingVars, Listed
<1> QED
  BY <1>1, <1>2, <1>3, <1>4, <1>6, <1>7, <1>8 DEF RoutingNext

\* A connection that names a profile runs what the file lists for that profile or
\* for the pool, for any configuration whose sections' joined names keep apart,
\* whatever New and other connections have registered (handleConn, ResolveServer).
THEOREM IsolationAlways == RoutingSpec => []ProfileIsolated
<1>1. RoutingInit => Listed
  BY DEF RoutingInit, NoTools, Listed
<1>2. Listed => ProfileIsolated
  <2> SUFFICES ASSUME Listed, loaded # Missing, KeysApart(Harness[loaded]), NEW r \in Requests
               PROVE  Isolated(r)
    BY DEF ProfileIsolated
  <2> DEFINE cfg == Harness[loaded]
  <2>1. ASSUME r.profile # Unnamed, NEW key \in routes[r] \ {NotServed}
        PROVE  key \in DOMAIN registered /\ OwnKey(cfg, r, key) /\ ListedAt(cfg, registered)
    BY <2>1 DEF Listed, Routed
  <2>2. ASSUME r.profile \in DOMAIN cfg.profiles, r.server \in DOMAIN cfg.profiles[r.profile].tools
        PROVE  ProfileKey(r.profile, r.server) \in ProfileKeys(cfg, r.profile)
    BY <2>2 DEF ProfileKeys
  <2> QED
    BY <2>1, <2>2 DEF Isolated, OwnKey, ListedAt
<1> QED
  BY <1>1, <1>2, ListedStep, PTL DEF RoutingSpec

\* Names without a colon, of profiles none of which is called like the pool, keep
\* apart whatever they are: what IsolationAlways asks for can be read off a file.
THEOREM PlainNamesKeepApart ==
  ASSUME NEW cfg, NEW Plain, \A x \in Plain : \E a : x = <<a>>,
         DOMAIN cfg.profiles \subseteq Plain \ {<<"shared">>},
         DOMAIN cfg.shared \subseteq Plain, LegacyKeys(cfg) \subseteq Plain,
         \A p \in DOMAIN cfg.profiles : \A s \in DOMAIN cfg.profiles[p].tools :
           s \in Plain /\ cfg.profiles[p].tools[s].name \in Plain
  PROVE  KeysApart(cfg)
<1>1. \A a, b : <<a>> \o <<b>> = <<a, b>>
  <2> SUFFICES ASSUME NEW a, NEW b PROVE <<a>> \o <<b>> = <<a, b>>
    OBVIOUS
  <2>1. <<a>> \in Seq({a, b}) /\ <<b>> \in Seq({a, b})
    OBVIOUS
  <2> DEFINE joined == <<a>> \o <<b>>
  <2>2. joined \in Seq({a, b}) /\ Len(joined) = 2 /\ joined[1] = a /\ joined[2] = b
    BY <2>1
  <2> HIDE DEF joined
  <2>3. joined = <<a, b>>
    BY <2>2
  <2> QED
    BY <2>3 DEF joined
<1>2. \A k \in PoolKeys(cfg) : \E b : k = <<"shared", b>>
  <2> SUFFICES ASSUME NEW s \in Plain PROVE \E b : SharedKey(s) = <<"shared", b>>
    BY DEF PoolKeys
  <2>1. PICK b : s = <<b>>
    OBVIOUS
  <2>2. SharedKey(s) = <<"shared", b>>
    BY <1>1, <2>1, Zenon DEF SharedKey
  <2> QED
    BY <2>2
<1>3. \A p \in DOMAIN cfg.profiles : \A k \in ProfileKeys(cfg, p) :
        \E a, b : a # "shared" /\ p = <<a>> /\ k = <<a, b>>
  <2> SUFFICES ASSUME NEW p \in DOMAIN cfg.profiles, NEW s \in Plain
               PROVE  \E a, b : a # "shared" /\ p = <<a>> /\ ProfileKey(p, s) = <<a, b>>
    BY DEF ProfileKeys
  <2>1. PICK a : p = <<a>> /\ a # "shared"
    OBVIOUS
  <2>2. PICK b : s = <<b>>
    OBVIOUS
  <2>3. ProfileKey(p, s) = <<a, b>>
    BY <1>1, <2>1, <2>2 DEF ProfileKey
  <2> QED
    BY <2>1, <2>3
<1>4. \A k \in LegacyKeys(cfg) : \E a : k = <<a>>
  OBVIOUS
<1>5. \A a, b, c, d : <<a, b>> # <<c>> /\ (<<a, b>> = <<c, d>> => a = c)
  OBVIOUS
<1> QED
  BY <1>2, <1>3, <1>4, <1>5 DEF KeysApart

-----------------------------------------------------------------------------
(* The repair of a text.                                                    *)

\* Least numbers, by induction over the order.
LEMMA LeastNat ==
  ASSUME NEW S \in SUBSET Nat, S # {}
  PROVE  \E n \in S : \A m \in S : n <= m
<1>1. PICK n \in S : \A m \in S : <<m, n>> \notin OpToRel(<, Nat)
  BY NatLessThanWellFounded, WFMin
<1>2. \A m \in S : ~(m < n)
  BY <1>1, Zenon DEF OpToRel
<1> QED
  BY <1>2

\* Induction over numbers, of a set instead of a predicate.
LEMMA EveryNat ==
  ASSUME NEW A, 0 \in A, \A n \in A : n + 1 \in A
  PROVE  \A n \in Nat : n \in A
<1> SUFFICES ASSUME Nat \ A # {} PROVE FALSE
  OBVIOUS
<1>1. PICK n \in Nat \ A : \A m \in Nat \ A : n <= m
  BY LeastNat
<1>2. n # 0 /\ n - 1 \in Nat
  BY <1>1
<1>3. n - 1 \in A
  BY <1>1, <1>2
<1> QED
  BY <1>1, <1>2, <1>3

\* The loop goes through a text of any length as its definition says.
LEMMA ScanningSteps ==
  ASSUME NEW V, NEW t \in Seq(V)
  PROVE  /\ Scanning(t)[0] = ScanStart
         /\ \A i \in 1..Len(t) : Scanning(t)[i] = Scan(Scanning(t)[i - 1], t[i])
<1> DEFINE Upto(n, g) == g = [i \in 0..n |-> IF i = 0 THEN ScanStart ELSE Scan(g[i - 1], t[i])]
           Reached == {n \in Nat : \E g : Upto(n, g)}
<1>1. 0 \in Reached
  <2>1. Upto(0, [i \in 0..0 |-> ScanStart])
    OBVIOUS
  <2> QED
    BY <2>1
<1>2. ASSUME NEW n \in Nat, NEW g, Upto(n, g)
      PROVE  \E f : Upto(n + 1, f)
  <2> DEFINE f == [i \in 0..n + 1 |-> IF i = n + 1 THEN Scan(g[n], t[n + 1]) ELSE g[i]]
  <2>1. \A i \in 0..n + 1 : f[i] = IF i = 0 THEN ScanStart ELSE Scan(f[i - 1], t[i])
    <3>1. \A i \in 0..n : g[i] = IF i = 0 THEN ScanStart ELSE Scan(g[i - 1], t[i])
      BY <1>2
    <3>2. \A i \in 0..n + 1 : f[i] = IF i = n + 1 THEN Scan(g[n], t[n + 1]) ELSE g[i]
      OBVIOUS
    <3>3. \A i \in 1..n + 1 : i - 1 \in 0..n /\ f[i - 1] = g[i - 1]
      OBVIOUS
    <3> HIDE DEF f
    <3> TAKE i \in 0..n + 1
    <3>4. CASE i = n + 1
      BY <3>2, <3>3, <3>4
    <3>5. CASE i \in 0..n
      BY <3>1, <3>2, <3>3, <3>5
    <3> QED
      BY <3>4, <3>5
  <2>2. f = [i \in 0..n + 1 |-> f[i]]
    OBVIOUS
  <2> HIDE DEF f
  <2>3. Upto(n + 1, f)
    BY <2>1, <2>2
  <2> QED
    BY <2>3
<1>3. Len(t) \in Reached
  <2> HIDE DEF Upto
  <2>1. \A n \in Reached : n + 1 \in Reached
    BY <1>2
  <2>2. Len(t) \in Nat
    OBVIOUS
  <2> HIDE DEF Reached
  <2> QED
    BY <1>1, <2>1, <2>2, EveryNat
<1>4. PICK g : Upto(Len(t), g)
  BY <1>3
<1>5. Upto(Len(t), Scanning(t))
  BY <1>4 DEF Scanning
<1> QED
  BY <1>5

\* And so does a reader.
LEMMA ReadingSteps ==
  ASSUME NEW V, NEW t \in Seq(V)
  PROVE  /\ Readings(t)[0] = ReadStart
         /\ \A i \in 1..Len(t) : Readings(t)[i] = ReadChar(Readings(t)[i - 1], t[i])
<1> DEFINE Upto(n, g) == g = [i \in 0..n |-> IF i = 0 THEN ReadStart ELSE ReadChar(g[i - 1], t[i])]
           Reached == {n \in Nat : \E g : Upto(n, g)}
<1>1. 0 \in Reached
  <2>1. Upto(0, [i \in 0..0 |-> ReadStart])
    OBVIOUS
  <2> QED
    BY <2>1
<1>2. ASSUME NEW n \in Nat, NEW g, Upto(n, g)
      PROVE  \E f : Upto(n + 1, f)
  <2> DEFINE f == [i \in 0..n + 1 |-> IF i = n + 1 THEN ReadChar(g[n], t[n + 1]) ELSE g[i]]
  <2>1. \A i \in 0..n + 1 : f[i] = IF i = 0 THEN ReadStart ELSE ReadChar(f[i - 1], t[i])
    <3>1. \A i \in 0..n : g[i] = IF i = 0 THEN ReadStart ELSE ReadChar(g[i - 1], t[i])
      BY <1>2
    <3>2. \A i \in 0..n + 1 : f[i] = IF i = n + 1 THEN ReadChar(g[n], t[n + 1]) ELSE g[i]
      OBVIOUS
    <3>3. \A i \in 1..n + 1 : i - 1 \in 0..n /\ f[i - 1] = g[i - 1]
      OBVIOUS
    <3> HIDE DEF f
    <3> TAKE i \in 0..n + 1
    <3>4. CASE i = n + 1
      BY <3>2, <3>3, <3>4
    <3>5. CASE i \in 0..n
      BY <3>1, <3>2, <3>3, <3>5
    <3> QED
      BY <3>4, <3>5
  <2>2. f = [i \in 0..n + 1 |-> f[i]]
    OBVIOUS
  <2> HIDE DEF f
  <2>3. Upto(n + 1, f)
    BY <2>1, <2>2
  <2> QED
    BY <2>3
<1>3. Len(t) \in Reached
  <2> HIDE DEF Upto
  <2>1. \A n \in Reached : n + 1 \in Reached
    BY <1>2
  <2>2. Len(t) \in Nat
    OBVIOUS
  <2> HIDE DEF Reached
  <2> QED
    BY <1>1, <2>1, <2>2, EveryNat
<1>4. PICK g : Upto(Len(t), g)
  BY <1>3
<1>5. Upto(Len(t), Readings(t))
  BY <1>4 DEF Readings
<1> QED
  BY <1>5

-----------------------------------------------------------------------------
\* A reader of a text, and the repair's loop, at one place of it.
Reader(m, o, w) == [mode |-> m, open |-> o, wrong |-> w]
Loop(k, q, e, d) == [stack |-> k, inString |-> q, escaped |-> e, deep |-> d]
Openers == {"{", "["}
Closers == {"}", "]"}

\* What a reader makes of one character.
LEMMA ReadsCharacter ==
  ASSUME NEW o, NEW w, NEW c
  PROVE  /\ ReadChar(Reader("escape", o, w), c) = Reader("string", o, w)
         /\ c = "backslash" => ReadChar(Reader("string", o, w), c) = Reader("escape", o, w)
         /\ c = "quote" => ReadChar(Reader("string", o, w), c) = Reader("plain", o, w)
         /\ c \notin {"backslash", "quote"} => ReadChar(Reader("string", o, w), c) = Reader("string", o, w)
         /\ c = "quote" => ReadChar(Reader("plain", o, w), c) = Reader("string", o, w)
         /\ c \notin {"quote"} \cup Openers \cup Closers => ReadChar(Reader("plain", o, w), c) = Reader("plain", o, w)
<1>1. Reader("escape", o, w).mode = "escape" /\ \A m : [Reader("escape", o, w) EXCEPT !.mode = m] = Reader(m, o, w)
  BY DEF Reader
<1>2. Reader("string", o, w).mode = "string" /\ \A m : [Reader("string", o, w) EXCEPT !.mode = m] = Reader(m, o, w)
  BY DEF Reader
<1>3. Reader("plain", o, w).mode = "plain" /\ \A m : [Reader("plain", o, w) EXCEPT !.mode = m] = Reader(m, o, w)
  BY DEF Reader
<1>4. ReadChar(Reader("escape", o, w), c) = Reader("string", o, w)
  BY <1>1 DEF ReadChar
<1>5. /\ c = "backslash" => ReadChar(Reader("string", o, w), c) = Reader("escape", o, w)
      /\ c = "quote" => ReadChar(Reader("string", o, w), c) = Reader("plain", o, w)
      /\ c \notin {"backslash", "quote"} => ReadChar(Reader("string", o, w), c) = Reader("string", o, w)
  BY <1>2 DEF ReadChar
<1>6. /\ c = "quote" => ReadChar(Reader("plain", o, w), c) = Reader("string", o, w)
      /\ c \notin {"quote"} \cup Openers \cup Closers => ReadChar(Reader("plain", o, w), c) = Reader("plain", o, w)
  BY <1>3 DEF ReadChar, Openers, Closers
<1> QED
  BY <1>4, <1>5, <1>6

LEMMA ReadsOpener ==
  ASSUME NEW o, NEW w, NEW c \in Openers
  PROVE  ReadChar(Reader("plain", o, w), c) = Reader("plain", Append(o, c), w)
<1>1. /\ Reader("plain", o, w).mode = "plain" /\ Reader("plain", o, w).open = o
      /\ \A x : [Reader("plain", o, w) EXCEPT !.open = x] = Reader("plain", x, w)
  BY DEF Reader
<1> QED
  BY <1>1 DEF ReadChar, Openers

\* Whether a closer closes what was opened last.
Closes(o, c) == o # <<>> /\ Last(o) \in Openers /\ c = Closer(Last(o))

LEMMA ReadsCloser ==
  ASSUME NEW o, NEW w, NEW c \in Closers
  PROVE  ReadChar(Reader("plain", o, w), c) =
           IF Closes(o, c) THEN Reader("plain", Front(o), w) ELSE Reader("plain", o, TRUE)
<1>1. Reader("plain", o, w).mode = "plain" /\ Reader("plain", o, w).open = o
  BY DEF Reader
<1>2. \A x : [Reader("plain", o, w) EXCEPT !.open = x] = Reader("plain", x, w)
  BY DEF Reader
<1>3. \A x : [Reader("plain", o, w) EXCEPT !.wrong = x] = Reader("plain", o, x)
  BY DEF Reader
<1>4. <<Last(o), c>> \in {<<"{", "}">>, <<"[", "]">>} <=> Last(o) \in Openers /\ c = Closer(Last(o))
  BY DEF Closer, Openers, Closers
<1>5. ReadChar(Reader("plain", o, w), c) =
        IF o # <<>> /\ <<Last(o), c>> \in {<<"{", "}">>, <<"[", "]">>}
        THEN Reader("plain", Front(o), w) ELSE Reader("plain", o, TRUE)
  BY <1>1, <1>2, <1>3 DEF ReadChar, Closers
<1> QED
  BY <1>4, <1>5 DEF Closes

\* What the repair's loop makes of it.
LEMMA ScansCharacter ==
  ASSUME NEW k, NEW c
  PROVE  /\ Scan(Loop(k, TRUE, TRUE, FALSE), c) = Loop(k, TRUE, FALSE, FALSE)
         /\ c = "backslash" => Scan(Loop(k, TRUE, FALSE, FALSE), c) = Loop(k, TRUE, TRUE, FALSE)
         /\ c = "quote" => Scan(Loop(k, TRUE, FALSE, FALSE), c) = Loop(k, FALSE, FALSE, FALSE)
         /\ c \notin {"backslash", "quote"} => Scan(Loop(k, TRUE, FALSE, FALSE), c) = Loop(k, TRUE, FALSE, FALSE)
         /\ c = "quote" => Scan(Loop(k, FALSE, FALSE, FALSE), c) = Loop(k, TRUE, FALSE, FALSE)
         /\ c \in Openers => Scan(Loop(k, FALSE, FALSE, FALSE), c) \in
              {Loop(k, FALSE, FALSE, TRUE), Loop(Append(k, Closer(c)), FALSE, FALSE, FALSE)}
         /\ c \in Closers /\ k # <<>> /\ Last(k) = c =>
              Scan(Loop(k, FALSE, FALSE, FALSE), c) = Loop(Front(k), FALSE, FALSE, FALSE)
         /\ c \notin {"quote"} \cup Openers \cup Closers =>
              Scan(Loop(k, FALSE, FALSE, FALSE), c) = Loop(k, FALSE, FALSE, FALSE)
<1>1. /\ Scan(Loop(k, TRUE, TRUE, FALSE), c) = Loop(k, TRUE, FALSE, FALSE)
      /\ c = "backslash" => Scan(Loop(k, TRUE, FALSE, FALSE), c) = Loop(k, TRUE, TRUE, FALSE)
      /\ c = "quote" => Scan(Loop(k, TRUE, FALSE, FALSE), c) = Loop(k, FALSE, FALSE, FALSE)
      /\ c \notin {"backslash", "quote"} => Scan(Loop(k, TRUE, FALSE, FALSE), c) = Loop(k, TRUE, FALSE, FALSE)
      /\ c = "quote" => Scan(Loop(k, FALSE, FALSE, FALSE), c) = Loop(k, TRUE, FALSE, FALSE)
  BY DEF Scan, Loop
<1>2. c \in Openers => Scan(Loop(k, FALSE, FALSE, FALSE), c) \in
              {Loop(k, FALSE, FALSE, TRUE), Loop(Append(k, Closer(c)), FALSE, FALSE, FALSE)}
  BY DEF Scan, Loop, Openers
<1>3. c \in Closers /\ k # <<>> /\ Last(k) = c =>
              Scan(Loop(k, FALSE, FALSE, FALSE), c) = Loop(Front(k), FALSE, FALSE, FALSE)
  BY DEF Scan, Loop, Closers
<1>4. c \notin {"quote"} \cup Openers \cup Closers =>
              Scan(Loop(k, FALSE, FALSE, FALSE), c) = Loop(k, FALSE, FALSE, FALSE)
  BY DEF Scan, Loop, Openers, Closers
<1> QED
  BY <1>1, <1>2, <1>3, <1>4

-----------------------------------------------------------------------------
\* Closers of what is open.
ClosersOf(o) == [i \in 1..Len(o) |-> Closer(o[i])]

LEMMA FrontOf ==
  ASSUME NEW V, NEW o \in Seq(V), o # <<>>
  PROVE  /\ Len(o) \in Nat \ {0} /\ Front(o) \in Seq(V) /\ Last(o) \in V
         /\ Len(Front(o)) = Len(o) - 1 /\ \A i \in 1..Len(o) - 1 : Front(o)[i] = o[i]
<1>1. Len(o) \in Nat \ {0} /\ \A i \in 1..Len(o) : o[i] \in V
  BY EmptySeq, ElementOfSeq, LenProperties
<1> DEFINE n == Len(o) - 1
<1>2. n \in Int /\ 1 \in Int /\ \A i \in 1..n : o[i] \in V
  BY <1>1
<1> HIDE DEF n
<1>3. /\ SubSeq(o, 1, n) \in Seq(V) /\ Len(SubSeq(o, 1, n)) = IF 1 <= n THEN n - 1 + 1 ELSE 0
      /\ \A i \in 1..n - 1 + 1 : SubSeq(o, 1, n)[i] = o[1 + i - 1]
  BY <1>2, SubSeqProperties
<1>4. n \in Nat /\ Front(o) = SubSeq(o, 1, n)
  BY <1>1 DEF Front, n
<1>5. Len(Front(o)) = n
  BY <1>3, <1>4
<1>6. \A i \in 1..n : Front(o)[i] = o[i]
  BY <1>3, <1>4
<1>7. Last(o) \in V
  BY <1>1 DEF Last
<1> QED
  BY <1>1, <1>3, <1>4, <1>5, <1>6, <1>7 DEF n

LEMMA ClosersTyped ==
  ASSUME NEW o \in Seq(Openers)
  PROVE  ClosersOf(o) \in Seq(Closers) /\ Len(ClosersOf(o)) = Len(o)
<1>1. \A i \in 1..Len(o) : Closer(o[i]) \in Closers
  BY DEF Closer, Closers
<1> QED
  BY <1>1 DEF ClosersOf

LEMMA ClosersAppend ==
  ASSUME NEW o \in Seq(Openers), NEW c \in Openers
  PROVE  /\ Append(o, c) \in Seq(Openers)
         /\ ClosersOf(Append(o, c)) = Append(ClosersOf(o), Closer(c))
<1> DEFINE p == Append(o, c)
           k == Append(ClosersOf(o), Closer(c))
<1>1. /\ p \in Seq(Openers) /\ Len(p) = Len(o) + 1 /\ p[Len(o) + 1] = c
      /\ \A i \in 1..Len(o) : p[i] = o[i]
  BY AppendProperties
<1>2. Closer(c) \in Closers
  BY DEF Closer, Closers
<1>3. ClosersOf(o) \in Seq(Closers) /\ Len(ClosersOf(o)) = Len(o)
  BY ClosersTyped
<1>4. /\ k \in Seq(Closers) /\ Len(k) = Len(o) + 1 /\ k[Len(o) + 1] = Closer(c)
      /\ \A i \in 1..Len(o) : k[i] = ClosersOf(o)[i]
  BY <1>2, <1>3, AppendProperties
<1> HIDE DEF p, k
<1>5. ClosersOf(p) \in Seq(Closers) /\ Len(ClosersOf(p)) = Len(p)
  BY <1>1, ClosersTyped
<1>6. Len(o) \in Nat
  OBVIOUS
<1>7. ASSUME NEW i \in 1..Len(p) PROVE ClosersOf(p)[i] = k[i]
  <2>1. ClosersOf(p)[i] = Closer(p[i])
    BY DEF ClosersOf
  <2>2. CASE i = Len(o) + 1
    BY <1>1, <1>4, <2>1, <2>2
  <2>3. CASE i \in 1..Len(o)
    <3>1. ClosersOf(o)[i] = Closer(o[i])
      BY <2>3 DEF ClosersOf
    <3> QED
      BY <1>1, <1>4, <2>1, <2>3, <3>1
  <2> QED
    BY <1>1, <1>6, <2>2, <2>3
<1>8. ClosersOf(p) = k
  BY <1>1, <1>4, <1>5, <1>7, SeqEqual
<1> QED
  BY <1>1, <1>8 DEF p, k

LEMMA ClosersFront ==
  ASSUME NEW o \in Seq(Openers), o # <<>>
  PROVE  /\ Front(o) \in Seq(Openers) /\ Last(o) \in Openers
         /\ ClosersOf(o) # <<>> /\ Last(ClosersOf(o)) = Closer(Last(o))
         /\ Front(ClosersOf(o)) = ClosersOf(Front(o))
<1>1. /\ Len(o) \in Nat \ {0} /\ Front(o) \in Seq(Openers) /\ Last(o) \in Openers
      /\ Len(Front(o)) = Len(o) - 1 /\ \A i \in 1..Len(o) - 1 : Front(o)[i] = o[i]
  BY FrontOf
<1>2. ClosersOf(o) \in Seq(Closers) /\ Len(ClosersOf(o)) = Len(o)
  BY ClosersTyped
<1>3. ClosersOf(o) # <<>>
  BY <1>1, <1>2
<1>4. /\ Front(ClosersOf(o)) \in Seq(Closers) /\ Len(Front(ClosersOf(o))) = Len(o) - 1
      /\ \A i \in 1..Len(o) - 1 : Front(ClosersOf(o))[i] = ClosersOf(o)[i]
  BY <1>2, <1>3, FrontOf
<1>5. Last(ClosersOf(o)) = Closer(Last(o))
  BY <1>1, <1>2 DEF Last, ClosersOf
<1>6. ClosersOf(Front(o)) \in Seq(Closers) /\ Len(ClosersOf(Front(o))) = Len(o) - 1
  BY <1>1, ClosersTyped
<1>7. ASSUME NEW i \in 1..Len(o) - 1 PROVE Front(ClosersOf(o))[i] = ClosersOf(Front(o))[i]
  <2>1. ClosersOf(Front(o))[i] = Closer(Front(o)[i]) /\ ClosersOf(o)[i] = Closer(o[i])
    BY <1>1 DEF ClosersOf
  <2> QED
    BY <1>1, <1>4, <2>1
<1>8. Front(ClosersOf(o)) = ClosersOf(Front(o))
  BY <1>4, <1>6, <1>7, SeqEqual
<1> QED
  BY <1>1, <1>3, <1>5, <1>8

IsReading(r) ==
  \E m \in {"plain", "string", "escape"}, o \in Seq(Openers), w \in BOOLEAN : r = Reader(m, o, w)

\* The loop and a reader of the same text: as long as the text is well formed and
\* not too deep, the stack holds the closers of what is open.
Agreeing(s, r) ==
  \E o \in Seq(Openers) : \/ s = Loop(ClosersOf(o), FALSE, FALSE, FALSE) /\ r = Reader("plain", o, FALSE)
                          \/ s = Loop(ClosersOf(o), TRUE, FALSE, FALSE) /\ r = Reader("string", o, FALSE)
                          \/ s = Loop(ClosersOf(o), TRUE, TRUE, FALSE) /\ r = Reader("escape", o, FALSE)
Follows(s, r) == IsReading(r) /\ (s.deep \/ r.wrong \/ Agreeing(s, r))

LEMMA ReadingGoesOn ==
  ASSUME NEW r, IsReading(r), NEW c
  PROVE  IsReading(ReadChar(r, c)) /\ (r.wrong => ReadChar(r, c).wrong)
<1>1. PICK m \in {"plain", "string", "escape"}, o \in Seq(Openers), w \in BOOLEAN : r = Reader(m, o, w)
  BY DEF IsReading
<1>2. \A n, p, v : Reader(n, p, v).wrong = v
  BY DEF Reader
<1>3. \E n \in {"plain", "string", "escape"}, p \in Seq(Openers), v \in BOOLEAN :
        ReadChar(r, c) = Reader(n, p, v) /\ (w => v)
  <2>1. CASE m = "escape"
    <3>1. ReadChar(r, c) = Reader("string", o, w)
      BY <1>1, <2>1, ReadsCharacter
    <3> QED
      BY <3>1
  <2>2. CASE m = "string"
    <3>1. \E n \in {"plain", "string", "escape"} : ReadChar(r, c) = Reader(n, o, w)
      BY <1>1, <2>2, ReadsCharacter
    <3> QED
      BY <3>1
  <2>3. CASE m = "plain" /\ c = "quote"
    <3>1. ReadChar(r, c) = Reader("string", o, w)
      BY <1>1, <2>3, ReadsCharacter
    <3> QED
      BY <3>1
  <2>4. CASE m = "plain" /\ c \in Openers
    <3>1. ReadChar(r, c) = Reader("plain", Append(o, c), w)
      BY <1>1, <2>4, ReadsOpener
    <3>2. Append(o, c) \in Seq(Openers)
      BY <2>4, ClosersAppend
    <3> QED
      BY <3>1, <3>2
  <2>5. CASE m = "plain" /\ c \in Closers
    <3>1. \/ ReadChar(r, c) = Reader("plain", Front(o), w) /\ o # <<>>
          \/ ReadChar(r, c) = Reader("plain", o, TRUE)
      BY <1>1, <2>5, ReadsCloser DEF Closes
    <3>2. o # <<>> => Front(o) \in Seq(Openers)
      BY ClosersFront
    <3> QED
      BY <3>1, <3>2
  <2>6. CASE m = "plain" /\ c \notin {"quote"} \cup Openers \cup Closers
    <3>1. ReadChar(r, c) = Reader("plain", o, w)
      BY <1>1, <2>6, ReadsCharacter
    <3> QED
      BY <3>1
  <2> QED
    BY <1>1, <2>1, <2>2, <2>3, <2>4, <2>5, <2>6
<1> QED
  BY <1>1, <1>2, <1>3 DEF IsReading

LEMMA FollowsStep ==
  ASSUME NEW s, NEW r, NEW c, Follows(s, r)
  PROVE  Follows(Scan(s, c), ReadChar(r, c))
<1>1. IsReading(ReadChar(r, c)) /\ (r.wrong => ReadChar(r, c).wrong)
  BY ReadingGoesOn DEF Follows
<1>2. s.deep => Scan(s, c).deep
  BY DEF Scan
<1>3. ASSUME Agreeing(s, r)
      PROVE  Scan(s, c).deep \/ ReadChar(r, c).wrong \/ Agreeing(Scan(s, c), ReadChar(r, c))
  <2>1. PICK o \in Seq(Openers) : \/ s = Loop(ClosersOf(o), FALSE, FALSE, FALSE) /\ r = Reader("plain", o, FALSE)
                                  \/ s = Loop(ClosersOf(o), TRUE, FALSE, FALSE) /\ r = Reader("string", o, FALSE)
                                  \/ s = Loop(ClosersOf(o), TRUE, TRUE, FALSE) /\ r = Reader("escape", o, FALSE)
    BY <1>3 DEF Agreeing
  <2>2. CASE s = Loop(ClosersOf(o), TRUE, TRUE, FALSE) /\ r = Reader("escape", o, FALSE)
    <3>1. Scan(s, c) = Loop(ClosersOf(o), TRUE, FALSE, FALSE) /\ ReadChar(r, c) = Reader("string", o, FALSE)
      BY <2>2, ScansCharacter, ReadsCharacter
    <3> QED
      BY <3>1 DEF Agreeing
  <2>3. CASE s = Loop(ClosersOf(o), TRUE, FALSE, FALSE) /\ r = Reader("string", o, FALSE)
    <3>1. CASE c = "backslash"
      <4>1. Scan(s, c) = Loop(ClosersOf(o), TRUE, TRUE, FALSE) /\ ReadChar(r, c) = Reader("escape", o, FALSE)
        BY <2>3, <3>1, ScansCharacter, ReadsCharacter
      <4> QED
        BY <4>1 DEF Agreeing
    <3>2. CASE c = "quote"
      <4>1. Scan(s, c) = Loop(ClosersOf(o), FALSE, FALSE, FALSE) /\ ReadChar(r, c) = Reader("plain", o, FALSE)
        BY <2>3, <3>2, ScansCharacter, ReadsCharacter
      <4> QED
        BY <4>1 DEF Agreeing
    <3>3. CASE c \notin {"backslash", "quote"}
      <4>1. Scan(s, c) = s /\ ReadChar(r, c) = r
        BY <2>3, <3>3, ScansCharacter, ReadsCharacter
      <4> QED
        BY <1>3, <4>1
    <3> QED
      BY <3>1, <3>2, <3>3
  <2>4. CASE s = Loop(ClosersOf(o), FALSE, FALSE, FALSE) /\ r = Reader("plain", o, FALSE)
    <3>1. CASE c = "quote"
      <4>1. Scan(s, c) = Loop(ClosersOf(o), TRUE, FALSE, FALSE) /\ ReadChar(r, c) = Reader("string", o, FALSE)
        BY <2>4, <3>1, ScansCharacter, ReadsCharacter
      <4> QED
        BY <4>1 DEF Agreeing
    <3>2. CASE c \in Openers
      <4>1. \/ Scan(s, c) = Loop(ClosersOf(o), FALSE, FALSE, TRUE)
            \/ Scan(s, c) = Loop(Append(ClosersOf(o), Closer(c)), FALSE, FALSE, FALSE)
        BY <2>4, <3>2, ScansCharacter, Zenon
      <4>2. /\ Append(o, c) \in Seq(Openers)
            /\ ClosersOf(Append(o, c)) = Append(ClosersOf(o), Closer(c))
        BY <3>2, ClosersAppend
      <4>3. ReadChar(r, c) = Reader("plain", Append(o, c), FALSE)
        BY <2>4, <3>2, ReadsOpener
      <4>4. \A k : Loop(k, FALSE, FALSE, TRUE).deep
        BY DEF Loop
      <4> QED
        BY <4>1, <4>2, <4>3, <4>4 DEF Agreeing
    <3>3. CASE c \in Closers /\ Closes(o, c)
      <4>1. /\ ClosersOf(o) # <<>> /\ Last(ClosersOf(o)) = c
            /\ Front(ClosersOf(o)) = ClosersOf(Front(o)) /\ Front(o) \in Seq(Openers)
        BY <3>3, ClosersFront DEF Closes
      <4>2. Scan(s, c) = Loop(Front(ClosersOf(o)), FALSE, FALSE, FALSE)
        BY <2>4, <3>3, <4>1, ScansCharacter, Zenon
      <4>3. ReadChar(r, c) = Reader("plain", Front(o), FALSE)
        BY <2>4, <3>3, ReadsCloser
      <4> QED
        BY <4>1, <4>2, <4>3 DEF Agreeing
    <3>4. CASE c \in Closers /\ ~Closes(o, c)
      <4>1. ReadChar(r, c) = Reader("plain", o, TRUE)
        BY <2>4, <3>4, ReadsCloser
      <4> QED
        BY <4>1 DEF Reader
    <3>5. CASE c \notin {"quote"} \cup Openers \cup Closers
      <4>1. Scan(s, c) = s /\ ReadChar(r, c) = r
        BY <2>4, <3>5, ScansCharacter, ReadsCharacter
      <4> QED
        BY <1>3, <4>1
    <3> QED
      BY <3>1, <3>2, <3>3, <3>4, <3>5
  <2> QED
    BY <2>1, <2>2, <2>3, <2>4
<1> QED
  BY <1>1, <1>2, <1>3 DEF Follows

\* Both begin with nothing open.
LEMMA Starts == ReadStart = Reader("plain", <<>>, FALSE) /\ ScanStart = Loop(<<>>, FALSE, FALSE, FALSE)
  BY DEF ReadStart, ScanStart, Reader, Loop

\* The loop follows a reader to the end of a text.
LEMMA ScanFollows ==
  ASSUME NEW V, NEW t \in Seq(V)
  PROVE  \A i \in 0..Len(t) : Follows(Scanning(t)[i], Readings(t)[i])
<1> DEFINE A == {i \in Nat : i <= Len(t) => Follows(Scanning(t)[i], Readings(t)[i])}
<1>1. Follows(ScanStart, ReadStart)
  <2>1. <<>> \in Seq(Openers) /\ ClosersOf(<<>>) = <<>>
    BY DEF ClosersOf
  <2>2. Agreeing(ScanStart, ReadStart)
    BY <2>1, Starts DEF Agreeing
  <2>3. IsReading(ReadStart)
    BY <2>1, Starts DEF IsReading
  <2> QED
    BY <2>2, <2>3 DEF Follows
<1>2. 0 \in A
  BY <1>1, ScanningSteps, ReadingSteps
<1>3. ASSUME NEW n \in A PROVE n + 1 \in A
  <2> SUFFICES ASSUME n + 1 <= Len(t)
               PROVE  Follows(Scanning(t)[n + 1], Readings(t)[n + 1])
    OBVIOUS
  <2>1. n \in Nat /\ n + 1 \in 1..Len(t) /\ (n + 1) - 1 = n /\ Follows(Scanning(t)[n], Readings(t)[n])
    OBVIOUS
  <2> HIDE DEF A
  <2>2. Scanning(t)[n + 1] = Scan(Scanning(t)[n], t[n + 1])
    BY <2>1, ScanningSteps
  <2>3. Readings(t)[n + 1] = ReadChar(Readings(t)[n], t[n + 1])
    BY <2>1, ReadingSteps
  <2> QED
    BY <2>1, <2>2, <2>3, FollowsStep
<1>4. \A n \in Nat : n \in A
  <2> HIDE DEF A
  <2> QED
    BY <1>2, <1>3, EveryNat
<1> QED
  BY <1>4

\* Two texts are read alike as far as they are alike.
LEMMA SamePrefix ==
  ASSUME NEW V, NEW t \in Seq(V), NEW u \in Seq(V), NEW k \in Nat, k <= Len(t), k <= Len(u),
         \A i \in 1..k : u[i] = t[i]
  PROVE  Readings(u)[k] = Readings(t)[k]
<1> DEFINE A == {i \in Nat : i <= k => Readings(u)[i] = Readings(t)[i]}
<1>1. 0 \in A
  BY ReadingSteps
<1>2. ASSUME NEW n \in A PROVE n + 1 \in A
  <2> SUFFICES ASSUME n + 1 <= k PROVE Readings(u)[n + 1] = Readings(t)[n + 1]
    OBVIOUS
  <2>1. /\ n \in Nat /\ (n + 1) - 1 = n /\ Readings(u)[n] = Readings(t)[n]
        /\ n + 1 \in 1..Len(t) /\ n + 1 \in 1..Len(u) /\ u[n + 1] = t[n + 1]
    OBVIOUS
  <2> HIDE DEF A
  <2>2. Readings(t)[n + 1] = ReadChar(Readings(t)[n], t[n + 1])
    BY <2>1, ReadingSteps
  <2>3. Readings(u)[n + 1] = ReadChar(Readings(u)[n], u[n + 1])
    BY <2>1, ReadingSteps
  <2> QED
    BY <2>1, <2>2, <2>3
<1>3. \A n \in Nat : n \in A
  <2> HIDE DEF A
  <2> QED
    BY <1>1, <1>2, EveryNat
<1> QED
  BY <1>3

\* All but the last m openings of o are still open; u goes on with m closers.
LeftOpen(r, o, m) ==
  \E p \in Seq(Openers) : /\ r = Reader("plain", p, FALSE)
                          /\ Len(p) = Len(o) - m /\ \A i \in 1..Len(p) : p[i] = o[i]
GoesOn(u, k, o, m) == \A j \in 1..m : u[k + j] = Closer(o[Len(o) - j + 1])

\* Closers close what is open, the last opened first.
LEMMA ClosersClose ==
  ASSUME NEW V, NEW u \in Seq(V), NEW k \in Nat, NEW o \in Seq(Openers),
         NEW m \in Nat, m <= Len(o), k + m <= Len(u),
         Readings(u)[k] = Reader("plain", o, FALSE), GoesOn(u, k, o, m)
  PROVE  LeftOpen(Readings(u)[k + m], o, m)
<1> DEFINE Closed(n, p) == /\ Readings(u)[k + n] = Reader("plain", p, FALSE)
                           /\ Len(p) = Len(o) - n /\ \A i \in 1..Len(p) : p[i] = o[i]
           A == {n \in Nat : n <= m => \E p \in Seq(Openers) : Closed(n, p)}
<1>1. 0 \in A
  <2>1. k + 0 = k /\ Len(o) - 0 = Len(o)
    OBVIOUS
  <2>2. Closed(0, o)
    BY <2>1
  <2> HIDE DEF Closed
  <2> QED
    BY <2>2
<1> HIDE DEF Closed
<1>2. ASSUME NEW n \in A PROVE n + 1 \in A
  <2> SUFFICES ASSUME n + 1 <= m PROVE \E p \in Seq(Openers) : Closed(n + 1, p)
    OBVIOUS
  <2> USE DEF Closed
  <2>1. n \in Nat /\ n <= m
    OBVIOUS
  <2>2. PICK p \in Seq(Openers) : Closed(n, p)
    BY <2>1
  <2> DEFINE c == u[k + n + 1]
  <2>3. Len(o) \in Nat /\ Len(p) \in Nat \ {0} /\ p # <<>>
    BY <2>1, <2>2
  <2>4. /\ Front(p) \in Seq(Openers) /\ Last(p) \in Openers
        /\ Len(Front(p)) = Len(p) - 1 /\ \A i \in 1..Len(p) - 1 : Front(p)[i] = p[i]
    BY <2>3, FrontOf
  <2>5. c = Closer(Last(p))
    <3>1. n + 1 \in 1..m /\ k + (n + 1) = k + n + 1 /\ Len(o) - (n + 1) + 1 = Len(p)
      BY <2>1, <2>2, <2>3
    <3>2. c = Closer(o[Len(p)])
      BY <3>1 DEF GoesOn
    <3>3. o[Len(p)] = p[Len(p)]
      BY <2>2, <2>3
    <3> QED
      BY <3>2, <3>3 DEF Last
  <2>6. c \in Closers /\ Closes(p, c)
    BY <2>3, <2>4, <2>5 DEF Closes, Closer, Closers
  <2>7. ReadChar(Reader("plain", p, FALSE), c) = Reader("plain", Front(p), FALSE)
    BY <2>6, ReadsCloser
  <2>8. Readings(u)[k + n + 1] = ReadChar(Readings(u)[k + n], c)
    <3>1. k + n + 1 \in 1..Len(u) /\ (k + n + 1) - 1 = k + n
      BY <2>1
    <3> QED
      BY <3>1, ReadingSteps
  <2>9. Closed(n + 1, Front(p))
    <3>1. k + (n + 1) = k + n + 1
      BY <2>1
    <3>2. Readings(u)[k + (n + 1)] = Reader("plain", Front(p), FALSE)
      BY <2>2, <2>7, <2>8, <3>1
    <3>3. Len(Front(p)) = Len(o) - (n + 1) /\ \A i \in 1..Len(Front(p)) : Front(p)[i] = o[i]
      BY <2>1, <2>2, <2>3, <2>4
    <3> QED
      BY <3>2, <3>3
  <2> QED
    BY <2>4, <2>9
<1>3. \A n \in Nat : n \in A
  <2> HIDE DEF A
  <2> QED
    BY <1>1, <1>2, EveryNat
<1>4. PICK p \in Seq(Openers) : Closed(m, p)
  BY <1>3
<1> QED
  BY <1>4 DEF Closed, LeftOpen

-----------------------------------------------------------------------------
(* The repair.                                                              *)

\* Braces, named: the SMT translation cannot take them literally.
LeftBrace  == "{"
RightBrace == "}"

LEMMA Braces ==
  /\ LeftBrace \in Openers /\ RightBrace \in Closers /\ Closer(LeftBrace) = RightBrace
  /\ \A x \in Openers : Closer(x) = RightBrace => x = LeftBrace
  BY Zenon DEF LeftBrace, RightBrace, Openers, Closers, Closer

Output == Chars \cup {"{", "}", "]", "quote", "comma", "meta"}

\* A text with one character more is read one step further.
LEMMA OneMore ==
  ASSUME NEW V, NEW a \in Seq(V), NEW c \in V
  PROVE  /\ a \o <<c>> \in Seq(V) /\ Reading(a \o <<c>>) = ReadChar(Reading(a), c)
<1> DEFINE u == a \o <<c>>
           n == Len(a)
<1>1. <<c>> \in Seq(V) /\ Len(<<c>>) = 1 /\ <<c>>[1] = c
  OBVIOUS
<1>2. /\ u \in Seq(V) /\ Len(u) = n + 1 /\ n \in Nat
      /\ \A i \in 1..n : u[i] = a[i]
  BY <1>1, ConcatProperties
<1>3. u[n + 1] = c
  BY <1>1, <1>2, ConcatProperties
<1> HIDE DEF u
<1>4. Readings(u)[n] = Readings(a)[n]
  BY <1>2, SamePrefix
<1>5. Readings(u)[n + 1] = ReadChar(Readings(u)[n], c)
  <2>1. n + 1 \in 1..Len(u) /\ (n + 1) - 1 = n
    BY <1>2
  <2> QED
    BY <1>2, <1>3, <2>1, ReadingSteps
<1> QED
  BY <1>2, <1>4, <1>5 DEF Reading, u

\* An escape begins in a string.
ModeOf(r) == r.mode
OpenOf(r) == r.open
WrongOf(r) == r.wrong

LEMMA EscapeBegins ==
  ASSUME NEW q, IsReading(q), NEW c, NEW o, NEW z, ReadChar(q, c) = Reader("escape", o, z)
  PROVE  q = Reader("string", o, z)
<1>1. PICK m \in {"plain", "string", "escape"}, p \in Seq(Openers), w \in BOOLEAN : q = Reader(m, p, w)
  BY DEF IsReading
<1>2. \A n, x, v : /\ ModeOf(Reader(n, x, v)) = n
                   /\ OpenOf(Reader(n, x, v)) = x
                   /\ WrongOf(Reader(n, x, v)) = v
  BY DEF Reader, ModeOf, OpenOf, WrongOf
<1>3. m # "escape"
  <2> SUFFICES ASSUME m = "escape" PROVE FALSE
    OBVIOUS
  <2>1. ReadChar(q, c) = Reader("string", p, w)
    BY <1>1, ReadsCharacter
  <2> QED
    BY <1>2, <2>1
<1>4. m # "plain"
  <2> SUFFICES ASSUME m = "plain" PROVE FALSE
    OBVIOUS
  <2>1. CASE c \in Openers
    <3>1. ReadChar(q, c) = Reader("plain", Append(p, c), w)
      BY <1>1, <2>1, ReadsOpener
    <3> QED
      BY <1>2, <3>1
  <2>2. CASE c \in Closers
    <3>1. PICK t : t = TRUE
      OBVIOUS
    <3>2. ReadChar(q, c) = Reader("plain", Front(p), w) \/ ReadChar(q, c) = Reader("plain", p, t)
      BY <1>1, <2>2, <3>1, ReadsCloser
    <3> QED
      BY <1>2, <3>2
  <2>3. CASE c \notin Openers \cup Closers
    <3>1. ReadChar(q, c) = Reader("string", p, w) \/ ReadChar(q, c) = Reader("plain", p, w)
      BY <1>1, <2>3, ReadsCharacter
    <3> QED
      BY <1>2, <3>1
  <2> QED
    BY <2>1, <2>2, <2>3
<1>5. ReadChar(q, c) = Reader("escape", p, w)
  <2>1. \/ ReadChar(q, c) = Reader("escape", p, w)
        \/ ReadChar(q, c) = Reader("plain", p, w)
        \/ ReadChar(q, c) = Reader("string", p, w)
    BY <1>1, <1>3, <1>4, ReadsCharacter
  <2> QED
    BY <1>2, <2>1
<1>6. p = o
  BY <1>2, <1>5
<1>7. w = z
  BY <1>2, <1>5
<1> QED
  BY <1>1, <1>3, <1>4, <1>6, <1>7

\* What is kept of a text: not the begun escape, and its string is ended.
Kept(t) == (IF Scanned(t).escaped THEN Front(t) ELSE t)
             \o (IF Scanned(t).inString THEN <<"quote">> ELSE <<>>)

LEMMA KeptRead ==
  ASSUME NEW t \in Seq(Chars), t # <<>>, Agreeing(Scanned(t), Reading(t))
  PROVE  /\ Kept(t) \in Seq(Output)
         /\ \E o \in Seq(Openers) : /\ Scanned(t).stack = ClosersOf(o)
                                    /\ Reading(Kept(t)) = Reader("plain", o, FALSE)
<1> DEFINE s == Scanned(t)
           r == Reading(t)
<1>1. PICK o \in Seq(Openers) : \/ s = Loop(ClosersOf(o), FALSE, FALSE, FALSE) /\ r = Reader("plain", o, FALSE)
                                \/ s = Loop(ClosersOf(o), TRUE, FALSE, FALSE) /\ r = Reader("string", o, FALSE)
                                \/ s = Loop(ClosersOf(o), TRUE, TRUE, FALSE) /\ r = Reader("escape", o, FALSE)
  BY DEF Agreeing
<1>2. t \in Seq(Output) /\ Len(t) \in Nat \ {0}
  <2>1. Chars \subseteq Output
    BY DEF Output
  <2> QED
    BY <2>1, SeqMonotonic
<1>3. \A q, e : LET x == Loop(ClosersOf(o), q, e, FALSE)
                IN x.stack = ClosersOf(o) /\ x.inString = q /\ x.escaped = e
  BY DEF Loop
<1>4. "quote" \in Output
  BY DEF Output
<1> HIDE DEF s, r
<1>5. CASE s = Loop(ClosersOf(o), FALSE, FALSE, FALSE) /\ r = Reader("plain", o, FALSE)
  <2>1. Kept(t) = t \o <<>>
    BY <1>3, <1>5 DEF Kept, s
  <2>2. Kept(t) = t
    BY <2>1
  <2> QED
    BY <1>2, <1>3, <1>5, <2>2 DEF s, r
<1>6. CASE s = Loop(ClosersOf(o), TRUE, FALSE, FALSE) /\ r = Reader("string", o, FALSE)
  <2>1. Kept(t) = t \o <<"quote">>
    BY <1>3, <1>6 DEF Kept, s
  <2>2. Kept(t) \in Seq(Output) /\ Reading(Kept(t)) = ReadChar(r, "quote")
    BY <1>2, <1>4, <2>1, OneMore DEF r
  <2>3. ReadChar(r, "quote") = Reader("plain", o, FALSE)
    BY <1>6, ReadsCharacter
  <2> QED
    BY <1>3, <1>6, <2>2, <2>3 DEF s
<1>7. CASE s = Loop(ClosersOf(o), TRUE, TRUE, FALSE) /\ r = Reader("escape", o, FALSE)
  <2> DEFINE n == Len(t) - 1
             f == Front(t)
  <2>1. Kept(t) = f \o <<"quote">>
    BY <1>3, <1>7 DEF Kept, s
  <2>2. f \in Seq(Output) /\ Len(f) = n /\ n \in Nat /\ \A i \in 1..n : f[i] = t[i]
    BY <1>2, FrontOf
  <2> HIDE DEF f
  <2>3. Readings(t)[n] = Reader("string", o, FALSE)
    <3>1. r = ReadChar(Readings(t)[n], t[n + 1]) /\ n \in 0..Len(t)
      <4>1. n + 1 = Len(t) /\ n + 1 \in 1..Len(t) /\ (n + 1) - 1 = n /\ n \in 0..Len(t)
        BY <1>2
      <4> QED
        BY <4>1, ReadingSteps DEF r, Reading
    <3>2. IsReading(Readings(t)[n])
      BY <3>1, ScanFollows DEF Follows
    <3> QED
      <4>1. PICK z : z = FALSE
        OBVIOUS
      <4>2. ReadChar(Readings(t)[n], t[n + 1]) = Reader("escape", o, z)
        BY <1>7, <3>1, <4>1
      <4>3. Readings(t)[n] = Reader("string", o, z)
        BY <3>2, <4>2, EscapeBegins
      <4> QED
        BY <4>1, <4>3
  <2>4. Reading(f) = Reader("string", o, FALSE)
    <3>1. Readings(f)[n] = Readings(t)[n]
      <4>1. n <= Len(t) /\ n <= Len(f)
        BY <1>2, <2>2
      <4> QED
        BY <1>2, <2>2, <4>1, SamePrefix
    <3> QED
      BY <2>2, <2>3, <3>1 DEF Reading
  <2>5. Kept(t) \in Seq(Output) /\ Reading(Kept(t)) = ReadChar(Reading(f), "quote")
    BY <1>4, <2>1, <2>2, OneMore
  <2>6. ReadChar(Reading(f), "quote") = Reader("plain", o, FALSE)
    BY <2>4, ReadsCharacter
  <2> QED
    BY <1>3, <1>7, <2>5, <2>6 DEF s
<1> QED
  BY <1>1, <1>5, <1>6, <1>7

\* What a text is read to, followed by the last closers of what is open.
LEMMA EndRead ==
  ASSUME NEW a \in Seq(Output), NEW o \in Seq(Openers), Reading(a) = Reader("plain", o, FALSE),
         NEW b \in Seq(Output), Len(b) <= Len(o),
         \A j \in 1..Len(b) : b[j] = Closer(o[Len(o) - j + 1])
  PROVE  LeftOpen(Reading(a \o b), o, Len(b))
<1> DEFINE u == a \o b
           k == Len(a)
           m == Len(b)
<1>1. /\ u \in Seq(Output) /\ Len(u) = k + m /\ k \in Nat /\ m \in Nat
      /\ \A i \in 1..k : u[i] = a[i]
  BY ConcatProperties
<1>2. GoesOn(u, k, o, m)
  <2> SUFFICES ASSUME NEW j \in 1..m PROVE u[k + j] = b[j]
    BY DEF GoesOn
  <2>1. k + j \in 1..k + m /\ ~(k + j <= k) /\ (k + j) - k = j
    BY <1>1
  <2>2. u[k + j] = IF k + j <= k THEN a[k + j] ELSE b[(k + j) - k]
    BY <2>1, ConcatProperties
  <2> QED
    BY <2>1, <2>2
<1> HIDE DEF u
<1>3. Readings(u)[k] = Reader("plain", o, FALSE)
  <2>1. k <= Len(u) /\ k <= Len(a)
    BY <1>1
  <2>2. Readings(u)[k] = Readings(a)[k]
    BY <1>1, <2>1, SamePrefix
  <2> QED
    BY <2>2 DEF Reading
<1>4. m <= Len(o) /\ k + m <= Len(u)
  BY <1>1
<1> HIDE DEF k, m
<1>5. LeftOpen(Readings(u)[k + m], o, m)
  BY <1>1, <1>2, <1>3, <1>4, ClosersClose
<1> QED
  BY <1>1, <1>5 DEF Reading, u, m

\* Short sequences.
LEMMA Lengths ==
  ASSUME NEW V, NEW q \in Seq(V)
  PROVE  Len(q) \in Nat /\ (q = <<>> <=> Len(q) = 0)
  BY EmptySeq, LenProperties

LEMMA Single ==
  ASSUME NEW V, NEW c \in V
  PROVE  <<c>> \in Seq(V) /\ Len(<<c>>) = 1 /\ <<c>>[1] = c /\ Append(<<>>, c) = <<c>>
<1>1. <<c>> \in Seq(V) /\ Len(<<c>>) = 1 /\ <<c>>[1] = c
  OBVIOUS
<1>2. /\ Append(<<>>, c) \in Seq(V) /\ Len(Append(<<>>, c)) = 1
      /\ Append(<<>>, c)[1] = c
  BY AppendProperties, EmptySeq
<1> DEFINE q == Append(<<>>, c)
<1> HIDE DEF q
<1>3. q = <<c>>
  <2>1. q \in Seq(V) /\ Len(q) = 1 /\ q[1] = c
    BY <1>2 DEF q
  <2>2. Len(q) = Len(<<c>>) /\ \A i \in 1..Len(q) : q[i] = <<c>>[i]
    BY <1>1, <2>1
  <2> QED
    BY <1>1, <2>1, <2>2, SeqEqual
<1> QED
  BY <1>1, <1>3 DEF q

LEMMA ReverseOf ==
  ASSUME NEW o \in Seq(Openers)
  PROVE  LET c == Reverse(ClosersOf(o))
         IN /\ c \in Seq(Output) /\ Len(c) = Len(o)
            /\ \A j \in 1..Len(o) : c[j] = Closer(o[Len(o) - j + 1])
<1> DEFINE k == ClosersOf(o)
           c == Reverse(k)
<1>1. k \in Seq(Closers) /\ Len(k) = Len(o) /\ Len(o) \in Nat
  BY ClosersTyped
<1>2. c = [j \in 1..Len(o) |-> k[Len(o) - j + 1]]
  BY <1>1 DEF Reverse
<1>3. ASSUME NEW j \in 1..Len(o) PROVE k[Len(o) - j + 1] = Closer(o[Len(o) - j + 1])
  <2>1. Len(o) - j + 1 \in 1..Len(o)
    BY <1>1
  <2> QED
    BY <2>1 DEF ClosersOf
<1>4. \A x : Closer(x) \in Output
  BY DEF Closer, Output
<1> HIDE DEF k, c
<1>5. c = [j \in 1..Len(o) |-> Closer(o[Len(o) - j + 1])]
  BY <1>2, <1>3
<1> DEFINE F(j) == Closer(o[Len(o) - j + 1])
<1>6. \A j \in 1..Len(o) : F(j) \in Output
  BY <1>4
<1>7. c = [j \in 1..Len(o) |-> F(j)]
  BY <1>5
<1> HIDE DEF F
<1>8. c \in Seq(Output) /\ Len(c) = Len(o) /\ \A j \in 1..Len(o) : c[j] = F(j)
  BY <1>1, <1>6, <1>7
<1> QED
  BY <1>8 DEF F, c, k

\* Sequences written out, as concatenations.
LEMMA ConcatPair ==
  ASSUME NEW x, NEW y
  PROVE  <<x>> \o <<y>> = <<x, y>>
<1>1. <<x>> \in Seq({x, y}) /\ <<y>> \in Seq({x, y}) /\ Len(<<x>>) = 1 /\ Len(<<y>>) = 1
  OBVIOUS
<1>2. <<x, y>> \in Seq({x, y}) /\ Len(<<x, y>>) = 2
  OBVIOUS
<1>3. /\ <<x>> \o <<y>> \in Seq({x, y}) /\ Len(<<x>> \o <<y>>) = 2
      /\ \A i \in 1..2 : (<<x>> \o <<y>>)[i] = IF i <= 1 THEN <<x>>[i] ELSE <<y>>[i - 1]
  BY <1>1, ConcatProperties
<1>4. (<<x>> \o <<y>>)[1] = x /\ (<<x>> \o <<y>>)[2] = y
  BY <1>3
<1>5. \A i \in 1..2 : (<<x>> \o <<y>>)[i] = <<x, y>>[i]
  BY <1>4
<1> QED
  BY <1>2, <1>3, <1>5, SeqEqual

LEMMA ConcatTriple ==
  ASSUME NEW x, NEW y, NEW z
  PROVE  <<x>> \o <<y>> \o <<z>> = <<x, y, z>>
<1> DEFINE a == <<x, y>> \o <<z>>
           V == {x, y, z}
<1>1. <<x, y>> \in Seq(V) /\ <<z>> \in Seq(V) /\ Len(<<x, y>>) = 2 /\ Len(<<z>>) = 1
  OBVIOUS
<1>2. <<x, y, z>> \in Seq(V) /\ Len(<<x, y, z>>) = 3
  OBVIOUS
<1>3. /\ a \in Seq(V) /\ Len(a) = 3
      /\ \A i \in 1..3 : a[i] = IF i <= 2 THEN <<x, y>>[i] ELSE <<z>>[i - 2]
  BY <1>1, ConcatProperties
<1> HIDE DEF a
<1>4. a[1] = x /\ a[2] = y /\ a[3] = z
  BY <1>3
<1>5. \A i \in 1..3 : a[i] = <<x, y, z>>[i]
  BY <1>4
<1>6. a = <<x, y, z>>
  BY <1>2, <1>3, <1>5, SeqEqual
<1> QED
  BY <1>6, ConcatPair DEF a

\* The brace that was opened alone is closed.
LEMMA ClosesLast ==
  ASSUME NEW p \in Seq(Openers), Len(p) = 1, p[1] = LeftBrace
  PROVE  ReadChar(Reader("plain", p, FALSE), RightBrace) = Reader("plain", <<>>, FALSE)
<1>1. p # <<>>
  BY Lengths
<1>2. Last(p) = LeftBrace
  BY DEF Last
<1>3. Closes(p, RightBrace)
  BY <1>1, <1>2, Braces DEF Closes
<1>4. Front(p) = <<>>
  <2>1. Front(p) \in Seq(Openers) /\ Len(Front(p)) = Len(p) - 1
    BY <1>1, FrontOf
  <2>2. Len(Front(p)) = 0
    BY <2>1
  <2> QED
    BY <2>1, <2>2, Lengths
<1> QED
  BY <1>3, <1>4, Braces, ReadsCloser

LEMMA NothingRead ==
  /\ <<>> \in Seq(Output) /\ Reading(<<>>) = Reader("plain", <<>>, FALSE)
<1>1. <<>> \in Seq(Output) /\ Len(<<>>) = 0
  BY EmptySeq
<1> QED
  BY <1>1, Starts, ReadingSteps DEF Reading

\* Metadata is put before the last brace.
LEMMA MetaRead ==
  ASSUME NEW a \in Seq(Output), NEW p \in Seq(Openers), Reading(a) = Reader("plain", p, FALSE),
         Len(p) = 1, p[1] = LeftBrace
  PROVE  Reading(a \o Meta \o <<RightBrace>>) = Reader("plain", <<>>, FALSE)
<1> DEFINE b == a \o <<"comma">>
           c == b \o <<"meta">>
<1>1. "comma" \in Output /\ "meta" \in Output /\ RightBrace \in Output
  BY DEF Output, RightBrace
<1>2. a \o Meta = c
  <2>1. <<"comma">> \in Seq(Output) /\ <<"meta">> \in Seq(Output)
    BY <1>1, Single
  <2>2. <<"comma">> \o <<"meta">> = Meta
    BY ConcatPair DEF Meta
  <2>3. c = a \o (<<"comma">> \o <<"meta">>)
    BY <2>1, ConcatAssociative
  <2> QED
    BY <2>2, <2>3
<1>3. {"comma", "meta"} \cap ({"quote"} \cup Openers \cup Closers) = {}
  BY DEF Openers, Closers
<1>4. b \in Seq(Output) /\ Reading(b) = Reader("plain", p, FALSE)
  <2>1. b \in Seq(Output) /\ Reading(b) = ReadChar(Reading(a), "comma")
    BY <1>1, OneMore
  <2> QED
    BY <1>3, <2>1, ReadsCharacter
<1> HIDE DEF b
<1>5. c \in Seq(Output) /\ Reading(c) = Reader("plain", p, FALSE)
  <2>1. c \in Seq(Output) /\ Reading(c) = ReadChar(Reading(b), "meta")
    BY <1>1, <1>4, OneMore
  <2> QED
    BY <1>3, <1>4, <2>1, ReadsCharacter
<1> HIDE DEF c
<1>6. Reading(c \o <<RightBrace>>) = ReadChar(Reader("plain", p, FALSE), RightBrace)
  BY <1>1, <1>5, OneMore
<1>7. ReadChar(Reader("plain", p, FALSE), RightBrace) = Reader("plain", <<>>, FALSE)
  BY ClosesLast
<1> QED
  BY <1>2, <1>6, <1>7

LEMMA TooDeepRead == Reading(TooDeep) = Reader("plain", <<>>, FALSE)
<1> DEFINE q == <<LeftBrace>>
<1>1. LeftBrace \in Output /\ "meta" \in Output /\ RightBrace \in Output
  BY DEF Output, LeftBrace, RightBrace
<1>2. "meta" \notin {"quote"} \cup Openers \cup Closers
  BY DEF Openers, Closers
<1>3. q \in Seq(Openers) /\ Len(q) = 1 /\ q[1] = LeftBrace /\ Append(<<>>, LeftBrace) = q
  BY Braces, Single
<1>4. <<>> \o <<LeftBrace>> = q
  BY <1>3, ConcatEmptySeq
<1>5. TooDeep = q \o <<"meta">> \o <<RightBrace>>
  <2>1. TooDeep = <<LeftBrace, "meta", RightBrace>>
    BY DEF TooDeep, LeftBrace, RightBrace
  <2> QED
    BY <2>1, ConcatTriple
<1> HIDE DEF q
<1>6. q \in Seq(Output) /\ Reading(q) = Reader("plain", q, FALSE)
  <2>1. q \in Seq(Output) /\ Reading(q) = ReadChar(Reader("plain", <<>>, FALSE), LeftBrace)
    BY <1>1, <1>4, NothingRead, OneMore
  <2> QED
    BY <1>3, <2>1, Braces, ReadsOpener
<1>7. q \o <<"meta">> \in Seq(Output) /\ Reading(q \o <<"meta">>) = Reader("plain", q, FALSE)
  <2>1. q \o <<"meta">> \in Seq(Output) /\ Reading(q \o <<"meta">>) = ReadChar(Reader("plain", q, FALSE), "meta")
    BY <1>1, <1>6, OneMore
  <2> QED
    BY <1>2, <2>1, ReadsCharacter
<1>8. Reading(TooDeep) = ReadChar(Reader("plain", q, FALSE), RightBrace)
  BY <1>1, <1>5, <1>7, OneMore
<1> QED
  BY <1>3, <1>8, ClosesLast

\* JSONAutoRepair of an object or an array.
Structured(t) == t # <<>> /\ Head(t) \in {"{", "["}

LEMMA RepairRead ==
  ASSUME NEW t \in Seq(Chars), Structured(t), ~WrongOf(Reading(t))
  PROVE  Reading(JSONAutoRepair(t)) = Reader("plain", <<>>, FALSE)
<1> DEFINE s == Scanned(t)
           k == Reverse(s.stack)
<1>1. JSONAutoRepair(t) =
        IF s.deep THEN TooDeep
        ELSE IF s.stack # <<>> /\ Head(s.stack) = RightBrace
        THEN Kept(t) \o Front(k) \o Meta \o <<RightBrace>>
        ELSE Kept(t) \o k
  BY DEF JSONAutoRepair, Kept, Structured, RightBrace
<1>2. CASE s.deep
  BY <1>1, <1>2, TooDeepRead
<1>3. CASE ~s.deep
  <2>1. t # <<>> /\ Agreeing(s, Reading(t))
    <3>1. Len(t) \in Nat
      BY LenProperties
    <3>2. Follows(s, Reading(t))
      BY <3>1, ScanFollows DEF Scanned, Reading
    <3> QED
      BY <1>3, <3>2 DEF Follows, WrongOf, Structured
  <2>2. PICK o \in Seq(Openers) : s.stack = ClosersOf(o) /\ Reading(Kept(t)) = Reader("plain", o, FALSE)
    BY <2>1, KeptRead
  <2>3. Kept(t) \in Seq(Output)
    BY <2>1, KeptRead
  <2>4. k = Reverse(ClosersOf(o)) /\ Len(o) \in Nat
    BY <2>2, LenProperties
  <2> HIDE DEF k, s
  <2>5. /\ k \in Seq(Output) /\ Len(k) = Len(o)
        /\ \A j \in 1..Len(o) : k[j] = Closer(o[Len(o) - j + 1])
    BY <2>4, ReverseOf
  <2>6. CASE s.stack # <<>> /\ Head(s.stack) = RightBrace
    <3> DEFINE f == Front(k)
    <3>1. Len(o) \in Nat \ {0} /\ k # <<>>
      <4>1. ClosersOf(o) \in Seq(Closers) /\ Len(ClosersOf(o)) = Len(o)
        BY ClosersTyped
      <4>2. Len(ClosersOf(o)) # 0
        BY <2>2, <2>6, <4>1, EmptySeq
      <4> QED
        BY <2>4, <2>5, <4>1, <4>2, EmptySeq
    <3>2. o[1] = LeftBrace
      <4>1. ClosersOf(o)[1] = RightBrace /\ 1 \in 1..Len(o)
        BY <2>2, <2>6, <3>1, ClosersTyped, HeadTailProperties
      <4>2. Closer(o[1]) = RightBrace /\ o[1] \in Openers
        BY <4>1, ElementOfSeq DEF ClosersOf
      <4> QED
        BY <4>2, Braces
    <3>3. f \in Seq(Output) /\ Len(f) = Len(o) - 1 /\ \A j \in 1..Len(o) - 1 : f[j] = k[j]
      BY <2>5, <3>1, FrontOf
    <3> HIDE DEF f
    <3>4. Len(f) <= Len(o) /\ \A j \in 1..Len(f) : f[j] = Closer(o[Len(o) - j + 1])
      BY <2>5, <3>1, <3>3
    <3>5. PICK p \in Seq(Openers) :
            /\ Reading(Kept(t) \o f) = Reader("plain", p, FALSE)
            /\ Len(p) = Len(o) - Len(f) /\ \A i \in 1..Len(p) : p[i] = o[i]
      <4>1. LeftOpen(Reading(Kept(t) \o f), o, Len(f))
        BY <2>2, <2>3, <3>3, <3>4, EndRead
      <4> QED
        BY <4>1 DEF LeftOpen
    <3>6. Len(p) = 1 /\ p[1] = LeftBrace
      BY <3>1, <3>2, <3>3, <3>5
    <3>7. Kept(t) \o f \in Seq(Output)
      BY <2>3, <3>3, ConcatProperties
    <3>8. Reading(Kept(t) \o f \o Meta \o <<RightBrace>>) = Reader("plain", <<>>, FALSE)
      BY <3>5, <3>6, <3>7, MetaRead
    <3> QED
      BY <1>1, <1>3, <2>6, <3>8 DEF f
  <2>7. CASE ~(s.stack # <<>> /\ Head(s.stack) = RightBrace)
    <3>1. Len(k) <= Len(o) /\ \A j \in 1..Len(k) : k[j] = Closer(o[Len(o) - j + 1])
      BY <2>4, <2>5
    <3>2. PICK p \in Seq(Openers) :
            /\ Reading(Kept(t) \o k) = Reader("plain", p, FALSE)
            /\ Len(p) = Len(o) - Len(k) /\ \A i \in 1..Len(p) : p[i] = o[i]
      <4>1. LeftOpen(Reading(Kept(t) \o k), o, Len(k))
        BY <2>2, <2>3, <2>5, <3>1, EndRead
      <4> QED
        BY <4>1 DEF LeftOpen
    <3>3. Len(p) = 0
      BY <2>4, <2>5, <3>2
    <3>4. p = <<>>
      BY <3>3, Lengths
    <3> QED
      BY <1>1, <1>3, <2>7, <3>2, <3>4
  <2> QED
    BY <2>6, <2>7
<1> QED
  BY <1>2, <1>3

TextOK == text \in Seq(Chars)

\* Wherever a text of whatever length is cut, also in a string or an escape, and
\* however deep it is, its repair closes every string and bracket in order, if the
\* text itself closed nothing wrongly (watchdog.go, JSONAutoRepair).
THEOREM RepairAlways == WatchdogSpec => []RepairBalances
<1>1. WatchdogInit => TextOK
  BY EmptySeq DEF WatchdogInit, TextOK
<1>2. TextOK /\ [CharArrives]_text => TextOK'
  BY AppendProperties DEF CharArrives, TextOK
<1>3. TextOK => RepairBalances
  BY NothingRead, RepairRead DEF RepairBalances, TextOK, WrongOf, Structured
<1> QED
  BY <1>1, <1>2, <1>3, PTL DEF WatchdogSpec
=============================================================================
