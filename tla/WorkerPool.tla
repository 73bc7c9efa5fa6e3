----------------------------- MODULE WorkerPool -----------------------------
(***************************************************************************)
(* Subagent calls of the hub (internal/hub/pool.go, and handleSubagentCall *)
(* of hub.go): a token bucket, one semaphore per kind of worker with its   *)
(* gauges, the registry worker_kill looks into, and the response written   *)
(* under the hub's mutex.  A call is the goroutine of one connection.      *)
(***************************************************************************)
EXTENDS Naturals, FiniteSets

CONSTANTS
  Callers,        \* connections that make subagent calls
  KindOf,         \* the kind of worker each asks for
  Limit,          \* slots per kind (5 tasks and 50 batches in the code)
  WorkerIds,      \* tool name and clock modulo 10 ms: not unique
  Nobody,         \* mutex free, no id, no kill under way
  Cost,           \* clock ticks that refill one token
  Capacity,       \* of the bucket, in ticks
  MaxSubagentCalls, MaxTicks

Kinds == {"task", "batch"}

ASSUME PoolAssumption ==
  /\ IsFiniteSet(Callers) /\ KindOf \in [Callers -> Kinds] /\ Limit \in [Kinds -> Nat]
  /\ Cost \in Nat \ {0} /\ Capacity \in Nat /\ Cost <= Capacity
  /\ MaxSubagentCalls \in Nat /\ MaxTicks \in Nat
  /\ Nobody \notin Callers \cup WorkerIds

VARIABLES
  at,                       \* where each call is
  ended,                    \* calls whose step context is over
  clock, tokens, refilled,  \* the bucket and tbLastRefill
  bucketMu, wakeAt,         \* who sleeps with p.mu held, and until when
  admitted,                 \* calls let through the bucket so far
  slots, queued, active,    \* per kind: semaphore, and the two gauges
  worker, registry,         \* each call's id; id -> call
  kill,                     \* KillWorker between its lookup and its end
  hubMu, stalled,           \* who writes under h.mu; hosts that do not read
  arrivals

bucket   == <<tokens, refilled, bucketMu, wakeAt, admitted>>
gauges   == <<slots, queued, active>>
listed   == <<worker, registry, kill>>
poolVars == <<at, ended, clock, bucket, gauges, listed, hubMu, stalled, arrivals>>

Move(c, l) == at' = [at EXCEPT ![c] = l]
Add(f, c)  == [f EXCEPT ![KindOf[c]] = @ + 1]
Take(f, c) == [f EXCEPT ![KindOf[c]] = @ - 1]

PoolInit ==
  /\ at = [c \in Callers |-> "idle"] /\ ended = {}
  /\ clock = 0 /\ tokens = Capacity /\ refilled = 0
  /\ bucketMu = Nobody /\ wakeAt = 0 /\ admitted = 0
  /\ slots = [k \in Kinds |-> 0] /\ queued = slots /\ active = slots
  /\ worker = [c \in Callers |-> Nobody] /\ registry = [i \in {} |-> Nobody]
  /\ kill = Nobody
  /\ hubMu = Nobody /\ stalled = {} /\ arrivals = 0

-----------------------------------------------------------------------------
(* AcquireTaskSlot, AcquireBatchSlot.                                       *)

Call(c) ==
  /\ at[c] = "idle" /\ arrivals < MaxSubagentCalls
  /\ arrivals' = arrivals + 1
  /\ Move(c, "throttle")
  /\ UNCHANGED <<ended, clock, bucket, gauges, listed, hubMu, stalled>>

Refill ==
  LET t == tokens + (clock - refilled) IN IF t > Capacity THEN Capacity ELSE t

Enqueue(c) ==
  /\ admitted' = admitted + 1
  /\ queued' = Add(queued, c)
  /\ Move(c, "select")

\* throttleRateLimit.  Too few tokens: sleep until there is one, with p.mu
\* held and whatever becomes of the caller's context.
Throttle(c) ==
  /\ at[c] = "throttle" /\ bucketMu = Nobody
  /\ refilled' = clock
  /\ IF Refill < Cost
     THEN /\ tokens' = Refill
          /\ bucketMu' = c /\ wakeAt' = clock + (Cost - Refill)
          /\ Move(c, "asleep") /\ UNCHANGED <<admitted, queued>>
     ELSE /\ tokens' = Refill - Cost
          /\ Enqueue(c)
          /\ UNCHANGED <<bucketMu, wakeAt>>
  /\ UNCHANGED <<ended, clock, slots, active, listed, hubMu, stalled, arrivals>>

WakeUnlessEnded(c) ==                  \* mutant: an ended call returns with p.mu held
  /\ at[c] = "asleep" /\ clock >= wakeAt /\ c \notin ended
  /\ tokens' = 0 /\ refilled' = refilled
  /\ bucketMu' = Nobody /\ wakeAt' = 0
  /\ Enqueue(c)
  /\ UNCHANGED <<ended, clock, slots, active, listed, hubMu, stalled, arrivals>>
\* The bucket is empty afterwards; tbLastRefill stays before the sleep.
Wake(c) ==
  /\ at[c] = "asleep" /\ clock >= wakeAt
  /\ tokens' = 0 /\ refilled' = refilled
  /\ bucketMu' = Nobody /\ wakeAt' = 0
  /\ Enqueue(c)
  /\ UNCHANGED <<ended, clock, slots, active, listed, hubMu, stalled, arrivals>>

\* The gauges are read by the status only: they change with the semaphore here,
\* a step before or after it in the code.
TakeSlot(c) ==
  /\ at[c] = "select" /\ slots[KindOf[c]] < Limit[KindOf[c]]
  /\ slots' = Add(slots, c) /\ active' = Add(active, c) /\ queued' = Take(queued, c)
  /\ Move(c, "register")
  /\ UNCHANGED <<ended, clock, bucket, listed, hubMu, stalled, arrivals>>

\* The step context ends in the queue.
RefusedUncounted(c) ==                 \* mutant: the gauge keeps the caller
  /\ at[c] = "select" /\ c \in ended
  /\ Move(c, "error")
  /\ UNCHANGED <<ended, clock, bucket, gauges, listed, hubMu, stalled, arrivals>>
Refused(c) ==
  /\ at[c] = "select" /\ c \in ended
  /\ queued' = Take(queued, c)
  /\ Move(c, "error")
  /\ UNCHANGED <<ended, clock, bucket, slots, active, listed, hubMu, stalled, arrivals>>

-----------------------------------------------------------------------------
(* The call itself, and its end in the order of the deferred functions.     *)

\* A second worker of the same id takes the first one's entry.
Register(c) ==
  /\ at[c] = "register"
  /\ \E i \in WorkerIds :
       /\ worker' = [worker EXCEPT ![c] = i]
       /\ registry' = [j \in DOMAIN registry \cup {i} |-> IF j = i THEN c ELSE registry[j]]
  /\ Move(c, "call")
  /\ UNCHANGED <<ended, clock, bucket, gauges, kill, hubMu, stalled, arrivals>>

\* HandleClientRequest returns with the tool's answer, or because the context is over.
ToolAnswers(c) ==
  /\ at[c] = "call" /\ c \notin ended
  /\ Move(c, "answer")
  /\ UNCHANGED <<ended, clock, bucket, gauges, listed, hubMu, stalled, arrivals>>
ContextOver(c) ==
  /\ at[c] = "call" /\ c \in ended
  /\ Move(c, "answer")
  /\ UNCHANGED <<ended, clock, bucket, gauges, listed, hubMu, stalled, arrivals>>

\* writeResponse: one mutex for the connections of all hosts, held while the
\* host takes the bytes.  There is no deadline on the write.
LockWriter(c) ==
  /\ at[c] \in {"answer", "error"} /\ hubMu = Nobody
  /\ hubMu' = c
  /\ Move(c, IF at[c] = "answer" THEN "writing" ELSE "refusing")
  /\ UNCHANGED <<ended, clock, bucket, gauges, listed, stalled, arrivals>>

Written(c) ==
  /\ at[c] \in {"writing", "refusing"} /\ c \notin stalled
  /\ hubMu' = Nobody
  /\ IF at[c] = "writing"
     THEN Move(c, "unregister") /\ ended' = ended
     ELSE Move(c, "idle") /\ ended' = ended \ {c}
  /\ UNCHANGED <<clock, bucket, gauges, listed, stalled, arrivals>>

Delist(i) == registry' = [j \in DOMAIN registry \ {i} |-> registry[j]]

\* defer UnregisterWorker: whoever is listed under the id by now.
UnregisterOwnUnlessEnded(c) ==         \* mutant: left to KillWorker
  /\ at[c] = "unregister"
  /\ IF c \in ended THEN registry' = registry ELSE Delist(worker[c])
  /\ worker' = [worker EXCEPT ![c] = Nobody]
  /\ Move(c, "release")
  /\ UNCHANGED <<ended, clock, bucket, gauges, kill, hubMu, stalled, arrivals>>
Unregister(c) ==
  /\ at[c] = "unregister"
  /\ Delist(worker[c])
  /\ worker' = [worker EXCEPT ![c] = Nobody]
  /\ Move(c, "release")
  /\ UNCHANGED <<ended, clock, bucket, gauges, kill, hubMu, stalled, arrivals>>

\* defer release, then defer cancel, after which a kill that looked this call
\* up cancels nothing any more.
CallReturns(c) ==
  /\ at[c] = "release"
  /\ slots' = Take(slots, c) /\ active' = Take(active, c)
  /\ ended' = ended \ {c}
  /\ kill' = IF kill # Nobody /\ kill.call = c THEN [kill EXCEPT !.call = Nobody] ELSE kill
  /\ Move(c, "idle")
  /\ UNCHANGED <<clock, bucket, queued, worker, registry, hubMu, stalled, arrivals>>

-----------------------------------------------------------------------------
(* The step deadline, worker_kill, the clock, and hosts that do not read.   *)

InCall(c) == at[c] \in {"throttle", "asleep", "select", "register", "call"}

StepDeadline(c) ==
  /\ InCall(c) /\ c \notin ended
  /\ ended' = ended \cup {c}
  /\ UNCHANGED <<at, clock, bucket, gauges, listed, hubMu, stalled, arrivals>>

KillLookup(i) ==
  /\ kill = Nobody /\ i \in DOMAIN registry
  /\ kill' = [id |-> i, call |-> registry[i]]
  /\ UNCHANGED <<at, ended, clock, bucket, gauges, worker, registry, hubMu, stalled, arrivals>>

KillCancel ==
  /\ kill # Nobody
  /\ ended' = ended \cup ({kill.call} \ {Nobody})
  /\ Delist(kill.id)
  /\ kill' = Nobody
  /\ UNCHANGED <<at, clock, bucket, gauges, worker, hubMu, stalled, arrivals>>

PoolTick ==
  /\ clock < MaxTicks \/ (bucketMu # Nobody /\ clock < wakeAt)
  /\ clock' = clock + 1
  /\ UNCHANGED <<at, ended, bucket, gauges, listed, hubMu, stalled, arrivals>>

Stall(c) ==
  /\ hubMu = c /\ c \notin stalled /\ stalled' = {c}
  /\ UNCHANGED <<at, ended, clock, bucket, gauges, listed, hubMu, arrivals>>

-----------------------------------------------------------------------------
CallStep(c) ==
  \/ Throttle(c) \/ Wake(c) \/ TakeSlot(c)
  \/ Refused(c) \/ Register(c) \/ ContextOver(c) \/ LockWriter(c) \/ Written(c)
  \/ Unregister(c) \/ CallReturns(c)

PoolNext ==
  \/ \E c \in Callers : Call(c) \/ CallStep(c) \/ ToolAnswers(c) \/ StepDeadline(c) \/ Stall(c)
  \/ \E i \in WorkerIds : KillLookup(i)
  \/ KillCancel \/ PoolTick

\* Goroutines run, timers fire.  That the tool answers is not assumed.  A
\* slot or a mutex that is free again and again goes to each that waits
\* for it: channels and mutexes of Go serve their waiters in order.
PoolFairness ==
  /\ \A c \in Callers : SF_poolVars(CallStep(c)) /\ WF_poolVars(StepDeadline(c))
  /\ WF_poolVars(KillCancel)
  /\ WF_poolVars(bucketMu # Nobody /\ PoolTick)

PoolSpec == PoolInit /\ [][PoolNext]_poolVars /\ PoolFairness

-----------------------------------------------------------------------------
(* Properties.                                                              *)

PoolTypeOK ==
  /\ at \in [Callers -> {"idle", "throttle", "asleep", "select", "error", "refusing", "register", "call", "answer",
                         "writing", "unregister", "release"}]
  /\ ended \subseteq Callers /\ stalled \subseteq Callers
  /\ clock \in Nat /\ tokens \in 0..Capacity /\ refilled \in 0..clock
  /\ bucketMu \in Callers \cup {Nobody} /\ wakeAt \in Nat /\ admitted \in Nat
  /\ slots \in [Kinds -> Nat] /\ queued \in [Kinds -> Nat] /\ active \in [Kinds -> Nat]
  /\ worker \in [Callers -> WorkerIds \cup {Nobody}]
  /\ registry \in [DOMAIN registry -> Callers] /\ DOMAIN registry \subseteq WorkerIds
  /\ \/ kill = Nobody
     \/ kill \in [id : WorkerIds, call : Callers \cup {Nobody}]
  /\ hubMu \in Callers \cup {Nobody} /\ arrivals \in 0..MaxSubagentCalls

HoldsSlot(c) == at[c] \in {"register", "call", "answer", "writing", "unregister", "release"}
IsQueued(c)  == at[c] = "select"

Of(k, P(_)) == Cardinality({c \in Callers : KindOf[c] = k /\ P(c)})

\* Whatever ends a call (answer, deadline, kill, an end in the queue), its slot
\* and its place in both gauges of the status are given back, once.
SlotsAccounted ==
  \A k \in Kinds :
    /\ slots[k] = Of(k, HoldsSlot) /\ queued[k] = Of(k, IsQueued) /\ active[k] = slots[k]
    /\ slots[k] <= Limit[k]

\* worker_list shows calls in progress that hold a slot, each under its id,
\* also when ids collide and a kill comes between.
RegistryTruthful ==
  \A i \in DOMAIN registry :
    /\ worker[registry[i]] = i
    /\ at[registry[i]] \in {"call", "answer", "writing", "unregister"}

\* "Terminated by watchdog": every subagent call ends although its tool never
\* answers, unless some host has stopped reading, which holds h.mu.
SubagentCallsEnd == \A c \in Callers : at[c] # "idle" ~> at[c] = "idle" \/ stalled # {}

-----------------------------------------------------------------------------
\* pool.go:54, "50 requests / sec refill": what has passed the bucket is paid
\* for by its capacity and the time gone by.
RateHeld == Cost * admitted <= Capacity + clock

=============================================================================
