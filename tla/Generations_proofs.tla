-------------------------- MODULE Generations_proofs --------------------------
(***************************************************************************)
(* Proofs about Generations, for every set of hosts, processes and assets  *)
(* and every value of the bounds.                                          *)
(***************************************************************************)
EXTENDS Generations, TLAPS

-----------------------------------------------------------------------------
(* What the identifiers, jobs and manifests the actions build look like.    *)

\* The id of a compiled or bootstrap generation is an id.
LEMMA IdsTyped ==
  ASSUME NEW hs \in SUBSET Hosts, NEW w \in World, NEW h \in Hosts
  PROVE  /\ DesiredId(hs, w) \in GenId
         /\ BootstrapId(h, w) \in GenId
<1>1. NoSelection \in Selection
  BY DEF NoSelection, Selection
<1>2. DesiredId(hs, w) \in GenId /\ DesiredId({h}, w) \in GenId
  BY DEF DesiredId, GenId, World
<1> QED
  BY <1>1, <1>2 DEF BootstrapId, GenId

\* The memory of an idle process is a job.
LEMMA NoJobTyped == NoWorld \in World /\ NoJob \in Job
<1>1. NoWorld \in World
  BY DEF NoWorld, World, NoSelection, Selection
<1> QED
  BY <1>1 DEF NoJob, Job

\* Writing a manifest keeps the store a function from ids to manifests, and
\* no generation ever leaves it.
LEMMA PutManifestTyped ==
  ASSUME NEW g \in GenId, NEW m \in Manifest,
         DOMAIN store \subseteq GenId, \A x \in DOMAIN store : store[x] \in Manifest,
         PutManifest(g, m)
  PROVE  /\ DOMAIN store' = DOMAIN store \cup {g}
         /\ DOMAIN store' \subseteq GenId
         /\ store' = [x \in DOMAIN store' |-> store'[x]]
         /\ \A x \in DOMAIN store' : store'[x] \in Manifest
  BY DEF PutManifest

\* An entry about a generation keeps the ledger a sequence of entries.
LEMMA LedgerTyped ==
  ASSUME TypeOK, NEW h, NEW g \in GenId,
         NEW kind \in {"activated", "rolledback", "cas-rejected", "verification-failed"},
         AppendLedgerEntry(h, kind, g)
  PROVE  ledger' \in [Hosts -> Seq(Entry)]
<1>1. [kind |-> kind, gen |-> g] \in Entry
  BY DEF Entry
<1>2. CASE h \in Hosts
  <2>1. Append(ledger[h], [kind |-> kind, gen |-> g]) \in Seq(Entry)
    BY <1>1, <1>2 DEF TypeOK
  <2> QED
    BY <1>2, <2>1 DEF AppendLedgerEntry, TypeOK
<1>3. CASE h \notin Hosts
  BY <1>3 DEF AppendLedgerEntry, TypeOK
<1> QED
  BY <1>2, <1>3

\* The part of TypeOK about the processes' memory.
ProcsOK ==
  /\ pc = [p \in Procs |-> pc[p]] /\ job = [p \in Procs |-> job[p]]
  /\ \A p \in Procs : JobOK(p)

\* When one process moves, the store at most growing, the others' memory is
\* as good as it was.
LEMMA OneProcessMoves ==
  ASSUME TypeOK, NEW p \in Procs,
         pc' = [pc EXCEPT ![p] = pc'[p]], job' = [job EXCEPT ![p] = job'[p]],
         DOMAIN store \subseteq DOMAIN store', JobOK(p)'
  PROVE  ProcsOK'
<1>1. pc' = [q \in Procs |-> pc'[q]] /\ job' = [q \in Procs |-> job'[q]]
  BY DEF TypeOK
<1>2. \A q \in Procs \ {p} : pc'[q] = pc[q] /\ job'[q] = job[q] /\ JobOK(q)
  BY DEF TypeOK
<1>3. \A q \in Procs \ {p} : JobOK(q)'
  BY <1>2 DEF JobOK
<1> QED
  BY <1>1, <1>3 DEF ProcsOK

\* Process p is now at l with memory j, and no other process moved.
Moved(p, l, j) ==
  /\ pc'[p] = l /\ pc' = [pc EXCEPT ![p] = pc'[p]]
  /\ job'[p] = j /\ job' = [job EXCEPT ![p] = job'[p]]

\* The command a process runs, its host and its generation, by where it is.
LEMMA CommandAt ==
  ASSUME TypeOK, NEW p \in Procs
  PROVE  /\ JobOK(p) /\ job[p] \in Job
         /\ pc[p] \in {"recompose", "validate", "clear", "verify"} => job[p].cmd = "activate"
         /\ pc[p] = "parent" => job[p].cmd = "rollback"
         /\ pc[p] = "select" => job[p].cmd = "launch"
         /\ pc[p] \in {"currents", "persist", "lookup", "reconcile", "pend"} => job[p].cmd = "stage"
         /\ pc[p] \in {"compile", "write", "seal"} => job[p].cmd \in {"launch", "stage"}
         /\ pc[p] = "append" => job[p].cmd \in {"activate", "rollback"}
         /\ pc[p] \in {"acquire", "switchLink", "switchRecord"}
              => job[p].cmd \in {"activate", "rollback", "launch"}
         /\ pc[p] = "idle" <=> job[p].cmd = "none"
         /\ job[p].cmd \in {"activate", "rollback", "launch"} => job[p].host \in Hosts
         /\ pc[p] \in Holding \/ job[p].cmd \in {"activate", "launch"} => job[p].gen \in GenId
         /\ pc[p] \in {"write", "seal"} => job[p].gen \in DOMAIN store
<1>1. JobOK(p)
  BY DEF TypeOK
<1>2. job[p] \in Job /\ pc[p] \in Labels[job[p].cmd]
  BY <1>1 DEF JobOK
<1>3. job[p].cmd \in {"none", "activate", "rollback", "launch", "stage"}
  BY <1>2 DEF Job
<1> QED
  BY <1>1, <1>2, <1>3 DEF JobOK, Labels

\* A process that finishes holds nothing.
LEMMA FinishTyped ==
  ASSUME TypeOK, NEW p \in Procs, Finish(p), DOMAIN store \subseteq DOMAIN store'
  PROVE  ProcsOK' /\ pc'[p] = "idle" /\ job'[p] = NoJob
<1>1. Moved(p, "idle", NoJob)
  BY DEF Moved, Finish, Goto, TypeOK
<1>2. JobOK(p)'
  BY <1>1, NoJobTyped DEF Moved, JobOK, NoJob, Labels, Holding
<1> QED
  BY <1>1, <1>2, OneProcessMoves DEF Moved

-----------------------------------------------------------------------------
(* Type correctness.                                                        *)

\* Every variable has a value of its type in every reachable state.
THEOREM TypeCorrect == Spec => []TypeOK
<1>1. Init => TypeOK
  BY NoJobTyped, ConstantsAssumption DEF Init, TypeOK, JobOK, Labels, Holding, NoJob
<1>2. TypeOK /\ [Next]_vars => TypeOK'
  <2> SUFFICES ASSUME TypeOK, [Next]_vars PROVE TypeOK'
    OBVIOUS
  <2>1. ASSUME NEW p \in Procs, NEW h \in Hosts, NEW a \in SUBSET Sensitive, ReviewPending(p, h, a) PROVE TypeOK'
    <3> DEFINE j == [NoJob EXCEPT !.cmd = "activate", !.host = h, !.gen = pending[h], !.approved = a]
    <3>1. pending[h] \in GenId
      BY <2>1 DEF ReviewPending, Readable, TypeOK
    <3>2. j \in Job /\ j.cmd = "activate" /\ j.host = h /\ j.gen \in GenId
      BY <3>1, NoJobTyped, ConstantsAssumption DEF NoJob, Job
    <3>3. Moved(p, "recompose", j)
      BY <2>1 DEF ReviewPending, Moved, Goto, TypeOK
    <3>4. UNCHANGED <<disk, lock, crashes, edits>> /\ commands' \in Nat
      BY <2>1 DEF ReviewPending, Begin, TypeOK
    <3> HIDE DEF j
    <3>5. JobOK(p)'
      BY <3>2, <3>3 DEF Moved, JobOK, Labels, Holding
    <3>6. ProcsOK'
      BY <3>3, <3>4, <3>5, OneProcessMoves DEF Moved, disk
    <3> QED
      BY <3>4, <3>6 DEF ProcsOK, disk, TypeOK
  <2>2. ASSUME NEW p \in Procs, NEW h \in Hosts, BeginRollback(p, h) PROVE TypeOK'
    <3> DEFINE j == [NoJob EXCEPT !.cmd = "rollback", !.host = h, !.seen = world]
    <3>1. world \in World
      BY DEF TypeOK
    <3>2. j \in Job /\ j.cmd = "rollback" /\ j.host = h
      BY <3>1, NoJobTyped, ConstantsAssumption DEF NoJob, Job
    <3>3. Moved(p, "acquire", j)
      BY <2>2 DEF BeginRollback, Moved, Goto, TypeOK
    <3>4. UNCHANGED <<disk, lock, crashes, edits>> /\ commands' \in Nat
      BY <2>2 DEF BeginRollback, Begin, TypeOK
    <3> HIDE DEF j
    <3>5. JobOK(p)'
      BY <3>2, <3>3 DEF Moved, JobOK, Labels, Holding
    <3>6. ProcsOK'
      BY <3>3, <3>4, <3>5, OneProcessMoves DEF Moved, disk
    <3> QED
      BY <3>4, <3>6 DEF ProcsOK, disk, TypeOK
  <2>3. ASSUME NEW p \in Procs, NEW h \in Hosts, BeginLaunch(p, h) PROVE TypeOK'
    <3> DEFINE j == [NoJob EXCEPT !.cmd = "launch", !.host = h, !.seen = world,
                                !.gen = BootstrapId(h, world)]
    <3>1. world \in World /\ BootstrapId(h, world) \in GenId
      BY IdsTyped DEF TypeOK
    <3>2. j \in Job /\ j.cmd = "launch" /\ j.host = h /\ j.gen \in GenId
      BY <3>1, NoJobTyped, ConstantsAssumption DEF NoJob, Job
    <3>3. Moved(p, "acquire", j)
      BY <2>3 DEF BeginLaunch, Moved, Goto, TypeOK
    <3>4. UNCHANGED <<disk, lock, crashes, edits>> /\ commands' \in Nat
      BY <2>3 DEF BeginLaunch, Begin, TypeOK
    <3> HIDE DEF j
    <3>5. JobOK(p)'
      BY <3>2, <3>3 DEF Moved, JobOK, Labels, Holding
    <3>6. ProcsOK'
      BY <3>3, <3>4, <3>5, OneProcessMoves DEF Moved, disk
    <3> QED
      BY <3>4, <3>6 DEF ProcsOK, disk, TypeOK
  <2>4. ASSUME NEW p \in Procs, NEW hs \in (SUBSET Hosts) \ {{}}, NEW a \in Assets, ComposeStage(p, hs, a) PROVE TypeOK'
    <3> DEFINE merged == [world EXCEPT !.act =
                            [h \in Hosts |-> IF h \in hs THEN Append(world.act[h], a)
                                                         ELSE world.act[h]]]
               j == [NoJob EXCEPT !.cmd = "stage", !.targets = hs, !.seen = merged]
    <3>1. merged \in World
      <4>1. world \in World /\ world.act \in Selection
        BY DEF World, TypeOK
      <4>2. [h \in Hosts |-> IF h \in hs THEN Append(world.act[h], a) ELSE world.act[h]] \in Selection
        BY <4>1 DEF Selection
      <4> QED
        BY <4>1, <4>2 DEF World
    <3>2. j \in Job /\ j.cmd = "stage"
      BY <3>1, NoJobTyped, ConstantsAssumption DEF NoJob, Job
    <3>3. Moved(p, "currents", j)
      BY <2>4 DEF ComposeStage, Moved, Goto, TypeOK
    <3>4. UNCHANGED <<disk, lock, crashes, edits>> /\ commands' \in Nat
      BY <2>4 DEF ComposeStage, Begin, TypeOK
    <3> HIDE DEF j
    <3>5. JobOK(p)'
      BY <3>2, <3>3 DEF Moved, JobOK, Labels, Holding
    <3>6. ProcsOK'
      BY <3>3, <3>4, <3>5, OneProcessMoves DEF Moved, disk
    <3> QED
      BY <3>4, <3>6 DEF ProcsOK, disk, TypeOK
  <2>5. ASSUME NEW p \in Procs, Recompose(p) PROVE TypeOK'
    <3>1. JobOK(p) /\ world \in World /\ job[p].cmd = "activate"
      BY <2>5, CommandAt DEF Recompose, Holding, TypeOK
    <3>2. ProcsOK'
      <4>1. CASE TRUE
        <5> DEFINE j == [job[p] EXCEPT !.seen = world]
        <5>1. j \in Job /\ j.cmd = "activate" /\ j.host \in Hosts /\ j.gen \in GenId
          BY <2>5, <3>1, <4>1 DEF Recompose, JobOK, Job, Labels
        <5>2. Moved(p, "acquire", j) /\ store' = store
          BY <2>5, <3>1, <4>1 DEF Recompose, Moved, Goto, disk, TypeOK
        <5> HIDE DEF j
        <5>3. JobOK(p)'
          BY <5>1, <5>2 DEF Moved, JobOK, Labels, Holding
        <5> QED
          BY <5>2, <5>3, OneProcessMoves DEF Moved
      <4> QED
        BY <2>5, <4>1 DEF Recompose
    <3> QED
      BY <2>5, <3>2 DEF Recompose, ProcsOK, disk, count, TypeOK
  <2>6. ASSUME NEW p \in Procs, AcquireActivationLock(p) PROVE TypeOK'
    <3>1. JobOK(p) /\ job[p].cmd \in {"activate", "rollback", "launch"}
      BY <2>6, CommandAt DEF AcquireActivationLock, Holding, TypeOK, Job
    <3>2. lock' \in [Hosts -> Procs \cup {None}]
      BY <2>6, <3>1 DEF AcquireActivationLock, TypeOK
    <3>3. ProcsOK'
      <4>1. CASE Finish(p)
        BY <2>6, <4>1, <3>2, FinishTyped DEF AcquireActivationLock, disk
      <4>2. CASE ~Finish(p)
        <5>1. Moved(p, CASE job[p].cmd = "activate" -> "validate"
                       [] job[p].cmd = "rollback" -> "parent"
                       [] OTHER -> "select", job[p]) /\ store' = store
          BY <2>6, <3>1, <4>2 DEF AcquireActivationLock, Moved, Goto, TypeOK, disk
        <5>2. JobOK(p)'
          BY <3>1, <3>2, <5>1 DEF Moved, JobOK, Labels, Holding
        <5> QED
          BY <5>1, <5>2, <3>2, OneProcessMoves DEF Moved
      <4> QED
        BY <2>6, <4>1, <4>2 DEF AcquireActivationLock
    <3> QED
      BY <2>6, <3>2, <3>3 DEF AcquireActivationLock, ProcsOK, disk, count, TypeOK
  <2>7. ASSUME NEW p \in Procs, ValidatePending(p) PROVE TypeOK'
    <3>1. JobOK(p) /\ job[p].cmd = "activate" /\ job[p].host \in Hosts
      BY <2>7, CommandAt DEF ValidatePending, Holding, TypeOK
    <3>2. lock' \in [Hosts -> Procs \cup {None}]
         /\ ledger' \in [Hosts -> Seq(Entry)] /\ store' = store
      <4>1. lock' \in [Hosts -> Procs \cup {None}] /\ store' = store
        BY <2>7, <3>1 DEF ValidatePending, TypeOK, Unlock
      <4>2. Readable(pending[job[p].host]) => pending[job[p].host] \in GenId
        BY DEF Readable, TypeOK
      <4>3. ledger' \in [Hosts -> Seq(Entry)]
        <5>1. CASE ledger' = ledger
          BY <5>1 DEF TypeOK
        <5>2. CASE ledger' # ledger
          BY <2>7, <4>2, <5>2, LedgerTyped DEF ValidatePending
        <5> QED
          BY <5>1, <5>2
      <4> QED
        BY <4>1, <4>3
    <3>3. ProcsOK'
      <4>1. CASE Finish(p)
        BY <2>7, <4>1, <3>2, FinishTyped DEF ValidatePending, disk
      <4>2. CASE ~Finish(p)
        <5> DEFINE j == [job[p] EXCEPT !.gen = pending[job[p].host], !.old = currentLink[job[p].host]]
        <5>1. j \in Job /\ j.cmd = "activate" /\ j.host \in Hosts /\ j.gen \in GenId
          BY <2>7, <3>1, <4>2 DEF ValidatePending, JobOK, Job, Labels, Readable, TypeOK
        <5>2. Moved(p, "switchLink", j) /\ store' = store
          BY <2>7, <3>1, <4>2 DEF ValidatePending, Moved, Goto, disk, TypeOK
        <5> HIDE DEF j
        <5>3. JobOK(p)'
          BY <5>1, <5>2 DEF Moved, JobOK, Labels, Holding
        <5> QED
          BY <5>2, <5>3, OneProcessMoves DEF Moved
      <4> QED
        BY <2>7, <4>1, <4>2 DEF ValidatePending
    <3> QED
      BY <2>7, <3>2, <3>3 DEF ValidatePending, ProcsOK, disk, count, TypeOK
  <2>8. ASSUME NEW p \in Procs, SwitchLink(p) PROVE TypeOK'
    <3>1. JobOK(p) /\ job[p].cmd \in {"activate", "rollback", "launch"}
          /\ job[p].gen \in GenId /\ job[p].host \in Hosts
      BY <2>8, CommandAt DEF SwitchLink, Holding, TypeOK
    <3>2. currentLink' \in [Hosts -> GenId \cup {None}] /\ store' = store
      BY <2>8, <3>1 DEF SwitchLink, TypeOK
    <3>3. ProcsOK'
      <4>1. Moved(p, "switchRecord", job[p]) /\ store' = store
        BY <2>8, <3>1 DEF SwitchLink, Moved, Goto, TypeOK
      <4>2. JobOK(p)'
        BY <3>1, <3>2, <4>1 DEF Moved, JobOK, Labels, Holding
      <4> QED
        BY <4>1, <4>2, <3>2, OneProcessMoves DEF Moved
    <3> QED
      BY <2>8, <3>2, <3>3 DEF SwitchLink, ProcsOK, disk, count, TypeOK
  <2>9. ASSUME NEW p \in Procs, SwitchRecord(p) PROVE TypeOK'
    <3>0. JobOK(p) /\ job[p].gen \in GenId /\ job[p].host \in Hosts /\ job[p] \in Job
      BY <2>9, CommandAt DEF SwitchRecord, Holding
    <3>1. JobOK(p) /\ job[p].gen \in GenId /\ job[p].host \in Hosts
          /\ job[p].seen.version[job[p].host] \in Nat
      BY <3>0 DEF Job, World
    <3>2. currentRecord' \in [Hosts -> Record \cup {None}] /\ session' \in [Hosts -> GenId \cup {None}]
         /\ lock' \in [Hosts -> Procs \cup {None}] /\ store' = store
      BY <2>9, <3>1 DEF SwitchRecord, TypeOK, Unlock, Record, World
    <3>3. ProcsOK'
      <4>1. CASE Finish(p)
        BY <2>9, <4>1, <3>2, FinishTyped DEF SwitchRecord, disk
      <4>2. CASE job[p].cmd = "activate" /\ Goto(p, "clear") /\ job' = job
        <5>1. Moved(p, "clear", job[p]) /\ store' = store /\ job[p].cmd = "activate"
          BY <3>1, <3>2, <4>2 DEF Moved, Goto, TypeOK
        <5>2. JobOK(p)'
          BY <3>1, <3>2, <5>1 DEF Moved, JobOK, Labels, Holding
        <5> QED
          BY <5>1, <5>2, <3>2, OneProcessMoves DEF Moved
      <4>3. CASE job[p].cmd = "rollback" /\ Goto(p, "append") /\ job' = job
        <5>1. Moved(p, "append", job[p]) /\ store' = store /\ job[p].cmd = "rollback"
          BY <3>1, <3>2, <4>3 DEF Moved, Goto, TypeOK
        <5>2. JobOK(p)'
          BY <3>1, <3>2, <5>1 DEF Moved, JobOK, Labels, Holding
        <5> QED
          BY <5>1, <5>2, <3>2, OneProcessMoves DEF Moved
      <4> QED
        BY <2>9, <4>1, <4>2, <4>3 DEF SwitchRecord
    <3> QED
      BY <2>9, <3>2, <3>3 DEF SwitchRecord, ProcsOK, disk, count, TypeOK
  <2>10. ASSUME NEW p \in Procs, ClearPending(p) PROVE TypeOK'
    <3>1. JobOK(p) /\ job[p].cmd = "activate" /\ job[p].gen \in GenId
      BY <2>10, CommandAt DEF ClearPending, Holding, TypeOK
    <3>2. pending' \in [Hosts -> GenId \cup {None}] /\ store' = store
      BY <2>10, <3>1 DEF ClearPending, TypeOK
    <3>3. ProcsOK'
      <4>1. Moved(p, "append", job[p]) /\ store' = store
        BY <2>10, <3>1 DEF ClearPending, Moved, Goto, TypeOK
      <4>2. JobOK(p)'
        BY <3>1, <3>2, <4>1 DEF Moved, JobOK, Labels, Holding
      <4> QED
        BY <4>1, <4>2, <3>2, OneProcessMoves DEF Moved
    <3> QED
      BY <2>10, <3>2, <3>3 DEF ClearPending, ProcsOK, disk, count, TypeOK
  <2>11. ASSUME NEW p \in Procs, AppendLedger(p) PROVE TypeOK'
    <3>1. JobOK(p) /\ job[p].gen \in GenId
      BY <2>11, CommandAt DEF AppendLedger, Holding, TypeOK
    <3>2. ledger' \in [Hosts -> Seq(Entry)] /\ lock' \in [Hosts -> Procs \cup {None}] /\ store' = store
      <4>1. lock' \in [Hosts -> Procs \cup {None}] /\ store' = store
        BY <2>11 DEF AppendLedger, TypeOK, Unlock
      <4>2. ledger' \in [Hosts -> Seq(Entry)]
        BY <2>11, <3>1, LedgerTyped DEF AppendLedger
      <4> QED
        BY <4>1, <4>2
    <3>3. ProcsOK'
      <4>1. CASE Finish(p)
        BY <2>11, <4>1, <3>2, FinishTyped DEF AppendLedger, disk
      <4>2. CASE ~Finish(p)
        <5>1. Moved(p, "verify", job[p]) /\ store' = store /\ job[p].cmd = "activate"
          BY <2>11, <3>1, <4>2 DEF AppendLedger, Moved, Goto, TypeOK
        <5>2. JobOK(p)'
          BY <3>1, <3>2, <5>1 DEF Moved, JobOK, Labels, Holding
        <5> QED
          BY <5>1, <5>2, <3>2, OneProcessMoves DEF Moved
      <4> QED
        BY <2>11, <4>1, <4>2 DEF AppendLedger
    <3> QED
      BY <2>11, <3>2, <3>3 DEF AppendLedger, ProcsOK, disk, count, TypeOK
  <2>12. ASSUME NEW p \in Procs, VerifyActivation(p) PROVE TypeOK'
    <3>1. JobOK(p) /\ job[p].gen \in GenId /\ job[p].cmd = "activate" /\ job[p].host \in Hosts
      BY <2>12, CommandAt DEF VerifyActivation, Holding, TypeOK
    <3>2. ledger' \in [Hosts -> Seq(Entry)] /\ store' = store
      <4> DEFINE c == currentLink[job[p].host]
      <4>1. c \in GenId \cup {None} /\ (Readable(c) => c \in GenId)
        BY <3>1 DEF Readable, TypeOK
      <4>2. ledger' \in [Hosts -> Seq(Entry)]
        <5>1. CASE ledger' = ledger
          BY <5>1 DEF TypeOK
        <5>2. CASE ledger' # ledger
          BY <2>12, <3>1, <4>1, <5>2, LedgerTyped DEF VerifyActivation
        <5> QED
          BY <5>1, <5>2
      <4> QED
        BY <2>12, <4>2 DEF VerifyActivation
    <3>3. ProcsOK'
      <4>1. CASE Finish(p)
        BY <2>12, <4>1, <3>2, FinishTyped DEF VerifyActivation, disk
      <4>2. CASE ~Finish(p)
        <5> DEFINE j == [job[p] EXCEPT !.cmd = "rollback", !.failed = job[p].gen]
        <5>1. j \in Job /\ j.cmd = "rollback" /\ j.host \in Hosts
          BY <2>12, <3>1, <4>2 DEF VerifyActivation, JobOK, Job, Labels
        <5>2. Moved(p, "acquire", j) /\ store' = store
          BY <2>12, <3>1, <4>2 DEF VerifyActivation, Moved, Goto, disk, TypeOK
        <5> HIDE DEF j
        <5>3. JobOK(p)'
          BY <5>1, <5>2 DEF Moved, JobOK, Labels, Holding
        <5> QED
          BY <5>2, <5>3, OneProcessMoves DEF Moved
      <4> QED
        BY <2>12, <4>1, <4>2 DEF VerifyActivation
    <3> QED
      BY <2>12, <3>2, <3>3 DEF VerifyActivation, ProcsOK, disk, count, TypeOK
  <2>13. ASSUME NEW p \in Procs, ReadParent(p) PROVE TypeOK'
    <3>1. JobOK(p) /\ job[p].cmd = "rollback" /\ job[p].host \in Hosts
      BY <2>13, CommandAt DEF ReadParent, Holding, TypeOK
    <3>2. lock' \in [Hosts -> Procs \cup {None}] /\ store' = store
      BY <2>13, <3>1 DEF ReadParent, TypeOK, Unlock, disk
    <3>3. ProcsOK'
      <4>1. CASE Finish(p)
        BY <2>13, <4>1, <3>2, FinishTyped DEF ReadParent, disk
      <4>2. CASE ~Finish(p)
        <5> DEFINE j == [job[p] EXCEPT !.gen = store[currentLink[job[p].host]].parent, !.old = currentLink[job[p].host]]
        <5>1. j \in Job /\ j.cmd = "rollback" /\ j.host \in Hosts /\ j.gen \in GenId
          BY <2>13, <3>1, <4>2 DEF ReadParent, JobOK, Job, Labels, Readable, ParentUsable, TypeOK
        <5>2. Moved(p, "switchLink", j) /\ store' = store
          BY <2>13, <3>1, <4>2 DEF ReadParent, Moved, Goto, disk, TypeOK
        <5> HIDE DEF j
        <5>3. JobOK(p)'
          BY <5>1, <5>2 DEF Moved, JobOK, Labels, Holding
        <5> QED
          BY <5>2, <5>3, OneProcessMoves DEF Moved
      <4> QED
        BY <2>13, <4>1, <4>2 DEF ReadParent
    <3> QED
      BY <2>13, <3>2, <3>3 DEF ReadParent, ProcsOK, disk, count, TypeOK
  <2>14. ASSUME NEW p \in Procs, SelectLaunch(p) PROVE TypeOK'
    <3>1. JobOK(p) /\ job[p].cmd = "launch" /\ job[p].host \in Hosts /\ job[p].gen \in GenId
      BY <2>14, CommandAt DEF SelectLaunch, Holding, TypeOK
    <3>2. lock' \in [Hosts -> Procs \cup {None}]
         /\ session' \in [Hosts -> GenId \cup {None}] /\ store' = store
      BY <2>14, <3>1 DEF SelectLaunch, TypeOK, Unlock
    <3>3. ProcsOK'
      <4>1. CASE Finish(p)
        BY <2>14, <4>1, <3>2, FinishTyped DEF SelectLaunch, disk
      <4>2. CASE ~Finish(p)
        <5> DEFINE j == [job[p] EXCEPT !.old = currentLink[job[p].host]]
        <5>1. j \in Job /\ j.cmd = "launch" /\ j.host \in Hosts /\ j.gen \in GenId
          BY <2>14, <3>1, <4>2 DEF SelectLaunch, JobOK, Job, Labels, TypeOK
        <5>2. Moved(p, IF job[p].gen \in DOMAIN store THEN "switchLink" ELSE "compile", j) /\ store' = store
          BY <2>14, <3>1, <4>2 DEF SelectLaunch, Moved, Goto, disk, TypeOK
        <5> HIDE DEF j
        <5>3. JobOK(p)'
          BY <5>1, <5>2 DEF Moved, JobOK, Labels, Holding
        <5> QED
          BY <5>2, <5>3, OneProcessMoves DEF Moved
      <4> QED
        BY <2>14, <4>1, <4>2 DEF SelectLaunch
    <3> QED
      BY <2>14, <3>2, <3>3 DEF SelectLaunch, ProcsOK, disk, count, TypeOK
  <2>15. ASSUME NEW p \in Procs, ReadCurrents(p) PROVE TypeOK'
    <3>1. JobOK(p) /\ job[p].cmd = "stage" /\ job[p].targets \subseteq Hosts
      BY <2>15, CommandAt DEF ReadCurrents, Holding, TypeOK, Job
    <3>2. ProcsOK'
      <4>1. CASE Finish(p)
        BY <2>15, <4>1, FinishTyped DEF ReadCurrents, disk
      <4>2. CASE ~Finish(p)
        <5>1. PICK par \in {currentLink[h] : h \in job[p].targets} \cup {None} :
                Moved(p, "persist", [job[p] EXCEPT !.parent = par])
          BY <2>15, <4>2 DEF ReadCurrents, Moved, Goto, TypeOK
        <5> DEFINE j == [job[p] EXCEPT !.parent = par]
        <5>2. par \in GenId \cup {None}
          BY <3>1, <5>1 DEF TypeOK
        <5>3. j \in Job /\ j.cmd = "stage"
          BY <3>1, <5>2 DEF JobOK, Job
        <5>4. Moved(p, "persist", j) /\ store' = store
          BY <2>15, <5>1 DEF ReadCurrents, disk
        <5> HIDE DEF j
        <5>5. JobOK(p)'
          BY <5>3, <5>4 DEF Moved, JobOK, Labels, Holding
        <5> QED
          BY <5>4, <5>5, OneProcessMoves DEF Moved
      <4> QED
        BY <4>1, <4>2
    <3> QED
      BY <2>15, <3>2 DEF ReadCurrents, ProcsOK, disk, count, TypeOK
  <2>16. ASSUME NEW p \in Procs, PersistActivation(p) PROVE TypeOK'
    <3>1. JobOK(p) /\ job[p].cmd = "stage" /\ job[p].targets \subseteq Hosts /\ job[p].seen \in World
      BY <2>16, CommandAt DEF PersistActivation, Holding, TypeOK, Job
    <3>2. world' \in World /\ store' = store
      BY <2>16, <3>1 DEF PersistActivation, TypeOK, World
    <3>3. ProcsOK'
      <4>1. CASE TRUE
        <5> DEFINE j == [job[p] EXCEPT !.gen = DesiredId(job[p].targets, job[p].seen)]
        <5>1. j \in Job /\ j.cmd = "stage" /\ j.gen \in GenId
          BY <2>16, <3>1, <4>1 DEF PersistActivation, JobOK, Job, Labels, DesiredId, GenId, World
        <5>2. Moved(p, "lookup", j) /\ store' = store
          BY <2>16, <3>1, <4>1 DEF PersistActivation, Moved, Goto, disk, TypeOK
        <5> HIDE DEF j
        <5>3. JobOK(p)'
          BY <5>1, <5>2 DEF Moved, JobOK, Labels, Holding
        <5> QED
          BY <5>2, <5>3, OneProcessMoves DEF Moved
      <4> QED
        BY <2>16, <4>1 DEF PersistActivation
    <3> QED
      BY <2>16, <3>2, <3>3 DEF PersistActivation, ProcsOK, disk, count, TypeOK
  <2>17. ASSUME NEW p \in Procs, LookupGeneration(p) PROVE TypeOK'
    <3>1. JobOK(p) /\ job[p].cmd = "stage" /\ job[p].gen \in GenId
      BY <2>17, CommandAt DEF LookupGeneration, Holding, TypeOK
    <3>2. store' = store
      BY <2>17, <3>1 DEF LookupGeneration, TypeOK, disk
    <3>3. ProcsOK'
      <4>1. CASE Finish(p)
        BY <2>17, <4>1, <3>2, FinishTyped DEF LookupGeneration, disk
      <4>2. CASE Goto(p, "compile") /\ job' = job
        <5>1. Moved(p, "compile", job[p]) /\ store' = store
          BY <3>1, <3>2, <4>2 DEF Moved, Goto, TypeOK
        <5>2. JobOK(p)'
          BY <3>1, <3>2, <5>1 DEF Moved, JobOK, Labels, Holding
        <5> QED
          BY <5>1, <5>2, <3>2, OneProcessMoves DEF Moved
      <4>3. CASE Goto(p, "reconcile") /\ job' = job
        <5>1. Moved(p, "reconcile", job[p]) /\ store' = store
          BY <3>1, <3>2, <4>3 DEF Moved, Goto, TypeOK
        <5>2. JobOK(p)'
          BY <3>1, <3>2, <5>1 DEF Moved, JobOK, Labels, Holding
        <5> QED
          BY <5>1, <5>2, <3>2, OneProcessMoves DEF Moved
      <4>4. CASE Goto(p, "pend") /\ job' = job
        <5>1. Moved(p, "pend", job[p]) /\ store' = store
          BY <3>1, <3>2, <4>4 DEF Moved, Goto, TypeOK
        <5>2. JobOK(p)'
          BY <3>1, <3>2, <5>1 DEF Moved, JobOK, Labels, Holding
        <5> QED
          BY <5>1, <5>2, <3>2, OneProcessMoves DEF Moved
      <4> QED
        BY <2>17, <4>1, <4>2, <4>3, <4>4 DEF LookupGeneration
    <3> QED
      BY <2>17, <3>2, <3>3 DEF LookupGeneration, ProcsOK, disk, count, TypeOK
  <2>18. ASSUME NEW p \in Procs, OpenCachedManifest(p) PROVE TypeOK'
    <3>1. JobOK(p) /\ job[p].cmd = "stage" /\ job[p].gen \in GenId
      BY <2>18, CommandAt DEF OpenCachedManifest, Holding, TypeOK
    <3>2. /\ DOMAIN store \subseteq DOMAIN store' /\ DOMAIN store' \subseteq GenId
          /\ store' = [x \in DOMAIN store' |-> store'[x]]
          /\ \A x \in DOMAIN store' : store'[x] \in Manifest
          /\ job[p].gen \in DOMAIN store'
      <4>1. [parent |-> Truncated, readonly |-> FALSE] \in Manifest
        BY <3>1 DEF Manifest
      <4> QED
        BY <2>18, <3>1, <4>1, PutManifestTyped DEF OpenCachedManifest, TypeOK
    <3>3. ProcsOK'
      <4>1. Moved(p, "write", job[p])
        BY <2>18 DEF OpenCachedManifest, Moved, Goto, TypeOK
      <4>0. job[p].gen \in DOMAIN store'
        BY <3>2
      <4>2. JobOK(p)'
        BY <3>1, <4>0, <4>1 DEF Moved, JobOK, Labels, Holding
      <4> QED
        BY <4>1, <4>2, <3>2, OneProcessMoves DEF Moved
    <3> QED
      BY <2>18, <3>2, <3>3 DEF OpenCachedManifest, ProcsOK, disk, count, TypeOK
  <2>19. ASSUME NEW p \in Procs, OpenCompiledManifest(p) PROVE TypeOK'
    <3>1. JobOK(p) /\ job[p].cmd \in {"stage", "launch"} /\ job[p].gen \in GenId
      BY <2>19, CommandAt DEF OpenCompiledManifest, Holding, TypeOK
    <3>2. /\ DOMAIN store \subseteq DOMAIN store' /\ DOMAIN store' \subseteq GenId
          /\ store' = [x \in DOMAIN store' |-> store'[x]]
          /\ \A x \in DOMAIN store' : store'[x] \in Manifest
      <4>1. [parent |-> Truncated, readonly |-> FALSE] \in Manifest
        BY <3>1 DEF Manifest
      <4> QED
        BY <2>19, <3>1, <4>1, PutManifestTyped DEF OpenCompiledManifest, TypeOK
    <3>3. ProcsOK'
      <4>1. CASE Finish(p)
        BY <2>19, <4>1, <3>2, FinishTyped DEF OpenCompiledManifest, disk
      <4>2. CASE ~Finish(p)
        <5>1. Moved(p, "write", job[p]) /\ job[p].gen \in DOMAIN store'
          BY <2>19, <3>1, <4>2 DEF OpenCompiledManifest, Moved, Goto, TypeOK, PutManifest
        <5>2. JobOK(p)'
          BY <3>1, <3>2, <5>1 DEF Moved, JobOK, Labels, Holding
        <5> QED
          BY <5>1, <5>2, <3>2, OneProcessMoves DEF Moved
      <4> QED
        BY <2>19, <4>1, <4>2 DEF OpenCompiledManifest
    <3>4. lock' \in [Hosts -> Procs \cup {None}]
      BY <2>19 DEF OpenCompiledManifest, Unlock, TypeOK
    <3> QED
      BY <3>4, <2>19, <3>2, <3>3 DEF OpenCompiledManifest, ProcsOK, disk, count, TypeOK
  <2>20. ASSUME NEW p \in Procs, WriteManifest(p) PROVE TypeOK'
    <3>1. JobOK(p) /\ job[p].cmd \in {"stage", "launch"}
          /\ job[p].gen \in GenId /\ job[p].gen \in DOMAIN store
      BY <2>20, CommandAt DEF WriteManifest, Holding, TypeOK
    <3>2. /\ DOMAIN store \subseteq DOMAIN store' /\ DOMAIN store' \subseteq GenId
          /\ store' = [x \in DOMAIN store' |-> store'[x]]
          /\ \A x \in DOMAIN store' : store'[x] \in Manifest
          /\ job[p].gen \in DOMAIN store'
      <4>1. [store[job[p].gen] EXCEPT
               !.parent = IF job[p].parent = None /\ store[job[p].gen].parent \notin {Truncated, None}
                          THEN Garbled ELSE job[p].parent] \in Manifest
        <5>1. store[job[p].gen] \in Manifest
          BY <3>1 DEF TypeOK
        <5>2. job[p].parent \in GenId \cup {None}
          <6>1. job[p] \in Job
            BY <3>1 DEF JobOK
          <6> QED
            BY <6>1 DEF Job
        <5> QED
          BY <5>1, <5>2 DEF Manifest
      <4> QED
        BY <2>20, <3>1, <4>1, PutManifestTyped DEF WriteManifest, TypeOK
    <3>3. ProcsOK'
      <4>1. Moved(p, "seal", job[p]) /\ job[p].gen \in DOMAIN store'
        BY <2>20, <3>1, <3>2 DEF WriteManifest, Moved, Goto, TypeOK
      <4>2. JobOK(p)'
        BY <3>1, <3>2, <4>1 DEF Moved, JobOK, Labels, Holding
      <4> QED
        BY <4>1, <4>2, <3>2, OneProcessMoves DEF Moved
    <3> QED
      BY <2>20, <3>2, <3>3 DEF WriteManifest, ProcsOK, disk, count, TypeOK
  <2>21. ASSUME NEW p \in Procs, SealManifest(p) PROVE TypeOK'
    <3>1. JobOK(p) /\ job[p].cmd \in {"stage", "launch"}
          /\ job[p].gen \in GenId /\ job[p].gen \in DOMAIN store
      BY <2>21, CommandAt DEF SealManifest, Holding, TypeOK
    <3>2. /\ DOMAIN store \subseteq DOMAIN store' /\ DOMAIN store' \subseteq GenId
          /\ store' = [x \in DOMAIN store' |-> store'[x]]
          /\ \A x \in DOMAIN store' : store'[x] \in Manifest
          /\ job[p].gen \in DOMAIN store'
      <4>1. [store[job[p].gen] EXCEPT !.readonly = TRUE] \in Manifest
        BY <3>1 DEF Manifest, TypeOK
      <4> QED
        BY <2>21, <3>1, <4>1, PutManifestTyped DEF SealManifest, TypeOK
    <3>3. ProcsOK'
      <4>1. Moved(p, IF job[p].cmd = "launch" THEN "switchLink" ELSE "pend", job[p])
        BY <2>21 DEF SealManifest, Moved, Goto, TypeOK
      <4>2. JobOK(p)'
        BY <3>1, <3>2, <4>1 DEF Moved, JobOK, Labels, Holding
      <4> QED
        BY <4>1, <4>2, <3>2, OneProcessMoves DEF Moved
    <3> QED
      BY <2>21, <3>2, <3>3 DEF SealManifest, ProcsOK, disk, count, TypeOK
  <2>22. ASSUME NEW p \in Procs, NEW h \in Hosts, SetPending(p, h) PROVE TypeOK'
    <3>1. JobOK(p) /\ job[p].cmd = "stage" /\ job[p].gen \in GenId
      BY <2>22, CommandAt DEF SetPending, Holding, TypeOK
    <3>2. pending' \in [Hosts -> GenId \cup {None}] /\ store' = store
      BY <2>22, <3>1 DEF SetPending, TypeOK
    <3>3. ProcsOK'
      <4>1. CASE Finish(p)
        BY <2>22, <4>1, <3>2, FinishTyped DEF SetPending, disk
      <4>2. CASE ~Finish(p)
        <5> DEFINE j == [job[p] EXCEPT !.targets = @ \ {h}]
        <5>1. j \in Job /\ j.cmd = "stage" /\ j.gen \in GenId
          BY <2>22, <3>1, <4>2 DEF SetPending, JobOK, Job, Labels
        <5>2. Moved(p, "pend", j) /\ store' = store
          BY <2>22, <3>1, <4>2 DEF SetPending, Moved, Goto, disk, TypeOK
        <5> HIDE DEF j
        <5>3. JobOK(p)'
          BY <5>1, <5>2 DEF Moved, JobOK, Labels, Holding
        <5> QED
          BY <5>2, <5>3, OneProcessMoves DEF Moved
      <4> QED
        BY <2>22, <4>1, <4>2 DEF SetPending
    <3> QED
      BY <2>22, <3>2, <3>3 DEF SetPending, ProcsOK, disk, count, TypeOK
  <2>23. ASSUME NEW p \in Procs, Crash(p) PROVE TypeOK'
    <3>1. store' = store
      BY <2>23 DEF Crash, disk
    <3>2. ProcsOK'
      BY <2>23, <3>1, FinishTyped DEF Crash
    <3>3. lock' \in [Hosts -> Procs \cup {None}] /\ crashes' \in Nat
      BY <2>23 DEF Crash, TypeOK
    <3> QED
      BY <2>23, <3>2, <3>3 DEF Crash, ProcsOK, disk, TypeOK
  <2>24. ASSUME Environment PROVE TypeOK'
    <3>1. UNCHANGED <<store, currentLink, currentRecord, pending, ledger, session, lock, pc, job,
                      commands, crashes>> /\ edits' \in Nat
      BY <2>24 DEF Environment, EditInventory, EditContent, ResetActivation, UpgradeHost,
                      DamageArtifact, Edit, TypeOK
    <3>2. world' \in World /\ damaged' \subseteq GenId
      <4>1. NoSelection \in Selection /\ world \in World /\ DOMAIN store \subseteq GenId
        BY DEF NoSelection, Selection, TypeOK
      <4>2. CASE EditInventory \/ EditContent \/ ResetActivation
        <5>1. 1 - world.inventory \in {0, 1} /\ world.content + 1 \in Nat
          BY <4>1 DEF World
        <5>2. world' \in World
          BY <4>1, <4>2, <5>1 DEF EditInventory, EditContent, ResetActivation, World
        <5> QED
          BY <4>2, <5>2 DEF EditInventory, EditContent, ResetActivation, TypeOK
      <4>3. ASSUME NEW h \in Hosts, UpgradeHost(h) PROVE world' \in World /\ damaged' = damaged
        BY <4>1, <4>3 DEF UpgradeHost, World
      <4>4. ASSUME NEW g \in DOMAIN store, DamageArtifact(g) PROVE world' \in World /\ damaged' \subseteq GenId
        BY <4>1, <4>4 DEF DamageArtifact, TypeOK
      <4> QED
        BY <2>24, <4>2, <4>3, <4>4 DEF Environment, TypeOK
    <3>3. \A p \in Procs : JobOK(p)'
      BY <3>1 DEF JobOK, TypeOK
    <3> QED
      BY <3>1, <3>2, <3>3 DEF TypeOK
  <2>25. ASSUME UNCHANGED vars PROVE TypeOK'
    BY <2>25 DEF vars, disk, count, TypeOK, JobOK
  <2> QED
    BY <2>1, <2>2, <2>3, <2>4, <2>5, <2>6, <2>7, <2>8, <2>9, <2>10, <2>11, <2>12, <2>13, <2>14, <2>15, <2>16, <2>17, <2>18, <2>19, <2>20, <2>21, <2>22, <2>23,
       <2>24, <2>25 DEF Next, Start, Step
<1> QED
  BY <1>1, <1>2, PTL DEF Spec

-----------------------------------------------------------------------------
(* Transactions: the inductive invariant of lock and pointer, and what      *)
(* follows from it.                                                         *)

\* A launch installs the bootstrap generation of what it detected, and only
\* over a current that nobody selected.
LaunchOnlyRefreshes(p) ==
  job[p].cmd = "launch" =>
    /\ job[p].gen = BootstrapId(job[p].host, job[p].seen)
    /\ pc[p] \in Compiling \cup {"switchLink"} => job[p].old = None \/ job[p].old.kind # "desired"

\* What FreshWhenActivated says of process p.
FreshBy(p) ==
  pc[p] = "switchLink" /\ job[p].cmd = "activate"
    => SourceDigest(job[p].gen) = SourceDigest(DesiredId(job[p].gen.hosts, job[p].seen))

Safe == /\ LockHeld
        /\ \A p \in Procs : PointerOwnedBy(p) /\ FreshBy(p) /\ LaunchOnlyRefreshes(p)

\* Nobody but p moves.
OnlyMoves(p) ==
  /\ pc' = [pc EXCEPT ![p] = pc'[p]]
  /\ job' = [job EXCEPT ![p] = job'[p]]

\* p's own part of the invariant after a step.
SafeBy(p) ==
  /\ \A h \in Hosts : (lock[h] = p) <=> (InTransaction(p) /\ job[p].host = h)
  /\ PointerOwnedBy(p) /\ FreshBy(p) /\ LaunchOnlyRefreshes(p)

\* A step of p keeps the others' part if it neither takes nor frees their
\* locks, nor touches the pointer of a host they are in a transaction on.
LEMMA OthersKeepTheirs ==
  ASSUME TypeOK, Safe, NEW p \in Procs, OnlyMoves(p),
         \A h \in Hosts : \/ lock'[h] = lock[h]
                          \/ lock[h] \in {None, p} /\ lock'[h] \in {None, p},
         \A h \in Hosts : \/ currentLink'[h] = currentLink[h] /\ currentRecord'[h] = currentRecord[h]
                          \/ lock[h] = p,
         SafeBy(p)'
  PROVE  Safe'
<1>1. \A q \in Procs \ {p} : pc'[q] = pc[q] /\ job'[q] = job[q]
  BY DEF OnlyMoves, TypeOK
<1>2. \A q \in Procs \ {p}, h \in Hosts : (lock'[h] = q) <=> (lock[h] = q)
  BY ConstantsAssumption DEF TypeOK
<1>3. \A q \in Procs \ {p} : InTransaction(q)' <=> InTransaction(q)
  BY <1>1 DEF InTransaction
<1>4. LockHeld'
  BY <1>1, <1>2, <1>3 DEF SafeBy, Safe, LockHeld
<1>5. ASSUME NEW q \in Procs \ {p} PROVE (PointerOwnedBy(q) /\ FreshBy(q) /\ LaunchOnlyRefreshes(q))'
  <2>1. CASE InTransaction(q)
    <3>1. job[q].host \in Hosts
      BY <2>1, CommandAt DEF InTransaction, Transaction, Compiling
    <3>2. lock[job[q].host] = q
      BY <2>1, <3>1 DEF Safe, LockHeld
    <3>3. currentLink'[job[q].host] = currentLink[job[q].host]
          /\ currentRecord'[job[q].host] = currentRecord[job[q].host]
      BY <3>1, <3>2
    <3> QED
      BY <1>1, <3>3 DEF Safe, PointerOwnedBy, FreshBy, LaunchOnlyRefreshes
  <2>2. CASE ~InTransaction(q)
    BY <1>1, <2>2 DEF Safe, PointerOwnedBy, FreshBy, LaunchOnlyRefreshes, InTransaction, Transaction
  <2> QED
    BY <2>1, <2>2
<1> QED
  BY <1>4, <1>5 DEF Safe, SafeBy

\* A process that finishes leaves the invariant if it takes its lock with it.
LEMMA FinishIsSafe ==
  ASSUME TypeOK, Safe, NEW p \in Procs, Finish(p),
         UNCHANGED <<currentLink, currentRecord>>,
         \/ lock' = lock /\ ~InTransaction(p)
         \/ Unlock(p) /\ InTransaction(p)
  PROVE  Safe'
<1>1. OnlyMoves(p) /\ pc'[p] = "idle" /\ job'[p] = NoJob
  BY DEF OnlyMoves, Finish, Goto, TypeOK
<1>2. \A h \in Hosts : lock'[h] # p
  <2>1. CASE lock' = lock /\ ~InTransaction(p)
    BY <2>1 DEF Safe, LockHeld
  <2>2. CASE Unlock(p) /\ InTransaction(p)
    BY <2>2, ConstantsAssumption DEF Unlock, Safe, LockHeld, TypeOK
  <2> QED
    BY <2>1, <2>2
<1>3. \A h \in Hosts : lock'[h] = lock[h] \/ (lock[h] \in {None, p} /\ lock'[h] \in {None, p})
  BY DEF Unlock, Safe, LockHeld, TypeOK
<1>4. SafeBy(p)'
  BY <1>1, <1>2 DEF SafeBy, PointerOwnedBy, FreshBy, LaunchOnlyRefreshes, InTransaction,
                    Transaction, Compiling, NoJob
<1> QED
  BY <1>1, <1>3, <1>4, OthersKeepTheirs

\* A command that starts is in no transaction.
LEMMA BeginIsSafe ==
  ASSUME TypeOK, Safe, NEW p \in Procs, NEW l \in {"recompose", "acquire", "currents"},
         NEW j, Goto(p, l), job' = [job EXCEPT ![p] = j],
         Begin(p, j.cmd),
         j.cmd = "launch" => j.gen = BootstrapId(j.host, j.seen)
  PROVE  Safe'
<1>1. OnlyMoves(p) /\ pc'[p] = l /\ job'[p] = j
  BY DEF OnlyMoves, Goto, TypeOK
<1>2. pc[p] = "idle" /\ UNCHANGED <<lock, currentLink, currentRecord>>
  BY DEF Begin, disk
<1>3. ~InTransaction(p) /\ ~InTransaction(p)'
  BY <1>1, <1>2, CommandAt DEF InTransaction, Transaction, Compiling
<1>4. SafeBy(p)'
  BY <1>1, <1>2, <1>3 DEF SafeBy, PointerOwnedBy, FreshBy, LaunchOnlyRefreshes, Safe, LockHeld,
                          InTransaction, Transaction, Compiling
<1> QED
  BY <1>1, <1>2, <1>4, OthersKeepTheirs

\* A step outside every transaction that only moves p on and leaves the
\* pointers and the locks alone.
LEMMA OutsideIsSafe ==
  ASSUME TypeOK, Safe, NEW p \in Procs, OnlyMoves(p),
         UNCHANGED <<lock, currentLink, currentRecord>>,
         ~InTransaction(p), ~InTransaction(p)',
         job'[p].cmd # "launch"
  PROVE  Safe'
<1>1. SafeBy(p)'
  BY DEF SafeBy, PointerOwnedBy, FreshBy, LaunchOnlyRefreshes, Safe, LockHeld, InTransaction,
         Transaction
<1> QED
  BY <1>1, OthersKeepTheirs

\* The defined part of the invariant a transaction's own step must restore.
LEMMA TransactionIsSafe ==
  ASSUME TypeOK, Safe, NEW p \in Procs, OnlyMoves(p),
         InTransaction(p), InTransaction(p)', lock' = lock,
         job'[p].host = job[p].host, job[p].host \in Hosts,
         \A h \in Hosts \ {job[p].host} :
           currentLink'[h] = currentLink[h] /\ currentRecord'[h] = currentRecord[h],
         (PointerOwnedBy(p) /\ FreshBy(p) /\ LaunchOnlyRefreshes(p))'
  PROVE  Safe'
<1>1. lock[job[p].host] = p
  BY DEF Safe, LockHeld
<1>2. SafeBy(p)'
  BY DEF SafeBy, Safe, LockHeld
<1> QED
  BY <1>1, <1>2, OthersKeepTheirs

\* Two equal digests are of the same hosts: the digest of a generation is the
\* digest of its own hosts compiled from what the command saw.
LEMMA SameDigestSameHosts ==
  ASSUME NEW g, NEW r, NEW w, SourceDigest(g) = SourceDigest(DesiredId(r.hosts, w))
  PROVE  SourceDigest(g) = SourceDigest(DesiredId(g.hosts, w))
<1>1. DesiredId(r.hosts, w).hosts = r.hosts
  BY DEF DesiredId
<1>2. SourceDigest(g).included = [h \in g.hosts |-> Included(g, h)]
  BY DEF SourceDigest
<1>3. SourceDigest(DesiredId(r.hosts, w)).included
        = [h \in r.hosts |-> Included(DesiredId(r.hosts, w), h)]
  BY <1>1 DEF SourceDigest
<1>4. g.hosts = r.hosts
  BY <1>2, <1>3
<1> QED
  BY <1>4

-----------------------------------------------------------------------------
(* Every step keeps it.                                                     *)

LEMMA SafeInductive == TypeOK /\ Safe /\ [Next]_vars => Safe'
<1> SUFFICES ASSUME TypeOK, Safe, [Next]_vars PROVE Safe'
  OBVIOUS
<1>1. ASSUME NEW p \in Procs, NEW h \in Hosts, NEW a \in SUBSET Sensitive, ReviewPending(p, h, a)
      PROVE  Safe'
  <2> DEFINE j == [NoJob EXCEPT !.cmd = "activate", !.host = h, !.gen = pending[h], !.approved = a]
  <2>1. Goto(p, "recompose") /\ job' = [job EXCEPT ![p] = j] /\ Begin(p, j.cmd) /\ j.cmd # "launch"
    BY <1>1 DEF ReviewPending, NoJob
  <2> QED
    BY <2>1, BeginIsSafe
<1>2. ASSUME NEW p \in Procs, NEW h \in Hosts, BeginRollback(p, h) PROVE Safe'
  <2> DEFINE j == [NoJob EXCEPT !.cmd = "rollback", !.host = h, !.seen = world]
  <2>1. Goto(p, "acquire") /\ job' = [job EXCEPT ![p] = j] /\ Begin(p, j.cmd) /\ j.cmd # "launch"
    BY <1>2 DEF BeginRollback, NoJob
  <2> QED
    BY <2>1, BeginIsSafe
<1>3. ASSUME NEW p \in Procs, NEW h \in Hosts, BeginLaunch(p, h) PROVE Safe'
  <2> DEFINE j == [NoJob EXCEPT !.cmd = "launch", !.host = h, !.seen = world,
                                !.gen = BootstrapId(h, world)]
  <2>1. Goto(p, "acquire") /\ job' = [job EXCEPT ![p] = j] /\ Begin(p, j.cmd)
        /\ j.gen = BootstrapId(j.host, j.seen)
    BY <1>3 DEF BeginLaunch, NoJob
  <2> QED
    BY <2>1, BeginIsSafe
<1>4. ASSUME NEW p \in Procs, NEW hs \in (SUBSET Hosts) \ {{}}, NEW a \in Assets, ComposeStage(p, hs, a)
      PROVE  Safe'
  <2> DEFINE j == [NoJob EXCEPT !.cmd = "stage", !.targets = hs,
                     !.seen = [world EXCEPT !.act =
                                 [h \in Hosts |-> IF h \in hs THEN Append(world.act[h], a)
                                                              ELSE world.act[h]]]]
  <2>1. Goto(p, "currents") /\ job' = [job EXCEPT ![p] = j] /\ Begin(p, j.cmd) /\ j.cmd # "launch"
    BY <1>4 DEF ComposeStage, NoJob
  <2> QED
    BY <2>1, BeginIsSafe
<1>5. ASSUME NEW p \in Procs, Recompose(p) PROVE Safe'
  <2>1. OnlyMoves(p) /\ pc[p] = "recompose" /\ pc'[p] = "acquire" /\ job'[p].cmd = job[p].cmd
        /\ UNCHANGED <<lock, currentLink, currentRecord>>
    BY <1>5, CommandAt DEF Recompose, OnlyMoves, Goto, disk, TypeOK, JobOK, Job
  <2>2. job[p].cmd = "activate"
    BY <2>1, CommandAt
  <2> QED
    BY <2>1, <2>2, OutsideIsSafe DEF InTransaction, Transaction
<1>6. ASSUME NEW p \in Procs, AcquireActivationLock(p) PROVE Safe'
  <2>1. JobOK(p) /\ job[p].cmd \in {"activate", "rollback", "launch"} /\ job[p].host \in Hosts
        /\ pc[p] = "acquire" /\ UNCHANGED <<currentLink, currentRecord>>
    BY <1>6, CommandAt DEF AcquireActivationLock, disk
  <2>2. ~InTransaction(p)
    BY <2>1 DEF InTransaction, Transaction, Compiling
  <2>3. CASE Finish(p) /\ lock' = lock
    BY <2>1, <2>2, <2>3, FinishIsSafe
  <2>4. CASE Free(job[p].host) /\ lock' = [lock EXCEPT ![job[p].host] = p] /\ job' = job
             /\ Goto(p, CASE job[p].cmd = "activate" -> "validate"
                          [] job[p].cmd = "rollback" -> "parent"
                          [] OTHER -> "select")
    <3>1. OnlyMoves(p) /\ job'[p] = job[p] /\ pc'[p] \in {"validate", "parent", "select"}
      BY <2>4 DEF OnlyMoves, Goto, TypeOK
    <3>2. InTransaction(p)'
      BY <3>1 DEF InTransaction, Transaction
    <3>3. \A h \in Hosts : (lock'[h] = p) <=> (job[p].host = h)
      BY <2>1, <2>2, <2>4 DEF Safe, LockHeld, TypeOK
    <3>4. SafeBy(p)'
      BY <2>1, <3>1, <3>2, <3>3 DEF SafeBy, PointerOwnedBy, FreshBy, LaunchOnlyRefreshes, Safe, Compiling
    <3>5. \A h \in Hosts : lock'[h] = lock[h] \/ (lock[h] = None /\ lock'[h] = p)
      BY <2>1, <2>4 DEF Free, TypeOK
    <3> QED
      BY <2>1, <3>1, <3>4, <3>5, OthersKeepTheirs
  <2> QED
    BY <1>6, <2>3, <2>4 DEF AcquireActivationLock
<1>7. ASSUME NEW p \in Procs, ValidatePending(p) PROVE Safe'
  <2> DEFINE h == job[p].host
  <2>1. pc[p] = "validate" /\ job[p].cmd = "activate" /\ h \in Hosts /\ InTransaction(p)
        /\ UNCHANGED <<currentLink, currentRecord>>
    BY <1>7, CommandAt DEF ValidatePending, InTransaction, Transaction
  <2>2. CASE Finish(p) /\ Unlock(p)
    BY <2>1, <2>2, FinishIsSafe
  <2>3. CASE /\ SourceUnchanged(pending[h], job[p].gen, job[p].seen)
             /\ job' = [job EXCEPT ![p].gen = pending[h], ![p].old = currentLink[h]]
             /\ Goto(p, "switchLink") /\ lock' = lock
    <3>1. OnlyMoves(p) /\ pc'[p] = "switchLink" /\ job'[p].cmd = "activate" /\ job'[p].host = h
          /\ job'[p].gen = pending[h] /\ job'[p].old = currentLink[h] /\ job'[p].seen = job[p].seen
      <4>1. job[p] \in Job
        BY CommandAt
      <4> QED
        BY <2>1, <2>3, <4>1 DEF OnlyMoves, Goto, TypeOK, Job
    <3>2. SourceDigest(pending[h]) = SourceDigest(DesiredId(pending[h].hosts, job[p].seen))
      BY <2>3, SameDigestSameHosts DEF SourceUnchanged
    <3>3. (PointerOwnedBy(p) /\ FreshBy(p) /\ LaunchOnlyRefreshes(p))'
      BY <2>1, <3>1, <3>2 DEF PointerOwnedBy, FreshBy, LaunchOnlyRefreshes
    <3>4. InTransaction(p)'
      BY <3>1 DEF InTransaction, Transaction
    <3> QED
      BY <2>1, <2>3, <3>1, <3>3, <3>4, TransactionIsSafe
  <2> QED
    BY <1>7, <2>2, <2>3 DEF ValidatePending
<1>8. ASSUME NEW p \in Procs, SwitchLink(p) PROVE Safe'
  <2>1. pc[p] = "switchLink" /\ job[p].host \in Hosts /\ InTransaction(p)
    BY <1>8, CommandAt DEF SwitchLink, InTransaction, Transaction
  <2>2. OnlyMoves(p) /\ pc'[p] = "switchRecord" /\ job'[p] = job[p] /\ UNCHANGED <<lock, currentRecord>>
        /\ currentLink' = [currentLink EXCEPT ![job[p].host] = job[p].gen]
    BY <1>8 DEF SwitchLink, OnlyMoves, Goto, TypeOK
  <2>3. (PointerOwnedBy(p) /\ FreshBy(p) /\ LaunchOnlyRefreshes(p))'
    BY <2>1, <2>2 DEF PointerOwnedBy, FreshBy, LaunchOnlyRefreshes, Safe, Compiling, TypeOK
  <2>4. InTransaction(p)'
    BY <2>2 DEF InTransaction, Transaction
  <2> QED
    BY <2>1, <2>2, <2>3, <2>4, TransactionIsSafe DEF TypeOK
<1>9. ASSUME NEW p \in Procs, SwitchRecord(p) PROVE Safe'
  <2>1. pc[p] = "switchRecord" /\ job[p].host \in Hosts /\ InTransaction(p) /\ currentLink' = currentLink
        /\ currentRecord' = [currentRecord EXCEPT
             ![job[p].host] = [gen |-> job[p].gen, version |-> job[p].seen.version[job[p].host]]]
    BY <1>9, CommandAt DEF SwitchRecord, InTransaction, Transaction
  <2>2. lock[job[p].host] = p /\ currentLink[job[p].host] = job[p].gen
    BY <2>1 DEF Safe, LockHeld, PointerOwnedBy
  <2>3. CASE Finish(p) /\ Unlock(p)
    <3>1. OnlyMoves(p) /\ pc'[p] = "idle" /\ job'[p] = NoJob
      BY <2>3 DEF OnlyMoves, Finish, Goto, TypeOK
    <3>2. \A h \in Hosts : lock'[h] # p /\ (lock'[h] = lock[h] \/ (lock[h] = p /\ lock'[h] = None))
      BY <2>1, <2>2, <2>3, ConstantsAssumption DEF Unlock, Safe, LockHeld, TypeOK
    <3>3. SafeBy(p)'
      BY <3>1, <3>2 DEF SafeBy, PointerOwnedBy, FreshBy, LaunchOnlyRefreshes, InTransaction,
                        Transaction, Compiling, NoJob
    <3> QED
      BY <2>1, <2>2, <3>1, <3>2, <3>3, OthersKeepTheirs DEF TypeOK
  <2>4. CASE \E l \in {"clear", "append"} : Goto(p, l) /\ UNCHANGED <<job, lock, session>>
    <3>1. OnlyMoves(p) /\ pc'[p] \in {"clear", "append"} /\ job'[p] = job[p] /\ lock' = lock
      BY <2>4 DEF OnlyMoves, Goto, TypeOK
    <3>2. currentRecord'[job[p].host].gen = job[p].gen
      BY <2>1 DEF TypeOK
    <3>3. (PointerOwnedBy(p) /\ FreshBy(p) /\ LaunchOnlyRefreshes(p))'
      BY <2>1, <2>2, <3>1, <3>2 DEF PointerOwnedBy, FreshBy, LaunchOnlyRefreshes, Safe, Compiling
    <3>4. InTransaction(p)'
      BY <3>1 DEF InTransaction, Transaction
    <3> QED
      BY <2>1, <3>1, <3>3, <3>4, TransactionIsSafe DEF TypeOK
  <2> QED
    BY <1>9, <2>3, <2>4 DEF SwitchRecord
<1>10. ASSUME NEW p \in Procs, ClearPending(p) PROVE Safe'
  <2>1. pc[p] = "clear" /\ job[p].host \in Hosts /\ InTransaction(p) /\ job[p].cmd = "activate"
        /\ UNCHANGED <<lock, currentLink, currentRecord>>
    BY <1>10, CommandAt DEF ClearPending, InTransaction, Transaction
  <2>2. OnlyMoves(p) /\ pc'[p] = "append" /\ job'[p] = job[p]
    BY <1>10 DEF ClearPending, OnlyMoves, Goto, TypeOK
  <2>3. (PointerOwnedBy(p) /\ FreshBy(p) /\ LaunchOnlyRefreshes(p))' /\ InTransaction(p)'
    BY <2>1, <2>2 DEF PointerOwnedBy, FreshBy, LaunchOnlyRefreshes, Safe, InTransaction, Transaction
  <2> QED
    BY <2>1, <2>2, <2>3, TransactionIsSafe
<1>11. ASSUME NEW p \in Procs, AppendLedger(p) PROVE Safe'
  <2>1. pc[p] = "append" /\ job[p].host \in Hosts /\ InTransaction(p) /\ Unlock(p)
        /\ UNCHANGED <<currentLink, currentRecord>>
    BY <1>11, CommandAt DEF AppendLedger, InTransaction, Transaction
  <2>2. CASE Finish(p)
    BY <2>1, <2>2, FinishIsSafe
  <2>3. CASE job[p].cmd = "activate" /\ Goto(p, "verify") /\ job' = job
    <3>1. OnlyMoves(p) /\ pc'[p] = "verify" /\ job'[p] = job[p]
      BY <2>3 DEF OnlyMoves, Goto, TypeOK
    <3>2. \A h \in Hosts : lock'[h] # p /\ (lock'[h] = lock[h] \/ (lock[h] = p /\ lock'[h] = None))
      BY <2>1, ConstantsAssumption DEF Unlock, Safe, LockHeld, TypeOK
    <3>3. SafeBy(p)'
      BY <2>3, <3>1, <3>2 DEF SafeBy, PointerOwnedBy, FreshBy, LaunchOnlyRefreshes, InTransaction,
                        Transaction, Compiling
    <3> QED
      BY <2>1, <3>1, <3>2, <3>3, OthersKeepTheirs
  <2> QED
    BY <1>11, <2>2, <2>3 DEF AppendLedger
<1>12. ASSUME NEW p \in Procs, VerifyActivation(p) PROVE Safe'
  <2>1. pc[p] = "verify" /\ job[p].cmd = "activate" /\ ~InTransaction(p)
        /\ UNCHANGED <<lock, currentLink, currentRecord>>
    BY <1>12, CommandAt DEF VerifyActivation, InTransaction, Transaction
  <2>2. CASE Finish(p)
    BY <2>1, <2>2, FinishIsSafe
  <2>3. CASE job' = [job EXCEPT ![p].cmd = "rollback", ![p].failed = job[p].gen] /\ Goto(p, "acquire")
    <3>1. job[p] \in Job
      BY CommandAt
    <3>2. OnlyMoves(p) /\ pc'[p] = "acquire" /\ job'[p].cmd = "rollback"
      BY <2>3, <3>1 DEF OnlyMoves, Goto, TypeOK, Job
    <3> QED
      BY <2>1, <3>2, OutsideIsSafe DEF InTransaction, Transaction
  <2> QED
    BY <1>12, <2>2, <2>3 DEF VerifyActivation
<1>13. ASSUME NEW p \in Procs, ReadParent(p) PROVE Safe'
  <2> DEFINE h == job[p].host
  <2>1. pc[p] = "parent" /\ job[p].cmd = "rollback" /\ h \in Hosts /\ InTransaction(p)
        /\ UNCHANGED <<currentLink, currentRecord>>
    BY <1>13, CommandAt DEF ReadParent, InTransaction, Transaction, disk
  <2>2. CASE Finish(p) /\ Unlock(p)
    BY <2>1, <2>2, FinishIsSafe
  <2>3. CASE /\ job' = [job EXCEPT ![p].gen = store[currentLink[h]].parent, ![p].old = currentLink[h]]
             /\ Goto(p, "switchLink") /\ lock' = lock
    <3>1. job[p] \in Job
      BY CommandAt
    <3>2. OnlyMoves(p) /\ pc'[p] = "switchLink" /\ job'[p].cmd = "rollback" /\ job'[p].host = h
          /\ job'[p].old = currentLink[h]
      BY <2>1, <2>3, <3>1 DEF OnlyMoves, Goto, TypeOK, Job
    <3>3. (PointerOwnedBy(p) /\ FreshBy(p) /\ LaunchOnlyRefreshes(p))' /\ InTransaction(p)'
      BY <2>1, <3>2 DEF PointerOwnedBy, FreshBy, LaunchOnlyRefreshes, InTransaction, Transaction
    <3> QED
      BY <2>1, <2>3, <3>2, <3>3, TransactionIsSafe
  <2> QED
    BY <1>13, <2>2, <2>3 DEF ReadParent
<1>14. ASSUME NEW p \in Procs, SelectLaunch(p) PROVE Safe'
  <2> DEFINE h == job[p].host
             c == currentLink[h]
  <2>1. pc[p] = "select" /\ job[p].cmd = "launch" /\ h \in Hosts /\ InTransaction(p)
        /\ UNCHANGED <<currentLink, currentRecord>>
    BY <1>14, CommandAt DEF SelectLaunch, InTransaction, Transaction
  <2>2. CASE Finish(p) /\ Unlock(p)
    BY <2>1, <2>2, FinishIsSafe
  <2>3. CASE /\ c = None \/ c.kind # "desired"
             /\ job' = [job EXCEPT ![p].old = c] /\ lock' = lock
             /\ Goto(p, IF job[p].gen \in DOMAIN store THEN "switchLink" ELSE "compile")
    <3>1. job[p] \in Job
      BY CommandAt
    <3>2. OnlyMoves(p) /\ pc'[p] \in {"switchLink", "compile"} /\ job'[p].cmd = "launch"
          /\ job'[p].host = h /\ job'[p].old = c /\ job'[p].gen = job[p].gen /\ job'[p].seen = job[p].seen
      BY <2>1, <2>3, <3>1 DEF OnlyMoves, Goto, TypeOK, Job
    <3>3. (PointerOwnedBy(p) /\ FreshBy(p) /\ LaunchOnlyRefreshes(p))'
      BY <2>1, <2>3, <3>2 DEF PointerOwnedBy, FreshBy, LaunchOnlyRefreshes, Safe
    <3>4. InTransaction(p)'
      BY <3>2 DEF InTransaction, Transaction, Compiling
    <3> QED
      BY <2>1, <2>3, <3>2, <3>3, <3>4, TransactionIsSafe
  <2> QED
    BY <1>14, <2>2, <2>3 DEF SelectLaunch, Selected
<1>15. ASSUME NEW p \in Procs, ReadCurrents(p) PROVE Safe'
  <2>1. job[p].cmd = "stage" /\ ~InTransaction(p) /\ UNCHANGED <<lock, currentLink, currentRecord>>
    BY <1>15, CommandAt DEF ReadCurrents, InTransaction, Transaction, disk
  <2>2. CASE Finish(p)
    BY <2>1, <2>2, FinishIsSafe
  <2>3. CASE ~Finish(p)
    <3>1. job[p] \in Job
      BY CommandAt
    <3>2. OnlyMoves(p) /\ pc'[p] \in {"persist"} /\ job'[p].cmd = "stage"
      BY <1>15, <2>1, <2>3, <3>1 DEF ReadCurrents, OnlyMoves, Goto, TypeOK, Job
    <3> QED
      BY <2>1, <3>2, OutsideIsSafe DEF InTransaction, Transaction
  <2> QED
    BY <2>2, <2>3
<1>16. ASSUME NEW p \in Procs, PersistActivation(p) PROVE Safe'
  <2>1. job[p].cmd = "stage" /\ ~InTransaction(p) /\ UNCHANGED <<lock, currentLink, currentRecord>>
    BY <1>16, CommandAt DEF PersistActivation, InTransaction, Transaction, disk
  <2>2. CASE Finish(p)
    BY <2>1, <2>2, FinishIsSafe
  <2>3. CASE ~Finish(p)
    <3>1. job[p] \in Job
      BY CommandAt
    <3>2. OnlyMoves(p) /\ pc'[p] \in {"lookup"} /\ job'[p].cmd = "stage"
      BY <1>16, <2>1, <2>3, <3>1 DEF PersistActivation, OnlyMoves, Goto, TypeOK, Job
    <3> QED
      BY <2>1, <3>2, OutsideIsSafe DEF InTransaction, Transaction
  <2> QED
    BY <2>2, <2>3
<1>17. ASSUME NEW p \in Procs, LookupGeneration(p) PROVE Safe'
  <2>1. job[p].cmd = "stage" /\ ~InTransaction(p) /\ UNCHANGED <<lock, currentLink, currentRecord>>
    BY <1>17, CommandAt DEF LookupGeneration, InTransaction, Transaction, disk
  <2>2. CASE Finish(p)
    BY <2>1, <2>2, FinishIsSafe
  <2>3. CASE ~Finish(p)
    <3>1. job[p] \in Job
      BY CommandAt
    <3>2. OnlyMoves(p) /\ pc'[p] \in {"compile", "reconcile", "pend"} /\ job'[p].cmd = "stage"
      BY <1>17, <2>1, <2>3, <3>1 DEF LookupGeneration, OnlyMoves, Goto, TypeOK, Job
    <3> QED
      BY <2>1, <3>2, OutsideIsSafe DEF InTransaction, Transaction
  <2> QED
    BY <2>2, <2>3
<1>18. ASSUME NEW p \in Procs, OpenCachedManifest(p) PROVE Safe'
  <2>1. job[p].cmd = "stage" /\ ~InTransaction(p) /\ UNCHANGED <<lock, currentLink, currentRecord>>
    BY <1>18, CommandAt DEF OpenCachedManifest, InTransaction, Transaction, disk
  <2>2. CASE Finish(p)
    BY <2>1, <2>2, FinishIsSafe
  <2>3. CASE ~Finish(p)
    <3>1. job[p] \in Job
      BY CommandAt
    <3>2. OnlyMoves(p) /\ pc'[p] \in {"write"} /\ job'[p].cmd = "stage"
      BY <1>18, <2>1, <2>3, <3>1 DEF OpenCachedManifest, OnlyMoves, Goto, TypeOK, Job
    <3> QED
      BY <2>1, <3>2, OutsideIsSafe DEF InTransaction, Transaction
  <2> QED
    BY <2>2, <2>3
<1>19. ASSUME NEW p \in Procs, NEW h \in Hosts, SetPending(p, h) PROVE Safe'
  <2>1. job[p].cmd = "stage" /\ ~InTransaction(p) /\ UNCHANGED <<lock, currentLink, currentRecord>>
    BY <1>19, CommandAt DEF SetPending, InTransaction, Transaction, disk
  <2>2. CASE Finish(p)
    BY <2>1, <2>2, FinishIsSafe
  <2>3. CASE ~Finish(p)
    <3>1. job[p] \in Job
      BY CommandAt
    <3>2. OnlyMoves(p) /\ pc'[p] \in {"pend"} /\ job'[p].cmd = "stage"
      BY <1>19, <2>1, <2>3, <3>1 DEF SetPending, OnlyMoves, Goto, TypeOK, Job
    <3> QED
      BY <2>1, <3>2, OutsideIsSafe DEF InTransaction, Transaction
  <2> QED
    BY <2>2, <2>3
<1>20. ASSUME NEW p \in Procs, OpenCompiledManifest(p) PROVE Safe'
  <2>1. pc[p] = "compile" /\ job[p].cmd \in {"launch", "stage"} /\ UNCHANGED <<currentLink, currentRecord>>
    BY <1>20, CommandAt DEF OpenCompiledManifest
  <2>2. CASE Finish(p)
    <3>1. InTransaction(p) <=> job[p].cmd = "launch"
      BY <2>1 DEF InTransaction, Transaction, Compiling
    <3>2. IF job[p].cmd = "launch" THEN Unlock(p) ELSE lock' = lock
      <4>1. CASE ~Goto(p, "write")
        BY <1>20, <4>1 DEF OpenCompiledManifest
      <4>2. CASE Goto(p, "write")
        BY <2>2, <4>2 DEF Finish, Goto, TypeOK
      <4> QED
        BY <4>1, <4>2
    <3> QED
      BY <2>1, <2>2, <3>1, <3>2, FinishIsSafe
  <2>3. CASE ~Finish(p)
    <3>1. OnlyMoves(p) /\ pc'[p] = "write" /\ job'[p] = job[p] /\ lock' = lock
      BY <1>20, <2>3 DEF OpenCompiledManifest, OnlyMoves, Goto, TypeOK
    <3>2. CASE job[p].cmd = "stage"
      BY <2>1, <3>1, <3>2, OutsideIsSafe DEF InTransaction, Transaction
    <3>3. CASE job[p].cmd = "launch"
      <4>1. job[p].host \in Hosts /\ InTransaction(p) /\ InTransaction(p)'
        BY <2>1, <3>1, <3>3, CommandAt DEF InTransaction, Transaction, Compiling
      <4>2. (PointerOwnedBy(p) /\ FreshBy(p) /\ LaunchOnlyRefreshes(p))'
        BY <2>1, <3>1, <3>3 DEF PointerOwnedBy, FreshBy, LaunchOnlyRefreshes, Safe, Compiling
      <4> QED
        BY <2>1, <3>1, <4>1, <4>2, TransactionIsSafe
    <3> QED
      BY <2>1, <3>2, <3>3
  <2> QED
    BY <2>2, <2>3
<1>21. ASSUME NEW p \in Procs, WriteManifest(p) PROVE Safe'
  <2>1. pc[p] = "write" /\ job[p].cmd \in {"launch", "stage"} /\ UNCHANGED <<currentLink, currentRecord>>
    BY <1>21, CommandAt DEF WriteManifest
  <2>2. OnlyMoves(p) /\ pc'[p] = "seal" /\ job'[p] = job[p] /\ lock' = lock
    BY <1>21 DEF WriteManifest, OnlyMoves, Goto, TypeOK
  <2>3. CASE job[p].cmd = "stage"
    BY <2>1, <2>2, <2>3, OutsideIsSafe DEF InTransaction, Transaction
  <2>4. CASE job[p].cmd = "launch"
    <3>1. job[p].host \in Hosts /\ InTransaction(p) /\ InTransaction(p)'
      BY <2>1, <2>2, <2>4, CommandAt DEF InTransaction, Transaction, Compiling
    <3>2. (PointerOwnedBy(p) /\ FreshBy(p) /\ LaunchOnlyRefreshes(p))'
      BY <2>1, <2>2, <2>4 DEF PointerOwnedBy, FreshBy, LaunchOnlyRefreshes, Safe, Compiling
    <3> QED
      BY <2>1, <2>2, <3>1, <3>2, TransactionIsSafe
  <2> QED
    BY <2>1, <2>3, <2>4
<1>22. ASSUME NEW p \in Procs, SealManifest(p) PROVE Safe'
  <2>1. pc[p] = "seal" /\ job[p].cmd \in {"launch", "stage"} /\ UNCHANGED <<currentLink, currentRecord>>
    BY <1>22, CommandAt DEF SealManifest
  <2>2. OnlyMoves(p) /\ pc'[p] = (IF job[p].cmd = "launch" THEN "switchLink" ELSE "pend") /\ job'[p] = job[p] /\ lock' = lock
    BY <1>22 DEF SealManifest, OnlyMoves, Goto, TypeOK
  <2>3. CASE job[p].cmd = "stage"
    BY <2>1, <2>2, <2>3, OutsideIsSafe DEF InTransaction, Transaction
  <2>4. CASE job[p].cmd = "launch"
    <3>1. job[p].host \in Hosts /\ InTransaction(p) /\ InTransaction(p)'
      BY <2>1, <2>2, <2>4, CommandAt DEF InTransaction, Transaction, Compiling
    <3>2. (PointerOwnedBy(p) /\ FreshBy(p) /\ LaunchOnlyRefreshes(p))'
      BY <2>1, <2>2, <2>4 DEF PointerOwnedBy, FreshBy, LaunchOnlyRefreshes, Safe, Compiling
    <3> QED
      BY <2>1, <2>2, <3>1, <3>2, TransactionIsSafe
  <2> QED
    BY <2>1, <2>3, <2>4
<1>23. ASSUME NEW p \in Procs, Crash(p) PROVE Safe'
  <2>1. OnlyMoves(p) /\ pc'[p] = "idle" /\ job'[p] = NoJob /\ UNCHANGED <<currentLink, currentRecord>>
    BY <1>23 DEF Crash, OnlyMoves, Finish, Goto, disk, TypeOK
  <2>2. \A h \in Hosts : lock'[h] # p /\ (lock'[h] = lock[h] \/ (lock[h] = p /\ lock'[h] = None))
    BY <1>23, ConstantsAssumption DEF Crash
  <2>3. SafeBy(p)'
    BY <2>1, <2>2 DEF SafeBy, PointerOwnedBy, FreshBy, LaunchOnlyRefreshes, InTransaction,
                      Transaction, Compiling, NoJob
  <2> QED
    BY <2>1, <2>2, <2>3, OthersKeepTheirs
<1>24. ASSUME Environment \/ UNCHANGED vars PROVE Safe'
  <2>1. UNCHANGED <<currentLink, currentRecord, lock, pc, job>>
    BY <1>24 DEF Environment, EditInventory, EditContent, ResetActivation, UpgradeHost,
                 DamageArtifact, Edit, vars, disk
  <2> QED
    BY <2>1 DEF Safe, LockHeld, PointerOwnedBy, FreshBy, LaunchOnlyRefreshes, InTransaction
<1> QED
  BY <1>1, <1>2, <1>3, <1>4, <1>5, <1>6, <1>7, <1>8, <1>9, <1>10, <1>11, <1>12, <1>13, <1>14,
     <1>15, <1>16, <1>17, <1>18, <1>19, <1>20, <1>21, <1>22, <1>23, <1>24 DEF Next, Start, Step

\* The inductive invariant holds in every reachable state.
THEOREM SafeAlways == Spec => [](TypeOK /\ Safe)
<1>1. Init => Safe
  BY ConstantsAssumption DEF Init, Safe, LockHeld, PointerOwnedBy, FreshBy, LaunchOnlyRefreshes,
                             InTransaction, Transaction, Compiling, NoJob
<1>2. TypeOK /\ Safe /\ [Next]_vars => Safe'
  BY SafeInductive
<1> QED
  BY <1>1, <1>2, TypeCorrect, PTL DEF Spec
-----------------------------------------------------------------------------
(* What follows.                                                            *)

\* A process is in a transaction on a host exactly when it holds its lock.
THEOREM LockHeldAlways == Spec => []LockHeld
<1>1. Safe => LockHeld
  BY DEF Safe
<1> QED
  BY <1>1, SafeAlways, PTL

\* A transaction finds the pointer as it read it, then as it wrote it.
THEOREM PointerOwnedAlways == Spec => []PointerOwned
<1>1. Safe => PointerOwned
  BY DEF Safe, PointerOwned
<1> QED
  BY <1>1, SafeAlways, PTL

\* What an activation switches to was compiled from the sources it saw.
THEOREM FreshAlways == Spec => []FreshWhenActivated
<1>1. Safe => FreshWhenActivated
  BY DEF Safe, FreshBy, FreshWhenActivated
<1> QED
  BY <1>1, SafeAlways, PTL

\* The only steps that write the ledger, the current link and the session.
LEMMA WhoWrites ==
  ASSUME Next
  PROVE  /\ \/ ledger' = ledger
            \/ \E p \in Procs : ValidatePending(p) \/ AppendLedger(p) \/ VerifyActivation(p)
         /\ currentLink' = currentLink \/ \E p \in Procs : SwitchLink(p)
         /\ session' = session \/ \E p \in Procs : SelectLaunch(p) \/ SwitchRecord(p)
<1>1. ASSUME NEW p \in Procs, Start(p) PROVE UNCHANGED <<ledger, currentLink, session>>
  BY <1>1 DEF Start, ReviewPending, BeginRollback, BeginLaunch, ComposeStage, Begin, disk
<1>2. ASSUME NEW p \in Procs, Crash(p) PROVE UNCHANGED <<ledger, currentLink, session>>
  BY <1>2 DEF Crash, disk
<1>3. ASSUME Environment PROVE UNCHANGED <<ledger, currentLink, session>>
  BY <1>3 DEF Environment, EditInventory, EditContent, ResetActivation, UpgradeHost, DamageArtifact, Edit
<1>4. ASSUME NEW p \in Procs,
             \/ Recompose(p) \/ AcquireActivationLock(p) \/ ClearPending(p) \/ ReadParent(p)
             \/ ReadCurrents(p) \/ PersistActivation(p) \/ LookupGeneration(p)
             \/ OpenCompiledManifest(p) \/ OpenCachedManifest(p) \/ WriteManifest(p)
             \/ SealManifest(p) \/ \E h \in Hosts : SetPending(p, h)
      PROVE  UNCHANGED <<ledger, currentLink, session>>
  BY <1>4 DEF Recompose, AcquireActivationLock, ClearPending, ReadParent, ReadCurrents,
              PersistActivation, LookupGeneration, OpenCompiledManifest, OpenCachedManifest,
              WriteManifest, SealManifest, SetPending, disk
<1>5. ASSUME NEW p \in Procs, ValidatePending(p) \/ AppendLedger(p) \/ VerifyActivation(p)
      PROVE  UNCHANGED <<currentLink, session>>
  BY <1>5 DEF ValidatePending, AppendLedger, VerifyActivation
<1>6. ASSUME NEW p \in Procs, SwitchLink(p) PROVE UNCHANGED <<ledger, session>>
  BY <1>6 DEF SwitchLink
<1>7. ASSUME NEW p \in Procs, SelectLaunch(p) \/ SwitchRecord(p) PROVE UNCHANGED <<ledger, currentLink>>
  BY <1>7 DEF SelectLaunch, SwitchRecord
<1> QED
  BY <1>1, <1>2, <1>3, <1>4, <1>5, <1>6, <1>7 DEF Next, Step

\* What appending an entry changes, and where it lands.
LEMMA LastEntry ==
  ASSUME TypeOK, NEW x, NEW kind, NEW g, AppendLedgerEntry(x, kind, g),
         NEW h \in Hosts, ledger'[h] # ledger[h]
  PROVE  /\ h = x
         /\ ledger'[h][Len(ledger'[h])].kind = kind
         /\ ledger'[h][Len(ledger'[h])].gen = g
<1>1. h = x /\ ledger'[h] = Append(ledger[h], [kind |-> kind, gen |-> g])
  BY DEF AppendLedgerEntry, TypeOK
<1>2. ledger[h] \in Seq(Entry)
  BY DEF TypeOK
<1> QED
  BY <1>1, <1>2

\* A ledger entry about a switch is written while the pointer still says so.
THEOREM LedgerTruthfulAlways == Spec => LedgerTruthful
<1> DEFINE Told(h) == LET e == ledger'[h][Len(ledger'[h])] IN
             ledger'[h] # ledger[h] /\ e.kind \in {"activated", "rolledback"}
               => currentLink[h] = e.gen /\ currentRecord[h].gen = e.gen
<1>1. TypeOK /\ Safe /\ [Next]_vars => [\A h \in Hosts : Told(h)]_vars
  <2> SUFFICES ASSUME TypeOK, Safe, Next, NEW h \in Hosts, ledger'[h] # ledger[h],
                      ledger'[h][Len(ledger'[h])].kind \in {"activated", "rolledback"}
               PROVE  /\ currentLink[h] = ledger'[h][Len(ledger'[h])].gen
                      /\ currentRecord[h].gen = ledger'[h][Len(ledger'[h])].gen
    OBVIOUS
  <2>1. ASSUME NEW p \in Procs, ValidatePending(p) PROVE FALSE
    <3>1. AppendLedgerEntry(job[p].host, "cas-rejected", pending[job[p].host])
      BY <2>1 DEF ValidatePending
    <3> QED
      BY <3>1, LastEntry
  <2>2. ASSUME NEW p \in Procs, VerifyActivation(p) PROVE FALSE
    <3>1. \E g : AppendLedgerEntry(job[p].host, "verification-failed", g)
      BY <2>2 DEF VerifyActivation
    <3> QED
      BY <3>1, LastEntry
  <2>3. ASSUME NEW p \in Procs, AppendLedger(p)
        PROVE  /\ currentLink[h] = ledger'[h][Len(ledger'[h])].gen
               /\ currentRecord[h].gen = ledger'[h][Len(ledger'[h])].gen
    <3>1. h = job[p].host /\ ledger'[h][Len(ledger'[h])].gen = job[p].gen
      <4>1. \E kind : AppendLedgerEntry(job[p].host, kind, job[p].gen)
        BY <2>3 DEF AppendLedger
      <4> QED
        BY <4>1, LastEntry
    <3>2. pc[p] = "append" /\ PointerOwnedBy(p)
      BY <2>3 DEF AppendLedger, Safe
    <3> QED
      BY <3>1, <3>2 DEF PointerOwnedBy
  <2> QED
    BY <2>1, <2>2, <2>3, WhoWrites
<1> QED
  BY <1>1, SafeAlways, PTL DEF Spec, LedgerTruthful

\* Only an activation or a rollback replaces what the user selected.
THEOREM LaunchKeepsSelectionAlways == Spec => LaunchKeepsSelection
<1> DEFINE Kept(h) ==
             currentLink[h] # None /\ currentLink[h].kind = "desired" /\ currentLink'[h] # currentLink[h]
               => \E p \in Procs : lock[h] = p /\ job[p].cmd \in {"activate", "rollback"}
<1>1. TypeOK /\ Safe /\ [Next]_vars => [\A h \in Hosts : Kept(h)]_vars
  <2> SUFFICES ASSUME TypeOK, Safe, Next, NEW h \in Hosts, currentLink[h] # None,
                      currentLink[h].kind = "desired", currentLink'[h] # currentLink[h]
               PROVE  \E p \in Procs : lock[h] = p /\ job[p].cmd \in {"activate", "rollback"}
    OBVIOUS
  <2>1. PICK p \in Procs : SwitchLink(p)
    BY WhoWrites
  <2>2. pc[p] = "switchLink" /\ h = job[p].host
    BY <2>1 DEF SwitchLink, TypeOK
  <2>3. lock[h] = p
    BY <2>2 DEF Safe, LockHeld, InTransaction, Transaction
  <2>4. job[p].cmd \in {"activate", "rollback", "launch"}
    BY <2>2, CommandAt
  <2>5. job[p].cmd # "launch"
    BY <2>2 DEF Safe, PointerOwnedBy, LaunchOnlyRefreshes
  <2> QED
    BY <2>3, <2>4, <2>5
<1> QED
  BY <1>1, SafeAlways, PTL DEF Spec, LaunchKeepsSelection

\* A session starts on what is current, compiled for the version recorded.
THEOREM LaunchRunsCurrentAlways == Spec => LaunchRunsCurrent
<1> DEFINE Runs(h) ==
             session'[h] # session[h]
               => /\ currentLink'[h] = session'[h]
                  /\ currentRecord'[h] = [gen |-> session'[h], version |-> session'[h].version[h]]
<1>1. TypeOK /\ Safe /\ [Next]_vars => [\A h \in Hosts : Runs(h)]_vars
  <2> SUFFICES ASSUME TypeOK, Safe, Next, NEW h \in Hosts, session'[h] # session[h]
               PROVE  /\ currentLink'[h] = session'[h]
                      /\ currentRecord'[h] = [gen |-> session'[h], version |-> session'[h].version[h]]
    OBVIOUS
  <2>1. CASE \E p \in Procs : SelectLaunch(p)
    BY <2>1 DEF SelectLaunch, LaunchEvidence, CompiledFor, TypeOK
  <2>2. CASE \E p \in Procs : SwitchRecord(p)
    <3>1. PICK p \in Procs : SwitchRecord(p)
      BY <2>2
    <3>2. h = job[p].host /\ session'[h] = job[p].gen /\ job[p].cmd = "launch" /\ pc[p] = "switchRecord"
      BY <3>1 DEF SwitchRecord, TypeOK
    <3>3. /\ currentLink' = currentLink
          /\ currentRecord'[h] = [gen |-> job[p].gen, version |-> job[p].seen.version[h]]
      BY <3>1, <3>2 DEF SwitchRecord, TypeOK
    <3>4. currentLink[h] = job[p].gen /\ job[p].gen = BootstrapId(h, job[p].seen)
      BY <3>2 DEF Safe, PointerOwnedBy, LaunchOnlyRefreshes
    <3>5. BootstrapId(h, job[p].seen).version[h] = job[p].seen.version[h]
      BY DEF BootstrapId, DesiredId
    <3> QED
      BY <3>2, <3>3, <3>4, <3>5
  <2> QED
    BY <2>1, <2>2, WhoWrites
<1> QED
  BY <1>1, SafeAlways, PTL DEF Spec, LaunchRunsCurrent

-----------------------------------------------------------------------------
(* Pointers resolve.                                                        *)

\* A store of generations whose parents are there.
StoreResolves ==
  \A g \in DOMAIN store : store[g].parent \in {None, Truncated, Garbled} \cup DOMAIN store

\* A pointer of host h that names a generation names one compiled for h.
Resolved(h, g) == g # None => g \in DOMAIN store /\ h \in g.hosts

\* What p is about to point a host at, or to write as a parent, is there.
ResolvedBy(p) ==
  /\ job[p].parent \in {None} \cup DOMAIN store
  /\ pc[p] \in {"switchLink", "switchRecord"}
       => job[p].gen \in DOMAIN store /\ job[p].host \in job[p].gen.hosts
  /\ pc[p] = "pend" => job[p].gen \in DOMAIN store
  /\ job[p].cmd = "stage" /\ pc[p] \in Holding => job[p].targets \subseteq job[p].gen.hosts

Resolves ==
  /\ \A h \in Hosts : Resolved(h, currentLink[h]) /\ Resolved(h, pending[h]) /\ Resolved(h, session[h])
  /\ StoreResolves
  /\ \A p \in Procs : ResolvedBy(p)

\* p's part is kept by the steps of the others: the store only grows.
LEMMA OthersStayResolved ==
  ASSUME TypeOK, Resolves, NEW p \in Procs, OnlyMoves(p),
         DOMAIN store \subseteq DOMAIN store', ResolvedBy(p)'
  PROVE  \A q \in Procs : ResolvedBy(q)'
<1> SUFFICES ASSUME NEW q \in Procs, q # p PROVE ResolvedBy(q)'
  OBVIOUS
<1>1. pc'[q] = pc[q] /\ job'[q] = job[q]
  BY DEF OnlyMoves, TypeOK
<1> QED
  BY <1>1 DEF ResolvedBy, Resolves

\* A launch's generation is compiled for its host.
LEMMA BootstrapOfHost ==
  ASSUME Safe, NEW p \in Procs, job[p].cmd = "launch"
  PROVE  job[p].host \in job[p].gen.hosts
BY DEF Safe, LaunchOnlyRefreshes, BootstrapId, DesiredId

\* A process that finishes remembers no generation.
LEMMA FinishResolved ==
  ASSUME TypeOK, NEW p \in Procs, Finish(p), DOMAIN store \subseteq DOMAIN store'
  PROVE  OnlyMoves(p) /\ ResolvedBy(p)'
<1>1. OnlyMoves(p) /\ pc'[p] = "idle" /\ job'[p] = NoJob
  BY DEF OnlyMoves, Finish, Goto, TypeOK
<1> QED
  BY <1>1 DEF ResolvedBy, NoJob

\* The pointers of every host resolve.
PointersDo ==
  \A h \in Hosts : Resolved(h, currentLink[h]) /\ Resolved(h, pending[h]) /\ Resolved(h, session[h])

\* A step of p that writes no manifest, the pointers apart.
LEMMA StoreKept ==
  ASSUME TypeOK, Resolves, NEW p \in Procs, store' = store, OnlyMoves(p), PointersDo', ResolvedBy(p)'
  PROVE  Resolves'
<1>1. StoreResolves'
  BY DEF StoreResolves, Resolves
<1> QED
  BY <1>1, OthersStayResolved DEF Resolves, PointersDo

\* A step of p that writes a manifest whose parent is there.
LEMMA StoreWritten ==
  ASSUME TypeOK, Resolves, NEW p \in Procs, OnlyMoves(p), NEW g \in GenId, NEW m, PutManifest(g, m),
         m.parent \in {None, Truncated, Garbled} \cup DOMAIN store,
         UNCHANGED <<currentLink, pending, session>>, ResolvedBy(p)'
  PROVE  Resolves'
<1>1. DOMAIN store' = DOMAIN store \cup {g}
  BY DEF PutManifest
<1>2. StoreResolves'
  BY <1>1 DEF StoreResolves, Resolves, PutManifest
<1>3. PointersDo'
  BY <1>1 DEF PointersDo, Resolved, Resolves
<1> QED
  BY <1>1, <1>2, <1>3, OthersStayResolved DEF Resolves, PointersDo

LEMMA ResolvesInductive == TypeOK /\ Safe /\ Resolves /\ [Next]_vars => Resolves'
<1> SUFFICES ASSUME TypeOK, Safe, Resolves, [Next]_vars PROVE Resolves'
  OBVIOUS
<1>0. PointersDo
  BY DEF Resolves, PointersDo
<1>1. ASSUME NEW p \in Procs, Start(p) PROVE Resolves'
  <2>1. UNCHANGED <<store, currentLink, pending, session>>
    BY <1>1 DEF Start, ReviewPending, BeginRollback, BeginLaunch, ComposeStage, Begin, disk
  <2>2. OnlyMoves(p) /\ pc'[p] \in {"recompose", "acquire", "currents"} /\ job'[p].parent = None
    BY <1>1 DEF Start, ReviewPending, BeginRollback, BeginLaunch, ComposeStage, Goto, OnlyMoves, NoJob, TypeOK
  <2>3. ResolvedBy(p)'
    BY <2>2 DEF ResolvedBy, Holding
  <2> QED
    BY <1>0, <2>1, <2>2, <2>3, StoreKept DEF PointersDo, Resolved
<1>2. ASSUME NEW p \in Procs, Finish(p), UNCHANGED <<store, currentLink, pending, session>> PROVE Resolves'
  BY <1>0, <1>2, FinishResolved, StoreKept DEF PointersDo, Resolved
<1>3. ASSUME NEW p \in Procs, Recompose(p) PROVE Resolves'
  <2>1. OnlyMoves(p) /\ pc'[p] = "acquire" /\ job'[p].parent = job[p].parent
        /\ UNCHANGED <<store, currentLink, pending, session>>
    BY <1>3, CommandAt DEF Recompose, OnlyMoves, Goto, disk, TypeOK, Job
  <2>2. ResolvedBy(p)'
    BY <2>1 DEF ResolvedBy, Resolves, Holding
  <2> QED
    BY <1>0, <2>1, <2>2, StoreKept DEF PointersDo, Resolved
<1>4. ASSUME NEW p \in Procs, AcquireActivationLock(p) PROVE Resolves'
  <2>1. UNCHANGED <<store, currentLink, pending, session>>
    BY <1>4 DEF AcquireActivationLock, disk
  <2>2. CASE job' = job /\ \E l \in {"validate", "parent", "select"} : Goto(p, l)
    <3>1. OnlyMoves(p) /\ pc'[p] \in {"validate", "parent", "select"} /\ job'[p] = job[p]
      BY <2>2 DEF OnlyMoves, Goto, TypeOK
    <3>2. ResolvedBy(p)'
      BY <2>1, <3>1 DEF ResolvedBy, Resolves, Holding
    <3> QED
      BY <1>0, <2>1, <3>1, <3>2, StoreKept DEF PointersDo, Resolved
  <2> QED
    BY <1>2, <1>4, <2>1, <2>2 DEF AcquireActivationLock
<1>5. ASSUME NEW p \in Procs, ValidatePending(p) PROVE Resolves'
  <2> DEFINE h == job[p].host
  <2>1. UNCHANGED <<store, currentLink, pending, session>> /\ h \in Hosts /\ job[p] \in Job
        /\ job[p].cmd = "activate"
    BY <1>5, CommandAt DEF ValidatePending
  <2>2. CASE ~Finish(p)
    <3>1. Readable(pending[h]) /\ Goto(p, "switchLink")
          /\ job' = [job EXCEPT ![p].gen = pending[h], ![p].old = currentLink[h]]
      BY <1>5, <2>2 DEF ValidatePending
    <3>2. OnlyMoves(p) /\ pc'[p] = "switchLink" /\ job'[p].parent = job[p].parent
          /\ job'[p].gen = pending[h] /\ job'[p].host = h /\ job'[p].cmd = "activate"
      BY <2>1, <3>1 DEF OnlyMoves, Goto, TypeOK, Job
    <3>3. pending[h] \in DOMAIN store /\ pending[h] # None
      BY <3>1, NoneIsNoGeneration DEF Readable, TypeOK
    <3>4. ResolvedBy(p)'
      BY <2>1, <3>2, <3>3 DEF ResolvedBy, Resolves, Resolved
    <3> QED
      BY <1>0, <2>1, <3>2, <3>4, StoreKept DEF PointersDo, Resolved
  <2> QED
    BY <1>2, <2>1, <2>2
<1>6. ASSUME NEW p \in Procs, SwitchLink(p) PROVE Resolves'
  <2>1. OnlyMoves(p) /\ pc[p] = "switchLink" /\ pc'[p] = "switchRecord" /\ job'[p] = job[p]
        /\ UNCHANGED <<store, pending, session>>
        /\ currentLink' = [currentLink EXCEPT ![job[p].host] = job[p].gen]
    BY <1>6 DEF SwitchLink, OnlyMoves, Goto, TypeOK
  <2>2. job[p].gen \in DOMAIN store /\ job[p].host \in job[p].gen.hosts
    BY <2>1 DEF Resolves, ResolvedBy
  <2>3. PointersDo'
    BY <1>0, <2>1, <2>2 DEF PointersDo, Resolved, TypeOK
  <2>4. ResolvedBy(p)'
    BY <2>1, <2>2, CommandAt DEF ResolvedBy, Resolves
  <2> QED
    BY <2>1, <2>3, <2>4, StoreKept
<1>7. ASSUME NEW p \in Procs, SwitchRecord(p) PROVE Resolves'
  <2>1. pc[p] = "switchRecord" /\ UNCHANGED <<store, currentLink, pending>>
    BY <1>7 DEF SwitchRecord
  <2>2. job[p].gen \in DOMAIN store /\ job[p].host \in job[p].gen.hosts
    BY <2>1 DEF Resolves, ResolvedBy
  <2>3. PointersDo'
    BY <1>0, <1>7, <2>1, <2>2 DEF SwitchRecord, PointersDo, Resolved, TypeOK
  <2>4. CASE Finish(p)
    BY <2>1, <2>3, <2>4, FinishResolved, StoreKept
  <2>5. CASE ~Finish(p)
    <3>1. OnlyMoves(p) /\ pc'[p] \in {"clear", "append"} /\ job'[p] = job[p] /\ job[p].cmd \in {"activate", "rollback"}
      BY <1>7, <2>5 DEF SwitchRecord, OnlyMoves, Goto, TypeOK
    <3>2. ResolvedBy(p)'
      BY <2>1, <3>1 DEF ResolvedBy, Resolves
    <3> QED
      BY <2>1, <2>3, <3>1, <3>2, StoreKept
  <2> QED
    BY <2>4, <2>5
<1>8. ASSUME NEW p \in Procs, ClearPending(p) PROVE Resolves'
  <2>1. OnlyMoves(p) /\ pc[p] = "clear" /\ pc'[p] = "append" /\ job'[p] = job[p]
        /\ UNCHANGED <<store, currentLink, session>>
        /\ pending' = [pending EXCEPT ![job[p].host] = None]
    BY <1>8 DEF ClearPending, OnlyMoves, Goto, TypeOK
  <2>2. ResolvedBy(p)'
    BY <2>1, CommandAt DEF ResolvedBy, Resolves
  <2>3. PointersDo'
    BY <1>0, <2>1 DEF PointersDo, Resolved, TypeOK
  <2> QED
    BY <2>1, <2>2, <2>3, StoreKept
<1>9. ASSUME NEW p \in Procs, AppendLedger(p) PROVE Resolves'
  <2>1. UNCHANGED <<store, currentLink, pending, session>>
    BY <1>9 DEF AppendLedger
  <2>2. CASE ~Finish(p)
    <3>1. OnlyMoves(p) /\ pc'[p] = "verify" /\ job'[p] = job[p] /\ job[p].cmd = "activate"
      BY <1>9, <2>2 DEF AppendLedger, OnlyMoves, Goto, TypeOK
    <3>2. ResolvedBy(p)'
      BY <2>1, <3>1 DEF ResolvedBy, Resolves
    <3> QED
      BY <1>0, <2>1, <3>1, <3>2, StoreKept DEF PointersDo, Resolved
  <2> QED
    BY <1>2, <2>1, <2>2
<1>10. ASSUME NEW p \in Procs, VerifyActivation(p) PROVE Resolves'
  <2>1. UNCHANGED <<store, currentLink, pending, session>> /\ job[p] \in Job
    BY <1>10, CommandAt DEF VerifyActivation
  <2>2. CASE ~Finish(p)
    <3>1. OnlyMoves(p) /\ pc'[p] = "acquire" /\ job'[p].parent = job[p].parent
      BY <1>10, <2>1, <2>2 DEF VerifyActivation, OnlyMoves, Goto, TypeOK, Job
    <3>2. ResolvedBy(p)'
      BY <2>1, <3>1 DEF ResolvedBy, Resolves, Holding
    <3> QED
      BY <1>0, <2>1, <3>1, <3>2, StoreKept DEF PointersDo, Resolved
  <2> QED
    BY <1>2, <2>1, <2>2
<1>11. ASSUME NEW p \in Procs, ReadParent(p) PROVE Resolves'
  <2> DEFINE c == currentLink[job[p].host]
  <2>1. UNCHANGED <<store, currentLink, pending, session>> /\ job[p] \in Job /\ job[p].cmd = "rollback"
    BY <1>11, CommandAt DEF ReadParent, disk
  <2>2. CASE ~Finish(p)
    <3>1. ParentUsable(job[p].host, c, job[p].seen) /\ Goto(p, "switchLink")
          /\ job' = [job EXCEPT ![p].gen = store[c].parent, ![p].old = c]
      BY <1>11, <2>2 DEF ReadParent
    <3>2. OnlyMoves(p) /\ pc'[p] = "switchLink" /\ job'[p].parent = job[p].parent
          /\ job'[p].gen = store[c].parent /\ job'[p].host = job[p].host /\ job'[p].cmd = "rollback"
      BY <2>1, <3>1 DEF OnlyMoves, Goto, TypeOK, Job
    <3>3. store[c].parent \in DOMAIN store /\ job[p].host \in store[c].parent.hosts
      BY <3>1 DEF ParentUsable, Readable, CompiledFor
    <3>4. ResolvedBy(p)'
      BY <2>1, <3>2, <3>3 DEF ResolvedBy, Resolves
    <3> QED
      BY <1>0, <2>1, <3>2, <3>4, StoreKept DEF PointersDo, Resolved
  <2> QED
    BY <1>2, <2>1, <2>2
<1>12. ASSUME NEW p \in Procs, SelectLaunch(p) PROVE Resolves'
  <2> DEFINE h == job[p].host
  <2>1. UNCHANGED <<store, currentLink, pending>> /\ job[p] \in Job /\ job[p].cmd = "launch" /\ h \in Hosts
    BY <1>12, CommandAt DEF SelectLaunch
  <2>2. PointersDo'
    BY <1>0, <1>12, <2>1 DEF SelectLaunch, Selected, Readable, PointersDo, Resolved, TypeOK
  <2>3. CASE Finish(p)
    BY <2>1, <2>2, <2>3, FinishResolved, StoreKept
  <2>4. CASE ~Finish(p)
    <3>1. job' = [job EXCEPT ![p].old = currentLink[h]]
          /\ Goto(p, IF job[p].gen \in DOMAIN store THEN "switchLink" ELSE "compile")
      BY <1>12, <2>4 DEF SelectLaunch
    <3>2. OnlyMoves(p) /\ job'[p].parent = job[p].parent /\ job'[p].gen = job[p].gen
          /\ job'[p].host = h /\ job'[p].cmd = "launch"
          /\ pc'[p] = (IF job[p].gen \in DOMAIN store THEN "switchLink" ELSE "compile")
      BY <2>1, <3>1 DEF OnlyMoves, Goto, TypeOK, Job
    <3>3. h \in job[p].gen.hosts
      BY <2>1, BootstrapOfHost
    <3>4. ResolvedBy(p)'
      BY <2>1, <3>2, <3>3 DEF ResolvedBy, Resolves
    <3> QED
      BY <2>1, <2>2, <3>2, <3>4, StoreKept
  <2> QED
    BY <2>3, <2>4
<1>13. ASSUME NEW p \in Procs, ReadCurrents(p) PROVE Resolves'
  <2>1. UNCHANGED <<store, currentLink, pending, session>> /\ job[p] \in Job /\ job[p].cmd = "stage"
    BY <1>13, CommandAt DEF ReadCurrents, disk
  <2>2. CASE ~Finish(p)
    <3> DEFINE cs == {currentLink[h] : h \in job[p].targets} \ {None}
    <3>1. PICK par \in cs \cup {None} :
            /\ \A c \in cs : Readable(c)
            /\ job' = [job EXCEPT ![p].parent = par] /\ Goto(p, "persist")
      BY <1>13, <2>2 DEF ReadCurrents
    <3>2. par \in {None} \cup DOMAIN store
      BY <3>1 DEF Readable
    <3>3. OnlyMoves(p) /\ pc'[p] = "persist" /\ job'[p].parent = par /\ job'[p].cmd = "stage"
      BY <2>1, <3>1 DEF OnlyMoves, Goto, TypeOK, Job
    <3>4. ResolvedBy(p)'
      BY <2>1, <3>2, <3>3 DEF ResolvedBy, Resolves, Holding
    <3> QED
      BY <1>0, <2>1, <3>3, <3>4, StoreKept DEF PointersDo, Resolved
  <2> QED
    BY <1>2, <2>1, <2>2
<1>14. ASSUME NEW p \in Procs, PersistActivation(p) PROVE Resolves'
  <2>1. UNCHANGED <<store, currentLink, pending, session>> /\ job[p] \in Job /\ job[p].cmd = "stage"
    BY <1>14, CommandAt DEF PersistActivation
  <2>2. OnlyMoves(p) /\ pc'[p] = "lookup" /\ job'[p].parent = job[p].parent
        /\ job'[p].gen = DesiredId(job[p].targets, job[p].seen) /\ job'[p].targets = job[p].targets
        /\ job'[p].cmd = "stage"
    BY <1>14, <2>1 DEF PersistActivation, OnlyMoves, Goto, TypeOK, Job
  <2>3. ResolvedBy(p)'
    BY <2>1, <2>2 DEF ResolvedBy, Resolves, DesiredId
  <2> QED
    BY <1>0, <2>1, <2>2, <2>3, StoreKept DEF PointersDo, Resolved
<1>15. ASSUME NEW p \in Procs, LookupGeneration(p) PROVE Resolves'
  <2>1. UNCHANGED <<store, currentLink, pending, session>> /\ job[p].cmd = "stage" /\ pc[p] = "lookup"
    BY <1>15, CommandAt DEF LookupGeneration, disk
  <2>2. CASE ~Finish(p)
    <3>1. OnlyMoves(p) /\ pc'[p] \in {"compile", "reconcile", "pend"} /\ job'[p] = job[p]
          /\ (pc'[p] = "pend" => job[p].gen \in DOMAIN store)
      BY <1>15, <2>2 DEF LookupGeneration, OnlyMoves, Goto, Readable, TypeOK
    <3>2. ResolvedBy(p)'
      BY <2>1, <3>1 DEF ResolvedBy, Resolves, Holding
    <3> QED
      BY <1>0, <2>1, <3>1, <3>2, StoreKept DEF PointersDo, Resolved
  <2> QED
    BY <1>2, <2>1, <2>2
<1>16. ASSUME NEW p \in Procs, OpenCompiledManifest(p) \/ OpenCachedManifest(p) PROVE Resolves'
  <2>1. UNCHANGED <<currentLink, pending, session>> /\ job[p].gen \in GenId
        /\ pc[p] \in {"compile", "reconcile"} /\ job[p].cmd \in {"launch", "stage"}
    BY <1>16, CommandAt DEF OpenCompiledManifest, OpenCachedManifest, Holding
  <2>2. CASE Finish(p) /\ store' = store
    BY <1>2, <2>1, <2>2
  <2>3. CASE PutManifest(job[p].gen, [parent |-> Truncated, readonly |-> FALSE])
             /\ Goto(p, "write") /\ job' = job
    <3>1. OnlyMoves(p) /\ pc'[p] = "write" /\ job'[p] = job[p] /\ DOMAIN store \subseteq DOMAIN store'
      BY <2>3 DEF OnlyMoves, Goto, PutManifest, TypeOK
    <3>2. ResolvedBy(p)'
      BY <2>1, <3>1 DEF ResolvedBy, Resolves, Holding
    <3> QED
      BY <2>1, <2>3, <3>1, <3>2, StoreWritten
  <2> QED
    BY <1>16, <2>2, <2>3 DEF OpenCompiledManifest, OpenCachedManifest
<1>17. ASSUME NEW p \in Procs, WriteManifest(p) PROVE Resolves'
  <2> DEFINE g == job[p].gen
             m == [store[g] EXCEPT !.parent =
                     IF job[p].parent = None /\ store[g].parent \notin {Truncated, None}
                     THEN Garbled ELSE job[p].parent]
  <2>1. UNCHANGED <<currentLink, pending, session>> /\ g \in GenId /\ g \in DOMAIN store
        /\ pc[p] = "write" /\ job[p].cmd \in {"launch", "stage"}
    BY <1>17, CommandAt DEF WriteManifest, Holding
  <2>2. PutManifest(g, m)
    BY <1>17 DEF WriteManifest
  <2>3. store[g] \in Manifest
    BY <2>1 DEF TypeOK
  <2>4. m.parent \in {None, Truncated, Garbled} \cup DOMAIN store
    BY <2>3 DEF Manifest, Resolves, ResolvedBy
  <2>5. OnlyMoves(p) /\ pc'[p] = "seal" /\ job'[p] = job[p] /\ DOMAIN store \subseteq DOMAIN store'
    BY <1>17, <2>2 DEF WriteManifest, OnlyMoves, Goto, PutManifest, TypeOK
  <2>6. ResolvedBy(p)'
    BY <2>1, <2>5 DEF ResolvedBy, Resolves, Holding
  <2> HIDE DEF m
  <2> QED
    BY <2>1, <2>2, <2>4, <2>5, <2>6, StoreWritten
<1>18. ASSUME NEW p \in Procs, SealManifest(p) PROVE Resolves'
  <2> DEFINE g == job[p].gen
             m == [store[g] EXCEPT !.readonly = TRUE]
  <2>1. UNCHANGED <<currentLink, pending, session>> /\ g \in GenId /\ g \in DOMAIN store
        /\ pc[p] = "seal" /\ job[p].cmd \in {"launch", "stage"} /\ job[p].host \in Hosts \cup {None}
    BY <1>18, CommandAt DEF SealManifest, Holding, Job
  <2>2. PutManifest(g, m)
    BY <1>18 DEF SealManifest
  <2>3. store[g] \in Manifest
    BY <2>1 DEF TypeOK
  <2>4. m.parent \in {None, Truncated, Garbled} \cup DOMAIN store
    BY <2>1, <2>3 DEF Manifest, Resolves, StoreResolves
  <2>5. OnlyMoves(p) /\ pc'[p] = (IF job[p].cmd = "launch" THEN "switchLink" ELSE "pend")
        /\ job'[p] = job[p] /\ DOMAIN store \subseteq DOMAIN store'
    BY <1>18, <2>2 DEF SealManifest, OnlyMoves, Goto, PutManifest, TypeOK
  <2>6. job[p].cmd = "launch" => job[p].host \in g.hosts
    BY BootstrapOfHost
  <2>7. ResolvedBy(p)'
    BY <2>1, <2>5, <2>6 DEF ResolvedBy, Resolves, Holding
  <2> HIDE DEF m
  <2> QED
    BY <2>1, <2>2, <2>4, <2>5, <2>7, StoreWritten
<1>19. ASSUME NEW p \in Procs, NEW h \in Hosts, SetPending(p, h) PROVE Resolves'
  <2>1. pc[p] = "pend" /\ h \in job[p].targets /\ job[p] \in Job /\ job[p].cmd = "stage"
        /\ UNCHANGED <<store, currentLink, session>>
        /\ pending' = [pending EXCEPT ![h] = job[p].gen]
    BY <1>19, CommandAt DEF SetPending
  <2>2. job[p].gen \in DOMAIN store /\ h \in job[p].gen.hosts
    BY <2>1 DEF Resolves, ResolvedBy, Holding
  <2>3. PointersDo'
    BY <1>0, <2>1, <2>2 DEF PointersDo, Resolved, TypeOK
  <2>4. CASE Finish(p)
    BY <2>1, <2>3, <2>4, FinishResolved, StoreKept
  <2>5. CASE ~Finish(p)
    <3>1. OnlyMoves(p) /\ pc'[p] = "pend" /\ job'[p].parent = job[p].parent /\ job'[p].gen = job[p].gen
          /\ job'[p].targets \subseteq job[p].targets /\ job'[p].cmd = "stage"
      BY <1>19, <2>1, <2>5 DEF SetPending, OnlyMoves, TypeOK, Job
    <3>2. ResolvedBy(p)'
      BY <2>1, <3>1 DEF ResolvedBy, Resolves, Holding
    <3> QED
      BY <2>1, <2>3, <3>1, <3>2, StoreKept
  <2> QED
    BY <2>4, <2>5
<1>20. ASSUME NEW p \in Procs, Crash(p) PROVE Resolves'
  BY <1>2, <1>20 DEF Crash, disk
<1>21. ASSUME Environment \/ UNCHANGED vars PROVE Resolves'
  <2>1. UNCHANGED <<store, currentLink, pending, session, pc, job>>
    BY <1>21 DEF Environment, EditInventory, EditContent, ResetActivation, UpgradeHost,
                 DamageArtifact, Edit, vars, disk
  <2> QED
    BY <2>1 DEF Resolves, Resolved, StoreResolves, ResolvedBy
<1> QED
  BY <1>1, <1>3, <1>4, <1>5, <1>6, <1>7, <1>8, <1>9, <1>10, <1>11, <1>12, <1>13, <1>14,
     <1>15, <1>16, <1>17, <1>18, <1>19, <1>20, <1>21 DEF Next, Step

\* No pointer and no parent a rollback could follow ever dangles.
THEOREM PointersResolveAlways == Spec => []PointersResolve
<1>1. Init => Resolves
  BY DEF Init, Resolves, Resolved, StoreResolves, ResolvedBy, NoJob
<1>2. TypeOK /\ Safe /\ Resolves /\ [Next]_vars => Resolves'
  BY ResolvesInductive
<1>3. Resolves => PointersResolve
  BY DEF Resolves, Resolved, StoreResolves, PointersResolve, Readable
<1> QED
  BY <1>1, <1>2, <1>3, SafeAlways, PTL DEF Spec

-----------------------------------------------------------------------------
(* The ledger tells what is current.                                        *)

\* p has moved the link of h and has yet to record it.
Installing(p, h) == pc[p] \in {"switchRecord", "clear", "append"} /\ job[p].host = h

\* Position i of h's ledger holds its last entry about a switch.
IsLastSwitch(h, i) ==
  /\ i \in DOMAIN ledger[h] /\ ledger[h][i].kind \in {"activated", "rolledback"}
  /\ \A j \in DOMAIN ledger[h] : ledger[h][j].kind \in {"activated", "rolledback"} => j <= i

Recorded(h) ==
  /\ \E i \in DOMAIN ledger[h] : IsLastSwitch(h, i) /\ ledger[h][i].gen = currentLink[h]
  /\ currentRecord[h].gen = currentLink[h]

\* What the user selected for h is recorded unless its switch is under way.
TellsOf(h) ==
  /\ crashes = 0 /\ \A p \in Procs : ~Installing(p, h)
  /\ currentLink[h] # None /\ currentLink[h].kind = "desired"
  => Recorded(h)

Tells == \A h \in Hosts : TellsOf(h)

\* An entry about anything but a switch leaves the last switch where it is;
\* one about a switch is the last.
LEMMA LastSwitchAfter ==
  ASSUME TypeOK, NEW h \in Hosts, NEW kind, NEW g,
         ledger'[h] = Append(ledger[h], [kind |-> kind, gen |-> g])
  PROVE  /\ kind \notin {"activated", "rolledback"} =>
              \A i \in DOMAIN ledger[h] :
                IsLastSwitch(h, i) => IsLastSwitch(h, i)' /\ i \in DOMAIN ledger'[h]
                                      /\ ledger'[h][i] = ledger[h][i]
         /\ kind \in {"activated", "rolledback"} =>
              \E i \in DOMAIN ledger'[h] : IsLastSwitch(h, i)' /\ ledger'[h][i].gen = g
<1> DEFINE n == Len(ledger[h])
           e == [kind |-> kind, gen |-> g]
<1>1. ledger[h] \in Seq(Entry)
  BY DEF TypeOK
<1>2. n \in Nat /\ DOMAIN ledger[h] = 1..n /\ DOMAIN ledger'[h] = 1..(n + 1)
  BY <1>1
<1>3. ledger'[h][n + 1] = e /\ \A i \in 1..n : ledger'[h][i] = ledger[h][i]
  BY <1>1
<1>4. e.kind = kind /\ e.gen = g
  OBVIOUS
<1> HIDE DEF n, e
<1>5. ASSUME kind \notin {"activated", "rolledback"}, NEW i \in 1..n, IsLastSwitch(h, i)
      PROVE  IsLastSwitch(h, i)'
  <2>1. i \in 1..(n + 1) /\ ledger'[h][i].kind \in {"activated", "rolledback"}
    BY <1>2, <1>3, <1>5 DEF IsLastSwitch
  <2>2. \A j \in 1..(n + 1) : ledger'[h][j].kind \in {"activated", "rolledback"} => j \in 1..n
    BY <1>2, <1>3, <1>4, <1>5
  <2> QED
    BY <1>2, <1>3, <1>5, <2>1, <2>2 DEF IsLastSwitch
<1>6. ASSUME kind \in {"activated", "rolledback"}, NEW i, i = n + 1
      PROVE  IsLastSwitch(h, i)' /\ ledger'[h][i].gen = g
  BY <1>2, <1>3, <1>4, <1>6 DEF IsLastSwitch
<1>7. n + 1 \in DOMAIN ledger'[h]
  BY <1>2
<1> QED
  BY <1>2, <1>3, <1>5, <1>6, <1>7

\* The only steps that touch a current pointer or a ledger, or move a process
\* into or out of a switch.
LEMMA WhoSwitches ==
  ASSUME TypeOK, Next
  PROVE  \/ \E p \in Procs : \/ ValidatePending(p) \/ VerifyActivation(p) \/ AppendLedger(p)
                             \/ SwitchLink(p) \/ SwitchRecord(p) \/ ClearPending(p) \/ Crash(p)
         \/ /\ UNCHANGED <<ledger, currentLink, currentRecord, crashes>>
            /\ \A q \in Procs, h \in Hosts : Installing(q, h)' <=> Installing(q, h)
<1>1. ASSUME NEW p \in Procs, Start(p)
      PROVE  /\ UNCHANGED <<ledger, currentLink, currentRecord, crashes>>
             /\ OnlyMoves(p) /\ pc[p] = "idle" /\ pc'[p] \in {"recompose", "acquire", "currents"}
  BY <1>1 DEF Start, ReviewPending, BeginRollback, BeginLaunch, ComposeStage, Begin, disk,
              Goto, OnlyMoves, TypeOK
<1>2. ASSUME NEW p \in Procs,
             \/ Recompose(p) \/ AcquireActivationLock(p) \/ ReadParent(p) \/ SelectLaunch(p)
             \/ ReadCurrents(p) \/ PersistActivation(p) \/ LookupGeneration(p)
             \/ OpenCompiledManifest(p) \/ OpenCachedManifest(p) \/ WriteManifest(p)
             \/ SealManifest(p) \/ \E h \in Hosts : SetPending(p, h)
      PROVE  /\ UNCHANGED <<ledger, currentLink, currentRecord, crashes>>
             /\ OnlyMoves(p)
             /\ pc[p] \notin {"switchRecord", "clear", "append"}
             /\ pc'[p] \notin {"switchRecord", "clear", "append"}
  <2>1. UNCHANGED <<ledger, currentLink, currentRecord, crashes>>
    BY <1>2 DEF Recompose, AcquireActivationLock, ReadParent, SelectLaunch, ReadCurrents,
                PersistActivation, LookupGeneration, OpenCompiledManifest, OpenCachedManifest,
                WriteManifest, SealManifest, SetPending, disk, count
  <2>2. pc[p] \notin {"switchRecord", "clear", "append"}
    BY <1>2 DEF Recompose, AcquireActivationLock, ReadParent, SelectLaunch, ReadCurrents,
                PersistActivation, LookupGeneration, OpenCompiledManifest, OpenCachedManifest,
                WriteManifest, SealManifest, SetPending
  <2>3. OnlyMoves(p) /\ pc'[p] \notin {"switchRecord", "clear", "append"}
    <3>1. CASE \/ Recompose(p) \/ AcquireActivationLock(p) \/ ReadParent(p) \/ SelectLaunch(p)
      BY <3>1 DEF Recompose, AcquireActivationLock, ReadParent, SelectLaunch, OnlyMoves, Finish, Goto, TypeOK
    <3>2. CASE ReadCurrents(p) \/ PersistActivation(p) \/ LookupGeneration(p)
      BY <3>2 DEF ReadCurrents, PersistActivation, LookupGeneration, OnlyMoves, Finish, Goto, TypeOK
    <3>3. CASE \/ OpenCompiledManifest(p) \/ OpenCachedManifest(p) \/ WriteManifest(p)
               \/ SealManifest(p) \/ \E h \in Hosts : SetPending(p, h)
      BY <2>2, <3>3 DEF OpenCompiledManifest, OpenCachedManifest, WriteManifest, SealManifest, SetPending,
                   OnlyMoves, Finish, Goto, TypeOK
    <3> QED
      BY <1>2, <3>1, <3>2, <3>3
  <2> QED
    BY <2>1, <2>2, <2>3
<1>3. ASSUME Environment
      PROVE  UNCHANGED <<ledger, currentLink, currentRecord, crashes, pc, job>>
  BY <1>3 DEF Environment, EditInventory, EditContent, ResetActivation, UpgradeHost, DamageArtifact, Edit
<1>4. ASSUME NEW p \in Procs, OnlyMoves(p),
             pc[p] \notin {"switchRecord", "clear", "append"},
             pc'[p] \notin {"switchRecord", "clear", "append"}
      PROVE  \A q \in Procs, h \in Hosts : Installing(q, h)' <=> Installing(q, h)
  <2>1. \A q \in Procs \ {p} : pc'[q] = pc[q] /\ job'[q] = job[q]
    BY <1>4 DEF OnlyMoves, TypeOK
  <2> QED
    BY <1>4, <2>1 DEF Installing
<1>5. CASE \E p \in Procs : Start(p)
  BY <1>1, <1>4, <1>5
<1>6. CASE Environment
  BY <1>3, <1>6 DEF Installing
<1>7. CASE \E p \in Procs : Step(p)
  BY <1>2, <1>4, <1>7 DEF Step
<1> QED
  BY <1>5, <1>6, <1>7 DEF Next

\* A step of p that leaves h's pointer and its ledger alone, and is neither
\* the end of a switch of h nor a crash.
LEMMA TellsKept ==
  ASSUME TypeOK, Tells, NEW p \in Procs, OnlyMoves(p), crashes' = crashes, NEW h \in Hosts,
         Installing(p, h) => Installing(p, h)',
         currentLink'[h] = currentLink[h], currentRecord'[h] = currentRecord[h],
         ledger'[h] = ledger[h]
  PROVE  TellsOf(h)'
<1>1. \A q \in Procs \ {p} : pc'[q] = pc[q] /\ job'[q] = job[q]
  BY DEF OnlyMoves, TypeOK
<1> QED
  BY <1>1 DEF Tells, TellsOf, Installing, Recorded, IsLastSwitch

\* A ledger entry that is not about a switch disturbs nothing.
LEMMA TellsNoted ==
  ASSUME TypeOK, Tells, NEW p \in Procs, OnlyMoves(p), ~Installing(p, job[p].host),
         UNCHANGED <<crashes, currentLink, currentRecord>>,
         NEW kind, kind \notin {"activated", "rolledback"}, NEW g,
         AppendLedgerEntry(job[p].host, kind, g)
  PROVE  Tells'
<1> SUFFICES ASSUME NEW h \in Hosts PROVE TellsOf(h)'
  BY DEF Tells
<1>1. CASE h # job[p].host
  BY <1>1, TellsKept DEF AppendLedgerEntry, Installing, TypeOK
<1>2. CASE h = job[p].host
  <2>1. ledger'[h] = Append(ledger[h], [kind |-> kind, gen |-> g])
    BY <1>2 DEF AppendLedgerEntry, TypeOK
  <2>2. \A q \in Procs \ {p} : pc'[q] = pc[q] /\ job'[q] = job[q]
    BY DEF OnlyMoves, TypeOK
  <2>3. TellsOf(h)
    BY DEF Tells
  <2>4. \A i \in DOMAIN ledger[h] :
          IsLastSwitch(h, i) => IsLastSwitch(h, i)' /\ i \in DOMAIN ledger'[h]
                                /\ ledger'[h][i] = ledger[h][i]
    BY <2>1, LastSwitchAfter
  <2>5. Recorded(h) => Recorded(h)'
    BY <2>4 DEF Recorded
  <2> QED
    BY <1>2, <2>2, <2>3, <2>5 DEF TellsOf, Installing
<1> QED
  BY <1>1, <1>2

LEMMA TellsInductive == TypeOK /\ Safe /\ Tells /\ [Next]_vars => Tells'
<1> SUFFICES ASSUME TypeOK, Safe, Tells, [Next]_vars PROVE Tells'
  OBVIOUS
<1>1. ASSUME NEW p \in Procs, ValidatePending(p) PROVE Tells'
  <2>1. OnlyMoves(p) /\ pc[p] = "validate" /\ UNCHANGED <<crashes, currentLink, currentRecord>>
    BY <1>1 DEF ValidatePending, OnlyMoves, Finish, Goto, count, TypeOK
  <2>2. CASE ledger' = ledger
    BY <2>1, <2>2, TellsKept DEF Tells, Installing
  <2>3. CASE ledger' # ledger
    <3>1. AppendLedgerEntry(job[p].host, "cas-rejected", pending[job[p].host])
      BY <1>1, <2>3 DEF ValidatePending
    <3> QED
      BY <2>1, <3>1, TellsNoted DEF Installing
  <2> QED
    BY <2>2, <2>3
<1>2. ASSUME NEW p \in Procs, VerifyActivation(p) PROVE Tells'
  <2>1. OnlyMoves(p) /\ pc[p] = "verify" /\ UNCHANGED <<crashes, currentLink, currentRecord>>
    BY <1>2 DEF VerifyActivation, OnlyMoves, Finish, Goto, count, TypeOK
  <2>2. CASE ledger' = ledger
    BY <2>1, <2>2, TellsKept DEF Tells, Installing
  <2>3. CASE ledger' # ledger
    <3>1. \E g : AppendLedgerEntry(job[p].host, "verification-failed", g)
      BY <1>2, <2>3 DEF VerifyActivation
    <3> QED
      BY <2>1, <3>1, TellsNoted DEF Installing
  <2> QED
    BY <2>2, <2>3
<1>3. ASSUME NEW p \in Procs, AppendLedger(p) PROVE Tells'
  <2> DEFINE x == job[p].host
  <2>1. OnlyMoves(p) /\ pc[p] = "append" /\ UNCHANGED <<crashes, currentLink, currentRecord>>
        /\ pc'[p] \in {"verify", "idle"} /\ x \in Hosts
    BY <1>3, CommandAt DEF AppendLedger, OnlyMoves, Finish, Goto, count, TypeOK
  <2>2. PICK kind \in {"activated", "rolledback"} : AppendLedgerEntry(x, kind, job[p].gen)
    BY <1>3 DEF AppendLedger
  <2>3. currentLink[x] = job[p].gen /\ currentRecord[x].gen = job[p].gen
    BY <2>1 DEF Safe, PointerOwnedBy
  <2>4. ledger'[x] = Append(ledger[x], [kind |-> kind, gen |-> job[p].gen])
    BY <2>1, <2>2 DEF AppendLedgerEntry, TypeOK
  <2>5. ASSUME NEW h \in Hosts, h = x PROVE TellsOf(h)'
    <3>1. ledger'[h] = Append(ledger[h], [kind |-> kind, gen |-> job[p].gen])
      BY <2>4, <2>5
    <3>2. PICK i \in DOMAIN ledger'[h] : IsLastSwitch(h, i)' /\ ledger'[h][i].gen = job[p].gen
      BY <3>1, LastSwitchAfter
    <3>3. currentLink'[h] = job[p].gen /\ currentRecord'[h].gen = job[p].gen
      BY <2>1, <2>3, <2>5
    <3> QED
      BY <3>2, <3>3 DEF TellsOf, Recorded
  <2>6. ASSUME NEW h \in Hosts, h # x PROVE TellsOf(h)'
    BY <2>1, <2>2, <2>6, TellsKept DEF AppendLedgerEntry, Installing, TypeOK
  <2> QED
    BY <2>5, <2>6 DEF Tells
<1>4. ASSUME NEW p \in Procs, SwitchLink(p) PROVE Tells'
  <2> DEFINE x == job[p].host
  <2>1. OnlyMoves(p) /\ pc[p] = "switchLink" /\ pc'[p] = "switchRecord" /\ job'[p] = job[p]
        /\ UNCHANGED <<crashes, ledger, currentRecord>>
        /\ currentLink' = [currentLink EXCEPT ![x] = job[p].gen]
    BY <1>4 DEF SwitchLink, OnlyMoves, Goto, count, TypeOK
  <2>2. ASSUME NEW h \in Hosts, h = x PROVE TellsOf(h)'
    BY <2>1, <2>2 DEF Installing, TellsOf
  <2>3. ASSUME NEW h \in Hosts, h # x PROVE TellsOf(h)'
    BY <2>1, <2>3, TellsKept DEF Installing, TypeOK
  <2> QED
    BY <2>2, <2>3 DEF Tells
<1>5. ASSUME NEW p \in Procs, SwitchRecord(p) PROVE Tells'
  <2> DEFINE x == job[p].host
  <2>1. OnlyMoves(p) /\ pc[p] = "switchRecord" /\ UNCHANGED <<crashes, ledger, currentLink>>
        /\ \A h \in Hosts \ {x} : currentRecord'[h] = currentRecord[h]
    BY <1>5 DEF SwitchRecord, OnlyMoves, Finish, Goto, count, TypeOK
  <2>2. ASSUME NEW h \in Hosts, h # x PROVE TellsOf(h)'
    BY <2>1, <2>2, TellsKept DEF Installing
  <2>3. CASE job[p].cmd = "launch"
    <3>1. currentLink[x] = job[p].gen /\ job[p].gen.kind = "bootstrap"
      <4>1. currentLink[x] = job[p].gen /\ job[p].gen = BootstrapId(job[p].host, job[p].seen)
        BY <2>1, <2>3 DEF Safe, PointerOwnedBy, LaunchOnlyRefreshes
      <4> QED
        BY <4>1 DEF BootstrapId, DesiredId
    <3> QED
      BY <2>1, <2>2, <3>1 DEF Tells, TellsOf
  <2>4. CASE job[p].cmd # "launch"
    <3>1. job'[p] = job[p] /\ pc'[p] \in {"clear", "append"}
      BY <1>5, <2>4 DEF SwitchRecord, Goto, TypeOK
    <3>2. ASSUME NEW h \in Hosts, h = x PROVE TellsOf(h)'
      BY <2>1, <3>1, <3>2 DEF Installing, TellsOf
    <3> QED
      BY <2>2, <3>2 DEF Tells
  <2> QED
    BY <2>3, <2>4
<1>6. ASSUME NEW p \in Procs, ClearPending(p) PROVE Tells'
  <2>1. OnlyMoves(p) /\ pc'[p] = "append" /\ job'[p] = job[p]
        /\ UNCHANGED <<crashes, ledger, currentLink, currentRecord>>
    BY <1>6 DEF ClearPending, OnlyMoves, Goto, count, TypeOK
  <2> QED
    BY <2>1, TellsKept DEF Tells, Installing
<1>7. ASSUME NEW p \in Procs, Crash(p) PROVE Tells'
  <2>1. crashes' # 0
    BY <1>7 DEF Crash, TypeOK
  <2> QED
    BY <2>1 DEF Tells, TellsOf
<1>8. CASE /\ UNCHANGED <<ledger, currentLink, currentRecord, crashes>>
           /\ \A q \in Procs, h \in Hosts : Installing(q, h)' <=> Installing(q, h)
  BY <1>8 DEF Tells, TellsOf, Recorded, IsLastSwitch
<1>9. CASE UNCHANGED vars
  BY <1>9 DEF vars, disk, count, Tells, TellsOf, Recorded, IsLastSwitch, Installing
<1> QED
  BY <1>1, <1>2, <1>3, <1>4, <1>5, <1>6, <1>7, <1>8, <1>9, WhoSwitches

\* A selected current generation is the one the ledger last recorded a switch to.
THEOREM LedgerTellsCurrentAlways == Spec => []LedgerTellsCurrent
<1>1. Init => Tells
  BY DEF Init, Tells, TellsOf
<1>2. TypeOK /\ Safe /\ Tells /\ [Next]_vars => Tells'
  BY TellsInductive
<1>3. TypeOK /\ Safe /\ Tells => LedgerTellsCurrent
  <2> SUFFICES ASSUME TypeOK, Safe, Tells, NEW h \in Hosts, crashes = 0, lock[h] = None,
                      currentLink[h] # None, currentLink[h].kind = "desired"
               PROVE  /\ LastSwitch(h) # 0 /\ ledger[h][LastSwitch(h)].gen = currentLink[h]
                      /\ currentRecord[h].gen = currentLink[h]
    BY DEF LedgerTellsCurrent
  <2>1. \A p \in Procs : ~Installing(p, h)
    BY ConstantsAssumption DEF Installing, Safe, LockHeld, InTransaction, Transaction
  <2>2. Recorded(h)
    BY <2>1 DEF Tells, TellsOf
  <2>3. PICK i \in DOMAIN ledger[h] : IsLastSwitch(h, i) /\ ledger[h][i].gen = currentLink[h]
    BY <2>2 DEF Recorded
  <2> DEFINE switches == {j \in DOMAIN ledger[h] : ledger[h][j].kind \in {"activated", "rolledback"}}
  <2>4. DOMAIN ledger[h] = 1..Len(ledger[h]) /\ Len(ledger[h]) \in Nat
    BY DEF TypeOK
  <2>5. i \in switches /\ \A j \in switches : j <= i
    BY <2>3 DEF IsLastSwitch
  <2>6. \A k \in switches : (\A j \in switches : j <= k) => k = i
    BY <2>4, <2>5
  <2>7. LastSwitch(h) = i
    BY <2>5, <2>6 DEF LastSwitch
  <2> QED
    BY <2>2, <2>3, <2>4, <2>7 DEF Recorded
<1> QED
  BY <1>1, <1>2, <1>3, SafeAlways, PTL DEF Spec
=============================================================================
