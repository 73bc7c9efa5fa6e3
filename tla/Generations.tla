----------------------------- MODULE Generations -----------------------------
(***************************************************************************)
(* The generation lifecycle of one worktree: internal/runtime's current    *)
(* and pending pointers, the per-host activation lock and ledger, the      *)
(* content-addressed generation store, and the commands that move them:    *)
(*   activate  (cmd/omca/activate.go, internal/tui/actions.go)             *)
(*   rollback  (cmd/omca/rollback.go)                                      *)
(*   launch    (omca env / omca run: EnsureLaunchGeneration)               *)
(*   stage     (omca_stage, TUI staging: compileFuncForMCP)                *)
(* Every command is a process of its own; they meet only in the worktree's *)
(* state directory.  One action is one write to that directory together    *)
(* with the reads that decide it, so every interleaving and every crash    *)
(* between two writes is a behaviour.                                      *)
(***************************************************************************)
EXTENDS Naturals, Sequences, Functions

CONSTANTS
  Hosts,          \* host ids (codex, claude-code)
  Procs,          \* omca processes that may run at the same time
  Assets,         \* selectable skills and MCP servers
  Sensitive,      \* the ones whose activation needs --confirm (MCP servers)
  None,           \* no generation, no pointer, no parent, no lock holder
  Truncated,      \* a manifest.json being rewritten: opened with O_TRUNC
  Garbled,        \* a manifest.json with a longer writer's tail left in it
  Commands,       \* the commands this instance runs
  EnvEdits,       \* the kinds of outside change this instance makes
  MaxCommands,    \* bound: commands started
  MaxCrashes,     \* bound: processes killed
  MaxEdits,       \* bound: outside changes
  MaxSelections   \* bound: length of one host's selection list

ASSUME ConstantsAssumption ==
  /\ Sensitive \subseteq Assets
  /\ None \notin Procs
  /\ Truncated # None /\ Garbled # None /\ Truncated # Garbled
  /\ MaxCommands \in Nat /\ MaxCrashes \in Nat
  /\ MaxEdits \in Nat /\ MaxSelections \in Nat

-----------------------------------------------------------------------------
(* Generations are named by the content they are compiled from.            *)

Selection == [Hosts -> Seq(Assets)]
NoSelection == [h \in Hosts |-> <<>>]

\* What a command observes: the worktree's activation document, the set of
\* native sources, their contents, and the installed host versions.
World == [act : Selection, inventory : {0, 1}, content : Nat, version : [Hosts -> Nat]]

GenId == [kind : {"bootstrap", "desired"}, hosts : SUBSET Hosts, act : Selection,
          inventory : {0, 1}, content : Nat, version : [Hosts -> Nat]]

\* An absent pointer is no generation's name.
ASSUME NoneIsNoGeneration == None \notin GenId

\* CompileGenerationID: the whole activation document, every observation's
\* content and the versions of the compiled hosts; never the parent.
DesiredId(hs, w) ==
  [kind |-> "desired", hosts |-> hs, act |-> w.act,
   inventory |-> w.inventory, content |-> w.content,
   version |-> [h \in Hosts |-> IF h \in hs THEN w.version[h] ELSE 0]]

\* GenerationID: a bootstrap generation has one host and no desired state.
BootstrapId(h, w) ==
  [DesiredId({h}, w) EXCEPT !.kind = "bootstrap", !.act = NoSelection]

\* Sources a generation includes for host h.  The list may name an asset
\* twice (mergeHostActivation appends); resolution asks only for membership.
Included(g, h) == IF g.kind = "desired" THEN Range(g.act[h]) ELSE {}

\* aggregateSources: digests the source entries of the compiled hosts.  An
\* entry names a source and says whether it is included; it does not carry
\* the source's content, nor the host's version.
SourceDigest(g) ==
  [included |-> [h \in g.hosts |-> Included(g, h)], inventory |-> g.inventory]

\* validateCompiledHost: compiled for h, at the version detected in w.
CompiledFor(g, h, w) == h \in g.hosts /\ g.version[h] = w.version[h]

-----------------------------------------------------------------------------
VARIABLES
  world,          \* activation.yaml, native sources, host binaries
  store,          \* generations/: id -> its manifest
  damaged,        \* generations whose artifacts no longer match the manifest
  currentLink,    \* current/<host>
  currentRecord,  \* current/<host>.json
  pending,        \* pending/<host>
  ledger,         \* ledger/<host>.jsonl
  session,        \* the generation the last launch of the host runs on
  lock,           \* locks/<host>.activate.lock: the process holding the flock
  pc, job,        \* per process: where it is, and what it holds in memory
  commands, crashes, edits     \* how much of each bound is used

disk  == <<world, store, damaged, currentLink, currentRecord, pending, ledger, session>>
count == <<commands, crashes, edits>>
vars  == <<disk, lock, pc, job, count>>

Manifest == [parent : GenId \cup {None, Truncated, Garbled}, readonly : BOOLEAN]
Record   == [gen : GenId, version : Nat]
Entry    == [kind : {"activated", "rolledback", "cas-rejected", "verification-failed"},
             gen : GenId]

Job == [cmd : {"none", "activate", "rollback", "launch", "stage"},
        host : Hosts \cup {None},
        gen : GenId \cup {None},      \* the generation it is about to install
        old : GenId \cup {None},      \* what current was when it read it
        parent : GenId \cup {None},   \* the parent it will write in a manifest
        approved : SUBSET Assets,     \* --confirm flags
        targets : SUBSET Hosts,       \* hosts a staging still has to point
        failed : GenId \cup {None},   \* the activation an automated rollback undoes
        seen : World]

NoWorld == [act |-> NoSelection, inventory |-> 0, content |-> 0,
            version |-> [h \in Hosts |-> 0]]
NoJob == [cmd |-> "none", host |-> None, gen |-> None, old |-> None, parent |-> None,
          approved |-> {}, targets |-> {}, failed |-> None, seen |-> NoWorld]

\* The points a command passes through.
Labels ==
  [none     |-> {"idle"},
   activate |-> {"recompose", "acquire", "validate", "switchLink", "switchRecord",
                 "clear", "append", "verify"},
   rollback |-> {"acquire", "parent", "switchLink", "switchRecord", "append"},
   launch   |-> {"acquire", "select", "compile", "write", "seal", "switchLink", "switchRecord"},
   stage    |-> {"currents", "persist", "lookup", "compile", "reconcile", "write", "seal", "pend"}]

\* Those at which it holds the generation it is about to write or install.
Holding == {"switchLink", "switchRecord", "clear", "append", "verify",
            "lookup", "compile", "reconcile", "write", "seal", "pend"}

\* ReadGenerationManifest succeeds.
Readable(g) == g \in DOMAIN store /\ store[g].parent \notin {Truncated, Garbled}

PutManifest(g, m) ==
  store' = [x \in DOMAIN store \cup {g} |-> IF x = g THEN m ELSE store[x]]

Goto(p, l) == pc' = [pc EXCEPT ![p] = l]
Finish(p)  == Goto(p, "idle") /\ job' = [job EXCEPT ![p] = NoJob]

\* The deferred lock.release() of every locked command.
Unlock(p) == lock' = [lock EXCEPT ![job[p].host] = None]

\* Mutant: rollback forgets its ledger entry.
AppendUnlessRollback(h, kind, g) ==
  ledger' = IF kind = "rolledback" THEN ledger
            ELSE [ledger EXCEPT ![h] = Append(@, [kind |-> kind, gen |-> g])]

AppendLedgerEntry(h, kind, g) ==
  ledger' = [ledger EXCEPT ![h] = Append(@, [kind |-> kind, gen |-> g])]

Begin(p, cmd) ==
  /\ pc[p] = "idle" /\ cmd \in Commands /\ commands < MaxCommands
  /\ commands' = commands + 1
  /\ UNCHANGED <<disk, lock, crashes, edits>>

-----------------------------------------------------------------------------
Init ==
  /\ world = NoWorld
  /\ store = [g \in {} |-> [parent |-> None, readonly |-> TRUE]]
  /\ damaged = {}
  /\ currentLink = [h \in Hosts |-> None]
  /\ currentRecord = [h \in Hosts |-> None]
  /\ pending = [h \in Hosts |-> None]
  /\ ledger = [h \in Hosts |-> <<>>]
  /\ session = [h \in Hosts |-> None]
  /\ lock = [h \in Hosts |-> None]
  /\ pc = [p \in Procs |-> "idle"]
  /\ job = [p \in Procs |-> NoJob]
  /\ commands = 0 /\ crashes = 0 /\ edits = 0

-----------------------------------------------------------------------------
(* activate: review without the lock, then the transaction under it.       *)

\* runActivate up to RequireConfirmation; an activation whose changes are
\* not all approved stops here and leaves nothing behind.
ReviewPending(p, h, approved) ==
  /\ Begin(p, "activate")
  /\ Readable(pending[h])
  /\ LET before == IF Readable(currentLink[h]) THEN Included(currentLink[h], h) ELSE {}
     IN  (Included(pending[h], h) \ before) \cap Sensitive \subseteq approved
  /\ job' = [job EXCEPT ![p] = [NoJob EXCEPT !.cmd = "activate", !.host = h,
                                             !.gen = pending[h], !.approved = approved]]
  /\ Goto(p, "recompose")

\* composeFreshCompileRequest, for the hosts of the generation reviewed.
Recompose(p) ==
  /\ pc[p] = "recompose"
  /\ job' = [job EXCEPT ![p].seen = world]
  /\ Goto(p, "acquire")
  /\ UNCHANGED <<disk, lock, count>>

\* rollback and launch detect the host before they ask for the lock.
BeginRollback(p, h) ==
  /\ Begin(p, "rollback")
  /\ job' = [job EXCEPT ![p] = [NoJob EXCEPT !.cmd = "rollback", !.host = h, !.seen = world]]
  /\ Goto(p, "acquire")

BeginLaunch(p, h) ==
  /\ Begin(p, "launch")
  /\ job' = [job EXCEPT ![p] = [NoJob EXCEPT !.cmd = "launch", !.host = h, !.seen = world,
                                             !.gen = BootstrapId(h, world)]]
  /\ Goto(p, "acquire")

\* flock(LOCK_EX|LOCK_NB) succeeds.
NeverHeld(h) == h \in Hosts            \* mutant: before the lock existed
Free(h) == lock[h] = None

\* acquireActivationLock never waits: a held lock is ActivationInProgressError.
AcquireActivationLock(p) ==
  /\ pc[p] = "acquire"
  /\ LET h == job[p].host IN
     \/ /\ Free(h)
        /\ lock' = [lock EXCEPT ![h] = p]
        /\ Goto(p, CASE job[p].cmd = "activate" -> "validate"
                     [] job[p].cmd = "rollback" -> "parent"
                     [] OTHER -> "select")
        /\ job' = job
     \/ ~Free(h) /\ Finish(p) /\ lock' = lock
  /\ UNCHANGED <<disk, count>>

\* freshSourceDigest: what the pending generation was compiled from is what the
\* command saw when it recomposed the hosts of the generation it had reviewed.
ReviewedIsFresh(g, reviewed, seen) ==  \* mutant: digests what was reviewed
  SourceDigest(reviewed) = SourceDigest(DesiredId(reviewed.hosts, seen))
SourceUnchanged(g, reviewed, seen) ==
  SourceDigest(g) = SourceDigest(DesiredId(reviewed.hosts, seen))

\* Activate steps 1 and 2: pending is read again, under the lock, and its
\* source digest compared with the one recomposed before the lock.
ValidatePending(p) ==
  /\ pc[p] = "validate"
  /\ LET h == job[p].host
         g == pending[h]
         fresh == SourceUnchanged(g, job[p].gen, job[p].seen)
     IN
     \/ /\ ~Readable(g)
        /\ Finish(p) /\ Unlock(p)
        /\ UNCHANGED ledger
     \/ /\ Readable(g) /\ ~fresh
        /\ AppendLedgerEntry(h, "cas-rejected", g)
        /\ Finish(p) /\ Unlock(p)
     \/ /\ Readable(g) /\ fresh
        /\ job' = [job EXCEPT ![p].gen = g, ![p].old = currentLink[h]]
        /\ Goto(p, "switchLink")
        /\ UNCHANGED <<lock, ledger>>
  /\ UNCHANGED <<world, store, damaged, currentLink, currentRecord, pending, session, count>>

\* setGenerationPointer renames the symlink, then the record: two writes.
SwitchRecordOnly(p) ==                 \* mutant: a rollback leaves the link
  /\ pc[p] = "switchLink"
  /\ currentLink' = IF job[p].cmd = "rollback" THEN currentLink
                    ELSE [currentLink EXCEPT ![job[p].host] = job[p].gen]
  /\ Goto(p, "switchRecord")
  /\ UNCHANGED <<world, store, damaged, currentRecord, pending, ledger, session, lock, job, count>>

SwitchLink(p) ==
  /\ pc[p] = "switchLink"
  /\ currentLink' = [currentLink EXCEPT ![job[p].host] = job[p].gen]
  /\ Goto(p, "switchRecord")
  /\ UNCHANGED <<world, store, damaged, currentRecord, pending, ledger, session, lock, job, count>>

SwitchRecord(p) ==
  /\ pc[p] = "switchRecord"
  /\ LET h == job[p].host IN
     /\ currentRecord' = [currentRecord EXCEPT
                            ![h] = [gen |-> job[p].gen, version |-> job[p].seen.version[h]]]
     /\ \/ job[p].cmd = "activate" /\ Goto(p, "clear") /\ UNCHANGED <<job, lock, session>>
        \/ job[p].cmd = "rollback" /\ Goto(p, "append") /\ UNCHANGED <<job, lock, session>>
        \/ /\ job[p].cmd = "launch"
           /\ session' = [session EXCEPT ![h] = job[p].gen]
           /\ Finish(p) /\ Unlock(p)
  /\ UNCHANGED <<world, store, damaged, currentLink, pending, ledger, count>>

\* clearPendingGeneration removes whatever pending names by now.
ClearPending(p) ==
  /\ pc[p] = "clear"
  /\ pending' = [pending EXCEPT ![job[p].host] = None]
  /\ Goto(p, "append")
  /\ UNCHANGED <<world, store, damaged, currentLink, currentRecord, ledger, session, lock, job, count>>

\* The last write of a transaction; the lock is released with it.
AppendLedger(p) ==
  /\ pc[p] = "append"
  /\ Unlock(p)
  /\ \/ /\ job[p].cmd = "activate"
        /\ AppendLedgerEntry(job[p].host, "activated", job[p].gen)
        /\ Goto(p, "verify") /\ job' = job
     \/ /\ job[p].cmd = "rollback"
        /\ AppendLedgerEntry(job[p].host, "rolledback", job[p].gen)
        /\ Finish(p)
  /\ UNCHANGED <<world, store, damaged, currentLink, currentRecord, pending, session, count>>

\* The artifacts are those of the manifest, and the manifest is the host's.
Verified(h, c) == Readable(c) /\ h \in c.hosts /\ c \notin damaged

\* ActivateAndVerify verifies whatever is current when it gets there, without
\* the lock.  A failure is ledgered and turns the command into a rollback.
VerifyActivation(p) ==
  /\ pc[p] = "verify"
  /\ LET h == job[p].host
         c == currentLink[h]
     IN
     \/ Verified(h, c) /\ Finish(p) /\ UNCHANGED ledger
     \/ /\ ~Verified(h, c)
        /\ AppendLedgerEntry(h, "verification-failed",
                         IF Readable(c) /\ h \in c.hosts THEN c ELSE job[p].gen)
        /\ job' = [job EXCEPT ![p].cmd = "rollback", ![p].failed = job[p].gen]
        /\ Goto(p, "acquire")
  /\ UNCHANGED <<world, store, damaged, currentLink, currentRecord, pending, session, lock, count>>

\* Rollback's checks: current's manifest records a parent, and the parent is
\* there, readable and compiled for the host as detected.
ParentUnchecked(h, c, seen) == Readable(c)    \* mutant
ParentUsable(h, c, seen) ==
  /\ Readable(c) /\ store[c].parent # None
  /\ Readable(store[c].parent)
  /\ CompiledFor(store[c].parent, h, seen)

ReadParentRetries(p) ==                \* mutant: a refused rollback starts over
  /\ pc[p] = "parent"
  /\ LET h == job[p].host
         c == currentLink[h]
         ok == ParentUsable(h, c, job[p].seen)
     IN
     \/ /\ ok
        /\ job' = [job EXCEPT ![p].gen = store[c].parent, ![p].old = c]
        /\ Goto(p, "switchLink") /\ lock' = lock
     \/ ~ok /\ Goto(p, "acquire") /\ job' = job /\ Unlock(p)
  /\ UNCHANGED <<disk, count>>

ReadParent(p) ==
  /\ pc[p] = "parent"
  /\ LET h == job[p].host
         c == currentLink[h]
         ok == ParentUsable(h, c, job[p].seen)
     IN
     \/ /\ ok
        /\ job' = [job EXCEPT ![p].gen = store[c].parent, ![p].old = c]
        /\ Goto(p, "switchLink") /\ lock' = lock
     \/ ~ok /\ Finish(p) /\ Unlock(p)
  /\ UNCHANGED <<disk, count>>

-----------------------------------------------------------------------------
(* launch: EnsureLaunchGeneration keeps a selected generation and refreshes *)
(* an absent or bootstrap one.                                              *)

\* EnsureLaunchGeneration keeps what the manifest says was compiled for a
\* desired state; it does not go by the record.
RecordedIsSelected(h, c) ==            \* mutant: decides by the record
  currentRecord[h] # None /\ currentRecord[h].gen = c /\ c.kind = "desired"
Selected(h, c) == Readable(c) /\ h \in c.hosts /\ c.kind = "desired"

\* What a selected generation must show to be launched: compiled for the
\* detected version, which is the one the record of this very link carries.
ManifestEvidence(h, c, seen) == CompiledFor(c, h, seen)    \* mutant: no record
LaunchEvidence(h, c, seen) ==
  /\ CompiledFor(c, h, seen)
  /\ currentRecord[h] = [gen |-> c, version |-> seen.version[h]]

\* EnsureGeneration compiles b or finds it; it refuses to touch a broken one.
Ensurable(b) == b \in DOMAIN store => Readable(b)

SelectLaunch(p) ==
  /\ pc[p] = "select"
  /\ LET h == job[p].host
         c == currentLink[h]
         b == job[p].gen
         broken == c # None /\ ~(Readable(c) /\ h \in c.hosts)
         selected == Selected(h, c)
         evidence == LaunchEvidence(h, c, job[p].seen)
         refresh == ~broken /\ ~selected
     IN
     \/ /\ selected /\ evidence
        /\ session' = [session EXCEPT ![h] = c]
        /\ Finish(p) /\ Unlock(p)
     \/ /\ broken \/ (selected /\ ~evidence) \/ (refresh /\ ~Ensurable(b))
        /\ Finish(p) /\ Unlock(p) /\ UNCHANGED session
     \/ /\ refresh /\ Ensurable(b)
        /\ job' = [job EXCEPT ![p].old = c]
        /\ Goto(p, IF b \in DOMAIN store THEN "switchLink" ELSE "compile")
        /\ UNCHANGED <<lock, session>>
  /\ UNCHANGED <<world, store, damaged, currentLink, currentRecord, pending, ledger, count>>

-----------------------------------------------------------------------------
(* stage: compileFuncForMCP and stageAssetActivation take no lock at all.   *)

\* Compose the desired state, merge the selection, observe.
ComposeStage(p, hs, a) ==
  /\ Begin(p, "stage")
  /\ \A h \in hs : Len(world.act[h]) < MaxSelections
  /\ job' = [job EXCEPT ![p] =
               [NoJob EXCEPT !.cmd = "stage", !.targets = hs,
                  !.seen = [world EXCEPT !.act =
                              [h \in Hosts |-> IF h \in hs THEN Append(world.act[h], a)
                                                           ELSE world.act[h]]]]]
  /\ Goto(p, "currents")

\* The parent is the generation every named host with a current agrees on.
ReadCurrents(p) ==
  /\ pc[p] = "currents"
  /\ LET cs == {currentLink[h] : h \in job[p].targets} \ {None} IN
     \/ (\E c \in cs : ~Readable(c)) /\ Finish(p)
     \/ /\ \A c \in cs : Readable(c)
        /\ \E par \in (IF \E c \in cs : cs = {c} THEN cs ELSE {None}) :
             job' = [job EXCEPT ![p].parent = par]
        /\ Goto(p, "persist")
  /\ UNCHANGED <<disk, lock, count>>

\* PersistActivation replaces activation.yaml with the document composed
\* earlier, whatever has been written to it since.
PersistActivation(p) ==
  /\ pc[p] = "persist"
  /\ world' = [world EXCEPT !.act = job[p].seen.act]
  /\ job' = [job EXCEPT ![p].gen = DesiredId(job[p].targets, job[p].seen)]
  /\ Goto(p, "lookup")
  /\ UNCHANGED <<store, damaged, currentLink, currentRecord, pending, ledger, session, lock, count>>

\* A cache miss compiles, a hit reconciles the parent if it differs, and an
\* unreadable manifest is refused.
LookupGeneration(p) ==
  /\ pc[p] = "lookup"
  /\ LET g == job[p].gen IN
     \/ g \notin DOMAIN store /\ Goto(p, "compile") /\ job' = job
     \/ g \in DOMAIN store /\ ~Readable(g) /\ Finish(p)
     \/ Readable(g) /\ store[g].parent # job[p].parent /\ Goto(p, "reconcile") /\ job' = job
     \/ Readable(g) /\ store[g].parent = job[p].parent /\ Goto(p, "pend") /\ job' = job
  /\ UNCHANGED <<disk, lock, count>>

\* Compile or Bootstrap opens manifest.json for writing.  If another
\* compilation of the same id has already sealed the tree the open fails.
OpenCompiledManifest(p) ==
  /\ pc[p] = "compile"
  /\ LET g == job[p].gen IN
     \/ /\ g \in DOMAIN store /\ store[g].readonly
        /\ Finish(p) /\ (IF job[p].cmd = "launch" THEN Unlock(p) ELSE lock' = lock)
        /\ UNCHANGED store
     \/ /\ ~(g \in DOMAIN store /\ store[g].readonly)
        /\ PutManifest(g, [parent |-> Truncated, readonly |-> FALSE])
        /\ Goto(p, "write") /\ UNCHANGED <<job, lock>>
  /\ UNCHANGED <<world, damaged, currentLink, currentRecord, pending, ledger, session, count>>

\* ReconcileGenerationParent makes the manifest writable and truncates it.
OpenCachedManifest(p) ==
  /\ pc[p] = "reconcile"
  /\ PutManifest(job[p].gen, [parent |-> Truncated, readonly |-> FALSE])
  /\ Goto(p, "write")
  /\ UNCHANGED <<world, damaged, currentLink, currentRecord, pending, ledger, session, lock, job, count>>

\* The write itself.  A manifest without a parent is the shorter one: over a
\* longer one it leaves a tail that no longer parses.
WriteManifest(p) ==
  /\ pc[p] = "write"
  /\ LET g == job[p].gen
         longer == store[g].parent \notin {Truncated, None}
     IN  PutManifest(g, [store[g] EXCEPT
           !.parent = IF job[p].parent = None /\ longer THEN Garbled ELSE job[p].parent])
  /\ Goto(p, "seal")
  /\ UNCHANGED <<world, damaged, currentLink, currentRecord, pending, ledger, session, lock, job, count>>

\* makeTreeReadOnly, or the chmod back at the end of a reconciliation.
SealManifest(p) ==
  /\ pc[p] = "seal"
  /\ PutManifest(job[p].gen, [store[job[p].gen] EXCEPT !.readonly = TRUE])
  /\ Goto(p, IF job[p].cmd = "launch" THEN "switchLink" ELSE "pend")
  /\ UNCHANGED <<world, damaged, currentLink, currentRecord, pending, ledger, session, lock, job, count>>

\* SetPendingGeneration, once per named host.
SetPendingEverywhere(p, h) ==          \* mutant: points every host
  /\ pc[p] = "pend"
  /\ pending' = [x \in Hosts |-> job[p].gen]
  /\ Finish(p)
  /\ UNCHANGED <<world, store, damaged, currentLink, currentRecord, ledger, session, lock, count>>

SetPending(p, h) ==
  /\ pc[p] = "pend" /\ h \in job[p].targets
  /\ pending' = [pending EXCEPT ![h] = job[p].gen]
  /\ IF job[p].targets = {h}
     THEN Finish(p)
     ELSE job' = [job EXCEPT ![p].targets = @ \ {h}] /\ pc' = pc
  /\ UNCHANGED <<world, store, damaged, currentLink, currentRecord, ledger, session, lock, count>>

-----------------------------------------------------------------------------
(* Crashes and the outside world.                                           *)

\* A killed process loses its memory; the kernel drops its flock.
CrashLeavesLock(p) ==                  \* mutant: a lock file instead of a flock
  /\ pc[p] # "idle" /\ crashes < MaxCrashes
  /\ crashes' = crashes + 1
  /\ Finish(p)
  /\ UNCHANGED <<disk, lock, commands, edits>>

Crash(p) ==
  /\ pc[p] # "idle" /\ crashes < MaxCrashes
  /\ crashes' = crashes + 1
  /\ lock' = [h \in Hosts |-> IF lock[h] = p THEN None ELSE lock[h]]
  /\ Finish(p)
  /\ UNCHANGED <<disk, commands, edits>>

Edit(kind) ==
  /\ kind \in EnvEdits /\ edits < MaxEdits
  /\ edits' = edits + 1
  /\ UNCHANGED <<store, currentLink, currentRecord, pending, ledger, session,
                 lock, pc, job, commands, crashes>>

\* A native source appears or disappears; one changes its content; a host is
\* upgraded; activation.yaml is put back by hand; an artifact is damaged.
EditInventory == Edit("inventory") /\ world' = [world EXCEPT !.inventory = 1 - @] /\ UNCHANGED damaged
EditContent == Edit("content") /\ world' = [world EXCEPT !.content = @ + 1] /\ UNCHANGED damaged
UpgradeHost(h) == Edit("version") /\ world' = [world EXCEPT !.version[h] = @ + 1] /\ UNCHANGED damaged
ResetActivation == Edit("activation") /\ world' = [world EXCEPT !.act = NoSelection] /\ UNCHANGED damaged
DamageArtifact(g) == Edit("damage") /\ g \in DOMAIN store /\ damaged' = damaged \cup {g} /\ UNCHANGED world

-----------------------------------------------------------------------------
\* The steps a running command takes.
Step(p) ==
  \/ Recompose(p) \/ AcquireActivationLock(p) \/ ValidatePending(p)
  \/ SwitchLink(p) \/ SwitchRecord(p) \/ ClearPending(p) \/ AppendLedger(p)
  \/ VerifyActivation(p) \/ ReadParent(p) \/ SelectLaunch(p)
  \/ ReadCurrents(p) \/ PersistActivation(p) \/ LookupGeneration(p)
  \/ OpenCompiledManifest(p) \/ OpenCachedManifest(p) \/ WriteManifest(p) \/ SealManifest(p)
  \/ \E h \in Hosts : SetPending(p, h)

Start(p) ==
  \/ \E h \in Hosts, approved \in SUBSET Sensitive : ReviewPending(p, h, approved)
  \/ \E h \in Hosts : BeginRollback(p, h) \/ BeginLaunch(p, h)
  \/ \E hs \in (SUBSET Hosts) \ {{}}, a \in Assets : ComposeStage(p, hs, a)

Environment ==
  \/ EditInventory \/ EditContent \/ ResetActivation
  \/ \E h \in Hosts : UpgradeHost(h)
  \/ \E g \in DOMAIN store : DamageArtifact(g)

Next == (\E p \in Procs : Start(p) \/ Step(p) \/ Crash(p)) \/ Environment

\* A command that was started keeps running: none of its steps ever waits.
Spec == Init /\ [][Next]_vars /\ \A p \in Procs : WF_vars(Step(p))

-----------------------------------------------------------------------------
(* Properties.                                                              *)

\* What process p remembers is what its command has there: a host, the
\* generation it has looked up, and a manifest it has opened.
JobOK(p) ==
  /\ job[p] \in Job
  /\ pc[p] \in Labels[job[p].cmd]
  /\ job[p].cmd \in {"activate", "rollback", "launch"} => job[p].host \in Hosts
  /\ pc[p] \in Holding \/ job[p].cmd \in {"activate", "launch"} => job[p].gen \in GenId
  /\ pc[p] \in {"write", "seal"} => job[p].gen \in DOMAIN store

\* Every variable has a value of its type, and every process the memory its
\* command has at that point.
TypeOK ==
  /\ world \in World
  /\ DOMAIN store \subseteq GenId
  /\ store = [g \in DOMAIN store |-> store[g]]
  /\ \A g \in DOMAIN store : store[g] \in Manifest
  /\ damaged \subseteq GenId
  /\ currentLink \in [Hosts -> GenId \cup {None}]
  /\ currentRecord \in [Hosts -> Record \cup {None}]
  /\ pending \in [Hosts -> GenId \cup {None}]
  /\ ledger \in [Hosts -> Seq(Entry)]
  /\ session \in [Hosts -> GenId \cup {None}]
  /\ lock \in [Hosts -> Procs \cup {None}]
  /\ pc = [p \in Procs |-> pc[p]] /\ job = [p \in Procs |-> job[p]]
  /\ \A p \in Procs : JobOK(p)
  /\ commands \in Nat /\ crashes \in Nat /\ edits \in Nat

Transaction == {"validate", "parent", "select", "switchLink", "switchRecord", "clear", "append"}
Compiling == {"compile", "write", "seal"}

\* Between acquireActivationLock and the deferred release.
InTransaction(p) ==
  pc[p] \in Transaction \/ (job[p].cmd = "launch" /\ pc[p] \in Compiling)

\* activationlock.go: a process is inside a transaction on a host exactly
\* when it holds that host's lock, on every path, errors and kills included:
\* transactions on one host never overlap and no lock is left behind.
LockHeld ==
  \A p \in Procs, h \in Hosts : (lock[h] = p) <=> (InTransaction(p) /\ job[p].host = h)

\* What process p may rely on between its reads and its writes.
PointerOwnedBy(p) ==
  LET h == job[p].host IN
  /\ pc[p] = "switchLink" \/ (job[p].cmd = "launch" /\ pc[p] \in Compiling)
       => currentLink[h] = job[p].old
  /\ pc[p] \in {"switchRecord", "clear", "append"} => currentLink[h] = job[p].gen
  /\ pc[p] \in {"clear", "append"} => currentRecord[h].gen = job[p].gen

\* activationlock.go, "The bug this closes": a transaction that is about to
\* switch current still finds there what it read when it started, and until
\* it ends both files of the pointer say what it wrote.
PointerOwned == \A p \in Procs : PointerOwnedBy(p)

\* Activate's atomicity comment: an "activated" or "rolledback" entry is
\* appended only while both files of the current pointer name its generation.
LedgerTruthful ==
  [][\A h \in Hosts :
       LET e == ledger'[h][Len(ledger'[h])] IN
         ledger'[h] # ledger[h] /\ e.kind \in {"activated", "rolledback"}
           => currentLink[h] = e.gen /\ currentRecord[h].gen = e.gen]_vars

\* The last switch the ledger records for h (0 if there is none).
LastSwitch(h) ==
  LET switches == {i \in DOMAIN ledger[h] : ledger[h][i].kind \in {"activated", "rolledback"}}
  IN  IF switches = {} THEN 0 ELSE CHOOSE i \in switches : \A j \in switches : j <= i

\* While nobody crashes and no transaction is open, a selected current
\* generation is the one the ledger last recorded a switch to, and its record
\* names it: the audit trail and the pointer never part.
LedgerTellsCurrent ==
  \A h \in Hosts :
    /\ crashes = 0 /\ lock[h] = None
    /\ currentLink[h] # None /\ currentLink[h].kind = "desired"
    => /\ LastSwitch(h) # 0 /\ ledger[h][LastSwitch(h)].gen = currentLink[h]
       /\ currentRecord[h].gen = currentLink[h]

\* No pointer ever dangles: current, pending and every parent a rollback
\* could follow name compiled generations, pointers ones compiled for the host.
PointersResolve ==
  /\ \A h \in Hosts : \A g \in {currentLink[h], pending[h], session[h]} \ {None} :
       g \in DOMAIN store /\ h \in g.hosts
  /\ \A g \in DOMAIN store : Readable(g) /\ store[g].parent # None => store[g].parent \in DOMAIN store

\* EnsureLaunchGeneration: a launch may refresh an absent or bootstrap
\* generation; what the user selected is replaced only by activate or rollback.
LaunchKeepsSelection ==
  [][\A h \in Hosts :
       currentLink[h] # None /\ currentLink[h].kind = "desired" /\ currentLink'[h] # currentLink[h]
         => \E p \in Procs : lock[h] = p /\ job[p].cmd \in {"activate", "rollback"}]_vars

\* A session starts on what is current at that moment, in the link and in the
\* record, and never on a generation compiled for another host version.
LaunchRunsCurrent ==
  [][\A h \in Hosts :
       session'[h] # session[h]
         => /\ currentLink'[h] = session'[h]
            /\ currentRecord'[h] = [gen |-> session'[h], version |-> session'[h].version[h]]]_vars

\* FR-9: a generation is switched to only if its source digest is that of the
\* world the command observed, although pending is read again after that.
FreshWhenActivated ==
  \A p \in Procs :
    pc[p] = "switchLink" /\ job[p].cmd = "activate"
      => SourceDigest(job[p].gen) = SourceDigest(DesiredId(job[p].gen.hosts, job[p].seen))

\* Every command that is started ends, crashed or not, whoever else runs.
CommandsFinish == \A p \in Procs : pc[p] # "idle" ~> pc[p] = "idle"

-----------------------------------------------------------------------------
(* What the documentation says and the code does not keep.                  *)

\* activate.go:150-154 refuses to activate unless every change that requires
\* confirmation has been confirmed.
ActivatedOnlyIfConfirmed ==
  \A p \in Procs :
    pc[p] = "switchLink" /\ job[p].cmd = "activate" =>
      LET h == job[p].host
          before == IF Readable(currentLink[h]) THEN Included(currentLink[h], h) ELSE {}
      IN  (Included(job[p].gen, h) \ before) \cap Sensitive \subseteq job[p].approved

\* verify.go:442-446: verification failure of the generation just switched to
\* triggers a rollback to its parent (not of what somebody activated since).
RollbackUndoesFailedActivation ==
  \A p \in Procs :
    pc[p] = "switchLink" /\ job[p].failed # None => job[p].old = job[p].failed

\* runtime.md section 5.3, "The compiler never edits current in place": the
\* parent a rollback of the current generation would follow does not change.
CurrentNeverEdited ==
  [][\A h \in Hosts :
       Readable(currentLink[h]) => store'[currentLink[h]].parent = store[currentLink[h]].parent]_vars

\* mcp.go:333-341 takes an unreadable manifest for corruption by something
\* other than this compiler: no manifest the commands wrote, none of them
\* killed, is unreadable once nobody is writing it.
ManifestsWhole ==
  crashes = 0 =>
    \A g \in DOMAIN store : Readable(g) \/ \E p \in Procs : pc[p] = "write" /\ job[p].gen = g

\* activate.go:312-316: the digest comparison answers whether compiling now
\* would still produce the same content.
ContentChangeInvalidatesPending ==
  \A p \in Procs :
    pc[p] = "switchLink" /\ job[p].cmd = "activate" => job[p].gen.content = job[p].seen.content

=============================================================================
