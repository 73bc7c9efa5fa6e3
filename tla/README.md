# TLA+ models of oh-my-code-agent

`omca` manages what coding agents (Codex, Claude Code, ...) load in a worktree.
It composes a *desired state* from profiles, compiles it into immutable
*generations*, switches a host's `current` pointer between them, launches the
host on what is current, reports how the host drifts from it, and runs a resident
*hub* that shares MCP tool subprocesses between the agents. This directory holds
models of those parts in TLA+, the instances TLC checks, and proofs checked by
TLAPS.

Everything is read off the Go source. Line numbers in the comments refer to it,
paths without a prefix to the package named at the head of the module.

## 1. Inventory

The Go code has about 24 000 lines without tests, blanks and comments, in
`internal/` (26 packages) and `cmd/omca/`. Concurrency and failure are met in
these places:

* **The worktree's state directory.** Every `omca` command is a process of its
  own. They meet in files: `current/`, `pending/`, `ledger/`, `locks/`,
  `generations/`, `desired/activation.yaml`, and the native home sessions run on.
* **The hub.** One process with a goroutine per connection, per tool subprocess
  and per background worker. Hub processes meet in a socket and a pid file.
* **Plugins.** A host adapter may be a subprocess behind two pipes.
* **Git remotes.** `omca knowledge propose` pushes branches from several clones.
* **Time.** Exceptions end and files change between staging and activating.

The rest is sequential: it reads files, computes, prints. Some of it decides so
much that it is modelled all the same, as operators and with a step per command.

| Component | State | Operations | What is hard | What makes it correct | Model |
|---|---|---|---|---|---|
| Generations (`runtime`, `cmd/omca/{activate,rollback,run,env,mcp}.go`) | pointers as link + record, pending, ledger, locks, store of manifests | stage, activate, verify, roll back, launch | pointer of two files; reads before the lock; cached generations rewritten; kills between writes | one transaction per host at a time; what is switched to is what was validated; the ledger tells what is current | `Generations`, proofs |
| Profiles, bindings, resolution (`profiles`, `resolve`) | profile, binding, exception directories, `desired/*.yaml` | compose, resolve | order of composition, expiry of exceptions, layers of selections | denials and requirements hold; time only tightens | `DesiredState`, proofs |
| Change classes, proposals, staging (`runtime/{diffchanges,confirmation}.go`, `mcp`, `tui/actions.go`, `cmd/omca/mcp.go`) | proposals, reports, reviews | propose, stage, review, activate | decisions from a report that has aged; merged selections | what is activated is within the policy of that moment; an agent alone enables no server | `Staging`, proofs |
| Session launch (`shim`, `cmd/omca/{env,run}.go`, `context/host.go`, `runtime/mutablehome.go`) | exported environment, shim links, native home | shim, `omca env`, `omca run` | shims that find shims; asdf; inherited values; one home for all sessions | launches end; a session is of its worktree | `SessionLaunch`, proofs |
| Tool supervisor (`hub/{supervisor,reaper}.go`) | tool status, process, stdin, pending table, cached handshake | forward, start, handshake, stop, reap | a mutex held while waiting for the subprocess; several read loops; contexts of callers own a shared process | answers reach their callers; no call is forgotten; one subprocess read | `ToolSupervisor`, proofs |
| Hub instance (`hub/{hub,instancelock,bridge}.go`, `cmd/omca/hub.go`) | socket path, pid file, flock | start, serve, close, stop, auto-start | starts racing with closes and kills; paths versus files; stale pids | one hub owns the path and can be reached on it | `HubInstance`, proofs |
| Worker pool (`hub/pool.go`, subagent calls of `hub.go`) | two semaphores, gauges, token bucket, registry | call, throttle, queue, register, kill | a sleep under the mutex; ids that collide; ends at every step | slots are given back once; calls end | `WorkerPool`, proofs |
| Hub workers (`hub/{workers,watchdog,arbiter}.go`) | drift cards, watch state | check, restore, poll, distill, repair | overlapping checks; debounce with a maximal wait; text cut anywhere | cards converge; no session change is missed; repaired text is balanced | `RenderCheck`, `SessionWatcher`, `Watchdog`, proofs |
| Hub configuration (`hub/{config,vault,scope,metrics}.go`) | `harness.json`, sidecar, registered tools | load, register, resolve, attach | two files written apart; names that collide | a hand edit needs consent; profiles stay apart | `HubRouting`, proofs |
| Plugin transport and registry (`plugin`, `plugin/transport`) | one mutex, two pipes, the registry | call, handshake, close, register | blocked writes, cancelled reads, foreign code | a remote adapter looks like one in the process | `PluginTransport`, `AdapterContract`, proofs |
| Effective graph, assurance (`effective`, `assurance`) | none | extract, group, merge, cap | nine merge operators, gates | nothing undecided is shown as decided | `EffectiveGraph`, proofs |
| Drift and reports (`drift`, `report`) | none | classify, group, compare planes | several groupings by several keys | no disagreement disappears or is matched wrongly | `DriftReport`, proofs |
| Knowledge (`knowledge`, `cmd/omca/knowledge.go`) | packs, clones, remote branches, pull requests | resolve, poll, propose | lost answers, kills, names that collide | a pull request tells what its branch holds | `KnowledgeUpdate`, proofs |
| Observation, worktree context, MCP queries, TUI rendering, credentials, audit, qualification, conformance kit, domain types | none, or none shared | read, render | none that a model checker reaches | - | not modelled (7) |

**Interactions.** Profiles and `activation.yaml` are composed into a desired state
(`DesiredState`); `stage`, from the MCP server or the TUI, writes `activation.yaml`,
compiles a generation and sets `pending` (`Staging`). `activate` validates `pending`
and switches `current`; its verification may call the rollback (`Generations`).
`omca run`, `omca env` and the shims call the launch path, which may refresh
`current` before the host is executed (`SessionLaunch`). A report reads all of
this and the host's observed sources, under the knowledge pack that covers
the host's version (`EffectiveGraph`, `DriftReport`, `KnowledgeUpdate`); an agent's
proposal is judged by such a report. A host talks to the hub through a *bridge*
process, which dials the socket and starts a hub when nobody answers
(`HubInstance`). The hub's connection goroutines find a tool (`HubRouting`), forward
requests to it (`ToolSupervisor`), or run subagent calls (`WorkerPool`); the idle
reaper and `Close` stop tools behind their backs.

`PROJECT.json` lists every component with its files, and under "hazards" the
lines where something hard to test can go wrong, with the property that covers it.

## 2. Plan

Done: `Generations` with its type and safety proofs; `ToolSupervisor`; `HubInstance`
with its proofs; the services of the hub beside its tools; the plugin transport
with the contract it implements; desired state, staging and activation; the
effective graph and reports; knowledge; launches; the proofs of section 5.

Left, in this order:

1. An abstract specification of `Generations`, one register per host that activate
   and rollback switch atomically, implemented under the mapping of the link.
2. `Staging` composed with `Generations`: today `Staging` switches in one step
   what `Generations` switches in five.
3. `omca bisect`, the credential fallback (once something calls it) and the
   guarantees of an evidence document.

Dependencies: `MCX` extends `X` and gives TLC its constants; `X_proofs` extends `X` and
`TLAPS`. Three proof modules serve several modules: `HubServices_proofs` `WorkerPool`,
`SessionWatcher`, `HubRouting` and `Watchdog`; `Staging_proofs` `DesiredState` and
`Staging`; `KnowledgeReport_proofs` `KnowledgeUpdate`, `EffectiveGraph` and
`DriftReport`. `Staging` extends `DesiredState`, `DriftReport` extends `EffectiveGraph`,
`PluginTransport` instantiates `AdapterContract`. `MCServices` holds the five services
of the hub side by side; they share no state, and each behaviour is about one of them.

## 3. Modules and the code

### Generations

One worktree. `Hosts`, `Procs` (processes running at once) and `Assets` are
parameters. A generation *is* what it was compiled from (`GenId`: kind, hosts,
activation document, inventory of sources, their contents, host versions), as
`CompileGenerationID` hashes it; the store maps ids to the manifest's parent and
to whether the tree has been made read-only.

| State | Code |
|---|---|
| `currentLink`, `currentRecord` | symlink `current/<host>` and `current/<host>.json`: `setGenerationPointer` renames them one after the other |
| `pending` | `pending/<host>` |
| `store`, `damaged` | `generations/<id>/manifest.json`, and whether the artifacts still match |
| `lock` | who holds the flock of `locks/<host>.activate.lock` |
| `ledger` | `ledger/<host>.jsonl` |
| `world` | `activation.yaml`, native sources, host binaries |
| `session` | the generation of the last launched session |
| `pc`, `job` | where each process is, and what it has read so far |

One action is one write with the reads that decide it. `ReviewPending`,
`Recompose`, `AcquireActivationLock`, `ValidatePending`, `SwitchLink`,
`SwitchRecord`, `ClearPending`, `AppendLedger`, `VerifyActivation` are `omca
activate`; a failed verification continues as the rollback
(`AcquireActivationLock`, `ReadParent`, `SwitchLink`, ...). `BeginLaunch`,
`SelectLaunch` and the compilation steps are `EnsureLaunchGeneration`;
`ComposeStage` to `SetPending` are a staging, which takes no lock. `Crash` kills
a process between any two of its writes; `EditInventory`, `EditContent`,
`UpgradeHost`, `ResetActivation`, `DamageArtifact` are what users and package
managers do meanwhile.

### ToolSupervisor

One `ManagedTool`. A client is the goroutine of a connection; those in
`StepClients` run subagent calls, whose context ends with the call. `t.mu` is a
variable, because `startLocked` and `Stop` hold it while they wait for the
subprocess; a critical section that does not wait is one action. A subprocess
has a life, a reader, the requests it has read and the client whose context it
was started with.

`Arrive`, `AnswerCached`, `EnsureRunning`, `StartLocked`, `Greet`, `Greeted`,
`HandshakeTimesOut`, `Register`, `Send`, `Receive`, `GiveUp` are
`HandleClientRequest` with `startLocked`, `callRawLocked` and `callRaw`.
`Answer`, `OversizedLine`, `MarkStopped`, `DrainPending` are `readLoop`. `CallStop`
stands for the reaper that has seen an idle tool, and for `StopAll`; `StopBegin`
and `StopEnd` are `Stop`. `Expire` is a step deadline or `worker_kill`,
`Disconnect` the end of a connection. A send on a nil stdin panics, and ends the
hub (`panicked`): no goroutine recovers.

### HubInstance

Hub processes before, at and after the socket. A file is named after the process that
created it, so a path (`sock`, `lockFile`) and the file behind it differ: a process that
has the pid file open keeps that file when the path goes. `holder` says who holds the
flock of which file. A process passes `start` (`runHubStart`), `open` to `write`
(`AcquireInstanceLock`), `probe`, `unlink`, `listen` (`Hub.Start`; from `probe` to
`abandon` instead when somebody answers, the lock being given back in a step after the
answer), `up`, `serving` (`runHubServe`, before and after `signal.Notify`), `closing`,
`remove`, `release` (`Hub.Close`). `Past` is the hub that was there before: nothing of
it is left, or its files are, or it is a hub of a build without the lock that still
serves. `Dial`, `Poll`, `GiveUp` are a bridge; `StopRead` and `StopSignal` are `omca hub
stop`, with a pid that may have been given to another program meanwhile (`PidReused`).
`undisturbed` is history: the bridges that dialled in vain while nobody was giving a
lock back without serving (`Departing`), and since whose dial nothing has ended a hub.

### WorkerPool, RenderCheck, SessionWatcher, HubRouting, Watchdog

The hub beside its tools; `MCServices` explores each on its own.

`WorkerPool`: a call is the goroutine of one connection and passes `throttle`
(perhaps asleep with `p.mu` held), `select` (queued), `register`, `call`, `answer`,
`writing` (under `h.mu`), `unregister`, `release`: `throttleRateLimit`,
`AcquireTaskSlot`, `RegisterWorker`, the tool call, `writeResponse` and the deferred
calls of `handleSubagentCall` in their order. `KillWorker` is two steps, its lookup
and its cancel. The clock counts in ticks, `Cost` of which refill a token. `Stall`
is a host that stops reading its socket, which holds `h.mu`.

`RenderCheck`: a check visits the roots of `Sweep` one after another, each an
external command that may fail, and replaces the cards at its end; checks of the
ticker, of `render_check` and of a restore overlap.

`SessionWatcher`: `PollOnce` over the profiles in order, with the debounce, the
maximal wait and the baselines of a new hub; distillations run after the poll.
`undistilled` and `given_up` are history: what no distillation has read, and what
a failed one or an ended hub lost.

`HubRouting`: `LoadConfig` with the sidecar's digest, `New`'s registration of every
profile's and the shared tools, `ResolveServer`, and attaching connections, which
register more. `harness.json` and its sidecar are rendered, and edited, by others.
A name is the sequence of its parts between colons and a key the concatenation of
names, as the code joins strings: profile `a` with server `b:c` and profile `a:b` with
server `c` have one key.

`Watchdog`: `JSONAutoRepair` on a text that grows by one character class at a time.

### PluginTransport and AdapterContract

`AdapterContract` says what a caller of a host adapter may count on, in whichever
process it runs: a request is executed at most once, in order, one at a time, and
a call returns what came of its own request or an error. `PluginTransport` is
`RemoteAdapter` and `Serve`: the mutex, the request written before anything watches
the context, the reader that a cancelled call leaves by closing stdout, the
handshake, `Close`, and a bounded pipe each way. `Serve` takes a request only when
what it has to say (`saying`) is written, and `Say` blocks while stdout is full. The
plugin is foreign code: `Misbehave` lets it drop a request, answer twice, exit, or go
`deaf` (read no more).
`ImplementsContract` is the refinement: `asking` are the callers in `write` or `read`,
`requests` is `nextID`, `executed` what the plugin answered, `returned` the outcome.

### DesiredState and Staging

`DesiredState` is `profiles.Compose` and `resolve.Resolve`: globs of bindings,
identities (of the known categories and then of `OtherCategories`), exceptions in
force, groups of intents, hard conflicts, the baseline
and the two layers of the activation. An asset's final state is a record as
`resolveOne` returns it. Editors change the directories, time passes.

`Staging` is what commands do with it. A process is an agent (`omca mcp`), a screen
(the TUI) or a command line, and its job the step it has reached. `ReadReport`,
`ComputePropose`, `ComputeStage`, `StageCandidate`, `ComposeStage`,
`PersistActivation`, `CompilePending` are staging; `RunActivate`, `ComposeFresh`,
`Activate` the activation with its diff, its confirmations and its comparison of
source digests. A generation is what it includes. Locks, pointers of two files and
crashes are in `Generations`, where a switch takes five steps instead of one.

### EffectiveGraph and DriftReport

`EffectiveGraph` is `internal/effective` as operators: `ExtractCandidates`,
`MatchIdentities`, `ResolveGroup` with its two gates and the nine operators,
`ComposeConcept`, duplicates, and the ceiling that caps evidence
(`internal/assurance`). Of a deep merge the model keeps whether there is a conflict
and at which leaves; the code names the one its map iteration meets first.
`DriftReport` adds what happens around it (sources, packs, hosts, exceptions and
time change), `Build`, the signals, `Classify`, `Group`, and the planes that `omca
compare` and `omca diff` match. `Foreign` are signals of other producers, which the
classifier takes as well. A report keeps the exceptions it was built with (`under`).
Cards are told apart by their group's key; that the code shortens a digest of it to
eight characters is not modelled.

### KnowledgeUpdate

One host. `Resolve` chooses the pack that qualifies a version. `StartCommand` to
`OpenPullRequest` are `omca knowledge poll` and `propose` in several clones with one
remote; each step may fail, a push or a pull request may take effect although its
answer is lost, and `Kill` ends a command anywhere. `Publish`, `Correct`, `Retire`,
`Rebuild` are the maintainers.

### SessionLaunch

A shell has an exported environment and a job in the foreground. `EvalEnv` is `omca
env` with its shims replaced by rename, `Type` a command typed by name (a shim, asdf
or a binary, whichever `PATH` finds), `RunNative` and `RunIsolated` are `omca run`,
`ShimBuild` is `shim.Build`, `SyncTruncate` and `SyncWrite` write the native home,
`Exec` injects the environment. A session may start a shell of its own
(`SessionSpawns`), with everything it inherited. A machine says what is installed
in `bin`, in asdf's versions, and what asdf's shims name. Selecting a generation is
one step here.

## 4. Runs

A run is `tlc -config <cfg> <module>`. Deadlock is checked in `report` and
`knowledge`; in the others commands, calls and starts are bounded, so each system
really stops once they are used up. Definitions marked "mutant" in the modules are
slips of the kind the code could have; `PROJECT.json` says which definition each
replaces and which property it breaks.

| Run | Instance | Shows |
|---|---|---|
| `lifecycle` | 1 host, 2 processes, 4 commands, 1 crash, 1 outside change of any kind | `LockHeld`, `PointerOwned`, `FreshWhenActivated`, `LedgerTruthful`, `LedgerTellsCurrent`, `LaunchRunsCurrent`, types |
| `hosts` | 2 hosts, 2 processes, 3 commands, 1 crash | `PointersResolve`, `LaunchKeepsSelection`, and the liveness property `CommandsFinish` |
| `multiplex` | 2 clients (one runs a subagent), 2 calls, 2 subprocesses, 1 fault | `AnswersMatch`, `TableIsWaiters`, `OneProcessRead`, liveness `EveryCallEnds` |
| `dispatch` | the same, smaller | violates `DispatchFindsTool` |
| `instance` | 3 hub processes, 2 bridges, 1 stop, 1 kill or slow start, leftovers or an older hub | `OneOwner`, `ListenerReachable`, `PidNamesOwner`, liveness `AutoStartWorks` |
| `services` | 3 calls for 1 slot of each kind, ids that collide; 2 checkers over 3 visits and 2 checkouts; 2 watched profiles, 1 crash; 3 configurations, 7 requests; texts of 5 characters | `SlotsAccounted`, `RegistryTruthful`, `NoChangeForgotten`, `HandEditNeedsConsent`, `ProfileIsolated`, `RepairBalances`, liveness `SubagentCallsEnd`, `CardsConverge`, `SessionsDistilled` |
| `plugin` | a loader and 2 callers, 3 requests, 2 faults of any kind, pipes of 1 message, 2 manifests | the refinement `ImplementsContract`, liveness `AdapterCallsEnd` |
| `decide` | 5 configurations that disagree in every way, one with categories OMCA does not know, 4 exception documents, 6 hand-written activations, 2 hosts, 2 assets; and an agent, a screen and a command line with 2 commands, 1 edit and 1 tick of the clock | `PolicyHolds`, `ExpiryOnlyTightens`, `ActivatedWithinPolicy`, `AgentEnablesNoServer` |
| `report` | 4 sets of sources on each of 2 hosts, packs with every operator, 4 sets of merge options, 2 sets of exceptions | `DriftAccounted`, `PlanesCorrelate`, `QualifyingOnlyDecides` |
| `knowledge` | 2 clones, 2 sources, 2 seconds, 2 packs whose ranges may overlap | `PullRequestTellsBranch` |
| `launch` | 2 worktrees, 2 shells, 4 machines, 4 commands, a switch of generation, `PATH` of 4 | `AsdfNeverUnderVirtualHome`, `SessionOfItsWorktree`, liveness `LaunchEnds` |
| `launch_keeps` | the same, one machine | violates `SessionKeepsGeneration` |

These configurations each check one more property that the code does not keep;
they are not among the runs of `PROJECT.json` and can be run by hand:

| Configuration | Module | Violates |
|---|---|---|
| `Generations_confirm.cfg`, `_failedver`, `_editcurrent`, `_content`, `_manifest` | `MCGenerations` | `ActivatedOnlyIfConfirmed`, `RollbackUndoesFailedActivation`, `CurrentNeverEdited`, `ContentChangeInvalidatesPending`, `ManifestsWhole` |
| `Tool_caller.cfg` | `MCToolSupervisor` | `SharedToolOutlivesCaller` |
| `Hub_stoppid.cfg`, `Hub_abandoned.cfg` | `HubInstance` | `StopTargetsHub`, `WinnerServes` |
| `Services_limits.cfg` | `MCServices` | `RestoredStaysClosed`, `RateHeld`, `RepairParses`, and under `MCHarnessClash` `PoolKeptApart` |
| `Decide_widening.cfg`, `_takeseffect` | `MCDecide` | `WideningConfirmed`, `StagedTakesEffect` |
| `Knowledge_superseded.cfg` | `MCKnowledge` | `SupersededReplaced` |
| `Launch_nested.cfg`, `_home` | `MCLaunch` | `LaunchAlwaysEnds`, `RealHomeKnown`, `BridgeKeepsRealHome` |

**Why these bounds are enough.** Every hazard of `Generations` needs at most two
processes on one host (one decides, the other changes what it decided on) and,
for the longest (`failedver`), a history of activations before it; the second
host matters only for what one staging does to several pointers, which `hosts`
covers. Two clients and two subprocesses give a dead reader beside a living one
and a caller on either. Three hub processes allow one that closes, one that
owns and one that tries; the theorems below remove the bound. Three subagent
calls for one slot give a holder, one that waits behind it and one that ends;
two checkers overlap in every way two can; a text of five characters holds an open
bracket, a string in it and an escape that is cut. Three requests over a pipe of
one message fill it and leave a late answer for a later call, and with two faults
the answers nobody asked for fill the other one. One staging that
was cut short by another, or by an edit or a tick, is what two commands give. In
`report` a group of three sources has two that agree and one that does not, under
every operator. Two proposals in one second, or in two, are all that one branch
name can suffer. Two worktrees, nested once, give a shim that finds the other's.

Bounds are constants checked in the guards (`MaxCommands`, `MaxCrashes`,
`MaxEdits`, `MaxSelections`, `MaxStarts`, `MaxCalls`, `MaxFaults`, `MaxStops`,
`MaxSubagentCalls`, `MaxTicks`, `MaxFailures`, `MaxRequests`, `MaxHubCrashes`,
`MaxWrites`, `MaxText`, `MaxTime`, `LastTime`, `MaxPacks`, `MaxPath`,
`MaxSwitches`), with one exception: `knowledge` stops exploring where more than two
branches were made (`TwoProposals`). Some MC modules restrict the environment and
say so: `MCReport` leaves a host alone once its report is built, `MCKnowledge` publishes
packs while no command runs, `MCDecide` starts staging from one configuration.
`lifecycle` and `knowledge` identify states up to renaming of processes or clones and
check no liveness; `launch` fixes where one shell starts, the worktrees being alike.

**Fairness.** `Generations`: a command that was started takes its next step; all
its system calls return, and its lock attempt never blocks
(`LOCK_NB`). Starting commands, crashing and editing are not fair. `CommandsFinish`
says that nothing else is needed. `ToolSupervisor`: goroutines keep running, a
signalled process dies (SIGKILL follows SIGTERM after two seconds), and a tool
that is read answers; disconnects, expiries, stops and faults are not fair. The
ten-second timeout of the handshake is among the client's steps.
`HubInstance`: a hub process that can go on does, and a bridge dials again.
`WorkerPool`: goroutines run, the clock and the 150-second deadline come; tools and
hosts need not answer. `RenderCheck`: a check that began goes on, and the ticker
ticks once it is started. `SessionWatcher`: polls and the clock go on, and a
distillation ends, well or badly. `PluginTransport`: the adapter's goroutines run,
contexts other than the loader's end, and a running plugin reads its input to the
end; one that does not is `deaf`. `SessionLaunch`: a launch takes its own next step;
users, sessions and switches owe nothing. Weak fairness suffices
where an enabled step of one actor is taken from it only by the end it is waiting
for. The calls of `WorkerPool` and `PluginTransport` compete for mutexes and slots,
which are free and taken again and again; their steps are strongly fair, as Go's
`sync.Mutex` (which hands over to a waiter after a millisecond) and its channels
(which serve waiters in order) are.

**Exceptions in the liveness properties.** `EveryCallEnds` excepts a hub that has
panicked and a reader that has met an oversized line; a call killed with another
client's context has ended. `AutoStartWorks` is about bridges that are `undisturbed`: a
hub killed before the bridge dials, and what it left, is within it; a hub that is
stopped or killed while the bridge waits is not, nor one that holds the lock and is
about to give it back without serving. A start refused by such a lock waits for nobody
and fails after three seconds (`Hub_abandoned.cfg`). `SubagentCallsEnd` excepts a host that
stopped reading, which holds `h.mu`; `SessionsDistilled` a failed distillation and the
end of the hub; `AdapterCallsEnd` a wedged plugin, which is deaf, or writes to a full
stdout while its stdin is full as well or `Close` waits for its exit; `LaunchEnds` a
`PATH` with two worktrees' shims, where a launch does go on for ever
(`Launch_nested.cfg`).

## 5. Proofs

All theorems are for arbitrary constants, subject to the named ASSUMEs of the
modules. Most say that special values differ from the members of the sets they are
compared with, and that bounds are naturals. The others:

* `NoneIsNoGeneration`: no pointer is not a generation.
* `InstanceAssumption`, `ToolAssumption`, `TransportAssumption`: nothing else.
* `PoolAssumption`: finitely many calls, since they are counted.
* `WatcherAssumption`, `WatchdogAssumption`: the debounce, the maximal wait and the
  deepest nesting are not 0.
* `DesiredAssumption`: an exception's end is a time, a hand-written activation has a
  neutral part and one per host, and the other categories form a sequence.
  `StagingAssumption`: an agent (`omca mcp`) and a screen are different processes.
* `GraphAssumption`, `ReportAssumption`: evidence has one of the six levels; a host has
  finitely many sources, each with finitely many servers; a sample has room for one
  reference; `Foreign` signals have a base category (`Classify` refuses others); a
  compiled plane has one row per place, the rows being a Go map.
* `KnowledgeAssumption`: a set of packs has a last id, since `PackForHost` takes the
  last.
* `LaunchAssumption`: `asdf` and `bin` are not worktrees or versions, `node` is not a
  host.

There is no assumption on the number of hosts, processes, shells, worktrees, clients,
bridges, clones, profiles or assets. An MC module may restrict a next-state relation;
its behaviours are among those the theorems are about.

**Generations.** `TypeCorrect`: `TypeOK` is inductive because it contains
`JobOK`, what a process remembers at each point it has reached; a rollback's
`parent` exists only because `ReadParent` checked it. The safety properties
checked by the runs are not inductive. `Safe` strengthens them:

* `LockHeld`, an equivalence: a process is inside a transaction on a host
  exactly when it holds that host's lock. From left to right it gives mutual
  exclusion, from right to left that every exit path releases.
* `PointerOwnedBy(p)`: from its first read to its last write the pointer is as
  p read or wrote it. This needs `LockHeld`: any other writer would hold p's lock.
* `FreshBy(p)`: what is about to be switched to has the source digest observed.
* `LaunchOnlyRefreshes(p)`: a launch installs the bootstrap generation of what
  it detected, over a current nobody selected.

The lemma `OthersKeepTheirs` says once why a step of p leaves the part of every
other process alone; each action then proves only p's part. From `SafeAlways`
follow `LockHeldAlways`, `PointerOwnedAlways`, `FreshAlways` (FR-9) and, with the
action at hand, the action properties `LedgerTruthfulAlways`,
`LaunchKeepsSelectionAlways` and `LaunchRunsCurrentAlways`.

Two more invariants stand on it. `Resolves`: not only the pointers but the parents in
the manifests and what every process is about to point to are stored; the store only
grows, so another's step keeps it (`PointersResolveAlways`). `Tells`: as long as no
process was killed, and unless a transaction is between its switch and its entry, the
last switch in the ledger is to the desired generation `current` points to; only the
holder of the lock can be there (`LedgerTellsCurrentAlways`).

**HubInstance.** `TypeCorrect`, then `OneOwnerAlways`, `ListenerReachableAlways`
and `PidNamesOwnerAlways` from `Safe`:

* `OpenIsPath`: the file a process has open is the one at the pid path. It
  holds because nobody removes that path; this is the fact the comment in
  `Release` argues for.
* `OwnerHolds`: a process past the lock holds the flock of the file it has
  open. With `OpenIsPath`, two owners would hold one lock.
* `PidWritten`: what an owner wrote is still there, since only owners write.
* `LegacyAlone`: while a hub without the lock serves, the path is its own and
  no other has found the socket cold.
* `PathOwned`: the path of a hub that listens is its own until it closes.

**ToolSupervisor.** `ToolTypeCorrect`; then `AnswersMatchAlways` and
`TableIsWaitersAlways` from `Matched`: no two clients wait under one key (`OwnKeys`),
an entry of the table belongs to a client that waits under its key with an empty
channel (`TableUnanswered`), and a client without an answer is in the table
(`WaitersListed`). Without the empty channel a drain could close one that holds an
answer. `OneProcessReadAlways` from `ReadIsCommand`: a subprocess that lives and is
read is `t.cmd`, and the tool is `STOPPING` exactly while the stopper holds `t.mu`.

**The hub's services.** `RegistryTruthfulAlways` needs only types: a worker is delisted
under its own name. `SlotsAccountedAlways` from `Counted`: a step moves one call, so the
set of the calls at the places that hold a slot, or queue, gains or loses one element
when the counter does (`AddCounts`, `TakeCounts`, `Moved`). `NoChangeForgottenAlways`
from `Remembered`, which also says that while no hub watches, what is undistilled was
given up: otherwise the baselines of the next hub would hide it. `ConsentAlways` from
`Consented`: what the sidecar records, what a rendering is about to record and what is
loaded are trusted. `IsolationAlways` from `Listed`: a registered key has the command
its own section lists. It is about configurations whose sections' joined names keep
apart (`KeysApart`), which is not every configuration the code takes: `PoolKeptApart`
(section 4) shows three in which a profile gets another's process. By
`PlainNamesKeepApart` the names of a file keep apart if none holds a colon and no
profile is called `shared`.

`RepairAlways` is about texts of any length. The repair's loop and the reader that
judges it are recursive functions of the place in the text, and induction goes over
sets of numbers, by their least element (`EveryNat`), where the library's induction
theorems would need an operator. `ScanningSteps` and `ReadingSteps`: such a function
exists and goes on as its definition says. `ScanFollows`: the loop's stack holds the
closers of what the reader has open, until the text is wrong or too deep.
`ClosersClose`: closers in reverse order close what is open. `KeptRead` deals with the
string and the escape that were cut, `MetaRead` with the metadata before the last brace.

**DesiredState and Staging.** One resolution has no steps to be inductive over. Its
layers are followed one by one: `Turned` says what a selection makes of a state under an
intent, `LayerTurns` that `ApplyLayer` does that, `ResolvedActive` what two layers make of
the baseline. From these, `PolicyOf` (a denial or a requirement that nothing lifts
holds, `PolicyAlways`), and `ExpiryOf` and `DisablingOf` (what an ended exception, or a
disable taken back, can change): `ExpiryAlways`. `ActivatedAlways` and `AgentAlways` are
about steps of `Staging` and need `StagingInv`: what an agent's job asks for enables no
server from its decision to its composition, and what a job is about to switch to was
compiled from the composition it carries (`JobInv`), however pending came to be.

**EffectiveGraph and DriftReport.** A report outlives the state it was made of, and the
sources may have changed since; so the invariant is that it *was* what `Build` makes of
some state (`ReportInv`, `ReportIsBuilt`). The rest is about graphs and groups, by cases
over the operators: no group loses a disagreement to its verdict, its samples or its
grouping, and a card is an exception's exactly if one of those in force covers each of
its rows (`DriftAccountedAlways`); what is in effect is a row of the observed plane, and the
compiled plane has its row under the same key (`PlanesCorrelateAlways`); and a
qualification decides what was open and changes no verdict that was decided
(`QualifyingAlways`, from `VerdictStays` and `EntryStays`).

**SessionLaunch.** `LaunchInv`: what every shell exports and every job carries is an
environment, and `JobSafe` of every job: while it resolves and writes, its state directory
is that of the worktree it was asked for; once the search for the host is over, what it
found does not run by asdf; and the session has the homes of that worktree. It is kept
along a chain of shims of any length; from it `AsdfNeverAlways` and
`SessionOfItsWorktreeAlways`. That such a chain ends is `LaunchEnds`, for TLC.

**PluginTransport.** `RemoteIsLocal`: `PluginTransport` implements `AdapterContract`.
Every step is a step of the contract or leaves its variables alone (`StepMaps`),
from `Orderly`: only the holder of the mutex writes or reads (`OneCaller`), ids grow
along the pipe and past every executed request (`IdsGrow`), and what lies in the
other pipe, or is about to be written to it, was said of an executed request
(`Truthful`). `ClassesSurvive` says that
an error's class comes back from the wire as it was.

**KnowledgeUpdate.** `PullRequestTellsBranchAlways` from `Carried`: from its commit on,
a proposal's branch holds its candidate in its own clone, and from its push on in
the remote, because a push that is not a fast-forward fails.

**Model-checked only.** Every safety property of the passing runs has a theorem. The
liveness properties (`CommandsFinish`, `EveryCallEnds`, `AutoStartWorks`,
`SubagentCallsEnd`, `CardsConverge`, `SessionsDistilled`, `AdapterCallsEnd`, `LaunchEnds`)
stay with TLC, liveness and ENABLED being outside what the prover handles, and so do the
violations, which are counterexamples. `RenderCheck` has no safety property that holds
and no proof.

## 6. Where code and comments part

Each is in `PROJECT.json` with the quoted line. Generations and staging:

* A pending generation staged between the confirmation check and the lock is
  activated unconfirmed (`Generations_confirm.cfg`).
* The automated rollback undoes whatever is current by then (`_failedver`).
* Staging what is already current rewrites its manifest's parent, also to itself
  (`_editcurrent`).
* The source digest leaves out the content of the sources (`_content`).
* Two stagings of one generation can leave an unreadable manifest (`_manifest`).
* A wider sandbox value is not among the changes to confirm (`Decide_widening.cfg`).
* Once an asset was disabled by a staging, enabling it changes nothing
  (`Decide_takeseffect.cfg`).
* When profiles do not compose, the policy gate of a proposal finds nothing denied.

The hub:

* A stop between "ensure running" and the write makes the hub panic (`dispatch`).
* The context of the client that came first is the life of the shared process
  (`Tool_caller.cfg`).
* `hub stop` signals the pid of an unlocked file (`Hub_stoppid.cfg`).
* A check that began before a restore brings its card back (`Services_limits.cfg`).
* A sleep in the token bucket is credited twice (`Services_limits.cfg`).
* An object cut after its opening brace is repaired to `{,"_meta":...}`
  (`Services_limits.cfg`).
* Names of tools and profiles are joined by a colon and may hold one: a profile `shared`,
  a legacy tool `b:mem`, or profile `a:z` beside a server `z:mem` of `a` get another's
  process (`Services_limits.cfg`).
* A hub that gives the lock back because an older hub answered refuses a bridge's start
  although that one has ended (`Hub_abandoned.cfg`).

Launches:

* A later launch overwrites the native home of a running session (`launch_keeps`).
* With two worktrees' shims on `PATH` a launch finds shims for ever (`Launch_nested.cfg`).
* `OMCA_REAL_HOME` may hold a virtual HOME, and a host that cannot be virtualized
  inherits one (`Launch_home.cfg`).

Knowledge and reports:

* A superseded pack beside its correction leaves the host unqualified, and a retired
  one goes on qualifying (`Knowledge_superseded.cfg`).
* No committed pack records a digest for a polled source, so no poll can report a change.
* Of sources with equal content the one with the lowest reference stands for all, with
  its scope, whatever the others' scopes.
* The signals of a report have the sentence of their cause for a scope, so no exception
  scoped to a profile covers one.

## 7. What is not modelled

* **Observation, worktree context**: read the file system and git; what they find
  is an input of the models. **MCP queries and status, audit, explanations,
  context cost, state report**: projections. **Terminal interface**: keys and
  rendering in one event loop; what it stages and activates is in `Staging`.
* **Credentials** (`internal/auth`): only its table of classified files is used, by a
  report; nothing calls the fallback, the symlinks or the native login yet.
* **Qualification lab, conformance kit**: run fixtures, keep nothing. **Domain types,
  ontology, schemas**: data and their validation, one way of a step failing here.
* **`omca bisect`** compiles disposable generations and activates none. **`omca doctor`**
  only reads.
* I/O errors other than a kill: a full disk or a failed rename stops a command
  at a point a kill also stops it at, except that it reports. Failing `chmod`s,
  which some code ignores, are not there.
* In `ToolSupervisor`: the registry of tools, statistics, `lastActive` as a clock
  (the idle timeout may have passed at any moment), and `ManagedTool.Start`.
  Requests without an id and unparsable lines are dropped by `dispatchLine` before
  they reach the state modelled.
* In `HubInstance`: the HTTP endpoint, a dial that fails although the listener is
  alive (full backlog), what the hub of an older build does to the pid
  file, and the data a bridge copies.
* In `Watchdog` and the workers: loop detection on texts, a scan without state, and
  the call-loop check, the quorum and the write arbiter, which nothing calls.
* In `EffectiveGraph`: what a merged table holds, guarantees, and the evidence
  documents written from a graph. In `KnowledgeUpdate`: the capabilities of a pack
  and the report's text. In `SessionLaunch`: hosts of the observation tier, the parsing
  of versions and the context digest; `XDG_STATE_HOME` is unset.
