---------------------------- MODULE SessionLaunch ----------------------------
(***************************************************************************)
(* How a host comes to run: the PATH shims (internal/shim), `omca env` and *)
(* `omca run` (cmd/omca), host detection (internal/context/host.go) and    *)
(* the writable native home shared by a worktree's sessions                *)
(* (internal/runtime/mutablehome.go).                                      *)
(*                                                                         *)
(* A directory of PATH is a worktree (its shim directory), "asdf" (asdf's  *)
(* shims) or "bin"; an executable is known by where it is, a version       *)
(* standing for the bin directory of that asdf install.  A shell is the    *)
(* environment it exports and the job in its foreground.                   *)
(***************************************************************************)
EXTENDS Naturals, FiniteSets, Sequences, SequencesExt, Functions

CONSTANTS
  Worktrees, Shells, Versions,
  HostOrder,            \* the managed hosts in the order omca env detects them
  Virtualized,          \* the hosts that can run under a virtual HOME
  Generations,          \* the generations activate can make current
  Bootstrap,            \* the generation compiled from what is observed
  Machines,             \* what may be installed: [bin, named, installs]
  RealHome, None, Unresolvable,
  MaxPath, MaxCommands, MaxSwitches

Hosts == Range(HostOrder)

ASSUME LaunchAssumption ==
  /\ Virtualized \subseteq Hosts /\ "node" \notin Hosts /\ Bootstrap \notin Generations
  /\ Worktrees \cap {"asdf", "bin", None} = {} /\ Versions \cap {"asdf", None} = {}
  /\ None \notin {"asdf", "bin"} /\ Unresolvable \notin {"asdf", None}
  /\ MaxPath \in Nat /\ MaxCommands \in Nat /\ MaxSwitches \in Nat

VARIABLES
  machine,              \* what is installed where; it never changes
  linked,               \* worktrees whose shim directory holds the links
  current,              \* worktree -> host -> generation current points to
  config,               \* worktree -> host -> whose files the writable native home holds
  direnv, cwd, env,     \* of each shell: is it hooked, where is it, what it exports
  job,                  \* the command in the foreground of each shell
  commands, switches

vars == <<machine, linked, current, config, direnv, cwd, env, job, commands, switches>>

BaseEnv ==
  [path |-> <<"asdf", "bin">>, shim |-> None, state |-> None, home |-> RealHome,
   nativeHome |-> [h \in Hosts |-> None], realHome |-> None, runId |-> None]
NoJob == [pc |-> "idle", host |-> None, asked |-> None, viaRun |-> FALSE, gen |-> None,
          at |-> None, interp |-> None, env |-> BaseEnv]

Init ==
  /\ machine \in Machines
  /\ linked = {}
  /\ current = [w \in Worktrees |-> [h \in Hosts |-> None]]
  /\ config = [w \in Worktrees |-> [h \in Hosts |-> None]]
  /\ direnv \in [Shells -> BOOLEAN] /\ cwd \in [Shells -> Worktrees]
  /\ env = [s \in Shells |-> BaseEnv]
  /\ job = [s \in Shells |-> NoJob]
  /\ commands = 0 /\ switches = 0

-----------------------------------------------------------------------------
(* Finding the executable.                                                 *)

isExecutableFile(dir, name) ==
  \/ dir \in linked /\ name \in Hosts
  \/ dir = "asdf" /\ machine.named[name] # {}
  \/ dir = "bin" /\ machine.bin[name] # "absent"

FilterOutFirst(path, dir) ==        \* mutant: only the entry omca env has just put in front goes
  {i \in DOMAIN path : i > 1 \/ path[i] # dir}

\* The entries that stay, in their order.
FilterOutDir(path, dir) == {i \in DOMAIN path : path[i] # dir}

ResolveReal(name, path, shim) ==
  LET found == {i \in FilterOutDir(path, shim) : isExecutableFile(path[i], name)}
  IN IF found = {} THEN None ELSE path[Min(found)]

\* The install an asdf shim stands for: only when it names a single version,
\* and the executable is there.
ResolveASDFShimTarget(name) ==
  IF \E v \in Versions : machine.named[name] = {v} /\ machine.installs[v][name] # "absent"
    THEN CHOOSE v \in Versions : machine.named[name] = {v} ELSE Unresolvable
PastASDF(dir, name) == IF dir = "asdf" THEN ResolveASDFShimTarget(name) ELSE dir

\* Only the hosts themselves are "#!/usr/bin/env node" scripts.
IsScript(at, name) ==
  \/ at = "bin" /\ machine.bin[name] = "script"
  \/ at \in Versions /\ machine.installs[at][name] = "script"

ResolveInterpreterSoftly(at, name, path, shim, virtualizing) ==
  LET node == ResolveReal("node", path, shim) IN     \* mutant: what cannot be resolved is left to PATH
  IF ~IsScript(at, name) \/ ~virtualizing THEN None
  ELSE IF at \in Versions /\ machine.installs[at]["node"] # "absent" THEN at
  ELSE IF PastASDF(node, "node") = Unresolvable THEN None ELSE PastASDF(node, "node")
ResolveShebangInterpreter(at, name, path, shim, virtualizing) ==
  IF ~IsScript(at, name) \/ ~virtualizing THEN None
  ELSE IF at \in Versions /\ machine.installs[at]["node"] # "absent" THEN at
  ELSE PastASDF(ResolveReal("node", path, shim), "node")

\* shim.Build up to the pointer: the executable and its interpreter.
Resolved(h, e) ==
  LET at == PastASDF(ResolveReal(h, e.path, e.shim), h)
      interp == ResolveShebangInterpreter(at, h, e.path, e.shim, h \in Virtualized)
  IN [at |-> at, interp |-> interp,
      ok |-> at \notin {None, Unresolvable} /\ interp # Unresolvable]
CurrentGenerationDir(h, e) == IF e.state = None THEN None ELSE current[e.state][h]

-----------------------------------------------------------------------------
(* Detection and the selection of a generation, by omca env and omca run.  *)

\* `--version` of the first executable outside w's shims.  When that is the
\* shim of another worktree, the probe is a shim launch of its own: it copies
\* the generation of the caller's OMCA_STATE_DIR before it execs, and gets no
\* answer if it then finds a shim again.
Detect(h, e, w) ==
  LET p == [e EXCEPT !.path = Restrict(e.path, FilterOutDir(e.path, w))]
      first == ResolveReal(h, p.path, None)
      r == Resolved(h, p)
      launches == first \in Worktrees /\ r.ok /\ CurrentGenerationDir(h, p) # None
  IN [at |-> first, installed |-> first # None,
      version |-> first \in Worktrees => launches /\ r.at \notin Worktrees,
      syncs |-> IF launches THEN {e.state} ELSE {}]

\* EnsureLaunchGeneration: an activated generation is kept, if the host's
\* version is the one it was activated for; otherwise bootstrap is compiled.
LaunchGeneration(h, w, cur, d) ==
  IF cur[w][h] \in Generations THEN (IF d.version THEN cur[w][h] ELSE Unresolvable)
  ELSE Bootstrap

Synced(h, worktrees, cur, cfg) ==
  [w \in Worktrees |-> IF w \in worktrees THEN [cfg[w] EXCEPT ![h] = cur[w][h]] ELSE cfg[w]]

\* One host of omca env's loop, carrying on unless an earlier one failed.
SelectHost(acc, h, e, w) ==
  LET d == Detect(h, e, w)
      g == LaunchGeneration(h, w, acc.current, d)
      cfg == Synced(h, d.syncs, acc.current, acc.config)
  IN IF ~acc.ok THEN acc
     ELSE IF ~d.installed THEN acc
     ELSE IF g = Unresolvable THEN [acc EXCEPT !.ok = FALSE, !.config = cfg]
     ELSE [acc EXCEPT !.current[w][h] = g, !.config = cfg]

\* The state root is under HOME, and a virtual HOME is read-only.
StateRootUsable(e) == e.home = RealHome

InstallShims(w) == linked' = linked \cup {w}
Exports(e, w) ==
  [e EXCEPT !.path = <<w>> \o e.path, !.shim = w, !.state = w, !.realHome = e.home]

\* A shell evaluates the exports of omca env; direnv first takes back those of
\* the worktree it leaves.
EvalEnv(s) ==
  LET w == cwd[s]
      e == env[s]
      done == FoldLeft(LAMBDA acc, h : SelectHost(acc, h, e, w),
                       [ok |-> TRUE, current |-> current, config |-> config], HostOrder)
  IN /\ job[s].pc = "idle" /\ commands < MaxCommands /\ commands' = commands + 1
     /\ Len(e.path) < MaxPath /\ (direnv[s] => e.shim = None)
     /\ StateRootUsable(e)
     /\ InstallShims(w)
     /\ current' = done.current /\ config' = done.config
     /\ env' = IF done.ok THEN [env EXCEPT ![s] = Exports(e, w)] ELSE env
     /\ UNCHANGED <<machine, direnv, cwd, job, switches>>

ChangeDir(s, w) ==
  /\ job[s].pc = "idle" /\ cwd[s] # w /\ commands < MaxCommands /\ commands' = commands + 1
  /\ cwd' = [cwd EXCEPT ![s] = w]
  /\ env' = IF direnv[s] THEN [env EXCEPT ![s] = BaseEnv] ELSE env
  /\ UNCHANGED <<machine, linked, current, config, direnv, job, switches>>

-----------------------------------------------------------------------------
(* A launch: what is typed, then the steps of Build and Exec.              *)

Begins(s, h, asked, viaRun, pc) ==
  job' = [job EXCEPT ![s] = [NoJob EXCEPT !.pc = pc, !.host = h, !.asked = asked,
                                          !.viaRun = viaRun, !.env = env[s]]]
Fails(s) == job' = [job EXCEPT ![s] = NoJob]

\* The host's name at the prompt: the shell's own search of PATH finds a shim,
\* or a host that runs unmanaged.
Type(s, h) ==
  LET first == ResolveReal(h, env[s].path, None) IN
  /\ job[s].pc = "idle" /\ commands < MaxCommands /\ commands' = commands + 1
  /\ first # None
  /\ IF first \in Worktrees THEN Begins(s, h, env[s].state, FALSE, "resolve")
     ELSE Begins(s, h, None, FALSE, "session")
  /\ UNCHANGED <<machine, linked, current, config, direnv, cwd, env, switches>>

\* omca run --mode native: the caller's environment unchanged.
RunNative(s, h) ==
  LET first == ResolveReal(h, env[s].path, env[s].shim) IN
  /\ job[s].pc = "idle" /\ commands < MaxCommands /\ commands' = commands + 1
  /\ first # None
  /\ IF first \in Worktrees THEN Begins(s, h, env[s].state, FALSE, "resolve")
     ELSE Begins(s, h, None, FALSE, "session")
  /\ UNCHANGED <<machine, linked, current, config, direnv, cwd, env, switches>>

\* omca run, isolated: select the generation of the working directory's
\* worktree, then the executable and its interpreter.
RunIsolated(s, h) ==
  LET w == cwd[s]
      e == env[s]
      d == Detect(h, e, w)
      g == LaunchGeneration(h, w, current, d)
      at == PastASDF(d.at, h)
      interp == ResolveShebangInterpreter(at, h, e.path, None, h \in Virtualized)
      selected == d.installed /\ g # Unresolvable
  IN /\ job[s].pc = "idle" /\ commands < MaxCommands /\ commands' = commands + 1
     /\ StateRootUsable(e)
     /\ InstallShims(w)
     /\ config' = Synced(h, d.syncs, current, config)
     /\ current' = IF selected THEN [current EXCEPT ![w][h] = g] ELSE current
     /\ IF selected /\ at # Unresolvable /\ interp # Unresolvable
          THEN job' = [job EXCEPT ![s] =
                 [NoJob EXCEPT !.pc = "truncate", !.host = h, !.asked = w, !.viaRun = TRUE,
                               !.gen = g, !.at = at, !.interp = interp, !.env = e]]
          ELSE UNCHANGED job
     /\ UNCHANGED <<machine, direnv, cwd, env, switches>>

\* shim.Build finds what to exec and reads the pointer.
ShimBuild(s) ==
  LET j == job[s]
      r == Resolved(j.host, j.env)
      g == CurrentGenerationDir(j.host, j.env)
  IN /\ j.pc = "resolve"
     /\ IF r.ok /\ g # None
          THEN job' = [job EXCEPT ![s] = [j EXCEPT !.pc = "truncate", !.gen = g,
                                                   !.at = r.at, !.interp = r.interp]]
          ELSE Fails(s)
     /\ UNCHANGED <<machine, linked, current, config, direnv, cwd, env, commands, switches>>

\* The worktree a launch works in: omca run knows it, a shim reads it.
StateDir(j) == IF j.viaRun THEN j.asked ELSE j.env.state

\* SyncMutableNativeHome writes over the files in place.
SyncTruncate(s) ==
  LET j == job[s] IN
  /\ j.pc = "truncate"
  /\ config' = [config EXCEPT ![StateDir(j)][j.host] = None]
  /\ job' = [job EXCEPT ![s].pc = "write"]
  /\ UNCHANGED <<machine, linked, current, direnv, cwd, env, commands, switches>>
SyncWrite(s) ==
  LET j == job[s] IN
  /\ j.pc = "write"
  /\ config' = [config EXCEPT ![StateDir(j)][j.host] = j.gen]
  /\ job' = [job EXCEPT ![s].pc = "exec"]
  /\ UNCHANGED <<machine, linked, current, direnv, cwd, env, commands, switches>>

InjectEnvOnly(j) ==                 \* mutant: omca run leaves OMCA_STATE_DIR as it is
  LET told == [j.env EXCEPT !.realHome = j.env.home, !.runId = j.gen]
  IN IF j.host \in Virtualized
       THEN [told EXCEPT !.home = <<StateDir(j), j.gen>>, !.nativeHome[j.host] = StateDir(j)]
       ELSE told

\* Plan.Exec and the end of runIsolated: what the host inherits.
InjectEnv(j) ==
  LET told == [j.env EXCEPT !.realHome = j.env.home, !.runId = j.gen, !.state = StateDir(j)]
  IN IF j.host \in Virtualized
       THEN [told EXCEPT !.home = <<StateDir(j), j.gen>>, !.nativeHome[j.host] = StateDir(j)]
       ELSE told
Exec(s) ==
  LET j == job[s] IN
  /\ j.pc = "exec"
  /\ job' = [job EXCEPT ![s] = [j EXCEPT !.env = InjectEnv(j), !.viaRun = FALSE,
                                         !.pc = IF j.at \in Worktrees THEN "resolve" ELSE "session"]]
  /\ UNCHANGED <<machine, linked, current, config, direnv, cwd, env, commands, switches>>

SessionEnds(s) ==
  /\ job[s].pc = "session" /\ Fails(s)
  /\ UNCHANGED <<machine, linked, current, config, direnv, cwd, env, commands, switches>>

\* A session starts a shell of its own, as hosts do for their tools.
SessionSpawns(s, t) ==
  /\ job[s].pc = "session" /\ job[t].pc = "idle" /\ s # t
  /\ commands < MaxCommands /\ commands' = commands + 1
  /\ env' = [env EXCEPT ![t] = job[s].env]
  /\ cwd' = [cwd EXCEPT ![t] = cwd[s]] /\ direnv' = [direnv EXCEPT ![t] = FALSE]
  /\ UNCHANGED <<machine, linked, current, config, job, switches>>

\* omca activate, of a host whose version it has probed.
Activate(w, h, g) ==
  /\ current[w][h] \notin {None, g} /\ switches < MaxSwitches /\ switches' = switches + 1
  /\ current' = [current EXCEPT ![w][h] = g]
  /\ UNCHANGED <<machine, linked, config, direnv, cwd, env, job, commands>>

-----------------------------------------------------------------------------
LaunchStep(s) == ShimBuild(s) \/ SyncTruncate(s) \/ SyncWrite(s) \/ Exec(s)

Next ==
  \/ \E s \in Shells : EvalEnv(s) \/ LaunchStep(s) \/ SessionEnds(s)
  \/ \E s \in Shells, w \in Worktrees : ChangeDir(s, w)
  \/ \E s \in Shells, h \in Hosts : Type(s, h) \/ RunNative(s, h) \/ RunIsolated(s, h)
  \/ \E s, t \in Shells : SessionSpawns(s, t)
  \/ \E w \in Worktrees, h \in Hosts, g \in Generations : Activate(w, h, g)

LaunchFairness == \A s \in Shells : WF_vars(LaunchStep(s))
Spec == Init /\ [][Next]_vars /\ LaunchFairness

-----------------------------------------------------------------------------
(* Properties.                                                             *)

Managed(s) == job[s].pc = "session" /\ job[s].gen # None

\* What the operating system runs: the interpreter Build resolved, the one PATH
\* gives a script, or the executable itself.
RunBy(j) ==
  IF ~IsScript(j.at, j.host) THEN j.at
  ELSE IF j.interp # None THEN j.interp ELSE ResolveReal("node", j.env.path, None)

\* Under a virtual HOME an asdf shim cannot dispatch: it dies with exit 126 and
\* no output.  Whatever is installed, and through however many shims, a managed
\* launch of a virtualized host never ends in one (asdf.go, shebang.go).
AsdfNeverUnderVirtualHome ==
  \A s \in Shells : Managed(s) /\ job[s].host \in Virtualized => RunBy(job[s]) # "asdf"

\* A managed session is of the worktree it was asked for: the one `omca run` was
\* called in, or the one the shell's exports name, also when the way there led
\* through the shim of another worktree.
SessionOfItsWorktree ==
  \A s \in Shells : Managed(s) /\ job[s].host \in Virtualized =>
    /\ job[s].env.home = <<job[s].asked, job[s].env.runId>>
    /\ job[s].env.nativeHome[job[s].host] = job[s].asked

\* With one worktree's shims on PATH, however often, every launch ends: it starts
\* the host or fails, and does not find the shim again (doc.go, "The non-recursion
\* design decision").
ShimsOn(path) == Range(path) \cap Worktrees
LaunchEnds ==
  \A s \in Shells :
    job[s].pc = "resolve" /\ Cardinality(ShimsOn(job[s].env.path)) = 1 ~> job[s].pc \in {"session", "idle"}

\* "a running session keeps the generation it was launched with", "current
\* artifacts do not change during a session" (docs/architecture/runtime.md 5.5, 12):
\* the files in a session's native home are those of its generation, but for the
\* moment another launch is writing them again.
SessionKeepsGeneration ==
  \A s \in Shells : Managed(s) /\ job[s].host \in Virtualized =>
    config[job[s].env.state][job[s].host] \in {None, job[s].gen}

\* "locates the real host binary without recursively invoking itself" (doc.go),
\* for every PATH omca env can make.
LaunchAlwaysEnds == \A s \in Shells : job[s].pc = "resolve" ~> job[s].pc \in {"session", "idle"}

\* OMCA_REAL_HOME is "the caller's real HOME" (plan.go, RealHomeDir).
RealHomeKnown == \A s \in Shells : Managed(s) => job[s].env.realHome = RealHome

\* A host that cannot be virtualized keeps "the user's real home" (plan.go,
\* CanVirtualizeHome).
BridgeKeepsRealHome ==
  \A s \in Shells : Managed(s) /\ job[s].host \notin Virtualized => job[s].env.home = RealHome
=============================================================================
