------------------------ MODULE SessionLaunch_proofs ------------------------
(***************************************************************************)
(* Proofs about SessionLaunch, for every set of worktrees, shells, hosts   *)
(* and installations, and for PATHs and chains of shims of any length.     *)
(***************************************************************************)
EXTENDS SessionLaunch, TLAPS

-----------------------------------------------------------------------------
(* What is exported and remembered.                                         *)

EnvFields == {"path", "shim", "state", "home", "nativeHome", "realHome", "runId"}
JobFields == {"pc", "host", "asked", "viaRun", "gen", "at", "interp", "env"}

\* An environment: OMCA_SHIM_DIR names a worktree's shims, and there is a
\* native home, or none, for every host.
IsEnv(e) ==
  /\ e = [f \in EnvFields |-> e[f]]
  /\ e.shim \in Worktrees \cup {None}
  /\ e.nativeHome = [h \in Hosts |-> e.nativeHome[h]]

IsJob(j) ==
  /\ j = [f \in JobFields |-> j[f]]
  /\ j.viaRun \in BOOLEAN
  /\ IsEnv(j.env)

\* Every shell has an environment and a job.
ShellsOK ==
  /\ cwd \in [Shells -> Worktrees]
  /\ env = [s \in Shells |-> env[s]] /\ \A s \in Shells : IsEnv(env[s])
  /\ job = [s \in Shells |-> job[s]] /\ \A s \in Shells : IsJob(job[s])

\* A shell begins with an environment, and omca env exports one.
LEMMA EnvsTyped ==
  ASSUME NEW e, IsEnv(e), NEW w \in Worktrees
  PROVE  IsEnv(BaseEnv) /\ IsEnv(Exports(e, w))
<1>1. IsEnv(BaseEnv)
  BY DEF IsEnv, BaseEnv, EnvFields
<1>2. IsEnv(Exports(e, w))
  BY DEF IsEnv, Exports, EnvFields
<1> QED
  BY <1>1, <1>2

\* What InjectEnv leaves alone and what it sets.
LEMMA Injected ==
  ASSUME NEW j, IsJob(j)
  PROVE  /\ IsEnv(InjectEnv(j)) /\ InjectEnv(j).path = j.env.path
         /\ InjectEnv(j).state = StateDir(j) /\ InjectEnv(j).runId = j.gen
         /\ j.host \in Virtualized =>
              /\ InjectEnv(j).home = <<StateDir(j), j.gen>>
              /\ InjectEnv(j).nativeHome[j.host] = StateDir(j)
<1> DEFINE d == StateDir(j)
           told == [j.env EXCEPT !.realHome = j.env.home, !.runId = j.gen, !.state = d]
           full == [told EXCEPT !.home = <<d, j.gen>>, !.nativeHome[j.host] = d]
<1>1. IsEnv(j.env)
  BY DEF IsJob
<1>2. IsEnv(told) /\ told.path = j.env.path /\ told.state = d /\ told.runId = j.gen
  BY <1>1 DEF IsEnv, EnvFields
<1> HIDE DEF told
<1>3. IsEnv(full) /\ full.path = told.path /\ full.state = told.state /\ full.runId = told.runId
      /\ full.home = <<d, j.gen>> /\ (j.host \in Hosts => full.nativeHome[j.host] = d)
  BY <1>2 DEF IsEnv, EnvFields
<1>4. InjectEnv(j) = IF j.host \in Virtualized THEN full ELSE told
  BY DEF InjectEnv, told
<1> HIDE DEF full
<1> QED
  BY <1>2, <1>3, <1>4, LaunchAssumption

-----------------------------------------------------------------------------
(* Which program runs.                                                      *)

\* The node that PATH gives, on machine m: no shim directory holds one.
NodeAt(m, path) ==
  LET found == {i \in DOMAIN path : \/ path[i] = "asdf" /\ m.named["node"] # {}
                                    \/ path[i] = "bin" /\ m.bin["node"] # "absent"}
  IN IF found = {} THEN None ELSE path[Min(found)]

\* RunBy on machine m.
Script(m, at, name) ==
  \/ at = "bin" /\ m.bin[name] = "script"
  \/ at \in Versions /\ m.installs[at][name] = "script"
Runs(m, j) ==
  IF ~Script(m, j.at, j.host) THEN j.at
  ELSE IF j.interp # None THEN j.interp ELSE NodeAt(m, j.env.path)

\* Shim directories hold the hosts' links only, so that excluding one, or
\* none, finds the same node.
LEMMA NodeFound ==
  ASSUME linked \subseteq Worktrees, NEW path, NEW shim \in Worktrees \cup {None}
  PROVE  ResolveReal("node", path, shim) = NodeAt(machine, path)
<1> DEFINE found == {i \in FilterOutDir(path, shim) : isExecutableFile(path[i], "node")}
           there == {i \in DOMAIN path : \/ path[i] = "asdf" /\ machine.named["node"] # {}
                                         \/ path[i] = "bin" /\ machine.bin["node"] # "absent"}
<1>1. found = there
  BY LaunchAssumption DEF FilterOutDir, isExecutableFile
<1> QED
  BY <1>1 DEF ResolveReal, NodeAt

\* RunBy reads the machine and the job only.
LEMMA RunByRuns ==
  ASSUME linked \subseteq Worktrees, NEW j
  PROVE  RunBy(j) = Runs(machine, j)
BY NodeFound DEF RunBy, Runs, IsScript, Script

\* What an asdf shim stands for is never one.
LEMMA PastASDFIsNone ==
  ASSUME NEW dir, NEW name
  PROVE  /\ PastASDF(dir, name) # "asdf"
         /\ dir = "asdf" => PastASDF(dir, name) # None
<1>1. ResolveASDFShimTarget(name) \in Versions \cup {Unresolvable}
  BY DEF ResolveASDFShimTarget
<1> QED
  BY <1>1, LaunchAssumption DEF PastASDF

\* A launch whose executable and interpreter were resolved does not end in an
\* asdf shim.
LEMMA ResolvedRuns ==
  ASSUME linked \subseteq Worktrees, NEW j, NEW dir, NEW shim \in Worktrees \cup {None},
         j.host \in Virtualized, j.at = PastASDF(dir, j.host),
         j.interp = ResolveShebangInterpreter(j.at, j.host, j.env.path, shim, j.host \in Virtualized)
  PROVE  Runs(machine, j) # "asdf"
<1> DEFINE node == ResolveReal("node", j.env.path, shim)
<1>1. j.at # "asdf"
  BY PastASDFIsNone
<1>2. node = NodeAt(machine, j.env.path)
  BY NodeFound
<1>3. CASE ~IsScript(j.at, j.host)
  BY <1>1, <1>3 DEF Runs, IsScript, Script
<1>4. CASE IsScript(j.at, j.host) /\ j.at \in Versions /\ machine.installs[j.at]["node"] # "absent"
  <2>1. j.interp = j.at
    BY <1>4 DEF ResolveShebangInterpreter
  <2> QED
    BY <1>1, <2>1, <1>4, LaunchAssumption DEF Runs
<1>5. CASE IsScript(j.at, j.host) /\ ~(j.at \in Versions /\ machine.installs[j.at]["node"] # "absent")
  <2>1. j.interp = PastASDF(node, "node")
    BY <1>5 DEF ResolveShebangInterpreter
  <2>2. j.interp # "asdf" /\ (node = "asdf" => j.interp # None)
    BY <2>1, PastASDFIsNone
  <2> QED
    BY <1>1, <1>2, <2>2 DEF Runs
<1> QED
  BY <1>3, <1>4, <1>5

-----------------------------------------------------------------------------
(* The inductive invariant.                                                 *)

\* What the job of a shell may rely on: until it starts the host it works in
\* the worktree asked for, and once resolved it runs no asdf shim.
JobSafe(m, j) ==
  /\ j.pc \in {"resolve", "truncate", "write", "exec"} => StateDir(j) = j.asked
  /\ j.host \in Virtualized =>
       /\ j.pc \in {"truncate", "write", "exec"} \/ (j.pc = "session" /\ j.gen # None)
            => Runs(m, j) # "asdf"
       /\ j.pc = "session" /\ j.gen # None =>
            j.env.home = <<j.asked, j.env.runId>> /\ j.env.nativeHome[j.host] = j.asked

LaunchInv ==
  /\ ShellsOK /\ linked \subseteq Worktrees
  /\ \A s \in Shells : JobSafe(machine, job[s])

\* A job that is over is safe.
LEMMA NoJobSafe == IsJob(NoJob) /\ \A m : JobSafe(m, NoJob)
<1>1. IsEnv(BaseEnv)
  BY DEF IsEnv, BaseEnv, EnvFields
<1> QED
  BY <1>1 DEF IsJob, NoJob, JobSafe, JobFields

\* Shell s takes up job j; no other shell's job changes.
LEMMA JobTaken ==
  ASSUME LaunchInv, NEW s \in Shells, NEW j, job' = [job EXCEPT ![s] = j],
         IsJob(j), JobSafe(machine, j), UNCHANGED <<machine, env, cwd>>, linked' \subseteq Worktrees
  PROVE  LaunchInv'
<1>1. job' = [t \in Shells |-> IF t = s THEN j ELSE job[t]]
  BY DEF LaunchInv, ShellsOK
<1>2. \A t \in Shells : IsJob(job'[t]) /\ JobSafe(machine, job'[t])
  BY <1>1 DEF LaunchInv, ShellsOK
<1> QED
  BY <1>1, <1>2 DEF LaunchInv, ShellsOK

\* The job a command at the prompt begins.
LEMMA Begun ==
  ASSUME LaunchInv, NEW s \in Shells, NEW h, NEW asked, NEW pc,
         Begins(s, h, asked, FALSE, pc),
         \/ pc = "resolve" /\ asked = env[s].state
         \/ pc = "session",
         UNCHANGED <<machine, linked, env, cwd>>
  PROVE  LaunchInv'
<1> DEFINE j == [NoJob EXCEPT !.pc = pc, !.host = h, !.asked = asked, !.viaRun = FALSE, !.env = env[s]]
<1>1. j = [f \in JobFields |-> j[f]] /\ j.pc = pc /\ j.asked = asked /\ j.viaRun = FALSE
      /\ j.gen = None /\ j.env = env[s]
  BY DEF NoJob, JobFields
<1>2. IsEnv(env[s])
  BY DEF LaunchInv, ShellsOK
<1>3. job' = [job EXCEPT ![s] = j]
  BY DEF Begins
<1> HIDE DEF j
<1>4. IsJob(j) /\ JobSafe(machine, j)
  BY <1>1, <1>2 DEF IsJob, JobSafe, StateDir
<1> QED
  BY <1>3, <1>4, JobTaken DEF LaunchInv

\* Every command at a prompt and every step of a launch keeps the invariant.
LEMMA LaunchInductive == LaunchInv /\ [Next]_vars => LaunchInv'
<1> SUFFICES ASSUME LaunchInv, [Next]_vars PROVE LaunchInv'
  OBVIOUS
<1>1. ASSUME NEW s \in Shells, EvalEnv(s) PROVE LaunchInv'
  <2>1. UNCHANGED <<machine, cwd, job>> /\ cwd[s] \in Worktrees
    BY <1>1 DEF EvalEnv, LaunchInv, ShellsOK
  <2>2. env' = [env EXCEPT ![s] = Exports(env[s], cwd[s])] \/ env' = env
    BY <1>1 DEF EvalEnv
  <2>3. IsEnv(Exports(env[s], cwd[s]))
    BY <2>1, EnvsTyped DEF LaunchInv, ShellsOK
  <2>4. env' = [t \in Shells |-> env'[t]] /\ \A t \in Shells : IsEnv(env'[t])
    BY <2>2, <2>3 DEF LaunchInv, ShellsOK
  <2>5. linked' \subseteq Worktrees
    BY <1>1, <2>1 DEF EvalEnv, InstallShims, LaunchInv
  <2> QED
    BY <2>1, <2>4, <2>5 DEF LaunchInv, ShellsOK
<1>2. ASSUME NEW s \in Shells, NEW w \in Worktrees, ChangeDir(s, w) PROVE LaunchInv'
  <2>1. UNCHANGED <<machine, job, linked>> /\ cwd' \in [Shells -> Worktrees]
    BY <1>2 DEF ChangeDir, LaunchInv, ShellsOK
  <2>2. env' = [env EXCEPT ![s] = BaseEnv] \/ env' = env
    BY <1>2 DEF ChangeDir
  <2>3. IsEnv(BaseEnv)
    BY DEF IsEnv, BaseEnv, EnvFields
  <2>4. env' = [t \in Shells |-> env'[t]] /\ \A t \in Shells : IsEnv(env'[t])
    BY <2>2, <2>3 DEF LaunchInv, ShellsOK
  <2> QED
    BY <2>1, <2>4 DEF LaunchInv, ShellsOK
<1>3. ASSUME NEW s \in Shells, NEW h \in Hosts, Type(s, h) \/ RunNative(s, h) PROVE LaunchInv'
  BY <1>3, Begun DEF Type, RunNative
<1>4. ASSUME NEW s \in Shells, NEW h \in Hosts, RunIsolated(s, h) PROVE LaunchInv'
  <2> DEFINE w == cwd[s]
             e == env[s]
             d == Detect(h, e, w)
             g == LaunchGeneration(h, w, current, d)
             at == PastASDF(d.at, h)
             interp == ResolveShebangInterpreter(at, h, e.path, None, h \in Virtualized)
             j == [NoJob EXCEPT !.pc = "truncate", !.host = h, !.asked = w, !.viaRun = TRUE,
                                !.gen = g, !.at = at, !.interp = interp, !.env = e]
  <2>1. UNCHANGED <<machine, cwd, env>> /\ linked' \subseteq Worktrees
    BY <1>4 DEF RunIsolated, InstallShims, LaunchInv, ShellsOK
  <2>2. job' = [job EXCEPT ![s] = j] \/ job' = job
    BY <1>4 DEF RunIsolated
  <2>3. j = [f \in JobFields |-> j[f]] /\ j.pc = "truncate" /\ j.host = h /\ j.asked = w
        /\ j.viaRun = TRUE /\ j.at = at /\ j.interp = interp /\ j.env = e
    <3> HIDE DEF w, e, d, g, at, interp
    <3> QED
      BY DEF NoJob, JobFields
  <2> HIDE DEF d, g, j
  <2>4. IsJob(j)
    BY <2>3 DEF IsJob, LaunchInv, ShellsOK
  <2>5. j.host \in Virtualized => Runs(machine, j) # "asdf"
    BY <2>3, ResolvedRuns DEF LaunchInv
  <2>6. JobSafe(machine, j)
    BY <2>3, <2>5 DEF JobSafe, StateDir
  <2>7. CASE job' = [job EXCEPT ![s] = j]
    BY <2>1, <2>4, <2>6, <2>7, JobTaken
  <2>8. CASE job' = job
    BY <2>1, <2>8 DEF LaunchInv, ShellsOK
  <2> QED
    BY <2>2, <2>7, <2>8
<1>5. ASSUME NEW s \in Shells, ShimBuild(s) PROVE LaunchInv'
  <2> DEFINE j == job[s]
             r == Resolved(j.host, j.env)
             g == CurrentGenerationDir(j.host, j.env)
             k == [j EXCEPT !.pc = "truncate", !.gen = g, !.at = r.at, !.interp = r.interp]
  <2>1. UNCHANGED <<machine, linked, env, cwd>> /\ j.pc = "resolve"
        /\ (job' = [job EXCEPT ![s] = k] \/ job' = [job EXCEPT ![s] = NoJob])
    BY <1>5 DEF ShimBuild, Fails
  <2>2. IsJob(j) /\ JobSafe(machine, j) /\ linked \subseteq Worktrees
    BY DEF LaunchInv, ShellsOK
  <2>3. k = [f \in JobFields |-> k[f]] /\ k.pc = "truncate" /\ k.host = j.host
        /\ k.asked = j.asked /\ k.viaRun = j.viaRun /\ k.at = r.at /\ k.interp = r.interp
        /\ k.env = j.env
    <3> HIDE DEF j, r, g
    <3> QED
      BY <2>2 DEF IsJob, JobFields
  <2>4. /\ r.at = PastASDF(ResolveReal(j.host, j.env.path, j.env.shim), j.host)
        /\ r.interp = ResolveShebangInterpreter(r.at, j.host, j.env.path, j.env.shim, j.host \in Virtualized)
    BY DEF Resolved
  <2>5. j.env.shim \in Worktrees \cup {None}
    BY <2>2 DEF IsJob, IsEnv
  <2> HIDE DEF j, r, g, k
  <2>6. k.host \in Virtualized => Runs(machine, k) # "asdf"
    BY <2>2, <2>3, <2>4, <2>5, ResolvedRuns
  <2>7. IsJob(k)
    BY <2>2, <2>3 DEF IsJob
  <2>8. StateDir(k) = k.asked
    BY <2>1, <2>2, <2>3 DEF JobSafe, StateDir
  <2>9. JobSafe(machine, k)
    BY <2>3, <2>6, <2>8 DEF JobSafe
  <2> QED
    BY <2>1, <2>2, <2>7, <2>9, NoJobSafe, JobTaken
<1>6. ASSUME NEW s \in Shells, SyncTruncate(s) \/ SyncWrite(s) PROVE LaunchInv'
  <2> DEFINE j == job[s]
  <2>1. PICK pc \in {"write", "exec"} :
          /\ UNCHANGED <<machine, linked, env, cwd>> /\ j.pc \in {"truncate", "write"}
          /\ job' = [job EXCEPT ![s].pc = pc]
    BY <1>6 DEF SyncTruncate, SyncWrite
  <2> DEFINE k == [j EXCEPT !.pc = pc]
  <2>2. IsJob(j) /\ JobSafe(machine, j)
    BY DEF LaunchInv, ShellsOK
  <2>3. k = [f \in JobFields |-> k[f]] /\ k.pc = pc
        /\ \A f \in JobFields \ {"pc"} : k[f] = j[f]
    BY <2>2 DEF IsJob, JobFields
  <2>4. job' = [job EXCEPT ![s] = k]
    BY <2>1
  <2> HIDE DEF j, k
  <2>5. Runs(machine, k) = Runs(machine, j) /\ StateDir(k) = StateDir(j)
    BY <2>3 DEF Runs, StateDir, JobFields
  <2>6. IsJob(k) /\ JobSafe(machine, k)
    BY <2>1, <2>2, <2>3, <2>5 DEF IsJob, JobSafe, JobFields
  <2> QED
    BY <2>1, <2>4, <2>6, JobTaken DEF LaunchInv
<1>7. ASSUME NEW s \in Shells, Exec(s) PROVE LaunchInv'
  <2> DEFINE j == job[s]
             e == InjectEnv(j)
             pc == IF j.at \in Worktrees THEN "resolve" ELSE "session"
             k == [j EXCEPT !.env = e, !.viaRun = FALSE, !.pc = pc]
  <2>1. UNCHANGED <<machine, linked, env, cwd>> /\ j.pc = "exec" /\ job' = [job EXCEPT ![s] = k]
    BY <1>7 DEF Exec
  <2>2. IsJob(j) /\ JobSafe(machine, j)
    BY DEF LaunchInv, ShellsOK
  <2>3. k = [f \in JobFields |-> k[f]] /\ k.pc = pc /\ k.env = e /\ k.viaRun = FALSE
        /\ \A f \in JobFields \ {"pc", "env", "viaRun"} : k[f] = j[f]
    <3> HIDE DEF j, e, pc
    <3> QED
      BY <2>2 DEF IsJob, JobFields
  <2>4. StateDir(j) = j.asked
    BY <2>1, <2>2 DEF JobSafe
  <2>5. /\ IsEnv(e) /\ e.path = j.env.path /\ e.state = j.asked /\ e.runId = j.gen
        /\ j.host \in Virtualized => e.home = <<j.asked, j.gen>> /\ e.nativeHome[j.host] = j.asked
    BY <2>2, <2>4, Injected
  <2> HIDE DEF j, e, k
  <2>6. Runs(machine, k) = Runs(machine, j) /\ StateDir(k) = k.asked
    BY <2>3, <2>5 DEF Runs, StateDir, JobFields
  <2>7. IsJob(k) /\ JobSafe(machine, k)
    BY <2>1, <2>2, <2>3, <2>5, <2>6 DEF IsJob, JobSafe, JobFields
  <2> QED
    BY <2>1, <2>7, JobTaken DEF LaunchInv
<1>8. ASSUME NEW s \in Shells, SessionEnds(s) PROVE LaunchInv'
  BY <1>8, NoJobSafe, JobTaken DEF SessionEnds, Fails, LaunchInv
<1>9. ASSUME NEW s \in Shells, NEW t \in Shells, SessionSpawns(s, t) PROVE LaunchInv'
  <2>1. UNCHANGED <<machine, linked, job>> /\ env' = [env EXCEPT ![t] = job[s].env]
        /\ cwd' = [cwd EXCEPT ![t] = cwd[s]]
    BY <1>9 DEF SessionSpawns
  <2>2. IsEnv(job[s].env)
    BY DEF LaunchInv, ShellsOK, IsJob
  <2>3. env' = [u \in Shells |-> env'[u]] /\ \A u \in Shells : IsEnv(env'[u])
    BY <2>1, <2>2 DEF LaunchInv, ShellsOK
  <2> QED
    BY <2>1, <2>3 DEF LaunchInv, ShellsOK
<1>10. ASSUME NEW w \in Worktrees, NEW h \in Hosts, NEW g \in Generations, Activate(w, h, g) PROVE LaunchInv'
  BY <1>10 DEF Activate, LaunchInv, ShellsOK
<1>11. CASE UNCHANGED vars
  BY <1>11 DEF vars, LaunchInv, ShellsOK
<1> QED
  BY <1>1, <1>2, <1>3, <1>4, <1>5, <1>6, <1>7, <1>8, <1>9, <1>10, <1>11 DEF Next, LaunchStep

\* Until it starts the host a launch works in the worktree asked for, and what it
\* has resolved runs no asdf shim (Build, runIsolated, Exec).
THEOREM LaunchInvAlways == Spec => []LaunchInv
<1>1. Init => LaunchInv
  <2> SUFFICES ASSUME Init PROVE LaunchInv
    OBVIOUS
  <2>1. IsEnv(BaseEnv)
    BY DEF IsEnv, BaseEnv, EnvFields
  <2>2. linked = {} /\ cwd \in [Shells -> Worktrees] /\ env = [s \in Shells |-> BaseEnv]
        /\ job = [s \in Shells |-> NoJob]
    BY DEF Init
  <2> QED
    BY <2>1, <2>2, NoJobSafe DEF LaunchInv, ShellsOK
<1>2. LaunchInv /\ [Next]_vars => LaunchInv'
  BY LaunchInductive
<1> QED
  BY <1>1, <1>2, PTL DEF Spec

\* No managed launch of a virtualized host ends in an asdf shim, however many
\* shims it passes: Build and runIsolated leave nothing unresolved.
THEOREM AsdfNeverAlways == Spec => []AsdfNeverUnderVirtualHome
<1>1. LaunchInv => AsdfNeverUnderVirtualHome
  BY RunByRuns DEF LaunchInv, JobSafe, AsdfNeverUnderVirtualHome, Managed
<1> QED
  BY <1>1, LaunchInvAlways, PTL

\* A managed session is of the worktree it was asked for: InjectEnv hands every
\* shim that is passed the worktree on.
THEOREM SessionOfItsWorktreeAlways == Spec => []SessionOfItsWorktree
<1>1. LaunchInv => SessionOfItsWorktree
  BY DEF LaunchInv, JobSafe, SessionOfItsWorktree, Managed
<1> QED
  BY <1>1, LaunchInvAlways, PTL
=============================================================================
