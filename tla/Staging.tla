------------------------------ MODULE Staging ------------------------------
(***************************************************************************)
(* From a wish to a running host: an agent stages through the MCP tools, a *)
(* person through the terminal interface, and both, or the command line,   *)
(* activate what is pending.  What a generation is made of is here; its    *)
(* files, pointers, locks and crashes are in Generations.                  *)
(***************************************************************************)
EXTENDS DesiredState

CONSTANTS
  Agents, Screens, Clis,  \* MCP servers, terminal interfaces, omca activate
  Proposals,              \* RepairProposals agents may send
  AssetOrder,             \* the assets by kind and id, as reports list them
  Qualified,              \* pairs of host and kind whose compile is qualified
  Observations,           \* records [id, concept, scope, readable]
  MaxCommands, MaxEdits   \* bounds on commands begun and on files edited

ASSUME StagingAssumption == Agents \cap Screens = {}

VARIABLES
  observed,   \* what observing a host's sources finds
  current, pending,
  report,     \* the report each process last read
  job, commands, edits

Procs == Agents \cup Screens \cup Clis
stagingVars == <<desiredVars, observed, current, pending, report, job, commands, edits>>

NoGeneration == [hosts |-> {}, sources |-> [h \in {} |-> None]]
NoJob == [step |-> "idle", asks |-> [h \in {} |-> NoSelection], host |-> None,
          comp |-> None, gen |-> NoGeneration, before |-> NoGeneration,
          confirmed |-> {}, fresh |-> None]

-----------------------------------------------------------------------------
(* Compiling: what a generation includes for a host, and why. *)

\* Bootstrap policy: the repository's instructions, if they can be read.
Classify(o) == o.scope = "workspace" /\ o.concept = "instruction" /\ o.readable

CompileHostTree(h) == {o \in observed[h] : Classify(o)}

HostSources(c, h) ==
  [assets    |-> Resolve(c, h),
   conflicts |-> Conflicts(c, h),
   sandbox   |-> ResolveSandboxPermission(h, MergePermissions(c.profiles)),
   tree      |-> observed[h],
   loaded    |-> CompileHostTree(h)]

Compile(c, hs) == [hosts |-> hs, sources |-> [h \in hs |-> HostSources(c, h)]]

IncludedSources(g, h) ==
  IF h \notin g.hosts THEN {} ELSE
    LET s == g.sources[h] IN
    {<<a.kind, a.id>> : a \in {a \in DOMAIN s.assets : s.assets[a].active}}
      \cup {<<o.concept, o.id>> : o \in s.loaded}
      \cup (IF s.sandbox.included THEN {<<"permission", "sandbox">>} ELSE {})

DiffProposedChanges(before, g, h) == IncludedSources(g, h) \ IncludedSources(before, h)

ClassifyChange(change) ==
  CASE change[1] \in {"skill", "instruction"} -> "auto-stage"
    [] change[1] = "mcpServer"  -> "confirm-with-detail"
    [] change[1] = "permission" -> "always-confirm"
RequireConfirmation(changes, confirmed) ==
  \A x \in changes : ClassifyChange(x) = "auto-stage" \/ x \in confirmed

-----------------------------------------------------------------------------
(* Reports, and the gates an agent's proposal passes. *)

\* A report on a state that does not compose shows no desired state at all.
Report == [desired |-> [h \in Hosts |-> IF Readable THEN Resolve(Composed, h)
                                        ELSE [a \in {} |-> None]],
           observed |-> observed, current |-> current, pending |-> pending]

\* Exactly one host, and something selected.
ValidPatch(ch) == \/ ch.target \in {"Profile", "Binding"}
                  \/ Cardinality(ch.hosts) = 1 /\ ch.select # NoSelection
SchemaGate(rp) == rp.changes # {} /\ \A ch \in rp.changes : ValidPatch(ch)

EnablesOf(rp) ==
  {e \in Hosts \X Assets : \E ch \in rp.changes :
     ch.target = "Activation" /\ e[1] \in ch.hosts /\ e[2] \in ch.select.enable}
CapabilityGate(rp) == \A e \in EnablesOf(rp) : <<e[1], e[2].kind>> \in Qualified
PolicyGate(rp, artifact) ==
  \A e \in EnablesOf(rp) : LET d == artifact.desired[e[1]] IN
    e[2] \in DOMAIN d => d[e[2]].intent # "DENIED"

ClassifyByTarget(ch) ==                                \* mutant: servers as skills
  IF ch.target = "Activation" THEN "AUTO_STAGE" ELSE "REVIEWABLE_DIFF"
ClassifyPatch(ch) ==
  CASE ch.target = "Activation" ->
         IF \E a \in ch.select.enable : a.kind = "mcpServer" THEN "CONFIRM_REQUIRED" ELSE "AUTO_STAGE"
    [] ch.target = "Binding" \/ (ch.target = "Profile" /\ ~ch.permissions) -> "REVIEWABLE_DIFF"
    [] OTHER -> "CONFIRM_REQUIRED"
Severity == <<"AUTO_STAGE", "REVIEWABLE_DIFF", "CONFIRM_REQUIRED">>
MostRestrictive(rp) ==
  Severity[CHOOSE i \in 1..3 : /\ \E ch \in rp.changes : ClassifyPatch(ch) = Severity[i]
                               /\ \A ch \in rp.changes : \E j \in 1..i : ClassifyPatch(ch) = Severity[j]]

ComputePropose(rp, base, artifact) ==
  /\ rp.confirmation # "PROHIBITED"
  /\ SchemaGate(rp)
  /\ base = artifact                        \* the fingerprint
  /\ rp.ownership = "managed"
  /\ CapabilityGate(rp) /\ PolicyGate(rp, artifact)

Union(s, t) == [enable |-> s.enable \cup t.enable, disable |-> s.disable \cup t.disable]
BuildHostActivations(rp) ==
  LET of(h) == {ch \in rp.changes : ch.target = "Activation" /\ h \in ch.hosts} IN
  [h \in {h \in Hosts : of(h) # {}} |->
     [enable  |-> UNION {ch.select.enable  : ch \in of(h)},
      disable |-> UNION {ch.select.disable : ch \in of(h)}]]

-----------------------------------------------------------------------------
(* Commands *)

StagingInit ==
  /\ DesiredInit
  /\ observed = [h \in Hosts |-> Observations]
  /\ current = [h \in Hosts |-> NoGeneration] /\ pending = [h \in Hosts |-> NoGeneration]
  /\ report = [p \in Procs |-> None]
  /\ job = [p \in Procs |-> NoJob] /\ commands = 0 /\ edits = 0

Idle(p) == job[p].step = "idle"
Begin(p, j) == /\ commands < MaxCommands /\ commands' = commands + 1
               /\ job' = [job EXCEPT ![p] = j]
Continue(p, j) == job' = [job EXCEPT ![p] = j] /\ UNCHANGED commands

\* omca_query, or the screen's refresh.
ReadReport(p) ==
  /\ Idle(p) /\ p \notin Clis /\ commands < MaxCommands /\ report[p] # Report
  /\ report' = [report EXCEPT ![p] = Report]
  /\ UNCHANGED <<desiredVars, observed, current, pending, job, commands, edits>>

ComputeStage(p, rp) ==
  /\ p \in Agents /\ Idle(p) /\ report[p] # None
  /\ ComputePropose(rp, report[p], Report) /\ MostRestrictive(rp) = "AUTO_STAGE"
  /\ Begin(p, [NoJob EXCEPT !.step = "compose", !.asks = BuildHostActivations(rp)])
  /\ UNCHANGED <<desiredVars, observed, current, pending, report, edits>>

\* The first asset of the screen's report that is available and not active.
Activatable(p, h) ==
  SelectInSeq(AssetOrder, LAMBDA a : /\ a \in DOMAIN report[p].desired[h] /\ a \in Selectable
                                     /\ report[p].desired[h][a].intent = "AVAILABLE"
                                     /\ ~report[p].desired[h][a].active)
StageCandidate(p, h) ==
  /\ p \in Screens /\ Idle(p) /\ report[p] # None /\ Activatable(p, h) # 0
  /\ Begin(p, [NoJob EXCEPT !.step = "compose", !.host = h,
                !.asks = [x \in {h} |-> [NoSelection EXCEPT !.enable = {AssetOrder[Activatable(p, h)]}]]])
  /\ UNCHANGED <<desiredVars, observed, current, pending, report, edits>>

\* Reads every file anew and merges what is asked into the host's selection.
MergeHostActivation(act, asks) ==
  [act EXCEPT !.hosts = [h \in Hosts |-> IF h \in DOMAIN asks THEN Union(@[h], asks[h]) ELSE @[h]]]
ComposeStage(p) ==
  /\ job[p].step = "compose" /\ Readable
  /\ Continue(p, [job[p] EXCEPT !.step = "persist",
        !.before = IF job[p].host = None THEN NoGeneration ELSE current[job[p].host],
        !.comp = [Composed EXCEPT !.activation = MergeHostActivation(activation, job[p].asks)]])
  /\ UNCHANGED <<desiredVars, observed, current, pending, report, edits>>

PersistActivation(p) ==
  /\ job[p].step = "persist"
  /\ activation' = job[p].comp.activation
  /\ Continue(p, [job[p] EXCEPT !.step = "compile"])
  /\ UNCHANGED <<config, exceptions, selection, now, observed, current, pending, report, edits>>

\* A screen goes on to show its review; an agent is done.
CompilePending(p) ==
  /\ job[p].step = "compile"
  /\ LET g == Compile(job[p].comp, DOMAIN job[p].asks) IN
     /\ pending' = [h \in Hosts |-> IF h \in g.hosts THEN g ELSE pending[h]]
     /\ Continue(p, IF p \in Screens THEN [job[p] EXCEPT !.step = "review", !.gen = g] ELSE NoJob)
  /\ UNCHANGED <<desiredVars, observed, current, report, edits>>

\* One key approves the whole change set the screen shows.
ApproveAll(p) ==
  /\ job[p].step = "review"
  /\ Continue(p, [job[p] EXCEPT !.step = "fresh",
        !.confirmed = DiffProposedChanges(job[p].before, job[p].gen, job[p].host)])
  /\ UNCHANGED <<desiredVars, observed, current, pending, report, edits>>

RunActivate(p, h, confirmed) ==
  /\ p \in Clis /\ Idle(p) /\ pending[h] # NoGeneration
  /\ LET changes == DiffProposedChanges(current[h], pending[h], h) IN
     /\ confirmed \subseteq changes /\ RequireConfirmation(changes, confirmed)
     /\ Begin(p, [NoJob EXCEPT !.step = "fresh", !.host = h, !.before = current[h],
                               !.gen = pending[h], !.confirmed = confirmed])
  /\ UNCHANGED <<desiredVars, observed, current, pending, report, edits>>

ComposeFresh(p) ==
  /\ job[p].step = "fresh" /\ Readable
  /\ Continue(p, [job[p] EXCEPT !.step = "switch", !.comp = Composed,
                                !.fresh = Compile(Composed, job[p].gen.hosts)])
  /\ UNCHANGED <<desiredVars, observed, current, pending, report, edits>>

\* Under the host's lock: pending as it is now, against what was just recomposed.
DigestOfTrees(g) == [h \in g.hosts |-> g.sources[h].tree]  \* mutant: observed files only
SourceDigestOf(g) == g.sources
Activate(p) ==
  LET h == job[p].host IN
  /\ job[p].step = "switch"
  /\ pending[h] # NoGeneration /\ SourceDigestOf(pending[h]) = SourceDigestOf(job[p].fresh)
  /\ current' = [current EXCEPT ![h] = pending[h]]
  /\ pending' = [pending EXCEPT ![h] = NoGeneration]
  /\ Continue(p, NoJob)
  /\ UNCHANGED <<desiredVars, observed, report, edits>>

\* A host that is not installed, a composition or a write that fails, a digest
\* that differs, a review that is dismissed, a process that is killed.
Abandon(p) ==
  /\ ~Idle(p) /\ Continue(p, NoJob)
  /\ UNCHANGED <<desiredVars, observed, current, pending, report, edits>>

EditRepository ==
  /\ \E h \in Hosts, s \in SUBSET Observations : s # observed[h] /\ observed' = [observed EXCEPT ![h] = s]
  /\ UNCHANGED desiredVars
EditFiles ==
  /\ edits < MaxEdits /\ edits' = edits + 1
  /\ EditRepository \/ (UNCHANGED observed /\ (EditConfig \/ EditExceptions \/ PersistSelection \/ WriteActivation))
  /\ UNCHANGED <<current, pending, report, job, commands>>
TimePasses == Tick /\ UNCHANGED <<observed, current, pending, report, job, commands, edits>>

CommandStep(p) ==
  \/ ReadReport(p) \/ (\E rp \in Proposals : ComputeStage(p, rp))
  \/ \E h \in Hosts : StageCandidate(p, h)
  \/ ComposeStage(p) \/ PersistActivation(p) \/ CompilePending(p) \/ ApproveAll(p)
  \/ \E h \in Hosts : \E confirmed \in SUBSET (IncludedSources(pending[h], h)) : RunActivate(p, h, confirmed)
  \/ ComposeFresh(p) \/ Activate(p) \/ Abandon(p)
StagingNext == (\E p \in Procs : CommandStep(p)) \/ EditFiles \/ TimePasses
StagingSpec == StagingInit /\ [][StagingNext]_stagingVars

-----------------------------------------------------------------------------
(* Properties *)

Reviewed(p) == job[p].gen = pending[job[p].host] /\ job[p].before = current[job[p].host]
Switches(p) == job[p].step = "switch" /\ current' # current /\ job'[p] = NoJob
Level(h, v) == SelectInSeq(SandboxValues[h], LAMBDA x : x = v)
SandboxOf(g, h) == IF h \in g.hosts THEN g.sources[h].sandbox.value ELSE SandboxValues[h][1]

\* A profile that contradicts itself: the asset is left to nobody.
Contradicted(c, a, h) == \E q \in Range(c.profiles) : Ambiguous(IntentsOf(q, a, h))
Running(g, h) == LET r == g.sources[h].assets IN {a \in DOMAIN r : r[a].active}

\* However long ago a generation was staged, and whatever profiles, exceptions
\* and selections have become since, what is switched to activates nothing that
\* the profiles read for this activation forbid, leaves out nothing they
\* require, and has no sandbox value they deny (runtime.Activate's comparison
\* of source digests, over exceptions that expire in between).
ActivatedWithinPolicy ==
  [][ \A p \in Procs : Switches(p) =>
        LET c == job[p].comp
            h == job[p].host
            on == Running(current'[h], h)
        IN /\ \A a \in on : ~Forbidden(c, a, h)
           /\ \A a \in Assets : Imposed(c, a, h) /\ ~Forbidden(c, a, h) /\ ~Contradicted(c, a, h)
                                 => a \in on
           /\ (\E q \in Range(c.profiles) : q.sandbox.intent = "DENIED") =>
                SandboxOf(current'[h], h) = SandboxValues[h][1] ]_stagingVars

\* What an agent stages alone never brings up an MCP server the files would not
\* have brought up anyhow, on any host: the classification sees every change of
\* a proposal, and taking a disable back is not one of them
\* (mcp.classifyChange, mergeHostActivation).
AgentEnablesNoServer ==
  [][ \A p \in Agents : job[p].step = "compose" /\ job'[p].step = "persist" =>
        \A h \in Hosts : {a \in ActiveAssets(job'[p].comp, h) : a.kind = "mcpServer"}
                            \subseteq ActiveAssets(Composed, h) ]_stagingVars

\* A staging that goes through has the asset it was asked to enable, unless a
\* profile denies it (mcp.CompileFunc: "with hostActivations merged on top";
\* tui.stageAssetActivation: "additionally enables").  The code does not keep
\* it: a disable of the asset staged earlier stays in the merged selection.
StagedTakesEffect ==
  [][ \A p \in Procs : job[p].step = "compile" /\ pending' # pending =>
        \A h \in DOMAIN job[p].asks : \A a \in job[p].asks[h].enable \ job[p].asks[h].disable :
           Speaks(job[p].comp, a, h, "DENIED") = {} =>
             a \in ActiveAssets(job[p].comp, h) ]_stagingVars

\* An activation that raises the sandbox value has the permission among what
\* was confirmed, even when nothing moved between review and switch
\* (docs/product/requirements.md: "Expand filesystem, network, approval, or
\* sandbox access | Always confirm").  The code does not keep it: the diff knows
\* the permission by name and not by value.
WideningConfirmed ==
  [][ \A p \in Procs : Switches(p) /\ Reviewed(p) =>
        LET h == job[p].host IN
        Level(h, SandboxOf(current'[h], h)) > Level(h, SandboxOf(current[h], h))
          => <<"permission", "sandbox">> \in job[p].confirmed ]_stagingVars
=============================================================================
