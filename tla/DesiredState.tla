---------------------------- MODULE DesiredState ----------------------------
(***************************************************************************)
(* The desired state of a worktree: which profiles bindings select, who of *)
(* several identities is meant, which exceptions still live (profiles),    *)
(* and what profiles, activation and exceptions decide together for every  *)
(* asset on a host (resolve) and for the sandbox permission (runtime).     *)
(***************************************************************************)
EXTENDS Integers, FiniteSets, SequencesExt

CONSTANTS
  Hosts,
  Assets,        \* records [kind, id]; kind is skill, mcpServer or instruction
  Configs,       \* what profile and binding directories may hold
  ExceptionDocs, \* sequences of exceptions the exception directories may hold
  Selections,    \* what identities.yaml may hold: sets of profile ids
  HandWritten,   \* activations a user may write by hand
  Here, Main,    \* path of the worktree and of its main checkout, as segments
  OtherCategories, \* the categories of profile ids OMCA does not know, sorted
  SandboxValues, \* [Hosts -> Seq(value)], the most conservative first
  MaxTime, None

ASSUME DesiredAssumption ==
  /\ OtherCategories \in Seq(STRING)
  /\ \A docs \in ExceptionDocs : \A i \in DOMAIN docs : docs[i].until \in Int
  /\ \A act \in HandWritten : act = [neutral |-> act.neutral, hosts |-> act.hosts]

VARIABLES
  config, exceptions, selection, activation, now

desiredVars == <<config, exceptions, selection, activation, now>>

Intents     == {"REQUIRED", "DENIED", "DEFAULT", "AVAILABLE"}
Selectable  == {a \in Assets : a.kind # "instruction"}
NoSelection == [enable |-> {}, disable |-> {}]
Activation  == [neutral : [enable : SUBSET Selectable, disable : SUBSET Selectable],
                hosts : [Hosts -> [enable : SUBSET Selectable, disable : SUBSET Selectable]]]
NoActivation == [neutral |-> NoSelection, hosts |-> [h \in Hosts |-> NoSelection]]

-----------------------------------------------------------------------------
(* Which profiles are in force. *)

\* A segment pattern is a name or "*"; "**" stands for any number of segments.
GlobMatch(pattern, segments) ==
  \E cut \in [0..Len(pattern) -> 0..Len(segments)] :
    /\ cut[0] = 0 /\ cut[Len(pattern)] = Len(segments)
    /\ \A i \in 1..Len(pattern) :
         \/ pattern[i] = "**" /\ cut[i-1] <= cut[i]
         \/ cut[i] = cut[i-1] + 1 /\ pattern[i] \in {"*", segments[cut[i]]}

\* The worktree itself or, failing that, its main checkout.
MatchesBinding(b) ==
  /\ GlobMatch(b.repository, Here) \/ (Main # <<>> /\ GlobMatch(b.repository, Main))
  /\ b.paths = {} \/ \E p \in b.paths : GlobMatch(p, <<>>)

MatchedProfileIDs(bindings) == UNION {b.profiles : b \in {b \in ToSet(bindings) : MatchesBinding(b)}}

\* Profiles of other categories count as narrower than a task's.
CategoryOrder == <<"personal", "company", "team", "project", "task">> \o OtherCategories
OfCategory(ids, cat) == {id \in ids : id.category = cat}

\* What one category contributes: its one candidate, or the selected one of many.
Identity(ids, sel, cat) == LET c == OfCategory(ids, cat) IN
                           IF Cardinality(c) = 1 THEN c ELSE c \cap sel
Composable(ids, sel) ==
  \A i \in 1..Len(CategoryOrder) :
    LET cat == CategoryOrder[i] IN
    OfCategory(ids, cat) # {} => Identity(ids, sel, cat) # {}

\* The rank of a category -> its profile, the broadest first; that of what is
\* composed, too.
FinalProfileIDs(ids, sel) ==
  LET of(i) == Identity(ids, sel, CategoryOrder[i]) IN
  [i \in {i \in DOMAIN CategoryOrder : of(i) # {}} |-> CHOOSE id \in of(i) : TRUE]

\* Of two documents with one id the later counts; an id without one is dropped.
DocumentOf(docs, id) == SelectLastInSeq(docs, LAMBDA d : d.id = id)
SelectProfiles(docs, ids) ==
  [i \in {i \in DOMAIN ids : DocumentOf(docs, ids[i]) # 0} |-> docs[DocumentOf(docs, ids[i])]]
InForce == [cfg \in Configs |-> [sel \in Selections |->
              SelectProfiles(cfg.profiles, FinalProfileIDs(MatchedProfileIDs(cfg.bindings), sel))]]

LiveExceptions(docs, t) == Restrict(docs, {i \in DOMAIN docs : t < docs[i].until})

\* profiles.Compose; a composition is what one reading of the files gave.
Unanswered == {x \in Configs \X Selections : ~Composable(MatchedProfileIDs(x[1].bindings), x[2])}
ComposeFails(cfg, sel) == <<cfg, sel>> \in Unanswered
Compose(cfg, sel, act, docs, t) ==
  [profiles   |-> InForce[cfg][sel],
   activation |-> act, exceptions |-> LiveExceptions(docs, t), now |-> t]

-----------------------------------------------------------------------------
(* What a composition c decides for asset a on host h. *)

IntentsOf(p, a, h) ==
  {r.intent : r \in {r \in p.refs : r.asset = a /\ (r.hosts = {} \/ h \in r.hosts)}}

Ambiguous(s) == {"DENIED", "REQUIRED"} \subseteq s \/ s = {"DEFAULT", "AVAILABLE"}
ReduceGroup(s) ==
  IF "DENIED" \in s THEN "DENIED" ELSE IF "REQUIRED" \in s THEN "REQUIRED" ELSE CHOOSE i \in s : TRUE

Scoping(c, a, h, intent) ==
  {p.id : p \in {p \in Range(c.profiles) : IntentsOf(p, a, h) # {} /\ ReduceGroup(IntentsOf(p, a, h)) = intent}}

\* The exceptions that lift what these profiles say, of which the first counts.
Covering(c, a, scopes) ==
  {i \in DOMAIN c.exceptions : LET e == c.exceptions[i] IN
                               e.id = a.id /\ e.scope \in scopes /\ c.now < e.until}
Excepted(c, a, scopes) == Covering(c, a, scopes) # {}
Lifting(c, a, scopes) == c.exceptions[Min(Covering(c, a, scopes))].scope

Conflicting(c, a, h) ==
  \/ \E p \in Range(c.profiles) : Ambiguous(IntentsOf(p, a, h))
  \/ LET d == Scoping(c, a, h, "DENIED") r == Scoping(c, a, h, "REQUIRED") IN
     d # {} /\ r # {} /\ ~Excepted(c, a, d) /\ ~Excepted(c, a, r)

\* The last, most specific, profile that speaks of a.
Decision(active, intent, by) == [active |-> active, intent |-> intent, by |-> by]
SoftBaseline(c, a, h) ==
  LET last == Max({k \in DOMAIN c.profiles : IntentsOf(c.profiles[k], a, h) # {}})
      i    == ReduceGroup(IntentsOf(c.profiles[last], a, h))
  IN Decision(i = "DEFAULT", i, <<"profile">>)

Mentioned(c, a, h) == \E p \in Range(c.profiles) : IntentsOf(p, a, h) # {}

Baseline(c, a, h) ==
  LET d == Scoping(c, a, h, "DENIED")
      r == Scoping(c, a, h, "REQUIRED")
  IN CASE d # {} /\ r # {} /\ Excepted(c, a, d) ->
            Decision(TRUE, "REQUIRED", <<"excepted", Lifting(c, a, d)>>)
       [] d # {} /\ r # {} /\ ~Excepted(c, a, d) ->
            Decision(FALSE, "DENIED", <<"excepted", Lifting(c, a, r)>>)
       [] d # {} /\ r = {} -> Decision(FALSE, "DENIED", <<"profile">>)
       [] d = {} /\ r # {} -> Decision(TRUE, "REQUIRED", <<"profile">>)
       [] OTHER -> IF Mentioned(c, a, h) THEN SoftBaseline(c, a, h)
                   ELSE Decision(FALSE, "none", <<"no entry">>)

\* One layer of the activation: its enables, then its disables.
EnableUnlessExcepted(c, a, h, s, layer) ==              \* mutant: exception before intent
  IF s.intent = "DENIED" \/ Excepted(c, a, {p.id : p \in Range(c.profiles)}) THEN s
  ELSE [s EXCEPT !.active = TRUE]
Enable(c, a, h, s, layer) ==
  CASE s.intent = "DENIED" /\ Excepted(c, a, Scoping(c, a, h, "DENIED")) ->
         [s EXCEPT !.active = TRUE, !.by = <<layer, Lifting(c, a, Scoping(c, a, h, "DENIED"))>>]
    [] s.intent # "DENIED" /\ ~s.active -> [s EXCEPT !.active = TRUE, !.by = <<layer>>]
    [] OTHER -> s
DisableAlways(c, a, h, s, layer) == [s EXCEPT !.active = FALSE]   \* mutant: no REQUIRED
Disable(c, a, h, s, layer) ==
  CASE s.intent = "REQUIRED" /\ Excepted(c, a, Scoping(c, a, h, "REQUIRED")) ->
         [s EXCEPT !.active = FALSE, !.by = <<layer, Lifting(c, a, Scoping(c, a, h, "REQUIRED"))>>]
    [] s.intent # "REQUIRED" /\ s.active -> [s EXCEPT !.active = FALSE, !.by = <<layer>>]
    [] OTHER -> s

ApplyLayer(c, a, h, s, sel, layer) ==
  LET on == IF a \in sel.enable THEN Enable(c, a, h, s, layer) ELSE s
  IN IF a \in sel.disable THEN Disable(c, a, h, on, layer) ELSE on

\* A host-neutral selection acts only where profiles speak of the asset.
ResolveOne(c, a, h) ==
  LET base    == Baseline(c, a, h)
      neutral == IF Mentioned(c, a, h)
                 THEN ApplyLayer(c, a, h, base, c.activation.neutral, "neutral") ELSE base
  IN ApplyLayer(c, a, h, neutral, c.activation.hosts[h], "host")

\* Every asset some profile names at all or the activation names for h.
Universe(c, h) ==
  LET selected(s) == s.enable \cup s.disable IN
  {r.asset : r \in UNION {p.refs : p \in Range(c.profiles)}}
    \cup selected(c.activation.neutral) \cup selected(c.activation.hosts[h])

Conflicts(c, h) == {a \in Universe(c, h) : Conflicting(c, a, h)}
Resolve(c, h) == [a \in Universe(c, h) \ Conflicts(c, h) |-> ResolveOne(c, a, h)]

ActiveAssets(c, h) == LET r == Resolve(c, h) IN {a \in DOMAIN r : r[a].active}

-----------------------------------------------------------------------------
(* The sandbox permission: no exceptions, no conflict, DENIED sticks. *)

NoPermission == [intent |-> "none", value |-> None]
\* The first denial, else the first requirement, else the last wish.
MergePermissions(profiles) ==
  LET asked == {i \in DOMAIN profiles : profiles[i].sandbox # NoPermission}
      saying(intent) == {i \in asked : profiles[i].sandbox.intent = intent}
  IN CASE asked = {}                -> NoPermission
       [] saying("DENIED") # {}     -> profiles[Min(saying("DENIED"))].sandbox
       [] saying("DENIED") = {} /\ saying("REQUIRED") # {} ->
            profiles[Min(saying("REQUIRED"))].sandbox
       [] OTHER                     -> profiles[Max(asked)].sandbox

\* The value compiled for h, and whether it comes from the profiles.
ResolveSandboxPermission(h, ref) ==
  LET honoured == ref.intent \in Intents \ {"DENIED"} /\ Contains(SandboxValues[h], ref.value)
  IN [value    |-> IF honoured THEN ref.value ELSE SandboxValues[h][1],
      included |-> honoured,
      by       |-> ref]

-----------------------------------------------------------------------------
(* The files change under the program: other tools, other hands, the clock. *)

DesiredInit ==
  /\ config \in Configs /\ exceptions \in ExceptionDocs /\ selection \in Selections
  /\ activation = NoActivation /\ now = 0

Tick == /\ now < MaxTime /\ now' = now + 1
        /\ UNCHANGED <<config, exceptions, selection, activation>>
EditConfig == /\ config' \in Configs \ {config}
              /\ UNCHANGED <<exceptions, selection, activation, now>>
EditExceptions == /\ exceptions' \in ExceptionDocs \ {exceptions}
                  /\ UNCHANGED <<config, selection, activation, now>>
PersistSelection == /\ selection' \in Selections \ {selection}
                    /\ UNCHANGED <<config, exceptions, activation, now>>
WriteActivation == /\ activation' \in HandWritten \ {activation}
                   /\ UNCHANGED <<config, exceptions, selection, now>>

DesiredNext == Tick \/ EditConfig \/ EditExceptions \/ PersistSelection \/ WriteActivation
DesiredSpec == DesiredInit /\ [][DesiredNext]_desiredVars

-----------------------------------------------------------------------------
(* Properties *)

Composed == Compose(config, selection, activation, exceptions, now)
Readable == ~ComposeFails(config, selection)

\* Who speaks, said without the steps of the algorithm: a profile in force
\* that has an entry for the asset with this intent on this host.
Speaks(c, a, h, intent) == {p.id : p \in {p \in Range(c.profiles) : intent \in IntentsOf(p, a, h)}}
Lifted(c, a, scopes) == \E e \in Range(c.exceptions) :
  e.id = a.id /\ e.scope \in scopes /\ c.now < e.until

\* Forbidden and Imposed: denied, or required, with nothing that lifts it.
Forbidden(c, a, h) == LET d == Speaks(c, a, h, "DENIED") IN d # {} /\ ~Lifted(c, a, d)
Imposed(c, a, h)   == LET r == Speaks(c, a, h, "REQUIRED") IN r # {} /\ ~Lifted(c, a, r)

\* Whatever order profiles come in, and whatever the activation selects for
\* this host or for all, what a profile denies stays off and what one requires
\* stays on, unless a live exception names a profile that says so; and nothing
\* runs on a host where no profile and no selection for that host asked for it
\* (resolve.Resolve's promises, Resolve's comment steps 3 and 4).
PolicyHolds ==
  Readable => \A h \in Hosts :
    LET c == Composed
        r == Resolve(c, h)
    IN /\ \A a \in DOMAIN r : /\ Forbidden(c, a, h) => ~r[a].active
                              /\ Imposed(c, a, h) /\ ~Forbidden(c, a, h) => r[a].active
       /\ \A a \in Universe(c, h) :
            Forbidden(c, a, h) /\ Imposed(c, a, h) => a \notin DOMAIN r
       /\ \A a \in DOMAIN r : r[a].active =>
            a \in c.activation.hosts[h].enable \/ Mentioned(c, a, h)

\* When time passes and nothing else happens, exceptions can only end: an
\* asset starts running by that alone only where a profile requires it and no
\* denial stands, and stops only where a profile denies it.
ExpiryOnlyTightens ==
  [][ now' # now /\ Readable =>
      \A h \in Hosts : LET c == Composed IN
        /\ \A a \in ActiveAssets(c', h) \ ActiveAssets(c, h) :
             Speaks(c, a, h, "REQUIRED") # {} /\ ~Forbidden(c', a, h)
        /\ \A a \in ActiveAssets(c, h) \ ActiveAssets(c', h) :
             Speaks(c, a, h, "DENIED") # {} ]_desiredVars
=============================================================================
