--------------------------- MODULE Staging_proofs ---------------------------
(***************************************************************************)
(* What the resolved state keeps, for any profiles, exceptions and         *)
(* selections, and what staging makes of it, for any processes, proposals  *)
(* and edits of files.                                                     *)
(*                                                                         *)
(* Of one composition (PolicyOf, ExpiryOf, DisablingOf) nothing is         *)
(* inductive: the four layers of ResolveOne are followed one by one.  The  *)
(* steps of staging need the invariant StagingInv: what a generation       *)
(* switched to was compiled from, and what an agent may ask for.           *)
(***************************************************************************)
EXTENDS Staging, FiniteSetTheorems, WellFoundedInduction, TLAPS

-----------------------------------------------------------------------------
(* Who speaks.                                                              *)

\* The algorithm's denials and requirements are those the profiles have, unless
\* one of them contradicts itself.
LEMMA Scoped ==
  ASSUME NEW c, NEW a, NEW h, ~Contradicted(c, a, h)
  PROVE  /\ Scoping(c, a, h, "DENIED") = Speaks(c, a, h, "DENIED")
         /\ Scoping(c, a, h, "REQUIRED") = Speaks(c, a, h, "REQUIRED")
<1>1. \A s : "DENIED" \in s <=> s # {} /\ ReduceGroup(s) = "DENIED"
  BY DEF ReduceGroup
<1>2. ASSUME NEW s, ~Ambiguous(s)
      PROVE  "REQUIRED" \in s <=> s # {} /\ ReduceGroup(s) = "REQUIRED"
  BY <1>2 DEF ReduceGroup, Ambiguous
<1>3. \A p \in Range(c.profiles) : ~Ambiguous(IntentsOf(p, a, h))
  BY DEF Contradicted
<1> QED
  BY <1>1, <1>2, <1>3 DEF Scoping, Speaks

LEMMA LiftedIsExcepted ==
  ASSUME NEW c, NEW a, NEW scopes
  PROVE  Lifted(c, a, scopes) <=> Excepted(c, a, scopes)
BY DEF Lifted, Excepted, Covering, Range

\* No profile with an entry: nobody denies or requires.
LEMMA Unmentioned ==
  ASSUME NEW c, NEW a, NEW h, ~Mentioned(c, a, h), NEW intent
  PROVE  Speaks(c, a, h, intent) = {} /\ ~Contradicted(c, a, h)
BY DEF Mentioned, Speaks, Contradicted, Ambiguous

\* What conflicts: a contradiction, or a denial and a requirement unlifted.
LEMMA Conflicted ==
  ASSUME NEW c, NEW a, NEW h
  PROVE  Conflicting(c, a, h) <=>
           Contradicted(c, a, h) \/ (Forbidden(c, a, h) /\ Imposed(c, a, h))
BY Scoped, LiftedIsExcepted DEF Conflicting, Contradicted, Forbidden, Imposed

-----------------------------------------------------------------------------
(* The layers of ResolveOne.                                                *)

IsDecision(d) == d = Decision(d.active, d.intent, d.by) /\ d.active \in BOOLEAN

\* What a layer makes of an intent and a state.
Turned(active, intent, on, off, excepted) ==
  LET up == active \/ (on /\ (intent = "DENIED" => excepted))
  IN up /\ (off => intent = "REQUIRED" /\ ~excepted)

\* Whether the exceptions lift what the intent says.
Lifts(c, a, h, intent) == Excepted(c, a, Scoping(c, a, h, intent))

LEMMA LayerTurns ==
  ASSUME NEW c, NEW a, NEW h, NEW d, IsDecision(d), NEW sel, NEW layer
  PROVE  LET e == ApplyLayer(c, a, h, d, sel, layer) IN
         /\ IsDecision(e) /\ e.intent = d.intent
         /\ e.active = Turned(d.active, d.intent, a \in sel.enable, a \in sel.disable,
                              Lifts(c, a, h, d.intent))
<1> DEFINE on == IF a \in sel.enable THEN Enable(c, a, h, d, layer) ELSE d
<1>1. /\ IsDecision(on) /\ on.intent = d.intent
      /\ on.active = (d.active \/ (a \in sel.enable /\ (d.intent = "DENIED" => Lifts(c, a, h, d.intent))))
  BY DEF IsDecision, Decision, Enable, Lifts
<1> HIDE DEF on
<1> DEFINE off == IF a \in sel.disable THEN Disable(c, a, h, on, layer) ELSE on
<1>2. /\ IsDecision(off) /\ off.intent = on.intent
      /\ off.active = (on.active /\ (a \in sel.disable =>
                                       on.intent = "REQUIRED" /\ ~Lifts(c, a, h, on.intent)))
  BY <1>1 DEF IsDecision, Decision, Disable, Lifts
<1>3. ApplyLayer(c, a, h, d, sel, layer) = off
  BY DEF ApplyLayer, on
<1> HIDE DEF off
<1> QED
  BY <1>1, <1>2, <1>3 DEF Turned

\* The state before the layers, by who denies and who requires.
LEMMA BaselineBy ==
  ASSUME NEW c, NEW a, NEW h, ~Conflicting(c, a, h)
  PROVE  LET b == Baseline(c, a, h)
             d == Speaks(c, a, h, "DENIED")
             r == Speaks(c, a, h, "REQUIRED")
         IN /\ IsDecision(b)
            /\ d # {} /\ (r = {} \/ ~Lifted(c, a, d)) => b.intent = "DENIED" /\ ~b.active
            /\ r # {} /\ (d = {} \/ Lifted(c, a, d)) => b.intent = "REQUIRED" /\ b.active
            /\ d = {} /\ r = {} =>
                 b = IF Mentioned(c, a, h) THEN SoftBaseline(c, a, h)
                     ELSE Decision(FALSE, "none", <<"no entry">>)
<1> DEFINE b == Baseline(c, a, h)
           d == Speaks(c, a, h, "DENIED")
           r == Speaks(c, a, h, "REQUIRED")
           ex == Excepted(c, a, d)
           soft == IF Mentioned(c, a, h) THEN SoftBaseline(c, a, h)
                   ELSE Decision(FALSE, "none", <<"no entry">>)
<1>1. /\ Scoping(c, a, h, "DENIED") = d /\ Scoping(c, a, h, "REQUIRED") = r
      /\ ex <=> Lifted(c, a, d)
  BY Scoped, Conflicted, LiftedIsExcepted
<1>2. /\ d # {} /\ r # {} /\ ex => b = Decision(TRUE, "REQUIRED", <<"excepted", Lifting(c, a, d)>>)
      /\ d # {} /\ r # {} /\ ~ex => b = Decision(FALSE, "DENIED", <<"excepted", Lifting(c, a, r)>>)
      /\ d # {} /\ r = {} => b = Decision(FALSE, "DENIED", <<"profile">>)
      /\ d = {} /\ r # {} => b = Decision(TRUE, "REQUIRED", <<"profile">>)
      /\ d = {} /\ r = {} => b = soft
  <2> HIDE DEF d, r, soft, ex
  <2>1. b = CASE d # {} /\ r # {} /\ ex  -> Decision(TRUE, "REQUIRED", <<"excepted", Lifting(c, a, d)>>)
              [] d # {} /\ r # {} /\ ~ex -> Decision(FALSE, "DENIED", <<"excepted", Lifting(c, a, r)>>)
              [] d # {} /\ r = {}        -> Decision(FALSE, "DENIED", <<"profile">>)
              [] d = {} /\ r # {}        -> Decision(TRUE, "REQUIRED", <<"profile">>)
              [] OTHER                   -> soft
    BY <1>1 DEF Baseline, ex, soft
  <2> QED
    BY <2>1
<1>3. IsDecision(soft)
  BY DEF SoftBaseline, Decision, IsDecision
<1> HIDE DEF d, r, soft, ex, b
<1>4. \A by : b = Decision(TRUE, "REQUIRED", by) => IsDecision(b) /\ b.intent = "REQUIRED" /\ b.active
  BY DEF Decision, IsDecision
<1>5. \A by : b = Decision(FALSE, "DENIED", by) => IsDecision(b) /\ b.intent = "DENIED" /\ ~b.active
  BY DEF Decision, IsDecision
<1>6. d = {} /\ r = {} => IsDecision(b) /\ b = soft
  BY <1>2, <1>3
<1> QED
  BY <1>1, <1>2, <1>4, <1>5, <1>6 DEF b, d, r, soft

\* What ResolveOne makes of the base, the neutral and then the host's selection.
Layered(c, a, h, b) ==
  LET s(sel, active) == Turned(active, b.intent, a \in sel.enable, a \in sel.disable,
                               Lifts(c, a, h, b.intent))
      neutral == IF Mentioned(c, a, h) THEN s(c.activation.neutral, b.active) ELSE b.active
  IN s(c.activation.hosts[h], neutral)

LEMMA ResolvedActive ==
  ASSUME NEW c, NEW a, NEW h, ~Conflicting(c, a, h)
  PROVE  /\ ResolveOne(c, a, h).active \in BOOLEAN
         /\ ResolveOne(c, a, h).active = Layered(c, a, h, Baseline(c, a, h))
         /\ ResolveOne(c, a, h).intent = Baseline(c, a, h).intent
<1> DEFINE b == Baseline(c, a, h)
           n == IF Mentioned(c, a, h) THEN ApplyLayer(c, a, h, b, c.activation.neutral, "neutral") ELSE b
           o == ApplyLayer(c, a, h, n, c.activation.hosts[h], "host")
<1>1. IsDecision(b)
  BY BaselineBy
<1>2. ResolveOne(c, a, h) = o
  BY DEF ResolveOne
<1> HIDE DEF b
<1>3. /\ IsDecision(n) /\ n.intent = b.intent
      /\ n.active = IF Mentioned(c, a, h)
                    THEN Turned(b.active, b.intent, a \in c.activation.neutral.enable,
                                a \in c.activation.neutral.disable, Lifts(c, a, h, b.intent))
                    ELSE b.active
  BY <1>1, LayerTurns
<1> HIDE DEF n
<1>4. /\ IsDecision(o) /\ o.intent = n.intent
      /\ o.active = Turned(n.active, n.intent, a \in c.activation.hosts[h].enable,
                           a \in c.activation.hosts[h].disable, Lifts(c, a, h, n.intent))
  BY <1>3, LayerTurns
<1> HIDE DEF o
<1> QED
  BY <1>2, <1>3, <1>4 DEF IsDecision, Layered, b

\* Nothing lifts what nobody says.
LEMMA NothingToLift ==
  ASSUME NEW c, NEW a, NEW h, NEW intent, Scoping(c, a, h, intent) = {}
  PROVE  ~Lifts(c, a, h, intent)
BY DEF Lifts, Excepted, Covering

-----------------------------------------------------------------------------
(* Policy                                                                   *)

\* The three promises of PolicyHolds, of any composition whatever.
LEMMA PolicyOf ==
  ASSUME NEW c, NEW a, NEW h, ~Conflicting(c, a, h)
  PROVE  /\ Forbidden(c, a, h) => ~ResolveOne(c, a, h).active
         /\ Imposed(c, a, h) /\ ~Forbidden(c, a, h) => ResolveOne(c, a, h).active
         /\ ResolveOne(c, a, h).active => a \in c.activation.hosts[h].enable \/ Mentioned(c, a, h)
<1> DEFINE b == Baseline(c, a, h)
           d == Speaks(c, a, h, "DENIED")
           r == Speaks(c, a, h, "REQUIRED")
<1>1. Scoping(c, a, h, "DENIED") = d /\ Scoping(c, a, h, "REQUIRED") = r
  BY Scoped, Conflicted
<1>2. Lifts(c, a, h, "DENIED") <=> Lifted(c, a, d)
  BY <1>1, LiftedIsExcepted DEF Lifts
<1>3. Lifts(c, a, h, "REQUIRED") <=> Lifted(c, a, r)
  BY <1>1, LiftedIsExcepted DEF Lifts
<1>4. ~(Forbidden(c, a, h) /\ Imposed(c, a, h))
  BY Conflicted
<1>5. ASSUME Forbidden(c, a, h) PROVE ~ResolveOne(c, a, h).active
  <2>1. d # {} /\ ~Lifted(c, a, d)
    BY <1>5 DEF Forbidden
  <2>2. b.intent = "DENIED" /\ ~b.active
    BY <2>1, BaselineBy
  <2> HIDE DEF b, d
  <2>3. ~Layered(c, a, h, b)
    BY <1>2, <2>1, <2>2 DEF Layered, Turned
  <2> QED
    BY <2>3, ResolvedActive DEF b
<1>6. ASSUME Imposed(c, a, h), ~Forbidden(c, a, h) PROVE ResolveOne(c, a, h).active
  <2>1. r # {} /\ ~Lifted(c, a, r) /\ (d = {} \/ Lifted(c, a, d))
    BY <1>6 DEF Forbidden, Imposed
  <2>2. b.intent = "REQUIRED" /\ b.active
    BY <2>1, BaselineBy
  <2> HIDE DEF b, d, r
  <2>3. Layered(c, a, h, b)
    BY <1>3, <2>1, <2>2 DEF Layered, Turned
  <2> QED
    BY <2>3, ResolvedActive DEF b
<1>7. ASSUME ~Mentioned(c, a, h), a \notin c.activation.hosts[h].enable
      PROVE  ~ResolveOne(c, a, h).active
  <2>1. d = {} /\ r = {}
    BY <1>7, Unmentioned
  <2>2. b = Decision(FALSE, "none", <<"no entry">>)
    BY <1>7, <2>1, BaselineBy
  <2> HIDE DEF b
  <2>3. ~b.active
    BY <2>2 DEF Decision
  <2>4. ~Layered(c, a, h, b)
    BY <1>7, <2>3 DEF Layered, Turned
  <2> QED
    BY <2>4, ResolvedActive DEF b
<1> QED
  BY <1>5, <1>6, <1>7

LEMMA Resolved ==
  ASSUME NEW c, NEW h
  PROVE  /\ DOMAIN Resolve(c, h) = {a \in Universe(c, h) : ~Conflicting(c, a, h)}
         /\ \A a \in DOMAIN Resolve(c, h) : Resolve(c, h)[a] = ResolveOne(c, a, h)
         /\ ActiveAssets(c, h) =
              {a \in Universe(c, h) : ~Conflicting(c, a, h) /\ ResolveOne(c, a, h).active}
<1>1. Universe(c, h) \ Conflicts(c, h) = {a \in Universe(c, h) : ~Conflicting(c, a, h)}
  BY DEF Conflicts
<1> QED
  BY <1>1 DEF Resolve, ActiveAssets

\* Whatever the files hold: what a profile denies stays off and what one
\* requires stays on, but for live exceptions; a denial and a requirement that
\* nothing lifts are decided for nobody; nothing is on that nobody asked for on
\* that host (resolve.Resolve).
THEOREM PolicyAlways == StagingSpec => []PolicyHolds
<1>1. PolicyHolds
  <2>1. ASSUME NEW h \in Hosts, NEW c
        PROVE  LET r == Resolve(c, h) IN
               /\ \A a \in DOMAIN r : /\ Forbidden(c, a, h) => ~r[a].active
                                      /\ Imposed(c, a, h) /\ ~Forbidden(c, a, h) => r[a].active
               /\ \A a \in Universe(c, h) :
                    Forbidden(c, a, h) /\ Imposed(c, a, h) => a \notin DOMAIN r
               /\ \A a \in DOMAIN r : r[a].active =>
                    a \in c.activation.hosts[h].enable \/ Mentioned(c, a, h)
    <3>1. /\ DOMAIN Resolve(c, h) = {a \in Universe(c, h) : ~Conflicting(c, a, h)}
          /\ \A a \in DOMAIN Resolve(c, h) : Resolve(c, h)[a] = ResolveOne(c, a, h)
      BY Resolved
    <3>2. \A a \in DOMAIN Resolve(c, h) :
            /\ Forbidden(c, a, h) => ~ResolveOne(c, a, h).active
            /\ Imposed(c, a, h) /\ ~Forbidden(c, a, h) => ResolveOne(c, a, h).active
            /\ ResolveOne(c, a, h).active => a \in c.activation.hosts[h].enable \/ Mentioned(c, a, h)
      BY <3>1, PolicyOf
    <3>3. \A a : Forbidden(c, a, h) /\ Imposed(c, a, h) => Conflicting(c, a, h)
      BY Conflicted
    <3> QED
      BY <3>1, <3>2, <3>3
  <2> QED
    BY <2>1 DEF PolicyHolds
<1> QED
  BY <1>1, PTL DEF StagingSpec

-----------------------------------------------------------------------------
(* Expiry                                                                   *)

\* What two compositions say alike when only exceptions end between them.
SameButExpired(c, e) ==
  /\ e.profiles = c.profiles /\ e.activation = c.activation
  /\ \A a, scopes : Lifted(e, a, scopes) => Lifted(c, a, scopes)

LEMMA SameProfiles ==
  ASSUME NEW c, NEW e, e.profiles = c.profiles, NEW a, NEW h
  PROVE  /\ \A intent : Speaks(e, a, h, intent) = Speaks(c, a, h, intent)
         /\ \A intent : Scoping(e, a, h, intent) = Scoping(c, a, h, intent)
         /\ Mentioned(e, a, h) <=> Mentioned(c, a, h)
         /\ SoftBaseline(e, a, h) = SoftBaseline(c, a, h)
         /\ Contradicted(e, a, h) <=> Contradicted(c, a, h)
<1>1. \A intent : Speaks(e, a, h, intent) = Speaks(c, a, h, intent)
  BY DEF Speaks
<1>2. \A intent : Scoping(e, a, h, intent) = Scoping(c, a, h, intent)
  BY DEF Scoping
<1>3. Mentioned(e, a, h) <=> Mentioned(c, a, h)
  BY DEF Mentioned
<1>4. SoftBaseline(e, a, h) = SoftBaseline(c, a, h)
  BY DEF SoftBaseline
<1>5. Contradicted(e, a, h) <=> Contradicted(c, a, h)
  BY DEF Contradicted
<1> QED
  BY <1>1, <1>2, <1>3, <1>4, <1>5

\* An asset decided after the exceptions ended was decided before, from the
\* same base unless one of the ended exceptions made it.
LEMMA ExpiryKeeps ==
  ASSUME NEW c, NEW e, SameButExpired(c, e), NEW a, NEW h, ~Conflicting(e, a, h)
  PROVE  ~Conflicting(c, a, h)
BY SameProfiles, Conflicted DEF SameButExpired, Forbidden, Imposed

LEMMA ExpiryOf ==
  ASSUME NEW c, NEW e, SameButExpired(c, e), NEW a, NEW h, ~Conflicting(e, a, h)
  PROVE  /\ ResolveOne(e, a, h).active /\ ~ResolveOne(c, a, h).active
              => Speaks(c, a, h, "REQUIRED") # {}
         /\ ResolveOne(c, a, h).active /\ ~ResolveOne(e, a, h).active
              => Speaks(c, a, h, "DENIED") # {}
<1> DEFINE bc == Baseline(c, a, h)
           be == Baseline(e, a, h)
           d  == Speaks(c, a, h, "DENIED")
           r  == Speaks(c, a, h, "REQUIRED")
<1>1. ~Conflicting(c, a, h)
  BY ExpiryKeeps
<1>2. /\ Speaks(e, a, h, "DENIED") = d /\ Speaks(e, a, h, "REQUIRED") = r
      /\ Mentioned(e, a, h) <=> Mentioned(c, a, h)
      /\ SoftBaseline(e, a, h) = SoftBaseline(c, a, h)
      /\ e.activation = c.activation
      /\ Lifted(e, a, d) => Lifted(c, a, d)
      /\ Lifted(e, a, r) => Lifted(c, a, r)
  BY SameProfiles DEF SameButExpired
<1>3. /\ Lifts(c, a, h, "DENIED") <=> Lifted(c, a, d)
      /\ Lifts(c, a, h, "REQUIRED") <=> Lifted(c, a, r)
  BY <1>1, Scoped, Conflicted, LiftedIsExcepted DEF Lifts
<1>4. /\ Lifts(e, a, h, "DENIED") <=> Lifted(e, a, d)
      /\ Lifts(e, a, h, "REQUIRED") <=> Lifted(e, a, r)
  BY <1>2, Scoped, Conflicted, LiftedIsExcepted DEF Lifts
<1>5. /\ ResolveOne(c, a, h).active = Layered(c, a, h, bc)
      /\ ResolveOne(e, a, h).active = Layered(e, a, h, be)
  BY <1>1, ResolvedActive
<1>6. /\ IsDecision(bc) /\ IsDecision(be)
      /\ d # {} /\ (r = {} \/ ~Lifted(c, a, d)) => bc.intent = "DENIED" /\ ~bc.active
      /\ r # {} /\ (d = {} \/ Lifted(c, a, d)) => bc.intent = "REQUIRED" /\ bc.active
      /\ d # {} /\ (r = {} \/ ~Lifted(e, a, d)) => be.intent = "DENIED" /\ ~be.active
      /\ r # {} /\ (d = {} \/ Lifted(e, a, d)) => be.intent = "REQUIRED" /\ be.active
  BY <1>1, <1>2, BaselineBy
<1>7. d = {} /\ r = {} => be = bc
  BY <1>1, <1>2, BaselineBy
<1> HIDE DEF bc, be, d, r
<1>8. ASSUME d = {}, r = {}
      PROVE  Layered(e, a, h, be) = Layered(c, a, h, bc)
  <2>1. bc.intent \in {"DENIED", "REQUIRED"} =>
          ~Lifts(c, a, h, bc.intent) /\ ~Lifts(e, a, h, bc.intent)
    BY <1>8, <1>3, <1>4 DEF Lifted
  <2> QED
    BY <1>2, <1>7, <1>8, <2>1 DEF Layered, Turned
<1>9. ASSUME d = {}, r # {}, Layered(c, a, h, bc)
      PROVE  Layered(e, a, h, be)
  BY <1>2, <1>3, <1>4, <1>6, <1>9 DEF Layered, Turned
<1>10. ASSUME r = {}, d # {}, Layered(e, a, h, be)
      PROVE  Layered(c, a, h, bc)
  BY <1>2, <1>3, <1>4, <1>6, <1>10 DEF Layered, Turned
<1> QED
  BY <1>5, <1>8, <1>9, <1>10 DEF d, r

\* An exception names its end, and the clock only counts up.
Dated == now \in Nat /\ exceptions \in ExceptionDocs

LEMMA DatedAlways == StagingSpec => []Dated
<1>1. StagingInit => Dated
  BY DEF StagingInit, DesiredInit, Dated
<1>2. ASSUME Dated, [StagingNext]_stagingVars
      PROVE  Dated'
  <2>1. CASE \E p \in Procs : CommandStep(p)
    <3>1. UNCHANGED <<now, exceptions>>
      BY <2>1 DEF CommandStep, ReadReport, ComputeStage, StageCandidate, ComposeStage,
         PersistActivation, CompilePending, ApproveAll, RunActivate, ComposeFresh, Activate,
         Abandon, desiredVars
    <3> QED
      BY <1>2, <3>1 DEF Dated
  <2>2. CASE EditFiles
    BY <1>2, <2>2 DEF EditFiles, EditRepository, EditConfig, EditExceptions, PersistSelection,
       WriteActivation, desiredVars, Dated
  <2>3. CASE TimePasses
    BY <1>2, <2>3 DEF TimePasses, Tick, Dated
  <2>4. CASE UNCHANGED stagingVars
    BY <1>2, <2>4 DEF stagingVars, desiredVars, Dated
  <2> QED
    BY <1>2, <2>1, <2>2, <2>3, <2>4 DEF StagingNext
<1> QED
  BY <1>1, <1>2, PTL DEF StagingSpec

\* Only the clock moves the clock.
LEMMA ClockStep ==
  ASSUME StagingNext, now' # now
  PROVE  TimePasses
<1>1. (\E p \in Procs : CommandStep(p)) => now' = now
  BY DEF CommandStep, ReadReport, ComputeStage, StageCandidate, ComposeStage,
     PersistActivation, CompilePending, ApproveAll, RunActivate, ComposeFresh, Activate,
     Abandon, desiredVars
<1>2. EditFiles => now' = now
  BY DEF EditFiles, EditRepository, EditConfig, EditExceptions, PersistSelection,
     WriteActivation, desiredVars
<1> QED
  BY <1>1, <1>2 DEF StagingNext

LEMMA OnlyExpires ==
  ASSUME Dated, TimePasses
  PROVE  SameButExpired(Composed, Composed')
<1> DEFINE live(t) == Restrict(exceptions, {i \in DOMAIN exceptions : t < exceptions[i].until})
<1>1. /\ now' = now + 1 /\ exceptions' = exceptions /\ config' = config
      /\ selection' = selection /\ activation' = activation
  BY DEF TimePasses, Tick
<1>2. ASSUME NEW c, c = Composed, NEW e, e = Composed'
      PROVE  SameButExpired(c, e)
  <2>1. c = [profiles |-> InForce[config][selection], activation |-> activation,
             exceptions |-> live(now), now |-> now]
    BY <1>2 DEF Composed, Compose, LiveExceptions
  <2>2. e = [profiles |-> InForce[config][selection], activation |-> activation,
             exceptions |-> live(now + 1), now |-> now + 1]
    BY <1>1, <1>2 DEF Composed, Compose, LiveExceptions
  <2>3. \A t : DOMAIN live(t) = {i \in DOMAIN exceptions : t < exceptions[i].until}
    BY DEF Restrict
  <2>4. \A t : \A i \in DOMAIN live(t) : live(t)[i] = exceptions[i]
    BY DEF Restrict
  <2>5. ASSUME NEW a, NEW scopes, Lifted(e, a, scopes)
        PROVE  Lifted(c, a, scopes)
    <3> HIDE DEF live
    <3>1. PICK i \in DOMAIN live(now + 1) :
            LET x == live(now + 1)[i] IN
            x.id = a.id /\ x.scope \in scopes /\ now + 1 < x.until
      BY <2>2, <2>5 DEF Lifted, Range
    <3>2. i \in DOMAIN exceptions /\ live(now + 1)[i] = exceptions[i]
      BY <2>3, <2>4, <3>1
    <3>3. exceptions[i].until \in Int /\ now \in Int
      BY <3>2, DesiredAssumption DEF Dated
    <3>4. now < exceptions[i].until
      BY <3>1, <3>2, <3>3
    <3>5. i \in DOMAIN live(now) /\ live(now)[i] = exceptions[i]
      BY <2>3, <2>4, <3>2, <3>4
    <3> QED
      BY <2>1, <3>1, <3>2, <3>4, <3>5 DEF Lifted, Range
  <2> QED
    BY <2>1, <2>2, <2>5 DEF SameButExpired
<1> QED
  BY <1>2

\* Time alone starts only what a profile requires and none forbids any more, and
\* stops only what one denies (resolve.go's layers over exceptions that end).
THEOREM ExpiryAlways == StagingSpec => ExpiryOnlyTightens
<1>1. ASSUME Dated, [StagingNext]_stagingVars
      PROVE  [ now' # now /\ Readable =>
               \A h \in Hosts : LET c == Composed IN
                 /\ \A a \in ActiveAssets(c', h) \ ActiveAssets(c, h) :
                      Speaks(c, a, h, "REQUIRED") # {} /\ ~Forbidden(c', a, h)
                 /\ \A a \in ActiveAssets(c, h) \ ActiveAssets(c', h) :
                      Speaks(c, a, h, "DENIED") # {} ]_desiredVars
  <2> SUFFICES ASSUME now' # now, NEW h \in Hosts
               PROVE  LET c == Composed IN
                 /\ \A a \in ActiveAssets(c', h) \ ActiveAssets(c, h) :
                      Speaks(c, a, h, "REQUIRED") # {} /\ ~Forbidden(c', a, h)
                 /\ \A a \in ActiveAssets(c, h) \ ActiveAssets(c', h) :
                      Speaks(c, a, h, "DENIED") # {}
    OBVIOUS
  <2>1. TimePasses
    BY <1>1, ClockStep DEF stagingVars, desiredVars
  <2>2. SameButExpired(Composed, Composed')
    BY <1>1, <2>1, OnlyExpires
  <2>3. ASSUME NEW c, NEW e, SameButExpired(c, e)
        PROVE  /\ \A a \in ActiveAssets(e, h) \ ActiveAssets(c, h) :
                    Speaks(c, a, h, "REQUIRED") # {} /\ ~Forbidden(e, a, h)
               /\ \A a \in ActiveAssets(c, h) \ ActiveAssets(e, h) :
                    Speaks(c, a, h, "DENIED") # {}
    <3>1. /\ ActiveAssets(c, h) =
               {a \in Universe(c, h) : ~Conflicting(c, a, h) /\ ResolveOne(c, a, h).active}
          /\ ActiveAssets(e, h) =
               {a \in Universe(e, h) : ~Conflicting(e, a, h) /\ ResolveOne(e, a, h).active}
      BY Resolved
    <3>2. Universe(e, h) = Universe(c, h)
      BY <2>3 DEF SameButExpired, Universe
    <3>3. ASSUME NEW a \in ActiveAssets(e, h), a \notin ActiveAssets(c, h)
          PROVE  Speaks(c, a, h, "REQUIRED") # {} /\ ~Forbidden(e, a, h)
      BY <2>3, <3>1, <3>2, <3>3, ExpiryKeeps, ExpiryOf, PolicyOf
    <3>4. ASSUME NEW a \in ActiveAssets(c, h), a \notin ActiveAssets(e, h)
          PROVE  Speaks(c, a, h, "DENIED") # {}
      <4>1. CASE Conflicting(e, a, h)
        BY <2>3, <3>1, <3>4, <4>1, SameProfiles, Conflicted DEF SameButExpired, Forbidden
      <4>2. CASE ~Conflicting(e, a, h)
        BY <2>3, <3>1, <3>2, <3>4, <4>2, ExpiryOf
      <4> QED
        BY <4>1, <4>2
    <3> QED
      BY <3>3, <3>4
  <2> QED
    BY <2>2, <2>3
<1> QED
  BY <1>1, DatedAlways, PTL DEF StagingSpec, ExpiryOnlyTightens

-----------------------------------------------------------------------------
(* Staging: what is switched to was compiled from what was read for it.     *)

JobFields == {"step", "asks", "host", "comp", "gen", "before", "confirmed", "fresh"}
JobShape(j) == j = [f \in JobFields |-> j[f]]
ActivationShape(act) == act = [neutral |-> act.neutral, hosts |-> act.hosts]

AsksNoServer(asks) == \A h \in DOMAIN asks : \A a \in asks[h].enable : a.kind # "mcpServer"
CompiledFrom(g, c) ==
  /\ DOMAIN c.profiles \subseteq DOMAIN CategoryOrder
  /\ \A h \in DOMAIN g.sources :
       /\ g.sources[h].assets = Resolve(c, h)
       /\ g.sources[h].sandbox = ResolveSandboxPermission(h, MergePermissions(c.profiles))

JobInv(p, j) ==
  /\ JobShape(j)
  /\ j.step \in {"review", "fresh", "switch"} \/ (p \in Screens /\ j.step # "idle") => j.host \in Hosts
  /\ p \in Agents /\ j.step = "compose" => AsksNoServer(j.asks)
  /\ j.step = "persist" => ActivationShape(j.comp.activation)
  /\ j.step = "switch" => CompiledFrom(j.fresh, j.comp)
PendingInv(g, h) == g = NoGeneration \/ h \in g.hosts \cap DOMAIN g.sources

StagingInv ==
  /\ config \in Configs /\ selection \in Selections /\ ActivationShape(activation)
  /\ job = [p \in Procs |-> job[p]] /\ \A p \in Procs : JobInv(p, job[p])
  /\ pending = [h \in Hosts |-> pending[h]] /\ \A h \in Hosts : PendingInv(pending[h], h)
  /\ current = [h \in Hosts |-> current[h]]

LEMMA StagingInit_Inv == StagingInit => StagingInv
<1>1. JobShape(NoJob) /\ NoJob.step = "idle"
  BY DEF JobShape, JobFields, NoJob
<1>2. ASSUME StagingInit PROVE StagingInv
  <2>1. \A p \in Procs : JobInv(p, job[p])
    BY <1>1, <1>2 DEF StagingInit, JobInv
  <2> QED
    BY <1>2, <2>1 DEF StagingInit, DesiredInit, StagingInv, ActivationShape, NoActivation, PendingInv
<1> QED
  BY <1>2

\* What a step of process p leaves to the others.
LEMMA JobStep ==
  ASSUME StagingInv, NEW p \in Procs, NEW j, JobInv(p, j), job' = [job EXCEPT ![p] = j]
  PROVE  job' = [q \in Procs |-> job'[q]] /\ \A q \in Procs : JobInv(q, job'[q])
<1>1. job = [q \in Procs |-> job[q]]
  BY DEF StagingInv
<1>2. \A q \in Procs : job'[q] = IF q = p THEN j ELSE job[q]
  BY <1>1
<1>3. job' = [q \in Procs |-> IF q = p THEN j ELSE job[q]]
  BY <1>1
<1> QED
  BY <1>2, <1>3 DEF StagingInv

\* A proposal an agent may stage alone changes activations only, and enables no
\* server in any of them.
LEMMA AutoStaged ==
  ASSUME NEW rp, rp.changes # {}, MostRestrictive(rp) = "AUTO_STAGE"
  PROVE  AsksNoServer(BuildHostActivations(rp))
<1> DEFINE Worst(i) == /\ \E ch \in rp.changes : ClassifyPatch(ch) = Severity[i]
                       /\ \A ch \in rp.changes : \E j \in 1..i : ClassifyPatch(ch) = Severity[j]
           w == CHOOSE i \in 1..3 : Worst(i)
<1>1. /\ Severity[1] = "AUTO_STAGE" /\ Severity[2] = "REVIEWABLE_DIFF"
      /\ Severity[3] = "CONFIRM_REQUIRED"
  BY DEF Severity
<1>2. \A ch : ClassifyPatch(ch) \in {"AUTO_STAGE", "REVIEWABLE_DIFF", "CONFIRM_REQUIRED"}
  BY DEF ClassifyPatch
<1>3. \E i \in 1..3 : Worst(i)
  <2>1. CASE \E ch \in rp.changes : ClassifyPatch(ch) = "CONFIRM_REQUIRED"
    <3>1. Worst(3)
      BY <1>1, <1>2, <2>1
    <3> QED
      BY <3>1
  <2>2. CASE /\ ~ \E ch \in rp.changes : ClassifyPatch(ch) = "CONFIRM_REQUIRED"
             /\ \E ch \in rp.changes : ClassifyPatch(ch) = "REVIEWABLE_DIFF"
    <3>1. Worst(2)
      BY <1>1, <1>2, <2>2
    <3> QED
      BY <3>1
  <2>3. CASE \A ch \in rp.changes : ClassifyPatch(ch) = "AUTO_STAGE"
    <3>1. Worst(1)
      BY <1>1, <2>3
    <3> QED
      BY <3>1
  <2> QED
    BY <1>2, <2>1, <2>2, <2>3
<1>4. w \in 1..3 /\ Worst(w) /\ Severity[w] = "AUTO_STAGE"
  BY <1>3 DEF MostRestrictive
<1> HIDE DEF w
<1>5. w = 1
  BY <1>1, <1>4
<1>6. \A ch \in rp.changes : ClassifyPatch(ch) = "AUTO_STAGE"
  BY <1>1, <1>4, <1>5
<1>7. \A ch \in rp.changes : ch.target = "Activation" =>
        \A a \in ch.select.enable : a.kind # "mcpServer"
  BY <1>6 DEF ClassifyPatch
<1> QED
  BY <1>7 DEF AsksNoServer, BuildHostActivations

LEMMA ComposedShape ==
  ASSUME NEW act
  PROVE  /\ [Composed EXCEPT !.activation = act] =
              [profiles |-> InForce[config][selection], activation |-> act,
               exceptions |-> LiveExceptions(exceptions, now), now |-> now]
         /\ Composed.profiles = InForce[config][selection]
         /\ Composed.activation = activation
BY DEF Composed, Compose

\* The ranks of what is composed are those of the categories.
LEMMA InForceRanks ==
  ASSUME StagingInv
  PROVE  DOMAIN Composed.profiles \subseteq DOMAIN CategoryOrder
<1> DEFINE ids == FinalProfileIDs(MatchedProfileIDs(config.bindings), selection)
<1>1. InForce[config][selection] = SelectProfiles(config.profiles, ids)
  BY DEF StagingInv, InForce
<1>2. DOMAIN ids \subseteq DOMAIN CategoryOrder
  BY DEF FinalProfileIDs
<1> HIDE DEF ids
<1>3. DOMAIN SelectProfiles(config.profiles, ids) \subseteq DOMAIN ids
  BY DEF SelectProfiles
<1> QED
  BY <1>1, <1>2, <1>3, ComposedShape

LEMMA MergedShape ==
  ASSUME NEW act, ActivationShape(act), NEW asks
  PROVE  LET merged == MergeHostActivation(act, asks) IN
         /\ ActivationShape(merged) /\ merged.neutral = act.neutral
         /\ \A h \in Hosts : merged.hosts[h] = IF h \in DOMAIN asks THEN Union(act.hosts[h], asks[h])
                                                ELSE act.hosts[h]
<1>1. MergeHostActivation(act, asks) =
        [neutral |-> act.neutral,
         hosts |-> [h \in Hosts |-> IF h \in DOMAIN asks THEN Union(act.hosts[h], asks[h]) ELSE act.hosts[h]]]
  BY DEF MergeHostActivation, ActivationShape
<1> QED
  BY <1>1 DEF ActivationShape

LEMMA CompiledSources ==
  ASSUME NEW c, NEW hs
  PROVE  /\ Compile(c, hs).hosts = hs /\ DOMAIN Compile(c, hs).sources = hs
         /\ \A h \in hs :
              /\ Compile(c, hs).sources[h].assets = Resolve(c, h)
              /\ Compile(c, hs).sources[h].sandbox =
                   ResolveSandboxPermission(h, MergePermissions(c.profiles))
BY DEF Compile, HostSources

LEMMA ComposeStageStep ==
  ASSUME StagingInv, NEW p \in Procs, ComposeStage(p)
  PROVE  StagingInv'
<1> DEFINE j == job[p]
           c == [Composed EXCEPT !.activation = MergeHostActivation(activation, j.asks)]
           b == IF j.host = None THEN NoGeneration ELSE current[j.host]
           k == [j EXCEPT !.step = "persist", !.before = b, !.comp = c]
<1>1. JobInv(p, j) /\ j.step = "compose"
  BY DEF StagingInv, ComposeStage
<1>2. c.activation = MergeHostActivation(activation, j.asks)
  BY ComposedShape
<1>3. ActivationShape(c.activation)
  BY <1>2, MergedShape DEF StagingInv
<1>4. job' = [job EXCEPT ![p] = k]
  BY DEF ComposeStage, Continue
<1> HIDE DEF c, b, j
<1>5. JobInv(p, k)
  <2>1. JobShape(k) /\ k.step = "persist" /\ k.host = j.host /\ k.comp = c
    BY <1>1 DEF JobInv, JobShape, JobFields
  <2> QED
    BY <1>1, <1>3, <2>1 DEF JobInv
<1> HIDE DEF k
<1> QED
  BY <1>4, <1>5, JobStep DEF StagingInv, ComposeStage, desiredVars

LEMMA PersistActivationStep ==
  ASSUME StagingInv, NEW p \in Procs, PersistActivation(p)
  PROVE  StagingInv'
<1> DEFINE j == job[p]
           k == [j EXCEPT !.step = "compile"]
<1>1. JobInv(p, j) /\ j.step = "persist"
  BY DEF StagingInv, PersistActivation
<1>2. ActivationShape(activation')
  <2>1. activation' = j.comp.activation
    BY DEF PersistActivation
  <2>2. ActivationShape(j.comp.activation)
    BY <1>1 DEF JobInv
  <2> HIDE DEF j
  <2> QED
    BY <2>1, <2>2 DEF ActivationShape
<1>3. job' = [job EXCEPT ![p] = k]
  BY DEF PersistActivation, Continue
<1> HIDE DEF j
<1>4. JobInv(p, k)
  <2>1. JobShape(k) /\ k.step = "compile" /\ k.host = j.host
    BY <1>1 DEF JobInv, JobShape, JobFields
  <2> QED
    BY <1>1, <2>1 DEF JobInv
<1> HIDE DEF k
<1> QED
  BY <1>2, <1>3, <1>4, JobStep DEF StagingInv, PersistActivation

LEMMA CompilePendingStep ==
  ASSUME StagingInv, NEW p \in Procs, CompilePending(p)
  PROVE  StagingInv'
<1> DEFINE j == job[p]
           g == Compile(j.comp, DOMAIN j.asks)
           k == IF p \in Screens THEN [j EXCEPT !.step = "review", !.gen = g] ELSE NoJob
<1>1. JobInv(p, j) /\ j.step = "compile"
  BY DEF StagingInv, CompilePending
<1>2. /\ pending' = [h \in Hosts |-> IF h \in g.hosts THEN g ELSE pending[h]]
      /\ job' = [job EXCEPT ![p] = k]
  BY DEF CompilePending, Continue
<1>3. g.hosts = DOMAIN g.sources
  BY CompiledSources
<1> HIDE DEF g, j
<1>4. \A h \in Hosts : PendingInv(pending'[h], h)
  BY <1>2, <1>3 DEF StagingInv, PendingInv
<1>5. JobInv(p, k)
  <2>1. CASE p \in Screens
    <3>1. JobShape(k) /\ k.step = "review" /\ k.host = j.host
      BY <1>1, <2>1 DEF JobInv, JobShape, JobFields
    <3> QED
      BY <1>1, <2>1, <3>1 DEF JobInv
  <2>2. CASE p \notin Screens
    BY <2>2 DEF JobInv, JobShape, JobFields, NoJob
  <2> QED
    BY <2>1, <2>2
<1> HIDE DEF k
<1> QED
  BY <1>2, <1>4, <1>5, JobStep DEF StagingInv, CompilePending, desiredVars, ActivationShape

LEMMA ApproveAllStep ==
  ASSUME StagingInv, NEW p \in Procs, ApproveAll(p)
  PROVE  StagingInv'
<1> DEFINE j == job[p]
           x == DiffProposedChanges(j.before, j.gen, j.host)
           k == [j EXCEPT !.step = "fresh", !.confirmed = x]
<1>1. JobInv(p, j) /\ j.step = "review"
  BY DEF StagingInv, ApproveAll
<1>2. job' = [job EXCEPT ![p] = k]
  BY DEF ApproveAll, Continue
<1> HIDE DEF j, x
<1>3. JobInv(p, k)
  <2>1. JobShape(k) /\ k.step = "fresh" /\ k.host = j.host
    BY <1>1 DEF JobInv, JobShape, JobFields
  <2> QED
    BY <1>1, <2>1 DEF JobInv
<1> HIDE DEF k
<1> QED
  BY <1>2, <1>3, JobStep DEF StagingInv, ApproveAll, desiredVars, ActivationShape

LEMMA ComposeFreshStep ==
  ASSUME StagingInv, NEW p \in Procs, ComposeFresh(p)
  PROVE  StagingInv'
<1> DEFINE j == job[p]
           c == Composed
           g == Compile(c, j.gen.hosts)
           k == [j EXCEPT !.step = "switch", !.comp = c, !.fresh = g]
<1>1. JobInv(p, j) /\ j.step = "fresh"
  BY DEF StagingInv, ComposeFresh
<1>2. job' = [job EXCEPT ![p] = k]
  BY DEF ComposeFresh, Continue
<1>3. CompiledFrom(g, c)
  <2>1. DOMAIN c.profiles \subseteq DOMAIN CategoryOrder
    BY InForceRanks
  <2> HIDE DEF c
  <2> QED
    BY <2>1, CompiledSources DEF CompiledFrom
<1> HIDE DEF j, c, g
<1>4. JobInv(p, k)
  <2>1. JobShape(k) /\ k.step = "switch" /\ k.host = j.host /\ k.comp = c /\ k.fresh = g
    BY <1>1 DEF JobInv, JobShape, JobFields
  <2> QED
    BY <1>1, <1>3, <2>1 DEF JobInv
<1> HIDE DEF k
<1> QED
  BY <1>2, <1>4, JobStep DEF StagingInv, ComposeFresh, desiredVars, ActivationShape

LEMMA ComputeStageStep ==
  ASSUME StagingInv, NEW p \in Procs, NEW rp \in Proposals, ComputeStage(p, rp)
  PROVE  StagingInv'
<1> DEFINE asks == BuildHostActivations(rp)
           k == [NoJob EXCEPT !.step = "compose", !.asks = asks]
<1>1. AsksNoServer(asks)
  BY AutoStaged DEF ComputeStage, ComputePropose, SchemaGate
<1>2. job' = [job EXCEPT ![p] = k]
  BY DEF ComputeStage, Begin
<1>3. p \in Agents /\ p \notin Screens
  BY StagingAssumption DEF ComputeStage
<1> HIDE DEF asks
<1>4. JobInv(p, k)
  <2>1. JobShape(k) /\ k.step = "compose" /\ k.asks = asks
    BY DEF JobShape, JobFields, NoJob
  <2> QED
    BY <1>1, <1>3, <2>1 DEF JobInv
<1> HIDE DEF k
<1> QED
  BY <1>2, <1>4, JobStep DEF StagingInv, ComputeStage, desiredVars, ActivationShape

LEMMA StageCandidateStep ==
  ASSUME StagingInv, NEW p \in Procs, NEW h \in Hosts, StageCandidate(p, h)
  PROVE  StagingInv'
<1> DEFINE asks == [x \in {h} |-> [NoSelection EXCEPT !.enable = {AssetOrder[Activatable(p, h)]}]]
           k == [NoJob EXCEPT !.step = "compose", !.host = h, !.asks = asks]
<1>1. job' = [job EXCEPT ![p] = k]
  BY DEF StageCandidate, Begin
<1>2. p \in Screens /\ p \notin Agents
  BY StagingAssumption DEF StageCandidate
<1> HIDE DEF asks
<1>3. JobInv(p, k)
  <2>1. JobShape(k) /\ k.step = "compose" /\ k.host = h
    BY DEF JobShape, JobFields, NoJob
  <2> QED
    BY <1>2, <2>1 DEF JobInv
<1> HIDE DEF k
<1> QED
  BY <1>1, <1>3, JobStep DEF StagingInv, StageCandidate, desiredVars, ActivationShape

LEMMA RunActivateStep ==
  ASSUME StagingInv, NEW p \in Procs, NEW h \in Hosts, NEW confirmed, RunActivate(p, h, confirmed)
  PROVE  StagingInv'
<1> DEFINE k == [NoJob EXCEPT !.step = "fresh", !.host = h, !.before = current[h],
                              !.gen = pending[h], !.confirmed = confirmed]
<1>1. job' = [job EXCEPT ![p] = k]
  BY DEF RunActivate, Begin
<1>2. JobInv(p, k)
  <2>1. JobShape(k) /\ k.step = "fresh" /\ k.host = h
    BY DEF JobShape, JobFields, NoJob
  <2> QED
    BY <2>1 DEF JobInv
<1> HIDE DEF k
<1> QED
  BY <1>1, <1>2, JobStep DEF StagingInv, RunActivate, desiredVars, ActivationShape

LEMMA NoJobInv ==
  ASSUME NEW p
  PROVE  JobInv(p, NoJob)
BY DEF JobInv, JobShape, JobFields, NoJob

LEMMA ActivateStep ==
  ASSUME StagingInv, NEW p \in Procs, Activate(p)
  PROVE  StagingInv'
<1> DEFINE h == job[p].host
<1>1. /\ job' = [job EXCEPT ![p] = NoJob]
      /\ current' = [current EXCEPT ![h] = pending[h]]
      /\ pending' = [pending EXCEPT ![h] = NoGeneration]
      /\ UNCHANGED desiredVars
  BY DEF Activate, Continue
<1> HIDE DEF h
<1>2. \A x \in Hosts : PendingInv(pending'[x], x)
  BY <1>1 DEF StagingInv, PendingInv
<1> QED
  BY <1>1, <1>2, NoJobInv, JobStep DEF StagingInv, desiredVars, ActivationShape

LEMMA AbandonStep ==
  ASSUME StagingInv, NEW p \in Procs, Abandon(p)
  PROVE  StagingInv'
BY NoJobInv, JobStep DEF StagingInv, Abandon, Continue, desiredVars, ActivationShape

LEMMA FilesStep ==
  ASSUME StagingInv, EditFiles \/ TimePasses \/ UNCHANGED stagingVars
  PROVE  StagingInv'
<1>1. UNCHANGED <<job, pending, current>>
  BY DEF EditFiles, TimePasses, stagingVars
<1>2. config' \in Configs /\ selection' \in Selections
  BY DEF StagingInv, EditFiles, EditRepository, EditConfig, EditExceptions, PersistSelection,
     WriteActivation, TimePasses, Tick, stagingVars, desiredVars
<1>3. ActivationShape(activation')
  <2>1. activation' = activation \/ activation' \in HandWritten
    BY DEF EditFiles, EditRepository, EditConfig, EditExceptions, PersistSelection,
       WriteActivation, TimePasses, Tick, stagingVars, desiredVars
  <2> QED
    BY <2>1, DesiredAssumption DEF StagingInv, ActivationShape
<1> QED
  BY <1>1, <1>2, <1>3 DEF StagingInv

LEMMA StagingInvAlways == StagingSpec => []StagingInv
<1>1. ASSUME StagingInv, [StagingNext]_stagingVars
      PROVE  StagingInv'
  <2>1. ASSUME NEW p \in Procs, CommandStep(p)
        PROVE  StagingInv'
    <3>1. CASE ReadReport(p)
      BY <1>1, <3>1 DEF ReadReport, StagingInv, desiredVars, ActivationShape
    <3> QED
      BY <1>1, <2>1, <3>1, ComputeStageStep, StageCandidateStep, ComposeStageStep,
         PersistActivationStep, CompilePendingStep, ApproveAllStep, RunActivateStep,
         ComposeFreshStep, ActivateStep, AbandonStep DEF CommandStep
  <2> QED
    BY <1>1, <2>1, FilesStep DEF StagingNext
<1> QED
  BY <1>1, StagingInit_Inv, PTL DEF StagingSpec

-----------------------------------------------------------------------------
(* What is switched to.                                                     *)

LEMMA LeastRank ==
  ASSUME NEW S, S \subseteq DOMAIN CategoryOrder, S # {}
  PROVE  Min(S) \in S
<1> DEFINE known == <<"personal", "company", "team", "project", "task">>
<1> DEFINE names == STRING \cup {known[i] : i \in 1..5}
<1>1. known \in Seq(names) /\ OtherCategories \in Seq(names)
  <2>1. known = [i \in 1..5 |-> known[i]]
    OBVIOUS
  <2> HIDE DEF known
  <2> QED
    BY <2>1, DesiredAssumption
<1>2. CategoryOrder \in Seq(names)
  <2>1. CategoryOrder = known \o OtherCategories
    BY DEF CategoryOrder
  <2> HIDE DEF known, names
  <2> QED
    BY <1>1, <2>1
<1> HIDE DEF known, names
<1>3. S \subseteq Nat
  BY <1>2
<1>4. PICK x \in S : \A y \in S : <<y, x>> \notin OpToRel(<, Nat)
  BY <1>3, NatLessThanWellFounded, WFMin
<1>5. \A y \in S : x <= y
  <2>1. TAKE y \in S
  <2>2. x \in Nat /\ y \in Nat
    BY <1>3
  <2>3. y < x => <<y, x>> \in OpToRel(<, Nat)
    BY <2>2 DEF OpToRel
  <2>4. ~(y < x)
    BY <1>4, <2>3, Zenon
  <2> QED
    BY <2>2, <2>4
<1> QED
  BY <1>5 DEF Min

\* Whatever else profiles ask of the sandbox, a denial is what comes out.
LEMMA DenialMerges ==
  ASSUME NEW profiles, DOMAIN profiles \subseteq DOMAIN CategoryOrder,
         NEW q \in Range(profiles), q.sandbox.intent = "DENIED"
  PROVE  MergePermissions(profiles).intent = "DENIED"
<1> DEFINE asked == {i \in DOMAIN profiles : profiles[i].sandbox # NoPermission}
           denials == {i \in asked : profiles[i].sandbox.intent = "DENIED"}
<1>1. PICK i \in DOMAIN profiles : profiles[i] = q
  BY DEF Range
<1>2. i \in denials
  BY <1>1 DEF NoPermission
<1>3. MergePermissions(profiles) = profiles[Min(denials)].sandbox
  BY <1>2 DEF MergePermissions
<1>4. Min(denials) \in denials
  BY <1>2, LeastRank
<1> QED
  BY <1>3, <1>4

\* Only the activation of a process that is about to switch switches.
LEMMA SwitchStep ==
  ASSUME StagingInv, [StagingNext]_stagingVars, NEW p \in Procs, Switches(p)
  PROVE  Activate(p)
<1>1. current' # current /\ job[p].step = "switch" /\ job'[p].step = "idle"
  BY DEF Switches, NoJob
<1>2. PICK q \in Procs : CommandStep(q)
  BY <1>1 DEF StagingNext, EditFiles, TimePasses, stagingVars
<1>3. Activate(q)
  BY <1>1, <1>2 DEF CommandStep, ReadReport, ComputeStage, StageCandidate, ComposeStage,
     PersistActivation, CompilePending, ApproveAll, RunActivate, ComposeFresh, Abandon
<1>4. job' = [job EXCEPT ![q] = NoJob]
  BY <1>3 DEF Activate, Continue
<1>5. q = p
  BY <1>1, <1>4 DEF StagingInv
<1> QED
  BY <1>3, <1>5

\* Of a composition: what runs is within its policy.
LEMMA RunsWithinPolicy ==
  ASSUME NEW c, NEW h, NEW a
  PROVE  /\ a \in ActiveAssets(c, h) => ~Forbidden(c, a, h)
         /\ Imposed(c, a, h) /\ ~Forbidden(c, a, h) /\ ~Contradicted(c, a, h) => a \in ActiveAssets(c, h)
<1>1. ActiveAssets(c, h) = {x \in Universe(c, h) : ~Conflicting(c, x, h) /\ ResolveOne(c, x, h).active}
  BY Resolved
<1>2. a \in ActiveAssets(c, h) => ~Forbidden(c, a, h)
  BY <1>1, PolicyOf
<1>3. ASSUME Imposed(c, a, h), ~Forbidden(c, a, h), ~Contradicted(c, a, h)
      PROVE  a \in ActiveAssets(c, h)
  <2>1. a \in Universe(c, h)
    BY <1>3 DEF Imposed, Speaks, IntentsOf, Universe
  <2> QED
    BY <1>1, <1>3, <2>1, Conflicted, PolicyOf
<1> QED
  BY <1>2, <1>3

\* However long a generation was pending: what is switched to runs nothing the
\* profiles read for the activation forbid, leaves out nothing they require and
\* has no sandbox value they deny (runtime.Activate's comparison of digests).
THEOREM ActivatedAlways == StagingSpec => ActivatedWithinPolicy
<1>1. ASSUME StagingInv, [StagingNext]_stagingVars
      PROVE  [ \A p \in Procs : Switches(p) =>
                 LET c == job[p].comp
                     h == job[p].host
                     on == Running(current'[h], h)
                 IN /\ \A a \in on : ~Forbidden(c, a, h)
                    /\ \A a \in Assets : Imposed(c, a, h) /\ ~Forbidden(c, a, h) /\ ~Contradicted(c, a, h)
                                          => a \in on
                    /\ (\E q \in Range(c.profiles) : q.sandbox.intent = "DENIED") =>
                         SandboxOf(current'[h], h) = SandboxValues[h][1] ]_stagingVars
  <2> SUFFICES ASSUME NEW p \in Procs, Switches(p)
               PROVE  LET c == job[p].comp
                          h == job[p].host
                          on == Running(current'[h], h)
                      IN /\ \A a \in on : ~Forbidden(c, a, h)
                         /\ \A a \in Assets : Imposed(c, a, h) /\ ~Forbidden(c, a, h)
                                              /\ ~Contradicted(c, a, h) => a \in on
                         /\ (\E q \in Range(c.profiles) : q.sandbox.intent = "DENIED") =>
                              SandboxOf(current'[h], h) = SandboxValues[h][1]
    OBVIOUS
  <2> DEFINE c == job[p].comp
             h == job[p].host
             g == current'[h]
  <2>1. Activate(p)
    BY <1>1, SwitchStep
  <2>2. /\ JobInv(p, job[p]) /\ job[p].step = "switch" /\ h \in Hosts
        /\ CompiledFrom(job[p].fresh, c)
    BY <1>1, <2>1 DEF StagingInv, JobInv, Activate
  <2>3. g = pending[h] /\ g # NoGeneration /\ g.sources = job[p].fresh.sources
    BY <1>1, <2>1, <2>2 DEF Activate, SourceDigestOf, StagingInv
  <2>4. h \in g.hosts /\ h \in DOMAIN g.sources
    BY <1>1, <2>2, <2>3 DEF StagingInv, PendingInv
  <2>5. /\ g.sources[h].assets = Resolve(c, h)
        /\ g.sources[h].sandbox = ResolveSandboxPermission(h, MergePermissions(c.profiles))
    BY <2>2, <2>3, <2>4 DEF CompiledFrom
  <2>6. DOMAIN c.profiles \subseteq DOMAIN CategoryOrder
    BY <2>2 DEF CompiledFrom
  <2> HIDE DEF c, h, g
  <2>7. Running(g, h) = ActiveAssets(c, h)
    BY <2>5 DEF Running, ActiveAssets
  <2>8. /\ \A a \in Running(g, h) : ~Forbidden(c, a, h)
        /\ \A a \in Assets : Imposed(c, a, h) /\ ~Forbidden(c, a, h) /\ ~Contradicted(c, a, h)
                              => a \in Running(g, h)
    BY <2>7, RunsWithinPolicy
  <2>9. ASSUME \E q \in Range(c.profiles) : q.sandbox.intent = "DENIED"
        PROVE  SandboxOf(g, h) = SandboxValues[h][1]
    <3>1. MergePermissions(c.profiles).intent = "DENIED"
      BY <2>6, <2>9, DenialMerges
    <3>2. ResolveSandboxPermission(h, MergePermissions(c.profiles)).value = SandboxValues[h][1]
      BY <3>1 DEF ResolveSandboxPermission
    <3> QED
      BY <2>4, <2>5, <3>2 DEF SandboxOf
  <2> QED
    BY <2>8, <2>9 DEF c, h, g
<1> QED
  BY <1>1, StagingInvAlways, PTL DEF StagingSpec, ActivatedWithinPolicy

-----------------------------------------------------------------------------
(* What an agent stages alone.                                              *)

\* For this asset and host the second activation enables nothing more.
NoMoreEnabled(c, e, a, h) ==
  /\ e.profiles = c.profiles /\ e.exceptions = c.exceptions /\ e.now = c.now
  /\ e.activation.neutral = c.activation.neutral
  /\ a \in e.activation.hosts[h].enable <=> a \in c.activation.hosts[h].enable
  /\ a \in c.activation.hosts[h].disable => a \in e.activation.hosts[h].disable

LEMMA DisablingOf ==
  ASSUME NEW c, NEW e, NEW a, NEW h, NoMoreEnabled(c, e, a, h), a \in ActiveAssets(e, h)
  PROVE  a \in ActiveAssets(c, h)
<1>1. /\ a \in Universe(e, h) /\ ~Conflicting(e, a, h) /\ ResolveOne(e, a, h).active
      /\ ActiveAssets(c, h) = {x \in Universe(c, h) : ~Conflicting(c, x, h) /\ ResolveOne(c, x, h).active}
  <2>1. \A k : ActiveAssets(k, h) = {x \in Universe(k, h) : ~Conflicting(k, x, h) /\ ResolveOne(k, x, h).active}
    BY Resolved
  <2> QED
    BY <2>1
<1>2. \A scopes : Excepted(e, a, scopes) <=> Excepted(c, a, scopes)
  BY DEF NoMoreEnabled, Excepted, Covering
<1>3. \A scopes : Lifting(e, a, scopes) = Lifting(c, a, scopes)
  BY DEF NoMoreEnabled, Lifting, Covering
<1>4. /\ \A intent : Scoping(e, a, h, intent) = Scoping(c, a, h, intent)
      /\ Mentioned(e, a, h) <=> Mentioned(c, a, h)
      /\ SoftBaseline(e, a, h) = SoftBaseline(c, a, h)
  BY SameProfiles DEF NoMoreEnabled
<1>5. Conflicting(e, a, h) <=> Conflicting(c, a, h)
  BY <1>2, <1>4 DEF Conflicting, NoMoreEnabled
<1>6. Baseline(e, a, h) = Baseline(c, a, h)
  BY <1>2, <1>3, <1>4 DEF Baseline
<1>7. \A intent : Lifts(e, a, h, intent) <=> Lifts(c, a, h, intent)
  BY <1>2, <1>4 DEF Lifts
<1>8. ResolveOne(c, a, h).active
  <2> DEFINE b == Baseline(c, a, h)
  <2>1. Layered(e, a, h, b)
    BY <1>1, <1>6, ResolvedActive
  <2> HIDE DEF b
  <2>2. Layered(c, a, h, b)
    BY <1>4, <1>7, <2>1 DEF Layered, Turned, NoMoreEnabled
  <2> QED
    BY <1>1, <1>5, <2>2, ResolvedActive DEF b
<1>9. a \in Universe(c, h)
  <2>1. a \in c.activation.hosts[h].enable \/ Mentioned(c, a, h)
    BY <1>1, <1>4, PolicyOf DEF NoMoreEnabled
  <2> QED
    BY <2>1 DEF Universe, Mentioned, IntentsOf
<1> QED
  BY <1>1, <1>5, <1>8, <1>9

\* What an agent stages alone brings up no MCP server on any host that the files
\* would not have brought up anyhow (mcp.classifyChange, mergeHostActivation).
THEOREM AgentAlways == StagingSpec => AgentEnablesNoServer
<1>1. ASSUME StagingInv, [StagingNext]_stagingVars
      PROVE  [ \A p \in Agents : job[p].step = "compose" /\ job'[p].step = "persist" =>
                 \A h \in Hosts : {a \in ActiveAssets(job'[p].comp, h) : a.kind = "mcpServer"}
                                     \subseteq ActiveAssets(Composed, h) ]_stagingVars
  <2> SUFFICES ASSUME NEW p \in Agents, job[p].step = "compose", job'[p].step = "persist",
                      NEW h \in Hosts, NEW a \in ActiveAssets(job'[p].comp, h), a.kind = "mcpServer"
               PROVE  a \in ActiveAssets(Composed, h)
    OBVIOUS
  <2> DEFINE asks == job[p].asks
             merged == MergeHostActivation(activation, asks)
             e == [Composed EXCEPT !.activation = merged]
  <2>1. p \in Procs /\ JobInv(p, job[p]) /\ ActivationShape(activation)
    BY <1>1 DEF Procs, StagingInv
  <2>2. job'[p].comp = e
    <3>1. PICK q \in Procs : CommandStep(q)
      BY <1>1 DEF StagingNext, EditFiles, TimePasses, stagingVars
    <3>2. \A r \in Procs : r # q => job'[r] = job[r]
      BY <1>1, <3>1 DEF CommandStep, ReadReport, ComputeStage, StageCandidate, ComposeStage,
         PersistActivation, CompilePending, ApproveAll, RunActivate, ComposeFresh, Activate,
         Abandon, Begin, Continue, StagingInv
    <3>3. CommandStep(p)
      BY <2>1, <3>1, <3>2
    <3>4. ComposeStage(p)
      BY <1>1, <2>1, <3>3 DEF CommandStep, ReadReport, ComputeStage, StageCandidate,
         PersistActivation, CompilePending, ApproveAll, RunActivate, ComposeFresh, Activate,
         Abandon, Idle, Continue, StagingInv, NoJob
    <3>5. job'[p] = [job[p] EXCEPT !.step = "persist",
                       !.before = IF job[p].host = None THEN NoGeneration ELSE current[job[p].host],
                       !.comp = e]
      BY <1>1, <2>1, <3>4 DEF ComposeStage, Continue, StagingInv
    <3> HIDE DEF e
    <3> QED
      BY <2>1, <3>5 DEF JobInv, JobShape, JobFields
  <2>3. AsksNoServer(asks)
    BY <2>1 DEF JobInv
  <2>4. /\ merged.neutral = activation.neutral
        /\ merged.hosts[h] = IF h \in DOMAIN asks THEN Union(activation.hosts[h], asks[h])
                             ELSE activation.hosts[h]
    BY <2>1, MergedShape
  <2> HIDE DEF asks, merged
  <2>5. /\ a \in merged.hosts[h].enable <=> a \in activation.hosts[h].enable
        /\ a \in activation.hosts[h].disable => a \in merged.hosts[h].disable
    BY <2>3, <2>4 DEF AsksNoServer, Union
  <2>6. NoMoreEnabled(Composed, e, a, h)
    BY <2>4, <2>5, ComposedShape DEF NoMoreEnabled, Composed, Compose
  <2> HIDE DEF e
  <2> QED
    BY <2>2, <2>6, DisablingOf
<1> QED
  BY <1>1, StagingInvAlways, PTL DEF StagingSpec, AgentEnablesNoServer
=============================================================================
