---------------------------- MODULE DriftReport ----------------------------
(***************************************************************************)
(* The report of a worktree: each installed host's effective graph, the    *)
(* drift it shows, what a live exception covers of it, and the cards that  *)
(* group drift of one cause over all hosts (drift, report).                *)
(***************************************************************************)
EXTENDS EffectiveGraph

CONSTANTS
  ReportHosts,       \* the hosts there are
  ObservationSets,   \* what observing a host may find
  HostPacks,         \* [Knowledge packs] records [programs, resolve]
  MergeOptions,      \* options graphs may be computed with by other callers
  DriftExceptions,   \* sets of records [asset, scope, until]: what is in force
  Foreign,           \* signals of other origin than the graphs
  Compiled,          \* what the hosts' current generations say of the sources:
                     \* records [host, concept, place, included]
  SampleLimit,       \* rows of a card that are printed
  LastTime

BaseCategories == {"CONFIG_DRIFT", "EFFECTIVE_DRIFT", "SOURCE_DRIFT", "CAPABILITY_GAP",
                   "KNOWLEDGE_DRIFT", "CONTEXT_DRIFT", "UNKNOWN"}

\* A signal of another category ends the build with an error.  Files have places and levels, and are finitely many.  Of a source a manifest
\* lists twice the last listing counts (the rows of a plane are a map), which is
\* the one Compiled has.
ASSUME ReportAssumption ==
  /\ IsFiniteSet(ReportHosts) /\ IsFiniteSet(Foreign) /\ SampleLimit \in Nat \ {0}
  /\ \A sig \in Foreign : sig.category \in BaseCategories
  /\ \A found \in ObservationSets :
       /\ IsFiniteSet(found)
       /\ \A o \in found : o.place \in Nat /\ o.level \in Levels /\ IsFiniteSet(DOMAIN o.servers)
  /\ \A s, t \in Compiled : s.host = t.host /\ s.concept = t.concept /\ s.place = t.place => s = t

VARIABLES
  installed, observed, pack,  \* per host; a host may have no qualified pack
  exceptions, today,
  artifact                    \* the report built last; under: the exceptions it
                              \* was built with, which it does not show

reportVars == <<installed, observed, pack, exceptions, today, artifact>>

NoPack == [programs |-> {}, resolve |-> [c \in {} |-> "UNKNOWN"]]
NoReport == [graphs |-> [h \in {} |-> {}], assertions |-> {}, cards |-> {}, at |-> 0, under |-> {}]

-----------------------------------------------------------------------------
(* Drift signals of a graph.  Those of a category propose one remediation,  *)
(* and none of them names an adapter.                                       *)

Signal(h, entity, field, category, cause) ==
  [host |-> h, entity |-> entity, field |-> field, category |-> category,
   expected |-> "one", found |-> "other", cause |-> cause, remediation |-> <<category>>, adapter |-> "none",
   asset |-> entity, scopes |-> {cause}]

ConflictSignals(h, graph) ==
  {Signal(h, <<c.concept, c.id>>, "selectedSource", "SOURCE_DRIFT", c.cause) : c \in graph.conflicts}
AmbiguousIdentitySignals(h, graph) ==
  {Signal(h, <<"mcp_server", "ambiguous", {c.id : c \in pair}>>, "identity", "UNKNOWN", <<"ambiguous", {c.ref : c \in pair}>>) :
     pair \in graph.ambiguous}
KnowledgeDriftSignals(h, qualified) ==
  IF qualified THEN {} ELSE {Signal(h, <<"host", <<h>>>>, "knowledge", "KNOWLEDGE_DRIFT", <<"no pack for", h>>)}
BuildDriftSignals(h, graph, qualified) ==
  ConflictSignals(h, graph) \cup AmbiguousIdentitySignals(h, graph) \cup KnowledgeDriftSignals(h, qualified)

-----------------------------------------------------------------------------
(* Classification and cards *)

IsDiffCategory(c) == c \in {"CONFIG_DRIFT", "EFFECTIVE_DRIFT", "SOURCE_DRIFT"}

CoversLastDay(x, sig, t) ==                       \* mutant: ends a moment late
  x.asset = sig.asset /\ x.scope \in sig.scopes /\ t <= x.until
Covers(x, sig, t) == x.asset = sig.asset /\ x.scope \in sig.scopes /\ t < x.until
NoDrift(sig) == IsDiffCategory(sig.category) /\ sig.expected = sig.found
Classify(sig, docs, t) ==
  [sig |-> sig,
   category |-> IF sig.category # "UNKNOWN" /\ \E x \in docs : Covers(x, sig, t)
                THEN "EXCEPTION" ELSE sig.category]
ClassifyAll(sigs, docs, t) == {Classify(sig, docs, t) : sig \in {sig \in sigs : ~NoDrift(sig)}}

GroupKey(a) == <<a.sig.cause, a.sig.remediation, a.category, a.sig.adapter>>
\* Every outcome is printed once before any is printed twice.
Outcome(a) == <<a.sig.expected, a.sig.found, a.category = "EXCEPTION">>
SelectSamples(matrix) ==
  LET rows == SetToSeq(matrix)
      firsts == {i \in DOMAIN rows : \A j \in 1..i-1 : Outcome(rows[j]) # Outcome(rows[i])}
      ordered == SetToSeq(firsts) \o SetToSeq(DOMAIN rows \ firsts)
  IN {rows[ordered[k]] : k \in {k \in DOMAIN ordered : k <= SampleLimit}}

\* What a card groups by, of which its id is eight characters of the digest: that
\* the digests of two cards begin alike is not there.
Card(matrix) ==
  LET a == CHOOSE a \in matrix : TRUE IN
  [key |-> GroupKey(a), category |-> a.category, matrix |-> matrix, samples |-> SelectSamples(matrix),
   hosts |-> Cardinality({b.sig.host : b \in matrix}), artifacts |-> Cardinality(matrix)]
Group(assertions) == {Card({b \in assertions : GroupKey(b) = GroupKey(a)}) : a \in assertions}

-----------------------------------------------------------------------------
(* The report *)

NoOptions == [rank |-> [x \in {} |-> 0], priority |-> <<>>, denied |-> {}]
GraphOf(h, opts) == ComputeEffectiveGraph(h, observed[h], pack[h], opts)
ReportInit ==
  /\ installed = ReportHosts
  /\ observed \in [ReportHosts -> ObservationSets] /\ pack = [h \in ReportHosts |-> NoPack]
  /\ exceptions = {} /\ today = 0 /\ artifact = NoReport

\* Uninstalled hosts are skipped.
Build ==
  LET graphs == [h \in installed |-> GraphOf(h, NoOptions)]
      signals == UNION {BuildDriftSignals(h, graphs[h], pack[h] # NoPack) : h \in installed}
      assertions == ClassifyAll(signals \cup Foreign, exceptions, today)
  IN /\ artifact' = [graphs |-> graphs, assertions |-> assertions, cards |-> Group(assertions),
                  at |-> today, under |-> exceptions]
     /\ UNCHANGED <<installed, observed, pack, exceptions, today>>

SourcesChange == /\ \E h \in ReportHosts, o \in ObservationSets : observed' = [observed EXCEPT ![h] = o]
                 /\ UNCHANGED <<installed, pack, exceptions, today, artifact>>
PackPublished == /\ \E h \in ReportHosts, k \in HostPacks : pack' = [pack EXCEPT ![h] = k]
                 /\ UNCHANGED <<installed, observed, exceptions, today, artifact>>
HostRemoved == /\ \E h \in installed : installed' = installed \ {h}
               /\ UNCHANGED <<observed, pack, exceptions, today, artifact>>
ExceptionsWritten == /\ exceptions' \in DriftExceptions
                     /\ UNCHANGED <<installed, observed, pack, today, artifact>>
ReportTick == /\ today < LastTime /\ today' = today + 1
              /\ UNCHANGED <<installed, observed, pack, exceptions, artifact>>

ReportNext == \/ Build \/ SourcesChange \/ PackPublished \/ HostRemoved
              \/ ExceptionsWritten \/ ReportTick
ReportSpec == ReportInit /\ [][ReportNext]_reportVars

-----------------------------------------------------------------------------
(* The planes of a report: what was observed, is in effect, and what the    *)
(* current generation includes, as rows of one key                          *)

ByRef(ref) == <<"ref", ref>>
ById(id) == <<"id", id>>
Row(concept, key, active) == [concept |-> concept, key |-> key, active |-> active]
ObservedRows(graph) == {Row(c.concept, ByRef(c.ref), c.disposition = "ACTIVE") : c \in graph.candidates}
EffectiveRows(graph) ==
  (UNION {IF e.active = {} THEN {Row(e.concept, ById(e.id), FALSE)} ELSE {Row(e.concept, ByRef(ref), TRUE) : ref \in e.active} :
            e \in graph.entries})
    \cup {Row(c.concept, ById(c.id), FALSE) : c \in graph.conflicts}
\* A generation knows files; the servers of a file share what became of it.
SourceRowsByFile(s, graph) == {Row(s.concept, ByRef(<<s.place>>), s.included)}   \* mutant: files only
SourceRows(s, graph) ==
  LET servers == {c \in graph.candidates : c.concept = "mcp_server" /\ c.place = s.place} IN
  IF s.concept = "mcp_server" /\ servers # {} THEN {Row(s.concept, ByRef(c.ref), s.included) : c \in servers}
  ELSE {Row(s.concept, ByRef(<<s.place>>), s.included)}
CurrentRows(h, graph) == UNION {SourceRows(s, graph) : s \in {s \in Compiled : s.host = h}}
\* What `omca compare` shows of a key in two planes.
Differs(rowsA, rowsB, concept, key) ==
  LET state(rows) == {row.active : row \in {row \in rows : row.concept = concept /\ row.key = key}}
  IN state(rowsA) # state(rowsB)

-----------------------------------------------------------------------------
(* Properties *)

\* The gates of ResolveGroup over every pack and option: where a new pack has the
\* programs of the old one and takes no qualification back, see DecidedStays.
QualifyingOnlyDecides ==
  [][ \A h \in installed \cap installed' :
        observed'[h] = observed[h] /\ pack'[h] # pack[h] /\ pack'[h].programs = pack[h].programs
          /\ (\A c \in DOMAIN pack[h].resolve :
                CapabilityQualified(pack[h], c) => CapabilityQualified(pack'[h], c))
          => \A opts \in MergeOptions : DecidedStays(GraphOf(h, opts), GraphOf(h, opts)') ]_reportVars

\* No disagreement disappears: of what was observed when the report was built,
\* every group of sources that differ with no entry saying which is active is
\* in one card and one only.  A card is shown as excepted exactly if each of
\* its rows has an exception of its own, of its asset and of a scope of its
\* signal, that had not ended when the report was built: no row hides behind
\* another's exception or behind an ended one, and what could not be classified
\* behind none (drift.Classify: an expired exception "is just the absence of a
\* currently-valid one"; Group: EXCEPTION is an "outcome class" of its own).
DriftAccounted ==
  LET shown == UNION {c.matrix : c \in artifact.cards} IN
  /\ shown = artifact.assertions
  /\ \A c, d \in artifact.cards : c # d => c.key # d.key /\ c.matrix \cap d.matrix = {}
  /\ \A c \in artifact.cards :
       /\ \A a \in c.matrix : a.category = c.category
       /\ LET seen(rows) == {Outcome(a) : a \in rows} IN
          Cardinality(seen(c.matrix)) <= SampleLimit => seen(c.samples) = seen(c.matrix)
  /\ \A c \in artifact.cards : \A a \in c.matrix :
       c.category = "EXCEPTION" <=>
         /\ a.sig.category # "UNKNOWN"
         /\ \E x \in artifact.under : /\ x.asset = a.sig.asset /\ x.scope \in a.sig.scopes
                                      /\ artifact.at < x.until
  /\ \A h \in DOMAIN artifact.graphs : LET g == artifact.graphs[h] IN
       \A x, y \in g.candidates :
         x.concept = y.concept /\ x.id = y.id /\ x.digest # y.digest =>
           \/ \E e \in g.entries : e.concept = x.concept /\ e.id \in {x.id, <<x.concept, "composition">>}
           \/ \E c \in artifact.cards : \E a \in c.matrix :
                a.sig.host = h /\ a.sig.entity = <<x.concept, x.id>>

\* Planes of one report can be compared: what is in effect is found among what
\* was observed, and a source the current generation includes and that is in
\* effect does not differ between the two planes, a server of a file as little
\* as a file (report's planeRows: "every mcp_server entity as different").
PlanesCorrelate ==
  \A h \in DOMAIN artifact.graphs :
    LET g == artifact.graphs[h]
        effective == EffectiveRows(g)
        current == CurrentRows(h, g)
    IN \A row \in {row \in effective : row.active} :
         /\ \E o \in ObservedRows(g) : o.concept = row.concept /\ o.key = row.key
         /\ \A s \in Compiled :
              s.host = h /\ s.concept = row.concept /\ s.place = row.key[2][1] /\ s.included
                => ~Differs(effective, current, row.concept, row.key)
=============================================================================
