--------------------------- MODULE EffectiveGraph ---------------------------
(***************************************************************************)
(* What is in effect on a host, as far as can honestly be said: the        *)
(* sources observed become candidates, candidates of one identity a group, *)
(* and a group an entry or, where the host's knowledge pack gives no       *)
(* qualified answer, a conflict (effective).  What evidence an entry may   *)
(* claim is capped by what the host can prove at all (assurance).          *)
(***************************************************************************)
EXTENDS Integers, FiniteSets, SequencesExt

CONSTANTS
  Ceilings  \* records [host, concept, level]: the evidence a claim can reach

Parsed       == 1   \* evidence levels E1, E2 and E3
Resolved     == 2
HostReported == 3

Levels       == 0..5

ASSUME GraphAssumption == \A c \in Ceilings : c.level \in Levels

Operators == {"REPLACE", "DEEP_MERGE", "UNION_BY_ID", "CONCAT_ORDERED", "FIRST_MATCH",
              "NAMESPACE", "DENY_WINS", "MANAGED_GUARDRAIL", "UNSPECIFIED"}

MaxOf(S) == CHOOSE x \in S : \A y \in S : y <= x

-----------------------------------------------------------------------------
(* Candidates: what an observed source contributes. A source's place is its *)
(* path's position among all paths, by which references are ordered.        *)

Candidate(o, id, ref) ==
  [concept |-> o.concept, id |-> id, ref |-> ref, place |-> o.place, scope |-> o.scope,
   denied |-> o.disposition = "DENIED", disposition |-> o.disposition,
   level |-> o.level, digest |-> <<o.digest>>, fields |-> <<>>, structured |-> FALSE, tools |-> {}]

McpTransport(def) ==
  IF <<"url">> \notin DOMAIN def THEN "stdio"
  ELSE IF <<"type">> \in DOMAIN def /\ def[<<"type">>] = "sse" THEN "sse" ELSE "http"

\* Only JSON tables tell the type of a URL and the tools of a server; an entry
\* of one may be no object, which leaves a server nothing is known of.
Server(o, id) ==
  LET s == o.servers[id]
      transport == IF o.format = "json" \/ McpTransport(s.def) = "stdio" THEN McpTransport(s.def) ELSE "http"
  IN [Candidate(o, <<transport, id>>, <<o.place, id>>) EXCEPT
        !.fields = s.def, !.structured = s.object, !.digest = <<"table", s.object, s.def>>,
        !.tools = IF o.format = "json" THEN s.tools ELSE {}]

\* A JSON table without servers still is one, a TOML file without any is a file.
Subdivided(o) == o.format = "json" \/ (o.format = "toml" /\ DOMAIN o.servers # {})
ExtractOne(o) ==
  CASE o.concept = "instruction" -> {Candidate(o, <<o.root, o.name>>, <<o.place>>)}
    [] o.concept = "skill"       -> {Candidate(o, <<o.name, o.kind>>, <<o.place>>)}
    [] o.concept = "mcp_server"  ->
         IF Subdivided(o) THEN {Server(o, id) : id \in DOMAIN o.servers}
         ELSE {Candidate(o, <<o.name>>, <<o.place>>)}
    [] OTHER -> {}
ExtractCandidates(observations) == UNION {ExtractOne(o) : o \in observations}

-----------------------------------------------------------------------------
(* Identities *)

MatchIdentities(cs) ==
  {[concept |-> c.concept, id |-> c.id,
    candidates |-> {d \in cs : d.concept = c.concept /\ d.id = c.id}] : c \in cs}

\* Servers defined alike under different ids: perhaps one, nobody says.
AmbiguousIdentities(cs) ==
  {{p[1], p[2]} : p \in {p \in cs \X cs : /\ p[1].concept = "mcp_server" /\ p[2].concept = "mcp_server"
                                          /\ p[1].structured /\ p[2].structured
                                          /\ p[1].digest = p[2].digest /\ p[1].id # p[2].id}}

\* One tool, by its fingerprint, reached through sources of different kinds.
ToolSources(cs, builtin) ==
  (UNION {{[kind |-> "mcp", owner |-> c.id, tool |-> t] : t \in c.tools} :
            c \in {c \in cs : c.concept = "mcp_server"}})
  \cup builtin
DuplicateCapabilities(sources) ==
  {g \in {{s \in sources : s.tool = t} : t \in {s.tool : s \in sources}} : Cardinality({s.kind : s \in g}) > 1}

-----------------------------------------------------------------------------
(* Resolving one group *)

Earliest(cs) == CHOOSE c \in cs : \A d \in cs : c.place <= d.place
DistinctByContent(cs) == {Earliest({d \in cs : d.digest = c.digest}) : c \in cs}
CandidateRefs(cs) == {c.ref : c \in cs}
HighestEvidence(cs) == MaxOf({c.level : c \in cs} \cup {0})
Reported(cs) == HighestEvidence(cs) >= HostReported

LookupProgram(pack, concept) ==
  LET ps == {p \in pack.programs : p.concept = concept} IN
  IF Cardinality(ps) = 1 THEN CHOOSE p \in ps : TRUE ELSE [concept |-> concept, operator |-> "none"]
Usable(program) == program.operator \in Operators
CapabilityQualified(pack, concept) ==
  concept \in DOMAIN pack.resolve /\ pack.resolve[concept] \in {"EXACT", "COMPATIBLE"}

Entry(g, operator, selected, active, ignored, confirmed) ==
  [concept |-> g.concept, id |-> g.id, operator |-> operator, selected |-> selected,
   active |-> CandidateRefs(active), ignored |-> CandidateRefs(ignored),
   level |-> HighestEvidence(g.candidates), confirmed |-> confirmed, conflict |-> FALSE]
Nothing  == <<>>
Combined == <<0>>
\* A conflict's cause is the sentence it is reported with: it leaves the id out
\* and mostly the concept.
Conflict(g, operator, cause) ==
  [concept |-> g.concept, id |-> g.id, operator |-> operator, cause |-> <<operator>> \o cause,
   refs |-> CandidateRefs(g.candidates), level |-> HighestEvidence(g.candidates), conflict |-> TRUE]

\* The one candidate that comes first, of the distinct ones.
Winner(g, operator, cs, First(_, _), losers) ==
  LET winners == {c \in cs : \A d \in cs : ~First(d, c)} IN
  IF Cardinality(winners) # 1 THEN Conflict(g, operator, <<"tie", Cardinality(winners)>>)
  ELSE LET w == CHOOSE w \in winners : TRUE IN
       Entry(g, operator, w.ref, {w}, {c \in losers : c.ref # w.ref}, Reported(g.candidates))

\* The earliest source of a scope without a rank is named.
Unranked(cs, scopes) == {c \in cs : c.scope \notin scopes}
NoRank(cs, scopes) == <<"no rank", Earliest(Unranked(cs, scopes)).scope>>

\* The search for the highest rank starts at -1: lower ones are not found.
ResolveByScopeRank(g, operator, rank) ==
  LET distinct == DistinctByContent(g.candidates) IN
  IF DOMAIN rank = {} THEN Conflict(g, operator, <<"no order">>)
  ELSE IF Unranked(distinct, DOMAIN rank) # {} THEN Conflict(g, operator, NoRank(distinct, DOMAIN rank))
  ELSE Winner(g, operator, {c \in distinct : rank[c.scope] >= -1},
              LAMBDA c, d : rank[c.scope] > rank[d.scope], distinct)

ResolveFirstMatch(g, priority) ==
  LET distinct == DistinctByContent(g.candidates)
      place(c) == CHOOSE i \in DOMAIN priority : priority[i] = c.scope /\ \A j \in 1..i-1 : priority[j] # c.scope
  IN IF priority = <<>> THEN Conflict(g, "FIRST_MATCH", <<"no order">>)
     ELSE IF Unranked(distinct, ToSet(priority)) # {} THEN Conflict(g, "FIRST_MATCH", NoRank(distinct, ToSet(priority)))
     ELSE Winner(g, "FIRST_MATCH", distinct, LAMBDA c, d : place(c) < place(d), g.candidates)

\* Two contents clash at a leaf, or where one has a table and the other a leaf.
Clashes(f, h) ==
  {p \in DOMAIN f : \E q \in DOMAIN h : (p = q /\ f[p] # h[q]) \/ IsStrictPrefix(p, q)}
    \cup {q \in DOMAIN h : \E p \in DOMAIN f : IsStrictPrefix(q, p)}
LeafConflict(cs) == \E c, d \in cs : Clashes(c.fields, d.fields) # {}
\* The merge stops at the first content that clashes with those before it, and
\* tells one of the leaves: which of several is the order of a map's iteration.
ConflictPath(cs) ==
  LET with(d) == UNION {Clashes(c.fields, d.fields) : c \in {c \in cs : c.place < d.place}}
  IN with(Earliest({d \in cs : with(d) # {}}))
ResolveDeepMerge(g, rank) ==
  LET distinct == DistinctByContent(g.candidates)
      complete == \A c \in distinct : c.scope \in DOMAIN rank
      opaque == {c \in distinct : ~c.structured}
  IN CASE opaque # {} -> Conflict(g, "DEEP_MERGE", <<"no structure">> \o Earliest(opaque).ref)
       [] /\ opaque = {} /\ ~complete
          /\ LeafConflict(distinct) ->
            Conflict(g, "DEEP_MERGE", <<"leaf", ConflictPath(distinct), Cardinality(distinct)>>)
       [] OTHER -> Entry(g, "DEEP_MERGE", Nothing, g.candidates, {}, Reported(g.candidates))

IsDenied(c, opts) == c.denied \/ c.ref \in opts.denied
Denied(g, opts) == {c \in g.candidates : IsDenied(c, opts)}
ResolveDenyWins(g, operator, opts) ==
  LET survivors == g.candidates \ Denied(g, opts)
      distinct  == DistinctByContent(survivors)
  IN CASE Cardinality(distinct) = 0 -> Entry(g, operator, Nothing, {}, g.candidates, Reported(g.candidates))
       [] Cardinality(distinct) = 1 ->
            Entry(g, operator, Earliest(survivors).ref, survivors, Denied(g, opts), Reported(g.candidates))
       [] OTHER -> Conflict(g, operator, <<"survivors", Cardinality(distinct)>>)

ResolveManagedGuardrail(g) ==
  LET distinct == DistinctByContent({c \in g.candidates : c.scope = "managed"}) IN
  IF distinct = {} THEN Conflict(g, "MANAGED_GUARDRAIL", <<"no managed">>)
  ELSE Winner(g, "MANAGED_GUARDRAIL", distinct, LAMBDA c, d : FALSE, g.candidates)

OrderKnown(cs, rank) == DOMAIN rank # {} /\ Unranked(cs, DOMAIN rank) = {}
ResolveConcatWithinGroup(g, rank) ==
  Entry(g, "CONCAT_ORDERED", Nothing, g.candidates, {}, OrderKnown(g.candidates, rank) /\ Reported(g.candidates))

ApplyOperator(g, operator, opts) ==
  CASE operator \in {"REPLACE", "UNION_BY_ID"} -> ResolveByScopeRank(g, operator, opts.rank)
    [] operator = "DEEP_MERGE"        -> ResolveDeepMerge(g, opts.rank)
    [] operator = "FIRST_MATCH"       -> ResolveFirstMatch(g, opts.priority)
    [] operator = "NAMESPACE"         -> Entry(g, operator, Nothing, g.candidates, {}, Reported(g.candidates))
    [] operator = "CONCAT_ORDERED"    -> ResolveConcatWithinGroup(g, opts.rank)
    [] operator = "DENY_WINS"         -> ResolveDenyWins(g, operator, opts)
    [] operator = "MANAGED_GUARDRAIL" -> ResolveManagedGuardrail(g)
    [] OTHER                          -> Conflict(g, operator, <<"unspecified">>)

\* Contents that agree need no resolver, only that denials are honoured.
ResolveAgreeing(g, opts) ==
  IF Denied(g, opts) # {} THEN ResolveDenyWins(g, "none", opts)
  ELSE Entry(g, "none", Earliest(g.candidates).ref, g.candidates, {}, FALSE)

ResolveGroupProgramFirst(g, pack, opts) ==                     \* mutant: agreement last
  LET program == LookupProgram(pack, g.concept)
      n == Cardinality(DistinctByContent(g.candidates))
      qualified == Usable(program) /\ CapabilityQualified(pack, g.concept)
  IN CASE qualified -> ApplyOperator(g, program.operator, opts)
       [] ~qualified /\ n = 1 -> ResolveAgreeing(g, opts)
       [] OTHER -> Conflict(g, program.operator, <<"no program", g.concept, n>>)

ResolveGroup(g, pack, opts) ==
  LET program == LookupProgram(pack, g.concept)
      n == Cardinality(DistinctByContent(g.candidates))
  IN CASE n = 1 -> ResolveAgreeing(g, opts)
       [] n # 1 /\ ~Usable(program) -> Conflict(g, program.operator, <<"no program", g.concept, n>>)
       [] n # 1 /\ Usable(program) /\ ~CapabilityQualified(pack, g.concept) ->
            Conflict(g, program.operator, <<"unqualified", g.concept, n>>)
       [] OTHER -> ApplyOperator(g, program.operator, opts)

-----------------------------------------------------------------------------
(* The graph of a host *)

\* A concatenation stands for all groups of its concept, in order if known.
ComposeConcept(concept, cs, pack, opts) ==
  LET known == OrderKnown(cs, opts.rank) /\ CapabilityQualified(pack, concept)
  IN Entry([concept |-> concept, id |-> <<concept, "composition">>, candidates |-> cs], "CONCAT_ORDERED",
           IF known THEN Combined ELSE Nothing, cs, {}, known /\ Reported(cs))

Composes(pack, concept) == LookupProgram(pack, concept).operator = "CONCAT_ORDERED"
GraphEntries(host, observations, pack, opts) ==
  LET cs == ExtractCandidates({o \in observations : o.host = host}) IN
  {ResolveGroup(g, pack, opts) : g \in {g \in MatchIdentities(cs) : ~Composes(pack, g.concept)}}
    \cup {ComposeConcept(k, {c \in cs : c.concept = k}, pack, opts) :
            k \in {k \in {c.concept : c \in cs} : Composes(pack, k)}}

\* Nothing claims more than a qualified resolution, nor than the ceiling.
CeilingFor(host, concept) ==
  LET of == {c \in Ceilings : c.host = host /\ c.concept = concept} IN
  IF of = {} THEN Parsed ELSE (CHOOSE c \in of : TRUE).level
ClampToCeiling(host, concept, level) ==
  IF level > CeilingFor(host, concept) THEN CeilingFor(host, concept) ELSE level
VerifyEntry(host, e, pack) ==
  LET ran == ~e.conflict /\ CapabilityQualified(pack, e.concept) /\ e.operator # "none"
      level == ClampToCeiling(host, e.concept, IF ran THEN MaxOf({e.level, Resolved}) ELSE e.level)
  IN IF e.conflict THEN [e EXCEPT !.level = level]
     ELSE [e EXCEPT !.level = level, !.confirmed = @ /\ level >= HostReported]

ComputeEffectiveGraph(host, observations, pack, opts) ==
  LET cs == ExtractCandidates({o \in observations : o.host = host})
      all == {VerifyEntry(host, e, pack) : e \in GraphEntries(host, observations, pack, opts)}
  IN [entries    |-> {e \in all : ~e.conflict},
      conflicts  |-> {e \in all : e.conflict},
      ambiguous  |-> AmbiguousIdentities(cs),
      duplicates |-> DuplicateCapabilities(ToolSources(cs, {})),
      candidates |-> cs]

-----------------------------------------------------------------------------
(* Properties of a graph; modules that have observations and packs as state *)
(* state them of theirs.                                                    *)

\* What a host does not need a resolver for, a resolver does not change: when
\* a pack comes to qualify a concept, every entry there was keeps the sources
\* it treats as active and as ignored and never gets less evidence (effective's
\* doc: gates before operators).
DecidedStays(before, after) ==
  \A e \in before.entries : \E f \in after.entries :
    /\ f.concept = e.concept /\ f.id = e.id /\ f.active = e.active /\ f.ignored = e.ignored
    /\ f.level >= e.level /\ (e.confirmed => f.confirmed)
=============================================================================
