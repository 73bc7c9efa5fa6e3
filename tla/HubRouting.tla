----------------------------- MODULE HubRouting -----------------------------
(***************************************************************************)
(* How the hub takes its configuration and finds the tool of a connection: *)
(* LoadConfig with the digest sidecar (internal/hub/config.go), New and    *)
(* handleConn (hub.go), env files (vault.go).  harness.json is rendered by *)
(* another program, and edited by hand.                                    *)
(***************************************************************************)
EXTENDS Naturals, Sequences, SequencesExt

CONSTANTS
  Harness,        \* contents harness.json may have: a function to configurations
  Missing,        \* no file, no sidecar, no running hub, nothing resolved
  EnvValues,      \* what an env file may define the one variable as
  Requests,       \* [profile, cwd, server] of attaching connections
  MaxWrites       \* renderings, hand edits and rewritten env files

(* A configuration is [shared, legacy : server -> tool,                     *)
(*   profiles : name -> [roots, envFiles, tools : server -> tool],          *)
(*   secretLiteral : BOOLEAN]; a tool is [name, command, allow].  A path is *)
(* a sequence of text fragments: prefixes are prefixes of the text.         *)
(* A name is the sequence of its parts between colons, so that joining two  *)
(* names with ":" is concatenation: "a" and "b:c" join to the same key as   *)
(* "a:b" and "c", as they do in the code.                                   *)

\* The empty name: a request that names no profile.
Unnamed == <<"">>

ASSUME HarnessAssumption ==
  \A h \in DOMAIN Harness : DOMAIN Harness[h].shared \subseteq Seq(STRING)

VARIABLES
  harness, sidecar,       \* the file's content, the digest recorded beside it
  rendering,              \* content whose sidecar the renderer has still to write
  envFile,                \* env file -> value, or Missing, or "unreadable"
  starting,               \* LoadConfig between reading the file and the sidecar
  loaded, registered,     \* the running hub's configuration; instance key -> tool
  routes,                 \* request -> the instance key of its connection, once attached
  trusted, writes

routingVars == <<harness, sidecar, rendering, envFile, starting, loaded, registered,
                 routes, trusted, writes>>

Contents == DOMAIN Harness
EnvFilePaths ==
  UNION {UNION {Range(Harness[h].profiles[p].envFiles) : p \in DOMAIN Harness[h].profiles}
           : h \in Contents}
NoTools == [k \in {} |-> Missing]

RoutingInit ==
  /\ harness = Missing /\ sidecar = Missing /\ rendering = Missing
  /\ envFile = [f \in EnvFilePaths |-> Missing]
  /\ starting = Missing /\ loaded = Missing /\ registered = NoTools
  /\ routes = [r \in Requests |-> {}]
  /\ trusted = {} /\ writes = 0

-----------------------------------------------------------------------------
(* Around the hub: the renderer, a person, env files.                       *)

RenderHarness(h) ==
  /\ writes < MaxWrites /\ writes' = writes + 1 /\ rendering = Missing
  /\ harness' = h /\ rendering' = h
  /\ trusted' = trusted \cup {h}
  /\ UNCHANGED <<sidecar, envFile, starting, loaded, registered, routes>>
RenderSidecar ==
  /\ rendering # Missing
  /\ sidecar' = rendering /\ rendering' = Missing
  /\ UNCHANGED <<harness, envFile, starting, loaded, registered, routes, trusted, writes>>

HandEdit(h) ==
  /\ writes < MaxWrites /\ writes' = writes + 1
  /\ harness' = h
  /\ UNCHANGED <<sidecar, rendering, envFile, starting, loaded, registered, routes, trusted>>

EnvFileWritten(f, v) ==
  /\ writes < MaxWrites /\ writes' = writes + 1
  /\ envFile' = [envFile EXCEPT ![f] = v]
  /\ UNCHANGED <<harness, sidecar, rendering, starting, loaded, registered, routes, trusted>>

-----------------------------------------------------------------------------
(* LoadConfig and New.                                                      *)

\* validateSecretLiterals, validateSharedToolsAllowList: accepting a hand edit
\* does not pass over these.
Valid(cfg) ==
  /\ ~cfg.secretLiteral
  /\ \A s \in DOMAIN cfg.shared : cfg.shared[s].allow

ReadHarness ==
  /\ loaded = Missing /\ starting = Missing /\ harness # Missing
  /\ Valid(Harness[harness])
  /\ starting' = harness
  /\ UNCHANGED <<harness, sidecar, rendering, envFile, loaded, registered, routes, trusted, writes>>

\* LoadEnvFiles and HydrateToolConfig: later files win, absent ones are passed
\* over, and one that cannot be read leaves the profile with no values at all,
\* which New does not report.
EnvOf(cfg, p) ==
  LET files == SelectSeq(cfg.profiles[p].envFiles, LAMBDA f : envFile[f] # Missing)
  IN IF files = <<>> \/ "unreadable" \in {envFile[f] : f \in Range(files)}
     THEN Missing ELSE envFile[Last(files)]

Hydrated(tool, env) == [command |-> tool.command, env |-> env]

SharedKey(s) == <<"shared">> \o s       \* "shared:" + name
ProfileKey(p, s) == p \o s             \* profile + ":" + name

ProfileTools(cfg, k) ==
  UNION {{Hydrated(cfg.profiles[p].tools[s], EnvOf(cfg, p))
            : s \in {x \in DOMAIN cfg.profiles[p].tools :
                       ProfileKey(p, cfg.profiles[p].tools[x].name) = k}}
         : p \in DOMAIN cfg.profiles}
PoolTools(cfg, k) ==
  {Hydrated(cfg.shared[s], Missing) : s \in {x \in DOMAIN cfg.shared : SharedKey(x) = k}}
LegacyTools(cfg, k) ==
  {Hydrated(cfg.legacy[s], Missing) : s \in {x \in DOMAIN cfg.legacy : cfg.legacy[x].name = k}}

Else(a, b) == IF a # {} THEN a ELSE b

\* The later registration of a key wins (of two profiles', that of the one the
\* map yields last), but a legacy tool gives way.
RegisteredTool(cfg, k) == Else(ProfileTools(cfg, k), Else(PoolTools(cfg, k), LegacyTools(cfg, k)))

RegisteredByName(cfg) ==                \* mutant: shared tools under their name field, too
  LET keys == {SharedKey(cfg.shared[s].name) : s \in DOMAIN cfg.shared}
  IN {[k \in keys |-> Hydrated(cfg.shared[CHOOSE s \in DOMAIN cfg.shared :
                                            SharedKey(cfg.shared[s].name) = k], Missing)]}
\* New: shared tools under their key in the file, profile and legacy tools
\* under their name field.
RegisteredBy(cfg) ==
  LET keys == {SharedKey(s) : s \in DOMAIN cfg.shared}
      named(p) == {ProfileKey(p, cfg.profiles[p].tools[s].name)
                     : s \in DOMAIN cfg.profiles[p].tools}
      legacy == {cfg.legacy[s].name : s \in DOMAIN cfg.legacy}
      all == keys \cup legacy \cup (UNION {named(p) : p \in DOMAIN cfg.profiles})
      contested == {k \in all : \E t, u \in RegisteredTool(cfg, k) : t # u}
      Winners == {w \in [contested -> UNION {RegisteredTool(cfg, k) : k \in contested}] :
                    \A k \in contested : w[k] \in RegisteredTool(cfg, k)}
  IN {[k \in all |-> IF k \in contested THEN w[k]
                     ELSE CHOOSE t \in RegisteredTool(cfg, k) : TRUE] : w \in Winners}

\* checkDigestSidecar, then the hub runs: no sidecar is trust on first use, and
\* a mismatch is accepted only when asked to; both record the digest.
StartUnchecked(accept) ==               \* mutant: a mismatch is reported and passed
  /\ starting # Missing
  /\ trusted' = IF sidecar = Missing \/ accept THEN trusted \cup {starting} ELSE trusted
  /\ sidecar' = starting /\ loaded' = starting
  /\ registered' \in RegisteredBy(Harness[starting])
  /\ starting' = Missing
  /\ UNCHANGED <<harness, rendering, envFile, routes, writes>>
StartHub(accept) ==
  /\ starting # Missing
  /\ sidecar \in {Missing, starting} \/ accept
  /\ trusted' = IF sidecar # starting THEN trusted \cup {starting} ELSE trusted
  /\ sidecar' = starting /\ loaded' = starting
  /\ registered' \in RegisteredBy(Harness[starting])
  /\ starting' = Missing
  /\ UNCHANGED <<harness, rendering, envFile, routes, writes>>
RefuseStart ==
  /\ starting # Missing /\ sidecar \notin {Missing, starting}
  /\ starting' = Missing
  /\ UNCHANGED <<harness, sidecar, rendering, envFile, loaded, registered, routes, trusted, writes>>

StopHub ==
  /\ loaded # Missing
  /\ loaded' = Missing /\ registered' = NoTools /\ routes' = [r \in Requests |-> {}]
  /\ UNCHANGED <<harness, sidecar, rendering, envFile, starting, trusted, writes>>

-----------------------------------------------------------------------------
(* ResolveServer and handleConn.                                            *)

Resolved(key, tool, env) == {[key |-> key, command |-> tool.command, env |-> env]}
NotFound == {}
NotServed == <<>>                   \* no key

OwnTool(cfg, p, s) ==
  IF s \in DOMAIN cfg.profiles[p].tools
  THEN Resolved(ProfileKey(p, s), cfg.profiles[p].tools[s], EnvOf(cfg, p)) ELSE NotFound
SharedTool(cfg, s) ==
  IF s \in DOMAIN cfg.shared THEN Resolved(SharedKey(s), cfg.shared[s], Missing) ELSE NotFound
LegacyTool(cfg, s) ==
  IF s \in DOMAIN cfg.legacy THEN Resolved(s, cfg.legacy[s], Missing) ELSE NotFound

\* The profiles of the longest root the directory's text starts with; of several
\* the code takes the first in the map's order.
DetectedProfiles(cfg, cwd) ==
  LET hits(p) == {root \in Range(cfg.profiles[p].roots) : IsPrefix(root, cwd)}
  IN {p \in DOMAIN cfg.profiles : \E root \in hits(p) :
        \A q \in DOMAIN cfg.profiles : \A other \in hits(q) : Len(other) <= Len(root)}

\* What a request may resolve to: one outcome, or several where the order of a
\* map decides.
ResolveServer(cfg, r) ==
  LET everyone == SharedTool(cfg, r.server)
      own(p) == OwnTool(cfg, p, r.server)
      detected == DetectedProfiles(cfg, r.cwd)
  IN IF r.profile # Unnamed
     THEN IF r.profile \in DOMAIN cfg.profiles /\ cfg.profiles[r.profile].roots # <<>>
          THEN Else(own(r.profile), everyone) ELSE NotFound
     ELSE IF detected # {}
     THEN UNION {Else(own(p), Else(everyone, LegacyTool(cfg, r.server))) : p \in detected}
     ELSE Else(everyone, Else(LegacyTool(cfg, r.server),
                              UNION {own(p) : p \in DOMAIN cfg.profiles}))

\* A connection's tool: registered, or registered now; a profile named and not
\* resolved is refused, and any other name is taken for a key as it is.
Attach(r) ==
  /\ loaded # Missing /\ routes[r] = {}
  /\ LET found == ResolveServer(Harness[loaded], r) IN
     \/ \E t \in found :
          /\ registered' = [k \in DOMAIN registered \cup {t.key} |->
                              IF k \in DOMAIN registered THEN registered[k]
                              ELSE [command |-> t.command, env |-> t.env]]
          /\ routes' = [routes EXCEPT ![r] = {t.key}]
     \/ /\ found = {}
        /\ routes' = [routes EXCEPT ![r] = {IF r.profile = Unnamed THEN r.server ELSE NotServed}]
        /\ UNCHANGED registered
  /\ UNCHANGED <<harness, sidecar, rendering, envFile, starting, loaded, trusted, writes>>

RoutingNext ==
  \/ \E h \in Contents : RenderHarness(h) \/ HandEdit(h)
  \/ RenderSidecar
  \/ \E f \in EnvFilePaths, v \in EnvValues \cup {"unreadable"} : EnvFileWritten(f, v)
  \/ ReadHarness \/ RefuseStart \/ StopHub
  \/ \E accept \in BOOLEAN : StartHub(accept)
  \/ \E r \in Requests : Attach(r)

RoutingSpec == RoutingInit /\ [][RoutingNext]_routingVars

-----------------------------------------------------------------------------
\* A running hub's configuration was rendered, or was there when no digest was
\* recorded, or was accepted by name: whatever was written, in whatever order,
\* between the reading of the file and that of the sidecar.
HandEditNeedsConsent == loaded # Missing => loaded \in trusted

\* What a profile's section of the file lists to be run.
Commands(cfg, p) == {cfg.profiles[p].tools[s].command : s \in DOMAIN cfg.profiles[p].tools}

\* The keys New and the connections register tools under.
PoolKeys(cfg) == {SharedKey(s) : s \in DOMAIN cfg.shared}
LegacyKeys(cfg) == DOMAIN cfg.legacy \cup {cfg.legacy[s].name : s \in DOMAIN cfg.legacy}
ProfileKeys(cfg, p) ==
  LET tools == cfg.profiles[p].tools IN
  {ProfileKey(p, s) : s \in DOMAIN tools} \cup {ProfileKey(p, tools[s].name) : s \in DOMAIN tools}

\* No name of the file, joined, reads like one of another section.
KeysApart(cfg) ==
  /\ PoolKeys(cfg) \cap LegacyKeys(cfg) = {}
  /\ \A p \in DOMAIN cfg.profiles :
       /\ ProfileKeys(cfg, p) \cap (PoolKeys(cfg) \cup LegacyKeys(cfg)) = {}
       /\ \A q \in DOMAIN cfg.profiles \ {p} : ProfileKeys(cfg, p) \cap ProfileKeys(cfg, q) = {}

\* profile = workspace: of a connection that names a profile, the tool is that
\* profile's own or one of the shared pool, whatever other requests, and New,
\* have registered by then; and what runs is what the file lists there.
Isolated(r) ==
  LET cfg == Harness[loaded] IN
  r.profile # Unnamed => \A key \in routes[r] \ {NotServed} :
    \/ /\ key = SharedKey(r.server) /\ r.server \in DOMAIN cfg.shared
       /\ registered[key].command = cfg.shared[r.server].command
    \/ /\ key = ProfileKey(r.profile, r.server)
       /\ registered[key].command \in Commands(cfg, r.profile)

\* So it is as long as the sections' joined names keep apart: tools listed under
\* a key and named otherwise, names with colons in them, and connections that
\* name no profile, or a key instead of a server, change nothing.
ProfileIsolated ==
  loaded # Missing /\ KeysApart(Harness[loaded]) => \A r \in Requests : Isolated(r)

\* "strictly never cross-leak to other profiles" (config.go:117): whatever the
\* profiles and the tools are called.
PoolKeptApart == loaded # Missing => \A r \in Requests : Isolated(r)

=============================================================================
