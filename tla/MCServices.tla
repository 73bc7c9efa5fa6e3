---------------------------- MODULE MCServices ----------------------------
(***************************************************************************)
(* The services of the hub beside its tools, side by side: `service` says  *)
(* which one a behaviour is about, and the others stay as they begin.      *)
(***************************************************************************)
EXTENDS WorkerPool, RenderCheck, SessionWatcher, HubRouting, Watchdog

CONSTANTS p1, p2, p3, id1, id2

VARIABLE service

MCCallers == {p1, p2, p3}
MCKindOf  == [c \in MCCallers |-> IF c = p3 THEN "batch" ELSE "task"]
MCLimit   == [k \in Kinds |-> 1]

MCSweep  == <<<<"a", "r1">>, <<"a", "r2">>, <<"b", "r2">>>>
MCRootOf == [c \in {"c1", "c2"} |-> IF c = "c1" THEN "r1" ELSE "r2"]

MCWatched == <<"a", "b">>

N(x) == <<x>>                       \* a name without a colon
Tool(name, command, allow) == [name |-> name, command |-> command, allow |-> allow]
One(s, t) == [x \in {s} |-> t]
Profile(roots, env, command) ==
  [roots |-> roots, envFiles |-> env,
   tools |-> One(N("mem"), Tool(N("mem"), command, FALSE))]

\* b shares a's root and has one of its own, and names its tool otherwise than it
\* lists it; c declares no root; "a:z" has a colon, as a legacy tool has.
MCProfiles == [p \in {N("a"), N("b"), N("c"), <<"a", "z">>} |->
  CASE p = N("a") -> Profile(<<<<"w", "a">>>>, <<"f1", "f2">>, "memA")
    [] p = N("b") -> [Profile(<<<<"w", "a">>, <<"w", "b">>>>, <<"f2">>, "memB")
                        EXCEPT !.tools = One(N("mem"), Tool(N("store"), "memB", FALSE))]
    [] p = N("c") -> Profile(<<>>, <<>>, "memC")
    [] p = <<"a", "z">> -> Profile(<<<<"v">>>>, <<>>, "memZ")]
Rendered == [shared |-> [s \in {N("web"), N("kb")} |->
                           IF s = N("web") THEN Tool(N("kb"), "web1", TRUE)
                           ELSE Tool(N("x"), "kb1", TRUE)],
             legacy |-> One(<<"a", "old">>, Tool(N("old"), "old1", FALSE)),
             profiles |-> MCProfiles, secretLiteral |-> FALSE]
MCHarness == [h \in {"h1", "h2", "h3"} |->
  CASE h = "h1" -> Rendered
    [] h = "h2" -> [Rendered EXCEPT !.profiles = [p \in {N("a")} |-> MCProfiles[N("a")]]]
    [] h = "h3" -> [Rendered EXCEPT !.secretLiteral = TRUE]]

\* Names that join to one key: a profile called like the pool, with a tool called
\* like one of the pool's; "a" with "z:mem" and "a:z" with "mem"; and a legacy
\* tool called like b's.
MCHarnessClash == [h \in {"pool", "colon", "legacy"} |->
  CASE h = "pool" ->
         [Rendered EXCEPT !.shared = One(N("mem"), Tool(N("mem"), "pool", TRUE)),
                          !.profiles = [p \in {N("a"), N("shared")} |->
                            IF p = N("a") THEN [MCProfiles[N("a")] EXCEPT !.tools = [x \in {} |-> Missing]]
                            ELSE MCProfiles[N("c")]]]
    [] h = "colon" ->
         [Rendered EXCEPT !.profiles[N("a")].tools =
            One(<<"z", "mem">>, Tool(<<"z", "mem">>, "memA", FALSE))]
    [] h = "legacy" ->
         [Rendered EXCEPT !.legacy = One(<<"b", "mem">>, Tool(<<"b", "mem">>, "old1", FALSE))]]
Ask(p, c, s) == [profile |-> p, cwd |-> c, server |-> s]
MCRequests == {Ask(N("a"), <<>>, N("mem")), Ask(N("a"), <<>>, N("kb")), Ask(N("c"), <<>>, N("mem")),
               Ask(N("b"), <<>>, N("mem")), Ask(Unnamed, <<>>, <<"b", "mem">>),
               Ask(Unnamed, <<"w", "a", "x">>, N("mem")), Ask(Unnamed, <<"z">>, <<"a", "old">>)}
MCRequestsClash == {Ask(N("a"), <<>>, N("mem")), Ask(N("a"), <<>>, <<"z", "mem">>),
                    Ask(N("b"), <<>>, N("mem"))}

Init == /\ PoolInit /\ RenderInit /\ SessionInit /\ RoutingInit /\ WatchdogInit
        /\ service \in {"pool", "render", "session", "routing", "watchdog"}
Next ==
  /\ UNCHANGED service
  /\ \/ /\ service = "pool" /\ PoolNext
        /\ UNCHANGED <<renderVars, watcherVars, routingVars, text>>
     \/ /\ service = "render" /\ RenderNext
        /\ UNCHANGED <<poolVars, watcherVars, routingVars, text>>
     \/ /\ service = "session" /\ SessionNext
        /\ UNCHANGED <<poolVars, renderVars, routingVars, text>>
     \/ /\ service = "routing" /\ RoutingNext
        /\ UNCHANGED <<poolVars, renderVars, watcherVars, text>>
     \/ /\ service = "watchdog" /\ CharArrives
        /\ UNCHANGED <<poolVars, renderVars, watcherVars, routingVars>>
vars == <<service, poolVars, renderVars, watcherVars, routingVars, text>>
Spec == /\ Init /\ [][Next]_vars
        /\ PoolFairness /\ RenderFairness /\ SessionFairness
=============================================================================
