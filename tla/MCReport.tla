------------------------------ MODULE MCReport ------------------------------
(* Two hosts: the first one's sources and pack change, the second has fewer *)
(* packs; reports are built once everything has settled.                    *)
EXTENDS DriftReport, TLC

MCSource(h, concept, name, place, scope, digest, level, disposition) ==
  [host |-> h, concept |-> concept, root |-> scope, name |-> name, kind |-> "file", place |-> place,
   scope |-> scope, disposition |-> disposition, level |-> level, digest |-> digest,
   format |-> "none", servers |-> [x \in {} |-> <<>>]]
MCTable(o, format, table) == [o EXCEPT !.format = format, !.servers = table]
MCCommand(c) == <<"command">> :> c
MCServer(def, tools) == [object |-> TRUE, def |-> def, tools |-> tools]
MCNoObject == [object |-> FALSE, def |-> [x \in {} |-> <<>>], tools |-> {}]

\* Sources that differ; a denied copy among agreeing ones; servers of one id
\* that differ, of two ids that agree, over two transports; tables that merge, a
\* server that is no object, a file that has no table and one with an empty one.
MCOf(h) == {
  {MCSource(h, "skill", "n", 1, "user", "a", 1, "DISCOVERED"),
   MCSource(h, "skill", "n", 2, "project", "b", 1, "DISCOVERED"),
   MCSource(h, "instruction", "3", 3, "user", "a", 1, "DISCOVERED"),
   MCSource(h, "instruction", "4", 4, "project", "b", 1, "DISCOVERED")},
  {MCSource(h, "skill", "n", 1, "user", "a", 3, "DISCOVERED"),
   MCSource(h, "skill", "n", 2, "managed", "a", 1, "DENIED"),
   MCSource(h, "skill", "n", 3, "project", "a", 1, "DISCOVERED")},
  {MCTable(MCSource(h, "mcp_server", "1", 1, "user", "a", 1, "DISCOVERED"), "json",
           ("x" :> MCServer(MCCommand("1"), {"t"})) @@ ("y" :> MCServer(MCCommand("1"), {})) @@ ("z" :> MCNoObject)),
   MCTable(MCSource(h, "mcp_server", "2", 2, "project", "b", 1, "DISCOVERED"), "toml",
           ("x" :> MCServer(MCCommand("2") @@ (<<"url">> :> "u"), {})) @@ ("y" :> MCServer(MCCommand("2"), {})))},
  {MCTable(MCSource(h, "mcp_server", "1", 1, "user", "a", 1, "DISCOVERED"), "json",
           "y" :> MCServer(MCCommand("1") @@ (<<"env", "A">> :> "1"), {})),
   MCTable(MCSource(h, "mcp_server", "2", 2, "managed", "b", 1, "DISCOVERED"), "toml",
           "y" :> MCServer(MCCommand("1") @@ (<<"env", "B">> :> "2"), {})),
   MCSource(h, "mcp_server", "3", 3, "project", "b", 2, "DISCOVERED"),
   MCTable(MCSource(h, "mcp_server", "4", 4, "project", "c", 1, "DISCOVERED"), "json", [x \in {} |-> <<>>])} }
MCObservations == MCOf("h1") \cup MCOf("h2")

MCProgram(concept, operator) == [concept |-> concept, operator |-> operator]
MCPacks ==
  {[programs |-> {MCProgram("skill", op), MCProgram("mcp_server", op2), MCProgram("instruction", "CONCAT_ORDERED")},
    resolve |-> [c \in {"skill", "mcp_server", "instruction"} |-> q]] :
      op \in Operators, op2 \in {"UNION_BY_ID", "DEEP_MERGE", "none"}, q \in {"UNKNOWN", "EXACT"}}
MCFew == CHOOSE k \in MCPacks : k.resolve["skill"] = "EXACT" /\ MCProgram("skill", "DENY_WINS") \in k.programs

MCRank == ("user" :> 1) @@ ("project" :> 2) @@ ("managed" :> 3)
MCOptions == {NoOptions,
              [rank |-> MCRank, priority |-> <<"managed", "user", "project">>, denied |-> {<<1>>}],
              [NoOptions EXCEPT !.rank = "user" :> 1, !.priority = <<"user">>],
              [NoOptions EXCEPT !.rank = [s \in DOMAIN MCRank |-> -1 - MCRank[s]]]}

MCException(asset, scope, until) == [asset |-> asset, scope |-> scope, until |-> until]
MCExceptions ==
  {{}, {MCException(<<"skill", <<"n", "file">>>>, <<"none", "no program", "skill", 2>>, 1),
        MCException(<<"host", <<"h1">>>>, <<"no pack for", "h1">>, 2),
        MCException(<<"e">>, <<"p">>, 1), MCException(<<"e">>, <<"q">>, 2)}}
MCSignal(h, field, category, found, asset) ==
  [host |-> h, entity |-> <<"e">>, field |-> field, category |-> category, expected |-> "1", found |-> found,
   cause |-> <<"p">>, remediation |-> <<"edit">>, adapter |-> "a1", asset |-> asset, scopes |-> {<<"p">>}]
MCForeign == {MCSignal("h1", "f", "CONFIG_DRIFT", "2", <<"e">>), MCSignal("h2", "f", "UNKNOWN", "2", <<"e">>),
              MCSignal("h1", "g", "CONFIG_DRIFT", "1", <<"e">>), MCSignal("h2", "g", "CAPABILITY_GAP", "2", <<"z">>)}
MCCompiled == [host : {"h1", "h2"}, concept : {"skill", "mcp_server"}, place : {1}, included : {TRUE}]
  \cup [host : {"h1"}, concept : {"mcp_server"}, place : {2}, included : {FALSE}]
MCCeilings == {[host |-> "h1", concept |-> "skill", level |-> 2]}

Init == ReportInit /\ \A h \in ReportHosts : observed[h] \in MCOf(h)
Next == /\ ReportNext
        /\ artifact # NoReport => UNCHANGED <<installed, observed, pack, exceptions>>
        /\ pack'["h2"] \in {NoPack, MCFew}
        /\ \A h \in ReportHosts : observed'[h] \in MCOf(h)
Spec == Init /\ [][Next]_reportVars
=============================================================================
