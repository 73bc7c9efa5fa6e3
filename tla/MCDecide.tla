----------------------------- MODULE MCDecide -----------------------------
(***************************************************************************)
(* What OMCA decides: the desired state alone, over configurations that    *)
(* disagree in every way, and the staging of small ones.                   *)
(***************************************************************************)
EXTENDS Staging

VARIABLE part

Asset(kind, id) == [kind |-> kind, id |-> id]
s == Asset("skill", "s")
m == Asset("mcpServer", "m")
MCAssets == {s, m}
MCAssetOrder == <<m, s>>

Id(cat, name) == [category |-> cat, name |-> name]
me   == Id("personal", "me")
acme == Id("company", "acme")
emca == Id("company", "emca")
proj == Id("project", "proj")
red  == Id("vendor", "red")
blue == Id("vendor", "blue")
MCOtherCategories == <<"vendor">>

Ref(a, intent, hs) == [asset |-> a, intent |-> intent, hosts |-> hs]
Perm(intent, value) == [intent |-> intent, value |-> value]
Doc(id, refs, sandbox) == [id |-> id, refs |-> refs, sandbox |-> sandbox]
Bind(repo, paths, ids) == [repository |-> repo, paths |-> paths, profiles |-> ids]

All == {me, acme, proj}
Everywhere == Bind(<<"**">>, {}, All)
OnlyMain   == Bind(<<"src", "main">>, {<<"**">>}, {acme})
Elsewhere  == Bind(<<"src", "*", "x">>, {}, {emca})
NotHere    == Bind(<<"src", "*">>, {<<"docs", "**">>}, {emca})
BothAcmes  == Bind(<<"src", "*">>, {}, {acme, emca})
OneVendor  == Bind(<<"src", "*">>, {}, {red})
TwoVendors == Bind(<<"src", "*">>, {}, {red, blue})

\* Allows, denies, requires, contradicts itself, and asks for two identities, of
\* a category OMCA knows and of one it does not.
MCConfigs == {
  [profiles |-> <<Doc(me, {Ref(s, "AVAILABLE", {}), Ref(m, "DEFAULT", {"h1"})}, Perm("DEFAULT", "write")),
                  Doc(acme, {Ref(s, "DENIED", {"h1"})}, NoPermission),
                  Doc(proj, {Ref(s, "DEFAULT", {}), Ref(m, "AVAILABLE", {})}, Perm("DEFAULT", "full"))>>,
   bindings |-> <<Everywhere, Elsewhere>>],
  [profiles |-> <<Doc(me, {Ref(s, "REQUIRED", {}), Ref(m, "REQUIRED", {"h2"})}, Perm("REQUIRED", "write")),
                  Doc(acme, {Ref(s, "DENIED", {}), Ref(m, "DENIED", {"h1"})}, Perm("DENIED", "write")),
                  Doc(acme, {Ref(s, "DENIED", {"h1"}), Ref(s, "DEFAULT", {}), Ref(m, "DENIED", {"h1"})}, NoPermission)>>,
   bindings |-> <<Everywhere, NotHere>>],
  [profiles |-> <<Doc(me, {Ref(s, "REQUIRED", {}), Ref(m, "DEFAULT", {}), Ref(m, "AVAILABLE", {"h2"})}, NoPermission),
                  Doc(proj, {Ref(s, "DENIED", {"h2"}), Ref(m, "REQUIRED", {"h2"})}, Perm("REQUIRED", "bogus")),
                  Doc(red, {}, Perm("REQUIRED", "plan"))>>,
   bindings |-> <<Everywhere, OneVendor>>],
  [profiles |-> <<Doc(acme, {Ref(s, "DENIED", {})}, NoPermission),
                  Doc(emca, {Ref(s, "REQUIRED", {})}, NoPermission)>>,
   bindings |-> <<BothAcmes, OnlyMain>>],
  [profiles |-> <<Doc(me, {Ref(s, "DEFAULT", {})}, NoPermission),
                  Doc(blue, {Ref(s, "DENIED", {})}, Perm("DENIED", "write"))>>,
   bindings |-> <<Everywhere, TwoVendors>>] }

Ex(id, scope, until) == [id |-> id, scope |-> scope, until |-> until]
MCExceptionDocs == { <<>>, <<Ex("s", acme, 1)>>, <<Ex("s", me, 1), Ex("s", acme, 2)>>,
                     <<Ex("s", me, 2), Ex("m", acme, 1), Ex("s", proj, 1)>> }
MCSelections == {{}, {acme}, {emca, blue}}

Sel(on, off) == [enable |-> on, disable |-> off]
Act(neutral, h1, h2) ==
  [neutral |-> neutral, hosts |-> [h \in {"h1", "h2"} |-> IF h = "h1" THEN h1 ELSE h2]]
N == Sel({}, {})
MCHandWritten == {
  Act(Sel(MCAssets, {}), N, N), Act(Sel({}, MCAssets), Sel({s}, {}), N),
  Act(N, Sel({s, m}, {}), Sel({m}, {m})), Act(N, Sel({}, {s, m}), Sel({}, {s})),
  Act(Sel({m}, {s}), Sel({s}, {}), Sel({s}, {s})), Act(Sel({s}, {}), Sel({}, {s}), Sel({s, m}, {})) }

MCSandboxValues == [h \in {"h1", "h2"} |-> IF h = "h1" THEN <<"read", "write", "full">> ELSE <<"plan", "write">>]
MCHere == <<"src", "wt">>
MCMain == <<"src", "main">>

Change(target, hs, sel, perms) == [target |-> target, hosts |-> hs, select |-> sel, permissions |-> perms]
Proposal(cs) == [changes |-> cs, ownership |-> "managed", confirmation |-> "AUTO_STAGE"]
MCProposals == {
  Proposal({Change("Activation", {"h1"}, Sel({s}, {}), FALSE)}),
  Proposal({Change("Activation", {"h1"}, Sel({}, {s}), FALSE),
            Change("Activation", {"h2"}, Sel({s}, {m}), FALSE)}),
  Proposal({Change("Activation", {"h1"}, Sel({m}, {}), FALSE)}),
  Proposal({Change("Activation", {"h2"}, Sel({s}, {}), FALSE), Change("Profile", {}, N, TRUE)}),
  Proposal({Change("Activation", {"h1", "h2"}, Sel({s}, {}), FALSE)}),
  [Proposal({Change("Binding", {}, N, FALSE)}) EXCEPT !.ownership = "external"] }
\* A smaller world in which only what the project asks of the sandbox changes.
Asking(v) == [profiles |-> <<Doc(me, {Ref(s, "AVAILABLE", {}), Ref(m, "AVAILABLE", {})}, Perm("DEFAULT", "write")),
                             Doc(proj, {}, Perm("DEFAULT", v))>>,
              bindings |-> <<Everywhere, Elsewhere>>]
WConfigs == {Asking("write"), Asking("full")}
WExceptionDocs == {<<Ex("s", acme, 1)>>}
WSelections == {{acme}}
WHandWritten == {Act(N, N, N)}
WProposals == {Proposal({Change("Activation", {"h1"}, Sel({}, {s}), FALSE)})}

MCQualified == {"h1", "h2"} \X {"skill", "mcpServer"}
MCObservations == {[id |-> "AGENTS", concept |-> "instruction", scope |-> "workspace", readable |-> TRUE]}

\* Staging begins from the first configuration, with nothing selected by hand.
Init == /\ StagingInit /\ part \in {"desired", "staging"}
        /\ part = "staging" => Elsewhere \in ToSet(config.bindings) /\ Len(exceptions) = 1 /\ selection = {acme}
Next ==
  /\ UNCHANGED part
  /\ \/ /\ part = "desired" /\ DesiredNext
        /\ UNCHANGED <<observed, current, pending, report, job, commands, edits>>
     \/ part = "staging" /\ StagingNext /\ now' <= 1 /\ \E p \in Procs : commands < MaxCommands \/ ~Idle(p)
vars == <<part, stagingVars>>
Spec == Init /\ [][Next]_vars
=============================================================================
