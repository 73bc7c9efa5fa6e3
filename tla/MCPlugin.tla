------------------------------ MODULE MCPlugin ------------------------------
(* A registry's loader and two callers over one plugin process. *)
EXTENDS PluginTransport

MCManifest(hosts, major, valid) == [hosts |-> hosts, major |-> major, valid |-> valid]
\* A manifest for two hosts, whose second registration overlaps the first, and
\* one of another contract.
MCManifests == {MCManifest(<<"h1", "h2">>, 1, TRUE), MCManifest(<<"h3">>, 2, TRUE)}
=============================================================================
