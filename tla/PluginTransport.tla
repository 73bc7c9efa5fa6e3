--------------------------- MODULE PluginTransport ---------------------------
(***************************************************************************)
(* A host adapter in a process of its own (internal/plugin/transport): the *)
(* calls of RemoteAdapter, one at a time under its mutex, the pipes, the   *)
(* plugin's Serve loop, and the registry the adapter is entered into       *)
(* (internal/plugin).  The plugin is foreign code: it may answer wrongly,  *)
(* not at all, exit, or stop reading.                                      *)
(***************************************************************************)
EXTENDS Naturals, Sequences, SequencesExt

CONSTANTS
  AdapterCallers, Loader,   \* the loader's handshake has no deadline
  Manifests,                \* [hosts : sequence of host ids, major, valid]
  ContractMajor,
  Results,                  \* what the adapter's methods come to
  NoOne,
  MaxCalls, MaxFaults, PipeSize

\* What a call of the adapter comes to: the contract's errors keep their class,
\* any other error is "failed".
ResultClasses == {"ok", "notDetected", "unsupported", "denied", "failed"}

ASSUME TransportAssumption ==
  /\ Loader \in AdapterCallers /\ NoOne \notin AdapterCallers
  /\ Results \subseteq ResultClasses
  /\ MaxCalls \in Nat /\ MaxFaults \in Nat /\ PipeSize \in Nat \ {0}

VARIABLES
  adapter,                  \* "none", "handshake", "ready", "failed", "closing", "gone"
  pcall, callId, outcome,   \* of each caller
  over,                     \* callers whose context is over
  pmu, nextID,              \* r.mu, r.nextID
  toPlugin, fromPlugin,     \* the pipes
  saying,                   \* what the plugin has still to write
  stdinClosed, stdoutClosed,
  plugin,                   \* "running", "deaf" (reads no more), "exited"
  answered,                 \* id -> what the adapter returned for it
  adapters,                 \* the registry: host id -> manifest
  faults

transportVars == <<adapter, pcall, callId, outcome, over, pmu, nextID, toPlugin, fromPlugin,
                   saying, stdinClosed, stdoutClosed, plugin, answered, adapters, faults>>
pipes == <<toPlugin, fromPlugin, saying, stdinClosed, stdoutClosed>>

NoOutcome == [kind |-> "none"]

TransportInit ==
  /\ adapter = "none"
  /\ pcall = [c \in AdapterCallers |-> "idle"] /\ callId = [c \in AdapterCallers |-> 0]
  /\ outcome = [c \in AdapterCallers |-> NoOutcome] /\ over = {}
  /\ pmu = NoOne /\ nextID = 0
  /\ toPlugin = <<>> /\ fromPlugin = <<>> /\ saying = <<>>
  /\ stdinClosed = FALSE /\ stdoutClosed = FALSE /\ plugin = "running" /\ answered = <<>> /\ adapters = [h \in {} |-> NoOne] /\ faults = 0

-----------------------------------------------------------------------------
(* RemoteAdapter.                                                           *)

BeginCall(c) ==
  /\ pcall[c] = "idle" /\ nextID < MaxCalls
  /\ IF c = Loader THEN adapter = "none" /\ adapter' = "handshake"
     ELSE adapter = "ready" /\ c \notin over /\ UNCHANGED adapter
  /\ pcall' = [pcall EXCEPT ![c] = "lock"]
  /\ UNCHANGED <<outcome, callId, over, pmu, nextID, pipes, plugin, answered, adapters, faults>>

LockAdapter(c) ==
  /\ pcall[c] = "lock" /\ pmu = NoOne
  /\ pmu' = c /\ nextID' = nextID + 1
  /\ callId' = [callId EXCEPT ![c] = nextID + 1]
  /\ outcome' = [outcome EXCEPT ![c] = NoOutcome]
  /\ pcall' = [pcall EXCEPT ![c] = "write"]
  /\ UNCHANGED <<adapter, over, pipes, plugin, answered, adapters, faults>>

\* A call's end: the mutex is given back; the handshake's caches the manifest,
\* or closes what was started.
EndCall(c, what) ==
  /\ outcome' = [outcome EXCEPT ![c] = what]
  /\ pcall' = [pcall EXCEPT ![c] = "idle"]
  /\ pmu' = NoOne /\ over' = over \ {c}
  /\ adapter' = IF c # Loader THEN adapter
                ELSE IF what.kind = "answer" THEN "ready" ELSE "failed"

Failed == [kind |-> "failed"]

\* The write blocks while the pipe is full; the context is not looked at.
WriteRequest(c) ==
  /\ pcall[c] = "write"
  /\ \/ /\ plugin # "exited" /\ ~stdinClosed /\ Len(toPlugin) < PipeSize
        /\ toPlugin' = Append(toPlugin, callId[c])
        /\ pcall' = [pcall EXCEPT ![c] = "read"]
        /\ UNCHANGED <<outcome, pmu, over, adapter>>
     \/ /\ plugin = "exited" \/ stdinClosed
        /\ EndCall(c, Failed) /\ UNCHANGED toPlugin
  /\ UNCHANGED <<callId, nextID, fromPlugin, saying, stdinClosed, stdoutClosed, plugin, answered,
                 adapters, faults>>

\* classifyErr and errorFromRPC: three errors of the contract have codes.
ClassifyErr(result) ==
  CASE result = "notDetected" -> 32001 [] result = "unsupported" -> 32002
    [] result = "denied" -> 32003 [] OTHER -> 32000
ErrorFromRPC(code) ==
  CASE code = 32001 -> "notDetected" [] code = 32002 -> "unsupported"
    [] code = 32003 -> "denied" [] OTHER -> "failed"

Reply(id, result) ==
  IF result = "ok" THEN [id |-> id, code |-> 0] ELSE [id |-> id, code |-> ClassifyErr(result)]

\* What a call makes of one line of the plugin's output.
JudgeAnyId(id, line) ==                 \* mutant: the id is not compared
  IF line.code = 0 THEN [kind |-> "answer", result |-> "ok"]
  ELSE [kind |-> "answer", result |-> ErrorFromRPC(line.code)]
Judge(id, line) ==
  IF line.id # id THEN Failed
  ELSE IF line.code = 0 THEN [kind |-> "answer", result |-> "ok"]
  ELSE [kind |-> "answer", result |-> ErrorFromRPC(line.code)]

\* Lines the scanner had buffered when stdout was closed are left out: they are
\* answers to earlier calls, and fail this one like a closed pipe does.
ReadReply(c) ==
  /\ pcall[c] = "read"
  /\ \/ /\ fromPlugin # <<>> /\ ~stdoutClosed
        /\ EndCall(c, Judge(callId[c], Head(fromPlugin)))
        /\ fromPlugin' = Tail(fromPlugin)
     \/ /\ stdoutClosed \/ (plugin = "exited" /\ fromPlugin = <<>>)
        /\ EndCall(c, Failed)
        /\ UNCHANGED fromPlugin
  /\ UNCHANGED <<callId, nextID, toPlugin, saying, stdinClosed, stdoutClosed, plugin, answered,
                 adapters, faults>>

\* The context ends while the answer is awaited: stdout is closed for good.
CancelKeepsLock(c) ==                   \* mutant: this way out forgets the mutex
  /\ pcall[c] = "read" /\ c \in over
  /\ stdoutClosed' = TRUE
  /\ outcome' = [outcome EXCEPT ![c] = Failed] /\ pcall' = [pcall EXCEPT ![c] = "idle"]
  /\ over' = over \ {c}
  /\ UNCHANGED <<adapter, pmu, callId, nextID, toPlugin, fromPlugin, saying, stdinClosed, plugin,
                 answered, adapters, faults>>
CancelCall(c) ==
  /\ pcall[c] = "read" /\ c \in over
  /\ stdoutClosed' = TRUE
  /\ EndCall(c, Failed)
  /\ UNCHANGED <<callId, nextID, toPlugin, fromPlugin, saying, stdinClosed, plugin, answered,
                 adapters, faults>>

ContextEnds(c) ==
  /\ c # Loader /\ pcall[c] # "idle" /\ c \notin over
  /\ over' = over \cup {c}
  /\ UNCHANGED <<adapter, pcall, callId, outcome, pmu, nextID, pipes, plugin, answered,
                 adapters, faults>>

\* Close, by who loaded the adapter: stdin is closed, and the exit of the plugin
\* waited for with the mutex held.
CloseAdapter ==
  /\ adapter \in {"ready", "failed"} /\ pmu = NoOne
  /\ adapter' = "closing" /\ pmu' = Loader /\ stdinClosed' = TRUE
  /\ UNCHANGED <<pcall, callId, outcome, over, nextID, toPlugin, fromPlugin, saying, stdoutClosed,
                 plugin, answered, adapters, faults>>
Waited ==
  /\ adapter = "closing" /\ plugin = "exited"
  /\ adapter' = "gone" /\ pmu' = NoOne /\ stdoutClosed' = TRUE
  /\ UNCHANGED <<pcall, callId, outcome, over, nextID, toPlugin, fromPlugin, saying, stdinClosed,
                 plugin, answered, adapters, faults>>

-----------------------------------------------------------------------------
(* The plugin: Serve, and what foreign code may do instead.                 *)

Serve ==
  /\ plugin = "running" /\ saying = <<>> /\ toPlugin # <<>>
  /\ \E result \in Results :
       /\ answered' = Append(answered, <<Head(toPlugin), result>>)
       /\ saying' = <<Reply(Head(toPlugin), result)>>
  /\ toPlugin' = Tail(toPlugin)
  /\ UNCHANGED <<adapter, pcall, callId, outcome, over, pmu, nextID, fromPlugin, stdinClosed,
                 stdoutClosed, plugin, adapters, faults>>
\* The write blocks while the pipe is full.  Nobody reads a closed one: Serve ends
\* with the error, foreign code may go on.
Say ==
  /\ plugin = "running" /\ saying # <<>> /\ saying' = Tail(saying)
  /\ \/ /\ ~stdoutClosed /\ Len(fromPlugin) < PipeSize
        /\ fromPlugin' = Append(fromPlugin, Head(saying)) /\ UNCHANGED plugin
     \/ /\ stdoutClosed
        /\ plugin' \in {"running", "exited"} /\ UNCHANGED fromPlugin
  /\ UNCHANGED <<adapter, pcall, callId, outcome, over, pmu, nextID, toPlugin, stdinClosed,
                 stdoutClosed, answered, adapters, faults>>
ServeEOF ==
  /\ plugin = "running" /\ saying = <<>> /\ toPlugin = <<>> /\ stdinClosed
  /\ plugin' = "exited"
  /\ UNCHANGED <<adapter, pcall, callId, outcome, over, pmu, nextID, pipes, answered, adapters,
                 faults>>

Misbehave ==
  /\ faults < MaxFaults /\ faults' = faults + 1 /\ plugin = "running"
  /\ \/ /\ toPlugin # <<>>              \* no answer
        /\ toPlugin' = Tail(toPlugin)
        /\ UNCHANGED <<saying, plugin>>
     \/ /\ \E a \in ToSet(answered) :   \* an answer given twice
             saying' = Append(saying, Reply(a[1], a[2]))
        /\ UNCHANGED <<toPlugin, plugin>>
     \/ /\ plugin' \in {"deaf", "exited"}
        /\ UNCHANGED <<toPlugin, saying>>
  /\ UNCHANGED <<adapter, pcall, callId, outcome, over, pmu, nextID, fromPlugin, stdinClosed,
                 stdoutClosed, answered, adapters>>

-----------------------------------------------------------------------------
(* Registry.Register: all hosts of a valid, compatible manifest, or none.   *)

Acceptable(m) ==
  /\ m.valid /\ m.hosts # <<>> /\ IsInjective(m.hosts) /\ m.major = ContractMajor

RegisterAdapter(m) ==
  /\ adapter = "ready" /\ Acceptable(m) /\ ToSet(m.hosts) \cap DOMAIN adapters = {}
  /\ adapters' = [h \in DOMAIN adapters \cup ToSet(m.hosts) |->
                    IF h \in ToSet(m.hosts) THEN m ELSE adapters[h]]
  /\ UNCHANGED <<adapter, pcall, callId, outcome, over, pmu, nextID, pipes, plugin, answered,
                 faults>>

-----------------------------------------------------------------------------
CallMoves(c) == LockAdapter(c) \/ WriteRequest(c) \/ ReadReply(c) \/ CancelCall(c)

TransportNext ==
  \/ \E c \in AdapterCallers : BeginCall(c) \/ CallMoves(c) \/ ContextEnds(c)
  \/ CloseAdapter \/ Waited \/ Serve \/ Say \/ ServeEOF \/ Misbehave
  \/ \E m \in Manifests : RegisterAdapter(m)

\* Goroutines run, and contexts of calls end some day.  A mutex that is free again
\* and again is handed to each in turn.  A plugin that runs reads its input to the end,
\* if only to drop a request: one that does not is "deaf".
TransportFairness ==
  /\ WF_transportVars(Serve \/ Say \/ ServeEOF) /\ WF_transportVars(Waited)
  /\ \A c \in AdapterCallers :
       SF_transportVars(CallMoves(c)) /\ WF_transportVars(ContextEnds(c))

TransportSpec == TransportInit /\ [][TransportNext]_transportVars /\ TransportFairness

-----------------------------------------------------------------------------
\* To its callers an adapter in another process is one within this: it executes
\* a request at most once and in order, and who gets an answer gets the one to
\* that very request with its class of error, although answers are given twice
\* and calls have given up before theirs came.
Contract == INSTANCE AdapterContract WITH
  Clients <- AdapterCallers, AdapterResults <- Results, Nothing <- NoOutcome,
  Failure <- Failed,
  asking <- {c \in AdapterCallers : pcall[c] \in {"write", "read"}},
  request <- callId, requests <- nextID, executed <- answered, returned <- outcome
ImplementsContract == Contract!ContractSpec

\* The plugin reads no more, or has answered so much nobody asked for that it
\* writes to a full pipe while the other one is full as well or its exit waited for.
Wedged ==
  \/ plugin = "deaf"
  \/ /\ saying # <<>> /\ Len(fromPlugin) >= PipeSize
     /\ Len(toPlugin) >= PipeSize \/ adapter = "closing"

\* Every call ends, with its context at the latest, although the plugin does not
\* answer; unless it is wedged, when the write to a full pipe, which looks at no
\* context, or a Close that waits for the plugin's exit, holds the mutex
\* (RemoteAdapter.call: "without this, a broken or malicious external adapter ...
\* blocks scanner.Scan() forever").
AdapterCallsEnd ==
  \A c \in AdapterCallers \ {Loader} : pcall[c] # "idle" ~> pcall[c] = "idle" \/ Wedged

=============================================================================
