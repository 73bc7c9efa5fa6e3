--------------------------- MODULE ToolSupervisor ---------------------------
(***************************************************************************)
(* One ManagedTool of the hub (internal/hub/supervisor.go): the MCP tool   *)
(* subprocess every attached client shares, the goroutines that touch it,  *)
(* and the table that matches the answers on its stdout with the callers.  *)
(*   clients  HandleClientRequest, one goroutine per connection (hub.go)   *)
(*   readers  readLoop, one goroutine per subprocess ever started          *)
(*   stopper  IdleReaper.ReapOnce, or Supervisor.StopAll of Hub.Close      *)
(* t.mu is explicit, because startLocked and Stop hold it while they wait  *)
(* for the subprocess.  A step that takes and drops it at once is one      *)
(* action whose guard is that nobody holds it.                             *)
(***************************************************************************)
EXTENDS Naturals, FiniteSets

CONSTANTS
  Clients,        \* attached connections
  StepClients,    \* those whose calls run a subagent: a context per call
  None,           \* no process, no owner, mutex free, channel empty
  Stopper,        \* the caller of Stop, as holder of the mutex
  Closed,         \* a reply channel closed by a drain
  MaxStarts,      \* bound: subprocesses spawned
  MaxCalls,       \* bound: requests received
  Methods,        \* methods the clients call
  MaxFaults       \* bound: subprocesses that exit by themselves, answers
                  \* longer than the reader's 10 MiB buffer, slow handshakes

ASSUME ToolAssumption ==
  /\ StepClients \subseteq Clients
  /\ Methods \subseteq {"initialize", "tools/list", "tools/call"}
  /\ MaxStarts \in Nat /\ MaxCalls \in Nat /\ MaxFaults \in Nat
  /\ None \notin Clients /\ Stopper \notin Clients
  /\ None # Stopper /\ None # Closed /\ None \notin Nat /\ Closed \notin Nat

Pids == 1..MaxStarts

VARIABLES
  status, mu, cmd, stdin,        \* the fields of ManagedTool
  cached,                        \* initResult and toolsResult, once set
  process, reader,               \* per subprocess: its life, its readLoop
  inbox,                         \* requests it has read and not yet answered
  owner, doomed,                 \* whose context it was started with; killed soon
  reqSeq, pending,               \* request counter; key -> waiting client
  pc, method, req, chan,         \* per client: place, method, own request, channel
  expired,                       \* calls whose step deadline passed, or killed
  stopper,                       \* where the caller of Stop is
  panicked,                      \* the hub process died of a nil dereference
  oversized,                     \* a reader has met a line it cannot hold
  calls, faults                  \* how much of each bound is used

fields  == <<status, cmd, stdin, cached>>
procs   == <<process, reader, inbox, owner>>
table   == <<reqSeq, pending>>
clients == <<pc, method, req, chan, expired>>
count   == <<oversized, calls, faults>>
vars == <<fields, mu, procs, doomed, table, clients, stopper, panicked, count>>

\* The key a forwarded request travels under.  Every client numbers its own
\* requests from 1, so the hub rewrites the id.
KeyOfClient(n) == 1                    \* mutant: the client's own id
Key(n) == n

Without(k) == [x \in DOMAIN pending \ {k} |-> pending[x]]
With(k, c) == [x \in DOMAIN pending \cup {k} |-> IF x = k THEN c ELSE pending[x]]

\* A new request of client c, registered under its key.
Enter(c) ==
  /\ reqSeq' = reqSeq + 1
  /\ pending' = With(Key(reqSeq + 1), c)
  /\ req' = [req EXCEPT ![c] = reqSeq + 1]
  /\ chan' = [chan EXCEPT ![c] = None]

Write(p, n) == inbox' = [inbox EXCEPT ![p] = @ \cup {n}]

Fault == faults < MaxFaults /\ faults' = faults + 1

Goto(c, l) == pc' = [pc EXCEPT ![c] = l]

\* The requests whose channels a drain closes: every one in the table,
\* whichever process they were written to.
Drain ==
  /\ pending' = [k \in {} |-> None]
  /\ chan' = [c \in Clients |-> IF \E k \in DOMAIN pending : pending[k] = c THEN Closed ELSE chan[c]]

\* The end of a context kills every subprocess started with it.
EndContext(c) == doomed' = doomed \cup {p \in Pids : owner[p] = c}

\* The call returns.  A subagent call's context ends with it; a connection's
\* context stays for its next request.
Return(c) ==
  /\ Goto(c, "idle")
  /\ method' = [method EXCEPT ![c] = None]
  /\ req' = [req EXCEPT ![c] = 0]
  /\ chan' = [chan EXCEPT ![c] = None]
  /\ expired' = expired \ {c}
  /\ IF c \in StepClients THEN EndContext(c) ELSE doomed' = doomed

-----------------------------------------------------------------------------
Init ==
  /\ status = "REGISTERED" /\ mu = None /\ cmd = None /\ stdin = None
  /\ cached = {}
  /\ process = [p \in Pids |-> "none"]
  /\ reader = [p \in Pids |-> "none"]
  /\ inbox = [p \in Pids |-> {}]
  /\ owner = [p \in Pids |-> None]
  /\ doomed = {}
  /\ reqSeq = 0 /\ pending = [k \in {} |-> None]
  /\ pc = [c \in Clients |-> "idle"]
  /\ method = [c \in Clients |-> None]
  /\ req = [c \in Clients |-> 0]
  /\ chan = [c \in Clients |-> None]
  /\ expired = {}
  /\ stopper = "idle"
  /\ panicked = FALSE
  /\ oversized = FALSE /\ calls = 0 /\ faults = 0

-----------------------------------------------------------------------------
(* HandleClientRequest.                                                     *)

\* dispatchLine gives only a subagent worker's tools/call a step context.
Arrive(c, m) ==
  /\ pc[c] = "idle" /\ calls < MaxCalls
  /\ c \in StepClients => m = "tools/call"
  /\ calls' = calls + 1
  /\ method' = [method EXCEPT ![c] = m]
  /\ Goto(c, IF m = "tools/call" THEN "ensure" ELSE "cached")
  /\ UNCHANGED <<fields, mu, procs, doomed, table, req, chan, expired,
                 stopper, panicked, oversized, faults>>

\* initialize and tools/list are answered from the handshake's results, before
\* the tool is started and again after.
AnswerCached(c) ==
  /\ pc[c] \in {"cached", "recheck"} /\ mu = None
  /\ IF method[c] \in cached
     THEN Return(c)
     ELSE /\ Goto(c, IF pc[c] = "cached" THEN "ensure" ELSE "register")
          /\ UNCHANGED <<method, req, chan, expired, doomed>>
  /\ UNCHANGED <<fields, mu, procs, table, stopper, panicked, count>>

AfterEnsure(c) == Goto(c, IF method[c] = "tools/call" THEN "register" ELSE "recheck")

\* startLocked returns, with or without an answer, and t.mu is released.
FinishStart(c) == AfterEnsure(c) /\ mu' = None

EnsureRunning(c) ==
  /\ pc[c] = "ensure" /\ mu = None /\ status = "RUNNING"
  /\ AfterEnsure(c)
  /\ UNCHANGED <<fields, mu, procs, doomed, table, method, req, chan, expired,
                 stopper, panicked, count>>

\* startLocked up to go readLoop: the subprocess lives in c's context.  With
\* that context already over, or a command that cannot run, the start fails.
StartLocked(c) ==
  /\ pc[c] = "ensure" /\ mu = None /\ status # "RUNNING"
  /\ \/ /\ c \notin expired
        /\ \E p \in Pids :
             /\ process[p] = "none" /\ \A q \in 1..(p - 1) : process[q] # "none"
             /\ process' = [process EXCEPT ![p] = "alive"]
             /\ reader' = [reader EXCEPT ![p] = "reading"]
             /\ owner' = [owner EXCEPT ![p] = c]
             /\ cmd' = p /\ stdin' = p
        /\ status' = "RUNNING" /\ mu' = c
        /\ Goto(c, "greet")
        /\ UNCHANGED <<doomed, method, req, chan, expired>>
     \/ /\ status' = "FAILED"
        /\ Return(c)
        /\ UNCHANGED <<process, reader, owner, cmd, stdin, mu>>
  /\ UNCHANGED <<cached, inbox, table, stopper, panicked, count>>

\* callRawLocked: registers and writes; a subprocess already gone refuses.
Greet(c) ==
  /\ pc[c] = "greet"
  /\ \/ /\ process[stdin] = "alive"
        /\ Enter(c) /\ Write(stdin, reqSeq + 1)
        /\ Goto(c, "greeted") /\ mu' = mu
     \/ /\ process[stdin] # "alive"
        /\ FinishStart(c)
        /\ UNCHANGED <<table, req, chan, inbox>>
  /\ UNCHANGED <<fields, process, reader, owner, doomed, method, expired,
                 stopper, panicked, count>>

\* The answers to initialize and then to tools/list are cached; after the
\* first the second is asked for.  A failure of either is not an error.
Greeted(c) ==
  /\ pc[c] \in {"greeted", "listed"} /\ chan[c] # None
  /\ cached' = IF chan[c] = Closed THEN cached
               ELSE cached \cup {IF pc[c] = "greeted" THEN "initialize" ELSE "tools/list"}
  /\ IF pc[c] = "greeted" /\ chan[c] # Closed /\ process[stdin] = "alive"
     THEN /\ Enter(c) /\ Write(stdin, reqSeq + 1)
          /\ Goto(c, "listed") /\ mu' = mu
     ELSE /\ FinishStart(c)
          /\ UNCHANGED <<table, req, chan, inbox>>
  /\ UNCHANGED <<status, cmd, stdin, process, reader, owner, doomed, method, expired,
                 stopper, panicked, count>>

\* initCtx: ten seconds for the whole handshake, or the caller's context.  A
\* tool that could still answer and is only slow counts as a fault.
HandshakeNeverTimesOut(c) == FALSE     \* mutant
HandshakeTimesOut(c) ==
  /\ pc[c] \in {"greeted", "listed"}
  /\ pending' = Without(Key(req[c])) /\ reqSeq' = reqSeq
  /\ FinishStart(c)
  /\ IF c \in expired \/ reader[stdin] # "reading" THEN faults' = faults ELSE Fault
  /\ UNCHANGED <<fields, procs, doomed, method, req, chan, expired, stopper, panicked,
                 oversized, calls>>

\* callRaw, without t.mu from here on.
Register(c) ==
  /\ pc[c] = "register"
  /\ Enter(c)
  /\ Goto(c, "send")
  /\ UNCHANGED <<fields, mu, procs, doomed, method, expired, stopper, panicked, count>>

\* t.stdin is whatever it is by now: nil after a Stop (a nil dereference),
\* closed during one, the pipe of a dead subprocess, or a new one's.
Send(c) ==
  /\ pc[c] = "send"
  /\ \/ /\ stdin = None
        /\ panicked' = TRUE
        /\ UNCHANGED <<table, clients, doomed, inbox>>
     \/ /\ stdin # None
        /\ status = "STOPPING" \/ process[stdin] # "alive"
        /\ pending' = Without(Key(req[c])) /\ reqSeq' = reqSeq
        /\ Return(c)
        /\ UNCHANGED <<inbox, panicked>>
     \/ /\ stdin # None
        /\ status # "STOPPING" /\ process[stdin] = "alive"
        /\ Write(stdin, req[c])
        /\ Goto(c, "wait")
        /\ UNCHANGED <<table, method, req, chan, expired, doomed, panicked>>
  /\ UNCHANGED <<fields, mu, process, reader, owner, stopper, count>>

\* The select at the end of callRaw.
Receive(c) ==
  /\ pc[c] = "wait" /\ chan[c] # None
  /\ Return(c)
  /\ UNCHANGED <<fields, mu, procs, table, stopper, panicked, count>>

GiveUpKeepsEntry(c) ==                 \* mutant: the entry stays in the table
  /\ pc[c] = "wait" /\ c \in expired
  /\ Return(c)
  /\ UNCHANGED <<fields, mu, procs, table, stopper, panicked, count>>
GiveUp(c) ==
  /\ pc[c] = "wait" /\ c \in expired
  /\ pending' = Without(Key(req[c])) /\ reqSeq' = reqSeq
  /\ Return(c)
  /\ UNCHANGED <<fields, mu, procs, stopper, panicked, count>>

\* A step deadline passes, or KillWorker cancels the call.
Expire(c) ==
  /\ c \in StepClients \ expired /\ pc[c] # "idle"
  /\ expired' = expired \cup {c}
  /\ EndContext(c)
  /\ UNCHANGED <<fields, mu, procs, table, pc, method, req, chan, stopper, panicked, count>>

\* The host closes its connection.  handleConn reads only between requests.
Disconnect(c) ==
  /\ c \notin StepClients /\ pc[c] = "idle"
  /\ \E p \in Pids \ doomed : owner[p] = c
  /\ EndContext(c)
  /\ UNCHANGED <<fields, mu, procs, table, clients, stopper, panicked, count>>

-----------------------------------------------------------------------------
(* The subprocess and its readLoop.                                         *)

\* It answers a request, and readLoop hands the answer to whoever waits under
\* that key; nobody waiting, the answer is dropped.
Answer(p) ==
  /\ process[p] = "alive" /\ reader[p] = "reading"
  /\ \E n \in inbox[p] :
       /\ inbox' = [inbox EXCEPT ![p] = @ \ {n}]
       /\ pending' = Without(Key(n)) /\ reqSeq' = reqSeq
       /\ chan' = IF Key(n) \in DOMAIN pending THEN [chan EXCEPT ![pending[Key(n)]] = n] ELSE chan
  /\ UNCHANGED <<fields, mu, process, reader, owner, doomed, pc, method, req, expired,
                 stopper, panicked, count>>

\* With the subprocess its stdout ends, and what it had read is lost.
Gone(p) ==
  /\ process[p] = "alive"
  /\ process' = [process EXCEPT ![p] = "exited"]
  /\ reader' = [reader EXCEPT ![p] = IF @ = "reading" THEN "eof" ELSE @]
  /\ inbox' = [inbox EXCEPT ![p] = {}]
  /\ owner' = [owner EXCEPT ![p] = None] /\ doomed' = doomed \ {p}
  /\ UNCHANGED <<fields, mu, table, clients, stopper, panicked, oversized, calls>>

Exit(p)   == Gone(p) /\ Fault
Killed(p) == Gone(p) /\ p \in doomed /\ faults' = faults

\* A line that does not fit the buffer ends scanner.Scan and with it the
\* loop, although the subprocess lives.
OversizedLine(p) ==
  /\ process[p] = "alive" /\ reader[p] = "reading" /\ inbox[p] # {}
  /\ Fault /\ oversized' = TRUE
  /\ reader' = [reader EXCEPT ![p] = "eof"]
  /\ UNCHANGED <<fields, mu, process, inbox, owner, doomed, table, clients,
                 stopper, panicked, calls>>

\* readLoop's last two critical sections: the status, then the table.
MarkStopped(p) ==
  /\ reader[p] = "eof" /\ mu = None
  /\ status' = IF cmd = p /\ status = "RUNNING" THEN "STOPPED" ELSE status
  /\ reader' = [reader EXCEPT ![p] = "drain"]
  /\ UNCHANGED <<cmd, stdin, cached, mu, process, inbox, owner, doomed, table, clients,
                 stopper, panicked, count>>

DrainPending(p) ==
  /\ reader[p] = "drain"
  /\ Drain /\ reqSeq' = reqSeq
  /\ reader' = [reader EXCEPT ![p] = "done"]
  /\ UNCHANGED <<fields, mu, process, inbox, owner, doomed, pc, method, req, expired,
                 stopper, panicked, count>>

-----------------------------------------------------------------------------
(* Stop, and who calls it.                                                  *)

\* ReapOnce finds the tool running and idle, and only then calls Stop.  The
\* idle timeout may have passed since the last request at any moment, also
\* with that request unanswered, and lastActive is not looked at again.
\* StopAll calls Stop at any time.
CallStop ==
  /\ stopper = "idle" /\ mu = None /\ status = "RUNNING"
  /\ stopper' = "stop"
  /\ UNCHANGED <<fields, mu, procs, doomed, table, clients, panicked, count>>

\* Stop: nothing to do unless running; otherwise close stdin, SIGTERM, and
\* after two seconds SIGKILL, all with t.mu held.
StopBegin ==
  /\ stopper = "stop" /\ mu = None
  /\ \/ status # "RUNNING" /\ stopper' = "idle" /\ UNCHANGED <<status, mu, doomed>>
     \/ /\ status = "RUNNING"
        /\ status' = "STOPPING" /\ mu' = Stopper
        /\ doomed' = doomed \cup {p \in {cmd} : process[p] = "alive"}
        /\ stopper' = "stopping"
  /\ UNCHANGED <<cmd, stdin, cached, procs, table, clients, panicked, count>>

\* The tool is reset and every channel closed.
StopReset ==
  /\ status' = "REGISTERED" /\ cmd' = None /\ stdin' = None /\ mu' = None
  /\ Drain /\ reqSeq' = reqSeq
  /\ stopper' = "idle"
  /\ UNCHANGED <<cached, procs, doomed, pc, method, req, expired, panicked, count>>

StopWithoutWait == stopper = "stopping" /\ StopReset      \* mutant: no cmd.Wait
StopEnd == stopper = "stopping" /\ process[cmd] = "exited" /\ StopReset

-----------------------------------------------------------------------------
ClientStep(c) ==
  \/ AnswerCached(c) \/ EnsureRunning(c) \/ StartLocked(c)
  \/ Greet(c) \/ Greeted(c) \/ HandshakeTimesOut(c)
  \/ Register(c) \/ Send(c) \/ Receive(c) \/ GiveUp(c)

ReaderStep(p) == MarkStopped(p) \/ DrainPending(p)
StopStep == StopBegin \/ StopEnd

Next ==
  /\ ~panicked
  /\ \/ \E c \in Clients : \/ \E m \in Methods : Arrive(c, m)
                           \/ ClientStep(c) \/ Expire(c) \/ Disconnect(c)
     \/ \E p \in Pids : Answer(p) \/ Exit(p) \/ Killed(p) \/ OversizedLine(p) \/ ReaderStep(p)
     \/ CallStop \/ StopStep

\* Goroutines keep running, a killed process dies, and a
\* tool that is read answers what it has been asked.
ToolFairness ==
  /\ \A c \in Clients : WF_vars(~panicked /\ ClientStep(c))
  /\ \A p \in Pids :
       /\ WF_vars(~panicked /\ Answer(p)) /\ WF_vars(~panicked /\ Killed(p))
       /\ WF_vars(~panicked /\ ReaderStep(p))
  /\ WF_vars(~panicked /\ StopStep)

Spec == Init /\ [][Next]_vars /\ ToolFairness

-----------------------------------------------------------------------------
(* Properties.                                                              *)

\* A client with a request of its own on the way.
Waiting(c) == pc[c] \in {"greeted", "listed", "send", "wait"}

\* Every variable has a value of its type, and t.mu is held by whoever waits
\* for the subprocess.
TypeOK ==
  /\ \A c \in Clients : mu = c <=> pc[c] \in {"greet", "greeted", "listed"}
  /\ mu = Stopper <=> stopper = "stopping"
  /\ mu # None \/ status = "RUNNING" => cmd # None
  /\ status \in {"REGISTERED", "RUNNING", "STOPPING", "STOPPED", "FAILED"}
  /\ mu \in Clients \cup {Stopper, None}
  /\ cmd \in Pids \cup {None} /\ stdin \in Pids \cup {None}
  /\ cached \subseteq {"initialize", "tools/list"}
  /\ process \in [Pids -> {"none", "alive", "exited"}]
  /\ reader \in [Pids -> {"none", "reading", "eof", "drain", "done"}]
  /\ inbox \in [Pids -> SUBSET (1..reqSeq)]
  /\ owner \in [Pids -> Clients \cup {None}] /\ doomed \subseteq Pids
  /\ reqSeq \in Nat /\ pending \in [DOMAIN pending -> Clients]
  /\ DOMAIN pending \subseteq 1..reqSeq
  /\ pc \in [Clients -> {"idle", "cached", "ensure", "greet", "greeted", "listed",
                         "recheck", "register", "send", "wait"}]
  /\ method \in [Clients -> Methods \cup {None}]
  /\ req \in [Clients -> 0..reqSeq] /\ \A c \in Clients : Waiting(c) => req[c] > 0
  /\ chan \in [Clients -> 0..reqSeq \cup {None, Closed}]
  /\ expired \subseteq StepClients
  /\ stopper \in {"idle", "stop", "stopping"}
  /\ panicked \in BOOLEAN
  /\ calls \in 0..MaxCalls /\ faults \in 0..MaxFaults /\ oversized \in BOOLEAN

\* requestid_test.go: clients that number their requests alike share a tool,
\* and each receives the answer to its own request or none.
AnswersMatch ==
  \A c \in Clients : Waiting(c) /\ chan[c] \notin {None, Closed} => chan[c] = req[c]

\* The table holds exactly the requests somebody still waits for: no entry is
\* left by a caller that gave up, failed to write or was answered, and no
\* caller waits on a channel nobody can reach any more.
TableIsWaiters ==
  /\ \A k \in DOMAIN pending : Waiting(pending[k]) /\ Key(req[pending[k]]) = k
  /\ \A c \in Clients : Waiting(c) /\ chan[c] = None => Key(req[c]) \in DOMAIN pending

\* "One singleton MCP tool process": across crashes, ends of contexts, stops
\* and restarts, at most one subprocess lives whose output the hub reads.
OneProcessRead ==
  \A p, q \in Pids :
    process[p] = "alive" /\ reader[p] = "reading" /\ process[q] = "alive" /\ reader[q] = "reading"
      => p = q

\* Nobody waits for ever, whoever holds t.mu while the subprocess dies, is
\* stopped or is restarted: a request that came in is answered or refused,
\* as long as the hub is there and no oversized answer has ended its reader.
EveryCallEnds == \A c \in Clients : pc[c] # "idle" ~> pc[c] = "idle" \/ panicked \/ oversized

-----------------------------------------------------------------------------
(* What the comments say and the code does not keep.                        *)

\* supervisor.go:524, "ensure tool is running and dispatch": a request never
\* finds the tool without a stdin to be written to.
DispatchFindsTool == ~panicked

\* config.go:1-5: the hub multiplexes singleton subprocesses and serves several
\* hosts: the end of one caller's context takes no subprocess away that holds
\* another caller's request.
SharedToolOutlivesCaller ==
  [][\A p \in doomed' \ doomed :
       mu' # Stopper =>
         \A c \in Clients : req[c] \in inbox[p] => owner[p] = c]_vars

=============================================================================
