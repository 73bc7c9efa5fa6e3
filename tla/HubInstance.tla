---------------------------- MODULE HubInstance ----------------------------
(***************************************************************************)
(* Which hub process serves the host's socket: AcquireInstanceLock and     *)
(* Release (internal/hub/instancelock.go), Hub.Start and Hub.Close         *)
(* (hub.go), `omca hub start`, `serve` and `stop` (cmd/omca/hub.go), and   *)
(* the auto-start of the bridges (bridge.go).                              *)
(*                                                                         *)
(* Hub processes meet only in the file system.  A file is named here after *)
(* the process that created it, so that a path and the file behind it stay *)
(* distinct: removing a path leaves the file to those who have it open.    *)
(***************************************************************************)
EXTENDS Naturals, FiniteSets

CONSTANTS
  Procs,        \* hub processes yet to be started; also their pids
  Past,         \* the hub process that was there before them, and its pid
  Bridges,      \* processes of coding agents that want the hub
  None,
  MaxStops,     \* bound: `omca hub stop` commands
  MaxFaults     \* bound: hub processes killed, starts slower than a bridge waits

ASSUME InstanceAssumption ==
  /\ Past \notin Procs
  /\ None \notin Procs \cup {Past}
  /\ MaxStops \in Nat /\ MaxFaults \in Nat

Ids == Procs \cup {Past}

VARIABLES
  pc,           \* per hub process: where it is
  sock,         \* the process whose socket is at the socket path
  lockFile,     \* the process that created the file at the pid path
  recorded,     \* per such file: the pid written in it
  holder,       \* per such file: the process that holds its flock
  opened,       \* per process: the file it has open
  bridge,       \* per bridge: where it is
  target,       \* the pid `hub stop` has read and is about to signal
  foreign,      \* pids that by now belong to unrelated processes
  stops, faults, \* how much of each bound is used
  undisturbed   \* history: the bridges that found no hub and whose start
                \* nothing has come in the way of since

files == <<lockFile, recorded, holder, opened>>
rest  == <<bridge, target, foreign, stops, faults, undisturbed>>
vars  == <<pc, sock, files, rest>>

Listening == {p \in Ids : pc[p] \in {"legacy", "up", "serving", "closing"}}

\* A dial of the socket path succeeds.
Reachable == sock \in Listening

\* From the lock to its release.
Owning == {"truncate", "write", "probe", "abandon", "unlink", "listen",
           "up", "serving", "closing", "remove", "release"}

Starting == {"start", "open", "flock", "truncate", "write", "probe", "abandon",
             "unlink", "listen"}

\* Holding the lock and no longer about to serve.
Departing == {"abandon", "closing", "remove", "release"}

Goto(p, l) == pc' = [pc EXCEPT ![p] = l]

\* A process ends: the kernel closes its file and with it drops the lock.
\* The pid file stays, on purpose.
LeaveUnlinking(p) ==                    \* mutant: Release removes the file
  /\ Goto(p, "gone")
  /\ holder' = [f \in Ids |-> IF holder[f] = p THEN None ELSE holder[f]]
  /\ opened' = [opened EXCEPT ![p] = None]
  /\ lockFile' = None /\ recorded' = recorded
Leave(p) ==
  /\ Goto(p, "gone")
  /\ holder' = [f \in Ids |-> IF holder[f] = p THEN None ELSE holder[f]]
  /\ opened' = [opened EXCEPT ![p] = None]
  /\ UNCHANGED <<lockFile, recorded>>

\* A hub that is stopped or killed, or a start that is too slow for a bridge.
Fault == faults < MaxFaults /\ faults' = faults + 1 /\ undisturbed' = {}
NoFault == UNCHANGED <<faults, undisturbed>>

-----------------------------------------------------------------------------
\* Before the first start there is nothing, or what a dead hub left behind, or
\* a hub of a build without the lock, still serving.
Init ==
  /\ \E before \in {"nothing", "leftovers", "legacy"} :
       /\ pc = [p \in Ids |-> IF p # Past THEN "none"
                              ELSE IF before = "legacy" THEN "legacy" ELSE "gone"]
       /\ sock = IF before = "nothing" THEN None ELSE Past
       /\ lockFile = IF before = "nothing" THEN None ELSE Past
       /\ recorded = [f \in Ids |-> IF f = Past /\ before # "nothing" THEN Past ELSE None]
  /\ holder = [f \in Ids |-> None]
  /\ opened = [p \in Ids |-> None]
  /\ bridge = [b \in Bridges |-> "dial"]
  /\ target = None
  /\ foreign = {}
  /\ stops = 0 /\ faults = 0
  /\ undisturbed = {}

-----------------------------------------------------------------------------
(* The bridges.                                                             *)

\* ensureHubConnection: dial, and failing that spawn `hub start -d` and poll.
Dial(b) ==
  /\ bridge[b] = "dial"
  /\ \/ /\ Reachable
        /\ bridge' = [bridge EXCEPT ![b] = "connected"] /\ pc' = pc
        /\ undisturbed' = undisturbed
     \/ /\ ~Reachable
        /\ bridge' = [bridge EXCEPT ![b] = "polling"]
        /\ \E p \in Procs : pc[p] = "none" /\ Goto(p, "start")
        /\ undisturbed' = IF \E p \in Procs : pc[p] \in Departing
                          THEN undisturbed ELSE undisturbed \cup {b}
  /\ UNCHANGED <<sock, files, target, foreign, stops, faults>>

Poll(b) ==
  /\ bridge[b] = "polling" /\ Reachable
  /\ bridge' = [bridge EXCEPT ![b] = "connected"]
  /\ UNCHANGED <<pc, sock, files, target, foreign, stops, faults, undisturbed>>

\* Three seconds have passed.  With a hub on its way that is a slow start.
GiveUp(b) ==
  /\ bridge[b] = "polling"
  /\ IF Reachable \/ \E p \in Procs : pc[p] \in Starting THEN Fault ELSE NoFault
  /\ bridge' = [bridge EXCEPT ![b] = "failed"]
  /\ UNCHANGED <<pc, sock, files, target, foreign, stops>>

-----------------------------------------------------------------------------
(* One hub process.                                                         *)

\* A user starts one, or a supervisor such as launchd runs `hub serve`, which
\* does not dial first.  Enough are left for the bridges.
UserStart ==
  /\ Cardinality({p \in Procs : pc[p] = "none"}) > Cardinality({b \in Bridges : bridge[b] = "dial"})
  /\ \E p \in Procs, l \in {"start", "open"} : pc[p] = "none" /\ Goto(p, l)
  /\ UNCHANGED <<sock, files, rest>>

Rest == UNCHANGED rest

\* runHubStart: "already running", or on to runHubServe.
StartCheck(p) ==
  /\ pc[p] = "start"
  /\ Goto(p, IF Reachable THEN "gone" ELSE "open")
  /\ UNCHANGED <<sock, files>> /\ Rest

\* AcquireInstanceLock opens or creates the file ...
OpenTruncates(p) ==                     \* mutant: O_TRUNC
  /\ pc[p] = "open" /\ Goto(p, "flock")
  /\ lockFile' = IF lockFile = None THEN p ELSE lockFile
  /\ opened' = [opened EXCEPT ![p] = lockFile']
  /\ recorded' = [recorded EXCEPT ![lockFile'] = None]
  /\ UNCHANGED <<holder, sock>> /\ Rest
OpenLock(p) ==
  /\ pc[p] = "open" /\ Goto(p, "flock")
  /\ lockFile' = IF lockFile = None THEN p ELSE lockFile
  /\ opened' = [opened EXCEPT ![p] = lockFile']
  /\ UNCHANGED <<recorded, holder, sock>> /\ Rest

\* ... takes the lock of the file it opened ...
TakeLock(p) ==
  /\ pc[p] = "flock" /\ holder[opened[p]] = None
  /\ holder' = [holder EXCEPT ![opened[p]] = p]
  /\ Goto(p, "truncate")
  /\ UNCHANGED <<lockFile, recorded, opened, sock>> /\ Rest

\* ... or finds it held, and the process exits without touching the socket ...
Refused(p) ==
  /\ pc[p] = "flock" /\ holder[opened[p]] # None
  /\ Leave(p)
  /\ UNCHANGED sock /\ Rest

\* ... and replaces the pid, which `hub stop` may read at any moment.
Truncate(p) ==
  /\ pc[p] = "truncate" /\ Goto(p, "write")
  /\ recorded' = [recorded EXCEPT ![opened[p]] = None]
  /\ UNCHANGED <<lockFile, holder, opened, sock>> /\ Rest

WritePid(p) ==
  /\ pc[p] = "write" /\ Goto(p, "probe")
  /\ recorded' = [recorded EXCEPT ![opened[p]] = p]
  /\ UNCHANGED <<lockFile, holder, opened, sock>> /\ Rest

\* Start: a daemon that answers although it holds no lock is left alone, and
\* the lock given back in a step of its own.
ProbeSocketSkipped(p) ==                \* mutant: the lock alone decides
  /\ pc[p] = "probe" /\ Goto(p, "unlink")
  /\ UNCHANGED <<files, sock>> /\ Rest
ProbeSocket(p) ==
  /\ pc[p] = "probe"
  /\ Goto(p, IF Reachable THEN "abandon" ELSE "unlink")
  /\ UNCHANGED <<files, sock>> /\ Rest

Abandon(p) ==
  /\ pc[p] = "abandon" /\ Leave(p)
  /\ UNCHANGED sock /\ Rest

UnlinkNothing(p) ==                     \* mutant: os.Remove is forgotten
  /\ pc[p] = "unlink" /\ Goto(p, "listen")
  /\ UNCHANGED <<files, sock>> /\ Rest
Unlink(p) ==
  /\ pc[p] = "unlink" /\ Goto(p, "listen")
  /\ sock' = None
  /\ UNCHANGED files /\ Rest

\* net.Listen refuses a path that exists.
Listen(p) ==
  /\ pc[p] = "listen"
  /\ \/ sock = None /\ sock' = p /\ Goto(p, "up")
     \/ sock # None /\ sock' = sock /\ Goto(p, "abandon")
  /\ UNCHANGED files /\ Rest

\* runHubServe: from signal.Notify on, SIGTERM means Close.
Notify(p) ==
  /\ pc[p] = "up" /\ Goto(p, "serving")
  /\ UNCHANGED <<files, sock>> /\ Rest

\* Close: the listener removes the socket path as it closes, Close removes it
\* once more, StopAll runs, and the lock goes last.
ShutListener(p) ==
  /\ pc[p] = "closing" /\ Goto(p, "remove")
  /\ sock' = None
  /\ UNCHANGED files /\ Rest

RemoveSocket(p) ==
  /\ pc[p] = "remove" /\ Goto(p, "release")
  /\ sock' = None
  /\ UNCHANGED files /\ Rest

Release(p) ==
  /\ pc[p] = "release" /\ Leave(p)
  /\ UNCHANGED sock /\ Rest

\* SIGKILL, or a panic: nothing is cleaned up but by the kernel.
Killed(p) ==
  /\ pc[p] \notin {"none", "gone"} /\ Fault
  /\ Leave(p)
  /\ UNCHANGED <<sock, bridge, target, foreign, stops>>

\* The hub without a lock ends, with or without removing its socket.
LegacyEnds ==
  /\ pc[Past] = "legacy" /\ Goto(Past, "gone")
  /\ sock' \in {sock, None}
  /\ UNCHANGED files /\ Rest

\* The system gives the pid of a hub that has ended to another program.
PidReused(p) ==
  /\ pc[p] = "gone" /\ p \notin foreign
  /\ foreign' = foreign \cup {p}
  /\ UNCHANGED <<pc, sock, files, bridge, target, stops, faults, undisturbed>>

-----------------------------------------------------------------------------
(* `omca hub stop`.                                                         *)

StopRead ==
  /\ target = None /\ stops < MaxStops /\ stops' = stops + 1
  /\ target' = IF lockFile = None THEN None ELSE recorded[lockFile]
  /\ UNCHANGED <<pc, sock, files, bridge, foreign, faults, undisturbed>>

\* SIGTERM: a hub that serves begins to close, one still starting dies of it,
\* and one that is closing has a handler that nobody reads any more.
StopSignal ==
  /\ target # None /\ target' = None
  /\ \/ pc[target] = "serving" /\ Goto(target, "closing") /\ UNCHANGED <<sock, files>>
     \/ pc[target] \in Starting \cup {"up"} /\ Leave(target) /\ sock' = sock
     \/ pc[target] = "legacy" /\ Goto(target, "gone") /\ sock' = None /\ UNCHANGED files
     \/ pc[target] \in {"closing", "remove", "release", "gone"} /\ UNCHANGED <<pc, sock, files>>
  /\ undisturbed' = IF pc' = pc THEN undisturbed ELSE {}
  /\ UNCHANGED <<bridge, foreign, stops, faults>>

-----------------------------------------------------------------------------
HubStep(p) ==
  \/ StartCheck(p) \/ OpenLock(p) \/ TakeLock(p) \/ Refused(p) \/ Truncate(p) \/ WritePid(p)
  \/ ProbeSocket(p) \/ Abandon(p) \/ Unlink(p) \/ Listen(p) \/ Notify(p)
  \/ ShutListener(p) \/ RemoveSocket(p) \/ Release(p)

Next ==
  \/ \E b \in Bridges : Dial(b) \/ Poll(b) \/ GiveUp(b)
  \/ UserStart
  \/ \E p \in Procs : HubStep(p) \/ Killed(p)
  \/ \E p \in Ids : PidReused(p)
  \/ LegacyEnds \/ StopRead \/ StopSignal

\* A hub process that can go on does, and a bridge dials again every 100 ms.
Spec ==
  /\ Init /\ [][Next]_vars
  /\ \A p \in Procs : WF_vars(HubStep(p))
  /\ \A b \in Bridges : WF_vars(Poll(b))

-----------------------------------------------------------------------------
(* Properties.                                                              *)

\* Every variable has a value of its type, and a process that has not begun or
\* has ended has no file open.
TypeOK ==
  /\ pc \in [Ids -> {"none", "legacy", "gone"} \cup Starting \cup Owning]
  /\ \A p \in Procs : pc[p] # "legacy"
  /\ pc[Past] \in {"legacy", "gone"}
  /\ sock \in Ids \cup {None} /\ lockFile \in Ids \cup {None}
  /\ recorded \in [Ids -> Ids \cup {None}]
  /\ holder \in [Ids -> Ids \cup {None}]
  /\ opened \in [Ids -> Ids \cup {None}]
  /\ \A p \in Ids : opened[p] # None <=> pc[p] \in Owning \cup {"flock"}
  /\ bridge \in [Bridges -> {"dial", "polling", "connected", "failed"}]
  /\ target \in Ids \cup {None}
  /\ foreign \subseteq Ids
  /\ stops \in 0..MaxStops /\ faults \in 0..MaxFaults
  /\ undisturbed \subseteq Bridges

\* instancelock.go:16-43, "the orphan wedge": two hubs are never both past the
\* lock, however their starts, closes, deaths and stops interleave.
OneOwner == \A p, q \in Ids : pc[p] \in Owning /\ pc[q] \in Owning => p = q

\* hub.go:197-214: a hub that listens, also one of a build without the lock,
\* is the one its socket path leads to: none is left holding an unlinked
\* socket nobody can reach.
ListenerReachable == \A p \in Listening : sock = p

\* instancelock.go:105-107: from the write on, the file at the pid path names
\* the hub that holds the lock, so that `hub stop` finds it.
PidNamesOwner ==
  \A p \in Procs :
    pc[p] \in Owning \ {"truncate", "write"} => lockFile # None /\ recorded[lockFile] = p

\* bridge.go:88-96: bridges may race to start the hub, over whatever hubs have
\* died, closed or been killed before.  One that finds no hub while none is
\* about to give its lock back is connected to whichever start won, unless a
\* hub is stopped or killed, or a start too slow, from then on.
AutoStartWorks ==
  \A b \in Bridges :
    bridge[b] = "polling" /\ b \in undisturbed
      ~> bridge[b] = "connected" \/ b \notin undisturbed

-----------------------------------------------------------------------------
(* What the comments say and the code does not keep.                        *)

\* bridge.go:88-92: with no hub stopped or killed, the poll of a bridge connects
\* to whichever start won the lock.  One that won it may have met a hub of a
\* build without the lock and be about to give it back.
WinnerServes ==
  \A b \in Bridges : bridge[b] = "polling" ~> bridge[b] = "connected" \/ stops + faults > 0

\* instancelock.go:140-146: a stale pid in the file is harmless; `hub stop`
\* never has another program's pid in hand.
StopTargetsHub == target # None => target \notin foreign

=============================================================================
