--------------------------- MODULE SessionWatcher ---------------------------
(***************************************************************************)
(* The hub's session watcher (internal/hub/workers.go): it polls the       *)
(* session files of each profile, waits until a profile's have been quiet  *)
(* for the debounce time, or pending for the maximum wait, and then runs   *)
(* ws-mem-distill for that profile.                                        *)
(***************************************************************************)
EXTENDS Naturals, Sequences, Functions, FiniteSetsExt

CONSTANTS
  WatchedProfiles,      \* in the sorted order PollOnce takes them
  Debounce, MaxWait,    \* in clock ticks
  MaxHubCrashes

ASSUME WatcherAssumption ==
  /\ Debounce \in Nat \ {0} /\ MaxWait \in Nat \ {0} /\ MaxHubCrashes \in Nat

Watched == Range(WatchedProfiles)
Zero == Debounce + MaxWait + 1     \* the zero time: nothing is pending

VARIABLES
  fresh,                \* profiles whose latest mtime is after lastKnownMtime
  quiet, waiting,       \* ticks since pendingTriggerSince and firstPendingSince
  distills,             \* profiles the polling goroutine has still to distill
  undistilled,          \* profiles with session changes no distillation has read
  given_up,             \* of these: a distillation failed, or a hub ended in between
  watching, hubCrashes

watcherVars ==
  <<fresh, quiet, waiting, distills, undistilled, given_up, watching, hubCrashes>>

Nothing == [p \in Watched |-> Zero]

SessionInit ==
  /\ fresh = {} /\ quiet = Nothing /\ waiting = Nothing
  /\ distills = {} /\ undistilled = {} /\ given_up = {}
  /\ watching = FALSE /\ hubCrashes = 0

\* A host writes a session file, or the memory database.
SessionWritten(p) ==
  /\ fresh' = fresh \cup {p} /\ undistilled' = undistilled \cup {p}
  /\ given_up' = IF watching THEN given_up \ {p} ELSE given_up \cup {p}
  /\ UNCHANGED <<quiet, waiting, distills, watching, hubCrashes>>

\* Start takes the files as they are for the baseline.
StartWatching ==
  /\ ~watching /\ watching' = TRUE
  /\ fresh' = {} /\ quiet' = Nothing /\ waiting' = Nothing
  /\ UNCHANGED <<distills, undistilled, given_up, hubCrashes>>

HubCrash ==
  /\ watching /\ hubCrashes < MaxHubCrashes
  /\ hubCrashes' = hubCrashes + 1
  /\ watching' = FALSE /\ distills' = {} /\ given_up' = undistilled
  /\ UNCHANGED <<fresh, quiet, waiting, undistilled>>

SessionTick ==
  /\ quiet' = [p \in Watched |-> IF quiet[p] < Debounce THEN quiet[p] + 1 ELSE quiet[p]]
  /\ waiting' = [p \in Watched |-> IF waiting[p] < MaxWait THEN waiting[p] + 1 ELSE waiting[p]]
  /\ UNCHANGED <<fresh, distills, undistilled, given_up, watching, hubCrashes>>

\* PollOnce, under the mutex: all profiles, then the list of those to distill.
Quiet(p)   == IF p \in fresh THEN 0 ELSE quiet[p]
Waiting(p) == IF p \in fresh /\ waiting[p] = Zero THEN 0 ELSE waiting[p]
Due(p) == \/ Quiet(p) # Zero /\ Quiet(p) >= Debounce
          \/ Waiting(p) # Zero /\ Waiting(p) >= MaxWait

PollOnceDebounced ==                    \* mutant: no deadline under continuous writes
  /\ watching /\ distills = {}
  /\ LET due == {p \in Watched : Quiet(p) # Zero /\ Quiet(p) >= Debounce} IN
     /\ quiet'   = [p \in Watched |-> IF p \in due THEN Zero ELSE Quiet(p)]
     /\ waiting' = [p \in Watched |-> IF p \in due THEN Zero ELSE Waiting(p)]
     /\ distills' = due
  /\ fresh' = {}
  /\ UNCHANGED <<undistilled, given_up, watching, hubCrashes>>
PollOnceForgets ==                      \* mutant: the trigger is cleared for all profiles
  /\ watching /\ distills = {}
  /\ LET due == {p \in Watched : Due(p)} IN
     /\ quiet'   = [p \in Watched |-> IF due # {} THEN Zero ELSE Quiet(p)]
     /\ waiting' = [p \in Watched |-> IF due # {} THEN Zero ELSE Waiting(p)]
     /\ distills' = due
  /\ fresh' = {}
  /\ UNCHANGED <<undistilled, given_up, watching, hubCrashes>>
PollOnce ==
  /\ watching /\ distills = {}
  /\ LET due == {p \in Watched : Due(p)} IN
     /\ quiet'   = [p \in Watched |-> IF p \in due THEN Zero ELSE Quiet(p)]
     /\ waiting' = [p \in Watched |-> IF p \in due THEN Zero ELSE Waiting(p)]
     /\ distills' = due
  /\ fresh' = {}
  /\ UNCHANGED <<undistilled, given_up, watching, hubCrashes>>

\* They are run in the profiles' order, outside the mutex.
NextProfile ==
  WatchedProfiles[Min({i \in DOMAIN WatchedProfiles : WatchedProfiles[i] \in distills})]

\* runDistillForProfile.  A failure is logged: the trigger was cleared and the
\* run counted before it.
Distilled ==
  /\ distills # {}
  /\ undistilled' = undistilled \ {NextProfile}
  /\ given_up' = given_up \ {NextProfile}
  /\ distills' = distills \ {NextProfile}
  /\ UNCHANGED <<fresh, quiet, waiting, watching, hubCrashes>>
DistillFails ==
  /\ distills # {}
  /\ given_up' = given_up \cup {NextProfile}
  /\ distills' = distills \ {NextProfile}
  /\ UNCHANGED <<fresh, quiet, waiting, undistilled, watching, hubCrashes>>

SessionNext ==
  \/ \E p \in Watched : SessionWritten(p)
  \/ StartWatching \/ HubCrash \/ SessionTick \/ PollOnce \/ Distilled \/ DistillFails

\* The ticker ticks and the commands end, one way or the other.
SessionFairness ==
  /\ WF_watcherVars(PollOnce) /\ WF_watcherVars(SessionTick)
  /\ WF_watcherVars(Distilled \/ DistillFails)

WatcherSpec == SessionInit /\ [][SessionNext]_watcherVars /\ SessionFairness

-----------------------------------------------------------------------------
\* What no distillation has read is still on its way to one (seen by the next
\* poll, pending, or listed to run), unless a distillation failed or no hub ran.
NoChangeForgotten ==
  watching => \A p \in undistilled \ given_up :
    p \in fresh \/ waiting[p] # Zero \/ p \in distills

\* A change is distilled in the end, also under continuous writes, unless a
\* distillation fails or the hub ends first.
SessionsDistilled ==
  \A p \in Watched :
    watching /\ p \in undistilled \ given_up ~>
      p \notin undistilled \/ p \in given_up \/ ~watching

=============================================================================
