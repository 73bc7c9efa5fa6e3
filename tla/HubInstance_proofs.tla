------------------------- MODULE HubInstance_proofs -------------------------
(***************************************************************************)
(* Safety of HubInstance for any sets of hub processes and bridges.  TypeOK *)
(* is inductive by itself.  OneOwner, ListenerReachable and PidNamesOwner   *)
(* are not: each rests on the fact that the pid file is never removed, so   *)
(* that the file a process has open is the file at the path (OpenIsPath)    *)
(* and the lock of that one file is what all compete for (OwnerHolds).      *)
(***************************************************************************)
EXTENDS HubInstance, TLAPS

\* The file a process has open is the one at the pid path.
OpenIsPath == \A p \in Procs : opened[p] # None => opened[p] = lockFile

\* A process past the lock holds the lock of the file it has open.
OwnerHolds == \A p \in Procs : pc[p] \in Owning => holder[opened[p]] = p

\* It has written its pid there.
PidWritten ==
  \A p \in Procs : pc[p] \in Owning \ {"truncate", "write"} => recorded[opened[p]] = p

\* Past the probe.
Committed == {"unlink", "listen", "up", "serving", "closing", "remove", "release"}

\* While a hub without the lock serves, the path is its own and nobody is past
\* the probe.
LegacyAlone ==
  pc[Past] = "legacy" => sock = Past /\ \A p \in Procs : pc[p] \notin Committed

\* The path of a hub with the lock, from its listen to the end of its listener.
PathOwned == \A p \in Procs : pc[p] \in {"up", "serving", "closing"} => sock = p

Safe == OpenIsPath /\ OwnerHolds /\ PidWritten /\ LegacyAlone /\ PathOwned

-----------------------------------------------------------------------------
\* A process that leaves has nothing open and holds no lock.
LEMMA LeaveTyped ==
  ASSUME TypeOK, NEW p \in Procs, Leave(p)
  PROVE  /\ pc' = [pc EXCEPT ![p] = "gone"] /\ opened' = [opened EXCEPT ![p] = None]
         /\ holder' \in [Ids -> Ids \cup {None}]
         /\ recorded' = recorded /\ lockFile' = lockFile
  BY DEF Leave, Goto, TypeOK

\* The conjuncts of TypeOK about the processes alone.
PlacesOK ==
  /\ pc \in [Ids -> {"none", "legacy", "gone"} \cup Starting \cup Owning]
  /\ \A p \in Procs : pc[p] # "legacy"
  /\ pc[Past] \in {"legacy", "gone"}
  /\ opened \in [Ids -> Ids \cup {None}]
  /\ \A p \in Ids : opened[p] # None <=> pc[p] \in Owning \cup {"flock"}

LEMMA LeavePlaces ==
  ASSUME TypeOK, NEW p \in Procs, Leave(p)
  PROVE  PlacesOK'
  BY LeaveTyped, InstanceAssumption DEF PlacesOK, TypeOK, Ids, Starting, Owning

\* A step between two labels at which a process has a file open, or two at
\* which it has none.
LEMMA GotoPlaces ==
  ASSUME TypeOK, NEW p \in Procs, NEW l \in Starting \cup Owning \cup {"gone"},
         Goto(p, l), opened' = opened,
         pc[p] \in Owning \cup {"flock"} <=> l \in Owning \cup {"flock"}
  PROVE  PlacesOK'
  BY InstanceAssumption DEF Goto, PlacesOK, TypeOK, Ids, Starting, Owning

\* Every step keeps the types.
LEMMA TypeStep == TypeOK /\ [Next]_vars => TypeOK'
<1> SUFFICES ASSUME TypeOK, [Next]_vars
             PROVE  TypeOK'
  OBVIOUS
<1> USE DEF files, Rest, rest
<1>1. ASSUME NEW b \in Bridges, Dial(b)
      PROVE  TypeOK'
  <2>1. CASE pc' = pc
    BY <1>1, <2>1 DEF Dial, TypeOK
  <2>2. ASSUME NEW p \in Procs, pc[p] = "none", Goto(p, "start"),
               bridge' = [bridge EXCEPT ![b] = "polling"]
        PROVE  TypeOK'
    <3>1. PlacesOK'
      BY <1>1, <2>2, GotoPlaces DEF Dial, Starting, Owning
    <3> QED
      BY <1>1, <2>2, <3>1 DEF Dial, TypeOK, PlacesOK
  <2> QED
    BY <1>1, <2>1, <2>2 DEF Dial
<1>2. ASSUME NEW b \in Bridges, Poll(b)
      PROVE  TypeOK'
  BY <1>2 DEF Poll, TypeOK
<1>3. ASSUME NEW b \in Bridges, GiveUp(b)
      PROVE  TypeOK'
  BY <1>3, InstanceAssumption DEF GiveUp, Fault, NoFault, TypeOK
<1>4. CASE UserStart
  <2>1. PICK p \in Procs, l \in {"start", "open"} : pc[p] = "none" /\ Goto(p, l)
    BY <1>4 DEF UserStart
  <2>2. PlacesOK'
    BY <1>4, <2>1, GotoPlaces DEF UserStart, Starting, Owning
  <2> QED
    BY <1>4, <2>2 DEF UserStart, TypeOK, PlacesOK
<1>5. ASSUME NEW p \in Procs, HubStep(p)
      PROVE  TypeOK'
  <2>1. CASE StartCheck(p)
    <3>1. PlacesOK'
      BY <2>1, GotoPlaces DEF StartCheck, Starting, Owning
    <3> QED
      BY <2>1, <3>1 DEF StartCheck, TypeOK, PlacesOK
  <2>2. CASE OpenLock(p)
    <3>1. lockFile' \in Ids
      BY <2>2 DEF OpenLock, TypeOK, Ids
    <3> QED
      BY <2>2, <3>1, InstanceAssumption DEF OpenLock, Goto, TypeOK, Ids, Starting, Owning
  <2>3. CASE TakeLock(p)
    <3>1. PlacesOK'
      BY <2>3, GotoPlaces DEF TakeLock, Starting, Owning
    <3> QED
      BY <2>3, <3>1 DEF TakeLock, TypeOK, PlacesOK, Ids
  <2>4. CASE Refused(p)
    BY <2>4, LeaveTyped, LeavePlaces DEF Refused, TypeOK, PlacesOK
  <2>5. CASE Truncate(p)
    <3>1. PlacesOK'
      BY <2>5, GotoPlaces DEF Truncate, Starting, Owning
    <3> QED
      BY <2>5, <3>1 DEF Truncate, TypeOK, PlacesOK
  <2>6. CASE WritePid(p)
    <3>1. PlacesOK'
      BY <2>6, GotoPlaces DEF WritePid, Starting, Owning
    <3> QED
      BY <2>6, <3>1 DEF WritePid, TypeOK, PlacesOK, Ids
  <2>7. CASE ProbeSocket(p)
    <3>1. PlacesOK'
      BY <2>7, GotoPlaces DEF ProbeSocket, Starting, Owning
    <3> QED
      BY <2>7, <3>1 DEF ProbeSocket, TypeOK, PlacesOK
  <2>8. CASE Unlink(p)
    <3>1. PlacesOK'
      BY <2>8, GotoPlaces DEF Unlink, Starting, Owning
    <3> QED
      BY <2>8, <3>1 DEF Unlink, TypeOK, PlacesOK
  <2>9. CASE Listen(p)
    <3>1. PlacesOK'
      BY <2>9, GotoPlaces DEF Listen, Starting, Owning
    <3> QED
      BY <2>9, <3>1 DEF Listen, TypeOK, PlacesOK, Ids
  <2>10. CASE Notify(p)
    <3>1. PlacesOK'
      BY <2>10, GotoPlaces DEF Notify, Starting, Owning
    <3> QED
      BY <2>10, <3>1 DEF Notify, TypeOK, PlacesOK
  <2>11. CASE ShutListener(p)
    <3>1. PlacesOK'
      BY <2>11, GotoPlaces DEF ShutListener, Starting, Owning
    <3> QED
      BY <2>11, <3>1 DEF ShutListener, TypeOK, PlacesOK
  <2>12. CASE RemoveSocket(p)
    <3>1. PlacesOK'
      BY <2>12, GotoPlaces DEF RemoveSocket, Starting, Owning
    <3> QED
      BY <2>12, <3>1 DEF RemoveSocket, TypeOK, PlacesOK
  <2>13. CASE Release(p)
    BY <2>13, LeaveTyped, LeavePlaces DEF Release, TypeOK, PlacesOK
  <2>14. CASE Abandon(p)
    BY <2>14, LeaveTyped, LeavePlaces DEF Abandon, TypeOK, PlacesOK
  <2> QED
    BY <1>5, <2>1, <2>2, <2>3, <2>4, <2>5, <2>6, <2>7, <2>8, <2>9, <2>10, <2>11, <2>12, <2>13,
       <2>14
       DEF HubStep
<1>6. ASSUME NEW p \in Procs, Killed(p)
      PROVE  TypeOK'
  BY <1>6, LeaveTyped, LeavePlaces, InstanceAssumption DEF Killed, Fault, TypeOK, PlacesOK
<1>7. ASSUME NEW p \in Ids, PidReused(p)
      PROVE  TypeOK'
  BY <1>7 DEF PidReused, TypeOK
<1>8. CASE LegacyEnds
  BY <1>8, InstanceAssumption DEF LegacyEnds, Goto, TypeOK, Ids, Starting, Owning
<1>9. CASE StopRead
  BY <1>9, InstanceAssumption DEF StopRead, TypeOK
<1>10. CASE StopSignal
  <2>1. target \in Ids /\ target' = None
    BY <1>10 DEF StopSignal, TypeOK
  <2>2. CASE pc[target] = "serving" /\ Goto(target, "closing") /\ UNCHANGED <<sock, files>>
    <3>1. target \in Procs
      BY <2>1, <2>2 DEF TypeOK, Ids
    <3>2. PlacesOK'
      BY <2>2, <3>1, GotoPlaces DEF Starting, Owning
    <3> QED
      BY <1>10, <2>1, <2>2, <3>2 DEF StopSignal, TypeOK, PlacesOK
  <2>3. CASE pc[target] \in Starting \cup {"up"} /\ Leave(target) /\ sock' = sock
    <3>1. target \in Procs
      BY <2>1, <2>3 DEF TypeOK, Ids, Starting
    <3> QED
      BY <1>10, <2>1, <2>3, <3>1, LeaveTyped, LeavePlaces DEF StopSignal, TypeOK, PlacesOK
  <2>4. CASE pc[target] = "legacy" /\ Goto(target, "gone") /\ sock' = None /\ UNCHANGED files
    <3>1. target = Past
      BY <2>1, <2>4 DEF TypeOK, Ids
    <3> QED
      BY <1>10, <2>1, <2>4, <3>1, InstanceAssumption
         DEF StopSignal, Goto, TypeOK, Ids, Starting, Owning
  <2>5. CASE UNCHANGED <<pc, sock, files>>
    BY <1>10, <2>1, <2>5 DEF StopSignal, TypeOK
  <2> QED
    BY <1>10, <2>2, <2>3, <2>4, <2>5 DEF StopSignal
<1>11. CASE UNCHANGED vars
  BY <1>11 DEF vars, TypeOK
<1> QED
  BY <1>1, <1>2, <1>3, <1>4, <1>5, <1>6, <1>7, <1>8, <1>9, <1>10, <1>11 DEF Next

LEMMA TypeInit == Init => TypeOK
<1> SUFFICES ASSUME Init
             PROVE  TypeOK
  OBVIOUS
<1>1. PICK before \in {"nothing", "leftovers", "legacy"} :
        /\ pc = [p \in Ids |-> IF p # Past THEN "none"
                               ELSE IF before = "legacy" THEN "legacy" ELSE "gone"]
        /\ sock = IF before = "nothing" THEN None ELSE Past
        /\ lockFile = IF before = "nothing" THEN None ELSE Past
        /\ recorded = [f \in Ids |-> IF f = Past /\ before # "nothing" THEN Past ELSE None]
  BY DEF Init
<1> QED
  BY <1>1, InstanceAssumption DEF Init, TypeOK, Ids, Starting, Owning

\* Type correctness, for every set of hub processes, bridges and every bound.
THEOREM TypeCorrect == Spec => []TypeOK
<1> QED
  BY TypeInit, TypeStep, PTL DEF Spec

-----------------------------------------------------------------------------
\* Two processes past the lock would hold the lock of one file.
LEMMA OneOwns ==
  ASSUME TypeOK, OpenIsPath, OwnerHolds,
         NEW p \in Procs, NEW q \in Procs, pc[p] \in Owning, pc[q] \in Owning
  PROVE  p = q
<1>1. opened[p] = lockFile /\ opened[q] = lockFile
  BY DEF OpenIsPath, TypeOK, Ids
<1> QED
  BY <1>1 DEF OwnerHolds

\* A process that leaves takes nothing from the others.
LEMMA LeaveSafe ==
  ASSUME TypeOK, Safe, NEW p \in Procs, Leave(p), sock' = sock
  PROVE  Safe'
<1>1. /\ pc' = [pc EXCEPT ![p] = "gone"] /\ opened' = [opened EXCEPT ![p] = None]
      /\ holder' = [f \in Ids |-> IF holder[f] = p THEN None ELSE holder[f]]
      /\ UNCHANGED <<lockFile, recorded>>
  BY DEF Leave, Goto
<1>2. /\ \A q \in Procs \ {p} : pc'[q] = pc[q] /\ opened'[q] = opened[q]
      /\ pc'[p] = "gone" /\ opened'[p] = None /\ pc'[Past] = pc[Past]
  BY <1>1, InstanceAssumption DEF TypeOK, Ids
<1>3. OpenIsPath'
  BY <1>1, <1>2 DEF Safe, OpenIsPath
<1>4. OwnerHolds'
  <2> SUFFICES ASSUME NEW q \in Procs, pc'[q] \in Owning
               PROVE  holder'[opened'[q]] = q
    BY DEF OwnerHolds
  <2>1. q # p /\ pc[q] \in Owning /\ opened'[q] = opened[q] /\ opened[q] \in Ids
    BY <1>2 DEF Owning, TypeOK, Ids
  <2>2. holder[opened[q]] = q
    BY <2>1 DEF Safe, OwnerHolds
  <2> QED
    BY <1>1, <2>1, <2>2
<1>5. PidWritten'
  BY <1>1, <1>2 DEF Safe, PidWritten, Owning
<1>6. LegacyAlone' /\ PathOwned'
  BY <1>2 DEF Safe, LegacyAlone, PathOwned, Committed
<1> QED
  BY <1>3, <1>4, <1>5, <1>6 DEF Safe

\* What decides whether Safe survives a step of p that moves no file: p's new
\* place must be one it was entitled to.
LEMMA GotoSafe ==
  ASSUME TypeOK, Safe, NEW p \in Procs, NEW l, Goto(p, l), UNCHANGED <<sock, files>>,
         l \in Owning => pc[p] \in Owning,
         l \in Owning \ {"truncate", "write"} => pc[p] \in Owning \ {"truncate", "write"},
         l \in Committed => pc[p] \in Committed,
         l \in {"up", "serving", "closing"} => pc[p] \in {"up", "serving", "closing"}
  PROVE  Safe'
<1>1. /\ \A q \in Procs \ {p} : pc'[q] = pc[q]
      /\ pc'[p] = l /\ pc'[Past] = pc[Past]
  BY InstanceAssumption DEF Goto, TypeOK, Ids
<1>2. OpenIsPath' /\ OwnerHolds' /\ PidWritten'
  BY <1>1 DEF files, Safe, OpenIsPath, OwnerHolds, PidWritten
<1>3. LegacyAlone' /\ PathOwned'
  BY <1>1 DEF files, Safe, LegacyAlone, PathOwned
<1> QED
  BY <1>2, <1>3 DEF Safe

\* A step of the owner that clears the socket path.
LEMMA ClearSafe ==
  ASSUME TypeOK, Safe, NEW p \in Procs, NEW l \in {"listen", "remove", "release"},
         Goto(p, l), sock' = None, UNCHANGED files,
         pc[p] \in {"unlink", "closing", "remove"}
  PROVE  Safe'
<1>1. /\ \A q \in Procs \ {p} : pc'[q] = pc[q]
      /\ pc'[p] = l /\ pc'[Past] = pc[Past]
  BY InstanceAssumption DEF Goto, TypeOK, Ids
<1>2. OpenIsPath' /\ OwnerHolds' /\ PidWritten'
  BY <1>1 DEF files, Safe, OpenIsPath, OwnerHolds, PidWritten, Owning
<1>3. LegacyAlone'
  BY <1>1 DEF Safe, LegacyAlone, Committed
<1>4. PathOwned'
  <2>1. \A q \in Procs \ {p} : pc[q] \notin Owning
    BY OneOwns DEF Safe, Owning
  <2> QED
    BY <1>1, <2>1 DEF PathOwned, Owning
<1> QED
  BY <1>2, <1>3, <1>4 DEF Safe

LEMMA SafeInit == Init => Safe
  BY InstanceAssumption
     DEF Init, Safe, OpenIsPath, OwnerHolds, PidWritten, LegacyAlone, PathOwned, Owning,
         Committed, Ids

\* Every step keeps the strengthening.
LEMMA SafeStep == TypeOK /\ Safe /\ [Next]_vars => Safe'
<1> SUFFICES ASSUME TypeOK, Safe, [Next]_vars
             PROVE  Safe'
  OBVIOUS
<1> USE DEF Rest, rest
<1>1. ASSUME UNCHANGED <<pc, sock, files>>
      PROVE  Safe'
  BY <1>1 DEF files, Safe, OpenIsPath, OwnerHolds, PidWritten, LegacyAlone, PathOwned
<1>2. ASSUME NEW p \in Procs, pc[p] = "none", NEW l \in {"start", "open"}, Goto(p, l),
             UNCHANGED <<sock, files>>
      PROVE  Safe'
  BY <1>2, GotoSafe DEF Owning, Committed
<1>3. ASSUME NEW b \in Bridges, Dial(b)
      PROVE  Safe'
  BY <1>1, <1>2, <1>3 DEF Dial
<1>4. CASE UserStart
  BY <1>2, <1>4 DEF UserStart
<1>5. ASSUME NEW p \in Procs, HubStep(p)
      PROVE  Safe'
  <2>1. CASE StartCheck(p)
    BY <2>1, GotoSafe DEF StartCheck, Owning, Committed
  <2>2. CASE OpenLock(p)
    <3>1. /\ \A q \in Procs \ {p} : pc'[q] = pc[q] /\ opened'[q] = opened[q]
          /\ pc'[p] = "flock" /\ opened'[p] = lockFile' /\ pc'[Past] = pc[Past]
      BY <2>2, InstanceAssumption DEF OpenLock, Goto, TypeOK, Ids
    <3>2. OpenIsPath'
      <4> SUFFICES ASSUME NEW q \in Procs \ {p}, opened[q] # None
                   PROVE  lockFile' = lockFile
        BY <3>1 DEF Safe, OpenIsPath
      <4>1. lockFile = opened[q]
        BY DEF Safe, OpenIsPath
      <4> QED
        BY <2>2, <4>1 DEF OpenLock
    <3>3. OwnerHolds' /\ PidWritten' /\ LegacyAlone' /\ PathOwned'
      BY <2>2, <3>1
         DEF OpenLock, Safe, OwnerHolds, PidWritten, LegacyAlone, PathOwned, Owning, Committed
    <3> QED
      BY <3>2, <3>3 DEF Safe
  <2>3. CASE TakeLock(p)
    <3>1. /\ \A q \in Procs \ {p} : pc'[q] = pc[q]
          /\ pc'[p] = "truncate" /\ pc'[Past] = pc[Past] /\ opened[p] \in Ids
      BY <2>3, InstanceAssumption DEF TakeLock, Goto, TypeOK, Ids
    <3>2. \A q \in Procs : pc[q] \notin Owning
      <4> SUFFICES ASSUME NEW q \in Procs, pc[q] \in Owning
                   PROVE  FALSE
        OBVIOUS
      <4>1. opened[q] = lockFile /\ opened[p] = lockFile
        BY <2>3 DEF TakeLock, Safe, OpenIsPath, TypeOK, Ids
      <4> QED
        BY <2>3, <4>1, InstanceAssumption DEF TakeLock, Safe, OwnerHolds
    <3>3. OwnerHolds'
      BY <2>3, <3>1, <3>2 DEF TakeLock, OwnerHolds, TypeOK
    <3>4. OpenIsPath' /\ PidWritten' /\ LegacyAlone' /\ PathOwned'
      BY <2>3, <3>1, <3>2
         DEF TakeLock, Safe, OpenIsPath, PidWritten, LegacyAlone, PathOwned, Owning, Committed
    <3> QED
      BY <3>3, <3>4 DEF Safe
  <2>4. CASE Refused(p)
    BY <2>4, LeaveSafe DEF Refused
  <2>5. ASSUME pc[p] \in {"truncate", "write"}, UNCHANGED <<lockFile, holder, opened, sock>>,
               NEW l \in {"write", "probe"}, Goto(p, l), NEW pid,
               recorded' = [recorded EXCEPT ![opened[p]] = pid], l = "probe" => pid = p
        PROVE  Safe'
    <3>1. /\ \A q \in Procs \ {p} : pc'[q] = pc[q] /\ pc[q] \notin Owning
          /\ pc'[p] = l /\ pc'[Past] = pc[Past] /\ opened[p] \in Ids
      BY <2>5, OneOwns, InstanceAssumption DEF Goto, TypeOK, Ids, Owning, Safe
    <3>2. OpenIsPath' /\ OwnerHolds'
      BY <2>5, <3>1 DEF Safe, OpenIsPath, OwnerHolds, Owning
    <3>3. PidWritten'
      BY <2>5, <3>1 DEF PidWritten, TypeOK
    <3>4. LegacyAlone' /\ PathOwned'
      BY <2>5, <3>1 DEF Safe, LegacyAlone, PathOwned, Committed
    <3> QED
      BY <3>2, <3>3, <3>4 DEF Safe
  <2>6. CASE Truncate(p)
    BY <2>5, <2>6 DEF Truncate
  <2>7. CASE WritePid(p)
    BY <2>5, <2>7 DEF WritePid
  <2>8. CASE ProbeSocket(p)
    <3>1. CASE Goto(p, "abandon")
      BY <2>8, <3>1, GotoSafe DEF ProbeSocket, Owning, Committed
    <3>2. CASE ~Reachable /\ Goto(p, "unlink") /\ UNCHANGED files
      <4>1. /\ \A q \in Procs \ {p} : pc'[q] = pc[q]
            /\ pc'[p] = "unlink" /\ pc'[Past] = pc[Past]
        BY <3>2, InstanceAssumption DEF Goto, TypeOK, Ids
      <4>2. pc[Past] # "legacy"
        BY <3>2 DEF Safe, LegacyAlone, Reachable, Listening, Ids
      <4>3. OpenIsPath' /\ OwnerHolds' /\ PidWritten'
        BY <2>8, <3>2, <4>1
           DEF ProbeSocket, files, Safe, OpenIsPath, OwnerHolds, PidWritten, Owning
      <4>4. LegacyAlone' /\ PathOwned'
        BY <2>8, <4>1, <4>2 DEF ProbeSocket, Safe, LegacyAlone, PathOwned
      <4> QED
        BY <4>3, <4>4 DEF Safe
    <3> QED
      BY <2>8, <3>1, <3>2 DEF ProbeSocket
  <2>9. CASE Unlink(p)
    BY <2>9, ClearSafe DEF Unlink
  <2>10. CASE Listen(p)
    <3>1. CASE sock' = sock /\ Goto(p, "abandon") /\ UNCHANGED files
      BY <2>10, <3>1, GotoSafe DEF Listen, Owning, Committed
    <3>2. CASE sock' = p /\ Goto(p, "up") /\ UNCHANGED files
      <4>1. /\ \A q \in Procs \ {p} : pc'[q] = pc[q] /\ pc[q] \notin Owning
            /\ pc'[p] = "up" /\ pc'[Past] = pc[Past]
        BY <2>10, <3>2, OneOwns, InstanceAssumption DEF Listen, Goto, TypeOK, Ids, Owning, Safe
      <4>2. OpenIsPath' /\ OwnerHolds' /\ PidWritten'
        BY <2>10, <3>2, <4>1
           DEF Listen, files, Safe, OpenIsPath, OwnerHolds, PidWritten, Owning
      <4>3. LegacyAlone' /\ PathOwned'
        BY <2>10, <3>2, <4>1 DEF Listen, Safe, LegacyAlone, PathOwned, Committed, Owning
      <4> QED
        BY <4>2, <4>3 DEF Safe
    <3> QED
      BY <2>10, <3>1, <3>2 DEF Listen
  <2>11. CASE Notify(p)
    BY <2>11, GotoSafe DEF Notify, Owning, Committed
  <2>12. CASE ShutListener(p)
    BY <2>12, ClearSafe DEF ShutListener
  <2>13. CASE RemoveSocket(p)
    BY <2>13, ClearSafe DEF RemoveSocket
  <2>14. CASE Release(p)
    BY <2>14, LeaveSafe DEF Release
  <2>15. CASE Abandon(p)
    BY <2>15, LeaveSafe DEF Abandon
  <2> QED
    BY <1>5, <2>1, <2>2, <2>3, <2>4, <2>6, <2>7, <2>8, <2>9, <2>10, <2>11, <2>12, <2>13, <2>14,
       <2>15
       DEF HubStep
<1>6. ASSUME NEW p \in Procs, Killed(p)
      PROVE  Safe'
  BY <1>6, LeaveSafe DEF Killed
<1>7. ASSUME pc[Past] = "legacy", Goto(Past, "gone"), sock' \in {sock, None}, UNCHANGED files
      PROVE  Safe'
  <2>1. pc'[Past] = "gone" /\ \A q \in Procs : pc'[q] = pc[q]
    BY <1>7, InstanceAssumption DEF Goto, TypeOK, Ids
  <2>2. \A q \in Procs : pc[q] \notin Committed
    BY <1>7 DEF Safe, LegacyAlone
  <2>3. OpenIsPath' /\ OwnerHolds' /\ PidWritten'
    BY <1>7, <2>1 DEF files, Safe, OpenIsPath, OwnerHolds, PidWritten
  <2> QED
    BY <2>1, <2>2, <2>3 DEF Safe, LegacyAlone, PathOwned, Committed
<1>8. CASE StopSignal
  <2>1. target \in Ids
    BY <1>8 DEF StopSignal, TypeOK
  <2>2. CASE pc[target] = "serving" /\ Goto(target, "closing") /\ UNCHANGED <<sock, files>>
    <3>1. target \in Procs
      BY <2>1, <2>2 DEF TypeOK, Ids
    <3> QED
      BY <2>2, <3>1, GotoSafe DEF Owning, Committed
  <2>3. CASE pc[target] \in Starting \cup {"up"} /\ Leave(target) /\ sock' = sock
    <3>1. target \in Procs
      BY <2>1, <2>3 DEF TypeOK, Ids, Starting
    <3> QED
      BY <2>3, <3>1, LeaveSafe
  <2>4. CASE pc[target] = "legacy" /\ Goto(target, "gone") /\ sock' = None /\ UNCHANGED files
    <3>1. target = Past
      BY <2>1, <2>4 DEF TypeOK, Ids
    <3> QED
      BY <1>7, <2>4, <3>1
  <2> QED
    BY <1>1, <1>8, <2>2, <2>3, <2>4 DEF StopSignal
<1> QED
  BY <1>1, <1>3, <1>4, <1>5, <1>6, <1>7, <1>8
     DEF Next, Poll, GiveUp, PidReused, LegacyEnds, StopRead, vars

LEMMA Invariant == Spec => [](TypeOK /\ Safe)
<1> QED
  BY TypeInit, TypeStep, SafeInit, SafeStep, PTL DEF Spec

\* No two hubs are past the lock at once, for any number of starts, closes,
\* deaths and stops.
THEOREM OneOwnerAlways == Spec => []OneOwner
<1>1. TypeOK /\ Safe => OneOwner
  <2> SUFFICES ASSUME TypeOK, Safe, NEW p \in Ids, NEW q \in Ids,
                      pc[p] \in Owning, pc[q] \in Owning
               PROVE  p = q
    BY DEF OneOwner
  <2>1. p \in Procs /\ q \in Procs
    BY DEF TypeOK, Ids, Owning
  <2> QED
    BY <2>1, OneOwns DEF Safe
<1> QED
  BY <1>1, Invariant, PTL

\* Every hub that listens is the one its socket path leads to.
THEOREM ListenerReachableAlways == Spec => []ListenerReachable
<1>1. TypeOK /\ Safe => ListenerReachable
  BY DEF TypeOK, Safe, LegacyAlone, PathOwned, ListenerReachable, Listening, Ids
<1> QED
  BY <1>1, Invariant, PTL

\* The file at the pid path names the hub that holds the lock.
THEOREM PidNamesOwnerAlways == Spec => []PidNamesOwner
<1>1. TypeOK /\ Safe => PidNamesOwner
  <2> SUFFICES ASSUME TypeOK, Safe, NEW p \in Procs, pc[p] \in Owning \ {"truncate", "write"}
               PROVE  lockFile # None /\ recorded[lockFile] = p
    BY DEF PidNamesOwner
  <2>1. opened[p] # None /\ opened[p] = lockFile
    BY DEF TypeOK, Safe, OpenIsPath, Ids
  <2> QED
    BY <2>1 DEF Safe, PidWritten
<1> QED
  BY <1>1, Invariant, PTL

=============================================================================
