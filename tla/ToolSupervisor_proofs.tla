----------------------- MODULE ToolSupervisor_proofs -----------------------
(***************************************************************************)
(* Safety of ToolSupervisor for any clients, subprocesses and faults.      *)
(* AnswersMatch and TableIsWaiters hold because the keys under which two    *)
(* clients wait never are the same (OwnKeys), and because a client whose   *)
(* channel has something in it has left the table (TableUnanswered).       *)
(* OneProcessRead holds because what is read is the subprocess the tool    *)
(* names, and the tool says so (ReadIsCommand).                            *)
(***************************************************************************)
EXTENDS ToolSupervisor, TLAPS

\* No two clients wait under one key.
OwnKeys == \A c, d \in Clients : Waiting(c) /\ Waiting(d) /\ req[c] = req[d] => c = d

\* An entry of the table belongs to a client that waits under its key, with
\* nothing in its channel.
TableUnanswered ==
  \A k \in DOMAIN pending :
    Waiting(pending[k]) /\ req[pending[k]] = k /\ chan[pending[k]] = None

\* A client without an answer is in the table.
WaitersListed ==
  \A c \in Clients : Waiting(c) /\ chan[c] = None => req[c] \in DOMAIN pending /\ pending[req[c]] = c

Matched == OwnKeys /\ TableUnanswered /\ WaitersListed /\ AnswersMatch

\* A subprocess that lives and is read is the tool's, and it runs or is being stopped.
ReadIsCommand ==
  /\ status = "STOPPING" <=> mu = Stopper
  /\ \A p \in Pids : process[p] = "alive" /\ reader[p] = "reading" =>
       cmd = p /\ status \in {"RUNNING", "STOPPING"}

-----------------------------------------------------------------------------
(* Types.                                                                   *)

LEMMA TypeInit == Init => TypeOK
<1> SUFFICES ASSUME Init
             PROVE  TypeOK
  OBVIOUS
<1>1. pending \in [DOMAIN pending -> Clients] /\ DOMAIN pending \subseteq 1..reqSeq
  BY DEF Init
<1>2. /\ inbox \in [Pids -> SUBSET (1..reqSeq)] /\ req \in [Clients -> 0..reqSeq]
      /\ chan \in [Clients -> 0..reqSeq \cup {None, Closed}]
  BY DEF Init
<1>3. calls \in 0..MaxCalls /\ faults \in 0..MaxFaults /\ doomed \subseteq Pids
  BY ToolAssumption DEF Init
<1> QED
  BY <1>1, <1>2, <1>3, ToolAssumption DEF Init, TypeOK, Waiting

\* What is typed by the requests made so far.
TableTypes ==
  /\ reqSeq \in Nat /\ pending \in [DOMAIN pending -> Clients]
  /\ DOMAIN pending \subseteq 1..reqSeq
  /\ inbox \in [Pids -> SUBSET (1..reqSeq)]
  /\ req \in [Clients -> 0..reqSeq]
  /\ chan \in [Clients -> 0..reqSeq \cup {None, Closed}]

LEMMA EnterTyped ==
  ASSUME TypeOK, NEW c \in Clients, Enter(c),
         inbox' = inbox \/ \E p : Write(p, reqSeq + 1)
  PROVE  TableTypes' /\ req'[c] > 0 /\ \A d \in Clients \ {c} : req'[d] = req[d]
<1>1. reqSeq \in Nat /\ reqSeq' = reqSeq + 1
  BY DEF TypeOK, Enter
<1>2. /\ 1..reqSeq \subseteq 1..reqSeq' /\ 0..reqSeq \subseteq 0..reqSeq'
      /\ reqSeq + 1 \in 1..reqSeq' /\ reqSeq + 1 \in 0..reqSeq'
  BY <1>1
<1>3. pending' \in [DOMAIN pending' -> Clients] /\ DOMAIN pending' \subseteq 1..reqSeq'
  BY <1>1, <1>2 DEF TypeOK, Enter, With, Key
<1>4. req' \in [Clients -> 0..reqSeq'] /\ chan' \in [Clients -> 0..reqSeq' \cup {None, Closed}]
  BY <1>2 DEF TypeOK, Enter
<1>5. inbox' \in [Pids -> SUBSET (1..reqSeq')]
  <2>1. CASE inbox' = inbox
    BY <1>2, <2>1 DEF TypeOK
  <2>2. ASSUME NEW p, Write(p, reqSeq + 1)
        PROVE  inbox' \in [Pids -> SUBSET (1..reqSeq')]
    BY <1>2, <2>2 DEF TypeOK, Write
  <2> QED
    BY <2>1, <2>2
<1> QED
  BY <1>1, <1>3, <1>4, <1>5 DEF TableTypes, TypeOK, Enter

LEMMA WithoutTyped ==
  ASSUME TypeOK, NEW k
  PROVE  /\ Without(k) \in [DOMAIN Without(k) -> Clients]
         /\ DOMAIN Without(k) \subseteq 1..reqSeq
  BY DEF TypeOK, Without

LEMMA ReturnTyped ==
  ASSUME TypeOK, NEW c \in Clients, Return(c)
  PROVE  /\ pc' = [pc EXCEPT ![c] = "idle"]
         /\ method' \in [Clients -> Methods \cup {None}]
         /\ req' \in [Clients -> 0..reqSeq] /\ \A d \in Clients \ {c} : req'[d] = req[d]
         /\ chan' \in [Clients -> 0..reqSeq \cup {None, Closed}]
         /\ expired' \subseteq StepClients /\ doomed' \subseteq Pids
<1>1. reqSeq \in Nat /\ 0 \in 0..reqSeq
  BY DEF TypeOK
<1> QED
  BY <1>1 DEF TypeOK, Return, Goto, EndContext

LEMMA DrainTyped ==
  ASSUME TypeOK, Drain
  PROVE  /\ pending' \in [DOMAIN pending' -> Clients] /\ DOMAIN pending' \subseteq 1..reqSeq
         /\ chan' \in [Clients -> 0..reqSeq \cup {None, Closed}]
  BY DEF TypeOK, Drain

LEMMA TypeStep == TypeOK /\ [Next]_vars => TypeOK'
<1> SUFFICES ASSUME TypeOK, [Next]_vars
             PROVE  TypeOK'
  OBVIOUS
<1> USE ToolAssumption DEF fields, procs, table, clients, count, Goto, AfterEnsure, FinishStart, Fault, Waiting
<1>1. ASSUME NEW c \in Clients, NEW m \in Methods, Arrive(c, m)
      PROVE  TypeOK'
  BY <1>1 DEF Arrive, TypeOK
<1>2. ASSUME NEW c \in Clients, AnswerCached(c)
      PROVE  TypeOK'
  <2>1. CASE Return(c)
    BY <1>2, <2>1, ReturnTyped DEF AnswerCached, TypeOK
  <2>2. CASE ~Return(c)
    BY <1>2, <2>2 DEF AnswerCached, TypeOK
  <2> QED
    BY <2>1, <2>2
<1>3. ASSUME NEW c \in Clients, EnsureRunning(c)
      PROVE  TypeOK'
  BY <1>3 DEF EnsureRunning, TypeOK
<1>4. ASSUME NEW c \in Clients, StartLocked(c)
      PROVE  TypeOK'
  <2>1. CASE Return(c)
    BY <1>4, <2>1, ReturnTyped DEF StartLocked, TypeOK
  <2>2. ASSUME NEW p \in Pids,
               process' = [process EXCEPT ![p] = "alive"],
               reader' = [reader EXCEPT ![p] = "reading"],
               owner' = [owner EXCEPT ![p] = c], cmd' = p, stdin' = p,
               status' = "RUNNING", mu' = c, Goto(c, "greet"),
               UNCHANGED <<doomed, method, req, chan, expired>>
        PROVE  TypeOK'
    <3>1. p # None
      BY DEF Pids
    <3> QED
      BY <1>4, <2>2, <3>1 DEF StartLocked, TypeOK
  <2> QED
    BY <1>4, <2>1, <2>2 DEF StartLocked
<1>5. ASSUME NEW c \in Clients, Greet(c)
      PROVE  TypeOK'
  <2>1. CASE Enter(c) /\ Write(stdin, reqSeq + 1)
    <3>1. TableTypes' /\ req'[c] > 0 /\ \A d \in Clients \ {c} : req'[d] = req[d]
      BY <2>1, EnterTyped
    <3> QED
      BY <1>5, <2>1, <3>1 DEF Greet, TypeOK, TableTypes
  <2>2. CASE FinishStart(c) /\ UNCHANGED <<table, req, chan, inbox>>
    BY <1>5, <2>2 DEF Greet, TypeOK
  <2> QED
    BY <1>5, <2>1, <2>2 DEF Greet
<1>6. ASSUME NEW c \in Clients, Greeted(c)
      PROVE  TypeOK'
  <2>1. CASE Enter(c) /\ Write(stdin, reqSeq + 1)
    <3>1. TableTypes' /\ req'[c] > 0 /\ \A d \in Clients \ {c} : req'[d] = req[d]
      BY <2>1, EnterTyped
    <3> QED
      BY <1>6, <2>1, <3>1 DEF Greeted, TypeOK, TableTypes
  <2>2. CASE UNCHANGED <<table, req, chan, inbox>>
    BY <1>6, <2>2 DEF Greeted, TypeOK
  <2> QED
    BY <1>6, <2>1, <2>2 DEF Greeted
<1>7. ASSUME NEW c \in Clients, HandshakeTimesOut(c)
      PROVE  TypeOK'
  BY <1>7, WithoutTyped DEF HandshakeTimesOut, TypeOK
<1>8. ASSUME NEW c \in Clients, Register(c)
      PROVE  TypeOK'
  <2>1. TableTypes' /\ req'[c] > 0 /\ \A d \in Clients \ {c} : req'[d] = req[d]
    BY <1>8, EnterTyped DEF Register
  <2> QED
    BY <1>8, <2>1 DEF Register, TypeOK, TableTypes
<1>9. ASSUME NEW c \in Clients, Send(c)
      PROVE  TypeOK'
  <2>1. CASE Return(c) /\ pending' = Without(Key(req[c]))
    BY <1>9, <2>1, ReturnTyped, WithoutTyped DEF Send, TypeOK
  <2>2. CASE panicked' = TRUE /\ UNCHANGED <<table, clients, doomed, inbox>>
    BY <1>9, <2>2 DEF Send, TypeOK
  <2>3. CASE Write(stdin, req[c]) /\ Goto(c, "wait")
             /\ UNCHANGED <<table, method, req, chan, expired, doomed, panicked>>
    <3>1. req[c] \in 1..reqSeq
      BY <1>9 DEF Send, TypeOK
    <3>2. inbox' \in [Pids -> SUBSET (1..reqSeq)]
      BY <2>3, <3>1 DEF TypeOK, Write
    <3> QED
      BY <1>9, <2>3, <3>2 DEF Send, TypeOK
  <2> QED
    BY <1>9, <2>1, <2>2, <2>3 DEF Send
<1>10. ASSUME NEW c \in Clients, Receive(c)
       PROVE  TypeOK'
  BY <1>10, ReturnTyped DEF Receive, TypeOK
<1>11. ASSUME NEW c \in Clients, GiveUp(c)
       PROVE  TypeOK'
  BY <1>11, ReturnTyped, WithoutTyped DEF GiveUp, TypeOK
<1>12. ASSUME NEW c \in Clients, Expire(c)
       PROVE  TypeOK'
  BY <1>12 DEF Expire, EndContext, TypeOK
<1>13. ASSUME NEW c \in Clients, Disconnect(c)
       PROVE  TypeOK'
  BY <1>13 DEF Disconnect, EndContext, TypeOK
<1>14. ASSUME NEW p \in Pids, Answer(p)
       PROVE  TypeOK'
  <2> PICK n \in inbox[p] :
        /\ inbox' = [inbox EXCEPT ![p] = @ \ {n}]
        /\ pending' = Without(Key(n)) /\ reqSeq' = reqSeq
        /\ chan' = IF Key(n) \in DOMAIN pending THEN [chan EXCEPT ![pending[Key(n)]] = n] ELSE chan
    BY <1>14 DEF Answer
  <2>1. n \in 0..reqSeq
    BY DEF TypeOK
  <2>2. chan' \in [Clients -> 0..reqSeq \cup {None, Closed}]
    BY <2>1 DEF TypeOK
  <2> QED
    BY <1>14, <2>2, WithoutTyped DEF Answer, TypeOK
<1>15. ASSUME NEW p \in Pids, Exit(p) \/ Killed(p)
       PROVE  TypeOK'
  BY <1>15 DEF Exit, Killed, Gone, TypeOK
<1>16. ASSUME NEW p \in Pids, OversizedLine(p)
       PROVE  TypeOK'
  BY <1>16 DEF OversizedLine, TypeOK
<1>17. ASSUME NEW p \in Pids, MarkStopped(p)
       PROVE  TypeOK'
  BY <1>17 DEF MarkStopped, TypeOK
<1>18. ASSUME NEW p \in Pids, DrainPending(p)
       PROVE  TypeOK'
  BY <1>18, DrainTyped DEF DrainPending, TypeOK
<1>19. CASE CallStop
  BY <1>19 DEF CallStop, TypeOK
<1>20. CASE StopBegin
  BY <1>20 DEF StopBegin, TypeOK
<1>21. CASE StopEnd
  BY <1>21, DrainTyped DEF StopEnd, StopReset, TypeOK
<1>22. CASE UNCHANGED vars
  BY <1>22 DEF vars, TypeOK
<1> QED
  BY <1>1, <1>2, <1>3, <1>4, <1>5, <1>6, <1>7, <1>8, <1>9, <1>10, <1>11, <1>12, <1>13, <1>14,
     <1>15, <1>16, <1>17, <1>18, <1>19, <1>20, <1>21, <1>22
     DEF Next, ClientStep, ReaderStep, StopStep

-----------------------------------------------------------------------------
(* The subprocess that is read.                                             *)

LEMMA ReadInit == Init => ReadIsCommand
  BY ToolAssumption DEF Init, ReadIsCommand

LEMMA ReadStep == TypeOK /\ ReadIsCommand /\ [Next]_vars => ReadIsCommand'
<1> SUFFICES ASSUME TypeOK, ReadIsCommand, [Next]_vars
             PROVE  ReadIsCommand'
  OBVIOUS
<1> USE ToolAssumption DEF fields, procs, table, clients, count, FinishStart, TypeOK, ReadIsCommand
<1>1. ASSUME NEW c \in Clients,
             \/ \E m \in Methods : Arrive(c, m)
             \/ AnswerCached(c) \/ EnsureRunning(c) \/ Register(c) \/ Send(c) \/ Receive(c)
             \/ GiveUp(c) \/ Expire(c) \/ Disconnect(c)
      PROVE  ReadIsCommand'
  <2>1. UNCHANGED <<status, mu, cmd, process, reader>>
    BY <1>1 DEF Arrive, AnswerCached, EnsureRunning, Register, Send, Receive, GiveUp, Expire,
                Disconnect
  <2> QED
    BY <2>1
<1>2. ASSUME NEW c \in Clients, StartLocked(c)
      PROVE  ReadIsCommand'
  <2>1. \A p \in Pids : ~(process[p] = "alive" /\ reader[p] = "reading")
    BY <1>2 DEF StartLocked
  <2> QED
    BY <1>2, <2>1 DEF StartLocked
<1>3. ASSUME NEW c \in Clients, Greet(c) \/ Greeted(c) \/ HandshakeTimesOut(c)
      PROVE  ReadIsCommand'
  <2>1. UNCHANGED <<status, cmd, process, reader>> /\ mu # Stopper /\ mu' # Stopper
    BY <1>3 DEF Greet, Greeted, HandshakeTimesOut
  <2> QED
    BY <2>1
<1>4. ASSUME NEW p \in Pids, Answer(p) \/ DrainPending(p) \/ OversizedLine(p)
      PROVE  ReadIsCommand'
  BY <1>4 DEF Answer, DrainPending, OversizedLine
<1>5. ASSUME NEW p \in Pids, Exit(p) \/ Killed(p)
      PROVE  ReadIsCommand'
  BY <1>5 DEF Exit, Killed, Gone
<1>6. ASSUME NEW p \in Pids, MarkStopped(p)
      PROVE  ReadIsCommand'
  BY <1>6 DEF MarkStopped
<1>7. CASE CallStop
  BY <1>7 DEF CallStop
<1>8. CASE StopBegin
  BY <1>8 DEF StopBegin
<1>9. CASE StopEnd
  BY <1>9 DEF StopEnd, StopReset
<1>10. CASE UNCHANGED vars
  BY <1>10 DEF vars
<1> QED
  BY <1>1, <1>2, <1>3, <1>4, <1>5, <1>6, <1>7, <1>8, <1>9, <1>10
     DEF Next, ClientStep, ReaderStep, StopStep

-----------------------------------------------------------------------------
(* The table.                                                               *)

LEMMA MatchedInit == Init => Matched
  BY DEF Init, Matched, OwnKeys, TableUnanswered, WaitersListed, AnswersMatch, Waiting

\* A client enters the table under a number nobody has.
LEMMA EnterMatched ==
  ASSUME TypeOK, Matched, NEW c \in Clients, Enter(c),
         ~Waiting(c) \/ chan[c] # None, Waiting(c)',
         \A d \in Clients \ {c} : pc'[d] = pc[d]
  PROVE  Matched'
<1>1. reqSeq + 1 \notin DOMAIN pending /\ \A d \in Clients : req[d] # reqSeq + 1
  BY DEF TypeOK
<1>2. req'[c] = reqSeq + 1 /\ chan'[c] = None
      /\ \A d \in Clients \ {c} : req'[d] = req[d] /\ chan'[d] = chan[d]
  BY DEF TypeOK, Enter
<1>3. \A k \in DOMAIN pending : pending[k] \in Clients \ {c}
  BY DEF TypeOK, Matched, TableUnanswered
<1>4. /\ DOMAIN pending' = DOMAIN pending \cup {reqSeq + 1} /\ pending'[reqSeq + 1] = c
      /\ \A k \in DOMAIN pending : pending'[k] = pending[k]
  BY <1>1 DEF Enter, With, Key
<1>5. \A d \in Clients \ {c} : Waiting(d)' <=> Waiting(d)
  BY DEF Waiting
<1>6. OwnKeys'
  BY <1>1, <1>2, <1>5 DEF Matched, OwnKeys
<1>7. TableUnanswered'
  BY <1>2, <1>3, <1>4, <1>5 DEF Matched, TableUnanswered
<1>8. WaitersListed'
  BY <1>2, <1>4, <1>5 DEF Matched, WaitersListed
<1>9. AnswersMatch'
  BY <1>2, <1>5 DEF Matched, AnswersMatch
<1> QED
  BY <1>6, <1>7, <1>8, <1>9 DEF Matched

\* A client stops waiting, and is out of the table or leaves it now.
LEMMA LeaveMatched ==
  ASSUME TypeOK, Matched, NEW c \in Clients, ~Waiting(c)',
         \/ pending' = pending /\ (~Waiting(c) \/ chan[c] # None)
         \/ pending' = Without(req[c]) /\ Waiting(c),
         \A d \in Clients \ {c} : pc'[d] = pc[d] /\ req'[d] = req[d] /\ chan'[d] = chan[d]
  PROVE  Matched'
<1>1. \A d \in Clients \ {c} : Waiting(d)' <=> Waiting(d)
  BY DEF Waiting
<1>2. \A k \in DOMAIN pending' :
        k \in DOMAIN pending /\ pending'[k] = pending[k] /\ pending[k] \in Clients \ {c}
  <2>1. CASE pending' = pending /\ (~Waiting(c) \/ chan[c] # None)
    BY <2>1 DEF TypeOK, Matched, TableUnanswered
  <2>2. CASE pending' = Without(req[c]) /\ Waiting(c)
    BY <2>2 DEF TypeOK, Matched, TableUnanswered, Without
  <2> QED
    BY <2>1, <2>2
<1>3. \A d \in Clients \ {c} : Waiting(d) /\ req[d] \in DOMAIN pending => req[d] \in DOMAIN pending'
  BY DEF Matched, OwnKeys, Without
<1>4. OwnKeys' /\ AnswersMatch'
  BY <1>1 DEF Matched, OwnKeys, AnswersMatch
<1>5. TableUnanswered'
  BY <1>1, <1>2 DEF Matched, TableUnanswered
<1>6. WaitersListed'
  BY <1>1, <1>2, <1>3 DEF Matched, WaitersListed
<1> QED
  BY <1>4, <1>5, <1>6 DEF Matched

LEMMA ReturnMatched ==
  ASSUME TypeOK, Matched, NEW c \in Clients, Return(c),
         \/ pending' = pending /\ (~Waiting(c) \/ chan[c] # None)
         \/ pending' = Without(Key(req[c])) /\ Waiting(c)
  PROVE  Matched'
<1>1. ~Waiting(c)' /\ \A d \in Clients \ {c} :
        pc'[d] = pc[d] /\ req'[d] = req[d] /\ chan'[d] = chan[d]
  BY DEF Return, Goto, Waiting, TypeOK
<1> QED
  BY <1>1, LeaveMatched DEF Key

\* Nobody starts or stops waiting.
LEMMA SameMatched ==
  ASSUME TypeOK, Matched, \A c \in Clients : Waiting(c)' <=> Waiting(c), UNCHANGED <<pending, req, chan>>
  PROVE  Matched'
  BY DEF Matched, OwnKeys, TableUnanswered, WaitersListed, AnswersMatch, TypeOK

LEMMA DrainMatched ==
  ASSUME TypeOK, Matched, Drain, UNCHANGED <<pc, req>>
  PROVE  Matched'
<1>1. \A c \in Clients : Waiting(c)' <=> Waiting(c)
  BY DEF Waiting
<1>2. \A c \in Clients : chan'[c] \in {chan[c], Closed} /\ (Waiting(c) => chan'[c] # None)
  BY ToolAssumption DEF Drain, Matched, WaitersListed
<1>3. DOMAIN pending' = {}
  BY DEF Drain
<1> QED
  BY <1>1, <1>2, <1>3 DEF Matched, OwnKeys, TableUnanswered, WaitersListed, AnswersMatch

LEMMA MatchedStep == TypeOK /\ Matched /\ [Next]_vars => Matched'
<1> SUFFICES ASSUME TypeOK, Matched, [Next]_vars
             PROVE  Matched'
  OBVIOUS
<1> USE DEF fields, procs, table, clients, count, FinishStart
<1>1. ASSUME NEW c \in Clients, NEW l, ~Waiting(c), Goto(c, l),
             l \notin {"greeted", "listed", "send", "wait"}, UNCHANGED <<pending, req, chan>>
      PROVE  Matched'
  <2>1. \A d \in Clients : Waiting(d)' <=> Waiting(d)
    BY <1>1 DEF Goto, Waiting, TypeOK
  <2> QED
    BY <1>1, <2>1, SameMatched
<1>2. ASSUME NEW c \in Clients, NEW m \in Methods, Arrive(c, m)
      PROVE  Matched'
  BY <1>1, <1>2 DEF Arrive, Waiting
<1>3. ASSUME NEW c \in Clients, AnswerCached(c)
      PROVE  Matched'
  <2>1. CASE Return(c)
    BY <1>3, <2>1, ReturnMatched DEF AnswerCached, Waiting
  <2>2. CASE ~Return(c)
    BY <1>1, <1>3, <2>2 DEF AnswerCached, Waiting
  <2> QED
    BY <2>1, <2>2
<1>4. ASSUME NEW c \in Clients, EnsureRunning(c)
      PROVE  Matched'
  BY <1>1, <1>4 DEF EnsureRunning, AfterEnsure, Waiting
<1>5. ASSUME NEW c \in Clients, StartLocked(c)
      PROVE  Matched'
  <2>1. CASE Return(c)
    BY <1>5, <2>1, ReturnMatched DEF StartLocked, Waiting
  <2>2. CASE Goto(c, "greet") /\ UNCHANGED <<req, chan>>
    BY <1>1, <1>5, <2>2 DEF StartLocked, Waiting
  <2> QED
    BY <1>5, <2>1, <2>2 DEF StartLocked
<1>6. ASSUME NEW c \in Clients, Greet(c)
      PROVE  Matched'
  <2>1. CASE Enter(c) /\ Goto(c, "greeted")
    BY <1>6, <2>1, EnterMatched DEF Greet, Goto, Waiting, TypeOK
  <2>2. CASE FinishStart(c) /\ UNCHANGED <<table, req, chan>>
    BY <1>1, <1>6, <2>2 DEF Greet, AfterEnsure, Waiting
  <2> QED
    BY <1>6, <2>1, <2>2 DEF Greet
<1>7. ASSUME NEW c \in Clients, Greeted(c)
      PROVE  Matched'
  <2>1. CASE Enter(c) /\ Goto(c, "listed")
    BY <1>7, <2>1, EnterMatched DEF Greeted, Goto, Waiting, TypeOK
  <2>2. CASE FinishStart(c) /\ UNCHANGED <<table, req, chan>>
    <3>1. ~Waiting(c)' /\ \A d \in Clients \ {c} : pc'[d] = pc[d]
      BY <2>2 DEF AfterEnsure, Goto, Waiting, TypeOK
    <3> QED
      BY <1>7, <2>2, <3>1, LeaveMatched DEF Greeted
  <2> QED
    BY <1>7, <2>1, <2>2 DEF Greeted
<1>8. ASSUME NEW c \in Clients, HandshakeTimesOut(c)
      PROVE  Matched'
  <2>1. ~Waiting(c)' /\ \A d \in Clients \ {c} : pc'[d] = pc[d]
    BY <1>8 DEF HandshakeTimesOut, AfterEnsure, Goto, Waiting, TypeOK
  <2> QED
    BY <1>8, <2>1, LeaveMatched DEF HandshakeTimesOut, Waiting, Key
<1>9. ASSUME NEW c \in Clients, Register(c)
      PROVE  Matched'
  BY <1>9, EnterMatched DEF Register, Goto, Waiting, TypeOK
<1>10. ASSUME NEW c \in Clients, Send(c)
       PROVE  Matched'
  <2>1. CASE Return(c) /\ pending' = Without(Key(req[c]))
    BY <1>10, <2>1, ReturnMatched DEF Send, Waiting
  <2>2. CASE UNCHANGED <<table, clients>>
    BY <2>2, SameMatched DEF Waiting
  <2>3. CASE Goto(c, "wait") /\ UNCHANGED <<table, req, chan>>
    <3>1. \A d \in Clients : Waiting(d)' <=> Waiting(d)
      BY <1>10, <2>3 DEF Send, Goto, Waiting, TypeOK
    <3> QED
      BY <2>3, <3>1, SameMatched
  <2> QED
    BY <1>10, <2>1, <2>2, <2>3 DEF Send
<1>11. ASSUME NEW c \in Clients, Receive(c)
       PROVE  Matched'
  BY <1>11, ReturnMatched DEF Receive
<1>12. ASSUME NEW c \in Clients, GiveUp(c)
       PROVE  Matched'
  BY <1>12, ReturnMatched DEF GiveUp, Waiting
<1>13. ASSUME NEW p \in Pids, Answer(p)
       PROVE  Matched'
  <2> PICK n \in inbox[p] :
        /\ pending' = Without(n)
        /\ chan' = IF n \in DOMAIN pending THEN [chan EXCEPT ![pending[n]] = n] ELSE chan
    BY <1>13 DEF Answer, Key
  <2>1. UNCHANGED <<pc, req>> /\ \A c \in Clients : Waiting(c)' <=> Waiting(c)
    BY <1>13 DEF Answer, Waiting
  <2>2. n # None /\ n \in Nat
    BY <1>13, ToolAssumption DEF TypeOK
  <2>3. \A k \in DOMAIN pending' : k \in DOMAIN pending /\ k # n /\ pending'[k] = pending[k]
    BY DEF Without
  <2>4. CASE n \notin DOMAIN pending
    <3>1. pending' = pending /\ chan' = chan
      BY <2>4 DEF Without, TypeOK
    <3> QED
      BY <2>1, <3>1, SameMatched
  <2>5. CASE n \in DOMAIN pending
    <3> DEFINE c == pending[n]
    <3>1. c \in Clients /\ Waiting(c) /\ req[c] = n
      BY <2>5 DEF Matched, TableUnanswered, TypeOK
    <3>2. chan'[c] = n /\ \A d \in Clients \ {c} : chan'[d] = chan[d]
      BY <2>5, <3>1 DEF TypeOK
    <3>3. \A k \in DOMAIN pending' : pending'[k] \in Clients \ {c}
      BY <2>3, <3>1 DEF Matched, TableUnanswered, TypeOK
    <3>4. \A d \in Clients \ {c} : Waiting(d) /\ chan[d] = None =>
            req[d] \in DOMAIN pending' /\ pending'[req[d]] = d
      BY <3>1 DEF Matched, OwnKeys, WaitersListed, Without
    <3> HIDE DEF c
    <3>5. OwnKeys' /\ AnswersMatch'
      BY <2>1, <3>1, <3>2 DEF Matched, OwnKeys, AnswersMatch
    <3>6. TableUnanswered'
      BY <2>1, <2>3, <3>2, <3>3 DEF Matched, TableUnanswered
    <3>7. WaitersListed'
      BY <2>1, <2>2, <3>2, <3>4 DEF Matched, WaitersListed
    <3> QED
      BY <3>5, <3>6, <3>7 DEF Matched
  <2> QED
    BY <2>4, <2>5
<1>14. ASSUME NEW p \in Pids, DrainPending(p)
       PROVE  Matched'
  BY <1>14, DrainMatched DEF DrainPending
<1>15. CASE StopEnd
  BY <1>15, DrainMatched DEF StopEnd, StopReset
<1>16. ASSUME \/ \E c \in Clients : Expire(c) \/ Disconnect(c)
              \/ \E p \in Pids : Exit(p) \/ Killed(p) \/ OversizedLine(p) \/ MarkStopped(p)
              \/ CallStop \/ StopBegin \/ UNCHANGED vars
       PROVE  Matched'
  <2>1. UNCHANGED <<pc, pending, req, chan>>
    BY <1>16 DEF Expire, Disconnect, Exit, Killed, Gone, OversizedLine, MarkStopped, CallStop,
                 StopBegin, vars
  <2> QED
    BY <2>1, SameMatched DEF Waiting
<1> QED
  BY <1>2, <1>3, <1>4, <1>5, <1>6, <1>7, <1>8, <1>9, <1>10, <1>11, <1>12, <1>13, <1>14, <1>15,
     <1>16 DEF Next, ClientStep, ReaderStep, StopStep

-----------------------------------------------------------------------------
LEMMA Invariant == Spec => [](TypeOK /\ ReadIsCommand /\ Matched)
<1> QED
  BY TypeInit, TypeStep, ReadInit, ReadStep, MatchedInit, MatchedStep, PTL DEF Spec

\* The variables keep their types, t.mu is held by whoever waits for the
\* subprocess, and a running tool has one.
THEOREM ToolTypeCorrect == Spec => []TypeOK
<1> QED
  BY Invariant, PTL

\* Each caller of a shared tool receives the answer to its own request or none
\* (requestid_test.go), for any number of clients, restarts and drains.
THEOREM AnswersMatchAlways == Spec => []AnswersMatch
<1>1. Matched => AnswersMatch
  BY DEF Matched
<1> QED
  BY <1>1, Invariant, PTL

\* The table holds exactly the requests somebody still waits for.
THEOREM TableIsWaitersAlways == Spec => []TableIsWaiters
<1>1. Matched => TableIsWaiters
  BY DEF Matched, TableUnanswered, WaitersListed, TableIsWaiters, Key
<1> QED
  BY <1>1, Invariant, PTL

\* At most one subprocess lives whose output the hub reads, across crashes, ends
\* of contexts, stops and restarts.
THEOREM OneProcessReadAlways == Spec => []OneProcessRead
<1>1. ReadIsCommand => OneProcessRead
  BY DEF ReadIsCommand, OneProcessRead
<1> QED
  BY <1>1, Invariant, PTL

=============================================================================
