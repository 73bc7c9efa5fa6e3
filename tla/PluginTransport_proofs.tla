----------------------- MODULE PluginTransport_proofs -----------------------
(***************************************************************************)
(* A remote adapter implements the contract of an adapter, for any callers, *)
(* results, faults and sizes of the pipe.  The contract asks that requests  *)
(* are executed in the order they were made and that an answer belongs to   *)
(* its request.  Neither follows from the code of one step: it takes that   *)
(* only the holder of the mutex writes and reads (OneCaller), that ids      *)
(* grow along the pipe and past every executed request (IdsGrow), and that  *)
(* what lies in the other pipe, or is still to be written, was said of an   *)
(* executed request (Truthful).                                             *)
(***************************************************************************)
EXTENDS PluginTransport, TLAPS

TransportTypes ==
  /\ pcall \in [AdapterCallers -> {"idle", "lock", "write", "read"}]
  /\ callId \in [AdapterCallers -> Nat]
  /\ nextID \in Nat
  /\ toPlugin \in Seq(Nat)
  /\ fromPlugin \in Seq([id : Nat, code : Nat]) /\ saying \in Seq([id : Nat, code : Nat])
  /\ answered \in Seq(Nat \X Results)

With(c) == pcall[c] \in {"write", "read"}

\* A caller is with the adapter only while it holds the mutex, the loader only
\* during the handshake; closing holds the mutex as well.
OneCaller ==
  /\ \A c \in AdapterCallers : With(c) => pmu = c
  /\ pcall[Loader] # "idle" => adapter = "handshake"
  /\ adapter = "closing" => pmu = Loader

\* Ids grow along the pipe to the plugin, and past every executed request; the
\* id about to be written is above them all.
IdsGrow ==
  /\ \A j \in 1 .. Len(toPlugin) : toPlugin[j] \in 1 .. nextID
  /\ \A i, j \in 1 .. Len(toPlugin) : i < j => toPlugin[i] < toPlugin[j]
  /\ \A i \in 1 .. Len(answered) :
       /\ answered[i][1] \in 1 .. nextID
       /\ \A j \in 1 .. Len(toPlugin) : answered[i][1] < toPlugin[j]
  /\ \A c \in AdapterCallers : pcall[c] = "write" =>
       /\ callId[c] = nextID /\ nextID > 0
       /\ \A j \in 1 .. Len(toPlugin) : toPlugin[j] < nextID
       /\ \A i \in 1 .. Len(answered) : answered[i][1] < nextID

\* What the plugin says or has said answers a request it executed.
Earned(lines) ==
  \A k \in 1 .. Len(lines) : \E i \in 1 .. Len(answered) :
    lines[k] = Reply(answered[i][1], answered[i][2])
Truthful == Earned(fromPlugin) /\ Earned(saying)

Orderly == TransportTypes /\ OneCaller /\ IdsGrow /\ Truthful

-----------------------------------------------------------------------------
\* The classes of error survive the wire: what a call makes of the line that
\* answers its request is the result the adapter returned.
LEMMA ClassesSurvive ==
  ASSUME NEW n \in Nat, NEW r \in Results
  PROVE  /\ Reply(n, r) \in [id : Nat, code : Nat]
         /\ Reply(n, r).id = n
         /\ Judge(n, Reply(n, r)) = [kind |-> "answer", result |-> r]
<1>1. r \in ResultClasses
  BY TransportAssumption
<1> QED
  BY <1>1 DEF ResultClasses, Reply, Judge, ClassifyErr, ErrorFromRPC

\* What is left of a pipe.
LEMMA RestOfPipe ==
  ASSUME NEW S, NEW pipe \in Seq(S), pipe # <<>>
  PROVE  /\ Tail(pipe) \in Seq(S)
         /\ \A k \in 1 .. Len(Tail(pipe)) :
              k + 1 \in 1 .. Len(pipe) /\ Tail(pipe)[k] = pipe[k + 1]
  OBVIOUS

LEMMA HeadOfPipe ==
  ASSUME NEW S, NEW pipe \in Seq(S), pipe # <<>>
  PROVE  Head(pipe) \in S /\ Head(pipe) = pipe[1] /\ 1 \in 1 .. Len(pipe)
  OBVIOUS

LEMMA LongerPipe ==
  ASSUME NEW S, NEW pipe \in Seq(S), NEW x \in S
  PROVE  /\ Append(pipe, x) \in Seq(S)
         /\ \A k \in 1 .. Len(Append(pipe, x)) :
              (k \in 1 .. Len(pipe) /\ Append(pipe, x)[k] = pipe[k]) \/ Append(pipe, x)[k] = x
  OBVIOUS

\* The caller a step is by is the only one with the adapter, or there is none.
LEMMA Alone ==
  ASSUME OneCaller
  PROVE  /\ \A c, d \in AdapterCallers : With(c) /\ With(d) => c = d
         /\ pmu = NoOne => \A c \in AdapterCallers : ~With(c)
         /\ adapter = "closing" => \A c \in AdapterCallers : ~With(c)
  BY TransportAssumption DEF OneCaller, With

LEMMA OrderlyInit == TransportInit => Orderly
  BY TransportAssumption DEF TransportInit, Orderly, TransportTypes, OneCaller, With, IdsGrow, Truthful, Earned

\* A call that ends lets the mutex go and puts nothing into the pipes.
LEMMA EndCallOrderly ==
  ASSUME Orderly, NEW c \in AdapterCallers, With(c), NEW what, EndCall(c, what),
         UNCHANGED <<callId, nextID, toPlugin, saying, answered>>,
         fromPlugin' = fromPlugin \/ (fromPlugin # <<>> /\ fromPlugin' = Tail(fromPlugin))
  PROVE  Orderly'
<1>0. /\ fromPlugin' \in Seq([id : Nat, code : Nat])
      /\ \A k \in 1 .. Len(fromPlugin') : \E l \in 1 .. Len(fromPlugin) :
           fromPlugin'[k] = fromPlugin[l]
  <2>1. fromPlugin \in Seq([id : Nat, code : Nat])
    BY DEF Orderly, TransportTypes
  <2>2. CASE fromPlugin' = fromPlugin
    BY <2>1, <2>2
  <2>3. CASE fromPlugin # <<>> /\ fromPlugin' = Tail(fromPlugin)
    BY <2>1, <2>3, RestOfPipe
  <2> QED
    BY <2>2, <2>3
<1>1. TransportTypes'
  BY <1>0 DEF Orderly, TransportTypes, EndCall
<1>2. OneCaller'
  BY Alone DEF Orderly, TransportTypes, OneCaller, With, EndCall
<1>3. IdsGrow'
  BY DEF Orderly, TransportTypes, IdsGrow, EndCall
<1>4. Truthful'
  BY <1>0 DEF Orderly, Truthful, Earned
<1> QED
  BY <1>1, <1>2, <1>3, <1>4 DEF Orderly

LEMMA OrderlyStep == Orderly /\ [TransportNext]_transportVars => Orderly'
<1> SUFFICES ASSUME Orderly, [TransportNext]_transportVars
             PROVE  Orderly'
  OBVIOUS
<1> USE DEF pipes
<1>1. ASSUME NEW c \in AdapterCallers, BeginCall(c)
      PROVE  Orderly'
  BY <1>1, TransportAssumption
     DEF BeginCall, Orderly, TransportTypes, OneCaller, With, IdsGrow, Truthful, Earned
<1>2. ASSUME NEW c \in AdapterCallers, LockAdapter(c)
      PROVE  Orderly'
  <2>1. TransportTypes'
    BY <1>2 DEF LockAdapter, Orderly, TransportTypes
  <2>2. OneCaller'
    BY <1>2, Alone, TransportAssumption DEF LockAdapter, Orderly, TransportTypes, OneCaller, With
  <2>3. IdsGrow'
    <3>1. \A d \in AdapterCallers : pcall'[d] = "write" => d = c
      BY <1>2, Alone DEF LockAdapter, Orderly, TransportTypes, With
    <3>2. nextID \in Nat /\ nextID' = nextID + 1 /\ callId'[c] = nextID + 1
          /\ toPlugin' = toPlugin /\ answered' = answered
      BY <1>2 DEF LockAdapter, Orderly, TransportTypes
    <3>3. \A n \in 1 .. nextID : n \in 1 .. nextID' /\ n < nextID'
      BY <3>2
    <3> QED
      BY <3>1, <3>2, <3>3 DEF Orderly, IdsGrow
  <2>4. Truthful'
    BY <1>2 DEF LockAdapter, Orderly, Truthful, Earned
  <2> QED
    BY <2>1, <2>2, <2>3, <2>4 DEF Orderly
<1>3. ASSUME NEW c \in AdapterCallers, WriteRequest(c)
      PROVE  Orderly'
  <2>1. CASE EndCall(c, Failed) /\ UNCHANGED toPlugin
    BY <1>3, <2>1, EndCallOrderly DEF WriteRequest, With
  <2>2. CASE /\ toPlugin' = Append(toPlugin, callId[c])
             /\ pcall' = [pcall EXCEPT ![c] = "read"]
             /\ UNCHANGED <<outcome, pmu, over, adapter>>
    <3>1. TransportTypes'
      BY <1>3, <2>2 DEF WriteRequest, Orderly, TransportTypes
    <3>2. OneCaller'
      BY <1>3, <2>2 DEF WriteRequest, Orderly, TransportTypes, OneCaller, With
    <3>3. IdsGrow'
      <4>1. \A d \in AdapterCallers : pcall'[d] # "write"
        BY <1>3, <2>2, Alone DEF WriteRequest, Orderly, TransportTypes, With
      <4>2. /\ pcall[c] = "write" /\ callId[c] = nextID /\ nextID \in Nat \ {0}
            /\ toPlugin \in Seq(Nat) /\ answered \in Seq(Nat \X Results)
            /\ UNCHANGED <<nextID, answered>>
        BY <1>3, <2>2 DEF WriteRequest, Orderly, TransportTypes, IdsGrow
      <4>3. /\ Len(toPlugin') = Len(toPlugin) + 1 /\ toPlugin'[Len(toPlugin) + 1] = nextID
            /\ \A j \in 1 .. Len(toPlugin) : toPlugin'[j] = toPlugin[j]
        BY <2>2, <4>2
      <4>4. /\ \A j \in 1 .. Len(toPlugin) : toPlugin[j] \in 1 .. nextID /\ toPlugin[j] < nextID
            /\ \A i, j \in 1 .. Len(toPlugin) : i < j => toPlugin[i] < toPlugin[j]
            /\ \A i \in 1 .. Len(answered) :
                 /\ answered[i][1] \in 1 .. nextID /\ answered[i][1] < nextID
                 /\ \A j \in 1 .. Len(toPlugin) : answered[i][1] < toPlugin[j]
        BY <4>2 DEF Orderly, IdsGrow
      <4>5. Len(toPlugin) \in Nat
        BY <4>2
      <4>6. \A j \in 1 .. Len(toPlugin') : j = Len(toPlugin) + 1 \/ j \in 1 .. Len(toPlugin)
        BY <4>3, <4>5
      <4>7. ASSUME NEW j \in 1 .. Len(toPlugin')
            PROVE  toPlugin'[j] \in 1 .. nextID'
        <5>1. nextID \in 1 .. nextID /\ nextID' = nextID
          BY <4>2
        <5>2. CASE j = Len(toPlugin) + 1
          BY <4>3, <5>1, <5>2
        <5>3. CASE j \in 1 .. Len(toPlugin)
          BY <4>3, <4>4, <5>1, <5>3
        <5> QED
          BY <4>6, <5>2, <5>3
      <4>8. ASSUME NEW i \in 1 .. Len(answered')
            PROVE  /\ answered'[i][1] \in 1 .. nextID'
                   /\ \A j \in 1 .. Len(toPlugin') : answered'[i][1] < toPlugin'[j]
        <5>1. /\ i \in 1 .. Len(answered) /\ answered'[i] = answered[i]
              /\ nextID' = nextID
          BY <4>2
        <5> QED
          BY <4>3, <4>4, <4>6, <5>1
      <4>9. \A i, j \in 1 .. Len(toPlugin') : i < j => toPlugin'[i] < toPlugin'[j]
        BY <4>3, <4>4, <4>5, <4>6
      <4> QED
        BY <4>1, <4>7, <4>8, <4>9 DEF IdsGrow
    <3>4. Truthful'
      BY <1>3, <2>2 DEF WriteRequest, Orderly, Truthful, Earned
    <3> QED
      BY <3>1, <3>2, <3>3, <3>4 DEF Orderly
  <2> QED
    BY <1>3, <2>1, <2>2 DEF WriteRequest
<1>4. ASSUME NEW c \in AdapterCallers, ReadReply(c)
      PROVE  Orderly'
  <2>1. With(c) /\ UNCHANGED <<callId, nextID, toPlugin, saying, answered>>
    BY <1>4 DEF ReadReply, With
  <2>2. CASE fromPlugin # <<>> /\ EndCall(c, Judge(callId[c], Head(fromPlugin)))
             /\ fromPlugin' = Tail(fromPlugin)
    BY <2>1, <2>2, EndCallOrderly
  <2>3. CASE EndCall(c, Failed) /\ UNCHANGED fromPlugin
    BY <2>1, <2>3, EndCallOrderly
  <2> QED
    BY <1>4, <2>2, <2>3 DEF ReadReply
<1>5. ASSUME NEW c \in AdapterCallers, CancelCall(c)
      PROVE  Orderly'
  BY <1>5, EndCallOrderly DEF CancelCall, With
<1>6. ASSUME NEW c \in AdapterCallers, ContextEnds(c)
      PROVE  Orderly'
  BY <1>6 DEF ContextEnds, Orderly, TransportTypes, OneCaller, With, IdsGrow, Truthful, Earned
<1>7. CASE CloseAdapter
  BY <1>7, Alone
     DEF CloseAdapter, Orderly, TransportTypes, OneCaller, With, IdsGrow, Truthful, Earned
<1>8. CASE Waited
  BY <1>8, Alone DEF Waited, Orderly, TransportTypes, OneCaller, With, IdsGrow, Truthful, Earned
<1>9. CASE Serve
  <2> PICK r \in Results :
        /\ answered' = Append(answered, <<Head(toPlugin), r>>)
        /\ saying' = <<Reply(Head(toPlugin), r)>> /\ UNCHANGED fromPlugin
    BY <1>9 DEF Serve
  <2>1. /\ toPlugin \in Seq(Nat) /\ toPlugin # <<>> /\ toPlugin' = Tail(toPlugin)
        /\ Head(toPlugin) = toPlugin[1] /\ Head(toPlugin) \in Nat
    BY <1>9 DEF Serve, Orderly, TransportTypes
  <2>2. TransportTypes'
    <3>1. Reply(Head(toPlugin), r) \in [id : Nat, code : Nat]
      BY <2>1, ClassesSurvive
    <3>2. saying' \in Seq([id : Nat, code : Nat])
      BY <3>1
    <3>3. answered' \in Seq(Nat \X Results)
      BY <2>1 DEF Orderly, TransportTypes
    <3>4. toPlugin' \in Seq(Nat)
      BY <2>1
    <3> QED
      BY <1>9, <3>2, <3>3, <3>4 DEF Serve, Orderly, TransportTypes
  <2>3. OneCaller'
    BY <1>9 DEF Serve, Orderly, OneCaller, With
  <2>4. IdsGrow'
    <3>1. \A j \in 1 .. Len(toPlugin') :
            j + 1 \in 1 .. Len(toPlugin) /\ toPlugin'[j] = toPlugin[j + 1]
      BY <2>1
    <3>2. \A i \in 1 .. Len(answered') :
            \/ i \in 1 .. Len(answered) /\ answered'[i] = answered[i]
            \/ answered'[i][1] = toPlugin[1]
      BY <2>1 DEF Orderly, TransportTypes
    <3>3. /\ 1 \in 1 .. Len(toPlugin)
          /\ UNCHANGED <<callId, nextID, pcall>>
      BY <1>9, <2>1 DEF Serve
    <3>4. \A i \in 1 .. Len(toPlugin') : 1 < i + 1
      BY <2>1
    <3>5. \A j \in 1 .. Len(toPlugin') : toPlugin'[j] \in 1 .. nextID
      BY <3>1 DEF Orderly, IdsGrow
    <3>6. \A i, j \in 1 .. Len(toPlugin') : i < j => toPlugin'[i] < toPlugin'[j]
      <4> SUFFICES ASSUME NEW i \in 1 .. Len(toPlugin'), NEW j \in 1 .. Len(toPlugin'), i < j
                   PROVE  toPlugin'[i] < toPlugin'[j]
        OBVIOUS
      <4>1. i + 1 < j + 1
        OBVIOUS
      <4> QED
        BY <3>1, <4>1 DEF Orderly, IdsGrow
    <3>7. \A i \in 1 .. Len(answered') :
            /\ answered'[i][1] \in 1 .. nextID
            /\ \A j \in 1 .. Len(toPlugin') : answered'[i][1] < toPlugin'[j]
      BY <3>1, <3>2, <3>3, <3>4 DEF Orderly, IdsGrow
    <3>8. \A c \in AdapterCallers : pcall[c] = "write" =>
            /\ callId[c] = nextID /\ nextID > 0
            /\ \A j \in 1 .. Len(toPlugin') : toPlugin'[j] < nextID
            /\ \A i \in 1 .. Len(answered') : answered'[i][1] < nextID
      BY <3>1, <3>2, <3>3 DEF Orderly, IdsGrow
    <3> QED
      BY <3>3, <3>5, <3>6, <3>7, <3>8 DEF IdsGrow
  <2>5. Truthful'
    <3>1. \A i \in 1 .. Len(answered) :
            i \in 1 .. Len(answered') /\ answered'[i] = answered[i]
      BY DEF Orderly, TransportTypes
    <3>2. /\ Len(answered') \in 1 .. Len(answered')
          /\ answered'[Len(answered')] = <<Head(toPlugin), r>>
      BY DEF Orderly, TransportTypes
    <3>3. \A k \in 1 .. Len(saying') : saying'[k] = Reply(Head(toPlugin), r)
      OBVIOUS
    <3> QED
      BY <3>1, <3>2, <3>3 DEF Orderly, Truthful, Earned
  <2> QED
    BY <2>2, <2>3, <2>4, <2>5 DEF Orderly
<1>10. CASE ServeEOF
  BY <1>10 DEF ServeEOF, Orderly, TransportTypes, OneCaller, With, IdsGrow, Truthful, Earned
<1>11. CASE Misbehave
  <2>1. OneCaller'
    BY <1>11 DEF Misbehave, Orderly, OneCaller, With
  <2>2. CASE toPlugin # <<>> /\ toPlugin' = Tail(toPlugin) /\ UNCHANGED <<saying, plugin>>
    <3>1. \A j \in 1 .. Len(toPlugin') :
            j + 1 \in 1 .. Len(toPlugin) /\ toPlugin'[j] = toPlugin[j + 1]
      BY <2>2 DEF Orderly, TransportTypes
    <3>2. TransportTypes'
      BY <1>11, <2>2 DEF Misbehave, Orderly, TransportTypes
    <3>6. Truthful'
      BY <1>11, <2>2 DEF Misbehave, Orderly, Truthful, Earned
    <3>3. \A i, j \in 1 .. Len(toPlugin') : i < j => i + 1 < j + 1
      OBVIOUS
    <3>4. UNCHANGED <<callId, nextID, pcall, answered>>
      BY <1>11 DEF Misbehave
    <3>5. IdsGrow'
      BY <3>1, <3>3, <3>4 DEF Orderly, IdsGrow
    <3> QED
      BY <2>1, <3>2, <3>5, <3>6 DEF Orderly
  <2>3. ASSUME NEW a \in ToSet(answered),
               saying' = Append(saying, Reply(a[1], a[2])),
               UNCHANGED <<toPlugin, plugin>>
        PROVE  Orderly'
    <3>1. PICK i \in 1 .. Len(answered) : a = answered[i]
      BY <2>3 DEF ToSet, Orderly, TransportTypes
    <3>2. a \in Nat \X Results
      BY <3>1 DEF Orderly, TransportTypes
    <3>3. Reply(a[1], a[2]) \in [id : Nat, code : Nat]
      BY <3>2, ClassesSurvive
    <3>4. TransportTypes'
      BY <1>11, <2>3, <3>3 DEF Misbehave, Orderly, TransportTypes
    <3>5. IdsGrow'
      BY <1>11, <2>3 DEF Misbehave, Orderly, IdsGrow
    <3>6. \A k \in 1 .. Len(saying') :
            \/ k \in 1 .. Len(saying) /\ saying'[k] = saying[k]
            \/ saying'[k] = Reply(answered[i][1], answered[i][2])
      BY <2>3, <3>1, <3>3 DEF Orderly, TransportTypes
    <3>7. Truthful'
      BY <1>11, <3>6 DEF Misbehave, Orderly, Truthful, Earned
    <3> QED
      BY <2>1, <3>4, <3>5, <3>7 DEF Orderly
  <2>4. CASE UNCHANGED <<toPlugin, saying>>
    BY <1>11, <2>1, <2>4 DEF Misbehave, Orderly, TransportTypes, IdsGrow, Truthful, Earned
  <2> QED
    BY <1>11, <2>2, <2>3, <2>4 DEF Misbehave
<1>14. CASE Say
  <2> DEFINE Lines == [id : Nat, code : Nat]
  <2>0. saying \in Seq(Lines) /\ fromPlugin \in Seq(Lines)
    BY DEF Orderly, TransportTypes
  <2> HIDE DEF Lines
  <2>1. /\ saying # <<>> /\ saying' = Tail(saying)
        /\ Head(saying) = saying[1] /\ 1 \in 1 .. Len(saying) /\ Head(saying) \in Lines
    BY <1>14, <2>0, HeadOfPipe DEF Say
  <2>2. fromPlugin' = fromPlugin \/ fromPlugin' = Append(fromPlugin, saying[1])
    BY <1>14, <2>1 DEF Say
  <2>3. UNCHANGED <<adapter, pcall, callId, pmu, nextID, toPlugin, answered>>
    BY <1>14 DEF Say
  <2>4. saying' \in Seq(Lines) /\ fromPlugin' \in Seq(Lines)
    <3>1. saying' \in Seq(Lines)
      BY <2>0, <2>1, RestOfPipe
    <3>2. saying[1] \in Lines
      BY <2>1
    <3>3. Append(fromPlugin, saying[1]) \in Seq(Lines)
      BY <2>0, <3>2, LongerPipe
    <3> QED
      BY <2>0, <2>2, <3>1, <3>3
  <2>5. Earned(saying)'
    <3>1. \A k \in 1 .. Len(saying') : k + 1 \in 1 .. Len(saying) /\ saying'[k] = saying[k + 1]
      BY <2>0, <2>1, RestOfPipe
    <3> QED
      BY <2>3, <3>1 DEF Orderly, Truthful, Earned
  <2>6. Earned(fromPlugin)'
    <3>1. \A k \in 1 .. Len(fromPlugin') :
            \/ k \in 1 .. Len(fromPlugin) /\ fromPlugin'[k] = fromPlugin[k]
            \/ fromPlugin'[k] = saying[1]
      BY <2>0, <2>1, <2>2, LongerPipe
    <3> QED
      BY <2>1, <2>3, <3>1 DEF Orderly, Truthful, Earned
  <2> QED
    BY <2>3, <2>4, <2>5, <2>6 DEF Lines, Orderly, TransportTypes, OneCaller, With, IdsGrow, Truthful
<1>12. ASSUME NEW m \in Manifests, RegisterAdapter(m)
       PROVE  Orderly'
  BY <1>12 DEF RegisterAdapter, Orderly, TransportTypes, OneCaller, With, IdsGrow, Truthful, Earned
<1>13. CASE UNCHANGED transportVars
  BY <1>13 DEF transportVars, pipes, Orderly, TransportTypes, OneCaller, With, IdsGrow, Truthful, Earned
<1> QED
  BY <1>1, <1>2, <1>3, <1>4, <1>5, <1>6, <1>7, <1>8, <1>9, <1>10, <1>11, <1>12, <1>13, <1>14
     DEF TransportNext, CallMoves

LEMMA OrderlyAlways == TransportSpec => []Orderly
<1> QED
  BY OrderlyInit, OrderlyStep, PTL DEF TransportSpec

-----------------------------------------------------------------------------
\* The callers whose request is with the adapter, as the contract sees them.
Asking == {c \in AdapterCallers : With(c)}

\* A step that moves no call and executes nothing is none of the contract's.
LEMMA Unseen ==
  ASSUME UNCHANGED <<pcall, callId, nextID, answered, outcome>>
  PROVE  UNCHANGED Contract!contractVars
  BY DEF Contract!contractVars

\* A call that ends returns an error, or what came of its own request.
LEMMA EndReturns ==
  ASSUME Orderly, NEW c \in AdapterCallers, With(c), NEW what, EndCall(c, what),
         UNCHANGED <<callId, nextID, answered>>,
         \/ what = Failed
         \/ \E i \in DOMAIN answered :
              answered[i][1] = callId[c] /\ what = [kind |-> "answer", result |-> answered[i][2]]
  PROVE  Contract!Return(c)
<1>1. c \in Asking /\ Asking' = Asking \ {c}
  BY DEF Asking, With, EndCall, Orderly, TransportTypes
<1>2. outcome' = [outcome EXCEPT ![c] = what]
  BY DEF EndCall
<1> QED
  BY <1>1, <1>2 DEF Contract!Return, Contract!Answer, Asking, With

\* Every step of a remote adapter is a step of the contract, or changes nothing
\* the contract speaks of.
LEMMA StepMaps ==
  Orderly /\ [TransportNext]_transportVars => [Contract!ContractNext]_(Contract!contractVars)
<1> SUFFICES ASSUME Orderly, [TransportNext]_transportVars
             PROVE  [Contract!ContractNext]_(Contract!contractVars)
  OBVIOUS
<1> USE DEF pipes
<1>1. ASSUME NEW c \in AdapterCallers, BeginCall(c)
      PROVE  UNCHANGED Contract!contractVars
  <2>1. Asking' = Asking
    BY <1>1 DEF BeginCall, Asking, With, Orderly, TransportTypes
  <2> QED
    BY <1>1, <2>1 DEF BeginCall, Contract!contractVars, Asking, With
<1>2. ASSUME NEW c \in AdapterCallers, LockAdapter(c)
      PROVE  Contract!Ask(c)
  <2>1. Asking = {}
    BY <1>2, Alone DEF LockAdapter, Asking, Orderly
  <2>2. Asking' = {c}
    BY <1>2, <2>1 DEF LockAdapter, Asking, With, Orderly, TransportTypes
  <2> QED
    BY <1>2, <2>1, <2>2 DEF LockAdapter, Contract!Ask, Asking, With
<1>3. ASSUME NEW c \in AdapterCallers, WriteRequest(c)
      PROVE  Contract!Return(c) \/ UNCHANGED Contract!contractVars
  <2>1. CASE EndCall(c, Failed)
    BY <1>3, <2>1, EndReturns DEF WriteRequest, With
  <2>2. CASE pcall' = [pcall EXCEPT ![c] = "read"] /\ UNCHANGED outcome
    <3>1. Asking' = Asking
      BY <1>3, <2>2 DEF WriteRequest, Asking, With, Orderly, TransportTypes
    <3> QED
      BY <1>3, <2>2, <3>1 DEF WriteRequest, Contract!contractVars, Asking, With
  <2> QED
    BY <1>3, <2>1, <2>2 DEF WriteRequest
<1>4. ASSUME NEW c \in AdapterCallers, ReadReply(c)
      PROVE  Contract!Return(c)
  <2>1. With(c) /\ UNCHANGED <<callId, nextID, answered>>
    BY <1>4 DEF ReadReply, With
  <2>2. CASE fromPlugin # <<>> /\ EndCall(c, Judge(callId[c], Head(fromPlugin)))
    <3>1. 1 \in 1 .. Len(fromPlugin) /\ Head(fromPlugin) = fromPlugin[1]
      BY <2>2 DEF Orderly, TransportTypes
    <3>2. PICK i \in 1 .. Len(answered) :
            Head(fromPlugin) = Reply(answered[i][1], answered[i][2])
      BY <3>1 DEF Orderly, Truthful, Earned
    <3>3. i \in DOMAIN answered /\ answered[i][1] \in Nat /\ answered[i][2] \in Results
      BY DEF Orderly, TransportTypes
    <3>4. CASE answered[i][1] = callId[c]
      <4>1. Judge(callId[c], Head(fromPlugin)) = [kind |-> "answer", result |-> answered[i][2]]
        BY <3>2, <3>3, <3>4, ClassesSurvive
      <4> QED
        BY <2>1, <2>2, <3>3, <3>4, <4>1, EndReturns
    <3>5. CASE answered[i][1] # callId[c]
      <4>1. Judge(callId[c], Head(fromPlugin)) = Failed
        <5>1. Head(fromPlugin).id = answered[i][1]
          BY <3>2, <3>3, ClassesSurvive
        <5> QED
          BY <3>5, <5>1 DEF Judge
      <4> QED
        BY <2>1, <2>2, <4>1, EndReturns
    <3> QED
      BY <3>4, <3>5
  <2>3. CASE EndCall(c, Failed)
    BY <2>1, <2>3, EndReturns
  <2> QED
    BY <1>4, <2>2, <2>3 DEF ReadReply
<1>5. ASSUME NEW c \in AdapterCallers, CancelCall(c)
      PROVE  Contract!Return(c)
  BY <1>5, EndReturns DEF CancelCall, With
<1>6. CASE Serve
  <2> PICK r \in Results : answered' = Append(answered, <<Head(toPlugin), r>>)
    BY <1>6 DEF Serve
  <2>1. Head(toPlugin) = toPlugin[1] /\ 1 \in 1 .. Len(toPlugin)
    BY <1>6 DEF Serve, Orderly, TransportTypes
  <2>2. Head(toPlugin) \in 1 .. nextID
    BY <2>1 DEF Orderly, IdsGrow
  <2>3. \A i \in DOMAIN answered : answered[i][1] < Head(toPlugin)
    <3>1. DOMAIN answered = 1 .. Len(answered)
      BY DEF Orderly, TransportTypes
    <3> QED
      BY <2>1, <3>1 DEF Orderly, IdsGrow
  <2>4. Contract!Execute(Head(toPlugin), r)
    BY <1>6, <2>3 DEF Serve, Contract!Execute
  <2> QED
    BY <2>2, <2>4 DEF Contract!ContractNext
<1>7. ASSUME \/ \E c \in AdapterCallers : ContextEnds(c)
             \/ CloseAdapter \/ Waited \/ Say \/ ServeEOF \/ Misbehave
             \/ \E m \in Manifests : RegisterAdapter(m)
             \/ UNCHANGED transportVars
      PROVE  UNCHANGED Contract!contractVars
  <2>1. UNCHANGED <<pcall, callId, nextID, answered, outcome>>
    BY <1>7 DEF ContextEnds, CloseAdapter, Waited, Say, ServeEOF, Misbehave, RegisterAdapter,
                transportVars
  <2> QED
    BY <2>1, Unseen
<1> QED
  BY <1>1, <1>2, <1>3, <1>4, <1>5, <1>6, <1>7
     DEF TransportNext, CallMoves, Contract!ContractNext

\* What RemoteAdapter's callers see, the in-process contract allows: a request is
\* executed at most once and in order, and a call returns the result of its own
\* request or an error, for any number of callers, results, faults and requests.
THEOREM RemoteIsLocal == TransportSpec => ImplementsContract
<1>1. TransportInit => Contract!ContractInit
  BY DEF TransportInit, Contract!ContractInit
<1> QED
  BY <1>1, StepMaps, OrderlyAlways, PTL DEF TransportSpec, ImplementsContract, Contract!ContractSpec

=============================================================================
