---------------------------- MODULE RenderCheck ----------------------------
(***************************************************************************)
(* The hub's render check (internal/hub/workers.go): checks started by the *)
(* ticker, by render_check and at the end of a restore, each a sweep over  *)
(* the workspace roots that replaces the drift cards at its end.  A sweep  *)
(* runs one external command after another and holds no lock meanwhile.    *)
(***************************************************************************)
EXTENDS Naturals, FiniteSets, Sequences, Functions

CONSTANTS
  Checkers,             \* goroutines that check: the ticker's and those of connections
  Ticker,
  Sweep,                \* <<profile, root>> in the order CheckOnce visits them
  Checkouts, RootOf,
  MaxEdits, MaxFailures, MaxRequests

ASSUME RenderAssumption ==
  /\ Ticker \in Checkers
  /\ MaxEdits \in Nat /\ MaxFailures \in Nat /\ MaxRequests \in Nat

VARIABLES
  ticking,              \* Start has been called: the loop waits for its ticker
  drifted,              \* checkouts whose rendered files differ from their source
  cards,                \* checkout -> profile of its card
  left, next,           \* of each check: what it has still to visit, and nextCards
  doing,                \* "idle", "restore", "check"
  restoring,            \* the checkout of a restore
  closed,               \* restored, and the restore has answered, and not edited since
  edits, failures, requests

renderVars == <<ticking, drifted, cards, left, next, doing, restoring, closed, edits, failures, requests>>

NoCards == [c \in {} |-> 0]

RenderInit ==
  /\ ticking = FALSE /\ drifted = {} /\ cards = NoCards
  /\ left = [k \in Checkers |-> <<>>] /\ next = [k \in Checkers |-> NoCards]
  /\ doing = [k \in Checkers |-> "idle"]
  /\ restoring = [k \in Checkers |-> {}] /\ closed = {}
  /\ edits = 0 /\ failures = 0 /\ requests = 0

\* Somebody edits a checkout's files, or their source moves on.
EditCheckout(c) ==
  /\ edits < MaxEdits /\ edits' = edits + 1
  /\ drifted' = drifted \cup {c} /\ closed' = closed \ {c}
  /\ UNCHANGED <<ticking, cards, left, next, doing, restoring, failures, requests>>

Begin(k) ==
  /\ doing' = [doing EXCEPT ![k] = "check"]
  /\ left' = [left EXCEPT ![k] = Sweep] /\ next' = [next EXCEPT ![k] = NoCards]

StartRenderLoop ==
  /\ ~ticking /\ ticking' = TRUE
  /\ UNCHANGED <<drifted, cards, left, next, doing, restoring, closed, edits, failures, requests>>
TickerChecks ==
  /\ ticking /\ doing[Ticker] = "idle"
  /\ Begin(Ticker)
  /\ UNCHANGED <<ticking, drifted, cards, restoring, closed, edits, failures, requests>>

RenderCheckRequest(k) ==
  /\ k # Ticker /\ doing[k] = "idle" /\ requests < MaxRequests
  /\ requests' = requests + 1
  /\ Begin(k)
  /\ UNCHANGED <<ticking, drifted, cards, restoring, closed, edits, failures>>

RestoreRequest(k, c) ==
  /\ k # Ticker /\ doing[k] = "idle" /\ requests < MaxRequests
  /\ requests' = requests + 1
  /\ doing' = [doing EXCEPT ![k] = "restore"] /\ restoring' = [restoring EXCEPT ![k] = {c}]
  /\ UNCHANGED <<ticking, drifted, cards, left, next, closed, edits, failures>>

\* ws-render --checkout: an error is answered at once, without a check.
Restored(k) ==
  /\ doing[k] = "restore"
  /\ drifted' = drifted \ restoring[k]
  /\ Begin(k)
  /\ UNCHANGED <<ticking, cards, restoring, closed, edits, failures, requests>>
RestoreFails(k) ==
  /\ doing[k] = "restore" /\ failures < MaxFailures
  /\ failures' = failures + 1
  /\ doing' = [doing EXCEPT ![k] = "idle"] /\ restoring' = [restoring EXCEPT ![k] = {}]
  /\ UNCHANGED <<ticking, drifted, cards, left, next, closed, edits, requests>>

\* checkWorkspaceRender.  The command lists the root's checkouts; or it cannot,
\* and each is checked by itself, where any failure counts as drift; or the root
\* cannot be read and contributes nothing.
At(root) == {c \in Checkouts : RootOf[c] = root}

CardsOf(k, found) ==
  LET profile == Head(left[k])[1] IN
  [c \in DOMAIN next[k] \cup found |-> IF c \in found THEN profile ELSE next[k][c]]

Visit(k) ==
  /\ doing[k] = "check" /\ left[k] # <<>>
  /\ LET here == At(Head(left[k])[2]) IN
     \/ /\ next' = [next EXCEPT ![k] = CardsOf(k, here \cap drifted)]
        /\ UNCHANGED failures
     \/ /\ failures < MaxFailures /\ failures' = failures + 1
        /\ \E failed \in {{}, here} :
             next' = [next EXCEPT ![k] = CardsOf(k, failed)]
  /\ left' = [left EXCEPT ![k] = Tail(@)]
  /\ UNCHANGED <<ticking, drifted, cards, doing, restoring, closed, edits, requests>>

\* The end of CheckOnce replaces all cards; that of a Restore then answers "ok".
PublishMerged(k) ==                      \* mutant: cards are added to, never dropped
  /\ doing[k] = "check" /\ left[k] = <<>>
  /\ cards' = [c \in DOMAIN cards \cup DOMAIN next[k] |->
                 IF c \in DOMAIN next[k] THEN next[k][c] ELSE cards[c]]
  /\ doing' = [doing EXCEPT ![k] = "idle"] /\ next' = [next EXCEPT ![k] = NoCards]
  /\ closed' = closed \cup (restoring[k] \ drifted)
  /\ restoring' = [restoring EXCEPT ![k] = {}]
  /\ UNCHANGED <<ticking, drifted, left, edits, failures, requests>>
PublishCards(k) ==
  /\ doing[k] = "check" /\ left[k] = <<>>
  /\ cards' = next[k]
  /\ doing' = [doing EXCEPT ![k] = "idle"] /\ next' = [next EXCEPT ![k] = NoCards]
  /\ closed' = closed \cup (restoring[k] \ drifted)
  /\ restoring' = [restoring EXCEPT ![k] = {}]
  /\ UNCHANGED <<ticking, drifted, left, edits, failures, requests>>

CheckStep(k) == Restored(k) \/ Visit(k) \/ PublishCards(k)

RenderNext ==
  \/ \E c \in Checkouts : EditCheckout(c)
  \/ StartRenderLoop \/ TickerChecks
  \/ \E k \in Checkers : RenderCheckRequest(k) \/ CheckStep(k) \/ RestoreFails(k)
  \/ \E k \in Checkers, c \in Checkouts : RestoreRequest(k, c)

\* The ticker ticks, and the external commands end.
RenderFairness ==
  /\ WF_renderVars(TickerChecks)
  /\ \A k \in Checkers : WF_renderVars(CheckStep(k))

-----------------------------------------------------------------------------
\* However checks overlapped and commands failed: once edits, failures and
\* requests have ended, there is one card for each drifted checkout and no other,
\* and it names the last profile of the sweep that has the checkout's root.
LastWith(root) ==
  CHOOSE p \in {visit[1] : visit \in Range(Sweep)} :
    \E i \in DOMAIN Sweep : /\ Sweep[i] = <<p, root>>
                          /\ \A j \in i+1..Len(Sweep) : Sweep[j][2] # root
CardsConverge == <>ticking => <>[](cards = [c \in drifted |-> LastWith(RootOf[c])])

\* workers.go:215, "so the card closes when the checkout becomes current": after
\* a restore has answered, the checkout it restored has no card.
RestoredStaysClosed == closed \cap DOMAIN cards = {}

=============================================================================
