---------------------------- MODULE MCKnowledge ----------------------------
(***************************************************************************)
(* Instance of KnowledgeUpdate for TLC: two sources, two clones, two       *)
(* seconds, and packs for one range or two that overlap.                   *)
(***************************************************************************)
EXTENDS KnowledgeUpdate, TLC

CONSTANTS s1, s2, c0, c1

MCSourceOrder == <<s1, s2>>
Term(op, v) == [op |-> op, version |-> v]
MCRanges == {{Term(">=", 1), Term("<", 2)}}
MCOverlaps == MCRanges \cup {{Term(">=", 1), Term("<=", 2)}}

\* One published pack, whose evidence is the documents as they are; one of two
\* ids, so that the next pack may come before or after it.
MCInit ==
  /\ Init
  /\ upstream = [s \in Sources |-> c0]
  /\ \E p \in published : p.digest = upstream /\ p.range \in MCRanges

\* Packs are published and built into the binary before anything was proposed
\* and while no command runs: a command uses the packs it loaded at its start.
Quiet == now = 0 /\ \A c \in Clones : job[c] = Idle /\ local[c][0] = NoBranch

\* Commands read neither a pack that is not built in nor a pack's status, so
\* none starts, and no time passes, where only these differ.
Settled == published = embedded /\ \A p \in published : p.status = "FRESH"

\* A document is revised once.
MCNext ==
  \/ \E c \in Clones : CommandStep(c) /\ (job[c] = Idle => Settled)
  \/ \E s \in Sources : upstream[s] = c0 /\ ChangeUpstream(s, c1)
  \/ Settled /\ Tick
  \/ Quiet /\ Maintain

\* Two proposals get as far as a branch: in two clones, in one clone a second
\* apart, or in two clones in the same second.
TwoProposals ==
  Cardinality({ct \in Clones \X Times : local[ct[1]][ct[2]] # NoBranch}) <= 2

Symmetry == Permutations(Clones)

MCSpec == MCInit /\ [][MCNext]_vars
=============================================================================
