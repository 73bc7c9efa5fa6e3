----------------------- MODULE KnowledgeReport_proofs -----------------------
(***************************************************************************)
(* What the knowledge of a host promises, and what the report makes of it.  *)
(*                                                                         *)
(* A pull request tells what its branch holds, for any sources, documents, *)
(* packs, clones and times.  PullRequestTellsBranch is not inductive: from *)
(* its commit on a proposal must hold its candidate in its own clone, and   *)
(* from its push on in the remote (Carried), because a push does not       *)
(* replace what another proposal has put there.                            *)
(*                                                                         *)
(* A report accounts for every disagreement, its planes can be compared,    *)
(* and qualifying a concept only decides what was open, for any hosts,      *)
(* observations, packs, options, exceptions and signals.  A report outlives *)
(* the state it was made of: the invariant (ReportInv) says that it is what *)
(* Build makes of some state; the rest is about graphs and groups alone.    *)
(***************************************************************************)
EXTENDS KnowledgeUpdate, DriftReport, FiniteSetTheorems, SequenceTheorems, WellFoundedInduction, TLAPS

Places == {"idle", "polling", "fixtures", "worktree", "commit", "push", "open"}
Jobs == [pc : Places, command : {"poll", "propose"}, left : Seq(Sources),
         baseline : [Sources -> Contents \cup {NoDigest}], cand : Candidates]

KnowledgeTypes ==
  /\ upstream \in [Sources -> Contents]
  /\ published \subseteq Packs /\ embedded \subseteq Packs
  /\ now \in Times
  /\ job \in [Clones -> Jobs]
  /\ local \in [Clones -> [Times -> Branches]]
  /\ remote \in [Times -> Branches]
  /\ pulls \subseteq [branch : Times, told : Candidates]

\* A proposal that goes on after its commit holds its candidate in its clone,
\* one that goes on after its push in the remote.
Carried ==
  \A c \in Clones :
    /\ job[c].pc \in {"push", "open"} => local[c][BranchName(job[c].cand)] = job[c].cand
    /\ job[c].pc = "open" => remote[BranchName(job[c].cand)] = job[c].cand

Tells == KnowledgeTypes /\ Carried /\ PullRequestTellsBranch

-----------------------------------------------------------------------------
LEMMA IdleTyped == Idle \in Jobs
<1>1. 0 \in Times
  BY KnowledgeAssumption DEF Times
<1> QED
  BY <1>1 DEF Idle, Jobs, Places, Candidates, Changes

\* Some pack of a set has the last id, so that a baseline is defined.
LEMMA EvidenceTyped ==
  ASSUME NEW packs \in SUBSET Packs, NEW s \in Sources
  PROVE  EvidenceDigest(packs, s) \in Contents \cup {NoDigest}
<1>1. CASE packs = {}
  BY <1>1 DEF EvidenceDigest
<1>2. CASE packs # {}
  <2> DEFINE ids == {p.id : p \in packs}
  <2>1. ids \in SUBSET PackIds /\ ids # {}
    BY <1>2 DEF Packs
  <2>2. PICK last \in ids : \A i \in ids : i <= last
    BY <2>1, KnowledgeAssumption
  <2>3. PICK p \in packs : p.id = last
    BY <2>2
  <2>4. p \in PackForHost(packs)
    BY <2>2, <2>3 DEF PackForHost
  <2>5. (CHOOSE q \in PackForHost(packs) : TRUE) \in Packs
    BY <2>4 DEF PackForHost
  <2> QED
    BY <1>2, <2>5 DEF EvidenceDigest, Packs
<1> QED
  BY <1>1, <1>2

\* A step of one command changes its own job.
LEMMA JobTyped ==
  ASSUME KnowledgeTypes, NEW c \in Clones, NEW j \in Jobs, job' = [job EXCEPT ![c] = j]
  PROVE  /\ job' \in [Clones -> Jobs]
         /\ job'[c] = j /\ \A d \in Clones \ {c} : job'[d] = job[d]
  BY DEF KnowledgeTypes

\* A command that moves on with its candidate, or ends.
LEMMA GotoTyped ==
  ASSUME KnowledgeTypes, NEW c \in Clones, NEW pc \in Places, Goto(c, pc)
  PROVE  /\ job' \in [Clones -> Jobs]
         /\ job'[c].pc = pc /\ job'[c].cand = job[c].cand
         /\ \A d \in Clones \ {c} : job'[d] = job[d]
  BY DEF KnowledgeTypes, Goto, Jobs

LEMMA FinishTyped ==
  ASSUME KnowledgeTypes, NEW c \in Clones, Finish(c)
  PROVE  /\ job' \in [Clones -> Jobs]
         /\ job'[c].pc = "idle"
         /\ \A d \in Clones \ {c} : job'[d] = job[d]
  BY IdleTyped DEF KnowledgeTypes, Finish, Idle

\* Jobs move, none of them from its commit on, and git is left alone.
LEMMA JobTells ==
  ASSUME Tells, job' \in [Clones -> Jobs],
         \A d \in Clones : job'[d] = job[d] \/ job'[d].pc \notin {"push", "open"},
         UNCHANGED <<upstream, published, embedded, now, local, remote, pulls>>
  PROVE  Tells'
  BY DEF Tells, KnowledgeTypes, Carried, PullRequestTellsBranch, BranchName

\* Only what no job or branch depends on changes.
LEMMA WorldTells ==
  ASSUME Tells, UNCHANGED <<job, local, remote, pulls>>,
         upstream' \in [Sources -> Contents], published' \subseteq Packs, embedded' \subseteq Packs,
         now' \in Times
  PROVE  Tells'
  BY DEF Tells, KnowledgeTypes, Carried, PullRequestTellsBranch, BranchName

LEMMA TellsInit == Init => Tells
<1> SUFFICES ASSUME Init
             PROVE  Tells
  OBVIOUS
<1>1. now \in Times /\ published \subseteq Packs
  BY KnowledgeAssumption DEF Init, Times
<1>2. \A c \in Clones : job[c] = Idle
  BY DEF Init
<1> QED
  BY <1>1, <1>2, IdleTyped
     DEF Init, Tells, KnowledgeTypes, Carried, PullRequestTellsBranch, Branches, Idle

LEMMA TellsStep == Tells /\ [Next]_vars => Tells'
<1> SUFFICES ASSUME Tells, [Next]_vars
             PROVE  Tells'
  OBVIOUS
<1> USE DEF repository, git
<1>1. KnowledgeTypes
  BY DEF Tells
<1>2. ASSUME NEW c \in Clones, Finish(c),
             UNCHANGED <<upstream, published, embedded, now, local, remote, pulls>>
      PROVE  Tells'
  BY <1>1, <1>2, FinishTyped, JobTells
<1>3. ASSUME NEW c \in Clones, NEW command \in {"poll", "propose"}, StartCommand(c, command)
      PROVE  Tells'
  <2> DEFINE started ==
        [Idle EXCEPT !.pc = "polling", !.command = command, !.left = SourceOrder,
                     !.baseline = [s \in Sources |-> EvidenceDigest(embedded, s)],
                     !.cand.at = now]
  <2>1. started \in Jobs /\ started.pc = "polling"
    <3>1. [s \in Sources |-> EvidenceDigest(embedded, s)] \in [Sources -> Contents \cup {NoDigest}]
      BY <1>1, EvidenceTyped DEF KnowledgeTypes
    <3> QED
      BY <1>1, <3>1, KnowledgeAssumption DEF Idle, Jobs, Places, Candidates, Changes, KnowledgeTypes
  <2>2. CASE Loads(embedded)
    <3>1. job' = [job EXCEPT ![c] = started]
      BY <1>3, <2>2 DEF StartCommand
    <3> HIDE DEF started
    <3> QED
      BY <1>1, <1>3, <2>1, <3>1, JobTyped, JobTells DEF StartCommand
  <2>3. CASE ~Loads(embedded)
    BY <1>2, <1>3, <2>3 DEF StartCommand, Finish
  <2> QED
    BY <2>2, <2>3
<1>4. ASSUME NEW c \in Clones, PollSource(c)
      PROVE  Tells'
  <2> DEFINE s == Head(job[c].left)
             old == job[c].baseline[s]
             seen == IF old \in {NoDigest, upstream[s]} THEN {}
                     ELSE {[source |-> s, old |-> old, new |-> upstream[s]]}
             found == [job[c].cand EXCEPT !.changed = @ \cup seen]
             polled == [job[c] EXCEPT !.left = Tail(@), !.cand = found]
  <2>1. s \in Sources /\ old \in Contents \cup {NoDigest} /\ upstream[s] \in Contents
        /\ Tail(job[c].left) \in Seq(Sources)
    BY <1>1, <1>4 DEF PollSource, KnowledgeTypes, Jobs
  <2>2. seen \subseteq Changes
    BY <2>1 DEF Changes
  <2>3. polled \in Jobs /\ polled.pc = "polling"
    <3> HIDE DEF seen
    <3>1. job[c] \in Jobs /\ job[c].pc = "polling"
      BY <1>1, <1>4 DEF PollSource, At, KnowledgeTypes
    <3>2. found \in Candidates
      BY <2>2, <3>1 DEF Jobs, Candidates
    <3> HIDE DEF found
    <3> QED
      BY <2>1, <3>1, <3>2 DEF Jobs
  <2>4. CASE job' = [job EXCEPT ![c].left = Tail(@), ![c].cand.changed = @ \cup seen]
    <3>1. job' = [job EXCEPT ![c] = polled]
      <4> HIDE DEF seen
      <4> QED
        BY <1>1, <2>4 DEF KnowledgeTypes
    <3> HIDE DEF polled
    <3> QED
      BY <1>1, <1>4, <2>3, <3>1, JobTyped, JobTells DEF PollSource
  <2>5. CASE Finish(c)
    BY <1>2, <1>4, <2>5 DEF PollSource
  <2> QED
    BY <1>4, <2>4, <2>5 DEF PollSource
<1>5. ASSUME NEW c \in Clones, PollEnds(c)
      PROVE  Tells'
  <2>1. CASE Finish(c)
    BY <1>2, <1>5, <2>1 DEF PollEnds
  <2>2. CASE Goto(c, "fixtures")
    BY <1>1, <1>5, <2>2, GotoTyped, JobTells DEF PollEnds, Places
  <2> QED
    BY <1>5, <2>1, <2>2 DEF PollEnds
<1>6. ASSUME NEW c \in Clones, RunFixtures(c)
      PROVE  Tells'
  <2>1. ASSUME NEW result \in {"PASS", "FAIL"},
               job' = [job EXCEPT ![c].cand.fixtures = result, ![c].pc = "worktree"]
        PROVE  Tells'
    <3> DEFINE tested == [job[c].cand EXCEPT !.fixtures = result]
               ran == [job[c] EXCEPT !.cand = tested, !.pc = "worktree"]
    <3>1. ran \in Jobs /\ ran.pc = "worktree"
      <4>1. job[c] \in Jobs
        BY <1>1 DEF KnowledgeTypes
      <4>2. tested \in Candidates
        BY <4>1 DEF Jobs, Candidates
      <4> HIDE DEF tested
      <4> QED
        BY <4>1, <4>2 DEF Jobs, Places
    <3>2. job' = [job EXCEPT ![c] = ran]
      BY <1>1, <2>1 DEF KnowledgeTypes
    <3> HIDE DEF ran
    <3> QED
      BY <1>1, <1>6, <3>1, <3>2, JobTyped, JobTells DEF RunFixtures
  <2> QED
    BY <1>2, <1>6, <2>1 DEF RunFixtures
<1>7. ASSUME NEW c \in Clones, NEW b \in {BranchName(job[c].cand)},
             NEW value \in Branches, local' = [local EXCEPT ![c][b] = value],
             UNCHANGED <<upstream, published, embedded, now, remote, pulls>>,
             job' \in [Clones -> Jobs], \A d \in Clones \ {c} : job'[d] = job[d],
             job'[c].pc # "open",
             job'[c].pc = "push" => job'[c].cand = job[c].cand /\ value = job[c].cand
      PROVE  Tells'
  <2>1. b \in Times
    BY <1>1, <1>7 DEF KnowledgeTypes, Jobs, Candidates, BranchName
  <2>2. KnowledgeTypes'
    BY <1>1, <1>7, <2>1 DEF KnowledgeTypes
  <2>3. local'[c][b] = value /\ \A d \in Clones \ {c} : local'[d] = local[d]
    BY <1>1, <1>7, <2>1 DEF KnowledgeTypes
  <2>4. Carried'
    BY <1>7, <2>3 DEF Tells, Carried, BranchName
  <2> QED
    BY <1>7, <2>2, <2>4 DEF Tells, PullRequestTellsBranch
<1>8. ASSUME NEW c \in Clones, AddWorktree(c)
      PROVE  Tells'
  <2>1. CASE Finish(c) /\ UNCHANGED local
    BY <1>2, <1>8, <2>1 DEF AddWorktree
  <2>2. CASE Goto(c, "commit") /\ local' = [local EXCEPT ![c][BranchName(job[c].cand)] = OnlyBase]
    BY <1>1, <1>7, <1>8, <2>2, GotoTyped DEF AddWorktree, Branches, Places
  <2> QED
    BY <1>8, <2>1, <2>2 DEF AddWorktree
<1>9. ASSUME NEW c \in Clones, CommitReport(c)
      PROVE  Tells'
  <2>1. CASE Finish(c) /\ UNCHANGED local
    BY <1>2, <1>9, <2>1 DEF CommitReport
  <2>2. CASE /\ Goto(c, "push")
             /\ local' = [local EXCEPT ![c][BranchName(job[c].cand)] = job[c].cand]
    <3>1. job[c].cand \in Branches
      BY <1>1 DEF KnowledgeTypes, Jobs, Branches
    <3> QED
      BY <1>1, <1>7, <1>9, <2>2, <3>1, GotoTyped DEF CommitReport, Places
  <2> QED
    BY <1>9, <2>1, <2>2 DEF CommitReport
<1>10. ASSUME NEW c \in Clones, Push(c)
       PROVE  Tells'
  <2> DEFINE b == BranchName(job[c].cand)
  <2>1. CASE Finish(c) /\ UNCHANGED remote
    BY <1>2, <1>10, <2>1 DEF Push
  <2>2. CASE /\ remote[b] \in {NoBranch, local[c][b]}
             /\ remote' = [remote EXCEPT ![b] = local[c][b]]
             /\ Goto(c, "open") \/ Finish(c)
    <3>1. b \in Times /\ local[c][b] = job[c].cand
      BY <1>1, <1>10 DEF Push, At, Tells, Carried, KnowledgeTypes, Jobs, Candidates, BranchName
    <3>2. remote' \in [Times -> Branches] /\ remote'[b] = job[c].cand
          /\ \A t \in Times : remote[t] # NoBranch => remote'[t] = remote[t]
      BY <1>1, <2>2, <3>1 DEF KnowledgeTypes, Jobs, Branches
    <3>3. /\ job' \in [Clones -> Jobs] /\ \A d \in Clones \ {c} : job'[d] = job[d]
          /\ job'[c].pc = "idle" \/ (job'[c].pc = "open" /\ job'[c].cand = job[c].cand)
      BY <1>1, <2>2, GotoTyped, FinishTyped DEF Places
    <3>4. KnowledgeTypes'
      BY <1>1, <1>10, <3>2, <3>3 DEF Push, KnowledgeTypes
    <3>5. \A d \in Clones : BranchName(job[d].cand) \in Times /\ job[d].cand # NoBranch
      BY <1>1, KnowledgeAssumption DEF KnowledgeTypes, Jobs, Candidates, BranchName
    <3>6. Carried'
      BY <1>10, <3>1, <3>2, <3>3, <3>5 DEF Push, Tells, Carried, BranchName
    <3>7. PullRequestTellsBranch'
      BY <1>1, <1>10, <3>2, KnowledgeAssumption
         DEF Push, Tells, PullRequestTellsBranch, KnowledgeTypes
    <3> QED
      BY <3>4, <3>6, <3>7 DEF Tells
  <2> QED
    BY <1>10, <2>1, <2>2 DEF Push
<1>11. ASSUME NEW c \in Clones, OpenPullRequest(c)
       PROVE  Tells'
  <2>1. CASE Finish(c) /\ UNCHANGED pulls
    BY <1>2, <1>11, <2>1 DEF OpenPullRequest
  <2>2. CASE /\ Finish(c)
             /\ pulls' = pulls \cup {[branch |-> BranchName(job[c].cand), told |-> job[c].cand]}
    <3>1. KnowledgeTypes'
      BY <1>1, <1>11, <2>2, FinishTyped
         DEF OpenPullRequest, KnowledgeTypes, Jobs, Candidates, BranchName
    <3>2. Carried'
      BY <1>1, <1>11, <2>2, FinishTyped DEF OpenPullRequest, Tells, Carried, BranchName
    <3>3. PullRequestTellsBranch'
      BY <1>11, <2>2 DEF OpenPullRequest, At, Tells, Carried, PullRequestTellsBranch
    <3> QED
      BY <3>1, <3>2, <3>3 DEF Tells
  <2> QED
    BY <1>11, <2>1, <2>2 DEF OpenPullRequest
<1>12. ASSUME NEW c \in Clones, Kill(c)
       PROVE  Tells'
  BY <1>2, <1>12 DEF Kill
<1>13. ASSUME NEW s \in Sources, NEW content \in Contents, ChangeUpstream(s, content)
       PROVE  Tells'
  BY <1>1, <1>13, WorldTells DEF ChangeUpstream, KnowledgeTypes
<1>14. CASE Tick
  <2>1. now' \in Times
    BY <1>1, <1>14, KnowledgeAssumption DEF Tick, KnowledgeTypes, Times
  <2> QED
    BY <1>1, <1>14, <2>1, WorldTells DEF Tick, KnowledgeTypes
<1>15. CASE Maintain
  <2>1. ASSUME NEW id \in PackIds, NEW range \in Ranges, NEW cited \in SUBSET Sources,
               Publish(id, range, cited)
        PROVE  Tells'
    <3>1. published' \subseteq Packs
      BY <1>1, <2>1 DEF Publish, KnowledgeTypes, Packs, Statuses
    <3> QED
      BY <1>1, <2>1, <3>1, WorldTells DEF Publish, KnowledgeTypes
  <2>2. ASSUME NEW oldp \in published, NEW id \in PackIds, Correct(oldp, id)
        PROVE  Tells'
    <3> DEFINE cited == [s \in Sources |-> upstream[s]]
    <3>1. oldp \in Packs /\ cited \in [Sources -> Contents \cup {NoDigest}]
      BY <1>1 DEF KnowledgeTypes
    <3>2. [oldp EXCEPT !.status = "SUPERSEDED"] \in Packs
      BY <3>1 DEF Packs, Statuses
    <3>3. [oldp EXCEPT !.id = id, !.digest = cited] \in Packs
      <4> HIDE DEF cited
      <4> QED
        BY <3>1 DEF Packs
    <3>4. published' \subseteq Packs
      BY <1>1, <2>2, <3>2, <3>3 DEF Correct, KnowledgeTypes
    <3> QED
      BY <1>1, <2>2, <3>4, WorldTells DEF Correct, KnowledgeTypes
  <2>3. ASSUME NEW oldp \in published, Retire(oldp)
        PROVE  Tells'
    <3>1. published' \subseteq Packs
      BY <1>1, <2>3 DEF Retire, KnowledgeTypes, Packs, Statuses
    <3> QED
      BY <1>1, <2>3, <3>1, WorldTells DEF Retire, KnowledgeTypes
  <2>4. CASE Rebuild
    BY <1>1, <2>4, WorldTells DEF Rebuild, KnowledgeTypes
  <2> QED
    BY <1>15, <2>1, <2>2, <2>3, <2>4 DEF Maintain
<1>16. CASE UNCHANGED vars
  BY <1>1, <1>16, WorldTells DEF vars, KnowledgeTypes
<1> QED
  BY <1>3, <1>4, <1>5, <1>6, <1>8, <1>9, <1>10, <1>11, <1>12, <1>13, <1>14, <1>15, <1>16
     DEF Next, CommandStep

\* The branch of a pull request holds the report it tells of (ProposeCandidatePR),
\* for any number of clones, sources and proposals in the same second.
THEOREM PullRequestTellsBranchAlways == Spec => []PullRequestTellsBranch
<1>1. Tells => PullRequestTellsBranch
  BY DEF Tells
<1> QED
  BY <1>1, TellsInit, TellsStep, PTL DEF Spec

-----------------------------------------------------------------------------
(* What a group of candidates is resolved to.                               *)

Placed(cs) == \A c \in cs : c.place \in Nat

LEMMA LeastNat ==
  ASSUME NEW S \in SUBSET Nat, S # {}
  PROVE  \E n \in S : \A m \in S : n <= m
<1>1. PICK n \in S : \A m \in S : <<m, n>> \notin OpToRel(<, Nat)
  BY NatLessThanWellFounded, WFMin
<1>2. \A m \in S : ~(m < n)
  BY <1>1, Zenon DEF OpToRel
<1> QED
  BY <1>2

LEMMA EarliestOf ==
  ASSUME NEW cs, Placed(cs), cs # {}
  PROVE  Earliest(cs) \in cs
<1> DEFINE S == {c.place : c \in cs}
<1>1. PICK n \in S : \A m \in S : n <= m
  BY LeastNat DEF Placed
<1>2. \E c \in cs : \A d \in cs : c.place <= d.place
  BY <1>1
<1> QED
  BY <1>2 DEF Earliest

LEMMA DistinctOf ==
  ASSUME NEW cs, Placed(cs)
  PROVE  DistinctByContent(cs) \subseteq cs
<1>1. ASSUME NEW c \in cs
      PROVE  Earliest({d \in cs : d.digest = c.digest}) \in cs
  <2> DEFINE S == {d \in cs : d.digest = c.digest}
  <2>1. Placed(S) /\ c \in S
    BY DEF Placed
  <2>2. Earliest(S) \in S
    BY <2>1, EarliestOf
  <2> QED
    BY <2>2
<1> QED
  BY <1>1 DEF DistinctByContent

\* An entry that has some of the group's candidates active, or a conflict.
IsVerdict(v, g) ==
  \/ \E operator, selected, active, ignored, confirmed :
       active \subseteq g.candidates /\ v = Entry(g, operator, selected, active, ignored, confirmed)
  \/ \E operator, cause : v = Conflict(g, operator, cause)

LEMMA EntryVerdict ==
  ASSUME NEW g, NEW operator, NEW selected, NEW active, NEW ignored, NEW confirmed, active \subseteq g.candidates
  PROVE  IsVerdict(Entry(g, operator, selected, active, ignored, confirmed), g)
BY DEF IsVerdict

LEMMA ConflictVerdict ==
  ASSUME NEW g, NEW operator, NEW cause
  PROVE  IsVerdict(Conflict(g, operator, cause), g)
BY DEF IsVerdict

LEMMA WinnerVerdict ==
  ASSUME NEW g, NEW operator, NEW cs, cs \subseteq g.candidates, NEW First(_, _), NEW losers
  PROVE  IsVerdict(Winner(g, operator, cs, First, losers), g)
<1> DEFINE winners == {c \in cs : \A d \in cs : ~First(d, c)}
           w == CHOOSE w \in winners : TRUE
<1>1. CASE Cardinality(winners) # 1
  BY <1>1 DEF Winner, IsVerdict
<1>2. CASE Cardinality(winners) = 1
  <2>1. winners # {}
    BY <1>2, FS_EmptySet
  <2>2. {w} \subseteq g.candidates
    BY <2>1
  <2> QED
    BY <1>2, <2>2 DEF Winner, IsVerdict
<1> QED
  BY <1>1, <1>2

LEMMA RankVerdict ==
  ASSUME NEW g, Placed(g.candidates), NEW operator, NEW rank
  PROVE  IsVerdict(ResolveByScopeRank(g, operator, rank), g)
<1> DEFINE distinct == DistinctByContent(g.candidates)
           First(c, d) == rank[c.scope] > rank[d.scope]
           ranked == {c \in distinct : rank[c.scope] >= -1}
<1>1. distinct \subseteq g.candidates
  BY DistinctOf
<1>2. IsVerdict(Winner(g, operator, ranked, First, distinct), g)
  <2>1. ranked \subseteq g.candidates
    BY <1>1
  <2> HIDE DEF distinct, ranked, First
  <2> QED
    BY <2>1, WinnerVerdict
<1> QED
  BY <1>2, ConflictVerdict, Zenon DEF ResolveByScopeRank

LEMMA FirstMatchVerdict ==
  ASSUME NEW g, Placed(g.candidates), NEW priority
  PROVE  IsVerdict(ResolveFirstMatch(g, priority), g)
<1> DEFINE distinct == DistinctByContent(g.candidates)
           place(c) == CHOOSE i \in DOMAIN priority :
                         priority[i] = c.scope /\ \A j \in 1..i-1 : priority[j] # c.scope
           First(c, d) == place(c) < place(d)
<1>1. distinct \subseteq g.candidates
  BY DistinctOf
<1>2. IsVerdict(Winner(g, "FIRST_MATCH", distinct, First, g.candidates), g)
  <2> HIDE DEF distinct, First
  <2> QED
    BY <1>1, WinnerVerdict
<1> QED
  BY <1>2, ConflictVerdict, Zenon DEF ResolveFirstMatch

LEMMA DeepMergeVerdict ==
  ASSUME NEW g, NEW rank
  PROVE  IsVerdict(ResolveDeepMerge(g, rank), g)
<1> DEFINE distinct == DistinctByContent(g.candidates)
           complete == \A c \in distinct : c.scope \in DOMAIN rank
           opaque == {c \in distinct : ~c.structured}
           v == ResolveDeepMerge(g, rank)
           merged == Entry(g, "DEEP_MERGE", Nothing, g.candidates, {}, Reported(g.candidates))
<1>1. \/ v = Conflict(g, "DEEP_MERGE", <<"no structure">> \o Earliest(opaque).ref)
      \/ v = Conflict(g, "DEEP_MERGE", <<"leaf", ConflictPath(distinct), Cardinality(distinct)>>)
      \/ v = merged
  BY Zenon DEF ResolveDeepMerge
<1> HIDE DEF v
<1>2. IsVerdict(merged, g)
  BY EntryVerdict
<1> HIDE DEF distinct, opaque, merged
<1> QED
  BY <1>1, <1>2, ConflictVerdict DEF v

LEMMA DenyWinsVerdict ==
  ASSUME NEW g, NEW operator, NEW opts
  PROVE  IsVerdict(ResolveDenyWins(g, operator, opts), g)
<1> DEFINE survivors == g.candidates \ Denied(g, opts)
           distinct == DistinctByContent(survivors)
           v == ResolveDenyWins(g, operator, opts)
           none == Entry(g, operator, Nothing, {}, g.candidates, Reported(g.candidates))
           some == Entry(g, operator, Earliest(survivors).ref, survivors, Denied(g, opts), Reported(g.candidates))
<1>1. \/ v = none
      \/ v = some
      \/ v = Conflict(g, operator, <<"survivors", Cardinality(distinct)>>)
  <2> DEFINE many == Conflict(g, operator, <<"survivors", Cardinality(distinct)>>)
             zero == Cardinality(distinct) = 0
             one == Cardinality(distinct) = 1
  <2>1. v = CASE zero -> none [] one -> some [] OTHER -> many
    BY DEF ResolveDenyWins
  <2>2. ~(zero /\ one)
    OBVIOUS
  <2> HIDE DEF v, zero, one, none, some, many
  <2>3. /\ zero => v = none
        /\ one => v = some
        /\ ~zero /\ ~one => v = many
    BY <2>1, <2>2
  <2> QED
    BY <2>3 DEF many
<1>2. IsVerdict(none, g)
  BY EntryVerdict
<1>3. IsVerdict(some, g)
  BY EntryVerdict
<1> HIDE DEF v, none, some
<1> QED
  BY <1>1, <1>2, <1>3, ConflictVerdict DEF v

LEMMA GuardrailVerdict ==
  ASSUME NEW g, Placed(g.candidates)
  PROVE  IsVerdict(ResolveManagedGuardrail(g), g)
<1> DEFINE managed == {c \in g.candidates : c.scope = "managed"}
           distinct == DistinctByContent(managed)
           First(c, d) == FALSE
<1>1. Placed(managed)
  BY DEF Placed
<1>2. distinct \subseteq g.candidates
  BY <1>1, DistinctOf
<1>3. IsVerdict(Winner(g, "MANAGED_GUARDRAIL", distinct, First, g.candidates), g)
  <2> HIDE DEF distinct, First
  <2> QED
    BY <1>2, WinnerVerdict
<1> QED
  BY <1>3, ConflictVerdict, Zenon DEF ResolveManagedGuardrail

LEMMA OperatorVerdict ==
  ASSUME NEW g, Placed(g.candidates), NEW operator, NEW opts
  PROVE  IsVerdict(ApplyOperator(g, operator, opts), g)
<1> DEFINE v == ApplyOperator(g, operator, opts)
           apart == Entry(g, operator, Nothing, g.candidates, {}, Reported(g.candidates))
<1>1. \/ v = ResolveByScopeRank(g, operator, opts.rank)
      \/ v = ResolveDeepMerge(g, opts.rank)
      \/ v = ResolveFirstMatch(g, opts.priority)
      \/ v = apart
      \/ v = ResolveConcatWithinGroup(g, opts.rank)
      \/ v = ResolveDenyWins(g, operator, opts)
      \/ v = ResolveManagedGuardrail(g)
      \/ v = Conflict(g, operator, <<"unspecified">>)
  BY Zenon DEF ApplyOperator
<1>2. IsVerdict(apart, g)
  BY EntryVerdict
<1>3. IsVerdict(ResolveConcatWithinGroup(g, opts.rank), g)
  BY EntryVerdict DEF ResolveConcatWithinGroup
<1> HIDE DEF v, apart
<1> QED
  BY <1>1, <1>2, <1>3, RankVerdict, DeepMergeVerdict, FirstMatchVerdict, DenyWinsVerdict, GuardrailVerdict,
     ConflictVerdict DEF v

LEMMA AgreeingVerdict ==
  ASSUME NEW g, NEW opts
  PROVE  IsVerdict(ResolveAgreeing(g, opts), g)
<1>1. IsVerdict(Entry(g, "none", Earliest(g.candidates).ref, g.candidates, {}, FALSE), g)
  BY EntryVerdict
<1> QED
  BY <1>1, DenyWinsVerdict DEF ResolveAgreeing

\* A group's verdict is what the gates leave of the host's program for its
\* concept: agreement, a conflict, or the program's operator.
LEMMA GroupVerdict ==
  ASSUME NEW g, Placed(g.candidates), NEW pk, NEW opts
  PROVE  IsVerdict(ResolveGroup(g, pk, opts), g)
<1> DEFINE program == LookupProgram(pk, g.concept)
           n == Cardinality(DistinctByContent(g.candidates))
           v == ResolveGroup(g, pk, opts)
<1>1. \/ v = ResolveAgreeing(g, opts)
      \/ v = Conflict(g, program.operator, <<"no program", g.concept, n>>)
      \/ v = Conflict(g, program.operator, <<"unqualified", g.concept, n>>)
      \/ v = ApplyOperator(g, program.operator, opts)
  BY Zenon DEF ResolveGroup
<1> HIDE DEF v, program, n
<1> QED
  BY <1>1, AgreeingVerdict, ConflictVerdict, OperatorVerdict DEF v

-----------------------------------------------------------------------------
(* The candidates of a host, and what the graph says of them.               *)

Found(host, found) == {o \in found : o.host = host}

\* A candidate refers to its file, and a server to its place in the file.
Refers(c) ==
  /\ c.place \in Nat /\ c.level \in Levels
  /\ \/ c.ref = <<c.place>>
     \/ c.concept = "mcp_server" /\ \E id : c.ref = <<c.place, id>>

Files(found) == \A o \in found : o.place \in Nat /\ o.level \in Levels

LEMMA CandidateRefers ==
  ASSUME NEW o, o.place \in Nat, o.level \in Levels, NEW c \in ExtractOne(o)
  PROVE  Refers(c)
<1>1. ASSUME NEW id
      PROVE  Refers(Candidate(o, id, <<o.place>>))
  BY DEF Candidate, Refers
<1>2. ASSUME NEW id, o.concept = "mcp_server"
      PROVE  Refers(Server(o, id))
  <2> DEFINE base(t) == Candidate(o, <<t, id>>, <<o.place, id>>)
  <2>1. PICK t, f, s, d, tools :
          Server(o, id) = [base(t) EXCEPT !.fields = f, !.structured = s, !.digest = d, !.tools = tools]
    BY Zenon DEF Server
  <2>2. /\ Server(o, id).place = o.place /\ Server(o, id).level = o.level
        /\ Server(o, id).ref = <<o.place, id>> /\ Server(o, id).concept = o.concept
    BY <2>1 DEF Candidate
  <2> QED
    BY <1>2, <2>2 DEF Refers
<1>3. /\ o.concept = "instruction" => ExtractOne(o) = {Candidate(o, <<o.root, o.name>>, <<o.place>>)}
      /\ o.concept = "skill" => ExtractOne(o) = {Candidate(o, <<o.name, o.kind>>, <<o.place>>)}
      /\ o.concept = "mcp_server" =>
           ExtractOne(o) = IF Subdivided(o) THEN {Server(o, id) : id \in DOMAIN o.servers}
                           ELSE {Candidate(o, <<o.name>>, <<o.place>>)}
      /\ o.concept \notin {"instruction", "skill", "mcp_server"} => ExtractOne(o) = {}
  BY DEF ExtractOne
<1> QED
  BY <1>1, <1>2, <1>3

LEMMA CandidatesRefer ==
  ASSUME NEW found, Files(found), NEW c \in ExtractCandidates(found)
  PROVE  Refers(c)
BY CandidateRefers DEF Files, ExtractCandidates

\* What checking a verdict's evidence leaves of it, and what it may raise.
Proved(host, e, pk) ==
  ClampToCeiling(host, e.concept,
    IF ~e.conflict /\ CapabilityQualified(pk, e.concept) /\ e.operator # "none"
    THEN MaxOf({e.level, Resolved}) ELSE e.level)

\* What a graph shows of a group.
Contests(v, g) == v.conflict = TRUE /\ v.concept = g.concept /\ v.id = g.id
Answers(v, g, active, ignored, level, confirmed) ==
  /\ v.conflict = FALSE /\ v.concept = g.concept /\ v.id = g.id
  /\ v.active = CandidateRefs(active) /\ v.ignored = CandidateRefs(ignored)
  /\ v.level = level /\ v.confirmed = (confirmed /\ level >= HostReported)

LEMMA VerifiedConflict ==
  ASSUME NEW g, NEW operator, NEW cause, NEW host, NEW pk
  PROVE  Contests(VerifyEntry(host, Conflict(g, operator, cause), pk), g)
<1> DEFINE e == Conflict(g, operator, cause)
           level == Proved(host, e, pk)
<1>1. e.conflict = TRUE
  BY DEF Conflict
<1>2. VerifyEntry(host, e, pk) = [e EXCEPT !.level = level]
  BY <1>1, Zenon DEF VerifyEntry, Proved
<1> HIDE DEF level
<1> QED
  BY <1>2 DEF Conflict, Contests

LEMMA VerifiedEntry ==
  ASSUME NEW g, NEW operator, NEW selected, NEW active, NEW ignored, NEW confirmed, NEW host, NEW pk
  PROVE  LET e == Entry(g, operator, selected, active, ignored, confirmed) IN
         Answers(VerifyEntry(host, e, pk), g, active, ignored, Proved(host, e, pk), confirmed)
<1> DEFINE e == Entry(g, operator, selected, active, ignored, confirmed)
           level == Proved(host, e, pk)
           agreed == confirmed /\ level >= HostReported
<1>1. e.conflict = FALSE /\ e.confirmed = confirmed
  BY DEF Entry
<1>2. VerifyEntry(host, e, pk) = [e EXCEPT !.level = level, !.confirmed = @ /\ level >= HostReported]
  BY <1>1, Zenon DEF VerifyEntry, Proved
<1> HIDE DEF level
<1>3. VerifyEntry(host, e, pk) = [[e EXCEPT !.level = level] EXCEPT !.confirmed = agreed]
  BY <1>1, <1>2 DEF Entry
<1>4. Answers([[e EXCEPT !.level = level] EXCEPT !.confirmed = agreed], g, active, ignored, level, confirmed)
  <2> HIDE DEF agreed
  <2>1. LET v == [[e EXCEPT !.level = level] EXCEPT !.confirmed = agreed] IN
        /\ v.conflict = FALSE /\ v.concept = g.concept /\ v.id = g.id
        /\ v.active = CandidateRefs(active) /\ v.ignored = CandidateRefs(ignored)
        /\ v.level = level /\ v.confirmed = agreed
    BY DEF Entry
  <2> QED
    BY <2>1 DEF Answers, agreed
<1> QED
  BY <1>3, <1>4 DEF level

\* The groups that are resolved one by one, and the concepts that are composed.
HostCandidates(host, found) == ExtractCandidates(Found(host, found))
Verdicts(host, found, pk, opts) ==
  {ResolveGroup(g, pk, opts) : g \in {g \in MatchIdentities(HostCandidates(host, found)) : ~Composes(pk, g.concept)}}
OfConcept(cs, k) == {c \in cs : c.concept = k}
Composition(k, cs) == [concept |-> k, id |-> <<k, "composition">>, candidates |-> cs]

LEMMA GraphOfParts ==
  ASSUME NEW host, NEW found, NEW pk, NEW opts
  PROVE  LET graph == ComputeEffectiveGraph(host, found, pk, opts)
             cs == HostCandidates(host, found)
             all == {VerifyEntry(host, e, pk) :
                       e \in Verdicts(host, found, pk, opts)
                             \cup {ComposeConcept(k, OfConcept(cs, k), pk, opts) :
                                     k \in {k \in {c.concept : c \in cs} : Composes(pk, k)}}}
         IN /\ graph.candidates = cs
            /\ graph.entries = {e \in all : ~e.conflict}
            /\ graph.conflicts = {e \in all : e.conflict}
            /\ graph.ambiguous = AmbiguousIdentities(cs)
BY DEF ComputeEffectiveGraph, GraphEntries, Verdicts, OfConcept, HostCandidates, Found

LEMMA CandidatesOf ==
  ASSUME NEW host, NEW found, Files(found), NEW c \in HostCandidates(host, found)
  PROVE  Refers(c)
<1>1. Files(Found(host, found))
  BY DEF Files, Found
<1> QED
  BY <1>1, CandidatesRefer DEF HostCandidates

LEMMA GroupPlaced ==
  ASSUME NEW host, NEW found, Files(found), NEW g \in MatchIdentities(HostCandidates(host, found))
  PROVE  /\ Placed(g.candidates) /\ g.candidates \subseteq HostCandidates(host, found)
         /\ \A c \in g.candidates : c.concept = g.concept /\ Refers(c)
<1> DEFINE cs == HostCandidates(host, found)
<1>1. PICK c \in cs : g = [concept |-> c.concept, id |-> c.id,
                           candidates |-> {d \in cs : d.concept = c.concept /\ d.id = c.id}]
  BY DEF MatchIdentities
<1>2. g.candidates \subseteq cs /\ \A d \in g.candidates : d.concept = g.concept
  BY <1>1
<1> QED
  BY <1>2, CandidatesOf DEF Placed, Refers

\* Composed groups: one entry for a concept, of all of its candidates.
LEMMA ComposedEntry ==
  ASSUME NEW k, NEW cs, NEW pk, NEW opts
  PROVE  \E selected, confirmed : ComposeConcept(k, cs, pk, opts) =
           Entry(Composition(k, cs), "CONCAT_ORDERED", selected, cs, {}, confirmed)
BY DEF ComposeConcept, Composition

\* What is active in an entry was observed, of the entry's concept.
LEMMA ActiveObserved ==
  ASSUME NEW host, NEW found, Files(found), NEW pk, NEW opts,
         NEW e \in ComputeEffectiveGraph(host, found, pk, opts).entries, NEW ref \in e.active
  PROVE  \E c \in HostCandidates(host, found) : c.concept = e.concept /\ c.ref = ref
<1> DEFINE cs == HostCandidates(host, found)
<1>1. \/ \E v \in Verdicts(host, found, pk, opts) : e = VerifyEntry(host, v, pk)
      \/ \E k : e = VerifyEntry(host, ComposeConcept(k, OfConcept(cs, k), pk, opts), pk)
  <2> DEFINE all == {VerifyEntry(host, v, pk) :
                       v \in Verdicts(host, found, pk, opts)
                             \cup {ComposeConcept(k, OfConcept(cs, k), pk, opts) :
                                     k \in {k \in {c.concept : c \in cs} : Composes(pk, k)}}}
  <2>1. e \in all
    BY GraphOfParts
  <2> QED
    BY <2>1
<1>2. ~e.conflict
  BY GraphOfParts
<1>3. ASSUME NEW v \in Verdicts(host, found, pk, opts), e = VerifyEntry(host, v, pk)
      PROVE  \E c \in cs : c.concept = e.concept /\ c.ref = ref
  <2>1. PICK g \in MatchIdentities(cs) : v = ResolveGroup(g, pk, opts)
    BY DEF Verdicts
  <2>2. IsVerdict(v, g)
    BY <2>1, GroupPlaced, GroupVerdict
  <2>3. PICK operator, selected, active, ignored, confirmed :
          active \subseteq g.candidates /\ v = Entry(g, operator, selected, active, ignored, confirmed)
    <3>1. ~Contests(e, g)
      BY <1>2 DEF Contests
    <3>2. ~\E operator, cause : v = Conflict(g, operator, cause)
      BY <1>3, <3>1, VerifiedConflict
    <3> QED
      BY <2>2, <3>2 DEF IsVerdict
  <2>4. e.concept = g.concept /\ e.active = CandidateRefs(active)
    <3>1. \E level : Answers(e, g, active, ignored, level, confirmed)
      BY <1>3, <2>3, VerifiedEntry
    <3> QED
      BY <3>1 DEF Answers
  <2> QED
    BY <2>3, <2>4, GroupPlaced DEF CandidateRefs
<1>4. ASSUME NEW k, e = VerifyEntry(host, ComposeConcept(k, OfConcept(cs, k), pk, opts), pk)
      PROVE  \E c \in cs : c.concept = e.concept /\ c.ref = ref
  <2>1. e.concept = k /\ e.active = CandidateRefs(OfConcept(cs, k))
    <3>1. PICK selected, confirmed : ComposeConcept(k, OfConcept(cs, k), pk, opts) =
            Entry(Composition(k, OfConcept(cs, k)), "CONCAT_ORDERED", selected, OfConcept(cs, k), {}, confirmed)
      BY ComposedEntry
    <3>2. Composition(k, OfConcept(cs, k)).concept = k
      BY DEF Composition
    <3>3. \E level : Answers(e, Composition(k, OfConcept(cs, k)), OfConcept(cs, k), {}, level, confirmed)
      BY <1>4, <3>1, VerifiedEntry
    <3> QED
      BY <3>2, <3>3 DEF Answers
  <2> QED
    BY <2>1 DEF CandidateRefs, OfConcept
<1> QED
  BY <1>1, <1>3, <1>4

\* Every candidate is spoken for: by an entry of its identity, by its
\* concept's composition, or by a conflict.
LEMMA CandidateAnswered ==
  ASSUME NEW host, NEW found, Files(found), NEW pk, NEW opts, NEW x \in HostCandidates(host, found)
  PROVE  LET graph == ComputeEffectiveGraph(host, found, pk, opts) IN
         \/ \E e \in graph.entries : e.concept = x.concept /\ e.id \in {x.id, <<x.concept, "composition">>}
         \/ \E c \in graph.conflicts : c.concept = x.concept /\ c.id = x.id
<1> DEFINE cs == HostCandidates(host, found)
           graph == ComputeEffectiveGraph(host, found, pk, opts)
<1>1. CASE Composes(pk, x.concept)
  <2> DEFINE k == x.concept
             e == ComposeConcept(k, OfConcept(cs, k), pk, opts)
             v == VerifyEntry(host, e, pk)
  <2>1. PICK selected, confirmed : e =
          Entry(Composition(k, OfConcept(cs, k)), "CONCAT_ORDERED", selected, OfConcept(cs, k), {}, confirmed)
    BY ComposedEntry
  <2>2. Composition(k, OfConcept(cs, k)).concept = k /\ Composition(k, OfConcept(cs, k)).id = <<k, "composition">>
    BY DEF Composition
  <2>3. v.conflict = FALSE /\ v.concept = k /\ v.id = <<k, "composition">>
    <3> HIDE DEF e
    <3>1. \E level : Answers(v, Composition(k, OfConcept(cs, k)), OfConcept(cs, k), {}, level, confirmed)
      BY <2>1, VerifiedEntry
    <3> QED
      BY <2>2, <3>1 DEF Answers
  <2>4. v \in graph.entries
    <3>1. k \in {k1 \in {c.concept : c \in cs} : Composes(pk, k1)}
      BY <1>1
    <3> HIDE DEF k
    <3> QED
      BY <2>3, <3>1, GraphOfParts
  <2> QED
    BY <2>3, <2>4
<1>2. CASE ~Composes(pk, x.concept)
  <2> DEFINE g == [concept |-> x.concept, id |-> x.id,
                   candidates |-> {d \in cs : d.concept = x.concept /\ d.id = x.id}]
             e == ResolveGroup(g, pk, opts)
             v == VerifyEntry(host, e, pk)
  <2>1. g \in MatchIdentities(cs) /\ g.concept = x.concept /\ g.id = x.id
    BY DEF MatchIdentities
  <2> HIDE DEF g
  <2>2. e \in Verdicts(host, found, pk, opts)
    BY <1>2, <2>1 DEF Verdicts
  <2>3. IsVerdict(e, g)
    BY <2>1, GroupPlaced, GroupVerdict
  <2>4. (v.conflict = TRUE \/ v.conflict = FALSE) /\ v.concept = x.concept /\ v.id = x.id
    <3> HIDE DEF e
    <3> QED
      <4>1. \E active, ignored, level, confirmed :
              Contests(v, g) \/ Answers(v, g, active, ignored, level, confirmed)
        BY <2>3, VerifiedEntry, VerifiedConflict DEF IsVerdict
      <4> QED
        BY <2>1, <4>1 DEF Answers, Contests
  <2>5. v \in graph.entries \cup graph.conflicts
    <3> HIDE DEF e
    <3> QED
      BY <2>2, <2>4, GraphOfParts
  <2> QED
    BY <2>4, <2>5
<1> QED
  BY <1>1, <1>2

-----------------------------------------------------------------------------
(* The planes of one graph.                                                 *)

\* What is in effect was observed, and does not differ from what the current
\* generation includes of it.
PlanesAgree(h, g) ==
  LET effective == EffectiveRows(g)
      current == CurrentRows(h, g)
  IN \A row \in {row \in effective : row.active} :
       /\ \E o \in ObservedRows(g) : o.concept = row.concept /\ o.key = row.key
       /\ \A s \in Compiled :
            s.host = h /\ s.concept = row.concept /\ s.place = row.key[2][1] /\ s.included
              => ~Differs(effective, current, row.concept, row.key)

LEMMA EffectiveRow ==
  ASSUME NEW g, NEW row \in EffectiveRows(g)
  PROVE  \/ \E e \in g.entries : \E ref \in e.active : row = Row(e.concept, ByRef(ref), TRUE)
         \/ \E k, id : row = Row(k, ById(id), FALSE)
<1> DEFINE rows(e) == IF e.active = {} THEN {Row(e.concept, ById(e.id), FALSE)}
                      ELSE {Row(e.concept, ByRef(ref), TRUE) : ref \in e.active}
<1>1. EffectiveRows(g) = (UNION {rows(e) : e \in g.entries})
                         \cup {Row(c.concept, ById(c.id), FALSE) : c \in g.conflicts}
  BY DEF EffectiveRows
<1>2. \A e : row \in rows(e) => \/ \E ref \in e.active : row = Row(e.concept, ByRef(ref), TRUE)
                                \/ \E k, id : row = Row(k, ById(id), FALSE)
  OBVIOUS
<1> HIDE DEF rows
<1> QED
  BY <1>1, <1>2

\* The rows of a source that is listed once are those of its candidates.
LEMMA SourceRow ==
  ASSUME NEW g, \A c \in g.candidates : Refers(c), NEW s,
         NEW row \in SourceRows(s, g), NEW c \in g.candidates, row.key = ByRef(c.ref)
  PROVE  row.concept = s.concept /\ row.active = s.included /\ c.place = s.place
<1>1. c.ref[1] = c.place
  BY DEF Refers
<1>2. \E ref : row = Row(s.concept, ByRef(ref), s.included) /\ ref[1] = s.place
  <2> DEFINE servers == {d \in g.candidates : d.concept = "mcp_server" /\ d.place = s.place}
  <2>1. \A d \in servers : d.ref[1] = s.place
    BY DEF Refers
  <2>2. <<s.place>>[1] = s.place
    OBVIOUS
  <2> HIDE DEF servers
  <2>3. \/ row = Row(s.concept, ByRef(<<s.place>>), s.included)
        \/ \E d \in servers : row = Row(s.concept, ByRef(d.ref), s.included)
    BY DEF SourceRows, servers
  <2> QED
    BY <2>1, <2>2, <2>3
<1>3. PICK ref : row = Row(s.concept, ByRef(ref), s.included) /\ ref[1] = s.place
  BY <1>2
<1>4. ByRef(ref) = ByRef(c.ref) /\ row.concept = s.concept /\ row.active = s.included
  BY <1>3 DEF Row
<1>5. ref = c.ref
  BY <1>4 DEF ByRef
<1> QED
  BY <1>1, <1>3, <1>4, <1>5

\* A source has a row for every candidate its file gives its concept.
LEMMA RowOfCandidate ==
  ASSUME NEW g, NEW c \in g.candidates, Refers(c), NEW s, s.concept = c.concept, s.place = c.place
  PROVE  Row(s.concept, ByRef(c.ref), s.included) \in SourceRows(s, g)
<1> DEFINE servers == {d \in g.candidates : d.concept = "mcp_server" /\ d.place = s.place}
<1>1. CASE s.concept = "mcp_server"
  <2>1. c \in servers
    BY <1>1
  <2> HIDE DEF servers
  <2> QED
    BY <1>1, <2>1 DEF SourceRows, servers
<1>2. CASE s.concept # "mcp_server"
  <2>1. c.ref = <<s.place>>
    BY <1>2 DEF Refers
  <2> QED
    BY <1>2, <2>1 DEF SourceRows
<1> QED
  BY <1>1, <1>2

LEMMA PlanesOfGraph ==
  ASSUME NEW h, NEW found, Files(found), NEW pk, NEW opts
  PROVE  PlanesAgree(h, ComputeEffectiveGraph(h, found, pk, opts))
<1> DEFINE g == ComputeEffectiveGraph(h, found, pk, opts)
           effective == EffectiveRows(g)
           current == CurrentRows(h, g)
<1> SUFFICES ASSUME NEW row \in effective, row.active
             PROVE  /\ \E o \in ObservedRows(g) : o.concept = row.concept /\ o.key = row.key
                    /\ \A s \in Compiled :
                         s.host = h /\ s.concept = row.concept /\ s.place = row.key[2][1] /\ s.included
                           => ~Differs(effective, current, row.concept, row.key)
  BY DEF PlanesAgree
<1>1. g.candidates = HostCandidates(h, found) /\ \A c \in g.candidates : Refers(c)
  BY GraphOfParts, CandidatesOf
<1>2. PICK e \in g.entries : \E ref \in e.active : row = Row(e.concept, ByRef(ref), TRUE)
  <2>1. ~\E k, id : row = Row(k, ById(id), FALSE)
    BY DEF Row
  <2> HIDE DEF effective, g
  <2> QED
    BY <2>1, EffectiveRow DEF effective
<1>3. PICK ref \in e.active : row = Row(e.concept, ByRef(ref), TRUE)
  BY <1>2
<1>4. PICK c \in g.candidates : c.concept = e.concept /\ c.ref = ref
  BY <1>1, ActiveObserved
<1> HIDE DEF g
<1>5. row.concept = c.concept /\ row.key = ByRef(c.ref) /\ row.active = TRUE
  BY <1>4, <1>3 DEF Row
<1>6. \E o \in ObservedRows(g) : o.concept = row.concept /\ o.key = row.key
  <2> DEFINE o == Row(c.concept, ByRef(c.ref), c.disposition = "ACTIVE")
  <2>1. o \in ObservedRows(g)
    BY DEF ObservedRows
  <2>2. o.concept = row.concept /\ o.key = row.key
    BY <1>5 DEF Row
  <2> QED
    BY <2>1, <2>2
<1>7. ASSUME NEW s \in Compiled, s.host = h, s.concept = row.concept, s.place = row.key[2][1], s.included
      PROVE  ~Differs(effective, current, row.concept, row.key)
  <2> DEFINE state(rows) == {r.active : r \in {r \in rows : r.concept = row.concept /\ r.key = row.key}}
  <2>1. s.place = c.place
    <3>1. row.key[2] = c.ref
      BY <1>5 DEF ByRef
    <3>2. c.ref[1] = c.place
      BY <1>1 DEF Refers
    <3> QED
      BY <1>7, <3>1, <3>2
  <2>2. ASSUME NEW r \in effective, r.key = row.key
        PROVE  r.active = TRUE
    <3>1. ~\E k, id : r = Row(k, ById(id), FALSE)
      BY <1>5, <2>2 DEF Row, ById, ByRef
    <3>2. \E e1 \in g.entries : \E ref1 \in e1.active : r = Row(e1.concept, ByRef(ref1), TRUE)
      BY <3>1, EffectiveRow DEF effective
    <3> QED
      BY <3>2 DEF Row
  <2>3. state(effective) = {TRUE}
    BY <1>5, <2>2
  <2>4. \A r \in current : r.concept = row.concept /\ r.key = row.key => r.active = s.included
    <3> SUFFICES ASSUME NEW r \in current, r.concept = row.concept, r.key = row.key
                 PROVE  r.active = s.included
      OBVIOUS
    <3>1. PICK s1 \in Compiled : s1.host = h /\ r \in SourceRows(s1, g)
      BY DEF current, CurrentRows
    <3>2. r.concept = s1.concept /\ r.active = s1.included /\ c.place = s1.place
      BY <1>1, <1>5, <3>1, SourceRow
    <3>3. s1 = s
      BY <1>7, <2>1, <3>1, <3>2, ReportAssumption
    <3> QED
      BY <3>2, <3>3
  <2>5. \E r \in current : r.concept = row.concept /\ r.key = row.key
    <3> DEFINE r == Row(s.concept, ByRef(c.ref), s.included)
    <3>1. r \in SourceRows(s, g)
      BY <1>1, <1>5, <1>7, <2>1, RowOfCandidate
    <3>2. r \in current
      BY <1>7, <3>1 DEF current, CurrentRows
    <3>3. r.concept = row.concept /\ r.key = row.key
      BY <1>5, <1>7 DEF Row
    <3> QED
      BY <3>2, <3>3
  <2>6. s.included = TRUE
    BY <1>7
  <2>7. state(current) = {TRUE}
    <3> HIDE DEF current
    <3> QED
      BY <2>4, <2>5, <2>6
  <2> HIDE DEF effective, current
  <2> QED
    BY <2>3, <2>7 DEF Differs
<1> QED
  BY <1>6, <1>7

-----------------------------------------------------------------------------
(* Finite reports, and the rows of a card that are printed.                 *)

LEMMA ImageFinite ==
  ASSUME NEW S, IsFiniteSet(S), NEW f
  PROVE  IsFiniteSet({f[x] : x \in S})
<1> DEFINE T == {f[x] : x \in S}
           F == [x \in S |-> f[x]]
<1>1. F \in Surjection(S, T)
  BY DEF Surjection
<1> QED
  BY <1>1, FS_Surjection

LEMMA CandidatesFinite ==
  ASSUME NEW host, NEW found, IsFiniteSet(found), \A o \in found : IsFiniteSet(DOMAIN o.servers)
  PROVE  IsFiniteSet(HostCandidates(host, found))
<1> DEFINE own == Found(host, found)
<1>1. IsFiniteSet(own) /\ own \subseteq found
  <2>1. own \in SUBSET found
    BY DEF Found
  <2> QED
    BY <2>1, FS_Subset
<1> HIDE DEF own
<1>2. ASSUME NEW o \in own
      PROVE  IsFiniteSet(ExtractOne(o))
  <2>1. \A c : IsFiniteSet({c})
    BY FS_Singleton
  <2>2. IsFiniteSet({Server(o, id) : id \in DOMAIN o.servers})
    <3> DEFINE f == [id \in DOMAIN o.servers |-> Server(o, id)]
    <3>1. {f[id] : id \in DOMAIN o.servers} = {Server(o, id) : id \in DOMAIN o.servers}
      OBVIOUS
    <3>2. IsFiniteSet(DOMAIN o.servers)
      BY <1>1
    <3> HIDE DEF f
    <3>3. IsFiniteSet({f[id] : id \in DOMAIN o.servers})
      BY <3>2, ImageFinite
    <3> QED
      BY <3>1, <3>3
  <2>3. \/ \E c : ExtractOne(o) = {c}
        \/ ExtractOne(o) = {Server(o, id) : id \in DOMAIN o.servers}
        \/ ExtractOne(o) = {}
    BY DEF ExtractOne
  <2> QED
    BY <2>1, <2>2, <2>3, FS_EmptySet
<1>3. IsFiniteSet(UNION {ExtractOne(o) : o \in own})
  <2> DEFINE f == [o \in own |-> ExtractOne(o)]
             T == {f[o] : o \in own}
  <2>1. T = {ExtractOne(o) : o \in own}
    OBVIOUS
  <2>2. \A t \in T : IsFiniteSet(t)
    BY <1>2, <2>1
  <2>3. IsFiniteSet(T)
    <3> HIDE DEF f
    <3> QED
      BY <1>1, ImageFinite
  <2> HIDE DEF T
  <2>4. IsFiniteSet(UNION T)
    BY <2>2, <2>3, FS_UNION
  <2> QED
    BY <2>1, <2>4
<1> QED
  BY <1>3 DEF HostCandidates, ExtractCandidates, own

LEMMA ConflictsFinite ==
  ASSUME NEW host, NEW found, NEW pk, NEW opts, IsFiniteSet(HostCandidates(host, found))
  PROVE  IsFiniteSet(ComputeEffectiveGraph(host, found, pk, opts).conflicts)
<1> DEFINE cs == HostCandidates(host, found)
           groups == MatchIdentities(cs)
           group(c) == [concept |-> c.concept, id |-> c.id,
                        candidates |-> {d \in cs : d.concept = c.concept /\ d.id = c.id}]
           one(g) == VerifyEntry(host, ResolveGroup(g, pk, opts), pk)
           whole(c) == VerifyEntry(host, ComposeConcept(c.concept, OfConcept(cs, c.concept), pk, opts), pk)
           ones == {one(g) : g \in groups}
           wholes == {whole(c) : c \in cs}
           conflicts == ComputeEffectiveGraph(host, found, pk, opts).conflicts
<1>1. IsFiniteSet(groups)
  <2> DEFINE f == [c \in cs |-> group(c)]
  <2>1. {f[c] : c \in cs} = groups
    BY DEF MatchIdentities
  <2> HIDE DEF f, cs, groups
  <2>2. IsFiniteSet({f[c] : c \in cs})
    BY ImageFinite DEF cs
  <2> QED
    BY <2>1, <2>2
<1>2. IsFiniteSet(ones)
  <2> DEFINE f == [g \in groups |-> one(g)]
  <2>1. {f[g] : g \in groups} = ones
    OBVIOUS
  <2> HIDE DEF f, groups, ones
  <2>2. IsFiniteSet({f[g] : g \in groups})
    BY <1>1, ImageFinite
  <2> QED
    BY <2>1, <2>2
<1>3. IsFiniteSet(wholes)
  <2> DEFINE f == [c \in cs |-> whole(c)]
  <2>1. {f[c] : c \in cs} = wholes
    OBVIOUS
  <2> HIDE DEF f, cs, wholes
  <2>2. IsFiniteSet({f[c] : c \in cs})
    BY ImageFinite DEF cs
  <2> QED
    BY <2>1, <2>2
<1>4. conflicts \subseteq ones \cup wholes
  <2> DEFINE composed == {ComposeConcept(k, OfConcept(cs, k), pk, opts) :
                            k \in {k \in {c.concept : c \in cs} : Composes(pk, k)}}
             verdicts == Verdicts(host, found, pk, opts)
  <2>1. conflicts \subseteq {VerifyEntry(host, e, pk) : e \in verdicts \cup composed}
    <3>1. conflicts = {e \in {VerifyEntry(host, e, pk) : e \in verdicts \cup composed} : e.conflict}
      BY GraphOfParts
    <3> HIDE DEF conflicts, verdicts, composed
    <3> QED
      BY <3>1
  <2>2. \A e \in verdicts : VerifyEntry(host, e, pk) \in ones
    BY DEF Verdicts
  <2>3. \A e \in composed : VerifyEntry(host, e, pk) \in wholes
    OBVIOUS
  <2> HIDE DEF conflicts, verdicts, composed, ones, wholes
  <2> QED
    BY <2>1, <2>2, <2>3
<1>5. IsFiniteSet(ones \cup wholes)
  BY <1>2, <1>3, FS_Union
<1> HIDE DEF ones, wholes
<1> QED
  BY <1>4, <1>5, FS_Subset

LEMMA AmbiguousFinite ==
  ASSUME NEW cs, IsFiniteSet(cs)
  PROVE  IsFiniteSet(AmbiguousIdentities(cs))
<1> DEFINE f == [p \in cs \X cs |-> {p[1], p[2]}]
           T == {f[p] : p \in cs \X cs}
<1>1. AmbiguousIdentities(cs) \subseteq T
  BY DEF AmbiguousIdentities
<1>2. IsFiniteSet(cs \X cs)
  BY FS_Product
<1>3. IsFiniteSet(T)
  <2> HIDE DEF f
  <2> QED
    BY <1>2, ImageFinite
<1> HIDE DEF T
<1> QED
  BY <1>1, <1>3, FS_Subset

LEMMA SignalsFinite ==
  ASSUME NEW h, NEW graph, NEW qualified, IsFiniteSet(graph.conflicts), IsFiniteSet(graph.ambiguous)
  PROVE  IsFiniteSet(BuildDriftSignals(h, graph, qualified))
<1>1. IsFiniteSet(ConflictSignals(h, graph))
  <2> DEFINE f == [c \in graph.conflicts |-> Signal(h, <<c.concept, c.id>>, "selectedSource", "SOURCE_DRIFT", c.cause)]
  <2>1. {f[c] : c \in graph.conflicts} = ConflictSignals(h, graph)
    BY DEF ConflictSignals
  <2> HIDE DEF f
  <2>2. IsFiniteSet({f[c] : c \in graph.conflicts})
    BY ImageFinite
  <2> QED
    BY <2>1, <2>2
<1>2. IsFiniteSet(AmbiguousIdentitySignals(h, graph))
  <2> DEFINE f == [pair \in graph.ambiguous |->
                     Signal(h, <<"mcp_server", "ambiguous", {c.id : c \in pair}>>, "identity", "UNKNOWN",
                            <<"ambiguous", {c.ref : c \in pair}>>)]
  <2>1. {f[pair] : pair \in graph.ambiguous} = AmbiguousIdentitySignals(h, graph)
    BY DEF AmbiguousIdentitySignals
  <2> HIDE DEF f
  <2>2. IsFiniteSet({f[pair] : pair \in graph.ambiguous})
    BY ImageFinite
  <2> QED
    BY <2>1, <2>2
<1>3. IsFiniteSet(KnowledgeDriftSignals(h, qualified))
  BY FS_Singleton, FS_EmptySet DEF KnowledgeDriftSignals
<1> QED
  BY <1>1, <1>2, <1>3, FS_Union DEF BuildDriftSignals

LEMMA ClassifiedFinite ==
  ASSUME NEW sigs, IsFiniteSet(sigs), NEW docs, NEW t
  PROVE  IsFiniteSet(ClassifyAll(sigs, docs, t))
<1> DEFINE kept == {sig \in sigs : ~NoDrift(sig)}
           f == [sig \in kept |-> Classify(sig, docs, t)]
<1>1. IsFiniteSet(kept)
  BY FS_Subset
<1>2. {f[sig] : sig \in kept} = ClassifyAll(sigs, docs, t)
  BY DEF ClassifyAll
<1> HIDE DEF f, kept
<1>3. IsFiniteSet({f[sig] : sig \in kept})
  BY <1>1, ImageFinite
<1> QED
  BY <1>2, <1>3

\* The elements of a finite set, each once.
LEMMA SetToSeqOf ==
  ASSUME NEW S, IsFiniteSet(S)
  PROVE  /\ Cardinality(S) \in Nat
         /\ SetToSeq(S) \in [1..Cardinality(S) -> S]
         /\ \A i, j \in 1..Cardinality(S) : SetToSeq(S)[i] = SetToSeq(S)[j] => i = j
         /\ \A x \in S : \E i \in 1..Cardinality(S) : SetToSeq(S)[i] = x
<1> DEFINE n == Cardinality(S)
           q == SetToSeq(S)
<1>1. n \in Nat /\ ExistsBijection(1..n, S)
  BY FS_CardinalityType
<1>2. PICK f \in [1..n -> S] : IsInjective(f)
  BY <1>1 DEF ExistsBijection, Bijection, Injection, IsInjective
<1>3. q \in [1..n -> S] /\ IsInjective(q)
  BY <1>2, Zenon DEF SetToSeq
<1>4. \A i, j \in 1..n : q[i] = q[j] => i = j
  BY <1>3 DEF IsInjective
<1> HIDE DEF q
<1>5. q \in Surjection(1..n, S)
  <2>1. q \in Injection(1..n, S)
    BY <1>3, <1>4 DEF Injection, IsInjective
  <2>2. Cardinality(1..n) = n
    BY <1>1, FS_Interval
  <2> QED
    BY <2>1, <2>2, FS_Injection
<1>6. \A x \in S : \E i \in 1..n : q[i] = x
  BY <1>5 DEF Surjection
<1> QED
  BY <1>1, <1>3, <1>4, <1>6 DEF q

LEMMA SeqOfFunction ==
  ASSUME NEW T, NEW m \in Nat, NEW q \in [1..m -> T]
  PROVE  q \in Seq(T) /\ Len(q) = m
<1>1. q \in Seq(T)
  BY SeqDef
<1> QED
  BY <1>1, LenProperties

\* Where no more outcomes are than rows may be printed, all are printed.
LEMMA SamplesShown ==
  ASSUME NEW M, IsFiniteSet(M),
         Cardinality({Outcome(a) : a \in M}) <= SampleLimit
  PROVE  {Outcome(a) : a \in SelectSamples(M)} = {Outcome(a) : a \in M}
<1> DEFINE rows == SetToSeq(M)
           n == Cardinality(M)
           seen == {Outcome(a) : a \in M}
           firsts == {i \in DOMAIN rows : \A j \in 1..i-1 : Outcome(rows[j]) # Outcome(rows[i])}
           rest == DOMAIN rows \ firsts
           ordered == SetToSeq(firsts) \o SetToSeq(rest)
           k == Cardinality(firsts)
           r == Cardinality(rest)
<1>1. /\ n \in Nat /\ rows \in [1..n -> M] /\ DOMAIN rows = 1..n
      /\ \A x \in M : \E i \in 1..n : rows[i] = x
  BY SetToSeqOf
<1>2. SelectSamples(M) = {rows[ordered[m]] : m \in {m \in DOMAIN ordered : m <= SampleLimit}}
  BY DEF SelectSamples
<1> HIDE DEF rows, n
<1>3. IsFiniteSet(firsts) /\ IsFiniteSet(rest)
  <2>1. IsFiniteSet(1..n)
    BY <1>1, FS_Interval
  <2> QED
    BY <1>1, <2>1, FS_Subset, FS_Difference
<1>4. /\ firsts \subseteq 1..n /\ rest \subseteq 1..n
      /\ \A i \in firsts : \A j \in 1..i-1 : Outcome(rows[j]) # Outcome(rows[i])
      /\ \A i \in 1..n : (\A j \in 1..i-1 : Outcome(rows[j]) # Outcome(rows[i])) => i \in firsts
  BY <1>1
<1> HIDE DEF firsts, rest
<1>5. k \in Nat /\ SetToSeq(firsts) \in Seq(1..n) /\ Len(SetToSeq(firsts)) = k
      /\ \A i \in firsts : \E m \in 1..k : SetToSeq(firsts)[m] = i
  <2>1. SetToSeq(firsts) \in [1..k -> firsts]
    BY <1>3, SetToSeqOf
  <2>2. k \in Nat /\ \A i \in firsts : \E m \in 1..k : SetToSeq(firsts)[m] = i
    BY <1>3, SetToSeqOf
  <2>3. SetToSeq(firsts) \in [1..k -> 1..n]
    BY <1>4, <2>1
  <2> QED
    BY <2>2, <2>3, SeqOfFunction
<1>6. r \in Nat /\ SetToSeq(rest) \in Seq(1..n) /\ Len(SetToSeq(rest)) = r
  <2>1. r \in Nat /\ SetToSeq(rest) \in [1..r -> rest]
    BY <1>3, SetToSeqOf
  <2>2. SetToSeq(rest) \in [1..r -> 1..n]
    BY <1>4, <2>1
  <2> QED
    BY <2>1, <2>2, SeqOfFunction
<1>7. /\ ordered \in Seq(1..n) /\ Len(ordered) = k + r /\ DOMAIN ordered = 1..k+r
      /\ \A m \in 1..k : ordered[m] = SetToSeq(firsts)[m]
  <2>1. /\ ordered \in Seq(1..n) /\ Len(ordered) = k + r
        /\ \A m \in 1..k + r : ordered[m] = IF m <= k THEN SetToSeq(firsts)[m] ELSE SetToSeq(rest)[m - k]
    BY <1>5, <1>6, ConcatProperties
  <2> HIDE DEF ordered, r
  <2> QED
    BY <1>5, <1>6, <2>1, LenProperties
<1> HIDE DEF ordered, r
\* The first rows are as many as the outcomes.
<1>8. k <= SampleLimit
  <2> DEFINE f == [i \in firsts |-> Outcome(rows[i])]
  <2>1. f \in [firsts -> seen]
    BY <1>1, <1>4
  <2>2. ASSUME NEW i \in firsts, NEW j \in firsts, f[i] = f[j]
        PROVE  i = j
    <3>1. Outcome(rows[i]) = Outcome(rows[j])
      BY <2>2
    <3>2. i \in Nat /\ j \in Nat /\ 1 <= i /\ 1 <= j
      BY <1>1, <1>4
    <3>3. ~(i < j) /\ ~(j < i)
      BY <1>4, <3>1, <3>2
    <3> QED
      BY <3>2, <3>3
  <2>3. IsFiniteSet(seen)
    <3> DEFINE o == [a \in M |-> Outcome(a)]
    <3>1. seen = {o[a] : a \in M}
      OBVIOUS
    <3> HIDE DEF o
    <3>2. IsFiniteSet({o[a] : a \in M})
      BY ImageFinite
    <3> QED
      BY <3>1, <3>2
  <2> HIDE DEF f, seen
  <2>4. f \in Injection(firsts, seen)
    BY <2>1, <2>2 DEF Injection, IsInjective
  <2>5. k <= Cardinality(seen) /\ Cardinality(seen) \in Nat
    BY <2>3, <2>4, FS_Injection, FS_CardinalityType
  <2> QED
    BY <1>5, <2>5, ReportAssumption DEF seen
<1>9. ASSUME NEW a \in M
      PROVE  \E b \in SelectSamples(M) : Outcome(b) = Outcome(a)
  <2> DEFINE same == {i \in 1..n : Outcome(rows[i]) = Outcome(a)}
  <2>1. same # {} /\ same \in SUBSET Nat
    BY <1>1
  <2>2. PICK i \in same : \A j \in same : i <= j
    BY <2>1, LeastNat
  <2>3. i \in firsts
    <3>1. ASSUME NEW j \in 1..i-1
          PROVE  Outcome(rows[j]) # Outcome(rows[i])
      BY <1>1, <2>2
    <3> QED
      BY <1>4, <2>2, <3>1
  <2>4. PICK m \in 1..k : ordered[m] = i
    BY <1>5, <1>7, <2>3
  <2>5. m \in DOMAIN ordered /\ m <= SampleLimit
    BY <1>5, <1>6, <1>7, <1>8, ReportAssumption DEF r
  <2> QED
    BY <1>2, <2>2, <2>4, <2>5
<1>10. SelectSamples(M) \subseteq M
  BY <1>1, <1>2, <1>7
<1> QED
  BY <1>9, <1>10

\* The cards part what there is to show.
Alike(A, a) == {b \in A : GroupKey(b) = GroupKey(a)}

LEMMA CardOf ==
  ASSUME NEW A, NEW a \in A
  PROVE  /\ Card(Alike(A, a)).matrix = Alike(A, a)
         /\ Card(Alike(A, a)).key = GroupKey(a)
         /\ Card(Alike(A, a)).category = a.category
         /\ Card(Alike(A, a)).samples = SelectSamples(Alike(A, a))
<1> DEFINE M == Alike(A, a)
           b == CHOOSE b \in M : TRUE
<1>1. a \in M
  BY DEF Alike
<1>2. b \in M
  BY <1>1
<1>3. GroupKey(b) = GroupKey(a)
  BY <1>2 DEF Alike
<1>4. b.category = a.category
  BY <1>3 DEF GroupKey
<1> HIDE DEF M
<1>5. Card(M).matrix = M /\ Card(M).key = GroupKey(b) /\ Card(M).category = b.category
      /\ Card(M).samples = SelectSamples(M)
  BY DEF Card
<1> QED
  BY <1>3, <1>4, <1>5 DEF M

LEMMA CardsPart ==
  ASSUME NEW A
  PROVE  /\ (UNION {c.matrix : c \in Group(A)}) = A
         /\ \A c, d \in Group(A) : c # d => c.key # d.key /\ c.matrix \cap d.matrix = {}
         /\ \A c \in Group(A) : /\ c.matrix \subseteq A /\ c.samples = SelectSamples(c.matrix)
                                /\ \A a \in c.matrix : a.category = c.category
<1>1. Group(A) = {Card(Alike(A, a)) : a \in A}
  BY DEF Group, Alike
<1>2. \A a \in A : a \in Alike(A, a) /\ Alike(A, a) \subseteq A
  BY DEF Alike
<1>3. ASSUME NEW c \in Group(A)
      PROVE  /\ c.matrix \subseteq A /\ c.samples = SelectSamples(c.matrix)
             /\ \A b \in c.matrix : b.category = c.category
  <2>1. PICK a \in A : c = Card(Alike(A, a))
    BY <1>1
  <2>2. c.matrix = Alike(A, a) /\ c.category = a.category /\ c.samples = SelectSamples(Alike(A, a))
    BY <2>1, CardOf
  <2>3. \A b \in Alike(A, a) : b.category = a.category
    BY DEF Alike, GroupKey
  <2> QED
    BY <1>2, <2>2, <2>3
<1>4. ASSUME NEW c \in Group(A), NEW d \in Group(A), c # d
      PROVE  c.key # d.key /\ c.matrix \cap d.matrix = {}
  <2>1. PICK a \in A : c = Card(Alike(A, a))
    BY <1>1
  <2>2. PICK b \in A : d = Card(Alike(A, b))
    BY <1>1
  <2>3. c.key = GroupKey(a) /\ d.key = GroupKey(b) /\ c.matrix = Alike(A, a) /\ d.matrix = Alike(A, b)
    BY <2>1, <2>2, CardOf
  <2>4. GroupKey(a) # GroupKey(b)
    BY <1>4, <2>1, <2>2 DEF Alike
  <2>5. Alike(A, a) \cap Alike(A, b) = {}
    BY <2>4 DEF Alike
  <2> QED
    BY <2>3, <2>4, <2>5
<1>5. ASSUME NEW a \in A
      PROVE  \E c \in Group(A) : a \in c.matrix
  <2>1. Card(Alike(A, a)) \in Group(A) /\ a \in Card(Alike(A, a)).matrix
    BY <1>1, <1>2, CardOf
  <2> QED
    BY <2>1
<1> QED
  BY <1>3, <1>4, <1>5

-----------------------------------------------------------------------------
(* The report: what Build makes of one state, whatever happens after.       *)

GraphsOf(hosts, found, packs) ==
  [h \in hosts |-> ComputeEffectiveGraph(h, found[h], packs[h], NoOptions)]
SignalsOf(hosts, graphs, packs) ==
  UNION {BuildDriftSignals(h, graphs[h], packs[h] # NoPack) : h \in hosts}
AssertionsOf(hosts, found, packs, docs, t) ==
  ClassifyAll(SignalsOf(hosts, GraphsOf(hosts, found, packs), packs) \cup Foreign, docs, t)
ReportOf(hosts, found, packs, docs, t) ==
  LET assertions == AssertionsOf(hosts, found, packs, docs, t) IN
  [graphs |-> GraphsOf(hosts, found, packs), assertions |-> assertions, cards |-> Group(assertions),
   at |-> t, under |-> docs]

WasBuilt ==
  \/ artifact = NoReport
  \/ \E hosts \in SUBSET ReportHosts, found \in [ReportHosts -> ObservationSets] :
       \E packs, docs, t : artifact = ReportOf(hosts, found, packs, docs, t)
ReportInv ==
  /\ installed \in SUBSET ReportHosts /\ observed \in [ReportHosts -> ObservationSets]
  /\ WasBuilt

\* The report is what one state gave: later changes leave it alone.
THEOREM ReportIsBuilt == ReportSpec => []ReportInv
<1>1. ReportInit => ReportInv
  BY DEF ReportInit, ReportInv, WasBuilt
<1>2. ReportInv /\ [ReportNext]_reportVars => ReportInv'
  <2> SUFFICES ASSUME ReportInv, [ReportNext]_reportVars
               PROVE  ReportInv'
    OBVIOUS
  <2>1. CASE Build
    <3>1. artifact' = ReportOf(installed, observed, pack, exceptions, today)
      BY <2>1, Zenon DEF Build, ReportOf, AssertionsOf, SignalsOf, GraphsOf, GraphOf
    <3>2. WasBuilt'
      BY <3>1 DEF ReportInv, WasBuilt
    <3> QED
      BY <2>1, <3>2 DEF Build, ReportInv
  <2>2. CASE SourcesChange
    BY <2>2 DEF SourcesChange, ReportInv, WasBuilt
  <2>3. CASE PackPublished \/ ExceptionsWritten \/ ReportTick \/ UNCHANGED reportVars
    BY <2>3 DEF PackPublished, ExceptionsWritten, ReportTick, reportVars, ReportInv, WasBuilt
  <2>4. CASE HostRemoved
    BY <2>4 DEF HostRemoved, ReportInv, WasBuilt
  <2> QED
    BY <2>1, <2>2, <2>3, <2>4 DEF ReportNext
<1> QED
  BY <1>1, <1>2, PTL DEF ReportSpec

LEMMA FilesOf ==
  ASSUME NEW found \in ObservationSets
  PROVE  Files(found) /\ IsFiniteSet(found) /\ \A o \in found : IsFiniteSet(DOMAIN o.servers)
BY ReportAssumption DEF Files

LEMMA AssertionsFinite ==
  ASSUME NEW hosts \in SUBSET ReportHosts, NEW found \in [ReportHosts -> ObservationSets],
         NEW packs, NEW docs, NEW t
  PROVE  IsFiniteSet(AssertionsOf(hosts, found, packs, docs, t))
<1> DEFINE graphs == GraphsOf(hosts, found, packs)
           sigs(h) == BuildDriftSignals(h, graphs[h], packs[h] # NoPack)
<1>1. ASSUME NEW h \in hosts
      PROVE  IsFiniteSet(sigs(h))
  <2>1. graphs[h] = ComputeEffectiveGraph(h, found[h], packs[h], NoOptions) /\ found[h] \in ObservationSets
    BY DEF GraphsOf
  <2> HIDE DEF graphs
  <2>2. IsFiniteSet(HostCandidates(h, found[h]))
    BY <2>1, FilesOf, CandidatesFinite
  <2>3. IsFiniteSet(graphs[h].conflicts)
    BY <2>1, <2>2, ConflictsFinite
  <2>4. graphs[h].ambiguous = AmbiguousIdentities(HostCandidates(h, found[h]))
    BY <2>1, GraphOfParts
  <2>5. IsFiniteSet(graphs[h].ambiguous)
    BY <2>2, <2>4, AmbiguousFinite
  <2> QED
    BY <2>3, <2>5, SignalsFinite
<1>2. IsFiniteSet(UNION {sigs(h) : h \in hosts})
  <2> DEFINE f == [h \in hosts |-> sigs(h)]
             T == {f[h] : h \in hosts}
  <2>1. T = {sigs(h) : h \in hosts}
    OBVIOUS
  <2> HIDE DEF sigs
  <2>2. \A s \in T : IsFiniteSet(s)
    BY <1>1
  <2>3. IsFiniteSet(hosts)
    BY ReportAssumption, FS_Subset
  <2> HIDE DEF f
  <2>4. IsFiniteSet(T)
    BY <2>3, ImageFinite
  <2> HIDE DEF T
  <2>5. IsFiniteSet(UNION T)
    BY <2>2, <2>4, FS_UNION
  <2> QED
    BY <2>1, <2>5
<1>3. IsFiniteSet(SignalsOf(hosts, graphs, packs))
  BY <1>2 DEF SignalsOf
<1>4. IsFiniteSet(SignalsOf(hosts, graphs, packs) \cup Foreign)
  BY <1>3, ReportAssumption, FS_Union
<1> QED
  BY <1>4, ClassifiedFinite DEF AssertionsOf

\* A conflict of a graph is in the assertions, excepted or not.
Contested(graph, k, id) == \E c \in graph.conflicts : c.concept = k /\ c.id = id
Told(assertions, h, k, id) == \E a \in assertions : a.sig.host = h /\ a.sig.entity = <<k, id>>

LEMMA ConflictAsserted ==
  ASSUME NEW hosts, NEW found, NEW packs, NEW docs, NEW t, NEW h \in hosts, NEW k, NEW id,
         Contested(GraphsOf(hosts, found, packs)[h], k, id)
  PROVE  Told(AssertionsOf(hosts, found, packs, docs, t), h, k, id)
<1> DEFINE graphs == GraphsOf(hosts, found, packs)
           sigs == SignalsOf(hosts, graphs, packs) \cup Foreign
<1> PICK c \in graphs[h].conflicts : c.concept = k /\ c.id = id
  BY DEF Contested
<1> DEFINE sig == Signal(h, <<c.concept, c.id>>, "selectedSource", "SOURCE_DRIFT", c.cause)
<1>1. sig \in ConflictSignals(h, graphs[h])
  BY DEF ConflictSignals
<1>2. sig \in sigs
  BY <1>1 DEF SignalsOf, BuildDriftSignals
<1>3. ~NoDrift(sig) /\ sig.host = h /\ sig.entity = <<k, id>>
  BY DEF Signal, NoDrift
<1> HIDE DEF sig, sigs
<1>4. Classify(sig, docs, t) \in ClassifyAll(sigs, docs, t)
  BY <1>2, <1>3 DEF ClassifyAll
<1>5. Classify(sig, docs, t).sig = sig
  BY DEF Classify
<1> QED
  BY <1>3, <1>4, <1>5 DEF AssertionsOf, Told, sigs

\* What is shown as excepted has a live exception, and what has one is.
Excepted(sig, docs, t) ==
  /\ sig.category # "UNKNOWN"
  /\ \E x \in docs : x.asset = sig.asset /\ x.scope \in sig.scopes /\ t < x.until

LEMMA ExceptedShown ==
  ASSUME NEW sigs, NEW docs, NEW t, \A sig \in sigs : sig.category # "EXCEPTION",
         NEW a \in ClassifyAll(sigs, docs, t)
  PROVE  a.category = "EXCEPTION" <=> Excepted(a.sig, docs, t)
<1>1. PICK sig \in sigs : a = Classify(sig, docs, t)
  BY DEF ClassifyAll
<1>2. Excepted(sig, docs, t) <=> sig.category # "UNKNOWN" /\ \E x \in docs : Covers(x, sig, t)
  BY DEF Excepted, Covers
<1>3. a.sig = sig /\ a.category = IF Excepted(sig, docs, t) THEN "EXCEPTION" ELSE sig.category
  BY <1>1, <1>2 DEF Classify
<1> QED
  BY <1>3

\* No signal is excepted before it is classified.
LEMMA SignalsBase ==
  ASSUME NEW hosts, NEW graphs, NEW packs
  PROVE  \A sig \in SignalsOf(hosts, graphs, packs) \cup Foreign : sig.category # "EXCEPTION"
<1>1. ASSUME NEW h, NEW graph, NEW qualified, NEW sig \in BuildDriftSignals(h, graph, qualified)
      PROVE  sig.category \in {"SOURCE_DRIFT", "UNKNOWN", "KNOWLEDGE_DRIFT"}
  <2>1. ASSUME sig \in ConflictSignals(h, graph)
        PROVE  sig.category = "SOURCE_DRIFT"
    BY <2>1 DEF ConflictSignals, Signal
  <2>2. ASSUME sig \in AmbiguousIdentitySignals(h, graph)
        PROVE  sig.category = "UNKNOWN"
    BY <2>2 DEF AmbiguousIdentitySignals, Signal
  <2>3. ASSUME sig \in KnowledgeDriftSignals(h, qualified)
        PROVE  sig.category = "KNOWLEDGE_DRIFT"
    <3>1. sig = Signal(h, <<"host", <<h>>>>, "knowledge", "KNOWLEDGE_DRIFT", <<"no pack for", h>>)
      BY <2>3, Zenon DEF KnowledgeDriftSignals
    <3> QED
      BY <3>1, Zenon DEF Signal
  <2> QED
    BY <2>1, <2>2, <2>3 DEF BuildDriftSignals
<1>2. \A sig \in SignalsOf(hosts, graphs, packs) :
        \E h \in hosts : sig \in BuildDriftSignals(h, graphs[h], packs[h] # NoPack)
  BY DEF SignalsOf
<1>3. \A sig \in SignalsOf(hosts, graphs, packs) : sig.category \in {"SOURCE_DRIFT", "UNKNOWN", "KNOWLEDGE_DRIFT"}
  BY <1>1, <1>2
<1>4. \A sig \in Foreign : sig.category \in BaseCategories
  BY ReportAssumption
<1> QED
  BY <1>3, <1>4 DEF BaseCategories

\* An entry of its identity, or of all of its concept, or a card speaks for x.
Spoken(g, cards, h, x) ==
  \/ \E e \in g.entries : e.concept = x.concept /\ e.id \in {x.id, <<x.concept, "composition">>}
  \/ \E c \in cards : \E a \in c.matrix : a.sig.host = h /\ a.sig.entity = <<x.concept, x.id>>

AllSpoken(g, cards, h) ==
  \A x, y \in g.candidates :
    x.concept = y.concept /\ x.id = y.id /\ x.digest # y.digest =>
      \/ \E e \in g.entries : e.concept = x.concept /\ e.id \in {x.id, <<x.concept, "composition">>}
      \/ \E c \in cards : \E a \in c.matrix : a.sig.host = h /\ a.sig.entity = <<x.concept, x.id>>

LEMMA ReportAccounts ==
  ASSUME NEW hosts \in SUBSET ReportHosts, NEW found \in [ReportHosts -> ObservationSets],
         NEW packs, NEW docs, NEW t, artifact = ReportOf(hosts, found, packs, docs, t)
  PROVE  DriftAccounted
<1> DEFINE A == AssertionsOf(hosts, found, packs, docs, t)
           graphs == GraphsOf(hosts, found, packs)
<1>1. /\ artifact.assertions = A /\ artifact.cards = Group(A) /\ artifact.graphs = graphs
      /\ artifact.at = t /\ artifact.under = docs
  BY DEF ReportOf
<1>2. IsFiniteSet(A)
  BY AssertionsFinite
<1>3. \A a \in A : a.category = "EXCEPTION" <=> Excepted(a.sig, docs, t)
  BY ExceptedShown, SignalsBase DEF AssertionsOf
<1> HIDE DEF A
<1>4. ASSUME NEW c \in Group(A), Cardinality({Outcome(a) : a \in c.matrix}) <= SampleLimit
      PROVE  {Outcome(a) : a \in c.samples} = {Outcome(a) : a \in c.matrix}
  <2>1. c.matrix \subseteq A /\ c.samples = SelectSamples(c.matrix)
    BY CardsPart
  <2>2. IsFiniteSet(c.matrix)
    BY <1>2, <2>1, FS_Subset
  <2> QED
    BY <1>4, <2>1, <2>2, SamplesShown
<1>5. ASSUME NEW h \in hosts, NEW x \in graphs[h].candidates
      PROVE  \/ \E e \in graphs[h].entries : e.concept = x.concept /\ e.id \in {x.id, <<x.concept, "composition">>}
             \/ \E c \in Group(A) : \E a \in c.matrix : a.sig.host = h /\ a.sig.entity = <<x.concept, x.id>>
  <2>1. graphs[h] = ComputeEffectiveGraph(h, found[h], packs[h], NoOptions) /\ found[h] \in ObservationSets
    BY DEF GraphsOf
  <2> HIDE DEF graphs
  <2>2. x \in HostCandidates(h, found[h])
    BY <2>1, GraphOfParts
  <2>3. \/ \E e \in graphs[h].entries : e.concept = x.concept /\ e.id \in {x.id, <<x.concept, "composition">>}
        \/ Contested(graphs[h], x.concept, x.id)
    BY <2>1, <2>2, FilesOf, CandidateAnswered DEF Contested
  <2>4. ASSUME Contested(graphs[h], x.concept, x.id)
        PROVE  \E d \in Group(A) : \E a \in d.matrix : a.sig.host = h /\ a.sig.entity = <<x.concept, x.id>>
    <3>0. Told(A, h, x.concept, x.id)
      BY <2>4, ConflictAsserted DEF A, graphs
    <3>1. PICK a \in A : a.sig.host = h /\ a.sig.entity = <<x.concept, x.id>>
      BY <3>0 DEF Told
    <3>2. a \in UNION {d.matrix : d \in Group(A)}
      BY CardsPart
    <3> QED
      BY <3>1, <3>2
  <2> QED
    BY <2>3, <2>4
<1>6. DOMAIN graphs = hosts
  BY DEF GraphsOf
<1> HIDE DEF graphs
<1>7. (UNION {c.matrix : c \in artifact.cards}) = artifact.assertions
  BY <1>1, CardsPart
<1>8. \A c, d \in artifact.cards : c # d => c.key # d.key /\ c.matrix \cap d.matrix = {}
  BY <1>1, CardsPart
<1>9. \A c \in artifact.cards :
       /\ \A a \in c.matrix : a.category = c.category
       /\ LET seen(rows) == {Outcome(a) : a \in rows} IN
          Cardinality(seen(c.matrix)) <= SampleLimit => seen(c.samples) = seen(c.matrix)
  <2>1. \A c \in Group(A) : \A a \in c.matrix : a.category = c.category
    BY CardsPart
  <2> QED
    BY <1>1, <1>4, <2>1
<1>10. ASSUME NEW h \in hosts
       PROVE  AllSpoken(graphs[h], Group(A), h)
  <2> DEFINE g == graphs[h]
  <2>1. \A x \in g.candidates : Spoken(g, Group(A), h, x)
    BY <1>5 DEF Spoken
  <2> HIDE DEF g
  <2>2. AllSpoken(g, Group(A), h)
    BY <2>1 DEF Spoken, AllSpoken
  <2> QED
    BY <2>2 DEF g
<1>11. \A h \in DOMAIN artifact.graphs : AllSpoken(artifact.graphs[h], artifact.cards, h)
  BY <1>1, <1>6, <1>10
<1>12. \A c \in artifact.cards : \A a \in c.matrix :
         c.category = "EXCEPTION" <=> Excepted(a.sig, artifact.under, artifact.at)
  <2> SUFFICES ASSUME NEW c \in Group(A), NEW a \in c.matrix
               PROVE  c.category = "EXCEPTION" <=> Excepted(a.sig, docs, t)
    BY <1>1
  <2>1. a \in A /\ a.category = c.category
    BY CardsPart
  <2> QED
    BY <1>3, <2>1
<1> HIDE <1>1
<1> QED
  BY <1>7, <1>8, <1>9, <1>11, <1>12, Zenon DEF DriftAccounted, AllSpoken, Excepted

LEMMA NothingReported ==
  ASSUME artifact = NoReport
  PROVE  DriftAccounted /\ PlanesCorrelate
<1>1. artifact.assertions = {} /\ artifact.cards = {} /\ DOMAIN artifact.graphs = {}
  BY DEF NoReport
<1>2. (UNION {c.matrix : c \in artifact.cards}) = {}
  BY <1>1
<1> QED
  BY <1>1, <1>2 DEF DriftAccounted, PlanesCorrelate

\* No disagreement of an observed host's sources disappears from the report.
THEOREM DriftAccountedAlways == ReportSpec => []DriftAccounted
<1>1. ReportInv => DriftAccounted
  BY NothingReported, ReportAccounts DEF ReportInv, WasBuilt
<1> QED
  BY <1>1, ReportIsBuilt, PTL

\* What is in effect was observed, and the planes of a report can be compared.
THEOREM PlanesCorrelateAlways == ReportSpec => []PlanesCorrelate
<1>1. ASSUME NEW hosts \in SUBSET ReportHosts, NEW found \in [ReportHosts -> ObservationSets],
             NEW packs, NEW docs, NEW t, artifact = ReportOf(hosts, found, packs, docs, t)
      PROVE  PlanesCorrelate
  <2>1. artifact.graphs = GraphsOf(hosts, found, packs) /\ DOMAIN GraphsOf(hosts, found, packs) = hosts
    BY <1>1 DEF ReportOf, GraphsOf
  <2>2. ASSUME NEW h \in hosts
        PROVE  PlanesAgree(h, GraphsOf(hosts, found, packs)[h])
    <3>1. GraphsOf(hosts, found, packs)[h] = ComputeEffectiveGraph(h, found[h], packs[h], NoOptions)
      BY DEF GraphsOf
    <3> QED
      BY <3>1, FilesOf, PlanesOfGraph
  <2>3. \A h \in DOMAIN artifact.graphs : PlanesAgree(h, artifact.graphs[h])
    BY <2>1, <2>2
  <2> QED
    BY <2>3, Zenon DEF PlanesCorrelate, PlanesAgree
<1>2. ReportInv => PlanesCorrelate
  BY <1>1, NothingReported DEF ReportInv, WasBuilt
<1> QED
  BY <1>2, ReportIsBuilt, PTL

-----------------------------------------------------------------------------
(* What qualifying a concept changes.                                       *)

Evident(cs) == \A c \in cs : c.level \in Levels
\* Nothing that was qualified stops being so.
Qualifies(pk, pk2) == \A k : CapabilityQualified(pk, k) => CapabilityQualified(pk2, k)

LEMMA MaxOfLevels ==
  ASSUME NEW S \in SUBSET Levels, S # {}
  PROVE  MaxOf(S) \in S /\ \A y \in S : y <= MaxOf(S)
<1> DEFINE T == {5 - x : x \in S}
<1>1. T \in SUBSET Nat /\ T # {}
  <2>1. \A x \in S : 5 - x \in Nat
    BY DEF Levels
  <2> QED
    BY <2>1
<1>2. PICK n \in T : \A m \in T : n <= m
  BY <1>1, LeastNat
<1>3. PICK x \in S : n = 5 - x
  BY <1>2
<1>4. \A y \in S : y <= x
  BY <1>2, <1>3 DEF Levels
<1> QED
  BY <1>4 DEF MaxOf

LEMMA EvidenceLevel ==
  ASSUME NEW cs, Evident(cs)
  PROVE  HighestEvidence(cs) \in Levels
<1> DEFINE S == {c.level : c \in cs} \cup {0}
<1>1. S \in SUBSET Levels /\ S # {}
  BY DEF Evident, Levels
<1>2. MaxOf(S) \in S
  BY <1>1, MaxOfLevels
<1> QED
  BY <1>1, <1>2 DEF HighestEvidence

LEMMA CeilingLevel ==
  ASSUME NEW host, NEW concept
  PROVE  CeilingFor(host, concept) \in Levels
<1> DEFINE of == {c \in Ceilings : c.host = host /\ c.concept = concept}
<1>1. CASE of = {}
  BY <1>1 DEF CeilingFor, Levels, Parsed
<1>2. CASE of # {}
  <2>1. (CHOOSE c \in of : TRUE) \in Ceilings
    BY <1>2
  <2> QED
    BY <1>2, <2>1, GraphAssumption DEF CeilingFor
<1> QED
  BY <1>1, <1>2

LEMMA ClampGrows ==
  ASSUME NEW host, NEW concept, NEW l \in Levels, NEW m \in Levels, l <= m
  PROVE  /\ ClampToCeiling(host, concept, l) \in Levels /\ ClampToCeiling(host, concept, m) \in Levels
         /\ ClampToCeiling(host, concept, l) <= ClampToCeiling(host, concept, m)
BY CeilingLevel DEF ClampToCeiling, Levels

\* A qualified run raises what an entry proves, if it changes it.
LEMMA ProvedGrows ==
  ASSUME NEW g, Evident(g.candidates), NEW operator, NEW selected, NEW selected2, NEW active, NEW ignored,
         NEW confirmed, NEW confirmed2, NEW host, NEW pk, NEW pk2, Qualifies(pk, pk2)
  PROVE  LET e == Entry(g, operator, selected, active, ignored, confirmed)
             f == Entry(g, operator, selected2, active, ignored, confirmed2)
         IN /\ Proved(host, e, pk) \in Levels /\ Proved(host, f, pk2) \in Levels
            /\ Proved(host, e, pk) <= Proved(host, f, pk2)
<1> DEFINE e == Entry(g, operator, selected, active, ignored, confirmed)
           f == Entry(g, operator, selected2, active, ignored, confirmed2)
           level == HighestEvidence(g.candidates)
           raised == MaxOf({level, Resolved})
           ran(p) == CapabilityQualified(p, g.concept) /\ operator # "none"
           shown(p) == ClampToCeiling(host, g.concept, IF ran(p) THEN raised ELSE level)
<1>1. /\ e.conflict = FALSE /\ e.concept = g.concept /\ e.level = level /\ e.operator = operator
      /\ f.conflict = FALSE /\ f.concept = g.concept /\ f.level = level /\ f.operator = operator
  BY DEF Entry
<1>2. Proved(host, e, pk) = shown(pk) /\ Proved(host, f, pk2) = shown(pk2)
  BY <1>1 DEF Proved
<1>3. level \in Levels
  BY EvidenceLevel
<1>4. raised \in Levels /\ level <= raised
  <2>1. {level, Resolved} \in SUBSET Levels
    BY <1>3 DEF Resolved, Levels
  <2> HIDE DEF level
  <2> QED
    BY <2>1, MaxOfLevels
<1>5. ran(pk) => ran(pk2)
  BY DEF Qualifies
<1> HIDE DEF level, raised, ran, e, f
<1>6. level <= level /\ raised <= raised
  BY <1>3, <1>4 DEF Levels
<1>7. shown(pk) \in Levels /\ shown(pk2) \in Levels /\ shown(pk) <= shown(pk2)
  BY <1>3, <1>4, <1>5, <1>6, ClampGrows
<1> QED
  BY <1>2, <1>7 DEF e, f

LEMMA ProgramsDecide ==
  ASSUME NEW pk, NEW pk2, pk.programs = pk2.programs, NEW k
  PROVE  LookupProgram(pk, k) = LookupProgram(pk2, k) /\ Composes(pk, k) = Composes(pk2, k)
BY DEF LookupProgram, Composes

\* The gates come before the operators: an entry does not change.
LEMMA VerdictStays ==
  ASSUME NEW g, NEW pk, NEW pk2, NEW opts, pk.programs = pk2.programs, Qualifies(pk, pk2),
         ~\E operator, cause : ResolveGroup(g, pk, opts) = Conflict(g, operator, cause)
  PROVE  ResolveGroup(g, pk2, opts) = ResolveGroup(g, pk, opts)
<1> DEFINE program == LookupProgram(pk, g.concept)
           n == Cardinality(DistinctByContent(g.candidates))
           one == n = 1
           usable == Usable(program)
           q(p) == CapabilityQualified(p, g.concept)
           agreed == ResolveAgreeing(g, opts)
           none == Conflict(g, program.operator, <<"no program", g.concept, n>>)
           open == Conflict(g, program.operator, <<"unqualified", g.concept, n>>)
           applied == ApplyOperator(g, program.operator, opts)
           v(p) == ResolveGroup(g, p, opts)
<1>1. program = LookupProgram(pk2, g.concept)
  BY ProgramsDecide
<1>2. v(pk) = CASE one -> agreed [] ~one /\ ~usable -> none [] ~one /\ usable /\ ~q(pk) -> open [] OTHER -> applied
  BY DEF ResolveGroup
<1>3. v(pk2) = CASE one -> agreed [] ~one /\ ~usable -> none [] ~one /\ usable /\ ~q(pk2) -> open [] OTHER -> applied
  <2> HIDE DEF program
  <2>1. v(pk2) = LET program2 == LookupProgram(pk2, g.concept) IN
          CASE n = 1 -> ResolveAgreeing(g, opts)
            [] n # 1 /\ ~Usable(program2) -> Conflict(g, program2.operator, <<"no program", g.concept, n>>)
            [] n # 1 /\ Usable(program2) /\ ~CapabilityQualified(pk2, g.concept) ->
                 Conflict(g, program2.operator, <<"unqualified", g.concept, n>>)
            [] OTHER -> ApplyOperator(g, program2.operator, opts)
    BY DEF ResolveGroup
  <2> QED
    BY <1>1, <2>1
<1>4. v(pk) # none /\ v(pk) # open
  OBVIOUS
<1>5. q(pk) => q(pk2)
  BY DEF Qualifies
<1> HIDE DEF program, n, one, usable, q, agreed, none, open, applied, v
<1>6. /\ one => v(pk) = agreed /\ v(pk2) = agreed
      /\ ~one /\ ~usable => v(pk) = none
      /\ ~one /\ usable /\ ~q(pk) => v(pk) = open
      /\ ~one /\ usable /\ q(pk) => v(pk) = applied
      /\ ~one /\ usable /\ q(pk2) => v(pk2) = applied
  BY <1>2, <1>3
<1>7. v(pk2) = v(pk)
  BY <1>4, <1>5, <1>6
<1> QED
  BY <1>7 DEF v

\* What f shows of a group is no less than what e showed.
Stays(e, f) ==
  /\ f.concept = e.concept /\ f.id = e.id /\ f.active = e.active /\ f.ignored = e.ignored
  /\ f.level >= e.level /\ (e.confirmed => f.confirmed)

LEMMA EntryStays ==
  ASSUME NEW g, Evident(g.candidates), NEW operator, NEW selected, NEW selected2, NEW active, NEW ignored,
         NEW confirmed, NEW confirmed2, confirmed => confirmed2,
         NEW host, NEW pk, NEW pk2, Qualifies(pk, pk2)
  PROVE  Stays(VerifyEntry(host, Entry(g, operator, selected, active, ignored, confirmed), pk),
               VerifyEntry(host, Entry(g, operator, selected2, active, ignored, confirmed2), pk2))
<1> DEFINE e0 == Entry(g, operator, selected, active, ignored, confirmed)
           f0 == Entry(g, operator, selected2, active, ignored, confirmed2)
           e == VerifyEntry(host, e0, pk)
           f == VerifyEntry(host, f0, pk2)
           l == Proved(host, e0, pk)
           m == Proved(host, f0, pk2)
<1>1. Answers(e, g, active, ignored, l, confirmed) /\ Answers(f, g, active, ignored, m, confirmed2)
  BY VerifiedEntry
<1>2. l \in Levels /\ m \in Levels /\ l <= m
  BY ProvedGrows
<1> HIDE DEF e, f, l, m
<1>3. Stays(e, f)
  <2>1. f.concept = e.concept /\ f.id = e.id /\ f.active = e.active /\ f.ignored = e.ignored
    BY <1>1 DEF Answers
  <2>2. f.level = m /\ e.level = l
    BY <1>1 DEF Answers
  <2>3. m >= l
    BY <1>2 DEF Levels
  <2>4. l >= HostReported => m >= HostReported
    BY <1>2 DEF Levels, HostReported
  <2>5. e.confirmed = (confirmed /\ l >= HostReported) /\ f.confirmed = (confirmed2 /\ m >= HostReported)
    BY <1>1 DEF Answers
  <2>6. e.confirmed => f.confirmed
    BY <2>4, <2>5
  <2> QED
    BY <2>1, <2>2, <2>3, <2>6 DEF Stays
<1> QED
  BY <1>3 DEF e, f

\* An entry of a graph stays when packs of the same programs qualify more.
LEMMA GraphStays ==
  ASSUME NEW host, NEW found, Files(found), NEW pk, NEW pk2, NEW opts,
         pk.programs = pk2.programs, Qualifies(pk, pk2),
         NEW e \in ComputeEffectiveGraph(host, found, pk, opts).entries
  PROVE  \E f \in ComputeEffectiveGraph(host, found, pk2, opts).entries : Stays(e, f)
<1> DEFINE cs == HostCandidates(host, found)
           after == ComputeEffectiveGraph(host, found, pk2, opts)
           composed(p) == {ComposeConcept(k, OfConcept(cs, k), p, opts) :
                             k \in {k \in {c.concept : c \in cs} : Composes(p, k)}}
           verdicts(p) == Verdicts(host, found, p, opts)
<1>1. \/ \E v \in verdicts(pk) : e = VerifyEntry(host, v, pk)
      \/ \E v \in composed(pk) : e = VerifyEntry(host, v, pk)
  <2> DEFINE all == {VerifyEntry(host, v, pk) : v \in verdicts(pk) \cup composed(pk)}
  <2>1. e \in all
    BY GraphOfParts
  <2> HIDE DEF verdicts, composed
  <2> QED
    BY <2>1
<1>2. ~e.conflict
  BY GraphOfParts
<1>3. ASSUME NEW v \in verdicts(pk2) \cup composed(pk2), VerifyEntry(host, v, pk2).conflict = FALSE
      PROVE  VerifyEntry(host, v, pk2) \in after.entries
  <2> DEFINE all == {VerifyEntry(host, w, pk2) : w \in verdicts(pk2) \cup composed(pk2)}
  <2>1. after.entries = {w \in all : ~w.conflict}
    BY GraphOfParts
  <2> HIDE DEF verdicts, composed, after
  <2>2. VerifyEntry(host, v, pk2) \in all
    BY <1>3
  <2> HIDE DEF all
  <2> QED
    BY <1>3, <2>1, <2>2
<1>4. \A k : Composes(pk, k) = Composes(pk2, k)
  BY ProgramsDecide
<1> HIDE DEF after
<1>5. ASSUME NEW v \in verdicts(pk), e = VerifyEntry(host, v, pk)
      PROVE  \E f \in after.entries : Stays(e, f)
  <2>1. PICK g \in MatchIdentities(cs) : v = ResolveGroup(g, pk, opts) /\ ~Composes(pk, g.concept)
    BY DEF Verdicts
  <2>2. Placed(g.candidates) /\ Evident(g.candidates)
    BY GroupPlaced DEF Evident, Refers
  <2>3. ~\E operator, cause : v = Conflict(g, operator, cause)
    <3>1. ~Contests(e, g)
      BY <1>2 DEF Contests
    <3> QED
      BY <1>5, <3>1, VerifiedConflict
  <2>4. ResolveGroup(g, pk2, opts) = v
    BY <2>1, <2>3, VerdictStays
  <2>5. v \in verdicts(pk2)
    BY <1>4, <2>1, <2>4 DEF Verdicts
  <2>6. IsVerdict(v, g)
    BY <2>1, <2>2, GroupVerdict
  <2>7. PICK operator, selected, active, ignored, confirmed :
          v = Entry(g, operator, selected, active, ignored, confirmed)
    BY <2>3, <2>6 DEF IsVerdict
  <2> DEFINE f == VerifyEntry(host, v, pk2)
  <2>8. Stays(e, f)
    BY <1>5, <2>2, <2>7, EntryStays
  <2>9. f.conflict = FALSE
    <3>1. \E level : Answers(f, g, active, ignored, level, confirmed)
      BY <2>7, VerifiedEntry
    <3> QED
      BY <3>1 DEF Answers
  <2> QED
    BY <1>3, <2>5, <2>8, <2>9
<1>6. ASSUME NEW v \in composed(pk), e = VerifyEntry(host, v, pk)
      PROVE  \E f \in after.entries : Stays(e, f)
  <2>1. PICK k \in {c.concept : c \in cs} : Composes(pk, k) /\ v = ComposeConcept(k, OfConcept(cs, k), pk, opts)
    OBVIOUS
  <2> DEFINE own == OfConcept(cs, k)
             g == Composition(k, own)
             known(p) == OrderKnown(own, opts.rank) /\ CapabilityQualified(p, k)
             selected(p) == IF known(p) THEN Combined ELSE Nothing
             confirmed(p) == known(p) /\ Reported(own)
             w == ComposeConcept(k, own, pk2, opts)
             f == VerifyEntry(host, w, pk2)
  <2>2. /\ v = Entry(g, "CONCAT_ORDERED", selected(pk), own, {}, confirmed(pk))
        /\ w = Entry(g, "CONCAT_ORDERED", selected(pk2), own, {}, confirmed(pk2))
    BY <2>1, Zenon DEF ComposeConcept, Composition
  <2>3. confirmed(pk) => confirmed(pk2)
    BY DEF Qualifies
  <2>4. Evident(g.candidates)
    <3>1. g.candidates = own
      BY DEF Composition
    <3>2. \A c \in own : c \in cs
      BY DEF OfConcept
    <3> QED
      BY <3>1, <3>2, CandidatesOf DEF Evident, Refers
  <2>5. w \in composed(pk2)
    BY <1>4, <2>1
  <2> HIDE DEF own, g, selected, confirmed, w
  <2>6. Stays(e, f)
    BY <1>6, <2>2, <2>3, <2>4, EntryStays
  <2>7. f.conflict = FALSE
    <3>1. \E level : Answers(f, g, own, {}, level, confirmed(pk2))
      BY <2>2, VerifiedEntry
    <3> QED
      BY <3>1 DEF Answers
  <2> QED
    BY <1>3, <2>5, <2>6, <2>7
<1> QED
  BY <1>1, <1>5, <1>6 DEF after

\* Qualifying a concept decides what was open and changes nothing decided.
THEOREM QualifyingAlways == ReportSpec => QualifyingOnlyDecides
<1>1. ASSUME ReportInv, [ReportNext]_reportVars
      PROVE  [\A h \in installed \cap installed' :
                observed'[h] = observed[h] /\ pack'[h] # pack[h] /\ pack'[h].programs = pack[h].programs
                  /\ (\A c \in DOMAIN pack[h].resolve :
                        CapabilityQualified(pack[h], c) => CapabilityQualified(pack'[h], c))
                  => \A opts \in MergeOptions : DecidedStays(GraphOf(h, opts), GraphOf(h, opts)')]_reportVars
  <2> SUFFICES ASSUME NEW h \in installed \cap installed', observed'[h] = observed[h],
                      pack'[h].programs = pack[h].programs,
                      \A c \in DOMAIN pack[h].resolve :
                        CapabilityQualified(pack[h], c) => CapabilityQualified(pack'[h], c),
                      NEW opts \in MergeOptions
               PROVE  DecidedStays(GraphOf(h, opts), GraphOf(h, opts)')
    OBVIOUS
  <2> DEFINE before == ComputeEffectiveGraph(h, observed[h], pack[h], opts)
             after == ComputeEffectiveGraph(h, observed[h], pack'[h], opts)
  <2>1. Files(observed[h])
    BY <1>1, FilesOf DEF ReportInv
  <2>2. Qualifies(pack[h], pack'[h])
    BY DEF Qualifies, CapabilityQualified
  <2>3. \A e \in before.entries : \E f \in after.entries : Stays(e, f)
    BY <2>1, <2>2, GraphStays
  <2>4. GraphOf(h, opts) = before /\ GraphOf(h, opts)' = after
    BY DEF GraphOf
  <2> HIDE DEF before, after
  <2>5. DecidedStays(before, after)
    BY <2>3 DEF Stays, DecidedStays
  <2> QED
    BY <2>4, <2>5
<1> QED
  BY <1>1, ReportIsBuilt, PTL DEF ReportSpec, QualifyingOnlyDecides
=============================================================================
