-------------------------- MODULE KnowledgeUpdate --------------------------
(***************************************************************************)
(* Host knowledge: which published pack qualifies a detected version, and  *)
(* the `omca knowledge poll` and `omca knowledge propose` commands, which  *)
(* compare the official sources with the packs built into the binary and   *)
(* turn a difference into a branch and a pull request (internal/knowledge, *)
(* cmd/omca/knowledge.go).                                                 *)
(*                                                                         *)
(* One host.  A clone is a checkout somebody runs the commands in; all of  *)
(* them push to one remote.  Documents are abstract contents, compared by  *)
(* digest; versions are naturals in semver order; a pack's id is its rank  *)
(* in the lexical order of ids, which need not be the order of versions.   *)
(***************************************************************************)
EXTENDS Naturals, Sequences, FiniteSets

CONSTANTS
  SourceOrder,   \* the host's allowlisted sources, in the order they are polled
  Contents,      \* what an official document may say
  NoDigest,      \* evidence without a digest, or no evidence for the source
  Clones,        \* checkouts the commands run in
  Versions,      \* host versions, in semver order
  Ranges,        \* version ranges packs may declare: sets of terms
  PackIds,       \* lexical ranks of pack ids
  NoBranch,      \* a branch that does not exist
  OnlyBase,      \* a branch created from the base and not yet committed to
  MaxTime,       \* bound on the clock, in seconds
  MaxPacks       \* bound on the packs ever published

VARIABLES
  upstream,      \* what each official source says now
  published,     \* the packs under knowledge/hosts/ on the base branch
  embedded,      \* the packs built into the binary
  now,           \* the clock, in seconds
  job,           \* the command each clone runs
  local,         \* candidate branches of each clone
  remote,        \* candidate branches of the remote
  pulls          \* the pull requests

vars == <<upstream, published, embedded, now, job, local, remote, pulls>>
repository == <<published, embedded>>
git == <<local, remote, pulls>>

Sources == {SourceOrder[i] : i \in DOMAIN SourceOrder}
Times == 0..MaxTime
Statuses == {"FRESH", "SUPERSEDED", "RETIRED"}
Packs == [id : PackIds, range : Ranges, digest : [Sources -> Contents \cup {NoDigest}],
          status : Statuses]
Changes == [source : Sources, old : Contents, new : Contents]
Candidates == [at : Times, changed : SUBSET Changes, fixtures : {"NOT_RUN", "PASS", "FAIL"}]
Branches == Candidates \cup {NoBranch, OnlyBase}

ASSUME KnowledgeAssumption ==
  /\ SourceOrder \in Seq(Sources) /\ MaxTime \in Nat
  /\ \A ids \in SUBSET PackIds : ids # {} => \E last \in ids : \A i \in ids : i <= last
  /\ NoBranch \notin Candidates /\ OnlyBase \notin Candidates /\ NoBranch # OnlyBase

----------------------------------------------------------------------------
(* Loading and resolving                                                   *)

\* One comparator term against a version.
Meets(v, term) ==
  \/ term.op = ">=" /\ v >= term.version
  \/ term.op = "<=" /\ v <= term.version
  \/ term.op = ">" /\ v > term.version
  \/ term.op = "<" /\ v < term.version
  \/ term.op = "=" /\ v = term.version

VersionSatisfiesRange(v, range) == \A term \in range : Meets(v, term)

\* A duplicate id fails the whole load.
Loads(packs) == \A p, q \in packs : p.id = q.id => p = q

Matching(packs, v) == {p \in packs : VersionSatisfiesRange(v, p.range)}

\* The packs a version is qualified by: the only match, or none.
Resolve(packs, v) ==
  IF Cardinality(Matching(packs, v)) = 1 THEN Matching(packs, v) ELSE {}

\* The pack whose evidence a poll compares with: the one with the last id.
PackForHost(packs) == {p \in packs : \A q \in packs : q.id <= p.id}

\* What the compared pack recorded for a source.
EvidenceDigest(packs, s) ==
  IF packs = {} THEN NoDigest ELSE (CHOOSE p \in PackForHost(packs) : TRUE).digest[s]

----------------------------------------------------------------------------
(* Commands                                                                *)

\* No command runs.  While one does, baseline is what the packs loaded at its
\* start recorded, left the sources still to be polled, cand the candidate.
Idle == [pc |-> "idle", command |-> "poll", left |-> <<>>,
         baseline |-> [s \in Sources |-> NoDigest],
         cand |-> [at |-> 0, changed |-> {}, fixtures |-> "NOT_RUN"]]

Goto(c, pc) == job' = [job EXCEPT ![c].pc = pc]
At(c, pc) == job[c].pc = pc

\* The command ends: refused, failed, with nothing to tell, or done.
Finish(c) == job' = [job EXCEPT ![c] = Idle]

\* A command loads the embedded packs, or ends, and reads the clock once,
\* before it polls.
StartCommand(c, command) ==
  /\ At(c, "idle")
  /\ job' = [job EXCEPT ![c] =
       IF Loads(embedded)
       THEN [Idle EXCEPT !.pc = "polling", !.command = command, !.left = SourceOrder,
                         !.baseline = [s \in Sources |-> EvidenceDigest(embedded, s)],
                         !.cand.at = now]
       ELSE Idle]
  /\ UNCHANGED <<upstream, repository, now, git>>

\* One source is fetched and compared; no baseline means no change.  A fetch
\* that fails, or runs into the host's timeout, ends the command.
PollSource(c) ==
  /\ At(c, "polling") /\ job[c].left # <<>>
  /\ LET s == Head(job[c].left)
         old == job[c].baseline[s]
         seen == IF old \in {NoDigest, upstream[s]} THEN {}
                 ELSE {[source |-> s, old |-> old, new |-> upstream[s]]}
     IN \/ job' = [job EXCEPT ![c].left = Tail(@), ![c].cand.changed = @ \cup seen]
        \/ Finish(c)
  /\ UNCHANGED <<upstream, repository, now, git>>

\* Nothing changed: no candidate.  `poll` prints the candidate, `propose` goes on.
PollEnds(c) ==
  /\ At(c, "polling") /\ job[c].left = <<>>
  /\ IF job[c].cand.changed = {} \/ job[c].command = "poll"
     THEN Finish(c) ELSE Goto(c, "fixtures")
  /\ UNCHANGED <<upstream, repository, now, git>>

\* Failing tests are a result; a run without results ends the command.
RunFixtures(c) ==
  /\ At(c, "fixtures")
  /\ \/ \E result \in {"PASS", "FAIL"} :
          job' = [job EXCEPT ![c].cand.fixtures = result, ![c].pc = "worktree"]
     \/ Finish(c)
  /\ UNCHANGED <<upstream, repository, now, git>>

\* Branches are named by the candidate's id, whose only varying part is the
\* second it was collected in.
BranchName(cand) == cand.at

\* `git worktree add -b`: refuses a branch that exists in this clone.
AddWorktree(c) ==
  /\ At(c, "worktree")
  /\ LET b == BranchName(job[c].cand)
     IN \/ /\ local[c][b] = NoBranch
           /\ local' = [local EXCEPT ![c][b] = OnlyBase]
           /\ Goto(c, "commit")
        \/ Finish(c) /\ UNCHANGED local
  /\ UNCHANGED <<upstream, repository, now, remote, pulls>>

\* The report is written, added and committed.  A failure removes the
\* worktree and leaves the branch.
CommitReport(c) ==
  /\ At(c, "commit")
  /\ \/ /\ local' = [local EXCEPT ![c][BranchName(job[c].cand)] = job[c].cand]
        /\ Goto(c, "push")
     \/ Finish(c) /\ UNCHANGED local
  /\ UNCHANGED <<upstream, repository, now, remote, pulls>>

\* Mutant: pushing with --force.
PushForce(c) ==
  /\ At(c, "push")
  /\ LET b == BranchName(job[c].cand)
     IN \/ /\ remote' = [remote EXCEPT ![b] = local[c][b]]
           /\ \/ Goto(c, "open")
              \/ Finish(c)
        \/ Finish(c) /\ UNCHANGED remote
  /\ UNCHANGED <<upstream, repository, now, local, pulls>>

\* `git push` without --force: a remote branch of another commit refuses it.
\* The push may take effect although the command sees it fail or time out.
Push(c) ==
  /\ At(c, "push")
  /\ LET b == BranchName(job[c].cand)
         accepted == remote[b] \in {NoBranch, local[c][b]}
     IN \/ /\ accepted
           /\ remote' = [remote EXCEPT ![b] = local[c][b]]
           /\ \/ Goto(c, "open")
              \/ Finish(c)
        \/ Finish(c) /\ UNCHANGED remote
  /\ UNCHANGED <<upstream, repository, now, local, pulls>>

\* `gh pr create`: refuses a branch that has a pull request; its answer may
\* be lost as well.
OpenPullRequest(c) ==
  /\ At(c, "open")
  /\ LET b == BranchName(job[c].cand)
     IN \/ /\ \A pr \in pulls : pr.branch # b
           /\ pulls' = pulls \cup {[branch |-> b, told |-> job[c].cand]}
           /\ Finish(c)
        \/ Finish(c) /\ UNCHANGED pulls
  /\ UNCHANGED <<upstream, repository, now, local, remote>>

\* The process is killed: nothing deferred runs.
Kill(c) ==
  /\ ~At(c, "idle")
  /\ Finish(c)
  /\ UNCHANGED <<upstream, repository, now, git>>

----------------------------------------------------------------------------
(* Outside the program                                                     *)

ChangeUpstream(s, content) ==
  /\ upstream' = [upstream EXCEPT ![s] = content]
  /\ UNCHANGED <<repository, now, job, git>>

Tick ==
  /\ now < MaxTime
  /\ now' = now + 1
  /\ UNCHANGED <<upstream, repository, job, git>>

\* A maintainer publishes a pack whose evidence cites some of the sources as
\* they are now.
Publish(id, range, cited) ==
  /\ Cardinality(published) < MaxPacks
  /\ published' = published \cup
       {[id |-> id, range |-> range, status |-> "FRESH",
         digest |-> [s \in Sources |-> IF s \in cited THEN upstream[s] ELSE NoDigest]]}
  /\ UNCHANGED <<upstream, embedded, now, job, git>>

\* A correction: a new pack for the same range, the old one marked superseded.
Correct(old, id) ==
  /\ Cardinality(published) < MaxPacks
  /\ old.status = "FRESH"
  /\ published' = (published \ {old}) \cup
       {[old EXCEPT !.status = "SUPERSEDED"],
        [old EXCEPT !.id = id, !.digest = [s \in Sources |-> upstream[s]]]}
  /\ UNCHANGED <<upstream, embedded, now, job, git>>

Retire(old) ==
  /\ published' = (published \ {old}) \cup {[old EXCEPT !.status = "RETIRED"]}
  /\ UNCHANGED <<upstream, embedded, now, job, git>>

\* The binary is built from the base branch and installed.
Rebuild ==
  /\ embedded' = published
  /\ UNCHANGED <<upstream, published, now, job, git>>

----------------------------------------------------------------------------
Init ==
  /\ upstream \in [Sources -> Contents]
  /\ published \in {{}} \cup {{p} : p \in {q \in Packs : q.status = "FRESH"}}
  /\ embedded = published
  /\ now = 0
  /\ job = [c \in Clones |-> Idle]
  /\ local = [c \in Clones |-> [t \in Times |-> NoBranch]]
  /\ remote = [t \in Times |-> NoBranch]
  /\ pulls = {}

CommandStep(c) ==
  \/ \E command \in {"poll", "propose"} : StartCommand(c, command)
  \/ PollSource(c) \/ PollEnds(c) \/ RunFixtures(c)
  \/ AddWorktree(c) \/ CommitReport(c) \/ Push(c) \/ OpenPullRequest(c)
  \/ Kill(c)

Maintain ==
  \/ \E id \in PackIds, range \in Ranges, cited \in SUBSET Sources : Publish(id, range, cited)
  \/ \E old \in published, id \in PackIds : Correct(old, id)
  \/ \E old \in published : Retire(old)
  \/ Rebuild

Next ==
  \/ \E c \in Clones : CommandStep(c)
  \/ \E s \in Sources, content \in Contents : ChangeUpstream(s, content)
  \/ Tick
  \/ Maintain

Spec == Init /\ [][Next]_vars

----------------------------------------------------------------------------
(* Properties                                                              *)

\* The branch of a pull request holds the report its title and body were
\* written from, whatever other clones proposed in the same second, whatever
\* answers were lost and wherever a proposal was cut off (ProposeCandidatePR).
PullRequestTellsBranch == \A pr \in pulls : remote[pr.branch] = pr.told

\* "A newer Pack replaces this one": a version that exactly one pack covers,
\* those superseded or retired left out, is qualified by that pack
\* (docs/knowledge/README.md, 7; Repository.Resolve).
SupersededReplaced ==
  \A v \in Versions :
    LET usable == {p \in Matching(embedded, v) : p.status = "FRESH"}
    IN Cardinality(usable) = 1 => Resolve(embedded, v) = usable

=============================================================================
