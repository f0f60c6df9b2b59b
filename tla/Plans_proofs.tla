---------------------------- MODULE Plans_proofs ----------------------------
(***************************************************************************)
(* How a release gets its scope, for any number of releases, proposals,    *)
(* edits and stages: what an approval leaves behind agrees, and the plan   *)
(* file carries out every stage once, as it was locked.                    *)
(***************************************************************************)
EXTENDS ShippingPlan, Proposals, SequenceTheorems, WellFoundedInduction, TLAPS

-----------------------------------------------------------------------------
(* Proposals: what an approval has written so far. *)

\* One person approves at a time.
LoneOwner == \A s, t \in Owners : s = t

IsJob(j) == j = [op |-> j.op, at |-> j.at, made |-> j.made, old |-> j.old]

JobsAreSound ==
  /\ DOMAIN job = Sessions /\ \A s \in Sessions : IsJob(job[s])
  /\ status = [state |-> status.state, approved |-> status.approved]
  /\ \A s \in Owners : job[s].op \in {"idle", "approve"}
  /\ \A s \in Sessions : job[s].op = "approve" => s \in Owners

\* While the release is a draft still, nobody else wrote what the approval wrote, unless
\* the draft is another one by now: then its scope is empty, and its lock is gone.
ApprovalSoFar(s) ==
  LET m == job[s].made IN
  job[s].op = "approve" /\ status.state = "DRAFT" =>
    /\ job[s].at = "lock" => scope \in {Null, Body(m)}
    /\ ~overtaken =>
         /\ job[s].at \in {"train", "charter", "state"} => frozen = [scope |-> Body(m), sha |-> m.sha]
         /\ job[s].at \in {"charter", "state"} => train = Body(m)
         /\ job[s].at = "state" => charter = Body(m)

\* After an approval its session has only the proposal left to write.
OnlyMarks(s) == job[s].op = "approve" => job[s].at \in {"mark", "reindex"}

Approved == status.state = "LOCKED" /\ status.approved # Null

ApprovalInv ==
  /\ JobsAreSound
  /\ \A s \in Owners : ApprovalSoFar(s)
  /\ Approved => \A s \in Owners : OnlyMarks(s)
  /\ LockedIsApproved

LEMMA ApprovalInvInitially == ProposalInit => ApprovalInv
<1> SUFFICES ASSUME ProposalInit PROVE ApprovalInv
  OBVIOUS
<1>1. DOMAIN job = Sessions /\ \A s \in Sessions : job[s] = Calm
  BY DEF ProposalInit
<1>2. IsJob(Calm) /\ Calm.op = "idle" /\ Owners \subseteq Sessions
  BY DEF IsJob, Calm, Sessions
<1>3. status.state = "DRAFT" /\ status = [state |-> status.state, approved |-> status.approved]
  BY DEF ProposalInit
<1>4. JobsAreSound
  BY <1>1, <1>2, <1>3 DEF JobsAreSound
<1> QED BY <1>1, <1>2, <1>3, <1>4 DEF ApprovalInv, ApprovalSoFar, Approved, LockedIsApproved

\* A session's turn to another step, and its end.
LEMMA JobTurns ==
  ASSUME JobsAreSound, NEW s \in Sessions, NEW step, Turns(s, step)
  PROVE  /\ DOMAIN job' = Sessions /\ \A t \in Sessions : IsJob(job'[t])
         /\ \A t \in Sessions \ {s} : job'[t] = job[t]
         /\ job'[s].at = step /\ job'[s].op = job[s].op /\ job'[s].made = job[s].made
<1>1. /\ DOMAIN job' = Sessions /\ job'[s] = [job[s] EXCEPT !.at = step]
      /\ \A t \in Sessions \ {s} : job'[t] = job[t]
  BY DEF JobsAreSound, Turns
<1>2. IsJob(job[s])
  BY DEF JobsAreSound
<1>3. /\ IsJob(job'[s]) /\ job'[s].at = step /\ job'[s].op = job[s].op
      /\ job'[s].made = job[s].made
  BY <1>1, <1>2 DEF IsJob
<1> QED BY <1>1, <1>3 DEF JobsAreSound

LEMMA JobEnds ==
  ASSUME JobsAreSound, NEW s \in Sessions, Rests(s)
  PROVE  /\ DOMAIN job' = Sessions /\ \A t \in Sessions : IsJob(job'[t])
         /\ \A t \in Sessions \ {s} : job'[t] = job[t]
         /\ job'[s] = Calm /\ job'[s].op = "idle"
BY DEF JobsAreSound, Rests, Calm, IsJob

\* What leaves lock, train, charter and the owners' jobs alone.
LEMMA OwnersUntouched ==
  ASSUME ApprovalInv, UNCHANGED <<lockVars, overtaken>>,
         DOMAIN job' = Sessions, \A s \in Sessions : IsJob(job'[s]),
         \A s \in Owners : job'[s] = job[s],
         \A s \in Sessions : job'[s].op = "approve" => job[s].op = "approve"
  PROVE  ApprovalInv'
<1>1. JobsAreSound'
  BY DEF ApprovalInv, JobsAreSound, lockVars
<1>2. \A s \in Owners : ApprovalSoFar(s)' /\ (OnlyMarks(s)' <=> OnlyMarks(s))
  BY DEF ApprovalInv, ApprovalSoFar, OnlyMarks, lockVars, Body
<1>3. LockedIsApproved' /\ (Approved' <=> Approved)
  BY DEF ApprovalInv, LockedIsApproved, Approved, lockVars
<1> QED BY <1>1, <1>2, <1>3 DEF ApprovalInv

\* The sessions that create and refine, and the tree.
LEMMA HostSteps ==
  ASSUME ApprovalInv,
         \/ ChangeFile \/ CommitFiles \/ Expire \/ RemoveGuard
         \/ \E s \in Sessions :
              \/ CreateCommits(s) \/ CreateAsIs(s) \/ Analyse(s) \/ Supersede(s) \/ WriteProposal(s)
              \/ WriteIndex(s) \/ RecordDiscovery(s) \/ Refine(s) \/ Archive(s)
  PROVE  ApprovalInv'
<1>0. JobsAreSound /\ Owners \subseteq Sessions
  BY DEF ApprovalInv, Sessions
<1>1. CASE ChangeFile \/ CommitFiles \/ Expire \/ RemoveGuard
  <2>1. UNCHANGED <<lockVars, overtaken, job>>
    BY <1>1 DEF ChangeFile, CommitFiles, Expire, RemoveGuard, asideVars
  <2> QED BY <1>0, <2>1, OwnersUntouched DEF JobsAreSound
<1>2. ASSUME NEW s \in Sessions,
             \/ CreateCommits(s) \/ CreateAsIs(s) \/ Analyse(s) \/ Supersede(s) \/ WriteProposal(s)
             \/ WriteIndex(s) \/ RecordDiscovery(s) \/ Refine(s) \/ Archive(s)
      PROVE  ApprovalInv'
  \* Enough: the session is not an owner's, and its job stays one of a host.
  <2>1. ASSUME s \notin Owners, UNCHANGED <<lockVars, overtaken>>, DOMAIN job' = Sessions,
               \A t \in Sessions \ {s} : job'[t] = job[t],
               IsJob(job'[s]), job'[s].op # "approve"
        PROVE  ApprovalInv'
    BY <1>0, <2>1, OwnersUntouched DEF JobsAreSound
  <2>2. UNCHANGED <<lockVars, overtaken>>
    BY <1>2 DEF CreateCommits, CreateAsIs, Analyse, Supersede, WriteProposal, WriteIndex,
                RecordDiscovery, Refine, Archive, asideVars
  <2>3. s \notin Owners
    <3>1. CASE s \in Hosts
      BY <3>1, ProposalAssumption
    <3>2. CASE job[s].op \in {"create", "refine"}
      BY <1>0, <3>2 DEF JobsAreSound
    <3> QED BY <1>2, <3>1, <3>2 DEF CreateCommits, CreateAsIs, Analyse, Supersede, WriteProposal,
                                    WriteIndex, RecordDiscovery, Refine, Archive, Does
  <2>4. job[s].op # "approve"
    BY <1>0, <2>3 DEF JobsAreSound
  <2>5. CASE Rests(s)
    BY <1>0, <2>1, <2>2, <2>3, <2>5, JobEnds
  <2>6. ASSUME NEW step, Turns(s, step) PROVE ApprovalInv'
    BY <1>0, <2>1, <2>2, <2>3, <2>4, <2>6, JobTurns
  <2>7. CASE Supersede(s) \/ WriteProposal(s) \/ WriteIndex(s) \/ RecordDiscovery(s) \/ Archive(s)
    BY <2>5, <2>6, <2>7 DEF Supersede, WriteProposal, WriteIndex, RecordDiscovery, Archive, ArchiveNow
  <2>8. CASE CreateCommits(s) \/ CreateAsIs(s)
    <3>1. job' = [job EXCEPT ![s] = [Calm EXCEPT !.op = "create", !.at = "analyse"]]
      BY <2>8 DEF CreateCommits, CreateAsIs
    <3>2. /\ DOMAIN job' = Sessions /\ \A t \in Sessions \ {s} : job'[t] = job[t]
          /\ job'[s] = [op |-> "create", at |-> "analyse", made |-> Null, old |-> Null]
      BY <1>0, <3>1 DEF JobsAreSound, Calm
    <3>3. IsJob(job'[s])
      BY <3>2 DEF IsJob
    <3>4. job'[s].op = "create"
      BY <3>2
    <3> QED BY <2>1, <2>2, <2>3, <3>2, <3>3, <3>4
  <2>9. CASE Refine(s)
    <3> PICK answers \in BOOLEAN :
           LET old == Indexed
               same == Analysed(old.id, old.rev, old.open /\ ~answers) IN
           job' = [job EXCEPT ![s] = [op |-> "refine", at |-> "archive", old |-> old,
                                      made |-> [same EXCEPT !.rev = old.rev + 1]]]
      BY <2>9 DEF Refine
    <3> DEFINE new == [op |-> "refine", at |-> "archive", old |-> Indexed,
                       made |-> [Analysed(Indexed.id, Indexed.rev, Indexed.open /\ ~answers)
                                   EXCEPT !.rev = Indexed.rev + 1]]
    <3>1. job' = [job EXCEPT ![s] = new]
      OBVIOUS
    <3>2. IsJob(new) /\ new.op = "refine"
      BY DEF IsJob
    <3> HIDE DEF new
    <3>3. DOMAIN job' = Sessions /\ job'[s] = new /\ \A t \in Sessions \ {s} : job'[t] = job[t]
      BY <1>0, <3>1 DEF JobsAreSound
    <3> QED BY <2>1, <2>2, <2>3, <3>2, <3>3
  <2>10. CASE Analyse(s)
    <3>1. CASE Rests(s)
      BY <2>5, <3>1
    <3>2. CASE ~Rests(s)
      <4> PICK open \in BOOLEAN :
             job' = [job EXCEPT
               ![s].made = Analysed(CHOOSE id \in Unused : \A u \in Unused : id <= u, 1, open),
               ![s].old = IF index # Null /\ ~Terminal(Indexed) THEN Indexed ELSE Null,
               ![s].at = IF index # Null /\ ~Terminal(Indexed) THEN "supersede" ELSE "write"]
        BY <2>10, <3>2 DEF Analyse
      <4> DEFINE made == Analysed(CHOOSE id \in Unused : \A u \in Unused : id <= u, 1, open)
                 old == IF index # Null /\ ~Terminal(Indexed) THEN Indexed ELSE Null
                 step == IF index # Null /\ ~Terminal(Indexed) THEN "supersede" ELSE "write"
      <4>0. job' = [job EXCEPT ![s].made = made, ![s].old = old, ![s].at = step]
        OBVIOUS
      <4> HIDE DEF made, old, step
      <4>1. /\ DOMAIN job' = Sessions /\ \A t \in Sessions \ {s} : job'[t] = job[t]
            /\ job'[s] = [job[s] EXCEPT !.made = made, !.old = old, !.at = step]
        BY <1>0, <4>0 DEF JobsAreSound
      <4>2. IsJob(job[s])
        BY <1>0 DEF JobsAreSound
      <4>3. IsJob(job'[s]) /\ job'[s].op = job[s].op
        BY <4>1, <4>2 DEF IsJob
      <4> QED BY <2>1, <2>2, <2>3, <2>4, <4>1, <4>3
    <3> QED BY <3>1, <3>2
  <2> QED BY <1>2, <2>7, <2>8, <2>9, <2>10
<1> QED BY <1>1, <1>2

\* The steps of an approval, and what may come between them.
LEMMA ApprovalSteps ==
  ASSUME LoneOwner, ApprovalInv,
         \/ LockByHand \/ CloseRelease \/ PrepareByHand
         \/ \E s \in Sessions :
              \/ ApproveScope(s) \/ PrepareDraft(s) \/ WriteScope(s) \/ LockScope(s) \/ WriteTrain(s)
              \/ WriteCharter(s) \/ SetApproved(s) \/ MarkApproved(s) \/ Reindex(s) \/ Crash(s)
  PROVE  ApprovalInv'
<1>0. JobsAreSound /\ Owners \subseteq Sessions
  BY DEF ApprovalInv, Sessions
<1>1. CASE LockByHand
  <2>1. UNCHANGED job /\ status' = [state |-> "LOCKED", approved |-> Null]
    BY <1>1 DEF LockByHand
  <2>2. JobsAreSound' /\ status'.state = "LOCKED" /\ status'.approved = Null
    BY <1>0, <2>1 DEF JobsAreSound
  <2> QED BY <2>2 DEF ApprovalInv, ApprovalSoFar, Approved, LockedIsApproved
<1>2. CASE CloseRelease
  <2>1. UNCHANGED job /\ status' = [status EXCEPT !.state = "CLOSED"]
    BY <1>2 DEF CloseRelease
  <2>2. JobsAreSound' /\ status'.state = "CLOSED"
    BY <1>0, <2>1 DEF JobsAreSound
  <2> QED BY <2>2 DEF ApprovalInv, ApprovalSoFar, Approved, LockedIsApproved
\* An approval that had written its lock is overtaken.
<1>3. CASE PrepareByHand
  <2>1. /\ UNCHANGED job /\ status' = [state |-> "DRAFT", approved |-> Null] /\ scope' = Null
        /\ overtaken' = (overtaken \/ \E s \in Owners : job[s].op = "approve"
                                             /\ job[s].at \in {"train", "charter", "state"})
    BY <1>3 DEF PrepareByHand
  <2>2. JobsAreSound' /\ status'.state = "DRAFT"
    BY <1>0, <2>1 DEF JobsAreSound
  <2>3. ASSUME NEW s \in Owners
        PROVE  ApprovalSoFar(s)'
    BY <2>1 DEF ApprovalSoFar
  <2> QED BY <2>2, <2>3 DEF ApprovalInv, Approved, LockedIsApproved
<1>4. ASSUME NEW s \in Sessions,
             \/ ApproveScope(s) \/ PrepareDraft(s) \/ WriteScope(s) \/ LockScope(s) \/ WriteTrain(s)
             \/ WriteCharter(s) \/ SetApproved(s) \/ MarkApproved(s) \/ Reindex(s) \/ Crash(s)
      PROVE  ApprovalInv'
  <2> DEFINE m == job[s].made
  <2>1. CASE ~(s \in Owners)
    <3>1. Crash(s) /\ Rests(s) /\ UNCHANGED <<lockVars, overtaken>>
      BY <1>0, <1>4, <2>1 DEF JobsAreSound, ApproveScope, PrepareDraft, WriteScope, LockScope,
           WriteTrain, WriteCharter, SetApproved, MarkApproved, Reindex, Crash, Does
    <3> QED BY <1>0, <2>1, <3>1, JobEnds, OwnersUntouched
  <2>2. CASE s \in Owners
    <3>0. \A t \in Owners : t = s
      BY <2>2 DEF LoneOwner
    \* The approval ends, or has not written anything yet.
    <3>1. ASSUME Rests(s), UNCHANGED <<lockVars, overtaken>> PROVE ApprovalInv'
      <4>1. job'[s].op = "idle"
        BY <1>0, <3>1, JobEnds
      <4>2. JobsAreSound'
        BY <1>0, <3>0, <3>1, <4>1, JobEnds DEF JobsAreSound, lockVars
      <4> QED BY <3>0, <3>1, <4>1, <4>2 DEF ApprovalInv, ApprovalSoFar, OnlyMarks, Approved,
                                            LockedIsApproved, lockVars
    \* It goes on: the state and its own writes decide.
    <3>2. ASSUME NEW step, Turns(s, step), job[s].op = "approve",
                 status' = [state |-> status'.state, approved |-> status'.approved]
          PROVE  /\ JobsAreSound' /\ job'[s].op = "approve" /\ job'[s].at = step
                 /\ job'[s].made = m
      <4>1. /\ DOMAIN job' = Sessions /\ \A t \in Sessions : IsJob(job'[t])
            /\ \A t \in Sessions \ {s} : job'[t] = job[t]
            /\ job'[s].at = step /\ job'[s].op = job[s].op /\ job'[s].made = m
        BY <1>0, <3>2, JobTurns
      <4> QED BY <1>0, <2>2, <3>0, <3>2, <4>1 DEF JobsAreSound
    <3>3. status = [state |-> status.state, approved |-> status.approved]
      BY <1>0 DEF JobsAreSound
    <3>4. CASE ApproveScope(s)
      <4>1. /\ job' = [job EXCEPT ![s] = [Calm EXCEPT !.op = "approve", !.at = "prepare", !.made = Indexed]]
            /\ status.state \in {"DRAFT", "CLOSED"} /\ UNCHANGED lockVars
        BY <3>4 DEF ApproveScope, Approvable
      <4>2. /\ DOMAIN job' = Sessions /\ \A t \in Sessions \ {s} : job'[t] = job[t]
            /\ job'[s] = [Calm EXCEPT !.op = "approve", !.at = "prepare", !.made = Indexed]
        BY <1>0, <4>1 DEF JobsAreSound
      <4>4. IsJob(job'[s]) /\ job'[s].op = "approve" /\ job'[s].at = "prepare"
        <5> DEFINE j == job'[s]
        <5>1. j = [Calm EXCEPT !.op = "approve", !.at = "prepare", !.made = Indexed]
          BY <4>2
        <5> HIDE DEF j
        <5>2. IsJob(j) /\ j.op = "approve" /\ j.at = "prepare"
          BY <5>1 DEF Calm, IsJob
        <5> QED BY <5>2 DEF j
      <4>5. JobsAreSound'
        BY <1>0, <2>2, <3>0, <4>1, <4>2, <4>4 DEF JobsAreSound, lockVars
      <4>6. status'.state # "LOCKED"
        BY <4>1 DEF lockVars
      <4> QED BY <3>0, <4>2, <4>4, <4>5, <4>6 DEF ApprovalInv, ApprovalSoFar, Approved, LockedIsApproved
    <3>5. CASE PrepareDraft(s)
      <4>1. job[s].op = "approve" /\ job[s].at = "prepare" /\ ~Approved
        BY <2>2, <3>5 DEF PrepareDraft, Does, ApprovalInv, OnlyMarks
      <4>2. CASE Rests(s) /\ UNCHANGED lockVars
        BY <3>1, <3>5, <4>2 DEF PrepareDraft, asideVars
      <4>3. CASE Turns(s, "contract") /\ UNCHANGED lockVars
        <5>1. JobsAreSound' /\ job'[s].op = "approve" /\ job'[s].at = "contract"
          BY <3>2, <3>3, <4>1, <4>3 DEF lockVars
        <5>2. ~Approved'
          BY <4>1, <4>3 DEF Approved, lockVars
        <5> QED BY <3>0, <5>1, <5>2 DEF ApprovalInv, ApprovalSoFar, Approved, LockedIsApproved
      <4>4. CASE status' = [state |-> "DRAFT", approved |-> Null] /\ Turns(s, "contract")
        <5>1. JobsAreSound' /\ job'[s].op = "approve" /\ job'[s].at = "contract" /\ status'.state = "DRAFT"
          BY <3>2, <4>1, <4>4
        <5> QED BY <3>0, <5>1 DEF ApprovalInv, ApprovalSoFar, Approved, LockedIsApproved
      <4> QED BY <3>5, <4>2, <4>3, <4>4 DEF PrepareDraft
    \* While it writes, nothing has been approved.
    <3>6. ASSUME job[s].op = "approve", job[s].at \in {"contract", "lock", "train", "charter", "state"}
          PROVE  ~Approved
      BY <2>2, <3>6 DEF ApprovalInv, OnlyMarks
    \* A write of the approval to one of the files: the state stays.
    <3>7. ASSUME NEW step, Turns(s, step), job[s].op = "approve", UNCHANGED <<status, overtaken>>,
                 job[s].at \in {"contract", "lock", "train", "charter", "state"}, ApprovalSoFar(s)'
          PROVE  ApprovalInv'
      <4>1. JobsAreSound'
        BY <3>2, <3>3, <3>7
      <4>2. ~Approved'
        BY <3>6, <3>7 DEF Approved
      <4> QED BY <3>0, <3>7, <4>1, <4>2 DEF ApprovalInv, Approved, LockedIsApproved
    <3>8. ApprovalSoFar(s)
      BY <2>2 DEF ApprovalInv
    <3>9. CASE WriteScope(s)
      <4>1. /\ job[s].op = "approve" /\ job[s].at = "contract" /\ Turns(s, "lock")
            /\ scope' = Body(m) /\ UNCHANGED <<status, overtaken>>
        BY <3>9 DEF WriteScope, Does, asideVars
      <4>2. job'[s].op = "approve" /\ job'[s].at = "lock" /\ job'[s].made = m
        BY <3>2, <3>3, <4>1
      <4>3. ApprovalSoFar(s)'
        BY <4>1, <4>2 DEF ApprovalSoFar, Body
      <4> QED BY <3>7, <4>1, <4>3
    <3>10. CASE LockScope(s)
      <4>1. CASE ~(Unmoved(m) /\ scope # Null)
        BY <3>1, <3>10, <4>1 DEF LockScope, lockVars, asideVars
      <4>2. CASE Unmoved(m) /\ scope # Null
        <5>1. /\ job[s].op = "approve" /\ job[s].at = "lock" /\ Turns(s, "train")
              /\ frozen' = [scope |-> scope, sha |-> HeadSha] /\ HeadSha = m.sha
              /\ UNCHANGED <<status, overtaken>>
          BY <3>10, <4>2 DEF LockScope, Does, Unmoved, asideVars
        <5>2. job'[s].op = "approve" /\ job'[s].at = "train" /\ job'[s].made = m
          BY <3>2, <3>3, <5>1
        <5>3. ApprovalSoFar(s)'
          BY <3>8, <4>2, <5>1, <5>2 DEF ApprovalSoFar, Body
        <5> QED BY <3>7, <5>1, <5>3
      <4> QED BY <4>1, <4>2
    <3>11. CASE WriteTrain(s)
      <4>1. /\ job[s].op = "approve" /\ job[s].at = "train" /\ Turns(s, "charter")
            /\ train' = Body(m) /\ UNCHANGED <<status, frozen, overtaken>>
        BY <3>11 DEF WriteTrain, Does, asideVars
      <4>2. job'[s].op = "approve" /\ job'[s].at = "charter" /\ job'[s].made = m
        BY <3>2, <3>3, <4>1
      <4>3. ApprovalSoFar(s)'
        BY <3>8, <4>1, <4>2 DEF ApprovalSoFar, Body
      <4> QED BY <3>7, <4>1, <4>3
    <3>12. CASE WriteCharter(s)
      <4>1. CASE ~CharterWritable(m)
        BY <3>1, <3>12, <4>1 DEF WriteCharter, lockVars, asideVars
      <4>2. CASE CharterWritable(m)
        <5>1. /\ job[s].op = "approve" /\ job[s].at = "charter" /\ Turns(s, "state")
              /\ charter' = Body(m) /\ UNCHANGED <<status, frozen, train, overtaken>>
          BY <3>12, <4>2 DEF WriteCharter, Does, asideVars
        <5>2. job'[s].op = "approve" /\ job'[s].at = "state" /\ job'[s].made = m
          BY <3>2, <3>3, <5>1
        <5>3. ApprovalSoFar(s)'
          BY <3>8, <5>1, <5>2 DEF ApprovalSoFar, Body
        <5> QED BY <3>7, <5>1, <5>3
      <4> QED BY <4>1, <4>2
    <3>13. CASE SetApproved(s)
      <4>1. CASE status.state # "DRAFT"
        BY <3>1, <3>13, <4>1 DEF SetApproved, lockVars, asideVars
      <4>2. CASE status.state = "DRAFT"
        <5>1. /\ job[s].op = "approve" /\ job[s].at = "state" /\ Turns(s, "mark")
              /\ status' = [state |-> "LOCKED", approved |-> Body(m)]
              /\ UNCHANGED <<frozen, train, charter, overtaken>>
          BY <3>13, <4>2 DEF SetApproved, Does, asideVars
        <5>2. JobsAreSound' /\ job'[s].op = "approve" /\ job'[s].at = "mark"
          BY <3>2, <5>1
        <5>3. ~overtaken =>
                frozen = [scope |-> Body(m), sha |-> m.sha] /\ train = Body(m) /\ charter = Body(m)
          BY <3>8, <4>2, <5>1 DEF ApprovalSoFar
        <5>4. Body(m).sha = m.sha
          BY DEF Body
        <5>5. LockedIsApproved' /\ status'.state # "DRAFT"
          BY <5>1, <5>3, <5>4 DEF LockedIsApproved
        <5> QED BY <3>0, <5>2, <5>5 DEF ApprovalInv, ApprovalSoFar, OnlyMarks
      <4> QED BY <4>1, <4>2
    <3>14. CASE MarkApproved(s)
      <4>1. /\ job[s].op = "approve" /\ job[s].at = "mark" /\ Turns(s, "reindex")
            /\ UNCHANGED <<lockVars, overtaken>>
        BY <3>14 DEF MarkApproved, Does, asideVars
      <4>2. JobsAreSound' /\ job'[s].op = "approve" /\ job'[s].at = "reindex"
        BY <3>2, <3>3, <4>1 DEF lockVars
      <4>3. LockedIsApproved'
        BY <4>1 DEF ApprovalInv, LockedIsApproved, lockVars
      <4> QED BY <3>0, <4>2, <4>3 DEF ApprovalInv, ApprovalSoFar, OnlyMarks
    <3>15. CASE Reindex(s)
      BY <3>1, <3>15 DEF Reindex, asideVars
    <3>16. CASE Crash(s)
      BY <3>1, <3>16 DEF Crash
    <3> QED BY <1>4, <3>4, <3>5, <3>9, <3>10, <3>11, <3>12, <3>13, <3>14, <3>15, <3>16
  <2> QED BY <2>1, <2>2
<1> QED BY <1>1, <1>2, <1>3, <1>4

\* What an approval leaves behind agrees, for any files, proposals and hosts that create and
\* refine meanwhile: while one person approves at a time, a release locked by an approval has
\* lock, release train and goal charter of the approved revision, at the commit it was made
\* for, wherever sessions stopped before, unless the release was locked by hand and closed
\* and the next prepared between its lock and its state (approveScopeProposal).
THEOREM ApprovalsAgree ==
  ASSUME LoneOwner
  PROVE  ProposalSpec => []LockedIsApproved
<1>1. ApprovalInv /\ [ProposalNext]_proposalVars => ApprovalInv'
  <2> SUFFICES ASSUME ApprovalInv, [ProposalNext]_proposalVars PROVE ApprovalInv'
    OBVIOUS
  <2>1. CASE UNCHANGED proposalVars
    BY <2>1, OwnersUntouched DEF proposalVars, asideVars, ApprovalInv, JobsAreSound
  <2> QED BY <2>1, HostSteps, ApprovalSteps DEF ProposalNext, ProposalStep
<1>2. ApprovalInv => LockedIsApproved
  BY DEF ApprovalInv
<1> QED BY <1>1, <1>2, ApprovalInvInitially, PTL DEF ProposalSpec

-----------------------------------------------------------------------------
(* The plan file: commands, offers, contracts and locks.                    *)

\* One process runs commands at a time.
LoneProc == \A p, q \in Procs : p = q

IsCmd(c) ==
  c = [op |-> c.op, at |-> c.at, plan |-> c.plan, seen |-> c.seen, sha |-> c.sha,
       request |-> c.request, chosen |-> c.chosen, bound |-> c.bound, of |-> c.of]

\* What every command has loaded is a plan without cycles, of known stages.
PlansAreValid ==
  /\ DOMAIN cmd = Procs /\ \A p \in Procs : IsCmd(cmd[p])
  /\ file # Nothing => file.stages \in StageLists
  /\ \A p \in Procs : cmd[p].plan # Nothing =>
       ValidPlan(cmd[p].plan) /\ cmd[p].plan.stages \in StageLists

PlanNumbers ==
  /\ receipts = [r \in 1..MaxReleases |-> receipts[r]] /\ release \in Nat
  /\ offer # Nothing => offer.release \in Nat

\* No other release than rel has a receipt of stage id, and none above it of any.
ClosedAt(id, plan, rel) ==
  /\ \A q \in StageReceipts : q <= rel
  /\ id # Nothing /\ ~Supersedes(plan) => \A q \in StageReceipts \ {rel} : receipts[q].stage.id # id

\* What is offered or bound is carried out by its own release alone.
StagesAreFree ==
  /\ offer # Nothing => ClosedAt(offer.stage, offer.plan, offer.release)
  /\ \A q \in StageReceipts : q <= release
  /\ contract # Nothing => contract.stage # Nothing /\ ClosedAt(contract.stage, contract.plan, release)
  /\ offer # Nothing /\ contract # Nothing /\ phase # "CLOSED" => offer.release = release

\* The stage of a lock is the one its contract binds.
LockNamesStage ==
  lock # Nothing /\ lock.contract # Nothing =>
    lock.stage # Nothing /\ lock.stage.id = lock.contract.stage

KeepsReceipts(plan) ==
  Supersedes(plan) \/ \A r \in StageReceipts :
    receipts[r].stage.id \in Ids(plan) /\ StageOf(plan, receipts[r].stage.id) = receipts[r].stage

KeepsLock(plan) ==
  Supersedes(plan) \/ (lock.stage.id \in Ids(plan) /\ StageOf(plan, lock.stage.id) = lock.stage)

\* What the command at work may rely on: nobody else has moved the release since it looked.
CommandIsSound(p) ==
  LET c == cmd[p] IN
  /\ c.op \in {"idle", "check", "start", "lock", "approve", "close"}
  /\ c.op = "start" => phase \in {"DRAFT", "CLOSED"}
  /\ c.op = "approve" => offer # Nothing /\ c.chosen = offer
  /\ c.op = "approve" /\ c.at # "prepare" => phase = "DRAFT"
  /\ c.op = "lock" => phase = "DRAFT"
  /\ c.op \in {"lock", "approve"} /\ c.at \notin {"prepare", "contract", "recheck"} =>
       c.bound = contract /\ c.of = release
  /\ c.op = "close" =>
       /\ phase = "LOCKED" /\ lock # Nothing /\ lock.contract = contract
       /\ c.bound = contract /\ c.of = release
  /\ c.op = "close" => c.at \in {"load", "receipt", "closed"}
  /\ c.op = "close" /\ c.at = "receipt" /\ c.bound # Nothing =>
       c.plan # Nothing /\ KeepsLock(c.plan)
  /\ c.at \in {"record", "append"} => c.plan # Nothing /\ KeepsReceipts(c.plan)
  /\ c.at = "write" /\ c.bound # Nothing => c.plan # Nothing
  /\ c.op = "idle" => c.at = "idle"

PlanInv ==
  /\ PlansAreValid /\ PlanNumbers /\ StagesAreFree /\ LockNamesStage /\ StageClosedOnce
  /\ \A p \in Procs : CommandIsSound(p)

LEMMA SmallestOfSome ==
  ASSUME NEW S \in SUBSET Nat, S # {}
  PROVE  \E n \in S : \A m \in S : n <= m
<1>1. PICK n \in S : \A m \in S : ~(<<m, n>> \in OpToRel(<, Nat))
  BY NatLessThanWellFounded, WFMin
<1>2. \A m \in S : ~(m < n)
  BY <1>1 DEF OpToRel
<1>3. \A m \in S : n <= m
  <2> TAKE m \in S
  <2>1. m \in Nat /\ n \in Nat /\ ~(m < n)
    BY <1>2
  <2> QED BY <2>1
<1> QED BY <1>3

LEMMA StageOfId ==
  ASSUME NEW plan, NEW id \in Ids(plan)
  PROVE  /\ StageOf(plan, id).id = id
         /\ \E i \in DOMAIN plan.stages : StageOf(plan, id) = plan.stages[i]
<1>1. \E i \in DOMAIN plan.stages : plan.stages[i].id = id
  BY DEF Ids
<1>2. LET i == CHOOSE j \in DOMAIN plan.stages : plan.stages[j].id = id IN
      i \in DOMAIN plan.stages /\ plan.stages[i].id = id
  BY <1>1
<1> QED BY <1>2 DEF StageOf

\* A stage proposed for lack of a request has no receipt that counts.
LEMMA FirstReadyIsOpen ==
  ASSUME NEW plan, plan.stages \in StageLists, FirstReady(plan) # Nothing
  PROVE  FirstReady(plan) \notin Done(plan)
<1> DEFINE ready == {i \in DOMAIN plan.stages : StageState(plan, plan.stages[i].id) = "READY"}
           first == CHOOSE i \in ready : \A j \in ready : i <= j
<1>1. ready # {} /\ FirstReady(plan) = plan.stages[first].id
  BY DEF FirstReady
<1>2. ready \subseteq Nat
  BY PlanAssumption
<1> HIDE DEF ready
<1>3. first \in ready
  BY <1>1, <1>2, SmallestOfSome
<1> HIDE DEF first
<1>4. StageState(plan, plan.stages[first].id) = "READY"
  BY <1>3 DEF ready
<1> QED BY <1>1, <1>4 DEF StageState

LEMMA LoadedIsSound ==
  ASSUME Loaded(file) = "loaded"
  PROVE  file # Nothing /\ ValidPlan(file) /\ (Supersedes(file) \/ KeepsHistory(file))
BY DEF Loaded

\* What a step of p does to its command; there is no other.
LEMMA CommandGoes ==
  ASSUME PlansAreValid, NEW p \in Procs, NEW step, PlanGoes(p, step)
  PROVE  /\ DOMAIN cmd' = Procs /\ IsCmd(cmd'[p]) /\ cmd'[p].at = step
         /\ cmd'[p].op = cmd[p].op /\ cmd'[p].plan = cmd[p].plan /\ cmd'[p].chosen = cmd[p].chosen
         /\ cmd'[p].bound = cmd[p].bound /\ cmd'[p].of = cmd[p].of
         /\ \A q \in Procs \ {p} : cmd'[q] = cmd[q]
<1>1. /\ DOMAIN cmd' = Procs /\ cmd'[p] = [cmd[p] EXCEPT !.at = step] /\ IsCmd(cmd[p])
      /\ \A q \in Procs \ {p} : cmd'[q] = cmd[q]
  BY DEF PlansAreValid, PlanGoes
<1> DEFINE c == cmd[p]
           d == cmd'[p]
<1>2. IsCmd(c) /\ d = [c EXCEPT !.at = step]
  BY <1>1
<1> HIDE DEF c, d
<1>3. /\ IsCmd(d) /\ d.at = step /\ d.op = c.op /\ d.plan = c.plan /\ d.chosen = c.chosen
      /\ d.bound = c.bound /\ d.of = c.of
  BY <1>2 DEF IsCmd
<1> QED BY <1>1, <1>3 DEF c, d

LEMMA CommandEnds ==
  ASSUME PlansAreValid, NEW p \in Procs, PlanEnds(p)
  PROVE  /\ DOMAIN cmd' = Procs /\ IsCmd(cmd'[p]) /\ cmd'[p] = Idle
         /\ cmd'[p].op = "idle" /\ cmd'[p].at = "idle" /\ cmd'[p].plan = Nothing
         /\ \A q \in Procs \ {p} : cmd'[q] = cmd[q]
<1>1. DOMAIN cmd' = Procs /\ cmd'[p] = Idle /\ \A q \in Procs \ {p} : cmd'[q] = cmd[q]
  BY DEF PlansAreValid, PlanEnds
<1> QED BY <1>1 DEF Idle, IsCmd

\* What lock and close read of the contract.
LEMMA CommandReads ==
  ASSUME PlansAreValid, NEW p \in Procs, NEW op, NEW step, Reads(p, op, step)
  PROVE  /\ DOMAIN cmd' = Procs /\ IsCmd(cmd'[p]) /\ cmd'[p].op = op /\ cmd'[p].bound = contract
         /\ cmd'[p].of = release /\ cmd'[p].plan = cmd[p].plan /\ cmd'[p].chosen = cmd[p].chosen
         /\ cmd'[p].at = (IF contract = Nothing THEN step ELSE "load")
         /\ \A q \in Procs \ {p} : cmd'[q] = cmd[q]
<1> DEFINE at == IF contract = Nothing THEN step ELSE "load"
<1>1. /\ DOMAIN cmd' = Procs /\ IsCmd(cmd[p])
      /\ cmd'[p] = [cmd[p] EXCEPT !.op = op, !.bound = contract, !.of = release, !.at = at]
      /\ \A q \in Procs \ {p} : cmd'[q] = cmd[q]
  BY DEF PlansAreValid, Reads
<1> DEFINE c == cmd[p]
           d == cmd'[p]
<1>2. IsCmd(c) /\ d = [c EXCEPT !.op = op, !.bound = contract, !.of = release, !.at = at]
  BY <1>1
<1> HIDE DEF c, d, at
<1>3. /\ IsCmd(d) /\ d.op = op /\ d.bound = contract /\ d.of = release /\ d.at = at
      /\ d.plan = c.plan /\ d.chosen = c.chosen
  BY <1>2 DEF IsCmd
<1> QED BY <1>1, <1>3 DEF c, d, at

\* A command that begins.
LEMMA CommandBegins ==
  ASSUME PlansAreValid, NEW p \in Procs, NEW op, NEW step, Begins(p, op, step)
  PROVE  /\ DOMAIN cmd' = Procs /\ IsCmd(cmd'[p]) /\ cmd'[p].op = op /\ cmd'[p].at = step
         /\ cmd'[p].plan = Nothing /\ \A q \in Procs \ {p} : cmd'[q] = cmd[q]
<1> DEFINE d == cmd'[p]
<1>1. /\ DOMAIN cmd' = Procs /\ d = [Idle EXCEPT !.op = op, !.at = step]
      /\ \A q \in Procs \ {p} : cmd'[q] = cmd[q]
  BY DEF PlansAreValid, Begins
<1> HIDE DEF d
<1>2. IsCmd(d) /\ d.op = op /\ d.at = step /\ d.plan = Nothing
  BY <1>1 DEF Idle, IsCmd
<1> QED BY <1>1, <1>2 DEF d

LEMMA StartBegins ==
  ASSUME PlansAreValid, NEW p \in Procs, Start(p)
  PROVE  /\ DOMAIN cmd' = Procs /\ IsCmd(cmd'[p]) /\ cmd'[p].op = "start" /\ cmd'[p].at = "load"
         /\ cmd'[p].plan = Nothing /\ \A q \in Procs \ {p} : cmd'[q] = cmd[q]
<1> DEFINE d == cmd'[p]
<1>1. PICK request, sha : cmd' = [cmd EXCEPT ![p] = [Idle EXCEPT !.op = "start", !.at = "load",
                                                                 !.request = request, !.sha = sha]]
  BY DEF Start
<1>2. /\ DOMAIN cmd' = Procs /\ \A q \in Procs \ {p} : cmd'[q] = cmd[q]
      /\ d = [Idle EXCEPT !.op = "start", !.at = "load", !.request = request, !.sha = sha]
  BY <1>1 DEF PlansAreValid
<1> HIDE DEF d
<1>3. IsCmd(d) /\ d.op = "start" /\ d.at = "load" /\ d.plan = Nothing
  BY <1>2 DEF Idle, IsCmd
<1> QED BY <1>2, <1>3 DEF d

LEMMA ApproveBegins ==
  ASSUME PlansAreValid, NEW p \in Procs, Approve(p)
  PROVE  /\ DOMAIN cmd' = Procs /\ IsCmd(cmd'[p]) /\ cmd'[p].op = "approve" /\ cmd'[p].at = "prepare"
         /\ cmd'[p].plan = Nothing /\ cmd'[p].chosen = offer
         /\ \A q \in Procs \ {p} : cmd'[q] = cmd[q]
<1> DEFINE d == cmd'[p]
<1>1. /\ DOMAIN cmd' = Procs /\ \A q \in Procs \ {p} : cmd'[q] = cmd[q]
      /\ d = [Idle EXCEPT !.op = "approve", !.at = "prepare", !.chosen = offer]
  BY DEF PlansAreValid, Approve
<1> HIDE DEF d
<1>2. IsCmd(d) /\ d.op = "approve" /\ d.at = "prepare" /\ d.plan = Nothing /\ d.chosen = offer
  BY <1>1 DEF Idle, IsCmd
<1> QED BY <1>1, <1>2 DEF d

\* The load that succeeds.
LEMMA CommandLoads ==
  ASSUME PlansAreValid, NEW p \in Procs,
         cmd' = [cmd EXCEPT ![p].plan = file,
                            ![p].at = IF cmd[p].op = "close" THEN "receipt" ELSE "record"]
  PROVE  /\ DOMAIN cmd' = Procs /\ IsCmd(cmd'[p]) /\ cmd'[p].op = cmd[p].op /\ cmd'[p].plan = file
         /\ cmd'[p].at = (IF cmd[p].op = "close" THEN "receipt" ELSE "record")
         /\ cmd'[p].chosen = cmd[p].chosen /\ cmd'[p].bound = cmd[p].bound /\ cmd'[p].of = cmd[p].of
         /\ \A q \in Procs \ {p} : cmd'[q] = cmd[q]
<1> DEFINE c == cmd[p]
           d == cmd'[p]
           at == IF cmd[p].op = "close" THEN "receipt" ELSE "record"
<1>1. /\ DOMAIN cmd' = Procs /\ d = [c EXCEPT !.plan = file, !.at = at] /\ IsCmd(c)
      /\ \A q \in Procs \ {p} : cmd'[q] = cmd[q]
  BY DEF PlansAreValid
<1> HIDE DEF c, d, at
<1>2. /\ IsCmd(d) /\ d.op = c.op /\ d.plan = file /\ d.at = at /\ d.chosen = c.chosen
      /\ d.bound = c.bound /\ d.of = c.of
  BY <1>1 DEF IsCmd
<1> QED BY <1>1, <1>2 DEF c, d, at

LEMMA CommandAppends ==
  ASSUME PlansAreValid, NEW p \in Procs, NEW n, cmd' = [cmd EXCEPT ![p].seen = n, ![p].at = "append"]
  PROVE  /\ DOMAIN cmd' = Procs /\ IsCmd(cmd'[p]) /\ cmd'[p].at = "append"
         /\ cmd'[p].op = cmd[p].op /\ cmd'[p].plan = cmd[p].plan /\ cmd'[p].chosen = cmd[p].chosen
         /\ cmd'[p].bound = cmd[p].bound /\ cmd'[p].of = cmd[p].of
         /\ \A q \in Procs \ {p} : cmd'[q] = cmd[q]
<1> DEFINE c == cmd[p]
           d == cmd'[p]
<1>1. /\ DOMAIN cmd' = Procs /\ d = [c EXCEPT !.seen = n, !.at = "append"] /\ IsCmd(c)
      /\ \A q \in Procs \ {p} : cmd'[q] = cmd[q]
  BY DEF PlansAreValid
<1> HIDE DEF c, d
<1>2. /\ IsCmd(d) /\ d.at = "append" /\ d.op = c.op /\ d.plan = c.plan /\ d.chosen = c.chosen
      /\ d.bound = c.bound /\ d.of = c.of
  BY <1>1 DEF IsCmd
<1> QED BY <1>1, <1>2 DEF c, d

LEMMA PlansStayValid ==
  ASSUME PlansAreValid, [PlanNext]_planVars
  PROVE  PlansAreValid'
<1>1. CASE UNCHANGED planVars \/ CommitPlan
  BY <1>1 DEF planVars, CommitPlan, PlansAreValid
<1>2. CASE EditPlan
  <2>1. PICK list, rev, old : /\ list \in StageLists
                              /\ file' = [revision |-> rev, supersedes |-> old, stages |-> list]
    BY <1>2 DEF EditPlan
  <2>2. UNCHANGED cmd /\ file'.stages \in StageLists
    BY <1>2, <2>1 DEF EditPlan
  <2> QED BY <2>2 DEF PlansAreValid
<1>3. ASSUME NEW p \in Procs, PlanCommand(p)
      PROVE  PlansAreValid'
  <2>0. UNCHANGED file
    BY <1>3 DEF PlanCommand, Check, Start, Load, ReadHistory, AppendHistory, Select, Approve,
         PrepareApproved, Prepare, WriteContract, Recheck, Lock, WriteLock, SetLocked, Close,
         WriteReceipt, SetClosed, Halt, fileVars
  <2>1. ASSUME DOMAIN cmd' = Procs, IsCmd(cmd'[p]), \A q \in Procs \ {p} : cmd'[q] = cmd[q],
               \/ cmd'[p].plan \in {Nothing, cmd[p].plan}
               \/ cmd'[p].plan = file /\ ValidPlan(file)
        PROVE  PlansAreValid'
    BY <2>0, <2>1 DEF PlansAreValid
  <2>2. CASE PlanEnds(p)
    BY <2>1, <2>2, CommandEnds
  <2>3. ASSUME NEW step, PlanGoes(p, step) PROVE PlansAreValid'
    BY <2>1, <2>3, CommandGoes
  <2>4. ASSUME NEW op, NEW step, Reads(p, op, step) PROVE PlansAreValid'
    BY <2>1, <2>4, CommandReads
  <2>5. CASE Check(p) \/ Start(p) \/ Approve(p)
    BY <2>1, <2>5, CommandBegins, StartBegins, ApproveBegins DEF Check
  <2>6. CASE Load(p)
    <3>1. CASE /\ Loaded(file) = "loaded"
               /\ cmd' = [cmd EXCEPT ![p].plan = file,
                                     ![p].at = IF cmd[p].op = "close" THEN "receipt" ELSE "record"]
      BY <2>1, <3>1, LoadedIsSound, CommandLoads
    <3> QED BY <2>2, <2>3, <2>6, <3>1 DEF Load
  <2>7. CASE ReadHistory(p)
    <3>1. CASE cmd' = [cmd EXCEPT ![p].seen = Len(history), ![p].at = "append"]
      BY <2>1, <3>1, CommandAppends
    <3> QED BY <2>2, <2>3, <2>7, <3>1 DEF ReadHistory, AfterRecord
  <2>8. CASE AppendHistory(p) \/ Select(p) \/ PrepareApproved(p) \/ WriteContract(p) \/ WriteLock(p)
             \/ SetLocked(p) \/ WriteReceipt(p) \/ SetClosed(p) \/ Halt(p)
    BY <2>2, <2>3, <2>8 DEF AppendHistory, AfterRecord, Select, PrepareApproved, WriteContract,
         WriteLock, SetLocked, WriteReceipt, SetClosed, Halt
  <2>9. CASE Prepare(p)
    BY <2>0, <2>9 DEF Prepare, PlansAreValid
  <2>10. CASE Recheck(p) \/ Lock(p) \/ Close(p)
    BY <2>2, <2>4, <2>10 DEF Recheck, Lock, Close
  <2> QED BY <1>3, <2>5, <2>6, <2>7, <2>8, <2>9, <2>10 DEF PlanCommand
<1> QED BY <1>1, <1>2, <1>3 DEF PlanNext

LEMMA PlanInvInitially ==
  ASSUME PlanInit
  PROVE  PlanInv
<1>1. /\ DOMAIN cmd = Procs /\ \A p \in Procs : cmd[p] = Idle
      /\ receipts = [r \in 1..MaxReleases |-> receipts[r]] /\ release = 1 /\ StageReceipts = {}
      /\ contract = Nothing /\ lock = Nothing /\ offer = Nothing
  BY DEF PlanInit, StageReceipts
<1>2. IsCmd(Idle) /\ Idle.op = "idle" /\ Idle.at = "idle" /\ Idle.plan = Nothing
  BY DEF IsCmd, Idle
<1>3. file # Nothing => file.stages \in StageLists
  BY DEF PlanInit
<1>4. PlansAreValid
  BY <1>1, <1>2, <1>3 DEF PlansAreValid
<1> QED BY <1>1, <1>2, <1>4 DEF PlanInv, PlanNumbers, StagesAreFree, LockNamesStage, StageClosedOnce,
                                CommandIsSound

LEMMA StageReceiptsStay ==
  ASSUME UNCHANGED receipts
  PROVE  /\ StageReceipts' = StageReceipts
         /\ \A plan : KeepsReceipts(plan)' = KeepsReceipts(plan)
BY DEF StageReceipts, KeepsReceipts, Ids, StageOf, Supersedes

\* A plan never waits for itself, whatever is edited, closed and stopped, and whichever
\* commands run at once: a command that has loaded a plan with stages left, each with its
\* commands detected, has one of them to propose (assertAcyclicStages, stageStates).
THEOREM LoadedPlansGoOn == PlanSpec => []PlanGoesOn
<1>1. PlanInit => PlansAreValid
  BY PlanInvInitially DEF PlanInv
<1>2. PlansAreValid /\ [PlanNext]_planVars => PlansAreValid'
  BY PlansStayValid
<1>3. PlansAreValid => PlanGoesOn
  <2> SUFFICES ASSUME PlansAreValid, NEW p \in Procs, cmd[p].plan # Nothing,
                      Ids(cmd[p].plan) \ Done(cmd[p].plan) # {},
                      \A id \in Ids(cmd[p].plan) \ Done(cmd[p].plan) :
                        StageOf(cmd[p].plan, id).gate = "resolved"
               PROVE  \E id \in Ids(cmd[p].plan) \ Done(cmd[p].plan) : Selectable(cmd[p].plan, id)
    BY DEF PlanGoesOn
  <2> DEFINE plan == cmd[p].plan
             open == Ids(plan) \ Done(plan)
  <2>1. ValidPlan(plan) /\ Len(plan.stages) \in Nat
    BY PlanAssumption DEF PlansAreValid
  <2>2. open # {} /\ \A id \in open : StageOf(plan, id).gate = "resolved"
    OBVIOUS
  <2> SUFFICES \E id \in open : Selectable(plan, id)
    OBVIOUS
  <2> HIDE DEF plan
  <2>3. PICK rank \in [Ids(plan) -> 1..Len(plan.stages)] :
          \A id \in Ids(plan) : \A on \in StageOf(plan, id).dependsOn : rank[on] < rank[id]
    BY <2>1 DEF ValidPlan, Acyclic
  <2>4. \A id \in Ids(plan) : rank[id] \in Nat
    BY <2>1, <2>3
  \* The first of the open stages depends on closed ones only.
  <2>5. PICK id \in open : \A other \in open : rank[id] <= rank[other]
    <3> DEFINE ranks == {rank[id] : id \in open}
    <3>1. ranks \in SUBSET Nat /\ ranks # {}
      BY <2>2, <2>4
    <3>2. \E n \in ranks : \A m \in ranks : n <= m
      BY <3>1, SmallestOfSome
    <3> QED BY <3>2
  <2>6. Unmet(plan, id) = {}
    <3>1. ASSUME NEW on \in StageOf(plan, id).dependsOn PROVE on \in Done(plan)
      <4>1. on \in Ids(plan) /\ rank[on] < rank[id] /\ rank[on] \in Nat /\ rank[id] \in Nat
        BY <2>1, <2>3, <2>4, <3>1 DEF ValidPlan
      <4>2. ~(rank[id] <= rank[on])
        BY <4>1
      <4> QED BY <2>5, <4>1, <4>2
    <3> QED BY <3>1 DEF Unmet
  <2>7. StageState(plan, id) \in {"READY", "ACTIVE"}
    BY <2>2, <2>6 DEF StageState
  <2> QED BY <2>7 DEF Selectable
<1> QED BY <1>1, <1>2, <1>3, PTL DEF PlanSpec

-----------------------------------------------------------------------------
(* One process at a time: who carries a stage out. *)

\* What a step leaves as it is while it touches neither release, receipts nor offer.
LEMMA ReleaseStays ==
  ASSUME PlanInv, UNCHANGED <<releaseVars, offer>>
  PROVE  PlanNumbers' /\ StagesAreFree' /\ LockNamesStage' /\ StageClosedOnce'
BY StageReceiptsStay DEF PlanInv, PlanNumbers, StagesAreFree, LockNamesStage, StageClosedOnce,
     ClosedAt, Supersedes, releaseVars

\* A command that is over relies on nothing.
LEMMA IdleIsSound ==
  ASSUME NEW p \in Procs, cmd'[p].op = "idle", cmd'[p].at = "idle"
  PROVE  CommandIsSound(p)'
BY DEF CommandIsSound

\* A command that goes on to a step that reads no plan.
LEMMA GoesSound ==
  ASSUME PlansAreValid, NEW p \in Procs, NEW step, PlanGoes(p, step),
         CommandIsSound(p), UNCHANGED <<releaseVars, offer>>,
         cmd[p].op \in {"start", "lock", "approve"}, cmd[p].at # "prepare",
         cmd[p].op # "start" => cmd[p].at \notin {"contract", "recheck"},
         step = "select" \/ (step = "write" /\ cmd[p].plan # Nothing)
  PROVE  CommandIsSound(p)'
<1>1. /\ cmd'[p].at = step /\ cmd'[p].op = cmd[p].op /\ cmd'[p].plan = cmd[p].plan
      /\ cmd'[p].chosen = cmd[p].chosen /\ cmd'[p].bound = cmd[p].bound /\ cmd'[p].of = cmd[p].of
  BY CommandGoes
<1> QED BY <1>1 DEF CommandIsSound, releaseVars

\* The steps that only load the plan, record it, and begin or end a command.
LEMMA QuietSteps ==
  ASSUME LoneProc, PlanInv, NEW p \in Procs,
         \/ Check(p) \/ Start(p) \/ Load(p) \/ ReadHistory(p) \/ AppendHistory(p)
         \/ Approve(p) \/ Recheck(p) \/ Lock(p) \/ Close(p) \/ Halt(p)
  PROVE  PlanInv'
<1>0. PlansAreValid /\ CommandIsSound(p) /\ \A q \in Procs : q = p
  BY DEF PlanInv, LoneProc
<1>1. UNCHANGED <<releaseVars, offer>>
  BY DEF Check, Start, Load, ReadHistory, AppendHistory, Approve, Recheck, Lock, Close, Halt
<1>2. PlansAreValid'
  BY <1>0, PlansStayValid DEF PlanNext, PlanCommand
<1> SUFFICES CommandIsSound(p)'
  BY <1>0, <1>1, <1>2, ReleaseStays DEF PlanInv
<1>3. CASE PlanEnds(p)
  BY <1>0, <1>3, CommandEnds, IdleIsSound
<1>4. CASE Check(p)
  <2>1. cmd'[p].op = "check" /\ cmd'[p].at = "load"
    BY <1>0, <1>4, CommandBegins DEF Check
  <2> QED BY <2>1 DEF CommandIsSound
<1>5. CASE Start(p)
  <2>1. cmd'[p].op = "start" /\ cmd'[p].at = "load" /\ phase' \in {"DRAFT", "CLOSED"}
    BY <1>0, <1>1, <1>5, StartBegins DEF Start, releaseVars
  <2> QED BY <2>1 DEF CommandIsSound
<1>6. CASE Approve(p)
  <2>1. /\ cmd'[p].op = "approve" /\ cmd'[p].at = "prepare" /\ cmd'[p].chosen = offer'
        /\ offer' # Nothing
    BY <1>0, <1>1, <1>6, ApproveBegins DEF Approve
  <2> QED BY <2>1 DEF CommandIsSound
<1>7. CASE Load(p)
  <2>1. CASE /\ Loaded(file) = "loaded"
             /\ cmd' = [cmd EXCEPT ![p].plan = file,
                                   ![p].at = IF cmd[p].op = "close" THEN "receipt" ELSE "record"]
    <3>1. /\ cmd'[p].op = cmd[p].op /\ cmd'[p].plan = file /\ cmd'[p].chosen = cmd[p].chosen
          /\ cmd'[p].bound = cmd[p].bound /\ cmd'[p].of = cmd[p].of
          /\ cmd'[p].at = (IF cmd[p].op = "close" THEN "receipt" ELSE "record")
      BY <1>0, <2>1, CommandLoads
    <3>2. file # Nothing /\ (Supersedes(file) \/ KeepsHistory(file))
      BY <2>1, LoadedIsSound
    <3>3. CASE cmd[p].op = "close"
      <4>1. /\ phase' = "LOCKED" /\ lock' # Nothing /\ lock'.contract = contract'
            /\ cmd[p].bound = contract' /\ cmd[p].of = release'
        BY <1>0, <1>1, <3>3 DEF CommandIsSound, releaseVars
      <4>2. ASSUME cmd[p].bound # Nothing PROVE KeepsLock(file)'
        <5>1. /\ lock # Nothing /\ phase = "LOCKED" /\ lock.stage # Nothing /\ lock' = lock
              /\ UNCHANGED file
          BY <1>0, <1>1, <1>7, <3>3, <4>2 DEF PlanInv, LockNamesStage, CommandIsSound, releaseVars, Load, fileVars
        <5>2. lock.stage \in Evidence
          BY <5>1 DEF Evidence, ActiveSnapshot
        <5>3. KeepsLock(file)
          BY <3>2, <5>2 DEF KeepsLock, KeepsHistory
        <5> QED BY <5>1, <5>3 DEF KeepsLock, Ids, StageOf, Supersedes
      <4>3. /\ cmd'[p].op = "close" /\ cmd'[p].at = "receipt" /\ cmd'[p].plan # Nothing
            /\ cmd'[p].bound = cmd[p].bound /\ cmd'[p].of = cmd[p].of
        BY <3>1, <3>2, <3>3
      <4>4. cmd[p].bound # Nothing => KeepsLock(cmd[p].plan)'
        BY <3>1, <4>2, <1>7 DEF Load, fileVars, KeepsLock, Ids, StageOf, Supersedes
      <4> QED BY <4>1, <4>3, <4>4 DEF CommandIsSound
    <3>4. CASE cmd[p].op # "close"
      <4>1. KeepsReceipts(file)
        BY <3>2 DEF KeepsHistory, KeepsReceipts, Evidence
      <4>2. KeepsReceipts(cmd[p].plan)'
        BY <1>1, <3>1, <4>1, StageReceiptsStay DEF releaseVars, KeepsReceipts, Ids, StageOf, Supersedes
      <4>3. cmd'[p].at = "record" /\ cmd[p].at = "load"
        BY <1>7, <3>1, <3>4 DEF Load
      <4> QED BY <1>0, <1>1, <3>1, <3>2, <3>4, <4>2, <4>3 DEF CommandIsSound, releaseVars
    <3> QED BY <3>3, <3>4
  <2>2. CASE PlanGoes(p, "select") /\ cmd[p].op = "start"
    BY <1>0, <1>1, <1>7, <2>2, GoesSound DEF Load
  <2> QED BY <1>3, <1>7, <2>1, <2>2 DEF Load
\* What follows once the history has the plan.
<1>8. ASSUME cmd[p].at \in {"record", "append"}, AfterRecord(p)
      PROVE  CommandIsSound(p)'
  <2>1. /\ cmd[p].op \in {"check", "start", "lock", "approve"} /\ cmd[p].plan # Nothing
    BY <1>0, <1>8 DEF CommandIsSound
  <2>2. CASE cmd[p].op = "check"
    BY <1>3, <1>8, <2>2 DEF AfterRecord
  <2>3. CASE cmd[p].op = "start"
    <3>1. PlanGoes(p, "select")
      BY <1>8, <2>3 DEF AfterRecord
    <3> QED BY <1>0, <1>1, <1>8, <2>3, <3>1, GoesSound
  <2>4. CASE cmd[p].op \in {"lock", "approve"}
    <3>1. PlanGoes(p, "write")
      BY <1>8, <2>4 DEF AfterRecord
    <3> QED BY <1>0, <1>1, <1>8, <2>1, <2>4, <3>1, GoesSound
  <2> QED BY <2>1, <2>2, <2>3, <2>4
<1>9. CASE ReadHistory(p)
  <2>1. CASE cmd' = [cmd EXCEPT ![p].seen = Len(history), ![p].at = "append"]
    <3>1. /\ cmd'[p].op = cmd[p].op /\ cmd'[p].plan = cmd[p].plan /\ cmd'[p].chosen = cmd[p].chosen
          /\ cmd'[p].bound = cmd[p].bound /\ cmd'[p].of = cmd[p].of /\ cmd'[p].at = "append"
      BY <1>0, <2>1, CommandAppends
    <3>2. cmd[p].at = "record"
      BY <1>9 DEF ReadHistory
    <3>3. KeepsReceipts(cmd[p].plan)'
      <4>1. PICK plan : plan = cmd[p].plan /\ KeepsReceipts(plan)
        BY <1>0, <3>2 DEF CommandIsSound
      <4>2. StageReceipts' = StageReceipts /\ UNCHANGED receipts /\ cmd'[p].plan = plan
        BY <1>1, <3>1, <4>1, StageReceiptsStay DEF releaseVars
      <4>3. KeepsReceipts(cmd'[p].plan)
        BY <4>1, <4>2
      <4> QED BY <4>2, <4>3 DEF KeepsReceipts, Ids, StageOf, Supersedes
    <3> QED BY <1>0, <1>1, <3>1, <3>2, <3>3 DEF CommandIsSound, releaseVars
  <2> QED BY <1>3, <1>8, <1>9, <2>1 DEF ReadHistory
<1>10. CASE AppendHistory(p)
  BY <1>8, <1>10 DEF AppendHistory
<1>11. CASE Recheck(p)
  <2>1. CASE Reads(p, "approve", "write")
    <3>1. /\ cmd'[p].op = "approve" /\ cmd'[p].bound = contract /\ cmd'[p].of = release
          /\ cmd'[p].at = (IF contract = Nothing THEN "write" ELSE "load")
          /\ cmd'[p].chosen = cmd[p].chosen
      BY <1>0, <2>1, CommandReads
    <3>2. phase = "DRAFT" /\ offer # Nothing /\ cmd[p].chosen = offer
      BY <1>0, <1>11 DEF Recheck, At, CommandIsSound
    <3>3. /\ phase' = "DRAFT" /\ offer' # Nothing /\ cmd'[p].chosen = offer'
          /\ cmd'[p].bound = contract' /\ cmd'[p].of = release'
      BY <1>1, <3>1, <3>2 DEF releaseVars
    <3> QED BY <3>1, <3>3 DEF CommandIsSound
  <2> QED BY <1>3, <1>11, <2>1 DEF Recheck
<1>12. CASE Lock(p)
  <2>1. /\ cmd'[p].op = "lock" /\ cmd'[p].bound = contract /\ cmd'[p].of = release
        /\ cmd'[p].at = (IF contract = Nothing THEN "write" ELSE "load")
    BY <1>0, <1>12, CommandReads DEF Lock
  <2>2. phase' = "DRAFT" /\ cmd'[p].bound = contract' /\ cmd'[p].of = release'
    BY <1>1, <1>12, <2>1 DEF Lock, releaseVars
  <2> QED BY <2>1, <2>2 DEF CommandIsSound
<1>13. CASE Close(p)
  <2>1. /\ cmd'[p].op = "close" /\ cmd'[p].bound = contract /\ cmd'[p].of = release
        /\ cmd'[p].at = (IF contract = Nothing THEN "receipt" ELSE "load")
    BY <1>0, <1>13, CommandReads DEF Close
  <2>2. /\ phase' = "LOCKED" /\ lock' # Nothing /\ lock'.contract = contract'
        /\ cmd'[p].bound = contract' /\ cmd'[p].of = release'
    BY <1>1, <1>13, <2>1 DEF Close, releaseVars
  <2> QED BY <2>1, <2>2 DEF CommandIsSound
<1>14. CASE Halt(p)
  BY <1>3, <1>14 DEF Halt
<1> QED BY <1>4, <1>5, <1>6, <1>7, <1>9, <1>10, <1>11, <1>12, <1>13, <1>14

\* The tree: what commands rely on is not in the file.
LEMMA FileSteps ==
  ASSUME PlanInv, EditPlan \/ CommitPlan \/ UNCHANGED planVars
  PROVE  PlanInv'
<1>1. UNCHANGED <<releaseVars, offer, cmd>>
  BY DEF EditPlan, CommitPlan, planVars, releaseVars
<1>2. PlansAreValid'
  BY PlansStayValid DEF PlanInv, PlanNext
<1>3. ASSUME NEW p \in Procs PROVE CommandIsSound(p)'
  <2>1. StageReceipts' = StageReceipts /\ UNCHANGED <<receipts, cmd, lock>>
    BY <1>1, StageReceiptsStay DEF releaseVars
  <2>2. KeepsReceipts(cmd[p].plan) => KeepsReceipts(cmd[p].plan)'
    BY <2>1 DEF KeepsReceipts, Ids, StageOf, Supersedes
  <2>3. KeepsLock(cmd[p].plan) => KeepsLock(cmd[p].plan)'
    BY <2>1 DEF KeepsLock, Ids, StageOf, Supersedes
  <2>4. CommandIsSound(p)
    BY DEF PlanInv
  <2> QED BY <1>1, <2>2, <2>3, <2>4 DEF CommandIsSound, releaseVars
<1> QED BY <1>1, <1>2, <1>3, ReleaseStays DEF PlanInv

\* What is offered is free: its stage has no receipt that counts.
LEMMA SelectSteps ==
  ASSUME LoneProc, PlanInv, NEW p \in Procs, Select(p)
  PROVE  PlanInv'
<1>0. PlansAreValid /\ CommandIsSound(p) /\ \A q \in Procs : q = p
  BY DEF PlanInv, LoneProc
<1>1. UNCHANGED releaseVars /\ PlanEnds(p) /\ phase \in {"DRAFT", "CLOSED"} /\ release \in Nat
  BY <1>0 DEF Select, At, CommandIsSound, PlanInv, PlanNumbers
<1>2. PlansAreValid'
  BY <1>0, PlansStayValid DEF PlanNext, PlanCommand
<1>3. CommandIsSound(p)'
  BY <1>0, <1>1, CommandEnds, IdleIsSound
<1>4. StageReceipts' = StageReceipts
  BY <1>1, StageReceiptsStay DEF releaseVars
<1>5. LockNamesStage' /\ StageClosedOnce'
  BY <1>1, <1>4 DEF PlanInv, LockNamesStage, StageClosedOnce, releaseVars, Supersedes
<1> DEFINE plan == cmd[p].plan
           free(id) == id = Nothing \/ (plan # Nothing /\ id \notin Done(plan))
<1>6. offer' = offer \/ \E id : offer' = Offered(p, id) /\ free(id)
  <2>1. CASE plan = Nothing /\ offer' = Offered(p, Nothing)
    BY <2>1
  <2>2. CASE plan # Nothing /\ offer' = Offered(p, FirstReady(plan))
    BY <1>0, <2>2, FirstReadyIsOpen DEF PlansAreValid
  <2>3. CASE /\ plan # Nothing
             /\ offer' = IF cmd[p].request \in Ids(plan) /\ Selectable(plan, cmd[p].request)
                         THEN Offered(p, cmd[p].request) ELSE offer
    <3>1. Selectable(plan, cmd[p].request) => cmd[p].request \notin Done(plan)
      BY DEF Selectable, StageState
    <3> QED BY <2>3, <3>1
  <2> QED BY <2>1, <2>2, <2>3 DEF Select
<1>7. CASE offer' = offer
  <2>1. PlanNumbers' /\ StagesAreFree'
    BY <1>1, <1>7, ReleaseStays
  <2> QED BY <1>0, <1>2, <1>3, <1>5, <2>1 DEF PlanInv
<1>8. ASSUME NEW id, offer' = Offered(p, id), free(id) PROVE PlanInv'
  <2> DEFINE rel == IF phase = "DRAFT" THEN release ELSE release + 1
  <2>1. offer'.stage = id /\ offer'.plan = plan /\ offer'.release = rel
    BY <1>8 DEF Offered
  <2>2. rel \in Nat /\ release <= rel /\ (phase # "CLOSED" => rel = release)
    BY <1>1
  <2> HIDE DEF rel
  <2>3. \A q \in StageReceipts : q \in Nat /\ q <= release
    BY DEF PlanInv, StagesAreFree, StageReceipts
  <2>4. ASSUME NEW q \in StageReceipts PROVE q <= rel
    BY <1>1, <2>2, <2>3
  <2>5. ASSUME id # Nothing, ~Supersedes(plan), NEW q \in StageReceipts PROVE receipts[q].stage.id # id
    <3>1. plan # Nothing /\ id \notin Done(plan)
      BY <1>8, <2>5
    <3> QED BY <2>5, <3>1 DEF Done
  <2>6. ClosedAt(id, plan, rel)
    BY <2>4, <2>5 DEF ClosedAt
  <2>7. ClosedAt(offer.stage, offer.plan, offer.release)'
    BY <1>1, <1>4, <2>1, <2>6 DEF ClosedAt, releaseVars, Supersedes
  <2>8. \A q \in StageReceipts' : q <= release'
    BY <1>1, <1>4, <2>3 DEF releaseVars
  <2>9. contract' # Nothing => contract'.stage # Nothing /\ ClosedAt(contract.stage, contract.plan, release)'
    BY <1>1, <1>4 DEF PlanInv, StagesAreFree, releaseVars, ClosedAt, Supersedes
  <2>10. phase' # "CLOSED" => offer'.release = release'
    BY <1>1, <2>1, <2>2 DEF releaseVars
  <2>11. StagesAreFree'
    BY <2>7, <2>8, <2>9, <2>10 DEF StagesAreFree
  <2>12. PlanNumbers'
    BY <1>1, <2>1, <2>2 DEF PlanInv, PlanNumbers, releaseVars
  <2> QED BY <1>0, <1>2, <1>3, <1>5, <2>11, <2>12 DEF PlanInv
<1> QED BY <1>6, <1>7, <1>8

\* The next draft: it binds nothing yet.
LEMMA DraftIsFree ==
  ASSUME PlanInv, NEW next \in Nat, NextDraft(next), UNCHANGED offer
  PROVE  PlanNumbers' /\ StagesAreFree' /\ LockNamesStage' /\ StageClosedOnce'
<1>1. /\ release' = next /\ contract' = Nothing /\ lock' = Nothing /\ UNCHANGED <<receipts, offer>>
      /\ release < next /\ release \in Nat
  BY DEF NextDraft, PlanInv, PlanNumbers
<1>2. StageReceipts' = StageReceipts
  BY <1>1, StageReceiptsStay
<1>3. \A q \in StageReceipts : q \in Nat /\ q <= release
  BY DEF PlanInv, StagesAreFree, StageReceipts
<1>4. \A q \in StageReceipts' : q <= release'
  BY <1>1, <1>2, <1>3
<1>5. offer' # Nothing => ClosedAt(offer.stage, offer.plan, offer.release)'
  BY <1>1, <1>2 DEF PlanInv, StagesAreFree, ClosedAt, Supersedes
<1>6. StagesAreFree'
  BY <1>1, <1>4, <1>5 DEF StagesAreFree
<1> QED BY <1>1, <1>2, <1>6 DEF PlanInv, PlanNumbers, LockNamesStage, StageClosedOnce, Supersedes

\* The steps of an approval up to the contract.
LEMMA DraftSteps ==
  ASSUME LoneProc, PlanInv, NEW p \in Procs, PrepareApproved(p) \/ Prepare(p) \/ WriteContract(p)
  PROVE  PlanInv'
<1>0. PlansAreValid /\ CommandIsSound(p) /\ \A q \in Procs : q = p
  BY DEF PlanInv, LoneProc
<1>1. UNCHANGED offer /\ release \in Nat
  BY DEF PrepareApproved, Prepare, WriteContract, PlanInv, PlanNumbers
<1>2. PlansAreValid'
  BY <1>0, PlansStayValid DEF PlanNext, PlanCommand
<1>3. CASE Prepare(p)
  <2>1. UNCHANGED cmd /\ cmd[p].op = "idle" /\ NextDraft(release + 1)
    BY <1>3 DEF Prepare, Free
  <2>2. cmd'[p].op = "idle" /\ cmd'[p].at = "idle"
    BY <1>0, <2>1 DEF CommandIsSound
  <2>3. release + 1 \in Nat
    BY <1>1
  <2> QED BY <1>0, <1>1, <1>2, <2>1, <2>2, <2>3, DraftIsFree, IdleIsSound DEF PlanInv
<1>4. CASE PrepareApproved(p)
  <2>1. /\ cmd[p].op = "approve" /\ cmd[p].at = "prepare" /\ offer # Nothing
        /\ cmd[p].chosen = offer /\ offer.release \in Nat
    BY <1>0, <1>4 DEF PrepareApproved, At, CommandIsSound, PlanInv, PlanNumbers
  <2>2. CASE PlanEnds(p) /\ UNCHANGED releaseVars
    <3>1. CommandIsSound(p)'
      BY <1>0, <2>2, CommandEnds, IdleIsSound
    <3> QED BY <1>0, <1>1, <1>2, <2>2, <3>1, ReleaseStays DEF PlanInv
  <2>3. ASSUME PlanGoes(p, "contract"), phase' = "DRAFT" PROVE CommandIsSound(p)'
    <3>1. /\ cmd'[p].op = "approve" /\ cmd'[p].at = "contract" /\ cmd'[p].chosen = offer'
          /\ offer' # Nothing
      BY <1>0, <1>1, <2>1, <2>3, CommandGoes
    <3> QED BY <2>3, <3>1 DEF CommandIsSound
  <2>4. CASE phase = "DRAFT" /\ UNCHANGED releaseVars /\ PlanGoes(p, "contract")
    <3>1. CommandIsSound(p)'
      BY <2>3, <2>4 DEF releaseVars
    <3> QED BY <1>0, <1>1, <1>2, <2>4, <3>1, ReleaseStays DEF PlanInv
  <2>5. CASE NextDraft(cmd[p].chosen.release) /\ PlanGoes(p, "contract")
    <3>1. CommandIsSound(p)'
      BY <2>3, <2>5 DEF NextDraft
    <3> QED BY <1>0, <1>1, <1>2, <2>1, <2>5, <3>1, DraftIsFree DEF PlanInv
  <2> QED BY <1>4, <2>2, <2>4, <2>5 DEF PrepareApproved
\* The contract takes over the offer, and the release with it.
<1>5. CASE WriteContract(p)
  <2>1. /\ cmd[p].op = "approve" /\ cmd[p].at = "contract" /\ offer # Nothing
        /\ cmd[p].chosen = offer /\ offer.release \in Nat /\ phase = "DRAFT"
    BY <1>0, <1>5 DEF WriteContract, At, CommandIsSound, PlanInv, PlanNumbers
  <2>2. /\ contract' = BoundTo(offer) /\ release' = offer.release /\ PlanGoes(p, "recheck")
        /\ UNCHANGED <<phase, lock, receipts, offer>>
    BY <1>5, <2>1 DEF WriteContract
  <2>3. StageReceipts' = StageReceipts
    BY <2>2, StageReceiptsStay
  <2>4. ClosedAt(offer.stage, offer.plan, offer.release)
    BY <2>1 DEF PlanInv, StagesAreFree
  <2>5. ClosedAt(offer.stage, offer.plan, offer.release)'
    BY <2>2, <2>3, <2>4 DEF ClosedAt, Supersedes
  <2>6. ASSUME contract' # Nothing
        PROVE  contract'.stage # Nothing /\ ClosedAt(contract.stage, contract.plan, release)'
    <3>1. offer.stage # Nothing /\ contract' = [stage |-> offer.stage, plan |-> offer.plan]
      BY <2>2, <2>6 DEF BoundTo
    <3>2. contract'.stage = offer'.stage /\ contract'.plan = offer'.plan /\ release' = offer'.release
      BY <2>2, <3>1
    <3> QED BY <2>2, <2>5, <3>1, <3>2
  <2>7. \A q \in StageReceipts' : q <= release'
    BY <2>2, <2>5 DEF ClosedAt
  <2>8. StagesAreFree'
    BY <2>2, <2>5, <2>6, <2>7 DEF StagesAreFree
  <2>9. PlanNumbers' /\ LockNamesStage' /\ StageClosedOnce'
    BY <2>1, <2>2, <2>3 DEF PlanInv, PlanNumbers, LockNamesStage, StageClosedOnce, Supersedes
  <2>10. CommandIsSound(p)'
    <3>1. /\ cmd'[p].op = "approve" /\ cmd'[p].at = "recheck" /\ cmd'[p].chosen = offer'
          /\ offer' # Nothing /\ phase' = "DRAFT"
      BY <1>0, <2>1, <2>2, CommandGoes
    <3> QED BY <3>1 DEF CommandIsSound
  <2> QED BY <1>0, <1>2, <2>8, <2>9, <2>10 DEF PlanInv
<1> QED BY <1>3, <1>4, <1>5

\* The stage a command freezes is the one its contract binds.
LEMMA StageNowIsBound ==
  ASSUME PlansAreValid, NEW p \in Procs, cmd[p].bound # Nothing, cmd[p].plan # Nothing, ~StageGone(p)
  PROVE  StageNow(p) # Nothing /\ StageNow(p).id = cmd[p].bound.stage
<1>1. cmd[p].bound.stage \in Ids(cmd[p].plan) /\ StageNow(p) = StageOf(cmd[p].plan, cmd[p].bound.stage)
  BY DEF StageGone, StageNow
<1>2. cmd[p].plan.stages \in StageLists
  BY DEF PlansAreValid
<1> QED BY <1>1, <1>2, StageOfId, PlanAssumption

\* The lock and the state that says so.
LEMMA LockSteps ==
  ASSUME LoneProc, PlanInv, NEW p \in Procs, WriteLock(p) \/ SetLocked(p)
  PROVE  PlanInv'
<1>0. PlansAreValid /\ CommandIsSound(p) /\ \A q \in Procs : q = p
  BY DEF PlanInv, LoneProc
<1>1. PlansAreValid'
  BY <1>0, PlansStayValid DEF PlanNext, PlanCommand
<1>2. CASE WriteLock(p)
  <2>1. /\ cmd[p].op \in {"lock", "approve"} /\ cmd[p].at = "write"
        /\ UNCHANGED <<release, phase, contract, receipts, offer>>
    BY <1>2 DEF WriteLock
  <2>2. CASE PlanEnds(p) /\ UNCHANGED lock
    <3>1. CommandIsSound(p)'
      BY <1>0, <2>2, CommandEnds, IdleIsSound
    <3> QED BY <1>0, <1>1, <2>1, <2>2, <3>1, ReleaseStays DEF PlanInv, releaseVars
  <2>3. CASE /\ ~StageGone(p) /\ PlanGoes(p, "state")
             /\ lock' = [contract |-> cmd[p].bound, stage |-> StageNow(p)]
    <3>1. lock'.contract = cmd[p].bound /\ lock'.stage = StageNow(p)
      BY <2>3
    <3>2. cmd[p].bound # Nothing => StageNow(p) # Nothing /\ StageNow(p).id = cmd[p].bound.stage
      BY <1>0, <2>1, <2>3, StageNowIsBound DEF CommandIsSound
    <3>3. LockNamesStage'
      BY <3>1, <3>2 DEF LockNamesStage
    <3>4. StageReceipts' = StageReceipts
      BY <2>1, StageReceiptsStay
    <3>5. PlanNumbers' /\ StagesAreFree' /\ StageClosedOnce'
      BY <2>1, <3>4 DEF PlanInv, PlanNumbers, StagesAreFree, StageClosedOnce, ClosedAt, Supersedes
    <3>6. CommandIsSound(p)'
      <4>1. /\ cmd'[p].op = cmd[p].op /\ cmd'[p].at = "state" /\ cmd'[p].chosen = cmd[p].chosen
            /\ cmd'[p].bound = cmd[p].bound /\ cmd'[p].of = cmd[p].of
        BY <1>0, <2>3, CommandGoes
      <4> QED BY <1>0, <2>1, <4>1 DEF CommandIsSound
    <3> QED BY <1>0, <1>1, <3>3, <3>5, <3>6 DEF PlanInv
  <2> QED BY <1>2, <2>2, <2>3 DEF WriteLock
<1>3. CASE SetLocked(p)
  <2>1. /\ phase = "DRAFT" /\ phase' = "LOCKED" /\ offer' \in {Nothing, offer} /\ PlanEnds(p)
        /\ UNCHANGED <<release, contract, lock, receipts>>
    BY <1>0, <1>3 DEF SetLocked, CommandIsSound
  <2>2. StageReceipts' = StageReceipts
    BY <2>1, StageReceiptsStay
  <2>3. PlanNumbers' /\ LockNamesStage' /\ StageClosedOnce'
    BY <2>1, <2>2 DEF PlanInv, PlanNumbers, LockNamesStage, StageClosedOnce, Supersedes
  <2>4. StagesAreFree'
    BY <2>1, <2>2 DEF PlanInv, StagesAreFree, ClosedAt, Supersedes
  <2>5. CommandIsSound(p)'
    BY <1>0, <2>1, CommandEnds, IdleIsSound
  <2> QED BY <1>0, <1>1, <2>3, <2>4, <2>5 DEF PlanInv
<1> QED BY <1>2, <1>3

\* The receipt that a close writes is the only one of its stage that counts.
LEMMA ReceiptSteps ==
  ASSUME LoneProc, PlanInv, NEW p \in Procs, WriteReceipt(p) \/ SetClosed(p)
  PROVE  PlanInv'
<1>0. PlansAreValid /\ CommandIsSound(p) /\ \A q \in Procs : q = p
  BY DEF PlanInv, LoneProc
<1>1. PlansAreValid'
  BY <1>0, PlansStayValid DEF PlanNext, PlanCommand
<1>2. UNCHANGED <<release, contract, lock, offer>>
  BY DEF WriteReceipt, SetClosed
<1>3. /\ cmd[p].op = "close" /\ phase = "LOCKED" /\ lock # Nothing /\ lock.contract = contract
      /\ cmd[p].bound = contract /\ cmd[p].of = release
  BY <1>0 DEF WriteReceipt, SetClosed, At, CommandIsSound
<1>4. CASE PlanEnds(p) /\ UNCHANGED receipts
  <2>1. StageReceipts' = StageReceipts
    BY <1>4, StageReceiptsStay
  <2>2. PlanNumbers' /\ LockNamesStage' /\ StageClosedOnce'
    BY <1>2, <1>4, <2>1 DEF PlanInv, PlanNumbers, LockNamesStage, StageClosedOnce, Supersedes
  <2>3. StagesAreFree'
    BY <1>2, <1>3, <1>4, <2>1 DEF PlanInv, StagesAreFree, ClosedAt, Supersedes
  <2>4. CommandIsSound(p)'
    BY <1>0, <1>4, CommandEnds, IdleIsSound
  <2> QED BY <1>0, <1>1, <2>2, <2>3, <2>4 DEF PlanInv
<1>5. CASE /\ WriteReceipt(p) /\ ~StageGone(p) /\ PlanGoes(p, "closed") /\ UNCHANGED phase
           /\ receipts' = [receipts EXCEPT ![cmd[p].of] = ReceiptNow(p)]
  <2> DEFINE others == StageReceipts \ {release}
             now == ReceiptNow(p)
  <2>0. /\ DOMAIN receipts = 1..MaxReleases /\ DOMAIN receipts' = 1..MaxReleases
        /\ \A r \in 1..MaxReleases : receipts'[r] = IF r = release THEN now ELSE receipts[r]
    BY <1>3, <1>5 DEF PlanInv, PlanNumbers
  <2>1. contract # Nothing => cmd[p].plan # Nothing
    BY <1>0, <1>3, <1>5 DEF WriteReceipt, At, CommandIsSound
  <2>2. /\ contract = Nothing => now.stage = Nothing
        /\ contract # Nothing => now.stage.id = contract.stage /\ now.plan = contract.plan
    <3>1. contract # Nothing => StageNow(p).id = contract.stage
      BY <1>0, <1>3, <1>5, <2>1, StageNowIsBound
    <3>2. contract = Nothing => StageNow(p) = Nothing
      BY <1>3 DEF StageNow
    <3> QED BY <1>3, <3>1, <3>2 DEF ReceiptNow
  <2> HIDE DEF now
  <2>3. /\ \A q \in StageReceipts' : q # release => q \in others /\ receipts'[q] = receipts[q]
        /\ release \in StageReceipts' => contract # Nothing /\ receipts'[release] = now
    BY <2>0, <2>2 DEF StageReceipts
  <2> HIDE DEF others
  <2>4. \A q \in others : q \in StageReceipts /\ q # release /\ q \in Nat /\ q <= release
    BY DEF others, PlanInv, StagesAreFree, StageReceipts
  <2>5. release \in Nat /\ \A q \in StageReceipts' : q \in Nat /\ q <= release
    <3>1. release \in Nat
      BY DEF PlanInv, PlanNumbers
    <3> QED BY <2>3, <2>4, <3>1
  <2>6. contract # Nothing /\ ~Supersedes(contract.plan) =>
          \A q \in others : receipts[q].stage.id # contract.stage
    BY <2>4 DEF others, PlanInv, StagesAreFree, ClosedAt
  \* No stage is closed twice.
  <2>7. StageClosedOnce'
    <3> SUFFICES ASSUME NEW q \in StageReceipts', NEW r \in StageReceipts', q < r,
                        receipts'[q].stage.id = receipts'[r].stage.id
                 PROVE  Supersedes(receipts'[r].plan)
      BY DEF StageClosedOnce, Supersedes
    <3>1. q # release
      BY <2>5
    <3>2. q \in others /\ receipts'[q] = receipts[q]
      BY <2>3, <3>1
    <3>3. CASE r = release
      BY <2>2, <2>3, <2>6, <3>2, <3>3
    <3>4. CASE r # release
      <4>1. r \in others /\ receipts'[r] = receipts[r]
        BY <2>3, <3>4
      <4> QED BY <2>4, <3>2, <4>1 DEF PlanInv, StageClosedOnce
    <3> QED BY <3>3, <3>4
  \* The release that closes is the one the offer and the contract name.
  <2>8. StagesAreFree'
    <3>1. ASSUME offer' # Nothing PROVE ClosedAt(offer.stage, offer.plan, offer.release)'
      <4>1. offer' = offer /\ offer # Nothing /\ ClosedAt(offer.stage, offer.plan, offer.release)
        BY <1>2, <3>1 DEF PlanInv, StagesAreFree
      <4>2. contract # Nothing => offer.release = release
        BY <1>3, <4>1 DEF PlanInv, StagesAreFree
      <4>3. ASSUME NEW q \in StageReceipts' PROVE q <= offer.release
        <5>1. CASE q = release
          BY <2>3, <2>5, <4>2, <5>1
        <5>2. CASE q # release
          BY <2>3, <2>4, <4>1, <5>2 DEF ClosedAt
        <5> QED BY <5>1, <5>2
      <4>4. ASSUME offer.stage # Nothing, ~Supersedes(offer.plan), NEW q \in StageReceipts', q # offer.release
            PROVE  receipts'[q].stage.id # offer.stage
        <5>1. q # release
          BY <2>3, <4>2, <4>4
        <5>2. q \in StageReceipts /\ receipts'[q] = receipts[q]
          BY <2>3, <2>4, <5>1
        <5> QED BY <4>1, <4>4, <5>2 DEF ClosedAt
      <4> QED BY <4>1, <4>3, <4>4 DEF ClosedAt, Supersedes
    <3>2. ASSUME contract' # Nothing
          PROVE  contract'.stage # Nothing /\ ClosedAt(contract.stage, contract.plan, release)'
      <4>1. contract' = contract /\ release' = release /\ contract.stage # Nothing
        BY <1>2, <3>2 DEF PlanInv, StagesAreFree
      <4>2. ASSUME ~Supersedes(contract.plan), NEW q \in StageReceipts', q # release
            PROVE  receipts'[q].stage.id # contract.stage
        BY <2>3, <2>6, <3>2, <4>1, <4>2
      <4> QED BY <2>5, <4>1, <4>2 DEF ClosedAt, Supersedes
    <3>3. offer' # Nothing /\ contract' # Nothing /\ phase' # "CLOSED" => offer'.release = release'
      BY <1>2, <1>3 DEF PlanInv, StagesAreFree
    <3> QED BY <1>2, <2>5, <3>1, <3>2, <3>3 DEF StagesAreFree
  <2>9. PlanNumbers' /\ LockNamesStage'
    <3>1. receipts' = [r \in 1..MaxReleases |-> receipts'[r]]
      BY <1>5, <2>0
    <3> QED BY <1>2, <3>1 DEF PlanInv, PlanNumbers, LockNamesStage
  <2>10. CommandIsSound(p)'
    <3>1. /\ cmd'[p].op = "close" /\ cmd'[p].at = "closed" /\ cmd'[p].bound = contract'
          /\ cmd'[p].of = release' /\ phase' = "LOCKED" /\ lock' # Nothing /\ lock'.contract = contract'
      BY <1>0, <1>2, <1>3, <1>5, CommandGoes
    <3> QED BY <3>1 DEF CommandIsSound
  <2> QED BY <1>0, <1>1, <2>7, <2>8, <2>9, <2>10 DEF PlanInv
<1> QED BY <1>4, <1>5 DEF WriteReceipt, SetClosed

LEMMA PlanInvStays ==
  ASSUME LoneProc, PlanInv, [PlanNext]_planVars
  PROVE  PlanInv'
<1>1. CASE EditPlan \/ CommitPlan \/ UNCHANGED planVars
  BY <1>1, FileSteps
<1>2. ASSUME NEW p \in Procs, PlanCommand(p) PROVE PlanInv'
  BY <1>2, QuietSteps, SelectSteps, DraftSteps, LockSteps, ReceiptSteps DEF PlanCommand
<1> QED BY <1>1, <1>2 DEF PlanNext

\* No stage is carried out by two releases, whatever is edited, offered, approved, locked and
\* stopped half way, for any plans and any number of releases, while one process runs
\* commands at a time (computePlanProgress, selectPlanTier).
THEOREM StagesCloseOnce ==
  ASSUME LoneProc
  PROVE  PlanSpec => []StageClosedOnce
<1>1. PlanInv => StageClosedOnce
  BY DEF PlanInv
<1> QED BY <1>1, PlanInvInitially, PlanInvStays, PTL DEF PlanSpec

\* A receipt says of a stage what the lock said, whatever was edited between the lock and the
\* close, unless the plan that was loaded replaces another; one process at a time
\* (closePlanStageSnapshot, auditPlanHistory).
THEOREM ReceiptsAreLocked ==
  ASSUME LoneProc
  PROVE  PlanSpec => ReceiptIsLocked
<1> DEFINE Says == \A p \in Procs :
       WriteReceipt(p) /\ receipts' # receipts /\ cmd[p].bound # Nothing /\ lock.contract = cmd[p].bound
         => receipts'[cmd[p].of].stage = lock.stage \/ Supersedes(cmd[p].plan)
<1>1. PlanInv /\ [PlanNext]_planVars => [Says]_planVars
  <2> SUFFICES ASSUME PlanInv, NEW p \in Procs, WriteReceipt(p), receipts' # receipts,
                      cmd[p].bound # Nothing, lock.contract = cmd[p].bound, ~Supersedes(cmd[p].plan)
               PROVE  receipts'[cmd[p].of].stage = lock.stage
    OBVIOUS
  <2>1. ~StageGone(p) /\ receipts' = [receipts EXCEPT ![cmd[p].of] = ReceiptNow(p)]
    BY DEF WriteReceipt
  <2>2. cmd[p].of \in DOMAIN receipts
    BY <2>1 DEF PlanInv, PlanNumbers
  <2>3. cmd[p].plan # Nothing /\ KeepsLock(cmd[p].plan) /\ lock # Nothing
    BY DEF WriteReceipt, At, PlanInv, CommandIsSound
  <2>4. lock.stage.id = cmd[p].bound.stage
    BY <2>3 DEF PlanInv, LockNamesStage
  <2>5. ReceiptNow(p).stage = StageOf(cmd[p].plan, lock.stage.id)
    BY <2>4 DEF ReceiptNow, StageNow
  <2> QED BY <2>1, <2>2, <2>3, <2>5 DEF KeepsLock
<1> QED BY <1>1, PlanInvInitially, PlanInvStays, PTL DEF PlanSpec, ReceiptIsLocked

\* The history, and what comes last in it.
HistoryIsList == history \in Seq({history[i] : i \in DOMAIN history})

LEMMA HistoryStaysList ==
  ASSUME HistoryIsList, NEW entry, history' = Append(history, entry)
  PROVE  HistoryIsList' /\ history'[Len(history')] = entry
<1> DEFINE S == {history[i] : i \in DOMAIN history} \cup {entry}
           n == Len(history)
<1>1. history \in Seq(S) /\ entry \in S
  <2>1. {history[i] : i \in DOMAIN history} \subseteq S
    OBVIOUS
  <2> HIDE DEF S
  <2>2. history \in Seq(S)
    BY <2>1 DEF HistoryIsList
  <2> QED BY <2>2 DEF S
<1> HIDE DEF S
<1>2. /\ history' \in Seq(S) /\ Len(history') = n + 1 /\ history'[n + 1] = entry
  BY <1>1, AppendProperties
<1>3. history' \in Seq({history'[i] : i \in DOMAIN history'})
  <2>1. /\ Len(history') \in Nat /\ DOMAIN history' = 1..Len(history')
        /\ history' = [i \in 1..Len(history') |-> history'[i]]
    BY <1>2, LenProperties
  <2> DEFINE T == {history'[i] : i \in DOMAIN history'}
             m == Len(history')
  <2>2. \A i \in 1..m : history'[i] \in T
    BY <2>1
  <2> HIDE DEF T
  <2>3. history' \in [1..m -> T]
    BY <2>1, <2>2
  <2>4. history' \in Seq(T)
    BY <2>1, <2>3, SeqDef
  <2> QED BY <2>4 DEF T
<1> QED BY <1>2, <1>3 DEF HistoryIsList

\* The history takes up no plan that tells a closed stage otherwise than its receipt, one
\* process at a time: a file edited after the load is not the one recorded
\* (assertPlanHistory, recordPlanHash).
THEOREM HistoryHasNoOtherPlan ==
  ASSUME LoneProc
  PROVE  PlanSpec => HistoryKeepsEvidence
<1> DEFINE Keeps == history' # history =>
       LET plan == history'[Len(history')].plan IN
       Supersedes(plan) \/ \A r \in StageReceipts :
         receipts[r].stage.id \in Ids(plan) /\ StageOf(plan, receipts[r].stage.id) = receipts[r].stage
<1>1. PlanInit => HistoryIsList
  <2>1. <<>> \in Seq({}) /\ DOMAIN <<>> = {}
    BY EmptySeq
  <2>2. PlanInit => history = <<>>
    BY DEF PlanInit
  <2> QED BY <2>1, <2>2, EmptySeq DEF HistoryIsList
<1>2. ASSUME HistoryIsList, [PlanNext]_planVars
      PROVE  /\ HistoryIsList'
             /\ history' # history =>
                  \E p \in Procs : AppendHistory(p) /\ history'[Len(history')].plan = cmd[p].plan
  <2>1. CASE UNCHANGED history
    BY <1>2, <2>1 DEF HistoryIsList
  <2>2. ASSUME NEW p \in Procs, AppendHistory(p)
        PROVE  HistoryIsList' /\ history'[Len(history')].plan = cmd[p].plan
    BY <1>2, <2>2, HistoryStaysList DEF AppendHistory
  <2>3. UNCHANGED history \/ \E p \in Procs : AppendHistory(p)
    BY <1>2 DEF PlanNext, PlanCommand, planVars, EditPlan, CommitPlan, Check, Start, Load, ReadHistory,
         Select, Approve, PrepareApproved, Prepare, WriteContract, Recheck, Lock, WriteLock,
         SetLocked, Close, WriteReceipt, SetClosed, Halt
  <2> QED BY <2>1, <2>2, <2>3
<1>3. PlanInv /\ HistoryIsList /\ [PlanNext]_planVars => [Keeps]_planVars
  <2> SUFFICES ASSUME PlanInv, HistoryIsList, [PlanNext]_planVars, history' # history
               PROVE  KeepsReceipts(history'[Len(history')].plan)
    BY DEF KeepsReceipts
  <2>1. PICK p \in Procs : AppendHistory(p) /\ history'[Len(history')].plan = cmd[p].plan
    BY <1>2
  <2>2. KeepsReceipts(cmd[p].plan)
    BY <2>1 DEF AppendHistory, PlanInv, CommandIsSound
  <2> QED BY <2>1, <2>2
<1>4. HistoryIsList /\ [PlanNext]_planVars => HistoryIsList'
  BY <1>2
<1> QED BY <1>1, <1>3, <1>4, PlanInvInitially, PlanInvStays, PTL DEF PlanSpec, HistoryKeepsEvidence
=============================================================================
