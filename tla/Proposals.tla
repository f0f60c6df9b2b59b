------------------------------ MODULE Proposals ------------------------------
(***************************************************************************)
(* Scope proposals, from shipping_start to the approval that locks a       *)
(* release (src/core/proposals.mjs, proposal-state.mjs, baseline.mjs,      *)
(* baseline-commit.mjs, decision-ledger.mjs, goal-charter.mjs and          *)
(* release-train.mjs).                                                     *)
(*                                                                         *)
(* A proposal is one file, an index names the active one, and a revision   *)
(* archives the one before.  create and refine hold the proposal lock;     *)
(* approve does not.  Each is a series of writes to separate files, and a  *)
(* session may stop between two of them.  What the analysis finds is any   *)
(* of what it may find; a hash is the content hashed.                      *)
(***************************************************************************)
EXTENDS Integers, Sequences, FiniteSets

CONSTANTS
  Hosts,         \* sessions that create and refine
  Owners,        \* sessions that approve
  Files,         \* source files that may change
  Secrets,       \* files that a baseline commit refuses to take
  MaxProposals,  \* bound: proposals
  MaxRevisions,  \* bound: revisions of one
  MaxHead,       \* bound: commits
  MaxVersion,    \* bound: release versions
  MaxSurprises,  \* bound: sessions that stop half way, releases prepared by hand
  Null           \* no value

ASSUME ProposalAssumption ==
  /\ Hosts \cap Owners = {} /\ Secrets \subseteq Files
  /\ {MaxProposals, MaxRevisions, MaxHead, MaxVersion, MaxSurprises} \subseteq Nat

Sessions == Hosts \cup Owners

VARIABLES
  changed,    \* files that differ from HEAD
  commits,    \* for each commit, the files it changed; HEAD is the last
  proposals,  \* .shipping/proposals/<id>.json
  archive,    \* .shipping/proposals/<id>.r<n>.json
  index,      \* the active proposal's id and hash
  guard,      \* the proposal lock: Null, its holder, or "dead"
  status,     \* state.json: its state, and the proposal that was approved
  version,    \* the release of state.json
  scope,      \* contract.yaml: the content of the proposal it was compiled from
  frozen,     \* contract.lock: the contract and the commit
  train,      \* release-train.json: the proposal it is bound to
  charter,    \* goal-charter.json: its release and proposal
  closed,     \* releases with a receipt
  job,        \* what each session is doing
  surprises,  \* bound: sessions stopped and releases prepared by hand so far
  overtaken   \* history: the lock of the running approval is of a release that is over

treeVars == <<changed, commits>>
paperVars == <<proposals, archive, index, guard>>
lockVars == <<status, version, scope, frozen, train, charter, closed>>
asideVars == <<surprises, overtaken>>
proposalVars == <<treeVars, paperVars, lockVars, job, asideVars>>

-----------------------------------------------------------------------------
(* Proposals. *)

HeadSha == Len(commits)
Clean == changed = {}

\* The hash leaves out the approval.
Body(p) == [id |-> p.id, rev |-> p.rev, sha |-> p.sha, version |-> p.version,
            dirty |-> p.dirty, open |-> p.open, life |-> p.life]
Fingerprint(p) == [sha |-> p.sha, version |-> p.version]

\* deriveProposalState, in its order.
ProposalState(p) ==
  IF p.approved THEN "APPROVED"
  ELSE IF p.life = "superseded" THEN "SUPERSEDED"
  ELSE IF p.expired THEN "EXPIRED"
  ELSE IF p.open THEN "NEEDS_INPUT"
  ELSE IF p.dirty # {} THEN "DIRTY_BASELINE"
  ELSE "READY_FOR_APPROVAL"

Terminal(p) == ProposalState(p) \in {"APPROVED", "SUPERSEDED", "EXPIRED"}

Indexed == proposals[index.id]

\* findActiveScopeProposal trusts the index only with the fingerprint it names.
IndexSound == index # Null => Fingerprint(Indexed) = Fingerprint(index.body)

NextVersion == IF status.state = "CLOSED" THEN version + 1 ELSE version

\* The analysis: whether a question is open, the one of acceptance too weak included.
Analysed(id, rev, open) ==
  [id |-> id, rev |-> rev, sha |-> HeadSha, version |-> NextVersion, dirty |-> changed,
   open |-> open, life |-> "open", approved |-> FALSE, expired |-> FALSE]

Calm == [op |-> "idle", at |-> "idle", made |-> Null, old |-> Null]

ProposalTypeOK ==
  /\ changed \subseteq Files /\ HeadSha \in 0..MaxHead
  /\ \A id \in 1..MaxProposals : proposals[id] # Null =>
       proposals[id].id = id /\ proposals[id].rev \in 1..MaxRevisions
  /\ index # Null => proposals[index.id] # Null
  /\ guard \in Hosts \cup {Null, "dead"}
  /\ guard \in Hosts => job[guard].op \in {"create", "refine"}
  /\ status.state \in {"DRAFT", "LOCKED", "CLOSED"}
  /\ surprises \in 0..MaxSurprises /\ overtaken \in BOOLEAN

ProposalInit ==
  /\ changed = {} /\ commits = <<>>
  /\ proposals = [id \in 1..MaxProposals |-> Null] /\ archive = {}
  /\ index = Null /\ guard = Null
  /\ status = [state |-> "DRAFT", approved |-> Null] /\ version = 1
  /\ scope = Null /\ frozen = Null /\ train = Null /\ charter = Null /\ closed = {}
  /\ job = [s \in Sessions |-> Calm] /\ surprises = 0 /\ overtaken = FALSE

Does(s, op, step) == job[s].op = op /\ job[s].at = step
Resting(s) == job[s].op = "idle"
Turns(s, step) == job' = [job EXCEPT ![s].at = step]
Rests(s) == job' = [job EXCEPT ![s] = Calm]

-----------------------------------------------------------------------------
(* The working tree. *)

ChangeFile ==
  /\ \E f \in Files \ changed : changed' = changed \cup {f}
  /\ UNCHANGED <<commits, paperVars, lockVars, job, asideVars>>

CommitFiles ==
  /\ HeadSha < MaxHead
  /\ \E some \in (SUBSET changed) \ {{}} :
       commits' = Append(commits, some) /\ changed' = changed \ some
  /\ UNCHANGED <<paperVars, lockVars, job, asideVars>>

\* A proposal is good for a day; only the active one is ever asked its age.
Expire ==
  /\ index # Null /\ ~Terminal(Indexed)
  /\ proposals' = [proposals EXCEPT ![index.id].expired = TRUE]
  /\ UNCHANGED <<treeVars, archive, index, guard, lockVars, job, asideVars>>

-----------------------------------------------------------------------------
(* create: shipping_start. *)

\* One commit takes every change, or none when one of them is refused.
Committable == changed \cap Secrets = {}

Unused == {id \in 1..MaxProposals : proposals[id] = Null}

\* The same scope at the same commit is offered again rather than anew.
Reusable == index # Null /\ ~Terminal(Indexed) /\
            Fingerprint(Indexed) = [sha |-> HeadSha, version |-> NextVersion]

CreateCommits(s) ==
  /\ s \in Hosts /\ Resting(s) /\ guard = Null /\ ~Clean /\ Committable /\ HeadSha < MaxHead
  /\ commits' = Append(commits, changed) /\ changed' = {}
  /\ guard' = s
  /\ job' = [job EXCEPT ![s] = [Calm EXCEPT !.op = "create", !.at = "analyse"]]
  /\ UNCHANGED <<proposals, archive, index, lockVars, asideVars>>

\* Nothing to commit, or not asked to.
CreateAsIs(s) ==
  /\ s \in Hosts /\ Resting(s) /\ guard = Null
  /\ guard' = s
  /\ job' = [job EXCEPT ![s] = [Calm EXCEPT !.op = "create", !.at = "analyse"]]
  /\ UNCHANGED <<treeVars, proposals, archive, index, lockVars, asideVars>>

Analyse(s) ==
  /\ Does(s, "create", "analyse")
  /\ IF status.state \notin {"DRAFT", "CLOSED"} \/ ~IndexSound \/ Reusable \/ Unused = {}
     THEN Rests(s) /\ guard' = Null
     ELSE /\ UNCHANGED guard
          /\ \E open \in BOOLEAN :
               job' = [job EXCEPT
                 ![s].made = Analysed(CHOOSE id \in Unused : \A u \in Unused : id <= u, 1, open),
                 ![s].old = IF index # Null /\ ~Terminal(Indexed) THEN Indexed ELSE Null,
                 ![s].at = IF index # Null /\ ~Terminal(Indexed) THEN "supersede" ELSE "write"]
  /\ UNCHANGED <<treeVars, proposals, archive, index, lockVars, asideVars>>

\* The old proposal is rewritten as it was read, and the event follows: the decision
\* ledger may refuse it (full at 256 events, or busy), and then nothing new is written.
Supersede(s) ==
  /\ Does(s, "create", "supersede")
  /\ LET old == job[s].old IN
     /\ proposals' = [proposals EXCEPT ![old.id] = [old EXCEPT !.life = "superseded"]]
     /\ \/ Turns(s, "write") /\ UNCHANGED guard
        \/ Rests(s) /\ guard' = Null
  /\ UNCHANGED <<treeVars, archive, index, lockVars, asideVars>>

WriteProposal(s) ==
  /\ job[s].op \in {"create", "refine"} /\ job[s].at = "write"
  /\ proposals' = [proposals EXCEPT ![job[s].made.id] = job[s].made]
  /\ Turns(s, "index")
  /\ UNCHANGED <<treeVars, archive, index, guard, lockVars, asideVars>>

WriteIndex(s) ==
  /\ job[s].op \in {"create", "refine"} /\ job[s].at = "index"
  /\ index' = [id |-> job[s].made.id, body |-> Body(job[s].made)]
  /\ Turns(s, "record")
  /\ UNCHANGED <<treeVars, proposals, archive, guard, lockVars, asideVars>>

\* Whether the ledger takes the events or not.
RecordDiscovery(s) ==
  /\ job[s].op \in {"create", "refine"} /\ job[s].at = "record"
  /\ Rests(s) /\ guard' = Null
  /\ UNCHANGED <<treeVars, proposals, archive, index, lockVars, asideVars>>

-----------------------------------------------------------------------------
(* refine: shipping_refine. *)

\* The commit that preserves a dirty baseline follows the reviewed HEAD and holds
\* exactly the reviewed files.
Preserved(p) == HeadSha = p.sha + 1 /\ commits[HeadSha] = p.dirty

BaselineMoved(p) == p.dirty # changed \/ p.sha # HeadSha

Refinable ==
  /\ index # Null /\ Body(Indexed) = index.body /\ ~Terminal(Indexed)
  /\ ProposalState(Indexed) = "DIRTY_BASELINE" /\ BaselineMoved(Indexed) => Preserved(Indexed)

ArchiveFits(p) == \A a \in archive : a.id = p.id /\ a.rev = p.rev => a = Body(p)

Refine(s) ==
  /\ s \in Hosts /\ Resting(s) /\ guard = Null /\ Refinable
  /\ \E answers \in BOOLEAN :
       LET old == Indexed
           same == Analysed(old.id, old.rev, old.open /\ ~answers) IN
       /\ old.rev < MaxRevisions /\ Body(same) # Body(old)
       /\ job' = [job EXCEPT ![s] = [op |-> "refine", at |-> "archive", old |-> old,
                                     made |-> [same EXCEPT !.rev = old.rev + 1]]]
  /\ guard' = s
  /\ UNCHANGED <<treeVars, proposals, archive, index, lockVars, asideVars>>

ArchiveNow(s) ==
  IF ArchiveFits(job[s].old)
  THEN archive' = archive \cup {Body(job[s].old)} /\ Turns(s, "write") /\ UNCHANGED guard
  ELSE Rests(s) /\ guard' = Null /\ UNCHANGED archive

Archive(s) ==
  /\ Does(s, "refine", "archive") /\ ArchiveNow(s)
  /\ UNCHANGED <<treeVars, proposals, index, lockVars, asideVars>>

-----------------------------------------------------------------------------
(* approve: shipping_approve_scope. *)

\* The owner names the hash on the screen: any body that was once indexed.
Approvable(p) ==
  /\ status.state \in {"DRAFT", "CLOSED"}
  /\ IndexSound /\ Body(p) = index.body
  /\ ProposalState(p) = "READY_FOR_APPROVAL"
  /\ p.sha = HeadSha /\ Clean

ApproveScope(s) ==
  /\ s \in Owners /\ Resting(s) /\ index # Null /\ Approvable(Indexed)
  /\ job' = [job EXCEPT ![s] = [Calm EXCEPT !.op = "approve", !.at = "prepare", !.made = Indexed]]
  /\ overtaken' = FALSE
  /\ UNCHANGED <<treeVars, paperVars, lockVars, surprises>>

\* After a closed release the next draft is prepared first, from a clean tree.
PrepareDraft(s) ==
  /\ Does(s, "approve", "prepare")
  /\ LET next == job[s].made.version IN
     \/ /\ status.state = "DRAFT" /\ Turns(s, "contract") /\ UNCHANGED lockVars
     \/ /\ status.state = "CLOSED" /\ Clean /\ next > version
        /\ status' = [state |-> "DRAFT", approved |-> Null] /\ version' = next
        /\ scope' = Null /\ frozen' = Null
        /\ Turns(s, "contract") /\ UNCHANGED <<train, charter, closed>>
     \/ /\ status.state = "LOCKED" \/ (status.state = "CLOSED" /\ ~(Clean /\ next > version))
        /\ Rests(s) /\ UNCHANGED lockVars
  /\ UNCHANGED <<treeVars, paperVars, asideVars>>

WriteScope(s) ==
  /\ Does(s, "approve", "contract")
  /\ scope' = Body(job[s].made)
  /\ Turns(s, "lock")
  /\ UNCHANGED <<treeVars, paperVars, status, version, frozen, train, charter, closed, asideVars>>

UnmovedNot(p) == TRUE
Unmoved(p) == p.sha = HeadSha /\ Clean

\* HEAD and the tree are looked at again, and the lock takes contract.yaml as it is,
\* if it states a scope.
LockScope(s) ==
  /\ Does(s, "approve", "lock")
  /\ IF Unmoved(job[s].made) /\ scope # Null
     THEN frozen' = [scope |-> scope, sha |-> HeadSha] /\ Turns(s, "train")
     ELSE Rests(s) /\ UNCHANGED frozen
  /\ UNCHANGED <<treeVars, paperVars, status, version, scope, train, charter, closed, asideVars>>

WriteTrain(s) ==
  /\ Does(s, "approve", "train")
  /\ train' = Body(job[s].made) /\ Turns(s, "charter")
  /\ UNCHANGED <<treeVars, paperVars, status, version, scope, frozen, charter, closed, asideVars>>

\* An accepted charter carries the time of its acceptance: for one release there is
\* only ever one, and the next needs the receipt of the one before.
CharterWritable(p) == charter # Null => charter.version # p.version /\ charter.version \in closed

WriteCharter(s) ==
  /\ Does(s, "approve", "charter")
  /\ IF CharterWritable(job[s].made)
     THEN charter' = Body(job[s].made) /\ Turns(s, "state")
     ELSE Rests(s) /\ UNCHANGED charter
  /\ UNCHANGED <<treeVars, paperVars, status, version, scope, frozen, train, closed, asideVars>>

SetApproved(s) ==
  /\ Does(s, "approve", "state")
  /\ IF status.state = "DRAFT"
     THEN /\ status' = [state |-> "LOCKED", approved |-> Body(job[s].made)]
          /\ version' = job[s].made.version /\ Turns(s, "mark")
     ELSE Rests(s) /\ UNCHANGED <<status, version>>
  /\ UNCHANGED <<treeVars, paperVars, scope, frozen, train, charter, closed, asideVars>>

\* The proposal is written as it was when the approval began.
MarkApproved(s) ==
  /\ Does(s, "approve", "mark")
  /\ proposals' = [proposals EXCEPT ![job[s].made.id] = [job[s].made EXCEPT !.approved = TRUE]]
  /\ Turns(s, "reindex")
  /\ UNCHANGED <<treeVars, archive, index, guard, lockVars, asideVars>>

Reindex(s) ==
  /\ Does(s, "approve", "reindex")
  /\ index' = [id |-> job[s].made.id, body |-> Body(job[s].made)]
  /\ Rests(s)
  /\ UNCHANGED <<treeVars, proposals, archive, guard, lockVars, asideVars>>

-----------------------------------------------------------------------------
(* Around it. *)

\* `shipping-harness lock' locks the draft that is there.
LockByHand ==
  /\ status.state = "DRAFT" /\ scope # Null
  /\ frozen' = [scope |-> scope, sha |-> HeadSha]
  /\ status' = [state |-> "LOCKED", approved |-> Null]
  /\ version' = scope.version
  /\ UNCHANGED <<treeVars, paperVars, scope, train, charter, closed, job, asideVars>>

\* The work of the release: from LOCKED to CLOSED, with its receipt.
CloseRelease ==
  /\ status.state = "LOCKED" /\ frozen # Null /\ frozen.scope = scope /\ version < MaxVersion
  /\ status' = [status EXCEPT !.state = "CLOSED"] /\ closed' = closed \cup {scope.version}
  /\ UNCHANGED <<treeVars, paperVars, version, scope, frozen, train, charter, job, asideVars>>

\* `shipping-harness release prepare': the next draft states no scope and has no lock.
\* An approval that had written the lock before the release was closed goes on unaware.
PrepareByHand ==
  /\ status.state = "CLOSED" /\ Clean /\ version < MaxVersion
  /\ surprises < MaxSurprises /\ surprises' = surprises + 1
  /\ status' = [state |-> "DRAFT", approved |-> Null] /\ version' = version + 1
  /\ scope' = Null /\ frozen' = Null
  /\ overtaken' = (overtaken \/ \E s \in Owners : job[s].op = "approve"
                                             /\ job[s].at \in {"train", "charter", "state"})
  /\ UNCHANGED <<treeVars, paperVars, train, charter, closed, job>>

\* A session that stops leaves its lock file, which nothing ever takes away.
Crash(s) ==
  /\ ~Resting(s) /\ surprises < MaxSurprises
  /\ surprises' = surprises + 1 /\ Rests(s)
  /\ guard' = IF guard = s THEN "dead" ELSE guard
  /\ UNCHANGED <<treeVars, proposals, archive, index, lockVars, overtaken>>

\* Until a person does.
RemoveGuard ==
  /\ guard = "dead" /\ guard' = Null
  /\ UNCHANGED <<treeVars, proposals, archive, index, lockVars, job, asideVars>>

-----------------------------------------------------------------------------
ProposalStep(s) ==
  \/ CreateCommits(s) \/ CreateAsIs(s) \/ Analyse(s) \/ Supersede(s) \/ WriteProposal(s)
  \/ WriteIndex(s) \/ RecordDiscovery(s) \/ Refine(s) \/ Archive(s)
  \/ ApproveScope(s) \/ PrepareDraft(s) \/ WriteScope(s) \/ LockScope(s) \/ WriteTrain(s)
  \/ WriteCharter(s) \/ SetApproved(s) \/ MarkApproved(s) \/ Reindex(s) \/ Crash(s)

ProposalNext ==
  \/ ChangeFile \/ CommitFiles \/ Expire \/ LockByHand \/ CloseRelease \/ PrepareByHand
  \/ RemoveGuard
  \/ \E s \in Sessions : ProposalStep(s)

ProposalSpec == ProposalInit /\ [][ProposalNext]_proposalVars

-----------------------------------------------------------------------------
(* What an approval leaves behind agrees, whatever was created, refined or  *)
(* cut short meanwhile: state, lock, release train and goal charter name    *)
(* the approved revision, at the commit it was made for                     *)
(* (approveScopeProposal).  Not so for an approval that pauses between its  *)
(* lock and its state while the release is locked by hand, worked on,       *)
(* closed and followed by the next draft.                                   *)
LockedIsApproved ==
  status.state = "LOCKED" /\ status.approved # Null /\ ~overtaken =>
    /\ frozen.scope = status.approved /\ frozen.sha = status.approved.sha
    /\ train = status.approved /\ charter = status.approved
=============================================================================
