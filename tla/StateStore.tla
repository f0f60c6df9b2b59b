----------------------------- MODULE StateStore -----------------------------
(***************************************************************************)
(* The files under a release state: the signed state.json, the hash chain  *)
(* of ledger.jsonl that vouches for it (src/core/state.mjs,                *)
(* src/core/state-integrity.mjs), and processes that read and write them   *)
(* one file operation at a time, without a lock, dying at any point.       *)
(*                                                                         *)
(* An event's digest is its position in the ledger: the ledger only grows, *)
(* so two events never share one, and a chain link names the event the     *)
(* writer saw last.  state.json is replaced by a rename and a digest       *)
(* covers it, so a reader sees one whole document or another.              *)
(***************************************************************************)
EXTENDS Naturals, Sequences, ReleaseStates

CONSTANTS
  Procs,
  Targets,     \* bound: the states that writes go to
  MaxEvents,   \* bound: events in the ledger
  None

ASSUME BoundAssumption == MaxEvents \in Nat
ASSUME TargetsAssumption == Targets \subseteq States

VARIABLES
  ledger,   \* ledger.jsonl
  torn,     \* an append was cut short: no later read of the ledger parses
  file,     \* state.json, or None before init
  proc      \* proc[p]: the command process p is in the middle of

vars == <<ledger, torn, file, proc>>

Doc == [state : States, stop : BOOLEAN]
Position == 1..MaxEvents
File == [state : States, stop : BOOLEAN, head : Position]

\* to = None: an event that records no state write (gate.decision, release.closed).
Event == [prev : 0..MaxEvents, to : States \cup {None}]

Idle == [pc |-> "idle"]
Procedures ==
  {Idle}
    \cup [pc : {"read"}, seen : States]
    \cup [pc : {"assess"}, seen : States, doc : File]
    \cup [pc : {"ready"}, seen : States]
    \cup [pc : {"tail"}, doc : Doc \cup {None}]
    \cup [pc : {"append"}, doc : Doc \cup {None}, tail : 0..MaxEvents]
    \cup [pc : {"rename"}, doc : Doc, head : Position]

\* No file and no event of one is a document; none of them is the mark of absence.
ASSUME NoneIsFresh == None \notin States \cup Doc \cup File

TypeOK ==
  /\ ledger \in Seq(Event) /\ Len(ledger) <= MaxEvents
  /\ torn \in BOOLEAN
  /\ file \in File \cup {None}
  /\ proc \in [Procs -> Procedures]

-----------------------------------------------------------------------------
(* Integrity. *)

\* Mutant of ChainHolds: a link to any earlier event is accepted.
ChainLinksBack == \A i \in DOMAIN ledger : ledger[i].prev < i

\* verifyLedgerChain: every event is linked to the one before it.
ChainHolds == \A i \in DOMAIN ledger : ledger[i].prev = i - 1

\* Mutant of LastWrite: every event counts as a state write.
LastEvent == Len(ledger)

\* The last event with stateWrite, 0 if there is none.
LastWrite ==
  IF \E i \in DOMAIN ledger : ledger[i].to # None
  THEN CHOOSE i \in DOMAIN ledger :
         ledger[i].to # None /\ \A k \in (i+1)..Len(ledger) : ledger[k].to = None
  ELSE 0

\* Mutant of Vouched: the digest and the chain are checked, the position is not.
VouchedByChain(doc) == ChainHolds /\ doc.head \in DOMAIN ledger /\ ledger[doc.head].to = doc.state

\* evaluateStateIntegrity, for a document whose own digest is right.
Vouched(doc) ==
  /\ ChainHolds
  /\ doc.head = LastWrite
  /\ ledger[doc.head].to = doc.state

Trusted == ~torn /\ file # None /\ Vouched(file)

Becomes(p, next) == proc' = [proc EXCEPT ![p] = next]

-----------------------------------------------------------------------------
Init ==
  /\ ledger = <<>>
  /\ torn = FALSE
  /\ file = None
  /\ proc = [p \in Procs |-> Idle]

\* initializeState.
Initialize(p) ==
  /\ proc[p] = Idle
  /\ file = None
  /\ Becomes(p, [pc |-> "tail", doc |-> [state |-> "DRAFT", stop |-> FALSE]])
  /\ UNCHANGED <<ledger, torn, file>>

\* readTrustedState reads state.json twice, then the ledger: what it judges is
\* the second reading, what it returns the first.
ReadState(p) ==
  /\ proc[p] = Idle
  /\ file # None
  /\ Becomes(p, [pc |-> "read", seen |-> file.state])
  /\ UNCHANGED <<ledger, torn, file>>

ReadFile(p) ==
  /\ proc[p].pc = "read"
  /\ Becomes(p, [pc |-> "assess", seen |-> proc[p].seen, doc |-> file])
  /\ UNCHANGED <<ledger, torn, file>>

Assess(p) ==
  /\ proc[p].pc = "assess"
  /\ Becomes(p, IF ~torn /\ Vouched(proc[p].doc)
                THEN [pc |-> "ready", seen |-> proc[p].seen] ELSE Idle)
  /\ UNCHANGED <<ledger, torn, file>>

\* transitionState reads the state again, checks the table, and carries over
\* what the patch does not name.  A stop is set by pause and abort, and lifted
\* by resume.
Patched(next) ==
  {[state |-> next, stop |-> next \in {"PAUSED", "ABORTED"} \/ file.stop]}
    \cup IF file.state = "PAUSED" THEN {[state |-> next, stop |-> next = "ABORTED"]} ELSE {}

Transition(p) ==
  /\ proc[p].pc = "ready"
  /\ \E next \in Transitions[file.state] \cap Targets : \E doc \in Patched(next) :
       Becomes(p, [pc |-> "tail", doc |-> doc])
  /\ UNCHANGED <<ledger, torn, file>>

\* patchState reads the state again and asks nothing of the table.
Patch(p) ==
  /\ proc[p].pc = "ready"
  /\ Becomes(p, [pc |-> "tail", doc |-> [state |-> file.state, stop |-> file.stop]])
  /\ UNCHANGED <<ledger, torn, file>>

\* lockCommand reads the state without asking for its integrity.
Lock(p) ==
  /\ proc[p] = Idle
  /\ file # None /\ file.state = "DRAFT"
  /\ Becomes(p, [pc |-> "tail", doc |-> [state |-> "LOCKED", stop |-> file.stop]])
  /\ UNCHANGED <<ledger, torn, file>>

\* prepareNextRelease writes a fresh draft, on the state it read.
Prepare(p) ==
  /\ proc[p].pc = "ready" /\ proc[p].seen = "CLOSED"
  /\ Becomes(p, [pc |-> "tail", doc |-> [state |-> "DRAFT", stop |-> FALSE]])
  /\ UNCHANGED <<ledger, torn, file>>

\* A command records an event that is no state write.
Note(p) ==
  /\ proc[p].pc = "ready"
  /\ Becomes(p, [pc |-> "tail", doc |-> None])
  /\ UNCHANGED <<ledger, torn, file>>

-----------------------------------------------------------------------------
(* recordLedger and writeSignedState. *)

\* The digest of the last event.
Link == Len(ledger)

ReadTail(p) ==
  /\ proc[p].pc = "tail"
  /\ Becomes(p, IF torn THEN Idle
                ELSE [pc |-> "append", doc |-> proc[p].doc, tail |-> Link])
  /\ UNCHANGED <<ledger, torn, file>>

AppendEvent(p) ==
  LET doc == proc[p].doc IN
  /\ proc[p].pc = "append"
  /\ Len(ledger) < MaxEvents
  /\ ledger' = Append(ledger, [prev |-> proc[p].tail,
                               to |-> IF doc = None THEN None ELSE doc.state])
  /\ Becomes(p, IF doc = None THEN Idle
                ELSE [pc |-> "rename", doc |-> doc, head |-> Len(ledger) + 1])
  /\ UNCHANGED <<torn, file>>

\* The command may go on to another transition or event.
Rename(p) ==
  LET doc == proc[p].doc IN
  /\ proc[p].pc = "rename"
  /\ file' = [state |-> doc.state, stop |-> doc.stop, head |-> proc[p].head]
  /\ Becomes(p, [pc |-> "ready", seen |-> doc.state])
  /\ UNCHANGED <<ledger, torn>>

\* A command returns or fails, or its process dies between two operations.
Leave(p) ==
  /\ proc[p] # Idle
  /\ Becomes(p, Idle)
  /\ UNCHANGED <<ledger, torn, file>>

\* A process dies inside the append.
TearAppend(p) ==
  /\ proc[p].pc = "append"
  /\ torn' = TRUE
  /\ Becomes(p, Idle)
  /\ UNCHANGED <<ledger, file>>

Step(p) ==
  \/ Initialize(p) \/ Lock(p) \/ ReadState(p) \/ ReadFile(p) \/ Assess(p)
  \/ Transition(p) \/ Patch(p) \/ Prepare(p) \/ Note(p)
  \/ ReadTail(p) \/ AppendEvent(p) \/ Rename(p)
  \/ Leave(p) \/ TearAppend(p)

Next == \E p \in Procs : Step(p)

Spec == Init /\ [][Next]_vars

-----------------------------------------------------------------------------
(* Properties. *)

Writing == \E p \in Procs : proc[p].pc = "rename"

\* The ledger records a write that state.json never received.
Wounded ==
  file # None /\ ~Writing /\ \E i \in DOMAIN ledger : i > file.head /\ ledger[i].to # None

\* Nothing will be admitted any more.  A wounded DRAFT can still be locked.
Frozen == torn \/ (Wounded /\ file.state # "DRAFT")

\* With a single process, and whatever it dies in, the two files behave as the
\* one atomic, fail-closed release state that every command relies on
\* (transitionState, writeSignedState, readTrustedState).
Machine == INSTANCE ReleaseMachine WITH
  state <- IF file = None THEN "DRAFT" ELSE file.state,
  frozen <- Frozen
RefinesMachine == Machine!Spec

\* With a single process, state.json is vouched for whenever no write is under
\* way, unless a crash cut one short: events that record no write never
\* disturb it (recordLedger, signatureChecks).
QuietIsTrusted == file # None /\ ~Writing /\ ~torn /\ ~Wounded => Trusted

\* Two processes that extended the ledger from the same event are noticed: no
\* command that asks for integrity is admitted afterwards (verifyLedgerChain,
\* readTrustedState).
Forked == \E i, k \in DOMAIN ledger : i < k /\ ledger[i].prev = ledger[k].prev
Admits(p) == proc[p].pc = "assess" /\ proc'[p].pc = "ready"
ForksStopWork == [][Forked => \A p \in Procs : ~Admits(p)]_vars
=============================================================================
