---------------------------- MODULE LegacyState ----------------------------
(***************************************************************************)
(* State documents from before v1.10, which nothing signs, and their       *)
(* promotion (packages/stable-control/migration.mjs, the unsigned half of  *)
(* src/core/state-integrity.mjs).  Such a document is judged by the ledger *)
(* alone, and by the receipt or evidence its state needs; what the ledger  *)
(* proves may be signed.  Meanwhile hands change the document's state and  *)
(* commands of today write it.  StateStore models signed documents and     *)
(* their chain in full.                                                    *)
(***************************************************************************)
EXTENDS Integers, Sequences, ReleaseStates

CONSTANTS
  MaxWrites,  \* bound: events in the ledger
  MaxHands    \* bound: edits by hand, migrations that stop

ASSUME LegacyAssumption == MaxWrites \in Nat \ {0} /\ MaxHands \in Nat

VARIABLES
  events,     \* ledger.jsonl: the state an event proves ("none" for none), whether it signs
  doc,        \* state.json: `later' is that it names a previousRelease it comes after
  receipted,  \* the document's own release has a receipt that matches it
  evidence,   \* the document's last run has its manifest
  migration,  \* a migration: what it has read and done
  written,    \* the state a command wrote last
  hands       \* bound: edits and stops so far

legacyVars == <<events, doc, receipted, evidence, migration, written, hands>>

Upward == {"SHIPPABLE", "CLOSED"}
NoSignature == [head |-> 0, state |-> "none"]
NotMigrating == [at |-> "none", body |-> "none", to |-> "none"]
Proof(state) == [to |-> state, signed |-> FALSE]

LegacyTypeOK ==
  /\ events \in Seq([to : States \cup {"none"}, signed : BOOLEAN]) /\ Len(events) <= MaxWrites
  /\ doc.state \in States /\ doc.later \in BOOLEAN
  /\ doc.signature.head \in 0..Len(events)
  /\ {receipted, evidence} \subseteq BOOLEAN /\ written \in States /\ hands \in 0..MaxHands

\* A repository of v1.9; the ledger of a prepared one ends with an event that proves nothing.
LegacyInit ==
  /\ written \in States \ {"PAUSED"}
  /\ \/ doc = [state |-> written, later |-> FALSE, signature |-> NoSignature]
        /\ events = <<Proof(written)>>
        /\ receipted = (written = "CLOSED") /\ evidence = (written \in Upward)
     \/ written = "DRAFT"
        /\ doc = [state |-> "DRAFT", later |-> TRUE, signature |-> NoSignature]
        /\ events = <<Proof("CLOSED"), Proof("none")>> /\ receipted = FALSE /\ evidence = FALSE
  /\ migration = NotMigrating /\ hands = 0

-----------------------------------------------------------------------------
(* evaluateStateIntegrity. *)

\* ledgerProvenState.
LedgerState ==
  LET proving == {i \in DOMAIN events : events[i].to # "none"} IN
  IF proving = {} THEN "none" ELSE events[CHOOSE i \in proving : \A j \in proving : j <= i].to

\* legacyProvenState: the shape that a prepare before v1.10 leaves behind.
LegacyProven ==
  IF LedgerState = "CLOSED" /\ doc.state \notin Upward /\ doc.later THEN "DRAFT" ELSE LedgerState

ClosedUnchecked == FALSE

\* closedChecks fail.
ClosedUnbacked == ~receipted

\* semanticChecks fail; a legacy ledger can disprove only a claim of authority.
Unbacked(proven, legacy) ==
  \/ proven # "none" /\ doc.state # proven /\ (~legacy \/ doc.state \in Upward)
  \/ doc.state = "CLOSED" /\ ClosedUnbacked
  \/ doc.state = "SHIPPABLE" /\ ~evidence

\* signatureChecks: the digest covers the state, the head is the last write.
BadSignature ==
  \/ doc.signature.state # doc.state
  \/ \E j \in DOMAIN events : j > doc.signature.head /\ events[j].signed

LegacyLevel ==
  IF doc.signature = NoSignature
  THEN IF (\E i \in DOMAIN events : events[i].signed) \/ Unbacked(LegacyProven, TRUE)
       THEN "TAMPERED" ELSE "UNVERIFIED_LEGACY"
  ELSE IF BadSignature \/ Unbacked(LedgerState, FALSE) THEN "TAMPERED" ELSE "VERIFIED"

-----------------------------------------------------------------------------
(* migrateStateIntegrity: one event, then the document. *)

\* The event a prepare of v1.9 never wrote is written now, so that it proves the DRAFT.
MigrationProves == "DRAFT"

Migrate ==
  /\ migration.at # "event" /\ migration.at # "write" /\ Len(events) < MaxWrites
  /\ LegacyLevel = "UNVERIFIED_LEGACY" /\ LegacyProven = doc.state
  /\ migration' = [at |-> "event", body |-> doc.state,
                   to |-> IF LegacyProven = "DRAFT" /\ LedgerState = "CLOSED"
                          THEN MigrationProves ELSE doc.state]
  /\ UNCHANGED <<events, doc, receipted, evidence, written, hands>>

MigrationEvent ==
  /\ migration.at = "event"
  /\ events' = Append(events, [to |-> migration.to, signed |-> TRUE])
  /\ migration' = [migration EXCEPT !.at = "write"]
  /\ UNCHANGED <<doc, receipted, evidence, written, hands>>

MigrationWrite ==
  /\ migration.at = "write"
  /\ doc' = [doc EXCEPT !.state = migration.body,
                        !.signature = [head |-> Len(events), state |-> migration.body]]
  /\ migration' = [migration EXCEPT !.at = "done"]
  /\ UNCHANGED <<events, receipted, evidence, written, hands>>

StopMigration ==
  /\ migration.at \in {"event", "write"} /\ hands < MaxHands
  /\ migration' = NotMigrating /\ hands' = hands + 1
  /\ UNCHANGED <<events, doc, receipted, evidence, written>>

-----------------------------------------------------------------------------
(* Hands, and the commands of today. *)

EditState ==
  /\ hands < MaxHands
  /\ \E state \in States \ {doc.state} : doc' = [doc EXCEPT !.state = state]
  /\ hands' = hands + 1 /\ migration' = [migration EXCEPT !.at = IF @ = "done" THEN "none" ELSE @]
  /\ UNCHANGED <<events, receipted, evidence, written>>

\* A document that is merely unverified is trusted, and signed by the write.
CommandWrites ==
  /\ migration.at \in {"none", "done"} /\ Len(events) < MaxWrites
  /\ LegacyLevel # "TAMPERED"
  /\ \E next \in Transitions[doc.state] :
       /\ events' = Append(events, [to |-> next, signed |-> TRUE])
       /\ doc' = [doc EXCEPT !.state = next, !.signature = [head |-> Len(events) + 1, state |-> next]]
       /\ receipted' = (receipted \/ next = "CLOSED") /\ evidence' = (evidence \/ next \in Upward)
       /\ written' = next
  /\ migration' = NotMigrating
  /\ UNCHANGED hands

-----------------------------------------------------------------------------
LegacyNext ==
  \/ Migrate \/ MigrationEvent \/ MigrationWrite \/ StopMigration \/ EditState \/ CommandWrites

LegacySpec == LegacyInit /\ [][LegacyNext]_legacyVars

-----------------------------------------------------------------------------
(* SHIPPABLE and CLOSED are believed only where a command wrote them: no    *)
(* edit of an unsigned document, before or after its promotion and wherever *)
(* the promotion stopped, makes a claim of release authority that passes    *)
(* (evaluateStateIntegrity, legacyProvenState).                             *)
AuthorityWasWritten ==
  doc.state \in Upward /\ LegacyLevel # "TAMPERED" => written = doc.state
=============================================================================
