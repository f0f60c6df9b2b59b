--------------------------- MODULE DecisionLedger ---------------------------
(***************************************************************************)
(* The decision ledger: the append-only, hash-chained record of what was   *)
(* discovered, answered and accepted for a proposal.  Processes append     *)
(* under a lock file that they try to create a number of times; a command  *)
(* that is repeated appends nothing new.  A process may die at any step:   *)
(* its lock file stays, and the line it was writing may be torn.           *)
(*                                                                         *)
(* An event is the key of its content (proposal, revision, type, question, *)
(* choice, hashes), its sequence number, and two numbers that stand for    *)
(* its own hash and the previous one's.                                    *)
(***************************************************************************)
EXTENDS Integers, Sequences, FiniteSets

CONSTANTS
  Writers,        \* the processes
  EventKeys,      \* contents of events
  MaxEvents,      \* MAX_EVENTS
  LockAttempts,   \* LOCK_ATTEMPTS
  MaxMinted,      \* bound: events made
  Unowned

ASSUME LedgerAssumption ==
  MaxEvents \in Nat /\ LockAttempts \in Nat \ {0} /\ MaxMinted \in Nat
ASSUME UnownedIsNobody == Unowned \notin Writers

VARIABLES
  lines,      \* the ledger: events, and TornLine for a line a crash cut
  ledgerLock, \* the writer whose lock file exists, or Unowned
  writer,     \* [Writers -> [step, key, attempts, event]]
  minted      \* events made so far: each has its own hash
ledgerVars == <<lines, ledgerLock, writer, minted>>

TornLine == [key |-> Unowned, sequence |-> 0, hash |-> 0, previous |-> 0]
Asleep == [step |-> "idle", key |-> Unowned, attempts |-> 0, event |-> TornLine]

LedgerInit ==
  /\ lines = <<>> /\ ledgerLock = Unowned /\ minted = 0
  /\ writer = [w \in Writers |-> Asleep]

Last(events) == IF events = <<>> THEN TornLine ELSE events[Len(events)]

\* validateDecisionLedgerEvent, for an event and the one before it.
Follows(event, previous) ==
  event # TornLine /\ event.sequence = previous.sequence + 1 /\ event.previous = previous.hash

\* snapshot: every line parses, the chain holds and no key is there twice.
Readable(events) ==
  /\ Len(events) <= MaxEvents
  /\ \A i \in 1..Len(events) :
       Follows(events[i], IF i = 1 THEN TornLine ELSE events[i - 1])
  /\ \A i, j \in 1..Len(events) : i # j => events[i].key # events[j].key

Wakes(w, step) == writer' = [writer EXCEPT ![w].step = step]

StartAppend(w) ==
  /\ writer[w].step = "idle"
  /\ \E key \in EventKeys : writer' = [writer EXCEPT ![w] = [Asleep EXCEPT !.step = "locking", !.key = key]]
  /\ UNCHANGED <<lines, ledgerLock, minted>>

\* Mutant of LockRefused: after its attempts a writer goes on without the lock.
LockRefusedNever(w) == FALSE

LockRefused(w) == writer[w].attempts = LockAttempts

\* withLedgerLock: open(lock, 'wx') LOCK_ATTEMPTS times, then ERR_DECISION_LEDGER_BUSY.
TryLock(w) ==
  /\ writer[w].step = "locking"
  /\ \/ /\ ledgerLock = Unowned /\ writer[w].attempts < LockAttempts
        /\ ledgerLock' = w /\ Wakes(w, "reading")
     \/ /\ ledgerLock # Unowned /\ writer[w].attempts < LockAttempts
        /\ writer' = [writer EXCEPT ![w].attempts = @ + 1] /\ UNCHANGED ledgerLock
     \/ /\ writer[w].attempts = LockAttempts
        /\ IF LockRefused(w) THEN writer' = [writer EXCEPT ![w] = Asleep] ELSE Wakes(w, "reading")
        /\ UNCHANGED ledgerLock
  /\ UNCHANGED <<lines, minted>>

Duplicate(w) == \E i \in 1..Len(lines) : lines[i].key = writer[w].key

\* The snapshot is read and the event made from its last one.  An unreadable or
\* full ledger is an error, an event that is there already is returned.
MakeEvent(w) ==
  /\ writer[w].step = "reading" /\ minted < MaxMinted
  /\ IF Readable(lines) /\ ~Duplicate(w) /\ Len(lines) < MaxEvents
     THEN /\ minted' = minted + 1
          /\ writer' = [writer EXCEPT ![w].step = "appending", ![w].event =
               [key |-> writer[w].key, sequence |-> Last(lines).sequence + 1,
                hash |-> minted + 1, previous |-> Last(lines).hash]]
     ELSE Wakes(w, "unlocking") /\ UNCHANGED minted
  /\ UNCHANGED <<lines, ledgerLock>>

AppendEvent(w) ==
  /\ writer[w].step = "appending"
  /\ lines' = Append(lines, writer[w].event)
  /\ Wakes(w, "unlocking")
  /\ UNCHANGED <<ledgerLock, minted>>

\* The finally removes the lock file, whoever made it.
Unlock(w) ==
  /\ writer[w].step = "unlocking"
  /\ ledgerLock' = Unowned
  /\ writer' = [writer EXCEPT ![w] = Asleep]
  /\ UNCHANGED <<lines, minted>>

\* The process ends; another one takes its place.
DieWriting(w) ==
  /\ writer[w].step # "idle"
  /\ writer' = [writer EXCEPT ![w] = Asleep]
  /\ lines' \in {lines} \union (IF writer[w].step = "appending" THEN {Append(lines, TornLine)} ELSE {})
  /\ UNCHANGED <<ledgerLock, minted>>

\* The owner removes the lock file of a dead process by hand.
RemoveDeadLock ==
  /\ ledgerLock # Unowned /\ writer[ledgerLock].step \notin {"reading", "appending", "unlocking"}
  /\ ledgerLock' = Unowned
  /\ UNCHANGED <<lines, writer, minted>>

LedgerNext ==
  \/ \E w \in Writers :
       \/ StartAppend(w) \/ TryLock(w) \/ MakeEvent(w) \/ AppendEvent(w) \/ Unlock(w) \/ DieWriting(w)
  \/ RemoveDeadLock

LedgerSpec == LedgerInit /\ [][LedgerNext]_ledgerVars

-----------------------------------------------------------------------------
\* Only a torn last line can make the ledger unreadable: writers that wait, give
\* up, die or repeat a command never break its chain or record one thing twice.
WholeLinesAreReadable ==
  \/ Readable(lines)
  \/ lines # <<>> /\ Last(lines) = TornLine /\ Readable(SubSeq(lines, 1, Len(lines) - 1))
=============================================================================
