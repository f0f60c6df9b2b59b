-------------------------- MODULE StateStore_proofs --------------------------
(***************************************************************************)
(* What the two files under a release state promise for any table of       *)
(* target states and any number of events: to any number of processes,     *)
(* that a forked ledger admits nobody; to one process, however often it    *)
(* dies, that they behave as the atomic, fail-closed ReleaseMachine.       *)
(***************************************************************************)
EXTENDS StateStore, SequenceTheorems, TLAPS

-----------------------------------------------------------------------------
(* Types. *)

LEMMA TableTyped ==
  ASSUME NEW s \in States
  PROVE  Transitions[s] \subseteq States
BY DEF Transitions, States, Terminal

LEMMA DraftsLock == "LOCKED" \in Transitions["DRAFT"]
<1>1. Transitions["DRAFT"] = {"LOCKED", "ABORTED"}
  BY DEF Transitions, States, Terminal
<1> QED BY <1>1

\* A process that has read state.json found one, and it is never removed.
Read == {"read", "assess", "ready"}
TypeInv == TypeOK /\ \A p \in Procs : proc[p].pc \in Read => file \in File

LEMMA ProcTyped ==
  ASSUME TypeOK, NEW p \in Procs
  PROVE  /\ proc[p] \in Procedures
         /\ proc[p].pc = "read" => proc[p].seen \in States
         /\ proc[p].pc = "assess" => proc[p].seen \in States /\ proc[p].doc \in File
         /\ proc[p].pc = "ready" => proc[p].seen \in States
         /\ proc[p].pc = "tail" => proc[p].doc \in Doc \cup {None}
         /\ proc[p].pc = "append" =>
              proc[p].doc \in Doc \cup {None} /\ proc[p].tail \in 0..MaxEvents
         /\ proc[p].pc = "rename" => proc[p].doc \in Doc /\ proc[p].head \in Position
<1>1. proc[p] \in Procedures
  BY DEF TypeOK
<1> HIDE DEF Doc, File, Position, States
<1> QED BY <1>1 DEF Procedures, Idle

LEMMA BecomesTyped ==
  ASSUME TypeInv, NEW p \in Procs, NEW next \in Procedures, Becomes(p, next),
         next.pc \in Read => file \in File, UNCHANGED <<ledger, torn, file>>
  PROVE  TypeInv'
BY DEF TypeInv, TypeOK, Becomes

LEMMA InitTyped == Init => TypeInv
<1> SUFFICES ASSUME Init PROVE TypeInv
  OBVIOUS
<1>1. \A p \in Procs : proc[p] = Idle
  BY DEF Init
<1>2. proc \in [Procs -> Procedures]
  BY DEF Init, Procedures
<1>3. ledger \in Seq(Event) /\ Len(ledger) <= MaxEvents
  BY BoundAssumption DEF Init
<1> QED BY <1>1, <1>2, <1>3 DEF Init, TypeInv, TypeOK, Idle, Read

LEMMA ComputeTyped ==
  ASSUME TypeInv, NEW p \in Procs,
         Initialize(p) \/ Lock(p) \/ ReadState(p) \/ ReadFile(p) \/ Assess(p)
           \/ Transition(p) \/ Patch(p) \/ Prepare(p) \/ Note(p) \/ ReadTail(p) \/ Leave(p)
  PROVE  TypeInv'
<1> DEFINE old == proc[p]
<1> USE ProcTyped DEF Procedures, TypeInv
<1>0. \A d \in Doc \cup {None} : [pc |-> "tail", doc |-> d] \in Procedures
  OBVIOUS
<1>1. CASE Initialize(p)
  <2>1. [state |-> "DRAFT", stop |-> FALSE] \in Doc
    BY DEF Doc, States
  <2> QED BY <1>0, <1>1, <2>1, BecomesTyped DEF Initialize, Read
<1>2. CASE Lock(p)
  <2>1. file \in File
    BY <1>2 DEF Lock, TypeOK
  <2>2. [state |-> "LOCKED", stop |-> file.stop] \in Doc
    BY <2>1 DEF Doc, File, States
  <2> QED BY <1>0, <1>2, <2>2, BecomesTyped DEF Lock, Read
<1>3. CASE ReadState(p)
  <2>1. file \in File
    BY <1>3 DEF ReadState, TypeOK
  <2>2. [pc |-> "read", seen |-> file.state] \in Procedures
    BY <2>1 DEF File
  <2> QED BY <1>3, <2>1, <2>2, BecomesTyped DEF ReadState
<1>4. CASE ReadFile(p)
  <2>1. file \in File /\ old.seen \in States
    BY <1>4 DEF ReadFile, Read
  <2>2. [pc |-> "assess", seen |-> old.seen, doc |-> file] \in Procedures
    BY <2>1
  <2> QED BY <1>4, <2>1, <2>2, BecomesTyped DEF ReadFile
<1>5. CASE Assess(p)
  <2>1. file \in File /\ old.seen \in States
    BY <1>5 DEF Assess, Read
  <2>2. [pc |-> "ready", seen |-> old.seen] \in Procedures /\ Idle \in Procedures
    BY <2>1
  <2> QED BY <1>5, <2>1, <2>2, BecomesTyped DEF Assess
<1>6. CASE Transition(p)
  <2>1. file \in File
    BY <1>6 DEF Transition, Read
  <2>2. PICK next \in Transitions[file.state] :
          \E doc \in Patched(next) : Becomes(p, [pc |-> "tail", doc |-> doc])
    BY <1>6 DEF Transition
  <2>3. PICK doc \in Patched(next) : Becomes(p, [pc |-> "tail", doc |-> doc])
    BY <2>2
  <2>4. next \in States /\ file.stop \in BOOLEAN
    BY <2>1, <2>2, TableTyped DEF File
  <2>5. \A stop \in BOOLEAN : [state |-> next, stop |-> stop] \in Doc
    BY <2>4 DEF Doc
  <2>6. doc \in Doc
    <3>1. CASE doc = [state |-> next, stop |-> next \in {"PAUSED", "ABORTED"} \/ file.stop]
      BY <2>5, <3>1
    <3>2. CASE doc = [state |-> next, stop |-> next = "ABORTED"]
      BY <2>5, <3>2
    <3> QED BY <2>3, <3>1, <3>2 DEF Patched
  <2> QED BY <1>0, <1>6, <2>3, <2>6, BecomesTyped DEF Transition, Read
<1>7. CASE Patch(p)
  <2>1. file \in File
    BY <1>7 DEF Patch, Read
  <2>2. [state |-> file.state, stop |-> file.stop] \in Doc
    BY <2>1 DEF File, Doc
  <2> QED BY <1>0, <1>7, <2>2, BecomesTyped DEF Patch, Read
<1>8. CASE Prepare(p)
  <2>1. [state |-> "DRAFT", stop |-> FALSE] \in Doc
    BY DEF Doc, States
  <2> QED BY <1>0, <1>8, <2>1, BecomesTyped DEF Prepare, Read
<1>9. CASE Note(p)
  BY <1>0, <1>9, BecomesTyped DEF Note, Read
<1>10. CASE ReadTail(p)
  <2>1. Link \in 0..MaxEvents
    BY DEF TypeOK, Link
  <2>2. [pc |-> "append", doc |-> old.doc, tail |-> Link] \in Procedures /\ Idle \in Procedures
    BY <1>10, <2>1 DEF ReadTail
  <2> QED BY <1>10, <2>2, BecomesTyped DEF ReadTail, Idle, Read
<1>11. CASE Leave(p)
  BY <1>11, BecomesTyped DEF Leave, Idle, Read
<1> QED BY <1>1, <1>2, <1>3, <1>4, <1>5, <1>6, <1>7, <1>8, <1>9, <1>10, <1>11

LEMMA WriteTyped ==
  ASSUME TypeInv, NEW p \in Procs, AppendEvent(p) \/ Rename(p) \/ TearAppend(p)
  PROVE  TypeInv'
<1> DEFINE old == proc[p]
<1> USE ProcTyped DEF TypeInv, TypeOK
<1>1. CASE AppendEvent(p)
  <2> DEFINE event == [prev |-> old.tail, to |-> IF old.doc = None THEN None ELSE old.doc.state]
             next == IF old.doc = None THEN Idle
                     ELSE [pc |-> "rename", doc |-> old.doc, head |-> Len(ledger) + 1]
  <2>1. event \in Event
    BY <1>1 DEF AppendEvent, Event, Doc
  <2>2. ledger' \in Seq(Event) /\ Len(ledger') <= MaxEvents /\ Len(ledger) + 1 \in Position
    BY <1>1, <2>1, BoundAssumption DEF AppendEvent, Position
  <2>3. next \in Procedures /\ next.pc \notin Read
    BY <1>1, <2>2 DEF AppendEvent, Procedures, Idle, Read
  <2>4. proc' = [proc EXCEPT ![p] = next] /\ UNCHANGED <<torn, file>>
    BY <1>1 DEF AppendEvent, Becomes
  <2> QED BY <2>2, <2>3, <2>4
<1>2. CASE Rename(p)
  <2> DEFINE next == [pc |-> "ready", seen |-> old.doc.state]
  <2>1. file' \in File /\ next \in Procedures
    BY <1>2 DEF Rename, Doc, File, Procedures
  <2>2. proc' = [proc EXCEPT ![p] = next] /\ UNCHANGED <<ledger, torn>>
    BY <1>2 DEF Rename, Becomes
  <2> QED BY <2>1, <2>2
<1>3. CASE TearAppend(p)
  <2>1. Idle \in Procedures /\ Idle.pc \notin Read
    BY DEF Procedures, Idle, Read
  <2>2. proc' = [proc EXCEPT ![p] = Idle] /\ torn' = TRUE /\ UNCHANGED <<ledger, file>>
    BY <1>3 DEF TearAppend, Becomes
  <2> QED BY <2>1, <2>2
<1> QED BY <1>1, <1>2, <1>3

LEMMA NextTyped == TypeInv /\ [Next]_vars => TypeInv'
<1> SUFFICES ASSUME TypeInv, [Next]_vars PROVE TypeInv'
  OBVIOUS
<1>1. ASSUME NEW p \in Procs, Step(p) PROVE TypeInv'
  BY <1>1, ComputeTyped, WriteTyped DEF Step
<1>2. CASE UNCHANGED vars
  BY <1>2 DEF TypeInv, TypeOK, vars
<1> QED BY <1>1, <1>2 DEF Next

\* Ledger, file and processes are well typed, for any number of processes,
\* target states and events.
THEOREM TypeCorrect == Spec => []TypeInv
<1>1. Init => TypeInv
  BY InitTyped
<1>2. TypeInv /\ [Next]_vars => TypeInv'
  BY NextTyped
<1> QED BY <1>1, <1>2, PTL DEF Spec

-----------------------------------------------------------------------------
(* Any number of processes: a fork is noticed. *)

LEMMA ForksRefuse ==
  ASSUME TypeOK, Next, Forked, NEW p \in Procs
  PROVE  ~Admits(p)
<1> SUFFICES ASSUME Admits(p) PROVE FALSE
  OBVIOUS
<1>1. ~ChainHolds
  BY DEF Forked, ChainHolds, TypeOK
<1>2. PICK q \in Procs : Step(q)
  BY DEF Next
<1>3. \A next : Becomes(q, next) => q = p /\ next.pc = "ready"
  BY DEF Admits, Becomes, TypeOK
<1>4. proc[p].pc = "assess"
  BY DEF Admits
<1>5. Idle.pc = "idle"
  BY DEF Idle
<1>6. CASE Assess(q)
  BY <1>1, <1>3, <1>5, <1>6 DEF Assess, Vouched
<1>7. CASE Leave(q) \/ TearAppend(q)
  BY <1>3, <1>5, <1>7 DEF Leave, TearAppend
<1>8. CASE Rename(q)
  BY <1>3, <1>4, <1>8 DEF Rename
<1>9. CASE Initialize(q) \/ Lock(q) \/ ReadState(q)
  BY <1>3, <1>4, <1>5, <1>9 DEF Initialize, Lock, ReadState
<1>10. CASE ReadFile(q) \/ Patch(q) \/ Prepare(q) \/ Note(q)
  BY <1>3, <1>10 DEF ReadFile, Patch, Prepare, Note
<1>12. CASE Transition(q)
  <2>1. PICK doc : Becomes(q, [pc |-> "tail", doc |-> doc])
    BY <1>12 DEF Transition
  <2> QED BY <1>3, <2>1
<1>11. CASE ReadTail(q) \/ AppendEvent(q)
  BY <1>3, <1>4, <1>11 DEF ReadTail, AppendEvent
<1> QED
  BY <1>2, <1>6, <1>7, <1>8, <1>9, <1>10, <1>11, <1>12 DEF Step

\* However many processes write without a lock, once two of them have extended
\* the ledger from the same event no command that asks for integrity is
\* admitted (verifyLedgerChain, readTrustedState).
THEOREM ForkedLedgersAdmitNobody == Spec => ForksStopWork
<1>1. TypeInv /\ [Next]_vars => [Forked => \A p \in Procs : ~Admits(p)]_vars
  BY ForksRefuse DEF TypeInv
<1> QED BY <1>1, TypeCorrect, PTL DEF Spec, ForksStopWork

-----------------------------------------------------------------------------
(* One process. *)

Alone == \A p, q \in Procs : p = q

IsWrite(i) == ledger[i].to # None
NoneAfter(i) == \A k \in DOMAIN ledger : k > i => ~IsWrite(k)

\* If the ledger records writes at all, one of them is the last.
LastKnown ==
  (\E i \in DOMAIN ledger : IsWrite(i)) => \E i \in DOMAIN ledger : IsWrite(i) /\ NoneAfter(i)

\* state.json names the event that announced it.
Recorded == file # None => file.head \in DOMAIN ledger /\ ledger[file.head].to = file.state

\* Nobody extends the ledger between a reading of its tail and the append.
Linked(p) == proc[p].pc = "append" => proc[p].tail = Len(ledger)

\* A torn ledger stops every write before its append.
Halted(p) == torn => proc[p].pc \notin {"append", "rename"}

\* What a process has read of state.json is what it holds.
Sees(p) ==
  /\ proc[p].pc \in Read => proc[p].seen = file.state
  /\ proc[p].pc = "assess" => proc[p].doc = file

\* What is about to be written follows from what the file holds.
Lawful(doc) ==
  IF file = None THEN doc.state = "DRAFT"
  ELSE \/ doc.state = file.state
       \/ doc.state \in Transitions[file.state]
       \/ file.state = "CLOSED" /\ doc.state = "DRAFT"
Legal(p) ==
  proc[p].pc \in {"tail", "append", "rename"} /\ proc[p].doc # None => Lawful(proc[p].doc)

\* A command was admitted on a file that no recorded write has overtaken; only
\* the locking of a draft asks nothing.
Clean(p) ==
  file # None =>
    /\ proc[p].pc = "ready" => NoneAfter(file.head)
    /\ proc[p].pc \in {"tail", "append"} => NoneAfter(file.head) \/ file.state = "DRAFT"

\* The rename follows the event that announces it.
Announced(p) ==
  proc[p].pc = "rename" =>
    proc[p].head = Len(ledger) /\ Len(ledger) > 0 /\ ledger[Len(ledger)].to = proc[p].doc.state

Place(p) == Linked(p) /\ Halted(p) /\ Sees(p) /\ Legal(p) /\ Clean(p) /\ Announced(p)

SoloInv ==
  /\ TypeInv /\ ChainHolds /\ LastKnown /\ Recorded
  /\ \A p \in Procs : Place(p)

LEMMA InitSolo == Init => SoloInv
<1> SUFFICES ASSUME Init PROVE SoloInv
  OBVIOUS
<1>1. \A p \in Procs : proc[p] = [pc |-> "idle"]
  BY DEF Init, Idle
<1>2. TypeInv /\ ledger = <<>> /\ torn = FALSE /\ file = None
  BY InitTyped DEF Init
<1>3. \A p \in Procs : Place(p)
  BY <1>1, <1>2 DEF Place, Linked, Halted, Sees, Legal, Clean, Announced, Read
<1> QED BY <1>2, <1>3 DEF SoloInv, ChainHolds, LastKnown, Recorded

\* LastWrite is the event it says it is.
LEMMA LastWriteIs ==
  ASSUME TypeOK, NEW i \in DOMAIN ledger, IsWrite(i), NoneAfter(i)
  PROVE  LastWrite = i
<1> DEFINE L(k) == ledger[k].to # None /\ \A m \in (k+1)..Len(ledger) : ledger[m].to = None
<1>1. DOMAIN ledger = 1..Len(ledger) /\ Len(ledger) \in Nat
  BY DEF TypeOK
<1>2. L(i)
  BY <1>1 DEF IsWrite, NoneAfter
<1>3. ASSUME NEW k \in DOMAIN ledger, L(k) PROVE k = i
  BY <1>1, <1>2, <1>3
<1>4. LastWrite = CHOOSE k \in DOMAIN ledger : L(k)
  BY DEF LastWrite, IsWrite
<1> HIDE DEF L
<1> QED BY <1>2, <1>3, <1>4

\* Only a file that no recorded write has overtaken is vouched for.
LEMMA VouchedIsLatest ==
  ASSUME TypeOK, LastKnown, NEW doc \in File, Vouched(doc)
  PROVE  doc.head \in DOMAIN ledger /\ NoneAfter(doc.head)
<1>1. DOMAIN ledger = 1..Len(ledger) /\ Len(ledger) \in Nat
  BY DEF TypeOK
<1>2. doc.head = LastWrite /\ doc.head # 0
  BY DEF Vouched, File, Position
<1>3. \E i \in DOMAIN ledger : IsWrite(i)
  BY <1>2 DEF LastWrite, IsWrite
<1>4. PICK i \in DOMAIN ledger : IsWrite(i) /\ NoneAfter(i)
  BY <1>3 DEF LastKnown
<1> QED BY <1>2, <1>4, LastWriteIs

\* Steps that touch no file leave the chain as it was.
LEMMA FilesKeepChain ==
  ASSUME SoloInv, UNCHANGED <<ledger, file>>
  PROVE  ChainHolds' /\ LastKnown' /\ Recorded'
BY DEF SoloInv, ChainHolds, LastKnown, Recorded, IsWrite, NoneAfter

\* A process alone that steps to next is all there is to check.
LEMMA AloneSteps ==
  ASSUME Alone, TypeOK, NEW p \in Procs, NEW next, Becomes(p, next)
  PROVE  proc'[p] = next /\ \A q \in Procs : q = p
BY DEF Alone, TypeOK, Becomes

LEMMA ComputeSolo ==
  ASSUME Alone, SoloInv, NEW p \in Procs, UNCHANGED <<ledger, torn, file>>,
         Initialize(p) \/ Lock(p) \/ ReadState(p) \/ ReadFile(p) \/ Assess(p)
           \/ Transition(p) \/ Patch(p) \/ Prepare(p) \/ Note(p) \/ ReadTail(p) \/ Leave(p)
  PROVE  Place(p)'
<1> DEFINE old == proc[p]
           new == proc'[p]
<1> USE AloneSteps DEF SoloInv, TypeInv
<1>0. Place(p) /\ TypeOK
  OBVIOUS
<1>1. ASSUME new = Idle PROVE Place(p)'
  BY <1>1 DEF Place, Linked, Halted, Sees, Legal, Clean, Announced, Read, Idle
<1>2. ASSUME NEW doc, new = [pc |-> "tail", doc |-> doc], doc # None => Lawful(doc),
             file # None => NoneAfter(file.head) \/ file.state = "DRAFT"
      PROVE  Place(p)'
  BY <1>2 DEF Place, Linked, Halted, Sees, Legal, Lawful, Clean, Announced, Read,
              NoneAfter, IsWrite
<1>3. ASSUME old.pc = "ready"
      PROVE  file \in File /\ file # None /\ NoneAfter(file.head) /\ old.seen = file.state
  BY <1>0, <1>3, NoneIsFresh DEF Place, Clean, Sees, Read
<1>4. CASE Initialize(p) \/ Lock(p)
  <2>1. CASE Initialize(p)
    BY <1>2, <2>1 DEF Initialize, Lawful
  <2>2. CASE Lock(p)
    BY <1>2, <2>2, DraftsLock DEF Lock, Lawful
  <2> QED BY <1>4, <2>1, <2>2
<1>5. CASE ReadState(p)
  BY <1>5 DEF ReadState, Place, Linked, Halted, Sees, Legal, Clean, Announced, Read
<1>6. CASE ReadFile(p)
  BY <1>0, <1>6 DEF ReadFile, Place, Linked, Halted, Sees, Legal, Clean, Announced, Read
<1>7. CASE Assess(p)
  <2>1. file \in File /\ old.doc = file /\ old.seen = file.state
    BY <1>0, <1>7 DEF Assess, Place, Sees, Read
  <2>2. CASE Vouched(file) /\ ~torn
    <3>1. NoneAfter(file.head) /\ new = [pc |-> "ready", seen |-> file.state]
      BY <1>7, <2>1, <2>2, VouchedIsLatest DEF Assess
    <3>2. NoneAfter(file.head)'
      BY <3>1 DEF NoneAfter, IsWrite
    <3> QED BY <3>1, <3>2 DEF Place, Linked, Halted, Sees, Legal, Clean, Announced, Read
  <2> QED BY <1>1, <1>7, <2>1, <2>2 DEF Assess
<1>8. CASE Transition(p)
  <2>1. PICK next \in Transitions[file.state] :
          \E doc \in Patched(next) : Becomes(p, [pc |-> "tail", doc |-> doc])
    BY <1>8 DEF Transition
  <2>2. PICK doc \in Patched(next) : Becomes(p, [pc |-> "tail", doc |-> doc])
    BY <2>1
  <2>3. doc.state = next
    BY <2>2 DEF Patched
  <2>4. Lawful(doc) /\ new = [pc |-> "tail", doc |-> doc]
    BY <1>3, <1>8, <2>1, <2>2, <2>3 DEF Transition, Lawful
  <2> QED BY <1>2, <1>3, <1>8, <2>4 DEF Transition
<1>9. CASE Patch(p) \/ Prepare(p)
  <2>1. CASE Patch(p)
    BY <1>2, <1>3, <2>1 DEF Patch, Lawful
  <2>2. CASE Prepare(p)
    BY <1>2, <1>3, <2>2 DEF Prepare, Lawful
  <2> QED BY <1>9, <2>1, <2>2
<1>10. CASE Note(p)
  BY <1>2, <1>3, <1>10 DEF Note
<1>11. CASE ReadTail(p)
  <2>1. CASE torn
    BY <1>1, <1>11, <2>1 DEF ReadTail
  <2>2. CASE ~torn
    <3>1. new = [pc |-> "append", doc |-> old.doc, tail |-> Len(ledger)]
      BY <1>11, <2>2 DEF ReadTail, Link
    <3>2. old.pc = "tail"
      BY <1>11 DEF ReadTail
    <3> QED BY <1>0, <2>2, <3>1, <3>2
            DEF Place, Linked, Halted, Sees, Legal, Lawful, Clean, Announced, Read,
                NoneAfter, IsWrite
  <2> QED BY <2>1, <2>2
<1>12. CASE Leave(p)
  BY <1>1, <1>12 DEF Leave
<1> QED BY <1>4, <1>5, <1>6, <1>7, <1>8, <1>9, <1>10, <1>11, <1>12

LEMMA AppendSolo ==
  ASSUME Alone, SoloInv, NEW p \in Procs, AppendEvent(p)
  PROVE  ChainHolds' /\ LastKnown' /\ Recorded' /\ Place(p)'
<1> DEFINE old == proc[p]
           new == proc'[p]
           n == Len(ledger)
           event == [prev |-> old.tail, to |-> IF old.doc = None THEN None ELSE old.doc.state]
<1> USE DEF SoloInv, TypeInv
<1>0. Place(p) /\ TypeOK /\ old.pc = "append" /\ old.tail = n /\ ~torn
  BY DEF AppendEvent, Place, Linked, Halted
<1>1. /\ n \in Nat /\ DOMAIN ledger = 1..n
      /\ DOMAIN ledger' = 1..(n+1) /\ Len(ledger') = n + 1
      /\ ledger'[n+1] = event
      /\ \A i \in 1..n : ledger'[i] = ledger[i]
  <2>1. ledger \in Seq(Event) /\ event \in Event
    BY <1>0, ProcTyped DEF TypeOK, Event, Doc
  <2>2. ledger' = Append(ledger, event)
    BY DEF AppendEvent
  <2> QED BY <2>1, <2>2, AppendProperties
<1>2. ChainHolds'
  BY <1>0, <1>1 DEF ChainHolds
<1>3. CASE old.doc = None
  <2>1. new = Idle /\ UNCHANGED <<torn, file>>
    BY <1>0, <1>3, AloneSteps DEF AppendEvent
  <2>2. \A i \in 1..n : NoneAfter(i) => NoneAfter(i)'
    BY <1>1, <1>3 DEF NoneAfter, IsWrite
  <2>3. LastKnown'
    BY <1>1, <1>3, <2>2 DEF LastKnown, IsWrite
  <2>4. Recorded'
    BY <1>1, <2>1 DEF Recorded
  <2> QED BY <1>2, <2>1, <2>3, <2>4
          DEF Place, Linked, Halted, Sees, Legal, Clean, Announced, Read, Idle
<1>4. CASE old.doc # None
  <2>1. new = [pc |-> "rename", doc |-> old.doc, head |-> n + 1] /\ UNCHANGED <<torn, file>>
    BY <1>0, <1>4, AloneSteps DEF AppendEvent
  <2>2. old.doc \in Doc /\ old.doc.state # None
    BY <1>0, <1>4, ProcTyped, NoneIsFresh DEF Doc
  <2>3. \E i \in DOMAIN ledger' :
          ledger'[i].to # None /\ \A k \in DOMAIN ledger' : k > i => ~(ledger'[k].to # None)
    <3>1. n + 1 \in DOMAIN ledger' /\ ledger'[n+1].to # None
      BY <1>1, <1>4, <2>2
    <3>2. \A k \in DOMAIN ledger' : ~(k > n + 1)
      BY <1>1
    <3> QED BY <3>1, <3>2
  <2>4. LastKnown'
    BY <2>3 DEF LastKnown, NoneAfter, IsWrite
  <2>5. Recorded'
    BY <1>1, <2>1 DEF Recorded
  <2>6. Legal(p)'
    BY <1>0, <1>4, <2>1 DEF Place, Legal, Lawful
  <2>7. Announced(p)'
    BY <1>1, <1>4, <2>1 DEF Announced
  <2> QED BY <1>2, <1>0, <2>1, <2>4, <2>5, <2>6, <2>7
          DEF Place, Linked, Halted, Sees, Clean, Read
<1> QED BY <1>3, <1>4

LEMMA RenameSolo ==
  ASSUME Alone, SoloInv, NEW p \in Procs, Rename(p)
  PROVE  ChainHolds' /\ LastKnown' /\ Recorded' /\ Place(p)'
<1> DEFINE old == proc[p]
           new == proc'[p]
           n == Len(ledger)
<1> USE DEF SoloInv, TypeInv
<1>0. /\ Place(p) /\ TypeOK /\ old.pc = "rename" /\ ~torn
      /\ old.head = n /\ n > 0 /\ ledger[n].to = old.doc.state
  BY DEF Rename, Place, Announced, Halted
<1>1. DOMAIN ledger = 1..n /\ n \in Nat
  BY <1>0 DEF TypeOK
<1>2. /\ new = [pc |-> "ready", seen |-> old.doc.state]
      /\ file' = [state |-> old.doc.state, stop |-> old.doc.stop, head |-> n]
      /\ UNCHANGED <<ledger, torn>>
  BY <1>0, AloneSteps DEF Rename
<1>3. ChainHolds' /\ LastKnown'
  BY <1>2 DEF ChainHolds, LastKnown, IsWrite, NoneAfter
<1>4. Recorded'
  BY <1>0, <1>1, <1>2 DEF Recorded
<1>5. NoneAfter(n)'
  BY <1>1, <1>2 DEF NoneAfter
<1> QED BY <1>2, <1>3, <1>4, <1>5
        DEF Place, Linked, Halted, Sees, Legal, Clean, Announced, Read

LEMMA TearSolo ==
  ASSUME Alone, SoloInv, NEW p \in Procs, TearAppend(p)
  PROVE  ChainHolds' /\ LastKnown' /\ Recorded' /\ Place(p)'
<1>1. proc'[p] = Idle /\ UNCHANGED <<ledger, file>>
  BY AloneSteps DEF TearAppend, SoloInv, TypeInv
<1>2. Place(p)'
  BY <1>1 DEF Place, Linked, Halted, Sees, Legal, Clean, Announced, Read, Idle
<1> QED BY <1>1, <1>2, FilesKeepChain

LEMMA NextSolo == Alone /\ SoloInv /\ [Next]_vars => SoloInv'
<1> SUFFICES ASSUME Alone, SoloInv, [Next]_vars PROVE SoloInv'
  OBVIOUS
<1>1. TypeInv'
  BY NextTyped DEF SoloInv
<1>2. CASE UNCHANGED vars
  <2>1. \A p \in Procs : Place(p)'
    BY <1>2 DEF SoloInv, vars, Place, Linked, Halted, Sees, Legal, Lawful, Clean, Announced,
                NoneAfter, IsWrite
  <2> QED BY <1>1, <1>2, <2>1, FilesKeepChain DEF vars, SoloInv
<1>3. ASSUME NEW p \in Procs, Step(p)
      PROVE  ChainHolds' /\ LastKnown' /\ Recorded' /\ Place(p)'
  <2>1. CASE AppendEvent(p)
    BY <2>1, AppendSolo
  <2>2. CASE Rename(p)
    BY <2>2, RenameSolo
  <2>3. CASE TearAppend(p)
    BY <2>3, TearSolo
  <2>4. CASE Initialize(p) \/ Lock(p) \/ ReadState(p) \/ ReadFile(p) \/ Assess(p)
               \/ Transition(p) \/ Patch(p) \/ Prepare(p) \/ Note(p) \/ ReadTail(p) \/ Leave(p)
    <3>1. UNCHANGED <<ledger, torn, file>>
      BY <2>4 DEF Initialize, Lock, ReadState, ReadFile, Assess, Transition, Patch, Prepare,
                  Note, ReadTail, Leave
    <3> QED BY <2>4, <3>1, ComputeSolo, FilesKeepChain
  <2> QED BY <1>3, <2>1, <2>2, <2>3, <2>4 DEF Step
<1>4. \A p, q \in Procs : p = q
  BY DEF Alone
<1> QED BY <1>1, <1>2, <1>3, <1>4 DEF Next, SoloInv

\* One process, whatever it dies in: when no write is under way and none was
\* cut short, state.json is vouched for (recordLedger, signatureChecks).
THEOREM OneProcessIsTrusted == ASSUME Alone PROVE Spec => []QuietIsTrusted
<1>1. Init => SoloInv
  BY InitSolo
<1>2. SoloInv /\ [Next]_vars => SoloInv'
  BY NextSolo
<1>3. SoloInv => QuietIsTrusted
  <2> SUFFICES ASSUME SoloInv, file # None, ~Writing, ~torn, ~Wounded
               PROVE  Vouched(file)
    BY DEF QuietIsTrusted, Trusted
  <2>1. /\ file.head \in DOMAIN ledger /\ ledger[file.head].to = file.state
        /\ file.state # None
    BY NoneIsFresh DEF SoloInv, Recorded, TypeInv, TypeOK, File
  <2>2. IsWrite(file.head) /\ NoneAfter(file.head)
    BY <2>1 DEF Wounded, IsWrite, NoneAfter
  <2>3. LastWrite = file.head
    BY <2>1, <2>2, LastWriteIs DEF SoloInv, TypeInv
  <2> QED BY <2>1, <2>3 DEF Vouched, SoloInv
<1> QED BY <1>1, <1>2, <1>3, PTL DEF Spec

\* The release state the rest of the system sees, a draft before init.
Shown == IF file = None THEN "DRAFT" ELSE file.state

\* A step that keeps the state and, once frozen, stays frozen is a step of the
\* machine or none.
LEMMA HoldsOrFreezes ==
  ASSUME Shown' = Shown, Frozen \in BOOLEAN, Frozen' \in BOOLEAN, Frozen => Frozen'
  PROVE  [Machine!Next]_<<Shown, Frozen>>
BY DEF Shown, Machine!Next, Machine!Freeze

\* Both modules take the table from ReleaseStates.
LEMMA SameTable == Machine!Transitions = Transitions
BY DEF Transitions, States, Terminal, Machine!Transitions, Machine!States, Machine!Terminal

LEMMA FrozenIsBoolean == Frozen \in BOOLEAN /\ Frozen' \in BOOLEAN
BY DEF Frozen, Wounded

LEMMA ComputeRefines ==
  ASSUME Alone, SoloInv, NEW p \in Procs, UNCHANGED <<ledger, torn, file>>,
         Becomes(p, proc'[p]), proc'[p].pc # "rename"
  PROVE  [Machine!Next]_<<Shown, Frozen>>
<1>1. \A q \in Procs : q = p
  BY DEF Alone
<1>2. ~Writing'
  BY <1>1 DEF Writing
<1>3. Frozen => Frozen'
  BY <1>2 DEF Frozen, Wounded
<1> QED BY <1>3, FrozenIsBoolean, HoldsOrFreezes DEF Shown

LEMMA AppendRefines ==
  ASSUME Alone, SoloInv, SoloInv', NEW p \in Procs, AppendEvent(p)
  PROVE  [Machine!Next]_<<Shown, Frozen>>
<1> DEFINE old == proc[p]
<1>1. Place(p) /\ old.pc = "append" /\ ~torn
  BY DEF AppendEvent, SoloInv, Place, Halted
<1>2. file = None \/ NoneAfter(file.head) \/ file.state = "DRAFT"
  BY <1>1 DEF Place, Clean
<1>3. ~Frozen
  BY <1>1, <1>2 DEF Frozen, Wounded, NoneAfter, IsWrite
<1> QED BY <1>3, FrozenIsBoolean, HoldsOrFreezes DEF Shown, AppendEvent

LEMMA RenameRefines ==
  ASSUME Alone, SoloInv, SoloInv', NEW p \in Procs, Rename(p)
  PROVE  [Machine!Next]_<<Shown, Frozen>>
<1> DEFINE old == proc[p]
           doc == proc[p].doc
<1>1. Place(p) /\ old.pc = "rename" /\ ~torn /\ TypeOK
  BY DEF Rename, SoloInv, TypeInv, Place, Halted
<1>2. ~Frozen
  BY <1>1 DEF Frozen, Wounded, Writing
<1>3. file' = [state |-> doc.state, stop |-> doc.stop, head |-> old.head] /\ UNCHANGED torn
  BY DEF Rename
<1>4. NoneAfter(file.head)'
  <2>1. proc'[p].pc = "ready" /\ file'.state \in States
    BY <1>1, <1>3, ProcTyped DEF Rename, Becomes, TypeOK, Doc
  <2>2. file' # None
    BY <1>1, <1>3, ProcTyped, NoneIsFresh DEF Doc, File
  <2> QED BY <2>1, <2>2 DEF SoloInv, Place, Clean
<1>5. ~Frozen'
  BY <1>1, <1>3, <1>4 DEF Frozen, Wounded, NoneAfter, IsWrite
<1>6. doc \in Doc /\ doc # None
  BY <1>1, ProcTyped, NoneIsFresh
<1>7. Shown' = doc.state
  BY <1>1, <1>3, <1>6, ProcTyped, NoneIsFresh DEF Shown, File, Doc
<1>8. Lawful(doc)
  BY <1>1, <1>6 DEF Place, Legal
<1>9. CASE Shown' = Shown
  BY <1>2, <1>9, FrozenIsBoolean, HoldsOrFreezes
<1>10. CASE Shown' \in Transitions[Shown]
  BY <1>2, <1>5, <1>10, SameTable, FrozenIsBoolean DEF Machine!Next, Machine!Move, Shown
<1>11. CASE Shown = "CLOSED" /\ Shown' = "DRAFT"
  BY <1>2, <1>5, <1>11, FrozenIsBoolean DEF Machine!Next, Machine!Prepare, Shown
<1> QED BY <1>7, <1>8, <1>9, <1>10, <1>11 DEF Lawful, Shown

LEMMA NextRefines ==
  ASSUME Alone, SoloInv, SoloInv', [Next]_vars
  PROVE  [Machine!Next]_<<Shown, Frozen>>
<1>1. CASE UNCHANGED vars
  BY <1>1, FrozenIsBoolean, HoldsOrFreezes DEF vars, Shown, Frozen, Wounded, Writing
<1>2. ASSUME NEW p \in Procs, Step(p) PROVE [Machine!Next]_<<Shown, Frozen>>
  <2>1. CASE AppendEvent(p)
    BY <2>1, AppendRefines
  <2>2. CASE Rename(p)
    BY <2>2, RenameRefines
  <2>3. CASE TearAppend(p)
    BY <2>3, FrozenIsBoolean, HoldsOrFreezes DEF TearAppend, Frozen, Shown
  <2>4. CASE Initialize(p) \/ Lock(p) \/ ReadState(p) \/ ReadFile(p) \/ Assess(p)
               \/ Transition(p) \/ Patch(p) \/ Prepare(p) \/ Note(p) \/ ReadTail(p) \/ Leave(p)
    <3>1. UNCHANGED <<ledger, torn, file>>
      BY <2>4 DEF Initialize, Lock, ReadState, ReadFile, Assess, Transition, Patch, Prepare,
                  Note, ReadTail, Leave
    <3>2. \E next : Becomes(p, next) /\ next.pc # "rename"
      <4>1. CASE Transition(p)
        BY <4>1 DEF Transition
      <4>2. CASE Assess(p) \/ ReadTail(p)
        BY <4>2 DEF Assess, ReadTail, Idle
      <4> QED BY <2>4, <4>1, <4>2 DEF Initialize, Lock, ReadState, ReadFile, Patch, Prepare,
                                      Note, Leave, Idle
    <3>3. Becomes(p, proc'[p]) /\ proc'[p].pc # "rename"
      BY <3>2, AloneSteps DEF SoloInv, TypeInv
    <3> QED BY <3>1, <3>3, ComputeRefines
  <2> QED BY <1>2, <2>1, <2>2, <2>3, <2>4 DEF Step
<1> QED BY <1>1, <1>2 DEF Next

\* One process: state.json and its ledger, written one file operation at a time
\* and dying at any of them, are one release state that moves along the table,
\* starts over only from CLOSED, and never moves again once it cannot be
\* vouched for (transitionState, writeSignedState, readTrustedState).
THEOREM OneProcessRefinesMachine == ASSUME Alone PROVE Spec => RefinesMachine
<1>1. Init => SoloInv
  BY InitSolo
<1>2. SoloInv /\ [Next]_vars => SoloInv'
  BY NextSolo
<1>3. Init => Machine!Init
  BY DEF Init, Machine!Init, Frozen, Wounded
<1>4. SoloInv /\ SoloInv' /\ [Next]_vars => [Machine!Next]_<<Shown, Frozen>>
  BY NextRefines
<1> QED BY <1>1, <1>2, <1>3, <1>4, PTL DEF Spec, RefinesMachine, Machine!Spec, Shown
=============================================================================
