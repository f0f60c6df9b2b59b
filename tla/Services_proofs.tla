--------------------------- MODULE Services_proofs ---------------------------
(***************************************************************************)
(* What the services around a release promise, for any number of actors    *)
(* and any bound: the decision ledger, the Stop hook, planning cycles, the *)
(* runs of an acceptance criterion, the release train, the task graph and  *)
(* the questions of a proposal.  They share no state, and each theorem is  *)
(* about the specification of one of them.                                 *)
(***************************************************************************)
EXTENDS DecisionLedger, StopHook, Planning, AcceptanceRuns, ReleaseTrain, GoalGraph,
        ProposalQuestions, FiniteSetTheorems, SequenceTheorems, TLAPS

\* The first n numbers are a finite set of n members.
LEMMA FirstNumbers == \A n \in Nat : IsFiniteSet(1..n) /\ Cardinality(1..n) = n
<1> QED
  BY FS_Interval

-----------------------------------------------------------------------------
(* The decision ledger. *)

Line == [key : EventKeys \cup {Unowned}, sequence : Nat, hash : Nat, previous : Nat]
Steps == {"idle", "locking", "reading", "appending", "unlocking"}
Critical == {"reading", "appending", "unlocking"}

Awake == [step : Steps, key : EventKeys \cup {Unowned}, attempts : Nat, event : Line]

LedgerTypeOK ==
  /\ lines \in Seq(Line) /\ minted \in Nat
  /\ ledgerLock \in Writers \cup {Unowned}
  /\ writer \in [Writers -> Awake]

\* Whoever works on the ledger owns the lock file.
OwnsLock(w) == writer[w].step \in Critical => ledgerLock = w

\* The event about to be appended continues the ledger as it is now.
Continuing(w) == writer[w].step = "appending" => Readable(lines) /\ Readable(Append(lines, writer[w].event))

LedgerInv ==
  /\ LedgerTypeOK /\ WholeLinesAreReadable
  /\ \A w \in Writers : OwnsLock(w) /\ Continuing(w)

LEMMA Chopped ==
  ASSUME NEW S, NEW s \in Seq(S), NEW e \in S
  PROVE  SubSeq(Append(s, e), 1, Len(Append(s, e)) - 1) = s
<1> DEFINE t == Append(s, e)
           u == SubSeq(t, 1, Len(s))
<1>1. t \in Seq(S) /\ Len(t) = Len(s) + 1 /\ \A i \in 1..Len(s) : t[i] = s[i]
  BY AppendProperties
<1>2. Len(s) \in Nat /\ \A i \in 1..Len(s) : s[i] \in S
  BY LenProperties, ElementOfSeq
<1>3. u \in Seq(S) /\ Len(u) = Len(s) /\ \A i \in 1..Len(s) : u[i] = s[i]
  <2>1. \A i \in 1..Len(s) : t[i] \in S
    BY <1>1, <1>2
  <2> HIDE DEF t
  <2>2. /\ SubSeq(t, 1, Len(s)) \in Seq(S)
        /\ Len(SubSeq(t, 1, Len(s))) = IF 1 <= Len(s) THEN Len(s) - 1 + 1 ELSE 0
        /\ \A i \in 1..(Len(s) - 1 + 1) : SubSeq(t, 1, Len(s))[i] = t[1 + i - 1]
    BY <1>2, <2>1, SubSeqProperties
  <2> QED BY <1>1, <1>2, <2>2
<1> HIDE DEF u
<1>4. u = s
  BY <1>3, SeqEqual
<1> QED BY <1>1, <1>2, <1>4 DEF u

\* An event that follows the last one and repeats no key keeps the ledger readable.
LEMMA ContinuesReadable ==
  ASSUME NEW s \in Seq(Line), NEW e \in Line,
         Readable(s), Len(s) < MaxEvents, Follows(e, Last(s)),
         \A i \in 1..Len(s) : s[i].key # e.key
  PROVE  Readable(Append(s, e))
<1> DEFINE t == Append(s, e)
<1>1. /\ Len(s) \in Nat /\ Len(t) = Len(s) + 1 /\ t[Len(s) + 1] = e
      /\ \A i \in 1..Len(s) : t[i] = s[i]
  BY LenProperties, AppendProperties
<1> HIDE DEF t
<1>2. Len(t) <= MaxEvents
  BY <1>1, LedgerAssumption
<1>3. ASSUME NEW i \in 1..Len(t)
      PROVE  Follows(t[i], IF i = 1 THEN TornLine ELSE t[i - 1])
  <2>1. CASE i = Len(s) + 1
    BY <1>1, <2>1, EmptySeq DEF Last
  <2>2. CASE i # Len(s) + 1
    <3>1. i \in 1..Len(s) /\ t[i] = s[i] /\ (i # 1 => t[i - 1] = s[i - 1])
      BY <1>1, <2>2
    <3> QED BY <3>1 DEF Readable
  <2> QED BY <2>1, <2>2
<1>4. ASSUME NEW i \in 1..Len(t), NEW j \in 1..Len(t), i # j
      PROVE  t[i].key # t[j].key
  <2>1. \A k \in 1..Len(t) : IF k = Len(s) + 1 THEN t[k] = e ELSE k \in 1..Len(s) /\ t[k] = s[k]
    BY <1>1
  <2> QED BY <1>4, <2>1 DEF Readable
<1> QED BY <1>2, <1>3, <1>4 DEF Readable, t

LEMMA LedgerInitInv == LedgerInit => LedgerInv
<1> SUFFICES ASSUME LedgerInit PROVE LedgerInv
  OBVIOUS
<1>1. Asleep \in Awake
  BY DEF Asleep, Awake, Steps, Line, TornLine
<1>2. LedgerTypeOK
  BY <1>1 DEF LedgerInit, LedgerTypeOK, Asleep
<1>3. WholeLinesAreReadable
  BY LedgerAssumption DEF LedgerInit, WholeLinesAreReadable, Readable
<1> QED BY <1>2, <1>3 DEF LedgerInit, LedgerInv, OwnsLock, Continuing, Asleep, Critical

LEMMA LastTyped ==
  ASSUME LedgerTypeOK
  PROVE  Last(lines) \in Line
<1>1. CASE lines = <<>>
  BY <1>1 DEF Last, TornLine, Line
<1>2. CASE lines # <<>>
  <2>1. Len(lines) \in 1..Len(lines)
    BY <1>2, EmptySeq DEF LedgerTypeOK
  <2>2. lines[Len(lines)] \in Line
    BY <2>1, ElementOfSeq DEF LedgerTypeOK
  <2> QED BY <1>2, <2>2 DEF Last
<1> QED BY <1>1, <1>2

\* Only one writer changes in a step.
LEMMA WriterTyped ==
  ASSUME LedgerTypeOK, NEW w \in Writers, NEW next \in Awake,
         writer' = [writer EXCEPT ![w] = next]
  PROVE  writer' \in [Writers -> Awake]
BY DEF LedgerTypeOK

LEMMA WakesTyped ==
  ASSUME LedgerTypeOK, NEW w \in Writers, NEW step \in Steps, Wakes(w, step)
  PROVE  writer' \in [Writers -> Awake]
BY DEF LedgerTypeOK, Awake, Wakes

LEMMA LedgerNextTyped == LedgerTypeOK /\ [LedgerNext]_ledgerVars => LedgerTypeOK'
<1> SUFFICES ASSUME LedgerTypeOK, [LedgerNext]_ledgerVars PROVE LedgerTypeOK'
  OBVIOUS
<1> USE DEF LedgerTypeOK
<1>0. Asleep \in Awake /\ TornLine \in Line /\ {"reading", "unlocking"} \subseteq Steps
  BY DEF Asleep, Awake, Steps, Line, TornLine
<1>1. CASE UNCHANGED ledgerVars
  BY <1>1 DEF ledgerVars
<1>2. ASSUME NEW w \in Writers, StartAppend(w) PROVE LedgerTypeOK'
  <2>1. \A key \in EventKeys : [Asleep EXCEPT !.step = "locking", !.key = key] \in Awake
    BY <1>0 DEF Awake, Steps
  <2> QED BY <1>2, <2>1, WriterTyped DEF StartAppend
<1>3. ASSUME NEW w \in Writers, TryLock(w) PROVE LedgerTypeOK'
  <2>1. [writer[w] EXCEPT !.attempts = @ + 1] \in Awake
    BY DEF Awake
  <2>2. CASE Wakes(w, "reading") /\ ledgerLock' \in {w, ledgerLock}
    BY <1>0, <1>3, <2>2, WakesTyped DEF TryLock
  <2>3. CASE writer' = [writer EXCEPT ![w] = Asleep] /\ UNCHANGED ledgerLock
    BY <1>0, <1>3, <2>3, WriterTyped DEF TryLock
  <2>4. CASE writer' = [writer EXCEPT ![w].attempts = @ + 1] /\ UNCHANGED ledgerLock
    BY <1>3, <2>1, <2>4, WriterTyped DEF TryLock
  <2> QED BY <1>3, <2>2, <2>3, <2>4 DEF TryLock
<1>4. ASSUME NEW w \in Writers, MakeEvent(w) PROVE LedgerTypeOK'
  <2> DEFINE event == [key |-> writer[w].key, sequence |-> Last(lines).sequence + 1,
                       hash |-> minted + 1, previous |-> Last(lines).hash]
  <2>1. event \in Line /\ minted + 1 \in Nat
    BY LastTyped DEF Line, Awake
  <2>2. [writer[w] EXCEPT !.step = "appending", !.event = event] \in Awake
    BY <2>1 DEF Awake, Steps
  <2>3. CASE Wakes(w, "unlocking") /\ UNCHANGED minted
    BY <1>0, <1>4, <2>3, WakesTyped DEF MakeEvent
  <2>4. CASE minted' = minted + 1 /\ writer' = [writer EXCEPT ![w] =
                [writer[w] EXCEPT !.step = "appending", !.event = event]]
    BY <1>4, <2>1, <2>2, <2>4, WriterTyped DEF MakeEvent
  <2> QED BY <1>4, <2>3, <2>4 DEF MakeEvent
<1>5. ASSUME NEW w \in Writers, AppendEvent(w) PROVE LedgerTypeOK'
  <2>1. lines' \in Seq(Line)
    BY <1>5, AppendProperties DEF AppendEvent, Awake
  <2> QED BY <1>0, <1>5, <2>1, WakesTyped DEF AppendEvent
<1>6. ASSUME NEW w \in Writers, Unlock(w) PROVE LedgerTypeOK'
  BY <1>6, <1>0 DEF Unlock
<1>7. ASSUME NEW w \in Writers, DieWriting(w) PROVE LedgerTypeOK'
  <2>1. Append(lines, TornLine) \in Seq(Line)
    BY <1>0, AppendProperties
  <2>2. lines' \in Seq(Line)
    BY <1>7, <2>1 DEF DieWriting
  <2> QED BY <1>7, <1>0, <2>2 DEF DieWriting
<1>8. CASE RemoveDeadLock
  BY <1>8 DEF RemoveDeadLock
<1> QED BY <1>1, <1>2, <1>3, <1>4, <1>5, <1>6, <1>7, <1>8 DEF LedgerNext

\* A step that changes neither the lines nor any other writer keeps what the
\* others are about to append.
LEMMA OthersContinue ==
  ASSUME LedgerInv, NEW w \in Writers, NEW next, writer' = [writer EXCEPT ![w] = next],
         UNCHANGED lines, next.step # "appending"
  PROVE  WholeLinesAreReadable' /\ \A v \in Writers : Continuing(v)'
<1>1. WholeLinesAreReadable'
  BY DEF LedgerInv, WholeLinesAreReadable
<1>2. \A v \in Writers : IF v = w THEN writer'[v] = next ELSE writer'[v] = writer[v]
  BY DEF LedgerInv, LedgerTypeOK
<1>3. ASSUME NEW v \in Writers PROVE Continuing(v)'
  BY <1>2 DEF LedgerInv, Continuing
<1> QED BY <1>1, <1>3

LEMMA LedgerNextInv == LedgerInv /\ [LedgerNext]_ledgerVars => LedgerInv'
<1> SUFFICES ASSUME LedgerInv, [LedgerNext]_ledgerVars PROVE LedgerInv'
  OBVIOUS
<1>0. LedgerTypeOK /\ LedgerTypeOK' /\ Asleep.step = "idle"
  BY LedgerNextTyped DEF LedgerInv, Asleep
<1>a. \A v \in Writers : OwnsLock(v) /\ Continuing(v)
  BY DEF LedgerInv
<1> DEFINE Goal == WholeLinesAreReadable' /\ \A v \in Writers : OwnsLock(v)' /\ Continuing(v)'
<1>b. \A w \in Writers, step \in Steps : Wakes(w, step) =>
        /\ writer' = [writer EXCEPT ![w] = [writer[w] EXCEPT !.step = step]]
        /\ writer'[w].step = step /\ writer'[w].event = writer[w].event
  BY <1>0 DEF Wakes, LedgerTypeOK, Awake
<1>c. "reading" \in Steps /\ "unlocking" \in Steps
  BY DEF Steps
<1>d. ASSUME NEW w \in Writers, writer[w].step \in Critical
      PROVE  \A v \in Writers : v # w => writer[v].step \notin Critical
  BY <1>a, <1>d DEF OwnsLock
<1>1. ASSUME UNCHANGED ledgerVars PROVE Goal
  BY <1>1, <1>a DEF ledgerVars, LedgerInv, WholeLinesAreReadable, OwnsLock, Continuing
<1>2. ASSUME NEW w \in Writers, StartAppend(w) PROVE Goal
  <2>1. PICK key \in EventKeys :
          writer' = [writer EXCEPT ![w] = [Asleep EXCEPT !.step = "locking", !.key = key]]
    BY <1>2 DEF StartAppend
  <2>2. [Asleep EXCEPT !.step = "locking", !.key = key].step = "locking"
    BY DEF Asleep
  <2>3. \A v \in Writers : OwnsLock(v)'
    BY <1>0, <1>2, <1>a, <2>1, <2>2 DEF StartAppend, OwnsLock, LedgerTypeOK, Critical
  <2> QED BY <1>2, <2>1, <2>2, <2>3, OthersContinue DEF StartAppend
<1>3. ASSUME NEW w \in Writers, TryLock(w) PROVE Goal
  <2>1. CASE Wakes(w, "reading") /\ ledgerLock = Unowned /\ ledgerLock' = w
    <3>1. \A v \in Writers : v # w => writer[v].step \notin Critical
      BY <1>a, <2>1, UnownedIsNobody DEF OwnsLock
    <3>2. \A v \in Writers : OwnsLock(v)'
      BY <1>0, <2>1, <3>1 DEF OwnsLock, LedgerTypeOK, Wakes
    <3> QED BY <1>3, <1>b, <1>c, <2>1, <3>2, OthersContinue DEF TryLock
  <2>2. CASE writer' = [writer EXCEPT ![w] = Asleep] /\ UNCHANGED ledgerLock
    <3>1. \A v \in Writers : OwnsLock(v)'
      BY <1>0, <1>a, <2>2 DEF OwnsLock, LedgerTypeOK, Critical
    <3> QED BY <1>0, <1>3, <2>2, <3>1, OthersContinue DEF TryLock
  <2>3. CASE writer' = [writer EXCEPT ![w].attempts = @ + 1] /\ UNCHANGED ledgerLock
    <3> DEFINE next == [writer[w] EXCEPT !.attempts = @ + 1]
    <3>1. writer' = [writer EXCEPT ![w] = next] /\ next.step = "locking"
      BY <1>0, <1>3, <2>3 DEF TryLock, LedgerTypeOK, Awake
    <3>2. \A v \in Writers : OwnsLock(v)'
      BY <1>0, <1>a, <2>3, <3>1 DEF OwnsLock, LedgerTypeOK, Critical
    <3> HIDE DEF next
    <3> QED BY <1>3, <3>1, <3>2, OthersContinue DEF TryLock
  <2> QED BY <1>3, <2>1, <2>2, <2>3 DEF TryLock, LockRefused
<1>4. ASSUME NEW w \in Writers, MakeEvent(w) PROVE Goal
  <2> DEFINE event == [key |-> writer[w].key, sequence |-> Last(lines).sequence + 1,
                       hash |-> minted + 1, previous |-> Last(lines).hash]
  <2>0. writer[w].step = "reading" /\ UNCHANGED <<lines, ledgerLock>>
    BY <1>4 DEF MakeEvent
  <2>1. CASE Wakes(w, "unlocking")
    <3>1. \A v \in Writers : OwnsLock(v)'
      BY <1>0, <1>a, <2>0, <2>1 DEF OwnsLock, LedgerTypeOK, Wakes, Critical
    <3> QED BY <1>b, <1>c, <2>0, <2>1, <3>1, OthersContinue
  <2>2. CASE /\ Readable(lines) /\ ~Duplicate(w) /\ Len(lines) < MaxEvents
             /\ writer' = [writer EXCEPT ![w].step = "appending", ![w].event = event]
    <3>0. Last(lines) \in Line /\ writer[w] \in Awake /\ minted \in Nat
      BY <1>0, LastTyped DEF LedgerTypeOK
    <3>1. event \in Line
      BY <3>0 DEF Line, Awake
    <3>2. Follows(event, Last(lines))
      BY <3>0, <3>1 DEF Follows, TornLine, Line
    <3>3. Readable(Append(lines, event))
      BY <1>0, <2>2, <3>1, <3>2, ContinuesReadable DEF LedgerTypeOK, Duplicate
    <3>4. /\ writer'[w].step = "appending" /\ writer'[w].event = event
          /\ \A v \in Writers : v # w => writer'[v] = writer[v]
      BY <1>0, <2>2 DEF LedgerTypeOK, Awake
    <3>5. \A v \in Writers : OwnsLock(v)'
      BY <1>a, <2>0, <3>4 DEF OwnsLock, Critical
    <3>6. \A v \in Writers : Continuing(v)'
      BY <1>a, <2>0, <2>2, <3>3, <3>4 DEF Continuing
    <3> QED BY <2>0, <3>5, <3>6 DEF LedgerInv, WholeLinesAreReadable
  <2> QED BY <1>4, <2>1, <2>2 DEF MakeEvent
<1>5. ASSUME NEW w \in Writers, AppendEvent(w) PROVE Goal
  <2>1. /\ writer[w].step = "appending" /\ lines' = Append(lines, writer[w].event)
        /\ Wakes(w, "unlocking") /\ UNCHANGED ledgerLock
    BY <1>5 DEF AppendEvent
  <2>2. WholeLinesAreReadable'
    BY <1>a, <2>1 DEF Continuing, WholeLinesAreReadable
  <2>3. \A v \in Writers : writer'[v].step # "appending"
    BY <1>0, <1>b, <1>c, <1>d, <2>1 DEF Critical, Wakes, LedgerTypeOK
  <2>4. \A v \in Writers : OwnsLock(v)'
    BY <1>0, <1>a, <2>1 DEF OwnsLock, LedgerTypeOK, Wakes, Critical
  <2> QED BY <2>2, <2>3, <2>4 DEF Continuing
<1>6. ASSUME NEW w \in Writers, Unlock(w) PROVE Goal
  <2>1. ledgerLock = w
    BY <1>6, <1>a DEF Unlock, OwnsLock, Critical
  <2>2. \A v \in Writers : OwnsLock(v)'
    BY <1>0, <1>6, <1>a, <2>1 DEF Unlock, OwnsLock, LedgerTypeOK, Critical
  <2> QED BY <1>0, <1>6, <2>2, OthersContinue DEF Unlock
<1>7. ASSUME NEW w \in Writers, DieWriting(w) PROVE Goal
  <2>1. \A v \in Writers : OwnsLock(v)'
    BY <1>0, <1>7, <1>a DEF DieWriting, OwnsLock, LedgerTypeOK, Critical
  <2>2. CASE UNCHANGED lines
    BY <1>0, <1>7, <2>1, <2>2, OthersContinue DEF DieWriting
  <2>3. CASE writer[w].step = "appending" /\ lines' = Append(lines, TornLine)
    <3>1. TornLine \in Line /\ lines \in Seq(Line) /\ Readable(lines)
      BY <1>0, <1>a, <2>3 DEF TornLine, Line, LedgerTypeOK, Continuing
    <3>2. SubSeq(lines', 1, Len(lines') - 1) = lines
      BY <2>3, <3>1, Chopped
    <3>3. lines' # <<>> /\ Last(lines') = TornLine
      BY <2>3, <3>1, AppendProperties DEF Last
    <3>4. \A v \in Writers : writer'[v].step # "appending"
      BY <1>0, <1>7, <1>d, <2>3 DEF DieWriting, Critical, LedgerTypeOK
    <3> QED BY <2>1, <3>1, <3>2, <3>3, <3>4 DEF WholeLinesAreReadable, Continuing
  <2> QED BY <1>7, <2>2, <2>3 DEF DieWriting
<1>8. ASSUME RemoveDeadLock PROVE Goal
  BY <1>8, <1>a DEF RemoveDeadLock, LedgerInv, WholeLinesAreReadable, OwnsLock, Continuing, Critical
<1> QED BY <1>0, <1>1, <1>2, <1>3, <1>4, <1>5, <1>6, <1>7, <1>8 DEF LedgerNext, LedgerInv

\* However many processes append, wait, give up, die and have their lock file
\* removed, only a torn last line makes the decision ledger unreadable
\* (withLedgerLock, appendDecisionLedgerEvent).
THEOREM LedgerStaysReadable == LedgerSpec => []WholeLinesAreReadable
<1>1. LedgerInit => LedgerInv
  BY LedgerInitInv
<1>2. LedgerInv /\ [LedgerNext]_ledgerVars => LedgerInv'
  BY LedgerNextInv
<1>3. LedgerInv => WholeLinesAreReadable
  BY DEF LedgerInv
<1> QED BY <1>1, <1>2, <1>3, PTL DEF LedgerSpec

-----------------------------------------------------------------------------
(* The Stop hook. *)

HookStates == Executable \cup Terminal \cup {"SHIPPABLE", "BLOCKED", "PAUSED"}
HookRelease == [state : HookStates, resume : HookStates \cup {Unset},
                agentRuns : 0..MaxAgentRuns, fixCycles : 0..MaxFixCycles]
HookSteps == {"idle", "receive", "received", "lock", "state", "issues", "record", "recorded",
              "answered"}
Actions == {"CONTINUE", "ALLOW_STOP", "DENY_CONTINUATION"}

HookTypeOK ==
  /\ trusted \in HookRelease /\ document \in HookRelease
  /\ trusted.state = "PAUSED" => trusted.resume \in HookStates \ {"PAUSED"}
  /\ blockers \in BOOLEAN
  /\ hook \in [step : HookSteps, asked : BOOLEAN, state : HookRelease \cup {Unset},
               blockers : BOOLEAN, action : Actions \cup {Unset}, paused : BOOLEAN, edited : BOOLEAN]
  /\ hook.step \in {"state", "issues"} => hook.state \in HookRelease
  /\ hook.step = "idle" => ~hook.paused

\* A pause that nobody lifts is at most followed by an abort.
PauseHolds == hook.paused => HumanStop(trusted)

\* What the call has read shows the pause, or was edited before it and is
\* found out by the assessment that comes last.
PauseShows ==
  hook.paused /\ ~hook.edited /\ hook.step \in {"state", "issues"} => HumanStop(hook.state) \/ ~Whole

HookInv == HookTypeOK /\ PauseHolds /\ PauseShows /\ PausedIsNotContinued

\* The human's stop and an edited document both end the run, whatever else holds.
LEMMA StopWins ==
  ASSUME NEW s, NEW blocked, NEW whole \in BOOLEAN
  PROVE  /\ whole /\ HumanStop(s) => StopDecision(s, blocked, whole).action = "DENY_CONTINUATION"
         /\ ~whole => StopDecision(s, blocked, whole).action = "DENY_CONTINUATION"
<1>1. ~whole => StopDecision(s, blocked, whole) = Stops("STATE_INTEGRITY_TAMPERED")
  BY DEF StopDecision
<1>2. whole /\ HumanStop(s) => StopDecision(s, blocked, whole) = Stops("HUMAN_STOP_WINS")
  BY DEF StopDecision, HumanStop, Terminal
<1> QED BY <1>1, <1>2 DEF Stops

LEMMA DecisionTyped ==
  ASSUME NEW s \in HookRelease, NEW blocked \in BOOLEAN, NEW whole \in BOOLEAN
  PROVE  StopDecision(s, blocked, whole).action \in Actions
BY DEF StopDecision, Stops, Actions, HumanStop, Terminal, HookStates, Executable, HookRelease

LEMMA HookInitInv == HookInit => HookInv
<1> SUFFICES ASSUME HookInit PROVE HookInv
  OBVIOUS
<1>1. trusted \in HookRelease /\ trusted.state = "LOCKED"
  BY HookAssumption DEF HookInit, HookRelease, HookStates, Executable
<1>2. HookTypeOK
  BY <1>1 DEF HookInit, HookTypeOK, NoCall, HookSteps
<1> QED BY <1>2 DEF HookInit, HookInv, PauseHolds, PauseShows, PausedIsNotContinued, NoCall

\* A step of the call itself.
LEMMA CallInv ==
  ASSUME HookInv,
         StartHook \/ LogEvent \/ ReadHookState \/ ReadHookIssues \/ Decide \/ RecordDecision \/ EndHook
  PROVE  HookInv'
<1> USE DEF HookInv, HookTypeOK
<1>1. CASE StartHook
  <2>1. UNCHANGED <<trusted, document, blockers>>
    BY <1>1 DEF StartHook
  <2>2. PICK asked \in BOOLEAN : hook' =
          [NoCall EXCEPT !.asked = asked, !.step = IF asked THEN "receive" ELSE "lock",
                         !.paused = (trusted.state = "PAUSED"), !.edited = FALSE]
    BY <1>1 DEF StartHook
  <2>3. /\ hook'.step \in {"receive", "lock"} /\ hook'.paused = (trusted.state = "PAUSED")
        /\ hook'.action = Unset /\ hook'.edited = FALSE
    BY <2>2 DEF NoCall
  <2>4. hook' \in [step : HookSteps, asked : BOOLEAN, state : HookRelease \cup {Unset},
                   blockers : BOOLEAN, action : Actions \cup {Unset}, paused : BOOLEAN,
                   edited : BOOLEAN]
    BY <2>2 DEF NoCall, HookSteps
  <2>5. PauseHolds' /\ PauseShows' /\ HookTypeOK'
    BY <2>1, <2>3, <2>4 DEF PauseHolds, PauseShows, HumanStop
  <2>6. PausedIsNotContinued'
    BY <2>3, UnsetIsNoAction DEF PausedIsNotContinued, Actions
  <2> QED BY <2>5, <2>6
<1>2. CASE LogEvent
  BY <1>2 DEF LogEvent, HookGoes, PauseHolds, PauseShows, PausedIsNotContinued, HookSteps
<1>3. CASE ReadHookState
  BY <1>3 DEF ReadHookState, PauseHolds, PauseShows, PausedIsNotContinued, Whole, HookSteps
<1>4. CASE ReadHookIssues
  BY <1>4 DEF ReadHookIssues, PauseHolds, PauseShows, PausedIsNotContinued, Whole, HookSteps
<1>5. CASE Decide
  <2> DEFINE decision == StopDecision(hook.state, hook.blockers, Whole)
  <2>1. decision.action \in Actions
    BY <1>5, DecisionTyped DEF Decide, Whole
  <2>2. hook.paused /\ ~hook.edited => decision.action # "CONTINUE"
    BY <1>5, StopWins DEF Decide, PauseShows, Whole
  <2>3. hook' = [hook EXCEPT !.step = "record", !.action = decision.action]
        /\ UNCHANGED <<trusted, document, blockers, logged>>
    BY <1>5 DEF Decide
  <2> HIDE DEF decision
  <2> QED BY <2>1, <2>2, <2>3 DEF PauseHolds, PauseShows, PausedIsNotContinued, HookSteps
<1>6. CASE RecordDecision
  BY <1>6 DEF RecordDecision, HookGoes, PauseHolds, PauseShows, PausedIsNotContinued, HookSteps
<1>7. CASE EndHook
  BY <1>7 DEF EndHook, NoCall, PauseHolds, PauseShows, PausedIsNotContinued, HookSteps
<1> QED BY <1>1, <1>2, <1>3, <1>4, <1>5, <1>6, <1>7

\* A step of somebody else while the call goes on, or between calls.
LEMMA MeanwhileInv ==
  ASSUME HookInv, HumanPause \/ HumanResume \/ Executes \/ EditDocument
  PROVE  HookInv'
<1> USE DEF HookInv, HookTypeOK
<1>0. ASSUME Whole, Whole', UNCHANGED hook
      PROVE  PauseShows' /\ PausedIsNotContinued'
  BY <1>0 DEF PauseShows, PausedIsNotContinued, HumanStop
<1>1. CASE HumanPause
  <2>1. /\ Whole /\ Whole' /\ UNCHANGED <<blockers, hook>>
        /\ trusted' = [trusted EXCEPT !.state = "PAUSED", !.resume = trusted.state]
        /\ document' = trusted'
    BY <1>1 DEF HumanPause, Command, Whole
  <2>2. trusted' \in HookRelease /\ trusted'.state = "PAUSED" /\ trusted'.resume \in HookStates \ {"PAUSED"}
    BY <1>1, <2>1 DEF HookRelease, HookStates, HumanPause
  <2> QED BY <1>0, <2>1, <2>2 DEF PauseHolds, HumanStop
<1>2. CASE HumanResume
  <2>1. /\ Whole /\ Whole' /\ UNCHANGED blockers /\ hook' = [hook EXCEPT !.paused = FALSE]
        /\ trusted' = [trusted EXCEPT !.state = trusted.resume, !.resume = Unset]
        /\ document' = trusted' /\ trusted.resume \in HookStates \ {"PAUSED"}
    BY <1>2 DEF HumanResume, Command, Whole
  <2>2. trusted' \in HookRelease /\ trusted'.state # "PAUSED"
    BY <2>1 DEF HookRelease
  <2> QED BY <2>1, <2>2 DEF PauseHolds, PauseShows, PausedIsNotContinued
<1>3. CASE Executes
  <2>1. Whole /\ Whole' /\ UNCHANGED hook /\ document' = trusted'
    BY <1>3 DEF Executes, Command, Whole
  <2>2. trusted' \in HookRelease /\ trusted'.state # "PAUSED" /\ blockers' \in BOOLEAN
    <3>1. CASE /\ trusted' = [trusted EXCEPT !.state = "RUNNING", !.agentRuns = @ + 1]
               /\ trusted.agentRuns < MaxAgentRuns /\ UNCHANGED blockers
      <4>1. trusted.agentRuns + 1 \in 0..MaxAgentRuns
        BY <3>1, HookAssumption DEF HookRelease
      <4> QED BY <3>1, <4>1 DEF HookRelease, HookStates, Executable
    <3>2. CASE \E state \in {"FIXING", "BLOCKED", "SHIPPABLE"} :
                 /\ state = "FIXING" => trusted.fixCycles < MaxFixCycles
                 /\ trusted' = [trusted EXCEPT !.state = state,
                                  !.fixCycles = IF state = "FIXING" THEN @ + 1 ELSE @]
                 /\ blockers' \in BOOLEAN
      <4>1. PICK state \in {"FIXING", "BLOCKED", "SHIPPABLE"} :
              /\ state = "FIXING" => trusted.fixCycles < MaxFixCycles
              /\ trusted' = [trusted EXCEPT !.state = state,
                               !.fixCycles = IF state = "FIXING" THEN @ + 1 ELSE @]
              /\ blockers' \in BOOLEAN
        BY <3>2
      <4>2. (IF state = "FIXING" THEN trusted.fixCycles + 1 ELSE trusted.fixCycles) \in 0..MaxFixCycles
        BY <4>1, HookAssumption DEF HookRelease
      <4> QED BY <4>1, <4>2 DEF HookRelease, HookStates, Executable
    <3>3. CASE (\E state \in Terminal : trusted' = [trusted EXCEPT !.state = state]) /\ UNCHANGED blockers
      BY <3>3 DEF HookRelease, HookStates, Terminal
    <3> QED BY <1>3, <3>1, <3>2, <3>3 DEF Executes, Command, Terminal
  <2>3. HumanStop(trusted) => HumanStop(trusted)'
    BY <1>3 DEF Executes, Command, HumanStop, Terminal, HookRelease
  <2> QED BY <1>0, <2>1, <2>2, <2>3 DEF PauseHolds
<1>4. CASE EditDocument
  <2>1. hook' = [hook EXCEPT !.edited = hook.step # "idle"] /\ UNCHANGED <<trusted, blockers>>
    BY <1>4 DEF EditDocument
  <2>2. document' \in HookRelease
    BY <1>4 DEF EditDocument, HookRelease, HookStates, Executable
  <2>3. hook'.paused = hook.paused /\ hook'.step = hook.step /\ hook'.action = hook.action
        /\ hook'.state = hook.state /\ hook'.edited = (hook.step # "idle")
    BY <2>1
  <2>4. HookTypeOK'
    BY <2>1, <2>2
  <2>5. PauseShows'
    BY <2>3 DEF PauseShows
  <2> QED BY <2>1, <2>3, <2>4, <2>5 DEF PauseHolds, PausedIsNotContinued, HumanStop
<1> QED BY <1>1, <1>2, <1>3, <1>4

\* The host is never told to go on with a release the human had paused,
\* whatever the budgets (decideStop, chooseStopDecision).
THEOREM PauseWinsOverTheHook == HookSpec => []PausedIsNotContinued
<1>1. HookInit => HookInv
  BY HookInitInv
<1>2. HookInv /\ [HookNext]_hookVars => HookInv'
  <2> SUFFICES ASSUME HookInv, [HookNext]_hookVars PROVE HookInv'
    OBVIOUS
  <2>1. CASE UNCHANGED hookVars
    BY <2>1 DEF hookVars, HookInv, HookTypeOK, PauseHolds, PauseShows, PausedIsNotContinued,
                HumanStop, Whole
  <2> QED BY <2>1, CallInv, MeanwhileInv DEF HookNext
<1>3. HookInv => PausedIsNotContinued
  BY DEF HookInv
<1> QED BY <1>1, <1>2, <1>3, PTL DEF HookSpec

-----------------------------------------------------------------------------
(* Planning cycles. *)

Cycle == [role : Roles, signature : Signatures, exhausted : BOOLEAN]
SignaturesTo(i) == [j \in 1..i |-> cycles[j].signature]

PlanningInv == cycles \in Seq(Cycle) /\ PlanningIsBounded

\* One element more in what is counted.
LEMMA CountOne ==
  ASSUME NEW S, IsFiniteSet(S), NEW x, NEW T, T \subseteq S \cup {x}
  PROVE  IsFiniteSet(T) /\ Cardinality(T) <= Cardinality(S) + 1
<1>1. /\ IsFiniteSet(S \cup {x})
      /\ Cardinality(S \cup {x}) = IF x \in S THEN Cardinality(S) ELSE Cardinality(S) + 1
  BY FS_AddElement
<1>2. IsFiniteSet(T) /\ Cardinality(T) <= Cardinality(S \cup {x})
  BY <1>1, FS_Subset
<1>3. Cardinality(S) \in Nat /\ Cardinality(T) \in Nat /\ Cardinality(S \cup {x}) \in Nat
  BY <1>1, <1>2, FS_CardinalityType
<1> QED BY <1>1, <1>2, <1>3

LEMMA RecordingIsBounded ==
  ASSUME PlanningInv, RecordPlanningCycle
  PROVE  PlanningInv'
<1> DEFINE n == Len(cycles)
<1>1. PICK role \in Roles, signature \in Signatures :
        cycles' = Append(cycles, [role |-> role, signature |-> signature,
                                  exhausted |-> Exhausts(role, signature)])
  BY DEF RecordPlanningCycle
<1> DEFINE added == [role |-> role, signature |-> signature, exhausted |-> Exhausts(role, signature)]
<1>2. added \in Cycle
  <2>1. Exhausts(role, signature) \in BOOLEAN
    BY DEF Exhausts, Oscillates
  <2> QED BY <2>1 DEF Cycle
<1>3. /\ n \in Nat /\ DOMAIN cycles = 1..n /\ cycles' \in Seq(Cycle)
      /\ DOMAIN cycles' = 1..(n + 1) /\ cycles'[n + 1] = added
      /\ \A i \in 1..n : cycles'[i] = cycles[i]
  <2>1. cycles \in Seq(Cycle)
    BY DEF PlanningInv
  <2>2. cycles' = Append(cycles, added)
    BY <1>1
  <2> HIDE DEF added
  <2> QED BY <1>2, <2>1, <2>2, AppendProperties, LenProperties
<1>4. ASSUME NEW i \in 1..n PROVE SignaturesTo(i)' = SignaturesTo(i)
  BY <1>3, <1>4 DEF SignaturesTo
<1>5. [j \in 1..(n + 1) |-> cycles'[j].signature] = Append(SignaturesTo(n), signature)
  <2> DEFINE f == SignaturesTo(n)
             g == [j \in 1..(n + 1) |-> cycles'[j].signature]
  <2>1. \A i \in 1..n : cycles[i].signature \in Signatures
    <3>1. \A i \in 1..n : cycles[i] \in Cycle
      BY ElementOfSeq DEF PlanningInv
    <3> QED BY <3>1 DEF Cycle
  <2>2. f \in [1..n -> Signatures]
    BY <2>1 DEF SignaturesTo
  <2>3. f \in Seq(Signatures) /\ Len(f) = n
    BY <1>3, <2>2, SeqDef
  <2>4. g \in [1..(n + 1) -> Signatures]
    BY <1>2, <1>3, <2>1 DEF Cycle
  <2>5. g \in Seq(Signatures) /\ Len(g) = n + 1
    BY <1>3, <2>4, SeqDef
  <2>6. Append(f, signature) \in Seq(Signatures) /\ Len(Append(f, signature)) = n + 1
        /\ Append(f, signature)[n + 1] = signature
        /\ \A i \in 1..n : Append(f, signature)[i] = f[i]
    BY <2>3, AppendProperties
  <2>7. \A i \in 1..(n + 1) : g[i] = Append(f, signature)[i]
    BY <1>3, <2>6 DEF SignaturesTo
  <2> HIDE DEF f, g
  <2>8. g = Append(f, signature)
    BY <2>5, <2>6, <2>7, SeqEqual
  <2> QED BY <2>8 DEF f, g
<1>6. CASE Exhausts(role, signature)
  <2>1. GrantedCycles' = GrantedCycles
    BY <1>3, <1>6 DEF GrantedCycles
  <2>2. \A i \in GrantedCycles : cycles'[i] = cycles[i] /\ SignaturesTo(i)' = SignaturesTo(i)
    BY <1>3, <1>4 DEF GrantedCycles
  <2>3. \A r \in Roles : {i \in GrantedCycles : cycles'[i].role = r} = {i \in GrantedCycles : cycles[i].role = r}
    BY <2>2
  <2>4. \A s \in Signatures :
          {i \in GrantedCycles : cycles'[i].signature = s} = {i \in GrantedCycles : cycles[i].signature = s}
    BY <2>2
  <2> QED BY <1>3, <2>1, <2>2, <2>3, <2>4 DEF PlanningInv, PlanningIsBounded, SignaturesTo
<1>7. CASE ~Exhausts(role, signature)
  <2> DEFINE OfRole(r) == {i \in GrantedCycles : cycles[i].role = r}
             OfSignature(s) == {i \in GrantedCycles : cycles[i].signature = s}
             AllRole == {i \in DOMAIN cycles : cycles[i].role = role}
             AllSignature == {i \in DOMAIN cycles : cycles[i].signature = signature}
             Role(r) == {i \in GrantedCycles' : cycles'[i].role = r}
             Signature(s) == {i \in GrantedCycles' : cycles'[i].signature = s}
  <2>0. GrantedCycles' = GrantedCycles \cup {n + 1} /\ GrantedCycles \subseteq 1..n
    BY <1>3, <1>7 DEF GrantedCycles
  <2>b. /\ \A i \in GrantedCycles : i # n + 1 /\ cycles'[i] = cycles[i]
        /\ cycles'[n + 1].role = role /\ cycles'[n + 1].signature = signature
    BY <1>3, <2>0
  <2>a. IsFiniteSet(AllRole) /\ IsFiniteSet(AllSignature)
    <3>1. IsFiniteSet(1..n)
      BY <1>3, FirstNumbers
    <3>2. AllRole \subseteq 1..n /\ AllSignature \subseteq 1..n
      BY <1>3
    <3> QED BY <3>1, <3>2, FS_Subset
  <2>1. /\ Cardinality(AllRole) + 1 <= MaxCycles
        /\ Cardinality(AllSignature) + 1 < MaxRepeatedSignature
        /\ ~Oscillates(Append(SignaturesTo(n), signature))
    <3>2. Cardinality(AllRole) \in Nat /\ Cardinality(AllSignature) \in Nat
      BY <2>a, FS_CardinalityType
    <3> QED BY <1>7, <3>2, PlanningAssumption DEF Exhausts, Prior, SignaturesTo
  <2>3. ASSUME NEW r \in Roles PROVE Cardinality(Role(r)) <= MaxCycles
    <3>1. CASE r = role
      <4>1. Role(r) \subseteq AllRole \cup {n + 1}
        BY <1>3, <2>0, <3>1
      <4>2. Cardinality(Role(r)) <= Cardinality(AllRole) + 1 /\ IsFiniteSet(Role(r))
        BY <2>a, <4>1, CountOne
      <4>3. Cardinality(Role(r)) \in Nat /\ Cardinality(AllRole) \in Nat
        BY <2>a, <4>2, FS_CardinalityType
      <4> QED BY <2>1, <4>2, <4>3, PlanningAssumption
    <3>2. CASE r # role
      <4>1. \A i : i \in Role(r) <=> i \in OfRole(r)
        BY <2>0, <2>b, <3>2
      <4>2. Role(r) = OfRole(r)
        BY <4>1
      <4> QED BY <4>2 DEF PlanningInv, PlanningIsBounded
    <3> QED BY <3>1, <3>2
  <2>4. ASSUME NEW s \in Signatures PROVE Cardinality(Signature(s)) < MaxRepeatedSignature
    <3>1. CASE s = signature
      <4>1. Signature(s) \subseteq AllSignature \cup {n + 1}
        BY <1>3, <2>0, <3>1
      <4>2. Cardinality(Signature(s)) <= Cardinality(AllSignature) + 1 /\ IsFiniteSet(Signature(s))
        BY <2>a, <4>1, CountOne
      <4>3. Cardinality(Signature(s)) \in Nat /\ Cardinality(AllSignature) \in Nat
        BY <2>a, <4>2, FS_CardinalityType
      <4> QED BY <2>1, <4>2, <4>3, PlanningAssumption
    <3>2. CASE s # signature
      <4>1. \A i : i \in Signature(s) <=> i \in OfSignature(s)
        BY <2>0, <2>b, <3>2
      <4>2. Signature(s) = OfSignature(s)
        BY <4>1
      <4> QED BY <4>2 DEF PlanningInv, PlanningIsBounded
    <3> QED BY <3>1, <3>2
  <2>5. ASSUME NEW i \in GrantedCycles' PROVE ~Oscillates([j \in 1..i |-> cycles'[j].signature])
    <3>1. CASE i = n + 1
      BY <1>5, <2>1, <3>1
    <3>2. CASE i # n + 1
      <4>1. i \in GrantedCycles /\ i \in 1..n
        BY <2>0, <2>5, <3>2
      <4> QED BY <1>4, <4>1 DEF PlanningInv, PlanningIsBounded, SignaturesTo
    <3> QED BY <3>1, <3>2
  <2> HIDE DEF OfRole, OfSignature, AllRole, AllSignature
  <2> QED BY <1>3, <2>3, <2>4, <2>5 DEF PlanningInv, PlanningIsBounded
<1> QED BY <1>6, <1>7

\* Whatever the crashes and the recoveries, the cycles granted stay within
\* their budgets, for any budget and any signatures (recordPlanningCycle).
THEOREM PlanningStaysBounded == PlanningSpec => []PlanningIsBounded
<1>1. PlanningInit => PlanningInv
  <2> SUFFICES ASSUME PlanningInit PROVE PlanningInv
    OBVIOUS
  <2>1. cycles \in Seq(Cycle) /\ GrantedCycles = {}
    BY EmptySeq DEF PlanningInit, GrantedCycles
  <2>2. \A r : {i \in GrantedCycles : cycles[i].role = r} = {}
    BY <2>1
  <2>3. \A s : {i \in GrantedCycles : cycles[i].signature = s} = {}
    BY <2>1
  <2> QED BY <2>1, <2>2, <2>3, FS_EmptySet, PlanningAssumption DEF PlanningInv, PlanningIsBounded
<1>2. PlanningInv /\ [PlanningNext]_planningVars => PlanningInv'
  <2> SUFFICES ASSUME PlanningInv, [PlanningNext]_planningVars PROVE PlanningInv'
    OBVIOUS
  <2>1. CASE UNCHANGED cycles
    BY <2>1 DEF PlanningInv, PlanningIsBounded, GrantedCycles
  <2>2. CASE RecordPlanningCycle
    BY <2>2, RecordingIsBounded
  <2> QED BY <2>1, <2>2 DEF PlanningNext, planningVars, WriteCounters, WritePlanningSnapshot,
                             StopPlanning, RecoverPlanning
<1>3. PlanningInv => PlanningIsBounded
  BY DEF PlanningInv
<1> QED BY <1>1, <1>2, <1>3, PTL DEF PlanningSpec

-----------------------------------------------------------------------------
(* The runs of an acceptance criterion. *)

Trees == [work : {"none", "uncommitted", "committed"}, edit : 0..MaxEdits]
Run == [exit : {0, 1, Null}, cut : {"time", "output", Null}]
VerifySteps == {"idle", "plain", "fingerprint", "threw", "judge", "add", "run", "failed", "remove",
                "refingerprint", "replay", "replayed", "unreplayed", "done"}
Verification ==
  [step : VerifySteps, head : BOOLEAN, before : Trees \cup {Null}, runs : Seq(Run), same : BOOLEAN,
   after : Trees \cup {Null}, replay : Run \cup {Null}, worktrees : SUBSET (Nat \cup {"baseline"}),
   verdict : {"PASS", "FAIL", Null}, exit : {0, 1, Null}, suspected : BOOLEAN,
   left : Trees \cup {Null, Others}]

RunsTypeOK ==
  /\ criterion \in [isolated : BOOLEAN, automatic : BOOLEAN, deterministic : BOOLEAN]
  /\ cause \in {"nothing", "work", "contract", "chance"}
  /\ source \in Trees
  /\ verify \in Verification
  /\ verify.step \in {"remove", "refingerprint", "judge"} => verify.runs # <<>>
  /\ verify.step = "plain" => ~criterion.isolated
  /\ preflight # "shown" => verify.step = "idle"

\* What the last run left is what the second fingerprint sees, and a success
\* says that it is what the first one saw.
LeftIsCompared ==
  criterion.isolated /\ verify.left # Others =>
    /\ verify.step \in {"remove", "refingerprint"} => verify.left = source
    /\ verify.step = "judge" => verify.left = verify.after

PassIsDone == verify.verdict = "PASS" => verify.step = "done"

\* The baseline fails by itself only on a contract that is wrong, or by chance.
SuspectIsReplayed ==
  verify.suspected /\ verify.replay.cut = Null => cause \in {"contract", "chance"}

RunsInv == RunsTypeOK /\ LeftIsCompared /\ PassIsDone /\ SuspectIsReplayed /\ IsolatedPassKeepsSource

LEMMA RunsTyped ==
  ASSUME RunsTypeOK, NEW work \in BOOLEAN, NEW run \in Runs(work)
  PROVE  run \in Run
BY DEF RunsTypeOK, Runs, Run, ExitCodes

LEMMA EditedTyped == ASSUME RunsTypeOK PROVE Edited \subseteq Trees
BY DEF RunsTypeOK, Edited, Trees

\* The steps of a verification that run no command.
LEMMA QuietRunsInv ==
  ASSUME RunsInv, StartCriterion \/ Fingerprint \/ AddWorktree \/ RemoveWorktree \/ Judge
                    \/ RemoveBaseline \/ VerifyAgain
  PROVE  RunsInv'
<1> USE DEF RunsInv, RunsTypeOK
<1>0. NotVerifying \in Verification
  BY EmptySeq DEF NotVerifying, Verification, VerifySteps
<1>1. CASE StartCriterion
  <2>1. \A step \in VerifySteps, head \in BOOLEAN :
          [NotVerifying EXCEPT !.step = step, !.head = head] \in Verification
    BY <1>0 DEF Verification
  <2>2. PICK step \in {"plain", "fingerprint", "threw"}, head \in BOOLEAN :
          verify' = [NotVerifying EXCEPT !.step = step, !.head = head]
    BY <1>1 DEF StartCriterion
  <2>3. verify' \in Verification
    BY <2>1, <2>2 DEF VerifySteps
  <2> QED BY <1>1, <2>2, <2>3, NullIsNoWord DEF StartCriterion, NotVerifying, LeftIsCompared, PassIsDone,
             SuspectIsReplayed, IsolatedPassKeepsSource
<1>2. CASE Fingerprint
  <2>0. UNCHANGED <<criterion, cause, source, preflight>>
    BY <1>2 DEF Fingerprint
  <2>1. CASE verify.step = "fingerprint" /\ verify' = [verify EXCEPT !.step = "add", !.before = source]
    <3>1. verify' \in Verification
      BY <2>1 DEF Verification, VerifySteps
    <3>2. /\ verify'.step = "add" /\ verify'.verdict = verify.verdict
          /\ verify'.suspected = verify.suspected /\ verify'.replay = verify.replay
      BY <2>1 DEF Verification
    <3> QED BY <2>0, <2>1, <3>1, <3>2 DEF LeftIsCompared, PassIsDone, SuspectIsReplayed,
               IsolatedPassKeepsSource
  <2>2. CASE verify.step = "refingerprint" /\ verify' = [verify EXCEPT !.step = "judge", !.after = source]
    <3>1. verify' \in Verification
      BY <2>2 DEF Verification, VerifySteps
    <3>2. /\ verify'.step = "judge" /\ verify'.verdict = verify.verdict /\ verify'.left = verify.left
          /\ verify'.after = source /\ verify'.runs = verify.runs
          /\ verify'.suspected = verify.suspected /\ verify'.replay = verify.replay
      BY <2>2 DEF Verification
    <3> QED BY <2>0, <2>2, <3>1, <3>2 DEF LeftIsCompared, PassIsDone, SuspectIsReplayed,
               IsolatedPassKeepsSource
  <2> QED BY <1>2, <2>1, <2>2 DEF Fingerprint
<1>3. CASE AddWorktree
  <2>1. PICK step \in {"run", "failed"}, worktrees \in SUBSET (Nat \cup {"baseline"}) :
          verify' = [verify EXCEPT !.step = step, !.worktrees = worktrees]
    <3>1. Sequence \in Nat
      BY DEF Sequence, Verification
    <3>2. verify.worktrees \cup {Sequence} \in SUBSET (Nat \cup {"baseline"})
          /\ verify.worktrees \in SUBSET (Nat \cup {"baseline"})
      BY <3>1 DEF Verification
    <3>3. CASE verify' = [verify EXCEPT !.step = "run", !.worktrees = @ \union {Sequence}]
      BY <3>2, <3>3
    <3>4. CASE verify' = [verify EXCEPT !.step = "failed"]
      <4>1. verify' = [verify EXCEPT !.step = "failed", !.worktrees = verify.worktrees]
        BY <3>4 DEF Verification
      <4> QED BY <3>2, <4>1
    <3> QED BY <1>3, <3>3, <3>4 DEF AddWorktree
  <2>2. verify' \in Verification
    BY <2>1 DEF Verification, VerifySteps
  <2>3. /\ verify'.step \in {"run", "failed"} /\ verify'.verdict = verify.verdict
        /\ verify'.suspected = verify.suspected /\ verify'.replay = verify.replay
    BY <2>1 DEF Verification
  <2> QED BY <1>3, <2>2, <2>3 DEF AddWorktree, LeftIsCompared, PassIsDone,
             SuspectIsReplayed, IsolatedPassKeepsSource
<1>4. CASE RemoveWorktree
  <2>0. \A step \in VerifySteps : [verify EXCEPT !.worktrees = {}, !.step = step] \in Verification
    BY DEF Verification
  <2>1. verify' \in Verification
    BY <1>4, <2>0 DEF RemoveWorktree, Removed, VerifySteps
  <2> QED BY <1>4, <2>1, NullIsNoWord DEF RemoveWorktree, LeftIsCompared, PassIsDone,
             SuspectIsReplayed, IsolatedPassKeepsSource, Verification
<1>5. CASE Judge
  <2>1. verify.runs[1] \in Run /\ SubSeq(verify.runs, 1, 1) \in Seq(Run) /\ CriterionExit \in {0, 1, Null}
    <3>1. verify.runs \in Seq(Run) /\ verify.runs # <<>>
      BY <1>5 DEF Judge, Verification
    <3>2. 1 \in 1..Len(verify.runs)
      BY <3>1, EmptySeq
    <3>3. verify.runs[1] \in Run
      BY <3>1, <3>2, ElementOfSeq
    <3>4. SubSeq(verify.runs, 1, 1) \in Seq(Run)
      BY <3>3, SubSeqProperties
    <3> QED BY <3>3, <3>4 DEF CriterionExit, Run
  <2>2. CASE Passed
    <3>1. criterion.isolated => verify.before = verify.after
      BY <2>2 DEF Passed, CriterionExit, SourceUnchanged
    <3>2. verify' = [verify EXCEPT !.verdict = "PASS", !.exit = 0, !.step = "done"]
      BY <1>5, <2>2 DEF Judge
    <3>3. verify' \in Verification
      BY <3>2 DEF Verification, VerifySteps
    <3>4. /\ verify'.left = verify.left /\ verify'.before = verify.before /\ verify'.step = "done"
          /\ verify'.suspected = verify.suspected /\ verify'.replay = verify.replay
          /\ verify.step = "judge" /\ UNCHANGED <<criterion, cause, source, preflight>>
      BY <1>5, <3>2 DEF Judge, Verification
    <3>5. IsolatedPassKeepsSource'
      BY <3>1, <3>4 DEF LeftIsCompared, IsolatedPassKeepsSource
    <3> QED BY <3>3, <3>4, <3>5 DEF LeftIsCompared, PassIsDone, SuspectIsReplayed
  <2>3. CASE ~Passed
    <3>1. PICK step \in {"replay", "done"} :
            verify' = [NotVerifying EXCEPT !.verdict = "FAIL", !.exit = CriterionExit,
                         !.runs = SubSeq(verify.runs, 1, 1), !.step = step]
      BY <1>5, <2>3 DEF Judge
    <3>2. verify' \in Verification
      BY <1>0, <2>1, <3>1 DEF Verification, VerifySteps
    <3>3. verify'.verdict = "FAIL" /\ verify'.suspected = FALSE /\ verify'.step \in {"replay", "done"}
      BY <3>1 DEF NotVerifying
    <3> QED BY <1>5, <3>2, <3>3 DEF Judge, LeftIsCompared, PassIsDone,
             SuspectIsReplayed, IsolatedPassKeepsSource
  <2> QED BY <2>2, <2>3
<1>6. CASE RemoveBaseline
  <2>1. verify' \in Verification
    BY <1>6 DEF RemoveBaseline, Verification, VerifySteps
  <2> QED BY <1>6, <2>1, NullIsNoWord DEF RemoveBaseline, LeftIsCompared, PassIsDone,
             SuspectIsReplayed, IsolatedPassKeepsSource, Verification
<1>7. CASE VerifyAgain
  BY <1>0, <1>7, NullIsNoWord DEF VerifyAgain, NotVerifying, LeftIsCompared, PassIsDone,
     SuspectIsReplayed, IsolatedPassKeepsSource
<1> QED BY <1>1, <1>2, <1>3, <1>4, <1>5, <1>6, <1>7

\* The steps that run a command, or belong to somebody else.
LEMMA LoudRunsInv ==
  ASSUME RunsInv, Preflight \/ ShowWarnings \/ Develop \/ RunPlain \/ RunIsolated \/ Replay
  PROVE  RunsInv'
<1> USE DEF RunsInv, RunsTypeOK
<1>0. Edited \subseteq Trees /\ HasWork \in BOOLEAN
  BY EditedTyped DEF HasWork
<1>1. CASE Preflight \/ ShowWarnings
  <2>1. source' \in Trees
    BY <1>0, <1>1 DEF Preflight, ShowWarnings, RunsTo
  <2>2. verify.step = "idle" /\ UNCHANGED <<criterion, cause, verify>>
    BY <1>1, NullIsNoWord DEF Preflight, ShowWarnings
  <2> QED BY <2>1, <2>2 DEF LeftIsCompared, PassIsDone, SuspectIsReplayed, IsolatedPassKeepsSource
<1>2. CASE Develop
  <2>1. source' \in Trees /\ UNCHANGED <<criterion, cause, preflight>>
    BY <1>0, <1>2 DEF Develop, Trees
  <2>2. verify' = [verify EXCEPT !.left = IF verify.step = "idle" THEN Null ELSE Others]
    BY <1>2 DEF Develop
  <2>3. verify' \in Verification
    BY <2>2 DEF Verification
  <2>4. /\ verify'.left = IF verify.step = "idle" THEN Null ELSE Others
        /\ verify'.step = verify.step /\ verify'.verdict = verify.verdict /\ verify'.runs = verify.runs
        /\ verify'.suspected = verify.suspected /\ verify'.replay = verify.replay
    BY <2>2 DEF Verification
  <2> QED BY <2>1, <2>3, <2>4 DEF LeftIsCompared, PassIsDone, SuspectIsReplayed, IsolatedPassKeepsSource
<1>3. CASE RunPlain
  <2>1. PICK run \in Runs(HasWork) : \E after \in Edited :
          verify' = [verify EXCEPT !.step = "judge", !.runs = <<run>>] /\ RunsTo(after)
    BY <1>3 DEF RunPlain
  <2>2. run \in Run
    BY <1>0, <2>1, RunsTyped
  <2>3. <<run>> \in Seq(Run) /\ <<run>> # <<>>
    BY <2>2
  <2>4. verify' \in Verification
    BY <2>1, <2>3 DEF Verification, VerifySteps
  <2>5. /\ verify'.step = "judge" /\ verify'.verdict = verify.verdict /\ verify'.runs = <<run>>
        /\ verify'.suspected = verify.suspected /\ verify'.replay = verify.replay
    BY <2>1 DEF Verification
  <2>6. /\ ~criterion.isolated /\ preflight = "shown" /\ verify.step = "plain"
        /\ source' \in Trees /\ UNCHANGED <<criterion, cause, preflight>>
    BY <1>0, <1>3 DEF RunPlain, RunsTo
  <2> QED BY <2>3, <2>4, <2>5, <2>6 DEF LeftIsCompared, PassIsDone, SuspectIsReplayed,
             IsolatedPassKeepsSource
<1>4. CASE RunIsolated
  <2>0. /\ verify.step = "run" /\ preflight = "shown" /\ UNCHANGED <<criterion, cause, preflight>>
    BY <1>4 DEF RunIsolated
  <2>1. PICK run \in Runs(verify.head), inBounds \in BOOLEAN, same \in BOOLEAN, after \in Edited :
          /\ verify' = IF inBounds
               THEN [verify EXCEPT !.step = "remove", !.runs = Append(@, run), !.same = same,
                       !.left = IF @ = Others THEN @ ELSE after]
               ELSE [verify EXCEPT !.step = "failed"]
          /\ RunsTo(after)
    BY <1>4 DEF RunIsolated
  <2>2. run \in Run /\ after \in Trees /\ source' = after
    <3>1. verify.head \in BOOLEAN
      BY DEF Verification
    <3> QED BY <1>0, <2>1, <3>1, RunsTyped DEF RunsTo
  <2>3. CASE inBounds
    <3>1. Append(verify.runs, run) \in Seq(Run) /\ Append(verify.runs, run) # <<>>
      BY <2>2, AppendProperties DEF Verification
    <3> DEFINE left == IF verify.left = Others THEN verify.left ELSE after
               runs == Append(verify.runs, run)
    <3>2. left \in Trees \cup {Null, Others}
      BY <2>2
    <3>3. verify' = [verify EXCEPT !.step = "remove", !.runs = runs, !.same = same, !.left = left]
      BY <2>1, <2>3
    <3> HIDE DEF left, runs
    <3>4. verify' \in Verification
      BY <3>1, <3>2, <3>3 DEF Verification, VerifySteps, runs
    <3>5. /\ verify'.step = "remove" /\ verify'.verdict = verify.verdict /\ verify'.runs = runs
          /\ verify'.suspected = verify.suspected /\ verify'.replay = verify.replay
          /\ verify'.left = left
      BY <3>3 DEF Verification
    <3> QED BY <2>0, <2>2, <3>1, <3>4, <3>5 DEF LeftIsCompared, PassIsDone, SuspectIsReplayed,
               IsolatedPassKeepsSource, left, runs
  <2>4. CASE ~inBounds
    <3>1. verify' = [verify EXCEPT !.step = "failed"]
      BY <2>1, <2>4
    <3>2. verify' \in Verification
      BY <3>1 DEF Verification, VerifySteps
    <3>3. /\ verify'.step = "failed" /\ verify'.verdict = verify.verdict
          /\ verify'.suspected = verify.suspected /\ verify'.replay = verify.replay
      BY <3>1 DEF Verification
    <3> QED BY <2>0, <2>2, <3>2, <3>3 DEF LeftIsCompared, PassIsDone, SuspectIsReplayed,
               IsolatedPassKeepsSource
  <2> QED BY <2>3, <2>4
<1>5. CASE Replay
  <2>0. verify.step = "replay" /\ preflight = "shown" /\ UNCHANGED <<criterion, cause, preflight>>
    BY <1>5 DEF Replay
  <2>1. CASE verify' = [verify EXCEPT !.step = "unreplayed"] /\ UNCHANGED source
    <3>1. verify' \in Verification
      BY <2>1 DEF Verification, VerifySteps
    <3>2. /\ verify'.step = "unreplayed" /\ verify'.verdict = verify.verdict
          /\ verify'.suspected = verify.suspected /\ verify'.replay = verify.replay
      BY <2>1 DEF Verification
    <3> QED BY <2>0, <2>1, <3>1, <3>2 DEF LeftIsCompared, PassIsDone, SuspectIsReplayed,
               IsolatedPassKeepsSource
  <2>2. ASSUME NEW run \in Runs(ReplayTree), NEW after \in Edited, RunsTo(after),
               verify' = [verify EXCEPT !.step = "replayed", !.worktrees = {"baseline"},
                            !.replay = run, !.suspected = Suspected(run)]
        PROVE  RunsInv'
    <3>1. run \in Run /\ source' \in Trees
      BY <1>0, <2>2, RunsTyped DEF ReplayTree, RunsTo
    <3>2. Suspected(run) \in BOOLEAN
      BY DEF Suspected
    <3>3. verify' \in Verification
      BY <2>2, <3>1, <3>2 DEF Verification, VerifySteps
    <3>4. /\ verify'.step = "replayed" /\ verify'.verdict = verify.verdict
          /\ verify'.suspected = Suspected(run) /\ verify'.replay = run
      BY <2>2 DEF Verification
    <3>5. Suspected(run) /\ run.cut = Null => cause \in {"contract", "chance"}
      BY <2>2, NullIsNoWord DEF Suspected, Runs, ExitCodes, ReplayTree
    <3> QED BY <2>0, <3>1, <3>3, <3>4, <3>5 DEF LeftIsCompared, PassIsDone, SuspectIsReplayed,
               IsolatedPassKeepsSource
  <2> QED BY <1>5, <2>1, <2>2 DEF Replay
<1> QED BY <1>1, <1>2, <1>3, <1>4, <1>5

LEMMA RunsAlwaysInv == RunsSpec => []RunsInv
<1>1. RunsInit => RunsInv
  <2> SUFFICES ASSUME RunsInit PROVE RunsInv
    OBVIOUS
  <2>1. NotVerifying \in Verification
    BY EmptySeq DEF NotVerifying, Verification, VerifySteps
  <2>2. source \in Trees
    BY RunsAssumption DEF RunsInit, Trees
  <2> QED BY <2>1, <2>2, NullIsNoWord DEF RunsInit, RunsInv, RunsTypeOK, NotVerifying, LeftIsCompared,
             PassIsDone, SuspectIsReplayed, IsolatedPassKeepsSource
<1>2. RunsInv /\ [RunsNext]_runsVars => RunsInv'
  <2> SUFFICES ASSUME RunsInv, [RunsNext]_runsVars PROVE RunsInv'
    OBVIOUS
  <2>1. CASE UNCHANGED runsVars
    BY <2>1 DEF runsVars, RunsInv, RunsTypeOK, LeftIsCompared, PassIsDone, SuspectIsReplayed,
                IsolatedPassKeepsSource
  <2> QED BY <2>1, QuietRunsInv, LoudRunsInv DEF RunsNext
<1> QED BY <1>1, <1>2, PTL DEF RunsSpec

\* An isolated criterion that passes has left the source tree as it found it
\* (runIsolatedAcceptance, sourceFingerprint).
THEOREM IsolatedPassesKeepSource == RunsSpec => []IsolatedPassKeepsSource
<1>1. RunsInv => IsolatedPassKeepsSource
  BY DEF RunsInv
<1> QED BY <1>1, RunsAlwaysInv, PTL

\* A failure of the release's own work is not called a defect of the contract
\* by its replay on the locked baseline (replayFailedAcceptanceOnBaseline).
THEOREM WorkFailuresAreNotExcused == RunsSpec => []WorkFailureIsNotExcused
<1>1. RunsInv => WorkFailureIsNotExcused
  BY DEF RunsInv, SuspectIsReplayed, WorkFailureIsNotExcused
<1> QED BY <1>1, RunsAlwaysInv, PTL

-----------------------------------------------------------------------------
(* The release train. *)

Versions == [minor : Nat, patch : Nat, pre : BOOLEAN]

LEMMA BeforeIsStrict ==
  /\ \A a \in Versions : ~Before(a, a)
  /\ \A a, b, c \in Versions : Before(a, b) /\ Before(b, c) => Before(a, c)
BY DEF Before, Versions

\* The version after v that a stage asks for.
After(v, stage) == IF stage = "FIELD_HARDEN" THEN NextPatch(v) ELSE NextMinor(v)

LEMMA AfterIsLater ==
  ASSUME NEW v \in Versions, NEW stage
  PROVE  After(v, stage) \in Versions /\ Before(v, After(v, stage))
BY DEF After, NextPatch, NextMinor, Version, Versions, Before

\* The recursion of VersionsFor is what it says, for the lengths there are.
LEMMA VersionsUnfold ==
  ASSUME NEW current, NEW stages, Len(stages) \in 1..4
  PROVE  VersionsFor(current, stages) =
           [i \in 1..Len(stages) |-> IF i = 1 THEN current
                                     ELSE After(VersionsFor(current, stages)[i - 1], stages[i])]
<1> DEFINE n == Len(stages)
           Body(f) == [i \in 1..n |-> IF i = 1 THEN current
                                      ELSE IF stages[i] = "FIELD_HARDEN" THEN NextPatch(f[i - 1])
                                      ELSE NextMinor(f[i - 1])]
           second == After(current, stages[2])
           third == After(second, stages[3])
           g == [i \in 1..n |-> CASE i = 1 -> current [] i = 2 -> second [] i = 3 -> third
                                  [] i = 4 -> After(third, stages[4])]
<1>1. g = Body(g)
  <2>1. ASSUME NEW i \in 1..n PROVE g[i] = Body(g)[i]
    <3>1. CASE i = 1
      BY <3>1
    <3>2. CASE i = 2
      BY <3>2 DEF After
    <3>3. CASE i = 3
      BY <3>3 DEF After
    <3>4. CASE i = 4
      BY <3>4 DEF After
    <3> QED BY <3>1, <3>2, <3>3, <3>4
  <2> QED BY <2>1
<1>2. VersionsFor(current, stages) = CHOOSE f : f = Body(f)
  BY DEF VersionsFor
<1> HIDE DEF Body, g
<1>3. VersionsFor(current, stages) = Body(VersionsFor(current, stages))
  BY <1>1, <1>2
<1> QED BY <1>3 DEF Body, After

\* The versions of a train only go up, so no two of them are the same.
LEMMA VersionsIncrease ==
  ASSUME NEW current \in Versions, NEW stages, Len(stages) \in 1..4
  PROVE  LET v == VersionsFor(current, stages) IN
         /\ \A i \in 2..Len(stages) : Before(v[i - 1], v[i])
         /\ \A i, j \in 1..Len(stages) : i # j => v[i] # v[j]
<1> DEFINE v == VersionsFor(current, stages)
           n == Len(stages)
<1>1. v = [i \in 1..n |-> IF i = 1 THEN current ELSE After(v[i - 1], stages[i])]
  BY VersionsUnfold
<1>0. n \in 1..4
  OBVIOUS
<1> HIDE DEF v, n
<1>2. v[1] = current /\ \A i \in 2..n : v[i] = After(v[i - 1], stages[i])
  BY <1>0, <1>1
<1>3. v[1] \in Versions
  BY <1>2
<1>4. n >= 2 => v[2] \in Versions /\ Before(v[1], v[2])
  BY <1>0, <1>2, <1>3, AfterIsLater
<1>5. n >= 3 => v[3] \in Versions /\ Before(v[2], v[3])
  BY <1>0, <1>2, <1>4, AfterIsLater
<1>6. n >= 4 => v[4] \in Versions /\ Before(v[3], v[4])
  BY <1>0, <1>2, <1>5, AfterIsLater
<1>7. \A i \in 2..n : Before(v[i - 1], v[i])
  <2> SUFFICES ASSUME NEW i \in 2..n PROVE Before(v[i - 1], v[i])
    OBVIOUS
  <2>1. (i = 2 /\ i - 1 = 1 /\ n >= 2) \/ (i = 3 /\ i - 1 = 2 /\ n >= 3) \/ (i = 4 /\ i - 1 = 3 /\ n >= 4)
    BY <1>0
  <2> QED BY <1>4, <1>5, <1>6, <2>1
<1>8. ASSUME NEW i \in 1..n, NEW j \in 1..n, i < j PROVE Before(v[i], v[j])
  <2>1. CASE n >= 2 /\ i = 1 /\ j = 2
    BY <1>4, <2>1
  <2>2. CASE n >= 3 /\ i = 2 /\ j = 3
    BY <1>5, <2>2
  <2>3. CASE n >= 4 /\ i = 3 /\ j = 4
    BY <1>6, <2>3
  <2>4. CASE n >= 3 /\ i = 1 /\ j = 3
    BY <1>0, <1>3, <1>4, <1>5, <2>4, BeforeIsStrict
  <2>5. CASE n >= 4 /\ i = 2 /\ j = 4
    BY <1>0, <1>4, <1>5, <1>6, <2>5, BeforeIsStrict
  <2>6. CASE n >= 4 /\ i = 1 /\ j = 4
    <3>1. Before(v[1], v[3])
      BY <1>0, <1>3, <1>4, <1>5, <2>6, BeforeIsStrict
    <3> QED BY <1>0, <1>3, <1>5, <1>6, <2>6, <3>1, BeforeIsStrict
  <2>7. i \in 1..4 /\ j \in 1..4 /\ i < j /\ j <= n
    BY <1>0, <1>8
  <2> QED BY <2>1, <2>2, <2>3, <2>4, <2>5, <2>6, <2>7
<1>9. \A i \in 1..n : v[i] \in Versions
  <2> SUFFICES ASSUME NEW i \in 1..n PROVE v[i] \in Versions
    OBVIOUS
  <2>1. i = 1 \/ (i = 2 /\ n >= 2) \/ (i = 3 /\ n >= 3) \/ (i = 4 /\ n >= 4)
    BY <1>0
  <2> QED BY <1>3, <1>4, <1>5, <1>6, <2>1
<1>10. ASSUME NEW i \in 1..n, NEW j \in 1..n, i # j PROVE v[i] # v[j]
  <2>1. i < j \/ j < i
    BY <1>10
  <2> QED BY <1>8, <1>9, <2>1, BeforeIsStrict
<1> QED BY <1>7, <1>10 DEF v, n

LEMMA StagesBounded ==
  ASSUME NEW profile, NEW unstable \in BOOLEAN
  PROVE  Len(Stages(profile, unstable)) \in 1..4
BY DEF Stages

\* buildReleaseTrain compiles nothing that validateReleaseTrain refuses.
LEMMA BuildIsValid ==
  ASSUME NEW current \in Versions, NEW unstable \in BOOLEAN, NEW planned
  PROVE  Valid(Build(current, unstable, planned))
<1> DEFINE stages == Stages(project.profile, unstable)
           n == Len(stages)
           version == VersionsFor(current, stages)
           rs == Build(current, unstable, planned).releases
<1>1. n \in 1..4
  BY StagesBounded
<1>2. /\ \A i \in 2..n : Before(version[i - 1], version[i])
      /\ \A i, j \in 1..n : i # j => version[i] # version[j]
  BY <1>1, VersionsIncrease
<1>3. rs = [i \in 1..n |-> ReleaseSpec(i, version, stages, planned)]
  BY DEF Build
<1>4. Len(rs) = n
  BY <1>1, <1>3
<1> HIDE DEF stages, version, rs
<1>5. ASSUME NEW i \in 1..n
      PROVE  /\ rs[i].version = version[i]
             /\ rs[i].predecessor = IF i = 1 THEN Nothing ELSE version[i - 1]
             /\ rs[i].detail = DetailLevel(i)
             /\ rs[i].grants = (i = 1) /\ rs[i].commands = (i = 1)
             /\ rs[i].entry # {} /\ rs[i].exit # {}
  BY <1>3 DEF ReleaseSpec, EntryGate, ExitGate
<1>6. rs[1].predecessor = Nothing /\ rs[1].detail = "CURRENT_FULL" /\ rs[1].grants
  <2>1. 1 \in 1..n /\ DetailLevel(1) = "CURRENT_FULL"
    BY <1>1 DEF DetailLevel
  <2> QED BY <1>5, <2>1
<1>7. \A i, j \in 1..n : i # j => rs[i].version # rs[j].version
  BY <1>2, <1>5
<1>8. ASSUME NEW i \in 2..n
      PROVE  /\ Before(rs[i - 1].version, rs[i].version)
             /\ rs[i].predecessor = rs[i - 1].version
             /\ rs[i].detail \in {"NEXT_BOUNDED", "FUTURE_GATES"}
             /\ ~rs[i].grants /\ ~rs[i].commands
  <2>1. i \in 1..n /\ i - 1 \in 1..n /\ i # 1
    BY <1>1
  <2>2. DetailLevel(i) \in {"NEXT_BOUNDED", "FUTURE_GATES"}
    BY <2>1 DEF DetailLevel
  <2> QED BY <1>2, <1>5, <2>1, <2>2
<1> QED BY <1>1, <1>4, <1>5, <1>6, <1>7, <1>8 DEF Valid, MaxReleases, rs

\* Every train a proposal compiles passes the validation of all its readers,
\* for any plan and any version asked for (buildReleaseTrain,
\* validateReleaseTrain).
THEOREM BuiltTrainsAreValid == TrainSpec => []BuiltTrainIsValid
<1>1. TrainInit => BuiltTrainIsValid
  BY DEF TrainInit, BuiltTrainIsValid
<1>2. BuiltTrainIsValid /\ [TrainNext]_trainVars => BuiltTrainIsValid'
  <2> SUFFICES ASSUME BuiltTrainIsValid, [TrainNext]_trainVars PROVE BuiltTrainIsValid'
    OBVIOUS
  <2>1. CASE Propose
    <3>1. PICK version \in AskedVersions, unstable \in BOOLEAN :
            proposal' = Build(version, unstable, NextStage)
      BY <2>1 DEF Propose
    <3>2. version \in Versions
      BY <3>1, TrainAssumption DEF AskedVersions, Version, Versions
    <3> QED BY <3>1, <3>2, BuildIsValid DEF BuiltTrainIsValid
  <2>2. CASE UNCHANGED proposal \/ proposal' = Nothing
    BY <2>2 DEF BuiltTrainIsValid, Valid
  <2> QED BY <2>1, <2>2 DEF TrainNext, trainVars, ApproveManually, Approves, Close, Continue, Rotate
<1> QED BY <1>1, <1>2, PTL DEF TrainSpec

-----------------------------------------------------------------------------
(* The task graph.  That the verdict is right is not inductive: what is    *)
(* visited must be a graph that needs nothing else and can be numbered,    *)
(* and every numbering must descend along the trail, so that a dependency  *)
(* on the trail leaves none.                                               *)

GraphTypeOK ==
  /\ dependsOn \in [GraphTasks -> SUBSET (GraphTasks \cup {Ghost})]
  /\ verdict \in {"unread", "searching", "accepted", "refused"}
  /\ trail \in Seq(GraphTasks)
  /\ visited \in SUBSET GraphTasks /\ finished \in SUBSET GraphTasks

\* The tasks of S depend on one another only, by a numbering, and every part of S
\* has a task that needs no other of it.
Grounded(S) ==
  /\ \A t \in S : dependsOn[t] \subseteq S
  /\ \E n \in [S -> 1..Cardinality(S)] : \A t \in S : \A d \in dependsOn[t] : n[d] < n[t]
  /\ \A T \in SUBSET S : T # {} => \E t \in T : dependsOn[t] \cap T = {}

Numberings == [GraphTasks -> 1..Cardinality(GraphTasks)]
Orders(n) == \A t \in GraphTasks : \A d \in dependsOn[t] : d \in GraphTasks /\ n[d] < n[t]

\* Along the trail each task was called by the one before, and none is there twice.
Descending ==
  /\ \A i, j \in 1..Len(trail) : i < j => trail[i] # trail[j]
  /\ \A n \in Numberings : Orders(n) =>
       \A i, j \in 1..Len(trail) : i < j => n[trail[j]] < n[trail[i]]

GraphInv ==
  /\ GraphTypeOK
  /\ verdict \in {"searching", "accepted"} =>
       \A t \in GraphTasks : t \notin dependsOn[t] /\ dependsOn[t] \subseteq GraphTasks
  /\ Descending
  /\ \A i \in 1..Len(trail) : trail[i] \notin visited
  /\ Grounded(visited)
  /\ verdict = "accepted" => visited = GraphTasks
  /\ verdict = "refused" => \A n \in Numberings : ~Orders(n)

LEMMA GraphStarts == GraphInit => GraphInv
<1> SUFFICES ASSUME GraphInit PROVE GraphInv
  OBVIOUS
<1>1. GraphTypeOK
  BY DEF GraphInit, GraphTypeOK
<1>2. Descending
  BY DEF GraphInit, Descending
<1>3. Grounded({})
  <2>1. [t \in {} |-> 1] \in [{} -> 1..Cardinality({})]
    OBVIOUS
  <2> QED BY <2>1 DEF Grounded
<1> QED BY <1>1, <1>2, <1>3 DEF GraphInit, GraphInv

\* A task whose dependencies are grounded may be added to them.
LEMMA GroundedGrows ==
  ASSUME GraphTypeOK, NEW S \in SUBSET GraphTasks, Grounded(S),
         NEW t \in GraphTasks, t \notin S, dependsOn[t] \subseteq S
  PROVE  Grounded(S \cup {t})
<1>1. IsFiniteSet(S)
  BY GraphAssumption, FS_Subset
<1>2. Cardinality(S) \in Nat /\ Cardinality(S \cup {t}) = Cardinality(S) + 1
  BY <1>1, FS_CardinalityType, FS_AddElement
<1>3. \A u \in S \cup {t} : dependsOn[u] \subseteq S
  BY DEF Grounded
<1>4. \E n \in [S \cup {t} -> 1..Cardinality(S \cup {t})] :
        \A u \in S \cup {t} : \A d \in dependsOn[u] : n[d] < n[u]
  <2>1. PICK n \in [S -> 1..Cardinality(S)] :
          \A u \in S : \A d \in dependsOn[u] : n[d] < n[u]
    BY DEF Grounded
  <2> DEFINE m == [u \in S \cup {t} |-> IF u = t THEN Cardinality(S) + 1 ELSE n[u]]
  <2>2. \A u \in S : n[u] \in Nat /\ n[u] >= 1 /\ n[u] <= Cardinality(S)
    BY <1>2, <2>1
  <2>3. m \in [S \cup {t} -> 1..Cardinality(S \cup {t})]
    BY <1>2, <2>2
  <2>4. \A u \in S : m[u] = n[u] /\ m[u] < m[t]
    BY <1>2, <2>2
  <2>5. \A u \in S \cup {t} : \A d \in dependsOn[u] : m[d] < m[u]
    BY <1>3, <2>1, <2>4
  <2> QED BY <2>3, <2>5
<1>5. ASSUME NEW T \in SUBSET (S \cup {t}), T # {}
      PROVE  \E u \in T : dependsOn[u] \cap T = {}
  <2>1. CASE T \cap S = {}
    <3>1. t \in T /\ dependsOn[t] \cap T = {}
      BY <1>3, <1>5, <2>1
    <3> QED BY <3>1
  <2>2. CASE T \cap S # {}
    <3>1. PICK u \in T \cap S : dependsOn[u] \cap (T \cap S) = {}
      BY <2>2 DEF Grounded
    <3>2. dependsOn[u] \cap T = {}
      BY <1>3, <3>1
    <3> QED BY <3>1, <3>2
  <2> QED BY <2>1, <2>2
<1> QED BY <1>3, <1>4, <1>5 DEF Grounded

LEMMA ValidateKeeps ==
  ASSUME GraphInv, ValidateGoalGraph
  PROVE  GraphInv'
<1> DEFINE sound == \A t \in GraphTasks : t \notin dependsOn[t] /\ dependsOn[t] \subseteq GraphTasks
<1>1. verdict' = IF sound THEN "searching" ELSE "refused"
  BY DEF ValidateGoalGraph
<1>2. ~sound => \A n \in Numberings : ~Orders(n)
  <2> SUFFICES ASSUME NEW n \in Numberings, Orders(n) PROVE sound
    OBVIOUS
  <2>1. ASSUME NEW t \in GraphTasks PROVE t \notin dependsOn[t]
    <3>1. n[t] \in Int
      BY DEF Numberings
    <3> QED BY <3>1 DEF Orders
  <2> QED BY <2>1 DEF Orders
<1>3. UNCHANGED <<dependsOn, trail, visited, finished>>
  BY DEF ValidateGoalGraph
<1> HIDE DEF sound
<1>4. Descending' /\ Grounded(visited)' /\ GraphTypeOK'
  BY <1>1, <1>3 DEF GraphInv, Descending, Grounded, GraphTypeOK, Orders
<1> QED BY <1>1, <1>2, <1>3, <1>4 DEF GraphInv, Orders, sound

LEMMA VisitKeeps ==
  ASSUME GraphInv, Visit
  PROVE  GraphInv'
<1>1. PICK t \in Calls : IF t \in Visiting THEN verdict' = "refused" /\ UNCHANGED trail
                         ELSE trail' = Append(trail, t) /\ UNCHANGED verdict
  BY DEF Visit
<1>2. /\ verdict = "searching" /\ trail \in Seq(GraphTasks) /\ Len(trail) \in Nat
      /\ UNCHANGED <<dependsOn, visited, finished>>
  BY DEF Visit, GraphInv, GraphTypeOK
<1>3. Grounded(visited)'
  BY <1>2 DEF GraphInv, Grounded
<1>4. t \in GraphTasks /\ t \notin visited
  <2>1. trail # <<>> => trail[Len(trail)] \in GraphTasks
    BY <1>2
  <2> QED BY <1>2, <2>1 DEF Calls, GraphInv
\* Whoever is called is below all of the trail in every numbering.
<1>5. ASSUME NEW n \in Numberings, Orders(n), NEW i \in 1..Len(trail)
      PROVE  n[t] < n[trail[i]]
  <2>1. trail # <<>> /\ Len(trail) \in 1..Len(trail)
    BY <1>2
  <2>2. trail[Len(trail)] \in GraphTasks /\ trail[i] \in GraphTasks
    BY <1>2, <2>1
  <2>3. t \in dependsOn[trail[Len(trail)]]
    BY <2>1 DEF Calls
  <2>4. n[t] < n[trail[Len(trail)]]
    BY <1>5, <2>2, <2>3 DEF Orders
  <2>5. i < Len(trail) => n[trail[Len(trail)]] < n[trail[i]]
    BY <1>5, <2>1 DEF GraphInv, Descending
  <2>6. n[t] \in Int /\ n[trail[i]] \in Int /\ n[trail[Len(trail)]] \in Int
    BY <1>4, <2>2 DEF Numberings
  <2>7. i = Len(trail) \/ i < Len(trail)
    BY <1>2
  <2> QED BY <2>4, <2>5, <2>6, <2>7
<1>6. CASE t \in Visiting
  <2>1. verdict' = "refused" /\ trail' = trail
    BY <1>1, <1>6, Zenon
  <2>2. \A n \in Numberings : ~Orders(n)
    <3> SUFFICES ASSUME NEW n \in Numberings, Orders(n) PROVE FALSE
      OBVIOUS
    <3>1. PICK i \in 1..Len(trail) : t = trail[i]
      BY <1>2, <1>6 DEF Visiting
    <3>2. n[t] < n[t] /\ n[t] \in Int
      BY <1>4, <1>5, <3>1 DEF Numberings
    <3> QED BY <3>2
  <2>3. Descending' /\ GraphTypeOK'
    BY <1>2, <2>1 DEF GraphInv, Descending, GraphTypeOK, Orders
  <2> QED BY <1>2, <1>3, <2>1, <2>2, <2>3 DEF GraphInv, Orders
<1>7. CASE t \notin Visiting
  <2>1. trail' = Append(trail, t) /\ verdict' = verdict
    BY <1>1, <1>7, Zenon
  <2>2. /\ trail' \in Seq(GraphTasks) /\ Len(trail') = Len(trail) + 1
        /\ \A i \in 1..Len(trail) : trail'[i] = trail[i]
        /\ trail'[Len(trail) + 1] = t
    BY <1>2, <1>4, <2>1
  <2>3. \A i \in 1..Len(trail') : i \in 1..Len(trail) \/ i = Len(trail) + 1
    BY <1>2, <2>2
  <2>4. \A i \in 1..Len(trail) : trail[i] # t
    BY <1>2, <1>7 DEF Visiting
  <2>5. ASSUME NEW i \in 1..Len(trail'), NEW j \in 1..Len(trail'), i < j
        PROVE  /\ trail'[i] # trail'[j]
               /\ \A n \in Numberings : Orders(n) => n[trail'[j]] < n[trail'[i]]
    <3>1. i \in 1..Len(trail)
      BY <1>2, <2>2, <2>5
    <3>2. CASE j \in 1..Len(trail)
      BY <2>2, <2>5, <3>1, <3>2 DEF GraphInv, Descending
    <3>3. CASE j = Len(trail) + 1
      BY <1>5, <2>2, <2>4, <3>1, <3>3
    <3> QED BY <2>3, <3>2, <3>3
  <2>6. \A n : Orders(n)' <=> Orders(n)
    BY <1>2 DEF Orders
  <2>7. Descending'
    BY <2>5, <2>6 DEF Descending
  <2>8. \A i \in 1..Len(trail') : trail'[i] \notin visited
    BY <1>4, <2>2, <2>3 DEF GraphInv
  <2>9. GraphTypeOK'
    BY <1>2, <2>1, <2>2 DEF GraphInv, GraphTypeOK
  <2> QED BY <1>2, <1>3, <2>1, <2>7, <2>8, <2>9 DEF GraphInv
<1> QED BY <1>6, <1>7

LEMMA VisitReturnsKeeps ==
  ASSUME GraphInv, VisitReturns
  PROVE  GraphInv'
<1> DEFINE t == trail[Len(trail)]
<1>1. /\ verdict = "searching" /\ trail \in Seq(GraphTasks) /\ Len(trail) \in Nat
      /\ trail # <<>> /\ Calls = {}
      /\ UNCHANGED <<dependsOn, verdict, finished>>
      /\ visited' = visited \cup {t} /\ visited \in SUBSET GraphTasks
      /\ trail' = SubSeq(trail, 1, Len(trail) - 1)
  BY DEF VisitReturns, GraphInv, GraphTypeOK
<1>2. Len(trail) \in 1..Len(trail) /\ t \in GraphTasks
  BY <1>1
<1>3. t \notin visited /\ dependsOn[t] \subseteq visited
  BY <1>1, <1>2 DEF GraphInv, Calls
<1>4. Grounded(visited \cup {t})
  BY <1>1, <1>2, <1>3, GroundedGrows DEF GraphInv
<1>5. Grounded(visited)'
  BY <1>1, <1>4 DEF Grounded
<1>6. /\ trail' \in Seq(GraphTasks) /\ Len(trail') = Len(trail) - 1
      /\ \A i \in 1..Len(trail') : trail'[i] = trail[i] /\ i \in 1..Len(trail) /\ i < Len(trail)
  <2> DEFINE m == Len(trail) - 1
  <2>1. m \in Nat /\ m < Len(trail) /\ \A i \in 1..m : trail[i] \in GraphTasks
    BY <1>1, <1>2, ElementOfSeq
  <2> HIDE DEF m
  <2>2. /\ SubSeq(trail, 1, m) \in Seq(GraphTasks)
        /\ Len(SubSeq(trail, 1, m)) = IF 1 <= m THEN m - 1 + 1 ELSE 0
        /\ \A i \in 1..(m - 1 + 1) : SubSeq(trail, 1, m)[i] = trail[1 + i - 1]
    BY <2>1, SubSeqProperties
  <2>3. Len(SubSeq(trail, 1, m)) = m /\ \A i \in 1..m : SubSeq(trail, 1, m)[i] = trail[i]
    BY <2>1, <2>2
  <2>4. trail' = SubSeq(trail, 1, m)
    BY <1>1 DEF m
  <2>5. trail' \in Seq(GraphTasks) /\ Len(trail') = m /\ \A i \in 1..m : trail'[i] = trail[i]
    BY <2>2, <2>3, <2>4
  <2>6. m = Len(trail) - 1
    BY DEF m
  <2> QED BY <1>1, <2>1, <2>5, <2>6
<1>7. \A i \in 1..Len(trail') : trail'[i] # t
  BY <1>2, <1>6 DEF GraphInv, Descending
<1>8. Descending'
  <2>1. \A n : Orders(n)' <=> Orders(n)
    BY <1>1 DEF Orders
  <2>2. ASSUME NEW i \in 1..Len(trail'), NEW j \in 1..Len(trail'), i < j
        PROVE  /\ trail'[i] # trail'[j]
               /\ \A n \in Numberings : Orders(n) => n[trail'[j]] < n[trail'[i]]
    BY <1>6, <2>2 DEF GraphInv, Descending
  <2> QED BY <2>1, <2>2 DEF Descending
<1>9. GraphTypeOK'
  BY <1>1, <1>2, <1>6 DEF GraphInv, GraphTypeOK
<1>10. \A i \in 1..Len(trail') : trail'[i] \notin visited'
  BY <1>1, <1>6, <1>7 DEF GraphInv
<1> QED BY <1>1, <1>5, <1>8, <1>9, <1>10 DEF GraphInv

LEMMA RestKeeps ==
  ASSUME GraphInv, AssertAcyclic \/ CompleteTask \/ UNCHANGED graphVars
  PROVE  GraphInv'
<1>1. UNCHANGED <<dependsOn, trail, visited>>
  BY DEF AssertAcyclic, CompleteTask, graphVars
<1>2. Descending' /\ Grounded(visited)' /\ \A n : Orders(n)' <=> Orders(n)
  BY <1>1 DEF GraphInv, Descending, Grounded, Orders
<1>3. CASE AssertAcyclic
  <2>1. visited = GraphTasks
    BY <1>3 DEF AssertAcyclic, Calls, GraphInv, GraphTypeOK
  <2>2. GraphTypeOK'
    BY <1>3 DEF AssertAcyclic, GraphInv, GraphTypeOK
  <2> QED BY <1>1, <1>2, <1>3, <2>1, <2>2 DEF AssertAcyclic, GraphInv
<1>4. CASE CompleteTask \/ UNCHANGED graphVars
  <2>1. GraphTypeOK' /\ verdict' = verdict
    BY <1>4 DEF CompleteTask, ReadyTaskIds, graphVars, GraphInv, GraphTypeOK
  <2> QED BY <1>1, <1>2, <2>1 DEF GraphInv
<1> QED BY <1>3, <1>4

\* The inductive invariant of the search and of the tasks that are done.
THEOREM GraphInvariant == GraphSpec => []GraphInv
<1>1. GraphInit => GraphInv
  BY GraphStarts
<1>2. GraphInv /\ [GraphNext]_graphVars => GraphInv'
  BY ValidateKeeps, VisitKeeps, VisitReturnsKeeps, RestKeeps DEF GraphNext
<1> QED BY <1>1, <1>2, PTL DEF GraphSpec

\* The search accepts exactly the graphs that can be numbered, and an accepted one
\* never waits for itself, for any tasks and dependencies (validateGoalGraph,
\* readyTaskIds).
THEOREM AcceptedGraphsNeverWait == GraphSpec => []AcceptedGraphsFinish
<1>1. GraphInv => AcceptedGraphsFinish
  <2> SUFFICES ASSUME GraphInv PROVE AcceptedGraphsFinish
    OBVIOUS
  <2>1. ASSUME verdict = "accepted"
        PROVE  /\ \E n \in Numberings : Orders(n)
               /\ finished = GraphTasks \/ ReadyTaskIds # {}
    <3>1. Grounded(GraphTasks)
      BY <2>1 DEF GraphInv
    <3>2. \E n \in Numberings : Orders(n)
      BY <3>1 DEF Grounded, Numberings, Orders
    <3>3. ASSUME finished # GraphTasks
          PROVE  ReadyTaskIds # {}
      <4>1. GraphTasks \ finished # {} /\ GraphTasks \ finished \in SUBSET GraphTasks
        BY <3>3 DEF GraphInv, GraphTypeOK
      <4>2. PICK t \in GraphTasks \ finished : dependsOn[t] \cap (GraphTasks \ finished) = {}
        BY <3>1, <4>1 DEF Grounded
      <4>3. dependsOn[t] \subseteq finished
        BY <3>1, <4>2 DEF Grounded
      <4> QED BY <4>2, <4>3 DEF ReadyTaskIds
    <3> QED BY <3>2, <3>3
  <2> QED BY <2>1 DEF AcceptedGraphsFinish, GraphInv, Numberings, Orders
<1> QED BY <1>1, GraphInvariant, PTL

-----------------------------------------------------------------------------
(***************************************************************************)
(* The questions of a proposal.                                            *)
(***************************************************************************)

RiskSet == {RiskOrder[i] : i \in 1..10}
DiscoverySet == {DiscoveryIds[i] : i \in 1..3}

\* A risk of the numbering N went to a question that is resolved only when a person
\* decided it.
Decided(N) == \A risk \in N : PolicyIds[Slot(risk, N)] \in draft.resolved => risk \in decided

\* The questions of the proposal are those of its risks and mode that are not
\* resolved, and, while all its revisions numbered the same risks, the resolved
\* ones are about decided risks.
QuestionInv ==
  /\ wish \in Wishes
  /\ draft.intent \in IntentModes \cup {"unclear"}
  /\ draft.risks \in SUBSET RiskSet
  /\ draft.questions = Composed(Unresolved(PolicyQuestions(draft.risks, draft.mode), draft.resolved),
                                draft.resolved, draft.intent)
  /\ IsFiniteSet(numberings) /\ Numbered(draft) \in numberings
  /\ numberings = {Numbered(draft)} => Decided(Numbered(draft))

\* The ten risks and the three questions of discovery are finite sets, and each
\* member has its place in the order.
LEMMA OrderedSets ==
  /\ IsFiniteSet(RiskSet) /\ RiskPlace \in [RiskSet -> 1..10]
  /\ IsFiniteSet(DiscoverySet) /\ Cardinality(DiscoverySet) <= 3
<1>1. DOMAIN RiskOrder = 1..10 /\ DOMAIN DiscoveryIds = 1..3
  BY DEF RiskOrder, DiscoveryIds
<1>2. IsFiniteSet(1..10) /\ IsFiniteSet(1..3) /\ Cardinality(1..3) = 3
  BY FirstNumbers
<1>3. IsFiniteSet(RiskSet)
  <2>1. RiskOrder \in Surjection(1..10, RiskSet)
    BY <1>1 DEF RiskOrder, RiskSet, Surjection
  <2> QED
    BY <1>2, <2>1, FS_Surjection
<1>4. IsFiniteSet(DiscoverySet) /\ Cardinality(DiscoverySet) <= 3
  <2>1. DiscoveryIds \in Surjection(1..3, DiscoverySet)
    BY <1>1 DEF DiscoveryIds, DiscoverySet, Surjection
  <2> QED
    BY <1>2, <2>1, FS_Surjection
<1>5. \A risk \in RiskSet : (CHOOSE i \in 1..10 : RiskOrder[i] = risk) \in 1..10
  BY DEF RiskSet
<1>6. RiskPlace \in [RiskSet -> 1..10]
  BY <1>1, <1>5 DEF RiskPlace, Places, RiskSet
<1> QED
  BY <1>3, <1>4, <1>6

\* A risk of a numbering goes to one of the three questions of the budget.
LEMMA SlotsInBudget ==
  ASSUME NEW N \in SUBSET RiskSet, NEW risk \in N
  PROVE  Slot(risk, N) \in 1..3
<1> DEFINE before == {y \in N : RiskPlace[y] <= RiskPlace[risk]}
<1>1. before \in SUBSET RiskSet /\ risk \in before
  BY OrderedSets
<1>2. IsFiniteSet(before)
  BY <1>1, OrderedSets, FS_Subset
<1>3. Cardinality(before) \in Nat /\ Cardinality(before) # 0
  BY <1>1, <1>2, FS_CardinalityType, FS_EmptySet
<1>4. Number(risk, N, RiskPlace) \in Nat \ {0}
  BY <1>3 DEF Number
<1> HIDE DEF before
<1> QED
  BY <1>4 DEF Slot, QuestionBudget

\* The question of a risk of the numbering, unless its number is resolved.
LEMMA QuestionOfRisk ==
  ASSUME NEW risks, NEW mode, NEW resolved, NEW risk \in Escalated(risks, mode),
         PolicyIds[Slot(risk, Escalated(risks, mode))] \notin resolved
  PROVE  \E q \in Unresolved(PolicyQuestions(risks, mode), resolved) :
           q.id = PolicyIds[Slot(risk, Escalated(risks, mode))] /\ risk \in q.risks
<1> DEFINE N == Escalated(risks, mode)
           slot == Slot(risk, N)
           q == Question(PolicyIds[slot], {r \in N : Slot(r, N) = slot})
<1>1. q \in QuestionsForRisks(N)
  BY DEF QuestionsForRisks
<1>2. PolicyQuestions(risks, mode) = QuestionsForRisks(N)
  BY <1>1 DEF PolicyQuestions
<1>3. q.id = PolicyIds[slot] /\ risk \in q.risks
  BY DEF Question
<1>4. q \in Unresolved(PolicyQuestions(risks, mode), resolved)
  BY <1>1, <1>2, <1>3 DEF Unresolved
<1> QED
  BY <1>3, <1>4

\* Nothing to ask: every policy question and every open one of discovery is resolved.
LEMMA NothingToAsk ==
  ASSUME NEW policy, NEW open \in SUBSET DiscoverySet, Merged(policy, open) = {}
  PROVE  policy = {} /\ open = {}
<1>1. policy = {}
  BY DEF Merged
<1>2. ASSUME NEW id \in open
      PROVE  FALSE
  <2> DEFINE before == {y \in open : DiscoveryPlace[y] <= DiscoveryPlace[id]}
  <2>1. before \in SUBSET DiscoverySet
    OBVIOUS
  <2>2. IsFiniteSet(before) /\ Cardinality(before) <= Cardinality(DiscoverySet)
    BY <2>1, OrderedSets, FS_Subset
  <2>3. Cardinality(before) \in Nat /\ Cardinality(DiscoverySet) \in Nat
    BY <2>2, OrderedSets, FS_CardinalityType
  <2>4. Number(id, open, DiscoveryPlace) <= 3
    BY <2>2, <2>3, OrderedSets DEF Number
  <2>5. QuestionBudget - Cardinality(policy) = 3
    BY <1>1, FS_EmptySet DEF QuestionBudget
  <2>6. Question(id, {}) \in Merged(policy, open)
    BY <2>4, <2>5 DEF Merged
  <2> QED
    BY <2>6
<1> QED
  BY <1>1, <1>2

\* The ids of the policy are none of the intent gate's.
LEMMA PolicyIdsApart ==
  ASSUME NEW slot \in 1..3
  PROVE  PolicyIds[slot] # "Q-INTENT-001"
<1>1. slot = 1 \/ slot = 2 \/ slot = 3
  OBVIOUS
<1>2. PolicyIds[1] = "Q-001" /\ PolicyIds[2] = "Q-002" /\ PolicyIds[3] = "Q-003"
  BY DEF PolicyIds
<1> QED
  BY <1>1, <1>2

\* The risks of a proposal are among the ten that the code knows.
LEMMA RisksKnown ==
  ASSUME wish \in Wishes, NEW weak, NEW tied
  PROVE  Risks(weak, tied) \in SUBSET RiskSet
<1>1. "weak-verification" \in RiskSet /\ "workspace-selection" \in RiskSet
  <2>1. RiskOrder[1] = "weak-verification" /\ RiskOrder[2] = "workspace-selection"
    BY DEF RiskOrder
  <2> QED
    BY <2>1 DEF RiskSet
<1>2. wish.rules \in SUBSET {RiskOrder[i] : i \in 3..10}
  BY QuestionAssumption
<1>3. {RiskOrder[i] : i \in 3..10} \in SUBSET RiskSet
  BY DEF RiskSet
<1> QED
  BY <1>1, <1>2, <1>3 DEF Risks

\* A revision keeps the part of the invariant that is about its own form.
LEMMA RevisionForm ==
  ASSUME wish \in Wishes, NEW number, NEW mode, NEW chosen, NEW resolved,
         NEW intent \in IntentModes \cup {"unclear"}
  PROVE  LET made == Revision(number, mode, chosen, resolved, intent) IN
         /\ made.intent = intent /\ made.mode = mode /\ made.resolved = resolved
         /\ made.risks \in SUBSET RiskSet
         /\ made.questions = Composed(Unresolved(PolicyQuestions(made.risks, made.mode), made.resolved),
                                      made.resolved, made.intent)
<1> DEFINE risks == Risks(repo.weak, repo.tied /\ ~chosen)
           made == Revision(number, mode, chosen, resolved, intent)
<1>1. risks \in SUBSET RiskSet
  BY RisksKnown
<1>2. /\ made.intent = intent /\ made.mode = mode /\ made.resolved = resolved /\ made.risks = risks
      /\ made.questions = Composed(Unresolved(PolicyQuestions(risks, mode), resolved), resolved, intent)
  BY DEF Revision
<1> QED
  BY <1>1, <1>2

LEMMA QuestionInitInv == QuestionInit => QuestionInv
<1> SUFFICES ASSUME QuestionInit PROVE QuestionInv
  OBVIOUS
<1>1. PICK mode \in Modes, chosen \in BOOLEAN : draft = Revision(1, mode, chosen, {}, wish.intent)
  BY DEF QuestionInit
<1>2. wish \in Wishes /\ wish.intent \in IntentModes \cup {"unclear"}
  BY QuestionAssumption DEF QuestionInit
<1>3. /\ draft.intent = wish.intent /\ draft.resolved = {}
      /\ draft.risks \in SUBSET RiskSet
      /\ draft.questions = Composed(Unresolved(PolicyQuestions(draft.risks, draft.mode), draft.resolved),
                                    draft.resolved, draft.intent)
  BY <1>1, <1>2, RevisionForm
<1>4. IsFiniteSet(numberings) /\ Numbered(draft) \in numberings
  BY FS_Singleton DEF QuestionInit
<1>5. Decided(Numbered(draft))
  BY <1>3 DEF Decided
<1> QED
  BY <1>2, <1>3, <1>4, <1>5 DEF QuestionInv

\* An answer to the question of a risk that is not resolved is an answer to a
\* question of the proposal.
LEMMA AnsweredWasAsked ==
  ASSUME QuestionInv, NEW policy, NEW answers \in SUBSET {q.id : q \in Available(policy)},
         NEW risk \in Numbered(draft),
         PolicyIds[Slot(risk, Numbered(draft))] \in answers \ draft.resolved
  PROVE  \E q \in draft.questions : q.id \in answers /\ risk \in q.risks
<1> DEFINE N == Numbered(draft)
           id == PolicyIds[Slot(risk, N)]
           rest == Unresolved(PolicyQuestions(draft.risks, draft.mode), draft.resolved)
<1>1. id # "Q-INTENT-001"
  <2>1. N \in SUBSET RiskSet
    BY DEF Numbered, Escalated, QuestionInv
  <2>2. Slot(risk, N) \in 1..3
    BY <2>1, SlotsInBudget
  <2> QED
    BY <2>2, PolicyIdsApart
<1>2. PICK asked \in Available(policy) : asked.id = id
  OBVIOUS
<1>3. draft.questions = Composed(rest, draft.resolved, draft.intent)
  BY DEF QuestionInv
<1>4. draft.intent # "unclear"
  <2> SUFFICES ASSUME draft.intent = "unclear" PROVE FALSE
    OBVIOUS
  <2>1. draft.questions = {Question("Q-INTENT-001", {})}
    BY <1>3 DEF Composed
  <2>2. asked = Question("Q-INTENT-001", {})
    BY <1>2, <2>1 DEF Available
  <2> QED
    BY <1>1, <1>2, <2>2 DEF Question
<1>5. draft.intent # "ANALYZE_ONLY"
  <2> SUFFICES ASSUME draft.intent = "ANALYZE_ONLY" PROVE FALSE
    OBVIOUS
  <2>1. draft.questions = {}
    BY <1>3 DEF Composed
  <2> QED
    BY <1>2, <2>1 DEF Available
<1>6. rest \in SUBSET draft.questions
  BY <1>3, <1>4, <1>5 DEF Composed, Merged
<1>7. PICK q \in rest : q.id = id /\ risk \in q.risks
  BY QuestionOfRisk DEF Numbered
<1> QED
  BY <1>6, <1>7

LEMMA RefinementKeepsQuestions ==
  ASSUME QuestionInv, RefineByUser
  PROVE  QuestionInv'
<1>1. PICK mode \in Modes, chosen \in {draft.chosen, TRUE} :
        \E answers \in SUBSET {q.id : q \in Available(PolicyQuestions(Risks(repo.weak, repo.tied /\ ~chosen), mode))} :
          \E intent \in Intents(answers) : RefineProposal(answers, mode, chosen, intent)
  BY DEF RefineByUser
<1> DEFINE policy == PolicyQuestions(Risks(repo.weak, repo.tied /\ ~chosen), mode)
<1>2. PICK answers \in SUBSET {q.id : q \in Available(policy)} :
        \E intent \in Intents(answers) : RefineProposal(answers, mode, chosen, intent)
  BY <1>1
<1>3. PICK intent \in Intents(answers) : RefineProposal(answers, mode, chosen, intent)
  BY <1>2
<1> DEFINE number == draft.revision + 1
           resolved == draft.resolved \cup answers
           made == Revision(number, mode, chosen, resolved, intent)
<1>4. /\ draft' = made /\ wish' = wish
      /\ decided' = decided \cup UNION {q.risks : q \in {r \in draft.questions : r.id \in answers}}
      /\ numberings' = numberings \cup {Numbered(made)}
  BY <1>3 DEF RefineProposal
<1>5. wish \in Wishes /\ intent \in IntentModes \cup {"unclear"}
  BY DEF Intents, QuestionInv
<1>6. /\ made.intent = intent /\ made.mode = mode /\ made.resolved = resolved
      /\ made.risks \in SUBSET RiskSet
      /\ made.questions = Composed(Unresolved(PolicyQuestions(made.risks, made.mode), made.resolved),
                                   made.resolved, made.intent)
  <2> HIDE DEF number, resolved
  <2> QED
    BY <1>5, RevisionForm
<1> HIDE DEF made
<1>7. Numbered(draft)' = Numbered(made)
  BY <1>4 DEF Numbered
<1>8. IsFiniteSet(numberings)' /\ (Numbered(draft) \in numberings)'
  BY <1>4, <1>7, FS_AddElement DEF QuestionInv
<1>9. ASSUME numberings' = {Numbered(made)}
      PROVE  Decided(Numbered(draft))'
  <2> DEFINE N == Numbered(draft)
  <2>1. N = Numbered(made) /\ numberings = {N}
    BY <1>4, <1>9 DEF QuestionInv
  <2>2. Decided(N)
    BY <2>1 DEF QuestionInv
  <2>3. ASSUME NEW risk \in N, PolicyIds[Slot(risk, N)] \in made.resolved
        PROVE  risk \in decided'
    <3>1. CASE PolicyIds[Slot(risk, N)] \in draft.resolved
      BY <1>4, <2>2, <3>1 DEF Decided
    <3>2. CASE PolicyIds[Slot(risk, N)] \notin draft.resolved
      <4>1. PolicyIds[Slot(risk, N)] \in answers \ draft.resolved
        BY <1>6, <2>3, <3>2
      <4>2. PICK q \in draft.questions : q.id \in answers /\ risk \in q.risks
        BY <4>1, AnsweredWasAsked
      <4> QED
        BY <1>4, <4>2
    <3> QED
      BY <3>1, <3>2
  <2>4. Numbered(draft)' = N
    BY <1>7, <2>1
  <2> HIDE DEF N
  <2> QED
    BY <1>4, <2>3, <2>4 DEF Decided
<1>10. (draft.questions = Composed(Unresolved(PolicyQuestions(draft.risks, draft.mode), draft.resolved),
                                   draft.resolved, draft.intent))'
  BY <1>4, <1>6 DEF Composed
<1> QED
  BY <1>4, <1>5, <1>6, <1>7, <1>8, <1>9, <1>10 DEF QuestionInv

LEMMA QuestionStepInv == QuestionInv /\ [QuestionNext]_questionVars => QuestionInv'
<1> SUFFICES ASSUME QuestionInv, [QuestionNext]_questionVars PROVE QuestionInv'
  OBVIOUS
<1>1. ASSUME UNCHANGED <<wish, draft, decided, numberings>> PROVE QuestionInv'
  BY <1>1 DEF QuestionInv, Composed, Numbered, Decided
<1>2. CASE RefineByUser
  BY <1>2, RefinementKeepsQuestions
<1>3. CASE ChangeRepository
  BY <1>1, <1>3 DEF ChangeRepository
<1>4. CASE UNCHANGED questionVars
  BY <1>1, <1>4 DEF questionVars
<1> QED
  BY <1>2, <1>3, <1>4 DEF QuestionNext

\* What a proposal asks is what its risks and mode make of the numbers that are not
\* resolved yet, whatever the repository does between two revisions, and as long as
\* the same risks are numbered a resolved number stands for decided risks.
THEOREM QuestionInvariant == QuestionSpec => []QuestionInv
<1> QED
  BY QuestionInitInv, QuestionStepInv, PTL DEF QuestionSpec

LEMMA ReadyIsAnswered == QuestionInv => StableQuestionsAreAnswered
<1> SUFFICES ASSUME QuestionInv, ReadyForApproval
             PROVE  /\ wish.discovery \subseteq draft.resolved
                    /\ Cardinality(numberings) = 1 => Mandatory(draft.risks) \subseteq decided
  BY DEF StableQuestionsAreAnswered
<1> DEFINE N == Numbered(draft)
           rest == Unresolved(PolicyQuestions(draft.risks, draft.mode), draft.resolved)
           open == wish.discovery \ draft.resolved
<1>1. Merged(rest, open) = {}
  <2>1. draft.questions = {} /\ draft.intent \in {"IMPLEMENT", "AUTOPILOT"}
    BY DEF ReadyForApproval
  <2>2. draft.questions = Composed(rest, draft.resolved, draft.intent)
    BY DEF QuestionInv
  <2>3. Composed(rest, draft.resolved, draft.intent) = Merged(rest, open)
    BY <2>1 DEF Composed
  <2> QED
    BY <2>1, <2>2, <2>3
<1>2. wish.discovery \in SUBSET DiscoverySet
  <2>1. wish.discovery \in SUBSET {DiscoveryIds[i] : i \in DOMAIN DiscoveryIds}
    BY QuestionAssumption DEF QuestionInv
  <2>2. DOMAIN DiscoveryIds = 1..3
    BY DEF DiscoveryIds
  <2> QED
    BY <2>1, <2>2 DEF DiscoverySet
<1>3. rest = {} /\ open = {}
  BY <1>1, <1>2, NothingToAsk
<1>4. ASSUME Cardinality(numberings) = 1, NEW risk \in Mandatory(draft.risks)
      PROVE  risk \in decided
  <2>1. numberings = {N}
    BY <1>4, FS_Singleton DEF QuestionInv
  <2>2. risk \in N
    BY DEF Mandatory, Numbered, Escalated
  <2>3. PolicyIds[Slot(risk, N)] \in draft.resolved
    BY <1>3, <2>2, QuestionOfRisk DEF Numbered
  <2> QED
    BY <2>1, <2>2, <2>3 DEF QuestionInv, Decided
<1> QED
  BY <1>3, <1>4

\* A proposal is ready for approval only when every discovery question has its answer
\* and, unless the questions were numbered anew, a person decided every mandatory
\* risk, for every goal and any number of revisions.
THEOREM ApprovedQuestionsAreAnswered == QuestionSpec => []StableQuestionsAreAnswered
<1> QED
  BY QuestionInvariant, ReadyIsAnswered, PTL
=============================================================================
