------------------------- MODULE Integrations_proofs -------------------------
(***************************************************************************)
(* What the bridges, installers and the promotion of old documents keep,   *)
(* for any number of calls, packages, files and edits: work orders are     *)
(* paid for, release authority was written by a command, and a rollback    *)
(* that reports success has restored what it says.                         *)
(***************************************************************************)
EXTENDS OmoBridge, LegacyState, OmpHarness, Plugin, FiniteSetTheorems, SequenceTheorems, TLAPS

-----------------------------------------------------------------------------
(* The bridge: work orders and the budget. *)

Ordering == {c \in Calls : at[c] = "order"}

\* A release that was blocked: one call may have been let through by the spent budget.
Blocked ==
  \/ release.state \in {"BLOCKED", "ABORTED"}
  \/ release.state = "PAUSED" /\ release.from = "BLOCKED"

Slack == IF Blocked THEN 1 ELSE 0

\* The calls on their way to an order are paid for too, but for one while the release is blocked.
BridgeInv ==
  /\ BridgeTypeOK /\ fixes.unblocked <= fixes.all
  /\ OrdersPaid
  /\ orders + Cardinality(Ordering) <= runs + fixes.unblocked + Slack

LEMMA TransitionFacts ==
  /\ \A s \in States : Transitions[s] \subseteq States
  /\ Transitions["ABORTED"] = {} /\ "PAUSED" \notin Transitions["PAUSED"]
BY DEF Transitions, States, Terminal

LEMMA OrderingIsFinite == IsFiniteSet(Ordering) /\ Cardinality(Ordering) \in Nat
BY FS_Subset, FS_CardinalityType, BridgeAssumption DEF Ordering

LEMMA OrderingChanges ==
  ASSUME at \in [Calls -> Steps], NEW c \in Calls, NEW s \in Steps, To(c, s)
  PROVE  /\ (at[c] = "order" <=> s = "order") => Cardinality(Ordering') = Cardinality(Ordering)
         /\ (at[c] = "order" /\ s # "order") => Cardinality(Ordering') = Cardinality(Ordering) - 1
         /\ (at[c] # "order" /\ s = "order") => Cardinality(Ordering') = Cardinality(Ordering) + 1
         /\ at' \in [Calls -> Steps]
<1>1. \A d \in Calls : at'[d] = IF d = c THEN s ELSE at[d]
  BY DEF To
<1>2. CASE at[c] = "order" <=> s = "order"
  <2>1. \A d \in Calls : d \in Ordering' <=> d \in Ordering
    BY <1>1, <1>2 DEF Ordering
  <2>2. Ordering' = Ordering
    BY <2>1 DEF Ordering
  <2> QED BY <1>2, <2>2 DEF To
<1>3. CASE at[c] = "order" /\ s # "order"
  <2>1. Ordering' = Ordering \ {c} /\ c \in Ordering
    BY <1>1, <1>3 DEF Ordering
  <2>2. Cardinality(Ordering \ {c}) = Cardinality(Ordering) - 1
    BY <2>1, OrderingIsFinite, FS_RemoveElement, Zenon
  <2> QED BY <1>3, <2>1, <2>2 DEF To
<1>4. CASE at[c] # "order" /\ s = "order"
  <2>1. Ordering' = Ordering \cup {c} /\ c \notin Ordering
    BY <1>1, <1>4 DEF Ordering
  <2>2. Cardinality(Ordering \cup {c}) = Cardinality(Ordering) + 1
    BY <2>1, OrderingIsFinite, FS_AddElement, Zenon
  <2> QED BY <1>4, <2>1, <2>2 DEF To
<1> QED BY <1>2, <1>3, <1>4

LEMMA BridgeInvInitially == BridgeInit => BridgeInv
<1> SUFFICES ASSUME BridgeInit PROVE BridgeInv
  OBVIOUS
<1> USE DEF BridgeInit
<1>1. Cardinality(Ordering) = 0
  <2>1. Ordering = {}
    BY DEF Ordering
  <2> QED BY <2>1, FS_EmptySet
<1>2. BridgeTypeOK
  BY BridgeAssumption DEF BridgeTypeOK, States, Steps
<1> QED BY <1>1, <1>2 DEF BridgeInv, OrdersPaid, Slack, Blocked

LEMMA SlackFacts ==
  /\ Slack \in 0..1
  /\ Blocked <=> Slack = 1
BY DEF Slack

\* To begin is to pay, or to block the release.
LEMMA Beginning ==
  ASSUME BridgeTypeOK
  PROVE  /\ BeginPaid => /\ release' \in [state : States, from : States]
                         /\ runs' = runs + 1 /\ runs' \in 0..MaxRuns /\ Slack = 0 /\ Slack' = 0
         /\ BeginSpent => /\ release' \in [state : States, from : States]
                          /\ runs' = runs /\ Slack = 0 /\ Slack' = 1
<1>0. runs \in Nat /\ MaxRuns \in Nat /\ runs <= MaxRuns
  BY BridgeAssumption DEF BridgeTypeOK
<1>1. Startable => Slack = 0 /\ release.state \in States
  BY DEF Startable, Slack, Blocked, States
<1>2. ASSUME BeginPaid
      PROVE  /\ release' \in [state : States, from : States]
             /\ runs' = runs + 1 /\ runs' \in 0..MaxRuns /\ Slack' = 0
  <2>1. release' = [state |-> "RUNNING", from |-> release.state]
    BY <1>2 DEF BeginPaid, Become
  <2>2. Slack' = 0
    BY <2>1 DEF Slack, Blocked
  <2> QED BY <1>0, <1>1, <1>2, <2>1, <2>2 DEF BeginPaid, States
<1>3. ASSUME BeginSpent
      PROVE  release' \in [state : States, from : States] /\ runs' = runs /\ Slack' = 1
  <2>1. release' = [state |-> "BLOCKED", from |-> release.state]
    BY <1>3 DEF BeginSpent, Become
  <2>2. Slack' = 1
    BY <2>1 DEF Slack, Blocked
  <2> QED BY <1>1, <1>3, <2>1, <2>2 DEF BeginSpent, States
<1> QED BY <1>1, <1>2, <1>3 DEF BeginPaid, BeginSpent

\* Elsewhere the release may only keep or gain its slack, or pay for it.
LEMMA ReleaseMoves ==
  ASSUME BridgeTypeOK, NEW s \in States, Become(s),
         \/ release.state = "RUNNING"
         \/ s \in {"BLOCKED", "ABORTED"}
         \/ s = "PAUSED" /\ Can("PAUSED")
         \/ s = release.from /\ release.state = "PAUSED"
  PROVE  release' \in [state : States, from : States] /\ Slack' >= Slack
<1>1. release' = [state |-> s, from |-> release.state] /\ release.state \in States
  BY DEF Become, BridgeTypeOK
<1>2. release' \in [state : States, from : States] /\ release'.state = s /\ release'.from = release.state
  BY <1>1
<1>3. Blocked => Blocked'
  BY <1>2, TransitionFacts DEF Blocked, Can
<1> QED BY <1>2, <1>3 DEF Slack

LEMMA VerifiedMoves ==
  ASSUME BridgeTypeOK, release.state \notin VerifyRefused, NEW s \in Verified,
         release' = [state |-> s, from |-> "VERIFYING"]
  PROVE  release' \in [state : States, from : States] /\ Slack' >= Slack
<1>1. ~Blocked
  BY DEF Blocked, VerifyRefused
<1> QED BY <1>1 DEF Slack, Verified, States

\* The steps of one call.
LEMMA CallsPay ==
  ASSUME BridgeInv, NEW c \in Calls,
         \/ CallBridge(c) \/ BeginRun(c) \/ IssueOrder(c) \/ ReadReceipt(c) \/ FinishRun(c)
         \/ RecordReceipt(c) \/ VerifyAfter(c) \/ Catch(c) \/ AdapterBegins(c) \/ AdapterEnds(c)
         \/ BeginUnavailable(c) \/ BlockRelease(c) \/ CommitElsewhere(c) \/ StopCall(c) \/ NextCall(c)
  PROVE  BridgeInv'
<1> DEFINE n == Cardinality(Ordering)
           R == [state : States, from : States]
<1>0. /\ runs \in Nat /\ orders \in Nat /\ fixes.unblocked \in Nat /\ n \in Nat /\ Slack \in 0..1
      /\ orders <= runs + fixes.unblocked /\ orders + n <= runs + fixes.unblocked + Slack
  BY OrderingIsFinite, SlackFacts DEF BridgeInv, BridgeTypeOK, OrdersPaid
<1>1. /\ at \in [Calls -> Steps] /\ head \in [Calls -> BOOLEAN] /\ release \in R
      /\ runs \in 0..MaxRuns /\ bridgeStops \in 0..MaxBridgeStops
      /\ fixes \in [all : 0..MaxFixes, unblocked : 0..MaxFixes] /\ fixes.unblocked <= fixes.all
  BY DEF BridgeInv, BridgeTypeOK
<1>2. at[c] = "order" => n >= 1
  <2>1. at[c] = "order" => Ordering # {}
    BY DEF Ordering
  <2> QED BY <2>1, OrderingIsFinite, FS_EmptySet
\* What is left to show of a step: its types, and what it adds to either side.
<1>3. ASSUME NEW s \in Steps, To(c, s), release' \in R, UNCHANGED <<fixes, orders>>, s # "order",
             head' \in [Calls -> BOOLEAN], bridgeStops' \in 0..MaxBridgeStops,
             \/ runs' = runs /\ Slack' >= Slack
             \/ BeginPaid \/ BeginSpent
      PROVE  BridgeInv'
  <2>1. n' <= n /\ n' \in Nat /\ at' \in [Calls -> Steps]
    BY <1>0, <1>1, <1>2, <1>3, OrderingChanges
  <2>2. Slack' \in 0..1
    BY SlackFacts DEF Slack
  <2>3. runs' \in 0..MaxRuns /\ (runs' + Slack' >= runs + Slack) /\ runs' >= runs
    BY <1>0, <1>1, <1>3, <2>2, Beginning DEF BridgeInv
  <2>4. BridgeTypeOK'
    BY <1>0, <1>1, <1>3, <2>1, <2>3 DEF BridgeTypeOK
  <2>5. OrdersPaid' /\ orders' + n' <= runs' + fixes'.unblocked + Slack'
    <3>1. runs' \in Nat
      BY <1>1, <2>3, BridgeAssumption
    <3>2. orders' = orders /\ fixes'.unblocked = fixes.unblocked
      BY <1>3
    <3> HIDE DEF n
    <3>3. orders + n' <= runs' + fixes.unblocked + Slack' /\ orders <= runs' + fixes.unblocked
      <4>1. n' = n \/ n' = n - 1
        BY <1>1, <1>3, OrderingChanges DEF n
      <4>2. \/ runs' = runs /\ Slack' = 0 /\ Slack = 0
            \/ runs' = runs /\ Slack' = 1
            \/ runs' = runs + 1 /\ Slack' = 0 /\ Slack = 0
        BY <1>0, <1>3, <2>2, Beginning DEF BridgeInv
      <4> QED BY <1>0, <4>1, <4>2
    <3> QED BY <3>2, <3>3 DEF OrdersPaid
  <2> QED BY <1>1, <1>3, <2>4, <2>5 DEF BridgeInv
<1>4. CASE BeginRun(c) /\ To(c, "order")
  <2>1. at[c] # "order" /\ UNCHANGED <<fixes, orders, head, bridgeStops>> /\ (BeginPaid \/ BeginSpent)
    <3>1. at[c] = "begin"
      BY <1>4 DEF BeginRun, At
    <3>2. at'[c] = "order"
      BY <1>1, <1>4 DEF To
    <3> QED BY <1>1, <1>4, <3>1, <3>2 DEF BeginRun, To
  <2>2. n' = n + 1 /\ at' \in [Calls -> Steps]
    BY <1>1, <1>4, <2>1, OrderingChanges DEF Steps
  <2>3. /\ release' \in R /\ runs' \in 0..MaxRuns /\ runs' \in Nat /\ runs' >= runs
        /\ Slack' \in 0..1 /\ runs' + Slack' = runs + Slack + 1
    BY <1>0, <1>1, <2>1, Beginning, BridgeAssumption DEF BridgeInv
  <2>4. BridgeTypeOK'
    BY <1>1, <2>1, <2>2, <2>3, <1>0 DEF BridgeTypeOK
  <2>5. OrdersPaid' /\ orders' + n' <= runs' + fixes'.unblocked + Slack'
    <3>1. orders' = orders /\ fixes'.unblocked = fixes.unblocked
      BY <2>1
    <3> HIDE DEF n
    <3>2. orders + n' <= runs' + fixes.unblocked + Slack' /\ orders <= runs' + fixes.unblocked
      <4>1. (runs' = runs + 1 /\ Slack = 0 /\ Slack' = 0) \/ (runs' = runs /\ Slack = 0 /\ Slack' = 1)
        BY <2>1, Beginning DEF BridgeInv
      <4> QED BY <1>0, <2>2, <4>1
    <3> QED BY <3>1, <3>2 DEF OrdersPaid
  <2> QED BY <1>1, <2>1, <2>4, <2>5 DEF BridgeInv
<1>5. CASE IssueOrder(c) /\ orders' = orders + 1 /\ To(c, "execute")
  <2>1. /\ at[c] = "order" /\ UNCHANGED <<release, runs, fixes, bridgeStops>>
        /\ head' = [head EXCEPT ![c] = FALSE] /\ release.state \notin OrderDenied
    <3>1. orders' # orders
      BY <1>0, <1>5
    <3> QED BY <1>5, <3>1 DEF IssueOrder, At
  <2>2. n' = n - 1 /\ at' \in [Calls -> Steps]
    BY <1>1, <1>5, <2>1, OrderingChanges DEF Steps
  <2>3. Slack = 0 /\ Slack' = 0
    BY <2>1 DEF Slack, Blocked, OrderDenied
  <2>4. BridgeTypeOK'
    <3>1. orders' \in Nat /\ head' \in [Calls -> BOOLEAN]
      BY <1>0, <1>1, <1>5, <2>1
    <3> QED BY <1>1, <2>1, <2>2, <3>1 DEF BridgeTypeOK
  <2>5. OrdersPaid' /\ orders' + n' <= runs' + fixes'.unblocked + Slack'
    <3>1. orders' = orders + 1 /\ fixes' = fixes /\ runs' = runs
      BY <1>5, <2>1
    <3>2. n >= 1
      BY <1>2, <2>1
    <3> HIDE DEF n
    <3>3. orders + 1 <= runs + fixes.unblocked /\ orders + 1 + n' <= runs + fixes.unblocked + Slack'
      BY <1>0, <2>2, <2>3, <3>2
    <3> QED BY <3>1, <3>3 DEF OrdersPaid
  <2> QED BY <1>1, <2>1, <2>4, <2>5 DEF BridgeInv
<1> USE DEF Steps
<1>6. CASE CallBridge(c) \/ ReadReceipt(c) \/ RecordReceipt(c) \/ NextCall(c)
  <2>1. PICK s \in Steps : To(c, s) /\ s # "order"
    BY <1>6 DEF CallBridge, ReadReceipt, RecordReceipt, NextCall
  <2>2. UNCHANGED <<release, runs, fixes, orders, head, bridgeStops>>
    BY <1>6 DEF CallBridge, ReadReceipt, RecordReceipt, NextCall
  <2>3. Slack' = Slack
    BY <2>2 DEF Slack, Blocked
  <2> HIDE DEF Steps
  <2> QED BY <1>0, <1>1, <1>3, <2>1, <2>2, <2>3
<1>7. CASE BeginRun(c) /\ ~To(c, "order")
  <2>1. To(c, "done") /\ UNCHANGED <<release, runs, fixes, orders, head, bridgeStops>>
    BY <1>7 DEF BeginRun
  <2>2. Slack' = Slack
    BY <2>1 DEF Slack, Blocked
  <2> QED BY <1>0, <1>1, <1>3, <2>1, <2>2
<1>8. CASE IssueOrder(c) /\ ~(orders' = orders + 1 /\ To(c, "execute"))
  <2>1. To(c, "catch") /\ UNCHANGED <<release, runs, fixes, orders, head, bridgeStops>>
    BY <1>8 DEF IssueOrder
  <2>2. Slack' = Slack
    BY <2>1 DEF Slack, Blocked
  <2> QED BY <1>0, <1>1, <1>3, <2>1, <2>2
<1>9. CASE FinishRun(c) \/ Catch(c) \/ AdapterEnds(c) \/ BlockRelease(c)
  <2>1. PICK s \in Steps : To(c, s) /\ s # "order"
    BY <1>9 DEF FinishRun, Catch, AdapterEnds, BlockRelease
  <2>2. UNCHANGED <<runs, fixes, orders, head, bridgeStops>>
    BY <1>9 DEF FinishRun, Catch, AdapterEnds, BlockRelease
  <2>3. \/ UNCHANGED release
        \/ release.state = "RUNNING" /\ Become("VERIFYING")
        \/ Become("BLOCKED")
    BY <1>9 DEF FinishRun, Catch, CatchFinishes, AdapterEnds, BlockRelease
  <2>4. release' \in R /\ Slack' >= Slack
    <3>1. CASE UNCHANGED release
      BY <1>0, <1>1, <3>1 DEF Slack, Blocked
    <3>2. CASE ~UNCHANGED release
      BY <2>3, <3>2, ReleaseMoves DEF States, BridgeInv
    <3> QED BY <3>1, <3>2
  <2> HIDE DEF Steps
  <2> QED BY <1>0, <1>1, <1>3, <2>1, <2>2, <2>4
<1>10. CASE VerifyAfter(c)
  <2>1. PICK s \in Steps : To(c, s) /\ s # "order"
    BY <1>10 DEF VerifyAfter
  <2>2. UNCHANGED <<runs, fixes, orders, head, bridgeStops>>
    BY <1>10 DEF VerifyAfter
  <2>3. release' \in R /\ Slack' >= Slack
    <3>1. CASE UNCHANGED release
      BY <1>0, <1>1, <3>1 DEF Slack, Blocked
    <3>2. CASE ~UNCHANGED release
      <4> PICK verdict \in Verified : release' = [state |-> verdict, from |-> "VERIFYING"]
        BY <1>10, <3>2 DEF VerifyAfter
      <4> QED BY <1>10, <3>2, VerifiedMoves DEF VerifyAfter, BridgeInv
    <3> QED BY <3>1, <3>2
  <2> HIDE DEF Steps
  <2> QED BY <1>0, <1>1, <1>3, <2>1, <2>2, <2>3
<1>11. CASE AdapterBegins(c) \/ BeginUnavailable(c)
  <2>1. PICK s \in Steps : To(c, s) /\ s # "order"
    BY <1>11 DEF AdapterBegins, BeginUnavailable
  <2>2. /\ UNCHANGED <<fixes, orders, head, bridgeStops>>
        /\ BeginPaid \/ BeginSpent \/ UNCHANGED <<release, runs>>
    BY <1>11 DEF AdapterBegins, BeginUnavailable
  <2>3. release' \in R /\ (BeginPaid \/ BeginSpent \/ (runs' = runs /\ Slack' >= Slack))
    <3>1. CASE UNCHANGED <<release, runs>>
      BY <1>0, <1>1, <3>1 DEF Slack, Blocked
    <3>2. CASE ~UNCHANGED <<release, runs>>
      BY <2>2, <3>2, Beginning DEF BridgeInv
    <3> QED BY <3>1, <3>2
  <2> HIDE DEF Steps
  <2> QED BY <1>0, <1>1, <1>3, <2>1, <2>2, <2>3
<1>12. CASE CommitElsewhere(c)
  <2>1. UNCHANGED <<release, runs, fixes, at, orders, bridgeStops>> /\ head' \in [Calls -> BOOLEAN]
    BY <1>1, <1>12 DEF CommitElsewhere
  <2>2. Slack' = Slack /\ n' = n
    BY <2>1 DEF Slack, Blocked, Ordering
  <2> QED BY <1>0, <1>1, <2>1, <2>2 DEF BridgeInv, BridgeTypeOK, OrdersPaid
<1>13. CASE StopCall(c)
  <2>1. To(c, "done") /\ UNCHANGED <<release, runs, fixes, orders, head>>
        /\ bridgeStops' \in 0..MaxBridgeStops
    BY <1>1, <1>13, BridgeAssumption DEF StopCall
  <2>2. Slack' = Slack
    BY <2>1 DEF Slack, Blocked
  <2> QED BY <1>0, <1>1, <1>3, <2>1, <2>2
<1> QED BY <1>4, <1>5, <1>6, <1>7, <1>8, <1>9, <1>10, <1>11, <1>12, <1>13 DEF IssueOrder

\* Everyone else: only a fix takes the release out of BLOCKED, and it is counted.
LEMMA OthersPay ==
  ASSUME BridgeInv, VerifyElsewhere \/ FixElsewhere \/ StopRelease \/ ResumeRelease
  PROVE  BridgeInv'
<1> DEFINE n == Cardinality(Ordering)
           R == [state : States, from : States]
<1>0. /\ runs \in Nat /\ orders \in Nat /\ fixes.unblocked \in Nat /\ n \in Nat /\ Slack \in 0..1
      /\ orders <= runs + fixes.unblocked /\ orders + n <= runs + fixes.unblocked + Slack
  BY OrderingIsFinite, SlackFacts DEF BridgeInv, BridgeTypeOK, OrdersPaid
<1>1. /\ release \in R /\ release.state \in States /\ release.from \in States
      /\ fixes \in [all : 0..MaxFixes, unblocked : 0..MaxFixes] /\ fixes.unblocked <= fixes.all
      /\ fixes.all \in 0..MaxFixes /\ MaxFixes \in Nat
  BY BridgeAssumption DEF BridgeInv, BridgeTypeOK
<1>2. UNCHANGED <<runs, at, orders, head, bridgeStops>> /\ n' = n
  BY DEF VerifyElsewhere, FixElsewhere, StopRelease, ResumeRelease, Ordering
<1>3. ASSUME release' \in R, Slack' >= Slack, UNCHANGED fixes PROVE BridgeInv'
  <2>1. BridgeTypeOK'
    BY <1>2, <1>3 DEF BridgeInv, BridgeTypeOK
  <2>2. orders + n <= runs + fixes.unblocked + Slack'
    <3>1. Slack' = Slack \/ (Slack = 0 /\ Slack' = 1)
      BY <1>0, <1>3 DEF Slack
    <3> HIDE DEF n
    <3> QED BY <1>0, <3>1
  <2> QED BY <1>1, <1>2, <1>3, <2>1, <2>2 DEF BridgeInv, OrdersPaid
<1>4. CASE VerifyElsewhere
  BY <1>3, <1>4, VerifiedMoves DEF VerifyElsewhere, BridgeInv
<1>5. CASE StopRelease
  <2> PICK s \in {"PAUSED", "ABORTED"} : Can(s) /\ Become(s)
    BY <1>5 DEF StopRelease
  <2>1. release' \in R /\ Slack' >= Slack
    BY ReleaseMoves DEF States, BridgeInv
  <2> QED BY <1>3, <1>5, <2>1 DEF StopRelease
<1>6. CASE ResumeRelease
  <2>1. release' \in R /\ Slack' >= Slack
    BY <1>1, <1>6, ReleaseMoves DEF ResumeRelease, BridgeInv
  <2> QED BY <1>3, <1>6, <2>1 DEF ResumeRelease
<1>7. CASE FixElsewhere
  <2>1. /\ release' = [state |-> "FIXING", from |-> release.state] /\ fixes.all < MaxFixes
        /\ fixes' = [all |-> fixes.all + 1,
                     unblocked |-> fixes.unblocked + (IF release.state = "BLOCKED" THEN 1 ELSE 0)]
    BY <1>7 DEF FixElsewhere, Become
  <2>2. release' \in R /\ Slack' = 0
    BY <1>1, <2>1 DEF Slack, Blocked, States
  <2>3. /\ fixes'.unblocked = fixes.unblocked + Slack /\ fixes'.unblocked <= fixes'.all
        /\ fixes' \in [all : 0..MaxFixes, unblocked : 0..MaxFixes]
    <3>1. Slack = IF release.state = "BLOCKED" THEN 1 ELSE 0
      BY <1>7 DEF FixElsewhere, Slack, Blocked
    <3>2. /\ fixes.all + 1 \in 0..MaxFixes
          /\ fixes.unblocked + (IF release.state = "BLOCKED" THEN 1 ELSE 0) \in 0..MaxFixes
          /\ fixes.unblocked + (IF release.state = "BLOCKED" THEN 1 ELSE 0) <= fixes.all + 1
      BY <1>0, <1>1, <2>1
    <3> QED BY <2>1, <3>1, <3>2
  <2>4. BridgeTypeOK'
    BY <1>2, <2>2, <2>3 DEF BridgeInv, BridgeTypeOK
  <2>5. /\ orders <= runs + fixes'.unblocked
        /\ orders + n <= runs + fixes'.unblocked + Slack'
    <3>1. Slack = 0 \/ Slack = 1
      BY <1>0
    <3> HIDE DEF n
    <3> QED BY <1>0, <2>2, <2>3, <3>1
  <2> QED BY <1>2, <2>3, <2>4, <2>5 DEF BridgeInv, OrdersPaid
<1> QED BY <1>4, <1>5, <1>6, <1>7

\* Whatever calls run at the same time and wherever they stop, a work order is issued only
\* for an agent run of the budget or for a fix cycle that left BLOCKED (beginAgentRun,
\* createPrivateOmoWorkOrder).
THEOREM WorkOrdersArePaid == BridgeSpec => []OrdersPaid
<1>1. BridgeInv /\ [BridgeNext]_bridgeVars => BridgeInv'
  <2> SUFFICES ASSUME BridgeInv, [BridgeNext]_bridgeVars PROVE BridgeInv'
    OBVIOUS
  <2>1. CASE UNCHANGED bridgeVars
    BY <2>1 DEF bridgeVars, BridgeInv, BridgeTypeOK, OrdersPaid, Ordering, Slack, Blocked
  <2>2. CASE BridgeNext
    BY <2>2, CallsPay, OthersPay DEF BridgeNext
  <2> QED BY <2>1, <2>2
<1>2. BridgeInv => OrdersPaid
  BY DEF BridgeInv
<1> QED BY <1>1, <1>2, BridgeInvInitially, PTL DEF BridgeSpec

-----------------------------------------------------------------------------
(* Documents from before v1.10: release authority was written by a command. *)

Event == [to : States \cup {"none"}, signed : BOOLEAN]
Signature == [head : Nat, state : States \cup {"none"}]
Document == [state : States, later : BOOLEAN, signature : Signature]
Migration == [at : {"none", "event", "write", "done"}, body : States \cup {"none"}, to : States \cup {"none"}]

SomeSigned == \E i \in DOMAIN events : events[i].signed

\* A repository prepared before v1.10: its ledger ends with what proves nothing.
Prepared ==
  /\ events = <<Proof("CLOSED"), Proof("none")>>
  /\ doc.later /\ doc.signature = NoSignature /\ ~receipted /\ written = "DRAFT"

\* Elsewhere the ledger proves what a command wrote last.
Ordinary == LedgerState = written /\ (doc.later => SomeSigned)

LegacyInv ==
  /\ events \in Seq(Event) /\ doc \in Document /\ written \in States /\ migration \in Migration
  /\ Prepared \/ Ordinary
  /\ migration.at = "event" => migration.to = written
  /\ migration.at = "write" => Ordinary
  /\ migration.at \in {"event", "write"} => migration.body \in States

LEMMA NoneIsNoState == "none" \notin States
BY DEF States

\* The last event that proves anything decides.
LEMMA LastProof ==
  ASSUME NEW s, NEW k \in DOMAIN s, DOMAIN s \subseteq Int, s[k].to # "none",
         \A i \in DOMAIN s : s[i].to # "none" => i <= k
  PROVE  LET proving == {i \in DOMAIN s : s[i].to # "none"} IN
         proving # {} /\ s[CHOOSE i \in proving : \A j \in proving : j <= i].to = s[k].to
<1> DEFINE proving == {i \in DOMAIN s : s[i].to # "none"}
           last == CHOOSE i \in proving : \A j \in proving : j <= i
<1>1. k \in proving /\ (\A j \in proving : j <= k) /\ proving \subseteq Int
  OBVIOUS
<1> HIDE DEF proving
<1>2. last \in proving /\ \A j \in proving : j <= last
  BY <1>1
<1> HIDE DEF last
<1>3. last = k
  <2>1. last <= k /\ k <= last /\ last \in Int /\ k \in Int
    BY <1>1, <1>2
  <2> QED BY <2>1
<1> QED BY <1>1, <1>3 DEF proving, last

LEMMA AppendedProof ==
  ASSUME events \in Seq(Event), NEW e \in Event, e.to # "none", e.signed, events' = Append(events, e)
  PROVE  events' \in Seq(Event) /\ LedgerState' = e.to /\ SomeSigned'
<1> DEFINE t == Append(events, e)
<1>1. t \in Seq(Event) /\ Len(t) = Len(events) + 1 /\ t[Len(events) + 1] = e
  BY AppendProperties
<1>2. Len(events) \in Nat /\ DOMAIN t = 1..Len(t)
  BY <1>1, LenProperties
<1> DEFINE k == Len(events) + 1
<1> HIDE DEF t
<1>3. k \in Int /\ k >= 1 /\ DOMAIN t = 1..k /\ t[k] = e
  BY <1>1, <1>2
<1> HIDE DEF k
<1>4. k \in DOMAIN t /\ DOMAIN t \subseteq Int /\ t[k].to # "none" /\ \A i \in DOMAIN t : i <= k
  BY <1>3
<1>5. events' = t
  BY DEF t
<1>6. LedgerState' = e.to
  <2> DEFINE proving == {i \in DOMAIN t : t[i].to # "none"}
  <2>1. proving # {} /\ t[CHOOSE i \in proving : \A j \in proving : j <= i].to = e.to
    <3>1. \A i \in DOMAIN t : t[i].to # "none" => i <= k
      BY <1>4
    <3> QED BY <1>3, <1>4, <3>1, LastProof
  <2> QED BY <1>5, <2>1 DEF LedgerState
<1>7. SomeSigned'
  BY <1>3, <1>4, <1>5 DEF SomeSigned
<1> QED BY <1>1, <1>5, <1>6, <1>7

LEMMA PreparedLedger ==
  ASSUME events = <<Proof("CLOSED"), Proof("none")>>
  PROVE  events \in Seq(Event) /\ LedgerState = "CLOSED" /\ ~SomeSigned
<1>1. Proof("CLOSED") \in Event /\ Proof("none") \in Event
  BY DEF Proof, Event, States
<1>2. DOMAIN events = 1..2 /\ events[1] = Proof("CLOSED") /\ events[2] = Proof("none")
  OBVIOUS
<1>3. events \in Seq(Event)
  BY <1>1
<1>4. /\ Proof("CLOSED").to = "CLOSED" /\ Proof("none").to = "none"
      /\ Proof("CLOSED").signed = FALSE /\ Proof("none").signed = FALSE
  BY DEF Proof
<1>5. \A i \in DOMAIN events : i = 1 \/ i = 2
  BY <1>2
<1>6. LedgerState = "CLOSED"
  <2> DEFINE proving == {i \in DOMAIN events : events[i].to # "none"}
  <2>1. 1 \in DOMAIN events /\ DOMAIN events \subseteq Int /\ events[1].to # "none"
    BY <1>2, <1>4
  <2>2. \A i \in DOMAIN events : events[i].to # "none" => i <= 1
    BY <1>2, <1>4, <1>5
  <2>3. proving # {} /\ events[CHOOSE i \in proving : \A j \in proving : j <= i].to = events[1].to
    BY <2>1, <2>2, LastProof
  <2> QED BY <1>2, <1>4, <2>3 DEF LedgerState
<1>7. ~SomeSigned
  BY <1>2, <1>4, <1>5 DEF SomeSigned
<1> QED BY <1>3, <1>6, <1>7

\* What a document that passes must be: the heart of the argument.
LEMMA PassesAsWritten ==
  ASSUME LegacyInv, LegacyLevel # "TAMPERED"
  PROVE  /\ doc.state \in Upward => written = doc.state
         /\ LegacyLevel = "UNVERIFIED_LEGACY" =>
              \/ Prepared /\ doc.state \notin Upward
              \/ Ordinary /\ LegacyProven = written
<1>1. doc.state \in States /\ written # "none"
  BY NoneIsNoState DEF LegacyInv, Document
<1>2. CASE doc.signature = NoSignature
  <2>1. ~SomeSigned /\ ~Unbacked(LegacyProven, TRUE)
    BY <1>2 DEF LegacyLevel, SomeSigned
  <2>2. CASE Prepared
    <3>1. LedgerState = "CLOSED" /\ ~receipted
      BY <2>2, PreparedLedger DEF Prepared
    <3>2. doc.state \notin Upward
      <4> SUFFICES ASSUME doc.state \in Upward PROVE FALSE
        OBVIOUS
      <4>1. LegacyProven = "CLOSED"
        BY <3>1 DEF LegacyProven
      <4> QED BY <2>1, <3>1, <4>1 DEF Unbacked, ClosedUnbacked
    <3> QED BY <2>2, <3>2
  <2>3. CASE Ordinary
    <3>1. LegacyProven = written
      BY <2>1, <2>3 DEF Ordinary, LegacyProven
    <3> QED BY <1>1, <2>1, <2>3, <3>1 DEF Unbacked
  <2> QED BY <2>2, <2>3 DEF LegacyInv
<1>3. CASE doc.signature # NoSignature
  <2>1. LedgerState = written /\ ~Unbacked(LedgerState, FALSE) /\ LegacyLevel # "UNVERIFIED_LEGACY"
    BY <1>3 DEF LegacyLevel, LegacyInv, Prepared, Ordinary
  <2> QED BY <1>1, <2>1 DEF Unbacked
<1> QED BY <1>2, <1>3

LEMMA LegacyInvInitially == LegacyInit => LegacyInv
<1> SUFFICES ASSUME LegacyInit PROVE LegacyInv
  OBVIOUS
<1>1. written \in States /\ migration \in Migration /\ migration.at = "none"
      <2>1. written \in States /\ migration = NotMigrating
    BY DEF LegacyInit
  <2>2. NotMigrating \in Migration /\ NotMigrating.at = "none"
    BY DEF NotMigrating, Migration
  <2> QED BY <2>1, <2>2
<1>2. NoSignature \in Signature
  BY DEF NoSignature, Signature
<1>3. CASE /\ doc = [state |-> written, later |-> FALSE, signature |-> NoSignature]
           /\ events = <<Proof(written)>>
  <2>1. Proof(written) \in Event /\ Proof(written).to = written
    BY <1>1 DEF Proof, Event
  <2>2. events \in Seq(Event) /\ DOMAIN events = 1..1 /\ events[1] = Proof(written)
    BY <1>3, <2>1
  <2>3. 1 \in DOMAIN events /\ DOMAIN events \subseteq Int /\ events[1].to # "none"
        /\ \A i \in DOMAIN events : events[i].to # "none" => i <= 1
    BY <1>1, <2>1, <2>2, NoneIsNoState
  <2>4. LedgerState = written
    BY <2>1, <2>2, <2>3, LastProof DEF LedgerState
  <2>5. doc \in Document /\ doc.later = FALSE
    BY <1>1, <1>2, <1>3 DEF Document
  <2> QED BY <1>1, <2>2, <2>4, <2>5 DEF LegacyInv, Ordinary
<1>4. CASE /\ written = "DRAFT"
           /\ doc = [state |-> "DRAFT", later |-> TRUE, signature |-> NoSignature]
           /\ events = <<Proof("CLOSED"), Proof("none")>> /\ receipted = FALSE /\ evidence = FALSE
  <2>1. doc \in Document /\ Prepared
    BY <1>1, <1>2, <1>4 DEF Document, Prepared
  <2> QED BY <1>1, <1>4, <2>1, PreparedLedger DEF LegacyInv
<1> QED BY <1>3, <1>4 DEF LegacyInit

LEMMA LegacySteps ==
  ASSUME LegacyInv, [LegacyNext]_legacyVars
  PROVE  LegacyInv'
<1>0. /\ events \in Seq(Event) /\ doc \in Document /\ written \in States /\ migration \in Migration
      /\ doc.state \in States /\ doc.signature \in Signature /\ doc.later \in BOOLEAN
      /\ Prepared \/ Ordinary
  BY DEF LegacyInv, Document
<1>1. CASE UNCHANGED legacyVars
  BY <1>1 DEF legacyVars, LegacyInv, Prepared, Ordinary, LedgerState, SomeSigned
<1>2. CASE Migrate
  <2>1. LegacyLevel = "UNVERIFIED_LEGACY" /\ LegacyProven = doc.state
    BY <1>2 DEF Migrate
  <2>2. (Prepared /\ doc.state \notin Upward) \/ (Ordinary /\ LegacyProven = written)
    BY <2>1, PassesAsWritten
  <2> DEFINE to == IF LegacyProven = "DRAFT" /\ LedgerState = "CLOSED" THEN MigrationProves ELSE doc.state
  <2>3. to = written
    <3>1. CASE Prepared /\ doc.state \notin Upward
      <4>1. LedgerState = "CLOSED" /\ LegacyProven = "DRAFT"
        BY <3>1, PreparedLedger DEF Prepared, LegacyProven
      <4> QED BY <3>1, <4>1 DEF Prepared, MigrationProves
    <3>2. CASE Ordinary /\ LegacyProven = written
      BY <2>1, <3>2 DEF Ordinary, MigrationProves
    <3> QED BY <2>2, <3>1, <3>2
  <2>4. migration' = [at |-> "event", body |-> doc.state, to |-> to]
        /\ UNCHANGED <<events, doc, receipted, evidence, written>>
    BY <1>2 DEF Migrate
  <2> HIDE DEF to
  <2>5. migration' \in Migration /\ migration'.at = "event" /\ migration'.to = written
        /\ migration'.body \in States
    BY <1>0, <2>3, <2>4 DEF Migration
  <2>6. (Prepared \/ Ordinary)'
    BY <1>0, <2>4 DEF Prepared, Ordinary, LedgerState, SomeSigned
  <2> QED BY <2>4, <2>5, <2>6 DEF LegacyInv
<1>3. CASE MigrationEvent
  <2> DEFINE e == [to |-> migration.to, signed |-> TRUE]
  <2>1. migration.at = "event" /\ migration.to = written /\ migration.body \in States
    BY <1>3 DEF MigrationEvent, LegacyInv
  <2>2. e \in Event /\ e.to = written /\ e.to # "none" /\ e.signed /\ events' = Append(events, e)
    BY <1>0, <1>3, <2>1, NoneIsNoState DEF MigrationEvent, Event
  <2>3. events' \in Seq(Event) /\ LedgerState' = written /\ SomeSigned'
    <3> HIDE DEF e
    <3> QED BY <1>0, <2>2, AppendedProof
  <2>4. UNCHANGED <<doc, receipted, evidence, written>> /\ migration' = [migration EXCEPT !.at = "write"]
    BY <1>3 DEF MigrationEvent
  <2>5. migration' \in Migration /\ migration'.at = "write" /\ migration'.body \in States
    BY <1>0, <2>1, <2>4 DEF Migration
  <2>6. Ordinary'
    BY <2>3, <2>4 DEF Ordinary
  <2> QED BY <2>3, <2>4, <2>5, <2>6 DEF LegacyInv
<1>4. CASE MigrationWrite
  <2>1. migration.body \in States /\ Ordinary
    BY <1>4 DEF MigrationWrite, LegacyInv
  <2>2. UNCHANGED <<events, receipted, evidence, written>>
        /\ migration' = [migration EXCEPT !.at = "done"]
        /\ doc' = [doc EXCEPT !.state = migration.body,
                              !.signature = [head |-> Len(events), state |-> migration.body]]
    BY <1>4 DEF MigrationWrite
  <2>3. [head |-> Len(events), state |-> migration.body] \in Signature
    BY <1>0, <2>1, LenProperties DEF Signature
  <2>4. doc' \in Document /\ doc'.later = doc.later
    BY <1>0, <2>1, <2>2, <2>3 DEF Document
  <2>5. migration' \in Migration /\ migration'.at = "done"
    BY <1>0, <2>2 DEF Migration
  <2>6. Ordinary'
    BY <2>1, <2>2, <2>4 DEF Ordinary, LedgerState, SomeSigned
  <2> QED BY <2>2, <2>4, <2>5, <2>6 DEF LegacyInv
<1>5. CASE StopMigration
  <2>1. migration' \in Migration /\ migration'.at = "none"
        /\ UNCHANGED <<events, doc, receipted, evidence, written>>
    BY <1>5 DEF StopMigration, NotMigrating, Migration
  <2>2. (Prepared \/ Ordinary)'
    BY <1>0, <2>1 DEF Prepared, Ordinary, LedgerState, SomeSigned
  <2> QED BY <2>1, <2>2 DEF LegacyInv
<1>6. CASE EditState
  <2> PICK state \in States : doc' = [doc EXCEPT !.state = state]
    BY <1>6 DEF EditState
  <2>1. doc' \in Document /\ doc'.later = doc.later /\ doc'.signature = doc.signature
    BY <1>0 DEF Document
  <2>2. UNCHANGED <<events, receipted, evidence, written>>
        /\ migration' = [migration EXCEPT !.at = IF @ = "done" THEN "none" ELSE @]
    BY <1>6 DEF EditState
  <2>3. /\ migration' \in Migration /\ migration'.to = migration.to /\ migration'.body = migration.body
        /\ migration'.at \in {"event", "write"} => migration'.at = migration.at
    BY <1>0, <2>2 DEF Migration
  <2>4. Prepared => Prepared'
    BY <2>1, <2>2 DEF Prepared
  <2>5. Ordinary => Ordinary'
    BY <2>1, <2>2 DEF Ordinary, LedgerState, SomeSigned
  <2> QED BY <2>1, <2>2, <2>3, <2>4, <2>5 DEF LegacyInv
<1>7. CASE CommandWrites
  <2> PICK next \in Transitions[doc.state] :
       /\ events' = Append(events, [to |-> next, signed |-> TRUE])
       /\ doc' = [doc EXCEPT !.state = next, !.signature = [head |-> Len(events) + 1, state |-> next]]
       /\ receipted' = (receipted \/ next = "CLOSED") /\ evidence' = (evidence \/ next \in Upward)
       /\ written' = next
    BY <1>7 DEF CommandWrites
  <2> DEFINE e == [to |-> next, signed |-> TRUE]
  <2>1. next \in States
    BY <1>0, TransitionFacts
  <2>2. e \in Event /\ e.to = next /\ e.to # "none" /\ e.signed
    BY <2>1, NoneIsNoState DEF Event
  <2>3. events' \in Seq(Event) /\ LedgerState' = next /\ SomeSigned'
    <3>1. events' = Append(events, e)
      OBVIOUS
    <3> HIDE DEF e
    <3> QED BY <1>0, <2>2, <3>1, AppendedProof
  <2>4. [head |-> Len(events) + 1, state |-> next] \in Signature
    <3>1. Len(events) + 1 \in Nat
      BY <1>0, LenProperties
    <3> QED BY <2>1, <3>1 DEF Signature
  <2>5. doc' \in Document
    BY <1>0, <2>1, <2>4 DEF Document
  <2>6. migration' \in Migration /\ migration'.at = "none"
    BY <1>7 DEF CommandWrites, NotMigrating, Migration
  <2>7. Ordinary'
    BY <2>3 DEF Ordinary
  <2> QED BY <2>1, <2>3, <2>5, <2>6, <2>7 DEF LegacyInv
<1> QED BY <1>1, <1>2, <1>3, <1>4, <1>5, <1>6, <1>7 DEF LegacyNext

\* No edit of an unsigned document, before or after its promotion and wherever that stopped,
\* makes a claim of release authority that passes (evaluateStateIntegrity,
\* migrateStateIntegrity).
THEOREM AuthorityIsNeverForged == LegacySpec => []AuthorityWasWritten
<1>1. LegacyInv => AuthorityWasWritten
  BY PassesAsWritten DEF AuthorityWasWritten
<1> QED BY <1>1, LegacyInvInitially, LegacySteps, PTL DEF LegacySpec

-----------------------------------------------------------------------------
(* The OMP harness: what a rollback reports is what it has done. *)

Texts == [text : Nat, entry : BOOLEAN]
ManagedFiles == [Managed -> Texts \cup {Absent}]
InstallReceipts == [version : Versions, backup : Nat]
OmpBackups == [files : ManagedFiles, receipt : InstallReceipts \cup {Absent},
               package : Versions \cup {Absent}, manifest : BOOLEAN]
OmpSteps == {"none", "copy", "pack", "manifest", "package", "desired", "configure", "check",
             "receipt", "recheck", "restore", "reinstall"}
OmpJobs == [at : OmpSteps, version : Versions \cup {Absent}, archive : BOOLEAN, backup : Nat,
            left : SUBSET Managed, seen : ManagedFiles \cup {Absent}]

OmpTypes ==
  /\ files \in ManagedFiles /\ receipt \in InstallReceipts \cup {Absent}
  /\ package \in Versions \cup {Absent} /\ backups \in Seq(OmpBackups) /\ job \in OmpJobs
  /\ job.at # "none" => job.backup \in 1..Len(backups) /\ job.version \in Versions \cup {Absent}
  /\ job.at = "configure" => job.seen \in ManagedFiles
  /\ job.at \notin {"none", "restore", "reinstall"} => job.version \in Versions
  /\ edits \in Nat

\* File f is as the backup of the running rollback has it.
IsBack(f) == files[f] = backups[job.backup].files[f]

\* Half way through, every file that is no longer to be restored is back, but for the
\* person's; the receipt came back with the last of them.
HalfRestored ==
  /\ job.at = "restore" => \A f \in Managed \ (job.left \cup touched) : IsBack(f)
  /\ job.at = "reinstall" => /\ \A f \in Managed \ touched : IsBack(f)
                             /\ receipt = backups[job.backup].receipt

OmpInv ==
  /\ OmpTypes /\ HalfRestored /\ RestoredIsBackup
  /\ result.kind = "restored" => OmpIdle

LEMMA JobMoves ==
  ASSUME NEW j \in OmpJobs, NEW a \in OmpSteps, NEW k, k = [j EXCEPT !.at = a]
  PROVE  /\ k \in OmpJobs /\ k.at = a /\ k.backup = j.backup /\ k.version = j.version
         /\ k.seen = j.seen /\ k.left = j.left
BY DEF OmpJobs

LEMMA WaitingIsAJob == WaitingJob \in OmpJobs /\ WaitingJob.at = "none"
BY DEF WaitingJob, OmpJobs, OmpSteps

LEMMA BackupChanges ==
  ASSUME NEW b \in OmpBackups
  PROVE  /\ b.files \in ManagedFiles /\ b.receipt \in InstallReceipts \cup {Absent}
         /\ b.package \in Versions \cup {Absent}
         /\ \A f \in ManagedFiles, r \in InstallReceipts \cup {Absent} :
              [b EXCEPT !.files = f, !.receipt = r] \in OmpBackups
         /\ \A p \in Versions \cup {Absent} : [b EXCEPT !.package = p] \in OmpBackups
         /\ [b EXCEPT !.manifest = TRUE] \in OmpBackups
BY DEF OmpBackups

LEMMA BackupReplaced ==
  ASSUME backups \in Seq(OmpBackups), NEW i \in 1..Len(backups), NEW b \in OmpBackups,
         backups' = [backups EXCEPT ![i] = b]
  PROVE  backups' \in Seq(OmpBackups) /\ Len(backups') = Len(backups)
BY ExceptSeq

LEMMA OmpInvInitially == OmpInit => OmpInv
<1> SUFFICES ASSUME OmpInit PROVE OmpInv
  OBVIOUS
<1>1. files \in ManagedFiles
  <2>1. Plain(0) \in Texts
    BY DEF Plain, Texts
  <2> QED BY <2>1 DEF OmpInit, ManagedFiles
<1>2. result.kind = "none" /\ edits \in Nat /\ backups \in Seq(OmpBackups)
  BY EmptySeq DEF OmpInit, NoResult
<1> QED BY <1>1, <1>2, WaitingIsAJob DEF OmpInit, OmpInv, OmpTypes, HalfRestored, RestoredIsBackup

\* The steps of an install up to the last check: no rollback is under way or reported.
LEMMA InstallSteps ==
  ASSUME OmpInv,
         \/ InstallHarness \/ CopyFile \/ PackInstalled \/ WriteManifest \/ InstallPackage \/ ReadDesired
         \/ ConfigureFile \/ Doctor \/ WriteInstallReceipt \/ DoctorAgain
  PROVE  OmpInv'
<1> DEFINE b == job.backup
<1>0. /\ job \in OmpJobs /\ backups \in Seq(OmpBackups) /\ files \in ManagedFiles /\ edits \in Nat
      /\ receipt \in InstallReceipts \cup {Absent} /\ package \in Versions \cup {Absent}
      /\ job.left \subseteq Managed /\ Len(backups) \in Nat
      /\ job.at # "none" => b \in 1..Len(backups) /\ b \in DOMAIN backups /\ backups[b] \in OmpBackups
  BY LenProperties, ElementOfSeq DEF OmpInv, OmpTypes, OmpJobs
\* Enough: types, a job that is not restoring what it should not, and no report.
<1>1. ASSUME OmpTypes', result'.kind # "restored",
             job'.at \notin {"restore", "reinstall"} \/ (job'.at = "restore" /\ job'.left = Managed)
      PROVE  OmpInv'
  BY <1>1 DEF OmpInv, HalfRestored, RestoredIsBackup
<1>2. job.at # "none" => result.kind # "restored"
  BY DEF OmpInv, OmpIdle
<1>3. CASE InstallHarness
  <2> PICK version \in Versions, archive \in BOOLEAN :
         job' = [WaitingJob EXCEPT !.at = "copy", !.version = version, !.archive = archive,
                                   !.backup = Len(backups) + 1, !.left = Managed]
    BY <1>3 DEF InstallHarness
  <2> DEFINE new == [files |-> [f \in Managed |-> Absent], receipt |-> Absent,
                     package |-> Absent, manifest |-> FALSE]
  <2>1. new \in OmpBackups
    BY DEF OmpBackups, ManagedFiles
  <2>2. backups' = Append(backups, new)
    BY <1>3 DEF InstallHarness
  <2> HIDE DEF new
  <2>3. backups' \in Seq(OmpBackups) /\ Len(backups') = Len(backups) + 1
    BY <1>0, <2>1, <2>2, AppendProperties
  <2>4. /\ job' \in OmpJobs /\ job'.at = "copy" /\ job'.backup = Len(backups) + 1
        /\ job'.version \in Versions
    <3>1. job' = [at |-> "copy", version |-> version, archive |-> archive, backup |-> Len(backups) + 1,
                  left |-> Managed, seen |-> Absent]
      BY DEF WaitingJob
    <3> DEFINE n == Len(backups) + 1
    <3>2. "copy" \in OmpSteps /\ n \in Nat
      BY <1>0 DEF OmpSteps
    <3> HIDE DEF n
    <3> QED BY <3>1, <3>2 DEF OmpJobs, n
  <2>6. UNCHANGED <<files, receipt, package, edits>>
    BY <1>3 DEF InstallHarness
  <2>7. job'.backup \in 1..Len(backups')
    BY <1>0, <2>3, <2>4
  <2>5. OmpTypes'
    BY <1>0, <2>3, <2>4, <2>6, <2>7 DEF OmpTypes
  <2> QED BY <1>1, <1>3, <2>4, <2>5 DEF InstallHarness, NoResult
<1>4. CASE CopyFile
  <2> PICK f \in job.left :
         /\ backups' = [backups EXCEPT ![job.backup].files[f] = files[f],
                                       ![job.backup].receipt = IF job.left = {f} THEN receipt ELSE @]
         /\ job' = [job EXCEPT !.left = @ \ {f}, !.at = IF job.left = {f} THEN "pack" ELSE @]
    BY <1>4 DEF CopyFile
  <2>1. job.at = "copy" /\ b \in 1..Len(backups) /\ backups[b] \in OmpBackups
    BY <1>0, <1>4 DEF CopyFile
  <2> DEFINE r == IF job.left = {f} THEN receipt ELSE backups[b].receipt
             g == [backups[b].files EXCEPT ![f] = files[f]]
  <2>2. r \in InstallReceipts \cup {Absent} /\ g \in ManagedFiles
    BY <1>0, <2>1, BackupChanges DEF ManagedFiles
  <2>3. backups' = [backups EXCEPT ![b] = [backups[b] EXCEPT !.files = g, !.receipt = r]]
    BY <1>0, <2>1 DEF OmpBackups
  <2> HIDE DEF r, g
  <2>4. [backups[b] EXCEPT !.files = g, !.receipt = r] \in OmpBackups
    BY <2>1, <2>2, BackupChanges
  <2> HIDE DEF b
  <2>5. backups' \in Seq(OmpBackups) /\ Len(backups') = Len(backups)
    BY <1>0, <2>1, <2>3, <2>4, BackupReplaced
  <2>6. /\ job' \in OmpJobs /\ job'.at \in {"copy", "pack"} /\ job'.backup = job.backup
        /\ job'.version = job.version
    <3> DEFINE a == IF job.left = {f} THEN "pack" ELSE "copy"
    <3>1. job' = [job EXCEPT !.at = a, !.left = job.left \ {f}]
      BY <1>0, <2>1 DEF OmpJobs
    <3>2. a \in OmpSteps /\ a \in {"copy", "pack"} /\ job.left \ {f} \subseteq Managed
      BY <1>0 DEF OmpSteps
    <3> HIDE DEF a
    <3> QED BY <1>0, <3>1, <3>2 DEF OmpJobs
  <2>7. OmpTypes'
    BY <1>0, <1>4, <2>1, <2>5, <2>6 DEF CopyFile, OmpInv, OmpTypes, b
  <2> QED BY <1>1, <1>2, <1>4, <2>1, <2>6, <2>7 DEF CopyFile
<1>5. CASE PackInstalled
  <2>1. job.at = "pack" /\ b \in 1..Len(backups) /\ backups[b] \in OmpBackups
    BY <1>0, <1>5 DEF PackInstalled
  <2>2. CASE job' = WaitingJob /\ UNCHANGED backups
    <3>1. OmpTypes'
      BY <1>0, <1>5, <2>2, WaitingIsAJob DEF PackInstalled, OmpTypes
    <3> QED BY <1>1, <1>2, <1>5, <2>1, <2>2, <3>1, WaitingIsAJob DEF PackInstalled
  <2>3. CASE backups' = [backups EXCEPT ![b].package = package] /\ Moves(AfterPack)
    <3>1. backups' = [backups EXCEPT ![b] = [backups[b] EXCEPT !.package = package]]
      BY <2>3
    <3>2. [backups[b] EXCEPT !.package = package] \in OmpBackups
      BY <1>0, <2>1, BackupChanges
    <3>3. job' \in OmpJobs /\ job'.at = "manifest" /\ job'.backup = job.backup /\ job'.version = job.version
      BY <1>0, <2>3 DEF Moves, AfterPack, OmpJobs, OmpSteps
    <3> HIDE DEF b
    <3>4. backups' \in Seq(OmpBackups) /\ Len(backups') = Len(backups)
      BY <1>0, <2>1, <3>1, <3>2, BackupReplaced
    <3>5. OmpTypes'
      BY <1>0, <1>5, <2>1, <3>3, <3>4 DEF PackInstalled, OmpInv, OmpTypes, b
    <3> QED BY <1>1, <1>2, <1>5, <2>1, <3>3, <3>5 DEF PackInstalled
  <2> QED BY <1>5, <2>2, <2>3 DEF PackInstalled
<1>6. CASE WriteManifest
  <2>1. job.at = "manifest" /\ b \in 1..Len(backups) /\ backups[b] \in OmpBackups
    BY <1>0, <1>6 DEF WriteManifest
  <2>2. backups' = [backups EXCEPT ![b] = [backups[b] EXCEPT !.manifest = TRUE]]
    BY <1>6 DEF WriteManifest
  <2>3. [backups[b] EXCEPT !.manifest = TRUE] \in OmpBackups
    BY <2>1, BackupChanges
  <2>4. job' \in OmpJobs /\ job'.at = "package" /\ job'.backup = job.backup /\ job'.version = job.version
    BY <1>0, <1>6 DEF WriteManifest, Moves, OmpJobs, OmpSteps
  <2> HIDE DEF b
  <2>5. backups' \in Seq(OmpBackups) /\ Len(backups') = Len(backups)
    BY <1>0, <2>1, <2>2, <2>3, BackupReplaced
  <2>6. OmpTypes'
    BY <1>0, <1>6, <2>1, <2>4, <2>5 DEF WriteManifest, OmpInv, OmpTypes, b
  <2> QED BY <1>1, <1>2, <1>6, <2>1, <2>4, <2>6 DEF WriteManifest
\* From here on the backup stays as it is, and the command rolls back or goes on.
<1>7. ASSUME RollBack, job.at \notin {"none", "restore", "reinstall"}
      PROVE  /\ job' \in OmpJobs /\ job'.at = "restore" /\ job'.left = Managed
             /\ job'.backup = job.backup /\ job'.version = job.version
  BY <1>0, <1>7 DEF RollBack, OmpJobs, OmpSteps
<1>8. ASSUME NEW step \in OmpSteps, Moves(step)
      PROVE  /\ job' \in OmpJobs /\ job'.at = step
             /\ job'.backup = job.backup /\ job'.version = job.version /\ job'.seen = job.seen
  BY <1>0, <1>8, JobMoves DEF Moves
<1>9. CASE InstallPackage
  <2>1. job.at = "package" /\ job.version \in Versions /\ UNCHANGED <<files, receipt, backups, result, touched, edits>>
    BY <1>9 DEF InstallPackage, OmpInv, OmpTypes
  <2>2. package' \in Versions \cup {Absent}
    BY <1>0, <1>9, <2>1 DEF InstallPackage
  <2>3. RollBack \/ Moves("desired")
    BY <1>9 DEF InstallPackage, RollBack
  <2>4. /\ job' \in OmpJobs /\ (job'.at = "desired" \/ (job'.at = "restore" /\ job'.left = Managed))
        /\ job'.backup = job.backup /\ job'.version = job.version
    <3>1. "desired" \in OmpSteps
      BY DEF OmpSteps
    <3> QED BY <1>7, <1>8, <2>1, <2>3, <3>1
  <2>5. OmpTypes'
    BY <1>0, <2>1, <2>2, <2>4 DEF OmpInv, OmpTypes
  <2> QED BY <1>1, <1>2, <2>1, <2>4, <2>5
<1>10. CASE ReadDesired
  <2>1. job.at = "desired" /\ UNCHANGED <<files, receipt, package, backups, result, touched, edits>>
    BY <1>10 DEF ReadDesired
  <2>2. /\ job' \in OmpJobs /\ job'.at = "configure" /\ job'.seen \in ManagedFiles
        /\ job'.backup = job.backup /\ job'.version = job.version
    BY <1>0, <1>10 DEF ReadDesired, OmpJobs, OmpSteps
  <2>3. OmpTypes'
    BY <1>0, <2>1, <2>2 DEF OmpInv, OmpTypes
  <2> QED BY <1>1, <1>2, <2>1, <2>2, <2>3
<1>11. CASE ConfigureFile
  <2>1. /\ job.at = "configure" /\ job.seen \in ManagedFiles
        /\ UNCHANGED <<receipt, package, backups, result, touched, edits>>
    BY <1>11 DEF ConfigureFile, OmpInv, OmpTypes
  <2>2. CASE RollBack /\ UNCHANGED files
    <3>1. OmpTypes'
      BY <1>0, <1>7, <2>1, <2>2 DEF OmpInv, OmpTypes
    <3> QED BY <1>1, <1>2, <1>7, <2>1, <2>2, <3>1
  <2>3. ASSUME NEW f \in job.left, files' = [files EXCEPT ![f] = Merged(f)],
               job' = [job EXCEPT !.left = @ \ {f}, !.at = IF job.left = {f} THEN "check" ELSE @]
        PROVE  OmpInv'
    <3>1. Merged(f) \in Texts
      BY <1>0, <2>1 DEF Merged, ManagedFiles, Texts
    <3>2. files' \in ManagedFiles
      BY <1>0, <2>3, <3>1 DEF ManagedFiles
    <3> DEFINE a == IF job.left = {f} THEN "check" ELSE "configure"
    <3>3. job' = [job EXCEPT !.at = a, !.left = job.left \ {f}]
      BY <1>0, <2>1, <2>3 DEF OmpJobs
    <3>6. a \in OmpSteps /\ a \in {"check", "configure"} /\ job.left \ {f} \subseteq Managed
      BY <1>0 DEF OmpSteps
    <3> HIDE DEF a
    <3>4. /\ job' \in OmpJobs /\ job'.at \in {"check", "configure"} /\ job'.seen = job.seen
          /\ job'.backup = job.backup /\ job'.version = job.version
      BY <1>0, <3>3, <3>6 DEF OmpJobs
    <3>5. OmpTypes'
      BY <1>0, <2>1, <3>2, <3>4 DEF OmpInv, OmpTypes
    <3> QED BY <1>1, <1>2, <2>1, <3>4, <3>5
  <2> QED BY <1>11, <2>2, <2>3 DEF ConfigureFile
<1>12. CASE Doctor
  <2>1. job.at = "check" /\ UNCHANGED <<files, receipt, package, backups, result, touched, edits>>
    BY <1>12 DEF Doctor
  <2>2. /\ job' \in OmpJobs /\ (job'.at = "receipt" \/ (job'.at = "restore" /\ job'.left = Managed))
        /\ job'.backup = job.backup /\ job'.version = job.version
    <3>1. "receipt" \in OmpSteps
      BY DEF OmpSteps
    <3>2. RollBack \/ Moves("receipt")
      BY <1>12 DEF Doctor
    <3> QED BY <1>7, <1>8, <2>1, <3>1, <3>2
  <2>3. OmpTypes'
    BY <1>0, <2>1, <2>2 DEF OmpInv, OmpTypes
  <2> QED BY <1>1, <1>2, <2>1, <2>2, <2>3
<1>13. CASE WriteInstallReceipt
  <2>1. /\ job.at = "receipt" /\ job.version \in Versions /\ Moves("recheck")
        /\ UNCHANGED <<files, package, backups, result, touched, edits>>
    BY <1>13 DEF WriteInstallReceipt, OmpInv, OmpTypes
  <2>2. receipt' \in InstallReceipts
    BY <1>0, <1>13, <2>1 DEF WriteInstallReceipt, InstallReceipts
  <2>3. /\ job' \in OmpJobs /\ job'.at = "recheck"
        /\ job'.backup = job.backup /\ job'.version = job.version
    <3>1. "recheck" \in OmpSteps
      BY DEF OmpSteps
    <3> QED BY <1>8, <2>1, <3>1
  <2>4. OmpTypes'
    BY <1>0, <2>1, <2>2, <2>3 DEF OmpInv, OmpTypes
  <2> QED BY <1>1, <1>2, <2>1, <2>3, <2>4
<1>14. CASE DoctorAgain
  <2>1. job.at = "recheck" /\ UNCHANGED <<files, receipt, package, backups, touched, edits>>
    BY <1>14 DEF DoctorAgain
  <2>2. CASE job' = WaitingJob /\ result' = [kind |-> "installed", version |-> job.version, backup |-> job.backup]
    <3>1. OmpTypes'
      BY <1>0, <2>1, <2>2, WaitingIsAJob DEF OmpTypes
    <3> QED BY <1>1, <2>2, <3>1, WaitingIsAJob
  <2>3. CASE RollBack /\ UNCHANGED result
    <3>1. OmpTypes'
      BY <1>0, <1>7, <2>1, <2>3 DEF OmpInv, OmpTypes
    <3> QED BY <1>1, <1>2, <1>7, <2>1, <2>3, <3>1
  <2> QED BY <1>14, <2>2, <2>3 DEF DoctorAgain
<1> QED BY <1>3, <1>4, <1>5, <1>6, <1>9, <1>10, <1>11, <1>12, <1>13, <1>14

\* The steps of a rollback, and those of the person.
LEMMA RollbackSteps ==
  ASSUME OmpInv,
         RollbackCommand \/ RestoreFile \/ ReinstallPackage \/ UserEdit \/ StopInstaller
  PROVE  OmpInv'
<1> DEFINE b == job.backup
<1>0. /\ job \in OmpJobs /\ backups \in Seq(OmpBackups) /\ files \in ManagedFiles /\ edits \in Nat
      /\ receipt \in InstallReceipts \cup {Absent} /\ package \in Versions \cup {Absent}
      /\ job.left \subseteq Managed /\ Len(backups) \in Nat
      /\ job.at # "none" => /\ b \in 1..Len(backups) /\ b \in DOMAIN backups
                            /\ backups[b] \in OmpBackups /\ result.kind # "restored"
  BY LenProperties, ElementOfSeq DEF OmpInv, OmpTypes, OmpJobs, OmpIdle
<1>1. CASE RollbackCommand
  <2> PICK d \in DOMAIN backups :
         job' = [WaitingJob EXCEPT !.at = "restore", !.backup = d, !.left = Managed]
    BY <1>1 DEF RollbackCommand
  <2>1. d \in 1..Len(backups) /\ d \in Nat
    BY <1>0, LenProperties
  <2>2. job' \in OmpJobs /\ job'.at = "restore" /\ job'.backup = d /\ job'.left = Managed
    BY <1>0, <2>1 DEF WaitingJob, OmpJobs, OmpSteps
  <2>3. UNCHANGED <<files, receipt, package, backups, edits>> /\ result'.kind = "none"
    BY <1>1 DEF RollbackCommand, NoResult
  <2>4. OmpTypes'
    BY <1>0, <2>1, <2>2, <2>3 DEF OmpTypes, OmpJobs
  <2> QED BY <2>2, <2>3, <2>4 DEF OmpInv, HalfRestored, RestoredIsBackup
<1>2. CASE RestoreFile
  <2>1. /\ job.at = "restore" /\ backups[b] \in OmpBackups
        /\ UNCHANGED <<package, backups, result, touched, edits>>
    BY <1>0, <1>2 DEF RestoreFile
  <2> PICK f \in job.left :
         /\ files' = [files EXCEPT ![f] = Restored(f)]
         /\ job' = [job EXCEPT !.left = @ \ {f}, !.at = IF job.left = {f} THEN "reinstall" ELSE @]
    BY <1>2 DEF RestoreFile
  <2> DEFINE a == IF job.left = {f} THEN "reinstall" ELSE "restore"
  <2>2. job' = [job EXCEPT !.at = a, !.left = job.left \ {f}]
    BY <1>0, <2>1 DEF OmpJobs
  <2>12. a \in OmpSteps /\ job.left \ {f} \subseteq Managed
    BY <1>0 DEF OmpSteps
  <2>3. /\ job' \in OmpJobs /\ job'.at = a
        /\ job'.backup = job.backup /\ job'.version = job.version /\ job'.left = job.left \ {f}
    <3> HIDE DEF a
    <3> QED BY <1>0, <2>2, <2>12 DEF OmpJobs
  <2>4. files' \in ManagedFiles /\ files'[f] = backups[b].files[f]
    BY <1>0, <2>1, BackupChanges DEF Restored, ManagedFiles
  <2>5. \A g \in Managed \ {f} : files'[g] = files[g]
    BY <1>0 DEF ManagedFiles
  <2>6. \A g \in Managed \ (touched \cup (job.left \ {f})) : files'[g] = backups[b].files[g]
    BY <2>1, <2>4, <2>5 DEF OmpInv, HalfRestored, IsBack
  <2>7. job.left = {f} => receipt' = backups[b].receipt
    BY <1>2, FS_Singleton DEF RestoreFile
  <2>8. receipt' \in InstallReceipts \cup {Absent}
    BY <1>0, <1>2, <2>1, BackupChanges DEF RestoreFile
  <2>9. OmpTypes'
    BY <1>0, <2>1, <2>3, <2>4, <2>8 DEF OmpInv, OmpTypes
  <2>10. HalfRestored'
    BY <2>1, <2>3, <2>6, <2>7 DEF HalfRestored, IsBack
  <2>11. result'.kind # "restored"
    BY <1>0, <2>1
  <2> QED BY <2>9, <2>10, <2>11 DEF OmpInv, RestoredIsBackup
<1>3. CASE ReinstallPackage
  <2>1. /\ job.at = "reinstall" /\ backups[b] \in OmpBackups /\ job' = WaitingJob
        /\ UNCHANGED <<files, receipt, backups, touched, edits>>
    BY <1>0, <1>3 DEF ReinstallPackage
  <2>2. package' \in Versions \cup {Absent}
    BY <1>0, <1>3, <2>1, BackupChanges DEF ReinstallPackage
  <2>3. OmpTypes'
    BY <1>0, <2>1, <2>2, WaitingIsAJob DEF OmpTypes
  <2>4. HalfRestored' /\ OmpIdle'
    BY <2>1, WaitingIsAJob DEF HalfRestored, OmpIdle
  <2>5. result'.kind = "restored" =>
          /\ result'.backup = b
          /\ backups[b].package # Absent => package' = backups[b].package
    BY <1>3 DEF ReinstallPackage
  <2>6. RestoredIsBackup'
    BY <2>1, <2>5 DEF OmpInv, HalfRestored, IsBack, RestoredIsBackup
  <2> QED BY <2>3, <2>4, <2>6 DEF OmpInv
<1>4. CASE UserEdit
  <2> PICK f \in Shared :
         /\ files' = [files EXCEPT ![f] = [text |-> edits + 1, entry |-> files[f] # Absent /\ files[f].entry]]
         /\ touched' = touched \cup {f}
    BY <1>4 DEF UserEdit
  <2>1. UNCHANGED <<receipt, package, backups, job, result>> /\ edits' = edits + 1
    BY <1>4 DEF UserEdit
  <2>2. [text |-> edits + 1, entry |-> files[f] # Absent /\ files[f].entry] \in Texts
    BY <1>0 DEF Texts, ManagedFiles, Managed
  <2>3. files' \in ManagedFiles
    BY <1>0, <2>2 DEF ManagedFiles
  <2>4. \A g \in Managed \ touched' : g \notin touched /\ files'[g] = files[g]
    BY <1>0 DEF ManagedFiles
  <2>5. OmpTypes'
    BY <1>0, <2>1, <2>3 DEF OmpInv, OmpTypes
  <2>6. HalfRestored'
    BY <2>1, <2>4 DEF OmpInv, HalfRestored, IsBack
  <2>7. RestoredIsBackup' /\ (result'.kind = "restored" => OmpIdle')
    BY <2>1, <2>4 DEF OmpInv, RestoredIsBackup, OmpIdle
  <2> QED BY <2>5, <2>6, <2>7 DEF OmpInv
<1>5. CASE StopInstaller
  <2>1. /\ job.at # "none" /\ job' = WaitingJob
        /\ UNCHANGED <<files, receipt, package, backups, result, touched, edits>>
    BY <1>5 DEF StopInstaller, OmpIdle
  <2>2. OmpTypes'
    BY <1>0, <2>1, WaitingIsAJob DEF OmpTypes
  <2> QED BY <1>0, <2>1, <2>2, WaitingIsAJob DEF OmpInv, HalfRestored, RestoredIsBackup
<1> QED BY <1>1, <1>2, <1>3, <1>4, <1>5

\* A rollback of the OMP harness that reports success has put back every file the person
\* did not touch meanwhile, the receipt, and the earlier package, whatever failed or was
\* stopped before it, for any files and versions (restoreOmpBackup).
THEOREM RollbacksRestore == OmpSpec => []RestoredIsBackup
<1>1. OmpInv /\ [OmpNext]_ompVars => OmpInv'
  <2> SUFFICES ASSUME OmpInv, [OmpNext]_ompVars PROVE OmpInv'
    OBVIOUS
  <2>1. CASE UNCHANGED ompVars
    <3>1. OmpTypes'
      BY <2>1 DEF ompVars, OmpInv, OmpTypes
    <3>2. HalfRestored'
      BY <2>1 DEF ompVars, OmpInv, HalfRestored, IsBack
    <3> QED BY <2>1, <3>1, <3>2 DEF ompVars, OmpInv, RestoredIsBackup, OmpIdle
  <2> QED BY <2>1, InstallSteps, RollbackSteps DEF OmpNext
<1>2. OmpInv => RestoredIsBackup
  BY DEF OmpInv
<1> QED BY <1>1, <1>2, OmpInvInitially, PTL DEF OmpSpec
(***************************************************************************)
(* The shipping plugin.                                                    *)
(***************************************************************************)

BackupSteps == {"backup", "backupReceipt", "backupRegistration", "meta"}
PluginSteps == BackupSteps \cup {"none", "assets", "registration", "host", "remove", "add",
                                 "receipt", "item", "rm"}
Assets == [AssetFiles -> Packages \cup {Missing}]
\* A backup with its meta.json has a receipt.
Saves == [assets : Assets, receipt : Receipt, registration : Packages \cup {Missing}, meta : BOOLEAN]
           \cup [assets : Assets, receipt : {Missing}, registration : Packages \cup {Missing},
                 meta : {FALSE}]
Backups == Directories \cup {Missing}
HistoryItems == [backup : Backups, receipt : Receipt \cup {Missing}, to : Packages \cup {Missing}]
Tasks == [at : PluginSteps, cmd : {"none", "install", "repair", "upgrade", "rollback", "uninstall"},
          package : Packages \cup {Missing}, replace : BOOLEAN, left : SUBSET AssetFiles,
          backup : Backups, from : Receipt \cup {Missing}]

PluginTypes ==
  /\ assets \in Assets /\ registration \in Packages \cup {Missing}
  /\ host \in Packages \cup {Missing, Foreign} /\ installed \in Receipt \cup {Missing}
  /\ saved \in [Directories -> Saves] /\ history \in Seq(HistoryItems)
  /\ task \in Tasks /\ pluginReceipts \in 0..MaxReceipts /\ pluginFaults \in 0..MaxPluginFaults
  /\ Len(history) <= MaxHistory

\* What a running command may rely on: there is room for its receipt and its item, and it
\* installs a package; what is backed up is an installation.
TaskIsSound ==
  /\ task.at \notin {"none", "rm"} => Len(history) < MaxHistory
  /\ task.at \notin {"none", "rm", "item"} /\ task.cmd # "rollback" =>
       pluginReceipts < MaxReceipts /\ task.package \in Packages
  /\ task.at \in BackupSteps =>
       task.cmd = "upgrade" /\ task.backup \in Directories /\ installed \in Receipt
  /\ task.at \in {"backupRegistration", "meta"} => saved[task.backup].receipt \in Receipt
  /\ task.at = "none" => task.cmd # "rollback"

\* How far a rollback is: what it has passed is as the backup has it.
RollbackSoFar ==
  task.cmd = "rollback" =>
    /\ task.backup \in Directories /\ saved[task.backup].receipt \in Receipt
    /\ task.at \in {"assets", "receipt", "registration", "host", "remove", "add", "item"}
    /\ task.at = "assets" =>
         \A f \in AssetFiles \ task.left : assets[f] = saved[task.backup].assets[f]
    /\ task.at # "assets" => assets = saved[task.backup].assets
    /\ task.at \notin {"assets", "receipt"} => installed = saved[task.backup].receipt
    /\ task.at \notin {"assets", "receipt", "registration"} =>
         registration = saved[task.backup].registration
    /\ task.at = "item" => host \in {installed.package, Foreign}

PluginInv ==
  /\ PluginTypes /\ TaskIsSound /\ RollbackSoFar /\ RolledBackAgrees
  /\ outcome.kind = "rolled back" => PluginIdle

LEMMA RestingIsATask == Resting \in Tasks /\ Resting.at = "none" /\ Resting.cmd = "none"
BY DEF Resting, Tasks, PluginSteps, Backups

LEMMA TaskMoves ==
  ASSUME NEW t \in Tasks, NEW a \in PluginSteps, NEW k, k = [t EXCEPT !.at = a]
  PROVE  /\ k \in Tasks /\ k.at = a /\ k.cmd = t.cmd /\ k.package = t.package
         /\ k.left = t.left /\ k.backup = t.backup /\ k.from = t.from
BY DEF Tasks

LEMMA BackupIsNamed ==
  ASSUME NEW r \in Receipt
  PROVE  BackupId(r) \in Directories /\ r.package \in Packages
<1>1. r.package \in Packages /\ r.id \in 0..MaxReceipts
  BY PluginAssumption DEF Receipt
<1> QED BY <1>1 DEF BackupId, Directories

LEMMA NoBackupIsASave == NoBackup \in Saves
BY DEF NoBackup, Saves, Assets

LEMMA PluginInvInitially == PluginInit => PluginInv
<1> SUFFICES ASSUME PluginInit PROVE PluginInv
  OBVIOUS
<1>1. history \in Seq(HistoryItems) /\ Len(history) = 0
  BY EmptySeq DEF PluginInit
<1>2. /\ assets \in Assets /\ saved \in [Directories -> Saves]
      /\ pluginReceipts \in 0..MaxReceipts /\ pluginFaults \in 0..MaxPluginFaults
      /\ 0 <= MaxHistory
  BY PluginAssumption, NoBackupIsASave DEF PluginInit, Assets
<1>3. PluginTypes
  BY <1>1, <1>2, RestingIsATask DEF PluginInit, PluginTypes
<1>4. task.at = "none" /\ task.cmd = "none" /\ outcome.kind # "rolled back"
  BY RestingIsATask DEF PluginInit, NoOutcome
<1> QED BY <1>3, <1>4 DEF PluginInv, TaskIsSound, BackupSteps, RollbackSoFar, RolledBackAgrees

LEMMA InstallStarts ==
  ASSUME NEW cmd \in {"install", "repair", "upgrade"}, NEW p \in Packages, NEW replace \in BOOLEAN,
         NEW d \in Backups, NEW from \in Receipt \cup {Missing},
         StartInstall(cmd, p, replace, d, from)
  PROVE  /\ task' \in Tasks /\ task'.at \in {"none", "item", "assets"} /\ task'.cmd = cmd
         /\ task'.package = p /\ outcome'.kind # "rolled back"
<1>1. CASE UpToDate(p)
  <2> DEFINE a == IF cmd = "upgrade" THEN "item" ELSE "none"
  <2>0. /\ task' = [Resting EXCEPT !.at = a, !.cmd = cmd, !.package = p, !.backup = d, !.from = from]
        /\ outcome' = [kind |-> "unchanged", backup |-> Missing]
    BY <1>1, Zenon DEF StartInstall
  <2>1. /\ task' = [at |-> a, cmd |-> cmd, package |-> p, replace |-> FALSE, left |-> {},
                    backup |-> d, from |-> from]
        /\ outcome'.kind = "unchanged"
    BY <2>0 DEF Resting
  <2>2. a \in PluginSteps /\ a \in {"none", "item"}
    BY DEF PluginSteps, BackupSteps
  <2> HIDE DEF a
  <2> QED BY <2>1, <2>2 DEF Tasks
<1>2. CASE ~UpToDate(p)
  <2>0. /\ task' = [Resting EXCEPT !.at = "assets", !.cmd = cmd, !.package = p, !.replace = replace,
                       !.left = AssetFiles, !.backup = d, !.from = from]
        /\ outcome' = NoOutcome
    BY <1>2, Zenon DEF StartInstall
  <2>1. /\ task' = [at |-> "assets", cmd |-> cmd, package |-> p, replace |-> replace,
                    left |-> AssetFiles, backup |-> d, from |-> from]
        /\ outcome'.kind = "none"
    BY <2>0 DEF Resting, NoOutcome
  <2>2. "assets" \in PluginSteps
    BY DEF PluginSteps, BackupSteps
  <2> QED BY <2>1, <2>2 DEF Tasks
<1> QED BY <1>1, <1>2

LEMMA PluginBounds == MaxReceipts \in Nat /\ MaxHistory \in Nat /\ MaxPluginFaults \in Nat
BY PluginAssumption

LEMMA TypesOfPlugin ==
  ASSUME PluginInv
  PROVE  /\ assets \in Assets /\ registration \in Packages \cup {Missing}
         /\ host \in Packages \cup {Missing, Foreign} /\ installed \in Receipt \cup {Missing}
         /\ saved \in [Directories -> Saves] /\ history \in Seq(HistoryItems)
         /\ task \in Tasks /\ pluginReceipts \in 0..MaxReceipts
         /\ pluginFaults \in 0..MaxPluginFaults /\ Len(history) <= MaxHistory
         /\ task.left \subseteq AssetFiles /\ task.backup \in Backups
         /\ task.package \in Packages \cup {Missing} /\ task.from \in Receipt \cup {Missing}
         /\ task.at # "none" => outcome.kind # "rolled back"
BY DEF PluginInv, PluginTypes, Tasks, PluginIdle

\* The commands, before any step of theirs.
LEMMA CommandsStart ==
  ASSUME PluginInv,
         InstallPlugin \/ RepairPlugin \/ UpgradePlugin \/ RollbackPlugin \/ UninstallPlugin
  PROVE  PluginInv'
<1> USE TypesOfPlugin
<1>1. ASSUME NEW cmd \in {"install", "repair", "upgrade"}, NEW p \in Packages, NEW replace \in BOOLEAN,
             NEW from \in Receipt \cup {Missing}, CanWriteReceipt, PluginIdle,
             StartInstall(cmd, p, replace, Missing, from),
             UNCHANGED <<home, host, pluginReceipts, pluginFaults>>
      PROVE  PluginInv'
  <2>1. /\ task' \in Tasks /\ task'.at \in {"none", "item", "assets"} /\ task'.cmd = cmd
        /\ task'.package = p /\ outcome'.kind # "rolled back"
    <3>1. Missing \in Backups
      BY DEF Backups
    <3> QED BY <1>1, <3>1, InstallStarts
  <2>2. PluginTypes'
    BY <1>1, <2>1 DEF home, PluginTypes
  <2>3. TaskIsSound'
    BY <1>1, <2>1 DEF home, TaskIsSound, BackupSteps, CanWriteReceipt
  <2> QED BY <2>1, <2>2, <2>3 DEF PluginInv, RollbackSoFar, RolledBackAgrees
<1>2. CASE InstallPlugin
  <2>1. /\ PluginIdle /\ CanWriteReceipt /\ UNCHANGED <<home, host, pluginReceipts, pluginFaults>>
        /\ \E p \in Packages, replace \in BOOLEAN : StartInstall("install", p, replace, Missing, Missing)
    BY <1>2 DEF InstallPlugin
  <2> QED BY <1>1, <2>1
<1>3. CASE RepairPlugin
  <2>1. /\ PluginIdle /\ CanWriteReceipt /\ UNCHANGED <<home, host, pluginReceipts, pluginFaults>>
        /\ \E p \in Packages : StartInstall("repair", p, TRUE, Missing, Missing)
    BY <1>3 DEF RepairPlugin
  <2> QED BY <1>1, <2>1
<1>4. CASE UpgradePlugin
  <2>1. /\ PluginIdle /\ CanWriteReceipt /\ UNCHANGED <<home, host, pluginReceipts, pluginFaults>>
    BY <1>4 DEF UpgradePlugin
  <2> PICK p \in Packages :
         IF installed # Missing /\ installed.package # p
         THEN /\ task' = [Resting EXCEPT !.at = "backup", !.cmd = "upgrade", !.package = p,
                            !.left = AssetFiles, !.backup = BackupId(installed), !.from = installed]
              /\ outcome' = NoOutcome
         ELSE StartInstall("upgrade", p, TRUE, Missing, installed)
    BY <1>4 DEF UpgradePlugin
  <2>2. CASE installed # Missing /\ installed.package # p
    <3>1. installed \in Receipt /\ BackupId(installed) \in Directories
      BY <2>2, BackupIsNamed
    <3>0. /\ task' = [Resting EXCEPT !.at = "backup", !.cmd = "upgrade", !.package = p,
                         !.left = AssetFiles, !.backup = BackupId(installed), !.from = installed]
          /\ outcome' = NoOutcome
      BY <2>2, Zenon
    <3>2. task' = [at |-> "backup", cmd |-> "upgrade", package |-> p, replace |-> FALSE,
                   left |-> AssetFiles, backup |-> BackupId(installed), from |-> installed]
      BY <3>0 DEF Resting
    <3>3. "backup" \in PluginSteps /\ outcome'.kind = "none"
      BY <3>0 DEF PluginSteps, BackupSteps, NoOutcome
    <3>4. task' \in Tasks
      BY <3>1, <3>2, <3>3 DEF Tasks, Backups
    <3>5. PluginTypes'
      BY <2>1, <3>4 DEF home, PluginTypes
    <3>6. TaskIsSound'
      BY <2>1, <3>1, <3>2 DEF home, TaskIsSound, BackupSteps, CanWriteReceipt
    <3> QED BY <3>2, <3>3, <3>5, <3>6 DEF PluginInv, RollbackSoFar, RolledBackAgrees
  <2>3. CASE ~(installed # Missing /\ installed.package # p)
    BY <1>1, <2>1, <2>3
  <2> QED BY <2>2, <2>3
<1>5. CASE RollbackPlugin
  <2>1. /\ PluginIdle /\ Len(history) < MaxHistory /\ outcome' = NoOutcome
        /\ UNCHANGED <<home, host, pluginReceipts, pluginFaults>>
    BY <1>5 DEF RollbackPlugin
  <2> PICK i \in DOMAIN history :
         /\ history[i].backup # Missing
         /\ saved[history[i].backup].meta
         /\ task' = [Resting EXCEPT !.at = "assets", !.cmd = "rollback", !.replace = TRUE,
                       !.left = AssetFiles, !.backup = history[i].backup,
                       !.from = history[i].receipt, !.package = history[i].to]
    BY <1>5 DEF RollbackPlugin
  <2>2. history[i] \in HistoryItems
    BY ElementOfSeq, LenProperties
  <2> PICK h \in HistoryItems : h = history[i]
    BY <2>2
  <2>3. h.backup \in Directories /\ h.receipt \in Receipt \cup {Missing} /\ h.to \in Packages \cup {Missing}
    BY DEF HistoryItems, Backups
  <2>4. saved[h.backup].receipt \in Receipt
    BY <2>3 DEF Saves
  <2>5. task' = [at |-> "assets", cmd |-> "rollback", package |-> h.to, replace |-> TRUE,
                 left |-> AssetFiles, backup |-> h.backup, from |-> h.receipt]
    BY DEF Resting
  <2>6. "assets" \in PluginSteps /\ h.backup \in Backups
    BY <2>3 DEF PluginSteps, BackupSteps, Backups
  <2>7. task' \in Tasks
    BY <2>3, <2>5, <2>6 DEF Tasks
  <2>8. PluginTypes'
    BY <2>1, <2>7 DEF home, PluginTypes
  <2>9. TaskIsSound'
    <3>1. task'.at = "assets" /\ task'.cmd = "rollback" /\ Len(history') < MaxHistory
      BY <2>1, <2>5 DEF home
    <3> QED BY <3>1 DEF TaskIsSound, BackupSteps
  <2>10. RollbackSoFar'
    <3>1. task'.at = "assets" /\ task'.left = AssetFiles /\ task'.backup = h.backup /\ saved' = saved
      BY <2>1, <2>5 DEF home
    <3> QED BY <2>3, <2>4, <3>1 DEF RollbackSoFar
  <2> QED BY <2>1, <2>8, <2>9, <2>10 DEF PluginInv, RolledBackAgrees, NoOutcome
<1>6. CASE UninstallPlugin
  <2>1. /\ PluginIdle /\ outcome' = NoOutcome /\ UNCHANGED <<home, pluginReceipts, pluginFaults>>
        /\ host' \in {host, Missing}
        /\ UNCHANGED task \/ task' = [Resting EXCEPT !.at = "rm", !.cmd = "uninstall"]
    BY <1>6 DEF UninstallPlugin
  <2>2. task' \in Tasks /\ task'.at \in {"none", "rm"} /\ task'.cmd # "rollback"
    <3>1. CASE UNCHANGED task
      BY <2>1, <3>1 DEF PluginIdle, PluginInv, TaskIsSound, BackupSteps
    <3>2. CASE task' = [Resting EXCEPT !.at = "rm", !.cmd = "uninstall"]
      <4>1. task' = [at |-> "rm", cmd |-> "uninstall", package |-> Missing, replace |-> FALSE,
                     left |-> {}, backup |-> Missing, from |-> Missing]
        BY <3>2 DEF Resting
      <4>2. "rm" \in PluginSteps /\ Missing \in Backups
        BY DEF PluginSteps, BackupSteps, Backups
      <4> QED BY <4>1, <4>2 DEF Tasks
    <3> QED BY <2>1, <3>1, <3>2
  <2>3. PluginTypes'
    BY <2>1, <2>2 DEF home, PluginTypes
  <2>4. TaskIsSound'
    BY <2>1, <2>2 DEF home, TaskIsSound, BackupSteps
  <2> QED BY <2>1, <2>2, <2>3, <2>4 DEF PluginInv, RollbackSoFar, RolledBackAgrees, NoOutcome
<1> QED BY <1>2, <1>3, <1>4, <1>5, <1>6
\* The steps before an install, the ends that leave no rollback, and what goes wrong.
LEMMA OtherPluginSteps ==
  ASSUME PluginInv,
         \/ BackupAsset \/ BackupReceipt \/ BackupRegistration \/ WriteBackupMeta
         \/ WritePluginReceipt \/ RemoveHome \/ StopPlugin \/ OtherRegisters
  PROVE  PluginInv'
<1>0. /\ assets \in Assets /\ registration \in Packages \cup {Missing}
      /\ host \in Packages \cup {Missing, Foreign} /\ installed \in Receipt \cup {Missing}
      /\ saved \in [Directories -> Saves] /\ history \in Seq(HistoryItems)
      /\ task \in Tasks /\ task.left \subseteq AssetFiles /\ task.backup \in Backups
      /\ task.package \in Packages \cup {Missing} /\ task.from \in Receipt \cup {Missing}
      /\ task.at # "none" => outcome.kind # "rolled back"
  BY TypesOfPlugin
<1>t. task \in Tasks
  BY TypesOfPlugin
<1>n. /\ pluginReceipts \in 0..MaxReceipts /\ pluginFaults \in 0..MaxPluginFaults
      /\ Len(history) <= MaxHistory /\ Len(history) \in Nat
      /\ MaxReceipts \in Nat /\ MaxPluginFaults \in Nat /\ MaxHistory \in Nat
  BY TypesOfPlugin, PluginBounds, LenProperties
\* Something of the installation is copied into the backup.
<1>1. ASSUME task.at \in BackupSteps \ {"meta"}, task' \in Tasks, task'.at \in BackupSteps,
             task'.cmd = task.cmd, task'.package = task.package, task'.backup = task.backup,
             NEW new \in Saves, saved' = [saved EXCEPT ![task.backup] = new],
             task'.at \in {"backupRegistration", "meta"} => new.receipt \in Receipt,
             UNCHANGED <<assets, registration, installed, history, host, outcome,
                         pluginReceipts, pluginFaults>>
      PROVE  PluginInv'
  <2>1. task.cmd = "upgrade" /\ task.backup \in Directories /\ installed \in Receipt
    BY <1>1 DEF PluginInv, TaskIsSound, BackupSteps
  <2>2. saved' \in [Directories -> Saves] /\ saved'[task.backup] = new
    BY <1>0, <1>1, <2>1
  <2>3. PluginTypes'
    BY <1>0, <1>n, <1>1, <2>2 DEF PluginTypes
  <2>4. TaskIsSound'
    BY <1>1, <2>1, <2>2 DEF PluginInv, TaskIsSound, BackupSteps
  <2>5. outcome'.kind # "rolled back"
    BY <1>0, <1>1 DEF BackupSteps
  <2> QED BY <1>1, <2>1, <2>3, <2>4, <2>5 DEF PluginInv, RollbackSoFar, RolledBackAgrees
<1>b. task.at \in BackupSteps => task.backup \in Directories /\ saved[task.backup] \in Saves
                                /\ installed \in Receipt
  BY <1>0 DEF PluginInv, TaskIsSound, BackupSteps
<1>7. CASE BackupAsset
  <2> PICK f \in task.left :
         /\ saved' = [saved EXCEPT ![task.backup].assets[f] = assets[f]]
         /\ task' = [task EXCEPT !.left = @ \ {f},
                       !.at = IF task.left = {f} THEN "backupReceipt" ELSE @]
    BY <1>7 DEF BackupAsset
  <2>1. /\ task.at = "backup"
        /\ UNCHANGED <<assets, registration, installed, history, host, outcome,
                       pluginReceipts, pluginFaults>>
    BY <1>7 DEF BackupAsset
  <2> DEFINE old == saved[task.backup]
             new == [old EXCEPT !.assets = [old.assets EXCEPT ![f] = assets[f]]]
             a == IF task.left = {f} THEN "backupReceipt" ELSE "backup"
  <2>2. old \in Saves
    BY <1>b, <2>1 DEF BackupSteps
  <2>3. saved' = [saved EXCEPT ![task.backup] = new]
    BY <1>0, <1>b, <2>1 DEF BackupSteps
  <2>4. new \in Saves
    BY <1>0, <2>2 DEF Saves, Assets
  <2>5. task' = [task EXCEPT !.at = a, !.left = task.left \ {f}]
    BY <2>1 DEF Tasks
  <2>6. a \in {"backup", "backupReceipt"} /\ a \in BackupSteps /\ a \in PluginSteps
    BY DEF BackupSteps, PluginSteps
  <2> HIDE DEF a, new
  <2>7. /\ task' \in Tasks /\ task'.at = a /\ task'.cmd = task.cmd
        /\ task'.package = task.package /\ task'.backup = task.backup
    BY <1>0, <2>5, <2>6 DEF Tasks
  <2> QED BY <1>1, <2>1, <2>3, <2>4, <2>6, <2>7 DEF BackupSteps
<1>8. CASE BackupReceipt
  <2> DEFINE new == [saved[task.backup] EXCEPT !.receipt = installed]
  <2>1. /\ task.at = "backupReceipt" /\ PluginGoes("backupRegistration")
        /\ saved' = [saved EXCEPT ![task.backup] = new]
        /\ UNCHANGED <<assets, registration, installed, history, host, outcome,
                       pluginReceipts, pluginFaults>>
    BY <1>8 DEF BackupReceipt
  <2>2. new \in Saves /\ new.receipt \in Receipt
    BY <1>b, <2>1 DEF BackupSteps, Saves
  <2>3. /\ task' \in Tasks /\ task'.at = "backupRegistration" /\ task'.cmd = task.cmd
        /\ task'.package = task.package /\ task'.backup = task.backup
    <3>1. "backupRegistration" \in PluginSteps
      BY DEF PluginSteps, BackupSteps
    <3>2. task' = [task EXCEPT !.at = "backupRegistration"]
      BY <2>1 DEF PluginGoes
    <3> QED BY <1>t, <3>1, <3>2, TaskMoves
  <2> HIDE DEF new
  <2> QED BY <1>1, <2>1, <2>2, <2>3 DEF BackupSteps
<1>9. CASE BackupRegistration
  <2> DEFINE new == [saved[task.backup] EXCEPT !.registration = registration]
  <2>1. /\ task.at = "backupRegistration" /\ PluginGoes("meta")
        /\ saved' = [saved EXCEPT ![task.backup] = new]
        /\ UNCHANGED <<assets, registration, installed, history, host, outcome,
                       pluginReceipts, pluginFaults>>
    BY <1>9 DEF BackupRegistration
  <2>2. saved[task.backup].receipt \in Receipt
    BY <2>1 DEF PluginInv, TaskIsSound, BackupSteps
  <2>3. new \in Saves /\ new.receipt \in Receipt
    BY <1>0, <1>b, <2>1, <2>2 DEF BackupSteps, Saves
  <2>4. /\ task' \in Tasks /\ task'.at = "meta" /\ task'.cmd = task.cmd
        /\ task'.package = task.package /\ task'.backup = task.backup
    <3>1. "meta" \in PluginSteps
      BY DEF PluginSteps, BackupSteps
    <3>2. task' = [task EXCEPT !.at = "meta"]
      BY <2>1 DEF PluginGoes
    <3> QED BY <1>t, <3>1, <3>2, TaskMoves
  <2> HIDE DEF new
  <2> QED BY <1>1, <2>1, <2>3, <2>4 DEF BackupSteps
<1>2. CASE WriteBackupMeta
  <2> DEFINE b == task.backup
             new == [saved[b] EXCEPT !.meta = TRUE]
  <2>1. /\ task.at = "meta" /\ saved' = [saved EXCEPT ![b] = new]
        /\ StartInstall("upgrade", task.package, TRUE, b, task.from)
        /\ UNCHANGED <<assets, registration, installed, history, host, pluginReceipts, pluginFaults>>
    BY <1>2 DEF WriteBackupMeta
  <2>2. /\ task.cmd = "upgrade" /\ b \in Directories /\ installed \in Receipt
        /\ saved[b] \in Saves /\ saved[b].receipt \in Receipt
        /\ task.package \in Packages /\ pluginReceipts < MaxReceipts /\ Len(history) < MaxHistory
    BY <1>b, <2>1 DEF PluginInv, TaskIsSound, BackupSteps
  <2>3. new \in Saves
    BY <2>2 DEF Saves
  <2> HIDE DEF new
  <2>4. saved' \in [Directories -> Saves]
    BY <1>0, <2>1, <2>2, <2>3
  <2>5. /\ task' \in Tasks /\ task'.at \in {"none", "item", "assets"} /\ task'.cmd = "upgrade"
        /\ task'.package = task.package /\ outcome'.kind # "rolled back"
    BY <1>0, <2>1, <2>2, InstallStarts
  <2>6. PluginTypes'
    BY <1>0, <1>n, <2>1, <2>4, <2>5 DEF PluginTypes
  <2>7. TaskIsSound'
    BY <2>1, <2>2, <2>5 DEF TaskIsSound, BackupSteps
  <2> QED BY <2>5, <2>6, <2>7 DEF PluginInv, RollbackSoFar, RolledBackAgrees
<1>3. CASE WritePluginReceipt
  <2>1. /\ task.at = "receipt" /\ task.cmd # "rollback" /\ pluginReceipts' = pluginReceipts + 1
        /\ installed' = [package |-> task.package, id |-> pluginReceipts + 1]
        /\ UNCHANGED <<assets, registration, saved, history, host, pluginFaults>>
        /\ \/ PluginGoes("item") /\ UNCHANGED outcome
           \/ task' = Resting /\ outcome' = [kind |-> "installed", backup |-> Missing]
    BY <1>3 DEF WritePluginReceipt
  <2>2. task.package \in Packages /\ pluginReceipts < MaxReceipts /\ Len(history) < MaxHistory
    BY <2>1 DEF PluginInv, TaskIsSound, BackupSteps
  <2>3. pluginReceipts' \in 1..MaxReceipts /\ pluginReceipts' \in 0..MaxReceipts
    BY <2>1, <2>2, <1>n
  <2>4. installed' \in Receipt
    BY <2>1, <2>2, <2>3 DEF Receipt
  <2>5. /\ task' \in Tasks /\ task'.at \in {"none", "item"} /\ task'.cmd # "rollback"
        /\ outcome'.kind # "rolled back"
    <3>1. "item" \in PluginSteps
      BY DEF PluginSteps, BackupSteps
    <3>2. CASE PluginGoes("item") /\ UNCHANGED outcome
      <4>1. task' = [task EXCEPT !.at = "item"]
        BY <3>2 DEF PluginGoes
      <4>2. task' \in Tasks /\ task'.at = "item" /\ task'.cmd = task.cmd
        BY <1>t, <3>1, <4>1, TaskMoves
      <4> QED BY <1>0, <2>1, <3>2, <4>2
    <3>3. CASE task' = Resting /\ outcome' = [kind |-> "installed", backup |-> Missing]
      BY <3>3, RestingIsATask
    <3> QED BY <2>1, <3>2, <3>3
  <2>6. PluginTypes'
    BY <1>0, <1>n, <2>1, <2>3, <2>4, <2>5 DEF PluginTypes
  <2>7. TaskIsSound'
    BY <2>1, <2>2, <2>5 DEF TaskIsSound, BackupSteps
  <2> QED BY <2>5, <2>6, <2>7 DEF PluginInv, RollbackSoFar, RolledBackAgrees
<1>4. CASE RemoveHome
  <2>1. /\ assets' = [f \in AssetFiles |-> Missing] /\ registration' = Missing /\ installed' = Missing
        /\ saved' = [d \in Directories |-> NoBackup] /\ history' = <<>>
        /\ task' = Resting /\ outcome'.kind # "rolled back"
        /\ UNCHANGED <<host, pluginReceipts, pluginFaults>>
    BY <1>4 DEF RemoveHome
  <2>2. history' \in Seq(HistoryItems) /\ Len(history') <= MaxHistory
    <3>1. <<>> \in Seq(HistoryItems) /\ Len(<<>>) = 0
      BY EmptySeq
    <3>2. history' = <<>>
      BY <2>1
    <3>3. 0 <= MaxHistory
      BY PluginBounds
    <3> QED BY <3>1, <3>2, <3>3
  <2>3. assets' \in Assets /\ saved' \in [Directories -> Saves]
    BY <2>1, NoBackupIsASave DEF Assets
  <2>4. PluginTypes'
    BY <1>0, <1>n, <2>1, <2>2, <2>3, RestingIsATask DEF PluginTypes
  <2> QED BY <2>1, <2>4, RestingIsATask DEF PluginInv, TaskIsSound, BackupSteps, RollbackSoFar, RolledBackAgrees
<1>5. CASE StopPlugin
  <2>1. /\ task.at # "none" /\ task' = Resting /\ pluginFaults' \in 0..MaxPluginFaults
        /\ UNCHANGED <<home, host, outcome, pluginReceipts>>
    BY <1>5, <1>n DEF StopPlugin, PluginIdle
  <2>2. PluginTypes'
    BY <1>0, <1>n, <2>1, RestingIsATask DEF home, PluginTypes
  <2> QED BY <1>0, <2>1, <2>2, RestingIsATask DEF PluginInv, TaskIsSound, BackupSteps, RollbackSoFar, RolledBackAgrees
<1>6. CASE OtherRegisters
  <2>1. /\ host' = Foreign /\ outcome' = NoOutcome /\ pluginFaults' \in 0..MaxPluginFaults
        /\ UNCHANGED <<home, task, pluginReceipts>>
    BY <1>6, <1>n DEF OtherRegisters
  <2>2. PluginTypes' /\ TaskIsSound'
    BY <2>1 DEF home, PluginInv, PluginTypes, TaskIsSound, BackupSteps
  <2>3. RollbackSoFar'
    BY <2>1 DEF home, PluginInv, RollbackSoFar
  <2> QED BY <2>1, <2>2, <2>3 DEF PluginInv, RolledBackAgrees, NoOutcome
<1> QED BY <1>2, <1>3, <1>4, <1>5, <1>6, <1>7, <1>8, <1>9

\* The steps that an install and a rollback share, and the last one of a rollback.
LEMMA SharedSteps ==
  ASSUME PluginInv,
         \/ CopyAsset \/ WriteRegistration \/ InspectHost \/ RemoveFromHost \/ AddToHost
         \/ RestoreReceipt \/ WriteHistory
  PROVE  PluginInv'
<1>0. /\ assets \in Assets /\ registration \in Packages \cup {Missing}
      /\ host \in Packages \cup {Missing, Foreign} /\ installed \in Receipt \cup {Missing}
      /\ saved \in [Directories -> Saves] /\ history \in Seq(HistoryItems)
      /\ task \in Tasks /\ task.left \subseteq AssetFiles /\ task.backup \in Backups
      /\ task.package \in Packages \cup {Missing} /\ task.from \in Receipt \cup {Missing}
      /\ task.at # "none" => outcome.kind # "rolled back"
  BY TypesOfPlugin
<1>t. task \in Tasks
  BY TypesOfPlugin
<1>n. /\ pluginReceipts \in 0..MaxReceipts /\ pluginFaults \in 0..MaxPluginFaults
      /\ Len(history) <= MaxHistory /\ Len(history) \in Nat
      /\ MaxReceipts \in Nat /\ MaxPluginFaults \in Nat /\ MaxHistory \in Nat
  BY TypesOfPlugin, PluginBounds, LenProperties
<1> DEFINE b == task.backup
\* A step that fails, with everything of the installation as it is but perhaps the host.
<1>1. ASSUME task.at \notin {"none", "rm"}, Fails, host' \in Packages \cup {Missing, Foreign},
             UNCHANGED <<home, outcome, pluginReceipts, pluginFaults>>
      PROVE  PluginInv'
  <2>1. PluginTypes'
    BY <1>0, <1>n, <1>1, RestingIsATask DEF home, PluginTypes, Fails
  <2> QED BY <1>0, <1>1, <2>1, RestingIsATask DEF Fails, PluginInv, TaskIsSound, BackupSteps, RollbackSoFar, RolledBackAgrees
\* A step that goes on.
<1>2. ASSUME NEW a \in PluginSteps, PluginGoes(a)
      PROVE  /\ task' \in Tasks /\ task'.at = a /\ task'.cmd = task.cmd /\ task'.package = task.package
             /\ task'.backup = b /\ task'.left = task.left
  <2>1. task' = [task EXCEPT !.at = a]
    BY <1>2 DEF PluginGoes
  <2> QED BY <1>t, <1>2, <2>1, TaskMoves
<1>3. {"host", "item", "receipt", "remove", "add", "registration"} \subseteq PluginSteps
  BY DEF PluginSteps, BackupSteps
<1>4. ASSUME task.at \in {"host", "remove", "add"}, host' \in Packages \cup {Missing, Foreign},
             NEW a \in {"remove", "add", "item", "receipt"}, PluginGoes(a),
             a = "item" => task.cmd = "rollback" /\ host' = installed.package,
             a = "receipt" => task.cmd # "rollback",
             UNCHANGED <<home, outcome, pluginReceipts, pluginFaults>>
      PROVE  PluginInv'
  <2>1. /\ task' \in Tasks /\ task'.at = a /\ task'.cmd = task.cmd /\ task'.package = task.package
        /\ task'.backup = b
    BY <1>2, <1>3, <1>4
  <2>2. PluginTypes'
    BY <1>0, <1>n, <1>4, <2>1 DEF home, PluginTypes
  <2>3. TaskIsSound'
    BY <1>4, <2>1 DEF home, PluginInv, TaskIsSound, BackupSteps
  <2>4. RollbackSoFar'
    BY <1>4, <2>1 DEF home, PluginInv, RollbackSoFar
  <2>5. outcome'.kind # "rolled back"
    BY <1>0, <1>4
  <2> QED BY <2>2, <2>3, <2>4, <2>5 DEF PluginInv, RolledBackAgrees
\* The host is asked for a package.
<1>5. ASSUME task.at \in {"host", "remove", "add"}
      PROVE  /\ Wanted \in Packages
             /\ task.cmd = "rollback" => Wanted = installed.package /\ HostDone = "item"
             /\ task.cmd # "rollback" => HostDone = "receipt"
  <2>1. CASE task.cmd = "rollback"
    <3>1. installed \in Receipt
      BY <1>5, <2>1 DEF PluginInv, RollbackSoFar, Saves
    <3> QED BY <2>1, <3>1, BackupIsNamed DEF Wanted, HostDone
  <2>2. CASE task.cmd # "rollback"
    BY <1>5, <2>2 DEF PluginInv, TaskIsSound, BackupSteps, Wanted, HostDone
  <2> QED BY <2>1, <2>2
<1>6. CASE CopyAsset
  <2> PICK f \in task.left :
         /\ assets' = [assets EXCEPT ![f] = IF task.cmd = "rollback" THEN saved[task.backup].assets[f]
                                            ELSE task.package]
         /\ task' = [task EXCEPT !.left = @ \ {f},
                       !.at = IF task.left # {f} THEN @
                              ELSE IF task.cmd = "rollback" THEN "receipt" ELSE "registration"]
    BY <1>6 DEF CopyAsset
  <2>1. /\ task.at = "assets"
        /\ UNCHANGED <<registration, installed, saved, history, host, outcome, pluginReceipts, pluginFaults>>
    BY <1>6 DEF CopyAsset
  <2> DEFINE a == IF task.left # {f} THEN "assets"
                  ELSE IF task.cmd = "rollback" THEN "receipt" ELSE "registration"
  <2>2. task' = [task EXCEPT !.at = a, !.left = task.left \ {f}]
    BY <2>1 DEF Tasks
  <2>3. a \in PluginSteps /\ task.left \ {f} \subseteq AssetFiles
    BY <1>0 DEF PluginSteps, BackupSteps
  <2>4. /\ task' \in Tasks /\ task'.at = a /\ task'.cmd = task.cmd /\ task'.package = task.package
        /\ task'.backup = b /\ task'.left = task.left \ {f}
    <3> HIDE DEF a
    <3> QED BY <1>0, <2>2, <2>3 DEF Tasks
  <2>5. CASE task.cmd = "rollback"
    <3>1. /\ b \in Directories /\ saved[b].receipt \in Receipt /\ saved[b].assets \in Assets
          /\ \A g \in AssetFiles \ task.left : assets[g] = saved[b].assets[g]
      <4>1. /\ b \in Directories /\ saved[b].receipt \in Receipt
            /\ \A g \in AssetFiles \ task.left : assets[g] = saved[b].assets[g]
        BY <2>1, <2>5 DEF PluginInv, RollbackSoFar
      <4> QED BY <1>0, <4>1 DEF Saves
    <3>2. assets' \in Assets /\ \A g \in AssetFiles \ (task.left \ {f}) : assets'[g] = saved[b].assets[g]
      BY <1>0, <2>5, <3>1 DEF Assets
    <3>3. a = "receipt" => assets' = saved[b].assets
      BY <3>1, <3>2 DEF Assets
    <3>4. a \in {"assets", "receipt"}
      BY <2>5
    <3> HIDE DEF a
    <3>5. PluginTypes'
      BY <1>0, <1>n, <2>1, <2>4, <3>2 DEF PluginTypes
    <3>6. TaskIsSound'
      BY <2>1, <2>4, <2>5, <3>4 DEF PluginInv, TaskIsSound, BackupSteps
    <3>7. RollbackSoFar'
      BY <2>1, <2>4, <2>5, <3>1, <3>2, <3>3, <3>4 DEF RollbackSoFar
    <3> QED BY <1>0, <2>1, <3>5, <3>6, <3>7 DEF PluginInv, RolledBackAgrees
  <2>6. CASE task.cmd # "rollback"
    <3>1. task.package \in Packages /\ pluginReceipts < MaxReceipts /\ Len(history) < MaxHistory
      BY <2>1, <2>6 DEF PluginInv, TaskIsSound, BackupSteps
    <3>2. assets' \in Assets
      BY <1>0, <2>6, <3>1 DEF Assets
    <3>3. a \in {"assets", "registration"}
      BY <2>6
    <3> HIDE DEF a
    <3>4. PluginTypes'
      BY <1>0, <1>n, <2>1, <2>4, <3>2 DEF PluginTypes
    <3>5. TaskIsSound'
      BY <2>1, <2>4, <2>6, <3>1, <3>3 DEF TaskIsSound, BackupSteps
    <3> QED BY <1>0, <2>1, <2>4, <2>6, <3>4, <3>5 DEF PluginInv, RollbackSoFar, RolledBackAgrees
  <2> QED BY <2>5, <2>6
<1>7. CASE WriteRegistration
  <2>1. /\ task.at = "registration" /\ PluginGoes("host")
        /\ registration' = IF task.cmd = "rollback" THEN saved[b].registration ELSE task.package
        /\ UNCHANGED <<assets, installed, saved, history, host, outcome, pluginReceipts, pluginFaults>>
    BY <1>7 DEF WriteRegistration
  <2>2. registration' \in Packages \cup {Missing}
    <3>1. CASE task.cmd = "rollback"
      <4>1. b \in Directories
        BY <3>1 DEF PluginInv, RollbackSoFar
      <4> QED BY <1>0, <2>1, <3>1, <4>1 DEF Saves
    <3> QED BY <1>0, <2>1, <3>1
  <2>3. /\ task' \in Tasks /\ task'.at = "host" /\ task'.cmd = task.cmd /\ task'.package = task.package
        /\ task'.backup = b
    BY <1>2, <1>3, <2>1
  <2>4. PluginTypes'
    BY <1>0, <1>n, <2>1, <2>2, <2>3 DEF PluginTypes
  <2>5. TaskIsSound'
    BY <2>1, <2>3 DEF PluginInv, TaskIsSound, BackupSteps
  <2>6. RollbackSoFar'
    BY <2>1, <2>3 DEF PluginInv, RollbackSoFar
  <2> QED BY <1>0, <2>1, <2>4, <2>5, <2>6 DEF PluginInv, RolledBackAgrees
<1>8. CASE InspectHost
  <2>1. task.at = "host" /\ UNCHANGED <<home, host, outcome, pluginReceipts, pluginFaults>>
    BY <1>8 DEF InspectHost
  <2>2. CASE Fails
    BY <1>0, <1>1, <2>1, <2>2
  <2>3. CASE PluginGoes("remove") \/ PluginGoes("add")
    BY <1>0, <1>4, <2>1, <2>3
  <2>4. CASE host = Wanted /\ PluginGoes(HostDone)
    <3>1. CASE task.cmd = "rollback"
      BY <1>4, <1>5, <2>1, <2>4, <3>1
    <3>2. CASE task.cmd # "rollback"
      BY <1>4, <1>5, <2>1, <2>4, <3>2
    <3> QED BY <3>1, <3>2
  <2> QED BY <1>8, <2>2, <2>3, <2>4 DEF InspectHost
<1>9. CASE RemoveFromHost
  <2>1. task.at = "remove" /\ UNCHANGED <<home, outcome, pluginReceipts, pluginFaults>>
    BY <1>9 DEF RemoveFromHost
  <2>2. CASE host' = Missing /\ PluginGoes("add")
    BY <1>4, <2>1, <2>2
  <2>3. CASE UNCHANGED host /\ Fails
    BY <1>0, <1>1, <2>1, <2>3
  <2> QED BY <1>9, <2>2, <2>3 DEF RemoveFromHost
<1>10. CASE AddToHost
  <2>1. task.at = "add" /\ UNCHANGED <<home, outcome, pluginReceipts, pluginFaults>>
    BY <1>10 DEF AddToHost
  <2>2. CASE UNCHANGED host /\ Fails
    BY <1>0, <1>1, <2>1, <2>2
  <2>3. CASE host' = Wanted /\ PluginGoes(HostDone)
    <3>1. host' \in Packages
      BY <1>5, <2>1, <2>3
    <3>2. CASE task.cmd = "rollback"
      <4>1. PluginGoes("item") /\ host' = installed.package
        BY <1>5, <2>1, <2>3, <3>2
      <4> QED BY <1>4, <2>1, <3>1, <3>2, <4>1
    <3>3. CASE task.cmd # "rollback"
      <4>1. PluginGoes("receipt")
        BY <1>5, <2>1, <2>3, <3>3
      <4> QED BY <1>4, <2>1, <3>1, <3>3, <4>1
    <3> QED BY <3>2, <3>3
  <2> QED BY <1>10, <2>2, <2>3 DEF AddToHost
<1>11. CASE RestoreReceipt
  <2>1. /\ task.at = "receipt" /\ task.cmd = "rollback" /\ installed' = saved[b].receipt
        /\ PluginGoes("registration")
        /\ UNCHANGED <<assets, registration, saved, history, host, outcome, pluginReceipts, pluginFaults>>
    BY <1>11 DEF RestoreReceipt
  <2>2. installed' \in Receipt
    BY <2>1 DEF PluginInv, RollbackSoFar, Saves
  <2>3. /\ task' \in Tasks /\ task'.at = "registration" /\ task'.cmd = task.cmd
        /\ task'.backup = b
    BY <1>2, <1>3, <2>1
  <2>4. PluginTypes'
    BY <1>0, <1>n, <2>1, <2>2, <2>3 DEF PluginTypes
  <2>5. TaskIsSound'
    BY <2>1, <2>3 DEF PluginInv, TaskIsSound, BackupSteps
  <2>6. RollbackSoFar'
    BY <2>1, <2>3 DEF PluginInv, RollbackSoFar
  <2> QED BY <1>0, <2>1, <2>4, <2>5, <2>6 DEF PluginInv, RolledBackAgrees
<1>12. CASE WriteHistory
  <2> DEFINE new == [backup |-> IF task.cmd = "rollback" THEN Missing ELSE task.backup,
                     receipt |-> task.from, to |-> task.package]
  <2>1. /\ task.at = "item" /\ history' = Append(history, new) /\ task' = Resting
        /\ UNCHANGED <<assets, registration, installed, saved, host, pluginReceipts, pluginFaults>>
        /\ outcome' = IF task.cmd = "rollback" THEN [kind |-> "rolled back", backup |-> task.backup]
                      ELSE [kind |-> "upgraded", backup |-> task.backup]
    BY <1>12 DEF WriteHistory
  <2>2. new \in HistoryItems
    BY <1>0 DEF HistoryItems, Backups
  <2> HIDE DEF new
  <2>3. history' \in Seq(HistoryItems) /\ Len(history') = Len(history) + 1
    BY <1>0, <2>1, <2>2, AppendProperties
  <2>4. Len(history) < MaxHistory /\ Len(history) \in Nat
    BY <1>0, <2>1, LenProperties DEF PluginInv, TaskIsSound, BackupSteps
  <2>5. Len(history') <= MaxHistory
    BY <2>3, <2>4, <1>n
  <2>6. PluginTypes'
    BY <1>0, <1>n, <2>1, <2>3, <2>5, RestingIsATask DEF PluginTypes
  <2>7. TaskIsSound' /\ RollbackSoFar' /\ PluginIdle'
    BY <2>1, RestingIsATask DEF TaskIsSound, BackupSteps, RollbackSoFar, PluginIdle
  <2>8. RolledBackAgrees'
    <3>1. CASE task.cmd = "rollback"
      BY <2>1, <3>1 DEF PluginInv, RollbackSoFar, RolledBackAgrees
    <3>2. CASE task.cmd # "rollback"
      BY <2>1, <3>2 DEF RolledBackAgrees
    <3> QED BY <3>1, <3>2
  <2> QED BY <2>6, <2>7, <2>8 DEF PluginInv
<1> QED BY <1>6, <1>7, <1>8, <1>9, <1>10, <1>11, <1>12

\* A rollback of the plugin that reports success leaves one installation: files, registration
\* and receipt of the backup, and a host that starts what the receipt names, unless another
\* took the name; whatever commands failed or stopped half way before it, for any packages
\* and files (rollbackShippingPlugin).
THEOREM RollbacksAgree == PluginSpec => []RolledBackAgrees
<1>1. PluginInv /\ [PluginNext]_pluginVars => PluginInv'
  <2> SUFFICES ASSUME PluginInv, [PluginNext]_pluginVars PROVE PluginInv'
    OBVIOUS
  <2>1. CASE UNCHANGED pluginVars
    BY <2>1 DEF pluginVars, PluginInv, PluginTypes, TaskIsSound, BackupSteps, RollbackSoFar, RolledBackAgrees, PluginIdle
  <2> QED BY <2>1, CommandsStart, OtherPluginSteps, SharedSteps DEF PluginNext
<1>2. PluginInv => RolledBackAgrees
  BY DEF PluginInv
<1> QED BY <1>1, <1>2, PluginInvInitially, PTL DEF PluginSpec
=============================================================================
