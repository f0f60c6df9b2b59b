---------------------------- MODULE Remote_proofs ----------------------------
(***************************************************************************)
(* What the internal remote gateway promises, for any number of actors,    *)
(* requests and backups: requests and approval receipts that are used      *)
(* once, stores that stay within their limits, and restores that lose      *)
(* nothing.  The replay protection rests on one invariant: a key that was  *)
(* claimed is in the replay store until its time, or its time has come.    *)
(* Then two services a remote caller waits for: an MCP session, which      *)
(* never waits for itself, and the bounded command.                        *)
(***************************************************************************)
EXTENDS Gateway, Backup, McpSession, BoundedCommand,
        FiniteSetTheorems, SequenceTheorems, WellFoundedInduction, TLAPS

-----------------------------------------------------------------------------
(* The gateway: types and limits. *)

Releases == [state : ReleaseStates, human : BOOLEAN, resume : ReleaseStates,
             head : 0..MaxHead, proposal : 0..MaxHead]
Handling == [req : Requests, now : Nat, seen : Releases \cup {None},
             at : {"status", "decide", "call", "notify"}]
Notices == [state : ReleaseStates, at : Nat]

\* Nonces are handed out in order, so no two requests have the same.
SignedOK ==
  /\ clock \in 0..MaxClock
  /\ script \in Scripts /\ signed \subseteq Requests
  /\ IsFiniteSet(signed) /\ Cardinality(signed) <= Len(script)
  /\ \A r \in signed : r.nonce <= Cardinality(signed)
  /\ \A r, s \in signed : r.nonce = s.nonce => r = s

StoreOK ==
  /\ DOMAIN store \subseteq Keys /\ IsFiniteSet(DOMAIN store)
  /\ Cardinality(DOMAIN store) <= MaxKeys
  /\ store \in [DOMAIN store -> Nat]

RateOK == rate \in [Actors -> [from : Nat, count : 0..RateLimit]]

LiveOK ==
  /\ live \subseteq Handling /\ IsFiniteSet(live) /\ Cardinality(live) <= MaxConcurrent
  /\ \A j \in live :
       /\ j.req \in signed /\ j.now <= clock
       /\ j.at = "decide" => j.seen \in Releases

ReleaseOK == release \in Releases

NoticesOK == notices \in Seq(Notices) /\ Len(notices) <= MaxNotices

HistoryOK ==
  /\ handled \in [1..MaxRequests -> Nat]
  /\ \A n \in 1..MaxRequests : handled[n] # 0 => \E r \in signed : r.nonce = n
  /\ DOMAIN consumed \subseteq Receipts /\ consumed \in [DOMAIN consumed -> Nat]
  /\ \A r \in signed : r.action = "approve" => r.receipt \in DOMAIN consumed

TypesHold ==
  SignedOK /\ StoreOK /\ RateOK /\ LiveOK /\ ReleaseOK /\ NoticesOK /\ HistoryOK

LEMMA Numbers ==
  /\ Skew \in Nat /\ KeyTtl \in Nat /\ ApprovalTtl \in Nat /\ RateLimit \in Nat \ {0}
  /\ RateWindow \in Nat /\ MaxKeys \in Nat /\ MaxNotices \in Nat \ {0} /\ NoticeWindow \in Nat
  /\ MaxConcurrent \in Nat /\ MaxRequests \in Nat /\ MaxClock \in Nat /\ MaxHead \in Nat
BY GatewayAssumption

LEMMA ScriptLengths ==
  ASSUME NEW x \in Scripts
  PROVE  Len(x) \in Nat /\ Len(x) <= MaxRequests /\ \A i \in 1..Len(x) : x[i] \in Range(x)
<1>1. x \in Seq(STRING) /\ Len(x) <= MaxRequests
  BY GatewayAssumption
<1> QED BY <1>1, LenProperties DEF Range

\* What a claim leaves: the entries that had not expired, and the new one, within the limit.
LEMMA ClaimKeepsStore ==
  ASSUME StoreOK, NEW key \in Keys, NEW now \in Nat, NEW ttl, now + ttl \in Nat,
         Claimable(key, now), ClaimKey(key, now, ttl)
  PROVE  StoreOK'
<1> DEFINE D == Unexpired(now) \cup {key}
<1>1. Unexpired(now) \subseteq DOMAIN store
  BY DEF Unexpired
<1>2. IsFiniteSet(Unexpired(now)) /\ Cardinality(Unexpired(now)) \in Nat
  BY <1>1, FS_Subset, FS_CardinalityType DEF StoreOK
<1>3. IsFiniteSet(D) /\ Cardinality(D) <= MaxKeys
  <2>1. IsFiniteSet(D) /\ Cardinality(D) = Cardinality(Unexpired(now)) + 1
    BY <1>2, FS_AddElement, Zenon DEF Claimable
  <2>2. Cardinality(Unexpired(now)) < MaxKeys
    BY DEF Claimable
  <2> QED BY <1>2, <2>1, <2>2, Numbers
<1>4. DOMAIN store' = D /\ store' \in [D -> Nat]
  BY <1>1 DEF ClaimKey, StoreOK
<1>5. D \subseteq Keys
  BY <1>1 DEF StoreOK
<1> QED BY <1>3, <1>4, <1>5 DEF StoreOK

LEMMA LiveMoves ==
  ASSUME LiveOK, NEW j \in live, NEW next \in Handling, Moves(j, next),
         next.req = j.req, next.now = j.now, next.at = "decide" => next.seen \in Releases,
         clock' = clock, signed' = signed
  PROVE  LiveOK'
<1>1. IsFiniteSet(live) /\ Cardinality(live) \in Nat /\ Cardinality(live) <= MaxConcurrent
  BY FS_CardinalityType DEF LiveOK
<1>2. IsFiniteSet(live \ {j}) /\ Cardinality(live \ {j}) = Cardinality(live) - 1
  BY <1>1, FS_RemoveElement, Zenon
<1>3. IsFiniteSet(live') /\ Cardinality(live') <= Cardinality(live \ {j}) + 1
  <2>1. \/ Cardinality(live') = Cardinality(live \ {j})
        \/ Cardinality(live') = Cardinality(live \ {j}) + 1
    BY <1>2, FS_AddElement, Zenon DEF Moves
  <2>2. IsFiniteSet(live')
    BY <1>2, FS_AddElement, Zenon DEF Moves
  <2> QED BY <1>1, <1>2, <2>1, <2>2
<1>4. Cardinality(live') \in Nat
  BY <1>3, FS_CardinalityType
<1>5. Cardinality(live') <= MaxConcurrent
  BY <1>1, <1>2, <1>3, <1>4, Numbers
<1>6. live' \subseteq Handling
  BY DEF LiveOK, Moves
<1>7. ASSUME NEW k \in live'
      PROVE  k.req \in signed /\ k.now <= clock /\ (k.at = "decide" => k.seen \in Releases)
  BY <1>7 DEF LiveOK, Moves
<1> QED BY <1>3, <1>5, <1>6, <1>7 DEF LiveOK

LEMMA LiveDrops ==
  ASSUME LiveOK, live' \subseteq live, clock' = clock, signed' = signed
  PROVE  LiveOK'
<1>1. IsFiniteSet(live') /\ Cardinality(live') <= Cardinality(live)
  BY FS_Subset DEF LiveOK
<1>2. Cardinality(live) \in Nat /\ Cardinality(live') \in Nat
  BY <1>1, FS_CardinalityType DEF LiveOK
<1>3. Cardinality(live') <= MaxConcurrent
  BY <1>1, <1>2, Numbers DEF LiveOK
<1> QED BY <1>1, <1>3 DEF LiveOK

\* The steps of a request: only where it is and what it has seen change.
LEMMA Advances ==
  ASSUME NEW j \in Handling, NEW a \in {"status", "decide", "call", "notify"}
  PROVE  /\ [j EXCEPT !.at = a] \in Handling
         /\ [j EXCEPT !.at = a].req = j.req /\ [j EXCEPT !.at = a].now = j.now
         /\ [j EXCEPT !.at = a].at = a
BY DEF Handling

LEMMA Sees ==
  ASSUME NEW j \in Handling, NEW a \in {"status", "decide", "call", "notify"}, NEW r \in Releases
  PROVE  /\ [j EXCEPT !.seen = r, !.at = a] \in Handling
         /\ [j EXCEPT !.seen = r, !.at = a].req = j.req
         /\ [j EXCEPT !.seen = r, !.at = a].now = j.now
         /\ [j EXCEPT !.seen = r, !.at = a].seen = r
BY DEF Handling

LEMMA Appended ==
  ASSUME NoticesOK, NEW n \in Notices
  PROVE  Retained(Append(notices, n)) \in Seq(Notices) /\ Len(Retained(Append(notices, n))) <= MaxNotices
<1> DEFINE s == Append(notices, n)
<1>1. s \in Seq(Notices) /\ Len(s) \in Nat
  BY AppendProperties, LenProperties DEF NoticesOK
<1>2. CASE Len(s) <= MaxNotices
  BY <1>1, <1>2 DEF Retained
<1>3. CASE ~(Len(s) <= MaxNotices)
  <2>1. Len(s) - MaxNotices + 1 \in 1..Len(s) /\ Len(s) - (Len(s) - MaxNotices + 1) + 1 = MaxNotices
        /\ Len(s) - MaxNotices + 1 <= Len(s)
    BY <1>1, <1>3, Numbers
  <2>2. \A i \in 1..Len(s) : s[i] \in Notices
    BY <1>1, ElementOfSeq
  <2>3. \A i \in Len(s) - MaxNotices + 1 .. Len(s) : s[i] \in Notices
    BY <1>1, <2>1, <2>2
  <2> HIDE DEF s
  <2> DEFINE m == Len(s) - MaxNotices + 1
  <2>4. m \in Int /\ Len(s) \in Int /\ m <= Len(s) /\ Len(s) - m + 1 = MaxNotices
    BY <1>1, <2>1
  <2>5. \A i \in m .. Len(s) : s[i] \in Notices
    BY <2>3
  <2> HIDE DEF m
  <2>6. SubSeq(s, m, Len(s)) \in Seq(Notices)
        /\ Len(SubSeq(s, m, Len(s))) = IF m <= Len(s) THEN Len(s) - m + 1 ELSE 0
    BY <2>4, <2>5, SubSeqProperties
  <2>7. Retained(s) = SubSeq(s, m, Len(s))
    BY <1>3 DEF Retained, m
  <2>8. Len(Retained(s)) <= MaxNotices
    BY <2>4, <2>6, <2>7, Numbers
  <2> QED BY <2>6, <2>7, <2>8 DEF s
<1> QED BY <1>2, <1>3

LEMMA EffectsAreReleases ==
  ASSUME ReleaseOK, NEW r \in Requests
  PROVE  Outcomes(r) \subseteq Releases
<1>1. release.state \in ReleaseStates /\ release.resume \in ReleaseStates
  BY DEF ReleaseOK, Releases
<1>2. \A s \in ReleaseStates : [release EXCEPT !.state = s] \in Releases
  BY DEF ReleaseOK, Releases
<1>3. \A s, t \in ReleaseStates, h \in BOOLEAN :
        [release EXCEPT !.state = s, !.human = h, !.resume = t] \in Releases
  BY DEF ReleaseOK, Releases
<1>4. \A s \in ReleaseStates, h \in BOOLEAN : [release EXCEPT !.state = s, !.human = h] \in Releases
  BY DEF ReleaseOK, Releases
<1>5. {"LOCKED", "PAUSED", "ABORTED", "CLOSED", "SHIPPABLE", "BLOCKED"} \subseteq ReleaseStates
  BY DEF ReleaseStates
<1>6. release \in Releases
  BY DEF ReleaseOK
<1>7. Effect(r) \in Releases
  <2> DEFINE F == Effect(r)
  <2>1. \/ F = [release EXCEPT !.state = "LOCKED"]
        \/ F = [release EXCEPT !.state = "PAUSED", !.human = TRUE, !.resume = release.state]
        \/ F = [release EXCEPT !.state = release.resume, !.human = FALSE]
        \/ F = [release EXCEPT !.state = "ABORTED", !.human = TRUE]
        \/ F = [release EXCEPT !.state = "CLOSED"]
        \/ F = release
    BY DEF Effect
  <2>2. [release EXCEPT !.state = "LOCKED"] \in Releases /\ [release EXCEPT !.state = "CLOSED"] \in Releases
    BY <1>2, <1>5
  <2>3. [release EXCEPT !.state = "PAUSED", !.human = TRUE, !.resume = release.state] \in Releases
    BY <1>1, <1>3, <1>5
  <2>4. /\ [release EXCEPT !.state = release.resume, !.human = FALSE] \in Releases
        /\ [release EXCEPT !.state = "ABORTED", !.human = TRUE] \in Releases
    BY <1>1, <1>4, <1>5
  <2> HIDE DEF F
  <2>5. F \in Releases
    BY <1>6, <2>1, <2>2, <2>3, <2>4, Zenon
  <2> QED BY <2>5 DEF F
<1> QED BY <1>2, <1>5, <1>7 DEF Outcomes

LEMMA InitTypes == GatewayInit => TypesHold
<1> SUFFICES ASSUME GatewayInit PROVE TypesHold
  OBVIOUS
<1> USE DEF GatewayInit
<1>1. SignedOK
  <2>1. clock \in 0..MaxClock
    BY Numbers
  <2> QED BY <2>1, FS_EmptySet, ScriptLengths DEF SignedOK
<1>2. StoreOK
  <2>1. DOMAIN store = {} /\ store \in [DOMAIN store -> Nat]
    OBVIOUS
  <2> QED BY <2>1, FS_EmptySet, Numbers DEF StoreOK
<1>3. RateOK
  BY Numbers DEF RateOK, NoClaims
<1>4. LiveOK
  BY FS_EmptySet, Numbers DEF LiveOK
<1>5. ReleaseOK
  <2>1. 0 \in 0..MaxHead
    BY Numbers
  <2> QED BY <2>1 DEF ReleaseOK, Releases, ReleaseStates
<1>6. NoticesOK
  BY Numbers DEF NoticesOK
<1>7. HistoryOK
  BY DEF HistoryOK
<1> QED BY <1>1, <1>2, <1>3, <1>4, <1>5, <1>6, <1>7 DEF TypesHold

LEMMA AskKeepsTypes ==
  ASSUME TypesHold, NEW a \in Actors, NEW receipt \in DOMAIN consumed \cup {None}, Sign(a, receipt)
  PROVE  TypesHold'
<1> USE DEF Sign
<1> DEFINE c == Cardinality(signed)
           action == script[c + 1]
<1>1. c \in Nat /\ c < Len(script) /\ IsFiniteSet(signed) /\ script \in Scripts
  BY FS_CardinalityType DEF TypesHold, SignedOK
<1>2. Len(script) \in Nat /\ Len(script) <= MaxRequests /\ c + 1 \in 1..Len(script)
  BY <1>1, ScriptLengths
<1>3. c + 1 \in 1..MaxRequests
  BY <1>1, <1>2, Numbers
<1>4. action \in UNION {Range(x) : x \in Scripts}
  BY <1>1, <1>2, ScriptLengths
<1> PICK at \in {clock, clock + Skew} :
       signed' = signed \cup {[nonce |-> c + 1, actor |-> a, action |-> action,
                               at |-> at, receipt |-> receipt,
                               proposal |-> IF receipt = None THEN release.proposal
                                            ELSE receipt.proposal]}
  OBVIOUS
<1> DEFINE proposal == IF receipt = None THEN release.proposal ELSE receipt.proposal
           r == [nonce |-> c + 1, actor |-> a, action |-> action, at |-> at, receipt |-> receipt,
                 proposal |-> proposal]
<1>5. at \in Nat
  BY Numbers DEF TypesHold, SignedOK
<1>6. receipt \in Receipts \cup {None} /\ proposal \in 0..MaxHead
  BY DEF TypesHold, HistoryOK, ReleaseOK, Releases, Receipts
<1>7. r \in Requests
  <2> HIDE DEF c, action, proposal
  <2> QED BY <1>3, <1>4, <1>5, <1>6 DEF Requests
<1>8. r.nonce = c + 1 /\ r.action = action /\ r.receipt = receipt /\ signed' = signed \cup {r}
  OBVIOUS
<1>9. action = "approve" => receipt \in DOMAIN consumed
  OBVIOUS
<1> HIDE DEF r, action
<1>10. r \notin signed
  <2>1. ~(r.nonce <= c)
    BY <1>1, <1>8
  <2> QED BY <2>1 DEF TypesHold, SignedOK
<1>11. Cardinality(signed') = c + 1 /\ IsFiniteSet(signed')
  <2>1. IsFiniteSet(signed \cup {r}) /\ Cardinality(signed \cup {r}) = Cardinality(signed) + 1
    BY <1>1, <1>10, FS_AddElement, Zenon
  <2> QED BY <1>8, <2>1
<1>12. \A s \in signed : s.nonce \in Nat /\ s.nonce <= c
  BY DEF TypesHold, SignedOK, Requests
<1>13. SignedOK'
  <2>1. \A s \in signed' : s.nonce <= c + 1
    BY <1>1, <1>8, <1>12
  <2>2. \A s, t \in signed' : s.nonce = t.nonce => s = t
    BY <1>1, <1>8, <1>12 DEF TypesHold, SignedOK
  <2>3. clock' \in 0..MaxClock /\ script' \in Scripts /\ signed' \subseteq Requests
    BY <1>7, <1>8 DEF TypesHold, SignedOK
  <2>4. Cardinality(signed') <= Len(script')
    BY <1>1, <1>2, <1>11
  <2>5. \A s \in signed' : s.nonce <= Cardinality(signed')
    <3> HIDE DEF c
    <3> QED BY <1>11, <2>1
  <2> HIDE DEF c
  <2> QED BY <1>11, <2>2, <2>3, <2>4, <2>5 DEF SignedOK
<1>14. HistoryOK'
  <2>1. \A n \in 1..MaxRequests : handled[n] # 0 => \E s \in signed' : s.nonce = n
    BY <1>8 DEF TypesHold, HistoryOK
  <2>2. \A s \in signed' : s.action = "approve" => s.receipt \in DOMAIN consumed
    BY <1>8, <1>9 DEF TypesHold, HistoryOK
  <2> QED BY <1>11, <2>1, <2>2 DEF TypesHold, HistoryOK
<1>15. LiveOK'
  BY <1>8 DEF TypesHold, LiveOK
<1> QED BY <1>13, <1>14, <1>15 DEF TypesHold, StoreOK, RateOK, ReleaseOK, NoticesOK

LEMMA RateKept ==
  ASSUME RateOK, NEW a \in Actors, clock \in Nat, RateLeft(a), ClaimRate(a)
  PROVE  RateOK'
<1> DEFINE v == rate[a]
<1>1. v \in [from : Nat, count : 0..RateLimit] /\ v.count \in 0..RateLimit
  BY DEF RateOK
<1>2. [from |-> clock, count |-> 1] \in [from : Nat, count : 0..RateLimit]
  BY Numbers
<1>3. CASE v.count = 0 \/ clock - v.from >= RateWindow
  <2>1. rate' = [rate EXCEPT ![a] = [from |-> clock, count |-> 1]]
    BY <1>3 DEF ClaimRate, RateOK
  <2> QED BY <1>2, <2>1 DEF RateOK
<1>4. CASE ~(v.count = 0 \/ clock - v.from >= RateWindow)
  <2>1. v.count + 1 \in 0..RateLimit
    BY <1>1, <1>4, Numbers DEF RateLeft
  <2>2. [from |-> v.from, count |-> v.count + 1] \in [from : Nat, count : 0..RateLimit]
    BY <1>1, <2>1
  <2>3. rate' = [rate EXCEPT ![a] =
               IF v.count = 0 \/ clock - v.from >= RateWindow THEN [from |-> clock, count |-> 1]
               ELSE [from |-> v.from, count |-> v.count + 1]]
    BY DEF ClaimRate, RateOK
  <2> HIDE DEF v
  <2> DEFINE w == [from |-> v.from, count |-> v.count + 1]
  <2>4. rate' = [rate EXCEPT ![a] = w]
    BY <1>4, <2>3
  <2>5. w \in [from : Nat, count : 0..RateLimit]
    BY <2>2
  <2> HIDE DEF w
  <2> QED BY <2>4, <2>5 DEF RateOK
<1> QED BY <1>3, <1>4

LEMMA DeliverKeepsTypes ==
  ASSUME TypesHold, NEW r \in signed, Deliver(r)
  PROVE  TypesHold'
<1> USE DEF Deliver
<1>1. r \in Requests /\ r.actor \in Actors /\ r.nonce \in 1..MaxRequests /\ clock \in Nat
  BY Numbers DEF TypesHold, SignedOK, Requests
<1>2. RateOK'
  BY <1>1, RateKept DEF TypesHold
<1>3. /\ SignedOK' /\ ReleaseOK' /\ NoticesOK'
  BY DEF TypesHold, SignedOK, ReleaseOK, NoticesOK
<1>4. CASE Claimable(RequestKey(r), clock)
  <2>1. RequestKey(r) \in Keys
    BY <1>1 DEF RequestKey, Keys
  <2>2. StoreOK'
    <3>1. clock + KeyTtl \in Nat
      BY <1>1, Numbers
    <3> QED BY <1>1, <1>4, <2>1, <3>1, ClaimKeepsStore DEF TypesHold
  <2> DEFINE j == [req |-> r, now |-> clock, seen |-> None,
                   at |-> IF r.action \in Asks THEN "status" ELSE "call"]
  <2>3. j \in Handling /\ j.req = r /\ j.now = clock /\ j.at # "decide" /\ live' = live \cup {j}
    BY <1>1, <1>4 DEF Handling
  <2> HIDE DEF j
  <2>4. LiveOK'
    <3>1. IsFiniteSet(live) /\ Cardinality(live) \in Nat
      BY FS_CardinalityType DEF TypesHold, LiveOK
    <3>2. /\ IsFiniteSet(live \cup {j})
          /\ Cardinality(live \cup {j}) = Cardinality(live) \/ Cardinality(live \cup {j}) = Cardinality(live) + 1
      BY <3>1, FS_AddElement, Zenon
    <3>3. IsFiniteSet(live') /\ Cardinality(live') <= MaxConcurrent
      BY <2>3, <3>1, <3>2, Numbers
    <3>4. \A k \in live' : k.req \in signed /\ k.now <= clock /\ (k.at = "decide" => k.seen \in Releases)
      BY <1>1, <2>3 DEF TypesHold, LiveOK
    <3>5. live' \subseteq Handling
      BY <2>3 DEF TypesHold, LiveOK
    <3> QED BY <3>3, <3>4, <3>5 DEF LiveOK
  <2>5. HistoryOK'
    <3>1. handled' = [handled EXCEPT ![r.nonce] = handled[r.nonce] + 1]
      BY <1>4
    <3>2. handled' \in [1..MaxRequests -> Nat]
      BY <1>1, <3>1 DEF TypesHold, HistoryOK
    <3>3. \A n \in 1..MaxRequests : handled'[n] # 0 => \E s \in signed : s.nonce = n
      BY <1>1, <3>1 DEF TypesHold, HistoryOK
    <3> QED BY <3>2, <3>3 DEF TypesHold, HistoryOK
  <2> QED BY <1>2, <1>3, <2>2, <2>4, <2>5 DEF TypesHold
<1>5. CASE ~Claimable(RequestKey(r), clock)
  BY <1>2, <1>3, <1>5 DEF TypesHold, StoreOK, LiveOK, HistoryOK
<1> QED BY <1>4, <1>5

\* What only the steps of a request that is handled change.
LEMMA HandleKeepsTypes ==
  ASSUME TypesHold, Handle
  PROVE  TypesHold'
<1> USE DEF TypesHold
<1> PICK j \in live :
       ReadStatus(j) \/ Issue(j) \/ Consume(j) \/ Permit(j) \/ Call(j) \/ Notify(j)
  BY DEF Handle
<1>1. j \in Handling /\ j.req \in signed /\ j.req \in Requests /\ j.now \in Nat /\ j.now <= clock
  BY DEF LiveOK, SignedOK, Handling
<1>2. clock' = clock /\ signed' = signed /\ SignedOK' /\ RateOK'
  BY DEF ReadStatus, Issue, Consume, Permit, Call, Notify, SignedOK, RateOK
<1>3. ASSUME ReadStatus(j) PROVE TypesHold'
  <2> USE <1>3 DEF ReadStatus
  <2>1. LiveOK'
    BY <1>1, <1>2, Sees, LiveMoves DEF ReleaseOK
  <2> QED BY <1>2, <2>1 DEF StoreOK, ReleaseOK, NoticesOK, HistoryOK
<1>4. ASSUME Issue(j) PROVE TypesHold'
  <2> USE <1>4 DEF Issue
  <2> DEFINE receipt == [actor |-> j.req.actor, proposal |-> j.req.proposal, head |-> j.seen.head,
                         expires |-> j.now + ApprovalTtl]
  <2>1. j.seen \in Releases /\ j.seen.head \in 0..MaxHead
    BY DEF LiveOK, Releases
  <2>2. receipt \in Receipts
    BY <1>1, <2>1, Numbers DEF Requests, Receipts
  <2>3. consumed' = [r \in DOMAIN consumed \cup {receipt} |->
                       IF r \in DOMAIN consumed THEN consumed[r] ELSE 0]
    OBVIOUS
  <2> HIDE DEF receipt
  <2>4. HistoryOK'
    BY <1>2, <2>2, <2>3 DEF HistoryOK
  <2>5. LiveOK'
    BY <1>2, LiveDrops DEF Drops
  <2> QED BY <1>2, <2>4, <2>5 DEF StoreOK, ReleaseOK, NoticesOK
<1>5. ASSUME Consume(j) PROVE TypesHold'
  <2> DEFINE receipt == j.req.receipt
  <2>1. receipt \in DOMAIN consumed /\ receipt \in Receipts /\ receipt.expires \in Nat
    BY <1>1, <1>5 DEF Consume, HistoryOK, Receipts
  <2>2. CASE Bound(receipt, j) /\ Claimable(ApprovalKey(receipt), j.now)
    <3>1. ApprovalKey(receipt) \in Keys
      BY <2>1 DEF ApprovalKey, Keys
    <3>2. j.now + KeptFor(receipt, j.now) \in Nat
      BY <1>1, <2>1 DEF KeptFor
    <3>3. StoreOK'
      BY <1>1, <1>5, <2>2, <3>1, <3>2, ClaimKeepsStore DEF Consume
    <3>4. HistoryOK'
      <4>1. consumed' = [consumed EXCEPT ![receipt] = consumed[receipt] + 1]
        BY <1>5, <2>2 DEF Consume
      <4> HIDE DEF receipt
      <4> QED BY <1>2, <1>5, <2>1, <4>1 DEF Consume, HistoryOK
    <3>5. LiveOK'
      BY <1>1, <1>2, <1>5, <2>2, Advances, LiveMoves DEF Consume
    <3> QED BY <1>2, <1>5, <3>3, <3>4, <3>5 DEF Consume, ReleaseOK, NoticesOK
  <2>3. CASE ~(Bound(receipt, j) /\ Claimable(ApprovalKey(receipt), j.now))
    <3>1. LiveOK'
      BY <1>2, <1>5, <2>3, LiveDrops DEF Consume, Drops
    <3> QED BY <1>2, <1>5, <2>3, <3>1 DEF Consume, StoreOK, ReleaseOK, NoticesOK, HistoryOK
  <2> QED BY <2>2, <2>3
<1>6. ASSUME Permit(j) PROVE TypesHold'
  <2>1. LiveOK'
    <3>1. CASE j.seen.human
      BY <1>2, <1>6, <3>1, LiveDrops DEF Permit, Drops
    <3>2. CASE ~j.seen.human
      BY <1>1, <1>2, <1>6, <3>2, Advances, LiveMoves DEF Permit
    <3> QED BY <3>1, <3>2
  <2> QED BY <1>2, <1>6, <2>1 DEF Permit, StoreOK, ReleaseOK, NoticesOK, HistoryOK
<1>7. ASSUME Call(j) PROVE TypesHold'
  <2>1. CASE Outcomes(j.req) = {}
    <3>1. LiveOK'
      BY <1>2, <1>7, <2>1, LiveDrops DEF Call, Drops
    <3> QED BY <1>2, <1>7, <2>1, <3>1 DEF Call, StoreOK, ReleaseOK, NoticesOK, HistoryOK
  <2>2. CASE Outcomes(j.req) # {}
    <3> PICK r \in Outcomes(j.req) : release' = r /\ Moves(j, [j EXCEPT !.seen = r, !.at = "notify"])
      BY <1>7, <2>2 DEF Call
    <3>1. r \in Releases
      BY <1>1, EffectsAreReleases
    <3>2. LiveOK'
      BY <1>1, <1>2, <3>1, Sees, LiveMoves
    <3> QED BY <1>2, <1>7, <3>1, <3>2 DEF Call, StoreOK, ReleaseOK, NoticesOK, HistoryOK
  <2> QED BY <2>1, <2>2
<1>8. ASSUME Notify(j) PROVE TypesHold'
  <2>1. LiveOK'
    BY <1>2, <1>8, LiveDrops DEF Notify, Drops
  <2>2. NoticesOK'
    <3>1. CASE UNCHANGED notices
      BY <3>1 DEF NoticesOK
    <3>2. CASE /\ j.seen.state \in {"BLOCKED", "PAUSED", "CLOSED"}
               /\ notices' = Retained(Append(notices, [state |-> j.seen.state, at |-> clock]))
      <4>1. [state |-> j.seen.state, at |-> clock] \in Notices
        BY <1>1, <3>2, Numbers DEF Notices, ReleaseStates, SignedOK
      <4> QED BY <3>2, <4>1, Appended DEF NoticesOK
    <3> QED BY <1>8, <3>1, <3>2 DEF Notify
  <2> QED BY <1>2, <1>8, <2>1, <2>2 DEF Notify, StoreOK, ReleaseOK, HistoryOK
<1> QED BY <1>3, <1>4, <1>5, <1>6, <1>7, <1>8

\* A restart forgets what is in memory; the human and the clock touch the release and the time.
LEMMA OthersKeepTypes ==
  ASSUME TypesHold, Restart \/ LocalPause \/ LocalResume \/ Commit \/ Refine \/ Tick
  PROVE  TypesHold'
<1> USE DEF TypesHold
<1>0. release \in Releases /\ release.head \in 0..MaxHead /\ release.resume \in ReleaseStates
      /\ release.state \in ReleaseStates
  BY DEF ReleaseOK, Releases
<1>1. ASSUME Restart PROVE TypesHold'
  <2>1. LiveOK'
    BY <1>1, LiveDrops DEF Restart
  <2>2. RateOK'
    BY <1>1, Numbers DEF Restart, RateOK, NoClaims
  <2> QED BY <1>1, <2>1, <2>2 DEF Restart, SignedOK, StoreOK, ReleaseOK, NoticesOK, HistoryOK
<1>2. ASSUME LocalPause \/ LocalResume \/ Commit \/ Refine PROVE TypesHold'
  <2>1. ReleaseOK'
    <3>1. "PAUSED" \in ReleaseStates
      BY DEF ReleaseStates
    <3>2. CASE LocalPause
      BY <1>0, <3>1, <3>2 DEF LocalPause, ReleaseOK, Releases
    <3>3. CASE LocalResume
      BY <1>0, <3>3 DEF LocalResume, ReleaseOK, Releases
    <3>4. CASE Commit
      <4>1. release.head + 1 \in 0..MaxHead
        BY <1>0, <3>4, Numbers DEF Commit
      <4>2. release' = [release EXCEPT !.head = release.head + 1]
        BY <3>4 DEF Commit
      <4> QED BY <1>0, <4>1, <4>2 DEF ReleaseOK, Releases
    <3>5. CASE Refine
      BY <1>0, <3>5 DEF Refine, ReleaseOK, Releases
    <3> QED BY <1>2, <3>2, <3>3, <3>4, <3>5
  <2>2. UNCHANGED <<clock, script, signed, store, rate, live, notices, handled, consumed>>
    BY <1>2 DEF LocalPause, LocalResume, Commit, Refine
  <2> QED BY <2>1, <2>2 DEF SignedOK, StoreOK, RateOK, LiveOK, NoticesOK, HistoryOK
<1>3. ASSUME Tick PROVE TypesHold'
  <2>1. clock' \in 0..MaxClock /\ clock \in Nat /\ clock' = clock + 1
    BY <1>3, Numbers DEF Tick, SignedOK
  <2>2. SignedOK'
    BY <1>3, <2>1 DEF Tick, SignedOK
  <2>3. LiveOK'
    <3>1. \A j \in live : j.now \in Nat /\ j.now <= clock + 1
      BY <2>1 DEF LiveOK, Handling
    <3> QED BY <1>3, <2>1, <3>1 DEF Tick, LiveOK
  <2> QED BY <1>3, <2>2, <2>3 DEF Tick, StoreOK, RateOK, ReleaseOK, NoticesOK, HistoryOK
<1> QED BY <1>1, <1>2, <1>3

LEMMA TypesAreInductive ==
  ASSUME TypesHold, [GatewayNext]_gatewayVars
  PROVE  TypesHold'
<1>1. CASE UNCHANGED gatewayVars
  BY <1>1 DEF gatewayVars, TypesHold, SignedOK, StoreOK, RateOK, LiveOK, ReleaseOK, NoticesOK, HistoryOK
<1>2. CASE Ask
  BY <1>2, AskKeepsTypes DEF Ask
<1>3. CASE \E r \in signed : Deliver(r)
  BY <1>3, DeliverKeepsTypes
<1>4. CASE Handle
  BY <1>4, HandleKeepsTypes
<1>5. CASE Restart \/ LocalPause \/ LocalResume \/ Commit \/ Refine \/ Tick
  BY <1>5, OthersKeepTypes
<1> QED BY <1>1, <1>2, <1>3, <1>4, <1>5 DEF GatewayNext

\* The replay store, the requests at work, the rate of every actor and the notices stay
\* within their limits, whatever is delivered, repeated or interrupted
\* (ReplayStore.claimKey, RateLimiter.claim, NotificationStore.append, the server's admission).
THEOREM GatewayStaysBounded == GatewaySpec => []GatewayTypeOK
<1>1. TypesHold => GatewayTypeOK
  <2> SUFFICES ASSUME TypesHold PROVE GatewayTypeOK
    OBVIOUS
  <2> USE DEF TypesHold
  <2>1. Cardinality(signed) <= MaxRequests
    <3>1. Cardinality(signed) \in Nat
      BY FS_CardinalityType DEF SignedOK
    <3> QED BY <3>1, ScriptLengths, Numbers DEF SignedOK
  <2>2. \A a \in Actors : rate[a].count \in 0..RateLimit
    BY DEF RateOK
  <2>3. /\ release.state \in ReleaseStates /\ release.human \in BOOLEAN
        /\ release.head \in 0..MaxHead /\ release.proposal \in 0..MaxHead
    BY DEF ReleaseOK, Releases
  <2> QED BY <2>1, <2>2, <2>3 DEF GatewayTypeOK, SignedOK, StoreOK, LiveOK, NoticesOK
<1> QED BY <1>1, InitTypes, TypesAreInductive, PTL DEF GatewaySpec

-----------------------------------------------------------------------------
(* The gateway: what is used once. *)

\* A key in the store until its time, or its time has come.
Remembered(key, until) == (key \in DOMAIN store /\ store[key] >= until) \/ clock >= until

\* From here on the timestamp of a request is refused.
TooLate(r) == r.at + Skew + 1

OnceInv ==
  \A r \in signed :
    /\ handled[r.nonce] <= 1
    /\ handled[r.nonce] = 1 => Remembered(RequestKey(r), TooLate(r))

\* A claim drops only what has expired: its time is never ahead of the clock.
LEMMA ClaimRemembers ==
  ASSUME StoreOK, clock \in Nat, clock' = clock,
         NEW key, NEW now \in Nat, now <= clock, NEW ttl \in Int, ClaimKey(key, now, ttl),
         NEW k, NEW until \in Nat, Remembered(k, until),
         k = key => now + ttl >= until
  PROVE  Remembered(k, until)'
<1>1. CASE clock >= until
  BY <1>1 DEF Remembered
<1>2. CASE ~(clock >= until)
  <2>1. k \in DOMAIN store /\ store[k] >= until /\ store[k] \in Nat
    BY <1>2 DEF Remembered, StoreOK
  <2>2. k \in Unexpired(now)
    BY <1>2, <2>1 DEF Unexpired
  <2>3. k \in DOMAIN store' /\ store'[k] = IF k = key THEN now + ttl ELSE store[k]
    BY <2>2 DEF ClaimKey
  <2> QED BY <2>1, <2>3 DEF Remembered
<1> QED BY <1>1, <1>2

LEMMA Ticking ==
  ASSUME clock \in Nat, clock' \in Nat, clock' >= clock, store' = store,
         NEW k, NEW until \in Nat, Remembered(k, until)
  PROVE  Remembered(k, until)'
BY DEF Remembered

\* The replay store remembers a request for longer than its timestamp is accepted.
KeyOutlivesSkew == KeyTtl > 2 * Skew

LEMMA OnceIsInductive ==
  ASSUME KeyOutlivesSkew, TypesHold, OnceInv, [GatewayNext]_gatewayVars
  PROVE  OnceInv'
<1>1. clock \in Nat /\ clock' \in Nat /\ clock' >= clock /\ StoreOK /\ IsFiniteSet(signed)
  <2>1. TypesHold'
    BY TypesAreInductive
  <2>2. clock' = clock \/ clock' = clock + 1
    BY DEF GatewayNext, gatewayVars, Ask, Sign, Deliver, Handle, ReadStatus, Issue, Consume, Permit,
           Call, Notify, Restart, LocalPause, LocalResume, Commit, Refine, Tick
  <2> QED BY <2>1, <2>2, Numbers DEF TypesHold, SignedOK
<1>2. \A r \in signed : /\ r \in Requests /\ r.nonce \in 1..MaxRequests /\ r.at \in Nat
                        /\ TooLate(r) \in Nat /\ handled[r.nonce] \in Nat
  <2> TAKE r \in signed
  <2>1. r \in Requests
    BY DEF TypesHold, SignedOK
  <2>2. r.nonce \in 1..MaxRequests /\ r.at \in Nat
    BY <2>1 DEF Requests
  <2>3. TooLate(r) \in Nat
    BY <2>2, Numbers DEF TooLate
  <2>4. handled[r.nonce] \in Nat
    BY <2>2 DEF TypesHold, HistoryOK
  <2> QED BY <2>1, <2>2, <2>3, <2>4
<1>3. CASE UNCHANGED <<signed, store, handled>>
  BY <1>1, <1>2, <1>3, Ticking DEF OnceInv, RequestKey, TooLate
<1>4. CASE Ask
  <2> PICK a \in Actors, receipt \in DOMAIN consumed \cup {None} : Sign(a, receipt)
    BY <1>4 DEF Ask
  <2>1. PICK r : r.nonce = Cardinality(signed) + 1 /\ signed' = signed \cup {r}
    BY DEF Sign
  <2>2. handled[r.nonce] = 0 /\ UNCHANGED <<store, handled, clock>>
    <3>1. Cardinality(signed) \in Nat /\ Cardinality(signed) < Len(script) /\ script \in Scripts
      BY <1>1, FS_CardinalityType DEF Sign, TypesHold, SignedOK
    <3>2. Cardinality(signed) + 1 \in 1..MaxRequests
      BY <3>1, ScriptLengths, Numbers
    <3>3. \A s \in signed : s.nonce # r.nonce
      BY <1>2, <2>1, <3>1 DEF TypesHold, SignedOK
    <3> QED BY <2>1, <3>1, <3>2, <3>3 DEF Sign, TypesHold, HistoryOK
  <2>3. \A s \in signed : /\ handled[s.nonce] <= 1
                          /\ handled[s.nonce] = 1 => Remembered(RequestKey(s), TooLate(s))'
    BY <1>1, <1>2, <2>2, Ticking DEF OnceInv, RequestKey, TooLate
  <2>4. \A s \in signed' : /\ handled'[s.nonce] <= 1
                           /\ handled'[s.nonce] = 1 => Remembered(RequestKey(s), TooLate(s))'
    BY <2>1, <2>2, <2>3
  <2> QED BY <2>4 DEF OnceInv
<1>5. ASSUME NEW r \in signed, Deliver(r), Claimable(RequestKey(r), clock)
      PROVE  OnceInv'
  <2>1. /\ ClaimKey(RequestKey(r), clock, KeyTtl) /\ clock' = clock /\ signed' = signed
        /\ handled' = [handled EXCEPT ![r.nonce] = handled[r.nonce] + 1]
    BY <1>5 DEF Deliver
  <2>2. r.at - clock <= Skew /\ clock - r.at <= Skew
    BY <1>5 DEF Deliver, Timely
  <2>3. clock + KeyTtl >= TooLate(r)
    BY <1>1, <1>2, <2>2, Numbers DEF KeyOutlivesSkew, TooLate
  <2>4. handled[r.nonce] = 0
    <3>1. SUFFICES ASSUME handled[r.nonce] = 1 PROVE FALSE
      BY <1>2 DEF OnceInv
    <3>2. Remembered(RequestKey(r), TooLate(r)) /\ clock < TooLate(r)
      BY <1>1, <1>2, <2>2, <3>1, Numbers DEF OnceInv, TooLate
    <3>3. RequestKey(r) \in DOMAIN store /\ store[RequestKey(r)] \in Nat
          /\ store[RequestKey(r)] >= TooLate(r)
      BY <1>1, <1>2, <3>2 DEF Remembered, StoreOK
    <3>4. RequestKey(r) \in Unexpired(clock)
      BY <1>1, <1>2, <3>2, <3>3 DEF Unexpired
    <3> QED BY <1>5, <3>4 DEF Claimable
  <2>5. Remembered(RequestKey(r), TooLate(r))'
    <3>1. RequestKey(r) \in DOMAIN store' /\ store'[RequestKey(r)] = clock + KeyTtl
      BY <2>1 DEF ClaimKey
    <3> QED BY <2>3, <3>1 DEF Remembered, RequestKey, TooLate
  <2>6. ASSUME NEW s \in signed, s # r
        PROVE  /\ handled'[s.nonce] = handled[s.nonce]
               /\ handled[s.nonce] = 1 => Remembered(RequestKey(s), TooLate(s))'
    <3>1. s.nonce # r.nonce
      BY <2>6 DEF TypesHold, SignedOK
    <3>2. RequestKey(s) # RequestKey(r)
      BY <2>6 DEF RequestKey
    <3>3. handled'[s.nonce] = handled[s.nonce]
      BY <1>2, <2>1, <3>1 DEF TypesHold, HistoryOK
    <3>4. ASSUME handled[s.nonce] = 1 PROVE Remembered(RequestKey(s), TooLate(s))'
      <4> DEFINE k == RequestKey(s)
                 until == TooLate(s)
      <4>1. Remembered(k, until) /\ until \in Nat /\ k # RequestKey(r) /\ KeyTtl \in Int
        BY <1>2, <3>2, <3>4, Numbers DEF OnceInv
      <4>2. k' = k /\ until' = until
        BY DEF RequestKey, TooLate
      <4> HIDE DEF k, until
      <4>3. PICK c, u : c = k /\ u = until
        OBVIOUS
      <4>4. Remembered(c, u)'
        BY <1>1, <2>1, <4>1, <4>3, ClaimRemembers
      <4> QED BY <4>2, <4>3, <4>4 DEF k, until
    <3> QED BY <3>3, <3>4
  <2>7. handled'[r.nonce] = 1
    BY <1>2, <2>1, <2>4 DEF TypesHold, HistoryOK
  <2> QED BY <2>1, <2>5, <2>6, <2>7 DEF OnceInv
<1>6. ASSUME NEW j \in live, Consume(j) PROVE OnceInv'
  <2>1. UNCHANGED <<clock, signed, handled>>
    BY <1>6 DEF Consume
  <2> DEFINE receipt == j.req.receipt
  <2>2. CASE UNCHANGED store
    BY <1>3, <2>1, <2>2
  <2>3. CASE ClaimKey(ApprovalKey(receipt), j.now, KeptFor(receipt, j.now))
    <3>1. j.now \in Nat /\ j.now <= clock /\ KeptFor(receipt, j.now) \in Int
      <4>1. j \in Handling /\ j.req \in Requests /\ j.req.action = "approve" /\ j.req \in signed
        BY <1>6 DEF Consume, TypesHold, LiveOK, Handling
      <4> QED BY <4>1 DEF TypesHold, HistoryOK, LiveOK, Handling, Receipts, KeptFor
    <3>2. \A s \in signed : handled[s.nonce] = 1 => Remembered(RequestKey(s), TooLate(s))'
      <4> TAKE s \in signed
      <4> HAVE handled[s.nonce] = 1
      <4>1. Remembered(RequestKey(s), TooLate(s)) /\ TooLate(s) \in Nat
        BY <1>2 DEF OnceInv
      <4>2. RequestKey(s) # ApprovalKey(receipt)
        BY DEF RequestKey, ApprovalKey
      <4> QED BY <1>1, <2>1, <2>3, <3>1, <4>1, <4>2, ClaimRemembers DEF RequestKey, TooLate
    <3> QED BY <2>1, <3>2 DEF OnceInv
  <2> QED BY <1>6, <2>2, <2>3 DEF Consume
<1> QED
  <2>1. ASSUME NEW r \in signed, Deliver(r), ~Claimable(RequestKey(r), clock)
        PROVE  UNCHANGED <<signed, store, handled>>
    BY <2>1 DEF Deliver
  <2>2. ASSUME NEW j \in live, ReadStatus(j) \/ Issue(j) \/ Permit(j) \/ Call(j) \/ Notify(j)
        PROVE  UNCHANGED <<signed, store, handled>>
    BY <2>2 DEF ReadStatus, Issue, Permit, Call, Notify
  <2>3. CASE UNCHANGED gatewayVars \/ Restart \/ LocalPause \/ LocalResume \/ Commit \/ Refine \/ Tick
    BY <1>3, <2>3 DEF gatewayVars, Restart, LocalPause, LocalResume, Commit, Refine, Tick
  <2> QED BY <1>3, <1>4, <1>5, <1>6, <2>1, <2>2, <2>3 DEF GatewayNext, Handle

\* With a key that outlives the skew, a signed request is let through once, however often
\* it is delivered and across restarts (ReplayStore.claimKey, validateRemoteRequest).
THEOREM RequestsAreHandledOnce ==
  ASSUME KeyOutlivesSkew PROVE GatewaySpec => []RequestOnce
<1>1. GatewayInit => OnceInv
  BY DEF GatewayInit, OnceInv
<1>2. TypesHold /\ OnceInv => RequestOnce
  <2> SUFFICES ASSUME TypesHold, OnceInv, NEW n \in 1..MaxRequests PROVE handled[n] <= 1
    BY DEF RequestOnce
  <2> QED BY DEF TypesHold, HistoryOK, OnceInv
<1> QED BY <1>1, <1>2, InitTypes, TypesAreInductive, OnceIsInductive, PTL DEF GatewaySpec

\* A receipt whose key was claimed is remembered for as long as it is valid.
ApprovalInv ==
  \A r \in DOMAIN consumed :
    /\ consumed[r] >= 1 => Remembered(ApprovalKey(r), r.expires)
    /\ consumed[r] > 1 => clock >= r.expires

LEMMA ApprovalIsInductive ==
  ASSUME TypesHold, ApprovalInv, [GatewayNext]_gatewayVars
  PROVE  ApprovalInv'
<1>1. clock \in Nat /\ clock' \in Nat /\ clock' >= clock /\ StoreOK
  <2>1. TypesHold'
    BY TypesAreInductive
  <2>2. clock' = clock \/ clock' = clock + 1
    BY DEF GatewayNext, gatewayVars, Ask, Sign, Deliver, Handle, ReadStatus, Issue, Consume, Permit,
           Call, Notify, Restart, LocalPause, LocalResume, Commit, Refine, Tick
  <2> QED BY <2>1, <2>2, Numbers DEF TypesHold, SignedOK
<1>2. \A r \in DOMAIN consumed : r \in Receipts /\ r.expires \in Nat /\ consumed[r] \in Nat
  BY DEF TypesHold, HistoryOK, Receipts
<1>0. ASSUME store' = store, NEW r \in DOMAIN consumed, consumed[r] >= 1
      PROVE  Remembered(ApprovalKey(r), r.expires)'
  <2>1. Remembered(ApprovalKey(r), r.expires)
    BY <1>0 DEF ApprovalInv
  <2> QED BY <1>0, <1>1, <1>2, <2>1, Ticking DEF ApprovalKey
<1>3. CASE UNCHANGED <<store, consumed>>
  <2>1. \A r \in DOMAIN consumed : consumed[r] > 1 => clock' >= r.expires
    BY <1>1, <1>2 DEF ApprovalInv
  <2> QED BY <1>0, <1>3, <2>1 DEF ApprovalInv
<1>4. ASSUME NEW j \in live, Issue(j) PROVE ApprovalInv'
  <2>1. /\ UNCHANGED <<store, clock>>
        /\ \A r \in DOMAIN consumed' : IF r \in DOMAIN consumed THEN consumed'[r] = consumed[r]
                                       ELSE consumed'[r] = 0
    BY <1>4 DEF Issue
  <2>2. \A r \in DOMAIN consumed : consumed[r] > 1 => clock' >= r.expires
    BY <1>1, <1>2, <2>1 DEF ApprovalInv
  <2>3. \A r \in DOMAIN consumed' : consumed'[r] >= 1 => Remembered(ApprovalKey(r), r.expires)'
    BY <1>0, <2>1
  <2>4. \A r \in DOMAIN consumed' : consumed'[r] > 1 => clock' >= r.expires
    BY <2>1, <2>2
  <2> QED BY <2>3, <2>4 DEF ApprovalInv
<1>5. ASSUME NEW r \in signed, Deliver(r), Claimable(RequestKey(r), clock) PROVE ApprovalInv'
  <2>1. /\ ClaimKey(RequestKey(r), clock, KeyTtl) /\ UNCHANGED <<clock, consumed>> /\ KeyTtl \in Int
    BY <1>5, Numbers DEF Deliver
  <2>2. \A s \in DOMAIN consumed :
          consumed[s] >= 1 => Remembered(ApprovalKey(s), s.expires)'
    <3> TAKE s \in DOMAIN consumed
    <3> HAVE consumed[s] >= 1
    <3>1. Remembered(ApprovalKey(s), s.expires) /\ ApprovalKey(s) # RequestKey(r)
      BY DEF ApprovalInv, ApprovalKey, RequestKey
    <3> QED BY <1>1, <1>2, <2>1, <3>1, ClaimRemembers DEF ApprovalKey
  <2> QED BY <2>1, <2>2 DEF ApprovalInv
<1>6. ASSUME NEW j \in live, Consume(j), ~UNCHANGED <<store, consumed>> PROVE ApprovalInv'
  <2> DEFINE receipt == j.req.receipt
  <2>1. /\ Bound(receipt, j) /\ Claimable(ApprovalKey(receipt), j.now)
        /\ ClaimKey(ApprovalKey(receipt), j.now, KeptFor(receipt, j.now))
        /\ consumed' = [consumed EXCEPT ![receipt] = consumed[receipt] + 1]
        /\ clock' = clock
    BY <1>6 DEF Consume
  <2>2. j.now \in Nat /\ j.now <= clock /\ receipt \in DOMAIN consumed
    <3>1. j \in Handling /\ j.req.action = "approve" /\ j.req \in signed
      BY <1>6 DEF Consume, TypesHold, LiveOK
    <3> QED BY <3>1 DEF TypesHold, HistoryOK, LiveOK, Handling
  <2>3. receipt.expires \in Nat /\ consumed[receipt] \in Nat /\ receipt.expires > j.now
    BY <1>2, <2>1, <2>2 DEF Bound
  <2>4. KeptFor(receipt, j.now) \in Int /\ j.now + KeptFor(receipt, j.now) = receipt.expires
    BY <2>2, <2>3 DEF KeptFor
  <2> HIDE DEF receipt
  <2>5. \A s \in DOMAIN consumed :
          (consumed[s] >= 1 \/ s = receipt) => Remembered(ApprovalKey(s), s.expires)'
    <3> TAKE s \in DOMAIN consumed
    <3>1. CASE s = receipt
      <4>1. ApprovalKey(s) \in DOMAIN store' /\ store'[ApprovalKey(s)] = receipt.expires
        BY <2>1, <2>4, <3>1 DEF ClaimKey
      <4> QED BY <2>3, <3>1, <4>1 DEF Remembered, ApprovalKey
    <3>2. CASE s # receipt /\ consumed[s] >= 1
      <4>1. Remembered(ApprovalKey(s), s.expires) /\ ApprovalKey(s) # ApprovalKey(receipt)
        BY <3>2 DEF ApprovalInv, ApprovalKey
      <4> QED BY <1>1, <1>2, <2>1, <2>2, <2>4, <4>1, ClaimRemembers DEF ApprovalKey
    <3> QED BY <3>1, <3>2
  <2>6. consumed[receipt] >= 1 => clock >= receipt.expires
    <3> SUFFICES ASSUME consumed[receipt] >= 1, ~(clock >= receipt.expires) PROVE FALSE
      OBVIOUS
    <3>1. ApprovalKey(receipt) \in DOMAIN store /\ store[ApprovalKey(receipt)] >= receipt.expires
          /\ store[ApprovalKey(receipt)] \in Nat
      BY <1>1, <2>2 DEF ApprovalInv, Remembered, StoreOK
    <3>2. ApprovalKey(receipt) \in Unexpired(j.now)
      BY <2>2, <2>3, <3>1 DEF Unexpired
    <3> QED BY <2>1, <3>2 DEF Claimable
  <2>7. ASSUME NEW s \in DOMAIN consumed' PROVE consumed'[s] > 1 => clock' >= s.expires
    <3>1. s \in DOMAIN consumed /\ consumed'[s] = IF s = receipt THEN consumed[s] + 1 ELSE consumed[s]
      BY <2>1, <2>7
    <3> QED BY <1>2, <2>1, <2>3, <2>6, <3>1 DEF ApprovalInv
  <2>8. ASSUME NEW s \in DOMAIN consumed'
        PROVE  consumed'[s] >= 1 => Remembered(ApprovalKey(s), s.expires)'
    <3>1. s \in DOMAIN consumed /\ consumed'[s] = IF s = receipt THEN consumed[s] + 1 ELSE consumed[s]
      BY <2>1, <2>8
    <3> QED BY <2>5, <3>1
  <2> QED BY <2>7, <2>8 DEF ApprovalInv
<1> QED
  <2>1. ASSUME NEW r \in signed, Deliver(r), ~Claimable(RequestKey(r), clock)
        PROVE  UNCHANGED <<store, consumed>>
    BY <2>1 DEF Deliver
  <2>2. ASSUME NEW j \in live, ReadStatus(j) \/ Permit(j) \/ Call(j) \/ Notify(j)
        PROVE  UNCHANGED <<store, consumed>>
    BY <2>2 DEF ReadStatus, Permit, Call, Notify
  <2>3. CASE UNCHANGED gatewayVars \/ Ask \/ Restart \/ LocalPause \/ LocalResume \/ Commit
             \/ Refine \/ Tick
    BY <1>3, <2>3 DEF gatewayVars, Ask, Sign, Restart, LocalPause, LocalResume, Commit, Refine, Tick
  <2> QED BY <1>3, <1>4, <1>5, <1>6, <2>1, <2>2, <2>3 DEF GatewayNext, Handle

\* A receipt is consumed at most once while it is valid, by however many requests at a time
\* and whenever they were admitted: what a late claim drops had expired (#approve,
\* ReplayStore.claimKey).
THEOREM ReceiptsAreConsumedOnce == GatewaySpec => []ApprovalOnce
<1>1. GatewayInit => ApprovalInv
  BY DEF GatewayInit, ApprovalInv
<1>2. ApprovalInv => ApprovalOnce
  BY DEF ApprovalInv, ApprovalOnce
<1> QED BY <1>1, <1>2, InitTypes, TypesAreInductive, ApprovalIsInductive, PTL DEF GatewaySpec

-----------------------------------------------------------------------------
(* Backups and restores. *)

JobSteps == {"idle", "read", "sign", "clear", "write", "pause", "move", "swap"}
Busy == [at : JobSteps, read : Trees, moved : Trees \cup {Absent}]

BackupInv ==
  /\ {shipping, stage, bundle} \subseteq Trees \cup {Absent} /\ kept \subseteq Trees
  /\ job \in [Jobs -> Busy]
  /\ work \in 0..MaxWork /\ stops \in 0..MaxStops

LEMMA EmptyIsATree == Empty \in Trees /\ Empty # Absent
BY AbsentIsNothing DEF Empty, Trees

LEMMA BusyChanges ==
  ASSUME NEW j \in Busy
  PROVE  /\ \A a \in JobSteps : [j EXCEPT !.at = a] \in Busy
         /\ \A a \in JobSteps, t \in Trees : [j EXCEPT !.at = a, !.read = t] \in Busy
         /\ \A a \in JobSteps, t \in Trees \cup {Absent} : [j EXCEPT !.at = a, !.moved = t] \in Busy
         /\ j.read \in Trees /\ j.moved \in Trees \cup {Absent}
BY DEF Busy

LEMMA TreeChanges ==
  ASSUME NEW t \in Trees
  PROVE  /\ t.contract \in (0..MaxWork) \cup {Absent} /\ t.state \in StateFiles \cup {Absent}
         /\ \A c \in (0..MaxWork) \cup {Absent} : [t EXCEPT !.contract = c] \in Trees
         /\ \A s \in StateFiles \cup {Absent} : [t EXCEPT !.state = s] \in Trees
BY DEF Trees

LEMMA PausedIsAState ==
  ASSUME NEW s \in StateFiles PROVE PausedState(s) \in StateFiles
BY DEF PausedState, StateFiles

LEMMA BackupInvInitially == BackupInit => BackupInv /\ NothingLost
<1> SUFFICES ASSUME BackupInit PROVE BackupInv /\ NothingLost
  OBVIOUS
<1> USE DEF BackupInit
<1>1. 0 \in 0..MaxWork /\ 0 \in 0..MaxStops
  BY BackupAssumption
<1>2. [state |-> "LOCKED", human |-> FALSE, work |-> 0] \in StateFiles
  BY <1>1 DEF StateFiles
<1>3. shipping \in Trees /\ shipping # Absent /\ shipping.state # Absent /\ shipping.state.work = work
  <2>1. shipping \in Trees
    BY <1>1, <1>2 DEF Trees
  <2>2. shipping.state \in StateFiles /\ shipping.state.work = work
    BY <1>2
  <2> QED BY <2>1, <2>2, AbsentIsNothing
<1>4. Idle \in Busy
  BY EmptyIsATree DEF Idle, Busy, JobSteps
<1> QED BY <1>1, <1>3, <1>4 DEF BackupInv, NothingLost

LEMMA BackupTypes ==
  ASSUME BackupInv, [BackupNext]_backupVars
  PROVE  BackupInv'
<1> USE DEF BackupInv
<1>0. Idle \in Busy
  BY EmptyIsATree DEF Idle, Busy, JobSteps
<1>1. CASE UNCHANGED backupVars
  BY <1>1 DEF backupVars
<1>2. CASE Work
  <2> PICK t \in {<<"LOCKED", "RUNNING">>, <<"RUNNING", "LOCKED">>, <<"RUNNING", "CLOSED">>} :
         shipping' = [contract |-> work + 1,
                      state |-> [state |-> t[2], human |-> FALSE, work |-> work + 1]]
    BY <1>2 DEF Work, Transitions
  <2>1. work + 1 \in 0..MaxWork
    BY <1>2, BackupAssumption DEF Work
  <2>2. [state |-> t[2], human |-> FALSE, work |-> work + 1] \in StateFiles
    BY <2>1 DEF StateFiles, ActiveStates, TerminalStates
  <2>3. shipping' \in Trees
    BY <2>1, <2>2 DEF Trees
  <2> QED BY <1>2, <2>1, <2>3 DEF Work
<1>3. CASE StopGateway
  <2>1. stops + 1 \in 0..MaxStops
    BY <1>3, BackupAssumption DEF StopGateway
  <2> QED BY <1>0, <1>3, <2>1 DEF StopGateway
<1>4. ASSUME NEW j \in Jobs,
             \/ ReadContract(j) \/ ReadState(j) \/ SignBundle(j)
             \/ CheckActive(j) \/ ClearStage(j) \/ WriteStage(j) \/ PauseStage(j)
             \/ MoveAway(j) \/ SwapIn(j) \/ RollBack(j)
      PROVE  BackupInv'
  <2>0. job[j] \in Busy
    OBVIOUS
  <2>1. \A a \in JobSteps : [job EXCEPT ![j].at = a] \in [Jobs -> Busy]
    <3> TAKE a \in JobSteps
    <3>1. [job EXCEPT ![j].at = a] = [job EXCEPT ![j] = [job[j] EXCEPT !.at = a]]
      OBVIOUS
    <3> QED BY <2>0, <3>1, BusyChanges
  <2>2. Ends(j) => job' \in [Jobs -> Busy]
    BY <1>0 DEF Ends
  <2>3. \A a \in JobSteps : Goes(j, a) => job' \in [Jobs -> Busy]
    BY <2>1 DEF Goes
  <2>4. CASE ReadContract(j)
    <3>1. shipping \in Trees
      BY <2>4 DEF ReadContract
    <3>2. [job[j].read EXCEPT !.contract = shipping.contract] \in Trees
      BY <2>0, <3>1, BusyChanges, TreeChanges
    <3>3. job' = [job EXCEPT ![j] = [job[j] EXCEPT !.at = "read",
                    !.read = [job[j].read EXCEPT !.contract = shipping.contract]]]
      BY <2>0, <2>4 DEF ReadContract, Busy, Trees
    <3>4. job' \in [Jobs -> Busy]
      BY <2>0, <3>2, <3>3, BusyChanges DEF JobSteps
    <3> QED BY <2>4, <3>4 DEF ReadContract
  <2>5. CASE ReadState(j)
    <3>1. CASE shipping = Absent
      BY <2>2, <2>5, <3>1 DEF ReadState
    <3>2. CASE shipping # Absent
      <4>1. [job[j].read EXCEPT !.state = shipping.state] \in Trees
        BY <2>0, <3>2, BusyChanges, TreeChanges
      <4>2. job' = [job EXCEPT ![j] = [job[j] EXCEPT !.at = "sign",
                      !.read = [job[j].read EXCEPT !.state = shipping.state]]]
        BY <2>0, <2>5, <3>2 DEF ReadState, Busy, Trees
      <4>3. job' \in [Jobs -> Busy]
        BY <2>0, <4>1, <4>2, BusyChanges DEF JobSteps
      <4> QED BY <2>5, <4>3 DEF ReadState
    <3> QED BY <3>1, <3>2
  <2>6. CASE SignBundle(j)
    BY <2>0, <2>2, <2>6, BusyChanges DEF SignBundle
  <2>7. CASE CheckActive(j)
    <3>1. job' = [job EXCEPT ![j] = [job[j] EXCEPT !.at = "clear", !.read = bundle]] /\ bundle \in Trees
      BY <2>0, <2>7 DEF CheckActive, Busy
    <3>2. job' \in [Jobs -> Busy]
      BY <2>0, <3>1, BusyChanges DEF JobSteps
    <3> QED BY <2>7, <3>2 DEF CheckActive
  <2>8. CASE ClearStage(j)
    BY <2>3, <2>8, EmptyIsATree DEF ClearStage, JobSteps
  <2>9. CASE WriteStage(j)
    <3> DEFINE tree == IF stage = Absent THEN Empty ELSE stage
    <3>1. tree \in Trees /\ job[j].read \in Trees
      BY <2>0, EmptyIsATree, BusyChanges
    <3>2. stage' \in Trees
      <4>1. \/ stage' = [tree EXCEPT !.contract = job[j].read.contract]
            \/ stage' = [tree EXCEPT !.state = job[j].read.state]
        BY <2>9 DEF WriteStage
      <4> HIDE DEF tree
      <4> QED BY <3>1, <4>1, TreeChanges
    <3>3. job' = job \/ Goes(j, "pause")
      BY <2>9 DEF WriteStage
    <3>4. job' \in [Jobs -> Busy]
      BY <2>3, <3>3 DEF JobSteps
    <3> QED BY <2>9, <3>2, <3>4 DEF WriteStage
  <2>10. CASE PauseStage(j)
    <3>1. stage' \in Trees \cup {Absent}
      <4>1. CASE stage = Absent \/ stage.state = Absent
        BY <2>10, <4>1 DEF PauseStage
      <4>2. CASE ~(stage = Absent \/ stage.state = Absent)
        <5>1. stage \in Trees /\ PausedState(stage.state) \in StateFiles
          BY <4>2, TreeChanges, PausedIsAState
        <5>2. stage' = [stage EXCEPT !.state = PausedState(stage.state)]
          BY <2>10, <4>2 DEF PauseStage
        <5> QED BY <5>1, <5>2, TreeChanges
      <4> QED BY <4>1, <4>2
    <3>2. job' \in [Jobs -> Busy]
      BY <2>3, <2>10 DEF PauseStage, JobSteps
    <3> QED BY <2>10, <3>1, <3>2 DEF PauseStage
  <2>11. CASE MoveAway(j)
    <3>1. job' = [job EXCEPT ![j] = [job[j] EXCEPT !.at = "swap", !.moved = shipping]]
      BY <2>0, <2>11 DEF MoveAway, Busy
    <3>2. job' \in [Jobs -> Busy]
      BY <2>0, <3>1, BusyChanges DEF JobSteps
    <3>3. kept' \subseteq Trees
      BY <2>11 DEF MoveAway, MovedAway
    <3> QED BY <2>11, <3>2, <3>3 DEF MoveAway
  <2>12. CASE SwapIn(j)
    BY <2>2, <2>12 DEF SwapIn
  <2>13. CASE RollBack(j)
    BY <2>0, <2>2, <2>13, BusyChanges DEF RollBack
  <2> QED BY <1>4, <2>4, <2>5, <2>6, <2>7, <2>8, <2>9, <2>10, <2>11, <2>12, <2>13
<1> QED BY <1>1, <1>2, <1>3, <1>4 DEF BackupNext

\* A tree that holds the last transition; it stands until a transition is made.
Holds(t) == t # Absent /\ t.state # Absent /\ t.state.work = work

LEMMA HeldStays ==
  ASSUME BackupInv, NothingLost, [BackupNext]_backupVars
  PROVE  NothingLost'
<1> USE DEF BackupInv
<1>1. PICK t \in {shipping} \cup kept : Holds(t)
  BY DEF NothingLost, Holds
<1>2. ASSUME t \in {shipping'} \cup kept', work' = work
      PROVE  NothingLost'
  BY <1>1, <1>2 DEF NothingLost, Holds
<1>3. CASE Work
  <2> PICK u \in {<<"LOCKED", "RUNNING">>, <<"RUNNING", "LOCKED">>, <<"RUNNING", "CLOSED">>} :
         shipping' = [contract |-> work + 1,
                      state |-> [state |-> u[2], human |-> FALSE, work |-> work + 1]]
    BY <1>3 DEF Work, Transitions
  <2>1. work' = work + 1 /\ work + 1 \in 0..MaxWork
    BY <1>3, BackupAssumption DEF Work
  <2>2. shipping'.state \in StateFiles /\ shipping'.state.work = work'
    BY <2>1 DEF StateFiles, ActiveStates, TerminalStates
  <2>3. shipping' \in Trees
    BY <2>1, <2>2 DEF Trees
  <2>4. shipping' # Absent /\ shipping'.state # Absent
    BY <2>2, <2>3, AbsentIsNothing
  <2> QED BY <2>2, <2>4 DEF NothingLost
<1>4. ASSUME NEW j \in Jobs, MoveAway(j) PROVE NothingLost'
  <2>1. t \in kept' /\ work' = work
    BY <1>1, <1>4 DEF MoveAway, MovedAway, Holds
  <2> QED BY <1>2, <2>1
<1>5. ASSUME NEW j \in Jobs, SwapIn(j) PROVE NothingLost'
  <2>1. t \in kept' /\ work' = work
    BY <1>1, <1>5 DEF SwapIn, Holds
  <2> QED BY <1>2, <2>1
<1>6. ASSUME NEW j \in Jobs, RollBack(j) PROVE NothingLost'
  <2>1. t \in {shipping'} \cup kept' /\ work' = work
    BY <1>1, <1>6 DEF RollBack, Holds
  <2> QED BY <1>2, <2>1
<1>7. CASE UNCHANGED <<shipping, kept, work>>
  BY <1>1, <1>2, <1>7
<1> QED BY <1>3, <1>4, <1>5, <1>6, <1>7
        DEF BackupNext, backupVars, ReadContract, ReadState, SignBundle, CheckActive, ClearStage,
            WriteStage, PauseStage, StopGateway

\* Wherever a restore fails or stops between its two renames, and however many are at work,
\* the last transition is in .shipping or in a directory that was kept (restoreBackup).
THEOREM RestoresLoseNothing == BackupSpec => [](BackupTypeOK /\ NothingLost)
<1>1. BackupInv => BackupTypeOK
  BY DEF BackupInv, BackupTypeOK, Busy, JobSteps
<1> QED BY <1>1, BackupInvInitially, BackupTypes, HeldStays, PTL DEF BackupSpec

-----------------------------------------------------------------------------
(***************************************************************************)
(* An MCP session.  Ids are handed out in the order of arrival, so what is *)
(* queued came after what is in flight.  The calls that have not settled   *)
(* form a chain: the last one is the chain's end, and any but the first    *)
(* waits for one that is at least as late as every earlier one.            *)
(***************************************************************************)

Calls(tasks) == {t \in tasks : t.at \in {"wait", "run"}}

Chained(tasks, end) ==
  /\ \A t \in Calls(tasks) : t.msg.id <= end /\ t.after < t.msg.id
  /\ Calls(tasks) # {} => \E t \in Calls(tasks) : t.msg.id = end
  /\ \A t, u \in Calls(tasks) : u.msg.id < t.msg.id =>
       t.at = "wait" /\ u.msg.id <= t.after /\ \E v \in Calls(tasks) : v.msg.id = t.after

Ordered(lines, tasks, end, last) ==
  /\ \A i \in 1..Len(lines) : end < lines[i].id /\ lines[i].id <= last
  /\ \A i, j \in 1..Len(lines) : i < j => lines[i].id < lines[j].id
  /\ \A t \in tasks : t.msg.id <= last /\ \A i \in 1..Len(lines) : t.msg.id < lines[i].id
  /\ \A t, u \in tasks : t.msg.id = u.msg.id => t = u

SoundSession(lines, tasks, end, last) ==
  /\ last \in 0..MaxMessages /\ end \in 0..last
  /\ lines \in Seq(Messages) /\ tasks \in SUBSET Tasks /\ IsFiniteSet(tasks)
  /\ Ordered(lines, tasks, end, last) /\ Chained(tasks, end)

SessionInv ==
  /\ SoundSession(queue, inFlight, chain, sent)
  /\ Len(queue) <= MaxQueued /\ Cardinality(inFlight) <= MaxInFlight
  /\ queue # <<>> => Cardinality(inFlight) = MaxInFlight
  /\ initialized \in BOOLEAN /\ cancelled \in SUBSET (0..MaxMessages) /\ answered \in SUBSET (1..MaxMessages)

\* The ids of messages, and the parts of a task, are numbers and places.
LEMMA SessionTypes ==
  /\ MaxInFlight \in Nat \ {0} /\ MaxQueued \in Nat \ {0} /\ MaxMessages \in Nat
  /\ \A m \in Messages : m.id \in 1..MaxMessages /\ m.of \in 0..MaxMessages
  /\ \A t \in Tasks : /\ t.msg \in Messages /\ t.msg.id \in 1..MaxMessages
                      /\ t.at \in {"answer", "wait", "run"} /\ t.after \in 0..MaxMessages
<1>1. MaxInFlight \in Nat \ {0} /\ MaxQueued \in Nat \ {0} /\ MaxMessages \in Nat
  BY McpAssumption
<1>2. ASSUME NEW m \in Messages
      PROVE  m.id \in 1..MaxMessages /\ m.of \in 0..MaxMessages
  <2>1. m.id \in 1..MaxMessages /\ (m.of \in {0} \/ m.of \in 0..MaxMessages)
    BY DEF Messages
  <2> QED
    BY <1>1, <2>1
<1>3. \A t \in Tasks : /\ t.msg \in Messages
                       /\ t.at \in {"answer", "wait", "run"} /\ t.after \in 0..MaxMessages
  BY DEF Tasks
<1> QED
  BY <1>1, <1>2, <1>3

\* A call that goes on is the first of the chain.
LEMMA FirstOfChain ==
  ASSUME NEW tasks \in SUBSET Tasks, NEW end, Chained(tasks, end), NEW t \in Calls(tasks),
         t.at = "run" \/ ~\E u \in Calls(tasks) : u.msg.id = t.after
  PROVE  \A u \in Calls(tasks) : ~(u.msg.id < t.msg.id)
<1> QED
  BY DEF Chained

\* The first call of the chain settles.
LEMMA SettledCallKeepsChain ==
  ASSUME NEW tasks \in SUBSET Tasks, NEW end \in Nat, Chained(tasks, end), NEW t \in Calls(tasks),
         \A u \in Calls(tasks) : ~(u.msg.id < t.msg.id),
         \A u, v \in tasks : u.msg.id = v.msg.id => u = v,
         NEW after, Calls(after) = Calls(tasks) \ {t}
  PROVE  Chained(after, end)
<1>1. \A u \in Calls(tasks) : u \in tasks /\ u.msg.id \in Nat /\ u.after \in Nat
  BY SessionTypes DEF Calls
<1>2. \A u \in Calls(tasks) \ {t} : t.msg.id < u.msg.id
  BY <1>1
<1>3. Calls(after) # {} => \E u \in Calls(after) : u.msg.id = end
  BY <1>1, <1>2 DEF Chained
<1>4. ASSUME NEW u \in Calls(after), NEW v \in Calls(after), v.msg.id < u.msg.id
      PROVE  u.at = "wait" /\ v.msg.id <= u.after /\ \E w \in Calls(after) : w.msg.id = u.after
  <2>1. u.at = "wait" /\ v.msg.id <= u.after
    BY <1>4 DEF Chained
  <2>2. PICK w \in Calls(tasks) : w.msg.id = u.after
    BY <1>4 DEF Chained
  <2>3. w # t
    BY <1>1, <1>2, <2>1, <2>2
  <2> QED
    BY <2>1, <2>2, <2>3
<1>5. \A u \in Calls(after) : u.msg.id <= end /\ u.after < u.msg.id
  BY DEF Chained
<1> QED
  BY <1>3, <1>4, <1>5 DEF Chained

\* The first call of the chain takes its turn.
LEMMA TurnKeepsChain ==
  ASSUME NEW tasks \in SUBSET Tasks, NEW end \in Nat, Chained(tasks, end), NEW t \in Calls(tasks),
         \A u \in Calls(tasks) : ~(u.msg.id < t.msg.id),
         NEW run, run.msg = t.msg, run.after = t.after, run.at = "run",
         NEW after, Calls(after) = (Calls(tasks) \ {t}) \cup {run}
  PROVE  Chained(after, end)
<1>1. \A u \in Calls(tasks) : u.msg.id \in Nat /\ u.after \in Nat
  BY SessionTypes DEF Calls
<1>2. \A id : (\E u \in Calls(tasks) : u.msg.id = id) => \E u \in Calls(after) : u.msg.id = id
  OBVIOUS
<1>3. Calls(after) # {} => \E u \in Calls(after) : u.msg.id = end
  BY <1>2 DEF Chained
<1>4. ASSUME NEW u \in Calls(after), NEW v \in Calls(after), v.msg.id < u.msg.id
      PROVE  u.at = "wait" /\ v.msg.id <= u.after /\ \E w \in Calls(after) : w.msg.id = u.after
  <2>1. PICK x \in Calls(tasks) : x.msg.id = v.msg.id
    OBVIOUS
  <2>2. u \in Calls(tasks) /\ u # run
    BY <1>4, <2>1
  <2>3. u.at = "wait" /\ x.msg.id <= u.after /\ \E w \in Calls(tasks) : w.msg.id = u.after
    BY <1>4, <2>1, <2>2 DEF Chained
  <2> QED
    BY <1>2, <2>1, <2>3
<1>5. \A u \in Calls(after) : u.msg.id <= end /\ u.after < u.msg.id
  BY DEF Chained
<1> QED
  BY <1>3, <1>4, <1>5 DEF Chained

\* A new call waits for the end of the chain and becomes it.
LEMMA NewCallKeepsChain ==
  ASSUME NEW tasks \in SUBSET Tasks, NEW end \in Nat, Chained(tasks, end),
         NEW t, t.at = "wait", t.after = end, t.msg.id \in Nat, end < t.msg.id
  PROVE  Chained(tasks \cup {t}, t.msg.id)
<1> DEFINE after == tasks \cup {t}
<1>1. \A u \in Calls(tasks) : u.msg.id \in Nat /\ u.after \in Nat /\ u.msg.id <= end /\ u.after < u.msg.id
  BY SessionTypes DEF Calls, Chained
<1>2. Calls(after) = Calls(tasks) \cup {t}
  BY DEF Calls
<1> HIDE DEF after
<1>3. ASSUME NEW u \in Calls(after), NEW v \in Calls(after), v.msg.id < u.msg.id
      PROVE  u.at = "wait" /\ v.msg.id <= u.after /\ \E w \in Calls(after) : w.msg.id = u.after
  <2>1. v \in Calls(tasks)
    BY <1>1, <1>2, <1>3
  <2>2. CASE u = t
    <3>1. PICK w \in Calls(tasks) : w.msg.id = end
      BY <2>1 DEF Chained
    <3> QED
      BY <1>1, <1>2, <2>1, <2>2, <3>1
  <2>3. CASE u # t
    <3>1. u.at = "wait" /\ v.msg.id <= u.after /\ \E w \in Calls(tasks) : w.msg.id = u.after
      BY <1>2, <1>3, <2>1, <2>3 DEF Chained
    <3> QED
      BY <1>2, <3>1
  <2> QED
    BY <2>2, <2>3
<1>4. \A u \in Calls(after) : u.msg.id <= t.msg.id /\ u.after < u.msg.id
  BY <1>1, <1>2
<1>5. \E u \in Calls(after) : u.msg.id = t.msg.id
  BY <1>2
<1>6. Chained(after, t.msg.id)
  BY <1>3, <1>4, <1>5 DEF Chained
<1> QED
  BY <1>6 DEF after

\* The oldest line starts.
LEMMA StartKeepsSession ==
  ASSUME NEW lines, NEW tasks, NEW end, NEW last, SoundSession(lines, tasks, end, last), lines # <<>>,
         NEW call \in BOOLEAN
  PROVE  LET m == Head(lines)
             task == [msg |-> m, at |-> IF call THEN "wait" ELSE "answer", after |-> IF call THEN end ELSE 0]
         IN  /\ m \in Messages /\ Len(Tail(lines)) = Len(lines) - 1
             /\ SoundSession(Tail(lines), tasks \cup {task}, IF call THEN m.id ELSE end, last)
             /\ Cardinality(tasks \cup {task}) = Cardinality(tasks) + 1
<1> DEFINE m == Head(lines)
           task == [msg |-> m, at |-> IF call THEN "wait" ELSE "answer", after |-> IF call THEN end ELSE 0]
           rest == Tail(lines)
           newEnd == IF call THEN m.id ELSE end
<1>1. /\ lines \in Seq(Messages) /\ tasks \in SUBSET Tasks /\ IsFiniteSet(tasks)
      /\ last \in 0..MaxMessages /\ end \in 0..last
      /\ Ordered(lines, tasks, end, last) /\ Chained(tasks, end)
  BY DEF SoundSession
<1>2. /\ rest \in Seq(Messages) /\ m \in Messages /\ Len(lines) \in Nat \ {0}
      /\ Len(rest) = Len(lines) - 1 /\ m = lines[1]
      /\ \A i \in 1..Len(rest) : rest[i] = lines[i + 1]
  BY <1>1, HeadTailProperties, ElementOfSeq, LenProperties, EmptySeq
<1>3. m.id \in 1..MaxMessages /\ end < m.id /\ m.id <= last
  BY <1>1, <1>2, SessionTypes DEF Ordered
<1>4. task \in Tasks /\ task.msg = m
  <2>1. end \in 0..MaxMessages /\ 0 \in 0..MaxMessages
    BY <1>1, SessionTypes
  <2> QED
    BY <1>2, <2>1 DEF Tasks
<1>5. \A t \in tasks : t.msg.id < m.id
  BY <1>1, <1>2 DEF Ordered
<1>6. task \notin tasks
  BY <1>3, <1>4, <1>5
<1>7. IsFiniteSet(tasks \cup {task}) /\ Cardinality(tasks \cup {task}) = Cardinality(tasks) + 1
  BY <1>1, <1>6, FS_AddElement
<1>8. newEnd \in 0..last
  BY <1>1, <1>3
<1>9. Ordered(rest, tasks \cup {task}, newEnd, last)
  <2>1. \A i \in 1..Len(rest) : i + 1 \in 1..Len(lines) /\ 1 < i + 1 /\ 1 \in 1..Len(lines)
    BY <1>2
  <2>2. \A i \in 1..Len(rest) : end < rest[i].id /\ rest[i].id <= last /\ m.id < rest[i].id
    BY <1>1, <1>2, <2>1 DEF Ordered
  <2>3. \A i, j \in 1..Len(rest) : i < j => rest[i].id < rest[j].id
    <3> SUFFICES ASSUME NEW i \in 1..Len(rest), NEW j \in 1..Len(rest), i < j
                 PROVE  rest[i].id < rest[j].id
      OBVIOUS
    <3>1. i + 1 \in 1..Len(lines) /\ j + 1 \in 1..Len(lines) /\ i + 1 < j + 1
      BY <1>2
    <3>2. lines[i + 1].id < lines[j + 1].id
      BY <1>1, <3>1 DEF Ordered
    <3> QED
      BY <1>2, <3>2
  <2>4. \A t \in tasks : t.msg.id <= last /\ \A i \in 1..Len(rest) : t.msg.id < rest[i].id
    BY <1>1, <1>2, <2>1 DEF Ordered
  <2>5. \A t, u \in tasks \cup {task} : t.msg.id = u.msg.id => t = u
    BY <1>1, <1>3, <1>4, <1>5 DEF Ordered
  <2>6. \A i \in 1..Len(rest) : newEnd < rest[i].id
    BY <2>2
  <2> HIDE DEF rest, task, newEnd
  <2> QED
    BY <1>3, <1>4, <2>2, <2>3, <2>4, <2>5, <2>6 DEF Ordered
<1>10. Chained(tasks \cup {task}, newEnd)
  <2>1. CASE call
    <3>1. task.at = "wait" /\ task.after = end /\ task.msg.id = m.id /\ newEnd = m.id
      BY <2>1
    <3>2. end \in Nat /\ m.id \in Nat
      BY <1>1, <1>3
    <3> HIDE DEF task, m, newEnd
    <3> QED
      BY <1>1, <1>3, <3>1, <3>2, NewCallKeepsChain
  <2>2. CASE ~call
    <3>1. task.at = "answer" /\ newEnd = end
      BY <2>2
    <3> HIDE DEF task, newEnd
    <3>2. Calls(tasks \cup {task}) = Calls(tasks)
      BY <3>1 DEF Calls
    <3> QED
      BY <1>1, <3>1, <3>2 DEF Chained
  <2> QED
    BY <2>1, <2>2
<1> HIDE DEF m, task, rest, newEnd
<1>11. SoundSession(rest, tasks \cup {task}, newEnd, last)
  BY <1>1, <1>2, <1>4, <1>7, <1>8, <1>9, <1>10 DEF SoundSession
<1> QED
  BY <1>2, <1>7, <1>11 DEF m, task, rest, newEnd

\* A drain after a line arrived or a slot became free leaves no line waiting beside
\* a free slot.
LEMMA DrainKeepsSession ==
  ASSUME NEW lines, NEW tasks, SoundSession(lines, tasks, chain, sent'), Drained(lines, tasks),
         Cardinality(tasks) <= MaxInFlight,
         Len(lines) > 1 => Cardinality(tasks) >= MaxInFlight - 1,
         initialized \in BOOLEAN, cancelled \in SUBSET (0..MaxMessages)
  PROVE  /\ SoundSession(queue, inFlight, chain, sent)'
         /\ Len(queue') <= Len(lines) /\ Cardinality(inFlight') <= MaxInFlight
         /\ queue' # <<>> => Cardinality(inFlight') = MaxInFlight
         /\ Cardinality(tasks) < MaxInFlight /\ lines # <<>> => Len(queue') = Len(lines) - 1
         /\ initialized' \in BOOLEAN /\ cancelled' \in SUBSET (0..MaxMessages)
<1>1. lines \in Seq(Messages) /\ IsFiniteSet(tasks) /\ Cardinality(tasks) \in Nat /\ Len(lines) \in Nat
  BY FS_CardinalityType, LenProperties DEF SoundSession
<1>2. CASE lines # <<>> /\ Cardinality(tasks) < MaxInFlight
  <2> DEFINE m == Head(lines)
             call == IsToolCall(m)
             task == [msg |-> m, at |-> IF call THEN "wait" ELSE "answer", after |-> IF call THEN chain ELSE 0]
  <2>1. queue' = Tail(lines) /\ Starts(m, tasks)
    BY <1>2 DEF Drained
  <2>2. call \in BOOLEAN
    BY DEF IsToolCall
  <2>3. /\ inFlight' = tasks \cup {task} /\ chain' = IF call THEN m.id ELSE chain
        /\ initialized' = (initialized \/ m.method = "initialized" \/ (m.method = "initialize" /\ m.versioned))
        /\ cancelled' = IF m.method = "cancelled" THEN cancelled \cup {m.of} ELSE cancelled
    BY <2>1 DEF Starts, NextChain
  <2>4. /\ m \in Messages /\ Len(Tail(lines)) = Len(lines) - 1
        /\ SoundSession(Tail(lines), tasks \cup {task}, IF call THEN m.id ELSE chain, sent')
        /\ Cardinality(tasks \cup {task}) = Cardinality(tasks) + 1
    <3> HIDE DEF call
    <3> QED
      BY <1>2, <2>2, StartKeepsSession
  <2>5. initialized' \in BOOLEAN
    BY <2>3
  <2>6. cancelled' \in SUBSET (0..MaxMessages)
    BY <2>3, <2>4, SessionTypes
  <2>7. SoundSession(queue', inFlight', chain', sent')
    BY <2>1, <2>3, <2>4
  <2>8. Len(queue') = Len(lines) - 1 /\ Cardinality(inFlight') = Cardinality(tasks) + 1
    BY <2>1, <2>3, <2>4
  <2>9. queue' # <<>> => Len(queue') # 0
    BY <2>7, EmptySeq DEF SoundSession
  <2> HIDE DEF m, call, task
  <2> QED
    BY <1>1, <1>2, <2>5, <2>6, <2>7, <2>8, <2>9, SessionTypes
<1>3. CASE ~(lines # <<>> /\ Cardinality(tasks) < MaxInFlight)
  <2>1. queue' = lines /\ inFlight' = tasks /\ UNCHANGED <<chain, initialized, cancelled>>
    BY <1>3 DEF Drained
  <2>2. SoundSession(queue', inFlight', chain', sent')
    BY <2>1
  <2> QED
    BY <1>1, <1>3, <2>1, <2>2, SessionTypes
<1> QED
  BY <1>2, <1>3

LEMMA ReceiveKeepsSession ==
  ASSUME SessionInv, NEW m \in Messages, Receive(m)
  PROVE  SessionInv'
<1>1. /\ SoundSession(queue, inFlight, chain, sent) /\ queue \in Seq(Messages)
      /\ Ordered(queue, inFlight, chain, sent)
      /\ inFlight \in SUBSET Tasks /\ IsFiniteSet(inFlight) /\ Chained(inFlight, chain)
      /\ sent \in 0..MaxMessages /\ chain \in 0..sent /\ Len(queue) \in Nat
      /\ m.id = sent + 1 /\ sent' = sent + 1 /\ sent' \in 0..MaxMessages
  BY SessionTypes, LenProperties DEF SessionInv, SoundSession, Receive
<1>2. \A i \in 1..Len(queue) : queue[i].id \in Nat
  BY <1>1, SessionTypes, ElementOfSeq
<1>3. \A t \in inFlight : t.msg.id \in Nat
  BY <1>1, SessionTypes
<1>4. CASE QueueFull
  <2>1. UNCHANGED <<queue, inFlight, chain, initialized, cancelled>>
    BY <1>4 DEF Receive
  <2>2. answered' \in SUBSET (1..MaxMessages)
    BY <1>4, SessionTypes DEF Receive, SessionInv
  <2>3. Ordered(queue, inFlight, chain, sent')
    BY <1>1, <1>2, <1>3 DEF Ordered
  <2>4. SoundSession(queue, inFlight, chain, sent')
    BY <1>1, <2>3 DEF SoundSession
  <2>5. SoundSession(queue, inFlight, chain, sent)'
    BY <2>1, <2>4
  <2> QED
    BY <2>1, <2>2, <2>5 DEF SessionInv
<1>5. CASE ~QueueFull
  <2> DEFINE lines == Append(queue, m)
  <2>1. /\ lines \in Seq(Messages) /\ Len(lines) = Len(queue) + 1 /\ lines[Len(queue) + 1] = m
        /\ \A i \in 1..Len(queue) : lines[i] = queue[i]
    BY <1>1, AppendProperties
  <2>2. Drained(lines, inFlight) /\ answered' = answered
    BY <1>5 DEF Receive
  <2> HIDE DEF lines
  <2>3. \A i \in 1..Len(lines) : i \in 1..Len(queue) \/ i = Len(queue) + 1
    BY <1>1, <2>1
  <2>4. Ordered(lines, inFlight, chain, sent')
    <3>1. \A i \in 1..Len(lines) : chain < lines[i].id /\ lines[i].id <= sent'
      BY <1>1, <1>2, <2>1, <2>3 DEF Ordered
    <3>2. ASSUME NEW i \in 1..Len(lines), NEW j \in 1..Len(lines), i < j
          PROVE  lines[i].id < lines[j].id
      <4>1. i \in 1..Len(queue)
        BY <1>1, <2>1, <3>2
      <4>2. lines[i] = queue[i] /\ queue[i].id <= sent /\ queue[i].id \in Nat
        BY <1>1, <1>2, <2>1, <4>1 DEF Ordered
      <4>3. CASE j \in 1..Len(queue)
        BY <1>1, <2>1, <3>2, <4>1, <4>3 DEF Ordered
      <4>4. CASE j = Len(queue) + 1
        BY <1>1, <2>1, <4>2, <4>4
      <4> QED
        BY <2>3, <4>3, <4>4
    <3>3. \A t \in inFlight : t.msg.id <= sent' /\ \A i \in 1..Len(lines) : t.msg.id < lines[i].id
      BY <1>1, <1>3, <2>1, <2>3 DEF Ordered
    <3> QED
      BY <1>1, <3>1, <3>2, <3>3 DEF Ordered
  <2>5. SoundSession(lines, inFlight, chain, sent')
    BY <1>1, <2>1, <2>4 DEF SoundSession
  <2>6. Cardinality(inFlight) <= MaxInFlight /\ (queue # <<>> => Cardinality(inFlight) = MaxInFlight)
    BY DEF SessionInv
  <2>7. Cardinality(inFlight) \in Nat
    BY <1>1, FS_CardinalityType
  <2>8. Len(lines) > 1 => Cardinality(inFlight) >= MaxInFlight - 1
    <3>1. Len(lines) > 1 => queue # <<>>
      BY <1>1, <2>1, EmptySeq
    <3> QED
      BY <2>6, <2>7, <3>1, SessionTypes
  <2>9. /\ SoundSession(queue, inFlight, chain, sent)'
        /\ Len(queue') <= Len(lines) /\ Cardinality(inFlight') <= MaxInFlight
        /\ queue' # <<>> => Cardinality(inFlight') = MaxInFlight
        /\ initialized' \in BOOLEAN /\ cancelled' \in SUBSET (0..MaxMessages)
    BY <2>2, <2>5, <2>6, <2>8, DrainKeepsSession DEF SessionInv
  <2>10. Len(lines) <= MaxQueued
    BY <1>1, <1>5, <2>1, SessionTypes DEF QueueFull
  <2>11. Len(queue') \in Nat
    BY <2>9, LenProperties DEF SoundSession
  <2>12. Len(queue') <= MaxQueued
    BY <1>1, <2>1, <2>9, <2>10, <2>11, SessionTypes
  <2> QED
    BY <2>2, <2>9, <2>12 DEF SessionInv
<1> QED
  BY <1>4, <1>5

\* A task in flight becomes another with the same message, or leaves.
LEMMA TasksStayOrdered ==
  ASSUME NEW lines, NEW tasks, NEW end, NEW last, Ordered(lines, tasks, end, last),
         NEW t \in tasks, NEW next, next.msg = t.msg
  PROVE  /\ Ordered(lines, tasks \ {t}, end, last)
         /\ Ordered(lines, (tasks \ {t}) \cup {next}, end, last)
<1> QED
  BY DEF Ordered

LEMMA HandleKeepsSession ==
  ASSUME SessionInv, NEW t \in inFlight, Turn(t) \/ FinishTool(t) \/ Answer(t)
  PROVE  SessionInv'
<1>1. /\ SoundSession(queue, inFlight, chain, sent) /\ queue \in Seq(Messages)
      /\ Ordered(queue, inFlight, chain, sent)
      /\ inFlight \in SUBSET Tasks /\ IsFiniteSet(inFlight) /\ Chained(inFlight, chain)
      /\ sent \in 0..MaxMessages /\ chain \in 0..sent /\ chain \in Nat /\ Len(queue) \in Nat
      /\ Cardinality(inFlight) \in Nat /\ t \in Tasks
  BY SessionTypes, LenProperties, FS_CardinalityType DEF SessionInv, SoundSession
<1>2. \A u, v \in inFlight : u.msg.id = v.msg.id => u = v
  BY <1>1 DEF Ordered
<1>3. ASSUME NEW at \in {"answer", "run"}, t \in Calls(inFlight),
             t.at = "run" \/ ~\E u \in Calls(inFlight) : u.msg.id = t.after,
             at = "run" => t.at = "wait",
             inFlight' = (inFlight \ {t}) \cup {[t EXCEPT !.at = at]},
             UNCHANGED <<sent, queue, chain, initialized, cancelled, answered>>
      PROVE  SessionInv'
  <2> DEFINE next == [t EXCEPT !.at = at]
             after == (inFlight \ {t}) \cup {next}
  <2>1. next \in Tasks /\ next.msg = t.msg /\ next.after = t.after /\ next.at = at
    BY <1>1 DEF Tasks
  <2>2. next \notin inFlight \ {t}
    BY <1>2, <2>1
  <2> HIDE DEF next
  <2>3. /\ IsFiniteSet(inFlight \ {t}) /\ Cardinality(inFlight \ {t}) = Cardinality(inFlight) - 1
        /\ IsFiniteSet(after) /\ Cardinality(after) = Cardinality(inFlight \ {t}) + 1
    BY <1>1, <2>2, FS_RemoveElement, FS_AddElement
  <2>4. IsFiniteSet(after) /\ Cardinality(after) = Cardinality(inFlight)
    BY <1>1, <2>3
  <2>5. Ordered(queue, after, chain, sent)
    BY <1>1, <2>1, TasksStayOrdered
  <2>6. \A u \in Calls(inFlight) : ~(u.msg.id < t.msg.id)
    BY <1>1, <1>3, FirstOfChain
  <2>7. Chained(after, chain)
    <3>1. CASE at = "answer"
      <4>1. Calls(after) = Calls(inFlight) \ {t}
        BY <2>1, <3>1 DEF Calls
      <4> HIDE DEF after
      <4> QED
        BY <1>1, <1>2, <1>3, <2>6, <4>1, SettledCallKeepsChain
    <3>2. CASE at = "run"
      <4>1. Calls(after) = (Calls(inFlight) \ {t}) \cup {next}
        BY <2>1, <3>2 DEF Calls
      <4> HIDE DEF after
      <4> QED
        BY <1>1, <1>3, <2>1, <2>6, <3>2, <4>1, TurnKeepsChain
    <3> QED
      BY <3>1, <3>2
  <2>8. after \in SUBSET Tasks
    BY <1>1, <2>1
  <2>9. inFlight' = after
    BY <1>3 DEF next
  <2> HIDE DEF after
  <2>10. SoundSession(queue, after, chain, sent)
    BY <1>1, <2>4, <2>5, <2>7, <2>8 DEF SoundSession
  <2>11. SoundSession(queue, inFlight, chain, sent)'
    BY <1>3, <2>9, <2>10
  <2> QED
    BY <1>3, <2>4, <2>9, <2>11 DEF SessionInv
<1>4. CASE Turn(t)
  <2>1. t \in Calls(inFlight) /\ t.at = "wait" /\ ~\E u \in Calls(inFlight) : u.msg.id = t.after
    BY <1>4 DEF Turn, Preceded, Unsettled, Calls
  <2> DEFINE at == IF t.msg.id \in cancelled THEN "answer" ELSE "run"
  <2>2. at \in {"answer", "run"}
    OBVIOUS
  <2>3. /\ inFlight' = (inFlight \ {t}) \cup {[t EXCEPT !.at = at]}
        /\ UNCHANGED <<sent, queue, chain, initialized, cancelled, answered>>
    BY <1>4 DEF Turn
  <2> HIDE DEF at
  <2> QED
    BY <1>3, <2>1, <2>2, <2>3
<1>5. CASE FinishTool(t)
  <2>1. t \in Calls(inFlight) /\ t.at = "run"
    BY <1>5 DEF FinishTool, Calls
  <2> QED
    BY <1>3, <1>5, <2>1 DEF FinishTool
<1>6. CASE Answer(t)
  <2> DEFINE others == inFlight \ {t}
  <2>1. t.at = "answer" /\ Drained(queue, others) /\ sent' = sent
    BY <1>6 DEF Answer
  <2>2. answered' \in SUBSET (1..MaxMessages)
    BY <1>1, <1>6, SessionTypes DEF Answer, SessionInv
  <2>3. IsFiniteSet(others) /\ Cardinality(others) = Cardinality(inFlight) - 1
    BY <1>1, FS_RemoveElement
  <2>4. Ordered(queue, others, chain, sent)
    BY <1>1, TasksStayOrdered
  <2>5. Calls(others) = Calls(inFlight)
    BY <2>1 DEF Calls
  <2>6. Chained(others, chain)
    BY <1>1, <2>5 DEF Chained
  <2> HIDE DEF others
  <2>7. SoundSession(queue, others, chain, sent')
    BY <1>1, <2>1, <2>3, <2>4, <2>6 DEF SoundSession, others
  <2>8. /\ Cardinality(inFlight) <= MaxInFlight /\ Len(queue) <= MaxQueued
        /\ queue # <<>> => Cardinality(inFlight) = MaxInFlight
        /\ initialized \in BOOLEAN /\ cancelled \in SUBSET (0..MaxMessages)
    BY DEF SessionInv
  <2>9. Cardinality(others) <= MaxInFlight /\ (Len(queue) > 1 => Cardinality(others) >= MaxInFlight - 1)
    <3>1. Len(queue) > 1 => queue # <<>>
      BY <1>1, EmptySeq
    <3> QED
      BY <1>1, <2>3, <2>8, <3>1, SessionTypes
  <2>10. /\ SoundSession(queue, inFlight, chain, sent)'
         /\ Len(queue') <= Len(queue) /\ Cardinality(inFlight') <= MaxInFlight
         /\ queue' # <<>> => Cardinality(inFlight') = MaxInFlight
         /\ initialized' \in BOOLEAN /\ cancelled' \in SUBSET (0..MaxMessages)
    BY <2>1, <2>7, <2>8, <2>9, DrainKeepsSession
  <2>11. Len(queue') \in Nat
    BY <2>10, LenProperties DEF SoundSession
  <2>12. Len(queue') <= MaxQueued
    BY <1>1, <2>8, <2>10, <2>11, SessionTypes
  <2> QED
    BY <2>2, <2>10, <2>12 DEF SessionInv
<1> QED
  BY <1>4, <1>5, <1>6

LEMMA SessionStepInv == SessionInv /\ [McpNext]_mcpVars => SessionInv'
<1> SUFFICES ASSUME SessionInv, [McpNext]_mcpVars PROVE SessionInv'
  OBVIOUS
<1>1. CASE Send
  BY <1>1, ReceiveKeepsSession DEF Send
<1>2. CASE HandleTask
  BY <1>2, HandleKeepsSession DEF HandleTask
<1>3. CASE UNCHANGED mcpVars
  BY <1>3 DEF mcpVars, SessionInv
<1> QED
  BY <1>1, <1>2, <1>3 DEF McpNext

LEMMA SessionInitInv == McpInit => SessionInv
<1> SUFFICES ASSUME McpInit PROVE SessionInv
  OBVIOUS
<1>1. IsFiniteSet({}) /\ Cardinality({}) = 0
  BY FS_EmptySet
<1>2. /\ queue = <<>> /\ inFlight = {} /\ chain = 0 /\ sent = 0
      /\ initialized = FALSE /\ cancelled = {} /\ answered = {}
  BY DEF McpInit
<1>3. queue \in Seq(Messages) /\ Len(queue) = 0
  BY <1>2
<1>4. Ordered(queue, inFlight, chain, sent) /\ Chained(inFlight, chain)
  BY <1>2, <1>3 DEF Ordered, Chained, Calls
<1>5. SoundSession(queue, inFlight, chain, sent)
  BY <1>1, <1>2, <1>3, <1>4, SessionTypes DEF SoundSession
<1>6. Len(queue) <= MaxQueued /\ Cardinality(inFlight) <= MaxInFlight
  BY <1>1, <1>2, <1>3, SessionTypes
<1> QED
  BY <1>2, <1>5, <1>6 DEF SessionInv

THEOREM SessionInvariant == McpSpec => []SessionInv
<1> QED
  BY SessionInitInv, SessionStepInv, PTL DEF McpSpec

\* Queue, slots and ids of a session stay within their limits.
THEOREM SessionStaysBounded == McpSpec => []McpTypeOK
<1>1. SessionInv => McpTypeOK
  BY SessionTypes DEF SessionInv, SoundSession, McpTypeOK
<1> QED
  BY <1>1, SessionInvariant, PTL

\* One tool runs at a time, in the order of arrival, for any number of slots and messages.
THEOREM ToolsRunInTurn == McpSpec => []ToolsTakeTurns
<1>1. SessionInv => ToolsTakeTurns
  <2> SUFFICES ASSUME SessionInv, NEW t \in Unsettled, NEW u \in Unsettled, t.at = "run", u # t
               PROVE  t.msg.id < u.msg.id
    BY DEF ToolsTakeTurns
  <2>1. t \in Calls(inFlight) /\ u \in Calls(inFlight) /\ t \in inFlight /\ u \in inFlight
    BY DEF Unsettled, Calls
  <2>2. t.msg.id # u.msg.id /\ t.msg.id \in Nat /\ u.msg.id \in Nat
    BY <2>1, SessionTypes DEF SessionInv, SoundSession, Ordered
  <2>3. ~(u.msg.id < t.msg.id)
    BY <2>1, FirstOfChain DEF SessionInv, SoundSession
  <2> QED
    BY <2>2, <2>3
<1> QED
  BY <1>1, SessionInvariant, PTL

\* A session never waits for itself: a line is queued only while every slot is taken, so that
\* a drain never has two lines to start, and of the messages in flight one can always go on.
SessionMovesOn ==
  /\ queue # <<>> => Cardinality(inFlight) = MaxInFlight
  /\ inFlight # {} => \E t \in inFlight : t.at = "wait" => ~Preceded(t)

\* The safety half of Drains: the chain of a session has a first call, which can go on.
THEOREM SessionsNeverWait == McpSpec => []SessionMovesOn
<1>1. ASSUME SessionInv, inFlight # {}
      PROVE  \E t \in inFlight : t.at = "wait" => ~Preceded(t)
  <2>1. inFlight \in SUBSET Tasks /\ Chained(inFlight, chain)
    BY <1>1 DEF SessionInv, SoundSession
  <2>2. CASE Unsettled = {}
    BY <1>1, <2>2 DEF Unsettled
  <2>3. CASE Unsettled # {}
    <3> DEFINE ids == {t.msg.id : t \in Unsettled}
    <3>1. ids \in SUBSET Nat /\ ids # {}
      BY <2>1, <2>3, SessionTypes DEF Unsettled
    <3>2. PICK least \in ids : \A id \in ids : <<id, least>> \notin OpToRel(<, Nat)
      BY <3>1, NatLessThanWellFounded, WFMin
    <3>3. \A id \in ids : ~(id < least)
      BY <3>1, <3>2 DEF OpToRel
    <3>4. PICK t \in Unsettled : t.msg.id = least
      OBVIOUS
    <3>5. t.after < t.msg.id
      BY <2>1 DEF Chained, Unsettled, Calls
    <3>6. ~Preceded(t)
      BY <3>3, <3>4, <3>5 DEF Preceded
    <3> QED
      BY <3>4, <3>6 DEF Unsettled
  <2> QED
    BY <2>2, <2>3
<1>2. SessionInv => SessionMovesOn
  BY <1>1 DEF SessionMovesOn, SessionInv
<1> QED
  BY <1>2, SessionInvariant, PTL

-----------------------------------------------------------------------------
(***************************************************************************)
(* A bounded command.  The timeout fires once and the limit on the output  *)
(* is exceeded once, so there are at most two graces; the one of the       *)
(* timeout has not ended, or the shell has, as nothing keeps it in life.   *)
(***************************************************************************)

Processes == [alive : BOOLEAN, grouped : BOOLEAN, obeys : BOOLEAN, asked : BOOLEAN]
Terminations == (IF timer = "fired" THEN 1 ELSE 0) + (IF output.exceeded THEN 1 ELSE 0)

CommandInv ==
  /\ process \in [Names -> Processes] /\ ended \in {NotEnded, "zero", "nonzero", "signal"}
  /\ timer \in {"armed", "fired", "cleared"} /\ killTimers \in Nat
  /\ output \in [sent : 0..MaxSent, captured : 0..MaxOutputBytes, exceeded : BOOLEAN]
  /\ command \in {"spawning", "running", "resolved", "rejected"}
  /\ killTimers <= Terminations
  /\ process["shell"].grouped /\ (process["shell"].alive <=> ended = NotEnded)
  /\ command = "running" => timer \in {"armed", "fired"}
  /\ command = "spawning" => timer = "cleared"
  /\ timer = "fired" =>
       /\ \A p \in Names : process[p].alive /\ process[p].grouped => process[p].asked
       /\ killTimers > 0 \/ ended # NotEnded

LEMMA CommandNumbers ==
  /\ MaxOutputBytes \in Nat \ {0} /\ MaxSent \in Nat /\ Names = {"shell", "worker"}
  /\ NotEnded \notin {"zero", "nonzero", "signal"}
<1> QED
  BY CommandAssumption DEF Names, NotEnded

LEMMA CommandInitInv == CommandInit => CommandInv
<1> SUFFICES ASSUME CommandInit PROVE CommandInv
  OBVIOUS
<1>1. process \in [Names -> Processes]
  BY DEF CommandInit, Processes
<1>2. output \in [sent : 0..MaxSent, captured : 0..MaxOutputBytes, exceeded : BOOLEAN] /\ ~output.exceeded
  BY CommandNumbers DEF CommandInit
<1>3. Terminations = 0
  BY <1>2 DEF CommandInit, Terminations
<1> QED
  BY <1>1, <1>2, <1>3 DEF CommandInit, CommandInv

\* A SIGTERM to the group, and a grace.
LEMMA TerminateAsks ==
  ASSUME CommandInv, Terminate
  PROVE  /\ process' \in [Names -> Processes] /\ killTimers' \in Nat /\ killTimers' = killTimers + 1
         /\ \A p \in Names : /\ process'[p].alive = process[p].alive
                             /\ process'[p].grouped = process[p].grouped
                             /\ process[p].alive /\ process[p].grouped => process'[p].asked
<1>1. process \in [Names -> Processes] /\ killTimers \in Nat
  BY DEF CommandInv
<1>2. process' = Asked /\ killTimers' = killTimers + 1
  BY DEF Terminate
<1>3. \A p \in Names : Asked[p] = [process[p] EXCEPT !.asked = process[p].asked \/ (process[p].alive /\ process[p].grouped)]
  BY DEF Asked
<1>4. \A p \in Names : /\ Asked[p] \in Processes
                       /\ Asked[p].alive = process[p].alive /\ Asked[p].grouped = process[p].grouped
                       /\ process[p].alive /\ process[p].grouped => Asked[p].asked
  BY <1>1, <1>3 DEF Processes
<1>5. Asked \in [Names -> Processes]
  BY <1>4 DEF Asked
<1> QED
  BY <1>1, <1>2, <1>4, <1>5

LEMMA TimeoutKeepsCommand ==
  ASSUME CommandInv, Timeout
  PROVE  CommandInv'
<1>1. timer = "armed" /\ timer' = "fired" /\ command = "running" /\ UNCHANGED <<ended, output, command>>
  BY DEF Timeout
<1>2. /\ process' \in [Names -> Processes] /\ killTimers' \in Nat /\ killTimers' = killTimers + 1
      /\ \A p \in Names : /\ process'[p].alive = process[p].alive
                          /\ process'[p].grouped = process[p].grouped
                          /\ process[p].alive /\ process[p].grouped => process'[p].asked
  BY TerminateAsks DEF Timeout
<1>3. Terminations' = Terminations + 1 /\ Terminations \in Nat
  BY <1>1 DEF Terminations
<1>4. killTimers' <= Terminations' /\ killTimers' > 0
  BY <1>2, <1>3 DEF CommandInv
<1>5. process'["shell"].grouped /\ (process'["shell"].alive <=> ended' = NotEnded)
  BY <1>1, <1>2, CommandNumbers DEF CommandInv
<1> QED
  BY <1>1, <1>2, <1>4, <1>5 DEF CommandInv

LEMMA KillKeepsCommand ==
  ASSUME CommandInv, KillTimer
  PROVE  CommandInv'
<1>1. /\ killTimers > 0 /\ killTimers' = killTimers - 1 /\ process' = Killed
      /\ ended' = IF ended = NotEnded /\ ~Killed["shell"].alive THEN "signal" ELSE ended
      /\ UNCHANGED <<timer, output, command>>
  BY DEF KillTimer
<1>2. killTimers' \in Nat /\ killTimers' <= Terminations'
  <2>1. Terminations' = Terminations /\ Terminations \in Nat
    BY <1>1 DEF Terminations
  <2> QED
    BY <1>1, <2>1 DEF CommandInv
<1>3. CASE ended # NotEnded
  <2>1. process' = process /\ ended' = ended
    BY <1>1, <1>3 DEF Killed
  <2> QED
    BY <1>1, <1>2, <1>3, <2>1 DEF CommandInv
<1>4. CASE ended = NotEnded
  <2>1. \A p \in Names : Killed[p] = [process[p] EXCEPT !.alive = process[p].alive /\ ~process[p].grouped]
    BY <1>4 DEF Killed
  <2>2. process \in [Names -> Processes]
    BY DEF CommandInv
  <2>3. \A p \in Names : /\ Killed[p] \in Processes
                         /\ Killed[p].alive <=> process[p].alive /\ ~process[p].grouped
                         /\ Killed[p].grouped = process[p].grouped
                         /\ Killed[p].asked = process[p].asked
    BY <2>1, <2>2 DEF Processes
  <2>4. Killed \in [Names -> Processes]
    BY <1>4, <2>3 DEF Killed
  <2>5. Killed["shell"].grouped /\ ~Killed["shell"].alive
    BY <2>3, CommandNumbers DEF CommandInv
  <2>6. ended' = "signal" /\ ended' # NotEnded
    BY <1>1, <1>4, <2>5, CommandNumbers
  <2> HIDE DEF Killed
  <2> QED
    BY <1>1, <1>2, <2>3, <2>4, <2>5, <2>6, CommandNumbers DEF CommandInv
<1> QED
  BY <1>3, <1>4

LEMMA WriteKeepsCommand ==
  ASSUME CommandInv, NEW p \in Names, Write(p)
  PROVE  CommandInv'
<1>1. command = "running" /\ UNCHANGED <<ended, timer, command>>
  BY DEF Write
<1>2. PICK chunk \in 1..(MaxSent - output.sent) :
        IF output.exceeded
        THEN /\ output' = [output EXCEPT !.sent = @ + chunk]
             /\ UNCHANGED <<process, killTimers>>
        ELSE /\ output' = [sent |-> output.sent + chunk,
                           captured |-> output.captured + Kept(chunk),
                           exceeded |-> ~Fits(chunk)]
             /\ IF Fits(chunk) THEN UNCHANGED <<process, killTimers>> ELSE Terminate
  BY DEF Write
<1>3. /\ output \in [sent : 0..MaxSent, captured : 0..MaxOutputBytes, exceeded : BOOLEAN]
      /\ output.sent \in 0..MaxSent /\ output.captured \in 0..MaxOutputBytes /\ output.exceeded \in BOOLEAN
  BY DEF CommandInv
<1>4. output.sent + chunk \in 0..MaxSent /\ chunk \in Nat
  BY <1>3, CommandNumbers
<1>5. CASE output.exceeded
  <2>1. output' = [output EXCEPT !.sent = output.sent + chunk] /\ UNCHANGED <<process, killTimers>>
    BY <1>2, <1>5
  <2>2. /\ output' \in [sent : 0..MaxSent, captured : 0..MaxOutputBytes, exceeded : BOOLEAN]
        /\ output'.exceeded = output.exceeded
    BY <1>3, <1>4, <2>1
  <2> QED
    BY <1>1, <2>1, <2>2 DEF CommandInv, Terminations
<1>6. CASE ~output.exceeded
  <2>1. /\ output' = [sent |-> output.sent + chunk, captured |-> output.captured + Kept(chunk),
                      exceeded |-> ~Fits(chunk)]
        /\ IF Fits(chunk) THEN UNCHANGED <<process, killTimers>> ELSE Terminate
    BY <1>2, <1>6
  <2>2. output.captured + Kept(chunk) \in 0..MaxOutputBytes
    BY <1>3, <1>4, CommandNumbers DEF Kept
  <2>3. Fits(chunk) \in BOOLEAN
    BY DEF Fits
  <2>4. /\ output' \in [sent : 0..MaxSent, captured : 0..MaxOutputBytes, exceeded : BOOLEAN]
        /\ output'.exceeded = ~Fits(chunk)
    BY <1>4, <2>1, <2>2, <2>3
  <2>5. CASE Fits(chunk)
    <3>1. UNCHANGED <<process, killTimers>> /\ output'.exceeded = output.exceeded
      BY <1>3, <1>6, <2>1, <2>4, <2>5
    <3> QED
      BY <1>1, <2>4, <3>1 DEF CommandInv, Terminations
  <2>6. CASE ~Fits(chunk)
    <3>1. /\ process' \in [Names -> Processes] /\ killTimers' \in Nat /\ killTimers' = killTimers + 1
          /\ \A q \in Names : /\ process'[q].alive = process[q].alive
                              /\ process'[q].grouped = process[q].grouped
                              /\ process[q].alive /\ process[q].grouped => process'[q].asked
      BY <2>1, <2>6, TerminateAsks
    <3>2. killTimers' <= Terminations' /\ killTimers' > 0
      <4>1. output'.exceeded = TRUE
        BY <2>4, <2>6
      <4>2. Terminations' = Terminations + 1 /\ Terminations \in Nat
        BY <1>1, <1>6, <4>1 DEF Terminations
      <4> QED
        BY <3>1, <4>2 DEF CommandInv
    <3>3. process'["shell"].grouped /\ (process'["shell"].alive <=> ended' = NotEnded)
      BY <1>1, <3>1, CommandNumbers DEF CommandInv
    <3> QED
      BY <1>1, <2>4, <3>1, <3>2, <3>3 DEF CommandInv
  <2> QED
    BY <2>5, <2>6
<1> QED
  BY <1>3, <1>5, <1>6

LEMMA EndKeepsCommand ==
  ASSUME CommandInv, NEW p \in Names, Obey(p) \/ Exit(p)
  PROVE  CommandInv'
<1>1. /\ process' = [process EXCEPT ![p].alive = FALSE] /\ UNCHANGED <<timer, killTimers, output, command>>
      /\ IF p = "shell" THEN ended' \in {"zero", "nonzero", "signal"} ELSE UNCHANGED ended
  BY DEF Obey, Exit
<1>2. process \in [Names -> Processes]
  BY DEF CommandInv
<1>3. /\ process' \in [Names -> Processes]
      /\ \A q \in Names : /\ process'[q].grouped = process[q].grouped /\ process'[q].asked = process[q].asked
                          /\ q # p => process'[q].alive = process[q].alive
      /\ process'[p].alive = FALSE
  BY <1>1, <1>2 DEF Processes
<1>4. process'["shell"].grouped /\ (process'["shell"].alive <=> ended' = NotEnded)
  BY <1>1, <1>3, CommandNumbers DEF CommandInv
<1>5. ended' \in {NotEnded, "zero", "nonzero", "signal"} /\ (ended # NotEnded => ended' # NotEnded)
  BY <1>1, CommandNumbers DEF CommandInv
<1>6. \A q \in Names : process'[q].alive => process[q].alive
  BY <1>3
<1>7. Terminations' = Terminations
  BY <1>1 DEF Terminations
<1> QED
  BY <1>1, <1>3, <1>4, <1>5, <1>6, <1>7 DEF CommandInv

LEMMA CommandStepInv == CommandInv /\ [CommandNext]_commandVars => CommandInv'
<1> SUFFICES ASSUME CommandInv, [CommandNext]_commandVars PROVE CommandInv'
  OBVIOUS
<1>1. CASE SpawnCommand
  <2>1. timer = "cleared" /\ timer' # "fired" /\ UNCHANGED <<process, ended, killTimers, output>>
    BY <1>1 DEF SpawnCommand, CommandInv
  <2>2. Terminations' = Terminations
    BY <2>1 DEF Terminations
  <2> QED
    BY <1>1, <2>1, <2>2 DEF SpawnCommand, CommandInv
<1>2. CASE CloseCommand
  <2>1. /\ (timer' = "fired" <=> timer = "fired") /\ UNCHANGED <<process, ended, killTimers, output>>
        /\ timer' \in {timer, "cleared"} /\ command' = "resolved"
    BY <1>2 DEF CloseCommand
  <2>2. Terminations' = Terminations
    BY <2>1 DEF Terminations
  <2> QED
    BY <2>1, <2>2 DEF CommandInv
<1>3. CASE UNCHANGED commandVars
  BY <1>3 DEF commandVars, CommandInv, Terminations
<1> QED
  BY <1>1, <1>2, <1>3, TimeoutKeepsCommand, KillKeepsCommand, WriteKeepsCommand, EndKeepsCommand
  DEF CommandNext

THEOREM CommandInvariant == CommandSpec => []CommandInv
<1> QED
  BY CommandInitInv, CommandStepInv, PTL DEF CommandSpec

\* A command keeps no more output than its limit, and at most two graces run at once.
THEOREM CommandStaysBounded == CommandSpec => []CommandTypeOK
<1>1. CommandInv => CommandTypeOK
  <2> SUFFICES ASSUME CommandInv PROVE CommandTypeOK
    OBVIOUS
  <2>1. Terminations \in 0..2
    BY DEF Terminations
  <2>2. killTimers \in 0..MaxKillTimers
    BY <2>1 DEF CommandInv, MaxKillTimers
  <2> QED
    BY <2>2 DEF CommandInv, CommandTypeOK, Processes
<1> QED
  BY <1>1, CommandInvariant, PTL

\* While a command runs, something that ends it is on its way, or has ended it: the timeout,
\* the end of a grace, or a SIGTERM to a process that obeys.
CommandMovesOn ==
  command = "running" /\ WorkerIsReachable =>
    \/ timer = "armed" \/ killTimers > 0
    \/ \A p \in Names : Alive(p) => process[p].asked /\ process[p].obeys

\* The safety half of CommandEnds: what ends a command is on its way, whatever its shell ignores.
THEOREM CommandsAreEnded == CommandSpec => []CommandMovesOn
<1>1. CommandInv => CommandMovesOn
  <2> SUFFICES ASSUME CommandInv, command = "running", WorkerIsReachable, timer # "armed", ~(killTimers > 0),
                      NEW p \in Names, Alive(p)
               PROVE  process[p].asked /\ process[p].obeys
    BY DEF CommandMovesOn
  <2>1. timer = "fired" /\ ended # NotEnded
    BY DEF CommandInv
  <2>2. p = "worker"
    BY <2>1, CommandNumbers DEF Alive, CommandInv
  <2>3. process[p].grouped /\ process[p].obeys
    BY <2>2 DEF WorkerIsReachable, Alive
  <2> QED
    BY <2>1, <2>3 DEF CommandInv, Alive
<1> QED
  BY <1>1, CommandInvariant, PTL
=============================================================================
