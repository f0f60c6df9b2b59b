------------------------------ MODULE Gateway ------------------------------
(***************************************************************************)
(* The internal remote gateway (packages/internal-remote): signed requests *)
(* that a client may send again, a durable replay store, one-time approval *)
(* receipts, a rate limiter, notices.  One gateway process, which may be   *)
(* stopped and started; requests are handled concurrently, and each waits  *)
(* wherever the code awaits, while the human works on the repository.      *)
(*                                                                         *)
(* A request is well formed and signed by its actor: what validation       *)
(* refuses by its text alone is left out.  Times are ticks.  A proposal is *)
(* the commit it was made for, a receipt the fields it is bound to.        *)
(***************************************************************************)
EXTENDS Integers, Sequences, FiniteSets, Functions

CONSTANTS
  Actors,
  Grants,         \* Grants[a]: the permissions of actor a, {} when it is disabled
  Scripts,        \* bound: the sequences of actions the clients ask for
  Skew,           \* maxClockSkewMs
  KeyTtl,         \* replayTtlMs
  ApprovalTtl,    \* approvalTtlMs
  RateLimit,      \* ratePerMinute
  RateWindow,
  MaxKeys,        \* entries of the replay store
  MaxConcurrent,
  MaxNotices,     \* notificationLimit
  NoticeWindow,   \* dedupeWindowMs
  MaxRequests,    \* bound: the longest script
  MaxClock,       \* bound
  MaxHead,        \* bound: commits
  None

ASSUME GatewayAssumption ==
  /\ \A n \in {Skew, KeyTtl, ApprovalTtl, RateLimit, RateWindow, MaxKeys, MaxNotices, NoticeWindow} :
       n \in Nat \ {0}
  /\ Scripts \subseteq Seq(STRING) /\ \A x \in Scripts : Len(x) <= MaxRequests
  /\ \A n \in {MaxConcurrent, MaxRequests, MaxClock, MaxHead} : n \in Nat

VARIABLES
  clock,
  script,   \* what the clients ask for, in order
  signed,   \* requests the clients have signed; each may be delivered any number of times
  store,    \* replay.json: consumed keys, and when each expires
  rate,     \* the rate limiter, in memory
  live,     \* requests being handled
  release,  \* the release of the project: state, human stop, HEAD, proposal
  notices,  \* notifications.jsonl
  handled,  \* history: how often each request was let through
  consumed  \* history: how often each receipt was consumed

gatewayVars == <<clock, script, signed, store, rate, live, release, notices, handled, consumed>>

-----------------------------------------------------------------------------
ActionPermission(action) ==
  CASE action \in {"projects/list", "status", "summary", "notifications/list", "health/read"} -> "read"
    [] action \in {"start", "execute", "fix-blockers", "verify"} -> "write"
    [] action \in {"issue", "approve"} -> "approve"
    [] action \in {"pause", "resume", "abort"} -> "control"
    [] action = "close" -> "close"
    [] action \in {"backup/create", "backup/restore"} -> "admin"

Receipts == [actor : Actors, proposal : 0..MaxHead, head : 0..MaxHead, expires : Nat]
Requests == [nonce : 1..MaxRequests, actor : Actors, action : UNION {Range(x) : x \in Scripts}, at : Nat,
             proposal : 0..MaxHead, receipt : Receipts \cup {None}]
ReleaseStates == {"DRAFT", "LOCKED", "SHIPPABLE", "BLOCKED", "PAUSED", "CLOSED", "ABORTED"}
Keys == [type : {"request", "approval"}, of : Requests \cup Receipts]

GatewayTypeOK ==
  /\ clock \in 0..MaxClock
  /\ signed \subseteq Requests /\ Cardinality(signed) <= MaxRequests
  /\ DOMAIN store \subseteq Keys /\ Cardinality(DOMAIN store) <= MaxKeys
  /\ \A a \in Actors : rate[a].count \in 0..RateLimit
  /\ \A j \in live : j.req \in signed
  /\ Cardinality(live) <= MaxConcurrent
  /\ release.state \in ReleaseStates /\ release.human \in BOOLEAN
  /\ release.head \in 0..MaxHead /\ release.proposal \in 0..MaxHead
  /\ Len(notices) <= MaxNotices

NoClaims == [a \in Actors |-> [from |-> 0, count |-> 0]]

GatewayInit ==
  /\ clock = 0 /\ script \in Scripts /\ signed = {} /\ live = {} /\ notices = <<>>
  /\ store = [k \in {} |-> 0]
  /\ rate = NoClaims
  /\ release \in [state : {"DRAFT", "LOCKED"}, human : {FALSE}, resume : {"LOCKED"},
                   head : {0}, proposal : {0}]
  /\ handled = [n \in 1..MaxRequests |-> 0]
  /\ consumed = [r \in {} |-> 0]

-----------------------------------------------------------------------------
(* The replay store: claimKey. *)

RequestKey(r) == [type |-> "request", of |-> r]
ApprovalKey(r) == [type |-> "approval", of |-> r]

\* Mutant of Unexpired: an entry is kept for the skew alone, not for its time to live.
UnexpiredInSkew(now) == {k \in DOMAIN store : store[k] - KeyTtl + Skew > now}

\* Entries at or past their time are dropped before a claim.
Unexpired(now) == {k \in DOMAIN store : store[k] > now}

\* ReplayStore.claimKey: neither consumed nor one too many.
Claimable(key, now) == key \notin Unexpired(now) /\ Cardinality(Unexpired(now)) < MaxKeys

ClaimKey(key, now, ttl) ==
  store' = [k \in Unexpired(now) \cup {key} |-> IF k = key THEN now + ttl ELSE store[k]]

\* RateLimiter.claim: a fixed window that opens with a request after the last one closed.
RateLeft(a) == rate[a].count = 0 \/ clock - rate[a].from >= RateWindow \/ rate[a].count < RateLimit
ClaimRate(a) ==
  rate' = [rate EXCEPT ![a] =
    IF @.count = 0 \/ clock - @.from >= RateWindow THEN [from |-> clock, count |-> 1]
    ELSE [from |-> @.from, count |-> @.count + 1]]

-----------------------------------------------------------------------------
(* Clients. *)

\* A client signs the next request: its clock may be ahead; an approval carries a receipt.
Sign(a, receipt) ==
  LET action == script[Cardinality(signed) + 1] IN
  /\ Cardinality(signed) < Len(script)
  /\ action = "approve" <=> receipt # None
  /\ \E at \in {clock, clock + Skew} :
       signed' = signed \cup {[nonce |-> Cardinality(signed) + 1, actor |-> a, action |-> action,
                               at |-> at, receipt |-> receipt,
                               proposal |-> IF receipt = None THEN release.proposal
                                            ELSE receipt.proposal]}
  /\ UNCHANGED <<clock, script, store, rate, live, release, notices, handled, consumed>>

Ask == \E a \in Actors, receipt \in DOMAIN consumed \cup {None} : Sign(a, receipt)

-----------------------------------------------------------------------------
(* InternalRemoteGateway.handle. *)

\* validateRemoteRequest, for a request well formed and signed.
Timely(r) == r.at - clock <= Skew /\ clock - r.at <= Skew

\* authorize: a known actor that is not disabled, its permissions.
Authorized(r) == ActionPermission(r.action) \in Grants[r.actor]

Asks == {"issue", "approve", "resume", "execute"}

\* The request, delivered now or again, is admitted by the server, validated,
\* rate limited and claimed before anything is awaited.
Deliver(r) ==
  /\ Cardinality(live) < MaxConcurrent
  /\ Timely(r) /\ Authorized(r) /\ RateLeft(r.actor)
  /\ ClaimRate(r.actor)
  /\ IF Claimable(RequestKey(r), clock)
     THEN /\ ClaimKey(RequestKey(r), clock, KeyTtl)
          /\ live' = live \cup {[req |-> r, now |-> clock, seen |-> None,
                                 at |-> IF r.action \in Asks THEN "status" ELSE "call"]}
          /\ handled' = [handled EXCEPT ![r.nonce] = @ + 1]
     ELSE UNCHANGED <<store, live, handled>>
  /\ UNCHANGED <<clock, script, signed, release, notices, consumed>>

Moves(j, next) == live' = (live \ {j}) \cup {next}
Drops(j) == live' = live \ {j}

\* The status tool answers with what it finds.
ReadStatus(j) ==
  /\ j.at = "status"
  /\ Moves(j, [j EXCEPT !.seen = release, !.at = "decide"])
  /\ UNCHANGED <<clock, script, signed, store, rate, release, notices, handled, consumed>>

\* #issueApproval.
Issue(j) ==
  /\ j.at = "decide" /\ j.req.action = "issue"
  /\ LET receipt == [actor |-> j.req.actor, proposal |-> j.req.proposal, head |-> j.seen.head,
                     expires |-> j.now + ApprovalTtl]
     IN consumed' = [r \in DOMAIN consumed \cup {receipt} |->
                       IF r \in DOMAIN consumed THEN consumed[r] ELSE 0]
  /\ Drops(j)
  /\ UNCHANGED <<clock, script, signed, store, rate, release, notices, handled>>

\* Mutant of KeptFor: the key outlives nothing but the claim.
KeptBriefly(receipt, now) == 1

\* The key of a receipt is kept as long as the receipt is valid.
KeptFor(receipt, now) == receipt.expires - now

\* validateApprovalReceipt, with the time the request arrived.
Bound(receipt, j) ==
  /\ receipt.actor = j.req.actor
  /\ receipt.proposal = j.req.proposal
  /\ receipt.head = j.seen.head
  /\ receipt.expires > j.now

\* #approve: the receipt is validated and consumed, and only then is the tool called.
Consume(j) ==
  LET receipt == j.req.receipt IN
  /\ j.at = "decide" /\ j.req.action = "approve"
  /\ IF Bound(receipt, j) /\ Claimable(ApprovalKey(receipt), j.now)
     THEN /\ ClaimKey(ApprovalKey(receipt), j.now, KeptFor(receipt, j.now))
          /\ consumed' = [consumed EXCEPT ![receipt] = @ + 1]
          /\ Moves(j, [j EXCEPT !.at = "call"])
     ELSE Drops(j) /\ UNCHANGED <<store, consumed>>
  /\ UNCHANGED <<clock, script, signed, rate, release, notices, handled>>

\* #fixedAction for resume and execute.
Permit(j) ==
  /\ j.at = "decide" /\ j.req.action \in {"resume", "execute"}
  /\ IF j.seen.human THEN Drops(j) ELSE Moves(j, [j EXCEPT !.at = "call"])
  /\ UNCHANGED <<clock, script, signed, store, rate, release, notices, handled, consumed>>

\* What the tool behind each action does to the release, when it does not refuse.
Executing == {"LOCKED", "SHIPPABLE", "BLOCKED"}
Effect(r) ==
  CASE r.action = "approve" -> [release EXCEPT !.state = "LOCKED"]
    [] r.action = "fix-blockers" -> [release EXCEPT !.state = "LOCKED"]
    [] r.action = "pause" -> [release EXCEPT !.state = "PAUSED", !.human = TRUE, !.resume = release.state]
    [] r.action = "resume" -> [release EXCEPT !.state = release.resume, !.human = FALSE]
    [] r.action = "abort" -> [release EXCEPT !.state = "ABORTED", !.human = TRUE]
    [] r.action = "close" -> [release EXCEPT !.state = "CLOSED"]
    [] OTHER -> release

Accepts(r) ==
  CASE r.action = "approve" -> release.state = "DRAFT" /\ release.head = release.proposal
                                 /\ release.proposal = r.proposal
    [] r.action \in {"verify", "pause"} -> release.state \in Executing
    [] r.action = "execute" -> release.state \in Executing /\ ~release.human
    [] r.action = "fix-blockers" -> release.state = "BLOCKED" /\ ~release.human
    [] r.action = "resume" -> release.state = "PAUSED"
    [] r.action = "abort" -> release.state \in Executing \cup {"PAUSED"}
    [] r.action = "close" -> release.state = "SHIPPABLE"
    [] OTHER -> TRUE

Outcomes(r) ==
  IF ~Accepts(r) THEN {}
  ELSE IF r.action = "verify"
    THEN {[release EXCEPT !.state = s] : s \in {"SHIPPABLE", "BLOCKED"}}
    ELSE {Effect(r)}

\* A refused call ends the request; an answer is looked at for a notice.
Call(j) ==
  /\ j.at = "call"
  /\ IF Outcomes(j.req) = {} THEN Drops(j) /\ UNCHANGED release
     ELSE \E r \in Outcomes(j.req) :
            /\ release' = r
            /\ Moves(j, [j EXCEPT !.seen = r, !.at = "notify"])
  /\ UNCHANGED <<clock, script, signed, store, rate, notices, handled, consumed>>

\* NotificationStore.append: a notice like it inside the window.
Repeated(state) ==
  \E i \in DOMAIN notices : notices[i].state = state /\ clock - notices[i].at <= NoticeWindow

Retained(s) == IF Len(s) <= MaxNotices THEN s ELSE SubSeq(s, Len(s) - MaxNotices + 1, Len(s))

\* #notify: a notice that cannot be written is dropped.
Notify(j) ==
  /\ j.at = "notify"
  /\ \/ /\ j.seen.state \in {"BLOCKED", "PAUSED", "CLOSED"} /\ ~Repeated(j.seen.state)
        /\ notices' = Retained(Append(notices, [state |-> j.seen.state, at |-> clock]))
     \/ UNCHANGED notices
  /\ Drops(j)
  /\ UNCHANGED <<clock, script, signed, store, rate, release, handled, consumed>>

Handle == \E j \in live :
  ReadStatus(j) \/ Issue(j) \/ Consume(j) \/ Permit(j) \/ Call(j) \/ Notify(j)

-----------------------------------------------------------------------------
(* The gateway stops and starts; the human works on the repository; time passes. *)

Restart ==
  /\ live # {}
  /\ live' = {} /\ rate' = NoClaims
  /\ UNCHANGED <<clock, script, signed, store, release, notices, handled, consumed>>

LocalPause ==
  /\ release.state \in Executing
  /\ release' = [release EXCEPT !.state = "PAUSED", !.human = TRUE, !.resume = release.state]
  /\ UNCHANGED <<clock, script, signed, store, rate, live, notices, handled, consumed>>

LocalResume ==
  /\ release.state = "PAUSED"
  /\ release' = [release EXCEPT !.state = release.resume, !.human = FALSE]
  /\ UNCHANGED <<clock, script, signed, store, rate, live, notices, handled, consumed>>

\* A commit makes the proposal stale; a refined one is for the commit.
Commit ==
  /\ release.head < MaxHead
  /\ release' = [release EXCEPT !.head = @ + 1]
  /\ UNCHANGED <<clock, script, signed, store, rate, live, notices, handled, consumed>>

Refine ==
  /\ release.state = "DRAFT" /\ release.proposal # release.head
  /\ release' = [release EXCEPT !.proposal = release.head]
  /\ UNCHANGED <<clock, script, signed, store, rate, live, notices, handled, consumed>>

Tick ==
  /\ clock < MaxClock
  /\ clock' = clock + 1
  /\ UNCHANGED <<script, signed, store, rate, live, release, notices, handled, consumed>>

GatewayNext ==
  \/ Ask \/ (\E r \in signed : Deliver(r)) \/ Handle
  \/ Restart \/ LocalPause \/ LocalResume \/ Commit \/ Refine \/ Tick

GatewaySpec == GatewayInit /\ [][GatewayNext]_gatewayVars

-----------------------------------------------------------------------------
(* Properties. *)

\* A signed request is let through at most once, however often it is delivered and
\* across restarts of the gateway: its key outlives the time its timestamp is accepted
\* (replay-store.mjs:44, request.mjs:59; the default time to live is five skews).
RequestOnce == \A n \in 1..MaxRequests : handled[n] <= 1

\* A receipt is consumed at most once while it is valid.  Afterwards its key is gone, and
\* a slow request that was admitted before may still consume it (gateway.mjs:119-142).
ApprovalOnce == \A r \in DOMAIN consumed : consumed[r] > 1 => clock >= r.expires
=============================================================================
