---------------------------- MODULE McpSession ----------------------------
(***************************************************************************)
(* One MCP session over standard input and output (src/mcp/stdio.mjs,      *)
(* src/mcp/protocol.mjs).  Lines that arrive are queued; a bounded number  *)
(* is in flight; tool calls wait for each other in a chain of promises; a  *)
(* notification may cancel a request.  A message is its place among those  *)
(* the client sends; only a request has an answer.                         *)
(***************************************************************************)
EXTENDS Integers, Sequences, FiniteSets

CONSTANTS
  MaxInFlight,   \* maxInFlight
  MaxQueued,     \* maxQueued
  MaxMessages    \* bound: messages the client sends

ASSUME McpAssumption ==
  MaxInFlight \in Nat \ {0} /\ MaxQueued \in Nat \ {0} /\ MaxMessages \in Nat

VARIABLES
  sent,        \* messages sent
  queue,       \* lines received and not yet taken
  inFlight,    \* messages being handled
  chain,       \* the tool call state.toolChain ends with, 0 before the first
  initialized, \* a version has been negotiated
  cancelled,   \* state.cancelled
  answered     \* requests answered

mcpVars == <<sent, queue, inFlight, chain, initialized, cancelled, answered>>

-----------------------------------------------------------------------------
Methods == {"initialize", "tools/list", "tools/call", "unknown"}
Notifications == {"initialized", "cancelled"}

\* `of' is the request a cancellation names; `versioned' requests name a supported version.
Messages ==
  [id : 1..MaxMessages, method : Methods, versioned : BOOLEAN, of : {0}]
    \cup [id : 1..MaxMessages, method : Notifications, versioned : {FALSE}, of : 0..MaxMessages]
IsRequest(m) == m.method \in Methods

\* A task answers, waits for the tool call before it, or runs its tool.
Tasks == [msg : Messages, at : {"answer", "wait", "run"}, after : 0..MaxMessages]

McpTypeOK ==
  /\ sent \in 0..MaxMessages
  /\ queue \in Seq(Messages) /\ Len(queue) <= MaxQueued
  /\ inFlight \subseteq Tasks /\ Cardinality(inFlight) <= MaxInFlight
  /\ chain \in 0..MaxMessages /\ initialized \in BOOLEAN
  /\ cancelled \subseteq 0..MaxMessages /\ answered \subseteq 1..MaxMessages

McpInit ==
  /\ sent = 0 /\ queue = <<>> /\ inFlight = {}
  /\ chain = 0 /\ initialized = FALSE /\ cancelled = {} /\ answered = {}

-----------------------------------------------------------------------------
(* What happens to a message before its handler first awaits. *)

\* requestProtocol.
VersionKnown(m) == m.versioned \/ initialized

IsToolCall(m) == m.method = "tools/call" /\ VersionKnown(m)

\* Mutant of NextChain: the chain is not assigned.
NextChainForgotten(m) == chain

\* serializeToolCall: the call is the new end of the chain.
NextChain(m) == IF IsToolCall(m) THEN m.id ELSE chain

\* processLine and handle; the task takes a slot among `others'.
Starts(m, others) ==
  /\ inFlight' = others \cup
       {[msg |-> m, at |-> IF IsToolCall(m) THEN "wait" ELSE "answer",
         after |-> IF IsToolCall(m) THEN chain ELSE 0]}
  /\ chain' = NextChain(m)
  /\ initialized' = (initialized \/ m.method = "initialized" \/ (m.method = "initialize" /\ m.versioned))
  /\ cancelled' = IF m.method = "cancelled" THEN cancelled \cup {m.of} ELSE cancelled

\* Mutant of Drained: a slot that becomes free is not given to the queue.
DrainedNot(lines, others) ==
  queue' = lines /\ inFlight' = others /\ UNCHANGED <<chain, initialized, cancelled>>

\* drain: the oldest line starts if there is a slot.
Drained(lines, others) ==
  IF lines # <<>> /\ Cardinality(others) < MaxInFlight
  THEN queue' = Tail(lines) /\ Starts(Head(lines), others)
  ELSE queue' = lines /\ inFlight' = others /\ UNCHANGED <<chain, initialized, cancelled>>

QueueFull == Len(queue) >= MaxQueued

\* enqueue: a line that finds the queue full is answered at once.
Receive(m) ==
  /\ m.id = sent + 1
  /\ sent' = m.id
  /\ IF QueueFull
     THEN /\ answered' = IF IsRequest(m) THEN answered \cup {m.id} ELSE answered
          /\ UNCHANGED <<queue, inFlight, chain, initialized, cancelled>>
     ELSE Drained(Append(queue, m), inFlight) /\ UNCHANGED answered

Send == \E m \in Messages : m.of <= sent /\ Receive(m)

-----------------------------------------------------------------------------
(* What happens after it. *)

Unsettled == {t \in inFlight : t.at \in {"wait", "run"}}
Preceded(t) == \E u \in Unsettled : u.msg.id = t.after

\* A tool call whose predecessor has settled runs, unless it has been cancelled.
Turn(t) ==
  /\ t.at = "wait" /\ ~Preceded(t)
  /\ inFlight' = (inFlight \ {t}) \cup
       {[t EXCEPT !.at = IF t.msg.id \in cancelled THEN "answer" ELSE "run"]}
  /\ UNCHANGED <<sent, queue, chain, initialized, cancelled, answered>>

\* The tool returns, or throws.
FinishTool(t) ==
  /\ t.at = "run"
  /\ inFlight' = (inFlight \ {t}) \cup {[t EXCEPT !.at = "answer"]}
  /\ UNCHANGED <<sent, queue, chain, initialized, cancelled, answered>>

\* The answer is written, unless the request was cancelled meanwhile; the slot is free.
Answer(t) ==
  /\ t.at = "answer"
  /\ answered' = IF IsRequest(t.msg) /\ t.msg.id \notin cancelled
                 THEN answered \cup {t.msg.id} ELSE answered
  /\ Drained(queue, inFlight \ {t})
  /\ UNCHANGED sent

HandleTask == \E t \in inFlight : Turn(t) \/ FinishTool(t) \/ Answer(t)

McpNext == Send \/ HandleTask

McpSpec == McpInit /\ [][McpNext]_mcpVars

\* The event loop turns, and every tool returns: its commands have time limits.
McpFairness ==
  \A i \in 1..MaxMessages :
    /\ WF_mcpVars(\E t \in inFlight : t.msg.id = i /\ Turn(t))
    /\ WF_mcpVars(\E t \in inFlight : t.msg.id = i /\ FinishTool(t))
    /\ WF_mcpVars(\E t \in inFlight : t.msg.id = i /\ Answer(t))

-----------------------------------------------------------------------------
(* Properties. *)

\* Tools run one at a time and in the order in which their calls arrived, whatever is
\* cancelled, answered or queued meanwhile: a tool may change the repository (protocol.mjs:132-136).
ToolsTakeTurns ==
  \A t, u \in Unsettled : t.at = "run" /\ u # t => t.msg.id < u.msg.id

\* Every line is dealt with in the end, whatever was cancelled and however full the queue
\* was: nothing stays queued or in flight (stdio.mjs:36-49).
Drains == []<>(queue = <<>> /\ inFlight = {})
=============================================================================
