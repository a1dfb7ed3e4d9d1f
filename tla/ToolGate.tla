---- MODULE ToolGate ----
(***************************************************************************)
(* The tools/call handler of the runtime (server.mjs): the lease and       *)
(* policy check of a call, the meter events it records through the queue   *)
(* meterQueue, and the usage counts the policy is evaluated with.          *)
(*                                                                         *)
(* Every line of standard input starts a handler, which runs to its first  *)
(* await: the lines of one chunk are all checked before any of them is     *)
(* metered.  The awaits settle in microtasks, so the next chunk is read    *)
(* when all handlers have answered.  What recording an event does to the   *)
(* spool is the subject of MeterClient; here it is one step.               *)
(***************************************************************************)
EXTENDS Policy, Sequences, FiniteSets

CONSTANTS
  Calls,     \* requests tools/call the MCP client may send
  Tools,     \* tool names it may send
  Known,     \* those the runtime has
  Seats,     \* seats a bundle may be licensed for
  Policies,  \* policy snapshots a bundle may carry
  LeaseEnd,  \* when the grace period of the lease ends
  Chunk,     \* bound on the lines that are delivered at once
  MaxNow,    \* bound on the clock
  MaxStarts, \* bound on the starts of the process
  Faults     \* "kill": the process dies; "log": recording an event fails

ASSUME GateAssumption ==
  /\ IsFiniteSet(Calls)
  /\ Tools # {} /\ Known \subseteq Tools
  /\ \A p \in Policies : p = NoPolicy \/ ValidPolicy(p)
  /\ LeaseEnd \in Nat /\ MaxNow \in Nat /\ MaxStarts \in Nat
  /\ Chunk \in Nat \ {0}
  /\ Faults \subseteq {"kill", "log"}

VARIABLES
  policy,    \* policySnapshot of the bundle
  up,        \* the process runs
  seat,      \* runtimeSeatId
  now,       \* wall clock
  count,     \* toolUsageBySeat
  saved,     \* toolUsageCounts in meter-state.json
  handler,   \* progress of the handler of each call
  queue,     \* meterQueue: calls whose event is to be recorded, in order
  recorded,  \* history: events recorded, with their call, seat and tool
  uncounted, \* history: recorded calls whose count died with the process
  starts     \* number of process starts so far

vars == <<policy, up, seat, now, count, saved, handler, queue, recorded,
          uncounted, starts>>

----

Events == {"lease_check_failed", "tool_denied", "tool_call", "tool_success",
           "tool_unknown", "tool_error"}

Stages == {"new", "waiting", "resumed", "answered", "lost"}

\* `event' is the event a handler awaits, or awaited last.
Handler == [stage : Stages, tool : Tools, event : Events]

Counts == [Seats \X Tools -> Nat]

Active == {c \in Calls : handler[c].stage \in {"waiting", "resumed"}}

\* Calls that were allowed and are not counted yet.
Admitted(t) ==
  {c \in Active : handler[c].event = "tool_call" /\ handler[c].tool = t}

\* Of those, the calls whose event is recorded.
Uncounted(t) == {c \in Admitted(t) : handler[c].stage = "resumed"}

\* No microtask has run since the first line of the chunk arrived.
Reading == Len(queue) = Cardinality(Active)

----

\* Mutant: calls that are allowed with a warning are not metered.
FirstEvent_FreeWarning(d) ==
  CASE d = "ALLOW" -> "tool_call"
    [] d = "ALLOW_WITH_WARNING" -> "tool_success"
    [] d = "DENY" -> "tool_denied"
    [] d = "THROW" -> "tool_error"

\* The event a call with policy decision d records first.
FirstEvent(d) ==
  CASE Allowed(d) -> "tool_call"
    [] d = "DENY" -> "tool_denied"
    [] d = "THROW" -> "tool_error"

\* Mutant: the start of a process forgets the counts.
Restored_Zero(saves) == [st \in DOMAIN saves |-> 0]

\* The counts of meter-state.json are loaded when the process starts.
Restored(saves) == saves

Start(s) ==
  /\ ~up
  /\ starts < MaxStarts
  /\ now <= LeaseEnd
  /\ up' = TRUE
  /\ seat' = s
  /\ count' = Restored(saved)
  /\ starts' = starts + 1
  /\ UNCHANGED <<policy, now, saved, handler, queue, recorded, uncounted>>

\* A line arrives: lease check, policy decision, first recordMeterEvent.
Arrive(c, t) ==
  /\ up
  /\ handler[c].stage = "new"
  /\ Reading
  /\ Cardinality(Active) < Chunk
  /\ LET d == ToolCallDecision(policy, seat, t, count[<<seat, t>>], now)
         e == IF now > LeaseEnd THEN "lease_check_failed" ELSE FirstEvent(d)
     IN handler' = [handler EXCEPT
                      ![c] = [stage |-> "waiting", tool |-> t, event |-> e]]
  /\ queue' = Append(queue, c)
  /\ UNCHANGED <<policy, up, seat, now, count, saved, recorded, uncounted,
                 starts>>

\* Mutant: a handler whose event could not be recorded is never resumed.
Settled_WhenLogged(logged) == IF logged THEN "resumed" ELSE "waiting"

\* A failure to record is reported on standard error only: the handler goes on.
Settled(logged) == "resumed"

\* appendAndFlush for the next event of the queue.
RecordEvent ==
  /\ up
  /\ queue # <<>>
  /\ \E logged \in {TRUE} \cup (IF "log" \in Faults THEN {FALSE} ELSE {}) :
       LET c == Head(queue)
           e == [call |-> c, kind |-> handler[c].event, seat |-> seat,
                 tool |-> handler[c].tool]
       IN /\ recorded' = recorded \cup IF logged THEN {e} ELSE {}
          /\ handler' = [handler EXCEPT ![c].stage = Settled(logged)]
  /\ queue' = Tail(queue)
  /\ UNCHANGED <<policy, up, seat, now, count, saved, uncounted, starts>>

\* The event a call of tool t records after it ran.
LastEvents(t) ==
  IF t \in Known THEN {"tool_success", "tool_error"} ELSE {"tool_unknown"}

\* Mutant: the calls that are left are counted down.
Counted_Down(n) == n - 1

\* incrementToolUsageCount, before the outcome of the call is known.
Counted(n) == n + 1

\* The call was metered: it is counted, the count is saved, the tool runs, and
\* its outcome is recorded.
RunTool(c) ==
  /\ up
  /\ handler[c].stage = "resumed"
  /\ handler[c].event = "tool_call"
  /\ \E e \in LastEvents(handler[c].tool) :
       /\ count' = [count EXCEPT ![<<seat, handler[c].tool>>] = Counted(@)]
       /\ saved' = count'
       /\ handler' = [handler EXCEPT ![c].stage = "waiting", ![c].event = e]
  /\ queue' = Append(queue, c)
  /\ UNCHANGED <<policy, up, seat, now, recorded, uncounted, starts>>

\* The response is written.
Answer(c) ==
  /\ up
  /\ handler[c].stage = "resumed"
  /\ handler[c].event # "tool_call"
  /\ handler' = [handler EXCEPT ![c].stage = "answered"]
  /\ UNCHANGED <<policy, up, seat, now, count, saved, queue, recorded,
                 uncounted, starts>>

\* The process exits between chunks, or is killed.
Exit ==
  /\ up
  /\ Active = {} \/ "kill" \in Faults
  /\ up' = FALSE
  /\ handler' = [c \in Calls |-> IF c \in Active
                                   THEN [handler[c] EXCEPT !.stage = "lost"]
                                   ELSE handler[c]]
  /\ uncounted' = [st \in Seats \X Tools |->
                     uncounted[st] + IF st[1] = seat
                                       THEN Cardinality(Uncounted(st[2])) ELSE 0]
  /\ queue' = <<>>
  /\ UNCHANGED <<policy, seat, now, count, saved, recorded, starts>>

Tick ==
  /\ now < MaxNow
  /\ now' = now + 1
  /\ UNCHANGED <<policy, up, seat, count, saved, handler, queue, recorded,
                 uncounted, starts>>

Init ==
  /\ policy \in Policies
  /\ up = FALSE
  /\ seat \in Seats
  /\ now = 1
  /\ count = [st \in Seats \X Tools |-> 0]
  /\ saved = count
  /\ handler = [c \in Calls |-> [stage |-> "new",
                                 tool |-> (CHOOSE t \in Tools : TRUE),
                                 event |-> "tool_error"]]
  /\ queue = <<>>
  /\ recorded = {}
  /\ uncounted = count
  /\ starts = 0

Next ==
  \/ \E s \in Seats : Start(s)
  \/ \E c \in Calls, t \in Tools : Arrive(c, t)
  \/ RecordEvent
  \/ \E c \in Calls : RunTool(c)
  \/ \E c \in Calls : Answer(c)
  \/ Exit
  \/ Tick

Spec == Init /\ [][Next]_vars

----
(* Properties *)

\* Every variable has the type of the data it stands for.
TypeOK ==
  /\ policy \in Policies
  /\ up \in BOOLEAN
  /\ seat \in Seats
  /\ now \in Nat
  /\ count \in Counts
  /\ saved \in Counts
  /\ handler \in [Calls -> Handler]
  /\ queue \in Seq(Calls)
  /\ recorded \subseteq
       [call : Calls, kind : Events, seat : Seats, tool : Tools]
  /\ uncounted \in Counts
  /\ starts \in Nat

\* The tool calls of a seat that were metered, in all sessions.
Metered(s, t) ==
  {e \in recorded : e.kind = "tool_call" /\ e.seat = s /\ e.tool = t}

Budgeted(t) == policy # NoPolicy /\ t \in DOMAIN policy.budgets

\* No seat is ever metered for more calls of a tool than the hard stop of its
\* budget allows, over any number of sessions.
HardStop ==
  \A s \in Seats, t \in Tools :
    Budgeted(t) =>
      ~Exceeds(policy, t, Cardinality(Metered(s, t)), policy.hardStopPct)

\* What holds however the calls are delivered: the hard stop is overrun by at
\* most the calls that arrived in one chunk with the last one allowed, and by
\* those that were metered but died before they were counted.
BoundedOverrun ==
  \A s \in Seats, t \in Tools :
    Budgeted(t) =>
      ~Exceeds(policy, t,
               Cardinality(Metered(s, t)) - uncounted[<<s, t>>] - (Chunk - 1),
               policy.hardStopPct)

\* The counts the policy is evaluated with miss no metered call but those in
\* flight and those that died uncounted.
Accounted ==
  \A s \in Seats, t \in Tools :
    Cardinality(Metered(s, t))
      <= saved[<<s, t>>] + uncounted[<<s, t>>]
           + (IF up /\ s = seat THEN Cardinality(Uncounted(t)) ELSE 0)

\* A call that was answered with a result was metered before.
ResultIsMetered ==
  \A c \in Calls :
    handler[c].stage = "answered" /\ handler[c].event = "tool_success" =>
      \E e \in recorded : e.call = c /\ e.kind = "tool_call"

\* A call is only allowed inside the window of the workspace and while the
\* workspace is enabled, whatever the overrides of the seat say.
SeatNeverWidens ==
  [][\A c \in Calls :
       /\ handler[c].stage = "new"
       /\ handler'[c].event = "tool_call"
       /\ policy # NoPolicy
       => /\ policy.mode = "ENABLED"
          /\ policy.window.starts <= now /\ now <= policy.window.grace]_vars

====
