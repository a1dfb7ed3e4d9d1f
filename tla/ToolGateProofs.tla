---- MODULE ToolGateProofs ----
(***************************************************************************)
(* Proofs about the gate of the runtime, for every set of calls, tools,    *)
(* seats and policies, every chunk size and any number of sessions.        *)
(***************************************************************************)
EXTENDS ToolGate, FiniteSetTheorems, TLAPS

\* The queue holds calls that wait, each once.
Queued ==
  /\ \A i \in 1..Len(queue) : handler[queue[i]].stage = "waiting"
  /\ \A i, j \in 1..Len(queue) : queue[i] = queue[j] => i = j

\* The counts in memory are saved, and no handler outlives its process.
Synced ==
  /\ count = saved
  /\ ~up => Active = {}
  /\ IsFiniteSet(recorded)

\* Counted and admitted calls together pass the hard stop by less than a chunk.
Gated ==
  \A s \in Seats, t \in Tools :
    Budgeted(t) =>
      ~Exceeds(policy, t,
               count[<<s, t>>] + (IF s = seat THEN Cardinality(Admitted(t)) ELSE 0)
                 - (Chunk - 1),
               policy.hardStopPct)

GateInv == TypeOK /\ Queued /\ Synced /\ Accounted /\ Gated

----
(* The decision of the policy. *)

\* The four outcomes of the evaluation.
LEMMA DecisionType ==
  ASSUME NEW p, NEW s, NEW t, NEW n, NEW at
  PROVE  ToolCallDecision(p, s, t, n, at)
           \in {"ALLOW", "ALLOW_WITH_WARNING", "DENY", "THROW"}
BY DEF ToolCallDecision, PolicyDecision

\* Every decision leads to an event, and only an allowed call to a tool_call.
LEMMA FirstEventOf ==
  ASSUME NEW d \in {"ALLOW", "ALLOW_WITH_WARNING", "DENY", "THROW"}
  PROVE  /\ FirstEvent(d) \in {"tool_call", "tool_denied", "tool_error"}
         /\ FirstEvent(d) = "tool_call" => Allowed(d)
BY DEF FirstEvent, Allowed

\* A call is allowed only while it, too, stays within the hard stop.
LEMMA AllowedWithinBudget ==
  ASSUME NEW p, NEW s, NEW t, NEW n, NEW at, p # NoPolicy,
         t \in DOMAIN p.budgets, Allowed(ToolCallDecision(p, s, t, n, at))
  PROVE  ~Exceeds(p, t, n + 1, p.hardStopPct)
BY DEF Allowed, ToolCallDecision, PolicyDecision, Forbids, UsageState

\* Fewer calls do not exceed what more calls do not.
LEMMA ExceedsMonotone ==
  ASSUME NEW p, ValidPolicy(p), NEW t \in DOMAIN p.budgets,
         NEW a \in Int, NEW b \in Int, a <= b,
         ~Exceeds(p, t, b, p.hardStopPct)
  PROVE  ~Exceeds(p, t, a, p.hardStopPct)
<1>1. p.hardStopPct \in Nat /\ p.budgets[t] \in Nat
  BY DEF ValidPolicy
<1> DEFINE limit == p.hardStopPct * p.budgets[t]
<1>2. limit \in Int
  BY <1>1
<1>3. ~ (b * 100 > limit)
  BY DEF Exceeds
<1> HIDE DEF limit
<1>4. ~ (a * 100 > limit)
  BY <1>2, <1>3
<1>5. QED
  BY <1>4 DEF Exceeds, limit

\* A call is allowed only in the window of the workspace, whatever the
\* window of the seat.
LEMMA AllowedInWindow ==
  ASSUME NEW p, ValidPolicy(p), NEW s, NEW t, NEW n, NEW at \in Nat,
         p # NoPolicy, Allowed(ToolCallDecision(p, s, t, n, at))
  PROVE  /\ p.mode = "ENABLED"
         /\ p.window.starts <= at /\ at <= p.window.grace
<1> DEFINE w == EffectiveWindow(p, s)
<1>1. /\ ValidWindow(w)
      /\ p.mode # "DISABLED"
      /\ TimeState(at, w) \notin {"NOT_STARTED", "EXPIRED"}
  BY DEF Allowed, ToolCallDecision, PolicyDecision, Forbids
<1>2. p.mode = "ENABLED"
  BY <1>1 DEF ValidPolicy, Modes
<1>3. w.starts \in Nat /\ w.expires \in Nat /\ w.grace \in Nat /\ w.expires <= w.grace
  BY <1>1 DEF ValidWindow
<1>4. w.starts <= at /\ at <= w.grace
  BY <1>1, <1>3 DEF TimeState
<1>5. /\ p.window.starts \in Nat /\ p.window.grace \in Nat
      /\ s \in DOMAIN p.overrides =>
           p.overrides[s].starts \in Nat /\ p.overrides[s].grace \in Nat
  BY DEF ValidPolicy, ValidWindow
<1>6. p.window.starts <= w.starts /\ w.grace <= p.window.grace
  BY <1>5 DEF EffectiveWindow, Later, Earlier
<1>7. QED
  BY <1>2, <1>3, <1>4, <1>5, <1>6

----
(* Type correctness. *)

\* Every action keeps the types.
LEMMA TypeStep == TypeOK /\ [Next]_vars => TypeOK'
<1> SUFFICES ASSUME TypeOK, [Next]_vars PROVE TypeOK'
  OBVIOUS
<1> USE DEF TypeOK
<1>1. ASSUME NEW s \in Seats, Start(s) PROVE TypeOK'
  BY <1>1, GateAssumption DEF Start, Restored
<1>2. ASSUME NEW c \in Calls, NEW t \in Tools, Arrive(c, t) PROVE TypeOK'
  <2> DEFINE d == ToolCallDecision(policy, seat, t, count[<<seat, t>>], now)
             e == IF now > LeaseEnd THEN "lease_check_failed" ELSE FirstEvent(d)
  <2>0. d \in {"ALLOW", "ALLOW_WITH_WARNING", "DENY", "THROW"}
    BY DecisionType, Zenon
  <2> HIDE DEF d
  <2>1. e \in Events
    BY <2>0, FirstEventOf DEF Events
  <2>2. handler' = [handler EXCEPT
                      ![c] = [stage |-> "waiting", tool |-> t, event |-> e]]
    BY <1>2 DEF Arrive, d
  <2> HIDE DEF e
  <2>3. handler' \in [Calls -> Handler]
    BY <2>1, <2>2 DEF Handler, Stages
  <2>a. queue' = Append(queue, c)
    BY <1>2 DEF Arrive
  <2>4. queue' \in Seq(Calls)
    BY <2>a
  <2>5. QED
    BY <1>2, <2>3, <2>4 DEF Arrive
<1>3. CASE RecordEvent
  <2> DEFINE c == Head(queue)
  <2>1. c \in Calls /\ queue' \in Seq(Calls)
    BY <1>3 DEF RecordEvent
  <2>2. handler' = [handler EXCEPT ![c].stage = "resumed"]
    BY <1>3 DEF RecordEvent, Settled
  <2>3. handler' \in [Calls -> Handler]
    BY <2>1, <2>2 DEF Handler, Stages
  <2>4. [call |-> c, kind |-> handler[c].event, seat |-> seat,
         tool |-> handler[c].tool]
          \in [call : Calls, kind : Events, seat : Seats, tool : Tools]
    BY <2>1 DEF Handler
  <2>5. recorded' \subseteq [call : Calls, kind : Events, seat : Seats, tool : Tools]
    BY <1>3, <2>4 DEF RecordEvent
  <2>6. QED
    BY <1>3, <2>1, <2>3, <2>5 DEF RecordEvent
<1>4. ASSUME NEW c \in Calls, RunTool(c) PROVE TypeOK'
  <2>1. PICK e \in LastEvents(handler[c].tool) :
          /\ count' = [count EXCEPT ![<<seat, handler[c].tool>>] = Counted(@)]
          /\ saved' = count'
          /\ handler' = [handler EXCEPT ![c].stage = "waiting", ![c].event = e]
    BY <1>4 DEF RunTool
  <2>2. e \in Events
    BY DEF LastEvents, Events
  <2>3. handler' \in [Calls -> Handler]
    BY <2>1, <2>2 DEF Handler, Stages
  <2>4. count' \in Counts
    BY <2>1 DEF Counts, Counted, Handler
  <2>5. QED
    BY <1>4, <2>1, <2>3, <2>4 DEF RunTool
<1>5. ASSUME NEW c \in Calls, Answer(c) PROVE TypeOK'
  BY <1>5 DEF Answer, Handler, Stages
<1>6. CASE Exit
  <2>1. handler' \in [Calls -> Handler]
    BY <1>6 DEF Exit, Handler, Stages
  <2>2. \A t : Cardinality(Uncounted(t)) \in Nat
    <3> TAKE t
    <3>1. Uncounted(t) \subseteq Calls
      BY DEF Uncounted, Admitted, Active
    <3>2. QED
      BY <3>1, FS_Subset, FS_CardinalityType, GateAssumption
  <2>3. uncounted' \in Counts
    BY <1>6, <2>2 DEF Exit, Counts
  <2>4. queue' \in Seq(Calls) /\ up' = FALSE
    BY <1>6 DEF Exit
  <2>5. QED
    BY <1>6, <2>1, <2>3, <2>4 DEF Exit
<1>7. CASE Tick
  BY <1>7 DEF Tick
<1>8. CASE UNCHANGED vars
  BY <1>8 DEF vars
<1>9. QED
  BY <1>1, <1>2, <1>3, <1>4, <1>5, <1>6, <1>7, <1>8 DEF Next

\* A bundle starts with the right types.
LEMMA GateTypeInit == Init => TypeOK
<1>1. ASSUME Init PROVE TypeOK
  <2>1. (CHOOSE t \in Tools : TRUE) \in Tools
    BY GateAssumption
  <2> DEFINE first == CHOOSE t \in Tools : TRUE
  <2>2. handler = [c \in Calls |-> [stage |-> "new", tool |-> first,
                                   event |-> "tool_error"]]
    BY <1>1 DEF Init
  <2> HIDE DEF first
  <2>3. handler \in [Calls -> Handler]
    BY <2>1, <2>2 DEF Handler, Stages, Events, first
  <2>4. count \in Counts /\ saved \in Counts /\ uncounted \in Counts
    BY <1>1 DEF Init, Counts
  <2>5. queue \in Seq(Calls)
    BY <1>1 DEF Init
  <2>6. QED
    BY <1>1, <2>3, <2>4, <2>5 DEF Init, TypeOK
<1>2. QED
  BY <1>1

\* The variables of the gate always have their types, in every session.
THEOREM GateTypeCorrect == Spec => []TypeOK
BY GateTypeInit, TypeStep, PTL DEF Spec

----
(* The counters of the invariants. *)

\* The sets of calls the invariants count are finite.
LEMMA Finite ==
  ASSUME NEW t
  PROVE  /\ IsFiniteSet(Active) /\ Cardinality(Active) \in Nat
         /\ IsFiniteSet(Admitted(t)) /\ Cardinality(Admitted(t)) \in Nat
         /\ IsFiniteSet(Uncounted(t)) /\ Cardinality(Uncounted(t)) \in Nat
         /\ Cardinality(Uncounted(t)) <= Cardinality(Admitted(t))
<1>1. /\ Active \subseteq Calls
      /\ Admitted(t) \subseteq Active
      /\ Uncounted(t) \subseteq Admitted(t)
  BY DEF Uncounted, Admitted, Active
<1>2. IsFiniteSet(Active)
  BY <1>1, FS_Subset, GateAssumption
<1>3. IsFiniteSet(Admitted(t))
  BY <1>1, <1>2, FS_Subset
<1>4. IsFiniteSet(Uncounted(t)) /\ Cardinality(Uncounted(t)) <= Cardinality(Admitted(t))
  BY <1>1, <1>3, FS_Subset
<1>5. QED
  BY <1>2, <1>3, <1>4, FS_CardinalityType

\* So are the events the ledger of a seat counts.
LEMMA MeteredFinite ==
  ASSUME IsFiniteSet(recorded), NEW s, NEW t
  PROVE  IsFiniteSet(Metered(s, t)) /\ Cardinality(Metered(s, t)) \in Nat
<1>1. Metered(s, t) \subseteq recorded
  BY DEF Metered
<1>2. QED
  BY <1>1, FS_Subset, FS_CardinalityType

\* What a handler that moves leaves to the others.
LEMMA CountsAlike ==
  ASSUME NEW t, NEW c \in Calls, handler \in [Calls -> Handler],
         handler' \in [Calls -> Handler],
         \A x \in Calls \ {c} : handler'[x] = handler[x]
  PROVE  /\ Admitted(t)' \ {c} = Admitted(t) \ {c}
         /\ Uncounted(t)' \ {c} = Uncounted(t) \ {c}
         /\ Active' \ {c} = Active \ {c}
         /\ c \in Active <=> handler[c].stage \in {"waiting", "resumed"}
         /\ c \in Active' <=> handler'[c].stage \in {"waiting", "resumed"}
         /\ c \in Admitted(t) <=> /\ c \in Active
                                  /\ handler[c].event = "tool_call"
                                  /\ handler[c].tool = t
         /\ c \in Admitted(t)' <=> /\ c \in Active'
                                   /\ handler'[c].event = "tool_call"
                                   /\ handler'[c].tool = t
         /\ c \in Uncounted(t) <=> c \in Admitted(t) /\ handler[c].stage = "resumed"
         /\ c \in Uncounted(t)' <=> c \in Admitted(t)' /\ handler'[c].stage = "resumed"
BY DEF Admitted, Uncounted, Active

\* The cardinalities before and after the step of one call differ by that call.
LEMMA OneMoves ==
  ASSUME NEW S, NEW T, NEW c, IsFiniteSet(S), IsFiniteSet(T), S \ {c} = T \ {c}
  PROVE  /\ Cardinality(S) \in Nat /\ Cardinality(T) \in Nat
         /\ Cardinality(T) = Cardinality(S)
              - (IF c \in S THEN 1 ELSE 0) + (IF c \in T THEN 1 ELSE 0)
<1>1. /\ Cardinality(S) \in Nat /\ Cardinality(T) \in Nat
      /\ Cardinality(S \ {c}) \in Nat
  BY FS_CardinalityType, FS_RemoveElement
<1>2. Cardinality(S \ {c}) = IF c \in S THEN Cardinality(S) - 1 ELSE Cardinality(S)
  BY FS_RemoveElement
<1>3. Cardinality(T \ {c}) = IF c \in T THEN Cardinality(T) - 1 ELSE Cardinality(T)
  BY FS_RemoveElement
<1>4. QED
  BY <1>1, <1>2, <1>3

----
(* The queue. *)

\* The queue always holds waiting calls, each once.
LEMMA QueuedStep == TypeOK /\ Queued /\ [Next]_vars => Queued'
<1> SUFFICES ASSUME TypeOK, Queued, [Next]_vars PROVE Queued'
  OBVIOUS
<1>0. handler \in [Calls -> Handler] /\ queue \in Seq(Calls)
  BY DEF TypeOK
<1>1. ASSUME NEW s \in Seats, Start(s) PROVE Queued'
  BY <1>1 DEF Start, Queued
<1>2. ASSUME NEW c \in Calls, NEW t \in Tools, Arrive(c, t) PROVE Queued'
  <2>1. /\ queue' = Append(queue, c)
        /\ handler[c].stage = "new"
        /\ \A x \in Calls \ {c} : handler'[x] = handler[x]
        /\ handler'[c].stage = "waiting"
    BY <1>0, <1>2 DEF Arrive
  <2>2. \A i \in 1..Len(queue) : queue[i] \in Calls \ {c}
    BY <1>0, <2>1 DEF Queued
  <2>3. QED
    BY <1>0, <2>1, <2>2 DEF Queued
<1>3. CASE RecordEvent
  <2> DEFINE c == Head(queue)
  <2>1. /\ queue # <<>> /\ queue' = Tail(queue)
        /\ handler' = [handler EXCEPT ![c].stage = "resumed"]
    BY <1>3 DEF RecordEvent, Settled
  <2>2. \A i \in 1..Len(queue') :
          i + 1 \in 1..Len(queue) /\ queue'[i] = queue[i + 1]
    BY <1>0, <2>1
  <2>3. c = queue[1] /\ 1 \in 1..Len(queue)
    BY <1>0, <2>1
  <2>4. \A i \in 1..Len(queue') : queue'[i] # c /\ queue'[i] \in Calls
    BY <1>0, <2>2, <2>3 DEF Queued
  <2>5. \A x \in Calls \ {c} : handler'[x] = handler[x]
    BY <1>0, <2>1
  <2> HIDE DEF c
  <2>6. \A i \in 1..Len(queue') : handler'[queue'[i]].stage = "waiting"
    BY <2>2, <2>4, <2>5 DEF Queued
  <2>7. \A i, j \in 1..Len(queue') : queue'[i] = queue'[j] => i = j
    <3> SUFFICES ASSUME NEW i \in 1..Len(queue'), NEW j \in 1..Len(queue'),
                        queue'[i] = queue'[j]
                 PROVE  i = j
      OBVIOUS
    <3>1. queue[i + 1] = queue[j + 1] /\ i + 1 \in 1..Len(queue) /\ j + 1 \in 1..Len(queue)
      BY <2>2
    <3>2. i + 1 = j + 1
      BY <3>1 DEF Queued
    <3>3. i \in Int /\ j \in Int
      OBVIOUS
    <3>4. QED
      BY <3>2, <3>3
  <2>8. QED
    BY <2>6, <2>7 DEF Queued
<1>4. ASSUME NEW c \in Calls, RunTool(c) PROVE Queued'
  <2>1. /\ queue' = Append(queue, c)
        /\ handler[c].stage = "resumed"
        /\ \A x \in Calls \ {c} : handler'[x] = handler[x]
        /\ handler'[c].stage = "waiting"
    BY <1>0, <1>4 DEF RunTool, Handler
  <2>2. \A i \in 1..Len(queue) : queue[i] \in Calls \ {c}
    BY <1>0, <2>1 DEF Queued
  <2>3. QED
    BY <1>0, <2>1, <2>2 DEF Queued
<1>5. ASSUME NEW c \in Calls, Answer(c) PROVE Queued'
  <2>1. /\ queue' = queue
        /\ handler[c].stage = "resumed"
        /\ \A x \in Calls \ {c} : handler'[x] = handler[x]
    BY <1>0, <1>5 DEF Answer
  <2>2. \A i \in 1..Len(queue) : queue[i] \in Calls \ {c}
    BY <1>0, <2>1 DEF Queued
  <2>3. QED
    BY <1>0, <2>1, <2>2 DEF Queued
<1>6. CASE Exit
  <2>1. Len(queue') = 0
    BY <1>6 DEF Exit
  <2>2. QED
    BY <2>1 DEF Queued
<1>7. CASE Tick
  BY <1>7 DEF Tick, Queued
<1>8. CASE UNCHANGED vars
  BY <1>8 DEF vars, Queued
<1>9. QED
  BY <1>1, <1>2, <1>3, <1>4, <1>5, <1>6, <1>7, <1>8 DEF Next

----
(* The counts. *)

\* Counts are saved when they change, and a process ends its handlers.
LEMMA SyncedStep == TypeOK /\ Synced /\ [Next]_vars => Synced'
<1> SUFFICES ASSUME TypeOK, Synced, [Next]_vars PROVE Synced'
  OBVIOUS
<1>0. handler \in [Calls -> Handler]
  BY DEF TypeOK
<1>1. ASSUME NEW s \in Seats, Start(s) PROVE Synced'
  BY <1>1 DEF Start, Synced, Restored
<1>2. ASSUME NEW c \in Calls, NEW t \in Tools, Arrive(c, t) PROVE Synced'
  BY <1>2 DEF Arrive, Synced
<1>3. CASE RecordEvent
  <2>1. PICK e : recorded' = recorded \/ recorded' = recorded \cup {e}
    BY <1>3 DEF RecordEvent
  <2>2. IsFiniteSet(recorded')
    BY <2>1, FS_AddElement DEF Synced
  <2>3. QED
    BY <1>3, <2>2 DEF RecordEvent, Synced
<1>4. ASSUME NEW c \in Calls, RunTool(c) PROVE Synced'
  BY <1>4 DEF RunTool, Synced
<1>5. ASSUME NEW c \in Calls, Answer(c) PROVE Synced'
  BY <1>5 DEF Answer, Synced
<1>6. CASE Exit
  <2>1. \A c \in Calls : handler'[c].stage \notin {"waiting", "resumed"}
    BY <1>0, <1>6 DEF Exit, Active, Handler
  <2>2. QED
    BY <1>6, <2>1 DEF Exit, Synced, Active
<1>7. CASE Tick
  BY <1>7 DEF Tick, Synced, Active
<1>8. CASE UNCHANGED vars
  BY <1>8 DEF vars, Synced, Active
<1>9. QED
  BY <1>1, <1>2, <1>3, <1>4, <1>5, <1>6, <1>7, <1>8 DEF Next

\* Every metered call is counted, in flight, or died uncounted.
LEMMA AccountedStep ==
  TypeOK /\ Queued /\ Synced /\ Accounted /\ [Next]_vars => Accounted'
<1> SUFFICES ASSUME TypeOK, Queued, Synced, Accounted, [Next]_vars,
                    NEW s \in Seats, NEW t \in Tools
             PROVE  (Cardinality(Metered(s, t))
                      <= saved[<<s, t>>] + uncounted[<<s, t>>]
                           + (IF up /\ s = seat THEN Cardinality(Uncounted(t)) ELSE 0))'
  BY DEF Accounted
<1> DEFINE M == Cardinality(Metered(s, t))
           U == Cardinality(Uncounted(t))
           k == <<s, t>>
           Goal == M <= saved[k] + uncounted[k] + (IF up /\ s = seat THEN U ELSE 0)
<1>a. /\ handler \in [Calls -> Handler] /\ handler' \in [Calls -> Handler]
      /\ saved \in Counts /\ uncounted \in Counts /\ queue \in Seq(Calls)
      /\ saved' \in Counts /\ uncounted' \in Counts
  BY TypeStep DEF TypeOK
<1>b. /\ k \in Seats \X Tools /\ saved[k] \in Nat /\ uncounted[k] \in Nat
      /\ saved'[k] \in Nat /\ uncounted'[k] \in Nat
  BY <1>a DEF Counts
<1>c. /\ IsFiniteSet(Metered(s, t)) /\ M \in Nat
      /\ IsFiniteSet(Metered(s, t)') /\ M' \in Nat
  <2>1. IsFiniteSet(recorded) /\ IsFiniteSet(recorded')
    BY SyncedStep DEF Synced
  <2>2. Metered(s, t)' \subseteq recorded'
    BY DEF Metered
  <2>3. QED
    BY <2>1, <2>2, MeteredFinite, FS_Subset, FS_CardinalityType
<1>d. U \in Nat /\ IsFiniteSet(Uncounted(t)) /\ IsFiniteSet(Uncounted(t)') /\ U' \in Nat
  <2>1. Uncounted(t)' \subseteq Calls
    BY DEF Uncounted, Admitted, Active
  <2>2. QED
    BY <2>1, Finite, FS_Subset, FS_CardinalityType, GateAssumption
<1>e. Goal
  BY DEF Accounted
<1>f. recorded' = recorded => M' = M
  BY DEF Metered
<1>g. handler' = handler => U' = U
  BY DEF Uncounted, Admitted, Active
<1>h. ASSUME NEW c \in Calls, \A x \in Calls \ {c} : handler'[x] = handler[x]
      PROVE  /\ U' = U - (IF c \in Uncounted(t) THEN 1 ELSE 0)
                       + (IF c \in Uncounted(t)' THEN 1 ELSE 0)
             /\ c \in Uncounted(t) <=> /\ handler[c].stage = "resumed"
                                       /\ handler[c].event = "tool_call"
                                       /\ handler[c].tool = t
             /\ c \in Uncounted(t)' <=> /\ handler'[c].stage = "resumed"
                                        /\ handler'[c].event = "tool_call"
                                        /\ handler'[c].tool = t
  <2>1. Uncounted(t)' \ {c} = Uncounted(t) \ {c}
    BY <1>a, <1>h DEF Uncounted, Admitted, Active
  <2>2. U' = U - (IF c \in Uncounted(t) THEN 1 ELSE 0)
               + (IF c \in Uncounted(t)' THEN 1 ELSE 0)
    BY <2>1, <1>d, OneMoves
  <2>3. QED
    BY <2>2 DEF Uncounted, Admitted, Active
<1> HIDE DEF M, U, k
<1> SUFFICES Goal'
  BY DEF M, U, k
<1>1. ASSUME NEW z \in Seats, Start(z) PROVE Goal'
  <2>1. up = FALSE /\ saved' = saved /\ uncounted' = uncounted /\ M' = M
    BY <1>1, <1>f DEF Start
  <2>2. QED
    BY <2>1, <1>b, <1>c, <1>d, <1>e
<1>2. ASSUME NEW c \in Calls, NEW z \in Tools, Arrive(c, z) PROVE Goal'
  <2>1. /\ handler[c].stage = "new" /\ handler'[c].stage = "waiting"
        /\ \A x \in Calls \ {c} : handler'[x] = handler[x]
    BY <1>2, <1>a DEF Arrive
  <2>2. U' = U
    BY <2>1, <1>h, <1>d
  <2>3. QED
    BY <1>2, <1>e, <1>f, <2>2 DEF Arrive
<1>3. CASE RecordEvent
  <2> DEFINE c == Head(queue)
             e == [call |-> c, kind |-> handler[c].event, seat |-> seat,
                   tool |-> handler[c].tool]
  <2>1. /\ c \in Calls /\ c = queue[1] /\ 1 \in 1..Len(queue)
        /\ handler' = [handler EXCEPT ![c].stage = "resumed"]
    BY <1>3, <1>a DEF RecordEvent, Settled
  <2>2. handler[c].stage = "waiting"
    BY <2>1 DEF Queued
  <2>3. /\ \A x \in Calls \ {c} : handler'[x] = handler[x]
        /\ handler'[c].stage = "resumed"
        /\ handler'[c].event = handler[c].event
        /\ handler'[c].tool = handler[c].tool
    BY <2>1, <1>a DEF Handler
  <2>4. U' = U + (IF handler[c].event = "tool_call" /\ handler[c].tool = t
                    THEN 1 ELSE 0)
    BY <2>1, <2>2, <2>3, <1>h, <1>d
  <2>5. recorded' = recorded \/ recorded' = recorded \cup {e}
    BY <1>3 DEF RecordEvent
  <2>6. M' <= M + 1
    <3> HIDE DEF e
    <3>1. Metered(s, t)' \subseteq Metered(s, t) \cup {e}
      BY <2>5 DEF Metered
    <3>2. /\ IsFiniteSet(Metered(s, t) \cup {e})
          /\ Cardinality(Metered(s, t) \cup {e}) <= M + 1
      <4>1. /\ IsFiniteSet(Metered(s, t) \cup {e})
            /\ Cardinality(Metered(s, t) \cup {e})
                 = IF e \in Metered(s, t) THEN M ELSE M + 1
        BY <1>c, FS_AddElement DEF M
      <4>2. QED
        BY <4>1, <1>c
    <3>3. M' <= Cardinality(Metered(s, t) \cup {e})
      BY <3>1, <3>2, FS_Subset DEF M
    <3>4. Cardinality(Metered(s, t) \cup {e}) \in Nat
      BY <3>2, FS_CardinalityType
    <3>5. QED
      BY <3>2, <3>3, <3>4, <1>c
  <2>7. ~ (handler[c].event = "tool_call" /\ handler[c].tool = t /\ s = seat)
          => M' = M
    <3>1. e.kind = handler[c].event /\ e.tool = handler[c].tool /\ e.seat = seat
      OBVIOUS
    <3> HIDE DEF e
    <3>2. QED
      BY <2>5, <3>1 DEF Metered, M
  <2>8. up = TRUE /\ up' = TRUE /\ seat' = seat /\ saved' = saved
        /\ uncounted' = uncounted
    BY <1>3 DEF RecordEvent, TypeOK
  <2>9. QED
    BY <1>b, <1>c, <1>d, <1>e, <2>4, <2>6, <2>7, <2>8
<1>4. ASSUME NEW c \in Calls, RunTool(c) PROVE Goal'
  <2>1. PICK e \in LastEvents(handler[c].tool) :
          /\ count' = [count EXCEPT ![<<seat, handler[c].tool>>] = Counted(@)]
          /\ saved' = count'
          /\ handler' = [handler EXCEPT ![c].stage = "waiting", ![c].event = e]
    BY <1>4 DEF RunTool
  <2>2. /\ \A x \in Calls \ {c} : handler'[x] = handler[x]
        /\ handler'[c].stage = "waiting"
        /\ handler[c].stage = "resumed" /\ handler[c].event = "tool_call"
    BY <1>4, <2>1, <1>a DEF RunTool, Handler
  <2>3. U' = U - (IF handler[c].tool = t THEN 1 ELSE 0)
    BY <2>2, <1>h, <1>d
  <2>4. saved'[k] = saved[k] + (IF s = seat /\ handler[c].tool = t THEN 1 ELSE 0)
    <3>1. count = saved /\ count \in [Seats \X Tools -> Nat]
      BY <1>a DEF Synced, Counts
    <3>2. saved' = [saved EXCEPT ![<<seat, handler[c].tool>>] = @ + 1]
      BY <2>1, <3>1 DEF Counted
    <3>3. k = <<seat, handler[c].tool>> <=> s = seat /\ handler[c].tool = t
      BY DEF k
    <3>4. QED
      BY <1>b, <3>1, <3>2, <3>3
  <2>5. up' = up /\ seat' = seat /\ uncounted' = uncounted /\ recorded' = recorded
        /\ up
    BY <1>4 DEF RunTool
  <2>6. QED
    BY <1>b, <1>c, <1>d, <1>e, <1>f, <2>3, <2>4, <2>5
<1>5. ASSUME NEW c \in Calls, Answer(c) PROVE Goal'
  <2>1. /\ handler[c].event # "tool_call" /\ handler'[c].stage = "answered"
        /\ \A x \in Calls \ {c} : handler'[x] = handler[x]
    BY <1>5, <1>a DEF Answer, Handler
  <2>2. U' = U
    BY <2>1, <1>h, <1>d
  <2>3. QED
    BY <1>5, <1>e, <1>f, <2>2 DEF Answer
<1>6. CASE Exit
  <2>1. uncounted'[k] = uncounted[k] + (IF s = seat THEN U ELSE 0)
    BY <1>6, <1>b DEF Exit, U, k
  <2>2. up = TRUE /\ up' = FALSE /\ saved' = saved /\ M' = M
    BY <1>6, <1>f DEF Exit, TypeOK
  <2>3. QED
    BY <1>b, <1>c, <1>d, <1>e, <2>1, <2>2
<1>7. CASE Tick
  BY <1>7, <1>e, <1>f, <1>g DEF Tick
<1>8. CASE UNCHANGED vars
  BY <1>8, <1>e, <1>f, <1>g DEF vars
<1>9. QED
  BY <1>1, <1>2, <1>3, <1>4, <1>5, <1>6, <1>7, <1>8 DEF Next

\* However calls interleave, counted and admitted calls together stay less than
\* a chunk beyond the hard stop.
LEMMA GatedStep == TypeOK /\ Queued /\ Synced /\ Gated /\ [Next]_vars => Gated'
<1> SUFFICES ASSUME TypeOK, Queued, Synced, Gated, [Next]_vars,
                    NEW s \in Seats, NEW t \in Tools, Budgeted(t)'
             PROVE  (~Exceeds(policy, t,
                        count[<<s, t>>]
                          + (IF s = seat THEN Cardinality(Admitted(t)) ELSE 0)
                          - (Chunk - 1),
                        policy.hardStopPct))'
  BY DEF Gated
<1> DEFINE A == Cardinality(Admitted(t))
           k == <<s, t>>
           sum == count[k] + (IF s = seat THEN A ELSE 0) - (Chunk - 1)
<1>a. /\ handler \in [Calls -> Handler] /\ handler' \in [Calls -> Handler]
      /\ count \in Counts /\ count' \in Counts
      /\ seat \in Seats /\ now \in Nat
  BY TypeStep DEF TypeOK
<1>b. count[k] \in Nat /\ count'[k] \in Nat /\ Chunk \in Nat \ {0}
  BY <1>a, GateAssumption DEF Counts
<1>c. A \in Nat /\ A' \in Nat /\ IsFiniteSet(Admitted(t)) /\ IsFiniteSet(Admitted(t)')
  <2>1. Admitted(t)' \subseteq Calls
    BY DEF Admitted, Active
  <2>2. QED
    BY <2>1, Finite, FS_Subset, FS_CardinalityType, GateAssumption
<1>d. policy' = policy /\ policy \in Policies /\ Budgeted(t)
  <2>1. policy' = policy
    BY DEF Next, Start, Arrive, RecordEvent, RunTool, Answer, Exit, Tick, vars
  <2>2. QED
    BY <2>1 DEF Budgeted, TypeOK
<1>e. ValidPolicy(policy) /\ t \in DOMAIN policy.budgets /\ policy # NoPolicy
  BY <1>d, GateAssumption DEF Budgeted
<1>f. ~Exceeds(policy, t, sum, policy.hardStopPct)
  BY <1>d DEF Gated
<1>g. sum \in Int /\ sum' \in Int
  BY <1>b, <1>c
<1>h. ASSUME sum' <= sum PROVE ~Exceeds(policy, t, sum', policy.hardStopPct)
  <2> HIDE DEF sum
  <2>1. QED
    BY <1>e, <1>f, <1>g, <1>h, ExceedsMonotone
<1>i. ASSUME NEW c \in Calls, \A x \in Calls \ {c} : handler'[x] = handler[x]
      PROVE  A' = A - (IF c \in Admitted(t) THEN 1 ELSE 0)
                    + (IF c \in Admitted(t)' THEN 1 ELSE 0)
  <2>1. Admitted(t)' \ {c} = Admitted(t) \ {c}
    BY <1>a, <1>i DEF Admitted, Active
  <2>2. QED
    BY <2>1, <1>c, OneMoves
<1>j. handler' = handler => A' = A
  BY DEF Admitted, Active
<1> HIDE DEF A, k
<1> SUFFICES ~Exceeds(policy, t, sum', policy.hardStopPct)
  BY <1>d DEF A, k
<1>1. ASSUME NEW z \in Seats, Start(z) PROVE ~Exceeds(policy, t, sum', policy.hardStopPct)
  <2>1. count' = count
    BY <1>1 DEF Start, Synced, Restored
  <2>2. A' = 0
    <3>1. Admitted(t)' = {}
      BY <1>1 DEF Start, Synced, Admitted, Active
    <3>2. QED
      BY <3>1, FS_EmptySet DEF A
  <2>3. sum' <= sum
    BY <2>1, <2>2, <1>b, <1>c
  <2>4. QED
    BY <2>3, <1>h
<1>2. ASSUME NEW c \in Calls, NEW z \in Tools, Arrive(c, z)
      PROVE  ~Exceeds(policy, t, sum', policy.hardStopPct)
  <2> DEFINE d == ToolCallDecision(policy, seat, z, count[<<seat, z>>], now)
             e == IF now > LeaseEnd THEN "lease_check_failed" ELSE FirstEvent(d)
  <2>1. /\ handler' = [handler EXCEPT
                         ![c] = [stage |-> "waiting", tool |-> z, event |-> e]]
        /\ handler[c].stage = "new" /\ count' = count /\ seat' = seat
        /\ Cardinality(Active) < Chunk
    BY <1>2 DEF Arrive
  <2>2. d \in {"ALLOW", "ALLOW_WITH_WARNING", "DENY", "THROW"}
    BY DecisionType, Zenon
  <2>3. e = "tool_call" => Allowed(d)
    <3> HIDE DEF d
    <3>1. QED
      BY <2>2, FirstEventOf
  <2> HIDE DEF e
  <2>4. /\ \A x \in Calls \ {c} : handler'[x] = handler[x]
        /\ handler'[c] = [stage |-> "waiting", tool |-> z, event |-> e]
    BY <2>1, <1>a
  <2>5. c \notin Admitted(t)
    BY <2>1 DEF Admitted, Active
  <2>6. CASE ~ (s = seat /\ e = "tool_call" /\ z = t)
    <3>1. ~ (e = "tool_call" /\ z = t) => A' = A
      BY <1>c, <1>i, <2>4, <2>5 DEF Admitted
    <3>2. sum' <= sum
      BY <2>1, <2>6, <3>1, <1>b, <1>c
    <3>3. QED
      BY <3>2, <1>h
  <2>7. CASE s = seat /\ e = "tool_call" /\ z = t
    <3>1. ~Exceeds(policy, t, count[k] + 1, policy.hardStopPct)
      BY <1>e, <2>3, <2>7, AllowedWithinBudget DEF k
    <3>2. A' <= Chunk
      <4>1. Admitted(t)' \subseteq Active \cup {c}
        BY <2>4 DEF Admitted, Active
      <4>2. /\ IsFiniteSet(Active \cup {c})
            /\ Cardinality(Active) \in Nat
            /\ Cardinality(Active \cup {c}) \in Nat
            /\ Cardinality(Active \cup {c}) <= Cardinality(Active) + 1
        <5>1. IsFiniteSet(Active) /\ Cardinality(Active) \in Nat
          BY Finite
        <5>2. /\ IsFiniteSet(Active \cup {c})
              /\ Cardinality(Active \cup {c})
                   = IF c \in Active THEN Cardinality(Active) ELSE Cardinality(Active) + 1
          BY <5>1, FS_AddElement
        <5>3. QED
          BY <5>1, <5>2
      <4>3. A' <= Cardinality(Active \cup {c})
        BY <4>1, <4>2, FS_Subset DEF A
      <4>4. QED
        BY <2>1, <4>2, <4>3, <1>b, <1>c
    <3>3. sum' <= count[k] + 1
      BY <2>1, <3>2, <1>b, <1>c
    <3> HIDE DEF sum
    <3>4. count[k] + 1 \in Int
      BY <1>b
    <3>5. QED
      BY <1>e, <1>g, <3>1, <3>3, <3>4, ExceedsMonotone
  <2>8. QED
    BY <2>6, <2>7
<1>3. CASE RecordEvent
  <2> DEFINE c == Head(queue)
  <2>1. /\ c \in Calls /\ c = queue[1] /\ 1 \in 1..Len(queue)
        /\ handler' = [handler EXCEPT ![c].stage = "resumed"]
        /\ count' = count /\ seat' = seat
    BY <1>3 DEF RecordEvent, Settled, TypeOK
  <2>2. handler[c].stage = "waiting"
    BY <2>1 DEF Queued
  <2>3. /\ handler'[c].event = handler[c].event /\ handler'[c].tool = handler[c].tool
        /\ handler'[c].stage = "resumed"
        /\ \A x \in Calls \ {c} : handler'[x] = handler[x]
    BY <2>1, <1>a DEF Handler
  <2>4. Admitted(t)' = Admitted(t)
    BY <2>2, <2>3 DEF Admitted, Active
  <2>5. A' = A
    BY <2>4 DEF A
  <2>6. QED
    BY <2>1, <2>5, <1>b, <1>c, <1>h
<1>4. ASSUME NEW c \in Calls, RunTool(c) PROVE ~Exceeds(policy, t, sum', policy.hardStopPct)
  <2>1. PICK e \in LastEvents(handler[c].tool) :
          /\ count' = [count EXCEPT ![<<seat, handler[c].tool>>] = Counted(@)]
          /\ handler' = [handler EXCEPT ![c].stage = "waiting", ![c].event = e]
    BY <1>4 DEF RunTool
  <2>2. /\ \A x \in Calls \ {c} : handler'[x] = handler[x]
        /\ handler'[c].event = e /\ e # "tool_call"
        /\ handler[c].stage = "resumed" /\ handler[c].event = "tool_call"
        /\ seat' = seat
    BY <1>4, <2>1, <1>a DEF RunTool, Handler, LastEvents
  <2>3. A' = A - (IF handler[c].tool = t THEN 1 ELSE 0)
    <3>1. c \notin Admitted(t)' /\ (c \in Admitted(t) <=> handler[c].tool = t)
      BY <2>2 DEF Admitted, Active
    <3>2. QED
      BY <3>1, <2>2, <1>c, <1>i
  <2>4. count'[k] = count[k] + (IF s = seat /\ handler[c].tool = t THEN 1 ELSE 0)
    <3>1. count' = [count EXCEPT ![<<seat, handler[c].tool>>] = @ + 1]
      BY <2>1 DEF Counted
    <3>2. k = <<seat, handler[c].tool>> <=> s = seat /\ handler[c].tool = t
      BY DEF k
    <3>3. k \in Seats \X Tools /\ count \in [Seats \X Tools -> Nat]
      BY <1>a DEF k, Counts
    <3>4. QED
      BY <1>b, <3>1, <3>2, <3>3
  <2>5. sum' <= sum
    BY <2>2, <2>3, <2>4, <1>b, <1>c
  <2>6. QED
    BY <2>5, <1>h
<1>5. ASSUME NEW c \in Calls, Answer(c) PROVE ~Exceeds(policy, t, sum', policy.hardStopPct)
  <2>1. /\ handler[c].event # "tool_call" /\ handler'[c].stage = "answered"
        /\ \A x \in Calls \ {c} : handler'[x] = handler[x]
        /\ count' = count /\ seat' = seat
    BY <1>5, <1>a DEF Answer, Handler
  <2>2. A' = A
    BY <2>1, <1>i, <1>c DEF Admitted, Active
  <2>3. QED
    BY <2>1, <2>2, <1>b, <1>c, <1>h
<1>6. CASE Exit
  <2>1. count' = count /\ seat' = seat
    BY <1>6 DEF Exit
  <2>2. A' <= A
    <3>1. Admitted(t)' \subseteq Admitted(t)
      BY <1>6, <1>a DEF Exit, Admitted, Active, Handler
    <3>2. QED
      BY <3>1, <1>c, FS_Subset DEF A
  <2>3. QED
    BY <2>1, <2>2, <1>b, <1>c, <1>h
<1>7. CASE Tick
  BY <1>7, <1>j, <1>f DEF Tick
<1>8. CASE UNCHANGED vars
  BY <1>8, <1>j, <1>f DEF vars
<1>9. QED
  BY <1>1, <1>2, <1>3, <1>4, <1>5, <1>6, <1>7, <1>8 DEF Next

----
(* The theorems about the counts. *)

\* A bundle that was never started has metered and counted nothing.
LEMMA GateInit == Init => GateInv
<1> SUFFICES ASSUME Init PROVE GateInv
  OBVIOUS
<1>1. TypeOK
  BY GateTypeInit
<1>2. Queued /\ Synced
  BY FS_EmptySet DEF Init, Queued, Synced, Active
<1>3. ASSUME NEW s \in Seats, NEW t \in Tools
      PROVE  /\ Cardinality(Metered(s, t)) = 0
             /\ Cardinality(Admitted(t)) = 0
             /\ saved[<<s, t>>] = 0 /\ count[<<s, t>>] = 0
             /\ uncounted[<<s, t>>] = 0
  <2>1. Metered(s, t) = {} /\ Admitted(t) = {}
    BY DEF Init, Metered, Admitted, Active
  <2>2. QED
    BY <2>1, FS_EmptySet DEF Init
<1>4. Accounted
  <2> SUFFICES ASSUME NEW s \in Seats, NEW t \in Tools
               PROVE  Cardinality(Metered(s, t))
                        <= saved[<<s, t>>] + uncounted[<<s, t>>]
                             + (IF up /\ s = seat THEN Cardinality(Uncounted(t)) ELSE 0)
    BY DEF Accounted
  <2>1. up = FALSE
    BY DEF Init
  <2>2. QED
    BY <1>3, <2>1
<1>5. ASSUME NEW s \in Seats, NEW t \in Tools, Budgeted(t)
      PROVE  ~Exceeds(policy, t,
                      count[<<s, t>>]
                        + (IF s = seat THEN Cardinality(Admitted(t)) ELSE 0)
                        - (Chunk - 1),
                      policy.hardStopPct)
  <2> DEFINE n == count[<<s, t>>]
                    + (IF s = seat THEN Cardinality(Admitted(t)) ELSE 0)
                    - (Chunk - 1)
  <2>1. n \in Int /\ n <= 0
    BY <1>3, GateAssumption
  <2>2. ValidPolicy(policy) /\ t \in DOMAIN policy.budgets
    BY <1>1, <1>5, GateAssumption DEF TypeOK, Budgeted
  <2> HIDE DEF n
  <2>3. policy.hardStopPct \in Nat /\ policy.budgets[t] \in Nat
    BY <2>2 DEF ValidPolicy
  <2>4. policy.hardStopPct * policy.budgets[t] >= 0
    BY <2>3
  <2>5. ~Exceeds(policy, t, 0, policy.hardStopPct)
    BY <2>3, <2>4 DEF Exceeds
  <2>6. ~Exceeds(policy, t, n, policy.hardStopPct)
    BY <2>1, <2>2, <2>5, ExceedsMonotone
  <2>7. QED
    BY <2>6 DEF n
<1>6. QED
  BY <1>1, <1>2, <1>4, <1>5 DEF GateInv, Gated

\* The invariant is inductive.
LEMMA GateStep == GateInv /\ [Next]_vars => GateInv'
BY TypeStep, QueuedStep, SyncedStep, AccountedStep, GatedStep DEF GateInv

\* The inductive invariant of the gate.
THEOREM GateInvariant == Spec => []GateInv
BY GateInit, GateStep, PTL DEF Spec

\* It allows for the outcome of a tool to be known only after the tool was
\* counted: the event of a waiting call becomes another one than a tool_call.
LEMMA OutcomeLater ==
  ASSUME GateInv, NEW c \in Calls, NEW e \in Events \ {"tool_call"},
         handler[c].stage = "waiting", handler' = [handler EXCEPT ![c].event = e],
         UNCHANGED <<policy, up, seat, now, count, saved, queue, recorded,
                     uncounted, starts>>
  PROVE  GateInv'
<1> USE DEF GateInv
<1>1. handler \in [Calls -> Handler] /\ handler' \in [Calls -> Handler]
  BY DEF TypeOK, Handler
<1>2. TypeOK'
  BY <1>1 DEF TypeOK
<1>3. \A x \in Calls : /\ handler'[x].stage = handler[x].stage
                       /\ handler'[x].tool = handler[x].tool
                       /\ x # c => handler'[x] = handler[x]
  BY <1>1 DEF Handler
<1>4. handler'[c].event # "tool_call"
  BY <1>1 DEF Handler
<1>5. Active' = Active /\ \A t : Uncounted(t)' = Uncounted(t)
                              /\ Admitted(t)' \subseteq Admitted(t)
  BY <1>3, <1>4 DEF Active, Uncounted, Admitted
<1>6. Queued'
  <2>1. queue \in Seq(Calls) /\ queue' = queue
    BY DEF TypeOK
  <2>2. \A i \in 1..Len(queue) : queue[i] \in Calls
    BY <2>1
  <2>3. QED
    BY <1>3, <2>1, <2>2 DEF Queued
<1>7. Synced'
  BY <1>5 DEF Synced
<1>8. Accounted'
  BY <1>5 DEF Accounted, Metered
<1>9. Gated'
  <2>1. SUFFICES ASSUME NEW s \in Seats, NEW t \in Tools, Budgeted(t)
                 PROVE  ~Exceeds(policy, t,
                                 count[<<s, t>>]
                                   + (IF s = seat THEN Cardinality(Admitted(t)') ELSE 0)
                                   - (Chunk - 1),
                                 policy.hardStopPct)
    BY DEF Gated, Budgeted
  <2> DEFINE n == Cardinality(Admitted(t))  m == Cardinality(Admitted(t)')
             k == count[<<s, t>>]
             a == k + (IF s = seat THEN m ELSE 0) - (Chunk - 1)
             b == k + (IF s = seat THEN n ELSE 0) - (Chunk - 1)
  <2>2. n \in Nat /\ m \in Nat /\ m <= n
    BY <1>5, Finite, FS_Subset, FS_CardinalityType
  <2>3. k \in Nat /\ Chunk \in Nat
    BY GateAssumption DEF TypeOK, Counts
  <2>4. ~Exceeds(policy, t, b, policy.hardStopPct)
    BY <2>1 DEF Gated
  <2>5. ValidPolicy(policy) /\ t \in DOMAIN policy.budgets
    BY <2>1, GateAssumption DEF TypeOK, Budgeted
  <2> HIDE DEF n, m, k
  <2>6. a \in Int /\ b \in Int /\ a <= b
    BY <2>2, <2>3
  <2> HIDE DEF a, b
  <2>7. ~Exceeds(policy, t, a, policy.hardStopPct)
    BY <2>4, <2>5, <2>6, ExceedsMonotone
  <2>8. QED
    BY <2>7 DEF a, m, k
<1>10. QED
  BY <1>2, <1>6, <1>7, <1>8, <1>9

\* The counts of meter-state.json miss no metered call but those in flight and
\* those that died with a process before they were counted.
THEOREM CallsAccounted == Spec => []Accounted
<1>1. GateInv => Accounted
  BY DEF GateInv
<1>2. QED
  BY <1>1, GateInvariant, PTL

\* What the invariant says about the calls that were metered.
LEMMA MeteredWithinChunk ==
  ASSUME GateInv, NEW s \in Seats, NEW t \in Tools, Budgeted(t)
  PROVE  /\ Cardinality(Metered(s, t)) \in Nat
         /\ uncounted[<<s, t>>] \in Nat
         /\ ~Exceeds(policy, t,
                     Cardinality(Metered(s, t)) - uncounted[<<s, t>>] - (Chunk - 1),
                     policy.hardStopPct)
<1> DEFINE M == Cardinality(Metered(s, t))
           U == Cardinality(Uncounted(t))
           A == Cardinality(Admitted(t))
           k == <<s, t>>
           n == count[k] + (IF s = seat THEN A ELSE 0) - (Chunk - 1)
           m == M - uncounted[k] - (Chunk - 1)
<1>1. M \in Nat /\ U \in Nat /\ A \in Nat /\ U <= A
  BY Finite, MeteredFinite DEF GateInv, Synced
<1>2. /\ count = saved /\ count[k] \in Nat /\ uncounted[k] \in Nat
      /\ Chunk \in Nat
  BY GateAssumption DEF GateInv, TypeOK, Counts, Synced
<1>3. M <= saved[k] + uncounted[k] + (IF up /\ s = seat THEN U ELSE 0)
  BY DEF GateInv, Accounted
<1>4. ~Exceeds(policy, t, n, policy.hardStopPct)
  BY DEF GateInv, Gated
<1>5. ValidPolicy(policy) /\ t \in DOMAIN policy.budgets
  BY GateAssumption DEF GateInv, TypeOK, Budgeted
<1> HIDE DEF M, U, A, k
<1>6. m \in Int /\ n \in Int /\ m <= n
  <2>1. CASE up /\ s = seat
    BY <2>1, <1>1, <1>2, <1>3
  <2>2. CASE ~ (up /\ s = seat)
    BY <2>2, <1>1, <1>2, <1>3
  <2>3. QED
    BY <2>1, <2>2
<1> HIDE DEF m, n
<1>7. ~Exceeds(policy, t, m, policy.hardStopPct)
  BY <1>4, <1>5, <1>6, ExceedsMonotone
<1>8. QED
  BY <1>1, <1>2, <1>7 DEF m, M, k

\* However the calls are delivered and whenever the process is killed, a seat is
\* metered beyond the hard stop of a tool by less than a chunk of calls, plus
\* those that died uncounted.
THEOREM OverrunBounded == Spec => []BoundedOverrun
<1>1. GateInv => BoundedOverrun
  BY MeteredWithinChunk DEF BoundedOverrun
<1>2. QED
  BY <1>1, GateInvariant, PTL

\* No call has died before it was counted.
AllCounted == uncounted = [st \in Seats \X Tools |-> 0]

\* That stays so while no process is killed.
LEMMA AllCountedStep ==
  ASSUME "kill" \notin Faults, AllCounted, [Next]_vars
  PROVE  AllCounted'
<1> USE DEF AllCounted
<1>1. CASE Exit
  <2>1. \A t : Uncounted(t) = {}
    BY <1>1 DEF Exit, Uncounted, Admitted
  <2>2. \A st \in Seats \X Tools : uncounted'[st] = 0
    <3>1. ASSUME NEW st \in Seats \X Tools PROVE uncounted'[st] = 0
      <4>1. Cardinality(Uncounted(st[2])) = 0
        BY <2>1, FS_EmptySet
      <4>2. uncounted[st] = 0
        OBVIOUS
      <4>3. uncounted'[st] = uncounted[st]
              + IF st[1] = seat THEN Cardinality(Uncounted(st[2])) ELSE 0
        BY <1>1 DEF Exit
      <4>4. QED
        BY <4>1, <4>2, <4>3
    <3>2. QED
      BY <3>1
  <2>3. uncounted' = [st \in Seats \X Tools |-> uncounted'[st]]
    BY <1>1 DEF Exit
  <2>4. QED
    BY <2>2, <2>3
<1>2. CASE ~ Exit
  BY <1>2 DEF Next, Start, Arrive, RecordEvent, RunTool, Answer, Tick, vars
<1>3. QED
  BY <1>1, <1>2

\* If moreover calls arrive one at a time, no call is metered past a hard stop.
LEMMA CountedInTime ==
  ASSUME Chunk = 1, GateInv, AllCounted
  PROVE  HardStop
<1> SUFFICES ASSUME NEW s \in Seats, NEW t \in Tools, Budgeted(t)
             PROVE  ~Exceeds(policy, t, Cardinality(Metered(s, t)), policy.hardStopPct)
  BY DEF HardStop
<1> DEFINE M == Cardinality(Metered(s, t))
<1>1. /\ M \in Nat
      /\ ~Exceeds(policy, t, M - uncounted[<<s, t>>] - (Chunk - 1), policy.hardStopPct)
  BY MeteredWithinChunk
<1>2. uncounted[<<s, t>>] = 0
  BY DEF AllCounted
<1> HIDE DEF M
<1>3. M - uncounted[<<s, t>>] - (Chunk - 1) = M
  BY <1>1, <1>2
<1>4. QED
  BY <1>1, <1>3 DEF M

\* When calls arrive one at a time and the process is only stopped, the hard
\* stop is never passed.
THEOREM HardStopHolds ==
  ASSUME Chunk = 1, "kill" \notin Faults
  PROVE  Spec => []HardStop
<1>1. Init => AllCounted
  BY DEF Init, AllCounted
<1>2. AllCounted /\ [Next]_vars => AllCounted'
  BY AllCountedStep
<1>3. GateInv /\ AllCounted => HardStop
  BY CountedInTime
<1>4. QED
  BY <1>1, <1>2, <1>3, GateInvariant, PTL DEF Spec

----
(* Metering before results, and the window of the workspace. *)

\* The call was metered.
Billed(c) == \E e \in recorded : e.call = c /\ e.kind = "tool_call"

\* A tool that ran, or is about to run, has its call metered.
Paid ==
  \A c \in Calls :
    \/ handler[c].event = "tool_success"
    \/ handler[c].event = "tool_call" /\ handler[c].stage = "resumed"
    => Billed(c)

\* When no recording fails, a tool only runs for a call that was metered.
LEMMA PaidStep ==
  ASSUME "log" \notin Faults, GateInv, Paid, [Next]_vars
  PROVE  Paid'
<1> USE DEF Paid, Billed
<1>0. /\ handler \in [Calls -> Handler] /\ recorded \subseteq recorded'
      /\ queue \in Seq(Calls)
  BY DEF GateInv, TypeOK, Next, Start, Arrive, RecordEvent, RunTool, Answer,
              Exit, Tick, vars
<1>1. \A c \in Calls : Billed(c) => Billed(c)'
  BY <1>0
<1>2. ASSUME NEW c \in Calls, NEW t \in Tools, Arrive(c, t) PROVE Paid'
  <2> DEFINE d == ToolCallDecision(policy, seat, t, count[<<seat, t>>], now)
             e == IF now > LeaseEnd THEN "lease_check_failed" ELSE FirstEvent(d)
  <2>1. d \in {"ALLOW", "ALLOW_WITH_WARNING", "DENY", "THROW"}
    BY DecisionType, Zenon
  <2>2. handler' = [handler EXCEPT
                      ![c] = [stage |-> "waiting", tool |-> t, event |-> e]]
    BY <1>2 DEF Arrive
  <2> HIDE DEF d
  <2>3. e # "tool_success"
    BY <2>1, FirstEventOf
  <2> HIDE DEF e
  <2>4. QED
    BY <1>0, <1>1, <2>2, <2>3
<1>3. CASE RecordEvent
  <2>0. /\ Head(queue) \in Calls
        /\ handler' = [handler EXCEPT ![Head(queue)].stage = "resumed"]
        /\ recorded' = recorded \cup {[call |-> Head(queue),
                                     kind |-> handler[Head(queue)].event,
                                     seat |-> seat, tool |-> handler[Head(queue)].tool]}
    BY <1>0, <1>3 DEF RecordEvent, Settled
  <2>1. PICK c \in Calls :
          /\ handler' = [handler EXCEPT ![c].stage = "resumed"]
          /\ recorded' = recorded \cup {[call |-> c, kind |-> handler[c].event,
                                       seat |-> seat, tool |-> handler[c].tool]}
    BY <2>0, Zenon
  <2>2. handler[c].event = "tool_call" => Billed(c)'
    <3> DEFINE e == [call |-> c, kind |-> handler[c].event, seat |-> seat,
                     tool |-> handler[c].tool]
    <3>1. e \in recorded' /\ e.call = c /\ e.kind = handler[c].event
      BY <2>1
    <3> HIDE DEF e
    <3>2. QED
      BY <3>1
  <2>3. QED
    BY <1>0, <1>1, <2>1, <2>2 DEF Handler
<1>4. ASSUME NEW c \in Calls, RunTool(c) PROVE Paid'
  <2>1. PICK e : handler' = [handler EXCEPT ![c].stage = "waiting", ![c].event = e]
    BY <1>4 DEF RunTool
  <2>2. Billed(c)
    BY <1>4 DEF RunTool
  <2>3. QED
    BY <1>0, <1>1, <2>1, <2>2 DEF Handler
<1>5. ASSUME NEW c \in Calls, Answer(c) PROVE Paid'
  BY <1>0, <1>1, <1>5 DEF Answer, Handler
<1>6. CASE Exit
  <2>1. \A c \in Calls : /\ handler'[c].event = handler[c].event
                         /\ handler'[c].stage # handler[c].stage
                              => handler'[c].stage = "lost"
    BY <1>0, <1>6 DEF Exit, Handler
  <2>2. QED
    BY <1>1, <2>1
<1>7. CASE handler' = handler /\ recorded' = recorded
  BY <1>7
<1>8. QED
  BY <1>2, <1>3, <1>4, <1>5, <1>6, <1>7 DEF Next, Start, Tick, vars

\* So no result is answered that was not metered first.
THEOREM ResultsMetered ==
  ASSUME "log" \notin Faults
  PROVE  Spec => []ResultIsMetered
<1>1. Init => Paid
  BY DEF Init, Paid
<1>2. GateInv /\ Paid /\ [Next]_vars => Paid'
  BY PaidStep
<1>3. Paid => ResultIsMetered
  BY DEF Paid, Billed, ResultIsMetered
<1>4. QED
  BY <1>1, <1>2, <1>3, GateInvariant, PTL DEF Spec

\* A call that has not arrived awaits no tool_call.
Fresh ==
  \A c \in Calls : handler[c].stage = "new" => handler[c].event # "tool_call"

\* A call is let through only in the window of the workspace.
InWindow ==
  \A c \in Calls :
    /\ handler[c].stage = "new"
    /\ handler'[c].event = "tool_call"
    /\ policy # NoPolicy
    => /\ policy.mode = "ENABLED"
       /\ policy.window.starts <= now /\ now <= policy.window.grace

\* Only an allowed call that arrives makes a handler await a tool_call.
LEMMA WindowStep ==
  ASSUME TypeOK, Fresh, [Next]_vars
  PROVE  Fresh' /\ InWindow
<1> USE DEF Fresh, InWindow
<1>0. /\ handler \in [Calls -> Handler] /\ queue \in Seq(Calls) /\ now \in Nat
      /\ policy # NoPolicy => ValidPolicy(policy)
  BY GateAssumption DEF TypeOK
<1>1. ASSUME NEW c \in Calls, NEW t \in Tools, Arrive(c, t) PROVE Fresh' /\ InWindow
  <2> DEFINE d == ToolCallDecision(policy, seat, t, count[<<seat, t>>], now)
             e == IF now > LeaseEnd THEN "lease_check_failed" ELSE FirstEvent(d)
  <2>1. d \in {"ALLOW", "ALLOW_WITH_WARNING", "DENY", "THROW"}
    BY DecisionType, Zenon
  <2>2. handler' = [handler EXCEPT
                      ![c] = [stage |-> "waiting", tool |-> t, event |-> e]]
    BY <1>1 DEF Arrive
  <2>3. policy # NoPolicy /\ Allowed(d) =>
          /\ policy.mode = "ENABLED"
          /\ policy.window.starts <= now /\ now <= policy.window.grace
    BY <1>0, AllowedInWindow
  <2> HIDE DEF d
  <2>4. e = "tool_call" => Allowed(d)
    BY <2>1, FirstEventOf
  <2> HIDE DEF e
  <2>5. QED
    BY <1>0, <2>2, <2>3, <2>4
<1>2. ASSUME \A c \in Calls :
               /\ handler[c].stage = "new" => handler'[c].event # "tool_call"
               /\ handler'[c].stage = "new" => handler[c].stage = "new"
      PROVE  Fresh' /\ InWindow
  BY <1>2
<1>3. CASE RecordEvent
  <2>0. /\ Head(queue) \in Calls
        /\ handler' = [handler EXCEPT ![Head(queue)].stage = "resumed"]
    BY <1>0, <1>3 DEF RecordEvent, Settled
  <2>1. PICK c \in Calls : handler' = [handler EXCEPT ![c].stage = "resumed"]
    BY <2>0, Zenon
  <2>2. QED
    BY <1>0, <1>2, <2>1 DEF Handler
<1>4. ASSUME NEW c \in Calls, RunTool(c) PROVE Fresh' /\ InWindow
  <2>1. PICK e \in LastEvents(handler[c].tool) :
          handler' = [handler EXCEPT ![c].stage = "waiting", ![c].event = e]
    BY <1>4 DEF RunTool
  <2>2. QED
    BY <1>0, <1>2, <2>1 DEF Handler, LastEvents
<1>5. ASSUME NEW c \in Calls, Answer(c) PROVE Fresh' /\ InWindow
  BY <1>0, <1>2, <1>5 DEF Answer, Handler
<1>6. CASE Exit
  <2>1. \A c \in Calls : /\ handler'[c].event = handler[c].event
                         /\ handler'[c].stage = handler[c].stage
                              \/ handler'[c].stage = "lost"
    BY <1>0, <1>6 DEF Exit, Handler
  <2>2. QED
    BY <1>2, <2>1
<1>7. CASE handler' = handler
  BY <1>2, <1>7
<1>8. QED
  BY <1>1, <1>3, <1>4, <1>5, <1>6, <1>7 DEF Next, Start, Tick, vars

\* No override of a seat lets a call through outside the window of the
\* workspace or while the workspace is disabled.
THEOREM WindowHolds == Spec => SeatNeverWidens
<1>1. Init => Fresh
  BY DEF Init, Fresh
<1>2. TypeOK /\ Fresh /\ [Next]_vars => Fresh' /\ [InWindow]_vars
  BY WindowStep
<1>3. QED
  BY <1>1, <1>2, GateTypeCorrect, PTL DEF Spec, SeatNeverWidens, InWindow

====
