---- MODULE MeterClient ----
(***************************************************************************)
(* The metering pipeline of the skill runtime: the hash-chained meter      *)
(* (runtime-meter.mjs), the spool kept in meter.jsonl and                  *)
(* meter-state.json (meter-store.mjs), the client that drains the spool to *)
(* the control plane (local-meter-client.mjs), and as much of the control  *)
(* plane as the client can observe.                                        *)
(*                                                                         *)
(* Node runs one callback at a time, so the callbacks interleave only      *)
(* where the code awaits; but the process may die between any two file     *)
(* operations.  `pc' is therefore the file operation the running callback  *)
(* performs next ("up" between callbacks), and `task' is the asynchronous  *)
(* flush task, which is suspended while a request is on the wire.          *)
(*                                                                         *)
(* An event's hash is modelled by its identity: `id' counts the calls of   *)
(* appendAndFlush, and `prev' is the id of the event the hash chain links  *)
(* to.  The order of the events inside a batch is their order of ids and   *)
(* is not kept separately; the order of the claimed batches, of which      *)
(* there is at most one unless a write of the state file was lost, is not  *)
(* kept either.                                                            *)
(***************************************************************************)
EXTENDS Integers, Sequences, FiniteSets, FiniteSetsExt

CONSTANTS
  Leases,      \* lease ids (jti), numbered in the order they were issued
  Kinds,       \* event kinds the runtime meters
  Rejected,    \* leases whose uploads the control plane answers with 4xx
  Faults,      \* the failures the environment may produce, see FaultKinds
  MaxCalls,    \* bound on the calls of appendAndFlush
  MaxStarts    \* bound on the starts of the runtime process

\* "kill": the process dies, but not between the writes of one record
\* "kill_recording": it dies after an event was logged and before its
\*                   sequence number was persisted
\* "torn": it dies while meter-state.json is being overwritten
\* "write": a write of meter-state.json fails, which the code ignores
\* "log": appending to meter.jsonl throws
\* "late": a request the client gave up on still reaches the server later
\* "hang": the answer of a request breaks off, or goes on for ever, after its
\*         headers, so the client hears of neither an end nor an error
\* "rollback": the runtime is started with an older lease again
FaultKinds ==
  {"kill", "kill_recording", "torn", "write", "log", "late", "hang", "rollback"}

ASSUME ConstantsAssumption ==
  /\ Leases \subseteq Nat \ {0}
  /\ Rejected \subseteq Leases
  /\ "session_end" \in Kinds
  /\ Faults \subseteq FaultKinds
  /\ MaxCalls \in Nat
  /\ MaxStarts \in Nat

VARIABLES
  disk,      \* contents of meter-state.json
  log,       \* contents of meter.jsonl
  pc,        \* next file operation of the running callback
  lease,     \* lease of this process, or of the last one
  meter,     \* sequence number and hash of the in-memory chain
  event,     \* event being recorded
  timer,     \* flushTimer is set
  task,      \* flushTask: none, running, sent, accepted, hung, settle
  batch,     \* batch being uploaded
  closing,   \* progress of shutdown()
  ledger,    \* accepted_usage_events on the control plane
  late,      \* abandoned requests still on the wire
  recorded,  \* history: every event put into the spool, with its lease
  calls,     \* number of calls of appendAndFlush so far
  starts     \* number of process starts so far

vars == <<disk, log, pc, lease, meter, event, timer, task, batch, closing,
          ledger, late, recorded, calls, starts>>

volatile == <<meter, event, timer, task, batch, closing>>

----
(* Values *)

Genesis == 0
NoLease == 0
FreshChain == [seq |-> 0, prev |-> Genesis]
\* chainKey, seq and prevHash are only ever written together.
NoChain == [seq |-> -1, prev |-> -1]
NoEvent == [id |-> 0, seq |-> 0, prev |-> Genesis, kind |-> "session_end"]
NoBatch == [jti |-> NoLease, events |-> {}]

Chain == [seq : Nat, prev : Nat]
Event == [id : Nat \ {0}, seq : Nat, prev : Nat, kind : Kinds]
Batch == [jti : Leases, events : SUBSET Event]
Entry == [jti : Leases, event : Event]
StateFile ==
  [jti : Leases \cup {NoLease}, chain : Chain \cup {NoChain},
   pending : Seq(Batch), inFlight : SUBSET Batch]

EmptyState ==
  [jti |-> NoLease, chain |-> NoChain, pending |-> <<>>, inFlight |-> {}]

Entries(b) == {[jti |-> b.jti, event |-> e] : e \in b.events}

Spooled(d) == {d.pending[i] : i \in DOMAIN d.pending} \cup d.inFlight

Held(d) == UNION {Entries(b) : b \in Spooled(d)}

\* The control plane only keeps the events that carry usage.
IsUsage(e) == e.kind = "tool_call"

----
(* Operations of the meter store on the state file *)

AdoptsLease(s) == [s EXCEPT !.jti = IF @ = NoLease THEN lease ELSE @]

Write(s) ==
  \/ disk' = AdoptsLease(s)
  \/ "write" \in Faults /\ UNCHANGED disk

Persist == Write([disk EXCEPT !.jti = lease, !.chain = meter])

Mine(d) == {i \in DOMAIN d.pending : d.pending[i].jti = lease}

\* The event joins the first pending batch of the lease, or a new last one.
Enqueued(d, e) ==
  IF Mine(d) = {}
    THEN [d EXCEPT !.pending = Append(@, [jti |-> lease, events |-> {e}])]
    ELSE [d EXCEPT !.pending[Min(Mine(d))].events = @ \cup {e}]

\* Mutant: the claimed batch is not kept on disk while it is uploaded.
Claimed_Forgotten(d) == [d EXCEPT !.pending = Tail(@)]

Claimed(d) ==
  [d EXCEPT !.pending = Tail(@), !.inFlight = @ \cup {Head(d.pending)}]

\* Mutant: the pending batches of the lease are acknowledged as well.
Acknowledged_AllOfLease(d, jti) ==
  [d EXCEPT !.inFlight = {b \in @ : b.jti # jti},
            !.pending = SelectSeq(@, LAMBDA b : b.jti # jti)]

Acknowledged(d, jti) == [d EXCEPT !.inFlight = {b \in @ : b.jti # jti}]

\* The claimed batch c goes back in front of the pending ones.
Requeued(d, c) ==
  [d EXCEPT !.inFlight = {b \in @ : b.jti # c.jti},
            !.pending = <<c>> \o @]

Orders(S) ==
  {s \in [1..Cardinality(S) -> S] : \A b \in S : \E i \in DOMAIN s : s[i] = b}

\* Mutant: batches claimed by a dead process stay claimed.
Recovered_Abandoned(d, s) == d

Recovered(d, s) == [d EXCEPT !.inFlight = {}, !.pending = s \o @]

----
(* Process start *)

\* Mutant: the lease of the stored chain is not compared.
Resumes_AnyLease(l) == disk.chain # NoChain

\* Mutant: the chain restarts with every process.
Resumes_Never(l) == FALSE

\* The stored chain is continued unless it belongs to another lease.
Resumes(l) ==
  /\ disk.chain # NoChain
  /\ disk.jti \in {NoLease, l}

Start(l) ==
  /\ pc = "down"
  /\ starts < MaxStarts
  /\ l >= lease \/ "rollback" \in Faults
  /\ lease' = l
  /\ meter' = IF Resumes(l) THEN disk.chain ELSE FreshChain
  /\ pc' = "restore"
  /\ starts' = starts + 1
  /\ UNCHANGED <<disk, log, event, timer, task, batch, closing, ledger, late,
                 recorded, calls>>

\* restoreAllClaimedBatches, then the start-up flush is scheduled.
Restore ==
  /\ pc = "restore"
  /\ \E s \in Orders(disk.inFlight) : Write(Recovered(disk, s))
  /\ timer' = (disk'.pending # <<>>)
  /\ pc' = "up"
  /\ UNCHANGED <<log, lease, meter, event, task, batch, closing, ledger, late,
                 recorded, calls, starts>>

----
(* appendAndFlush: chain in memory, log, spool, persist, schedule *)

Record(kind) ==
  /\ pc = "up"
  /\ calls < MaxCalls
  /\ calls' = calls + 1
  /\ event' = [id |-> calls', seq |-> meter.seq, prev |-> meter.prev,
               kind |-> kind]
  /\ meter' = [seq |-> meter.seq + 1, prev |-> calls']
  /\ pc' = "log"
  /\ UNCHANGED <<disk, log, lease, timer, task, batch, ledger, late, recorded,
                 starts>>

RecordEvent(kind) == Record(kind) /\ UNCHANGED closing

LogEvent ==
  /\ pc = "log"
  /\ log' = Append(log, event)
  /\ pc' = "queue"
  /\ UNCHANGED <<disk, lease, volatile, ledger, late, recorded, calls, starts>>

\* Mutant: a failed append leaves the chain advanced.
Rewound_Not(e) == [seq |-> e.seq + 1, prev |-> e.id]

\* Mutant: a failed append takes the chain back one event too far.
Rewound_TooFar(e) == [seq |-> e.seq - 1, prev |-> e.prev]

\* The chain before e was appended to it.
Rewound(e) == [seq |-> e.seq, prev |-> e.prev]

LogFails ==
  /\ pc = "log"
  /\ "log" \in Faults
  /\ meter' = Rewound(event)
  /\ event' = NoEvent
  /\ pc' = "up"
  /\ UNCHANGED <<disk, log, lease, timer, task, batch, closing, ledger, late,
                 recorded, calls, starts>>

QueueEvent ==
  /\ pc = "queue"
  /\ Write(Enqueued(disk, event))
  /\ recorded' = recorded \cup {[jti |-> lease, event |-> event]}
  /\ pc' = "persist"
  /\ UNCHANGED <<log, lease, volatile, ledger, late, calls, starts>>

\* scheduleFlush: nothing while a flush is running or already scheduled.
Scheduled == timer \/ task = "none"

PersistEvent ==
  /\ pc = "persist"
  /\ Persist
  /\ event' = NoEvent
  /\ timer' = Scheduled
  /\ pc' = "up"
  /\ UNCHANGED <<log, lease, meter, task, batch, closing, ledger, late,
                 recorded, calls, starts>>

----
(* The flush task *)

\* A flush that is already running is joined, never doubled.  A shutdown
\* waiting for the flush resumes before any timer fires.
TimerFires ==
  /\ pc = "up"
  /\ timer
  /\ ~(closing = "wait" /\ task = "none")
  /\ timer' = FALSE
  /\ IF task = "none"
       THEN task' = "running" /\ pc' = "claim"
       ELSE UNCHANGED <<task, pc>>
  /\ UNCHANGED <<disk, log, lease, meter, event, batch, closing, ledger, late,
                 recorded, calls, starts>>

ClaimBatch ==
  /\ pc = "claim"
  /\ disk.pending # <<>>
  /\ batch' = Head(disk.pending)
  /\ Write(Claimed(disk))
  /\ task' = "sent"
  /\ pc' = "up"
  /\ UNCHANGED <<log, lease, meter, event, timer, closing, ledger, late,
                 recorded, calls, starts>>

NothingToClaim ==
  /\ pc = "claim"
  /\ disk.pending = <<>>
  /\ task' = "settle"
  /\ pc' = "up"
  /\ UNCHANGED <<disk, log, lease, meter, event, timer, batch, closing, ledger,
                 late, recorded, calls, starts>>

UploadSucceeds ==
  /\ pc = "up"
  /\ task = "accepted"
  /\ task' = "running"
  /\ pc' = "ack"
  /\ UNCHANGED <<disk, log, lease, meter, event, timer, batch, closing, ledger,
                 late, recorded, calls, starts>>

Abandoned ==
  IF task = "sent" /\ "late" \in Faults THEN late \cup {batch} ELSE late

\* Connection error, error status, or five seconds without a byte on the
\* connection; the request may have been processed all the same.
UploadFails ==
  /\ pc = "up"
  /\ task \in {"sent", "accepted"}
  /\ late' = Abandoned
  /\ task' = "running"
  /\ pc' = "requeue"
  /\ UNCHANGED <<disk, log, lease, meter, event, timer, batch, closing, ledger,
                 recorded, calls, starts>>

\* requestJson listens for the end of the answer, not for its being cut off, and
\* only for errors of the request: the promise of the upload is never settled,
\* and neither is the flush task that awaits it.
UploadHangs ==
  /\ pc = "up"
  /\ task \in {"sent", "accepted"}
  /\ "hang" \in Faults
  /\ late' = Abandoned
  /\ task' = "hung"
  /\ UNCHANGED <<disk, log, pc, lease, meter, event, timer, batch, closing,
                 ledger, recorded, calls, starts>>

Acknowledge ==
  /\ pc = "ack"
  /\ Write(Acknowledged(disk, batch.jti))
  /\ pc' = "ackPersist"
  /\ UNCHANGED <<log, lease, volatile, ledger, late, recorded, calls, starts>>

PersistAck ==
  /\ pc = "ackPersist"
  /\ Persist
  /\ batch' = NoBatch
  /\ pc' = "claim"
  /\ UNCHANGED <<log, lease, meter, event, timer, task, closing, ledger, late,
                 recorded, calls, starts>>

RequeueBatch ==
  /\ pc = "requeue"
  /\ LET claimed == {b \in disk.inFlight : b.jti = batch.jti}
     IN IF claimed = {}
          THEN UNCHANGED disk
          ELSE \E c \in claimed : Write(Requeued(disk, c))
  /\ batch' = NoBatch
  /\ task' = "settle"
  /\ pc' = "up"
  /\ UNCHANGED <<log, lease, meter, event, timer, closing, ledger, late,
                 recorded, calls, starts>>

\* Mutant: the end of a flush schedules no further one.
Rescheduled_Never(d) == timer

Rescheduled(d) == timer \/ d.pending # <<>>

----
(* Shutdown and death of the process *)

Stop ==
  /\ pc' = "down"
  /\ meter' = FreshChain
  /\ event' = NoEvent
  /\ timer' = FALSE
  /\ task' = "none"
  /\ batch' = NoBatch
  /\ closing' = "open"
  /\ UNCHANGED <<log, lease, ledger, recorded, calls, starts>>

\* The end of runScheduledFlush; shutdown() exits once its own flush ended.
Settle ==
  /\ pc = "up"
  /\ task = "settle"
  /\ IF closing = "final"
       THEN Stop
       ELSE /\ task' = "none"
            /\ timer' = Rescheduled(disk)
            /\ UNCHANGED <<log, pc, lease, meter, event, batch, closing,
                           ledger, recorded, calls, starts>>
  /\ UNCHANGED <<disk, late>>

Shutdown ==
  /\ closing = "open"
  /\ starts < MaxStarts
  /\ Record("session_end")
  /\ closing' = "end"

BeginFinalFlush ==
  /\ task' = "running"
  /\ pc' = "claim"
  /\ closing' = "final"

\* flushPending: cancel the timer, wait for a running flush or start one.
DrainOnExit ==
  /\ pc = "up"
  /\ closing = "end"
  /\ timer' = FALSE
  /\ IF task = "none"
       THEN BeginFinalFlush
       ELSE closing' = "wait" /\ UNCHANGED <<task, pc>>
  /\ UNCHANGED <<disk, log, lease, meter, event, batch, ledger, late, recorded,
                 calls, starts>>

AfterRunningFlush ==
  /\ pc = "up"
  /\ closing = "wait"
  /\ task = "none"
  /\ IF disk.pending = <<>>
       THEN Stop
       ELSE /\ BeginFinalFlush
            /\ UNCHANGED <<log, lease, meter, event, timer, batch, ledger,
                           recorded, calls, starts>>
  /\ UNCHANGED <<disk, late>>

\* Callback steps that overwrite meter-state.json.
Writing == {"restore", "queue", "persist", "claim", "ack", "ackPersist",
            "requeue"}

Kill ==
  /\ pc # "down"
  /\ starts < MaxStarts
  /\ IF pc \in {"queue", "persist"}
       THEN "kill_recording" \in Faults
       ELSE "kill" \in Faults
  /\ \/ UNCHANGED disk
     \/ "torn" \in Faults /\ pc \in Writing /\ disk' = EmptyState
  /\ late' = Abandoned
  /\ Stop

----
(* The control plane *)

\* Mutant: the rows are inserted without the duplicate check.
Insert_Always(b) == ledger \cup {r \in Entries(b) : IsUsage(r.event)}

\* Mutant: an old batch is filed under the lease of the running process.
Insert_CurrentLease(b) ==
  ledger \cup {[jti |-> lease, event |-> e] : e \in {f \in b.events : IsUsage(f)}}

\* INSERT OR IGNORE keyed by lease and sequence number: rows the ledger has
\* win, and of two rows of one batch the first.
Insert(b) ==
  LET usage == {r \in Entries(b) : IsUsage(r.event)}
  IN ledger \cup
       {r \in usage :
          /\ ~\E q \in ledger : q.jti = r.jti /\ q.event.seq = r.event.seq
          /\ ~\E q \in usage : q.event.seq = r.event.seq
                                 /\ q.event.id < r.event.id}

ServerAccepts ==
  /\ task = "sent"
  /\ batch.jti \notin Rejected
  /\ ledger' = Insert(batch)
  /\ task' = "accepted"
  /\ UNCHANGED <<disk, log, pc, lease, meter, event, timer, batch, closing,
                 late, recorded, calls, starts>>

LateRequestArrives ==
  \E b \in late :
    /\ b.jti \notin Rejected
    /\ ledger' = Insert(b)
    /\ late' = late \ {b}
    /\ UNCHANGED <<disk, log, pc, lease, volatile, recorded, calls, starts>>

----

Init ==
  /\ disk = EmptyState
  /\ log = <<>>
  /\ pc = "down"
  /\ lease = NoLease
  /\ meter = FreshChain
  /\ event = NoEvent
  /\ timer = FALSE
  /\ task = "none"
  /\ batch = NoBatch
  /\ closing = "open"
  /\ ledger = {}
  /\ late = {}
  /\ recorded = {}
  /\ calls = 0
  /\ starts = 0

\* Steps of a callback that has begun, and continuations of the flush task:
\* Node runs them to completion.
Running ==
  \/ Restore \/ LogEvent \/ LogFails \/ QueueEvent \/ PersistEvent
  \/ ClaimBatch \/ NothingToClaim \/ Acknowledge \/ PersistAck \/ RequeueBatch
  \/ Settle \/ DrainOnExit \/ AfterRunningFlush

Next ==
  \/ \E l \in Leases : Start(l)
  \/ \E k \in Kinds : RecordEvent(k)
  \/ Running
  \/ TimerFires
  \/ UploadSucceeds
  \/ UploadFails
  \/ UploadHangs
  \/ Shutdown
  \/ Kill
  \/ ServerAccepts
  \/ LateRequestArrives

Spec == Init /\ [][Next]_vars


\* The operator or the MCP client restarts the runtime, a begun callback runs
\* to completion, timers fire, a request whose connection is closed or silent
\* for five seconds fails, and an upload that is attempted over and over
\* succeeds at some point. Nothing ends a request that hangs.
Fairness ==
  /\ WF_vars(\E l \in Leases : Start(l))
  /\ WF_vars(Running)
  /\ WF_vars(TimerFires)
  /\ WF_vars(UploadFails)
  /\ SF_vars(ServerAccepts)
  /\ SF_vars(UploadSucceeds)

FairSpec == Spec /\ Fairness

----
(* Properties *)

\* Every variable has the type of the data it stands for.
TypeOK ==
  /\ disk \in StateFile
  /\ IsFiniteSet(disk.inFlight)
  /\ log \in Seq(Event)
  /\ pc \in {"down", "up", "log"} \cup Writing
  /\ lease \in Leases \cup {NoLease}
  /\ meter \in Chain
  /\ event \in Event \cup {NoEvent}
  /\ timer \in BOOLEAN
  /\ task \in {"none", "running", "sent", "accepted", "hung", "settle"}
  /\ batch \in Batch \cup {NoBatch}
  /\ closing \in {"open", "end", "wait", "final"}
  /\ ledger \in SUBSET Entry
  /\ late \in SUBSET Batch
  /\ recorded \in SUBSET Entry
  /\ calls \in Nat
  /\ starts \in Nat

SameKey(r, q) == r.jti = q.jti /\ r.event.seq = q.event.seq

\* No two events of one lease ever share a sequence number, whatever restarts
\* and lease changes lie between them: the ledger tells events apart by lease
\* and sequence number alone, so a second use of a number is usage lost.
SeqUnique == \A r, q \in recorded : SameKey(r, q) => r = q

\* The events of one lease form one unforked, gapless hash chain from GENESIS,
\* across restarts, failed log writes and uploads that interleave with them.
ChainUnbroken ==
  \A r \in recorded :
    IF r.event.seq = 0
      THEN r.event.prev = Genesis
      ELSE \E q \in recorded : /\ q.jti = r.jti
                               /\ q.event.seq = r.event.seq - 1
                               /\ q.event.id = r.event.prev

\* meter.jsonl is a run of hash chains, each line linked to the line before
\* it or starting afresh: what the audit of the log relies on.
AuditChain ==
  \A i \in 2..Len(log) : log[i].prev \in {Genesis, log[i - 1].id}

\* An event put into the spool stays in meter-state.json, pending or claimed,
\* until the ledger holds that very event; only non-usage events are dropped
\* by the control plane.
NothingLost ==
  \A r \in recorded : r \in Held(disk) \/ ~IsUsage(r.event) \/ r \in ledger

\* The weaker promise that survives a crash in the middle of a record: a usage
\* event leaves the spool only when the ledger has a row under its key.
Retained ==
  \A r \in recorded :
    r \in Held(disk) \/ ~IsUsage(r.event) \/ \E q \in ledger : SameKey(r, q)

\* While a request is on the wire, or hangs, the spool claims exactly the batch
\* that was sent, although events are recorded meanwhile: acknowledging by lease id
\* cannot drop an event that was not uploaded.
UploadIsClaimed ==
  task \in {"sent", "accepted", "hung"} => disk.inFlight = {batch}

\* A running client with something to upload has a timer set or a flush task
\* alive: no interleaving of recording, failing and settling uploads leaves
\* the spool waiting for an event that never comes.
NoLostWakeup ==
  pc = "up" /\ disk.pending # <<>> => timer \/ task # "none"

\* Retries, late requests and restored batches never bill a tool call twice,
\* and never two events under one event id, even when the disk misbehaves.
NeverBilledTwice ==
  \A r, q \in ledger : SameKey(r, q) \/ r.event.id = q.event.id => r = q

IsRecorded(n) ==
  \E r \in recorded :
    r.event.id = n /\ IsUsage(r.event) /\ r.jti \notin Rejected

IsBilled(n) == \E r \in ledger : r.event.id = n

Blocked == \E r \in Held(disk) : r.jti \in Rejected

\* Every usage event that was spooled is billed eventually, although uploads
\* fail, answers are lost and the process dies and restarts in between. There
\* are two exceptions. A batch the control plane rejects sits in the spool: the
\* client drains it in order and nothing ever removes such a batch. And an
\* upload hangs in a process that is not replaced: the flush task never ends,
\* and neither a timer nor a shutdown starts another.
Delivered ==
  \/ <>[](task = "hung")
  \/ \A n \in 1..MaxCalls : IsRecorded(n) ~> (IsBilled(n) \/ Blocked)

\* The pipeline as the rest of the product sees it: spooled usage events on
\* one side, rows of the ledger on the other.
Pipeline ==
  INSTANCE UsageLedger WITH
    metered <- {r \in recorded : IsUsage(r.event)},
    billed <- ledger

\* Recording, uploading, retrying and recovering implement the promise that
\* the ledger only ever grows, by entries that were metered before.
Promise == Pipeline!Spec

====
