# Verification of skillpack

Skillpack packages a skill (a wiki and the tools to query it) as a bundle that a
customer runs locally, under a signed lease and a signed policy. Each tool call
is metered, the meter events are uploaded to a control plane, and what the
control plane accepted is billed.

This directory holds TLA+ models of the parts of that loop where processes
restart, requests are retried or interleave, and checks overlap with what they
check. TLC model-checks them on small instances; TLAPS proves the most important
properties for every instance. `PROJECT.json` names the source lines behind each
definition, lists the runs, the hazards and the theorems, and keeps for each
property a mutation of the code's logic that violates it.

To repeat the work, in this directory:

    tlc -workers 2 -config meter_restarts.cfg MCMeterClient
    tlapm MeterClientProofs.tla

## 1. The system

    MCP client --tools/call--> server.mjs --appendAndFlush--> local-meter-client.mjs
                                 | policy.js                     | meter-store.mjs
                                 v                               v
                             wiki tools              meter.jsonl, meter-state.json
                                 | spawnSync                     | POST /v1/meter/upload
                                 v                               |
                       wiki-rag, .wiki-rag                       |
    operator, CLI, dashboard --management API--> routes.js <-----+
                                                    | storage-contract.js
                                                    v
             lease_counters, accepted_usage_events, policies, prices, invoices, ...

| Component | State | Operations | What is hard | What makes it correct |
|---|---|---|---|---|
| Metering pipeline: `runtime-meter.mjs`, `meter-store.mjs`, `local-meter-client.mjs`, `direct-upload-transport.mjs` | hash chain in memory; spool, claimed batches and chain in `meter-state.json`; log in `meter.jsonl`; flush timer and task | start, record, flush, acknowledge, queue again, shut down | crash between any two file operations; lost, late and broken answers; recording while uploading; failed and torn writes | one chain per lease; no usage lost, none billed twice; a spool that drains as long as uploads end |
| Tool gate: `server.mjs` | usage counts in memory and on disk; the queue of events | `tools/call`, start, exit | handlers of one chunk overlap; decide, meter, count are separate steps; meter failures | hard stop; every result metered; every call answered |
| Policy evaluation: `policy.js` | none | decide on a call | boundaries of windows and budgets; overrides that do not meet the workspace's window | a seat never gets more than its workspace |
| Lease authority: `issueLease`, `verifyLease` in `routes.js` | `lease_counters` | issue, verify | read, await, write; error after the write; empty store | a superseded lease is rejected, the current one is not |
| Meter ingestion: `uploadMeter` in `routes.js`, `commercial.js` | `accepted_usage_events` | upload with a lease or a management key | repeated, partial and overlapping batches; ids from three places | a row for each event, once, under the right customer, for good |
| Billing: `billing.js` | `pricing_rules`, `invoices` | set a price, draft | usage that arrives after the draft; drafts that overwrite; two reads that are not one | an event is on one invoice of its period, and no redraft loses it |
| Payment handoff: `payment-providers.js` | `payment_handoffs`, the provider's checkouts | hand over an invoice | external call, then write; rounding | a checkout asks for what the invoice bills |
| Commercial registry | providers, customers, workspaces | save | check, await, write; a schema that is made by the first request | a workspace never changes its customer |
| Policy distribution: `issuePolicy`, `syncPolicy` | `policy_snapshots` | issue, sync | last write wins | a client gets the latest snapshot |
| Time trust: `tsa`, `runtime/src/index.js` | `manual_attestations` | attest, issue a lease, check it at run time | clocks that differ; attestations recorded at once; which is the latest; what a lease carries | where the policy on the time is applied, no run on a time that nobody vouches for, and none refused for a record that exists |
| Wiki retrieval: `wiki-rag-shared.mjs`, `wiki-rag` | the index in `.wiki-rag` | index, search, fall back | upgrades; failing index commands, and those that outlive their process | a search shows what matches in the current wiki, no chunk twice, and as much of it as the limits allow |
| Authentication: `auth.js`, `worker-auth.js` | none beyond a request | check a key or a session | - | - |
| Storage adapters: SQLite, D1 | the database | forward statements | D1 has no transactions; a schema that failed half way | as the contract |
| Cryptography | none | sign, verify, hash | - | taken to be perfect |
| Bundles, CLI, dashboard, deployment | files | pack, render, script | - | - |

The runtime and the control plane share no memory. They interact by three
things: the **lease** (its `jti` names the chain of events, its claims name the
customer who is billed), the **policy snapshot** in the bundle, and **uploads**
of batches of events, answered with an acknowledgement. Inside the runtime the
gate hands events to the meter through a queue of promises, and waits for the
commands of a search. On the control plane handlers share only the database,
through awaited statements.

## 2. The models

| Module | Models | Builds on |
|---|---|---|
| `UsageLedger` | abstract: what is metered, what is billed | |
| `MeterClient` | metering pipeline, with the ingestion it can observe | `UsageLedger`, as its promise |
| `Policy` | decisions of a policy snapshot | |
| `ToolGate` | the `tools/call` handler and its counts | `Policy` |
| `WikiIndex` | the index of the wiki, and the search through it | |
| `WikiServer` | the runtime process: the gate with the search behind it | composes `ToolGate` and `WikiIndex` |
| `LeaseServer` | issuing and verifying leases | |
| `UsageTable` | abstract: a table of rows that stay | |
| `MeterIngest` | uploads, with all the ids and both kinds of storage | `UsageTable`, as its promise |
| `Billing` | prices, drafts, invoices, payment handoffs | adds rows by the step of `UsageTable` |
| `Registry` | providers, customers, workspaces, policies, the schema | |
| `TimeTrust` | clocks, tokens, attestations, and the runtime's verdict | |
| `MC...` | an instance for TLC | the module it names |
| `MeterClientProofs`, `ToolGateProofs`, `LeaseServerProofs`, `MeterIngestProofs`, `RegistryProofs`, `TimeTrustProofs`, `BillingProofs`, `WikiServerProofs` | proofs | the module they name |

Definitions whose name has an underscore, such as `Insert_Replace`, are mutants: the
definition that follows them with a plausible bug. No model uses them.

### MeterClient

Node runs one callback at a time, so code between two awaits is not interleaved
with other code; but the process can die between any two file operations. `pc`
is the file operation that the running callback performs next: recording an event
goes through `log` (append to `meter.jsonl`), `queue` (append to the pending
batch) and `persist` (write `seq` and `prevHash`); a flush through `claim`, the
request, and `ack`, `ackPersist` or `requeue`. `task` is the promise
`flushTask`, `timer` is `flushTimer`, `closing` is the progress of `shutdown()`.
The variable `disk` is `meter-state.json`, `ledger` the table
`accepted_usage_events`, `late` the requests that the client gave up and that may
still arrive. `recorded` is history.

The client gives a request up when its connection fails or its socket is silent for five
seconds (`request.setTimeout`). Nothing bounds a request as a whole: if an answer is cut off
after its headers, `requestJson` hears of neither an end nor an error, and if it trickles the
socket is never silent. That is `UploadHangs`; `task` is then `hung` until the process is killed.

A hash is modelled by the identity of the event it is the hash of, so `prev` of
an event is the event it is linked to. `Write` is `writeFileState`: it takes the
lease id over if the file has none, and, with fault `write`, does nothing,
because the code swallows the error. `Insert` is `INSERT OR IGNORE` under the key
of lease and sequence number. A start with a lease whose chain is stored
continues it; with another one it starts afresh.

`Faults` selects what the environment does: `kill` (between the writes of one
record it is the separate `kill_recording`), `torn`, `write`, `log`, `late`, `hang` and
`rollback` (a start with an older lease).

### Policy and ToolGate

`Policy` has the functions of `policy.js` as operators. A snapshot is a record;
the maps of seats, budgets and overrides are functions on those that have an
entry. Percentages are compared exactly; the code divides in floating point.

In `ToolGate` a handler is `waiting` for its event to be recorded, or `resumed`.
All lines that readline emits from one chunk start their handlers before a microtask
runs, so `Arrive` is possible only while no event of the chunk has been recorded
(`Reading`); then `RecordEvent`, `RunTool` and `Answer` take turns as the promises
settle, in every order that the queue permits. `RunTool` is
`incrementToolUsageCount`, the write of the counts, and the tool itself; the
tools are synchronous. `Chunk` bounds the lines of a chunk: 1 is an MCP client
that waits for the answer before it sends the next call.

### WikiIndex and WikiServer

`WikiIndex` is `wiki_search`. `db` has the three tables of the index: `documents`,
`chunks`, and the full text table `chunks_fts`, in which no key keeps a row from
being double, so it is a number for each chunk. A page is a set of texts: its chunks, one
for each section that has something in it, and what is in no chunk (`Bare`). Which texts
the full text search of a query matches, and which contain the query letter by letter, is given.
`Ask` is the decision to index first (`NeedsIndex`),
`OpenDatabase` makes the file, `IndexMarkdownDir` is the transaction that prunes
pages and indexes the others anew, `Query` joins the three tables, and `Legacy`
searches the pages themselves, as the fallback of a failing index does too.

The two engines do not answer alike. The index has the pages of all folders of the wiki, and
a hit is a row, that is, a chunk: a page that matches in three sections may be shown three times,
or, as hits are limited, another page not at all. The search in the pages looks at the top of the wiki only,
and shows a page once. `Cut` is what a limit leaves; which hits it leaves depends on a ranking that is not
modelled, so it is any of them. A query returns `SqlLimit` rows at most (10 in the code), and of them
as many as the call asks for (`Limit`, between 1 and 20).

A command outlives a process that is killed while it waits for it (`Abandon`), and may commit the wiki of that process
whenever it likes (`OrphanCommits`); `foreign` records that another wiki was indexed after the process
had indexed its own. A
process keeps its `setting`: the engine, whether failures fall back
(`RAG_FAIL_OPEN`), whether the release came with an index, and whether a process of
another bundle works in the same directory. `Launch` is a start, with any of the
released wikis: an upgrade, or the same one again.

`WikiServer` puts this search behind the gate, as an INSTANCE of `ToolGate`.
`wiki_search` runs its commands by `spawnSync`: from `BeginSearch` to `EndSearch` no
handler goes on (`Blocked`), while the process may be killed, the clock ticks,
and other processes write the index (`Elsewhere`). An exception of the search turns the `tool_success` event of the
call into a `tool_error`.

### LeaseServer

`BeginIssue` runs to the write (the read of the counter decides what is signed),
`CommitIssue` is the write, `Grant` and `RefuseWritten` are the rest of the
handler, which validates the fields of the time stamping authority only after
the counter has been stored. `BeginVerify` compares the token with the counter, and
`CommitVerify` writes the counter of a token that is ahead. A write may be reported as
failed and yet be made (`StoreFails`). `Restart` loses the requests in progress
and, with fault `forget` (the default in-memory store), the table. Because
`nowSec` may come from the body of the request, whether a token has expired is
free. `known` is history: the leases that had been given when a request arrived.
`spoiled` is history as well: the holders whose row was lost, or was read by a request to
issue while another one had read it and not yet written it (`Pending`). From then on the
code promises nothing about the counter of that holder, so the properties that
depend on it are stated for the holders that are not spoiled, while requests
for other holders, and verifications of every holder, interleave freely.

### MeterIngest

A request is `unsent`, then `writing` its rows, and `accepted`, or it is
`unauthorized`, `invalid` or `failed`. `Receive` is the handler up to the first write:
`Judged` has the two kinds of authentication and the contract of the body, and
`NormalizeEvent` is the mapping of `commercial.js` from a raw event to a row. With a
lease (`Direct`) its claims replace all ids; with the management key the ids
of the event come before those of the upload. The key of a row is the workspace, the seat, the `jti`
and the sequence number. SQLite stores a batch at once (`AppendBatch`), D1 row by
row (`AppendRow`), with other requests in between; `Fail` leaves what D1 has stored.
`CommandLineUpload` is what `skillpack meter upload` makes of a log.

The operator may name no lease, or a wrong one, for the events of a log; then the
code files them under other keys, and a call may be billed twice or hide another one.
`NamedRight(l)` says that this has not happened to lease `l`, and the two properties
about the customer's bill are stated under it. `AppendOnly` is unconditional.

### Billing

A draft is three statements: `BeginDraft` reads the usage in scope, `RateDraft` reads the
rules and makes the invoice, `SaveDraft` writes it over whatever has its id. A
handoff reads the invoice (`BeginHandoff`), creates a checkout at the provider
(`CreateCheckout`) and stores it (`SaveHandoff`). Between any two of them other handlers,
new usage (`Accept`) and new rules (`SavePricingRule`) come in, and each may fail. The operators before them
are `billing.js`: grouping by seat and tool, the choice of the most specific rule, included
units, minimum charges, and both roundings. Quantities count halves of a call. `events` of
an invoice and `base` of a draft are history.

### Registry

`pc` of a request is the statement its handler performs next: `provider?`,
`customer?` and `existing?` are the checks, `write` the upsert, `owner?` the read after it that
tells who has the workspace. Before the first one, each handler awaits the promise
`schemaReady`, which the first caller starts and which creates one table after the other; when
a statement of it fails the promise stays rejected until the process is replaced.
`issuePolicy` and `syncPolicy` are one statement each. `held` is the snapshot in each
workspace's client; `fresh` is history.

### TimeTrust

There are two clocks, of the server and of the runtime, which may differ by `MaxDrift`.
`BeginAttest` is `manualAttest` up to the clock: it takes what an operator attests, whatever the
clock says, and the time of recording; `InsertAttestation` is the INSERT. Handlers (`Desks`) interleave
between the two, so the ids of the records need not follow their times. `seen` in a record is history,
by which `Supersedes` tells which of two records is the later word.
`BeginIssue` and `EndIssue` are the request for a lease, which reads the latest attestation
between; `Verdict` is `verifyLeaseForRuntime`, an operator because the runtime may
ask at any moment and the answer changes nothing. The lease that the runtime
holds is kept with what it got about the time (`TsaPolicy`); `known` in it is history.

`Verdict` is what `verifyLeaseForRuntime` says when it is given the policy on the time. An embedder that passes the
policy to `executeWithRuntimeLease` runs a skill on that verdict (`Runs`). The `server.mjs` of a bundle never passes
it, so its tools are served as long as the lease is active or in grace (`Serves`): `RunsAreAnchored` promises the first the
word of the authority or of the operator, and the second the bound of the lease only. This is not what
`docs/runbooks/tsa-outage.md` says of the runtime: that it passes the policy (line 24), and must reject execution when the
token has expired and no attestation is provided (line 29). `server.mjs` calls `verifyLeaseForRuntime` without one (lines 422
and 706), and the check returns before it looks at the token (`runtime/src/index.js`, line 61).

## 3. The runs

| Run | Instance | Shows |
|---|---|---|
| `meter_restarts` | 3 calls, 3 starts, 2 leases, the second one rejected by the server; kill, log, late, hang | types; `SeqUnique`, `ChainUnbroken`, `AuditChain`, `NothingLost`, `UploadIsClaimed`, `NoLostWakeup`; `Promise`: the pipeline implements `UsageLedger`; `Delivered`: what is spooled is billed, or a rejected batch is in the spool, or an upload hangs in the last process |
| `meter_disk_faults` | 3 calls, 2 starts; kills anywhere, torn and lost writes, log, an older lease | `NeverBilledTwice` |
| `meter_crash_mid_record` | 2 calls, 2 starts, kill_recording | **violation** of `SeqUnique` |
| `gate_calls` | 3 calls in chunks of 2, 2 seats and a budget of 1; overrides wider than and apart from the workspace's window; kill, 2 starts | types; `BoundedOverrun`, `Accounted`, `ResultIsMetered`, `SeatNeverWidens` |
| `gate_hard_stop` | 2 calls in one chunk | **violation** of `HardStop` |
| `server_answers` | 2 calls in one chunk, 4 pages with up to 2 chunks, 2 releases of the wiki, 4 settings, 2 starts; failing index commands and those that go on after a kill, log, a lease that ends | types; `SearchShowsMatches`; `Answered` |
| `lease_requests` | 4 requests, 3 at a time, 2 holders; failing writes, restarts, an empty store | types; `DistinctCounters`, `SupersededRejected`, `CounterNeverRewinds` for holders that are not spoiled; `RewindHasCause` for all |
| `lease_rewind` | 4 requests, 2 at a time, 1 holder, no fault | **violation** of `NoRegression` |
| `ingest_uploads` | 3 of 15 uploads: of the runtime, of the operator who names the right lease, none or another customer's, forged, malformed and unauthorized ones; SQLite and D1 | types; `AcceptedIsBilled`, `CalledOnceBilledOnce`; `AppendOnly`: ingestion implements `UsageTable` |
| `billing_invoices` | 2 drafts of two adjacent periods, 1 handoff, 3 events, 3 rules | types; `LinesAccountForUsage`, `BilledInOnePeriod`, `PaidIsBilled`, `RedraftKeepsUsage` |
| `registry_requests` | 3 requests, 2 starts, 2 tables, 2 customers who claim one workspace, 2 snapshots | types; `SchemaFirst`, `AcceptedKeepsOwner`, `SyncedHoldsLatest`; `Answered` |
| `time_trust` | clocks up to 4 that differ by 1, 2 attestations for 2 holders and 2 tickets, by 2 handlers at once | types; `RunsAreAnchored`, `WarnedIsCarried` |

Deadlock is not checked where a model stops when its bounded calls, starts or
requests are used up, which is all of them but `TimeTrust`.

**What the violations say.** The runtime persists the sequence number after it
spooled the event, so a crash in between uses the number twice, and one of the two
tool calls is ignored by the ledger. Calls in one chunk are decided on with the same
count, and pass a hard stop together. And a lease request that reads the counter, is
overtaken, and writes it back makes an old lease valid again. Each is set against the
sentence of the documentation it contradicts, under "findings" in `PROJECT.json`.

**Bounds.** Three events and three starts are what the longest of the known
scenarios need: an event on the wire, one recorded meanwhile, one after the failure;
a crash, a recovery, and a crash during the recovery. Two leases let a chain end
and a batch outlive its lease. In the gate a budget of 1 with thresholds of 100 and 120 per
cent lets the first call through with a warning and stops the second, so two calls of one chunk are one
too many; the third comes after them, or after a kill. The windows are single instants of a clock
that shows three, before, in and after them. Four lease requests are a lease,
one that supersedes it, a third that is overtaken or a check, and a check of the outcome.
Requests, holders and desks are symmetric, and symmetry
is used only in runs without liveness properties.

In `ingest_uploads` three uploads are a batch that is cut short, the one that overlaps or
repeats it, and a third, by another party, between the rows of the others; the events have two
chains of one seat, so that a wrong `jti` makes them meet. In `billing_invoices` an event lies at the second
that the two periods share, one is a call and a half, and rules differ in how specific they are, in
currency, minimum and included units; two drafts are a first one and its repetition, or two of different
invoices, with the handoff before, between or after. In `registry_requests` three requests are two that race for one
workspace and one that runs between them, or an issue, a sync and an issue; the second start finds a
schema that the first one left half made. In `time_trust` a token lasts two ticks and warns in the
second, an attestation lasts one and a lease one with one of grace, so that four ticks see each of
them come and go while another is valid; two attestations are the one that counts and one that is later, for
another holder, or under another ticket, or inserted in the wrong order. The constraint `OneLease` leaves out what follows
the replacement of a lease: `EndIssue` does not look at the lease it replaces, and the runtime keeps nothing else, so
these states are those after a first lease at the same time. In `server_answers` more chunks match in the first release than a
search shows, two of them of one page, one in a folder and one under a heading alone; the second release drops a page, leaves another empty and has
as many matches as are shown, so an index that is not made anew is wrong both ways. The limit of the call is below that of the
command, as by default. The two starts are before and
after the upgrade, and of the two calls the first is within the budget, and the second is if the first was killed
or is in the same chunk.

**Fairness.** `MeterClient!Fairness`: a callback that has begun runs to its end and
the timer fires (the event loop); a request whose connection fails or falls silent is given up
(`request.setTimeout`), while nothing is assumed of one that hangs, for which `Delivered` makes an exception;
the runtime is started again; and, strongly, an upload that is tried over and over is
accepted and answered in the end. The last one is about the network and the server, and
without it no client could deliver anything. It is not assumed for leases whose uploads are
rejected. `WikiServer!FairSpec`: promises that are settled are resumed, and the commands that a search waits for
end, one way or the other; no fairness says that they succeed. `Registry!FairSpec`: the database answers each
statement, with a row or an error, so handlers go on and the creation of the schema does not hang; neither
failures nor restarts are assumed.

## 4. The proofs

| Theorem | For every instance with | Along |
|---|---|---|
| `TypeCorrect` | any faults | `TypeInv`: types, and which variables are idle at which `pc` |
| `BilledOnce`, `ImplementsLedger` | any faults | `Provenance` |
| `UsageRetained`, `ClaimedIsSent` | `Reliable`: no write of the state file fails or is torn | `Retention` |
| `SequenceUnique`, `OneChain`, `NoUsageLost` | `Reliable` and `SafeRestarts`: no kill between the writes of a record, no older lease | `Chained` |
| `SpoolAttended` | any faults | `Attended` |
| `LogAudits` | `RecordsPersist`: no kill between the writes of a record, no failing write | `AuditInv` |
| `GateTypeCorrect`, `CallsAccounted`, `OverrunBounded` | any faults, any chunk | `GateInv` |
| `HardStopHolds` | `Chunk = 1`, no kill | `OverrunBounded`, with no call uncounted |
| `ResultsMetered` | recording never fails | a handler past its event has it recorded |
| `WindowHolds` | any | the windows of `Policy` |
| `LeaseTypeCorrect`, `RewindMeansNewer` | any faults, any number of requests at a time | `RewindInv` |
| `CountersDistinct`, `NoRewind`, `SupersededIsRejected` | the same; about the holders that are not spoiled | `SteadyInv` |
| `Typed`, `Refinement`, `AcceptedStaysBilled`, `BilledOnce` in `MeterIngestProofs` | any leases, uploads and storage | `Inv`: `Shape`, `Provenance`, `OneRowPerKey`, `Covered` |
| `Typed`, `SchemaComesFirst`, `OwnerIsKept`, `SyncedIsLatest` in `RegistryProofs` | any requests, populations, starts and tables | `Inv`: `Shape`, `SchemaInv`, `References`, `Knows` |
| `Typed`, `Anchored`, `CarriedWhenWarned` in `TimeTrustProofs` | any ages, windows, drift and number of records | `Inv`: `Shape`, `Dated`, `LeaseInv` |
| `InvoicesAccount`, `OnePeriod`, `RedraftKeeps` | any usage, rules and number of drafts | `DraftInv` |
| `BillingTypeCorrect`, `PaidAsBilled` | the same, any providers and number of handoffs | `DraftInv` and `PayInv` |
| `IndexTypeCorrect`, `SearchFindsMatches` | any pages, texts, releases and settings, and any gate | `IndexInv` |
| `ServedAccounted`, `ServedWithinBound`, `ServedInWindow` | any faults of the gate and the search | `ServedInv`: `GateInv` and `SearcherWaits` |
| `ServedHardStop` | `Chunk = 1`, no kill | the same, with no call uncounted |
| `SearchesMetered` | recording never fails | `ServedInv` and `Paid` |
| `LedgerIsTable` | any usage | rows are added, one for a key |

The conditions are those under which the violations above do not arise, so the two
together say what the properties depend on.

* `Provenance` of `MeterClientProofs`: every event that is spooled, on the wire or billed was recorded, event
  numbers are unique, and the ledger has one row per key. `NeverBilledTwice` is not
  inductive alone: a late request might bring a second copy of an event under another key.
  It is also what the refinement mapping to `UsageLedger` needs (`billed \subseteq metered`).
* `Retention`: what is on the wire is exactly what is claimed, and what was answered is in the
  ledger. Acknowledging by lease id alone is right for this reason only.
* `Chained`: the chain in memory, and outside a record the one on disk, ends the events
  recorded for its lease, and older leases have all been used before newer ones.
* `Attended`: besides the timer and the flush task, a callback that has yet to start either. An event that is
  recorded while a flush ends finds the task alive and starts none, so the task itself must look again.
* `AuditInv`: the chain in memory ends the log except while an event is being logged, and so does the
  one on disk except until that event is persisted; what a start restores is therefore the end of the log, or a new
  chain. It needs no order of leases and no reliable log, unlike `Chained`.
* `GateInv`: the queue holds just the waiting calls, memory and disk agree on the counts, metered
  calls are counted, in flight or lost, and a call is admitted only below the hard stop.
* `RewindInv`: every row is the counter of some signed lease.
* `SteadyInv`: for a holder that is not spoiled, no lease is ahead of the counter, at most one request is
  between its read and its write and is one ahead, and of two leases the one that was given before the
  other was requested has the smaller counter.
* `Inv` of `MeterIngestProofs`: each row is what some request that passed the checks makes of an event
  (`Provenance`), and a request that goes on has found or made a row for each event that it need
  not write any more (`Covered`). `NamedRight` is no part of it, because a later upload may make it false:
  `AcceptedIsBilled` is derived from `Inv` in one state. The row under an
  event's key was made by some request, `NamedRight` says that it has the claims of the lease, and
  two events of one chain with one number are the same event.
* `Inv` of `RegistryProofs`: `Knows` is what a handler may still believe at its next statement: rows are
  never removed, so that a customer that was found is there when the workspace is written, and an owner that was
  confirmed stays. `SyncedIsLatest` is an induction of its own on top of it.
* `Inv` of `TimeTrustProofs`: no record is older than what was on file when its time was taken (`Dated`), which leaves open
  how two are ordered that were taken while neither was on file. So the record with the latest time, and of those with the
  same time the highest id, is superseded by none under its ticket (`LatestIsLast`), and what a lease carries is such a word
  of those that were on file when it was issued, or there is a reason that it carries none (`LeaseInv`).

* `DraftInv`: each stored invoice is the outcome of `Drafted` for some usage of the ledger in its scope and some
  rules (`MadeInvoice`), and a handler that has read the usage holds what the stored invoice billed of its
  scope (`InHand`), because the ledger had all of that and never loses a row. `BilledInOnePeriod` follows from the
  half-open scope alone, whatever the rules were.
* `PayInv`: what is on file was saved by a handler that had read a stored invoice; a session has the
  number of the handler that created it, so the cart of the session on file is that of the invoice on file.
* The sums of `BillingProofs` (`SumRemove`, `SumCompare`, `SumSupport`, `SumGroups`) are proved for every function to
  the natural numbers and every finite set. An induction theorem with an operator as parameter is of no use to the
  installed provers; `SubsetInduction` takes the set of the subsets that a fact holds of instead, and is
  proved by a least counterexample. `SumGroups` is why the lines account for the usage: the groups of the events
  partition them. `ChargedInFull` is the arithmetic of the two roundings.
* `IndexInv`: the tables are tidy (one full text row for a chunk, so a query has it once: `RowsTidy`), and an index that is taken
  as ready has the chunks of the current wiki, or is `Excused`. The case that makes it strong is a release that comes
  with an index: any call takes that as ready, so it must hold between calls, in a process that has asked nothing yet.

* `ServedInv` carries what is proved of the gate alone over to the process with the search behind it.
  `WikiServerProofs` instantiates `ToolGateProofs`: each step of the process is one of the gate or leaves the gate alone
  (`GateOrSearch`), except the end of a search, which may turn the `tool_success` of a call into a `tool_error` after the call
  was counted. That is no step of the gate, and keeps its invariant (`OutcomeLater`) because the call that searched is still
  the last one in the queue and waits (`SearcherWaits`): the search blocks every other handler.

Assumptions on constants are `ConstantsAssumption`, `GateAssumption`,
`LeaseAssumption`, `UploadsAssumption`, `RegistryAssumption`, `BodiesAssumption`, `TimeTrustAssumption`, `BillingAssumption`, `WikiIndexAssumption`, `WikiServerAssumption` (that of the gate), and
`NoneAssumption` and `AbsentAssumption` (the absent value is none of the values: for billing, no invoice and no
session id); TLC evaluates them in each run of their module. `UploadsAssumption`
has what the client guarantees: a lease is presented only with events of its chain, and a
chain has one event for each number. The first is how `MeterClient` forms its batches, the second is
`SequenceUnique` there, under the conditions of that theorem.

**Only model-checked.** The liveness properties `Delivered` and both `Answered`: liveness and ENABLED are out of
TLAPS's reach here. Every invariant and every action property that a passing run checks is proved, and so is each
refinement. **Only proved**, and in no run, are
`UsageRetained` (in the runs with a reliable disk `NothingLost` implies it), `HardStopHolds` (`BoundedOverrun`
with a chunk of one implies it), `LedgerIsTable`, and the `Served...` theorems and `SearchesMetered`, which state of
`WikiServer` what the run `gate_calls` checks of `ToolGate`.

## 5. What is left out

Of the components:

* Two runtime processes on one bundle directory, which write one `meter-state.json` without a lock.
* Hashes and signatures are perfect; the content of events, contexts and tokens is not represented.
* A write of the usage counts does not fail in `ToolGate`, although `MeterClient` has failing writes of
  the same file.
* The modes `local` and `noop` of the runtime: they are the runs in which each upload fails, or in
  which nothing reads the spool.
* Fractional budgets and usage, and the rounding of percentages: there is no floating point here.
* Where a page is cut into chunks, which of them a query matches, the order of the hits (so which of them a limit cuts off),
  and the graph search.
* The control plane keeps its database across restarts in `Registry`. The default in-memory store, with which providers,
  customers, workspaces and policies are gone after a restart, is not covered there; `LeaseServer` has it, as the fault `forget`.
* `TimeTrust` has one server, so one clock by which attestations are recorded. Several servers on one database would
  order the attestations of different operators by clocks that differ.
* Bundles: the build script and the checks of signed files at start keep no state that steps share. A
  build that is interrupted between the writes of the private and of the public key leaves a pair that does
  not match, which is a matter of two writes and needs no model. A release lacks the directory that the
  install script copies the retrieval sources from, and the runtime deletes the extracted bundle
  with the index in it, so that a pre-built index is never the one that is used; `Launch` has the latter.
* The dashboard and the deployment: rendering, and scripts around external tools. The comparison of keys and
  session cookies keeps no state; whether a handler serves a request at all is in `Registry` and `MeterIngest`.

Where the code gives no protection, a property is stated with the exception, or not at all:

* An upload with the management key that names no lease, or another one, may bill a call twice, or hide a call
  of another lease with the same number; one without a customer is filed under `customer:unknown`.
* A checkout whose answer is lost, or whose handoff is not stored, stays at the provider, and a retry makes another.
  A draft overwrites an invoice that was handed over. With a minimum charge, or parts of a call, a checkout does not ask for
  the amount of the invoice; a currency in the request relabels amounts that were priced in another.
* A schema promise that was rejected fails every request until the process is replaced. A sync compares
  policy ids, so that an edit under the same id does not reach a client. A `DISABLED` workspace that is saved again
  without a status is active again.
* The latest attestation by time of recording counts, also if an older one would still be valid; of two that are recorded
  in one second by handlers that interleave, the one that was inserted last. The `tsaMonitor` configuration of the
  server is not passed to the runtime. An embedder has its own; the `server.mjs` of a bundle has none.
* An upload that hangs stops all delivery of its process, whose shutdown waits for it as well.
* An index run that fails after it created the file leaves an empty index, which a release that should come with one
  takes for its own. Two bundles in one working directory share an index, and the command of a process that was killed may
  put the wiki of the last release in place of the current one; a process notices neither until a query fails or it is started
  again.
* A search shows a page once for each chunk that matches, and a limit may leave no room for other pages.

## 6. Plan

Done: the metering pipeline, the gate, leases, ingestion, billing with handoff, registry and policies, time trust, and
the wiki search composed with the gate; every invariant, action property and refinement of the passing runs is proved. Left, the most important first:

1. `SharedBundle`: two clients on one `meter-state.json`.
2. The composition of `ToolGate` and `MeterClient` on one disk, for counts that are lost with a torn file, and for
   the queue of the gate as what the meter records; the invariants of both carry over as those of the gate did to `WikiServer`.
3. That the batches of `MeterClient` are uploads as `UploadsAssumption` wants them, as a theorem about the two.
