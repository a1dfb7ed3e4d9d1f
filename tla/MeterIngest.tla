---- MODULE MeterIngest ----
(***************************************************************************)
(* Meter ingestion on the control plane: POST /v1/meter/upload (routes.js),*)
(* the mapping of raw events to commercial ids (commercial.js) and the     *)
(* writes to accepted_usage_events (storage-contract.js).                  *)
(*                                                                         *)
(* An upload is authenticated by a lease (`direct'), whose claims replace  *)
(* all the ids of the events, or by the management key, when the ids of    *)
(* the events come before those of the upload.  Of the optional ids the    *)
(* model keeps the lease id (jti); `customer' stands for the pair of       *)
(* provider and customer, which are taken from the same places.            *)
(*                                                                         *)
(* SQLite stores a batch in one transaction.  D1 has none: the rows of a   *)
(* batch are awaited one by one, and handlers interleave between them.     *)
(***************************************************************************)
EXTENDS Integers, Sequences, FiniteSets

CONSTANTS
  Leases,      \* leases by their jti, a function to their signed claims
  Uploads,     \* requests the environment may send
  Stores,      \* adapters the control plane may run on
  MaxUploads   \* bound on the requests

None == "none"
UnknownCustomer == "customer:unknown"

Jtis == DOMAIN Leases
Numbers == 1..MaxUploads

\* A raw event: `chain' is the lease it was metered under, `form' whether
\* it records usage, should but is malformed, or does not; None is an id
\* that the event does not carry.
Event(e) ==
  /\ e.chain \in Jtis /\ e.seq \in Nat
  /\ e.form \in {"usage", "malformed", "other"}

\* A lease token in the header is either that of a lease or invalid, the
\* management key is given or not, and the body may break the contract.
Request(u) ==
  /\ u.token \in Jtis \cup {None, "invalid"}
  /\ u.key \in BOOLEAN /\ u.wellFormed \in BOOLEAN
  /\ DOMAIN u.events = 1..Len(u.events)
  /\ \A i \in DOMAIN u.events : Event(u.events[i])

\* verifyLeaseToken: signed by this server, and not expired.
Verified(token) == token \in Jtis

Direct(u) == Verified(u.token)

\* The request that `skillpack meter upload' makes of a whole meter.jsonl: the
\* ids are those of the options, of which only the workspace is required.
CommandLineUpload(events, options, key) ==
  [token |-> None, key |-> key, wellFormed |-> TRUE,
   workspace |-> options.workspace, context |-> options, events |-> events]

\* A lease is presented only with the events that were metered under it,
\* and one chain has one event for each sequence number (MeterClient).
ASSUME UploadsAssumption ==
  /\ MaxUploads \in Nat
  /\ \A u \in Uploads : Request(u)
  /\ \A u \in Uploads : Direct(u) =>
       \A i \in DOMAIN u.events : u.events[i].chain = u.token
  /\ \A u, v \in Uploads : \A i \in DOMAIN u.events, j \in DOMAIN v.events :
       /\ u.events[i].chain = v.events[j].chain
       /\ u.events[i].seq = v.events[j].seq
       => u.events[i] = v.events[j]

VARIABLES
  store,     \* the adapter in use
  rows,      \* accepted_usage_events: key, customer, and the raw event
  uploads    \* requests: stage, body, and the events yet to be written

vars == <<store, rows, uploads>>

Stages ==
  {"unsent", "writing", "accepted", "unauthorized", "invalid", "failed"}

----
(***************************************************************************)
(* From raw events to rows (commercial.js).                                *)
(***************************************************************************)

First(a, b) == IF a # None THEN a ELSE b

\* The ids that apply to all events of an upload.
Context(u) ==
  IF Direct(u)
  THEN [customer |-> Leases[u.token].customer,
        workspace |-> Leases[u.token].workspace,
        seat |-> Leases[u.token].seat, jti |-> u.token]
  ELSE [customer |-> First(u.context.customer, UnknownCustomer),
        workspace |-> u.workspace,
        seat |-> u.context.seat, jti |-> u.context.jti]

\* Mutant: the ids of the event win over those of the lease.
NormalizeEvent_EventFirst(u, i) ==
  LET ctx == Context(u)
      e == u.events[i]
  IN [key |-> [workspace |-> ctx.workspace,
               seat |-> First(First(e.seat, ctx.seat), "default"),
               jti |-> First(e.jti, ctx.jti), seq |-> e.seq],
      customer |-> First(e.customer, ctx.customer),
      event |-> e]

\* The row of the i-th event.  Its event_id is made of the four ids of the
\* key, so the UNIQUE constraint on them adds nothing (it does not apply
\* where the jti is NULL; the event_id then has an empty one).
NormalizeEvent(u, i) ==
  LET ctx == Context(u)
      e == u.events[i]
      Pick(own, given) == IF Direct(u) THEN given ELSE First(own, given)
  IN [key |-> [workspace |-> ctx.workspace,
               seat |-> First(Pick(e.seat, ctx.seat), "default"),
               jti |-> Pick(e.jti, ctx.jti), seq |-> e.seq],
      customer |-> Pick(e.customer, ctx.customer),
      event |-> e]

Candidates(u) == {i \in DOMAIN u.events : u.events[i].form # "other"}

\* One event that is malformed, or names another workspace, rejects the
\* whole batch, and so does a lease that names no customer.
Valid(u) ==
  /\ u.wellFormed
  /\ ~Direct(u) => u.context.workspace \in {None, u.workspace}
  /\ \A i \in Candidates(u) :
       /\ u.events[i].form = "usage"
       /\ ~Direct(u) => u.events[i].workspace \in {None, u.workspace}
       /\ Direct(u) => None \notin {Context(u).customer, Context(u).workspace}

----
(***************************************************************************)
(* The handler, request by request.                                        *)
(***************************************************************************)

\* INSERT OR IGNORE of the rows of the events I, in their order.
Inserted(u, I) ==
  {NormalizeEvent(u, i) : i \in {i \in I :
     /\ \A r \in rows : r.key # NormalizeEvent(u, i).key
     /\ \A j \in I :
          j < i => NormalizeEvent(u, j).key # NormalizeEvent(u, i).key}}

\* Mutant: INSERT OR REPLACE.
Insert_Replace(u, I) ==
  rows' = {r \in rows : \A i \in I : r.key # NormalizeEvent(u, i).key}
            \cup {NormalizeEvent(u, i) : i \in I}

Insert(u, I) == rows' = rows \cup Inserted(u, I)

\* What a request that has just arrived becomes: a lease token decides
\* alone, and only without one is the management key looked at.
Judged(u) ==
  IF \/ u.token # None /\ ~Verified(u.token)
     \/ u.token = None /\ ~u.key THEN "unauthorized"
  ELSE IF Valid(u) THEN "writing"
  ELSE "invalid"

Receive(n) ==
  /\ uploads[n].stage = "unsent"
  /\ \E u \in Uploads :
       uploads' = [uploads EXCEPT ![n] =
         [stage |-> Judged(u), body |-> u,
          todo |-> IF Judged(u) = "writing" THEN Candidates(u) ELSE {}]]
  /\ UNCHANGED <<store, rows>>

\* SQLite: all the rows in one transaction.
AppendBatch(n) ==
  /\ store = "sqlite" /\ uploads[n].todo # {}
  /\ Insert(uploads[n].body, uploads[n].todo)
  /\ uploads' = [uploads EXCEPT ![n].todo = {}]
  /\ UNCHANGED store

\* D1: the next row.
AppendRow(n) ==
  /\ store = "d1"
  /\ \E i \in uploads[n].todo :
       /\ \A j \in uploads[n].todo : i <= j
       /\ Insert(uploads[n].body, {i})
       /\ uploads' = [uploads EXCEPT ![n].todo = @ \ {i}]
  /\ UNCHANGED store

\* Mutant: the acknowledgement does not wait for the rows.
Acknowledges_Early(n) == TRUE

\* Every row has been written: the upload is acknowledged.
Acknowledges(n) == uploads[n].todo = {}

Acknowledge(n) ==
  /\ uploads[n].stage = "writing" /\ Acknowledges(n)
  /\ uploads' = [uploads EXCEPT ![n].stage = "accepted"]
  /\ UNCHANGED <<store, rows>>

\* A statement fails (500, retryable), or the answer is lost; what D1 has
\* written stays.
Fail(n) ==
  /\ uploads[n].stage = "writing"
  /\ uploads' = [uploads EXCEPT ![n].stage = "failed", ![n].todo = {}]
  /\ UNCHANGED <<store, rows>>

Init ==
  /\ store \in Stores
  /\ rows = {}
  /\ uploads = [n \in Numbers |->
                 [stage |-> "unsent", body |-> None, todo |-> {}]]

Next ==
  \E n \in Numbers :
    \/ Receive(n) \/ AppendBatch(n) \/ AppendRow(n)
    \/ Acknowledge(n) \/ Fail(n)

Spec == Init /\ [][Next]_vars

----
(***************************************************************************)
(* Properties.                                                             *)
(***************************************************************************)

\* The requests that passed the checks.
Written ==
  {n \in Numbers : uploads[n].stage \in {"writing", "accepted", "failed"}}

\* Every variable is in its type, and only requests that passed the checks
\* have events to write, or rows.
TypeOK ==
  /\ store \in Stores
  /\ \A n \in Numbers :
       /\ uploads[n].stage \in Stages
       /\ uploads[n].stage # "unsent" => uploads[n].body \in Uploads
       /\ uploads[n].todo # {} =>
            /\ uploads[n].stage = "writing"
            /\ uploads[n].todo \subseteq Candidates(uploads[n].body)
  /\ \A r \in rows :
       \E n \in Written : \E i \in Candidates(uploads[n].body) :
         r = NormalizeEvent(uploads[n].body, i)

\* The operator names lease l right: uploads with the management key that
\* contain events of l, or name l, have the claims of l and only its events.
NamedRight(l) ==
  \A n \in Written : \A i \in Candidates(uploads[n].body) :
    LET r == NormalizeEvent(uploads[n].body, i)
    IN /\ ~Direct(uploads[n].body)
       /\ l \in {r.event.chain, r.key.jti}
       => /\ r.event.chain = l /\ r.key.jti = l
          /\ r.key.workspace = Leases[l].workspace
          /\ r.key.seat = First(Leases[l].seat, "default")
          /\ r.customer = Leases[l].customer

\* Once an upload was acknowledged, each of its calls is on the ledger of
\* the customer of the lease it was made under, however often the batch was
\* cut short, repeated, or overlapped by another one; provided the operator
\* named this lease right.
AcceptedIsBilled ==
  \A n \in Numbers : uploads[n].stage = "accepted" =>
    \A i \in Candidates(uploads[n].body) :
      LET e == uploads[n].body.events[i]
      IN NamedRight(e.chain) =>
           \E r \in rows : r.event = e /\ r.customer = Leases[e.chain].customer

\* A call is never billed twice, nor to the customer of another lease, even
\* if it is uploaded by the runtime and again, from meter.jsonl, by the
\* operator; under the same condition.
CalledOnceBilledOnce ==
  \A r \in rows : NamedRight(r.event.chain) =>
    /\ r.customer = Leases[r.event.chain].customer
    /\ \A q \in rows : q.event = r.event => q = r

Table == INSTANCE UsageTable

\* Whatever is uploaded, a row that was accepted stays as it is: ingestion
\* implements the append-only table that billing reads.
AppendOnly == Table!Spec

====
