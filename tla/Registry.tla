---- MODULE Registry ----
(***************************************************************************)
(* The commercial registry and the policies of the control plane: the      *)
(* handlers that create providers, customers and workspaces and issue and  *)
(* sync policies (routes.js), with the statements behind them and the      *)
(* creation of the schema on first use (storage-contract.js).              *)
(*                                                                         *)
(* Each statement is awaited, so the handlers interleave between any two.  *)
(* `pc' of a request is the statement that its handler performs next.      *)
(* Names are left out: they are kept unless a request gives another.       *)
(***************************************************************************)
EXTENDS Integers, FiniteSets

CONSTANTS
  Bodies,        \* requests the environment may send
  Snapshots,     \* policy snapshots, with their policyId and workspace
  Tables,        \* tables of the schema, numbered in the order of creation
  Populations,   \* contents of the registry the control plane may start on
  MaxRequests,   \* bound on the requests
  MaxStarts,     \* bound on the starts of the process
  None           \* an absent value

ASSUME RegistryAssumption ==
  /\ MaxRequests \in Nat /\ MaxStarts \in Nat \ {0}
  /\ Tables \in SUBSET Nat /\ IsFiniteSet(Tables) /\ Tables # {}
  /\ \A p \in Populations :
       /\ \A c \in p.customers : c[1] \in p.providers
       /\ p.snapshot \in Snapshots \cup {None}

Requests == 1..MaxRequests
Kinds == {"provider", "customer", "workspace", "issue", "sync"}
Statuses == {"ACTIVE", "DISABLED"}
Workspaces ==
  {b.workspace : b \in {b \in Bodies : b.kind \in {"workspace", "sync"}}}
    \cup {s.workspace : s \in Snapshots}

\* validateWorkspaceCreateContract: without a status, a workspace is active.
Status(b) == IF b.status = None THEN "ACTIVE" ELSE b.status

\* The row of a workspace.
Row(b) == [provider |-> b.provider, customer |-> b.customer, status |-> Status(b)]

ASSUME BodiesAssumption ==
  /\ \A b \in Bodies :
       /\ b # None /\ b.kind \in Kinds
       /\ b.kind = "issue" => b.snapshot \in Snapshots
       /\ b.kind = "workspace" => Status(b) \in Statuses /\ Row(b) # None
  /\ None \notin Snapshots

VARIABLES
  schema,      \* the promise schemaReady: absent, pending, ready or rejected
  tables,      \* tables that exist
  providers,   \* providers
  customers,   \* customers, as pairs <<provider, customer>>
  workspaces,  \* workspaces: provider, customer and status by id
  policies,    \* policy_snapshots, by workspace
  requests,    \* handlers: pc, and the body of the request
  held,        \* the snapshot that the client of each workspace holds
  fresh,       \* history: workspaces whose client synced since the last issue
  starts       \* history: starts of the process

registry == <<providers, customers, workspaces>>
vars == <<schema, tables, registry, policies, requests, held, fresh, starts>>

\* The statements of each handler, in their order.
First(kind) ==
  CASE kind = "provider"  -> "write"
    [] kind = "customer"  -> "provider?"
    [] kind = "workspace" -> "provider?"
    [] kind = "issue"     -> "write"
    [] kind = "sync"      -> "read"

Running == {"provider?", "customer?", "existing?", "write", "read", "owner?"}
Ended == {"refused", "failed", "accepted"}

\* A handler goes on to its next statement, or ends.
Goto(n, pc) == requests' = [requests EXCEPT ![n].pc = pc]

----
(***************************************************************************)
(* Arrival, authentication, and the schema.                                *)
(***************************************************************************)

\* The client of a workspace awaits the answer to one sync before the next.
MaySend(b) ==
  b.kind = "sync" =>
    \A n \in Requests : requests[n].pc \in Running \cup {"schema"} =>
      <<requests[n].body.kind, requests[n].body.workspace>>
        # <<"sync", b.workspace>>

\* verifyManagementKey.
Authorized(b) == b.key

\* Requests without the key, or with a body that does not satisfy its schema,
\* are refused. Requests are numbered in the order of their arrival.
Arrive(n) ==
  /\ requests[n].pc = "unsent" /\ \A m \in 1..(n - 1) : requests[m].pc # "unsent"
  /\ \E b \in Bodies :
       /\ MaySend(b)
       /\ requests' = [requests EXCEPT ![n] =
            IF Authorized(b) /\ b.wellFormed THEN [pc |-> "schema", body |-> b]
            ELSE [pc |-> "refused", body |-> None]]
  /\ UNCHANGED <<schema, tables, registry, policies, held, fresh, starts>>

\* ensureReady: the first caller starts the promise, all callers await it.
StartSchema(n) ==
  /\ requests[n].pc = "schema" /\ schema = "absent"
  /\ schema' = "pending"
  /\ UNCHANGED <<tables, registry, policies, requests, held, fresh, starts>>

\* Mutant: the promise counts as settled once it has begun.
Settled_Begun == schema \in {"pending", "ready"}

Settled == schema = "ready"

\* Mutant: those who await the promise are not told that it was rejected.
Rejected_Unseen == FALSE

Rejected == schema = "rejected"

CreateTable ==
  /\ schema = "pending"
  /\ \/ \E t \in Tables \ tables :
          /\ \A u \in Tables \ tables : t <= u
          /\ tables' = tables \cup {t}
          /\ UNCHANGED schema
     \/ /\ Tables \subseteq tables
        /\ schema' = "ready"
        /\ UNCHANGED tables
  /\ UNCHANGED <<registry, policies, requests, held, fresh, starts>>

\* A statement fails, and the rejected promise is kept.
SchemaFails ==
  /\ schema = "pending"
  /\ schema' = "rejected"
  /\ UNCHANGED <<tables, registry, policies, requests, held, fresh, starts>>

EnsureReady(n) ==
  /\ requests[n].pc = "schema"
  /\ \/ Settled /\ Goto(n, First(requests[n].body.kind))
     \/ Rejected /\ Goto(n, "failed")
  /\ UNCHANGED <<schema, tables, registry, policies, held, fresh, starts>>

\* The process is replaced: handlers and promise go, the database stays.
Restart ==
  /\ starts < MaxStarts
  /\ starts' = starts + 1
  /\ schema' = "absent"
  /\ requests' = [n \in Requests |->
       IF requests[n].pc \in Running \cup {"schema"}
       THEN [requests[n] EXCEPT !.pc = "failed"] ELSE requests[n]]
  /\ UNCHANGED <<tables, registry, policies, held, fresh>>

\* Any other statement fails; the handler answers with an error.
Fail(n) ==
  /\ requests[n].pc \in Running
  /\ Goto(n, "failed")
  /\ UNCHANGED <<schema, tables, registry, policies, held, fresh, starts>>

----
(***************************************************************************)
(* saveProvider, saveCustomer, saveWorkspace.                              *)
(***************************************************************************)

\* The row is read back for the answer only, which may fail.
ReadBack(n) == \E pc \in {"accepted", "failed"} : Goto(n, pc)

SaveProvider(n) ==
  /\ requests[n].pc = "write" /\ requests[n].body.kind = "provider"
  /\ providers' = providers \cup {requests[n].body.provider}
  /\ ReadBack(n)
  /\ UNCHANGED <<schema, tables, customers, workspaces, policies, held, fresh,
                 starts>>

\* Mutant: the provider is not looked for.
ProviderExists_Any(b) == TRUE

ProviderExists(b) == b.provider \in providers

FindProvider(n) ==
  /\ requests[n].pc = "provider?"
  /\ Goto(n, IF ~ProviderExists(requests[n].body) THEN "refused"
             ELSE IF requests[n].body.kind = "customer" THEN "write"
             ELSE "customer?")
  /\ UNCHANGED <<schema, tables, registry, policies, held, fresh, starts>>

SaveCustomer(n) ==
  /\ requests[n].pc = "write" /\ requests[n].body.kind = "customer"
  /\ customers' = customers \cup
       {<<requests[n].body.provider, requests[n].body.customer>>}
  /\ ReadBack(n)
  /\ UNCHANGED <<schema, tables, providers, workspaces, policies, held, fresh,
                 starts>>

FindCustomer(n) ==
  /\ requests[n].pc = "customer?"
  /\ LET b == requests[n].body
     IN Goto(n, IF <<b.provider, b.customer>> \in customers
                THEN "existing?" ELSE "refused")
  /\ UNCHANGED <<schema, tables, registry, policies, held, fresh, starts>>

Owns(b, row) == row.provider = b.provider /\ row.customer = b.customer

FindExisting(n) ==
  /\ requests[n].pc = "existing?"
  /\ LET b == requests[n].body
         row == workspaces[b.workspace]
     IN Goto(n, IF row # None /\ ~Owns(b, row) THEN "refused" ELSE "write")
  /\ UNCHANGED <<schema, tables, registry, policies, held, fresh, starts>>

\* Mutant: the upsert has no WHERE clause, and takes the owner over.
Upserted_TakesOver(row, b) == Row(b)

\* The row after the upsert, which leaves the row of another owner alone.
\* The contract has made the status of a request without one ACTIVE, so the
\* status that was read is never the one that is written.
Upserted(row, b) ==
  IF row # None /\ ~Owns(b, row) THEN row ELSE Row(b)

SaveWorkspace(n) ==
  /\ requests[n].pc = "write" /\ requests[n].body.kind = "workspace"
  /\ LET b == requests[n].body
     IN workspaces' = [workspaces EXCEPT ![b.workspace] = Upserted(@, b)]
  /\ Goto(n, "owner?")
  /\ UNCHANGED <<schema, tables, providers, customers, policies, held, fresh,
                 starts>>

ConfirmWorkspace(n) ==
  /\ requests[n].pc = "owner?"
  /\ LET b == requests[n].body
     IN Goto(n, IF Owns(b, workspaces[b.workspace])
                THEN "accepted" ELSE "refused")
  /\ UNCHANGED <<schema, tables, registry, policies, held, fresh, starts>>

----
(***************************************************************************)
(* issuePolicy, syncPolicy.                                                *)
(***************************************************************************)

IssuePolicy(n) ==
  /\ requests[n].pc = "write" /\ requests[n].body.kind = "issue"
  /\ LET s == requests[n].body.snapshot
     IN /\ policies' = [policies EXCEPT ![s.workspace] = s]
        /\ fresh' = fresh \ {s.workspace}
  /\ Goto(n, "accepted")
  /\ UNCHANGED <<schema, tables, registry, held, starts>>

\* Mutant: a client that holds some snapshot is told that it is the latest.
NotModified_Held(mine, latest) == latest = None \/ mine # None

\* The client names the policyId it holds; no other part is compared.
NotModified(mine, latest) ==
  latest = None \/ (mine # None /\ mine.policyId = latest.policyId)

SyncPolicy(n) ==
  /\ requests[n].pc = "read"
  /\ LET w == requests[n].body.workspace
     IN /\ held' = [held EXCEPT ![w] =
              IF NotModified(@, policies[w]) THEN @ ELSE policies[w]]
        /\ fresh' = fresh \cup {w}
  /\ Goto(n, "accepted")
  /\ UNCHANGED <<schema, tables, registry, policies, starts>>

----

Init ==
  /\ schema = "absent" /\ starts = 1
  /\ fresh = {}
  /\ workspaces = [w \in Workspaces |-> None]
  /\ \E p \in Populations :
       /\ providers = p.providers /\ customers = p.customers
       /\ policies = [w \in Workspaces |-> p.snapshot]
       /\ held = [w \in Workspaces |-> p.snapshot]
       /\ tables = IF p.providers = {} THEN {} ELSE Tables
  /\ requests = [n \in Requests |->
                  [pc |-> "unsent", body |-> None]]

Next ==
  \/ CreateTable \/ SchemaFails \/ Restart
  \/ \E n \in Requests :
       \/ Arrive(n) \/ StartSchema(n) \/ EnsureReady(n) \/ Fail(n)
       \/ SaveProvider(n) \/ FindProvider(n) \/ SaveCustomer(n)
       \/ FindCustomer(n) \/ FindExisting(n) \/ SaveWorkspace(n)
       \/ ConfirmWorkspace(n) \/ IssuePolicy(n) \/ SyncPolicy(n)

Spec == Init /\ [][Next]_vars

\* A promise that was started settles, and a handler goes on: the database
\* answers each statement, or fails.
Steps(n) ==
  \/ StartSchema(n) \/ EnsureReady(n) \/ SaveProvider(n) \/ FindProvider(n)
  \/ SaveCustomer(n) \/ FindCustomer(n) \/ FindExisting(n)
  \/ SaveWorkspace(n) \/ ConfirmWorkspace(n) \/ IssuePolicy(n) \/ SyncPolicy(n)

FairSpec ==
  /\ Spec
  /\ WF_vars(CreateTable)
  /\ \A n \in Requests : WF_vars(Steps(n))

----
(***************************************************************************)
(* Properties.                                                             *)
(***************************************************************************)

\* Every variable is in its type, a customer belongs to a provider that
\* exists, and a workspace to a customer of its provider.
TypeOK ==
  /\ schema \in {"absent", "pending", "ready", "rejected"}
  /\ tables \subseteq Tables /\ starts \in 1..MaxStarts
  /\ \A c \in customers : c[1] \in providers
  /\ \A w \in Workspaces : workspaces[w] # None =>
       /\ <<workspaces[w].provider, workspaces[w].customer>> \in customers
       /\ workspaces[w].status \in Statuses
  /\ \A n \in Requests :
       /\ requests[n].pc \in Running \cup Ended \cup {"unsent", "schema"}
       /\ requests[n].body \in Bodies \cup {None}
       /\ requests[n].pc \in Running \cup {"schema", "accepted"} =>
            requests[n].body # None

\* No handler reaches its first statement before the whole schema is there,
\* also when another one is still creating it, or has failed to.
SchemaFirst ==
  \A n \in Requests : requests[n].pc \in Running => tables = Tables

\* Who was told that a workspace is theirs keeps it: of two requests that
\* both found the id free, one is refused, and no later request, by
\* whomever, moves the workspace to another customer.
AcceptedKeepsOwner ==
  \A n \in Requests :
    requests[n].pc = "accepted" /\ requests[n].body.kind = "workspace"
    => LET row == workspaces[requests[n].body.workspace]
       IN row # None /\ Owns(requests[n].body, row)

\* A client that has synced holds the latest policyId until another policy is
\* issued, whatever requests its sync ran among. An edit that is issued under
\* the policyId that the client holds does not reach it.
SyncedHoldsLatest ==
  \A w \in fresh : policies[w] # None =>
    /\ held[w] # None
    /\ held[w].policyId = policies[w].policyId

\* No request waits for ever: once one is under way, a moment comes when every
\* request is answered, also when the creation of the schema that they wait
\* for fails.
Answered ==
  (\E n \in Requests : requests[n].pc \in Running \cup {"schema"})
  ~> \A n \in Requests : requests[n].pc \in Ended \cup {"unsent"}

====
