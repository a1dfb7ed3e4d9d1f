---- MODULE RegistryProofs ----
(***************************************************************************)
(* Proofs about the registry, for any number of requests, starts, tables,  *)
(* customers and workspaces: no statement runs before the schema is there, *)
(* who was told that a workspace is theirs keeps it, and a client that has *)
(* synced holds the latest policyId.                                       *)
(***************************************************************************)
EXTENDS Registry, TLAPS

Stage == Running \cup Ended \cup {"unsent", "schema"}
Handlers == [Requests -> [pc : Stage, body : Bodies \cup {None}]]
Rows == {Row(b) : b \in {b \in Bodies : b.kind = "workspace"}}

\* The types that an induction needs beside those of TypeOK.
Shape ==
  /\ requests \in Handlers
  /\ workspaces \in [Workspaces -> Rows \cup {None}]
  /\ policies \in [Workspaces -> Snapshots \cup {None}]
  /\ held \in [Workspaces -> Snapshots \cup {None}]
  /\ schema \in {"absent", "pending", "ready", "rejected"}
  /\ tables \subseteq Tables /\ starts \in 1..MaxStarts
  /\ \A n \in Requests :
       requests[n].pc \in Running \cup {"schema", "accepted"} =>
         requests[n].body # None

\* The promise is kept only by a schema that is complete.
SchemaInv ==
  /\ schema = "ready" => tables = Tables
  /\ SchemaFirst

\* Rows refer to rows that exist.
References ==
  /\ \A c \in customers : c[1] \in providers
  /\ \A w \in Workspaces : workspaces[w] # None =>
       <<workspaces[w].provider, workspaces[w].customer>> \in customers

\* What a handler knows of the registry at its next statement.
Knows(n) ==
  LET pc == requests[n].pc
      b == requests[n].body
  IN /\ pc \in {"customer?", "existing?", "owner?"} => b.kind = "workspace"
     /\ pc = "provider?" => b.kind \in {"customer", "workspace"}
     /\ pc = "read" => b.kind = "sync"
     /\ pc \in {"existing?", "write"} /\ b.kind = "workspace" =>
          <<b.provider, b.customer>> \in customers
     /\ pc = "write" /\ b.kind = "customer" => b.provider \in providers
     /\ pc = "owner?" => workspaces[b.workspace] # None
     /\ pc = "accepted" /\ b.kind = "workspace" =>
          /\ workspaces[b.workspace] # None
          /\ Owns(b, workspaces[b.workspace])

Inv ==
  /\ Shape /\ SchemaInv /\ References
  /\ \A n \in Requests : Knows(n)

----
(* Initial states, and the shape of the steps. *)

\* The invariant holds on every population that the control plane starts on.
LEMMA InitInv == Init => Inv
<1> SUFFICES ASSUME Init PROVE Inv
  OBVIOUS
<1>1. /\ schema = "absent" /\ starts = 1
      /\ workspaces = [w \in Workspaces |-> None]
      /\ requests = [n \in Requests |-> [pc |-> "unsent", body |-> None]]
  BY DEF Init
<1>2. PICK p \in Populations :
        /\ providers = p.providers /\ customers = p.customers
        /\ policies = [w \in Workspaces |-> p.snapshot]
        /\ held = [w \in Workspaces |-> p.snapshot]
        /\ tables = IF p.providers = {} THEN {} ELSE Tables
  BY DEF Init
<1>3. /\ \A c \in p.customers : c[1] \in p.providers
      /\ p.snapshot \in Snapshots \cup {None}
      /\ 1 \in 1..MaxStarts
  BY RegistryAssumption
<1>4. Shape
  BY <1>1, <1>2, <1>3 DEF Shape, Handlers, Stage, Running, Ended
<1>5. SchemaInv /\ References
  BY <1>1, <1>2, <1>3 DEF SchemaInv, SchemaFirst, References, Running
<1>6. \A n \in Requests : Knows(n)
  BY <1>1 DEF Knows
<1>7. QED
  BY <1>4, <1>5, <1>6 DEF Inv

\* A handler that goes on keeps its body, and the others stay where they are.
LEMMA GotoStep ==
  ASSUME requests \in Handlers, NEW n \in Requests, NEW pc \in Stage, Goto(n, pc)
  PROVE  /\ requests' \in Handlers
         /\ requests'[n].pc = pc /\ requests'[n].body = requests[n].body
         /\ \A m \in Requests \ {n} : requests'[m] = requests[m]
BY DEF Goto, Handlers

\* The first statement of a handler.
LEMMA FirstStatement ==
  ASSUME NEW b \in Bodies
  PROVE  /\ First(b.kind) \in Running
         /\ First(b.kind) = "read" => b.kind = "sync"
         /\ First(b.kind) = "provider?" => b.kind \in {"customer", "workspace"}
         /\ First(b.kind) = "write" => b.kind \notin {"customer", "workspace"}
         /\ First(b.kind) \in {"read", "provider?", "write"}
BY BodiesAssumption DEF First, Kinds, Running

\* The steps that a handler makes by going on to another statement.
GoesOn(n) ==
  \/ EnsureReady(n) \/ Fail(n) \/ SaveProvider(n) \/ FindProvider(n)
  \/ SaveCustomer(n) \/ FindCustomer(n) \/ FindExisting(n) \/ SaveWorkspace(n)
  \/ ConfirmWorkspace(n) \/ IssuePolicy(n) \/ SyncPolicy(n)

\* Where it goes to, and that only EnsureReady takes it to its first statement.
LEMMA GoesOnStep ==
  ASSUME Inv, NEW n \in Requests, GoesOn(n)
  PROVE  /\ \E pc \in Running \cup Ended : Goto(n, pc)
         /\ requests[n].pc \in Running \/ EnsureReady(n)
         /\ requests[n].body \in Bodies
         /\ UNCHANGED <<schema, tables, starts>>
<1> USE DEF Running, Ended
<1>1. requests[n].pc \in Running \cup {"schema"}
  BY DEF GoesOn, EnsureReady, Fail, SaveProvider, FindProvider, SaveCustomer,
         FindCustomer, FindExisting, SaveWorkspace, ConfirmWorkspace,
         IssuePolicy, SyncPolicy
<1>2. requests[n].body \in Bodies
  BY <1>1 DEF Inv, Shape, Handlers
<1>3. UNCHANGED <<schema, tables, starts>>
  BY DEF GoesOn, EnsureReady, Fail, SaveProvider, FindProvider, SaveCustomer,
         FindCustomer, FindExisting, SaveWorkspace, ConfirmWorkspace,
         IssuePolicy, SyncPolicy
<1>4. CASE EnsureReady(n)
  BY <1>2, <1>3, <1>4, FirstStatement DEF EnsureReady
<1>5. CASE SaveProvider(n) \/ SaveCustomer(n)
  BY <1>2, <1>3, <1>5 DEF SaveProvider, SaveCustomer, ReadBack
<1>6. CASE FindProvider(n) \/ FindCustomer(n) \/ FindExisting(n) \/ Fail(n)
  BY <1>2, <1>3, <1>6 DEF FindProvider, FindCustomer, FindExisting, Fail
<1>7. CASE SaveWorkspace(n) \/ ConfirmWorkspace(n) \/ IssuePolicy(n) \/ SyncPolicy(n)
  BY <1>2, <1>3, <1>7
     DEF SaveWorkspace, ConfirmWorkspace, IssuePolicy, SyncPolicy
<1>8. QED
  BY <1>4, <1>5, <1>6, <1>7 DEF GoesOn

----
(* What the steps do to the registry. *)

\* An upsert of a request that is known to be well formed gives a row, and
\* never one of another owner than the row it replaces.
LEMMA UpsertedRow ==
  ASSUME NEW b \in Bodies, b.kind = "workspace", NEW row \in Rows \cup {None}
  PROVE  /\ Upserted(row, b) \in Rows
         /\ row # None => /\ Upserted(row, b).provider = row.provider
                          /\ Upserted(row, b).customer = row.customer
         /\ row = None => /\ Upserted(row, b).provider = b.provider
                          /\ Upserted(row, b).customer = b.customer
         /\ Owns(b, Upserted(row, b)) \/ Upserted(row, b) = row
BY DEF Upserted, Rows, Row, Owns

\* No row is None, and each has a status.
LEMMA RowIsPresent == \A row \in Rows : row # None /\ row.status \in Statuses
BY BodiesAssumption DEF Rows, Row

\* Workspaces are among those that requests name.
LEMMA KnownWorkspaces ==
  /\ \A b \in Bodies : b.kind \in {"workspace", "sync"} => b.workspace \in Workspaces
  /\ \A s \in Snapshots : s.workspace \in Workspaces
BY DEF Workspaces

\* SaveWorkspace replaces the row of the workspace of its request.
LEMMA SaveWorkspaceStep ==
  ASSUME Inv, NEW n \in Requests, SaveWorkspace(n)
  PROVE  LET b == requests[n].body
             row == workspaces[b.workspace]
         IN /\ b \in Bodies /\ b.kind = "workspace"
            /\ b.workspace \in Workspaces /\ row \in Rows \cup {None}
            /\ <<b.provider, b.customer>> \in customers
            /\ workspaces' \in [Workspaces -> Rows \cup {None}]
            /\ workspaces'[b.workspace] = Upserted(row, b)
            /\ \A w \in Workspaces \ {b.workspace} : workspaces'[w] = workspaces[w]
<1> DEFINE b == requests[n].body
<1>1. b \in Bodies /\ b.kind = "workspace"
  BY GoesOnStep DEF GoesOn, SaveWorkspace
<1>2. b.workspace \in Workspaces /\ workspaces \in [Workspaces -> Rows \cup {None}]
  BY <1>1, KnownWorkspaces DEF Inv, Shape
<1>3. <<b.provider, b.customer>> \in customers
  BY DEF Inv, Knows, SaveWorkspace
<1>4. Upserted(workspaces[b.workspace], b) \in Rows
  BY <1>1, <1>2, UpsertedRow
<1>5. workspaces' =
        [workspaces EXCEPT ![b.workspace] = Upserted(workspaces[b.workspace], b)]
  BY DEF SaveWorkspace
<1>6. QED
  BY <1>1, <1>2, <1>3, <1>4, <1>5

\* Providers and customers stay, and so do workspaces with their owners.
LEMMA RegistryGrows ==
  ASSUME Inv, [Next]_vars
  PROVE  /\ providers \subseteq providers' /\ customers \subseteq customers'
         /\ \A w \in Workspaces : workspaces[w] # None =>
              /\ workspaces'[w] # None
              /\ workspaces'[w].provider = workspaces[w].provider
              /\ workspaces'[w].customer = workspaces[w].customer
<1>1. ASSUME NEW n \in Requests, SaveWorkspace(n)
      PROVE  /\ UNCHANGED <<providers, customers>>
             /\ \A w \in Workspaces : workspaces[w] # None =>
                  /\ workspaces'[w] # None
                  /\ workspaces'[w].provider = workspaces[w].provider
                  /\ workspaces'[w].customer = workspaces[w].customer
  <2> DEFINE b == requests[n].body
             row == workspaces[b.workspace]
  <2>1. /\ b \in Bodies /\ b.kind = "workspace" /\ row \in Rows \cup {None}
        /\ workspaces'[b.workspace] = Upserted(row, b)
        /\ \A w \in Workspaces \ {b.workspace} : workspaces'[w] = workspaces[w]
    BY <1>1, SaveWorkspaceStep
  <2>2. UNCHANGED <<providers, customers>>
    BY <1>1 DEF SaveWorkspace
  <2>3. /\ Upserted(row, b) # None
        /\ row # None => /\ Upserted(row, b).provider = row.provider
                         /\ Upserted(row, b).customer = row.customer
    BY <2>1, UpsertedRow, RowIsPresent
  <2> HIDE DEF b
  <2>4. QED
    BY <2>1, <2>2, <2>3
<1>2. ASSUME NEW n \in Requests, SaveProvider(n) \/ SaveCustomer(n)
      PROVE  /\ providers \subseteq providers' /\ customers \subseteq customers'
             /\ UNCHANGED workspaces
  BY <1>2 DEF SaveProvider, SaveCustomer
<1>3. CASE UNCHANGED registry
  BY <1>3 DEF registry
<1>4. UNCHANGED registry
      \/ \E n \in Requests : SaveWorkspace(n) \/ SaveProvider(n) \/ SaveCustomer(n)
  BY DEF Next, vars, CreateTable, SchemaFails, Restart, Arrive, StartSchema,
         EnsureReady, Fail, FindProvider, FindCustomer, FindExisting,
         ConfirmWorkspace, IssuePolicy, SyncPolicy
<1>5. QED
  BY <1>1, <1>2, <1>3, <1>4

----
(* Every step keeps the invariant. *)

\* The steps that are not those of a handler that goes on.
LEMMA StepCases ==
  [Next]_vars =>
    \/ \E n \in Requests : GoesOn(n) \/ Arrive(n) \/ StartSchema(n)
    \/ CreateTable \/ SchemaFails \/ Restart
    \/ UNCHANGED vars
BY DEF Next, GoesOn

\* What a handler may write, and what the others leave alone.
LEMMA PoliciesStep ==
  ASSUME Inv, [Next]_vars
  PROVE  /\ workspaces' \in [Workspaces -> Rows \cup {None}]
         /\ policies' \in [Workspaces -> Snapshots \cup {None}]
         /\ held' \in [Workspaces -> Snapshots \cup {None}]
<1>1. /\ workspaces \in [Workspaces -> Rows \cup {None}]
      /\ policies \in [Workspaces -> Snapshots \cup {None}]
      /\ held \in [Workspaces -> Snapshots \cup {None}]
  BY DEF Inv, Shape
<1>2. ASSUME NEW n \in Requests, IssuePolicy(n)
      PROVE  policies' \in [Workspaces -> Snapshots \cup {None}]
  <2>1. requests[n].body \in Bodies /\ requests[n].body.kind = "issue"
    BY <1>2, GoesOnStep DEF GoesOn, IssuePolicy
  <2>2. requests[n].body.snapshot \in Snapshots
    BY <2>1, BodiesAssumption
  <2>3. QED
    BY <1>1, <1>2, <2>2 DEF IssuePolicy
<1>3. ASSUME NEW n \in Requests, SyncPolicy(n)
      PROVE  held' \in [Workspaces -> Snapshots \cup {None}]
  <2>1. requests[n].body \in Bodies /\ requests[n].body.kind = "sync"
    BY <1>3, GoesOnStep DEF GoesOn, SyncPolicy, Inv, Knows
  <2>2. requests[n].body.workspace \in Workspaces
    BY <2>1, KnownWorkspaces
  <2>3. QED
    BY <1>1, <1>3, <2>2 DEF SyncPolicy
<1>4. UNCHANGED workspaces \/ \E n \in Requests : SaveWorkspace(n)
  BY DEF Next, vars, registry, CreateTable, SchemaFails, Restart, Arrive,
         StartSchema, EnsureReady, Fail, SaveProvider, FindProvider, SaveCustomer,
         FindCustomer, FindExisting, ConfirmWorkspace, IssuePolicy, SyncPolicy
<1>5. UNCHANGED policies \/ \E n \in Requests : IssuePolicy(n)
  BY DEF Next, vars, CreateTable, SchemaFails, Restart, Arrive,
         StartSchema, EnsureReady, Fail, SaveProvider, FindProvider, SaveCustomer,
         FindCustomer, FindExisting, SaveWorkspace, ConfirmWorkspace, SyncPolicy
<1>6. UNCHANGED held \/ \E n \in Requests : SyncPolicy(n)
  BY DEF Next, vars, CreateTable, SchemaFails, Restart, Arrive,
         StartSchema, EnsureReady, Fail, SaveProvider, FindProvider, SaveCustomer,
         FindCustomer, FindExisting, SaveWorkspace, ConfirmWorkspace, IssuePolicy
<1>7. QED
  BY <1>1, <1>2, <1>3, <1>4, <1>5, <1>6, SaveWorkspaceStep

\* The requests and the schema keep their types, and no statement runs before
\* the schema is there.
LEMMA RequestsStep ==
  ASSUME Inv, [Next]_vars
  PROVE  Shape' /\ SchemaInv'
<1> DEFINE Part ==
      /\ requests \in Handlers
      /\ schema \in {"absent", "pending", "ready", "rejected"}
      /\ tables \subseteq Tables /\ starts \in 1..MaxStarts
      /\ \A n \in Requests :
           requests[n].pc \in Running \cup {"schema", "accepted"} =>
             requests[n].body # None
<1>0. Part /\ SchemaInv
  BY DEF Inv, Shape
<1>1. ASSUME NEW n \in Requests, GoesOn(n) PROVE Part' /\ SchemaInv'
  <2>1. PICK pc \in Running \cup Ended : Goto(n, pc)
    BY <1>1, GoesOnStep
  <2>2. /\ requests' \in Handlers
        /\ requests'[n].pc = pc /\ requests'[n].body = requests[n].body
        /\ \A m \in Requests \ {n} : requests'[m] = requests[m]
    BY <1>0, <2>1, GotoStep DEF Stage
  <2>3. requests[n].body # None /\ UNCHANGED <<schema, tables, starts>>
    BY <1>1, GoesOnStep, BodiesAssumption
  <2>4. pc \in Running => tables = Tables
    <3>1. CASE requests[n].pc \in Running
      BY <1>0, <3>1 DEF SchemaInv, SchemaFirst
    <3>2. CASE EnsureReady(n)
      BY <1>0, <2>2, <3>2 DEF EnsureReady, Settled, Rejected, SchemaInv, Goto,
                              Handlers, Running
    <3>3. QED
      BY <1>1, <3>1, <3>2, GoesOnStep
  <2>5. QED
    BY <1>0, <2>2, <2>3, <2>4 DEF SchemaInv, SchemaFirst
<1>2. ASSUME NEW n \in Requests, Arrive(n) PROVE Part' /\ SchemaInv'
  <2>1. UNCHANGED <<schema, tables, starts>>
    BY <1>2 DEF Arrive
  <2>2. PICK b \in Bodies : requests' = [requests EXCEPT ![n] =
            IF Authorized(b) /\ b.wellFormed THEN [pc |-> "schema", body |-> b]
            ELSE [pc |-> "refused", body |-> None]]
    BY <1>2 DEF Arrive
  <2>3. b # None
    BY BodiesAssumption
  <2>4. QED
    BY <1>0, <2>1, <2>2, <2>3
       DEF Handlers, Stage, Running, Ended, SchemaInv, SchemaFirst
<1>3. ASSUME NEW n \in Requests, StartSchema(n) PROVE Part' /\ SchemaInv'
  BY <1>0, <1>3 DEF StartSchema, SchemaInv, SchemaFirst
<1>4. ASSUME CreateTable PROVE Part' /\ SchemaInv'
  BY <1>0, <1>4 DEF CreateTable, SchemaInv, SchemaFirst
<1>5. ASSUME SchemaFails PROVE Part' /\ SchemaInv'
  BY <1>0, <1>5 DEF SchemaFails, SchemaInv, SchemaFirst
<1>6. ASSUME Restart PROVE Part' /\ SchemaInv'
  <2>1. requests' \in Handlers
    BY <1>0, <1>6 DEF Restart, Handlers, Stage, Ended
  <2>2. \A n \in Requests :
          /\ requests'[n].pc \notin Running \cup {"schema"}
          /\ requests'[n].pc = "accepted" => requests'[n] = requests[n]
    BY <1>0, <1>6 DEF Restart, Handlers, Running
  <2>3. /\ starts' \in 1..MaxStarts
        /\ schema' = "absent" /\ tables' = tables
    BY <1>0, <1>6, RegistryAssumption DEF Restart
  <2>4. QED
    BY <1>0, <2>1, <2>2, <2>3 DEF SchemaInv, SchemaFirst
<1>7. ASSUME UNCHANGED vars PROVE Part' /\ SchemaInv'
  BY <1>0, <1>7 DEF vars, SchemaInv, SchemaFirst
<1>8. Part' /\ SchemaInv'
  BY <1>1, <1>2, <1>3, <1>4, <1>5, <1>6, <1>7, StepCases
<1>9. QED
  BY <1>8, PoliciesStep DEF Shape

\* Rows go on referring to rows that exist.
LEMMA ReferencesStep ==
  ASSUME Inv, [Next]_vars
  PROVE  References'
<1>0. References
  BY DEF Inv
<1>1. ASSUME NEW n \in Requests, SaveWorkspace(n) PROVE References'
  <2> DEFINE b == requests[n].body
             row == workspaces[b.workspace]
  <2>1. /\ b \in Bodies /\ b.kind = "workspace" /\ row \in Rows \cup {None}
        /\ b.workspace \in Workspaces
        /\ <<b.provider, b.customer>> \in customers
        /\ workspaces'[b.workspace] = Upserted(row, b)
        /\ \A w \in Workspaces \ {b.workspace} : workspaces'[w] = workspaces[w]
    BY <1>1, SaveWorkspaceStep
  <2>2. UNCHANGED <<providers, customers>>
    BY <1>1 DEF SaveWorkspace
  <2>3. <<Upserted(row, b).provider, Upserted(row, b).customer>> \in customers
    BY <1>0, <2>1, UpsertedRow DEF References
  <2> HIDE DEF b
  <2>4. QED
    BY <1>0, <2>1, <2>2, <2>3 DEF References
<1>2. ASSUME NEW n \in Requests, SaveProvider(n) PROVE References'
  BY <1>0, <1>2 DEF SaveProvider, References
<1>3. ASSUME NEW n \in Requests, SaveCustomer(n) PROVE References'
  <2>1. requests[n].body.provider \in providers
    BY <1>3 DEF SaveCustomer, Inv, Knows
  <2>2. QED
    BY <1>0, <1>3, <2>1 DEF SaveCustomer, References
<1>4. CASE UNCHANGED registry
  BY <1>0, <1>4 DEF registry, References
<1>5. QED
  BY <1>1, <1>2, <1>3, <1>4 DEF Next, vars, registry, CreateTable, SchemaFails,
     Restart, Arrive, StartSchema, EnsureReady, Fail, FindProvider, FindCustomer,
     FindExisting, ConfirmWorkspace, IssuePolicy, SyncPolicy

\* What a handler knows stays true, and it knows what it has just read.
LEMMA KnowsStep ==
  ASSUME Inv, [Next]_vars, NEW m \in Requests
  PROVE  Knows(m)'
<1>0. Knows(m) /\ requests \in Handlers /\ requests[m].body \in Bodies \cup {None}
  BY DEF Inv, Shape, Handlers
<1>1. ASSUME requests'[m] = requests[m] PROVE Knows(m)'
  <2> DEFINE b == requests[m].body
             pc == requests[m].pc
  <2>1. providers \subseteq providers' /\ customers \subseteq customers'
    BY RegistryGrows
  <2>2. pc \in {"owner?", "accepted"} => b # None
    BY DEF Inv, Shape, Running
  <2>3. ASSUME b \in Bodies, b.kind = "workspace", workspaces[b.workspace] # None
        PROVE  /\ workspaces'[b.workspace] # None
               /\ workspaces'[b.workspace].provider = workspaces[b.workspace].provider
               /\ workspaces'[b.workspace].customer = workspaces[b.workspace].customer
    BY <2>3, KnownWorkspaces, RegistryGrows
  <2>4. /\ pc = "owner?" => workspaces'[b.workspace] # None
        /\ pc = "accepted" /\ b.kind = "workspace" =>
             /\ workspaces'[b.workspace] # None
             /\ Owns(b, workspaces'[b.workspace])
    BY <1>0, <2>2, <2>3 DEF Knows, Owns
  <2>5. QED
    BY <1>0, <1>1, <2>1, <2>4 DEF Knows
<1>2. CASE EnsureReady(m)
  <2> DEFINE b == requests[m].body
  <2>1. b \in Bodies
    BY <1>2, GoesOnStep DEF GoesOn
  <2>2. Goto(m, First(b.kind)) \/ Goto(m, "failed")
    BY <1>2 DEF EnsureReady
  <2>3. First(b.kind) \in Stage /\ "failed" \in Stage
    BY <2>1, FirstStatement DEF Stage, Ended
  <2>4. /\ requests'[m].pc \in {First(b.kind), "failed"}
        /\ requests'[m].body = b
    BY <1>0, <2>2, <2>3, GotoStep
  <2> HIDE DEF b
  <2>5. QED
    BY <2>1, <2>4, FirstStatement DEF Knows
<1>3. CASE Fail(m)
  <2>1. requests'[m].pc = "failed"
    BY <1>0, <1>3 DEF Fail, Goto, Handlers
  <2>2. QED
    BY <2>1 DEF Knows
<1>4. CASE SaveProvider(m) \/ SaveCustomer(m)
  <2>1. /\ requests[m].body.kind \in {"provider", "customer"}
        /\ requests'[m].pc \in {"accepted", "failed"}
        /\ requests'[m].body = requests[m].body
    BY <1>0, <1>4 DEF SaveProvider, SaveCustomer, ReadBack, Goto, Handlers
  <2>2. QED
    BY <2>1 DEF Knows
<1>5. CASE FindProvider(m)
  <2>1. /\ requests'[m].body = requests[m].body /\ UNCHANGED providers
        /\ requests[m].body.kind \in {"customer", "workspace"}
        /\ requests'[m].pc = IF ~ProviderExists(requests[m].body) THEN "refused"
             ELSE IF requests[m].body.kind = "customer" THEN "write"
             ELSE "customer?"
    BY <1>0, <1>5 DEF FindProvider, Goto, Handlers, registry, Knows
  <2>2. QED
    BY <2>1 DEF Knows, ProviderExists
<1>6. CASE FindCustomer(m)
  <2>1. /\ requests'[m].body = requests[m].body /\ UNCHANGED customers
        /\ requests[m].body.kind = "workspace"
        /\ requests'[m].pc =
             IF <<requests[m].body.provider, requests[m].body.customer>> \in customers
             THEN "existing?" ELSE "refused"
    BY <1>0, <1>6 DEF FindCustomer, Goto, Handlers, registry, Knows
  <2>2. QED
    BY <2>1 DEF Knows
<1>7. CASE FindExisting(m)
  <2>1. /\ requests'[m].body = requests[m].body /\ UNCHANGED customers
        /\ requests[m].body.kind = "workspace"
        /\ <<requests[m].body.provider, requests[m].body.customer>> \in customers
        /\ requests'[m].pc \in {"refused", "write"}
    BY <1>0, <1>7 DEF FindExisting, Goto, Handlers, registry, Knows
  <2>2. QED
    BY <2>1 DEF Knows
<1>8. CASE SaveWorkspace(m)
  <2> DEFINE b == requests[m].body
             row == workspaces[b.workspace]
  <2>1. /\ b \in Bodies /\ b.kind = "workspace" /\ row \in Rows \cup {None}
        /\ workspaces'[b.workspace] = Upserted(row, b)
    BY <1>8, SaveWorkspaceStep
  <2>2. Upserted(row, b) # None
    BY <2>1, UpsertedRow, RowIsPresent
  <2>3. requests'[m].pc = "owner?" /\ requests'[m].body = b
    BY <1>0, <1>8 DEF SaveWorkspace, Goto, Handlers
  <2> HIDE DEF b
  <2>4. QED
    BY <2>1, <2>2, <2>3 DEF Knows
<1>9. CASE ConfirmWorkspace(m)
  <2>1. /\ requests'[m].body = requests[m].body /\ UNCHANGED workspaces
        /\ workspaces[requests[m].body.workspace] # None
        /\ requests'[m].pc =
             IF Owns(requests[m].body, workspaces[requests[m].body.workspace])
             THEN "accepted" ELSE "refused"
    BY <1>0, <1>9 DEF ConfirmWorkspace, Goto, Handlers, registry, Knows
  <2>2. QED
    BY <2>1 DEF Knows
<1>10. CASE IssuePolicy(m) \/ SyncPolicy(m)
  <2>1. /\ requests'[m].body = requests[m].body
        /\ requests[m].body.kind \in {"issue", "sync"}
        /\ requests'[m].pc = "accepted"
    BY <1>0, <1>10 DEF IssuePolicy, SyncPolicy, Goto, Handlers, Knows
  <2>2. QED
    BY <2>1 DEF Knows
<1>11. ASSUME NEW n \in Requests, n # m, GoesOn(n) \/ Arrive(n)
       PROVE  requests'[m] = requests[m]
  <2>1. CASE GoesOn(n)
    BY <1>0, <1>11, <2>1, GoesOnStep, GotoStep DEF Stage
  <2>2. CASE Arrive(n)
    BY <1>0, <1>11, <2>2 DEF Arrive, Handlers
  <2>3. QED
    BY <1>11, <2>1, <2>2
<1>12. CASE Arrive(m)
  <2>1. requests'[m].pc \in {"schema", "refused"}
    BY <1>0, <1>12 DEF Arrive, Handlers
  <2>2. QED
    BY <2>1 DEF Knows
<1>13. CASE Restart
  <2>1. requests'[m] = requests[m] \/ requests'[m].pc = "failed"
    BY <1>0, <1>13 DEF Restart, Handlers
  <2>2. requests'[m].pc = "failed" => Knows(m)'
    BY DEF Knows
  <2>3. QED
    BY <1>1, <2>1, <2>2
<1>14. CASE UNCHANGED requests
  BY <1>1, <1>14
<1>15. GoesOn(m) => Knows(m)'
  BY <1>2, <1>3, <1>4, <1>5, <1>6, <1>7, <1>8, <1>9, <1>10 DEF GoesOn
<1>16. (\E n \in Requests : StartSchema(n)) \/ CreateTable \/ SchemaFails
         \/ UNCHANGED vars => UNCHANGED requests
  BY DEF StartSchema, CreateTable, SchemaFails, vars
<1>17. QED
  BY <1>1, <1>11, <1>12, <1>13, <1>14, <1>15, <1>16, StepCases

\* The induction step.
LEMMA InvStep == Inv /\ [Next]_vars => Inv'
<1> SUFFICES ASSUME Inv, [Next]_vars PROVE Inv'
  OBVIOUS
<1>1. Shape' /\ SchemaInv' /\ References'
  BY RequestsStep, ReferencesStep
<1>2. \A n \in Requests : Knows(n)'
  BY KnowsStep
<1>3. QED
  BY <1>1, <1>2 DEF Inv

\* The invariant holds in every state.
LEMMA Invariance == Spec => []Inv
BY InitInv, InvStep, PTL DEF Spec

----
(* The theorems. *)

\* Every variable keeps its type, and rows refer to rows that exist.
THEOREM Typed == Spec => []TypeOK
<1>1. ASSUME Inv PROVE TypeOK
  <2>1. Shape /\ References
    BY <1>1 DEF Inv
  <2>2. \A w \in Workspaces : workspaces[w] # None => workspaces[w].status \in Statuses
    BY <2>1, RowIsPresent DEF Shape
  <2>3. \A n \in Requests :
          requests[n].pc \in Stage /\ requests[n].body \in Bodies \cup {None}
    BY <2>1 DEF Shape, Handlers
  <2>4. QED
    BY <2>1, <2>2, <2>3 DEF TypeOK, Shape, References, Stage
<1>2. QED
  BY <1>1, Invariance, PTL

\* No handler reaches its first statement before the whole schema is there,
\* whatever process began to create it, and wherever that failed.
THEOREM SchemaComesFirst == Spec => []SchemaFirst
<1>1. Inv => SchemaFirst
  BY DEF Inv, SchemaInv
<1>2. QED
  BY <1>1, Invariance, PTL

\* Who was told that a workspace is theirs keeps it, however many requests
\* for the same id interleave, fail or are repeated.
THEOREM OwnerIsKept == Spec => []AcceptedKeepsOwner
<1>1. Inv => AcceptedKeepsOwner
  BY DEF Inv, Knows, AcceptedKeepsOwner
<1>2. QED
  BY <1>1, Invariance, PTL

\* A client that has synced holds the latest policyId until another policy is
\* issued, for any number of clients, policies and restarts.
THEOREM SyncedIsLatest == Spec => []SyncedHoldsLatest
<1> DEFINE Fresh == fresh \subseteq Workspaces /\ SyncedHoldsLatest
<1>1. Init => Fresh
  BY DEF Init, SyncedHoldsLatest
<1>2. Inv /\ Fresh /\ [Next]_vars => Fresh'
  <2> SUFFICES ASSUME Inv, Fresh, [Next]_vars PROVE Fresh'
    OBVIOUS
  <2>1. /\ policies \in [Workspaces -> Snapshots \cup {None}]
        /\ held \in [Workspaces -> Snapshots \cup {None}]
    BY DEF Inv, Shape
  <2>2. ASSUME NEW n \in Requests, IssuePolicy(n) PROVE Fresh'
    <3> DEFINE s == requests[n].body.snapshot
    <3>1. /\ policies' = [policies EXCEPT ![s.workspace] = s]
          /\ fresh' = fresh \ {s.workspace} /\ held' = held
      BY <2>2 DEF IssuePolicy
    <3> HIDE DEF s
    <3>2. QED
      BY <2>1, <3>1 DEF SyncedHoldsLatest
  <2>3. ASSUME NEW n \in Requests, SyncPolicy(n) PROVE Fresh'
    <3> DEFINE w == requests[n].body.workspace
    <3>1. requests[n].body \in Bodies /\ requests[n].body.kind = "sync"
      BY <2>3, GoesOnStep DEF GoesOn, SyncPolicy, Inv, Knows
    <3>2. w \in Workspaces
      BY <3>1, KnownWorkspaces
    <3>3. /\ held' = [held EXCEPT ![w] =
               IF NotModified(held[w], policies[w]) THEN held[w] ELSE policies[w]]
          /\ fresh' = fresh \cup {w} /\ policies' = policies
      BY <2>3 DEF SyncPolicy
    <3> HIDE DEF w
    <3>4. policies[w] # None =>
            held'[w] # None /\ held'[w].policyId = policies[w].policyId
      BY <2>1, <3>2, <3>3 DEF NotModified
    <3>5. QED
      BY <2>1, <3>2, <3>3, <3>4 DEF SyncedHoldsLatest
  <2>4. CASE UNCHANGED <<policies, held, fresh>>
    BY <2>4 DEF SyncedHoldsLatest
  <2>5. UNCHANGED <<policies, held, fresh>>
        \/ \E n \in Requests : IssuePolicy(n) \/ SyncPolicy(n)
    BY DEF Next, vars, CreateTable, SchemaFails, Restart, Arrive, StartSchema,
           EnsureReady, Fail, SaveProvider, FindProvider, SaveCustomer,
           FindCustomer, FindExisting, SaveWorkspace, ConfirmWorkspace
  <2>6. QED
    BY <2>2, <2>3, <2>4, <2>5
<1>3. Fresh => SyncedHoldsLatest
  OBVIOUS
<1> HIDE DEF Fresh
<1>4. QED
  BY <1>1, <1>2, <1>3, Invariance, PTL DEF Spec

====
