---- MODULE TimeTrust ----
(***************************************************************************)
(* How a runtime decides that it may trust the time: the lease, the token  *)
(* of a time stamping authority (TSA) and, when the token is too old, the  *)
(* manual attestation of an operator (runtime/src/index.js), which the     *)
(* license server keeps and hands out with a lease (routes.js, tsa,        *)
(* protocol/src/index.js, storage-contract.js).                            *)
(*                                                                         *)
(* There is one runtime, of the holder Holder (a customer and a seat), and *)
(* one server, each with its own clock; attestations are recorded for any  *)
(* holder, by handlers (Desks) that interleave. The lease counter is the   *)
(* subject of LeaseServer.                                                 *)
(*                                                                         *)
(* The runtime comes in two forms: an embedder that passes what it knows   *)
(* about the time to the library (Runs), as docs/runbooks/tsa-outage.md    *)
(* has it, and the server.mjs of a bundle, which passes nothing (Serves).  *)
(***************************************************************************)
EXTENDS Integers, Sequences, FiniteSets

CONSTANTS
  Holder,         \* the customer and seat of the runtime
  Attestable,     \* holders and tickets that operators attest, as pairs
  Desks,          \* requests to attest that may be under way at a time
  Tickets,        \* tickets that the runtime's lease may be issued under
  MaxTokenAge,    \* evaluateTsaTokenFreshness: maxTokenAgeSec
  WarningWindow,  \* evaluateTsaTokenFreshness: warningWindowSec
  MaxManualAge,   \* maxManualAttestationAgeSec
  Ttl, GraceSec,  \* of a lease
  MaxDrift,       \* bound on the difference between the clocks
  MaxSlip,        \* bound on the distance of an attested time from the clock
  MaxTime,        \* bound on the clocks
  MaxRecords,     \* bound on the attestations
  None            \* an absent value

ASSUME TimeTrustAssumption ==
  /\ MaxTokenAge \in Nat \ {0} /\ WarningWindow \in Nat
  /\ MaxManualAge \in Nat \ {0} /\ Ttl \in Nat \ {0} /\ GraceSec \in Nat
  /\ MaxDrift \in Nat /\ MaxSlip \in Nat /\ MaxTime \in Nat \ {0}
  /\ MaxRecords \in Nat

\* `seen' is history: the number of records on file when the time was taken.
Record == [holder : {k[1] : k \in Attestable}, ticket : {k[2] : k \in Attestable},
           attestedAtSec : 1..(MaxTime + MaxSlip), recordedAtSec : 1..MaxTime,
           seen : Nat]

\* A request for a lease, and a lease with its TSA policy.
Request == [iat : Nat, last : Nat \cup {None}, ticket : Tickets \cup {None}]
Lease == [iat : Nat, last : Nat \cup {None}, ticket : Tickets \cup {None},
          known : Nat, manualAttestation : Record \cup {None}]

ASSUME NoneAssumption ==
  /\ None \notin Nat /\ None \notin Tickets
  /\ None \notin Record /\ None \notin Request /\ None \notin Lease

VARIABLES
  serverSec,   \* clock of the server; the TSA has the same
  runtimeSec,  \* clock of the runtime
  lastTsaTokenAtSec,  \* time of the newest TSA token the client has, or None
  filing,      \* the record that a desk has yet to insert, or None
  records,     \* manual_attestations, in the order of their ids
  issuing,     \* the request for a lease under way, or None
  lease        \* the lease the runtime holds with its TSA policy, or None

vars == <<serverSec, runtimeSec, lastTsaTokenAtSec, filing, records, issuing, lease>>

Accepted == {"active", "grace"}
Refused == {"past_grace", "attestation_required", "from_future", "stale",
            "attestation_expired"}

----
(***************************************************************************)
(* Clocks and tokens. Neither clock goes back; they differ by MaxDrift.    *)
(***************************************************************************)

TickServer ==
  /\ serverSec < MaxTime /\ serverSec - runtimeSec < MaxDrift
  /\ serverSec' = serverSec + 1
  /\ UNCHANGED <<runtimeSec, lastTsaTokenAtSec, filing, records, issuing, lease>>

TickRuntime ==
  /\ runtimeSec < MaxTime /\ runtimeSec - serverSec < MaxDrift
  /\ runtimeSec' = runtimeSec + 1
  /\ UNCHANGED <<serverSec, lastTsaTokenAtSec, filing, records, issuing, lease>>

\* The client of the runtime obtains a token of the TSA.
ObtainToken ==
  /\ lastTsaTokenAtSec' = serverSec
  /\ UNCHANGED <<serverSec, runtimeSec, filing, records, issuing, lease>>

\* evaluateTsaTokenFreshness.
Freshness(last, nowSec) ==
  LET expiresInSec == MaxTokenAge - (nowSec - last)
  IN IF expiresInSec <= 0 THEN "expired"
     ELSE IF expiresInSec <= WarningWindow THEN "warning" ELSE "fresh"

----
(***************************************************************************)
(* The server: manualAttest and issueLease, with awaits between their      *)
(* statements.                                                             *)
(***************************************************************************)

\* Mutant: a record is filed under the attested time.
CreateRecord_Attested(k, attestedAtSec) ==
  [holder |-> k[1], ticket |-> k[2], attestedAtSec |-> attestedAtSec,
   recordedAtSec |-> attestedAtSec, seen |-> Len(records)]

\* createRecord: the server adds the time of recording.
CreateRecord(k, attestedAtSec) ==
  [holder |-> k[1], ticket |-> k[2], attestedAtSec |-> attestedAtSec,
   recordedAtSec |-> serverSec, seen |-> Len(records)]

\* validateManualTimeAttestation.
ValidAttestation(attestedAtSec) == attestedAtSec > 0

\* A desk takes what an operator attests, for a holder and under a ticket, and
\* the time of recording. Nothing compares the attested time with the clock.
BeginAttest(d) ==
  /\ filing[d] = None
  /\ Len(records) + Cardinality({e \in Desks : filing[e] # None}) < MaxRecords
  /\ \E k \in Attestable, attestedAtSec \in (serverSec - MaxSlip)..(serverSec + MaxSlip) :
       /\ ValidAttestation(attestedAtSec)
       /\ filing' = [filing EXCEPT ![d] = CreateRecord(k, attestedAtSec)]
  /\ UNCHANGED <<serverSec, runtimeSec, lastTsaTokenAtSec, records, issuing, lease>>

\* addManualAttestation. Between the desks, records are inserted in any order,
\* so the ids need not follow the times of recording.
InsertAttestation(d) ==
  /\ filing[d] # None
  /\ records' = Append(records, filing[d])
  /\ filing' = [filing EXCEPT ![d] = None]
  /\ UNCHANGED <<serverSec, runtimeSec, lastTsaTokenAtSec, issuing, lease>>

\* The database fails, or the server ends.
AttestationFails(d) ==
  /\ filing[d] # None
  /\ filing' = [filing EXCEPT ![d] = None]
  /\ UNCHANGED <<serverSec, runtimeSec, lastTsaTokenAtSec, records, issuing, lease>>

\* Mutant: ORDER BY id DESC.
Later_Inserted(i, j) == i > j

\* ORDER BY recorded_at_sec DESC, id DESC.
Later(i, j) ==
  \/ records[i].recordedAtSec > records[j].recordedAtSec
  \/ records[i].recordedAtSec = records[j].recordedAtSec /\ i > j

Filed(ticket) ==
  {i \in 1..Len(records) :
     records[i].holder = Holder /\ records[i].ticket = ticket}

\* getLatestManualAttestation of the holder, under the ticket.
LatestManualAttestation(ticket) ==
  IF Filed(ticket) = {} THEN None
  ELSE records[CHOOSE i \in Filed(ticket) :
                 \A j \in Filed(ticket) \ {i} : Later(i, j)]

\* The request arrives; iat is the clock of the server, or the nowSec that the
\* client sends, and the lease is signed.
BeginIssue ==
  /\ issuing = None
  /\ \E iat \in {serverSec, runtimeSec}, ticket \in Tickets \cup {None} :
       issuing' = [iat |-> iat, ticket |-> ticket, last |-> lastTsaTokenAtSec]
  /\ UNCHANGED <<serverSec, runtimeSec, lastTsaTokenAtSec, filing, records, lease>>

\* Mutant: a lease carries the attestation once the token has expired.
Carries_Expired(status) == status = "expired"

\* Statuses with which a lease carries the attestation.
Carries(status) == status \in {"warning", "expired"}

\* The attestation that the answer has.
Carried(r) ==
  IF r.last # None /\ r.ticket # None /\ Carries(Freshness(r.last, r.iat))
  THEN LatestManualAttestation(r.ticket) ELSE None

\* buildTsaPolicyFromLeaseResponse: what the runtime keeps of the answer to r,
\* besides the lease. `known' is history: the number of records at the read.
TsaPolicy(r) ==
  [iat |-> r.iat, last |-> r.last, ticket |-> r.ticket,
   known |-> Len(records), manualAttestation |-> Carried(r)]

\* The attestation is read, and the runtime gets the lease.
EndIssue ==
  /\ issuing # None
  /\ lease' = TsaPolicy(issuing)
  /\ issuing' = None
  /\ UNCHANGED <<serverSec, runtimeSec, lastTsaTokenAtSec, filing, records>>

\* The answer is lost, or the database fails.
AbandonIssue ==
  /\ issuing # None
  /\ issuing' = None
  /\ UNCHANGED <<serverSec, runtimeSec, lastTsaTokenAtSec, filing, records, lease>>

----
(***************************************************************************)
(* The runtime. The check of a lease may be made at any moment and keeps   *)
(* nothing, so it is an operator.                                          *)
(***************************************************************************)

Exp(l) == l.iat + Ttl

LeaseMode(l) ==
  IF runtimeSec <= Exp(l) THEN "active"
  ELSE IF runtimeSec <= Exp(l) + GraceSec THEN "grace" ELSE "past_grace"

\* Whether the attestation stands in for the expired token.
Attested(l) ==
  LET r == l.manualAttestation
  IN IF r = None THEN "attestation_required"
     ELSE IF r.attestedAtSec > runtimeSec \/ r.recordedAtSec > runtimeSec
          THEN "from_future"
     ELSE IF r.attestedAtSec < l.last THEN "stale"
     ELSE IF runtimeSec - r.attestedAtSec > MaxManualAge
          THEN "attestation_expired"
     ELSE "trusted"

\* Whether the token has to be replaced by an attestation. Without the time
\* of a token the answer of the server has no tsaState, and nothing is asked.
NeedsAttestation(l) ==
  l.last # None /\ Freshness(l.last, runtimeSec) = "expired"

\* verifyLeaseForRuntime, given the policy on the time.
Verdict(l) ==
  IF LeaseMode(l) = "past_grace" THEN "past_grace"
  ELSE IF NeedsAttestation(l) /\ Attested(l) # "trusted" THEN Attested(l)
  ELSE LeaseMode(l)

\* executeWithRuntimeLease, with the policy of the lease, calls the skill.
Runs(l) == Verdict(l) \in Accepted

\* server.mjs starts and serves its tools: it gives verifyLeaseForRuntime no
\* policy on the time, so the token is not looked at. docs/runbooks/tsa-outage.md
\* says that the runtime calls it with the policy, and must reject execution
\* when the token is too old and no attestation is provided.
Serves(l) == LeaseMode(l) \in Accepted

----

Init ==
  /\ serverSec = 1 /\ runtimeSec = 1
  /\ lastTsaTokenAtSec = None
  /\ filing = [d \in Desks |-> None] /\ records = <<>>
  /\ issuing = None /\ lease = None

Next ==
  \/ TickServer \/ TickRuntime \/ ObtainToken
  \/ \E d \in Desks : BeginAttest(d) \/ InsertAttestation(d) \/ AttestationFails(d)
  \/ BeginIssue \/ EndIssue \/ AbandonIssue

Spec == Init /\ [][Next]_vars

----
(***************************************************************************)
(* Properties.                                                             *)
(***************************************************************************)

\* The clocks stay within MaxDrift, no record is from the future or was taken
\* after it was filed, and an attestation that a lease carries was on file when
\* the lease was issued.
TypeOK ==
  /\ serverSec \in 1..MaxTime /\ runtimeSec \in 1..MaxTime
  /\ serverSec - runtimeSec <= MaxDrift /\ runtimeSec - serverSec <= MaxDrift
  /\ lastTsaTokenAtSec # None => lastTsaTokenAtSec \in 1..serverSec
  /\ \A d \in Desks : filing[d] # None =>
       /\ filing[d] \in Record /\ filing[d].recordedAtSec <= serverSec
       /\ filing[d].seen <= Len(records)
  /\ \A i \in 1..Len(records) :
       /\ records[i] \in Record /\ records[i].recordedAtSec <= serverSec
       /\ records[i].seen < i
  /\ lease # None =>
       /\ lease.known <= Len(records)
       /\ lease.manualAttestation # None =>
            \E i \in 1..lease.known : records[i] = lease.manualAttestation
       /\ Verdict(lease) \in Accepted \cup Refused

\* Attestations under the ticket of a lease when the lease was issued.
FiledFor(l) == {i \in Filed(l.ticket) : i <= l.known}

\* Record j is a later word than record i: it was taken at a later second, or with
\* i on file. Of two that desks took at once in one second neither is.
Supersedes(j, i) ==
  records[j].recordedAtSec > records[i].recordedAtSec \/ records[j].seen >= i

\* Nothing is served on a time that nobody vouches for: by the clock of the
\* server, and up to the drift, the lease is within its grace; and where the
\* policy on the time is passed, either the token is not too old, or there was
\* a word of the operator for this holder and ticket that no later one had
\* replaced, that is newer than the token, and that is not too old itself.
RunsAreAnchored ==
  lease # None =>
    /\ Serves(lease) => serverSec <= Exp(lease) + GraceSec + MaxDrift
    /\ Runs(lease) /\ lease.last # None =>
         \/ serverSec - lease.last < MaxTokenAge + MaxDrift
         \/ \E i \in FiledFor(lease) :
              /\ \A j \in FiledFor(lease) : ~ Supersedes(j, i)
              /\ records[i].attestedAtSec >= lease.last
              /\ serverSec - records[i].attestedAtSec <= MaxManualAge + MaxDrift

\* An outage that is attested does not stop the runtime for want of a record:
\* a run is refused for that only when the lease was issued without a ticket,
\* before anything was recorded under it, or while the token was still fresh.
WarnedIsCarried ==
  lease # None /\ Verdict(lease) = "attestation_required" =>
    \/ lease.ticket = None
    \/ FiledFor(lease) = {}
    \/ lease.iat - lease.last < MaxTokenAge - WarningWindow

====
