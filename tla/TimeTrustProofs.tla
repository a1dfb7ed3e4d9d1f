---- MODULE TimeTrustProofs ----
(***************************************************************************)
(* Proofs about the trust in time, for any clocks, bounds and attestations:*)
(* what a run is anchored in, and when an attestation is missing.          *)
(***************************************************************************)
EXTENDS TimeTrust, WellFoundedInduction, SequenceTheorems, TLAPS

\* The clocks, and the sequence of the records.
Shape ==
  /\ serverSec \in 1..MaxTime /\ runtimeSec \in 1..MaxTime
  /\ serverSec - runtimeSec <= MaxDrift /\ runtimeSec - serverSec <= MaxDrift
  /\ lastTsaTokenAtSec # None => lastTsaTokenAtSec \in 1..serverSec
  /\ filing \in [Desks -> Record \cup {None}]
  /\ records \in Seq(Record)
  /\ issuing \in Request \cup {None}
  /\ lease \in Lease \cup {None}

\* Record r, which is or may become the one of index i, is not from the future,
\* and was taken after those it has seen.
InTime(r, i) ==
  /\ r.recordedAtSec <= serverSec /\ r.seen < i
  /\ \A k \in 1..r.seen : records[k].recordedAtSec <= r.recordedAtSec

\* No record is from the future or older than what was on file before it; this
\* says nothing of two that were taken while neither was on file.
Dated ==
  /\ \A i \in 1..Len(records) : InTime(records[i], i)
  /\ \A d \in Desks : filing[d] # None => InTime(filing[d], Len(records) + 1)

\* No later word than record i was on file when lease l was issued.
LastWord(l, i) == i \in FiledFor(l) /\ \A j \in FiledFor(l) : ~ Supersedes(j, i)

\* What a lease carries, and why it may carry nothing.
LeaseInv ==
  lease # None =>
    /\ lease.known <= Len(records)
    /\ lease.manualAttestation # None =>
         \E i \in FiledFor(lease) :
           LastWord(lease, i) /\ records[i] = lease.manualAttestation
    /\ lease.manualAttestation = None =>
         \/ lease.last = None \/ lease.ticket = None
         \/ FiledFor(lease) = {}
         \/ lease.iat - lease.last < MaxTokenAge - WarningWindow

Inv == Shape /\ Dated /\ LeaseInv

----
(* The latest attestation. *)

\* A set of numbers up to n that is not empty has a greatest element.
LEMMA GreatestNumber ==
  ASSUME NEW n \in Nat, NEW S \in SUBSET (1..n), S # {}
  PROVE  \E x \in S : \A y \in S : y <= x
<1> DEFINE R == OpToRel(<, Nat)
           Gaps == {n - i : i \in S}
<1>1. IsWellFoundedOn(R, Nat)
  BY NatLessThanWellFounded
<1>2. \A x, y \in Nat : y < x => <<y, x>> \in R
  BY DEF OpToRel
<1>3. Gaps \subseteq Nat /\ Gaps # {}
  <2>1. \A i \in S : n - i \in Nat
    OBVIOUS
  <2>2. QED
    BY <2>1
<1> HIDE DEF R, Gaps
<1>4. PICK g \in Gaps : \A h \in Gaps : ~ (<<h, g>> \in R)
  BY <1>1, <1>3, WFMin
<1>5. PICK x \in S : g = n - x
  BY DEF Gaps
<1>6. ASSUME NEW y \in S PROVE y <= x
  <2>1. n - y \in Gaps /\ n - y \in Nat /\ g \in Nat
    BY <1>3 DEF Gaps
  <2>2. ~ (n - y < g)
    BY <1>2, <1>4, <2>1, Zenon
  <2>3. QED
    BY <1>5, <2>1, <2>2
<1>7. QED
  BY <1>6

\* Times of recording and history are natural numbers.
LEMMA RecordTimes ==
  ASSUME Shape, NEW i \in 1..Len(records)
  PROVE  records[i].recordedAtSec \in Nat /\ records[i].seen \in Nat
<1>1. records[i] \in Record
  BY DEF Shape
<1>2. QED
  BY <1>1, TimeTrustAssumption DEF Record

\* The attestation the server reads is one that no other under the ticket
\* supersedes, in whatever order they were inserted.
LEMMA LatestIsLast ==
  ASSUME Shape, Dated, NEW ticket, Filed(ticket) # {}
  PROVE  \E i \in Filed(ticket) :
           /\ LatestManualAttestation(ticket) = records[i]
           /\ \A j \in Filed(ticket) : ~ Supersedes(j, i)
<1> DEFINE F == Filed(ticket)
           T == {records[i].recordedAtSec : i \in F}
<1>1. Len(records) \in Nat /\ F \in SUBSET (1..Len(records)) /\ F # {}
  BY DEF Shape, Filed
<1>2. \A i \in F : records[i].recordedAtSec \in Nat /\ records[i].seen \in Nat
  BY <1>1, RecordTimes
<1>3. \A i \in F : InTime(records[i], i)
  BY <1>1 DEF Dated
<1>4. serverSec \in Nat /\ \A i \in F : records[i].recordedAtSec \in 0..serverSec
  BY <1>2, <1>3 DEF Shape, InTime
<1>5. PICK t \in T : \A u \in T : u <= t
  <2> DEFINE T1 == {records[i].recordedAtSec + 1 : i \in F}
  <2>1. serverSec + 1 \in Nat /\ T1 \in SUBSET (1..(serverSec + 1)) /\ T1 # {}
    BY <1>1, <1>4
  <2>2. PICK t1 \in T1 : \A u \in T1 : u <= t1
    BY <2>1, GreatestNumber
  <2>3. PICK i \in F : t1 = records[i].recordedAtSec + 1
    BY <2>2
  <2>4. \A j \in F : records[j].recordedAtSec + 1 <= records[i].recordedAtSec + 1
    BY <2>2, <2>3
  <2>5. \A j \in F : records[j].recordedAtSec <= records[i].recordedAtSec
    BY <1>2, <2>3, <2>4
  <2>6. QED
    BY <2>3, <2>5
<1> DEFINE G == {i \in F : records[i].recordedAtSec = t}
<1>6. PICK m \in G : \A j \in G : j <= m
  <2>1. G \in SUBSET (1..Len(records)) /\ G # {}
    BY <1>1, <1>5
  <2>2. QED
    BY <1>1, <2>1, GreatestNumber
<1>7. \A j \in F \ {m} : Later(m, j)
  <2> SUFFICES ASSUME NEW j \in F \ {m} PROVE Later(m, j)
    OBVIOUS
  <2>1. m \in F /\ records[m].recordedAtSec = t /\ records[j].recordedAtSec <= t
    BY <1>5, <1>6
  <2>2. records[j].recordedAtSec = t => j <= m /\ j # m
    BY <1>6
  <2>3. j \in Nat /\ m \in Nat
    BY <1>1, <2>1
  <2>4. QED
    BY <1>2, <2>1, <2>2, <2>3 DEF Later
<1> DEFINE c == CHOOSE i \in F : \A j \in F \ {i} : Later(i, j)
<1>8. c \in F /\ \A j \in F \ {c} : Later(c, j)
  <2>1. m \in F
    BY <1>6
  <2>2. QED
    BY <1>7, <2>1
<1>9. LatestManualAttestation(ticket) = records[c]
  BY DEF LatestManualAttestation
<1> HIDE DEF c, F, T, G
<1>10. ASSUME NEW j \in F PROVE ~ Supersedes(j, c)
  <2>1. j \in Nat /\ c \in Nat /\ 1 <= c
    BY <1>1, <1>8
  <2>2. records[j].seen < j /\ records[c].seen < c
    BY <1>3, <1>8 DEF InTime
  <2>3. /\ records[j].seen \in Nat
        /\ records[j].recordedAtSec \in Nat /\ records[c].recordedAtSec \in Nat
    BY <1>2, <1>8
  <2>4. j # c => Later(c, j)
    BY <1>8
  <2>5. records[j].seen >= c => records[c].recordedAtSec <= records[j].recordedAtSec
    BY <1>3, <2>1, <2>3, <2>2 DEF InTime
  <2>6. QED
    BY <2>1, <2>2, <2>3, <2>4, <2>5 DEF Later, Supersedes
<1>11. QED
  BY <1>8, <1>9, <1>10 DEF F

----
(* Every step keeps the invariant. *)

\* The invariant holds of a server without attestations.
LEMMA InitInv == Init => Inv
<1> SUFFICES ASSUME Init PROVE Inv
  OBVIOUS
<1>1. Shape
  BY TimeTrustAssumption DEF Init, Shape
<1>2. Dated /\ LeaseInv
  BY DEF Init, Dated, LeaseInv
<1>3. QED
  BY <1>1, <1>2 DEF Inv

\* Records are only added at the end, so that a lease keeps the same records.
LEMMA LeaseStays ==
  ASSUME Inv, UNCHANGED lease,
         UNCHANGED records \/ \E r \in Record : records' = Append(records, r)
  PROVE  LeaseInv'
<1> SUFFICES ASSUME lease # None PROVE LeaseInv'
  BY DEF LeaseInv
<1>1. records \in Seq(Record) /\ lease \in Lease /\ lease.known \in Nat
  BY DEF Inv, Shape, Lease
<1>2. lease.known <= Len(records)
  BY DEF Inv, LeaseInv
<1>3. /\ Len(records') >= Len(records) /\ Len(records') \in Nat /\ Len(records) \in Nat
      /\ \A i \in 1..Len(records) : records'[i] = records[i]
  BY <1>1
<1>4. FiledFor(lease)' = FiledFor(lease)
  BY <1>1, <1>2, <1>3 DEF FiledFor, Filed
<1>5. \A i \in FiledFor(lease) : records'[i] = records[i]
  BY <1>3 DEF FiledFor, Filed
<1>6. QED
  BY <1>2, <1>3, <1>4, <1>5, <1>1 DEF Inv, LeaseInv, LastWord, Supersedes

\* The clock goes on and the records stay, so that their times stay right.
LEMMA DatesStay ==
  ASSUME Inv, UNCHANGED records, serverSec' \in Int, serverSec <= serverSec',
         \A d \in Desks : filing'[d] \in {filing[d], None}
  PROVE  Dated'
<1>1. serverSec \in Int /\ Len(records) \in Nat
  BY DEF Inv, Shape
<1>2. \A i \in 1..Len(records) : records[i].recordedAtSec \in Nat
  BY RecordTimes DEF Inv
<1>3. \A d \in Desks : filing[d] # None => filing[d].recordedAtSec \in Nat
  BY TimeTrustAssumption DEF Inv, Shape, Record
<1>4. \A i \in 1..Len(records) : InTime(records[i], i)'
  BY <1>1, <1>2 DEF Inv, Dated, InTime
<1>5. ASSUME NEW d \in Desks, filing'[d] # None
      PROVE  InTime(filing[d], Len(records) + 1)' /\ filing'[d] = filing[d]
  BY <1>1, <1>3, <1>5 DEF Inv, Dated, InTime
<1>6. QED
  BY <1>4, <1>5 DEF Dated, InTime

\* A desk takes an attestation: what is on file is not later than its time.
LEMMA BeginAttestStep ==
  ASSUME Inv, NEW d \in Desks, BeginAttest(d)
  PROVE  Inv'
<1>1. PICK k \in Attestable,
           attestedAtSec \in (serverSec - MaxSlip)..(serverSec + MaxSlip) :
        /\ ValidAttestation(attestedAtSec)
        /\ filing' = [filing EXCEPT ![d] = CreateRecord(k, attestedAtSec)]
  BY DEF BeginAttest
<1> DEFINE r == CreateRecord(k, attestedAtSec)
<1>2. /\ serverSec \in 1..MaxTime /\ MaxTime \in Nat /\ MaxSlip \in Nat
      /\ Len(records) \in Nat
  BY TimeTrustAssumption DEF Inv, Shape
<1>3. attestedAtSec \in 1..(MaxTime + MaxSlip)
  BY <1>1, <1>2 DEF ValidAttestation
<1>4. r \in Record /\ r.recordedAtSec = serverSec /\ r.seen = Len(records)
  BY <1>2, <1>3 DEF CreateRecord, Record
<1> HIDE DEF r
<1>5. UNCHANGED <<serverSec, runtimeSec, lastTsaTokenAtSec, records, issuing, lease>>
  BY DEF BeginAttest
<1>6. filing' = [filing EXCEPT ![d] = r]
  BY <1>1 DEF r
<1>7. Shape'
  BY <1>4, <1>5, <1>6 DEF Inv, Shape
<1>8. InTime(r, Len(records) + 1)
  BY <1>2, <1>4 DEF InTime, Inv, Dated
<1>9. \A e \in Desks : filing'[e] = IF e = d THEN r ELSE filing[e]
  BY <1>6 DEF Inv, Shape
<1>10. Dated'
  BY <1>5, <1>8, <1>9 DEF Inv, Dated, InTime
<1>11. LeaseInv'
  BY <1>5, LeaseStays
<1>12. QED
  BY <1>7, <1>10, <1>11 DEF Inv

\* The record is inserted. What another desk holds may be older by now.
LEMMA InsertAttestationStep ==
  ASSUME Inv, NEW d \in Desks, InsertAttestation(d)
  PROVE  Inv'
<1> DEFINE r == filing[d]
<1>1. /\ r # None /\ records' = Append(records, r)
      /\ filing' = [filing EXCEPT ![d] = None]
      /\ UNCHANGED <<serverSec, runtimeSec, lastTsaTokenAtSec, issuing, lease>>
  BY DEF InsertAttestation
<1>2. /\ r \in Record /\ records \in Seq(Record) /\ Len(records) \in Nat
      /\ InTime(r, Len(records) + 1)
  BY <1>1 DEF Inv, Shape, Dated
<1>3. Shape'
  BY <1>1, <1>2 DEF Inv, Shape
<1>4. /\ Len(records') = Len(records) + 1
      /\ \A i \in 1..Len(records) : records'[i] = records[i]
      /\ records'[Len(records) + 1] = r
  BY <1>1, <1>2
<1>5. \A e \in Desks : filing'[e] = IF e = d THEN None ELSE filing[e]
  BY <1>1 DEF Inv, Shape
<1> DEFINE Fits(q, i) ==
             /\ q.recordedAtSec <= serverSec /\ q.seen < i
             /\ \A k \in 1..q.seen : records'[k].recordedAtSec <= q.recordedAtSec
<1>6. ASSUME NEW q \in Record, NEW i \in 1..(Len(records) + 1), InTime(q, i)
      PROVE  Fits(q, i)
  <2>1. q.seen \in Nat /\ q.seen <= Len(records)
    BY <1>2, <1>6 DEF InTime, Record
  <2>2. QED
    BY <1>2, <1>4, <1>6, <2>1 DEF InTime
<1>7. \A i \in 1..Len(records') : Fits(records'[i], i)
  <2> SUFFICES ASSUME NEW i \in 1..Len(records') PROVE Fits(records'[i], i)
    OBVIOUS
  <2> HIDE DEF Fits, r
  <2>1. i \in 1..(Len(records) + 1)
    BY <1>4
  <2>2. CASE i = Len(records) + 1
    BY <1>2, <1>4, <1>6, <2>1, <2>2
  <2>3. CASE i \in 1..Len(records)
    <3>1. records[i] \in Record /\ InTime(records[i], i)
      BY <2>3 DEF Inv, Shape, Dated
    <3>2. QED
      BY <1>4, <1>6, <2>1, <2>3, <3>1
  <2>4. QED
    BY <1>2, <2>1, <2>2, <2>3
<1>8. ASSUME NEW e \in Desks, filing'[e] # None
      PROVE  Fits(filing'[e], Len(records') + 1)
  <2>1. filing'[e] = filing[e] /\ filing[e] \in Record
    BY <1>5, <1>8 DEF Inv, Shape
  <2>2. InTime(filing[e], Len(records) + 1)
    BY <1>8, <2>1 DEF Inv, Dated
  <2>3. Fits(filing[e], Len(records) + 1)
    BY <1>2, <1>6, <2>1, <2>2
  <2>4. filing[e].seen \in Nat
    BY <2>1 DEF Record
  <2>5. QED
    BY <1>2, <1>4, <2>1, <2>3, <2>4
<1>9. Dated'
  BY <1>1, <1>7, <1>8 DEF Dated, InTime
<1>10. LeaseInv'
  BY <1>1, <1>2, LeaseStays
<1>11. QED
  BY <1>3, <1>9, <1>10 DEF Inv

\* The record is not inserted.
LEMMA AttestationFailsStep ==
  ASSUME Inv, NEW d \in Desks, AttestationFails(d)
  PROVE  Inv'
<1>1. /\ filing' = [filing EXCEPT ![d] = None]
      /\ UNCHANGED <<serverSec, runtimeSec, lastTsaTokenAtSec, records, issuing, lease>>
  BY DEF AttestationFails
<1>2. Shape'
  BY <1>1 DEF Inv, Shape
<1>3. serverSec' \in Int /\ serverSec <= serverSec'
  BY <1>1 DEF Inv, Shape
<1>4. Dated'
  BY <1>1, <1>3, DatesStay DEF Inv, Shape
<1>5. LeaseInv'
  BY <1>1, LeaseStays
<1>6. QED
  BY <1>2, <1>4, <1>5 DEF Inv

\* The answer to a request for a lease.
LEMMA EndIssueStep ==
  ASSUME Inv, EndIssue
  PROVE  Inv'
<1> DEFINE q == issuing
           l == TsaPolicy(q)
<1>1. /\ q \in Request /\ lease' = l /\ issuing' = None
      /\ UNCHANGED <<serverSec, runtimeSec, lastTsaTokenAtSec, filing, records>>
  BY DEF EndIssue, Inv, Shape
<1>2. /\ l.iat = q.iat /\ l.last = q.last /\ l.ticket = q.ticket
      /\ l.known = Len(records) /\ l.manualAttestation = Carried(q)
      /\ Len(records) \in Nat
  BY DEF TsaPolicy, Inv, Shape
<1>3. FiledFor(l) = Filed(q.ticket)
  BY <1>2 DEF FiledFor, Filed, Inv, Shape
<1>4. Filed(q.ticket) # {} =>
        \E i \in Filed(q.ticket) :
          /\ LatestManualAttestation(q.ticket) = records[i]
          /\ \A j \in Filed(q.ticket) : ~ Supersedes(j, i)
  BY LatestIsLast DEF Inv
<1>5. Filed(q.ticket) = {} => LatestManualAttestation(q.ticket) = None
  BY DEF LatestManualAttestation
<1>6. \A i \in Filed(q.ticket) : records[i] \in Record
  BY DEF Filed, Inv, Shape
<1>7. Carried(q) \in Record \cup {None}
  BY <1>4, <1>5, <1>6 DEF Carried
<1>8. l \in Lease
  BY <1>1, <1>2, <1>7 DEF Lease, Request, TsaPolicy
<1>9. Shape'
  BY <1>1, <1>8 DEF Inv, Shape
<1>10. Dated'
  BY <1>1 DEF Inv, Dated, InTime
<1>11. LeaseInv'
  <2>1. l.manualAttestation # None =>
          \E i \in FiledFor(l) :
            LastWord(l, i) /\ records[i] = l.manualAttestation
    BY <1>2, <1>3, <1>4, <1>5 DEF Carried, LastWord
  <2>2. l.manualAttestation = None =>
          \/ l.last = None \/ l.ticket = None
          \/ FiledFor(l) = {}
          \/ l.iat - l.last < MaxTokenAge - WarningWindow
    <3> SUFFICES ASSUME l.manualAttestation = None, l.last # None,
                        l.ticket # None, FiledFor(l) # {}
                 PROVE  l.iat - l.last < MaxTokenAge - WarningWindow
      OBVIOUS
    <3>1. LatestManualAttestation(q.ticket) # None
      BY <1>3, <1>4, <1>6, NoneAssumption
    <3>2. ~ Carries(Freshness(q.last, q.iat))
      BY <1>2, <3>1 DEF Carried
    <3>3. q.last \in Nat /\ q.iat \in Nat
      BY <1>1, <1>2 DEF Request
    <3>4. QED
      BY <1>2, <3>2, <3>3, TimeTrustAssumption DEF Carries, Freshness
  <2>3. \A i \in 1..Len(records) : records'[i] = records[i]
    BY <1>1
  <2>4. l.known <= Len(records)
    BY <1>2
  <2> HIDE DEF l, q
  <2>5. QED
    BY <1>1, <2>1, <2>2, <2>4 DEF LeaseInv, FiledFor, Filed, LastWord, Supersedes
<1>12. QED
  BY <1>9, <1>10, <1>11 DEF Inv

\* The induction step.
LEMMA InvStep == Inv /\ [Next]_vars => Inv'
<1> SUFFICES ASSUME Inv, [Next]_vars PROVE Inv'
  OBVIOUS
<1> USE TimeTrustAssumption
<1>1. ASSUME UNCHANGED <<filing, records, lease>>,
             serverSec' \in Int, serverSec <= serverSec'
      PROVE  Dated' /\ LeaseInv'
  BY <1>1, DatesStay, LeaseStays
<1>2. CASE TickServer
  <2>1. Shape'
    BY <1>2, NoneAssumption DEF TickServer, Inv, Shape
  <2>2. Dated' /\ LeaseInv'
    BY <1>1, <1>2 DEF TickServer, Inv, Shape
  <2>3. QED
    BY <2>1, <2>2 DEF Inv
<1>3. CASE TickRuntime
  BY <1>1, <1>3 DEF TickRuntime, Inv, Shape
<1>4. CASE ObtainToken
  BY <1>1, <1>4 DEF ObtainToken, Inv, Shape
<1>5. CASE BeginIssue
  <2>1. issuing' \in Request
    BY <1>5 DEF BeginIssue, Inv, Shape, Request
  <2>2. QED
    BY <1>1, <1>5, <2>1 DEF BeginIssue, Inv, Shape
<1>6. CASE AbandonIssue
  BY <1>1, <1>6 DEF AbandonIssue, Inv, Shape
<1>7. CASE UNCHANGED vars
  BY <1>1, <1>7 DEF vars, Inv, Shape
<1>8. QED
  BY <1>2, <1>3, <1>4, <1>5, <1>6, <1>7, BeginAttestStep, InsertAttestationStep,
     AttestationFailsStep, EndIssueStep DEF Next

\* The invariant holds in every state.
LEMMA Invariance == Spec => []Inv
BY InitInv, InvStep, PTL DEF Spec

----
(* The theorems. *)

\* Every variable keeps its type, the clocks stay within the drift, no record is
\* from the future, and what a lease carries was on file when it was issued.
THEOREM Typed == Spec => []TypeOK
<1>1. ASSUME Inv PROVE TypeOK
  <2>1. Len(records) \in Nat /\ \A i \in 1..Len(records) : records[i] \in Record
    BY <1>1 DEF Inv, Shape
  <2>2. ASSUME lease # None
        PROVE  /\ lease.known <= Len(records)
               /\ lease.manualAttestation # None =>
                    \E i \in 1..lease.known : records[i] = lease.manualAttestation
    <3>1. lease.known \in Nat
      BY <1>1, <2>2 DEF Inv, Shape, Lease
    <3>2. QED
      BY <1>1, <2>2, <3>1 DEF Inv, LeaseInv, FiledFor, Filed
  <2>3. ASSUME lease # None PROVE Verdict(lease) \in Accepted \cup Refused
    BY DEF Verdict, LeaseMode, Attested, Accepted, Refused
  <2>4. ASSUME NEW d \in Desks, filing[d] # None
        PROVE  /\ filing[d] \in Record /\ filing[d].recordedAtSec <= serverSec
               /\ filing[d].seen <= Len(records)
    <3>1. filing[d] \in Record
      BY <1>1, <2>4 DEF Inv, Shape
    <3>2. QED
      BY <1>1, <2>1, <2>4, <3>1 DEF Inv, Dated, InTime, Record
  <2>5. QED
    BY <1>1, <2>1, <2>2, <2>3, <2>4 DEF Inv, Shape, Dated, InTime, TypeOK
<1>2. QED
  BY <1>1, Invariance, PTL

\* Nothing is served on a time that nobody vouches for, whatever was attested,
\* in whatever order, and whenever the lease was issued.
THEOREM Anchored == Spec => []RunsAreAnchored
<1>1. ASSUME Inv PROVE RunsAreAnchored
  <2> SUFFICES ASSUME lease # None PROVE RunsAreAnchored
    BY DEF RunsAreAnchored
  <2> USE TimeTrustAssumption
  <2>1. /\ lease \in Lease /\ lease.iat \in Nat
        /\ serverSec \in Nat /\ runtimeSec \in Nat
        /\ serverSec - runtimeSec <= MaxDrift
    BY <1>1 DEF Inv, Shape, Lease
  <2>2. ASSUME Serves(lease) PROVE serverSec <= Exp(lease) + GraceSec + MaxDrift
    <3>1. LeaseMode(lease) # "past_grace"
      BY <2>2 DEF Serves, Accepted
    <3>2. QED
      BY <2>1, <3>1 DEF LeaseMode, Exp
  <2>3. ASSUME lease.last # None, ~ NeedsAttestation(lease)
        PROVE  serverSec - lease.last < MaxTokenAge + MaxDrift
    <3>1. lease.last \in Nat
      BY <2>1, <2>3 DEF Lease
    <3>2. QED
      BY <2>1, <2>3, <3>1 DEF NeedsAttestation, Freshness
  <2>4. ASSUME Runs(lease), lease.last # None, NeedsAttestation(lease)
        PROVE  \E i \in FiledFor(lease) :
                 /\ \A j \in FiledFor(lease) : ~ Supersedes(j, i)
                 /\ records[i].attestedAtSec >= lease.last
                 /\ serverSec - records[i].attestedAtSec <= MaxManualAge + MaxDrift
    <3> DEFINE r == lease.manualAttestation
    <3>1. lease.last \in Nat
      BY <2>1, <2>4 DEF Lease
    <3>2. Attested(lease) = "trusted"
      BY <2>4 DEF Runs, Verdict, Accepted, Attested
    <3>3. r # None
      BY <3>2 DEF Attested
    <3>4. r.attestedAtSec \in Nat
      BY <2>1, <3>3 DEF Lease, Record
    <3>5. r.attestedAtSec >= lease.last /\ runtimeSec - r.attestedAtSec <= MaxManualAge
      BY <2>1, <3>1, <3>2, <3>4 DEF Attested
    <3>6. PICK i \in FiledFor(lease) : LastWord(lease, i) /\ records[i] = r
      BY <1>1, <3>3 DEF Inv, LeaseInv
    <3>7. QED
      BY <2>1, <3>4, <3>5, <3>6 DEF LastWord
  <2>5. QED
    BY <2>2, <2>3, <2>4 DEF RunsAreAnchored
<1>2. QED
  BY <1>1, Invariance, PTL

\* A run is refused for want of an attestation only when the lease could not
\* bring one along.
THEOREM CarriedWhenWarned == Spec => []WarnedIsCarried
<1>1. ASSUME Inv PROVE WarnedIsCarried
  <2>1. ASSUME lease # None, Verdict(lease) = "attestation_required"
        PROVE  lease.last # None /\ lease.manualAttestation = None
    BY <2>1 DEF Verdict, LeaseMode, Attested, NeedsAttestation
  <2>2. QED
    BY <1>1, <2>1 DEF Inv, LeaseInv, WarnedIsCarried
<1>2. QED
  BY <1>1, Invariance, PTL

====
