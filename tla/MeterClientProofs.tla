---- MODULE MeterClientProofs ----
(***************************************************************************)
(* Proofs about the metering pipeline, for every set of leases and event   *)
(* kinds and without a bound on calls, restarts or failures.               *)
(***************************************************************************)
EXTENDS MeterClient, FiniteSetTheorems, WellFoundedInduction, TLAPS

\* What each position of the running callback says about the registers it
\* works with, and which positions belong to the flush task.
Control ==
  /\ pc # "down" => lease \in Leases
  /\ pc \in {"log", "queue", "persist"} => event \in Event
  /\ task \in {"sent", "accepted", "hung"} \/ pc \in {"ack", "requeue"}
       => batch \in Batch
  /\ pc \in {"claim", "ack", "ackPersist", "requeue"} <=> task = "running"
  /\ pc \in {"down", "restore"} => task = "none"

TypeInv == TypeOK /\ Control

----
(* The operations on the state file keep its type. *)

\* Of a set of natural numbers that is not empty, Min is the least element.
LEMMA MinNat ==
  ASSUME NEW S \in SUBSET Nat, S # {}
  PROVE  Min(S) \in S /\ \A j \in S : Min(S) <= j
<1> DEFINE R == OpToRel(<, Nat)
<1>1. IsWellFoundedOn(R, Nat)
  BY NatLessThanWellFounded
<1>2. \A x, y \in Nat : y < x => <<y, x>> \in R
  BY DEF OpToRel
<1> HIDE DEF R
<1>3. PICK x \in S : \A y \in S : ~ (<<y, x>> \in R)
  BY <1>1, WFMin
<1>4. ASSUME NEW y \in S PROVE x <= y
  <2>1. x \in Nat /\ y \in Nat
    OBVIOUS
  <2>2. ~ (y < x)
    BY <1>2, <1>3, <2>1, Zenon
  <2>3. QED
    BY <2>1, <2>2
<1>5. QED
  BY <1>4 DEF Min

\* writeFileState leaves a well-formed state file behind.
LEMMA WriteType ==
  ASSUME disk \in StateFile, IsFiniteSet(disk.inFlight),
         lease \in Leases \cup {NoLease},
         NEW s \in StateFile, IsFiniteSet(s.inFlight), Write(s)
  PROVE  disk' \in StateFile /\ IsFiniteSet(disk'.inFlight)
<1>1. /\ AdoptsLease(s) \in StateFile
      /\ AdoptsLease(s).inFlight = s.inFlight
  BY DEF AdoptsLease, StateFile
<1>2. QED
  BY <1>1 DEF Write

\* findIndex returns the first pending batch of the lease.
LEMMA MineMember ==
  ASSUME NEW d \in StateFile, Mine(d) # {}
  PROVE  /\ Min(Mine(d)) \in DOMAIN d.pending
         /\ d.pending[Min(Mine(d))].jti = lease
<1>1. Mine(d) \in SUBSET Nat
  BY DEF Mine, StateFile
<1>2. Min(Mine(d)) \in Mine(d)
  BY <1>1, MinNat
<1>3. QED
  BY <1>2 DEF Mine

\* appendPendingBatchEvent keeps the state file well-formed.
LEMMA EnqueuedType ==
  ASSUME NEW d \in StateFile, NEW e \in Event, lease \in Leases
  PROVE  /\ Enqueued(d, e) \in StateFile
         /\ Enqueued(d, e).inFlight = d.inFlight
<1>0. d.pending \in Seq(Batch)
  BY DEF StateFile
<1>1. CASE Mine(d) = {}
  <2> DEFINE fresh == [jti |-> lease, events |-> {e}]
  <2>1. fresh \in Batch
    BY DEF Batch
  <2>2. Append(d.pending, fresh) \in Seq(Batch)
    BY <1>0, <2>1
  <2>3. Enqueued(d, e) = [d EXCEPT !.pending = Append(d.pending, fresh)]
    BY <1>1 DEF Enqueued
  <2>4. QED
    BY <2>2, <2>3 DEF StateFile
<1>2. CASE Mine(d) # {}
  <2>1. PICK i : i = Min(Mine(d))
    OBVIOUS
  <2>2. i \in DOMAIN d.pending
    BY <1>2, <2>1, MineMember
  <2>3. [d.pending[i] EXCEPT !.events = @ \cup {e}] \in Batch
    <3>1. d.pending[i] \in Batch
      BY <1>0, <2>2
    <3>2. QED
      BY <3>1 DEF Batch
  <2>4. [d.pending EXCEPT ![i].events = @ \cup {e}] \in Seq(Batch)
    BY <1>0, <2>2, <2>3
  <2>5. Enqueued(d, e) = [d EXCEPT !.pending[i].events = @ \cup {e}]
    BY <1>2, <2>1 DEF Enqueued
  <2>6. QED
    BY <2>4, <2>5 DEF StateFile
<1>3. QED
  BY <1>1, <1>2

\* claimPendingBatch, acknowledgeClaimedBatch, restoreClaimedBatch and
\* restoreAllClaimedBatches keep the state file well-formed.
LEMMA ClaimedType ==
  ASSUME NEW d \in StateFile, IsFiniteSet(d.inFlight), d.pending # <<>>
  PROVE  /\ Head(d.pending) \in Batch
         /\ Claimed(d) \in StateFile
         /\ IsFiniteSet(Claimed(d).inFlight)
<1>1. d.pending \in Seq(Batch)
  BY DEF StateFile
<1>2. Head(d.pending) \in Batch /\ Tail(d.pending) \in Seq(Batch)
  BY <1>1
<1>3. IsFiniteSet(d.inFlight \cup {Head(d.pending)})
  BY FS_AddElement
<1>4. QED
  BY <1>2, <1>3 DEF Claimed, StateFile

\* Acknowledging a batch yields a state file.
LEMMA AcknowledgedType ==
  ASSUME NEW d \in StateFile, IsFiniteSet(d.inFlight), NEW jti
  PROVE  /\ Acknowledged(d, jti) \in StateFile
         /\ IsFiniteSet(Acknowledged(d, jti).inFlight)
<1>1. IsFiniteSet({b \in d.inFlight : b.jti # jti})
  BY FS_Subset
<1>2. QED
  BY <1>1 DEF Acknowledged, StateFile

\* Queueing a claimed batch again yields a state file.
LEMMA RequeuedType ==
  ASSUME NEW d \in StateFile, IsFiniteSet(d.inFlight), NEW c \in d.inFlight
  PROVE  /\ Requeued(d, c) \in StateFile
         /\ IsFiniteSet(Requeued(d, c).inFlight)
<1>1. IsFiniteSet({b \in d.inFlight : b.jti # c.jti})
  BY FS_Subset
<1>2. c \in Batch /\ d.pending \in Seq(Batch)
  BY DEF StateFile
<1>3. <<c>> \o d.pending \in Seq(Batch)
  BY <1>2
<1>4. QED
  BY <1>1, <1>3 DEF Requeued, StateFile

\* Each order of recovered batches is a sequence of batches.
LEMMA OrdersType ==
  ASSUME NEW S \in SUBSET Batch, IsFiniteSet(S), NEW s \in Orders(S)
  PROVE  /\ s \in Seq(Batch)
         /\ \A b : b \in S <=> \E i \in DOMAIN s : s[i] = b
<1>1. Cardinality(S) \in Nat
  BY FS_CardinalityType
<1>2. s \in [1..Cardinality(S) -> S]
  BY DEF Orders
<1>3. s \in Seq(S)
  BY <1>1, <1>2
<1>4. s \in Seq(Batch)
  BY <1>1, <1>2
<1>5. QED
  BY <1>2, <1>4 DEF Orders

\* Recovering claimed batches yields a state file.
LEMMA RecoveredType ==
  ASSUME NEW d \in StateFile, IsFiniteSet(d.inFlight),
         NEW s \in Orders(d.inFlight)
  PROVE  /\ Recovered(d, s) \in StateFile
         /\ IsFiniteSet(Recovered(d, s).inFlight)
<1>1. s \in Seq(Batch) /\ d.pending \in Seq(Batch)
  BY OrdersType DEF StateFile
<1>2. s \o d.pending \in Seq(Batch)
  BY <1>1
<1>3. IsFiniteSet({})
  BY FS_EmptySet
<1>4. QED
  BY <1>2, <1>3 DEF Recovered, StateFile

----
(* Type correctness *)

\* The types hold before the first start.
LEMMA TypeInit == Init => TypeInv
<1> SUFFICES ASSUME Init PROVE TypeInv
  OBVIOUS
<1>1. EmptyState \in StateFile /\ IsFiniteSet(EmptyState.inFlight)
  BY FS_EmptySet DEF EmptyState, StateFile
<1>2. TypeOK
  <2>1. disk \in StateFile /\ IsFiniteSet(disk.inFlight)
    BY <1>1 DEF Init
  <2>2. log \in Seq(Event)
    BY DEF Init
  <2>3. meter \in Chain
    BY DEF Init, FreshChain, Chain, Genesis
  <2>4. QED
    BY <2>1, <2>2, <2>3 DEF Init, TypeOK
<1>3. Control
  BY DEF Init, Control
<1>4. QED
  BY <1>2, <1>3 DEF TypeInv

\* A process that stops keeps the types.
LEMMA StopType ==
  ASSUME TypeInv, Stop, late' \in SUBSET Batch,
         disk' \in StateFile, IsFiniteSet(disk'.inFlight)
  PROVE  TypeInv'
BY DEF TypeInv, TypeOK, Control, Stop, FreshChain, Chain, Genesis, Writing

\* Every step keeps the types.
LEMMA TypeStep == TypeInv /\ [Next]_vars => TypeInv'
<1> SUFFICES ASSUME TypeInv, [Next]_vars PROVE TypeInv'
  OBVIOUS
<1> USE DEF TypeInv, TypeOK, Control, Writing
<1>1. ASSUME NEW l \in Leases, Start(l) PROVE TypeInv'
  <2>1. meter' \in Chain
    BY <1>1 DEF Start, Resumes, FreshChain, Chain, Genesis, StateFile
  <2>2. QED
    BY <1>1, <2>1 DEF Start
<1>2. ASSUME NEW k \in Kinds, Record(k), closing' \in {closing, "end"}
      PROVE  TypeInv'
  <2>1. event' \in Event /\ meter' \in Chain
    BY <1>2 DEF Record, Event, Chain
  <2>2. QED
    BY <1>2, <2>1 DEF Record
<1>3. ASSUME Restore PROVE TypeInv'
  <2>1. PICK s \in Orders(disk.inFlight) : Write(Recovered(disk, s))
    BY <1>3 DEF Restore
  <2>2. disk' \in StateFile /\ IsFiniteSet(disk'.inFlight)
    BY <2>1, RecoveredType, WriteType
  <2>3. QED
    BY <1>3, <2>2 DEF Restore
<1>4. ASSUME LogEvent PROVE TypeInv'
  BY <1>4 DEF LogEvent, volatile
<1>5. ASSUME LogFails PROVE TypeInv'
  BY <1>5 DEF LogFails, Rewound, Event, Chain
<1>6. ASSUME QueueEvent PROVE TypeInv'
  <2>1. disk' \in StateFile /\ IsFiniteSet(disk'.inFlight)
    BY <1>6, EnqueuedType, WriteType DEF QueueEvent
  <2>2. recorded' \in SUBSET Entry
    BY <1>6 DEF QueueEvent, Entry
  <2>3. QED
    BY <1>6, <2>1, <2>2 DEF QueueEvent, volatile
<1>7. disk.inFlight = [disk EXCEPT !.jti = lease, !.chain = meter].inFlight
  BY DEF StateFile
<1>8. [disk EXCEPT !.jti = lease, !.chain = meter] \in StateFile
  BY DEF StateFile
<1>9. ASSUME PersistEvent PROVE TypeInv'
  <2>1. disk' \in StateFile /\ IsFiniteSet(disk'.inFlight)
    BY <1>7, <1>8, <1>9, WriteType DEF PersistEvent, Persist
  <2>2. QED
    BY <1>9, <2>1 DEF PersistEvent, Scheduled
<1>10. ASSUME ClaimBatch PROVE TypeInv'
  <2>1. disk' \in StateFile /\ IsFiniteSet(disk'.inFlight) /\ batch' \in Batch
    BY <1>10, ClaimedType, WriteType DEF ClaimBatch
  <2>2. QED
    BY <1>10, <2>1 DEF ClaimBatch
<1>11. ASSUME NothingToClaim PROVE TypeInv'
  BY <1>11 DEF NothingToClaim
<1>12. ASSUME Acknowledge PROVE TypeInv'
  <2>1. disk' \in StateFile /\ IsFiniteSet(disk'.inFlight)
    BY <1>12, AcknowledgedType, WriteType DEF Acknowledge
  <2>2. QED
    BY <1>12, <2>1 DEF Acknowledge, volatile
<1>13. ASSUME PersistAck PROVE TypeInv'
  <2>1. disk' \in StateFile /\ IsFiniteSet(disk'.inFlight)
    BY <1>7, <1>8, <1>13, WriteType DEF PersistAck, Persist
  <2>2. QED
    BY <1>13, <2>1 DEF PersistAck
<1>14. ASSUME RequeueBatch PROVE TypeInv'
  <2> DEFINE claimed == {b \in disk.inFlight : b.jti = batch.jti}
  <2>1. disk' \in StateFile /\ IsFiniteSet(disk'.inFlight)
    <3>1. CASE claimed = {}
      BY <1>14, <3>1 DEF RequeueBatch
    <3>2. CASE claimed # {}
      <4>1. PICK c \in claimed : Write(Requeued(disk, c))
        BY <1>14, <3>2 DEF RequeueBatch
      <4>2. QED
        BY <4>1, RequeuedType, WriteType
    <3>3. QED
      BY <3>1, <3>2
  <2>2. QED
    BY <1>14, <2>1 DEF RequeueBatch
<1>15. late \cup {batch} \in SUBSET Batch \/ task # "sent"
  OBVIOUS
<1>16. Abandoned \in SUBSET Batch
  BY <1>15 DEF Abandoned
<1>17. ASSUME Settle PROVE TypeInv'
  <2>1. CASE closing = "final"
    BY <1>17, <2>1, StopType DEF Settle
  <2>2. CASE closing # "final"
    BY <1>17, <2>2 DEF Settle, Rescheduled
  <2>3. QED
    BY <2>1, <2>2
<1>18. ASSUME DrainOnExit PROVE TypeInv'
  BY <1>18 DEF DrainOnExit, BeginFinalFlush
<1>19. ASSUME AfterRunningFlush PROVE TypeInv'
  <2>1. CASE disk.pending = <<>>
    BY <1>19, <2>1, StopType DEF AfterRunningFlush
  <2>2. CASE disk.pending # <<>>
    BY <1>19, <2>2 DEF AfterRunningFlush, BeginFinalFlush
  <2>3. QED
    BY <2>1, <2>2
<1>20. ASSUME TimerFires PROVE TypeInv'
  BY <1>20 DEF TimerFires
<1>21. ASSUME UploadSucceeds PROVE TypeInv'
  BY <1>21 DEF UploadSucceeds
<1>22. ASSUME UploadFails \/ UploadHangs PROVE TypeInv'
  BY <1>16, <1>22 DEF UploadFails, UploadHangs
<1>23. ASSUME Kill PROVE TypeInv'
  <2>1. EmptyState \in StateFile /\ IsFiniteSet(EmptyState.inFlight)
    BY FS_EmptySet DEF EmptyState, StateFile
  <2>2. disk' \in StateFile /\ IsFiniteSet(disk'.inFlight)
    BY <1>23, <2>1 DEF Kill
  <2>3. QED
    BY <1>16, <1>23, <2>2, StopType DEF Kill
<1>24. ASSUME NEW b \in Batch PROVE Insert(b) \in SUBSET Entry
  BY DEF Insert, Entries, Batch, Entry
<1>25. ASSUME ServerAccepts PROVE TypeInv'
  BY <1>24, <1>25 DEF ServerAccepts
<1>26. ASSUME LateRequestArrives PROVE TypeInv'
  BY <1>24, <1>26 DEF LateRequestArrives, volatile
<1>27. CASE UNCHANGED vars
  BY <1>27 DEF vars
<1>28. ASSUME Shutdown PROVE TypeInv'
  BY <1>2, <1>28, ConstantsAssumption DEF Shutdown
<1>29. ASSUME NEW k \in Kinds, RecordEvent(k) PROVE TypeInv'
  BY <1>2, <1>29 DEF RecordEvent
<1>30. QED
  BY <1>1, <1>3, <1>4, <1>5, <1>6, <1>9, <1>10, <1>11, <1>12, <1>13, <1>14,
     <1>17, <1>18, <1>19, <1>20, <1>21, <1>22, <1>23, <1>25, <1>26, <1>27,
     <1>28, <1>29
     DEF Next, Running

\* Type correctness of the pipeline: under every fault the environment may
\* produce, each register, file and table keeps the type of its data.
THEOREM TypeCorrect == Spec => []TypeOK
<1>1. TypeInv => TypeOK
  BY DEF TypeInv
<1>2. QED
  BY <1>1, TypeInit, TypeStep, PTL DEF Spec

----
(***************************************************************************)
(* Proofs about the events on their way through the spool: what is billed  *)
(* was recorded, nothing is billed twice, and a disk that keeps what is    *)
(* written loses no usage event, whenever the process dies.                *)
(***************************************************************************)
(* What the operations on the state file do to the events it holds.        *)

\* A held event is in a pending or a claimed batch.
LEMMA HeldMember ==
  ASSUME NEW d, NEW r
  PROVE  r \in Held(d) <=> \/ \E i \in DOMAIN d.pending :
                                 r \in Entries(d.pending[i])
                           \/ \E b \in d.inFlight : r \in Entries(b)
<1>1. r \in Held(d) <=> \E b \in Spooled(d) : r \in Entries(b)
  BY DEF Held
<1>2. QED
  BY <1>1 DEF Spooled

\* The rows of a batch are rows of the ledger.
LEMMA EntriesType ==
  ASSUME NEW b \in Batch
  PROVE  Entries(b) \in SUBSET Entry
BY DEF Entries, Batch, Entry

\* writeFileState adds a lease id at most.
LEMMA AdoptsHeld ==
  ASSUME NEW s \in StateFile
  PROVE  /\ AdoptsLease(s).pending = s.pending
         /\ AdoptsLease(s).inFlight = s.inFlight
         /\ AdoptsLease(s).chain = s.chain
         /\ Held(AdoptsLease(s)) = Held(s)
<1>1. /\ AdoptsLease(s).pending = s.pending
      /\ AdoptsLease(s).inFlight = s.inFlight
      /\ AdoptsLease(s).chain = s.chain
  BY DEF AdoptsLease, StateFile
<1>2. QED
  BY <1>1 DEF Held, Spooled

\* Persisting the chain touches no batch.
LEMMA PersistHeld ==
  ASSUME NEW d \in StateFile, NEW m \in Chain, lease \in Leases
  PROVE  LET s == [d EXCEPT !.jti = lease, !.chain = m]
         IN  /\ s \in StateFile
             /\ s.inFlight = d.inFlight
             /\ s.jti = lease
             /\ s.chain = m
             /\ Held(s) = Held(d)
<1> DEFINE s == [d EXCEPT !.jti = lease, !.chain = m]
<1>1. /\ s \in StateFile
      /\ s.inFlight = d.inFlight
      /\ s.pending = d.pending
      /\ s.jti = lease
      /\ s.chain = m
  BY DEF StateFile
<1>2. Held(s) = Held(d)
  BY <1>1 DEF Held, Spooled
<1>3. QED
  BY <1>1, <1>2

\* appendPendingBatchEvent adds the one event, under the current lease.
LEMMA EnqueuedHeld ==
  ASSUME NEW d \in StateFile, NEW e \in Event, lease \in Leases
  PROVE  Held(Enqueued(d, e)) = Held(d) \cup {[jti |-> lease, event |-> e]}
<1> DEFINE x == [jti |-> lease, event |-> e]
           q == Enqueued(d, e).pending
           p == d.pending
<1>0. p \in Seq(Batch)
  BY DEF StateFile
<1>1. Enqueued(d, e).inFlight = d.inFlight
  BY EnqueuedType
<1>2. CASE Mine(d) = {}
  <2> DEFINE fresh == [jti |-> lease, events |-> {e}]
  <2>1. q = Append(p, fresh)
    <3>1. Enqueued(d, e) = [d EXCEPT !.pending = Append(p, fresh)]
      BY <1>2 DEF Enqueued
    <3>2. QED
      BY <3>1 DEF StateFile
  <2>2. Entries(fresh) = {x}
    BY DEF Entries
  <2>3. /\ DOMAIN q = 1..(Len(p) + 1)
        /\ DOMAIN p = 1..Len(p)
        /\ Len(p) \in Nat
        /\ \A i \in DOMAIN p : q[i] = p[i]
        /\ q[Len(p) + 1] = fresh
    BY <1>0, <2>1
  <2> HIDE DEF q, fresh, x
  <2>4. ASSUME NEW r
        PROVE  (\E i \in DOMAIN q : r \in Entries(q[i]))
                 <=> (\E i \in DOMAIN p : r \in Entries(p[i])) \/ r = x
    BY <2>2, <2>3
  <2>5. ASSUME NEW r
        PROVE  r \in Held(Enqueued(d, e)) <=> r \in Held(d) \/ r = x
    BY <1>1, <2>4, HeldMember DEF q
  <2>6. QED
    BY <2>5 DEF x
<1>3. CASE Mine(d) # {}
  <2>1. PICK k : k = Min(Mine(d))
    OBVIOUS
  <2>2. k \in DOMAIN p /\ p[k].jti = lease
    BY <1>3, <2>1, MineMember
  <2> DEFINE grown == [p[k] EXCEPT !.events = @ \cup {e}]
  <2>3. q = [p EXCEPT ![k] = grown]
    <3>1. Enqueued(d, e) = [d EXCEPT !.pending[k].events = @ \cup {e}]
      BY <1>3, <2>1 DEF Enqueued
    <3>2. QED
      BY <3>1 DEF StateFile
  <2>4. Entries(grown) = Entries(p[k]) \cup {x}
    <3>1. p[k] \in Batch
      BY <1>0, <2>2
    <3>2. grown.jti = lease /\ grown.events = p[k].events \cup {e}
      BY <2>2, <3>1 DEF Batch
    <3>3. QED
      BY <2>2, <3>2 DEF Entries
  <2>5. /\ DOMAIN q = DOMAIN p
        /\ q[k] = grown
        /\ \A i \in DOMAIN p : i # k => q[i] = p[i]
    BY <1>0, <2>2, <2>3
  <2> HIDE DEF q, grown, x
  <2>6. ASSUME NEW r
        PROVE  (\E i \in DOMAIN q : r \in Entries(q[i]))
                 <=> (\E i \in DOMAIN p : r \in Entries(p[i])) \/ r = x
    BY <2>2, <2>4, <2>5
  <2>7. ASSUME NEW r
        PROVE  r \in Held(Enqueued(d, e)) <=> r \in Held(d) \/ r = x
    BY <1>1, <2>6, HeldMember DEF q
  <2>8. QED
    BY <2>7 DEF x
<1>4. QED
  BY <1>2, <1>3

\* claimPendingBatch only moves the first batch.
LEMMA ClaimedHeld ==
  ASSUME NEW d \in StateFile, d.pending # <<>>
  PROVE  /\ Held(Claimed(d)) = Held(d)
         /\ Claimed(d).inFlight = d.inFlight \cup {Head(d.pending)}
<1> DEFINE p == d.pending
<1>0. p \in Seq(Batch)
  BY DEF StateFile
<1>1. /\ Claimed(d).pending = Tail(p)
      /\ Claimed(d).inFlight = d.inFlight \cup {Head(p)}
  BY DEF Claimed, StateFile
<1>2. /\ Head(p) = p[1]
      /\ DOMAIN p = 1..Len(p)
      /\ DOMAIN Tail(p) = 1..(Len(p) - 1)
      /\ Len(p) \in Nat \ {0}
      /\ \A i \in 1..(Len(p) - 1) : Tail(p)[i] = p[i + 1]
  BY <1>0
<1>3. ASSUME NEW r
      PROVE  (\E i \in DOMAIN p : r \in Entries(p[i]))
               <=> \/ \E i \in DOMAIN Tail(p) : r \in Entries(Tail(p)[i])
                   \/ r \in Entries(Head(p))
  <2> DEFINE n == Len(p)
             P(i) == r \in Entries(p[i])
  <2>1. \A i \in 1..n : i = 1 \/ (i - 1 \in 1..(n - 1) /\ (i - 1) + 1 = i)
    BY <1>2
  <2>2. \A i \in 1..(n - 1) : i + 1 \in 1..n
    BY <1>2
  <2>3. 1 \in 1..n
    BY <1>2
  <2>4. ASSUME NEW i \in 1..n, r \in Entries(p[i]), i # 1
        PROVE  \E j \in 1..(n - 1) : r \in Entries(Tail(p)[j])
    <3>1. i - 1 \in 1..(n - 1) /\ (i - 1) + 1 = i
      BY <2>1, <2>4
    <3>2. Tail(p)[i - 1] = p[i]
      BY <1>2, <3>1
    <3>3. QED
      BY <2>4, <3>1, <3>2
  <2>5. ASSUME NEW j \in 1..(n - 1), r \in Entries(Tail(p)[j])
        PROVE  \E i \in 1..n : r \in Entries(p[i])
    BY <1>2, <2>2, <2>5
  <2>6. QED
    BY <1>2, <2>3, <2>4, <2>5
<1>4. ASSUME NEW r PROVE r \in Held(Claimed(d)) <=> r \in Held(d)
  BY <1>1, <1>3, HeldMember
<1>5. QED
  BY <1>1, <1>4

\* What is in front of or behind the joint of two sequences of batches.
LEMMA ConcatEntries ==
  ASSUME NEW s \in Seq(Batch), NEW p \in Seq(Batch), NEW r
  PROVE  (\E i \in DOMAIN (s \o p) : r \in Entries((s \o p)[i]))
           <=> \/ \E i \in DOMAIN s : r \in Entries(s[i])
               \/ \E i \in DOMAIN p : r \in Entries(p[i])
<1> DEFINE m == Len(s)
           n == Len(p)
           c == s \o p
<1>1. /\ m \in Nat /\ n \in Nat
      /\ DOMAIN s = 1..m /\ DOMAIN p = 1..n /\ DOMAIN c = 1..(m + n)
      /\ \A i \in 1..m : c[i] = s[i]
      /\ \A i \in 1..n : c[m + i] = p[i]
  OBVIOUS
<1> HIDE DEF m, n, c
<1>2. ASSUME NEW i \in 1..(m + n), r \in Entries(c[i])
      PROVE  \/ \E j \in 1..m : r \in Entries(s[j])
             \/ \E j \in 1..n : r \in Entries(p[j])
  <2>1. CASE i \in 1..m
    BY <1>1, <1>2, <2>1
  <2>2. CASE i \notin 1..m
    <3>1. i - m \in 1..n /\ m + (i - m) = i
      BY <1>1, <2>2
    <3>2. p[i - m] = c[i]
      BY <1>1, <3>1
    <3>3. QED
      BY <1>2, <3>1, <3>2
  <2>3. QED
    BY <2>1, <2>2
<1>3. ASSUME NEW i \in 1..m, r \in Entries(s[i])
      PROVE  \E j \in 1..(m + n) : r \in Entries(c[j])
  BY <1>1, <1>3
<1>4. ASSUME NEW i \in 1..n, r \in Entries(p[i])
      PROVE  \E j \in 1..(m + n) : r \in Entries(c[j])
  <2>1. m + i \in 1..(m + n)
    BY <1>1
  <2>2. QED
    BY <1>1, <1>4, <2>1
<1>5. QED
  BY <1>1, <1>2, <1>3, <1>4 DEF c

\* restoreAllClaimedBatches only moves batches.
LEMMA RecoveredHeld ==
  ASSUME NEW d \in StateFile, IsFiniteSet(d.inFlight),
         NEW s \in Orders(d.inFlight)
  PROVE  Held(Recovered(d, s)) = Held(d) /\ Recovered(d, s).inFlight = {}
<1>1. /\ Recovered(d, s).pending = s \o d.pending
      /\ Recovered(d, s).inFlight = {}
  BY DEF Recovered, StateFile
<1>2. /\ s \in Seq(Batch)
      /\ \A b : b \in d.inFlight <=> \E i \in DOMAIN s : s[i] = b
  BY OrdersType DEF StateFile
<1>3. d.pending \in Seq(Batch)
  BY DEF StateFile
<1>4. ASSUME NEW r PROVE r \in Held(Recovered(d, s)) <=> r \in Held(d)
  <2>1. (\E b \in d.inFlight : r \in Entries(b))
          <=> \E i \in DOMAIN s : r \in Entries(s[i])
    BY <1>2
  <2>2. r \in Held(Recovered(d, s))
          <=> \E i \in DOMAIN (s \o d.pending) : r \in Entries((s \o d.pending)[i])
    BY <1>1, HeldMember
  <2>3. QED
    BY <1>2, <1>3, <2>1, <2>2, ConcatEntries, HeldMember
<1>5. QED
  BY <1>1, <1>4

\* restoreClaimedBatch moves the batch, when it is the only claimed one; it
\* never adds an event.
LEMMA RequeuedHeld ==
  ASSUME NEW d \in StateFile, NEW c \in d.inFlight
  PROVE  /\ Held(Requeued(d, c)) \subseteq Held(d)
         /\ d.inFlight = {c} => /\ Held(Requeued(d, c)) = Held(d)
                                /\ Requeued(d, c).inFlight = {}
<1>1. /\ Requeued(d, c).pending = <<c>> \o d.pending
      /\ Requeued(d, c).inFlight = {b \in d.inFlight : b.jti # c.jti}
  BY DEF Requeued, StateFile
<1>2. /\ <<c>> \in Seq(Batch)
      /\ d.pending \in Seq(Batch)
      /\ DOMAIN <<c>> = {1}
      /\ <<c>>[1] = c
  BY DEF StateFile
<1>3. ASSUME NEW r
      PROVE  r \in Held(Requeued(d, c))
               <=> \/ r \in Entries(c)
                   \/ \E i \in DOMAIN d.pending : r \in Entries(d.pending[i])
                   \/ \E b \in Requeued(d, c).inFlight : r \in Entries(b)
  <2>1. r \in Entries(c) <=> \E i \in DOMAIN <<c>> : r \in Entries(<<c>>[i])
    BY <1>2
  <2>2. r \in Held(Requeued(d, c))
          <=> \/ \E i \in DOMAIN (<<c>> \o d.pending) :
                    r \in Entries((<<c>> \o d.pending)[i])
              \/ \E b \in Requeued(d, c).inFlight : r \in Entries(b)
    BY <1>1, HeldMember
  <2>3. (\E i \in DOMAIN (<<c>> \o d.pending) :
           r \in Entries((<<c>> \o d.pending)[i]))
          <=> \/ r \in Entries(c)
              \/ \E i \in DOMAIN d.pending : r \in Entries(d.pending[i])
    <3>1. \A u \in Seq(Batch) :
            (\E i \in DOMAIN (u \o d.pending) : r \in Entries((u \o d.pending)[i]))
              <=> \/ \E i \in DOMAIN u : r \in Entries(u[i])
                  \/ \E i \in DOMAIN d.pending : r \in Entries(d.pending[i])
      <4> DEFINE p == d.pending
      <4>1. p \in Seq(Batch)
        BY <1>2
      <4> HIDE DEF p
      <4>2. \A u \in Seq(Batch) :
              (\E i \in DOMAIN (u \o p) : r \in Entries((u \o p)[i]))
                <=> \/ \E i \in DOMAIN u : r \in Entries(u[i])
                    \/ \E i \in DOMAIN p : r \in Entries(p[i])
        BY <4>1, ConcatEntries
      <4>3. QED
        BY <4>2 DEF p
    <3>2. QED
      BY <1>2, <2>1, <3>1
  <2>4. QED
    BY <2>2, <2>3
<1>4. QED
  BY <1>1, <1>3, HeldMember

\* acknowledgeClaimedBatch adds no event, and drops the batch and no other
\* when it is the only claimed one.
LEMMA AcknowledgedHeld ==
  ASSUME NEW d \in StateFile, NEW jti
  PROVE  /\ Held(Acknowledged(d, jti)) \subseteq Held(d)
         /\ \A c : d.inFlight = {c} /\ jti = c.jti =>
              /\ Held(d) = Held(Acknowledged(d, jti)) \cup Entries(c)
              /\ Acknowledged(d, jti).inFlight = {}
<1>1. /\ Acknowledged(d, jti).pending = d.pending
      /\ Acknowledged(d, jti).inFlight = {b \in d.inFlight : b.jti # jti}
  BY DEF Acknowledged, StateFile
<1>2. Held(Acknowledged(d, jti)) \subseteq Held(d)
  BY <1>1, HeldMember
<1>3. ASSUME NEW c, d.inFlight = {c}, jti = c.jti
      PROVE  /\ Held(d) = Held(Acknowledged(d, jti)) \cup Entries(c)
             /\ Acknowledged(d, jti).inFlight = {}
  <2>1. Acknowledged(d, jti).inFlight = {}
    BY <1>1, <1>3
  <2>2. ASSUME NEW r
        PROVE  r \in Held(d)
                 <=> r \in Held(Acknowledged(d, jti)) \/ r \in Entries(c)
    BY <1>1, <1>3, <2>1, HeldMember
  <2>3. QED
    BY <2>1, <2>2
<1>4. QED
  BY <1>2, <1>3

\* INSERT OR IGNORE: rows stay, new rows come from the batch, and every usage
\* event of the batch has a row under its key afterwards.
LEMMA InsertRows ==
  ASSUME NEW b \in Batch
  PROVE  /\ ledger \subseteq Insert(b)
         /\ \A r \in Insert(b) : r \in ledger \/ (r \in Entries(b) /\ IsUsage(r.event))
         /\ \A r \in Entries(b) :
              IsUsage(r.event) => \E q \in Insert(b) : SameKey(r, q)
<1> DEFINE usage == {r \in Entries(b) : IsUsage(r.event)}
<1>1. /\ ledger \subseteq Insert(b)
      /\ \A r \in Insert(b) : r \in ledger \/ r \in usage
  BY DEF Insert
<1>2. ASSUME NEW r \in usage
      PROVE  \E q \in Insert(b) : SameKey(r, q)
  <2>1. CASE \E q \in ledger : q.jti = r.jti /\ q.event.seq = r.event.seq
    BY <1>1, <2>1 DEF SameKey
  <2>2. CASE ~\E q \in ledger : q.jti = r.jti /\ q.event.seq = r.event.seq
    <3> DEFINE same == {q \in usage : q.event.seq = r.event.seq}
               ids == {q.event.id : q \in same}
    <3>1. same \in SUBSET Entry /\ r \in same
      BY EntriesType
    <3>2. \A q \in same : q.event.id \in Nat
      BY <3>1 DEF Entry, Event
    <3>3. ids \in SUBSET Nat /\ ids # {}
      BY <3>1, <3>2
    <3>4. PICK q \in same : \A k \in ids : q.event.id <= k
      <4> HIDE DEF same
      <4>1. PICK m \in ids : \A k \in ids : m <= k
        <5> HIDE DEF ids
        <5>1. QED
          BY <3>3, MinNat
      <4>2. QED
        BY <4>1
    <3>5. \A x \in usage : ~ (x.event.seq = q.event.seq /\ x.event.id < q.event.id)
      <4> SUFFICES ASSUME NEW x \in usage, x.event.seq = q.event.seq
                   PROVE  ~ (x.event.id < q.event.id)
        OBVIOUS
      <4>1. x \in same
        BY <3>4
      <4>2. q.event.id <= x.event.id
        BY <3>4, <4>1
      <4>3. QED
        BY <3>2, <4>1, <4>2
    <3>6. q.jti = b.jti /\ r.jti = b.jti /\ q.event.seq = r.event.seq
      BY DEF Entries
    <3>7. ~\E x \in ledger : x.jti = q.jti /\ x.event.seq = q.event.seq
      BY <2>2, <3>6
    <3>8. q \in Insert(b)
      BY <3>5, <3>7 DEF Insert
    <3>9. QED
      BY <3>6, <3>8 DEF SameKey
  <2>3. QED
    BY <2>1, <2>2
<1>3. QED
  BY <1>1, <1>2

----
(* Provenance: whatever fails, the ledger holds what was recorded, once *)

OnWire == task \in {"sent", "accepted", "hung"} \/ pc \in {"ack", "requeue"}

\* Ids are handed out in order, so the event being recorded is a new one.
Fresh ==
  /\ \A r \in recorded : r.event.id <= calls
  /\ pc \in {"log", "queue"} =>
       /\ event.id = calls
       /\ \A r \in recorded : r.event.id < calls

IdUnique == \A r, q \in recorded : r.event.id = q.event.id => r = q

\* Everything spooled, sent, delayed or billed was recorded.
Known ==
  /\ Held(disk) \subseteq recorded
  /\ OnWire => Entries(batch) \subseteq recorded
  /\ \A b \in late : Entries(b) \subseteq recorded
  /\ ledger \subseteq {r \in recorded : IsUsage(r.event)}

KeyUnique == \A r, q \in ledger : SameKey(r, q) => r = q

Provenance == TypeInv /\ Fresh /\ IdUnique /\ Known /\ KeyUnique

\* Every write of meter-state.json takes effect, and as a whole.
Reliable == {"torn", "write"} \cap Faults = {}

\* writeFileState either leaves the file alone or writes what it was given.
LEMMA WriteHeld ==
  ASSUME NEW s \in StateFile, Write(s)
  PROVE  /\ Held(disk') \subseteq Held(disk) \cup Held(s)
         /\ Reliable => /\ Held(disk') = Held(s)
                        /\ disk'.inFlight = s.inFlight
                        /\ disk'.pending = s.pending
                        /\ disk'.chain = s.chain
<1>1. disk' = AdoptsLease(s) \/ (disk' = disk /\ ~Reliable)
  BY DEF Write, Reliable
<1>2. QED
  BY <1>1, AdoptsHeld

\* Nothing is stored or uploaded before the first start.
LEMMA ProvenanceInit == Init => Provenance
<1> SUFFICES ASSUME Init PROVE Provenance
  OBVIOUS
<1>1. TypeInv
  BY TypeInit
<1>2. Held(disk) = {}
  <2>1. Spooled(disk) = {}
    BY DEF Init, EmptyState, Spooled
  <2>2. QED
    BY <2>1 DEF Held
<1>3. QED
  BY <1>1, <1>2 DEF Init, Provenance, Fresh, IdUnique, Known, KeyUnique, OnWire

\* The event being recorded joins the history; all the rest keeps it.
LEMMA FreshStep ==
  ASSUME Provenance, TypeInv', [Next]_vars
  PROVE  Fresh' /\ IdUnique' /\ recorded \subseteq recorded'
<1> USE DEF Provenance, TypeInv, TypeOK
<1>1. \A r \in recorded : r.event.id \in Nat
  BY DEF Entry, Event
<1>2. ASSUME NEW k \in Kinds, Record(k)
      PROVE  Fresh' /\ IdUnique' /\ recorded \subseteq recorded'
  <2>1. event'.id = calls' /\ calls' = calls + 1 /\ recorded' = recorded
    BY <1>2 DEF Record
  <2>2. QED
    BY <1>1, <2>1 DEF Fresh, IdUnique
<1>3. ASSUME QueueEvent
      PROVE  Fresh' /\ IdUnique' /\ recorded \subseteq recorded'
  <2>1. /\ recorded' = recorded \cup {[jti |-> lease, event |-> event]}
        /\ calls' = calls /\ pc' = "persist" /\ pc = "queue"
    BY <1>3 DEF QueueEvent
  <2>2. event.id = calls /\ \A r \in recorded : r.event.id < calls
    BY <2>1 DEF Fresh
  <2>3. QED
    BY <1>1, <2>1, <2>2 DEF Fresh, IdUnique
<1>4. ASSUME UNCHANGED <<recorded, calls>>,
             pc' \in {"log", "queue"} => pc \in {"log", "queue"} /\ event' = event
      PROVE  Fresh' /\ IdUnique' /\ recorded \subseteq recorded'
  BY <1>4 DEF Fresh, IdUnique
<1>5. ASSUME Running, ~QueueEvent
      PROVE  /\ UNCHANGED <<recorded, calls>>
             /\ pc' \in {"log", "queue"} => pc \in {"log", "queue"} /\ event' = event
  BY <1>5 DEF Running, Restore, LogEvent, LogFails, PersistEvent, ClaimBatch,
     NothingToClaim, Acknowledge, PersistAck, RequeueBatch, Settle, DrainOnExit,
     AfterRunningFlush, Stop, BeginFinalFlush, volatile
<1>6. ASSUME \/ \E l \in Leases : Start(l)
             \/ TimerFires \/ UploadSucceeds \/ UploadFails \/ UploadHangs \/ Kill
             \/ ServerAccepts \/ LateRequestArrives
      PROVE  /\ UNCHANGED <<recorded, calls>>
             /\ pc' \in {"log", "queue"} => pc \in {"log", "queue"} /\ event' = event
  BY <1>6 DEF Start, TimerFires, UploadSucceeds, UploadFails, UploadHangs, Kill, Stop,
     ServerAccepts, LateRequestArrives, volatile
<1>7. CASE UNCHANGED vars
  BY <1>4, <1>7 DEF vars
<1>8. CASE Shutdown
  BY <1>2, <1>8, ConstantsAssumption DEF Shutdown
<1>9. CASE \E k \in Kinds : RecordEvent(k)
  BY <1>2, <1>9 DEF RecordEvent
<1>10. QED
  BY <1>3, <1>4, <1>5, <1>6, <1>7, <1>8, <1>9 DEF Next

\* No operation on the spool, the wire or the ledger makes an event up.
LEMMA KnownStep ==
  ASSUME Provenance, [Next]_vars, recorded \subseteq recorded'
  PROVE  Known'
<1> USE DEF Provenance, TypeInv, TypeOK
<1> DEFINE Moves ==
      /\ Held(disk') \subseteq recorded'
      /\ OnWire' => batch' = batch /\ OnWire
      /\ late' \subseteq late \cup (IF OnWire THEN {batch} ELSE {})
      /\ ledger' = ledger
<1>1. ASSUME Moves PROVE Known'
  BY <1>1 DEF Known
<1> HIDE DEF Moves
<1>2. Held(disk) \subseteq recorded /\ Held(disk) \subseteq recorded'
  BY DEF Known
<1>3. ASSUME NEW s \in StateFile, Write(s), Held(s) \subseteq recorded'
      PROVE  Held(disk') \subseteq recorded'
  BY <1>2, <1>3, WriteHeld
<1>4. CASE \E l \in Leases : Start(l)
  BY <1>1, <1>2, <1>4 DEF Start, Moves, OnWire
<1>5. CASE \E k \in Kinds : Record(k)
  BY <1>1, <1>2, <1>5 DEF Record, Moves, OnWire
<1>6. CASE Restore
  <2>1. PICK s \in Orders(disk.inFlight) : Write(Recovered(disk, s))
    BY <1>6 DEF Restore
  <2>2. Held(disk') \subseteq recorded'
    BY <1>2, <1>3, <2>1, RecoveredType, RecoveredHeld
  <2>3. QED
    BY <1>1, <1>6, <2>2 DEF Restore, Moves, OnWire
<1>7. CASE LogEvent \/ LogFails \/ NothingToClaim \/ DrainOnExit \/ TimerFires
  BY <1>1, <1>2, <1>7 DEF LogEvent, LogFails, NothingToClaim, DrainOnExit,
     TimerFires, BeginFinalFlush, volatile, Moves, OnWire
<1>8. CASE QueueEvent
  <2>1. lease \in Leases /\ event \in Event
    BY <1>8 DEF QueueEvent, Control
  <2>2. Held(disk') \subseteq recorded'
    BY <1>2, <1>3, <1>8, <2>1, EnqueuedType, EnqueuedHeld DEF QueueEvent
  <2>3. QED
    BY <1>1, <1>8, <2>2 DEF QueueEvent, volatile, Moves, OnWire
<1>9. ASSUME Persist, lease \in Leases PROVE Held(disk') \subseteq recorded'
  BY <1>2, <1>3, <1>9, PersistHeld DEF Persist
<1>10. CASE PersistEvent \/ PersistAck
  <2>1. Held(disk') \subseteq recorded'
    BY <1>9, <1>10 DEF PersistEvent, PersistAck, Control
  <2>2. QED
    BY <1>1, <1>10, <2>1 DEF PersistEvent, PersistAck, Moves, OnWire, Control
<1>11. CASE ClaimBatch
  <2>1. /\ Held(Claimed(disk)) = Held(disk)
        /\ Claimed(disk) \in StateFile
    BY <1>11, ClaimedType, ClaimedHeld DEF ClaimBatch
  <2>2. Held(disk') \subseteq recorded'
    BY <1>2, <1>3, <1>11, <2>1 DEF ClaimBatch
  <2>3. Entries(batch') \subseteq Held(disk)
    <3>1. Head(disk.pending) \in Claimed(disk).inFlight
      BY <1>11, ClaimedHeld DEF ClaimBatch
    <3>2. batch' = Head(disk.pending)
      BY <1>11 DEF ClaimBatch
    <3>3. QED
      BY <2>1, <3>1, <3>2, HeldMember
  <2>4. late' = late /\ ledger' = ledger
    BY <1>11 DEF ClaimBatch
  <2>5. QED
    BY <1>2, <2>2, <2>3, <2>4 DEF Known
<1>12. CASE UploadSucceeds
  BY <1>1, <1>2, <1>12 DEF UploadSucceeds, Moves, OnWire
<1>13. Abandoned \subseteq late \cup (IF OnWire THEN {batch} ELSE {})
  BY DEF Abandoned, OnWire
<1>14. CASE UploadFails \/ UploadHangs
  BY <1>1, <1>2, <1>13, <1>14 DEF UploadFails, UploadHangs, Moves, OnWire
<1>15. CASE Acknowledge
  <2>1. Held(disk') \subseteq recorded'
    BY <1>2, <1>3, <1>15, AcknowledgedType, AcknowledgedHeld DEF Acknowledge
  <2>2. QED
    BY <1>1, <1>15, <2>1 DEF Acknowledge, volatile, Moves, OnWire, Control
<1>16. CASE RequeueBatch
  <2> DEFINE claimed == {b \in disk.inFlight : b.jti = batch.jti}
  <2>1. Held(disk') \subseteq recorded'
    <3>1. CASE claimed = {}
      BY <1>2, <1>16, <3>1 DEF RequeueBatch
    <3>2. CASE claimed # {}
      <4>1. PICK c \in claimed : Write(Requeued(disk, c))
        BY <1>16, <3>2 DEF RequeueBatch
      <4>2. QED
        BY <1>2, <1>3, <4>1, RequeuedType, RequeuedHeld
    <3>3. QED
      BY <3>1, <3>2
  <2>2. QED
    BY <1>1, <1>16, <2>1 DEF RequeueBatch, Moves, OnWire
<1>17. ASSUME Stop, UNCHANGED disk, late' \in {late, Abandoned} PROVE Known'
  BY <1>1, <1>2, <1>13, <1>17 DEF Stop, Moves, OnWire
<1>18. CASE Settle
  <2>1. CASE closing = "final"
    BY <1>17, <1>18, <2>1 DEF Settle
  <2>2. CASE closing # "final"
    BY <1>1, <1>2, <1>18, <2>2 DEF Settle, Moves, OnWire
  <2>3. QED
    BY <2>1, <2>2
<1>19. CASE AfterRunningFlush
  <2>1. CASE disk.pending = <<>>
    BY <1>17, <1>19, <2>1 DEF AfterRunningFlush
  <2>2. CASE disk.pending # <<>>
    BY <1>1, <1>2, <1>19, <2>2 DEF AfterRunningFlush, BeginFinalFlush, Moves,
       OnWire
  <2>3. QED
    BY <2>1, <2>2
<1>20. CASE Kill
  <2>1. Held(EmptyState) = {}
    <3>1. Spooled(EmptyState) = {}
      BY DEF EmptyState, Spooled
    <3>2. QED
      BY <3>1 DEF Held
  <2>2. Held(disk') \subseteq recorded'
    BY <1>2, <1>20, <2>1 DEF Kill
  <2>3. QED
    BY <1>1, <1>13, <1>20, <2>2 DEF Kill, Stop, Moves, OnWire
<1>21. ASSUME NEW b \in Batch, Entries(b) \subseteq recorded
       PROVE  Insert(b) \subseteq {r \in recorded' : IsUsage(r.event)}
  BY <1>21, InsertRows DEF Known
<1>22. CASE ServerAccepts
  <2>1. batch \in Batch /\ Entries(batch) \subseteq recorded
    BY <1>22 DEF ServerAccepts, Control, Known, OnWire
  <2>2. ledger' \subseteq {r \in recorded' : IsUsage(r.event)}
    BY <1>21, <1>22, <2>1 DEF ServerAccepts
  <2>3. disk' = disk /\ batch' = batch /\ late' = late
    BY <1>22 DEF ServerAccepts
  <2>4. QED
    BY <1>2, <2>1, <2>2, <2>3 DEF Known
<1>23. CASE LateRequestArrives
  <2>1. PICK b \in late : ledger' = Insert(b) /\ late' = late \ {b}
    BY <1>23 DEF LateRequestArrives
  <2>2. Entries(b) \subseteq recorded
    BY DEF Known
  <2>3. ledger' \subseteq {r \in recorded' : IsUsage(r.event)}
    BY <1>21, <2>1, <2>2
  <2>4. disk' = disk /\ batch' = batch /\ task' = task /\ pc' = pc
    BY <1>23 DEF LateRequestArrives, volatile
  <2>5. QED
    BY <1>2, <2>1, <2>3, <2>4 DEF Known, OnWire
<1>24. CASE UNCHANGED vars
  BY <1>1, <1>2, <1>24 DEF vars, Moves, OnWire
<1>25. QED
  BY <1>4, <1>5, <1>6, <1>7, <1>8, <1>10, <1>11, <1>12, <1>14, <1>15, <1>16,
     <1>18, <1>19, <1>20, <1>22, <1>23, <1>24, ConstantsAssumption
     DEF Next, Running, RecordEvent, Shutdown

\* INSERT OR IGNORE keeps one row per key, also among the rows of one batch.
LEMMA InsertUnique ==
  ASSUME Provenance, NEW b \in Batch, Entries(b) \subseteq recorded
  PROVE  \A r, q \in Insert(b) : SameKey(r, q) => r = q
<1> DEFINE usage == {r \in Entries(b) : IsUsage(r.event)}
           new == Insert(b) \ ledger
<1>1. \A r \in new :
        /\ r \in usage
        /\ ~\E q \in ledger : q.jti = r.jti /\ q.event.seq = r.event.seq
        /\ ~\E q \in usage : /\ q.event.seq = r.event.seq
                             /\ q.event.id < r.event.id
  BY DEF Insert
<1>2. \A r \in usage : r \in recorded /\ r.event.id \in Nat
  BY <1>1 DEF Provenance, TypeInv, TypeOK, Entry, Event
<1> HIDE DEF usage, new
<1>3. ASSUME NEW r \in new, NEW q \in new, SameKey(r, q) PROVE r = q
  <2>1. r \in usage /\ q \in usage /\ r.event.seq = q.event.seq
    BY <1>1, <1>3 DEF SameKey
  <2>2. ~ (r.event.id < q.event.id) /\ ~ (q.event.id < r.event.id)
    BY <1>1, <2>1
  <2>3. r.event.id = q.event.id
    BY <1>2, <2>1, <2>2
  <2>4. QED
    BY <1>2, <2>1, <2>3 DEF Provenance, IdUnique
<1>4. ASSUME NEW r \in new, NEW q \in ledger PROVE ~SameKey(r, q)
  BY <1>1 DEF SameKey
<1>5. \A r, q \in ledger : SameKey(r, q) => r = q
  BY DEF Provenance, KeyUnique
<1>6. \A r, q : SameKey(r, q) <=> SameKey(q, r)
  BY DEF SameKey
<1>7. QED
  BY <1>3, <1>4, <1>5, <1>6 DEF new

\* Which steps write to the ledger, and what.
LEMMA LedgerStep ==
  ASSUME Provenance, [Next]_vars
  PROVE  \/ ledger' = ledger
         \/ /\ recorded' = recorded
            /\ \E b \in Batch : /\ Entries(b) \subseteq recorded
                               /\ ledger' = Insert(b)
<1> USE DEF Provenance, TypeInv, TypeOK
<1>1. CASE ServerAccepts
  <2>1. /\ batch \in Batch /\ Entries(batch) \subseteq recorded
        /\ ledger' = Insert(batch) /\ recorded' = recorded
    BY <1>1 DEF ServerAccepts, Control, Known, OnWire
  <2>2. QED
    BY <2>1
<1>2. CASE LateRequestArrives
  <2>1. /\ recorded' = recorded
        /\ \E b \in late : ledger' = Insert(b)
    BY <1>2 DEF LateRequestArrives
  <2>2. QED
    BY <2>1 DEF Known
<1>3. ASSUME [Next]_vars, ~ServerAccepts, ~LateRequestArrives
      PROVE  ledger' = ledger
  <2>1. CASE Running
    BY <2>1 DEF Running, Restore, LogEvent, LogFails, QueueEvent, PersistEvent,
       ClaimBatch, NothingToClaim, Acknowledge, PersistAck, RequeueBatch,
       Settle, DrainOnExit, AfterRunningFlush, Stop, BeginFinalFlush, volatile
  <2>2. QED
    BY <1>3, <2>1 DEF Next, Start, RecordEvent, Record, Shutdown, TimerFires,
       UploadSucceeds, UploadFails, UploadHangs, Kill, Stop, vars
<1>4. QED
  BY <1>1, <1>2, <1>3

\* Rows of the ledger are never removed.
LEMMA LedgerGrows ==
  ASSUME Provenance, [Next]_vars
  PROVE  ledger \subseteq ledger'
BY LedgerStep, InsertRows

\* Every step keeps the provenance of events.
LEMMA ProvenanceStep == Provenance /\ [Next]_vars => Provenance'
<1> SUFFICES ASSUME Provenance, [Next]_vars PROVE Provenance'
  OBVIOUS
<1>1. TypeInv'
  BY TypeStep DEF Provenance
<1>2. Fresh' /\ IdUnique' /\ recorded \subseteq recorded'
  BY <1>1, FreshStep
<1>3. Known'
  BY <1>2, KnownStep
<1>4. KeyUnique'
  <2>1. CASE ledger' = ledger
    BY <2>1 DEF Provenance, KeyUnique, SameKey
  <2>2. CASE ledger' # ledger
    <3>1. PICK b \in Batch : /\ Entries(b) \subseteq recorded
                             /\ ledger' = Insert(b)
      BY <2>2, LedgerStep
    <3>2. \A r, q \in ledger' : SameKey(r, q) => r = q
      BY <3>1, InsertUnique
    <3>3. QED
      BY <3>2 DEF KeyUnique, SameKey
  <2>3. QED
    BY <2>1, <2>2
<1>5. QED
  BY <1>1, <1>2, <1>3, <1>4 DEF Provenance

\* Whatever is queued, uploaded or accepted was recorded by the client.
THEOREM ProvenanceInvariant == Spec => []Provenance
BY ProvenanceInit, ProvenanceStep, PTL DEF Spec

\* Exactly-once billing: retries, late requests, restored batches and reused
\* sequence numbers never put a tool call into the ledger twice, nor two tool
\* calls under one event id, whatever the disk and the network do.
THEOREM BilledOnce == Spec => []NeverBilledTwice
<1>1. Provenance => NeverBilledTwice
  BY DEF Provenance, KeyUnique, IdUnique, Known, NeverBilledTwice
<1>2. QED
  BY <1>1, ProvenanceInvariant, PTL

\* The pipeline implements the abstract ledger under every fault: each step
\* meters one new usage entry, bills entries metered before, or is invisible.
THEOREM ImplementsLedger == Spec => Promise
<1>1. Init => Pipeline!Init
  BY DEF Init, Pipeline!Init
<1>2. Provenance /\ [Next]_vars => [Pipeline!Next]_(Pipeline!vars)
  <2> SUFFICES ASSUME Provenance, [Next]_vars
               PROVE  [Pipeline!Next]_(Pipeline!vars)
    OBVIOUS
  <2> DEFINE metered == {r \in recorded : IsUsage(r.event)}
  <2>1. ledger \subseteq ledger' /\ ledger' \subseteq metered'
    BY LedgerGrows, ProvenanceStep DEF Provenance, Known
  <2>2. CASE recorded' = recorded
    BY <2>1, <2>2 DEF Pipeline!Next, Pipeline!Accept, Pipeline!vars
  <2>3. CASE recorded' # recorded
    <3>1. QueueEvent
      BY <2>3 DEF Next, Running, Start, RecordEvent, Record, Shutdown,
         TimerFires, UploadSucceeds, UploadFails, UploadHangs, Kill, Stop, vars, Restore,
         LogEvent, LogFails, PersistEvent, ClaimBatch, NothingToClaim,
         Acknowledge, PersistAck, RequeueBatch, Settle, DrainOnExit,
         AfterRunningFlush, BeginFinalFlush, ServerAccepts, LateRequestArrives,
         volatile
    <3> DEFINE u == [jti |-> lease, event |-> event]
    <3>2. recorded' = recorded \cup {u} /\ ledger' = ledger
      BY <3>1 DEF QueueEvent
    <3>3. u \notin recorded
      <4>1. event \in Event /\ event.id = calls
        BY <3>1 DEF QueueEvent, Provenance, Fresh, TypeInv, Control
      <4>2. \A r \in recorded : r.event.id < calls
        BY <3>1 DEF QueueEvent, Provenance, Fresh
      <4>3. ~ (calls < calls)
        BY DEF Provenance, TypeInv, TypeOK
      <4>4. QED
        BY <4>1, <4>2, <4>3
    <3>4. CASE IsUsage(event)
      <4>1. metered' = metered \cup {u} /\ u \notin metered /\ u \in metered'
        BY <3>2, <3>3, <3>4
      <4>2. QED
        BY <3>2, <4>1 DEF Pipeline!Next, Pipeline!Meter
    <3>5. CASE ~IsUsage(event)
      <4>1. metered' = metered
        BY <3>2, <3>5
      <4>2. QED
        BY <3>2, <4>1 DEF Pipeline!vars
    <3>6. QED
      BY <3>4, <3>5
  <2>4. QED
    BY <2>2, <2>3
<1>3. QED
  BY <1>1, <1>2, ProvenanceInvariant, PTL DEF Spec, Promise, Pipeline!Spec

----
(* Retention: a disk that keeps what is written keeps every usage event *)

\* The state file claims the batch on the wire, and nothing when there is
\* none; a dead process may have left a claim behind.
Claims ==
  /\ OnWire => disk.inFlight = {batch}
  /\ OnWire \/ pc \in {"down", "restore"} \/ disk.inFlight = {}

\* An answered upload has rows in the ledger.
Answered ==
  task = "accepted" \/ pc = "ack" =>
    \A r \in Entries(batch) :
      IsUsage(r.event) => \E q \in ledger : SameKey(r, q)

Retention == TypeInv /\ Claims /\ Answered /\ Retained

\* Nothing is to be retained before the first start.
LEMMA RetentionInit == Init => Retention
<1> SUFFICES ASSUME Init PROVE Retention
  OBVIOUS
<1>1. TypeInv
  BY TypeInit
<1>2. QED
  BY <1>1 DEF Init, Retention, Claims, Answered, Retained, OnWire

\* Retained needs only this much of a step.
LEMMA Keeps ==
  ASSUME Retained, recorded' = recorded, ledger \subseteq ledger',
         \A r \in recorded :
           r \in Held(disk) =>
             \/ r \in Held(disk')
             \/ IsUsage(r.event) => \E q \in ledger' : SameKey(r, q)
  PROVE  Retained'
BY DEF Retained, SameKey

\* A step that moves batches about, at most, keeps all that is retained.
LEMMA Moves ==
  ASSUME Retention, TypeInv', recorded' = recorded, ledger' = ledger,
         Held(disk') = Held(disk), Claims',
         task' = "accepted" \/ pc' = "ack" =>
           batch' = batch /\ (task = "accepted" \/ pc = "ack")
  PROVE  Retention'
<1>1. Retained'
  BY Keeps DEF Retention
<1>2. Answered'
  BY DEF Retention, Answered, SameKey
<1>3. QED
  BY <1>1, <1>2 DEF Retention

\* Every step of a reliable client retains what is not yet accepted.
LEMMA RetentionStep ==
  ASSUME Reliable, Retention, [Next]_vars
  PROVE  Retention'
<1> USE DEF Retention, TypeInv, TypeOK
<1>0. TypeInv'
  BY TypeStep
<1>1. CASE \E l \in Leases : Start(l)
  BY <1>0, <1>1, Moves DEF Start, Claims, OnWire, Control
<1>2. CASE \E k \in Kinds : Record(k)
  BY <1>0, <1>2, Moves DEF Record, Claims, OnWire
<1>3. CASE Restore
  <2>1. PICK s \in Orders(disk.inFlight) : Write(Recovered(disk, s))
    BY <1>3 DEF Restore
  <2>2. Held(disk') = Held(disk) /\ disk'.inFlight = {}
    BY <2>1, RecoveredType, RecoveredHeld, WriteHeld
  <2>3. QED
    BY <1>0, <1>3, <2>2, Moves DEF Restore, Claims, OnWire, Control
<1>4. CASE LogEvent \/ LogFails \/ NothingToClaim
  BY <1>0, <1>4, Moves DEF LogEvent, LogFails, NothingToClaim, volatile,
     Claims, OnWire, Control
<1>5. CASE DrainOnExit \/ TimerFires
  BY <1>0, <1>5, Moves DEF DrainOnExit, TimerFires, BeginFinalFlush, Claims,
     OnWire, Control
<1>6. CASE QueueEvent
  <2> DEFINE x == [jti |-> lease, event |-> event]
  <2>1. lease \in Leases /\ event \in Event
    BY <1>6 DEF QueueEvent, Control
  <2>2. /\ Held(disk') = Held(disk) \cup {x}
        /\ disk'.inFlight = disk.inFlight
    BY <1>6, <2>1, EnqueuedType, EnqueuedHeld, WriteHeld DEF QueueEvent
  <2>3. /\ recorded' = recorded \cup {x} /\ ledger' = ledger
        /\ pc' = "persist" /\ pc = "queue" /\ task' = task /\ batch' = batch
    BY <1>6 DEF QueueEvent, volatile
  <2>4. Retained'
    BY <2>2, <2>3 DEF Retained, SameKey
  <2>5. Claims' /\ Answered'
    BY <2>2, <2>3 DEF Claims, OnWire, Answered, SameKey
  <2>6. QED
    BY <1>0, <2>4, <2>5
<1>7. CASE PersistEvent \/ PersistAck
  <2>1. Held(disk') = Held(disk) /\ disk'.inFlight = disk.inFlight
    <3> DEFINE s == [disk EXCEPT !.jti = lease, !.chain = meter]
    <3>1. Write(s) /\ lease \in Leases
      BY <1>7 DEF PersistEvent, PersistAck, Persist, Control
    <3>2. s \in StateFile /\ Held(s) = Held(disk) /\ s.inFlight = disk.inFlight
      BY <3>1, PersistHeld
    <3> HIDE DEF s
    <3>3. QED
      BY <3>1, <3>2, WriteHeld
  <2>2. QED
    BY <1>0, <1>7, <2>1, Moves DEF PersistEvent, PersistAck, Claims, OnWire,
       Control
<1>8. CASE ClaimBatch
  <2>1. disk.inFlight = {}
    BY <1>8 DEF ClaimBatch, Claims, OnWire, Control
  <2>2. /\ Held(disk') = Held(disk)
        /\ disk'.inFlight = {batch'}
    <3>1. /\ Claimed(disk) \in StateFile
          /\ Held(Claimed(disk)) = Held(disk)
          /\ Claimed(disk).inFlight = {Head(disk.pending)}
      BY <1>8, <2>1, ClaimedType, ClaimedHeld DEF ClaimBatch
    <3>2. QED
      BY <1>8, <3>1, WriteHeld DEF ClaimBatch
  <2>3. QED
    BY <1>0, <1>8, <2>2, Moves DEF ClaimBatch, Claims, OnWire, Control
<1>9. CASE UploadSucceeds \/ UploadFails \/ UploadHangs
  BY <1>0, <1>9, Moves DEF UploadSucceeds, UploadFails, UploadHangs, Claims, OnWire, Control
<1>10. CASE Acknowledge
  <2>1. disk.inFlight = {batch}
    BY <1>10 DEF Acknowledge, Claims, OnWire
  <2>2. /\ Held(disk) = Held(disk') \cup Entries(batch)
        /\ disk'.inFlight = {}
    <3> DEFINE s == Acknowledged(disk, batch.jti)
    <3>1. Write(s) /\ s \in StateFile
      BY <1>10, AcknowledgedType DEF Acknowledge
    <3>2. Held(disk) = Held(s) \cup Entries(batch) /\ s.inFlight = {}
      BY <2>1, AcknowledgedHeld
    <3> HIDE DEF s
    <3>3. QED
      BY <3>1, <3>2, WriteHeld
  <2>3. /\ recorded' = recorded /\ ledger' = ledger /\ task' = task
        /\ batch' = batch /\ pc = "ack" /\ pc' = "ackPersist"
    BY <1>10 DEF Acknowledge, volatile
  <2>4. \A r \in Entries(batch) :
          IsUsage(r.event) => \E q \in ledger' : SameKey(r, q)
    BY <2>3 DEF Answered
  <2>5. Retained'
    BY <2>2, <2>3, <2>4, Keeps
  <2>6. Claims' /\ Answered'
    BY <2>2, <2>3 DEF Claims, OnWire, Answered, Control
  <2>7. QED
    BY <1>0, <2>5, <2>6
<1>11. CASE RequeueBatch
  <2> DEFINE claimed == {b \in disk.inFlight : b.jti = batch.jti}
  <2>1. disk.inFlight = {batch} /\ claimed = {batch}
    BY <1>11 DEF RequeueBatch, Claims, OnWire
  <2>2. Write(Requeued(disk, batch))
    BY <1>11, <2>1 DEF RequeueBatch
  <2>3. Held(disk') = Held(disk) /\ disk'.inFlight = {}
    BY <2>1, <2>2, RequeuedType, RequeuedHeld, WriteHeld
  <2>4. QED
    BY <1>0, <1>11, <2>3, Moves DEF RequeueBatch, Claims, OnWire, Control
<1>12. ASSUME Stop, UNCHANGED disk PROVE Retention'
  BY <1>0, <1>12, Moves DEF Stop, Claims, OnWire
<1>13. CASE Settle
  <2>1. CASE closing = "final"
    BY <1>12, <1>13, <2>1 DEF Settle
  <2>2. CASE closing # "final"
    BY <1>0, <1>13, <2>2, Moves DEF Settle, Claims, OnWire, Control
  <2>3. QED
    BY <2>1, <2>2
<1>14. CASE AfterRunningFlush
  <2>1. CASE disk.pending = <<>>
    BY <1>12, <1>14, <2>1 DEF AfterRunningFlush
  <2>2. CASE disk.pending # <<>>
    BY <1>0, <1>14, <2>2, Moves DEF AfterRunningFlush, BeginFinalFlush, Claims,
       OnWire, Control
  <2>3. QED
    BY <2>1, <2>2
<1>15. CASE Kill
  BY <1>12, <1>15 DEF Kill, Reliable
<1>16. ASSUME NEW b \in Batch, ledger' = Insert(b), UNCHANGED recorded,
              UNCHANGED disk
       PROVE  Retained' /\ ledger \subseteq ledger'
  BY <1>16, InsertRows, Keeps
<1>17. CASE ServerAccepts
  <2>1. /\ batch \in Batch /\ batch' = batch /\ disk' = disk /\ pc' = pc
        /\ ledger' = Insert(batch) /\ recorded' = recorded
        /\ task = "sent" /\ task' = "accepted"
    BY <1>17 DEF ServerAccepts, Control
  <2>2. Answered'
    BY <2>1, InsertRows DEF Answered, SameKey
  <2>3. QED
    BY <1>0, <1>16, <2>1, <2>2 DEF Claims, OnWire
<1>18. CASE LateRequestArrives
  <2>1. PICK b \in late : ledger' = Insert(b)
    BY <1>18 DEF LateRequestArrives
  <2>2. UNCHANGED <<disk, pc, task, batch, recorded>>
    BY <1>18 DEF LateRequestArrives, volatile
  <2>3. Retained' /\ ledger \subseteq ledger'
    BY <1>16, <2>1, <2>2
  <2>4. Claims' /\ Answered'
    BY <2>2, <2>3 DEF Claims, OnWire, Answered, SameKey
  <2>5. QED
    BY <1>0, <2>3, <2>4
<1>19. CASE UNCHANGED vars
  BY <1>0, <1>19, Moves DEF vars, Claims, OnWire
<1>20. QED
  BY <1>1, <1>2, <1>3, <1>4, <1>5, <1>6, <1>7, <1>8, <1>9, <1>10, <1>11,
     <1>13, <1>14, <1>15, <1>17, <1>18, <1>19, ConstantsAssumption
     DEF Next, Running, RecordEvent, Shutdown

\* No usage is dropped: on a disk that keeps what is written, a usage event
\* stays spooled until the ledger has a row under its key, wherever the
\* process is killed.
THEOREM UsageRetained == ASSUME Reliable PROVE Spec => []Retained
<1>1. Retention => Retained
  BY DEF Retention
<1>2. QED
  BY <1>1, RetentionInit, RetentionStep, PTL DEF Spec

\* On such a disk an acknowledgement removes exactly the batch it answers.
THEOREM ClaimedIsSent == ASSUME Reliable PROVE Spec => []UploadIsClaimed
<1>1. Retention => UploadIsClaimed
  BY DEF Retention, Claims, OnWire, UploadIsClaimed
<1>2. QED
  BY <1>1, RetentionInit, RetentionStep, PTL DEF Spec

----
(***************************************************************************)
(* Proofs about the hash chain across restarts and changes of lease: no    *)
(* sequence number is used twice, the chain of a lease never forks or      *)
(* gaps, and so no usage event is ever shadowed in the ledger by another.  *)
(***************************************************************************)

\* The process is not killed between spooling an event and persisting its
\* sequence number, and an older lease never comes back.
SafeRestarts == {"kill_recording", "rollback"} \cap Faults = {}

\* What the current lease has recorded.
Own == {r \in recorded : r.jti = lease}

\* The chain c continues exactly the events in S.
Ends(c, S) ==
  /\ \A r \in S : r.event.seq < c.seq
  /\ IF c.seq = 0
       THEN c.prev = Genesis
       ELSE \E q \in S : q.event.seq = c.seq - 1 /\ q.event.id = c.prev

\* Leases are used in the order they were issued.
LeasesAscend ==
  /\ \A r \in recorded : r.jti <= lease
  /\ disk.jti <= lease
  /\ disk.chain # NoChain => disk.jti # NoLease

\* The chain in memory continues what was recorded; while an event is being
\* recorded, it is one event ahead.
MemoryChain ==
  /\ pc \in {"log", "queue"} =>
       /\ Ends(Rewound(event), Own)
       /\ meter.seq = event.seq + 1
       /\ meter.prev = event.id
  /\ pc \notin {"down", "log", "queue"} => Ends(meter, Own)

\* The chain on disk does too, unless the lease has recorded nothing yet; the
\* only moment it is behind is the one in which the process is not killed.
DiskChain ==
  pc # "persist" =>
    IF disk.jti = lease /\ disk.chain # NoChain
      THEN Ends(disk.chain, Own)
      ELSE Own = {}

Chained ==
  /\ TypeInv
  /\ LeasesAscend
  /\ MemoryChain
  /\ DiskChain
  /\ SeqUnique
  /\ ChainUnbroken

----

\* A first start has an empty chain, and nothing was recorded.
LEMMA ChainedInit == Init => Chained
<1> SUFFICES ASSUME Init PROVE Chained
  OBVIOUS
<1>1. TypeInv
  BY TypeInit
<1>2. Own = {} /\ disk.chain = NoChain /\ disk.jti = NoLease
  BY DEF Init, Own, EmptyState
<1>3. QED
  BY <1>1, <1>2 DEF Init, Chained, LeasesAscend, MemoryChain, DiskChain,
     SeqUnique, ChainUnbroken, NoLease

\* The lease of a running process is a number.
LEMMA LeaseNat ==
  /\ \A l \in Leases \cup {NoLease} : l \in Nat
  /\ \A l \in Leases : l # 0 /\ l \in Nat
BY ConstantsAssumption DEF NoLease

\* Writing batches leaves the stored chain alone, and marks it with a lease
\* only if it had none.
LEMMA WriteChain ==
  ASSUME disk \in StateFile, NEW s \in StateFile, Write(s),
         s.chain = disk.chain, s.jti = disk.jti
  PROVE  /\ disk'.chain = disk.chain
         /\ \/ disk'.jti = disk.jti
            \/ disk.jti = NoLease /\ disk'.jti = lease
<1>1. /\ AdoptsLease(s).chain = s.chain
      /\ AdoptsLease(s).jti = IF s.jti = NoLease THEN lease ELSE s.jti
  BY DEF AdoptsLease, StateFile
<1>2. QED
  BY <1>1 DEF Write

\* What only moves batches leaves the chain alone.
LEMMA BatchesOnly ==
  ASSUME NEW d \in StateFile
  PROVE  /\ \A e : Enqueued(d, e).chain = d.chain /\ Enqueued(d, e).jti = d.jti
         /\ Claimed(d).chain = d.chain /\ Claimed(d).jti = d.jti
         /\ \A j : /\ Acknowledged(d, j).chain = d.chain
                  /\ Acknowledged(d, j).jti = d.jti
         /\ \A c : Requeued(d, c).chain = d.chain /\ Requeued(d, c).jti = d.jti
         /\ \A s : Recovered(d, s).chain = d.chain /\ Recovered(d, s).jti = d.jti
<1>1. ASSUME NEW e
      PROVE  Enqueued(d, e).chain = d.chain /\ Enqueued(d, e).jti = d.jti
  <2>1. CASE Mine(d) = {}
    BY <2>1 DEF Enqueued, StateFile
  <2>2. CASE Mine(d) # {}
    <3>1. PICK k : k = Min(Mine(d))
      OBVIOUS
    <3>2. Enqueued(d, e) = [d EXCEPT !.pending[k].events = @ \cup {e}]
      BY <2>2, <3>1 DEF Enqueued
    <3>3. QED
      BY <3>2 DEF StateFile
  <2>3. QED
    BY <2>1, <2>2
<1>2. Claimed(d).chain = d.chain /\ Claimed(d).jti = d.jti
  BY DEF Claimed, StateFile
<1>3. ASSUME NEW j
      PROVE  Acknowledged(d, j).chain = d.chain /\ Acknowledged(d, j).jti = d.jti
  BY DEF Acknowledged, StateFile
<1>4. ASSUME NEW c
      PROVE  Requeued(d, c).chain = d.chain /\ Requeued(d, c).jti = d.jti
  BY DEF Requeued, StateFile
<1>5. ASSUME NEW s
      PROVE  Recovered(d, s).chain = d.chain /\ Recovered(d, s).jti = d.jti
  BY DEF Recovered, StateFile
<1>6. QED
  BY <1>1, <1>2, <1>3, <1>4, <1>5

\* Steps that neither record, nor move the chain, nor change the lease.
LEMMA Still ==
  ASSUME Chained, TypeInv', recorded' = recorded, lease' = lease,
         disk'.chain = disk.chain,
         disk'.jti = disk.jti \/ (disk.jti = NoLease /\ disk'.jti = lease),
         pc' \in {"log", "queue"} =>
           pc \in {"log", "queue"} /\ event' = event /\ meter' = meter,
         pc' \notin {"down", "log", "queue"} =>
           pc \notin {"down", "log", "queue"} /\ meter' = meter,
         pc' = "persist" <=> pc = "persist"
  PROVE  Chained'
<1> USE DEF Chained, TypeInv, TypeOK
<1>1. Own' = Own
  BY DEF Own
<1>2. SeqUnique' /\ ChainUnbroken'
  BY DEF SeqUnique, ChainUnbroken, SameKey
<1>3. lease \in Nat
  BY ConstantsAssumption DEF NoLease
<1>4. LeasesAscend'
  BY <1>3 DEF LeasesAscend
<1>5. MemoryChain'
  BY <1>1 DEF MemoryChain, Ends, Rewound
<1>6. DiskChain'
  BY <1>1 DEF DiskChain, LeasesAscend, Ends
<1>7. QED
  BY <1>2, <1>4, <1>5, <1>6

\* Steps that store the chain in memory, as it stands.
LEMMA Stored ==
  ASSUME Chained, TypeInv', recorded' = recorded, lease' = lease,
         meter' = meter, lease \in Leases,
         pc \notin {"down", "log", "queue"}, pc' \notin {"log", "queue"},
         disk'.chain = meter, disk'.jti = lease
  PROVE  Chained'
<1> USE DEF Chained, TypeInv, TypeOK
<1>1. Own' = Own
  BY DEF Own
<1>2. SeqUnique' /\ ChainUnbroken'
  BY DEF SeqUnique, ChainUnbroken, SameKey
<1>3. lease \in Nat \ {0}
  BY ConstantsAssumption
<1>4. LeasesAscend'
  BY <1>3 DEF LeasesAscend, NoLease
<1>5. Ends(meter, Own)
  BY DEF MemoryChain
<1>6. meter # NoChain
  BY DEF Chain, NoChain
<1>7. MemoryChain' /\ DiskChain'
  BY <1>1, <1>5, <1>6 DEF MemoryChain, DiskChain, Ends
<1>8. QED
  BY <1>2, <1>4, <1>7

\* QueueEvent: the event continues what its lease recorded so far.
LEMMA ChainedQueue ==
  ASSUME Chained, TypeInv', QueueEvent
  PROVE  Chained'
<1> USE DEF Chained, TypeInv, TypeOK
<1> DEFINE x == [jti |-> lease, event |-> event]
<1>1. /\ recorded' = recorded \cup {x}
      /\ lease' = lease /\ meter' = meter /\ pc = "queue" /\ pc' = "persist"
      /\ lease \in Leases /\ event \in Event
  BY DEF QueueEvent, volatile, Control
<1>2. /\ Ends(Rewound(event), Own)
      /\ meter.seq = event.seq + 1 /\ meter.prev = event.id
  BY <1>1 DEF MemoryChain
<1>3. /\ \A r \in Own : r.event.seq < event.seq
      /\ event.seq = 0 => event.prev = Genesis
      /\ event.seq # 0 =>
           \E q \in Own : q.event.seq = event.seq - 1 /\ q.event.id = event.prev
  BY <1>2 DEF Ends, Rewound
<1>4. Own' = Own \cup {x} /\ Own \subseteq recorded
  BY <1>1 DEF Own
<1>5. event.seq \in Nat /\ \A r \in recorded : r.event.seq \in Nat
  BY <1>1 DEF Event, Entry
<1>6. /\ disk'.chain = disk.chain
      /\ disk'.jti = disk.jti \/ (disk.jti = NoLease /\ disk'.jti = lease)
  BY <1>1, EnqueuedType, BatchesOnly, WriteChain DEF QueueEvent
<1>7. lease \in Nat \ {0}
  BY <1>1, ConstantsAssumption
<1>8. LeasesAscend'
  BY <1>1, <1>6, <1>7 DEF LeasesAscend, NoLease
<1>9. MemoryChain'
  <2>1. \A r \in Own' : r.event.seq < meter.seq
    BY <1>2, <1>3, <1>4, <1>5
  <2>2. x \in Own' /\ x.event.seq = meter.seq - 1 /\ x.event.id = meter.prev
    BY <1>2, <1>4, <1>5
  <2>3. meter.seq # 0
    BY <1>2, <1>5
  <2>4. QED
    BY <1>1, <2>1, <2>2, <2>3 DEF MemoryChain, Ends
<1>10. DiskChain'
  BY <1>1 DEF DiskChain
<1>11. SeqUnique'
  <2>1. \A r \in recorded : ~SameKey(r, x) /\ ~SameKey(x, r)
    BY <1>3, <1>5 DEF SameKey, Own
  <2>2. QED
    BY <1>1, <2>1 DEF SeqUnique, SameKey
<1>12. ChainUnbroken'
  <2>1. ASSUME NEW r \in recorded', r.event.seq # 0
        PROVE  \E q \in recorded' : /\ q.jti = r.jti
                                    /\ q.event.seq = r.event.seq - 1
                                    /\ q.event.id = r.event.prev
    <3>1. CASE r = x
      BY <1>3, <1>4, <1>1, <2>1, <3>1 DEF Own
    <3>2. CASE r \in recorded
      BY <1>1, <2>1, <3>2 DEF ChainUnbroken
    <3>3. QED
      BY <1>1, <3>1, <3>2
  <2>2. ASSUME NEW r \in recorded', r.event.seq = 0
        PROVE  r.event.prev = Genesis
    BY <1>1, <1>3, <2>2 DEF ChainUnbroken
  <2>3. QED
    BY <2>1, <2>2 DEF ChainUnbroken
<1>13. QED
  BY <1>8, <1>9, <1>10, <1>11, <1>12

\* Start: the stored chain of the same lease is continued, and another lease
\* has recorded nothing yet.
LEMMA ChainedStart ==
  ASSUME SafeRestarts, Chained, TypeInv', NEW l \in Leases, Start(l)
  PROVE  Chained'
<1> USE DEF Chained, TypeInv, TypeOK
<1>1. /\ recorded' = recorded /\ disk' = disk /\ lease' = l
      /\ pc = "down" /\ pc' = "restore"
      /\ meter' = IF Resumes(l) THEN disk.chain ELSE FreshChain
      /\ l >= lease
  BY DEF Start, SafeRestarts
<1>2. lease \in Nat /\ l \in Nat \ {0} /\ \A r \in recorded : r.jti \in Nat
  BY LeaseNat DEF Entry
<1>3. disk.jti \in Nat
  BY LeaseNat DEF StateFile
<1>4. LeasesAscend'
  BY <1>1, <1>2, <1>3 DEF LeasesAscend
<1>5. IF disk.jti = l /\ disk.chain # NoChain
        THEN Ends(disk.chain, Own')
        ELSE Own' = {}
  <2>1. CASE l = lease
    BY <1>1, <2>1 DEF DiskChain, Own
  <2>2. CASE l > lease
    BY <1>1, <1>2, <1>3, <2>2 DEF LeasesAscend, Own
  <2>3. QED
    BY <1>1, <1>2, <2>1, <2>2
<1>6. DiskChain'
  BY <1>1, <1>5 DEF DiskChain, Ends
<1>7. Resumes(l) <=> disk.jti = l /\ disk.chain # NoChain
  BY <1>2 DEF Resumes, LeasesAscend
<1>8. Ends(meter', Own')
  <2>1. CASE Resumes(l)
    BY <1>1, <1>5, <1>7, <2>1
  <2>2. CASE ~Resumes(l)
    BY <1>1, <1>5, <1>7, <2>2 DEF Ends, FreshChain, Genesis
  <2>3. QED
    BY <2>1, <2>2
<1>9. MemoryChain'
  BY <1>1, <1>8 DEF MemoryChain, Ends
<1>10. SeqUnique' /\ ChainUnbroken'
  BY <1>1 DEF SeqUnique, ChainUnbroken, SameKey
<1>11. QED
  BY <1>4, <1>6, <1>9, <1>10

\* Every step of a reliable client keeps its chain connected.
LEMMA ChainedStep ==
  ASSUME Reliable, SafeRestarts, Chained, [Next]_vars
  PROVE  Chained'
<1> USE DEF Chained, TypeInv, TypeOK
<1>0. TypeInv'
  BY TypeStep
<1> DEFINE KeepsChain ==
      /\ disk'.chain = disk.chain
      /\ disk'.jti = disk.jti \/ (disk.jti = NoLease /\ disk'.jti = lease)
<1>1. disk' = disk => KeepsChain
  OBVIOUS
<1>2. ASSUME NEW s \in StateFile, Write(s), s.chain = disk.chain,
             s.jti = disk.jti
      PROVE  KeepsChain
  BY <1>2, WriteChain
<1>3. CASE \E l \in Leases : Start(l)
  BY <1>0, <1>3, ChainedStart
<1>4. CASE \E k \in Kinds : Record(k)
  <2>1. /\ recorded' = recorded /\ lease' = lease /\ disk' = disk
        /\ pc = "up" /\ pc' = "log"
        /\ Rewound(event') = meter /\ meter'.seq = event'.seq + 1
        /\ meter'.prev = event'.id
    BY <1>4 DEF Record, Rewound, Chain
  <2>2. Own' = Own /\ Ends(meter, Own)
    BY <2>1 DEF Own, MemoryChain
  <2>3. LeasesAscend' /\ SeqUnique' /\ ChainUnbroken'
    BY <2>1 DEF LeasesAscend, SeqUnique, SameKey, ChainUnbroken
  <2>4. MemoryChain' /\ DiskChain'
    BY <2>1, <2>2 DEF MemoryChain, DiskChain, Ends, Rewound
  <2>5. QED
    BY <1>0, <2>3, <2>4
<1>5. CASE Restore
  <2>1. PICK s \in Orders(disk.inFlight) : Write(Recovered(disk, s))
    BY <1>5 DEF Restore
  <2>2. KeepsChain
    BY <1>2, <2>1, RecoveredType, BatchesOnly
  <2>3. QED
    BY <1>0, <1>5, <2>2, Still DEF Restore
<1>6. CASE LogEvent \/ NothingToClaim \/ DrainOnExit \/ TimerFires
             \/ UploadSucceeds \/ UploadFails \/ UploadHangs
  BY <1>0, <1>1, <1>6, Still DEF LogEvent, NothingToClaim, DrainOnExit,
     TimerFires, UploadSucceeds, UploadFails, UploadHangs, BeginFinalFlush, volatile
<1>7. CASE ServerAccepts \/ LateRequestArrives \/ UNCHANGED vars
  BY <1>0, <1>1, <1>7, Still DEF ServerAccepts, LateRequestArrives, volatile, vars
<1>8. CASE LogFails
  <2>1. /\ recorded' = recorded /\ lease' = lease /\ disk' = disk
        /\ pc = "log" /\ pc' = "up" /\ meter' = Rewound(event)
    BY <1>8 DEF LogFails
  <2>2. Own' = Own /\ Ends(Rewound(event), Own)
    BY <2>1 DEF Own, MemoryChain
  <2>3. LeasesAscend' /\ SeqUnique' /\ ChainUnbroken'
    BY <2>1 DEF LeasesAscend, SeqUnique, SameKey, ChainUnbroken
  <2>4. MemoryChain' /\ DiskChain'
    BY <2>1, <2>2 DEF MemoryChain, DiskChain, Ends
  <2>5. QED
    BY <1>0, <2>3, <2>4
<1>9. CASE QueueEvent
  BY <1>0, <1>9, ChainedQueue
<1>10. CASE PersistEvent \/ PersistAck
  <2> DEFINE s == [disk EXCEPT !.jti = lease, !.chain = meter]
  <2>1. Write(s) /\ lease \in Leases
    BY <1>10 DEF PersistEvent, PersistAck, Persist, Control
  <2>2. s \in StateFile /\ s.jti = lease /\ s.chain = meter
    BY <2>1, PersistHeld
  <2>3. CASE disk' = AdoptsLease(s)
    <3>1. disk'.jti = lease /\ disk'.chain = meter
      <4> HIDE DEF s
      <4>1. lease # NoLease
        BY <2>1, LeaseNat DEF NoLease
      <4>2. AdoptsLease(s).jti = lease /\ AdoptsLease(s).chain = meter
        BY <2>2, <4>1 DEF AdoptsLease, StateFile
      <4>3. QED
        BY <2>3, <4>2
    <3>2. QED
      BY <1>0, <1>10, <2>1, <3>1, Stored DEF PersistEvent, PersistAck
  <2>4. QED
    BY <2>1, <2>3 DEF Write, Reliable
<1>11. CASE ClaimBatch
  <2>1. KeepsChain
    BY <1>2, <1>11, ClaimedType, BatchesOnly DEF ClaimBatch
  <2>2. QED
    BY <1>0, <1>11, <2>1, Still DEF ClaimBatch
<1>12. CASE Acknowledge
  <2>1. KeepsChain
    BY <1>2, <1>12, AcknowledgedType, BatchesOnly DEF Acknowledge
  <2>2. QED
    BY <1>0, <1>12, <2>1, Still DEF Acknowledge, volatile
<1>13. CASE RequeueBatch
  <2> DEFINE claimed == {b \in disk.inFlight : b.jti = batch.jti}
  <2>1. KeepsChain
    <3>1. CASE claimed = {}
      BY <1>1, <1>13, <3>1 DEF RequeueBatch
    <3>2. CASE claimed # {}
      <4>1. PICK c \in claimed : Write(Requeued(disk, c))
        BY <1>13, <3>2 DEF RequeueBatch
      <4>2. QED
        BY <1>2, <4>1, RequeuedType, BatchesOnly
    <3>3. QED
      BY <3>1, <3>2
  <2>2. QED
    BY <1>0, <1>13, <2>1, Still DEF RequeueBatch
<1>14. ASSUME Stop, UNCHANGED disk, pc # "persist" PROVE Chained'
  BY <1>0, <1>1, <1>14, Still DEF Stop
<1>15. CASE Settle
  <2>1. CASE closing = "final"
    BY <1>14, <1>15, <2>1 DEF Settle
  <2>2. CASE closing # "final"
    BY <1>0, <1>1, <1>15, <2>2, Still DEF Settle
  <2>3. QED
    BY <2>1, <2>2
<1>16. CASE AfterRunningFlush
  <2>1. CASE disk.pending = <<>>
    BY <1>14, <1>16, <2>1 DEF AfterRunningFlush
  <2>2. CASE disk.pending # <<>>
    BY <1>0, <1>1, <1>16, <2>2, Still DEF AfterRunningFlush, BeginFinalFlush
  <2>3. QED
    BY <2>1, <2>2
<1>17. CASE Kill
  BY <1>14, <1>17 DEF Kill, SafeRestarts, Reliable
<1>18. QED
  BY <1>3, <1>4, <1>5, <1>6, <1>7, <1>8, <1>9, <1>10, <1>11, <1>12, <1>13,
     <1>15, <1>16, <1>17, ConstantsAssumption
     DEF Next, Running, RecordEvent, Shutdown

\* A client whose writes do not fail, and which is only restarted between
\* events, always keeps the chain connected.
THEOREM ChainedInvariant == ASSUME Reliable, SafeRestarts PROVE Spec => []Chained
BY ChainedInit, ChainedStep, PTL DEF Spec

\* Sequence numbers are used once per lease across any number of restarts,
\* lease changes, failed log writes and failed uploads.
THEOREM SequenceUnique ==
  ASSUME Reliable, SafeRestarts PROVE Spec => []SeqUnique
<1>1. Chained => SeqUnique
  BY DEF Chained
<1>2. QED
  BY <1>1, ChainedInvariant, PTL

\* The recorded events of a lease are one gapless hash chain from GENESIS.
THEOREM OneChain ==
  ASSUME Reliable, SafeRestarts PROVE Spec => []ChainUnbroken
<1>1. Chained => ChainUnbroken
  BY DEF Chained
<1>2. QED
  BY <1>1, ChainedInvariant, PTL

\* At-least-once delivery: a usage event stays in the spool until the ledger
\* holds that very event.  A row under its key can be no other event, since
\* rows were recorded and keys are unique.
THEOREM NoUsageLost ==
  ASSUME Reliable, SafeRestarts PROVE Spec => []NothingLost
<1>1. Retained /\ Provenance /\ SeqUnique => NothingLost
  BY DEF Retained, Provenance, Known, SeqUnique, NothingLost
<1>2. QED
  BY <1>1, UsageRetained, ProvenanceInvariant, SequenceUnique, PTL

----
(***************************************************************************)
(* Proofs about the scheduling of uploads, and about the log as a record   *)
(* of the chain.                                                           *)
(***************************************************************************)

\* Between callbacks, and while an event is being logged, a spool that is not
\* empty has somebody to empty it.  An event that is spooled next schedules a
\* flush itself.
Attended ==
  pc \in {"up", "log"} /\ disk.pending # <<>> => timer \/ task # "none"

\* No step leaves the spool to itself: each one that ends a flush or cancels
\* the timer either sees an empty spool, or sets a timer, or starts a flush.
LEMMA AttendedStep == Attended /\ [Next]_vars => Attended'
<1> SUFFICES ASSUME Attended, [Next]_vars PROVE Attended'
  OBVIOUS
<1> USE DEF Attended
<1>1. ASSUME NEW l \in Leases, Start(l) PROVE Attended'
  BY <1>1 DEF Start
<1>2. ASSUME NEW k \in Kinds, RecordEvent(k) PROVE Attended'
  BY <1>2 DEF RecordEvent, Record
<1>3. CASE Restore
  BY <1>3 DEF Restore
<1>4. CASE LogEvent
  BY <1>4 DEF LogEvent
<1>5. CASE LogFails
  BY <1>5 DEF LogFails
<1>6. CASE QueueEvent
  BY <1>6 DEF QueueEvent
<1>7. CASE PersistEvent
  BY <1>7 DEF PersistEvent, Scheduled
<1>8. CASE ClaimBatch
  BY <1>8 DEF ClaimBatch
<1>9. CASE NothingToClaim
  BY <1>9 DEF NothingToClaim
<1>10. CASE Acknowledge
  BY <1>10 DEF Acknowledge
<1>11. CASE PersistAck
  BY <1>11 DEF PersistAck
<1>12. CASE RequeueBatch
  BY <1>12 DEF RequeueBatch
<1>13. CASE Settle
  BY <1>13 DEF Settle, Stop, Rescheduled
<1>14. CASE DrainOnExit
  BY <1>14 DEF DrainOnExit, BeginFinalFlush
<1>15. CASE AfterRunningFlush
  BY <1>15 DEF AfterRunningFlush, BeginFinalFlush, Stop
<1>16. CASE TimerFires
  BY <1>16 DEF TimerFires
<1>17. CASE UploadSucceeds
  BY <1>17 DEF UploadSucceeds
<1>18. CASE UploadFails \/ UploadHangs
  BY <1>18 DEF UploadFails, UploadHangs
<1>19. CASE Shutdown
  BY <1>19 DEF Shutdown, Record
<1>20. CASE Kill
  BY <1>20 DEF Kill, Stop
<1>21. CASE ServerAccepts
  BY <1>21 DEF ServerAccepts
<1>22. CASE LateRequestArrives
  BY <1>22 DEF LateRequestArrives, volatile
<1>23. CASE UNCHANGED vars
  BY <1>23 DEF vars
<1>24. QED
  BY <1>1, <1>2, <1>3, <1>4, <1>5, <1>6, <1>7, <1>8, <1>9, <1>10, <1>11, <1>12,
     <1>13, <1>14, <1>15, <1>16, <1>17, <1>18, <1>19, <1>20, <1>21, <1>22, <1>23
     DEF Next, Running

\* Whatever fails, a running client with something to upload has a timer set
\* or a flush task alive: uploads never wait for an event that never comes.
THEOREM SpoolAttended == Spec => []NoLostWakeup
<1>1. Init => Attended
  BY DEF Init, Attended
<1>2. Attended => NoLostWakeup
  BY DEF Attended, NoLostWakeup
<1>3. QED
  BY <1>1, <1>2, AttendedStep, PTL DEF Spec

----
(* The log. *)

\* Every record that was logged is persisted: the process is not killed in
\* between, and writes of the state file succeed.  A torn file is no exception,
\* because the chain starts afresh after it.
RecordsPersist == {"kill_recording", "write"} \cap Faults = {}

\* A chain that starts afresh, or whose next event follows the last line of
\* meter.jsonl.
EndsLog(c) == c.prev = Genesis \/ (log # <<>> /\ c.prev = log[Len(log)].id)

\* The chain in memory ends the log except while an event is being logged, when
\* the event itself follows the last line; and the chain on disk does unless
\* a line was written that has not been persisted.
ChainLogged ==
  /\ pc \notin {"down", "log"} => EndsLog(meter)
  /\ pc = "log" => EndsLog(event) /\ meter.prev = event.id
  /\ pc \notin {"queue", "persist"} /\ disk.chain # NoChain => EndsLog(disk.chain)

AuditInv == TypeInv /\ ChainLogged /\ AuditChain

\* The first start finds no log and no chain.
LEMMA AuditInit == Init => AuditInv
<1> SUFFICES ASSUME Init PROVE AuditInv
  OBVIOUS
<1>1. TypeInv
  BY TypeInit
<1>2. QED
  BY <1>1 DEF AuditInv, Init, ChainLogged, AuditChain, EmptyState

\* Steps that write no line, and after which a chain is the one it was before
\* or a fresh one.
LEMMA NoLine ==
  ASSUME AuditInv, TypeInv', log' = log,
         disk'.chain \in {disk.chain, NoChain},
         pc' = "log" => pc = "log" /\ event' = event /\ meter' = meter,
         pc' \notin {"down", "log"} =>
           pc \notin {"down", "log"} /\ meter' = meter,
         pc' \notin {"queue", "persist"} =>
           pc \notin {"queue", "persist"} \/ disk'.chain = NoChain
  PROVE  AuditInv'
<1> USE DEF AuditInv
<1>1. AuditChain'
  BY DEF AuditChain
<1>2. ChainLogged'
  BY DEF ChainLogged, EndsLog
<1>3. QED
  BY <1>1, <1>2

\* Steps that store the chain in memory, as it stands.
LEMMA ChainStored ==
  ASSUME AuditInv, TypeInv', log' = log, meter' = meter,
         disk'.chain = meter, pc \notin {"down", "log"}, pc' # "log"
  PROVE  AuditInv'
<1> USE DEF AuditInv
<1>1. AuditChain'
  BY DEF AuditChain
<1>2. ChainLogged'
  BY DEF ChainLogged, EndsLog
<1>3. QED
  BY <1>1, <1>2

\* LogEvent: the new line follows the last one, and the chain follows it.
LEMMA LineAdded ==
  ASSUME AuditInv, TypeInv', LogEvent
  PROVE  AuditInv'
<1> USE DEF AuditInv, TypeInv, TypeOK
<1>1. /\ pc = "log" /\ pc' = "queue" /\ log' = Append(log, event)
      /\ meter' = meter
      /\ EndsLog(event) /\ meter.prev = event.id
  BY DEF LogEvent, ChainLogged, volatile
<1>2. event \in Event /\ log \in Seq(Event)
  BY <1>1 DEF Control
<1>3. /\ Len(log') = Len(log) + 1 /\ Len(log) \in Nat
      /\ log'[Len(log) + 1] = event
      /\ \A i \in 1..Len(log) : log'[i] = log[i]
      /\ log' # <<>>
  BY <1>1, <1>2
<1>4. AuditChain'
  <2>1. SUFFICES ASSUME NEW i \in 2..Len(log')
                 PROVE  log'[i].prev \in {Genesis, log'[i - 1].id}
    BY DEF AuditChain
  <2>2. CASE i \in 2..Len(log)
    <3>1. i \in 1..Len(log) /\ i - 1 \in 1..Len(log)
      BY <1>3, <2>2
    <3>2. log'[i] = log[i] /\ log'[i - 1] = log[i - 1]
      BY <1>3, <3>1
    <3>3. QED
      BY <2>2, <3>2 DEF AuditChain
  <2>3. CASE i = Len(log) + 1
    BY <1>1, <1>3, <2>1, <2>3 DEF EndsLog
  <2>4. QED
    BY <1>3, <2>2, <2>3
<1>5. ChainLogged'
  BY <1>1, <1>3 DEF ChainLogged, EndsLog
<1>6. QED
  BY <1>4, <1>5

\* Writing anything but the chain leaves the stored chain alone.
LEMMA BatchWrite ==
  ASSUME disk \in StateFile, NEW s \in StateFile, Write(s),
         s.chain = disk.chain
  PROVE  disk'.chain = disk.chain
<1>1. AdoptsLease(s).chain = s.chain
  BY DEF AdoptsLease, StateFile
<1>2. QED
  BY <1>1 DEF Write

\* No step breaks the log.
LEMMA AuditStep ==
  ASSUME RecordsPersist, AuditInv, [Next]_vars
  PROVE  AuditInv'
<1> USE DEF AuditInv, TypeInv, TypeOK
<1>0. TypeInv'
  BY TypeStep
<1>1. CASE \E l \in Leases : Start(l)
  <2>1. /\ log' = log /\ disk' = disk /\ pc = "down" /\ pc' = "restore"
        /\ meter' = FreshChain \/ (meter' = disk.chain /\ disk.chain # NoChain)
    BY <1>1 DEF Start, Resumes
  <2>2. EndsLog(meter)'
    <3>1. CASE meter' = FreshChain
      BY <3>1 DEF EndsLog, FreshChain
    <3>2. CASE meter' = disk.chain /\ disk.chain # NoChain
      BY <2>1, <3>2 DEF ChainLogged, EndsLog
    <3>3. QED
      BY <2>1, <3>1, <3>2
  <2>3. AuditChain'
    BY <2>1 DEF AuditChain
  <2>4. ChainLogged'
    BY <2>1, <2>2 DEF ChainLogged, EndsLog
  <2>5. QED
    BY <1>0, <2>3, <2>4
<1>2. CASE \E k \in Kinds : Record(k)
  <2>1. /\ log' = log /\ disk' = disk /\ pc = "up" /\ pc' = "log"
        /\ event'.prev = meter.prev /\ meter'.prev = event'.id
    BY <1>2 DEF Record
  <2>2. QED
    BY <1>0, <2>1 DEF ChainLogged, AuditChain, EndsLog
<1>3. CASE Restore
  <2>1. PICK s \in Orders(disk.inFlight) : Write(Recovered(disk, s))
    BY <1>3 DEF Restore
  <2>2. disk'.chain = disk.chain
    BY <2>1, BatchWrite, RecoveredType, BatchesOnly
  <2>3. QED
    BY <1>0, <1>3, <2>2, NoLine DEF Restore
<1>4. CASE LogEvent
  BY <1>0, <1>4, LineAdded
<1>5. CASE LogFails
  <2>1. /\ log' = log /\ disk' = disk /\ pc = "log" /\ pc' = "up"
        /\ meter'.prev = event.prev
    BY <1>5 DEF LogFails, Rewound
  <2>2. QED
    BY <1>0, <2>1 DEF ChainLogged, AuditChain, EndsLog
<1>6. CASE NothingToClaim \/ DrainOnExit \/ TimerFires \/ UploadSucceeds
             \/ UploadFails \/ UploadHangs \/ ServerAccepts \/ LateRequestArrives
             \/ UNCHANGED vars
  BY <1>0, <1>6, NoLine DEF NothingToClaim, DrainOnExit, TimerFires,
     UploadSucceeds, UploadFails, UploadHangs, ServerAccepts, LateRequestArrives,
     BeginFinalFlush, volatile, vars
<1>7. CASE QueueEvent
  <2>1. event \in Event /\ lease \in Leases
    BY <1>7 DEF QueueEvent, Control
  <2>2. disk'.chain = disk.chain
    BY <1>7, <2>1, EnqueuedType, BatchesOnly, BatchWrite DEF QueueEvent
  <2>3. QED
    BY <1>0, <1>7, <2>2, NoLine DEF QueueEvent, volatile
<1>8. CASE PersistEvent \/ PersistAck
  <2> DEFINE s == [disk EXCEPT !.jti = lease, !.chain = meter]
  <2>1. Write(s) /\ lease \in Leases
    BY <1>8 DEF PersistEvent, PersistAck, Persist, Control
  <2>2. s \in StateFile /\ s.chain = meter
    BY <2>1, PersistHeld
  <2>3. disk' = AdoptsLease(s)
    BY <2>1 DEF Write, RecordsPersist
  <2>4. disk'.chain = meter
    <3> HIDE DEF s
    <3>1. QED
      BY <2>2, <2>3 DEF AdoptsLease, StateFile
  <2>5. QED
    BY <1>0, <1>8, <2>4, ChainStored DEF PersistEvent, PersistAck
<1>9. CASE ClaimBatch
  <2>1. disk'.chain = disk.chain
    BY <1>9, ClaimedType, BatchesOnly, BatchWrite DEF ClaimBatch
  <2>2. QED
    BY <1>0, <1>9, <2>1, NoLine DEF ClaimBatch
<1>10. CASE Acknowledge
  <2>1. disk'.chain = disk.chain
    BY <1>10, AcknowledgedType, BatchesOnly, BatchWrite DEF Acknowledge
  <2>2. QED
    BY <1>0, <1>10, <2>1, NoLine DEF Acknowledge, volatile
<1>11. CASE RequeueBatch
  <2> DEFINE claimed == {b \in disk.inFlight : b.jti = batch.jti}
  <2>1. disk'.chain = disk.chain
    <3>1. CASE claimed = {}
      BY <1>11, <3>1 DEF RequeueBatch
    <3>2. CASE claimed # {}
      <4>1. PICK c \in claimed : Write(Requeued(disk, c))
        BY <1>11, <3>2 DEF RequeueBatch
      <4>2. QED
        BY <4>1, RequeuedType, BatchesOnly, BatchWrite
    <3>3. QED
      BY <3>1, <3>2
  <2>2. QED
    BY <1>0, <1>11, <2>1, NoLine DEF RequeueBatch
<1>12. ASSUME Stop, disk'.chain \in {disk.chain, NoChain},
              pc \notin {"queue", "persist"}
       PROVE  AuditInv'
  BY <1>0, <1>12, NoLine DEF Stop
<1>13. CASE Settle
  <2>1. CASE closing = "final"
    BY <1>12, <1>13, <2>1 DEF Settle
  <2>2. CASE closing # "final"
    BY <1>0, <1>13, <2>2, NoLine DEF Settle
  <2>3. QED
    BY <2>1, <2>2
<1>14. CASE AfterRunningFlush
  <2>1. CASE disk.pending = <<>>
    BY <1>12, <1>14, <2>1 DEF AfterRunningFlush
  <2>2. CASE disk.pending # <<>>
    BY <1>0, <1>14, <2>2, NoLine DEF AfterRunningFlush, BeginFinalFlush
  <2>3. QED
    BY <2>1, <2>2
<1>15. CASE Kill
  <2>1. disk'.chain \in {disk.chain, NoChain}
    BY <1>15 DEF Kill, EmptyState
  <2>2. QED
    BY <1>12, <1>15, <2>1 DEF Kill, RecordsPersist
<1>16. QED
  BY <1>1, <1>2, <1>3, <1>4, <1>5, <1>6, <1>7, <1>8, <1>9, <1>10, <1>11,
     <1>13, <1>14, <1>15, ConstantsAssumption
     DEF Next, Running, RecordEvent, Shutdown

\* meter.jsonl is a run of hash chains across any number of restarts, lease
\* changes and rollbacks, failed log writes and torn state files, as long as
\* an event that was logged is persisted too.
THEOREM LogAudits == ASSUME RecordsPersist PROVE Spec => []AuditChain
<1>1. AuditInv => AuditChain
  BY DEF AuditInv
<1>2. QED
  BY <1>1, AuditInit, AuditStep, PTL DEF Spec

====
