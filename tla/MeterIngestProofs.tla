---- MODULE MeterIngestProofs ----
(***************************************************************************)
(* Proofs about meter ingestion, for any number of leases, requests and    *)
(* events and both kinds of storage: what was accepted is on the ledger,   *)
(* once, and stays there.                                                  *)
(***************************************************************************)
EXTENDS MeterIngest, WellFoundedInduction, TLAPS

OneRowPerKey == Table!OneRowPerKey(rows)

Key(u, i) == NormalizeEvent(u, i).key

\* The types that an induction needs beside those of TypeOK.
Shape ==
  /\ store \in Stores
  /\ uploads \in [Numbers -> [stage : Stages, body : Uploads \cup {None},
                              todo : SUBSET Nat]]
  /\ \A n \in Numbers :
       /\ uploads[n].stage # "unsent" => uploads[n].body \in Uploads
       /\ uploads[n].todo # {} =>
            /\ uploads[n].stage = "writing"
            /\ uploads[n].todo \subseteq Candidates(uploads[n].body)

\* Every row is one that a request which passed the checks has written.
Provenance ==
  \A r \in rows : \E n \in Written : \E i \in Candidates(uploads[n].body) :
    r = NormalizeEvent(uploads[n].body, i)

\* A request that goes on has found, or made, a row for every event that it
\* does not have to write any more.
Covered ==
  \A n \in Numbers : uploads[n].stage \in {"writing", "accepted"} =>
    \A i \in Candidates(uploads[n].body) \ uploads[n].todo :
      \E r \in rows : r.key = Key(uploads[n].body, i)

Inv == Shape /\ Provenance /\ OneRowPerKey /\ Covered

----
(* Inserting a batch. *)

\* A set of natural numbers that is not empty has a least element.
LEMMA LeastNatural ==
  ASSUME NEW S \in SUBSET Nat, S # {}
  PROVE  \E x \in S : \A y \in S : x <= y
<1> DEFINE R == OpToRel(<, Nat)
<1>1. IsWellFoundedOn(R, Nat)
  BY NatLessThanWellFounded
<1>2. \A x, y \in Nat : y < x => <<y, x>> \in R
  BY DEF OpToRel
<1> HIDE DEF R
<1>3. PICK x \in S : \A y \in S : ~ (<<y, x>> \in R)
  BY <1>1, WFMin
<1>4. ASSUME NEW y \in S PROVE x <= y
  <2>1. x \in Nat /\ y \in Nat
    OBVIOUS
  <2>2. ~ (y < x)
    BY <1>2, <1>3, <2>1, Zenon
  <2>3. QED
    BY <2>1, <2>2
<1>5. QED
  BY <1>4

\* Row r is that of event i of a batch, and is new.
IsNew(r, u, I, i) ==
  /\ i \in I /\ r = NormalizeEvent(u, i)
  /\ \A p \in rows : p.key # r.key
  /\ \A j \in I : j < i => Key(u, j) # r.key

\* The rows that a batch adds are those of its events, with new keys.
LEMMA InsertedRows ==
  ASSUME NEW u, NEW I
  PROVE  \A r \in Inserted(u, I) : \E i \in I : IsNew(r, u, I, i)
BY DEF Inserted, Key, IsNew

\* INSERT OR IGNORE keeps the key unique, within the batch too.
LEMMA InsertKeepsKeys ==
  ASSUME OneRowPerKey, NEW u, NEW I \in SUBSET Nat
  PROVE  Table!OneRowPerKey(rows \cup Inserted(u, I))
<1> SUFFICES ASSUME NEW r \in rows \cup Inserted(u, I),
                    NEW q \in rows \cup Inserted(u, I), r.key = q.key
             PROVE  r = q
  BY DEF Table!OneRowPerKey
<1>1. CASE r \in rows /\ q \in rows
  BY <1>1 DEF OneRowPerKey, Table!OneRowPerKey
<1>2. CASE r \in Inserted(u, I) /\ q \in Inserted(u, I)
  <2>1. PICK i \in I : IsNew(r, u, I, i)
    BY <1>2, InsertedRows
  <2>2. PICK k \in I : IsNew(q, u, I, k)
    BY <1>2, InsertedRows
  <2>3. ~ (i < k) /\ ~ (k < i)
    BY <2>1, <2>2 DEF Key, IsNew
  <2>4. i = k
    BY <2>3
  <2>5. QED
    BY <2>1, <2>2, <2>4 DEF IsNew
<1>3. CASE r \in rows /\ q \in Inserted(u, I)
  BY <1>3, InsertedRows DEF IsNew
<1>4. CASE r \in Inserted(u, I) /\ q \in rows
  BY <1>4, InsertedRows DEF IsNew
<1>5. QED
  BY <1>1, <1>2, <1>3, <1>4

\* Afterwards each event of the batch has a row, its own or an older one.
LEMMA InsertCovers ==
  ASSUME NEW u, NEW I \in SUBSET Nat, NEW i \in I
  PROVE  \E r \in rows \cup Inserted(u, I) : r.key = Key(u, i)
<1>1. CASE \E r \in rows : r.key = Key(u, i)
  BY <1>1
<1>2. CASE \A r \in rows : r.key # Key(u, i)
  <2> DEFINE Same == {j \in I : Key(u, j) = Key(u, i)}
  <2>1. PICK k \in Same : \A j \in Same : k <= j
    BY LeastNatural
  <2>2. \A j \in I : j < k => Key(u, j) # Key(u, k)
    BY <2>1
  <2>3. NormalizeEvent(u, k) \in Inserted(u, I)
    BY <1>2, <2>1, <2>2 DEF Inserted, Key
  <2>4. QED
    BY <2>1, <2>3 DEF Key
<1>3. QED
  BY <1>1, <1>2

----
(* Every step keeps the invariant. *)

\* Events are numbered from 1.
LEMMA CandidateNumbers ==
  ASSUME NEW u \in Uploads
  PROVE  /\ Candidates(u) \subseteq DOMAIN u.events
         /\ Candidates(u) \in SUBSET Nat
BY UploadsAssumption DEF Request, Candidates

\* The invariant holds of the empty table.
LEMMA InitInv == Init => Inv
<1> SUFFICES ASSUME Init PROVE Inv
  OBVIOUS
<1>1. /\ store \in Stores /\ rows = {}
      /\ uploads = [n \in Numbers |-> [stage |-> "unsent", body |-> None, todo |-> {}]]
  BY DEF Init
<1>2. Shape
  BY <1>1 DEF Shape, Stages
<1>3. QED
  BY <1>1, <1>2 DEF Inv, Provenance, OneRowPerKey, Table!OneRowPerKey, Covered

\* A request that has arrived.
LEMMA ReceiveStep ==
  ASSUME Inv, NEW n \in Numbers, Receive(n)
  PROVE  Inv'
<1>1. PICK u \in Uploads :
        uploads' = [uploads EXCEPT ![n] =
          [stage |-> Judged(u), body |-> u,
           todo |-> IF Judged(u) = "writing" THEN Candidates(u) ELSE {}]]
  BY DEF Receive
<1>2. Judged(u) \in {"unauthorized", "writing", "invalid"}
  BY DEF Judged
<1>3. Candidates(u) \in SUBSET Nat
  BY CandidateNumbers
<1>4. /\ uploads'[n].stage = Judged(u) /\ uploads'[n].body = u
      /\ uploads'[n].todo = IF Judged(u) = "writing" THEN Candidates(u) ELSE {}
      /\ \A m \in Numbers \ {n} : uploads'[m] = uploads[m]
      /\ uploads[n].stage = "unsent"
      /\ UNCHANGED <<store, rows>>
  BY <1>1 DEF Receive, Inv, Shape
<1>5. uploads' \in [Numbers -> [stage : Stages, body : Uploads \cup {None},
                                todo : SUBSET Nat]]
  BY <1>1, <1>2, <1>3 DEF Inv, Shape, Stages
<1>6. Shape'
  BY <1>2, <1>4, <1>5 DEF Inv, Shape
<1>7. Provenance'
  <2>1. \A m \in Written : m \in Written' /\ uploads'[m] = uploads[m]
    BY <1>4 DEF Written
  <2>2. QED
    BY <1>4, <2>1 DEF Inv, Provenance
<1>8. Covered'
  BY <1>2, <1>4 DEF Inv, Covered
<1>9. OneRowPerKey'
  BY <1>4 DEF Inv, OneRowPerKey
<1>10. QED
  BY <1>6, <1>7, <1>8, <1>9 DEF Inv

\* A step that writes the events I of request n, all of them or one.
LEMMA WriteStep ==
  ASSUME Inv, NEW n \in Numbers, NEW I \in SUBSET uploads[n].todo, I # {},
         Insert(uploads[n].body, I), UNCHANGED store,
         uploads' = [uploads EXCEPT ![n].todo = @ \ I]
  PROVE  Inv' /\ rows \subseteq rows'
<1> DEFINE u == uploads[n].body
<1>1. /\ uploads[n].stage = "writing" /\ u \in Uploads
      /\ uploads[n].todo \subseteq Candidates(u)
      /\ uploads[n].todo \in SUBSET Nat
  BY DEF Inv, Shape
<1>2. /\ uploads'[n].todo = uploads[n].todo \ I
      /\ \A m \in Numbers : /\ uploads'[m].stage = uploads[m].stage
                            /\ uploads'[m].body = uploads[m].body
                            /\ m # n => uploads'[m] = uploads[m]
      /\ rows' = rows \cup Inserted(u, I)
  BY DEF Inv, Shape, Insert
<1>3. I \in SUBSET Nat /\ I \subseteq Candidates(u)
  BY <1>1
<1> HIDE DEF u
<1>4. Shape'
  <2>1. uploads' \in [Numbers -> [stage : Stages, body : Uploads \cup {None},
                                  todo : SUBSET Nat]]
    BY <1>1 DEF Inv, Shape
  <2>2. ASSUME NEW m \in Numbers
        PROVE  /\ uploads'[m].stage # "unsent" => uploads'[m].body \in Uploads
               /\ uploads'[m].todo # {} =>
                    /\ uploads'[m].stage = "writing"
                    /\ uploads'[m].todo \subseteq Candidates(uploads'[m].body)
    BY <1>1, <1>2 DEF Inv, Shape, u
  <2>3. store' \in Stores
    BY DEF Inv, Shape
  <2>4. QED
    BY <2>1, <2>2, <2>3 DEF Shape
<1>5. Provenance'
  <2>1. Written' = Written /\ n \in Written
    BY <1>1, <1>2 DEF Written
  <2>2. ASSUME NEW r \in Inserted(u, I)
        PROVE  \E i \in Candidates(u) : r = NormalizeEvent(u, i)
    BY <1>3, InsertedRows DEF IsNew
  <2>3. QED
    BY <1>2, <2>1, <2>2 DEF Inv, Provenance, Written, u
<1>6. OneRowPerKey'
  BY <1>2, <1>3, InsertKeepsKeys DEF Inv, OneRowPerKey
<1>7. Covered'
  <2> SUFFICES ASSUME NEW m \in Numbers, uploads'[m].stage \in {"writing", "accepted"},
                      NEW i \in Candidates(uploads'[m].body) \ uploads'[m].todo
               PROVE  \E r \in rows' : r.key = Key(uploads'[m].body, i)
    BY DEF Covered, Key, NormalizeEvent, Context, Direct, Verified
  <2>1. CASE i \in Candidates(uploads[m].body) \ uploads[m].todo
    BY <1>2, <2>1 DEF Inv, Covered
  <2>2. CASE m = n /\ i \in I
    BY <1>2, <1>3, <2>2, InsertCovers DEF u
  <2>3. QED
    BY <1>2, <2>1, <2>2
<1>8. QED
  BY <1>2, <1>4, <1>5, <1>6, <1>7 DEF Inv

\* The end of a request.
LEMMA EndStep ==
  ASSUME Inv, NEW n \in Numbers, Acknowledge(n) \/ Fail(n)
  PROVE  Inv'
<1>1. /\ uploads[n].stage = "writing"
      /\ uploads'[n].stage \in {"accepted", "failed"}
      /\ uploads'[n].stage = "accepted" => uploads[n].todo = {}
      /\ uploads'[n].body = uploads[n].body /\ uploads'[n].todo = {}
      /\ \A m \in Numbers \ {n} : uploads'[m] = uploads[m]
      /\ UNCHANGED <<store, rows>>
  BY DEF Inv, Shape, Acknowledge, Acknowledges, Fail
<1>2. uploads' \in [Numbers -> [stage : Stages, body : Uploads \cup {None},
                                todo : SUBSET Nat]]
  BY DEF Inv, Shape, Stages, Acknowledge, Fail
<1>3. Shape'
  BY <1>1, <1>2 DEF Inv, Shape
<1>4. Provenance'
  <2>1. Written' = Written
    BY <1>1 DEF Written
  <2>2. \A m \in Numbers : uploads'[m].body = uploads[m].body
    BY <1>1
  <2>3. QED
    BY <1>1, <2>1, <2>2 DEF Inv, Provenance, Written
<1>5. Covered'
  BY <1>1 DEF Inv, Covered
<1>6. OneRowPerKey'
  BY <1>1 DEF Inv, OneRowPerKey
<1>7. QED
  BY <1>3, <1>4, <1>5, <1>6 DEF Inv

\* The induction step; rows are only added.
LEMMA InvStep == Inv /\ [Next]_vars => Inv' /\ rows \subseteq rows'
<1> SUFFICES ASSUME Inv, [Next]_vars PROVE Inv' /\ rows \subseteq rows'
  OBVIOUS
<1>1. ASSUME NEW n \in Numbers, Receive(n) PROVE Inv' /\ UNCHANGED rows
  BY <1>1, ReceiveStep DEF Receive
<1>2. ASSUME NEW n \in Numbers, AppendBatch(n) PROVE Inv' /\ rows \subseteq rows'
  <2>1. uploads' = [uploads EXCEPT ![n].todo = @ \ uploads[n].todo]
    BY <1>2 DEF AppendBatch, Inv, Shape
  <2>2. QED
    BY <1>2, <2>1, WriteStep DEF AppendBatch
<1>3. ASSUME NEW n \in Numbers, AppendRow(n) PROVE Inv' /\ rows \subseteq rows'
  <2>1. PICK i \in uploads[n].todo :
          /\ Insert(uploads[n].body, {i})
          /\ uploads' = [uploads EXCEPT ![n].todo = @ \ {i}]
    BY <1>3 DEF AppendRow
  <2>2. {i} \in SUBSET uploads[n].todo /\ {i} # {} /\ UNCHANGED store
    BY <1>3 DEF AppendRow
  <2>3. QED
    BY <2>1, <2>2, WriteStep
<1>4. ASSUME NEW n \in Numbers, Acknowledge(n) \/ Fail(n)
      PROVE  Inv' /\ UNCHANGED rows
  BY <1>4, EndStep DEF Acknowledge, Fail
<1>5. ASSUME UNCHANGED vars PROVE Inv' /\ UNCHANGED rows
  BY <1>5 DEF vars, Inv, Shape, Provenance, Written, OneRowPerKey, Covered
<1>6. QED
  BY <1>1, <1>2, <1>3, <1>4, <1>5 DEF Next

\* The invariant holds in every state.
LEMMA Invariance == Spec => []Inv
BY InitInv, InvStep, PTL DEF Spec

----
(* The theorems. *)

\* Only requests that passed the checks have rows.
THEOREM Typed == Spec => []TypeOK
<1>1. Inv => TypeOK
  BY DEF Inv, Shape, Provenance, TypeOK
<1>2. QED
  BY <1>1, Invariance, PTL

\* Ingestion implements the append-only table that billing reads, on SQLite
\* and on D1, where the rows of several uploads are written among each other.
THEOREM Refinement == Spec => AppendOnly
<1>1. Init => Table!Init
  BY DEF Init, Table!Init
<1>2. Inv /\ Inv' /\ [Next]_vars => [Table!Accept]_(Table!vars)
  BY InvStep DEF Inv, OneRowPerKey, Table!Accept, Table!OneRowPerKey, Table!vars
<1>3. QED
  BY <1>1, <1>2, Invariance, PTL DEF Spec, AppendOnly, Table!Spec

\* Row r has the claims of lease l.
HasClaims(r, l) ==
  /\ r.event.chain = l
  /\ r.customer = Leases[l].customer
  /\ r.key = [workspace |-> Leases[l].workspace,
              seat |-> First(Leases[l].seat, "default"),
              jti |-> l, seq |-> r.event.seq]

\* Where the operator names a lease right, whatever was written of it has the
\* claims of the lease.
LEMMA NamedRow ==
  ASSUME Inv, NEW l, NamedRight(l), NEW n \in Written,
         NEW i \in Candidates(uploads[n].body),
         l \in {NormalizeEvent(uploads[n].body, i).event.chain,
                Key(uploads[n].body, i).jti}
  PROVE  HasClaims(NormalizeEvent(uploads[n].body, i), l)
<1> DEFINE u == uploads[n].body
<1>1. n \in Numbers /\ u \in Uploads
  BY DEF Inv, Shape, Written
<1>2. i \in DOMAIN u.events
  BY <1>1, CandidateNumbers
<1> HIDE DEF u
<1>3. CASE Direct(u)
  <2>1. u.events[i].chain = u.token
    BY <1>1, <1>2, <1>3, UploadsAssumption
  <2>2. Key(u, i).jti = u.token /\ NormalizeEvent(u, i).event = u.events[i]
    BY <1>3 DEF Key, NormalizeEvent, Context
  <2>3. l = u.token
    BY <2>1, <2>2 DEF u
  <2>4. /\ NormalizeEvent(u, i).customer = Leases[l].customer
        /\ NormalizeEvent(u, i).key =
             [workspace |-> Leases[l].workspace,
              seat |-> First(First(Leases[l].seat, Leases[l].seat), "default"),
              jti |-> l, seq |-> u.events[i].seq]
    BY <1>3, <2>3 DEF NormalizeEvent, Context, First
  <2>5. QED
    BY <2>1, <2>2, <2>3, <2>4 DEF First, u, HasClaims
<1>4. CASE ~Direct(u)
  <2>1. LET r == NormalizeEvent(u, i)
        IN /\ r.event.chain = l /\ r.key.jti = l
           /\ r.key.workspace = Leases[l].workspace
           /\ r.key.seat = First(Leases[l].seat, "default")
           /\ r.customer = Leases[l].customer
    BY <1>1, <1>4 DEF NamedRight, Key, u
  <2>2. LET r == NormalizeEvent(u, i)
        IN /\ r.event = u.events[i]
           /\ r.key = [workspace |-> r.key.workspace, seat |-> r.key.seat,
                       jti |-> r.key.jti, seq |-> r.event.seq]
    BY DEF NormalizeEvent
  <2>3. QED
    BY <2>1, <2>2 DEF u, HasClaims
<1>5. QED
  BY <1>3, <1>4

\* The events of two requests with one chain and one number are the same.
LEMMA OneEventPerNumber ==
  ASSUME NEW u \in Uploads, NEW i \in Candidates(u),
         NEW v \in Uploads, NEW j \in Candidates(v),
         u.events[i].chain = v.events[j].chain,
         u.events[i].seq = v.events[j].seq
  PROVE  u.events[i] = v.events[j]
BY UploadsAssumption, CandidateNumbers

\* Once an upload was acknowledged, each of its calls is on the ledger of the
\* customer of its lease, provided the operator named this lease right.
THEOREM AcceptedStaysBilled == Spec => []AcceptedIsBilled
<1>1. ASSUME Inv PROVE AcceptedIsBilled
  <2> SUFFICES ASSUME NEW n \in Numbers, uploads[n].stage = "accepted",
                      NEW i \in Candidates(uploads[n].body),
                      NamedRight(uploads[n].body.events[i].chain)
               PROVE  LET e == uploads[n].body.events[i]
                      IN \E r \in rows : /\ r.event = e
                                         /\ r.customer = Leases[e.chain].customer
    BY DEF AcceptedIsBilled
  <2> DEFINE u == uploads[n].body
             l == u.events[i].chain
  <2>1. u \in Uploads /\ uploads[n].todo = {} /\ n \in Written
    BY <1>1 DEF Inv, Shape, Written
  <2>2. PICK r \in rows : r.key = Key(u, i)
    BY <1>1, <2>1 DEF Inv, Covered
  <2>3. PICK m \in Written : \E j \in Candidates(uploads[m].body) :
          r = NormalizeEvent(uploads[m].body, j)
    BY <1>1 DEF Inv, Provenance
  <2>4. PICK j \in Candidates(uploads[m].body) :
          r = NormalizeEvent(uploads[m].body, j)
    BY <2>3
  <2>5. uploads[m].body \in Uploads
    BY <1>1 DEF Inv, Shape, Written
  <2>6. NormalizeEvent(u, i).event = u.events[i]
    BY DEF NormalizeEvent
  <2>7. Key(u, i).jti = l /\ Key(u, i).seq = u.events[i].seq
    <3>1. NormalizeEvent(u, i).event.chain = l
      BY <2>6
    <3>2. HasClaims(NormalizeEvent(u, i), l)
      BY <1>1, <2>1, <3>1, NamedRow
    <3>3. QED
      BY <2>6, <3>2 DEF HasClaims, Key
  <2>8. /\ r.event = uploads[m].body.events[j] /\ r.event.chain = l
        /\ r.customer = Leases[l].customer /\ r.key.seq = r.event.seq
    <3>1. Key(uploads[m].body, j).jti = l
      BY <2>2, <2>4, <2>7 DEF Key
    <3>2. HasClaims(r, l)
      BY <1>1, <2>4, <3>1, NamedRow
    <3>3. QED
      BY <2>4, <3>2 DEF HasClaims, NormalizeEvent
  <2>9. r.event = u.events[i]
    BY <2>1, <2>2, <2>5, <2>7, <2>8, OneEventPerNumber
  <2>10. QED
    BY <2>8, <2>9
<1>2. QED
  BY <1>1, Invariance, PTL

\* No call is billed twice, or to the customer of another lease, under the
\* same condition.
THEOREM BilledOnce == Spec => []CalledOnceBilledOnce
<1>1. ASSUME Inv PROVE CalledOnceBilledOnce
  <2>1. ASSUME NEW r \in rows, NamedRight(r.event.chain)
        PROVE  HasClaims(r, r.event.chain)
    <3>1. PICK n \in Written : \E i \in Candidates(uploads[n].body) :
            r = NormalizeEvent(uploads[n].body, i)
      BY <1>1 DEF Inv, Provenance
    <3>2. PICK i \in Candidates(uploads[n].body) :
            r = NormalizeEvent(uploads[n].body, i)
      BY <3>1
    <3>3. QED
      BY <1>1, <2>1, <3>2, NamedRow
  <2>2. ASSUME NEW r \in rows, NEW q \in rows, NamedRight(r.event.chain),
               q.event = r.event
        PROVE  q = r
    <3>1. NamedRight(q.event.chain)
      BY <2>2
    <3>2. q.key = r.key
      BY <2>1, <2>2, <3>1 DEF HasClaims
    <3>3. QED
      BY <1>1, <3>2 DEF Inv, OneRowPerKey, Table!OneRowPerKey
  <2>3. QED
    BY <2>1, <2>2 DEF CalledOnceBilledOnce, HasClaims
<1>2. QED
  BY <1>1, Invariance, PTL

====
