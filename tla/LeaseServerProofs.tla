---- MODULE LeaseServerProofs ----
(***************************************************************************)
(* Proofs about the lease counters, for any number of requests and         *)
(* holders, under every interleaving and fault: what a rejection means,    *)
(* and that counters neither repeat nor go back as long as no two requests *)
(* to issue to one holder race, and the store keeps what it has.           *)
(***************************************************************************)
EXTENDS LeaseServer, TLAPS

\* A lease is the work of the request it names, and only leases that were
\* given are verified or known.
Authorship ==
  /\ \A r \in Requests : req[r].op = "issue" => req[r].lease.id = r
  /\ \A r \in Requests : req[r].op = "verify" => req[r].lease \in given
  /\ \A r \in Requests : req[r].stage # "new" => req[r].known \subseteq given
  /\ \A l \in given : req[l.id].op = "issue" /\ req[l.id].lease = l

\* A row of lease_counters is the counter of a lease that was signed.
Backed ==
  \A h \in Holders : counter[h] # NoCounter =>
    \E m \in Signed(h) : m.counter = counter[h]

RewindInv == TypeOK /\ Authorship /\ Backed /\ RewindHasCause

----
(* The shape of the steps. *)

\* Every step keeps the types.
LEMMA TypeStep == TypeOK /\ [Next]_vars => TypeOK'
<1> SUFFICES ASSUME TypeOK, [Next]_vars PROVE TypeOK'
  OBVIOUS
<1> USE DEF TypeOK
<1>1. ASSUME NEW r \in Requests, NEW l \in Lease, NEW op \in {"issue", "verify"},
             NEW s \in Stages \ {"new"}, Begins(r, op, s, l)
      PROVE  req' \in [Requests -> Request]
  BY <1>1 DEF Begins, Request
<1>2. ASSUME NEW r \in Requests, NEW s \in Stages \ {"new"}, req[r].stage # "new",
             req' = [req EXCEPT ![r].stage = s]
      PROVE  req' \in [Requests -> Request] /\ req[r].lease \in Lease
  BY <1>2 DEF Request
<1>3. ASSUME NEW r \in Requests, NEW h \in Holders, BeginIssue(r, h) PROVE TypeOK'
  <2> DEFINE l == [id |-> r, holder |-> h, counter |-> NextCounter(counter[h])]
  <2>1. l \in Lease
    BY DEF Lease, NextCounter, NoCounter
  <2>2. /\ Begins(r, "issue", "read", l) /\ counter' = counter /\ given' = given
        /\ spoiled' \subseteq Holders
    BY <1>3 DEF BeginIssue
  <2> HIDE DEF l
  <2>3. QED
    BY <1>1, <2>1, <2>2 DEF Stages
<1>4. ASSUME NEW r \in Requests, CommitIssue(r) \/ CommitVerify(r) PROVE TypeOK'
  <2>1. req[r].lease \in Lease /\ req' \in [Requests -> Request]
    BY <1>2, <1>4 DEF CommitIssue, CommitVerify, Stages
  <2>2. counter' \in [Holders -> Nat \cup {NoCounter}]
    BY <1>4, <2>1 DEF CommitIssue, CommitVerify, Written, Stored, Lease
  <2>3. QED
    BY <1>4, <2>1, <2>2 DEF CommitIssue, CommitVerify
<1>5. ASSUME NEW r \in Requests, Grant(r) \/ RefuseWritten(r) PROVE TypeOK'
  <2>1. req[r].lease \in Lease /\ req' \in [Requests -> Request]
    BY <1>2, <1>5 DEF Grant, RefuseWritten, Stages
  <2>2. QED
    BY <1>5, <2>1 DEF Grant, RefuseWritten
<1>6. ASSUME NEW r \in Requests, NEW l \in given, BeginVerify(r, l) PROVE TypeOK'
  <2>1. PICK s \in {Comparison(l, counter[l.holder]), "refused"} :
          Begins(r, "verify", s, l)
    BY <1>6 DEF BeginVerify
  <2>2. s \in Stages \ {"new"}
    BY DEF Comparison, Stages
  <2>3. QED
    BY <1>1, <1>6, <2>1, <2>2 DEF BeginVerify
<1>7. ASSUME NEW r \in Requests, StoreFails(r) PROVE TypeOK'
  <2>1. req[r].lease \in Lease /\ req' \in [Requests -> Request]
    BY <1>2, <1>7 DEF StoreFails, Stages
  <2>2. counter' \in [Holders -> Nat \cup {NoCounter}]
    BY <1>7, <2>1 DEF StoreFails, Written, Stored, Lease
  <2>3. QED
    BY <1>7, <2>1, <2>2 DEF StoreFails
<1>8. CASE Restart
  <2>1. req' \in [Requests -> Request]
    BY <1>8 DEF Restart, Open, Request, Stages
  <2>2. counter' \in [Holders -> Nat \cup {NoCounter}]
    BY <1>8 DEF Restart
  <2>3. QED
    BY <1>8, <2>1, <2>2 DEF Restart
<1>9. CASE UNCHANGED vars
  BY <1>9 DEF vars
<1>10. QED
  BY <1>3, <1>4, <1>5, <1>6, <1>7, <1>8, <1>9 DEF Next

\* The lease counters always have their types.
THEOREM LeaseTypeCorrect == Spec => []TypeOK
<1>1. Init => TypeOK
  BY DEF Init, TypeOK, Request
<1>2. QED
  BY <1>1, TypeStep, PTL DEF Spec

\* A request that has begun keeps its lease, and a step that is not its
\* beginning changes no more than its stage.
LEMMA Kept ==
  TypeOK /\ [Next]_vars =>
    /\ given \subseteq given'
    /\ \A r \in Requests : req[r].stage # "new" =>
         /\ req'[r].stage # "new"
         /\ req'[r].op = req[r].op
         /\ req'[r].lease = req[r].lease
         /\ req'[r].known = req[r].known
<1> SUFFICES ASSUME TypeOK, [Next]_vars
             PROVE  /\ given \subseteq given'
                    /\ \A r \in Requests : req[r].stage # "new" =>
                         /\ req'[r].stage # "new"
                         /\ req'[r].op = req[r].op
                         /\ req'[r].lease = req[r].lease
                         /\ req'[r].known = req[r].known
  OBVIOUS
<1>0. req \in [Requests -> Request]
  BY DEF TypeOK
<1>1. given \subseteq given'
  BY DEF Next, BeginIssue, CommitIssue, Grant, RefuseWritten, BeginVerify,
         CommitVerify, StoreFails, Restart, vars
<1>2. ASSUME NEW r \in Requests, NEW s, NEW op, NEW l, Begins(r, op, s, l),
             NEW q \in Requests, req[q].stage # "new"
      PROVE  req'[q] = req[q]
  BY <1>0, <1>2 DEF Begins
<1>3. ASSUME NEW r \in Requests, NEW s \in Stages \ {"new"}, req[r].stage # "new",
             req' = [req EXCEPT ![r].stage = s],
             NEW q \in Requests, req[q].stage # "new"
      PROVE  /\ req'[q].stage # "new" /\ req'[q].op = req[q].op
             /\ req'[q].lease = req[q].lease /\ req'[q].known = req[q].known
  BY <1>0, <1>3 DEF Request
<1>4. ASSUME Restart, NEW q \in Requests, req[q].stage # "new"
      PROVE  /\ req'[q].stage # "new" /\ req'[q].op = req[q].op
             /\ req'[q].lease = req[q].lease /\ req'[q].known = req[q].known
  BY <1>0, <1>4 DEF Restart, Open, Request
<1>5. CASE \/ \E r \in Requests, h \in Holders : BeginIssue(r, h)
         \/ \E r \in Requests, l \in given : BeginVerify(r, l)
  BY <1>1, <1>2, <1>5 DEF BeginIssue, BeginVerify
<1>6. ASSUME NEW r \in Requests,
             CommitIssue(r) \/ CommitVerify(r) \/ Grant(r) \/ RefuseWritten(r) \/ StoreFails(r),
             NEW q \in Requests, req[q].stage # "new"
      PROVE  /\ req'[q].stage # "new" /\ req'[q].op = req[q].op
             /\ req'[q].lease = req[q].lease /\ req'[q].known = req[q].known
  <2>1. PICK s \in Stages \ {"new"} : req' = [req EXCEPT ![r].stage = s]
    BY <1>6 DEF CommitIssue, CommitVerify, Grant, RefuseWritten, StoreFails, Stages
  <2>2. req[r].stage # "new"
    BY <1>6 DEF CommitIssue, CommitVerify, Grant, RefuseWritten, StoreFails
  <2>3. QED
    BY <1>3, <1>6, <2>1, <2>2
<1>7. CASE Restart \/ UNCHANGED vars
  BY <1>1, <1>4, <1>7 DEF vars
<1>8. QED
  BY <1>1, <1>5, <1>6, <1>7 DEF Next

\* Leases remain the work of the requests they name.
LEMMA AuthorshipStep == TypeOK /\ Authorship /\ [Next]_vars => Authorship'
<1> SUFFICES ASSUME TypeOK, Authorship, [Next]_vars PROVE Authorship'
  OBVIOUS
<1>0. /\ req \in [Requests -> Request] /\ given \subseteq Lease
      /\ given \subseteq given'
      /\ \A r \in Requests : req[r].stage # "new" =>
           /\ req'[r].stage # "new"
           /\ req'[r].op = req[r].op
           /\ req'[r].lease = req[r].lease
           /\ req'[r].known = req[r].known
  BY Kept DEF TypeOK
<1>1. \A r \in Requests : req[r].stage = "new" => req[r].op = "none"
  BY <1>0 DEF Request
<1>2. ASSUME NEW r \in Requests, NEW s, NEW op \in {"issue", "verify"}, NEW l,
             Begins(r, op, s, l), given' = given,
             op = "issue" => l.id = r, op = "verify" => l \in given
      PROVE  Authorship'
  <2>1. /\ req'[r].op = op /\ req'[r].lease = l /\ req'[r].known = given
        /\ \A q \in Requests \ {r} : req'[q] = req[q]
        /\ req[r].stage = "new"
    BY <1>0, <1>2 DEF Begins
  <2>2. \A m \in given : m.id \in Requests /\ m.id # r
    BY <1>0, <1>1, <2>1 DEF Authorship, Lease
  <2>3. QED
    BY <1>0, <1>2, <2>1, <2>2 DEF Authorship
<1>3. ASSUME \A r \in Requests : req[r].stage = "new" => req'[r] = req[r],
             given' = given
      PROVE  Authorship'
  <2>1. \A m \in given : m.id \in Requests
    BY <1>0 DEF Lease
  <2>2. QED
    BY <1>0, <1>1, <1>3, <2>1 DEF Authorship
<1>4. CASE \E r \in Requests, h \in Holders : BeginIssue(r, h)
  <2>1. PICK r \in Requests, h \in Holders : BeginIssue(r, h)
    BY <1>4
  <2>2. Begins(r, "issue", "read",
               [id |-> r, holder |-> h, counter |-> NextCounter(counter[h])])
    BY <2>1 DEF BeginIssue
  <2>3. QED
    BY <1>2, <2>1, <2>2 DEF BeginIssue
<1>5. CASE \E r \in Requests : CommitIssue(r) \/ CommitVerify(r)
                                 \/ RefuseWritten(r) \/ StoreFails(r)
  <2>1. PICK r \in Requests : CommitIssue(r) \/ CommitVerify(r)
                                \/ RefuseWritten(r) \/ StoreFails(r)
    BY <1>5
  <2>2. /\ given' = given /\ req[r].stage # "new"
        /\ \A q \in Requests \ {r} : req'[q] = req[q]
    BY <1>0, <2>1 DEF CommitIssue, CommitVerify, RefuseWritten, StoreFails
  <2>3. QED
    BY <1>3, <2>2
<1>6. CASE \E r \in Requests : Grant(r)
  <2>1. PICK r \in Requests : Grant(r)
    BY <1>6
  <2>2. /\ given' = given \cup {req[r].lease}
        /\ req[r].op = "issue" /\ req[r].stage # "new"
        /\ \A q \in Requests \ {r} : req'[q] = req[q]
    BY <1>0, <2>1 DEF Grant
  <2>3. req[r].lease.id = r /\ \A m \in given : m.id \in Requests
    BY <1>0, <2>2 DEF Authorship, Lease
  <2>4. QED
    BY <1>0, <1>1, <2>2, <2>3 DEF Authorship
<1>7. CASE \E r \in Requests, l \in given : BeginVerify(r, l)
  <2>1. PICK r \in Requests, l \in given : BeginVerify(r, l)
    BY <1>7
  <2>2. PICK s : Begins(r, "verify", s, l)
    BY <2>1 DEF BeginVerify
  <2>3. QED
    BY <1>2, <2>1, <2>2 DEF BeginVerify
<1>8. CASE Restart
  <2>1. given' = given /\ \A r \in Requests : req[r].stage = "new" => req'[r] = req[r]
    BY <1>0, <1>8 DEF Restart, Open
  <2>2. QED
    BY <1>3, <2>1
<1>9. CASE UNCHANGED vars
  BY <1>3, <1>9 DEF vars
<1>10. QED
  BY <1>4, <1>5, <1>6, <1>7, <1>8, <1>9 DEF Next

----
(* What a rejection means. *)

\* What was signed for a holder stays signed.
LEMMA SignedGrows ==
  ASSUME TypeOK, [Next]_vars, NEW h
  PROVE  Signed(h) \subseteq Signed(h)'
<1>1. \A r \in Requests : req[r].op = "issue" => req[r].stage # "new"
  BY DEF TypeOK, Request
<1>2. \A r \in Requests : req[r].op = "issue" =>
        req'[r].op = "issue" /\ req'[r].lease = req[r].lease
  BY <1>1, Kept
<1>3. QED
  BY <1>2 DEF Signed

\* The lease of every request was signed, if not by it then for it.
LEMMA LeaseSigned ==
  ASSUME TypeOK, Authorship, NEW r \in Requests, req[r].stage # "new"
  PROVE  req[r].lease \in Signed(req[r].lease.holder)
<1>1. req[r].op = "issue" \/ req[r].op = "verify"
  BY DEF TypeOK, Request
<1>2. CASE req[r].op = "issue"
  BY <1>2 DEF Signed
<1>3. CASE req[r].op = "verify"
  <2> DEFINE l == req[r].lease
  <2>1. l \in given /\ l.id \in Requests
    BY <1>3 DEF Authorship, TypeOK, Lease
  <2>2. req[l.id].op = "issue" /\ req[l.id].lease = l
    BY <2>1 DEF Authorship
  <2>3. QED
    BY <2>1, <2>2 DEF Signed
<1>4. QED
  BY <1>1, <1>2, <1>3

\* Rows of lease_counters keep being counters of signed leases.
LEMMA BackedStep == TypeOK /\ Authorship /\ Backed /\ [Next]_vars => Backed'
<1> SUFFICES ASSUME TypeOK, Authorship, Backed, [Next]_vars,
                    NEW h \in Holders, counter'[h] # NoCounter
             PROVE  \E m \in Signed(h)' : m.counter = counter'[h]
  BY DEF Backed
<1>1. CASE counter'[h] = counter[h]
  BY <1>1, SignedGrows DEF Backed
<1>2. CASE counter'[h] # counter[h]
  <2>1. PICK r \in Requests : /\ req[r].stage # "new"
                              /\ counter' = Written(req[r].lease)
    BY <1>2 DEF Next, BeginIssue, CommitIssue, Grant, RefuseWritten, BeginVerify,
                CommitVerify, StoreFails, Restart, vars
  <2>2. h = req[r].lease.holder /\ counter'[h] = req[r].lease.counter
    BY <1>2, <2>1 DEF Written, Stored, TypeOK
  <2>3. req[r].lease \in Signed(h)
    BY <2>1, <2>2, LeaseSigned
  <2>4. QED
    BY <2>2, <2>3, SignedGrows
<1>3. QED
  BY <1>1, <1>2

\* However requests interleave and whatever the store loses, a lease is only
\* rejected as a rewind when a newer one was signed for its holder.
THEOREM RewindMeansNewer == Spec => []RewindHasCause
<1>1. Init => RewindInv
  BY DEF Init, RewindInv, TypeOK, Request, Authorship, Backed, RewindHasCause
<1>2. ASSUME RewindInv, [Next]_vars PROVE RewindInv'
  <2>0. TypeOK /\ Authorship /\ Backed /\ RewindHasCause
    BY <1>2 DEF RewindInv
  <2>1. TypeOK' /\ Authorship' /\ Backed'
    BY <1>2, <2>0, TypeStep, AuthorshipStep, BackedStep
  <2>2. ASSUME NEW r \in Requests, req'[r].stage = "rewound"
        PROVE  \E l \in Lease : /\ req'[r].lease = l
                                /\ \E m \in Signed(l.holder)' : m.counter > l.counter
    <3>1. CASE req[r].stage = "rewound"
      <4>1. PICK l \in Lease : req[r].lease = l
        BY <2>0, <3>1 DEF TypeOK, Request
      <4>2. req'[r].lease = l
        BY <1>2, <2>0, <3>1, <4>1, Kept
      <4>3. PICK m \in Signed(l.holder) : m.counter > l.counter
        BY <2>0, <3>1, <4>1 DEF RewindHasCause
      <4>4. Signed(l.holder) \subseteq Signed(l.holder)'
        BY <1>2, <2>0, SignedGrows
      <4>5. QED
        BY <4>2, <4>3, <4>4
    <3>2. CASE req[r].stage # "rewound"
      <4>1. PICK l \in given : BeginVerify(r, l)
        BY <1>2, <2>0, <2>2, <3>2
           DEF Next, BeginIssue, CommitIssue, Grant, RefuseWritten, BeginVerify,
               CommitVerify, StoreFails, Restart, vars, Begins, TypeOK, Request
      <4>2. req'[r].lease = l /\ Comparison(l, counter[l.holder]) = "rewound"
        BY <2>0, <2>2, <4>1 DEF BeginVerify, Begins, TypeOK
      <4>3. /\ l \in Lease /\ l.holder \in Holders /\ l.counter < counter[l.holder]
            /\ counter[l.holder] # NoCounter
        BY <2>0, <4>2 DEF Comparison, Rewinds, TypeOK, Lease
      <4>4. PICK m \in Signed(l.holder) : m.counter = counter[l.holder]
        BY <2>0, <4>3 DEF Backed
      <4>5. m.counter > l.counter
        BY <2>0, <4>3, <4>4 DEF TypeOK, Lease
      <4>6. Signed(l.holder) \subseteq Signed(l.holder)'
        BY <1>2, <2>0, SignedGrows
      <4>7. QED
        BY <4>2, <4>3, <4>4, <4>5, <4>6
    <3>3. QED
      BY <3>1, <3>2
  <2>3. RewindHasCause'
    <3> SUFFICES ASSUME NEW r \in Requests, req'[r].stage = "rewound"
                 PROVE  (\E m \in Signed(req[r].lease.holder) :
                           m.counter > req[r].lease.counter)'
      BY DEF RewindHasCause
    <3>1. PICK l \in Lease : /\ req'[r].lease = l
                             /\ \E m \in Signed(l.holder)' : m.counter > l.counter
      BY <2>2
    <3>2. Signed(req[r].lease.holder)' = Signed(l.holder)'
      BY <3>1 DEF Signed
    <3>3. QED
      BY <3>1, <3>2
  <2>4. QED
    BY <2>1, <2>3 DEF RewindInv
<1>3. RewindInv => RewindHasCause
  BY DEF RewindInv
<1>4. QED
  BY <1>1, <1>2, <1>3, PTL DEF Spec

----
(* Counters of holders whose requests to issue do not race. *)

\* The leases that were given are those of the granted requests.
GivenGranted == \A l \in given : req[l.id].stage = "granted"

\* Requests of holder h whose counter is stored, and which may give a lease.
Live(h) ==
  {r \in Requests : /\ req[r].op = "issue" /\ req[r].stage \in {"written", "granted"}
                    /\ req[r].lease.holder = h}

\* The lease of request r is newer than those that were given when it arrived,
\* or no older if it was accepted.
Latest(r) ==
  \A m \in req[r].known :
    m.holder = req[r].lease.holder =>
      /\ req[r].op = "issue" => m.counter < req[r].lease.counter
      /\ req[r].op = "verify" /\ req[r].stage = "accepted" =>
           m.counter <= req[r].lease.counter

\* The counter of holder h is ahead of all its leases, and one request at most
\* is about to take it one further.
Steady(h) ==
  /\ \A r \in Live(h) : req[r].lease.counter <= counter[h]
  /\ \A r, q \in Live(h) : req[r].lease.counter = req[q].lease.counter => r = q
  /\ \A r \in Pending(h) :
       req[r].op = "issue" /\ req[r].lease.counter = counter[h] + 1
  /\ \A r, q \in Pending(h) : r = q
  /\ \A r \in Requests :
       req[r].stage # "new" /\ req[r].lease.holder = h => Latest(r)

SteadyInv ==
  TypeOK /\ Authorship /\ GivenGranted /\ \A h \in Holders \ spoiled : Steady(h)

\* Granted requests are never touched again.
LEMMA GivenGrantedStep ==
  ASSUME TypeOK, Authorship, GivenGranted, [Next]_vars
  PROVE  GivenGranted'
<1>0. /\ req \in [Requests -> Request]
      /\ \A l \in given : l.id \in Requests /\ req[l.id].stage = "granted"
      /\ \A r \in Requests : req[r].op = "issue" => req[r].lease.id = r
  BY DEF TypeOK, Authorship, GivenGranted, Lease
<1>1. ASSUME NEW r \in Requests, req[r].stage = "granted"
      PROVE  req'[r] = req[r]
  BY <1>0, <1>1 DEF Next, BeginIssue, CommitIssue, Grant, RefuseWritten, BeginVerify,
     CommitVerify, StoreFails, Restart, vars, Begins, Open
<1>2. CASE \E r \in Requests : Grant(r)
  BY <1>0, <1>1, <1>2 DEF Grant, GivenGranted
<1>3. CASE given' = given
  BY <1>0, <1>1, <1>3 DEF GivenGranted
<1>4. QED
  BY <1>2, <1>3 DEF Next, BeginIssue, CommitIssue, RefuseWritten, BeginVerify,
     CommitVerify, StoreFails, Restart, vars

\* A holder that is spoiled remains so.
LEMMA SpoiledGrows == TypeOK /\ [Next]_vars => spoiled \subseteq spoiled'
BY DEF TypeOK, Next, BeginIssue, CommitIssue, Grant, RefuseWritten, BeginVerify,
       CommitVerify, StoreFails, Restart, vars

\* The leases of a holder whose counter is ahead are not newer than it.
LEMMA GivenBelow ==
  ASSUME TypeOK, Authorship, GivenGranted, NEW h \in Holders, Steady(h),
         NEW m \in given, m.holder = h
  PROVE  m.counter \in Nat /\ m.counter <= counter[h]
<1>1. m \in Lease
  BY DEF TypeOK
<1>2. req[m.id].op = "issue" /\ req[m.id].lease = m /\ req[m.id].stage = "granted"
  BY DEF Authorship, GivenGranted
<1>3. m.id \in Live(h)
  BY <1>1, <1>2 DEF Live, Lease
<1>4. QED
  BY <1>1, <1>2, <1>3 DEF Steady, Lease

\* Each step keeps the counter of a holder ahead, unless it spoils the holder.
LEMMA SteadyStep ==
  ASSUME TypeOK, Authorship, GivenGranted, [Next]_vars,
         NEW h \in Holders, h \notin spoiled', Steady(h)
  PROVE  Steady(h)' /\ counter'[h] >= counter[h]
<1>0. /\ req \in [Requests -> Request] /\ given \subseteq Lease
      /\ counter \in [Holders -> Nat \cup {NoCounter}]
      /\ counter[h] \in Int
      /\ \A r \in Requests : req[r].stage # "new" =>
           /\ req[r].lease \in Lease /\ req[r].lease.counter \in Nat
           /\ req[r].lease.holder \in Holders
  BY DEF TypeOK, Request, Lease, NoCounter
<1>a. \A r \in Requests : req[r].op = "issue" => req[r].stage # "new"
  BY <1>0 DEF Request
\* A request moves on, and neither becomes live nor stores anything.
<1>1. ASSUME NEW r \in Requests, NEW s \in Stages \ {"read", "written", "accepted"},
             req' = [req EXCEPT ![r].stage = s], req[r].stage # "new",
             s = "granted" => req[r].stage = "written", counter' = counter
      PROVE  Steady(h)'
  <2>1. /\ \A q \in Requests \ {r} : req'[q] = req[q]
        /\ req'[r].stage = s /\ req'[r].op = req[r].op
        /\ req'[r].lease = req[r].lease /\ req'[r].known = req[r].known
    BY <1>0, <1>1 DEF Request
  <2>2. Live(h)' \subseteq Live(h) /\ Pending(h)' \subseteq Pending(h)
    BY <1>1, <2>1 DEF Live, Pending
  <2>3. Live(h) \subseteq Requests /\ Pending(h) \subseteq Requests
    BY DEF Live, Pending
  <2>4. \A q \in Requests : req'[q].lease = req[q].lease /\ req'[q].op = req[q].op
    BY <2>1
  <2>5. ASSUME NEW q \in Requests, req'[q].stage # "new", req'[q].lease.holder = h
        PROVE  Latest(q)'
    <3>1. Latest(q) /\ req[q].stage # "new"
      BY <1>1, <2>1, <2>5 DEF Steady
    <3>2. QED
      BY <1>1, <2>1, <3>1 DEF Latest
  <2>6. QED
    BY <1>1, <2>2, <2>3, <2>4, <2>5 DEF Steady
\* The counter of a request to issue is stored, reported or not.
<1>2. ASSUME NEW r \in Requests, req[r].op = "issue", req[r].stage = "read",
             counter' = Written(req[r].lease), NEW s \in {"written", "refused"},
             req' = [req EXCEPT ![r].stage = s]
      PROVE  Steady(h)' /\ counter'[h] >= counter[h]
  <2>0. PICK l \in Lease : l = req[r].lease
    BY <1>0, <1>2
  <2>1. /\ \A q \in Requests \ {r} : req'[q] = req[q]
        /\ req'[r].stage = s /\ req'[r].op = "issue"
        /\ req'[r].lease = l /\ req'[r].known = req[r].known
    BY <1>0, <1>2, <2>0 DEF Request
  <2>2. /\ l.counter \in Nat /\ l.holder \in Holders
        /\ counter'[l.holder] = l.counter
        /\ l.holder # h => counter'[h] = counter[h]
    BY <1>0, <1>2, <2>0 DEF Written, Stored, Lease
  <2>3. \A q \in Requests : req'[q].lease = req[q].lease /\ req'[q].op = req[q].op
    BY <1>2, <2>0, <2>1
  <2>4. ASSUME NEW q \in Requests, req'[q].stage # "new", req'[q].lease.holder = h
        PROVE  Latest(q)'
    <3>1. Latest(q) /\ req[q].stage # "new"
      BY <1>2, <2>1, <2>3, <2>4 DEF Steady
    <3>2. QED
      BY <1>2, <2>0, <2>1, <3>1 DEF Latest
  <2>5. CASE l.holder # h
    <3>1. Live(h)' \subseteq Live(h) /\ Pending(h)' \subseteq Pending(h)
      BY <2>1, <2>5 DEF Live, Pending
    <3>2. Live(h) \subseteq Requests /\ Pending(h) \subseteq Requests
      BY DEF Live, Pending
    <3>3. Steady(h)'
      BY <2>2, <2>3, <2>4, <2>5, <3>1, <3>2 DEF Steady
    <3>4. QED
      BY <1>0, <2>2, <2>5, <3>3
  <2>6. CASE l.holder = h
    <3>1. r \in Pending(h)
      BY <1>2, <2>0, <2>6 DEF Pending
    <3>2. l.counter = counter[h] + 1 /\ counter'[h] = l.counter
      BY <2>0, <2>2, <2>6, <3>1 DEF Steady
    <3>3. Pending(h)' = {}
      <4>1. \A q \in Pending(h) : q = r
        BY <3>1 DEF Steady
      <4>2. QED
        BY <2>1, <4>1 DEF Pending
    <3>4. Live(h)' \subseteq Live(h) \cup {r} /\ r \notin Live(h)
      BY <1>2, <2>1 DEF Live
    <3>5. \A q \in Live(h) : /\ q \in Requests /\ req[q].lease.counter \in Nat
                             /\ req[q].lease.counter <= counter[h]
      BY <1>0, <1>a DEF Live, Steady
    <3>6. \A q \in Live(h) : /\ req'[q].lease.counter <= counter'[h]
                             /\ req'[q].lease.counter # req'[r].lease.counter
      BY <1>0, <2>1, <2>3, <3>2, <3>5
    <3>7. \A q, p \in Live(h) :
            req'[q].lease.counter = req'[p].lease.counter => q = p
      BY <2>3, <3>5 DEF Steady
    <3>8. Steady(h)'
      BY <2>1, <2>2, <2>4, <3>2, <3>3, <3>4, <3>6, <3>7 DEF Steady
    <3>9. QED
      BY <1>0, <3>2, <3>8
  <2>7. QED
    BY <2>5, <2>6
\* A request begins.
<1>3. ASSUME NEW r \in Requests, NEW op \in {"issue", "verify"}, NEW l \in Lease,
             NEW s \in Stages \ {"new", "written", "granted"},
             Begins(r, op, s, l), counter' = counter,
             l.holder = h /\ s = "read" =>
               op = "issue" /\ Pending(h) = {} /\ l.counter = counter[h] + 1,
             op = "issue" => s = "read",
             l.holder = h /\ s = "accepted" => counter[h] <= l.counter
      PROVE  Steady(h)'
  <2>1. /\ \A q \in Requests \ {r} : req'[q] = req[q]
        /\ req'[r].stage = s /\ req'[r].op = op
        /\ req'[r].lease = l /\ req'[r].known = given
        /\ req[r].stage = "new"
    BY <1>0, <1>3 DEF Begins
  <2>2. Live(h)' = Live(h) /\ r \notin Live(h)
    BY <1>3, <2>1 DEF Live
  <2>3. Pending(h)' \subseteq Pending(h) \cup {r} /\ r \notin Pending(h)
    BY <2>1 DEF Pending
  <2>4. r \in Pending(h)' => l.holder = h /\ s = "read"
    BY <2>1 DEF Pending
  <2>5. Live(h) \subseteq Requests /\ Pending(h) \subseteq Requests
    BY DEF Live, Pending
  <2>6. ASSUME NEW q \in Requests, req'[q].stage # "new", req'[q].lease.holder = h
        PROVE  Latest(q)'
    <3>1. CASE q # r
      BY <2>1, <2>6, <3>1 DEF Steady, Latest
    <3>2. CASE q = r
      <4>1. ASSUME NEW m \in given, m.holder = h
            PROVE  /\ op = "issue" => m.counter < l.counter
                   /\ op = "verify" /\ s = "accepted" => m.counter <= l.counter
        <5>1. m.counter \in Nat /\ m.counter <= counter[h] /\ l.counter \in Nat
          BY <4>1, GivenBelow DEF Lease
        <5>2. l.holder = h
          BY <2>1, <2>6, <3>2
        <5>3. QED
          BY <1>0, <1>3, <5>1, <5>2
      <4>2. QED
        BY <2>1, <2>6, <3>2, <4>1 DEF Latest
    <3>3. QED
      BY <3>1, <3>2
  <2>7. \A q \in Pending(h)' :
          req'[q].op = "issue" /\ req'[q].lease.counter = counter[h] + 1
    BY <1>3, <2>1, <2>3, <2>4, <2>5 DEF Steady
  <2>8. \A q, p \in Pending(h)' : q = p
    BY <1>3, <2>3, <2>4 DEF Steady
  <2>9. \A q \in Live(h)' : q # r /\ q \in Requests /\ req'[q] = req[q]
    BY <2>1, <2>2, <2>5
  <2>10. QED
    BY <1>3, <2>2, <2>6, <2>7, <2>8, <2>9 DEF Steady
<1>4. counter' = counter => counter'[h] >= counter[h]
  BY <1>0
<1>5. CASE \E r \in Requests, k \in Holders : BeginIssue(r, k)
  <2>1. PICK r \in Requests, k \in Holders : BeginIssue(r, k)
    BY <1>5
  <2> DEFINE l == [id |-> r, holder |-> k, counter |-> NextCounter(counter[k])]
  <2>2. /\ Begins(r, "issue", "read", l) /\ counter' = counter
        /\ k = h => Pending(h) = {}
    BY <2>1 DEF BeginIssue
  <2>3. l \in Lease /\ l.holder = k /\ l.counter = counter[k] + 1
    BY <1>0 DEF Lease, NextCounter, NoCounter
  <2> HIDE DEF l
  <2>4. Steady(h)'
    BY <1>3, <2>2, <2>3 DEF Stages
  <2>5. QED
    BY <1>4, <2>2, <2>4
<1>6. CASE \E r \in Requests, l \in given : BeginVerify(r, l)
  <2>1. PICK r \in Requests, l \in given : BeginVerify(r, l)
    BY <1>6
  <2>2. PICK s \in {Comparison(l, counter[l.holder]), "refused"} :
          Begins(r, "verify", s, l)
    BY <2>1 DEF BeginVerify
  <2>3. counter' = counter /\ l \in Lease /\ l.holder \in Holders /\ l.counter \in Nat
    BY <1>0, <2>1 DEF BeginVerify, Lease
  <2>4. s \in Stages \ {"new", "written", "granted"}
    BY DEF Comparison, Stages
  <2>5. l.holder = h => s # "read"
    BY <1>0, <2>1, <2>3, GivenBelow DEF Comparison, Rewinds, NoCounter
  <2>6. l.holder = h /\ s = "accepted" => counter[h] <= l.counter
    BY <1>0, <2>3, <2>5 DEF Comparison, Rewinds, NoCounter
  <2>7. Steady(h)'
    BY <1>3, <2>2, <2>3, <2>4, <2>5, <2>6
  <2>8. QED
    BY <1>4, <2>3, <2>7
<1>7. CASE \E r \in Requests : CommitIssue(r)
  BY <1>2, <1>7 DEF CommitIssue
<1>8. CASE \E r \in Requests : Grant(r) \/ RefuseWritten(r)
  <2>1. PICK r \in Requests : Grant(r) \/ RefuseWritten(r)
    BY <1>8
  <2>2. counter' = counter
    BY <2>1 DEF Grant, RefuseWritten
  <2>3. PICK s \in {"granted", "refused"} : req' = [req EXCEPT ![r].stage = s]
    BY <2>1 DEF Grant, RefuseWritten
  <2>4. req[r].stage = "written"
    BY <2>1 DEF Grant, RefuseWritten
  <2>5. Steady(h)'
    BY <1>1, <2>2, <2>3, <2>4 DEF Stages
  <2>6. QED
    BY <1>4, <2>2, <2>5
\* Only a spoiled holder has a counter behind a lease that is verified.
<1>9. ASSUME NEW r \in Requests, req[r].op = "verify", req[r].stage = "read",
             counter' = counter \/ counter' = Written(req[r].lease),
             NEW s \in {"accepted", "refused"}, req' = [req EXCEPT ![r].stage = s]
      PROVE  Steady(h)' /\ counter'[h] >= counter[h]
  <2>1. req[r].lease.holder # h
    BY <1>9 DEF Steady, Pending
  <2>2. counter'[h] = counter[h]
    BY <1>0, <1>9, <2>1 DEF Written, Stored
  <2>3. /\ \A q \in Requests \ {r} : req'[q] = req[q]
        /\ req'[r].stage = s /\ req'[r].op = "verify"
        /\ req'[r].lease = req[r].lease
    BY <1>0, <1>9 DEF Request
  <2>4. Live(h)' = Live(h) /\ Pending(h)' = Pending(h)
    BY <1>9, <2>1, <2>3 DEF Live, Pending
  <2>5. \A q \in Live(h) \cup Pending(h) : req'[q] = req[q]
    BY <2>1, <2>3 DEF Live, Pending
  <2>6. ASSUME NEW q \in Requests, req'[q].stage # "new", req'[q].lease.holder = h
        PROVE  Latest(q)'
    BY <2>1, <2>3, <2>6 DEF Steady, Latest
  <2>7. Steady(h)'
    BY <2>2, <2>4, <2>5, <2>6 DEF Steady
  <2>8. QED
    BY <1>0, <2>2, <2>7
<1>10. CASE \E r \in Requests : CommitVerify(r)
  BY <1>9, <1>10 DEF CommitVerify
<1>11. CASE \E r \in Requests : StoreFails(r)
  <2>1. PICK r \in Requests : StoreFails(r)
    BY <1>11
  <2>2. /\ req[r].stage = "read" /\ req' = [req EXCEPT ![r].stage = "refused"]
        /\ counter' = counter \/ counter' = Written(req[r].lease)
    BY <2>1 DEF StoreFails
  <2>3. req[r].op = "issue" \/ req[r].op = "verify"
    BY <1>0, <2>2 DEF Request
  <2>4. CASE req[r].op = "verify"
    BY <1>9, <2>2, <2>4
  <2>5. CASE req[r].op = "issue" /\ counter' = Written(req[r].lease)
    BY <1>2, <2>2, <2>5
  <2>6. CASE counter' = counter
    BY <1>1, <1>4, <2>2, <2>6 DEF Stages
  <2>7. QED
    BY <2>2, <2>3, <2>4, <2>5, <2>6
<1>12. CASE Restart
  <2>1. counter' = counter
    BY <1>12 DEF Restart
  <2>2. \A q \in Requests :
          /\ req'[q].stage = req[q].stage \/ req'[q].stage = "lost"
          /\ req'[q].stage = "new" <=> req[q].stage = "new"
          /\ req[q].stage # "new" =>
               /\ req'[q].op = req[q].op /\ req'[q].lease = req[q].lease
               /\ req'[q].known = req[q].known
    BY <1>0, <1>12 DEF Restart, Open, Request
  <2>3. Live(h)' \subseteq Live(h) /\ Pending(h)' \subseteq Pending(h)
    BY <1>a, <2>2 DEF Live, Pending
  <2>4. \A q \in Live(h) \cup Pending(h) :
          req'[q].op = req[q].op /\ req'[q].lease = req[q].lease
    BY <1>a, <2>2 DEF Live, Pending
  <2>5. ASSUME NEW q \in Requests, req'[q].stage # "new", req'[q].lease.holder = h
        PROVE  Latest(q)'
    BY <2>2, <2>5 DEF Steady, Latest
  <2>6. Steady(h)'
    BY <2>1, <2>3, <2>4, <2>5 DEF Steady
  <2>7. QED
    BY <1>4, <2>1, <2>6
<1>13. CASE UNCHANGED vars
  <2>1. counter' = counter /\ req' = req
    BY <1>13 DEF vars
  <2>2. Steady(h)'
    BY <2>1 DEF Steady, Live, Pending, Latest
  <2>3. QED
    BY <1>4, <2>1, <2>2
<1>14. QED
  BY <1>5, <1>6, <1>7, <1>8, <1>10, <1>11, <1>12, <1>13 DEF Next

\* Before the first request nothing was signed, stored or given.
LEMMA SteadyInit == Init => SteadyInv
BY DEF Init, SteadyInv, TypeOK, Request, Authorship, GivenGranted, Steady, Live,
       Pending, Latest

\* The invariant behind the next three theorems, with what its steps do.
LEMMA SteadyInvStep ==
  SteadyInv /\ [Next]_vars =>
    SteadyInv' /\ \A h \in Holders \ spoiled' : counter'[h] >= counter[h]
<1> SUFFICES ASSUME SteadyInv, [Next]_vars
             PROVE  /\ SteadyInv'
                    /\ \A h \in Holders \ spoiled' : counter'[h] >= counter[h]
  OBVIOUS
<1>0. TypeOK /\ Authorship /\ GivenGranted
  BY DEF SteadyInv
<1>1. TypeOK' /\ Authorship' /\ GivenGranted'
  BY <1>0, TypeStep, AuthorshipStep, GivenGrantedStep
<1>2. ASSUME NEW h \in Holders \ spoiled'
      PROVE  Steady(h)' /\ counter'[h] >= counter[h]
  <2>1. h \notin spoiled
    BY <1>0, <1>2, SpoiledGrows
  <2>2. Steady(h)
    BY <2>1 DEF SteadyInv
  <2>3. QED
    BY <1>0, <1>2, <2>2, SteadyStep
<1>3. QED
  BY <1>1, <1>2 DEF SteadyInv

\* No counter is given twice to a holder whose requests to issue do not race,
\* whatever else interleaves or fails.
THEOREM CountersDistinct == Spec => []DistinctCounters
<1>1. ASSUME SteadyInv PROVE DistinctCounters
  <2> SUFFICES ASSUME NEW l \in given, NEW m \in given, l.holder = m.holder,
                      l.counter = m.counter, l.holder \notin spoiled
               PROVE  l = m
    BY DEF DistinctCounters
  <2>1. /\ l.holder \in Holders /\ l.id \in Requests /\ m.id \in Requests
        /\ req[l.id].op = "issue" /\ req[l.id].lease = l /\ req[l.id].stage = "granted"
        /\ req[m.id].op = "issue" /\ req[m.id].lease = m /\ req[m.id].stage = "granted"
    BY <1>1 DEF SteadyInv, TypeOK, Lease, Authorship, GivenGranted
  <2>2. l.id \in Live(l.holder) /\ m.id \in Live(l.holder)
    BY <2>1 DEF Live
  <2>3. Steady(l.holder)
    BY <1>1, <2>1 DEF SteadyInv
  <2>4. l.id = m.id
    BY <2>1, <2>2, <2>3 DEF Steady
  <2>5. QED
    BY <2>1, <2>4
<1>2. QED
  BY <1>1, SteadyInvStep, SteadyInit, PTL DEF Spec

\* Nor does its counter ever go back, not even when a write is reported as
\* failed or the server restarts.
THEOREM NoRewind == Spec => CounterNeverRewinds
BY SteadyInvStep, SteadyInit, PTL DEF Spec, CounterNeverRewinds

\* And a lease of it is rejected once a newer one was given before the check.
THEOREM SupersededIsRejected == Spec => []SupersededRejected
<1>1. ASSUME SteadyInv PROVE SupersededRejected
  <2> SUFFICES ASSUME NEW r \in Requests, AcceptsSuperseded(r),
                      req[r].lease.holder \notin spoiled
               PROVE  FALSE
    BY DEF SupersededRejected
  <2>1. PICK l \in Lease : req[r].lease = l
    BY <1>1 DEF SteadyInv, TypeOK, Request, AcceptsSuperseded
  <2>2. PICK m \in req[r].known : m.holder = l.holder /\ l \in req[m.id].known
    BY <2>1 DEF AcceptsSuperseded
  <2>3. m \in given /\ req[r].stage # "new"
    BY <1>1, <2>2 DEF SteadyInv, Authorship, AcceptsSuperseded
  <2>4. /\ l.holder \in Holders /\ l.counter \in Nat /\ m.counter \in Nat
        /\ m.id \in Requests
        /\ req[m.id].op = "issue" /\ req[m.id].lease = m /\ req[m.id].stage = "granted"
    BY <1>1, <2>3 DEF SteadyInv, TypeOK, Lease, Authorship, GivenGranted
  <2>5. Latest(r) /\ Latest(m.id)
    BY <1>1, <2>1, <2>2, <2>3, <2>4 DEF SteadyInv, Steady
  <2>6. m.counter <= l.counter
    BY <2>1, <2>2, <2>5 DEF Latest, AcceptsSuperseded
  <2>7. l.counter < m.counter
    BY <2>2, <2>4, <2>5 DEF Latest
  <2>8. QED
    BY <2>4, <2>6, <2>7
<1>2. QED
  BY <1>1, SteadyInvStep, SteadyInit, PTL DEF Spec

====
