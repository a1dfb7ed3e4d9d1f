---- MODULE LeaseServer ----
(***************************************************************************)
(* Issuing and verifying leases on the control plane (routes.js), with the *)
(* table lease_counters behind it.  The counter of a holder (a customer    *)
(* and a seat) is read and written by separate awaited statements, so      *)
(* requests that are served at the same time interleave between them.      *)
(*                                                                         *)
(* The clock a token is checked against may be given by the caller (nowSec *)
(* in the body), so whether a token has expired is a free choice here.     *)
(***************************************************************************)
EXTENDS Integers, FiniteSets

CONSTANTS
  Requests,  \* requests to issue or verify a lease
  Holders,   \* pairs of customer and seat
  Inflight,  \* bound on the requests served at the same time
  Faults     \* "store": a write fails; "stop": the server restarts;
             \* "forget": it restarts on an empty store

ASSUME LeaseAssumption ==
  /\ Inflight \in Nat \ {0}
  /\ Faults \subseteq {"store", "stop", "forget"}

VARIABLES
  counter,  \* lease_counters
  req,      \* progress of the handler of each request
  given,    \* leases that were sent to their holder
  spoiled   \* history: holders whose counter was lost, or read by a request
            \* to issue while another one was about to write it

vars == <<counter, req, given, spoiled>>

----

\* The holder has no row in lease_counters.
NoCounter == -1

\* `id' is the request that issued the lease, for its jti.
Lease == [id : Requests, holder : Holders, counter : Nat]

Stages == {"new", "read", "written", "granted", "accepted", "rewound",
           "refused", "lost"}

\* `known' is history: the leases that had been given when it arrived.
Request ==
  [op : {"none"}, stage : {"new"}]
    \cup [op : {"issue", "verify"}, stage : Stages \ {"new"}, lease : Lease,
          known : SUBSET Lease]

Open == {r \in Requests : req[r].stage \in {"read", "written"}}

\* A handler for lease l starts and reaches stage s.
Begins(r, op, s, l) ==
  /\ req[r].stage = "new"
  /\ Cardinality(Open) < Inflight
  /\ req' = [req EXCEPT ![r] = [op |-> op, stage |-> s, lease |-> l,
                                known |-> given]]

\* Requests that are about to write the counter of holder h.
Pending(h) ==
  {r \in Requests : req[r].stage = "read" /\ req[r].lease.holder = h}

Stored(h, n) == [counter EXCEPT ![h] = n]

----

\* Mutant: the counter that is stored is issued again.
NextCounter_Same(previous) == previous

\* Mutant: a holder's first two leases get the same counter.
NextCounter_FromZero(previous) == IF previous <= 0 THEN 0 ELSE previous + 1

NextCounter(previous) == IF previous = NoCounter THEN 0 ELSE previous + 1

\* issueLease reads the counter; what it signs is settled from here on.
BeginIssue(r, h) ==
  /\ Begins(r, "issue", "read",
            [id |-> r, holder |-> h, counter |-> NextCounter(counter[h])])
  /\ spoiled' = IF Pending(h) = {} THEN spoiled ELSE spoiled \cup {h}
  /\ UNCHANGED <<counter, given>>

\* Mutant: the counter of the next lease is stored.
Written_Ahead(l) == Stored(l.holder, l.counter + 1)

\* updateLatestLeaseCounter overwrites whatever the row holds.
Written(l) == Stored(l.holder, l.counter)

CommitIssue(r) ==
  /\ req[r].op = "issue" /\ req[r].stage = "read"
  /\ counter' = Written(req[r].lease)
  /\ req' = [req EXCEPT ![r].stage = "written"]
  /\ UNCHANGED <<given, spoiled>>

\* The state of the time stamping authority is put together and the lease is
\* sent.
Grant(r) ==
  /\ req[r].op = "issue" /\ req[r].stage = "written"
  /\ req' = [req EXCEPT ![r].stage = "granted"]
  /\ given' = given \cup {req[r].lease}
  /\ UNCHANGED <<counter, spoiled>>

\* Its fields in the request are found invalid only now.
RefuseWritten(r) ==
  /\ req[r].op = "issue" /\ req[r].stage = "written"
  /\ req' = [req EXCEPT ![r].stage = "refused"]
  /\ UNCHANGED <<counter, given, spoiled>>

\* Mutant: only the lease just before the latest is taken for a rewind.
Rewinds_ByOne(l, latest) == l.counter = latest - 1

Rewinds(l, latest) == latest # NoCounter /\ l.counter < latest

\* Mutant: any other counter is taken over from the token.
Comparison_TakesOver(l, latest) ==
  IF l.counter = latest THEN "accepted" ELSE "read"

\* verifyLease: the outcome of comparing lease l with the counter.
Comparison(l, latest) ==
  IF Rewinds(l, latest) THEN "rewound"
  ELSE IF latest = NoCounter \/ l.counter > latest THEN "read"
  ELSE "accepted"

\* The signature or the time of a token may also fail the check.
BeginVerify(r, l) ==
  /\ l \in given
  /\ \E s \in {Comparison(l, counter[l.holder]), "refused"} :
       Begins(r, "verify", s, l)
  /\ UNCHANGED <<counter, given, spoiled>>

CommitVerify(r) ==
  /\ req[r].op = "verify" /\ req[r].stage = "read"
  /\ counter' = Written(req[r].lease)
  /\ req' = [req EXCEPT ![r].stage = "accepted"]
  /\ UNCHANGED <<given, spoiled>>

\* The write is reported as failed; the database may have made it.
StoreFails(r) ==
  /\ "store" \in Faults
  /\ req[r].stage = "read"
  /\ counter' \in {counter, Written(req[r].lease)}
  /\ req' = [req EXCEPT ![r].stage = "refused"]
  /\ UNCHANGED <<given, spoiled>>

\* The requests being served die with the server.
Restart ==
  /\ \/ "stop" \in Faults /\ UNCHANGED <<counter, spoiled>>
     \/ /\ "forget" \in Faults
        /\ counter' = [h \in Holders |-> NoCounter]
        /\ spoiled' = Holders
  /\ req' = [r \in Requests |-> IF r \in Open
                                  THEN [req[r] EXCEPT !.stage = "lost"]
                                  ELSE req[r]]
  /\ UNCHANGED given

Init ==
  /\ counter = [h \in Holders |-> NoCounter]
  /\ req = [r \in Requests |-> [op |-> "none", stage |-> "new"]]
  /\ given = {}
  /\ spoiled = {}

Next ==
  \/ \E r \in Requests, h \in Holders : BeginIssue(r, h)
  \/ \E r \in Requests : CommitIssue(r)
  \/ \E r \in Requests : Grant(r)
  \/ \E r \in Requests : RefuseWritten(r)
  \/ \E r \in Requests, l \in given : BeginVerify(r, l)
  \/ \E r \in Requests : CommitVerify(r)
  \/ \E r \in Requests : StoreFails(r)
  \/ Restart

Spec == Init /\ [][Next]_vars

----
(* Properties *)

\* Every variable has the type of the data it stands for.
TypeOK ==
  /\ counter \in [Holders -> Nat \cup {NoCounter}]
  /\ req \in [Requests -> Request]
  /\ given \subseteq Lease
  /\ spoiled \subseteq Holders

\* The counter of a holder never goes back, however requests interleave and
\* fail, unless two of them read it before either wrote it, or it was lost.
CounterNeverRewinds ==
  [][\A h \in Holders \ spoiled' : counter'[h] >= counter[h]]_vars

\* Under the same condition no two leases a holder was given have the same
\* counter, also when answers overtake each other.
DistinctCounters ==
  \A l, m \in given :
    l.holder = m.holder /\ l.counter = m.counter =>
      l = m \/ l.holder \in spoiled

\* Request r accepted a lease although a newer one of the holder, requested
\* when that lease had already been given, was itself given before r arrived.
AcceptsSuperseded(r) ==
  /\ req[r].op = "verify" /\ req[r].stage = "accepted"
  /\ \E m \in req[r].known :
       m.holder = req[r].lease.holder /\ req[r].lease \in req[m.id].known

\* Under the same condition a lease is no longer accepted once a newer one had
\* been given before the check began.
SupersededRejected ==
  \A r \in Requests :
    AcceptsSuperseded(r) => req[r].lease.holder \in spoiled

\* The same without the condition, as the product describes the counters.
NoRegression == \A r \in Requests : ~AcceptsSuperseded(r)

\* Leases that were signed for a holder, given or not.
Signed(h) ==
  {req[r].lease : r \in {q \in Requests : /\ req[q].op = "issue"
                                          /\ req[q].lease.holder = h}}

\* A lease is rejected as a rewind only if one with a greater counter was
\* signed for its holder, whatever interleaves and whatever the store loses.
RewindHasCause ==
  \A r \in Requests :
    req[r].stage = "rewound" =>
      \E m \in Signed(req[r].lease.holder) : m.counter > req[r].lease.counter

====
