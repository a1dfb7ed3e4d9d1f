---- MODULE MCLeaseServer ----
(***************************************************************************)
(* Instances of LeaseServer.                                               *)
(***************************************************************************)
EXTENDS LeaseServer, TLC

\* Requests are interchangeable, and so are holders.
SymmetricRequests == Permutations(Requests)

Symmetric == SymmetricRequests \cup Permutations(Holders)

====
