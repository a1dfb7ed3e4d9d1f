---- MODULE MCRegistry ----
(***************************************************************************)
(* Instances of Registry: one provider, two customers that claim the same  *)
(* workspace, and two snapshots of its policy.                             *)
(***************************************************************************)
EXTENDS Registry

Body(kind, customer) ==
  [kind |-> kind, key |-> TRUE, wellFormed |-> TRUE, provider |-> "p",
   customer |-> customer, workspace |-> "w", status |-> None,
   snapshot |-> None]

Snapshot(id, mode) == [policyId |-> id, workspace |-> "w", mode |-> mode]

SnapshotsMC == {Snapshot(1, "ENABLED"), Snapshot(2, "DISABLED")}

BodiesMC ==
  {Body("provider", None), Body("customer", "c1"), Body("workspace", "c1"),
   Body("workspace", "c2"), [Body("workspace", "c2") EXCEPT !.status = "DISABLED"],
   Body("sync", None), [Body("provider", None) EXCEPT !.key = FALSE],
   [Body("customer", "c1") EXCEPT !.wellFormed = FALSE]}
    \cup {[Body("issue", None) EXCEPT !.snapshot = s] : s \in SnapshotsMC}

PopulationsMC ==
  {[providers |-> {}, customers |-> {}, snapshot |-> None],
   [providers |-> {"p"}, customers |-> {<<"p", "c1">>, <<"p", "c2">>},
    snapshot |-> Snapshot(1, "ENABLED")]}

====
