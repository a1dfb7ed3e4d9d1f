---- MODULE MCToolGate ----
(***************************************************************************)
(* Instances of ToolGate.                                                  *)
(***************************************************************************)
EXTENDS ToolGate, TLC

ToolsMC == {"wiki_search", "other"}
KnownMC == {"wiki_search"}

\* The first call reaches the warning threshold, the second the hard stop.
Budget ==
  [mode |-> "ENABLED", defaultMode |-> "ENABLED", seats |-> <<>>,
   warningPct |-> 100, hardStopPct |-> 120,
   budgets |-> "wiki_search" :> 1,
   window |-> [starts |-> 1, expires |-> 1, grace |-> 2], overrides |-> <<>>]

\* One seat has a window that is wider than that of the workspace on both
\* sides; the other has one that does not meet it.
Overrides ==
  [Budget EXCEPT
    !.seats = "guest" :> "ENABLED",
    !.defaultMode = "DISABLED",
    !.window = [starts |-> 2, expires |-> 2, grace |-> 2],
    !.overrides = ("guest" :> [starts |-> 1, expires |-> 3, grace |-> 3])
                    @@ ("late" :> [starts |-> 3, expires |-> 3, grace |-> 3])]

PoliciesMC == {Budget, Overrides, NoPolicy}

BudgetOnly == {Budget}

====
