---- MODULE MCWikiServer ----
(***************************************************************************)
(* An instance of WikiServer: four pages, one of them in a folder, of which*)
(* releases have different texts, and processes with each setting of the   *)
(* search.                                                                 *)
(***************************************************************************)
EXTENDS WikiServer, TLC

ToolsMC == {"wiki_search", "other"}
KnownMC == {"wiki_search"}

\* One call is within the budget, the next is denied.
Budget ==
  [mode |-> "ENABLED", defaultMode |-> "ENABLED", seats |-> <<>>,
   warningPct |-> 100, hardStopPct |-> 120,
   budgets |-> "wiki_search" :> 2,
   window |-> [starts |-> 1, expires |-> 1, grace |-> 2], overrides |-> <<>>]

PoliciesMC == {Budget}

\* More chunks and more pages match than a search may show. The next release
\* drops a page and leaves another empty, and as many chunks match as are shown.
WikisMC ==
  {[a |-> {"hit", "more"}, b |-> {"bare"}, c |-> {"hit"}, folder |-> {"hit"}],
   [b |-> {"more"}, c |-> {}, folder |-> {"hit", "miss"}]}

Sqlite(failOpen, preindexReady, sameCwd) ==
  [sqlite |-> TRUE, failOpen |-> failOpen, preindexReady |-> preindexReady,
   sameCwd |-> sameCwd]

SettingsMC ==
  {[Sqlite(TRUE, FALSE, FALSE) EXCEPT !.sqlite = FALSE],
   Sqlite(TRUE, TRUE, FALSE), Sqlite(TRUE, FALSE, FALSE),
   Sqlite(FALSE, FALSE, TRUE)}

====
