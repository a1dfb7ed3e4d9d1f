---- MODULE UsageTable ----
(***************************************************************************)
(* What accepted_usage_events promises to those who read it: a row that    *)
(* was accepted is never changed or removed, and no two rows have one key. *)
(***************************************************************************)
EXTENDS FiniteSets

VARIABLE rows   \* accepted_usage_events: records with a field `key'

vars == <<rows>>

OneRowPerKey(s) == \A r, q \in s : r.key = q.key => r = q

Init == rows = {}

\* Some rows with new keys are added.
Accept == rows \subseteq rows' /\ OneRowPerKey(rows')

Spec == Init /\ [][Accept]_vars

====
