---- MODULE UsageLedger ----
(***************************************************************************)
(* What the metering pipeline promises, whatever crashes, retries and      *)
(* timeouts lie between the tool call and the control plane: every usage   *)
(* entry the runtime has metered can be billed, it is billed at most once, *)
(* nothing that was not metered is ever billed, and neither the metered    *)
(* nor the billed entries ever shrink.                                     *)
(***************************************************************************)
EXTENDS FiniteSets

VARIABLES
  metered,   \* usage entries handed to the meter by the runtime
  billed     \* usage entries in accepted_usage_events

vars == <<metered, billed>>

Init == metered = {} /\ billed = {}

\* One more entry is metered; it was never metered before.
Meter ==
  /\ \E u \in metered' : metered' = metered \cup {u} /\ u \notin metered
  /\ UNCHANGED billed

\* The control plane accepts some entries it did not have yet.
Accept ==
  /\ billed \subseteq billed'
  /\ billed' \subseteq metered
  /\ UNCHANGED metered

Next == Meter \/ Accept

Spec == Init /\ [][Next]_vars

====
