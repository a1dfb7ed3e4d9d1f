---- MODULE MCMeterClient ----
(***************************************************************************)
(* The sets the instances of MeterClient share.                            *)
(***************************************************************************)
EXTENDS MeterClient

LeasesMC == 1..2

\* A kind that is billed and one that is not.
KindsMC == {"tool_call", "session_end"}

====
