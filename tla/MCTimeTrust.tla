---- MODULE MCTimeTrust ----
(***************************************************************************)
(* An instance of TimeTrust: attestations for the runtime's holder under   *)
(* two tickets and for another holder, a token that lasts for two ticks.   *)
(***************************************************************************)
EXTENDS TimeTrust, TLC

AttestableMC == {<<"h", "t1">>, <<"h", "t2">>, <<"other", "t1">>}

DesksSymmetry == Permutations(Desks)

\* A lease is not replaced. EndIssue does not read the lease it replaces, so
\* the states after a replacement are those after a first lease at that time.
OneLease == lease = None \/ issuing = None

====
