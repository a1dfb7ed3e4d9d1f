---- MODULE MCMeterIngest ----
(***************************************************************************)
(* Instances of MeterIngest: two sessions of one seat, a lease without     *)
(* commercial claims, and the uploads of the runtime and of the operator.  *)
(***************************************************************************)
EXTENDS MeterIngest, TLC

Claims == [customer |-> "cust", workspace |-> "ws", seat |-> None]

LeasesMC ==
  ("A" :> Claims) @@ ("B" :> Claims)
    @@ ("bare" :> [Claims EXCEPT !.customer = None])

Call(chain, seq) ==
  [chain |-> chain, seq |-> seq, form |-> "usage", seat |-> "default",
   workspace |-> None, customer |-> None, jti |-> None]

Forged ==
  [Call("A", 2) EXCEPT !.customer = "other", !.workspace = "other",
                       !.jti = "B", !.seat = "guest"]
NoUsage == [Call("A", 3) EXCEPT !.form = "other"]
Malformed == [Call("A", 4) EXCEPT !.form = "malformed"]

\* An upload of the runtime.
Runtime(l, events) ==
  [token |-> l, key |-> FALSE, wellFormed |-> TRUE, workspace |-> None,
   context |-> None, events |-> events]

\* An upload of the operator, who names the lease or does not.
Operator(jti, customer, events) ==
  CommandLineUpload(events,
    [workspace |-> "ws", customer |-> customer, seat |-> None, jti |-> jti],
    TRUE)

Log == <<Call("A", 0), Call("A", 1), NoUsage, Call("B", 0), Call("B", 1)>>

UploadsMC ==
  {Runtime("A", SubSeq(Log, 1, 3)), Runtime("A", <<Call("A", 0)>>),
   Runtime("A", <<Forged, Call("A", 1)>>), Runtime("B", SubSeq(Log, 4, 5)),
   Runtime("bare", <<Call("bare", 0)>>), Runtime("invalid", Log),
   Operator("A", "cust", SubSeq(Log, 1, 3)),
   Operator("B", "cust", <<Call("B", 1), Call("B", 1)>>),
   Operator("A", "cust", Log), Operator(None, None, Log),
   Operator("A", "cust", <<Call("A", 0), Malformed>>),
   Operator("A", "cust", <<Forged>>),
   [Operator("A", "cust", Log) EXCEPT !.key = FALSE],
   [Operator("A", "cust", Log) EXCEPT !.wellFormed = FALSE],
   [Operator("A", "cust", Log) EXCEPT !.context.workspace = "other"]}

====
