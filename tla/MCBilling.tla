---- MODULE MCBilling ----
(***************************************************************************)
(* Instances of Billing: two adjacent periods, an event at the second they *)
(* share, one that is a part of a call, and rules that differ in how       *)
(* specific they are, in currency and in what they include.                *)
(***************************************************************************)
EXTENDS Billing

Row(key, tool, at, units) ==
  [key |-> key, customer |-> "cust", workspace |-> "ws", seat |-> "s",
   tool |-> tool, at |-> at, units |-> units]

UsageMC == {Row(1, "search", 1, 4), Row(2, "search", 2, 3), Row(3, "read", 2, 2)}

General ==
  [id |-> 1, customer |-> None, workspace |-> None, tool |-> None,
   active |-> TRUE, currency |-> "USD", cents |-> 5, included |-> 0,
   minimum |-> 0, product |-> "general"]
Special ==
  [General EXCEPT !.id = 2, !.workspace = "ws", !.tool = "search",
                  !.included = 1, !.product = "special"]

RulesMC ==
  {General, Special, [Special EXCEPT !.minimum = 9, !.currency = "EUR"]}

Draft(invoice, from, to, currency) ==
  [invoice |-> invoice, customer |-> "cust", workspace |-> None,
   from |-> from, to |-> to, currency |-> currency]

DraftsMC ==
  {Draft("first", 1, 2, None), Draft("second", 2, 3, "USD"),
   [Draft("second", 2, 3, None) EXCEPT !.workspace = "ws"],
   Draft("second", 2, 2, None)}

====
