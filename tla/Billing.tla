---- MODULE Billing ----
(***************************************************************************)
(* Billing on the control plane: pricing rules, invoices drafted from the  *)
(* accepted usage, and their handoff to a payment provider (billing.js of  *)
(* core and protocol, payment-providers.js, the handlers in routes.js and  *)
(* their statements in storage-contract.js).                               *)
(*                                                                         *)
(* A handler of a draft reads the usage, then the rules, then writes the   *)
(* invoice; one of a handoff reads the invoice, creates a checkout at the  *)
(* provider, then writes the handoff.  Handlers, new usage and new rules   *)
(* interleave between these statements, each of which may fail.            *)
(*                                                                         *)
(* Of the dimensions of a rule the model keeps customer, workspace and     *)
(* tool (skill and bundle are matched alike).  The provider is that of the *)
(* request throughout.  A quantity counts halves of a call: the delta of   *)
(* an event need not be whole.                                             *)
(***************************************************************************)
EXTENDS Integers, FiniteSets, Functions

CONSTANTS
  Usage,         \* rows that ingestion may accept
  Rules,         \* pricing rules that may be saved
  Drafts,        \* requests to draft an invoice
  Providers,     \* payment providers that are configured
  MaxDrafts, MaxHandoffs,  \* bounds on the requests
  None           \* an absent value

UsageRow(r) == r.at \in Nat /\ r.units \in Nat \ {0}

PricingRule(p) ==
  /\ {p.id, p.cents, p.included, p.minimum} \subseteq Nat
  /\ p.active \in BOOLEAN

ASSUME BillingAssumption ==
  /\ MaxDrafts \in Nat /\ MaxHandoffs \in Nat
  /\ \A r \in Usage : UsageRow(r)
  /\ \A p \in Rules : PricingRule(p)
  /\ \A d \in Drafts : {d.from, d.to} \subseteq Nat
  /\ "manual" \in Providers

Invoices == {d.invoice : d \in Drafts}

VARIABLES
  ledger,      \* accepted_usage_events
  prices,      \* pricing_rules
  invoices,    \* invoices, by id
  handoffs,    \* payment_handoffs, by invoice
  checkouts,   \* checkout sessions at the payment provider (external)
  drafts,      \* handlers of POST /v1/billing/invoices/draft
  payments     \* handlers of POST /v1/billing/invoices/:id/payment-handoff

vars == <<ledger, prices, invoices, handoffs, checkouts, drafts, payments>>

----
(***************************************************************************)
(* Rating (core/src/billing.js).                                           *)
(***************************************************************************)

Larger(a, b) == IF a > b THEN a ELSE b

\* Math.round and Math.ceil of a number of halves.
RoundUp(halves) == (halves + 1) \div 2

Matches(own, given) == own \in {None, given}

\* The lines of an invoice are by seat and tool.
Group(r) == [customer |-> r.customer, workspace |-> r.workspace,
             seat |-> r.seat, tool |-> r.tool]

\* Mutant: the events are counted, whatever their delta.
Quantity_Events(rows, g) == 2 * Cardinality({r \in rows : Group(r) = g})

Quantity(rows, g) ==
  SumFunctionOnSet([r \in rows |-> r.units], {r \in rows : Group(r) = g})

Applicable(g, rules) ==
  {p \in rules : /\ p.active
                 /\ Matches(p.customer, g.customer)
                 /\ Matches(p.workspace, g.workspace)
                 /\ Matches(p.tool, g.tool)}

Specificity(p) ==
  Cardinality({f \in {"customer", "workspace", "tool"} : p[f] # None})

\* The most specific rule; among equally specific ones the first by its id.
Better(p, q) ==
  \/ Specificity(p) > Specificity(q)
  \/ Specificity(p) = Specificity(q) /\ p.id <= q.id

FindRule(g, rules) ==
  CHOOSE p \in Applicable(g, rules) :
    \A q \in Applicable(g, rules) : Better(p, q)

Billable(quantity, p) == Larger(0, quantity - 2 * p.included)

Line(rows, g, rules) ==
  LET p == FindRule(g, rules)
      q == Quantity(rows, g)
  IN [rule |-> p, quantity |-> q, billable |-> Billable(q, p),
      amount |-> Larger(RoundUp(Billable(q, p) * p.cents), p.minimum)]

\* Every group needs a rule, and without a currency in the request the
\* rules need a common one; otherwise no invoice is drafted at all.
Ratable(d, rows, rules) ==
  LET groups == {Group(r) : r \in rows}
  IN /\ \A g \in groups : Applicable(g, rules) # {}
     /\ d.currency = None =>
          \A g, h \in groups :
            FindRule(g, rules).currency = FindRule(h, rules).currency

\* draftInvoiceFromUsage.  `events' is history: the usage it was made from;
\* `draft' is the request, which gives the invoice its scope and period.
Drafted(d, rows, rules) ==
  LET lines == [g \in {Group(r) : r \in rows} |-> Line(rows, g, rules)]
  IN [draft |-> d, events |-> rows, lines |-> lines,
      total |-> SumFunction([g \in DOMAIN lines |-> lines[g].amount])]

\* null is neither an invoice nor the id of a checkout session.
ASSUME AbsentAssumption ==
  /\ None \notin 1..MaxHandoffs
  /\ \A d \in Drafts, rows \in SUBSET Usage, rules \in SUBSET Rules :
       Ratable(d, rows, rules) => Drafted(d, rows, rules) # None

----
(***************************************************************************)
(* The ledger and the rules.                                               *)
(***************************************************************************)

\* Ingestion accepts a row: a step of UsageTable.
Accept(r) ==
  /\ \A q \in ledger : q.key # r.key
  /\ ledger' = ledger \cup {r}
  /\ UNCHANGED <<prices, invoices, handoffs, checkouts, drafts, payments>>

\* A rule is added, or takes the place of the one with its id.
SavePricingRule(p) ==
  /\ prices' = {q \in prices : q.id # p.id} \cup {p}
  /\ UNCHANGED <<ledger, invoices, handoffs, checkouts, drafts, payments>>

\* Mutant: the second at which a period ends belongs to it.
InScope_Closed(r, d) ==
  /\ r.customer = d.customer
  /\ Matches(d.workspace, r.workspace)
  /\ d.from <= r.at /\ r.at <= d.to

\* getAcceptedUsageEvents.
InScope(r, d) ==
  /\ r.customer = d.customer
  /\ Matches(d.workspace, r.workspace)
  /\ d.from <= r.at /\ r.at < d.to

\* listPricingRules.
ListedRules(d) ==
  {p \in prices : /\ Matches(p.customer, d.customer)
                  /\ d.workspace = None \/ Matches(p.workspace, d.workspace)}

----
(***************************************************************************)
(* draftInvoice.                                                           *)
(***************************************************************************)

\* validateInvoiceDraftRequestContract.
ValidDraft(d) == d.from < d.to

\* The first statement reads the usage.  `base' is history: the invoice of that id at this moment.
BeginDraft(n) ==
  /\ drafts[n].stage = "unsent"
  /\ \E d \in Drafts :
       drafts' = [drafts EXCEPT ![n] =
         IF ~ValidDraft(d)
         THEN [stage |-> "refused", draft |-> d, usage |-> {},
               base |-> None, invoice |-> None]
         ELSE [stage |-> "rating", draft |-> d,
               usage |-> {r \in ledger : InScope(r, d)},
               base |-> invoices[d.invoice], invoice |-> None]]
  /\ UNCHANGED <<ledger, prices, invoices, handoffs, checkouts, payments>>

\* The second one reads the rules, and the invoice is made.
RateDraft(n) ==
  /\ drafts[n].stage = "rating"
  /\ LET rules == ListedRules(drafts[n].draft)
         ratable == Ratable(drafts[n].draft, drafts[n].usage, rules)
     IN drafts' = [drafts EXCEPT
          ![n].stage = IF ratable THEN "saving" ELSE "refused",
          ![n].invoice = IF ratable
                         THEN Drafted(drafts[n].draft, drafts[n].usage, rules)
                         ELSE None]
  /\ UNCHANGED <<ledger, prices, invoices, handoffs, checkouts, payments>>

\* Mutant: only the events that are not on the stored invoice are kept.
Saved_Delta(n) ==
  LET old == invoices[drafts[n].draft.invoice]
      new == drafts[n].invoice
  IN IF old = None THEN new ELSE [new EXCEPT !.events = @ \ old.events]

\* The third one writes it over whatever has its id.
Saved(n) == drafts[n].invoice

SaveDraft(n) ==
  /\ drafts[n].stage = "saving"
  /\ invoices' = [invoices EXCEPT ![drafts[n].draft.invoice] = Saved(n)]
  /\ drafts' = [drafts EXCEPT ![n].stage = "answered"]
  /\ UNCHANGED <<ledger, prices, handoffs, checkouts, payments>>

FailDraft(n) ==
  /\ drafts[n].stage \in {"rating", "saving"}
  /\ drafts' = [drafts EXCEPT ![n].stage = "failed"]
  /\ UNCHANGED <<ledger, prices, invoices, handoffs, checkouts, payments>>

----
(***************************************************************************)
(* createPaymentHandoff.                                                   *)
(***************************************************************************)

Payable(inv) == {g \in DOMAIN inv.lines : inv.lines[g].amount > 0}

\* Mutant: the included units are charged for.
CheckoutQuantity_All(line) == Larger(1, RoundUp(line.quantity))

CheckoutQuantity(line) == Larger(1, RoundUp(line.billable))

Cart(inv) ==
  [g \in Payable(inv) |-> [product |-> inv.lines[g].rule.product,
                           quantity |-> CheckoutQuantity(inv.lines[g])]]

\* A checkout needs something to pay, and a product for each line.
CanCheckOut(inv) ==
  /\ Payable(inv) # {}
  /\ \A g \in Payable(inv) : inv.lines[g].rule.product # None

\* Mutant: the handoff is saved before there is a session.
NextStage_NoSession(inv, provider) ==
  IF provider \notin Providers \/ inv = None THEN "refused" ELSE "saving"

\* What comes after the invoice was read.
NextStage(inv, provider) ==
  IF provider \notin Providers \/ inv = None THEN "refused"
  ELSE IF provider = "manual" THEN "saving"
  ELSE IF CanCheckOut(inv) THEN "paying" ELSE "refused"

\* The invoice is read once and is the handler's from then on.
BeginHandoff(n) ==
  /\ payments[n].stage = "unsent"
  /\ \E i \in Invoices, provider \in {"manual", "dodo", "stripe"} :
       payments' = [payments EXCEPT ![n] =
         [stage |-> NextStage(invoices[i], provider), invoice |-> i,
          provider |-> provider, read |-> invoices[i], checkout |-> None]]
  /\ UNCHANGED <<ledger, prices, invoices, handoffs, checkouts, drafts>>

\* The provider creates a session, whose id it makes up.
CreateCheckout(n) ==
  /\ payments[n].stage = "paying"
  /\ checkouts' = checkouts \cup
       {[id |-> n, invoice |-> payments[n].invoice, cart |-> Cart(payments[n].read)]}
  /\ payments' = [payments EXCEPT ![n].stage = "saving", ![n].checkout = n]
  /\ UNCHANGED <<ledger, prices, invoices, handoffs, drafts>>

SaveHandoff(n) ==
  /\ payments[n].stage = "saving"
  /\ handoffs' = [handoffs EXCEPT ![payments[n].invoice] =
       [provider |-> payments[n].provider, checkout |-> payments[n].checkout,
        read |-> payments[n].read]]
  /\ payments' = [payments EXCEPT ![n].stage = "answered"]
  /\ UNCHANGED <<ledger, prices, invoices, checkouts, drafts>>

\* The provider refuses, or the write fails after it created a session.
FailHandoff(n) ==
  /\ payments[n].stage \in {"paying", "saving"}
  /\ payments' = [payments EXCEPT ![n].stage = "failed"]
  /\ UNCHANGED <<ledger, prices, invoices, handoffs, checkouts, drafts>>

----

Init ==
  /\ ledger = {} /\ prices = {} /\ checkouts = {}
  /\ invoices = [i \in Invoices |-> None]
  /\ handoffs = [i \in Invoices |-> None]
  /\ drafts = [n \in 1..MaxDrafts |->
       [stage |-> "unsent", draft |-> None, usage |-> {},
        base |-> None, invoice |-> None]]
  /\ payments = [n \in 1..MaxHandoffs |->
       [stage |-> "unsent", invoice |-> None, provider |-> None,
        read |-> None, checkout |-> None]]

Next ==
  \/ \E r \in Usage : Accept(r)
  \/ \E p \in Rules : SavePricingRule(p)
  \/ \E n \in 1..MaxDrafts :
       BeginDraft(n) \/ RateDraft(n) \/ SaveDraft(n) \/ FailDraft(n)
  \/ \E n \in 1..MaxHandoffs :
       BeginHandoff(n) \/ CreateCheckout(n) \/ SaveHandoff(n) \/ FailHandoff(n)

Spec == Init /\ [][Next]_vars

----
(***************************************************************************)
(* Properties.                                                             *)
(***************************************************************************)

Stored == {i \in Invoices : invoices[i] # None}

\* Every variable is in its type, and what a stored handoff refers to exists.
TypeOK ==
  /\ ledger \subseteq Usage /\ prices \subseteq Rules
  /\ \A n \in 1..MaxDrafts :
       drafts[n].stage \in
         {"unsent", "rating", "saving", "refused", "failed", "answered"}
  /\ \A n \in 1..MaxHandoffs :
       payments[n].stage \in
         {"unsent", "paying", "saving", "refused", "failed", "answered"}
  /\ \A i \in Stored : /\ invoices[i].draft \in Drafts
                        /\ invoices[i].draft.invoice = i
                        /\ invoices[i].events \subseteq ledger
  /\ \A i \in Invoices : handoffs[i] # None =>
       /\ i \in Stored /\ handoffs[i].provider \in Providers
       /\ handoffs[i].provider # "manual" =>
            \E c \in checkouts : c.id = handoffs[i].checkout /\ c.invoice = i

\* An invoice leaves nothing out of the usage it was made from: its lines
\* add up to all of it and, unless the request names a currency, are in one.
LinesAccountForUsage ==
  \A i \in Stored :
    LET inv == invoices[i]
    IN /\ SumFunction([g \in DOMAIN inv.lines |-> inv.lines[g].quantity])
            = SumFunction([r \in inv.events |-> r.units])
       /\ inv.draft.currency = None =>
            \A g, h \in DOMAIN inv.lines :
              inv.lines[g].rule.currency = inv.lines[h].rule.currency

\* An event is on no two invoices whose periods are disjoint, however late
\* it was uploaded and however the drafts interleave.
BilledInOnePeriod ==
  \A i, j \in Stored :
    \/ invoices[i].draft.from < invoices[j].draft.to
       /\ invoices[j].draft.from < invoices[i].draft.to
    \/ invoices[i].events \cap invoices[j].events = {}

\* A draft that is repeated brings in the usage that came late and loses
\* nothing of what the stored invoice had billed, unless another draft of
\* the same invoice was stored since it began.
RedraftKeepsUsage ==
  [][\A n \in 1..MaxDrafts :
       LET d == drafts[n].draft
       IN /\ SaveDraft(n)
          /\ drafts[n].base # None /\ invoices[d.invoice] = drafts[n].base
          => {r \in invoices[d.invoice].events : InScope(r, d)}
               \subseteq invoices'[d.invoice].events]_vars

\* The value of a cart at the prices of the rules.
CartValue(inv, cart) ==
  SumFunction([g \in DOMAIN cart |-> cart[g].quantity * inv.lines[g].rule.cents])

\* What the checkout on file asks for is what the stored invoice bills, if
\* that is still the invoice that was handed over, its quantities are whole
\* and no minimum charge applies; with parts of a call it is not less.
PaidIsBilled ==
  \A i \in Stored : \A c \in checkouts :
    /\ handoffs[i] # None /\ handoffs[i].read = invoices[i]
    /\ c.id = handoffs[i].checkout
    /\ \A g \in DOMAIN invoices[i].lines :
         LET l == invoices[i].lines[g]
         IN l.amount = RoundUp(l.billable * l.rule.cents)
    => /\ CartValue(invoices[i], c.cart) >= invoices[i].total
       /\ (\A g \in DOMAIN invoices[i].lines :
             invoices[i].lines[g].billable % 2 = 0)
            => CartValue(invoices[i], c.cart) = invoices[i].total

====
