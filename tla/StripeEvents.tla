---------------------------- MODULE StripeEvents ----------------------------
(***************************************************************************)
(* StripeWebhookService.process (billing/stripe.ts) for one organization:  *)
(* invoice events that Stripe delivers in any order, several times and in  *)
(* parallel, and the delinquency they lead to, which every new commitment  *)
(* is admitted against (billing/admission.ts).  Transactions are split at  *)
(* the statements where they wait or see what others committed.  Events of *)
(* other types leave a receipt and nothing else.                           *)
(***************************************************************************)
EXTENDS Naturals, FiniteSets

CONSTANTS
  Events,      \* [id, invoice, failed, created]: invoice.payment_failed and invoice.paid
  Deliveries,  \* webhook requests that may be in progress at once
  MaxFailures, \* bound on transactions that fail
  MaxAdmitted  \* bound on commitments

Invoices == {e.invoice : e \in Events}
Unseen == [failed |-> FALSE, created |-> 0, id |-> 0]   \* no row; created starts at 1

NoOne == "none"
Admission == "admission"

EventsAssumption ==
  /\ {NoOne, Admission} \cap Deliveries = {}
  /\ Events \subseteq [id : Nat, invoice : Nat, failed : BOOLEAN, created : Nat \ {0}]
  /\ \A d, e \in Events : d.id = e.id => d = e
  /\ MaxFailures \in Nat /\ MaxAdmitted \in Nat

VARIABLES
  linked,     \* whether the billing account knows its Stripe customer
  receipts,   \* stripe_events that are committed
  invoice,    \* stripe_invoice_delinquency: the event that each invoice's row holds
  delinquent, \* delinquent_at of the billing account
  tx,         \* the transactions of deliveries: event and statement
  lock,       \* who holds the organization row
  commitment, \* a transaction that admits a commitment: what it read
  admitted,   \* number of commitments admitted
  failures

eventsVars == <<linked, receipts, invoice, delinquent, tx, lock, commitment, admitted, failures>>

Idle == [pc |-> "idle", event |-> Unseen, row |-> Unseen]

EventsInit ==
  /\ linked = FALSE /\ receipts = {} /\ delinquent = FALSE
  /\ invoice = [i \in Invoices |-> Unseen]
  /\ tx = [d \in Deliveries |-> Idle]
  /\ lock = NoOne /\ commitment = "idle" /\ admitted = 0 /\ failures = 0

-----------------------------------------------------------------------------

Link ==
  /\ ~linked /\ linked' = TRUE
  /\ UNCHANGED <<receipts, invoice, delinquent, tx, lock, commitment, admitted, failures>>

\* The receipt is inserted.  A transaction with the same event waits for this
\* one; an event with a receipt is answered as a replay and nothing is done.
Receive(d, e) ==
  /\ tx[d].pc = "idle" /\ e \notin receipts
  /\ \A other \in Deliveries : tx[other].pc # "idle" => tx[other].event # e
  /\ tx' = [tx EXCEPT ![d] = [pc |-> "lookup", event |-> e, row |-> Unseen]]
  /\ UNCHANGED <<linked, receipts, invoice, delinquent, lock, commitment, admitted, failures>>

\* Without an account the transaction is rolled back, receipt included.
Lookup(d) ==
  /\ tx[d].pc = "lookup"
  /\ tx' = [tx EXCEPT ![d] = IF linked THEN [@ EXCEPT !.pc = "lock"] ELSE Idle]
  /\ UNCHANGED <<linked, receipts, invoice, delinquent, lock, commitment, admitted, failures>>

\* The organization, the account and the invoice's row are locked and read.  They are
\* still there: nothing of the control plane removes an organization or gives a linked
\* account another customer, the only case in which the code falls through.
Lock(d) ==
  /\ tx[d].pc = "lock" /\ lock = NoOne
  /\ lock' = d
  /\ tx' = [tx EXCEPT ![d].pc = "apply", ![d].row = invoice[tx[d].event.invoice]]
  /\ UNCHANGED <<linked, receipts, invoice, delinquent, commitment, admitted, failures>>

\* Mutant: an event of the same second replaces the row, whatever it says.
NewerOrSame(e, row) == e.created >= row.created

Rank(e) == IF e.failed THEN 1 ELSE 0

\* By creation time, then failures first, then the id.
Newer(e, row) ==
  \/ row = Unseen
  \/ e.created > row.created
  \/ e.created = row.created /\ Rank(e) > Rank(row)
  \/ e.created = row.created /\ Rank(e) = Rank(row) /\ e.id > row.id

\* EXISTS over the invoices of the organization.
Aggregate(rows) == \E i \in Invoices : rows[i].failed

RowOf(e) == [failed |-> e.failed, created |-> e.created, id |-> e.id]

Upsert(row, e) == RowOf(e)

\* The rest of the transaction and its commit.
Apply(d) ==
  LET e == tx[d].event
      rows == [invoice EXCEPT ![e.invoice] = Upsert(@, e)]
  IN  /\ tx[d].pc = "apply"
      /\ IF Newer(e, tx[d].row) THEN invoice' = rows /\ delinquent' = Aggregate(rows)
         ELSE UNCHANGED <<invoice, delinquent>>
      /\ receipts' = receipts \cup {e}
      /\ tx' = [tx EXCEPT ![d] = Idle]
      /\ lock' = IF lock = d THEN NoOne ELSE lock
      /\ UNCHANGED <<linked, commitment, admitted, failures>>

\* Mutant: the connection is given back without ROLLBACK.
FailOpen(d) ==
  /\ tx[d].pc # "idle" /\ failures < MaxFailures /\ failures' = failures + 1
  /\ tx' = [tx EXCEPT ![d] = Idle]
  /\ UNCHANGED <<linked, receipts, invoice, delinquent, lock, commitment, admitted>>

\* A statement fails, the process dies or the connection is lost before the
\* commit: everything is rolled back and Stripe gets no answer or a 500.
Fail(d) ==
  /\ tx[d].pc # "idle" /\ failures < MaxFailures /\ failures' = failures + 1
  /\ tx' = [tx EXCEPT ![d] = Idle]
  /\ lock' = IF lock = d THEN NoOne ELSE lock
  /\ UNCHANGED <<linked, receipts, invoice, delinquent, commitment, admitted>>

\* A create, fork, extend or volume: enforce reads the account under the
\* organization's lock, and the commitment is made before the lock is released.
Enforce ==
  /\ commitment = "idle" /\ lock = NoOne /\ admitted < MaxAdmitted
  /\ lock' = Admission /\ commitment' = IF delinquent THEN "rejected" ELSE "admitted"
  /\ UNCHANGED <<linked, receipts, invoice, delinquent, tx, admitted, failures>>

Commit ==
  /\ commitment # "idle" /\ commitment' = "idle" /\ lock' = NoOne
  /\ admitted' = IF commitment = "admitted" THEN admitted + 1 ELSE admitted
  /\ UNCHANGED <<linked, receipts, invoice, delinquent, tx, failures>>

EventsNext ==
  \/ Link \/ Enforce \/ Commit
  \/ \E d \in Deliveries : \/ \E e \in Events : Receive(d, e)
                           \/ Lookup(d) \/ Lock(d) \/ Apply(d) \/ Fail(d)

EventsSpec == EventsInit /\ [][EventsNext]_eventsVars

-----------------------------------------------------------------------------

\* The account's standing is a function of the events received, whatever their
\* order of arrival: an invoice counts as failed when its latest event, or any of
\* its latest second, is a failure, and one such invoice is enough.
StandingIsLatest ==
  LET Latest(i) == {e \in receipts : e.invoice = i /\ \A f \in receipts : f.invoice = i => f.created <= e.created}
  IN  delinquent <=> \E i \in Invoices : \E e \in Latest(i) : e.failed

\* "a webhook transition cannot race a new commitment" (stripe.ts:169): none is
\* admitted once the account is delinquent.
DelinquentGetsNothing == commitment = "admitted" => ~delinquent

\* The standing of the account is what the events received say, and who reads it to
\* admit a commitment reads nothing older (billing/stripe.ts, admission.ts).
StandingFollowsSource == StandingIsLatest /\ DelinquentGetsNothing
=============================================================================
