------------------------------- MODULE Billing -------------------------------
(***************************************************************************)
(* One account's subscription: Stripe changes it and reports each change   *)
(* with an event, webhook transactions project it into                     *)
(* billing_subscriptions, billing_invoices and billing_payments, and the   *)
(* finalization of a deployment starts the free trial in the same row.     *)
(*                                                                         *)
(* A webhook transaction runs at READ COMMITTED and takes a lock on its    *)
(* event's id only, so transactions of different events of one account     *)
(* interleave between any two awaits.                                      *)
(***************************************************************************)
EXTENDS Naturals

CONSTANTS
    Sub,        \* the subscriptions a Stripe customer may come to have
    NoSub,
    MaxPlan,    \* BILLING_PLAN_ORDER: 0 is free, the others are sold
    Handler,    \* concurrent webhook transactions
    Writer,     \* concurrent finalizations and trial reconciliations
    MaxEvent,   \* bound on the events Stripe emits
    Activation, \* LIVE activations of the account's projects; bounds their number
    NoActivation

ASSUME BillingAssumption ==
    /\ MaxPlan \in Nat /\ MaxEvent \in Nat
    /\ NoSub \notin Sub /\ NoActivation \notin Activation
    /\ Handler \cap Writer = {}

Session == Handler \cup Writer
Event   == 1 .. MaxEvent
Plan    == 0 .. MaxPlan

Status         == {"active", "past_due", "unpaid", "canceled"}
PaidStatus     == {"active", "past_due"}
TerminalStatus == {"unpaid", "canceled"}

VARIABLES
    stripe,         \* [Sub -> the subscription as Stripe has it]
    stripeInvoice,  \* [Sub -> its renewal invoice as Stripe has it]
    event, sent,    \* the events emitted, event[1 .. sent], in the order they occurred
    checkout,       \* [Sub -> the Checkout that may create it]
    row,            \* the account's row of billing_subscriptions
    processed,      \* the events recorded as processed
    invoice,        \* [Sub -> billing_invoices.status]
    payments,       \* [Sub -> its rows in billing_payments]
    lives,          \* the activations recorded as LIVE
    at, on,         \* [Session -> program counter, event or activation]
    got,            \* [Session -> the subscription it retrieved]
    mine,           \* [Session -> the entity it changed in memory]
    base,           \* [Session -> the row as save() found it]
    overlapped,     \* history: two transactions of the account overlapped
    reordered       \* history: subscriptions with invoice events taken out of order

stripeVars  == <<stripe, stripeInvoice, event, sent>>
localVars   == <<checkout, row, processed, invoice, payments, lives>>
sessionVars == <<at, on, got, mine, base>>
historyVars == <<overlapped, reordered>>
vars == <<stripeVars, localVars, sessionVars, historyVars>>

Subscription == [status : Status \cup {"none"}, plan : Plan]
NotSold      == [status |-> "none", plan |-> 0]

Kind        == {"checkout", "updated", "deleted", "invoice.payment_failed", "invoice.paid"}
StripeEvent == [kind : Kind, sub : Sub, state : Subscription]

(* at: providerEventCreatedAt.  trial: the activation that started the     *)
(* free trial.                                                             *)
Row     == [sub : Sub \cup {NoSub}, plan : Plan, status : Status,
            at : 0 .. MaxEvent, trial : Activation \cup {NoActivation}]
FreeRow == [sub |-> NoSub, plan |-> 0, status |-> "active", at |-> 0,
            trial |-> NoActivation]

CheckoutState == [status : {"none", "created", "completed"}, plan : Plan]
InvoiceState  == {"none", "payment_failed", "paid"}
Pc            == {"idle", "received", "retrieved", "read", "saving"}

TypeOK ==
    /\ stripe \in [Sub -> Subscription]
    /\ stripeInvoice \in [Sub -> InvoiceState]
    /\ sent \in 0 .. MaxEvent
    /\ DOMAIN event = 1 .. sent
    /\ \A e \in 1 .. sent : event[e] \in StripeEvent
    /\ checkout \in [Sub -> CheckoutState]
    /\ row \in Row
    /\ processed \subseteq 1 .. sent
    /\ invoice \in [Sub -> InvoiceState]
    /\ payments \in [Sub -> 0 .. 1]
    /\ lives \subseteq Activation
    /\ at \in [Session -> Pc]
    /\ on \in [Session -> Nat \cup Activation]
    /\ got \in [Session -> Subscription]
    /\ mine \in [Session -> Row]
    /\ base \in [Session -> Row]
    /\ overlapped \in BOOLEAN
    /\ reordered \subseteq Sub

Init ==
    /\ stripe = [s \in Sub |-> NotSold]
    /\ stripeInvoice = [s \in Sub |-> "none"]
    /\ event = << >>
    /\ sent = 0
    /\ checkout = [s \in Sub |-> [status |-> "none", plan |-> 0]]
    /\ row = FreeRow
    /\ processed = {}
    /\ invoice = [s \in Sub |-> "none"]
    /\ payments = [s \in Sub |-> 0]
    /\ lives = {}
    /\ at = [s \in Session |-> "idle"]
    /\ on = [s \in Session |-> 0]
    /\ got = [s \in Session |-> NotSold]
    /\ mine = [s \in Session |-> FreeRow]
    /\ base = [s \in Session |-> FreeRow]
    /\ overlapped = FALSE
    /\ reordered = {}

-----------------------------------------------------------------------------
(***************************************************************************)
(* Stripe.  Every change is reported at least once; reports may be         *)
(* delivered late, repeatedly and in any order.                            *)
(***************************************************************************)
Emit(kind, sub) ==
    /\ sent < MaxEvent
    /\ sent' = sent + 1
    /\ event' = [e \in 1 .. sent + 1 |->
                    IF e <= sent THEN event[e]
                    ELSE [kind |-> kind, sub |-> sub, state |-> stripe'[sub]]]
    /\ UNCHANGED <<localVars, sessionVars, historyVars>>

(* A customer pays in Checkout.                                            *)
Subscribe(sub) ==
    /\ checkout[sub].status = "created"
    /\ stripe[sub].status = "none"
    /\ stripe' = [stripe EXCEPT ![sub] = [status |-> "active", plan |-> checkout[sub].plan]]
    /\ UNCHANGED stripeInvoice
    /\ Emit("checkout", sub)

(* The plan is changed in the billing portal, or the retries of a charge   *)
(* are given up.                                                           *)
Update(sub, status, plan) ==
    /\ stripe[sub].status \in Status \ {"canceled"}
    /\ \/ status = stripe[sub].status /\ plan \notin {0, stripe[sub].plan}
       \/ status = "unpaid" /\ stripe[sub] = [status |-> "past_due", plan |-> plan]
    /\ stripe' = [stripe EXCEPT ![sub] = [status |-> status, plan |-> plan]]
    /\ UNCHANGED stripeInvoice
    /\ Emit("updated", sub)

Cancel(sub) ==
    /\ stripe[sub].status \in Status \ {"canceled"}
    /\ stripe' = [stripe EXCEPT ![sub].status = "canceled"]
    /\ UNCHANGED stripeInvoice
    /\ Emit("deleted", sub)

ChargeFails(sub) ==
    /\ stripe[sub].status \in PaidStatus
    /\ stripeInvoice[sub] # "paid"
    /\ stripe' = [stripe EXCEPT ![sub].status = "past_due"]
    /\ stripeInvoice' = [stripeInvoice EXCEPT ![sub] = "payment_failed"]
    /\ Emit("invoice.payment_failed", sub)

(* A paid invoice may be reported by more than one event.                  *)
ChargeSucceeds(sub) ==
    /\ stripe[sub].status \in Status \ {"canceled"}
    /\ stripe' = [stripe EXCEPT ![sub].status = "active"]
    /\ stripeInvoice' = [stripeInvoice EXCEPT ![sub] = "paid"]
    /\ Emit("invoice.paid", sub)

-----------------------------------------------------------------------------
(***************************************************************************)
(* Checkout.                                                               *)
(***************************************************************************)
EffectivePlan == IF row.status \in PaidStatus THEN row.plan ELSE 0

OpenCheckoutAndGrant(sub, plan) ==    \* mutant: opening a Checkout activates the plan
    /\ checkout[sub].status = "none"
    /\ plan > EffectivePlan
    /\ row.sub = NoSub \/ row.status \in TerminalStatus
    /\ checkout' = [checkout EXCEPT ![sub] = [status |-> "created", plan |-> plan]]
    /\ row' = [row EXCEPT !.plan = plan]
    /\ UNCHANGED <<stripeVars, processed, invoice, payments, lives, sessionVars,
                   historyVars>>

(* createCheckout: upgrades only, and not beside an existing subscription. *)
OpenCheckout(sub, plan) ==
    /\ checkout[sub].status = "none"
    /\ plan > EffectivePlan
    /\ row.sub = NoSub \/ row.status \in TerminalStatus
    /\ checkout' = [checkout EXCEPT ![sub] = [status |-> "created", plan |-> plan]]
    /\ UNCHANGED <<stripeVars, row, processed, invoice, payments, lives,
                   sessionVars, historyVars>>

-----------------------------------------------------------------------------
(***************************************************************************)
(* Transactions.  save() reads the row again and updates the columns in    *)
(* which the entity differs from what it found; the update waits for the   *)
(* commit of any other, and takes effect with the transaction's own.       *)
(***************************************************************************)
Column(changed, found, now) == IF changed # found THEN changed ELSE now

Saved(s) ==
    [sub    |-> Column(mine[s].sub, base[s].sub, row.sub),
     plan   |-> Column(mine[s].plan, base[s].plan, row.plan),
     status |-> Column(mine[s].status, base[s].status, row.status),
     at     |-> Column(mine[s].at, base[s].at, row.at),
     trial  |-> Column(mine[s].trial, base[s].trial, row.trial)]

Begin(s, pc, n) ==
    /\ at[s] = "idle"
    /\ at' = [at EXCEPT ![s] = pc]
    /\ on' = [on EXCEPT ![s] = n]
    /\ overlapped' = (overlapped \/ \E t \in Session : at[t] # "idle")
    /\ UNCHANGED <<reordered, stripeVars>>

Goto(s, from, to) ==
    /\ at[s] = from
    /\ at' = [at EXCEPT ![s] = to]
    /\ UNCHANGED <<on, stripeVars, localVars, historyVars>>

End(s) ==
    /\ at' = [at EXCEPT ![s] = "idle"]
    /\ on' = [on EXCEPT ![s] = 0]
    /\ got' = [got EXCEPT ![s] = NotSold]
    /\ mine' = [mine EXCEPT ![s] = FreeRow]
    /\ base' = [base EXCEPT ![s] = FreeRow]

Reload(s) ==
    /\ Goto(s, "read", "saving")
    /\ base' = [base EXCEPT ![s] = row]
    /\ UNCHANGED <<got, mine>>

(* Any error rolls the transaction back; Stripe will deliver again.        *)
Abort(s) ==
    /\ at[s] # "idle"
    /\ End(s)
    /\ UNCHANGED <<stripeVars, localVars, historyVars>>

-----------------------------------------------------------------------------
(***************************************************************************)
(* Webhooks.  A delivery of a processed event changes nothing.             *)
(***************************************************************************)
Receive(h, e) ==
    /\ e \in 1 .. sent
    /\ e \notin processed
    /\ \A g \in Handler : on[g] # e
    /\ Begin(h, "received", e)
    /\ UNCHANGED <<got, mine, base, localVars>>

RetrieveSupplied(h) ==            \* mutant: the event's own object is trusted
    /\ Goto(h, "received", "retrieved")
    /\ got' = [got EXCEPT ![h] = event[on[h]].state]
    /\ UNCHANGED <<mine, base>>

(* A deletion is applied from the event, anything else is retrieved.       *)
Retrieve(h) ==
    /\ Goto(h, "received", "retrieved")
    /\ got' = [got EXCEPT ![h] = IF event[on[h]].kind = "deleted"
                                 THEN event[on[h]].state ELSE stripe[event[on[h]].sub]]
    /\ UNCHANGED <<mine, base>>

(* processCheckoutCompleted accepts only the plan it sold.                 *)
PlanMismatch(h) ==
    event[on[h]].kind = "checkout" /\ got[h].plan # checkout[event[on[h]].sub].plan

NeverConflicts(h) == FALSE        \* mutant: another subscription takes the row over

Conflicts(h) ==
    /\ row.sub \notin {NoSub, event[on[h]].sub}
    /\ row.status \notin TerminalStatus

Stale(h) == event[on[h]].kind = "deleted" /\ row.at > on[h]

(* applySubscription, up to its save.                                      *)
ReadAccount(h) ==
    /\ Goto(h, "retrieved", "read")
    /\ ~Conflicts(h) /\ ~Stale(h) /\ ~PlanMismatch(h)
    /\ mine' = [mine EXCEPT ![h] =
                  [row EXCEPT !.sub = event[on[h]].sub,
                              !.plan = got[h].plan,
                              !.status = got[h].status,
                              !.at = IF @ <= on[h] THEN on[h] ELSE @]]
    /\ UNCHANGED <<got, base>>

Refuse(h) ==
    /\ at[h] = "retrieved"
    /\ Conflicts(h) \/ PlanMismatch(h)
    /\ End(h)
    /\ UNCHANGED <<stripeVars, localVars, historyVars>>

IgnoreStale(h) ==
    /\ at[h] = "retrieved"
    /\ Stale(h) /\ ~Conflicts(h)
    /\ processed' = processed \cup {on[h]}
    /\ End(h)
    /\ UNCHANGED <<stripeVars, checkout, row, invoice, payments, lives,
                   historyVars>>

InvoiceKinds == {"invoice.payment_failed", "invoice.paid"}

PersistInvoiceNew(e) ==           \* mutant: the payment is inserted with the invoice
    LET i == event[e].sub
    IN  IF event[e].kind \in InvoiceKinds
        THEN /\ invoice' = [invoice EXCEPT ![i] =
                    IF event[e].kind = "invoice.paid" THEN "paid" ELSE "payment_failed"]
             /\ payments' = [payments EXCEPT ![i] =
                    IF event[e].kind = "invoice.paid" /\ invoice[i] = "none" THEN 1 ELSE @]
        ELSE UNCHANGED <<invoice, payments>>

PersistInvoicePaid(e) ==          \* mutant: only a paid event is written
    LET i == event[e].sub
    IN  IF event[e].kind = "invoice.paid"
        THEN /\ invoice' = [invoice EXCEPT ![i] = "paid"]
             /\ payments' = [payments EXCEPT ![i] = IF @ = 0 THEN 1 ELSE @]
        ELSE UNCHANGED <<invoice, payments>>

(* persistInvoice: one payment for a paid invoice, whatever is delivered.  *)
PersistInvoice(e) ==
    LET i == event[e].sub
    IN  IF event[e].kind \in InvoiceKinds
        THEN /\ invoice' = [invoice EXCEPT ![i] =
                    IF event[e].kind = "invoice.paid" THEN "paid" ELSE "payment_failed"]
             /\ payments' = [payments EXCEPT ![i] =
                    IF event[e].kind = "invoice.paid" /\ @ = 0 THEN 1 ELSE @]
        ELSE UNCHANGED <<invoice, payments>>

TakenOutOfOrder(e) ==
    {sub \in Sub : \E d \in processed :
        /\ d > e
        /\ event[d].sub = sub /\ event[e].sub = sub
        /\ event[d].kind \in InvoiceKinds /\ event[e].kind \in InvoiceKinds}

CommitWebhook(h) ==
    LET e == on[h]
    IN  /\ h \in Handler
        /\ at[h] = "saving"
        /\ row' = Saved(h)
        /\ processed' = processed \cup {e}
        /\ checkout' = IF event[e].kind = "checkout"
                       THEN [checkout EXCEPT ![event[e].sub].status = "completed"] ELSE checkout
        /\ PersistInvoice(e)
        /\ reordered' = reordered \cup TakenOutOfOrder(e)
        /\ End(h)
        /\ UNCHANGED <<stripeVars, lives, overlapped>>

-----------------------------------------------------------------------------
(***************************************************************************)
(* The free trial.                                                         *)
(***************************************************************************)
TrialDue == EffectivePlan = 0 /\ row.trial = NoActivation

(* recordSuccessfulLiveDeployment, in the finalization's transaction.      *)
GoLive(w, n) ==
    /\ w \in Writer /\ at[w] = "idle"
    /\ n \notin lives
    /\ \A v \in Writer : on[v] # n
    /\ IF TrialDue
       THEN /\ Begin(w, "read", n)
            /\ mine' = [mine EXCEPT ![w] = [row EXCEPT !.trial = n]]
            /\ UNCHANGED lives
       ELSE /\ lives' = lives \cup {n}
            /\ UNCHANGED <<stripeVars, at, on, mine, historyVars>>
    /\ UNCHANGED <<checkout, row, processed, invoice, payments, got, base>>

(* reconcileFreeTrial; it has a lock of its own.                           *)
ReconcileTrial(w, n) ==
    /\ w \in Writer
    /\ TrialDue
    /\ n \in lives
    /\ \A v \in Writer : on[v] \notin lives
    /\ Begin(w, "read", n)
    /\ mine' = [mine EXCEPT ![w] = [row EXCEPT !.trial = n]]
    /\ UNCHANGED <<got, base, localVars>>

CommitTrial(w) ==
    /\ w \in Writer
    /\ at[w] = "saving"
    /\ row' = Saved(w)
    /\ lives' = lives \cup {on[w]}
    /\ End(w)
    /\ UNCHANGED <<stripeVars, checkout, processed, invoice, payments, historyVars>>

-----------------------------------------------------------------------------
StripeStep(sub) ==
    \/ Subscribe(sub) \/ Cancel(sub) \/ ChargeFails(sub) \/ ChargeSucceeds(sub)
    \/ \E status \in Status, plan \in Plan : Update(sub, status, plan)

Webhook(h) ==
    \/ Retrieve(h) \/ ReadAccount(h) \/ Refuse(h) \/ IgnoreStale(h) \/ CommitWebhook(h)
    \/ \E e \in Event : Receive(h, e)

Trial(w) ==
    \/ CommitTrial(w)
    \/ \E n \in Activation : GoLive(w, n) \/ ReconcileTrial(w, n)

Next ==
    \/ \E sub \in Sub : StripeStep(sub) \/ \E plan \in Plan : OpenCheckout(sub, plan)
    \/ \E h \in Handler : Webhook(h)
    \/ \E w \in Writer : Trial(w)
    \/ \E s \in Session : Reload(s) \/ Abort(s)

Spec == Init /\ [][Next]_vars

-----------------------------------------------------------------------------
(***************************************************************************)
(* Safety under full concurrency.                                          *)
(***************************************************************************)

(* An invoice has one payment as soon as one of its paid events has been   *)
(* processed, and never a second, however often and by however many events *)
(* the payment is reported.                                                *)
PaymentsOnce ==
    \A sub \in Sub :
        payments[sub] = IF \E e \in processed : /\ event[e].kind = "invoice.paid"
                                                /\ event[e].sub = sub
                        THEN 1 ELSE 0

(* A paid plan, even one put together from the columns of overlapping      *)
(* saves, is one that Stripe sold, and a processed webhook brought it.     *)
PlanWasSold ==
    row.plan # 0 =>
        /\ processed # {}
        /\ \E e \in 1 .. sent : event[e].state.plan = row.plan

(***************************************************************************)
(* What holds when the account's transactions do not overlap.              *)
(***************************************************************************)
AllProcessed(sub) == \A e \in 1 .. sent : event[e].sub = sub => e \in processed

(* Stripe is authoritative: once every event of the row's subscription has *)
(* been processed, in any order, the row says what Stripe says.            *)
SettledLikeStripe ==
    /\ ~overlapped
    /\ \A s \in Session : at[s] = "idle"
    /\ row.sub # NoSub /\ AllProcessed(row.sub)
    => row.status = stripe[row.sub].status /\ row.plan = stripe[row.sub].plan

(* What Stripe has reported of a subscription by now: that it is unpaid or *)
(* canceled.                                                               *)
ReportedEnded(sub) ==
    \E e \in 1 .. sent : event[e].sub = sub /\ event[e].state.status \in TerminalStatus

(* A subscription keeps the account's row until Stripe has reported it     *)
(* unpaid or canceled: before that no event of another subscription, late, *)
(* repeated or out of order, takes the row over.  (A subscription that was *)
(* unpaid and has recovered since may lose it: the code asks its own row.) *)
KeepsSubscription ==
    [][ ~overlapped /\ row.sub # NoSub /\ row'.sub # row.sub => ReportedEnded(row.sub) ]_row

(* A subscription that the row calls canceled is never revived there by a  *)
(* late or repeated event of its life before.                              *)
EndedStaysEnded ==
    [][ ~overlapped /\ row.status = "canceled" /\ row'.sub = row.sub
            => row'.status = "canceled" ]_row

(* An invoice whose events were processed in the order they occurred ends  *)
(* up as Stripe has it.                                                    *)
SettledInvoices ==
    \A sub \in Sub \ reordered : AllProcessed(sub) => invoice[sub] = stripeInvoice[sub]

(* An invoice that was paid stays paid.                                    *)
InvoiceStaysPaid ==
    [][ \A sub \in Sub : invoice[sub] = "paid" => invoice'[sub] = "paid" ]_invoice

=============================================================================
