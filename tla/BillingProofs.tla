---------------------------- MODULE BillingProofs ----------------------------
(***************************************************************************)
(* What holds of the billing projection however its transactions overlap,  *)
(* abort and are delivered again.                                          *)
(***************************************************************************)
EXTENDS Billing, TLAPS

Sold == [status : Status, plan : Plan]

PlanKnown(p) == p = 0 \/ \E e \in 1 .. sent : event[e].state.plan = p

(* Every event tells of a subscription that exists, and every plan Stripe  *)
(* sells has been told of.                                                 *)
EventsTellTruth ==
    /\ \A e \in 1 .. sent : event[e].state \in Sold /\ stripe[event[e].sub].status # "none"
    /\ \A sub \in Sub : PlanKnown(stripe[sub].plan)

(* What a transaction carries from its reads to its commit.                *)
SessionsCarryTruth ==
    \A s \in Session :
        /\ at[s] # "idle" => on[s] \in IF s \in Handler THEN 1 .. sent ELSE Activation
        /\ s \in Writer => at[s] \in {"idle", "read", "saving"}
        /\ at[s] = "retrieved" => got[s] \in Sold
        /\ PlanKnown(got[s].plan)
        /\ PlanKnown(mine[s].plan)
        /\ s \in Writer /\ mine[s].plan # 0 => processed # {}

RowTellsTruth == PlanKnown(row.plan) /\ (row.plan # 0 => processed # {})

(* The last invoice event among S, by its kind.                            *)
OfInvoice(e, sub) == event[e].sub = sub /\ event[e].kind \in InvoiceKinds

LastReport(S, sub, status) ==
    \/ status = "none" /\ \A e \in S : ~OfInvoice(e, sub)
    \/ \E e \in S :
          /\ OfInvoice(e, sub)
          /\ \A d \in S : OfInvoice(d, sub) => d <= e
          /\ status = IF event[e].kind = "invoice.paid" THEN "paid" ELSE "payment_failed"

InvoicesFollowReports ==
    /\ \A sub \in Sub : LastReport(1 .. sent, sub, stripeInvoice[sub])
    /\ \A sub \in Sub \ reordered : LastReport(processed, sub, invoice[sub])

PlanInv == TypeOK /\ EventsTellTruth /\ SessionsCarryTruth /\ RowTellsTruth

LEMMA PlanInit == Init => PlanInv
  <1> SUFFICES ASSUME Init PROVE PlanInv
    OBVIOUS
  <1> USE BillingAssumption DEF Init
  <1>1. TypeOK
    <2>1. NotSold \in Subscription /\ FreeRow \in Row
      BY DEF Subscription, NotSold, Row, FreeRow, Plan, Status
    <2>2. DOMAIN event = 1 .. sent /\ \A e \in 1 .. sent : event[e] \in StripeEvent
      <3>1. DOMAIN event = 1 .. 0
        OBVIOUS
      <3> QED
        BY <3>1
    <2>3. [status |-> "none", plan |-> 0] \in CheckoutState
      BY DEF CheckoutState, Plan
    <2>4. /\ sent \in 0 .. MaxEvent /\ processed \subseteq 1 .. sent
          /\ lives \subseteq Activation
          /\ overlapped \in BOOLEAN /\ reordered \subseteq Sub
      <3>1. sent \in 0 .. MaxEvent
        OBVIOUS
      <3>2. processed \subseteq 1 .. sent /\ lives \subseteq Activation /\ reordered \subseteq Sub
        OBVIOUS
      <3>3. overlapped \in BOOLEAN
        OBVIOUS
      <3> QED
        BY <3>1, <3>2, <3>3
    <2>5. payments \in [Sub -> 0 .. 1]
      OBVIOUS
    <2> QED
      BY <2>1, <2>2, <2>3, <2>4, <2>5 DEF TypeOK, InvoiceState, Pc
  <1>2. EventsTellTruth /\ SessionsCarryTruth /\ RowTellsTruth
    BY DEF EventsTellTruth, SessionsCarryTruth, RowTellsTruth, PlanKnown, NotSold, FreeRow,
           Session
  <1> QED
    BY <1>1, <1>2 DEF PlanInv

(* Stripe only adds events, so what was known stays known.                 *)
LEMMA EmitKeeps ==
  ASSUME PlanInv, NEW sub \in Sub, NEW kind \in Kind, Emit(kind, sub),
         NEW state \in Sold, stripe' = [stripe EXCEPT ![sub] = state],
         stripeInvoice' \in [Sub -> InvoiceState]
  PROVE  PlanInv'
  <1>1. /\ sent' = sent + 1 /\ sent \in Nat /\ sent' \in 1 .. MaxEvent
        /\ DOMAIN event' = 1 .. sent'
        /\ \A e \in 1 .. sent : event'[e] = event[e]
        /\ event'[sent'] = [kind |-> kind, sub |-> sub, state |-> state]
        /\ stripe'[sub] = state
    BY BillingAssumption DEF Emit, PlanInv, TypeOK
  <1>2. state \in Subscription
    BY DEF Sold, Subscription
  <1>3. \A e \in 1 .. sent' : event'[e] \in StripeEvent
    BY <1>1, <1>2 DEF PlanInv, TypeOK, StripeEvent
  <1>4. TypeOK'
    <2>1. stripe' \in [Sub -> Subscription] /\ sent' \in 0 .. MaxEvent
      BY <1>1, <1>2, BillingAssumption DEF PlanInv, TypeOK
    <2>2. processed' \subseteq 1 .. sent'
      BY <1>1 DEF PlanInv, TypeOK, Emit, localVars
    <2> QED
      BY <1>1, <1>3, <2>1, <2>2 DEF PlanInv, TypeOK, Emit, localVars, sessionVars, historyVars
  <1>5. \A p : PlanKnown(p) => PlanKnown(p)'
    BY <1>1 DEF PlanKnown
  <1>6. PlanKnown(state.plan)'
    BY <1>1 DEF PlanKnown
  <1>7. EventsTellTruth'
    <2>1. ASSUME NEW e \in 1 .. sent'
          PROVE  event'[e].state \in Sold /\ stripe'[event'[e].sub].status # "none"
      <3>1. CASE e \in 1 .. sent
        <4>1. event'[e] = event[e] /\ event[e].sub \in Sub
          BY <1>1, <3>1 DEF PlanInv, TypeOK, StripeEvent
        <4>2. state.status # "none"
          BY DEF Sold, Status
        <4> QED
          BY <3>1, <4>1, <4>2, <1>1 DEF PlanInv, EventsTellTruth, TypeOK
      <3>2. CASE e = sent'
        BY <1>1, <3>2 DEF Sold, Status
      <3> QED
        BY <1>1, <3>1, <3>2
    <2>2. \A t \in Sub : PlanKnown(stripe[t].plan)'
      BY <1>1, <1>5, <1>6 DEF PlanInv, EventsTellTruth, TypeOK, PlanKnown
    <2> QED
      BY <2>1, <2>2 DEF EventsTellTruth
  <1>8. SessionsCarryTruth'
    <2>1. UNCHANGED <<at, on, got, mine, processed>>
      BY DEF Emit, localVars, sessionVars
    <2>2. 1 .. sent \subseteq 1 .. sent'
      BY <1>1
    <2>3. \A s \in Session : PlanKnown(got[s].plan)' /\ PlanKnown(mine[s].plan)'
      BY <1>5, <2>1 DEF PlanInv, SessionsCarryTruth, PlanKnown
    <2> QED
      BY <2>1, <2>2, <2>3 DEF PlanInv, SessionsCarryTruth
  <1>9. RowTellsTruth'
    BY <1>1, <1>5 DEF PlanInv, RowTellsTruth, Emit, localVars, PlanKnown
  <1> QED
    BY <1>4, <1>7, <1>8, <1>9 DEF PlanInv

LEMMA StripeKeeps ==
  ASSUME PlanInv, NEW sub \in Sub, StripeStep(sub)
  PROVE  PlanInv'
  <1> USE BillingAssumption
  <1>1. /\ stripe \in [Sub -> Subscription] /\ stripeInvoice \in [Sub -> InvoiceState]
        /\ checkout \in [Sub -> CheckoutState]
    BY DEF PlanInv, TypeOK
  <1>2. /\ {"active", "past_due", "unpaid", "canceled"} = Status
        /\ {"payment_failed", "paid"} \subseteq InvoiceState
        /\ \A k \in {"checkout", "updated", "deleted", "invoice.payment_failed",
                     "invoice.paid"} : k \in Kind
    BY DEF Status, InvoiceState, Kind
  <1>3. CASE Subscribe(sub)
    <2> DEFINE state == [status |-> "active", plan |-> checkout[sub].plan]
    <2>1. state \in Sold
      BY <1>1, <1>2 DEF Sold, CheckoutState
    <2>2. /\ stripe' = [stripe EXCEPT ![sub] = state] /\ stripeInvoice' = stripeInvoice
          /\ Emit("checkout", sub)
      BY <1>3 DEF Subscribe
    <2> QED
      BY <2>1, <2>2, <1>1, <1>2, EmitKeeps
  <1>4. CASE Cancel(sub)
    <2> DEFINE state == [stripe[sub] EXCEPT !.status = "canceled"]
    <2>1. state \in Sold
      BY <1>1, <1>2 DEF Sold, Subscription
    <2>2. /\ stripe' = [stripe EXCEPT ![sub] = state] /\ stripeInvoice' = stripeInvoice
          /\ Emit("deleted", sub)
      BY <1>4 DEF Cancel
    <2> QED
      BY <2>1, <2>2, <1>1, <1>2, EmitKeeps
  <1>5. CASE ChargeFails(sub)
    <2> DEFINE state == [stripe[sub] EXCEPT !.status = "past_due"]
    <2>1. state \in Sold
      BY <1>1, <1>2 DEF Sold, Subscription
    <2>2. /\ stripe' = [stripe EXCEPT ![sub] = state]
          /\ stripeInvoice' \in [Sub -> InvoiceState]
          /\ Emit("invoice.payment_failed", sub)
      BY <1>5, <1>1, <1>2 DEF ChargeFails
    <2> QED
      BY <2>1, <2>2, <1>1, <1>2, EmitKeeps
  <1>6. CASE ChargeSucceeds(sub)
    <2> DEFINE state == [stripe[sub] EXCEPT !.status = "active"]
    <2>1. state \in Sold
      BY <1>1, <1>2 DEF Sold, Subscription
    <2>2. /\ stripe' = [stripe EXCEPT ![sub] = state]
          /\ stripeInvoice' \in [Sub -> InvoiceState]
          /\ Emit("invoice.paid", sub)
      BY <1>6, <1>1, <1>2 DEF ChargeSucceeds
    <2> QED
      BY <2>1, <2>2, <1>1, <1>2, EmitKeeps
  <1>7. ASSUME NEW status \in Status, NEW plan \in Plan, Update(sub, status, plan)
        PROVE  PlanInv'
    <2> DEFINE state == [status |-> status, plan |-> plan]
    <2>1. state \in Sold
      BY DEF Sold
    <2>2. /\ stripe' = [stripe EXCEPT ![sub] = state] /\ stripeInvoice' = stripeInvoice
          /\ Emit("updated", sub)
      BY <1>7 DEF Update
    <2> QED
      BY <2>1, <2>2, <1>1, <1>2, EmitKeeps
  <1> QED
    BY <1>3, <1>4, <1>5, <1>6, <1>7 DEF StripeStep

LEMMA OpenCheckoutKeeps ==
  ASSUME PlanInv, NEW sub \in Sub, NEW plan \in Plan, OpenCheckout(sub, plan)
  PROVE  PlanInv'
  <1>1. TypeOK'
    BY DEF PlanInv, TypeOK, OpenCheckout, CheckoutState, stripeVars, sessionVars, historyVars
  <1>2. EventsTellTruth' /\ SessionsCarryTruth' /\ RowTellsTruth'
    BY DEF PlanInv, OpenCheckout, stripeVars, sessionVars, EventsTellTruth,
           SessionsCarryTruth, RowTellsTruth, PlanKnown
  <1> QED
    BY <1>1, <1>2 DEF PlanInv

(* A transaction that ends forgets what it read.                           *)
LEMMA EndKeeps ==
  ASSUME TypeOK, SessionsCarryTruth, NEW s \in Session, End(s), UNCHANGED stripeVars,
         processed \subseteq processed'
  PROVE  /\ at' \in [Session -> Pc] /\ on' \in [Session -> Nat \cup Activation]
         /\ got' \in [Session -> Subscription]
         /\ mine' \in [Session -> Row] /\ base' \in [Session -> Row]
         /\ SessionsCarryTruth'
  <1>1. NotSold \in Subscription /\ FreeRow \in Row /\ NotSold.plan = 0 /\ FreeRow.plan = 0
    BY BillingAssumption DEF Subscription, NotSold, Row, FreeRow, Plan, Status
  <1>2. /\ at' \in [Session -> Pc] /\ on' \in [Session -> Nat \cup Activation]
        /\ got' \in [Session -> Subscription]
        /\ mine' \in [Session -> Row] /\ base' \in [Session -> Row]
    BY <1>1 DEF End, TypeOK, Pc
  <1>3. SessionsCarryTruth'
    <2> SUFFICES ASSUME NEW t \in Session
                 PROVE  /\ at'[t] # "idle" =>
                              on'[t] \in IF t \in Handler THEN 1 .. sent ELSE Activation
                        /\ t \in Writer => at'[t] \in {"idle", "read", "saving"}
                        /\ at'[t] = "retrieved" => got'[t] \in Sold
                        /\ PlanKnown(got'[t].plan)
                        /\ PlanKnown(mine'[t].plan)
                        /\ t \in Writer /\ mine'[t].plan # 0 => processed' # {}
      BY DEF SessionsCarryTruth, stripeVars, PlanKnown
    <2>1. CASE t = s
      BY <2>1, <1>1 DEF End, TypeOK, PlanKnown
    <2>2. CASE t # s
      BY <2>2 DEF End, TypeOK, SessionsCarryTruth
    <2> QED
      BY <2>1, <2>2
  <1> QED
    BY <1>2, <1>3

(* What save() writes is, column by column, the entity's or the row's.     *)
LEMMA SavedIsKnown ==
  ASSUME PlanInv, NEW s \in Session
  PROVE  /\ Saved(s) \in Row /\ PlanKnown(Saved(s).plan)
         /\ Saved(s).plan \in {mine[s].plan, row.plan}
  <1>1. row \in Row /\ mine[s] \in Row
    BY DEF PlanInv, TypeOK
  <1>2. Saved(s) \in Row
    BY <1>1 DEF Saved, Column, Row
  <1>3. Saved(s).plan \in {mine[s].plan, row.plan}
    BY DEF Saved, Column
  <1> QED
    BY <1>2, <1>3 DEF PlanInv, SessionsCarryTruth, RowTellsTruth

-----------------------------------------------------------------------------
(* The steps that end a transaction.                                       *)
LEMMA LeaveKeeps ==
  ASSUME PlanInv, NEW s \in Session, Abort(s) \/ Refuse(s)
  PROVE  PlanInv'
  <1>1. End(s) /\ UNCHANGED <<stripeVars, localVars, historyVars>>
    BY DEF Abort, Refuse
  <1>2. /\ at' \in [Session -> Pc] /\ on' \in [Session -> Nat \cup Activation]
        /\ got' \in [Session -> Subscription]
        /\ mine' \in [Session -> Row] /\ base' \in [Session -> Row]
        /\ SessionsCarryTruth'
    BY <1>1, EndKeeps DEF PlanInv, localVars
  <1>3. TypeOK'
    BY <1>1, <1>2 DEF PlanInv, TypeOK, stripeVars, localVars, historyVars
  <1>4. EventsTellTruth' /\ RowTellsTruth'
    BY <1>1 DEF PlanInv, EventsTellTruth, RowTellsTruth, PlanKnown, stripeVars, localVars
  <1> QED
    BY <1>2, <1>3, <1>4 DEF PlanInv

LEMMA IgnoreStaleKeeps ==
  ASSUME PlanInv, NEW h \in Handler, IgnoreStale(h)
  PROVE  PlanInv'
  <1>1. /\ h \in Session /\ on[h] \in 1 .. sent /\ End(h)
        /\ UNCHANGED <<stripeVars, checkout, row, invoice, payments, lives,
                       historyVars>>
        /\ processed' = processed \cup {on[h]}
    BY DEF IgnoreStale, Session, PlanInv, SessionsCarryTruth
  <1>2. /\ at' \in [Session -> Pc] /\ on' \in [Session -> Nat \cup Activation]
        /\ got' \in [Session -> Subscription]
        /\ mine' \in [Session -> Row] /\ base' \in [Session -> Row]
        /\ SessionsCarryTruth'
    BY <1>1, EndKeeps DEF PlanInv
  <1>3. TypeOK'
    BY <1>1, <1>2 DEF PlanInv, TypeOK, stripeVars, historyVars
  <1>4. EventsTellTruth' /\ RowTellsTruth'
    BY <1>1 DEF PlanInv, EventsTellTruth, RowTellsTruth, PlanKnown, stripeVars
  <1> QED
    BY <1>2, <1>3, <1>4 DEF PlanInv

(* A processed event's invoice keeps one status and at most one payment.   *)
LEMMA PersistInvoiceTyped ==
  ASSUME TypeOK, NEW e \in 1 .. sent, PersistInvoice(e)
  PROVE  invoice' \in [Sub -> InvoiceState] /\ payments' \in [Sub -> 0 .. 1]
  <1>1. /\ invoice \in [Sub -> InvoiceState] /\ payments \in [Sub -> 0 .. 1]
        /\ {"paid", "payment_failed"} \subseteq InvoiceState
    BY DEF TypeOK, InvoiceState
  <1>2. CASE event[e].kind \in InvoiceKinds
    <2>1. invoice' \in [Sub -> InvoiceState]
      BY <1>1, <1>2 DEF PersistInvoice
    <2>2. payments' \in [Sub -> 0 .. 1]
      BY <1>1, <1>2 DEF PersistInvoice
    <2> QED
      BY <2>1, <2>2
  <1>3. CASE event[e].kind \notin InvoiceKinds
    BY <1>1, <1>3 DEF PersistInvoice
  <1> QED
    BY <1>2, <1>3

LEMMA CommitWebhookKeeps ==
  ASSUME PlanInv, NEW h \in Handler, CommitWebhook(h)
  PROVE  PlanInv'
  <1> DEFINE e == on[h]
  <1>1. /\ h \in Session /\ e \in 1 .. sent /\ End(h) /\ PersistInvoice(e)
        /\ UNCHANGED <<stripeVars, lives, overlapped>>
        /\ row' = Saved(h) /\ processed' = processed \cup {e}
    BY DEF CommitWebhook, Session, PlanInv, SessionsCarryTruth
  <1>2. /\ at' \in [Session -> Pc] /\ on' \in [Session -> Nat \cup Activation]
        /\ got' \in [Session -> Subscription]
        /\ mine' \in [Session -> Row] /\ base' \in [Session -> Row]
        /\ SessionsCarryTruth'
    BY <1>1, EndKeeps DEF PlanInv
  <1>3. row' \in Row /\ PlanKnown(row'.plan)
    BY <1>1, SavedIsKnown
  <1>4. TypeOK'
    <2>1. event[e].sub \in Sub
      BY <1>1 DEF PlanInv, TypeOK, StripeEvent
    <2>2. checkout' \in [Sub -> CheckoutState]
      BY <2>1 DEF CommitWebhook, PlanInv, TypeOK, CheckoutState
    <2>3. reordered' \subseteq Sub
      BY DEF CommitWebhook, PlanInv, TypeOK, TakenOutOfOrder
    <2>4. invoice' \in [Sub -> InvoiceState] /\ payments' \in [Sub -> 0 .. 1]
      BY <1>1, PersistInvoiceTyped DEF PlanInv
    <2> QED
      BY <1>1, <1>2, <1>3, <2>2, <2>3, <2>4 DEF PlanInv, TypeOK, stripeVars
  <1>5. EventsTellTruth' /\ RowTellsTruth'
    BY <1>1, <1>3 DEF PlanInv, EventsTellTruth, RowTellsTruth, PlanKnown, stripeVars
  <1> QED
    BY <1>2, <1>4, <1>5 DEF PlanInv

LEMMA CommitTrialKeeps ==
  ASSUME PlanInv, NEW w \in Writer, CommitTrial(w)
  PROVE  PlanInv'
  <1>1. /\ w \in Session /\ w \notin Handler /\ on[w] \in Activation /\ End(w)
        /\ UNCHANGED <<stripeVars, checkout, processed, invoice, payments, historyVars>>
        /\ row' = Saved(w) /\ lives' = lives \cup {on[w]}
    BY BillingAssumption DEF CommitTrial, Session, PlanInv, SessionsCarryTruth
  <1>2. /\ at' \in [Session -> Pc] /\ on' \in [Session -> Nat \cup Activation]
        /\ got' \in [Session -> Subscription]
        /\ mine' \in [Session -> Row] /\ base' \in [Session -> Row]
        /\ SessionsCarryTruth'
    BY <1>1, EndKeeps DEF PlanInv
  <1>3. /\ row' \in Row /\ PlanKnown(row'.plan)
        /\ row'.plan \in {mine[w].plan, row.plan}
    BY <1>1, SavedIsKnown
  <1>4. TypeOK'
    BY <1>1, <1>2, <1>3 DEF PlanInv, TypeOK, stripeVars, historyVars
  <1>5. EventsTellTruth'
    BY <1>1 DEF PlanInv, EventsTellTruth, PlanKnown, stripeVars
  <1>6. RowTellsTruth'
    BY <1>1, <1>3 DEF PlanInv, SessionsCarryTruth, RowTellsTruth, PlanKnown, stripeVars
  <1> QED
    BY <1>2, <1>4, <1>5, <1>6 DEF PlanInv

-----------------------------------------------------------------------------
(* The steps inside a transaction.                                         *)
LEMMA ReceiveKeeps ==
  ASSUME PlanInv, NEW h \in Handler, NEW e \in Event, Receive(h, e)
  PROVE  PlanInv'
  <1>1. /\ h \in Session /\ e \in 1 .. sent
        /\ UNCHANGED <<stripeVars, localVars, got, mine, base, reordered>>
        /\ at' = [at EXCEPT ![h] = "received"] /\ on' = [on EXCEPT ![h] = e]
        /\ overlapped' \in BOOLEAN
    BY DEF Receive, Begin, Session, PlanInv, TypeOK
  <1>2. h \notin Writer
    BY BillingAssumption
  <1>3. TypeOK'
    <2>1. at' \in [Session -> Pc] /\ on' \in [Session -> Nat \cup Activation]
      BY <1>1 DEF PlanInv, TypeOK, Pc
    <2> QED
      BY <1>1, <2>1 DEF PlanInv, TypeOK, stripeVars, localVars
  <1>4. SessionsCarryTruth'
    BY <1>1, <1>2
    DEF PlanInv, TypeOK, SessionsCarryTruth, PlanKnown, stripeVars, localVars
  <1>5. EventsTellTruth' /\ RowTellsTruth'
    BY <1>1 DEF PlanInv, EventsTellTruth, RowTellsTruth, PlanKnown, stripeVars, localVars
  <1> QED
    BY <1>3, <1>4, <1>5 DEF PlanInv

(* What is retrieved, or supplied with a deletion, is a subscription with  *)
(* a plan that Stripe sold.                                                *)
LEMMA RetrieveKeeps ==
  ASSUME PlanInv, NEW h \in Handler, Retrieve(h)
  PROVE  PlanInv'
  <1>1. /\ h \in Session /\ h \notin Writer /\ at[h] = "received"
        /\ UNCHANGED <<stripeVars, localVars, on, mine, base, historyVars>>
        /\ at' = [at EXCEPT ![h] = "retrieved"]
        /\ got' = [got EXCEPT ![h] = IF event[on[h]].kind = "deleted"
                                     THEN event[on[h]].state ELSE stripe[event[on[h]].sub]]
    BY BillingAssumption DEF Retrieve, Goto, Session
  <1> DEFINE e == on[h]
  <1>2. e \in 1 .. sent
    BY <1>1 DEF PlanInv, SessionsCarryTruth
  <1>3. event[e].sub \in Sub /\ event[e].state \in Sold
    BY <1>2 DEF PlanInv, TypeOK, EventsTellTruth, StripeEvent
  <1>4. stripe[event[e].sub] \in Sold /\ PlanKnown(stripe[event[e].sub].plan)
    BY <1>2, <1>3 DEF PlanInv, TypeOK, EventsTellTruth, Subscription, Sold
  <1>5. PlanKnown(event[e].state.plan)
    BY <1>2 DEF PlanKnown
  <1>6. /\ got'[h] \in Sold /\ PlanKnown(got'[h].plan) /\ Sold \subseteq Subscription
        /\ \A t \in Session : t # h => got'[t] = got[t]
    BY <1>1, <1>3, <1>4, <1>5 DEF PlanInv, TypeOK, Sold, Subscription
  <1>7. TypeOK'
    <2>1. at' \in [Session -> Pc] /\ got' \in [Session -> Subscription]
      BY <1>1, <1>6 DEF PlanInv, TypeOK, Pc
    <2> QED
      BY <1>1, <2>1 DEF PlanInv, TypeOK, stripeVars, localVars, historyVars
  <1>8. SessionsCarryTruth'
    BY <1>1, <1>2, <1>6, SMTT(30)
    DEF PlanInv, TypeOK, SessionsCarryTruth, PlanKnown, stripeVars, localVars
  <1>9. EventsTellTruth' /\ RowTellsTruth'
    BY <1>1 DEF PlanInv, EventsTellTruth, RowTellsTruth, PlanKnown, stripeVars, localVars
  <1> QED
    BY <1>7, <1>8, <1>9 DEF PlanInv

LEMMA ReadAccountKeeps ==
  ASSUME PlanInv, NEW h \in Handler, ReadAccount(h)
  PROVE  PlanInv'
  <1> DEFINE entity == [row EXCEPT !.sub = event[on[h]].sub,
                                   !.plan = got[h].plan,
                                   !.status = got[h].status,
                                   !.at = IF @ <= on[h] THEN on[h] ELSE @]
  <1>1. /\ h \in Session /\ h \notin Writer /\ at[h] = "retrieved"
        /\ UNCHANGED <<stripeVars, localVars, on, got, base, historyVars>>
        /\ at' = [at EXCEPT ![h] = "read"] /\ mine' = [mine EXCEPT ![h] = entity]
    BY BillingAssumption DEF ReadAccount, Goto, Session
  <1>2. /\ on[h] \in 1 .. sent /\ sent \in 0 .. MaxEvent /\ got[h] \in Sold
        /\ PlanKnown(got[h].plan) /\ row \in Row
    BY <1>1 DEF PlanInv, TypeOK, SessionsCarryTruth
  <1>3. event[on[h]].sub \in Sub
    BY <1>2 DEF PlanInv, TypeOK, StripeEvent
  <1>4. entity \in Row /\ entity.plan = got[h].plan
    <2>1. row.at \in 0 .. MaxEvent /\ on[h] \in 0 .. MaxEvent
      BY <1>2, BillingAssumption DEF Row
    <2>2. (IF row.at <= on[h] THEN on[h] ELSE row.at) \in 0 .. MaxEvent
      BY <2>1
    <2>3. got[h].plan \in Plan /\ got[h].status \in Status
      BY <1>2 DEF Sold
    <2> QED
      BY <1>2, <1>3, <2>2, <2>3 DEF Row
  <1> HIDE DEF entity
  <1>5. TypeOK'
    <2>1. at' \in [Session -> Pc] /\ mine' \in [Session -> Row]
      BY <1>1, <1>4 DEF PlanInv, TypeOK, Pc
    <2> QED
      BY <1>1, <2>1 DEF PlanInv, TypeOK, stripeVars, localVars, historyVars
  <1>6. SessionsCarryTruth'
    BY <1>1, <1>2, <1>4
    DEF PlanInv, TypeOK, SessionsCarryTruth, PlanKnown, stripeVars, localVars
  <1>7. EventsTellTruth' /\ RowTellsTruth'
    BY <1>1 DEF PlanInv, EventsTellTruth, RowTellsTruth, PlanKnown, stripeVars, localVars
  <1> QED
    BY <1>5, <1>6, <1>7 DEF PlanInv

LEMMA ReloadKeeps ==
  ASSUME PlanInv, NEW s \in Session, Reload(s)
  PROVE  PlanInv'
  <1>1. /\ UNCHANGED <<stripeVars, localVars, on, got, mine, historyVars>>
        /\ at[s] = "read" /\ at' = [at EXCEPT ![s] = "saving"]
        /\ base' = [base EXCEPT ![s] = row]
    BY DEF Reload, Goto
  <1>2. TypeOK'
    <2>1. at' \in [Session -> Pc] /\ base' \in [Session -> Row]
      BY <1>1 DEF PlanInv, TypeOK, Pc
    <2> QED
      BY <1>1, <2>1 DEF PlanInv, TypeOK, stripeVars, localVars, historyVars
  <1>3. SessionsCarryTruth'
    BY <1>1 DEF PlanInv, TypeOK, SessionsCarryTruth, PlanKnown, stripeVars, localVars
  <1>4. EventsTellTruth' /\ RowTellsTruth'
    BY <1>1 DEF PlanInv, EventsTellTruth, RowTellsTruth, PlanKnown, stripeVars, localVars
  <1> QED
    BY <1>2, <1>3, <1>4 DEF PlanInv

(* A finalization or reconciliation changes its copy's trial alone.        *)
LEMMA TrialReadKeeps ==
  ASSUME PlanInv, NEW w \in Writer, NEW n \in Activation,
         at' = [at EXCEPT ![w] = "read"], on' = [on EXCEPT ![w] = n],
         mine' = [mine EXCEPT ![w] = [row EXCEPT !.trial = n]],
         overlapped' \in BOOLEAN,
         UNCHANGED <<stripeVars, got, base, checkout, row, processed, invoice, payments,
                     lives, reordered>>
  PROVE  PlanInv'
  <1> USE BillingAssumption
  <1>1. w \in Session /\ w \notin Handler
    BY DEF Session
  <1>2. [row EXCEPT !.trial = n] \in Row /\ [row EXCEPT !.trial = n].plan = row.plan
    <2>1. row \in Row
      BY DEF PlanInv, TypeOK
    <2> QED
      BY <2>1 DEF Row
  <1>4. TypeOK'
    <2>1. /\ at' \in [Session -> Pc] /\ on' \in [Session -> Nat \cup Activation]
          /\ mine' \in [Session -> Row]
      BY <1>1, <1>2 DEF PlanInv, TypeOK, Pc
    <2> QED
      BY <2>1 DEF PlanInv, TypeOK, stripeVars
  <1>5. SessionsCarryTruth'
    BY <1>1, <1>2
    DEF PlanInv, TypeOK, SessionsCarryTruth, RowTellsTruth, PlanKnown, stripeVars
  <1>6. EventsTellTruth' /\ RowTellsTruth'
    BY DEF PlanInv, EventsTellTruth, RowTellsTruth, PlanKnown, stripeVars
  <1> QED
    BY <1>4, <1>5, <1>6 DEF PlanInv

LEMMA GoLiveKeeps ==
  ASSUME PlanInv, NEW w \in Writer, NEW n \in Activation, GoLive(w, n)
  PROVE  PlanInv'
  <1>1. UNCHANGED <<checkout, row, processed, invoice, payments, got, base>>
    BY DEF GoLive
  <1>2. CASE TrialDue
    BY <1>1, <1>2, TrialReadKeeps DEF GoLive, Begin, PlanInv, TypeOK
  <1>3. CASE ~TrialDue
    <2>1. UNCHANGED <<stripeVars, at, on, mine, historyVars>> /\ lives' = lives \cup {n}
      BY <1>3 DEF GoLive
    <2>2. TypeOK'
      BY <1>1, <2>1 DEF PlanInv, TypeOK, stripeVars, historyVars
    <2>3. SessionsCarryTruth'
      BY <1>1, <2>1 DEF PlanInv, SessionsCarryTruth, PlanKnown, stripeVars
    <2>4. EventsTellTruth' /\ RowTellsTruth'
      BY <1>1, <2>1 DEF PlanInv, EventsTellTruth, RowTellsTruth, PlanKnown, stripeVars
    <2> QED
      BY <2>2, <2>3, <2>4 DEF PlanInv
  <1> QED
    BY <1>2, <1>3

LEMMA ReconcileKeeps ==
  ASSUME PlanInv, NEW w \in Writer, NEW n \in Activation, ReconcileTrial(w, n)
  PROVE  PlanInv'
  <1>1. /\ UNCHANGED <<stripeVars, got, base, localVars, reordered>>
        /\ overlapped' \in BOOLEAN
        /\ at' = [at EXCEPT ![w] = "read"] /\ on' = [on EXCEPT ![w] = n]
        /\ mine' = [mine EXCEPT ![w] = [row EXCEPT !.trial = n]]
    BY DEF ReconcileTrial, Begin, PlanInv, TypeOK, localVars
  <1> QED
    BY <1>1, TrialReadKeeps DEF localVars

-----------------------------------------------------------------------------
LEMMA PlanInvInductive == PlanInv /\ [Next]_vars => PlanInv'
  <1> SUFFICES ASSUME PlanInv, [Next]_vars PROVE PlanInv'
    OBVIOUS
  <1>1. ASSUME NEW sub \in Sub, StripeStep(sub) PROVE PlanInv'
    BY <1>1, StripeKeeps
  <1>2. ASSUME NEW sub \in Sub, NEW plan \in Plan, OpenCheckout(sub, plan) PROVE PlanInv'
    BY <1>2, OpenCheckoutKeeps
  <1>3. ASSUME NEW h \in Handler, Webhook(h) PROVE PlanInv'
    <2>1. h \in Session
      BY DEF Session
    <2> QED
      BY <1>3, <2>1, ReceiveKeeps, RetrieveKeeps, ReadAccountKeeps, LeaveKeeps,
         IgnoreStaleKeeps, CommitWebhookKeeps DEF Webhook
  <1>4. ASSUME NEW w \in Writer, Trial(w) PROVE PlanInv'
    BY <1>4, GoLiveKeeps, CommitTrialKeeps, ReconcileKeeps DEF Trial
  <1>5. ASSUME NEW s \in Session, Reload(s) \/ Abort(s) PROVE PlanInv'
    BY <1>5, ReloadKeeps, LeaveKeeps
  <1>6. CASE UNCHANGED vars
    BY <1>6
    DEF PlanInv, TypeOK, EventsTellTruth, SessionsCarryTruth, RowTellsTruth, PlanKnown, vars,
        stripeVars, localVars, sessionVars, historyVars
  <1> QED
    BY <1>1, <1>2, <1>3, <1>4, <1>5, <1>6 DEF Next

(* The projection's variables keep their types.                            *)
THEOREM BillingTypes == Spec => []TypeOK
  <1>1. PlanInv => TypeOK
    BY DEF PlanInv
  <1> QED
    BY PlanInit, PlanInvInductive, <1>1, PTL DEF Spec

(* A paid plan in the account's row was sold by Stripe and brought by a    *)
(* processed webhook, even when the row's columns come from the saves of   *)
(* several overlapping transactions.                                       *)
THEOREM PlansAreSold == Spec => []PlanWasSold
  <1>1. PlanInv => PlanWasSold
    BY DEF PlanInv, RowTellsTruth, PlanKnown, PlanWasSold
  <1> QED
    BY PlanInit, PlanInvInductive, <1>1, PTL DEF Spec

-----------------------------------------------------------------------------
(* The events are a log: a step appends to them or leaves them alone, and  *)
(* only Emit appends.                                                      *)
LEMMA EventsAreALog ==
  ASSUME PlanInv, [Next]_vars
  PROVE  /\ \A e \in 1 .. sent : event'[e] = event[e]
         /\ sent' = sent \/ sent' = sent + 1
  <1>1. ASSUME NEW kind, NEW sub, Emit(kind, sub)
        PROVE  (\A e \in 1 .. sent : event'[e] = event[e]) /\ sent' = sent + 1
    BY <1>1 DEF Emit, PlanInv, TypeOK
  <1>2. CASE UNCHANGED stripeVars
    BY <1>2 DEF stripeVars
  <1> QED
    BY <1>1, <1>2
    DEF Next, StripeStep, Subscribe, Update, Cancel, ChargeFails, ChargeSucceeds, OpenCheckout,
        Webhook, Receive, Retrieve, ReadAccount, Refuse, IgnoreStale, CommitWebhook, Trial,
        GoLive, CommitTrial, ReconcileTrial, Reload, Abort, Begin, Goto, vars, historyVars

(* Only a webhook that ends touches invoices, payments and processed.      *)
LEMMA OnlyWebhooksProcess ==
  ASSUME PlanInv, [Next]_vars
  PROVE  \/ UNCHANGED <<processed, invoice, payments, reordered>>
         \/ \E h \in Handler : UNCHANGED stripeVars /\ (IgnoreStale(h) \/ CommitWebhook(h))
  <1>1. ASSUME NEW sub \in Sub, StripeStep(sub)
        PROVE  UNCHANGED <<processed, invoice, payments, reordered>>
    BY <1>1 DEF StripeStep, Subscribe, Update, Cancel, ChargeFails, ChargeSucceeds, Emit,
                localVars, historyVars
  <1>2. ASSUME NEW sub \in Sub, NEW plan \in Plan, OpenCheckout(sub, plan)
        PROVE  UNCHANGED <<processed, invoice, payments, reordered>>
    BY <1>2 DEF OpenCheckout, historyVars
  <1>3. ASSUME NEW h \in Handler, Webhook(h)
        PROVE  \/ UNCHANGED <<processed, invoice, payments, reordered>>
               \/ UNCHANGED stripeVars /\ (IgnoreStale(h) \/ CommitWebhook(h))
    BY <1>3 DEF Webhook, Receive, Retrieve, ReadAccount, Refuse, IgnoreStale, CommitWebhook,
                Begin, Goto, localVars, historyVars
  <1>4. ASSUME NEW w \in Writer, Trial(w)
        PROVE  UNCHANGED <<processed, invoice, payments, reordered>>
    BY <1>4 DEF Trial, GoLive, CommitTrial, ReconcileTrial, Begin, localVars, historyVars
  <1>5. ASSUME NEW s \in Session, Reload(s) \/ Abort(s)
        PROVE  UNCHANGED <<processed, invoice, payments, reordered>>
    BY <1>5 DEF Reload, Abort, Goto, localVars, historyVars
  <1>6. CASE UNCHANGED vars
    BY <1>6 DEF vars, localVars, historyVars
  <1> QED
    BY <1>1, <1>2, <1>3, <1>4, <1>5, <1>6 DEF Next

(* A paid invoice has one payment from its first processed report on,      *)
(* whatever is delivered again, late, or processed at the same time.       *)
Paid(S, sub) == \E e \in S : event[e].kind = "invoice.paid" /\ event[e].sub = sub

LEMMA PaymentsOnceKept ==
  ASSUME PlanInv, PaymentsOnce, [Next]_vars
  PROVE  PaymentsOnce'
  <1>1. /\ \A e \in processed : e \in 1 .. sent /\ event'[e] = event[e]
        /\ payments \in [Sub -> 0 .. 1]
    BY EventsAreALog DEF PlanInv, TypeOK
  <1>2. \A sub \in Sub : payments[sub] = IF Paid(processed, sub) THEN 1 ELSE 0
    BY DEF PaymentsOnce, Paid
  <1>3. CASE UNCHANGED <<processed, payments>>
    BY <1>1, <1>3 DEF PaymentsOnce
  <1>4. ASSUME NEW h \in Handler, UNCHANGED stripeVars, IgnoreStale(h)
        PROVE  PaymentsOnce'
    <2>1. /\ event[on[h]].kind # "invoice.paid" /\ event' = event
          /\ processed' = processed \cup {on[h]} /\ payments' = payments
      BY <1>4 DEF IgnoreStale, Stale, stripeVars
    <2> QED
      BY <2>1, <1>2 DEF PaymentsOnce, Paid
  <1>5. ASSUME NEW h \in Handler, UNCHANGED stripeVars, CommitWebhook(h)
        PROVE  PaymentsOnce'
    <2> DEFINE e == on[h]
    <2>1. /\ event' = event /\ processed' = processed \cup {e} /\ PersistInvoice(e)
      BY <1>5 DEF CommitWebhook, stripeVars
    <2>2. CASE event[e].kind = "invoice.paid"
      <3>1. payments' = [payments EXCEPT ![event[e].sub] = IF @ = 0 THEN 1 ELSE @]
        BY <2>1, <2>2 DEF PersistInvoice, InvoiceKinds
      <3>2. ASSUME NEW sub \in Sub
            PROVE  payments'[sub] = IF Paid(processed \cup {e}, sub) THEN 1 ELSE 0
        <4>1. CASE sub = event[e].sub
          <5>1. Paid(processed \cup {e}, sub)
            BY <2>2, <4>1 DEF Paid
          <5>2. payments'[sub] = 1
            BY <1>1, <3>1, <4>1
          <5> QED
            BY <5>1, <5>2
        <4>2. CASE sub # event[e].sub
          <5>1. Paid(processed \cup {e}, sub) <=> Paid(processed, sub)
            BY <4>2 DEF Paid
          <5>2. payments'[sub] = payments[sub]
            BY <1>1, <3>1, <4>2
          <5> QED
            BY <5>1, <5>2, <1>2
        <4> QED
          BY <4>1, <4>2
      <3> QED
        BY <2>1, <3>2 DEF PaymentsOnce, Paid
    <2>3. CASE event[e].kind # "invoice.paid"
      <3>1. payments' = payments
        BY <1>1, <2>1, <2>3 DEF PersistInvoice
      <3>2. \A sub \in Sub : Paid(processed \cup {e}, sub) <=> Paid(processed, sub)
        BY <2>3 DEF Paid
      <3> QED
        BY <1>2, <2>1, <3>1, <3>2 DEF PaymentsOnce, Paid
    <2> QED
      BY <2>2, <2>3
  <1> QED
    BY <1>3, <1>4, <1>5, OnlyWebhooksProcess

(* A paid invoice has exactly one payment, whatever Stripe delivers again. *)
THEOREM PaymentsAreSingle == Spec => []PaymentsOnce
  <1>1. Init => PaymentsOnce
    BY DEF Init, PaymentsOnce
  <1>2. PlanInv /\ PaymentsOnce /\ [Next]_vars => PlanInv' /\ PaymentsOnce'
    BY PlanInvInductive, PaymentsOnceKept
  <1> QED
    BY PlanInit, <1>1, <1>2, PTL DEF Spec

-----------------------------------------------------------------------------
(* The status of an invoice is that of its last report: Stripe's of all    *)
(* the events emitted, the projection's of the events processed, unless    *)
(* some were processed out of order.                                       *)
LEMMA InvoicesAtStripeFollow ==
  ASSUME PlanInv, InvoicesFollowReports, [Next]_vars, NEW sub \in Sub
  PROVE  LastReport(1 .. sent, sub, stripeInvoice[sub])'
  <1>1. /\ sent \in Nat /\ stripeInvoice \in [Sub -> InvoiceState]
        /\ LastReport(1 .. sent, sub, stripeInvoice[sub])
    BY DEF PlanInv, TypeOK, InvoicesFollowReports
  <1>2. \A e \in 1 .. sent : event'[e] = event[e]
    BY EventsAreALog
  <1>3. ASSUME NEW t \in Sub, NEW kind, Emit(kind, t)
        PROVE  /\ sent' = sent + 1 /\ 1 .. sent' = (1 .. sent) \cup {sent'}
               /\ event'[sent'].kind = kind /\ event'[sent'].sub = t
    BY <1>1, <1>3 DEF Emit
  <1>4. ASSUME NEW t \in Sub, NEW kind, Emit(kind, t), stripeInvoice' = stripeInvoice,
               kind \notin InvoiceKinds
        PROVE  LastReport(1 .. sent, sub, stripeInvoice[sub])'
    BY <1>1, <1>2, <1>3, <1>4 DEF LastReport, OfInvoice
  <1>5. ASSUME NEW t \in Sub, NEW kind \in InvoiceKinds, Emit(kind, t),
               stripeInvoice' = [stripeInvoice EXCEPT ![t] =
                   IF kind = "invoice.paid" THEN "paid" ELSE "payment_failed"]
        PROVE  LastReport(1 .. sent, sub, stripeInvoice[sub])'
    <2>1. CASE t = sub
      <3> DEFINE n == sent'
      <3>1. n \in 1 .. n /\ \A d \in 1 .. n : d <= n
        BY <1>1, <1>3, <1>5
      <3>2. event'[n].sub = sub /\ event'[n].kind \in InvoiceKinds
        BY <1>3, <1>5, <2>1
      <3>3. stripeInvoice'[sub] = IF event'[n].kind = "invoice.paid"
                                  THEN "paid" ELSE "payment_failed"
        BY <1>1, <1>3, <1>5, <2>1
      <3> QED
        BY <3>1, <3>2, <3>3 DEF LastReport, OfInvoice
    <2>2. CASE t # sub
      BY <1>1, <1>2, <1>3, <1>5, <2>2 DEF LastReport, OfInvoice
    <2> QED
      BY <2>1, <2>2
  <1>6. ASSUME NEW t \in Sub, StripeStep(t)
        PROVE  LastReport(1 .. sent, sub, stripeInvoice[sub])'
    <2>1. CASE \/ Subscribe(t) \/ Cancel(t)
               \/ \E status \in Status, plan \in Plan : Update(t, status, plan)
      BY <1>4, <2>1 DEF Subscribe, Cancel, Update, InvoiceKinds
    <2>2. CASE ChargeFails(t)
      BY <1>5, <2>2 DEF ChargeFails, InvoiceKinds
    <2>3. CASE ChargeSucceeds(t)
      BY <1>5, <2>3 DEF ChargeSucceeds, InvoiceKinds
    <2> QED
      BY <1>6, <2>1, <2>2, <2>3 DEF StripeStep
  <1>7. ASSUME UNCHANGED stripeVars
        PROVE  LastReport(1 .. sent, sub, stripeInvoice[sub])'
    BY <1>1, <1>7 DEF stripeVars, LastReport, OfInvoice
  <1>8. (\E t \in Sub : StripeStep(t)) \/ UNCHANGED stripeVars
    BY DEF Next, OpenCheckout, Webhook, Receive, Retrieve, ReadAccount, Refuse, IgnoreStale,
           CommitWebhook, Trial, GoLive, CommitTrial, ReconcileTrial, Reload, Abort, Begin,
           Goto, vars
  <1> QED
    BY <1>6, <1>7, <1>8

LEMMA InvoicesHereFollow ==
  ASSUME PlanInv, InvoicesFollowReports, [Next]_vars, NEW sub \in Sub \ reordered'
  PROVE  LastReport(processed, sub, invoice[sub])'
  <1>1. /\ processed \subseteq 1 .. sent /\ sent \in Nat
        /\ invoice \in [Sub -> InvoiceState]
        /\ \A e \in processed : event'[e] = event[e]
    BY EventsAreALog DEF PlanInv, TypeOK
  <1>2. sub \notin reordered => LastReport(processed, sub, invoice[sub])
    BY DEF InvoicesFollowReports
  <1>3. CASE UNCHANGED <<processed, invoice, payments, reordered>>
    BY <1>1, <1>2, <1>3 DEF LastReport, OfInvoice
  <1>4. ASSUME NEW h \in Handler, UNCHANGED stripeVars, IgnoreStale(h)
        PROVE  LastReport(processed, sub, invoice[sub])'
    <2>1. /\ event' = event /\ processed' = processed \cup {on[h]} /\ invoice' = invoice
          /\ reordered' = reordered
      BY <1>4 DEF IgnoreStale, stripeVars, historyVars
    <2>2. ~OfInvoice(on[h], sub)
      BY <1>4 DEF IgnoreStale, Stale, OfInvoice, InvoiceKinds
    <2> QED
      BY <1>2, <2>1, <2>2 DEF LastReport, OfInvoice
  <1>5. ASSUME NEW h \in Handler, UNCHANGED stripeVars, CommitWebhook(h)
        PROVE  LastReport(processed, sub, invoice[sub])'
    <2> DEFINE e == on[h]
    <2>1. /\ event' = event /\ processed' = processed \cup {e} /\ PersistInvoice(e)
          /\ reordered' = reordered \cup TakenOutOfOrder(e)
      BY <1>5 DEF CommitWebhook, stripeVars
    <2>2. e \in 1 .. sent
      BY <1>5 DEF CommitWebhook, Session, PlanInv, SessionsCarryTruth
    <2>3. LastReport(processed, sub, invoice[sub])
      BY <1>2, <2>1
    <2>4. CASE OfInvoice(e, sub)
      <3>1. sub \notin TakenOutOfOrder(e)
        BY <2>1
      <3>2. \A d \in processed : OfInvoice(d, sub) => ~(d > e)
        BY <2>4, <3>1 DEF TakenOutOfOrder, OfInvoice
      <3>3. ASSUME NEW d \in processed \cup {e}, OfInvoice(d, sub) PROVE d <= e
        <4>1. d \in Nat /\ e \in Nat
          <5>1. d \in 1 .. sent /\ e \in 1 .. sent
            BY <1>1, <2>2, Zenon
          <5>2. 1 .. sent \subseteq Nat
            BY <1>1
          <5> QED
            BY <5>1, <5>2, Zenon
        <4>2. CASE d \in processed
          BY <3>2, <3>3, <4>1, <4>2
        <4>3. CASE d = e
          BY <4>1, <4>3
        <4> QED
          BY <4>2, <4>3
      <3>4. invoice'[sub] = IF event[e].kind = "invoice.paid" THEN "paid" ELSE "payment_failed"
        BY <1>1, <2>1, <2>4 DEF PersistInvoice, OfInvoice
      <3> QED
        BY <2>1, <2>4, <3>3, <3>4 DEF LastReport, OfInvoice
    <2>5. CASE ~OfInvoice(e, sub)
      <3>1. invoice'[sub] = invoice[sub]
        BY <1>1, <2>1, <2>5 DEF PersistInvoice, OfInvoice
      <3> QED
        BY <2>1, <2>3, <2>5, <3>1 DEF LastReport, OfInvoice
    <2> QED
      BY <2>4, <2>5
  <1> QED
    BY <1>3, <1>4, <1>5, OnlyWebhooksProcess

(* An invoice all of whose events were processed, none after a later one,  *)
(* says what Stripe says.                                                  *)
THEOREM InvoicesSettle == Spec => []SettledInvoices
  <1>1. Init => InvoicesFollowReports
    BY DEF Init, InvoicesFollowReports, LastReport
  <1>2. PlanInv /\ InvoicesFollowReports /\ [Next]_vars => PlanInv' /\ InvoicesFollowReports'
    <2> SUFFICES ASSUME PlanInv, InvoicesFollowReports, [Next]_vars
                 PROVE  InvoicesFollowReports'
      BY PlanInvInductive
    <2>1. \A sub \in Sub : LastReport(1 .. sent, sub, stripeInvoice[sub])'
      BY InvoicesAtStripeFollow
    <2>2. \A sub \in Sub \ reordered' : LastReport(processed, sub, invoice[sub])'
      BY InvoicesHereFollow
    <2> QED
      BY <2>1, <2>2 DEF InvoicesFollowReports
  <1>3. PlanInv /\ InvoicesFollowReports => SettledInvoices
    <2> SUFFICES ASSUME PlanInv, InvoicesFollowReports, NEW sub \in Sub \ reordered,
                        AllProcessed(sub)
                 PROVE  invoice[sub] = stripeInvoice[sub]
      BY DEF SettledInvoices
    <2>1. /\ processed \subseteq 1 .. sent /\ sent \in Nat
          /\ \A e \in 1 .. sent : OfInvoice(e, sub) => e \in processed
      BY DEF PlanInv, TypeOK, AllProcessed, OfInvoice
    <2>2. /\ LastReport(1 .. sent, sub, stripeInvoice[sub])
          /\ LastReport(processed, sub, invoice[sub])
      BY DEF InvoicesFollowReports
    <2>3. CASE \A e \in 1 .. sent : ~OfInvoice(e, sub)
      <3>1. stripeInvoice[sub] = "none"
        BY <2>2, <2>3, Zenon DEF LastReport
      <3>2. invoice[sub] = "none"
        BY <2>1, <2>2, <2>3, Zenon DEF LastReport
      <3> QED
        BY <3>1, <3>2
    <2>4. CASE \E e \in 1 .. sent : OfInvoice(e, sub)
      <3>1. PICK e \in 1 .. sent :
               /\ OfInvoice(e, sub)
               /\ \A d \in 1 .. sent : OfInvoice(d, sub) => d <= e
               /\ stripeInvoice[sub] = IF event[e].kind = "invoice.paid"
                                       THEN "paid" ELSE "payment_failed"
        BY <2>2, <2>4, Zenon DEF LastReport
      <3>2. PICK f \in processed :
               /\ OfInvoice(f, sub)
               /\ \A d \in processed : OfInvoice(d, sub) => d <= f
               /\ invoice[sub] = IF event[f].kind = "invoice.paid"
                                 THEN "paid" ELSE "payment_failed"
        BY <2>1, <2>2, <2>4, Zenon DEF LastReport
      <3>3. f \in 1 .. sent /\ e \in processed
        BY <2>1, <3>1, <3>2, Zenon
      <3>4. f <= e /\ e <= f
        BY <3>1, <3>2, <3>3, Zenon
      <3>5. e = f
        BY <2>1, <3>3, <3>4
      <3> QED
        BY <3>1, <3>2, <3>5
    <2> QED
      BY <2>3, <2>4
  <1> QED
    BY PlanInit, <1>1, <1>2, <1>3, PTL DEF Spec

-----------------------------------------------------------------------------
(* As long as no transactions overlapped there is at most one, the row it  *)
(* read is still the account's, and what it will save does not leave a     *)
(* subscription that the row does not call unpaid or canceled.             *)
Alone == \A s \in Session, t \in Session : at[s] # "idle" /\ at[t] # "idle" => s = t

Respects(entity) ==
    row.sub # NoSub /\ row.status \notin TerminalStatus => entity.sub = row.sub

Careful ==
    \A s \in Session :
        /\ at[s] \in {"read", "saving"} => Respects(mine[s])
        /\ at[s] = "saving" => base[s] = row

SerialInv == overlapped \/ (Alone /\ Careful)

(* A save of an entity whose row nobody changed writes the entity.         *)
LEMMA SavedAlone ==
  ASSUME PlanInv, NEW s \in Session, base[s] = row
  PROVE  Saved(s) = mine[s]
  <1>1. mine[s] \in Row /\ row \in Row
    BY DEF PlanInv, TypeOK
  <1> QED
    BY <1>1 DEF Saved, Column, Row

LEMMA SerialKept ==
  ASSUME PlanInv, SerialInv, [Next]_vars
  PROVE  SerialInv'
  <1> SUFFICES ASSUME ~overlapped' PROVE Alone' /\ Careful'
    BY DEF SerialInv
  <1>a. /\ at \in [Session -> Pc] /\ mine \in [Session -> Row] /\ base \in [Session -> Row]
        /\ row \in Row /\ overlapped \in BOOLEAN /\ overlapped' = FALSE
    <2>1. overlapped' \in BOOLEAN
      BY PlanInvInductive DEF PlanInv, TypeOK
    <2> QED
      BY <2>1 DEF PlanInv, TypeOK
  <1>b. ~overlapped => Alone /\ Careful
    BY DEF SerialInv
  <1>1. CASE overlapped' = overlapped /\ UNCHANGED <<at, mine, base, row>>
    BY <1>1, <1>a, <1>b DEF Alone, Careful, Respects
  <1>2. ASSUME NEW s \in Session, End(s), UNCHANGED <<row, overlapped>>
        PROVE  Alone' /\ Careful'
    BY <1>2, <1>a, <1>b DEF End, Alone, Careful, Respects
  <1>3. ASSUME NEW s \in Session, End(s), overlapped' = overlapped, at[s] # "idle"
        PROVE  Alone' /\ Careful'
    <2>1. \A t \in Session : at'[t] = "idle"
      BY <1>3, <1>a, <1>b DEF End, Alone
    <2> QED
      BY <2>1 DEF Alone, Careful
  <1>4. ASSUME NEW s \in Session, NEW pc, NEW n, NEW entity, Begin(s, pc, n),
               pc \in {"received", "read"}, pc = "read" => Respects(entity),
               mine' = [mine EXCEPT ![s] = entity], UNCHANGED <<base, row>>
        PROVE  Alone' /\ Careful'
    <2>1. /\ \A t \in Session : at[t] = "idle"
          /\ at' = [at EXCEPT ![s] = pc]
      BY <1>4, <1>a DEF Begin
    <2> QED
      BY <1>4, <1>a, <2>1 DEF Alone, Careful, Respects
  <1>5. ASSUME NEW h \in Handler, Webhook(h) PROVE Alone' /\ Careful'
    <2>1. h \in Session
      BY DEF Session
    <2>2. CASE \E e \in Event : Receive(h, e)
      <3>1. PICK e \in Event : Begin(h, "received", e)
        BY <2>2 DEF Receive
      <3>2. mine' = [mine EXCEPT ![h] = mine[h]] /\ UNCHANGED <<base, row>>
        BY <1>a, <2>2 DEF Receive, localVars
      <3> QED
        BY <1>4, <2>1, <3>1, <3>2
    <2>3. CASE Retrieve(h)
      <3>1. /\ at[h] = "received" /\ at' = [at EXCEPT ![h] = "retrieved"]
            /\ UNCHANGED <<mine, base, row, overlapped>>
        BY <2>3 DEF Retrieve, Goto, localVars, historyVars
      <3> QED
        BY <1>a, <1>b, <2>1, <3>1 DEF Alone, Careful, Respects
    <2>4. CASE ReadAccount(h)
      <3> DEFINE entity == [row EXCEPT !.sub = event[on[h]].sub,
                                       !.plan = got[h].plan,
                                       !.status = got[h].status,
                                       !.at = IF @ <= on[h] THEN on[h] ELSE @]
      <3>1. /\ at[h] = "retrieved" /\ at' = [at EXCEPT ![h] = "read"]
            /\ UNCHANGED <<base, row, overlapped>>
            /\ mine' = [mine EXCEPT ![h] = entity]
        BY <2>4 DEF ReadAccount, Goto, localVars, historyVars
      <3>2. entity.sub = event[on[h]].sub
        BY <1>a DEF Row
      <3>3. Respects(entity)
        BY <2>4, <3>2 DEF ReadAccount, Conflicts, Respects
      <3> HIDE DEF entity
      <3> QED
        BY <1>a, <1>b, <2>1, <3>1, <3>3 DEF Alone, Careful, Respects
    <2>5. CASE Refuse(h) \/ IgnoreStale(h)
      BY <1>2, <2>1, <2>5 DEF Refuse, IgnoreStale, localVars, historyVars
    <2>6. CASE CommitWebhook(h)
      BY <1>3, <2>1, <2>6 DEF CommitWebhook
    <2> QED
      BY <1>5, <2>2, <2>3, <2>4, <2>5, <2>6 DEF Webhook
  <1>6. ASSUME NEW w \in Writer, Trial(w) PROVE Alone' /\ Careful'
    <2>1. w \in Session
      BY DEF Session
    <2>2. ASSUME NEW n
          PROVE  Respects([row EXCEPT !.trial = n])
      BY <1>a DEF Respects, Row
    <2>3. ASSUME NEW n \in Activation, GoLive(w, n) PROVE Alone' /\ Careful'
      <3>1. CASE TrialDue
        <4>1. /\ Begin(w, "read", n)
              /\ mine' = [mine EXCEPT ![w] = [row EXCEPT !.trial = n]]
              /\ UNCHANGED <<base, row>>
          BY <2>3, <3>1 DEF GoLive
        <4> QED
          BY <1>4, <2>1, <2>2, <3>1, <4>1
      <3>2. CASE ~TrialDue
        BY <1>1, <2>3, <3>2 DEF GoLive, historyVars
      <3> QED
        BY <3>1, <3>2
    <2>4. ASSUME NEW n \in Activation, ReconcileTrial(w, n) PROVE Alone' /\ Careful'
      <3>1. /\ Begin(w, "read", n) /\ TrialDue
            /\ mine' = [mine EXCEPT ![w] = [row EXCEPT !.trial = n]]
            /\ UNCHANGED <<base, row>>
        BY <2>4 DEF ReconcileTrial, localVars
      <3> QED
        BY <1>4, <2>1, <2>2, <3>1
    <2>5. CASE CommitTrial(w)
      BY <1>3, <2>1, <2>5 DEF CommitTrial, historyVars
    <2> QED
      BY <1>6, <2>3, <2>4, <2>5 DEF Trial
  <1>7. ASSUME NEW s \in Session, Reload(s) PROVE Alone' /\ Careful'
    <2>1. /\ at[s] = "read" /\ at' = [at EXCEPT ![s] = "saving"]
          /\ base' = [base EXCEPT ![s] = row] /\ UNCHANGED <<mine, row, overlapped>>
      BY <1>7 DEF Reload, Goto, localVars, historyVars
    <2> QED
      BY <1>a, <1>b, <2>1 DEF Alone, Careful, Respects
  <1>8. ASSUME NEW s \in Session, Abort(s) PROVE Alone' /\ Careful'
    BY <1>2, <1>8 DEF Abort, localVars, historyVars
  <1>9. ASSUME NEW sub \in Sub, StripeStep(sub) PROVE Alone' /\ Careful'
    BY <1>1, <1>9 DEF StripeStep, Subscribe, Update, Cancel, ChargeFails, ChargeSucceeds, Emit,
                      localVars, sessionVars, historyVars
  <1>10. ASSUME NEW sub \in Sub, NEW plan \in Plan, OpenCheckout(sub, plan)
         PROVE  Alone' /\ Careful'
    BY <1>1, <1>10 DEF OpenCheckout, sessionVars, historyVars
  <1>11. CASE UNCHANGED vars
    BY <1>1, <1>11 DEF vars, localVars, sessionVars, historyVars
  <1> QED
    BY <1>5, <1>6, <1>7, <1>8, <1>9, <1>10, <1>11 DEF Next

(* The row changes only by a save, which respects it unless overlapped.    *)
LEMMA RowIsSaved ==
  ASSUME [Next]_vars, row' # row
  PROVE  \E s \in Session : at[s] = "saving" /\ row' = Saved(s)
  BY DEF Next, StripeStep, Subscribe, Update, Cancel, ChargeFails, ChargeSucceeds, Emit,
         OpenCheckout, Webhook, Receive, Retrieve, ReadAccount, Refuse, IgnoreStale,
         CommitWebhook, Trial, GoLive, CommitTrial, ReconcileTrial, Reload, Abort, Begin,
         Goto, vars, localVars, Session

LEMMA RowIsRespected ==
  ASSUME PlanInv, SerialInv, [Next]_vars, row' # row, ~overlapped
  PROVE  Respects(row')
  <1>1. ASSUME NEW s \in Session, at[s] = "saving", row' = Saved(s)
        PROVE  Respects(row')
    BY <1>1, SavedAlone DEF SerialInv, Careful
  <1> QED
    BY <1>1, RowIsSaved

LEMMA SerialInit == Init => SerialInv
  BY DEF Init, SerialInv, Alone, Careful

-----------------------------------------------------------------------------
(* Stripe is authoritative.  Whatever changes a subscription is reported,  *)
(* so a state that was retrieved is either Stripe's still, or an event     *)
(* after n, the stamp it was retrieved under, is yet to be processed.      *)
LikeStripe(sub, entity, n) ==
    \/ entity.status = stripe[sub].status /\ entity.plan = stripe[sub].plan
    \/ \E e \in 1 .. sent : e > n /\ event[e].sub = sub /\ e \notin processed

(* What ReadAccount makes of providerEventCreatedAt.                       *)
Stamp(h) == IF row.at <= on[h] THEN on[h] ELSE row.at

DeletionIsFinal ==
    \A e \in 1 .. sent :
        event[e].kind = "deleted" =>
            /\ stripe[event[e].sub] = event[e].state
            /\ stripe[event[e].sub].status = "canceled"

RowCurrent ==
    /\ row.at <= sent
    /\ row.sub # NoSub => LikeStripe(row.sub, row, row.at)

WebhookCurrent(h) ==
    /\ at[h] = "retrieved" => LikeStripe(event[on[h]].sub, got[h], Stamp(h))
    /\ at[h] \in {"read", "saving"} =>
          /\ mine[h].sub \in Sub
          /\ on[h] <= mine[h].at /\ mine[h].at <= sent
          /\ LikeStripe(mine[h].sub, mine[h], mine[h].at)

TrialCurrent(w) ==
    at[w] # "idle" =>
        /\ mine[w].sub = row.sub /\ mine[w].at = row.at
        /\ mine[w].plan = row.plan /\ mine[w].status = row.status

Current ==
    /\ RowCurrent
    /\ \A h \in Handler : WebhookCurrent(h)
    /\ \A w \in Writer : TrialCurrent(w)

CurrentInv == DeletionIsFinal /\ (overlapped \/ Current)

(* A subscription changes at Stripe only with an event of its own, and not *)
(* after its deletion.                                                     *)
LEMMA ChangesAreReported ==
  ASSUME PlanInv, [Next]_vars, NEW sub \in Sub
  PROVE  \/ stripe'[sub] = stripe[sub]
         \/ /\ stripe[sub].status # "canceled"
            /\ sent' = sent + 1 /\ event'[sent + 1].sub = sub
            /\ event'[sent + 1].state = stripe'[sub]
  <1>1. stripe \in [Sub -> Subscription] /\ sent \in Nat
    BY DEF PlanInv, TypeOK
  <1>2. ASSUME NEW kind, NEW s \in Sub, NEW new, Emit(kind, s), stripe[s].status # "canceled",
               stripe' = [stripe EXCEPT ![s] = new]
        PROVE  \/ stripe'[sub] = stripe[sub]
               \/ /\ stripe[sub].status # "canceled"
                  /\ sent' = sent + 1 /\ event'[sent + 1].sub = sub
                  /\ event'[sent + 1].state = stripe'[sub]
    <2>1. CASE s = sub
      BY <1>1, <1>2, <2>1 DEF Emit
    <2>2. CASE s # sub
      BY <1>1, <1>2, <2>2
    <2> QED
      BY <2>1, <2>2
  <1>3. ASSUME NEW s \in Sub, StripeStep(s)
        PROVE  \E kind, new : /\ Emit(kind, s) /\ stripe[s].status # "canceled"
                              /\ stripe' = [stripe EXCEPT ![s] = new]
    <2>1. CASE Subscribe(s)
      BY <2>1 DEF Subscribe
    <2>2. CASE \E status \in Status, plan \in Plan : Update(s, status, plan)
      BY <2>2 DEF Update
    <2>3. CASE Cancel(s)
      <3>1. Emit("deleted", s) /\ stripe[s].status # "canceled"
        BY <2>3 DEF Cancel
      <3>2. stripe' = [stripe EXCEPT ![s] = [stripe[s] EXCEPT !.status = "canceled"]]
        BY <2>3 DEF Cancel
      <3> QED
        BY <3>1, <3>2
    <2>4. CASE ChargeFails(s)
      <3>1. Emit("invoice.payment_failed", s) /\ stripe[s].status # "canceled"
        BY <2>4 DEF ChargeFails, PaidStatus
      <3>2. stripe' = [stripe EXCEPT ![s] = [stripe[s] EXCEPT !.status = "past_due"]]
        BY <2>4 DEF ChargeFails
      <3> QED
        BY <3>1, <3>2
    <2>5. CASE ChargeSucceeds(s)
      <3>1. Emit("invoice.paid", s) /\ stripe[s].status # "canceled"
        BY <2>5 DEF ChargeSucceeds
      <3>2. stripe' = [stripe EXCEPT ![s] = [stripe[s] EXCEPT !.status = "active"]]
        BY <2>5 DEF ChargeSucceeds
      <3> QED
        BY <3>1, <3>2
    <2> QED
      BY <1>3, <2>1, <2>2, <2>3, <2>4, <2>5 DEF StripeStep
  <1>4. CASE UNCHANGED stripeVars
    BY <1>4 DEF stripeVars
  <1>5. \/ \E s \in Sub : StripeStep(s)
        \/ UNCHANGED stripeVars
    BY DEF Next, OpenCheckout, Webhook, Receive, Retrieve, ReadAccount, Refuse, IgnoreStale,
           CommitWebhook, Trial, GoLive, CommitTrial, ReconcileTrial, Reload, Abort, Begin,
           Goto, vars
  <1> QED
    BY <1>2, <1>3, <1>4, <1>5

(* An event of a deletion is emitted with the state it leaves for good.    *)
LEMMA DeletionStays ==
  ASSUME PlanInv, [Next]_vars, DeletionIsFinal
  PROVE  DeletionIsFinal'
  <1>1. /\ stripe \in [Sub -> Subscription] /\ sent \in Nat
        /\ \A e \in 1 .. sent : event[e].sub \in Sub
    BY DEF PlanInv, TypeOK, StripeEvent
  <1>2. \A e \in 1 .. sent : event'[e] = event[e]
    BY EventsAreALog
  <1>3. ASSUME NEW e \in 1 .. sent, event'[e].kind = "deleted"
        PROVE  /\ stripe'[event'[e].sub] = event'[e].state
               /\ stripe'[event'[e].sub].status = "canceled"
    BY <1>1, <1>2, <1>3, ChangesAreReported DEF DeletionIsFinal
  <1>4. ASSUME sent' = sent + 1, event'[sent + 1].kind = "deleted"
        PROVE  /\ stripe'[event'[sent + 1].sub] = event'[sent + 1].state
               /\ stripe'[event'[sent + 1].sub].status = "canceled"
    <2>1. \E s \in Sub : StripeStep(s)
      <3>1. sent' # sent
        BY <1>1, <1>4
      <3> QED
        BY <3>1 DEF Next, OpenCheckout, Webhook, Receive, Retrieve, ReadAccount, Refuse,
                    IgnoreStale, CommitWebhook, Trial, GoLive, CommitTrial, ReconcileTrial,
                    Reload, Abort, Begin, Goto, vars, stripeVars
    <2>2. PICK s \in Sub : StripeStep(s)
      BY <2>1
    <2>3. ASSUME NEW kind, Emit(kind, s)
          PROVE  event'[sent + 1] = [kind |-> kind, sub |-> s, state |-> stripe'[s]]
      BY <1>1, <2>3 DEF Emit
    <2>a. ASSUME NEW kind, Emit(kind, s) PROVE kind = "deleted"
      <3>1. event'[sent + 1].kind = kind
        BY <1>1, <2>a DEF Emit
      <3> QED
        BY <1>4, <3>1
    <2>4. Cancel(s)
      <3>1. ~Subscribe(s) /\ ~ChargeFails(s) /\ ~ChargeSucceeds(s)
        BY <2>a DEF Subscribe, ChargeFails, ChargeSucceeds
      <3>2. \A status \in Status, plan \in Plan : ~Update(s, status, plan)
        BY <2>a DEF Update
      <3> QED
        BY <2>2, <3>1, <3>2 DEF StripeStep
    <2>5. event'[sent + 1] = [kind |-> "deleted", sub |-> s, state |-> stripe'[s]]
      BY <2>3, <2>4 DEF Cancel
    <2>6. stripe'[s].status = "canceled"
      BY <1>1, <2>4 DEF Cancel, Subscription
    <2> QED
      BY <2>5, <2>6
  <1>5. sent' = sent \/ sent' = sent + 1
    BY EventsAreALog
  <1>6. \A e \in 1 .. sent' : e \in 1 .. sent \/ (sent' = sent + 1 /\ e = sent + 1)
    BY <1>1, <1>5
  <1> QED
    BY <1>3, <1>4, <1>6 DEF DeletionIsFinal

(* What was like Stripe under the stamp n stays so in every step that      *)
(* processes no event after n.                                             *)
LEMMA StaysLikeStripe ==
  ASSUME PlanInv, [Next]_vars, NEW sub \in Sub, NEW entity, NEW n \in Nat, n <= sent,
         LikeStripe(sub, entity, n), \A e \in processed' : e \in processed \/ e <= n
  PROVE  \/ entity.status = stripe'[sub].status /\ entity.plan = stripe'[sub].plan
         \/ \E e \in 1 .. sent' : e > n /\ event'[e].sub = sub /\ e \notin processed'
  <1>1. sent \in Nat /\ processed \subseteq 1 .. sent
    BY DEF PlanInv, TypeOK
  <1>2. /\ \A e \in 1 .. sent : event'[e] = event[e]
        /\ sent' = sent \/ sent' = sent + 1
    BY EventsAreALog
  <1>3. CASE \E e \in 1 .. sent : e > n /\ event[e].sub = sub /\ e \notin processed
    <2>1. PICK e \in 1 .. sent : e > n /\ event[e].sub = sub /\ e \notin processed
      BY <1>3
    <2>2. e \in 1 .. sent' /\ e \notin processed' /\ event'[e].sub = sub
      <3>1. e \in 1 .. sent'
        BY <1>1, <1>2, <2>1
      <3>2. ~(e <= n)
        BY <2>1
      <3> QED
        BY <1>2, <2>1, <3>1, <3>2
    <2> QED
      BY <2>1, <2>2
  <1>4. CASE entity.status = stripe[sub].status /\ entity.plan = stripe[sub].plan
    <2>1. CASE stripe'[sub] = stripe[sub]
      BY <1>4, <2>1
    <2>2. CASE sent' = sent + 1 /\ event'[sent + 1].sub = sub
      <3>1. /\ sent + 1 \in 1 .. sent' /\ sent + 1 > n
            /\ sent + 1 \notin processed /\ ~(sent + 1 <= n)
        BY <1>1, <2>2
      <3>2. sent + 1 \notin processed'
        BY <3>1
      <3> QED
        BY <2>2, <3>1, <3>2
    <2> QED
      BY <2>1, <2>2, ChangesAreReported
  <1> QED
    BY <1>3, <1>4 DEF LikeStripe

LEMMA RowStaysCurrent ==
  ASSUME PlanInv, [Next]_vars, RowCurrent, UNCHANGED row,
         \A e \in processed' : e \in processed \/ e <= row.at
  PROVE  RowCurrent'
  <1>1. /\ row \in Row /\ row.at \in Nat /\ sent \in Nat
        /\ row.sub # NoSub => row.sub \in Sub
    BY DEF PlanInv, TypeOK, Row
  <1>2. sent' = sent \/ sent' = sent + 1
    BY EventsAreALog
  <1>3. row'.at <= sent'
    BY <1>1, <1>2 DEF RowCurrent
  <1>4. row'.sub # NoSub => LikeStripe(row.sub, row, row.at)'
    BY <1>1, StaysLikeStripe DEF RowCurrent, LikeStripe
  <1> QED
    BY <1>3, <1>4 DEF RowCurrent

(* What a webhook read remains current while neither it nor any other      *)
(* session commits.                                                        *)
LEMMA WebhookStaysCurrent ==
  ASSUME PlanInv, [Next]_vars, NEW h \in Handler, WebhookCurrent(h), row.at <= sent,
         UNCHANGED <<row, processed>>,
         at'[h] = at[h], on'[h] = on[h], got'[h] = got[h], mine'[h] = mine[h]
  PROVE  WebhookCurrent(h)'
  <1>1. /\ row.at \in Nat /\ sent \in Nat /\ mine[h].at \in Nat
        /\ \A e \in 1 .. sent : event[e].sub \in Sub
        /\ h \in Session
    BY DEF PlanInv, TypeOK, Row, Session, StripeEvent
  <1>2. at[h] # "idle" => on[h] \in 1 .. sent
    BY <1>1 DEF PlanInv, SessionsCarryTruth
  <1>3. /\ sent' = sent \/ sent' = sent + 1
        /\ \A e \in 1 .. sent : event'[e] = event[e]
    BY EventsAreALog
  <1>4. CASE at[h] = "retrieved"
    <2>1. Stamp(h) \in Nat /\ Stamp(h) <= sent /\ Stamp(h)' = Stamp(h)
      BY <1>1, <1>2, <1>4 DEF Stamp
    <2>2. event'[on[h]] = event[on[h]] /\ event[on[h]].sub \in Sub
      BY <1>1, <1>2, <1>3, <1>4
    <2>3. LikeStripe(event[on[h]].sub, got[h], Stamp(h))
      BY <1>4 DEF WebhookCurrent
    <2>4. LikeStripe(event[on[h]].sub, got[h], Stamp(h))'
      <3> DEFINE n == Stamp(h)
      <3>1. /\ n \in Nat /\ n <= sent /\ Stamp(h)' = n
            /\ LikeStripe(event[on[h]].sub, got[h], n)
        BY <2>1, <2>3
      <3> HIDE DEF n
      <3> QED
        BY <2>2, <3>1, StaysLikeStripe DEF LikeStripe
    <2> QED
      BY <1>4, <2>4 DEF WebhookCurrent
  <1>5. CASE at[h] \in {"read", "saving"}
    <2>1. /\ mine[h].sub \in Sub /\ on[h] <= mine[h].at /\ mine[h].at <= sent
          /\ LikeStripe(mine[h].sub, mine[h], mine[h].at)
      BY <1>5 DEF WebhookCurrent
    <2>2. LikeStripe(mine[h].sub, mine[h], mine[h].at)'
      BY <1>1, <2>1, StaysLikeStripe DEF LikeStripe
    <2>3. mine[h].at <= sent'
      BY <1>1, <1>3, <2>1
    <2> QED
      BY <1>5, <2>1, <2>2, <2>3 DEF WebhookCurrent
  <1>6. CASE at[h] \notin {"retrieved", "read", "saving"}
    BY <1>6 DEF WebhookCurrent
  <1> QED
    BY <1>4, <1>5, <1>6

(* A step of Stripe, or of nobody, leaves everything current.              *)
LEMMA OthersLeaveCurrent ==
  ASSUME PlanInv, [Next]_vars, Current, UNCHANGED <<at, on, got, mine, row, processed>>
  PROVE  Current'
  <1>1. RowCurrent'
    BY RowStaysCurrent DEF Current
  <1>2. ASSUME NEW h \in Handler PROVE WebhookCurrent(h)'
    BY WebhookStaysCurrent DEF Current, RowCurrent
  <1>3. ASSUME NEW w \in Writer PROVE TrialCurrent(w)'
    BY DEF Current, TrialCurrent
  <1> QED
    BY <1>1, <1>2, <1>3 DEF Current

(* A session that ends leaves only idle ones behind.                       *)
LEMMA EndsAlone ==
  ASSUME PlanInv, Alone, NEW s \in Session, at[s] # "idle", End(s)
  PROVE  \A t \in Session : at'[t] = "idle"
  BY DEF PlanInv, TypeOK, Alone, End

LEMMA WebhookCommitsCurrent ==
  ASSUME PlanInv, [Next]_vars, Alone, Careful, Current, NEW h \in Handler, CommitWebhook(h)
  PROVE  Current'
  <1>1. h \in Session /\ at[h] = "saving"
    BY DEF Session, CommitWebhook
  <1>2. row' = mine[h]
    BY <1>1, SavedAlone DEF Careful, CommitWebhook
  <1>3. /\ mine[h].at \in Nat /\ mine[h] \in Row /\ sent \in Nat
        /\ processed' = processed \cup {on[h]} /\ sent' = sent
    BY <1>1 DEF PlanInv, TypeOK, CommitWebhook, Row, stripeVars
  <1>4. /\ mine[h].sub \in Sub /\ on[h] <= mine[h].at /\ mine[h].at <= sent
        /\ LikeStripe(mine[h].sub, mine[h], mine[h].at)
    BY <1>1 DEF Current, WebhookCurrent
  <1>5. LikeStripe(row.sub, row, row.at)'
    BY <1>2, <1>3, <1>4, StaysLikeStripe DEF LikeStripe
  <1>6. RowCurrent'
    BY <1>2, <1>3, <1>4, <1>5 DEF RowCurrent
  <1>7. \A t \in Session : at'[t] = "idle"
    BY <1>1, EndsAlone DEF CommitWebhook
  <1> QED
    BY <1>6, <1>7 DEF Current, WebhookCurrent, TrialCurrent, Session

LEMMA TrialCommitsCurrent ==
  ASSUME PlanInv, [Next]_vars, Alone, Careful, Current, NEW w \in Writer, CommitTrial(w)
  PROVE  Current'
  <1>1. w \in Session /\ at[w] = "saving"
    BY DEF Session, CommitTrial
  <1>2. row' = mine[w]
    BY <1>1, SavedAlone DEF Careful, CommitTrial
  <1>3. /\ row'.sub = row.sub /\ row'.at = row.at
        /\ row'.plan = row.plan /\ row'.status = row.status
    BY <1>1, <1>2 DEF Current, TrialCurrent
  <1>4. UNCHANGED <<stripe, event, sent, processed>>
    BY DEF CommitTrial, stripeVars
  <1>5. RowCurrent'
    BY <1>3, <1>4 DEF Current, RowCurrent, LikeStripe
  <1>6. \A t \in Session : at'[t] = "idle"
    BY <1>1, EndsAlone DEF CommitTrial
  <1> QED
    BY <1>5, <1>6 DEF Current, WebhookCurrent, TrialCurrent, Session

LEMMA CurrentKept ==
  ASSUME PlanInv, SerialInv, CurrentInv, [Next]_vars
  PROVE  CurrentInv'
  <1> SUFFICES ASSUME ~overlapped' PROVE Current'
    BY DeletionStays DEF CurrentInv
  <1>a. /\ at \in [Session -> Pc] /\ on \in [Session -> Nat \cup Activation]
        /\ got \in [Session -> Subscription]
        /\ mine \in [Session -> Row] /\ row \in Row /\ sent \in Nat
    BY DEF PlanInv, TypeOK
  <1>b. ~overlapped => Alone /\ Careful /\ Current
    BY DEF SerialInv, CurrentInv
  <1>c. Handler \subseteq Session /\ Writer \subseteq Session /\ Handler \cap Writer = {}
    BY BillingAssumption DEF Session
  <1>1. CASE overlapped' = overlapped /\ UNCHANGED <<at, on, got, mine, row, processed>>
    BY <1>1, <1>b, OthersLeaveCurrent
  (* The ends that save nothing.                                           *)
  <1>2. ASSUME NEW s \in Session, at[s] # "idle", End(s), UNCHANGED <<row, overlapped>>,
               \A e \in processed' : e \in processed \/ e <= row.at
        PROVE  Current'
    <2>1. RowCurrent'
      BY <1>2, <1>b, RowStaysCurrent DEF Current
    <2>2. \A t \in Session : at'[t] = "idle"
      BY <1>2, <1>b, EndsAlone
    <2> QED
      BY <2>1, <2>2 DEF Current, WebhookCurrent, TrialCurrent, Session
  (* A session that begins finds the others idle.                          *)
  <1>3. ASSUME NEW s \in Session, NEW pc, NEW n, Begin(s, pc, n), UNCHANGED <<row, processed>>,
               s \in Handler => pc = "received",
               s \in Writer => \E k : mine' = [mine EXCEPT ![s] = [row EXCEPT !.trial = k]]
        PROVE  Current'
    <2>1. /\ \A t \in Session : at[t] = "idle"
          /\ at' = [at EXCEPT ![s] = pc] /\ ~overlapped
      BY <1>3, <1>a DEF Begin, PlanInv, TypeOK
    <2>2. RowCurrent'
      BY <1>3, <1>b, <2>1, RowStaysCurrent DEF Current
    <2>3. ASSUME NEW h \in Handler PROVE WebhookCurrent(h)'
      <3>1. at'[h] \notin {"retrieved", "read", "saving"}
        BY <1>3, <1>a, <1>c, <2>1
      <3> QED
        BY <3>1 DEF WebhookCurrent
    <2>4. ASSUME NEW w \in Writer PROVE TrialCurrent(w)'
      <3>1. CASE w = s
        <4>1. PICK k : mine' = [mine EXCEPT ![s] = [row EXCEPT !.trial = k]]
          BY <1>3, <1>c, <3>1
        <4>2. mine'[w] = [row EXCEPT !.trial = k]
          BY <1>a, <3>1, <4>1
        <4> QED
          BY <1>3, <1>a, <4>2 DEF TrialCurrent, Row
      <3>2. CASE w # s
        BY <1>a, <1>c, <2>1, <3>2 DEF TrialCurrent
      <3> QED
        BY <3>1, <3>2
    <2> QED
      BY <2>2, <2>3, <2>4 DEF Current
  (* A session that moves alone: the others are idle before and after.     *)
  <1>4. ASSUME NEW h \in Handler, Alone, Current, at[h] # "idle", WebhookCurrent(h)',
               UNCHANGED <<row, processed>>,
               \A t \in Session : t # h => at'[t] = at[t]
        PROVE  Current'
    <2>1. \A t \in Session : t # h => at'[t] = "idle"
      BY <1>4, <1>c DEF Alone
    <2>2. RowCurrent'
      BY <1>4, RowStaysCurrent DEF Current
    <2>3. ASSUME NEW g \in Handler PROVE WebhookCurrent(g)'
      BY <1>4, <1>c, <2>1 DEF WebhookCurrent
    <2>4. ASSUME NEW w \in Writer PROVE TrialCurrent(w)'
      BY <1>c, <2>1 DEF TrialCurrent
    <2> QED
      BY <2>2, <2>3, <2>4 DEF Current
  <1>5. ASSUME NEW h \in Handler, Webhook(h) PROVE Current'
    <2>0. h \in Session
      BY <1>c
    <2>1. CASE \E e \in Event : Receive(h, e)
      <3>1. PICK e \in Event : Begin(h, "received", e)
        BY <2>1 DEF Receive
      <3>2. UNCHANGED <<row, processed>>
        BY <2>1 DEF Receive, localVars
      <3> QED
        BY <1>3, <1>c, <2>0, <3>1, <3>2
    <2>2. CASE Retrieve(h)
      <3>1. /\ at[h] = "received" /\ at' = [at EXCEPT ![h] = "retrieved"]
            /\ UNCHANGED <<stripe, event, sent, on, mine, row, processed, overlapped>>
        BY <2>2 DEF Retrieve, Goto, stripeVars, localVars, historyVars
      <3>2. on[h] \in 1 .. sent
        BY <2>0, <3>1 DEF PlanInv, SessionsCarryTruth
      <3>3. got'[h] = stripe[event[on[h]].sub]
        <4>1. CASE event[on[h]].kind = "deleted"
          <5>1. got'[h] = event[on[h]].state
            BY <1>a, <2>0, <2>2, <4>1 DEF Retrieve
          <5> QED
            BY <3>2, <4>1, <5>1 DEF CurrentInv, DeletionIsFinal
        <4>2. CASE event[on[h]].kind # "deleted"
          BY <1>a, <2>0, <2>2, <4>2 DEF Retrieve
        <4> QED
          BY <4>1, <4>2
      <3>4. WebhookCurrent(h)'
        <4>1. at'[h] = "retrieved"
          BY <1>a, <2>0, <3>1
        <4> QED
          BY <3>1, <3>3, <4>1 DEF WebhookCurrent, LikeStripe
      <3>5. \A t \in Session : t # h => at'[t] = at[t]
        BY <1>a, <3>1
      <3> QED
        BY <1>4, <1>b, <3>1, <3>4, <3>5
    <2>3. CASE ReadAccount(h)
      <3> DEFINE entity == [row EXCEPT !.sub = event[on[h]].sub,
                                       !.plan = got[h].plan,
                                       !.status = got[h].status,
                                       !.at = IF @ <= on[h] THEN on[h] ELSE @]
      <3>1. /\ at[h] = "retrieved" /\ at' = [at EXCEPT ![h] = "read"]
            /\ UNCHANGED <<stripe, event, sent, on, row, processed, overlapped>>
            /\ mine' = [mine EXCEPT ![h] = entity]
        BY <2>3 DEF ReadAccount, Goto, stripeVars, localVars, historyVars
      <3>2. /\ entity.sub = event[on[h]].sub /\ entity.plan = got[h].plan
            /\ entity.status = got[h].status /\ entity.at = Stamp(h)
        BY <1>a DEF Row, Stamp
      <3> HIDE DEF entity
      <3>3. on[h] \in 1 .. sent
        BY <2>0, <3>1 DEF PlanInv, SessionsCarryTruth
      <3>4. /\ event[on[h]].sub \in Sub
            /\ row.at \in Nat /\ row.at <= sent
        <4>1. event[on[h]].sub \in Sub
          BY <3>3 DEF PlanInv, TypeOK, StripeEvent
        <4>2. row.at \in Nat
          BY <1>a DEF Row
        <4> QED
          BY <1>b, <3>1, <4>1, <4>2 DEF Current, RowCurrent
      <3>5. on[h] <= Stamp(h) /\ Stamp(h) <= sent
        BY <1>a, <3>3, <3>4 DEF Stamp
      <3>6. LikeStripe(event[on[h]].sub, got[h], Stamp(h))
        BY <1>b, <3>1 DEF Current, WebhookCurrent
      <3>7. LikeStripe(entity.sub, entity, entity.at)
        BY <3>2, <3>6 DEF LikeStripe
      <3>8. mine'[h] = entity /\ at'[h] = "read"
        BY <1>a, <2>0, <3>1
      <3>9. WebhookCurrent(h)'
        BY <3>1, <3>2, <3>4, <3>5, <3>7, <3>8 DEF WebhookCurrent, LikeStripe
      <3>10. \A t \in Session : t # h => at'[t] = at[t]
        BY <1>a, <3>1
      <3> QED
        BY <1>4, <1>b, <3>1, <3>9, <3>10
    <2>4. CASE Refuse(h)
      BY <1>2, <2>0, <2>4 DEF Refuse, localVars, historyVars
    <2>5. CASE IgnoreStale(h)
      <3>1. row.at > on[h] /\ on[h] \in Nat /\ row.at \in Nat
        <4>1. at[h] = "retrieved" /\ row.at > on[h]
          BY <2>5 DEF IgnoreStale, Stale
        <4> QED
          BY <1>a, <2>0, <4>1 DEF PlanInv, SessionsCarryTruth, Row
      <3>2. \A e \in processed' : e \in processed \/ e <= row.at
        BY <2>5, <3>1 DEF IgnoreStale
      <3>3. at[h] # "idle" /\ End(h) /\ UNCHANGED <<row, overlapped>>
        BY <2>5 DEF IgnoreStale, historyVars
      <3> QED
        BY <1>2, <2>0, <3>2, <3>3
    <2>6. CASE CommitWebhook(h)
      BY <1>b, <2>6, WebhookCommitsCurrent DEF CommitWebhook
    <2> QED
      BY <1>5, <2>1, <2>2, <2>3, <2>4, <2>5, <2>6 DEF Webhook
  <1>6. ASSUME NEW w \in Writer, Trial(w) PROVE Current'
    <2>0. w \in Session
      BY <1>c
    <2>1. ASSUME NEW n \in Activation, GoLive(w, n) PROVE Current'
      <3>1. CASE TrialDue
        <4>1. /\ Begin(w, "read", n) /\ UNCHANGED <<row, processed>>
              /\ mine' = [mine EXCEPT ![w] = [row EXCEPT !.trial = n]]
          BY <2>1, <3>1 DEF GoLive
        <4> QED
          BY <1>3, <1>c, <2>0, <4>1
      <3>2. CASE ~TrialDue
        BY <1>1, <2>1, <3>2 DEF GoLive, historyVars
      <3> QED
        BY <3>1, <3>2
    <2>2. ASSUME NEW n \in Activation, ReconcileTrial(w, n) PROVE Current'
      <3>1. /\ Begin(w, "read", n) /\ UNCHANGED <<row, processed>>
            /\ mine' = [mine EXCEPT ![w] = [row EXCEPT !.trial = n]]
        BY <2>2 DEF ReconcileTrial, localVars
      <3> QED
        BY <1>3, <1>c, <2>0, <3>1
    <2>3. CASE CommitTrial(w)
      BY <1>b, <2>3, TrialCommitsCurrent DEF CommitTrial, historyVars
    <2> QED
      BY <1>6, <2>1, <2>2, <2>3 DEF Trial
  <1>7. ASSUME NEW s \in Session, Reload(s) PROVE Current'
    <2>1. /\ at[s] = "read" /\ at' = [at EXCEPT ![s] = "saving"]
          /\ UNCHANGED <<stripe, event, sent, on, got, mine, row, processed, overlapped>>
      BY <1>7 DEF Reload, Goto, stripeVars, localVars, historyVars
    <2>2. ASSUME NEW t \in Session
          PROVE  at'[t] = at[t] \/ (at[t] = "read" /\ at'[t] = "saving")
      BY <1>a, <2>1
    <2>3. Current
      BY <1>b, <2>1
    <2>4. RowCurrent'
      BY <2>1, <2>3, RowStaysCurrent DEF Current
    <2>5. ASSUME NEW h \in Handler PROVE WebhookCurrent(h)'
      BY <1>c, <2>1, <2>2, <2>3 DEF Current, WebhookCurrent, LikeStripe, Stamp
    <2>6. ASSUME NEW w \in Writer PROVE TrialCurrent(w)'
      BY <1>c, <2>1, <2>2, <2>3 DEF Current, TrialCurrent
    <2> QED
      BY <2>4, <2>5, <2>6 DEF Current
  <1>8. ASSUME NEW s \in Session, Abort(s) PROVE Current'
    BY <1>2, <1>8 DEF Abort, localVars, historyVars
  <1>9. ASSUME NEW sub \in Sub, StripeStep(sub) PROVE Current'
    BY <1>1, <1>9 DEF StripeStep, Subscribe, Update, Cancel, ChargeFails, ChargeSucceeds, Emit,
                      localVars, sessionVars, historyVars
  <1>10. ASSUME NEW sub \in Sub, NEW plan \in Plan, OpenCheckout(sub, plan) PROVE Current'
    BY <1>1, <1>10 DEF OpenCheckout, sessionVars, historyVars
  <1>11. CASE UNCHANGED vars
    BY <1>1, <1>11 DEF vars, localVars, sessionVars, historyVars
  <1> QED
    BY <1>5, <1>6, <1>7, <1>8, <1>9, <1>10, <1>11 DEF Next

LEMMA CurrentInit == Init => CurrentInv
  <1> SUFFICES ASSUME Init PROVE DeletionIsFinal /\ Current
    BY DEF CurrentInv
  <1>1. DeletionIsFinal
    BY DEF Init, DeletionIsFinal
  <1>2. RowCurrent
    BY DEF Init, RowCurrent, FreeRow
  <1>3. \A s \in Session : at[s] = "idle"
    BY DEF Init
  <1> QED
    BY <1>1, <1>2, <1>3 DEF Current, WebhookCurrent, TrialCurrent, Session

(* Until transactions overlap, the row says what Stripe says of its        *)
(* subscription as soon as every event of the subscription has been        *)
(* processed, in whatever order, however often and between whatever        *)
(* failed attempts they were delivered.                                    *)
THEOREM SettlesLikeStripe == Spec => []SettledLikeStripe
  <1>1. PlanInv /\ SerialInv /\ CurrentInv /\ [Next]_vars => PlanInv' /\ SerialInv' /\ CurrentInv'
    BY PlanInvInductive, SerialKept, CurrentKept
  <1>2. PlanInv /\ CurrentInv => SettledLikeStripe
    <2> SUFFICES ASSUME PlanInv, CurrentInv, ~overlapped, row.sub # NoSub,
                        AllProcessed(row.sub)
                 PROVE  row.status = stripe[row.sub].status /\ row.plan = stripe[row.sub].plan
      BY DEF SettledLikeStripe
    <2>1. LikeStripe(row.sub, row, row.at)
      BY DEF CurrentInv, Current, RowCurrent
    <2> QED
      BY <2>1 DEF LikeStripe, AllProcessed
  <1> QED
    BY PlanInit, SerialInit, CurrentInit, <1>1, <1>2, PTL DEF Spec

-----------------------------------------------------------------------------
(* What is called unpaid or canceled was reported so, what is called       *)
(* canceled is canceled at Stripe for good, and a transaction that is      *)
(* about to write the row's own subscription keeps it canceled.            *)
Told(sub, status) ==
    /\ status \in TerminalStatus => sub \in Sub /\ ReportedEnded(sub)
    /\ status = "canceled" => stripe[sub].status = "canceled"

Keeps(sub, status) == row.status = "canceled" /\ row.sub = sub => status = "canceled"

WebhookTold(h) ==
    /\ at[h] = "retrieved" =>
          /\ Told(event[on[h]].sub, got[h].status)
          /\ Keeps(event[on[h]].sub, got[h].status)
    /\ at[h] \in {"read", "saving"} =>
          Told(mine[h].sub, mine[h].status) /\ Keeps(mine[h].sub, mine[h].status)

StripeReports ==
    \A sub \in Sub : stripe[sub].status \in TerminalStatus => ReportedEnded(sub)

AllTold == Told(row.sub, row.status) /\ \A h \in Handler : WebhookTold(h)

ToldInv == StripeReports /\ (overlapped \/ AllTold)

LEMMA ReportsStay ==
  ASSUME PlanInv, [Next]_vars, NEW sub, ReportedEnded(sub)
  PROVE  \E e \in 1 .. sent' : event'[e].sub = sub /\ event'[e].state.status \in TerminalStatus
  <1>1. PICK e \in 1 .. sent : event[e].sub = sub /\ event[e].state.status \in TerminalStatus
    BY DEF ReportedEnded
  <1>2. e \in 1 .. sent' /\ event'[e] = event[e]
    BY EventsAreALog DEF PlanInv, TypeOK
  <1> QED
    BY <1>1, <1>2

LEMMA ToldStays ==
  ASSUME PlanInv, [Next]_vars, NEW sub, NEW status, Told(sub, status)
  PROVE  /\ status \in TerminalStatus =>
              /\ sub \in Sub
              /\ \E e \in 1 .. sent' :
                    event'[e].sub = sub /\ event'[e].state.status \in TerminalStatus
         /\ status = "canceled" => stripe'[sub].status = "canceled"
  <1>1. status \in TerminalStatus =>
            /\ sub \in Sub
            /\ \E e \in 1 .. sent' :
                  event'[e].sub = sub /\ event'[e].state.status \in TerminalStatus
    BY ReportsStay DEF Told
  <1>2. ASSUME status = "canceled" PROVE stripe'[sub].status = "canceled"
    <2>1. sub \in Sub /\ stripe[sub].status = "canceled"
      BY <1>2 DEF Told, TerminalStatus
    <2> QED
      BY <2>1, ChangesAreReported
  <1> QED
    BY <1>1, <1>2

LEMMA StripeReportsStay ==
  ASSUME PlanInv, [Next]_vars, StripeReports
  PROVE  StripeReports'
  <1> SUFFICES ASSUME NEW sub \in Sub, stripe'[sub].status \in TerminalStatus
               PROVE  \E e \in 1 .. sent' :
                          event'[e].sub = sub /\ event'[e].state.status \in TerminalStatus
    BY DEF StripeReports, ReportedEnded
  <1>1. CASE stripe'[sub] = stripe[sub]
    BY <1>1, ReportsStay DEF StripeReports
  <1>2. CASE /\ sent' = sent + 1 /\ event'[sent + 1].sub = sub
             /\ event'[sent + 1].state = stripe'[sub]
    <2>1. sent + 1 \in 1 .. sent'
      BY <1>2 DEF PlanInv, TypeOK
    <2> QED
      BY <1>2, <2>1
  <1> QED
    BY <1>1, <1>2, ChangesAreReported

LEMMA RowStaysTold ==
  ASSUME PlanInv, [Next]_vars, Told(row.sub, row.status),
         row'.sub = row.sub, row'.status = row.status
  PROVE  Told(row.sub, row.status)'
  BY ToldStays DEF Told, ReportedEnded

(* What is told and kept of a subscription after a step that leaves the    *)
(* row alone, written over the next state.                                 *)
SaidOf(sub, status) ==
    /\ status \in TerminalStatus =>
          /\ sub \in Sub
          /\ \E e \in 1 .. sent' :
                event'[e].sub = sub /\ event'[e].state.status \in TerminalStatus
    /\ status = "canceled" => stripe'[sub].status = "canceled"
    /\ row'.status = "canceled" /\ row'.sub = sub => status = "canceled"

LEMMA StaysSaid ==
  ASSUME PlanInv, [Next]_vars, UNCHANGED row, NEW sub, NEW status,
         Told(sub, status), Keeps(sub, status)
  PROVE  SaidOf(sub, status)
  BY ToldStays DEF Keeps, SaidOf

LEMMA WebhookStaysTold ==
  ASSUME PlanInv, [Next]_vars, NEW h \in Handler, WebhookTold(h), UNCHANGED row,
         on'[h] = on[h], got'[h] = got[h], mine'[h] = mine[h],
         at'[h] = at[h] \/ (at[h] = "read" /\ at'[h] = "saving")
  PROVE  WebhookTold(h)'
  <1>1. CASE at'[h] = "retrieved"
    <2>1. at[h] = "retrieved" /\ on[h] \in 1 .. sent
      BY <1>1 DEF PlanInv, SessionsCarryTruth, Session
    <2>2. PICK sub, status : sub = event[on[h]].sub /\ status = got[h].status
      OBVIOUS
    <2>3. event'[on'[h]].sub = sub /\ got'[h].status = status
      BY <2>1, <2>2, EventsAreALog
    <2>4. Told(sub, status) /\ Keeps(sub, status)
      BY <2>1, <2>2 DEF WebhookTold
    <2>5. SaidOf(sub, status)
      BY <2>4, StaysSaid
    <2> QED
      BY <1>1, <2>3, <2>5 DEF WebhookTold, Told, ReportedEnded, Keeps, SaidOf
  <1>2. CASE at'[h] \in {"read", "saving"}
    <2>1. Told(mine[h].sub, mine[h].status) /\ Keeps(mine[h].sub, mine[h].status)
      BY <1>2 DEF WebhookTold
    <2>2. PICK sub, status : sub = mine[h].sub /\ status = mine[h].status
      OBVIOUS
    <2>3. mine'[h].sub = sub /\ mine'[h].status = status
      BY <2>2
    <2>4. Told(sub, status) /\ Keeps(sub, status)
      BY <2>1, <2>2
    <2>5. SaidOf(sub, status)
      BY <2>4, StaysSaid
    <2> QED
      BY <1>2, <2>3, <2>5 DEF WebhookTold, Told, ReportedEnded, Keeps, SaidOf
  <1> QED
    BY <1>1, <1>2 DEF WebhookTold

(* When the step leaves every session idle, only the row is to be told.    *)
LEMMA IdleTold ==
  ASSUME \A t \in Session : at'[t] \in {"idle", "received"}, Told(row.sub, row.status)'
  PROVE  AllTold'
  BY DEF AllTold, WebhookTold, Session

LEMMA ToldKept ==
  ASSUME PlanInv, SerialInv, CurrentInv, ToldInv, [Next]_vars
  PROVE  ToldInv'
  <1> SUFFICES ASSUME ~overlapped' PROVE AllTold'
    BY StripeReportsStay DEF ToldInv
  <1>a. /\ at \in [Session -> Pc] /\ on \in [Session -> Nat \cup Activation]
        /\ got \in [Session -> Subscription]
        /\ mine \in [Session -> Row] /\ row \in Row /\ sent \in Nat
    BY DEF PlanInv, TypeOK
  <1>b. ~overlapped => Alone /\ Careful /\ Current /\ AllTold
    BY DEF SerialInv, CurrentInv, ToldInv
  <1>c. Handler \subseteq Session /\ Writer \subseteq Session /\ Handler \cap Writer = {}
    BY BillingAssumption DEF Session
  (* Nobody moves, or a session goes from its read to its save.            *)
  <1>1. ASSUME UNCHANGED <<overlapped, on, got, mine, row>>,
               \A t \in Session : at'[t] = at[t] \/ (at[t] = "read" /\ at'[t] = "saving")
        PROVE  AllTold'
    BY <1>1, <1>b, <1>c, RowStaysTold, WebhookStaysTold DEF AllTold
  (* The ends that save nothing.                                           *)
  <1>2. ASSUME NEW s \in Session, at[s] # "idle", End(s), UNCHANGED <<row, overlapped>>
        PROVE  AllTold'
    <2>1. \A t \in Session : at'[t] = "idle"
      BY <1>2, <1>b, EndsAlone
    <2>2. Told(row.sub, row.status)'
      BY <1>2, <1>b, RowStaysTold DEF AllTold
    <2> QED
      BY <2>1, <2>2, IdleTold
  (* A session that begins finds the others idle.                          *)
  <1>3. ASSUME NEW s \in Session, NEW pc, NEW n, Begin(s, pc, n), UNCHANGED row,
               s \in Handler => pc = "received"
        PROVE  AllTold'
    <2>1. /\ \A t \in Session : at[t] = "idle"
          /\ at' = [at EXCEPT ![s] = pc] /\ ~overlapped
      BY <1>3, <1>a DEF Begin, PlanInv, TypeOK
    <2>2. \A h \in Handler : at'[h] \in {"idle", "received"}
      BY <1>3, <1>a, <1>c, <2>1
    <2>3. Told(row.sub, row.status)'
      BY <1>3, <1>b, <2>1, RowStaysTold DEF AllTold
    <2> QED
      BY <2>2, <2>3 DEF AllTold, WebhookTold
  (* A webhook that moves alone: the others are idle before and after.     *)
  <1>4. ASSUME NEW h \in Handler, Alone, AllTold, at[h] # "idle", WebhookTold(h)',
               UNCHANGED row, \A t \in Session : t # h => at'[t] = at[t]
        PROVE  AllTold'
    <2>1. \A t \in Session : t # h => at'[t] = "idle"
      BY <1>4, <1>c DEF Alone
    <2>2. Told(row.sub, row.status)'
      BY <1>4, RowStaysTold DEF AllTold
    <2> QED
      BY <1>4, <1>c, <2>1, <2>2 DEF AllTold, WebhookTold
  (* A save of an entity that was told.                                    *)
  <1>5. ASSUME NEW s \in Session, at[s] = "saving", End(s), row' = mine[s], ~overlapped,
               Told(mine[s].sub, mine[s].status)
        PROVE  AllTold'
    <2>1. \A t \in Session : at'[t] = "idle"
      BY <1>5, <1>b, EndsAlone
    <2>2. Told(row.sub, row.status)'
      BY <1>5, ToldStays DEF Told, ReportedEnded
    <2> QED
      BY <2>1, <2>2, IdleTold
  <1>6. ASSUME NEW h \in Handler, Webhook(h) PROVE AllTold'
    <2>0. h \in Session
      BY <1>c
    <2>1. CASE \E e \in Event : Receive(h, e)
      <3>1. PICK e \in Event : Begin(h, "received", e) /\ UNCHANGED row
        BY <2>1 DEF Receive, localVars
      <3> QED
        BY <1>3, <2>0, <3>1
    <2>2. CASE Retrieve(h)
      <3>1. /\ at[h] = "received" /\ at' = [at EXCEPT ![h] = "retrieved"]
            /\ UNCHANGED <<stripe, event, sent, on, mine, row, overlapped>>
        BY <2>2 DEF Retrieve, Goto, stripeVars, localVars, historyVars
      <3>2. PICK e \in 1 .. sent : e = on[h]
        BY <2>0, <3>1 DEF PlanInv, SessionsCarryTruth
      <3>3. PICK sub \in Sub : sub = event[e].sub
        BY <3>2 DEF PlanInv, TypeOK, StripeEvent
      <3>4. got'[h] = stripe[sub]
        <4>1. CASE event[e].kind = "deleted"
          BY <1>a, <2>0, <2>2, <3>2, <3>3, <4>1 DEF Retrieve, CurrentInv, DeletionIsFinal
        <4>2. CASE event[e].kind # "deleted"
          BY <1>a, <2>0, <2>2, <3>2, <3>3, <4>2 DEF Retrieve
        <4> QED
          BY <4>1, <4>2
      <3>5. Told(sub, stripe[sub].status) /\ Keeps(sub, stripe[sub].status)
        BY <1>b, <3>1 DEF ToldInv, StripeReports, AllTold, Told, Keeps
      <3>6. at'[h] = "retrieved"
        BY <1>a, <2>0, <3>1
      <3>7. WebhookTold(h)'
        BY <3>1, <3>2, <3>3, <3>4, <3>5, <3>6 DEF WebhookTold, Told, ReportedEnded, Keeps
      <3>8. \A t \in Session : t # h => at'[t] = at[t]
        BY <1>a, <3>1
      <3> QED
        BY <1>4, <1>b, <3>1, <3>7, <3>8
    <2>3. CASE ReadAccount(h)
      <3> DEFINE entity == [row EXCEPT !.sub = event[on[h]].sub,
                                       !.plan = got[h].plan,
                                       !.status = got[h].status,
                                       !.at = IF @ <= on[h] THEN on[h] ELSE @]
      <3>1. /\ at[h] = "retrieved" /\ at' = [at EXCEPT ![h] = "read"]
            /\ UNCHANGED <<stripe, event, sent, on, row, overlapped>>
            /\ mine' = [mine EXCEPT ![h] = entity]
        BY <2>3 DEF ReadAccount, Goto, stripeVars, localVars, historyVars
      <3>2. entity.sub = event[on[h]].sub /\ entity.status = got[h].status
        BY <1>a DEF Row
      <3> HIDE DEF entity
      <3>3. Told(entity.sub, entity.status) /\ Keeps(entity.sub, entity.status)
        BY <1>b, <3>1, <3>2 DEF AllTold, WebhookTold
      <3>4. mine'[h] = entity /\ at'[h] = "read"
        BY <1>a, <2>0, <3>1
      <3>5. WebhookTold(h)'
        BY <3>1, <3>3, <3>4 DEF WebhookTold, Told, ReportedEnded, Keeps
      <3>6. \A t \in Session : t # h => at'[t] = at[t]
        BY <1>a, <3>1
      <3> QED
        BY <1>4, <1>b, <3>1, <3>5, <3>6
    <2>4. CASE Refuse(h) \/ IgnoreStale(h)
      BY <1>2, <2>0, <2>4 DEF Refuse, IgnoreStale, localVars, historyVars
    <2>5. CASE CommitWebhook(h)
      <3>1. at[h] = "saving" /\ End(h) /\ ~overlapped /\ row' = Saved(h)
        BY <2>5 DEF CommitWebhook
      <3>2. row' = mine[h]
        BY <1>b, <2>0, <3>1, SavedAlone DEF Careful
      <3>3. Told(mine[h].sub, mine[h].status)
        BY <1>b, <3>1 DEF AllTold, WebhookTold
      <3> QED
        BY <1>5, <2>0, <3>1, <3>2, <3>3
    <2> QED
      BY <1>6, <2>1, <2>2, <2>3, <2>4, <2>5 DEF Webhook
  <1>7. ASSUME NEW w \in Writer, Trial(w) PROVE AllTold'
    <2>0. w \in Session /\ w \notin Handler
      BY <1>c
    <2>1. ASSUME NEW n \in Activation, GoLive(w, n) PROVE AllTold'
      <3>1. CASE TrialDue
        BY <1>3, <2>0, <2>1, <3>1 DEF GoLive
      <3>2. CASE ~TrialDue
        BY <1>1, <2>1, <3>2 DEF GoLive, historyVars
      <3> QED
        BY <3>1, <3>2
    <2>2. ASSUME NEW n \in Activation, ReconcileTrial(w, n) PROVE AllTold'
      BY <1>3, <2>0, <2>2 DEF ReconcileTrial, localVars
    <2>3. CASE CommitTrial(w)
      <3>1. at[w] = "saving" /\ End(w) /\ ~overlapped /\ row' = Saved(w)
        BY <2>3 DEF CommitTrial, historyVars
      <3>2. row' = mine[w]
        BY <1>b, <2>0, <3>1, SavedAlone DEF Careful
      <3>3. Told(mine[w].sub, mine[w].status)
        BY <1>b, <3>1 DEF AllTold, Current, TrialCurrent
      <3> QED
        BY <1>5, <2>0, <3>1, <3>2, <3>3
    <2> QED
      BY <1>7, <2>1, <2>2, <2>3 DEF Trial
  <1>8. ASSUME NEW s \in Session, Reload(s) PROVE AllTold'
    <2>1. /\ at[s] = "read" /\ at' = [at EXCEPT ![s] = "saving"]
          /\ UNCHANGED <<overlapped, on, got, mine, row>>
      BY <1>8 DEF Reload, Goto, localVars, historyVars
    <2> QED
      BY <1>1, <1>a, <2>1
  <1>9. ASSUME NEW s \in Session, Abort(s) PROVE AllTold'
    BY <1>2, <1>9 DEF Abort, localVars, historyVars
  <1>10. ASSUME NEW sub \in Sub, StripeStep(sub) PROVE AllTold'
    BY <1>1, <1>10
    DEF StripeStep, Subscribe, Update, Cancel, ChargeFails, ChargeSucceeds, Emit,
        localVars, sessionVars, historyVars
  <1>11. ASSUME NEW sub \in Sub, NEW plan \in Plan, OpenCheckout(sub, plan)
         PROVE  AllTold'
    BY <1>1, <1>11 DEF OpenCheckout, sessionVars, historyVars
  <1>12. CASE UNCHANGED vars
    BY <1>1, <1>12 DEF vars, localVars, sessionVars, historyVars
  <1> QED
    BY <1>6, <1>7, <1>8, <1>9, <1>10, <1>11, <1>12 DEF Next

LEMMA ToldInit == Init => ToldInv
  <1> SUFFICES ASSUME Init PROVE StripeReports /\ AllTold
    BY DEF ToldInv
  <1>1. StripeReports
    BY DEF Init, StripeReports, NotSold, TerminalStatus
  <1>2. Told(row.sub, row.status)
    BY DEF Init, Told, FreeRow, TerminalStatus
  <1>3. \A s \in Session : at[s] = "idle"
    BY DEF Init
  <1> QED
    BY <1>1, <1>2, <1>3 DEF AllTold, WebhookTold, Session

LEMMA TruthIsToldOn ==
  PlanInv /\ SerialInv /\ CurrentInv /\ ToldInv /\ [Next]_vars
      => PlanInv' /\ SerialInv' /\ CurrentInv' /\ ToldInv'
  BY PlanInvInductive, SerialKept, CurrentKept, ToldKept

(* Until transactions overlap, a subscription keeps the account's row as   *)
(* long as Stripe has not reported it unpaid or canceled, whatever events  *)
(* of others arrive, in whatever order.                                    *)
THEOREM SubscriptionsAreKept == Spec => KeepsSubscription
  <1>1. PlanInv /\ SerialInv /\ ToldInv /\ [Next]_vars =>
          [ ~overlapped /\ row.sub # NoSub /\ row'.sub # row.sub
                => ReportedEnded(row.sub) ]_row
    <2> SUFFICES ASSUME PlanInv, SerialInv, ToldInv, [Next]_vars, ~overlapped,
                        row.sub # NoSub, row' # row, row'.sub # row.sub
                 PROVE  ReportedEnded(row.sub)
      OBVIOUS
    <2>1. row.status \in TerminalStatus
      BY RowIsRespected DEF Respects
    <2> QED
      BY <2>1 DEF ToldInv, AllTold, Told
  <1> QED
    BY PlanInit, SerialInit, CurrentInit, ToldInit, TruthIsToldOn, <1>1, PTL
    DEF Spec, KeepsSubscription

(* Until transactions overlap, a subscription that was recorded canceled   *)
(* stays canceled: what Stripe ended is never revived by a late event.     *)
THEOREM EndedSubscriptionsStay == Spec => EndedStaysEnded
  <1>1. PlanInv /\ SerialInv /\ CurrentInv /\ ToldInv /\ [Next]_vars =>
          [ ~overlapped /\ row.status = "canceled" /\ row'.sub = row.sub
                => row'.status = "canceled" ]_row
    <2> SUFFICES ASSUME PlanInv, SerialInv, CurrentInv, ToldInv, [Next]_vars, ~overlapped,
                        row' # row, row.status = "canceled", row'.sub = row.sub
                 PROVE  row'.status = "canceled"
      OBVIOUS
    <2>1. PICK s \in Session : at[s] = "saving" /\ row' = mine[s]
      BY RowIsSaved, SavedAlone DEF SerialInv, Careful
    <2>2. CASE s \in Handler
      BY <2>1, <2>2 DEF ToldInv, AllTold, WebhookTold, Keeps
    <2>3. CASE s \in Writer
      BY <2>1, <2>3 DEF CurrentInv, Current, TrialCurrent
    <2> QED
      BY <2>2, <2>3 DEF Session
  <1> QED
    BY PlanInit, SerialInit, CurrentInit, ToldInit, TruthIsToldOn, <1>1, PTL
    DEF Spec, EndedStaysEnded
=============================================================================
