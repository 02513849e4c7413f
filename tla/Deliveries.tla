----------------------------- MODULE Deliveries -----------------------------
(***************************************************************************)
(* The notifications of one project's lifecycle events: dispatchers that   *)
(* insert a delivery, publish it to Amazon SNS and record what came of it. *)
(*                                                                         *)
(* A reconciliation may report an event that another reconciliation, in    *)
(* the same process or not, reports too.  The deduplication key of an      *)
(* event is the event.  Subscriptions has the owner's side: here the       *)
(* preference and the existence of a confirmed subscription just change.   *)
(* The kinds of events the owner may turn off one by one are taken to be   *)
(* on, and SNS to be configured.                                           *)
(***************************************************************************)
EXTENDS Integers

CONSTANTS
    Event,
    NoEvent,
    Dispatcher,  \* calls of dispatch in progress at a time
    Faults       \* of "crash", "database", "sns", "lost_answer"

ASSUME DeliveriesAssumption == NoEvent \notin Event

MaxAttempts == 3

VARIABLES
    exists,      \* the project does
    enabled,     \* the owner's preference
    confirmed,   \* there is a confirmed subscription
    delivery,    \* [Event -> its row of notification_deliveries]
    worker,      \* [Dispatcher -> the call in progress]
    requests,    \* [Event -> publications asked for]
    accepted,    \* [Event -> publications SNS accepted]
    lost,        \* [Event -> of these, the ones dispatch does not know of]
    broken       \* events whose dispatch died or could not save an outcome

settingVars == <<exists, enabled, confirmed>>
publishVars == <<requests, accepted, lost>>
vars == <<settingVars, delivery, worker, publishVars, broken>>

Delivery   == [status : {"absent", "pending", "retrying", "published",
                         "failed_permanent", "skipped_unconfirmed"},
               attempts : 0 .. MaxAttempts]
NoDelivery == [status |-> "absent", attempts |-> 0]
Ended      == {"published", "failed_permanent", "skipped_unconfirmed"}

Work   == [at : {"insert", "check", "publish", "acknowledge", "fail"},
           event : Event, attempt : 1 .. MaxAttempts]
NoWork == [at |-> "idle", event |-> NoEvent, attempt |-> 1]

TypeOK ==
    /\ exists \in BOOLEAN
    /\ enabled \in BOOLEAN
    /\ confirmed \in BOOLEAN
    /\ delivery \in [Event -> Delivery]
    /\ worker \in [Dispatcher -> Work \cup {NoWork}]
    /\ requests \in [Event -> Nat]
    /\ accepted \in [Event -> Nat]
    /\ lost \in [Event -> Nat]
    /\ broken \subseteq Event

Init ==
    /\ exists = TRUE
    /\ enabled = FALSE
    /\ confirmed = FALSE
    /\ delivery = [e \in Event |-> NoDelivery]
    /\ worker = [w \in Dispatcher |-> NoWork]
    /\ requests = [e \in Event |-> 0]
    /\ accepted = [e \in Event |-> 0]
    /\ lost = [e \in Event |-> 0]
    /\ broken = {}

Fault(f) == f \in Faults

-----------------------------------------------------------------------------
(* update, and the last step of subscribe and unsubscribe.                 *)
SetPreference(on) ==
    /\ exists
    /\ enabled' = on
    /\ UNCHANGED <<exists, confirmed, delivery, worker, publishVars, broken>>

ChangeSubscription ==
    /\ exists
    /\ confirmed' = ~confirmed
    /\ UNCHANGED <<exists, enabled, delivery, worker, publishVars, broken>>

(* The deletion of the project cascades to its deliveries.                 *)
DeleteProject ==
    /\ exists
    /\ exists' = FALSE
    /\ confirmed' = FALSE
    /\ delivery' = [e \in Event |-> NoDelivery]
    /\ UNCHANGED <<enabled, worker, publishVars, broken>>

-----------------------------------------------------------------------------
(***************************************************************************)
(* dispatch.                                                               *)
(***************************************************************************)
Goto(w, at) == worker' = [worker EXCEPT ![w].at = at]
Rest(w)     == worker' = [worker EXCEPT ![w] = NoWork]

Write(w, status, attempts) ==
    /\ exists
    /\ delivery' = [delivery EXCEPT ![worker[w].event] =
                        [status |-> status, attempts |-> attempts]]

(* The foreign key refuses a row of a project that is gone.                *)
WriteFails ==
    /\ ~exists \/ Fault("database")
    /\ UNCHANGED delivery

GoesBroken(w) == broken' = broken \cup {worker[w].event}

Dispatch(w, e) ==
    /\ worker[w] = NoWork
    /\ exists
    /\ enabled
    /\ delivery[e] = NoDelivery
    /\ worker' = [worker EXCEPT ![w] = [at |-> "insert", event |-> e, attempt |-> 1]]
    /\ UNCHANGED <<settingVars, delivery, publishVars, broken>>

NewOrRetrying(e) ==         \* mutant: a delivery that is being retried is taken up again
    delivery[e].status \in {"absent", "retrying"}

NewKey(e) == delivery[e] = NoDelivery

(* The unique deduplication key lets one dispatch through.                 *)
Insert(w) ==
    LET e == worker[w].event
    IN  /\ worker[w].at = "insert"
        /\ \/ NewKey(e) /\ Write(w, "pending", 0) /\ Goto(w, "check")
           \/ ~NewKey(e) /\ Rest(w) /\ UNCHANGED delivery
           \/ WriteFails /\ Rest(w)
        /\ UNCHANGED <<settingVars, publishVars, broken>>

CheckSilently(w) ==         \* mutant: a delivery nobody would get is not recorded
    /\ worker[w].at = "check"
    /\ IF confirmed THEN Goto(w, "publish") ELSE Rest(w)
    /\ UNCHANGED <<settingVars, delivery, publishVars, broken>>

Check(w) ==
    /\ worker[w].at = "check"
    /\ \/ /\ confirmed
          /\ Goto(w, "publish")
          /\ UNCHANGED <<delivery, broken>>
       \/ /\ ~confirmed
          /\ Rest(w)
          /\ \/ Write(w, "skipped_unconfirmed", 0) /\ UNCHANGED broken
             \/ WriteFails /\ GoesBroken(w)
    /\ UNCHANGED <<settingVars, publishVars>>

(* SNS may refuse a publication, or accept it and lose its answer.         *)
Publish(w) ==
    LET e == worker[w].event
    IN  /\ worker[w].at = "publish"
        /\ requests' = [requests EXCEPT ![e] = @ + 1]
        /\ \/ /\ accepted' = [accepted EXCEPT ![e] = @ + 1]
              /\ Goto(w, "acknowledge")
              /\ UNCHANGED lost
           \/ /\ Fault("lost_answer")
              /\ accepted' = [accepted EXCEPT ![e] = @ + 1]
              /\ lost' = [lost EXCEPT ![e] = @ + 1]
              /\ Goto(w, "fail")
           \/ /\ Fault("sns")
              /\ Goto(w, "fail")
              /\ UNCHANGED <<accepted, lost>>
        /\ UNCHANGED <<settingVars, delivery, broken>>

(* A save that fails is taken for a failed publication.                    *)
Acknowledge(w) ==
    /\ worker[w].at = "acknowledge"
    /\ \/ /\ Write(w, "published", worker[w].attempt)
          /\ Rest(w)
          /\ UNCHANGED lost
       \/ /\ WriteFails
          /\ lost' = [lost EXCEPT ![worker[w].event] = @ + 1]
          /\ Goto(w, "fail")
    /\ UNCHANGED <<settingVars, requests, accepted, broken>>

GivesUpEarly(w) ==          \* mutant: the last attempt is counted out before it is made
    worker[w].attempt + 1 = MaxAttempts

GivesUp(w) == worker[w].attempt = MaxAttempts

NextAttempt(w) ==
    IF GivesUp(w) THEN Rest(w)
    ELSE worker' = [worker EXCEPT ![w].at = "publish", ![w].attempt = @ + 1]

(* The failure is saved, and when that fails, too, the call ends.          *)
RecordFailure(w) ==
    /\ worker[w].at = "fail"
    /\ \/ /\ Write(w, IF GivesUp(w) THEN "failed_permanent" ELSE "retrying", worker[w].attempt)
          /\ NextAttempt(w)
          /\ UNCHANGED broken
       \/ /\ WriteFails
          /\ Rest(w)
          /\ GoesBroken(w)
    /\ UNCHANGED <<settingVars, publishVars>>

Crash(w) ==
    /\ Fault("crash")
    /\ worker[w] # NoWork
    /\ Rest(w)
    /\ GoesBroken(w)
    /\ UNCHANGED <<settingVars, delivery, publishVars>>

-----------------------------------------------------------------------------
DispatchStep(w) ==
    Insert(w) \/ Check(w) \/ Publish(w) \/ Acknowledge(w) \/ RecordFailure(w)

Next ==
    \/ \E on \in BOOLEAN : SetPreference(on)
    \/ ChangeSubscription
    \/ DeleteProject
    \/ \E w \in Dispatcher : \/ \E e \in Event : Dispatch(w, e)
                             \/ DispatchStep(w)
                             \/ Crash(w)

Spec == Init /\ [][Next]_vars

(* A call in progress goes on.                                             *)
FairSpec == Spec /\ \A w \in Dispatcher : WF_vars(DispatchStep(w))

-----------------------------------------------------------------------------
(***************************************************************************)
(* Properties.                                                             *)
(***************************************************************************)

(* Whatever dispatchers, crashes and failing saves do, SNS is asked at     *)
(* most three times to publish an event, and accepts it twice only when    *)
(* its answer, or the record of it, was lost: concurrent dispatches of one *)
(* event never both publish it.                                            *)
NoNeedlessRepeat ==
    \A e \in Event : requests[e] <= MaxAttempts /\ accepted[e] <= lost[e] + 1

(* The delivery history is honest: "published" was accepted by SNS, and    *)
(* only three requests end in "failed_permanent".                          *)
OutcomeIsTrue ==
    \A e \in Event :
        /\ delivery[e].status = "published" => accepted[e] > lost[e]
        /\ delivery[e].status = "failed_permanent" =>
              requests[e] = MaxAttempts /\ accepted[e] = lost[e]

(* Every delivery ends, unless its dispatch dies or cannot save; nothing   *)
(* takes up what such a dispatch leaves behind.                            *)
DeliveryEnds ==
    \A e \in Event : delivery[e] # NoDelivery ~>
        delivery[e].status \in Ended \/ ~exists \/ e \in broken
=============================================================================
