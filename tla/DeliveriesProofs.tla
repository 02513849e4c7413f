-------------------------- MODULE DeliveriesProofs --------------------------
(***************************************************************************)
(* What the delivery history and SNS agree on, for any number of           *)
(* dispatchers and events, however dispatchers die, saves fail and answers *)
(* of SNS are lost.                                                        *)
(***************************************************************************)
EXTENDS Deliveries, TLAPS

(* A dispatch that got its row past the deduplication key.                 *)
Held        == {"check", "publish", "acknowledge", "fail"}
Holds(w, e) == worker[w].at \in Held /\ worker[w].event = e

SoleHolder ==
    \A w, v \in Dispatcher, e \in Event : Holds(w, e) /\ Holds(v, e) => w = v

HeldIsOpen ==
    \A w \in Dispatcher, e \in Event :
        Holds(w, e) /\ exists => delivery[e].status \in {"pending", "retrying"}

(* The attempt of the holder counts the requests made.                     *)
HolderCounts ==
    \A w \in Dispatcher, e \in Event : Holds(w, e) =>
        /\ requests[e] = CASE worker[w].at = "check"   -> 0
                           [] worker[w].at = "publish" -> worker[w].attempt - 1
                           [] OTHER                    -> worker[w].attempt
        /\ accepted[e] = IF worker[w].at = "acknowledge" THEN lost[e] + 1 ELSE lost[e]

FirstAttempt ==
    \A w \in Dispatcher : worker[w].at \in {"insert", "check"} => worker[w].attempt = 1

NewIsUntouched ==
    \A e \in Event : exists /\ delivery[e] = NoDelivery =>
        requests[e] = 0 /\ accepted[e] = 0 /\ lost[e] = 0

DeletedIsEmpty == ~exists => \A e \in Event : delivery[e] = NoDelivery

HistoryInv ==
    /\ SoleHolder
    /\ HeldIsOpen
    /\ HolderCounts
    /\ FirstAttempt
    /\ NewIsUntouched
    /\ DeletedIsEmpty
    /\ NoNeedlessRepeat
    /\ OutcomeIsTrue

LEMMA InitHistory == Init => TypeOK /\ HistoryInv
  <1> SUFFICES ASSUME Init PROVE TypeOK /\ HistoryInv
    OBVIOUS
  <1>1. TypeOK
    <2>1. NoDelivery \in Delivery
      BY DEF NoDelivery, Delivery, MaxAttempts
    <2> QED
      BY <2>1 DEF Init, TypeOK
  <1>2. \A w \in Dispatcher, e \in Event : ~Holds(w, e)
    BY DEF Init, Holds, Held, NoWork
  <1>3. /\ FirstAttempt /\ NewIsUntouched /\ DeletedIsEmpty
        /\ NoNeedlessRepeat /\ OutcomeIsTrue
    BY DEF Init, NoWork, FirstAttempt, NewIsUntouched, DeletedIsEmpty, NoNeedlessRepeat, OutcomeIsTrue,
           NoDelivery, MaxAttempts
  <1> QED
    BY <1>1, <1>2, <1>3 DEF HistoryInv, SoleHolder, HeldIsOpen, HolderCounts

(* A dispatcher that is not idle works on an event.                        *)
LEMMA WorkFacts ==
  ASSUME TypeOK, NEW w \in Dispatcher, worker[w].at # "idle"
  PROVE  /\ worker[w].event \in Event
         /\ worker[w].attempt \in 1 .. MaxAttempts
         /\ worker[w] \in Work
  BY DEF TypeOK, Work, NoWork

LEMMA StepTypes == ASSUME TypeOK, [Next]_vars PROVE TypeOK'
  <1> USE DEF TypeOK
  <1>1. NoWork.at = "idle" /\ NoDelivery \in Delivery
    BY DEF NoWork, NoDelivery, Delivery, MaxAttempts
  <1>2. CASE UNCHANGED vars
    BY <1>2 DEF vars, settingVars, publishVars
  <1>3. CASE (\E on \in BOOLEAN : SetPreference(on)) \/ ChangeSubscription \/ DeleteProject
    BY <1>1, <1>3 DEF SetPreference, ChangeSubscription, DeleteProject, settingVars, publishVars
  <1>4. ASSUME NEW w \in Dispatcher, NEW e \in Event, Dispatch(w, e)
        PROVE  TypeOK'
    <2>1. [at |-> "insert", event |-> e, attempt |-> 1] \in Work
      BY DEF Work, MaxAttempts
    <2> QED
      BY <1>4, <2>1 DEF Dispatch, settingVars, publishVars
  <1>5. ASSUME NEW w \in Dispatcher, DispatchStep(w) \/ Crash(w)
        PROVE  TypeOK'
    <2>1. worker[w].at # "idle"
      BY <1>1, <1>5
      DEF DispatchStep, Insert, Check, Publish, Acknowledge, RecordFailure, Crash, Work, NoWork
    <2>2. /\ worker[w].event \in Event
          /\ worker[w].attempt \in 1 .. MaxAttempts
          /\ worker[w] \in Work
      BY <2>1, WorkFacts
    <2>3. ASSUME NEW at \in {"check", "publish", "acknowledge", "fail"}, Goto(w, at)
          PROVE  worker' \in [Dispatcher -> Work \cup {NoWork}]
      BY <2>2, <2>3 DEF Goto, Work
    <2>4. ASSUME Rest(w)
          PROVE  worker' \in [Dispatcher -> Work \cup {NoWork}]
      BY <2>4 DEF Rest
    <2>5. ASSUME NextAttempt(w)
          PROVE  worker' \in [Dispatcher -> Work \cup {NoWork}]
      <3>1. CASE GivesUp(w)
        BY <2>4, <2>5, <3>1 DEF NextAttempt
      <3>2. CASE ~GivesUp(w)
        <4>1. worker[w].attempt + 1 \in 1 .. MaxAttempts
          BY <2>2, <3>2 DEF GivesUp, MaxAttempts
        <4>2. [at |-> "publish", event |-> worker[w].event, attempt |-> worker[w].attempt + 1]
                 \in Work
          BY <2>2, <4>1 DEF Work
        <4>3. /\ DOMAIN worker' = Dispatcher
              /\ \A v \in Dispatcher \ {w} : worker'[v] = worker[v]
          BY <2>5, <3>2 DEF NextAttempt
        <4>4. worker'[w] = [worker[w] EXCEPT !.at = "publish", !.attempt = @ + 1]
          BY <2>5, <3>2 DEF NextAttempt
        <4>5. worker'[w] \in Work
          BY <2>2, <4>2, <4>4 DEF Work
        <4>6. worker' = [v \in Dispatcher |-> worker'[v]]
          BY <2>5, <3>2 DEF NextAttempt
        <4> QED
          BY <4>3, <4>5, <4>6
      <3> QED
        BY <3>1, <3>2
    <2>6. ASSUME NEW status \in {"pending", "retrying", "published", "failed_permanent",
                                 "skipped_unconfirmed"},
                 NEW attempts \in 0 .. MaxAttempts, Write(w, status, attempts)
          PROVE  delivery' \in [Event -> Delivery]
      <3>1. [status |-> status, attempts |-> attempts] \in Delivery
        BY DEF Delivery
      <3> QED
        BY <2>2, <2>6, <3>1 DEF Write
    <2>7. CASE Insert(w)
      BY <2>3, <2>4, <2>6, <2>7 DEF Insert, WriteFails, settingVars, publishVars, MaxAttempts
    <2>8. CASE Check(w)
      BY <2>2, <2>3, <2>4, <2>6, <2>8
      DEF Check, WriteFails, GoesBroken, settingVars, publishVars, MaxAttempts
    <2>9. CASE Publish(w)
      BY <2>2, <2>3, <2>9 DEF Publish, settingVars
    <2>10. CASE Acknowledge(w)
      <3>1. worker[w].attempt \in 0 .. MaxAttempts
        BY <2>2 DEF MaxAttempts
      <3> QED
        BY <2>2, <2>3, <2>4, <2>6, <2>10, <3>1 DEF Acknowledge, WriteFails, settingVars
    <2>11. CASE RecordFailure(w)
      <3>1. worker[w].attempt \in 0 .. MaxAttempts
        BY <2>2 DEF MaxAttempts
      <3> QED
        BY <2>2, <2>4, <2>5, <2>6, <2>11, <3>1
        DEF RecordFailure, WriteFails, GoesBroken, settingVars, publishVars
    <2>12. CASE Crash(w)
      BY <2>2, <2>4, <2>12 DEF Crash, GoesBroken, settingVars, publishVars
    <2> QED
      BY <1>5, <2>7, <2>8, <2>9, <2>10, <2>11, <2>12 DEF DispatchStep
  <1> QED
    BY <1>2, <1>3, <1>4, <1>5 DEF Next
(***************************************************************************)
(* A dispatcher's step changes its own work, and what is recorded of its   *)
(* own event.                                                              *)
(***************************************************************************)
OnlyMine(w, e) ==
    /\ \A v \in Dispatcher \ {w} : worker'[v] = worker[v]
    /\ \A f \in Event \ {e} :
          /\ delivery'[f] = delivery[f]
          /\ requests'[f] = requests[f]
          /\ accepted'[f] = accepted[f]
          /\ lost'[f] = lost[f]
    /\ exists' = exists

(* It then suffices to look at that event: w holds it, alone, with the     *)
(* right counts, or gives it up with what its delivery says.               *)
LEMMA Local ==
  ASSUME TypeOK, TypeOK', HistoryInv, NEW w \in Dispatcher, NEW e \in Event, OnlyMine(w, e),
         worker[w].event = e,
         worker'[w].event = e \/ worker'[w] = NoWork,
         Holds(w, e) \/ (\A v \in Dispatcher : ~Holds(v, e)) \/ worker'[w] = NoWork,
         Holds(w, e)' =>
            /\ exists => delivery'[e].status \in {"pending", "retrying"}
            /\ requests'[e] = CASE worker'[w].at = "check"   -> 0
                                [] worker'[w].at = "publish" -> worker'[w].attempt - 1
                                [] OTHER                     -> worker'[w].attempt
            /\ accepted'[e] = IF worker'[w].at = "acknowledge" THEN lost'[e] + 1 ELSE lost'[e],
         worker'[w].at \in {"insert", "check"} => worker'[w].attempt = 1,
         ~Holds(w, e)' /\ ~Holds(w, e) =>
            /\ delivery'[e] = delivery[e]
            /\ requests'[e] = requests[e]
            /\ accepted'[e] = accepted[e]
            /\ lost'[e] = lost[e],
         exists /\ delivery'[e] = NoDelivery =>
            requests'[e] = 0 /\ accepted'[e] = 0 /\ lost'[e] = 0,
         ~exists => delivery'[e] = NoDelivery,
         requests'[e] <= MaxAttempts /\ accepted'[e] <= lost'[e] + 1,
         delivery'[e].status = "published" => accepted'[e] > lost'[e],
         delivery'[e].status = "failed_permanent" =>
            requests'[e] = MaxAttempts /\ accepted'[e] = lost'[e]
  PROVE  HistoryInv'
  <1>1. /\ \A v \in Dispatcher, f \in Event : v # w => (Holds(v, f)' <=> Holds(v, f))
        /\ \A f \in Event : f # e => ~Holds(w, f)' /\ ~Holds(w, f)
    BY DEF OnlyMine, Holds, Held, NoWork
  <1>2. \A v \in Dispatcher \ {w} : Holds(w, e) => ~Holds(v, e)
    BY DEF HistoryInv, SoleHolder
  <1>3. \A v \in Dispatcher \ {w} : Holds(w, e)' => ~Holds(v, e)'
    BY <1>1, <1>2 DEF Holds, Held, NoWork
  <1>4. SoleHolder'
    BY <1>1, <1>3 DEF HistoryInv, SoleHolder
  <1>5. \A v \in Dispatcher \ {w}, f \in Event :
            Holds(v, f)' => /\ worker'[v] = worker[v] /\ Holds(v, f) /\ exists' = exists
                            /\ delivery'[f] = delivery[f] /\ requests'[f] = requests[f]
                            /\ accepted'[f] = accepted[f] /\ lost'[f] = lost[f]
    BY <1>1, <1>2, <1>3 DEF OnlyMine
  <1>6. HeldIsOpen'
    BY <1>1, <1>5 DEF HistoryInv, HeldIsOpen, OnlyMine
  <1>7. HolderCounts'
    BY <1>1, <1>5 DEF HistoryInv, HolderCounts, OnlyMine
  <1>8. FirstAttempt' /\ NewIsUntouched' /\ DeletedIsEmpty'
    BY DEF HistoryInv, FirstAttempt, NewIsUntouched, DeletedIsEmpty, OnlyMine
  <1>9. NoNeedlessRepeat' /\ OutcomeIsTrue'
    BY DEF HistoryInv, NoNeedlessRepeat, OutcomeIsTrue, OnlyMine
  <1> QED
    BY <1>4, <1>6, <1>7, <1>8, <1>9 DEF HistoryInv
LEMMA OwnerHistory ==
  ASSUME TypeOK, HistoryInv,
         (\E on \in BOOLEAN : SetPreference(on)) \/ ChangeSubscription \/ DeleteProject
  PROVE  HistoryInv'
  <1>1. /\ UNCHANGED <<worker, requests, accepted, lost>>
        /\ exists' => exists
        /\ \/ delivery' = delivery /\ exists' = exists
           \/ ~exists' /\ delivery' = [e \in Event |-> NoDelivery]
    BY DEF SetPreference, ChangeSubscription, DeleteProject, publishVars
  <1>2. \A w \in Dispatcher, e \in Event : Holds(w, e)' <=> Holds(w, e)
    BY <1>1 DEF Holds
  <1>3. SoleHolder' /\ HeldIsOpen' /\ HolderCounts'
    BY <1>1, <1>2 DEF HistoryInv, SoleHolder, HeldIsOpen, HolderCounts
  <1>4. FirstAttempt' /\ NewIsUntouched' /\ DeletedIsEmpty'
    BY <1>1 DEF HistoryInv, FirstAttempt, NewIsUntouched, DeletedIsEmpty
  <1>5. NoNeedlessRepeat' /\ OutcomeIsTrue'
    BY <1>1 DEF HistoryInv, NoNeedlessRepeat, OutcomeIsTrue, NoDelivery
  <1> QED
    BY <1>3, <1>4, <1>5 DEF HistoryInv

LEMMA StepHistory ==
  ASSUME TypeOK, TypeOK', HistoryInv, [Next]_vars
  PROVE  HistoryInv'
  <1>1. CASE UNCHANGED vars
    BY <1>1
    DEF vars, settingVars, publishVars, HistoryInv, SoleHolder, HeldIsOpen, HolderCounts,
        FirstAttempt, NewIsUntouched, DeletedIsEmpty, NoNeedlessRepeat, OutcomeIsTrue, Holds
  <1>2. ASSUME NEW w \in Dispatcher, NEW e \in Event, Dispatch(w, e)
        PROVE  HistoryInv'
    <2>1. \A v \in Dispatcher, f \in Event :
              /\ Holds(v, f)' <=> Holds(v, f)
              /\ Holds(v, f) => worker'[v] = worker[v]
      BY <1>2 DEF Dispatch, Holds, Held, NoWork, TypeOK
    <2>2. UNCHANGED <<exists, delivery, requests, accepted, lost>>
      BY <1>2 DEF Dispatch, settingVars, publishVars
    <2>3. FirstAttempt'
      BY <1>2 DEF Dispatch, HistoryInv, FirstAttempt, TypeOK
    <2> QED
      BY <2>1, <2>2, <2>3
      DEF HistoryInv, SoleHolder, HeldIsOpen, HolderCounts, NewIsUntouched, DeletedIsEmpty,
          NoNeedlessRepeat, OutcomeIsTrue
  <1>3. ASSUME NEW w \in Dispatcher, DispatchStep(w) \/ Crash(w)
        PROVE  HistoryInv'
    <2> DEFINE e == worker[w].event
    <2>1. worker[w].at # "idle"
      BY <1>3
      DEF DispatchStep, Insert, Check, Publish, Acknowledge, RecordFailure, Crash, NoWork,
          TypeOK, Work
    <2>2. /\ e \in Event /\ worker[w].attempt \in 1 .. MaxAttempts
          /\ worker[w] \in Work
          /\ worker[w].at \in {"insert", "check"} => worker[w].attempt = 1
      BY <2>1, WorkFacts DEF HistoryInv, FirstAttempt
    <2>3. OnlyMine(w, e) /\ (worker'[w].event = e \/ worker'[w] = NoWork)
      <3>1. exists' = exists
        BY <1>3
        DEF DispatchStep, Insert, Check, Publish, Acknowledge, RecordFailure, Crash, settingVars
      <3>2. /\ \A v \in Dispatcher \ {w} : worker'[v] = worker[v]
            /\ worker'[w].event = e \/ worker'[w] = NoWork
        BY <1>3, <2>2
        DEF DispatchStep, Insert, Check, Publish, Acknowledge, RecordFailure, Crash,
            Goto, Rest, NextAttempt, TypeOK, Work
      <3>3. \A f \in Event \ {e} : delivery'[f] = delivery[f]
        BY <1>3, <2>2
        DEF DispatchStep, Insert, Check, Publish, Acknowledge, RecordFailure, Crash,
            Write, WriteFails, TypeOK
      <3>4. \A f \in Event \ {e} : /\ requests'[f] = requests[f]
                                   /\ accepted'[f] = accepted[f]
                                   /\ lost'[f] = lost[f]
        BY <1>3, <2>2
        DEF DispatchStep, Insert, Check, Publish, Acknowledge, RecordFailure, Crash,
            publishVars, TypeOK
      <3> QED
        BY <3>1, <3>2, <3>3, <3>4 DEF OnlyMine
    <2>4. /\ NoNeedlessRepeat /\ OutcomeIsTrue /\ DeletedIsEmpty /\ NewIsUntouched
          /\ Holds(w, e) => /\ exists => delivery[e].status \in {"pending", "retrying"}
                            /\ requests[e] = CASE worker[w].at = "check"   -> 0
                                               [] worker[w].at = "publish" -> worker[w].attempt - 1
                                               [] OTHER                    -> worker[w].attempt
                            /\ accepted[e] = IF worker[w].at = "acknowledge" THEN lost[e] + 1
                                             ELSE lost[e]
      BY <2>2 DEF HistoryInv, HeldIsOpen, HolderCounts
    <2>5. /\ requests[e] \in Nat /\ accepted[e] \in Nat /\ lost[e] \in Nat
          /\ NoDelivery.status = "absent"
      BY <2>2 DEF TypeOK, NoDelivery
    <2>6. CASE Insert(w)
      <3>1. /\ worker[w].at = "insert" /\ ~Holds(w, e)
            /\ requests' = requests /\ accepted' = accepted /\ lost' = lost
        BY <2>6 DEF Insert, Holds, Held, publishVars
      <3>2. CASE NewKey(e) /\ Write(w, "pending", 0) /\ Goto(w, "check")
        <4>1. \A v \in Dispatcher : ~Holds(v, e)
          BY <2>2, <2>5, <3>2 DEF HistoryInv, HeldIsOpen, NewKey, Write
        <4>2. /\ delivery'[e] = [status |-> "pending", attempts |-> 0]
              /\ worker'[w].at = "check" /\ worker'[w].event = e /\ exists
              /\ worker'[w].attempt = 1
          BY <2>2, <3>1, <3>2 DEF Write, Goto, TypeOK, Work
        <4>3. requests[e] = 0 /\ accepted[e] = 0 /\ lost[e] = 0
          BY <2>2, <2>4, <3>2, <4>2 DEF NewKey, NewIsUntouched
        <4>4. delivery'[e] # NoDelivery
          BY <4>2, <2>5
        <4> QED
          BY <2>2, <2>3, <3>1, <4>1, <4>2, <4>3, <4>4, Local DEF MaxAttempts, Holds, Held
      <3>3. CASE Rest(w) /\ delivery' = delivery
        BY <2>2, <2>3, <2>4, <2>5, <3>1, <3>3, Local
        DEF Rest, Holds, Held, NoWork, TypeOK,
            NoNeedlessRepeat, OutcomeIsTrue, DeletedIsEmpty, NewIsUntouched
      <3> QED
        BY <2>6, <3>2, <3>3 DEF Insert, WriteFails
    <2>7. CASE Check(w)
      <3>1. /\ worker[w].at = "check" /\ Holds(w, e)
            /\ requests' = requests /\ accepted' = accepted /\ lost' = lost
            /\ requests[e] = 0 /\ accepted[e] = lost[e]
        BY <2>4, <2>7 DEF Check, Holds, Held, publishVars
      <3>2. CASE Goto(w, "publish") /\ delivery' = delivery
        <4>1. /\ worker'[w].at = "publish" /\ worker'[w].attempt = worker[w].attempt
                /\ worker'[w].event = e
          BY <2>2, <3>2 DEF Goto, TypeOK, Work
        <4> QED
          BY <2>2, <2>3, <2>4, <2>5, <3>1, <3>2, <4>1, Local
          DEF Holds, Held, TypeOK,
              NoNeedlessRepeat, OutcomeIsTrue, DeletedIsEmpty, NewIsUntouched
      <3>3. CASE Rest(w) /\ (Write(w, "skipped_unconfirmed", 0) \/ delivery' = delivery)
        BY <2>2, <2>3, <2>4, <2>5, <3>1, <3>3, Local
        DEF Rest, Write, Holds, Held, NoWork, TypeOK,
            NoNeedlessRepeat, OutcomeIsTrue, DeletedIsEmpty, NewIsUntouched
      <3> QED
        BY <2>7, <3>2, <3>3 DEF Check, WriteFails
    <2>8. CASE Publish(w)
      BY <2>2, <2>3, <2>4, <2>5, <2>8, Local
      DEF Publish, Goto, Holds, Held, NoWork, NewKey, TypeOK, Work, NoNeedlessRepeat, OutcomeIsTrue,
          DeletedIsEmpty, NewIsUntouched, MaxAttempts
    <2>9. CASE Acknowledge(w)
      BY <2>2, <2>3, <2>4, <2>5, <2>9, Local
      DEF Acknowledge, Write, WriteFails, Goto, Rest, Holds, Held, NoWork, NewKey, TypeOK, Work, NoNeedlessRepeat, OutcomeIsTrue,
          DeletedIsEmpty, NewIsUntouched, MaxAttempts
    <2>10. CASE RecordFailure(w)
      BY <2>2, <2>3, <2>4, <2>5, <2>10, Local
      DEF RecordFailure, Write, WriteFails, NextAttempt, GivesUp, Rest, publishVars, Holds, Held, NoWork, NewKey, TypeOK, Work, NoNeedlessRepeat, OutcomeIsTrue,
          DeletedIsEmpty, NewIsUntouched, MaxAttempts
    <2>11. CASE Crash(w)
      BY <2>2, <2>3, <2>4, <2>5, <2>11, Local
      DEF Crash, Rest, publishVars, Holds, Held, NoWork, NewKey, TypeOK, Work, NoNeedlessRepeat, OutcomeIsTrue,
          DeletedIsEmpty, NewIsUntouched, MaxAttempts
    <2> QED
      BY <1>3, <2>6, <2>7, <2>8, <2>9, <2>10, <2>11 DEF DispatchStep
  <1> QED
    BY <1>1, <1>2, <1>3, OwnerHistory DEF Next
(* The delivery history and the dispatchers are well typed, for every      *)
(* behaviour of dispatch (notification-dispatcher.service.ts).             *)
THEOREM DeliveryTypes == Spec => []TypeOK
  <1>1. Init => TypeOK
    BY InitHistory
  <1>2. TypeOK /\ [Next]_vars => TypeOK'
    BY StepTypes
  <1> QED
    BY <1>1, <1>2, PTL DEF Spec

LEMMA Histories == Spec => []HistoryInv
  <1>1. Init => HistoryInv
    BY InitHistory
  <1>2. TypeOK /\ TypeOK' /\ HistoryInv /\ [Next]_vars => HistoryInv'
    BY StepHistory
  <1> QED
    BY <1>1, <1>2, DeliveryTypes, PTL DEF Spec

(* No event is published more than three times, or accepted twice without  *)
(* a lost answer or a lost record, however many dispatchers take it up.    *)
THEOREM RepeatsAreExplained == Spec => []NoNeedlessRepeat
  <1>1. HistoryInv => NoNeedlessRepeat
    BY DEF HistoryInv
  <1> QED
    BY <1>1, Histories, PTL

(* What the history says of an ended delivery is what happened at SNS.     *)
THEOREM HistoryIsHonest == Spec => []OutcomeIsTrue
  <1>1. HistoryInv => OutcomeIsTrue
    BY DEF HistoryInv
  <1> QED
    BY <1>1, Histories, PTL
=============================================================================
