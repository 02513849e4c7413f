------------------------ MODULE SubscriptionsProofs ------------------------
(***************************************************************************)
(* The owner's subscriptions: who has confirmed, which one is current, and *)
(* what is left of them at SNS when the project is gone, for any number of *)
(* destinations and calls.                                                 *)
(***************************************************************************)
EXTENDS Subscriptions, TLAPS

LEMMA CallFacts ==
  ASSUME TypeOK, NEW c \in Client, Busy(c)
  PROVE  /\ call[c] \in Call
         /\ call[c].old \in Dest /\ call[c].dest \in Dest
         /\ call[c].copy \in Row /\ call[c].fresh \in BOOLEAN
  BY DEF TypeOK, Busy, Call

LEMMA RowFacts ==
  /\ NoRow \in Row /\ NoRow.status = "absent" /\ ~NoRow.topic
  /\ \A r \in Row : /\ r.status \in Status
                    /\ r.arn \in {"none", "literal", "real"}
                    /\ r.topic \in BOOLEAN
  BY DEF NoRow, Row, Status

LEMMA WithStatus ==
  ASSUME NEW r \in Row, NEW s \in Status
  PROVE  /\ [r EXCEPT !.status = s] \in Row
         /\ [r EXCEPT !.status = s].status = s
         /\ [r EXCEPT !.status = s].topic = r.topic
  BY DEF Row

LEMMA WithTopic ==
  ASSUME NEW t \in BOOLEAN
  PROVE  /\ [NoRow EXCEPT !.topic = t] \in Row
         /\ [NoRow EXCEPT !.topic = t].topic = t
         /\ [NoRow EXCEPT !.topic = t].status = "absent"
  BY DEF NoRow, Row, Status

(* What calls make of the rows they read.                                  *)
LEMMA CopyFacts ==
  ASSUME NEW copy \in Row
  PROVE  /\ Errored(copy) \in Row /\ Errored(copy).status = "error"
         /\ Errored(copy).topic = copy.topic
         /\ Cleared(copy) \in Row /\ Cleared(copy).status = "not_configured"
         /\ Cleared(copy).topic = copy.topic
         /\ Subscribed(copy) \in Row /\ Subscribed(copy).topic
         /\ Subscribed(copy).status = "pending_confirmation"
         /\ \A f \in {"confirmed", "pending_confirmation"} :
               /\ AsFound(copy, f) \in Row
               /\ AsFound(copy, f).status = f
               /\ AsFound(copy, f).topic = copy.topic
  <1>1. Errored(copy) \in Row /\ Errored(copy).status = "error" /\ Errored(copy).topic = copy.topic
    BY WithStatus DEF Errored, Status
  <1>2. /\ Cleared(copy) \in Row /\ Cleared(copy).status = "not_configured"
        /\ Cleared(copy).topic = copy.topic
    BY DEF Cleared, Row, Status
  <1>3. /\ Subscribed(copy) \in Row /\ Subscribed(copy).topic
        /\ Subscribed(copy).status = "pending_confirmation"
    BY DEF Subscribed, Row, Status
  <1>4. ASSUME NEW f \in {"confirmed", "pending_confirmation"}
        PROVE  /\ AsFound(copy, f) \in Row
               /\ AsFound(copy, f).status = f
               /\ AsFound(copy, f).topic = copy.topic
    BY DEF AsFound, Row, Status
  <1> QED
    BY <1>1, <1>2, <1>3, <1>4

LEMMA FoundFacts ==
  ASSUME NEW d \in Dest, NEW mine \in Row
  PROVE  /\ Found(d, mine) \in {"nothing", "confirmed", "pending_confirmation"}
         /\ Found(d, mine) = "confirmed" => mine.topic /\ member[d] = "confirmed"
         /\ Found(d, mine) = "pending_confirmation" => mine.topic
  <1>1. CASE ~mine.topic
    BY <1>1 DEF Found
  <1>2. CASE mine.topic /\ member[d] = "confirmed"
    BY <1>2 DEF Found
  <1>3. CASE mine.topic /\ member[d] # "confirmed"
    BY <1>3 DEF Found
  <1> QED
    BY <1>1, <1>2, <1>3

LEMMA MineFacts ==
  ASSUME TypeOK, NEW c \in Client, Busy(c)
  PROVE  Mine(c) \in Row
  <1>1. row[call[c].dest] \in Row /\ call[c].copy \in Row
    BY CallFacts DEF TypeOK
  <1> QED
    BY <1>1, RowFacts, WithTopic DEF Mine

LEMMA OutcomeFacts ==
  ASSUME TypeOK, NEW c \in Client, Busy(c)
  PROVE  /\ Outcome(c) \in Row
         /\ Outcome(c).topic = call[c].copy.topic
         /\ Outcome(c).status \in Listed =>
               Outcome(c) = call[c].copy /\ call[c].op # "unsubscribe"
  <1>1. call[c].copy \in Row
    BY CallFacts
  <1>2. CASE call[c].op = "unsubscribe"
    <2>1. /\ Outcome(c) = [call[c].copy EXCEPT !.status = "unsubscribed"]
          /\ "unsubscribed" \in Status \ Listed
      BY <1>2 DEF Outcome, Status, Listed
    <2> QED
      BY <1>1, <2>1, WithStatus
  <1>3. CASE call[c].op # "unsubscribe"
    BY <1>1, <1>3 DEF Outcome
  <1> QED
    BY <1>2, <1>3

-----------------------------------------------------------------------------
(***************************************************************************)
(* Type correctness.                                                       *)
(***************************************************************************)
CallsTyped == call' \in [Client -> Call \cup {NoCall}]

LEMMA CallSteps ==
  ASSUME TypeOK, NEW c \in Client, Busy(c)
  PROVE  /\ Finish(c) => CallsTyped
         /\ \A at \in {"ask", "replace", "find", "recreate", "create", "save"} :
               /\ Goto(c, at) => CallsTyped
               /\ \A copy \in Row : /\ Hold(c, at, copy) => CallsTyped
                                    /\ Read(c, at, copy) => CallsTyped
  <1>1. call[c] \in Call /\ call \in [Client -> Call \cup {NoCall}]
    BY CallFacts DEF TypeOK
  <1>2. Finish(c) => CallsTyped
    BY <1>1 DEF Finish, CallsTyped
  <1>3. ASSUME NEW at \in {"ask", "replace", "find", "recreate", "create", "save"}
        PROVE  /\ Goto(c, at) => CallsTyped
               /\ \A copy \in Row : /\ Hold(c, at, copy) => CallsTyped
                                    /\ Read(c, at, copy) => CallsTyped
    <2>1. Goto(c, at) => CallsTyped
      BY <1>1 DEF Goto, CallsTyped, Call
    <2>2. ASSUME NEW copy \in Row, Hold(c, at, copy)
          PROVE  CallsTyped
      <3>1. [call[c] EXCEPT !.at = at, !.copy = copy] \in Call
        BY <1>1 DEF Call
      <3> QED
        BY <1>1, <2>2, <3>1 DEF Hold, CallsTyped
    <2>3. ASSUME NEW copy \in Row, Read(c, at, copy)
          PROVE  CallsTyped
      <3>1. PICK fresh \in BOOLEAN :
              call' = [call EXCEPT ![c].at = at, ![c].copy = copy, ![c].fresh = fresh]
        BY <2>3 DEF Read
      <3>2. [call[c] EXCEPT !.at = at, !.copy = copy, !.fresh = fresh] \in Call
        BY <1>1 DEF Call
      <3> QED
        BY <1>1, <3>1, <3>2 DEF CallsTyped
    <2> QED
      BY <2>1, <2>2, <2>3
  <1> QED
    BY <1>2, <1>3

LEMMA SaveSteps ==
  ASSUME TypeOK, NEW c \in Client, NEW d \in Dest, NEW new \in Row, NEW fresh \in BOOLEAN
  PROVE  /\ Save(c, d, new, fresh) =>
               /\ row' \in [Dest -> Row] /\ latest' \in Dest \cup {NoDest}
               /\ upset' = upset
         /\ SaveRefused(c, d, fresh) =>
               /\ row' = row /\ latest' = latest /\ upset' = TRUE /\ Finish(c)
  BY DEF Save, SaveRefused, Abandon, Updated, TypeOK

LEMMA SubscriptionInit == Init => TypeOK
  <1> SUFFICES ASSUME Init PROVE TypeOK
    OBVIOUS
  <1>1. made \in 0 .. MaxCall
    BY SubscriptionsAssumption DEF Init
  <1>2. row \in [Dest -> Row] /\ call \in [Client -> Call \cup {NoCall}]
    BY RowFacts DEF Init
  <1> QED
    BY <1>1, <1>2 DEF Init, TypeOK

LEMMA StartTypes ==
  ASSUME TypeOK, NEW c \in Client,
         NEW op \in {"subscribe", "resend", "refresh", "unsubscribe"},
         NEW at \in {"ask", "replace", "find", "recreate", "create", "save"},
         NEW old \in Dest, NEW dest \in Dest, Start(c, op, at, old, dest, row[old])
  PROVE  TypeOK'
  <1>1. [op |-> op, at |-> at, old |-> old, dest |-> dest, copy |-> row[old], fresh |-> FALSE]
          \in Call
    BY DEF TypeOK, Call
  <1>2. call' \in [Client -> Call \cup {NoCall}]
    BY <1>1 DEF Start, TypeOK
  <1>3. made' \in 0 .. MaxCall
    BY SubscriptionsAssumption DEF Start, TypeOK
  <1> QED
    BY <1>2, <1>3 DEF Start, TypeOK, snsVars

LEMMA OwnerTypes ==
  ASSUME TypeOK, NEW c \in Client, OwnerStep(c) \/ CrashCall(c)
  PROVE  TypeOK'
  <1>1. Busy(c)
    BY DEF OwnerStep, Ask, Replace, Find, Recreate, Create, SaveOutcome, CrashCall, At
  <1>2. /\ call[c].old \in Dest /\ call[c].dest \in Dest
        /\ call[c].copy \in Row /\ call[c].fresh \in BOOLEAN
    BY <1>1, CallFacts
  <1> USE DEF TypeOK, CallsTyped
  <1>3. CASE Ask(c)
    BY <1>1, <1>2, <1>3, CallSteps DEF Ask, Abandon
  <1>4. CASE Replace(c)
    <2>1. [call[c].copy EXCEPT !.status = "replaced"] \in Row
      BY <1>2, WithStatus DEF Status
    <2> QED
      BY <1>1, <1>2, <1>4, <2>1, CallSteps, SaveSteps DEF Replace, snsVars
  <1>5. CASE Find(c)
    <2>1. /\ Mine(c) \in Row
          /\ Found(call[c].dest, Mine(c)) \in {"nothing", "confirmed", "pending_confirmation"}
      BY <1>1, <1>2, MineFacts, FoundFacts
    <2>2. /\ Errored(Mine(c)) \in Row /\ Cleared(Mine(c)) \in Row
          /\ Found(call[c].dest, Mine(c)) # "nothing" =>
                AsFound(Mine(c), Found(call[c].dest, Mine(c))) \in Row
      BY <2>1, CopyFacts
    <2>3. call' \in [Client -> Call \cup {NoCall}]
      BY <1>1, <1>5, <2>1, <2>2, CallSteps DEF Find
    <2> QED
      BY <1>5, <2>3 DEF Find, snsVars, historyVars
  <1>6. CASE Recreate(c)
    <2>1. Errored(call[c].copy) \in Row /\ call[c].copy.topic \in BOOLEAN
      BY <1>2, CopyFacts, RowFacts
    <2>2. call' \in [Client -> Call \cup {NoCall}]
      BY <1>1, <1>6, <2>1, CallSteps DEF Recreate
    <2>3. topic' \in BOOLEAN
      BY <1>6, <2>1 DEF Recreate
    <2> QED
      BY <1>6, <2>2, <2>3 DEF Recreate, historyVars
  <1>7. CASE Create(c)
    <2>1. Errored(call[c].copy) \in Row /\ Subscribed(call[c].copy) \in Row
      BY <1>2, CopyFacts
    <2>2. call' \in [Client -> Call \cup {NoCall}]
      BY <1>1, <1>7, <2>1, CallSteps DEF Create
    <2> QED
      BY <1>2, <1>7, <2>2 DEF Create, Invite
  <1>8. CASE SaveOutcome(c)
    <2>1. Outcome(c) \in Row
      BY <1>1, OutcomeFacts
    <2>2. /\ Finish(c) /\ upset' \in BOOLEAN
          /\ row' \in [Dest -> Row] /\ latest' \in Dest \cup {NoDest}
      <3>1. CASE Save(c, call[c].dest, Outcome(c), call[c].fresh) /\ Finish(c)
        <4>1. /\ row' \in [Dest -> Row] /\ latest' \in Dest \cup {NoDest}
              /\ upset' = upset
          BY <1>2, <2>1, <3>1, SaveSteps
        <4> QED
          BY <3>1, <4>1
      <3>2. CASE SaveRefused(c, call[c].dest, call[c].fresh)
        <4>1. row' = row /\ latest' = latest /\ upset' = TRUE /\ Finish(c)
          BY <1>2, <2>1, <3>2, SaveSteps
        <4> QED
          BY <4>1
      <3> QED
        BY <1>8, <3>1, <3>2 DEF SaveOutcome
    <2>3. call' \in [Client -> Call \cup {NoCall}]
      BY <1>1, <2>2, CallSteps
    <2>4. UNCHANGED <<made, sending, deletion, topic, member, agreed, loose, overlapped>>
      BY <1>8 DEF SaveOutcome, snsVars
    <2> QED
      BY <2>2, <2>3, <2>4
  <1>9. CASE CrashCall(c)
    BY <1>1, <1>9, CallSteps DEF CrashCall, Abandon, snsVars
  <1> QED
    BY <1>3, <1>4, <1>5, <1>6, <1>7, <1>8, <1>9 DEF OwnerStep

LEMMA SubscriptionSteps == ASSUME TypeOK, [Next]_vars PROVE TypeOK'
  <1>1. CASE UNCHANGED vars
    BY <1>1 DEF vars, ownerVars, snsVars, historyVars, TypeOK
  <1>2. ASSUME NEW c \in Client, NEW d \in Dest, Subscribe(c, d)
        PROVE  TypeOK'
    <2>1. CASE KeepsDestination(d)
      BY <1>2, <2>1, StartTypes DEF Subscribe
    <2>2. CASE ~KeepsDestination(d)
      <3>1. latest \in Dest
        BY <2>2 DEF KeepsDestination, TypeOK
      <3> QED
        BY <1>2, <2>2, <3>1, StartTypes DEF Subscribe
    <2> QED
      BY <2>1, <2>2
  <1>3. ASSUME NEW c \in Client, CallOnLatest(c)
        PROVE  TypeOK'
    <2>1. latest \in Dest
      BY <1>3 DEF CallOnLatest, TypeOK
    <2> QED
      BY <1>3, <2>1, StartTypes DEF CallOnLatest
  <1>4. CASE BeginSending \/ Publish \/ EndSending
    BY <1>4 DEF BeginSending, Publish, EndSending, ownerVars, snsVars, historyVars, TypeOK
  <1>5. ASSUME NEW d \in Dest, Confirm(d) \/ OptOut(d)
        PROVE  TypeOK'
    BY <1>5 DEF Confirm, OptOut, ownerVars, historyVars, TypeOK
  <1>6. CASE CleanUp
    BY <1>6 DEF CleanUp, ownerVars, TypeOK
  <1>7. CASE CleanUpFails
    BY <1>7 DEF CleanUpFails, ownerVars, TypeOK
  <1>8. CASE DeleteProject
    <2>1. row' \in [Dest -> Row]
      BY <1>8, RowFacts DEF DeleteProject
    <2> QED
      BY <1>8, <2>1 DEF DeleteProject, snsVars, historyVars, TypeOK
  <1> QED
    BY <1>1, <1>2, <1>3, <1>4, <1>5, <1>6, <1>7, <1>8, OwnerTypes DEF Next, Owner

(* The rows, the calls and SNS are well typed.                             *)
THEOREM SubscriptionTypes == Spec => []TypeOK
  BY SubscriptionInit, SubscriptionSteps, PTL DEF Spec

-----------------------------------------------------------------------------
(***************************************************************************)
(* Who is confirmed, in the rows, in what calls are about to save, and at  *)
(* SNS.                                                                    *)
(***************************************************************************)
MembersAgreed == \A d \in Dest : member[d] = "confirmed" => d \in agreed

SavesConfirmed(c) ==
    At(c, "save") /\ call[c].op # "unsubscribe" /\ call[c].copy.status = "confirmed"

SavesAgreed ==
    \A c \in Client : SavesConfirmed(c) => call[c].dest \in agreed /\ call[c].copy.topic

ConfirmedHasTopic == \A d \in Dest : row[d].status = "confirmed" => row[d].topic

LeaversOp ==
    \A c \in Client : /\ At(c, "ask") => call[c].op \in {"subscribe", "unsubscribe"}
                      /\ At(c, "replace") => call[c].op = "subscribe"

AgreementInv ==
    MembersAgreed /\ LeaversOp /\ SavesAgreed /\ ConfirmedByRecipient /\ ConfirmedHasTopic

(***************************************************************************)
(* While nothing overlaps.  The subject of a call is the destination whose *)
(* row it would save next.                                                 *)
(***************************************************************************)
Leaving(c) == call[c].at \in {"ask", "replace"}
Subject(c) == IF Leaving(c) THEN call[c].old ELSE call[c].dest
Looking(c) == call[c].op = "subscribe" /\ call[c].at = "find"

Alone == \A c, e \in Client : Busy(c) /\ Busy(e) => c = e

IdleInDeletion == deletion # "none" => \A c \in Client : ~Busy(c)

OnlySubjectListed ==
    \A c \in Client : Busy(c) =>
        /\ Leaving(c) \/ call[c].op # "subscribe" => latest = Subject(c)
        /\ call[c].op # "subscribe" => call[c].old = call[c].dest
        /\ \A d \in Dest \ {Subject(c)} : row[d].status \notin Listed

OnlyLatestListed == \A d \in Dest : row[d].status \in Listed => latest = d

CopiesKeepTopic ==
    \A c \in Client : Busy(c) /\ ~Looking(c) => (row[Subject(c)].topic => call[c].copy.topic)

SendersHaveTopic == sending /\ deletion # "deleted" => HasTopic

CalmInv ==
    ~overlapped => /\ Alone /\ IdleInDeletion
                   /\ OnlySubjectListed /\ OnlyLatestListed
                   /\ CopiesKeepTopic /\ SendersHaveTopic

TopicKnown == topic => HasTopic \/ \E c \in Client : At(c, "save") /\ call[c].copy.topic

TopicInv ==
    ~overlapped /\ ~upset => IF deletion = "none" THEN TopicKnown ELSE ~topic

-----------------------------------------------------------------------------
(***************************************************************************)
(* What each step does to the call that takes it.                          *)
(***************************************************************************)
Others(c) == \A e \in Client \ {c} : call'[e] = call[e]

(* The call goes on at one of these steps with this copy.                  *)
Goes(c, ats, copy) ==
    /\ call'[c] # NoCall
    /\ call'[c].at \in ats
    /\ call'[c].copy = copy
    /\ call'[c].op = call[c].op
    /\ call'[c].old = call[c].old
    /\ call'[c].dest = call[c].dest

LEMMA CallMoves ==
  ASSUME TypeOK, NEW c \in Client, Busy(c)
  PROVE  /\ Finish(c) => call'[c] = NoCall /\ Others(c)
         /\ \A at : Goto(c, at) => Goes(c, {at}, call[c].copy) /\ Others(c)
         /\ \A at, copy : Hold(c, at, copy) => Goes(c, {at}, copy) /\ Others(c)
         /\ \A at, copy : Read(c, at, copy) => Goes(c, {at}, copy) /\ Others(c)
  <1>1. /\ call \in [Client -> Call \cup {NoCall}] /\ call[c] \in Call
        /\ NoCall = [op |-> "none"]
    BY CallFacts DEF TypeOK, NoCall
  <1>2. \A r \in Call : r.op # "none"
    BY DEF Call
  <1>3. Finish(c) => call'[c] = NoCall /\ Others(c)
    BY <1>1 DEF Finish, Others
  <1>4. ASSUME NEW at, Goto(c, at)
        PROVE  Goes(c, {at}, call[c].copy) /\ Others(c)
    <2>1. call'[c] = [call[c] EXCEPT !.at = at] /\ Others(c)
      BY <1>1, <1>4 DEF Goto, Others
    <2> QED
      BY <1>1, <1>2, <2>1 DEF Goes, Call
  <1>5. ASSUME NEW at, NEW copy, Hold(c, at, copy)
        PROVE  Goes(c, {at}, copy) /\ Others(c)
    <2>1. call'[c] = [call[c] EXCEPT !.at = at, !.copy = copy] /\ Others(c)
      BY <1>1, <1>5 DEF Hold, Others
    <2> QED
      BY <1>1, <1>2, <2>1 DEF Goes, Call
  <1>6. ASSUME NEW at, NEW copy, Read(c, at, copy)
        PROVE  Goes(c, {at}, copy) /\ Others(c)
    <2>1. PICK fresh : call'[c] = [call[c] EXCEPT !.at = at, !.copy = copy, !.fresh = fresh]
                       /\ Others(c)
      BY <1>1, <1>6 DEF Read, Others
    <2> QED
      BY <1>1, <1>2, <2>1 DEF Goes, Call
  <1> QED
    BY <1>3, <1>4, <1>5, <1>6

Starting(c) == CallOnLatest(c) \/ \E d \in Dest : Subscribe(c, d)

LEMMA StartMoves ==
  ASSUME TypeOK, NEW c \in Client, Starting(c)
  PROVE  /\ Others(c) /\ ~Busy(c) /\ call'[c] # NoCall
         /\ UNCHANGED <<row, latest, sending, deletion, topic, member, agreed, upset>>
         /\ overlapped' = (overlapped \/ deletion # "none" \/ \E d \in Client : Busy(d))
         /\ call'[c].copy = row[call'[c].old]
         /\ call'[c].old \in Dest /\ call'[c].dest \in Dest
         /\ IF call'[c].op = "subscribe"
            THEN \/ call'[c].at = "ask" /\ call'[c].old = latest
                 \/ call'[c].at = "find" /\ latest \in {NoDest, call'[c].dest}
            ELSE /\ call'[c].at \in {"ask", "find", "recreate"}
                 /\ call'[c].at = "ask" => call'[c].op = "unsubscribe"
                 /\ call'[c].old = latest /\ call'[c].dest = latest
  <1>1. ASSUME NEW op, NEW at, NEW old, NEW dest, NEW copy, Start(c, op, at, old, dest, copy),
               op # "none"
        PROVE  /\ Others(c) /\ ~Busy(c) /\ call'[c] # NoCall
               /\ UNCHANGED <<row, latest, sending, deletion, topic, member, agreed, upset>>
               /\ overlapped' = (overlapped \/ deletion # "none" \/ \E d \in Client : Busy(d))
               /\ call'[c].op = op /\ call'[c].at = at
               /\ call'[c].old = old /\ call'[c].dest = dest /\ call'[c].copy = copy
    <2>1. /\ call'[c] = [op |-> op, at |-> at, old |-> old, dest |-> dest, copy |-> copy,
                         fresh |-> FALSE]
          /\ Others(c)
      BY <1>1 DEF Start, TypeOK, Others
    <2> QED
      BY <1>1, <2>1 DEF Start, NoCall, snsVars
  <1>2. ASSUME NEW d \in Dest, Subscribe(c, d)
        PROVE  /\ \/ Start(c, "subscribe", "find", d, d, row[d]) /\ latest \in {NoDest, d}
                  \/ Start(c, "subscribe", "ask", latest, d, row[latest]) /\ latest \in Dest
    BY <1>2 DEF Subscribe, KeepsDestination, TypeOK
  <1>3. CASE \E d \in Dest : Subscribe(c, d)
    BY <1>1, <1>2, <1>3
  <1>4. CASE CallOnLatest(c)
    <2>1. latest \in Dest
      BY <1>4 DEF CallOnLatest, TypeOK
    <2>2. \E op \in {"resend", "refresh", "unsubscribe"}, at \in {"ask", "find", "recreate"} :
              /\ Start(c, op, at, latest, latest, row[latest])
              /\ at = "ask" => op = "unsubscribe"
      BY <1>4 DEF CallOnLatest
    <2> QED
      BY <1>1, <2>1, <2>2
  <1> QED
    BY <1>3, <1>4 DEF Starting
(***************************************************************************)
(* The steps of a call that got past its start, and what they save.        *)
(***************************************************************************)
LEMMA OwnerMoves ==
  ASSUME TypeOK, NEW c \in Client, OwnerStep(c) \/ CrashCall(c)
  PROVE  /\ Busy(c) /\ call[c] \in Call
         /\ Others(c)
         /\ UNCHANGED <<overlapped, deletion, sending, agreed>>
         /\ upset => upset'
         /\ \A d \in Dest : member'[d] = "confirmed" => member[d] = "confirmed"
  <1>1. Busy(c)
    BY DEF OwnerStep, Ask, Replace, Find, Recreate, Create, SaveOutcome, CrashCall, At
  <1>2. call[c] \in Call
    BY <1>1, CallFacts
  <1>3. /\ UNCHANGED <<overlapped, deletion, sending, agreed>>
        /\ upset => upset'
    <2>1. CASE Ask(c) \/ CrashCall(c)
      BY <2>1 DEF Ask, CrashCall, Abandon, snsVars, historyVars
    <2>2. CASE Replace(c) \/ SaveOutcome(c)
      BY <2>2 DEF Replace, SaveOutcome, Save, SaveRefused, Abandon, snsVars
    <2>3. CASE Find(c) \/ Recreate(c)
      <3>1. CASE Find(c)
        <4>1. UNCHANGED <<made, row, latest, sending, deletion, snsVars, historyVars>>
          BY <3>1 DEF Find
        <4> QED
          BY <4>1 DEF snsVars, historyVars
      <3>2. CASE Recreate(c)
        BY <3>2 DEF Recreate, historyVars
      <3> QED
        BY <2>3, <3>1, <3>2
    <2>4. CASE Create(c)
      <3>1. UNCHANGED <<overlapped, deletion, sending, agreed>>
        BY <2>4 DEF Create
      <3>2. upset' = upset \/ upset' = TRUE
        BY <2>4 DEF Create
      <3> QED
        BY <3>1, <3>2
    <2> QED
      BY <2>1, <2>2, <2>3, <2>4 DEF OwnerStep
  <1>4. Others(c)
    BY <1>1, CallMoves
    DEF OwnerStep, Ask, Replace, Find, Recreate, Create, SaveOutcome, CrashCall, Abandon,
        SaveRefused
  <1>5. \A d \in Dest : member'[d] = "confirmed" => member[d] = "confirmed"
    BY <1>1, CallFacts
    DEF OwnerStep, Ask, Replace, Find, Recreate, Create, SaveOutcome, CrashCall, Invite,
        TypeOK, snsVars
  <1> QED
    BY <1>1, <1>2, <1>3, <1>4, <1>5

LEMMA SavedRow ==
  ASSUME TypeOK, NEW c \in Client, NEW d \in Dest, NEW new, NEW fresh, Save(c, d, new, fresh)
  PROVE  /\ row'[d] = new
         /\ \A e \in Dest \ {d} : row'[e] = row[e]
         /\ UNCHANGED upset
         /\ latest' \in {d, latest}
         /\ latest' = latest => row'[d] = row[d] \/ new.status = "error" \/ latest = d
  BY DEF Save, Updated, TypeOK

(* A call saves the row of its subject, as left, or as its last copy.      *)
LEMMA ReplaceMoves ==
  ASSUME TypeOK, NEW c \in Client, Replace(c)
  PROVE  /\ UNCHANGED <<topic, member>>
         /\ \/ /\ Save(c, call[c].old, [call[c].copy EXCEPT !.status = "replaced"], FALSE)
               /\ Goes(c, {"find"}, call[c].copy)
            \/ UNCHANGED <<row, latest>> /\ call'[c] = NoCall /\ upset'
  BY CallMoves DEF Replace, At, SaveRefused, Abandon, snsVars

LEMMA SaveMoves ==
  ASSUME TypeOK, NEW c \in Client, SaveOutcome(c)
  PROVE  /\ UNCHANGED <<topic, member>>
         /\ call'[c] = NoCall
         /\ \/ Save(c, call[c].dest, Outcome(c), call[c].fresh)
            \/ UNCHANGED <<row, latest>> /\ upset'
  BY CallMoves DEF SaveOutcome, At, SaveRefused, Abandon, snsVars

LEMMA CrashMoves ==
  ASSUME TypeOK, NEW c \in Client, CrashCall(c)
  PROVE  UNCHANGED <<row, latest, topic, member>> /\ call'[c] = NoCall /\ upset'
  BY CallMoves DEF CrashCall, Abandon, snsVars

LEMMA AskMoves ==
  ASSUME TypeOK, NEW c \in Client, Ask(c)
  PROVE  /\ UNCHANGED <<row, latest, topic>>
         /\ \/ call'[c] = NoCall /\ upset'
            \/ Goes(c, IF call[c].op = "subscribe" THEN {"replace"} ELSE {"save"}, call[c].copy)
  BY CallMoves DEF Ask, At, Abandon

(* What a look at SNS and an attempt to subscribe leave to be saved.       *)
LEMMA FindMoves ==
  ASSUME TypeOK, NEW c \in Client, Find(c)
  PROVE  /\ UNCHANGED <<row, latest, topic, member, upset>>
         /\ \/ call'[c] = NoCall
            \/ \E copy \in Row :
                  /\ Goes(c, {"create", "save"}, copy)
                  /\ call'[c].at = "create" => call[c].op = "subscribe"
                  /\ copy.topic = Mine(c).topic
                  /\ call'[c].at = "save" /\ copy.status = "confirmed" =>
                        member[call[c].dest] = "confirmed" /\ copy.topic
  <1> DEFINE mine  == Mine(c)
             found == Found(call[c].dest, mine)
  <1>1. Busy(c) /\ call[c].dest \in Dest
    BY CallFacts DEF Find, At
  <1>2. mine \in Row
    BY <1>1, MineFacts
  <1>3. /\ found \in {"nothing", "confirmed", "pending_confirmation"}
        /\ found = "confirmed" => mine.topic /\ member[call[c].dest] = "confirmed"
    BY <1>1, <1>2, FoundFacts
  <1>4. UNCHANGED <<row, latest, topic, member, upset>>
    BY DEF Find, snsVars, historyVars
  <1>5. \/ Read(c, "save", Errored(mine))
        \/ found # "nothing" /\ Read(c, "save", AsFound(mine, found))
        \/ call[c].op = "subscribe" /\ Read(c, "create", mine)
        \/ Finish(c)
        \/ Read(c, "save", Cleared(mine))
    BY DEF Find
  <1>6. CASE Read(c, "save", Errored(mine))
    BY <1>1, <1>2, <1>4, <1>6, CopyFacts, CallMoves DEF Goes
  <1>7. CASE found # "nothing" /\ Read(c, "save", AsFound(mine, found))
    BY <1>1, <1>2, <1>3, <1>4, <1>7, CopyFacts, CallMoves DEF Goes
  <1>8. CASE call[c].op = "subscribe" /\ Read(c, "create", mine)
    BY <1>1, <1>2, <1>4, <1>8, CallMoves DEF Goes
  <1>9. CASE Finish(c)
    BY <1>1, <1>4, <1>9, CallMoves
  <1>10. CASE Read(c, "save", Cleared(mine))
    BY <1>1, <1>2, <1>4, <1>10, CopyFacts, CallMoves DEF Goes
  <1> QED
    BY <1>5, <1>6, <1>7, <1>8, <1>9, <1>10

LEMMA RecreateMoves ==
  ASSUME TypeOK, NEW c \in Client, Recreate(c)
  PROVE  /\ UNCHANGED <<row, latest, upset>>
         /\ topic' => topic
         /\ \/ Goes(c, {"create"}, call[c].copy) /\ (topic' => ~call[c].copy.topic)
            \/ Goes(c, {"save"}, Errored(call[c].copy))
  <1>1. Busy(c) /\ call[c].copy.topic \in BOOLEAN
    BY CallFacts, RowFacts DEF Recreate, At
  <1>2. \/ topic' = (topic /\ ~call[c].copy.topic) /\ Goto(c, "create")
        \/ topic' \in {topic, FALSE} /\ Hold(c, "save", Errored(call[c].copy))
    BY DEF Recreate
  <1>3. UNCHANGED <<row, latest, upset>>
    BY DEF Recreate, historyVars
  <1>4. CASE topic' = (topic /\ ~call[c].copy.topic) /\ Goto(c, "create")
    BY <1>1, <1>3, <1>4, CallMoves
  <1>5. CASE topic' \in {topic, FALSE} /\ Hold(c, "save", Errored(call[c].copy))
    <2>1. topic' = topic \/ topic' = FALSE
      BY <1>5
    <2>2. Goes(c, {"save"}, Errored(call[c].copy))
      BY <1>1, <1>5, CallMoves
    <2> QED
      BY <1>3, <2>1, <2>2
  <1> QED
    BY <1>2, <1>4, <1>5

LEMMA CreateMoves ==
  ASSUME TypeOK, NEW c \in Client, Create(c)
  PROVE  /\ UNCHANGED <<row, latest>>
         /\ \/ Goes(c, {"save"}, Subscribed(call[c].copy))
            \/ Goes(c, {"save"}, Errored(call[c].copy)) /\ upset'
  BY CallMoves DEF Create, At

-----------------------------------------------------------------------------
(***************************************************************************)
(* Confirmation.                                                           *)
(***************************************************************************)
LEMMA OthersSave ==
  ASSUME NEW c \in Client, Others(c), NEW e \in Client \ {c}
  PROVE  call'[e] = call[e] /\ (SavesConfirmed(e)' <=> SavesConfirmed(e))
  BY DEF Others, SavesConfirmed, At, Busy

LEMMA OwnerAgreement ==
  ASSUME TypeOK, AgreementInv, NEW c \in Client, OwnerStep(c) \/ CrashCall(c)
  PROVE  AgreementInv'
  <1>1. /\ Busy(c) /\ call[c] \in Call /\ Others(c) /\ agreed' = agreed
        /\ \A d \in Dest : member'[d] = "confirmed" => member[d] = "confirmed"
        /\ call[c].dest \in Dest /\ call[c].old \in Dest /\ call[c].copy \in Row
    BY OwnerMoves, CallFacts
  <1>2. MembersAgreed'
    BY <1>1 DEF AgreementInv, MembersAgreed
  <1>3. SavesConfirmed(c)' => call'[c].dest \in agreed /\ call'[c].copy.topic
    <2>1. CASE Ask(c)
      <3>1. call[c].op \in {"subscribe", "unsubscribe"}
        <4>1. LeaversOp /\ At(c, "ask")
          BY <2>1 DEF AgreementInv, Ask
        <4> QED
          BY <4>1 DEF LeaversOp
      <3>2. \/ call'[c] = NoCall
            \/ Goes(c, IF call[c].op = "subscribe" THEN {"replace"} ELSE {"save"}, call[c].copy)
        BY <2>1, AskMoves
      <3> QED
        BY <3>1, <3>2 DEF SavesConfirmed, At, Busy, Goes
    <2>2. CASE Replace(c) \/ SaveOutcome(c) \/ CrashCall(c)
      BY <2>2, ReplaceMoves, SaveMoves, CrashMoves DEF SavesConfirmed, At, Busy, Goes
    <2>3. CASE Find(c)
      BY <1>1, <2>3, FindMoves
      DEF SavesConfirmed, At, Busy, Goes, AgreementInv, MembersAgreed
    <2>4. CASE Recreate(c)
      BY <1>1, <2>4, RecreateMoves, CopyFacts DEF SavesConfirmed, At, Busy, Goes
    <2>5. CASE Create(c)
      BY <1>1, <2>5, CreateMoves, CopyFacts DEF SavesConfirmed, At, Busy, Goes
    <2> QED
      BY <2>1, <2>2, <2>3, <2>4, <2>5 DEF OwnerStep
  <1>4. SavesAgreed'
    BY <1>1, <1>3, OthersSave DEF AgreementInv, SavesAgreed
  <1>5. LeaversOp'
    <2>1. ~At(c, "ask")' /\ (At(c, "replace")' => call'[c].op = "subscribe")
      <3>1. CASE Ask(c)
        BY <3>1, AskMoves DEF At, Busy, Goes
      <3>2. CASE Replace(c) \/ SaveOutcome(c) \/ CrashCall(c)
        BY <3>2, ReplaceMoves, SaveMoves, CrashMoves DEF At, Busy, Goes
      <3>3. CASE Find(c)
        BY <3>3, FindMoves DEF At, Busy, Goes
      <3>4. CASE Recreate(c) \/ Create(c)
        BY <3>4, RecreateMoves, CreateMoves DEF At, Busy, Goes
      <3> QED
        BY <3>1, <3>2, <3>3, <3>4 DEF OwnerStep
    <2> QED
      BY <1>1, <2>1 DEF AgreementInv, LeaversOp, Others, At, Busy
  <1>6. ASSUME NEW d \in Dest, row'[d].status = "confirmed"
        PROVE  d \in agreed /\ row'[d].topic
    <2>1. CASE row'[d] = row[d]
      BY <1>6, <2>1 DEF AgreementInv, ConfirmedByRecipient, ConfirmedHasTopic
    <2>2. CASE Replace(c) /\ row'[d] # row[d]
      <3>1. Save(c, call[c].old, [call[c].copy EXCEPT !.status = "replaced"], FALSE)
        BY <2>2, ReplaceMoves
      <3>2. PICK new : new.status = "replaced" /\ Save(c, call[c].old, new, FALSE)
        BY <1>1, <3>1, WithStatus DEF Status
      <3>3. row' = [row EXCEPT ![call[c].old] = new]
        BY <3>2 DEF Save
      <3>4. row'[d] = new
        BY <1>6, <2>2, <3>3 DEF TypeOK
      <3> QED
        BY <1>6, <3>2, <3>4
    <2>3. CASE SaveOutcome(c) /\ row'[d] # row[d]
      <3>1. d = call[c].dest /\ row'[d] = Outcome(c)
        <4>1. PICK new : new = Outcome(c) /\ Save(c, call[c].dest, new, call[c].fresh)
          BY <2>3, SaveMoves
        <4>2. call[c].dest \in Dest
          BY <1>1 DEF TypeOK, Call
        <4>3. row'[call[c].dest] = new /\ \A e \in Dest \ {call[c].dest} : row'[e] = row[e]
          BY <1>1, <4>1, <4>2, SavedRow
        <4> QED
          BY <1>6, <2>3, <4>1, <4>3
      <3>2. SavesConfirmed(c) /\ row'[d] = call[c].copy
        BY <1>1, <1>6, <2>3, <3>1, OutcomeFacts DEF SavesConfirmed, SaveOutcome, Listed
      <3> QED
        BY <3>1, <3>2 DEF AgreementInv, SavesAgreed
    <2>4. CASE row' = row
      BY <2>1, <2>4
    <2> QED
      BY <2>1, <2>2, <2>3, <2>4, AskMoves, FindMoves, RecreateMoves, CreateMoves, CrashMoves
      DEF OwnerStep
  <1> QED
    BY <1>1, <1>2, <1>4, <1>5, <1>6 DEF AgreementInv, ConfirmedByRecipient, ConfirmedHasTopic

LEMMA AgreementSteps ==
  ASSUME TypeOK, AgreementInv, [Next]_vars
  PROVE  AgreementInv'
  <1> USE DEF AgreementInv, MembersAgreed, LeaversOp, SavesAgreed, ConfirmedByRecipient, ConfirmedHasTopic
  <1>1. ASSUME UNCHANGED <<row, call, agreed>>,
               \A d \in Dest : member'[d] = "confirmed" => member[d] = "confirmed"
        PROVE  AgreementInv'
    BY <1>1 DEF SavesConfirmed, At, Busy
  <1>2. CASE UNCHANGED vars
    BY <1>1, <1>2 DEF vars, ownerVars, snsVars
  <1>3. ASSUME NEW c \in Client, Starting(c)
        PROVE  AgreementInv'
    <2>1. ~SavesConfirmed(c)' /\ Others(c) /\ UNCHANGED <<row, member, agreed>>
      BY <1>3, StartMoves DEF SavesConfirmed, At
    <2>2. LeaversOp'
      BY <1>3, StartMoves DEF Others, At, Busy
    <2> QED
      BY <2>1, <2>2, OthersSave
  <1>4. CASE BeginSending \/ Publish \/ EndSending
    BY <1>1, <1>4 DEF BeginSending, Publish, EndSending, ownerVars, snsVars
  <1>5. ASSUME NEW d \in Dest, Confirm(d) \/ OptOut(d)
        PROVE  AgreementInv'
    <2>1. /\ UNCHANGED <<row, call>> /\ agreed \subseteq agreed'
          /\ \A e \in Dest : member'[e] = "confirmed" => member[e] = "confirmed" \/ e \in agreed'
      BY <1>5 DEF Confirm, OptOut, ownerVars, TypeOK
    <2> QED
      BY <2>1 DEF SavesConfirmed, At, Busy
  <1>6. CASE CleanUp \/ CleanUpFails
    BY <1>1, <1>6 DEF CleanUp, CleanUpFails, ownerVars, TypeOK
  <1>7. CASE DeleteProject
    <2>1. /\ UNCHANGED <<call, agreed, member>>
          /\ \A d \in Dest : row'[d].status = "absent"
      BY <1>7, RowFacts DEF DeleteProject, snsVars
    <2> QED
      BY <2>1 DEF SavesConfirmed, At, Busy
  <1> QED
    BY <1>2, <1>3, <1>4, <1>5, <1>6, <1>7, OwnerAgreement DEF Next, Owner, Starting

LEMMA AgreementInit == Init => AgreementInv
  BY RowFacts
  DEF Init, AgreementInv, MembersAgreed, LeaversOp, SavesAgreed, SavesConfirmed, At, Busy,
      ConfirmedByRecipient, ConfirmedHasTopic

(* No interleaving of calls, look-ups and opt-outs marks a destination     *)
(* confirmed whose recipient never confirmed.                              *)
THEOREM ConfirmationsAreGiven == Spec => []ConfirmedByRecipient
  <1>1. TypeOK /\ AgreementInv /\ [Next]_vars => AgreementInv'
    BY AgreementSteps
  <1>2. AgreementInv => ConfirmedByRecipient
    BY DEF AgreementInv
  <1> QED
    BY <1>1, <1>2, AgreementInit, SubscriptionTypes, PTL DEF Spec

-----------------------------------------------------------------------------
(***************************************************************************)
(* While nothing overlaps.                                                 *)
(***************************************************************************)
CallCalm(c) ==
    /\ Leaving(c) \/ call[c].op # "subscribe" => latest = Subject(c)
    /\ call[c].op # "subscribe" => call[c].old = call[c].dest
    /\ \A d \in Dest \ {Subject(c)} : row[d].status \notin Listed
    /\ ~Looking(c) => (row[Subject(c)].topic => call[c].copy.topic)

LEMMA CallCalmFacts ==
  ASSUME CalmInv, ~overlapped, NEW c \in Client, Busy(c)
  PROVE  CallCalm(c) /\ deletion = "none" /\ \A e \in Client \ {c} : ~Busy(e)
  BY DEF CalmInv, CallCalm, Alone, IdleInDeletion, OnlySubjectListed, CopiesKeepTopic

(* One call alone.                                                         *)
LEMMA CalmByCall ==
  ASSUME NEW c \in Client, Others(c), \A e \in Client \ {c} : ~Busy(e),
         deletion = "none", deletion' = deletion,
         Busy(c)' => CallCalm(c)', OnlyLatestListed', SendersHaveTopic'
  PROVE  CalmInv'
  <1>1. \A e \in Client \ {c} : ~Busy(e)'
    BY DEF Others, Busy
  <1> QED
    BY <1>1
    DEF CalmInv, CallCalm, Alone, IdleInDeletion, OnlySubjectListed, CopiesKeepTopic

LEMMA StartCalm ==
  ASSUME TypeOK, CalmInv, NEW c \in Client, Starting(c), ~overlapped'
  PROVE  CalmInv'
  <1>1. /\ ~overlapped /\ deletion = "none" /\ \A e \in Client : ~Busy(e)
        /\ Others(c)
        /\ UNCHANGED <<row, latest, sending, deletion, topic>>
    BY StartMoves
  <1>2. OnlyLatestListed /\ SendersHaveTopic
    BY <1>1 DEF CalmInv
  <1>3. OnlyLatestListed' /\ SendersHaveTopic'
    BY <1>1, <1>2 DEF OnlyLatestListed, SendersHaveTopic, HasTopic
  <1>4. CallCalm(c)'
    <2>1. CASE call'[c].op = "subscribe" /\ call'[c].at = "ask"
      BY <1>1, <1>2, <2>1, StartMoves
      DEF CallCalm, Leaving, Subject, Looking, OnlyLatestListed
    <2>2. CASE call'[c].op = "subscribe" /\ call'[c].at = "find"
      <3>1. latest \in {NoDest, call'[c].dest}
        BY <2>2, StartMoves
      <3>2. \A d \in Dest \ {call'[c].dest} : row[d].status \notin Listed
        BY <1>2, <3>1, SubscriptionsAssumption DEF OnlyLatestListed
      <3> QED
        BY <1>1, <2>2, <3>2 DEF CallCalm, Leaving, Subject, Looking
    <2>3. CASE call'[c].op # "subscribe"
      BY <1>1, <1>2, <2>3, StartMoves
      DEF CallCalm, Leaving, Subject, Looking, OnlyLatestListed
    <2> QED
      BY <2>1, <2>2, <2>3, StartMoves
  <1> QED
    BY <1>1, <1>3, <1>4, CalmByCall

LEMMA MineTopic ==
  ASSUME TypeOK, NEW c \in Client, Busy(c), call[c].at = "find", CallCalm(c)
  PROVE  row[call[c].dest].topic => Mine(c).topic
  BY RowFacts, CallFacts DEF Mine, CallCalm, Looking, Subject, Leaving
(* Rows of a call on its own keep their topics.                            *)
LEMMA TopicsKept ==
  ASSUME TypeOK, AgreementInv, NEW c \in Client, CallCalm(c), OwnerStep(c) \/ CrashCall(c)
  PROVE  /\ \A d \in Dest : row[d].topic => row'[d].topic
         /\ HasTopic => HasTopic'
  <1>1. /\ Busy(c) /\ call[c].dest \in Dest /\ call[c].old \in Dest /\ call[c].copy \in Row
    BY OwnerMoves, CallFacts
  <1>2. CASE UNCHANGED row
    BY <1>2 DEF HasTopic
  <1>3. ASSUME NEW new, NEW fresh, Save(c, Subject(c), new, fresh),
               new.topic = call[c].copy.topic, ~Looking(c)
        PROVE  \A d \in Dest : row[d].topic => row'[d].topic
    <2>1. Subject(c) \in Dest
      BY <1>1 DEF Subject
    <2> QED
      BY <1>3, <2>1, SavedRow DEF CallCalm
  <1>4. CASE Replace(c)
    <2>1. Subject(c) = call[c].old /\ ~Looking(c)
      BY <1>4 DEF Subject, Leaving, Looking, Replace, At
    <2>2. [call[c].copy EXCEPT !.status = "replaced"].topic = call[c].copy.topic
      BY <1>1, WithStatus DEF Status
    <2> QED
      BY <1>2, <1>3, <1>4, <2>1, <2>2, ReplaceMoves DEF HasTopic
  <1>5. CASE SaveOutcome(c)
    <2>1. Subject(c) = call[c].dest /\ ~Looking(c)
      BY <1>5 DEF Subject, Leaving, Looking, SaveOutcome, At
    <2>2. Outcome(c).topic = call[c].copy.topic
      BY <1>1, OutcomeFacts
    <2> QED
      BY <1>2, <1>3, <1>5, <2>1, <2>2, SaveMoves DEF HasTopic
  <1> QED
    BY <1>2, <1>4, <1>5, AskMoves, FindMoves, RecreateMoves, CreateMoves, CrashMoves
    DEF OwnerStep

LEMMA OwnerCalm ==
  ASSUME TypeOK, AgreementInv, CalmInv, NEW c \in Client, OwnerStep(c) \/ CrashCall(c),
         ~overlapped'
  PROVE  CalmInv'
  <1>1. /\ Busy(c) /\ call[c] \in Call /\ Others(c) /\ ~overlapped
        /\ UNCHANGED <<deletion, sending>>
        /\ call[c].dest \in Dest /\ call[c].old \in Dest /\ call[c].copy \in Row
    BY OwnerMoves, CallFacts
  <1>2. CallCalm(c) /\ deletion = "none" /\ \A e \in Client \ {c} : ~Busy(e)
    BY <1>1, CallCalmFacts
  <1>3. OnlyLatestListed /\ SendersHaveTopic
    BY <1>1 DEF CalmInv
  <1>4. SendersHaveTopic'
    BY <1>1, <1>2, <1>3, TopicsKept DEF SendersHaveTopic
  <1>5. CASE Ask(c)
    <2>1. call[c].at = "ask" /\ call[c].op \in {"subscribe", "unsubscribe"}
      <3>1. LeaversOp /\ At(c, "ask")
        BY <1>5 DEF AgreementInv, Ask
      <3> QED
        BY <3>1 DEF LeaversOp, At
    <2>2. UNCHANGED <<row, latest>>
      BY <1>5, AskMoves
    <2>3. Busy(c)' => CallCalm(c)'
      <3>1. CASE call'[c] = NoCall
        BY <3>1 DEF Busy
      <3>2. CASE Goes(c, IF call[c].op = "subscribe" THEN {"replace"} ELSE {"save"}, call[c].copy)
        BY <1>2, <2>1, <2>2, <3>2 DEF CallCalm, Goes, Leaving, Subject, Looking
      <3> QED
        BY <1>5, <3>1, <3>2, AskMoves
    <2>4. OnlyLatestListed'
      BY <1>3, <2>2 DEF OnlyLatestListed
    <2> QED
      BY <1>1, <1>2, <1>4, <2>3, <2>4, CalmByCall
  <1>6. CASE Replace(c)
    <2>1. call[c].at = "replace" /\ call[c].op = "subscribe"
      <3>1. LeaversOp /\ At(c, "replace")
        BY <1>6 DEF AgreementInv, Replace
      <3> QED
        BY <3>1 DEF LeaversOp, At
    <2>2. \A d \in Dest \ {call[c].old} : row[d].status \notin Listed
      BY <1>2, <2>1 DEF CallCalm, Subject, Leaving
    <2>3. CASE UNCHANGED <<row, latest>> /\ call'[c] = NoCall
      BY <1>1, <1>2, <1>3, <1>4, <2>3, CalmByCall DEF OnlyLatestListed, Busy
    <2>4. CASE /\ Save(c, call[c].old, [call[c].copy EXCEPT !.status = "replaced"], FALSE)
               /\ Goes(c, {"find"}, call[c].copy)
      <3>1. row'[call[c].old].status = "replaced"
        <4>1. PICK new \in Row : new.status = "replaced" /\ Save(c, call[c].old, new, FALSE)
          BY <1>1, <2>4, WithStatus DEF Status
        <4>2. row'[call[c].old] = new
          BY <1>1, <4>1, SavedRow
        <4> QED
          BY <4>1, <4>2
      <3>2. \A d \in Dest : row'[d].status \notin Listed
        <4>1. \A d \in Dest \ {call[c].old} : row'[d] = row[d]
          BY <1>1, <2>4, SavedRow
        <4> QED
          BY <1>1, <2>2, <3>1, <4>1 DEF Listed
      <3>3. CallCalm(c)'
        BY <2>1, <2>4, <3>2 DEF CallCalm, Goes, Leaving, Subject, Looking
      <3>4. OnlyLatestListed'
        BY <3>2 DEF OnlyLatestListed
      <3> QED
        BY <1>1, <1>2, <1>4, <3>3, <3>4, CalmByCall
    <2> QED
      BY <1>6, <2>3, <2>4, ReplaceMoves
  <1>7. CASE Find(c) \/ Recreate(c) \/ Create(c)
    <2>1. UNCHANGED <<row, latest>>
      BY <1>7, FindMoves, RecreateMoves, CreateMoves
    <2>2. call[c].at \in {"find", "recreate", "create"}
      BY <1>7 DEF Find, Recreate, Create, At
    <2>3. ASSUME Busy(c)'
          PROVE  \E ats \in SUBSET {"create", "save"}, copy \in Row :
                    /\ Goes(c, ats, copy)
                    /\ row[call[c].dest].topic => copy.topic
      <3>1. CASE Find(c)
        <4>1. row[call[c].dest].topic => Mine(c).topic
          BY <1>1, <1>2, <3>1, MineTopic DEF Find, At
        <4> QED
          BY <2>3, <3>1, <4>1, FindMoves DEF Busy
      <3>2. CASE Recreate(c) \/ Create(c)
        <4>1. row[call[c].dest].topic => call[c].copy.topic
          BY <1>2, <3>2 DEF CallCalm, Recreate, Create, At, Subject, Leaving, Looking
        <4>2. /\ Errored(call[c].copy) \in Row /\ Errored(call[c].copy).topic = call[c].copy.topic
              /\ Subscribed(call[c].copy) \in Row /\ Subscribed(call[c].copy).topic
          BY <1>1, CopyFacts
        <4> QED
          BY <1>1, <3>2, <4>1, <4>2, RecreateMoves, CreateMoves
      <3> QED
        BY <1>7, <3>1, <3>2
    <2>4. Busy(c)' => CallCalm(c)'
      BY <1>2, <2>1, <2>2, <2>3 DEF CallCalm, Goes, Leaving, Subject, Looking
    <2>5. OnlyLatestListed'
      BY <1>3, <2>1 DEF OnlyLatestListed
    <2> QED
      BY <1>1, <1>2, <1>4, <2>4, <2>5, CalmByCall
  <1>8. CASE SaveOutcome(c)
    <2>1. call'[c] = NoCall
      BY <1>8, SaveMoves
    <2>2. \A d \in Dest \ {call[c].dest} : row[d].status \notin Listed
      BY <1>2, <1>8 DEF CallCalm, Subject, Leaving, SaveOutcome, At
    <2>3. ASSUME Save(c, call[c].dest, Outcome(c), call[c].fresh),
                 NEW d \in Dest, row'[d].status \in Listed
          PROVE  latest' = d
      <3>1. d = call[c].dest /\ row'[d] = Outcome(c)
        BY <1>1, <2>2, <2>3, SavedRow
      <3>2. latest' \in {d, latest} /\ (latest' = latest => row'[d] = row[d] \/ latest = d)
        BY <1>1, <2>3, <3>1, SavedRow DEF Listed
      <3> QED
        BY <1>3, <2>3, <3>2 DEF OnlyLatestListed
    <2>4. OnlyLatestListed'
      BY <1>3, <1>8, <2>3, SaveMoves DEF OnlyLatestListed
    <2> QED
      BY <1>1, <1>2, <1>4, <2>1, <2>4, CalmByCall DEF Busy
  <1>9. CASE CrashCall(c)
    <2>1. ~Busy(c)' /\ UNCHANGED <<row, latest>>
      BY <1>9, CrashMoves DEF Busy
    <2>2. OnlyLatestListed'
      BY <1>3, <2>1 DEF OnlyLatestListed
    <2> QED
      BY <1>1, <1>2, <1>4, <2>1, <2>2, CalmByCall
  <1> QED
    BY <1>5, <1>6, <1>7, <1>8, <1>9 DEF OwnerStep

LEMMA CalmSteps ==
  ASSUME TypeOK, AgreementInv, CalmInv, [Next]_vars
  PROVE  CalmInv'
  <1> SUFFICES ASSUME ~overlapped' PROVE CalmInv'
    BY DEF CalmInv
  <1>1. ASSUME UNCHANGED <<row, latest, call>>, ~overlapped,
               deletion' = deletion \/ \A c \in Client : ~Busy(c),
               SendersHaveTopic'
        PROVE  CalmInv'
    <2>1. \A c \in Client : Busy(c)' <=> Busy(c)
      BY <1>1 DEF Busy
    <2>2. Alone' /\ IdleInDeletion'
      BY <1>1, <2>1 DEF CalmInv, Alone, IdleInDeletion
    <2>3. OnlySubjectListed' /\ OnlyLatestListed' /\ CopiesKeepTopic'
      BY <1>1, <2>1
      DEF CalmInv, OnlySubjectListed, OnlyLatestListed, CopiesKeepTopic, Subject, Leaving, Looking
    <2> QED
      BY <1>1, <2>2, <2>3 DEF CalmInv
  <1>2. ASSUME UNCHANGED <<row, latest, call, sending, deletion, overlapped>>
        PROVE  CalmInv'
    <2>1. ~overlapped /\ SendersHaveTopic'
      BY <1>2 DEF CalmInv, SendersHaveTopic, HasTopic
    <2> QED
      BY <1>1, <1>2, <2>1
  <1>3. CASE UNCHANGED vars
    BY <1>2, <1>3 DEF vars, ownerVars, historyVars
  <1>4. ASSUME NEW d \in Dest, Confirm(d) \/ OptOut(d)
        PROVE  CalmInv'
    BY <1>2, <1>4 DEF Confirm, OptOut, ownerVars, historyVars
  <1>5. CASE Publish
    BY <1>2, <1>5 DEF Publish, ownerVars
  <1>6. CASE BeginSending \/ EndSending
    <2>1. UNCHANGED <<row, latest, call, deletion, overlapped>>
      BY <1>6 DEF BeginSending, EndSending, ownerVars, historyVars
    <2>2. SendersHaveTopic'
      BY <1>6, <2>1
      DEF BeginSending, EndSending, AgreementInv, ConfirmedHasTopic, SendersHaveTopic, HasTopic
    <2> QED
      BY <1>1, <2>1, <2>2
  <1>7. CASE CleanUp \/ CleanUpFails
    <2>1. /\ UNCHANGED <<row, latest, call, sending>> /\ ~overlapped
          /\ \A c \in Client : ~Busy(c)
          /\ deletion = "none"
      BY <1>7 DEF CleanUp, CleanUpFails, ownerVars
    <2>2. SendersHaveTopic'
      BY <2>1 DEF CalmInv, SendersHaveTopic, HasTopic
    <2> QED
      BY <1>1, <2>1, <2>2
  <1>8. CASE DeleteProject
    <2>1. /\ ~overlapped /\ call' = call /\ deletion = "cleaned" /\ deletion' = "deleted"
          /\ \A d \in Dest : row'[d].status = "absent"
      BY <1>8, RowFacts DEF DeleteProject, historyVars
    <2>2. \A c \in Client : ~Busy(c) /\ ~Busy(c)'
      BY <2>1 DEF CalmInv, IdleInDeletion, Busy
    <2> QED
      BY <2>1, <2>2
      DEF CalmInv, Alone, IdleInDeletion, OnlySubjectListed, OnlyLatestListed, CopiesKeepTopic,
          SendersHaveTopic, Listed
  <1> QED
    BY <1>3, <1>4, <1>5, <1>6, <1>7, <1>8, OwnerCalm, StartCalm DEF Next, Owner, Starting

LEMMA CalmInit == Init => CalmInv
  BY RowFacts
  DEF Init, CalmInv, Alone, IdleInDeletion, OnlySubjectListed, OnlyLatestListed,
      CopiesKeepTopic, SendersHaveTopic, Busy, Listed

(* Until calls overlap, one destination at most is invited or confirmed,   *)
(* through replacements, failures and crashes of any number of calls.      *)
THEOREM OneDestinationAtATime == Spec => []OneDestination
  <1>1. Init => TypeOK /\ AgreementInv /\ CalmInv
    BY SubscriptionInit, AgreementInit, CalmInit
  <1>2. TypeOK /\ AgreementInv /\ CalmInv /\ [Next]_vars => (TypeOK /\ AgreementInv /\ CalmInv)'
    BY SubscriptionSteps, AgreementSteps, CalmSteps
  <1>3. CalmInv => OneDestination
    BY DEF CalmInv, OnlyLatestListed, OneDestination
  <1> QED
    BY <1>1, <1>2, <1>3, PTL DEF Spec

-----------------------------------------------------------------------------
(***************************************************************************)
(* The topic.                                                              *)
(***************************************************************************)
LEMMA OwnerTopic ==
  ASSUME TypeOK, AgreementInv, CalmInv, TopicInv, NEW c \in Client,
         OwnerStep(c) \/ CrashCall(c)
  PROVE  TopicInv'
  <1> SUFFICES ASSUME ~overlapped', ~upset' PROVE TopicKnown' /\ deletion' = "none"
    BY DEF TopicInv
  <1>1. /\ Busy(c) /\ ~overlapped /\ ~upset /\ deletion' = deletion
        /\ call[c].dest \in Dest /\ call[c].copy \in Row
    BY OwnerMoves, CallFacts
  <1>2. CallCalm(c) /\ deletion = "none" /\ \A e \in Client \ {c} : ~Busy(e)
    BY <1>1, CallCalmFacts
  <1>3. HasTopic => HasTopic'
    BY <1>2, TopicsKept
  <1>4. topic => HasTopic \/ (At(c, "save") /\ call[c].copy.topic)
    BY <1>1, <1>2 DEF TopicInv, TopicKnown, At
  <1>5. CASE Ask(c) \/ Replace(c) \/ Find(c) \/ Recreate(c)
    <2>1. ~At(c, "save") /\ (topic' => topic)
      BY <1>5, AskMoves, ReplaceMoves, FindMoves, RecreateMoves
      DEF Ask, Replace, Find, Recreate, At
    <2> QED
      BY <1>1, <1>2, <1>3, <1>4, <2>1 DEF TopicKnown
  <1>6. CASE Create(c)
    <2>1. Goes(c, {"save"}, Subscribed(call[c].copy)) /\ Subscribed(call[c].copy).topic
      BY <1>1, <1>6, CreateMoves, CopyFacts
    <2> QED
      BY <1>1, <1>2, <2>1 DEF TopicKnown, At, Busy, Goes
  <1>7. CASE SaveOutcome(c)
    <2>1. topic' = topic /\ Save(c, call[c].dest, Outcome(c), call[c].fresh)
      BY <1>7, SaveMoves
    <2>2. row'[call[c].dest].topic = call[c].copy.topic
      BY <1>1, <2>1, SavedRow, OutcomeFacts
    <2> QED
      BY <1>1, <1>2, <1>3, <1>4, <2>1, <2>2 DEF TopicKnown, HasTopic
  <1>8. CASE CrashCall(c)
    BY <1>8, CrashMoves
  <1> QED
    BY <1>5, <1>6, <1>7, <1>8 DEF OwnerStep

LEMMA TopicSteps ==
  ASSUME TypeOK, AgreementInv, CalmInv, TopicInv, [Next]_vars
  PROVE  TopicInv'
  <1>1. ASSUME UNCHANGED <<row, call, topic, deletion, upset>>, overlapped => overlapped'
        PROVE  TopicInv'
    BY <1>1 DEF TopicInv, TopicKnown, HasTopic, At, Busy
  <1>2. CASE UNCHANGED vars
    BY <1>1, <1>2 DEF vars, ownerVars, snsVars, historyVars
  <1>3. ASSUME NEW d \in Dest, Confirm(d) \/ OptOut(d)
        PROVE  TopicInv'
    BY <1>1, <1>3 DEF Confirm, OptOut, ownerVars, historyVars
  <1>4. CASE BeginSending \/ EndSending
    BY <1>1, <1>4 DEF BeginSending, EndSending, ownerVars, snsVars, historyVars
  <1>5. CASE CleanUpFails
    BY <1>1, <1>5 DEF CleanUpFails, ownerVars
  <1>6. CASE Publish
    <2>1. /\ UNCHANGED <<row, deletion, overlapped>> /\ sending
          /\ ~upset' => deletion = "none"
      BY <1>6 DEF Publish, ownerVars, TypeOK
    <2>2. ~overlapped /\ ~upset' => HasTopic
      BY <2>1 DEF CalmInv, SendersHaveTopic
    <2> QED
      BY <2>1, <2>2 DEF TopicInv, TopicKnown, HasTopic
  <1>7. CASE CleanUp
    <2>1. /\ topic' = (topic /\ ~HasTopic) /\ deletion = "none" /\ upset' = upset
          /\ ~overlapped' => ~overlapped /\ \A c \in Client : ~Busy(c)
      BY <1>7 DEF CleanUp
    <2>2. ~overlapped' /\ ~upset' => ~topic'
      BY <2>1 DEF TopicInv, TopicKnown, At
    <2> QED
      BY <1>7, <2>2 DEF TopicInv, CleanUp
  <1>8. CASE DeleteProject
    BY <1>8 DEF DeleteProject, TopicInv, snsVars, historyVars
  <1>9. ASSUME NEW c \in Client, Starting(c)
        PROVE  TopicInv'
    <2>1. /\ UNCHANGED <<row, topic, deletion, upset>>
          /\ ~overlapped' => ~overlapped /\ deletion = "none" /\ \A e \in Client : ~Busy(e)
      BY <1>9, StartMoves
    <2>2. ~overlapped' /\ ~upset /\ topic => HasTopic
      BY <2>1 DEF TopicInv, TopicKnown, At
    <2> QED
      BY <2>1, <2>2 DEF TopicInv, TopicKnown, HasTopic
  <1> QED
    BY <1>2, <1>3, <1>4, <1>5, <1>6, <1>7, <1>8, <1>9, OwnerTopic DEF Next, Owner, Starting

(* No topic outlives its project, unless calls failed or overlapped or a   *)
(* dispatch revived it.                                                    *)
THEOREM TopicsAreRemoved == Spec => []TopicGoes
  <1>1. Init => TypeOK /\ AgreementInv /\ CalmInv /\ TopicInv
    BY SubscriptionInit, AgreementInit, CalmInit DEF Init, TopicInv, TopicKnown
  <1>2. TypeOK /\ AgreementInv /\ CalmInv /\ TopicInv /\ [Next]_vars
          => (TypeOK /\ AgreementInv /\ CalmInv /\ TopicInv)'
    BY SubscriptionSteps, AgreementSteps, CalmSteps, TopicSteps
  <1>3. TopicInv => TopicGoes
    BY DEF TopicInv, TopicGoes
  <1> QED
    BY <1>1, <1>2, <1>3, PTL DEF Spec

-----------------------------------------------------------------------------
(***************************************************************************)
(* Who can still get mail.  A destination that the owner replaced or left  *)
(* is no member of the topic, unless it was given up without an ARN; and   *)
(* whoever is a member has a row that knows the topic, which is how a look *)
(* at SNS and the clean-up find it.                                        *)
(***************************************************************************)
Left == {"replaced", "unsubscribed"}

Dropped(d) == d \in loose \/ member[d] = "none"

LeftAreDropped ==
    \A d \in Dest : row[d].status \in Left =>
        Dropped(d) \/ \E c \in Client : Busy(c) /\ call[c].dest = d

MembersKnown ==
    \A d \in Dest : member[d] # "none" =>
        row[d].topic \/ \E c \in Client : At(c, "save") /\ call[c].dest = d /\ call[c].copy.topic

(* A call that has asked SNS to drop its destination, or will save it.     *)
CallDrops(c) ==
    /\ call[c].op = "unsubscribe" => call[c].at \in {"ask", "save"}
    /\ call[c].at = "replace" => Dropped(call[c].old)
    /\ call[c].at = "save" => IF call[c].op = "unsubscribe" THEN Dropped(call[c].dest)
                              ELSE call[c].copy.status \notin Left

MemberInv ==
    ~overlapped /\ ~upset =>
        /\ LeftAreDropped /\ MembersKnown
        /\ \A c \in Client : Busy(c) => CallDrops(c)
        /\ deletion # "none" => \A d \in Dest : member[d] = "none"

LEMMA AskDrops ==
  ASSUME TypeOK, NEW c \in Client, Ask(c), ~upset, ~upset'
  PROVE  /\ call[c].old \in loose' \/ member'[call[c].old] = "none"
         /\ \A d \in Dest : /\ Dropped(d) => Dropped(d)'
                            /\ member'[d] # "none" => member[d] # "none"
         /\ Goes(c, IF call[c].op = "subscribe" THEN {"replace"} ELSE {"save"}, call[c].copy)
  <1> DEFINE old  == call[c].old
             real == call[c].copy.arn = "real"
  <1>1. /\ Busy(c) /\ old \in Dest
        /\ member \in [Dest -> {"none", "pending", "confirmed"}] /\ loose \subseteq Dest
    BY CallFacts DEF Ask, At, TypeOK
  <1>2. /\ ~Refused(c)
        /\ member' = [member EXCEPT ![old] = IF real /\ @ = "confirmed" THEN "none" ELSE @]
        /\ loose' = IF real THEN loose ELSE loose \cup {old}
    BY DEF Ask, Abandon
  <1>3. old \in loose' \/ member'[call[c].old] = "none"
    <2>1. CASE ~real
      BY <1>2, <2>1
    <2>2. CASE real
      <3>1. member[old] # "pending"
        BY <1>2, <2>2 DEF Refused
      <3> QED
        BY <1>1, <1>2, <2>2, <3>1
    <2> QED
      BY <2>1, <2>2
  <1>4. ASSUME NEW d \in Dest
        PROVE  /\ Dropped(d) => Dropped(d)'
               /\ member'[d] # "none" => member[d] # "none"
    <2>1. CASE d = old
      BY <1>1, <1>2, <1>3, <2>1 DEF Dropped
    <2>2. CASE d # old
      <3>1. member'[d] = member[d] /\ (d \in loose => d \in loose')
        BY <1>1, <1>2, <2>2
      <3> QED
        BY <3>1 DEF Dropped
    <2> QED
      BY <2>1, <2>2
  <1>5. Goes(c, IF call[c].op = "subscribe" THEN {"replace"} ELSE {"save"}, call[c].copy)
    BY AskMoves, CallMoves DEF Ask, At, Abandon
  <1> QED
    BY <1>3, <1>4, <1>5

LEMMA FindDrops ==
  ASSUME TypeOK, NEW c \in Client, Find(c)
  PROVE  /\ UNCHANGED <<member, loose>>
         /\ call'[c] = NoCall =>
               /\ call[c].op # "subscribe"
               /\ Mine(c).topic => member[call[c].dest] = "none"
         /\ call'[c] # NoCall /\ call'[c].at = "save" => call'[c].copy.status \notin Left
  <1> DEFINE mine  == Mine(c)
             found == Found(call[c].dest, mine)
  <1>1. /\ Busy(c) /\ call[c].dest \in Dest
        /\ member \in [Dest -> {"none", "pending", "confirmed"}]
    BY CallFacts DEF Find, At, TypeOK
  <1>2. mine \in Row
    BY <1>1, MineFacts
  <1>3. /\ found \in {"nothing", "confirmed", "pending_confirmation"}
        /\ found = "nothing" /\ mine.topic => member[call[c].dest] = "none"
    <2>1. found \in {"nothing", "confirmed", "pending_confirmation"}
      BY <1>1, <1>2, FoundFacts
    <2>2. found = "nothing" /\ mine.topic => member[call[c].dest] = "none"
      BY <1>1 DEF Found
    <2> QED
      BY <2>1, <2>2
  <1>4. UNCHANGED <<member, loose>>
    BY DEF Find, snsVars
  <1>5. \/ \E copy \in Row : copy.status \notin Left /\ Read(c, "save", copy)
        \/ Read(c, "create", mine)
        \/ Finish(c) /\ found = "nothing" /\ call[c].op # "subscribe"
    <2>1. \/ Read(c, "save", Errored(mine))
          \/ found # "nothing" /\ Read(c, "save", AsFound(mine, found))
          \/ Read(c, "create", mine)
          \/ Finish(c) /\ found = "nothing" /\ call[c].op # "subscribe"
          \/ Read(c, "save", Cleared(mine))
      BY DEF Find
    <2>2. /\ Errored(mine) \in Row /\ Errored(mine).status \notin Left
          /\ Cleared(mine) \in Row /\ Cleared(mine).status \notin Left
          /\ found # "nothing" => /\ AsFound(mine, found) \in Row
                                  /\ AsFound(mine, found).status \notin Left
      BY <1>2, <1>3, CopyFacts DEF Left
    <2> QED
      BY <2>1, <2>2
  <1>6. CASE \E copy \in Row : copy.status \notin Left /\ Read(c, "save", copy)
    BY <1>1, <1>4, <1>6, CallMoves DEF Goes
  <1>7. CASE Read(c, "create", mine)
    BY <1>1, <1>4, <1>7, CallMoves DEF Goes
  <1>8. CASE Finish(c) /\ found = "nothing" /\ call[c].op # "subscribe"
    BY <1>1, <1>3, <1>4, <1>8, CallMoves
  <1> QED
    BY <1>5, <1>6, <1>7, <1>8

LEMMA RecreateDrops ==
  ASSUME TypeOK, NEW c \in Client, Recreate(c)
  PROVE  /\ loose' = loose
         /\ \A d \in Dest : /\ Dropped(d) => Dropped(d)'
                            /\ member'[d] # "none" => member[d] # "none"
  BY DEF Recreate, Dropped, TypeOK

LEMMA CreateDrops ==
  ASSUME TypeOK, NEW c \in Client, Create(c), ~upset'
  PROVE  /\ \A d \in Dest \ {call[c].dest} : /\ Dropped(d) => Dropped(d)'
                                             /\ member'[d] = member[d]
         /\ Goes(c, {"save"}, Subscribed(call[c].copy))
  <1>1. Busy(c) /\ call[c].dest \in Dest
    BY CallFacts DEF Create, At
  <1>2. Invite(call[c].dest) /\ Hold(c, "save", Subscribed(call[c].copy))
    BY DEF Create
  <1>3. \A d \in Dest \ {call[c].dest} : /\ Dropped(d) => Dropped(d)'
                                         /\ member'[d] = member[d]
    BY <1>1, <1>2 DEF Invite, Dropped, TypeOK
  <1> QED
    BY <1>1, <1>2, <1>3, CallMoves

(* One call alone.                                                         *)
LEMMA MembersByCall ==
  ASSUME NEW c \in Client, Others(c), \A e \in Client \ {c} : ~Busy(e),
         deletion = "none", deletion' = deletion,
         Busy(c)' => CallDrops(c)',
         \A d \in Dest : row'[d].status \in Left =>
            Dropped(d)' \/ (Busy(c)' /\ call'[c].dest = d),
         \A d \in Dest : member'[d] # "none" =>
            row'[d].topic \/ (At(c, "save")' /\ call'[c].dest = d /\ call'[c].copy.topic)
  PROVE  MemberInv'
  <1>1. \A e \in Client \ {c} : ~Busy(e)'
    BY DEF Others, Busy
  <1>2. LeftAreDropped'
    BY DEF LeftAreDropped
  <1>3. MembersKnown'
    BY DEF MembersKnown
  <1> QED
    BY <1>1, <1>2, <1>3 DEF MemberInv

LEMMA OwnerMembers ==
  ASSUME TypeOK, AgreementInv, CalmInv, MemberInv, NEW c \in Client,
         OwnerStep(c) \/ CrashCall(c)
  PROVE  MemberInv'
  <1> SUFFICES ASSUME ~overlapped', ~upset' PROVE MemberInv'
    BY DEF MemberInv
  <1>1. /\ Busy(c) /\ ~overlapped /\ ~upset /\ deletion' = deletion /\ Others(c)
        /\ call[c].dest \in Dest /\ call[c].old \in Dest /\ call[c].copy \in Row
    BY OwnerMoves, CallFacts
  <1>2. CallCalm(c) /\ deletion = "none" /\ \A e \in Client \ {c} : ~Busy(e)
    BY <1>1, CallCalmFacts
  <1>3. /\ CallDrops(c)
        /\ \A d \in Dest : row[d].status \in Left => Dropped(d) \/ call[c].dest = d
        /\ \A d \in Dest : member[d] # "none" =>
              row[d].topic \/ (At(c, "save") /\ call[c].dest = d /\ call[c].copy.topic)
    <2>1. LeftAreDropped /\ MembersKnown /\ CallDrops(c)
      BY <1>1 DEF MemberInv
    <2>2. \A d \in Dest : row[d].status \in Left => Dropped(d) \/ call[c].dest = d
      BY <1>2, <2>1 DEF LeftAreDropped
    <2>3. \A d \in Dest : member[d] # "none" =>
              row[d].topic \/ (At(c, "save") /\ call[c].dest = d /\ call[c].copy.topic)
      BY <1>2, <2>1 DEF MembersKnown, At
    <2> QED
      BY <2>1, <2>2, <2>3
  (* Steps that keep the rows and make no new member.                      *)
  <1>4. ASSUME UNCHANGED row, ~At(c, "save"), Busy(c)', call'[c].dest = call[c].dest,
               \A d \in Dest : /\ Dropped(d) => Dropped(d)'
                               /\ member'[d] # "none" => member[d] # "none",
               CallDrops(c)'
        PROVE  MemberInv'
    <2>1. \A d \in Dest : row'[d].status \in Left =>
             Dropped(d)' \/ (Busy(c)' /\ call'[c].dest = d)
      BY <1>3, <1>4
    <2>2. \A d \in Dest : member'[d] # "none" => row'[d].topic
      BY <1>3, <1>4
    <2> QED
      BY <1>1, <1>2, <1>4, <2>1, <2>2, MembersByCall
  <1>5. CASE Ask(c)
    <2>1. /\ call[c].at = "ask" /\ ~At(c, "save") /\ call[c].op \in {"subscribe", "unsubscribe"}
          /\ call[c].op = "unsubscribe" => call[c].old = call[c].dest
      <3>1. LeaversOp /\ At(c, "ask")
        BY <1>5 DEF AgreementInv, Ask
      <3> QED
        BY <1>2, <3>1 DEF LeaversOp, At, CallCalm
    <2>2. /\ Goes(c, IF call[c].op = "subscribe" THEN {"replace"} ELSE {"save"}, call[c].copy)
          /\ UNCHANGED row
          /\ call[c].old \in loose' \/ member'[call[c].old] = "none"
      BY <1>1, <1>5, AskDrops, AskMoves
    <2>3. CallDrops(c)'
      BY <2>1, <2>2 DEF CallDrops, Goes, Dropped
    <2>4. Busy(c)' /\ call'[c].dest = call[c].dest
      BY <2>2 DEF Goes, Busy
    <2> QED
      BY <1>1, <1>4, <1>5, <2>1, <2>2, <2>3, <2>4, AskDrops
  <1>6. CASE Replace(c)
    <2>1. /\ call[c].at = "replace" /\ call[c].op = "subscribe" /\ ~At(c, "save")
          /\ Dropped(call[c].old)
      <3>1. LeaversOp /\ At(c, "replace")
        BY <1>6 DEF AgreementInv, Replace
      <3> QED
        BY <1>3, <3>1 DEF LeaversOp, At, CallDrops
    <2>2. /\ Save(c, call[c].old, [call[c].copy EXCEPT !.status = "replaced"], FALSE)
          /\ Goes(c, {"find"}, call[c].copy)
      BY <1>6, ReplaceMoves
    <2>3. UNCHANGED <<member, loose>>
      BY <1>6 DEF Replace, snsVars
    <2>4. /\ \A d \in Dest \ {call[c].old} : row'[d] = row[d]
          /\ \A d \in Dest : row[d].topic => row'[d].topic
      BY <1>1, <1>2, <1>6, <2>2, SavedRow, TopicsKept DEF OwnerStep
    <2>5. Busy(c)' /\ call'[c].dest = call[c].dest /\ CallDrops(c)'
      BY <2>1, <2>2 DEF Goes, Busy, CallDrops
    <2>6. \A d \in Dest : row'[d].status \in Left =>
             Dropped(d)' \/ (Busy(c)' /\ call'[c].dest = d)
      BY <1>3, <2>1, <2>3, <2>4, <2>5 DEF Dropped
    <2>7. \A d \in Dest : member'[d] # "none" => row'[d].topic
      BY <1>3, <2>1, <2>3, <2>4
    <2> QED
      BY <1>1, <1>2, <2>5, <2>6, <2>7, MembersByCall
  <1>7. CASE Find(c)
    <2>1. /\ call[c].at = "find" /\ ~At(c, "save") /\ call[c].op # "unsubscribe"
          /\ UNCHANGED <<row, member, loose>>
      BY <1>3, <1>7, FindMoves, FindDrops DEF Find, At, CallDrops
    <2>2. CASE Busy(c)'
      <3>1. \E copy \in Row : Goes(c, {"create", "save"}, copy)
        BY <1>7, <2>2, FindMoves DEF Busy
      <3>2. call'[c].at = "save" => call'[c].copy.status \notin Left
        BY <1>7, <2>2, FindDrops DEF Busy
      <3>3. CallDrops(c)' /\ call'[c].dest = call[c].dest
        BY <2>1, <3>1, <3>2 DEF CallDrops, Goes
      <3> QED
        BY <1>4, <2>1, <2>2, <3>3 DEF Dropped
    <2>3. CASE ~Busy(c)'
      <3>1. member[call[c].dest] = "none"
        <4>1. CASE Mine(c).topic
          BY <1>7, <2>3, <4>1, FindDrops DEF Busy
        <4>2. CASE ~Mine(c).topic
          <5>1. ~row[call[c].dest].topic
            BY <1>1, <1>2, <2>1, <4>2, MineTopic
          <5> QED
            BY <1>1, <1>3, <2>1, <5>1
        <4> QED
          BY <4>1, <4>2
      <3>2. \A d \in Dest : row'[d].status \in Left => Dropped(d)'
        BY <1>3, <2>1, <3>1 DEF Dropped
      <3>3. \A d \in Dest : member'[d] # "none" => row'[d].topic
        BY <1>3, <2>1
      <3> QED
        BY <1>1, <1>2, <2>3, <3>2, <3>3, MembersByCall
    <2> QED
      BY <2>2, <2>3
  <1>8. CASE Recreate(c)
    <2>1. call[c].at = "recreate" /\ ~At(c, "save") /\ call[c].op # "unsubscribe"
      BY <1>3, <1>8 DEF Recreate, At, CallDrops
    <2>2. \/ Goes(c, {"create"}, call[c].copy)
          \/ Goes(c, {"save"}, Errored(call[c].copy))
      BY <1>8, RecreateMoves
    <2>3. Errored(call[c].copy).status \notin Left
      BY <1>1, CopyFacts DEF Left
    <2>4. Busy(c)' /\ call'[c].dest = call[c].dest /\ CallDrops(c)'
      BY <2>1, <2>2, <2>3 DEF Goes, Busy, CallDrops
    <2>5. UNCHANGED row
      BY <1>8, RecreateMoves
    <2> QED
      BY <1>4, <1>8, <2>1, <2>4, <2>5, RecreateDrops
  <1>9. CASE Create(c)
    <2>1. call[c].at = "create" /\ ~At(c, "save") /\ call[c].op # "unsubscribe"
      BY <1>3, <1>9 DEF Create, At, CallDrops
    <2>2. Goes(c, {"save"}, Subscribed(call[c].copy)) /\ UNCHANGED row
      BY <1>9, CreateDrops, CreateMoves
    <2>3. Subscribed(call[c].copy).topic /\ Subscribed(call[c].copy).status \notin Left
      BY <1>1, CopyFacts DEF Left
    <2>4. /\ At(c, "save")' /\ Busy(c)' /\ call'[c].dest = call[c].dest
          /\ call'[c].copy.topic /\ CallDrops(c)'
      BY <2>1, <2>2, <2>3 DEF Goes, Busy, At, CallDrops
    <2>5. \A d \in Dest : row'[d].status \in Left =>
             Dropped(d)' \/ (Busy(c)' /\ call'[c].dest = d)
      BY <1>3, <1>9, <2>2, <2>4, CreateDrops
    <2>6. \A d \in Dest : member'[d] # "none" =>
             row'[d].topic \/ (At(c, "save")' /\ call'[c].dest = d /\ call'[c].copy.topic)
      BY <1>3, <1>9, <2>1, <2>2, <2>4, CreateDrops
    <2> QED
      BY <1>1, <1>2, <2>4, <2>5, <2>6, MembersByCall
  <1>10. CASE SaveOutcome(c)
    <2>1. At(c, "save") /\ call[c].at = "save"
      BY <1>10 DEF SaveOutcome, At
    <2>2. /\ call'[c] = NoCall /\ ~Busy(c)'
          /\ Save(c, call[c].dest, Outcome(c), call[c].fresh)
      BY <1>10, SaveMoves DEF Busy
    <2>3. UNCHANGED <<member, loose>>
      BY <1>10 DEF SaveOutcome, snsVars
    <2>4. /\ \A d \in Dest \ {call[c].dest} : row'[d] = row[d]
          /\ row'[call[c].dest] = Outcome(c)
          /\ \A d \in Dest : row[d].topic => row'[d].topic
      BY <1>1, <1>2, <1>10, <2>2, SavedRow, TopicsKept DEF OwnerStep
    <2>5. Outcome(c).status \in Left => Dropped(call[c].dest)
      <3>1. CASE call[c].op = "unsubscribe"
        BY <1>3, <2>1, <3>1 DEF CallDrops
      <3>2. CASE call[c].op # "unsubscribe"
        BY <1>3, <2>1, <3>2 DEF CallDrops, Outcome
      <3> QED
        BY <3>1, <3>2
    <2>6. \A d \in Dest : row'[d].status \in Left => Dropped(d)'
      BY <1>3, <2>3, <2>4, <2>5 DEF Dropped
    <2>7. Outcome(c).topic = call[c].copy.topic
      BY <1>1, OutcomeFacts
    <2>8. \A d \in Dest : member'[d] # "none" => row'[d].topic
      BY <1>3, <2>3, <2>4, <2>7
    <2> QED
      BY <1>1, <1>2, <2>2, <2>6, <2>8, MembersByCall
  <1>11. CASE CrashCall(c)
    BY <1>11, CrashMoves
  <1> QED
    BY <1>5, <1>6, <1>7, <1>8, <1>9, <1>10, <1>11 DEF OwnerStep

LEMMA MemberSteps ==
  ASSUME TypeOK, AgreementInv, CalmInv, TopicInv, MemberInv, [Next]_vars
  PROVE  MemberInv'
  (* Nobody joins, and nobody's mail is given up or taken back.            *)
  <1>1. ASSUME UNCHANGED <<row, call, deletion>>, ~overlapped' => ~overlapped, ~upset' => ~upset,
               \A d \in Dest : /\ Dropped(d) => Dropped(d)'
                               /\ member'[d] # "none" => member[d] # "none"
        PROVE  MemberInv'
    <2> SUFFICES ASSUME ~overlapped', ~upset' PROVE MemberInv'
      BY DEF MemberInv
    <2>1. /\ LeftAreDropped /\ MembersKnown
          /\ \A c \in Client : Busy(c) => CallDrops(c)
          /\ deletion # "none" => \A d \in Dest : member[d] = "none"
      BY <1>1 DEF MemberInv
    <2>2. LeftAreDropped' /\ MembersKnown'
      BY <1>1, <2>1 DEF LeftAreDropped, MembersKnown, Busy, At
    <2>3. ASSUME NEW c \in Client, Busy(c)' PROVE CallDrops(c)'
      <3>1. /\ Busy(c) /\ call[c].old \in Dest /\ call[c].dest \in Dest /\ call'[c] = call[c]
        BY <1>1, <2>3, CallFacts DEF Busy
      <3> QED
        BY <1>1, <2>1, <3>1 DEF CallDrops, Dropped
    <2>4. deletion' # "none" => \A d \in Dest : member'[d] = "none"
      BY <1>1, <2>1
    <2> QED
      BY <2>2, <2>3, <2>4 DEF MemberInv
  <1>2. CASE UNCHANGED vars
    BY <1>1, <1>2 DEF vars, ownerVars, snsVars, historyVars, Dropped
  <1>3. ASSUME NEW d \in Dest, Confirm(d) \/ OptOut(d)
        PROVE  MemberInv'
    <2>1. UNCHANGED <<row, call, deletion, overlapped, upset>>
      BY <1>3 DEF Confirm, OptOut, ownerVars, historyVars
    <2>2. \A e \in Dest : /\ Dropped(e) => Dropped(e)'
                          /\ member'[e] # "none" => member[e] # "none"
      <3>1. CASE Confirm(d)
        BY <3>1 DEF Confirm, Dropped, TypeOK
      <3>2. CASE OptOut(d)
        BY <3>2 DEF OptOut, Dropped, TypeOK
      <3> QED
        BY <1>3, <3>1, <3>2
    <2> QED
      BY <1>1, <2>1, <2>2
  <1>4. CASE BeginSending \/ EndSending
    BY <1>1, <1>4 DEF BeginSending, EndSending, ownerVars, snsVars, historyVars, Dropped
  <1>5. CASE Publish
    <2>1. /\ UNCHANGED <<row, call, deletion, overlapped, member, loose>>
          /\ ~upset' => ~upset
      BY <1>5 DEF Publish, ownerVars
    <2> QED
      BY <1>1, <2>1 DEF Dropped
  <1>6. CASE CleanUpFails
    <2>1. /\ UNCHANGED <<row, call, deletion, upset, loose>>
          /\ ~overlapped' => ~overlapped
      BY <1>6 DEF CleanUpFails, ownerVars
    <2>2. \A e \in Dest : member'[e] = "none" \/ member'[e] = member[e]
      BY <1>6 DEF CleanUpFails
    <2> QED
      BY <1>1, <2>1, <2>2 DEF Dropped
  <1>7. CASE CleanUp
    <2> SUFFICES ASSUME ~overlapped', ~upset' PROVE MemberInv'
      BY DEF MemberInv
    <2>1. /\ topic' = (topic /\ ~HasTopic) /\ deletion = "none" /\ ~upset /\ ~overlapped
          /\ \A c \in Client : ~Busy(c)
          /\ call' = call
      BY <1>7 DEF CleanUp, ownerVars
    <2>2. ~topic'
      BY <2>1 DEF TopicInv, TopicKnown, At
    <2>3. \A d \in Dest : member'[d] = "none"
      BY <1>7, <2>2 DEF CleanUp
    <2> QED
      BY <2>1, <2>3 DEF MemberInv, LeftAreDropped, MembersKnown, Dropped, Busy
  <1>8. CASE DeleteProject
    <2> SUFFICES ASSUME ~overlapped', ~upset' PROVE MemberInv'
      BY DEF MemberInv
    <2>1. /\ ~overlapped /\ ~upset /\ deletion = "cleaned" /\ UNCHANGED <<call, member>>
      BY <1>8 DEF DeleteProject, snsVars, historyVars
    <2>2. \A d \in Dest : member'[d] = "none"
      BY <2>1 DEF MemberInv
    <2>3. \A c \in Client : ~Busy(c)'
      BY <2>1 DEF CalmInv, IdleInDeletion, Busy
    <2> QED
      BY <2>2, <2>3 DEF MemberInv, LeftAreDropped, MembersKnown, Dropped
  <1>9. ASSUME NEW c \in Client, Starting(c)
        PROVE  MemberInv'
    <2> SUFFICES ASSUME ~overlapped', ~upset' PROVE MemberInv'
      BY DEF MemberInv
    <2>1. /\ ~overlapped /\ ~upset /\ deletion = "none" /\ deletion' = deletion
          /\ \A e \in Client : ~Busy(e)
          /\ Others(c) /\ UNCHANGED <<row, member>>
      BY <1>9, StartMoves
    <2>2. loose' = loose
      BY <1>9 DEF Starting, Subscribe, CallOnLatest, Start, snsVars
    <2>3. CallDrops(c)'
      <3>1. ASSUME NEW op, NEW at, NEW old, NEW dest, NEW copy, Start(c, op, at, old, dest, copy)
            PROVE  call'[c].op = op /\ call'[c].at = at
        BY <3>1 DEF Start, TypeOK
      <3>2. /\ call'[c].op = "unsubscribe" => call'[c].at = "ask"
            /\ call'[c].at \in {"ask", "find", "recreate"}
        BY <1>9, <3>1 DEF Starting, Subscribe, CallOnLatest
      <3> QED
        BY <3>2 DEF CallDrops
    <2>4. \A d \in Dest : /\ row'[d].status \in Left => Dropped(d)'
                          /\ member'[d] # "none" => row'[d].topic
      BY <2>1, <2>2 DEF MemberInv, LeftAreDropped, MembersKnown, Dropped, At
    <2> QED
      BY <2>1, <2>3, <2>4, MembersByCall
  <1> QED
    BY <1>2, <1>3, <1>4, <1>5, <1>6, <1>7, <1>8, <1>9, OwnerMembers DEF Next, Owner, Starting

(* No mail reaches a destination that the owner has replaced or left, for  *)
(* any number of destinations and calls, whoever confirms or opts out and  *)
(* whenever the project is deleted.                                        *)
THEOREM MailIsWanted == Spec => []MailWanted
  <1>1. Init => TypeOK /\ AgreementInv /\ CalmInv /\ TopicInv /\ MemberInv
    <2>1. Init => TypeOK /\ AgreementInv /\ CalmInv /\ TopicInv
      BY SubscriptionInit, AgreementInit, CalmInit DEF Init, TopicInv, TopicKnown
    <2>2. Init => MemberInv
      BY DEF Init, MemberInv, LeftAreDropped, MembersKnown, Dropped, Busy
    <2> QED
      BY <2>1, <2>2
  <1>2. TypeOK /\ AgreementInv /\ CalmInv /\ TopicInv /\ MemberInv /\ [Next]_vars
          => (TypeOK /\ AgreementInv /\ CalmInv /\ TopicInv /\ MemberInv)'
    BY SubscriptionSteps, AgreementSteps, CalmSteps, TopicSteps, MemberSteps
  <1>3. MemberInv => MailWanted
    BY DEF MemberInv, LeftAreDropped, MailWanted, Reached, Dropped, Left
  <1> QED
    BY <1>1, <1>2, <1>3, PTL DEF Spec
=============================================================================
