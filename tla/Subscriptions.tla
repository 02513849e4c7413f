--------------------------- MODULE Subscriptions ---------------------------
(***************************************************************************)
(* The e-mail subscription of one project's owner, its counterpart at      *)
(* Amazon SNS, and what the deletion of the project does with both.        *)
(*                                                                         *)
(* A call of the owner reads a subscription row, talks to SNS and saves    *)
(* the whole row; each of these is a step.  The topic's name is computed   *)
(* from the project, so there is at most one.  SNS is taken to be          *)
(* configured, and the kinds of events the owner may turn off to be on.    *)
(* Deliveries has the dispatchers; here they are the three actions that    *)
(* touch SNS.                                                              *)
(***************************************************************************)
EXTENDS Naturals

CONSTANTS
    Dest,        \* e-mail addresses the owner subscribes
    NoDest,
    Client,      \* calls of the owner in progress at a time
    MaxCall,     \* calls of the owner
    Faults       \* of "crash", "database", "sns"

ASSUME SubscriptionsAssumption ==
    /\ NoDest \notin Dest
    /\ MaxCall \in Nat

VARIABLES
    row,         \* [Dest -> its row of notification_subscriptions]
    latest,      \* the destination whose row was updated last
    call,        \* [Client -> the call in progress]
    made,        \* calls so far
    sending,     \* some dispatch saw a confirmed subscription
    deletion,    \* how far the deletion of the project is
    topic,       \* SNS has the project's topic
    member,      \* SNS: [Dest -> its subscription to that topic]
    agreed,      \* destinations whose recipient ever confirmed
    loose,       \* destinations given up without asking SNS
    overlapped,  \* two calls of the owner, or one and the deletion, overlapped
    upset        \* a call of the owner failed, or a dispatch revived the topic

ownerVars    == <<row, latest, call, made>>
snsVars      == <<topic, member, agreed, loose>>
historyVars  == <<overlapped, upset>>
vars == <<ownerVars, sending, deletion, snsVars, historyVars>>

Status == {"absent", "not_configured", "pending_confirmation", "confirmed",
           "error", "replaced", "unsubscribed"}
Listed == {"pending_confirmation", "confirmed"}

(* arn: "literal" is PendingConfirmation, which SNS says instead of one.   *)
Row    == [status : Status, arn : {"none", "literal", "real"}, topic : BOOLEAN]
NoRow  == [status |-> "absent", arn |-> "none", topic |-> FALSE]

(* fresh: copy, the entity in memory, was created and not read.            *)
Call   == [op : {"subscribe", "resend", "refresh", "unsubscribe"},
           at : {"ask", "replace", "find", "recreate", "create", "save"},
           old : Dest, dest : Dest, copy : Row, fresh : BOOLEAN]
NoCall == [op |-> "none"]

TypeOK ==
    /\ row \in [Dest -> Row]
    /\ latest \in Dest \cup {NoDest}
    /\ call \in [Client -> Call \cup {NoCall}]
    /\ sending \in BOOLEAN
    /\ made \in 0 .. MaxCall
    /\ deletion \in {"none", "cleaned", "deleted"}
    /\ topic \in BOOLEAN
    /\ member \in [Dest -> {"none", "pending", "confirmed"}]
    /\ agreed \subseteq Dest
    /\ loose \subseteq Dest
    /\ overlapped \in BOOLEAN
    /\ upset \in BOOLEAN

Init ==
    /\ row = [d \in Dest |-> NoRow]
    /\ latest = NoDest
    /\ call = [c \in Client |-> NoCall]
    /\ sending = FALSE
    /\ made = 0
    /\ deletion = "none"
    /\ topic = FALSE
    /\ member = [d \in Dest |-> "none"]
    /\ agreed = {}
    /\ loose = {}
    /\ overlapped = FALSE
    /\ upset = FALSE

Exists == deletion # "deleted"
Fault(f) == f \in Faults

-----------------------------------------------------------------------------
(***************************************************************************)
(* Calls of the owner begin with the row updated last.                     *)
(***************************************************************************)
Busy(c) == call[c] # NoCall
At(c, at) == Busy(c) /\ call[c].at = at

Start(c, op, at, old, dest, copy) ==
    /\ Exists
    /\ ~Busy(c)
    /\ made < MaxCall
    /\ made' = made + 1
    /\ call' = [call EXCEPT ![c] = [op |-> op, at |-> at, old |-> old, dest |-> dest,
                                    copy |-> copy, fresh |-> FALSE]]
    /\ overlapped' = (overlapped \/ deletion # "none" \/ \E d \in Client : Busy(d))
    /\ UNCHANGED <<row, latest, sending, deletion, snsVars, upset>>

KeepsCurrent(d) == TRUE     \* mutant: the current destination is not replaced

KeepsDestination(d) == latest \in {NoDest, d}

Subscribe(c, d) ==
    IF KeepsDestination(d)
    THEN Start(c, "subscribe", "find", d, d, row[d])
    ELSE Start(c, "subscribe", "ask", latest, d, row[latest])

(* settings refreshes, too, before it answers.                             *)
CallOnLatest(c) ==
    /\ latest # NoDest
    /\ \/ Start(c, "resend", "recreate", latest, latest, row[latest])
       \/ Start(c, "refresh", "find", latest, latest, row[latest])
       \/ Start(c, "unsubscribe", "ask", latest, latest, row[latest])

Goto(c, at)       == call' = [call EXCEPT ![c].at = at]
Hold(c, at, copy) == call' = [call EXCEPT ![c].at = at, ![c].copy = copy]
Finish(c)         == call' = [call EXCEPT ![c] = NoCall]

(* The owner gets an error, or the process dies.                           *)
Abandon(c) ==
    /\ Finish(c)
    /\ upset' = TRUE

CrashCall(c) ==
    /\ Fault("crash")
    /\ Busy(c)
    /\ Abandon(c)
    /\ UNCHANGED <<made, row, latest, sending, deletion, snsVars, overlapped>>

(***************************************************************************)
(* SnsNotificationAdapter.unsubscribe asks SNS only when it has an ARN.    *)
(* SNS refuses while the subscription is pending, as the adapter's         *)
(* subscriptionAlreadyAbsentOrPending tells.                               *)
(***************************************************************************)
NeverRefused(c) == FALSE    \* mutant: a pending subscription counts as dropped

Refused(c) == call[c].copy.arn = "real" /\ member[call[c].old] = "pending"

Ask(c) ==
    LET d    == call[c].old
        real == call[c].copy.arn = "real"
    IN  /\ At(c, "ask")
        /\ \/ /\ ~Refused(c)
              /\ member' = [member EXCEPT ![d] = IF real /\ @ = "confirmed" THEN "none" ELSE @]
              /\ loose' = IF real THEN loose ELSE loose \cup {d}
              /\ Goto(c, IF call[c].op = "subscribe" THEN "replace" ELSE "save")
              /\ UNCHANGED upset
           \/ /\ Refused(c) \/ (real /\ Fault("sns"))
              /\ Abandon(c)
              /\ UNCHANGED <<member, loose>>
        /\ UNCHANGED <<row, latest, made, sending, deletion, topic, agreed, overlapped>>

(***************************************************************************)
(* save(entity).  It inserts an entity that was not read from a row, which *)
(* the unique index refuses when there is one by now and the foreign key   *)
(* when the project is gone.  updatedAt moves when a column changes, as    *)
(* confirmedAt always does and lastError may.                              *)
(***************************************************************************)
Updated(d, new) ==
    IF new # row[d] \/ new.status = "confirmed" THEN {d}
    ELSE IF new.status = "error" THEN {d, latest}
    ELSE {latest}

Save(c, d, new, fresh) ==
    /\ Exists
    /\ fresh => row[d] = NoRow
    /\ row' = [row EXCEPT ![d] = new]
    /\ latest' \in Updated(d, new)
    /\ UNCHANGED upset

SaveRefused(c, d, fresh) ==
    /\ ~Exists \/ (fresh /\ row[d] # NoRow) \/ Fault("database")
    /\ Abandon(c)
    /\ UNCHANGED <<row, latest>>

Replace(c) ==
    LET old == call[c].old
    IN  /\ At(c, "replace")
        /\ \/ /\ Save(c, old, [call[c].copy EXCEPT !.status = "replaced"], FALSE)
              /\ Goto(c, "find")
           \/ SaveRefused(c, old, FALSE)
        /\ UNCHANGED <<made, sending, deletion, snsVars, overlapped>>

(***************************************************************************)
(* What findSubscription sees at SNS for a destination.                    *)
(***************************************************************************)
Found(d, mine) ==
    IF ~mine.topic THEN "nothing"
    ELSE IF member[d] = "confirmed" THEN "confirmed"
    ELSE IF member[d] = "pending" \/ mine.arn = "literal" THEN "pending_confirmation"
    ELSE "nothing"

AsFound(mine, found) ==
    [mine EXCEPT !.status = found,
                 !.arn = IF found = "confirmed" THEN "real"
                         ELSE IF @ = "none" THEN "literal" ELSE @]

Cleared(mine) == [mine EXCEPT !.status = "not_configured", !.arn = "none"]

Errored(copy) == [copy EXCEPT !.status = "error"]

(* subscribe looks for the row of the destination or creates an entity     *)
(* with the topic of the current one; refreshStatus has read its row.      *)
Mine(c) ==
    LET d == call[c].dest
    IN  IF call[c].op = "refresh" THEN call[c].copy
        ELSE IF row[d] # NoRow THEN row[d]
        ELSE [NoRow EXCEPT !.topic = call[c].copy.topic]

Read(c, at, copy) ==
    call' = [call EXCEPT ![c].at = at, ![c].copy = copy,
                         ![c].fresh = call[c].op = "subscribe" /\ row[call[c].dest] = NoRow]

Find(c) ==
    LET mine  == Mine(c)
        found == Found(call[c].dest, mine)
    IN  /\ At(c, "find")
        /\ \/ /\ mine.topic /\ (~topic \/ Fault("sns"))
              /\ Read(c, "save", Errored(mine))
           \/ /\ mine.topic => topic
              /\ IF found # "nothing" THEN Read(c, "save", AsFound(mine, found))
                 ELSE IF call[c].op = "subscribe" THEN Read(c, "create", mine)
                 ELSE IF mine.status # "confirmed" THEN Finish(c)
                 ELSE Read(c, "save", Cleared(mine))
        /\ UNCHANGED <<made, row, latest, sending, deletion, snsVars, historyVars>>

(* recreateSubscription deletes the topic, with all that subscribed to it. *)
Recreate(c) ==
    /\ At(c, "recreate")
    /\ \/ /\ topic' = (topic /\ ~call[c].copy.topic)
          /\ Goto(c, "create")
       \/ /\ Fault("sns") /\ call[c].copy.topic
          /\ topic' \in {topic, FALSE}
          /\ Hold(c, "save", Errored(call[c].copy))
    /\ member' = IF topic' THEN member ELSE [d \in Dest |-> "none"]
    /\ UNCHANGED <<made, row, latest, sending, deletion, agreed, loose, historyVars>>

(***************************************************************************)
(* CreateTopic and Subscribe.  "Only a provider lookup may promote an email*)
(* subscription to confirmed."  Either may fail, after it did its work too.*)
(***************************************************************************)
SubscribedAtOnce(copy) == [status |-> "confirmed", arn |-> "real", topic |-> TRUE]
                            \* mutant: an ARN is taken for a confirmation

Subscribed(copy) == [status |-> "pending_confirmation", arn |-> "real", topic |-> TRUE]

Invite(d) ==
    /\ topic' = TRUE
    /\ member' = [member EXCEPT ![d] = IF @ = "confirmed" THEN @ ELSE "pending"]
    /\ loose' = loose \ {d}

Create(c) ==
    /\ At(c, "create")
    /\ \/ /\ Invite(call[c].dest)
          /\ Hold(c, "save", Subscribed(call[c].copy))
          /\ UNCHANGED upset
       \/ /\ Fault("sns")
          /\ \/ Invite(call[c].dest)
             \/ topic' \in {topic, TRUE} /\ UNCHANGED <<member, loose>>
          /\ Hold(c, "save", Errored(call[c].copy))
          /\ upset' = TRUE
    /\ UNCHANGED <<made, row, latest, sending, deletion, agreed, overlapped>>

Outcome(c) ==
    IF call[c].op = "unsubscribe" THEN [call[c].copy EXCEPT !.status = "unsubscribed"]
    ELSE call[c].copy

SaveOutcome(c) ==
    LET d == call[c].dest
    IN  /\ At(c, "save")
        /\ \/ /\ Save(c, d, Outcome(c), call[c].fresh)
              /\ Finish(c)
           \/ SaveRefused(c, d, call[c].fresh)
        /\ UNCHANGED <<made, sending, deletion, snsVars, overlapped>>

(* The recipient follows the link of an invitation, or that of an e-mail.  *)
Confirm(d) ==
    /\ member[d] = "pending"
    /\ member' = [member EXCEPT ![d] = "confirmed"]
    /\ agreed' = agreed \cup {d}
    /\ UNCHANGED <<ownerVars, sending, deletion, topic, loose, historyVars>>

OptOut(d) ==
    /\ member[d] = "confirmed"
    /\ member' = [member EXCEPT ![d] = "none"]
    /\ loose' = loose \ {d}
    /\ UNCHANGED <<ownerVars, sending, deletion, topic, agreed, historyVars>>

-----------------------------------------------------------------------------
(***************************************************************************)
(* Deletion of the project: SNS is cleaned up of what the rows name, then  *)
(* a transaction deletes the project with everything that refers to it.    *)
(***************************************************************************)
HasConfirmedTopic ==        \* mutant: the topic of a destination that is not confirmed is left
    \E d \in Dest : row[d].topic /\ row[d].status = "confirmed"

HasTopic == \E d \in Dest : row[d].topic

Unowned  == \E d \in Dest : row[d].arn = "literal" /\ ~row[d].topic

(* A pending subscription without an owned topic is refused.               *)
CleanUp ==
    /\ deletion = "none"
    /\ ~Unowned
    /\ deletion' = "cleaned"
    /\ topic' = (topic /\ ~HasTopic)
    /\ member' = [d \in Dest |-> IF topic' /\ (row[d].arn = "real" => member[d] = "pending")
                               THEN member[d] ELSE "none"]
    /\ overlapped' = (overlapped \/ \E c \in Client : Busy(c))
    /\ UNCHANGED <<ownerVars, sending, agreed, loose, upset>>

(* Some subscriptions may be removed before the clean-up fails.            *)
CleanUpFails ==
    /\ deletion = "none"
    /\ Unowned \/ Fault("sns")
    /\ \E gone \in SUBSET {d \in Dest : row[d].arn = "real"} :
          member' = [d \in Dest |-> IF d \in gone /\ member[d] = "confirmed" THEN "none" ELSE member[d]]
    /\ overlapped' = (overlapped \/ \E c \in Client : Busy(c))
    /\ UNCHANGED <<ownerVars, sending, deletion, topic, agreed, loose, upset>>

DeleteProject ==
    /\ deletion = "cleaned"
    /\ deletion' = "deleted"
    /\ row' = [d \in Dest |-> NoRow]
    /\ latest' = NoDest
    /\ UNCHANGED <<made, call, sending, snsVars, historyVars>>

-----------------------------------------------------------------------------
(***************************************************************************)
(* What dispatchers do to SNS: once one saw a confirmed subscription it    *)
(* publishes, later and up to three times, to whoever is a member by then. *)
(***************************************************************************)
BeginSending ==
    /\ ~sending
    /\ \E d \in Dest : row[d].status = "confirmed"
    /\ sending' = TRUE
    /\ UNCHANGED <<ownerVars, deletion, snsVars, historyVars>>

(* send: CreateTopic is called first.                                      *)
Publish ==
    /\ sending
    /\ topic' = TRUE
    /\ upset' = (upset \/ deletion \in {"cleaned", "deleted"})
    /\ UNCHANGED <<ownerVars, sending, deletion, member, agreed, loose, overlapped>>

EndSending ==
    /\ sending
    /\ sending' = FALSE
    /\ UNCHANGED <<ownerVars, deletion, snsVars, historyVars>>

-----------------------------------------------------------------------------
OwnerStep(c) ==
    \/ Ask(c) \/ Replace(c) \/ Find(c) \/ Recreate(c) \/ Create(c)
    \/ SaveOutcome(c)

Owner ==
    \E c \in Client : \/ \E d \in Dest : Subscribe(c, d)
                      \/ CallOnLatest(c)
                      \/ OwnerStep(c)
                      \/ CrashCall(c)

Next ==
    \/ Owner
    \/ BeginSending \/ Publish \/ EndSending
    \/ \E d \in Dest : Confirm(d) \/ OptOut(d)
    \/ CleanUp \/ CleanUpFails \/ DeleteProject

Spec == Init /\ [][Next]_vars

-----------------------------------------------------------------------------
(***************************************************************************)
(* Properties.                                                             *)
(***************************************************************************)

(* A destination is confirmed in the database only if its recipient did so.*)
ConfirmedByRecipient ==
    \A d \in Dest : row[d].status = "confirmed" => d \in agreed

(* Until two calls of the owner overlap, one destination at most awaits or *)
(* gets e-mail, and it is the one later calls will work on.                *)
OneDestination ==
    ~overlapped => \A d \in Dest : row[d].status \in Listed => latest = d

(* Until calls overlap or fail, no message can reach a destination that    *)
(* the owner has replaced or left, unless it was given up without an ARN.  *)
Reached(d) == sending /\ topic /\ member[d] = "confirmed"

MailWanted ==
    ~overlapped /\ ~upset =>
        \A d \in Dest : Reached(d) /\ row[d].status \in {"replaced", "unsubscribed"} =>
            d \in loose \/ \E c \in Client : Busy(c) /\ call[c].dest = d

(* The topic goes with the project, unless a call failed or overlapped, or *)
(* a dispatch created it again after the clean-up.                         *)
TopicGoes == deletion = "deleted" /\ ~overlapped /\ ~upset => ~topic
=============================================================================
