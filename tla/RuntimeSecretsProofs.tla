------------------------ MODULE RuntimeSecretsProofs ------------------------
(***************************************************************************)
(* Theorems about RuntimeSecrets, for any number of services, versions and *)
(* operations.                                                             *)
(***************************************************************************)
EXTENDS RuntimeSecrets, TLAPS

-----------------------------------------------------------------------------
(***************************************************************************)
(* The inductive invariant.                                                *)
(***************************************************************************)

(* A secret that is not there is empty, and a stage is on a version.       *)
Consistent ==
    \A s \in Service :
        /\ secret[s].state = "none" => secret[s] = NoSecret
        /\ Labelled(secret[s]) \subseteq secret[s].versions

UnderWay == operation.at \in {"materializing", "ready", "compensating"}

(* What the dispatcher has materialized exists.                            *)
Prepared ==
    /\ operation.at = "ready" => operation.next = Services + 1
    /\ operation.at \in {"materializing", "ready"} =>
          \A s \in Service : s < operation.next =>
              operation.config[s] \in secret[s].versions \cup {NoToken}

(* Nobody reads from a secret that the operation under way created.        *)
CreatedUnread ==
    UnderWay => \A s \in Service : change[s].kind = "created" => pins[s] = {}

PinInv == Consistent /\ Prepared /\ CreatedUnread /\ PinnedVersionsExist

(* What is recorded of a service is enough to take its change back.        *)
Recorded(s) ==
    /\ change[s].kind = "none" => secret[s].current = before[s]
    /\ change[s].kind = "created" => before[s] = NoToken
    /\ change[s].kind = "activated" =>
          /\ change[s].previous = before[s]
          /\ secret[s].current \in {before[s], operation.config[s]}

TakeBackInv ==
    \A s \in Service :
        /\ operation.at = "materializing" /\ s >= operation.next => change[s].kind = "none"
        /\ s \notin doubtful =>
              /\ operation.at \in {"materializing", "ready"} => Recorded(s)
              /\ operation.at = "compensating" =>
                    IF s <= operation.next THEN Recorded(s) ELSE secret[s].current = before[s]
              /\ operation.at = "refused" => secret[s].current = before[s]

SecretsInv == TypeOK /\ PinInv /\ TakeBackInv

-----------------------------------------------------------------------------
LEMMA InitTypeOK == Init => TypeOK
  BY SecretsAssumption DEF Init, TypeOK, NoSecret, NoChange, NoConfig, Service,
     Secret, Operation, Change, Stages

LEMMA VersionsMove ==
    ASSUME NEW x \in Secret, NEW t \in Token \cup {NoToken}
    PROVE  /\ Moved(x, t) \in Secret
           /\ t \in Token => PutInto(x, t) \in Secret
<1>1. Moved(x, t) \in Secret
  BY DEF Moved, Secret
<1>2. ASSUME t \in Token PROVE PutInto(x, t) \in Secret
  BY <1>2 DEF PutInto, Secret
<1> QED
  BY <1>1, <1>2

LEMMA OperationMoves ==
    ASSUME TypeOK, NEW a \in Stages, NEW n \in 0 .. Services + 1
    PROVE  /\ [operation EXCEPT !.at = a] \in Operation
           /\ [operation EXCEPT !.next = n] \in Operation
           /\ [operation EXCEPT !.at = a, !.next = n] \in Operation
  BY DEF TypeOK, Operation

LEMMA NextTypeOK == TypeOK /\ [Next]_vars => TypeOK'
<1> SUFFICES ASSUME TypeOK, [Next]_vars PROVE TypeOK'
  OBVIOUS
<1> USE SecretsAssumption DEF TypeOK
<1>a. \A a \in Stages : [operation EXCEPT !.at = a] \in Operation
  <2> SUFFICES ASSUME NEW a \in Stages PROVE [operation EXCEPT !.at = a] \in Operation
    OBVIOUS
  <2>1. 0 \in 0 .. Services + 1
    OBVIOUS
  <2> QED
    BY <2>1, OperationMoves
<1>b. \A s \in Service : /\ [operation EXCEPT !.next = s + 1] \in Operation
                        /\ [operation EXCEPT !.next = s - 1] \in Operation
  <2> SUFFICES ASSUME NEW s \in Service
               PROVE  /\ [operation EXCEPT !.next = s + 1] \in Operation
                      /\ [operation EXCEPT !.next = s - 1] \in Operation
    OBVIOUS
  <2>1. s + 1 \in 0 .. Services + 1 /\ s - 1 \in 0 .. Services + 1 /\ "idle" \in Stages
    BY DEF Service, Stages
  <2> QED
    BY <2>1, OperationMoves
<1>c. [operation EXCEPT !.at = "compensating", !.next = Services] \in Operation
  <2>1. Services \in 0 .. Services + 1 /\ "compensating" \in Stages
    BY DEF Stages
  <2> QED
    BY <2>1, OperationMoves
<1>0. CASE UNCHANGED vars
  BY <1>0 DEF vars
<1>1. ASSUME NEW config \in [Service -> Token \cup {NoToken}], AdmitDeploy(config)
      PROVE  TypeOK'
  BY <1>1 DEF AdmitDeploy, secretVars, NoChange, Change, Operation, Stages, Current, Secret, Service
<1>2. ASSUME NEW s \in Service, NothingToChange(s) PROVE TypeOK'
  BY <1>2, <1>b DEF NothingToChange, secretVars, ghostVars
<1>3. ASSUME NEW s \in Service, NEW x \in Secret, NEW c \in Change, Materializing(s), Answered(s, x, c)
      PROVE  TypeOK'
  <2>1. operation' \in Operation
    BY <1>3, <1>b, <1>c DEF Answered
  <2> QED
    BY <1>3, <2>1 DEF Answered
<1>4. ASSUME NEW s \in Service, CreateSecret(s) PROVE TypeOK'
  <2>1. operation.config[s] \in Token
    BY <1>4 DEF CreateSecret, Operation
  <2>2. Created(operation.config[s]) \in Secret /\ [NoChange EXCEPT !.kind = "created"] \in Change
    BY <2>1 DEF Created, Secret, NoChange, Change
  <2> QED
    BY <2>2, <1>3, <1>4 DEF CreateSecret
<1>5. ASSUME NEW s \in Service, RestoreSecret(s) PROVE TypeOK'
  BY <1>5 DEF RestoreSecret, ghostVars, Secret
<1>6. ASSUME NEW s \in Service, ActivateVersion(s) PROVE TypeOK'
  <2> DEFINE t == operation.config[s]
             x == IF t \in Labelled(secret[s]) THEN Moved(secret[s], t) ELSE PutInto(secret[s], t)
             c == [kind |-> "activated", previous |-> secret[s].current]
  <2>1. t \in Token
    BY <1>6 DEF ActivateVersion, ActivateRecorded, Operation
  <2>2. x \in Secret
    <3>1. secret[s] \in Secret
      OBVIOUS
    <3> QED
      BY <2>1, <3>1, VersionsMove
  <2>3. c \in Change
    <3>1. secret[s].current \in Token \cup {NoToken}
      BY DEF Secret
    <3> QED
      BY <3>1 DEF Change
  <2>4. Materializing(s) /\ Answered(s, x, c)
    BY <1>6 DEF ActivateVersion, ActivateRecorded
  <2> HIDE DEF x, c
  <2> QED
    BY <2>2, <2>3, <2>4, <1>3
<1>7. ASSUME NEW s \in Service, TakeBack(s) PROVE TypeOK'
  <2>1. TakenBack(s) \in Secret
    <3>1. secret[s] \in Secret /\ change[s].previous \in Token \cup {NoToken}
      BY DEF Change
    <3>2. NoSecret \in Secret
      BY DEF NoSecret, Secret
    <3> QED
      BY <3>1, <3>2, VersionsMove DEF TakenBack
  <2> QED
    BY <1>7, <1>b, <2>1 DEF TakeBack, ghostVars
<1>8. ASSUME NEW s \in Service, NothingToTakeBack(s) \/ TakingBackFails(s) PROVE TypeOK'
  BY <1>8, <1>b DEF NothingToTakeBack, TakingBackFails, secretVars, ghostVars
<1>9. ASSUME NEW s \in Service, DeleteSecret(s) \/ ScheduleDeletion(s) PROVE TypeOK'
  <2>1. NoSecret \in Secret /\ [secret[s] EXCEPT !.state = "pending"] \in Secret
    BY DEF NoSecret, Secret
  <2>2. secret' \in [Service -> Secret]
    BY <1>9, <2>1 DEF DeleteSecret, ScheduleDeletion
  <2>3. pins' \in [Service -> SUBSET Token]
    BY <1>9 DEF DeleteSecret, ScheduleDeletion
  <2> QED
    BY <1>9, <2>2, <2>3 DEF DeleteSecret, ScheduleDeletion, ghostVars
<1>10. CASE Materialized \/ DispatchFails \/ Compensated
  <2>1. "ready" \in Stages /\ "refused" \in Stages
    BY DEF Stages
  <2>2. operation' \in Operation
    BY <1>10, <1>a, <1>c, <2>1 DEF Materialized, DispatchFails, Compensated
  <2>3. UNCHANGED <<secret, pins, change, before, doubtful, ops>>
    BY <1>10 DEF Materialized, DispatchFails, Compensated, secretVars, ghostVars
  <2> QED
    BY <2>2, <2>3
<1>11. CASE Dispatched \/ CaptureFailure \/ AdmitDestroy \/ DestroyEnds
  <2>1. Idle \in Operation /\ [Idle EXCEPT !.at = "destroying"] \in Operation
    BY DEF Idle, NoConfig, Operation, Stages
  <2>2. operation.config \in [Service -> Token \cup {NoToken}]
    BY DEF Operation
  <2> QED
    BY <1>11, <2>1, <2>2 DEF Dispatched, CaptureFailure, AdmitDestroy, DestroyEnds, secretVars, ghostVars
<1> QED
  BY <1>0, <1>1, <1>2, <1>4, <1>5, <1>6, <1>7, <1>8, <1>9, <1>10, <1>11 DEF Next

-----------------------------------------------------------------------------
LEMMA InitSecretsInv == Init => SecretsInv
<1> SUFFICES ASSUME Init PROVE SecretsInv
  OBVIOUS
<1>1. TypeOK
  BY InitTypeOK
<1>2. PinInv
  BY DEF Init, PinInv, Consistent, Prepared, CreatedUnread, PinnedVersionsExist,
         UnderWay, Labelled, NoSecret
<1>3. TakeBackInv
  BY DEF Init, TakeBackInv
<1> QED
  BY <1>1, <1>2, <1>3 DEF SecretsInv

(* A change that is answered or lost, of a service whose materialization   *)
(* it is.                                                                  *)
LEMMA AnsweredKeepsInv ==
    ASSUME SecretsInv, TypeOK',
           NEW s \in Service, NEW x, NEW c \in Change,
           Materializing(s), Answered(s, x, c),
           x.state # "none", Labelled(x) \subseteq x.versions,
           secret[s].versions \cup {operation.config[s]} \subseteq x.versions,
           c.kind # "none",
           c.kind = "created" => secret[s].state = "none",
           c.kind = "activated" => /\ c.previous = secret[s].current
                                   /\ x.current \in {secret[s].current, operation.config[s]}
    PROVE  SecretsInv'
<1> USE SecretsAssumption
<1>t. TypeOK
  BY DEF SecretsInv
<1>n. operation.next = s /\ operation.at = "materializing" /\ s \in Int /\ Services \in Int
  BY DEF Materializing, SecretsAssumption, Service
<1>s. secret'[s] = x /\ \A r \in Service \ {s} : secret'[r] = secret[r]
  BY <1>t DEF Answered, TypeOK
<1>1. CASE /\ operation' = [operation EXCEPT !.next = s + 1]
           /\ change' = [change EXCEPT ![s] = c]
           /\ UNCHANGED doubtful
  <2>o. operation'.at = "materializing" /\ operation'.next = s + 1 /\ operation'.config = operation.config
    BY <1>1, <1>t, <1>n DEF TypeOK, Operation
  <2>c. change'[s] = c /\ \A r \in Service \ {s} : change'[r] = change[r]
    BY <1>1, <1>t DEF TypeOK
  <2>1. PinInv'
    <3>1. Consistent'
      BY <1>s DEF SecretsInv, PinInv, Consistent
    <3>2. Prepared'
      BY <1>s, <1>n, <2>o DEF SecretsInv, PinInv, Prepared, Service
    <3>3. CreatedUnread'
      BY <1>s, <1>n, <2>o, <2>c DEF SecretsInv, PinInv, CreatedUnread, UnderWay, Answered,
         PinnedVersionsExist, Consistent, NoSecret
    <3>4. PinnedVersionsExist'
      BY <1>s DEF SecretsInv, PinInv, PinnedVersionsExist, Answered
    <3> QED
      BY <3>1, <3>2, <3>3, <3>4 DEF PinInv
  <2>2. TakeBackInv'
    <3> SUFFICES ASSUME NEW r \in Service
                 PROVE  /\ r >= s + 1 => change'[r].kind = "none"
                        /\ r \notin doubtful => Recorded(r)'
      BY <2>o, <1>1 DEF TakeBackInv
    <3>1. CASE r = s
      BY <3>1, <1>1, <1>n, <1>s, <2>o, <2>c DEF SecretsInv, TakeBackInv, Recorded, Answered,
         PinInv, Consistent, NoSecret, Change
    <3>2. CASE r # s
      BY <3>2, <1>n, <1>s, <2>o, <2>c DEF SecretsInv, TakeBackInv, Recorded, Answered, Service
    <3> QED
      BY <3>1, <3>2
  <2> QED
    BY <2>1, <2>2 DEF SecretsInv
<1>2. CASE /\ operation' = [operation EXCEPT !.at = "compensating", !.next = Services]
           /\ doubtful' = doubtful \cup {s}
           /\ UNCHANGED change
  <2>o. operation'.at = "compensating" /\ operation'.next = Services /\ operation'.config = operation.config
    BY <1>2, <1>t DEF TypeOK, Operation
  <2>1. PinInv'
    <3>1. Consistent'
      BY <1>s DEF SecretsInv, PinInv, Consistent
    <3>2. Prepared'
      BY <2>o DEF Prepared
    <3>3. CreatedUnread'
      BY <1>2, <1>n DEF SecretsInv, PinInv, CreatedUnread, UnderWay, Answered
    <3>4. PinnedVersionsExist'
      BY <1>s DEF SecretsInv, PinInv, PinnedVersionsExist, Answered
    <3> QED
      BY <3>1, <3>2, <3>3, <3>4 DEF PinInv
  <2>2. TakeBackInv'
    <3> SUFFICES ASSUME NEW r \in Service, r \notin doubtful'
                 PROVE  IF r <= Services THEN Recorded(r)' ELSE secret'[r].current = before'[r]
      BY <2>o DEF TakeBackInv
    <3>1. r # s /\ r <= Services
      BY <1>2 DEF Service
    <3> QED
      BY <3>1, <1>2, <1>n, <1>s, <2>o DEF SecretsInv, TakeBackInv, Recorded, Answered
  <2> QED
    BY <2>1, <2>2 DEF SecretsInv
<1> QED
  BY <1>1, <1>2 DEF Answered

(* The steps that change no secret and no record, nor what was before.     *)
LEMMA MovingOnKeepsInv ==
    ASSUME SecretsInv, TypeOK', UNCHANGED <<secret, change, pins, before>>,
           doubtful \subseteq doubtful', operation'.config = operation.config,
           \/ /\ operation.at = "materializing" /\ operation'.at = "materializing"
              /\ \E s \in Service : /\ operation.next = s /\ operation'.next = s + 1
                                    /\ operation.config[s] \in secret[s].versions \cup {NoToken}
           \/ operation.at = "materializing" /\ operation'.at = "ready"
              /\ operation.next = Services + 1 /\ operation'.next = Services + 1
           \/ operation.at \in {"materializing", "ready"} /\ operation'.at = "compensating"
              /\ operation'.next = Services
           \/ /\ operation.at = "compensating" /\ operation'.at = "compensating"
              /\ \E s \in Service : /\ operation.next = s /\ operation'.next = s - 1
                                    /\ s \in doubtful' \/ secret[s].current = before[s]
           \/ operation.at = "compensating" /\ operation'.at = "refused" /\ operation.next = 0
    PROVE  SecretsInv'
<1> USE SecretsAssumption DEF SecretsAssumption
<1>1. PinInv'
  <2>1. Consistent' /\ PinnedVersionsExist'
    BY DEF SecretsInv, PinInv, Consistent, PinnedVersionsExist, Labelled
  <2>2. CreatedUnread'
    BY DEF SecretsInv, PinInv, CreatedUnread, UnderWay
  <2>3. Prepared'
    BY DEF SecretsInv, PinInv, Prepared, Service
  <2> QED
    BY <2>1, <2>2, <2>3 DEF PinInv
<1>2. TakeBackInv'
  <2> SUFFICES ASSUME NEW r \in Service
               PROVE  /\ operation'.at = "materializing" /\ r >= operation'.next => change[r].kind = "none"
                      /\ r \notin doubtful' =>
                            /\ operation'.at \in {"materializing", "ready"} => Recorded(r)
                            /\ operation'.at = "compensating" =>
                                  IF r <= operation'.next THEN Recorded(r)
                                  ELSE secret[r].current = before[r]
                            /\ operation'.at = "refused" => secret[r].current = before[r]
    BY DEF TakeBackInv, Recorded
  <2>1. /\ operation.at = "materializing" /\ r >= operation.next => change[r].kind = "none"
        /\ r \notin doubtful =>
              /\ operation.at \in {"materializing", "ready"} => Recorded(r)
              /\ operation.at = "compensating" =>
                    IF r <= operation.next THEN Recorded(r) ELSE secret[r].current = before[r]
    BY DEF SecretsInv, TakeBackInv
  <2>2. r \in Int /\ Services \in Int /\ r >= 1 /\ r <= Services
    BY DEF Service
  <2> HIDE DEF SecretsInv, Recorded
  <2>3. CASE operation.at = "materializing" /\ operation'.at = "materializing"
    BY <2>1, <2>2, <2>3 DEF Service
  <2>4. CASE operation.at = "materializing" /\ operation'.at = "ready"
    BY <2>1, <2>4
  <2>5. CASE operation.at \in {"materializing", "ready"} /\ operation'.at = "compensating"
    BY <2>1, <2>2, <2>5
  <2>6. CASE operation.at = "compensating" /\ operation'.at = "compensating"
    <3>1. PICK s \in Service : /\ operation.next = s /\ operation'.next = s - 1
                               /\ s \in doubtful' \/ secret[s].current = before[s]
      BY <2>6
    <3> QED
      BY <2>1, <2>2, <2>6, <3>1 DEF Service
  <2>7. CASE operation.at = "compensating" /\ operation'.at = "refused"
    BY <2>1, <2>2, <2>7
  <2> QED
    BY <2>3, <2>4, <2>5, <2>6, <2>7
<1> QED
  BY <1>1, <1>2 DEF SecretsInv

LEMMA NextSecretsInv == SecretsInv /\ [Next]_vars => SecretsInv'
<1> SUFFICES ASSUME SecretsInv, [Next]_vars PROVE SecretsInv'
  OBVIOUS
<1> USE SecretsAssumption
<1>t. TypeOK /\ TypeOK'
  BY NextTypeOK DEF SecretsInv
<1>0. CASE UNCHANGED vars
  BY <1>0 DEF vars, SecretsInv, TypeOK, PinInv, Consistent, Prepared, CreatedUnread, UnderWay,
     PinnedVersionsExist, TakeBackInv, Recorded, Labelled
<1>1. ASSUME NEW config \in [Service -> Token \cup {NoToken}], AdmitDeploy(config)
      PROVE  SecretsInv'
  <2>1. /\ operation'.at = "materializing" /\ operation'.next = 1
        /\ UNCHANGED <<secret, pins>>
        /\ \A s \in Service : change'[s].kind = "none" /\ before'[s] = secret[s].current
    BY <1>1 DEF AdmitDeploy, secretVars, NoChange, Current
  <2>2. PinInv'
    <3>1. Consistent' /\ PinnedVersionsExist' /\ CreatedUnread'
      BY <2>1 DEF SecretsInv, PinInv, Consistent, CreatedUnread, PinnedVersionsExist, Labelled
    <3>2. Prepared'
      BY <2>1 DEF Prepared, Service
    <3> QED
      BY <3>1, <3>2 DEF PinInv
  <2>3. TakeBackInv'
    BY <2>1 DEF TakeBackInv, Recorded
  <2> QED
    BY <2>2, <2>3, <1>t DEF SecretsInv
<1>2. ASSUME NEW s \in Service, NothingToChange(s) PROVE SecretsInv'
  <2>1. /\ operation.at = "materializing" /\ operation'.at = "materializing"
        /\ operation.next = s /\ operation'.next = s + 1
        /\ operation'.config = operation.config
    BY <1>2, <1>t DEF NothingToChange, Materializing, TypeOK, Operation
  <2>2. operation.config[s] \in secret[s].versions \cup {NoToken}
    BY <1>2 DEF NothingToChange, SecretsInv, PinInv, Consistent, Labelled
  <2>3. UNCHANGED <<secret, change, pins, before, doubtful>>
    BY <1>2 DEF NothingToChange, secretVars, ghostVars
  <2> QED
    BY <2>1, <2>2, <2>3, <1>t, MovingOnKeepsInv
<1>3. ASSUME NEW s \in Service, CreateSecret(s) PROVE SecretsInv'
  <2> DEFINE x == Created(operation.config[s])
             c == [NoChange EXCEPT !.kind = "created"]
  <2>1. Materializing(s) /\ Answered(s, x, c) /\ secret[s].state = "none"
    BY <1>3 DEF CreateSecret
  <2>2. c \in Change /\ c.kind = "created"
    BY DEF NoChange, Change
  <2>3. /\ x.state # "none" /\ Labelled(x) \subseteq x.versions
        /\ secret[s].versions \cup {operation.config[s]} \subseteq x.versions
    BY <2>1 DEF Created, Labelled, SecretsInv, PinInv, Consistent, NoSecret
  <2> HIDE DEF x, c
  <2> QED
    BY <2>1, <2>2, <2>3, <1>t, AnsweredKeepsInv
<1>4. ASSUME NEW s \in Service, ActivateVersion(s) PROVE SecretsInv'
  <2> DEFINE t == operation.config[s]
             x == IF t \in Labelled(secret[s]) THEN Moved(secret[s], t) ELSE PutInto(secret[s], t)
             c == [kind |-> "activated", previous |-> secret[s].current]
  <2>1. Materializing(s) /\ Answered(s, x, c) /\ secret[s].state = "active" /\ t \in Token
    BY <1>4, <1>t DEF ActivateVersion, ActivateRecorded, TypeOK, Operation
  <2>2. c \in Change /\ c.kind = "activated" /\ c.previous = secret[s].current
    BY <1>t DEF Change, TypeOK, Secret
  <2>3. secret[s] \in Secret /\ Labelled(secret[s]) \subseteq secret[s].versions
    BY <1>t DEF TypeOK, SecretsInv, PinInv, Consistent
  <2>4. /\ x.state # "none" /\ Labelled(x) \subseteq x.versions
        /\ secret[s].versions \cup {t} \subseteq x.versions
        /\ x.current \in {secret[s].current, t}
    <3>1. CASE t \in Labelled(secret[s])
      BY <3>1, <2>1, <2>3 DEF Moved, Labelled, Secret
    <3>2. CASE t \notin Labelled(secret[s])
      BY <3>2, <2>1, <2>3 DEF PutInto, Labelled, Secret
    <3> QED
      BY <3>1, <3>2
  <2> HIDE DEF x, c
  <2> QED
    BY <2>1, <2>2, <2>4, <1>t, AnsweredKeepsInv
<1>5. ASSUME NEW s \in Service, RestoreSecret(s) \/ ScheduleDeletion(s) PROVE SecretsInv'
  <2>1. /\ UNCHANGED <<operation, change, pins, before, doubtful>>
        /\ \A r \in Service : /\ secret'[r].current = secret[r].current
                              /\ secret'[r].previous = secret[r].previous
                              /\ secret'[r].versions = secret[r].versions
                              /\ r # s => secret'[r] = secret[r]
        /\ secret'[s].state # "none"
    BY <1>5, <1>t DEF RestoreSecret, ScheduleDeletion, ghostVars, TypeOK, Secret
  <2>2. PinInv'
    BY <2>1 DEF SecretsInv, PinInv, Consistent, Prepared, CreatedUnread, UnderWay,
       PinnedVersionsExist, Labelled
  <2>3. TakeBackInv'
    BY <2>1 DEF SecretsInv, TakeBackInv, Recorded
  <2> QED
    BY <2>2, <2>3, <1>t DEF SecretsInv
<1>6. ASSUME NEW s \in Service, TakeBack(s) PROVE SecretsInv'
  <2>1. /\ operation.at = "compensating" /\ operation'.at = "compensating"
        /\ operation.next = s /\ operation'.next = s - 1
        /\ operation'.config = operation.config
        /\ UNCHANGED <<change, pins, before, doubtful>>
        /\ secret'[s] = TakenBack(s)
        /\ \A r \in Service \ {s} : secret'[r] = secret[r]
    BY <1>6, <1>t DEF TakeBack, Compensating, ghostVars, TypeOK, Operation
  <2>2. CASE change[s].kind = "created"
    <3>1. secret'[s] = NoSecret /\ pins[s] = {}
      BY <2>1, <2>2 DEF TakenBack, SecretsInv, PinInv, CreatedUnread, UnderWay
    <3>2. PinInv'
      <4>1. Consistent'
        BY <2>1, <3>1, SMTT(30) DEF SecretsInv, PinInv, Consistent, Labelled, NoSecret
      <4>2. PinnedVersionsExist'
        BY <2>1, <3>1 DEF SecretsInv, PinInv, PinnedVersionsExist
      <4>3. Prepared' /\ CreatedUnread'
        BY <2>1 DEF SecretsInv, PinInv, Prepared, CreatedUnread, UnderWay
      <4> QED
        BY <4>1, <4>2, <4>3 DEF PinInv
    <3>3. s \notin doubtful => secret'[s].current = before[s]
      BY <2>1, <2>2, <3>1 DEF SecretsInv, TakeBackInv, Recorded, NoSecret, Service
    <3>4. TakeBackInv'
      BY <2>1, <3>3 DEF SecretsInv, TakeBackInv, Recorded, Service
    <3> QED
      BY <3>2, <3>4, <1>t DEF SecretsInv
  <2>3. CASE change[s].kind # "created"
    <3>1. /\ secret'[s] = Moved(secret[s], change[s].previous)
          /\ change[s].kind = "activated"
          /\ secret[s].state = "active" /\ change[s].previous \in secret[s].versions
      BY <1>6, <2>1, <2>3 DEF TakeBack, CanTakeBack, TakenBack, CanMove
    <3>2. /\ secret'[s].state = "active" /\ secret'[s].current = change[s].previous
          /\ secret'[s].versions = secret[s].versions
          /\ Labelled(secret'[s]) \subseteq secret[s].versions
      BY <3>1, <1>t DEF Moved, Labelled, TypeOK, Secret, SecretsInv, PinInv, Consistent
    <3>3. PinInv'
      BY <2>1, <3>2 DEF SecretsInv, PinInv, Consistent, Prepared, CreatedUnread, UnderWay,
         PinnedVersionsExist, Labelled
    <3>4. s \notin doubtful => secret'[s].current = before[s]
      BY <2>1, <3>1, <3>2 DEF SecretsInv, TakeBackInv, Recorded, Service
    <3>5. TakeBackInv'
      BY <2>1, <3>4 DEF SecretsInv, TakeBackInv, Recorded, Service
    <3> QED
      BY <3>3, <3>5, <1>t DEF SecretsInv
  <2> QED
    BY <2>2, <2>3
<1>7. ASSUME NEW s \in Service, NothingToTakeBack(s) \/ TakingBackFails(s) PROVE SecretsInv'
  <2>1. /\ operation.at = "compensating" /\ operation'.at = "compensating"
        /\ operation.next = s /\ operation'.next = s - 1
        /\ operation'.config = operation.config
    BY <1>7, <1>t DEF NothingToTakeBack, TakingBackFails, Compensating, TypeOK, Operation
  <2>2. UNCHANGED <<secret, change, pins, before>> /\ doubtful \subseteq doubtful'
    BY <1>7 DEF NothingToTakeBack, TakingBackFails, secretVars, ghostVars
  <2>3. s \in doubtful' \/ secret[s].current = before[s]
    <3>1. CASE TakingBackFails(s)
      BY <3>1 DEF TakingBackFails
    <3>2. CASE NothingToTakeBack(s) /\ s \notin doubtful
      BY <3>2, <2>1 DEF NothingToTakeBack, SecretsInv, TakeBackInv, Recorded, Service
    <3> QED
      BY <3>1, <3>2, <1>7, <2>2
  <2> QED
    BY <2>1, <2>2, <2>3, <1>t, MovingOnKeepsInv
<1>8. ASSUME NEW s \in Service, DeleteSecret(s) PROVE SecretsInv'
  <2>1. /\ operation.at = "destroying" /\ UNCHANGED <<operation, change, before, doubtful>>
        /\ secret'[s] = NoSecret /\ pins'[s] = {}
        /\ \A r \in Service \ {s} : secret'[r] = secret[r] /\ pins'[r] = pins[r]
    BY <1>8, <1>t DEF DeleteSecret, ghostVars, TypeOK
  <2>2. PinInv'
    BY <2>1 DEF SecretsInv, PinInv, Consistent, Prepared, CreatedUnread, UnderWay,
       PinnedVersionsExist, Labelled, NoSecret
  <2>3. TakeBackInv'
    BY <2>1 DEF TakeBackInv
  <2> QED
    BY <2>2, <2>3, <1>t DEF SecretsInv
<1>9. CASE Materialized \/ DispatchFails \/ Compensated
  <2>1. operation'.config = operation.config /\ UNCHANGED <<secret, change, pins, before, doubtful>>
    BY <1>9, <1>t DEF Materialized, DispatchFails, Compensated, secretVars, ghostVars, TypeOK, Operation
  <2>2. \/ /\ operation.at = "materializing" /\ operation'.at = "ready"
           /\ operation.next = Services + 1 /\ operation'.next = Services + 1
        \/ /\ operation.at \in {"materializing", "ready"} /\ operation'.at = "compensating"
           /\ operation'.next = Services
        \/ operation.at = "compensating" /\ operation'.at = "refused" /\ operation.next = 0
    BY <1>9, <1>t DEF Materialized, DispatchFails, Compensated, Materializing, Compensating, TypeOK, Operation
  <2> QED
    BY <2>1, <2>2, <1>t, MovingOnKeepsInv
<1>10. CASE Dispatched
  <2>1. /\ operation.at = "ready" /\ operation'.at = "idle" /\ UNCHANGED <<secret, change>>
        /\ \A s \in Service : pins'[s] = pins[s] \cup ({operation.config[s]} \ {NoToken})
    BY <1>10 DEF Dispatched, Idle
  <2>2. \A s \in Service : operation.config[s] \in secret[s].versions \cup {NoToken}
    BY <2>1 DEF SecretsInv, PinInv, Prepared, Service
  <2>3. PinInv'
    BY <2>1, <2>2 DEF SecretsInv, PinInv, Consistent, Prepared, CreatedUnread, UnderWay,
       PinnedVersionsExist, Labelled, NoSecret
  <2>4. TakeBackInv'
    BY <2>1 DEF TakeBackInv
  <2> QED
    BY <2>3, <2>4, <1>t DEF SecretsInv
<1>11. CASE CaptureFailure \/ AdmitDestroy \/ DestroyEnds
  <2>1. operation'.at \in {"idle", "destroying"} /\ UNCHANGED <<secret, change, pins>>
    BY <1>11 DEF CaptureFailure, AdmitDestroy, DestroyEnds, Idle, secretVars
  <2>2. PinInv'
    BY <2>1 DEF SecretsInv, PinInv, Consistent, Prepared, CreatedUnread, UnderWay,
       PinnedVersionsExist, Labelled, NoSecret
  <2>3. TakeBackInv'
    BY <2>1 DEF TakeBackInv
  <2> QED
    BY <2>2, <2>3, <1>t DEF SecretsInv
<1> QED
  BY <1>0, <1>1, <1>2, <1>3, <1>4, <1>5, <1>6, <1>7, <1>8, <1>9, <1>10, <1>11 DEF Next

-----------------------------------------------------------------------------
(***************************************************************************)
(* The theorems.                                                           *)
(***************************************************************************)
LEMMA SecretsInvariant == Spec => []SecretsInv
  BY InitSecretsInv, NextSecretsInv, PTL DEF Spec

(* Every variable keeps its type, however often secrets are made and taken *)
(* back.                                                                   *)
THEOREM TypeCorrect == Spec => []TypeOK
<1>1. SecretsInv => TypeOK
  BY DEF SecretsInv
<1> QED
  BY <1>1, SecretsInvariant, PTL

(* No materialization and no compensation removes a version that a run or  *)
(* a release pins.                                                         *)
THEOREM PinnedVersionsStay == Spec => []PinnedVersionsExist
<1>1. SecretsInv => PinnedVersionsExist
  BY DEF SecretsInv, PinInv
<1> QED
  BY <1>1, SecretsInvariant, PTL

(* A refused deployment leaves the current versions as it found them where *)
(* every call was answered.                                                *)
THEOREM RefusalTakesBack == Spec => []RefusalRestores
<1>1. SecretsInv => RefusalRestores
  BY DEF SecretsInv, TakeBackInv, RefusalRestores
<1> QED
  BY <1>1, SecretsInvariant, PTL

=============================================================================
