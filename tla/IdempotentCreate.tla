-------------------------- MODULE IdempotentCreate --------------------------
(***************************************************************************)
(* POST /notifications/app/create/, /app/send/ and /app/bulk-send/ of one  *)
(* application (notifications/api_views_app_token.py) and the creation     *)
(* they share (notifications/creation.py), one row per idempotency key.    *)
(*                                                                         *)
(* Several requests are under way at once: clients that repeat a request   *)
(* whose answer was lost, retries that overtake the first attempt, two     *)
(* requests that reuse a key.  Each step is one committed statement or one *)
(* call to the broker.  What a payload is checked against and rendered     *)
(* from, its template, the clock, the subscription, may change meanwhile.  *)
(***************************************************************************)
EXTENDS Integers, FiniteSets

CONSTANTS
    Requests,     \* HTTP requests, each made once
    Keys,         \* idempotency keys the column can hold
    Ops,          \* what the requests may ask for
    Vendors,      \* database vendors (connection.vendor)
    MaxLockTries, \* bound of the "locked" loop of the SQLite branch
    MaxFaults,    \* bound: requests that die, refused .delay() calls
    Changes,      \* which facts around the requests may change
    MaxChanges,   \* bound: how often they do
    None

\* The statuses this module tells apart; processing is one step here (the
\* worker's own steps are NotificationSend's).
Status == {"draft", "scheduled", "queued", "sent", "failed"}
StatusesToQueue == {"draft", "failed", "scheduled"}
PendingStatuses == {"scheduled", "queued"}

\* NotificationTemplateWriteSerializer refuses an empty template, not one whose
\* rendering is too long for a notification.
TemplateStates == {"ok", "overlong", "gone"}

Endpoints == {"create", "send", "bulk"}
BadKeys == {"missing", "too long"}
Op == [endpoint : Endpoints, key : Keys \cup BadKeys,
       body : {"text", "other text", "template"},
       when : {"absent", "null", "date"}]

ASSUME OpsAssumption == Ops \subseteq Op
ASSUME VendorsAssumption == Vendors \subseteq {"postgresql", "sqlite"}
ASSUME BoundsAssumption ==
    /\ MaxLockTries \in Nat \ {0}
    /\ MaxFaults \in Nat
    /\ MaxChanges \in Nat
ASSUME KeysAssumption == Keys \cap BadKeys = {}

VARIABLES
    vendor,
    row,        \* per key: its Notification row, or None
    inserted,   \* rows created so far: the next primary key
    tasks,      \* per key: send_notification_task messages for its row
    purging,    \* the primary keys the purge has selected for deletion
    pc,         \* per request: where it is
    op,         \* ... what it asks for
    fp,         \* ... the fingerprint of its payload
    tries,      \* ... "database is locked" errors met
    outcome,    \* ... NotificationCreationOutcome
    got,        \* ... the primary key of the row it was answered about
    copy,       \* ... the rows it has loaded, to queue them
    current,    \* ... the key it is queueing
    answer,     \* ... the HTTP status it was answered with
    template, passed, paid, active,
    faults, changes

request == <<pc, op, fp, tries, outcome, got, copy, current, answer>>
surroundings == <<template, passed, paid, active>>
vars == <<vendor, row, inserted, tasks, purging, request, surroundings, faults, changes>>

PC == {"new", "lookup", "insert", "get", "queue", "publish", "rollback",
       "bulk", "respond", "done", "dead"}
Answers == {200, 201, 400, 401, 402, 409, 500}
Fingerprint == [body : {"text", "other text", "template"}, version : 0 .. MaxChanges,
                when : {"absent", "null", "date"}]
Row == [id : Nat, fp : Fingerprint, status : Status, visible : BOOLEAN]
Copy == [id : Nat, status : Status]
Outcomes == {"created", "existing", "conflict"}

\* None is the value of nothing else.
ASSUME NoneAssumption ==
    /\ None \notin Op /\ None \notin Keys /\ None \notin Outcomes
    /\ None \notin Row /\ None \notin Copy /\ None \notin Fingerprint
    /\ None \notin Nat /\ None \notin [key : Keys, print : Fingerprint]

TypeOK ==
    /\ vendor \in Vendors
    /\ row \in [Keys -> Row \cup {None}]
    /\ inserted \in Nat
    /\ tasks \in [Keys -> Nat]
    /\ purging \in SUBSET Nat
    /\ pc \in [Requests -> PC]
    /\ op \in [Requests -> Ops \cup {None}]
    /\ fp \in [Requests -> Fingerprint \cup {None}]
    /\ tries \in [Requests -> 0 .. MaxLockTries - 1]
    /\ outcome \in [Requests -> Outcomes \cup {None}]
    /\ got \in [Requests -> Nat \cup {None}]
    /\ copy \in [Requests -> [Keys -> Copy \cup {None}]]
    /\ current \in [Requests -> Keys \cup {None}]
    /\ answer \in [Requests -> Answers \cup {None}]
    /\ template \in [version : Nat, state : TemplateStates]
    /\ passed \in BOOLEAN
    /\ paid \in BOOLEAN
    /\ active \in BOOLEAN
    /\ faults \in 0 .. MaxFaults
    /\ changes \in 0 .. MaxChanges

Init ==
    /\ vendor \in Vendors
    /\ row = [k \in Keys |-> None]
    /\ inserted = 0
    /\ tasks = [k \in Keys |-> 0]
    /\ purging = {}
    /\ pc = [r \in Requests |-> "new"]
    /\ op = [r \in Requests |-> None]
    /\ fp = [r \in Requests |-> None]
    /\ tries = [r \in Requests |-> 0]
    /\ outcome = [r \in Requests |-> None]
    /\ got = [r \in Requests |-> None]
    /\ copy = [r \in Requests |-> [k \in Keys |-> None]]
    /\ current = [r \in Requests |-> None]
    /\ answer = [r \in Requests |-> None]
    /\ template = [version |-> 0, state |-> "ok"]
    /\ passed = FALSE
    /\ paid = TRUE
    /\ active = TRUE
    /\ faults = 0
    /\ changes = 0

-----------------------------------------------------------------------------
(* Helpers *)

\* compute_request_fingerprint(validated_data): taken after _resolve_template
\* has replaced the template by what it renders to, and telling an absent
\* scheduled_for from a null one.
ComputeRequestFingerprint(o) ==
    [body |-> o.body,
     version |-> IF o.body = "template" THEN template.version ELSE 0,
     when |-> o.when]

\* BaseNotificationWriteSerializer: the rendered template has to fit, and the
\* date has to lie in the future.
Validates(o) ==
    /\ o.body = "template" => template.state = "ok"
    /\ o.when = "date" => ~passed

\* build_notification_status
BuildNotificationStatus(o) ==
    IF o.when = "date" THEN "scheduled" ELSE "draft"

\* The answer of the views to what precedes the creation, or None.
Refusal(o) ==
    IF ~active THEN 401
    ELSE IF ~paid THEN 402
    ELSE IF o.endpoint = "bulk" THEN None
    ELSE IF ~Validates(o) THEN 400
    ELSE IF o.endpoint = "send" /\ o.when = "date" THEN 400
    ELSE IF o.key \in BadKeys THEN 400
    ELSE None

\* What _try_queue_notification accepts on a loaded row.
Sendable(c) ==
    /\ c.status \in StatusesToQueue
    /\ ~(c.status = "scheduled" /\ ~passed)

Go(r, where) == pc' = [pc EXCEPT ![r] = where]

\* The request ends.
Reply(r, code) ==
    /\ Go(r, "done")
    /\ answer' = [answer EXCEPT ![r] = code]

RequestFrame == UNCHANGED <<vendor, purging, surroundings, changes>>

-----------------------------------------------------------------------------
(* Creation *)

\* AppTokenAuthentication, subscription_required, the serializer, the checks of
\* the header: everything up to create_notification_with_optional_idempotency.
Begin(r, o) ==
    /\ pc[r] = "new"
    /\ op' = [op EXCEPT ![r] = o]
    /\ IF Refusal(o) # None
       THEN /\ Reply(r, Refusal(o))
            /\ UNCHANGED <<fp, copy>>
       ELSE IF o.endpoint = "bulk"
       THEN /\ Go(r, "bulk")
            /\ copy' = [copy EXCEPT ![r] = [k \in Keys |->
                   IF row[k] # None /\ row[k].visible
                   THEN [id |-> row[k].id, status |-> row[k].status]
                   ELSE None]]
            /\ UNCHANGED <<fp, answer>>
       ELSE /\ Go(r, IF vendor = "sqlite" THEN "lookup" ELSE "insert")
            /\ fp' = [fp EXCEPT ![r] = ComputeRequestFingerprint(o)]
            /\ UNCHANGED <<copy, answer>>
    /\ RequestFrame
    /\ UNCHANGED <<row, inserted, tasks, tries, outcome, got, current, faults>>

\* The row of the key was found: the fingerprints decide.
Decided(r) ==
    LET k == op[r].key
    IN  /\ outcome' = [outcome EXCEPT ![r] =
               IF row[k].fp = fp[r] THEN "existing" ELSE "conflict"]
        /\ got' = [got EXCEPT ![r] = row[k].id]
        /\ Go(r, "respond")

\* The SQLite branch: the get of get_or_create.
Lookup(r) ==
    /\ pc[r] = "lookup"
    /\ IF row[op[r].key] # None
       THEN Decided(r)
       ELSE Go(r, "insert") /\ UNCHANGED <<outcome, got>>
    /\ tries' = [tries EXCEPT ![r] = IF row[op[r].key] # None THEN 0 ELSE @]
    /\ RequestFrame
    /\ UNCHANGED <<row, inserted, tasks, op, fp, copy, current, answer, faults>>

\* "database is locked": tried again, then raised.
Locked(r) ==
    /\ vendor = "sqlite"
    /\ pc[r] \in {"lookup", "insert"}
    /\ IF tries[r] + 1 = MaxLockTries
       THEN /\ Reply(r, 500)
            /\ tries' = [tries EXCEPT ![r] = 0]
       ELSE /\ Go(r, "lookup")
            /\ tries' = [tries EXCEPT ![r] = @ + 1]
            /\ UNCHANGED answer
    /\ RequestFrame
    /\ UNCHANGED <<row, inserted, tasks, op, fp, outcome, got, copy, current,
                   faults>>

\* Mutant: no unique constraint, so the INSERT always succeeds.
InsertUnconstrained(r) ==
    LET k == op[r].key
    IN  /\ pc[r] = "insert"
        /\ inserted' = inserted + 1
        /\ row' = [row EXCEPT ![k] =
               [id |-> inserted, fp |-> fp[r], visible |-> TRUE,
                status |-> BuildNotificationStatus(op[r])]]
        /\ outcome' = [outcome EXCEPT ![r] = "created"]
        /\ got' = [got EXCEPT ![r] = inserted]
        /\ Go(r, IF op[r].endpoint = "send" THEN "queue" ELSE "respond")
        /\ copy' = [copy EXCEPT ![r][k] =
               [id |-> inserted, status |-> row'[k].status]]
        /\ current' = [current EXCEPT ![r] =
               IF op[r].endpoint = "send" THEN k ELSE None]
        /\ tries' = [tries EXCEPT ![r] = 0]
        /\ RequestFrame
        /\ UNCHANGED <<tasks, op, fp, answer, faults>>

\* Notification.objects.create: the unique constraint on application and key
\* admits one row.  The created instance is what the send endpoint queues.
Insert(r) ==
    LET k == op[r].key
    IN  /\ pc[r] = "insert"
        /\ IF row[k] = None
           THEN /\ inserted' = inserted + 1
                /\ row' = [row EXCEPT ![k] =
                       [id |-> inserted, fp |-> fp[r], visible |-> TRUE,
                        status |-> BuildNotificationStatus(op[r])]]
                /\ outcome' = [outcome EXCEPT ![r] = "created"]
                /\ got' = [got EXCEPT ![r] = inserted]
                /\ IF op[r].endpoint = "send"
                   THEN /\ Go(r, "queue")
                        /\ copy' = [copy EXCEPT ![r][k] =
                               [id |-> inserted, status |-> row'[k].status]]
                        /\ current' = [current EXCEPT ![r] = k]
                   ELSE /\ Go(r, "respond")
                        /\ UNCHANGED <<copy, current>>
           ELSE /\ Go(r, "get")
                /\ UNCHANGED <<row, inserted, outcome, got, copy, current>>
        /\ tries' = [tries EXCEPT ![r] = 0]
        /\ RequestFrame
        /\ UNCHANGED <<tasks, op, fp, answer, faults>>

\* Mutant: the row that exists is taken for the request's own.
GetUnchecked(r) ==
    /\ pc[r] = "get"
    /\ row[op[r].key] # None
    /\ outcome' = [outcome EXCEPT ![r] = "existing"]
    /\ got' = [got EXCEPT ![r] = row[op[r].key].id]
    /\ Go(r, "respond")
    /\ RequestFrame
    /\ UNCHANGED <<row, inserted, tasks, op, fp, tries, copy, current, answer,
                   faults>>

\* After the IntegrityError: the row that was there first, unless it has been
\* deleted since (DoesNotExist: 500).
Get(r) ==
    /\ pc[r] = "get"
    /\ IF row[op[r].key] # None
       THEN Decided(r) /\ UNCHANGED answer
       ELSE Reply(r, 500) /\ UNCHANGED <<outcome, got>>
    /\ RequestFrame
    /\ UNCHANGED <<row, inserted, tasks, op, fp, tries, copy, current, faults>>

\* The response of the create and send views.
Respond(r) ==
    /\ pc[r] = "respond"
    /\ Reply(r, CASE outcome[r] = "created" -> 201
                  [] outcome[r] = "existing" -> 200
                  [] outcome[r] = "conflict" -> 409)
    /\ RequestFrame
    /\ UNCHANGED <<row, inserted, tasks, op, fp, tries, outcome, got, copy,
                   current, faults>>

-----------------------------------------------------------------------------
(* Queueing: _try_queue_notification *)

\* bulk-send takes the next of the notifications it has loaded; the ones that
\* were not found, or cannot be queued, are listed as errors.
BulkNext(r, k) ==
    /\ pc[r] = "bulk"
    /\ copy[r][k] # None
    /\ IF Sendable(copy[r][k])
       THEN /\ Go(r, "queue")
            /\ current' = [current EXCEPT ![r] = k]
            /\ UNCHANGED copy
       ELSE /\ copy' = [copy EXCEPT ![r][k] = None]
            /\ UNCHANGED <<pc, current>>
    /\ RequestFrame
    /\ UNCHANGED <<row, inserted, tasks, op, fp, tries, outcome, got, answer,
                   faults>>

BulkEnd(r) ==
    /\ pc[r] = "bulk"
    /\ \A k \in Keys : copy[r][k] = None
    /\ Reply(r, 200)
    /\ RequestFrame
    /\ UNCHANGED <<row, inserted, tasks, op, fp, tries, outcome, got, copy,
                   current, faults>>

\* What follows _try_queue_notification, whatever it returned.
AfterQueue(r) ==
    /\ Go(r, IF op[r].endpoint = "bulk" THEN "bulk" ELSE "respond")
    /\ copy' = [copy EXCEPT ![r][current[r]] = None]
    /\ current' = [current EXCEPT ![r] = None]

\* Mutant: the UPDATE does not ask for the status that was read.
QueueUpdateAnyStatus(r) ==
    LET k == current[r]
    IN  /\ pc[r] = "queue"
        /\ row' = [row EXCEPT ![k] =
               IF @ = None THEN None ELSE [@ EXCEPT !.status = "queued"]]
        /\ Go(r, "publish")
        /\ UNCHANGED <<copy, current>>
        /\ RequestFrame
        /\ UNCHANGED <<inserted, tasks, op, fp, tries, outcome, got, answer,
                       faults>>

\* UPDATE ... WHERE id = ... AND status = previous_status.
QueueUpdate(r) ==
    LET k == current[r]
    IN  /\ pc[r] = "queue"
        /\ IF /\ row[k] # None
              /\ row[k].id = copy[r][k].id
              /\ row[k].status = copy[r][k].status
           THEN /\ row' = [row EXCEPT ![k].status = "queued"]
                /\ Go(r, "publish")
                /\ UNCHANGED <<copy, current>>
           ELSE AfterQueue(r) /\ UNCHANGED row
        /\ RequestFrame
        /\ UNCHANGED <<inserted, tasks, op, fp, tries, outcome, got, answer,
                       faults>>

\* send_notification_task.delay() succeeds.  The message names a primary key:
\* if that row is gone no worker finds it, and it is not counted.
QueuePublish(r) ==
    LET k == current[r]
    IN  /\ pc[r] = "publish"
        /\ tasks' = IF row[k] # None /\ row[k].id = copy[r][k].id
                    THEN [tasks EXCEPT ![k] = @ + 1] ELSE tasks
        /\ AfterQueue(r)
        /\ RequestFrame
        /\ UNCHANGED <<row, inserted, op, fp, tries, outcome, got, answer,
                       faults>>

\* It raises instead, and the status is put back if it is still QUEUED.
QueuePublishFails(r) ==
    /\ pc[r] = "publish"
    /\ faults < MaxFaults
    /\ faults' = faults + 1
    /\ Go(r, "rollback")
    /\ RequestFrame
    /\ UNCHANGED <<row, inserted, tasks, op, fp, tries, outcome, got, copy,
                   current, answer>>

QueueRollback(r) ==
    LET k == current[r]
    IN  /\ pc[r] = "rollback"
        /\ row' = IF row[k] # None /\ row[k].id = copy[r][k].id
                     /\ row[k].status = "queued"
                  THEN [row EXCEPT ![k].status = copy[r][k].status]
                  ELSE row
        /\ AfterQueue(r)
        /\ RequestFrame
        /\ UNCHANGED <<inserted, tasks, op, fp, tries, outcome, got, answer,
                       faults>>

\* The server process dies, or a statement fails (500): the answer, if any, is
\* no use to the client.
Die(r) ==
    /\ pc[r] \notin {"new", "done", "dead"}
    /\ faults < MaxFaults
    /\ faults' = faults + 1
    /\ Go(r, "dead")
    /\ RequestFrame
    /\ UNCHANGED <<row, inserted, tasks, op, fp, tries, outcome, got, copy,
                   current, answer>>

-----------------------------------------------------------------------------
(* What else happens to the rows and around the requests *)

\* A worker runs a send_notification_task to its end.
Serve(k, final) ==
    /\ tasks[k] > 0
    /\ final \in {"sent", "failed"}
    /\ tasks' = [tasks EXCEPT ![k] = @ - 1]
    /\ row' = IF row[k] # None /\ row[k].status \in {"draft", "queued", "failed"}
              THEN [row EXCEPT ![k].status = final] ELSE row
    /\ UNCHANGED <<vendor, inserted, purging, request, surroundings, faults,
                   changes>>

\* dispatch_scheduled_notifications_task, once the date has passed.
Dispatch(k) ==
    /\ row[k] # None
    /\ row[k].status = "scheduled"
    /\ passed
    /\ row' = [row EXCEPT ![k].status = "queued"]
    /\ tasks' = [tasks EXCEPT ![k] = @ + 1]
    /\ UNCHANGED <<vendor, inserted, purging, request, surroundings, faults,
                   changes>>

Change(c) ==
    /\ c \in Changes
    /\ changes < MaxChanges
    /\ changes' = changes + 1
    /\ UNCHANGED <<vendor, inserted, request, faults>>

\* NotificationDetailApiView.destroy hides the row; the key stays taken.
Hide(k) ==
    /\ Change("hide")
    /\ row[k] # None
    /\ row[k].visible
    /\ row[k].status \notin PendingStatuses
    /\ row' = [row EXCEPT ![k].visible = FALSE]
    /\ UNCHANGED <<tasks, purging, surroundings>>

\* purge_expired_personal_data: Django's Collector selects the rows past their
\* retention that are not pending and remembers their primary keys.  A run that
\* died has forgotten what it had selected.
PurgeSelect(K) ==
    /\ Change("purge")
    /\ \A k \in K : row[k] # None /\ row[k].status \notin PendingStatuses
    /\ purging' = {row[k].id : k \in K}
    /\ UNCHANGED <<row, tasks, surroundings>>

Purged(k) == row[k] # None /\ row[k].id \in purging

\* DELETE ... WHERE id IN (...): whatever their status is by now.  Their keys are
\* free again, and the messages for them find no row.
PurgeDelete ==
    /\ purging # {}
    /\ row' = [k \in Keys |-> IF Purged(k) THEN None ELSE row[k]]
    /\ tasks' = [k \in Keys |-> IF Purged(k) THEN 0 ELSE tasks[k]]
    /\ purging' = {}
    /\ UNCHANGED <<vendor, inserted, request, surroundings, faults, changes>>

\* NotificationTemplateDetailApiView: the template is edited, into one that
\* fits or one that does not, or deleted.
ChangeTemplate(state) ==
    /\ Change("template")
    /\ template.state # "gone"
    /\ template' = [version |-> template.version + 1, state |-> state]
    /\ UNCHANGED <<row, tasks, purging, passed, paid, active>>

\* The date the payloads ask for passes.
DatePasses ==
    /\ Change("date")
    /\ ~passed
    /\ passed' = TRUE
    /\ UNCHANGED <<row, tasks, purging, template, paid, active>>

\* The owner's subscription ends or is renewed; the application is switched.
ChangeSubscription ==
    /\ Change("subscription")
    /\ paid' = ~paid
    /\ UNCHANGED <<row, tasks, purging, template, passed, active>>

ChangeApplication ==
    /\ Change("application")
    /\ active' = ~active
    /\ UNCHANGED <<row, tasks, purging, template, passed, paid>>

RequestStep(r) ==
    \/ Lookup(r)
    \/ Locked(r)
    \/ Insert(r)
    \/ Get(r)
    \/ Respond(r)
    \/ \E k \in Keys : BulkNext(r, k)
    \/ BulkEnd(r)
    \/ QueueUpdate(r)
    \/ QueuePublish(r)
    \/ QueuePublishFails(r)
    \/ QueueRollback(r)
    \/ Die(r)

Surround ==
    \/ \E k \in Keys : Hide(k)
    \/ \E K \in SUBSET Keys : PurgeSelect(K)
    \/ PurgeDelete
    \/ \E s \in TemplateStates : ChangeTemplate(s)
    \/ DatePasses
    \/ ChangeSubscription
    \/ ChangeApplication

Next ==
    \/ \E r \in Requests : RequestStep(r) \/ \E o \in Ops : Begin(r, o)
    \/ \E k \in Keys : Dispatch(k) \/ \E s \in {"sent", "failed"} : Serve(k, s)
    \/ Surround

Spec == Init /\ [][Next]_vars

-----------------------------------------------------------------------------
(* Properties *)

Ok == {200, 201}

\* A request that was answered about the row of a key.
Told(r) == got[r] # None /\ answer[r] # None

\* Whatever races, is repeated or is lost, one notification stands for one
\* payload: two requests answered about the same row agree on it unless one of
\* them was told of the conflict, and only one of them was told 201.
OnePayloadPerNotification ==
    \A r, s \in Requests :
        (Told(r) /\ Told(s) /\ r # s /\ got[r] = got[s]) =>
            /\ answer[r] \in Ok /\ answer[s] \in Ok => fp[r] = fp[s]
            /\ fp[r] = fp[s] => (answer[r] = 409 <=> answer[s] = 409)
            /\ answer[r] = 201 => answer[s] # 201

\* The send endpoint, bulk-send and the dispatcher together never put two send
\* tasks of one notification on the broker: each of them publishes only after
\* its own conditional UPDATE took the row out of the status it had read.  And
\* the notification is QUEUED as long as the task waits, so the worker that
\* takes it finds it startable, unless the purge deletes the row under the task
\* (PendingAreKept).
OneTaskPerNotification ==
    \A k \in Keys : tasks[k] > 0 =>
        /\ tasks[k] = 1
        /\ row[k] # None /\ row[k].status = "queued"

\* retention.py: "Still-pending notifications (scheduled for later, queued,
\* mid-send) are kept whatever their age".  The code does not keep this, and no
\* run checks it: the purge tests the status when it selects, and bulk-send may
\* queue a row between that and the DELETE.
PendingAreKept ==
    [][\A k \in Keys :
          row[k] # None /\ row[k].status \in PendingStatuses => row'[k] # None]_vars

Promise == INSTANCE PutIfAbsent WITH
    Prints <- Fingerprint,
    asked <- [r \in Requests |->
        IF fp[r] = None THEN None ELSE [key |-> op[r].key, print |-> fp[r]]],
    register <- [k \in Keys |-> IF row[k] = None THEN None ELSE row[k].fp],
    verdict <- outcome

\* The creation takes effect in one indivisible step, whichever of its two
\* branches runs and wherever it is interrupted: it implements PutIfAbsent.
CreationIsAtomic == Promise!Spec
=============================================================================
