-------------------------- MODULE NotificationSend --------------------------
(***************************************************************************)
(* The send pipeline of one notification: its row, its delivery rows, the  *)
(* Celery workers that run send_notification (notifications/services.py),  *)
(* the beat tasks that feed them (notifications/tasks.py) and the owner's  *)
(* requests that race with them (notifications/api_views.py).              *)
(*                                                                         *)
(* Every step is one committed database statement, one transaction or one  *)
(* call to an outside system, so that the steps of different processes     *)
(* interleave where they do in the code, and a worker works on the copy of *)
(* the delivery rows it loaded.  Dates are kept as the minutes that are    *)
(* left until them (0: due), the start of processing as the minutes since. *)
(***************************************************************************)
EXTENDS Integers, FiniteSets

CONSTANTS
    Devices,            \* device ids; the send loop visits them in id order
    Workers,            \* Celery worker children
    Requests,           \* POST .../send/ requests, each made once
    MaxAttempts,        \* MAX_DELIVERY_ATTEMPTS
    Backoff,            \* minutes until the retry after failed attempt n
    StuckMinutes,       \* NOTIFICATION_PROCESSING_STUCK_MINUTES
    Delays,             \* lengths of quiet periods and distances of dates
    RowLocking,         \* settings.DB_SUPPORTS_ROW_LOCKING
    Faults,             \* which faults may happen
    Changes,            \* which facts around the pipeline may change
    MaxTasks,           \* bound: the retry sweep adds no task beyond these
    MaxMishaps,         \* bound: crashes and errors in the middle of a pass
    MaxBrokerFailures,  \* bound: refused .delay() calls
    MaxChanges,         \* bound: changes of the surroundings
    None                \* no date

Status == {"draft", "scheduled", "queued", "processing",
           "sent", "partial", "failed", "no_target"}

\* Mutant: a notification that is being processed may be started.
StatusesToStartOver == {"draft", "queued", "failed", "partial", "processing"}

\* ALLOWED_NOTIFICATION_STATUSES_TO_START
StatusesToStart == {"draft", "queued", "failed", "partial"}

\* ALLOWED_NOTIFICATION_STATUSES_TO_QUEUE
StatusesToQueue == {"draft", "failed", "partial", "scheduled"}

\* NotificationDetailApiView.PENDING_STATUSES
PendingStatuses == {"scheduled", "queued", "processing"}

AllFaults == {"crash", "lost_answer", "save_error", "reset_error", "overrun",
              "api_broker", "beat_broker"}
AllChanges == {"subscription", "application", "link", "token",
               "app_quiet", "device_quiet", "edit", "delete"}

Beats == {"dispatch", "watchdog"}

Timer == Nat \cup {None}

ASSUME DevicesAssumption == Devices \subseteq Int
ASSUME WorkersAssumption == IsFiniteSet(Workers)
ASSUME AttemptsAssumption ==
    /\ MaxAttempts \in Nat \ {0}
    /\ \A n \in DOMAIN Backoff : Backoff[n] \in Nat \ {0}
ASSUME MinutesAssumption ==
    /\ StuckMinutes \in Nat \ {0}
    /\ Delays \subseteq Nat \ {0}
ASSUME SwitchAssumption ==
    /\ RowLocking \in BOOLEAN
    /\ Faults \subseteq AllFaults
    /\ Changes \subseteq AllChanges
ASSUME BoundAssumption ==
    /\ MaxTasks \in Nat \ {0}
    /\ MaxMishaps \in Nat
    /\ MaxBrokerFailures \in Nat
    /\ MaxChanges \in Nat
ASSUME NoneAssumption == None \notin Nat /\ None \notin Requests

VARIABLES
    \* the Notification row
    status, visible, started, sched,
    \* the NotificationDelivery rows: which devices have one, and its fields
    rows, row,
    \* the broker: send_notification_task messages for this notification
    tasks,
    \* the workers: program counter, devices left to visit, delivery rows as
    \* loaded, devices found eligible, and the counters of the pass
    pc, todo, snap, eligible, tally,
    \* the dispatcher and the watchdog: idle, or committed and about to .delay()
    beat,
    \* the requests: program counter and the status each has read; the request
    \* that holds the row lock
    rpc, copy, lock,
    \* the PATCH in progress: the scheduled_for it has read
    edit,
    \* what surrounds the pipeline
    paid, appActive, linked, tokenActive, appQuiet, deviceQuiet,
    \* history: pushes the provider accepted per device, faults and changes
    accepted, mishaps, brokerFailures, changes

notification == <<status, visible, started, sched>>
deliveries == <<rows, row>>
working == <<pc, todo, snap, eligible, tally>>
api == <<rpc, copy, lock>>
surroundings == <<paid, appActive, linked, tokenActive, appQuiet, deviceQuiet>>
history == <<accepted, mishaps, brokerFailures, changes>>

vars == <<notification, deliveries, tasks, working, beat, api, edit,
          surroundings, history>>

-----------------------------------------------------------------------------
(* Types *)

RowStatus == {"pending", "sent", "failed"}
Row == [status : RowStatus, attempts : Nat, retry : Timer]
NewRow == [status |-> "pending", attempts |-> 0, retry |-> None]

\* What the counters of a pass are compared with: sent_count + skipped_count,
\* failed_count, deferred_count + waiting_count, each only against zero.
Tally == [good : BOOLEAN, bad : BOOLEAN, later : BOOLEAN]
NoTally == [good |-> FALSE, bad |-> FALSE, later |-> FALSE]

WorkerPC == {"idle", "taken", "acquired", "lapsed", "sending",
             "accepted", "invalid", "rejected", "refresh", "counted"}
RequestPC == {"new", "read", "refused", "fetched", "queued", "rollback", "done"}

TypeOK ==
    /\ status \in Status
    /\ visible \in BOOLEAN
    /\ started \in Timer
    /\ sched \in Timer
    /\ rows \in SUBSET Devices
    /\ row \in [Devices -> Row]
    /\ tasks \in Nat
    /\ pc \in [Workers -> WorkerPC]
    /\ todo \in [Workers -> SUBSET Devices]
    /\ snap \in [Workers -> [Devices -> Row]]
    /\ eligible \in [Workers -> SUBSET Devices]
    /\ tally \in [Workers -> Tally]
    /\ beat \in [Beats -> {"idle", "publish"}]
    /\ rpc \in [Requests -> RequestPC]
    /\ copy \in [Requests -> Status]
    /\ lock \in Requests \cup {None}
    /\ edit \in Timer
    /\ paid \in BOOLEAN
    /\ appActive \in BOOLEAN
    /\ linked \in SUBSET Devices
    /\ tokenActive \in SUBSET Devices
    /\ appQuiet \in Nat
    /\ deviceQuiet \in [Devices -> Nat]
    /\ accepted \in [Devices -> Nat]
    /\ mishaps \in 0 .. MaxMishaps
    /\ brokerFailures \in 0 .. MaxBrokerFailures
    /\ changes \in 0 .. MaxChanges

-----------------------------------------------------------------------------
(* Helpers *)

\* One minute passes for a date, and for the age of the processing (which is
\* only ever compared with the threshold).
Sooner(t) == IF t = None \/ t = 0 THEN t ELSE t - 1
Older(t) == IF t = None \/ t > StuckMinutes THEN t ELSE t + 1

\* Mutant: a retry that is due still waits.
InFutureIfDated(t) == t # None

\* _should_wait_for_retry: next_retry_at lies in the future.
InFuture(t) == t # None /\ t # 0

\* retry_pending_deliveries_task's filter.
DueForRetry(d) == d \in rows /\ row[d].status = "pending" /\ row[d].retry = 0

\* A worker that has acquired the notification and is still running.
Working(w) == pc[w] \notin {"idle", "taken"}

\* get_target_devices_for_notification
TargetDevices == linked \cap tokenActive

\* _ineligibility_reason is None
EligibleDevices == IF appActive THEN linked \cap tokenActive ELSE {}

\* _compute_next_retry: 30 minutes beyond the table.
ComputeNextRetry(n) == IF n \in DOMAIN Backoff THEN Backoff[n] ELSE 30

\* Mutant: one attempt too many.
CanRetryOnceMore(r) == r.status # "sent" /\ r.attempts <= MaxAttempts

\* _can_retry_delivery
CanRetry(r) == r.status # "sent" /\ r.attempts < MaxAttempts

\* Mutant: one success is enough.
FinalStatusOptimistic(t) ==
    IF t.later THEN "partial" ELSE IF t.good THEN "sent" ELSE "failed"

\* The status send_notification gives the notification when the loop is over.
FinalStatus(t) ==
    IF t.later THEN "partial"
    ELSE IF ~t.bad /\ t.good THEN "sent"
    ELSE IF ~t.good /\ t.bad THEN "failed"
    ELSE "partial"

\* An UPDATE of the notification row waits for a request's row lock.
RowFree == lock = None

\* Worker w is in its loop, and d is the delivery it visits.
Visits(w, d) ==
    /\ d \in todo[w]
    /\ \A e \in todo[w] : d <= e

NextDelivery(w, d, counter) ==
    /\ todo' = [todo EXCEPT ![w] = @ \ {d}]
    /\ tally' = [tally EXCEPT ![w][counter] = TRUE]

-----------------------------------------------------------------------------
(* Initially: just created by one of the endpoints, with delivery rows for *)
(* the chosen devices or none, before any request to send it.              *)

Init ==
    /\ \/ status = "draft" /\ sched = None
       \/ status = "scheduled" /\ sched \in Delays
    /\ visible = TRUE
    /\ started = None
    /\ rows \in {{}, Devices}
    /\ row = [d \in Devices |-> NewRow]
    /\ tasks = 0
    /\ pc = [w \in Workers |-> "idle"]
    /\ todo = [w \in Workers |-> {}]
    /\ snap = [w \in Workers |-> [d \in Devices |-> NewRow]]
    /\ eligible = [w \in Workers |-> {}]
    /\ tally = [w \in Workers |-> NoTally]
    /\ beat = [b \in Beats |-> "idle"]
    /\ rpc = [r \in Requests |-> "new"]
    /\ copy = [r \in Requests |-> "draft"]
    /\ lock = None
    /\ edit = None
    /\ paid = TRUE
    /\ appActive = TRUE
    /\ linked = Devices
    /\ tokenActive = Devices
    /\ appQuiet = 0
    /\ deviceQuiet = [d \in Devices |-> 0]
    /\ accepted = [d \in Devices |-> 0]
    /\ mishaps = 0
    /\ brokerFailures = 0
    /\ changes = 0

-----------------------------------------------------------------------------
(* The worker: send_notification_task *)

\* What a worker leaves alone outside its loop, and in it.
PassFrame ==
    UNCHANGED <<visible, beat, api, edit, surroundings, history>>

LoopFrame ==
    UNCHANGED <<notification, rows, tasks, eligible, beat, api, edit, paid,
                appActive, linked, appQuiet, deviceQuiet, mishaps,
                brokerFailures, changes>>

\* What an error in the middle of the loop leaves alone.
ErrorFrame ==
    UNCHANGED <<notification, rows, tasks, eligible, beat, api, edit, surroundings,
                todo, snap, tally, brokerFailures, changes>>

\* A fault strikes a pass.
Mishap(fault) ==
    /\ fault \in Faults
    /\ mishaps < MaxMishaps
    /\ mishaps' = mishaps + 1

\* The task ends (or its process dies): everything in memory is gone.
Leave(w) ==
    /\ pc' = [pc EXCEPT ![w] = "idle"]
    /\ todo' = [todo EXCEPT ![w] = {}]
    /\ snap' = [snap EXCEPT ![w] = [d \in Devices |-> NewRow]]
    /\ eligible' = [eligible EXCEPT ![w] = {}]
    /\ tally' = [tally EXCEPT ![w] = NoTally]

\* A worker child takes a task off the broker.  Tasks are acknowledged when
\* they are taken, so the broker never delivers this message again.
TakeTask(w) ==
    /\ pc[w] = "idle"
    /\ tasks > 0
    /\ tasks' = tasks - 1
    /\ pc' = [pc EXCEPT ![w] = "taken"]
    /\ PassFrame
    /\ UNCHANGED <<status, started, sched, deliveries, todo, snap, eligible,
                   tally>>

\* _acquire_notification_for_processing: one transaction.
Acquire(w) ==
    /\ pc[w] = "taken"
    /\ RowFree
    /\ status \in StatusesToStart
    /\ status' = "processing"
    /\ started' = 0
    /\ pc' = [pc EXCEPT ![w] = "acquired"]
    /\ PassFrame
    /\ UNCHANGED <<sched, deliveries, tasks, todo, snap, eligible, tally>>

\* It returns None: the status is not a startable one, or skip_locked found
\* the row locked.  The task ends either way.
AcquireNothing(w) ==
    /\ pc[w] = "taken"
    /\ ~RowFree \/ status \notin StatusesToStart
    /\ Leave(w)
    /\ PassFrame /\ UNCHANGED <<status, started, sched, deliveries, tasks>>

\* _fail_for_lapsed_subscription: the unsent deliveries are listed, cancelled
\* one by one, and the notification is closed.
LapsedStart(w) ==
    /\ pc[w] = "acquired"
    /\ ~paid
    /\ pc' = [pc EXCEPT ![w] = "lapsed"]
    /\ todo' = [todo EXCEPT ![w] = {d \in rows : row[d].status # "sent"}]
    /\ PassFrame
    /\ UNCHANGED <<status, started, sched, deliveries, tasks, snap, eligible,
                   tally>>

\* Mutant: a status that the deliveries do not have.
CancelDeliveryByName(d) ==
    row' = [row EXCEPT ![d].status = "cancelled", ![d].retry = None]

\* _cancel_delivery: attempt_count is left alone.
CancelDelivery(d) ==
    row' = [row EXCEPT ![d].status = "failed", ![d].retry = None]

LapsedCancel(w, d) ==
    /\ pc[w] = "lapsed"
    /\ d \in todo[w]
    /\ CancelDelivery(d)
    /\ todo' = [todo EXCEPT ![w] = @ \ {d}]
    /\ PassFrame
    /\ UNCHANGED <<status, started, sched, rows, tasks, pc, snap, eligible,
                   tally>>

\* The unconditional UPDATE every pass ends with, then the end of the task.
EndPass(w, s) ==
    /\ RowFree
    /\ status' = s
    /\ started' = None
    /\ Leave(w)
    /\ UNCHANGED <<visible, tasks, beat, api, edit, surroundings, history>>

LapsedFinish(w) ==
    /\ pc[w] = "lapsed"
    /\ todo[w] = {}
    /\ EndPass(w, "failed")
    /\ UNCHANGED <<sched, deliveries>>

\* The application is in a quiet period: back to SCHEDULED until it is over.
DeferToQuietPeriodEnd(w) ==
    /\ pc[w] = "acquired"
    /\ paid
    /\ appQuiet > 0
    /\ EndPass(w, "scheduled")
    /\ sched' = appQuiet
    /\ UNCHANGED deliveries

\* get_target_deliveries_for_notification finds and creates nothing.
NoTarget(w) ==
    /\ pc[w] = "acquired"
    /\ paid
    /\ appQuiet = 0
    /\ rows = {}
    /\ TargetDevices = {}
    /\ EndPass(w, "no_target")
    /\ UNCHANGED <<sched, deliveries>>

\* Mutant: the loop works from what the rows were when they were created.
LoadDeliveriesStale(w) ==
    /\ pc[w] = "acquired"
    /\ paid
    /\ appQuiet = 0
    /\ rows' = IF rows = {} THEN TargetDevices ELSE rows
    /\ rows' # {}
    /\ pc' = [pc EXCEPT ![w] = "sending"]
    /\ todo' = [todo EXCEPT ![w] = rows']
    /\ eligible' = [eligible EXCEPT ![w] = EligibleDevices]
    /\ PassFrame /\ UNCHANGED <<status, started, sched, row, tasks, snap, tally>>

\* get_target_deliveries_for_notification, then the fresh read of the
\* application flag and of the links: what the loop works from.
LoadDeliveries(w) ==
    /\ pc[w] = "acquired"
    /\ paid
    /\ appQuiet = 0
    /\ rows' = IF rows = {} THEN TargetDevices ELSE rows
    /\ rows' # {}
    /\ pc' = [pc EXCEPT ![w] = "sending"]
    /\ todo' = [todo EXCEPT ![w] = rows']
    /\ snap' = [snap EXCEPT ![w] = row]
    /\ eligible' = [eligible EXCEPT ![w] = EligibleDevices]
    /\ PassFrame /\ UNCHANGED <<status, started, sched, row, tasks, tally>>

-----------------------------------------------------------------------------
(* The worker's loop over the deliveries, tests in the order of the code *)

\* _should_skip_delivery
SkipSent(w, d) ==
    /\ pc[w] = "sending"
    /\ Visits(w, d)
    /\ snap[w][d].status = "sent"
    /\ NextDelivery(w, d, "good")
    /\ LoopFrame /\ UNCHANGED <<row, pc, snap, tokenActive, accepted>>

\* _ineligibility_reason gives a reason
CancelIneligible(w, d) ==
    /\ pc[w] = "sending"
    /\ Visits(w, d)
    /\ snap[w][d].status # "sent"
    /\ d \notin eligible[w]
    /\ CancelDelivery(d)
    /\ NextDelivery(w, d, "bad")
    /\ LoopFrame /\ UNCHANGED <<pc, snap, tokenActive, accepted>>

\* _should_wait_for_retry
WaitForRetry(w, d) ==
    /\ pc[w] = "sending"
    /\ Visits(w, d)
    /\ snap[w][d].status # "sent"
    /\ d \in eligible[w]
    /\ InFuture(snap[w][d].retry)
    /\ NextDelivery(w, d, "later")
    /\ LoopFrame /\ UNCHANGED <<row, pc, snap, tokenActive, accepted>>

\* The delivery's turn to be attempted has come.
Ready(w, d) ==
    /\ pc[w] = "sending"
    /\ Visits(w, d)
    /\ snap[w][d].status # "sent"
    /\ d \in eligible[w]
    /\ ~InFuture(snap[w][d].retry)

\* Mutant: deferred without a date.
DeferDeliveryUndated(w, d) ==
    /\ Ready(w, d)
    /\ deviceQuiet[d] > 0
    /\ row' = [row EXCEPT ![d].status = "pending", ![d].retry = None]
    /\ NextDelivery(w, d, "later")
    /\ LoopFrame /\ UNCHANGED <<pc, snap, tokenActive, accepted>>

\* _mark_delivery_as_deferred: the device is in a quiet period.
DeferDelivery(w, d) ==
    /\ Ready(w, d)
    /\ deviceQuiet[d] > 0
    /\ row' = [row EXCEPT ![d].status = "pending", ![d].retry = deviceQuiet[d]]
    /\ NextDelivery(w, d, "later")
    /\ LoopFrame /\ UNCHANGED <<pc, snap, tokenActive, accepted>>

\* The attempts are used up: counted as failed, the row is not written.
AttemptsExhausted(w, d) ==
    /\ Ready(w, d)
    /\ deviceQuiet[d] = 0
    /\ ~CanRetry(snap[w][d])
    /\ NextDelivery(w, d, "bad")
    /\ LoopFrame /\ UNCHANGED <<row, pc, snap, tokenActive, accepted>>

\* send_push_to_device is called for d.
Pushable(w, d) ==
    /\ Ready(w, d)
    /\ deviceQuiet[d] = 0
    /\ CanRetry(snap[w][d])

\* The provider accepts the push, says that the token is invalid, or fails in
\* any other way.
Push(w, d) ==
    /\ Pushable(w, d)
    /\ \/ /\ pc' = [pc EXCEPT ![w] = "accepted"]
          /\ accepted' = [accepted EXCEPT ![d] = @ + 1]
       \/ /\ pc' = [pc EXCEPT ![w] = "invalid"]
          /\ UNCHANGED accepted
       \/ /\ pc' = [pc EXCEPT ![w] = "rejected"]
          /\ UNCHANGED accepted
    /\ LoopFrame /\ UNCHANGED <<row, todo, snap, tally, tokenActive>>

\* The provider accepts the push and the call fails all the same: a timeout, a
\* connection lost before the answer.
PushAnswerLost(w, d) ==
    /\ Pushable(w, d)
    /\ Mishap("lost_answer")
    /\ accepted' = [accepted EXCEPT ![d] = @ + 1]
    /\ pc' = [pc EXCEPT ![w] = "rejected"]
    /\ ErrorFrame /\ UNCHANGED row

\* Mutant: the success is counted, the row is not saved.
MarkSentUnsaved(w, d) ==
    /\ pc[w] = "accepted"
    /\ Visits(w, d)
    /\ NextDelivery(w, d, "good")
    /\ pc' = [pc EXCEPT ![w] = "sending"]
    /\ LoopFrame /\ UNCHANGED <<row, snap, tokenActive, accepted>>

\* _mark_delivery_as_sent
MarkSent(w, d) ==
    /\ pc[w] = "accepted"
    /\ Visits(w, d)
    /\ row' = [row EXCEPT ![d].status = "sent", ![d].retry = None]
    /\ NextDelivery(w, d, "good")
    /\ pc' = [pc EXCEPT ![w] = "sending"]
    /\ LoopFrame /\ UNCHANGED <<snap, tokenActive, accepted>>

\* The save raises inside the try block, and the push counts as failed.
MarkSentFails(w, d) ==
    /\ pc[w] = "accepted"
    /\ Visits(w, d)
    /\ Mishap("save_error")
    /\ pc' = [pc EXCEPT ![w] = "rejected"]
    /\ ErrorFrame /\ UNCHANGED <<row, accepted>>

\* The delivery is saved as SENT, then resetting the failure_count of the device
\* raises, inside the same try block.
ResetFails(w, d) ==
    /\ pc[w] = "accepted"
    /\ Visits(w, d)
    /\ Mishap("reset_error")
    /\ row' = [row EXCEPT ![d].status = "sent", ![d].retry = None]
    /\ pc' = [pc EXCEPT ![w] = "rejected"]
    /\ ErrorFrame /\ UNCHANGED accepted

\* _record_delivery_failure(invalidate_token=True): the device is switched off.
InvalidateToken(w, d) ==
    /\ pc[w] = "invalid"
    /\ Visits(w, d)
    /\ tokenActive' = tokenActive \ {d}
    /\ pc' = [pc EXCEPT ![w] = "rejected"]
    /\ LoopFrame /\ UNCHANGED <<row, todo, snap, tally, accepted>>

\* _mark_delivery_as_failed: attempt_count + 1 in the database ...
CountAttempt(w, d) ==
    /\ pc[w] = "rejected"
    /\ Visits(w, d)
    /\ row' = [row EXCEPT ![d].attempts = row[d].attempts + 1]
    /\ pc' = [pc EXCEPT ![w] = "refresh"]
    /\ LoopFrame /\ UNCHANGED <<todo, snap, tally, tokenActive, accepted>>

\* ... read back into memory ...
RefreshAttempts(w, d) ==
    /\ pc[w] = "refresh"
    /\ Visits(w, d)
    /\ snap' = [snap EXCEPT ![w][d].attempts = row[d].attempts]
    /\ pc' = [pc EXCEPT ![w] = "counted"]
    /\ LoopFrame /\ UNCHANGED <<row, todo, tally, tokenActive, accepted>>

\* Mutant: the date of the next attempt is forgotten.
SaveFailureUndated(w, d) ==
    /\ pc[w] = "counted"
    /\ Visits(w, d)
    /\ LET n == snap[w][d].attempts
       IN  row' = [row EXCEPT ![d].status = IF n >= MaxAttempts
                                            THEN "failed" ELSE "pending",
                              ![d].retry = None]
    /\ NextDelivery(w, d, "bad")
    /\ pc' = [pc EXCEPT ![w] = "sending"]
    /\ LoopFrame /\ UNCHANGED <<snap, tokenActive, accepted>>

\* ... then the row is saved: FAILED for good, or PENDING with the date of the
\* next attempt.
SaveFailure(w, d) ==
    /\ pc[w] = "counted"
    /\ Visits(w, d)
    /\ LET n == snap[w][d].attempts
       IN  row' = IF n >= MaxAttempts
                  THEN [row EXCEPT ![d].status = "failed", ![d].retry = None]
                  ELSE [row EXCEPT ![d].status = "pending",
                                   ![d].retry = ComputeNextRetry(n)]
    /\ NextDelivery(w, d, "bad")
    /\ pc' = [pc EXCEPT ![w] = "sending"]
    /\ LoopFrame /\ UNCHANGED <<snap, tokenActive, accepted>>

\* The final status is written over whatever the row holds.
Finish(w) ==
    /\ pc[w] = "sending"
    /\ todo[w] = {}
    /\ EndPass(w, FinalStatus(tally[w]))
    /\ UNCHANGED <<sched, deliveries>>

\* The worker child is killed or recycled.
Crash(w) ==
    /\ pc[w] # "idle"
    /\ Mishap("crash")
    /\ Leave(w)
    /\ UNCHANGED <<notification, deliveries, tasks, beat, api, edit,
                   surroundings, accepted, brokerFailures, changes>>

VisitDelivery(w, d) ==
    \/ SkipSent(w, d)
    \/ CancelIneligible(w, d)
    \/ WaitForRetry(w, d)
    \/ DeferDelivery(w, d)
    \/ AttemptsExhausted(w, d)
    \/ Push(w, d)
    \/ PushAnswerLost(w, d)
    \/ MarkSent(w, d)
    \/ MarkSentFails(w, d)
    \/ ResetFails(w, d)
    \/ InvalidateToken(w, d)
    \/ CountAttempt(w, d)
    \/ RefreshAttempts(w, d)
    \/ SaveFailure(w, d)

WorkerStep(w) ==
    \/ TakeTask(w)
    \/ Acquire(w)
    \/ AcquireNothing(w)
    \/ LapsedStart(w)
    \/ \E d \in Devices : LapsedCancel(w, d)
    \/ LapsedFinish(w)
    \/ DeferToQuietPeriodEnd(w)
    \/ NoTarget(w)
    \/ LoadDeliveries(w)
    \/ \E d \in Devices : VisitDelivery(w, d)
    \/ Finish(w)

-----------------------------------------------------------------------------
(* The beat tasks, each run every minute *)

\* What the beat tasks leave alone.
BeatFrame ==
    UNCHANGED <<visible, sched, deliveries, working, api, edit, surroundings,
                accepted, mishaps, changes>>

\* retry_pending_deliveries_task
RetrySweep ==
    /\ \E d \in Devices : DueForRetry(d)
    /\ tasks < MaxTasks
    /\ tasks' = tasks + 1
    /\ BeatFrame /\ UNCHANGED <<status, started, beat, brokerFailures>>

\* dispatch_scheduled_notifications_task, the transaction.
DispatchScheduled ==
    /\ beat["dispatch"] = "idle"
    /\ RowFree
    /\ status = "scheduled"
    /\ sched = 0
    /\ status' = "queued"
    /\ beat' = [beat EXCEPT !["dispatch"] = "publish"]
    /\ BeatFrame /\ UNCHANGED <<started, tasks, brokerFailures>>

\* Mutant: the start is cleared, the status is not put back.
RequeueStuckStartOnly ==
    /\ beat["watchdog"] = "idle"
    /\ RowFree
    /\ status = "processing"
    /\ started # None
    /\ started > StuckMinutes
    /\ started' = None
    /\ beat' = [beat EXCEPT !["watchdog"] = "publish"]
    /\ BeatFrame /\ UNCHANGED <<status, tasks, brokerFailures>>

\* requeue_stuck_processing_notifications_task, the conditional UPDATE.
RequeueStuck ==
    /\ beat["watchdog"] = "idle"
    /\ RowFree
    /\ status = "processing"
    /\ started # None
    /\ started > StuckMinutes
    /\ status' = "queued"
    /\ started' = None
    /\ beat' = [beat EXCEPT !["watchdog"] = "publish"]
    /\ BeatFrame /\ UNCHANGED <<tasks, brokerFailures>>

\* Their send_notification_task.delay(), after the commit.
Publish(b) ==
    /\ beat[b] = "publish"
    /\ tasks' = tasks + 1
    /\ beat' = [beat EXCEPT ![b] = "idle"]
    /\ BeatFrame /\ UNCHANGED <<status, started, brokerFailures>>

\* The .delay() raises (or the process running the beat task dies first):
\* nothing puts the status back.
PublishFails(b) ==
    /\ "beat_broker" \in Faults
    /\ brokerFailures < MaxBrokerFailures
    /\ beat[b] = "publish"
    /\ beat' = [beat EXCEPT ![b] = "idle"]
    /\ brokerFailures' = brokerFailures + 1
    /\ BeatFrame /\ UNCHANGED <<status, started, tasks>>

BeatStep == RetrySweep \/ DispatchScheduled \/ RequeueStuck

-----------------------------------------------------------------------------
(* The owner's requests to send: _fetch_notification, then                 *)
(* _try_queue_notification                                                 *)

\* What a request to send leaves alone.
RequestFrame ==
    UNCHANGED <<visible, started, sched, deliveries, working, beat, edit,
                surroundings, accepted, mishaps, changes>>

\* What _try_queue_notification accepts on the instance that was read.
Sendable ==
    /\ appActive
    /\ status \in StatusesToQueue
    /\ ~(status = "scheduled" /\ InFuture(sched))

\* The row and its application are read, under FOR UPDATE where the database
\* has row locks; what was read decides whether the request is refused.
Fetch(r) ==
    /\ rpc[r] = "new"
    /\ paid
    /\ visible
    /\ RowFree
    /\ copy' = [copy EXCEPT ![r] = status]
    /\ rpc' = [rpc EXCEPT ![r] = IF Sendable THEN "read" ELSE "refused"]
    /\ lock' = IF RowLocking THEN r ELSE None
    /\ RequestFrame /\ UNCHANGED <<status, tasks, brokerFailures>>

\* The transaction of the fetch ends, before anything is written.
EndFetch(r) ==
    /\ rpc[r] \in {"read", "refused"}
    /\ rpc' = [rpc EXCEPT ![r] = IF rpc[r] = "read" THEN "fetched" ELSE "done"]
    /\ lock' = None
    /\ RequestFrame /\ UNCHANGED <<status, tasks, copy, brokerFailures>>

\* UPDATE ... WHERE status = previous_status; no row: 409.
QueueUpdate(r) ==
    /\ rpc[r] = "fetched"
    /\ RowFree
    /\ IF status = copy[r]
       THEN /\ status' = "queued"
            /\ rpc' = [rpc EXCEPT ![r] = "queued"]
       ELSE /\ rpc' = [rpc EXCEPT ![r] = "done"]
            /\ UNCHANGED status
    /\ RequestFrame /\ UNCHANGED <<tasks, copy, lock, brokerFailures>>

\* send_notification_task.delay() succeeds: 202.
QueueDelay(r) ==
    /\ rpc[r] = "queued"
    /\ tasks' = tasks + 1
    /\ rpc' = [rpc EXCEPT ![r] = "done"]
    /\ RequestFrame /\ UNCHANGED <<status, copy, lock, brokerFailures>>

\* It raises ...
QueueDelayFails(r) ==
    /\ "api_broker" \in Faults
    /\ brokerFailures < MaxBrokerFailures
    /\ rpc[r] = "queued"
    /\ rpc' = [rpc EXCEPT ![r] = "rollback"]
    /\ brokerFailures' = brokerFailures + 1
    /\ RequestFrame /\ UNCHANGED <<status, tasks, copy, lock>>

\* Mutant: the previous status is not put back.
QueueRollbackOmitted(r) ==
    /\ rpc[r] = "rollback"
    /\ RowFree
    /\ rpc' = [rpc EXCEPT ![r] = "done"]
    /\ RequestFrame /\ UNCHANGED <<status, tasks, copy, lock, brokerFailures>>

\* ... and the previous status is put back if the row is still QUEUED: 503.
QueueRollback(r) ==
    /\ rpc[r] = "rollback"
    /\ RowFree
    /\ status' = IF status = "queued" THEN copy[r] ELSE status
    /\ rpc' = [rpc EXCEPT ![r] = "done"]
    /\ RequestFrame /\ UNCHANGED <<tasks, copy, lock, brokerFailures>>

\* What a request that has begun does next.
RequestStep(r) ==
    \/ EndFetch(r)
    \/ QueueUpdate(r)
    \/ QueueDelay(r)
    \/ QueueRollback(r)

-----------------------------------------------------------------------------
(* The owner's other requests *)

\* What the owner's other requests leave alone.
OwnerFrame ==
    UNCHANGED <<started, deliveries, tasks, working, beat, api, surroundings>>

Change(c) ==
    /\ c \in Changes
    /\ changes < MaxChanges
    /\ changes' = changes + 1
    /\ UNCHANGED <<accepted, mishaps, brokerFailures>>

\* NotificationFutureDetailApiView PATCH: get_object ...
EditRead ==
    /\ Change("edit")
    /\ edit = None
    /\ status = "scheduled"
    /\ InFuture(sched)
    /\ edit' = sched
    /\ OwnerFrame /\ UNCHANGED <<status, visible, sched>>

\* ... then NotificationFutureUpdateSerializer.update saves the instance, with
\* a new date or with the one it had read.
EditSave(t) ==
    /\ edit # None
    /\ RowFree
    /\ status' = "scheduled"
    /\ sched' = t
    /\ edit' = None
    /\ OwnerFrame /\ UNCHANGED <<visible, history>>

\* NotificationDetailApiView.destroy: the conditional soft delete.
SoftDelete ==
    /\ Change("delete")
    /\ visible
    /\ RowFree
    /\ status \notin PendingStatuses
    /\ visible' = FALSE
    /\ OwnerFrame /\ UNCHANGED <<status, sched, edit>>

-----------------------------------------------------------------------------
(* What surrounds the pipeline *)

\* What a change of the surroundings leaves alone.
SurroundFrame ==
    UNCHANGED <<notification, deliveries, tasks, working, beat, api, edit>>

\* The subscription lapses or is renewed (user_is_paid).
ChangeSubscription ==
    /\ Change("subscription")
    /\ paid' = ~paid
    /\ SurroundFrame
    /\ UNCHANGED <<appActive, linked, tokenActive, appQuiet, deviceQuiet>>

\* The owner switches the application off or on.
ChangeApplication ==
    /\ Change("application")
    /\ appActive' = ~appActive
    /\ SurroundFrame
    /\ UNCHANGED <<paid, linked, tokenActive, appQuiet, deviceQuiet>>

\* A device unlinks from the application or links again.
ChangeLink(d) ==
    /\ Change("link")
    /\ linked' = IF d \in linked THEN linked \ {d} ELSE linked \cup {d}
    /\ SurroundFrame
    /\ UNCHANGED <<paid, appActive, tokenActive, appQuiet, deviceQuiet>>

\* A device's token is revoked, or the device registers again.
ChangeToken(d) ==
    /\ Change("token")
    /\ tokenActive' = IF d \in tokenActive THEN tokenActive \ {d}
                      ELSE tokenActive \cup {d}
    /\ SurroundFrame
    /\ UNCHANGED <<paid, appActive, linked, appQuiet, deviceQuiet>>

\* A quiet period of the application, or of a device, begins.
BeginAppQuiet(q) ==
    /\ Change("app_quiet")
    /\ appQuiet = 0
    /\ appQuiet' = q
    /\ SurroundFrame
    /\ UNCHANGED <<paid, appActive, linked, tokenActive, deviceQuiet>>

BeginDeviceQuiet(d, q) ==
    /\ Change("device_quiet")
    /\ deviceQuiet[d] = 0
    /\ deviceQuiet' = [deviceQuiet EXCEPT ![d] = q]
    /\ SurroundFrame
    /\ UNCHANGED <<paid, appActive, linked, tokenActive, appQuiet>>

\* A live worker has used up the minutes the watchdog grants.  The code sets no
\* time limit; that no send takes longer is what tasks.py:22 counts on.
OutOfMinutes ==
    /\ "overrun" \notin Faults
    /\ started # None
    /\ started >= StuckMinutes
    /\ \E w \in Workers : Working(w)

\* A minute passes.
Tick ==
    /\ ~ OutOfMinutes
    /\ started' = Older(started)
    /\ sched' = Sooner(sched)
    /\ row' = [d \in Devices |-> [row[d] EXCEPT !.retry = Sooner(@)]]
    /\ snap' = [w \in Workers |-> [d \in Devices |->
                  [snap[w][d] EXCEPT !.retry = Sooner(@)]]]
    /\ edit' = Sooner(edit)
    /\ appQuiet' = Sooner(appQuiet)
    /\ deviceQuiet' = [d \in Devices |-> Sooner(deviceQuiet[d])]
    /\ UNCHANGED <<status, visible, rows, tasks, pc, todo, eligible, tally,
                   beat, api, paid, appActive, linked, tokenActive, history>>

OwnerStep ==
    \/ EditRead
    \/ \E t \in Delays \cup {edit} : EditSave(t)
    \/ SoftDelete

Surround ==
    \/ ChangeSubscription
    \/ ChangeApplication
    \/ \E d \in Devices : ChangeLink(d) \/ ChangeToken(d)
    \/ \E q \in Delays : BeginAppQuiet(q)
    \/ \E d \in Devices, q \in Delays : BeginDeviceQuiet(d, q)

Next ==
    \/ \E w \in Workers : WorkerStep(w) \/ Crash(w)
    \/ BeatStep
    \/ \E b \in Beats : Publish(b) \/ PublishFails(b)
    \/ \E r \in Requests : Fetch(r) \/ RequestStep(r) \/ QueueDelayFails(r)
    \/ OwnerStep
    \/ Surround
    \/ Tick

Spec == Init /\ [][Next]_vars

\* Celery keeps its workers running, beat runs each of its tasks every minute,
\* a request that has begun goes on, and time passes.  No request ever has to
\* be made, and no fault or change has to happen.
Fairness ==
    /\ \A w \in Workers : WF_vars(WorkerStep(w))
    /\ WF_vars(RetrySweep)
    /\ WF_vars(DispatchScheduled)
    /\ WF_vars(RequeueStuck)
    /\ \A b \in Beats : WF_vars(Publish(b))
    /\ \A r \in Requests : WF_vars(RequestStep(r))
    /\ WF_vars(Tick)

FairSpec == Spec /\ Fairness

-----------------------------------------------------------------------------
(* Safety *)

\* A notification is processed by at most one live worker, and it is PROCESSING
\* as long as that worker runs: _acquire_notification_for_processing admits
\* nobody else, and neither the watchdog, the dispatcher nor a request to send
\* takes the row away from it.
SingleOwner ==
    \A w \in Workers : Working(w) =>
        /\ status = "processing"
        /\ \A v \in Workers : Working(v) => v = w

\* A device gets a further push of the same notification only through a crash,
\* or an error, after a push and before it is recorded: skipping SENT
\* deliveries makes every other re-dispatch (retry, watchdog, manual re-send)
\* harmless to the devices already pushed.
DuplicatesNeedMishaps == \A d \in Devices : accepted[d] <= 1 + mishaps

\* What the notification says agrees with its deliveries: it is SENT only if
\* every delivery is, and NO_TARGET only if there is none.
StatusMatchesDeliveries ==
    /\ status = "sent" => rows # {} /\ \A d \in rows : row[d].status = "sent"
    /\ status = "no_target" => rows = {}

\* Once a pass is over, a delivery that is neither sent nor given up is within
\* the reach of the retry sweep: it is PENDING with a date.
NothingForgotten ==
    status \in {"sent", "partial", "failed"} =>
        \A d \in rows :
            row[d].status = "pending" /\ row[d].attempts < MaxAttempts
                => row[d].retry # None

\* The provider is never asked more than MAX_DELIVERY_ATTEMPTS times to push
\* one delivery without accepting it.
AttemptsBounded == \A d \in Devices : row[d].attempts <= MaxAttempts

\* Whatever overlaps, attempt_count outgrows MAX_DELIVERY_ATTEMPTS by at most
\* one per further worker: the increment is atomic, and a pass that loads a row
\* without attempts left does not push it.
OverlapBoundsAttempts ==
    \A d \in Devices :
        row[d].attempts <= MaxAttempts + Cardinality(Workers) - 1

\* A delivery marked SENT is never written again.
SentIsFinal ==
    [][\A d \in Devices : row[d].status = "sent" => row'[d] = row[d]]_vars

-----------------------------------------------------------------------------
(* Liveness *)

\* A notification does not stay PROCESSING: a worker ends its pass, or dies and
\* the watchdog takes the row back.
ProcessingEnds == status = "processing" ~> status # "processing"

\* A notification that was QUEUED is picked up.
QueuedIsServed == status = "queued" ~> status # "queued"

\* A delivery whose retry is due, and that may be attempted again, does not stay
\* due. (One that was deferred after its last attempt does: the sweep queues
\* it every minute, and no pass attempts it.)
RetriesDrain ==
    \A d \in Devices :
        DueForRetry(d) /\ row[d].attempts < MaxAttempts ~> ~DueForRetry(d)

=============================================================================
