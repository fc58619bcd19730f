# A TLA+ model of the PushIT server

PushIT stores notifications, sends them to the devices that are linked to an
application, retries what failed and keeps the status the owner sees. This
directory holds TLA+ modules translated from its Python source, the TLC
configurations that check them on small instances, and proofs checked by TLAPS.

## 1. The system

| Component | State it keeps | Operations | What is hard |
|---|---|---|---|
| Send pipeline (`notifications/services.py`, `tasks.py`, `push.py`) | `Notification` (status, scheduled_for, processing_started_at), one `NotificationDelivery` per device (status, attempt_count, next_retry_at), Celery messages | `send_notification`, retry sweep, dispatcher, watchdog | workers, beat tasks and requests interleave between committed statements; crashes; provider failures; loaded copies go stale |
| Owner API (`notifications/api_views.py`, `serializers.py`) | the same rows | send, send-now, bulk send, PATCH of a future notification, soft delete, receipts, inbox | advisory checks before conditional updates; broker failure after the commit |
| Quiet-period scheduling (`notifications/scheduling.py`) | none (pure) | end of the current quiet period, effective send date | periods that wrap midnight or chain; a cap on the iterations |
| Idempotent creation (`notifications/creation.py`, `api_views_app_token.py`) | idempotency key and fingerprint | create, create and send | two requests with one key; a replay after a failure |
| Device registry (`devices/`) | devices, push tokens, links | identify, link, unlink, rotate, merge, takeover | two rows for one token; rotation against an invalid-token answer in flight |
| Inbound mail (`notifications/inbound_mailbox.py`, `applications/inbound_*.py`) | ingestion log, poll lock | poll, ingest, reply, mark read | crash before mark-read; lock expiry during a poll |
| Billing (`billing/`) | subscriptions, delivery receipts | entitlement webhook, pull, gates on subscription and quota, checkout, erasure | duplicated and reordered deliveries; receipt stored before the effect; check and insert in two steps; a session paid after the account is gone |
| Applications and send tokens (`applications/`) | token, code, secret, alias and flags of the row; send tokens | create, PATCH, rotations, activation, delete, issue and revoke send tokens | whole-row saves over what was rotated; a cap that is counted before the insert; deletion against provisioning |
| Accounts (`accounts/`) | users, refresh tokens and their blacklist, mailed links | register, confirm, sign in, refresh, log out, reset and change the password, profile, the superuser's PATCH and the admin, erase, flush | single use of a link; sessions that must end with the password; crashes between save and sweep; whole-row saves |
| Webhook callbacks (`notifications/webhooks.py`) | Celery messages | callback after a final status, its retries | lost and repeated calls |
| Retention (`notifications/retention.py`), token flush | none | daily purge | rows in flight; a forgotten blacklist entry |
| Exchange (`exchange/`) | the aliases of the shared mailbox | add and remove an alias | outside the transaction of the row |
| Health, metrics, configuration | none | reads | nothing |

The components meet in the database. The API writes QUEUED and publishes a
message; a worker takes it, claims the row (PROCESSING), loads the deliveries,
pushes and writes a final status; the sweep, the dispatcher and the watchdog
run every minute and publish again what is due, scheduled or stranded. Devices,
links, subscriptions and quiet periods change at any moment of that.

What makes the pipeline correct: one worker per notification, no device pushed
twice without a fault, a SENT delivery left alone, a status that agrees with
the deliveries, no delivery that is neither finished nor within reach of the
sweep, attempts bounded, and no notification stuck in PROCESSING or QUEUED.

## 2. Modules and plan

| Module | Part | Run |
|---|---|---|
| `NotificationSend`, `NotificationSendProofs` | send pipeline, owner API | `send_crash`, `send_surroundings`, `send_recovers`, `skip_locked` |
| `DeviceRegistry`, `DeviceRegistryProofs` | device registry | `registry_patch`, `registry_races` |
| `IdempotentCreate`, `PutIfAbsent`, `IdempotentCreateProofs` | creation by key, app-token API, purge | `idempotent_create` |
| `InboundMailbox`, `InboundMailboxProofs` | inbound mail | `inbound_mailbox` |
| `Entitlements`, `EntitlementsProofs` | billing, quota, erasure at the central | `entitlements` |
| `QuietPeriods`, `QuietPeriodsProofs` | scheduling algorithm, quiet-period API | `quiet_periods` |
| `Applications`, `ApplicationsProofs` | application row, send tokens, Exchange, callbacks | `applications` |
| `Accounts`, `AccountsProofs` | accounts, sessions, mailed links, token flush | `accounts` |

How they compose: `IdempotentCreate` is shown to implement `PutIfAbsent`, an
indivisible step per key. `InboundMailbox` creates its notifications in such a
step. `NotificationSend` starts from the rows a creation leaves, and takes the
ends of quiet periods, the subscription, the application, links and tokens as
facts that change at any time; the other modules say how they change.

Every safety property that a passing run checks is also a theorem, listed in the
sections below, for every value of the constants that satisfies the named
`ASSUME`s of its module. TLC evaluates those assumptions in every run, and has
checked the inductive invariants on the instances of the runs. Liveness
(`QueuedIsServed`, `RetriesDrain`, `ProcessingEnds`, `MailsAreRead`,
`CallbackSettles`) stays with TLC: the prover has no rule for fairness.

Still to do: an abstract delivery specification (each device gets the message,
at least once per success, and the status reports it) that `NotificationSend`
implements.

Every MC module adds the values of constants and the symmetry sets to the
module of its name and nothing else. Deadlock is checked in the runs of
`NotificationSend` and in `inbound_mailbox`, where some beat task can always
run. The other configurations switch it off: the number of requests is
bounded, and once they are served the system rests.

## 3. `NotificationSend`

One notification, its deliveries, any number of workers and send requests. A
step is one committed statement, one transaction or one outside call, so two
processes interleave where they can in the code.

| Variable | Code |
|---|---|
| `status`, `visible`, `started`, `sched` | `Notification.status`, `is_visible`, `processing_started_at`, `scheduled_for` |
| `rows`, `row` | which `NotificationDelivery` rows exist; `status`, `attempt_count`, `next_retry_at` |
| `tasks` | `send_notification_task` messages in the broker for this notification |
| `pc`, `todo`, `snap`, `eligible`, `tally` | a worker: where it is, deliveries left, rows as loaded, `linked_device_ids` and flags as read, counters (only compared with 0) |
| `beat` | dispatcher and watchdog between their commit and their `.delay()` |
| `rpc`, `copy`, `lock` | a send request: where it is, the status it read, the row lock of its fetch |
| `edit` | the PATCH in progress and the date it has read |
| `paid`, `appActive`, `linked`, `tokenActive`, `appQuiet`, `deviceQuiet` | `user_is_paid`, `Application.is_active`, active links, active tokens, minutes left of quiet periods |
| `accepted`, `mishaps`, `brokerFailures`, `changes` | history: pushes accepted per device, and what the bounds count |

Dates are minutes left (0 is due), the age of the processing is minutes since,
saturating just above the watchdog's threshold because it is only compared
with it. `Tick` lets a minute pass everywhere at once.

Actions follow the code's order of tests: `TakeTask`, `Acquire` /
`AcquireNothing`, the lapsed subscription, the application's quiet period,
`NoTarget` / `LoadDeliveries`, then per delivery `SkipSent`,
`CancelIneligible`, `WaitForRetry`, `DeferDelivery`, `AttemptsExhausted`,
`Push` and what follows its answer, then `Finish`. Tasks are acknowledged when
taken (the settings do not ask for late acknowledgement), so a crash loses the
message. `PushAnswerLost`, `MarkSentFails` and `ResetFails` are the ways the
`try` block of a push ends in `except` after the provider accepted it.
`RowLocking` stands for `DB_SUPPORTS_ROW_LOCKING`; under it a request's fetch
holds the row, conditional updates wait for it, and `skip_locked` readers turn
away.

Which faults and changes may happen is chosen per run (`Faults`, `Changes`);
`MaxTasks`, `MaxMishaps`, `MaxBrokerFailures` and `MaxChanges` bound them.
`"overrun"` lets a pass outlive the watchdog's threshold; without it time stops
at the threshold while a worker runs, which is the assumption written at
`tasks.py:22`.

### Runs

| Run | Instance | Shows |
|---|---|---|
| `send_crash` | 2 devices, 2 workers, 1 request, 2 attempts; one crash, lost answer or failed save, one refused beat `.delay()` (404,000 states) | types, one worker at a time, duplicates only through a mishap, status and deliveries agree, nothing forgotten, SENT is final |
| `send_surroundings` | 1 device, 2 workers, 1 request, 3 attempts, no row locks, a refused request `.delay()`; 1 change out of seven kinds; fair (240,000) | attempts bounded, nothing forgotten under changes, QUEUED is always left, due retries are worked off |
| `send_recovers` | 1 device, 2 workers, 1 attempt; crash, failed reset, refused beat `.delay()`, overrun, PATCH; fair (229,000) | PROCESSING is always left; overlap exceeds the attempts by at most one per further worker |

Two workers are enough for an owner and an intruder, two devices for one that
succeeds next to one that fails; one minute of delay and of threshold
distinguish "not yet" from "due"; three attempts have a first, a middle and a
last one.

`skip_locked` expects a violation: of two *workers* one wins (`services.py:136`),
but a request's row lock makes the only worker drop its task, and the
notification stays QUEUED.

The passing runs leave out what their properties do not survive. Each exclusion
is a limit of the code, and one changed line of the configuration shows it:

| Change | Fails | Because |
|---|---|---|
| `SendCrash`: `"overrun"` in `Faults` | `SingleOwner` | the watchdog (`tasks.py:124`) takes the row from a slow worker, and a delivery is pushed after it is SENT |
| `SendCrash`: `Changes = {"edit"}`, `MaxChanges = 1` | `SingleOwner` | the PATCH is saved without a condition (`serializers.py:655`): SCHEDULED again under its worker, although only future notifications are to be edited (`api_views.py:661`) |
| `SendCrash`: `"reset_error"` in `Faults` | `SentIsFinal` | the device's save fails after the delivery is SENT (`services.py:549`) and the success is recorded as a failure, against `services.py:377` |
| `SendSurroundings`: `"crash"`, `"beat_broker"` in `Faults`, `MaxMishaps = 1` | `QueuedIsServed` | `.delay()` fails after the watchdog's UPDATE, and the dispatcher (`tasks.py:94`) selects SCHEDULED rows only |

`SingleOwner` and `SentIsFinal` are checked without what the first three rows
name, so they say nothing of it; `ProcessingEnds` and `OverlapBoundsAttempts` are
checked with overrun and PATCH. `AttemptsBounded` is checked without a crash; its
theorem is not limited so. `RetriesDrain` speaks of deliveries with attempts left. One that has used them
all and is then deferred by a quiet period of its device (`services.py:515`,
tested before the attempts are) stays due, and the sweep queues its
notification every minute.

`DuplicatesNeedMishaps` counts rather than forbids: a crash between the push and
the SENT mark costs a second push, against `tasks.py:101-103` ("already-pushed
devices are not pushed again").

### Fairness

`FairSpec` assumes weak fairness of each worker (Celery restarts its children
and they work off their queue), of the sweep, the dispatcher, the watchdog and
their `.delay()` (beat runs each every minute, `config/settings/base.py`), of a
request that has begun, and of the clock. Faults, changes and the arrival of
requests are never assumed to happen. Strong fairness is not assumed.

### Proofs (`NotificationSendProofs`)

For every set of devices, workers and requests and all limits:

* `TypeCorrect`: `Spec => []TypeOK`.
* `OwnerCorrect`: `Spec => []SingleOwner`, if `"overrun" \notin Faults` and
  `"edit" \notin Changes`. `SingleOwner` is not inductive: the watchdog must
  not reach a live worker (`started \in 0 .. StuckMinutes` while one works,
  kept by the guard of `Tick`), no PATCH may be pending, and a request may only
  have read a status it is allowed to queue. That is `OwnerInv`.
* `DuplicatesCorrect` and `SentCorrect`: `Spec => []DuplicatesNeedMishaps` and
  `Spec => SentIsFinal`, also without `"reset_error"`. `LedgerInv` adds: the
  statuses a pass has loaded are the current ones (nobody else writes them,
  by `OwnerInv`); what it attempts or cancels is not SENT; SENT has no retry
  date; an accepted push is booked in its row, about to be booked by its
  worker, or paid for by a mishap.
* `StatusCorrect`: `Spec => []StatusMatchesDeliveries`. `SettleInv` adds that
  a pass whose counters show no failure and no postponement has visited SENT
  deliveries only.

* `AttemptsCorrect`: `Spec => []AttemptsBounded`, under the hypotheses of
  `OwnerCorrect`. `AttemptInv(n)` counts the attempts of a delivery together
  with those still to come, one for each worker that has it before it and has
  loaded attempts left: with at most `n` workers in the loop they never exceed
  `MaxAttempts + n - 1`.
* `OverlapCorrect`: `Spec => []OverlapBoundsAttempts`, with no hypothesis at all:
  the same invariant with `n` the number of workers.
* `ForgottenCorrect`: `Spec => []NothingForgotten`, under the hypotheses of
  `OwnerCorrect`. `ForgetInv` adds that a pass works on the rows as they are,
  that what it has visited has a retry date, that a request puts back only a
  status under which everything had one, and `OneMessage`: before there are
  delivery rows a QUEUED notification has exactly one message, or one process
  about to publish or to take one. Without the last part a second message could
  let a request return to `failed` under a pass.

The hypotheses are the exclusions of the table above.

## 4. `DeviceRegistry`

Devices, links and the requests that change them. A transaction is a few reads
and row locks followed by one step with all its writes and its commit; the
database is one with row locks (`DB_SUPPORTS_ROW_LOCKING`) that reads what is
committed.

| Variable | Code |
|---|---|
| `device`, `used` | `Device` rows (`user`, `push_token`, `push_token_status`, `is_active`); primary keys ever given out |
| `link` | `DeviceApplicationLink`: its current device, `is_active`, `unlink_source` (`unlinked_at` is set and cleared with it) |
| `inbox`, `quiet` | deliveries (by send pass) and quiet periods that hang on a device |
| `lock` | which request has locked a device row |
| `req`, `begun` | the requests in progress: step, input, what they have read; how many began |
| `pass` | a send pass: the device and the token it loaded |
| `unregistered` | tokens the provider no longer knows (external) |
| `enroller` | history: who activated a link, and whether the device it hung on was somebody else's then |

`Identify` begins identify and link. `SelectPrevious`, `SelectClash`,
`LoadTargetLinks`, `LoadSourceLinks`, `Merge`, `Rotate` and `RotateFails` are
`_rotate_push_token` and `_merge_device_into`; `Upsert`, `Insert` and
`Reselect` the rest of `_upsert_authenticated_device`; `LinkDevice` and `Relink` the second
transaction of a link request: `get_or_create`, and for a link that is not active
the second fetch under a lock, by primary key alone
(`devices/api_views_app_token.py:295`), with the save. A merge may move the link
to another device between the two. Unlink, eviction, PATCH and DELETE are a read
and a write each, as in the code. A new link waits for a locked device (its
foreign key does), a change of an existing link does not: the merge locks
devices and not links. The key of a new link is any that no row has and no
request has loaded, as the database's sequence gives it. `DeadlockVictim` is the database's deadlock detection.
A DELETE that meets a lock half-way is modelled as waiting for it; if the
database aborts it instead, it changes nothing. Requests that are refused or
find nothing to do are left out.

| Run | Instance | Shows |
|---|---|---|
| `registry_patch` | 2 requests, both at a time, 1 send pass, tokens that die; link, unlink, PATCH (634,000 states) | a merge keeps the subscriptions, inbox and quiet periods of both devices, but for applications it was overtaken on |
| `registry_races` | 3 requests, 2 at a time; identify, link, unlink, evict, delete (836,000) | one device per token; one link per device and application although the merge decides on what it loaded; link and audit agree; a foreign link needs an overtaken link request |

A merge writes from links it read and did not lock
(`api_views_app_token.py:83`): of an application whose link somebody activated or
ended in between (`Overtaken`), a re-enrolment may be lost or an eviction undone,
and `MergeKeepsLinks` says nothing. Of all other applications, and of the inbox
and the quiet periods, it says everything, whatever else overlaps.

No property says that a request writes to its user's devices only: it would fail.
PATCH and DELETE are checked when the row is read (`devices/api_views.py:126`) and
written after a takeover.

Other behaviours of the code that the module shows and no property denies:

* a takeover falls between the two transactions of a link request
  (`api_views_app_token.py:284`), or it takes the device to which a merge has
  moved the link between the two fetches of the second one, and leaves a foreign
  link: the cases `LinksFollowOwner` names; `docs/device-app-connection.md:183`
  says a takeover clears the links;
* of two deactivations that both read the active link (`:366`) the later one
  overwrites the source of the first, which `devices/models.py:58` wants kept
  distinct;
* the answer that a token is invalid is saved by primary key
  (`services.py:312`), also when the device has rotated to a live token since
  (`PassRefused`);
* the PATCH of a device writes every column (`devices/api_views.py:151`), a
  rotated token included, against `docs/device-app-connection.md:268`.

Bounds: two tokens are an old and a new one, two users a former and a new
owner, two rows at the start (each may be missing, owned or ownerless, linked,
evicted or not) a kept and a merged device; one application, since links of
different applications never meet; a third request (`registry_races`) relinks
after a takeover or takes away the row a failed insert looks for. `DeviceIds`
bounds the rows ever created. Users, tokens and requests are symmetric.

### Proofs (`DeviceRegistryProofs`)

* `RegistryCorrect`: `Spec => []RegistryInv`. Besides types it says what row locks
  give: from the moment a rotation has locked its row and a merge both, the rows
  are there, of that owner and with these tokens, and they have exactly the links
  that were loaded (`Holds`). Whether a link is active is not part of it, since
  links are not locked. A link hangs on a device that exists (`Home`), so that a
  cascade leaves nothing behind.
* `OneDeviceCorrect`: `OneDevicePerToken`. A rotation writes the new token only
  after it has looked for its row, with both rows locked or the other one deleted.
* `OneLinkCorrect` and `AuditCorrect`: `OneLinkPerPair` and `AuditMatches`. A merge
  moves a link only if no loaded link of the kept device has its application, and
  by `Holds` the loaded links are the ones there are.
* `OwnerCorrect`: `LinksFollowOwner`, if `"patch" \notin Operations`. The PATCH of a
  device writes back the owner it has read, under whatever links came since; all
  other operations may interleave. `OwnerInv` adds that the links a merge has
  loaded as active, whose enrolment it will copy, were enrolled by its user.
* `MergeCorrect`: `MergeKeepsLinks`, for any number of requests and send passes and
  all operations. It follows from `Holds`: the links of the two devices are those
  loaded, and each is as active as it was then, or overtaken.

## 5. `IdempotentCreate` and `PutIfAbsent`

The create, send and bulk-send endpoints of an app token and the creation they
share, on both branches of `creation.py`: PostgreSQL inserts in a savepoint and
looks the row up when the unique constraint fails; SQLite looks first, inserts,
and tries again while the database is locked.

| Variable | Code |
|---|---|
| `row`, `inserted` | `Notification` by `(application, idempotency_key)`: primary key, fingerprint, status, visibility |
| `tasks` | send tasks on the broker |
| `pc`, `op`, `fp`, `tries`, `outcome`, `got`, `copy`, `current`, `answer` | a request: where it is, payload and fingerprint, lock errors met, `NotificationCreationOutcome`, the rows it loaded, the HTTP status |
| `template`, `passed`, `paid`, `active` | what a payload is rendered from and checked against |

`Begin` is everything before the first statement: authentication, subscription,
key, template, date. `Lookup`, `Insert`, `Get` and `Locked` are the creation;
`QueueUpdate`, `QueuePublish` and `QueueRollback` the send. The dispatcher, the worker
(one step here) and the purge share the rows. The purge is two steps, `PurgeSelect`
and `PurgeDelete`: deliveries cascade, so Django's `delete()` selects the rows by
status and age, and deletes them by primary key.

`PutIfAbsent` is what a key promises: a register that the first request fills
in one step. `CreationIsAtomic` is its `Spec`, with the register mapped to the
fingerprint of the row and the verdict to the outcome.

Run `idempotent_create`: 3 requests on 1 key (a creator, a racer and a retry
after both), both vendors, two lock tries (three in the code: a middle one adds
nothing to a first and a last), one death or refused `.delay()`, one change;
385,000 states. One payload per notification, one send task and only while the
row is QUEUED, and the refinement.

One promise of the repository fails, which the run leaves out: `retention.py:38-39`
says queued notifications are kept whatever their age. With `PROPERTY
PendingAreKept` in `IdempotentCreate.cfg` TLC shows a row that is queued between
the two steps of the purge, which then deletes it with its task waiting (ages are
not modelled; a row past its retention is queued by bulk-send or by its owner).
`OneTaskPerNotification` therefore speaks of the row while it exists; the message
of a deleted one finds no row and does nothing.

What the code does and no property denies: a request that dies, or whose
`.delay()` is refused, between creation and queueing leaves a row that its retry
finds (200) and does not queue. A retry after the template was edited gets 409,
after its date has passed 400, although `docs/frontend-workflows.md:137-139`
says the existing notification is returned. A row purged between the failed
insertion and the look-up makes a 500.

Proved (`IdempotentCreateProofs`), for any number of keys, requests and lock tries
on both vendors. `BaseCorrect` gives types and what a request carries at each
place. `OneTask` is `OneTaskPerNotification`: of the requests, bulk sends and
dispatcher runs that have read a row only one takes it out of the status it had,
and until it publishes or puts it back there is no task (`ClaimInv`). `OnePayload`
is `OnePayloadPerNotification`: primary keys are never used twice, and as long as
a row is there whoever was shown it was told of a conflict exactly if the
fingerprints differ (`PayloadInv`). `CreationAtomic` is `Spec => CreationIsAtomic`,
the refinement: initial states map to initial ones, and every step is an asking,
a finding, a creation, an emptying (purge), or does not concern the register.
Assumed: `None` is no value, and a storable key is not one that is refused.

## 6. `Entitlements`

The rights of one user. The central decides a state and pushes it with a
`delivery_id` until it is answered; PushIT stores a receipt, then loads and
saves the subscription; a user back from the checkout pulls. The checkout only
hands out the URL of a session at the central (`Checkout`), which may be paid at
any later time (`Pay`, external). The cache gates `POST /apps/`; the staff may
bypass it; an account is erased at the central first.

| Variable | Code |
|---|---|
| `issued`, `outbox`, `used`, `session`, `charged` | the central (external, from how `billing/` uses it) |
| `cache`, `receipts` | `Subscription` (as the version it holds), `DeliveryReceipt` |
| `pc`, `serving`, `pull`, `creating`, `deletion` | requests in progress |
| `exists`, `bypass`, `apps`, `now` | the user, the staff's bypass, its applications, days |
| `applied`, `crashes`, `overtaken`, `lost`, `highest`, `slipped` | history |

Run `entitlements`: 2 handlers (one push twice at once, or two in the wrong
order), 2 creators at a quota of one, 2 states, 2 deliveries, days 0 and 1, one
crash; 4.5 million states. A push is applied at most once; what is settled is
current, unless since the last push the request that carried that state died
after its receipt (`lost`) or an older state was applied over a newer one
(`overtaken`): the next push, under a new id, mends both; the quota is overrun by
less than the overlapping creations; nobody pays without an account, unless an
open session was paid after the erasure, before or after the deletion.

The three "unless" are the code's: the receipt is stored before the state is
applied (`billing/api_views.py:329`), so a crash in between loses the state
until the central sends it under another id (and a user deleted between the
look-up and the save makes the request fail, `SaveFails`); versions are not compared, against
the docstring at `billing/api_views.py:287-289`; a session that is open is not
closed by the erasure as PushIT sees it, and nothing stops a checkout while the
account is being deleted. A whole-row PATCH of an application that was deleted
(section 9) inserts it again without a look at the quota; it is not in this module.

Proved (`EntitlementsProofs`), for any number of handlers, creators, states, pushes
and days. `BaseCorrect`: nothing in flight carries a version that was not decided
or a `delivery_id` that was not used, and an id stands for one push. `AppliedCorrect`
(`AppliedOnce`): of two handlers that are past the receipt no two have the same id
(`ReceiptInv`). `CurrentCorrect` (`SettledIsCurrent`): unless disturbed, the cache
is current or the newest version is on its way (`CurrentInv`). `QuotaCorrect`
(`QuotaOverrunBounded`): applications plus creations past the check stay below the
highest quota plus the creators. `PayerCorrect` (`NoOrphanPayer`). Assumed: creators are finite in number,
and `Unlimited` is no less than any quota.

## 7. `InboundMailbox`

The task and its lock, the loop over the unread mails, the judgement of a mail,
the creation, the journal, replies and owner notices, and the cap on attempts.

| Variable | Code |
|---|---|
| `kind`, `unread` | the mails in the mailbox (Graph, external): recipient, sender, authentication, Message-ID, content |
| `lock`, `overran` | `INBOUND_POLL_LOCK_KEY`; history: it ran out under a live run |
| `pc`, `batch`, `mail`, `verdict` | a run of the poller |
| `note`, `born` | notifications by key; how many a mail gave |
| `errors`, `logged` | ERROR rows and other statuses of the journal |
| `slots`, `sent`, `lapses` | rate limits taken, answers sent, limits that ran out |
| `mode`, `active`, `passed` | sender policy, application, a date in the mail that has passed |

A mail is marked read last, so every fault before that makes the next poll judge
it again. A database that is down cannot even journal the error.

Run `inbound_mailbox`: 2 mails of nine kinds (one of each verdict, a copy, the
same Message-ID with other content, one that always fails), 2 runs of the poller
that repeat, one mail fetched at a time (so a failing mail can block the next),
2 attempts, one fault, one change; 503,000 states. One notification per
Message-ID; what is read is accounted for; answers once per interval; two runs
overlap only after a lock ran out (what happens then is the business of the other
properties, which hold with it); and every mail is read in the end.

Fairness: each run goes on, since Celery runs the task and beat starts it every
minute, and the cache key expires. Faults are bounded; without that bound an
unreachable mailbox keeps every mail unread.

Proved (`InboundMailboxProofs`), for any number of mails, runs, attempts, faults and
changes. `NotesCorrect` (`OneNotificationPerMail`): a mail that gave a notification
has it under its key, where the next creation finds it. `AnswersCorrect`
(`AnswersLimited`): what went out of a slot is at most its lapses, plus one while it
is taken. `OverlapCorrect` (`OverlapNeedsOverrun`, which allows no overlap but after
an overrun): until a lock ran out under a live run, whoever works holds it.
`AccountsCorrect` (`ReadIsAccounted`) needs most: before the first fault the mails of
a run are unread and the one it has in hand is the only one with a notification
and no journal row; and as long as nothing around the poller has changed, every
judgement of a mail gives the same verdict, so journal and notification cannot
contradict each other (`AccountInv`).

## 8. `QuietPeriods`

The POST, PATCH and DELETE of the quiet periods of an application or a device,
and `get_effective_scheduled_for` with `get_quiet_period_end`, for rows that are
queried at each shift or were prefetched.

| Variable | Code |
|---|---|
| `turn` | the clock change of `settings.TIME_ZONE` |
| `periods`, `edits` | the rows, and the writes to them |
| `patch` | a PATCH: the row it read, its payload |
| `call` | the computation: date, shifts, rows it was shown |

`Quiet` is the reference definition: by the wall clock, which moments a row
covers. `EffectiveIsFirstFree` compares the algorithm with it: it skips quiet
moments only and ends on a free one. `StoredIsValid` says that no sequence or
overlap of PATCHes stores what a POST would refuse, which the computation
relies on.

Run `quiet_periods`: days of 4 ticks, a clock change of 2, a cap of 3 (32 in the
code; two windows that alternate over the days reach it), 2 rows, 2 PATCHes at a
time, 3 edits, seven payloads, six dates; 2.1 million states. Around the clock
change the computation follows the local times and may skip, or answer, a moment
that the wall clock says otherwise about (`NearTurn`). A PATCH that saves after
a DELETE brings the row back.

Proved (`QuietPeriodsProofs`), for every length of the day, clock change, cap, number
of rows and payload. `StoredCorrect` (`StoredIsValid`): a PATCH writes what its
serializer has normalised and validated, of the row it read (`StoreInv`), so no
overlap of PATCHes matters. `FirstFreeCorrect` (`EffectiveIsFirstFree`): each shift
covers quiet moments only, and when no row applies the moment is free. The proof
goes by days and times of day: the end that the code computes from local date and
time is the end of the window that covers the moment by the wall clock, also
over midnight, unless the clock changes nearby. That the greatest of several ends
exists is proved from the cardinality of the ends above each, as the induction
rules of the library cannot be used. Assumed: rows are finite in number and a
clock change is shorter than a day.

## 9. `Applications`

One application: row, send tokens, alias in Exchange, callbacks.

| Variable | Code |
|---|---|
| `row` | `Application`: token and its revocation, linking code, webhook secret, alias, `is_active`, webhook URL |
| `sendToken` | `AppSendToken` |
| `provisioned` | aliases of the shared mailbox (Exchange, external) |
| `req` | a request: what it read, where it is |
| `callback` | `send_webhook_callback_task`: state, retries, posts |
| `issued`, `replaced`, `lost`, `deleted`, `crossed` | history |

Every endpoint reads first and writes later. Rotations name their columns; the
PATCH (`applications/api_views.py:165-171`) and a new inbound address save all
of them. Exchange is told after the commit.

Run `applications`: 3 operations, 2 at a time, out of all ten, a cap of one send
token, one retry, one fault (Exchange, crash, endpoint, unsafe URL); 490,000
states. A replaced credential or a deleted row stays so, unless a whole row was
saved over it (`lost`); the mailbox serves the row's alias, unless something
failed or two changes of the address crossed; the cap is overrun by one at most;
every queued callback is posted or dropped.

Fairness: a worker takes the callbacks that are queued. A lost one counts as
dropped; one whose answer timed out may be posted twice.

Proved (`ApplicationsProofs`), for any number of requests, operations, send tokens
and callbacks. `ReplacedCorrect` (`ReplacedStaysReplaced`): unless a whole row was
saved over a change, the values of the row are distinct and none was replaced.
`SendTokensCorrect` (`SendTokensBounded`), which is inductive as it stands.
`AliasCorrect` (`AliasIsServed`): unless something failed or crossed, at most one
request is on its way to Exchange, and the mailbox holds exactly what that one
will still change (`AliasInv`). Assumed: requests and send tokens are finite in
number.

## 10. `Accounts`

The accounts of one address and their sessions. A password is the number of its
hash; a refresh token remembers the password its session goes back to.

| Variable | Code |
|---|---|
| `user`, `known`, `passwords` | `User` rows, keys and passwords given out |
| `token` | `OutstandingToken` and `BlacklistedToken` |
| `link` | `MagicLinkToken` |
| `mailed` | confirmation and reset links, which are signed and not stored |
| `req`, `served` | requests: step, user, what they read |
| `opened`, `confirmed`, `unswept`, `restored` | history: sessions per link and per confirmation, sweeps that died and passwords set in the admin; users to whom a save of the whole row gave back what it had read |

Three handlers read a user without a lock and write every column: the profile PATCH
(`accounts/api_views.py:615-618`), the superuser's PATCH
(`api_staff_views.py:64-68`) and the form of the admin (`admin.py:7-30`). `Profile`,
`StaffPatch` and `AdminForm` are the reads, `RowSave` the save. The view in which
the admin sets a password (`AdminPassword`, `AdminPasswordSave`) is one more, and
sweeps no refresh token. `AdminDelete` deletes an account without blacklisting its
tokens. An account added in the admin is a registration whose mail expires.

Run `accounts`: 4 requests, 2 at a time, 2 keys (an account and the one
registered after its erasure), 3 tokens, 1 link, 2 passwords (one is replaced), one crash,
one expiry or deletion in the admin; requests are symmetric; 1.2 million states. A link
opens one session, and a confirmation too unless a save of the whole row has made
the account unconfirmed again. A session ends with its password, unless its token
was minted while the sweep ran; no sweep has followed the password (it is still to
come, its process died, or the admin set the password); or a save of the whole row
gave the account back what it had before. A dead token stays dead when the
blacklist is flushed. Only these four saves bring back what was replaced, confirmed
or erased: sign-in, confirmation, reset, change and erasure, however they overlap,
do not.

One more promise fails: `accounts/api_views.py:184` calls the confirmation
"Idempotent for an already-confirmed user". The code answers 400 and gives no
tokens, as `accounts/tests/test_auth_hardening.py:69` asserts: documentation and
test disagree, and the code, which is single-use on purpose, follows the test. With
`PROPERTY ConfirmIsIdempotent` in `Accounts.cfg` TLC shows two requests with one
link at once, of which the second gets nothing.

What the code does: each of the whole-row saves reverts a new password, a
deactivation or a confirmation, and inserts an erased account again. A refresh or a
login that overlaps the sweep (`password_reset.py:83`) survives it, a crash before
it leaves every session, and so does a password set in the admin. A reset link used
by two requests at once sets two passwords.

Proved (`AccountsProofs`), for any number of accounts, requests, tokens, links and
passwords. `BaseCorrect`: sessions, links and requests refer to accounts that were
registered, and two password changes never hold the same row. `DeadCorrect`
(`DeadStaysDead`) and `RestoreCorrect` (`OnlyWholeRowsRestore`) are step properties
that follow from it. `LinkCorrect` (`LinkOpensOneSession`): a link that opened a
session is used, and an account that was confirmed stays so, unless it is
`restored`. `SessionsCorrect` (`SessionsEndWithPassword`): a sweep in progress has selected every good token but
those made since, and the token a request is about to make goes back to the
current password, or to a sweep that is running or due (`SessionInv`). It is said
of accounts that are not `restored`: two such saves can put an older password back
and then the newer one, with a login in between and no sweep after it; and a token
minted while the account was erased names no user, so no sweep finds it once a
save of the whole row has inserted the account again. Assumed: keys are natural numbers, finitely many.

## 11. Not modelled

* Payloads, platforms, logos, QR codes, wording, mail texts and metrics; the
  encryption and reveal of secrets, marks of last use, signatures of webhooks:
  no property tells their values apart.
* Receipts, inbox, statistics, lists, their filters and orderings by effective
  date (`scheduling.py:115-163`), `alias_status`, and the billing views that
  forward to the central: reads.
* An email address edited in the admin: the module is about one address.
* Cookie transport, throttles and the captcha: in front of the handlers, they
  can only refuse.
* The hard DELETE of a future notification; the purge of journal rows and
  invalid devices; the lock of SQLite's file in `DeviceRegistry`.
* Health, metrics and configuration: reads and settings.

`TypeOK` of `DeviceRegistry` and of the modules of sections 5 to 10 is not among the
properties of their runs, which are spent on the behaviours above; it is proved,
as a part of `RegistryInv`, `StoreInv` or `BaseInv`.
