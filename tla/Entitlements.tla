---------------------------- MODULE Entitlements ----------------------------
(***************************************************************************)
(* The billing rights of one user (billing/): the central service decides  *)
(* them and pushes each new state to PushIT, which caches the last one it  *)
(* was given and reads only that cache.  A push is retried until it is     *)
(* answered, so it may arrive late, twice at once, or after its successor; *)
(* a user who returns from the checkout pulls the state as well.  The      *)
(* cache gates the creation of applications, and an account is erased at   *)
(* the central before it is deleted here.                                  *)
(***************************************************************************)
EXTENDS Integers, FiniteSets

CONSTANTS
    Handlers,      \* requests of the central being served at once
    Creators,      \* POST /apps/ requests being served at once
    Payloads,      \* the states the central may decide
    MaxVersions,   \* bound: how often it decides
    MaxDeliveries, \* bound: pushes, each with a delivery_id of its own
    MaxTime,       \* bound: days
    MaxApps,       \* bound: applications
    MaxCrashes,    \* bound: requests that die half way
    Unlimited,     \* UNLIMITED
    None

ASSUME PayloadsAssumption ==
    \A p \in Payloads :
        /\ p.paid \in BOOLEAN
        /\ p.quota \in Nat
        /\ p.end \in Nat \cup {None}
        /\ p.grace \in Nat \cup {None}
ASSUME BoundsAssumption ==
    /\ {MaxVersions, MaxDeliveries, MaxTime, MaxCrashes, MaxApps} \subseteq Nat
    /\ Unlimited \in Nat
    /\ \A p \in Payloads : p.quota <= Unlimited
ASSUME NoneAssumption == None \notin Nat /\ None \notin Payloads
ASSUME CreatorsAssumption == IsFiniteSet(Creators) /\ Creators # {}

VARIABLES
    \* the central: the states it has decided, the pushes it has not seen
    \* answered, the delivery_ids it has used, whether a checkout session is
    \* open and whether it charges the user
    issued, outbox, used, session, charged,
    \* PushIT: the Subscription row (the version it holds), DeliveryReceipt
    cache, receipts,
    \* the requests in progress: the push each handler serves, the pull, the
    \* quota each creation has read, the deletion of the account
    pc, serving, pull, creating, deletion,
    \* the user row and its applications
    exists, bypass, apps,
    now,
    \* history: how often each push was applied, requests that died; since the
    \* central pushed last: an older state applied over a newer one, a request
    \* with the last state that died; the highest quota that was read; a
    \* payment made since the last erasure
    applied, crashes, overtaken, lost, highest, slipped

central == <<issued, outbox, used, session, charged>>
store == <<cache, receipts>>
serve == <<pc, serving>>
account == <<exists, bypass, apps>>
history == <<applied, crashes, overtaken, lost, highest, slipped>>
vars == <<central, store, serve, pull, creating, deletion, account, now, history>>

Versions == 1 .. MaxVersions
Ids == 1 .. MaxDeliveries
Push == [id : Ids, version : Versions]

TypeOK ==
    /\ issued \in UNION {[1 .. n -> Payloads] : n \in 0 .. MaxVersions}
    /\ outbox \in SUBSET Push
    /\ used \in 0 .. MaxDeliveries
    /\ session \in BOOLEAN
    /\ charged \in BOOLEAN
    /\ cache \in 0 .. MaxVersions
    /\ receipts \in SUBSET Ids
    /\ pc \in [Handlers -> {"idle", "receive", "load", "save"}]
    /\ serving \in [Handlers -> Push \cup {None}]
    /\ pull \in 0 .. MaxVersions
    /\ creating \in [Creators -> {"idle", "passed"}]
    /\ deletion \in {"idle", "erased"}
    /\ exists \in BOOLEAN
    /\ bypass \in BOOLEAN
    /\ apps \in 0 .. MaxApps
    /\ now \in 0 .. MaxTime
    /\ applied \in [Ids -> Nat]
    /\ crashes \in 0 .. MaxCrashes
    /\ overtaken \in BOOLEAN
    /\ lost \in BOOLEAN
    /\ highest \in Nat
    /\ slipped \in BOOLEAN

Init ==
    /\ issued = <<>>
    /\ outbox = {}
    /\ used = 0
    /\ session = FALSE
    /\ charged = FALSE
    /\ cache = 0
    /\ receipts = {}
    /\ pc = [h \in Handlers |-> "idle"]
    /\ serving = [h \in Handlers |-> None]
    /\ pull = 0
    /\ creating = [c \in Creators |-> "idle"]
    /\ deletion = "idle"
    /\ exists = TRUE
    /\ bypass = FALSE
    /\ apps = 0
    /\ now = 0
    /\ applied = [i \in Ids |-> 0]
    /\ crashes = 0
    /\ overtaken = FALSE
    /\ lost = FALSE
    /\ highest = 0
    /\ slipped = FALSE

-----------------------------------------------------------------------------
(* What the cache says: billing/service.py *)

Latest == Cardinality(DOMAIN issued)

Past(date) == date # None /\ date < now

\* _active_subscription: the end of the period is checked again, so a cache the
\* central no longer renews runs out by itself.
ActiveSubscription ==
    /\ cache # 0
    /\ issued[cache].paid
    /\ Past(issued[cache].end) =>
           issued[cache].grace # None /\ ~Past(issued[cache].grace)

\* user_is_paid
UserIsPaid == bypass \/ ActiveSubscription

\* application_quota
ApplicationQuota ==
    IF bypass THEN Unlimited
    ELSE IF ActiveSubscription THEN issued[cache].quota ELSE 0

-----------------------------------------------------------------------------
(* The central service *)

CentralFrame == UNCHANGED <<store, serve, pull, creating, account, now,
                            applied, crashes, highest>>

\* A push that leaves after them is the answer to what was lost or overtaken.
PushedAgain == overtaken' = FALSE /\ lost' = FALSE

\* It decides a new state (a webhook of Stripe, a change of quantity) and
\* queues a push of it.
Decide(p) ==
    /\ Latest < MaxVersions
    /\ used < MaxDeliveries
    /\ issued' = [v \in 1 .. Latest + 1 |-> IF v > Latest THEN p ELSE issued[v]]
    /\ used' = used + 1
    /\ outbox' = outbox \cup {[id |-> used + 1, version |-> Latest + 1]}
    /\ PushedAgain
    /\ CentralFrame /\ UNCHANGED <<session, charged, deletion, slipped>>

\* The daily reconciliation, or a replay from its console: the current state,
\* under a new delivery_id.
Reconcile ==
    /\ Latest > 0
    /\ used < MaxDeliveries
    /\ used' = used + 1
    /\ outbox' = outbox \cup {[id |-> used + 1, version |-> Latest]}
    /\ PushedAgain
    /\ CentralFrame /\ UNCHANGED <<issued, session, charged, deletion, slipped>>

\* CheckoutView.post: the central opens a session, and the user is given its
\* URL.  Nothing is charged yet.
Checkout ==
    /\ exists
    /\ session' = TRUE
    /\ CentralFrame
    /\ UNCHANGED <<issued, outbox, used, charged, deletion, overtaken, lost, slipped>>

\* The session is paid, at any later time: nobody asks PushIT whether the
\* account is still there, nor whether the session was the only one.
Pay ==
    /\ session
    /\ ~charged
    /\ charged' = TRUE
    /\ session' \in BOOLEAN
    /\ slipped' = (slipped \/ deletion = "erased" \/ ~exists)
    /\ CentralFrame
    /\ UNCHANGED <<issued, outbox, used, deletion, overtaken, lost>>

\* It sends a push that has not been answered, in any order and as often as it
\* likes: its first attempt may have been lost, or may still be served.
Deliver(h, d) ==
    /\ pc[h] = "idle"
    /\ d \in outbox
    /\ pc' = [pc EXCEPT ![h] = "receive"]
    /\ serving' = [serving EXCEPT ![h] = d]
    /\ UNCHANGED <<central, store, pull, creating, deletion, account, now, history>>

-----------------------------------------------------------------------------
(* EntitlementView.post *)

HandlerFrame == UNCHANGED <<issued, used, session, charged, pull, creating,
                            deletion, account, now, crashes, lost, highest,
                            slipped>>

\* The answer, 200 or 409: the central counts the push as delivered.
Answer(h) ==
    /\ outbox' = outbox \ {serving[h]}
    /\ pc' = [pc EXCEPT ![h] = "idle"]
    /\ serving' = [serving EXCEPT ![h] = None]

\* Mutant: the receipt is looked up and not stored.
ReceiveUnstored(h) ==
    /\ pc[h] = "receive"
    /\ IF serving[h].id \in receipts
       THEN Answer(h)
       ELSE pc' = [pc EXCEPT ![h] = "load"] /\ UNCHANGED <<outbox, serving>>
    /\ HandlerFrame /\ UNCHANGED <<store, applied, overtaken>>

\* DeliveryReceipt.objects.get_or_create decides between two attempts.
Receive(h) ==
    /\ pc[h] = "receive"
    /\ receipts' = receipts \cup {serving[h].id}
    /\ IF serving[h].id \in receipts
       THEN Answer(h)
       ELSE pc' = [pc EXCEPT ![h] = "load"] /\ UNCHANGED <<outbox, serving>>
    /\ HandlerFrame /\ UNCHANGED <<cache, applied, overtaken>>

\* The user is looked up; a deleted one is answered 200.
Load(h) ==
    /\ pc[h] = "load"
    /\ IF exists
       THEN pc' = [pc EXCEPT ![h] = "save"] /\ UNCHANGED <<outbox, serving>>
       ELSE Answer(h)
    /\ HandlerFrame /\ UNCHANGED <<store, applied, overtaken>>

\* Mutant: only the first state creates the row, the others do not change it.
SaveFirstOnly(h) ==
    /\ pc[h] = "save"
    /\ exists
    /\ cache' = IF cache = 0 THEN serving[h].version ELSE cache
    /\ applied' = [applied EXCEPT ![serving[h].id] = @ + 1]
    /\ overtaken' = (overtaken \/ serving[h].version < cache)
    /\ Answer(h)
    /\ HandlerFrame /\ UNCHANGED receipts

\* apply_entitlement: every field of the row is overwritten.
Save(h) ==
    /\ pc[h] = "save"
    /\ exists
    /\ cache' = serving[h].version
    /\ applied' = [applied EXCEPT ![serving[h].id] = @ + 1]
    /\ overtaken' = (overtaken \/ serving[h].version < cache)
    /\ Answer(h)
    /\ HandlerFrame /\ UNCHANGED receipts

\* The user was deleted since the lookup: the save violates the foreign key
\* and the request ends in an error, unanswered.
SaveFails(h) ==
    /\ pc[h] = "save"
    /\ ~exists
    /\ pc' = [pc EXCEPT ![h] = "idle"]
    /\ serving' = [serving EXCEPT ![h] = None]
    /\ HandlerFrame /\ UNCHANGED <<outbox, store, applied, overtaken>>

\* The request dies, before or between its statements, and is not answered:
\* the central will push again.
Crash(h) ==
    /\ pc[h] # "idle"
    /\ crashes < MaxCrashes
    /\ crashes' = crashes + 1
    /\ lost' = (lost \/ (pc[h] # "receive" /\ serving[h].version = Latest))
    /\ pc' = [pc EXCEPT ![h] = "idle"]
    /\ serving' = [serving EXCEPT ![h] = None]
    /\ UNCHANGED <<central, store, pull, creating, deletion, account, now, applied,
                   overtaken, highest, slipped>>

-----------------------------------------------------------------------------
(* SubscriptionView with ?refresh=1 *)

PullFrame == UNCHANGED <<central, receipts, serve, creating, deletion, account,
                         now, applied, crashes, lost, highest, slipped>>

\* client.get returns the state of that moment; an error keeps the cache.
PullFetch ==
    /\ exists
    /\ pull = 0
    /\ Latest > 0
    /\ pull' = Latest
    /\ PullFrame /\ UNCHANGED <<cache, overtaken>>

PullApply ==
    /\ exists
    /\ pull # 0
    /\ cache' = pull
    /\ overtaken' = (overtaken \/ pull < cache)
    /\ pull' = 0
    /\ PullFrame

-----------------------------------------------------------------------------
(* Applications *)

AppFrame == UNCHANGED <<central, store, serve, pull, deletion, exists, bypass,
                        now, applied, crashes, overtaken, lost, slipped>>

\* Mutant: the quota is compared the wrong way round at its limit.
QuotaCheckOffByOne(c) ==
    /\ exists
    /\ creating[c] = "idle"
    /\ UserIsPaid
    /\ apps <= ApplicationQuota
    /\ apps < MaxApps
    /\ creating' = [creating EXCEPT ![c] = "passed"]
    /\ highest' = IF ApplicationQuota > highest THEN ApplicationQuota ELSE highest
    /\ AppFrame /\ UNCHANGED apps

\* quota_required lets POST /apps/ through ...
QuotaCheck(c) ==
    /\ exists
    /\ creating[c] = "idle"
    /\ UserIsPaid
    /\ apps < ApplicationQuota
    /\ apps < MaxApps
    /\ creating' = [creating EXCEPT ![c] = "passed"]
    /\ highest' = IF ApplicationQuota > highest THEN ApplicationQuota ELSE highest
    /\ AppFrame /\ UNCHANGED apps

\* ... and ApplicationCreateSerializer.create saves, without looking again.
CreateApplication(c) ==
    /\ creating[c] = "passed"
    /\ apps < MaxApps
    /\ apps' = IF exists THEN apps + 1 ELSE apps
    /\ creating' = [creating EXCEPT ![c] = "idle"]
    /\ AppFrame /\ UNCHANGED highest

\* The owner deletes an application.
DeleteApplication ==
    /\ apps > 0
    /\ apps' = apps - 1
    /\ AppFrame /\ UNCHANGED <<creating, highest>>

\* StaffUserDetailView.patch: access offered or withdrawn.
StaffPatch ==
    /\ exists
    /\ bypass' = ~bypass
    /\ UNCHANGED <<central, store, serve, pull, creating, deletion, exists, apps,
                   now, history>>

-----------------------------------------------------------------------------
(* DELETE /auth/me/ *)

\* Mutant: the account is deleted even if the central cannot be reached.
EraseUnconfirmed ==
    /\ exists
    /\ deletion = "idle"
    /\ deletion' = "erased"
    /\ charged' \in {charged, FALSE}
    /\ slipped' = FALSE
    /\ UNCHANGED <<issued, outbox, used, session, overtaken, lost>>
    /\ CentralFrame

\* client.erase_user: the central cancels the subscription; when it cannot be
\* reached the request ends here (503) and nothing has happened.  A session
\* that is open stays with Stripe.
Erase ==
    /\ exists
    /\ deletion = "idle"
    /\ deletion' = "erased"
    /\ charged' = FALSE
    /\ slipped' = FALSE
    /\ UNCHANGED <<issued, outbox, used, session, overtaken, lost>>
    /\ CentralFrame

\* delete_user_account: one transaction; the subscription and the applications
\* go with the user.
DeleteAccount ==
    /\ deletion = "erased"
    /\ exists
    /\ exists' = FALSE
    /\ apps' = 0
    /\ cache' = 0
    /\ pull' = 0
    /\ deletion' = "idle"
    /\ UNCHANGED <<central, receipts, serve, creating, bypass, now, history>>

\* The request dies in between: the user may ask again.
DeletionDies ==
    /\ deletion = "erased"
    /\ crashes < MaxCrashes
    /\ crashes' = crashes + 1
    /\ deletion' = "idle"
    /\ UNCHANGED <<central, store, serve, pull, creating, account, now, applied,
                   overtaken, lost, highest, slipped>>

Tick ==
    /\ now < MaxTime
    /\ now' = now + 1
    /\ UNCHANGED <<central, store, serve, pull, creating, deletion, account,
                   history>>

HandlerStep(h) == Receive(h) \/ Load(h) \/ Save(h) \/ SaveFails(h)

Next ==
    \/ \E p \in Payloads : Decide(p)
    \/ Reconcile
    \/ Checkout
    \/ Pay
    \/ \E h \in Handlers :
          \/ \E d \in outbox : Deliver(h, d)
          \/ HandlerStep(h)
          \/ Crash(h)
    \/ PullFetch
    \/ PullApply
    \/ \E c \in Creators : QuotaCheck(c) \/ CreateApplication(c)
    \/ DeleteApplication
    \/ StaffPatch
    \/ Erase
    \/ DeleteAccount
    \/ DeletionDies
    \/ Tick

Spec == Init /\ [][Next]_vars

-----------------------------------------------------------------------------
(* Properties *)

\* However often a push is sent and however its attempts overlap, it changes
\* the cache at most once.
AppliedOnce == \A i \in Ids : applied[i] <= 1

\* Nothing is under way between the central and the cache.
Settled ==
    /\ outbox = {}
    /\ \A h \in Handlers : pc[h] = "idle"
    /\ pull = 0

\* Once everything is delivered the cache holds the central's last state, or
\* the central has not pushed since the request with that state died after
\* storing its receipt, or since an older push or pull was applied over a newer
\* one: whatever went wrong, the next push mends it.
SettledIsCurrent ==
    Settled /\ exists /\ ~lost /\ ~overtaken => cache = Latest

\* Creations that overlap exceed the quota by less than their number: the
\* check and the insertion are two steps.
QuotaOverrunBounded == apps < highest + Cardinality(Creators)

\* The central charges nobody whose account is gone, unless the user paid an
\* open session after the erasure, before or after the deletion.
NoOrphanPayer == ~exists /\ charged => slipped
=============================================================================
