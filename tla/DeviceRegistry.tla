--------------------------- MODULE DeviceRegistry ---------------------------
(***************************************************************************)
(* Devices, their push tokens and their links to applications:             *)
(* identify and link with token rotation, merge and takeover, the unlinks, *)
(* the owner's eviction, PATCH and DELETE of a device (devices/,           *)
(* applications/api_views.py), and the send passes that address a device   *)
(* and switch it off when its token is refused (notifications/services.py).*)
(*                                                                         *)
(* The database locks rows (DB_SUPPORTS_ROW_LOCKING) and reads what is     *)
(* committed.  A transaction is a sequence of reads and row locks and one  *)
(* final step that makes all of its writes and commits: nothing it writes  *)
(* is visible earlier, and whoever wants to write the same row waits.      *)
(* Requests that are refused or find nothing to do change nothing and are  *)
(* left out.                                                               *)
(***************************************************************************)
EXTENDS Naturals, FiniteSets

CONSTANTS
    DeviceIds,      \* primary keys of devices, never used twice
    InitialIds,     \* the devices there may be at the start
    Users,
    Tokens,         \* push tokens
    Apps,
    Requests,       \* requests that may be in progress at the same time
    Passes,         \* send passes, one notification each
    Operations,     \* the operations that may be requested
    MaxRequests,    \* bound: requests begun
    NoUser,         \* Device.user is NULL
    None

AllOperations ==
    {"identify", "link", "unlink", "evict", "patch", "delete", "unregister"}

TokenStatus == {"active", "invalid", "revoked"}

\* unlink_source; the first is the blank one of an active link.
UnlinkSource == {"", "device_button", "inbox", "takeover", "owner_eviction"}

Owners == Users \cup {NoUser}

\* push_token_status and is_active are two fields: PATCH writes the first only.
Device == [user : Owners, token : Tokens, status : TokenStatus, enabled : BOOLEAN]

\* The key of a link is a number (of a device, for there are no more links to an
\* application than devices) and the application.  Its device is a field: a merge
\* moves the link to another one.
LinkIds == DeviceIds \X Apps
Link == [device : DeviceIds \cup {None}, active : BOOLEAN, source : UnlinkSource]
NoLink == [device |-> None, active |-> FALSE, source |-> ""]

VARIABLES
    \* the database: keys ever used, device rows (None: no row), links,
    \* deliveries and quiet periods of each device
    used, device, link, inbox, quiet,
    \* row locks on devices
    lock,
    \* requests in progress, and how many were begun
    req, begun,
    \* the send passes: the device and the token each has loaded
    pass,
    \* the provider: tokens it no longer knows
    unregistered,
    \* history: who enrolled a link, and whether its device was already
    \* somebody else's then
    enroller

vars == <<used, device, link, inbox, quiet, lock, req, begun, pass,
          unregistered, enroller>>

Steps == {"idle", "previous", "clash", "rotate", "target_links",
          "source_links", "merge", "select", "insert", "reselect", "link",
          "relink", "unlink", "evict", "patch", "delete"}

Seen == SUBSET (LinkIds \X BOOLEAN)

Request ==
    [step : Steps, op : AllOperations \cup {None}, user : Owners,
     token : Tokens \cup {None}, previous : Tokens \cup {None},
     app : Apps \cup {None},
     dev : DeviceIds \cup {None},       \* the device found, or to be merged
     old : DeviceIds \cup {None},       \* the device being rotated
     pk : LinkIds \cup {None},          \* the link loaded
     source : UnlinkSource,
     target_links : Seen, source_links : Seen,
     copy : Device \cup {None}]         \* the device loaded

Idle == [step |-> "idle", op |-> None, user |-> NoUser, token |-> None,
         previous |-> None, app |-> None, dev |-> None, old |-> None,
         pk |-> None, source |-> "", target_links |-> {}, source_links |-> {},
         copy |-> None]

ASSUME RegistryAssumption ==
    /\ IsFiniteSet(DeviceIds)
    /\ InitialIds \subseteq DeviceIds
    /\ Operations \subseteq AllOperations
    /\ MaxRequests \in Nat
    /\ NoUser \notin Users
    /\ None \notin DeviceIds \cup Tokens \cup Apps \cup Requests
    /\ None \notin Device \cup LinkIds

(***************************************************************************)
(* Queries.                                                                *)
(***************************************************************************)
exists == {d \in DeviceIds : device[d] # None}
WithToken(t) == {d \in exists : device[d].token = t}
LinksOf(d) == {p \in LinkIds : link[p].device = d}
LinkOf(d, a) == {p \in LinksOf(d) : p[2] = a}
Linked(d, a) == \E p \in LinkOf(d, a) : link[p].active

\* What application_links.all() returns for d.
LoadLinks(d) == {<<p, link[p].active>> : p \in LinksOf(d)}

\* A row is free for r: nobody else has locked it.
FreeFor(d, r) == lock[d] \in {None, r}
Free(d) == lock[d] = None
LockRow(d, r) == lock' = [lock EXCEPT ![d] = r]

\* End of a transaction.
ReleaseLocks(r) ==
    lock' = [d \in DeviceIds |-> IF lock[d] = r THEN None ELSE lock[d]]

TypeOK ==
    /\ exists \subseteq used
    /\ used \subseteq DeviceIds
    /\ device \in [DeviceIds -> Device \cup {None}]
    /\ link \in [LinkIds -> Link]
    /\ inbox \in [DeviceIds -> SUBSET Passes]
    /\ quiet \in [DeviceIds -> SUBSET DeviceIds]
    /\ lock \in [DeviceIds -> Requests \cup {None}]
    /\ req \in [Requests -> Request]
    /\ begun \in 0 .. MaxRequests
    /\ pass \in [Passes -> [dev : DeviceIds, token : Tokens] \cup {None}]
    /\ unregistered \subseteq Tokens
    /\ enroller \in [LinkIds -> [user : Owners, late : BOOLEAN]]

\* Registered devices with distinct tokens; links enrolled by their owners,
\* active or unlinked; a quiet period each (named after the device); nothing in
\* progress.
Init ==
    /\ used = InitialIds
    /\ device \in [DeviceIds -> {x \in Device : x.status = "active" /\ x.enabled}
                                \cup {None}]
    /\ exists \subseteq InitialIds
    /\ \A d, e \in exists :
          d # e => device[d].token # device[e].token
    /\ link \in [LinkIds -> {NoLink} \cup
                    {l \in Link : l.device # None
                        /\ <<l.active, l.source>> \in
                              {<<TRUE, "">>, <<FALSE, "owner_eviction">>}}]
    /\ \A p \in LinkIds :
          link[p] = NoLink \/ (link[p].device = p[1] /\ p[1] \in exists)
    /\ inbox = [d \in DeviceIds |-> {}]
    /\ quiet = [d \in DeviceIds |-> exists \cap {d}]
    /\ lock = [d \in DeviceIds |-> None]
    /\ req = [r \in Requests |-> Idle]
    /\ begun = 0
    /\ pass = [s \in Passes |-> None]
    /\ unregistered = {}
    /\ enroller = [p \in LinkIds |->
                      [user |-> IF p[1] \in exists THEN device[p[1]].user
                                ELSE NoUser,
                       late |-> FALSE]]

(***************************************************************************)
(* Writes.                                                                 *)
(***************************************************************************)
\* _apply_device_fields: the links of a device that changes hands are
\* deactivated (not those of a device without owner) ...
TakeOverLinks(d, u) ==
    link' = IF device[d].user \in {NoUser, u} THEN link
            ELSE [p \in LinkIds |->
                     IF link[p].device = d /\ link[p].active
                     THEN [link[p] EXCEPT !.active = FALSE, !.source = "takeover"]
                     ELSE link[p]]

\* ... and the row is given to the user and reactivated.
AppliedFields(u, t) ==
    [user |-> u, token |-> t, status |-> "active", enabled |-> TRUE]

\* The fields an unlink and a re-enrolment save together.
Unlinked(l, s) == [l EXCEPT !.active = FALSE, !.source = s]

\* Mutant: the audit is left as it was.
ReactivatedStale(l) == [l EXCEPT !.active = TRUE]

Reactivated(l) == [l EXCEPT !.active = TRUE, !.source = ""]

\* Who enrolled a link of device d, and whether d was somebody else's.
Enroller(u, d) == [user |-> u, late |-> device[d].user # u]

\* A request goes on, ends, or begins.
GoOn(r, changes) == req' = [req EXCEPT ![r] = changes] /\ UNCHANGED begun
End(r) == req' = [req EXCEPT ![r] = Idle] /\ UNCHANGED begun
Start(r, op, changes) ==
    /\ op \in Operations
    /\ req[r].step = "idle"
    /\ begun < MaxRequests
    /\ begun' = begun + 1
    /\ req' = [req EXCEPT ![r] = changes]

\* The request after the transaction of the upsert: link goes on with the
\* device, identify answers.
AfterUpsert(r, d) ==
    IF req[r].op = "link"
    THEN GoOn(r, [Idle EXCEPT !.step = "link", !.op = "link",
                              !.user = req[r].user, !.app = req[r].app,
                              !.dev = d])
    ELSE End(r)

Outside == <<pass, unregistered>>
Data == <<used, device, link, inbox, quiet, enroller>>

(***************************************************************************)
(* identify and link: _upsert_authenticated_device.                        *)
(***************************************************************************)
\* The app sends the token the provider gave it.  A previous token that is
\* blank or equal to the new one is no rotation.
Identify(r, op, u, t, previous, a) ==
    /\ t \notin unregistered
    /\ Start(r, op,
             [Idle EXCEPT !.step = IF previous \in {None, t} THEN "select"
                                   ELSE "previous",
                          !.op = op, !.user = u, !.token = t,
                          !.previous = previous, !.app = a])
    /\ UNCHANGED <<Data, lock, Outside>>

\* _rotate_push_token: the row of the previous token is locked, then compared
\* with the user; the lock stays.
SelectPrevious(r) ==
    LET q == req[r] IN
    /\ q.step = "previous"
    /\ \/ /\ WithToken(q.previous) = {}
          /\ GoOn(r, [q EXCEPT !.step = "select", !.previous = None])
          /\ UNCHANGED lock
       \/ \E d \in WithToken(q.previous) :
             /\ FreeFor(d, r)
             /\ LockRow(d, r)
             /\ GoOn(r, IF device[d].user = q.user
                        THEN [q EXCEPT !.step = "clash", !.old = d,
                                       !.previous = None]
                        ELSE [q EXCEPT !.step = "select", !.previous = None])
    /\ UNCHANGED <<Data, Outside>>

\* Mutant: the row of the new token is merged whoever owns it.
SelectClashAnybody(r) ==
    LET q == req[r] IN
    /\ q.step = "clash"
    /\ \/ /\ WithToken(q.token) = {}
          /\ GoOn(r, [q EXCEPT !.step = "rotate"])
          /\ UNCHANGED lock
       \/ \E d \in WithToken(q.token) :
             /\ FreeFor(d, r)
             /\ LockRow(d, r)
             /\ GoOn(r, [q EXCEPT !.step = "target_links", !.dev = d])
    /\ UNCHANGED <<Data, Outside>>

\* Mutant: the row of the new token is read without its lock.
SelectClashUnlocked(r) ==
    LET q == req[r] IN
    /\ q.step = "clash"
    /\ \/ /\ WithToken(q.token) = {}
          /\ GoOn(r, [q EXCEPT !.step = "rotate"])
       \/ \E d \in WithToken(q.token) :
             GoOn(r, IF device[d].user \in {NoUser, q.user}
                     THEN [q EXCEPT !.step = "target_links", !.dev = d]
                     ELSE [q EXCEPT !.step = "select", !.old = None])
    /\ UNCHANGED <<Data, lock, Outside>>

\* The row of the new token is locked: none, somebody else's (a plain upsert
\* then), or one to be merged.
SelectClash(r) ==
    LET q == req[r] IN
    /\ q.step = "clash"
    /\ \/ /\ WithToken(q.token) = {}
          /\ GoOn(r, [q EXCEPT !.step = "rotate"])
          /\ UNCHANGED lock
       \/ \E d \in WithToken(q.token) :
             /\ FreeFor(d, r)
             /\ LockRow(d, r)
             /\ GoOn(r, IF device[d].user \in {NoUser, q.user}
                        THEN [q EXCEPT !.step = "target_links", !.dev = d]
                        ELSE [q EXCEPT !.step = "select", !.old = None])
    /\ UNCHANGED <<Data, Outside>>

\* _merge_device_into loads the links of the device it keeps ...
LoadTargetLinks(r) ==
    /\ req[r].step = "target_links"
    /\ GoOn(r, [req[r] EXCEPT !.step = "source_links",
                              !.target_links = LoadLinks(req[r].old)])
    /\ UNCHANGED <<Data, lock, Outside>>

\* ... and those of the device it will delete.
LoadSourceLinks(r) ==
    /\ req[r].step = "source_links"
    /\ GoOn(r, [req[r] EXCEPT !.step = "merge",
                              !.source_links = LoadLinks(req[r].dev)])
    /\ UNCHANGED <<Data, lock, Outside>>

\* Mutant: all links are moved.
MovedAll(q) == {x[1] : x \in q.source_links}

\* The links it moves: no link of the kept device has the application.
Moved(q) ==
    {x[1] : x \in {y \in q.source_links :
                      \A z \in q.target_links : z[1][2] # y[1][2]}}

\* Mutant: the kept device's link wins even when only the other was active.
PromotedNever(q) == {}

\* The links it reactivates, each with the link it stands for: both as loaded.
Promoted(q) ==
    {<<x[1][1], x[2][1]>> : x \in
        {y \in q.target_links \X q.source_links :
            y[1][1][2] = y[2][1][2] /\ y[2][2] /\ ~y[1][2]}}

\* The writes of the merge and of the rotation, and the commit.
Merge(r) ==
    LET q == req[r] IN
    /\ q.step = "merge"
    /\ link' = [p \in LinkIds |->
                   IF p \in Moved(q) THEN [link[p] EXCEPT !.device = q.old]
                   ELSE IF \E x \in Promoted(q) : x[1] = p THEN Reactivated(link[p])
                   ELSE IF link[p].device = q.dev THEN NoLink
                   ELSE link[p]]
    /\ enroller' = [p \in LinkIds |->
                       IF \E x \in Promoted(q) : x[1] = p
                       THEN enroller[(CHOOSE x \in Promoted(q) : x[1] = p)[2]]
                       ELSE enroller[p]]
    /\ inbox' = [inbox EXCEPT ![q.old] = inbox[q.old] \cup inbox[q.dev],
                              ![q.dev] = {}]
    /\ quiet' = [quiet EXCEPT ![q.old] = quiet[q.old] \cup quiet[q.dev],
                              ![q.dev] = {}]
    /\ device' = [device EXCEPT ![q.old] = AppliedFields(q.user, q.token),
                                ![q.dev] = None]
    /\ ReleaseLocks(r)
    /\ AfterUpsert(r, q.old)
    /\ UNCHANGED <<used, Outside>>

\* No row had the new token: the rotated row is saved.
Rotate(r) ==
    LET q == req[r] IN
    /\ q.step = "rotate"
    /\ WithToken(q.token) = {}
    /\ device' = [device EXCEPT ![q.old] = AppliedFields(q.user, q.token)]
    /\ ReleaseLocks(r)
    /\ AfterUpsert(r, q.old)
    /\ UNCHANGED <<used, link, inbox, quiet, enroller, Outside>>

\* A row with the new token was inserted meanwhile: the unique constraint
\* raises, nothing catches it and the transaction is rolled back.
RotateFails(r) ==
    /\ req[r].step = "rotate"
    /\ WithToken(req[r].token) # {}
    /\ ReleaseLocks(r)
    /\ End(r)
    /\ UNCHANGED <<Data, Outside>>

\* The row of the push token is locked, given to the user and saved.
UpdateDevice(r, d) ==
    /\ FreeFor(d, r)
    /\ TakeOverLinks(d, req[r].user)
    /\ device' = [device EXCEPT ![d] = AppliedFields(req[r].user, req[r].token)]
    /\ ReleaseLocks(r)
    /\ AfterUpsert(r, d)
    /\ UNCHANGED <<used, inbox, quiet, enroller, Outside>>

Upsert(r) ==
    /\ req[r].step = "select"
    /\ \/ \E d \in WithToken(req[r].token) : UpdateDevice(r, d)
       \/ /\ WithToken(req[r].token) = {}
          /\ GoOn(r, [req[r] EXCEPT !.step = "insert"])
          /\ UNCHANGED <<Data, lock, Outside>>

\* The INSERT, in a savepoint: it succeeds, or a concurrent request was first.
Insert(r) ==
    LET q == req[r] IN
    /\ q.step = "insert"
    /\ \/ /\ WithToken(q.token) = {}
          /\ \E d \in DeviceIds \ used :
                /\ used' = used \cup {d}
                /\ device' = [device EXCEPT ![d] = AppliedFields(q.user, q.token)]
                /\ AfterUpsert(r, d)
          /\ ReleaseLocks(r)
          /\ UNCHANGED <<link, inbox, quiet, enroller, Outside>>
       \/ /\ WithToken(q.token) # {}
          /\ GoOn(r, [q EXCEPT !.step = "reselect"])
          /\ UNCHANGED <<Data, lock, Outside>>

\* After the IntegrityError the row is fetched again; it may be gone by now.
Reselect(r) ==
    /\ req[r].step = "reselect"
    /\ \/ \E d \in WithToken(req[r].token) : UpdateDevice(r, d)
       \/ /\ WithToken(req[r].token) = {}
          /\ ReleaseLocks(r)
          /\ End(r)
          /\ UNCHANGED <<Data, Outside>>

\* Requests that wait for one another: the database aborts one of them.
Blocker(r) ==
    LET q == req[r]
        wanted == IF q.step = "previous" THEN WithToken(q.previous)
                  ELSE IF q.step \in {"clash", "select", "reselect"}
                       THEN WithToken(q.token) ELSE {}
    IN {lock[d] : d \in wanted} \ {None, r}

DeadlockVictim(r) ==
    /\ \E S \in SUBSET Requests :
          r \in S /\ UNION {Blocker(q) : q \in S} = S
    /\ ReleaseLocks(r)
    /\ End(r)
    /\ UNCHANGED <<Data, Outside>>

(***************************************************************************)
(* Links.                                                                  *)
(***************************************************************************)
\* DeviceLinkWithAppToken, second transaction: get_or_create of the link of the
\* device of the first one, whoever owns it by now.  A new link needs the row of
\* the device (a foreign key waits for whoever has locked it); when the row is
\* gone the request fails.  Its key is one that no row has and no request has
\* loaded.  A link that is not active is to be fetched again.
LinkDevice(r) ==
    LET q == req[r]
        links == LinkOf(q.dev, q.app)
        fresh == {p \in LinkIds : /\ p[2] = q.app /\ link[p].device = None
                                  /\ \A s \in Requests : req[s].pk # p}
    IN
    /\ q.step = "link"
    /\ \/ /\ links = {} /\ q.dev \in exists
          /\ Free(q.dev)
          /\ \E p \in fresh :
                /\ link' = [link EXCEPT ![p] = [device |-> q.dev, active |-> TRUE,
                                                source |-> ""]]
                /\ enroller' = [enroller EXCEPT ![p] = Enroller(q.user, q.dev)]
          /\ End(r)
       \/ /\ (links = {} /\ q.dev \notin exists) \/ \E p \in links : link[p].active
          /\ End(r)
          /\ UNCHANGED <<link, enroller>>
       \/ \E p \in links :
             /\ ~link[p].active
             /\ GoOn(r, [q EXCEPT !.step = "relink", !.pk = p])
             /\ UNCHANGED <<link, enroller>>
    /\ UNCHANGED <<used, device, inbox, quiet, lock, Outside>>

\* ... select_for_update().get(pk=...): the link as it is now, wherever a merge
\* has moved it (the request fails when it is gone); it is enrolled again and
\* saved under its lock, unless somebody else has done so.
Relink(r) ==
    LET q == req[r]
        l == link[q.pk]
    IN
    /\ q.step = "relink"
    /\ IF l.device # None /\ ~l.active
       THEN /\ link' = [link EXCEPT ![q.pk] = Reactivated(l)]
            /\ enroller' = [enroller EXCEPT ![q.pk] = Enroller(q.user, l.device)]
       ELSE UNCHANGED <<link, enroller>>
    /\ End(r)
    /\ UNCHANGED <<used, device, inbox, quiet, lock, Outside>>

\* Both unlink views: the user's device of that token and its active link are
\* read ...
UnlinkRead(r, u, t, a, s) ==
    \E d \in WithToken(t) : \E p \in LinkOf(d, a) :
        /\ device[d].user = u
        /\ link[p].active
        /\ Start(r, "unlink",
                 [Idle EXCEPT !.step = "unlink", !.op = "unlink", !.user = u,
                              !.pk = p, !.source = s])
        /\ UNCHANGED <<Data, lock, Outside>>

\* ... and the loaded link is saved.  A link that was deleted meanwhile makes
\* the save raise.
SaveUnlink(r) ==
    LET q == req[r] IN
    /\ link' = IF link[q.pk].device = None THEN link
               ELSE [link EXCEPT ![q.pk] = Unlinked(link[q.pk], q.source)]
    /\ End(r)
    /\ UNCHANGED <<used, device, inbox, quiet, enroller, lock, Outside>>

UnlinkSave(r) == req[r].step = "unlink" /\ SaveUnlink(r)

\* ApplicationDeviceEvict: by the owner of the application, in the same way.
EvictRead(r, d, a) ==
    \E p \in LinkOf(d, a) :
        /\ link[p].active
        /\ Start(r, "evict",
                 [Idle EXCEPT !.step = "evict", !.op = "evict", !.pk = p,
                              !.source = "owner_eviction"])
        /\ UNCHANGED <<Data, lock, Outside>>

EvictSave(r) == req[r].step = "evict" /\ SaveUnlink(r)

(***************************************************************************)
(* PATCH and DELETE of a device by its user.                               *)
(***************************************************************************)
\* The row is loaded, the new push_token_status (if any) set on the copy.
PatchRead(r, u, d, s) ==
    /\ d \in exists
    /\ device[d].user = u
    /\ Start(r, "patch",
             [Idle EXCEPT !.step = "patch", !.op = "patch", !.user = u,
                          !.dev = d, !.copy = [device[d] EXCEPT !.status = s]])
    /\ UNCHANGED <<Data, lock, Outside>>

\* instance.save() writes every column; it inserts the row again when it is
\* gone, and raises when another row has the token.
PatchSave(r) ==
    LET q == req[r] IN
    /\ q.step = "patch"
    /\ Free(q.dev)
    /\ IF WithToken(q.copy.token) \subseteq {q.dev}
       THEN device' = [device EXCEPT ![q.dev] = q.copy]
       ELSE UNCHANGED device
    /\ End(r)
    /\ UNCHANGED <<used, link, inbox, quiet, enroller, lock, Outside>>

DeleteRead(r, u, d) ==
    /\ d \in exists
    /\ device[d].user = u
    /\ Start(r, "delete",
             [Idle EXCEPT !.step = "delete", !.op = "delete", !.user = u,
                          !.dev = d])
    /\ UNCHANGED <<Data, lock, Outside>>

\* instance.delete() cascades to the links, the deliveries and the quiet periods.
DeleteCommit(r) ==
    LET q == req[r] IN
    /\ q.step = "delete"
    /\ Free(q.dev)
    /\ device' = [device EXCEPT ![q.dev] = None]
    /\ link' = [p \in LinkIds |-> IF link[p].device = q.dev THEN NoLink ELSE link[p]]
    /\ inbox' = [inbox EXCEPT ![q.dev] = {}]
    /\ quiet' = [quiet EXCEPT ![q.dev] = {}]
    /\ End(r)
    /\ UNCHANGED <<used, enroller, lock, Outside>>

(***************************************************************************)
(* The provider and the send passes.                                       *)
(***************************************************************************)
\* The provider replaces the token of an installation.
Unregister(t) ==
    /\ "unregister" \in Operations
    /\ t \notin unregistered
    /\ unregistered' = unregistered \cup {t}
    /\ UNCHANGED <<Data, lock, req, begun, pass>>

\* A pass creates the delivery of a linked device and loads the device, which
\* it leaves alone when it is switched off.
PassLoad(s, d, a) ==
    /\ pass[s] = None
    /\ s \notin inbox[d]
    /\ d \in exists /\ Linked(d, a) /\ device[d].status = "active"
    /\ Free(d)
    /\ inbox' = [inbox EXCEPT ![d] = @ \cup {s}]
    /\ pass' = IF device[d].enabled
               THEN [pass EXCEPT ![s] = [dev |-> d, token |-> device[d].token]]
               ELSE pass
    /\ UNCHANGED <<used, device, link, quiet, enroller, lock, req, begun,
                   unregistered>>

\* _record_delivery_failure(invalidate_token=True): the device is switched off
\* by primary key.  The save raises when the row is gone.
PassRefused(s) ==
    LET d == pass[s].dev IN
    /\ pass[s] # None
    /\ pass[s].token \in unregistered
    /\ Free(d)
    /\ device' = IF d \in exists THEN [device EXCEPT ![d].status = "invalid",
                                               ![d].enabled = FALSE]
                 ELSE device
    /\ pass' = [pass EXCEPT ![s] = None]
    /\ UNCHANGED <<used, link, inbox, quiet, enroller, lock, req, begun,
                   unregistered>>

PassAccepted(s) ==
    /\ pass[s] # None
    /\ pass[s].token \notin unregistered
    /\ pass' = [pass EXCEPT ![s] = None]
    /\ UNCHANGED <<Data, lock, req, begun, unregistered>>

-----------------------------------------------------------------------------
Begin(r) ==
    \/ \E u \in Users, t \in Tokens, previous \in Tokens \cup {None} :
          \/ Identify(r, "identify", u, t, previous, None)
          \/ \E a \in Apps : Identify(r, "link", u, t, previous, a)
    \/ \E u \in Users, t \in Tokens, a \in Apps, s \in {"device_button", "inbox"} :
          UnlinkRead(r, u, t, a, s)
    \/ \E d \in DeviceIds, a \in Apps : EvictRead(r, d, a)
    \/ \E u \in Users, d \in DeviceIds, s \in TokenStatus : PatchRead(r, u, d, s)
    \/ \E u \in Users, d \in DeviceIds : DeleteRead(r, u, d)

Continue(r) ==
    \/ SelectPrevious(r) \/ SelectClash(r)
    \/ LoadTargetLinks(r) \/ LoadSourceLinks(r) \/ Merge(r)
    \/ Rotate(r) \/ RotateFails(r)
    \/ Upsert(r) \/ Insert(r) \/ Reselect(r)
    \/ DeadlockVictim(r)
    \/ LinkDevice(r) \/ Relink(r)
    \/ UnlinkSave(r) \/ EvictSave(r)
    \/ PatchSave(r) \/ DeleteCommit(r)

Pass(s) ==
    \/ \E d \in DeviceIds, a \in Apps : PassLoad(s, d, a)
    \/ PassRefused(s)
    \/ PassAccepted(s)

Next ==
    \/ \E r \in Requests : Begin(r) \/ Continue(r)
    \/ \E s \in Passes : Pass(s)
    \/ \E t \in Tokens : Unregister(t)

Spec == Init /\ [][Next]_vars

-----------------------------------------------------------------------------
\* Safety.

\* A device has at most one link per application, so the moves of a merge,
\* decided on the links it loaded, never meet uniq_device_application.
OneLinkPerPair ==
    \A p, q \in LinkIds :
        (p # q /\ link[p].device = link[q].device /\ link[p].device # None)
            => p[2] # q[2]

\* The audit of DeviceApplicationLink: a link that is active carries no unlink
\* source, one that is not always tells who ended it, whichever of unlink,
\* eviction, takeover, merge and re-enrolment wrote last.
AuditMatches ==
    \A p \in LinkIds :
        link[p].device # None => (link[p].active <=> link[p].source = "")

\* Takeover, rotation and merge leave no subscription of a former owner: an
\* active link was enrolled by the user who has the device now, was found on a
\* device without owner, or comes from a link request that was overtaken: when
\* it wrote, the device of the link (its own, or the one a merge had moved the
\* link to) was already somebody else's.
LinksFollowOwner ==
    \A p \in LinkIds :
        link[p].active =>
            \/ enroller[p].user \in {NoUser, device[link[p].device].user}
            \/ enroller[p].late

\* No two devices have one push token, whatever the order of rotations, merges,
\* insertions and PATCHes that write back a token read earlier: a merge deletes
\* the row of the new token before it writes the token, and its locks keep that
\* row the only one, so it never meets the unique constraint.
OneDevicePerToken ==
    \A d, e \in exists : d # e => device[d].token # device[e].token

\* This step commits the merge, by r, of the row new into the row old.
Merges(r, old, new) ==
    /\ req[r].step = "merge" /\ req[r].old = old /\ req[r].dev = new
    /\ device[new] # None /\ device'[new] = None

\* A link to the application was ended or enrolled again after the merge of r
\* had loaded it: nothing locks it.
Overtaken(r, a) ==
    \E x \in req[r].target_links \cup req[r].source_links :
        x[1][2] = a /\ link[x[1]].active # x[2]

\* What _merge_device_into promises, in spite of the requests in between: the
\* device that stays is linked to the applications that were linked to one of
\* the two, and to no other (an unlinked or evicted subscription comes back only
\* through a link request), except to those it was overtaken on; and it has the
\* inbox and the quiet periods of both.
MergeKeepsLinks ==
    [][\A r \in Requests, old, new \in DeviceIds : Merges(r, old, new) =>
          /\ \A a \in Apps :
                \/ Linked(old, a)' <=> Linked(old, a) \/ Linked(new, a)
                \/ Overtaken(r, a)
          /\ inbox[old] \cup inbox[new] \subseteq inbox'[old]
          /\ quiet[old] \cup quiet[new] \subseteq quiet'[old]]_vars

=============================================================================
