---------------------------- MODULE Applications ----------------------------
(***************************************************************************)
(* One application: its row and the endpoints that change it               *)
(* (applications/api_views.py, applications/models.py), its send tokens    *)
(* (api_views_send_tokens.py), the alias its address has in Exchange       *)
(* (exchange/), and the callbacks to its webhook (notifications/           *)
(* webhooks.py).                                                           *)
(*                                                                         *)
(* Every endpoint reads the row and writes later.  The rotations name the  *)
(* columns they write (update_fields); a PATCH and a new inbound address   *)
(* write every column, as they were read.                                  *)
(***************************************************************************)
EXTENDS Integers, FiniteSets

CONSTANTS
    Requests,       \* requests of the owner that run at the same time
    Operations,     \* what they may ask
    SendTokens,     \* rows of AppSendToken
    MaxSendTokens,  \* MAX_TOKENS_PER_APPLICATION
    Callbacks,      \* callback tasks
    MaxRetries,     \* max_retries of send_webhook_callback_task
    Faults,         \* which faults may happen
    MaxFaults,      \* bound: how many
    MaxOps,         \* bound: requests
    None

AllOperations == {"patch", "email", "token", "revoke", "code", "secret", "on",
                  "off", "delete", "issue"}
AllFaults == {"exchange", "crash", "endpoint", "unsafe"}

ASSUME SettingsAssumption == MaxSendTokens \in Nat \ {0} /\ MaxRetries \in Nat
ASSUME FiniteAssumption == IsFiniteSet(Requests) /\ IsFiniteSet(SendTokens)
ASSUME BoundsAssumption ==
    /\ Operations \subseteq AllOperations
    /\ Faults \subseteq AllFaults
    /\ MaxFaults \in Nat
    /\ MaxOps \in Nat

VARIABLES
    row,            \* the row of the application, or None
    sendToken,      \* per send token: "none", "active" or "revoked"
    provisioned,    \* the aliases Exchange has on the shared mailbox
    req,            \* per request: what it does and what it has read
    callback,       \* per callback: its state, retries and posts
    issued,         \* values drawn so far: the next one is new
    replaced,       \* values a rotation has replaced
    lost,           \* a whole-row save undid a change it had not read
    deleted,        \* the application was deleted
    crossed,        \* two requests that change the address overlapped
    ops, faults

vars == <<row, sendToken, provisioned, req, callback, issued, replaced, lost,
          deleted, crossed, ops, faults>>

Row == [token : Nat, revoked : BOOLEAN, code : Nat, secret : Nat, alias : Nat,
        active : BOOLEAN, url : BOOLEAN]
PC == {"idle", "write", "provision", "deprovision"}
\* read: the row as it was read; alias: the address to add.
Request == [pc : PC, op : AllOperations \cup {"create", None},
            read : Row \cup {None}, alias : Nat \cup {None}]
Idle == [pc |-> "idle", op |-> None, read |-> None, alias |-> None]
Callback == [state : {"none", "queued", "running", "done", "dropped"},
             retries : 0 .. MaxRetries, posts : Nat]

ASSUME NoneAssumption ==
    None \notin Row /\ None \notin Nat /\ None \notin AllOperations \cup {"create"}

TypeOK ==
    /\ row \in Row \cup {None}
    /\ sendToken \in [SendTokens -> {"none", "active", "revoked"}]
    /\ provisioned \subseteq 0 .. issued
    /\ req \in [Requests -> Request]
    /\ callback \in [Callbacks -> Callback]
    /\ issued \in Nat
    /\ replaced \subseteq 0 .. issued
    /\ lost \in BOOLEAN
    /\ deleted \in BOOLEAN
    /\ crossed \in BOOLEAN
    /\ ops \in 0 .. MaxOps
    /\ faults \in 0 .. MaxFaults

\* The owner has no application yet.
Init ==
    /\ row = None
    /\ sendToken = [t \in SendTokens |-> "none"]
    /\ provisioned = {}
    /\ req = [r \in Requests |-> Idle]
    /\ callback = [c \in Callbacks |-> [state |-> "none", retries |-> 0, posts |-> 0]]
    /\ issued = 0
    /\ replaced = {}
    /\ lost = FALSE
    /\ deleted = FALSE
    /\ crossed = FALSE
    /\ ops = 0
    /\ faults = 0

Fault(f) ==
    /\ f \in Faults
    /\ faults < MaxFaults
    /\ faults' = faults + 1

End(r) == req' = [req EXCEPT ![r] = Idle]

-----------------------------------------------------------------------------
(* The endpoints *)

\* ApplicationListCreateApiView: Application.save draws a legacy token, an
\* enrolment code, a webhook secret and an alias no other application has; the
\* alias goes to Exchange after the commit.
Create(r) ==
    /\ issued = 0
    /\ row' = [token |-> 1, revoked |-> FALSE, code |-> 2, secret |-> 3, alias |-> 4,
               active |-> TRUE, url |-> TRUE]
    /\ issued' = 4
    /\ req' = [req EXCEPT ![r] = [pc |-> "provision", op |-> "create", read |-> row',
                                   alias |-> 4]]
    /\ UNCHANGED <<sendToken, provisioned, callback, replaced, lost, deleted, crossed,
                   ops, faults>>

\* Mutant: one send token more than the cap.
ReadOffByOne(r, op) ==
    /\ req[r] = Idle
    /\ ops < MaxOps
    /\ row # None
    /\ op = "issue" =>
          Cardinality({t \in SendTokens : sendToken[t] = "active"}) <= MaxSendTokens
    /\ req' = [req EXCEPT ![r] = [pc |-> "write", op |-> op, read |-> row,
                                  alias |-> None]]
    /\ ops' = ops + 1
    /\ UNCHANGED <<row, sendToken, provisioned, callback, issued, replaced, lost,
                   deleted, crossed, faults>>

\* _get_app_or_404; for a new send token also the count of the active ones.
Read(r, op) ==
    /\ req[r] = Idle
    /\ ops < MaxOps
    /\ row # None
    /\ op = "issue" =>
          Cardinality({t \in SendTokens : sendToken[t] = "active"}) < MaxSendTokens
    /\ req' = [req EXCEPT ![r] = [pc |-> "write", op |-> op, read |-> row,
                                  alias |-> None]]
    /\ ops' = ops + 1
    /\ UNCHANGED <<row, sendToken, provisioned, callback, issued, replaced, lost,
                   deleted, crossed, faults>>

Writes(r, op) == req[r].pc = "write" /\ req[r].op = op

\* The row has changed since the request read it.
Overwrites(r) == row # req[r].read

\* PATCH: serializer.save writes every column, and brings back a row that was
\* deleted meanwhile.
Patch(r) ==
    /\ Writes(r, "patch")
    /\ row' = [req[r].read EXCEPT !.url = ~@]
    /\ lost' = (lost \/ Overwrites(r))
    /\ End(r)
    /\ UNCHANGED <<sendToken, provisioned, callback, issued, replaced, deleted, crossed,
                   ops, faults>>

\* Another request that changes the address is under way.
OthersOnAlias(r) ==
    \E o \in Requests \ {r} : req[o].op \in {"create", "email", "delete"}

\* regenerate_inbound_email: a new alias, all columns saved, then Exchange.
RegenerateInboundEmail(r) ==
    /\ Writes(r, "email")
    /\ issued' = issued + 1
    /\ row' = [req[r].read EXCEPT !.alias = issued']
    /\ replaced' = replaced \cup {req[r].read.alias}
    /\ lost' = (lost \/ Overwrites(r))
    /\ req' = [req EXCEPT ![r].pc = "provision", ![r].alias = issued']
    /\ crossed' = (crossed \/ OthersOnAlias(r))
    /\ UNCHANGED <<sendToken, provisioned, callback, deleted, ops, faults>>

\* save(update_fields): the named columns, or an error when the row is gone.
SaveFields(r, new) ==
    /\ row' = new
    /\ End(r)
    /\ UNCHANGED <<sendToken, provisioned, callback, lost, deleted, crossed, ops, faults>>

\* Mutant: without update_fields.
RegenerateTokenWholeRow(r) ==
    /\ Writes(r, "token")
    /\ row # None
    /\ issued' = issued + 1
    /\ replaced' = replaced \cup {row.token}
    /\ SaveFields(r, [req[r].read EXCEPT !.token = issued', !.revoked = FALSE])

RegenerateToken(r) ==
    /\ Writes(r, "token")
    /\ row # None
    /\ issued' = issued + 1
    /\ replaced' = replaced \cup {row.token}
    /\ SaveFields(r, [row EXCEPT !.token = issued', !.revoked = FALSE])

RevokeToken(r) ==
    /\ Writes(r, "revoke")
    /\ row # None
    /\ SaveFields(r, [row EXCEPT !.revoked = TRUE])
    /\ UNCHANGED <<issued, replaced>>

RotateEnrolmentCode(r) ==
    /\ Writes(r, "code")
    /\ row # None
    /\ issued' = issued + 1
    /\ replaced' = replaced \cup {row.code}
    /\ SaveFields(r, [row EXCEPT !.code = issued'])

RotateWebhookSecret(r) ==
    /\ Writes(r, "secret")
    /\ row # None
    /\ issued' = issued + 1
    /\ replaced' = replaced \cup {row.secret}
    /\ SaveFields(r, [row EXCEPT !.secret = issued'])

\* Activate and deactivate save nothing when the row they read is as asked.
SetActive(r) ==
    /\ req[r].pc = "write"
    /\ req[r].op \in {"on", "off"}
    /\ row # None
    /\ LET want == req[r].op = "on"
       IN  SaveFields(r, IF req[r].read.active = want THEN row
                         ELSE [row EXCEPT !.active = want])
    /\ UNCHANGED <<issued, replaced>>

\* Application.delete: the cascade takes the send tokens, then Exchange.
Delete(r) ==
    /\ Writes(r, "delete")
    /\ row' = None
    /\ deleted' = TRUE
    /\ sendToken' = [t \in SendTokens |-> "none"]
    /\ req' = [req EXCEPT ![r].pc = "deprovision"]
    /\ crossed' = (crossed \/ OthersOnAlias(r))
    /\ UNCHANGED <<provisioned, callback, issued, replaced, lost, ops, faults>>

\* The row a request wants to save is gone: save(update_fields) and a foreign
\* key to it raise.
SaveFails(r) ==
    /\ req[r].pc = "write"
    /\ req[r].op \in {"token", "revoke", "code", "secret", "on", "off", "issue"}
    /\ row = None
    /\ End(r)
    /\ UNCHANGED <<row, sendToken, provisioned, callback, issued, replaced, lost,
                   deleted, crossed, ops, faults>>

\* AppSendToken.issue
Issue(r, t) ==
    /\ Writes(r, "issue")
    /\ row # None
    /\ sendToken[t] = "none"
    /\ sendToken' = [sendToken EXCEPT ![t] = "active"]
    /\ End(r)
    /\ UNCHANGED <<row, provisioned, callback, issued, replaced, lost, deleted, crossed,
                   ops, faults>>

\* AppSendToken.revoke
RevokeSendToken(t) ==
    /\ ops < MaxOps
    /\ sendToken[t] = "active"
    /\ sendToken' = [sendToken EXCEPT ![t] = "revoked"]
    /\ ops' = ops + 1
    /\ UNCHANGED <<row, provisioned, req, callback, issued, replaced, lost, deleted, crossed,
                   faults>>

-----------------------------------------------------------------------------
(* Exchange *)

\* ExchangeAliasService: a script that adds or removes an alias, which it is no
\* error to do twice, and that may fail or time out without doing it.
Exchange(aliases) ==
    \/ provisioned' = aliases /\ UNCHANGED faults
    \/ Fault("exchange") /\ UNCHANGED provisioned

\* Mutant: the alias the row had before stays.
ProvisionOnly(r) ==
    /\ req[r].pc = "provision"
    /\ Exchange(provisioned \cup {req[r].alias})
    /\ End(r)
    /\ UNCHANGED <<row, sendToken, callback, issued, replaced, lost, deleted, crossed,
                   ops>>

\* provision_alias_for_application: an error is logged and otherwise ignored.
Provision(r) ==
    /\ req[r].pc = "provision"
    /\ Exchange(provisioned \cup {req[r].alias})
    /\ IF req[r].op = "create" THEN End(r)
       ELSE req' = [req EXCEPT ![r].pc = "deprovision"]
    /\ UNCHANGED <<row, sendToken, callback, issued, replaced, lost, deleted, crossed,
                   ops>>

\* deprovision_alias_for_application, for the alias the request had read.
Deprovision(r) ==
    /\ req[r].pc = "deprovision"
    /\ Exchange(provisioned \ {req[r].read.alias})
    /\ End(r)
    /\ UNCHANGED <<row, sendToken, callback, issued, replaced, lost, deleted, crossed,
                   ops>>

\* The web process is killed.
Crash(r) ==
    /\ req[r] # Idle
    /\ Fault("crash")
    /\ End(r)
    /\ UNCHANGED <<row, sendToken, provisioned, callback, issued, replaced, lost,
                   deleted, crossed, ops>>

-----------------------------------------------------------------------------
(* Callbacks *)

CallbackFrame == UNCHANGED <<row, sendToken, provisioned, req, issued, replaced, lost,
                             deleted, crossed, ops>>

HasUrl == row # None /\ row.url

SetCallback(c, s) == callback' = [callback EXCEPT ![c].state = s]

\* send_webhook_callback: a notification of the application was sent or failed.
Enqueue(c) ==
    /\ callback[c].state = "none"
    /\ HasUrl
    /\ SetCallback(c, "queued")
    /\ CallbackFrame
    /\ UNCHANGED faults

\* The task reads the application again ...
Run(c) ==
    /\ callback[c].state = "queued"
    /\ SetCallback(c, IF HasUrl THEN "running" ELSE "dropped")
    /\ CallbackFrame
    /\ UNCHANGED faults

\* ... and finds that the host of its URL is, by now, one that
\* assert_webhook_url_safe refuses, or cannot be resolved: the end of it.
RunUnsafe(c) ==
    /\ callback[c].state = "queued"
    /\ HasUrl
    /\ Fault("unsafe")
    /\ SetCallback(c, "dropped")
    /\ CallbackFrame

\* The POST is answered, whatever the status.
Post(c) ==
    /\ callback[c].state = "running"
    /\ callback' = [callback EXCEPT ![c].state = "done", ![c].posts = @ + 1]
    /\ CallbackFrame
    /\ UNCHANGED faults

\* Mutant: a task that gives up is put back.
PostFailsForEver(c) ==
    /\ callback[c].state = "running"
    /\ "endpoint" \in Faults
    /\ callback' = [callback EXCEPT ![c].state = "queued"]
    /\ CallbackFrame
    /\ UNCHANGED faults

\* A transport error, by which time the endpoint may have had the request:
\* self.retry puts the task back until its retries are used up.
PostFails(c) ==
    /\ callback[c].state = "running"
    /\ "endpoint" \in Faults
    /\ IF callback[c].retries < MaxRetries
       THEN callback' = [callback EXCEPT ![c].state = "queued", ![c].posts = @ + 1,
                                         ![c].retries = @ + 1]
       ELSE callback' = [callback EXCEPT ![c].state = "dropped", ![c].posts = @ + 1]
    /\ CallbackFrame
    /\ UNCHANGED faults

\* The worker is killed: the message was acknowledged when it was taken.
CallbackLost(c) ==
    /\ callback[c].state = "running"
    /\ Fault("crash")
    /\ SetCallback(c, "dropped")
    /\ CallbackFrame

-----------------------------------------------------------------------------
RequestStep(r) ==
    \/ Patch(r)
    \/ RegenerateInboundEmail(r)
    \/ RegenerateToken(r)
    \/ RevokeToken(r)
    \/ RotateEnrolmentCode(r)
    \/ RotateWebhookSecret(r)
    \/ SetActive(r)
    \/ Delete(r)
    \/ SaveFails(r)
    \/ \E t \in SendTokens : Issue(r, t)
    \/ Provision(r)
    \/ Deprovision(r)

CallbackStep(c) == Run(c) \/ Post(c) \/ PostFails(c)

Next ==
    \/ \E r \in Requests : Create(r) \/ RequestStep(r) \/ Crash(r)
    \/ \E r \in Requests, op \in Operations : Read(r, op)
    \/ \E t \in SendTokens : RevokeSendToken(t)
    \/ \E c \in Callbacks : \/ Enqueue(c)
                            \/ CallbackStep(c)
                            \/ RunUnsafe(c)
                            \/ CallbackLost(c)

Spec == Init /\ [][Next]_vars

\* A worker takes the callback tasks that are queued.
FairSpec == Spec /\ \A c \in Callbacks : WF_vars(CallbackStep(c))

-----------------------------------------------------------------------------
(* Properties *)

\* Every value of the row that a rotation can replace.
Credentials == IF row = None THEN {} ELSE {row.token, row.code, row.secret, row.alias}

\* A token, a code, a secret or an address that was replaced never comes back,
\* nor does an application that was deleted, unless a PATCH or a new address
\* saved a whole row over changes it had not read.
ReplacedStaysReplaced ==
    ~lost => Credentials \cap replaced = {} /\ (deleted => row = None)

\* When no request is under way, the shared mailbox has the address of the
\* application and no address it had before, unless Exchange or the process
\* failed on the way, a whole row was saved over newer values, or two requests
\* that change the address overlapped (the alias of a deleted application may
\* then be added last).
AliasIsServed ==
    LET undisturbed == /\ \A r \in Requests : req[r] = Idle
                       /\ faults = 0 /\ ~lost /\ ~crossed
    IN  undisturbed /\ issued > 0
            => provisioned = IF row = None THEN {} ELSE {row.alias}

\* The cap on send tokens is overrun by no more than the requests that were
\* counting at the same time.
SendTokensBounded ==
    Cardinality({t \in SendTokens : sendToken[t] = "active"})
        + Cardinality({r \in Requests : Writes(r, "issue")})
        <= MaxSendTokens + Cardinality(Requests) - 1

\* Each callback that was queued is given to the endpoint, or dropped.
CallbackSettles ==
    \A c \in Callbacks : callback[c].state = "queued"
        ~> callback[c].state \in {"done", "dropped"}
=============================================================================
