--------------------------- MODULE InboundMailbox ---------------------------
(***************************************************************************)
(* The poller that turns mail into notifications: the Celery task and its  *)
(* lock (notifications/tasks.py), the loop over the unread mails           *)
(* (notifications/inbound_mailbox.py), the judgement of one mail           *)
(* (NotificationInboundEmailSerializer, the sender policy of the           *)
(* application, the authentication of the sender) and what it answers.     *)
(*                                                                         *)
(* A mail is done with when it is marked read, the last of its steps, so a *)
(* poll that dies, or a mark that fails, makes the next poll judge the     *)
(* mail again, by then perhaps under another policy or after its date.     *)
(***************************************************************************)
EXTENDS Integers, FiniteSets

CONSTANTS
    Mails,          \* mails, numbered in the order they are received
    Kinds,          \* what a mail may be
    Polls,          \* runs of poll_inbound_mailbox_task
    Top,            \* fetch_unread_emails(max_count)
    MaxAttempts,    \* INBOUND_EMAIL_MAX_PROCESSING_ATTEMPTS
    RequireDmarc,   \* INBOUND_EMAIL_REQUIRE_DMARC
    NotifyOwner,    \* inbound_rejection_notify_email / _push: the channels
    ReplyToSender,  \* inbound_rejection_reply_to_sender
    Faults,         \* which faults may happen
    MaxFaults,      \* bound: how many
    Changes,        \* which facts around the poller may change
    MaxChanges,     \* bound: how often
    None

Senders == {"owner", "listed", "blocked", "stranger"}
Slots == {"email", "push"} \cup Senders
AllFaults == {"crash", "database", "database_down", "graph", "overrun"}
AllChanges == {"mode", "active", "date", "slot"}

\* to: an address of the application, an alias nobody has, any other address;
\* authentic: what evaluate_sender_authentication makes of the headers;
\* mid: the Message-ID, a negative number, 0 when there is none; raises: processing it fails.
Kind == [to : {"app", "nobody", "elsewhere"}, from : Senders, user : BOOLEAN,
         authentic : BOOLEAN, robot : BOOLEAN, dated : BOOLEAN,
         mid : {-2, -1, 0}, body : {1, 2}, raises : BOOLEAN]

ASSUME MailsAssumption == Mails \subseteq Nat /\ Kinds \subseteq Kind
ASSUME SettingsAssumption ==
    /\ Top \in Nat \ {0}
    /\ MaxAttempts \in Nat \ {0}
    /\ RequireDmarc \in BOOLEAN
    /\ ReplyToSender \in BOOLEAN
    /\ NotifyOwner \subseteq {"email", "push"}
ASSUME BoundsAssumption ==
    /\ Faults \subseteq AllFaults
    /\ Changes \subseteq AllChanges
    /\ MaxFaults \in Nat
    /\ MaxChanges \in Nat
VARIABLES
    kind,       \* per mail: what it is
    unread,     \* the mails of the mailbox that are unread
    lock,       \* INBOUND_POLL_LOCK_KEY: the run whose token it holds, or None
    pc,         \* per run: where it is
    batch,      \* ... the fetched mails it has not come to
    mail,       \* ... the mail it is processing
    verdict,    \* ... what it has made of it
    note,       \* per key: the notification, by its fingerprint, or None
    born,       \* per mail: notifications created from it
    errors,     \* per mail: ERROR rows of the journal
    logged,     \* per mail: the other statuses journalled for it
    slots,      \* rate limits taken: owner notices and replies per sender
    sent,       \* per slot: notices or replies that went out
    mode, active, passed,
    faults, changes, lapses,
    overran     \* a lock ran out under a live run

poll == <<pc, batch, mail, verdict>>
journal == <<errors, logged>>
policy == <<mode, active, passed>>
vars == <<kind, unread, lock, poll, note, born, journal, slots, sent, policy,
          faults, changes, lapses, overran>>

Verdicts == {"ignored", "blocked", "not_allowed", "not_authenticated",
             "unknown_address", "invalid", "ok", "created", "existing",
             "conflict"}
PC == {"idle", "fetch", "next", "judge", "create", "reply", "journal", "notify",
       "mark", "fail", "give_up", "release", "delete"}
Key == {-2, -1} \cup Mails
Content == [body : {1, 2}, dated : BOOLEAN, from : Senders]
Statuses == {"created", "existing", "conflict", "rejected"}

ASSUME NoneAssumption ==
    None \notin Polls /\ None \notin Mails /\ None \notin Content

TypeOK ==
    /\ kind \in [Mails -> Kinds]
    /\ unread \in SUBSET Mails
    /\ lock \in Polls \cup {None}
    /\ pc \in [Polls -> PC]
    /\ batch \in [Polls -> SUBSET Mails]
    /\ mail \in [Polls -> Mails \cup {None}]
    /\ verdict \in [Polls -> Verdicts \cup {None}]
    /\ note \in [Key -> Content \cup {None}]
    /\ born \in [Mails -> Nat]
    /\ errors \in [Mails -> Nat]
    /\ logged \in [Mails -> SUBSET Statuses]
    /\ slots \in SUBSET Slots
    /\ sent \in [Slots -> Nat]
    /\ mode \in {"owner", "anyone"}
    /\ active \in BOOLEAN
    /\ passed \in BOOLEAN
    /\ faults \in 0 .. MaxFaults
    /\ changes \in 0 .. MaxChanges
    /\ lapses \in [Slots -> Nat]
    /\ overran \in BOOLEAN

\* The mails are in the mailbox, nothing has been polled.
Init ==
    /\ kind \in [Mails -> Kinds]
    /\ unread = Mails
    /\ lock = None
    /\ pc = [p \in Polls |-> "idle"]
    /\ batch = [p \in Polls |-> {}]
    /\ mail = [p \in Polls |-> None]
    /\ verdict = [p \in Polls |-> None]
    /\ note = [k \in Key |-> None]
    /\ born = [m \in Mails |-> 0]
    /\ errors = [m \in Mails |-> 0]
    /\ logged = [m \in Mails |-> {}]
    /\ slots = {}
    /\ sent = [s \in Slots |-> 0]
    /\ mode = "owner"
    /\ active = TRUE
    /\ passed = FALSE
    /\ faults = 0
    /\ changes = 0
    /\ lapses = [s \in Slots |-> 0]
    /\ overran = FALSE

-----------------------------------------------------------------------------
(* The judgement of a mail *)

\* evaluate_sender_policy: never against the owner, the blocklist before the
\* mode, the allowlist in "owner" mode.
EvaluateSenderPolicy(s) ==
    CASE s = "owner" -> "ok"
      [] s = "blocked" -> "blocked"
      [] s = "listed" -> "ok"
      [] s = "stranger" -> IF mode = "anyone" THEN "ok" ELSE "not_allowed"

\* is_inbound_alias_address of the recipient fetch_unread_emails has picked: an
\* alias of the form the server gives out, whoever has it.
IsInboundAliasAddress(k) == k.to # "elsewhere"

\* evaluate_sender_authentication, which only observes unless it is required.
SenderAccepted(k) == RequireDmarc => k.authentic

\* NotificationInboundEmailSerializer.validate: the refusals of the policy and
\* of the authentication are told apart from the others, whatever else is wrong.
Judgement(k) ==
    IF ~IsInboundAliasAddress(k) THEN "ignored"
    ELSE IF k.to = "nobody" \/ ~active
    THEN IF k.user THEN "unknown_address" ELSE "invalid"
    ELSE IF EvaluateSenderPolicy(k.from) # "ok" THEN EvaluateSenderPolicy(k.from)
    ELSE IF ~SenderAccepted(k) THEN "not_authenticated"
    ELSE IF k.dated /\ passed THEN "invalid"
    ELSE "ok"

\* Mutant: the key is the one Graph gives the mail, whatever its Message-ID.
IdempotencyKeyOfCopy(m) == m

\* message_id or graph-<id>
IdempotencyKey(m) == IF kind[m].mid = 0 THEN m ELSE kind[m].mid

FingerprintOf(m) ==
    [body |-> kind[m].body, dated |-> kind[m].dated, from |-> kind[m].from]

PolicyRefusals == {"blocked", "not_allowed", "not_authenticated"}

-----------------------------------------------------------------------------
(* The task *)

Go(p, where) == pc' = [pc EXCEPT ![p] = where]

\* What no step of a poll touches.
PollFrame == UNCHANGED <<kind, policy, changes, lapses, overran>>

\* A run is over, or dead: its memory is gone.
Leave(p) ==
    /\ Go(p, "idle")
    /\ batch' = [batch EXCEPT ![p] = {}]
    /\ mail' = [mail EXCEPT ![p] = None]
    /\ verdict' = [verdict EXCEPT ![p] = None]

\* Mutant: cache.set takes the lock, whoever has it.
StartAnyway(p) ==
    /\ pc[p] = "idle"
    /\ lock' = p
    /\ Go(p, "fetch")
    /\ PollFrame
    /\ UNCHANGED <<unread, batch, mail, verdict, note, born, journal, slots, sent,
                   faults>>

\* cache.add takes the lock; a run that finds it taken is skipped.
Start(p) ==
    /\ pc[p] = "idle"
    /\ lock = None
    /\ lock' = p
    /\ Go(p, "fetch")
    /\ PollFrame
    /\ UNCHANGED <<unread, batch, mail, verdict, note, born, journal, slots, sent,
                   faults>>

\* fetch_unread_emails: the first Top unread mails in the order received.
Fetch(p) ==
    /\ pc[p] = "fetch"
    /\ batch' = [batch EXCEPT ![p] =
           {m \in unread : Cardinality({n \in unread : n < m}) < Top}]
    /\ Go(p, "next")
    /\ PollFrame
    /\ UNCHANGED <<unread, lock, mail, verdict, note, born, journal, slots, sent,
                   faults>>

Fault(f) ==
    /\ f \in Faults
    /\ faults < MaxFaults
    /\ faults' = faults + 1

\* Graph cannot be reached: the run ends.
FetchFails(p) ==
    /\ pc[p] = "fetch"
    /\ Fault("graph")
    /\ Go(p, "release")
    /\ PollFrame
    /\ UNCHANGED <<unread, lock, batch, mail, verdict, note, born, journal, slots,
                   sent>>

\* The loop comes to the next mail, or to its end.
NextMail(p) ==
    /\ pc[p] = "next"
    /\ IF batch[p] = {}
       THEN Go(p, "release") /\ UNCHANGED <<batch, mail>>
       ELSE \E m \in batch[p] :
              /\ \A n \in batch[p] : m <= n
              /\ mail' = [mail EXCEPT ![p] = m]
              /\ batch' = [batch EXCEPT ![p] = @ \ {m}]
              /\ Go(p, "judge")
    /\ PollFrame
    /\ UNCHANGED <<unread, lock, verdict, note, born, journal, slots, sent, faults>>

\* _process_email up to the end of the validation.
Judge(p) ==
    LET k == kind[mail[p]]
        j == Judgement(k)
    IN  /\ pc[p] = "judge"
        /\ verdict' = [verdict EXCEPT ![p] = j]
        /\ Go(p, IF k.raises /\ j # "ignored" THEN "fail"
                 ELSE CASE j = "ignored" -> "mark"
                        [] j = "ok" -> "create"
                        [] j = "unknown_address" -> "reply"
                        [] OTHER -> "journal")
        /\ PollFrame
        /\ UNCHANGED <<unread, lock, batch, mail, note, born, journal, slots, sent,
                       faults>>

\* create_notification_with_optional_idempotency, which is indivisible
\* (IdempotentCreate's CreationIsAtomic).
Create(p) ==
    LET m == mail[p]
        k == IdempotencyKey(m)
    IN  /\ pc[p] = "create"
        /\ IF note[k] = None
           THEN /\ note' = [note EXCEPT ![k] = FingerprintOf(m)]
                /\ born' = [born EXCEPT ![m] = @ + 1]
                /\ verdict' = [verdict EXCEPT ![p] = "created"]
           ELSE /\ verdict' = [verdict EXCEPT ![p] =
                       IF note[k] = FingerprintOf(m) THEN "existing" ELSE "conflict"]
                /\ UNCHANGED <<note, born>>
        /\ Go(p, "journal")
        /\ PollFrame
        /\ UNCHANGED <<unread, lock, batch, mail, journal, slots, sent, faults>>

\* Mutant: an error before the journal is written goes unnoticed.
JournalOmitted(p) ==
    /\ pc[p] = "journal"
    /\ Go(p, IF verdict[p] \in PolicyRefusals THEN "notify" ELSE "mark")
    /\ PollFrame
    /\ UNCHANGED <<unread, lock, batch, mail, verdict, note, born, journal, slots,
                   sent, faults>>

\* record_inbound_email_ingestion
Journal(p) ==
    /\ pc[p] = "journal"
    /\ logged' = [logged EXCEPT ![mail[p]] = @ \cup
           {IF verdict[p] \in Statuses THEN verdict[p] ELSE "rejected"}]
    /\ Go(p, IF verdict[p] \in PolicyRefusals THEN "notify" ELSE "mark")
    /\ PollFrame
    /\ UNCHANGED <<unread, lock, batch, mail, verdict, note, born, errors, slots,
                   sent, faults>>

\* Whom a refused mail may be answered to: auto_reply_block_reason lets robots
\* and lists alone, and a mail that failed authentication is never answered.
RepliesTo(p) ==
    LET k == kind[mail[p]]
    IN  IF ~k.robot /\ \/ verdict[p] = "unknown_address"
                       \/ ReplyToSender /\ verdict[p] \in {"blocked", "not_allowed"}
        THEN {k.from} ELSE {}

\* Mutant: the rate limit is not asked.
SendLimitedToAll(wanted) ==
    /\ slots' = slots \cup wanted
    /\ sent' = [s \in Slots |-> IF s \in wanted THEN sent[s] + 1 ELSE sent[s]]

\* claim_auto_reply_slot, _claim_owner_notice_slot: cache.add decides, and what
\* it lets through is sent.
SendLimited(wanted) ==
    /\ slots' = slots \cup wanted
    /\ sent' = [s \in Slots |->
           IF s \in wanted \ slots THEN sent[s] + 1 ELSE sent[s]]

\* The "unknown address" reply, before the journal is written.
Reply(p) ==
    /\ pc[p] = "reply"
    /\ SendLimited(RepliesTo(p))
    /\ Go(p, "journal")
    /\ PollFrame
    /\ UNCHANGED <<unread, lock, batch, mail, verdict, note, born, journal, faults>>

\* _notify_owner_of_rejection on the channels the application enables, then
\* _reply_to_refused_sender.
Notify(p) ==
    /\ pc[p] = "notify"
    /\ SendLimited(NotifyOwner \cup RepliesTo(p))
    /\ Go(p, "mark")
    /\ PollFrame
    /\ UNCHANGED <<unread, lock, batch, mail, verdict, note, born, journal, faults>>

\* Done with the mail: to the next.
Continue(p) ==
    /\ Go(p, "next")
    /\ mail' = [mail EXCEPT ![p] = None]
    /\ verdict' = [verdict EXCEPT ![p] = None]

\* mark_email_read
Mark(p) ==
    /\ pc[p] \in {"mark", "give_up"}
    /\ unread' = unread \ {mail[p]}
    /\ Continue(p)
    /\ PollFrame
    /\ UNCHANGED <<lock, batch, note, born, journal, slots, sent, faults>>

\* It fails, which is logged and otherwise ignored.
MarkFails(p) ==
    /\ pc[p] \in {"mark", "give_up"}
    /\ Fault("graph")
    /\ Continue(p)
    /\ PollFrame
    /\ UNCHANGED <<unread, lock, batch, note, born, journal, slots, sent>>

\* A statement of _process_email raises.
ProcessingFails(p) ==
    /\ pc[p] \in {"judge", "create", "journal", "reply", "notify"}
    /\ Fault("database")
    /\ Go(p, "fail")
    /\ PollFrame
    /\ UNCHANGED <<unread, lock, batch, mail, verdict, note, born, journal, slots,
                   sent>>

\* Mutant: a mail that always fails is never given up.
RecordFailureForEver(p) ==
    /\ pc[p] = "fail"
    /\ errors' = [errors EXCEPT ![mail[p]] = IF @ < MaxAttempts THEN @ + 1 ELSE @]
    /\ Continue(p)
    /\ PollFrame
    /\ UNCHANGED <<unread, lock, batch, note, born, logged, slots, sent, faults>>

\* _record_processing_failure: an ERROR row, and past the cap the mail is
\* marked read.
RecordFailure(p) ==
    /\ pc[p] = "fail"
    /\ errors' = [errors EXCEPT ![mail[p]] = @ + 1]
    /\ IF errors'[mail[p]] < MaxAttempts
       THEN Continue(p)
       ELSE Go(p, "give_up") /\ UNCHANGED <<mail, verdict>>
    /\ PollFrame
    /\ UNCHANGED <<unread, lock, batch, note, born, logged, slots, sent, faults>>

\* It raises itself: the whole poll ends.
PollRaises(p) ==
    /\ pc[p] = "fail"
    /\ Fault("database_down")
    /\ Go(p, "release")
    /\ PollFrame
    /\ UNCHANGED <<unread, lock, batch, mail, verdict, note, born, journal, slots,
                   sent>>

\* The finally clause: cache.get, and only if the token is this run's ...
ReleaseCheck(p) ==
    /\ pc[p] = "release"
    /\ IF lock = p
       THEN Go(p, "delete") /\ UNCHANGED <<batch, mail, verdict>>
       ELSE Leave(p)
    /\ PollFrame
    /\ UNCHANGED <<unread, lock, note, born, journal, slots, sent, faults>>

\* ... cache.delete, whatever the key holds by now.
ReleaseDelete(p) ==
    /\ pc[p] = "delete"
    /\ lock' = None
    /\ Leave(p)
    /\ PollFrame
    /\ UNCHANGED <<unread, note, born, journal, slots, sent, faults>>

\* The worker process is killed; the lock stays.
Crash(p) ==
    /\ pc[p] # "idle"
    /\ Fault("crash")
    /\ Leave(p)
    /\ PollFrame
    /\ UNCHANGED <<unread, lock, note, born, journal, slots, sent>>

\* The lock runs out (INBOUND_EMAIL_POLL_LOCK_TTL_SECONDS): its run is dead ...
LockExpires ==
    /\ lock # None
    /\ pc[lock] = "idle"
    /\ lock' = None
    /\ PollFrame
    /\ UNCHANGED <<unread, poll, note, born, journal, slots, sent, faults>>

\* ... or takes longer than that.
LockOverrun ==
    /\ lock # None
    /\ pc[lock] # "idle"
    /\ Fault("overrun")
    /\ lock' = None
    /\ overran' = TRUE
    /\ UNCHANGED <<kind, unread, poll, note, born, journal, slots, sent, policy,
                   changes, lapses>>

PollStep(p) ==
    \/ Start(p)
    \/ Fetch(p)
    \/ NextMail(p)
    \/ Judge(p)
    \/ Create(p)
    \/ Journal(p)
    \/ Reply(p)
    \/ Notify(p)
    \/ Mark(p)
    \/ RecordFailure(p)
    \/ ReleaseCheck(p)
    \/ ReleaseDelete(p)

PollFault(p) ==
    \/ FetchFails(p)
    \/ MarkFails(p)
    \/ ProcessingFails(p)
    \/ PollRaises(p)
    \/ Crash(p)

-----------------------------------------------------------------------------
(* What changes around the poller *)

Change(c) ==
    /\ c \in Changes
    /\ changes < MaxChanges
    /\ changes' = changes + 1
    /\ UNCHANGED <<kind, unread, lock, poll, note, born, journal, sent, faults,
                   overran>>

\* The owner changes who may send, or switches the application.
ChangeMode ==
    /\ Change("mode")
    /\ mode' = IF mode = "owner" THEN "anyone" ELSE "owner"
    /\ UNCHANGED <<slots, active, passed, lapses>>

ChangeActive ==
    /\ Change("active")
    /\ active' = ~active
    /\ UNCHANGED <<slots, mode, passed, lapses>>

\* The date of the [SEND_AT:...] markers passes.
DatePasses ==
    /\ Change("date")
    /\ ~passed
    /\ passed' = TRUE
    /\ UNCHANGED <<slots, mode, active, lapses>>

\* INBOUND_EMAIL_AUTO_REPLY_INTERVAL_SECONDS are over for a slot.
SlotExpires(s) ==
    /\ Change("slot")
    /\ s \in slots
    /\ slots' = slots \ {s}
    /\ lapses' = [lapses EXCEPT ![s] = @ + 1]
    /\ UNCHANGED policy

Surround ==
    \/ ChangeMode
    \/ ChangeActive
    \/ DatePasses
    \/ \E s \in Slots : SlotExpires(s)

Next ==
    \/ \E p \in Polls : PollStep(p) \/ PollFault(p)
    \/ LockExpires
    \/ LockOverrun
    \/ Surround

Spec == Init /\ [][Next]_vars

\* Beat starts the task every minute, a run that is not killed goes on, and the
\* lock of a dead one runs out.
Fairness ==
    /\ \A p \in Polls : WF_vars(PollStep(p))
    /\ WF_vars(LockExpires)

FairSpec == Spec /\ Fairness

-----------------------------------------------------------------------------
(* Properties *)

\* However often a mail is judged, by one run after the other or by two at
\* once, and in however many copies it came, its Message-ID yields one
\* notification.
OneNotificationPerMail ==
    \A m, n \in Mails :
        (kind[m].mid = kind[n].mid /\ kind[m].mid # 0) \/ m = n =>
            IF m = n THEN born[m] <= 1 ELSE born[m] + born[n] <= 1

\* No mail disappears: one that was marked read had nothing to do with PushIT,
\* or its journal says what became of it, or it failed MaxAttempts times.  And
\* the journal shows the notification of a mail, unless a fault came between
\* the two and the mail was judged again: then it may show a refusal, or the
\* errors.
ReadIsAccounted ==
    \A m \in Mails \ unread :
        /\ \/ kind[m].to = "elsewhere"
           \/ logged[m] # {}
           \/ errors[m] >= MaxAttempts
        /\ born[m] = 1 /\ logged[m] \cap {"created", "existing"} = {}
               => faults > 0 /\ (changes > 0 \/ errors[m] >= MaxAttempts)

\* Refused mail does not become a flood: a notice to the owner per channel, and
\* a reply to a sender, at most once per interval.
AnswersLimited == \A s \in Slots : sent[s] <= 1 + lapses[s]

\* Two runs work on the mailbox at the same time only after a lock ran out
\* under a run that was still alive.
OverlapNeedsOverrun ==
    \A p, q \in Polls :
        p # q /\ pc[p] # "idle" /\ pc[q] # "idle" => overran

\* Every mail is read in the end, a mail that always fails does not keep the
\* ones behind it from being fetched.
MailsAreRead == \A m \in Mails : m \in unread ~> m \notin unread
=============================================================================
