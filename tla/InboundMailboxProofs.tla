------------------------ MODULE InboundMailboxProofs ------------------------
(***************************************************************************)
(* Theorems about InboundMailbox, for every set of mails of whatever kind, *)
(* every number of runs that may overlap, every setting and every bound.   *)
(***************************************************************************)
EXTENDS InboundMailbox, TLAPS

\* A run is at a mail.
Processing == {"judge", "create", "reply", "journal", "notify", "mark", "fail",
               "give_up"}

\* Judgements that let no notification be created.
Refusals == {"ignored", "unknown_address", "invalid"} \cup PolicyRefusals

\* The types, and a run that processes a mail has one.
BaseInv ==
    /\ TypeOK
    /\ \A p \in Polls : pc[p] \in Processing => mail[p] \in Mails

\* A mail that yielded a notification has it under its key: the next creation
\* with that key finds it.
NoteInv ==
    /\ \A m \in Mails : born[m] > 0 => note[IdempotencyKey(m)] = FingerprintOf(m)
    /\ OneNotificationPerMail

\* A slot is taken for whatever has gone out since it was last given back.
AnswerInv ==
    \A s \in Slots : sent[s] <= lapses[s] + (IF s \in slots THEN 1 ELSE 0)

\* Until a lock runs out under a live run, whoever works holds it.
LockInv ==
    /\ ~overran => \A p \in Polls : pc[p] # "idle" => lock = p
    /\ overran => faults > 0

\* The note under the key of the mail is of another one.
Contradicted(m) == note[IdempotencyKey(m)] \notin {None, FingerprintOf(m)}

\* As long as nothing around the poller has changed, every judgement of the
\* mail is this one.
JudgedSo(m, J) == changes = 0 => Judgement(kind[m]) \in J

\* What a run knows of the mail it is at.
WorkInv(p) ==
    LET m == mail[p]
        v == verdict[p]
    IN  /\ pc[p] = "create" => kind[m].to # "elsewhere" /\ JudgedSo(m, {"ok"})
        /\ pc[p] \in {"reply", "journal", "notify", "mark"} =>
             /\ v \in Refusals \cup {"created", "existing", "conflict"}
             /\ v = "ignored" => kind[m].to = "elsewhere"
             /\ v \in Refusals => JudgedSo(m, Refusals)
             /\ v = "conflict" => Contradicted(m)
        /\ pc[p] \in {"notify", "mark"} /\ v # "ignored" =>
             (IF v \in Statuses THEN v ELSE "rejected") \in logged[m]
        /\ pc[p] = "give_up" => errors[m] >= MaxAttempts

\* What the journal, and the notification of a mail, tell of its judgement.
MailInv(m) ==
    /\ born[m] > 0 => kind[m].to # "elsewhere" /\ JudgedSo(m, {"ok"})
    /\ "rejected" \in logged[m] => JudgedSo(m, Refusals)
    /\ "conflict" \in logged[m] => Contradicted(m)

\* Before the first fault a run's mails are unread, and the one it has just
\* created a notification from, and not yet journalled, is still in its hands.
OrderInv ==
    faults = 0 =>
        /\ \A p \in Polls :
             /\ pc[p] \notin {"idle", "fetch"} => batch[p] \subseteq unread
             /\ pc[p] \in Processing => mail[p] \in unread \ batch[p]
        /\ \A m \in Mails :
             born[m] > 0 /\ logged[m] \cap {"created", "existing"} = {} =>
                 \E p \in Polls : /\ pc[p] = "journal"
                                  /\ mail[p] = m
                                  /\ verdict[p] = "created"

AccountInv ==
    /\ \A p \in Polls : WorkInv(p)
    /\ \A m \in Mails : MailInv(m)
    /\ OrderInv
    /\ ReadIsAccounted

-----------------------------------------------------------------------------
(* Types *)

\* A mail has a key and a content.
LEMMA KeyType ==
    ASSUME TypeOK, NEW m \in Mails
    PROVE  /\ kind[m] \in Kind
           /\ IdempotencyKey(m) \in Key
           /\ FingerprintOf(m) \in Content
           /\ FingerprintOf(m) # None
<1>1. kind[m] \in Kind  BY MailsAssumption DEF TypeOK
<1>2. IdempotencyKey(m) \in Key  BY <1>1 DEF IdempotencyKey, Key, Kind
<1>3. FingerprintOf(m) \in Content  BY <1>1 DEF FingerprintOf, Content, Kind
<1> QED  BY <1>1, <1>2, <1>3, NoneAssumption

\* What validate may make of a mail, and when it has nothing to do with PushIT.
LEMMA JudgementType ==
    ASSUME TypeOK, NEW m \in Mails
    PROVE  /\ Judgement(kind[m]) \in Refusals \cup {"ok"}
           /\ Judgement(kind[m]) \in Verdicts
           /\ Judgement(kind[m]) = "ignored" <=> kind[m].to = "elsewhere"
<1>1. kind[m] \in Kind  BY KeyType
<1>2. kind[m].from \in Senders  BY <1>1 DEF Kind
<1>3. EvaluateSenderPolicy(kind[m].from) \in {"ok", "blocked", "not_allowed"}
  BY <1>2 DEF EvaluateSenderPolicy, Senders
<1> HIDE DEF EvaluateSenderPolicy
<1> QED  BY <1>3 DEF Judgement, IsInboundAliasAddress, Refusals, PolicyRefusals, Verdicts

LEMMA BaseInit == Init => BaseInv
<1> SUFFICES ASSUME Init PROVE BaseInv  OBVIOUS
<1>1. 0 \in 0 .. MaxFaults /\ 0 \in 0 .. MaxChanges  BY BoundsAssumption
<1>2. "idle" \in PC  BY DEF PC
<1>3. TypeOK  BY <1>1, <1>2 DEF Init, TypeOK
<1> QED  BY <1>3 DEF BaseInv, Init, Processing

\* A fault is counted.
LEMMA FaultCounts ==
    ASSUME TypeOK, NEW f, Fault(f)
    PROVE  faults' \in 0 .. MaxFaults /\ faults' > 0
BY BoundsAssumption DEF TypeOK, Fault

LEMMA SendLimitedType ==
    ASSUME TypeOK, NEW wanted \in SUBSET Slots, SendLimited(wanted)
    PROVE  slots' \in SUBSET Slots /\ sent' \in [Slots -> Nat]
BY DEF TypeOK, SendLimited

LEMMA RepliesToType ==
    ASSUME BaseInv, NEW p \in Polls, pc[p] \in Processing
    PROVE  RepliesTo(p) \in SUBSET Slots
<1>1. kind[mail[p]] \in Kind  BY KeyType DEF BaseInv
<1> QED  BY <1>1 DEF RepliesTo, Slots, Kind

\* A step of a run leaves alone what is around the poller and what the other
\* runs have in memory.
LEMMA PollAlone ==
    ASSUME TypeOK, NEW p \in Polls, PollStep(p) \/ PollFault(p)
    PROVE  /\ UNCHANGED <<kind, mode, active, passed, changes, lapses, overran>>
           /\ \A q \in Polls \ {p} :
                /\ pc'[q] = pc[q]
                /\ mail'[q] = mail[q]
                /\ verdict'[q] = verdict[q]
                /\ batch'[q] = batch[q]
<1> USE DEF TypeOK, PollFrame, policy, journal, Go
<1>1. CASE PollStep(p)
  <2>1. CASE Start(p) \/ Fetch(p) \/ NextMail(p)
    BY <2>1 DEF Start, Fetch, NextMail
  <2>2. CASE Judge(p) \/ Create(p) \/ Journal(p)
    BY <2>2 DEF Judge, Create, Journal
  <2>3. CASE Reply(p) \/ Notify(p)
    BY <2>3 DEF Reply, Notify
  <2>4. CASE Mark(p) \/ RecordFailure(p)
    BY <2>4 DEF Mark, RecordFailure, Continue
  <2>5. CASE ReleaseCheck(p) \/ ReleaseDelete(p)
    BY <2>5 DEF ReleaseCheck, ReleaseDelete, Leave
  <2> QED  BY <1>1, <2>1, <2>2, <2>3, <2>4, <2>5 DEF PollStep
<1>2. CASE PollFault(p)
  BY <1>2 DEF PollFault, FetchFails, MarkFails, ProcessingFails, PollRaises, Crash,
              Continue, Leave
<1> QED  BY <1>1, <1>2

LEMMA BaseStep ==
    ASSUME BaseInv, NEW p \in Polls, PollStep(p)
    PROVE  BaseInv'
<1> USE DEF TypeOK, PollFrame, policy, journal, Go
<1>0. TypeOK  BY DEF BaseInv
<1>1. \A q \in Polls \ {p} : pc'[q] \in Processing => mail'[q] \in Mails
  BY <1>0, PollAlone DEF BaseInv
<1>2. SUFFICES TypeOK' /\ (pc'[p] \in Processing => mail'[p] \in Mails)
  BY <1>1 DEF BaseInv
<1>3. pc[p] \in Processing => mail[p] \in Mails  BY DEF BaseInv
<1>4. CASE Start(p)
  BY <1>0, <1>4 DEF Start, PC, Processing
<1>5. CASE Fetch(p)
  BY <1>0, <1>5 DEF Fetch, PC, Processing
<1>6. CASE NextMail(p)
  <2>1. CASE batch[p] = {}
    BY <1>0, <1>6, <2>1 DEF NextMail, PC, Processing
  <2>2. CASE batch[p] # {}
    <3>1. PICK m \in batch[p] : mail' = [mail EXCEPT ![p] = m]
                                /\ batch' = [batch EXCEPT ![p] = @ \ {m}]
                                /\ Go(p, "judge")
      BY <1>6, <2>2 DEF NextMail
    <3>2. m \in Mails  BY <1>0, <3>1
    <3> QED  BY <1>0, <1>6, <3>1, <3>2 DEF NextMail, PC, Processing
  <2> QED  BY <2>1, <2>2
<1>7. CASE Judge(p)
  <2>1. mail[p] \in Mails  BY <1>3, <1>7 DEF Judge, Processing
  <2>2. Judgement(kind[mail[p]]) \in Verdicts  BY <1>0, <2>1, JudgementType
  <2> HIDE DEF Judgement
  <2>3. pc' \in [Polls -> PC]  BY <1>0, <1>7, <2>2 DEF Judge, PC
  <2> QED  BY <1>0, <1>7, <2>1, <2>2, <2>3 DEF Judge
<1>8. CASE Create(p)
  <2>1. mail[p] \in Mails  BY <1>3, <1>8 DEF Create, Processing
  <2>2. /\ IdempotencyKey(mail[p]) \in Key
        /\ FingerprintOf(mail[p]) \in Content
    BY <1>0, <2>1, KeyType
  <2> HIDE DEF IdempotencyKey, FingerprintOf
  <2>3. verdict' \in [Polls -> Verdicts \cup {None}]
    BY <1>0, <1>8 DEF Create, Verdicts
  <2>4. note' \in [Key -> Content \cup {None}] /\ born' \in [Mails -> Nat]
    BY <1>0, <1>8, <2>1, <2>2 DEF Create
  <2> QED  BY <1>0, <1>8, <2>1, <2>3, <2>4 DEF Create, PC
<1>9. CASE Journal(p)
  <2>1. mail[p] \in Mails  BY <1>3, <1>9 DEF Journal, Processing
  <2>2. logged' \in [Mails -> SUBSET Statuses]
    BY <1>0, <1>9, <2>1 DEF Journal, Statuses
  <2> QED  BY <1>0, <1>9, <2>1, <2>2 DEF Journal, PC
<1>10. CASE Reply(p) \/ Notify(p)
  <2>1. mail[p] \in Mails  BY <1>3, <1>10 DEF Reply, Notify, Processing
  <2>2. RepliesTo(p) \in SUBSET Slots
    BY <1>10, RepliesToType DEF Reply, Notify, Processing
  <2>3. NotifyOwner \in SUBSET Slots  BY SettingsAssumption DEF Slots
  <2>4. slots' \in SUBSET Slots /\ sent' \in [Slots -> Nat]
    BY <1>0, <1>10, <2>2, <2>3, SendLimitedType DEF Reply, Notify
  <2> QED  BY <1>0, <1>10, <2>1, <2>4 DEF Reply, Notify, PC
<1>11. CASE Mark(p)
  BY <1>0, <1>11 DEF Mark, Continue, PC, Processing
<1>12. CASE RecordFailure(p)
  <2>1. mail[p] \in Mails  BY <1>3, <1>12 DEF RecordFailure, Processing
  <2> QED  BY <1>0, <1>12, <2>1 DEF RecordFailure, Continue, PC, Processing
<1>13. CASE ReleaseCheck(p) \/ ReleaseDelete(p)
  BY <1>0, <1>13 DEF ReleaseCheck, ReleaseDelete, Leave, PC, Processing
<1> QED  BY <1>4, <1>5, <1>6, <1>7, <1>8, <1>9, <1>10, <1>11, <1>12, <1>13
            DEF PollStep

LEMMA BaseFault ==
    ASSUME BaseInv, NEW p \in Polls, PollFault(p)
    PROVE  BaseInv'
<1> USE DEF TypeOK, PollFrame, policy, journal, Go
<1>0. TypeOK  BY DEF BaseInv
<1>1. \A q \in Polls \ {p} : pc'[q] \in Processing => mail'[q] \in Mails
  BY <1>0, PollAlone DEF BaseInv
<1>2. SUFFICES TypeOK' /\ (pc'[p] \in Processing => mail'[p] \in Mails)
  BY <1>1 DEF BaseInv
<1>3. pc[p] \in Processing => mail[p] \in Mails  BY DEF BaseInv
<1>4. faults' \in 0 .. MaxFaults
  BY <1>0, FaultCounts
     DEF PollFault, FetchFails, MarkFails, ProcessingFails, PollRaises, Crash
<1>5. CASE FetchFails(p) \/ PollRaises(p)
  BY <1>0, <1>4, <1>5 DEF FetchFails, PollRaises, PC, Processing
<1>6. CASE ProcessingFails(p)
  BY <1>0, <1>3, <1>4, <1>6 DEF ProcessingFails, PC, Processing
<1>7. CASE MarkFails(p)
  BY <1>0, <1>4, <1>7 DEF MarkFails, Continue, PC, Processing
<1>8. CASE Crash(p)
  BY <1>0, <1>4, <1>8 DEF Crash, Leave, PC, Processing
<1> QED  BY <1>5, <1>6, <1>7, <1>8 DEF PollFault

\* What the surroundings may change.
LEMMA SurroundAlone ==
    ASSUME TypeOK, Surround
    PROVE  /\ UNCHANGED <<kind, unread, lock, pc, batch, mail, verdict, note, born,
                          errors, logged, sent, faults, overran>>
           /\ changes' \in 0 .. MaxChanges /\ changes' > 0
BY BoundsAssumption
   DEF TypeOK, Surround, ChangeMode, ChangeActive, DatePasses, SlotExpires, Change,
       poll, journal

LEMMA BaseOthers ==
    ASSUME BaseInv, UNCHANGED vars \/ LockExpires \/ LockOverrun \/ Surround
    PROVE  BaseInv'
<1> USE DEF TypeOK, poll, policy, journal
<1>0. TypeOK  BY DEF BaseInv
<1>1. CASE UNCHANGED vars  BY <1>1 DEF BaseInv, vars
<1>2. CASE LockExpires  BY <1>2 DEF BaseInv, LockExpires, PollFrame
<1>3. CASE LockOverrun
  <2>1. faults' \in 0 .. MaxFaults  BY <1>0, <1>3, FaultCounts DEF LockOverrun
  <2> QED  BY <1>3, <2>1 DEF BaseInv, LockOverrun
<1>4. CASE Surround
  <2>1. mode' \in {"owner", "anyone"} /\ active' \in BOOLEAN /\ passed' \in BOOLEAN
    BY <1>0, <1>4, Zenon
       DEF Surround, ChangeMode, ChangeActive, DatePasses, SlotExpires
  <2>2. slots' \in SUBSET Slots /\ lapses' \in [Slots -> Nat]
    BY <1>0, <1>4 DEF Surround, ChangeMode, ChangeActive, DatePasses, SlotExpires
  <2> QED  BY <1>0, <1>4, <2>1, <2>2, SurroundAlone DEF BaseInv
<1> QED  BY <1>1, <1>2, <1>3, <1>4

LEMMA BaseNext ==
    ASSUME BaseInv, [Next]_vars
    PROVE  BaseInv'
<1>1. CASE \E p \in Polls : PollStep(p) \/ PollFault(p)
  BY <1>1, BaseStep, BaseFault
<1> QED  BY <1>1, BaseOthers DEF Next

\* The variables have their types, and a run that processes a mail has one: no
\* step of _process_email is taken without it.
THEOREM BaseCorrect == Spec => []BaseInv
<1>1. BaseInv /\ [Next]_vars => BaseInv'  BY BaseNext
<1> QED  BY <1>1, BaseInit, PTL DEF Spec

-----------------------------------------------------------------------------
(* What no step takes back *)

\* A notification, an entry of the journal, a mark and the counts stay, and
\* the surroundings do not change uncounted.
LEMMA Kept ==
    ASSUME BaseInv, [Next]_vars
    PROVE  /\ kind' = kind
           /\ unread' \subseteq unread
           /\ \A k \in Key : note[k] # None => note'[k] = note[k]
           /\ \A m \in Mails : /\ errors'[m] >= errors[m]
                               /\ logged[m] \subseteq logged'[m]
                               /\ born'[m] >= born[m]
           /\ faults' >= faults /\ changes' >= changes
           /\ changes' = 0 => UNCHANGED <<mode, active, passed>>
<1> USE DEF TypeOK, PollFrame, poll, policy, journal
<1>0. TypeOK  BY DEF BaseInv
<1>1. CASE UNCHANGED vars  BY <1>0, <1>1 DEF vars
<1>2. CASE LockExpires \/ LockOverrun
  BY <1>0, <1>2 DEF LockExpires, LockOverrun, Fault
<1>3. CASE Surround
  <2>1. changes' = changes + 1
    BY <1>3 DEF Surround, ChangeMode, ChangeActive, DatePasses, SlotExpires, Change
  <2> QED  BY <1>0, <1>3, <2>1, SurroundAlone
<1>4. ASSUME NEW p \in Polls, PollFault(p)
      PROVE  /\ UNCHANGED <<kind, unread, note, born, errors, logged, mode, active,
                            passed, changes>>
             /\ faults' = faults + 1
  BY <1>4 DEF PollFault, FetchFails, MarkFails, ProcessingFails, PollRaises, Crash,
              Fault
<1>5. ASSUME NEW p \in Polls, PollStep(p)
      PROVE  /\ UNCHANGED <<kind, mode, active, passed, changes, faults>>
             /\ unread' \subseteq unread
             /\ \A k \in Key : note[k] # None => note'[k] = note[k]
             /\ \A m \in Mails : /\ errors'[m] >= errors[m]
                                 /\ logged[m] \subseteq logged'[m]
                                 /\ born'[m] >= born[m]
  <2>0. UNCHANGED <<kind, mode, active, passed, changes>>  BY <1>0, <1>5, PollAlone
  <2>1. CASE Create(p)
    <3>1. /\ \A k \in Key : note[k] # None => note'[k] = note[k]
          /\ \A m \in Mails : born'[m] >= born[m]
      BY <1>0, <2>1 DEF Create
    <3> QED  BY <1>0, <2>0, <2>1, <3>1 DEF Create
  <2>2. CASE Journal(p)  BY <1>0, <2>0, <2>2 DEF Journal
  <2>3. CASE RecordFailure(p)  BY <1>0, <2>0, <2>3 DEF RecordFailure
  <2>4. CASE Start(p) \/ Fetch(p) \/ NextMail(p) \/ Judge(p) \/ Reply(p) \/ Notify(p)
    BY <1>0, <2>0, <2>4 DEF Start, Fetch, NextMail, Judge, Reply, Notify
  <2>5. CASE Mark(p) \/ ReleaseCheck(p) \/ ReleaseDelete(p)
    BY <1>0, <2>0, <2>5 DEF Mark, ReleaseCheck, ReleaseDelete
  <2> QED  BY <1>5, <2>1, <2>2, <2>3, <2>4, <2>5 DEF PollStep
<1>6. CASE \E p \in Polls : PollFault(p)
  <2>1. faults' >= faults  BY <1>0, <1>4, <1>6
  <2> QED  BY <1>0, <1>4, <1>6, <2>1
<1>7. CASE \E p \in Polls : PollStep(p)
  <2>1. faults' >= faults /\ changes' >= changes  BY <1>0, <1>5, <1>7
  <2> QED  BY <1>0, <1>5, <1>7, <2>1
<1> QED  BY <1>1, <1>2, <1>3, <1>6, <1>7 DEF Next

\* Only a creation makes a notification.
LEMMA BornByCreate ==
    ASSUME BaseInv, [Next]_vars
    PROVE  UNCHANGED born \/ \E p \in Polls : Create(p) /\ note[IdempotencyKey(mail[p])] = None
<1> USE DEF TypeOK, PollFrame, poll, policy, journal
<1>1. CASE UNCHANGED vars \/ LockExpires \/ LockOverrun
  BY <1>1 DEF vars, LockExpires, LockOverrun
<1>2. CASE Surround  BY <1>2, SurroundAlone DEF BaseInv
<1>3. ASSUME NEW p \in Polls, PollFault(p) PROVE UNCHANGED born
  BY <1>3 DEF PollFault, FetchFails, MarkFails, ProcessingFails, PollRaises, Crash
<1>4. ASSUME NEW p \in Polls, PollStep(p), ~Create(p) PROVE UNCHANGED born
  BY <1>4 DEF PollStep, Start, Fetch, NextMail, Judge, Journal, Reply, Notify, Mark,
              RecordFailure, ReleaseCheck, ReleaseDelete
<1>5. ASSUME NEW p \in Polls, Create(p), note[IdempotencyKey(mail[p])] # None
      PROVE UNCHANGED born
  BY <1>5 DEF Create
<1> QED  BY <1>1, <1>2, <1>3, <1>4, <1>5 DEF Next

\* The creation that makes one.
LEMMA CreateMakes ==
    ASSUME BaseInv, NEW p \in Polls, Create(p), note[IdempotencyKey(mail[p])] = None
    PROVE  /\ mail[p] \in Mails
           /\ note'[IdempotencyKey(mail[p])] = FingerprintOf(mail[p])
           /\ born' = [born EXCEPT ![mail[p]] = @ + 1]
           /\ pc'[p] = "journal" /\ mail'[p] = mail[p] /\ verdict'[p] = "created"
<1>1. mail[p] \in Mails  BY DEF BaseInv, Create, Processing
<1>2. IdempotencyKey(mail[p]) \in Key  BY <1>1, KeyType DEF BaseInv
<1> HIDE DEF IdempotencyKey, FingerprintOf
<1> QED  BY <1>1, <1>2 DEF BaseInv, TypeOK, Create, Go

-----------------------------------------------------------------------------
(* One notification per mail *)

LEMMA NoteInit == Init => NoteInv
BY DEF Init, NoteInv, OneNotificationPerMail

LEMMA NoteStep ==
    ASSUME BaseInv, NoteInv, [Next]_vars
    PROVE  NoteInv'
<1>0. TypeOK /\ kind' = kind /\ born \in [Mails -> Nat]  BY Kept DEF BaseInv, TypeOK
<1>1. \A m \in Mails : /\ IdempotencyKey(m)' = IdempotencyKey(m)
                       /\ FingerprintOf(m)' = FingerprintOf(m)
  BY <1>0 DEF IdempotencyKey, FingerprintOf
<1>2. \A m \in Mails : /\ IdempotencyKey(m) \in Key /\ FingerprintOf(m) # None
                       /\ born[m] > 0 => note[IdempotencyKey(m)] = FingerprintOf(m)
  BY <1>0, KeyType DEF NoteInv
<1>3. \A m, n \in Mails :
        kind[m].mid = kind[n].mid /\ kind[m].mid # 0
            => IdempotencyKey(m) = IdempotencyKey(n)
  BY DEF IdempotencyKey
<1> HIDE DEF IdempotencyKey, FingerprintOf
<1>4. CASE UNCHANGED born
  <2>1. OneNotificationPerMail'
    BY <1>0, <1>4 DEF NoteInv, OneNotificationPerMail
  <2>2. \A m \in Mails : born'[m] > 0 =>
          note'[IdempotencyKey(m)] = FingerprintOf(m)
    BY <1>2, <1>4, Kept
  <2> QED  BY <1>1, <2>1, <2>2 DEF NoteInv
<1>5. ASSUME NEW p \in Polls, Create(p), note[IdempotencyKey(mail[p])] = None
      PROVE  NoteInv'
  <2> DEFINE c == mail[p]
  <2>1. /\ c \in Mails /\ born' = [born EXCEPT ![c] = @ + 1]
        /\ note'[IdempotencyKey(c)] = FingerprintOf(c)
    BY <1>5, CreateMakes
  <2>2. \A m \in Mails : IdempotencyKey(m) = IdempotencyKey(c) => born[m] = 0
    BY <1>0, <1>2, <1>5
  <2> HIDE DEF c
  <2>3. /\ born'[c] = 1
        /\ \A m \in Mails : m # c => born'[m] = born[m]
    BY <1>0, <2>1, <2>2
  <2>4. OneNotificationPerMail'
    <3> SUFFICES ASSUME NEW m \in Mails, NEW n \in Mails,
                        (kind[m].mid = kind[n].mid /\ kind[m].mid # 0) \/ m = n
                 PROVE  IF m = n THEN born'[m] <= 1 ELSE born'[m] + born'[n] <= 1
      BY <1>0 DEF OneNotificationPerMail
    <3>1. IdempotencyKey(m) = IdempotencyKey(n)  BY <1>3
    <3>2. IF m = n THEN born[m] <= 1 ELSE born[m] + born[n] <= 1
      BY DEF NoteInv, OneNotificationPerMail
    <3>3. CASE m # c /\ n # c  BY <2>3, <3>2, <3>3
    <3>4. CASE m = c /\ n # c  BY <1>0, <2>2, <2>3, <3>1, <3>4
    <3>5. CASE m # c /\ n = c  BY <1>0, <2>2, <2>3, <3>1, <3>5
    <3>6. CASE m = c /\ n = c  BY <2>3, <3>6
    <3> QED  BY <3>3, <3>4, <3>5, <3>6
  <2>5. \A m \in Mails : born'[m] > 0 =>
          note'[IdempotencyKey(m)] = FingerprintOf(m)
    <3> SUFFICES ASSUME NEW m \in Mails, born'[m] > 0
                 PROVE  note'[IdempotencyKey(m)] = FingerprintOf(m)
      OBVIOUS
    <3>1. CASE m = c  BY <2>1, <3>1
    <3>2. CASE m # c
      <4>1. /\ IdempotencyKey(m) \in Key
            /\ note[IdempotencyKey(m)] = FingerprintOf(m) /\ FingerprintOf(m) # None
        BY <1>2, <2>3, <3>2
      <4> QED  BY <4>1, Kept
    <3> QED  BY <3>1, <3>2
  <2> QED  BY <1>1, <2>4, <2>5 DEF NoteInv
<1> QED  BY <1>4, <1>5, BornByCreate

\* However often a mail is judged, by runs that follow or overlap one another,
\* after whatever faults and in however many copies, its Message-ID yields one
\* notification: the key create_notification_with_optional_idempotency gets.
THEOREM NotesCorrect == Spec => []OneNotificationPerMail
<1>1. BaseInv /\ NoteInv /\ [Next]_vars => NoteInv'  BY NoteStep
<1>2. NoteInv => OneNotificationPerMail  BY DEF NoteInv
<1> QED  BY <1>1, <1>2, NoteInit, BaseCorrect, PTL DEF Spec

-----------------------------------------------------------------------------
(* The rate limits *)

LEMMA AnswerInit == Init => AnswerInv
BY DEF Init, AnswerInv

LEMMA SendingIsLimited ==
    ASSUME TypeOK, AnswerInv, NEW wanted, SendLimited(wanted), UNCHANGED lapses
    PROVE  AnswerInv'
<1> SUFFICES ASSUME NEW s \in Slots
             PROVE  sent'[s] <= lapses'[s] + (IF s \in slots' THEN 1 ELSE 0)
  BY DEF AnswerInv
<1>1. /\ sent[s] \in Nat /\ lapses[s] \in Nat
      /\ sent[s] <= lapses[s] + (IF s \in slots THEN 1 ELSE 0)
  BY DEF TypeOK, AnswerInv
<1>2. /\ sent'[s] = IF s \in wanted \ slots THEN sent[s] + 1 ELSE sent[s]
      /\ s \in slots' <=> s \in slots \/ s \in wanted
      /\ lapses'[s] = lapses[s]
  BY DEF SendLimited
<1> QED  BY <1>1, <1>2

LEMMA AnswerStep ==
    ASSUME BaseInv, AnswerInv, [Next]_vars
    PROVE  AnswerInv'
<1> USE DEF PollFrame, poll, policy, journal
<1>0. TypeOK  BY DEF BaseInv
<1>1. CASE UNCHANGED <<slots, sent, lapses>>  BY <1>1 DEF AnswerInv
<1>2. CASE UNCHANGED vars \/ LockExpires \/ LockOverrun
  BY <1>1, <1>2 DEF vars, LockExpires, LockOverrun
<1>3. ASSUME NEW p \in Polls, PollFault(p) PROVE UNCHANGED <<slots, sent, lapses>>
  BY <1>3 DEF PollFault, FetchFails, MarkFails, ProcessingFails, PollRaises, Crash
<1>4. ASSUME NEW p \in Polls, PollStep(p), ~(Reply(p) \/ Notify(p))
      PROVE UNCHANGED <<slots, sent, lapses>>
  BY <1>4 DEF PollStep, Start, Fetch, NextMail, Judge, Create, Journal, Mark,
              RecordFailure, ReleaseCheck, ReleaseDelete
<1>5. ASSUME NEW p \in Polls, Reply(p) \/ Notify(p) PROVE AnswerInv'
  <2>1. CASE Reply(p)  BY <1>0, <2>1, SendingIsLimited DEF Reply
  <2>2. CASE Notify(p)  BY <1>0, <2>2, SendingIsLimited DEF Notify
  <2> QED  BY <1>5, <2>1, <2>2
<1>6. CASE ChangeMode \/ ChangeActive \/ DatePasses
  BY <1>1, <1>6 DEF ChangeMode, ChangeActive, DatePasses, Change
<1>7. ASSUME NEW t \in Slots, SlotExpires(t) PROVE AnswerInv'
  <2> SUFFICES ASSUME NEW s \in Slots
               PROVE  sent'[s] <= lapses'[s] + (IF s \in slots' THEN 1 ELSE 0)
    BY DEF AnswerInv
  <2>1. /\ sent[s] \in Nat /\ lapses[s] \in Nat
        /\ sent[s] <= lapses[s] + (IF s \in slots THEN 1 ELSE 0)
    BY <1>0 DEF TypeOK, AnswerInv
  <2>2. /\ sent' = sent /\ t \in slots /\ slots' = slots \ {t}
        /\ lapses' = [lapses EXCEPT ![t] = @ + 1] /\ lapses \in [Slots -> Nat]
    BY <1>0, <1>7 DEF SlotExpires, Change, TypeOK
  <2>3. CASE s = t  BY <2>1, <2>2, <2>3
  <2>4. CASE s # t  BY <2>1, <2>2, <2>4
  <2> QED  BY <2>3, <2>4
<1> QED  BY <1>1, <1>2, <1>3, <1>4, <1>5, <1>6, <1>7 DEF Next, Surround

\* However many mails are refused, judged again or judged by two runs at once,
\* a notice or a reply goes out at most once per interval of its slot.
THEOREM AnswersCorrect == Spec => []AnswersLimited
<1>1. BaseInv /\ AnswerInv /\ [Next]_vars => AnswerInv'  BY AnswerStep
<1>2. BaseInv /\ AnswerInv => AnswersLimited
  BY DEF BaseInv, TypeOK, AnswerInv, AnswersLimited
<1> QED  BY <1>1, <1>2, AnswerInit, BaseCorrect, PTL DEF Spec

-----------------------------------------------------------------------------
(* The lock *)

LEMMA LockInit == Init => LockInv
BY DEF Init, LockInv

LEMMA LockStep ==
    ASSUME BaseInv, LockInv, [Next]_vars
    PROVE  LockInv'
<1> USE DEF PollFrame, poll, policy, journal
<1>0. TypeOK  BY DEF BaseInv
<1>1. /\ faults \in Nat /\ faults' \in Nat /\ faults' >= faults
      /\ overran => faults > 0
  BY <1>0, Kept, BaseNext, BoundsAssumption DEF BaseInv, TypeOK, LockInv
<1>2. CASE UNCHANGED vars  BY <1>2 DEF vars, LockInv
<1>3. CASE LockExpires  BY <1>0, <1>3, NoneAssumption DEF LockExpires, LockInv, TypeOK
<1>4. CASE LockOverrun  BY <1>0, <1>4, FaultCounts DEF LockOverrun, LockInv
<1>5. CASE Surround  BY <1>0, <1>5, SurroundAlone DEF LockInv
<1>6. ASSUME NEW p \in Polls, PollStep(p) \/ PollFault(p) PROVE LockInv'
  <2>1. /\ overran' = overran
        /\ \A q \in Polls \ {p} : pc'[q] = pc[q]
    BY <1>0, <1>6, PollAlone
  <2>2. overran' => faults' > 0  BY <1>1, <2>1
  <2>3. SUFFICES ASSUME ~overran
                 PROVE  \A q \in Polls : pc'[q] # "idle" => lock' = q
    BY <2>1, <2>2 DEF LockInv
  <2>4. \A q \in Polls : pc[q] # "idle" => lock = q  BY <2>3 DEF LockInv
  <2>5. CASE Start(p)
    <3>1. \A q \in Polls : pc[q] = "idle"  BY <2>4, <2>5, NoneAssumption DEF Start
    <3>2. lock' = p  BY <2>5 DEF Start
    <3> QED  BY <2>1, <3>1, <3>2
  <2>6. CASE ReleaseDelete(p)
    <3>1. lock = p /\ pc'[p] = "idle"
      BY <1>0, <2>4, <2>6 DEF ReleaseDelete, Leave, Go, TypeOK
    <3> QED  BY <2>1, <2>4, <3>1
  <2>7. CASE ~Start(p) /\ ~ReleaseDelete(p)
    <3>1. lock' = lock /\ pc[p] # "idle"
      <4>1. CASE PollFault(p)
        BY <4>1 DEF PollFault, FetchFails, MarkFails, ProcessingFails, PollRaises, Crash
      <4>2. CASE PollStep(p)
        BY <2>7, <4>2 DEF PollStep, Fetch, NextMail, Judge, Create, Journal, Reply,
                          Notify, Mark, RecordFailure, ReleaseCheck
      <4> QED  BY <1>6, <4>1, <4>2
    <3> QED  BY <2>1, <2>4, <3>1
  <2> QED  BY <2>5, <2>6, <2>7
<1> QED  BY <1>2, <1>3, <1>4, <1>5, <1>6 DEF Next

LEMMA LockCorrect == Spec => []LockInv
<1>1. BaseInv /\ LockInv /\ [Next]_vars => LockInv'  BY LockStep
<1> QED  BY <1>1, LockInit, BaseCorrect, PTL DEF Spec

\* The lock of poll_inbound_mailbox_task keeps two runs apart, crashes and the
\* unconditional cache.delete included, until a run outlives its lock.
THEOREM OverlapCorrect == Spec => []OverlapNeedsOverrun
<1>1. LockInv => OverlapNeedsOverrun  BY DEF LockInv, OverlapNeedsOverrun
<1> QED  BY <1>1, LockCorrect, PTL

-----------------------------------------------------------------------------
(* Every mail that was read is accounted for *)

LEMMA AccountInit == Init => AccountInv
<1> SUFFICES ASSUME Init PROVE AccountInv  OBVIOUS
<1>1. \A p \in Polls : WorkInv(p)  BY DEF Init, WorkInv
<1>2. \A m \in Mails : MailInv(m)  BY DEF Init, MailInv
<1>3. OrderInv  BY DEF Init, OrderInv, Processing
<1>4. ReadIsAccounted  BY DEF Init, ReadIsAccounted
<1> QED  BY <1>1, <1>2, <1>3, <1>4 DEF AccountInv

\* What was found out about a mail stays true.
LEMMA FoundStays ==
    ASSUME BaseInv, [Next]_vars, NEW m \in Mails
    PROVE  /\ IdempotencyKey(m)' = IdempotencyKey(m)
           /\ FingerprintOf(m)' = FingerprintOf(m)
           /\ kind'[m].to = kind[m].to
           /\ Contradicted(m) => Contradicted(m)'
           /\ JudgedSo(m, Refusals) => JudgedSo(m, Refusals)'
           /\ JudgedSo(m, {"ok"}) => JudgedSo(m, {"ok"})'
           /\ errors[m] >= MaxAttempts => errors'[m] >= MaxAttempts
<1>0. /\ TypeOK /\ TypeOK'
      /\ kind' = kind
      /\ changes \in Nat /\ changes' \in Nat /\ changes' >= changes
      /\ changes' = 0 => UNCHANGED <<mode, active, passed>>
  BY Kept, BaseNext, BoundsAssumption DEF BaseInv, TypeOK
<1>1. /\ IdempotencyKey(m)' = IdempotencyKey(m)
      /\ FingerprintOf(m)' = FingerprintOf(m)
  BY <1>0 DEF IdempotencyKey, FingerprintOf
<1>2. Contradicted(m) => Contradicted(m)'
  <2>1. IdempotencyKey(m) \in Key  BY <1>0, KeyType
  <2> QED  BY <1>1, <2>1, Kept DEF Contradicted
<1>3. changes' = 0 => changes = 0 /\ Judgement(kind[m])' = Judgement(kind[m])
  <2>1. changes' = 0 => changes = 0  BY <1>0
  <2>2. ASSUME UNCHANGED <<mode, active, passed>>
        PROVE  Judgement(kind[m])' = Judgement(kind[m])
    BY <1>0, <2>2 DEF Judgement, IsInboundAliasAddress, EvaluateSenderPolicy,
                      SenderAccepted
  <2> QED  BY <1>0, <2>1, <2>2
<1>4. errors[m] >= MaxAttempts => errors'[m] >= MaxAttempts
  <2>1. /\ errors[m] \in Nat /\ errors'[m] \in Nat /\ MaxAttempts \in Nat
        /\ errors'[m] >= errors[m]
    BY <1>0, Kept, SettingsAssumption DEF TypeOK
  <2> QED  BY <2>1
<1> HIDE DEF Judgement
<1>5. /\ JudgedSo(m, Refusals) => JudgedSo(m, Refusals)'
      /\ JudgedSo(m, {"ok"}) => JudgedSo(m, {"ok"})'
  BY <1>3 DEF JudgedSo, Refusals, PolicyRefusals
<1> QED  BY <1>0, <1>1, <1>2, <1>4, <1>5

\* What a run knows stays true as long as it stands still.
LEMMA WorkKept ==
    ASSUME BaseInv, [Next]_vars, NEW q \in Polls, WorkInv(q),
           pc'[q] = pc[q], mail'[q] = mail[q], verdict'[q] = verdict[q]
    PROVE  WorkInv(q)'
<1>1. CASE pc[q] \notin Processing
  BY <1>1 DEF WorkInv, Processing
<1>2. CASE pc[q] \in Processing
  <2>1. mail[q] \in Mails  BY <1>2 DEF BaseInv
  <2>2. logged[mail[q]] \subseteq logged'[mail[q]]  BY <2>1, Kept
  <2> HIDE DEF JudgedSo, Contradicted
  <2> QED  BY <2>1, <2>2, FoundStays DEF WorkInv
<1> QED  BY <1>1, <1>2

LEMMA WorkOwn ==
    ASSUME BaseInv, NEW p \in Polls, WorkInv(p), [Next]_vars,
           PollStep(p) \/ PollFault(p)
    PROVE  WorkInv(p)'
<1> USE DEF Go, Statuses
<1>0. TypeOK /\ \A q \in Polls : pc[q] \in Processing => mail[q] \in Mails
  BY DEF BaseInv
<1>1. kind' = kind /\ changes' = changes /\ UNCHANGED <<mode, active, passed>>
  BY <1>0, PollAlone
<1>2. ASSUME pc'[p] \in {"idle", "fetch", "next", "judge", "fail", "release", "delete"}
      PROVE  WorkInv(p)'
  BY <1>2 DEF WorkInv
<1>3. CASE PollFault(p)
  <2>1. pc'[p] \in {"release", "next", "fail", "idle"}
    BY <1>0, <1>3 DEF PollFault, FetchFails, MarkFails, ProcessingFails, PollRaises,
                      Crash, Continue, Leave, TypeOK
  <2> QED  BY <1>2, <2>1
<1>4. CASE Start(p) \/ Fetch(p) \/ NextMail(p) \/ Mark(p) \/ ReleaseCheck(p)
           \/ ReleaseDelete(p)
  <2>1. pc'[p] \in {"fetch", "next", "release", "judge", "delete", "idle"}
    BY <1>0, <1>4 DEF Start, Fetch, NextMail, Mark, ReleaseCheck, ReleaseDelete,
                      Continue, Leave, TypeOK
  <2> QED  BY <1>2, <2>1
<1>5. CASE Judge(p)
  <2>0. PICK m \in Mails : mail[p] = m  BY <1>0, <1>5 DEF Judge, Processing
  <2>1. /\ mail'[p] = m /\ verdict'[p] = Judgement(kind[m])
        /\ pc'[p] = IF kind[m].raises /\ Judgement(kind[m]) # "ignored" THEN "fail"
                    ELSE CASE Judgement(kind[m]) = "ignored" -> "mark"
                           [] Judgement(kind[m]) = "ok" -> "create"
                           [] Judgement(kind[m]) = "unknown_address" -> "reply"
                           [] OTHER -> "journal"
    BY <1>0, <1>5, <2>0 DEF Judge, TypeOK
  <2>2. /\ Judgement(kind[m]) \in Refusals \cup {"ok"}
        /\ Judgement(kind[m]) = "ignored" <=> kind[m].to = "elsewhere"
    BY <1>0, JudgementType
  <2>3. Judgement(kind[m])' = Judgement(kind[m])
    BY <1>1 DEF Judgement, IsInboundAliasAddress, EvaluateSenderPolicy,
                      SenderAccepted
  <2> HIDE DEF Judgement
  <2>4. /\ Judgement(kind[m]) = "ok" => JudgedSo(m, {"ok"})'
        /\ Judgement(kind[m]) \in Refusals => JudgedSo(m, Refusals)'
    BY <2>3 DEF JudgedSo, Refusals, PolicyRefusals
  <2> HIDE DEF JudgedSo
  <2> QED  BY <1>1, <2>1, <2>2, <2>4 DEF WorkInv, Refusals, PolicyRefusals
<1>6. CASE Create(p)
  <2>0. PICK m \in Mails : mail[p] = m  BY <1>0, <1>6 DEF Create, Processing
  <2>1. /\ mail'[p] = m /\ pc'[p] = "journal"
        /\ verdict'[p] = IF note[IdempotencyKey(m)] = None THEN "created"
                         ELSE IF note[IdempotencyKey(m)] = FingerprintOf(m)
                              THEN "existing" ELSE "conflict"
    BY <1>0, <1>6, <2>0 DEF Create, TypeOK
  <2>2. verdict'[p] = "conflict" => Contradicted(m)'
    BY <2>1, FoundStays DEF Contradicted
  <2> HIDE DEF Contradicted
  <2> QED  BY <2>1, <2>2 DEF WorkInv, Refusals, PolicyRefusals
<1>7. CASE Journal(p) \/ Reply(p) \/ Notify(p)
  <2>0. PICK m \in Mails : mail[p] = m
    BY <1>0, <1>7 DEF Journal, Reply, Notify, Processing
  <2>1. /\ pc[p] \in {"journal", "reply", "notify"}
        /\ mail'[p] = m /\ verdict'[p] = verdict[p]
        /\ pc'[p] \in {"journal", "notify", "mark"}
        /\ pc[p] = "journal" =>
             (IF verdict[p] \in Statuses THEN verdict[p] ELSE "rejected") \in logged'[m]
        /\ pc[p] = "reply" => pc'[p] = "journal"
    BY <1>0, <1>7, <2>0 DEF Journal, Reply, Notify, TypeOK
  <2>2. logged[m] \subseteq logged'[m]  BY Kept
  <2> HIDE DEF JudgedSo, Contradicted
  <2>3. /\ verdict[p] \in Refusals \cup {"created", "existing", "conflict"}
        /\ verdict[p] = "ignored" => kind[m].to = "elsewhere"
        /\ verdict[p] \in Refusals => JudgedSo(m, Refusals)
        /\ verdict[p] = "conflict" => Contradicted(m)
        /\ pc[p] = "notify" /\ verdict[p] # "ignored" =>
             (IF verdict[p] \in Statuses THEN verdict[p] ELSE "rejected") \in logged[m]
    BY <2>0, <2>1 DEF WorkInv
  <2> QED  BY <2>1, <2>2, <2>3, FoundStays DEF WorkInv
<1>8. CASE RecordFailure(p)
  <2>0. PICK m \in Mails : mail[p] = m  BY <1>0, <1>8 DEF RecordFailure, Processing
  <2>1. \/ pc'[p] = "next"
        \/ pc'[p] = "give_up" /\ mail'[p] = m /\ ~(errors'[m] < MaxAttempts)
    BY <1>0, <1>8, <2>0 DEF RecordFailure, Continue, TypeOK
  <2>2. errors'[m] \in Nat /\ MaxAttempts \in Nat
    BY BaseNext, SettingsAssumption DEF BaseInv, TypeOK
  <2> QED  BY <1>2, <2>1, <2>2 DEF WorkInv
<1> QED  BY <1>3, <1>4, <1>5, <1>6, <1>7, <1>8 DEF PollStep

LEMMA WorkStep ==
    ASSUME BaseInv, \A p \in Polls : WorkInv(p), [Next]_vars
    PROVE  \A p \in Polls : WorkInv(p)'
<1>0. TypeOK  BY DEF BaseInv
<1>1. CASE UNCHANGED <<pc, mail, verdict>>  BY <1>1, WorkKept
<1>2. CASE UNCHANGED vars \/ LockExpires \/ LockOverrun \/ Surround
  BY <1>0, <1>1, <1>2, SurroundAlone DEF vars, LockExpires, LockOverrun, poll
<1>3. ASSUME NEW p \in Polls, PollStep(p) \/ PollFault(p)
      PROVE  \A q \in Polls : WorkInv(q)'
  <2>1. WorkInv(p)'  BY <1>3, WorkOwn
  <2>2. ASSUME NEW q \in Polls \ {p} PROVE WorkInv(q)'
    BY <1>0, <1>3, <2>2, PollAlone, WorkKept
  <2> QED  BY <2>1, <2>2
<1> QED  BY <1>2, <1>3 DEF Next

\* Only record_inbound_email_ingestion writes the entries other than errors.
LEMMA LoggedByJournal ==
    ASSUME BaseInv, [Next]_vars
    PROVE  UNCHANGED logged \/ \E p \in Polls : Journal(p)
<1> USE DEF PollFrame, poll, policy, journal
<1>1. CASE UNCHANGED vars \/ LockExpires \/ LockOverrun
  BY <1>1 DEF vars, LockExpires, LockOverrun
<1>2. CASE Surround  BY <1>2, SurroundAlone DEF BaseInv
<1>3. ASSUME NEW p \in Polls, PollFault(p) PROVE UNCHANGED logged
  BY <1>3 DEF PollFault, FetchFails, MarkFails, ProcessingFails, PollRaises, Crash
<1>4. ASSUME NEW p \in Polls, PollStep(p), ~Journal(p) PROVE UNCHANGED logged
  BY <1>4 DEF PollStep, Start, Fetch, NextMail, Judge, Create, Reply, Notify, Mark,
              RecordFailure, ReleaseCheck, ReleaseDelete
<1> QED  BY <1>1, <1>2, <1>3, <1>4 DEF Next

LEMMA MailStep ==
    ASSUME BaseInv, \A p \in Polls : WorkInv(p), [Next]_vars,
           NEW m \in Mails, MailInv(m)
    PROVE  MailInv(m)'
<1> HIDE DEF JudgedSo, Contradicted
<1>0. TypeOK  BY DEF BaseInv
<1>1. born'[m] > 0 => kind[m].to # "elsewhere" /\ JudgedSo(m, {"ok"})
  <2>1. CASE born'[m] = born[m]  BY <2>1 DEF MailInv
  <2>2. CASE born'[m] # born[m]
    <3>1. PICK p \in Polls : Create(p) /\ note[IdempotencyKey(mail[p])] = None
      BY <2>2, BornByCreate
    <3>2. mail[p] = m  BY <1>0, <2>2, <3>1, CreateMakes DEF TypeOK
    <3>3. pc[p] = "create"  BY <3>1 DEF Create
    <3> QED  BY <3>2, <3>3 DEF WorkInv
  <2> QED  BY <2>1, <2>2
<1>2. /\ "rejected" \in logged'[m] => JudgedSo(m, Refusals)
      /\ "conflict" \in logged'[m] => Contradicted(m)
  <2>1. CASE logged'[m] = logged[m]  BY <2>1 DEF MailInv
  <2>2. CASE logged'[m] # logged[m]
    <3>1. PICK p \in Polls : Journal(p)  BY <2>2, LoggedByJournal
    <3>2. /\ pc[p] = "journal" /\ mail[p] = m
          /\ logged'[m] = logged[m] \cup
               {IF verdict[p] \in Statuses THEN verdict[p] ELSE "rejected"}
      BY <1>0, <2>2, <3>1 DEF Journal, TypeOK
    <3>3. /\ verdict[p] \in Refusals \cup {"created", "existing", "conflict"}
          /\ verdict[p] \in Refusals => JudgedSo(m, Refusals)
          /\ verdict[p] = "conflict" => Contradicted(m)
      BY <3>2 DEF WorkInv
    <3> QED  BY <3>2, <3>3 DEF MailInv, Statuses, Refusals, PolicyRefusals
  <2> QED  BY <2>1, <2>2
<1> QED  BY <1>1, <1>2, FoundStays DEF MailInv

\* Before the first fault there is one run at most.
LEMMA OneRun ==
    ASSUME LockInv, faults = 0, NEW p \in Polls, NEW q \in Polls,
           pc[p] # "idle", pc[q] # "idle"
    PROVE  p = q
BY DEF LockInv

\* A run's step before the first fault: its mails stay unread until it marks
\* them, and it goes from creating straight to the journal.
LEMMA OrderPoll ==
    ASSUME BaseInv, LockInv, OrderInv, faults = 0, [Next]_vars,
           NEW p \in Polls, PollStep(p)
    PROVE  OrderInv'
<1> USE DEF PollFrame, poll, policy, journal, Go
<1>0. TypeOK  BY DEF BaseInv
<1>1. /\ pc[p] \notin {"idle", "fetch"} => batch[p] \subseteq unread
      /\ pc[p] \in Processing => mail[p] \in unread \ batch[p]
      /\ \A m \in Mails :
           born[m] > 0 /\ logged[m] \cap {"created", "existing"} = {} =>
               \E q \in Polls : /\ pc[q] = "journal"
                                /\ mail[q] = m
                                /\ verdict[q] = "created"
  BY DEF OrderInv
<1>2. \A q \in Polls \ {p} : pc'[q] = "idle"
  <2>1. CASE Start(p)
    <3>1. \A q \in Polls : pc[q] = "idle"
      BY <2>1, NoneAssumption DEF Start, LockInv
    <3> QED  BY <1>0, <3>1, PollAlone
  <2>2. CASE ~Start(p)
    <3>1. pc[p] # "idle"
      BY <2>2 DEF PollStep, Fetch, NextMail, Judge, Create, Journal, Reply, Notify,
                  Mark, RecordFailure, ReleaseCheck, ReleaseDelete
    <3>2. \A q \in Polls \ {p} : pc[q] = "idle"  BY <3>1, OneRun
    <3> QED  BY <1>0, <3>2, PollAlone
  <2> QED  BY <2>1, <2>2
<1>3. /\ pc'[p] \notin {"idle", "fetch"} => batch'[p] \subseteq unread'
      /\ pc'[p] \in Processing => mail'[p] \in unread' \ batch'[p]
  <2> USE DEF Processing
  <2>1. CASE Start(p)  BY <1>0, <2>1 DEF Start, TypeOK
  <2>2. CASE Fetch(p)  BY <1>0, <2>2 DEF Fetch, TypeOK
  <2>3. CASE NextMail(p)
    <3>1. pc[p] = "next" /\ unread' = unread /\ batch[p] \subseteq unread
      BY <1>1, <2>3 DEF NextMail
    <3>2. CASE batch[p] = {}  BY <1>0, <2>3, <3>1, <3>2 DEF NextMail, TypeOK
    <3>3. CASE batch[p] # {}
      <4>1. PICK m \in batch[p] : /\ mail' = [mail EXCEPT ![p] = m]
                                  /\ batch' = [batch EXCEPT ![p] = @ \ {m}]
        BY <2>3, <3>3 DEF NextMail
      <4>2. mail'[p] = m /\ batch'[p] = batch[p] \ {m}  BY <1>0, <4>1 DEF TypeOK
      <4> QED  BY <3>1, <4>2
    <3> QED  BY <3>2, <3>3
  <2>4. CASE Judge(p) \/ Create(p) \/ Journal(p) \/ Reply(p) \/ Notify(p)
    <3>1. UNCHANGED <<unread, batch, mail>>
          /\ pc[p] \in {"judge", "create", "journal", "reply", "notify"}
      BY <2>4 DEF Judge, Create, Journal, Reply, Notify
    <3> QED  BY <1>1, <3>1
  <2>5. CASE Mark(p)
    <3>1. /\ pc[p] \in {"mark", "give_up"} /\ pc'[p] = "next"
          /\ unread' = unread \ {mail[p]} /\ batch' = batch
      BY <1>0, <2>5 DEF Mark, Continue, TypeOK
    <3> QED  BY <1>1, <3>1
  <2>6. CASE RecordFailure(p)
    <3>1. /\ pc[p] = "fail" /\ UNCHANGED <<unread, batch>>
          /\ pc'[p] = "next" \/ (pc'[p] = "give_up" /\ mail' = mail)
      BY <1>0, <2>6 DEF RecordFailure, Continue, TypeOK
    <3> QED  BY <1>1, <3>1
  <2>7. CASE ReleaseCheck(p) \/ ReleaseDelete(p)
    <3>1. /\ pc[p] \in {"release", "delete"} /\ unread' = unread
          /\ pc'[p] = "idle" \/ (pc'[p] = "delete" /\ batch' = batch)
      BY <1>0, <2>7 DEF ReleaseCheck, ReleaseDelete, Leave, TypeOK
    <3> QED  BY <1>1, <3>1
  <2> QED  BY <2>1, <2>2, <2>3, <2>4, <2>5, <2>6, <2>7 DEF PollStep
<1>4. ASSUME NEW m \in Mails, born'[m] > 0, logged'[m] \cap {"created", "existing"} = {}
      PROVE  \E q \in Polls : /\ pc'[q] = "journal"
                              /\ mail'[q] = m
                              /\ verdict'[q] = "created"
  <2>0. logged[m] \subseteq logged'[m]  BY Kept
  <2>1. CASE born'[m] = born[m]
    <3>1. PICK q \in Polls : /\ pc[q] = "journal"
                             /\ mail[q] = m
                             /\ verdict[q] = "created"
      BY <1>1, <1>4, <2>0, <2>1
    <3>2. pc[p] = "idle" \/ p = q  BY <3>1, OneRun
    <3>3. Journal(p) \/ Start(p)
      BY <3>1, <3>2 DEF PollStep, Start, Fetch, NextMail, Judge, Create, Journal, Reply,
                        Notify, Mark, RecordFailure, ReleaseCheck, ReleaseDelete
    <3>4. CASE Journal(p)
      <4>1. p = q /\ "created" \in logged'[m]
        BY <1>0, <1>4, <3>1, <3>2, <3>4 DEF Journal, Statuses, TypeOK
      <4> QED  BY <1>4, <4>1
    <3>5. CASE Start(p)
      <4>1. pc[q] = "idle"  BY <3>5, NoneAssumption DEF Start, LockInv
      <4> QED  BY <3>1, <4>1
    <3> QED  BY <3>3, <3>4, <3>5
  <2>2. CASE born'[m] # born[m]
    <3>1. PICK q \in Polls : Create(q) /\ note[IdempotencyKey(mail[q])] = None
      BY <2>2, BornByCreate
    <3>2. mail[q] = m  BY <1>0, <2>2, <3>1, CreateMakes DEF TypeOK
    <3> QED  BY <3>1, <3>2, CreateMakes
  <2> QED  BY <2>1, <2>2
<1>5. ASSUME NEW q \in Polls
      PROVE  /\ pc'[q] \notin {"idle", "fetch"} => batch'[q] \subseteq unread'
             /\ pc'[q] \in Processing => mail'[q] \in unread' \ batch'[q]
  <2>1. CASE q = p  BY <1>3, <2>1
  <2>2. CASE q # p  BY <1>2, <2>2 DEF Processing
  <2> QED  BY <2>1, <2>2
<1> QED  BY <1>4, <1>5 DEF OrderInv

LEMMA OrderStep ==
    ASSUME BaseInv, LockInv, OrderInv, [Next]_vars
    PROVE  OrderInv'
<1> SUFFICES ASSUME faults' = 0 PROVE OrderInv'  BY DEF OrderInv
<1>0. TypeOK /\ faults \in Nat  BY DEF BaseInv, TypeOK
<1>1. faults = 0  BY <1>0, Kept
<1>2. ASSUME UNCHANGED <<unread, pc, batch, mail, verdict, born, logged>>
      PROVE  OrderInv'
  BY <1>1, <1>2 DEF OrderInv
<1>3. CASE UNCHANGED vars \/ LockExpires \/ LockOverrun
  BY <1>2, <1>3 DEF vars, LockExpires, LockOverrun, poll, journal
<1>4. CASE Surround  BY <1>0, <1>2, <1>4, SurroundAlone
<1>5. ASSUME NEW p \in Polls, PollFault(p) PROVE FALSE
  BY <1>0, <1>5, FaultCounts
     DEF PollFault, FetchFails, MarkFails, ProcessingFails, PollRaises, Crash
<1>6. ASSUME NEW p \in Polls, PollStep(p) PROVE OrderInv'
  BY <1>1, <1>6, OrderPoll
<1> QED  BY <1>3, <1>4, <1>5, <1>6 DEF Next

\* Only mark_email_read takes a mail out of the unread ones.
LEMMA ReadByMark ==
    ASSUME BaseInv, [Next]_vars
    PROVE  UNCHANGED unread \/ \E p \in Polls : Mark(p)
<1> USE DEF PollFrame, poll, policy, journal
<1>1. CASE UNCHANGED vars \/ LockExpires \/ LockOverrun
  BY <1>1 DEF vars, LockExpires, LockOverrun
<1>2. CASE Surround  BY <1>2, SurroundAlone DEF BaseInv
<1>3. ASSUME NEW p \in Polls, PollFault(p) PROVE UNCHANGED unread
  BY <1>3 DEF PollFault, FetchFails, MarkFails, ProcessingFails, PollRaises, Crash
<1>4. ASSUME NEW p \in Polls, PollStep(p), ~Mark(p) PROVE UNCHANGED unread
  BY <1>4 DEF PollStep, Start, Fetch, NextMail, Judge, Create, Journal, Reply, Notify,
              RecordFailure, ReleaseCheck, ReleaseDelete
<1> QED  BY <1>1, <1>2, <1>3, <1>4 DEF Next

\* A judgement that let a mail pass is no refusal.
LEMMA JudgedOnce ==
    ASSUME NEW m \in Mails, JudgedSo(m, {"ok"}), JudgedSo(m, Refusals)
    PROVE  changes # 0
<1> HIDE DEF Judgement
<1> QED  BY DEF JudgedSo, Refusals, PolicyRefusals

\* The two halves of ReadIsAccounted for one mail.
Explained(m) ==
    \/ kind[m].to = "elsewhere"
    \/ logged[m] # {}
    \/ errors[m] >= MaxAttempts

Unjournalled(m) == born[m] = 1 /\ logged[m] \cap {"created", "existing"} = {}

Excused(m) == faults > 0 /\ (changes > 0 \/ errors[m] >= MaxAttempts)

\* The mail that is marked now.
LEMMA MarkAccounts ==
    ASSUME BaseInv, NoteInv, LockInv, AccountInv, NEW p \in Polls, Mark(p)
    PROVE  /\ mail[p] \in Mails
           /\ Explained(mail[p])
           /\ Unjournalled(mail[p]) => Excused(mail[p])
<1>0. /\ mail[p] \in Mails /\ pc[p] \in {"mark", "give_up"}
      /\ faults \in Nat /\ changes \in Nat
  BY BoundsAssumption DEF BaseInv, TypeOK, Mark, Processing
<1>1. PICK m \in Mails : mail[p] = m  BY <1>0
<1>2. WorkInv(p) /\ MailInv(m) /\ OrderInv  BY DEF AccountInv
<1> HIDE DEF JudgedSo, Contradicted
<1>3. Explained(m)
  BY <1>0, <1>1, <1>2 DEF WorkInv, Explained
<1>4. ASSUME Unjournalled(m) PROVE Excused(m)
  <2>1. born[m] > 0  BY <1>4 DEF Unjournalled
  <2>2. faults # 0
    <3> SUFFICES ASSUME faults = 0 PROVE FALSE  OBVIOUS
    <3>1. PICK q \in Polls : pc[q] = "journal"
      BY <1>2, <1>4, <2>1 DEF OrderInv, Unjournalled
    <3>2. p = q  BY <1>0, <3>1, OneRun
    <3> QED  BY <1>0, <3>1, <3>2
  <2>3. CASE pc[p] = "give_up"
    BY <1>0, <1>1, <1>2, <2>2, <2>3 DEF WorkInv, Excused
  <2>4. CASE pc[p] = "mark"
    <3>1. /\ verdict[p] \in Refusals \cup {"created", "existing", "conflict"}
          /\ verdict[p] \in Refusals => JudgedSo(m, Refusals)
          /\ verdict[p] = "conflict" => Contradicted(m)
          /\ verdict[p] \in {"created", "existing"} => verdict[p] \in logged[m]
      BY <1>1, <1>2, <2>4 DEF WorkInv, Statuses
    <3>2. verdict[p] # "conflict"
      BY <2>1, <3>1 DEF NoteInv, Contradicted
    <3>3. JudgedSo(m, {"ok"}) /\ JudgedSo(m, Refusals)
      BY <1>2, <1>4, <2>1, <3>1, <3>2 DEF MailInv, Unjournalled
    <3> QED  BY <1>0, <2>2, <3>3, JudgedOnce DEF Excused
  <2> QED  BY <1>0, <2>3, <2>4
<1> QED  BY <1>1, <1>3, <1>4

\* A mail that was read already yields its notification to a run that has been
\* overtaken: then too a fault and a change, or the errors, came before.
LEMMA LateCreation ==
    ASSUME BaseInv, AccountInv, NEW p \in Polls, Create(p),
           note[IdempotencyKey(mail[p])] = None, mail[p] \notin unread,
           logged[mail[p]] \cap {"created", "existing"} = {}
    PROVE  Excused(mail[p])
<1>0. /\ mail[p] \in Mails /\ pc[p] = "create"
      /\ faults \in Nat /\ changes \in Nat /\ logged[mail[p]] \subseteq Statuses
  BY BoundsAssumption DEF BaseInv, TypeOK, Create, Processing
<1>1. PICK m \in Mails : mail[p] = m  BY <1>0
<1>2. WorkInv(p) /\ MailInv(m) /\ OrderInv /\ ReadIsAccounted  BY DEF AccountInv
<1> HIDE DEF JudgedSo
<1>3. faults # 0  BY <1>0, <1>2 DEF OrderInv, Processing
<1>4. kind[m].to # "elsewhere" /\ JudgedSo(m, {"ok"})
  BY <1>0, <1>1, <1>2 DEF WorkInv
<1>5. logged[m] # {} \/ errors[m] >= MaxAttempts
  BY <1>1, <1>2, <1>4 DEF ReadIsAccounted
<1>6. CASE errors[m] >= MaxAttempts  BY <1>0, <1>1, <1>3, <1>6 DEF Excused
<1>7. CASE logged[m] # {}
  <2>1. "rejected" \in logged[m] \/ "conflict" \in logged[m]
    BY <1>0, <1>1, <1>7 DEF Statuses
  <2>2. JudgedSo(m, Refusals)
    BY <1>1, <1>2, <2>1 DEF MailInv, Contradicted
  <2> QED  BY <1>0, <1>1, <1>3, <1>4, <2>2, JudgedOnce DEF Excused
<1> QED  BY <1>5, <1>6, <1>7

LEMMA AccountStep ==
    ASSUME BaseInv, NoteInv, LockInv, AccountInv, [Next]_vars
    PROVE  AccountInv'
<1>0. TypeOK /\ TypeOK'  BY BaseNext DEF BaseInv
<1>1. \A p \in Polls : WorkInv(p)'  BY WorkStep DEF AccountInv
<1>2. \A m \in Mails : MailInv(m)'  BY MailStep DEF AccountInv
<1>3. OrderInv'  BY OrderStep DEF AccountInv
<1>4. ASSUME NEW m \in Mails, m \notin unread'
      PROVE  Explained(m)' /\ (Unjournalled(m)' => Excused(m)')
  <2>0. /\ logged[m] \subseteq logged'[m] /\ born[m] \in Nat
        /\ faults \in Nat /\ faults' \in Nat /\ faults' >= faults
        /\ changes \in Nat /\ changes' \in Nat /\ changes' >= changes
        /\ errors[m] >= MaxAttempts => errors'[m] >= MaxAttempts
        /\ kind' = kind
    BY <1>0, Kept, FoundStays, BoundsAssumption DEF TypeOK
  <2>1. Excused(m) => Excused(m)'  BY <2>0 DEF Excused
  <2>2. Explained(m) => Explained(m)'  BY <2>0 DEF Explained
  <2>3. CASE m \in unread
    <3>1. PICK p \in Polls : Mark(p)  BY <1>4, <2>3, ReadByMark
    <3>2. mail[p] = m /\ UNCHANGED <<born, logged>>
      BY <1>4, <2>3, <3>1 DEF Mark, journal
    <3>3. Explained(m) /\ (Unjournalled(m) => Excused(m))
      BY <3>1, <3>2, MarkAccounts
    <3> QED  BY <2>1, <2>2, <3>2, <3>3 DEF Unjournalled
  <2>4. CASE m \notin unread
    <3>1. Explained(m) /\ (Unjournalled(m) => Excused(m))
      BY <2>4 DEF AccountInv, ReadIsAccounted, Explained, Unjournalled, Excused
    <3>2. CASE born'[m] = born[m]
      <4>1. Unjournalled(m)' => Unjournalled(m)  BY <2>0, <3>2 DEF Unjournalled
      <4> QED  BY <2>1, <2>2, <3>1, <4>1
    <3>3. ASSUME born'[m] # born[m], Unjournalled(m)' PROVE Excused(m)
      <4>1. PICK p \in Polls : Create(p) /\ note[IdempotencyKey(mail[p])] = None
        BY <3>3, BornByCreate
      <4>2. mail[p] = m  BY <1>0, <3>3, <4>1, CreateMakes DEF TypeOK
      <4>3. logged[m] \cap {"created", "existing"} = {}
        BY <2>0, <3>3 DEF Unjournalled
      <4> QED  BY <2>4, <4>1, <4>2, <4>3, LateCreation
    <3> QED  BY <2>1, <2>2, <3>1, <3>2, <3>3
  <2> QED  BY <2>3, <2>4
<1>5. ReadIsAccounted'
  BY <1>4 DEF ReadIsAccounted, Explained, Unjournalled, Excused
<1> QED  BY <1>1, <1>2, <1>3, <1>5 DEF AccountInv

\* No mail that _process_email marked read disappears, whatever fails or
\* overlaps: it was none of PushIT's, or its journal tells what became of it, or
\* it failed too often; and its notification is in the journal unless a fault
\* and a changed judgement, or the errors, came in between.
THEOREM AccountsCorrect == Spec => []ReadIsAccounted
<1>1. BaseInv /\ NoteInv /\ [Next]_vars => NoteInv'  BY NoteStep
<1>2. BaseInv /\ NoteInv /\ LockInv /\ AccountInv /\ [Next]_vars => AccountInv'
  BY AccountStep
<1>3. AccountInv => ReadIsAccounted  BY DEF AccountInv
<1> QED  BY <1>1, <1>2, <1>3, NoteInit, AccountInit, BaseCorrect, LockCorrect, PTL
            DEF Spec
=============================================================================
