----------------------- MODULE NotificationSendProofs -----------------------
(***************************************************************************)
(* Theorems about NotificationSend, for every set of devices, workers and  *)
(* requests and every value of the limits.                                 *)
(***************************************************************************)
EXTENDS NotificationSend, FiniteSetTheorems, TLAPS

-----------------------------------------------------------------------------
(* Types *)

\* A date stays a date, and a count of minutes a count, as time passes.
LEMMA SoonerType ==
    /\ \A t \in Timer : Sooner(t) \in Timer
    /\ \A t \in Nat : Sooner(t) \in Nat
BY NoneAssumption DEF Sooner, Timer

LEMMA OlderType == \A t \in Timer : Older(t) \in Timer
BY NoneAssumption, MinutesAssumption DEF Older, Timer

LEMMA NewRowType == NewRow \in Row
BY DEF NewRow, Row, RowStatus, Timer

\* What a pass writes into a delivery row is typed.
LEMMA RowType ==
    ASSUME NEW f \in [Devices -> Row], NEW d \in Devices
    PROVE  /\ \A s \in RowStatus, t \in Timer :
                [f EXCEPT ![d].status = s, ![d].retry = t] \in [Devices -> Row]
           /\ \A n \in Nat : [f EXCEPT ![d].attempts = n] \in [Devices -> Row]
<1>1. ASSUME NEW s \in RowStatus, NEW t \in Timer
      PROVE  [f EXCEPT ![d].status = s, ![d].retry = t] \in [Devices -> Row]
  BY DEF Row
<1>2. ASSUME NEW n \in Nat
      PROVE  [f EXCEPT ![d].attempts = n] \in [Devices -> Row]
  BY DEF Row
<1> QED  BY <1>1, <1>2

LEMMA TallyType ==
    ASSUME TypeOK, NEW w \in Workers, NEW d \in Devices,
           NEW c \in {"good", "bad", "later"}, NextDelivery(w, d, c)
    PROVE  /\ tally' \in [Workers -> Tally]
           /\ todo' \in [Workers -> SUBSET Devices]
BY DEF TypeOK, NextDelivery, Tally

LEMMA TypeInit == Init => TypeOK
<1> SUFFICES ASSUME Init PROVE TypeOK  OBVIOUS
<1>1. /\ row \in [Devices -> Row]
      /\ snap \in [Workers -> [Devices -> Row]]
  BY NewRowType DEF Init
<1>2. /\ tally \in [Workers -> Tally]
      /\ beat \in [Beats -> {"idle", "publish"}]
  BY DEF Init, Tally, NoTally
<1>3. /\ status \in Status
      /\ started \in Timer /\ sched \in Timer /\ edit \in Timer
  BY MinutesAssumption DEF Init, Status, Timer
<1>4. /\ copy \in [Requests -> Status]
      /\ rpc \in [Requests -> RequestPC]
      /\ pc \in [Workers -> WorkerPC]
  BY DEF Init, Status, RequestPC, WorkerPC
<1> QED  BY <1>1, <1>2, <1>3, <1>4, BoundAssumption DEF Init, TypeOK

LEMMA LeaveType ==
    ASSUME TypeOK, NEW w \in Workers, Leave(w)
    PROVE  /\ pc' \in [Workers -> WorkerPC]
           /\ todo' \in [Workers -> SUBSET Devices]
           /\ snap' \in [Workers -> [Devices -> Row]]
           /\ eligible' \in [Workers -> SUBSET Devices]
           /\ tally' \in [Workers -> Tally]
BY NewRowType DEF TypeOK, Leave, WorkerPC, Tally, NoTally

\* The steps outside the loop over the deliveries.
LEMMA TypePass ==
    ASSUME TypeOK, NEW w \in Workers,
           \/ TakeTask(w) \/ Acquire(w) \/ AcquireNothing(w) \/ LapsedStart(w)
           \/ LapsedFinish(w) \/ DeferToQuietPeriodEnd(w) \/ NoTarget(w)
           \/ LoadDeliveries(w) \/ Finish(w) \/ Crash(w)
    PROVE  TypeOK'
<1> USE DEF TypeOK, PassFrame, EndPass, notification, deliveries,
            working, api, surroundings, history
<1>1. CASE TakeTask(w)  BY <1>1 DEF TakeTask, WorkerPC
<1>2. CASE Acquire(w)  BY <1>2 DEF Acquire, WorkerPC, Status, Timer
<1>3. CASE AcquireNothing(w)  BY <1>3, LeaveType DEF AcquireNothing
<1>4. CASE LapsedStart(w)  BY <1>4 DEF LapsedStart, WorkerPC
<1>5. CASE LapsedFinish(w)
  BY <1>5, LeaveType DEF LapsedFinish, Status, Timer
<1>6. CASE DeferToQuietPeriodEnd(w)
  BY <1>6, LeaveType DEF DeferToQuietPeriodEnd, Status, Timer
<1>7. CASE NoTarget(w)  BY <1>7, LeaveType DEF NoTarget, Status, Timer
<1>8. CASE LoadDeliveries(w)
  BY <1>8 DEF LoadDeliveries, TargetDevices, EligibleDevices, WorkerPC
<1>9. CASE Finish(w)
  BY <1>9, LeaveType DEF Finish, FinalStatus, Status, Timer
<1>10. CASE Crash(w)  BY <1>10, LeaveType, BoundAssumption DEF Crash, Mishap
<1> QED  BY <1>1, <1>2, <1>3, <1>4, <1>5, <1>6, <1>7, <1>8, <1>9, <1>10

\* The steps of the loop, and the cancellation of lapsed deliveries.
LEMMA TypeVisit ==
    ASSUME TypeOK, NEW w \in Workers, NEW d \in Devices,
           VisitDelivery(w, d) \/ LapsedCancel(w, d)
    PROVE  TypeOK'
<1> USE DEF TypeOK, PassFrame, LoopFrame, notification, deliveries, working,
            api, surroundings, history
<1>1. CASE SkipSent(w, d)  BY <1>1, TallyType DEF SkipSent
<1>2. CASE CancelIneligible(w, d)
  <2>1. row' \in [Devices -> Row]
    BY <1>2, RowType
       DEF CancelIneligible, CancelDelivery, RowStatus, Timer
  <2> QED  BY <1>2, <2>1, TallyType DEF CancelIneligible
<1>3. CASE WaitForRetry(w, d)  BY <1>3, TallyType DEF WaitForRetry
<1>4. CASE DeferDelivery(w, d)
  <2>1. row' \in [Devices -> Row]
    BY <1>4, RowType DEF DeferDelivery, RowStatus, Timer
  <2> QED  BY <1>4, <2>1, TallyType DEF DeferDelivery
<1>5. CASE AttemptsExhausted(w, d)  BY <1>5, TallyType DEF AttemptsExhausted
<1>6. CASE Push(w, d)
  <2>1. pc' \in [Workers -> WorkerPC]
    BY <1>6 DEF Push, WorkerPC
  <2>2. accepted' \in [Devices -> Nat]
    <3>1. \/ accepted' = [accepted EXCEPT ![d] = @ + 1]
          \/ UNCHANGED accepted
      BY <1>6 DEF Push
    <3> QED  BY <3>1
  <2> QED  BY <1>6, <2>1, <2>2 DEF Push
<1>7. CASE MarkSent(w, d)
  <2>1. row' \in [Devices -> Row]
    BY <1>7, RowType DEF MarkSent, RowStatus, Timer
  <2> QED  BY <1>7, <2>1, TallyType DEF MarkSent, WorkerPC
<1>8. CASE InvalidateToken(w, d)  BY <1>8 DEF InvalidateToken, WorkerPC
<1>9. CASE CountAttempt(w, d)
  <2>1. row[d].attempts + 1 \in Nat
    BY DEF Row
  <2>2. row' \in [Devices -> Row]
    BY <1>9, <2>1, RowType DEF CountAttempt
  <2> QED  BY <1>9, <2>2 DEF CountAttempt, WorkerPC
<1>12. CASE RefreshAttempts(w, d)
  <2>1. row[d].attempts \in Nat
    BY DEF Row
  <2>2. [snap[w] EXCEPT ![d].attempts = row[d].attempts] \in [Devices -> Row]
    BY <2>1, RowType
  <2>3. snap' = [snap EXCEPT ![w] =
                   [snap[w] EXCEPT ![d].attempts = row[d].attempts]]
    BY <1>12 DEF RefreshAttempts
  <2>4. snap' \in [Workers -> [Devices -> Row]]
    BY <2>2, <2>3
  <2> QED  BY <1>12, <2>4 DEF RefreshAttempts, WorkerPC
<1>10. CASE SaveFailure(w, d)
  <2>1. row' \in [Devices -> Row]
    <3>1. snap[w][d].attempts \in Nat
      BY DEF Row
    <3>2. CASE snap[w][d].attempts >= MaxAttempts
      BY <1>10, <3>2, RowType DEF SaveFailure, RowStatus, Timer
    <3>3. CASE ~(snap[w][d].attempts >= MaxAttempts)
      <4>1. ComputeNextRetry(snap[w][d].attempts) \in Timer
        BY AttemptsAssumption DEF ComputeNextRetry, Timer
      <4> QED  BY <1>10, <3>3, <4>1, RowType DEF SaveFailure, RowStatus
    <3> QED  BY <3>2, <3>3
  <2> QED  BY <1>10, <2>1, TallyType DEF SaveFailure, WorkerPC
<1>13. CASE PushAnswerLost(w, d)
  BY <1>13, BoundAssumption DEF PushAnswerLost, Mishap, ErrorFrame, WorkerPC
<1>14. CASE MarkSentFails(w, d)
  BY <1>14, BoundAssumption DEF MarkSentFails, Mishap, ErrorFrame, WorkerPC
<1>15. CASE ResetFails(w, d)
  <2>1. row' \in [Devices -> Row]
    BY <1>15, RowType DEF ResetFails, RowStatus, Timer
  <2> QED
    BY <1>15, <2>1, BoundAssumption DEF ResetFails, Mishap, ErrorFrame, WorkerPC
<1>11. CASE LapsedCancel(w, d)
  <2>1. row' \in [Devices -> Row]
    BY <1>11, RowType DEF LapsedCancel, CancelDelivery, RowStatus, Timer
  <2> QED  BY <1>11, <2>1 DEF LapsedCancel
<1> QED
  BY <1>1, <1>2, <1>3, <1>4, <1>5, <1>6, <1>7, <1>8, <1>9, <1>10, <1>11,
     <1>12, <1>13, <1>14, <1>15
     DEF VisitDelivery

\* The beat tasks.
LEMMA TypeBeat ==
    ASSUME TypeOK,
           \/ BeatStep
           \/ \E b \in Beats : Publish(b) \/ PublishFails(b)
    PROVE  TypeOK'
<1> USE DEF TypeOK, BeatFrame, notification, deliveries, working, api,
            surroundings, history
<1>1. CASE RetrySweep  BY <1>1 DEF RetrySweep
<1>2. CASE DispatchScheduled  BY <1>2 DEF DispatchScheduled, Status
<1>3. CASE RequeueStuck  BY <1>3 DEF RequeueStuck, Status, Timer
<1>4. ASSUME NEW b \in Beats, Publish(b) PROVE TypeOK'
  BY <1>4 DEF Publish
<1>5. ASSUME NEW b \in Beats, PublishFails(b) PROVE TypeOK'
  BY <1>5, BoundAssumption DEF PublishFails
<1> QED  BY <1>1, <1>2, <1>3, <1>4, <1>5 DEF BeatStep

\* The requests to send.
LEMMA TypeRequest ==
    ASSUME TypeOK, NEW r \in Requests,
           Fetch(r) \/ RequestStep(r) \/ QueueDelayFails(r)
    PROVE  TypeOK'
<1> USE DEF TypeOK, RequestFrame, notification, deliveries, working, api,
            surroundings, history
<1>1. CASE Fetch(r)  BY <1>1 DEF Fetch, RequestPC
<1>2. CASE EndFetch(r)  BY <1>2 DEF EndFetch, RequestPC
<1>3. CASE QueueUpdate(r)
  <2>1. status' \in Status /\ rpc' \in [Requests -> RequestPC]
    BY <1>3 DEF QueueUpdate, RequestPC, Status
  <2> QED  BY <1>3, <2>1 DEF QueueUpdate
<1>4. CASE QueueDelay(r)  BY <1>4 DEF QueueDelay, RequestPC
<1>5. CASE QueueDelayFails(r)
  BY <1>5, BoundAssumption DEF QueueDelayFails, RequestPC
<1>6. CASE QueueRollback(r)  BY <1>6 DEF QueueRollback, RequestPC
<1> QED  BY <1>1, <1>2, <1>3, <1>4, <1>5, <1>6 DEF RequestStep

\* The owner's other requests, and what surrounds the pipeline.
LEMMA TypeSurround ==
    ASSUME TypeOK, OwnerStep \/ Surround
    PROVE  TypeOK'
<1> USE DEF TypeOK, OwnerFrame, SurroundFrame, Change, notification,
            deliveries, working, api, surroundings, history
<1> USE BoundAssumption
<1>1. CASE EditRead  BY <1>1 DEF EditRead
<1>2. ASSUME NEW t \in Delays \cup {edit}, EditSave(t) PROVE TypeOK'
  BY <1>2, MinutesAssumption DEF EditSave, Status, Timer
<1>3. CASE SoftDelete
  <2>1. changes' \in 0 .. MaxChanges
    BY <1>3 DEF SoftDelete
  <2>2. visible' = FALSE
    BY <1>3 DEF SoftDelete
  <2> QED  BY <1>3, <2>1, <2>2 DEF SoftDelete
<1>4. CASE ChangeSubscription  BY <1>4 DEF ChangeSubscription
<1>5. CASE ChangeApplication  BY <1>5 DEF ChangeApplication
<1>6. ASSUME NEW d \in Devices, ChangeLink(d) PROVE TypeOK'
  BY <1>6 DEF ChangeLink
<1>7. ASSUME NEW d \in Devices, ChangeToken(d) PROVE TypeOK'
  BY <1>7 DEF ChangeToken
<1>8. ASSUME NEW q \in Delays, BeginAppQuiet(q) PROVE TypeOK'
  BY <1>8, MinutesAssumption DEF BeginAppQuiet
<1>9. ASSUME NEW d \in Devices, NEW q \in Delays, BeginDeviceQuiet(d, q)
      PROVE  TypeOK'
  BY <1>9, MinutesAssumption DEF BeginDeviceQuiet
<1> QED
  BY <1>1, <1>2, <1>3, <1>4, <1>5, <1>6, <1>7, <1>8, <1>9
     DEF OwnerStep, Surround

LEMMA TypeTick ==
    ASSUME TypeOK, Tick
    PROVE  TypeOK'
<1>1. ASSUME NEW r \in Row PROVE [r EXCEPT !.retry = Sooner(@)] \in Row
  BY SoonerType DEF Row
<1>2. row' \in [Devices -> Row]
  BY <1>1 DEF TypeOK, Tick
<1>3. snap' \in [Workers -> [Devices -> Row]]
  BY <1>1 DEF TypeOK, Tick
<1>4. deviceQuiet' \in [Devices -> Nat] /\ appQuiet' \in Nat
  BY SoonerType DEF TypeOK, Tick
<1>5. started' \in Timer /\ sched' \in Timer /\ edit' \in Timer
  BY SoonerType, OlderType DEF TypeOK, Tick
<1> QED
  BY <1>2, <1>3, <1>4, <1>5 DEF TypeOK, Tick, api, history

LEMMA TypeNext == TypeOK /\ [Next]_vars => TypeOK'
<1> SUFFICES ASSUME TypeOK, [Next]_vars PROVE TypeOK'  OBVIOUS
<1>1. CASE UNCHANGED vars
  BY <1>1 DEF TypeOK, vars, notification, deliveries, working, api,
              surroundings, history
<1>2. ASSUME NEW w \in Workers, WorkerStep(w) \/ Crash(w) PROVE TypeOK'
  BY <1>2, TypePass, TypeVisit DEF WorkerStep
<1>3. ASSUME NEW r \in Requests,
             Fetch(r) \/ RequestStep(r) \/ QueueDelayFails(r)
      PROVE  TypeOK'
  BY <1>3, TypeRequest
<1> QED
  BY <1>1, <1>2, <1>3, TypeBeat, TypeSurround, TypeTick DEF Next

\* Every reachable state is typed: in particular the dates and counters that
\* the pipeline computes (attempt_count, next_retry_at, processing_started_at)
\* never leave their ranges, whoever steps.
THEOREM TypeCorrect == Spec => []TypeOK
<1>1. Init => TypeOK
  BY TypeInit
<1>2. TypeOK /\ [Next]_vars => TypeOK'
  BY TypeNext
<1> QED  BY <1>1, <1>2, PTL DEF Spec

-----------------------------------------------------------------------------
(* One worker at a time *)

\* The statuses a request to send may have read by the time it writes.
Admitted(r) == rpc[r] \in {"read", "fetched", "queued", "rollback"}

\* Why only one worker works: the watchdog cannot reach a live worker's row,
\* and a request to send writes only over a status it is allowed to queue.
OwnerInv ==
    /\ edit = None
    /\ \A w \in Workers : Working(w) =>
        status = "processing" /\ started \in 0 .. StuckMinutes
    /\ \A v, w \in Workers : Working(v) /\ Working(w) => v = w
    /\ \A r \in Requests : Admitted(r) => copy[r] \in StatusesToQueue

\* A step that writes none of this and lets no further worker in keeps it.
LEMMA OwnerSame ==
    ASSUME OwnerInv, UNCHANGED <<status, started, edit, rpc, copy>>,
           \A v \in Workers : Working(v)' => Working(v)
    PROVE  OwnerInv'
BY DEF OwnerInv, Admitted

\* The owner's end of pass leaves no worker working, whatever it writes.
LEMMA OwnerEnds ==
    ASSUME TypeOK, OwnerInv, NEW w \in Workers, Working(w),
           pc' = [pc EXCEPT ![w] = "idle"], UNCHANGED <<edit, rpc, copy>>
    PROVE  OwnerInv'
<1>1. \A v \in Workers : ~Working(v)'
  BY DEF OwnerInv, Working, TypeOK
<1> QED  BY <1>1 DEF OwnerInv, Admitted

LEMMA OwnerWorker ==
    ASSUME TypeOK, OwnerInv, NEW w \in Workers, WorkerStep(w) \/ Crash(w)
    PROVE  OwnerInv'
<1> USE DEF PassFrame, LoopFrame, api, notification, history
<1> USE DEF Working
<1>1. CASE TakeTask(w)
  BY <1>1, OwnerSame DEF TakeTask, TypeOK
<1>2. CASE Acquire(w)
  <2>1. \A v \in Workers : ~Working(v)
    BY <1>2 DEF Acquire, OwnerInv, StatusesToStart
  <2>2. \A v \in Workers : Working(v)' => v = w
    BY <1>2, <2>1 DEF Acquire, TypeOK
  <2>3. status' = "processing" /\ started' \in 0 .. StuckMinutes
    BY <1>2, MinutesAssumption DEF Acquire
  <2> QED  BY <1>2, <2>2, <2>3 DEF Acquire, OwnerInv, Admitted
<1>3. CASE AcquireNothing(w)
  BY <1>3, OwnerSame DEF AcquireNothing, Leave, TypeOK
<1>4. CASE LapsedStart(w)
  BY <1>4, OwnerSame DEF LapsedStart, TypeOK
<1>5. ASSUME NEW d \in Devices, LapsedCancel(w, d) PROVE OwnerInv'
  BY <1>5, OwnerSame DEF LapsedCancel
<1>6. CASE LapsedFinish(w)
  BY <1>6, OwnerEnds DEF LapsedFinish, EndPass, Leave
<1>7. CASE DeferToQuietPeriodEnd(w)
  BY <1>7, OwnerEnds DEF DeferToQuietPeriodEnd, EndPass, Leave
<1>8. CASE NoTarget(w)
  BY <1>8, OwnerEnds DEF NoTarget, EndPass, Leave
<1>9. CASE LoadDeliveries(w)
  BY <1>9, OwnerSame DEF LoadDeliveries, TypeOK
<1>10. ASSUME NEW d \in Devices, VisitDelivery(w, d) PROVE OwnerInv'
  <2>1. UNCHANGED <<status, started, edit, rpc, copy>>
    BY <1>10
       DEF VisitDelivery, SkipSent, CancelIneligible, WaitForRetry,
           DeferDelivery, AttemptsExhausted, Push, MarkSent, InvalidateToken,
           CountAttempt, RefreshAttempts, SaveFailure, PushAnswerLost,
           MarkSentFails, ResetFails, ErrorFrame
  <2>2. Working(w) /\ \A v \in Workers : v # w => pc'[v] = pc[v]
    BY <1>10
       DEF VisitDelivery, SkipSent, CancelIneligible, WaitForRetry, Ready,
           DeferDelivery, AttemptsExhausted, Push, MarkSent, InvalidateToken,
           CountAttempt, RefreshAttempts, SaveFailure, Pushable,
           PushAnswerLost, MarkSentFails, ResetFails, TypeOK
  <2> QED  BY <2>1, <2>2, OwnerSame
<1>11. CASE Finish(w)
  BY <1>11, OwnerEnds DEF Finish, EndPass, Leave
<1>12. CASE Crash(w)
  BY <1>12, OwnerSame DEF Crash, Leave, TypeOK
<1> QED
  BY <1>1, <1>2, <1>3, <1>4, <1>5, <1>6, <1>7, <1>8, <1>9, <1>10, <1>11,
     <1>12 DEF WorkerStep

\* The watchdog finds only rows whose worker is gone, the dispatcher and the
\* requests only rows that nobody works on.
LEMMA OwnerOthers ==
    ASSUME TypeOK, OwnerInv, "edit" \notin Changes,
           "overrun" \notin Faults,
           \/ BeatStep \/ OwnerStep \/ Surround \/ Tick
           \/ \E b \in Beats : Publish(b) \/ PublishFails(b)
    PROVE  OwnerInv'
<1> USE DEF BeatFrame, OwnerFrame, SurroundFrame, working, api, notification,
            history, Working
<1>1. CASE RetrySweep  BY <1>1, OwnerSame DEF RetrySweep
<1>2. CASE DispatchScheduled
  BY <1>2 DEF DispatchScheduled, OwnerInv, Admitted
<1>3. CASE RequeueStuck
  BY <1>3, MinutesAssumption DEF RequeueStuck, OwnerInv, Admitted
<1>4. ASSUME NEW b \in Beats, Publish(b) \/ PublishFails(b) PROVE OwnerInv'
  BY <1>4, OwnerSame DEF Publish, PublishFails
<1>5. CASE EditRead  BY <1>5 DEF EditRead, Change
<1>6. ASSUME NEW t \in Delays \cup {edit}, EditSave(t) PROVE OwnerInv'
  BY <1>6 DEF EditSave, OwnerInv
<1>7. CASE SoftDelete  BY <1>7, OwnerSame DEF SoftDelete
<1>8. CASE Surround
  BY <1>8, OwnerSame
     DEF Surround, ChangeSubscription, ChangeApplication, ChangeLink,
         ChangeToken, BeginAppQuiet, BeginDeviceQuiet
<1>9. CASE Tick
  <2>1. \A w \in Workers : Working(w) => started' \in 0 .. StuckMinutes
    BY <1>9, NoneAssumption, MinutesAssumption
       DEF Tick, OutOfMinutes, Older, OwnerInv
  <2>2. edit' = None
    BY <1>9 DEF Tick, Sooner, OwnerInv
  <2> QED  BY <1>9, <2>1, <2>2 DEF Tick, OwnerInv, Admitted
<1> QED
  BY <1>1, <1>2, <1>3, <1>4, <1>5, <1>6, <1>7, <1>8, <1>9
     DEF BeatStep, OwnerStep

LEMMA OwnerRequest ==
    ASSUME TypeOK, OwnerInv, NEW r \in Requests,
           Fetch(r) \/ RequestStep(r) \/ QueueDelayFails(r)
    PROVE  OwnerInv'
<1> USE DEF RequestFrame, working, Working, OwnerInv, Admitted
<1>1. CASE Fetch(r)
  BY <1>1 DEF Fetch, Sendable, TypeOK
<1>2. CASE EndFetch(r)
  BY <1>2 DEF EndFetch, TypeOK
<1>3. CASE QueueUpdate(r)
  BY <1>3 DEF QueueUpdate, StatusesToQueue, TypeOK
<1>4. CASE QueueDelay(r) \/ QueueDelayFails(r)
  BY <1>4 DEF QueueDelay, QueueDelayFails, TypeOK
<1>5. CASE QueueRollback(r)
  BY <1>5 DEF QueueRollback, TypeOK
<1> QED  BY <1>1, <1>2, <1>3, <1>4, <1>5 DEF RequestStep

LEMMA OwnerInit == Init => OwnerInv
BY DEF Init, OwnerInv, Admitted, Working

LEMMA OwnerNext ==
    ASSUME "edit" \notin Changes, "overrun" \notin Faults
    PROVE  TypeOK /\ OwnerInv /\ [Next]_vars => OwnerInv'
<1> SUFFICES ASSUME TypeOK, OwnerInv, [Next]_vars PROVE OwnerInv'  OBVIOUS
<1>1. CASE UNCHANGED vars
  BY <1>1, OwnerSame DEF vars, notification, working, api, Working
<1>2. ASSUME NEW w \in Workers, WorkerStep(w) \/ Crash(w) PROVE OwnerInv'
  BY <1>2, OwnerWorker
<1>3. ASSUME NEW r \in Requests,
             Fetch(r) \/ RequestStep(r) \/ QueueDelayFails(r)
      PROVE  OwnerInv'
  BY <1>3, OwnerRequest
<1> QED  BY <1>1, <1>2, <1>3, OwnerOthers DEF Next

\* At most one live worker processes the notification, and it is PROCESSING as
\* long as that worker runs, whatever the numbers of workers, devices, requests
\* and mishaps: provided that no pass outlives the watchdog's threshold
\* (tasks.py:22) and that no PATCH is saved over it.
THEOREM OwnerCorrect ==
    ASSUME "edit" \notin Changes, "overrun" \notin Faults
    PROVE  Spec => []SingleOwner
<1>1. Init => TypeOK /\ OwnerInv
  BY TypeInit, OwnerInit
<1>2. TypeOK /\ OwnerInv /\ [Next]_vars => (TypeOK /\ OwnerInv)'
  BY TypeNext, OwnerNext
<1>3. OwnerInv => SingleOwner
  BY DEF OwnerInv, SingleOwner
<1> QED  BY <1>1, <1>2, <1>3, PTL DEF Spec

-----------------------------------------------------------------------------
(* What a pass knows about the deliveries *)

Attempting(w) ==
    pc[w] \in {"accepted", "invalid", "rejected", "refresh", "counted"}

InLoop(w) == pc[w] = "sending" \/ Attempting(w)

\* The statuses a pass has loaded are those of the rows it has yet to visit.
CopyIsFresh ==
    \A w \in Workers, d \in Devices :
        InLoop(w) /\ d \in todo[w] => snap[w][d].status = row[d].status

\* What is being pushed, or cancelled for a lapsed subscription, is not sent.
AttemptedIsUnsent ==
    \A w \in Workers, d \in Devices :
        Attempting(w) /\ Visits(w, d) => row[d].status # "sent"

LapsedIsUnsent ==
    \A w \in Workers, d \in Devices :
        pc[w] = "lapsed" /\ d \in todo[w] => row[d].status # "sent"

SentIsUndated ==
    \A d \in Devices : row[d].status = "sent" => row[d].retry = None

\* A push of d was accepted and its row says so, or its worker is about to.
Booked(d) ==
    \/ row[d].status = "sent"
    \/ \E w \in Workers : pc[w] = "accepted" /\ Visits(w, d)

\* Every accepted push is booked or was lost to a crash.
PushesBooked ==
    \A d \in Devices : accepted[d] <= mishaps + (IF Booked(d) THEN 1 ELSE 0)

LedgerInv ==
    /\ CopyIsFresh
    /\ AttemptedIsUnsent
    /\ LapsedIsUnsent
    /\ SentIsUndated
    /\ PushesBooked

LEMMA LedgerInit == Init => LedgerInv
<1> SUFFICES ASSUME Init PROVE LedgerInv  OBVIOUS
<1>1. \A w \in Workers : ~InLoop(w) /\ pc[w] # "lapsed"
  BY DEF Init, InLoop, Attempting
<1>2. \A d \in Devices : row[d].status # "sent"
  BY DEF Init, NewRow
<1>3. PushesBooked
  BY DEF Init, PushesBooked
<1> QED
  BY <1>1, <1>2, <1>3 DEF LedgerInv, CopyIsFresh, AttemptedIsUnsent,
                          LapsedIsUnsent, SentIsUndated, InLoop

\* Two deliveries are never visited at once.
LEMMA VisitsOne ==
    ASSUME TypeOK, NEW w \in Workers, NEW d \in Devices, NEW e \in Devices,
           Visits(w, d), Visits(w, e)
    PROVE  d = e
BY DevicesAssumption DEF Visits

\* Next to a working worker nobody else works.
LEMMA Alone ==
    ASSUME TypeOK, OwnerInv, NEW w \in Workers, Working(w),
           NEW v \in Workers, v # w
    PROVE  ~InLoop(v) /\ ~Attempting(v) /\ pc[v] # "lapsed"
BY DEF OwnerInv, Working, InLoop, Attempting

LEMMA LedgerSame ==
    ASSUME LedgerInv, UNCHANGED <<row, pc, todo, snap, accepted, mishaps>>
    PROVE  LedgerInv'
BY DEF LedgerInv, CopyIsFresh, AttemptedIsUnsent, LapsedIsUnsent,
       SentIsUndated, PushesBooked, Booked, InLoop, Attempting, Visits

\* Steps by which a worker is, or gets, outside its loops.
LEMMA LedgerOutside ==
    ASSUME TypeOK, LedgerInv, NEW w \in Workers,
           UNCHANGED <<row, accepted, mishaps>>,
           pc[w] # "accepted", pc'[w] \in {"idle", "taken", "acquired"},
           \A v \in Workers : v # w =>
                pc'[v] = pc[v] /\ todo'[v] = todo[v] /\ snap'[v] = snap[v]
    PROVE  LedgerInv'
<1> USE DEF Visits, InLoop, Attempting
<1>1. CopyIsFresh'
  BY DEF LedgerInv, CopyIsFresh
<1>2. AttemptedIsUnsent'
  BY DEF LedgerInv, AttemptedIsUnsent
<1>3. LapsedIsUnsent'
  BY DEF LedgerInv, LapsedIsUnsent
<1>4. SentIsUndated'
  BY DEF LedgerInv, SentIsUndated
<1>5. PushesBooked'
  <2>1. ASSUME NEW d \in Devices, Booked(d) PROVE Booked(d)'
    BY <2>1 DEF Booked
  <2> QED  BY <2>1 DEF LedgerInv, PushesBooked, TypeOK
<1> QED  BY <1>1, <1>2, <1>3, <1>4, <1>5 DEF LedgerInv

\* A pass goes on to the next delivery without writing this one.
LEMMA LedgerPasses ==
    ASSUME TypeOK, OwnerInv, LedgerInv, NEW w \in Workers, NEW d \in Devices,
           pc[w] = "sending", todo' = [todo EXCEPT ![w] = @ \ {d}],
           UNCHANGED <<row, pc, snap, accepted, mishaps>>
    PROVE  LedgerInv'
<1>1. \A v \in Workers : v # w => ~InLoop(v) /\ ~Attempting(v) /\ pc[v] # "lapsed"
  BY Alone DEF Working
<1> USE <1>1 DEF Visits, InLoop, Attempting
<1>2. CopyIsFresh'
  BY DEF LedgerInv, CopyIsFresh, TypeOK
<1>3. AttemptedIsUnsent' /\ LapsedIsUnsent'
  BY DEF AttemptedIsUnsent, LapsedIsUnsent
<1>4. SentIsUndated'
  BY DEF LedgerInv, SentIsUndated
<1>5. PushesBooked'
  <2>1. ASSUME NEW e \in Devices, Booked(e) PROVE Booked(e)'
    BY <2>1 DEF Booked
  <2> QED  BY <2>1 DEF LedgerInv, PushesBooked, TypeOK
<1> QED  BY <1>2, <1>3, <1>4, <1>5 DEF LedgerInv

\* A pass writes an unsent delivery that it does not book, and goes on.
LEMMA LedgerWrites ==
    ASSUME TypeOK, OwnerInv, LedgerInv, NEW w \in Workers, NEW d \in Devices,
           Working(w), pc[w] # "accepted", d \in todo[w],
           row[d].status # "sent", row'[d].status # "sent",
           row' = [row EXCEPT ![d] = row'[d]],
           todo' = [todo EXCEPT ![w] = @ \ {d}],
           pc' = [pc EXCEPT ![w] = pc'[w]],
           \/ InLoop(w) /\ pc'[w] = "sending"
           \/ pc[w] = "lapsed" /\ pc'[w] = "lapsed",
           UNCHANGED <<snap, accepted, mishaps>>
    PROVE  LedgerInv'
<1>1. \A v \in Workers : v # w => ~InLoop(v) /\ ~Attempting(v) /\ pc[v] # "lapsed"
  BY Alone DEF Working
<1>2. \A e \in Devices : e # d => row'[e] = row[e]
  BY DEF TypeOK
<1>3. todo'[w] = todo[w] \ {d}
  BY DEF TypeOK
<1>4. \A v \in Workers : v # w => pc'[v] = pc[v]
  BY DEF TypeOK
<1> USE <1>1, <1>2, <1>3, <1>4 DEF InLoop, Attempting
<1>5. CopyIsFresh'
  BY DEF LedgerInv, CopyIsFresh
<1>6. AttemptedIsUnsent'
  BY DEF AttemptedIsUnsent
<1>7. LapsedIsUnsent'
  BY DEF LedgerInv, LapsedIsUnsent
<1>8. SentIsUndated'
  BY DEF LedgerInv, SentIsUndated
<1>9. PushesBooked'
  <2>1. ASSUME NEW e \in Devices, Booked(e) PROVE Booked(e)'
    BY <2>1 DEF Booked
  <2> QED  BY <2>1 DEF LedgerInv, PushesBooked, TypeOK
<1> QED  BY <1>5, <1>6, <1>7, <1>8, <1>9 DEF LedgerInv

\* A failed attempt goes from one of its statements to the next.
LEMMA LedgerAttempts ==
    ASSUME TypeOK, OwnerInv, LedgerInv, NEW w \in Workers,
           Attempting(w), pc[w] # "accepted",
           Attempting(w)', pc'[w] # "accepted",
           pc' = [pc EXCEPT ![w] = pc'[w]],
           \A d \in Devices : row'[d].status = row[d].status
                           /\ row'[d].retry = row[d].retry,
           \A d \in Devices : snap'[w][d].status = snap[w][d].status,
           UNCHANGED <<todo, accepted, mishaps>>
    PROVE  LedgerInv'
<1>1. \A v \in Workers : v # w => ~InLoop(v) /\ ~Attempting(v) /\ pc[v] # "lapsed"
  BY Alone DEF Working, Attempting
<1>2. \A v \in Workers : v # w => pc'[v] = pc[v]
  BY DEF TypeOK
<1> USE <1>1, <1>2 DEF InLoop, Attempting
<1>3. CopyIsFresh'
  BY DEF LedgerInv, CopyIsFresh
<1>4. AttemptedIsUnsent'
  BY DEF LedgerInv, AttemptedIsUnsent, Visits
<1>5. LapsedIsUnsent'
  BY DEF LapsedIsUnsent
<1>6. SentIsUndated'
  BY DEF LedgerInv, SentIsUndated
<1>7. PushesBooked'
  <2>1. ASSUME NEW e \in Devices, Booked(e) PROVE Booked(e)'
    BY <2>1 DEF Booked
  <2> QED  BY <2>1 DEF LedgerInv, PushesBooked, TypeOK
<1> QED  BY <1>3, <1>4, <1>5, <1>6, <1>7 DEF LedgerInv

\* Only a delivery that is not booked is pushed.
LEMMA LedgerPush ==
    ASSUME TypeOK, OwnerInv, LedgerInv, NEW w \in Workers, NEW d \in Devices,
           Push(w, d)
    PROVE  LedgerInv'
<1> USE DEF Push, Pushable, Ready, LoopFrame
<1>1. \A v \in Workers : v # w => ~InLoop(v) /\ ~Attempting(v) /\ pc[v] # "lapsed"
  BY Alone DEF Working
<1>2. row[d].status # "sent"
  BY DEF LedgerInv, CopyIsFresh, InLoop, Visits
<1>3. /\ \A v \in Workers : v # w => pc'[v] = pc[v]
      /\ pc'[w] \in {"accepted", "invalid", "rejected"}
  BY DEF TypeOK
<1>4. UNCHANGED <<row, todo, snap, mishaps>>
  OBVIOUS
<1>5. CopyIsFresh'
  BY <1>1, <1>3, <1>4
     DEF LedgerInv, CopyIsFresh, InLoop, Attempting
<1>6. AttemptedIsUnsent'
  BY <1>1, <1>2, <1>3, <1>4, VisitsOne
     DEF AttemptedIsUnsent, Visits, Attempting
<1>7. LapsedIsUnsent'
  BY <1>1, <1>3 DEF LapsedIsUnsent
<1>8. SentIsUndated'
  BY <1>4 DEF LedgerInv, SentIsUndated
<1>9. PushesBooked'
  <2>1. ASSUME NEW e \in Devices, Booked(e) PROVE Booked(e)'
    BY <2>1, <1>1, <1>4 DEF Booked, Attempting
  <2>2. ~Booked(d)
    BY <1>1, <1>2 DEF Booked, Attempting
  <2>3. CASE UNCHANGED accepted
    BY <2>1, <2>3, <1>4 DEF LedgerInv, PushesBooked, TypeOK
  <2>4. CASE /\ pc' = [pc EXCEPT ![w] = "accepted"]
             /\ accepted' = [accepted EXCEPT ![d] = @ + 1]
    <3>1. Booked(d)'
      BY <2>4, <1>4 DEF Booked, Visits, TypeOK
    <3> QED
      BY <2>1, <2>2, <2>4, <3>1, <1>4 DEF LedgerInv, PushesBooked, TypeOK
  <2> QED  BY <2>3, <2>4
<1> QED  BY <1>5, <1>6, <1>7, <1>8, <1>9 DEF LedgerInv

\* The push that its worker booked is booked by its row.
LEMMA LedgerMarkSent ==
    ASSUME TypeOK, OwnerInv, LedgerInv, NEW w \in Workers, NEW d \in Devices,
           MarkSent(w, d)
    PROVE  LedgerInv'
<1>1. \A v \in Workers : v # w => ~InLoop(v) /\ ~Attempting(v) /\ pc[v] # "lapsed"
  BY Alone DEF Working, MarkSent
<1>2. /\ \A e \in Devices : e # d => row'[e] = row[e]
      /\ row'[d].status = "sent"
      /\ row'[d].retry = None
  BY DEF MarkSent, TypeOK, Row
<1>3. todo'[w] = todo[w] \ {d}
  BY DEF MarkSent, NextDelivery, TypeOK
<1>4. \A v \in Workers : v # w => pc'[v] = pc[v]
  BY DEF MarkSent, TypeOK
<1>5. pc[w] = "accepted" /\ Visits(w, d) /\ pc'[w] = "sending"
  BY DEF MarkSent, TypeOK
<1>6. UNCHANGED <<snap, accepted, mishaps>>
  BY DEF MarkSent, LoopFrame
<1>7. CopyIsFresh'
  BY <1>1, <1>2, <1>3, <1>4, <1>5, <1>6
     DEF LedgerInv, CopyIsFresh, InLoop, Attempting
<1>8. AttemptedIsUnsent' /\ LapsedIsUnsent'
  BY <1>1, <1>4, <1>5 DEF AttemptedIsUnsent, LapsedIsUnsent, Attempting
<1>9. SentIsUndated'
  BY <1>2 DEF LedgerInv, SentIsUndated
<1>10. PushesBooked'
  <2>1. ASSUME NEW e \in Devices, Booked(e) PROVE Booked(e)'
    <3>1. CASE e = d  BY <3>1, <1>2 DEF Booked
    <3>2. CASE e # d
      <4>1. ~\E v \in Workers : pc[v] = "accepted" /\ Visits(v, e)
        BY <3>2, <1>1, <1>5, VisitsOne DEF Attempting
      <4> QED  BY <2>1, <3>2, <4>1, <1>2 DEF Booked
    <3> QED  BY <3>1, <3>2
  <2> QED  BY <2>1, <1>6 DEF LedgerInv, PushesBooked, TypeOK
<1> QED  BY <1>7, <1>8, <1>9, <1>10 DEF LedgerInv

\* A crash loses at most the push its worker was about to book.
LEMMA LedgerCrash ==
    ASSUME TypeOK, OwnerInv, LedgerInv, NEW w \in Workers, Crash(w)
    PROVE  LedgerInv'
<1> USE DEF Visits, InLoop, Attempting
<1>1. UNCHANGED <<row, accepted>> /\ mishaps' = mishaps + 1
  BY DEF Crash, Mishap, deliveries
<1>2. /\ pc'[w] = "idle"
      /\ \A v \in Workers : v # w =>
            pc'[v] = pc[v] /\ todo'[v] = todo[v] /\ snap'[v] = snap[v]
  BY DEF Crash, Leave, TypeOK
<1>3. CopyIsFresh'
  BY <1>1, <1>2 DEF LedgerInv, CopyIsFresh
<1>4. AttemptedIsUnsent'
  BY <1>1, <1>2 DEF LedgerInv, AttemptedIsUnsent
<1>5. LapsedIsUnsent'
  BY <1>1, <1>2 DEF LedgerInv, LapsedIsUnsent
<1>6. SentIsUndated'
  BY <1>1 DEF LedgerInv, SentIsUndated
<1>7. PushesBooked'
  BY <1>1 DEF LedgerInv, PushesBooked, TypeOK
<1> QED  BY <1>3, <1>4, <1>5, <1>6, <1>7 DEF LedgerInv

\* A push that its worker fails to book is lost to a mishap.
LEMMA LedgerLost ==
    ASSUME TypeOK, OwnerInv, LedgerInv, NEW w \in Workers, NEW d \in Devices,
           PushAnswerLost(w, d) \/ MarkSentFails(w, d)
    PROVE  LedgerInv'
<1>1. InLoop(w) /\ Visits(w, d) /\ Working(w)
  BY DEF PushAnswerLost, MarkSentFails, Pushable, Ready, InLoop, Attempting,
         Working
<1>2. \A v \in Workers : v # w => ~InLoop(v) /\ ~Attempting(v) /\ pc[v] # "lapsed"
  BY <1>1, Alone
<1>3. row[d].status # "sent"
  BY <1>1 DEF PushAnswerLost, MarkSentFails, Pushable, Ready, LedgerInv,
              CopyIsFresh, AttemptedIsUnsent, Attempting, Visits
<1>4. /\ \A v \in Workers : v # w => pc'[v] = pc[v]
      /\ pc'[w] = "rejected"
  BY DEF PushAnswerLost, MarkSentFails, TypeOK
<1>5. UNCHANGED <<row, todo, snap>> /\ mishaps' = mishaps + 1
  BY DEF PushAnswerLost, MarkSentFails, Mishap, ErrorFrame
<1>6. CopyIsFresh'
  BY <1>1, <1>2, <1>4, <1>5 DEF LedgerInv, CopyIsFresh, InLoop, Attempting
<1>7. AttemptedIsUnsent'
  BY <1>1, <1>2, <1>3, <1>4, <1>5, VisitsOne
     DEF AttemptedIsUnsent, Visits, Attempting
<1>8. LapsedIsUnsent'
  BY <1>2, <1>4 DEF LapsedIsUnsent
<1>9. SentIsUndated'
  BY <1>5 DEF LedgerInv, SentIsUndated
<1>10. PushesBooked'
  <2>1. \A e \in Devices : accepted[e] <= mishaps + 1
    BY DEF LedgerInv, PushesBooked, TypeOK
  <2>2. CASE MarkSentFails(w, d)
    BY <2>1, <2>2, <1>5 DEF MarkSentFails, PushesBooked, TypeOK
  <2>3. CASE PushAnswerLost(w, d)
    <3>1. ~Booked(d)
      BY <1>2, <1>3, <2>3
         DEF PushAnswerLost, Pushable, Ready, Booked, Attempting
    <3>2. accepted[d] <= mishaps
      BY <3>1 DEF LedgerInv, PushesBooked, TypeOK
    <3> QED
      BY <2>1, <2>3, <3>2, <1>5 DEF PushAnswerLost, PushesBooked, TypeOK
  <2> QED  BY <2>2, <2>3
<1> QED  BY <1>6, <1>7, <1>8, <1>9, <1>10 DEF LedgerInv

LEMMA LedgerVisit ==
    ASSUME TypeOK, OwnerInv, LedgerInv, "reset_error" \notin Faults,
           NEW w \in Workers, NEW d \in Devices,
           VisitDelivery(w, d) \/ LapsedCancel(w, d)
    PROVE  LedgerInv'
<1>1. CASE SkipSent(w, d)
  BY <1>1, LedgerPasses DEF SkipSent, NextDelivery, LoopFrame
<1>2. CASE WaitForRetry(w, d)
  BY <1>2, LedgerPasses DEF WaitForRetry, NextDelivery, LoopFrame
<1>3. CASE AttemptsExhausted(w, d)
  BY <1>3, LedgerPasses DEF AttemptsExhausted, Ready, NextDelivery, LoopFrame
<1>4. CASE CancelIneligible(w, d)
  <2>1. row[d].status # "sent" /\ Working(w) /\ InLoop(w)
    BY <1>4 DEF CancelIneligible, LedgerInv, CopyIsFresh, InLoop, Visits,
                Working
  <2>2. row' = [row EXCEPT ![d] = row'[d]] /\ row'[d].status # "sent"
    <3>1. row \in [Devices -> Row]
      BY DEF TypeOK
    <3>2. row' = [row EXCEPT ![d].status = "failed", ![d].retry = None]
      BY <1>4 DEF CancelIneligible, CancelDelivery
    <3> QED  BY <3>1, <3>2 DEF Row
  <2>3. pc' = [pc EXCEPT ![w] = pc'[w]] /\ pc'[w] = "sending"
    BY <1>4 DEF CancelIneligible, TypeOK
  <2> QED
    BY <1>4, <2>1, <2>2, <2>3, LedgerWrites
       DEF CancelIneligible, NextDelivery, LoopFrame, Visits
<1>5. CASE DeferDelivery(w, d)
  <2>1. row[d].status # "sent" /\ Working(w) /\ InLoop(w)
    BY <1>5 DEF DeferDelivery, Ready, LedgerInv, CopyIsFresh, InLoop, Visits,
                Working
  <2>2. row' = [row EXCEPT ![d] = row'[d]] /\ row'[d].status # "sent"
    <3>1. row \in [Devices -> Row]
      BY DEF TypeOK
    <3>2. row' = [row EXCEPT ![d].status = "pending", ![d].retry = deviceQuiet[d]]
      BY <1>5 DEF DeferDelivery
    <3> QED  BY <3>1, <3>2 DEF Row
  <2>3. pc' = [pc EXCEPT ![w] = pc'[w]] /\ pc'[w] = "sending"
    BY <1>5 DEF DeferDelivery, Ready, TypeOK
  <2> QED
    BY <1>5, <2>1, <2>2, <2>3, LedgerWrites
       DEF DeferDelivery, Ready, NextDelivery, LoopFrame, Visits
<1>6. CASE Push(w, d)  BY <1>6, LedgerPush
<1>7. CASE MarkSent(w, d)  BY <1>7, LedgerMarkSent
<1>8. CASE InvalidateToken(w, d)
  BY <1>8, LedgerAttempts DEF InvalidateToken, LoopFrame, Attempting, TypeOK
<1>9. CASE CountAttempt(w, d)
  <2>1. \A e \in Devices : row'[e].status = row[e].status
                        /\ row'[e].retry = row[e].retry
    BY <1>9 DEF CountAttempt, TypeOK, Row
  <2> QED
    BY <1>9, <2>1, LedgerAttempts DEF CountAttempt, LoopFrame, Attempting, TypeOK
<1>10. CASE RefreshAttempts(w, d)
  <2>1. \A e \in Devices : snap'[w][e].status = snap[w][e].status
    BY <1>10 DEF RefreshAttempts, TypeOK, Row
  <2> QED
    BY <1>10, <2>1, LedgerAttempts
       DEF RefreshAttempts, LoopFrame, Attempting, TypeOK
<1>11. CASE SaveFailure(w, d)
  <2>1. row[d].status # "sent" /\ Working(w) /\ InLoop(w)
    BY <1>11 DEF SaveFailure, LedgerInv, AttemptedIsUnsent, InLoop, Attempting,
                 Working
  <2>2. row' = [row EXCEPT ![d] = row'[d]] /\ row'[d].status # "sent"
    <3>1. row \in [Devices -> Row]
      BY DEF TypeOK
    <3>2. \/ row' = [row EXCEPT ![d].status = "failed", ![d].retry = None]
          \/ row' = [row EXCEPT ![d].status = "pending", ![d].retry =
                       ComputeNextRetry(snap[w][d].attempts)]
      BY <1>11 DEF SaveFailure
    <3> QED  BY <3>1, <3>2 DEF Row
  <2>3. pc' = [pc EXCEPT ![w] = pc'[w]] /\ pc'[w] = "sending"
    BY <1>11 DEF SaveFailure, TypeOK
  <2> QED
    BY <1>11, <2>1, <2>2, <2>3, LedgerWrites
       DEF SaveFailure, NextDelivery, LoopFrame, Visits
<1>12. CASE LapsedCancel(w, d)
  <2>1. row[d].status # "sent" /\ Working(w)
    BY <1>12 DEF LapsedCancel, LedgerInv, LapsedIsUnsent, Working
  <2>2. row' = [row EXCEPT ![d] = row'[d]] /\ row'[d].status # "sent"
    <3>1. row \in [Devices -> Row]
      BY DEF TypeOK
    <3>2. row' = [row EXCEPT ![d].status = "failed", ![d].retry = None]
      BY <1>12 DEF LapsedCancel, CancelDelivery
    <3> QED  BY <3>1, <3>2 DEF Row
  <2>3. pc' = [pc EXCEPT ![w] = pc'[w]] /\ pc'[w] = "lapsed"
    BY <1>12 DEF LapsedCancel, TypeOK
  <2> QED
    BY <1>12, <2>1, <2>2, <2>3, LedgerWrites DEF LapsedCancel, PassFrame, history
<1>13. CASE PushAnswerLost(w, d) \/ MarkSentFails(w, d)  BY <1>13, LedgerLost
<1>14. CASE ResetFails(w, d)  BY <1>14 DEF ResetFails, Mishap
<1> QED
  BY <1>1, <1>2, <1>3, <1>4, <1>5, <1>6, <1>7, <1>8, <1>9, <1>10, <1>11,
     <1>12, <1>13, <1>14 DEF VisitDelivery

LEMMA LedgerPass ==
    ASSUME TypeOK, OwnerInv, LedgerInv, NEW w \in Workers,
           \/ TakeTask(w) \/ Acquire(w) \/ AcquireNothing(w) \/ LapsedStart(w)
           \/ LapsedFinish(w) \/ DeferToQuietPeriodEnd(w) \/ NoTarget(w)
           \/ LoadDeliveries(w) \/ Finish(w)
    PROVE  LedgerInv'
<1> USE DEF PassFrame, EndPass, deliveries, history
<1>1. CASE TakeTask(w)
  BY <1>1, LedgerOutside DEF TakeTask, TypeOK
<1>2. CASE Acquire(w)
  BY <1>2, LedgerOutside DEF Acquire, TypeOK
<1>3. CASE AcquireNothing(w)
  BY <1>3, LedgerOutside DEF AcquireNothing, Leave, TypeOK
<1>4. CASE LapsedFinish(w)
  BY <1>4, LedgerOutside DEF LapsedFinish, Leave, TypeOK
<1>5. CASE DeferToQuietPeriodEnd(w)
  BY <1>5, LedgerOutside DEF DeferToQuietPeriodEnd, Leave, TypeOK
<1>6. CASE NoTarget(w)
  BY <1>6, LedgerOutside DEF NoTarget, Leave, TypeOK
<1>7. CASE Finish(w)
  BY <1>7, LedgerOutside DEF Finish, Leave, TypeOK
<1>8. CASE LapsedStart(w) \/ LoadDeliveries(w)
  <2>1. UNCHANGED <<row, accepted, mishaps>> /\ pc[w] = "acquired"
    BY <1>8 DEF LapsedStart, LoadDeliveries
  <2>2. \A v \in Workers : v # w => ~InLoop(v) /\ ~Attempting(v) /\ pc[v] # "lapsed"
    BY <2>1, Alone DEF Working
  <2>3. \A v \in Workers : v # w => pc'[v] = pc[v]
    BY <1>8 DEF LapsedStart, LoadDeliveries, TypeOK
  <2>4. \/ /\ pc'[w] = "lapsed"
           /\ \A d \in todo'[w] : row[d].status # "sent"
        \/ /\ pc'[w] = "sending"
           /\ snap'[w] = row
    BY <1>8 DEF LapsedStart, LoadDeliveries, TypeOK
  <2> USE DEF InLoop, Attempting
  <2>5. CopyIsFresh'
    BY <2>1, <2>2, <2>3, <2>4 DEF CopyIsFresh
  <2>6. AttemptedIsUnsent' /\ LapsedIsUnsent'
    BY <2>1, <2>2, <2>3, <2>4 DEF AttemptedIsUnsent, LapsedIsUnsent
  <2>7. SentIsUndated'
    BY <2>1 DEF LedgerInv, SentIsUndated
  <2>8. PushesBooked'
    <3>1. ASSUME NEW e \in Devices, Booked(e) PROVE Booked(e)'
      BY <3>1, <2>1, <2>2 DEF Booked
    <3> QED  BY <3>1, <2>1 DEF LedgerInv, PushesBooked, TypeOK
  <2> QED  BY <2>5, <2>6, <2>7, <2>8 DEF LedgerInv
<1> QED  BY <1>1, <1>2, <1>3, <1>4, <1>5, <1>6, <1>7, <1>8

LEMMA LedgerTick ==
    ASSUME TypeOK, LedgerInv, Tick
    PROVE  LedgerInv'
<1>1. \A d \in Devices :
        /\ row'[d].status = row[d].status
        /\ row[d].retry = None => row'[d].retry = None
  BY DEF Tick, TypeOK, Row, Sooner
<1>2. \A w \in Workers, d \in Devices :
        snap'[w][d].status = snap[w][d].status
  <2>1. /\ snap \in [Workers -> [Devices -> Row]]
        /\ snap' = [w \in Workers |-> [d \in Devices |->
                      [snap[w][d] EXCEPT !.retry = Sooner(@)]]]
    BY DEF Tick, TypeOK
  <2> QED  BY <2>1 DEF Row
<1>3. UNCHANGED <<pc, todo, accepted, mishaps>>
  BY DEF Tick, history
<1> USE <1>1, <1>2, <1>3 DEF Visits, InLoop, Attempting
<1>4. CopyIsFresh'
  BY DEF LedgerInv, CopyIsFresh
<1>5. AttemptedIsUnsent' /\ LapsedIsUnsent'
  BY DEF LedgerInv, AttemptedIsUnsent, LapsedIsUnsent
<1>6. SentIsUndated'
  BY DEF LedgerInv, SentIsUndated
<1>7. PushesBooked'
  BY DEF LedgerInv, PushesBooked, Booked
<1> QED  BY <1>4, <1>5, <1>6, <1>7 DEF LedgerInv

LEMMA LedgerNext ==
    ASSUME "reset_error" \notin Faults
    PROVE  TypeOK /\ OwnerInv /\ LedgerInv /\ [Next]_vars => LedgerInv'
<1> SUFFICES ASSUME TypeOK, OwnerInv, LedgerInv, [Next]_vars
             PROVE  LedgerInv'
  OBVIOUS
<1> USE DEF deliveries, working, history
<1>1. CASE UNCHANGED vars  BY <1>1, LedgerSame DEF vars
<1>2. ASSUME NEW w \in Workers, WorkerStep(w) \/ Crash(w) PROVE LedgerInv'
  BY <1>2, LedgerPass, LedgerVisit, LedgerCrash DEF WorkerStep
<1>3. CASE BeatStep
  BY <1>3, LedgerSame
     DEF BeatStep, RetrySweep, DispatchScheduled, RequeueStuck, BeatFrame
<1>4. ASSUME NEW b \in Beats, Publish(b) \/ PublishFails(b) PROVE LedgerInv'
  BY <1>4, LedgerSame DEF Publish, PublishFails, BeatFrame
<1>5. ASSUME NEW r \in Requests,
             Fetch(r) \/ RequestStep(r) \/ QueueDelayFails(r)
      PROVE  LedgerInv'
  BY <1>5, LedgerSame
     DEF RequestStep, Fetch, EndFetch, QueueUpdate, QueueDelay,
         QueueDelayFails, QueueRollback, RequestFrame
<1>6. CASE OwnerStep
  BY <1>6, LedgerSame
     DEF OwnerStep, EditRead, EditSave, SoftDelete, OwnerFrame, Change
<1>7. CASE Surround
  BY <1>7, LedgerSame
     DEF Surround, ChangeSubscription, ChangeApplication, ChangeLink,
         ChangeToken, BeginAppQuiet, BeginDeviceQuiet, SurroundFrame, Change
<1>8. CASE Tick  BY <1>8, LedgerTick
<1> QED
  BY <1>1, <1>2, <1>3, <1>4, <1>5, <1>6, <1>7, <1>8 DEF Next

\* A device gets at most one push more than there were mishaps, over any number
\* of retries, requeues and manual re-sends: the SENT mark, written right after
\* the push and read at the start of each pass, is enough.
THEOREM DuplicatesCorrect ==
    ASSUME "edit" \notin Changes, Faults \cap {"overrun", "reset_error"} = {}
    PROVE  Spec => []DuplicatesNeedMishaps
<1> DEFINE Inv == TypeOK /\ OwnerInv /\ LedgerInv
<1>1. Init => Inv
  BY TypeInit, OwnerInit, LedgerInit
<1>2. Inv /\ [Next]_vars => Inv'
  BY TypeNext, OwnerNext, LedgerNext
<1>3. Inv => DuplicatesNeedMishaps
  BY DEF LedgerInv, PushesBooked, DuplicatesNeedMishaps, TypeOK
<1> QED  BY <1>1, <1>2, <1>3, PTL DEF Spec

\* A pass writes only deliveries that are not SENT.
LEMMA SentKept ==
    ASSUME TypeOK, OwnerInv, LedgerInv, [Next]_vars,
           "reset_error" \notin Faults,
           NEW d \in Devices, row[d].status = "sent"
    PROVE  row'[d] = row[d]
<1> USE DEF deliveries, working, history
<1>1. CASE UNCHANGED row  BY <1>1
<1>2. ASSUME NEW w \in Workers, NEW e \in Devices,
             VisitDelivery(w, e) \/ LapsedCancel(w, e), ~UNCHANGED row
      PROVE  row'[d] = row[d]
  <2>1. CASE CancelIneligible(w, e)
    BY <2>1 DEF CancelIneligible, CancelDelivery, Visits, LedgerInv,
                CopyIsFresh, InLoop, TypeOK
  <2>2. CASE DeferDelivery(w, e)
    BY <2>2 DEF DeferDelivery, Ready, Visits, LedgerInv, CopyIsFresh, InLoop,
                TypeOK
  <2>3. CASE MarkSent(w, e)
    BY <2>3 DEF MarkSent, LedgerInv, AttemptedIsUnsent, Attempting, TypeOK
  <2>4. CASE CountAttempt(w, e)
    BY <2>4 DEF CountAttempt, LedgerInv, AttemptedIsUnsent, Attempting, TypeOK
  <2>5. CASE SaveFailure(w, e)
    BY <2>5 DEF SaveFailure, LedgerInv, AttemptedIsUnsent, Attempting, TypeOK
  <2>6. CASE LapsedCancel(w, e)
    BY <2>6 DEF LapsedCancel, CancelDelivery, LedgerInv, LapsedIsUnsent, TypeOK
  <2> QED
    BY <1>2, <2>1, <2>2, <2>3, <2>4, <2>5, <2>6
       DEF VisitDelivery, SkipSent, WaitForRetry, AttemptsExhausted, Push,
           InvalidateToken, RefreshAttempts, PushAnswerLost, MarkSentFails,
           ResetFails, Mishap
<1>3. ASSUME NEW w \in Workers, WorkerStep(w) \/ Crash(w)
      PROVE  row'[d] = row[d]
  BY <1>1, <1>2, <1>3
     DEF WorkerStep, TakeTask, Acquire, AcquireNothing, LapsedStart,
         LapsedFinish, DeferToQuietPeriodEnd, NoTarget, LoadDeliveries,
         Finish, Crash
<1>4. CASE Tick
  <2>1. row[d].retry = None /\ row[d] \in Row
    BY DEF LedgerInv, SentIsUndated, TypeOK
  <2>2. row'[d] = [row[d] EXCEPT !.retry = Sooner(@)]
    BY <1>4 DEF Tick
  <2> QED  BY <2>1, <2>2 DEF Sooner, Row
<1>5. CASE \/ BeatStep \/ OwnerStep \/ Surround
           \/ \E b \in Beats : Publish(b) \/ PublishFails(b)
           \/ \E r \in Requests :
                Fetch(r) \/ RequestStep(r) \/ QueueDelayFails(r)
  <2>1. UNCHANGED row
    BY <1>5
       DEF BeatStep, RetrySweep, DispatchScheduled, RequeueStuck, BeatFrame,
           Publish, PublishFails, RequestStep, Fetch, EndFetch, QueueUpdate,
           QueueDelay, QueueDelayFails, QueueRollback, RequestFrame,
           OwnerStep, EditRead, EditSave, SoftDelete, OwnerFrame, Surround,
           ChangeSubscription, ChangeApplication, ChangeLink, ChangeToken,
           BeginAppQuiet, BeginDeviceQuiet, SurroundFrame
  <2> QED  BY <2>1
<1> QED  BY <1>1, <1>3, <1>4, <1>5 DEF Next, vars

\* A delivery marked SENT is never written again, by any pass of any worker.
THEOREM SentCorrect ==
    ASSUME "edit" \notin Changes, Faults \cap {"overrun", "reset_error"} = {}
    PROVE  Spec => SentIsFinal
<1> DEFINE Inv == TypeOK /\ OwnerInv /\ LedgerInv
<1>1. Init => Inv
  BY TypeInit, OwnerInit, LedgerInit
<1>2. Inv /\ [Next]_vars => Inv'
  BY TypeNext, OwnerNext, LedgerNext
<1>3. Inv /\ [Next]_vars =>
        [\A d \in Devices : row[d].status = "sent" => row'[d] = row[d]]_vars
  BY SentKept
<1> QED  BY <1>1, <1>2, <1>3, PTL DEF Spec, SentIsFinal

-----------------------------------------------------------------------------
(* What the final status says *)

\* The loop has deliveries to visit, and all of them are the notification's.
LoopHasRows ==
    \A w \in Workers : InLoop(w) => rows # {} /\ todo[w] \subseteq rows

\* Without a failure or a postponement on the counters, all visited are SENT.
TallyTells ==
    \A w \in Workers : InLoop(w) /\ ~tally[w].bad /\ ~tally[w].later =>
        \A d \in rows \ todo[w] : row[d].status = "sent"

SettleInv == LoopHasRows /\ TallyTells /\ StatusMatchesDeliveries

LEMMA SettleInit == Init => SettleInv
BY DEF Init, SettleInv, LoopHasRows, TallyTells, StatusMatchesDeliveries,
       InLoop, Attempting

\* Whoever is not in the loop keeps what the notification says, unless it
\* writes a status that says nothing about the deliveries.
LEMMA SettleSame ==
    ASSUME SettleInv, UNCHANGED <<rows, pc, todo, tally>>,
           rows \subseteq Devices,
           \A d \in Devices : row'[d].status = row[d].status,
           status' = status \/ status' \notin {"sent", "no_target"}
    PROVE  SettleInv'
BY DEF SettleInv, LoopHasRows, TallyTells, StatusMatchesDeliveries, InLoop,
       Attempting

\* Steps that take a worker out of the loop, or that it takes outside.
LEMMA SettleOutside ==
    ASSUME TypeOK, SettleInv, NEW w \in Workers,
           UNCHANGED deliveries, ~InLoop(w)',
           \A v \in Workers : v # w =>
                pc'[v] = pc[v] /\ todo'[v] = todo[v] /\ tally'[v] = tally[v],
           StatusMatchesDeliveries'
    PROVE  SettleInv'
BY DEF SettleInv, LoopHasRows, TallyTells, InLoop, Attempting, deliveries

LEMMA SettlePass ==
    ASSUME TypeOK, OwnerInv, LedgerInv, SettleInv, NEW w \in Workers,
           \/ TakeTask(w) \/ Acquire(w) \/ AcquireNothing(w) \/ LapsedStart(w)
           \/ LapsedFinish(w) \/ DeferToQuietPeriodEnd(w) \/ NoTarget(w)
           \/ LoadDeliveries(w) \/ Finish(w) \/ Crash(w)
    PROVE  SettleInv'
<1> USE DEF deliveries, InLoop, Attempting
<1>1. CASE TakeTask(w)
  <2>1. StatusMatchesDeliveries'
    BY <1>1 DEF TakeTask, SettleInv, StatusMatchesDeliveries
  <2> QED  BY <1>1, <2>1, SettleOutside DEF TakeTask, TypeOK
<1>2. CASE Acquire(w)
  <2>1. StatusMatchesDeliveries'
    BY <1>2 DEF Acquire, StatusMatchesDeliveries
  <2> QED  BY <1>2, <2>1, SettleOutside DEF Acquire, TypeOK
<1>3. CASE AcquireNothing(w)
  <2>1. StatusMatchesDeliveries'
    BY <1>3 DEF AcquireNothing, SettleInv, StatusMatchesDeliveries
  <2> QED  BY <1>3, <2>1, SettleOutside DEF AcquireNothing, Leave, TypeOK
<1>4. CASE LapsedStart(w)
  <2>1. StatusMatchesDeliveries'
    BY <1>4 DEF LapsedStart, SettleInv, StatusMatchesDeliveries
  <2> QED  BY <1>4, <2>1, SettleOutside DEF LapsedStart, TypeOK
<1>5. CASE LapsedFinish(w)
  <2>1. StatusMatchesDeliveries'
    BY <1>5 DEF LapsedFinish, EndPass, StatusMatchesDeliveries
  <2> QED  BY <1>5, <2>1, SettleOutside DEF LapsedFinish, EndPass, Leave, TypeOK
<1>6. CASE DeferToQuietPeriodEnd(w)
  <2>1. StatusMatchesDeliveries'
    BY <1>6 DEF DeferToQuietPeriodEnd, EndPass, StatusMatchesDeliveries
  <2> QED
    BY <1>6, <2>1, SettleOutside
       DEF DeferToQuietPeriodEnd, EndPass, Leave, TypeOK
<1>7. CASE NoTarget(w)
  <2>1. StatusMatchesDeliveries'
    BY <1>7 DEF NoTarget, EndPass, StatusMatchesDeliveries
  <2> QED  BY <1>7, <2>1, SettleOutside DEF NoTarget, EndPass, Leave, TypeOK
<1>8. CASE LoadDeliveries(w)
  <2>1. \A v \in Workers : v # w => ~InLoop(v)
    BY <1>8, Alone DEF LoadDeliveries, Working
  <2>2. \A v \in Workers : v # w => pc'[v] = pc[v]
    BY <1>8 DEF LoadDeliveries, TypeOK
  <2>3. rows' # {} /\ todo'[w] = rows'
    BY <1>8 DEF LoadDeliveries, TypeOK
  <2>4. status' = "processing"
    BY <1>8 DEF LoadDeliveries, OwnerInv, Working
  <2> QED
    BY <2>1, <2>2, <2>3, <2>4
       DEF SettleInv, LoopHasRows, TallyTells, StatusMatchesDeliveries
<1>9. CASE Finish(w)
  <2>1. StatusMatchesDeliveries'
    <3>1. CASE status' = "sent"
      <4>1. ~tally[w].bad /\ ~tally[w].later
        BY <1>9, <3>1 DEF Finish, EndPass, FinalStatus
      <4> QED
        BY <1>9, <3>1, <4>1
           DEF Finish, SettleInv, LoopHasRows, TallyTells,
               StatusMatchesDeliveries
    <3>2. CASE status' # "sent"
      BY <1>9, <3>2 DEF Finish, EndPass, FinalStatus, StatusMatchesDeliveries
    <3> QED  BY <3>1, <3>2
  <2> QED  BY <1>9, <2>1, SettleOutside DEF Finish, EndPass, Leave, TypeOK
<1>10. CASE Crash(w)
  <2>1. StatusMatchesDeliveries'
    BY <1>10 DEF Crash, SettleInv, StatusMatchesDeliveries, notification
  <2> QED  BY <1>10, <2>1, SettleOutside DEF Crash, Leave, TypeOK
<1> QED  BY <1>1, <1>2, <1>3, <1>4, <1>5, <1>6, <1>7, <1>8, <1>9, <1>10

\* In the loop: the one worker of it counts what it does to each delivery.
LEMMA SettleLoop ==
    ASSUME TypeOK, OwnerInv, SettleInv, NEW w \in Workers, NEW d \in Devices,
           InLoop(w), InLoop(w)', UNCHANGED <<status, rows>>,
           \A v \in Workers : v # w => pc'[v] = pc[v],
           \A e \in Devices : e # d => row'[e].status = row[e].status,
           \/ todo'[w] = todo[w] /\ tally'[w] = tally[w]
              /\ row'[d].status = row[d].status
           \/ todo'[w] = todo[w] \ {d} /\ (tally'[w].bad \/ tally'[w].later)
           \/ todo'[w] = todo[w] \ {d} /\ row'[d].status = "sent"
              /\ tally'[w].bad = tally[w].bad
              /\ tally'[w].later = tally[w].later
    PROVE  SettleInv'
<1>1. Working(w) /\ status = "processing"
  BY DEF OwnerInv, Working, InLoop, Attempting
<1>2. \A v \in Workers : v # w => ~InLoop(v)'
  BY <1>1, Alone DEF InLoop, Attempting
<1>3. LoopHasRows'
  BY <1>2 DEF SettleInv, LoopHasRows
<1>4. TallyTells'
  BY <1>2 DEF SettleInv, TallyTells, TypeOK
<1>5. StatusMatchesDeliveries'
  BY <1>1 DEF StatusMatchesDeliveries
<1> QED  BY <1>3, <1>4, <1>5 DEF SettleInv

\* What counting a delivery does to the pass.
LEMMA Counted ==
    ASSUME TypeOK, NEW w \in Workers, NEW d \in Devices,
           NEW c \in {"good", "bad", "later"}, NextDelivery(w, d, c)
    PROVE  /\ todo'[w] = todo[w] \ {d}
           /\ tally'[w] = [tally[w] EXCEPT ![c] = TRUE]
           /\ c = "good" => tally'[w].bad = tally[w].bad
                         /\ tally'[w].later = tally[w].later
           /\ c = "bad" => tally'[w].bad
           /\ c = "later" => tally'[w].later
BY DEF TypeOK, NextDelivery, Tally

\* LoopFrame keeps the notification and which deliveries there are.
LEMMA LoopKeeps == LoopFrame => UNCHANGED <<status, rows>>
BY DEF LoopFrame, notification

LEMMA SettleVisit ==
    ASSUME TypeOK, OwnerInv, LedgerInv, SettleInv, NEW w \in Workers,
           NEW d \in Devices, VisitDelivery(w, d), "reset_error" \notin Faults
    PROVE  SettleInv'
<1> USE LoopKeeps DEF InLoop, Attempting
<1>1. CASE SkipSent(w, d)
  <2>1. row'[d].status = "sent" /\ UNCHANGED <<row, pc>> /\ pc[w] = "sending"
    BY <1>1 DEF SkipSent, Visits, LedgerInv, CopyIsFresh
  <2>2. NextDelivery(w, d, "good") /\ LoopFrame
    BY <1>1 DEF SkipSent
  <2> QED  BY <2>1, <2>2, Counted, SettleLoop
<1>2. CASE WaitForRetry(w, d)
  <2>1. UNCHANGED <<row, pc>> /\ pc[w] = "sending"
    BY <1>2 DEF WaitForRetry
  <2>2. NextDelivery(w, d, "later") /\ LoopFrame
    BY <1>2 DEF WaitForRetry
  <2> QED  BY <2>1, <2>2, Counted, SettleLoop
<1>3. CASE AttemptsExhausted(w, d)
  <2>1. UNCHANGED <<row, pc>> /\ pc[w] = "sending"
    BY <1>3 DEF AttemptsExhausted, Ready
  <2>2. NextDelivery(w, d, "bad") /\ LoopFrame
    BY <1>3 DEF AttemptsExhausted
  <2> QED  BY <2>1, <2>2, Counted, SettleLoop
<1>4. CASE CancelIneligible(w, d)
  <2>1. UNCHANGED pc /\ pc[w] = "sending"
    BY <1>4 DEF CancelIneligible
  <2>2. NextDelivery(w, d, "bad") /\ LoopFrame
    BY <1>4 DEF CancelIneligible
  <2>3. \A e \in Devices : e # d => row'[e].status = row[e].status
    BY <1>4 DEF CancelIneligible, CancelDelivery, TypeOK
  <2> QED  BY <2>1, <2>2, <2>3, Counted, SettleLoop
<1>5. CASE DeferDelivery(w, d)
  <2>1. UNCHANGED pc /\ pc[w] = "sending"
    BY <1>5 DEF DeferDelivery, Ready
  <2>2. NextDelivery(w, d, "later") /\ LoopFrame
    BY <1>5 DEF DeferDelivery
  <2>3. \A e \in Devices : e # d => row'[e].status = row[e].status
    BY <1>5 DEF DeferDelivery, TypeOK
  <2> QED  BY <2>1, <2>2, <2>3, Counted, SettleLoop
<1>6. CASE MarkSent(w, d)
  <2>1. pc[w] = "accepted" /\ pc' = [pc EXCEPT ![w] = "sending"]
    BY <1>6 DEF MarkSent
  <2>2. NextDelivery(w, d, "good") /\ LoopFrame
    BY <1>6 DEF MarkSent
  <2>3. /\ \A e \in Devices : e # d => row'[e].status = row[e].status
        /\ row'[d].status = "sent"
    BY <1>6 DEF MarkSent, TypeOK, Row
  <2>4. pc'[w] = "sending" /\ \A v \in Workers : v # w => pc'[v] = pc[v]
    BY <2>1 DEF TypeOK
  <2> QED  BY <2>1, <2>2, <2>3, <2>4, Counted, SettleLoop
<1>7. CASE SaveFailure(w, d)
  <2>1. pc[w] = "counted" /\ pc' = [pc EXCEPT ![w] = "sending"]
    BY <1>7 DEF SaveFailure
  <2>2. NextDelivery(w, d, "bad") /\ LoopFrame
    BY <1>7 DEF SaveFailure
  <2>3. \A e \in Devices : e # d => row'[e].status = row[e].status
    BY <1>7 DEF SaveFailure, TypeOK
  <2>4. pc'[w] = "sending" /\ \A v \in Workers : v # w => pc'[v] = pc[v]
    BY <2>1 DEF TypeOK
  <2> QED  BY <2>1, <2>2, <2>3, <2>4, Counted, SettleLoop
<1>8. CASE Push(w, d) \/ InvalidateToken(w, d) \/ CountAttempt(w, d)
           \/ RefreshAttempts(w, d)
  <2>1. LoopFrame /\ UNCHANGED <<todo, tally>>
    BY <1>8 DEF Push, InvalidateToken, CountAttempt, RefreshAttempts
  <2>2. \A e \in Devices : row'[e].status = row[e].status
    <3>1. CASE UNCHANGED row  BY <3>1
    <3>2. CASE row' = [row EXCEPT ![d].attempts = row[d].attempts + 1]
      BY <3>2 DEF TypeOK, Row
    <3> QED
      BY <1>8, <3>1, <3>2
         DEF Push, InvalidateToken, CountAttempt, RefreshAttempts
  <2>3. InLoop(w) /\ InLoop(w)' /\ \A v \in Workers : v # w => pc'[v] = pc[v]
    BY <1>8
       DEF Push, Pushable, Ready, InvalidateToken, CountAttempt, RefreshAttempts, TypeOK
  <2> QED  BY <2>1, <2>2, <2>3, SettleLoop
<1>9. CASE PushAnswerLost(w, d) \/ MarkSentFails(w, d)
  <2>1. UNCHANGED <<status, rows, row, todo, tally>>
    BY <1>9 DEF PushAnswerLost, MarkSentFails, ErrorFrame, notification
  <2>2. InLoop(w) /\ InLoop(w)' /\ \A v \in Workers : v # w => pc'[v] = pc[v]
    BY <1>9 DEF PushAnswerLost, MarkSentFails, Pushable, Ready, TypeOK
  <2> QED  BY <2>1, <2>2, SettleLoop
<1>10. CASE ResetFails(w, d)  BY <1>10 DEF ResetFails, Mishap
<1> QED
  BY <1>1, <1>2, <1>3, <1>4, <1>5, <1>6, <1>7, <1>8, <1>9, <1>10
     DEF VisitDelivery

LEMMA SettleOthers ==
    ASSUME TypeOK, OwnerInv, SettleInv,
           \/ BeatStep \/ OwnerStep \/ Surround \/ Tick
           \/ \E b \in Beats : Publish(b) \/ PublishFails(b)
           \/ \E r \in Requests :
                Fetch(r) \/ RequestStep(r) \/ QueueDelayFails(r)
    PROVE  SettleInv'
<1> USE DEF deliveries, working, notification
<1>1. UNCHANGED <<rows, pc, todo, tally>>
  BY DEF BeatStep, RetrySweep, DispatchScheduled, RequeueStuck, BeatFrame,
         Publish, PublishFails, RequestStep, Fetch, EndFetch, QueueUpdate,
         QueueDelay, QueueDelayFails, QueueRollback, RequestFrame,
         OwnerStep, EditRead, EditSave, SoftDelete, OwnerFrame, Surround,
         ChangeSubscription, ChangeApplication, ChangeLink, ChangeToken,
         BeginAppQuiet, BeginDeviceQuiet, SurroundFrame, Tick
<1>2. \A d \in Devices : row'[d].status = row[d].status
  <2>1. CASE Tick  BY <2>1 DEF Tick, TypeOK, Row
  <2>2. CASE UNCHANGED row  BY <2>2
  <2> QED
    BY <2>1, <2>2
       DEF BeatStep, RetrySweep, DispatchScheduled, RequeueStuck, BeatFrame,
           Publish, PublishFails, RequestStep, Fetch, EndFetch, QueueUpdate,
           QueueDelay, QueueDelayFails, QueueRollback, RequestFrame,
           OwnerStep, EditRead, EditSave, SoftDelete, OwnerFrame, Surround,
           ChangeSubscription, ChangeApplication, ChangeLink, ChangeToken,
           BeginAppQuiet, BeginDeviceQuiet, SurroundFrame
<1>3. status' = status \/ status' \notin {"sent", "no_target"}
  <2>1. ASSUME NEW r \in Requests, QueueRollback(r)
        PROVE  status' = status \/ status' \notin {"sent", "no_target"}
    BY <2>1 DEF QueueRollback, OwnerInv, Admitted, StatusesToQueue
  <2> QED
    BY <2>1
       DEF BeatStep, RetrySweep, DispatchScheduled, RequeueStuck, BeatFrame,
           Publish, PublishFails, RequestStep, Fetch, EndFetch, QueueUpdate,
           QueueDelay, QueueDelayFails,
           OwnerStep, EditRead, EditSave, SoftDelete, OwnerFrame, Surround,
           ChangeSubscription, ChangeApplication, ChangeLink, ChangeToken,
           BeginAppQuiet, BeginDeviceQuiet, SurroundFrame, Tick
<1> QED  BY <1>1, <1>2, <1>3, SettleSame DEF TypeOK

LEMMA SettleNext ==
    ASSUME "reset_error" \notin Faults
    PROVE  TypeOK /\ OwnerInv /\ LedgerInv /\ SettleInv /\ [Next]_vars
                => SettleInv'
<1> SUFFICES ASSUME TypeOK, OwnerInv, LedgerInv, SettleInv, [Next]_vars
             PROVE  SettleInv'
  OBVIOUS
<1>1. CASE UNCHANGED vars
  BY <1>1, SettleSame DEF vars, notification, deliveries, working, TypeOK
<1>2. ASSUME NEW w \in Workers, NEW d \in Devices, LapsedCancel(w, d)
      PROVE  SettleInv'
  <2>1. \A v \in Workers : ~InLoop(v)
    BY <1>2, Alone DEF LapsedCancel, Working, InLoop, Attempting
  <2>2. status' = "processing" /\ UNCHANGED pc
    BY <1>2 DEF LapsedCancel, OwnerInv, Working
  <2> QED
    BY <2>1, <2>2
       DEF SettleInv, LoopHasRows, TallyTells, StatusMatchesDeliveries,
           InLoop, Attempting
<1>3. ASSUME NEW w \in Workers, WorkerStep(w) \/ Crash(w) PROVE SettleInv'
  BY <1>2, <1>3, SettlePass, SettleVisit DEF WorkerStep
<1> QED  BY <1>1, <1>3, SettleOthers DEF Next

\* SENT on the notification means that every delivery is SENT, and NO_TARGET
\* that there is none, whatever retries, mishaps and changes there were: what
\* the list, the statistics and the webhook report is what the devices got.
THEOREM StatusCorrect ==
    ASSUME "edit" \notin Changes, Faults \cap {"overrun", "reset_error"} = {}
    PROVE  Spec => []StatusMatchesDeliveries
<1> DEFINE Inv == TypeOK /\ OwnerInv /\ LedgerInv /\ SettleInv
<1>1. Init => Inv
  BY TypeInit, OwnerInit, LedgerInit, SettleInit
<1>2. Inv /\ [Next]_vars => Inv'
  BY TypeNext, OwnerNext, LedgerNext, SettleNext
<1>3. Inv => StatusMatchesDeliveries
  BY DEF SettleInv
<1> QED  BY <1>1, <1>2, <1>3, PTL DEF Spec

-----------------------------------------------------------------------------
(* How often a delivery is attempted *)

\* The workers that may still count an attempt at d in their pass: they loaded
\* the row when it had attempts left, and have not counted one.
Uncounted(d) ==
    {w \in Workers :
        /\ InLoop(w) /\ d \in todo[w]
        /\ snap[w][d].attempts < MaxAttempts
        /\ ~(pc[w] \in {"refresh", "counted"} /\ Visits(w, d))}

\* Whoever has pushed d found attempts left.
PushedHadAttempts ==
    \A w \in Workers, d \in Devices :
        pc[w] \in {"accepted", "invalid", "rejected"} /\ Visits(w, d) =>
            snap[w][d].attempts < MaxAttempts

\* The attempts of a delivery, with those that are still to come, where at most
\* n workers are in the loop at a time.
AttemptInv(n) ==
    /\ PushedHadAttempts
    /\ \A d \in Devices :
           row[d].attempts + Cardinality(Uncounted(d)) <= MaxAttempts + n - 1

LEMMA UncountedType ==
    ASSUME NEW d \in Devices
    PROVE  /\ IsFiniteSet(Uncounted(d)) /\ Cardinality(Uncounted(d)) \in Nat
           /\ Cardinality(Uncounted(d)) <= Cardinality(Workers)
<1>1. Uncounted(d) \subseteq Workers  BY DEF Uncounted
<1> QED  BY <1>1, WorkersAssumption, FS_Subset, FS_CardinalityType

\* Nobody begins to count on an attempt, and nobody counts one.
LEMMA AttemptFewer ==
    ASSUME TypeOK, NEW n \in Nat, AttemptInv(n), PushedHadAttempts',
           \A d \in Devices : row'[d].attempts = row[d].attempts,
           \A d \in Devices : Uncounted(d)' \subseteq Uncounted(d)
    PROVE  AttemptInv(n)'
<1>1. ASSUME NEW d \in Devices
      PROVE  row'[d].attempts + Cardinality(Uncounted(d)') <= MaxAttempts + n - 1
  <2>1. /\ Cardinality(Uncounted(d)') \in Nat /\ Cardinality(Uncounted(d)) \in Nat
        /\ Cardinality(Uncounted(d)') <= Cardinality(Uncounted(d))
    BY UncountedType, FS_Subset, FS_CardinalityType
  <2>2. row[d].attempts \in Nat  BY DEF TypeOK, Row
  <2>3. row[d].attempts + Cardinality(Uncounted(d)) <= MaxAttempts + n - 1
    BY DEF AttemptInv
  <2> QED  BY <2>1, <2>2, <2>3, AttemptsAssumption
<1> QED  BY <1>1 DEF AttemptInv

\* The same for a step of one worker.
LEMMA AttemptWorker ==
    ASSUME TypeOK, NEW n \in Nat, AttemptInv(n), NEW w \in Workers,
           \A d \in Devices : row'[d].attempts = row[d].attempts,
           \A v \in Workers : v # w =>
                pc'[v] = pc[v] /\ todo'[v] = todo[v] /\ snap'[v] = snap[v],
           \A d \in Devices : w \in Uncounted(d)' => w \in Uncounted(d),
           \A d \in Devices :
                pc'[w] \in {"accepted", "invalid", "rejected"} /\ Visits(w, d)' =>
                    snap'[w][d].attempts < MaxAttempts
    PROVE  AttemptInv(n)'
<1>1. PushedHadAttempts'
  BY DEF AttemptInv, PushedHadAttempts, Visits
<1>2. \A d \in Devices : Uncounted(d)' \subseteq Uncounted(d)
  <2> SUFFICES ASSUME NEW d \in Devices, NEW v \in Workers, v \in Uncounted(d)'
               PROVE  v \in Uncounted(d)
    BY DEF Uncounted
  <2> QED  BY DEF Uncounted, InLoop, Attempting, Visits
<1> QED  BY <1>1, <1>2, AttemptFewer

\* Writing a status and a date leaves attempt_count alone.
LEMMA AttemptsKept ==
    ASSUME TypeOK, NEW d \in Devices,
           \/ UNCHANGED row
           \/ \E s \in RowStatus, t \in Timer :
                  row' = [row EXCEPT ![d].status = s, ![d].retry = t]
    PROVE  \A e \in Devices : row'[e].attempts = row[e].attempts
<1>1. CASE UNCHANGED row  BY <1>1
<1>2. ASSUME NEW s \in RowStatus, NEW t \in Timer,
             row' = [row EXCEPT ![d].status = s, ![d].retry = t]
      PROVE  \A e \in Devices : row'[e].attempts = row[e].attempts
  <2>1. row[d] \in Row /\ \A e \in Devices : e # d => row'[e] = row[e]
    BY <1>2 DEF TypeOK
  <2>2. row'[d] = [row[d] EXCEPT !.status = s, !.retry = t]
    BY <1>2 DEF TypeOK
  <2>3. row'[d].attempts = row[d].attempts
    BY <2>1, <2>2 DEF Row
  <2> QED  BY <2>1, <2>3
<1> QED  BY <1>1, <1>2

\* What each step of the loop does to the delivery it visits and to the pass.
LEMMA LoopSteps ==
    ASSUME TypeOK, NEW w \in Workers, NEW d \in Devices, VisitDelivery(w, d)
    PROVE  /\ Visits(w, d) /\ InLoop(w) /\ InLoop(w)'
           /\ \A v \in Workers : v # w =>
                  pc'[v] = pc[v] /\ todo'[v] = todo[v] /\ snap'[v] = snap[v]
           /\ \/ /\ pc[w] \in {"sending", "accepted", "counted"}
                 /\ pc'[w] = "sending" /\ todo'[w] = todo[w] \ {d}
                 /\ snap'[w] = snap[w]
              \/ /\ pc[w] \in {"sending", "accepted", "invalid"}
                 /\ pc'[w] \in {"accepted", "invalid", "rejected"}
                 /\ pc[w] = "sending" => CanRetry(snap[w][d])
                 /\ todo'[w] = todo[w] /\ snap'[w] = snap[w]
              \/ CountAttempt(w, d)
              \/ RefreshAttempts(w, d)
           /\ ~CountAttempt(w, d) =>
                \/ UNCHANGED row
                \/ \E s \in RowStatus, t \in Timer :
                      row' = [row EXCEPT ![d].status = s, ![d].retry = t]
<1> USE DEF InLoop, Attempting
<1>1. CASE SkipSent(w, d) \/ WaitForRetry(w, d) \/ AttemptsExhausted(w, d)
  BY <1>1 DEF SkipSent, WaitForRetry, AttemptsExhausted, Ready, NextDelivery, TypeOK
<1>2. CASE CancelIneligible(w, d)
  <2>1. "failed" \in RowStatus /\ None \in Timer  BY DEF RowStatus, Timer
  <2> QED  BY <1>2, <2>1 DEF CancelIneligible, CancelDelivery, NextDelivery, TypeOK
<1>3. CASE DeferDelivery(w, d)
  <2>1. "pending" \in RowStatus /\ deviceQuiet[d] \in Timer
    BY DEF RowStatus, Timer, TypeOK
  <2> QED  BY <1>3, <2>1 DEF DeferDelivery, Ready, NextDelivery, TypeOK
<1>4. CASE Push(w, d) \/ PushAnswerLost(w, d)
  BY <1>4 DEF Push, PushAnswerLost, Pushable, Ready, ErrorFrame, TypeOK
<1>5. CASE MarkSent(w, d) \/ ResetFails(w, d)
  <2>1. "sent" \in RowStatus /\ None \in Timer  BY DEF RowStatus, Timer
  <2> QED  BY <1>5, <2>1 DEF MarkSent, ResetFails, ErrorFrame, NextDelivery, TypeOK
<1>6. CASE MarkSentFails(w, d) \/ InvalidateToken(w, d)
  BY <1>6 DEF MarkSentFails, InvalidateToken, ErrorFrame, TypeOK
<1>7. CASE CountAttempt(w, d)
  BY <1>7 DEF CountAttempt, TypeOK
<1>8. CASE RefreshAttempts(w, d)
  BY <1>8 DEF RefreshAttempts, TypeOK
<1>9. CASE SaveFailure(w, d)
  <2>1. /\ "failed" \in RowStatus /\ "pending" \in RowStatus /\ None \in Timer
        /\ ComputeNextRetry(snap[w][d].attempts) \in Timer
    BY AttemptsAssumption DEF RowStatus, Timer, ComputeNextRetry
  <2> QED  BY <1>9, <2>1 DEF SaveFailure, NextDelivery, TypeOK
<1> QED  BY <1>1, <1>2, <1>3, <1>4, <1>5, <1>6, <1>7, <1>8, <1>9
         DEF VisitDelivery

LEMMA AttemptVisit ==
    ASSUME TypeOK, NEW n \in Nat, AttemptInv(n), NEW w \in Workers,
           NEW d \in Devices, VisitDelivery(w, d)
    PROVE  AttemptInv(n)'
<1>1. /\ Visits(w, d)
      /\ \A e \in Devices : Visits(w, e) => e = d
      /\ \A v \in Workers : v # w =>
             pc'[v] = pc[v] /\ todo'[v] = todo[v] /\ snap'[v] = snap[v]
  BY LoopSteps, VisitsOne
<1>2. CASE /\ pc[w] \in {"sending", "accepted", "counted"}
           /\ pc'[w] = "sending" /\ todo'[w] = todo[w] \ {d}
           /\ snap'[w] = snap[w]
  <2>1. ~CountAttempt(w, d)  BY <1>2 DEF CountAttempt
  <2>2. \A e \in Devices : row'[e].attempts = row[e].attempts
    BY <2>1, LoopSteps, AttemptsKept
  <2>3. \A e \in Devices : w \in Uncounted(e)' => w \in Uncounted(e)
    BY <1>1, <1>2 DEF Uncounted, InLoop, Attempting
  <2> QED  BY <1>1, <1>2, <2>2, <2>3, AttemptWorker
<1>3. CASE /\ pc[w] \in {"sending", "accepted", "invalid"}
           /\ pc'[w] \in {"accepted", "invalid", "rejected"}
           /\ pc[w] = "sending" => CanRetry(snap[w][d])
           /\ todo'[w] = todo[w] /\ snap'[w] = snap[w]
  <2>1. ~CountAttempt(w, d)  BY <1>3 DEF CountAttempt
  <2>2. \A e \in Devices : row'[e].attempts = row[e].attempts
    BY <2>1, LoopSteps, AttemptsKept
  <2>3. \A e \in Devices : w \in Uncounted(e)' => w \in Uncounted(e)
    BY <1>3 DEF Uncounted, InLoop, Attempting
  <2>4. \A e \in Devices : Visits(w, e)' => snap'[w][e].attempts < MaxAttempts
    BY <1>1, <1>3 DEF Visits, CanRetry, AttemptInv, PushedHadAttempts
  <2> QED  BY <1>1, <2>2, <2>3, <2>4, AttemptWorker
<1>4. CASE CountAttempt(w, d)
  <2>1. /\ pc[w] = "rejected" /\ pc'[w] = "refresh" /\ UNCHANGED <<todo, snap>>
        /\ row' = [row EXCEPT ![d].attempts = row[d].attempts + 1]
    BY <1>4 DEF CountAttempt, TypeOK
  <2>2. /\ row'[d].attempts = row[d].attempts + 1
        /\ \A e \in Devices : e # d => row'[e].attempts = row[e].attempts
    BY <2>1 DEF TypeOK, Row
  <2>3. w \in Uncounted(d)
    BY <1>1, <2>1 DEF Uncounted, InLoop, Attempting, Visits, AttemptInv,
                      PushedHadAttempts
  <2>4. Uncounted(d)' \subseteq Uncounted(d) \ {w}
    <3> SUFFICES ASSUME NEW v \in Workers, v \in Uncounted(d)'
                 PROVE  v # w /\ v \in Uncounted(d)
      BY DEF Uncounted
    <3> QED  BY <1>1, <2>1 DEF Uncounted, InLoop, Attempting, Visits
  <2>5. \A e \in Devices : e # d => Uncounted(e)' \subseteq Uncounted(e)
    <3> SUFFICES ASSUME NEW e \in Devices, e # d, NEW v \in Workers,
                        v \in Uncounted(e)'
                 PROVE  v \in Uncounted(e)
      BY DEF Uncounted
    <3> QED  BY <1>1, <2>1 DEF Uncounted, InLoop, Attempting, Visits
  <2>6. ASSUME NEW e \in Devices
        PROVE  row'[e].attempts + Cardinality(Uncounted(e)') <= MaxAttempts + n - 1
    <3>1. /\ Cardinality(Uncounted(e)) \in Nat /\ row[e].attempts \in Nat
          /\ IsFiniteSet(Uncounted(e))
          /\ row[e].attempts + Cardinality(Uncounted(e)) <= MaxAttempts + n - 1
      BY UncountedType DEF TypeOK, Row, AttemptInv
    <3>2. CASE e = d
      <4>1. /\ IsFiniteSet(Uncounted(d) \ {w})
            /\ Cardinality(Uncounted(d) \ {w}) = Cardinality(Uncounted(d)) - 1
        BY <2>3, <3>1, <3>2, FS_RemoveElement
      <4>2. /\ Cardinality(Uncounted(d)') \in Nat
            /\ Cardinality(Uncounted(d)') <= Cardinality(Uncounted(d)) - 1
        BY <2>4, <4>1, FS_Subset, FS_CardinalityType
      <4> QED  BY <2>2, <3>1, <3>2, <4>2, AttemptsAssumption
    <3>3. CASE e # d
      <4>1. /\ Cardinality(Uncounted(e)') \in Nat
            /\ Cardinality(Uncounted(e)') <= Cardinality(Uncounted(e))
        BY <2>5, <3>1, <3>3, FS_Subset, FS_CardinalityType
      <4> QED  BY <2>2, <3>1, <3>3, <4>1, AttemptsAssumption
    <3> QED  BY <3>2, <3>3
  <2>7. PushedHadAttempts'
    BY <1>1, <2>1 DEF AttemptInv, PushedHadAttempts, Visits
  <2> QED  BY <2>6, <2>7 DEF AttemptInv
<1>5. CASE RefreshAttempts(w, d)
  <2>1. /\ pc[w] = "refresh" /\ pc'[w] = "counted" /\ UNCHANGED <<todo, row>>
        /\ \A e \in Devices : e # d => snap'[w][e] = snap[w][e]
    BY <1>5 DEF RefreshAttempts, TypeOK
  <2>2. \A e \in Devices : w \in Uncounted(e)' => w \in Uncounted(e)
    BY <1>1, <2>1 DEF Uncounted, InLoop, Attempting, Visits
  <2> QED  BY <1>1, <2>1, <2>2, AttemptWorker
<1> QED  BY <1>2, <1>3, <1>4, <1>5, LoopSteps

\* Outside the loop nothing is counted; a pass that loads the rows may count an
\* attempt only where one is left.
LEMMA AttemptPass ==
    ASSUME TypeOK, NEW n \in Nat, AttemptInv(n), NEW w \in Workers,
           \A d \in Devices : Cardinality(Uncounted(d)') <= n,
           \/ TakeTask(w) \/ Acquire(w) \/ AcquireNothing(w) \/ LapsedStart(w)
           \/ \E d \in Devices : LapsedCancel(w, d)
           \/ LapsedFinish(w) \/ DeferToQuietPeriodEnd(w) \/ NoTarget(w)
           \/ LoadDeliveries(w) \/ Finish(w) \/ Crash(w)
    PROVE  AttemptInv(n)'
<1> USE DEF deliveries
<1>1. CASE LoadDeliveries(w)
  <2>1. /\ pc[w] = "acquired" /\ pc'[w] = "sending" /\ UNCHANGED row
        /\ snap'[w] = row
        /\ \A v \in Workers : v # w =>
             pc'[v] = pc[v] /\ todo'[v] = todo[v] /\ snap'[v] = snap[v]
    BY <1>1 DEF LoadDeliveries, TypeOK
  <2>2. PushedHadAttempts'
    BY <2>1 DEF AttemptInv, PushedHadAttempts, Visits
  <2>3. ASSUME NEW d \in Devices, row[d].attempts >= MaxAttempts
        PROVE  Uncounted(d)' \subseteq Uncounted(d)
    <3> SUFFICES ASSUME NEW v \in Workers, v \in Uncounted(d)'
                 PROVE  v \in Uncounted(d)
      BY DEF Uncounted
    <3>1. row[d].attempts \in Nat  BY DEF TypeOK, Row
    <3>2. v # w  BY <2>1, <2>3, <3>1, AttemptsAssumption DEF Uncounted
    <3> QED  BY <2>1, <3>2 DEF Uncounted, InLoop, Attempting, Visits
  <2>4. ASSUME NEW d \in Devices
        PROVE  row'[d].attempts + Cardinality(Uncounted(d)') <= MaxAttempts + n - 1
    <3>1. row[d].attempts \in Nat /\ row'[d].attempts = row[d].attempts
      BY <2>1 DEF TypeOK, Row
    <3>2. CASE row[d].attempts < MaxAttempts
      <4>1. Cardinality(Uncounted(d)') \in Nat
        <5>1. Uncounted(d)' \subseteq Workers  BY DEF Uncounted
        <5> QED  BY <5>1, WorkersAssumption, FS_Subset, FS_CardinalityType
      <4> QED  BY <3>1, <3>2, <4>1, AttemptsAssumption
    <3>3. CASE row[d].attempts >= MaxAttempts
      <4>1. /\ Cardinality(Uncounted(d)') \in Nat /\ Cardinality(Uncounted(d)) \in Nat
            /\ Cardinality(Uncounted(d)') <= Cardinality(Uncounted(d))
        BY <2>3, <3>3, UncountedType, FS_Subset, FS_CardinalityType
      <4>2. row[d].attempts + Cardinality(Uncounted(d)) <= MaxAttempts + n - 1
        BY DEF AttemptInv
      <4> QED  BY <3>1, <4>1, <4>2, AttemptsAssumption
    <3> QED  BY <3>1, <3>2, <3>3, AttemptsAssumption
  <2> QED  BY <2>2, <2>4 DEF AttemptInv
<1>2. CASE \E d \in Devices : LapsedCancel(w, d)
  <2>1. PICK d \in Devices : LapsedCancel(w, d)  BY <1>2
  <2>2. "failed" \in RowStatus /\ None \in Timer  BY DEF RowStatus, Timer
  <2>3. \A e \in Devices : row'[e].attempts = row[e].attempts
    BY <2>1, <2>2, AttemptsKept DEF LapsedCancel, CancelDelivery
  <2>4. /\ pc'[w] = "lapsed"
        /\ \A v \in Workers : v # w =>
             pc'[v] = pc[v] /\ todo'[v] = todo[v] /\ snap'[v] = snap[v]
    BY <2>1 DEF LapsedCancel, TypeOK
  <2> QED  BY <2>3, <2>4, AttemptWorker DEF Uncounted, InLoop, Attempting
<1>3. CASE \/ TakeTask(w) \/ Acquire(w) \/ LapsedStart(w)
  <2>1. /\ pc'[w] \in {"taken", "acquired", "lapsed"} /\ UNCHANGED row
        /\ \A v \in Workers : v # w =>
             pc'[v] = pc[v] /\ todo'[v] = todo[v] /\ snap'[v] = snap[v]
    BY <1>3 DEF TakeTask, Acquire, LapsedStart, TypeOK
  <2> QED  BY <2>1, AttemptWorker DEF Uncounted, InLoop, Attempting
<1>4. CASE \/ AcquireNothing(w) \/ LapsedFinish(w) \/ DeferToQuietPeriodEnd(w)
           \/ NoTarget(w) \/ Finish(w) \/ Crash(w)
  <2>1. UNCHANGED row /\ Leave(w)
    BY <1>4 DEF AcquireNothing, LapsedFinish, DeferToQuietPeriodEnd, NoTarget,
                Finish, Crash, EndPass
  <2>2. /\ pc'[w] = "idle"
        /\ \A v \in Workers : v # w =>
             pc'[v] = pc[v] /\ todo'[v] = todo[v] /\ snap'[v] = snap[v]
    BY <2>1 DEF Leave, TypeOK
  <2> QED  BY <2>1, <2>2, AttemptWorker DEF Uncounted, InLoop, Attempting
<1> QED  BY <1>1, <1>2, <1>3, <1>4

\* The steps of everybody else: the workers' copies and the rows lose at most
\* a minute of their dates.
LEMMA OthersKeep ==
    ASSUME TypeOK,
           \/ UNCHANGED vars
           \/ BeatStep \/ OwnerStep \/ Surround \/ Tick
           \/ \E b \in Beats : Publish(b) \/ PublishFails(b)
           \/ \E r \in Requests :
                Fetch(r) \/ RequestStep(r) \/ QueueDelayFails(r)
    PROVE  /\ UNCHANGED <<rows, pc, todo>>
           /\ UNCHANGED <<row, snap>> \/ Tick
           /\ \A d \in Devices : /\ row'[d].attempts = row[d].attempts
                                 /\ row'[d].status = row[d].status
           /\ \A w \in Workers, d \in Devices :
                  snap'[w][d].attempts = snap[w][d].attempts
<1>1. CASE Tick
  <2>1. /\ row \in [Devices -> Row] /\ snap \in [Workers -> [Devices -> Row]]
        /\ row' = [d \in Devices |-> [row[d] EXCEPT !.retry = Sooner(@)]]
        /\ snap' = [w \in Workers |-> [d \in Devices |->
                      [snap[w][d] EXCEPT !.retry = Sooner(@)]]]
        /\ UNCHANGED <<rows, pc, todo>>
    BY <1>1 DEF Tick, TypeOK
  <2>2. \A d \in Devices : /\ row'[d].attempts = row[d].attempts
                           /\ row'[d].status = row[d].status
    BY <2>1 DEF Row
  <2>3. ASSUME NEW w \in Workers, NEW d \in Devices
        PROVE  snap'[w][d].attempts = snap[w][d].attempts
    <3>1. /\ snap[w][d] \in Row
          /\ snap'[w][d] = [snap[w][d] EXCEPT !.retry = Sooner(@)]
      BY <2>1
    <3> QED  BY <3>1 DEF Row
  <2> QED  BY <1>1, <2>1, <2>2, <2>3
<1>2. CASE ~Tick
  BY <1>2 DEF vars, BeatStep, RetrySweep, DispatchScheduled, RequeueStuck,
         BeatFrame, Publish, PublishFails, RequestStep, Fetch, EndFetch,
         QueueUpdate, QueueDelay, QueueDelayFails, QueueRollback, RequestFrame,
         OwnerStep, EditRead, EditSave, SoftDelete, OwnerFrame, Surround,
         ChangeSubscription, ChangeApplication, ChangeLink, ChangeToken,
         BeginAppQuiet, BeginDeviceQuiet, SurroundFrame, deliveries, working
<1> QED  BY <1>1, <1>2

LEMMA AttemptNext ==
    ASSUME TypeOK, NEW n \in Nat, AttemptInv(n), [Next]_vars,
           \A d \in Devices : Cardinality(Uncounted(d)') <= n
    PROVE  AttemptInv(n)'
<1>1. ASSUME NEW w \in Workers, WorkerStep(w) \/ Crash(w) PROVE AttemptInv(n)'
  BY <1>1, AttemptPass, AttemptVisit DEF WorkerStep
<1>2. CASE \/ UNCHANGED vars
           \/ BeatStep \/ OwnerStep \/ Surround \/ Tick
           \/ \E b \in Beats : Publish(b) \/ PublishFails(b)
           \/ \E r \in Requests :
                Fetch(r) \/ RequestStep(r) \/ QueueDelayFails(r)
  <2>1. /\ UNCHANGED <<pc, todo>>
        /\ \A d \in Devices : row'[d].attempts = row[d].attempts
        /\ \A w \in Workers, d \in Devices :
               snap'[w][d].attempts = snap[w][d].attempts
    BY <1>2, OthersKeep
  <2>2. PushedHadAttempts'
    BY <2>1 DEF AttemptInv, PushedHadAttempts, Visits
  <2>3. \A d \in Devices : Uncounted(d)' \subseteq Uncounted(d)
    BY <2>1 DEF Uncounted, InLoop, Attempting, Visits
  <2> QED  BY <2>1, <2>2, <2>3, AttemptFewer
<1> QED  BY <1>1, <1>2 DEF Next

LEMMA AttemptInit == ASSUME NEW n \in Nat PROVE Init => AttemptInv(n)
<1> SUFFICES ASSUME Init PROVE AttemptInv(n)  OBVIOUS
<1>1. \A w \in Workers : pc[w] = "idle"  BY DEF Init
<1>2. PushedHadAttempts  BY <1>1 DEF PushedHadAttempts
<1>3. ASSUME NEW d \in Devices
      PROVE  row[d].attempts + Cardinality(Uncounted(d)) <= MaxAttempts + n - 1
  <2>1. Uncounted(d) = {}  BY <1>1 DEF Uncounted, InLoop, Attempting
  <2>2. Cardinality(Uncounted(d)) = 0  BY <2>1, FS_EmptySet
  <2>3. row[d].attempts = 0  BY DEF Init, NewRow
  <2> QED  BY <2>2, <2>3, AttemptsAssumption
<1> QED  BY <1>2, <1>3 DEF AttemptInv

\* Whatever overlaps, passes that outlive the watchdog's patience and PATCHes
\* saved over a pass included, attempt_count outgrows MAX_DELIVERY_ATTEMPTS by
\* at most one per further worker: each pass counts at most one attempt at a
\* delivery, and none if it loaded the row with the attempts used up.
THEOREM OverlapCorrect == Spec => []OverlapBoundsAttempts
<1> DEFINE n == Cardinality(Workers)
           Inv == TypeOK /\ AttemptInv(n)
<1>0. n \in Nat  BY WorkersAssumption, FS_CardinalityType
<1>1. Init => Inv  BY <1>0, TypeInit, AttemptInit
<1>2. Inv /\ [Next]_vars => Inv'
  <2> SUFFICES ASSUME Inv, [Next]_vars PROVE Inv'  OBVIOUS
  <2>1. ASSUME NEW d \in Devices PROVE Cardinality(Uncounted(d)') <= n
    <3>1. Uncounted(d)' \subseteq Workers  BY DEF Uncounted
    <3> QED  BY <3>1, WorkersAssumption, FS_Subset
  <2>2. AttemptInv(n)'  BY <1>0, <2>1, AttemptNext
  <2> QED  BY <2>2, TypeNext
<1>3. Inv => OverlapBoundsAttempts
  <2> SUFFICES ASSUME Inv, NEW d \in Devices
               PROVE  row[d].attempts <= MaxAttempts + n - 1
    BY DEF OverlapBoundsAttempts
  <2>1. Cardinality(Uncounted(d)) \in Nat /\ row[d].attempts \in Nat
    BY UncountedType DEF TypeOK, Row
  <2>2. row[d].attempts + Cardinality(Uncounted(d)) <= MaxAttempts + n - 1
    BY DEF AttemptInv
  <2> QED  BY <1>0, <2>1, <2>2, AttemptsAssumption
<1> QED  BY <1>1, <1>2, <1>3, PTL DEF Spec

\* The provider is never asked more than MAX_DELIVERY_ATTEMPTS times to push one
\* delivery without accepting it, where one worker works at a time: no pass
\* outlives the watchdog's threshold, and no PATCH is saved over it.
THEOREM AttemptsCorrect ==
    ASSUME "edit" \notin Changes, "overrun" \notin Faults
    PROVE  Spec => []AttemptsBounded
<1> DEFINE Inv == TypeOK /\ OwnerInv /\ AttemptInv(1)
<1>1. Init => Inv  BY TypeInit, OwnerInit, AttemptInit
<1>2. Inv /\ [Next]_vars => Inv'
  <2> SUFFICES ASSUME Inv, [Next]_vars PROVE Inv'  OBVIOUS
  <2>1. TypeOK' /\ OwnerInv'  BY TypeNext, OwnerNext
  <2>2. ASSUME NEW d \in Devices PROVE Cardinality(Uncounted(d)') <= 1
    <3>1. \A v, w \in Uncounted(d)' : v = w
      BY <2>1 DEF Uncounted, OwnerInv, Working, InLoop, Attempting
    <3>2. CASE Uncounted(d)' = {}  BY <3>2, FS_EmptySet
    <3>3. CASE Uncounted(d)' # {}
      <4>1. PICK w : w \in Uncounted(d)'  BY <3>3
      <4>2. Uncounted(d)' = {w}  BY <3>1, <4>1
      <4>3. Cardinality({w}) = 1  BY FS_Singleton
      <4> QED  BY <4>2, <4>3
    <3> QED  BY <3>2, <3>3
  <2>3. AttemptInv(1)'  BY <2>2, AttemptNext
  <2> QED  BY <2>1, <2>3
<1>3. Inv => AttemptsBounded
  <2> SUFFICES ASSUME Inv, NEW d \in Devices
               PROVE  row[d].attempts <= MaxAttempts
    BY DEF AttemptsBounded
  <2>1. Cardinality(Uncounted(d)) \in Nat /\ row[d].attempts \in Nat
    BY UncountedType DEF TypeOK, Row
  <2>2. row[d].attempts + Cardinality(Uncounted(d)) <= MaxAttempts + 1 - 1
    BY DEF AttemptInv
  <2> QED  BY <2>1, <2>2, AttemptsAssumption
<1> QED  BY <1>1, <1>2, <1>3, PTL DEF Spec

-----------------------------------------------------------------------------
(* What a pass leaves behind *)

Closed == {"sent", "partial", "failed"}

\* The retry sweep will find d if it is to be attempted again.
Dated(d) ==
    row[d].status = "pending" /\ row[d].attempts < MaxAttempts =>
        row[d].retry # None

Settled == \A d \in rows : Dated(d)

\* A request that has made a failed or partial notification QUEUED, and may
\* put that status back.
Held(r) == rpc[r] \in {"queued", "rollback"} /\ copy[r] \in {"failed", "partial"}

\* A pass works on the rows as they are, but for the one it is attempting.
CopyMatches ==
    \A w \in Workers, d \in Devices :
        InLoop(w) /\ d \in todo[w] /\ ~(Attempting(w) /\ Visits(w, d)) =>
            snap[w][d] = row[d]

\* What it has visited is settled.
VisitedIsSettled ==
    /\ \A w \in Workers : InLoop(w) =>
           rows # {} /\ \A d \in rows \ todo[w] : Dated(d)
    /\ \A w \in Workers : pc[w] = "lapsed" =>
           \A d \in rows \ todo[w] : row[d].status # "pending"

\* A request may put back only a status under which everything was settled.
HeldIsSettled == \A r \in Requests : Held(r) => Settled

\* A request between its UPDATE and the end of its publication or rollback.
Queuing(r) == rpc[r] \in {"queued", "rollback"}
Publishing(b) == beat[b] = "publish"
Taken(w) == pc[w] = "taken"

\* As long as there are no delivery rows, and so nothing for the retry sweep, a
\* QUEUED notification has one message, or one process about to publish or take
\* one, and another notification has none.
OneMessage ==
    rows = {} =>
        /\ status # "queued" => /\ tasks = 0
                                /\ \A w \in Workers : ~Taken(w)
                                /\ \A b \in Beats : ~Publishing(b)
                                /\ \A r \in Requests : ~Queuing(r)
        /\ tasks > 0 => /\ tasks = 1
                        /\ \A w \in Workers : ~Taken(w)
                        /\ \A b \in Beats : ~Publishing(b)
                        /\ \A r \in Requests : ~Queuing(r)
        /\ \A w \in Workers : Taken(w) =>
               /\ \A v \in Workers : Taken(v) => v = w
               /\ \A b \in Beats : ~Publishing(b)
               /\ \A r \in Requests : ~Queuing(r)
        /\ \A b \in Beats : Publishing(b) =>
               /\ \A c \in Beats : Publishing(c) => c = b
               /\ \A r \in Requests : ~Queuing(r)
        /\ \A r, s \in Requests : Queuing(r) /\ Queuing(s) => r = s

ForgetInv ==
    /\ CopyMatches
    /\ VisitedIsSettled
    /\ HeldIsSettled
    /\ OneMessage
    /\ status \in Closed => Settled

LEMMA ForgetInit == Init => ForgetInv
<1> SUFFICES ASSUME Init PROVE ForgetInv  OBVIOUS
<1>1. /\ \A w \in Workers : pc[w] = "idle"
      /\ \A r \in Requests : rpc[r] = "new"
      /\ \A b \in Beats : beat[b] = "idle"
      /\ tasks = 0 /\ status \in {"draft", "scheduled"}
  BY DEF Init
<1> QED  BY <1>1 DEF ForgetInv, CopyMatches, VisitedIsSettled, HeldIsSettled,
            OneMessage, Held, Queuing, Publishing, Taken, InLoop, Attempting,
            Closed

\* What a step of the loop writes: a date stays, and whatever the pass is done
\* with has one if it needs one.
LEMMA VisitWrites ==
    ASSUME TypeOK, CopyMatches, NEW w \in Workers, NEW d \in Devices,
           VisitDelivery(w, d)
    PROVE  /\ \A e \in Devices : e # d => row'[e] = row[e]
           /\ Dated(d) => Dated(d)'
           /\ pc'[w] = "sending" => Dated(d)'
<1>0. row[d] \in Row /\ snap[w][d] \in Row /\ row[d].attempts \in Nat
  BY DEF TypeOK, Row
<1>1. CASE SkipSent(w, d) \/ WaitForRetry(w, d) \/ AttemptsExhausted(w, d)
  <2>1. /\ row' = row /\ pc[w] = "sending" /\ d \in todo[w]
        /\ \/ snap[w][d].status = "sent"
           \/ snap[w][d].retry # None
           \/ snap[w][d].status # "sent" /\ ~CanRetry(snap[w][d])
    BY <1>1 DEF SkipSent, WaitForRetry, AttemptsExhausted, Ready, Visits, InFuture
  <2>2. snap[w][d] = row[d]
    BY <2>1 DEF CopyMatches, InLoop, Attempting
  <2> QED  BY <1>0, <2>1, <2>2 DEF Dated, CanRetry
<1>2. CASE CancelIneligible(w, d)
  <2>1. row' = [row EXCEPT ![d].status = "failed", ![d].retry = None]
    BY <1>2 DEF CancelIneligible, CancelDelivery
  <2>2. row'[d].status = "failed"  BY <1>0, <2>1 DEF TypeOK, Row
  <2> QED  BY <2>1, <2>2 DEF Dated, TypeOK
<1>3. CASE DeferDelivery(w, d)
  <2>1. row' = [row EXCEPT ![d].status = "pending", ![d].retry = deviceQuiet[d]]
    BY <1>3 DEF DeferDelivery
  <2>2. row'[d].retry = deviceQuiet[d]  BY <1>0, <2>1 DEF TypeOK, Row
  <2>3. deviceQuiet[d] # None  BY NoneAssumption DEF TypeOK
  <2> QED  BY <2>1, <2>2, <2>3 DEF Dated, TypeOK
<1>4. CASE \/ Push(w, d) \/ PushAnswerLost(w, d) \/ MarkSentFails(w, d)
           \/ InvalidateToken(w, d) \/ RefreshAttempts(w, d)
  <2>1. row' = row /\ pc'[w] # "sending"
    BY <1>4 DEF Push, PushAnswerLost, MarkSentFails, InvalidateToken,
                RefreshAttempts, TypeOK
  <2> QED  BY <2>1 DEF Dated
<1>5. CASE MarkSent(w, d) \/ ResetFails(w, d)
  <2>1. row' = [row EXCEPT ![d].status = "sent", ![d].retry = None]
    BY <1>5 DEF MarkSent, ResetFails
  <2>2. row'[d].status = "sent"  BY <1>0, <2>1 DEF TypeOK, Row
  <2> QED  BY <2>1, <2>2 DEF Dated, TypeOK
<1>6. CASE CountAttempt(w, d)
  <2>1. row' = [row EXCEPT ![d].attempts = row[d].attempts + 1] /\ pc'[w] = "refresh"
    BY <1>6 DEF CountAttempt, TypeOK
  <2>2. /\ row'[d].attempts = row[d].attempts + 1
        /\ row'[d].status = row[d].status /\ row'[d].retry = row[d].retry
    BY <1>0, <2>1 DEF TypeOK, Row
  <2> QED  BY <1>0, <2>1, <2>2, AttemptsAssumption DEF Dated, TypeOK
<1>7. CASE SaveFailure(w, d)
  <2> DEFINE t == ComputeNextRetry(snap[w][d].attempts)
  <2>1. \/ row' = [row EXCEPT ![d].status = "failed", ![d].retry = None]
        \/ row' = [row EXCEPT ![d].status = "pending", ![d].retry = t]
    BY <1>7 DEF SaveFailure
  <2>2. t # None
    BY AttemptsAssumption, NoneAssumption DEF ComputeNextRetry
  <2> HIDE DEF t
  <2>3. row'[d].status = "failed" \/ row'[d].retry = t
    BY <1>0, <2>1 DEF TypeOK, Row
  <2>4. \A e \in Devices : e # d => row'[e] = row[e]
    BY <2>1 DEF TypeOK
  <2> QED  BY <2>2, <2>3, <2>4 DEF Dated
<1> QED  BY <1>1, <1>2, <1>3, <1>4, <1>5, <1>6, <1>7 DEF VisitDelivery

LEMMA ForgetVisit ==
    ASSUME TypeOK, OwnerInv, ForgetInv, NEW w \in Workers, NEW d \in Devices,
           VisitDelivery(w, d)
    PROVE  ForgetInv'
<1> USE DEF ForgetInv
<1>1. /\ Visits(w, d) /\ InLoop(w) /\ InLoop(w)' /\ d \in todo[w]
      /\ \A e \in Devices : Visits(w, e) => e = d
      /\ rows \in SUBSET Devices
  BY LoopSteps, VisitsOne DEF Visits, TypeOK
<1>2. status = "processing" /\ UNCHANGED <<status, rows, rpc, copy>>
  <2>1. Working(w)  BY <1>1 DEF Working, InLoop, Attempting
  <2>2. UNCHANGED <<status, rows, rpc, copy>>
    BY DEF VisitDelivery, SkipSent, CancelIneligible, WaitForRetry,
           DeferDelivery, AttemptsExhausted, Push, PushAnswerLost, MarkSent,
           MarkSentFails, ResetFails, InvalidateToken, CountAttempt,
           RefreshAttempts, SaveFailure, LoopFrame, ErrorFrame, notification, api
  <2> QED  BY <2>1, <2>2 DEF OwnerInv
<1>3. \A v \in Workers : v # w => ~InLoop(v)' /\ pc'[v] # "lapsed"
  <2>1. Working(w)  BY <1>1 DEF Working, InLoop, Attempting
  <2>2. \A v \in Workers : v # w => pc'[v] = pc[v]  BY LoopSteps
  <2> QED  BY <2>1, <2>2, Alone DEF InLoop, Attempting
<1>4. /\ \A e \in Devices : e # d => row'[e] = row[e]
      /\ Dated(d) => Dated(d)'
      /\ pc'[w] = "sending" => Dated(d)'
  BY VisitWrites
<1>5. /\ \A e \in Devices : e \in todo'[w] => e \in todo[w]
      /\ \A e \in Devices : e # d /\ e \in todo[w] => e \in todo'[w]
      /\ d \notin todo'[w] => pc'[w] = "sending"
      /\ d \in todo'[w] => Attempting(w)' /\ todo'[w] = todo[w]
      /\ \A e \in Devices : e # d => snap'[w][e] = snap[w][e]
  <2>1. CASE CountAttempt(w, d) \/ RefreshAttempts(w, d)
    BY <1>1, <2>1 DEF CountAttempt, RefreshAttempts, Attempting, TypeOK
  <2> QED  BY <1>1, <2>1, LoopSteps DEF Attempting
<1>6. CopyMatches'
  <2> SUFFICES ASSUME NEW e \in Devices, e \in todo'[w],
                      ~(Attempting(w)' /\ Visits(w, e)')
               PROVE  snap'[w][e] = row'[e]
    BY <1>3 DEF CopyMatches
  <2>1. e # d
    <3>1. CASE d \in todo'[w]
      <4>1. Visits(w, d)'  BY <1>1, <1>5, <3>1 DEF Visits
      <4> QED  BY <1>5, <3>1, <4>1
    <3> QED  BY <3>1
  <2>2. snap[w][e] = row[e]  BY <1>1, <1>5, <2>1 DEF CopyMatches
  <2> QED  BY <1>4, <1>5, <2>1, <2>2
<1>7. \A e \in Devices : Dated(e) => Dated(e)'
  <2> SUFFICES ASSUME NEW e \in Devices, Dated(e) PROVE Dated(e)'  OBVIOUS
  <2>1. CASE e = d  BY <1>4, <2>1
  <2>2. CASE e # d  BY <1>4, <2>2 DEF Dated
  <2> QED  BY <2>1, <2>2
<1>8. VisitedIsSettled'
  <2>1. rows # {} /\ \A e \in rows \ todo[w] : Dated(e)
    BY <1>1 DEF VisitedIsSettled
  <2>2. ASSUME NEW e \in rows \ todo'[w] PROVE Dated(e)'
    <3>1. CASE e = d  BY <1>4, <1>5, <2>2, <3>1
    <3>2. CASE e # d  BY <1>1, <1>5, <1>7, <2>1, <2>2, <3>2
    <3> QED  BY <3>1, <3>2
  <2>3. pc'[w] # "lapsed"  BY <1>1 DEF InLoop, Attempting
  <2> QED  BY <1>2, <1>3, <2>1, <2>2, <2>3 DEF VisitedIsSettled
<1>9. HeldIsSettled'
  BY <1>1, <1>2, <1>7 DEF HeldIsSettled, Held, Settled
<1>10. OneMessage'
  BY <1>1, <1>2 DEF OneMessage, VisitedIsSettled
<1>11. status' \notin Closed  BY <1>2 DEF Closed
<1> QED  BY <1>6, <1>8, <1>9, <1>10, <1>11

\* A step that leaves the rows alone and takes a worker, if any, out of its loops.
LEMMA ForgetOutside ==
    ASSUME TypeOK, ForgetInv, NEW w \in Workers, UNCHANGED <<rows, row, rpc, copy>>,
           ~InLoop(w)', pc'[w] # "lapsed",
           \A v \in Workers : v # w =>
                pc'[v] = pc[v] /\ todo'[v] = todo[v] /\ snap'[v] = snap[v],
           OneMessage', status' \in Closed => Settled
    PROVE  ForgetInv'
<1>1. CopyMatches'
  BY DEF ForgetInv, CopyMatches, InLoop, Attempting, Visits
<1>2. VisitedIsSettled'
  BY DEF ForgetInv, VisitedIsSettled, InLoop, Attempting, Dated
<1>3. HeldIsSettled'
  BY DEF ForgetInv, HeldIsSettled, Held, Settled, Dated
<1>4. status' \in Closed => Settled'
  BY DEF Settled, Dated
<1> QED  BY <1>1, <1>2, <1>3, <1>4 DEF ForgetInv

LEMMA ForgetPass ==
    ASSUME TypeOK, OwnerInv, ForgetInv, NEW w \in Workers,
           \/ TakeTask(w) \/ Acquire(w) \/ AcquireNothing(w)
           \/ LapsedFinish(w) \/ DeferToQuietPeriodEnd(w) \/ NoTarget(w)
           \/ Finish(w) \/ Crash(w)
    PROVE  ForgetInv'
<1> USE DEF deliveries, api, notification
<1>0. /\ UNCHANGED <<rows, row, rpc, copy>> /\ tasks \in Nat
      /\ rows \in SUBSET Devices
  BY DEF TakeTask, Acquire, AcquireNothing, LapsedFinish, DeferToQuietPeriodEnd,
         NoTarget, Finish, Crash, EndPass, PassFrame, TypeOK
<1>1. \A v \in Workers : v # w =>
          pc'[v] = pc[v] /\ todo'[v] = todo[v] /\ snap'[v] = snap[v]
  BY DEF TakeTask, Acquire, AcquireNothing, LapsedFinish, DeferToQuietPeriodEnd,
         NoTarget, Finish, Crash, EndPass, Leave, TypeOK
<1>2. beat' = beat
  BY DEF TakeTask, Acquire, AcquireNothing, LapsedFinish, DeferToQuietPeriodEnd,
         NoTarget, Finish, Crash, EndPass, PassFrame
<1>3. /\ \A b \in Beats : Publishing(b)' <=> Publishing(b)
      /\ \A r \in Requests : Queuing(r)' <=> Queuing(r)
      /\ \A v \in Workers : v # w => (Taken(v)' <=> Taken(v))
  BY <1>0, <1>1, <1>2 DEF Publishing, Queuing, Taken
<1>4. CASE TakeTask(w)
  <2>1. /\ tasks > 0 /\ tasks' = tasks - 1 /\ status' = status /\ Taken(w)'
        /\ pc'[w] = "taken"
    BY <1>4 DEF TakeTask, Taken, TypeOK
  <2>2. OneMessage'
    BY <1>0, <1>3, <2>1 DEF ForgetInv, OneMessage
  <2> QED  BY <1>0, <1>1, <2>1, <2>2, ForgetOutside
           DEF InLoop, Attempting, ForgetInv
<1>5. CASE Acquire(w)
  <2>1. /\ Taken(w) /\ ~Taken(w)' /\ tasks' = tasks /\ status' = "processing"
        /\ pc'[w] = "acquired"
    BY <1>5 DEF Acquire, Taken, TypeOK
  <2>2. OneMessage'
    BY <1>0, <1>3, <2>1 DEF ForgetInv, OneMessage
  <2> QED  BY <1>0, <1>1, <2>1, <2>2, ForgetOutside DEF InLoop, Attempting, Closed
<1>6. CASE AcquireNothing(w) \/ Crash(w)
  <2>1. ~Taken(w)' /\ tasks' = tasks /\ status' = status /\ pc'[w] = "idle"
    BY <1>6 DEF AcquireNothing, Crash, Leave, Taken, TypeOK
  <2>2. OneMessage'
    BY <1>0, <1>3, <2>1 DEF ForgetInv, OneMessage
  <2> QED  BY <1>0, <1>1, <2>1, <2>2, ForgetOutside
           DEF InLoop, Attempting, ForgetInv
<1>7. CASE LapsedFinish(w) \/ DeferToQuietPeriodEnd(w) \/ NoTarget(w) \/ Finish(w)
  <2>1. /\ pc[w] \in {"lapsed", "acquired", "sending"} /\ pc'[w] = "idle"
        /\ ~Taken(w) /\ ~Taken(w)' /\ tasks' = tasks
        /\ status' \in {"failed", "scheduled", "no_target", "sent", "partial"}
    BY <1>7 DEF LapsedFinish, DeferToQuietPeriodEnd, NoTarget, Finish,
                FinalStatus, EndPass, Leave, Taken, TypeOK
  <2>2. status = "processing"  BY <2>1 DEF OwnerInv, Working
  <2>3. OneMessage'
    BY <1>0, <1>3, <2>1, <2>2 DEF ForgetInv, OneMessage
  <2>4. status' \in Closed => Settled
    <3>1. CASE LapsedFinish(w)
      BY <3>1 DEF LapsedFinish, ForgetInv, VisitedIsSettled, Settled, Dated
    <3>2. CASE Finish(w)
      BY <3>2 DEF Finish, ForgetInv, VisitedIsSettled, Settled, InLoop
    <3>3. CASE DeferToQuietPeriodEnd(w) \/ NoTarget(w)
      BY <3>3 DEF DeferToQuietPeriodEnd, NoTarget, EndPass, Closed
    <3> QED  BY <1>7, <3>1, <3>2, <3>3
  <2> QED  BY <1>0, <1>1, <2>1, <2>3, <2>4, ForgetOutside DEF InLoop, Attempting
<1> QED  BY <1>4, <1>5, <1>6, <1>7

\* The steps that list, or load, the deliveries, and the cancellations.
LEMMA ForgetLoad ==
    ASSUME TypeOK, OwnerInv, ForgetInv, NEW w \in Workers,
           \/ LapsedStart(w) \/ LoadDeliveries(w)
           \/ \E d \in Devices : LapsedCancel(w, d)
    PROVE  ForgetInv'
<1> USE DEF deliveries, api, notification, PassFrame
<1>0. /\ UNCHANGED <<status, rpc, copy, tasks, beat>>
      /\ pc[w] \in {"acquired", "lapsed"}
      /\ rows \in SUBSET Devices
  BY DEF LapsedStart, LoadDeliveries, LapsedCancel, TypeOK
<1>1. /\ status = "processing" /\ Working(w)
      /\ \A v \in Workers : v # w => ~InLoop(v) /\ ~Attempting(v) /\ pc[v] # "lapsed"
  <2>1. Working(w)  BY <1>0 DEF Working
  <2> QED  BY <2>1, Alone DEF OwnerInv
<1>2. /\ \A v \in Workers : v # w => pc'[v] = pc[v]
      /\ ~Taken(w) /\ ~Taken(w)'
  BY DEF LapsedStart, LoadDeliveries, LapsedCancel, Taken, TypeOK
<1>3. /\ \A b \in Beats : Publishing(b)' <=> Publishing(b)
      /\ \A r \in Requests : Queuing(r)' <=> Queuing(r)
      /\ \A v \in Workers : Taken(v)' <=> Taken(v)
      /\ \A v \in Workers : v # w => ~InLoop(v)' /\ pc'[v] # "lapsed"
  BY <1>0, <1>1, <1>2 DEF Publishing, Queuing, Taken, InLoop, Attempting
<1>4. status' \notin Closed  BY <1>0, <1>1 DEF Closed
<1>5. CASE LapsedStart(w)
  <2>1. /\ pc'[w] = "lapsed" /\ UNCHANGED <<rows, row>>
        /\ todo'[w] = {d \in rows : row[d].status # "sent"}
    BY <1>5 DEF LapsedStart, TypeOK
  <2>2. CopyMatches'  BY <1>3, <2>1 DEF CopyMatches, InLoop, Attempting
  <2>3. VisitedIsSettled'
    BY <1>3, <2>1 DEF VisitedIsSettled, InLoop, Attempting
  <2>4. HeldIsSettled'
    BY <1>0, <2>1 DEF ForgetInv, HeldIsSettled, Held, Settled, Dated
  <2>5. OneMessage'  BY <1>0, <1>3, <2>1 DEF ForgetInv, OneMessage
  <2> QED  BY <1>4, <2>2, <2>3, <2>4, <2>5 DEF ForgetInv
<1>6. CASE LoadDeliveries(w)
  <2>1. /\ pc'[w] = "sending" /\ row' = row /\ rows' # {}
        /\ rows # {} => rows' = rows
        /\ todo'[w] = rows' /\ snap'[w] = row
    BY <1>6 DEF LoadDeliveries, TypeOK
  <2>2. CopyMatches'  BY <1>3, <2>1 DEF CopyMatches
  <2>3. VisitedIsSettled'  BY <1>3, <2>1 DEF VisitedIsSettled
  <2>4. HeldIsSettled'
    <3>1. CASE rows = {}
      <4>1. \A r \in Requests : ~Queuing(r)
        BY <1>1, <3>1 DEF ForgetInv, OneMessage
      <4> QED  BY <1>0, <4>1 DEF HeldIsSettled, Held, Queuing
    <3>2. CASE rows # {}
      BY <1>0, <2>1, <3>2 DEF ForgetInv, HeldIsSettled, Held, Settled, Dated
    <3> QED  BY <3>1, <3>2
  <2>5. OneMessage'  BY <2>1 DEF OneMessage
  <2> QED  BY <1>4, <2>2, <2>3, <2>4, <2>5 DEF ForgetInv
<1>7. ASSUME NEW d \in Devices, LapsedCancel(w, d) PROVE ForgetInv'
  <2>1. /\ pc[w] = "lapsed" /\ pc'[w] = "lapsed" /\ rows' = rows
        /\ todo'[w] = todo[w] \ {d}
        /\ row' = [row EXCEPT ![d].status = "failed", ![d].retry = None]
    BY <1>7 DEF LapsedCancel, CancelDelivery, TypeOK
  <2>2. /\ row'[d].status = "failed"
        /\ \A e \in Devices : e # d => row'[e] = row[e]
    BY <2>1 DEF TypeOK, Row
  <2>3. CopyMatches'  BY <1>3, <2>1 DEF CopyMatches, InLoop, Attempting
  <2>4. VisitedIsSettled'
    BY <1>0, <1>3, <2>1, <2>2 DEF ForgetInv, VisitedIsSettled, InLoop, Attempting
  <2>5. Settled => Settled'  BY <1>0, <2>1, <2>2 DEF Settled, Dated
  <2>6. HeldIsSettled'
    BY <1>0, <2>5 DEF ForgetInv, HeldIsSettled, Held
  <2>7. OneMessage'  BY <1>0, <1>3, <2>1 DEF ForgetInv, OneMessage
  <2> QED  BY <1>4, <2>3, <2>4, <2>6, <2>7 DEF ForgetInv
<1> QED  BY <1>5, <1>6, <1>7

\* A date does not vanish as time passes.
LEMMA OthersDate ==
    ASSUME TypeOK, ForgetInv,
           \/ UNCHANGED vars
           \/ BeatStep \/ OwnerStep \/ Surround \/ Tick
           \/ \E b \in Beats : Publish(b) \/ PublishFails(b)
           \/ \E r \in Requests :
                Fetch(r) \/ RequestStep(r) \/ QueueDelayFails(r)
    PROVE  /\ \A d \in Devices : Dated(d) => Dated(d)'
           /\ Settled => Settled'
           /\ CopyMatches' /\ VisitedIsSettled'
<1>1. /\ UNCHANGED <<rows, pc, todo>>
      /\ UNCHANGED <<row, snap>> \/ Tick
      /\ \A d \in Devices : /\ row'[d].attempts = row[d].attempts
                            /\ row'[d].status = row[d].status
      /\ rows \in SUBSET Devices
  BY OthersKeep DEF TypeOK
<1>2. \A d \in Devices : row[d].retry # None => row'[d].retry # None
  <2>1. CASE UNCHANGED row  BY <2>1
  <2>2. ASSUME Tick, NEW d \in Devices, row[d].retry # None
        PROVE  row'[d].retry # None
    <3>1. row[d] \in Row /\ row'[d] = [row[d] EXCEPT !.retry = Sooner(@)]
      BY <2>2 DEF Tick, TypeOK
    <3>2. row'[d].retry = Sooner(row[d].retry)  BY <3>1 DEF Row
    <3>3. row[d].retry \in Nat  BY <2>2, <3>1 DEF Row, Timer
    <3>4. Sooner(row[d].retry) \in Nat  BY <3>3, SoonerType
    <3> QED  BY <3>2, <3>4, NoneAssumption
  <2> QED  BY <1>1, <2>1, <2>2
<1>3. \A d \in Devices : Dated(d) => Dated(d)'
  BY <1>1, <1>2 DEF Dated
<1>4. Settled => Settled'  BY <1>1, <1>3 DEF Settled
<1>5. CopyMatches'
  <2> SUFFICES ASSUME NEW w \in Workers, NEW d \in Devices, snap[w][d] = row[d]
               PROVE  snap'[w][d] = row'[d]
    BY <1>1 DEF ForgetInv, CopyMatches, InLoop, Attempting, Visits
  <2>1. CASE UNCHANGED <<row, snap>>  BY <2>1
  <2>2. CASE Tick  BY <2>2 DEF Tick
  <2> QED  BY <1>1, <2>1, <2>2
<1>6. VisitedIsSettled'
  BY <1>1, <1>3 DEF ForgetInv, VisitedIsSettled, InLoop, Attempting
<1> QED  BY <1>3, <1>4, <1>5, <1>6

LEMMA ForgetOthers ==
    ASSUME TypeOK, OwnerInv, ForgetInv,
           \/ UNCHANGED vars
           \/ BeatStep \/ OwnerStep \/ Surround \/ Tick
           \/ \E b \in Beats : Publish(b) \/ PublishFails(b)
           \/ \E r \in Requests :
                Fetch(r) \/ RequestStep(r) \/ QueueDelayFails(r)
    PROVE  ForgetInv'
<1> USE DEF deliveries, working, api, notification
<1>0. UNCHANGED <<rows, pc>> /\ tasks \in Nat /\ edit = None
  BY OthersKeep DEF TypeOK, OwnerInv
<1>1. \A w \in Workers : Taken(w)' <=> Taken(w)  BY <1>0 DEF Taken
<1>2. SUFFICES HeldIsSettled' /\ OneMessage' /\ (status' \in Closed => Settled)
  BY OthersDate DEF ForgetInv
<1>3. ASSUME UNCHANGED <<rpc, copy>> PROVE HeldIsSettled'
  BY <1>3, OthersDate DEF ForgetInv, HeldIsSettled, Held
<1>4. CASE UNCHANGED vars \/ OwnerStep \/ Surround \/ Tick
  <2>1. UNCHANGED <<status, tasks, beat, rpc, copy>>
    BY <1>0, <1>4
       DEF vars, OwnerStep, EditRead, EditSave, SoftDelete, OwnerFrame,
           Surround, ChangeSubscription, ChangeApplication, ChangeLink,
           ChangeToken, BeginAppQuiet, BeginDeviceQuiet, SurroundFrame, Tick
  <2>2. OneMessage'
    BY <1>0, <1>1, <2>1 DEF ForgetInv, OneMessage, Publishing, Queuing
  <2> QED  BY <1>3, <2>1, <2>2 DEF ForgetInv
<1>5. CASE BeatStep
  <2>0. UNCHANGED <<rpc, copy>>
    BY <1>5 DEF BeatStep, RetrySweep, DispatchScheduled, RequeueStuck, BeatFrame
  <2>1. CASE RetrySweep
    <3>1. rows # {} /\ status' = status  BY <2>1 DEF RetrySweep, DueForRetry
    <3> QED  BY <1>0, <1>3, <2>0, <3>1 DEF ForgetInv, OneMessage
  <2>2. ASSUME NEW b \in Beats, status # "queued", status' = "queued",
               beat' = [beat EXCEPT ![b] = "publish"], tasks' = tasks
        PROVE  OneMessage'
    <3>1. /\ \A c \in Beats : Publishing(c)' => Publishing(c) \/ c = b
          /\ \A r \in Requests : Queuing(r)' <=> Queuing(r)
      BY <2>0, <2>2 DEF Publishing, Queuing, TypeOK
    <3> QED  BY <1>0, <1>1, <2>2, <3>1 DEF ForgetInv, OneMessage
  <2>3. CASE DispatchScheduled \/ RequeueStuck
    <3>1. /\ status # "queued" /\ status' = "queued" /\ tasks' = tasks
          /\ \E b \in Beats : beat' = [beat EXCEPT ![b] = "publish"]
      BY <2>3 DEF DispatchScheduled, RequeueStuck, Beats
    <3>2. OneMessage'  BY <2>2, <3>1
    <3> QED  BY <1>3, <2>0, <3>1, <3>2 DEF Closed
  <2> QED  BY <1>5, <2>1, <2>3 DEF BeatStep
<1>6. ASSUME NEW b \in Beats, Publish(b) \/ PublishFails(b)
      PROVE  HeldIsSettled' /\ OneMessage' /\ (status' \in Closed => Settled)
  <2>1. /\ UNCHANGED <<status, rpc, copy>> /\ Publishing(b)
        /\ tasks' = tasks \/ tasks' = tasks + 1
        /\ beat' = [beat EXCEPT ![b] = "idle"]
    BY <1>6 DEF Publish, PublishFails, BeatFrame, Publishing
  <2>2. /\ \A c \in Beats : Publishing(c)' <=> Publishing(c) /\ c # b
        /\ \A r \in Requests : Queuing(r)' <=> Queuing(r)
    BY <2>1 DEF Publishing, Queuing, TypeOK
  <2>3. OneMessage'
    BY <1>0, <1>1, <2>1, <2>2 DEF ForgetInv, OneMessage
  <2> QED  BY <1>3, <2>1, <2>3 DEF ForgetInv
<1>7. ASSUME NEW r \in Requests,
             Fetch(r) \/ EndFetch(r) \/ QueueDelay(r) \/ QueueDelayFails(r)
      PROVE  HeldIsSettled' /\ OneMessage' /\ (status' \in Closed => Settled)
  <2>1. /\ UNCHANGED <<status, beat>>
        /\ \A s \in Requests : s # r => rpc'[s] = rpc[s] /\ copy'[s] = copy[s]
        /\ \/ ~Queuing(r)' /\ tasks' = tasks
           \/ ~Queuing(r)' /\ Queuing(r) /\ tasks' = tasks + 1
           \/ Queuing(r) /\ copy'[r] = copy[r] /\ tasks' = tasks
    BY <1>7 DEF Fetch, EndFetch, QueueDelay, QueueDelayFails, RequestFrame,
                Queuing, TypeOK
  <2>2. /\ \A s \in Requests : Queuing(s)' => Queuing(s)
        /\ \A b \in Beats : Publishing(b)' <=> Publishing(b)
        /\ \A s \in Requests : Held(s)' => Held(s)
    BY <2>1 DEF Publishing, Queuing, Held
  <2>3. HeldIsSettled'
    BY <2>2, OthersDate DEF ForgetInv, HeldIsSettled
  <2>4. OneMessage'
    BY <1>0, <1>1, <2>1, <2>2 DEF ForgetInv, OneMessage
  <2> QED  BY <2>1, <2>3, <2>4 DEF ForgetInv
<1>8. ASSUME NEW r \in Requests, QueueUpdate(r)
      PROVE  HeldIsSettled' /\ OneMessage' /\ (status' \in Closed => Settled)
  <2>0. /\ UNCHANGED <<beat, tasks, copy>> /\ rpc[r] = "fetched"
        /\ copy[r] \in StatusesToQueue
        /\ \A s \in Requests : s # r => rpc'[s] = rpc[s]
        /\ \A b \in Beats : Publishing(b)' <=> Publishing(b)
    BY <1>8 DEF QueueUpdate, RequestFrame, OwnerInv, Admitted, Publishing, TypeOK
  <2>1. CASE status = copy[r]
    <3>1. /\ status' = "queued" /\ status # "queued"
          /\ \A s \in Requests : Queuing(s)' => Queuing(s) \/ s = r
          /\ \A s \in Requests : Held(s)' =>
                Held(s) \/ status \in Closed
      BY <1>8, <2>0, <2>1
         DEF QueueUpdate, StatusesToQueue, Queuing, Held, Closed
    <3>2. HeldIsSettled'
      BY <3>1, OthersDate DEF ForgetInv, HeldIsSettled
    <3>3. OneMessage'
      BY <1>0, <1>1, <2>0, <3>1 DEF ForgetInv, OneMessage
    <3> QED  BY <3>1, <3>2, <3>3 DEF Closed
  <2>2. CASE status # copy[r]
    <3>1. /\ status' = status
          /\ \A s \in Requests : Queuing(s)' => Queuing(s)
          /\ \A s \in Requests : Held(s)' => Held(s)
      BY <1>8, <2>0, <2>2 DEF QueueUpdate, Queuing, Held, TypeOK
    <3>2. HeldIsSettled'
      BY <3>1, OthersDate DEF ForgetInv, HeldIsSettled
    <3>3. OneMessage'
      BY <1>0, <1>1, <2>0, <3>1 DEF ForgetInv, OneMessage
    <3> QED  BY <3>1, <3>2, <3>3 DEF ForgetInv
  <2> QED  BY <2>1, <2>2
<1>9. ASSUME NEW r \in Requests, QueueRollback(r)
      PROVE  HeldIsSettled' /\ OneMessage' /\ (status' \in Closed => Settled)
  <2>0. /\ UNCHANGED <<beat, tasks, copy>> /\ Queuing(r) /\ ~Queuing(r)'
        /\ copy[r] \in StatusesToQueue
        /\ \A s \in Requests : s # r => rpc'[s] = rpc[s]
        /\ \A b \in Beats : Publishing(b)' <=> Publishing(b)
        /\ status' = status \/ status' = copy[r]
    BY <1>9 DEF QueueRollback, RequestFrame, OwnerInv, Admitted, Publishing,
                Queuing, TypeOK
  <2>1. /\ \A s \in Requests : Queuing(s)' => Queuing(s) /\ s # r
        /\ \A s \in Requests : Held(s)' => Held(s)
    BY <2>0 DEF Queuing, Held
  <2>2. HeldIsSettled'
    BY <2>1, OthersDate DEF ForgetInv, HeldIsSettled
  <2>3. OneMessage'
    BY <1>0, <1>1, <2>0, <2>1 DEF ForgetInv, OneMessage
  <2>4. status' \in Closed => Settled
    BY <2>0 DEF ForgetInv, HeldIsSettled, Held, Queuing, Closed, StatusesToQueue
  <2> QED  BY <2>2, <2>3, <2>4
<1> QED  BY <1>4, <1>5, <1>6, <1>7, <1>8, <1>9 DEF RequestStep

\* Once a pass is over, a delivery that is neither sent nor given up is PENDING
\* with a date, so that retry_pending_deliveries_task finds it: whatever crashed,
\* failed to be published or was rolled back before, while one worker works at a
\* time.
THEOREM ForgottenCorrect ==
    ASSUME "edit" \notin Changes, "overrun" \notin Faults
    PROVE  Spec => []NothingForgotten
<1> DEFINE Inv == TypeOK /\ OwnerInv /\ ForgetInv
<1>1. Init => Inv
  BY TypeInit, OwnerInit, ForgetInit
<1>2. Inv /\ [Next]_vars => Inv'
  <2> SUFFICES ASSUME Inv, [Next]_vars PROVE Inv'  OBVIOUS
  <2>1. TypeOK' /\ OwnerInv'  BY TypeNext, OwnerNext
  <2>2. ASSUME NEW w \in Workers, WorkerStep(w) \/ Crash(w) PROVE ForgetInv'
    BY <2>2, ForgetPass, ForgetLoad, ForgetVisit DEF WorkerStep
  <2> QED  BY <2>1, <2>2, ForgetOthers DEF Next
<1>3. Inv => NothingForgotten
  BY DEF ForgetInv, NothingForgotten, Settled, Dated, Closed
<1> QED  BY <1>1, <1>2, <1>3, PTL DEF Spec
=============================================================================
