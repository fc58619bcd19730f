------------------------- MODULE EntitlementsProofs -------------------------
(***************************************************************************)
(* Theorems about Entitlements, for every number of handlers and creators, *)
(* every set of states the central may decide and every bound.             *)
(***************************************************************************)
EXTENDS Entitlements, FiniteSetTheorems, TLAPS

-----------------------------------------------------------------------------
(* Types *)

\* The states the central has decided are numbered from 1 to Latest.
LEMMA IssuedAreNumbered ==
    ASSUME NEW n \in Nat, issued \in [1 .. n -> Payloads]
    PROVE  Latest = n
<1>1. DOMAIN issued = 1 .. n
  OBVIOUS
<1>2. Cardinality(1 .. n) = n
  BY FS_Interval
<1> QED  BY <1>1, <1>2 DEF Latest

LEMMA LatestType ==
    ASSUME TypeOK
    PROVE  Latest \in 0 .. MaxVersions /\ issued \in [1 .. Latest -> Payloads]
<1>1. PICK n \in 0 .. MaxVersions : issued \in [1 .. n -> Payloads]
  BY DEF TypeOK
<1>2. n \in Nat
  BY BoundsAssumption
<1> QED  BY <1>1, <1>2, IssuedAreNumbered

\* A decision adds one state and keeps the others.
LEMMA DecideAppends ==
    ASSUME TypeOK, NEW p \in Payloads, Decide(p)
    PROVE  /\ Latest' = Latest + 1
           /\ Latest' \in 0 .. MaxVersions
           /\ issued' \in [1 .. Latest' -> Payloads]
<1>1. Latest \in 0 .. MaxVersions /\ issued \in [1 .. Latest -> Payloads]
  BY LatestType
<1>2. Latest + 1 \in Nat /\ Latest + 1 \in 0 .. MaxVersions
  BY <1>1, BoundsAssumption DEF Decide
<1>3. issued' \in [1 .. Latest + 1 -> Payloads]
  BY <1>1, <1>2 DEF Decide
<1>4. DOMAIN issued' = 1 .. Latest + 1
  BY <1>3
<1>5. Cardinality(1 .. Latest + 1) = Latest + 1
  BY <1>2, FS_Interval
<1>6. Latest' = Latest + 1
  BY <1>4, <1>5 DEF Latest
<1> QED  BY <1>2, <1>3, <1>6

LEMMA TypeInit == Init => TypeOK
<1> SUFFICES ASSUME Init PROVE TypeOK  OBVIOUS
<1>1. issued \in [1 .. 0 -> Payloads] /\ 0 \in 0 .. MaxVersions
  BY BoundsAssumption DEF Init
<1>2. issued \in UNION {[1 .. n -> Payloads] : n \in 0 .. MaxVersions}
  BY <1>1
<1>3. /\ 0 \in 0 .. MaxDeliveries /\ 0 \in 0 .. MaxVersions /\ 0 \in 0 .. MaxApps
      /\ 0 \in 0 .. MaxTime /\ 0 \in 0 .. MaxCrashes
  BY BoundsAssumption
<1> QED  BY <1>2, <1>3 DEF Init, TypeOK

\* What the central and its pushes can change.
LEMMA TypeCentral ==
    ASSUME TypeOK,
           \/ \E p \in Payloads : Decide(p)
           \/ Reconcile \/ Checkout \/ Pay \/ Erase
           \/ \E h \in Handlers, d \in outbox : Deliver(h, d)
    PROVE  TypeOK'
<1> USE DEF TypeOK, CentralFrame, PushedAgain, store, serve, account, history,
            central
<1>0. Latest \in 0 .. MaxVersions /\ issued \in [1 .. Latest -> Payloads]
  BY LatestType
<1>1. CASE \E p \in Payloads : Decide(p)
  <2>1. PICK p \in Payloads : Decide(p)
    BY <1>1
  <2>2. issued' \in UNION {[1 .. n -> Payloads] : n \in 0 .. MaxVersions}
    BY <2>1, DecideAppends
  <2>3. [id |-> used + 1, version |-> Latest + 1] \in Push
    BY <1>0, <2>1, BoundsAssumption DEF Decide, Push, Ids, Versions
  <2>4. used' \in 0 .. MaxDeliveries
    BY <2>1, BoundsAssumption DEF Decide
  <2> QED  BY <2>1, <2>2, <2>3, <2>4 DEF Decide
<1>2. CASE Reconcile
  <2>1. [id |-> used + 1, version |-> Latest] \in Push
    BY <1>0, <1>2, BoundsAssumption DEF Reconcile, Push, Ids, Versions
  <2>2. used' \in 0 .. MaxDeliveries
    BY <1>2, BoundsAssumption DEF Reconcile
  <2> QED  BY <1>2, <2>1, <2>2 DEF Reconcile
<1>3. CASE Checkout \/ Pay
  <2>1. slipped' \in BOOLEAN
    BY <1>3, Zenon DEF Checkout, Pay, Pay
  <2> QED  BY <1>3, <2>1 DEF Checkout, Pay, Pay
<1>4. CASE Erase  BY <1>4 DEF Erase
<1>5. CASE \E h \in Handlers, d \in outbox : Deliver(h, d)
  BY <1>5 DEF Deliver
<1> QED  BY <1>1, <1>2, <1>3, <1>4, <1>5

\* A handler that serves a push holds one.
Serves == \A h \in Handlers : pc[h] # "idle" => serving[h] \in Push

LEMMA ServesNext ==
    ASSUME TypeOK, Serves, [Next]_vars
    PROVE  Serves'
<1> USE DEF Serves
<1>1. ASSUME NEW h \in Handlers, NEW d \in outbox, Deliver(h, d) PROVE Serves'
  BY <1>1 DEF Deliver, TypeOK
<1>2. ASSUME NEW h \in Handlers, HandlerStep(h) \/ Crash(h) PROVE Serves'
  BY <1>2 DEF HandlerStep, Receive, Load, Save, SaveFails, Crash, Answer, TypeOK
<1>3. CASE UNCHANGED serve  BY <1>3 DEF serve
<1> QED
  BY <1>1, <1>2, <1>3 DEF Next, vars, Decide, Reconcile, Checkout, Pay, Erase,
     CentralFrame, PullFetch, PullApply, PullFrame, QuotaCheck,
     CreateApplication, DeleteApplication, AppFrame, StaffPatch,
     DeleteAccount, DeletionDies, Tick

\* What a handler can change.
LEMMA TypeHandler ==
    ASSUME TypeOK, Serves, NEW h \in Handlers, HandlerStep(h) \/ Crash(h)
    PROVE  TypeOK'
<1> USE DEF TypeOK, HandlerFrame, Answer, store, account, history, central, Serves
<1>1. CASE Receive(h)
  <2>1. receipts' \in SUBSET Ids
    BY <1>1 DEF Receive, Push
  <2> QED  BY <1>1, <2>1 DEF Receive
<1>2. CASE Load(h)  BY <1>2 DEF Load
<1>3. CASE Save(h)
  <2>1. serving[h].id \in Ids /\ serving[h].version \in Versions
    BY <1>3 DEF Save, Push
  <2>2. cache' \in 0 .. MaxVersions
    BY <1>3, <2>1, BoundsAssumption DEF Save, Versions
  <2>3. applied' \in [Ids -> Nat]
    BY <1>3, <2>1 DEF Save
  <2> QED  BY <1>3, <2>2, <2>3 DEF Save
<1>4. CASE SaveFails(h)  BY <1>4 DEF SaveFails
<1>5. CASE Crash(h)
  <2>1. crashes' \in 0 .. MaxCrashes
    BY <1>5, BoundsAssumption DEF Crash
  <2>2. lost' \in BOOLEAN
    BY <1>5, Zenon DEF Crash
  <2> QED  BY <1>5, <2>1, <2>2 DEF Crash
<1> QED  BY <1>1, <1>2, <1>3, <1>4, <1>5 DEF HandlerStep

\* The quota is a number.
LEMMA QuotaType ==
    ASSUME TypeOK, cache <= Latest
    PROVE  ApplicationQuota \in Nat
<1>1. Latest \in 0 .. MaxVersions /\ issued \in [1 .. Latest -> Payloads]
  BY LatestType
<1>2. CASE bypass \/ ~ActiveSubscription
  BY <1>2, BoundsAssumption DEF ApplicationQuota
<1>3. CASE ~bypass /\ ActiveSubscription
  <2>1. cache \in 1 .. Latest
    BY <1>1, <1>3, BoundsAssumption DEF ActiveSubscription, TypeOK
  <2>2. issued[cache].quota \in Nat
    BY <1>1, <2>1, PayloadsAssumption
  <2> QED  BY <1>3, <2>2 DEF ApplicationQuota
<1> QED  BY <1>2, <1>3

\* The requests of the user and the clock.
LEMMA TypeUser ==
    ASSUME TypeOK, cache <= Latest,
           \/ PullFetch \/ PullApply \/ DeleteApplication \/ StaffPatch
           \/ DeleteAccount \/ DeletionDies \/ Tick
           \/ \E c \in Creators : QuotaCheck(c) \/ CreateApplication(c)
    PROVE  TypeOK'
<1> USE DEF TypeOK, PullFrame, AppFrame, store, serve, account, history, central
<1>0. /\ Latest \in 0 .. MaxVersions
      /\ 0 \in 0 .. MaxVersions /\ 0 \in 0 .. MaxApps
  BY LatestType, BoundsAssumption
<1>1. CASE PullFetch  BY <1>0, <1>1 DEF PullFetch
<1>2. CASE PullApply  BY <1>2, BoundsAssumption DEF PullApply
<1>3. CASE DeleteApplication  BY <1>3, BoundsAssumption DEF DeleteApplication
<1>4. CASE StaffPatch
  <2>1. bypass' \in BOOLEAN
    BY <1>4, Zenon DEF StaffPatch
  <2> QED  BY <1>4, <2>1 DEF StaffPatch
<1>5. CASE DeleteAccount  BY <1>0, <1>5 DEF DeleteAccount
<1>6. CASE DeletionDies  BY <1>6, BoundsAssumption DEF DeletionDies
<1>7. CASE Tick  BY <1>7, BoundsAssumption DEF Tick
<1>8. ASSUME NEW c \in Creators, QuotaCheck(c) PROVE TypeOK'
  <2>1. ApplicationQuota \in Nat
    BY QuotaType
  <2>2. highest' \in Nat /\ creating' \in [Creators -> {"idle", "passed"}]
    BY <1>8, <2>1 DEF QuotaCheck
  <2> QED  BY <1>8, <2>2 DEF QuotaCheck
<1>9. ASSUME NEW c \in Creators, CreateApplication(c) PROVE TypeOK'
  BY <1>9, BoundsAssumption DEF CreateApplication
<1> QED  BY <1>1, <1>2, <1>3, <1>4, <1>5, <1>6, <1>7, <1>8, <1>9

-----------------------------------------------------------------------------
(* What is under way is known *)

\* Nothing anywhere carries a version the central has not decided, or a
\* delivery_id it has not used.
VersionsKnown ==
    /\ cache <= Latest /\ pull <= Latest
    /\ \A d \in outbox : d.version <= Latest /\ d.id <= used
    /\ \A h \in Handlers : pc[h] # "idle" =>
           serving[h].version <= Latest /\ serving[h].id <= used
    /\ \A i \in receipts : i <= used

\* A delivery_id stands for one push.
InFlight == outbox \cup {serving[h] : h \in {g \in Handlers : pc[g] # "idle"}}
PushesNamed == \A d, e \in InFlight : d.id = e.id => d = e

BaseInv == TypeOK /\ Serves /\ VersionsKnown /\ PushesNamed

LEMMA BaseInit == Init => BaseInv
<1> SUFFICES ASSUME Init PROVE BaseInv  OBVIOUS
<1>1. TypeOK
  BY TypeInit
<1>2. Latest \in Nat
  BY <1>1, LatestType
<1> QED
  BY <1>1, <1>2 DEF Init, BaseInv, Serves, VersionsKnown, PushesNamed, InFlight

LEMMA TypeNext == ASSUME BaseInv, [Next]_vars PROVE TypeOK'
<1> USE DEF BaseInv
<1>1. CASE UNCHANGED vars
  BY <1>1 DEF vars, central, store, serve, account, history, TypeOK
<1>2. CASE Next
  BY <1>2, TypeCentral, TypeHandler, TypeUser DEF Next, VersionsKnown
<1> QED  BY <1>1, <1>2

\* The central only ever adds.
LEMMA LatestGrows ==
    ASSUME BaseInv, [Next]_vars
    PROVE  /\ Latest \in Nat /\ Latest' \in Nat /\ Latest <= Latest'
           /\ used \in Nat /\ used' \in Nat /\ used <= used'
           /\ (\E p \in Payloads : Decide(p)) \/ Latest' = Latest
<1>1. Latest \in Nat /\ Latest' \in Nat /\ used \in Nat /\ used' \in Nat
  <2>1. Latest \in Nat /\ used \in Nat
    BY LatestType DEF BaseInv, TypeOK
  <2>2. TypeOK'
    BY TypeNext
  <2>3. used' \in Nat
    BY <2>2 DEF TypeOK
  <2>4. Latest' \in Nat
    <3>1. PICK n \in 0 .. MaxVersions : issued' \in [1 .. n -> Payloads]
      BY <2>2 DEF TypeOK
    <3>2. n \in Nat /\ DOMAIN issued' = 1 .. n
      BY <3>1, BoundsAssumption
    <3>3. Cardinality(1 .. n) = n
      BY <3>2, FS_Interval
    <3> QED  BY <3>2, <3>3 DEF Latest
  <2> QED  BY <2>1, <2>3, <2>4
<1>2. ASSUME NEW p \in Payloads, Decide(p)
      PROVE  Latest' = Latest + 1 /\ used' = used + 1
  BY <1>2, DecideAppends DEF Decide, BaseInv
<1>3. CASE UNCHANGED issued /\ (used' = used \/ used' = used + 1)
  BY <1>1, <1>3 DEF Latest
<1> QED
  BY <1>1, <1>2, <1>3 DEF Next, vars, central, Reconcile, Checkout, Pay, Deliver,
     HandlerStep, Receive, Load, Save, SaveFails, HandlerFrame, Crash, Erase,
     PullFetch, PullApply, PullFrame, QuotaCheck, CreateApplication,
     DeleteApplication, AppFrame, StaffPatch, DeleteAccount, DeletionDies, Tick

LEMMA BaseNext == ASSUME BaseInv, [Next]_vars PROVE BaseInv'
<1>1. TypeOK' /\ Serves'
  BY TypeNext, ServesNext DEF BaseInv
<1>2. /\ Latest \in Nat /\ Latest' \in Nat /\ Latest <= Latest'
      /\ used \in Nat /\ used' \in Nat /\ used <= used'
  BY LatestGrows
<1>3. VersionsKnown'
  <2> USE DEF BaseInv, TypeOK, VersionsKnown
  <2>1. ASSUME NEW p \in Payloads, Decide(p) PROVE VersionsKnown'
    <3>1. Latest' = Latest + 1
      BY <2>1, DecideAppends
    <3>2. \A d \in outbox' : d \in outbox \/ (d.version = Latest' /\ d.id = used')
      BY <2>1, <3>1 DEF Decide
    <3>3. /\ cache \in Int /\ pull \in Int /\ receipts \subseteq Int
          /\ \A d \in Push : d.id \in Int /\ d.version \in Int
      BY BoundsAssumption DEF Push, Ids, Versions
    <3>4. UNCHANGED <<cache, pull, receipts, pc, serving>>
      BY <2>1 DEF Decide, CentralFrame, store, serve
    <3>5. \A d \in outbox' : d.version <= Latest' /\ d.id <= used'
      BY <1>2, <3>2, <3>3
    <3>6. \A h \in Handlers : pc[h] # "idle" => serving[h] \in Push
      BY DEF Serves
    <3> QED  BY <1>2, <3>3, <3>4, <3>5, <3>6
  <2>2. CASE Reconcile
    <3>1. Latest' = Latest
      BY <2>2 DEF Reconcile, Latest
    <3>2. \A d \in outbox' : d \in outbox \/ (d.version = Latest' /\ d.id = used')
      BY <2>2, <3>1 DEF Reconcile
    <3>3. /\ receipts \subseteq Int
          /\ \A d \in Push : d.id \in Int
      BY BoundsAssumption DEF Push, Ids
    <3> QED
      BY <1>2, <2>2, <3>1, <3>2, <3>3
         DEF Reconcile, CentralFrame, store, serve, Serves
  <2>3. ASSUME NEW h \in Handlers, NEW d \in outbox, Deliver(h, d)
        PROVE  VersionsKnown'
    BY <1>2, <2>3 DEF Deliver, store, central, Latest
  <2>4. ASSUME NEW h \in Handlers, HandlerStep(h) \/ Crash(h)
        PROVE  VersionsKnown'
    <3>1. UNCHANGED <<issued, used, pull>> /\ Latest' = Latest
      BY <2>4 DEF HandlerStep, Receive, Load, Save, SaveFails, Crash, HandlerFrame, central,
         Latest
    <3>2. /\ outbox' \subseteq outbox
          /\ \A g \in Handlers : pc'[g] # "idle" => pc[g] # "idle" /\ serving'[g] = serving[g]
      BY <2>4 DEF HandlerStep, Receive, Load, Save, SaveFails, Crash, Answer, central
    <3>3. /\ cache' = cache \/ cache' <= Latest
          /\ \A i \in receipts' : i \in receipts \/ i <= used
      BY <2>4 DEF HandlerStep, Receive, Load, Save, SaveFails, Crash, store
    <3> QED  BY <1>2, <3>1, <3>2, <3>3
  <2>5. CASE PullFetch \/ PullApply \/ DeleteAccount
    BY <1>2, <2>5 DEF PullFetch, PullApply, PullFrame, DeleteAccount, central,
       serve, store, Latest
  <2>6. CASE UNCHANGED <<issued, outbox, used, store, serve, pull>>
    BY <2>6 DEF store, serve, Latest
  <2> QED
    BY <2>1, <2>2, <2>3, <2>4, <2>5, <2>6 DEF Next, vars, central, Checkout, Pay,
       Erase, CentralFrame, QuotaCheck, CreateApplication, DeleteApplication,
       AppFrame, StaffPatch, DeletionDies, Tick
<1>4. PushesNamed'
  <2> USE DEF BaseInv, PushesNamed, TypeOK
  <2>1. ASSUME InFlight' \subseteq InFlight PROVE PushesNamed'
    BY <2>1
  <2>2. ASSUME NEW p \in Payloads, Decide(p) PROVE PushesNamed'
    <3> DEFINE n == [id |-> used + 1, version |-> Latest + 1]
    <3>1. InFlight' = InFlight \cup {n} /\ n.id = used + 1
      BY <2>2 DEF InFlight, Decide, CentralFrame, serve
    <3> HIDE DEF n
    <3>2. \A d \in InFlight : d.id <= used
      BY DEF InFlight, VersionsKnown
    <3>3. \A d \in InFlight : d.id # n.id
      BY <1>2, <3>1, <3>2
    <3> QED  BY <3>1, <3>3
  <2>3. ASSUME NEW h \in Handlers, HandlerStep(h) \/ Crash(h)
        PROVE  InFlight' \subseteq InFlight
    <3>1. outbox' \subseteq outbox
      BY <2>3 DEF HandlerStep, Receive, Load, Save, SaveFails, Crash, Answer, central
    <3>2. \A g \in Handlers : pc'[g] # "idle" => pc[g] # "idle" /\ serving'[g] = serving[g]
      BY <2>3 DEF HandlerStep, Receive, Load, Save, SaveFails, Crash, Answer
    <3> QED  BY <3>1, <3>2 DEF InFlight
  <2>4. ASSUME NEW h \in Handlers, NEW d \in outbox, Deliver(h, d)
        PROVE  InFlight' \subseteq InFlight
    BY <2>4 DEF Deliver, InFlight, central
  <2>5. CASE UNCHANGED <<outbox, serve>>
    BY <2>1, <2>5 DEF InFlight, serve
  <2>6. CASE Reconcile
    <3> DEFINE n == [id |-> used + 1, version |-> Latest]
    <3>1. InFlight' = InFlight \cup {n} /\ n.id = used + 1
      BY <2>6 DEF InFlight, Reconcile, CentralFrame, serve
    <3> HIDE DEF n
    <3>2. \A d \in InFlight : d.id <= used
      BY DEF InFlight, VersionsKnown
    <3>3. \A d \in InFlight : d.id # n.id
      BY <1>2, <3>1, <3>2
    <3> QED  BY <3>1, <3>3
  <2> QED
    BY <2>1, <2>2, <2>3, <2>4, <2>5, <2>6 DEF Next, vars, central, Checkout, Pay,
       Erase, CentralFrame, PullFetch, PullApply, PullFrame, QuotaCheck,
       CreateApplication, DeleteApplication, AppFrame, StaffPatch,
       DeleteAccount, DeletionDies, Tick
<1> QED  BY <1>1, <1>3, <1>4 DEF BaseInv

\* Every state of the cache, of the pushes and of the requests is typed, and
\* what is under way was decided by the central.
THEOREM BaseCorrect == Spec => []BaseInv
<1>1. BaseInv /\ [Next]_vars => BaseInv'
  BY BaseNext
<1> QED  BY BaseInit, <1>1, PTL DEF Spec

-----------------------------------------------------------------------------
(* A push is applied once *)

Applies(h) == pc[h] \in {"load", "save"}

\* The receipt decides: of all attempts to deliver a push one goes past it, and
\* the push is applied by that attempt or by none.
ReceiptInv ==
    /\ \A h \in Handlers : Applies(h) =>
           serving[h].id \in receipts /\ applied[serving[h].id] = 0
    /\ \A g, h \in Handlers : Applies(g) /\ Applies(h) /\ g # h =>
           serving[g].id # serving[h].id
    /\ \A i \in Ids : applied[i] # 0 => i \in receipts
    /\ AppliedOnce

LEMMA ReceiptInit == Init => ReceiptInv
BY DEF Init, ReceiptInv, Applies, AppliedOnce

LEMMA ReceiptNext ==
    ASSUME BaseInv, ReceiptInv, [Next]_vars
    PROVE  ReceiptInv'
<1> USE DEF BaseInv, TypeOK, Serves, ReceiptInv, Applies, AppliedOnce
<1>0. \A d \in Push : d.id \in Ids
  BY DEF Push
<1>1. ASSUME NEW h \in Handlers, NEW d \in outbox, Deliver(h, d)
      PROVE  ReceiptInv'
  BY <1>1 DEF Deliver, store, history
<1>2. ASSUME NEW h \in Handlers, Receive(h) PROVE ReceiptInv'
  <2>1. serving[h].id \in Ids
    BY <1>0, <1>2 DEF Receive
  <2>2. CASE serving[h].id \in receipts
    BY <1>2, <2>2 DEF Receive, Answer
  <2>3. CASE serving[h].id \notin receipts
    <3>1. applied[serving[h].id] = 0
      BY <2>1, <2>3
    <3>2. /\ pc' = [pc EXCEPT ![h] = "load"]
          /\ UNCHANGED <<serving, applied>>
          /\ receipts' = receipts \cup {serving[h].id}
      BY <1>2, <2>3 DEF Receive
    <3> QED  BY <2>3, <3>1, <3>2
  <2> QED  BY <2>2, <2>3
<1>3. ASSUME NEW h \in Handlers, Load(h) PROVE ReceiptInv'
  <2>1. \A g \in Handlers : Applies(g)' => Applies(g) /\ serving'[g] = serving[g]
    BY <1>3 DEF Load, Answer
  <2>2. UNCHANGED <<receipts, applied>>
    BY <1>3 DEF Load, store
  <2> QED  BY <2>1, <2>2
<1>4. ASSUME NEW h \in Handlers, Save(h) PROVE ReceiptInv'
  <2>1. /\ serving[h].id \in Ids /\ applied[serving[h].id] = 0
        /\ serving[h].id \in receipts
    BY <1>0, <1>4 DEF Save
  <2>2. /\ applied' = [applied EXCEPT ![serving[h].id] = 1]
        /\ UNCHANGED receipts
        /\ pc' = [pc EXCEPT ![h] = "idle"]
        /\ serving' = [serving EXCEPT ![h] = None]
    BY <1>4, <2>1 DEF Save, Answer
  <2>3. /\ Applies(h)
        /\ \A g \in Handlers : Applies(g)' =>
               g # h /\ Applies(g) /\ serving'[g] = serving[g]
    BY <1>4, <2>2 DEF Save
  <2>4. \A i \in Ids : applied'[i] = IF i = serving[h].id THEN 1 ELSE applied[i]
    BY <2>1, <2>2
  <2>5. \A g \in Handlers : Applies(g)' =>
            /\ serving'[g].id \in receipts' /\ serving'[g].id # serving[h].id
            /\ serving'[g].id \in Ids /\ applied'[serving'[g].id] = 0
    BY <1>0, <2>2, <2>3, <2>4
  <2> QED  BY <2>1, <2>2, <2>3, <2>4, <2>5
<1>5. ASSUME NEW h \in Handlers, SaveFails(h) \/ Crash(h) PROVE ReceiptInv'
  <2>1. /\ pc' = [pc EXCEPT ![h] = "idle"]
        /\ serving' = [serving EXCEPT ![h] = None]
        /\ UNCHANGED <<receipts, applied>>
    BY <1>5 DEF SaveFails, Crash, store
  <2>2. \A g \in Handlers : Applies(g)' => Applies(g) /\ serving'[g] = serving[g]
    BY <2>1
  <2> QED  BY <2>1, <2>2
<1>6. CASE UNCHANGED <<receipts, serve, applied>>
  BY <1>6 DEF serve
<1> QED
  BY <1>1, <1>2, <1>3, <1>4, <1>5, <1>6 DEF Next, vars, HandlerStep, Decide,
     Reconcile, Checkout, Pay, Erase, CentralFrame, PullFetch, PullApply, PullFrame,
     QuotaCheck, CreateApplication, DeleteApplication, AppFrame, StaffPatch,
     DeleteAccount, DeletionDies, Tick, store, history

\* EntitlementView: a push changes the cache at most once, however often it is
\* sent, however its attempts overlap and wherever they die.
THEOREM AppliedCorrect == Spec => []AppliedOnce
<1>1. Init => BaseInv /\ ReceiptInv
  BY BaseInit, ReceiptInit
<1>2. BaseInv /\ ReceiptInv /\ [Next]_vars => (BaseInv /\ ReceiptInv)'
  BY BaseNext, ReceiptNext
<1>3. ReceiptInv => AppliedOnce
  BY DEF ReceiptInv
<1> QED  BY <1>1, <1>2, <1>3, PTL DEF Spec

-----------------------------------------------------------------------------
(* The cache catches up *)

\* As long as nothing was lost or overtaken since the last push, the last state
\* of the central is in the cache, or on its way: in a push that is still to be
\* received, or in a handler that has stored its receipt.
Undisturbed == exists /\ ~lost /\ ~overtaken
OnItsWay ==
    \/ \E d \in outbox : d.version = Latest /\ d.id \notin receipts
    \/ \E h \in Handlers : Applies(h) /\ serving[h].version = Latest
CurrentInv == Undisturbed => cache = Latest \/ OnItsWay

LEMMA CurrentInit == Init => CurrentInv
<1> SUFFICES ASSUME Init PROVE CurrentInv  OBVIOUS
<1>1. issued \in [1 .. 0 -> Payloads]
  BY DEF Init
<1>2. Latest = 0
  BY <1>1, IssuedAreNumbered
<1> QED  BY <1>2 DEF Init, CurrentInv

\* A handler that answers takes no push from the outbox that is on its way:
\* its own has a receipt.
LEMMA CurrentHandler ==
    ASSUME BaseInv, ReceiptInv, CurrentInv, NEW h \in Handlers,
           HandlerStep(h) \/ Crash(h)
    PROVE  CurrentInv'
<1> USE DEF BaseInv, Serves, CurrentInv, Undisturbed, OnItsWay, Applies
<1>1. pc \in [Handlers -> {"idle", "receive", "load", "save"}]
      /\ serving \in [Handlers -> Push \cup {None}]
      /\ lost \in BOOLEAN /\ overtaken \in BOOLEAN
  BY BoundsAssumption DEF TypeOK
<1>2. Latest' = Latest /\ UNCHANGED exists
  BY DEF HandlerStep, Receive, Load, Save, SaveFails, Crash, HandlerFrame, central, account,
     Latest
<1>3. CASE Receive(h)
  <2>0. UNCHANGED <<cache, overtaken, lost>> /\ receipts' = receipts \cup {serving[h].id}
    BY <1>3 DEF Receive, HandlerFrame
  <2>1. CASE serving[h].id \in receipts
    <3>1. \A d \in outbox : d.id \notin receipts => d \in outbox'
      BY <1>3, <2>1 DEF Receive, Answer
    <3>2. \A g \in Handlers : Applies(g) => Applies(g)' /\ serving'[g] = serving[g]
      BY <1>1, <1>3, <2>1 DEF Receive, Answer
    <3>3. receipts' = receipts
      BY <2>0, <2>1
    <3> QED  BY <1>2, <2>0, <3>1, <3>2, <3>3
  <2>2. CASE serving[h].id \notin receipts
    <3>1. pc' = [pc EXCEPT ![h] = "load"] /\ UNCHANGED <<outbox, serving>>
      BY <1>3, <2>2 DEF Receive
    <3>2. \A g \in Handlers : Applies(g) => Applies(g)'
      BY <1>1, <3>1
    <3>3. Applies(h)'
      BY <1>1, <3>1
    <3>4. ASSUME NEW d \in outbox, d.version = Latest, d.id \notin receipts,
                 d.id \in receipts'
          PROVE  serving[h].version = Latest
      <4>1. d.id = serving[h].id
        BY <2>0, <3>4
      <4>2. serving[h] \in InFlight /\ d \in InFlight
        BY <1>3 DEF Receive, InFlight
      <4> QED  BY <3>4, <4>1, <4>2 DEF PushesNamed
    <3> QED  BY <1>2, <2>0, <3>1, <3>2, <3>3, <3>4
  <2> QED  BY <2>1, <2>2
<1>4. CASE Load(h)
  <2>1. CASE exists
    <3>1. pc' = [pc EXCEPT ![h] = "save"] /\ UNCHANGED <<outbox, serving, cache, receipts, overtaken, lost>>
      BY <1>4, <2>1 DEF Load, HandlerFrame, store
    <3>2. \A g \in Handlers : Applies(g) => Applies(g)'
      BY <1>1, <3>1
    <3> QED  BY <1>2, <3>1, <3>2
  <2>2. CASE ~exists
    BY <1>2, <2>2
  <2> QED  BY <2>1, <2>2
<1>5. CASE Save(h)
  <2>0. pc[h] = "save"
    BY <1>5 DEF Save
  <2>1. serving[h].version <= Latest /\ serving[h].id \in receipts
        /\ serving[h].version \in Int /\ cache \in Int /\ Latest \in Int
    <3>1. serving[h].version <= Latest /\ serving[h] \in Push
      BY <2>0 DEF VersionsKnown
    <3>2. serving[h].id \in receipts
      BY <2>0 DEF ReceiptInv
    <3>3. Latest \in 0 .. MaxVersions /\ cache \in 0 .. MaxVersions
      BY LatestType DEF TypeOK
    <3> QED  BY <3>1, <3>2, <3>3, BoundsAssumption DEF Push, Versions
  <2>2. /\ cache' = serving[h].version
        /\ overtaken' = (overtaken \/ serving[h].version < cache)
        /\ UNCHANGED <<receipts, lost>>
        /\ outbox' = outbox \ {serving[h]}
        /\ pc' = [pc EXCEPT ![h] = "idle"]
        /\ serving' = [serving EXCEPT ![h] = None]
    BY <1>5 DEF Save, Answer, HandlerFrame
  <2>3. CASE serving[h].version = Latest
    BY <1>2, <2>2, <2>3
  <2>4. CASE serving[h].version # Latest
    <3>1. \A d \in outbox : d.id \notin receipts => d \in outbox'
      BY <2>1, <2>2
    <3>2. \A g \in Handlers : g # h /\ Applies(g) => Applies(g)' /\ serving'[g] = serving[g]
      BY <1>1, <2>2
    <3>3. OnItsWay => OnItsWay'
      BY <1>2, <2>2, <2>4, <3>1, <3>2
    <3>4. Undisturbed' => Undisturbed /\ cache # Latest
      <4>1. ~overtaken' => ~overtaken /\ ~(serving[h].version < cache)
        BY <2>2, Zenon
      <4> QED  BY <1>2, <2>1, <2>2, <2>4, <4>1 DEF VersionsKnown
    <3> QED  BY <3>3, <3>4
  <2> QED  BY <2>3, <2>4
<1>6. CASE SaveFails(h)
  BY <1>2, <1>6 DEF SaveFails
<1>7. CASE Crash(h)
  <2>1. /\ lost' = (lost \/ (pc[h] # "receive" /\ serving[h].version = Latest))
        /\ UNCHANGED <<outbox, cache, receipts, overtaken>>
        /\ pc' = [pc EXCEPT ![h] = "idle"]
        /\ serving' = [serving EXCEPT ![h] = None]
        /\ pc[h] # "idle"
    BY <1>7 DEF Crash, central, store
  <2>2. \A g \in Handlers : g # h /\ Applies(g) => Applies(g)' /\ serving'[g] = serving[g]
    BY <1>1, <2>1
  <2>3. Undisturbed' => Undisturbed /\ ~(pc[h] # "receive" /\ serving[h].version = Latest)
    BY <1>2, <2>1, Zenon
  <2>4. Undisturbed' /\ OnItsWay => OnItsWay'
    BY <1>2, <2>1, <2>2, <2>3
  <2> QED  BY <1>2, <2>1, <2>3, <2>4
<1> QED  BY <1>3, <1>4, <1>5, <1>6, <1>7 DEF HandlerStep

LEMMA CurrentNext ==
    ASSUME BaseInv, ReceiptInv, CurrentInv, [Next]_vars
    PROVE  CurrentInv'
<1> USE DEF CurrentInv, Undisturbed, OnItsWay, Applies
<1>1. ASSUME NEW p \in Payloads, Decide(p) PROVE CurrentInv'
  <2>1. Latest' = Latest + 1
    BY <1>1, DecideAppends DEF BaseInv
  <2>2. [id |-> used + 1, version |-> Latest + 1] \in outbox'
    BY <1>1 DEF Decide
  <2>3. used + 1 \notin receipts'
    BY <1>1 DEF Decide, CentralFrame, store, BaseInv, VersionsKnown, TypeOK
  <2> QED  BY <2>1, <2>2, <2>3
<1>2. CASE Reconcile
  <2>1. Latest' = Latest /\ [id |-> used + 1, version |-> Latest] \in outbox'
    BY <1>2 DEF Reconcile, Latest
  <2>2. used + 1 \notin receipts'
    BY <1>2 DEF Reconcile, CentralFrame, store, BaseInv, VersionsKnown, TypeOK
  <2> QED  BY <2>1, <2>2
<1>3. ASSUME NEW h \in Handlers, NEW d \in outbox, Deliver(h, d)
      PROVE  CurrentInv'
  BY <1>3 DEF Deliver, central, store, account, history, BaseInv, TypeOK, Latest
<1>4. ASSUME NEW h \in Handlers, HandlerStep(h) \/ Crash(h) PROVE CurrentInv'
  BY <1>4, CurrentHandler
<1>5. CASE PullFetch
  BY <1>5 DEF PullFetch, PullFrame, central, serve, account, Latest
<1>6. CASE PullApply
  <2>1. /\ Latest' = Latest
        /\ UNCHANGED <<outbox, receipts, pc, serving, exists, lost>>
        /\ cache' = pull /\ overtaken' = (overtaken \/ pull < cache)
    BY <1>6 DEF PullApply, PullFrame, central, serve, account, Latest
  <2>2. cache \in Int /\ pull \in Int /\ Latest \in Int /\ pull <= Latest
    BY LatestType DEF BaseInv, TypeOK, VersionsKnown
  <2>3. ~overtaken' => ~overtaken /\ ~(pull < cache)
    BY <2>1, Zenon
  <2>4. OnItsWay => OnItsWay'
    BY <2>1
  <2> QED  BY <2>1, <2>2, <2>3, <2>4
<1>7. CASE DeleteAccount
  BY <1>7 DEF DeleteAccount
<1>8. CASE UNCHANGED <<issued, outbox, store, serve, exists, lost, overtaken>>
  BY <1>8 DEF store, serve, Latest
<1> QED
  BY <1>1, <1>2, <1>3, <1>4, <1>5, <1>6, <1>7, <1>8 DEF Next, vars,
     Checkout, Pay, Erase, CentralFrame, QuotaCheck, CreateApplication,
     DeleteApplication, AppFrame, StaffPatch, DeletionDies, Tick, central, account, history

\* Pushes that are repeated, reordered and overlapping, and pulls next to them,
\* leave the cache with the central's last state once all are answered, unless
\* that state was lost with a request that died, or overwritten by an older one,
\* since the central pushed last.
THEOREM CurrentCorrect == Spec => []SettledIsCurrent
<1>1. Init => BaseInv /\ ReceiptInv /\ CurrentInv
  BY BaseInit, ReceiptInit, CurrentInit
<1>2. BaseInv /\ ReceiptInv /\ CurrentInv /\ [Next]_vars
        => (BaseInv /\ ReceiptInv /\ CurrentInv)'
  BY BaseNext, ReceiptNext, CurrentNext
<1>3. CurrentInv => SettledIsCurrent
  BY DEF CurrentInv, Undisturbed, OnItsWay, Applies, SettledIsCurrent, Settled
<1> QED  BY <1>1, <1>2, <1>3, PTL DEF Spec

-----------------------------------------------------------------------------
(* The quota *)

Passed == {c \in Creators : creating[c] = "passed"}

\* The creations that have passed the check count as made.
QuotaInv == apps + Cardinality(Passed) < highest + Cardinality(Creators)

LEMMA PassedSize ==
    /\ IsFiniteSet(Passed) /\ Cardinality(Passed) \in Nat
    /\ Cardinality(Creators) \in Nat \ {0}
    /\ Cardinality(Passed) <= Cardinality(Creators)
<1>1. Passed \subseteq Creators
  BY DEF Passed
<1> QED
  BY <1>1, CreatorsAssumption, FS_Subset, FS_CardinalityType, FS_EmptySet

LEMMA PassedSizeNext ==
    /\ IsFiniteSet(Passed') /\ Cardinality(Passed') \in Nat
    /\ Cardinality(Passed') <= Cardinality(Creators)
<1>1. Passed' \subseteq Creators
  BY DEF Passed
<1> QED
  BY <1>1, CreatorsAssumption, FS_Subset, FS_CardinalityType

LEMMA QuotaInit == Init => QuotaInv
<1> SUFFICES ASSUME Init PROVE QuotaInv  OBVIOUS
<1>1. Passed = {}
  BY DEF Init, Passed
<1>2. Cardinality(Passed) = 0
  BY <1>1, FS_EmptySet
<1> QED  BY <1>2, PassedSize DEF Init, QuotaInv

LEMMA QuotaNext ==
    ASSUME BaseInv, QuotaInv, [Next]_vars
    PROVE  QuotaInv'
<1>0. /\ apps \in Nat /\ highest \in Nat
      /\ creating \in [Creators -> {"idle", "passed"}]
  BY DEF BaseInv, TypeOK
<1>1. ASSUME NEW c \in Creators, QuotaCheck(c) PROVE QuotaInv'
  <2>1. ApplicationQuota \in Nat
    BY QuotaType DEF BaseInv, VersionsKnown
  <2>2. apps' = apps /\ highest' \in Nat /\ apps < highest'
    BY <1>0, <1>1, <2>1 DEF QuotaCheck
  <2> QED  BY <1>0, <2>2, PassedSize, PassedSizeNext DEF QuotaInv
<1>2. ASSUME NEW c \in Creators, CreateApplication(c) PROVE QuotaInv'
  <2>1. c \in Passed /\ Passed' = Passed \ {c}
    BY <1>0, <1>2 DEF CreateApplication, Passed
  <2>2. Cardinality(Passed') = Cardinality(Passed) - 1
    BY <2>1, PassedSize, FS_RemoveElement
  <2>3. (apps' = apps \/ apps' = apps + 1) /\ highest' = highest
    BY <1>2 DEF CreateApplication
  <2> QED  BY <1>0, <2>2, <2>3, PassedSize DEF QuotaInv
<1>3. CASE DeleteApplication \/ DeleteAccount
  <2>1. Passed' = Passed /\ highest' = highest
    BY <1>3 DEF DeleteApplication, AppFrame, DeleteAccount, Passed, history
  <2>2. apps' \in Nat /\ apps' <= apps
    BY <1>0, <1>3 DEF DeleteApplication, DeleteAccount
  <2> QED  BY <1>0, <2>1, <2>2, PassedSize DEF QuotaInv
<1>4. CASE UNCHANGED <<apps, highest, creating>>
  BY <1>4 DEF QuotaInv, Passed
<1> QED
  BY <1>1, <1>2, <1>3, <1>4 DEF Next, vars, Decide, Reconcile, Checkout, Pay, Erase,
     CentralFrame, Deliver, HandlerStep, Receive, Load, Save, SaveFails, HandlerFrame, Crash,
     PullFetch, PullApply, PullFrame, StaffPatch, DeletionDies, Tick,
     account, history

\* quota_required and the creation are two steps: whatever overlaps, the quota
\* is exceeded by less than the number of creations served at once.
THEOREM QuotaCorrect == Spec => []QuotaOverrunBounded
<1>1. Init => BaseInv /\ QuotaInv
  BY BaseInit, QuotaInit
<1>2. BaseInv /\ QuotaInv /\ [Next]_vars => (BaseInv /\ QuotaInv)'
  BY BaseNext, QuotaNext
<1>3. BaseInv /\ QuotaInv => QuotaOverrunBounded
  BY PassedSize DEF QuotaInv, QuotaOverrunBounded, BaseInv, TypeOK
<1> QED  BY <1>1, <1>2, <1>3, PTL DEF Spec

-----------------------------------------------------------------------------
(* The erasure *)

\* After the erasure only a session that is still open makes the user pay.
PayerInv ==
    /\ (deletion = "erased" \/ ~exists) /\ charged => slipped
    /\ deletion = "erased" => exists

LEMMA PayerNext ==
    ASSUME PayerInv, [Next]_vars
    PROVE  PayerInv'
<1> USE DEF PayerInv
<1>1. CASE Pay
  <2>1. (deletion = "erased" \/ ~exists) => slipped'
    BY <1>1, Zenon DEF Pay
  <2>2. UNCHANGED <<deletion, exists>>
    BY <1>1 DEF Pay, CentralFrame, account
  <2> QED  BY <2>1, <2>2
<1>2. CASE Erase
  BY <1>2 DEF Erase, CentralFrame, account
<1>3. CASE DeleteAccount
  BY <1>3 DEF DeleteAccount, central, history
<1>4. CASE DeletionDies
  BY <1>4 DEF DeletionDies, central, account
<1>5. CASE UNCHANGED <<deletion, exists, charged, slipped>>
  BY <1>5
<1> QED
  BY <1>1, <1>2, <1>3, <1>4, <1>5 DEF Next, vars, Decide, Reconcile,
     Checkout, CentralFrame, Deliver, HandlerStep, Receive, Load, Save, SaveFails, HandlerFrame, Crash,
     PullFetch, PullApply, PullFrame, QuotaCheck, CreateApplication,
     DeleteApplication, AppFrame, StaffPatch, Tick, central, account, history

\* The central is told first: nobody whose account is gone is charged, however
\* often the erasure is interrupted, unless an open session is paid after it.
THEOREM PayerCorrect == Spec => []NoOrphanPayer
<1>1. Init => PayerInv
  BY DEF Init, PayerInv
<1>2. PayerInv /\ [Next]_vars => PayerInv'
  BY PayerNext
<1>3. PayerInv => NoOrphanPayer
  BY DEF PayerInv, NoOrphanPayer
<1> QED  BY <1>1, <1>2, <1>3, PTL DEF Spec
=============================================================================
