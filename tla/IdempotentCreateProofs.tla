----------------------- MODULE IdempotentCreateProofs -----------------------
(***************************************************************************)
(* Theorems about IdempotentCreate, for every set of requests and keys,    *)
(* every request they may make and every number of faults and changes.     *)
(***************************************************************************)
EXTENDS IdempotentCreate, TLAPS

-----------------------------------------------------------------------------
(* The inductive invariants *)

\* What each request has with it at each point of the views.  Only a request
\* whose key the column can hold has a fingerprint, and it is undecided until
\* it has seen or inserted the row of that key.
Stage(r) ==
    /\ pc[r] # "done" => answer[r] = None
    /\ pc[r] = "new" => fp[r] = None
    /\ fp[r] # None => /\ op[r] \in Op
                       /\ op[r].key \in Keys
                       /\ op[r].endpoint # "bulk"
    /\ outcome[r] # None => fp[r] # None
    /\ outcome[r] = None <=> got[r] = None
    /\ pc[r] \in {"lookup", "insert", "get"} => fp[r] # None /\ outcome[r] = None
    /\ pc[r] = "respond" => outcome[r] # None
    /\ pc[r] = "bulk" => op[r] \in Op /\ op[r].endpoint = "bulk"
    /\ pc[r] \in {"queue", "publish", "rollback"} =>
           /\ op[r] \in Op
           /\ op[r].endpoint # "bulk" => outcome[r] # None
           /\ current[r] \in Keys
           /\ copy[r][current[r]] \in Copy
           /\ copy[r][current[r]].status \in StatusesToQueue

\* What the answer tells of the outcome.
Answered(r) ==
    Told(r) => /\ answer[r] = 201 <=> outcome[r] = "created"
               /\ answer[r] = 200 <=> outcome[r] = "existing"
               /\ answer[r] = 409 <=> outcome[r] = "conflict"

BaseInv ==
    /\ TypeOK
    /\ template.version <= changes
    /\ \A r \in Requests : Stage(r)
    /\ \A r \in Requests : Answered(r)

\* A request that has taken the row of a key out of the status it had read,
\* and has neither published its task nor put the status back.  When the purge
\* has deleted the row there is nothing left to hold.
Claims(r, k) ==
    /\ pc[r] \in {"publish", "rollback"} /\ current[r] = k
    /\ row[k] # None /\ row[k].id = copy[r][k].id

\* A QUEUED row is in the hands of one task or of one request, never of both:
\* that nobody has it is possible too, when a request died holding it.
ClaimInv ==
    /\ \A r \in Requests, k \in Keys :
           Claims(r, k) => tasks[k] = 0 /\ row[k].status = "queued"
    /\ \A r, s \in Requests, k \in Keys : Claims(r, k) /\ Claims(s, k) => r = s
    /\ OneTaskPerNotification

\* A request that has loaded a row cannot take a later one for it.
CopiesKnown ==
    \A r \in Requests, k \in Keys : copy[r][k] # None => copy[r][k].id < inserted

\* Primary keys are not used twice, and as long as a row is there, whoever was
\* told of it compares with it as the outcome says.
Agrees(r, k) ==
    (outcome[r] # None /\ row[k] # None /\ got[r] = row[k].id) =>
        (outcome[r] = "conflict" <=> fp[r] # row[k].fp)

PayloadInv ==
    /\ \A k \in Keys : row[k] # None => row[k].id < inserted
    /\ \A k, l \in Keys :
           (row[k] # None /\ row[l] # None /\ row[k].id = row[l].id) => k = l
    /\ \A r \in Requests : got[r] # None => got[r] < inserted
    /\ \A r \in Requests, k \in Keys : Agrees(r, k)
    /\ \A r, s \in Requests :
           (got[r] # None /\ got[s] # None /\ got[r] = got[s] /\ r # s) =>
               /\ outcome[r] # "conflict" /\ outcome[s] # "conflict" =>
                      fp[r] = fp[s]
               /\ fp[r] = fp[s] =>
                      (outcome[r] = "conflict" <=> outcome[s] = "conflict")
               /\ outcome[r] = "created" => outcome[s] # "created"

-----------------------------------------------------------------------------
(* Types and stages *)

LEMMA BaseInit == Init => BaseInv
<1> SUFFICES ASSUME Init PROVE BaseInv  OBVIOUS
<1>1. /\ template \in [version : Nat, state : TemplateStates]
      /\ template.version = 0
  BY DEF Init, TemplateStates
<1>2. /\ 0 \in 0 .. MaxLockTries - 1 /\ 0 \in 0 .. MaxFaults
      /\ 0 \in 0 .. MaxChanges
  BY BoundsAssumption
<1>4. copy \in [Requests -> [Keys -> Copy \cup {None}]]
  BY DEF Init
<1>5. pc \in [Requests -> PC]
  BY DEF Init, PC
<1>6. TypeOK
  BY <1>1, <1>2, <1>4, <1>5 DEF Init, TypeOK
<1>3. \A r \in Requests : Stage(r) /\ Answered(r)
  BY DEF Init, Stage, Answered, Told
<1> QED  BY <1>1, <1>3, <1>6 DEF Init, BaseInv

\* The variables of one request, and the rest of the state a type speaks of.
Own(q) == <<pc[q], op[q], fp[q], tries[q], outcome[q], got[q], copy[q],
            current[q], answer[q]>>

\* What a step does not touch keeps its stage.
LEMMA StageFrame ==
    ASSUME NEW q \in Requests, Stage(q), Answered(q), Own(q)' = Own(q)
    PROVE  Stage(q)' /\ Answered(q)'
<1>1. /\ pc'[q] = pc[q] /\ op'[q] = op[q] /\ fp'[q] = fp[q]
      /\ outcome'[q] = outcome[q] /\ got'[q] = got[q] /\ copy'[q] = copy[q]
      /\ current'[q] = current[q] /\ answer'[q] = answer[q]
  BY DEF Own
<1>2. Stage(q)'  BY <1>1 DEF Stage
<1>3. Answered(q)'  BY <1>1 DEF Answered, Told
<1> QED  BY <1>2, <1>3

\* A step of request r: its own stage is all that has to be shown.
LEMMA BaseFrame ==
    ASSUME BaseInv, TypeOK', NEW r \in Requests,
           UNCHANGED <<template, changes>>,
           \A q \in Requests \ {r} : Own(q)' = Own(q),
           Stage(r)', Answered(r)'
    PROVE  BaseInv'
<1>1. \A q \in Requests \ {r} : Stage(q)' /\ Answered(q)'
  BY StageFrame DEF BaseInv
<1> QED  BY <1>1 DEF BaseInv

\* A row that has been found is typed.
LEMMA RowFound ==
    ASSUME TypeOK, NEW k \in Keys, row[k] # None
    PROVE  /\ row[k] \in Row
           /\ row[k].id \in Nat
           /\ row[k].fp \in Fingerprint
           /\ row[k].status \in Status
BY DEF TypeOK, Row

LEMMA FingerprintType ==
    ASSUME BaseInv, NEW o \in Op
    PROVE  ComputeRequestFingerprint(o) \in Fingerprint
<1>1. o.body \in {"text", "other text", "template"}
      /\ o.when \in {"absent", "null", "date"}
  BY DEF Op
<1>2. template.version \in 0 .. MaxChanges /\ 0 \in 0 .. MaxChanges
  BY BoundsAssumption DEF BaseInv, TypeOK
<1> QED  BY <1>1, <1>2 DEF ComputeRequestFingerprint, Fingerprint

\* Only a request with a key the column can hold gets past the checks.
LEMMA RefusalType ==
    ASSUME NEW o \in Op
    PROVE  /\ Refusal(o) \in Answers \cup {None}
           /\ Refusal(o) = None /\ o.endpoint # "bulk" => o.key \in Keys
<1>1. Refusal(o) \in {400, 401, 402, None}
  BY DEF Refusal
<1>2. o.key \in Keys \cup BadKeys
  BY DEF Op
<1>3. 400 # None /\ 401 # None /\ 402 # None
  BY NoneAssumption
<1>4. ASSUME Refusal(o) = None, o.endpoint # "bulk"
      PROVE  o.key \notin BadKeys
  BY <1>3, <1>4 DEF Refusal
<1> QED  BY <1>1, <1>2, <1>4 DEF Answers

LEMMA BaseBegin ==
    ASSUME BaseInv, NEW r \in Requests, NEW o \in Ops, Begin(r, o)
    PROVE  BaseInv'
<1> USE DEF BaseInv
<1>1. o \in Op  BY OpsAssumption
<1>2. /\ Stage(r) /\ Answered(r) /\ pc[r] = "new" /\ fp[r] = None
      /\ outcome[r] = None /\ got[r] = None /\ answer[r] = None
  BY DEF Begin, Stage
<1>3. /\ op' = [op EXCEPT ![r] = o]
      /\ UNCHANGED <<vendor, row, inserted, tasks, tries, outcome, got, current,
                     faults, changes, template, passed, paid, active,
                     purging>>
  BY DEF Begin, RequestFrame, surroundings
<1>4. CASE Refusal(o) # None
  <2>1. /\ pc' = [pc EXCEPT ![r] = "done"]
        /\ answer' = [answer EXCEPT ![r] = Refusal(o)]
        /\ UNCHANGED <<fp, copy>>
    BY <1>4 DEF Begin, Reply, Go
  <2>2. Refusal(o) \in Answers  BY <1>1, <1>4, RefusalType
  <2>3. TypeOK'  BY <1>3, <2>1, <2>2 DEF TypeOK, PC
  <2>4. \A q \in Requests \ {r} : Own(q)' = Own(q)
    BY <1>3, <2>1 DEF TypeOK, Own
  <2>5. Stage(r)' /\ Answered(r)'
    BY <1>2, <1>3, <2>1 DEF TypeOK, Stage, Answered, Told
  <2> QED  BY <1>3, <2>3, <2>4, <2>5, BaseFrame
<1>5. CASE Refusal(o) = None /\ o.endpoint = "bulk"
  <2> DEFINE loaded == [k \in Keys |->
                 IF row[k] # None /\ row[k].visible
                 THEN [id |-> row[k].id, status |-> row[k].status]
                 ELSE None]
  <2>1. /\ pc' = [pc EXCEPT ![r] = "bulk"]
        /\ copy' = [copy EXCEPT ![r] = loaded]
        /\ UNCHANGED <<fp, answer>>
    BY <1>5 DEF Begin, Go
  <2>2. loaded \in [Keys -> Copy \cup {None}]
    BY RowFound DEF Copy
  <2> HIDE DEF loaded
  <2>3. TypeOK'  BY <1>3, <2>1, <2>2 DEF TypeOK, PC
  <2>4. \A q \in Requests \ {r} : Own(q)' = Own(q)
    BY <1>3, <2>1 DEF TypeOK, Own
  <2>5. Stage(r)' /\ Answered(r)'
    BY <1>1, <1>2, <1>3, <1>5, <2>1 DEF TypeOK, Stage, Answered, Told
  <2> QED  BY <1>3, <2>3, <2>4, <2>5, BaseFrame
<1>6. CASE Refusal(o) = None /\ o.endpoint # "bulk"
  <2> DEFINE print == ComputeRequestFingerprint(o)
  <2>1. /\ pc' = [pc EXCEPT ![r] =
                     IF vendor = "sqlite" THEN "lookup" ELSE "insert"]
        /\ fp' = [fp EXCEPT ![r] = print]
        /\ UNCHANGED <<copy, answer>>
    BY <1>6 DEF Begin, Go
  <2>2. print \in Fingerprint /\ print # None
    BY <1>1, FingerprintType, NoneAssumption
  <2>3. o.key \in Keys  BY <1>1, <1>6, RefusalType
  <2> HIDE DEF print
  <2>4. pc' \in [Requests -> PC] /\ pc'[r] \in {"lookup", "insert"}
    BY <2>1 DEF TypeOK, PC
  <2>5. TypeOK'  BY <1>3, <2>1, <2>2, <2>4 DEF TypeOK
  <2>6. \A q \in Requests \ {r} : Own(q)' = Own(q)
    BY <1>3, <2>1 DEF TypeOK, Own
  <2>7. /\ fp'[r] # None /\ op'[r] = o /\ outcome'[r] = None
        /\ got'[r] = None /\ answer'[r] = None
    BY <1>2, <1>3, <2>1, <2>2 DEF TypeOK
  <2>8. Stage(r)' /\ Answered(r)'
    BY <1>1, <1>6, <2>3, <2>4, <2>7 DEF Stage, Answered, Told
  <2> QED  BY <1>3, <2>5, <2>6, <2>8, BaseFrame
<1> QED  BY <1>4, <1>5, <1>6

\* The row was found: the outcome and the primary key are set together.
LEMMA BaseDecided ==
    ASSUME BaseInv, NEW r \in Requests, fp[r] # None, outcome[r] = None,
           row[op[r].key] # None, Decided(r), pc[r] # "done",
           tries' \in [Requests -> 0 .. MaxLockTries - 1],
           \A q \in Requests \ {r} : tries'[q] = tries[q],
           RequestFrame,
           UNCHANGED <<row, inserted, tasks, op, fp, copy, current, answer, faults>>
    PROVE  BaseInv'
<1> USE DEF BaseInv
<1> DEFINE k == op[r].key
           o == IF row[k].fp = fp[r] THEN "existing" ELSE "conflict"
<1>1. Stage(r) /\ k \in Keys
  BY DEF Stage
<1>2. row[k].id \in Nat /\ row[k].id # None
  BY <1>1, RowFound, NoneAssumption
<1>3. o \in Outcomes /\ o # None
  BY NoneAssumption DEF Outcomes
<1>4. /\ outcome' = [outcome EXCEPT ![r] = o]
      /\ got' = [got EXCEPT ![r] = row[k].id]
      /\ pc' = [pc EXCEPT ![r] = "respond"]
      /\ UNCHANGED <<vendor, template, passed, paid, active, changes,
                     purging>>
  BY DEF Decided, Go, RequestFrame, surroundings
<1> HIDE DEF k, o
<1>5. TypeOK'
  BY <1>2, <1>3, <1>4 DEF TypeOK, PC
<1>6. \A q \in Requests \ {r} : Own(q)' = Own(q)
  BY <1>4 DEF TypeOK, Own
<1>7. /\ pc'[r] = "respond" /\ outcome'[r] = o /\ got'[r] = row[k].id
      /\ answer'[r] = None
  BY <1>1, <1>4 DEF TypeOK, Stage
<1>8. Stage(r)' /\ Answered(r)'
  BY <1>1, <1>2, <1>3, <1>7 DEF Stage, Answered, Told
<1> QED  BY <1>4, <1>5, <1>6, <1>8, BaseFrame

\* The steps that look the key up, or fail to.
LEMMA BaseLookup ==
    ASSUME BaseInv, NEW r \in Requests, Lookup(r) \/ Locked(r) \/ Get(r)
    PROVE  BaseInv'
<1> USE DEF BaseInv
<1>0. Stage(r) /\ Answered(r) /\ 0 \in 0 .. MaxLockTries - 1
  BY BoundsAssumption
<1>1. CASE Lookup(r)
  <2>0. /\ pc[r] = "lookup" /\ fp[r] # None /\ outcome[r] = None
        /\ got[r] = None /\ answer[r] = None
    BY <1>0, <1>1 DEF Lookup, Stage
  <2>1. CASE row[op[r].key] # None
    <3>1. Decided(r) /\ tries' = [tries EXCEPT ![r] = 0]
      BY <1>1, <2>1 DEF Lookup
    <3>2. RequestFrame /\ UNCHANGED <<row, inserted, tasks, op, fp, copy, current,
                                      answer, faults>>
      BY <1>1 DEF Lookup
    <3>3. /\ tries' \in [Requests -> 0 .. MaxLockTries - 1]
          /\ \A q \in Requests \ {r} : tries'[q] = tries[q]
      BY <1>0, <3>1 DEF TypeOK
    <3>4. pc[r] # "done"  BY <2>0
    <3> QED  BY <2>0, <2>1, <3>1, <3>2, <3>3, <3>4, BaseDecided
  <2>2. CASE row[op[r].key] = None
    <3>1. /\ pc' = [pc EXCEPT ![r] = "insert"]
          /\ tries' = tries
          /\ UNCHANGED <<vendor, row, inserted, tasks, op, fp, outcome, got, copy,
                         current, answer, faults, template, passed, paid,
                         active, changes,
                     purging>>
      BY <1>1, <2>2 DEF Lookup, Go, RequestFrame, surroundings, TypeOK
    <3>2. TypeOK'  BY <3>1 DEF TypeOK, PC
    <3>3. \A q \in Requests \ {r} : Own(q)' = Own(q)
      BY <3>1 DEF TypeOK, Own
    <3>4. Stage(r)' /\ Answered(r)'
      BY <1>0, <2>0, <3>1 DEF TypeOK, Stage, Answered, Told
    <3> QED  BY <3>1, <3>2, <3>3, <3>4, BaseFrame
  <2> QED  BY <2>1, <2>2
<1>2. CASE Locked(r)
  <2>0. /\ pc[r] \in {"lookup", "insert"} /\ fp[r] # None /\ outcome[r] = None
        /\ got[r] = None /\ answer[r] = None
    BY <1>0, <1>2 DEF Locked, Stage
  <2>1. UNCHANGED <<vendor, row, inserted, tasks, op, fp, outcome, got, copy,
                    current, faults, template, passed, paid, active, changes,
                     purging>>
    BY <1>2 DEF Locked, RequestFrame, surroundings
  <2>2. \/ /\ pc' = [pc EXCEPT ![r] = "done"]
           /\ answer' = [answer EXCEPT ![r] = 500]
           /\ tries' = [tries EXCEPT ![r] = 0]
        \/ /\ pc' = [pc EXCEPT ![r] = "lookup"]
           /\ answer' = answer
           /\ tries[r] + 1 # MaxLockTries
           /\ tries' = [tries EXCEPT ![r] = tries[r] + 1]
    BY <1>2 DEF Locked, Reply, Go
  <2>3. tries' \in [Requests -> 0 .. MaxLockTries - 1]
    <3>1. tries[r] \in 0 .. MaxLockTries - 1  BY DEF TypeOK
    <3>2. tries[r] + 1 # MaxLockTries => tries[r] + 1 \in 0 .. MaxLockTries - 1
      BY <3>1, BoundsAssumption
    <3> QED  BY <1>0, <2>2, <3>2 DEF TypeOK
  <2>7. pc' \in [Requests -> PC] /\ answer' \in [Requests -> Answers \cup {None}]
    <3>1. pc' \in [Requests -> PC]  BY <2>2 DEF TypeOK, PC
    <3>2. 500 \in Answers  BY DEF Answers
    <3>3. answer' \in [Requests -> Answers \cup {None}]
      BY <2>2, <3>2 DEF TypeOK
    <3> QED  BY <3>1, <3>3
  <2>4. TypeOK'  BY <2>1, <2>3, <2>7 DEF TypeOK
  <2>5. \A q \in Requests \ {r} : Own(q)' = Own(q)
    BY <2>1, <2>2 DEF TypeOK, Own
  <2>6. Stage(r)' /\ Answered(r)'
    BY <1>0, <2>0, <2>1, <2>2 DEF TypeOK, Stage, Answered, Told
  <2> QED  BY <2>1, <2>4, <2>5, <2>6, BaseFrame
<1>3. CASE Get(r)
  <2>0. /\ pc[r] = "get" /\ fp[r] # None /\ outcome[r] = None
        /\ got[r] = None /\ answer[r] = None
    BY <1>0, <1>3 DEF Get, Stage
  <2>1. CASE row[op[r].key] # None
    BY <1>3, <2>0, <2>1, BaseDecided DEF Get, TypeOK
  <2>2. CASE row[op[r].key] = None
    <3>1. /\ pc' = [pc EXCEPT ![r] = "done"]
          /\ answer' = [answer EXCEPT ![r] = 500]
          /\ UNCHANGED <<vendor, row, inserted, tasks, op, fp, tries, outcome, got,
                         copy, current, faults, template, passed, paid,
                         active, changes,
                     purging>>
      BY <1>3, <2>2 DEF Get, Reply, Go, RequestFrame, surroundings
    <3>2. TypeOK'  BY <3>1 DEF TypeOK, PC, Answers
    <3>3. \A q \in Requests \ {r} : Own(q)' = Own(q)
      BY <3>1 DEF TypeOK, Own
    <3>4. Stage(r)' /\ Answered(r)'
      BY <1>0, <2>0, <3>1 DEF TypeOK, Stage, Answered, Told
    <3> QED  BY <3>1, <3>2, <3>3, <3>4, BaseFrame
  <2> QED  BY <2>1, <2>2
<1> QED  BY <1>1, <1>2, <1>3

\* The row the INSERT writes.
NewRow(r) == [id |-> inserted, fp |-> fp[r], visible |-> TRUE,
              status |-> BuildNotificationStatus(op[r])]

LEMMA NewRowType ==
    ASSUME BaseInv, NEW r \in Requests, fp[r] # None
    PROVE  /\ NewRow(r) \in Row /\ NewRow(r) # None
           /\ NewRow(r).status \in StatusesToQueue
           /\ NewRow(r).id = inserted /\ NewRow(r).fp = fp[r]
<1>1. fp[r] \in Fingerprint /\ inserted \in Nat  BY DEF BaseInv, TypeOK
<1>2. BuildNotificationStatus(op[r]) \in Status \cap StatusesToQueue
  BY DEF BuildNotificationStatus, Status, StatusesToQueue
<1>3. NewRow(r) \in Row  BY <1>1, <1>2 DEF NewRow, Row
<1>4. /\ NewRow(r).status = BuildNotificationStatus(op[r])
      /\ NewRow(r).id = inserted /\ NewRow(r).fp = fp[r]
  BY DEF NewRow
<1> QED  BY <1>2, <1>3, <1>4, NoneAssumption

\* What an INSERT that succeeds does.
LEMMA InsertEffect ==
    ASSUME BaseInv, NEW r \in Requests, Insert(r), row[op[r].key] = None
    PROVE  /\ row' = [row EXCEPT ![op[r].key] = NewRow(r)]
           /\ inserted' = inserted + 1
           /\ outcome' = [outcome EXCEPT ![r] = "created"]
           /\ got' = [got EXCEPT ![r] = inserted]
<1>1. op[r].key \in Keys  BY DEF BaseInv, Stage, Insert
<1> QED  BY <1>1 DEF Insert, NewRow

LEMMA BaseInsert ==
    ASSUME BaseInv, NEW r \in Requests, Insert(r)
    PROVE  BaseInv'
<1> USE DEF BaseInv
<1> DEFINE k == op[r].key
<1>0. /\ Stage(r) /\ Answered(r) /\ k \in Keys /\ op[r] \in Op
      /\ fp[r] # None /\ outcome[r] = None /\ got[r] = None /\ answer[r] = None
      /\ pc[r] = "insert" /\ 0 \in 0 .. MaxLockTries - 1
  BY BoundsAssumption DEF Insert, Stage
<1>1. /\ tries' = [tries EXCEPT ![r] = 0]
      /\ UNCHANGED <<vendor, tasks, op, fp, answer, faults, template, passed,
                     paid, active, changes,
                     purging>>
  BY DEF Insert, RequestFrame, surroundings
<1>2. CASE row[k] # None
  <2>1. /\ pc' = [pc EXCEPT ![r] = "get"]
        /\ UNCHANGED <<row, inserted, outcome, got, copy, current>>
    BY <1>2 DEF Insert, Go
  <2>2. TypeOK'  BY <1>0, <1>1, <2>1 DEF TypeOK, PC
  <2>3. \A q \in Requests \ {r} : Own(q)' = Own(q)
    BY <1>1, <2>1 DEF TypeOK, Own
  <2>4. Stage(r)' /\ Answered(r)'
    BY <1>0, <1>1, <2>1 DEF TypeOK, Stage, Answered, Told
  <2> QED  BY <1>1, <2>2, <2>3, <2>4, BaseFrame
<1>3. CASE row[k] = None
  <2> DEFINE c == [id |-> inserted, status |-> NewRow(r).status]
  <2>1. /\ row' = [row EXCEPT ![k] = NewRow(r)]
        /\ inserted' = inserted + 1
        /\ outcome' = [outcome EXCEPT ![r] = "created"]
        /\ got' = [got EXCEPT ![r] = inserted]
    BY <1>3, InsertEffect
  <2>2. row'[k] = NewRow(r)  BY <1>0, <2>1 DEF TypeOK
  <2>3. \/ /\ pc' = [pc EXCEPT ![r] = "queue"]
           /\ copy' = [copy EXCEPT ![r] = [copy[r] EXCEPT ![k] = c]]
           /\ current' = [current EXCEPT ![r] = k]
        \/ /\ pc' = [pc EXCEPT ![r] = "respond"]
           /\ UNCHANGED <<copy, current>>
    BY <1>3, <2>2 DEF Insert, Go
  <2>4. c \in Copy /\ c.status \in StatusesToQueue
    BY <1>0, NewRowType DEF Copy, Row, TypeOK
  <2>5. /\ inserted \in Nat /\ inserted # None /\ "created" # None
        /\ "created" \in Outcomes
    BY NoneAssumption DEF TypeOK, Outcomes
  <2> HIDE DEF c, k
  <2>6. row' \in [Keys -> Row \cup {None}]
    BY <1>0, <2>1, NewRowType DEF TypeOK
  <2>7. copy' \in [Requests -> [Keys -> Copy \cup {None}]]
    <3>1. [copy[r] EXCEPT ![k] = c] \in [Keys -> Copy \cup {None}]
      BY <1>0, <2>4 DEF TypeOK
    <3> QED  BY <2>3, <3>1 DEF TypeOK
  <2>8. TypeOK'
    <3>1. pc' \in [Requests -> PC]  BY <2>3 DEF TypeOK, PC
    <3>4. current' \in [Requests -> Keys \cup {None}]
      BY <1>0, <2>3 DEF TypeOK
    <3>2. /\ inserted' \in Nat
          /\ outcome' \in [Requests -> Outcomes \cup {None}]
          /\ got' \in [Requests -> Nat \cup {None}]
      BY <2>1, <2>5 DEF TypeOK
    <3>3. tries' \in [Requests -> 0 .. MaxLockTries - 1]
      BY <1>0, <1>1 DEF TypeOK
    <3> QED  BY <1>1, <2>6, <2>7, <3>1, <3>2, <3>3, <3>4 DEF TypeOK
  <2>9. \A q \in Requests \ {r} : Own(q)' = Own(q)
    BY <1>1, <2>1, <2>3 DEF TypeOK, Own
  <2>10. /\ outcome'[r] = "created" /\ got'[r] = inserted /\ fp'[r] = fp[r]
         /\ op'[r] = op[r] /\ answer'[r] = None
    BY <1>0, <1>1, <2>1 DEF TypeOK
  <2>11. \/ /\ pc'[r] = "queue" /\ current'[r] = k
            /\ copy'[r][current'[r]] = c
         \/ pc'[r] = "respond"
    BY <1>0, <2>3 DEF TypeOK
  <2>12. Stage(r)' /\ Answered(r)'
    BY <1>0, <2>4, <2>5, <2>10, <2>11 DEF k, Stage, Answered, Told
  <2> QED  BY <1>1, <2>8, <2>9, <2>12, BaseFrame
<1> QED  BY <1>2, <1>3

LEMMA BaseAnswer ==
    ASSUME BaseInv, NEW r \in Requests,
           Respond(r) \/ BulkEnd(r) \/ Die(r) \/ QueuePublishFails(r)
    PROVE  BaseInv'
<1> USE DEF BaseInv
<1>0. Stage(r) /\ Answered(r)  OBVIOUS
<1>1. /\ UNCHANGED <<vendor, row, inserted, tasks, op, fp, tries, outcome, got,
                     copy, current, template, passed, paid, active, changes,
                     purging>>
      /\ faults' \in 0 .. MaxFaults
  BY BoundsAssumption DEF Respond, BulkEnd, Die, QueuePublishFails, RequestFrame,
     surroundings, TypeOK
<1>2. CASE Respond(r)
  <2> DEFINE code == CASE outcome[r] = "created" -> 201
                       [] outcome[r] = "existing" -> 200
                       [] outcome[r] = "conflict" -> 409
  <2>1. /\ pc' = [pc EXCEPT ![r] = "done"]
        /\ answer' = [answer EXCEPT ![r] = code]
    BY <1>2 DEF Respond, Reply, Go
  <2>2. outcome[r] \in Outcomes
    BY <1>2 DEF Respond, Stage, TypeOK
  <2>3. \/ code = 201 /\ outcome[r] = "created"
        \/ code = 200 /\ outcome[r] = "existing"
        \/ code = 409 /\ outcome[r] = "conflict"
    BY <2>2 DEF Outcomes
  <2> HIDE DEF code
  <2>4. TypeOK'
    <3>1. pc' \in [Requests -> PC]  BY <2>1 DEF TypeOK, PC
    <3>2. answer' \in [Requests -> Answers \cup {None}]
      BY <2>1, <2>3 DEF TypeOK, Answers
    <3> QED  BY <1>1, <3>1, <3>2 DEF TypeOK
  <2>5. \A q \in Requests \ {r} : Own(q)' = Own(q)
    BY <1>1, <2>1 DEF TypeOK, Own
  <2>6. pc'[r] = "done" /\ answer'[r] = code
    BY <2>1 DEF TypeOK
  <2>7. Stage(r)' /\ Answered(r)'
    BY <1>0, <1>1, <2>3, <2>6 DEF Stage, Answered, Told
  <2> QED  BY <1>1, <2>4, <2>5, <2>7, BaseFrame
<1>3. CASE BulkEnd(r)
  <2>1. /\ pc' = [pc EXCEPT ![r] = "done"]
        /\ answer' = [answer EXCEPT ![r] = 200]
        /\ pc[r] = "bulk"
    BY <1>3 DEF BulkEnd, Reply, Go
  <2>2. TypeOK'  BY <1>1, <2>1 DEF TypeOK, PC, Answers
  <2>3. \A q \in Requests \ {r} : Own(q)' = Own(q)
    BY <1>1, <2>1 DEF TypeOK, Own
  <2>4. got[r] = None  BY <1>0, <2>1 DEF Stage
  <2>5. Stage(r)' /\ Answered(r)'
    BY <1>0, <1>1, <2>1, <2>4 DEF TypeOK, Stage, Answered, Told
  <2> QED  BY <1>1, <2>2, <2>3, <2>5, BaseFrame
<1>4. CASE Die(r) \/ QueuePublishFails(r)
  <2>1. /\ answer' = answer
        /\ \/ pc' = [pc EXCEPT ![r] = "dead"] /\ pc[r] \notin {"new", "done"}
           \/ pc' = [pc EXCEPT ![r] = "rollback"] /\ pc[r] = "publish"
    BY <1>4 DEF Die, QueuePublishFails, Go
  <2>2. TypeOK'
    <3>1. pc' \in [Requests -> PC]  BY <2>1 DEF TypeOK, PC
    <3> QED  BY <1>1, <2>1, <3>1 DEF TypeOK
  <2>3. \A q \in Requests \ {r} : Own(q)' = Own(q)
    BY <1>1, <2>1 DEF TypeOK, Own
  <2>4. \/ pc'[r] = "dead" /\ pc[r] \notin {"new", "done"}
        \/ pc'[r] = "rollback" /\ pc[r] = "publish"
    BY <2>1 DEF TypeOK
  <2>5. Stage(r)' /\ Answered(r)'
    BY <1>0, <1>1, <2>1, <2>4 DEF Stage, Answered, Told
  <2> QED  BY <1>1, <2>2, <2>3, <2>5, BaseFrame
<1> QED  BY <1>2, <1>3, <1>4

\* A status put into a row that is there leaves it a row.
LEMMA StatusPut ==
    ASSUME TypeOK, NEW k \in Keys, row[k] # None, NEW s \in Status
    PROVE  /\ [row EXCEPT ![k].status = s] \in [Keys -> Row \cup {None}]
           /\ [row EXCEPT ![k].status = s][k] \in Row
           /\ [row EXCEPT ![k].status = s][k].status = s
           /\ [row EXCEPT ![k].status = s][k].id = row[k].id
           /\ [row EXCEPT ![k].status = s][k].fp = row[k].fp
<1>1. row[k] \in Row  BY DEF TypeOK
<1>2. [row[k] EXCEPT !.status = s] \in Row  BY <1>1 DEF Row
<1> QED  BY <1>1, <1>2 DEF TypeOK, Row

LEMMA BaseBulkNext ==
    ASSUME BaseInv, NEW r \in Requests, NEW k \in Keys, BulkNext(r, k)
    PROVE  BaseInv'
<1> USE DEF BaseInv
<1>1. /\ UNCHANGED <<vendor, row, inserted, tasks, op, fp, tries, outcome, got,
                     answer, faults, template, passed, paid, active, changes,
                     purging>>
      /\ pc[r] = "bulk" /\ copy[r][k] # None
  BY DEF BulkNext, RequestFrame, surroundings
<1>2. Stage(r) /\ Answered(r)  OBVIOUS
<1>3. CASE Sendable(copy[r][k])
  <2>1. /\ pc' = [pc EXCEPT ![r] = "queue"]
        /\ current' = [current EXCEPT ![r] = k]
        /\ copy' = copy
    BY <1>3 DEF BulkNext, Go
  <2>2. TypeOK'  BY <1>1, <2>1 DEF TypeOK, PC
  <2>3. \A q \in Requests \ {r} : Own(q)' = Own(q)
    BY <1>1, <2>1 DEF TypeOK, Own
  <2>4. copy[r][k] \in Copy /\ copy[r][k].status \in StatusesToQueue
    BY <1>1, <1>3 DEF TypeOK, Sendable
  <2>5. pc'[r] = "queue" /\ current'[r] = k /\ op'[r] = op[r]
    BY <1>1, <2>1 DEF TypeOK
  <2>6. Stage(r)' /\ Answered(r)'
    BY <1>1, <1>2, <2>1, <2>4, <2>5 DEF Stage, Answered, Told
  <2> QED  BY <1>1, <2>2, <2>3, <2>6, BaseFrame
<1>4. CASE ~Sendable(copy[r][k])
  <2>1. /\ copy' = [copy EXCEPT ![r] = [copy[r] EXCEPT ![k] = None]]
        /\ UNCHANGED <<pc, current>>
    BY <1>4 DEF BulkNext
  <2>2. [copy[r] EXCEPT ![k] = None] \in [Keys -> Copy \cup {None}]
    BY DEF TypeOK
  <2>3. TypeOK'  BY <1>1, <2>1, <2>2 DEF TypeOK
  <2>4. \A q \in Requests \ {r} : Own(q)' = Own(q)
    BY <1>1, <2>1 DEF TypeOK, Own
  <2>5. Stage(r)' /\ Answered(r)'
    BY <1>1, <1>2, <2>1 DEF Stage, Answered, Told
  <2> QED  BY <1>1, <2>3, <2>4, <2>5, BaseFrame
<1> QED  BY <1>3, <1>4

\* What follows _try_queue_notification, whatever it did to the row.
LEMMA BaseAfterQueue ==
    ASSUME BaseInv, NEW r \in Requests,
           pc[r] \in {"queue", "publish", "rollback"}, AfterQueue(r),
           row' \in [Keys -> Row \cup {None}], tasks' \in [Keys -> Nat],
           RequestFrame,
           UNCHANGED <<inserted, op, fp, tries, outcome, got, answer, faults>>
    PROVE  BaseInv'
<1> USE DEF BaseInv
<1>1. Stage(r) /\ Answered(r) /\ current[r] \in Keys
  BY DEF Stage
<1>2. /\ copy' = [copy EXCEPT ![r] = [copy[r] EXCEPT ![current[r]] = None]]
      /\ current' = [current EXCEPT ![r] = None]
      /\ \/ pc' = [pc EXCEPT ![r] = "bulk"] /\ op[r].endpoint = "bulk"
         \/ pc' = [pc EXCEPT ![r] = "respond"] /\ op[r].endpoint # "bulk"
      /\ UNCHANGED <<vendor, template, passed, paid, active, changes,
                     purging>>
  BY DEF AfterQueue, Go, RequestFrame, surroundings
<1>3. [copy[r] EXCEPT ![current[r]] = None] \in [Keys -> Copy \cup {None}]
  BY DEF TypeOK
<1>4. TypeOK'
  <2>1. pc' \in [Requests -> PC]  BY <1>2 DEF TypeOK, PC
  <2> QED  BY <1>2, <1>3, <2>1 DEF TypeOK
<1>5. \A q \in Requests \ {r} : Own(q)' = Own(q)
  BY <1>2 DEF TypeOK, Own
<1>6. \/ pc'[r] = "bulk" /\ op[r].endpoint = "bulk"
      \/ pc'[r] = "respond" /\ op[r].endpoint # "bulk"
  BY <1>2 DEF TypeOK
<1>7. Stage(r)' /\ Answered(r)'
  BY <1>1, <1>6 DEF Stage, Answered, Told
<1> QED  BY <1>2, <1>4, <1>5, <1>7, BaseFrame

LEMMA BaseQueue ==
    ASSUME BaseInv, NEW r \in Requests,
           QueueUpdate(r) \/ QueuePublish(r) \/ QueueRollback(r)
    PROVE  BaseInv'
<1> USE DEF BaseInv
<1> DEFINE k == current[r]
<1>0. /\ Stage(r) /\ Answered(r) /\ k \in Keys
      /\ copy[r][k] \in Copy
  BY DEF QueueUpdate, QueuePublish, QueueRollback, Stage
<1>1. CASE QueueUpdate(r)
  <2>1. CASE /\ row[k] # None
             /\ row[k].id = copy[r][k].id
             /\ row[k].status = copy[r][k].status
    <3>1. /\ row' = [row EXCEPT ![k].status = "queued"]
          /\ pc' = [pc EXCEPT ![r] = "publish"]
          /\ pc[r] = "queue"
          /\ UNCHANGED <<vendor, inserted, tasks, op, fp, tries, outcome, got, copy,
                         current, answer, faults, template, passed, paid,
                         active, changes,
                     purging>>
      BY <1>1, <2>1 DEF QueueUpdate, Go, RequestFrame, surroundings
    <3>2. row' \in [Keys -> Row \cup {None}]
      BY <1>0, <2>1, <3>1, StatusPut DEF Status
    <3>3. TypeOK'  BY <3>1, <3>2 DEF TypeOK, PC
    <3>4. \A q \in Requests \ {r} : Own(q)' = Own(q)
      BY <3>1 DEF TypeOK, Own
    <3>5. Stage(r)' /\ Answered(r)'
      BY <1>0, <3>1 DEF TypeOK, Stage, Answered, Told
    <3> QED  BY <3>1, <3>3, <3>4, <3>5, BaseFrame
  <2>2. CASE ~(/\ row[k] # None
               /\ row[k].id = copy[r][k].id
               /\ row[k].status = copy[r][k].status)
    BY <1>1, <2>2, BaseAfterQueue DEF QueueUpdate, TypeOK
  <2> QED  BY <2>1, <2>2
<1>2. CASE QueuePublish(r)
  <2>1. tasks' \in [Keys -> Nat]  BY <1>0, <1>2 DEF QueuePublish, TypeOK
  <2> QED  BY <1>2, <2>1, BaseAfterQueue DEF QueuePublish, TypeOK
<1>3. CASE QueueRollback(r)
  <2>1. copy[r][k].status \in Status  BY <1>0 DEF Copy
  <2>2. row' \in [Keys -> Row \cup {None}]
    BY <1>0, <1>3, <2>1, StatusPut DEF QueueRollback, TypeOK
  <2> QED  BY <1>3, <2>2, BaseAfterQueue DEF QueueRollback, TypeOK
<1> QED  BY <1>1, <1>2, <1>3

\* What happens to the rows and around the requests leaves the requests alone.
LEMMA BaseOutside ==
    ASSUME BaseInv,
           \/ \E k \in Keys : Dispatch(k) \/ \E s \in {"sent", "failed"} : Serve(k, s)
           \/ Surround
    PROVE  BaseInv'
<1> USE DEF BaseInv
<1>1. UNCHANGED <<vendor, inserted, request, faults>>
  BY DEF Dispatch, Serve, Surround, Hide, PurgeSelect, PurgeDelete,
         ChangeTemplate, DatePasses,
         ChangeSubscription, ChangeApplication, Change
<1>2. \A q \in Requests : Stage(q)' /\ Answered(q)'
  BY <1>1, StageFrame DEF request, Own
<1>3. ASSUME NEW k \in Keys, NEW s \in {"sent", "failed"},
             Dispatch(k) \/ Serve(k, s)
      PROVE  TypeOK' /\ (template.version <= changes)'
  <2>1. row' \in [Keys -> Row \cup {None}]
    <3>1. "queued" \in Status /\ s \in Status  BY DEF Status
    <3>2. CASE Dispatch(k)  BY <3>1, <3>2, StatusPut DEF Dispatch
    <3>3. CASE Serve(k, s)  BY <3>1, <3>3, StatusPut DEF Serve, TypeOK
    <3> QED  BY <1>3, <3>2, <3>3
  <2>2. tasks' \in [Keys -> Nat]
    <3>1. tasks[k] \in Nat /\ tasks \in [Keys -> Nat]  BY DEF TypeOK
    <3>2. CASE Dispatch(k)  BY <3>1, <3>2 DEF Dispatch
    <3>3. CASE Serve(k, s)
      <4>1. tasks[k] - 1 \in Nat  BY <3>1, <3>3 DEF Serve
      <4> QED  BY <3>1, <3>3, <4>1 DEF Serve
    <3> QED  BY <1>3, <3>2, <3>3
  <2> QED  BY <1>1, <1>3, <2>1, <2>2
           DEF Dispatch, Serve, TypeOK, request, surroundings
<1>4. ASSUME Surround, ~PurgeDelete
      PROVE  TypeOK' /\ (template.version <= changes)'
  <2>0. changes' = changes + 1 /\ changes' \in 0 .. MaxChanges /\ tasks' = tasks
    BY <1>4, BoundsAssumption DEF Surround, Hide, PurgeSelect, PurgeDelete,
         ChangeTemplate,
       DatePasses, ChangeSubscription, ChangeApplication, Change, TypeOK
  <2>1. row' \in [Keys -> Row \cup {None}]
    <3>1. ASSUME NEW k \in Keys, Hide(k)
          PROVE  row' \in [Keys -> Row \cup {None}]
      <4>1. row[k] \in Row  BY <3>1 DEF Hide, TypeOK
      <4>2. [row[k] EXCEPT !.visible = FALSE] \in Row  BY <4>1 DEF Row
      <4> QED  BY <3>1, <4>2 DEF Hide, TypeOK
    <3>2. ASSUME NEW K \in SUBSET Keys, PurgeSelect(K) PROVE row' = row
      BY <3>2 DEF PurgeSelect
    <3>3. ASSUME \/ \E s \in TemplateStates : ChangeTemplate(s)
                 \/ DatePasses \/ ChangeSubscription \/ ChangeApplication
          PROVE  row' = row
      BY <3>3 DEF ChangeTemplate, DatePasses, ChangeSubscription, ChangeApplication
    <3> QED  BY <1>4, <3>1, <3>2, <3>3 DEF Surround, TypeOK
  <2>2. /\ template' \in [version : Nat, state : TemplateStates]
        /\ template'.version <= template.version + 1
    BY <1>4 DEF Surround, Hide, PurgeSelect, PurgeDelete,
         ChangeTemplate, DatePasses,
       ChangeSubscription, ChangeApplication, TypeOK, surroundings
  <2>3. passed' \in BOOLEAN /\ paid' \in BOOLEAN /\ active' \in BOOLEAN
    BY <1>4, Zenon DEF Surround, Hide, PurgeSelect, PurgeDelete,
         ChangeTemplate, DatePasses,
       ChangeSubscription, ChangeApplication, TypeOK, surroundings
  <2>6. purging' \in SUBSET Nat
    <3>1. ASSUME NEW K \in SUBSET Keys, PurgeSelect(K)
          PROVE  purging' \in SUBSET Nat
      <4>1. \A k \in K : row[k] \in Row  BY <3>1 DEF PurgeSelect, TypeOK
      <4>2. \A k \in K : row[k].id \in Nat  BY <4>1 DEF Row
      <4> QED  BY <3>1, <4>2 DEF PurgeSelect
    <3>2. ASSUME ~\E K \in SUBSET Keys : PurgeSelect(K)
          PROVE  purging' = purging
      BY <1>4, <3>2 DEF Surround, Hide, ChangeTemplate, DatePasses,
         ChangeSubscription, ChangeApplication
    <3> QED  BY <3>1, <3>2 DEF TypeOK
  <2>4. TypeOK'  BY <1>1, <2>0, <2>1, <2>2, <2>3, <2>6 DEF TypeOK, request
  <2>5. template.version \in Nat /\ template'.version \in Nat /\ changes \in Nat
    BY <2>2 DEF TypeOK
  <2> QED  BY <2>0, <2>2, <2>4, <2>5
<1>5. CASE PurgeDelete
  <2>1. row' \in [Keys -> Row \cup {None}]  BY <1>5 DEF PurgeDelete, TypeOK
  <2>2. tasks' \in [Keys -> Nat] /\ purging' \in SUBSET Nat
    BY <1>5 DEF PurgeDelete, TypeOK
  <2>3. TypeOK' /\ (template.version <= changes)'
    BY <1>5, <2>1, <2>2 DEF PurgeDelete, TypeOK, request, surroundings
  <2> QED  BY <1>2, <2>3
<1> QED  BY <1>2, <1>3, <1>4, <1>5

LEMMA BaseStep == BaseInv /\ [Next]_vars => BaseInv'
<1> SUFFICES ASSUME BaseInv, [Next]_vars PROVE BaseInv'  OBVIOUS
<1>1. ASSUME NEW r \in Requests, RequestStep(r) PROVE BaseInv'
  BY <1>1, BaseLookup, BaseInsert, BaseAnswer, BaseBulkNext, BaseQueue
     DEF RequestStep
<1>2. ASSUME NEW r \in Requests, NEW o \in Ops, Begin(r, o) PROVE BaseInv'
  BY <1>2, BaseBegin
<1>3. CASE UNCHANGED vars
  <2>1. UNCHANGED request /\ TypeOK' /\ UNCHANGED <<template, changes>>
    BY <1>3 DEF BaseInv, TypeOK, vars, request, surroundings
  <2>2. \A q \in Requests : Stage(q)' /\ Answered(q)'
    BY <2>1, StageFrame DEF BaseInv, request, Own
  <2> QED  BY <2>1, <2>2 DEF BaseInv
<1> QED  BY <1>1, <1>2, <1>3, BaseOutside DEF Next

\* The state is typed, and every request carries what its place in the views
\* implies: only a request with a storable key is fingerprinted, it has no
\* outcome before it has met the row, and its answer is the one its outcome
\* stands for (201 created, 200 existing, 409 conflict).
THEOREM BaseCorrect == Spec => []BaseInv
<1> QED  BY BaseInit, BaseStep, PTL DEF Spec

-----------------------------------------------------------------------------
(* What a step does to the keys: five kinds of steps *)

\* The rows stay where they are, with their primary keys and fingerprints.
RowsKept ==
    \A k \in Keys :
        /\ row'[k] = None <=> row[k] = None
        /\ row[k] # None => row'[k].id = row[k].id /\ row'[k].fp = row[k].fp

Quiet ==
    /\ UNCHANGED <<outcome, got, fp, inserted>>
    /\ RowsKept
    /\ \A q \in Requests : fp[q] # None => op'[q] = op[q]

Asking(r, o, p) ==
    /\ fp[r] = None /\ outcome[r] = None /\ o.key \in Keys /\ p \in Fingerprint
    /\ op' = [op EXCEPT ![r] = o]
    /\ fp' = [fp EXCEPT ![r] = p]
    /\ UNCHANGED <<outcome, got, inserted, row>>

Finding(r, k) ==
    /\ fp[r] # None /\ outcome[r] = None /\ op[r].key = k /\ row[k] # None
    /\ outcome' = [outcome EXCEPT ![r] =
           IF row[k].fp = fp[r] THEN "existing" ELSE "conflict"]
    /\ got' = [got EXCEPT ![r] = row[k].id]
    /\ UNCHANGED <<fp, op, inserted, row>>

Creating(r, k) ==
    /\ fp[r] # None /\ outcome[r] = None /\ op[r].key = k /\ row[k] = None
    /\ outcome' = [outcome EXCEPT ![r] = "created"]
    /\ got' = [got EXCEPT ![r] = inserted]
    /\ row' = [row EXCEPT ![k] = NewRow(r)]
    /\ inserted' = inserted + 1
    /\ UNCHANGED <<fp, op>>

Emptying(K) ==
    /\ \A k \in K : row[k] # None
    /\ row' = [k \in Keys |-> IF k \in K THEN None ELSE row[k]]
    /\ UNCHANGED <<outcome, got, fp, op, inserted>>

AnyKind ==
    \/ Quiet
    \/ \E r \in Requests, o \in Op, p \in Fingerprint : Asking(r, o, p)
    \/ \E r \in Requests, k \in Keys : Finding(r, k) \/ Creating(r, k)
    \/ \E K \in SUBSET Keys : Emptying(K)

\* A status or visibility change keeps the rows.
LEMMA KeptBy ==
    ASSUME TypeOK, NEW k \in Keys, row[k] # None,
           \/ \E s \in Status : row' = [row EXCEPT ![k].status = s]
           \/ row' = [row EXCEPT ![k].visible = FALSE]
    PROVE  RowsKept
<1>1. row[k] \in Row  BY DEF TypeOK
<1>2. \A j \in Keys \ {k} : row'[j] = row[j]  BY DEF TypeOK
<1>3. row'[k] \in Row /\ row'[k].id = row[k].id /\ row'[k].fp = row[k].fp
  <2>1. CASE \E s \in Status : row' = [row EXCEPT ![k].status = s]
    <3>1. PICK s \in Status : row' = [row EXCEPT ![k].status = s]  BY <2>1
    <3> QED  BY <3>1, StatusPut
  <2>2. CASE row' = [row EXCEPT ![k].visible = FALSE]
    <3>1. row'[k] = [row[k] EXCEPT !.visible = FALSE]  BY <2>2 DEF TypeOK
    <3> QED  BY <1>1, <3>1 DEF Row
  <2> QED  BY <2>1, <2>2
<1> QED  BY <1>1, <1>2, <1>3, NoneAssumption DEF RowsKept

LEMMA KindOfBegin ==
    ASSUME BaseInv, NEW r \in Requests, NEW o \in Ops, Begin(r, o)
    PROVE  AnyKind
<1>1. /\ o \in Op /\ fp[r] = None /\ outcome[r] = None
      /\ op' = [op EXCEPT ![r] = o]
      /\ UNCHANGED <<outcome, got, inserted, row>>
  BY OpsAssumption DEF Begin, BaseInv, Stage
<1>2. CASE Refusal(o) = None /\ o.endpoint # "bulk"
  <2>1. fp' = [fp EXCEPT ![r] = ComputeRequestFingerprint(o)]
    BY <1>2 DEF Begin
  <2>2. ComputeRequestFingerprint(o) \in Fingerprint /\ o.key \in Keys
    BY <1>1, <1>2, FingerprintType, RefusalType
  <2>3. Asking(r, o, ComputeRequestFingerprint(o))
    BY <1>1, <2>1, <2>2 DEF Asking
  <2> QED  BY <1>1, <2>2, <2>3 DEF AnyKind
<1>3. CASE ~(Refusal(o) = None /\ o.endpoint # "bulk")
  <2>1. fp' = fp  BY <1>3 DEF Begin
  <2>2. Quiet  BY <1>1, <2>1 DEF Quiet, RowsKept, BaseInv, TypeOK
  <2> QED  BY <2>2 DEF AnyKind
<1> QED  BY <1>2, <1>3

LEMMA KindOfRequest ==
    ASSUME BaseInv, NEW r \in Requests, RequestStep(r)
    PROVE  AnyKind
<1>0. Stage(r) /\ TypeOK /\ UNCHANGED <<fp, op>>
  BY DEF BaseInv, RequestStep, Lookup, Locked, Insert, Get, Respond, BulkNext,
         BulkEnd, QueueUpdate, QueuePublish, QueuePublishFails, QueueRollback, Die
<1>1. CASE (Lookup(r) \/ Get(r)) /\ row[op[r].key] # None
  <2>1. op[r].key \in Keys /\ fp[r] # None /\ outcome[r] = None
    BY <1>0, <1>1 DEF Lookup, Get, Stage
  <2>2. Finding(r, op[r].key)
    BY <1>0, <1>1, <2>1 DEF Lookup, Get, Decided, Finding
  <2> QED  BY <2>1, <2>2 DEF AnyKind
<1>2. CASE Insert(r) /\ row[op[r].key] = None
  <2>1. op[r].key \in Keys /\ fp[r] # None /\ outcome[r] = None
    BY <1>0, <1>2 DEF Insert, Stage
  <2>2. Creating(r, op[r].key)
    BY <1>0, <1>2, <2>1, InsertEffect DEF Creating
  <2> QED  BY <2>1, <2>2 DEF AnyKind
<1>3. CASE QueueUpdate(r) \/ QueueRollback(r)
  <2>1. UNCHANGED <<outcome, got, inserted>> /\ current[r] \in Keys
    BY <1>0, <1>3 DEF QueueUpdate, QueueRollback, Stage
  <2>2. RowsKept
    <3>1. "queued" \in Status /\ copy[r][current[r]].status \in Status
      BY <1>0, <1>3 DEF QueueUpdate, QueueRollback, Stage, Copy, Status
    <3>2. CASE row' = row  BY <3>2 DEF RowsKept
    <3>3. CASE row' # row
      <4>1. /\ row[current[r]] # None
            /\ \E s \in Status : row' = [row EXCEPT ![current[r]].status = s]
        BY <1>3, <3>1, <3>3 DEF QueueUpdate, QueueRollback
      <4> QED  BY <1>0, <2>1, <4>1, KeptBy
    <3> QED  BY <3>2, <3>3
  <2> QED  BY <1>0, <2>1, <2>2 DEF Quiet, AnyKind
<1>4. CASE \/ (Lookup(r) \/ Get(r)) /\ row[op[r].key] = None
           \/ Insert(r) /\ row[op[r].key] # None
           \/ Locked(r) \/ Respond(r) \/ BulkEnd(r) \/ QueuePublish(r)
           \/ QueuePublishFails(r) \/ Die(r) \/ \E k \in Keys : BulkNext(r, k)
  <2>1. UNCHANGED <<outcome, got, inserted, row>>
    BY <1>4 DEF Lookup, Locked, Insert, Get, Respond, BulkNext, BulkEnd,
                QueuePublish, QueuePublishFails, Die
  <2> QED  BY <1>0, <2>1 DEF Quiet, RowsKept, AnyKind
<1> QED  BY <1>1, <1>2, <1>3, <1>4 DEF RequestStep

LEMMA KindOfOutside ==
    ASSUME BaseInv,
           \/ \E k \in Keys : Dispatch(k) \/ \E s \in {"sent", "failed"} : Serve(k, s)
           \/ Surround
    PROVE  AnyKind
<1>0. TypeOK /\ UNCHANGED <<outcome, got, fp, op, inserted>>
  BY DEF BaseInv, Dispatch, Serve, Surround, Hide, PurgeSelect, PurgeDelete,
         ChangeTemplate,
         DatePasses, ChangeSubscription, ChangeApplication, Change, request
<1>1. CASE PurgeDelete
  <2> DEFINE K == {k \in Keys : Purged(k)}
  <2>1. row' = [k \in Keys |-> IF k \in K THEN None ELSE row[k]]
    BY <1>1 DEF PurgeDelete
  <2>2. \A k \in K : row[k] # None  BY DEF Purged
  <2>3. Emptying(K)  BY <1>0, <2>1, <2>2 DEF Emptying
  <2> QED  BY <2>3 DEF AnyKind
<1>2. ASSUME NEW k \in Keys, NEW s \in {"sent", "failed"},
             Dispatch(k) \/ Serve(k, s) \/ Hide(k)
      PROVE  RowsKept
  <2>1. s \in Status /\ "queued" \in Status  BY DEF Status
  <2>2. CASE row' = row  BY <2>2 DEF RowsKept
  <2>3. CASE row' # row
    <3>1. /\ row[k] # None
          /\ \/ \E t \in Status : row' = [row EXCEPT ![k].status = t]
             \/ row' = [row EXCEPT ![k].visible = FALSE]
      BY <1>2, <2>1, <2>3 DEF Dispatch, Serve, Hide
    <3> QED  BY <1>0, <3>1, KeptBy
  <2> QED  BY <2>2, <2>3
<1>3. ASSUME \/ \E s \in TemplateStates : ChangeTemplate(s)
             \/ \E K \in SUBSET Keys : PurgeSelect(K)
             \/ DatePasses \/ ChangeSubscription \/ ChangeApplication
      PROVE  RowsKept
  BY <1>3 DEF PurgeSelect, ChangeTemplate, DatePasses, ChangeSubscription,
              ChangeApplication,
              RowsKept
<1>4. ASSUME RowsKept PROVE AnyKind
  BY <1>0, <1>4 DEF Quiet, AnyKind
<1>5. "sent" \in {"sent", "failed"}  OBVIOUS
<1> QED  BY <1>1, <1>2, <1>3, <1>4, <1>5 DEF Surround

\* Every step is of one of the kinds.
LEMMA Kinds == BaseInv /\ [Next]_vars => AnyKind
<1> SUFFICES ASSUME BaseInv, [Next]_vars PROVE AnyKind  OBVIOUS
<1>1. CASE UNCHANGED vars
  BY <1>1 DEF vars, request, AnyKind, Quiet, RowsKept
<1> QED  BY <1>1, KindOfBegin, KindOfRequest, KindOfOutside DEF Next

-----------------------------------------------------------------------------
(* One payload per notification *)

LEMMA PayloadInit == Init => PayloadInv
BY DEF Init, PayloadInv, Agrees

LEMMA PayloadStep == BaseInv /\ PayloadInv /\ [Next]_vars => PayloadInv'
<1> SUFFICES ASSUME BaseInv, PayloadInv, [Next]_vars PROVE PayloadInv'
  OBVIOUS
<1>0. /\ AnyKind /\ inserted \in Nat
      /\ \A k \in Keys : row[k] # None => row[k].id \in Nat /\ row[k].id # None
      /\ \A q \in Requests : got[q] = None <=> outcome[q] = None
      /\ \A q \in Requests : got[q] # None => got[q] \in Nat
  BY Kinds, RowFound, NoneAssumption DEF BaseInv, TypeOK, Stage
<1>1. CASE Quiet
  BY <1>1 DEF Quiet, RowsKept, PayloadInv, Agrees
<1>2. ASSUME NEW r \in Requests, NEW o \in Op, NEW p \in Fingerprint,
             Asking(r, o, p)
      PROVE  PayloadInv'
  <2>1. /\ got[r] = None /\ outcome[r] = None
        /\ UNCHANGED <<outcome, got, inserted, row>>
        /\ \A q \in Requests \ {r} : fp'[q] = fp[q]
    BY <1>0, <1>2 DEF Asking, BaseInv, TypeOK
  <2> QED  BY <2>1 DEF PayloadInv, Agrees
<1>3. ASSUME NEW r \in Requests, NEW k \in Keys, Finding(r, k)
      PROVE  PayloadInv'
  <2>1. /\ \A q \in Requests \ {r} : outcome'[q] = outcome[q] /\ got'[q] = got[q]
        /\ outcome'[r] \in {"existing", "conflict"}
        /\ outcome'[r] = "conflict" <=> fp[r] # row[k].fp
        /\ got'[r] = row[k].id /\ got'[r] # None /\ row[k] # None
        /\ UNCHANGED <<fp, inserted, row>>
    BY <1>0, <1>3 DEF Finding, BaseInv, TypeOK
  <2>2. /\ \A j \in Keys : row'[j] # None => row'[j].id < inserted'
        /\ \A j, l \in Keys :
             (row'[j] # None /\ row'[l] # None /\ row'[j].id = row'[l].id) => j = l
        /\ \A q \in Requests : got'[q] # None => got'[q] < inserted'
    BY <2>1 DEF PayloadInv
  <2>3. \A q \in Requests, j \in Keys : Agrees(q, j)'
    BY <2>1 DEF PayloadInv, Agrees
  <2>4. ASSUME NEW q \in Requests, q # r, got[q] # None, got[q] = row[k].id
        PROVE  /\ outcome'[q] = "conflict" <=> fp[q] # row[k].fp
               /\ outcome'[q] # None
    BY <1>0, <2>1, <2>4 DEF PayloadInv, Agrees
  <2>5. \A q, s \in Requests :
          (got'[q] # None /\ got'[s] # None /\ got'[q] = got'[s] /\ q # s) =>
              /\ outcome'[q] # "conflict" /\ outcome'[s] # "conflict" =>
                     fp'[q] = fp'[s]
              /\ fp'[q] = fp'[s] =>
                     (outcome'[q] = "conflict" <=> outcome'[s] = "conflict")
              /\ outcome'[q] = "created" => outcome'[s] # "created"
    BY <2>1, <2>4 DEF PayloadInv
  <2> QED  BY <2>2, <2>3, <2>5 DEF PayloadInv
<1>4. ASSUME NEW r \in Requests, NEW k \in Keys, Creating(r, k)
      PROVE  PayloadInv'
  <2>1. /\ \A q \in Requests \ {r} : outcome'[q] = outcome[q] /\ got'[q] = got[q]
        /\ outcome'[r] = "created" /\ got'[r] = inserted
        /\ \A j \in Keys \ {k} : row'[j] = row[j]
        /\ row'[k].id = inserted /\ row'[k].fp = fp[r]
        /\ inserted' = inserted + 1 /\ UNCHANGED fp
    BY <1>0, <1>4, NewRowType DEF Creating, BaseInv, TypeOK
  <2>2. /\ \A j \in Keys : row'[j] # None => row'[j].id < inserted'
        /\ \A j, l \in Keys :
             (row'[j] # None /\ row'[l] # None /\ row'[j].id = row'[l].id) => j = l
        /\ \A q \in Requests : got'[q] # None => got'[q] < inserted'
    BY <1>0, <2>1 DEF PayloadInv
  <2>3. \A q \in Requests \ {r} : got[q] # None => got[q] # inserted
    BY <1>0 DEF PayloadInv
  <2>4. \A j \in Keys \ {k} : row[j] # None => row[j].id # inserted
    BY <1>0 DEF PayloadInv
  <2>5. \A q \in Requests, j \in Keys : Agrees(q, j)'
    BY <1>0, <2>1, <2>3, <2>4 DEF PayloadInv, Agrees
  <2>6. \A q, s \in Requests :
          (got'[q] # None /\ got'[s] # None /\ got'[q] = got'[s] /\ q # s) =>
              /\ outcome'[q] # "conflict" /\ outcome'[s] # "conflict" =>
                     fp'[q] = fp'[s]
              /\ fp'[q] = fp'[s] =>
                     (outcome'[q] = "conflict" <=> outcome'[s] = "conflict")
              /\ outcome'[q] = "created" => outcome'[s] # "created"
    BY <2>1, <2>3 DEF PayloadInv
  <2> QED  BY <2>2, <2>5, <2>6 DEF PayloadInv
<1>5. ASSUME NEW K \in SUBSET Keys, Emptying(K) PROVE PayloadInv'
  <2>1. /\ UNCHANGED <<outcome, got, fp, inserted>>
        /\ \A j \in Keys : row'[j] = None \/ row'[j] = row[j]
    BY <1>5 DEF Emptying, BaseInv, TypeOK
  <2> QED  BY <2>1 DEF PayloadInv, Agrees
<1> QED  BY <1>0, <1>1, <1>2, <1>3, <1>4, <1>5 DEF AnyKind

\* Two requests that were answered about one notification agree on its payload
\* or at least one of them was told 409, two with the same payload are told the
\* same, and one alone was told 201: for any number of requests racing for a key,
\* on either database branch, with the key purged and used again meanwhile.
THEOREM OnePayload == Spec => []OnePayloadPerNotification
<1>1. BaseInv /\ PayloadInv => OnePayloadPerNotification
  <2> SUFFICES ASSUME BaseInv, PayloadInv, NEW r \in Requests, NEW s \in Requests,
                      Told(r), Told(s), r # s, got[r] = got[s]
               PROVE  /\ answer[r] \in Ok /\ answer[s] \in Ok => fp[r] = fp[s]
                      /\ fp[r] = fp[s] => (answer[r] = 409 <=> answer[s] = 409)
                      /\ answer[r] = 201 => answer[s] # 201
    BY DEF OnePayloadPerNotification
  <2>1. /\ answer[r] = 201 <=> outcome[r] = "created"
        /\ answer[r] = 200 <=> outcome[r] = "existing"
        /\ answer[r] = 409 <=> outcome[r] = "conflict"
        /\ answer[s] = 201 <=> outcome[s] = "created"
        /\ answer[s] = 200 <=> outcome[s] = "existing"
        /\ answer[s] = 409 <=> outcome[s] = "conflict"
    BY DEF BaseInv, Answered
  <2>2. got[r] # None /\ got[s] # None  BY DEF Told
  <2>3. /\ outcome[r] # "conflict" /\ outcome[s] # "conflict" => fp[r] = fp[s]
        /\ fp[r] = fp[s] => (outcome[r] = "conflict" <=> outcome[s] = "conflict")
        /\ outcome[r] = "created" => outcome[s] # "created"
    BY <2>2 DEF PayloadInv
  <2>4. \A a : a \in Ok <=> a = 200 \/ a = 201  BY DEF Ok
  <2> QED  BY <2>1, <2>3, <2>4
<1> QED  BY <1>1, BaseCorrect, PayloadInit, PayloadStep, PTL DEF Spec

-----------------------------------------------------------------------------
(* One task per notification *)

\* A request loads a row that is there, or the one it has just inserted.
LEMMA CopiesStep ==
    ASSUME BaseInv, PayloadInv, CopiesKnown, [Next]_vars
    PROVE  CopiesKnown'
<1>0. /\ TypeOK /\ inserted \in Nat
      /\ copy \in [Requests -> [Keys -> Copy \cup {None}]]
      /\ \A r \in Requests, k \in Keys : copy[r][k] # None => copy[r][k].id \in Nat
  BY DEF BaseInv, TypeOK, Copy
<1>1. ASSUME NEW r \in Requests, NEW o \in Ops, Begin(r, o) PROVE CopiesKnown'
  <2>1. CASE copy' = copy
    BY <1>1, <2>1 DEF Begin, CopiesKnown
  <2>2. CASE copy' # copy
    <3>1. \A q \in Requests \ {r} : copy'[q] = copy[q]
      BY <1>0, <1>1, <2>2 DEF Begin
    <3>2. ASSUME NEW k \in Keys, copy'[r][k] # None
          PROVE  row[k] # None /\ copy'[r][k].id = row[k].id
      <4>1. copy'[r] = [j \in Keys |->
                IF row[j] # None /\ row[j].visible
                THEN [id |-> row[j].id, status |-> row[j].status] ELSE None]
        BY <1>0, <1>1, <2>2 DEF Begin
      <4> QED  BY <3>2, <4>1
    <3>3. inserted' = inserted  BY <1>1 DEF Begin
    <3> QED  BY <3>1, <3>2, <3>3 DEF CopiesKnown, PayloadInv
  <2> QED  BY <2>1, <2>2
<1>2. ASSUME NEW r \in Requests, Insert(r) PROVE CopiesKnown'
  <2>1. inserted' = inserted \/ inserted' = inserted + 1  BY <1>2 DEF Insert
  <2>2. ASSUME NEW q \in Requests, NEW k \in Keys
        PROVE  \/ copy'[q][k] = copy[q][k]
               \/ copy'[q][k].id = inserted /\ inserted' = inserted + 1
    <3>1. op[r].key \in Keys  BY <1>2 DEF BaseInv, Stage, Insert
    <3>2. \/ copy' = copy
          \/ \E s : /\ copy' = [copy EXCEPT ![r][op[r].key] =
                                  [id |-> inserted, status |-> s]]
                    /\ inserted' = inserted + 1
      BY <1>2 DEF Insert
    <3>3. CASE copy' = copy  BY <3>3
    <3>4. CASE \E s : /\ copy' = [copy EXCEPT ![r][op[r].key] =
                                     [id |-> inserted, status |-> s]]
                      /\ inserted' = inserted + 1
      <4>1. PICK s : copy' = [copy EXCEPT ![r][op[r].key] =
                                [id |-> inserted, status |-> s]]
        BY <3>4
      <4>2. copy[q] \in [Keys -> Copy \cup {None}]  BY <1>0
      <4>3. CASE q = r /\ k = op[r].key
        <5>1. copy'[q][k] = [id |-> inserted, status |-> s]
          BY <1>0, <4>1, <4>2, <4>3
        <5> QED  BY <3>4, <5>1
      <4>4. CASE ~(q = r /\ k = op[r].key)
        BY <1>0, <4>1, <4>2, <4>4
      <4> QED  BY <4>3, <4>4
    <3> QED  BY <3>2, <3>3, <3>4
  <2> QED  BY <1>0, <2>1, <2>2 DEF CopiesKnown
<1>3. ASSUME NEW r \in Requests, RequestStep(r), ~Insert(r) PROVE CopiesKnown'
  <2>1. inserted' = inserted
    BY <1>3 DEF RequestStep, Lookup, Locked, Get, Respond, BulkNext, BulkEnd,
                QueueUpdate, QueuePublish, QueuePublishFails, QueueRollback, Die
  <2>2. copy' = copy \/ \E k \in Keys \cup {None} : copy' = [copy EXCEPT ![r][k] = None]
    <3>1. current[r] \in Keys \cup {None}  BY <1>0 DEF TypeOK
    <3>2. AfterQueue(r) => copy' = [copy EXCEPT ![r][current[r]] = None]
      BY DEF AfterQueue
    <3> QED
      BY <1>3, <3>1, <3>2 DEF RequestStep, Lookup, Locked, Get, Respond, BulkNext,
         BulkEnd, QueueUpdate, QueuePublish, QueuePublishFails, QueueRollback, Die
  <2>3. \A q \in Requests, k \in Keys : copy'[q][k] = copy[q][k] \/ copy'[q][k] = None
    BY <1>0, <2>2
  <2> QED  BY <2>1, <2>3 DEF CopiesKnown
<1>4. CASE UNCHANGED <<copy, inserted>>
  BY <1>4 DEF CopiesKnown
<1> QED
  BY <1>1, <1>2, <1>3, <1>4 DEF Next, vars, request, Dispatch, Serve, Surround,
     Hide, PurgeSelect, PurgeDelete, ChangeTemplate, DatePasses,
     ChangeSubscription, ChangeApplication, Change

\* Nothing that is claimed or waiting is touched.
LEMMA ClaimFrame ==
    ASSUME ClaimInv, UNCHANGED <<row, tasks>>,
           \A q \in Requests, k \in Keys : Claims(q, k)' => Claims(q, k)
    PROVE  ClaimInv'
<1>1. ASSUME NEW q \in Requests, NEW k \in Keys, Claims(q, k)'
      PROVE  tasks'[k] = 0 /\ row'[k].status = "queued"
  BY <1>1 DEF ClaimInv
<1>2. \A q, s \in Requests, k \in Keys : Claims(q, k)' /\ Claims(s, k)' => q = s
  BY DEF ClaimInv
<1>3. OneTaskPerNotification'
  BY DEF ClaimInv, OneTaskPerNotification
<1> QED  BY <1>1, <1>2, <1>3 DEF ClaimInv

\* A row that is not QUEUED is nobody's: what is done to it disturbs no claim.
LEMMA ClaimElsewhere ==
    ASSUME TypeOK, ClaimInv, NEW k \in Keys,
           row[k] = None \/ row[k].status # "queued",
           \A j \in Keys \ {k} : row'[j] = row[j],
           UNCHANGED tasks,
           \A q \in Requests, j \in Keys : Claims(q, j)' => Claims(q, j)
    PROVE  ClaimInv'
<1>1. tasks[k] = 0 /\ \A q \in Requests : ~Claims(q, k)
  BY DEF TypeOK, ClaimInv, OneTaskPerNotification, Claims
<1>2. ASSUME NEW q \in Requests, NEW j \in Keys, Claims(q, j)'
      PROVE  tasks'[j] = 0 /\ row'[j].status = "queued"
  <2>1. Claims(q, j) /\ j # k  BY <1>1, <1>2
  <2> QED  BY <2>1 DEF ClaimInv
<1>3. \A q, s \in Requests, j \in Keys : Claims(q, j)' /\ Claims(s, j)' => q = s
  BY DEF ClaimInv
<1>4. OneTaskPerNotification'
  BY <1>1 DEF ClaimInv, OneTaskPerNotification
<1> QED  BY <1>2, <1>3, <1>4 DEF ClaimInv

\* The steps of a request other than the ones that take a row, publish its task
\* or put its status back.
LEMMA ClaimRequest ==
    ASSUME BaseInv, ClaimInv, CopiesKnown, NEW r \in Requests,
           \/ \E o \in Ops : Begin(r, o)
           \/ Lookup(r) \/ Locked(r) \/ Insert(r) \/ Get(r) \/ Respond(r)
           \/ \E k \in Keys : BulkNext(r, k)
           \/ BulkEnd(r) \/ QueuePublishFails(r) \/ Die(r)
    PROVE  ClaimInv'
<1> USE DEF BaseInv
<1>0. /\ UNCHANGED tasks /\ pc \in [Requests -> PC]
      /\ current \in [Requests -> Keys \cup {None}] /\ Stage(r)
      /\ copy \in [Requests -> [Keys -> Copy \cup {None}]]
      /\ inserted \in Nat
  BY DEF Begin, Lookup, Locked, Insert, Get, Respond, BulkNext, BulkEnd,
         QueuePublishFails, Die, TypeOK
<1>1. \A q \in Requests :
         /\ pc'[q] \in {"publish", "rollback"} => pc[q] \in {"publish", "rollback"}
         /\ pc'[q] \in {"publish", "rollback"} =>
                current'[q] = current[q] /\ copy'[q] = copy[q]
  <2>1. CASE QueuePublishFails(r)
    <3>1. /\ pc' = [pc EXCEPT ![r] = "rollback"] /\ current' = current
          /\ copy' = copy /\ pc[r] = "publish"
      BY <2>1 DEF QueuePublishFails, Go
    <3> QED  BY <1>0, <3>1
  <2>2. CASE ~QueuePublishFails(r)
    <3>1. pc'[r] \notin {"publish", "rollback"}
      <4>1. CASE \E o \in Ops : Begin(r, o)
        BY <1>0, <4>1 DEF Begin, Reply, Go
      <4>2. CASE Lookup(r) \/ Locked(r) \/ Get(r) \/ Respond(r) \/ BulkEnd(r) \/ Die(r)
        BY <1>0, <4>2 DEF Lookup, Locked, Get, Respond, BulkEnd, Die, Decided,
                          Reply, Go
      <4>3. CASE Insert(r)  BY <1>0, <4>3 DEF Insert, Go
      <4>4. CASE \E k \in Keys : BulkNext(r, k)
        BY <1>0, <4>4 DEF BulkNext, Go
      <4> QED  BY <2>2, <4>1, <4>2, <4>3, <4>4
    <3>2. \A q \in Requests \ {r} :
             pc'[q] = pc[q] /\ current'[q] = current[q] /\ copy'[q] = copy[q]
      <4>1. CASE \E o \in Ops : Begin(r, o)
        BY <1>0, <4>1 DEF Begin, Reply, Go
      <4>2. CASE Lookup(r) \/ Locked(r) \/ Get(r) \/ Respond(r) \/ BulkEnd(r) \/ Die(r)
        BY <1>0, <4>2 DEF Lookup, Locked, Get, Respond, BulkEnd, Die, Decided,
                          Reply, Go
      <4>3. CASE Insert(r)  BY <1>0, <4>3 DEF Insert, Go
      <4>4. CASE \E k \in Keys : BulkNext(r, k)
        BY <1>0, <4>4 DEF BulkNext, Go
      <4> QED  BY <2>2, <4>1, <4>2, <4>3, <4>4
    <3> QED  BY <3>1, <3>2
  <2> QED  BY <2>1, <2>2
<1>2. CASE Insert(r) /\ row[op[r].key] = None
  <2> DEFINE k == op[r].key
  <2>1. k \in Keys  BY <1>0, <1>2 DEF Insert, Stage
  <2>2. /\ \A j \in Keys \ {k} : row'[j] = row[j]
        /\ row'[k].id = inserted
    <3>1. row' = [row EXCEPT ![k] = NewRow(r)]
      BY <1>2, <2>1, InsertEffect
    <3> QED  BY <2>1, <3>1 DEF TypeOK, NewRow
  <2>3. ASSUME NEW q \in Requests, pc[q] \in {"publish", "rollback"}, current[q] = k
        PROVE  copy[q][k] # None /\ copy[q][k].id # inserted
    <3>1. copy[q][k] \in Copy  BY <2>3 DEF Stage
    <3>2. copy[q][k].id \in Nat /\ copy[q][k] # None
      BY <3>1, NoneAssumption DEF Copy
    <3> QED  BY <1>0, <2>1, <3>2 DEF CopiesKnown
  <2>4. \A q \in Requests, j \in Keys : Claims(q, j)' => Claims(q, j)
    BY <1>1, <2>2, <2>3 DEF Claims
  <2> QED  BY <1>0, <1>2, <2>1, <2>2, <2>4, ClaimElsewhere
<1>3. CASE ~(Insert(r) /\ row[op[r].key] = None)
  <2>1. row' = row
    BY <1>3 DEF Begin, Lookup, Locked, Insert, Get, Respond, BulkNext, BulkEnd,
                QueuePublishFails, Die
  <2>2. \A q \in Requests, j \in Keys : Claims(q, j)' => Claims(q, j)
    BY <1>1, <2>1 DEF Claims
  <2> QED  BY <1>0, <2>1, <2>2, ClaimFrame
<1> QED  BY <1>2, <1>3

\* The conditional UPDATE, the publication and the rollback.
LEMMA ClaimQueue ==
    ASSUME BaseInv, ClaimInv, NEW r \in Requests,
           QueueUpdate(r) \/ QueuePublish(r) \/ QueueRollback(r)
    PROVE  ClaimInv'
<1> USE DEF BaseInv
<1> DEFINE k == current[r]
<1>0. /\ Stage(r) /\ k \in Keys /\ copy[r][k].status \in StatusesToQueue
      /\ copy[r][k] \in Copy
      /\ pc \in [Requests -> PC] /\ current \in [Requests -> Keys \cup {None}]
      /\ copy \in [Requests -> [Keys -> Copy \cup {None}]]
      /\ k # None
  BY NoneAssumption DEF QueueUpdate, QueuePublish, QueueRollback, Stage, TypeOK
<1>1. ASSUME AfterQueue(r)
      PROVE  \A q \in Requests :
                 pc'[q] \in {"publish", "rollback"} =>
                     /\ q # r /\ pc'[q] = pc[q] /\ current'[q] = current[q]
                     /\ copy'[q] = copy[q]
  BY <1>0, <1>1 DEF AfterQueue, Go
<1>2. CASE QueueUpdate(r)
  <2>1. CASE /\ row[k] # None
             /\ row[k].id = copy[r][k].id
             /\ row[k].status = copy[r][k].status
    <3>1. /\ row' = [row EXCEPT ![k].status = "queued"]
          /\ pc' = [pc EXCEPT ![r] = "publish"]
          /\ UNCHANGED <<tasks, current, copy>> /\ pc[r] = "queue"
      BY <1>2, <2>1 DEF QueueUpdate, Go
    <3>2. row[k].status # "queued"  BY <1>0, <2>1 DEF StatusesToQueue
    <3>3. tasks[k] = 0 /\ \A q \in Requests : ~Claims(q, k)
      BY <1>0, <3>2 DEF TypeOK, ClaimInv, OneTaskPerNotification
    <3>4. row'[k] # None /\ row'[k].status = "queued" /\ row'[k].id = row[k].id
      <4>1. "queued" \in Status  BY DEF Status
      <4>2. row'[k] \in Row /\ row'[k].status = "queued" /\ row'[k].id = row[k].id
        BY <1>0, <2>1, <3>1, <4>1, StatusPut
      <4> QED  BY <4>2, NoneAssumption
    <3>5. \A j \in Keys \ {k} : row'[j] = row[j]  BY <3>1 DEF TypeOK
    <3>6. ASSUME NEW q \in Requests, NEW j \in Keys, Claims(q, j)'
          PROVE  (q = r /\ j = k) \/ (Claims(q, j) /\ j # k)
      <4>1. CASE q = r  BY <1>0, <3>1, <3>6, <4>1 DEF Claims
      <4>2. CASE q # r
        <5>1. /\ pc[q] \in {"publish", "rollback"} /\ current[q] = j
              /\ row'[j].id = copy[q][j].id /\ row'[j] # None
          BY <1>0, <3>1, <3>6, <4>2 DEF Claims
        <5>2. j # k
          BY <2>1, <3>3, <3>4, <5>1 DEF Claims
        <5> QED  BY <3>5, <5>1, <5>2 DEF Claims
      <4> QED  BY <4>1, <4>2
    <3>7. \A q \in Requests, j \in Keys :
             Claims(q, j)' => tasks'[j] = 0 /\ row'[j].status = "queued"
      BY <3>1, <3>3, <3>4, <3>5, <3>6 DEF ClaimInv
    <3>8. \A q, s \in Requests, j \in Keys :
             Claims(q, j)' /\ Claims(s, j)' => q = s
      BY <3>6 DEF ClaimInv
    <3>9. OneTaskPerNotification'
      BY <3>1, <3>4, <3>5 DEF ClaimInv, OneTaskPerNotification
    <3> QED  BY <3>7, <3>8, <3>9 DEF ClaimInv
  <2>2. CASE ~(/\ row[k] # None
               /\ row[k].id = copy[r][k].id
               /\ row[k].status = copy[r][k].status)
    <3>1. AfterQueue(r) /\ UNCHANGED <<row, tasks>>
      BY <1>2, <2>2 DEF QueueUpdate
    <3>2. \A q \in Requests, j \in Keys : Claims(q, j)' => Claims(q, j)
      BY <1>1, <3>1 DEF Claims
    <3> QED  BY <3>1, <3>2, ClaimFrame
  <2> QED  BY <2>1, <2>2
<1>3. CASE QueuePublish(r) \/ QueueRollback(r)
  <2>0. /\ AfterQueue(r) /\ pc[r] \in {"publish", "rollback"}
        /\ \A j \in Keys \ {k} : row'[j] = row[j] /\ tasks'[j] = tasks[j]
    BY <1>0, <1>3 DEF QueuePublish, QueueRollback, TypeOK
  <2>1. CASE Claims(r, k)
    <3>1. tasks[k] = 0 /\ row[k].status = "queued" /\ row[k] # None
      BY <1>0, <2>1 DEF ClaimInv, Claims
    <3>2. \/ tasks'[k] = 1 /\ row'[k] = row[k]
          \/ tasks'[k] = 0
      BY <1>0, <1>3, <2>1, <3>1 DEF QueuePublish, QueueRollback, Claims, TypeOK
    <3>3. row[k].id = copy[r][k].id /\ row'[k] # None => row'[k].id = row[k].id
      <4>1. CASE QueuePublish(r)  BY <4>1 DEF QueuePublish
      <4>2. CASE QueueRollback(r)
        <5>1. CASE row' = row  BY <5>1
        <5>2. CASE row' = [row EXCEPT ![k].status = copy[r][k].status]
          <6>1. copy[r][k].status \in Status  BY <1>0 DEF Copy
          <6> QED  BY <1>0, <3>1, <5>2, <6>1, StatusPut
        <5> QED  BY <4>2, <5>1, <5>2 DEF QueueRollback
      <4> QED  BY <1>3, <4>1, <4>2
    <3>4. ASSUME NEW q \in Requests, NEW j \in Keys, Claims(q, j)'
          PROVE  j # k /\ Claims(q, j)
      <4>1. /\ q # r /\ pc[q] \in {"publish", "rollback"} /\ current[q] = j
            /\ row'[j].id = copy[q][j].id /\ row'[j] # None
        BY <1>1, <2>0, <3>4 DEF Claims
      <4>2. j # k
        <5>1. ASSUME j = k PROVE Claims(q, k)
          BY <2>1, <3>1, <3>3, <4>1, <5>1 DEF Claims
        <5> QED  BY <1>0, <2>1, <4>1, <5>1 DEF ClaimInv
      <4> QED  BY <2>0, <4>1, <4>2 DEF Claims
    <3>5. \A q \in Requests, j \in Keys :
             Claims(q, j)' => tasks'[j] = 0 /\ row'[j].status = "queued"
      BY <2>0, <3>4 DEF ClaimInv
    <3>6. \A q, s \in Requests, j \in Keys :
             Claims(q, j)' /\ Claims(s, j)' => q = s
      BY <3>4 DEF ClaimInv
    <3>7. OneTaskPerNotification'
      BY <2>0, <3>1, <3>2 DEF ClaimInv, OneTaskPerNotification
    <3> QED  BY <3>5, <3>6, <3>7 DEF ClaimInv
  <2>2. CASE ~Claims(r, k)
    <3>1. UNCHANGED <<row, tasks>>
      BY <1>3, <2>0, <2>2 DEF QueuePublish, QueueRollback, Claims
    <3>2. \A q \in Requests, j \in Keys : Claims(q, j)' => Claims(q, j)
      BY <1>1, <2>0, <3>1 DEF Claims
    <3> QED  BY <3>1, <3>2, ClaimFrame
  <2> QED  BY <2>1, <2>2
<1> QED  BY <1>2, <1>3

LEMMA ClaimOutside ==
    ASSUME BaseInv, ClaimInv,
           \/ \E k \in Keys : Dispatch(k) \/ \E s \in {"sent", "failed"} : Serve(k, s)
           \/ Surround
    PROVE  ClaimInv'
<1> USE DEF BaseInv
<1>0. UNCHANGED <<pc, current, copy>>
  BY DEF Dispatch, Serve, Surround, Hide, PurgeSelect, PurgeDelete,
         ChangeTemplate, DatePasses, ChangeSubscription, ChangeApplication,
         Change, request
<1>1. ASSUME RowsKept
      PROVE  \A q \in Requests, j \in Keys : Claims(q, j)' <=> Claims(q, j)
  BY <1>0, <1>1 DEF Claims, RowsKept
<1>2. ASSUME NEW k \in Keys, Dispatch(k) PROVE ClaimInv'
  <2>1. row[k] # None /\ row[k].status # "queued"  BY <1>2 DEF Dispatch
  <2>2. tasks[k] = 0 /\ \A q \in Requests : ~Claims(q, k)
    BY <2>1 DEF TypeOK, ClaimInv, OneTaskPerNotification
  <2>3. /\ tasks'[k] = 1 /\ \A j \in Keys \ {k} : tasks'[j] = tasks[j]
        /\ \A j \in Keys \ {k} : row'[j] = row[j]
    BY <1>2, <2>2 DEF Dispatch, TypeOK
  <2>0. "queued" \in Status  BY DEF Status
  <2>4. row'[k] # None /\ row'[k].status = "queued"
    <3>2. row'[k] \in Row /\ row'[k].status = "queued"
      BY <1>2, <2>0, StatusPut DEF Dispatch
    <3> QED  BY <3>2, NoneAssumption
  <2>5. RowsKept  BY <1>2, <2>0, <2>1, KeptBy DEF Dispatch
  <2>6. \A q \in Requests, j \in Keys :
            Claims(q, j)' => tasks'[j] = 0 /\ row'[j].status = "queued"
    BY <1>1, <2>2, <2>3, <2>5 DEF ClaimInv
  <2>7. OneTaskPerNotification'
    BY <2>3, <2>4 DEF ClaimInv, OneTaskPerNotification
  <2> QED  BY <1>1, <2>5, <2>6, <2>7 DEF ClaimInv
<1>3. ASSUME NEW k \in Keys, NEW s \in {"sent", "failed"}, Serve(k, s)
      PROVE  ClaimInv'
  <2>1. tasks[k] = 1 /\ \A q \in Requests : ~Claims(q, k)
    BY <1>3 DEF Serve, TypeOK, ClaimInv, OneTaskPerNotification
  <2>2. /\ tasks'[k] = 0 /\ \A j \in Keys \ {k} : tasks'[j] = tasks[j]
        /\ \A j \in Keys \ {k} : row'[j] = row[j]
    BY <1>3, <2>1 DEF Serve, TypeOK
  <2>5. RowsKept
    <3>1. s \in Status  BY DEF Status
    <3>2. CASE row' = row  BY <3>2 DEF RowsKept
    <3>3. CASE row' # row  BY <1>3, <3>1, <3>3, KeptBy DEF Serve
    <3> QED  BY <3>2, <3>3
  <2>3. \A q \in Requests, j \in Keys :
            Claims(q, j)' => tasks'[j] = 0 /\ row'[j].status = "queued"
    BY <1>1, <2>1, <2>2, <2>5 DEF ClaimInv
  <2>4. OneTaskPerNotification'
    BY <2>2 DEF ClaimInv, OneTaskPerNotification
  <2> QED  BY <1>1, <2>3, <2>4, <2>5 DEF ClaimInv
<1>4. ASSUME NEW k \in Keys, Hide(k) PROVE ClaimInv'
  <2>1. /\ row[k].status # "queued" /\ tasks' = tasks /\ row[k] # None
        /\ \A j \in Keys \ {k} : row'[j] = row[j]
    BY <1>4 DEF Hide, Change, PendingStatuses, TypeOK
  <2>2. RowsKept  BY <1>4, <2>1, KeptBy DEF Hide
  <2> QED  BY <1>1, <2>1, <2>2, ClaimElsewhere
<1>5. ASSUME \/ \E s \in TemplateStates : ChangeTemplate(s)
             \/ \E K \in SUBSET Keys : PurgeSelect(K)
             \/ DatePasses \/ ChangeSubscription \/ ChangeApplication
      PROVE  ClaimInv'
  <2>1. UNCHANGED <<row, tasks>>
    BY <1>5 DEF PurgeSelect, ChangeTemplate, DatePasses, ChangeSubscription,
                ChangeApplication, Change
  <2> QED  BY <1>0, <2>1, ClaimFrame DEF Claims
<1>6. CASE PurgeDelete
  <2>1. \A j \in Keys : \/ row'[j] = None /\ tasks'[j] = 0
                        \/ row'[j] = row[j] /\ tasks'[j] = tasks[j]
    BY <1>6 DEF PurgeDelete
  <2>2. \A q \in Requests, j \in Keys :
            Claims(q, j)' => Claims(q, j) /\ row'[j] = row[j] /\ tasks'[j] = tasks[j]
    BY <1>0, <2>1 DEF Claims
  <2>3. OneTaskPerNotification'
    BY <2>1 DEF ClaimInv, OneTaskPerNotification
  <2> QED  BY <2>2, <2>3 DEF ClaimInv
<1> QED  BY <1>2, <1>3, <1>4, <1>5, <1>6 DEF Surround

LEMMA ClaimStep ==
    BaseInv /\ ClaimInv /\ CopiesKnown /\ [Next]_vars => ClaimInv'
<1> SUFFICES ASSUME BaseInv, ClaimInv, CopiesKnown, [Next]_vars
             PROVE  ClaimInv'
  OBVIOUS
<1>1. ASSUME NEW r \in Requests, RequestStep(r) \/ \E o \in Ops : Begin(r, o)
      PROVE  ClaimInv'
  BY <1>1, ClaimRequest, ClaimQueue DEF RequestStep
<1>2. CASE UNCHANGED vars
  <2>1. UNCHANGED <<row, tasks, pc, current, copy>>  BY <1>2 DEF vars, request
  <2> QED  BY <2>1, ClaimFrame DEF Claims
<1> QED  BY <1>1, <1>2, ClaimOutside DEF Next

LEMMA ClaimInit == Init => ClaimInv /\ CopiesKnown
BY DEF Init, ClaimInv, Claims, OneTaskPerNotification, CopiesKnown

\* The send endpoint, bulk-send and the dispatcher never put two send tasks of
\* one notification on the broker, whatever they interleave with, whenever
\* .delay() is refused or a request dies between its UPDATE and its publication,
\* and though the purge deletes rows that were queued after it had selected them:
\* the conditional UPDATE of _try_queue_notification hands a QUEUED row to one of
\* them at a time.
THEOREM OneTask == Spec => []OneTaskPerNotification
<1> DEFINE Inv == BaseInv /\ PayloadInv /\ CopiesKnown /\ ClaimInv
<1>1. Init => Inv  BY BaseInit, PayloadInit, ClaimInit
<1>2. Inv /\ [Next]_vars => Inv'
  BY BaseStep, PayloadStep, CopiesStep, ClaimStep
<1>3. Inv => OneTaskPerNotification  BY DEF ClaimInv
<1> QED  BY <1>1, <1>2, <1>3, PTL DEF Spec

-----------------------------------------------------------------------------
(* The creation implements PutIfAbsent *)

\* The refinement mapping of Promise.
Asked == [r \in Requests |->
    IF fp[r] = None THEN None ELSE [key |-> op[r].key, print |-> fp[r]]]
Register == [k \in Keys |-> IF row[k] = None THEN None ELSE row[k].fp]

LEMMA PromiseInit == Init => Promise!Init
<1> SUFFICES ASSUME Init PROVE Promise!Init  OBVIOUS
<1>1. Asked = [r \in Requests |-> None] /\ Register = [k \in Keys |-> None]
  BY DEF Init, Asked, Register
<1> QED  BY <1>1 DEF Init, Promise!Init, Asked, Register

LEMMA PromiseStep ==
    BaseInv /\ BaseInv' /\ [Next]_vars => [Promise!Next]_(Promise!vars)
<1> SUFFICES ASSUME BaseInv, BaseInv', [Next]_vars
             PROVE  [Promise!Next]_(Promise!vars)
  OBVIOUS
<1>0. /\ AnyKind
      /\ \A k \in Keys : row[k] # None => row[k].fp # None
      /\ row \in [Keys -> Row \cup {None}]
      /\ op \in [Requests -> Ops \cup {None}]
      /\ fp \in [Requests -> Fingerprint \cup {None}]
  BY Kinds, RowFound, NoneAssumption DEF BaseInv, TypeOK
<1>1. CASE Quiet
  <2>1. Asked' = Asked  BY <1>1 DEF Quiet, Asked
  <2>2. Register' = Register  BY <1>1 DEF Quiet, RowsKept, Register
  <2> QED  BY <1>1, <2>1, <2>2 DEF Quiet, Asked, Register, Promise!vars
<1>2. ASSUME NEW r \in Requests, NEW o \in Op, NEW p \in Fingerprint,
             Asking(r, o, p)
      PROVE  Promise!Next
  <2>1. p # None  BY NoneAssumption
  <2>2. Asked[r] = None  BY <1>2 DEF Asking, Asked
  <2>3. Asked' = [Asked EXCEPT ![r] = [key |-> o.key, print |-> p]]
    BY <1>0, <1>2, <2>1 DEF Asking, Asked
  <2>4. Register' = Register /\ outcome' = outcome  BY <1>2 DEF Asking, Register
  <2>5. Promise!Ask(r, o.key, p)
    BY <2>2, <2>3, <2>4 DEF Promise!Ask, Asked, Register
  <2> QED  BY <1>2, <2>5 DEF Asking, Promise!Next
<1>3. ASSUME NEW r \in Requests, NEW k \in Keys, Finding(r, k) \/ Creating(r, k)
      PROVE  Promise!Next
  <2>1. /\ Asked[r] = [key |-> k, print |-> fp[r]] /\ Asked[r] # None
        /\ Asked[r].key = k /\ Asked[r].print = fp[r]
    <3>1. /\ fp[r] # None /\ op[r].key = k
          /\ fp[r] \in Fingerprint
      BY <1>0, <1>3 DEF Finding, Creating
    <3> QED  BY <3>1, NoneAssumption DEF Asked
  <2>2. Asked' = Asked  BY <1>3 DEF Finding, Creating, Asked
  <2>3. outcome[r] = None  BY <1>3 DEF Finding, Creating
  <2>4. CASE Finding(r, k)
    <3>1. Register[k] = row[k].fp /\ Register[k] # None /\ Register' = Register
      BY <1>0, <2>4 DEF Finding, Register
    <3>2. outcome' = [outcome EXCEPT ![r] =
              IF Register[k] = Asked[r].print THEN "existing" ELSE "conflict"]
      BY <2>1, <2>4, <3>1 DEF Finding
    <3>3. Promise!Decide(r)
      BY <2>1, <2>2, <2>3, <3>1, <3>2 DEF Promise!Decide, Asked, Register
    <3> QED  BY <3>3 DEF Promise!Next
  <2>5. CASE Creating(r, k)
    <3>1. Register[k] = None  BY <2>5 DEF Creating, Register
    <3>2. Register' = [Register EXCEPT ![k] = Asked[r].print]
      <4>1. NewRow(r) # None /\ NewRow(r).fp = fp[r]
        BY <2>5, NewRowType DEF Creating
      <4> QED  BY <1>0, <2>1, <2>5, <4>1 DEF Creating, Register
    <3>3. outcome' = [outcome EXCEPT ![r] = "created"]  BY <2>5 DEF Creating
    <3>4. Promise!Decide(r)
      BY <2>1, <2>2, <2>3, <3>1, <3>2, <3>3 DEF Promise!Decide, Asked, Register
    <3> QED  BY <3>4 DEF Promise!Next
  <2> QED  BY <1>3, <2>4, <2>5
<1>4. ASSUME NEW K \in SUBSET Keys, Emptying(K) PROVE Promise!Next
  <2>1. \A k \in K : Register[k] # None  BY <1>0, <1>4 DEF Emptying, Register
  <2>2. Register' = [k \in Keys |-> IF k \in K THEN None ELSE Register[k]]
    BY <1>0, <1>4 DEF Emptying, Register
  <2>3. Asked' = Asked /\ outcome' = outcome  BY <1>4 DEF Emptying, Asked
  <2>4. Promise!Empty(K)
    BY <2>1, <2>2, <2>3 DEF Promise!Empty, Asked, Register
  <2> QED  BY <2>4 DEF Promise!Next
<1> QED  BY <1>0, <1>1, <1>2, <1>3, <1>4 DEF AnyKind

\* The creation takes effect in one indivisible step, on the PostgreSQL branch
\* (INSERT, then get after the IntegrityError) as on the SQLite one
\* (get_or_create, retried while the database is locked), and wherever it is
\* interrupted: it implements PutIfAbsent.
THEOREM CreationAtomic == Spec => CreationIsAtomic
<1> QED  BY BaseCorrect, PromiseInit, PromiseStep, PTL
         DEF Spec, CreationIsAtomic, Promise!Spec
=============================================================================
