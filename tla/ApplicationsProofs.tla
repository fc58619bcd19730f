------------------------- MODULE ApplicationsProofs -------------------------
(***************************************************************************)
(* Theorems about Applications, for every number of requests that overlap, *)
(* of send tokens and of callbacks, and every bound.                       *)
(***************************************************************************)
EXTENDS Applications, FiniteSetTheorems, TLAPS

\* Every value of the row has been drawn.
Drawn(x) ==
    x.token <= issued /\ x.code <= issued /\ x.secret <= issued /\ x.alias <= issued

\* What a request holds, per place it may be at.
Sound(r) ==
    LET q == req[r]
    IN  /\ q.pc = "idle" => q = Idle
        /\ q.pc # "idle" => q.read \in Row /\ Drawn(q.read)
        /\ q.pc = "write" => q.op \in AllOperations
        /\ q.pc = "provision" => /\ q.op \in {"create", "email"}
                                 /\ q.alias \in 0 .. issued
        /\ q.pc = "deprovision" => q.op \in {"email", "delete"}

BaseInv ==
    /\ TypeOK
    /\ row # None => Drawn(row)
    /\ \A r \in Requests : Sound(r)
    /\ issued = 0 => /\ row = None /\ ~deleted /\ provisioned = {}
                     /\ \A r \in Requests : req[r] = Idle

\* The values of a row are drawn one by one.
Distinct(x) ==
    /\ x.token # x.code /\ x.token # x.secret /\ x.token # x.alias
    /\ x.code # x.secret /\ x.code # x.alias /\ x.secret # x.alias

ReplacedInv ==
    ~lost => /\ row # None => Distinct(row)
             /\ Credentials \cap replaced = {}
             /\ deleted => row = None

\* A request that has saved an address and is on its way to Exchange.
Busy(r) == req[r].pc \in {"provision", "deprovision"}

\* What Exchange has while one is.
Mailbox(r) ==
    LET q == req[r]
    IN  /\ q.pc = "provision" =>
              /\ row # None /\ row.alias = q.alias
              /\ q.op = "create" => provisioned = {}
              /\ q.op = "email" => /\ q.read.alias # row.alias
                                   /\ provisioned = {q.read.alias}
        /\ q.pc = "deprovision" =>
              /\ q.op = "email" => /\ row # None /\ q.read.alias # row.alias
                                   /\ provisioned = {q.read.alias, row.alias}
              /\ q.op = "delete" => row = None /\ provisioned = {q.read.alias}

\* Nothing failed, overwrote or crossed.
Smooth == faults = 0 /\ ~lost /\ ~crossed

\* What Exchange and the requests on the address then have.
Tidy ==
    /\ \A r, s \in Requests : Busy(r) /\ Busy(s) => r = s
    /\ \A r \in Requests :
          /\ req[r].pc = "write" /\ req[r].op \in {"email", "delete"}
                => row # None /\ req[r].read.alias = row.alias
          /\ Busy(r) => Mailbox(r)
    /\ (\A r \in Requests : ~Busy(r)) => provisioned = IF row = None THEN {} ELSE {row.alias}

AliasInv == Smooth /\ issued > 0 => Tidy

-----------------------------------------------------------------------------
(* Rows and requests *)

\* What the handlers make of a row.
LEMMA RowFields ==
    ASSUME NEW x \in Row, NEW n \in Nat
    PROVE  /\ \A y \in {[x EXCEPT !.token = n, !.revoked = FALSE]} :
                y \in Row /\ y.token = n /\ y.code = x.code /\ y.secret = x.secret
                         /\ y.alias = x.alias
           /\ \A y \in {[x EXCEPT !.code = n]} :
                y \in Row /\ y.token = x.token /\ y.code = n /\ y.secret = x.secret
                         /\ y.alias = x.alias
           /\ \A y \in {[x EXCEPT !.secret = n]} :
                y \in Row /\ y.token = x.token /\ y.code = x.code /\ y.secret = n
                         /\ y.alias = x.alias
           /\ \A y \in {[x EXCEPT !.alias = n]} :
                y \in Row /\ y.token = x.token /\ y.code = x.code /\ y.secret = x.secret
                         /\ y.alias = n
BY DEF Row

LEMMA RowFlags ==
    ASSUME NEW x \in Row, NEW b \in BOOLEAN
    PROVE  \A y \in {[x EXCEPT !.revoked = b], [x EXCEPT !.active = b], [x EXCEPT !.url = b]} :
             y \in Row /\ y.token = x.token /\ y.code = x.code /\ y.secret = x.secret
                      /\ y.alias = x.alias
BY DEF Row

\* A request moves.
Moves(r, new) ==
    /\ req' \in [Requests -> Request]
    /\ req'[r] = new
    /\ \A q \in Requests \ {r} : req'[q] = req[q]

LEMMA Moved ==
    ASSUME TypeOK, NEW r \in Requests, NEW new \in Request, req' = [req EXCEPT ![r] = new]
    PROVE  Moves(r, new)
BY DEF TypeOK, Moves

LEMMA IdleType == Idle \in Request
BY DEF Idle, Request, PC

LEMMA EndMoves ==
    ASSUME TypeOK, NEW r \in Requests, End(r)
    PROVE  Moves(r, Idle)
BY IdleType, Moved DEF End

\* A request that wants to write.
LEMMA Writing ==
    ASSUME BaseInv, NEW r \in Requests, req[r].pc = "write"
    PROVE  /\ req[r] \in Request /\ req[r].read \in Row /\ Drawn(req[r].read)
           /\ issued \in Nat \ {0}
<1>1. req[r] \in Request /\ Sound(r) /\ issued \in Nat  BY DEF BaseInv, TypeOK
<1>2. req[r].read \in Row /\ Drawn(req[r].read)  BY <1>1 DEF Sound
<1>3. issued # 0
  <2>1. SUFFICES ASSUME issued = 0 PROVE FALSE
    OBVIOUS
  <2>2. req[r] = Idle  BY <2>1 DEF BaseInv
  <2> QED  BY <2>2 DEF Idle
<1> QED  BY <1>1, <1>2, <1>3

\* What a handler does to the row: a value drawn anew, flags, or all columns.
Redraws(x) ==
    /\ issued' = issued + 1
    /\ \/ row' = [x EXCEPT !.token = issued + 1, !.revoked = FALSE]
       \/ row' = [x EXCEPT !.code = issued + 1]
       \/ row' = [x EXCEPT !.secret = issued + 1]
       \/ row' = [x EXCEPT !.alias = issued + 1]

LEMMA RedrawsType ==
    ASSUME NEW x \in Row, issued \in Nat, Drawn(x), Redraws(x)
    PROVE  row' \in Row /\ Drawn(row)' /\ issued' \in Nat /\ issued <= issued' /\ issued' # 0
<1>1. issued + 1 \in Nat /\ issued' = issued + 1  BY DEF Redraws
<1>2. /\ x.token \in Nat /\ x.code \in Nat /\ x.secret \in Nat /\ x.alias \in Nat
  BY DEF Row
<1>3. /\ row' \in Row
      /\ row'.token \in {x.token, issued + 1} /\ row'.code \in {x.code, issued + 1}
      /\ row'.secret \in {x.secret, issued + 1} /\ row'.alias \in {x.alias, issued + 1}
  <2>1. CASE row' = [x EXCEPT !.token = issued + 1, !.revoked = FALSE]
    BY <1>1, <2>1, RowFields
  <2>2. CASE row' = [x EXCEPT !.code = issued + 1]  BY <1>1, <2>2, RowFields
  <2>3. CASE row' = [x EXCEPT !.secret = issued + 1]  BY <1>1, <2>3, RowFields
  <2>4. CASE row' = [x EXCEPT !.alias = issued + 1]  BY <1>1, <2>4, RowFields
  <2> QED  BY <2>1, <2>2, <2>3, <2>4 DEF Redraws
<1> QED  BY <1>1, <1>2, <1>3 DEF Drawn

\* The flags.
Flags(x) ==
    /\ issued' = issued
    /\ row' \in Row
    /\ row'.token = x.token /\ row'.code = x.code /\ row'.secret = x.secret
    /\ row'.alias = x.alias

LEMMA FlagsDrawn ==
    ASSUME NEW x \in Row, Drawn(x), Flags(x)
    PROVE  row' \in Row /\ Drawn(row)'
BY DEF Drawn, Flags

\* The steps of a request in terms of its row.
LEMMA RotationShape ==
    ASSUME BaseInv, NEW r \in Requests,
           \/ RegenerateToken(r) \/ RotateEnrolmentCode(r) \/ RotateWebhookSecret(r)
    PROVE  /\ req[r].pc = "write" /\ row \in Row /\ Moves(r, Idle)
           /\ Redraws(row)
           /\ row' # None /\ row'.alias = row.alias
           /\ \/ row'.token = issued' /\ replaced' = replaced \cup {row.token}
                /\ row'.code = row.code /\ row'.secret = row.secret
              \/ row'.code = issued' /\ replaced' = replaced \cup {row.code}
                /\ row'.token = row.token /\ row'.secret = row.secret
              \/ row'.secret = issued' /\ replaced' = replaced \cup {row.secret}
                /\ row'.token = row.token /\ row'.code = row.code
           /\ UNCHANGED <<sendToken, provisioned, callback, lost, deleted, crossed, ops,
                          faults>>
<1>0. TypeOK  BY DEF BaseInv
<1>1. /\ req[r].pc = "write" /\ row # None /\ issued' = issued + 1 /\ End(r)
      /\ UNCHANGED <<sendToken, provisioned, callback, lost, deleted, crossed, ops, faults>>
      /\ \/ /\ row' = [row EXCEPT !.token = issued + 1, !.revoked = FALSE]
            /\ replaced' = replaced \cup {row.token}
         \/ /\ row' = [row EXCEPT !.code = issued + 1]
            /\ replaced' = replaced \cup {row.code}
         \/ /\ row' = [row EXCEPT !.secret = issued + 1]
            /\ replaced' = replaced \cup {row.secret}
  BY DEF RegenerateToken, RotateEnrolmentCode, RotateWebhookSecret, SaveFields, Writes
<1>2. row \in Row /\ issued + 1 \in Nat  BY <1>0, <1>1 DEF TypeOK
<1>3. Moves(r, Idle)  BY <1>0, <1>1, EndMoves
<1>4. Redraws(row)  BY <1>1 DEF Redraws
<1>5. CASE /\ row' = [row EXCEPT !.token = issued + 1, !.revoked = FALSE]
           /\ replaced' = replaced \cup {row.token}
  <2>1. /\ row' \in Row /\ row'.token = issued + 1 /\ row'.code = row.code
        /\ row'.secret = row.secret /\ row'.alias = row.alias
    BY <1>2, <1>5, RowFields
  <2> QED  BY <1>1, <1>2, <1>3, <1>4, <1>5, <2>1, NoneAssumption
<1>6. CASE /\ row' = [row EXCEPT !.code = issued + 1]
           /\ replaced' = replaced \cup {row.code}
  <2>1. /\ row' \in Row /\ row'.token = row.token /\ row'.code = issued + 1
        /\ row'.secret = row.secret /\ row'.alias = row.alias
    BY <1>2, <1>6, RowFields
  <2> QED  BY <1>1, <1>2, <1>3, <1>4, <1>6, <2>1, NoneAssumption
<1>7. CASE /\ row' = [row EXCEPT !.secret = issued + 1]
           /\ replaced' = replaced \cup {row.secret}
  <2>1. /\ row' \in Row /\ row'.token = row.token /\ row'.code = row.code
        /\ row'.secret = issued + 1 /\ row'.alias = row.alias
    BY <1>2, <1>7, RowFields
  <2> QED  BY <1>1, <1>2, <1>3, <1>4, <1>7, <2>1, NoneAssumption
<1> QED  BY <1>1, <1>5, <1>6, <1>7

LEMMA FlagShape ==
    ASSUME BaseInv, NEW r \in Requests, RevokeToken(r) \/ SetActive(r)
    PROVE  /\ req[r].pc = "write" /\ row \in Row /\ Moves(r, Idle) /\ Flags(row)
           /\ UNCHANGED <<sendToken, provisioned, callback, issued, replaced, lost, deleted,
                          crossed, ops, faults>>
<1>0. TypeOK  BY DEF BaseInv
<1>1. /\ req[r].pc = "write" /\ row # None /\ End(r)
      /\ UNCHANGED <<sendToken, provisioned, callback, issued, replaced, lost, deleted,
                     crossed, ops, faults>>
  BY DEF RevokeToken, SetActive, SaveFields, Writes
<1>2. row \in Row  BY <1>0, <1>1 DEF TypeOK
<1>3. Flags(row)
  <2>1. CASE RevokeToken(r)
    <3>1. row' = [row EXCEPT !.revoked = TRUE]  BY <2>1 DEF RevokeToken, SaveFields
    <3>2. TRUE \in BOOLEAN  OBVIOUS
    <3>3. /\ row' \in Row /\ row'.token = row.token /\ row'.code = row.code
          /\ row'.secret = row.secret /\ row'.alias = row.alias
      BY <1>2, <3>1, <3>2, RowFlags
    <3> QED  BY <1>1, <3>3 DEF Flags
  <2>2. CASE SetActive(r)
    <3> DEFINE want == req[r].op = "on"
    <3>1. row' = IF req[r].read.active = want THEN row ELSE [row EXCEPT !.active = want]
      BY <2>2 DEF SetActive, SaveFields
    <3>2. want \in BOOLEAN  OBVIOUS
    <3> HIDE DEF want
    <3>3. /\ row' \in Row /\ row'.token = row.token /\ row'.code = row.code
          /\ row'.secret = row.secret /\ row'.alias = row.alias
      BY <1>2, <3>1, <3>2, RowFlags
    <3> QED  BY <1>1, <3>3 DEF Flags
  <2> QED  BY <2>1, <2>2
<1> QED  BY <1>0, <1>1, <1>2, <1>3, EndMoves

LEMMA PatchShape ==
    ASSUME BaseInv, NEW r \in Requests, Patch(r)
    PROVE  /\ req[r].pc = "write" /\ req[r].read \in Row /\ Drawn(req[r].read)
           /\ Moves(r, Idle) /\ Flags(req[r].read)
           /\ lost' \in BOOLEAN
           /\ ~lost' => ~lost /\ row = req[r].read
           /\ UNCHANGED <<sendToken, provisioned, callback, issued, replaced, deleted,
                          crossed, ops, faults>>
<1>0. TypeOK  BY DEF BaseInv
<1>1. /\ req[r].pc = "write" /\ End(r)
      /\ row' = [req[r].read EXCEPT !.url = ~req[r].read.url]
      /\ UNCHANGED <<sendToken, provisioned, callback, issued, replaced, deleted, crossed,
                     ops, faults>>
  BY DEF Patch, Writes
<1>2. lost' = (lost \/ Overwrites(r))  BY DEF Patch
<1>3. lost' \in BOOLEAN /\ (~lost' => ~lost /\ row = req[r].read)
  BY <1>2 DEF Overwrites
<1>4. req[r].read \in Row /\ Drawn(req[r].read)  BY <1>1, Writing
<1>5. (~req[r].read.url) \in BOOLEAN  OBVIOUS
<1>6. Flags(req[r].read)  BY <1>1, <1>4, <1>5, RowFlags DEF Flags
<1> QED  BY <1>0, <1>1, <1>3, <1>4, <1>6, EndMoves

LEMMA EmailShape ==
    ASSUME BaseInv, NEW r \in Requests, RegenerateInboundEmail(r)
    PROVE  /\ req[r].pc = "write" /\ req[r].op = "email"
           /\ req[r].read \in Row /\ Drawn(req[r].read) /\ Redraws(req[r].read)
           /\ row' \in Row
           /\ row'.token = req[r].read.token /\ row'.code = req[r].read.code
           /\ row'.secret = req[r].read.secret /\ row'.alias = issued'
           /\ replaced' = replaced \cup {req[r].read.alias}
           /\ lost' \in BOOLEAN /\ crossed' \in BOOLEAN
           /\ ~lost' => ~lost /\ row = req[r].read
           /\ ~crossed' => ~crossed /\ ~OthersOnAlias(r)
           /\ req' \in [Requests -> Request]
           /\ req'[r].pc = "provision" /\ req'[r].op = "email"
           /\ req'[r].read = req[r].read /\ req'[r].alias = issued'
           /\ \A q \in Requests \ {r} : req'[q] = req[q]
           /\ UNCHANGED <<sendToken, provisioned, callback, deleted, ops, faults>>
<1>0. TypeOK  BY DEF BaseInv
<1> DEFINE new == [req[r] EXCEPT !.pc = "provision", !.alias = issued + 1]
<1>1. /\ req[r].pc = "write" /\ req[r].op = "email" /\ issued' = issued + 1
      /\ row' = [req[r].read EXCEPT !.alias = issued + 1]
      /\ replaced' = replaced \cup {req[r].read.alias}
      /\ req' = [req EXCEPT ![r] = new]
      /\ UNCHANGED <<sendToken, provisioned, callback, deleted, ops, faults>>
  BY DEF RegenerateInboundEmail, Writes
<1>2. lost' \in BOOLEAN /\ (~lost' => ~lost /\ row = req[r].read)
  BY DEF RegenerateInboundEmail, Overwrites
<1>3. crossed' \in BOOLEAN /\ (~crossed' => ~crossed /\ ~OthersOnAlias(r))
  BY DEF RegenerateInboundEmail
<1>4. req[r] \in Request /\ req[r].read \in Row /\ Drawn(req[r].read) /\ issued + 1 \in Nat
  BY <1>1, Writing
<1>5. /\ new \in Request /\ new.pc = "provision" /\ new.op = req[r].op
      /\ new.read = req[r].read /\ new.alias = issued + 1
  BY <1>4 DEF Request, PC
<1> HIDE DEF new
<1>6. Moves(r, new)  BY <1>0, <1>1, <1>5, Moved
<1>7. Redraws(req[r].read)  BY <1>1 DEF Redraws
<1>8. /\ row' \in Row /\ row'.token = req[r].read.token /\ row'.code = req[r].read.code
      /\ row'.secret = req[r].read.secret /\ row'.alias = issued + 1
  BY <1>1, <1>4, RowFields
<1> QED  BY <1>1, <1>2, <1>3, <1>4, <1>5, <1>6, <1>7, <1>8 DEF Moves

LEMMA DeleteShape ==
    ASSUME BaseInv, NEW r \in Requests, Delete(r)
    PROVE  /\ req[r].pc = "write" /\ req[r].op = "delete"
           /\ row' = None /\ deleted'
           /\ sendToken' = [t \in SendTokens |-> "none"]
           /\ deleted' \in BOOLEAN /\ crossed' \in BOOLEAN
           /\ ~crossed' => ~crossed /\ ~OthersOnAlias(r)
           /\ req' \in [Requests -> Request]
           /\ req'[r].pc = "deprovision" /\ req'[r].op = "delete"
           /\ req'[r].read = req[r].read
           /\ \A q \in Requests \ {r} : req'[q] = req[q]
           /\ UNCHANGED <<provisioned, callback, issued, replaced, lost, ops, faults>>
<1>0. TypeOK  BY DEF BaseInv
<1> DEFINE new == [req[r] EXCEPT !.pc = "deprovision"]
<1>1. /\ req[r].pc = "write" /\ req[r].op = "delete" /\ row' = None
      /\ sendToken' = [t \in SendTokens |-> "none"]
      /\ req' = [req EXCEPT ![r] = new]
      /\ UNCHANGED <<provisioned, callback, issued, replaced, lost, ops, faults>>
  BY DEF Delete, Writes
<1>2. deleted' /\ deleted' \in BOOLEAN  BY DEF Delete
<1>3. crossed' \in BOOLEAN /\ (~crossed' => ~crossed /\ ~OthersOnAlias(r))
  BY DEF Delete
<1>4. req[r] \in Request  BY <1>0 DEF TypeOK
<1>5. /\ new \in Request /\ new.pc = "deprovision" /\ new.op = req[r].op
      /\ new.read = req[r].read
  BY <1>4 DEF Request, PC
<1> HIDE DEF new
<1>6. Moves(r, new)  BY <1>0, <1>1, <1>5, Moved
<1> QED  BY <1>1, <1>2, <1>3, <1>5, <1>6 DEF Moves

\* The way to Exchange.
LEMMA ProvisionShape ==
    ASSUME BaseInv, NEW r \in Requests, Provision(r)
    PROVE  /\ req[r].pc = "provision" /\ req[r].op \in {"create", "email"}
           /\ req[r].alias \in 0 .. issued
           /\ \/ provisioned' = provisioned \cup {req[r].alias} /\ UNCHANGED faults
              \/ UNCHANGED provisioned /\ faults' = faults + 1 /\ faults < MaxFaults
           /\ req' \in [Requests -> Request]
           /\ \A q \in Requests \ {r} : req'[q] = req[q]
           /\ req[r].op = "create" => req'[r] = Idle
           /\ req[r].op = "email" => /\ req'[r].pc = "deprovision" /\ req'[r].op = "email"
                                     /\ req'[r].read = req[r].read
           /\ UNCHANGED <<row, sendToken, callback, issued, replaced, lost, deleted, crossed,
                          ops>>
<1>0. TypeOK /\ Sound(r)  BY DEF BaseInv
<1> DEFINE new == [req[r] EXCEPT !.pc = "deprovision"]
<1>1. /\ req[r].pc = "provision"
      /\ \/ provisioned' = provisioned \cup {req[r].alias} /\ UNCHANGED faults
         \/ UNCHANGED provisioned /\ faults' = faults + 1 /\ faults < MaxFaults
      /\ UNCHANGED <<row, sendToken, callback, issued, replaced, lost, deleted, crossed, ops>>
      /\ req' = IF req[r].op = "create" THEN [req EXCEPT ![r] = Idle]
                ELSE [req EXCEPT ![r] = new]
  BY DEF Provision, Exchange, Fault, End
<1>2. req[r].op \in {"create", "email"} /\ req[r].alias \in 0 .. issued
  BY <1>0, <1>1 DEF Sound
<1>3. req[r] \in Request  BY <1>0 DEF TypeOK
<1>4. /\ new \in Request /\ new.pc = "deprovision" /\ new.op = req[r].op
      /\ new.read = req[r].read
  BY <1>3 DEF Request, PC
<1> HIDE DEF new
<1>5. CASE req[r].op = "create"
  <2>1. Moves(r, Idle)  BY <1>0, <1>1, <1>5, IdleType, Moved
  <2> QED  BY <1>1, <1>2, <1>5, <2>1 DEF Moves
<1>6. CASE req[r].op = "email"
  <2>1. Moves(r, new)  BY <1>0, <1>1, <1>4, <1>6, Moved
  <2> QED  BY <1>1, <1>2, <1>4, <1>6, <2>1 DEF Moves
<1> QED  BY <1>2, <1>5, <1>6

LEMMA DeprovisionShape ==
    ASSUME BaseInv, NEW r \in Requests, Deprovision(r)
    PROVE  /\ req[r].pc = "deprovision" /\ req[r].op \in {"email", "delete"}
           /\ \/ provisioned' = provisioned \ {req[r].read.alias} /\ UNCHANGED faults
              \/ UNCHANGED provisioned /\ faults' = faults + 1 /\ faults < MaxFaults
           /\ Moves(r, Idle)
           /\ UNCHANGED <<row, sendToken, callback, issued, replaced, lost, deleted, crossed,
                          ops>>
<1>0. TypeOK /\ Sound(r)  BY DEF BaseInv
<1>1. Moves(r, Idle)  BY <1>0, EndMoves DEF Deprovision
<1>2. req[r].pc = "deprovision"  BY DEF Deprovision
<1>3. req[r].op \in {"email", "delete"}  BY <1>0, <1>2 DEF Sound
<1> QED  BY <1>1, <1>2, <1>3 DEF Deprovision, Exchange, Fault

LEMMA CrashShape ==
    ASSUME BaseInv, NEW r \in Requests, Crash(r)
    PROVE  /\ Moves(r, Idle) /\ faults' = faults + 1 /\ faults < MaxFaults
           /\ UNCHANGED <<row, sendToken, provisioned, callback, issued, replaced, lost,
                          deleted, crossed, ops>>
BY EndMoves DEF Crash, Fault, BaseInv

LEMMA ReadShape ==
    ASSUME BaseInv, NEW r \in Requests, NEW op \in Operations, Read(r, op)
    PROVE  /\ row \in Row /\ req[r] = Idle
           /\ Moves(r, [pc |-> "write", op |-> op, read |-> row, alias |-> None])
           /\ ops' \in 0 .. MaxOps
           /\ op = "issue" =>
                Cardinality({t \in SendTokens : sendToken[t] = "active"}) < MaxSendTokens
           /\ UNCHANGED <<row, sendToken, provisioned, callback, issued, replaced, lost,
                          deleted, crossed, faults>>
<1>0. TypeOK  BY DEF BaseInv
<1> DEFINE new == [pc |-> "write", op |-> op, read |-> row, alias |-> None]
<1>1. /\ row # None /\ req[r] = Idle /\ req' = [req EXCEPT ![r] = new]
      /\ ops < MaxOps /\ ops' = ops + 1
      /\ op = "issue" =>
           Cardinality({t \in SendTokens : sendToken[t] = "active"}) < MaxSendTokens
      /\ UNCHANGED <<row, sendToken, provisioned, callback, issued, replaced, lost,
                     deleted, crossed, faults>>
  BY DEF Read
<1>2. row \in Row /\ op \in AllOperations  BY <1>0, <1>1, BoundsAssumption DEF TypeOK
<1>3. new \in Request  BY <1>2 DEF Request, PC
<1> HIDE DEF new
<1>4. Moves(r, new)  BY <1>0, <1>1, <1>3, Moved
<1>5. ops' \in 0 .. MaxOps  BY <1>0, <1>1, BoundsAssumption DEF TypeOK
<1> QED  BY <1>1, <1>2, <1>4, <1>5 DEF new

LEMMA CreateShape ==
    ASSUME BaseInv, NEW r \in Requests, Create(r)
    PROVE  /\ issued = 0 /\ issued' = 4 /\ row' \in Row
           /\ row'.token = 1 /\ row'.code = 2 /\ row'.secret = 3 /\ row'.alias = 4
           /\ req' \in [Requests -> Request]
           /\ req'[r].pc = "provision" /\ req'[r].op = "create"
           /\ req'[r].read = row' /\ req'[r].alias = 4
           /\ \A q \in Requests \ {r} : req'[q] = req[q]
           /\ UNCHANGED <<sendToken, provisioned, callback, replaced, lost, deleted, crossed,
                          ops, faults>>
<1>0. TypeOK  BY DEF BaseInv
<1> DEFINE x == [token |-> 1, revoked |-> FALSE, code |-> 2, secret |-> 3, alias |-> 4,
                 active |-> TRUE, url |-> TRUE]
           new == [pc |-> "provision", op |-> "create", read |-> x, alias |-> 4]
<1>1. /\ issued = 0 /\ issued' = 4 /\ row' = x /\ req' = [req EXCEPT ![r] = new]
      /\ UNCHANGED <<sendToken, provisioned, callback, replaced, lost, deleted, crossed,
                     ops, faults>>
  BY DEF Create
<1>2. x \in Row /\ x.token = 1 /\ x.code = 2 /\ x.secret = 3 /\ x.alias = 4  BY DEF Row
<1> HIDE DEF x
<1>3. /\ new \in Request /\ new.pc = "provision" /\ new.op = "create" /\ new.read = x
      /\ new.alias = 4
  BY <1>2 DEF Request, PC
<1> HIDE DEF new
<1>4. Moves(r, new)  BY <1>0, <1>1, <1>3, Moved
<1> QED  BY <1>1, <1>2, <1>3, <1>4 DEF Moves

\* The rest: send tokens, callbacks, and requests whose row is gone.
LEMMA IssueShape ==
    ASSUME BaseInv, NEW r \in Requests, SaveFails(r) \/ \E t \in SendTokens : Issue(r, t)
    PROVE  /\ req[r].pc = "write" /\ Moves(r, Idle)
           /\ sendToken' \in [SendTokens -> {"none", "active", "revoked"}]
           /\ UNCHANGED <<row, provisioned, callback, issued, replaced, lost, deleted,
                          crossed, ops, faults>>
<1>0. TypeOK  BY DEF BaseInv
<1>1. Moves(r, Idle)  BY <1>0, EndMoves DEF SaveFails, Issue
<1>2. sendToken' \in [SendTokens -> {"none", "active", "revoked"}]
  BY <1>0 DEF SaveFails, Issue, TypeOK
<1> QED  BY <1>1, <1>2 DEF SaveFails, Issue, Writes

\* A step of a callback, or of a send token that is revoked.
Aside ==
    \/ UNCHANGED vars
    \/ \E t \in SendTokens : RevokeSendToken(t)
    \/ \E c \in Callbacks : \/ Enqueue(c) \/ CallbackStep(c) \/ RunUnsafe(c)
                            \/ CallbackLost(c)

LEMMA AsideShape ==
    ASSUME BaseInv, Aside
    PROVE  /\ UNCHANGED <<row, provisioned, req, issued, replaced, lost, deleted, crossed>>
           /\ sendToken' \in [SendTokens -> {"none", "active", "revoked"}]
           /\ callback' \in [Callbacks -> Callback]
           /\ ops' \in 0 .. MaxOps
           /\ faults' \in 0 .. MaxFaults /\ faults <= faults'
<1>0. TypeOK  BY DEF BaseInv
<1>1. CASE UNCHANGED vars
  <2>1. UNCHANGED <<row, sendToken, provisioned, req, callback, issued, replaced, lost,
                    deleted, crossed, ops, faults>>
    BY <1>1 DEF vars
  <2>2. faults \in Int  BY <1>0 DEF TypeOK
  <2> QED  BY <1>0, <2>1, <2>2 DEF TypeOK
<1>2. ASSUME NEW t \in SendTokens, RevokeSendToken(t)
      PROVE  /\ UNCHANGED <<row, provisioned, req, callback, issued, replaced, lost, deleted,
                            crossed, faults>>
             /\ sendToken' \in [SendTokens -> {"none", "active", "revoked"}]
             /\ ops' \in 0 .. MaxOps
  BY <1>0, <1>2, BoundsAssumption DEF RevokeSendToken, TypeOK
<1>3. ASSUME NEW c \in Callbacks,
             Enqueue(c) \/ CallbackStep(c) \/ RunUnsafe(c) \/ CallbackLost(c)
      PROVE  /\ UNCHANGED <<row, sendToken, provisioned, req, issued, replaced, lost, deleted,
                            crossed, ops>>
             /\ callback' \in [Callbacks -> Callback]
             /\ faults' \in 0 .. MaxFaults /\ faults <= faults'
  <2>1. callback \in [Callbacks -> Callback] /\ callback[c] \in Callback
    BY <1>0 DEF TypeOK
  <2>2. faults' \in 0 .. MaxFaults /\ faults <= faults'
    BY <1>0, <1>3, BoundsAssumption
       DEF TypeOK, Enqueue, CallbackStep, Run, Post, PostFails, RunUnsafe, CallbackLost, Fault
  <2>3. \/ \E s \in {"queued", "running", "dropped"} :
             callback' = [callback EXCEPT ![c] = [callback[c] EXCEPT !.state = s]]
        \/ \E s \in {"done", "dropped"} :
             callback' = [callback EXCEPT ![c] =
                            [callback[c] EXCEPT !.state = s, !.posts = callback[c].posts + 1]]
        \/ /\ callback[c].retries < MaxRetries
           /\ callback' = [callback EXCEPT ![c] =
                            [callback[c] EXCEPT !.state = "queued",
                                                !.posts = callback[c].posts + 1,
                                                !.retries = callback[c].retries + 1]]
    <3>1. CASE Enqueue(c) \/ Run(c) \/ RunUnsafe(c) \/ CallbackLost(c)
      <4>1. \E s \in {"queued", "running", "dropped"} : SetCallback(c, s)
        <5>1. CASE Enqueue(c)  BY <5>1 DEF Enqueue
        <5>2. CASE Run(c)
          <6>1. CASE HasUrl  BY <5>2, <6>1 DEF Run
          <6>2. CASE ~HasUrl  BY <5>2, <6>2 DEF Run
          <6> QED  BY <6>1, <6>2
        <5>3. CASE RunUnsafe(c) \/ CallbackLost(c)  BY <5>3 DEF RunUnsafe, CallbackLost
        <5> QED  BY <3>1, <5>1, <5>2, <5>3
      <4> QED  BY <4>1 DEF SetCallback
    <3>2. CASE Post(c)  BY <3>2 DEF Post
    <3>3. CASE PostFails(c)  BY <3>3 DEF PostFails
    <3> QED  BY <1>3, <3>1, <3>2, <3>3 DEF CallbackStep
  <2>4. /\ \A s \in {"queued", "running", "dropped"} :
             [callback[c] EXCEPT !.state = s] \in Callback
        /\ \A s \in {"done", "dropped"} :
             [callback[c] EXCEPT !.state = s, !.posts = callback[c].posts + 1] \in Callback
        /\ callback[c].retries < MaxRetries =>
             [callback[c] EXCEPT !.state = "queued", !.posts = callback[c].posts + 1,
                                 !.retries = callback[c].retries + 1] \in Callback
    <3>1. callback[c].posts + 1 \in Nat  BY <2>1 DEF Callback
    <3>2. callback[c].retries < MaxRetries => callback[c].retries + 1 \in 0 .. MaxRetries
      BY <2>1, SettingsAssumption DEF Callback
    <3>3. \A s \in {"queued", "running", "dropped"} :
            [callback[c] EXCEPT !.state = s] \in Callback
      BY <2>1 DEF Callback
    <3>4. \A s \in {"done", "dropped"} :
            [callback[c] EXCEPT !.state = s, !.posts = callback[c].posts + 1] \in Callback
      BY <2>1, <3>1 DEF Callback
    <3>5. callback[c].retries < MaxRetries =>
            [callback[c] EXCEPT !.state = "queued", !.posts = callback[c].posts + 1,
                                !.retries = callback[c].retries + 1] \in Callback
      BY <2>1, <3>1, <3>2 DEF Callback
    <3> QED  BY <3>3, <3>4, <3>5
  <2>5. callback' \in [Callbacks -> Callback]  BY <2>1, <2>3, <2>4
  <2>6. UNCHANGED <<row, sendToken, provisioned, req, issued, replaced, lost, deleted,
                    crossed, ops>>
    BY <1>3 DEF Enqueue, CallbackStep, Run, Post, PostFails, RunUnsafe, CallbackLost,
                CallbackFrame
  <2> QED  BY <2>2, <2>5, <2>6
<1>4. CASE \E t \in SendTokens : RevokeSendToken(t)
  <2>1. faults \in Int  BY <1>0 DEF TypeOK
  <2> QED  BY <1>0, <1>2, <1>4, <2>1 DEF TypeOK
<1>5. CASE \E c \in Callbacks : \/ Enqueue(c) \/ CallbackStep(c) \/ RunUnsafe(c)
                                \/ CallbackLost(c)
  BY <1>0, <1>3, <1>5 DEF TypeOK
<1> QED  BY <1>1, <1>4, <1>5 DEF Aside

\* Every step is one of these.
LEMMA Steps ==
    ASSUME [Next]_vars
    PROVE  \/ Aside
           \/ \E r \in Requests :
                \/ Create(r) \/ Crash(r) \/ (\E op \in Operations : Read(r, op))
                \/ RegenerateToken(r) \/ RotateEnrolmentCode(r) \/ RotateWebhookSecret(r)
                \/ RevokeToken(r) \/ SetActive(r) \/ Patch(r) \/ RegenerateInboundEmail(r)
                \/ Delete(r) \/ SaveFails(r) \/ (\E t \in SendTokens : Issue(r, t))
                \/ Provision(r) \/ Deprovision(r)
BY DEF Next, RequestStep, Aside

-----------------------------------------------------------------------------
(* Types, and what requests hold *)

LEMMA Started ==
    ASSUME BaseInv, NEW r \in Requests, req[r].pc # "idle"
    PROVE  issued \in Nat \ {0}
BY DEF BaseInv, TypeOK, Idle

LEMMA SoundFrame ==
    ASSUME BaseInv, NEW q \in Requests, req'[q] = req[q], issued' \in Nat, issued <= issued'
    PROVE  Sound(q)'
<1>1. Sound(q) /\ issued \in Nat /\ req[q] \in Request  BY DEF BaseInv, TypeOK
<1>2. CASE req[q].pc = "idle"  BY <1>1, <1>2 DEF Sound, Idle
<1>3. CASE req[q].pc # "idle"
  <2> DEFINE x == req[q].read
  <2>1. x \in Row /\ Drawn(x)  BY <1>1, <1>3 DEF Sound
  <2>2. x.token \in Nat /\ x.code \in Nat /\ x.secret \in Nat /\ x.alias \in Nat
    BY <2>1 DEF Row
  <2>3. /\ x.token <= issued' /\ x.code <= issued' /\ x.secret <= issued'
        /\ x.alias <= issued'
    BY <1>1, <2>1, <2>2 DEF Drawn
  <2>4. req[q].alias \in 0 .. issued => req[q].alias \in 0 .. issued'
    BY <1>1
  <2> QED  BY <1>1, <1>3, <2>1, <2>3, <2>4 DEF Sound, Drawn
<1> QED  BY <1>2, <1>3

LEMMA SoundIdle ==
    ASSUME NEW q \in Requests, req'[q] = Idle
    PROVE  Sound(q)'
BY DEF Sound, Idle

\* A step of request r, in parts.
LEMMA BaseMoves ==
    ASSUME BaseInv, NEW r \in Requests,
           row' \in Row \cup {None}, row' # None => Drawn(row)',
           issued' \in Nat \ {0}, issued <= issued',
           req' \in [Requests -> Request], Sound(r)',
           \A q \in Requests \ {r} : req'[q] = req[q],
           provisioned' \subseteq 0 .. issued', replaced' \subseteq 0 .. issued',
           sendToken' \in [SendTokens -> {"none", "active", "revoked"}],
           callback' \in [Callbacks -> Callback],
           lost' \in BOOLEAN, deleted' \in BOOLEAN, crossed' \in BOOLEAN,
           ops' \in 0 .. MaxOps, faults' \in 0 .. MaxFaults
    PROVE  BaseInv'
<1>1. TypeOK'  BY DEF TypeOK
<1>2. \A q \in Requests : Sound(q)'
  <2>1. ASSUME NEW q \in Requests PROVE Sound(q)'
    <3>1. CASE q = r  BY <3>1
    <3>2. CASE q # r
      <4>1. req'[q] = req[q]  BY <3>2
      <4> QED  BY <4>1, SoundFrame
    <3> QED  BY <3>1, <3>2
  <2> QED  BY <2>1
<1> QED  BY <1>1, <1>2 DEF BaseInv

LEMMA TypeParts ==
    ASSUME BaseInv
    PROVE  /\ row \in Row \cup {None} /\ issued \in Nat
           /\ provisioned \subseteq 0 .. issued /\ replaced \subseteq 0 .. issued
           /\ sendToken \in [SendTokens -> {"none", "active", "revoked"}]
           /\ callback \in [Callbacks -> Callback]
           /\ lost \in BOOLEAN /\ deleted \in BOOLEAN /\ crossed \in BOOLEAN
           /\ ops \in 0 .. MaxOps /\ faults \in 0 .. MaxFaults
           /\ row # None => row \in Row /\ Drawn(row)
BY DEF BaseInv, TypeOK

\* The values of a row that is drawn may be replaced.
LEMMA DrawnValues ==
    ASSUME NEW x \in Row, issued \in Nat, issued' \in Nat, issued <= issued', Drawn(x)
    PROVE  /\ x.token \in 0 .. issued' /\ x.code \in 0 .. issued'
           /\ x.secret \in 0 .. issued' /\ x.alias \in 0 .. issued'
<1>1. x.token \in Nat /\ x.code \in Nat /\ x.secret \in Nat /\ x.alias \in Nat  BY DEF Row
<1> QED  BY <1>1 DEF Drawn

LEMMA BaseInit == Init => BaseInv
<1> SUFFICES ASSUME Init PROVE BaseInv
  OBVIOUS
<1>1. 0 \in 0 .. MaxOps /\ 0 \in 0 .. MaxFaults /\ 0 \in 0 .. MaxRetries
  BY BoundsAssumption, SettingsAssumption
<1>2. req \in [Requests -> Request]  BY IdleType DEF Init
<1>3. [state |-> "none", retries |-> 0, posts |-> 0] \in Callback  BY <1>1 DEF Callback
<1>4. callback \in [Callbacks -> Callback]  BY <1>3 DEF Init
<1>5. lost \in BOOLEAN /\ deleted \in BOOLEAN /\ crossed \in BOOLEAN  BY DEF Init
<1>6. sendToken \in [SendTokens -> {"none", "active", "revoked"}]  BY DEF Init
<1>7. TypeOK  BY <1>1, <1>2, <1>4, <1>5, <1>6 DEF Init, TypeOK
<1>8. \A r \in Requests : req[r] = Idle  BY DEF Init
<1>9. \A r \in Requests : Sound(r)  BY <1>8 DEF Sound, Idle
<1> QED  BY <1>7, <1>8, <1>9 DEF Init, BaseInv

LEMMA BaseStep == BaseInv /\ [Next]_vars => BaseInv'
<1> SUFFICES ASSUME BaseInv, [Next]_vars PROVE BaseInv'
  OBVIOUS
<1>0. TypeOK /\ (\A r \in Requests : Sound(r))  BY DEF BaseInv
<1>1. CASE Aside
  <2>1. /\ UNCHANGED <<row, provisioned, req, issued, replaced, lost, deleted, crossed>>
        /\ sendToken' \in [SendTokens -> {"none", "active", "revoked"}]
        /\ callback' \in [Callbacks -> Callback]
        /\ ops' \in 0 .. MaxOps
        /\ faults' \in 0 .. MaxFaults
    BY <1>1, AsideShape
  <2>2. TypeOK'  BY <1>0, <2>1 DEF TypeOK
  <2> QED  BY <2>1, <2>2 DEF BaseInv, Sound, Drawn
<1>2. ASSUME NEW r \in Requests, Create(r) PROVE BaseInv'
  <2>1. /\ issued' = 4 /\ issued = 0 /\ row' \in Row /\ req' \in [Requests -> Request]
        /\ row'.token = 1 /\ row'.code = 2 /\ row'.secret = 3 /\ row'.alias = 4
        /\ req'[r].pc = "provision" /\ req'[r].op = "create"
        /\ req'[r].read = row' /\ req'[r].alias = 4
        /\ \A q \in Requests \ {r} : req'[q] = req[q]
        /\ UNCHANGED <<sendToken, provisioned, callback, replaced, lost, deleted, crossed,
                       ops, faults>>
    BY <1>2, CreateShape
  <2>2. Drawn(row)'  BY <2>1 DEF Drawn
  <2>3. Sound(r)'  BY <2>1 DEF Sound, Drawn
  <2>4. /\ issued' \in Nat \ {0} /\ issued <= issued'
        /\ provisioned' \subseteq 0 .. issued' /\ replaced' \subseteq 0 .. issued'
    BY <2>1, TypeParts
  <2> QED  BY <2>1, <2>2, <2>3, <2>4, TypeParts, BaseMoves
<1>3. ASSUME NEW r \in Requests, Crash(r) \/ SaveFails(r) \/ \E t \in SendTokens : Issue(r, t)
      PROVE  BaseInv'
  <2>1. /\ Moves(r, Idle)
        /\ UNCHANGED <<row, provisioned, callback, issued, replaced, lost, deleted, crossed,
                       ops>>
        /\ faults' \in 0 .. MaxFaults
        /\ sendToken' \in [SendTokens -> {"none", "active", "revoked"}]
    <3>1. CASE Crash(r)  BY <3>1, CrashShape, TypeParts, BoundsAssumption
    <3>2. CASE SaveFails(r) \/ \E t \in SendTokens : Issue(r, t)
      BY <3>2, IssueShape, TypeParts
    <3> QED  BY <1>3, <3>1, <3>2
  <2>2. req[r].pc # "idle"
    <3>1. CASE Crash(r)  BY <1>0, <3>1 DEF Crash, Sound
    <3>2. CASE SaveFails(r) \/ \E t \in SendTokens : Issue(r, t)
      BY <3>2, IssueShape
    <3> QED  BY <1>3, <3>1, <3>2
  <2>3. issued \in Nat \ {0}  BY <2>2, Started
  <2>4. Sound(r)'  BY <2>1, SoundIdle DEF Moves
  <2>5. /\ req' \in [Requests -> Request]
        /\ \A q \in Requests \ {r} : req'[q] = req[q]
    BY <2>1 DEF Moves
  <2>6. row' # None => Drawn(row)'  BY <2>1, TypeParts DEF Drawn
  <2> QED  BY <2>1, <2>3, <2>4, <2>5, <2>6, TypeParts, BaseMoves
<1>4. ASSUME NEW r \in Requests, NEW op \in Operations, Read(r, op) PROVE BaseInv'
  <2> DEFINE new == [pc |-> "write", op |-> op, read |-> row, alias |-> None]
  <2>1. /\ row \in Row /\ req[r] = Idle /\ Moves(r, new) /\ ops' \in 0 .. MaxOps
        /\ UNCHANGED <<row, sendToken, provisioned, callback, issued, replaced, lost,
                       deleted, crossed, faults>>
    BY <1>4, ReadShape
  <2>2. row # None /\ Drawn(row)  BY <2>1, NoneAssumption, TypeParts
  <2>3. issued \in Nat \ {0}  BY <2>2 DEF BaseInv, TypeOK
  <2>4. /\ req' \in [Requests -> Request] /\ req'[r] = new
        /\ \A q \in Requests \ {r} : req'[q] = req[q]
    BY <2>1 DEF Moves
  <2>5. op \in AllOperations  BY BoundsAssumption
  <2>6. Drawn(row)'  BY <2>1, <2>2 DEF Drawn
  <2>7. Sound(r)'  BY <2>1, <2>2, <2>4, <2>5 DEF Sound, Drawn
  <2> QED  BY <2>1, <2>3, <2>4, <2>6, <2>7, TypeParts, BaseMoves
<1>5. ASSUME NEW r \in Requests,
             RegenerateToken(r) \/ RotateEnrolmentCode(r) \/ RotateWebhookSecret(r)
      PROVE  BaseInv'
  <2>1. /\ req[r].pc = "write" /\ row \in Row /\ Moves(r, Idle) /\ Redraws(row)
        /\ replaced' \subseteq replaced \cup {row.token, row.code, row.secret}
        /\ UNCHANGED <<sendToken, provisioned, callback, lost, deleted, crossed, ops,
                       faults>>
    BY <1>5, RotationShape
  <2>2. Drawn(row) /\ issued \in Nat  BY <2>1, NoneAssumption, TypeParts
  <2>3. row' \in Row /\ Drawn(row)' /\ issued' \in Nat /\ issued <= issued' /\ issued' # 0
    BY <2>1, <2>2, RedrawsType
  <2>4. /\ req' \in [Requests -> Request] /\ Sound(r)'
        /\ \A q \in Requests \ {r} : req'[q] = req[q]
    BY <2>1, SoundIdle DEF Moves
  <2>5. {row.token, row.code, row.secret} \subseteq 0 .. issued'
    BY <2>1, <2>2, <2>3, DrawnValues
  <2>6. 0 .. issued \subseteq 0 .. issued'  BY <2>2, <2>3
  <2>7. provisioned' \subseteq 0 .. issued' /\ replaced' \subseteq 0 .. issued'
    BY <2>1, <2>5, <2>6, TypeParts
  <2> QED  BY <2>1, <2>3, <2>4, <2>7, TypeParts, BaseMoves
<1>6. ASSUME NEW r \in Requests, RevokeToken(r) \/ SetActive(r) PROVE BaseInv'
  <2>1. /\ req[r].pc = "write" /\ row \in Row /\ Moves(r, Idle) /\ Flags(row)
        /\ UNCHANGED <<sendToken, provisioned, callback, issued, replaced, lost, deleted,
                       crossed, ops, faults>>
    BY <1>6, FlagShape
  <2>2. Drawn(row) /\ issued \in Nat \ {0}  BY <2>1, NoneAssumption, TypeParts, Started
  <2>3. row' \in Row /\ Drawn(row)'  BY <2>1, <2>2, FlagsDrawn
  <2>4. /\ req' \in [Requests -> Request] /\ Sound(r)'
        /\ \A q \in Requests \ {r} : req'[q] = req[q]
    BY <2>1, SoundIdle DEF Moves
  <2> QED  BY <2>1, <2>2, <2>3, <2>4, TypeParts, BaseMoves
<1>7. ASSUME NEW r \in Requests, Patch(r) PROVE BaseInv'
  <2>1. /\ req[r].pc = "write" /\ req[r].read \in Row /\ Drawn(req[r].read)
        /\ Moves(r, Idle) /\ Flags(req[r].read) /\ lost' \in BOOLEAN
        /\ UNCHANGED <<sendToken, provisioned, callback, issued, replaced, deleted,
                       crossed, ops, faults>>
    BY <1>7, PatchShape
  <2>2. issued \in Nat \ {0}  BY <2>1, Started
  <2>3. row' \in Row /\ Drawn(row)'  BY <2>1, FlagsDrawn
  <2>4. /\ req' \in [Requests -> Request] /\ Sound(r)'
        /\ \A q \in Requests \ {r} : req'[q] = req[q]
    BY <2>1, SoundIdle DEF Moves
  <2> QED  BY <2>1, <2>2, <2>3, <2>4, TypeParts, BaseMoves
<1>8. ASSUME NEW r \in Requests, RegenerateInboundEmail(r) PROVE BaseInv'
  <2>1. /\ req[r].pc = "write" /\ req[r].read \in Row /\ Drawn(req[r].read)
        /\ Redraws(req[r].read)
        /\ replaced' = replaced \cup {req[r].read.alias}
        /\ lost' \in BOOLEAN /\ crossed' \in BOOLEAN
        /\ req' \in [Requests -> Request]
        /\ req'[r].pc = "provision" /\ req'[r].op = "email"
        /\ req'[r].read = req[r].read /\ req'[r].alias = issued'
        /\ \A q \in Requests \ {r} : req'[q] = req[q]
        /\ UNCHANGED <<sendToken, provisioned, callback, deleted, ops, faults>>
    BY <1>8, EmailShape
  <2>2. issued \in Nat  BY TypeParts
  <2>3. row' \in Row /\ Drawn(row)' /\ issued' \in Nat /\ issued <= issued' /\ issued' # 0
    BY <2>1, <2>2, RedrawsType
  <2>4. /\ req[r].read.token \in 0 .. issued' /\ req[r].read.code \in 0 .. issued'
        /\ req[r].read.secret \in 0 .. issued' /\ req[r].read.alias \in 0 .. issued'
    BY <2>1, <2>2, <2>3, DrawnValues
  <2>5. 0 .. issued \subseteq 0 .. issued'  BY <2>2, <2>3
  <2>6. provisioned' \subseteq 0 .. issued' /\ replaced' \subseteq 0 .. issued'
    BY <2>1, <2>4, <2>5, TypeParts
  <2>7. Sound(r)'  BY <2>1, <2>3, <2>4 DEF Sound, Drawn
  <2> QED  BY <2>1, <2>3, <2>6, <2>7, TypeParts, BaseMoves
<1>9. ASSUME NEW r \in Requests, Delete(r) PROVE BaseInv'
  <2>1. /\ req[r].pc = "write" /\ req[r].op = "delete" /\ row' = None
        /\ sendToken' = [t \in SendTokens |-> "none"]
        /\ deleted' \in BOOLEAN /\ crossed' \in BOOLEAN
        /\ req' \in [Requests -> Request]
        /\ req'[r].pc = "deprovision" /\ req'[r].op = "delete"
        /\ req'[r].read = req[r].read
        /\ \A q \in Requests \ {r} : req'[q] = req[q]
        /\ UNCHANGED <<provisioned, callback, issued, replaced, lost, ops, faults>>
    BY <1>9, DeleteShape
  <2>2. issued \in Nat \ {0} /\ req[r].read \in Row /\ Drawn(req[r].read)
    BY <2>1, Writing
  <2>3. Sound(r)'  BY <2>1, <2>2 DEF Sound, Drawn
  <2>4. sendToken' \in [SendTokens -> {"none", "active", "revoked"}]  BY <2>1
  <2> QED  BY <2>1, <2>2, <2>3, <2>4, TypeParts, BaseMoves
<1>10. ASSUME NEW r \in Requests, Provision(r) PROVE BaseInv'
  <2>1. /\ req[r].pc = "provision" /\ req[r].op \in {"create", "email"}
        /\ req[r].alias \in 0 .. issued
        /\ \/ provisioned' = provisioned \cup {req[r].alias} /\ UNCHANGED faults
           \/ UNCHANGED provisioned /\ faults' = faults + 1 /\ faults < MaxFaults
        /\ req' \in [Requests -> Request]
        /\ \A q \in Requests \ {r} : req'[q] = req[q]
        /\ req[r].op = "create" => req'[r] = Idle
        /\ req[r].op = "email" => /\ req'[r].pc = "deprovision" /\ req'[r].op = "email"
                                  /\ req'[r].read = req[r].read
        /\ UNCHANGED <<row, sendToken, callback, issued, replaced, lost, deleted, crossed,
                       ops>>
    BY <1>10, ProvisionShape
  <2>2. issued \in Nat \ {0}  BY <2>1, Started
  <2>3. faults' \in 0 .. MaxFaults  BY <2>1, TypeParts, BoundsAssumption
  <2>4. provisioned' \subseteq 0 .. issued'  BY <2>1, TypeParts
  <2>5. req[r].read \in Row /\ Drawn(req[r].read)  BY <1>0, <2>1 DEF Sound
  <2>6. Sound(r)'
    <3>1. CASE req[r].op = "create"  BY <2>1, <3>1, SoundIdle
    <3>2. CASE req[r].op = "email"  BY <2>1, <2>5, <3>2 DEF Sound, Drawn
    <3> QED  BY <2>1, <3>1, <3>2
  <2>7. row' # None => Drawn(row)'  BY <2>1, TypeParts DEF Drawn
  <2> QED  BY <2>1, <2>2, <2>3, <2>4, <2>6, <2>7, TypeParts, BaseMoves
<1>11. ASSUME NEW r \in Requests, Deprovision(r) PROVE BaseInv'
  <2>1. /\ req[r].pc = "deprovision"
        /\ \/ provisioned' = provisioned \ {req[r].read.alias} /\ UNCHANGED faults
           \/ UNCHANGED provisioned /\ faults' = faults + 1 /\ faults < MaxFaults
        /\ Moves(r, Idle)
        /\ UNCHANGED <<row, sendToken, callback, issued, replaced, lost, deleted, crossed,
                       ops>>
    BY <1>11, DeprovisionShape
  <2>2. issued \in Nat \ {0}  BY <2>1, Started
  <2>3. faults' \in 0 .. MaxFaults  BY <2>1, TypeParts, BoundsAssumption
  <2>4. provisioned' \subseteq 0 .. issued'  BY <2>1, TypeParts
  <2>5. /\ req' \in [Requests -> Request] /\ Sound(r)'
        /\ \A q \in Requests \ {r} : req'[q] = req[q]
    BY <2>1, SoundIdle DEF Moves
  <2>6. row' # None => Drawn(row)'  BY <2>1, TypeParts DEF Drawn
  <2> QED  BY <2>1, <2>2, <2>3, <2>4, <2>5, <2>6, TypeParts, BaseMoves
<1> QED
  BY <1>1, <1>2, <1>3, <1>4, <1>5, <1>6, <1>7, <1>8, <1>9, <1>10, <1>11, Steps

(***************************************************************************)
(* Type correctness, and what a request may hold: an endpoint that is      *)
(* about to write has read a whole row, whose token, code, secret and      *)
(* address were all drawn before; the request that goes to Exchange is     *)
(* one that created, re-addressed or deleted the application.              *)
(***************************************************************************)
THEOREM BaseCorrect == Spec => []BaseInv
BY BaseInit, BaseStep, PTL DEF Spec

-----------------------------------------------------------------------------
(* Replaced values *)

LEMMA CredentialsOf ==
    /\ row \in Row => Credentials = {row.token, row.code, row.secret, row.alias}
    /\ row' \in Row => Credentials' = {row'.token, row'.code, row'.secret, row'.alias}
    /\ row' = None => Credentials' = {}
BY NoneAssumption DEF Credentials

\* A step that leaves the row and what was replaced.
LEMMA ReplacedFrame ==
    ASSUME ReplacedInv, UNCHANGED <<row, replaced, lost, deleted>>
    PROVE  ReplacedInv'
BY DEF ReplacedInv, Distinct, Credentials

LEMMA ReplacedStep == BaseInv /\ ReplacedInv /\ [Next]_vars => ReplacedInv'
<1> SUFFICES ASSUME BaseInv, ReplacedInv, [Next]_vars PROVE ReplacedInv'
  OBVIOUS
<1>1. CASE Aside
  BY <1>1, AsideShape, ReplacedFrame
<1>2. ASSUME NEW r \in Requests, Create(r) PROVE ReplacedInv'
  <2>1. /\ issued' = 4 /\ issued = 0 /\ row' \in Row
        /\ row'.token = 1 /\ row'.code = 2 /\ row'.secret = 3 /\ row'.alias = 4
        /\ UNCHANGED <<replaced, lost, deleted>>
    BY <1>2, CreateShape
  <2>2. replaced' \subseteq 0 .. 0 /\ ~deleted  BY <2>1, TypeParts DEF BaseInv
  <2>3. Credentials' = {1, 2, 3, 4}  BY <2>1, CredentialsOf
  <2>4. Credentials' \cap replaced' = {}  BY <2>2, <2>3
  <2> QED  BY <2>1, <2>2, <2>4 DEF ReplacedInv, Distinct
<1>3. ASSUME NEW r \in Requests,
             \/ Crash(r) \/ SaveFails(r) \/ (\E t \in SendTokens : Issue(r, t))
             \/ (\E op \in Operations : Read(r, op)) \/ Provision(r) \/ Deprovision(r)
      PROVE  ReplacedInv'
  <2>1. UNCHANGED <<row, replaced, lost, deleted>>
    BY <1>3 DEF Crash, SaveFails, Issue, Read, Provision, Deprovision
  <2> QED  BY <2>1, ReplacedFrame
<1>4. ASSUME NEW r \in Requests,
             RegenerateToken(r) \/ RotateEnrolmentCode(r) \/ RotateWebhookSecret(r)
      PROVE  ReplacedInv'
  <2>1. /\ row \in Row /\ issued' = issued + 1 /\ row' # None /\ row'.alias = row.alias
        /\ \/ row'.token = issued' /\ replaced' = replaced \cup {row.token}
             /\ row'.code = row.code /\ row'.secret = row.secret
           \/ row'.code = issued' /\ replaced' = replaced \cup {row.code}
             /\ row'.token = row.token /\ row'.secret = row.secret
           \/ row'.secret = issued' /\ replaced' = replaced \cup {row.secret}
             /\ row'.token = row.token /\ row'.code = row.code
        /\ UNCHANGED <<lost, deleted>>
    BY <1>4, RotationShape DEF Redraws
  <2>2. row # None /\ row \in Row /\ Drawn(row) /\ issued \in Nat
    BY <2>1, NoneAssumption, TypeParts
  <2>3. row' \in Row
    <3>1. TypeOK'  BY BaseStep DEF BaseInv
    <3> QED  BY <2>1, <3>1 DEF TypeOK
  <2>4. /\ row.token \in Nat /\ row.code \in Nat /\ row.secret \in Nat /\ row.alias \in Nat
        /\ row.token <= issued /\ row.code <= issued /\ row.secret <= issued
        /\ row.alias <= issued
    BY <2>2 DEF Row, Drawn
  <2>5. replaced \subseteq 0 .. issued  BY TypeParts
  <2>6. SUFFICES ASSUME ~lost
        PROVE  Distinct(row)' /\ Credentials' \cap replaced' = {} /\ ~deleted
    BY <2>1 DEF ReplacedInv
  <2>7. Distinct(row) /\ Credentials \cap replaced = {} /\ ~deleted
    BY <2>2, <2>6 DEF ReplacedInv
  <2>8. /\ row.token \notin replaced /\ row.code \notin replaced
        /\ row.secret \notin replaced /\ row.alias \notin replaced
    BY <2>2, <2>7, CredentialsOf
  <2>9. issued' \notin replaced  BY <2>1, <2>2, <2>5
  <2>10. Distinct(row)'  BY <2>1, <2>2, <2>4, <2>7 DEF Distinct
  <2>11. /\ row'.token \notin replaced' /\ row'.code \notin replaced'
         /\ row'.secret \notin replaced' /\ row'.alias \notin replaced'
    BY <2>1, <2>2, <2>4, <2>7, <2>8, <2>9 DEF Distinct
  <2> QED  BY <2>3, <2>7, <2>10, <2>11, CredentialsOf
<1>5. ASSUME NEW r \in Requests, RevokeToken(r) \/ SetActive(r) PROVE ReplacedInv'
  <2>1. /\ row \in Row /\ Flags(row)
        /\ UNCHANGED <<replaced, lost, deleted>>
    BY <1>5, FlagShape
  <2>2. Credentials' = Credentials  BY <2>1, CredentialsOf DEF Flags
  <2>3. row # None /\ row' # None  BY <2>1, NoneAssumption DEF Flags
  <2>4. Distinct(row) => Distinct(row)'  BY <2>1 DEF Flags, Distinct
  <2> QED  BY <2>1, <2>2, <2>3, <2>4 DEF ReplacedInv
<1>6. ASSUME NEW r \in Requests, Patch(r) PROVE ReplacedInv'
  <2>1. /\ req[r].read \in Row /\ Flags(req[r].read)
        /\ ~lost' => ~lost /\ row = req[r].read
        /\ UNCHANGED <<replaced, deleted>>
    BY <1>6, PatchShape
  <2>2. SUFFICES ASSUME ~lost'
        PROVE  /\ row' # None => Distinct(row)'
               /\ Credentials' \cap replaced' = {}
               /\ deleted' => row' = None
    BY DEF ReplacedInv
  <2>3. ~lost /\ row \in Row /\ Flags(row)  BY <2>1, <2>2
  <2>4. Credentials' = Credentials  BY <2>3, CredentialsOf DEF Flags
  <2>5. row # None /\ row' # None  BY <2>3, NoneAssumption DEF Flags
  <2>6. Distinct(row) => Distinct(row)'  BY <2>3 DEF Flags, Distinct
  <2> QED  BY <2>1, <2>3, <2>4, <2>5, <2>6 DEF ReplacedInv
<1>7. ASSUME NEW r \in Requests, RegenerateInboundEmail(r) PROVE ReplacedInv'
  <2>1. /\ req[r].read \in Row /\ Drawn(req[r].read) /\ issued' = issued + 1
        /\ row' \in Row
        /\ row'.token = req[r].read.token /\ row'.code = req[r].read.code
        /\ row'.secret = req[r].read.secret /\ row'.alias = issued'
        /\ replaced' = replaced \cup {req[r].read.alias}
        /\ ~lost' => ~lost /\ row = req[r].read
        /\ UNCHANGED deleted
    BY <1>7, EmailShape DEF Redraws
  <2>2. SUFFICES ASSUME ~lost'
        PROVE  /\ row' # None => Distinct(row)'
               /\ Credentials' \cap replaced' = {}
               /\ deleted' => row' = None
    BY DEF ReplacedInv
  <2>3. ~lost /\ row = req[r].read /\ row \in Row /\ Drawn(row)  BY <2>1, <2>2
  <2>4. row # None  BY <2>3, NoneAssumption
  <2>5. Distinct(row) /\ Credentials \cap replaced = {} /\ ~deleted
    BY <2>3, <2>4 DEF ReplacedInv
  <2>6. /\ row.token \in Nat /\ row.code \in Nat /\ row.secret \in Nat /\ row.alias \in Nat
        /\ row.token <= issued /\ row.code <= issued /\ row.secret <= issued
        /\ row.alias <= issued
    BY <2>3 DEF Row, Drawn
  <2>7. replaced \subseteq 0 .. issued /\ issued \in Nat  BY TypeParts
  <2>8. /\ row.token \notin replaced /\ row.code \notin replaced
        /\ row.secret \notin replaced /\ row.alias \notin replaced
    BY <2>3, <2>5, CredentialsOf
  <2>9. issued' \notin replaced  BY <2>1, <2>7
  <2>10. Distinct(row)'  BY <2>1, <2>3, <2>5, <2>6, <2>7 DEF Distinct
  <2>11. /\ row'.token \notin replaced' /\ row'.code \notin replaced'
         /\ row'.secret \notin replaced' /\ row'.alias \notin replaced'
    BY <2>1, <2>3, <2>5, <2>6, <2>7, <2>8, <2>9 DEF Distinct
  <2> QED  BY <2>1, <2>5, <2>10, <2>11, CredentialsOf
<1>8. ASSUME NEW r \in Requests, Delete(r) PROVE ReplacedInv'
  <2>1. row' = None  BY <1>8, DeleteShape
  <2> QED  BY <2>1, CredentialsOf DEF ReplacedInv
<1> QED  BY <1>1, <1>2, <1>3, <1>4, <1>5, <1>6, <1>7, <1>8, Steps

LEMMA ReplacedInit == Init => ReplacedInv
BY DEF Init, ReplacedInv, Credentials

(***************************************************************************)
(* A token, an enrolment code, a webhook secret or an address that was     *)
(* replaced never comes back, and a deleted application stays deleted,     *)
(* unless a PATCH or a new address saved a whole row over changes it had   *)
(* not read.  The invariant adds that the four values of the row are       *)
(* different: without it a rotation of one could retire another.           *)
(***************************************************************************)
THEOREM ReplacedCorrect == Spec => []ReplacedStaysReplaced
<1>1. BaseInv /\ ReplacedInv /\ [Next]_vars => ReplacedInv'  BY ReplacedStep
<1>2. ReplacedInv => ReplacedStaysReplaced  BY DEF ReplacedInv, ReplacedStaysReplaced
<1> QED  BY <1>1, <1>2, ReplacedInit, BaseCorrect, PTL DEF Spec

-----------------------------------------------------------------------------
(* Send tokens *)

Live == {t \in SendTokens : sendToken[t] = "active"}
Issuing == {r \in Requests : Writes(r, "issue")}

LEMMA Counts ==
    /\ IsFiniteSet(Live) /\ Cardinality(Live) \in Nat
    /\ IsFiniteSet(Live') /\ Cardinality(Live') \in Nat
    /\ IsFiniteSet(Issuing) /\ Cardinality(Issuing) \in Nat
    /\ IsFiniteSet(Issuing') /\ Cardinality(Issuing') \in Nat
    /\ Cardinality(Requests) \in Nat
    /\ Cardinality(Issuing) <= Cardinality(Requests)
    /\ Cardinality(Issuing') <= Cardinality(Requests)
<1>1. Live \subseteq SendTokens /\ Live' \subseteq SendTokens  BY DEF Live
<1>2. Issuing \subseteq Requests /\ Issuing' \subseteq Requests  BY DEF Issuing
<1>3. IsFiniteSet(Live) /\ IsFiniteSet(Live')  BY <1>1, FiniteAssumption, FS_Subset
<1>4. IsFiniteSet(Issuing) /\ IsFiniteSet(Issuing')  BY <1>2, FiniteAssumption, FS_Subset
<1>5. /\ Cardinality(Issuing) <= Cardinality(Requests)
      /\ Cardinality(Issuing') <= Cardinality(Requests)
  BY <1>2, FiniteAssumption, FS_Subset
<1>6. Cardinality(Requests) \in Nat  BY FiniteAssumption, FS_CardinalityType
<1>7. /\ Cardinality(Live) \in Nat /\ Cardinality(Live') \in Nat
      /\ Cardinality(Issuing) \in Nat /\ Cardinality(Issuing') \in Nat
  BY <1>3, <1>4, FS_CardinalityType
<1> QED  BY <1>3, <1>4, <1>5, <1>6, <1>7

\* Fewer tokens and fewer requests that count.
LEMMA Fewer ==
    ASSUME SendTokensBounded, Live' \subseteq Live, Issuing' \subseteq Issuing
    PROVE  SendTokensBounded'
<1>1. Cardinality(Live') <= Cardinality(Live) /\ Cardinality(Issuing') <= Cardinality(Issuing)
  BY Counts, FS_Subset
<1> QED
  BY <1>1, Counts, SettingsAssumption DEF SendTokensBounded, Live, Issuing

\* A request that is not about to issue a token.
LEMMA NotIssuing ==
    ASSUME NEW r \in Requests, req'[r].pc # "write" \/ req'[r].op # "issue",
           \A q \in Requests \ {r} : req'[q] = req[q]
    PROVE  Issuing' \subseteq Issuing
BY DEF Issuing, Writes

LEMMA TokensStep == BaseInv /\ SendTokensBounded /\ [Next]_vars => SendTokensBounded'
<1> SUFFICES ASSUME BaseInv, SendTokensBounded, [Next]_vars PROVE SendTokensBounded'
  OBVIOUS
<1>0. Idle.pc # "write"  BY DEF Idle
<1>1. CASE Aside
  <2>1. Issuing' = Issuing  BY <1>1, AsideShape DEF Issuing, Writes
  <2>2. Live' \subseteq Live
    <3>1. CASE UNCHANGED vars  BY <3>1 DEF vars, Live
    <3>2. ASSUME NEW t \in SendTokens, RevokeSendToken(t) PROVE Live' \subseteq Live
      <4>1. sendToken' = [sendToken EXCEPT ![t] = "revoked"]  BY <3>2 DEF RevokeSendToken
      <4> QED  BY <4>1, TypeParts DEF Live
    <3>3. ASSUME NEW c \in Callbacks,
                 Enqueue(c) \/ CallbackStep(c) \/ RunUnsafe(c) \/ CallbackLost(c)
          PROVE  Live' \subseteq Live
      <4>1. sendToken' = sendToken
        BY <3>3 DEF Enqueue, CallbackStep, Run, Post, PostFails, RunUnsafe, CallbackLost,
                    CallbackFrame
      <4> QED  BY <4>1 DEF Live
    <3> QED  BY <1>1, <3>1, <3>2, <3>3 DEF Aside
  <2> QED  BY <2>1, <2>2, Fewer
<1>2. ASSUME NEW r \in Requests,
             \/ Crash(r) \/ SaveFails(r) \/ RegenerateToken(r) \/ RotateEnrolmentCode(r)
             \/ RotateWebhookSecret(r) \/ RevokeToken(r) \/ SetActive(r) \/ Patch(r)
             \/ Deprovision(r)
      PROVE  SendTokensBounded'
  <2>1. End(r) /\ sendToken' = sendToken
    BY <1>2 DEF Crash, SaveFails, RegenerateToken, RotateEnrolmentCode, RotateWebhookSecret,
                RevokeToken, SetActive, Patch, Deprovision, SaveFields
  <2>2. Moves(r, Idle)  BY <2>1, EndMoves DEF BaseInv
  <2>3. Issuing' \subseteq Issuing  BY <1>0, <2>2, NotIssuing DEF Moves
  <2>4. Live' \subseteq Live  BY <2>1 DEF Live
  <2> QED  BY <2>3, <2>4, Fewer
<1>3. ASSUME NEW r \in Requests, Create(r) \/ RegenerateInboundEmail(r) \/ Provision(r)
      PROVE  SendTokensBounded'
  <2>1. /\ sendToken' = sendToken /\ \A q \in Requests \ {r} : req'[q] = req[q]
        /\ req'[r].pc # "write"
    <3>1. CASE Create(r)  BY <3>1, CreateShape
    <3>2. CASE RegenerateInboundEmail(r)  BY <3>2, EmailShape
    <3>3. CASE Provision(r)  BY <1>0, <3>3, ProvisionShape
    <3> QED  BY <1>3, <3>1, <3>2, <3>3
  <2>2. Issuing' \subseteq Issuing  BY <2>1, NotIssuing
  <2>3. Live' \subseteq Live  BY <2>1 DEF Live
  <2> QED  BY <2>2, <2>3, Fewer
<1>4. ASSUME NEW r \in Requests, Delete(r) PROVE SendTokensBounded'
  <2>1. /\ sendToken' = [t \in SendTokens |-> "none"]
        /\ \A q \in Requests \ {r} : req'[q] = req[q]
        /\ req'[r].pc # "write"
    BY <1>4, DeleteShape
  <2>2. Issuing' \subseteq Issuing  BY <2>1, NotIssuing
  <2>3. Live' \subseteq Live  BY <2>1 DEF Live
  <2> QED  BY <2>2, <2>3, Fewer
<1>5. ASSUME NEW r \in Requests, NEW op \in Operations, Read(r, op) PROVE SendTokensBounded'
  <2> DEFINE new == [pc |-> "write", op |-> op, read |-> row, alias |-> None]
  <2>1. /\ Moves(r, new) /\ sendToken' = sendToken
        /\ op = "issue" => Cardinality(Live) < MaxSendTokens
    BY <1>5, ReadShape DEF Live
  <2>2. Live' = Live  BY <2>1 DEF Live
  <2>3. new.op = op  OBVIOUS
  <2>4. CASE op = "issue"
    <3>1. Cardinality(Live') < MaxSendTokens  BY <2>1, <2>2, <2>4
    <3> QED  BY <3>1, Counts, SettingsAssumption DEF SendTokensBounded, Live, Issuing
  <2>5. CASE op # "issue"
    <3>1. Issuing' \subseteq Issuing  BY <2>1, <2>3, <2>5, NotIssuing DEF Moves
    <3> QED  BY <2>2, <3>1, Fewer
  <2> QED  BY <2>4, <2>5
<1>6. ASSUME NEW r \in Requests, NEW t \in SendTokens, Issue(r, t) PROVE SendTokensBounded'
  <2>1. /\ Writes(r, "issue") /\ sendToken[t] = "none" /\ End(r)
        /\ sendToken' = [sendToken EXCEPT ![t] = "active"]
    BY <1>6 DEF Issue
  <2>2. Moves(r, Idle)  BY <2>1, EndMoves DEF BaseInv
  <2>3. Live' = Live \cup {t} /\ t \notin Live  BY <2>1, TypeParts DEF Live
  <2>4. Issuing' = Issuing \ {r} /\ r \in Issuing
    BY <1>0, <2>1, <2>2 DEF Moves, Issuing, Writes
  <2>5. Cardinality(Live') = Cardinality(Live) + 1  BY <2>3, Counts, FS_AddElement
  <2>6. Cardinality(Issuing') = Cardinality(Issuing) - 1  BY <2>4, Counts, FS_RemoveElement
  <2> QED
    BY <2>5, <2>6, Counts, SettingsAssumption DEF SendTokensBounded, Live, Issuing
<1> QED  BY <1>1, <1>2, <1>3, <1>4, <1>5, <1>6, Steps

LEMMA TokensInit == Init => SendTokensBounded
<1> SUFFICES ASSUME Init PROVE SendTokensBounded
  OBVIOUS
<1>1. Live = {} /\ Issuing = {}  BY DEF Init, Live, Issuing, Writes, Idle
<1>2. Cardinality(Live) = 0 /\ Cardinality(Issuing) = 0  BY <1>1, FS_EmptySet
<1> QED  BY <1>2, Counts, SettingsAssumption DEF SendTokensBounded, Live, Issuing

(***************************************************************************)
(* The cap on the active send tokens, which is counted before the new one  *)
(* is written, is overrun by at most the other requests that counted at    *)
(* the same time.  The requests that have counted and not yet written are  *)
(* part of the sum, which makes it inductive.                              *)
(***************************************************************************)
THEOREM SendTokensCorrect == Spec => []SendTokensBounded
BY TokensInit, TokensStep, BaseCorrect, PTL DEF Spec

-----------------------------------------------------------------------------
(* Addresses *)

LEMMA SmoothBefore ==
    ASSUME BaseInv, [Next]_vars, Smooth'
    PROVE  Smooth
<1>1. faults \in Nat  BY TypeParts, BoundsAssumption
<1>2. CASE Aside
  BY <1>1, <1>2, AsideShape DEF Smooth
<1>3. ASSUME NEW r \in Requests,
             \/ Create(r) \/ Crash(r) \/ (\E op \in Operations : Read(r, op))
             \/ RegenerateToken(r) \/ RotateEnrolmentCode(r) \/ RotateWebhookSecret(r)
             \/ RevokeToken(r) \/ SetActive(r) \/ SaveFails(r)
             \/ (\E t \in SendTokens : Issue(r, t)) \/ Provision(r) \/ Deprovision(r)
      PROVE  Smooth
  <2>1. UNCHANGED <<lost, crossed>> /\ (faults' = faults \/ faults' = faults + 1)
    BY <1>3 DEF Create, Crash, Read, RegenerateToken, RotateEnrolmentCode,
                RotateWebhookSecret, RevokeToken, SetActive, SaveFails, Issue, Provision,
                Deprovision, SaveFields, Exchange, Fault
  <2> QED  BY <1>1, <2>1 DEF Smooth
<1>4. ASSUME NEW r \in Requests, Patch(r) PROVE Smooth
  <2>1. ~lost  BY <1>4, PatchShape DEF Smooth
  <2>2. UNCHANGED <<crossed, faults>>  BY <1>4 DEF Patch
  <2> QED  BY <2>1, <2>2 DEF Smooth
<1>5. ASSUME NEW r \in Requests, RegenerateInboundEmail(r) PROVE Smooth
  <2>1. ~lost /\ ~crossed  BY <1>5, EmailShape DEF Smooth
  <2>2. UNCHANGED faults  BY <1>5 DEF RegenerateInboundEmail
  <2> QED  BY <2>1, <2>2 DEF Smooth
<1>6. ASSUME NEW r \in Requests, Delete(r) PROVE Smooth
  <2>1. ~crossed  BY <1>6, DeleteShape DEF Smooth
  <2>2. UNCHANGED <<lost, faults>>  BY <1>6 DEF Delete
  <2> QED  BY <2>1, <2>2 DEF Smooth
<1> QED  BY <1>2, <1>3, <1>4, <1>5, <1>6, Steps

\* A request that neither goes to Exchange nor comes from it, and leaves the address.
LEMMA TidyFrame ==
    ASSUME Tidy, NEW r \in Requests, ~Busy(r), req'[r].pc \in {"idle", "write"},
           req'[r].pc = "write" /\ req'[r].op \in {"email", "delete"}
               => row' # None /\ req'[r].read.alias = row'.alias,
           \A q \in Requests \ {r} : req'[q] = req[q],
           provisioned' = provisioned,
           row' = None <=> row = None, row # None => row'.alias = row.alias
    PROVE  Tidy'
<1>1. ~Busy(r)'  BY DEF Busy
<1>2. \A q \in Requests \ {r} : Busy(q)' <=> Busy(q)  BY DEF Busy
<1>3. \A q \in Requests : Busy(q)' => q # r /\ Busy(q)  BY <1>1, <1>2
<1>4. \A p, q \in Requests : Busy(p)' /\ Busy(q)' => p = q  BY <1>3 DEF Tidy
<1>5. ASSUME NEW q \in Requests, Busy(q)' PROVE Mailbox(q)'
  <2>1. q # r /\ Busy(q)  BY <1>3, <1>5
  <2>2. Mailbox(q) /\ req'[q] = req[q]  BY <2>1 DEF Tidy
  <2> QED  BY <2>2 DEF Mailbox
<1>6. ASSUME NEW q \in Requests, req'[q].pc = "write", req'[q].op \in {"email", "delete"}
      PROVE  row' # None /\ req'[q].read.alias = row'.alias
  <2>1. CASE q = r  BY <1>6, <2>1
  <2>2. CASE q # r
    <3>1. req'[q] = req[q]  BY <2>2
    <3> QED  BY <1>6, <3>1 DEF Tidy
  <2> QED  BY <2>1, <2>2
<1>7. (\A q \in Requests : ~Busy(q)') =>
          provisioned' = IF row' = None THEN {} ELSE {row'.alias}
  <2>1. SUFFICES ASSUME \A q \in Requests : ~Busy(q)'
        PROVE  provisioned' = IF row' = None THEN {} ELSE {row'.alias}
    OBVIOUS
  <2>2. \A q \in Requests : ~Busy(q)  BY <1>2, <2>1
  <2> QED  BY <2>2 DEF Tidy
<1> QED  BY <1>4, <1>5, <1>6, <1>7 DEF Tidy

LEMMA AliasStep == BaseInv /\ AliasInv /\ [Next]_vars => AliasInv'
<1> SUFFICES ASSUME BaseInv, AliasInv, [Next]_vars, Smooth', issued' > 0 PROVE Tidy'
  BY DEF AliasInv
<1>0. /\ issued \in Nat /\ Smooth /\ Idle.pc = "idle"
      /\ issued # 0 => Tidy
  <2>1. issued \in Nat /\ Smooth  BY TypeParts, SmoothBefore
  <2>2. issued # 0 => Tidy  BY <2>1 DEF AliasInv
  <2> QED  BY <2>1, <2>2 DEF Idle
<1>1. CASE Aside
  <2>1. UNCHANGED <<row, provisioned, req, issued>>  BY <1>1, AsideShape
  <2>2. Tidy  BY <1>0, <2>1
  <2> QED  BY <2>1, <2>2 DEF Tidy, Busy, Mailbox
<1>2. ASSUME NEW r \in Requests, Create(r) PROVE Tidy'
  <2>1. /\ issued = 0 /\ row' \in Row /\ row'.alias = 4
        /\ req'[r].pc = "provision" /\ req'[r].op = "create" /\ req'[r].alias = 4
        /\ \A q \in Requests \ {r} : req'[q] = req[q]
        /\ UNCHANGED provisioned
    BY <1>2, CreateShape
  <2>2. provisioned' = {} /\ \A q \in Requests \ {r} : req'[q] = Idle
    BY <2>1 DEF BaseInv
  <2>3. \A q \in Requests : req'[q].pc # "idle" <=> q = r  BY <1>0, <2>1, <2>2
  <2>4. row' # None  BY <2>1, NoneAssumption
  <2>5. Busy(r)' /\ \A q \in Requests : Busy(q)' => q = r
    BY <2>1, <2>3 DEF Busy
  <2>6. Mailbox(r)'  BY <2>1, <2>2, <2>4 DEF Mailbox
  <2>7. \A q \in Requests : req'[q].pc # "write"  BY <2>1, <2>3
  <2> QED  BY <2>5, <2>6, <2>7 DEF Tidy
<1>3. ASSUME NEW r \in Requests, Crash(r) PROVE Tidy'
  <2>1. faults' = faults + 1  BY <1>3, CrashShape
  <2> QED  BY <1>0, <2>1 DEF Smooth
<1>4. ASSUME NEW r \in Requests, NEW op \in Operations, Read(r, op) PROVE Tidy'
  <2> DEFINE new == [pc |-> "write", op |-> op, read |-> row, alias |-> None]
  <2>1. /\ row \in Row /\ req[r] = Idle /\ Moves(r, new)
        /\ UNCHANGED <<row, provisioned, issued>>
    BY <1>4, ReadShape
  <2>2. row # None  BY <2>1, NoneAssumption
  <2>3. req'[r] = new /\ \A q \in Requests \ {r} : req'[q] = req[q]  BY <2>1 DEF Moves
  <2>4. Tidy /\ ~Busy(r)  BY <1>0, <2>1 DEF Busy
  <2>5. req'[r].pc = "write" /\ req'[r].read = row  BY <2>3
  <2> QED  BY <2>1, <2>2, <2>3, <2>4, <2>5, TidyFrame
<1>5. ASSUME NEW r \in Requests,
             \/ RegenerateToken(r) \/ RotateEnrolmentCode(r) \/ RotateWebhookSecret(r)
             \/ RevokeToken(r) \/ SetActive(r) \/ SaveFails(r)
             \/ (\E t \in SendTokens : Issue(r, t)) \/ Patch(r)
      PROVE  Tidy'
  <2>1. /\ req[r].pc = "write" /\ Moves(r, Idle) /\ UNCHANGED provisioned
        /\ row' = None <=> row = None
        /\ row # None => row'.alias = row.alias
    <3>1. CASE RegenerateToken(r) \/ RotateEnrolmentCode(r) \/ RotateWebhookSecret(r)
      BY <3>1, RotationShape, NoneAssumption
    <3>2. CASE RevokeToken(r) \/ SetActive(r)
      BY <3>2, FlagShape, NoneAssumption DEF Flags
    <3>3. CASE SaveFails(r) \/ \E t \in SendTokens : Issue(r, t)
      BY <3>3, IssueShape
    <3>4. CASE Patch(r)
      <4>1. /\ req[r].pc = "write" /\ Moves(r, Idle) /\ UNCHANGED provisioned
            /\ Flags(req[r].read) /\ req[r].read \in Row
            /\ ~lost' => row = req[r].read
        BY <3>4, PatchShape
      <4>2. row = req[r].read  BY <4>1 DEF Smooth
      <4> QED  BY <4>1, <4>2, NoneAssumption DEF Flags
    <3> QED  BY <1>5, <3>1, <3>2, <3>3, <3>4
  <2>2. req'[r] = Idle /\ \A q \in Requests \ {r} : req'[q] = req[q]  BY <2>1 DEF Moves
  <2>3. ~Busy(r)  BY <2>1 DEF Busy
  <2>4. Tidy  BY <1>0, <2>1, Started
  <2> QED  BY <1>0, <2>1, <2>2, <2>3, <2>4, TidyFrame
<1>6. ASSUME NEW r \in Requests, ~OthersOnAlias(r), req[r].pc = "write"
      PROVE  /\ \A q \in Requests : ~Busy(q)
             /\ \A q \in Requests \ {r} : req[q].op \notin {"create", "email", "delete"}
  <2>1. \A q \in Requests \ {r} : req[q].op \notin {"create", "email", "delete"}
    BY <1>6 DEF OthersOnAlias
  <2>2. ASSUME NEW q \in Requests, Busy(q) PROVE FALSE
    <3>1. q # r  BY <1>6, <2>2 DEF Busy
    <3>2. Sound(q)  BY DEF BaseInv
    <3>3. req[q].op \in {"create", "email", "delete"}  BY <2>2, <3>2 DEF Busy, Sound
    <3> QED  BY <2>1, <3>1, <3>3
  <2> QED  BY <2>1, <2>2
<1>7. ASSUME NEW r \in Requests, RegenerateInboundEmail(r) PROVE Tidy'
  <2>1. /\ req[r].pc = "write" /\ req[r].read \in Row /\ Drawn(req[r].read)
        /\ issued' = issued + 1
        /\ row' \in Row /\ row'.alias = issued'
        /\ row = req[r].read /\ ~OthersOnAlias(r)
        /\ req'[r].pc = "provision" /\ req'[r].op = "email"
        /\ req'[r].read = req[r].read /\ req'[r].alias = issued'
        /\ \A q \in Requests \ {r} : req'[q] = req[q]
        /\ UNCHANGED provisioned
    BY <1>7, EmailShape DEF Redraws, Smooth
  <2>2. /\ \A q \in Requests : ~Busy(q)
        /\ \A q \in Requests \ {r} : req[q].op \notin {"create", "email", "delete"}
    BY <1>6, <2>1
  <2>3. Tidy  BY <1>0, <2>1, Started
  <2>4. row # None /\ row' # None  BY <2>1, NoneAssumption
  <2>5. provisioned' = {req'[r].read.alias}  BY <2>1, <2>2, <2>3, <2>4 DEF Tidy
  <2>6. req'[r].read.alias # row'.alias  BY <1>0, <2>1 DEF Drawn, Row
  <2>7. \A q \in Requests : Busy(q)' => q = r  BY <2>1, <2>2 DEF Busy
  <2>8. Mailbox(r)' /\ Busy(r)'  BY <2>1, <2>4, <2>5, <2>6 DEF Mailbox, Busy
  <2>9. \A q \in Requests : req'[q].pc = "write" => req'[q].op \notin {"email", "delete"}
    BY <2>1, <2>2
  <2> QED  BY <2>7, <2>8, <2>9 DEF Tidy
<1>8. ASSUME NEW r \in Requests, Delete(r) PROVE Tidy'
  <2>1. /\ req[r].pc = "write" /\ req[r].op = "delete" /\ row' = None /\ ~OthersOnAlias(r)
        /\ req'[r].pc = "deprovision" /\ req'[r].op = "delete"
        /\ req'[r].read = req[r].read
        /\ \A q \in Requests \ {r} : req'[q] = req[q]
        /\ UNCHANGED provisioned
    BY <1>8, DeleteShape DEF Smooth
  <2>2. /\ \A q \in Requests : ~Busy(q)
        /\ \A q \in Requests \ {r} : req[q].op \notin {"create", "email", "delete"}
    BY <1>6, <2>1
  <2>3. Tidy  BY <1>0, <2>1, Started
  <2>4. row # None /\ req[r].read.alias = row.alias  BY <2>1, <2>3 DEF Tidy
  <2>5. provisioned' = {req'[r].read.alias}  BY <2>1, <2>2, <2>3, <2>4 DEF Tidy
  <2>6. \A q \in Requests : Busy(q)' => q = r  BY <2>1, <2>2 DEF Busy
  <2>7. Mailbox(r)' /\ Busy(r)'  BY <2>1, <2>5 DEF Mailbox, Busy
  <2>8. \A q \in Requests : req'[q].pc = "write" => req'[q].op \notin {"email", "delete"}
    BY <2>1, <2>2
  <2> QED  BY <2>6, <2>7, <2>8 DEF Tidy
<1>9. ASSUME NEW r \in Requests, Provision(r) PROVE Tidy'
  <2>1. /\ req[r].pc = "provision" /\ req[r].op \in {"create", "email"}
        /\ provisioned' = provisioned \cup {req[r].alias}
        /\ \A q \in Requests \ {r} : req'[q] = req[q]
        /\ req[r].op = "create" => req'[r] = Idle
        /\ req[r].op = "email" => /\ req'[r].pc = "deprovision" /\ req'[r].op = "email"
                                  /\ req'[r].read = req[r].read
        /\ UNCHANGED row
    BY <1>0, <1>9, ProvisionShape DEF Smooth
  <2>2. Tidy  BY <1>0, <2>1, Started
  <2>3. Busy(r) /\ Mailbox(r)  BY <2>1, <2>2 DEF Tidy, Busy
  <2>4. \A q \in Requests : Busy(q) => q = r  BY <2>2, <2>3 DEF Tidy
  <2>5. \A q \in Requests : Busy(q)' => q = r  BY <2>1, <2>4 DEF Busy
  <2>6. \A q \in Requests : req'[q].pc = "write" => q # r /\ req'[q] = req[q]
    BY <1>0, <2>1
  <2>7. \A q \in Requests : req'[q].pc = "write" /\ req'[q].op \in {"email", "delete"}
          => row' # None /\ req'[q].read.alias = row'.alias
    BY <2>1, <2>2, <2>6 DEF Tidy
  <2>8. CASE req[r].op = "create"
    <3>1. row # None /\ provisioned' = {row'.alias}  BY <2>1, <2>3, <2>8 DEF Mailbox
    <3>2. ~Busy(r)'  BY <1>0, <2>1, <2>8 DEF Busy
    <3> QED  BY <2>1, <2>5, <2>7, <3>1, <3>2 DEF Tidy
  <2>9. CASE req[r].op = "email"
    <3>1. /\ row # None /\ req[r].read.alias # row.alias
          /\ provisioned' = {req[r].read.alias, row.alias}
      BY <2>1, <2>3, <2>9 DEF Mailbox
    <3>2. Busy(r)' /\ Mailbox(r)'  BY <2>1, <2>9, <3>1 DEF Busy, Mailbox
    <3> QED  BY <2>5, <2>7, <3>2 DEF Tidy
  <2> QED  BY <2>1, <2>8, <2>9
<1>10. ASSUME NEW r \in Requests, Deprovision(r) PROVE Tidy'
  <2>1. /\ req[r].pc = "deprovision" /\ req[r].op \in {"email", "delete"}
        /\ provisioned' = provisioned \ {req[r].read.alias}
        /\ req'[r] = Idle /\ \A q \in Requests \ {r} : req'[q] = req[q]
        /\ UNCHANGED row
    BY <1>0, <1>10, DeprovisionShape DEF Smooth, Moves
  <2>2. Tidy  BY <1>0, <2>1, Started
  <2>3. Busy(r) /\ Mailbox(r)  BY <2>1, <2>2 DEF Tidy, Busy
  <2>4. \A q \in Requests : Busy(q) => q = r  BY <2>2, <2>3 DEF Tidy
  <2>5. \A q \in Requests : ~Busy(q)'  BY <1>0, <2>1, <2>4 DEF Busy
  <2>6. \A q \in Requests : req'[q].pc = "write" => q # r /\ req'[q] = req[q]
    BY <1>0, <2>1
  <2>7. \A q \in Requests : req'[q].pc = "write" /\ req'[q].op \in {"email", "delete"}
          => row' # None /\ req'[q].read.alias = row'.alias
    BY <2>1, <2>2, <2>6 DEF Tidy
  <2>8. provisioned' = IF row' = None THEN {} ELSE {row'.alias}
    BY <2>1, <2>3 DEF Mailbox
  <2> QED  BY <2>5, <2>7, <2>8 DEF Tidy
<1> QED
  BY <1>1, <1>2, <1>3, <1>4, <1>5, <1>7, <1>8, <1>9, <1>10, Steps

LEMMA AliasInit == Init => AliasInv
BY DEF Init, AliasInv

(***************************************************************************)
(* When no request is under way, the shared mailbox has the address of the *)
(* application and no other, unless Exchange or the web process failed, a  *)
(* whole row was saved over newer values or two requests that change the   *)
(* address overlapped.  The invariant follows the one request that is on   *)
(* its way to Exchange: which addresses are there, and that the next       *)
(* request to change it has read the address the row still has.            *)
(***************************************************************************)
THEOREM AliasCorrect == Spec => []AliasIsServed
<1>1. BaseInv /\ AliasInv => AliasIsServed
  <2> SUFFICES ASSUME BaseInv, AliasInv, \A r \in Requests : req[r] = Idle,
                      faults = 0, ~lost, ~crossed, issued > 0
               PROVE  provisioned = IF row = None THEN {} ELSE {row.alias}
    BY DEF AliasIsServed
  <2>1. \A r \in Requests : ~Busy(r)  BY DEF Busy, Idle
  <2> QED  BY <2>1 DEF AliasInv, Smooth, Tidy
<1> QED  BY <1>1, AliasInit, AliasStep, BaseCorrect, PTL DEF Spec
=============================================================================
