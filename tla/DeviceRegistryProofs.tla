------------------------ MODULE DeviceRegistryProofs ------------------------
(***************************************************************************)
(* Theorems about DeviceRegistry, for any number of devices, users, tokens,*)
(* applications and requests.                                              *)
(***************************************************************************)
EXTENDS DeviceRegistry, TLAPS

-----------------------------------------------------------------------------
(* The invariant *)

\* A rotation has locked the row it rotates, a merge the row it will delete, too.
Rotating == {"clash", "rotate", "target_links", "source_links", "merge"}
Merging == {"target_links", "source_links", "merge"}
Upserting == Rotating \cup {"previous", "select", "insert", "reselect"}

\* What a request has by the step it is at.
Shape(q) ==
    /\ q.step \in Upserting => /\ q.token \in Tokens
                               /\ q.op = "link" => q.app \in Apps
    /\ q.step = "previous" => q.previous \in Tokens /\ q.previous # q.token
    /\ q.step = "link" => q.dev \in DeviceIds /\ q.app \in Apps
    /\ q.step = "relink" => q.pk \in LinkIds
    /\ q.step \in {"unlink", "evict"} => q.pk \in LinkIds /\ q.source # ""
    /\ q.step = "patch" => q.dev \in DeviceIds /\ q.copy \in Device /\ "patch" \in Operations
    /\ q.step = "delete" => q.dev \in DeviceIds

\* The links of what application_links.all() returned.
Keys(seen) == {x[1] : x \in seen}

\* What a rotation found under its locks is still so: the two rows are there,
\* of that owner and with these tokens, and have the links that were loaded
\* (active or not, for that is not locked).
Holds(r) ==
    LET q == req[r] IN
    /\ q.step \in Rotating =>
          /\ q.old \in DeviceIds /\ lock[q.old] = r /\ device[q.old] # None
          /\ device[q.old].user = q.user /\ device[q.old].token # q.token
    /\ q.step \in Merging =>
          /\ q.dev \in DeviceIds /\ lock[q.dev] = r /\ device[q.dev] # None
          /\ device[q.dev].user \in {NoUser, q.user} /\ device[q.dev].token = q.token
    /\ q.step \in {"source_links", "merge"} => Keys(q.target_links) = LinksOf(q.old)
    /\ q.step = "merge" => Keys(q.source_links) = LinksOf(q.dev)
    /\ q.step = "patch" => q.dev \in used

\* A link is on a device that is there, and one that is deleted is not active.
Home ==
    \A p \in LinkIds : /\ link[p].device # None => device[link[p].device] # None
                       /\ link[p].device = None => ~link[p].active

RegistryInv ==
    /\ TypeOK
    /\ \A r \in Requests : Shape(req[r])
    /\ \A r \in Requests : Holds(r)
    /\ Home
    /\ OneLinkPerPair
    /\ AuditMatches

\* What a merge has loaded as active was enrolled by the user of the merge.
LoadedFollowOwner ==
    \A r \in Requests : req[r].step = "merge" =>
        \A x \in req[r].source_links : x[2] =>
            enroller[x[1]].user \in {NoUser, req[r].user} \/ enroller[x[1]].late

OwnerInv == LinksFollowOwner /\ LoadedFollowOwner

-----------------------------------------------------------------------------
(* What the steps have in common *)

\* A step of request r leaves the rows that others have locked, and which links
\* they have, as they are.
Respects(r) ==
    /\ used \subseteq used'
    /\ \A d \in DeviceIds : lock[d] \notin {None, r} /\ device[d] # None =>
          /\ lock'[d] = lock[d] /\ device'[d] = device[d]
          /\ \A p \in LinkIds : link'[p].device = d <=> link[p].device = d

LEMMA Markers ==
    /\ None \notin DeviceIds /\ None \notin Tokens /\ None \notin Apps
    /\ None \notin Requests /\ None \notin Device /\ None \notin LinkIds
BY RegistryAssumption

LEMMA IdleType == Idle \in Request /\ Idle.step = "idle"
<1>1. /\ "idle" \in Steps /\ "" \in UnlinkSource /\ {} \in Seen /\ NoUser \in Owners
  BY DEF Steps, UnlinkSource, Seen, Owners
<1> QED  BY <1>1 DEF Idle, Request

\* The frame of the other requests.
LEMMA HoldsOthers ==
    ASSUME NEW r, Respects(r), NEW s \in Requests, s # r, req'[s] = req[s], Holds(s)
    PROVE  Holds(s)'
<1> DEFINE q == req[s]
<1>1. s # None  BY Markers
<1>2. ASSUME NEW d \in DeviceIds, lock[d] = s, device[d] # None
      PROVE  lock'[d] = s /\ device'[d] = device[d] /\ LinksOf(d)' = LinksOf(d)
  <2>1. /\ lock'[d] = lock[d] /\ device'[d] = device[d]
        /\ \A p \in LinkIds : link'[p].device = d <=> link[p].device = d
    BY <1>1, <1>2 DEF Respects
  <2> QED  BY <1>2, <2>1 DEF LinksOf
<1>3. (q.step \in Rotating =>
         /\ q.old \in DeviceIds /\ lock'[q.old] = s /\ device'[q.old] # None
         /\ device'[q.old].user = q.user /\ device'[q.old].token # q.token)
  BY <1>2 DEF Holds
<1>4. (q.step \in Merging =>
         /\ q.dev \in DeviceIds /\ lock'[q.dev] = s /\ device'[q.dev] # None
         /\ device'[q.dev].user \in {NoUser, q.user} /\ device'[q.dev].token = q.token)
  BY <1>2 DEF Holds
<1>5. (q.step \in {"source_links", "merge"} =>
         Keys(q.target_links) = {p \in LinkIds : link'[p].device = q.old})
  BY <1>2 DEF Holds, Rotating, Merging, LinksOf
<1>6. (q.step = "merge" => Keys(q.source_links) = {p \in LinkIds : link'[p].device = q.dev})
  BY <1>2 DEF Holds, Rotating, Merging, LinksOf
<1>7. (q.step = "patch" => q.dev \in used')  BY DEF Holds, Respects
<1> HIDE DEF q
<1>8. req'[s] = q  BY DEF q
<1> QED  BY <1>3, <1>4, <1>5, <1>6, <1>7, <1>8 DEF Holds, LinksOf, Keys

\* A request that has neither locks nor loaded links to rely on.
LEMMA HoldsNothing ==
    ASSUME NEW r \in Requests, req'[r].step \notin Rotating,
           req'[r].step = "patch" => req'[r].dev \in used'
    PROVE  Holds(r)'
BY DEF Holds, Rotating, Merging

\* The requests after a step of r.
LEMMA RequestsStep ==
    ASSUME RegistryInv, NEW r \in Requests, NEW new \in Request,
           req' = [req EXCEPT ![r] = new], Shape(new), Respects(r), Holds(r)'
    PROVE  /\ req' \in [Requests -> Request]
           /\ \A s \in Requests : Shape(req'[s])
           /\ \A s \in Requests : Holds(s)'
<1>1. req \in [Requests -> Request]  BY DEF RegistryInv, TypeOK
<1>2. req'[r] = new /\ \A s \in Requests : s # r => req'[s] = req[s]  BY <1>1
<1>3. req' \in [Requests -> Request]  BY <1>1
<1>4. ASSUME NEW s \in Requests PROVE Shape(req'[s])
  <2>1. CASE s = r  BY <1>2, <2>1
  <2>2. CASE s # r
    <3>1. req'[s] = req[s]  BY <1>2, <2>2
    <3> QED  BY <3>1 DEF RegistryInv
  <2> QED  BY <2>1, <2>2
<1>5. ASSUME NEW s \in Requests PROVE Holds(s)'
  <2>1. CASE s = r  BY <2>1
  <2>2. CASE s # r
    <3>1. req'[s] = req[s] /\ Holds(s)  BY <1>2, <2>2 DEF RegistryInv
    <3> QED  BY <2>2, <3>1, HoldsOthers
  <2> QED  BY <2>1, <2>2
<1> QED  BY <1>3, <1>4, <1>5

\* The parts of the invariant about links.
LinkParts == Home /\ OneLinkPerPair /\ AuditMatches

\* Links that are as they were, or have changed in place.
LEMMA SameLinks ==
    ASSUME LinkParts, link' = link,
           \A d \in DeviceIds : device[d] # None => device'[d] # None,
           link \in [LinkIds -> Link]
    PROVE  LinkParts'
<1>1. \A p \in LinkIds : link[p].device \in DeviceIds \cup {None}  BY DEF Link
<1>2. Home'  BY <1>1 DEF LinkParts, Home
<1>3. OneLinkPerPair' /\ AuditMatches'  BY DEF LinkParts, OneLinkPerPair, AuditMatches
<1> QED  BY <1>2, <1>3 DEF LinkParts

LEMMA LinksInPlace ==
    ASSUME LinkParts, link \in [LinkIds -> Link],
           \A d \in DeviceIds : device[d] # None => device'[d] # None,
           \A p \in LinkIds :
              /\ link'[p].device = link[p].device
              /\ \/ link'[p] = link[p]
                 \/ /\ link[p].device # None
                    /\ link'[p].active <=> link'[p].source = ""
    PROVE  LinkParts'
<1>1. \A p \in LinkIds : link[p].device \in DeviceIds \cup {None}  BY DEF Link
<1>2. Home'  BY <1>1 DEF LinkParts, Home
<1>3. OneLinkPerPair'  BY DEF LinkParts, OneLinkPerPair
<1>4. AuditMatches'  BY DEF LinkParts, AuditMatches
<1> QED  BY <1>2, <1>3, <1>4 DEF LinkParts

\* The rest of the type invariant.
DataOK ==
    /\ exists \subseteq used /\ used \subseteq DeviceIds
    /\ device \in [DeviceIds -> Device \cup {None}]
    /\ link \in [LinkIds -> Link]
    /\ inbox \in [DeviceIds -> SUBSET Passes]
    /\ quiet \in [DeviceIds -> SUBSET DeviceIds]
    /\ lock \in [DeviceIds -> Requests \cup {None}]
    /\ begun \in 0 .. MaxRequests
    /\ pass \in [Passes -> [dev : DeviceIds, token : Tokens] \cup {None}]
    /\ unregistered \subseteq Tokens
    /\ enroller \in [LinkIds -> [user : Owners, late : BOOLEAN]]

LEMMA Parts ==
    RegistryInv <=> /\ DataOK /\ req \in [Requests -> Request]
                    /\ \A r \in Requests : Shape(req[r])
                    /\ \A r \in Requests : Holds(r)
                    /\ LinkParts
BY DEF RegistryInv, TypeOK, DataOK, LinkParts

LEMMA PartsNext ==
    ASSUME DataOK', req' \in [Requests -> Request],
           \A r \in Requests : Shape(req'[r]), \A r \in Requests : Holds(r)', LinkParts'
    PROVE  RegistryInv'
<1>1. (\A r \in Requests : Shape(req[r]))'  BY DEF Shape
<1>2. (\A r \in Requests : Holds(r))'  OBVIOUS
<1>3. TypeOK'  BY DEF DataOK, TypeOK
<1> QED  BY <1>1, <1>2, <1>3 DEF RegistryInv, LinkParts

\* A step of one request.
LEMMA StepOf ==
    ASSUME RegistryInv, NEW r \in Requests, NEW new \in Request,
           req' = [req EXCEPT ![r] = new], Shape(new), Respects(r), Holds(r)',
           DataOK', LinkParts'
    PROVE  RegistryInv'
BY RequestsStep, PartsNext

\* A step that writes no data.
LEMMA StepWithoutData ==
    ASSUME RegistryInv, NEW r \in Requests, NEW new \in Request,
           req' = [req EXCEPT ![r] = new], Shape(new), Holds(r)',
           begun' \in 0 .. MaxRequests, UNCHANGED <<Data, Outside>>,
           lock' \in [DeviceIds -> Requests \cup {None}],
           \A d \in DeviceIds : lock[d] \notin {None, r} => lock'[d] = lock[d]
    PROVE  RegistryInv'
<1>1. DataOK /\ LinkParts  BY Parts
<1>2. /\ used' = used /\ device' = device /\ link' = link /\ inbox' = inbox
      /\ quiet' = quiet /\ enroller' = enroller /\ pass' = pass
      /\ unregistered' = unregistered
  BY DEF Data, Outside
<1>3. DataOK'  BY <1>1, <1>2 DEF DataOK, exists
<1>4. LinkParts'  BY <1>1, <1>2, SameLinks DEF DataOK
<1>5. Respects(r)  BY <1>2 DEF Respects
<1> QED  BY <1>3, <1>4, <1>5, StepOf

LEMMA Released ==
    ASSUME DataOK, NEW r, ReleaseLocks(r)
    PROVE  /\ lock' \in [DeviceIds -> Requests \cup {None}]
           /\ \A d \in DeviceIds : lock'[d] = IF lock[d] = r THEN None ELSE lock[d]
BY DEF DataOK, ReleaseLocks

LEMMA Locked ==
    ASSUME DataOK, NEW r \in Requests, NEW d \in DeviceIds, LockRow(d, r), FreeFor(d, r)
    PROVE  /\ lock' \in [DeviceIds -> Requests \cup {None}]
           /\ lock'[d] = r
           /\ \A e \in DeviceIds : lock[e] = r => lock'[e] = r
           /\ \A e \in DeviceIds : lock[e] \notin {None, r} => lock'[e] = lock[e]
BY DEF DataOK, LockRow, FreeFor

-----------------------------------------------------------------------------
(* Requests begin *)

LEMMA BeginStep ==
    ASSUME RegistryInv, NEW r \in Requests, NEW op, NEW new \in Request, Start(r, op, new),
           Shape(new), new.step \notin Rotating, new.step = "patch" => new.dev \in used,
           UNCHANGED <<Data, lock, Outside>>
    PROVE  RegistryInv'
<1>1. DataOK /\ req \in [Requests -> Request]  BY Parts
<1>2. /\ req' = [req EXCEPT ![r] = new] /\ begun' = begun + 1 /\ begun < MaxRequests
      /\ lock' = lock
  BY DEF Start
<1>3. begun' \in 0 .. MaxRequests  BY <1>1, <1>2, RegistryAssumption DEF DataOK
<1>4. Holds(r)'
  <2>1. req'[r] = new /\ used' = used  BY <1>1, <1>2 DEF Data
  <2> QED  BY <2>1, HoldsNothing
<1>5. lock' \in [DeviceIds -> Requests \cup {None}]  BY <1>1, <1>2 DEF DataOK
<1> QED  BY <1>2, <1>3, <1>4, <1>5, StepWithoutData

LEMMA IdentifyStep ==
    ASSUME RegistryInv, NEW r \in Requests, NEW op \in {"identify", "link"}, NEW u \in Users,
           NEW t \in Tokens, NEW previous \in Tokens \cup {None}, NEW a \in Apps \cup {None},
           op = "link" => a \in Apps, Identify(r, op, u, t, previous, a)
    PROVE  RegistryInv'
<1> DEFINE first == IF previous \in {None, t} THEN "select" ELSE "previous"
           new == [Idle EXCEPT !.step = first, !.op = op, !.user = u, !.token = t,
                               !.previous = previous, !.app = a]
<1>1. Start(r, op, new) /\ UNCHANGED <<Data, lock, Outside>>  BY DEF Identify
<1>2. first \in {"select", "previous"} /\ (first = "previous" => previous \in Tokens /\ previous # t)
  OBVIOUS
<1> HIDE DEF first
<1>3. /\ first \in Steps /\ op \in AllOperations /\ u \in Owners
  BY <1>2 DEF Steps, AllOperations, Owners
<1>4. /\ new \in Request /\ new.step = first /\ new.token = t /\ new.previous = previous
      /\ new.op = op /\ new.app = a
  BY <1>3, IdleType DEF Request
<1> HIDE DEF new
<1>5. Shape(new) /\ new.step \notin Rotating /\ new.step # "patch"
  BY <1>2, <1>4 DEF Shape, Rotating
<1> QED  BY <1>1, <1>4, <1>5, BeginStep

LEMMA UnlinkReadStep ==
    ASSUME RegistryInv, NEW r \in Requests, NEW u \in Users, NEW t, NEW a,
           NEW s \in {"device_button", "inbox"}, UnlinkRead(r, u, t, a, s)
    PROVE  RegistryInv'
<1>1. PICK p \in LinkIds :
        /\ Start(r, "unlink", [Idle EXCEPT !.step = "unlink", !.op = "unlink", !.user = u,
                                           !.pk = p, !.source = s])
        /\ UNCHANGED <<Data, lock, Outside>>
  BY DEF UnlinkRead, LinkOf, LinksOf
<1> DEFINE new == [Idle EXCEPT !.step = "unlink", !.op = "unlink", !.user = u,
                               !.pk = p, !.source = s]
<1>2. /\ "unlink" \in Steps /\ "unlink" \in AllOperations /\ u \in Owners
      /\ p \in LinkIds /\ s \in UnlinkSource /\ s # ""
  BY DEF Steps, AllOperations, Owners, LinkOf, LinksOf, UnlinkSource
<1>3. new \in Request /\ new.step = "unlink" /\ new.pk = p /\ new.source = s
  BY <1>2, IdleType DEF Request
<1>4. Start(r, "unlink", new) /\ UNCHANGED <<Data, lock, Outside>>  BY <1>1
<1> HIDE DEF new
<1>5. Shape(new) /\ new.step \notin Rotating /\ new.step # "patch"
  BY <1>2, <1>3 DEF Shape, Rotating, Upserting
<1> QED  BY <1>3, <1>4, <1>5, BeginStep

LEMMA EvictReadStep ==
    ASSUME RegistryInv, NEW r \in Requests, NEW d, NEW a, EvictRead(r, d, a)
    PROVE  RegistryInv'
<1>1. PICK p \in LinkOf(d, a) :
        /\ Start(r, "evict", [Idle EXCEPT !.step = "evict", !.op = "evict", !.pk = p,
                                          !.source = "owner_eviction"])
        /\ UNCHANGED <<Data, lock, Outside>>
  BY DEF EvictRead
<1> DEFINE new == [Idle EXCEPT !.step = "evict", !.op = "evict", !.pk = p,
                               !.source = "owner_eviction"]
<1>2. /\ "evict" \in Steps /\ "evict" \in AllOperations
      /\ p \in LinkIds /\ "owner_eviction" \in UnlinkSource
  BY DEF Steps, AllOperations, LinkOf, LinksOf, UnlinkSource
<1>3. new \in Request /\ new.step = "evict" /\ new.pk = p /\ new.source = "owner_eviction"
  BY <1>2, IdleType DEF Request
<1>4. Start(r, "evict", new) /\ UNCHANGED <<Data, lock, Outside>>  BY <1>1
<1> HIDE DEF new
<1>5. Shape(new) /\ new.step \notin Rotating /\ new.step # "patch"
  BY <1>2, <1>3 DEF Shape, Rotating, Upserting
<1> QED  BY <1>3, <1>4, <1>5, BeginStep

LEMMA PatchReadStep ==
    ASSUME RegistryInv, NEW r \in Requests, NEW u \in Users, NEW d \in DeviceIds,
           NEW s \in TokenStatus, PatchRead(r, u, d, s)
    PROVE  RegistryInv'
<1> DEFINE copy == [device[d] EXCEPT !.status = s]
           new == [Idle EXCEPT !.step = "patch", !.op = "patch", !.user = u,
                               !.dev = d, !.copy = copy]
<1>1. Start(r, "patch", new) /\ UNCHANGED <<Data, lock, Outside>> /\ device[d] # None
  BY DEF PatchRead, exists
<1>2. copy \in Device
  <2>1. device[d] \in Device  BY <1>1, Parts DEF DataOK
  <2> QED  BY <2>1 DEF Device
<1>3. "patch" \in Operations  BY <1>1 DEF Start
<1> HIDE DEF copy
<1>4. /\ "patch" \in Steps /\ "patch" \in AllOperations /\ u \in Owners
  BY DEF Steps, AllOperations, Owners
<1>5. new \in Request /\ new.step = "patch" /\ new.dev = d /\ new.copy = copy
  BY <1>2, <1>4, IdleType DEF Request
<1> HIDE DEF new
<1>6. Shape(new) /\ new.step \notin Rotating
  BY <1>2, <1>3, <1>5 DEF Shape, Rotating, Upserting
<1>7. d \in used  BY <1>1, Parts DEF DataOK, exists
<1> QED  BY <1>1, <1>5, <1>6, <1>7, BeginStep

LEMMA DeleteReadStep ==
    ASSUME RegistryInv, NEW r \in Requests, NEW u \in Users, NEW d \in DeviceIds,
           DeleteRead(r, u, d)
    PROVE  RegistryInv'
<1> DEFINE new == [Idle EXCEPT !.step = "delete", !.op = "delete", !.user = u, !.dev = d]
<1>1. Start(r, "delete", new) /\ UNCHANGED <<Data, lock, Outside>>  BY DEF DeleteRead
<1>2. /\ "delete" \in Steps /\ "delete" \in AllOperations /\ u \in Owners
  BY DEF Steps, AllOperations, Owners
<1>3. new \in Request /\ new.step = "delete" /\ new.dev = d
  BY <1>2, IdleType DEF Request
<1> HIDE DEF new
<1>4. Shape(new) /\ new.step \notin Rotating /\ new.step # "patch"
  BY <1>3 DEF Shape, Rotating, Upserting
<1> QED  BY <1>1, <1>3, <1>4, BeginStep

-----------------------------------------------------------------------------
(* Rotation and merge *)

\* The request that goes on from q with another step.
LEMMA NextStep ==
    ASSUME RegistryInv, NEW r \in Requests, NEW new \in Request, GoOn(r, new), Shape(new),
           UNCHANGED <<Data, Outside>>,
           lock' \in [DeviceIds -> Requests \cup {None}],
           \A d \in DeviceIds : lock[d] \notin {None, r} => lock'[d] = lock[d],
           new.step \in Rotating =>
             /\ new.old \in DeviceIds /\ lock'[new.old] = r /\ device[new.old] # None
             /\ device[new.old].user = new.user /\ device[new.old].token # new.token,
           new.step \in Merging =>
             /\ new.dev \in DeviceIds /\ lock'[new.dev] = r /\ device[new.dev] # None
             /\ device[new.dev].user \in {NoUser, new.user} /\ device[new.dev].token = new.token,
           new.step \in {"source_links", "merge"} => Keys(new.target_links) = LinksOf(new.old),
           new.step = "merge" => Keys(new.source_links) = LinksOf(new.dev),
           new.step # "patch"
    PROVE  RegistryInv'
<1>1. DataOK /\ req \in [Requests -> Request]  BY Parts
<1>2. /\ req' = [req EXCEPT ![r] = new] /\ begun' \in 0 .. MaxRequests
  BY <1>1 DEF GoOn, DataOK
<1>3. req'[r] = new /\ device' = device /\ link' = link  BY <1>1, <1>2 DEF Data
<1>4. Holds(r)'  BY <1>3 DEF Holds, LinksOf, Keys
<1> QED  BY <1>2, <1>4, StepWithoutData

\* The request of a step.
LEMMA RequestOf ==
    ASSUME RegistryInv, NEW r \in Requests
    PROVE  /\ req[r] \in Request /\ Shape(req[r]) /\ Holds(r) /\ DataOK
           /\ lock \in [DeviceIds -> Requests \cup {None}]
BY Parts DEF DataOK

LEMMA TokenRow ==
    ASSUME NEW t, NEW d \in WithToken(t)
    PROVE  d \in DeviceIds /\ device[d] # None /\ device[d].token = t
BY DEF WithToken, exists

LEMMA SelectPreviousStep ==
    ASSUME RegistryInv, NEW r \in Requests, SelectPrevious(r)
    PROVE  RegistryInv'
<1> DEFINE q == req[r]
<1>1. /\ q \in Request /\ Shape(q) /\ Holds(r) /\ DataOK
      /\ lock \in [DeviceIds -> Requests \cup {None}]
  BY RequestOf
<1>2. q.step = "previous" /\ UNCHANGED <<Data, Outside>>  BY DEF SelectPrevious
<1>3. /\ q.token \in Tokens /\ q.previous # q.token /\ (q.op = "link" => q.app \in Apps)
  BY <1>1, <1>2 DEF Shape, Upserting
<1> DEFINE plain == [q EXCEPT !.step = "select", !.previous = None]
<1>4. /\ plain \in Request /\ plain.step = "select" /\ plain.token = q.token
      /\ plain.op = q.op /\ plain.app = q.app
  <2>1. "select" \in Steps  BY DEF Steps
  <2> QED  BY <1>1, <2>1 DEF Request
<1>5. /\ Shape(plain) /\ plain.step # "patch" /\ plain.step \notin Rotating /\ plain.step \notin Merging
      /\ plain.step \notin {"source_links", "merge"}
  <2> HIDE DEF plain
  <2> QED  BY <1>3, <1>4 DEF Shape, Rotating, Merging
<1>6. CASE WithToken(q.previous) = {} /\ GoOn(r, plain) /\ UNCHANGED lock
  <2> HIDE DEF plain
  <2> QED  BY <1>1, <1>2, <1>4, <1>5, <1>6, NextStep
<1>7. ASSUME NEW d \in WithToken(q.previous), FreeFor(d, r), LockRow(d, r),
             GoOn(r, IF device[d].user = q.user
                     THEN [q EXCEPT !.step = "clash", !.old = d, !.previous = None]
                     ELSE plain)
      PROVE  RegistryInv'
  <2>1. d \in DeviceIds /\ device[d] # None /\ device[d].token = q.previous
    BY TokenRow
  <2>2. /\ lock' \in [DeviceIds -> Requests \cup {None}] /\ lock'[d] = r
        /\ \A e \in DeviceIds : lock[e] \notin {None, r} => lock'[e] = lock[e]
    BY <1>1, <1>7, <2>1, Locked
  <2>3. CASE device[d].user = q.user
    <3> DEFINE new == [q EXCEPT !.step = "clash", !.old = d, !.previous = None]
    <3>1. GoOn(r, new)  BY <1>7, <2>3
    <3>2. /\ new \in Request /\ new.step = "clash" /\ new.token = q.token
          /\ new.op = q.op /\ new.app = q.app /\ new.old = d /\ new.user = q.user
      <4>1. "clash" \in Steps  BY DEF Steps
      <4> QED  BY <1>1, <2>1, <4>1 DEF Request
    <3> HIDE DEF new
    <3>3. /\ Shape(new) /\ new.step # "patch" /\ new.step \notin Merging
          /\ new.step \notin {"source_links", "merge"}
      BY <1>3, <3>2 DEF Shape, Merging, Upserting
    <3> QED  BY <1>2, <1>3, <2>1, <2>2, <2>3, <3>1, <3>2, <3>3, NextStep
  <2>4. CASE device[d].user # q.user
    <3>1. GoOn(r, plain)  BY <1>7, <2>4
    <3> HIDE DEF plain
    <3> QED  BY <1>2, <1>4, <1>5, <2>2, <3>1, NextStep
  <2> QED  BY <2>3, <2>4
<1> QED  BY <1>6, <1>7 DEF SelectPrevious

LEMMA SelectClashStep ==
    ASSUME RegistryInv, NEW r \in Requests, SelectClash(r)
    PROVE  RegistryInv'
<1> DEFINE q == req[r]
<1>1. /\ q \in Request /\ Shape(q) /\ Holds(r) /\ DataOK
      /\ lock \in [DeviceIds -> Requests \cup {None}]
  BY RequestOf
<1>2. q.step = "clash" /\ UNCHANGED <<Data, Outside>>  BY DEF SelectClash
<1>3. /\ q.token \in Tokens /\ (q.op = "link" => q.app \in Apps)
      /\ q.old \in DeviceIds /\ lock[q.old] = r /\ device[q.old] # None
      /\ device[q.old].user = q.user /\ device[q.old].token # q.token
  BY <1>1, <1>2 DEF Shape, Upserting, Rotating, Holds
<1>4. CASE WithToken(q.token) = {} /\ GoOn(r, [q EXCEPT !.step = "rotate"]) /\ UNCHANGED lock
  <2> DEFINE new == [q EXCEPT !.step = "rotate"]
  <2>1. /\ new \in Request /\ new.step = "rotate" /\ new.token = q.token
        /\ new.op = q.op /\ new.app = q.app /\ new.old = q.old /\ new.user = q.user
    <3>1. "rotate" \in Steps  BY DEF Steps
    <3> QED  BY <1>1, <3>1 DEF Request
  <2>2. GoOn(r, new)  BY <1>4
  <2> HIDE DEF new
  <2>3. /\ Shape(new) /\ new.step # "patch" /\ new.step \notin Merging /\ new.step \notin {"source_links", "merge"}
    BY <1>3, <2>1 DEF Shape, Merging, Upserting
  <2>4. lock' = lock  BY <1>4
  <2> QED  BY <1>1, <1>2, <1>3, <2>1, <2>2, <2>3, <2>4, NextStep
<1>5. ASSUME NEW d \in WithToken(q.token), FreeFor(d, r), LockRow(d, r),
             GoOn(r, IF device[d].user \in {NoUser, q.user}
                     THEN [q EXCEPT !.step = "target_links", !.dev = d]
                     ELSE [q EXCEPT !.step = "select", !.old = None])
      PROVE  RegistryInv'
  <2>1. d \in DeviceIds /\ device[d] # None /\ device[d].token = q.token
    BY TokenRow
  <2>2. /\ lock' \in [DeviceIds -> Requests \cup {None}] /\ lock'[d] = r
        /\ \A e \in DeviceIds : lock[e] = r => lock'[e] = r
        /\ \A e \in DeviceIds : lock[e] \notin {None, r} => lock'[e] = lock[e]
    BY <1>1, <1>5, <2>1, Locked
  <2>3. CASE device[d].user \in {NoUser, q.user}
    <3> DEFINE new == [q EXCEPT !.step = "target_links", !.dev = d]
    <3>1. GoOn(r, new)  BY <1>5, <2>3
    <3>2. /\ new \in Request /\ new.step = "target_links" /\ new.token = q.token
          /\ new.op = q.op /\ new.app = q.app /\ new.old = q.old /\ new.user = q.user
          /\ new.dev = d
      <4>1. "target_links" \in Steps  BY DEF Steps
      <4> QED  BY <1>1, <2>1, <4>1 DEF Request
    <3> HIDE DEF new
    <3>3. /\ Shape(new) /\ new.step # "patch" /\ new.step \notin {"source_links", "merge"}
      BY <1>3, <3>2 DEF Shape, Upserting
    <3> QED  BY <1>2, <1>3, <2>1, <2>2, <2>3, <3>1, <3>2, <3>3, NextStep
  <2>4. CASE device[d].user \notin {NoUser, q.user}
    <3> DEFINE new == [q EXCEPT !.step = "select", !.old = None]
    <3>1. GoOn(r, new)  BY <1>5, <2>4
    <3>2. /\ new \in Request /\ new.step = "select" /\ new.token = q.token
          /\ new.op = q.op /\ new.app = q.app
      <4>1. "select" \in Steps  BY DEF Steps
      <4> QED  BY <1>1, <4>1 DEF Request
    <3> HIDE DEF new
    <3>3. /\ Shape(new) /\ new.step # "patch" /\ new.step \notin Rotating /\ new.step \notin Merging
          /\ new.step \notin {"source_links", "merge"}
      BY <1>3, <3>2 DEF Shape, Rotating, Merging
    <3> QED  BY <1>2, <2>2, <3>1, <3>2, <3>3, NextStep
  <2> QED  BY <2>3, <2>4
<1> QED  BY <1>4, <1>5 DEF SelectClash

LEMMA LoadedKeys ==
    ASSUME link \in [LinkIds -> Link], NEW d
    PROVE  LoadLinks(d) \in Seen /\ Keys(LoadLinks(d)) = LinksOf(d)
<1>1. \A p \in LinkIds : link[p].active \in BOOLEAN  BY DEF Link
<1>2. LoadLinks(d) \in Seen  BY <1>1 DEF LoadLinks, LinksOf, Seen
<1>3. \A p \in LinksOf(d) : LET x == <<p, link[p].active>> IN x \in LoadLinks(d) /\ x[1] = p
  BY DEF LoadLinks
<1>4. \A x \in LoadLinks(d) : x[1] \in LinksOf(d)  BY DEF LoadLinks
<1>5. Keys(LoadLinks(d)) = LinksOf(d)
  <2> HIDE DEF LoadLinks, LinksOf
  <2> QED  BY <1>3, <1>4 DEF Keys
<1> QED  BY <1>2, <1>5

LEMMA LoadTargetLinksStep ==
    ASSUME RegistryInv, NEW r \in Requests, LoadTargetLinks(r)
    PROVE  RegistryInv'
<1> DEFINE q == req[r]
           seen == LoadLinks(q.old)
           new == [q EXCEPT !.step = "source_links", !.target_links = seen]
<1>1. /\ q \in Request /\ Shape(q) /\ Holds(r) /\ DataOK
      /\ lock \in [DeviceIds -> Requests \cup {None}]
  BY RequestOf
<1>2. /\ q.step = "target_links" /\ GoOn(r, new) /\ lock' = lock
      /\ UNCHANGED <<Data, Outside>>
  BY DEF LoadTargetLinks
<1>3. /\ q.token \in Tokens /\ (q.op = "link" => q.app \in Apps)
      /\ q.old \in DeviceIds /\ lock[q.old] = r /\ device[q.old] # None
      /\ device[q.old].user = q.user /\ device[q.old].token # q.token
      /\ q.dev \in DeviceIds /\ lock[q.dev] = r /\ device[q.dev] # None
      /\ device[q.dev].user \in {NoUser, q.user} /\ device[q.dev].token = q.token
  BY <1>1, <1>2 DEF Shape, Upserting, Rotating, Merging, Holds
<1>4. seen \in Seen /\ Keys(seen) = LinksOf(q.old)  BY <1>1, LoadedKeys DEF DataOK
<1> HIDE DEF seen
<1>5. /\ new \in Request /\ new.step = "source_links" /\ new.token = q.token
      /\ new.op = q.op /\ new.app = q.app /\ new.old = q.old /\ new.user = q.user
      /\ new.dev = q.dev /\ new.target_links = seen
  <2>1. "source_links" \in Steps  BY DEF Steps
  <2> QED  BY <1>1, <1>4, <2>1 DEF Request
<1> HIDE DEF new
<1>6. Shape(new) /\ new.step # "patch" /\ new.step # "merge"  BY <1>3, <1>5 DEF Shape, Upserting
<1> QED  BY <1>1, <1>2, <1>3, <1>4, <1>5, <1>6, NextStep

LEMMA LoadSourceLinksStep ==
    ASSUME RegistryInv, NEW r \in Requests, LoadSourceLinks(r)
    PROVE  RegistryInv'
<1> DEFINE q == req[r]
           seen == LoadLinks(q.dev)
           new == [q EXCEPT !.step = "merge", !.source_links = seen]
<1>1. /\ q \in Request /\ Shape(q) /\ Holds(r) /\ DataOK
      /\ lock \in [DeviceIds -> Requests \cup {None}]
  BY RequestOf
<1>2. /\ q.step = "source_links" /\ GoOn(r, new) /\ lock' = lock
      /\ UNCHANGED <<Data, Outside>>
  BY DEF LoadSourceLinks
<1>3. /\ q.token \in Tokens /\ (q.op = "link" => q.app \in Apps)
      /\ q.old \in DeviceIds /\ lock[q.old] = r /\ device[q.old] # None
      /\ device[q.old].user = q.user /\ device[q.old].token # q.token
      /\ q.dev \in DeviceIds /\ lock[q.dev] = r /\ device[q.dev] # None
      /\ device[q.dev].user \in {NoUser, q.user} /\ device[q.dev].token = q.token
      /\ Keys(q.target_links) = LinksOf(q.old)
  BY <1>1, <1>2 DEF Shape, Upserting, Rotating, Merging, Holds
<1>4. seen \in Seen /\ Keys(seen) = LinksOf(q.dev)  BY <1>1, LoadedKeys DEF DataOK
<1> HIDE DEF seen
<1>5. /\ new \in Request /\ new.step = "merge" /\ new.token = q.token
      /\ new.op = q.op /\ new.app = q.app /\ new.old = q.old /\ new.user = q.user
      /\ new.dev = q.dev /\ new.target_links = q.target_links /\ new.source_links = seen
  <2>1. "merge" \in Steps  BY DEF Steps
  <2> QED  BY <1>1, <1>4, <2>1 DEF Request
<1> HIDE DEF new
<1>6. Shape(new) /\ new.step # "patch"  BY <1>3, <1>5 DEF Shape, Upserting
<1> QED  BY <1>1, <1>2, <1>3, <1>4, <1>5, <1>6, NextStep

\* The end of the transaction, or of the request.
LEMMA DoneStep ==
    ASSUME RegistryInv, NEW r \in Requests, NEW d \in DeviceIds,
           \/ End(r)
           \/ req[r].step \in Upserting /\ AfterUpsert(r, d),
           Respects(r),
           begun' = begun => DataOK', LinkParts'
    PROVE  RegistryInv'
<1>1. /\ req[r] \in Request /\ Shape(req[r]) /\ DataOK /\ req \in [Requests -> Request]
  BY RequestOf, Parts
<1>2. \E new \in Request : /\ req' = [req EXCEPT ![r] = new] /\ Shape(new)
                           /\ new.step \notin Rotating /\ new.step # "patch"
                           /\ begun' = begun
  <2>1. CASE End(r)
    <3>1. Shape(Idle) /\ Idle.step \notin Rotating /\ Idle.step # "patch"
      BY IdleType DEF Shape, Rotating, Upserting
    <3> QED  BY <2>1, <3>1, IdleType DEF End
  <2>2. CASE req[r].step \in Upserting /\ AfterUpsert(r, d)
    <3>1. CASE req[r].op # "link"
      <4>1. End(r)  BY <2>2, <3>1 DEF AfterUpsert
      <4> QED  BY <2>1, <4>1
    <3>2. CASE req[r].op = "link"
      <4> DEFINE new == [Idle EXCEPT !.step = "link", !.op = "link",
                                     !.user = req[r].user, !.app = req[r].app, !.dev = d]
      <4>1. GoOn(r, new)  BY <2>2, <3>2 DEF AfterUpsert
      <4>2. req[r].app \in Apps /\ req[r].user \in Owners
        BY <1>1, <2>2, <3>2 DEF Shape, Request
      <4>3. "link" \in Steps /\ "link" \in AllOperations  BY DEF Steps, AllOperations
      <4>4. new \in Request /\ new.step = "link" /\ new.dev = d /\ new.app = req[r].app
        BY <4>2, <4>3, IdleType DEF Request
      <4> HIDE DEF new
      <4>5. Shape(new) /\ new.step \notin Rotating /\ new.step # "patch"
        BY <4>2, <4>4 DEF Shape, Rotating, Upserting
      <4> QED  BY <4>1, <4>4, <4>5 DEF GoOn
    <3> QED  BY <3>1, <3>2
  <2> QED  BY <2>1, <2>2
<1>3. PICK new \in Request : /\ req' = [req EXCEPT ![r] = new] /\ Shape(new)
                             /\ new.step \notin Rotating /\ new.step # "patch"
                           /\ begun' = begun
  BY <1>2
<1>4. req'[r] = new /\ req' \in [Requests -> Request]  BY <1>1, <1>3
<1>5. Holds(r)'  BY <1>3, <1>4, HoldsNothing
<1>6. DataOK'  BY <1>3, <1>4
<1> QED  BY <1>3, <1>5, <1>6, StepOf

\* What a merge works on.
LEMMA MergeRows ==
    ASSUME RegistryInv, NEW r \in Requests, req[r].step = "merge"
    PROVE  LET q == req[r] IN
           /\ q \in Request /\ q.token \in Tokens /\ q.old # q.dev
           /\ q.old \in DeviceIds /\ lock[q.old] = r /\ device[q.old] # None
           /\ device[q.old].user = q.user
           /\ q.dev \in DeviceIds /\ lock[q.dev] = r /\ device[q.dev] # None
           /\ device[q.dev].user \in {NoUser, q.user}
           /\ Keys(q.target_links) = LinksOf(q.old)
           /\ Keys(q.source_links) = LinksOf(q.dev)
           /\ q.target_links \in Seen /\ q.source_links \in Seen
<1> DEFINE q == req[r]
<1>1. q \in Request /\ Shape(q) /\ Holds(r) /\ q.step = "merge"  BY RequestOf
<1>2. q.token \in Tokens  BY <1>1 DEF Shape, Upserting, Rotating
<1>3. /\ q.old \in DeviceIds /\ lock[q.old] = r /\ device[q.old] # None
      /\ device[q.old].user = q.user /\ device[q.old].token # q.token
      /\ q.dev \in DeviceIds /\ lock[q.dev] = r /\ device[q.dev] # None
      /\ device[q.dev].user \in {NoUser, q.user} /\ device[q.dev].token = q.token
      /\ Keys(q.target_links) = LinksOf(q.old)
      /\ Keys(q.source_links) = LinksOf(q.dev)
  BY <1>1 DEF Rotating, Merging, Holds
<1>4. q.target_links \in Seen /\ q.source_links \in Seen  BY <1>1 DEF Request
<1>5. q.old # q.dev  BY <1>3
<1> HIDE DEF q
<1>6. /\ q \in Request /\ q.token \in Tokens /\ q.old # q.dev
      /\ q.old \in DeviceIds /\ lock[q.old] = r /\ device[q.old] # None
      /\ device[q.old].user = q.user
      /\ q.dev \in DeviceIds /\ lock[q.dev] = r /\ device[q.dev] # None
      /\ device[q.dev].user \in {NoUser, q.user}
      /\ Keys(q.target_links) = LinksOf(q.old)
      /\ Keys(q.source_links) = LinksOf(q.dev)
      /\ q.target_links \in Seen /\ q.source_links \in Seen
  BY <1>1, <1>2, <1>3, <1>4, <1>5
<1> QED  BY <1>6 DEF q

\* The links it moves, and those it reactivates.
LEMMA MergeDecides ==
    ASSUME RegistryInv, NEW r \in Requests, req[r].step = "merge"
    PROVE  LET q == req[r] IN
           /\ \A p \in Moved(q) : p \in LinksOf(q.dev) /\ \A z \in LinksOf(q.old) : z[2] # p[2]
           /\ \A p \in LinksOf(q.dev) : p \notin Moved(q) => \E z \in LinksOf(q.old) : z[2] = p[2]
           /\ \A x \in Promoted(q) :
                /\ x[1] \in LinksOf(q.old) /\ x[2] \in LinksOf(q.dev) /\ x[1][2] = x[2][2]
                /\ <<x[1], FALSE>> \in q.target_links /\ <<x[2], TRUE>> \in q.source_links
<1> DEFINE q == req[r]
           T == q.target_links
           S == q.source_links
<1>1. /\ Keys(T) = LinksOf(q.old) /\ Keys(S) = LinksOf(q.dev)
      /\ T \in Seen /\ S \in Seen
  BY MergeRows
<1>2. /\ \A x \in T : x[1] \in LinksOf(q.old) /\ x = <<x[1], x[2]>> /\ x[2] \in BOOLEAN
      /\ \A x \in S : x[1] \in LinksOf(q.dev) /\ x = <<x[1], x[2]>> /\ x[2] \in BOOLEAN
  BY <1>1 DEF Keys, Seen
<1>3. /\ \A p \in LinksOf(q.old) : \E x \in T : x[1] = p
      /\ \A p \in LinksOf(q.dev) : \E x \in S : x[1] = p
  BY <1>1 DEF Keys
<1>4. ASSUME NEW p
      PROVE  p \in Moved(q) <=> \E y \in S : p = y[1] /\ \A z \in T : z[1][2] # y[1][2]
  BY DEF Moved
<1>5. ASSUME NEW x \in Promoted(q)
      PROVE  /\ x[1] \in LinksOf(q.old) /\ x[2] \in LinksOf(q.dev) /\ x[1][2] = x[2][2]
             /\ <<x[1], FALSE>> \in T /\ <<x[2], TRUE>> \in S
  <2>1. PICK y \in T \X S : /\ x = <<y[1][1], y[2][1]>>
                            /\ y[1][1][2] = y[2][1][2] /\ y[2][2] /\ ~y[1][2]
    BY DEF Promoted
  <2>2. y[1] \in T /\ y[2] \in S /\ x[1] = y[1][1] /\ x[2] = y[2][1]  BY <2>1
  <2>3. y[1] = <<x[1], FALSE>> /\ y[2] = <<x[2], TRUE>>
    <3>1. y[1] = <<y[1][1], y[1][2]>> /\ y[1][2] = FALSE  BY <1>2, <2>1, <2>2
    <3>2. y[2] = <<y[2][1], y[2][2]>> /\ y[2][2] = TRUE  BY <1>2, <2>1, <2>2
    <3> QED  BY <2>2, <3>1, <3>2
  <2> QED  BY <1>2, <2>1, <2>2, <2>3
<1> HIDE DEF T, S, q
<1>6. ASSUME NEW p \in Moved(q)
      PROVE  p \in LinksOf(q.dev) /\ \A z \in LinksOf(q.old) : z[2] # p[2]
  BY <1>2, <1>3, <1>4
<1>7. ASSUME NEW p \in LinksOf(q.dev), p \notin Moved(q)
      PROVE  \E z \in LinksOf(q.old) : z[2] = p[2]
  <2>1. PICK y \in S : y[1] = p  BY <1>3
  <2>2. PICK z \in T : z[1][2] = p[2]  BY <1>4, <1>7, <2>1
  <2> QED  BY <1>2, <2>2
<1> QED  BY <1>5, <1>6, <1>7 DEF q, T, S

\* What it writes to a link.
LEMMA MergeLinks ==
    ASSUME RegistryInv, NEW r \in Requests, Merge(r), NEW p \in LinkIds
    PROVE  LET q == req[r] IN
           \/ /\ p \in Moved(q) /\ link[p].device = q.dev
              /\ link'[p] = [link[p] EXCEPT !.device = q.old]
           \/ /\ p \notin Moved(q) /\ link[p].device = q.old
              /\ \E x \in Promoted(q) : x[1] = p
              /\ link'[p] = Reactivated(link[p])
           \/ p \notin Moved(q) /\ link[p].device = q.dev /\ link'[p] = NoLink
           \/ /\ link[p].device # q.dev /\ link'[p] = link[p]
              /\ ~\E x \in Promoted(q) : x[1] = p
<1> DEFINE q == req[r]
<1>1. q.step = "merge"  BY DEF Merge
<1>2. link'[p] = IF p \in Moved(q) THEN [link[p] EXCEPT !.device = q.old]
                 ELSE IF \E x \in Promoted(q) : x[1] = p THEN Reactivated(link[p])
                 ELSE IF link[p].device = q.dev THEN NoLink
                 ELSE link[p]
  BY DEF Merge
<1>3. /\ p \in Moved(q) => link[p].device = q.dev
      /\ \A x \in Promoted(q) : x[1] = p => link[p].device = q.old
  <2>1. /\ \A y \in Moved(q) : y \in LinksOf(q.dev)
        /\ \A x \in Promoted(q) : x[1] \in LinksOf(q.old)
    BY <1>1, MergeDecides
  <2> QED  BY <2>1 DEF LinksOf
<1>4. q.old # q.dev  BY <1>1, MergeRows
<1> HIDE DEF q
<1>5. \/ /\ p \in Moved(q) /\ link[p].device = q.dev
         /\ link'[p] = [link[p] EXCEPT !.device = q.old]
      \/ /\ p \notin Moved(q) /\ link[p].device = q.old
         /\ \E x \in Promoted(q) : x[1] = p
         /\ link'[p] = Reactivated(link[p])
      \/ p \notin Moved(q) /\ link[p].device = q.dev /\ link'[p] = NoLink
      \/ /\ link[p].device # q.dev /\ link'[p] = link[p]
         /\ ~\E x \in Promoted(q) : x[1] = p
  BY <1>2, <1>3, <1>4
<1> QED  BY <1>5 DEF q

LEMMA AppliedType ==
    ASSUME NEW u \in Owners, NEW t \in Tokens
    PROVE  /\ AppliedFields(u, t) \in Device /\ AppliedFields(u, t) # None
           /\ AppliedFields(u, t).user = u /\ AppliedFields(u, t).token = t
<1>1. "active" \in TokenStatus /\ TRUE \in BOOLEAN  BY DEF TokenStatus
<1>2. AppliedFields(u, t) \in Device  BY <1>1 DEF AppliedFields, Device
<1> QED  BY <1>2, Markers DEF AppliedFields

LEMMA LinkFields ==
    ASSUME NEW l \in Link, NEW d \in DeviceIds
    PROVE  /\ l.device \in DeviceIds \cup {None} /\ l.active \in BOOLEAN
           /\ l.source \in UnlinkSource
           /\ LET m == [l EXCEPT !.device = d]
              IN  m \in Link /\ m.device = d /\ m.active = l.active /\ m.source = l.source
           /\ LET m == Reactivated(l)
              IN  m \in Link /\ m.device = l.device /\ m.active = TRUE /\ m.source = ""
           /\ NoLink \in Link /\ NoLink.device = None /\ NoLink.active = FALSE
<1>1. "" \in UnlinkSource /\ TRUE \in BOOLEAN /\ FALSE \in BOOLEAN  BY DEF UnlinkSource
<1>2. l.device \in DeviceIds \cup {None} /\ l.active \in BOOLEAN /\ l.source \in UnlinkSource
  BY DEF Link
<1>3. LET m == [l EXCEPT !.device = d]
      IN  m \in Link /\ m.device = d /\ m.active = l.active /\ m.source = l.source
  BY DEF Link
<1>4. LET m == Reactivated(l)
      IN  m \in Link /\ m.device = l.device /\ m.active = TRUE /\ m.source = ""
  BY <1>1 DEF Link, Reactivated
<1>5. NoLink \in Link /\ NoLink.device = None /\ NoLink.active = FALSE
  BY <1>1 DEF Link, NoLink
<1> QED  BY <1>2, <1>3, <1>4, <1>5

\* The four cases of MergeLinks, by the fields of the link.
MergedLink(q, p) ==
    \/ /\ p \in Moved(q) /\ link[p].device = q.dev /\ link'[p].device = q.old
       /\ link'[p].active = link[p].active /\ link'[p].source = link[p].source
    \/ /\ link[p].device = q.old /\ link'[p].device = q.old
       /\ \E x \in Promoted(q) : x[1] = p
       /\ link'[p].active /\ link'[p].source = ""
    \/ /\ p \notin Moved(q) /\ link[p].device = q.dev
       /\ link'[p].device = None /\ ~link'[p].active
    \/ /\ link[p].device # q.dev /\ link'[p] = link[p]
       /\ ~\E x \in Promoted(q) : x[1] = p

LEMMA MergeFields ==
    ASSUME RegistryInv, NEW r \in Requests, Merge(r), NEW p \in LinkIds
    PROVE  link'[p] \in Link /\ MergedLink(req[r], p)
<1> DEFINE q == req[r]
           l == link[p]
           m == link'[p]
<1>1. q.old \in DeviceIds  BY MergeRows DEF Merge
<1>2. l \in Link  BY Parts DEF DataOK
<1>3. \/ p \in Moved(q) /\ l.device = q.dev /\ m = [l EXCEPT !.device = q.old]
      \/ /\ l.device = q.old /\ m = Reactivated(l)
         /\ \E x \in Promoted(q) : x[1] = p
      \/ p \notin Moved(q) /\ l.device = q.dev /\ m = NoLink
      \/ /\ l.device # q.dev /\ m = l
         /\ ~\E x \in Promoted(q) : x[1] = p
  BY MergeLinks
<1> HIDE DEF q, l, m
<1>4. CASE p \in Moved(q) /\ l.device = q.dev /\ m = [l EXCEPT !.device = q.old]
  <2> DEFINE d == q.old
  <2> HIDE DEF d
  <2>0. d \in DeviceIds /\ m = [l EXCEPT !.device = d]  BY <1>1, <1>4 DEF d
  <2>1. m \in Link /\ m.device = d /\ m.active = l.active /\ m.source = l.source
    BY <1>2, <2>0 DEF Link
  <2> QED  BY <1>4, <2>1 DEF MergedLink, d, q, l, m
<1>5. CASE l.device = q.old /\ m = Reactivated(l) /\ \E x \in Promoted(q) : x[1] = p
  <2>1. m \in Link /\ m.device = l.device /\ m.active = TRUE /\ m.source = ""
    BY <1>1, <1>2, <1>5, LinkFields
  <2>2. m.active  BY <2>1
  <2> QED  BY <1>5, <2>1, <2>2 DEF MergedLink, q, l, m
<1>6. CASE p \notin Moved(q) /\ l.device = q.dev /\ m = NoLink
  <2>1. m \in Link /\ m.device = None /\ m.active = FALSE
    BY <1>1, <1>2, <1>6, LinkFields
  <2>2. ~m.active  BY <2>1
  <2> QED  BY <1>6, <2>1, <2>2 DEF MergedLink, q, l, m
<1>7. CASE l.device # q.dev /\ m = l /\ ~\E x \in Promoted(q) : x[1] = p
  BY <1>2, <1>7 DEF MergedLink, q, l, m
<1> QED  BY <1>3, <1>4, <1>5, <1>6, <1>7

LEMMA MergeData ==
    ASSUME RegistryInv, NEW r \in Requests, Merge(r), begun' = begun
    PROVE  DataOK'
<1> DEFINE q == req[r]
<1>1. /\ q.step = "merge" /\ used' = used /\ pass' = pass /\ unregistered' = unregistered
      /\ link' = [p \in LinkIds |-> link'[p]]
      /\ inbox' = [inbox EXCEPT ![q.old] = inbox[q.old] \cup inbox[q.dev], ![q.dev] = {}]
      /\ quiet' = [quiet EXCEPT ![q.old] = quiet[q.old] \cup quiet[q.dev], ![q.dev] = {}]
      /\ device' = [device EXCEPT ![q.old] = AppliedFields(q.user, q.token),
                                  ![q.dev] = None]
      /\ ReleaseLocks(r)
  BY DEF Merge, Outside
<1>2. /\ q \in Request /\ q.token \in Tokens /\ q.old \in DeviceIds /\ q.dev \in DeviceIds
      /\ device[q.old] # None
  BY <1>1, MergeRows
<1>3. q.user \in Owners  BY <1>2 DEF Request
<1>4. DataOK  BY Parts
<1>5. AppliedFields(q.user, q.token) \in Device  BY <1>2, <1>3, AppliedType
<1>6. device' \in [DeviceIds -> Device \cup {None}]
      /\ \A d \in DeviceIds : device'[d] # None => device[d] # None
  BY <1>1, <1>2, <1>4, <1>5 DEF DataOK
<1>7. exists' \subseteq used'  BY <1>1, <1>4, <1>6 DEF DataOK, exists
<1>8. link' \in [LinkIds -> Link]
  <2>1. \A p \in LinkIds : link'[p] \in Link  BY MergeFields
  <2> QED  BY <1>1, <2>1
<1>9. inbox' \in [DeviceIds -> SUBSET Passes] /\ quiet' \in [DeviceIds -> SUBSET DeviceIds]
  BY <1>1, <1>2, <1>4 DEF DataOK
<1>10. enroller' \in [LinkIds -> [user : Owners, late : BOOLEAN]]
  <2>1. ASSUME NEW p \in LinkIds, \E x \in Promoted(q) : x[1] = p
        PROVE  (CHOOSE x \in Promoted(q) : x[1] = p)[2] \in LinkIds
    <3>1. \A x \in Promoted(q) : x[2] \in LinksOf(q.dev)  BY <1>1, MergeDecides
    <3> HIDE DEF q
    <3> QED  BY <2>1, <3>1 DEF LinksOf
  <2>2. enroller' = [p \in LinkIds |->
                       IF \E x \in Promoted(q) : x[1] = p
                       THEN enroller[(CHOOSE x \in Promoted(q) : x[1] = p)[2]]
                       ELSE enroller[p]]
    BY DEF Merge
  <2> HIDE DEF q
  <2> QED  BY <1>4, <2>1, <2>2 DEF DataOK
<1>11. lock' \in [DeviceIds -> Requests \cup {None}]  BY <1>1, <1>4, Released
<1> QED  BY <1>1, <1>4, <1>6, <1>7, <1>8, <1>9, <1>10, <1>11 DEF DataOK

LEMMA MergeStep ==
    ASSUME RegistryInv, NEW r \in Requests, Merge(r)
    PROVE  RegistryInv'
<1> DEFINE q == req[r]
<1>1. /\ q.step = "merge" /\ ReleaseLocks(r) /\ AfterUpsert(r, q.old)
      /\ device' = [device EXCEPT ![q.old] = AppliedFields(q.user, q.token),
                                  ![q.dev] = None]
  BY DEF Merge
<1>2. /\ q \in Request /\ q.token \in Tokens /\ q.old # q.dev
      /\ q.old \in DeviceIds /\ lock[q.old] = r
      /\ q.dev \in DeviceIds /\ lock[q.dev] = r
  BY <1>1, MergeRows
<1>3. q.user \in Owners  BY <1>2 DEF Request
<1>4. DataOK /\ LinkParts  BY Parts
<1>5. /\ device'[q.old] # None
      /\ \A d \in DeviceIds : d \notin {q.old, q.dev} => device'[d] = device[d]
  BY <1>1, <1>2, <1>3, <1>4, AppliedType DEF DataOK
<1>6. \A p \in LinkIds : MergedLink(q, p)  BY MergeFields
<1>7. \A p \in Moved(q) : \A z \in LinkIds : link[z].device = q.old => z[2] # p[2]
  <2>1. \A p \in Moved(q) : \A z \in LinksOf(q.old) : z[2] # p[2]  BY <1>1, MergeDecides
  <2> QED  BY <2>1 DEF LinksOf
<1>8. \A p \in LinkIds : link[p].device \in DeviceIds \cup {None} /\ link[p].active \in BOOLEAN
  BY <1>4 DEF DataOK, Link
<1>9. r # None  BY Markers
<1>10. q.step \in Upserting  BY <1>1 DEF Upserting, Rotating
<1>11. begun' = begun => DataOK'  BY MergeData
<1> HIDE DEF q
<1>12. Home'
  <2> SUFFICES ASSUME NEW p \in LinkIds
               PROVE  /\ link'[p].device # None => device'[link'[p].device] # None
                      /\ link'[p].device = None => ~link'[p].active
    BY DEF Home
  <2>1. MergedLink(q, p)  BY <1>6
  <2>2. /\ link[p].device # None => device[link[p].device] # None
        /\ link[p].device = None => ~link[p].active
    BY <1>4 DEF LinkParts, Home
  <2>3. q.dev # None /\ q.old # None /\ link[p].device \in DeviceIds \cup {None}
    BY <1>2, <1>8, Markers
  <2> QED  BY <1>5, <2>1, <2>2, <2>3 DEF MergedLink
<1>13. AuditMatches'
  <2> SUFFICES ASSUME NEW p \in LinkIds, link'[p].device # None
               PROVE  link'[p].active <=> link'[p].source = ""
    BY DEF AuditMatches
  <2>1. MergedLink(q, p)  BY <1>6
  <2>2. link[p].device # None => (link[p].active <=> link[p].source = "")
    BY <1>4 DEF LinkParts, AuditMatches
  <2>3. q.dev # None  BY <1>2, Markers
  <2> QED  BY <2>1, <2>2, <2>3 DEF MergedLink
<1>14. OneLinkPerPair'
  <2> SUFFICES ASSUME NEW p \in LinkIds, NEW z \in LinkIds, p # z,
                      link'[p].device = link'[z].device, link'[p].device # None
               PROVE  p[2] # z[2]
    BY DEF OneLinkPerPair
  <2>1. link[p].device = link[z].device /\ link[p].device # None => p[2] # z[2]
    BY <1>4 DEF LinkParts, OneLinkPerPair
  <2>2. q.dev # None /\ q.old # None  BY <1>2, Markers
  <2>3. MergedLink(q, p) /\ MergedLink(q, z)  BY <1>6
  <2> QED  BY <1>2, <1>7, <2>1, <2>2, <2>3 DEF MergedLink
<1>15. Respects(r)
  <2> SUFFICES ASSUME NEW d \in DeviceIds, lock[d] # None, lock[d] # r
               PROVE  /\ lock'[d] = lock[d] /\ device'[d] = device[d]
                      /\ \A p \in LinkIds : link'[p].device = d <=> link[p].device = d
    BY DEF Respects, Merge
  <2>1. d # q.old /\ d # q.dev /\ d # None  BY <1>2, Markers
  <2>2. lock'[d] = lock[d]  BY <1>1, <1>4, Released
  <2> QED  BY <1>5, <1>6, <2>1, <2>2 DEF MergedLink
<1>16. LinkParts'  BY <1>12, <1>13, <1>14 DEF LinkParts
<1> QED  BY <1>1, <1>2, <1>10, <1>11, <1>15, <1>16, DoneStep DEF q

\* A step that saves the fields of one row, and changes no link.
LEMMA RotateStep ==
    ASSUME RegistryInv, NEW r \in Requests, Rotate(r)
    PROVE  RegistryInv'
<1> DEFINE q == req[r]
<1>1. /\ q.step = "rotate" /\ ReleaseLocks(r) /\ AfterUpsert(r, q.old)
      /\ device' = [device EXCEPT ![q.old] = AppliedFields(q.user, q.token)]
      /\ used' = used /\ link' = link /\ inbox' = inbox /\ quiet' = quiet
      /\ enroller' = enroller /\ pass' = pass /\ unregistered' = unregistered
  BY DEF Rotate, Outside
<1>2. q \in Request /\ Shape(q) /\ Holds(r) /\ DataOK /\ LinkParts  BY RequestOf, Parts
<1>3. /\ q.token \in Tokens /\ q.old \in DeviceIds /\ lock[q.old] = r
      /\ device[q.old] # None /\ q.step \in Upserting
  BY <1>1, <1>2 DEF Shape, Upserting, Rotating, Holds
<1>4. q.user \in Owners  BY <1>2 DEF Request
<1>5. AppliedFields(q.user, q.token) \in Device /\ AppliedFields(q.user, q.token) # None
  BY <1>3, <1>4, AppliedType
<1>6. /\ device' \in [DeviceIds -> Device \cup {None}]
      /\ \A d \in DeviceIds : device'[d] # None <=> device[d] # None
      /\ \A d \in DeviceIds : d # q.old => device'[d] = device[d]
  BY <1>1, <1>2, <1>3, <1>5 DEF DataOK
<1>7. /\ lock' \in [DeviceIds -> Requests \cup {None}]
      /\ \A d \in DeviceIds : lock[d] # r => lock'[d] = lock[d]
  BY <1>1, <1>2, Released
<1>8. exists' \subseteq used'  BY <1>1, <1>2, <1>6 DEF DataOK, exists
<1>9. begun' = begun => DataOK'  BY <1>1, <1>2, <1>6, <1>7, <1>8 DEF DataOK
<1>10. LinkParts'  BY <1>1, <1>2, <1>6, SameLinks DEF DataOK
<1>11. Respects(r)  BY <1>1, <1>3, <1>6, <1>7 DEF Respects
<1> QED  BY <1>1, <1>3, <1>9, <1>10, <1>11, DoneStep

\* A transaction that is rolled back.
LEMMA RolledBack ==
    ASSUME RegistryInv, NEW r \in Requests, ReleaseLocks(r), End(r),
           UNCHANGED <<Data, Outside>>
    PROVE  RegistryInv'
<1>1. DataOK  BY Parts
<1>2. /\ lock' \in [DeviceIds -> Requests \cup {None}]
      /\ \A d \in DeviceIds : lock[d] \notin {None, r} => lock'[d] = lock[d]
  BY <1>1, Released
<1>3. req' = [req EXCEPT ![r] = Idle] /\ begun' \in 0 .. MaxRequests
  BY <1>1 DEF End, DataOK
<1>4. Shape(Idle) /\ Idle.step \notin Rotating /\ Idle.step # "patch"
  BY IdleType DEF Shape, Rotating, Upserting
<1>5. Holds(r)'
  <2>1. req'[r] = Idle  BY <1>3, Parts
  <2> QED  BY <1>4, <2>1, HoldsNothing
<1> QED  BY <1>2, <1>3, <1>4, <1>5, IdleType, StepWithoutData

\* What a takeover does to a link.
LEMMA TakenOver ==
    ASSUME DataOK, NEW d \in DeviceIds, NEW u, TakeOverLinks(d, u)
    PROVE  /\ link' \in [LinkIds -> Link]
           /\ \A p \in LinkIds :
                 /\ link'[p].device = link[p].device
                 /\ \/ link'[p] = link[p]
                    \/ link[p].device = d /\ ~link'[p].active /\ link'[p].source = "takeover"
           /\ device[d].user \in {NoUser, u} => link' = link
           /\ device[d].user \notin {NoUser, u} =>
                 \A p \in LinkIds : link[p].device = d => ~link'[p].active
<1>1. CASE device[d].user \in {NoUser, u}
  BY <1>1 DEF TakeOverLinks, DataOK
<1>2. CASE device[d].user \notin {NoUser, u}
  <2>1. link' = [p \in LinkIds |->
                   IF link[p].device = d /\ link[p].active
                   THEN [link[p] EXCEPT !.active = FALSE, !.source = "takeover"]
                   ELSE link[p]]
    BY <1>2 DEF TakeOverLinks
  <2>2. ASSUME NEW p \in LinkIds
        PROVE  /\ link'[p] \in Link /\ link'[p].device = link[p].device
               /\ \/ link'[p] = link[p]
                  \/ link[p].device = d /\ ~link'[p].active /\ link'[p].source = "takeover"
               /\ link[p].device = d => ~link'[p].active
    <3>1. link[p] \in Link /\ FALSE \in BOOLEAN /\ "takeover" \in UnlinkSource
      BY DEF DataOK, UnlinkSource
    <3>2. CASE link[p].device = d /\ link[p].active
      <4>1. link'[p] = [link[p] EXCEPT !.active = FALSE, !.source = "takeover"]
        BY <2>1, <3>2
      <4>2. /\ link'[p] \in Link /\ link'[p].device = link[p].device
            /\ link'[p].active = FALSE /\ link'[p].source = "takeover"
        BY <3>1, <4>1 DEF Link
      <4> QED  BY <3>2, <4>2
    <3>3. CASE ~(link[p].device = d /\ link[p].active)
      <4>1. link'[p] = link[p]  BY <2>1, <3>3
      <4> QED  BY <3>1, <3>3, <4>1
    <3> QED  BY <3>2, <3>3
  <2>3. link' \in [LinkIds -> Link]  BY <2>1, <2>2
  <2> QED  BY <1>2, <2>2, <2>3
<1> QED  BY <1>1, <1>2

LEMMA UpdateDeviceStep ==
    ASSUME RegistryInv, NEW r \in Requests, req[r].step \in {"select", "reselect"},
           NEW d \in WithToken(req[r].token), UpdateDevice(r, d)
    PROVE  RegistryInv'
<1> DEFINE q == req[r]
<1>1. /\ FreeFor(d, r) /\ TakeOverLinks(d, q.user) /\ ReleaseLocks(r) /\ AfterUpsert(r, d)
      /\ device' = [device EXCEPT ![d] = AppliedFields(q.user, q.token)]
      /\ used' = used /\ inbox' = inbox /\ quiet' = quiet
      /\ enroller' = enroller /\ pass' = pass /\ unregistered' = unregistered
  BY DEF UpdateDevice, Outside
<1>2. q \in Request /\ Shape(q) /\ DataOK /\ LinkParts  BY RequestOf, Parts
<1>3. q.step \in Upserting /\ q.token \in Tokens  BY <1>2 DEF Shape, Upserting
<1>4. q.user \in Owners  BY <1>2 DEF Request
<1>5. AppliedFields(q.user, q.token) \in Device /\ AppliedFields(q.user, q.token) # None
  BY <1>3, <1>4, AppliedType
<1>6. d \in DeviceIds /\ device[d] # None  BY TokenRow
<1>7. /\ device' \in [DeviceIds -> Device \cup {None}]
      /\ \A e \in DeviceIds : device'[e] # None <=> device[e] # None
      /\ \A e \in DeviceIds : e # d => device'[e] = device[e]
  BY <1>1, <1>2, <1>5, <1>6 DEF DataOK
<1>8. /\ lock' \in [DeviceIds -> Requests \cup {None}]
      /\ \A e \in DeviceIds : lock[e] # r => lock'[e] = lock[e]
  BY <1>1, <1>2, Released
<1>9. exists' \subseteq used'  BY <1>1, <1>2, <1>7 DEF DataOK, exists
<1>10. /\ link' \in [LinkIds -> Link]
       /\ \A p \in LinkIds :
             /\ link'[p].device = link[p].device
             /\ \/ link'[p] = link[p]
                \/ link[p].device = d /\ ~link'[p].active /\ link'[p].source = "takeover"
  BY <1>1, <1>2, <1>6, TakenOver
<1>11. begun' = begun => DataOK'  BY <1>1, <1>2, <1>7, <1>8, <1>9, <1>10 DEF DataOK
<1>12. LinkParts'
  <2>1. \A p \in LinkIds :
          /\ link'[p].device = link[p].device
          /\ \/ link'[p] = link[p]
             \/ link[p].device # None /\ (link'[p].active <=> link'[p].source = "")
    BY <1>6, <1>10, Markers
  <2> QED  BY <1>2, <1>7, <2>1, LinksInPlace DEF DataOK
<1>13. Respects(r)  BY <1>1, <1>7, <1>8, <1>10 DEF Respects, FreeFor
<1> QED  BY <1>1, <1>3, <1>6, <1>11, <1>12, <1>13, DoneStep

\* From a step of the upsert to the next.
LEMMA UpsertGoesOn ==
    ASSUME RegistryInv, NEW r \in Requests, req[r].step \in {"select", "insert"},
           NEW step \in {"insert", "reselect"}, GoOn(r, [req[r] EXCEPT !.step = step]),
           UNCHANGED <<Data, lock, Outside>>
    PROVE  RegistryInv'
<1> DEFINE q == req[r]
           new == [q EXCEPT !.step = step]
<1>1. /\ q \in Request /\ Shape(q) /\ lock \in [DeviceIds -> Requests \cup {None}]
  BY RequestOf
<1>2. q.token \in Tokens /\ (q.op = "link" => q.app \in Apps)
  BY <1>1 DEF Shape, Upserting
<1>3. step \in Steps  BY DEF Steps
<1>4. /\ new \in Request /\ new.step = step /\ new.token = q.token /\ new.op = q.op
      /\ new.app = q.app
  BY <1>1, <1>3 DEF Request
<1>5. GoOn(r, new) /\ lock' = lock  OBVIOUS
<1> HIDE DEF new, q
<1>6. /\ Shape(new) /\ new.step \notin Rotating /\ new.step \notin Merging
      /\ new.step \notin {"source_links", "merge"} /\ new.step # "patch"
  BY <1>2, <1>4 DEF Shape, Rotating, Merging
<1> QED  BY <1>1, <1>4, <1>5, <1>6, NextStep

LEMMA UpsertStep ==
    ASSUME RegistryInv, NEW r \in Requests, Upsert(r)
    PROVE  RegistryInv'
<1>1. req[r].step = "select"  BY DEF Upsert
<1>2. CASE \E d \in WithToken(req[r].token) : UpdateDevice(r, d)
  BY <1>1, <1>2, UpdateDeviceStep
<1>3. CASE GoOn(r, [req[r] EXCEPT !.step = "insert"]) /\ UNCHANGED <<Data, lock, Outside>>
  BY <1>1, <1>3, UpsertGoesOn
<1> QED  BY <1>2, <1>3 DEF Upsert

LEMMA ReselectStep ==
    ASSUME RegistryInv, NEW r \in Requests, Reselect(r)
    PROVE  RegistryInv'
<1>1. req[r].step = "reselect"  BY DEF Reselect
<1>2. CASE \E d \in WithToken(req[r].token) : UpdateDevice(r, d)
  BY <1>1, <1>2, UpdateDeviceStep
<1>3. CASE ReleaseLocks(r) /\ End(r) /\ UNCHANGED <<Data, Outside>>
  BY <1>3, RolledBack
<1> QED  BY <1>2, <1>3 DEF Reselect

LEMMA InsertStep ==
    ASSUME RegistryInv, NEW r \in Requests, Insert(r)
    PROVE  RegistryInv'
<1> DEFINE q == req[r]
<1>1. q.step = "insert"  BY DEF Insert
<1>2. CASE GoOn(r, [q EXCEPT !.step = "reselect"]) /\ UNCHANGED <<Data, lock, Outside>>
  BY <1>1, <1>2, UpsertGoesOn
<1>3. ASSUME NEW d \in DeviceIds \ used, used' = used \cup {d}, AfterUpsert(r, d),
             device' = [device EXCEPT ![d] = AppliedFields(q.user, q.token)],
             ReleaseLocks(r), UNCHANGED <<link, inbox, quiet, enroller, Outside>>
      PROVE  RegistryInv'
  <2>1. q \in Request /\ Shape(q) /\ DataOK /\ LinkParts  BY RequestOf, Parts
  <2>2. q.step \in Upserting /\ q.token \in Tokens  BY <1>1, <2>1 DEF Shape, Upserting
  <2>3. q.user \in Owners  BY <2>1 DEF Request
  <2>4. AppliedFields(q.user, q.token) \in Device /\ AppliedFields(q.user, q.token) # None
    BY <2>2, <2>3, AppliedType
  <2>5. /\ link' = link /\ inbox' = inbox /\ quiet' = quiet /\ enroller' = enroller
        /\ pass' = pass /\ unregistered' = unregistered
    BY <1>3 DEF Outside
  <2>6. device[d] = None  BY <1>3, <2>1 DEF DataOK, exists
  <2>7. /\ device' \in [DeviceIds -> Device \cup {None}]
        /\ device'[d] # None
        /\ \A e \in DeviceIds : e # d => device'[e] = device[e]
    BY <1>3, <2>1, <2>4 DEF DataOK
  <2>8. exists' \subseteq used' /\ used' \subseteq DeviceIds
    BY <1>3, <2>1, <2>7 DEF DataOK, exists
  <2>9. /\ lock' \in [DeviceIds -> Requests \cup {None}]
        /\ \A e \in DeviceIds : lock[e] # r => lock'[e] = lock[e]
    BY <1>3, <2>1, Released
  <2>10. begun' = begun => DataOK'  BY <2>1, <2>5, <2>7, <2>8, <2>9 DEF DataOK
  <2>11. LinkParts'  BY <2>1, <2>5, <2>6, <2>7, SameLinks DEF DataOK
  <2>12. Respects(r)  BY <1>3, <2>5, <2>6, <2>7, <2>9 DEF Respects
  <2> QED  BY <1>3, <2>2, <2>10, <2>11, <2>12, DoneStep
<1> QED  BY <1>1, <1>2, <1>3 DEF Insert

-----------------------------------------------------------------------------
(* Links, PATCH and DELETE *)

\* A request that ends without having locked a row.
LEMMA EndsUnlocked ==
    ASSUME RegistryInv, NEW r \in Requests, End(r), lock' = lock, Respects(r),
           begun' = begun => DataOK', LinkParts'
    PROVE  RegistryInv'
<1>1. req' = [req EXCEPT ![r] = Idle] /\ begun' = begun  BY DEF End
<1>2. Shape(Idle) /\ Idle.step \notin Rotating /\ Idle.step # "patch"
  BY IdleType DEF Shape, Rotating, Upserting
<1>3. Holds(r)'
  <2>1. req'[r] = Idle  BY <1>1, Parts
  <2> QED  BY <1>2, <2>1, HoldsNothing
<1> QED  BY <1>1, <1>2, <1>3, IdleType, StepOf

\* What get_or_create does: it enrols p, finds nothing to do, or goes on with p.
LEMMA LinkDeviceShape ==
    ASSUME RegistryInv, NEW r \in Requests, LinkDevice(r)
    PROVE  LET q == req[r]
           IN  /\ q.dev \in DeviceIds /\ q.app \in Apps /\ q.user \in Owners
               /\ UNCHANGED <<used, device, inbox, quiet, lock, Outside>>
               /\ \/ /\ device[q.dev] # None /\ lock[q.dev] = None /\ End(r)
                     /\ \A p \in LinkIds : link[p].device = q.dev => p[2] # q.app
                     /\ \E p \in LinkIds :
                          /\ p[2] = q.app /\ link[p].device = None
                          /\ link' = [link EXCEPT ![p] = [device |-> q.dev, active |-> TRUE,
                                                          source |-> ""]]
                          /\ enroller' = [enroller EXCEPT ![p] = Enroller(q.user, q.dev)]
                  \/ End(r) /\ UNCHANGED <<link, enroller>>
                  \/ /\ UNCHANGED <<link, enroller>>
                     /\ \E p \in LinkIds : GoOn(r, [q EXCEPT !.step = "relink", !.pk = p])
<1> DEFINE q == req[r]
<1>1. q.step = "link"  BY DEF LinkDevice
<1>2. q \in Request /\ Shape(q)  BY RequestOf
<1>3. q.dev \in DeviceIds /\ q.app \in Apps /\ q.user \in Owners
  BY <1>1, <1>2 DEF Shape, Request
<1>4. \A d \in DeviceIds : d \in exists <=> device[d] # None  BY DEF exists
<1>5. \A p \in LinkIds : p \in LinkOf(q.dev, q.app) <=> link[p].device = q.dev /\ p[2] = q.app
  BY DEF LinkOf, LinksOf
<1>6. LinkOf(q.dev, q.app) \subseteq LinkIds  BY DEF LinkOf, LinksOf
<1> QED  BY <1>3, <1>4, <1>5, <1>6 DEF LinkDevice, Free

LEMMA EnrollerType ==
    ASSUME NEW u \in Owners, NEW d
    PROVE  /\ Enroller(u, d) \in [user : Owners, late : BOOLEAN]
           /\ Enroller(u, d).user = u
           /\ Enroller(u, d).late \/ device[d].user = u
BY DEF Enroller

LEMMA LinkDeviceStep ==
    ASSUME RegistryInv, NEW r \in Requests, LinkDevice(r)
    PROVE  RegistryInv'
<1> DEFINE q == req[r]
           who == Enroller(q.user, q.dev)
           fresh == [device |-> q.dev, active |-> TRUE, source |-> ""]
<1>1. /\ q.dev \in DeviceIds /\ q.user \in Owners
      /\ used' = used /\ device' = device /\ inbox' = inbox /\ quiet' = quiet /\ lock' = lock
      /\ pass' = pass /\ unregistered' = unregistered
  BY LinkDeviceShape DEF Outside
<1>2. \/ /\ device[q.dev] # None /\ lock[q.dev] = None /\ End(r)
         /\ \A p \in LinkIds : link[p].device = q.dev => p[2] # q.app
         /\ \E p \in LinkIds : p[2] = q.app /\ link[p].device = None
              /\ link' = [link EXCEPT ![p] = fresh] /\ enroller' = [enroller EXCEPT ![p] = who]
      \/ End(r) /\ UNCHANGED <<link, enroller>>
      \/ /\ UNCHANGED <<link, enroller>>
         /\ \E p \in LinkIds : GoOn(r, [q EXCEPT !.step = "relink", !.pk = p])
  BY LinkDeviceShape
<1>3. DataOK /\ LinkParts /\ q \in Request  BY Parts, RequestOf
<1>4. who \in [user : Owners, late : BOOLEAN]  BY <1>1, EnrollerType
<1>5. /\ fresh \in Link /\ fresh.device = q.dev /\ fresh.active /\ fresh.source = ""
  <2>1. TRUE \in BOOLEAN /\ "" \in UnlinkSource  BY DEF UnlinkSource
  <2> QED  BY <1>1, <2>1 DEF Link
<1> HIDE DEF who, fresh, q
<1>6. exists' \subseteq used'  BY <1>1, <1>3 DEF DataOK, exists
<1>7. ASSUME link' \in [LinkIds -> Link],
             enroller' \in [LinkIds -> [user : Owners, late : BOOLEAN]], begun' = begun
      PROVE  DataOK'
  BY <1>1, <1>3, <1>6, <1>7 DEF DataOK
<1>8. CASE End(r) /\ UNCHANGED <<link, enroller>>
  <2>1. begun' = begun => DataOK'  BY <1>3, <1>7, <1>8 DEF DataOK
  <2>2. LinkParts'  BY <1>1, <1>3, <1>8, SameLinks DEF DataOK
  <2>3. Respects(r)  BY <1>1, <1>8 DEF Respects
  <2> QED  BY <1>1, <1>8, <2>1, <2>2, <2>3, EndsUnlocked
<1>9. ASSUME UNCHANGED <<link, enroller>>, NEW p \in LinkIds,
             GoOn(r, [q EXCEPT !.step = "relink", !.pk = p])
      PROVE  RegistryInv'
  <2> DEFINE new == [q EXCEPT !.step = "relink", !.pk = p]
  <2>1. new \in Request /\ new.step = "relink" /\ new.pk = p
    <3>1. "relink" \in Steps  BY DEF Steps
    <3> QED  BY <1>3, <3>1 DEF Request
  <2>2. GoOn(r, new)  BY <1>9
  <2> HIDE DEF new
  <2>3. /\ Shape(new) /\ new.step # "patch" /\ new.step \notin Rotating
        /\ new.step \notin Merging /\ new.step \notin {"source_links", "merge"}
    BY <2>1 DEF Shape, Upserting, Rotating, Merging
  <2>4. UNCHANGED <<Data, Outside>>  BY <1>1, <1>9 DEF Data, Outside
  <2>5. lock \in [DeviceIds -> Requests \cup {None}]  BY <1>3 DEF DataOK
  <2> QED  BY <1>1, <2>1, <2>2, <2>3, <2>4, <2>5, NextStep
<1>10. ASSUME device[q.dev] # None, lock[q.dev] = None, End(r),
              \A z \in LinkIds : link[z].device = q.dev => z[2] # q.app,
              NEW p \in LinkIds, p[2] = q.app, link[p].device = None,
              link' = [link EXCEPT ![p] = fresh], enroller' = [enroller EXCEPT ![p] = who]
       PROVE  RegistryInv'
  <2>1. /\ link' \in [LinkIds -> Link]
        /\ link'[p] = fresh /\ \A z \in LinkIds : z # p => link'[z] = link[z]
    BY <1>3, <1>5, <1>10 DEF DataOK
  <2>2. enroller' \in [LinkIds -> [user : Owners, late : BOOLEAN]]
    BY <1>3, <1>4, <1>10 DEF DataOK
  <2>3. begun' = begun => DataOK'  BY <1>7, <2>1, <2>2
  <2>4. Home'  BY <1>1, <1>3, <1>5, <1>10, <2>1, Markers DEF LinkParts, Home
  <2>5. AuditMatches'  BY <1>3, <1>5, <2>1 DEF LinkParts, AuditMatches
  <2>6. OneLinkPerPair'
    <3> SUFFICES ASSUME NEW x \in LinkIds, NEW z \in LinkIds, x # z,
                        link'[x].device = link'[z].device, link'[x].device # None
                 PROVE  x[2] # z[2]
      BY DEF OneLinkPerPair
    <3>1. link[x].device = link[z].device /\ link[x].device # None => x[2] # z[2]
      BY <1>3 DEF LinkParts, OneLinkPerPair
    <3>2. CASE x # p /\ z # p  BY <2>1, <3>1, <3>2
    <3>3. CASE x = p
      <4>1. link'[x].device = q.dev /\ link'[z] = link[z]  BY <1>5, <2>1, <3>3
      <4> QED  BY <1>10, <3>3, <4>1
    <3>4. CASE z = p
      <4>1. link'[z].device = q.dev /\ link'[x] = link[x]  BY <1>5, <2>1, <3>4
      <4> QED  BY <1>10, <3>4, <4>1
    <3> QED  BY <3>2, <3>3, <3>4
  <2>7. LinkParts'  BY <2>4, <2>5, <2>6 DEF LinkParts
  <2>8. Respects(r)
    <3>1. \A d \in DeviceIds : lock[d] # None => d # q.dev /\ d # None  BY <1>10, Markers
    <3>2. ASSUME NEW d \in DeviceIds, lock[d] # None, NEW z \in LinkIds
          PROVE  link'[z].device = d <=> link[z].device = d
      <4>1. CASE z = p  BY <1>5, <1>10, <2>1, <3>1, <3>2, <4>1
      <4>2. CASE z # p  BY <2>1, <4>2
      <4> QED  BY <4>1, <4>2
    <3> QED  BY <1>1, <3>2 DEF Respects
  <2> QED  BY <1>1, <1>10, <2>3, <2>7, <2>8, EndsUnlocked
<1> QED  BY <1>2, <1>8, <1>9, <1>10

\* The link as it is under its lock.
LEMMA RelinkStep ==
    ASSUME RegistryInv, NEW r \in Requests, Relink(r)
    PROVE  RegistryInv'
<1> DEFINE q == req[r]
           p == q.pk
           who == Enroller(q.user, link[p].device)
<1>1. /\ q.step = "relink" /\ End(r)
      /\ used' = used /\ device' = device /\ inbox' = inbox /\ quiet' = quiet /\ lock' = lock
      /\ pass' = pass /\ unregistered' = unregistered
      /\ \/ UNCHANGED <<link, enroller>>
         \/ /\ link[p].device # None
            /\ link' = [link EXCEPT ![p] = Reactivated(link[p])]
            /\ enroller' = [enroller EXCEPT ![p] = who]
  BY DEF Relink, Outside
<1>2. DataOK /\ LinkParts /\ q \in Request /\ Shape(q)  BY Parts, RequestOf
<1>3. p \in LinkIds /\ q.user \in Owners  BY <1>1, <1>2 DEF Shape, Request
<1>4. who \in [user : Owners, late : BOOLEAN]  BY <1>3, EnrollerType
<1>5. /\ Reactivated(link[p]) \in Link /\ Reactivated(link[p]).device = link[p].device
      /\ Reactivated(link[p]).active /\ Reactivated(link[p]).source = ""
  <2>1. TRUE \in BOOLEAN /\ "" \in UnlinkSource  BY DEF UnlinkSource
  <2>2. link[p] \in Link  BY <1>2, <1>3 DEF DataOK
  <2> QED  BY <2>1, <2>2 DEF Reactivated, Link
<1> HIDE DEF who, p, q
<1>6. /\ link' \in [LinkIds -> Link]
      /\ \A z \in LinkIds :
            /\ link'[z].device = link[z].device
            /\ \/ link'[z] = link[z]
               \/ link[z].device # None /\ (link'[z].active <=> link'[z].source = "")
  BY <1>1, <1>2, <1>3, <1>5 DEF DataOK
<1>7. enroller' \in [LinkIds -> [user : Owners, late : BOOLEAN]]
  BY <1>1, <1>2, <1>3, <1>4 DEF DataOK
<1>8. exists' \subseteq used'  BY <1>1, <1>2 DEF DataOK, exists
<1>9. begun' = begun => DataOK'  BY <1>1, <1>2, <1>6, <1>7, <1>8 DEF DataOK
<1>10. LinkParts'  BY <1>1, <1>2, <1>6, LinksInPlace DEF DataOK
<1>11. Respects(r)  BY <1>1, <1>6 DEF Respects
<1> QED  BY <1>1, <1>9, <1>10, <1>11, EndsUnlocked

LEMMA SaveUnlinkStep ==
    ASSUME RegistryInv, NEW r \in Requests, req[r].step \in {"unlink", "evict"}, SaveUnlink(r)
    PROVE  RegistryInv'
<1> DEFINE q == req[r]
           new == Unlinked(link[q.pk], q.source)
<1>1. /\ End(r) /\ used' = used /\ device' = device /\ inbox' = inbox /\ quiet' = quiet
      /\ lock' = lock /\ pass' = pass /\ unregistered' = unregistered /\ enroller' = enroller
      /\ link' = IF link[q.pk].device = None THEN link ELSE [link EXCEPT ![q.pk] = new]
  BY DEF SaveUnlink, Outside
<1>2. q \in Request /\ Shape(q) /\ DataOK /\ LinkParts  BY RequestOf, Parts
<1>3. q.pk \in LinkIds /\ q.source # "" /\ q.source \in UnlinkSource
  BY <1>2 DEF Shape, Request
<1>4. /\ new \in Link /\ new.device = link[q.pk].device /\ ~new.active /\ new.source # ""
  <2>1. link[q.pk] \in Link /\ FALSE \in BOOLEAN  BY <1>2, <1>3 DEF DataOK
  <2>2. /\ new \in Link /\ new.device = link[q.pk].device /\ new.active = FALSE
        /\ new.source = q.source
    BY <1>3, <2>1 DEF Unlinked, Link
  <2> QED  BY <1>3, <2>2
<1> HIDE DEF new, q
<1>5. /\ link' \in [LinkIds -> Link]
      /\ \A p \in LinkIds :
            /\ link'[p].device = link[p].device
            /\ \/ link'[p] = link[p]
               \/ link[p].device # None /\ (link'[p].active <=> link'[p].source = "")
  BY <1>1, <1>2, <1>3, <1>4 DEF DataOK
<1>6. exists' \subseteq used'  BY <1>1, <1>2 DEF DataOK, exists
<1>7. begun' = begun => DataOK'  BY <1>1, <1>2, <1>5, <1>6 DEF DataOK
<1>8. LinkParts'  BY <1>1, <1>2, <1>5, LinksInPlace DEF DataOK
<1>9. Respects(r)  BY <1>1, <1>5 DEF Respects
<1> QED  BY <1>1, <1>7, <1>8, <1>9, EndsUnlocked

LEMMA PatchSaveStep ==
    ASSUME RegistryInv, NEW r \in Requests, PatchSave(r)
    PROVE  RegistryInv'
<1> DEFINE q == req[r]
<1>1. /\ q.step = "patch" /\ End(r) /\ lock[q.dev] = None
      /\ used' = used /\ link' = link /\ inbox' = inbox /\ quiet' = quiet
      /\ lock' = lock /\ pass' = pass /\ unregistered' = unregistered /\ enroller' = enroller
      /\ device' = device \/ device' = [device EXCEPT ![q.dev] = q.copy]
  BY DEF PatchSave, Outside, Free
<1>2. q \in Request /\ Shape(q) /\ DataOK /\ LinkParts  BY RequestOf, Parts
<1>3. q.dev \in DeviceIds /\ q.copy \in Device /\ q.copy # None
  BY <1>1, <1>2, Markers DEF Shape
<1> HIDE DEF q
<1>4. /\ device' \in [DeviceIds -> Device \cup {None}]
      /\ \A d \in DeviceIds : device[d] # None => device'[d] # None
      /\ \A d \in DeviceIds : d # q.dev => device'[d] = device[d]
  BY <1>1, <1>2, <1>3 DEF DataOK
<1>5. exists' \subseteq used'
  <2>1. q.dev \in used  BY <1>1, RequestOf DEF Holds, q
  <2> QED  BY <1>1, <1>2, <1>4, <2>1 DEF DataOK, exists
<1>6. begun' = begun => DataOK'  BY <1>1, <1>2, <1>4, <1>5 DEF DataOK
<1>7. LinkParts'  BY <1>1, <1>2, <1>4, SameLinks DEF DataOK
<1>8. Respects(r)  BY <1>1, <1>4 DEF Respects
<1> QED  BY <1>1, <1>6, <1>7, <1>8, EndsUnlocked

LEMMA DeleteCommitStep ==
    ASSUME RegistryInv, NEW r \in Requests, DeleteCommit(r)
    PROVE  RegistryInv'
<1> DEFINE q == req[r]
<1>1. /\ q.step = "delete" /\ End(r) /\ lock[q.dev] = None
      /\ used' = used /\ lock' = lock /\ pass' = pass /\ unregistered' = unregistered
      /\ enroller' = enroller
      /\ device' = [device EXCEPT ![q.dev] = None]
      /\ link' = [p \in LinkIds |-> IF link[p].device = q.dev THEN NoLink ELSE link[p]]
      /\ inbox' = [inbox EXCEPT ![q.dev] = {}] /\ quiet' = [quiet EXCEPT ![q.dev] = {}]
  BY DEF DeleteCommit, Outside, Free
<1>2. q \in Request /\ Shape(q) /\ DataOK /\ LinkParts  BY RequestOf, Parts
<1>3. q.dev \in DeviceIds  BY <1>1, <1>2 DEF Shape
<1> HIDE DEF q
<1>4. NoLink \in Link /\ NoLink.device = None /\ ~NoLink.active
  <2>1. FALSE \in BOOLEAN /\ "" \in UnlinkSource  BY DEF UnlinkSource
  <2> QED  BY <2>1 DEF NoLink, Link
<1>5. /\ device' \in [DeviceIds -> Device \cup {None}]
      /\ \A d \in DeviceIds : device'[d] # None => device[d] # None
      /\ \A d \in DeviceIds : d # q.dev => device'[d] = device[d]
  BY <1>1, <1>2, <1>3 DEF DataOK
<1>6. exists' \subseteq used'  BY <1>1, <1>2, <1>5 DEF DataOK, exists
<1>7. link' \in [LinkIds -> Link]  BY <1>1, <1>2, <1>4 DEF DataOK
<1>8. /\ inbox' \in [DeviceIds -> SUBSET Passes] /\ quiet' \in [DeviceIds -> SUBSET DeviceIds]
  BY <1>1, <1>2 DEF DataOK
<1>9. begun' = begun => DataOK'  BY <1>1, <1>2, <1>5, <1>6, <1>7, <1>8 DEF DataOK
<1>10. \A p \in LinkIds :
         \/ link[p].device = q.dev /\ link'[p].device = None /\ ~link'[p].active
         \/ link[p].device # q.dev /\ link'[p] = link[p]
  BY <1>1, <1>4
<1>11. \A p \in LinkIds : link[p].device \in DeviceIds \cup {None}  BY <1>2 DEF DataOK, Link
<1>12. Home'  BY <1>2, <1>5, <1>10, <1>11 DEF LinkParts, Home
<1>13. OneLinkPerPair'  BY <1>2, <1>10 DEF LinkParts, OneLinkPerPair
<1>14. AuditMatches'  BY <1>2, <1>10 DEF LinkParts, AuditMatches
<1>15. LinkParts'  BY <1>12, <1>13, <1>14 DEF LinkParts
<1>16. Respects(r)  BY <1>1, <1>3, <1>5, <1>10, Markers DEF Respects
<1> QED  BY <1>1, <1>9, <1>15, <1>16, EndsUnlocked

-----------------------------------------------------------------------------
(* The send passes and the provider *)

LEMMA OutsideStep ==
    ASSUME RegistryInv, req' = req, Respects(None), DataOK', LinkParts'
    PROVE  RegistryInv'
<1>1. \A r \in Requests : Shape(req[r]) /\ Holds(r) /\ r # None
  BY Parts, Markers
<1>2. \A r \in Requests : Holds(r)'  BY <1>1, HoldsOthers
<1>3. req' \in [Requests -> Request]  BY Parts
<1> QED  BY <1>1, <1>2, <1>3, PartsNext

\* A pass that writes at most the inbox and its own state.
LEMMA InboxStep ==
    ASSUME RegistryInv, UNCHANGED <<used, device, link, quiet, enroller, lock, req, begun>>,
           inbox' \in [DeviceIds -> SUBSET Passes],
           pass' \in [Passes -> [dev : DeviceIds, token : Tokens] \cup {None}],
           unregistered' \subseteq Tokens
    PROVE  RegistryInv'
<1>1. DataOK /\ LinkParts  BY Parts
<1>2. DataOK'  BY <1>1 DEF DataOK, exists
<1>3. LinkParts'  BY <1>1, SameLinks DEF DataOK
<1>4. Respects(None)  BY DEF Respects
<1> QED  BY <1>2, <1>3, <1>4, OutsideStep

LEMMA PassStep ==
    ASSUME RegistryInv, NEW s \in Passes, Pass(s)
    PROVE  RegistryInv'
<1>0. DataOK /\ LinkParts  BY Parts
<1>1. ASSUME NEW d \in DeviceIds, NEW a \in Apps, PassLoad(s, d, a) PROVE RegistryInv'
  <2>1. /\ UNCHANGED <<used, device, link, quiet, enroller, lock, req, begun, unregistered>>
        /\ inbox' = [inbox EXCEPT ![d] = inbox[d] \cup {s}] /\ device[d] # None
        /\ \/ pass' = pass
           \/ pass' = [pass EXCEPT ![s] = [dev |-> d, token |-> device[d].token]]
    BY <1>1 DEF PassLoad, exists
  <2>2. inbox' \in [DeviceIds -> SUBSET Passes]  BY <1>0, <2>1 DEF DataOK
  <2>3. device[d].token \in Tokens  BY <1>0, <2>1 DEF DataOK, Device
  <2>4. pass' \in [Passes -> [dev : DeviceIds, token : Tokens] \cup {None}]
    BY <1>0, <2>1, <2>3 DEF DataOK
  <2>5. unregistered' \subseteq Tokens  BY <1>0, <2>1 DEF DataOK
  <2> QED  BY <2>1, <2>2, <2>4, <2>5, InboxStep
<1>2. ASSUME PassRefused(s) PROVE RegistryInv'
  <2> DEFINE d == pass[s].dev
             off == [device EXCEPT ![d].status = "invalid", ![d].enabled = FALSE]
  <2>1. /\ used' = used /\ link' = link /\ inbox' = inbox /\ quiet' = quiet
        /\ enroller' = enroller /\ lock' = lock /\ req' = req /\ begun' = begun
        /\ unregistered' = unregistered /\ pass' = [pass EXCEPT ![s] = None]
        /\ pass[s] # None /\ lock[d] = None
        /\ device' = IF d \in exists THEN off ELSE device
    BY <1>2 DEF PassRefused, Free
  <2>2. d \in DeviceIds  BY <1>0, <2>1 DEF DataOK
  <2>3. pass' \in [Passes -> [dev : DeviceIds, token : Tokens] \cup {None}]
    BY <1>0, <2>1 DEF DataOK
  <2>4. /\ device' \in [DeviceIds -> Device \cup {None}]
        /\ \A e \in DeviceIds : device'[e] # None <=> device[e] # None
        /\ \A e \in DeviceIds : e # d => device'[e] = device[e]
    <3>1. CASE d \notin exists  BY <1>0, <2>1, <3>1 DEF DataOK
    <3>2. CASE d \in exists
      <4>1. device[d] \in Device  BY <1>0, <2>2, <3>2 DEF DataOK, exists
      <4>2. "invalid" \in TokenStatus /\ FALSE \in BOOLEAN  BY DEF TokenStatus
      <4>3. off = [device EXCEPT ![d] = [device[d] EXCEPT !.status = "invalid",
                                                          !.enabled = FALSE]]
        BY <1>0, <2>2, <4>1 DEF DataOK, Device
      <4>4. [device[d] EXCEPT !.status = "invalid", !.enabled = FALSE] \in Device
        BY <4>1, <4>2 DEF Device
      <4>5. device' = [device EXCEPT ![d] = [device[d] EXCEPT !.status = "invalid",
                                                              !.enabled = FALSE]]
        BY <2>1, <3>2, <4>3
      <4>6. device'[d] \in Device /\ \A e \in DeviceIds : e # d => device'[e] = device[e]
        BY <1>0, <2>2, <4>4, <4>5 DEF DataOK
      <4>7. device' \in [DeviceIds -> Device \cup {None}]
        BY <1>0, <2>2, <4>4, <4>5 DEF DataOK
      <4> HIDE DEF d
      <4> QED  BY <4>1, <4>6, <4>7, Markers
    <3> QED  BY <3>1, <3>2
  <2>5. exists' \subseteq used'  BY <1>0, <2>1, <2>4 DEF DataOK, exists
  <2>6. DataOK'  BY <1>0, <2>1, <2>3, <2>4, <2>5 DEF DataOK
  <2>7. LinkParts'  BY <1>0, <2>1, <2>4, SameLinks DEF DataOK
  <2>8. Respects(None)  BY <2>1, <2>4 DEF Respects
  <2> QED  BY <2>1, <2>6, <2>7, <2>8, OutsideStep
<1>3. ASSUME PassAccepted(s) PROVE RegistryInv'
  <2>1. /\ UNCHANGED <<used, device, link, quiet, enroller, lock, req, begun>>
        /\ inbox' = inbox /\ unregistered' = unregistered /\ pass' = [pass EXCEPT ![s] = None]
    BY <1>3 DEF PassAccepted, Data
  <2>2. /\ inbox' \in [DeviceIds -> SUBSET Passes] /\ unregistered' \subseteq Tokens
        /\ pass' \in [Passes -> [dev : DeviceIds, token : Tokens] \cup {None}]
    BY <1>0, <2>1 DEF DataOK
  <2> QED  BY <2>1, <2>2, InboxStep
<1> QED  BY <1>1, <1>2, <1>3 DEF Pass

LEMMA UnregisterStep ==
    ASSUME RegistryInv, NEW t \in Tokens, Unregister(t)
    PROVE  RegistryInv'
<1>1. /\ UNCHANGED <<used, device, link, quiet, enroller, lock, req, begun>>
      /\ inbox' = inbox /\ pass' = pass /\ unregistered' = unregistered \cup {t}
  BY DEF Unregister, Data
<1>2. /\ inbox' \in [DeviceIds -> SUBSET Passes] /\ unregistered' \subseteq Tokens
      /\ pass' \in [Passes -> [dev : DeviceIds, token : Tokens] \cup {None}]
  BY <1>1, Parts DEF DataOK
<1> QED  BY <1>1, <1>2, InboxStep

-----------------------------------------------------------------------------
(* The invariant holds *)

LEMMA RegistryInit == Init => RegistryInv
<1> SUFFICES ASSUME Init PROVE RegistryInv
  OBVIOUS
<1>1. /\ used = InitialIds /\ exists \subseteq InitialIds
      /\ inbox = [d \in DeviceIds |-> {}] /\ quiet = [d \in DeviceIds |-> exists \cap {d}]
      /\ lock = [d \in DeviceIds |-> None] /\ req = [r \in Requests |-> Idle]
      /\ begun = 0 /\ pass = [s \in Passes |-> None] /\ unregistered = {}
  BY DEF Init
<1>2. device \in [DeviceIds -> Device \cup {None}]  BY DEF Init
<1>3. /\ link \in [LinkIds -> Link]
      /\ \A p \in LinkIds : \/ link[p] = NoLink
                            \/ /\ link[p].device = p[1] /\ p[1] \in exists
                               /\ link[p].active <=> link[p].source = ""
  <2> DEFINE L == {l \in Link : l.device # None
                     /\ <<l.active, l.source>> \in
                           {<<TRUE, "">>, <<FALSE, "owner_eviction">>}}
  <2>1. /\ link \in [LinkIds -> {NoLink} \cup L]
        /\ \A p \in LinkIds : link[p] = NoLink \/ (link[p].device = p[1] /\ p[1] \in exists)
    BY DEF Init
  <2>2. NoLink \in Link
    <3>1. FALSE \in BOOLEAN /\ "" \in UnlinkSource  BY DEF UnlinkSource
    <3> QED  BY <3>1 DEF NoLink, Link
  <2>3. L \subseteq Link  OBVIOUS
  <2>4. \A l \in L : l.active <=> l.source = ""
    <3> SUFFICES ASSUME NEW l \in L PROVE l.active <=> l.source = ""
      OBVIOUS
    <3>1. \/ <<l.active, l.source>> = <<TRUE, "">>
          \/ <<l.active, l.source>> = <<FALSE, "owner_eviction">>
      OBVIOUS
    <3>2. (l.active = TRUE /\ l.source = "") \/ (l.active = FALSE /\ l.source = "owner_eviction")
      BY <3>1
    <3> QED  BY <3>2
  <2> HIDE DEF L
  <2> QED  BY <2>1, <2>2, <2>3, <2>4
<1>4. /\ 0 \in 0 .. MaxRequests /\ FALSE \in BOOLEAN /\ InitialIds \subseteq DeviceIds
      /\ NoUser \in Owners
  BY RegistryAssumption DEF Owners
<1>5. \A d \in DeviceIds : d \in exists => device[d].user \in Owners
  BY <1>2 DEF exists, Device
<1>6. enroller \in [LinkIds -> [user : Owners, late : BOOLEAN]]
  <2> DEFINE who(p) == IF p[1] \in exists THEN device[p[1]].user ELSE NoUser
  <2>1. \A p \in LinkIds : p[1] \in DeviceIds  BY DEF LinkIds
  <2>2. \A p \in LinkIds : who(p) \in Owners  BY <1>4, <1>5, <2>1
  <2>3. enroller = [p \in LinkIds |-> [user |-> who(p), late |-> FALSE]]  BY DEF Init
  <2> HIDE DEF who
  <2> QED  BY <1>4, <2>2, <2>3
<1>7. req \in [Requests -> Request]  BY <1>1, IdleType
<1>8. TypeOK
  BY <1>1, <1>2, <1>3, <1>4, <1>6, <1>7 DEF TypeOK
<1>9. \A r \in Requests : req[r] = Idle  BY <1>1
<1>10. Shape(Idle) /\ Idle.step \notin Rotating /\ Idle.step # "patch"
  BY IdleType DEF Shape, Rotating, Upserting
<1>11. \A r \in Requests : Shape(req[r]) /\ Holds(r)
  BY <1>9, <1>10 DEF Holds, Rotating, Merging
<1>12. NoLink.device = None /\ ~NoLink.active  BY DEF NoLink
<1>13. Home
  <2>1. \A d \in exists : d # None /\ device[d] # None  BY Markers DEF exists
  <2> QED  BY <1>3, <1>12, <2>1 DEF Home
<1>14. AuditMatches  BY <1>3, <1>12 DEF AuditMatches
<1>15. OneLinkPerPair
  <2> SUFFICES ASSUME NEW p \in LinkIds, NEW z \in LinkIds, p # z,
                      link[p].device = link[z].device, link[p].device # None
               PROVE  p[2] # z[2]
    BY DEF OneLinkPerPair
  <2>1. link[p].device = p[1] /\ link[z].device = z[1]  BY <1>3, <1>12
  <2>2. p = <<p[1], p[2]>> /\ z = <<z[1], z[2]>>  BY DEF LinkIds
  <2> QED  BY <2>1, <2>2
<1> QED  BY <1>8, <1>11, <1>13, <1>14, <1>15 DEF RegistryInv

LEMMA RegistryStep == RegistryInv /\ [Next]_vars => RegistryInv'
<1> SUFFICES ASSUME RegistryInv, [Next]_vars PROVE RegistryInv'
  OBVIOUS
<1>1. CASE UNCHANGED vars
  <2>1. DataOK /\ LinkParts  BY Parts
  <2>2. /\ UNCHANGED <<used, device, link, quiet, enroller, lock, req, begun>>
        /\ inbox' \in [DeviceIds -> SUBSET Passes] /\ unregistered' \subseteq Tokens
        /\ pass' \in [Passes -> [dev : DeviceIds, token : Tokens] \cup {None}]
    BY <1>1, <2>1 DEF vars, DataOK
  <2> QED  BY <2>2, InboxStep
<1>2. ASSUME NEW r \in Requests, Begin(r) PROVE RegistryInv'
  <2>1. ASSUME NEW u \in Users, NEW t \in Tokens, NEW previous \in Tokens \cup {None},
               Identify(r, "identify", u, t, previous, None)
        PROVE  RegistryInv'
    BY <2>1, IdentifyStep
  <2>2. ASSUME NEW u \in Users, NEW t \in Tokens, NEW previous \in Tokens \cup {None},
               NEW a \in Apps, Identify(r, "link", u, t, previous, a)
        PROVE  RegistryInv'
    BY <2>2, IdentifyStep
  <2> QED  BY <1>2, <2>1, <2>2, UnlinkReadStep, EvictReadStep, PatchReadStep, DeleteReadStep
           DEF Begin
<1>3. ASSUME NEW r \in Requests, Continue(r) PROVE RegistryInv'
  <2>1. CASE RotateFails(r) \/ DeadlockVictim(r)
    BY <2>1, RolledBack DEF RotateFails, DeadlockVictim
  <2>2. CASE UnlinkSave(r) \/ EvictSave(r)
    BY <2>2, SaveUnlinkStep DEF UnlinkSave, EvictSave
  <2> QED  BY <1>3, <2>1, <2>2, SelectPreviousStep, SelectClashStep, LoadTargetLinksStep,
              LoadSourceLinksStep, MergeStep, RotateStep, UpsertStep, InsertStep,
              ReselectStep, LinkDeviceStep, RelinkStep, PatchSaveStep, DeleteCommitStep
              DEF Continue
<1> QED  BY <1>1, <1>2, <1>3, PassStep, UnregisterStep DEF Next

\* Whatever requests and send passes interleave, the registry is of its type; a
\* rotation or merge finds what it has locked as it left it; and links hang on
\* devices that exist.
THEOREM RegistryCorrect == Spec => []RegistryInv
<1>1. Init => RegistryInv  BY RegistryInit
<1>2. RegistryInv /\ [Next]_vars => RegistryInv'  BY RegistryStep
<1> QED  BY <1>1, <1>2, PTL DEF Spec

\* uniq_device_application is never violated: _merge_device_into decides which
\* links to move on lists that it has read without locking the links.
THEOREM OneLinkCorrect == Spec => []OneLinkPerPair
<1>1. RegistryInv => OneLinkPerPair  BY DEF RegistryInv
<1> QED  BY <1>1, RegistryCorrect, PTL

\* is_active and unlink_source agree, whoever wrote the link last.
THEOREM AuditCorrect == Spec => []AuditMatches
<1>1. RegistryInv => AuditMatches  BY DEF RegistryInv
<1> QED  BY <1>1, RegistryCorrect, PTL

-----------------------------------------------------------------------------
(* Subscriptions follow the owner *)

\* Only the request that has just loaded the links of the row it will delete is
\* newly at the merge.
LEMMA NewlyMerging ==
    ASSUME RegistryInv, Next, NEW s \in Requests, req'[s].step = "merge"
    PROVE  req'[s] = req[s] \/ LoadSourceLinks(s)
<1>0. req \in [Requests -> Request] /\ Idle.step # "merge"  BY Parts, IdleType
<1>1. ASSUME NEW r \in Requests, NEW new, req' = [req EXCEPT ![r] = new],
             new.step # "merge"
      PROVE  req'[s] = req[s]
  BY <1>0, <1>1
<1>2. ASSUME NEW r \in Requests, NEW op, NEW new, Start(r, op, new), new.step # "merge"
      PROVE  req'[s] = req[s]
  BY <1>1, <1>2 DEF Start
<1>3. ASSUME NEW r \in Requests, NEW new, GoOn(r, new), new.step # "merge"
      PROVE  req'[s] = req[s]
  BY <1>1, <1>3 DEF GoOn
<1>4. ASSUME NEW r \in Requests, End(r) PROVE req'[s] = req[s]
  BY <1>0, <1>1, <1>4 DEF End
<1>5. ASSUME NEW r \in Requests, NEW d, AfterUpsert(r, d) PROVE req'[s] = req[s]
  <2>1. CASE End(r)  BY <1>4, <2>1
  <2>2. CASE ~End(r)
    <3> DEFINE new == [Idle EXCEPT !.step = "link", !.op = "link",
                                   !.user = req[r].user, !.app = req[r].app, !.dev = d]
    <3>1. GoOn(r, new)  BY <1>5, <2>2 DEF AfterUpsert
    <3>2. new.step # "merge"  BY DEF Idle
    <3> HIDE DEF new
    <3> QED  BY <1>3, <3>1, <3>2
  <2> QED  BY <2>1, <2>2
<1>6. ASSUME NEW r \in Requests, Begin(r) PROVE req'[s] = req[s]
  <2>1. ASSUME NEW op, NEW u, NEW t, NEW previous, NEW a, Identify(r, op, u, t, previous, a)
        PROVE  req'[s] = req[s]
    <3> DEFINE new == [Idle EXCEPT !.step = IF previous \in {None, t} THEN "select"
                                            ELSE "previous",
                                   !.op = op, !.user = u, !.token = t,
                                   !.previous = previous, !.app = a]
    <3>1. Start(r, op, new)  BY <2>1 DEF Identify
    <3>2. new.step # "merge"  BY DEF Idle
    <3> HIDE DEF new
    <3> QED  BY <1>2, <3>1, <3>2
  <2>2. ASSUME NEW u, NEW t, NEW a, NEW src, UnlinkRead(r, u, t, a, src)
        PROVE  req'[s] = req[s]
    <3>1. PICK p : Start(r, "unlink", [Idle EXCEPT !.step = "unlink", !.op = "unlink",
                                          !.user = u, !.pk = p, !.source = src])
      BY <2>2 DEF UnlinkRead
    <3>2. [Idle EXCEPT !.step = "unlink", !.op = "unlink",
                       !.user = u, !.pk = p, !.source = src].step # "merge"
      BY DEF Idle
    <3> QED  BY <1>2, <3>1, <3>2
  <2>3. ASSUME NEW d, NEW a, EvictRead(r, d, a) PROVE req'[s] = req[s]
    <3>1. PICK p : Start(r, "evict", [Idle EXCEPT !.step = "evict", !.op = "evict",
                                          !.pk = p, !.source = "owner_eviction"])
      BY <2>3 DEF EvictRead
    <3>2. [Idle EXCEPT !.step = "evict", !.op = "evict",
                       !.pk = p, !.source = "owner_eviction"].step # "merge"
      BY DEF Idle
    <3> QED  BY <1>2, <3>1, <3>2
  <2>4. ASSUME NEW u, NEW d, NEW st, PatchRead(r, u, d, st) PROVE req'[s] = req[s]
    <3> DEFINE new == [Idle EXCEPT !.step = "patch", !.op = "patch", !.user = u,
                                   !.dev = d, !.copy = [device[d] EXCEPT !.status = st]]
    <3>1. Start(r, "patch", new) /\ new.step # "merge"  BY <2>4 DEF PatchRead, Idle
    <3> HIDE DEF new
    <3> QED  BY <1>2, <3>1
  <2>5. ASSUME NEW u, NEW d, DeleteRead(r, u, d) PROVE req'[s] = req[s]
    <3> DEFINE new == [Idle EXCEPT !.step = "delete", !.op = "delete", !.user = u, !.dev = d]
    <3>1. Start(r, "delete", new) /\ new.step # "merge"  BY <2>5 DEF DeleteRead, Idle
    <3> HIDE DEF new
    <3> QED  BY <1>2, <3>1
  <2> QED  BY <1>6, <2>1, <2>2, <2>3, <2>4, <2>5 DEF Begin
<1>7. ASSUME NEW r \in Requests, NEW step, step # "merge", NEW d,
             \/ GoOn(r, [req[r] EXCEPT !.step = step])
             \/ GoOn(r, [req[r] EXCEPT !.step = step, !.previous = None])
             \/ GoOn(r, [req[r] EXCEPT !.step = step, !.old = None])
             \/ GoOn(r, [req[r] EXCEPT !.step = step, !.old = d, !.previous = None])
             \/ GoOn(r, [req[r] EXCEPT !.step = step, !.dev = d])
             \/ GoOn(r, [req[r] EXCEPT !.step = step, !.pk = d])
             \/ GoOn(r, [req[r] EXCEPT !.step = step, !.target_links = d])
      PROVE  req'[s] = req[s]
  <2> DEFINE q == req[r]
  <2>1. q \in Request  BY <1>0
  <2> HIDE DEF q
  <2>2. /\ [q EXCEPT !.step = step].step # "merge"
        /\ [q EXCEPT !.step = step, !.previous = None].step # "merge"
        /\ [q EXCEPT !.step = step, !.old = None].step # "merge"
        /\ [q EXCEPT !.step = step, !.old = d, !.previous = None].step # "merge"
        /\ [q EXCEPT !.step = step, !.dev = d].step # "merge"
        /\ [q EXCEPT !.step = step, !.pk = d].step # "merge"
        /\ [q EXCEPT !.step = step, !.target_links = d].step # "merge"
    BY <1>7, <2>1 DEF Request
  <2> QED  BY <1>3, <1>7, <2>2 DEF q
<1>8. ASSUME NEW r \in Requests, Continue(r) PROVE req'[s] = req[s] \/ LoadSourceLinks(s)
  <2>1. CASE SelectPrevious(r)  BY <1>7, <2>1 DEF SelectPrevious
  <2>2. CASE SelectClash(r)  BY <1>7, <2>2 DEF SelectClash
  <2>3. CASE LoadTargetLinks(r)
    <3> DEFINE seen == LoadLinks(req[r].old)
    <3>1. GoOn(r, [req[r] EXCEPT !.step = "source_links", !.target_links = seen])
      BY <2>3 DEF LoadTargetLinks
    <3> HIDE DEF seen
    <3> QED  BY <1>7, <3>1
  <2>4. CASE LoadSourceLinks(r) /\ s # r
    BY <1>0, <2>4 DEF LoadSourceLinks, GoOn
  <2>5. CASE \E d : AfterUpsert(r, d)  BY <1>5, <2>5
  <2>6. CASE End(r)  BY <1>4, <2>6
  <2>7. CASE Upsert(r) \/ Insert(r) \/ Reselect(r)
    BY <1>7, <2>5, <2>6, <2>7 DEF Upsert, Insert, Reselect, UpdateDevice
  <2>8. CASE Merge(r) \/ Rotate(r)  BY <2>5, <2>8 DEF Merge, Rotate
  <2>9. CASE LinkDevice(r)
    <3>1. End(r) \/ \E p : GoOn(r, [req[r] EXCEPT !.step = "relink", !.pk = p])
      BY <2>9 DEF LinkDevice
    <3> QED  BY <1>7, <2>6, <3>1
  <2>10. CASE \/ RotateFails(r) \/ DeadlockVictim(r) \/ Relink(r) \/ UnlinkSave(r)
              \/ EvictSave(r) \/ PatchSave(r) \/ DeleteCommit(r)
    BY <2>6, <2>10 DEF RotateFails, DeadlockVictim, Relink, UnlinkSave, EvictSave,
                       SaveUnlink, PatchSave, DeleteCommit
  <2> QED  BY <1>8, <2>1, <2>2, <2>3, <2>4, <2>7, <2>8, <2>9, <2>10 DEF Continue
<1>9. CASE req' = req  BY <1>9
<1> QED  BY <1>6, <1>8, <1>9 DEF Next, Pass, PassLoad, PassRefused, PassAccepted, Unregister

\* No link that is active has changed hands.
SameHands ==
    \A p \in LinkIds : link'[p].active =>
        /\ link[p].active /\ link'[p].device = link[p].device
        /\ device[link[p].device].user \in {NoUser, device'[link[p].device].user}

LEMMA HandsKept ==
    ASSUME LinksFollowOwner, SameHands, enroller' = enroller
    PROVE  LinksFollowOwner'
<1> SUFFICES ASSUME NEW p \in LinkIds, link'[p].active
             PROVE  \/ enroller[p].user \in {NoUser, device'[link'[p].device].user}
                    \/ enroller[p].late
  BY DEF LinksFollowOwner
<1>1. /\ link[p].active /\ link'[p].device = link[p].device
      /\ device[link[p].device].user \in {NoUser, device'[link[p].device].user}
  BY DEF SameHands
<1>2. \/ enroller[p].user \in {NoUser, device[link[p].device].user} \/ enroller[p].late
  BY <1>1 DEF LinksFollowOwner
<1> QED  BY <1>1, <1>2

\* What a merge has loaded: nothing that another request writes to a link of the
\* row that it has locked makes it somebody else's without being late.
LEMMA LoadedStep ==
    ASSUME RegistryInv, OwnerInv, Next,
           \A s \in Requests : \A p \in LinkIds :
              req[s].step = "merge" /\ req'[s] = req[s] /\ link[p].device = req[s].dev =>
                 \/ enroller'[p] = enroller[p]
                 \/ enroller'[p].user \in {NoUser, req[s].user} \/ enroller'[p].late
    PROVE  LoadedFollowOwner'
<1> SUFFICES ASSUME NEW s \in Requests, req'[s].step = "merge",
                    NEW x \in req'[s].source_links, x[2]
             PROVE  enroller'[x[1]].user \in {NoUser, req'[s].user} \/ enroller'[x[1]].late
  BY DEF LoadedFollowOwner
<1>1. CASE req'[s] = req[s]
  <2>1. x[1] \in LinksOf(req[s].dev)
    <3>1. Keys(req[s].source_links) = LinksOf(req[s].dev)  BY <1>1, MergeRows
    <3> QED  BY <1>1, <3>1 DEF Keys
  <2>2. \/ enroller'[x[1]] = enroller[x[1]]
        \/ enroller'[x[1]].user \in {NoUser, req[s].user} \/ enroller'[x[1]].late
    BY <1>1, <2>1 DEF LinksOf
  <2>3. enroller[x[1]].user \in {NoUser, req[s].user} \/ enroller[x[1]].late
    BY <1>1 DEF OwnerInv, LoadedFollowOwner
  <2> QED  BY <1>1, <2>2, <2>3
<1>2. CASE LoadSourceLinks(s)
  <2> DEFINE q == req[s]
             seen == LoadLinks(q.dev)
  <2>1. /\ q.step = "source_links" /\ enroller' = enroller
        /\ req' = [req EXCEPT ![s] = [q EXCEPT !.step = "merge", !.source_links = seen]]
    BY <1>2 DEF LoadSourceLinks, GoOn, Data
  <2>2. q \in Request /\ Holds(s) /\ req \in [Requests -> Request]  BY RequestOf, Parts
  <2>3. device[q.dev].user \in {NoUser, q.user}  BY <2>1, <2>2 DEF Holds, Merging
  <2>4. req'[s].source_links = seen /\ req'[s].user = q.user
    <3> HIDE DEF seen, q
    <3>1. req'[s] = [q EXCEPT !.step = "merge", !.source_links = seen]  BY <2>1, <2>2
    <3> QED  BY <2>2, <3>1 DEF Request
  <2>5. x[1] \in LinkIds /\ link[x[1]].device = q.dev /\ link[x[1]].active
    BY <2>4 DEF LoadLinks, LinksOf
  <2>6. enroller[x[1]].user \in {NoUser, device[q.dev].user} \/ enroller[x[1]].late
    BY <2>5 DEF OwnerInv, LinksFollowOwner
  <2> QED  BY <2>1, <2>3, <2>4, <2>6
<1> QED  BY <1>1, <1>2, NewlyMerging

LEMMA OwnerByHands ==
    ASSUME RegistryInv, OwnerInv, Next, SameHands, enroller' = enroller
    PROVE  OwnerInv'
<1>1. LinksFollowOwner'  BY HandsKept DEF OwnerInv
<1>2. LoadedFollowOwner'  BY LoadedStep
<1> QED  BY <1>1, <1>2 DEF OwnerInv

\* The rows and the links stay.
LEMMA SameRows ==
    ASSUME link' = link, device' = device
    PROVE  SameHands
BY DEF SameHands

\* Link p becomes one of device d, enrolled by user u, or late.
Enrols(p, d, u) ==
    /\ link[p].device \in {None, d} /\ link'[p].device = d
    /\ enroller'[p] = Enroller(u, d)
    /\ \A z \in LinkIds : z # p => link'[z] = link[z] /\ enroller'[z] = enroller[z]

LEMMA EnrolledOwner ==
    ASSUME RegistryInv, OwnerInv, Next, device' = device,
           \E p \in LinkIds, d \in DeviceIds, u \in Owners : Enrols(p, d, u)
    PROVE  OwnerInv'
<1> PICK p \in LinkIds, d \in DeviceIds, u \in Owners : Enrols(p, d, u)
  OBVIOUS
<1> DEFINE who == Enroller(u, d)
           l == link'[p]
<1>1. who.user = u /\ (who.late \/ device[d].user = u)  BY EnrollerType
<1>2. l.device = d /\ link[p].device \in {None, d}  BY DEF Enrols
<1>3. /\ link'[p] = l /\ enroller'[p] = who
      /\ \A z \in LinkIds : z # p => link'[z] = link[z] /\ enroller'[z] = enroller[z]
  BY DEF Enrols
<1> HIDE DEF who, l
<1>4. LinksFollowOwner'
  <2> SUFFICES ASSUME NEW z \in LinkIds, link'[z].active
               PROVE  \/ enroller'[z].user \in {NoUser, device[link'[z].device].user}
                      \/ enroller'[z].late
    BY DEF LinksFollowOwner
  <2>1. CASE z = p  BY <1>1, <1>2, <1>3, <2>1
  <2>2. CASE z # p
    <3>1. link'[z] = link[z] /\ enroller'[z] = enroller[z]  BY <1>3, <2>2
    <3> QED  BY <3>1 DEF OwnerInv, LinksFollowOwner
  <2> QED  BY <2>1, <2>2
<1>5. ASSUME NEW s \in Requests, NEW z \in LinkIds, req[s].step = "merge",
             link[z].device = req[s].dev
      PROVE  \/ enroller'[z] = enroller[z]
             \/ enroller'[z].user \in {NoUser, req[s].user} \/ enroller'[z].late
  <2>1. CASE z # p  BY <1>3, <2>1
  <2>2. CASE z = p
    <3>1. req[s].dev \in DeviceIds /\ device[req[s].dev].user \in {NoUser, req[s].user}
      BY <1>5, MergeRows
    <3>2. req[s].dev = d  BY <1>2, <1>5, <2>2, <3>1, Markers
    <3> QED  BY <1>1, <1>3, <2>2, <3>1, <3>2
  <2> QED  BY <2>1, <2>2
<1>6. LoadedFollowOwner'  BY <1>5, LoadedStep
<1> QED  BY <1>4, <1>6 DEF OwnerInv

LEMMA LinkDeviceOwner ==
    ASSUME RegistryInv, OwnerInv, Next, NEW r \in Requests, LinkDevice(r)
    PROVE  OwnerInv'
<1> DEFINE q == req[r]
           fresh == [device |-> q.dev, active |-> TRUE, source |-> ""]
<1>1. /\ q.dev \in DeviceIds /\ q.user \in Owners /\ device' = device
      /\ \/ UNCHANGED <<link, enroller>>
         \/ \E p \in LinkIds :
               /\ link[p].device = None
               /\ link' = [link EXCEPT ![p] = fresh]
               /\ enroller' = [enroller EXCEPT ![p] = Enroller(q.user, q.dev)]
  BY LinkDeviceShape
<1>2. fresh.device = q.dev /\ DataOK  BY Parts
<1> HIDE DEF fresh, q
<1>3. CASE UNCHANGED <<link, enroller>>
  BY <1>1, <1>3, SameRows, OwnerByHands
<1>4. CASE \E p \in LinkIds :
             /\ link[p].device = None
             /\ link' = [link EXCEPT ![p] = fresh]
             /\ enroller' = [enroller EXCEPT ![p] = Enroller(q.user, q.dev)]
  <2>1. PICK p \in LinkIds :
           /\ link[p].device = None
           /\ link' = [link EXCEPT ![p] = fresh]
           /\ enroller' = [enroller EXCEPT ![p] = Enroller(q.user, q.dev)]
    BY <1>4
  <2>2. Enrols(p, q.dev, q.user)  BY <1>2, <2>1 DEF Enrols, DataOK
  <2> QED  BY <1>1, <2>2, EnrolledOwner
<1> QED  BY <1>1, <1>3, <1>4

LEMMA RelinkOwner ==
    ASSUME RegistryInv, OwnerInv, Next, NEW r \in Requests, Relink(r)
    PROVE  OwnerInv'
<1> DEFINE q == req[r]
           p == q.pk
           d == link[p].device
<1>1. /\ q.step = "relink" /\ device' = device
      /\ \/ UNCHANGED <<link, enroller>>
         \/ /\ d # None
            /\ link' = [link EXCEPT ![p] = Reactivated(link[p])]
            /\ enroller' = [enroller EXCEPT ![p] = Enroller(q.user, d)]
  BY DEF Relink
<1>2. DataOK /\ q \in Request /\ Shape(q)  BY Parts, RequestOf
<1>3. p \in LinkIds /\ q.user \in Owners  BY <1>1, <1>2 DEF Shape, Request
<1>4. link[p] \in Link  BY <1>2, <1>3 DEF DataOK
<1>5. d \in DeviceIds \cup {None} /\ Reactivated(link[p]).device = d
  BY <1>4 DEF Link, Reactivated
<1> DEFINE l == Reactivated(link[p])
<1>6. l.device = d /\ link[p].device = d  BY <1>5
<1> HIDE DEF l, d, p, q
<1>7. CASE UNCHANGED <<link, enroller>>
  BY <1>1, <1>7, SameRows, OwnerByHands
<1>8. CASE /\ d # None
           /\ link' = [link EXCEPT ![p] = Reactivated(link[p])]
           /\ enroller' = [enroller EXCEPT ![p] = Enroller(q.user, d)]
  <2>1. d \in DeviceIds /\ link' = [link EXCEPT ![p] = l]  BY <1>5, <1>8 DEF l
  <2>2. Enrols(p, d, q.user)  BY <1>2, <1>3, <1>6, <1>8, <2>1 DEF Enrols, DataOK
  <2>3. device' = device /\ q.user \in Owners /\ p \in LinkIds  BY <1>1, <1>3
  <2> QED  BY <2>1, <2>2, <2>3, EnrolledOwner
<1> QED  BY <1>1, <1>7, <1>8

LEMMA MergeOwner ==
    ASSUME RegistryInv, OwnerInv, Next, NEW r \in Requests, Merge(r)
    PROVE  OwnerInv'
<1> DEFINE q == req[r]
           P(p) == \E x \in Promoted(q) : x[1] = p
           from(p) == (CHOOSE x \in Promoted(q) : x[1] = p)[2]
<1>1. /\ q.step = "merge"
      /\ device' = [device EXCEPT ![q.old] = AppliedFields(q.user, q.token),
                                  ![q.dev] = None]
      /\ enroller' = [p \in LinkIds |-> IF P(p) THEN enroller[from(p)] ELSE enroller[p]]
  BY DEF Merge
<1>2. /\ q \in Request /\ q.token \in Tokens /\ q.old # q.dev
      /\ q.old \in DeviceIds /\ device[q.old].user = q.user /\ lock[q.old] = r
      /\ q.dev \in DeviceIds /\ device[q.dev].user \in {NoUser, q.user}
  BY <1>1, MergeRows
<1>3. DataOK /\ LinkParts  BY Parts
<1>4. /\ device'[q.old].user = q.user
      /\ \A d \in DeviceIds : d \notin {q.old, q.dev} => device'[d] = device[d]
  <2>1. q.user \in Owners  BY <1>2 DEF Request
  <2>2. AppliedFields(q.user, q.token).user = q.user  BY <1>2, <2>1, AppliedType
  <2> QED  BY <1>1, <1>2, <1>3, <2>2 DEF DataOK
<1>5. ASSUME NEW p \in LinkIds, P(p)
      PROVE  /\ link[p].device = q.old
             /\ enroller[from(p)].user \in {NoUser, q.user} \/ enroller[from(p)].late
  <2> DEFINE x == CHOOSE x \in Promoted(q) : x[1] = p
  <2>1. x \in Promoted(q) /\ x[1] = p  BY <1>5
  <2> HIDE DEF x
  <2>2. p \in LinksOf(q.old) /\ <<x[2], TRUE>> \in q.source_links
    BY <1>1, <2>1, MergeDecides
  <2>3. enroller[x[2]].user \in {NoUser, q.user} \/ enroller[x[2]].late
    <3> DEFINE y == <<x[2], TRUE>>
    <3>1. y \in q.source_links /\ y[1] = x[2] /\ y[2]  BY <2>2
    <3> HIDE DEF y
    <3>2. enroller[y[1]].user \in {NoUser, q.user} \/ enroller[y[1]].late
      BY <1>1, <3>1 DEF OwnerInv, LoadedFollowOwner
    <3> QED  BY <3>1, <3>2
  <2> QED  BY <2>2, <2>3 DEF LinksOf, x
<1>6. \A p \in LinkIds : MergedLink(q, p)  BY MergeFields
<1>7. \A p \in LinkIds : link[p].device \in DeviceIds \cup {None}  BY <1>3 DEF DataOK, Link
<1>8. \A p \in LinkIds : link[p].active =>
         \/ enroller[p].user \in {NoUser, device[link[p].device].user} \/ enroller[p].late
  BY DEF OwnerInv, LinksFollowOwner
<1>9. \A p \in LinkIds : link[p].device = None => ~link[p].active
  BY <1>3 DEF LinkParts, Home
<1>10. \A p \in LinkIds : P(p) <=> \E x \in Promoted(q) : x[1] = p  OBVIOUS
<1> HIDE DEF q, P, from
<1>11. LinksFollowOwner'
  <2> SUFFICES ASSUME NEW p \in LinkIds, link'[p].active
               PROVE  \/ enroller'[p].user \in {NoUser, device'[link'[p].device].user}
                      \/ enroller'[p].late
    BY DEF LinksFollowOwner
  <2>1. MergedLink(q, p)  BY <1>6
  <2>2. CASE P(p)
    <3>1. link[p].device = q.old /\ enroller'[p] = enroller[from(p)]  BY <1>1, <1>5, <2>2
    <3>2. link'[p].device = q.old  BY <1>2, <2>1, <3>1 DEF MergedLink
    <3> QED  BY <1>4, <1>5, <2>2, <3>1, <3>2
  <2>3. CASE ~P(p)
    <3>1. enroller'[p] = enroller[p]  BY <1>1, <2>3
    <3>2. \/ link[p].device = q.dev /\ link'[p].device = q.old /\ link[p].active
          \/ link[p].device # q.dev /\ link'[p] = link[p]
      BY <1>10, <2>1, <2>3 DEF MergedLink
    <3>3. CASE link[p].device = q.dev /\ link'[p].device = q.old /\ link[p].active
      BY <1>2, <1>4, <1>8, <3>1, <3>3
    <3>4. CASE link[p].device # q.dev /\ link'[p] = link[p]
      <4>1. link[p].active /\ link[p].device \in DeviceIds  BY <1>7, <1>9, <3>4
      <4>2. device'[link[p].device].user = device[link[p].device].user
        BY <1>2, <1>4, <3>4, <4>1
      <4> QED  BY <1>8, <3>1, <3>4, <4>1, <4>2
    <3> QED  BY <3>2, <3>3, <3>4
  <2> QED  BY <2>2, <2>3
<1>12. ASSUME NEW s \in Requests, NEW p \in LinkIds, req[s].step = "merge",
              req'[s] = req[s], link[p].device = req[s].dev
       PROVE  enroller'[p] = enroller[p]
  <2>1. lock[req[s].dev] = s /\ req[s].dev # req[s].old  BY <1>12, MergeRows
  <2>2. SUFFICES ASSUME P(p) PROVE FALSE
    BY <1>1
  <2>3. link[p].device = q.old  BY <1>5, <2>2
  <2>4. s = r  BY <1>2, <1>12, <2>1, <2>3
  <2> QED  BY <1>12, <2>1, <2>3, <2>4 DEF q
<1>13. LoadedFollowOwner'  BY <1>12, LoadedStep
<1> QED  BY <1>11, <1>13 DEF OwnerInv

\* The row of d is given to u: its links are deactivated, or were already u's.
LEMMA UpdateDeviceHands ==
    ASSUME RegistryInv, NEW r \in Requests, req[r].step \in {"select", "reselect"},
           NEW d \in WithToken(req[r].token), UpdateDevice(r, d)
    PROVE  SameHands
<1> DEFINE q == req[r]
<1>1. /\ TakeOverLinks(d, q.user)
      /\ device' = [device EXCEPT ![d] = AppliedFields(q.user, q.token)]
  BY DEF UpdateDevice
<1>2. q \in Request /\ Shape(q) /\ DataOK /\ LinkParts  BY RequestOf, Parts
<1>3. q.token \in Tokens /\ q.user \in Owners  BY <1>2 DEF Shape, Upserting, Request
<1>4. d \in DeviceIds  BY TokenRow
<1>5. /\ device'[d].user = q.user
      /\ \A e \in DeviceIds : e # d => device'[e] = device[e]
  BY <1>1, <1>2, <1>3, <1>4, AppliedType DEF DataOK
<1>6. /\ \A p \in LinkIds :
            /\ link'[p].device = link[p].device
            /\ link'[p] = link[p] \/ (link[p].device = d /\ ~link'[p].active)
      /\ device[d].user \notin {NoUser, q.user} =>
            \A p \in LinkIds : link[p].device = d => ~link'[p].active
  BY <1>1, <1>2, <1>4, TakenOver
<1>7. \A p \in LinkIds : link[p].active => link[p].device \in DeviceIds
  BY <1>2 DEF DataOK, Link, LinkParts, Home
<1> HIDE DEF q
<1> SUFFICES ASSUME NEW p \in LinkIds, link'[p].active
             PROVE  /\ link[p].active /\ link'[p].device = link[p].device
                    /\ device[link[p].device].user \in {NoUser, device'[link[p].device].user}
  BY DEF SameHands
<1>8. link'[p] = link[p] /\ link[p].active /\ link[p].device \in DeviceIds
  BY <1>6, <1>7
<1>9. CASE link[p].device = d  BY <1>5, <1>6, <1>8, <1>9
<1>10. CASE link[p].device # d  BY <1>5, <1>8, <1>10
<1> QED  BY <1>9, <1>10

LEMMA OwnerStep ==
    ASSUME "patch" \notin Operations
    PROVE  RegistryInv /\ OwnerInv /\ [Next]_vars => OwnerInv'
<1> SUFFICES ASSUME RegistryInv, OwnerInv, [Next]_vars PROVE OwnerInv'
  OBVIOUS
<1>0. DataOK /\ LinkParts  BY Parts
<1>1. CASE UNCHANGED vars
  BY <1>1 DEF vars, OwnerInv, LinksFollowOwner, LoadedFollowOwner
<1> SUFFICES ASSUME Next PROVE OwnerInv'
  BY <1>1
<1>2. CASE link' = link /\ device' = device /\ enroller' = enroller
  BY <1>2, SameRows, OwnerByHands
<1>3. \A p \in LinkIds : link[p].active => link[p].device \in DeviceIds
  BY <1>0 DEF DataOK, Link, LinkParts, Home
<1>4. ASSUME link' = link, enroller' = enroller,
             \A d \in DeviceIds : device[d] # None => device'[d].user = device[d].user
      PROVE  OwnerInv'
  <2>1. \A p \in LinkIds : link[p].active => device[link[p].device] # None
    BY <1>0 DEF LinkParts, Home
  <2>2. SameHands  BY <1>3, <1>4, <2>1 DEF SameHands
  <2> QED  BY <1>4, <2>2, OwnerByHands
<1>5. ASSUME NEW r \in Requests, Rotate(r) PROVE OwnerInv'
  <2> DEFINE q == req[r]
  <2>1. /\ q.step = "rotate" /\ link' = link /\ enroller' = enroller
        /\ device' = [device EXCEPT ![q.old] = AppliedFields(q.user, q.token)]
    BY <1>5 DEF Rotate
  <2>2. q \in Request /\ Shape(q) /\ Holds(r)  BY RequestOf
  <2>3. /\ q.token \in Tokens /\ q.user \in Owners /\ q.old \in DeviceIds
        /\ device[q.old].user = q.user
    BY <2>1, <2>2 DEF Shape, Upserting, Rotating, Holds, Request
  <2>4. \A d \in DeviceIds : device'[d].user = device[d].user
    BY <1>0, <2>1, <2>3, AppliedType DEF DataOK
  <2> QED  BY <1>4, <2>1, <2>4
<1>6. ASSUME NEW r \in Requests, Upsert(r) \/ Reselect(r) PROVE OwnerInv'
  <2>1. CASE \E d \in WithToken(req[r].token) : UpdateDevice(r, d)
    <3>1. PICK d \in WithToken(req[r].token) : UpdateDevice(r, d)  BY <2>1
    <3>2. req[r].step \in {"select", "reselect"}  BY <1>6 DEF Upsert, Reselect
    <3>3. SameHands  BY <3>1, <3>2, UpdateDeviceHands
    <3>4. enroller' = enroller  BY <3>1 DEF UpdateDevice
    <3> QED  BY <3>3, <3>4, OwnerByHands
  <2>2. CASE UNCHANGED Data  BY <1>2, <2>2 DEF Data
  <2> QED  BY <1>6, <2>1, <2>2 DEF Upsert, Reselect
<1>7. ASSUME NEW r \in Requests, Insert(r) PROVE OwnerInv'
  <2>1. CASE UNCHANGED Data  BY <1>2, <2>1 DEF Data
  <2>2. CASE ~(UNCHANGED Data)
    <3>1. PICK d \in DeviceIds \ used :
            /\ device' = [device EXCEPT ![d] = AppliedFields(req[r].user, req[r].token)]
            /\ link' = link /\ enroller' = enroller
      BY <1>7, <2>2 DEF Insert
    <3>2. device[d] = None  BY <1>0, <3>1 DEF DataOK, exists
    <3>3. \A e \in DeviceIds : device[e] # None => device'[e] = device[e]
      BY <1>0, <3>1, <3>2 DEF DataOK
    <3> QED  BY <1>4, <3>1, <3>3
  <2> QED  BY <2>1, <2>2
<1>8. ASSUME NEW r \in Requests, UnlinkSave(r) \/ EvictSave(r) PROVE OwnerInv'
  <2> DEFINE q == req[r]
  <2>1. /\ q.step \in {"unlink", "evict"} /\ device' = device /\ enroller' = enroller
        /\ link' = IF link[q.pk].device = None THEN link
                   ELSE [link EXCEPT ![q.pk] = Unlinked(link[q.pk], q.source)]
    BY <1>8 DEF UnlinkSave, EvictSave, SaveUnlink
  <2>2. q.pk \in LinkIds  BY <2>1, RequestOf DEF Shape
  <2>3. Unlinked(link[q.pk], q.source).active = FALSE
    BY <1>0, <2>2 DEF DataOK, Link, Unlinked
  <2>4. \A p \in LinkIds : link'[p] = link[p] \/ ~link'[p].active
    BY <1>0, <2>1, <2>2, <2>3 DEF DataOK
  <2>5. SameHands  BY <2>1, <2>4 DEF SameHands
  <2> QED  BY <2>1, <2>5, OwnerByHands
<1>9. ASSUME NEW r \in Requests, PatchSave(r) PROVE OwnerInv'
  <2>1. req[r].step = "patch"  BY <1>9 DEF PatchSave
  <2> QED  BY <2>1, RequestOf DEF Shape
<1>10. ASSUME NEW r \in Requests, DeleteCommit(r) PROVE OwnerInv'
  <2> DEFINE q == req[r]
  <2>1. /\ q.step = "delete" /\ enroller' = enroller
        /\ device' = [device EXCEPT ![q.dev] = None]
        /\ link' = [p \in LinkIds |-> IF link[p].device = q.dev THEN NoLink ELSE link[p]]
    BY <1>10 DEF DeleteCommit
  <2>2. NoLink.active = FALSE  BY DEF NoLink
  <2>3. \A p \in LinkIds : \/ ~link'[p].active
                           \/ link[p].device # q.dev /\ link'[p] = link[p]
    BY <2>1, <2>2
  <2>4. \A d \in DeviceIds : d # q.dev => device'[d] = device[d]
    BY <1>0, <2>1 DEF DataOK
  <2> HIDE DEF q
  <2>5. SameHands  BY <1>3, <2>3, <2>4 DEF SameHands
  <2> QED  BY <2>1, <2>5, OwnerByHands
<1>11. ASSUME NEW s \in Passes, PassRefused(s) PROVE OwnerInv'
  <2> DEFINE d == pass[s].dev
  <2>1. /\ link' = link /\ enroller' = enroller /\ pass[s] # None
        /\ device' = IF d \in exists THEN [device EXCEPT ![d].status = "invalid",
                                                         ![d].enabled = FALSE]
                     ELSE device
    BY <1>11 DEF PassRefused
  <2>2. d \in DeviceIds  BY <1>0, <2>1 DEF DataOK
  <2>3. \A e \in DeviceIds : device[e] # None => device'[e].user = device[e].user
    BY <1>0, <2>1, <2>2 DEF DataOK, Device
  <2> QED  BY <1>4, <2>1, <2>3
<1>12. ASSUME NEW r \in Requests, Begin(r) PROVE OwnerInv'
  BY <1>2, <1>12 DEF Begin, Identify, UnlinkRead, EvictRead, PatchRead, DeleteRead, Data
<1>13. ASSUME NEW r \in Requests,
              \/ SelectPrevious(r) \/ SelectClash(r) \/ LoadTargetLinks(r)
              \/ LoadSourceLinks(r) \/ RotateFails(r) \/ DeadlockVictim(r)
       PROVE  OwnerInv'
  BY <1>2, <1>13 DEF SelectPrevious, SelectClash, LoadTargetLinks, LoadSourceLinks,
                     RotateFails, DeadlockVictim, Data
<1>14. ASSUME NEW s \in Passes, NEW d, NEW a, PassLoad(s, d, a) PROVE OwnerInv'
  BY <1>2, <1>14 DEF PassLoad
<1>15. ASSUME NEW s \in Passes, PassAccepted(s) PROVE OwnerInv'
  BY <1>2, <1>15 DEF PassAccepted, Data
<1>16. ASSUME NEW t \in Tokens, Unregister(t) PROVE OwnerInv'
  BY <1>2, <1>16 DEF Unregister, Data
<1>17. ASSUME NEW r \in Requests, Continue(r) PROVE OwnerInv'
  BY <1>5, <1>6, <1>7, <1>8, <1>9, <1>10, <1>13, <1>17, MergeOwner, LinkDeviceOwner,
     RelinkOwner DEF Continue
<1>18. ASSUME NEW s \in Passes, Pass(s) PROVE OwnerInv'
  BY <1>11, <1>14, <1>15, <1>18 DEF Pass
<1> QED  BY <1>12, <1>16, <1>17, <1>18 DEF Next

\* Without PATCH, which writes back the owner it has read
\* (DeviceDetailApiView.update), takeover, rotation and merge leave no active
\* link of a former owner on a device, however requests interleave.
THEOREM OwnerCorrect ==
    ASSUME "patch" \notin Operations
    PROVE  Spec => []LinksFollowOwner
<1>1. Init => OwnerInv
  <2> SUFFICES ASSUME Init PROVE OwnerInv
    OBVIOUS
  <2>1. \A r \in Requests : req[r] = Idle  BY DEF Init
  <2>2. LoadedFollowOwner  BY <2>1, IdleType DEF LoadedFollowOwner
  <2>3. NoLink.active = FALSE  BY DEF NoLink
  <2>4. ASSUME NEW p \in LinkIds, link[p].active
        PROVE  enroller[p].user = device[link[p].device].user
    <3>1. link[p].device = p[1] /\ p[1] \in exists  BY <2>3, <2>4 DEF Init
    <3>2. enroller[p].user = IF p[1] \in exists THEN device[p[1]].user ELSE NoUser
      BY DEF Init
    <3> QED  BY <3>1, <3>2
  <2> QED  BY <2>2, <2>4 DEF OwnerInv, LinksFollowOwner
<1>2. RegistryInv /\ OwnerInv /\ [Next]_vars => OwnerInv'  BY OwnerStep
<1>3. OwnerInv => LinksFollowOwner  BY DEF OwnerInv
<1> QED  BY <1>1, <1>2, <1>3, RegistryCorrect, PTL DEF Spec

-----------------------------------------------------------------------------
(* What a merge keeps *)

\* A send pass and the provider leave links, owners and tokens alone.
LEMMA OutsideLeaves ==
    ASSUME RegistryInv, Next, req' = req, \A r \in Requests : ~Begin(r) /\ ~Continue(r)
    PROVE  /\ link' = link
           /\ \A d \in DeviceIds : device[d] # None =>
                 /\ device'[d] # None /\ device'[d].user = device[d].user
                 /\ device'[d].token = device[d].token
<1>0. DataOK  BY Parts
<1>1. CASE \E s \in Passes : PassRefused(s)
  <2>1. PICK s \in Passes : PassRefused(s)  BY <1>1
  <2> DEFINE d == pass[s].dev
  <2>2. /\ link' = link /\ pass[s] # None
        /\ device' = IF d \in exists THEN [device EXCEPT ![d].status = "invalid",
                                                         ![d].enabled = FALSE]
                     ELSE device
    BY <2>1 DEF PassRefused
  <2>3. d \in DeviceIds  BY <1>0, <2>2 DEF DataOK
  <2>4. CASE d \notin exists  BY <2>2, <2>4
  <2>5. CASE d \in exists
    <3> DEFINE old == device[d]
               off == [old EXCEPT !.status = "invalid", !.enabled = FALSE]
    <3>1. old \in Device  BY <1>0, <2>3, <2>5 DEF DataOK, exists
    <3>2. /\ device'[d] = off
          /\ \A e \in DeviceIds : e # d => device'[e] = device[e]
      BY <1>0, <2>2, <2>3, <2>5 DEF DataOK
    <3>3. off \in Device /\ off.user = old.user /\ off.token = old.token
      <4>1. "invalid" \in TokenStatus /\ FALSE \in BOOLEAN  BY DEF TokenStatus
      <4> HIDE DEF old
      <4> QED  BY <3>1, <4>1 DEF Device
    <3>4. off # None  BY <3>3, Markers
    <3> HIDE DEF off
    <3> QED  BY <2>2, <3>2, <3>3, <3>4
  <2> QED  BY <2>4, <2>5
<1>2. CASE ~\E s \in Passes : PassRefused(s)
  BY <1>2 DEF Next, Pass, PassLoad, PassAccepted, Unregister, Data
<1> QED  BY <1>1, <1>2

\* The rows that requests write stay rows.
LEMMA AppliedRow ==
    ASSUME RegistryInv, NEW r \in Requests, req[r].step \in Upserting
    PROVE  /\ AppliedFields(req[r].user, req[r].token) \in Device
           /\ AppliedFields(req[r].user, req[r].token) # None
           /\ AppliedFields(req[r].user, req[r].token).token = req[r].token
<1> DEFINE q == req[r]
<1>1. q \in Request /\ Shape(q)  BY RequestOf
<1>2. q.token \in Tokens /\ q.user \in Owners  BY <1>1 DEF Shape, Request
<1> HIDE DEF q
<1>3. /\ AppliedFields(q.user, q.token) \in Device
      /\ AppliedFields(q.user, q.token) # None
      /\ AppliedFields(q.user, q.token).token = q.token
  BY <1>2, AppliedType
<1> QED  BY <1>3 DEF q

\* What a step of a request other than a merge and a deletion does to the rows:
\* at most one is written, with a token that no other row has.
LEMMA RowWritten ==
    ASSUME RegistryInv, OneDevicePerToken, NEW r \in Requests, Begin(r) \/ Continue(r),
           ~Merge(r), ~DeleteCommit(r)
    PROVE  \/ device' = device
           \/ \E d \in DeviceIds, x \in Device :
                 device' = [device EXCEPT ![d] = x] /\ WithToken(x.token) \subseteq {d}
<1> DEFINE q == req[r]
           row == AppliedFields(q.user, q.token)
<1>1. q \in Request /\ Shape(q) /\ Holds(r) /\ DataOK  BY RequestOf
<1>2. q.step \in Upserting => row \in Device /\ row.token = q.token  BY AppliedRow
<1>3. CASE Rotate(r)
  <2>1. /\ q.step = "rotate" /\ WithToken(q.token) = {}
        /\ device' = [device EXCEPT ![q.old] = row]
    BY <1>3 DEF Rotate
  <2>2. q.old \in DeviceIds /\ q.step \in Upserting
    BY <1>1, <2>1 DEF Holds, Rotating, Upserting
  <2> QED  BY <1>2, <2>1, <2>2
<1>4. ASSUME q.step \in Upserting, NEW d \in WithToken(q.token), UpdateDevice(r, d)
      PROVE  \E e \in DeviceIds, x \in Device :
                 device' = [device EXCEPT ![e] = x] /\ WithToken(x.token) \subseteq {e}
  <2>1. device' = [device EXCEPT ![d] = row] /\ d \in DeviceIds
    BY <1>4, TokenRow DEF UpdateDevice
  <2>2. WithToken(q.token) \subseteq {d}
    BY <1>4 DEF WithToken, OneDevicePerToken
  <2> QED  BY <1>2, <1>4, <2>1, <2>2
<1>5. CASE Upsert(r) \/ Reselect(r)
  <2>1. q.step \in Upserting  BY <1>5 DEF Upsert, Reselect, Upserting
  <2>2. UNCHANGED Data \/ \E d \in WithToken(q.token) : UpdateDevice(r, d)
    BY <1>5 DEF Upsert, Reselect
  <2> QED  BY <1>4, <2>1, <2>2 DEF Data
<1>6. CASE Insert(r)
  <2>1. q.step \in Upserting  BY <1>6 DEF Insert, Upserting
  <2>2. \/ UNCHANGED Data
        \/ /\ WithToken(q.token) = {}
           /\ \E d \in DeviceIds : device' = [device EXCEPT ![d] = row]
    BY <1>6 DEF Insert
  <2> QED  BY <1>2, <2>1, <2>2 DEF Data
<1>7. CASE PatchSave(r)
  <2>1. q.step = "patch"  BY <1>7 DEF PatchSave
  <2>2. q.dev \in DeviceIds /\ q.copy \in Device  BY <1>1, <2>1 DEF Shape
  <2> QED  BY <1>7, <2>2 DEF PatchSave
<1>8. CASE \/ SelectPrevious(r) \/ SelectClash(r) \/ LoadTargetLinks(r)
           \/ LoadSourceLinks(r) \/ RotateFails(r) \/ DeadlockVictim(r)
           \/ LinkDevice(r) \/ Relink(r) \/ UnlinkSave(r) \/ EvictSave(r)
  BY <1>8 DEF SelectPrevious, SelectClash, LoadTargetLinks, LoadSourceLinks, RotateFails,
              DeadlockVictim, LinkDevice, Relink, UnlinkSave, EvictSave, SaveUnlink, Data
<1>9. CASE Begin(r)
  BY <1>9 DEF Begin, Identify, UnlinkRead, EvictRead, PatchRead, DeleteRead, Data
<1> QED  BY <1>3, <1>5, <1>6, <1>7, <1>8, <1>9 DEF Continue

\* The rows of a merge.
LEMMA MergedRows ==
    ASSUME RegistryInv, NEW r \in Requests, Merge(r)
    PROVE  LET q == req[r] IN
           /\ q.old \in DeviceIds /\ q.dev \in DeviceIds /\ q.old # q.dev
           /\ device'[q.dev] = None
           /\ device'[q.old] # None /\ device'[q.old].token = q.token
           /\ device[q.dev] # None /\ device[q.dev].token = q.token
           /\ device[q.old] # None /\ lock[q.dev] = r
           /\ \A d \in DeviceIds \ {q.old, q.dev} : device'[d] = device[d]
<1> DEFINE q == req[r]
           row == AppliedFields(q.user, q.token)
<1>1. /\ q.step = "merge"
      /\ device' = [device EXCEPT ![q.old] = row, ![q.dev] = None]
  BY DEF Merge
<1>2. /\ q.old \in DeviceIds /\ q.dev \in DeviceIds /\ q.old # q.dev
      /\ device[q.old] # None /\ device[q.dev] # None /\ lock[q.dev] = r
  BY <1>1, MergeRows
<1>3. row # None /\ row.token = q.token  BY <1>1, AppliedRow DEF Upserting, Rotating
<1>4. device[q.dev].token = q.token  BY <1>1, RequestOf DEF Holds, Merging
<1>5. device \in [DeviceIds -> Device \cup {None}]  BY Parts DEF DataOK
<1> HIDE DEF row, q
<1>6. /\ q.old \in DeviceIds /\ q.dev \in DeviceIds /\ q.old # q.dev
      /\ device'[q.dev] = None
      /\ device'[q.old] # None /\ device'[q.old].token = q.token
      /\ device[q.dev] # None /\ device[q.dev].token = q.token
      /\ device[q.old] # None /\ lock[q.dev] = r
      /\ \A d \in DeviceIds \ {q.old, q.dev} : device'[d] = device[d]
  BY <1>1, <1>2, <1>3, <1>4, <1>5
<1> QED  BY <1>6 DEF q

LEMMA TokensStep ==
    ASSUME RegistryInv, OneDevicePerToken, [Next]_vars
    PROVE  OneDevicePerToken'
<1>0. DataOK  BY Parts
<1>1. ASSUME \A d \in DeviceIds : device'[d] # None =>
                device[d] # None /\ device'[d].token = device[d].token
      PROVE  OneDevicePerToken'
  BY <1>1 DEF OneDevicePerToken, exists
<1>2. CASE device' = device  BY <1>1, <1>2
<1>3. ASSUME NEW d \in DeviceIds, NEW x \in Device,
             device' = [device EXCEPT ![d] = x], WithToken(x.token) \subseteq {d}
      PROVE  OneDevicePerToken'
  <2>1. device'[d] = x /\ \A e \in DeviceIds : e # d => device'[e] = device[e]
    BY <1>0, <1>3 DEF DataOK
  <2>2. \A e \in DeviceIds : e # d /\ device[e] # None => device[e].token # x.token
    BY <1>3 DEF WithToken, exists
  <2> QED  BY <2>1, <2>2 DEF OneDevicePerToken, exists
<1>4. ASSUME NEW r \in Requests, Merge(r) PROVE OneDevicePerToken'
  <2> DEFINE old == req[r].old
             new == req[r].dev
  <2>1. /\ old \in DeviceIds /\ new \in DeviceIds /\ device'[new] = None
        /\ device[new] # None /\ device'[old].token = device[new].token
        /\ \A d \in DeviceIds \ {old, new} : device'[d] = device[d]
    BY <1>4, MergedRows
  <2> HIDE DEF old, new
  <2>2. \A d \in DeviceIds \ {old, new} :
           device'[d] # None => device'[d].token # device'[old].token
    BY <2>1 DEF OneDevicePerToken, exists
  <2> SUFFICES ASSUME NEW d \in DeviceIds, NEW e \in DeviceIds, d # e,
                      device'[d] # None, device'[e] # None
               PROVE  device'[d].token # device'[e].token
    BY DEF OneDevicePerToken, exists
  <2>3. d # new /\ e # new  BY <2>1
  <2>4. CASE d = old \/ e = old  BY <2>2, <2>3, <2>4
  <2>5. CASE d # old /\ e # old
    <3>1. device'[d] = device[d] /\ device'[e] = device[e]  BY <2>1, <2>3, <2>5
    <3> QED  BY <3>1 DEF OneDevicePerToken, exists
  <2> QED  BY <2>4, <2>5
<1>5. ASSUME NEW r \in Requests, DeleteCommit(r) PROVE OneDevicePerToken'
  BY <1>0, <1>1, <1>5 DEF DeleteCommit, DataOK
<1>6. ASSUME NEW r \in Requests, Begin(r) \/ Continue(r) PROVE OneDevicePerToken'
  BY <1>2, <1>3, <1>4, <1>5, <1>6, RowWritten
<1>7. ASSUME Next, req' = req, \A r \in Requests : ~Begin(r) /\ ~Continue(r)
      PROVE  OneDevicePerToken'
  <2>1. \A d \in DeviceIds : device[d] = None => device'[d] = None
    <3>1. CASE device' = device  BY <3>1
    <3>2. CASE \E s \in Passes : PassRefused(s)
      BY <1>0, <3>2 DEF PassRefused, DataOK, exists
    <3> QED
      BY <1>7, <3>1, <3>2 DEF Next, Pass, PassLoad, PassAccepted, Unregister, Data
  <2> QED  BY <1>1, <1>7, <2>1, OutsideLeaves
<1>8. CASE UNCHANGED vars  BY <1>2, <1>8 DEF vars
<1> QED
  BY <1>6, <1>7, <1>8 DEF Next, Pass, PassLoad, PassRefused, PassAccepted, Unregister

\* The unique constraint on push_token is never met by a merge: it saves the new
\* token on one row when the other, the only one that had it, is deleted.
THEOREM OneDeviceCorrect == Spec => []OneDevicePerToken
<1>1. Init => OneDevicePerToken  BY DEF Init, OneDevicePerToken
<1>2. RegistryInv /\ OneDevicePerToken /\ [Next]_vars => OneDevicePerToken'
  BY TokensStep
<1> QED  BY <1>1, <1>2, RegistryCorrect, PTL DEF Spec

\* Only its own merge deletes the row that a merge has locked.
LEMMA MergesItself ==
    ASSUME RegistryInv, OneDevicePerToken, Next, NEW r \in Requests,
           NEW old \in DeviceIds, NEW new \in DeviceIds, Merges(r, old, new)
    PROVE  Merge(r)
<1>1. /\ req[r].step = "merge" /\ req[r].dev = new
      /\ device[new] # None /\ device'[new] = None
  BY DEF Merges
<1>2. lock[new] = r /\ r # None  BY <1>1, MergeRows, Markers
<1>3. DataOK  BY Parts
<1>4. ASSUME NEW s \in Requests, Merge(s) PROVE Merge(r)
  <2>1. /\ lock[req[s].dev] = s
        /\ device'[req[s].old] # None
        /\ \A d \in DeviceIds \ {req[s].old, req[s].dev} : device'[d] = device[d]
    BY <1>4, MergedRows
  <2>2. new = req[s].dev  BY <1>1, <2>1
  <2> QED  BY <1>2, <1>4, <2>1, <2>2
<1>5. ASSUME NEW s \in Requests, DeleteCommit(s) PROVE FALSE
  <2>1. /\ lock[req[s].dev] = None
        /\ device' = [device EXCEPT ![req[s].dev] = None]
    BY <1>5 DEF DeleteCommit, Free
  <2>2. new # req[s].dev  BY <1>2, <2>1
  <2> QED  BY <1>1, <1>3, <2>1, <2>2 DEF DataOK
<1>6. ASSUME NEW s \in Requests, Begin(s) \/ Continue(s) PROVE Merge(r)
  <2>1. CASE Merge(s) \/ DeleteCommit(s)  BY <1>4, <1>5, <2>1
  <2>2. CASE \E d \in DeviceIds, x \in Device : device' = [device EXCEPT ![d] = x]
    <3>1. PICK d \in DeviceIds, x \in Device : device' = [device EXCEPT ![d] = x]
      BY <2>2
    <3> QED  BY <1>1, <1>3, <3>1, Markers DEF DataOK
  <2>3. CASE device' = device  BY <1>1, <2>3
  <2> QED  BY <1>6, <2>1, <2>2, <2>3, RowWritten
<1>7. CASE \A s \in Requests : ~Begin(s) /\ ~Continue(s)
  <2>1. req' = req
    BY <1>7 DEF Next, Pass, PassLoad, PassRefused, PassAccepted, Unregister
  <2> QED  BY <1>1, <1>7, <2>1, OutsideLeaves
<1> QED  BY <1>6, <1>7

\* The links of a merge to an application on which nobody has overtaken it.
LEMMA MergeUnion ==
    ASSUME RegistryInv, NEW r \in Requests, Merge(r),
           NEW old, NEW new, old = req[r].old, new = req[r].dev, NEW a \in Apps,
           ~Overtaken(r, a)
    PROVE  Linked(old, a)' <=> Linked(old, a) \/ Linked(new, a)
<1> DEFINE q == req[r]
<1>1. q.step = "merge"  BY DEF Merge
<1>2. old \in DeviceIds /\ new \in DeviceIds /\ old # new  BY <1>1, MergeRows
<1>3. /\ Keys(q.target_links) = LinksOf(old) /\ Keys(q.source_links) = LinksOf(new)
      /\ q.target_links \in Seen /\ q.source_links \in Seen
      /\ \A x \in q.target_links \cup q.source_links :
            x[1][2] = a => link[x[1]].active = x[2]
  BY <1>1, MergeRows DEF Overtaken
<1>4. /\ \A p \in Moved(q) : p \in LinksOf(new) /\ \A z \in LinksOf(old) : z[2] # p[2]
      /\ \A p \in LinksOf(new) : p \notin Moved(q) => \E z \in LinksOf(old) : z[2] = p[2]
      /\ \A x \in Promoted(q) :
            /\ x[1] \in LinksOf(old) /\ x[2] \in LinksOf(new) /\ x[1][2] = x[2][2]
            /\ <<x[1], FALSE>> \in q.target_links /\ <<x[2], TRUE>> \in q.source_links
  <2> DEFINE o == q.old
             n == q.dev
  <2>1. /\ \A p \in Moved(q) : p \in LinksOf(n) /\ \A z \in LinksOf(o) : z[2] # p[2]
        /\ \A p \in LinksOf(n) : p \notin Moved(q) => \E z \in LinksOf(o) : z[2] = p[2]
        /\ \A x \in Promoted(q) :
              /\ x[1] \in LinksOf(o) /\ x[2] \in LinksOf(n) /\ x[1][2] = x[2][2]
              /\ <<x[1], FALSE>> \in q.target_links /\ <<x[2], TRUE>> \in q.source_links
    BY <1>1, MergeDecides
  <2>2. o = old /\ n = new  OBVIOUS
  <2> HIDE DEF o, n, q
  <2> QED  BY <2>1, <2>2
<1>5. ASSUME NEW x \in Promoted(q), x[1][2] = a PROVE link[x[2]].active
  <2> DEFINE y == <<x[2], TRUE>>
  <2>1. y \in q.source_links /\ y[1] = x[2] /\ y[2] = TRUE /\ x[2][2] = a
    BY <1>4, <1>5
  <2> HIDE DEF y, q
  <2> QED  BY <1>3, <2>1
<1>6. ASSUME NEW z \in LinksOf(old), NEW p \in LinksOf(new), z[2] = a, p[2] = a,
             link[p].active, ~link[z].active
      PROVE  \E x \in Promoted(q) : x[1] = z
  <2>1. PICK v \in q.target_links : v[1] = z  BY <1>3 DEF Keys
  <2>2. PICK w \in q.source_links : w[1] = p  BY <1>3 DEF Keys
  <2>3. ~v[2] /\ w[2]  BY <1>3, <1>6, <2>1, <2>2
  <2> DEFINE y == <<v, w>>
  <2>4. /\ y \in q.target_links \X q.source_links
        /\ y[1][1][2] = y[2][1][2] /\ y[2][2] /\ ~y[1][2] /\ y[1][1] = z /\ y[2][1] = p
    BY <1>6, <2>1, <2>2, <2>3
  <2> HIDE DEF y
  <2>5. <<y[1][1], y[2][1]>> \in Promoted(q)  BY <2>4 DEF Promoted
  <2> QED  BY <2>4, <2>5
<1>7. \A p \in LinkIds : MergedLink(q, p)  BY MergeFields
<1>8. None \notin DeviceIds  BY Markers
<1>9. old = q.old /\ new = q.dev  OBVIOUS
<1> HIDE DEF q
<1>10. ASSUME Linked(old, a)' PROVE Linked(old, a) \/ Linked(new, a)
  <2>1. PICK p \in LinkIds : link'[p].device = old /\ p[2] = a /\ link'[p].active
    BY <1>10 DEF Linked, LinkOf, LinksOf
  <2>2. MergedLink(q, p)  BY <1>7
  <2>3. CASE link[p].device = new /\ link[p].active
    BY <2>1, <2>3 DEF Linked, LinkOf, LinksOf
  <2>4. CASE \E x \in Promoted(q) : x[1] = p
    <3>1. PICK x \in Promoted(q) : x[1] = p  BY <2>4
    <3>2. x[2] \in LinksOf(new) /\ x[2][2] = a /\ link[x[2]].active
      BY <1>4, <1>5, <2>1, <3>1
    <3> QED  BY <3>2 DEF Linked, LinkOf
  <2>5. CASE link'[p] = link[p]
    BY <2>1, <2>5 DEF Linked, LinkOf, LinksOf
  <2> QED  BY <1>2, <1>8, <1>9, <2>1, <2>2, <2>3, <2>4, <2>5 DEF MergedLink
<1>11. ASSUME NEW p \in LinkIds, link'[p].device = old, p[2] = a, link'[p].active
       PROVE  Linked(old, a)'
  BY <1>11 DEF Linked, LinkOf, LinksOf
<1>12. ASSUME NEW p \in LinksOf(old), p[2] = a,
              link[p].active \/ \E x \in Promoted(q) : x[1] = p
       PROVE  Linked(old, a)'
  <2>1. p \in LinkIds /\ link[p].device = old  BY DEF LinksOf
  <2>2. MergedLink(q, p)  BY <1>7, <2>1
  <2>3. link'[p].device = old /\ link'[p].active
    BY <1>2, <1>9, <1>12, <2>1, <2>2 DEF MergedLink
  <2> QED  BY <1>11, <1>12, <2>1, <2>3
<1>13. ASSUME Linked(old, a) PROVE Linked(old, a)'
  <2>1. PICK p \in LinksOf(old) : p[2] = a /\ link[p].active
    BY <1>13 DEF Linked, LinkOf
  <2> QED  BY <1>12, <2>1
<1>14. ASSUME Linked(new, a) PROVE Linked(old, a)'
  <2>1. PICK p \in LinksOf(new) : p[2] = a /\ link[p].active
    BY <1>14 DEF Linked, LinkOf
  <2>2. p \in LinkIds /\ link[p].device = new  BY DEF LinksOf
  <2>3. CASE p \in Moved(q)
    <3>1. MergedLink(q, p)  BY <1>7, <2>2
    <3>2. link'[p].device = old /\ link'[p].active
      BY <1>2, <1>9, <2>1, <2>2, <2>3, <3>1 DEF MergedLink
    <3> QED  BY <1>11, <2>1, <2>2, <3>2
  <2>4. CASE p \notin Moved(q)
    <3>1. PICK z \in LinksOf(old) : z[2] = p[2]  BY <1>4, <2>1, <2>4
    <3>2. link[z].active \/ \E x \in Promoted(q) : x[1] = z  BY <1>6, <2>1, <3>1
    <3> QED  BY <1>12, <2>1, <3>1, <3>2
  <2> QED  BY <2>3, <2>4
<1> QED  BY <1>10, <1>13, <1>14

\* _merge_device_into, whatever the requests in between do: the device that stays
\* has the subscriptions of both, to each application on which nothing has
\* overtaken the merge, and the inbox and the quiet periods of both.
THEOREM MergeCorrect == Spec => MergeKeepsLinks
<1>1. ASSUME RegistryInv, OneDevicePerToken, Next, NEW r \in Requests,
             NEW old \in DeviceIds, NEW new \in DeviceIds, Merges(r, old, new)
      PROVE  /\ \A a \in Apps :
                   \/ Linked(old, a)' <=> Linked(old, a) \/ Linked(new, a)
                   \/ Overtaken(r, a)
             /\ inbox[old] \cup inbox[new] \subseteq inbox'[old]
             /\ quiet[old] \cup quiet[new] \subseteq quiet'[old]
  <2>1. req[r].step = "merge" /\ req[r].old = old /\ req[r].dev = new
    BY <1>1 DEF Merges
  <2>2. Merge(r)  BY <1>1, MergesItself
  <2>3. \A a \in Apps : \/ Linked(old, a)' <=> Linked(old, a) \/ Linked(new, a)
                        \/ Overtaken(r, a)
    BY <1>1, <2>1, <2>2, MergeUnion
  <2>4. old # new  BY <1>1, <2>1, MergeRows
  <2>5. /\ inbox' = [inbox EXCEPT ![old] = inbox[old] \cup inbox[new], ![new] = {}]
        /\ quiet' = [quiet EXCEPT ![old] = quiet[old] \cup quiet[new], ![new] = {}]
    BY <2>1, <2>2 DEF Merge
  <2>6. inbox \in [DeviceIds -> SUBSET Passes] /\ quiet \in [DeviceIds -> SUBSET DeviceIds]
    BY <1>1, Parts DEF DataOK
  <2>7. inbox'[old] = inbox[old] \cup inbox[new] /\ quiet'[old] = quiet[old] \cup quiet[new]
    BY <1>1, <2>4, <2>5, <2>6
  <2> QED  BY <2>3, <2>7
<1>2. RegistryInv /\ OneDevicePerToken /\ [Next]_vars =>
         [\A r \in Requests, old, new \in DeviceIds : Merges(r, old, new) =>
             /\ \A a \in Apps :
                   \/ Linked(old, a)' <=> Linked(old, a) \/ Linked(new, a)
                   \/ Overtaken(r, a)
             /\ inbox[old] \cup inbox[new] \subseteq inbox'[old]
             /\ quiet[old] \cup quiet[new] \subseteq quiet'[old]]_vars
  BY <1>1
<1> QED  BY <1>2, RegistryCorrect, OneDeviceCorrect, PTL DEF Spec, MergeKeepsLinks

=============================================================================
