--------------------------- MODULE AccountsProofs ---------------------------
(***************************************************************************)
(* Theorems about Accounts, for every number of accounts, requests that    *)
(* overlap, tokens and links, and every bound.                             *)
(***************************************************************************)
EXTENDS Accounts, WellFoundedInduction, TLAPS

\* What a request has read and found out, per place it may be at.
Holding(r) ==
    LET q == req[r]
    IN  /\ q.pc \notin {"idle", "register"} => q.user \in known
        /\ q.pc \in {"confirm", "verify", "save", "setpassword"} => q.row \in Row
        /\ q.pc = "verify" => q.of \in Links
        /\ q.pc = "confirm" => q.of = None
        /\ q.pc = "rotate" => q.of \in Tokens
        /\ q.pc = "mint" => \/ q.of = None /\ q.row \in Row
                            \/ q.of \in Tokens
        /\ q.pc \in {"rotate", "mint"} /\ q.of # None
               => token[q.of] # None /\ token[q.of].user = q.user
        /\ \A t \in q.pending : token[t] # None
        /\ q.pc = "commit" => user[q.user] # None

\* The transaction of a password change has the row of its user to itself.
OneCommit ==
    \A r, s \in Requests :
        At(r, "commit") /\ At(s, "commit") /\ req[r].user = req[s].user => r = s

\* The types, and what refers to an account refers to one that was registered.
BaseInv ==
    /\ TypeOK
    /\ \A u \in Users : user[u] # None => u \in known
    /\ \A t \in Tokens : token[t] # None => token[t].user \in known
    /\ \A l \in Links : link[l] # None =>
          link[l].user \in known /\ user[link[l].user] # None
    /\ \A r \in Requests : Holding(r)
    /\ OneCommit

\* A link that opened a session is used, or its row is gone.
OpenedInv ==
    \A l \in Links :
        /\ opened[l] <= 1
        /\ opened[l] > 0 /\ link[l] # None => link[l].used

\* The account is confirmed, as long as it exists.
Confirmed(u) == user[u] # None => user[u].confirmed

\* Whoever has confirmed the address has done so once, and stays confirmed, unless
\* a save of the whole row has put back what it read before.
ConfirmedInv ==
    \A u \in Users : u \notin restored =>
        /\ confirmed[u] <= 1
        /\ confirmed[u] > 0 => u \in known /\ Confirmed(u)

-----------------------------------------------------------------------------
(* The invariant of the sessions *)

\* The end of the sessions of u is still to come, or was lost with its process.
Due(u) ==
    \/ u \in unswept
    \/ \E r \in Requests : At(r, "sweep") /\ req[r].user = u

\* A refresh token that works.
Good(t, u) == Usable(t) /\ token[t].user = u

\* It goes back to the current password, or a sweep will end it, or it was made
\* while one ran.
Ends(t, u) ==
    \/ token[t].root >= user[u].password
    \/ token[t].raced
    \/ Due(u)
    \/ \E r \in Requests : At(r, "blacklist") /\ req[r].user = u /\ t \in req[r].pending

\* A sweep under way has selected every good token, but for those made since.
Covered(r, u) ==
    req[r].pc \in {"blacklist", "commit"} /\ req[r].user = u =>
        \A t \in Tokens : Good(t, u) => token[t].raced \/ t \in req[r].pending

\* The token a request is about to make will be one that ends.
Coming(r, u) ==
    req[r].pc \in {"confirm", "verify", "mint", "rotate"} /\ req[r].user = u =>
        \/ req[r].raced
        \/ Due(u)
        \/ \E s \in Requests : At(s, "blacklist") /\ req[s].user = u
        \/ /\ req[r].pc \in {"rotate", "mint"} /\ req[r].of # None
           /\ token[req[r].of].root >= user[u].password \/ token[req[r].of].raced
        \/ /\ req[r].pc # "rotate"
           /\ req[r].pc = "mint" => req[r].of = None
           /\ req[r].row.password >= user[u].password

\* A sweep finds every good token, and each of them ends.
SessionOf(u) ==
    /\ \A t \in Tokens : Good(t, u) => token[t].owned /\ Ends(t, u)
    /\ \A r \in Requests : Covered(r, u) /\ Coming(r, u)

\* It holds of the accounts no save of the whole row has tampered with.
SessionInv ==
    \A u \in Users : user[u] # None /\ u \notin restored => SessionOf(u)

-----------------------------------------------------------------------------
(* Shapes *)

\* The sequence gives out a number of the set.
LEMMA MinIsIn ==
    ASSUME NEW S \in SUBSET Nat, S # {}
    PROVE  Min(S) \in S
<1> DEFINE R == {ss \in Nat \X Nat : ss[1] < ss[2]}
<1>1. IsWellFoundedOn(R, Nat)  BY NatLessThanWellFounded DEF OpToRel
<1>2. \A x, y \in Nat : y < x => <<y, x>> \in R  OBVIOUS
<1> HIDE DEF R
<1>3. PICK x \in S : \A y \in S : ~(<<y, x>> \in R)  BY <1>1, WFMin
<1>4. ASSUME NEW y \in S PROVE x <= y
  <2>1. x \in Nat /\ y \in Nat /\ ~(y < x)  BY <1>2, <1>3
  <2> QED  BY <2>1
<1> QED  BY <1>4 DEF Min

LEMMA IdleType == Idle \in Request
BY DEF Idle, Request, PC

LEMMA StartShape ==
    ASSUME TypeOK, NEW r \in Requests, NEW pc \in PC, NEW u \in Users \cup {None},
           NEW of \in Tokens \cup Links \cup {None}, Start(r, pc, u, of)
    PROVE  /\ req' \in [Requests -> Request]
           /\ served' \in 0 .. MaxRequests
           /\ req[r].pc = "idle"
           /\ \A q \in Requests \ {r} : req'[q] = req[q]
           /\ req'[r].pc = pc /\ req'[r].user = u /\ req'[r].of = of
           /\ req'[r].pending = {} /\ ~req'[r].raced
           /\ u # None => req'[r].row = user[u]
<1> DEFINE new == [Idle EXCEPT !.pc = pc, !.user = u, !.of = of,
                               !.row = IF u = None THEN None ELSE user[u]]
<1>1. (IF u = None THEN None ELSE user[u]) \in Row \cup {None}  BY DEF TypeOK
<1>2. /\ new \in Request
      /\ new.pc = pc /\ new.user = u /\ new.of = of /\ new.pending = {}
      /\ new.raced = FALSE /\ new.row = IF u = None THEN None ELSE user[u]
  BY <1>1 DEF Idle, Request
<1>3. req' = [req EXCEPT ![r] = new]  BY DEF Start
<1> HIDE DEF new
<1>4. req \in [Requests -> Request]  BY DEF TypeOK
<1>5. /\ req' \in [Requests -> Request] /\ req'[r] = new
      /\ \A q \in Requests \ {r} : req'[q] = req[q]
  BY <1>2, <1>3, <1>4
<1>6. served' \in 0 .. MaxRequests  BY BoundsAssumption DEF Start, TypeOK
<1> QED  BY <1>2, <1>5, <1>6 DEF Start, At

\* What the first step of a request for u may have read and checked.
Begun(r, u) ==
    /\ user[u] # None /\ req'[r].user = u
    /\ IF req'[r].pc = "save" THEN req'[r].row \in Row ELSE req'[r].row = user[u]
    /\ \/ req'[r].pc \in {"confirm", "reset", "change", "save", "setpassword", "erase"}
          /\ req'[r].of = None
       \/ req'[r].pc = "mint" /\ req'[r].of = None
       \/ /\ req'[r].pc = "verify" /\ req'[r].of \in Links
          /\ link[req'[r].of] # None /\ link[req'[r].of].user = u
       \/ /\ req'[r].pc = "rotate" /\ req'[r].of \in Tokens
          /\ Usable(req'[r].of) /\ token[req'[r].of].user = u

LEMMA AdminFormShape ==
    ASSUME BaseInv, NEW r \in Requests, NEW u \in Users, AdminForm(r, u)
    PROVE  /\ UNCHANGED <<user, known, passwords, token, link, mailed, crashes, changes,
                          opened, confirmed, unswept, restored>>
           /\ req' \in [Requests -> Request]
           /\ served' \in 0 .. MaxRequests
           /\ req[r].pc = "idle"
           /\ \A q \in Requests \ {r} : req'[q] = req[q]
           /\ req'[r].pending = {} /\ ~req'[r].raced
           /\ Begun(r, u)
<1>0. TypeOK  BY DEF BaseInv
<1>1. /\ UNCHANGED <<user, known, passwords, token, link, mailed, crashes, changes,
                     opened, confirmed, unswept, restored>>
      /\ user[u] # None /\ req[r].pc = "idle"
      /\ served < MaxRequests /\ served' = served + 1
  BY DEF AdminForm, At, accounts, bounds, ghosts
<1>2. PICK a \in BOOLEAN :
        req' = [req EXCEPT ![r] = [Idle EXCEPT !.pc = "save", !.user = u,
                                      !.row = [user[u] EXCEPT !.active = a]]]
  BY DEF AdminForm
<1> DEFINE row == [user[u] EXCEPT !.active = a]
           new == [Idle EXCEPT !.pc = "save", !.user = u, !.row = row]
<1>3. user[u] \in Row  BY <1>0, <1>1 DEF TypeOK
<1>4. row \in Row  BY <1>3 DEF Row
<1> HIDE DEF row
<1>5. /\ new \in Request /\ new.pc = "save" /\ new.user = u /\ new.row = row
      /\ new.of = None /\ new.pending = {} /\ new.raced = FALSE
  BY <1>4, IdleType DEF Idle, Request, PC
<1>6. req' = [req EXCEPT ![r] = new]  BY <1>2 DEF row
<1> HIDE DEF new
<1>7. /\ req' \in [Requests -> Request] /\ req'[r] = new
      /\ \A q \in Requests \ {r} : req'[q] = req[q]
  BY <1>0, <1>5, <1>6 DEF TypeOK
<1>8. served' \in 0 .. MaxRequests  BY <1>0, <1>1, BoundsAssumption DEF TypeOK
<1>9. Begun(r, u)  BY <1>1, <1>4, <1>5, <1>7 DEF Begun
<1> QED  BY <1>1, <1>5, <1>7, <1>8, <1>9

\* It changes nothing else.
LEMMA BeginShape ==
    ASSUME BaseInv, NEW r \in Requests, Begin(r)
    PROVE  /\ UNCHANGED <<user, known, passwords, token, link, mailed, crashes, changes,
                          opened, confirmed, unswept, restored>>
           /\ req' \in [Requests -> Request]
           /\ served' \in 0 .. MaxRequests
           /\ req[r].pc = "idle"
           /\ \A q \in Requests \ {r} : req'[q] = req[q]
           /\ req'[r].pending = {} /\ ~req'[r].raced
           /\ req'[r].pc = "register" \/ \E u \in Users : Begun(r, u)
<1> USE DEF accounts, bounds, ghosts
<1> HIDE DEF Usable
<1>0. TypeOK /\ None \notin Users  BY NoneAssumption DEF BaseInv
<1>1. {"register", "confirm", "mint", "reset", "change", "save", "setpassword", "erase",
       "verify", "rotate"} \subseteq PC
  BY DEF PC
<1>9. ASSUME NEW u \in Users, user[u] # None, NEW pc \in PC,
             NEW of \in Tokens \cup Links \cup {None}, Start(r, pc, u, of)
      PROVE  /\ req' \in [Requests -> Request]
             /\ served' \in 0 .. MaxRequests
             /\ req[r].pc = "idle"
             /\ \A q \in Requests \ {r} : req'[q] = req[q]
             /\ req'[r].pending = {} /\ ~req'[r].raced
             /\ req'[r].pc = pc /\ req'[r].user = u /\ req'[r].of = of
             /\ req'[r].row = user[u]
  <2>1. u \in Users \cup {None} /\ u # None  BY <1>0
  <2>2. /\ req' \in [Requests -> Request]
        /\ served' \in 0 .. MaxRequests
        /\ req[r].pc = "idle"
    BY <1>0, <1>9, <2>1, StartShape
  <2>3. \A q \in Requests \ {r} : req'[q] = req[q]
    BY <1>0, <1>9, <2>1, StartShape
  <2>4. /\ req'[r].pc = pc /\ req'[r].user = u /\ req'[r].of = of
        /\ req'[r].pending = {} /\ ~req'[r].raced
    BY <1>0, <1>9, <2>1, StartShape
  <2>5. req'[r].row = user[u]
    BY <1>0, <1>9, <2>1, StartShape
  <2> QED  BY <2>2, <2>3, <2>4, <2>5
<1>2. CASE Register(r)
  BY <1>0, <1>1, <1>2, StartShape DEF Register
<1>3. ASSUME NEW u \in Users,
             \/ Confirm(r, u) \/ Login(r, u) \/ Reset(r, u)
             \/ Change(r, u) \/ Profile(r, u) \/ Erase(r, u)
             \/ StaffPatch(r, u) \/ AdminPassword(r, u)
      PROVE  /\ UNCHANGED <<user, known, passwords, token, link, mailed, crashes, changes,
                            opened, confirmed, unswept, restored>>
             /\ user[u] # None
             /\ \E pc \in {"confirm", "reset", "mint", "change", "save", "setpassword",
                           "erase"} : Start(r, pc, u, None)
  BY <1>3 DEF Confirm, Login, Reset, Change, Profile, Erase, StaffPatch, AdminPassword,
              CanAuthenticate, Authenticated
<1>10. ASSUME NEW u \in Users,
              \/ Confirm(r, u) \/ Login(r, u) \/ Reset(r, u)
              \/ Change(r, u) \/ Profile(r, u) \/ Erase(r, u)
              \/ StaffPatch(r, u) \/ AdminPassword(r, u)
       PROVE  /\ UNCHANGED <<user, known, passwords, token, link, mailed, crashes, changes,
                             opened, confirmed, unswept, restored>>
              /\ req' \in [Requests -> Request]
              /\ served' \in 0 .. MaxRequests
              /\ req[r].pc = "idle"
              /\ \A q \in Requests \ {r} : req'[q] = req[q]
              /\ req'[r].pending = {} /\ ~req'[r].raced
              /\ Begun(r, u)
  <2>1. user[u] # None  BY <1>3, <1>10
  <2>2. PICK pc \in {"confirm", "reset", "mint", "change", "save", "setpassword", "erase"} :
          Start(r, pc, u, None)
    BY <1>3, <1>10
  <2>3. UNCHANGED <<user, known, passwords, token, link, mailed, crashes, changes,
                    opened, confirmed, unswept, restored>>
    BY <1>3, <1>10
  <2>4. user[u] \in Row  BY <1>0, <2>1 DEF TypeOK
  <2>5. Begun(r, u)  BY <1>1, <1>9, <2>1, <2>2, <2>4 DEF Begun
  <2> QED  BY <1>1, <1>9, <2>1, <2>2, <2>3, <2>5
<1>4. CASE \E u \in Users : \/ Confirm(r, u) \/ Login(r, u) \/ Reset(r, u)
                            \/ Change(r, u) \/ Profile(r, u) \/ Erase(r, u)
                            \/ StaffPatch(r, u) \/ AdminPassword(r, u)
  BY <1>4, <1>10
<1>11. CASE \E u \in Users : AdminForm(r, u)
  <2>1. PICK u \in Users : AdminForm(r, u)  BY <1>11
  <2> QED  BY <2>1, AdminFormShape
<1>5. ASSUME NEW l \in Links, Verify(r, l)
      PROVE  /\ UNCHANGED <<user, known, passwords, token, link, mailed, crashes, changes,
                            opened, confirmed, unswept, restored>>
             /\ link[l] # None /\ link[l].user \in Users /\ user[link[l].user] # None
             /\ Start(r, "verify", link[l].user, l)
  <2>1. link[l] # None  BY <1>5 DEF Verify
  <2>2. link[l] \in Link  BY <1>0, <2>1 DEF TypeOK
  <2> QED  BY <1>5, <2>1, <2>2 DEF Verify, BaseInv, Link
<1>6. CASE \E l \in Links : Verify(r, l)
  <2>1. PICK l \in Links : Verify(r, l)  BY <1>6
  <2>2. PICK u \in Users : u = link[l].user  BY <1>5, <2>1
  <2>3. /\ link[l] # None /\ user[u] # None /\ Start(r, "verify", u, l)
        /\ UNCHANGED <<user, known, passwords, token, link, mailed, crashes, changes,
                       opened, confirmed, unswept, restored>>
    BY <1>5, <2>1, <2>2
  <2>4. /\ req'[r].pc = "verify" /\ req'[r].user = u /\ req'[r].of = l
        /\ req'[r].row = user[u]
    BY <1>1, <1>9, <2>3
  <2>5. Begun(r, u)  BY <2>2, <2>3, <2>4 DEF Begun
  <2> QED  BY <1>1, <1>9, <2>3, <2>5
<1>7. ASSUME NEW t \in Tokens, Refresh(r, t)
      PROVE  /\ UNCHANGED <<user, known, passwords, token, link, mailed, crashes, changes,
                            opened, confirmed, unswept, restored>>
             /\ Usable(t) /\ token[t].user \in Users /\ user[token[t].user] # None
             /\ Start(r, "rotate", token[t].user, t)
  <2>1. Usable(t)  BY <1>7 DEF Refresh
  <2>2. token[t] \in Token  BY <1>0, <2>1 DEF TypeOK, Usable
  <2> QED  BY <1>7, <2>1, <2>2 DEF Refresh, CanAuthenticate, Token
<1>8. CASE \E t \in Tokens : Refresh(r, t)
  <2>1. PICK t \in Tokens : Refresh(r, t)  BY <1>8
  <2>2. PICK u \in Users : u = token[t].user  BY <1>7, <2>1
  <2>3. /\ Usable(t) /\ user[u] # None /\ Start(r, "rotate", u, t)
        /\ UNCHANGED <<user, known, passwords, token, link, mailed, crashes, changes,
                       opened, confirmed, unswept, restored>>
    BY <1>7, <2>1, <2>2
  <2>4. /\ req'[r].pc = "rotate" /\ req'[r].user = u /\ req'[r].of = t
        /\ req'[r].row = user[u]
    BY <1>1, <1>9, <2>3
  <2>5. Begun(r, u)  BY <2>2, <2>3, <2>4 DEF Begun
  <2> QED  BY <1>1, <1>9, <2>3, <2>5
<1> QED  BY <1>2, <1>4, <1>6, <1>8, <1>11 DEF Begin

\* A request that is not the one to move: it may be told that it overlapped.
Same(q) ==
    /\ req'[q].pc = req[q].pc
    /\ req'[q].user = req[q].user
    /\ req'[q].row = req[q].row
    /\ req'[q].of = req[q].of
    /\ req'[q].pending = req[q].pending
    /\ req[q].raced => req'[q].raced

LEMMA AnswerShape ==
    ASSUME TypeOK, NEW r \in Requests, Answer(r)
    PROVE  /\ req' \in [Requests -> Request]
           /\ req'[r] = Idle /\ req'[r].pc = "idle" /\ req'[r].pending = {}
           /\ \A q \in Requests \ {r} : req'[q] = req[q] /\ Same(q)
<1>1. req \in [Requests -> Request]  BY DEF TypeOK
<1>2. req' = [req EXCEPT ![r] = Idle]  BY DEF Answer
<1> QED  BY <1>1, <1>2, IdleType DEF Idle, Same

LEMMA ContinueShape ==
    ASSUME TypeOK, NEW r \in Requests, NEW pc \in PC, Continue(r, pc)
    PROVE  /\ req' \in [Requests -> Request]
           /\ req'[r].pc = pc /\ req'[r].user = req[r].user /\ req'[r].row = req[r].row
           /\ req'[r].of = req[r].of /\ req'[r].pending = req[r].pending
           /\ req'[r].raced <=> req[r].raced
           /\ \A q \in Requests \ {r} : req'[q] = req[q] /\ Same(q)
<1>1. req[r] \in Request /\ req \in [Requests -> Request]  BY DEF TypeOK
<1>2. req' = [req EXCEPT ![r] = [req[r] EXCEPT !.pc = pc]]  BY DEF Continue
<1>3. [req[r] EXCEPT !.pc = pc] \in Request  BY <1>1 DEF Request
<1>4. req' \in [Requests -> Request] /\ req'[r] = [req[r] EXCEPT !.pc = pc]
  BY <1>1, <1>2, <1>3
<1>5. \A q \in Requests \ {r} : req'[q] = req[q] /\ Same(q)
  BY <1>1, <1>2 DEF Same
<1> QED  BY <1>1, <1>4, <1>5 DEF Request

LEMMA OverlappedShape ==
    ASSUME TypeOK, NEW r \in Requests, NEW u \in Users
    PROVE  /\ Overlapped(u, r) \in [Requests -> Request]
           /\ Overlapped(u, r)[r] = req[r]
           /\ \A q \in Requests \ {r} :
                /\ Overlapped(u, r)[q].pc = req[q].pc
                /\ Overlapped(u, r)[q].user = req[q].user
                /\ Overlapped(u, r)[q].row = req[q].row
                /\ Overlapped(u, r)[q].of = req[q].of
                /\ Overlapped(u, r)[q].pending = req[q].pending
                /\ req[q].raced \/ req[q].user = u => Overlapped(u, r)[q].raced
<1>1. req \in [Requests -> Request]  BY DEF TypeOK
<1>2. \A q \in Requests : [req[q] EXCEPT !.raced = TRUE] \in Request
  BY <1>1 DEF Request
<1>3. /\ Overlapped(u, r) \in [Requests -> Request]
      /\ Overlapped(u, r)[r] = req[r]
  BY <1>1, <1>2 DEF Overlapped
<1>4. ASSUME NEW q \in Requests \ {r}
      PROVE  /\ Overlapped(u, r)[q].pc = req[q].pc
             /\ Overlapped(u, r)[q].user = req[q].user
             /\ Overlapped(u, r)[q].row = req[q].row
             /\ Overlapped(u, r)[q].of = req[q].of
             /\ Overlapped(u, r)[q].pending = req[q].pending
             /\ req[q].raced \/ req[q].user = u => Overlapped(u, r)[q].raced
  <2>1. Overlapped(u, r)[q] = IF req[q].user = u THEN [req[q] EXCEPT !.raced = TRUE]
                              ELSE req[q]
    BY <1>4 DEF Overlapped
  <2>2. req[q] \in Request  BY <1>1
  <2>3. CASE req[q].user = u
    <3>1. Overlapped(u, r)[q] = [req[q] EXCEPT !.raced = TRUE]  BY <2>1, <2>3
    <3> QED  BY <2>2, <3>1 DEF Request
  <2>4. CASE req[q].user # u  BY <2>1, <2>4
  <2> QED  BY <2>3, <2>4
<1> QED  BY <1>3, <1>4

\* The two halves of a sweep.
Selects(r, pc, u, ts) ==
    req' = [Overlapped(u, r) EXCEPT ![r].pc = pc, ![r].pending = ts]

LEMMA SelectShape ==
    ASSUME TypeOK, NEW r \in Requests, NEW pc \in PC, NEW u \in Users,
           NEW ts \in SUBSET Tokens, Selects(r, pc, u, ts)
    PROVE  /\ req' \in [Requests -> Request]
           /\ req'[r].pc = pc /\ req'[r].user = req[r].user /\ req'[r].pending = ts
           /\ \A q \in Requests \ {r} : Same(q) /\ (req[q].user = u => req'[q].raced)
<1> DEFINE new == [req[r] EXCEPT !.pc = pc, !.pending = ts]
           o == Overlapped(u, r)
<1>1. req[r] \in Request  BY DEF TypeOK
<1>2. new \in Request /\ new.pc = pc /\ new.user = req[r].user /\ new.pending = ts
  BY <1>1 DEF Request
<1>3. o \in [Requests -> Request] /\ o[r] = req[r]  BY OverlappedShape
<1>4. req' = [o EXCEPT ![r] = new]  BY <1>3 DEF Selects
<1> HIDE DEF new, o
<1>5. /\ req' \in [Requests -> Request] /\ req'[r] = new
      /\ \A q \in Requests \ {r} : req'[q] = o[q]
  BY <1>2, <1>3, <1>4
<1>6. \A q \in Requests \ {r} : Same(q) /\ (req[q].user = u => req'[q].raced)
  BY <1>5, OverlappedShape DEF Same, o
<1> QED  BY <1>2, <1>5, <1>6

LEMMA SweptShape ==
    ASSUME TypeOK, NEW r \in Requests, NEW u \in Users,
           req' = [Overlapped(u, r) EXCEPT ![r] = Idle]
    PROVE  /\ req' \in [Requests -> Request]
           /\ req'[r].pc = "idle" /\ req'[r].pending = {}
           /\ \A q \in Requests \ {r} : Same(q) /\ (req[q].user = u => req'[q].raced)
<1> DEFINE o == Overlapped(u, r)
<1>1. o \in [Requests -> Request]  BY OverlappedShape
<1>2. req' = [o EXCEPT ![r] = Idle]  OBVIOUS
<1> HIDE DEF o
<1>3. /\ req' \in [Requests -> Request] /\ req'[r] = Idle
      /\ \A q \in Requests \ {r} : req'[q] = o[q]
  BY <1>1, <1>2, IdleType
<1>4. \A q \in Requests \ {r} : Same(q) /\ (req[q].user = u => req'[q].raced)
  BY <1>3, OverlappedShape DEF Same, o
<1> QED  BY <1>3, <1>4 DEF Idle

-----------------------------------------------------------------------------
(* Tokens *)

\* A token that is there goes nowhere, and if it is good it was, and is the same
\* unless its account is gone.
Keeps(t) ==
    token[t] # None =>
        /\ token'[t] # None
        /\ token'[t].user = token[t].user
        /\ token'[t].root = token[t].root
        /\ token'[t].raced <=> token[t].raced
        /\ Usable(t)' => /\ Usable(t)
                        /\ \/ token'[t] = token[t]
                           \/ user'[token[t].user] = None

\* What the handlers do to a token that is there, other than making one.
Marked(t) ==
    \/ token'[t] = token[t]
    \/ token'[t] = [token[t] EXCEPT !.blacklisted = TRUE]
    \/ token'[t] = [token[t] EXCEPT !.blacklisted = TRUE, !.owned = FALSE]
    \/ token'[t] = [token[t] EXCEPT !.expired = TRUE]
    \/ /\ token[t].expired
       /\ token'[t] = [token[t] EXCEPT !.blacklisted = FALSE, !.owned = FALSE]
    \/ /\ user'[token[t].user] = None
       /\ token'[t] = [token[t] EXCEPT !.owned = FALSE]

LEMMA MarkedKeeps ==
    ASSUME TypeOK, NEW t \in Tokens, token[t] # None, Marked(t)
    PROVE  token'[t] \in Token /\ Keeps(t)
<1>0. token[t] \in Token  BY DEF TypeOK
<1>1. SUFFICES /\ token'[t] \in Token
               /\ token'[t].user = token[t].user
               /\ token'[t].root = token[t].root
               /\ token'[t].raced <=> token[t].raced
               /\ \/ token'[t] = token[t]
                  \/ token'[t].blacklisted \/ token'[t].expired
                  \/ /\ user'[token[t].user] = None
                     /\ token'[t].blacklisted <=> token[t].blacklisted
                     /\ token'[t].expired <=> token[t].expired
  BY <1>0, NoneAssumption DEF Keeps, Usable
<1>2. CASE token'[t] = token[t]  BY <1>0, <1>2
<1>3. CASE token'[t] = [token[t] EXCEPT !.blacklisted = TRUE]
  BY <1>0, <1>3 DEF Token
<1>4. CASE token'[t] = [token[t] EXCEPT !.blacklisted = TRUE, !.owned = FALSE]
  BY <1>0, <1>4 DEF Token
<1>5. CASE token'[t] = [token[t] EXCEPT !.expired = TRUE]
  BY <1>0, <1>5 DEF Token
<1>6. CASE /\ token[t].expired
           /\ token'[t] = [token[t] EXCEPT !.blacklisted = FALSE, !.owned = FALSE]
  BY <1>0, <1>6 DEF Token
<1>7. CASE /\ user'[token[t].user] = None
           /\ token'[t] = [token[t] EXCEPT !.owned = FALSE]
  BY <1>0, <1>7 DEF Token
<1> QED  BY <1>2, <1>3, <1>4, <1>5, <1>6, <1>7 DEF Marked

\* The token a session gets.
Minted(r, t) ==
    LET q == req[r]
    IN  /\ token[t] = None /\ token'[t] \in Token
        /\ token'[t].user = q.user
        /\ q.of = None => /\ user[q.user] # None
                          /\ token'[t].root = q.row.password
        /\ q.of # None => /\ token'[t].root = token[q.of].root
                          /\ token[q.of].raced => token'[t].raced
        /\ user[q.user] # None => token'[t].owned
        /\ q.raced \/ Sweeping(q.user) => token'[t].raced

LEMMA MintShape ==
    ASSUME BaseInv, NEW r \in Requests, Mint(r)
    PROVE  /\ UNCHANGED <<user, known, passwords, link, mailed, served, crashes, changes,
                          opened, confirmed, unswept, restored>>
           /\ req[r].pc = "mint" /\ Answer(r)
           /\ \/ UNCHANGED token
              \/ \E t \in Tokens :
                   /\ Minted(r, t)
                   /\ \A s \in Tokens \ {t} : token'[s] = token[s]
           /\ token' \in [Tokens -> Token \cup {None}]
<1> DEFINE u == req[r].user
           from == req[r].of
           free == {s \in Tokens : token[s] = None}
           fresh == [user |-> u,
                     root |-> IF from = None THEN req[r].row.password
                              ELSE token[from].root,
                     owned |-> user[u] # None,
                     blacklisted |-> FALSE, expired |-> FALSE,
                     raced |-> \/ req[r].raced
                               \/ Sweeping(u)
                               \/ IF from = None THEN FALSE ELSE token[from].raced]
<1>0. TypeOK /\ Holding(r) /\ req[r] \in Request  BY DEF BaseInv, TypeOK
<1>1. /\ UNCHANGED <<user, known, passwords, link, mailed, served, crashes, changes,
                     opened, confirmed, unswept, restored>>
      /\ req[r].pc = "mint" /\ Answer(r) /\ free # {}
      /\ token' = IF user[u] = None /\ from = None THEN token
                  ELSE [token EXCEPT ![Min(free)] = fresh]
  BY DEF Mint, At, accounts, bounds, ghosts
<1>2. Min(free) \in Tokens /\ token[Min(free)] = None
  <2>1. free \in SUBSET Nat  BY IdsAssumption
  <2>2. Min(free) \in free  BY <1>1, <2>1, MinIsIn
  <2> QED  BY <2>2
<1>3. u \in Users /\ (from = None => req[r].row \in Row)
      /\ (from # None => from \in Tokens /\ token[from] \in Token)
  BY <1>0, <1>1, NoneAssumption DEF Holding, TypeOK
<1>4. fresh.root \in Password  BY <1>3 DEF Row, Token
<1>5. fresh \in Token
  <2>1. (user[u] # None) \in BOOLEAN  OBVIOUS
  <2>2. (\/ req[r].raced
         \/ Sweeping(u)
         \/ IF from = None THEN FALSE ELSE token[from].raced) \in BOOLEAN
    OBVIOUS
  <2> QED  BY <1>3, <1>4, <2>1, <2>2 DEF Token
<1>6. /\ fresh.user = u
      /\ from = None => fresh.root = req[r].row.password
      /\ from # None => fresh.root = token[from].root
  OBVIOUS
<1>7. /\ user[u] # None => fresh.owned
      /\ req[r].raced \/ Sweeping(u) => fresh.raced
      /\ from # None /\ token[from].raced => fresh.raced
  OBVIOUS
<1> HIDE DEF fresh, free
<1>8. CASE user[u] = None /\ from = None  BY <1>0, <1>1, <1>8 DEF TypeOK
<1>9. CASE ~(user[u] = None /\ from = None)
  <2>1. /\ token' = [token EXCEPT ![Min(free)] = fresh]
        /\ token \in [Tokens -> Token \cup {None}]
    BY <1>0, <1>1, <1>9 DEF TypeOK
  <2>2. /\ token' \in [Tokens -> Token \cup {None}] /\ token'[Min(free)] = fresh
        /\ \A s \in Tokens \ {Min(free)} : token'[s] = token[s]
    BY <1>2, <1>5, <2>1
  <2>3. Minted(r, Min(free))
    BY <1>2, <1>5, <1>6, <1>7, <1>9, <2>2 DEF Minted
  <2> QED  BY <1>1, <1>2, <2>2, <2>3
<1> QED  BY <1>8, <1>9

\* What a password change gives the session that asked for it.
LEMMA ChangeCommitShape ==
    ASSUME BaseInv, NEW r \in Requests, ChangeCommit(r)
    PROVE  /\ UNCHANGED <<known, link, mailed, served, crashes, changes, opened, confirmed,
                          restored>>
           /\ req[r].pc = "commit" /\ req[r].user \in Users /\ user[req[r].user] \in Row
           /\ passwords' = passwords + 1 /\ passwords' \in Password
           /\ user' = [user EXCEPT ![req[r].user] =
                          [user[req[r].user] EXCEPT !.password = passwords + 1]]
           /\ unswept' = unswept \ {req[r].user}
           /\ req' = [Overlapped(req[r].user, r) EXCEPT ![r] = Idle]
           /\ token' \in [Tokens -> Token \cup {None}]
           /\ \E t \in Tokens :
                /\ token[t] = None /\ token'[t] \in Token
                /\ token'[t].user = req[r].user /\ token'[t].root = passwords + 1
                /\ token'[t].owned
                /\ \A q \in Requests \ {r} :
                     req[q].pc = "blacklist" /\ req[q].user = req[r].user
                         => token'[t].raced
                /\ \A s \in Tokens \ {t} :
                     /\ token[s] = None => token'[s] = None
                     /\ token[s] # None => Marked(s)
                     /\ s \in req[r].pending => token'[s].blacklisted
<1> DEFINE u == req[r].user
           free == {s \in Tokens : token[s] = None}
           n == Min(free)
           fresh == [user |-> u, root |-> passwords + 1, owned |-> TRUE,
                     blacklisted |-> FALSE, expired |-> FALSE,
                     raced |-> \E q \in Requests \ {r} :
                                 At(q, "blacklist") /\ req[q].user = u]
           b == Blacklist(req[r].pending)
<1>0. TypeOK /\ Holding(r) /\ req[r] \in Request  BY DEF BaseInv, TypeOK
<1>1. /\ UNCHANGED <<known, link, mailed, served, crashes, changes, opened, confirmed,
                     restored>>
      /\ req[r].pc = "commit" /\ passwords < MaxPasswords /\ free # {}
      /\ passwords' = passwords + 1
      /\ user' = [user EXCEPT ![u].password = passwords + 1]
      /\ token' = [b EXCEPT ![n] = fresh]
      /\ req' = [Overlapped(u, r) EXCEPT ![r] = Idle]
      /\ unswept' = unswept \ {u}
  BY DEF ChangeCommit, At, bounds
<1>2. u \in Users /\ user[u] \in Row /\ passwords + 1 \in Password
  BY <1>0, <1>1, BoundsAssumption DEF Holding, TypeOK, Password
<1>3. n \in Tokens /\ token[n] = None
  <2>1. free \in SUBSET Nat  BY IdsAssumption
  <2>2. Min(free) \in free  BY <1>1, <2>1, MinIsIn
  <2> QED  BY <2>2
<1>4. fresh \in Token /\ fresh.user = u /\ fresh.root = passwords + 1 /\ fresh.owned
  <2>1. (\E q \in Requests \ {r} : At(q, "blacklist") /\ req[q].user = u) \in BOOLEAN
    OBVIOUS
  <2> QED  BY <1>2, <2>1 DEF Token
<1>5. \A q \in Requests \ {r} : req[q].pc = "blacklist" /\ req[q].user = u => fresh.raced
  BY DEF At
<1>6. /\ b \in [Tokens -> Token \cup {None}]
      /\ \A s \in Tokens :
           b[s] = IF s \in req[r].pending THEN [token[s] EXCEPT !.blacklisted = TRUE]
                  ELSE token[s]
  <2>1. \A s \in Tokens : b[s] = IF s \in req[r].pending
                                 THEN [token[s] EXCEPT !.blacklisted = TRUE] ELSE token[s]
    BY DEF Blacklist
  <2>2. ASSUME NEW s \in Tokens, s \in req[r].pending
        PROVE  [token[s] EXCEPT !.blacklisted = TRUE] \in Token
    <3>1. token[s] \in Token  BY <1>0, <2>2 DEF Holding, TypeOK
    <3> QED  BY <3>1 DEF Token
  <2>3. token \in [Tokens -> Token \cup {None}]  BY <1>0 DEF TypeOK
  <2> QED  BY <2>1, <2>2, <2>3 DEF Blacklist
<1> HIDE DEF free, n, fresh, b
<1>7. /\ token' \in [Tokens -> Token \cup {None}] /\ token'[n] = fresh
      /\ \A s \in Tokens \ {n} : token'[s] = b[s]
  BY <1>1, <1>3, <1>4, <1>6
<1>8. ASSUME NEW s \in Tokens \ {n}
      PROVE  /\ token[s] = None => token'[s] = None
             /\ token[s] # None => Marked(s)
             /\ s \in req[r].pending => token'[s].blacklisted
  <2>1. CASE s \in req[r].pending
    <3>1. token[s] \in Token /\ token[s] # None
      BY <1>0, <1>8, <2>1 DEF Holding, TypeOK
    <3>2. token'[s] = [token[s] EXCEPT !.blacklisted = TRUE]  BY <1>6, <1>7, <1>8, <2>1
    <3> QED  BY <3>1, <3>2 DEF Marked, Token
  <2>2. CASE s \notin req[r].pending  BY <1>6, <1>7, <1>8, <2>2 DEF Marked
  <2> QED  BY <2>1, <2>2
<1>9. user' = [user EXCEPT ![u] = [user[u] EXCEPT !.password = passwords + 1]]
  BY <1>1
<1> QED  BY <1>1, <1>2, <1>3, <1>4, <1>5, <1>7, <1>8, <1>9

\* A token is made by Mint and ChangeCommit; the others mark tokens.
LEMMA MarkedOrMade ==
    ASSUME BaseInv, [Next]_vars
    PROVE  /\ token' \in [Tokens -> Token \cup {None}]
           /\ \A t \in Tokens : Keeps(t)
           /\ \A t \in Tokens : token[t] = None /\ token'[t] # None =>
                \E r \in Requests : Mint(r) \/ ChangeCommit(r)
<1> USE DEF accounts, bounds, ghosts
<1>0. TypeOK /\ token \in [Tokens -> Token \cup {None}]  BY DEF BaseInv, TypeOK
<1>1. SUFFICES \/ /\ DOMAIN token' = Tokens
                  /\ \A t \in Tokens : IF token[t] = None THEN token'[t] = None
                                       ELSE Marked(t)
                  /\ token' = [t \in Tokens |-> token'[t]]
               \/ \E r \in Requests : Mint(r) \/ ChangeCommit(r)
  <2>1. CASE \E r \in Requests : Mint(r)
    <3>1. PICK r \in Requests : Mint(r)  BY <2>1
    <3>2. \A t \in Tokens : token[t] # None => Marked(t)
      BY <3>1, MintShape DEF Minted, Marked
    <3> QED  BY <1>0, <3>1, <3>2, MintShape, MarkedKeeps DEF Keeps
  <2>2. CASE \E r \in Requests : ChangeCommit(r)
    <3>1. PICK r \in Requests : ChangeCommit(r)  BY <2>2
    <3>2. \A t \in Tokens : token[t] # None => Marked(t)
      BY <3>1, ChangeCommitShape
    <3> QED  BY <1>0, <3>1, <3>2, ChangeCommitShape, MarkedKeeps DEF Keeps
  <2>3. CASE /\ token' = [t \in Tokens |-> token'[t]]
             /\ \A t \in Tokens : IF token[t] = None THEN token'[t] = None
                                  ELSE Marked(t)
    <3>1. \A t \in Tokens : Keeps(t) /\ token'[t] \in Token \cup {None}
                            /\ (token[t] = None => token'[t] = None)
      BY <1>0, <2>3, MarkedKeeps DEF Keeps
    <3> QED  BY <2>3, <3>1
  <2> QED  BY <1>1, <2>1, <2>2, <2>3
<1>2. CASE UNCHANGED token  BY <1>0, <1>2 DEF Marked
<1>3. ASSUME NEW r \in Requests, Begin(r) PROVE UNCHANGED token  BY <1>3, BeginShape
<1>4. CASE \/ UNCHANGED vars
           \/ \E u \in Users : Resend(u) \/ RequestLink(u) \/ RequestReset(u)
           \/ \E l \in Links : LinkExpires(l)
           \/ \E m \in mailed : MailExpires(m)
           \/ \E r \in Requests : Crash(r)
  BY <1>2, <1>4 DEF vars, Resend, RequestLink, RequestReset, LinkExpires, MailExpires,
                    Crash
<1>5. ASSUME NEW x \in Tokens, token[x] # None,
             \/ token' = [token EXCEPT ![x].blacklisted = TRUE]
             \/ token' = [token EXCEPT ![x].expired = TRUE]
      PROVE  /\ DOMAIN token' = Tokens
             /\ \A t \in Tokens : IF token[t] = None THEN token'[t] = None ELSE Marked(t)
             /\ token' = [t \in Tokens |-> token'[t]]
  BY <1>0, <1>5 DEF Marked
<1>6. CASE \E t \in Tokens : Logout(t) \/ TokenExpires(t)
  <2>1. PICK t \in Tokens : Logout(t) \/ TokenExpires(t)  BY <1>6
  <2> QED  BY <1>5, <2>1 DEF Logout, TokenExpires, Usable
<1>7. CASE Flush
  <2>1. token' = [t \in Tokens |-> IF token[t] # None /\ Flushed(t)
                     THEN [token[t] EXCEPT !.blacklisted = FALSE, !.owned = FALSE]
                     ELSE token[t]]
    BY <1>7 DEF Flush
  <2>2. \A t \in Tokens : IF token[t] = None THEN token'[t] = None ELSE Marked(t)
    BY <2>1 DEF Marked, Flushed
  <2> QED  BY <2>1, <2>2
<1>8. ASSUME NEW r \in Requests, Proceed(r), ~Mint(r), ~ChangeCommit(r)
      PROVE  /\ DOMAIN token' = Tokens
             /\ \A t \in Tokens : IF token[t] = None THEN token'[t] = None ELSE Marked(t)
             /\ token' = [t \in Tokens |-> token'[t]]
  <2>0. Holding(r)  BY DEF BaseInv
  <2>1. CASE Rotate(r)
    <3>1. req[r].of \in Tokens /\ token[req[r].of] # None
      BY <2>0, <2>1, NoneAssumption DEF Rotate, At, Holding
    <3> QED  BY <1>5, <2>1, <3>1 DEF Rotate
  <2>2. CASE ResetBlacklist(r)
    <3>1. token' = [t \in Tokens |-> IF t \in req[r].pending
                       THEN [token[t] EXCEPT !.blacklisted = TRUE] ELSE token[t]]
      BY <2>2 DEF ResetBlacklist, Blacklist
    <3>2. \A t \in Tokens : IF token[t] = None THEN token'[t] = None ELSE Marked(t)
      BY <2>0, <3>1 DEF Marked, Holding
    <3> QED  BY <3>1, <3>2
  <2>3. CASE DeleteUserAccount(r)
    <3>1. token' = [t \in Tokens |->
                       IF token[t] # None /\ token[t].user = req[r].user /\ token[t].owned
                       THEN [token[t] EXCEPT !.blacklisted = TRUE, !.owned = FALSE]
                       ELSE token[t]]
      BY <2>3 DEF DeleteUserAccount
    <3>2. \A t \in Tokens : IF token[t] = None THEN token'[t] = None ELSE Marked(t)
      BY <3>1 DEF Marked
    <3> QED  BY <3>1, <3>2
  <2>4. CASE \/ RegisterInsert(r) \/ ConfirmUpdate(r) \/ VerifyUpdate(r) \/ ResetSave(r)
             \/ ResetSelect(r) \/ ChangeSelect(r) \/ RowSave(r) \/ AdminPasswordSave(r)
    <3>1. UNCHANGED token
      BY <2>4 DEF RegisterInsert, ConfirmUpdate, VerifyUpdate, ResetSave, ResetSelect,
                  ChangeSelect, RowSave, AdminPasswordSave
    <3> QED  BY <1>0, <3>1 DEF Marked
  <2> QED  BY <1>8, <2>1, <2>2, <2>3, <2>4 DEF Proceed
<1>9. ASSUME NEW u \in Users, AdminDelete(u)
      PROVE  /\ DOMAIN token' = Tokens
             /\ \A t \in Tokens : IF token[t] = None THEN token'[t] = None ELSE Marked(t)
             /\ token' = [t \in Tokens |-> token'[t]]
  <2>1. /\ user' = [user EXCEPT ![u] = None]
        /\ token' = [t \in Tokens |-> IF token[t] # None /\ token[t].user = u
                                      THEN [token[t] EXCEPT !.owned = FALSE] ELSE token[t]]
    BY <1>9 DEF AdminDelete
  <2>2. user'[u] = None  BY <1>0, <2>1 DEF TypeOK
  <2>3. \A t \in Tokens : IF token[t] = None THEN token'[t] = None ELSE Marked(t)
    BY <2>1, <2>2 DEF Marked
  <2> QED  BY <2>1, <2>3
<1> QED  BY <1>2, <1>3, <1>4, <1>6, <1>7, <1>8, <1>9 DEF Next

-----------------------------------------------------------------------------
(* Types *)

\* The row of one account is replaced.
LEMMA RowReplaced ==
    ASSUME TypeOK, NEW u \in Users, NEW new \in Row \cup {None},
           user' = [user EXCEPT ![u] = new]
    PROVE  /\ user' \in [Users -> Row \cup {None}]
           /\ user'[u] = new
           /\ \A v \in Users \ {u} : user'[v] = user[v]
BY DEF TypeOK

LEMMA NewPassword ==
    ASSUME TypeOK, passwords < MaxPasswords
    PROVE  passwords + 1 \in Password /\ passwords + 1 \in 0 .. MaxPasswords
BY BoundsAssumption DEF TypeOK, Password

\* The steps of a request that change the rows of users, one by one.
LEMMA RegisterInsertShape ==
    ASSUME TypeOK, NEW r \in Requests, RegisterInsert(r)
    PROVE  /\ UNCHANGED <<token, link, served, crashes, changes, opened, confirmed,
                          unswept, restored>>
           /\ Answer(r)
           /\ \E u \in Users \ known :
                /\ known' = known \cup {u}
                /\ \/ UNCHANGED <<user, passwords, mailed>>
                   \/ \E new \in Row :
                        /\ user' = [user EXCEPT ![u] = new]
                        /\ passwords' \in 0 .. MaxPasswords
                        /\ mailed' \in SUBSET Mailed
                        /\ new.password = passwords'
<1> DEFINE u == Min(Users \ known)
           new == [password |-> passwords + 1, confirmed |-> FALSE, active |-> TRUE]
<1>1. /\ UNCHANGED <<token, link, served, crashes, changes, opened, confirmed, unswept,
                     restored>>
      /\ Answer(r) /\ Users \ known # {} /\ passwords < MaxPasswords
      /\ known' = known \cup {u}
      /\ \/ /\ passwords' = passwords + 1
            /\ user' = [user EXCEPT ![u] = new]
            /\ mailed' = mailed \cup {[for |-> "confirm", user |-> u,
                                       password |-> passwords + 1]}
         \/ UNCHANGED <<user, passwords, mailed>>
  BY DEF RegisterInsert, bounds, ghosts
<1>2. u \in Users \ known
  <2>1. Users \ known \in SUBSET Nat  BY IdsAssumption
  <2> QED  BY <1>1, <2>1, MinIsIn
<1>3. passwords + 1 \in Password /\ passwords + 1 \in 0 .. MaxPasswords
  BY <1>1, NewPassword
<1>4. new \in Row /\ new.password = passwords + 1  BY <1>3 DEF Row
<1> HIDE DEF u, new
<1>5. mailed \cup {[for |-> "confirm", user |-> u, password |-> passwords + 1]}
        \in SUBSET Mailed
  BY <1>2, <1>3 DEF TypeOK, Mailed
<1> QED  BY <1>1, <1>2, <1>3, <1>4, <1>5

LEMMA ConfirmUpdateShape ==
    ASSUME BaseInv, NEW r \in Requests, ConfirmUpdate(r)
    PROVE  /\ UNCHANGED <<known, passwords, token, link, mailed, served, crashes, changes,
                          opened, unswept, restored>>
           /\ req[r].pc = "confirm" /\ req[r].user \in Users
           /\ \/ UNCHANGED <<user, confirmed>> /\ Answer(r)
              \/ /\ user[req[r].user] \in Row /\ ~user[req[r].user].confirmed
                 /\ user' = [user EXCEPT ![req[r].user] =
                                [user[req[r].user] EXCEPT !.confirmed = TRUE]]
                 /\ [user[req[r].user] EXCEPT !.confirmed = TRUE] \in Row
                 /\ confirmed' = [confirmed EXCEPT ![req[r].user] = @ + 1]
                 /\ Continue(r, "mint")
<1>0. TypeOK /\ Holding(r)  BY DEF BaseInv
<1>1. req[r].pc = "confirm" /\ req[r].user \in Users
  BY <1>0 DEF ConfirmUpdate, At, Holding, TypeOK
<1>2. user[req[r].user] # None =>
        /\ user[req[r].user] \in Row
        /\ [user[req[r].user] EXCEPT !.confirmed = TRUE] \in Row
        /\ user[req[r].user].confirmed = FALSE => ~user[req[r].user].confirmed
  <2>1. user[req[r].user] # None => user[req[r].user] \in Row  BY <1>0, <1>1 DEF TypeOK
  <2> QED  BY <2>1 DEF Row
<1> QED  BY <1>1, <1>2 DEF ConfirmUpdate, bounds

LEMMA ResetSaveShape ==
    ASSUME BaseInv, NEW r \in Requests, ResetSave(r)
    PROVE  /\ UNCHANGED <<known, token, link, mailed, served, crashes, changes, opened,
                          confirmed, unswept, restored>>
           /\ req[r].pc = "reset" /\ req[r].user \in Users
           /\ \/ UNCHANGED <<user, passwords>> /\ Answer(r)
              \/ /\ user[req[r].user] \in Row
                 /\ user' = [user EXCEPT ![req[r].user] =
                                [user[req[r].user] EXCEPT !.password = passwords + 1]]
                 /\ [user[req[r].user] EXCEPT !.password = passwords + 1] \in Row
                 /\ passwords' = passwords + 1 /\ passwords' \in 0 .. MaxPasswords
                 /\ Continue(r, "sweep")
<1>0. TypeOK /\ Holding(r)  BY DEF BaseInv
<1>1. req[r].pc = "reset" /\ req[r].user \in Users
  BY <1>0 DEF ResetSave, At, Holding, TypeOK
<1>2. passwords + 1 \in Password /\ passwords + 1 \in 0 .. MaxPasswords
  BY <1>0, NewPassword DEF ResetSave
<1>3. user[req[r].user] # None =>
        /\ user[req[r].user] \in Row
        /\ [user[req[r].user] EXCEPT !.password = passwords + 1] \in Row
  <2>1. user[req[r].user] # None => user[req[r].user] \in Row  BY <1>0, <1>1 DEF TypeOK
  <2> QED  BY <1>2, <2>1 DEF Row
<1> QED  BY <1>1, <1>2, <1>3 DEF ResetSave, bounds, ghosts

\* A request saves the whole row of its user, as it was read and edited.
SavesRow(r) == RowSave(r) \/ AdminPasswordSave(r)

\* The row is put back, or the password stays, or it is new and no sweep follows.
LEMMA SavesRowShape ==
    ASSUME BaseInv, NEW r \in Requests, SavesRow(r)
    PROVE  /\ UNCHANGED <<known, token, link, mailed, served, crashes, changes, opened,
                          confirmed>>
           /\ req[r].pc \in {"save", "setpassword"}
           /\ req[r].user \in known /\ req[r].user \in Users /\ Answer(r)
           /\ passwords' \in 0 .. MaxPasswords
           /\ unswept' \in {unswept, unswept \cup {req[r].user}}
           /\ restored' \in {restored, restored \cup {req[r].user}}
           /\ \/ UNCHANGED user
              \/ \E row \in Row :
                   /\ user' = [user EXCEPT ![req[r].user] = row]
                   /\ \/ restored' = restored \cup {req[r].user}
                      \/ /\ user[req[r].user] # None
                         /\ user[req[r].user].confirmed => row.confirmed
                         /\ \/ user[req[r].user].password = row.password
                            \/ req[r].user \in unswept'
<1>0. TypeOK /\ Holding(r)  BY DEF BaseInv
<1>1. /\ req[r].pc \in {"save", "setpassword"}
      /\ req[r].user \in known /\ req[r].user \in Users /\ req[r].row \in Row
  BY <1>0 DEF SavesRow, RowSave, AdminPasswordSave, At, Holding, TypeOK
<1>2. CASE RowSave(r)
  <2>1. /\ UNCHANGED <<known, passwords, token, link, mailed, served, crashes, changes,
                       opened, confirmed, unswept>>
        /\ Answer(r) /\ SaveRow(req[r].user, req[r].row)
        /\ restored' = IF \/ PutsBack(req[r].user, req[r].row)
                          \/ /\ user[req[r].user] # None
                             /\ user[req[r].user].password # req[r].row.password
                       THEN restored \cup {req[r].user} ELSE restored
    BY <1>2 DEF RowSave, bounds
  <2>2. passwords' \in 0 .. MaxPasswords  BY <1>0, <2>1 DEF TypeOK
  <2>3. CASE ~(Live \subseteq {req[r].user})
    BY <1>1, <2>1, <2>2, <2>3 DEF SaveRow
  <2>4. CASE Live \subseteq {req[r].user}
    <3>1. user' = [user EXCEPT ![req[r].user] = req[r].row]  BY <2>1, <2>4 DEF SaveRow
    <3>2. \/ restored' = restored \cup {req[r].user}
          \/ /\ user[req[r].user] # None
             /\ user[req[r].user].confirmed => req[r].row.confirmed
             /\ user[req[r].user].password = req[r].row.password
      BY <2>1, <2>4 DEF PutsBack
    <3> QED  BY <1>1, <2>1, <2>2, <3>1, <3>2
  <2> QED  BY <2>3, <2>4
<1>3. CASE AdminPasswordSave(r)
  <2> DEFINE row == [req[r].row EXCEPT !.password = passwords + 1]
  <2>1. /\ UNCHANGED <<known, token, link, mailed, served, crashes, changes, opened,
                       confirmed>>
        /\ Answer(r) /\ SaveRow(req[r].user, row) /\ passwords' = passwords + 1
        /\ passwords < MaxPasswords /\ unswept' = unswept \cup {req[r].user}
        /\ restored' = IF PutsBack(req[r].user, row) THEN restored \cup {req[r].user}
                       ELSE restored
    BY <1>3 DEF AdminPasswordSave, bounds
  <2>2. passwords + 1 \in Password /\ passwords' \in 0 .. MaxPasswords
    BY <1>0, <2>1, NewPassword
  <2>3. row \in Row  BY <1>1, <2>2 DEF Row
  <2> HIDE DEF row
  <2>4. CASE ~(Live \subseteq {req[r].user})
    BY <1>1, <2>1, <2>2, <2>4 DEF SaveRow
  <2>5. CASE Live \subseteq {req[r].user}
    <3>1. user' = [user EXCEPT ![req[r].user] = row]  BY <2>1, <2>5 DEF SaveRow
    <3>2. \/ restored' = restored \cup {req[r].user}
          \/ /\ user[req[r].user] # None
             /\ user[req[r].user].confirmed => row.confirmed
      BY <2>1, <2>5 DEF PutsBack
    <3> QED  BY <1>1, <2>1, <2>2, <2>3, <3>1, <3>2
  <2> QED  BY <2>4, <2>5
<1> QED  BY <1>2, <1>3 DEF SavesRow

\* The other steps of a request.
LEMMA VerifyUpdateShape ==
    ASSUME BaseInv, NEW r \in Requests, VerifyUpdate(r)
    PROVE  /\ UNCHANGED <<user, known, passwords, token, mailed, served, crashes, changes,
                          confirmed, unswept, restored>>
           /\ req[r].pc = "verify" /\ req[r].of \in Links
           /\ \/ UNCHANGED <<link, opened>> /\ Answer(r)
              \/ /\ link[req[r].of] \in Link
                 /\ ~link[req[r].of].used
                 /\ link' = [link EXCEPT ![req[r].of] =
                                [link[req[r].of] EXCEPT !.used = TRUE]]
                 /\ opened' = [opened EXCEPT ![req[r].of] = @ + 1]
                 /\ req' \in [Requests -> Request]
                 /\ req'[r].pc = "mint" /\ req'[r].user = req[r].user
                 /\ req'[r].row = req[r].row /\ req'[r].of = None
                 /\ req'[r].pending = req[r].pending
                 /\ req'[r].raced <=> req[r].raced
                 /\ \A q \in Requests \ {r} : req'[q] = req[q] /\ Same(q)
<1>0. TypeOK /\ Holding(r) /\ req \in [Requests -> Request]  BY DEF BaseInv, TypeOK
<1>1. req[r].pc = "verify" /\ req[r].of \in Links  BY <1>0 DEF VerifyUpdate, At, Holding
<1>2. ASSUME link[req[r].of] # None, IsValid(req[r].of),
             req' = [req EXCEPT ![r].pc = "mint", ![r].of = None]
      PROVE  /\ link[req[r].of] \in Link
             /\ ~link[req[r].of].used
             /\ req' \in [Requests -> Request]
             /\ req'[r].pc = "mint" /\ req'[r].user = req[r].user
             /\ req'[r].row = req[r].row /\ req'[r].of = None
             /\ req'[r].pending = req[r].pending
             /\ req'[r].raced <=> req[r].raced
             /\ \A q \in Requests \ {r} : req'[q] = req[q] /\ Same(q)
  <2> DEFINE new == [req[r] EXCEPT !.pc = "mint", !.of = None]
  <2>1. req[r] \in Request /\ "mint" \in PC  BY <1>0 DEF PC
  <2>2. /\ new \in Request
        /\ new.pc = "mint" /\ new.user = req[r].user /\ new.row = req[r].row
        /\ new.of = None /\ new.pending = req[r].pending
        /\ new.raced <=> req[r].raced
    BY <2>1 DEF Request
  <2>3. req' = [req EXCEPT ![r] = new]  BY <1>2
  <2> HIDE DEF new
  <2>4. /\ req' \in [Requests -> Request] /\ req'[r] = new
        /\ \A q \in Requests \ {r} : req'[q] = req[q]
    BY <1>0, <2>2, <2>3
  <2>5. link[req[r].of] \in Link /\ ~link[req[r].of].used
    BY <1>0, <1>1, <1>2 DEF TypeOK, IsValid
  <2> QED  BY <2>2, <2>4, <2>5 DEF Same
<1>3. /\ UNCHANGED <<user, known, passwords, token, mailed, served, crashes, changes,
                     confirmed, unswept, restored>>
      /\ \/ UNCHANGED <<link, opened>> /\ Answer(r)
         \/ /\ link[req[r].of] # None /\ IsValid(req[r].of)
            /\ link' = [link EXCEPT ![req[r].of].used = TRUE]
            /\ opened' = [opened EXCEPT ![req[r].of] = @ + 1]
            /\ req' = [req EXCEPT ![r].pc = "mint", ![r].of = None]
  BY DEF VerifyUpdate, accounts, bounds
<1>4. link' = [link EXCEPT ![req[r].of].used = TRUE] =>
        link' = [link EXCEPT ![req[r].of] = [link[req[r].of] EXCEPT !.used = TRUE]]
  OBVIOUS
<1> QED  BY <1>1, <1>2, <1>3, <1>4

LEMMA SelectStepsShape ==
    ASSUME BaseInv, NEW r \in Requests, ResetSelect(r) \/ ChangeSelect(r)
    PROVE  /\ UNCHANGED <<user, known, passwords, token, link, mailed, served, crashes,
                          changes, opened, confirmed, unswept, restored>>
           /\ req[r].user \in Users /\ req[r].user \in known
           /\ req[r].pc \in {"sweep", "change"}
           /\ \/ req[r].pc = "change" /\ user[req[r].user] = None /\ Answer(r)
              \/ /\ req' \in [Requests -> Request]
                 /\ \/ req[r].pc = "sweep" /\ req'[r].pc = "blacklist"
                    \/ /\ req[r].pc = "change" /\ req'[r].pc = "commit"
                       /\ user[req[r].user] # None /\ ~RowLocked(req[r].user)
                 /\ req'[r].user = req[r].user
                 /\ req'[r].pending = Pending(req[r].user)
                 /\ \A q \in Requests \ {r} :
                      Same(q) /\ (req[q].user = req[r].user => req'[q].raced)
<1>0. TypeOK /\ Holding(r)  BY DEF BaseInv
<1>1. /\ UNCHANGED <<user, known, passwords, token, link, mailed, served, crashes,
                     changes, opened, confirmed, unswept, restored>>
      /\ req[r].pc \in {"sweep", "change"}
  BY DEF ResetSelect, ChangeSelect, At, accounts, bounds, ghosts
<1>2. req[r].user \in known /\ req[r].user \in Users
  BY <1>0, <1>1 DEF Holding, TypeOK
<1>3. Pending(req[r].user) \in SUBSET Tokens /\ "blacklist" \in PC /\ "commit" \in PC
  BY DEF Pending, PC
<1>4. PICK u \in Users : u = req[r].user  BY <1>2
<1>5. PICK ts \in SUBSET Tokens : ts = Pending(req[r].user)  BY <1>3
<1> HIDE DEF Pending
<1>6. CASE ResetSelect(r)
  <2>1. req[r].pc = "sweep" /\ Selects(r, "blacklist", u, ts)
    BY <1>4, <1>5, <1>6 DEF ResetSelect, At, Selects
  <2>2. /\ req' \in [Requests -> Request]
        /\ req'[r].pc = "blacklist" /\ req'[r].user = u /\ req'[r].pending = ts
        /\ \A q \in Requests \ {r} : Same(q) /\ (req[q].user = u => req'[q].raced)
    BY <1>0, <1>3, <1>4, <2>1, SelectShape
  <2> QED  BY <1>1, <1>2, <1>4, <1>5, <2>1, <2>2
<1>7. CASE ChangeSelect(r)
  <2>1. req[r].pc = "change" /\ ~RowLocked(u)  BY <1>4, <1>7 DEF ChangeSelect, At
  <2>2. CASE user[u] = None
    BY <1>1, <1>2, <1>4, <1>7, <2>1, <2>2 DEF ChangeSelect
  <2>3. CASE user[u] # None
    <3>1. Selects(r, "commit", u, ts)
      BY <1>4, <1>5, <1>7, <2>3 DEF ChangeSelect, Selects
    <3>2. /\ req' \in [Requests -> Request]
          /\ req'[r].pc = "commit" /\ req'[r].user = u /\ req'[r].pending = ts
          /\ \A q \in Requests \ {r} : Same(q) /\ (req[q].user = u => req'[q].raced)
      BY <1>0, <1>3, <1>4, <3>1, SelectShape
    <3> QED  BY <1>1, <1>2, <1>4, <1>5, <2>1, <2>3, <3>2
  <2> QED  BY <2>2, <2>3
<1> QED  BY <1>6, <1>7

LEMMA ResetBlacklistShape ==
    ASSUME BaseInv, NEW r \in Requests, ResetBlacklist(r)
    PROVE  /\ UNCHANGED <<user, known, passwords, link, mailed, served, crashes, changes,
                          opened, confirmed, restored>>
           /\ req[r].pc = "blacklist" /\ req[r].user \in Users
           /\ unswept' = unswept \ {req[r].user}
           /\ req' \in [Requests -> Request]
           /\ req'[r].pc = "idle" /\ req'[r].pending = {}
           /\ \A q \in Requests \ {r} :
                Same(q) /\ (req[q].user = req[r].user => req'[q].raced)
           /\ \A t \in Tokens : t \in req[r].pending => token'[t].blacklisted
<1>0. TypeOK /\ Holding(r)  BY DEF BaseInv
<1>1. /\ UNCHANGED <<user, known, passwords, link, mailed, served, crashes, changes,
                     opened, confirmed, restored>>
      /\ req[r].pc = "blacklist" /\ unswept' = unswept \ {req[r].user}
      /\ req' = [Overlapped(req[r].user, r) EXCEPT ![r] = Idle]
      /\ token' = Blacklist(req[r].pending)
  BY DEF ResetBlacklist, At, accounts, bounds
<1>2. PICK u \in Users : u = req[r].user  BY <1>0, <1>1 DEF Holding, TypeOK
<1>3. req' = [Overlapped(u, r) EXCEPT ![r] = Idle]  BY <1>1, <1>2
<1>4. ASSUME NEW t \in Tokens, t \in req[r].pending PROVE token'[t].blacklisted
  <2>1. token[t] \in Token  BY <1>0, <1>4 DEF Holding, TypeOK
  <2>2. token'[t] = [token[t] EXCEPT !.blacklisted = TRUE]  BY <1>1, <1>4 DEF Blacklist
  <2> QED  BY <2>1, <2>2 DEF Token
<1>5. /\ req' \in [Requests -> Request]
      /\ req'[r].pc = "idle" /\ req'[r].pending = {}
      /\ \A q \in Requests \ {r} : Same(q) /\ (req[q].user = u => req'[q].raced)
  BY <1>0, <1>3, SweptShape
<1> QED  BY <1>1, <1>2, <1>4, <1>5

LEMMA DeleteShape ==
    ASSUME BaseInv, NEW r \in Requests, DeleteUserAccount(r)
    PROVE  /\ UNCHANGED <<known, passwords, mailed, served, crashes, changes, opened,
                          confirmed, unswept, restored>>
           /\ req[r].pc = "erase" /\ req[r].user \in Users /\ ~RowLocked(req[r].user)
           /\ user' = [user EXCEPT ![req[r].user] = None]
           /\ Answer(r)
           /\ link' \in [Links -> Link \cup {None}]
           /\ \A l \in Links : link'[l] # None =>
                link'[l] = link[l] /\ link[l].user # req[r].user
<1>0. TypeOK /\ Holding(r)  BY DEF BaseInv
<1>1. /\ UNCHANGED <<known, passwords, mailed, served, crashes, changes, opened,
                     confirmed, unswept, restored>>
      /\ req[r].pc = "erase" /\ ~RowLocked(req[r].user)
      /\ user' = [user EXCEPT ![req[r].user] = None] /\ Answer(r)
      /\ link' = [l \in Links |-> IF link[l] # None /\ link[l].user = req[r].user
                                  THEN None ELSE link[l]]
  BY DEF DeleteUserAccount, At, bounds, ghosts
<1>2. req[r].user \in Users  BY <1>0, <1>1 DEF Holding, TypeOK
<1>3. link' \in [Links -> Link \cup {None}]  BY <1>0, <1>1 DEF TypeOK
<1> QED  BY <1>1, <1>2, <1>3

LEMMA CrashShape ==
    ASSUME BaseInv, NEW r \in Requests, Crash(r)
    PROVE  /\ UNCHANGED <<user, known, passwords, token, link, mailed, served, changes,
                          opened, confirmed, restored>>
           /\ Answer(r) /\ crashes' \in 0 .. MaxCrashes
           /\ unswept' \in SUBSET Users
           /\ unswept \subseteq unswept'
           /\ req[r].pc \in {"sweep", "blacklist"} => req[r].user \in unswept'
<1>0. TypeOK /\ Holding(r)  BY DEF BaseInv
<1>1. /\ UNCHANGED <<user, known, passwords, token, link, mailed, served, changes, opened,
                     confirmed, restored>>
      /\ Answer(r) /\ crashes < MaxCrashes /\ crashes' = crashes + 1
      /\ unswept' = IF req[r].pc \in {"sweep", "blacklist"}
                    THEN unswept \cup {req[r].user} ELSE unswept
  BY DEF Crash, accounts
<1>2. crashes' \in 0 .. MaxCrashes  BY <1>0, <1>1, BoundsAssumption DEF TypeOK
<1>3. req[r].pc \in {"sweep", "blacklist"} => req[r].user \in Users
  BY <1>0 DEF Holding, TypeOK
<1> QED  BY <1>0, <1>1, <1>2, <1>3 DEF TypeOK

\* What happens to a link other than its use: it is made, expires or goes.
LEMMA RequestLinkShape ==
    ASSUME TypeOK, NEW u \in Users, RequestLink(u)
    PROVE  /\ UNCHANGED <<user, known, passwords, token, mailed, req, served, crashes,
                          changes, opened, confirmed, unswept, restored>>
           /\ user[u] # None /\ user[u].confirmed
           /\ link' \in [Links -> Link \cup {None}]
           /\ \E l \in Links :
                /\ link[l] = None /\ opened[l] = 0
                /\ link'[l] # None /\ link'[l].user = u
                /\ \A k \in Links \ {l} : link'[k] = link[k]
<1> DEFINE free == {k \in Links : link[k] = None /\ opened[k] = 0}
           l == Min(free)
           new == [user |-> u, used |-> FALSE, expired |-> FALSE]
<1>1. /\ UNCHANGED <<user, known, passwords, token, mailed, req, served, crashes,
                     changes, opened, confirmed, unswept, restored>>
      /\ user[u] # None /\ user[u].confirmed
      /\ free # {} /\ link' = [link EXCEPT ![l] = new]
  BY DEF RequestLink, CanAuthenticate, accounts, bounds, ghosts
<1>2. l \in Links /\ link[l] = None /\ opened[l] = 0
  <2>1. free \in SUBSET Nat  BY IdsAssumption
  <2>2. l \in free  BY <1>1, <2>1, MinIsIn
  <2> QED  BY <2>2
<1>3. new \in Link /\ new.user = u  BY DEF Link
<1> HIDE DEF free, l, new
<1>4. /\ link' \in [Links -> Link \cup {None}] /\ link'[l] = new
      /\ \A k \in Links \ {l} : link'[k] = link[k]
  BY <1>1, <1>2, <1>3 DEF TypeOK
<1>5. new # None  BY <1>3, NoneAssumption
<1> QED  BY <1>1, <1>2, <1>3, <1>4, <1>5

LEMMA LinkGoesShape ==
    ASSUME TypeOK, Flush \/ \E l \in Links : LinkExpires(l)
    PROVE  /\ UNCHANGED <<user, known, passwords, mailed, req, served, crashes, opened,
                          confirmed, unswept, restored>>
           /\ changes' \in 0 .. MaxChanges
           /\ link' \in [Links -> Link \cup {None}]
           /\ \A l \in Links : link'[l] # None =>
                /\ link[l] # None /\ link'[l].user = link[l].user
                /\ link[l].used => link'[l].used
<1>1. CASE Flush
  <2>1. /\ UNCHANGED <<user, known, passwords, mailed, req, served, crashes, changes,
                       opened, confirmed, unswept, restored>>
        /\ link' = [l \in Links |-> IF link[l] # None /\ ~IsValid(l) THEN None
                                    ELSE link[l]]
    BY <1>1 DEF Flush, accounts, bounds, ghosts
  <2> QED  BY <2>1 DEF TypeOK
<1>2. ASSUME NEW l \in Links, LinkExpires(l)
      PROVE  /\ UNCHANGED <<user, known, passwords, mailed, req, served, crashes, opened,
                            confirmed, unswept, restored>>
             /\ changes' \in 0 .. MaxChanges
             /\ link' \in [Links -> Link \cup {None}]
             /\ \A k \in Links : link'[k] # None =>
                  /\ link[k] # None /\ link'[k].user = link[k].user
                  /\ link[k].used => link'[k].used
  <2>1. /\ UNCHANGED <<user, known, passwords, mailed, req, served, crashes, opened,
                       confirmed, unswept, restored>>
        /\ changes < MaxChanges /\ changes' = changes + 1 /\ link[l] # None
        /\ link' = [link EXCEPT ![l] = [link[l] EXCEPT !.expired = TRUE]]
    BY <1>2 DEF LinkExpires, accounts, ghosts
  <2>2. link[l] \in Link  BY <2>1 DEF TypeOK
  <2>3. /\ [link[l] EXCEPT !.expired = TRUE] \in Link
        /\ [link[l] EXCEPT !.expired = TRUE].user = link[l].user
        /\ link[l].used => [link[l] EXCEPT !.expired = TRUE].used
    BY <2>2 DEF Link
  <2>4. changes' \in 0 .. MaxChanges  BY <2>1, BoundsAssumption DEF TypeOK
  <2>5. link' \in [Links -> Link \cup {None}]  BY <2>1, <2>3 DEF TypeOK
  <2>6. ASSUME NEW k \in Links, link'[k] # None
        PROVE  /\ link[k] # None /\ link'[k].user = link[k].user
               /\ link[k].used => link'[k].used
    <3>1. CASE k = l
      <4>1. link'[l] = [link[l] EXCEPT !.expired = TRUE]  BY <2>1 DEF TypeOK
      <4> QED  BY <2>1, <2>3, <3>1, <4>1
    <3>2. CASE k # l
      <4>1. link'[k] = link[k]  BY <2>1, <3>2 DEF TypeOK
      <4> QED  BY <2>6, <4>1
    <3> QED  BY <3>1, <3>2
  <2> QED  BY <2>1, <2>4, <2>5, <2>6
<1> QED  BY <1>1, <1>2

LEMMA AdminDeleteShape ==
    ASSUME TypeOK, NEW u \in Users, AdminDelete(u)
    PROVE  /\ UNCHANGED <<known, passwords, mailed, req, served, crashes, opened,
                          confirmed, unswept, restored>>
           /\ user[u] # None /\ ~RowLocked(u)
           /\ user' = [user EXCEPT ![u] = None]
           /\ changes' \in 0 .. MaxChanges
           /\ link' \in [Links -> Link \cup {None}]
           /\ \A l \in Links : link'[l] # None =>
                link'[l] = link[l] /\ link[l].user # u
           /\ \A t \in Tokens : token[t] = None => token'[t] = None
<1>1. /\ UNCHANGED <<known, passwords, mailed, req, served, crashes, opened, confirmed,
                     unswept, restored>>
      /\ user[u] # None /\ ~RowLocked(u) /\ changes < MaxChanges /\ changes' = changes + 1
      /\ user' = [user EXCEPT ![u] = None]
      /\ link' = [l \in Links |-> IF link[l] # None /\ link[l].user = u THEN None
                                  ELSE link[l]]
      /\ \A t \in Tokens : token[t] = None => token'[t] = None
  BY DEF AdminDelete, ghosts
<1>2. changes' \in 0 .. MaxChanges  BY <1>1, BoundsAssumption DEF TypeOK
<1>3. link' \in [Links -> Link \cup {None}]  BY <1>1 DEF TypeOK
<1> QED  BY <1>1, <1>2, <1>3

\* The mails, and the tokens outside requests.
LEMMA MailShape ==
    ASSUME TypeOK,
           \/ \E u \in Users : Resend(u) \/ RequestReset(u)
           \/ \E m \in mailed : MailExpires(m)
           \/ \E t \in Tokens : Logout(t) \/ TokenExpires(t)
    PROVE  /\ UNCHANGED <<user, known, passwords, link, req, served, crashes, opened,
                          confirmed, unswept, restored>>
           /\ mailed' \in SUBSET Mailed
           /\ changes' \in 0 .. MaxChanges
<1> USE DEF accounts, bounds, ghosts
<1>1. ASSUME NEW u \in Users, Resend(u) \/ RequestReset(u)
      PROVE  mailed' \in SUBSET Mailed
  <2>1. user[u] # None  BY <1>1 DEF Resend, RequestReset, CanAuthenticate
  <2>2. user[u].password \in Password  BY <2>1 DEF TypeOK, Row
  <2>3. \A for \in {"confirm", "reset"} : Proof(for, u) \in Mailed
    BY <2>2 DEF Proof, Mailed
  <2> QED  BY <1>1, <2>3 DEF Resend, RequestReset, TypeOK
<1>2. CASE \E u \in Users : Resend(u) \/ RequestReset(u)
  BY <1>1, <1>2 DEF Resend, RequestReset, TypeOK
<1>3. CASE \E m \in mailed : MailExpires(m)
  <2>1. /\ changes < MaxChanges /\ changes' = changes + 1 /\ mailed' \subseteq mailed
        /\ UNCHANGED <<user, known, passwords, link, req, served, crashes, opened,
                       confirmed, unswept, restored>>
    BY <1>3 DEF MailExpires
  <2>2. changes' \in 0 .. MaxChanges  BY <2>1, BoundsAssumption DEF TypeOK
  <2> QED  BY <2>1, <2>2 DEF TypeOK
<1>4. CASE \E t \in Tokens : Logout(t)  BY <1>4 DEF Logout, TypeOK
<1>5. CASE \E t \in Tokens : TokenExpires(t)
  <2>1. /\ changes < MaxChanges /\ changes' = changes + 1 /\ mailed' = mailed
        /\ UNCHANGED <<user, known, passwords, link, req, served, crashes, opened,
                       confirmed, unswept, restored>>
    BY <1>5 DEF TokenExpires
  <2>2. changes' \in 0 .. MaxChanges  BY <2>1, BoundsAssumption DEF TypeOK
  <2> QED  BY <2>1, <2>2 DEF TypeOK
<1> QED  BY <1>2, <1>3, <1>4, <1>5

LEMMA RotateShape ==
    ASSUME BaseInv, NEW r \in Requests, Rotate(r)
    PROVE  /\ UNCHANGED <<user, known, passwords, link, mailed, served, crashes, changes,
                          opened, confirmed, unswept, restored>>
           /\ req[r].pc = "rotate" /\ Continue(r, "mint")
BY DEF Rotate, At, accounts, bounds, ghosts

LEMMA TypeProceed ==
    ASSUME BaseInv, [Next]_vars, NEW r \in Requests, Proceed(r)
    PROVE  TypeOK'
<1>0. TypeOK  BY DEF BaseInv
<1>1. token' \in [Tokens -> Token \cup {None}]  BY MarkedOrMade
<1>2. Answer(r) => req' \in [Requests -> Request]  BY <1>0, AnswerShape
<1>3. {"mint", "sweep"} \subseteq PC  BY DEF PC
<1>4. CASE RegisterInsert(r)
  <2>1. user' \in [Users -> Row \cup {None}]
    BY <1>0, <1>4, RegisterInsertShape DEF TypeOK
  <2>2. passwords' \in 0 .. MaxPasswords /\ mailed' \in SUBSET Mailed
        /\ known' \in SUBSET Users
    BY <1>0, <1>4, RegisterInsertShape DEF TypeOK
  <2> QED  BY <1>0, <1>1, <1>2, <1>4, <2>1, <2>2, RegisterInsertShape DEF TypeOK
<1>5. CASE ConfirmUpdate(r)
  <2>0. user \in [Users -> Row \cup {None}] /\ confirmed \in [Users -> Nat]
    BY <1>0 DEF TypeOK
  <2>1. user' \in [Users -> Row \cup {None}] /\ confirmed' \in [Users -> Nat]
    <3>1. user' \in [Users -> Row \cup {None}]  BY <1>5, <2>0, ConfirmUpdateShape
    <3>2. /\ req[r].user \in Users
          /\ \/ confirmed' = confirmed
             \/ confirmed' = [confirmed EXCEPT ![req[r].user] = @ + 1]
      BY <1>5, ConfirmUpdateShape
    <3>3. confirmed' \in [Users -> Nat]  BY <2>0, <3>2
    <3> QED  BY <3>1, <3>3
  <2>2. req' \in [Requests -> Request]
    BY <1>0, <1>2, <1>3, <1>5, ConfirmUpdateShape, ContinueShape
  <2> QED  BY <1>0, <1>1, <1>5, <2>1, <2>2, ConfirmUpdateShape DEF TypeOK
<1>6. CASE VerifyUpdate(r)
  <2>1. CASE UNCHANGED <<link, opened>> /\ Answer(r)
    BY <1>0, <1>1, <1>2, <1>6, <2>1, VerifyUpdateShape DEF TypeOK
  <2>2. CASE /\ link[req[r].of] \in Link
             /\ link' = [link EXCEPT ![req[r].of] = [link[req[r].of] EXCEPT !.used = TRUE]]
             /\ opened' = [opened EXCEPT ![req[r].of] = @ + 1]
             /\ req' \in [Requests -> Request]
    <3>1. [link[req[r].of] EXCEPT !.used = TRUE] \in Link  BY <2>2 DEF Link
    <3>2. req[r].of \in Links  BY <1>6, VerifyUpdateShape
    <3>3. link' \in [Links -> Link \cup {None}]  BY <1>0, <2>2, <3>1 DEF TypeOK
    <3>4. opened' \in [Links -> Nat]  BY <1>0, <2>2, <3>2 DEF TypeOK
    <3> QED  BY <1>0, <1>1, <1>6, <2>2, <3>3, <3>4, VerifyUpdateShape DEF TypeOK
  <2> QED  BY <1>6, <2>1, <2>2, VerifyUpdateShape
<1>7. CASE Rotate(r)
  <2>1. req' \in [Requests -> Request]  BY <1>0, <1>3, <1>7, RotateShape, ContinueShape
  <2> QED  BY <1>0, <1>1, <1>7, <2>1, RotateShape DEF TypeOK
<1>8. CASE Mint(r)  BY <1>0, <1>1, <1>2, <1>8, MintShape DEF TypeOK
<1>9. CASE ResetSave(r)
  <2>1. user' \in [Users -> Row \cup {None}] /\ passwords' \in 0 .. MaxPasswords
    BY <1>0, <1>9, ResetSaveShape DEF TypeOK
  <2>2. req' \in [Requests -> Request]
    BY <1>0, <1>2, <1>3, <1>9, ResetSaveShape, ContinueShape
  <2> QED  BY <1>0, <1>1, <1>9, <2>1, <2>2, ResetSaveShape DEF TypeOK
<1>10. CASE ResetSelect(r) \/ ChangeSelect(r)
  BY <1>0, <1>1, <1>2, <1>10, SelectStepsShape DEF TypeOK
<1>11. CASE ResetBlacklist(r)
  BY <1>0, <1>1, <1>11, ResetBlacklistShape DEF TypeOK
<1>12. CASE ChangeCommit(r)
  <2> DEFINE u == req[r].user
  <2>1. /\ u \in Users /\ user[u] \in Row /\ passwords + 1 \in Password
        /\ user' = [user EXCEPT ![u] = [user[u] EXCEPT !.password = passwords + 1]]
        /\ req' = [Overlapped(u, r) EXCEPT ![r] = Idle]
    BY <1>12, ChangeCommitShape
  <2>2. [user[u] EXCEPT !.password = passwords + 1] \in Row  BY <2>1 DEF Row
  <2>3. user' \in [Users -> Row \cup {None}]  BY <1>0, <2>1, <2>2, RowReplaced
  <2>4. req' \in [Requests -> Request]  BY <1>0, <2>1, SweptShape
  <2>5. passwords' \in 0 .. MaxPasswords
    <3>1. passwords' \in Password  BY <1>12, ChangeCommitShape
    <3> QED  BY <3>1, BoundsAssumption DEF Password
  <2>6. unswept' \in SUBSET Users  BY <1>0, <1>12, ChangeCommitShape DEF TypeOK
  <2> QED  BY <1>0, <1>1, <1>12, <2>3, <2>4, <2>5, <2>6, ChangeCommitShape DEF TypeOK
<1>13. CASE SavesRow(r)
  <2>1. user' \in [Users -> Row \cup {None}]
    BY <1>0, <1>13, SavesRowShape DEF TypeOK
  <2>2. restored' \in SUBSET Users /\ unswept' \in SUBSET Users
    BY <1>0, <1>13, SavesRowShape DEF TypeOK
  <2> QED  BY <1>0, <1>1, <1>2, <1>13, <2>1, <2>2, SavesRowShape DEF TypeOK
<1>14. CASE DeleteUserAccount(r)
  <2>1. user' \in [Users -> Row \cup {None}]  BY <1>0, <1>14, DeleteShape DEF TypeOK
  <2> QED  BY <1>0, <1>1, <1>2, <1>14, <2>1, DeleteShape DEF TypeOK
<1> QED  BY <1>4, <1>5, <1>6, <1>7, <1>8, <1>9, <1>10, <1>11, <1>12, <1>13, <1>14
            DEF Proceed, SavesRow

LEMMA TypeStep ==
    ASSUME BaseInv, [Next]_vars
    PROVE  TypeOK'
<1>0. TypeOK  BY DEF BaseInv
<1>1. token' \in [Tokens -> Token \cup {None}]  BY MarkedOrMade
<1>2. CASE UNCHANGED vars  BY <1>0, <1>2 DEF vars, accounts, bounds, ghosts, TypeOK
<1>3. ASSUME NEW r \in Requests, Begin(r) PROVE TypeOK'
  BY <1>0, <1>1, <1>3, BeginShape DEF TypeOK
<1>4. ASSUME NEW r \in Requests, Crash(r) PROVE TypeOK'
  <2>1. req' \in [Requests -> Request]  BY <1>0, <1>4, CrashShape, AnswerShape
  <2> QED  BY <1>0, <1>1, <1>4, <2>1, CrashShape DEF TypeOK
<1>5. CASE \/ \E u \in Users : Resend(u) \/ RequestReset(u)
           \/ \E m \in mailed : MailExpires(m)
           \/ \E t \in Tokens : Logout(t) \/ TokenExpires(t)
  BY <1>0, <1>1, <1>5, MailShape DEF TypeOK
<1>6. ASSUME NEW u \in Users, RequestLink(u) PROVE TypeOK'
  BY <1>0, <1>1, <1>6, RequestLinkShape DEF TypeOK
<1>7. ASSUME NEW u \in Users, AdminDelete(u) PROVE TypeOK'
  <2>1. user' \in [Users -> Row \cup {None}]  BY <1>0, <1>7, AdminDeleteShape DEF TypeOK
  <2> QED  BY <1>0, <1>1, <1>7, <2>1, AdminDeleteShape DEF TypeOK
<1>8. CASE Flush \/ \E l \in Links : LinkExpires(l)
  BY <1>0, <1>1, <1>8, LinkGoesShape DEF TypeOK
<1> QED  BY <1>2, <1>3, <1>4, <1>5, <1>6, <1>7, <1>8, TypeProceed DEF Next

\* What a request holds stays as long as it does not move.
LEMMA HoldingKept ==
    ASSUME BaseInv, [Next]_vars, NEW q \in Requests, Same(q), known \subseteq known',
           req[q].pc = "commit" => user'[req[q].user] # None
    PROVE  Holding(q)'
<1>1. Holding(q) /\ req[q] \in Request  BY DEF BaseInv, TypeOK
<1>2. \A t \in Tokens : token[t] # None =>
        token'[t] # None /\ token'[t].user = token[t].user
  BY MarkedOrMade DEF Keeps
<1>3. req[q].pending \subseteq Tokens  BY <1>1 DEF Request
<1>4. req[q].pc \in {"rotate", "mint"} /\ req[q].of # None =>
        req[q].of \in Tokens /\ token[req[q].of] # None
  BY <1>1, NoneAssumption DEF Holding
<1> QED  BY <1>1, <1>2, <1>3, <1>4 DEF Same, Holding

LEMMA HoldsNothing ==
    ASSUME NEW r \in Requests, req'[r].pc \in {"idle", "register"}, req'[r].pending = {}
    PROVE  Holding(r)'
BY DEF Holding

LEMMA BaseAssembled ==
    ASSUME BaseInv, [Next]_vars,
           known \subseteq known',
           \A u \in Users : user'[u] # None => u \in known',
           \A u \in Users : RowLocked(u) /\ user[u] # None => user'[u] # None,
           \A t \in Tokens : token[t] = None /\ token'[t] # None
                                 => token'[t].user \in known',
           \A l \in Links : link'[l] # None =>
                link'[l].user \in known' /\ user'[link'[l].user] # None,
           \A q \in Requests :
                \/ Same(q)
                \/ Holding(q)' /\ (req'[q].pc = "commit" => ~RowLocked(req'[q].user)),
           \A a, b \in Requests : a = b \/ Same(a) \/ Same(b)
    PROVE  BaseInv'
<1>1. TypeOK'  BY TypeStep
<1>2. \A t \in Tokens : token'[t] # None => token'[t].user \in known'
  <2> SUFFICES ASSUME NEW t \in Tokens, token'[t] # None
               PROVE  token'[t].user \in known'
    OBVIOUS
  <2>1. CASE token[t] = None  BY <2>1
  <2>2. CASE token[t] # None  BY <2>2, MarkedOrMade DEF Keeps, BaseInv
  <2> QED  BY <2>1, <2>2
<1>3. ASSUME NEW q \in Requests PROVE Holding(q)'
  <2>1. CASE Same(q)
    <3>1. req[q].pc = "commit" => user'[req[q].user] # None
      <4> SUFFICES ASSUME req[q].pc = "commit" PROVE user'[req[q].user] # None
        OBVIOUS
      <4>1. req[q].user \in Users /\ user[req[q].user] # None
        BY DEF BaseInv, Holding, TypeOK
      <4>2. RowLocked(req[q].user)  BY DEF RowLocked, At
      <4> QED  BY <4>1, <4>2
    <3> QED  BY <2>1, <3>1, HoldingKept
  <2>2. CASE ~Same(q)  BY <2>2
  <2> QED  BY <2>1, <2>2
<1>4. OneCommit'
  <2> SUFFICES ASSUME NEW a \in Requests, NEW b \in Requests,
                      req'[a].pc = "commit", req'[b].pc = "commit",
                      req'[a].user = req'[b].user
               PROVE  a = b
    BY DEF OneCommit, At
  <2>1. CASE Same(a) /\ Same(b)  BY <2>1 DEF Same, BaseInv, OneCommit, At
  <2>2. CASE Same(a) /\ ~Same(b)
    <3>1. ~RowLocked(req'[b].user)  BY <2>2
    <3>2. req[a].pc = "commit" /\ req[a].user = req'[b].user  BY <2>2 DEF Same
    <3> QED  BY <3>1, <3>2 DEF RowLocked, At
  <2>3. CASE ~Same(a) /\ Same(b)
    BY <2>3 DEF Same, RowLocked, At
  <2>4. CASE ~Same(a) /\ ~Same(b)  BY <2>4
  <2> QED  BY <2>1, <2>2, <2>3, <2>4
<1> QED  BY <1>1, <1>2, <1>3, <1>4 DEF BaseInv

\* The same, for the step of one request that makes no token and lets the links
\* alone.
LEMMA BaseMoved ==
    ASSUME BaseInv, [Next]_vars, NEW r \in Requests,
           \A q \in Requests \ {r} : Same(q),
           known \subseteq known', UNCHANGED link,
           \A u \in Users : user[u] # None => user'[u] # None,
           \A u \in Users : user'[u] # None => u \in known',
           \A t \in Tokens : token[t] = None /\ token'[t] # None
                                 => token'[t].user \in known',
           Holding(r)', req'[r].pc = "commit" => ~RowLocked(req'[r].user)
    PROVE  BaseInv'
<1>1. \A l \in Links : link'[l] # None =>
        link'[l].user \in known' /\ user'[link'[l].user] # None
  <2> SUFFICES ASSUME NEW l \in Links, link[l] # None
               PROVE  link[l].user \in known' /\ user'[link[l].user] # None
    OBVIOUS
  <2>1. link[l].user \in known /\ user[link[l].user] # None /\ link[l].user \in Users
    BY DEF BaseInv, TypeOK
  <2> QED  BY <2>1
<1>2. \A q \in Requests :
        \/ Same(q)
        \/ Holding(q)' /\ (req'[q].pc = "commit" => ~RowLocked(req'[q].user))
  OBVIOUS
<1>3. \A a, b \in Requests : a = b \/ Same(a) \/ Same(b)  OBVIOUS
<1> QED  BY <1>1, <1>2, <1>3, BaseAssembled

LEMMA BaseBegin ==
    ASSUME BaseInv, [Next]_vars, NEW r \in Requests, Begin(r)
    PROVE  BaseInv'
<1>1. /\ UNCHANGED <<user, known, token, link>>
      /\ \A q \in Requests \ {r} : Same(q)
      /\ req'[r].pending = {} /\ req'[r].pc # "commit"
  BY BeginShape DEF Same, Begun
<1>2. Holding(r)'
  <2>1. CASE req'[r].pc = "register"  BY <1>1, <2>1, HoldsNothing
  <2>2. ASSUME NEW u \in Users, Begun(r, u) PROVE Holding(r)'
    <3>1. u \in known /\ user[u] \in Row  BY <2>2 DEF Begun, BaseInv, TypeOK
    <3> QED  BY <1>1, <2>2, <3>1, NoneAssumption DEF Begun, Holding, Usable
  <2> QED  BY <2>1, <2>2, BeginShape
<1>3. \A u \in Users : user'[u] # None => u \in known'  BY <1>1 DEF BaseInv
<1> QED  BY <1>1, <1>2, <1>3, BaseMoved

LEMMA BaseProceed ==
    ASSUME BaseInv, [Next]_vars, NEW r \in Requests, Proceed(r)
    PROVE  BaseInv'
<1>0. TypeOK /\ Holding(r) /\ \A u \in Users : user[u] # None => u \in known
  BY DEF BaseInv
<1>1. Answer(r) => /\ Holding(r)' /\ req'[r].pc # "commit"
                   /\ \A q \in Requests \ {r} : Same(q)
  BY <1>0, AnswerShape, HoldsNothing
<1>2. ASSUME UNCHANGED token
      PROVE  \A t \in Tokens : token[t] = None /\ token'[t] # None
                                   => token'[t].user \in known'
  BY <1>2
<1>3. "mint" \in PC /\ "sweep" \in PC  BY DEF PC
<1>4. CASE RegisterInsert(r)
  <2>1. PICK u \in Users \ known :
          /\ known' = known \cup {u}
          /\ \/ UNCHANGED user
             \/ \E new \in Row : user' = [user EXCEPT ![u] = new]
    BY <1>0, <1>4, RegisterInsertShape
  <2>2. /\ \A v \in Users : user[v] # None => user'[v] # None
        /\ \A v \in Users : user'[v] # None => v \in known'
    BY <1>0, <2>1, NoneAssumption DEF TypeOK
  <2> QED  BY <1>0, <1>1, <1>2, <1>4, <2>1, <2>2, RegisterInsertShape, BaseMoved
<1>5. CASE ConfirmUpdate(r)
  <2>1. /\ \A v \in Users : user[v] # None => user'[v] # None
        /\ \A v \in Users : user'[v] # None => v \in known'
    <3>1. \/ UNCHANGED user
          \/ \E new \in Row : /\ user' = [user EXCEPT ![req[r].user] = new]
                              /\ user[req[r].user] \in Row
      BY <1>5, ConfirmUpdateShape
    <3>2. known' = known  BY <1>5, ConfirmUpdateShape
    <3> QED  BY <1>0, <3>1, <3>2, NoneAssumption DEF TypeOK
  <2>2. CASE Answer(r)  BY <1>1, <1>2, <1>5, <2>1, <2>2, ConfirmUpdateShape, BaseMoved
  <2>3. CASE Continue(r, "mint")
    <3>1. req[r].pc = "confirm" /\ UNCHANGED <<known, token, link>>
      BY <1>5, ConfirmUpdateShape
    <3>2. /\ req'[r].pc = "mint" /\ req'[r].user = req[r].user
          /\ req'[r].row = req[r].row /\ req'[r].of = req[r].of
          /\ req'[r].pending = req[r].pending
          /\ \A q \in Requests \ {r} : Same(q)
      BY <1>0, <1>3, <2>3, ContinueShape
    <3>3. Holding(r)'  BY <1>0, <3>1, <3>2 DEF Holding
    <3> QED  BY <1>2, <2>1, <3>1, <3>2, <3>3, BaseMoved
  <2> QED  BY <1>5, <2>2, <2>3, ConfirmUpdateShape
<1>6. CASE VerifyUpdate(r)
  <2>0. UNCHANGED <<user, known, token>> /\ req[r].pc = "verify" /\ req[r].of \in Links
    BY <1>6, VerifyUpdateShape
  <2>1. CASE UNCHANGED <<link, opened>> /\ Answer(r)
    BY <1>0, <1>1, <1>2, <2>0, <2>1, BaseMoved
  <2>2. CASE ~(UNCHANGED <<link, opened>> /\ Answer(r))
    <3>1. /\ link[req[r].of] \in Link
          /\ link' = [link EXCEPT ![req[r].of] = [link[req[r].of] EXCEPT !.used = TRUE]]
          /\ req'[r].pc = "mint" /\ req'[r].user = req[r].user
          /\ req'[r].row = req[r].row /\ req'[r].of = None
          /\ req'[r].pending = req[r].pending
          /\ \A q \in Requests \ {r} : Same(q)
      BY <1>6, <2>2, VerifyUpdateShape
    <3>2. Holding(r)'  BY <1>0, <2>0, <3>1 DEF Holding
    <3>3. [link[req[r].of] EXCEPT !.used = TRUE].user = link[req[r].of].user
      BY <3>1 DEF Link
    <3>4. ASSUME NEW l \in Links, link'[l] # None
          PROVE  link[l] # None /\ link'[l].user = link[l].user
      <4>1. CASE l = req[r].of
        <5>1. link'[l] = [link[l] EXCEPT !.used = TRUE]  BY <1>0, <3>1, <4>1 DEF TypeOK
        <5> QED  BY <3>1, <3>3, <4>1, <5>1, NoneAssumption
      <4>2. CASE l # req[r].of
        <5>1. link'[l] = link[l]  BY <1>0, <3>1, <4>2 DEF TypeOK
        <5> QED  BY <3>4, <5>1
      <4> QED  BY <4>1, <4>2
    <3>5. \A l \in Links : link'[l] # None =>
            link'[l].user \in known' /\ user'[link'[l].user] # None
      BY <2>0, <3>4 DEF BaseInv
    <3> QED  BY <1>0, <1>2, <2>0, <3>1, <3>2, <3>5, BaseAssembled
  <2> QED  BY <2>1, <2>2
<1>7. CASE Rotate(r)
  <2>1. UNCHANGED <<user, known, link>> /\ req[r].pc = "rotate" /\ Continue(r, "mint")
    BY <1>7, RotateShape
  <2>2. /\ req'[r].pc = "mint" /\ req'[r].user = req[r].user
        /\ req'[r].row = req[r].row /\ req'[r].of = req[r].of
        /\ req'[r].pending = req[r].pending
        /\ \A q \in Requests \ {r} : Same(q)
    BY <1>0, <1>3, <2>1, ContinueShape
  <2>3. \A t \in Tokens : token[t] # None =>
          token'[t] # None /\ token'[t].user = token[t].user
    BY MarkedOrMade DEF Keeps
  <2>4. Holding(r)'
    <3>1. req[r].pending \subseteq Tokens  BY <1>0 DEF TypeOK, Request
    <3> QED  BY <1>0, <2>1, <2>2, <2>3, <3>1 DEF Holding
  <2>5. \A t \in Tokens : token[t] = None => token'[t] = None
    <3>1. /\ req[r].of \in Tokens /\ token[req[r].of] # None
          /\ token' = [token EXCEPT ![req[r].of].blacklisted = TRUE]
      BY <1>0, <1>7, NoneAssumption DEF Rotate, At, Holding
    <3> QED  BY <1>0, <3>1 DEF TypeOK
  <2> QED  BY <1>0, <2>1, <2>2, <2>4, <2>5, BaseMoved
<1>8. CASE Mint(r)
  <2>1. \A t \in Tokens : token[t] = None /\ token'[t] # None => token'[t].user \in known
    BY <1>0, <1>8, MintShape DEF Minted, Holding
  <2> QED  BY <1>0, <1>1, <1>8, <2>1, MintShape, BaseMoved
<1>9. CASE ResetSave(r)
  <2>1. /\ \A v \in Users : user[v] # None => user'[v] # None
        /\ \A v \in Users : user'[v] # None => v \in known'
    <3>1. \/ UNCHANGED user
          \/ \E new \in Row : /\ user' = [user EXCEPT ![req[r].user] = new]
                              /\ user[req[r].user] \in Row
      BY <1>9, ResetSaveShape
    <3>2. known' = known  BY <1>9, ResetSaveShape
    <3> QED  BY <1>0, <3>1, <3>2, NoneAssumption DEF TypeOK
  <2>2. CASE Answer(r)  BY <1>1, <1>2, <1>9, <2>1, <2>2, ResetSaveShape, BaseMoved
  <2>3. CASE Continue(r, "sweep")
    <3>1. req[r].pc = "reset" /\ UNCHANGED <<known, token, link>>
      BY <1>9, ResetSaveShape
    <3>2. /\ req'[r].pc = "sweep" /\ req'[r].user = req[r].user
          /\ req'[r].pending = req[r].pending
          /\ \A q \in Requests \ {r} : Same(q)
      BY <1>0, <1>3, <2>3, ContinueShape
    <3>3. Holding(r)'  BY <1>0, <3>1, <3>2 DEF Holding
    <3> QED  BY <1>2, <2>1, <3>1, <3>2, <3>3, BaseMoved
  <2> QED  BY <1>9, <2>2, <2>3, ResetSaveShape
<1>10. CASE ResetSelect(r) \/ ChangeSelect(r)
  <2>1. UNCHANGED <<user, known, token, link>> /\ req[r].user \in known
    BY <1>10, SelectStepsShape
  <2>2. CASE Answer(r)  BY <1>0, <1>1, <1>2, <2>1, <2>2, BaseMoved
  <2>3. CASE ~Answer(r)
    <3>1. /\ \/ req'[r].pc = "blacklist"
             \/ /\ req'[r].pc = "commit"
                /\ user[req[r].user] # None /\ ~RowLocked(req[r].user)
          /\ req'[r].user = req[r].user
          /\ req'[r].pending = Pending(req[r].user)
          /\ \A q \in Requests \ {r} : Same(q)
      BY <1>10, <2>3, SelectStepsShape
    <3>2. Holding(r)'  BY <2>1, <3>1 DEF Holding, Pending
    <3> QED  BY <1>0, <1>2, <2>1, <3>1, <3>2, BaseMoved
  <2> QED  BY <2>2, <2>3
<1>11. CASE ResetBlacklist(r)
  <2>1. \A t \in Tokens : token[t] = None => token'[t] = None
    BY <1>0, <1>11 DEF ResetBlacklist, Blacklist, Holding
  <2>2. Holding(r)'  BY <1>11, ResetBlacklistShape, HoldsNothing
  <2> QED  BY <1>0, <1>11, <2>1, <2>2, ResetBlacklistShape, BaseMoved
<1>12. CASE ChangeCommit(r)
  <2> DEFINE u == req[r].user
  <2>1. /\ u \in Users /\ u \in known /\ UNCHANGED <<known, link>>
        /\ user[u] \in Row
        /\ user' = [user EXCEPT ![u] = [user[u] EXCEPT !.password = passwords + 1]]
        /\ req' = [Overlapped(u, r) EXCEPT ![r] = Idle]
        /\ passwords + 1 \in Password
        /\ \A t \in Tokens : token[t] = None /\ token'[t] # None => token'[t].user = u
    BY <1>0, <1>12, ChangeCommitShape DEF Holding
  <2>2. /\ req'[r].pc = "idle" /\ req'[r].pending = {}
        /\ \A q \in Requests \ {r} : Same(q)
    BY <1>0, <2>1, SweptShape
  <2>3. Holding(r)'  BY <2>2, HoldsNothing
  <2>4. [user[u] EXCEPT !.password = passwords + 1] \in Row  BY <2>1 DEF Row
  <2>5. /\ \A v \in Users : user[v] # None => user'[v] # None
        /\ \A v \in Users : user'[v] # None => v \in known'
    BY <1>0, <2>1, <2>4, RowReplaced, NoneAssumption
  <2> QED  BY <2>1, <2>2, <2>3, <2>5, BaseMoved
<1>13. CASE SavesRow(r)
  <2>1. /\ UNCHANGED <<known, token, link>> /\ Answer(r)
        /\ req[r].user \in Users /\ req[r].user \in known
        /\ UNCHANGED user \/ \E row \in Row : user' = [user EXCEPT ![req[r].user] = row]
    BY <1>13, SavesRowShape
  <2>2. /\ \A v \in Users : user[v] # None => user'[v] # None
        /\ \A v \in Users : user'[v] # None => v \in known'
    BY <1>0, <2>1, NoneAssumption DEF TypeOK
  <2> QED  BY <1>1, <1>2, <2>1, <2>2, BaseMoved
<1>14. CASE DeleteUserAccount(r)
  <2>1. /\ known' = known /\ Answer(r) /\ ~RowLocked(req[r].user)
        /\ user' = [user EXCEPT ![req[r].user] = None] /\ req[r].user \in Users
        /\ \A l \in Links : link'[l] # None =>
             link'[l] = link[l] /\ link[l].user # req[r].user
    BY <1>14, DeleteShape
  <2>2. /\ \A v \in Users : user'[v] # None => v \in known'
        /\ \A v \in Users : RowLocked(v) /\ user[v] # None => user'[v] # None
    BY <1>0, <2>1 DEF TypeOK
  <2>3. \A l \in Links : link'[l] # None =>
          link'[l].user \in known' /\ user'[link'[l].user] # None
    BY <1>0, <2>1 DEF BaseInv, TypeOK
  <2>4. \A t \in Tokens : token[t] = None => token'[t] = None
    BY <1>14 DEF DeleteUserAccount
  <2> QED  BY <1>1, <2>1, <2>2, <2>3, <2>4, BaseAssembled
<1> QED  BY <1>4, <1>5, <1>6, <1>7, <1>8, <1>9, <1>10, <1>11, <1>12, <1>13, <1>14
            DEF Proceed, SavesRow

LEMMA BaseOthers ==
    ASSUME BaseInv, [Next]_vars, UNCHANGED <<known, req>>,
           \A u \in Users : user[u] # None <=> user'[u] # None,
           \A t \in Tokens : token[t] = None => token'[t] = None,
           \A l \in Links : link'[l] # None =>
                link'[l].user \in known /\ user[link'[l].user] # None
    PROVE  BaseInv'
<1>1. \A q \in Requests : Same(q)  BY DEF Same
<1>2. \A u \in Users : user'[u] # None => u \in known'  BY DEF BaseInv
<1>3. \A l \in Links : link'[l] # None =>
        link'[l].user \in known' /\ user'[link'[l].user] # None
  BY DEF BaseInv, TypeOK
<1> QED  BY <1>1, <1>2, <1>3, BaseAssembled

LEMMA BaseStep == BaseInv /\ [Next]_vars => BaseInv'
<1> SUFFICES ASSUME BaseInv, [Next]_vars PROVE BaseInv'
  OBVIOUS
<1>0. TypeOK /\ \A u \in Users : user[u] # None => u \in known  BY DEF BaseInv
<1>1. \A l \in Links : link[l] # None => link[l].user \in known /\ user[link[l].user] # None
  BY DEF BaseInv
<1>2. CASE UNCHANGED vars
  BY <1>1, <1>2, BaseOthers DEF vars, accounts
<1>3. ASSUME NEW r \in Requests, Crash(r) PROVE BaseInv'
  <2>1. /\ UNCHANGED <<user, known, token, link>> /\ Answer(r)  BY <1>3, CrashShape
  <2>2. /\ req'[r].pc = "idle" /\ req'[r].pending = {}
        /\ \A q \in Requests \ {r} : Same(q)
    BY <1>0, <2>1, AnswerShape
  <2>3. Holding(r)'  BY <2>2, HoldsNothing
  <2>4. \A u \in Users : user'[u] # None => u \in known'  BY <1>0, <2>1
  <2> QED  BY <2>1, <2>2, <2>3, <2>4, BaseMoved
<1>4. CASE \/ \E u \in Users : Resend(u) \/ RequestReset(u)
           \/ \E m \in mailed : MailExpires(m)
           \/ \E t \in Tokens : Logout(t) \/ TokenExpires(t)
  <2>1. UNCHANGED <<user, known, link, req>>  BY <1>0, <1>4, MailShape
  <2>2. \A t \in Tokens : token[t] = None => token'[t] = None
    <3>1. CASE UNCHANGED token  BY <3>1
    <3>2. ASSUME NEW x \in Tokens, Logout(x) \/ TokenExpires(x)
          PROVE  \A t \in Tokens : token[t] = None => token'[t] = None
      <4>1. /\ token[x] # None
            /\ \/ token' = [token EXCEPT ![x].blacklisted = TRUE]
               \/ token' = [token EXCEPT ![x].expired = TRUE]
        BY <3>2 DEF Logout, TokenExpires, Usable
      <4> QED  BY <1>0, <4>1 DEF TypeOK
    <3> QED  BY <1>4, <3>1, <3>2 DEF Resend, RequestReset, MailExpires
  <2> QED  BY <1>1, <2>1, <2>2, BaseOthers
<1>5. ASSUME NEW u \in Users, RequestLink(u) PROVE BaseInv'
  <2>1. /\ UNCHANGED <<user, known, token, req>> /\ user[u] # None
        /\ \A l \in Links : link'[l] # None => link'[l] = link[l] \/ link'[l].user = u
    BY <1>0, <1>5, RequestLinkShape
  <2>2. \A l \in Links : link'[l] # None =>
          link'[l].user \in known /\ user[link'[l].user] # None
    BY <1>0, <1>1, <2>1
  <2> QED  BY <2>1, <2>2, BaseOthers
<1>6. ASSUME NEW u \in Users, AdminDelete(u) PROVE BaseInv'
  <2>1. /\ UNCHANGED <<known, req>> /\ user[u] # None /\ ~RowLocked(u)
        /\ user' = [user EXCEPT ![u] = None]
        /\ \A l \in Links : link'[l] # None => link'[l] = link[l] /\ link[l].user # u
        /\ \A t \in Tokens : token[t] = None => token'[t] = None
    BY <1>0, <1>6, AdminDeleteShape
  <2>2. /\ \A v \in Users : user'[v] # None => v \in known'
        /\ \A v \in Users : RowLocked(v) /\ user[v] # None => user'[v] # None
    BY <1>0, <2>1 DEF TypeOK
  <2>3. \A l \in Links : link'[l] # None =>
          link'[l].user \in known' /\ user'[link'[l].user] # None
    BY <1>0, <1>1, <2>1 DEF TypeOK
  <2>4. \A q \in Requests : Same(q)  BY <2>1 DEF Same
  <2> QED  BY <2>1, <2>2, <2>3, <2>4, BaseAssembled
<1>7. CASE Flush \/ \E l \in Links : LinkExpires(l)
  <2>1. /\ UNCHANGED <<user, known, req>>
        /\ \A l \in Links : link'[l] # None =>
             link[l] # None /\ link'[l].user = link[l].user
    BY <1>0, <1>7, LinkGoesShape
  <2>2. \A t \in Tokens : token[t] = None => token'[t] = None
    BY <1>7 DEF Flush, LinkExpires
  <2>3. \A l \in Links : link'[l] # None =>
          link'[l].user \in known /\ user[link'[l].user] # None
    BY <1>1, <2>1
  <2> QED  BY <2>1, <2>2, <2>3, BaseOthers
<1> QED  BY <1>2, <1>3, <1>4, <1>5, <1>6, <1>7, BaseBegin, BaseProceed DEF Next

LEMMA BaseInit == Init => BaseInv
<1> SUFFICES ASSUME Init PROVE BaseInv
  OBVIOUS
<1>1. Min(Users) \in Users  BY IdsAssumption, MinIsIn
<1>2. \A r \in Requests : req[r] = Idle  BY DEF Init
<1>3. req \in [Requests -> Request]  BY IdleType DEF Init
<1>4. 1 \in Password /\ 1 \in 0 .. MaxPasswords /\ 0 \in 0 .. MaxPasswords
      /\ 0 \in 0 .. MaxRequests /\ 0 \in 0 .. MaxCrashes /\ 0 \in 0 .. MaxChanges
  BY BoundsAssumption DEF Password
<1>5. [password |-> 1, confirmed |-> TRUE, active |-> TRUE] \in Row  BY <1>4 DEF Row
<1>6. /\ user \in [Users -> Row \cup {None}] /\ known \in SUBSET Users
      /\ passwords \in 0 .. MaxPasswords
      /\ \A u \in Users : user[u] # None => u \in known
  BY <1>1, <1>4, <1>5 DEF Init
<1>7. TypeOK  BY <1>3, <1>4, <1>6 DEF Init, TypeOK
<1>8. \A r \in Requests : Holding(r)  BY <1>2 DEF Holding, Idle
<1>9. OneCommit  BY <1>2 DEF OneCommit, At, Idle
<1> QED  BY <1>6, <1>7, <1>8, <1>9 DEF BaseInv, Init

\* The types; every session, sign-in link and request refers to an account that
\* was registered, a link goes with its account, and two password changes of one
\* account never hold its row together.
THEOREM BaseCorrect == Spec => []BaseInv
BY BaseInit, BaseStep, PTL DEF Spec

-----------------------------------------------------------------------------
(* Action properties *)

\* A refresh token that was rotated, logged out, swept or has expired never
\* works again: no handler gives back what the blacklist took, and the flush
\* forgets only tokens whose own lifetime has run out.
THEOREM DeadCorrect == Spec => DeadStaysDead
<1>1. BaseInv /\ [Next]_vars =>
        [\A t \in Tokens : token[t] # None /\ ~Usable(t) => ~Usable(t)']_vars
  <2> SUFFICES ASSUME BaseInv, [Next]_vars, NEW t \in Tokens, token[t] # None, ~Usable(t)
               PROVE  ~Usable(t)'
    OBVIOUS
  <2> QED  BY MarkedOrMade DEF Keeps
<1> QED  BY <1>1, BaseCorrect, PTL DEF Spec, DeadStaysDead

\* The row of u is written by a handler that has read it in its own statement.
Kept(u) ==
    /\ user[u] = None /\ u \in known => user'[u] = None
    /\ user[u] # None /\ user'[u] # None =>
           /\ user'[u].password \in {user[u].password, passwords'}
           /\ user[u].confirmed => user'[u].confirmed

LEMMA KeptByAll ==
    ASSUME BaseInv, [Next]_vars, NEW u \in Users,
           ~\E r \in Requests : SavesRow(r) /\ req[r].user = u
    PROVE  Kept(u)
<1>0. TypeOK  BY DEF BaseInv
<1>1. CASE user'[u] = user[u]  BY <1>1 DEF Kept
<1>2. ASSUME NEW v \in Users, user[v] \in Row, NEW new \in Row,
             user' = [user EXCEPT ![v] = new],
             new.password \in {user[v].password, passwords'},
             user[v].confirmed => new.confirmed
      PROVE  Kept(u)
  <2>1. CASE v = u
    <3>1. user'[u] = new /\ user[u] # None  BY <1>0, <1>2, <2>1, RowReplaced, NoneAssumption
    <3> QED  BY <1>2, <2>1, <3>1 DEF Kept
  <2>2. CASE v # u
    <3>1. user'[u] = user[u]  BY <1>0, <1>2, <2>2, RowReplaced
    <3> QED  BY <1>1, <3>1
  <2> QED  BY <2>1, <2>2
<1>3. ASSUME NEW r \in Requests, Proceed(r) PROVE Kept(u)
  <2>1. CASE RegisterInsert(r)
    <3>1. PICK v \in Users \ known :
            \/ UNCHANGED user
            \/ \E new \in Row : user' = [user EXCEPT ![v] = new]
      BY <1>0, <2>1, RegisterInsertShape
    <3>2. user[v] = None  BY <3>1 DEF BaseInv
    <3>3. u # v => user'[u] = user[u]  BY <1>0, <3>1 DEF TypeOK
    <3> QED  BY <1>1, <3>1, <3>2, <3>3 DEF Kept
  <2>2. CASE ConfirmUpdate(r)
    <3>1. CASE UNCHANGED user  BY <1>1, <3>1
    <3>2. CASE ~UNCHANGED user
      <4> DEFINE v == req[r].user
                 new == [user[v] EXCEPT !.confirmed = TRUE]
      <4>1. v \in Users /\ user[v] \in Row /\ new \in Row /\ user' = [user EXCEPT ![v] = new]
        BY <2>2, <3>2, ConfirmUpdateShape
      <4>2. new.password = user[v].password /\ new.confirmed  BY <4>1 DEF Row
      <4> HIDE DEF v, new
      <4> QED  BY <1>2, <4>1, <4>2
    <3> QED  BY <3>1, <3>2
  <2>3. CASE ResetSave(r) \/ ChangeCommit(r)
    <3>1. CASE UNCHANGED user  BY <1>1, <3>1
    <3>2. CASE ~UNCHANGED user
      <4> DEFINE v == req[r].user
                 new == [user[v] EXCEPT !.password = passwords + 1]
      <4>1. /\ v \in Users /\ user[v] \in Row /\ user' = [user EXCEPT ![v] = new]
            /\ passwords' = passwords + 1 /\ (new \in Row \/ passwords' \in Password)
        BY <2>3, <3>2, ResetSaveShape, ChangeCommitShape
      <4>2. /\ new.password = passwords' /\ new \in Row
            /\ user[v].confirmed => new.confirmed
        BY <4>1 DEF Row
      <4> HIDE DEF v, new
      <4> QED  BY <1>2, <4>1, <4>2
    <3> QED  BY <3>1, <3>2
  <2>4. CASE SavesRow(r)
    <3>1. req[r].user # u  BY <2>4
    <3>2. user'[u] = user[u]  BY <1>0, <2>4, <3>1, SavesRowShape DEF TypeOK
    <3> QED  BY <1>1, <3>2
  <2>5. CASE DeleteUserAccount(r)
    <3>1. user' = [user EXCEPT ![req[r].user] = None]  BY <2>5, DeleteShape
    <3> QED  BY <1>0, <1>1, <3>1 DEF Kept, TypeOK
  <2>6. CASE \/ VerifyUpdate(r) \/ Rotate(r) \/ Mint(r) \/ ResetSelect(r)
             \/ ResetBlacklist(r) \/ ChangeSelect(r)
    BY <1>1, <2>6, VerifyUpdateShape, RotateShape, MintShape, SelectStepsShape,
       ResetBlacklistShape
  <2> QED  BY <1>3, <2>1, <2>2, <2>3, <2>4, <2>5, <2>6 DEF Proceed, SavesRow
<1>4. ASSUME NEW v \in Users, AdminDelete(v) PROVE Kept(u)
  <2>1. user' = [user EXCEPT ![v] = None]  BY <1>0, <1>4, AdminDeleteShape
  <2> QED  BY <1>0, <1>1, <2>1 DEF Kept, TypeOK
<1>5. CASE \/ UNCHANGED vars
           \/ \E r \in Requests : Begin(r) \/ Crash(r)
           \/ \E v \in Users : Resend(v) \/ RequestLink(v) \/ RequestReset(v)
           \/ \E t \in Tokens : Logout(t) \/ TokenExpires(t)
           \/ \E l \in Links : LinkExpires(l)
           \/ \E m \in mailed : MailExpires(m)
           \/ Flush
  <2>1. UNCHANGED user
    BY <1>0, <1>5, BeginShape, CrashShape, MailShape, RequestLinkShape, LinkGoesShape
       DEF vars, accounts
  <2> QED  BY <1>1, <2>1
<1> QED  BY <1>3, <1>4, <1>5 DEF Next

\* An account that was erased, a password that was replaced, or an address that
\* was to be confirmed comes back only with a save of the whole row that a request
\* has read before (profile, staff PATCH, admin): every other handler writes what
\* the statement itself reads, or a password that is new.
THEOREM RestoreCorrect == Spec => OnlyWholeRowsRestore
<1>1. ASSUME BaseInv, [Next]_vars, NEW u \in Users
      PROVE  \/ Kept(u)
             \/ \E r \in Requests : /\ req[r].pc \in {"save", "setpassword"}
                                    /\ req[r].user = u /\ req'[r].pc = "idle"
  <2>1. CASE \E r \in Requests : SavesRow(r) /\ req[r].user = u
    <3>1. PICK r \in Requests : SavesRow(r) /\ req[r].user = u  BY <2>1
    <3>2. req[r].pc \in {"save", "setpassword"} /\ Answer(r) /\ TypeOK
      BY <1>1, <3>1, SavesRowShape DEF BaseInv
    <3>3. req'[r].pc = "idle"  BY <3>2, AnswerShape
    <3> QED  BY <3>1, <3>2, <3>3
  <2> QED  BY <1>1, <2>1, KeptByAll
<1>2. BaseInv /\ [Next]_vars =>
        [\A u \in Users :
            \/ /\ user[u] = None /\ u \in known => user'[u] = None
               /\ user[u] # None /\ user'[u] # None =>
                      /\ user'[u].password \in {user[u].password, passwords'}
                      /\ user[u].confirmed => user'[u].confirmed
            \/ \E r \in Requests : /\ req[r].pc \in {"save", "setpassword"}
                                   /\ req[r].user = u /\ req'[r].pc = "idle"]_vars
  BY <1>1 DEF Kept
<1> QED  BY <1>2, BaseCorrect, PTL DEF Spec, OnlyWholeRowsRestore

-----------------------------------------------------------------------------
(* One session per link and per confirmation *)

LEMMA OpenedStep == BaseInv /\ OpenedInv /\ [Next]_vars => OpenedInv'
<1> SUFFICES ASSUME BaseInv, OpenedInv, [Next]_vars PROVE OpenedInv'
  OBVIOUS
<1>0. TypeOK  BY DEF BaseInv
<1>1. ASSUME UNCHANGED opened,
             \A l \in Links : link'[l] # None =>
               opened[l] = 0 \/ (link[l] # None /\ (link[l].used => link'[l].used))
      PROVE  OpenedInv'
  BY <1>0, <1>1 DEF OpenedInv, TypeOK
<1>2. CASE UNCHANGED <<link, opened>>  BY <1>1, <1>2
<1>3. ASSUME NEW r \in Requests, VerifyUpdate(r) PROVE OpenedInv'
  <2>1. CASE UNCHANGED <<link, opened>>  BY <1>2, <2>1
  <2>2. CASE ~UNCHANGED <<link, opened>>
    <3>1. /\ req[r].of \in Links /\ link[req[r].of] \in Link /\ ~link[req[r].of].used
          /\ link' = [link EXCEPT ![req[r].of] = [link[req[r].of] EXCEPT !.used = TRUE]]
          /\ opened' = [opened EXCEPT ![req[r].of] = @ + 1]
      BY <1>3, <2>2, VerifyUpdateShape
    <3>2. PICK l \in Links : l = req[r].of  BY <3>1
    <3>3. opened[l] = 0 /\ opened \in [Links -> Nat]
      BY <1>0, <3>1, <3>2, NoneAssumption DEF OpenedInv, TypeOK
    <3>4. [link[l] EXCEPT !.used = TRUE].used  BY <3>1, <3>2 DEF Link
    <3>5. opened'[l] = 1 /\ link'[l].used
      <4>1. opened'[l] = opened[l] + 1  BY <3>1, <3>2, <3>3
      <4>2. link'[l] = [link[l] EXCEPT !.used = TRUE]  BY <1>0, <3>1, <3>2 DEF TypeOK
      <4> QED  BY <3>3, <3>4, <4>1, <4>2
    <3>6. \A k \in Links \ {l} : opened'[k] = opened[k] /\ link'[k] = link[k]
      BY <1>0, <3>1, <3>2, <3>3 DEF TypeOK
    <3> QED  BY <3>5, <3>6 DEF OpenedInv
  <2> QED  BY <2>1, <2>2
<1>4. ASSUME NEW u \in Users, RequestLink(u) PROVE OpenedInv'
  BY <1>0, <1>1, <1>4, RequestLinkShape
<1>5. CASE Flush \/ \E l \in Links : LinkExpires(l)
  BY <1>0, <1>1, <1>5, LinkGoesShape
<1>6. ASSUME NEW r \in Requests, DeleteUserAccount(r) PROVE OpenedInv'
  BY <1>1, <1>6, DeleteShape
<1>7. ASSUME NEW r \in Requests, Proceed(r), ~VerifyUpdate(r), ~DeleteUserAccount(r)
      PROVE  OpenedInv'
  <2>1. UNCHANGED <<link, opened>>
    BY <1>0, <1>7, RegisterInsertShape, ConfirmUpdateShape, RotateShape, MintShape,
       ResetSaveShape, SelectStepsShape, ResetBlacklistShape, ChangeCommitShape,
       SavesRowShape DEF Proceed, SavesRow
  <2> QED  BY <1>2, <2>1
<1>8. CASE \/ UNCHANGED vars
           \/ \E r \in Requests : Begin(r) \/ Crash(r)
           \/ \E u \in Users : Resend(u) \/ RequestReset(u)
           \/ \E t \in Tokens : Logout(t) \/ TokenExpires(t)
           \/ \E m \in mailed : MailExpires(m)
  <2>1. UNCHANGED <<link, opened>>
    BY <1>0, <1>8, BeginShape, CrashShape, MailShape
       DEF vars, ghosts
  <2> QED  BY <1>2, <2>1
<1>9. ASSUME NEW u \in Users, AdminDelete(u) PROVE OpenedInv'
  BY <1>0, <1>1, <1>9, AdminDeleteShape
<1> QED  BY <1>3, <1>4, <1>5, <1>6, <1>7, <1>8, <1>9 DEF Next

\* A user that was registered, or put back, stays one; the count of a confirmation
\* goes up with the update that confirms.
LEMMA Grows ==
    ASSUME BaseInv, [Next]_vars
    PROVE  /\ restored \subseteq restored' /\ known \subseteq known'
           /\ UNCHANGED confirmed \/ \E r \in Requests : ConfirmUpdate(r)
<1>0. TypeOK  BY DEF BaseInv
<1>1. ASSUME NEW r \in Requests, Proceed(r), ~ConfirmUpdate(r)
      PROVE  UNCHANGED confirmed /\ restored \subseteq restored' /\ known \subseteq known'
  <2>1. CASE SavesRow(r)  BY <2>1, SavesRowShape
  <2>2. CASE RegisterInsert(r)  BY <1>0, <2>2, RegisterInsertShape
  <2>3. CASE ~SavesRow(r) /\ ~RegisterInsert(r)
    BY <1>1, <2>3, VerifyUpdateShape, RotateShape, MintShape, ResetSaveShape,
       SelectStepsShape, ResetBlacklistShape, ChangeCommitShape, DeleteShape
       DEF Proceed, SavesRow
  <2> QED  BY <2>1, <2>2, <2>3
<1>2. ASSUME NEW r \in Requests, ConfirmUpdate(r)
      PROVE  restored \subseteq restored' /\ known \subseteq known'
  BY <1>2, ConfirmUpdateShape
<1>3. CASE ~\E r \in Requests : Proceed(r)
  <2>1. UNCHANGED <<confirmed, restored, known>>
    BY <1>0, <1>3, BeginShape, CrashShape, MailShape, RequestLinkShape, AdminDeleteShape,
       LinkGoesShape DEF Next, vars, ghosts, accounts
  <2> QED  BY <2>1
<1> QED  BY <1>1, <1>2, <1>3

\* Who has confirmed the address stays confirmed, or is gone.
LEMMA ConfirmedKept ==
    ASSUME BaseInv, [Next]_vars, NEW u \in Users, u \in known, u \notin restored',
           Confirmed(u)
    PROVE  Confirmed(u)'
<1>0. TypeOK  BY DEF BaseInv
<1>1. CASE \E r \in Requests : SavesRow(r) /\ req[r].user = u
  <2>1. PICK r \in Requests : SavesRow(r) /\ req[r].user = u  BY <1>1
  <2>2. CASE UNCHANGED user  BY <2>2 DEF Confirmed
  <2>3. CASE ~UNCHANGED user
    <3>1. PICK row \in Row : /\ user' = [user EXCEPT ![u] = row]
                             /\ user[u] # None
                             /\ user[u].confirmed => row.confirmed
      BY <2>1, <2>3, SavesRowShape
    <3>2. user'[u] = row  BY <1>0, <3>1 DEF TypeOK
    <3> QED  BY <3>1, <3>2 DEF Confirmed
  <2> QED  BY <2>2, <2>3
<1>2. CASE ~\E r \in Requests : SavesRow(r) /\ req[r].user = u
  <2>1. Kept(u)  BY <1>2, KeptByAll
  <2> QED  BY <2>1 DEF Kept, Confirmed
<1> QED  BY <1>1, <1>2

LEMMA ConfirmedStep == BaseInv /\ ConfirmedInv /\ [Next]_vars => ConfirmedInv'
<1> SUFFICES ASSUME BaseInv, ConfirmedInv, [Next]_vars,
                    NEW u \in Users, u \notin restored'
             PROVE  /\ confirmed'[u] <= 1
                    /\ confirmed'[u] > 0 => u \in known' /\ Confirmed(u)'
  BY DEF ConfirmedInv
<1>0. TypeOK /\ confirmed \in [Users -> Nat]  BY DEF BaseInv, TypeOK
<1>1. /\ confirmed[u] <= 1
      /\ confirmed[u] > 0 => u \in known /\ Confirmed(u)
  BY Grows DEF ConfirmedInv
<1>2. CASE confirmed'[u] = confirmed[u]
  <2>1. confirmed[u] > 0 => u \in known'  BY <1>1, Grows
  <2>2. confirmed[u] > 0 => Confirmed(u)'  BY <1>1, ConfirmedKept
  <2> QED  BY <1>1, <1>2, <2>1, <2>2
<1>3. CASE confirmed'[u] # confirmed[u]
  <2>1. PICK r \in Requests : ConfirmUpdate(r)  BY <1>3, Grows
  <2>2. /\ req[r].user \in Users /\ user[req[r].user] \in Row
        /\ ~user[req[r].user].confirmed
        /\ user' = [user EXCEPT ![req[r].user] =
                       [user[req[r].user] EXCEPT !.confirmed = TRUE]]
        /\ confirmed' = [confirmed EXCEPT ![req[r].user] = @ + 1]
        /\ known' = known
    BY <1>3, <2>1, ConfirmUpdateShape
  <2>3. req[r].user = u  BY <1>0, <1>3, <2>2
  <2>4. user[u] # None /\ ~Confirmed(u)  BY <2>2, <2>3, NoneAssumption DEF Confirmed
  <2>5. confirmed[u] = 0  BY <1>0, <1>1, <2>4
  <2>6. confirmed'[u] = 1  BY <1>0, <2>2, <2>3, <2>5
  <2>7. user'[u].confirmed
    <3>1. user'[u] = [user[u] EXCEPT !.confirmed = TRUE]  BY <1>0, <2>2, <2>3 DEF TypeOK
    <3> QED  BY <2>2, <2>3, <3>1 DEF Row
  <2>8. u \in known'  BY <2>2, <2>4 DEF BaseInv
  <2> QED  BY <2>6, <2>7, <2>8 DEF Confirmed
<1> QED  BY <1>2, <1>3

LEMMA OpenedInit == Init => OpenedInv /\ ConfirmedInv
<1> SUFFICES ASSUME Init PROVE OpenedInv /\ ConfirmedInv
  OBVIOUS
<1>1. \A r \in Requests : req[r].pc = "idle"  BY DEF Init, Idle
<1>2. /\ \A l \in Links : opened[l] = 0 /\ link[l] = None
      /\ \A u \in Users : confirmed[u] = 0
      /\ \A t \in Tokens : token[t] = None
  BY DEF Init
<1> QED  BY <1>1, <1>2 DEF OpenedInv, ConfirmedInv

\* A sign-in link opens one session, however many requests present it together
\* and whatever is flushed, and so does the confirmation of an address, unless a
\* save of the whole row has put the account back as it was before: the other
\* handlers never make unconfirmed who has confirmed.
THEOREM LinkCorrect == Spec => []LinkOpensOneSession
<1>1. OpenedInv /\ ConfirmedInv => LinkOpensOneSession
  BY DEF OpenedInv, ConfirmedInv, LinkOpensOneSession
<1> QED  BY <1>1, BaseCorrect, OpenedInit, OpenedStep, ConfirmedStep, PTL DEF Spec

-----------------------------------------------------------------------------
(* Sessions end with the password *)

\* The step leaves the password of u and its sweeps as they are, or ends with a
\* sweep that is due.
Calm(u) ==
    \/ Due(u)'
    \/ /\ user'[u].password = user[u].password
       /\ Due(u) => Due(u)'
       /\ \A r \in Requests : At(r, "blacklist") /\ req[r].user = u => Same(r)

LEMMA EndsKept ==
    ASSUME NEW t \in Tokens, NEW u \in Users, token'[t] = token[t], Ends(t, u), Calm(u)
    PROVE  Ends(t, u)'
<1>1. CASE Due(u)'  BY <1>1 DEF Ends
<1>2. CASE ~Due(u)'
  <2>1. /\ user'[u].password = user[u].password /\ ~Due(u)
        /\ \A r \in Requests : At(r, "blacklist") /\ req[r].user = u => Same(r)
    BY <1>2 DEF Calm
  <2>2. CASE token[t].root >= user[u].password \/ token[t].raced  BY <2>1, <2>2 DEF Ends
  <2>3. CASE \E r \in Requests : /\ At(r, "blacklist") /\ req[r].user = u
                                 /\ t \in req[r].pending
    <3>1. PICK r \in Requests : /\ At(r, "blacklist") /\ req[r].user = u
                                /\ t \in req[r].pending
      BY <2>3
    <3>2. Same(r)  BY <2>1, <3>1
    <3> QED  BY <3>1, <3>2 DEF Same, At, Ends
  <2> QED  BY <2>1, <2>2, <2>3 DEF Ends
<1> QED  BY <1>1, <1>2

LEMMA CoveredKept ==
    ASSUME NEW q \in Requests, NEW u \in Users, Same(q), Covered(q, u),
           \A t \in Tokens : Good(t, u)' =>
              \/ Good(t, u) /\ token'[t] = token[t]
              \/ token'[t].raced
              \/ ~(req[q].pc \in {"blacklist", "commit"} /\ req[q].user = u)
    PROVE  Covered(q, u)'
<1> HIDE DEF Good
<1>1. req'[q].pc = req[q].pc /\ req'[q].user = req[q].user /\ req'[q].pending = req[q].pending
  BY DEF Same
<1> SUFFICES ASSUME req[q].pc \in {"blacklist", "commit"}, req[q].user = u,
                    NEW t \in Tokens, Good(t, u)'
             PROVE  token'[t].raced \/ t \in req'[q].pending
  BY <1>1 DEF Covered
<1>2. CASE Good(t, u) /\ token'[t] = token[t]  BY <1>1, <1>2 DEF Covered
<1> QED  BY <1>2

LEMMA ComingKept ==
    ASSUME BaseInv, [Next]_vars, NEW q \in Requests, NEW u \in Users, Same(q),
           Coming(q, u), Calm(u) \/ (req[q].user = u => req'[q].raced)
    PROVE  Coming(q, u)'
<1>1. /\ req'[q].pc = req[q].pc /\ req'[q].user = req[q].user /\ req'[q].row = req[q].row
      /\ req'[q].of = req[q].of /\ (req[q].raced => req'[q].raced)
  BY DEF Same
<1>2. CASE req'[q].raced \/ Due(u)'  BY <1>2 DEF Coming
<1>3. CASE ~req'[q].raced /\ ~Due(u)'
  <2> SUFFICES ASSUME req[q].pc \in {"confirm", "verify", "mint", "rotate"}, req[q].user = u
               PROVE  Coming(q, u)'
    BY <1>1 DEF Coming
  <2>1. /\ user'[u].password = user[u].password /\ ~Due(u) /\ ~req[q].raced
        /\ \A r \in Requests : At(r, "blacklist") /\ req[r].user = u => Same(r)
    BY <1>1, <1>3 DEF Calm
  <2>2. CASE \E s \in Requests : At(s, "blacklist") /\ req[s].user = u
    <3>1. PICK s \in Requests : At(s, "blacklist") /\ req[s].user = u  BY <2>2
    <3>2. Same(s)  BY <2>1, <3>1
    <3>3. req'[s].pc = "blacklist" /\ req'[s].user = u  BY <3>1, <3>2 DEF Same, At
    <3> QED  BY <3>3 DEF Coming, At
  <2>3. CASE /\ req[q].pc \in {"rotate", "mint"} /\ req[q].of # None
             /\ token[req[q].of].root >= user[u].password \/ token[req[q].of].raced
    <3>1. req[q].of \in Tokens /\ token[req[q].of] # None
      BY <2>3 DEF BaseInv, Holding
    <3>2. /\ token'[req[q].of].root = token[req[q].of].root
          /\ token'[req[q].of].raced <=> token[req[q].of].raced
      BY <3>1, MarkedOrMade DEF Keeps
    <3> QED  BY <1>1, <2>1, <2>3, <3>2 DEF Coming
  <2>4. CASE /\ req[q].pc # "rotate"
             /\ req[q].pc = "mint" => req[q].of = None
             /\ req[q].row.password >= user[u].password
    BY <1>1, <2>1, <2>4 DEF Coming
  <2> QED  BY <2>1, <2>2, <2>3, <2>4 DEF Coming
<1> QED  BY <1>2, <1>3

\* No token of u was made in the step.
LEMMA GoodWas ==
    ASSUME BaseInv, [Next]_vars, NEW t \in Tokens, NEW u \in Users, Good(t, u)',
           user'[u] # None, token[t] = None => token'[t].user # u
    PROVE  Good(t, u) /\ token'[t] = token[t]
<1>1. Usable(t)' /\ token'[t].user = u  BY DEF Good
<1>2. token[t] # None  BY <1>1
<1>3. Usable(t) /\ token'[t] = token[t]  BY <1>1, <1>2, MarkedOrMade DEF Keeps
<1> QED  BY <1>1, <1>3 DEF Good

LEMMA SessionMoved ==
    ASSUME BaseInv, [Next]_vars, NEW u \in Users, user'[u] # None, SessionOf(u), Calm(u),
           NEW r \in Requests,
           \A q \in Requests \ {r} : Same(q),
           \A t \in Tokens : token[t] = None /\ token'[t] # None => token'[t].user # u,
           Covered(r, u)', Coming(r, u)'
    PROVE  SessionOf(u)'
<1>1. \A t \in Tokens : Good(t, u)' => Good(t, u) /\ token'[t] = token[t]
  <2> SUFFICES ASSUME NEW t \in Tokens, Good(t, u)'
               PROVE  Good(t, u) /\ token'[t] = token[t]
    OBVIOUS
  <2>1. token'[t] # None  BY DEF Good, Usable
  <2> QED  BY <2>1, GoodWas
<1>2. ASSUME NEW t \in Tokens, Good(t, u)' PROVE token'[t].owned /\ Ends(t, u)'
  <2>1. Good(t, u) /\ token'[t] = token[t]  BY <1>1, <1>2
  <2>2. token[t].owned /\ Ends(t, u)  BY <2>1 DEF SessionOf
  <2> QED  BY <2>1, <2>2, EndsKept
<1>3. ASSUME NEW q \in Requests PROVE Covered(q, u)' /\ Coming(q, u)'
  <2>1. CASE q = r  BY <2>1
  <2>2. CASE q # r
    <3>1. Same(q) /\ Covered(q, u) /\ Coming(q, u)  BY <2>2 DEF SessionOf
    <3> QED  BY <1>1, <3>1, CoveredKept, ComingKept
  <2> QED  BY <2>1, <2>2
<1> QED  BY <1>2, <1>3 DEF SessionOf

LEMMA CalmMoved ==
    ASSUME NEW u \in Users, NEW r \in Requests, \A q \in Requests \ {r} : Same(q),
           u \in unswept => u \in unswept', user'[u].password = user[u].password,
           req[r].pc \notin {"sweep", "blacklist"} \/ req[r].user # u
    PROVE  Calm(u)
<1>1. \A q \in Requests : req[q].pc \in {"sweep", "blacklist"} /\ req[q].user = u => Same(q)
  OBVIOUS
<1>2. Due(u) => Due(u)'
  <2>1. CASE u \in unswept  BY <2>1 DEF Due
  <2>2. CASE \E q \in Requests : At(q, "sweep") /\ req[q].user = u
    <3>1. PICK q \in Requests : At(q, "sweep") /\ req[q].user = u  BY <2>2
    <3>2. req'[q].pc = "sweep" /\ req'[q].user = u  BY <1>1, <3>1 DEF Same, At
    <3> QED  BY <3>2 DEF Due, At
  <2> QED  BY <2>1, <2>2 DEF Due
<1> QED  BY <1>1, <1>2 DEF Calm, At

\* A request that ends, or is for somebody else, has nothing to show.
LEMMA NothingToShow ==
    ASSUME NEW r \in Requests, NEW u \in Users,
           \/ req'[r].user # u
           \/ req'[r].pc \notin {"confirm", "verify", "mint", "rotate", "blacklist", "commit"}
    PROVE  Covered(r, u)' /\ Coming(r, u)'
BY DEF Covered, Coming

\* A step of a request is about its own account.
LEMMA ProceedShape ==
    ASSUME BaseInv, [Next]_vars, NEW r \in Requests, Proceed(r)
    PROVE  /\ \A q \in Requests \ {r} : Same(q)
           /\ req'[r].pc = "idle" \/ req'[r].user = req[r].user
           /\ \A v \in Users : v \in known /\ v # req[r].user =>
                user'[v] = user[v] /\ (v \in unswept => v \in unswept')
           /\ \A t \in Tokens : token[t] = None /\ token'[t] # None
                                 => token'[t].user = req[r].user
<1>0. TypeOK /\ Holding(r)  BY DEF BaseInv
<1>1. Answer(r) => req'[r].pc = "idle" /\ \A q \in Requests \ {r} : Same(q)
  BY <1>0, AnswerShape
<1>2. "mint" \in PC /\ "sweep" \in PC  BY DEF PC
<1>3. ASSUME NEW pc \in PC, Continue(r, pc)
      PROVE  req'[r].user = req[r].user /\ \A q \in Requests \ {r} : Same(q)
  BY <1>0, <1>3, ContinueShape
<1>4. CASE RegisterInsert(r)
  <2>1. PICK v \in Users \ known :
          \/ UNCHANGED user
          \/ \E new \in Row : user' = [user EXCEPT ![v] = new]
    BY <1>0, <1>4, RegisterInsertShape
  <2>2. \A u \in Users : u \in known => user'[u] = user[u]  BY <1>0, <2>1 DEF TypeOK
  <2> QED  BY <1>0, <1>1, <1>4, <2>2, RegisterInsertShape
<1>5. CASE ConfirmUpdate(r)
  <2>1. \A u \in Users : u # req[r].user => user'[u] = user[u]
    BY <1>0, <1>5, ConfirmUpdateShape DEF TypeOK
  <2> QED  BY <1>1, <1>2, <1>3, <1>5, <2>1, ConfirmUpdateShape
<1>6. CASE VerifyUpdate(r)  BY <1>1, <1>6, VerifyUpdateShape
<1>7. CASE Rotate(r)
  <2>1. \A t \in Tokens : token[t] = None => token'[t] = None
    <3>1. /\ req[r].of \in Tokens /\ token[req[r].of] # None
          /\ token' = [token EXCEPT ![req[r].of].blacklisted = TRUE]
      BY <1>0, <1>7, NoneAssumption DEF Rotate, At, Holding
    <3> QED  BY <1>0, <3>1 DEF TypeOK
  <2> QED  BY <1>2, <1>3, <1>7, <2>1, RotateShape
<1>8. CASE Mint(r)  BY <1>1, <1>8, MintShape DEF Minted
<1>9. CASE ResetSave(r)
  <2>1. \A u \in Users : u # req[r].user => user'[u] = user[u]
    BY <1>0, <1>9, ResetSaveShape DEF TypeOK
  <2> QED  BY <1>1, <1>2, <1>3, <1>9, <2>1, ResetSaveShape
<1>10. CASE ResetSelect(r) \/ ChangeSelect(r)  BY <1>1, <1>10, SelectStepsShape
<1>11. CASE ResetBlacklist(r)
  <2>1. \A t \in Tokens : token[t] = None => token'[t] = None
    BY <1>0, <1>11 DEF ResetBlacklist, Blacklist, Holding
  <2> QED  BY <1>11, <2>1, ResetBlacklistShape
<1>12. CASE ChangeCommit(r)
  <2>1. PICK u \in Users : u = req[r].user  BY <1>12, ChangeCommitShape
  <2>2. req' = [Overlapped(u, r) EXCEPT ![r] = Idle]  BY <1>12, <2>1, ChangeCommitShape
  <2>3. req'[r].pc = "idle" /\ \A q \in Requests \ {r} : Same(q)
    BY <1>0, <2>2, SweptShape
  <2>4. /\ user' = [user EXCEPT ![u] = [user[u] EXCEPT !.password = passwords + 1]]
        /\ unswept' = unswept \ {u}
    BY <1>12, <2>1, ChangeCommitShape
  <2>5. \A v \in Users : v # u => user'[v] = user[v]  BY <1>0, <2>4 DEF TypeOK
  <2> QED  BY <1>12, <2>1, <2>3, <2>4, <2>5, ChangeCommitShape
<1>13. CASE SavesRow(r)
  <2>1. \A u \in Users : u # req[r].user => user'[u] = user[u]
    BY <1>0, <1>13, SavesRowShape DEF TypeOK
  <2> QED  BY <1>1, <1>13, <2>1, SavesRowShape
<1>14. CASE DeleteUserAccount(r)
  <2>1. \A u \in Users : u # req[r].user => user'[u] = user[u]
    BY <1>0, <1>14, DeleteShape DEF TypeOK
  <2>2. \A t \in Tokens : token[t] = None => token'[t] = None
    BY <1>14 DEF DeleteUserAccount
  <2> QED  BY <1>1, <1>14, <2>1, <2>2, DeleteShape
<1> QED  BY <1>4, <1>5, <1>6, <1>7, <1>8, <1>9, <1>10, <1>11, <1>12, <1>13, <1>14
            DEF Proceed, SavesRow

LEMMA SessionBegin ==
    ASSUME BaseInv, [Next]_vars, NEW r \in Requests, Begin(r),
           NEW u \in Users, user[u] # None, user'[u] # None, SessionOf(u)
    PROVE  SessionOf(u)'
<1>1. /\ UNCHANGED <<user, token, unswept>> /\ req[r].pc = "idle"
      /\ \A q \in Requests \ {r} : Same(q)
  BY BeginShape DEF Same
<1>2. Calm(u)  BY <1>1, CalmMoved
<1>3. Covered(r, u)' /\ Coming(r, u)'
  <2>1. CASE req'[r].pc = "register"  BY <2>1, NothingToShow
  <2>2. ASSUME NEW v \in Users, Begun(r, v) PROVE Covered(r, u)' /\ Coming(r, u)'
    <3>1. CASE v # u
      <4>1. req'[r].user # u  BY <2>2, <3>1 DEF Begun
      <4> QED  BY <4>1, NothingToShow
    <3>2. CASE v = u
      <4>0. /\ req'[r].user = u /\ (req'[r].pc # "save" => req'[r].row = user[u])
            /\ req'[r].pc # "blacklist" /\ req'[r].pc # "commit"
        BY <2>2, <3>2 DEF Begun
      <4>1. Covered(r, u)'  BY <4>0 DEF Covered
      <4>2. CASE /\ req'[r].pc = "rotate" /\ req'[r].of \in Tokens
                 /\ Usable(req'[r].of) /\ token[req'[r].of].user = u
        <5>1. PICK t \in Tokens : t = req'[r].of  BY <4>2
        <5>2. Good(t, u)  BY <4>2, <5>1 DEF Good
        <5>3. Ends(t, u)  BY <5>2 DEF SessionOf
        <5>4. Ends(t, u)'  BY <1>1, <1>2, <5>3, EndsKept
        <5>5. t # None  BY NoneAssumption
        <5> QED  BY <4>0, <4>1, <4>2, <5>1, <5>4, <5>5 DEF Ends, Coming
      <4>3. CASE req'[r].pc \in {"confirm", "verify"} \/ (req'[r].pc = "mint" /\ req'[r].of = None)
        <5>1. user'[u] = user[u] /\ user[u].password \in Int
          BY <1>1 DEF BaseInv, TypeOK, Row, Password
        <5>2. req'[r].row.password >= user'[u].password  BY <4>0, <4>3, <5>1
        <5> QED  BY <4>0, <4>1, <4>3, <5>2 DEF Coming
      <4>4. CASE req'[r].pc \in {"reset", "change", "save", "setpassword", "erase"}
        BY <4>4, NothingToShow
      <4> QED  BY <2>2, <3>2, <4>2, <4>3, <4>4 DEF Begun
    <3> QED  BY <3>1, <3>2
  <2> QED  BY <2>1, <2>2, BeginShape
<1> QED  BY <1>1, <1>2, <1>3, SessionMoved

\* The steps of other accounts' requests.
LEMMA SessionElse ==
    ASSUME BaseInv, [Next]_vars, NEW r \in Requests, Proceed(r),
           NEW u \in Users, user[u] # None, user'[u] # None, SessionOf(u), req[r].user # u
    PROVE  SessionOf(u)'
<1>1. u \in known  BY DEF BaseInv
<1>2. /\ user'[u] = user[u] /\ (u \in unswept => u \in unswept')
      /\ \A q \in Requests \ {r} : Same(q)
      /\ req'[r].pc = "idle" \/ req'[r].user # u
      /\ \A t \in Tokens : token[t] = None /\ token'[t] # None => token'[t].user # u
  BY <1>1, ProceedShape
<1>3. Calm(u)  BY <1>2, CalmMoved
<1>4. Covered(r, u)' /\ Coming(r, u)'  BY <1>2, NothingToShow
<1> QED  BY <1>2, <1>3, <1>4, SessionMoved

\* The steps of its own requests: the ones that make no token and leave what is
\* due as it was.
LEMMA SessionCalm ==
    ASSUME BaseInv, [Next]_vars, NEW r \in Requests, NEW u \in Users,
           user[u] # None, user'[u] # None, u \notin restored', SessionOf(u),
           req[r].user = u,
           \/ ConfirmUpdate(r) \/ VerifyUpdate(r) \/ Rotate(r) \/ ResetSave(r)
           \/ ChangeSelect(r)
    PROVE  SessionOf(u)'
<1>0. TypeOK /\ Holding(r) /\ Proceed(r) /\ Coming(r, u) /\ user[u] \in Row
  BY DEF BaseInv, TypeOK, Proceed, SessionOf
<1>1. \A q \in Requests \ {r} : Same(q)  BY <1>0, ProceedShape
<1>2. \A t \in Tokens : token[t] = None /\ token'[t] # None => token'[t].user # u
  <2>1. CASE Rotate(r)
    <3>1. /\ req[r].of \in Tokens /\ token[req[r].of] # None
          /\ token' = [token EXCEPT ![req[r].of].blacklisted = TRUE]
      BY <1>0, <2>1, NoneAssumption DEF Rotate, At, Holding
    <3> QED  BY <1>0, <3>1 DEF TypeOK
  <2> QED  BY <2>1, ConfirmUpdateShape, VerifyUpdateShape, ResetSaveShape, SelectStepsShape
<1>3. UNCHANGED unswept
  BY ConfirmUpdateShape, VerifyUpdateShape, RotateShape, ResetSaveShape, SelectStepsShape
<1>4. CASE ResetSave(r)
  <2>1. req[r].pc = "reset"  BY <1>4, ResetSaveShape
  <2>2. CASE UNCHANGED user /\ Answer(r)
    <3>1. Calm(u)  BY <1>1, <1>3, <2>1, <2>2, CalmMoved
    <3>2. req'[r].pc = "idle"  BY <1>0, <2>2, AnswerShape
    <3> QED  BY <1>1, <1>2, <3>1, <3>2, NothingToShow, SessionMoved
  <2>3. CASE Continue(r, "sweep")
    <3>1. "sweep" \in PC  BY DEF PC
    <3>2. req'[r].pc = "sweep" /\ req'[r].user = u  BY <1>0, <2>3, <3>1, ContinueShape
    <3>3. Calm(u)  BY <3>2 DEF Calm, Due, At
    <3> QED  BY <1>1, <1>2, <3>2, <3>3, NothingToShow, SessionMoved
  <2> QED  BY <1>4, <2>2, <2>3, ResetSaveShape
<1>5. CASE ~ResetSave(r)
  <2>1. user'[u].password = user[u].password
    <3>1. CASE ConfirmUpdate(r)
      <4>1. \/ UNCHANGED user
            \/ user' = [user EXCEPT ![u] = [user[u] EXCEPT !.confirmed = TRUE]]
        BY <3>1, ConfirmUpdateShape
      <4>2. [user[u] EXCEPT !.confirmed = TRUE].password = user[u].password
        BY <1>0 DEF Row
      <4> QED  BY <1>0, <4>1, <4>2 DEF TypeOK
    <3> QED  BY <1>5, <3>1, VerifyUpdateShape, RotateShape, SelectStepsShape
  <2>2. req[r].pc \notin {"sweep", "blacklist"}
    BY <1>5, ConfirmUpdateShape, VerifyUpdateShape, RotateShape
       DEF ChangeSelect, At
  <2>3. Calm(u)  BY <1>1, <1>3, <2>1, <2>2, CalmMoved
  <2>4. CASE Answer(r)
    <3>1. req'[r].pc = "idle"  BY <1>0, <2>4, AnswerShape
    <3> QED  BY <1>1, <1>2, <2>3, <3>1, NothingToShow, SessionMoved
  <2>5. CASE ~Answer(r)
    <3>0. "mint" \in PC  BY DEF PC
    <3>1. CASE ChangeSelect(r)
      <4>1. req'[r].pc = "commit" /\ req'[r].pending = Pending(u) /\ UNCHANGED token
        BY <2>2, <2>5, <3>1, SelectStepsShape
      <4>2. Coming(r, u)'  BY <4>1 DEF Coming
      <4>3. \A t \in Tokens : Good(t, u) => t \in Pending(u)
        BY DEF SessionOf, Good, Usable, Pending
      <4>4. \A t \in Tokens : Good(t, u)' => Good(t, u)  BY <4>1 DEF Good, Usable
      <4>5. Covered(r, u)'  BY <4>1, <4>3, <4>4 DEF Covered
      <4> QED  BY <1>1, <1>2, <2>3, <4>2, <4>5, SessionMoved
    <3>2. CASE ConfirmUpdate(r) \/ VerifyUpdate(r)
      <4>1. /\ req[r].pc \in {"confirm", "verify"}
            /\ req'[r].pc = "mint" /\ req'[r].user = u /\ req'[r].row = req[r].row
            /\ req'[r].of = None /\ (req[r].raced => req'[r].raced)
        <5>1. CASE ConfirmUpdate(r)
          <6>1. req[r].pc = "confirm" /\ Continue(r, "mint")
            BY <2>5, <5>1, ConfirmUpdateShape
          <6>2. req[r].of = None  BY <1>0, <6>1 DEF Holding
          <6> QED  BY <1>0, <3>0, <6>1, <6>2, ContinueShape
        <5>2. CASE VerifyUpdate(r)  BY <2>5, <5>2, VerifyUpdateShape
        <5> QED  BY <3>2, <5>1, <5>2
      <4>2. Covered(r, u)'  BY <4>1 DEF Covered
      <4>3. Coming(r, u)'
        <5>1. CASE req[r].raced \/ Due(u)'  BY <4>1, <5>1 DEF Coming
        <5>2. CASE \E s \in Requests : At(s, "blacklist") /\ req[s].user = u
          <6>1. PICK s \in Requests : At(s, "blacklist") /\ req[s].user = u  BY <5>2
          <6>2. s # r  BY <2>2, <6>1 DEF At
          <6>3. req'[s].pc = "blacklist" /\ req'[s].user = u
            BY <1>1, <6>1, <6>2 DEF Same, At
          <6> QED  BY <6>3 DEF Coming, At
        <5>3. CASE req[r].row.password >= user[u].password
          BY <2>1, <4>1, <5>3 DEF Coming
        <5>4. Due(u) => Due(u)'  BY <2>3 DEF Calm
        <5> QED  BY <1>0, <4>1, <5>1, <5>2, <5>3, <5>4 DEF Coming
      <4> QED  BY <1>1, <1>2, <2>3, <4>2, <4>3, SessionMoved
    <3>3. CASE Rotate(r)
      <4>1. req[r].pc = "rotate" /\ Continue(r, "mint")  BY <3>3, RotateShape
      <4>2. /\ req'[r].pc = "mint" /\ req'[r].user = u
            /\ req'[r].of = req[r].of /\ (req[r].raced => req'[r].raced)
        BY <1>0, <3>0, <4>1, ContinueShape
      <4>3. Covered(r, u)'  BY <4>2 DEF Covered
      <4>4. Coming(r, u)'
        <5>1. CASE req[r].raced \/ Due(u)'  BY <4>2, <5>1 DEF Coming
        <5>2. CASE \E s \in Requests : At(s, "blacklist") /\ req[s].user = u
          <6>1. PICK s \in Requests : At(s, "blacklist") /\ req[s].user = u  BY <5>2
          <6>2. s # r  BY <2>2, <6>1 DEF At
          <6>3. req'[s].pc = "blacklist" /\ req'[s].user = u
            BY <1>1, <6>1, <6>2 DEF Same, At
          <6> QED  BY <6>3 DEF Coming, At
        <5>3. CASE /\ req[r].of # None
                   /\ \/ token[req[r].of].root >= user[u].password
                      \/ token[req[r].of].raced
          <6>1. req[r].of \in Tokens /\ token[req[r].of] # None
            BY <1>0, <4>1, <5>3 DEF Holding
          <6>2. /\ token'[req[r].of].root = token[req[r].of].root
                /\ token'[req[r].of].raced <=> token[req[r].of].raced
            BY <6>1, MarkedOrMade DEF Keeps
          <6> QED  BY <2>1, <4>2, <5>3, <6>2 DEF Coming
        <5>4. Due(u) => Due(u)'  BY <2>3 DEF Calm
        <5> QED  BY <1>0, <4>1, <5>1, <5>2, <5>3, <5>4 DEF Coming
      <4> QED  BY <1>1, <1>2, <2>3, <4>3, <4>4, SessionMoved
    <3> QED  BY <1>5, <3>1, <3>2, <3>3
  <2> QED  BY <2>4, <2>5
<1> QED  BY <1>4, <1>5

\* A save of the whole row that puts nothing back: the password stays, or is new
\* and no sweep has followed.
LEMMA SessionSaved ==
    ASSUME BaseInv, [Next]_vars, NEW r \in Requests, NEW u \in Users, SavesRow(r),
           user'[u] # None, u \notin restored', SessionOf(u), req[r].user = u
    PROVE  SessionOf(u)'
<1>0. TypeOK  BY DEF BaseInv
<1>1. /\ UNCHANGED token /\ Answer(r) /\ unswept \subseteq unswept'
      /\ req[r].pc \in {"save", "setpassword"}
  BY SavesRowShape
<1>2. req'[r].pc = "idle" /\ \A q \in Requests \ {r} : Same(q)  BY <1>0, <1>1, AnswerShape
<1>3. user'[u].password = user[u].password \/ u \in unswept'
  <2>1. CASE UNCHANGED user  BY <2>1
  <2>2. CASE ~UNCHANGED user
    <3>1. PICK row \in Row :
            /\ user' = [user EXCEPT ![u] = row]
            /\ user[u].password = row.password \/ u \in unswept'
      BY <2>2, SavesRowShape
    <3>2. user'[u] = row  BY <1>0, <3>1 DEF TypeOK
    <3> QED  BY <3>1, <3>2
  <2> QED  BY <2>1, <2>2
<1>4. Calm(u)
  <2>1. CASE u \in unswept'  BY <2>1 DEF Calm, Due
  <2>2. CASE user'[u].password = user[u].password  BY <1>1, <1>2, <2>2, CalmMoved
  <2> QED  BY <1>3, <2>1, <2>2
<1> QED  BY <1>1, <1>2, <1>4, NothingToShow, SessionMoved

\* A new token goes back to what its request has read, or is known to be raced.
LEMMA SessionMint ==
    ASSUME BaseInv, [Next]_vars, NEW r \in Requests, Mint(r), NEW u \in Users,
           user[u] # None, user'[u] # None, SessionOf(u), req[r].user = u
    PROVE  SessionOf(u)'
<1>0. TypeOK /\ Holding(r) /\ Coming(r, u)  BY DEF BaseInv, SessionOf
<1>1. UNCHANGED <<user, unswept>> /\ req[r].pc = "mint" /\ Answer(r)  BY MintShape
<1>2. req'[r].pc = "idle" /\ \A q \in Requests \ {r} : Same(q)  BY <1>0, <1>1, AnswerShape
<1>3. Calm(u)  BY <1>1, <1>2, CalmMoved
<1>4. CASE UNCHANGED token
  BY <1>2, <1>3, <1>4, NothingToShow, SessionMoved
<1>5. CASE ~UNCHANGED token
  <2>1. PICK n \in Tokens : Minted(r, n) /\ \A s \in Tokens \ {n} : token'[s] = token[s]
    BY <1>5, MintShape
  <2>2. /\ token'[n].owned
        /\ req[r].raced \/ Sweeping(u) => token'[n].raced
        /\ req[r].of = None => token'[n].root = req[r].row.password
        /\ req[r].of # None => /\ token'[n].root = token[req[r].of].root
                               /\ token[req[r].of].raced => token'[n].raced
    BY <2>1 DEF Minted
  <2>3. \A q \in Requests : req[q].pc \in {"blacklist", "commit"} /\ req[q].user = u
                               => token'[n].raced
    BY <2>2 DEF Sweeping
  <2>4. Ends(n, u)'
    <3>1. CASE token'[n].raced \/ Due(u)'  BY <3>1 DEF Ends
    <3>2. Due(u) => Due(u)'  BY <1>3 DEF Calm
    <3>3. CASE token'[n].root >= user[u].password  BY <1>1, <3>3 DEF Ends
    <3> QED  BY <1>0, <1>1, <2>2, <2>3, <3>1, <3>2, <3>3 DEF Coming, At
  <2>5. ASSUME NEW t \in Tokens, Good(t, u)', t # n
        PROVE  Good(t, u) /\ token'[t] = token[t]
    BY <2>1, <2>5 DEF Good, Usable
  <2>6. ASSUME NEW t \in Tokens, Good(t, u)' PROVE token'[t].owned /\ Ends(t, u)'
    <3>1. CASE t = n  BY <2>2, <2>4, <3>1
    <3>2. CASE t # n
      <4>1. Good(t, u) /\ token'[t] = token[t]  BY <2>5, <2>6, <3>2
      <4>2. token[t].owned /\ Ends(t, u)  BY <4>1 DEF SessionOf
      <4> QED  BY <1>3, <4>1, <4>2, EndsKept
    <3> QED  BY <3>1, <3>2
  <2>7. ASSUME NEW q \in Requests PROVE Covered(q, u)' /\ Coming(q, u)'
    <3>1. CASE q = r  BY <1>2, <3>1, NothingToShow
    <3>2. CASE q # r
      <4>1. Same(q) /\ Covered(q, u) /\ Coming(q, u)  BY <1>2, <3>2 DEF SessionOf
      <4>2. Covered(q, u)'  BY <2>3, <2>5, <4>1, CoveredKept
      <4>3. Coming(q, u)'  BY <1>3, <4>1, ComingKept
      <4> QED  BY <4>2, <4>3
    <3> QED  BY <3>1, <3>2
  <2> QED  BY <2>6, <2>7 DEF SessionOf
<1> QED  BY <1>4, <1>5

\* The steps of a sweep: the requests that run at the same time are told.
LEMMA SessionSweep ==
    ASSUME BaseInv, [Next]_vars, NEW r \in Requests, NEW u \in Users, SessionOf(u),
           \A q \in Requests \ {r} : Same(q) /\ (req[q].user = u => req'[q].raced),
           req'[r].pc \notin {"confirm", "verify", "mint", "rotate"},
           Covered(r, u)',
           \A t \in Tokens : Good(t, u)' =>
             /\ token'[t].owned /\ Ends(t, u)'
             /\ \/ Good(t, u) /\ token'[t] = token[t]
                \/ \A q \in Requests \ {r} :
                     req[q].pc \in {"blacklist", "commit"} /\ req[q].user = u
                         => token'[t].raced
    PROVE  SessionOf(u)'
<1>1. ASSUME NEW q \in Requests PROVE Covered(q, u)' /\ Coming(q, u)'
  <2>1. CASE q = r  BY <2>1 DEF Coming
  <2>2. CASE q # r
    <3>1. Same(q) /\ Covered(q, u) /\ Coming(q, u) /\ (req[q].user = u => req'[q].raced)
      BY <2>2 DEF SessionOf
    <3>2. Covered(q, u)'  BY <2>2, <3>1, CoveredKept
    <3>3. Coming(q, u)'  BY <3>1, ComingKept
    <3> QED  BY <3>2, <3>3
  <2> QED  BY <2>1, <2>2
<1> QED  BY <1>1 DEF SessionOf

LEMMA SessionSelect ==
    ASSUME BaseInv, [Next]_vars, NEW r \in Requests, ResetSelect(r), NEW u \in Users,
           user[u] # None, user'[u] # None, SessionOf(u), req[r].user = u
    PROVE  SessionOf(u)'
<1>1. /\ UNCHANGED token /\ req[r].pc = "sweep"
      /\ req'[r].pc = "blacklist" /\ req'[r].user = u /\ req'[r].pending = Pending(u)
      /\ \A q \in Requests \ {r} : Same(q) /\ (req[q].user = u => req'[q].raced)
  <2>1. req[r].pc = "sweep"  BY DEF ResetSelect, At
  <2> QED  BY <2>1, SelectStepsShape
<1>2. \A t \in Tokens : Good(t, u)' => Good(t, u) /\ token'[t] = token[t]
  BY <1>1 DEF Good, Usable
<1>3. \A t \in Tokens : Good(t, u) => t \in Pending(u) /\ token[t].owned
  BY DEF SessionOf, Good, Usable, Pending
<1>4. Covered(r, u)'  BY <1>1, <1>2, <1>3 DEF Covered
<1>5. ASSUME NEW t \in Tokens, Good(t, u)' PROVE token'[t].owned /\ Ends(t, u)'
  <2>1. t \in req'[r].pending /\ token'[t].owned  BY <1>1, <1>2, <1>3, <1>5
  <2> QED  BY <1>1, <2>1 DEF Ends, At
<1> QED  BY <1>1, <1>2, <1>4, <1>5, SessionSweep

LEMMA SessionBlacklist ==
    ASSUME BaseInv, [Next]_vars, NEW r \in Requests, ResetBlacklist(r), NEW u \in Users,
           user[u] # None, user'[u] # None, SessionOf(u), req[r].user = u
    PROVE  SessionOf(u)'
<1>0. Holding(r)  BY DEF BaseInv
<1>1. /\ req[r].pc = "blacklist" /\ req'[r].pc = "idle"
      /\ \A q \in Requests \ {r} : Same(q) /\ (req[q].user = u => req'[q].raced)
      /\ \A t \in Tokens : t \in req[r].pending => token'[t].blacklisted
  BY ResetBlacklistShape
<1>2. ASSUME NEW t \in Tokens, Good(t, u)' PROVE Good(t, u) /\ token'[t] = token[t]
  <2>1. token[t] = None => token'[t] = None
    BY <1>0 DEF ResetBlacklist, Blacklist, Holding
  <2>2. token'[t] # None  BY <1>2 DEF Good, Usable
  <2> QED  BY <1>2, <2>1, <2>2, GoodWas
<1>3. ASSUME NEW t \in Tokens, Good(t, u)' PROVE token'[t].owned /\ Ends(t, u)'
  <2>1. Good(t, u) /\ token'[t] = token[t]  BY <1>2, <1>3
  <2>2. t \notin req[r].pending  BY <1>1, <1>3 DEF Good, Usable
  <2>3. token[t].raced /\ token[t].owned  BY <1>1, <2>1, <2>2 DEF SessionOf, Covered
  <2> QED  BY <2>1, <2>3 DEF Ends
<1>4. Covered(r, u)'  BY <1>1 DEF Covered
<1> QED  BY <1>1, <1>2, <1>3, <1>4, SessionSweep

LEMMA SessionCommit ==
    ASSUME BaseInv, [Next]_vars, NEW r \in Requests, ChangeCommit(r), NEW u \in Users,
           user[u] # None, user'[u] # None, SessionOf(u), req[r].user = u
    PROVE  SessionOf(u)'
<1>0. TypeOK /\ OneCommit  BY DEF BaseInv
<1>1. /\ req[r].pc = "commit" /\ user[u] \in Row
      /\ passwords + 1 \in Password
      /\ user' = [user EXCEPT ![u] = [user[u] EXCEPT !.password = passwords + 1]]
      /\ req' = [Overlapped(u, r) EXCEPT ![r] = Idle]
  BY ChangeCommitShape
<1>2. PICK n \in Tokens :
        /\ token[n] = None /\ token'[n] \in Token
        /\ token'[n].user = req[r].user /\ token'[n].root = passwords + 1
        /\ token'[n].owned
        /\ \A q \in Requests \ {r} :
             req[q].pc = "blacklist" /\ req[q].user = req[r].user => token'[n].raced
        /\ \A s \in Tokens \ {n} :
             /\ token[s] = None => token'[s] = None
             /\ token[s] # None => Marked(s)
             /\ s \in req[r].pending => token'[s].blacklisted
  BY ChangeCommitShape
<1>3. /\ req'[r].pc = "idle"
      /\ \A q \in Requests \ {r} : Same(q) /\ (req[q].user = u => req'[q].raced)
  BY <1>0, <1>1, SweptShape
<1>4. user'[u].password = passwords + 1
  <2>1. [user[u] EXCEPT !.password = passwords + 1].password = passwords + 1
    BY <1>1 DEF Row
  <2>2. user'[u] = [user[u] EXCEPT !.password = passwords + 1]
    BY <1>0, <1>1 DEF TypeOK
  <2> QED  BY <2>1, <2>2
<1>5. Ends(n, u)'
  <2>1. token'[n].root >= user'[u].password  BY <1>1, <1>2, <1>4 DEF Password
  <2> QED  BY <2>1 DEF Ends
<1>6. \A q \in Requests \ {r} :
        req[q].pc \in {"blacklist", "commit"} /\ req[q].user = u => token'[n].raced
  BY <1>0, <1>1, <1>2 DEF OneCommit, At
<1>7. ASSUME NEW t \in Tokens, Good(t, u)', t # n
      PROVE  Good(t, u) /\ token'[t] = token[t] /\ token'[t].owned /\ Ends(t, u)'
  <2>1. token'[t] # None /\ ~token'[t].blacklisted  BY <1>7 DEF Good, Usable
  <2>2. Good(t, u) /\ token'[t] = token[t]  BY <1>2, <1>7, <2>1, GoodWas
  <2>3. t \notin req[r].pending  BY <1>2, <1>7, <2>1
  <2>4. token[t].raced /\ token[t].owned  BY <1>1, <2>2, <2>3 DEF SessionOf, Covered
  <2> QED  BY <2>2, <2>4 DEF Ends
<1>8. Covered(r, u)'  BY <1>3 DEF Covered
<1>9. \A t \in Tokens : Good(t, u)' =>
        /\ token'[t].owned /\ Ends(t, u)'
        /\ \/ Good(t, u) /\ token'[t] = token[t]
           \/ \A q \in Requests \ {r} :
                req[q].pc \in {"blacklist", "commit"} /\ req[q].user = u => token'[t].raced
  BY <1>2, <1>5, <1>6, <1>7
<1> QED  BY <1>3, <1>8, <1>9, SessionSweep

LEMMA SessionCrash ==
    ASSUME BaseInv, [Next]_vars, NEW r \in Requests, Crash(r), NEW u \in Users,
           user[u] # None, user'[u] # None, SessionOf(u)
    PROVE  SessionOf(u)'
<1>0. TypeOK  BY DEF BaseInv
<1>1. /\ UNCHANGED <<user, token>> /\ Answer(r) /\ unswept \subseteq unswept'
      /\ req[r].pc \in {"sweep", "blacklist"} => req[r].user \in unswept'
  BY CrashShape
<1>2. req'[r].pc = "idle" /\ \A q \in Requests \ {r} : Same(q)  BY <1>0, <1>1, AnswerShape
<1>3. Calm(u)
  <2>1. CASE req[r].pc \in {"sweep", "blacklist"} /\ req[r].user = u
    BY <1>1, <2>1 DEF Calm, Due
  <2>2. CASE ~(req[r].pc \in {"sweep", "blacklist"} /\ req[r].user = u)
    BY <1>1, <1>2, <2>2, CalmMoved
  <2> QED  BY <2>1, <2>2
<1> QED  BY <1>1, <1>2, <1>3, NothingToShow, SessionMoved

\* What happens outside requests.
LEMMA SessionOutside ==
    ASSUME BaseInv, [Next]_vars, NEW u \in Users, user[u] # None, user'[u] # None, SessionOf(u),
           UNCHANGED <<req, unswept>>, user'[u].password = user[u].password,
           \A t \in Tokens : token[t] = None => token'[t] = None
    PROVE  SessionOf(u)'
<1>1. \A q \in Requests : Same(q)  BY DEF Same
<1>2. Calm(u)  BY DEF Calm, Due, Same, At
<1>3. ASSUME NEW t \in Tokens, Good(t, u)' PROVE Good(t, u) /\ token'[t] = token[t]
  <2>1. token'[t] # None  BY <1>3 DEF Good, Usable
  <2> QED  BY <1>3, <2>1, GoodWas
<1>4. ASSUME NEW t \in Tokens, Good(t, u)' PROVE token'[t].owned /\ Ends(t, u)'
  <2>1. Good(t, u) /\ token'[t] = token[t]  BY <1>3, <1>4
  <2>2. token[t].owned /\ Ends(t, u)  BY <2>1 DEF SessionOf
  <2> QED  BY <1>2, <2>1, <2>2, EndsKept
<1>5. ASSUME NEW q \in Requests PROVE Covered(q, u)' /\ Coming(q, u)'
  <2>1. Same(q) /\ Covered(q, u) /\ Coming(q, u)  BY <1>1 DEF SessionOf
  <2> QED  BY <1>2, <1>3, <2>1, CoveredKept, ComingKept
<1> QED  BY <1>4, <1>5 DEF SessionOf

\* An account that has just been registered has no session.
LEMMA SessionFirst ==
    ASSUME BaseInv, [Next]_vars, NEW u \in Users, u \notin known, user'[u] # None
    PROVE  SessionOf(u)'
<1>0. TypeOK  BY DEF BaseInv
<1>1. user[u] = None /\ ~UNCHANGED user  BY DEF BaseInv
<1>2. PICK r \in Requests : Proceed(r)
  <2>1. ASSUME NEW v \in Users, AdminDelete(v) PROVE FALSE
    <3>1. user' = [user EXCEPT ![v] = None]  BY <1>0, <2>1, AdminDeleteShape
    <3> QED  BY <1>0, <1>1, <3>1 DEF TypeOK
  <2> QED  BY <1>0, <1>1, <2>1, BeginShape, CrashShape, MailShape, RequestLinkShape,
              LinkGoesShape DEF Next, vars, accounts
<1>3. RegisterInsert(r)
  <2>1. CASE req[r].pc # "register"
    <3>1. req[r].pc \notin {"idle", "register"}
      BY <1>2, <2>1 DEF Proceed, RegisterInsert, ConfirmUpdate, VerifyUpdate, Rotate, Mint,
           ResetSave, ResetSelect, ResetBlacklist, ChangeSelect, ChangeCommit, RowSave,
           AdminPasswordSave, DeleteUserAccount, At
    <3>2. req[r].user \in known /\ req[r].user \in Users
      BY <1>0, <3>1 DEF BaseInv, Holding, TypeOK
    <3>3. PICK v \in Users : v = req[r].user  BY <3>2
    <3>4. \/ UNCHANGED user \/ \E new : user' = [user EXCEPT ![v] = new]
      <4>1. ~RegisterInsert(r)  BY <2>1 DEF RegisterInsert, At
      <4>2. CASE ConfirmUpdate(r)  BY <3>3, <4>2, ConfirmUpdateShape
      <4>3. CASE ResetSave(r)  BY <3>3, <4>3, ResetSaveShape
      <4>4. CASE ChangeCommit(r)  BY <3>3, <4>4, ChangeCommitShape
      <4>5. CASE SavesRow(r)  BY <3>3, <4>5, SavesRowShape
      <4>6. CASE DeleteUserAccount(r)  BY <3>3, <4>6, DeleteShape
      <4> QED  BY <1>2, <4>1, <4>2, <4>3, <4>4, <4>5, <4>6, VerifyUpdateShape, RotateShape,
                  MintShape, SelectStepsShape, ResetBlacklistShape DEF Proceed, SavesRow
    <3>5. u # v  BY <3>2, <3>3
    <3> QED  BY <1>0, <1>1, <3>4, <3>5 DEF TypeOK
  <2>2. CASE req[r].pc = "register"
    BY <1>2, <2>2 DEF Proceed, ConfirmUpdate, VerifyUpdate, Rotate, Mint,
           ResetSave, ResetSelect, ResetBlacklist, ChangeSelect, ChangeCommit, RowSave,
           AdminPasswordSave, DeleteUserAccount, At
  <2> QED  BY <2>1, <2>2
<1>4. UNCHANGED token /\ Answer(r)  BY <1>0, <1>3, RegisterInsertShape
<1>5. req'[r].pc = "idle" /\ \A q \in Requests \ {r} : req'[q] = req[q]
  BY <1>0, <1>4, AnswerShape
<1>6. \A t \in Tokens : ~Good(t, u)'  BY <1>4 DEF Good, Usable, BaseInv
<1>7. ASSUME NEW q \in Requests PROVE Covered(q, u)' /\ Coming(q, u)'
  <2>1. \/ req'[q].user # u
        \/ req'[q].pc \notin {"confirm", "verify", "mint", "rotate", "blacklist", "commit"}
    BY <1>5 DEF BaseInv, Holding
  <2> QED  BY <2>1, NothingToShow
<1> QED  BY <1>6, <1>7 DEF SessionOf

LEMMA SessionStep == BaseInv /\ SessionInv /\ [Next]_vars => SessionInv'
<1> SUFFICES ASSUME BaseInv, SessionInv, [Next]_vars,
                    NEW u \in Users, user'[u] # None, u \notin restored'
             PROVE  SessionOf(u)'
  BY DEF SessionInv
<1>0. TypeOK  BY DEF BaseInv
<1>1. u \notin restored  BY Grows
<1>2. CASE u \notin known  BY <1>2, SessionFirst
<1>3. CASE u \in known
  <2>1. user[u] # None
    <3>1. CASE \E r \in Requests : SavesRow(r) /\ req[r].user = u
      <4>1. PICK r \in Requests : SavesRow(r) /\ req[r].user = u  BY <3>1
      <4> QED  BY <4>1, SavesRowShape
    <3>2. CASE ~\E r \in Requests : SavesRow(r) /\ req[r].user = u
      <4>1. Kept(u)  BY <3>2, KeptByAll
      <4> QED  BY <1>3, <4>1 DEF Kept
    <3> QED  BY <3>1, <3>2
  <2>2. SessionOf(u)  BY <1>1, <2>1 DEF SessionInv
  <2>3. ASSUME NEW r \in Requests, Proceed(r) PROVE SessionOf(u)'
    <3>1. CASE req[r].user # u  BY <2>1, <2>2, <2>3, <3>1, SessionElse
    <3>2. CASE req[r].user = u
      <4>1. ~RegisterInsert(r) \/ SessionOf(u)'
        <5>1. SUFFICES ASSUME RegisterInsert(r) PROVE SessionOf(u)'
          OBVIOUS
        <5>2. req[r].pc = "register" /\ UNCHANGED <<token, unswept>> /\ Answer(r)
          BY <1>0, <5>1, RegisterInsertShape DEF RegisterInsert, At
        <5>3. req'[r].pc = "idle" /\ \A q \in Requests \ {r} : Same(q)
          BY <1>0, <5>2, AnswerShape
        <5>4. PICK v \in Users \ known :
                \/ UNCHANGED user
                \/ \E new \in Row : user' = [user EXCEPT ![v] = new]
          BY <1>0, <5>1, RegisterInsertShape
        <5>5. user'[u] = user[u]  BY <1>0, <1>3, <5>4 DEF TypeOK
        <5>6. Calm(u)  BY <5>2, <5>3, <5>5, CalmMoved
        <5> QED  BY <2>2, <5>2, <5>3, <5>6, NothingToShow, SessionMoved
      <4>2. ~DeleteUserAccount(r)
        <5>1. SUFFICES ASSUME DeleteUserAccount(r) PROVE FALSE
          OBVIOUS
        <5>2. user' = [user EXCEPT ![u] = None]  BY <3>2, <5>1, DeleteShape
        <5> QED  BY <1>0, <5>2 DEF TypeOK
      <4> QED  BY <2>1, <2>2, <2>3, <3>2, <4>1, <4>2, SessionCalm, SessionSaved,
                  SessionMint, SessionSelect, SessionBlacklist, SessionCommit
              DEF Proceed, SavesRow
    <3> QED  BY <3>1, <3>2
  <2>4. ASSUME NEW v \in Users, AdminDelete(v) PROVE SessionOf(u)'
    <3>1. /\ UNCHANGED <<req, unswept>> /\ user' = [user EXCEPT ![v] = None]
          /\ \A t \in Tokens : token[t] = None => token'[t] = None
      BY <1>0, <2>4, AdminDeleteShape
    <3>2. user'[u].password = user[u].password  BY <1>0, <3>1 DEF TypeOK
    <3> QED  BY <2>1, <2>2, <3>1, <3>2, SessionOutside
  <2>5. CASE \/ UNCHANGED vars
             \/ \E v \in Users : Resend(v) \/ RequestLink(v) \/ RequestReset(v)
             \/ \E t \in Tokens : Logout(t) \/ TokenExpires(t)
             \/ \E l \in Links : LinkExpires(l)
             \/ \E m \in mailed : MailExpires(m)
             \/ Flush
    <3>1. UNCHANGED <<user, req, unswept>>
      BY <1>0, <2>5, MailShape, RequestLinkShape, LinkGoesShape
         DEF vars, accounts, ghosts
    <3>2. \A t \in Tokens : token[t] = None => token'[t] = None
      <4>1. ASSUME NEW x \in Tokens, Logout(x) \/ TokenExpires(x)
            PROVE  \A t \in Tokens : token[t] = None => token'[t] = None
        <5>1. /\ token[x] # None
              /\ \/ token' = [token EXCEPT ![x].blacklisted = TRUE]
                 \/ token' = [token EXCEPT ![x].expired = TRUE]
          BY <4>1 DEF Logout, TokenExpires, Usable
        <5> QED  BY <1>0, <5>1 DEF TypeOK
      <4>2. CASE UNCHANGED token  BY <4>2
      <4>3. CASE Flush  BY <4>3 DEF Flush
      <4> QED  BY <2>5, <4>1, <4>2, <4>3 DEF Resend, RequestReset, MailExpires, RequestLink,
                  LinkExpires, vars
    <3> QED  BY <2>1, <2>2, <3>1, <3>2, SessionOutside
  <2> QED  BY <2>1, <2>2, <2>3, <2>4, <2>5, SessionBegin, SessionCrash DEF Next
<1> QED  BY <1>2, <1>3

\* A session opened with an earlier password can no longer be refreshed once the
\* sweep of the reset or of the change is over, except by a token whose request
\* overlapped it: a sweep finds every token that works, the requests that run
\* when it starts and when it ends are those that may slip through, a password
\* set in the admin waits for the next sweep, and only a save of the whole row can
\* put an old password, or the account, back.
THEOREM SessionsCorrect == Spec => []SessionsEndWithPassword
<1>1. Init => SessionInv
  <2> SUFFICES ASSUME Init PROVE SessionInv
    OBVIOUS
  <2>1. \A r \in Requests : req[r].pc = "idle"  BY DEF Init, Idle
  <2>2. \A t \in Tokens : token[t] = None  BY DEF Init
  <2> QED  BY <2>1, <2>2 DEF SessionInv, SessionOf, Good, Usable, Covered, Coming
<1>2. BaseInv /\ SessionInv => SessionsEndWithPassword
  <2> SUFFICES ASSUME BaseInv, SessionInv, NEW t \in Tokens, Usable(t),
                      user[token[t].user] # None, token[t].user \notin restored
               PROVE  \/ token[t].root >= user[token[t].user].password
                      \/ token[t].raced
                      \/ token[t].user \in unswept
                      \/ \E r \in Requests : /\ req[r].user = token[t].user
                                             /\ req[r].pc \in {"sweep", "blacklist"}
    BY DEF SessionsEndWithPassword
  <2>1. PICK u \in Users : u = token[t].user  BY DEF BaseInv, TypeOK, Usable
  <2>2. Good(t, u)  BY <2>1 DEF Good
  <2>3. Ends(t, u)  BY <2>1, <2>2 DEF SessionInv, SessionOf
  <2> QED  BY <2>1, <2>3 DEF Ends, Due, At
<1> QED  BY <1>1, <1>2, BaseCorrect, SessionStep, PTL DEF Spec
=============================================================================
