------------------------------ MODULE Accounts ------------------------------
(***************************************************************************)
(* The accounts of one email address and their sessions (accounts/): the   *)
(* registration and its confirmation, the sign-in with a password or with  *)
(* a mailed link, the rotation of refresh tokens, the logout, the reset    *)
(* and the change of the password, which end the sessions, the profile,    *)
(* what a superuser edits (PATCH, admin), the erasure of the account, and  *)
(* the task that flushes expired tokens.                                   *)
(*                                                                         *)
(* No handler locks what it reads, the superuser's PATCH and the admin,    *)
(* which run in a transaction, included: it is old when they write, except *)
(* in the password change and in the erasure.  A password is the number of *)
(* its hash, so that each one set is new.                                  *)
(***************************************************************************)
EXTENDS Integers, FiniteSets, FiniteSetsExt

CONSTANTS
    Users,          \* primary keys of User, for one email address
    Requests,       \* requests that run at the same time
    Tokens,         \* refresh tokens (jti)
    Links,          \* rows of MagicLinkToken
    MaxPasswords,   \* bound: passwords set
    MaxRequests,    \* bound: requests that go past their first check
    MaxCrashes,     \* bound: processes that die in a request
    MaxChanges,     \* bound: lifetimes that run out, deletions in the admin
    None

ASSUME IdsAssumption ==
    /\ Users \subseteq Nat /\ Tokens \subseteq Nat /\ Links \subseteq Nat
    /\ IsFiniteSet(Users) /\ IsFiniteSet(Tokens) /\ IsFiniteSet(Links)
    /\ Users # {}
ASSUME BoundsAssumption ==
    /\ MaxPasswords \in Nat \ {0} /\ MaxRequests \in Nat
    /\ MaxCrashes \in Nat /\ MaxChanges \in Nat

VARIABLES
    user,       \* per key: the row, or None
    known,      \* keys the sequence has given out
    passwords,  \* how many passwords were set
    token,      \* per refresh token: what was issued, or None
    link,       \* per sign-in link: its row, or None
    mailed,     \* confirmation and reset links that were mailed and are in date
    req,        \* per request: where it is
    served,     \* how many requests there were
    crashes, changes,
    opened,     \* per sign-in link: sessions it opened
    confirmed,  \* per user: sessions opened by confirming the address
    unswept,    \* users whose password was set without a sweep: in the admin, or
                \* by a reset that then died
    restored    \* users a save of the whole row brought back, or gave an earlier
                \* password, or made unconfirmed again

accounts == <<user, known, passwords>>
bounds == <<crashes, changes>>
ghosts == <<opened, confirmed, unswept, restored>>
vars == <<accounts, token, link, mailed, req, served, bounds, ghosts>>

Password == 1 .. MaxPasswords
Row == [password : Password, confirmed : BOOLEAN, active : BOOLEAN]
\* root: the password the session goes back to; owned: OutstandingToken.user is
\* not NULL; raced: a request that overlapped the end of the sessions made it.
Token == [user : Users, root : Password, owned : BOOLEAN,
          blacklisted : BOOLEAN, expired : BOOLEAN, raced : BOOLEAN]
Link == [user : Users, used : BOOLEAN, expired : BOOLEAN]
Mailed == [for : {"confirm", "reset"}, user : Users, password : Password]

PC == {"idle", "register", "confirm", "verify", "mint", "rotate", "reset",
       "sweep", "blacklist", "change", "commit", "save", "setpassword", "erase"}
\* row: the user as it was read, or edited; of: the token or link presented; pending: the
\* tokens a sweep has selected.
Request == [pc : PC, user : Users \cup {None}, row : Row \cup {None},
            of : Tokens \cup Links \cup {None}, pending : SUBSET Tokens,
            raced : BOOLEAN]
Idle == [pc |-> "idle", user |-> None, row |-> None, of |-> None,
         pending |-> {}, raced |-> FALSE]

TypeOK ==
    /\ user \in [Users -> Row \cup {None}]
    /\ known \in SUBSET Users
    /\ passwords \in 0 .. MaxPasswords
    /\ token \in [Tokens -> Token \cup {None}]
    /\ link \in [Links -> Link \cup {None}]
    /\ mailed \in SUBSET Mailed
    /\ req \in [Requests -> Request]
    /\ served \in 0 .. MaxRequests
    /\ crashes \in 0 .. MaxCrashes
    /\ changes \in 0 .. MaxChanges
    /\ opened \in [Links -> Nat]
    /\ confirmed \in [Users -> Nat]
    /\ unswept \in SUBSET Users
    /\ restored \in SUBSET Users

ASSUME NoneAssumption ==
    /\ None \notin Users /\ None \notin Tokens /\ None \notin Links
    /\ None \notin Row /\ None \notin Token /\ None \notin Link

Live == {u \in Users : user[u] # None}

\* Nobody has registered, or the first user is an account older than the
\* confirmation of addresses, which the migration marked confirmed.
Init ==
    /\ \/ /\ user = [u \in Users |-> None]
          /\ known = {}
          /\ passwords = 0
       \/ /\ user = [u \in Users |-> IF u = Min(Users)
                        THEN [password |-> 1, confirmed |-> TRUE, active |-> TRUE]
                        ELSE None]
          /\ known = {Min(Users)}
          /\ passwords = 1
    /\ token = [t \in Tokens |-> None]
    /\ link = [l \in Links |-> None]
    /\ mailed = {}
    /\ req = [r \in Requests |-> Idle]
    /\ served = 0
    /\ crashes = 0
    /\ changes = 0
    /\ opened = [l \in Links |-> 0]
    /\ confirmed = [u \in Users |-> 0]
    /\ unswept = {}
    /\ restored = {}

-----------------------------------------------------------------------------
(* Requests *)

At(r, pc) == req[r].pc = pc

Start(r, pc, u, of) ==
    /\ At(r, "idle")
    /\ served < MaxRequests
    /\ served' = served + 1
    /\ req' = [req EXCEPT ![r] = [Idle EXCEPT !.pc = pc, !.user = u, !.of = of,
                  !.row = IF u = None THEN None ELSE user[u]]]

Continue(r, pc) == req' = [req EXCEPT ![r].pc = pc]
Answer(r) == req' = [req EXCEPT ![r] = Idle]

\* The row of u is locked by the transaction of a password change.
RowLocked(u) == \E r \in Requests : At(r, "commit") /\ req[r].user = u

\* A sweep has selected the tokens it will blacklist and has yet to do it.
Sweeping(u) ==
    \E r \in Requests : req[r].pc \in {"commit", "blacklist"} /\ req[r].user = u

\* The requests under way for u overlap the end of its sessions.
Overlapped(u, rs) ==
    [q \in Requests |-> IF q # rs /\ req[q].user = u
                        THEN [req[q] EXCEPT !.raced = TRUE] ELSE req[q]]

\* EmailBackend.user_can_authenticate, and the same test of every other way in.
CanAuthenticate(u) == user[u] # None /\ user[u].active

\* What a mailed link proves: it is signed with the password hash of its user,
\* so a new password makes it void.
Proof(purpose, u) == [for |-> purpose, user |-> u, password |-> user[u].password]

\* JWTAuthentication: an access token, issued with a refresh token and good
\* until it expires whatever becomes of that one, of an active user.
Authenticated(u) ==
    /\ CanAuthenticate(u)
    /\ \E t \in Tokens : token[t] # None /\ token[t].user = u

-----------------------------------------------------------------------------
(* Registration and confirmation *)

\* RegisterApiView up to the look-up: an address that is taken gets a notice
\* and the same answer.
Register(r) ==
    /\ Live = {}
    /\ Start(r, "register", None, None)
    /\ UNCHANGED <<accounts, token, link, mailed, bounds, ghosts>>

\* RegisterSerializer.create and send_confirmation_email; an address that was
\* taken in between is refused by the unique column, an error to the caller.
RegisterInsert(r) ==
    LET u == Min(Users \ known)
    IN  /\ At(r, "register")
        /\ Users \ known # {}
        /\ passwords < MaxPasswords
        /\ known' = known \cup {u}
        /\ IF Live = {}
           THEN /\ passwords' = passwords + 1
                /\ user' = [user EXCEPT ![u] = [password |-> passwords + 1,
                                confirmed |-> FALSE, active |-> TRUE]]
                /\ mailed' = mailed \cup {[for |-> "confirm", user |-> u,
                                           password |-> passwords + 1]}
           ELSE UNCHANGED <<user, passwords, mailed>>
        /\ Answer(r)
        /\ UNCHANGED <<token, link, served, bounds, ghosts>>

\* resend_confirmation_email
Resend(u) ==
    /\ CanAuthenticate(u)
    /\ ~user[u].confirmed
    /\ mailed' = mailed \cup {Proof("confirm", u)}
    /\ UNCHANGED <<accounts, token, link, req, served, bounds, ghosts>>

\* confirm_email up to its update: the link is of this password and the
\* address is not confirmed.
Confirm(r, u) ==
    /\ CanAuthenticate(u)
    /\ ~user[u].confirmed
    /\ Proof("confirm", u) \in mailed
    /\ Start(r, "confirm", u, None)
    /\ UNCHANGED <<accounts, token, link, mailed, bounds, ghosts>>

\* The conditional update of confirm_email.
ConfirmUpdate(r) ==
    LET u == req[r].user
    IN  /\ At(r, "confirm")
        /\ ~RowLocked(u)
        /\ IF user[u] # None /\ user[u].confirmed = FALSE
           THEN /\ user' = [user EXCEPT ![u].confirmed = TRUE]
                /\ confirmed' = [confirmed EXCEPT ![u] = @ + 1]
                /\ Continue(r, "mint")
           ELSE Answer(r) /\ UNCHANGED <<user, confirmed>>
        /\ UNCHANGED <<known, passwords, token, link, mailed, served, bounds,
                       opened, unswept, restored>>

-----------------------------------------------------------------------------
(* Sessions *)

\* LoginApiView: EmailBackend.authenticate with the right password, then the
\* gate on the confirmed address.
Login(r, u) ==
    /\ CanAuthenticate(u)
    /\ user[u].confirmed
    /\ Start(r, "mint", u, None)
    /\ UNCHANGED <<accounts, token, link, mailed, bounds, ghosts>>

\* request_magic_link
RequestLink(u) ==
    LET l == Min({k \in Links : link[k] = None /\ opened[k] = 0})
    IN  /\ CanAuthenticate(u)
        /\ user[u].confirmed
        /\ \E k \in Links : link[k] = None /\ opened[k] = 0
        /\ link' = [link EXCEPT ![l] = [user |-> u, used |-> FALSE, expired |-> FALSE]]
        /\ UNCHANGED <<accounts, token, mailed, req, served, bounds, ghosts>>

\* MagicLinkToken.is_valid
IsValid(l) == ~link[l].used /\ ~link[l].expired

\* verify_magic_link up to its update: the row and its user are read.
Verify(r, l) ==
    /\ link[l] # None
    /\ IsValid(l)
    /\ Start(r, "verify", link[l].user, l)
    /\ UNCHANGED <<accounts, token, link, mailed, bounds, ghosts>>

\* Mutant: the update has no condition.
VerifyUpdateAnyway(r) ==
    LET l == req[r].of
    IN  /\ At(r, "verify")
        /\ link[l] # None
        /\ link' = [link EXCEPT ![l].used = TRUE]
        /\ opened' = [opened EXCEPT ![l] = @ + 1]
        /\ req' = [req EXCEPT ![r].pc = "mint", ![r].of = None]
        /\ UNCHANGED <<accounts, token, mailed, served, bounds, confirmed, unswept,
                       restored>>

\* Its conditional update: used by another request, expired or flushed in
\* between, the link opens nothing.
VerifyUpdate(r) ==
    LET l == req[r].of
    IN  /\ At(r, "verify")
        /\ IF link[l] # None /\ IsValid(l)
           THEN /\ link' = [link EXCEPT ![l].used = TRUE]
                /\ opened' = [opened EXCEPT ![l] = @ + 1]
                /\ req' = [req EXCEPT ![r].pc = "mint", ![r].of = None]
           ELSE Answer(r) /\ UNCHANGED <<link, opened>>
        /\ UNCHANGED <<accounts, token, mailed, served, bounds, confirmed, unswept,
                       restored>>

Usable(t) ==
    token[t] # None /\ ~token[t].blacklisted /\ ~token[t].expired

\* TokenRefreshSerializer: the token is good and its user exists and is active.
Refresh(r, t) ==
    /\ Usable(t)
    /\ CanAuthenticate(token[t].user)
    /\ Start(r, "rotate", token[t].user, t)
    /\ UNCHANGED <<accounts, token, link, mailed, bounds, ghosts>>

\* ... refresh.blacklist(): no matter if another request has done it.
Rotate(r) ==
    /\ At(r, "rotate")
    /\ token' = [token EXCEPT ![req[r].of].blacklisted = TRUE]
    /\ Continue(r, "mint")
    /\ UNCHANGED <<accounts, link, mailed, served, bounds, ghosts>>

\* The refresh token of a session. RefreshToken.for_user needs the row of its
\* user (a foreign key); outstand(), of a rotation, stores NULL when it is gone.
Mint(r) ==
    LET u == req[r].user
        from == req[r].of
        t == Min({s \in Tokens : token[s] = None})
        fresh == [user |-> u,
                  root |-> IF from = None THEN req[r].row.password ELSE token[from].root,
                  owned |-> user[u] # None,
                  blacklisted |-> FALSE, expired |-> FALSE,
                  raced |-> \/ req[r].raced
                            \/ Sweeping(u)
                            \/ IF from = None THEN FALSE ELSE token[from].raced]
    IN  /\ At(r, "mint")
        /\ \E s \in Tokens : token[s] = None
        /\ token' = IF user[u] = None /\ from = None THEN token
                    ELSE [token EXCEPT ![t] = fresh]
        /\ Answer(r)
        /\ UNCHANGED <<accounts, link, mailed, served, bounds, ghosts>>

\* LogoutApiView
Logout(t) ==
    /\ Usable(t)
    /\ token' = [token EXCEPT ![t].blacklisted = TRUE]
    /\ UNCHANGED <<accounts, link, mailed, req, served, bounds, ghosts>>

-----------------------------------------------------------------------------
(* Passwords *)

\* The outstanding tokens of u that are not blacklisted.
Pending(u) ==
    {t \in Tokens : token[t] # None /\ token[t].user = u /\ token[t].owned
                        /\ ~token[t].blacklisted}

Blacklist(ts) ==
    [t \in Tokens |-> IF t \in ts THEN [token[t] EXCEPT !.blacklisted = TRUE]
                      ELSE token[t]]

\* request_password_reset
RequestReset(u) ==
    /\ CanAuthenticate(u)
    /\ mailed' = mailed \cup {Proof("reset", u)}
    /\ UNCHANGED <<accounts, token, link, req, served, bounds, ghosts>>

\* confirm_password_reset up to the check: the link is of the current password.
Reset(r, u) ==
    /\ CanAuthenticate(u)
    /\ Proof("reset", u) \in mailed
    /\ Start(r, "reset", u, None)
    /\ UNCHANGED <<accounts, token, link, mailed, bounds, ghosts>>

\* Mutant: save() without update_fields.
ResetSaveWholeRow(r) ==
    LET u == req[r].user
    IN  /\ At(r, "reset")
        /\ ~RowLocked(u)
        /\ passwords < MaxPasswords
        /\ user' = [user EXCEPT ![u] = [req[r].row EXCEPT !.password = passwords + 1]]
        /\ passwords' = passwords + 1
        /\ Continue(r, "sweep")
        /\ UNCHANGED <<known, token, link, mailed, served, bounds, ghosts>>

\* ... the save of the password alone; an error when the row is gone.
ResetSave(r) ==
    LET u == req[r].user
    IN  /\ At(r, "reset")
        /\ ~RowLocked(u)
        /\ passwords < MaxPasswords
        /\ IF user[u] = None
           THEN Answer(r) /\ UNCHANGED <<user, passwords>>
           ELSE /\ user' = [user EXCEPT ![u].password = passwords + 1]
                /\ passwords' = passwords + 1
                /\ Continue(r, "sweep")
        /\ UNCHANGED <<known, token, link, mailed, served, bounds, ghosts>>

\* _revoke_refresh_tokens: the pending tokens are read ...
ResetSelect(r) ==
    LET u == req[r].user
    IN  /\ At(r, "sweep")
        /\ req' = [Overlapped(u, r) EXCEPT ![r].pc = "blacklist", ![r].pending = Pending(u)]
        /\ UNCHANGED <<accounts, token, link, mailed, served, bounds, ghosts>>

\* Mutant: the tokens are not blacklisted.
ResetBlacklistNone(r) ==
    LET u == req[r].user
    IN  /\ At(r, "blacklist")
        /\ req' = [Overlapped(u, r) EXCEPT ![r] = Idle]
        /\ unswept' = unswept \ {u}
        /\ UNCHANGED <<accounts, token, link, mailed, served, bounds, opened, confirmed,
                       restored>>

\* ... and blacklisted.
ResetBlacklist(r) ==
    LET u == req[r].user
    IN  /\ At(r, "blacklist")
        /\ token' = Blacklist(req[r].pending)
        /\ req' = [Overlapped(u, r) EXCEPT ![r] = Idle]
        /\ unswept' = unswept \ {u}
        /\ UNCHANGED <<accounts, link, mailed, served, bounds, opened, confirmed,
                       restored>>

\* PasswordChangeApiView: the user of the access token and its password.
Change(r, u) ==
    /\ Authenticated(u)
    /\ Start(r, "change", u, None)
    /\ UNCHANGED <<accounts, token, link, mailed, bounds, ghosts>>

\* change_password_and_rotate_sessions, in its transaction: the update locks the
\* row, and the pending tokens are read ...
ChangeSelect(r) ==
    LET u == req[r].user
    IN  /\ At(r, "change")
        /\ ~RowLocked(u)
        /\ IF user[u] = None THEN Answer(r)
           ELSE req' = [Overlapped(u, r) EXCEPT ![r].pc = "commit", ![r].pending = Pending(u)]
        /\ UNCHANGED <<accounts, token, link, mailed, served, bounds, ghosts>>

\* ... and blacklisted, and the session that asked gets a new token: all of it
\* is seen by the others when the transaction commits.
ChangeCommit(r) ==
    LET u == req[r].user
        t == Min({s \in Tokens : token[s] = None})
    IN  /\ At(r, "commit")
        /\ passwords < MaxPasswords
        /\ \E s \in Tokens : token[s] = None
        /\ passwords' = passwords + 1
        /\ user' = [user EXCEPT ![u].password = passwords + 1]
        /\ token' = [Blacklist(req[r].pending) EXCEPT ![t] =
                        [user |-> u, root |-> passwords + 1, owned |-> TRUE,
                         blacklisted |-> FALSE, expired |-> FALSE,
                         raced |-> \E q \in Requests \ {r} :
                                     At(q, "blacklist") /\ req[q].user = u]]
        /\ req' = [Overlapped(u, r) EXCEPT ![r] = Idle]
        /\ unswept' = unswept \ {u}
        /\ UNCHANGED <<known, link, mailed, served, bounds, opened, confirmed, restored>>

-----------------------------------------------------------------------------
(* The profile, the erasure and the surroundings *)

\* MeApiView.patch: the language; the user was read with the access token.
Profile(r, u) ==
    /\ Authenticated(u)
    /\ Start(r, "save", u, None)
    /\ UNCHANGED <<accounts, token, link, mailed, bounds, ghosts>>

\* StaffUserDetailView.patch, by a superuser: the free access of any account,
\* read without a lock.
StaffPatch(r, u) ==
    /\ user[u] # None
    /\ Start(r, "save", u, None)
    /\ UNCHANGED <<accounts, token, link, mailed, bounds, ghosts>>

\* UserAdmin's form, read without a lock too: is_active is edited, password and
\* email_confirmed are not.
AdminForm(r, u) ==
    /\ user[u] # None
    /\ At(r, "idle")
    /\ served < MaxRequests
    /\ served' = served + 1
    /\ \E a \in BOOLEAN :
          req' = [req EXCEPT ![r] = [Idle EXCEPT !.pc = "save", !.user = u,
                                        !.row = [user[u] EXCEPT !.active = a]]]
    /\ UNCHANGED <<accounts, token, link, mailed, bounds, ghosts>>

\* The view of UserAdmin that sets a password.
AdminPassword(r, u) ==
    /\ user[u] # None
    /\ Start(r, "setpassword", u, None)
    /\ UNCHANGED <<accounts, token, link, mailed, bounds, ghosts>>

\* save() writes every column, and inserts the row when it is gone, unless the
\* address has another account by then.
SaveRow(u, row) ==
    IF Live \subseteq {u} THEN user' = [user EXCEPT ![u] = row] ELSE UNCHANGED user

\* Saving row brings u back, or makes it unconfirmed again.
PutsBack(u, row) ==
    /\ Live \subseteq {u}
    /\ \/ user[u] = None
       \/ user[u].confirmed /\ ~row.confirmed

\* serializer.save() of the two PATCHes, and the save of the admin's form.
RowSave(r) ==
    LET u == req[r].user
        row == req[r].row
    IN  /\ At(r, "save")
        /\ ~RowLocked(u)
        /\ SaveRow(u, row)
        /\ restored' = IF \/ PutsBack(u, row)
                          \/ user[u] # None /\ user[u].password # row.password
                       THEN restored \cup {u} ELSE restored
        /\ Answer(r)
        /\ UNCHANGED <<known, passwords, token, link, mailed, served, bounds,
                       opened, confirmed, unswept>>

\* The save of the view that sets a password: no refresh token is swept.
AdminPasswordSave(r) ==
    LET u == req[r].user
        row == [req[r].row EXCEPT !.password = passwords + 1]
    IN  /\ At(r, "setpassword")
        /\ ~RowLocked(u)
        /\ passwords < MaxPasswords
        /\ SaveRow(u, row)
        /\ passwords' = passwords + 1
        /\ unswept' = unswept \cup {u}
        /\ restored' = IF PutsBack(u, row) THEN restored \cup {u} ELSE restored
        /\ Answer(r)
        /\ UNCHANGED <<known, token, link, mailed, served, bounds, opened, confirmed>>

\* MeApiView.delete: the password is the one of the user that was read, and
\* billing has erased it.
Erase(r, u) ==
    /\ Authenticated(u)
    /\ Start(r, "erase", u, None)
    /\ UNCHANGED <<accounts, token, link, mailed, bounds, ghosts>>

\* delete_user_account: a transaction; the links go with the user, its
\* outstanding tokens stay, blacklisted and without a user.
DeleteUserAccount(r) ==
    LET u == req[r].user
    IN  /\ At(r, "erase")
        /\ ~RowLocked(u)
        /\ user' = [user EXCEPT ![u] = None]
        /\ token' = [t \in Tokens |->
                IF token[t] # None /\ token[t].user = u /\ token[t].owned
                THEN [token[t] EXCEPT !.blacklisted = TRUE, !.owned = FALSE]
                ELSE token[t]]
        /\ link' = [l \in Links |-> IF link[l] # None /\ link[l].user = u
                                    THEN None ELSE link[l]]
        /\ Answer(r)
        /\ UNCHANGED <<known, passwords, mailed, served, bounds, ghosts>>

\* The account is deleted in the admin: its links go, its refresh tokens stay,
\* without a user but not blacklisted.
AdminDelete(u) ==
    /\ user[u] # None
    /\ ~RowLocked(u)
    /\ user' = [user EXCEPT ![u] = None]
    /\ token' = [t \in Tokens |-> IF token[t] # None /\ token[t].user = u
                                  THEN [token[t] EXCEPT !.owned = FALSE] ELSE token[t]]
    /\ link' = [l \in Links |-> IF link[l] # None /\ link[l].user = u
                                THEN None ELSE link[l]]
    /\ changes < MaxChanges
    /\ changes' = changes + 1
    /\ UNCHANGED <<known, passwords, mailed, req, served, crashes, ghosts>>

\* Lifetimes run out.
TokenExpires(t) ==
    /\ token[t] # None
    /\ ~token[t].expired
    /\ token' = [token EXCEPT ![t].expired = TRUE]
    /\ changes < MaxChanges
    /\ changes' = changes + 1
    /\ UNCHANGED <<accounts, link, mailed, req, served, crashes, ghosts>>

LinkExpires(l) ==
    /\ link[l] # None
    /\ ~link[l].expired
    /\ link' = [link EXCEPT ![l].expired = TRUE]
    /\ changes < MaxChanges
    /\ changes' = changes + 1
    /\ UNCHANGED <<accounts, token, mailed, req, served, crashes, ghosts>>

MailExpires(m) ==
    /\ mailed' = mailed \ {m}
    /\ changes < MaxChanges
    /\ changes' = changes + 1
    /\ UNCHANGED <<accounts, token, link, req, served, crashes, ghosts>>

\* Mutant: the blacklist is emptied.
FlushedUnexpired(t) == token[t].blacklisted

\* A row of BlacklistedToken goes when its token has expired.
Flushed(t) == token[t].expired

\* flush_expired_tokens_task: the blacklist forgets a token, which is then good
\* again unless its own lifetime has run out; the links that open nothing go.
Flush ==
    /\ token' = [t \in Tokens |-> IF token[t] # None /\ Flushed(t)
                                  THEN [token[t] EXCEPT !.blacklisted = FALSE, !.owned = FALSE]
                                  ELSE token[t]]
    /\ link' = [l \in Links |-> IF link[l] # None /\ ~IsValid(l) THEN None ELSE link[l]]
    /\ UNCHANGED <<accounts, mailed, req, served, bounds, ghosts>>

\* The process dies in the request: a transaction is rolled back, what was
\* saved outside one stays.
Crash(r) ==
    /\ ~At(r, "idle")
    /\ crashes < MaxCrashes
    /\ crashes' = crashes + 1
    /\ Answer(r)
    /\ unswept' = IF req[r].pc \in {"sweep", "blacklist"}
                  THEN unswept \cup {req[r].user} ELSE unswept
    /\ UNCHANGED <<accounts, token, link, mailed, served, changes, opened, confirmed,
                   restored>>

-----------------------------------------------------------------------------
Begin(r) ==
    \/ Register(r)
    \/ \E u \in Users : \/ Confirm(r, u) \/ Login(r, u) \/ Reset(r, u)
                        \/ Change(r, u) \/ Profile(r, u) \/ Erase(r, u)
                        \/ StaffPatch(r, u) \/ AdminForm(r, u) \/ AdminPassword(r, u)
    \/ \E l \in Links : Verify(r, l)
    \/ \E t \in Tokens : Refresh(r, t)

Proceed(r) ==
    \/ RegisterInsert(r)
    \/ ConfirmUpdate(r)
    \/ VerifyUpdate(r)
    \/ Rotate(r)
    \/ Mint(r)
    \/ ResetSave(r)
    \/ ResetSelect(r)
    \/ ResetBlacklist(r)
    \/ ChangeSelect(r)
    \/ ChangeCommit(r)
    \/ RowSave(r)
    \/ AdminPasswordSave(r)
    \/ DeleteUserAccount(r)

Next ==
    \/ \E r \in Requests : Begin(r) \/ Proceed(r) \/ Crash(r)
    \/ \E u \in Users : Resend(u) \/ RequestLink(u) \/ RequestReset(u) \/ AdminDelete(u)
    \/ \E t \in Tokens : Logout(t) \/ TokenExpires(t)
    \/ \E l \in Links : LinkExpires(l)
    \/ \E m \in mailed : MailExpires(m)
    \/ Flush

Spec == Init /\ [][Next]_vars

-----------------------------------------------------------------------------
(* Properties *)

\* A mailed sign-in link, and the confirmation of an address, each open one
\* session, however many requests present them together, and however often the
\* links are flushed; the confirmation a second one, once a save of the whole row
\* (profile, staff PATCH, admin) has put back what it read before the first.
LinkOpensOneSession ==
    /\ \A l \in Links : opened[l] <= 1
    /\ \A u \in Users : confirmed[u] <= 1 \/ u \in restored

\* "Idempotent for an already-confirmed user" (ConfirmEmailApiView): whoever
\* presents the mailed link of an account that exists gets a session, also when
\* the address has been confirmed in between.  The code does not keep this, and no
\* run checks it: the update that comes second answers 400.
ConfirmIsIdempotent ==
    [][\A r \in Requests :
          At(r, "confirm") /\ ~At(r, "confirm")' /\ user[req[r].user] # None
              /\ crashes' = crashes
          => At(r, "mint")']_vars

\* A session opened with an earlier password can no longer be refreshed, unless
\* the request that minted its token overlapped the sweep; or no sweep has
\* followed the password: that of a reset is still to come, or its process died
\* before it, or the password was set in the admin; or a save of the whole row
\* has put back what it read before the password, or the account, was gone.
SessionsEndWithPassword ==
    \A t \in Tokens : Usable(t) /\ user[token[t].user] # None =>
        LET u == token[t].user
        IN  \/ token[t].root >= user[u].password
            \/ token[t].raced
            \/ u \in unswept \cup restored
            \/ \E r \in Requests : req[r].user = u /\ req[r].pc \in {"sweep", "blacklist"}

\* A token that was rotated, logged out, swept or has expired is never good
\* again, also when the blacklist is flushed.
DeadStaysDead ==
    [][\A t \in Tokens : token[t] # None /\ ~Usable(t) => ~Usable(t)']_vars

\* "Irreversibly deletes the authenticated user": an account that was erased, a
\* password that was replaced, or an address that was to be confirmed comes back
\* only with a save of the whole row that a request read before: the profile, the
\* staff PATCH, and the two views of the admin. Sign-in, confirmation, reset,
\* change and erasure, however they overlap, bring nothing back.
OnlyWholeRowsRestore ==
    [][\A u \in Users :
          \/ /\ user[u] = None /\ u \in known => user'[u] = None
             /\ user[u] # None /\ user'[u] # None =>
                    /\ user'[u].password \in {user[u].password, passwords'}
                    /\ user[u].confirmed => user'[u].confirmed
          \/ \E r \in Requests : /\ req[r].pc \in {"save", "setpassword"}
                                 /\ req[r].user = u /\ req'[r].pc = "idle"]_vars
=============================================================================
