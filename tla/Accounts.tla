------------------------------ MODULE Accounts ------------------------------
(***************************************************************************)
(* Sign-up, login, session cookies, email verification and password reset: *)
(* src/app/routes/account.py over src/app/auth.py and the users table of   *)
(* src/app/models.py.                                                      *)
(*                                                                         *)
(* A handler runs in a worker thread with one database session of its own, *)
(* under READ COMMITTED: it reads a row in one step and commits a change   *)
(* computed from that reading in a later one, and any other handler may    *)
(* commit in between.  An UPDATE names only the columns the handler        *)
(* changed, so a commit never writes back the columns it merely loaded.    *)
(* Mail is sent after the response, by a background task that dies with    *)
(* the process, and every failure to send is swallowed.                    *)
(*                                                                         *)
(* Signed values (cookies, mailed tokens) are records: nobody can make one *)
(* the server did not issue.  Their expiry needs no state: a request       *)
(* refused because its token is too old is a request that does nothing.    *)
(***************************************************************************)
EXTENDS Naturals

CONSTANTS
    Users,      \* the email addresses; the address is the identity of an account
    NoUser,     \* no address: the account of an idle worker
    Procs,      \* the worker threads, of all the instances together
    MaxHash     \* bound: the number of passwords hashed in a behaviour

ASSUME AccountsAssumption ==
    /\ NoUser \notin Users
    /\ MaxHash \in Nat

VARIABLES
    users,      \* the users table: one row for each address, or NoRow
    pending,    \* mails handed to a background task and not sent yet
    inbox,      \* mails that reached the address they were sent to
    sessions,   \* every session cookie ever sent to a browser
    req,        \* the request each worker is in the middle of
    lastHash,   \* Argon2 salts every hash, so each one is new: a counter
    spent,      \* history: the reset tokens a committed reset has used
    overtaken   \* history: accounts whose password changed under a reset

system  == <<users, pending, inbox, sessions, req, lastHash>>
history == <<spent, overtaken>>
vars    == <<system, history>>

-----------------------------------------------------------------------------
(* The data. *)

Hashes   == 0 .. MaxHash
Versions == 0 .. MaxHash

Rows == [hash : Hashes, version : Versions, verified : BOOLEAN, active : BOOLEAN]

\* No row for this address: nobody registered it.
NoRow == [hash |-> 0, version |-> 0, verified |-> FALSE, active |-> FALSE]

\* Mutant: email_verified defaults to TRUE.
NewRow_Verified(h) == [hash |-> h, version |-> 0, verified |-> TRUE, active |-> TRUE]

\* User(...) with the column defaults of the model.
NewRow(h) == [hash |-> h, version |-> 0, verified |-> FALSE, active |-> TRUE]

Exists(u) == users[u].hash # 0

\* Mutant: the index on the address is not unique.
UniqueAddress_Missing(u) == u \in Users

\* What the unique index on users.email checks of an INSERT.
UniqueAddress(u) == ~Exists(u)

Mails == [kind : {"verify", "reset"}, to : Users, fp : Hashes]

\* A verification token carries the account alone.
VerifyMail(u) == [kind |-> "verify", to |-> u, fp |-> 0]

\* A reset token carries the account and a fingerprint of its password hash.
ResetMailFor(u, h) == [kind |-> "reset", to |-> u, fp |-> h]
ResetMail(u) == ResetMailFor(u, users[u].hash)

\* What the cookie says, and with it (h, not in the cookie) the password hash
\* of the row it was issued for.
Cookies == [uid : Users, v : Versions, h : Hashes]

issue_session(u, row) == [uid |-> u, v |-> row.version, h |-> row.hash]

\* The tokens of the history variable spent.
Tokens == [to : Users, fp : Hashes]

Request(pc, u, row) == [pc |-> pc, uid |-> u, row |-> row]
Idle == Request("idle", NoUser, NoRow)

IsIdle(p) == req[p] = Idle
At(p, pc) == req[p].pc = pc

-----------------------------------------------------------------------------
(* What the dependencies and helpers of auth.py decide. *)

\* get_current_user: the account exists, is active and has not moved to another
\* session version.
Authorised(c) ==
    /\ Exists(c.uid)
    /\ users[c.uid].active
    /\ c.v = users[c.uid].version

\* resolve_password_reset_token.
ResetTokenResolves(m) ==
    /\ m.kind = "reset"
    /\ Exists(m.to)
    /\ users[m.to].active
    /\ m.fp = users[m.to].hash

\* Mutant: the session version is not bumped.
ResetRow_NoBump(row, h) == [row EXCEPT !.hash = h, !.verified = TRUE]

\* Mutant: the hash is not salted, and the new password is the old one.
ResetRow_Unsalted(row, h) ==
    [row EXCEPT !.version = @ + 1, !.verified = TRUE]

\* Mutant: the bump is applied twice.
ResetRow_BumpTwice(row, h) ==
    [row EXCEPT !.hash = h, !.version = @ + 2, !.verified = TRUE]

\* The columns reset_password assigns: a new hash, the loaded version plus one,
\* and the address proven, since the link came out of its inbox.
ResetRow(row, h) ==
    [row EXCEPT !.hash = h, !.version = @ + 1, !.verified = TRUE]

-----------------------------------------------------------------------------
(* Sign-up. *)

\* The address is free when the handler looks.
SignupCheck(p, u) ==
    /\ IsIdle(p)
    /\ ~Exists(u)
    /\ req' = [req EXCEPT ![p] = Request("signup", u, NoRow)]
    /\ UNCHANGED <<users, pending, inbox, sessions, lastHash, history>>

\* INSERT: the unique index on the address still finds it free.
SignupCommit(p) ==
    /\ At(p, "signup")
    /\ lastHash < MaxHash
    /\ LET u == req[p].uid
           h == lastHash + 1
       IN  /\ UniqueAddress(u)
           /\ users' = [users EXCEPT ![u] = NewRow(h)]
           /\ req' = [req EXCEPT ![p] = Request("welcome", u, NewRow(h))]
           /\ lastHash' = h
    /\ UNCHANGED <<pending, inbox, sessions, history>>

\* The unique index refuses the row: somebody signed up with the address since.
SignupCollides(p) ==
    /\ At(p, "signup")
    /\ Exists(req[p].uid)
    /\ req' = [req EXCEPT ![p] = Idle]
    /\ UNCHANGED <<users, pending, inbox, sessions, lastHash, history>>

\* The response of a sign-up: signed in at once, and the verification mail
\* becomes a background task.
SignupReply(p) ==
    /\ At(p, "welcome")
    /\ sessions' = sessions \cup {issue_session(req[p].uid, req[p].row)}
    /\ pending' = pending \cup {VerifyMail(req[p].uid)}
    /\ req' = [req EXCEPT ![p] = Idle]
    /\ UNCHANGED <<users, inbox, lastHash, history>>

-----------------------------------------------------------------------------
(* Login. *)

\* The right password for the row the handler reads.
Login(p, u) ==
    /\ IsIdle(p)
    /\ Exists(u)
    /\ users[u].active
    /\ req' = [req EXCEPT ![p] = Request("reply", u, users[u])]
    /\ UNCHANGED <<users, pending, inbox, sessions, lastHash, history>>

\* The response of a login or a reset: a cookie for the row in the handler's
\* memory, whatever the table holds by now.
SignInReply(p) ==
    /\ At(p, "reply")
    /\ sessions' = sessions \cup {issue_session(req[p].uid, req[p].row)}
    /\ req' = [req EXCEPT ![p] = Idle]
    /\ UNCHANGED <<users, pending, inbox, lastHash, history>>

-----------------------------------------------------------------------------
(* Verification of the address. *)

\* A signed-in account whose address is unproven asks for another link.
resend_verification(c) ==
    /\ Authorised(c)
    /\ ~users[c.uid].verified
    /\ pending' = pending \cup {VerifyMail(c.uid)}
    /\ UNCHANGED <<users, inbox, sessions, req, lastHash, history>>

\* The link is opened: any number of times, by a deactivated account too.
VerifyRead(p, m) ==
    /\ IsIdle(p)
    /\ m.kind = "verify"
    /\ Exists(m.to)
    /\ req' = [req EXCEPT ![p] = Request("verify", m.to, users[m.to])]
    /\ UNCHANGED <<users, pending, inbox, sessions, lastHash, history>>

\* Mutant: the whole loaded row is written back, not the one changed column.
VerifyCommit_WholeRow(p) ==
    /\ At(p, "verify")
    /\ users' = [users EXCEPT ![req[p].uid] = [req[p].row EXCEPT !.verified = TRUE]]
    /\ req' = [req EXCEPT ![p] = Idle]
    /\ UNCHANGED <<pending, inbox, sessions, lastHash, history>>

\* UPDATE users SET email_verified; no statement at all when it was loaded TRUE.
VerifyCommit(p) ==
    /\ At(p, "verify")
    /\ users' = IF req[p].row.verified
                THEN users
                ELSE [users EXCEPT ![req[p].uid].verified = TRUE]
    /\ req' = [req EXCEPT ![p] = Idle]
    /\ UNCHANGED <<pending, inbox, sessions, lastHash, history>>

-----------------------------------------------------------------------------
(* Password reset. *)

\* A link for the password as it is now goes to the address.
forgot_password(u) ==
    /\ Exists(u)
    /\ users[u].active
    /\ pending' = pending \cup {ResetMail(u)}
    /\ UNCHANGED <<users, inbox, sessions, req, lastHash, history>>

\* reset_password up to the end of the hashing: the link resolves.
ResetResolve(p, m) ==
    /\ IsIdle(p)
    /\ ResetTokenResolves(m)
    /\ req' = [req EXCEPT ![p] = Request("reset", m.to, users[m.to])]
    /\ UNCHANGED <<users, pending, inbox, sessions, lastHash, history>>

\* UPDATE users SET password_hash, session_version, email_verified: nothing
\* looks at the row again.  is_active is not among the columns.
ResetCommit(p) ==
    /\ At(p, "reset")
    /\ lastHash < MaxHash
    /\ LET u   == req[p].uid
           row == req[p].row
           new == ResetRow(row, lastHash + 1)
       IN  /\ users' = [users EXCEPT ![u] = [new EXCEPT !.active = users[u].active]]
           /\ req' = [req EXCEPT ![p] = Request("reply", u, new)]
           /\ spent' = spent \cup {[to |-> u, fp |-> row.hash]}
           /\ overtaken' = IF users[u].hash = row.hash
                           THEN overtaken ELSE overtaken \cup {u}
    /\ lastHash' = lastHash + 1
    /\ UNCHANGED <<pending, inbox, sessions>>

-----------------------------------------------------------------------------
(* The surroundings. *)

\* The background task reaches the mail provider, and the mail its address.
Deliver(m) ==
    /\ pending' = pending \ {m}
    /\ inbox' = inbox \cup {m}
    /\ UNCHANGED <<users, sessions, req, lastHash, history>>

\* The process dies before the task runs, or sending fails and is swallowed.
LoseMail(m) ==
    /\ pending' = pending \ {m}
    /\ UNCHANGED <<users, inbox, sessions, req, lastHash, history>>

\* A request ends early: a form error, a database error, a process that dies.
\* What it committed stays, what it did not is rolled back.
Abort(p) ==
    /\ ~IsIdle(p)
    /\ req' = [req EXCEPT ![p] = Idle]
    /\ UNCHANGED <<users, pending, inbox, sessions, lastHash, history>>

\* The operator switches an account off in the database; no handler does.
Deactivate(u) ==
    /\ users[u].active
    /\ users' = [users EXCEPT ![u].active = FALSE]
    /\ UNCHANGED <<pending, inbox, sessions, req, lastHash, history>>

-----------------------------------------------------------------------------
Init ==
    /\ users = [u \in Users |-> NoRow]
    /\ pending = {}
    /\ inbox = {}
    /\ sessions = {}
    /\ req = [p \in Procs |-> Idle]
    /\ lastHash = 0
    /\ spent = {}
    /\ overtaken = {}

\* The steps of a worker that is in the middle of a request.
Proceed(p) ==
    \/ SignupCommit(p)
    \/ SignupCollides(p)
    \/ SignupReply(p)
    \/ SignInReply(p)
    \/ VerifyCommit(p)
    \/ ResetCommit(p)

\* A request arrives at an idle worker.
Arrive(p) ==
    \/ \E u \in Users : SignupCheck(p, u) \/ Login(p, u)
    \/ \E m \in inbox : VerifyRead(p, m) \/ ResetResolve(p, m)

Next ==
    \/ \E p \in Procs : Arrive(p) \/ Proceed(p) \/ Abort(p)
    \/ \E c \in sessions : resend_verification(c)
    \/ \E u \in Users : forgot_password(u) \/ Deactivate(u)
    \/ \E m \in pending : Deliver(m) \/ LoseMail(m)

Spec == Init /\ [][Next]_vars

-----------------------------------------------------------------------------
(* Properties. *)

\* Every variable has its type, and a row in flight is that of a real account.
TypeOK ==
    /\ users \in [Users -> Rows]
    /\ pending \subseteq Mails
    /\ inbox \subseteq Mails
    /\ sessions \subseteq Cookies
    /\ req \in [Procs ->
                  [pc : {"idle", "signup", "welcome", "reply", "verify", "reset"},
                   uid : Users \cup {NoUser}, row : Rows]]
    /\ \A p \in Procs : ~At(p, "idle") => req[p].uid \in Users
    /\ lastHash \in Hashes
    /\ spent \subseteq Tokens
    /\ overtaken \subseteq Users

\* Once a reset has been committed with a link, the link never resolves again,
\* for whoever opens it from then on: the fingerprint in it is of a password
\* hash the account will not have again (issue_password_reset_token,
\* resolve_password_reset_token).
SpentTokenDead ==
    \A t \in spent : users[t.to].hash # t.fp

\* A session is accepted only while the password it was opened under is the
\* account's password, as long as no reset of the account overtook another
\* (issue_session: a reset signs out every other session).
SessionBoundToPassword ==
    \A c \in sessions :
        c.uid \notin overtaken /\ Authorised(c) => c.h = users[c.uid].hash

\* An address counts as verified only after a mail reached its inbox, whichever
\* of the two links proved it.
VerifiedByInbox ==
    \A u \in Users : users[u].verified => \E m \in inbox : m.to = u

\* The password of an existing account changes only with a link that was
\* delivered to the account's own address; a second sign-up with the address
\* never replaces the account.
PasswordChangeNeedsInbox ==
    [][\A u \in Users :
         Exists(u) /\ users'[u].hash # users[u].hash
            => \E m \in inbox : /\ m.kind = "reset"
                                /\ m.to = u
                                /\ [to |-> u, fp |-> m.fp] \in spent']_vars

\* Accounts implements Identity: a letter is followed while a request is between the
\* look at its token and the commit.
Following ==
    {[to |-> req[p].uid, fp |-> req[p].row.hash] : p \in {q \in Procs : At(q, "reset")}}

TheIdentity == INSTANCE Identity WITH
    Passwords <- 1 .. MaxHash,
    NoPassword <- 0,
    password <- [u \in Users |-> users[u].hash],
    known <- 1 .. lastHash,
    proven <- {u \in Users : users[u].verified},
    off <- {u \in Users : Exists(u) /\ ~users[u].active},
    letters <- inbox,
    following <- Following

\* Whatever the handlers loaded before whatever was committed meanwhile, they do to the
\* accounts only what Identity allows: an UPDATE of the changed columns, and a hash that
\* is new, are what keeps a stale row from being written back.
ImplementsIdentity == TheIdentity!Spec

\* What this means for the table, implied by ImplementsIdentity, which the run checks.
\* Nothing a handler loaded before somebody else's commit undoes that commit:
\* an account stays registered, a proven address proven, an account that was
\* switched off off.
CommitsStick ==
    [][\A u \in Users :
         /\ Exists(u) => users'[u].hash # 0
         /\ users[u].verified => users'[u].verified
         /\ Exists(u) /\ ~users[u].active => ~users'[u].active]_vars

\* What the mail says of the link it carries ("works once"): no two resets are
\* committed with one token.
ResetLinkWorksOnce ==
    [][\A p \in Procs :
         ResetCommit(p) => [to |-> req[p].uid, fp |-> req[p].row.hash] \notin spent]_vars

\* What issue_session says of a reset, without the proviso of
\* SessionBoundToPassword.
ResetSignsOutEverySession ==
    \A c \in sessions : Authorised(c) => c.h = users[c.uid].hash
=============================================================================
