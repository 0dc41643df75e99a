--------------------------- MODULE AccountsProofs ---------------------------
(***************************************************************************)
(* Proofs about Accounts, for any set of addresses, any set of workers and *)
(* any number of passwords.                                                *)
(***************************************************************************)
EXTENDS Accounts, TLAPS

-----------------------------------------------------------------------------
(* The inductive invariant. *)

\* A row as the table or a handler's memory may hold it: its hash has been
\* generated already, and it has been reset less often than passwords were hashed.
RowOK(row) ==
    /\ row.hash <= lastHash
    /\ row.hash # 0 => row.version < row.hash

RowsOK ==
    /\ \A u \in Users : RowOK(users[u])
    /\ \A p \in Procs : RowOK(req[p].row)

\* A request past its first reading belongs to a registered account.
RequestsOK ==
    \A p \in Procs :
        /\ req[p].pc \in {"welcome", "reply", "verify", "reset"} =>
             Exists(req[p].uid) /\ req[p].row.hash # 0
        /\ req[p].pc \in {"verify", "reset"} => \E m \in inbox : m.to = req[p].uid
        /\ req[p].pc = "reset" =>
             ResetMailFor(req[p].uid, req[p].row.hash) \in inbox

\* Hashes only grow, so a spent token is older than the account's password.
SpentOK == \A t \in spent : t.fp < users[t.to].hash

\* What a cookie, or the row a cookie will be made of, may say of an account no
\* reset was overtaken on: never a version to come, and the account's own version
\* only together with the account's own hash.
AgreesWith(v, h, row) ==
    /\ v <= row.version
    /\ v = row.version <=> h = row.hash

SessionsOK ==
    /\ \A c \in sessions :
         /\ Exists(c.uid)
         /\ c.h <= lastHash
         /\ c.uid \notin overtaken => AgreesWith(c.v, c.h, users[c.uid])
    /\ \A p \in Procs :
         /\ req[p].pc \in {"welcome", "reply", "verify", "reset"}
         /\ req[p].uid \notin overtaken
         => AgreesWith(req[p].row.version, req[p].row.hash, users[req[p].uid])

\* Nothing is verified before it is registered.
UnregisteredOK == \A u \in Users : users[u].hash = 0 => users[u].verified = FALSE

IInv ==
    TypeOK /\ RowsOK /\ RequestsOK /\ SpentOK /\ SessionsOK /\ VerifiedByInbox /\ UnregisteredOK

-----------------------------------------------------------------------------
(* Rows. *)

\* Rows and requests built by the helpers have their types.
LEMMA HelperTypes ==
    ASSUME TypeOK
    PROVE  /\ NoRow \in Rows
           /\ Idle.pc = "idle" /\ Idle.uid = NoUser /\ Idle.row = NoRow
           /\ \A h \in Hashes : NewRow(h) \in Rows
           /\ \A p \in Procs : req[p].row \in Rows
           /\ \A u \in Users : VerifyMail(u) \in Mails /\ ResetMail(u) \in Mails
           /\ \A u \in Users, row \in Rows : issue_session(u, row) \in Cookies
  BY AccountsAssumption
     DEF TypeOK, NoRow, Rows, Hashes, Versions, Idle, Request, NewRow, VerifyMail,
         ResetMail, ResetMailFor, Mails, issue_session, Cookies

\* A reset row of an existing account.
LEMMA ResetRowOK ==
    ASSUME NEW row \in Rows, NEW h \in Hashes, row.version < row.hash, row.hash < h
    PROVE  /\ ResetRow(row, h) \in Rows
           /\ ResetRow(row, h).hash = h
           /\ ResetRow(row, h).version = row.version + 1
           /\ ResetRow(row, h).verified = TRUE
           /\ ResetRow(row, h).active = row.active
  <1>1. row.version + 1 \in Versions
    BY AccountsAssumption DEF Rows, Hashes, Versions
  <1> QED BY <1>1 DEF ResetRow, Rows

\* The invariant holds of the empty table.
LEMMA InitIInv == Init => IInv
  <1> SUFFICES ASSUME Init PROVE IInv
    OBVIOUS
  <1>1. TypeOK
    <2>1. NoRow \in Rows /\ 0 \in Hashes
      BY AccountsAssumption DEF NoRow, Rows, Hashes, Versions
    <2>2. Idle \in [pc : {"idle", "signup", "welcome", "reply", "verify", "reset"},
                    uid : Users \cup {NoUser}, row : Rows]
      BY <2>1 DEF Idle, Request
    <2>3. \A p \in Procs : At(p, "idle")
      BY DEF Init, Idle, Request, At
    <2>4. users \in [Users -> Rows]
      BY <2>1 DEF Init
    <2>5. req \in [Procs -> [pc : {"idle", "signup", "welcome", "reply", "verify", "reset"},
                             uid : Users \cup {NoUser}, row : Rows]]
      BY <2>2 DEF Init
    <2>6. /\ pending \subseteq Mails /\ inbox \subseteq Mails /\ sessions \subseteq Cookies
          /\ spent \subseteq Tokens /\ overtaken \subseteq Users
      BY DEF Init
    <2>7. lastHash \in Hashes
      BY <2>1 DEF Init
    <2> QED BY <2>3, <2>4, <2>5, <2>6, <2>7 DEF TypeOK
  <1>2. RowsOK
    <2>1. NoRow.hash = 0
      BY DEF NoRow
    <2>2. RowOK(NoRow)
      BY <2>1 DEF Init, RowOK
    <2>3. Idle.row = NoRow
      BY DEF Idle, Request
    <2> QED BY <2>2, <2>3 DEF Init, RowsOK
  <1>3. RequestsOK /\ SpentOK /\ SessionsOK
    BY DEF Init, RequestsOK, SpentOK, SessionsOK, Idle, Request
  <1>4. VerifiedByInbox
    BY DEF Init, VerifiedByInbox, NoRow
  <1>5. UnregisteredOK
    BY DEF Init, UnregisteredOK, NoRow
  <1> QED BY <1>1, <1>2, <1>3, <1>4, <1>5 DEF IInv

\* Every step of every handler keeps the types.
LEMMA TypePreserved == IInv /\ [Next]_vars => TypeOK'
  <1> SUFFICES ASSUME IInv, [Next]_vars PROVE TypeOK'
    OBVIOUS
  <1> USE AccountsAssumption, HelperTypes
  <1> USE DEF IInv, TypeOK, At, IsIdle, Request, Exists, history
  <1>1. ASSUME NEW p \in Procs, NEW u \in Users, SignupCheck(p, u) PROVE TypeOK'
    BY <1>1 DEF SignupCheck
  <1>2. ASSUME NEW p \in Procs, NEW u \in Users, Login(p, u) PROVE TypeOK'
    BY <1>2 DEF Login
  <1>3. ASSUME NEW p \in Procs, NEW m \in inbox, VerifyRead(p, m) PROVE TypeOK'
    BY <1>3 DEF VerifyRead, Mails
  <1>4. ASSUME NEW p \in Procs, NEW m \in inbox, ResetResolve(p, m) PROVE TypeOK'
    BY <1>4 DEF ResetResolve, Mails
  <1>5. ASSUME NEW p \in Procs, SignupCommit(p) PROVE TypeOK'
    <2>1. lastHash + 1 \in Hashes /\ NewRow(lastHash + 1) \in Rows
      BY <1>5 DEF SignupCommit, Hashes
    <2> QED BY <1>5, <2>1 DEF SignupCommit
  <1>6. ASSUME NEW p \in Procs, SignupCollides(p) \/ Abort(p) PROVE TypeOK'
    BY <1>6 DEF SignupCollides, Abort, Idle
  <1>7. ASSUME NEW p \in Procs, SignupReply(p) \/ SignInReply(p) PROVE TypeOK'
    BY <1>7 DEF SignupReply, SignInReply, Idle
  <1>8. ASSUME NEW p \in Procs, VerifyCommit(p) PROVE TypeOK'
    BY <1>8 DEF VerifyCommit, Idle, Rows
  <1>9. ASSUME NEW p \in Procs, ResetCommit(p) PROVE TypeOK'
    <2>1. req[p].row \in Rows /\ req[p].uid \in Users /\ req[p].row.hash # 0
      BY <1>9 DEF ResetCommit, RequestsOK
    <2>2. req[p].row.version < req[p].row.hash /\ req[p].row.hash < lastHash + 1
      BY <2>1 DEF RowsOK, RowOK, Hashes, Rows
    <2>3. lastHash + 1 \in Hashes
      BY <1>9 DEF ResetCommit, Hashes
    <2>4. ResetRow(req[p].row, lastHash + 1) \in Rows
      BY <2>1, <2>2, <2>3, ResetRowOK
    <2>5. users' \in [Users -> Rows]
      BY <1>9, <2>1, <2>4 DEF ResetCommit, Rows
    <2>6. spent' \subseteq Tokens /\ overtaken' \subseteq Users
      BY <1>9, <2>1 DEF ResetCommit, Tokens, Rows
    <2> QED BY <1>9, <2>1, <2>3, <2>4, <2>5, <2>6 DEF ResetCommit
  <1>10. ASSUME NEW c \in sessions, resend_verification(c) PROVE TypeOK'
    BY <1>10 DEF resend_verification, Cookies
  <1>11. ASSUME NEW u \in Users, forgot_password(u) PROVE TypeOK'
    BY <1>11 DEF forgot_password
  <1>12. ASSUME NEW u \in Users, Deactivate(u) PROVE TypeOK'
    BY <1>12 DEF Deactivate, Rows
  <1>13. ASSUME NEW m \in pending, Deliver(m) \/ LoseMail(m) PROVE TypeOK'
    BY <1>13 DEF Deliver, LoseMail
  <1>14. CASE UNCHANGED vars
    BY <1>14 DEF vars, system
  <1> QED
    BY <1>1, <1>2, <1>3, <1>4, <1>5, <1>6, <1>7, <1>8, <1>9, <1>10, <1>11, <1>12,
       <1>13, <1>14 DEF Next, Arrive, Proceed

-----------------------------------------------------------------------------
(* What the two steps that set a password do, one field at a time. *)

\* What a committed sign-up leaves: a row with a fresh hash, and nothing else new.
SignupEffect(p, u) ==
    /\ u \in Users /\ users[u].hash = 0
    /\ users'[u].hash = lastHash + 1
    /\ users'[u].version = 0
    /\ users'[u].verified = FALSE
    /\ users'[u].active = TRUE
    /\ \A w \in Users : w # u => users'[w] = users[w]
    /\ req'[p].pc = "welcome" /\ req'[p].uid = u
    /\ req'[p].row = users'[u]
    /\ \A q \in Procs : q # p => req'[q] = req[q]
    /\ lastHash' = lastHash + 1
    /\ UNCHANGED <<pending, inbox, sessions, spent, overtaken>>

\* SignupCommit, as its effect on the row, the request and the counter.
LEMMA SignupStep ==
    ASSUME IInv, NEW p \in Procs, SignupCommit(p)
    PROVE  SignupEffect(p, req[p].uid)
  <1> DEFINE u == req[p].uid
  <1>1. u \in Users
    BY DEF IInv, TypeOK, At, SignupCommit
  <1>2. users'[u] = NewRow(lastHash + 1)
    BY <1>1 DEF IInv, TypeOK, SignupCommit
  <1>3. users[u].hash = 0
    BY DEF SignupCommit, UniqueAddress, Exists
  <1>4. req'[p] = Request("welcome", u, NewRow(lastHash + 1))
    BY DEF IInv, TypeOK, SignupCommit
  <1> QED
    BY <1>1, <1>2, <1>3, <1>4 DEF IInv, TypeOK, SignupCommit, NewRow, Request, history, SignupEffect

\* What a committed reset leaves: a fresh hash, and the version that was loaded
\* plus one.
ResetEffect(p, u, row) ==
    /\ u \in Users /\ Exists(u) /\ row \in Rows /\ row.hash # 0
    /\ users'[u].hash = lastHash + 1
    /\ users'[u].version = row.version + 1
    /\ users'[u].verified = TRUE
    /\ users'[u].active = users[u].active
    /\ \A w \in Users : w # u => users'[w] = users[w]
    /\ req'[p].pc = "reply" /\ req'[p].uid = u
    /\ req'[p].row.hash = lastHash + 1
    /\ req'[p].row.version = row.version + 1
    /\ \A q \in Procs : q # p => req'[q] = req[q]
    /\ spent' = spent \cup {[to |-> u, fp |-> row.hash]}
    /\ overtaken' = IF users[u].hash = row.hash THEN overtaken ELSE overtaken \cup {u}
    /\ lastHash' = lastHash + 1
    /\ UNCHANGED <<pending, inbox, sessions>>

\* ResetCommit, as its effect on the row, the request, the counter and the history.
LEMMA ResetStep ==
    ASSUME IInv, NEW p \in Procs, ResetCommit(p)
    PROVE  ResetEffect(p, req[p].uid, req[p].row)
  <1> DEFINE u == req[p].uid
             row == req[p].row
  <1> DEFINE new == ResetRow(row, lastHash + 1)
  <1>1. u \in Users /\ Exists(u) /\ row \in Rows /\ row.hash # 0
    BY DEF IInv, TypeOK, At, ResetCommit, RequestsOK
  <1>2. row.version < row.hash /\ row.hash < lastHash + 1
    BY <1>1 DEF IInv, TypeOK, RowsOK, RowOK, Hashes, Rows
  <1>3. lastHash + 1 \in Hashes
    BY AccountsAssumption DEF IInv, TypeOK, ResetCommit, Hashes
  <1>4. /\ new \in Rows /\ new.hash = lastHash + 1
        /\ new.version = row.version + 1 /\ new.verified = TRUE
    BY <1>1, <1>2, <1>3, ResetRowOK
  <1>5. users'[u] = [new EXCEPT !.active = users[u].active]
    BY <1>1 DEF IInv, TypeOK, ResetCommit
  <1>6. /\ users'[u].hash = lastHash + 1
        /\ users'[u].version = row.version + 1
        /\ users'[u].verified = TRUE
        /\ users'[u].active = users[u].active
    BY <1>4, <1>5 DEF Rows
  <1>7. req'[p] = Request("reply", u, new)
    BY DEF IInv, TypeOK, ResetCommit
  <1>8. /\ req'[p].pc = "reply" /\ req'[p].uid = u
        /\ req'[p].row.hash = lastHash + 1 /\ req'[p].row.version = row.version + 1
    BY <1>4, <1>7 DEF Request
  <1> QED
    BY <1>1, <1>6, <1>8 DEF IInv, TypeOK, ResetCommit, ResetEffect

\* Every row, stored or loaded, keeps to the hashes generated so far.
LEMMA RowsPreserved == IInv /\ [Next]_vars => RowsOK'
  <1> SUFFICES ASSUME IInv, [Next]_vars PROVE RowsOK'
    OBVIOUS
  <1> USE AccountsAssumption, HelperTypes, TypePreserved
  <1> USE DEF IInv, TypeOK, At, IsIdle, Request, Exists, history, RowsOK, RowOK, Rows, Hashes, Versions, NoRow, NewRow
  <1>1. ASSUME NEW p \in Procs, NEW u \in Users, SignupCheck(p, u) PROVE RowsOK'
    BY <1>1 DEF SignupCheck
  <1>2. ASSUME NEW p \in Procs, NEW u \in Users, Login(p, u) PROVE RowsOK'
    BY <1>2 DEF Login
  <1>3. ASSUME NEW p \in Procs, NEW m \in inbox, VerifyRead(p, m) PROVE RowsOK'
    BY <1>3 DEF VerifyRead, Mails
  <1>4. ASSUME NEW p \in Procs, NEW m \in inbox, ResetResolve(p, m) PROVE RowsOK'
    BY <1>4 DEF ResetResolve, ResetTokenResolves, ResetMailFor, Mails
  <1>5. ASSUME NEW p \in Procs, SignupCommit(p) PROVE RowsOK'
    <2>1. SignupEffect(p, req[p].uid)
      BY <1>5, SignupStep
    <2>2. ASSUME NEW w \in Users PROVE RowOK(users[w])'
      BY <2>1 DEF SignupEffect
    <2>3. ASSUME NEW q \in Procs PROVE RowOK(req[q].row)'
      <3>1. CASE q = p
        BY <2>1, <2>2, <3>1 DEF SignupEffect
      <3>2. CASE q # p
        BY <2>1, <3>2 DEF SignupEffect
      <3> QED BY <3>1, <3>2
    <2> QED BY <2>2, <2>3
  <1>6. ASSUME NEW p \in Procs, SignupCollides(p) \/ Abort(p) PROVE RowsOK'
    BY <1>6 DEF SignupCollides, Abort
  <1>7. ASSUME NEW p \in Procs, SignupReply(p) \/ SignInReply(p) PROVE RowsOK'
    BY <1>7 DEF SignupReply, SignInReply
  <1>8. ASSUME NEW p \in Procs, VerifyCommit(p) PROVE RowsOK'
    BY <1>8 DEF VerifyCommit
  <1>9. ASSUME NEW p \in Procs, ResetCommit(p) PROVE RowsOK'
    <2>1. ResetEffect(p, req[p].uid, req[p].row)
      BY <1>9, ResetStep
    <2>2. /\ req[p].row.version \in Nat /\ req[p].row.hash \in Nat /\ lastHash \in Nat
          /\ req[p].row.version < req[p].row.hash /\ req[p].row.hash <= lastHash
      BY <2>1 DEF ResetEffect
    <2>3. ASSUME NEW w \in Users PROVE RowOK(users[w])'
      <3>1. users[w].hash \in Nat /\ RowOK(users[w])
        OBVIOUS
      <3>2. CASE w = req[p].uid
        BY <2>1, <2>2, <3>2 DEF ResetEffect
      <3>3. CASE w # req[p].uid
        BY <2>1, <2>2, <3>1, <3>3 DEF ResetEffect
      <3> QED BY <3>2, <3>3
    <2>4. ASSUME NEW q \in Procs PROVE RowOK(req[q].row)'
      <3>1. req[q].row.hash \in Nat /\ RowOK(req[q].row)
        OBVIOUS
      <3>2. CASE q = p
        BY <2>1, <2>2, <3>2 DEF ResetEffect
      <3>3. CASE q # p
        BY <2>1, <2>2, <3>1, <3>3 DEF ResetEffect
      <3> QED BY <3>2, <3>3
    <2> QED BY <2>3, <2>4
  <1>10. ASSUME NEW c \in sessions, resend_verification(c) PROVE RowsOK'
    BY <1>10 DEF resend_verification
  <1>11. ASSUME NEW u \in Users, forgot_password(u) PROVE RowsOK'
    BY <1>11 DEF forgot_password
  <1>12. ASSUME NEW u \in Users, Deactivate(u) PROVE RowsOK'
    BY <1>12 DEF Deactivate
  <1>13. ASSUME NEW m \in pending, Deliver(m) \/ LoseMail(m) PROVE RowsOK'
    BY <1>13 DEF Deliver, LoseMail
  <1>14. CASE UNCHANGED vars
    BY <1>14 DEF vars, system
  <1> QED
    BY <1>1, <1>2, <1>3, <1>4, <1>5, <1>6, <1>7, <1>8, <1>9, <1>10, <1>11, <1>12, <1>13, <1>14 DEF Next, Arrive, Proceed

\* A request in flight keeps its account, and a reset the link it came with.
LEMMA RequestsPreserved == IInv /\ [Next]_vars => RequestsOK'
  <1> SUFFICES ASSUME IInv, [Next]_vars PROVE RequestsOK'
    OBVIOUS
  <1> USE AccountsAssumption, HelperTypes, TypePreserved
  <1> USE DEF IInv, TypeOK, At, IsIdle, Request, Exists, history, RequestsOK
  <1>1. ASSUME NEW p \in Procs, NEW u \in Users, SignupCheck(p, u) PROVE RequestsOK'
    BY <1>1 DEF SignupCheck
  <1>2. ASSUME NEW p \in Procs, NEW u \in Users, Login(p, u) PROVE RequestsOK'
    BY <1>2 DEF Login
  <1>3. ASSUME NEW p \in Procs, NEW m \in inbox, VerifyRead(p, m) PROVE RequestsOK'
    BY <1>3 DEF VerifyRead, Mails
  <1>4. ASSUME NEW p \in Procs, NEW m \in inbox, ResetResolve(p, m) PROVE RequestsOK'
    BY <1>4 DEF ResetResolve, ResetTokenResolves, ResetMailFor, Mails
  <1>5. ASSUME NEW p \in Procs, SignupCommit(p) PROVE RequestsOK'
    <2>1. SignupEffect(p, req[p].uid)
      BY <1>5, SignupStep
    <2>2. \A q \in Procs : q # p => req'[q] = req[q]
      BY <2>1 DEF SignupEffect
    <2>3. ASSUME NEW w \in Users, users[w].hash # 0 PROVE users'[w].hash # 0
      BY <2>1, <2>3 DEF SignupEffect
    <2>4. req'[p].pc = "welcome" /\ users'[req'[p].uid].hash # 0 /\ req'[p].row.hash # 0
      BY <2>1 DEF SignupEffect, Hashes
    <2>5. inbox' = inbox
      BY <2>1 DEF SignupEffect
    <2> QED BY <2>2, <2>3, <2>4, <2>5
  <1>6. ASSUME NEW p \in Procs, SignupCollides(p) \/ Abort(p) PROVE RequestsOK'
    BY <1>6 DEF SignupCollides, Abort
  <1>7. ASSUME NEW p \in Procs, SignupReply(p) \/ SignInReply(p) PROVE RequestsOK'
    BY <1>7 DEF SignupReply, SignInReply
  <1>8. ASSUME NEW p \in Procs, VerifyCommit(p) PROVE RequestsOK'
    BY <1>8 DEF VerifyCommit
  <1>9. ASSUME NEW p \in Procs, ResetCommit(p) PROVE RequestsOK'
    <2>1. ResetEffect(p, req[p].uid, req[p].row)
      BY <1>9, ResetStep
    <2>2. \A q \in Procs : q # p => req'[q] = req[q]
      BY <2>1 DEF ResetEffect
    <2>3. ASSUME NEW w \in Users, users[w].hash # 0 PROVE users'[w].hash # 0
      BY <2>1, <2>3 DEF ResetEffect, Hashes
    <2>4. req'[p].pc = "reply" /\ users'[req'[p].uid].hash # 0 /\ req'[p].row.hash # 0
      BY <2>1 DEF ResetEffect, Hashes
    <2>5. inbox' = inbox
      BY <2>1 DEF ResetEffect
    <2> QED BY <2>2, <2>3, <2>4, <2>5
  <1>10. ASSUME NEW c \in sessions, resend_verification(c) PROVE RequestsOK'
    BY <1>10 DEF resend_verification
  <1>11. ASSUME NEW u \in Users, forgot_password(u) PROVE RequestsOK'
    BY <1>11 DEF forgot_password
  <1>12. ASSUME NEW u \in Users, Deactivate(u) PROVE RequestsOK'
    BY <1>12 DEF Deactivate
  <1>13. ASSUME NEW m \in pending, Deliver(m) \/ LoseMail(m) PROVE RequestsOK'
    BY <1>13 DEF Deliver, LoseMail
  <1>14. CASE UNCHANGED vars
    BY <1>14 DEF vars, system
  <1> QED
    BY <1>1, <1>2, <1>3, <1>4, <1>5, <1>6, <1>7, <1>8, <1>9, <1>10, <1>11, <1>12, <1>13, <1>14 DEF Next, Arrive, Proceed

\* A spent token stays older than the password of its account.
LEMMA SpentPreserved == IInv /\ [Next]_vars => SpentOK'
  <1> SUFFICES ASSUME IInv, [Next]_vars PROVE SpentOK'
    OBVIOUS
  <1> USE AccountsAssumption, HelperTypes, TypePreserved
  <1> USE DEF IInv, TypeOK, At, IsIdle, Request, Exists, history, SpentOK
  <1>1. ASSUME NEW p \in Procs, NEW u \in Users, SignupCheck(p, u) PROVE SpentOK'
    BY <1>1 DEF SignupCheck
  <1>2. ASSUME NEW p \in Procs, NEW u \in Users, Login(p, u) PROVE SpentOK'
    BY <1>2 DEF Login
  <1>3. ASSUME NEW p \in Procs, NEW m \in inbox, VerifyRead(p, m) PROVE SpentOK'
    BY <1>3 DEF VerifyRead, Mails
  <1>4. ASSUME NEW p \in Procs, NEW m \in inbox, ResetResolve(p, m) PROVE SpentOK'
    BY <1>4 DEF ResetResolve, ResetTokenResolves, ResetMailFor, Mails
  <1>5. ASSUME NEW p \in Procs, SignupCommit(p) PROVE SpentOK'
    <2>1. SignupEffect(p, req[p].uid)
      BY <1>5, SignupStep
    <2>2. \A t \in spent : t.to # req[p].uid
      BY <2>1 DEF SignupEffect, Tokens, Hashes
    <2> QED BY <2>1, <2>2 DEF SignupEffect, Tokens
  <1>6. ASSUME NEW p \in Procs, SignupCollides(p) \/ Abort(p) PROVE SpentOK'
    BY <1>6 DEF SignupCollides, Abort
  <1>7. ASSUME NEW p \in Procs, SignupReply(p) \/ SignInReply(p) PROVE SpentOK'
    BY <1>7 DEF SignupReply, SignInReply
  <1>8. ASSUME NEW p \in Procs, VerifyCommit(p) PROVE SpentOK'
    BY <1>8 DEF VerifyCommit
  <1>9. ASSUME NEW p \in Procs, ResetCommit(p) PROVE SpentOK'
    <2>1. ResetEffect(p, req[p].uid, req[p].row)
      BY <1>9, ResetStep
    <2>2. ASSUME NEW t \in spent PROVE t.fp < users'[t.to].hash
      <3>1. /\ t.to \in Users /\ t.fp \in Nat /\ users[t.to].hash \in Nat
            /\ t.fp < users[t.to].hash /\ users[t.to].hash <= lastHash
        BY DEF Tokens, Hashes, Rows, RowsOK, RowOK
      <3>2. CASE t.to = req[p].uid
        BY <2>1, <3>1, <3>2 DEF ResetEffect, Hashes
      <3>3. CASE t.to # req[p].uid
        BY <2>1, <3>1, <3>3 DEF ResetEffect
      <3> QED BY <3>2, <3>3
    <2>3. req[p].row.hash < users'[req[p].uid].hash
      BY <2>1 DEF ResetEffect, Hashes, Rows, RowsOK, RowOK
    <2> QED BY <2>1, <2>2, <2>3 DEF ResetEffect
  <1>10. ASSUME NEW c \in sessions, resend_verification(c) PROVE SpentOK'
    BY <1>10 DEF resend_verification
  <1>11. ASSUME NEW u \in Users, forgot_password(u) PROVE SpentOK'
    BY <1>11 DEF forgot_password
  <1>12. ASSUME NEW u \in Users, Deactivate(u) PROVE SpentOK'
    BY <1>12 DEF Deactivate
  <1>13. ASSUME NEW m \in pending, Deliver(m) \/ LoseMail(m) PROVE SpentOK'
    BY <1>13 DEF Deliver, LoseMail
  <1>14. CASE UNCHANGED vars
    BY <1>14 DEF vars, system
  <1> QED
    BY <1>1, <1>2, <1>3, <1>4, <1>5, <1>6, <1>7, <1>8, <1>9, <1>10, <1>11, <1>12, <1>13, <1>14 DEF Next, Arrive, Proceed

\* Cookies and loaded rows keep agreeing with the table, but for an account on which
\* one reset overtook another.
LEMMA SessionsPreserved == IInv /\ [Next]_vars => SessionsOK'
  <1> SUFFICES ASSUME IInv, [Next]_vars PROVE SessionsOK'
    OBVIOUS
  <1> USE AccountsAssumption, HelperTypes, TypePreserved
  <1> USE DEF IInv, TypeOK, At, IsIdle, Request, Exists, history, SessionsOK, AgreesWith
  <1>1. ASSUME NEW p \in Procs, NEW u \in Users, SignupCheck(p, u) PROVE SessionsOK'
    BY <1>1 DEF SignupCheck
  <1>2. ASSUME NEW p \in Procs, NEW u \in Users, Login(p, u) PROVE SessionsOK'
    <2>1. /\ req'[p].uid \in Users /\ req'[p].row = users[req'[p].uid]
          /\ \A q \in Procs : q # p => req'[q] = req[q]
      BY <1>2 DEF Login, Mails
    <2>2. req'[p].row.version \in Versions
      BY <2>1 DEF Rows
    <2>3. AgreesWith(req'[p].row.version, req'[p].row.hash, users[req'[p].uid])
      BY <2>1, <2>2 DEF Versions
    <2> QED BY <1>2, <2>1, <2>3 DEF Login
  <1>3. ASSUME NEW p \in Procs, NEW m \in inbox, VerifyRead(p, m) PROVE SessionsOK'
    <2>1. /\ req'[p].uid \in Users /\ req'[p].row = users[req'[p].uid]
          /\ \A q \in Procs : q # p => req'[q] = req[q]
      BY <1>3 DEF VerifyRead, Mails
    <2>2. req'[p].row.version \in Versions
      BY <2>1 DEF Rows
    <2>3. AgreesWith(req'[p].row.version, req'[p].row.hash, users[req'[p].uid])
      BY <2>1, <2>2 DEF Versions
    <2> QED BY <1>3, <2>1, <2>3 DEF VerifyRead
  <1>4. ASSUME NEW p \in Procs, NEW m \in inbox, ResetResolve(p, m) PROVE SessionsOK'
    <2>1. /\ req'[p].uid \in Users /\ req'[p].row = users[req'[p].uid]
          /\ \A q \in Procs : q # p => req'[q] = req[q]
      BY <1>4 DEF ResetResolve, ResetTokenResolves, Mails
    <2>2. req'[p].row.version \in Versions
      BY <2>1 DEF Rows
    <2>3. AgreesWith(req'[p].row.version, req'[p].row.hash, users[req'[p].uid])
      BY <2>1, <2>2 DEF Versions
    <2> QED BY <1>4, <2>1, <2>3 DEF ResetResolve, ResetTokenResolves
  <1>5. ASSUME NEW p \in Procs, SignupCommit(p) PROVE SessionsOK'
    <2>1. SignupEffect(p, req[p].uid)
      BY <1>5, SignupStep
    <2>2. \A c \in sessions : c.uid \in Users /\ c.uid # req[p].uid
      BY <2>1 DEF SignupEffect, Cookies
    <2>3. \A q \in Procs : q # p => req'[q] = req[q]
      BY <2>1 DEF SignupEffect
    <2>4. ASSUME NEW q \in Procs, q # p,
                 req[q].pc \in {"welcome", "reply", "verify", "reset"}
          PROVE  users'[req[q].uid] = users[req[q].uid]
      BY <2>1, <2>4 DEF SignupEffect, RequestsOK
    <2>5. AgreesWith(users'[req[p].uid].version, users'[req[p].uid].hash,
                     users'[req[p].uid])
      BY <2>1 DEF SignupEffect
    <2>6. ASSUME NEW c \in sessions
          PROVE  users'[c.uid] = users[c.uid] /\ c.h <= lastHash'
      <3>1. c.h \in Nat /\ c.h <= lastHash /\ lastHash \in Nat
        BY DEF Cookies, Hashes
      <3> QED BY <2>1, <2>2, <3>1 DEF SignupEffect
    <2> QED BY <2>1, <2>3, <2>4, <2>5, <2>6 DEF SignupEffect
  <1>6. ASSUME NEW p \in Procs, SignupCollides(p) \/ Abort(p) PROVE SessionsOK'
    BY <1>6 DEF SignupCollides, Abort
  <1>7. ASSUME NEW p \in Procs, SignupReply(p) \/ SignInReply(p) PROVE SessionsOK'
    <2> DEFINE c == issue_session(req[p].uid, req[p].row)
    <2>1. /\ sessions' = sessions \cup {c}
          /\ req[p].pc \in {"welcome", "reply"}
          /\ UNCHANGED <<users, lastHash, overtaken>>
          /\ req' = [req EXCEPT ![p] = Idle]
      BY <1>7 DEF SignupReply, SignInReply
    <2>2. c.uid = req[p].uid /\ c.v = req[p].row.version /\ c.h = req[p].row.hash
      BY DEF issue_session
    <2>3. Exists(c.uid) /\ c.h <= lastHash
      BY <2>1, <2>2 DEF RequestsOK, RowsOK, RowOK
    <2>4. c.uid \notin overtaken => AgreesWith(c.v, c.h, users[c.uid])
      BY <2>1, <2>2
    <2>5. Idle.pc = "idle"
      OBVIOUS
    <2> QED BY <2>1, <2>3, <2>4, <2>5
  <1>8. ASSUME NEW p \in Procs, VerifyCommit(p) PROVE SessionsOK'
    BY <1>8 DEF VerifyCommit
  <1>9. ASSUME NEW p \in Procs, ResetCommit(p) PROVE SessionsOK'
    <2>1. ResetEffect(p, req[p].uid, req[p].row)
      BY <1>9, ResetStep
    <2> DEFINE u == req[p].uid
    <2>2. /\ \A w \in Users : users[w].hash # 0 => users'[w].hash # 0
          /\ lastHash' = lastHash + 1 /\ sessions' = sessions
      BY <2>1 DEF ResetEffect, Hashes
    <2>3. ASSUME NEW c \in sessions
          PROVE  users'[c.uid].hash # 0 /\ c.h <= lastHash'
      <3>1. c.uid \in Users /\ c.h \in Nat /\ c.h <= lastHash /\ lastHash \in Nat
        BY DEF Cookies, Hashes
      <3> QED BY <2>2, <3>1
    <2>4. ASSUME u \notin overtaken'
          PROVE  /\ u \notin overtaken
                 /\ users'[u].version = users[u].version + 1
                 /\ users[u].version \in Nat
      <3>1. u \notin overtaken /\ users[u].hash = req[p].row.hash
        BY <2>1, <2>4 DEF ResetEffect
      <3>2. req[p].row.version = users[u].version
        BY <1>9, <3>1 DEF ResetCommit
      <3> QED BY <2>1, <3>1, <3>2 DEF ResetEffect, Rows, Versions
    <2>5. ASSUME NEW c \in sessions, c.uid \notin overtaken'
          PROVE  AgreesWith(c.v, c.h, users'[c.uid])
      <3>1. CASE c.uid = u
        <4>1. AgreesWith(c.v, c.h, users[u]) /\ c.v \in Nat /\ c.h \in Nat
          <5>1. u \notin overtaken
            BY <2>4, <2>5, <3>1
          <5>2. c.v \in Nat /\ c.h \in Nat
            BY DEF Cookies, Versions, Hashes
          <5>3. AgreesWith(c.v, c.h, users[c.uid])
            BY <3>1, <5>1
          <5> QED BY <3>1, <5>2, <5>3
        <4>2. c.h <= lastHash /\ lastHash \in Nat /\ users'[u].hash = lastHash + 1
          BY <2>1 DEF ResetEffect, Hashes
        <4>3. users'[u].version = users[u].version + 1 /\ users[u].version \in Nat
          BY <2>4, <2>5, <3>1
        <4> QED BY <3>1, <4>1, <4>2, <4>3
      <3>2. CASE c.uid # u
        BY <2>1, <2>5, <3>2 DEF ResetEffect, Cookies
      <3> QED BY <3>1, <3>2
    <2>6. ASSUME NEW q \in Procs, q # p, req[q].uid \notin overtaken',
                 req[q].pc \in {"welcome", "reply", "verify", "reset"}
          PROVE  AgreesWith(req[q].row.version, req[q].row.hash, users'[req[q].uid])
      <3>1. CASE req[q].uid = u
        <4>1. /\ AgreesWith(req[q].row.version, req[q].row.hash, users[u])
              /\ req[q].row.version \in Nat /\ req[q].row.hash \in Nat
          <5>1. u \notin overtaken
            BY <2>4, <2>6, <3>1
          <5>2. req[q].row.version \in Nat /\ req[q].row.hash \in Nat
            BY DEF Rows, Versions, Hashes
          <5>3. AgreesWith(req[q].row.version, req[q].row.hash, users[req[q].uid])
            BY <2>6, <3>1, <5>1
          <5> QED BY <3>1, <5>2, <5>3
        <4>2. /\ req[q].row.hash <= lastHash
              /\ lastHash \in Nat /\ users'[u].hash = lastHash + 1
          BY <2>1 DEF ResetEffect, Hashes, RowsOK, RowOK
        <4>3. users'[u].version = users[u].version + 1 /\ users[u].version \in Nat
          BY <2>4, <2>6, <3>1
        <4> QED BY <3>1, <4>1, <4>2, <4>3
      <3>2. CASE req[q].uid # u
        BY <2>1, <2>6, <3>2 DEF ResetEffect
      <3> QED BY <3>1, <3>2
    <2>7. AgreesWith(req'[p].row.version, req'[p].row.hash, users'[req'[p].uid])
      BY <2>1 DEF ResetEffect, Rows, Versions
    <2>8. \A q \in Procs : q # p => req'[q] = req[q]
      BY <2>1 DEF ResetEffect
    <2> QED BY <2>2, <2>3, <2>5, <2>6, <2>7, <2>8
  <1>10. ASSUME NEW c \in sessions, resend_verification(c) PROVE SessionsOK'
    BY <1>10 DEF resend_verification
  <1>11. ASSUME NEW u \in Users, forgot_password(u) PROVE SessionsOK'
    BY <1>11 DEF forgot_password
  <1>12. ASSUME NEW u \in Users, Deactivate(u) PROVE SessionsOK'
    BY <1>12 DEF Deactivate
  <1>13. ASSUME NEW m \in pending, Deliver(m) \/ LoseMail(m) PROVE SessionsOK'
    BY <1>13 DEF Deliver, LoseMail
  <1>14. CASE UNCHANGED vars
    BY <1>14 DEF vars, system
  <1> QED
    BY <1>1, <1>2, <1>3, <1>4, <1>5, <1>6, <1>7, <1>8, <1>9, <1>10, <1>11, <1>12, <1>13, <1>14 DEF Next, Arrive, Proceed

\* No step verifies an address no mail has reached.
LEMMA VerifiedPreserved == IInv /\ [Next]_vars => VerifiedByInbox'
  <1> SUFFICES ASSUME IInv, [Next]_vars PROVE VerifiedByInbox'
    OBVIOUS
  <1> USE AccountsAssumption, HelperTypes, TypePreserved
  <1> USE DEF IInv, TypeOK, At, IsIdle, Request, Exists, history, VerifiedByInbox
  <1>1. ASSUME NEW p \in Procs, NEW u \in Users, SignupCheck(p, u) PROVE VerifiedByInbox'
    BY <1>1 DEF SignupCheck
  <1>2. ASSUME NEW p \in Procs, NEW u \in Users, Login(p, u) PROVE VerifiedByInbox'
    BY <1>2 DEF Login
  <1>3. ASSUME NEW p \in Procs, NEW m \in inbox, VerifyRead(p, m) PROVE VerifiedByInbox'
    BY <1>3 DEF VerifyRead, Mails
  <1>4. ASSUME NEW p \in Procs, NEW m \in inbox, ResetResolve(p, m) PROVE VerifiedByInbox'
    BY <1>4 DEF ResetResolve, ResetTokenResolves, ResetMailFor, Mails
  <1>5. ASSUME NEW p \in Procs, SignupCommit(p) PROVE VerifiedByInbox'
    <2>1. SignupEffect(p, req[p].uid)
      BY <1>5, SignupStep
    <2> QED BY <2>1 DEF SignupEffect
  <1>6. ASSUME NEW p \in Procs, SignupCollides(p) \/ Abort(p) PROVE VerifiedByInbox'
    BY <1>6 DEF SignupCollides, Abort
  <1>7. ASSUME NEW p \in Procs, SignupReply(p) \/ SignInReply(p) PROVE VerifiedByInbox'
    BY <1>7 DEF SignupReply, SignInReply
  <1>8. ASSUME NEW p \in Procs, VerifyCommit(p) PROVE VerifiedByInbox'
    <2>1. \E m \in inbox : m.to = req[p].uid
      BY <1>8 DEF VerifyCommit, RequestsOK
    <2>2. ASSUME NEW w \in Users, w # req[p].uid PROVE users'[w] = users[w]
      BY <1>8, <2>2 DEF VerifyCommit
    <2> QED BY <1>8, <2>1, <2>2 DEF VerifyCommit
  <1>9. ASSUME NEW p \in Procs, ResetCommit(p) PROVE VerifiedByInbox'
    <2>1. ResetEffect(p, req[p].uid, req[p].row)
      BY <1>9, ResetStep
    <2>2. \E m \in inbox : m.to = req[p].uid
      BY <1>9 DEF ResetCommit, RequestsOK
    <2>3. ASSUME NEW w \in Users, w # req[p].uid PROVE users'[w] = users[w]
      BY <2>1, <2>3 DEF ResetEffect
    <2> QED BY <2>1, <2>2, <2>3 DEF ResetEffect
  <1>10. ASSUME NEW c \in sessions, resend_verification(c) PROVE VerifiedByInbox'
    BY <1>10 DEF resend_verification
  <1>11. ASSUME NEW u \in Users, forgot_password(u) PROVE VerifiedByInbox'
    BY <1>11 DEF forgot_password
  <1>12. ASSUME NEW u \in Users, Deactivate(u) PROVE VerifiedByInbox'
    BY <1>12 DEF Deactivate
  <1>13. ASSUME NEW m \in pending, Deliver(m) \/ LoseMail(m) PROVE VerifiedByInbox'
    BY <1>13 DEF Deliver, LoseMail
  <1>14. CASE UNCHANGED vars
    BY <1>14 DEF vars, system
  <1> QED
    BY <1>1, <1>2, <1>3, <1>4, <1>5, <1>6, <1>7, <1>8, <1>9, <1>10, <1>11, <1>12, <1>13, <1>14 DEF Next, Arrive, Proceed

\* The steps that leave the users table alone.
LEMMA TableSteps ==
    ASSUME [Next]_vars
    PROVE  \/ UNCHANGED users
           \/ \E p \in Procs : SignupCommit(p) \/ VerifyCommit(p) \/ ResetCommit(p)
           \/ \E u \in Users : Deactivate(u)
  BY DEF Next, Arrive, Proceed, SignupCheck, Login, VerifyRead, ResetResolve,
         SignupCollides, SignupReply, SignInReply, Abort, resend_verification,
         forgot_password, Deliver, LoseMail, vars, system

\* No step verifies an address that has no account.
LEMMA UnregisteredPreserved == IInv /\ [Next]_vars => UnregisteredOK'
  <1> SUFFICES ASSUME IInv, [Next]_vars, NEW u \in Users, users'[u].hash = 0
               PROVE  users'[u].verified = FALSE
    BY DEF UnregisteredOK
  <1> USE DEF IInv, TypeOK
  <1>1. CASE UNCHANGED users
    BY <1>1 DEF UnregisteredOK
  <1>2. ASSUME NEW p \in Procs, SignupCommit(p) PROVE users'[u].verified = FALSE
    <2>1. SignupEffect(p, req[p].uid)
      BY <1>2, SignupStep
    <2> QED BY <2>1 DEF SignupEffect, UnregisteredOK
  <1>3. ASSUME NEW p \in Procs, VerifyCommit(p) PROVE users'[u].verified = FALSE
    <2>1. users[req[p].uid].hash # 0
      BY <1>3 DEF VerifyCommit, At, RequestsOK, Exists
    <2>2. CASE u = req[p].uid
      <3>1. users'[u].hash = users[u].hash
        BY <1>3 DEF VerifyCommit, Rows
      <3> QED BY <2>1, <2>2, <3>1
    <2>3. CASE u # req[p].uid
      BY <1>3, <2>3 DEF VerifyCommit, UnregisteredOK
    <2> QED BY <2>2, <2>3
  <1>4. ASSUME NEW p \in Procs, ResetCommit(p) PROVE users'[u].verified = FALSE
    <2>1. ResetEffect(p, req[p].uid, req[p].row)
      BY <1>4, ResetStep
    <2>2. u # req[p].uid
      BY <2>1 DEF ResetEffect, Hashes
    <2> QED BY <2>1, <2>2 DEF ResetEffect, UnregisteredOK
  <1>5. ASSUME NEW w \in Users, Deactivate(w) PROVE users'[u].verified = FALSE
    BY <1>5 DEF Deactivate, Rows, UnregisteredOK
  <1> QED BY <1>1, <1>2, <1>3, <1>4, <1>5, TableSteps

-----------------------------------------------------------------------------
(* The theorems. *)

\* The invariant is inductive.
LEMMA NextIInv == IInv /\ [Next]_vars => IInv'
  BY TypePreserved, RowsPreserved, RequestsPreserved, SpentPreserved,
     SessionsPreserved, VerifiedPreserved, UnregisteredPreserved
     DEF IInv

\* The inductive invariant holds in every reachable state.
THEOREM Inductive == Spec => []IInv
  BY InitIInv, NextIInv, PTL DEF Spec

\* Every variable keeps its type, whatever the sizes of the instance.
THEOREM TypeCorrect == Spec => []TypeOK
  <1>1. IInv => TypeOK
    BY DEF IInv
  <1> QED BY <1>1, Inductive, PTL

\* A reset link is dead once a reset has been committed with it.
THEOREM SpentLinksAreDead == Spec => []SpentTokenDead
  <1>1. IInv => SpentTokenDead
    BY DEF IInv, TypeOK, SpentOK, SpentTokenDead, Tokens, Hashes, Rows
  <1> QED BY <1>1, Inductive, PTL

\* Where resets of an account do not overtake one another, a reset signs out
\* every session opened under an earlier password.
THEOREM ResetSignsOut == Spec => []SessionBoundToPassword
  <1>1. IInv => SessionBoundToPassword
    BY DEF IInv, SessionsOK, AgreesWith, SessionBoundToPassword, Authorised
  <1> QED BY <1>1, Inductive, PTL

\* Only mail that reached an address makes it verified.
THEOREM VerifiedMeansReached == Spec => []VerifiedByInbox
  <1>1. IInv => VerifiedByInbox
    BY DEF IInv
  <1> QED BY <1>1, Inductive, PTL

\* An account's password changes only with a link its own address received.
THEOREM PasswordChangesByLink == Spec => PasswordChangeNeedsInbox
  <1> DEFINE Allowed(u) ==
        Exists(u) /\ users'[u].hash # users[u].hash
          => \E m \in inbox : /\ m.kind = "reset"
                              /\ m.to = u
                              /\ [to |-> u, fp |-> m.fp] \in spent'
  <1>1. ASSUME IInv, [Next]_vars, NEW u \in Users PROVE Allowed(u)
    <2>1. CASE UNCHANGED users
      BY <2>1
    <2>2. ASSUME NEW p \in Procs, SignupCommit(p) PROVE Allowed(u)
      <3>1. SignupEffect(p, req[p].uid)
        BY <1>1, <2>2, SignupStep
      <3> QED BY <3>1 DEF SignupEffect, Exists
    <2>3. ASSUME NEW p \in Procs, VerifyCommit(p) PROVE Allowed(u)
      BY <1>1, <2>3 DEF VerifyCommit, IInv, TypeOK, Rows
    <2>4. ASSUME NEW p \in Procs, ResetCommit(p) PROVE Allowed(u)
      <3>1. ResetEffect(p, req[p].uid, req[p].row)
        BY <1>1, <2>4, ResetStep
      <3>2. ResetMailFor(req[p].uid, req[p].row.hash) \in inbox
        BY <1>1, <2>4 DEF ResetCommit, At, IInv, RequestsOK
      <3>3. CASE u = req[p].uid
        BY <3>1, <3>2, <3>3 DEF ResetEffect, ResetMailFor
      <3>4. CASE u # req[p].uid
        BY <3>1, <3>4 DEF ResetEffect
      <3> QED BY <3>3, <3>4
    <2>5. ASSUME NEW w \in Users, Deactivate(w) PROVE Allowed(u)
      BY <1>1, <2>5 DEF Deactivate, IInv, TypeOK, Rows
    <2> QED BY <1>1, <2>1, <2>2, <2>3, <2>4, <2>5, TableSteps
  <1>2. IInv /\ [Next]_vars => [\A u \in Users : Allowed(u)]_vars
    BY <1>1
  <1> QED BY <1>2, Inductive, PTL DEF Spec, PasswordChangeNeedsInbox

\* What no step takes back of an account.
Kept(u) ==
    /\ Exists(u) => users'[u].hash # 0
    /\ users[u].verified => users'[u].verified
    /\ Exists(u) /\ ~users[u].active => ~users'[u].active

\* Of every step, one by one.
LEMMA StepKeeps == ASSUME IInv, [Next]_vars, NEW u \in Users PROVE Kept(u)
  <1> USE DEF Kept
  <1>1. CASE UNCHANGED users
    BY <1>1 DEF Exists
  <1>2. ASSUME NEW p \in Procs, SignupCommit(p) PROVE Kept(u)
    <2>1. SignupEffect(p, req[p].uid)
      BY <1>2, SignupStep
    <2>2. CASE u # req[p].uid
      BY <2>1, <2>2 DEF SignupEffect, Exists
    <2>3. CASE u = req[p].uid
      <3>1. ~Exists(u)
        BY <2>1, <2>3 DEF SignupEffect, Exists
      <3>2. ~users[u].verified
        BY <3>1 DEF IInv, UnregisteredOK, Exists
      <3> QED BY <3>1, <3>2
    <2> QED BY <2>2, <2>3
  <1>3. ASSUME NEW p \in Procs, VerifyCommit(p) PROVE Kept(u)
    BY <1>3 DEF VerifyCommit, IInv, TypeOK, Rows, Exists
  <1>4. ASSUME NEW p \in Procs, ResetCommit(p) PROVE Kept(u)
    <2>1. ResetEffect(p, req[p].uid, req[p].row)
      BY <1>4, ResetStep
    <2>2. CASE u = req[p].uid
      <3>1. users'[u].hash # 0
        BY <2>1, <2>2 DEF ResetEffect, IInv, TypeOK, Hashes
      <3>2. users'[u].verified = TRUE /\ users'[u].active = users[u].active
        BY <2>1, <2>2 DEF ResetEffect
      <3> QED BY <3>1, <3>2
    <2>3. CASE u # req[p].uid
      BY <2>1, <2>3 DEF ResetEffect, Exists
    <2> QED BY <2>2, <2>3
  <1>5. ASSUME NEW w \in Users, Deactivate(w) PROVE Kept(u)
    BY <1>5 DEF Deactivate, IInv, TypeOK, Rows, Exists
  <1> QED BY <1>1, <1>2, <1>3, <1>4, <1>5, TableSteps

\* No commit undoes a registration, a verification or a deactivation.
THEOREM NothingIsUndone == Spec => CommitsStick
  <1>1. IInv /\ [Next]_vars
          => [\A u \in Users :
                /\ Exists(u) => users'[u].hash # 0
                /\ users[u].verified => users'[u].verified
                /\ Exists(u) /\ ~users[u].active => ~users'[u].active]_vars
    BY StepKeeps DEF Kept
  <1> QED BY <1>1, Inductive, PTL DEF Spec, CommitsStick

-----------------------------------------------------------------------------
(* What a lock on the account's row would give.                             *)
(*                                                                          *)
(* Two sentences about resets are false of this code, and the runs show it: *)
(* a link works once (ResetLinkWorksOnce), and a reset signs out every other *)
(* session (ResetSignsOutEverySession).  Both need no more than that the     *)
(* resets of one account come one after the other, as they would if the row  *)
(* were locked from the reading of its hash to the commit; the rest of the   *)
(* handlers may interleave as they like, sign-ins and sign-outs included.    *)

\* No two requests are both between reading and resetting the same account.
ResetsApart ==
    \A p, q \in Procs :
        At(p, "reset") /\ At(q, "reset") /\ req[p].uid = req[q].uid => p = q

\* The hash a reset loaded is still the account's, and no reset has been overtaken.
Current ==
    /\ \A p \in Procs : At(p, "reset") => users[req[p].uid].hash = req[p].row.hash
    /\ overtaken = {}

\* The steps that open a reset, and those that write the history of resets.
LEMMA ResetSteps ==
    ASSUME TypeOK, [Next]_vars
    PROVE  /\ \A p \in Procs : At(p, "reset")' =>
                 \/ req'[p] = req[p]
                 \/ req'[p].row = users[req'[p].uid] /\ UNCHANGED users
           /\ UNCHANGED overtaken \/ \E p \in Procs : ResetCommit(p)
  <1> USE DEF TypeOK, At, Request, Idle, history
  <1> DEFINE Ok == /\ \A q \in Procs : req'[q].pc = "reset" =>
                         \/ req'[q] = req[q]
                         \/ req'[q].row = users[req'[q].uid] /\ UNCHANGED users
                   /\ UNCHANGED overtaken \/ \E q \in Procs : ResetCommit(q)
  <1>1. ASSUME NEW p \in Procs, NEW u \in Users, SignupCheck(p, u) \/ Login(p, u) PROVE Ok
    BY <1>1 DEF SignupCheck, Login
  <1>2. ASSUME NEW p \in Procs, NEW m \in inbox, VerifyRead(p, m) PROVE Ok
    BY <1>2 DEF VerifyRead
  <1>3. ASSUME NEW p \in Procs, NEW m \in inbox, ResetResolve(p, m) PROVE Ok
    BY <1>3 DEF ResetResolve
  <1>4. ASSUME NEW p \in Procs, SignupCommit(p) \/ SignupCollides(p) \/ Abort(p) PROVE Ok
    BY <1>4 DEF SignupCommit, SignupCollides, Abort
  <1>5. ASSUME NEW p \in Procs, SignupReply(p) \/ SignInReply(p) \/ VerifyCommit(p) PROVE Ok
    BY <1>5 DEF SignupReply, SignInReply, VerifyCommit
  <1>6. ASSUME NEW p \in Procs, ResetCommit(p) PROVE Ok
    BY <1>6 DEF ResetCommit
  <1>7. CASE UNCHANGED <<users, req, overtaken>>
    BY <1>7
  <1> QED
    BY <1>1, <1>2, <1>3, <1>4, <1>5, <1>6, <1>7
       DEF Next, Arrive, Proceed, resend_verification, forgot_password, Deactivate,
           Deliver, LoseMail, vars, system

\* While resets of an account come one by one, no step makes a loaded hash stale.
LEMMA CurrentPreserved == IInv /\ ResetsApart /\ Current /\ [Next]_vars => Current'
  <1> SUFFICES ASSUME IInv, ResetsApart, Current, [Next]_vars PROVE Current'
    OBVIOUS
  <1> USE DEF IInv, At
  <1>1. ASSUME NEW p \in Procs, At(p, "reset")', req'[p] = req[p]
        PROVE  users'[req[p].uid].hash = req[p].row.hash
    <2>1. /\ At(p, "reset") /\ users[req[p].uid].hash = req[p].row.hash
          /\ req[p].uid \in Users /\ Exists(req[p].uid)
      BY <1>1 DEF Current, TypeOK, RequestsOK
    <2>2. CASE UNCHANGED users
      BY <2>1, <2>2
    <2>3. ASSUME NEW q \in Procs, SignupCommit(q)
          PROVE  users'[req[p].uid] = users[req[p].uid]
      <3>1. SignupEffect(q, req[q].uid)
        BY <2>3, SignupStep
      <3> QED BY <2>1, <3>1 DEF SignupEffect, Exists
    <2>4. ASSUME NEW q \in Procs, VerifyCommit(q)
          PROVE  users'[req[p].uid].hash = users[req[p].uid].hash
      BY <2>1, <2>4 DEF VerifyCommit, TypeOK, Rows
    <2>5. ASSUME NEW q \in Procs, ResetCommit(q)
          PROVE  users'[req[p].uid] = users[req[p].uid]
      <3>1. ResetEffect(q, req[q].uid, req[q].row)
        BY <2>5, ResetStep
      <3>2. q # p
        BY <1>1, <3>1 DEF ResetEffect
      <3>3. req[q].uid # req[p].uid
        BY <2>1, <2>5, <3>2 DEF ResetCommit, ResetsApart
      <3> QED BY <2>1, <3>1, <3>3 DEF ResetEffect
    <2>6. ASSUME NEW w \in Users, Deactivate(w)
          PROVE  users'[req[p].uid].hash = users[req[p].uid].hash
      BY <2>1, <2>6 DEF Deactivate, TypeOK, Rows
    <2> QED BY <2>1, <2>2, <2>3, <2>4, <2>5, <2>6, TableSteps
  <1>2. ASSUME NEW p \in Procs, At(p, "reset")'
        PROVE  users'[req'[p].uid].hash = req'[p].row.hash
    BY <1>1, <1>2, ResetSteps
  <1>3. ASSUME NEW p \in Procs, ResetCommit(p) PROVE overtaken' = overtaken
    <2>1. ResetEffect(p, req[p].uid, req[p].row)
      BY <1>3, ResetStep
    <2>2. users[req[p].uid].hash = req[p].row.hash
      BY <1>3 DEF ResetCommit, Current
    <2> QED BY <2>1, <2>2 DEF ResetEffect
  <1>4. overtaken' = {}
    BY <1>3, ResetSteps DEF Current
  <1> QED BY <1>2, <1>4 DEF Current

\* While resets of an account come one by one, every reset commits against the
\* hash it loaded.
LEMMA CurrentInductive == Spec /\ []ResetsApart => []Current
  <1>1. Init => Current
    BY DEF Init, Current, At, Idle, Request
  <1> QED BY <1>1, CurrentPreserved, Inductive, PTL DEF Spec

\* With the resets of one account one after the other, a link in a mail works
\* once, as the mail says (src/app/email.py:146).
THEOREM LinksWorkOnceApart == Spec /\ []ResetsApart => ResetLinkWorksOnce
  <1> DEFINE First(p) ==
        ResetCommit(p) => [to |-> req[p].uid, fp |-> req[p].row.hash] \notin spent
  <1>1. ASSUME IInv, Current, NEW p \in Procs PROVE First(p)
    <2>1. SpentTokenDead
      BY <1>1 DEF IInv, TypeOK, SpentOK, SpentTokenDead, Tokens, Hashes, Rows
    <2> QED BY <1>1, <2>1 DEF SpentTokenDead, Current, ResetCommit
  <1>2. IInv /\ Current /\ [Next]_vars => [\A p \in Procs : First(p)]_vars
    BY <1>1
  <1> QED BY <1>2, Inductive, CurrentInductive, PTL DEF Spec, ResetLinkWorksOnce

\* With the resets of one account one after the other, a reset signs out every
\* session opened under an earlier password (src/app/auth.py:148-149).
THEOREM SignsOutAllApart == Spec /\ []ResetsApart => []ResetSignsOutEverySession
  <1>1. IInv /\ Current => ResetSignsOutEverySession
    BY DEF IInv, Current, SessionsOK, AgreesWith, ResetSignsOutEverySession, Authorised
  <1> QED BY <1>1, Inductive, CurrentInductive, PTL

-----------------------------------------------------------------------------
(* Accounts implements Identity.                                           *)

\* Letters are under way to registered addresses only, and a reset letter names a
\* password that was set.
LettersOK ==
    \A m \in pending \cup inbox :
        /\ Exists(m.to)
        /\ m.kind = "reset" => m.fp \in 1 .. lastHash

\* What is not registered was not switched off.
OffOK == \A u \in Users : users[u].hash = 0 => users[u].active = FALSE

\* What a step adds to the mail is for a registered address, and names its password.
LEMMA NewLetters ==
    ASSUME IInv, [Next]_vars, NEW m \in pending' \cup inbox'
    PROVE  \/ m \in pending \cup inbox
           \/ /\ m.to \in Users /\ Exists(m.to)
              /\ m.kind = "reset" => m.fp = users[m.to].hash
  <1> USE DEF IInv, TypeOK
  <1>1. CASE UNCHANGED <<pending, inbox>>
    BY <1>1
  <1>2. ASSUME NEW p \in Procs, SignupReply(p)
        PROVE  m \in pending \cup inbox \/ (m = VerifyMail(req[p].uid))
    BY <1>2 DEF SignupReply
  <1>3. ASSUME NEW p \in Procs, SignupReply(p)
        PROVE  req[p].uid \in Users /\ Exists(req[p].uid)
    BY <1>3 DEF SignupReply, At, RequestsOK
  <1>4. ASSUME NEW c \in sessions, resend_verification(c)
        PROVE  /\ m \in pending \cup inbox \/ m = VerifyMail(c.uid)
               /\ c.uid \in Users /\ Exists(c.uid)
    BY <1>4 DEF resend_verification, Authorised, Cookies
  <1>5. ASSUME NEW u \in Users, forgot_password(u)
        PROVE  /\ m \in pending \cup inbox \/ m = ResetMail(u)
               /\ Exists(u)
    BY <1>5 DEF forgot_password
  <1>6. ASSUME NEW n \in pending, Deliver(n) \/ LoseMail(n)
        PROVE  m \in pending \cup inbox
    BY <1>6 DEF Deliver, LoseMail
  <1>7. \/ UNCHANGED <<pending, inbox>>
        \/ \E p \in Procs : SignupReply(p)
        \/ \E c \in sessions : resend_verification(c)
        \/ \E u \in Users : forgot_password(u)
        \/ \E n \in pending : Deliver(n) \/ LoseMail(n)
    BY DEF Next, Arrive, Proceed, SignupCheck, Login, VerifyRead, ResetResolve, SignupCommit,
           SignupCollides, SignInReply, VerifyCommit, ResetCommit, Abort, Deactivate,
           vars, system
  <1>8. \A u \in Users : /\ VerifyMail(u).to = u /\ VerifyMail(u).kind = "verify"
                         /\ ResetMail(u).to = u /\ ResetMail(u).fp = users[u].hash
    BY DEF VerifyMail, ResetMail, ResetMailFor
  <1> QED BY <1>1, <1>2, <1>3, <1>4, <1>5, <1>6, <1>7, <1>8

\* Hashes are drawn one after another.
LEMMA HashSteps ==
    ASSUME IInv, [Next]_vars
    PROVE  lastHash \in Nat /\ lastHash' \in {lastHash, lastHash + 1}
  <1>1. lastHash \in Nat
    BY DEF IInv, TypeOK, Hashes
  <1>2. lastHash' \in {lastHash, lastHash + 1}
    BY DEF Next, Arrive, Proceed, SignupCheck, Login, VerifyRead, ResetResolve, SignupCommit,
           SignupCollides, SignupReply, SignInReply, VerifyCommit, ResetCommit, Abort,
           resend_verification, forgot_password, Deliver, LoseMail, Deactivate, vars, system
  <1> QED BY <1>1, <1>2

\* No letter goes astray.
LEMMA LettersPreserved == IInv /\ LettersOK /\ [Next]_vars => LettersOK'
  <1> SUFFICES ASSUME IInv, LettersOK, [Next]_vars, NEW m \in pending' \cup inbox'
               PROVE  Exists(m.to)' /\ (m.kind = "reset" => m.fp \in 1 .. lastHash')
    BY DEF LettersOK
  <1>1. m \in Mails
    BY TypePreserved DEF TypeOK
  <1>2. m.to \in Users
    BY <1>1 DEF Mails
  <1>3. Exists(m.to) => Exists(m.to)'
    BY <1>2, StepKeeps DEF Kept, Exists
  <1>4. lastHash \in Nat /\ lastHash' \in {lastHash, lastHash + 1}
    BY HashSteps
  <1>5. CASE m \in pending \cup inbox
    BY <1>3, <1>4, <1>5 DEF LettersOK
  <1>6. CASE Exists(m.to) /\ (m.kind = "reset" => m.fp = users[m.to].hash)
    <2>1. users[m.to].hash \in Nat /\ users[m.to].hash <= lastHash /\ users[m.to].hash # 0
      BY <1>2, <1>6 DEF IInv, TypeOK, RowsOK, RowOK, Rows, Hashes, Exists
    <2> QED BY <1>3, <1>4, <1>6, <2>1
  <1> QED BY <1>5, <1>6, NewLetters

\* Only a registered account is on.
LEMMA OffPreserved == IInv /\ OffOK /\ [Next]_vars => OffOK'
  <1> SUFFICES ASSUME IInv, OffOK, [Next]_vars, NEW u \in Users, users'[u].hash = 0
               PROVE  users'[u].active = FALSE
    BY DEF OffOK
  <1> USE DEF IInv, TypeOK
  <1>1. users[u].hash = 0 /\ users[u].active = FALSE
    BY StepKeeps DEF Kept, Exists, OffOK
  <1>2. CASE UNCHANGED users
    BY <1>1, <1>2
  <1>3. ASSUME NEW p \in Procs, SignupCommit(p) PROVE users'[u].active = FALSE
    <2>1. SignupEffect(p, req[p].uid)
      BY <1>3, SignupStep
    <2> QED BY <1>1, <2>1 DEF SignupEffect, Hashes
  <1>4. ASSUME NEW p \in Procs, VerifyCommit(p) PROVE users'[u].active = FALSE
    BY <1>1, <1>4 DEF VerifyCommit, Rows
  <1>5. ASSUME NEW p \in Procs, ResetCommit(p) PROVE users'[u].active = FALSE
    <2>1. ResetEffect(p, req[p].uid, req[p].row)
      BY <1>5, ResetStep
    <2> QED BY <1>1, <2>1 DEF ResetEffect, Exists
  <1>6. ASSUME NEW w \in Users, Deactivate(w) PROVE users'[u].active = FALSE
    BY <1>1, <1>6 DEF Deactivate, Rows
  <1> QED BY <1>2, <1>3, <1>4, <1>5, <1>6, TableSteps

\* Requests elsewhere follow nothing.
LEMMA FollowingSame ==
    ASSUME NEW p \in Procs, \A q \in Procs : q # p => req'[q] = req[q],
           ~At(p, "reset"), ~At(p, "reset")'
    PROVE  Following' = Following
  <1>1. \A q \in Procs : /\ At(q, "reset") <=> At(q, "reset")'
                         /\ At(q, "reset") => req'[q] = req[q]
    BY DEF At
  <1> QED BY <1>1 DEF Following

\* A request that comes to follow a letter.
LEMMA FollowingGrows ==
    ASSUME NEW p \in Procs, \A q \in Procs : q # p => req'[q] = req[q],
           ~At(p, "reset"), At(p, "reset")'
    PROVE  Following' = Following \cup {[to |-> req'[p].uid, fp |-> req'[p].row.hash]}
  <1>1. \A q \in Procs : q # p => /\ At(q, "reset") <=> At(q, "reset")'
                                  /\ req'[q] = req[q]
    BY DEF At
  <1> QED BY <1>1 DEF Following

\* A request that has followed a letter, or given up; another may follow it still.
LEMMA FollowingShrinks ==
    ASSUME NEW p \in Procs, \A q \in Procs : q # p => req'[q] = req[q],
           At(p, "reset"), ~At(p, "reset")'
    PROVE  LET f == [to |-> req[p].uid, fp |-> req[p].row.hash]
           IN  f \in Following /\ Following' \in {Following, Following \ {f}}
  <1> DEFINE f == [to |-> req[p].uid, fp |-> req[p].row.hash]
  <1>1. \A q \in Procs : q # p => /\ At(q, "reset") <=> At(q, "reset")'
                                  /\ req'[q] = req[q]
    BY DEF At
  <1>2. f \in Following
    BY DEF Following
  <1>3. Following' \subseteq Following
    BY <1>1 DEF Following
  <1>4. \A g \in Following : g # f => g \in Following'
    BY <1>1 DEF Following
  <1>5. Following' = Following \/ Following' = Following \ {f}
    BY <1>3, <1>4
  <1> QED BY <1>2, <1>5

\* The next hash is a password nobody has had.
LEMMA SetsNext ==
    ASSUME IInv, TypeOK', NEW u \in Users, lastHash < MaxHash, lastHash' = lastHash + 1,
           users'[u].hash = lastHash + 1,
           \A w \in Users : w # u => users'[w] = users[w]
    PROVE  \E h \in 1 .. MaxHash : TheIdentity!Sets(u, h)
  <1> DEFINE password == [w \in Users |-> users[w].hash]
  <1> PICK h : h = lastHash + 1
    OBVIOUS
  <1>1. lastHash \in Nat /\ MaxHash \in Nat
    BY AccountsAssumption DEF IInv, TypeOK, Hashes
  <1>2. h \in 1 .. MaxHash /\ h \notin 1 .. lastHash
    BY <1>1
  <1>3. 1 .. lastHash' = (1 .. lastHash) \cup {h}
    BY <1>1
  <1>4. password' = [password EXCEPT ![u] = h]
    BY DEF TypeOK
  <1>5. TheIdentity!Sets(u, h)
    BY <1>2, <1>3, <1>4 DEF TheIdentity!Sets
  <1> QED BY <1>2, <1>5

\* The initial states of Accounts are those of Identity.
LEMMA IdentityInit == Init => TheIdentity!Init
  <1> SUFFICES ASSUME Init PROVE TheIdentity!Init
    OBVIOUS
  <1>1. Following = {}
    BY DEF Init, Following, At, Idle, Request
  <1>2. {u \in Users : users[u].verified} = {} /\ {u \in Users : Exists(u) /\ ~users[u].active} = {}
    BY DEF Init, NoRow, Exists
  <1>3. [u \in Users |-> users[u].hash] = [u \in Users |-> 0]
    BY DEF Init, NoRow
  <1>4. 1 .. lastHash = {}
    BY DEF Init
  <1>5. inbox = {}
    BY DEF Init
  <1> QED BY <1>1, <1>2, <1>3, <1>4, <1>5 DEF TheIdentity!Init

\* Every step of Accounts is a step of Identity, or none.
LEMMA IdentityStep ==
    IInv /\ LettersOK /\ OffOK /\ [Next]_vars => [TheIdentity!Next]_(TheIdentity!vars)
  <1> SUFFICES ASSUME IInv, LettersOK, OffOK, [Next]_vars
               PROVE  [TheIdentity!Next]_(TheIdentity!vars)
    OBVIOUS
  <1> DEFINE proven == {u \in Users : users[u].verified}
             off == {u \in Users : Exists(u) /\ ~users[u].active}
             password == [u \in Users |-> users[u].hash]
  <1>0. TypeOK /\ TypeOK'
    BY TypePreserved DEF IInv
  <1>1. CASE UNCHANGED <<users, lastHash, inbox, Following>>
    BY <1>1 DEF TheIdentity!vars, Exists
  <1>2. ASSUME NEW p \in Procs, NEW u \in Users, SignupCheck(p, u) \/ Login(p, u)
        PROVE  UNCHANGED <<users, lastHash, inbox, Following>>
    <2>1. \A q \in Procs : q # p => req'[q] = req[q]
      BY <1>0, <1>2 DEF SignupCheck, Login, TypeOK
    <2>2. ~At(p, "reset") /\ ~At(p, "reset")'
      BY <1>0, <1>2 DEF SignupCheck, Login, TypeOK, At, IsIdle, Idle, Request
    <2> QED BY <1>2, <2>1, <2>2, FollowingSame DEF SignupCheck, Login
  <1>3. ASSUME NEW p \in Procs, NEW m \in inbox, VerifyRead(p, m)
        PROVE  UNCHANGED <<users, lastHash, inbox, Following>>
    <2>1. \A q \in Procs : q # p => req'[q] = req[q]
      BY <1>0, <1>3 DEF VerifyRead, TypeOK
    <2>2. ~At(p, "reset") /\ ~At(p, "reset")'
      BY <1>0, <1>3 DEF VerifyRead, TypeOK, At, IsIdle, Idle, Request
    <2> QED BY <1>3, <2>1, <2>2, FollowingSame DEF VerifyRead
  <1>4. ASSUME NEW p \in Procs, SignupCollides(p) \/ SignupReply(p) \/ SignInReply(p)
        PROVE  UNCHANGED <<users, lastHash, inbox, Following>>
    <2>1. \A q \in Procs : q # p => req'[q] = req[q]
      BY <1>0, <1>4 DEF SignupCollides, SignupReply, SignInReply, TypeOK
    <2>2. ~At(p, "reset") /\ ~At(p, "reset")'
      BY <1>0, <1>4 DEF SignupCollides, SignupReply, SignInReply, TypeOK, At, Idle, Request
    <2> QED BY <1>4, <2>1, <2>2, FollowingSame DEF SignupCollides, SignupReply, SignInReply
  <1>5. ASSUME NEW c \in sessions, resend_verification(c)
        PROVE  UNCHANGED <<users, lastHash, inbox, Following>>
    BY <1>5 DEF resend_verification, Following, At
  <1>6. ASSUME NEW u \in Users, forgot_password(u)
        PROVE  UNCHANGED <<users, lastHash, inbox, Following>>
    BY <1>6 DEF forgot_password, Following, At
  <1>7. ASSUME NEW m \in pending, LoseMail(m)
        PROVE  UNCHANGED <<users, lastHash, inbox, Following>>
    BY <1>7 DEF LoseMail, Following, At
  <1>8. ASSUME NEW p \in Procs, SignupCommit(p) PROVE TheIdentity!Next
    <2> PICK u : u = req[p].uid
      OBVIOUS
    <2>1. SignupEffect(p, u) /\ u \in Users /\ lastHash < MaxHash
      BY <1>8, SignupStep DEF SignupEffect, SignupCommit
    <2>2. ~At(p, "reset") /\ ~At(p, "reset")'
      BY <1>8, <2>1 DEF SignupCommit, At, SignupEffect
    <2>3. Following' = Following
      BY <2>1, <2>2, FollowingSame DEF SignupEffect
    <2>4. \E h \in 1 .. MaxHash : TheIdentity!Sets(u, h)
      BY <1>0, <2>1, SetsNext DEF SignupEffect
    <2>5. ~users[u].verified /\ ~Exists(u) /\ ~users'[u].verified /\ users'[u].active
      BY <2>1 DEF SignupEffect, IInv, UnregisteredOK, Exists
    <2>6. proven' = proven /\ off' = off
      BY <2>1, <2>5 DEF SignupEffect, Exists
    <2>7. inbox' = inbox
      BY <2>1 DEF SignupEffect
    <2>8. TheIdentity!Register(u)
      BY <2>1, <2>3, <2>4, <2>5, <2>6, <2>7 DEF TheIdentity!Register, TheIdentity!Registered, Exists
    <2> QED BY <2>1, <2>8 DEF TheIdentity!Next
  <1>9. ASSUME NEW m \in pending, Deliver(m) PROVE TheIdentity!Next
    <2>1. m \in Mails /\ Following' = Following
      BY <1>0, <1>9 DEF Deliver, Following, At, TypeOK
    <2>2. /\ m.to \in Users /\ m.kind \in {"verify", "reset"} /\ m.fp \in 1 .. MaxHash \cup {0}
          /\ m = [kind |-> m.kind, to |-> m.to, fp |-> m.fp]
      BY <2>1, AccountsAssumption DEF Mails, Hashes
    <2>3. Exists(m.to) /\ (m.kind = "reset" => m.fp \in 1 .. lastHash)
      BY DEF LettersOK
    <2>4. TheIdentity!Write(m)
      BY <1>9, <2>1, <2>2, <2>3
         DEF Deliver, TheIdentity!Write, TheIdentity!Registered, Exists, history
    <2> QED BY <2>2, <2>4 DEF TheIdentity!Next
  <1>10. ASSUME NEW p \in Procs, VerifyCommit(p) PROVE [TheIdentity!Next]_(TheIdentity!vars)
    <2> PICK u : u = req[p].uid
      OBVIOUS
    <2>1. \A q \in Procs : q # p => req'[q] = req[q]
      BY <1>0, <1>10 DEF VerifyCommit, TypeOK
    <2>2. ~At(p, "reset") /\ ~At(p, "reset")'
      BY <1>0, <1>10 DEF VerifyCommit, TypeOK, At, Idle, Request
    <2>3. Following' = Following
      BY <2>1, <2>2, FollowingSame
    <2>4. CASE users' = users
      BY <1>1, <1>10, <2>3, <2>4 DEF VerifyCommit
    <2>5. CASE users' # users
      <3>1. users' = [users EXCEPT ![u].verified = TRUE]
        BY <1>10, <2>5 DEF VerifyCommit
      <3>2. u \in Users /\ \E m \in inbox : m.to = u
        BY <1>0, <1>10 DEF VerifyCommit, At, IInv, RequestsOK, TypeOK
      <3>3. /\ users'[u].verified = TRUE /\ users'[u].hash = users[u].hash
            /\ users'[u].active = users[u].active
            /\ \A w \in Users : w # u => users'[w] = users[w]
        BY <1>0, <3>1, <3>2 DEF TypeOK, Rows
      <3>4. proven' = proven \cup {u} /\ off' = off /\ password' = password
        BY <3>2, <3>3 DEF Exists
      <3>5. TheIdentity!Prove(u)
        BY <1>10, <2>3, <3>2, <3>4 DEF VerifyCommit, TheIdentity!Prove
      <3> QED BY <3>2, <3>5 DEF TheIdentity!Next
    <2> QED BY <2>4, <2>5
  <1>11. ASSUME NEW p \in Procs, NEW m \in inbox, ResetResolve(p, m) PROVE TheIdentity!Next
    <2>1. /\ m.kind = "reset" /\ m.to \in Users /\ Exists(m.to) /\ users[m.to].active
          /\ m.fp = users[m.to].hash
      BY <1>0, <1>11 DEF ResetResolve, ResetTokenResolves, TypeOK, Mails
    <2>2. req' = [req EXCEPT ![p] = Request("reset", m.to, users[m.to])]
      BY <1>11 DEF ResetResolve
    <2>3. \A q \in Procs : q # p => req'[q] = req[q]
      BY <1>0, <2>2 DEF TypeOK
    <2>4. ~At(p, "reset") /\ At(p, "reset")'
      BY <1>0, <1>11, <2>2 DEF ResetResolve, TypeOK, At, IsIdle, Idle, Request
    <2>5. req'[p].uid = m.to /\ req'[p].row.hash = m.fp
      BY <1>0, <2>1, <2>2 DEF TypeOK, Request
    <2>6. Following' = Following \cup {[to |-> m.to, fp |-> m.fp]}
      BY <2>3, <2>4, <2>5, FollowingGrows
    <2>7. m.to \notin off
      BY <2>1
    <2>8. UNCHANGED <<users, lastHash, inbox>>
      BY <1>11 DEF ResetResolve
    <2>9. UNCHANGED <<password, proven, off, 1 .. lastHash>>
      BY <2>8 DEF Exists
    <2>10. TheIdentity!Follow(m)
      BY <2>1, <2>6, <2>7, <2>8, <2>9 DEF TheIdentity!Follow
    <2> QED BY <2>10 DEF TheIdentity!Next
  <1>12. ASSUME NEW p \in Procs, ResetCommit(p) PROVE TheIdentity!Next
    <2> PICK f : f = [to |-> req[p].uid, fp |-> req[p].row.hash]
      OBVIOUS
    <2> PICK u : u = req[p].uid
      OBVIOUS
    <2>1. ResetEffect(p, u, req[p].row) /\ u \in Users /\ lastHash < MaxHash /\ f.to = u
      BY <1>12, ResetStep DEF ResetEffect, ResetCommit
    <2>2. At(p, "reset") /\ ~At(p, "reset")'
      BY <1>12, <2>1 DEF ResetCommit, At, ResetEffect
    <2>3. f \in Following /\ Following' \in {Following, Following \ {f}}
      BY <2>1, <2>2, FollowingShrinks DEF ResetEffect
    <2>4. \E h \in 1 .. MaxHash : TheIdentity!Sets(u, h)
      BY <1>0, <2>1, SetsNext DEF ResetEffect
    <2>5. /\ Exists(u) /\ Exists(u)' /\ users'[u].active = users[u].active
          /\ users'[u].verified = TRUE
          /\ \A w \in Users : w # u => users'[w] = users[w]
      BY <1>0, <2>1 DEF ResetEffect, Exists, TypeOK, Hashes
    <2>6. proven' = proven \cup {u} /\ off' = off
      BY <2>1, <2>5 DEF Exists
    <2>7. inbox' = inbox
      BY <2>1 DEF ResetEffect
    <2>8. TheIdentity!Change(f)
      BY <2>1, <2>3, <2>4, <2>6, <2>7 DEF TheIdentity!Change
    <2> QED BY <2>3, <2>8 DEF TheIdentity!Next
  <1>13. ASSUME NEW p \in Procs, Abort(p) PROVE [TheIdentity!Next]_(TheIdentity!vars)
    <2> PICK f : f = [to |-> req[p].uid, fp |-> req[p].row.hash]
      OBVIOUS
    <2>1. \A q \in Procs : q # p => req'[q] = req[q]
      BY <1>0, <1>13 DEF Abort, TypeOK
    <2>2. ~At(p, "reset")'
      BY <1>0, <1>13 DEF Abort, TypeOK, At, Idle, Request
    <2>3. UNCHANGED <<users, lastHash, inbox>>
      BY <1>13 DEF Abort
    <2>4. CASE ~At(p, "reset")
      BY <1>1, <2>1, <2>2, <2>3, <2>4, FollowingSame
    <2>5. CASE At(p, "reset")
      <3>1. f \in Following /\ Following' \in {Following, Following \ {f}}
        BY <2>1, <2>2, <2>5, FollowingShrinks
      <3>2. CASE Following' = Following
        BY <1>1, <2>3, <3>2
      <3>3. CASE Following' = Following \ {f}
        <4>1. UNCHANGED <<password, proven, off, 1 .. lastHash>>
          BY <2>3 DEF Exists
        <4>2. TheIdentity!GiveUp(f)
          BY <2>3, <3>3, <4>1 DEF TheIdentity!GiveUp
        <4> QED BY <3>1, <4>2 DEF TheIdentity!Next
      <3> QED BY <3>1, <3>2, <3>3
    <2> QED BY <2>4, <2>5
  <1>14. ASSUME NEW u \in Users, Deactivate(u) PROVE TheIdentity!Next
    <2>1. Exists(u) /\ users[u].active /\ Following' = Following
      BY <1>0, <1>14 DEF Deactivate, OffOK, Exists, Following, At
    <2>2. /\ users'[u].active = FALSE /\ users'[u].hash = users[u].hash
          /\ users'[u].verified = users[u].verified
          /\ \A w \in Users : w # u => users'[w] = users[w]
      BY <1>0, <1>14 DEF Deactivate, TypeOK, Rows
    <2>3. off' = off \cup {u} /\ proven' = proven /\ password' = password
      BY <2>1, <2>2 DEF Exists
    <2>4. TheIdentity!SwitchOff(u)
      BY <1>14, <2>1, <2>3 DEF Deactivate, TheIdentity!SwitchOff, TheIdentity!Registered, Exists
    <2> QED BY <2>4 DEF TheIdentity!Next
  <1>15. CASE UNCHANGED vars
    BY <1>1, <1>15 DEF vars, system, Following, At
  <1> QED
    BY <1>1, <1>2, <1>3, <1>4, <1>5, <1>6, <1>7, <1>8, <1>9, <1>10, <1>11, <1>12, <1>13,
       <1>14, <1>15 DEF Next, Arrive, Proceed

\* Accounts implements Identity: whatever the interleaving of the handlers and however
\* stale what they loaded, an address is registered once and for good, a password is
\* new whenever it changes and changes only by a letter that its own address had and
\* that was opened while its password was the present one, mail goes to registered
\* addresses only, and nobody's being verified or switched off is undone.
THEOREM IdentityIsImplemented == Spec => ImplementsIdentity
  <1>1. Init => LettersOK /\ OffOK
    BY DEF Init, LettersOK, OffOK, NoRow
  <1> QED
    BY <1>1, LettersPreserved, OffPreserved, IdentityInit, IdentityStep, Inductive, PTL
       DEF Spec, ImplementsIdentity, TheIdentity!Spec
=============================================================================
