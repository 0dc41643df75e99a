----------------------------- MODULE WorkerPool -----------------------------
(***************************************************************************)
(* One process of the application under load: an event loop, a pool of     *)
(* worker threads and a pool of database connections (src/app/db.py,       *)
(* src/main.py).  A request is a sequence of jobs.  A job runs on the loop *)
(* or in a thread, does at most one transaction, and either ends it, which *)
(* gives the connection back, or leaves it open, which keeps the           *)
(* connection until the session is closed.                                 *)
(*                                                                         *)
(* A job asks the pool for a connection at its first statement, where it   *)
(* is: on the loop the whole process waits with it, in a thread it keeps   *)
(* the thread.  The pool gives up after its timeout and the job raises.    *)
(* What the statements read and write is the business of the other         *)
(* modules; here a job only takes its time, or raises.                     *)
(***************************************************************************)
EXTENDS Naturals, Sequences, FiniteSets

CONSTANTS Requests,   \* requests that can be in flight at one time
          Conns,      \* pool_size + max_overflow
          Threads     \* tokens of the thread pool's limiter

ASSUME SizesAssumption ==
  IsFiniteSet(Requests) /\ Conns \in Nat \ {0} /\ Threads \in Nat \ {0}

VARIABLE req   \* request -> where it stands, see TypeOK

----------------------------------------------------------------------------
\* The jobs.  "same" goes on in the place of the job before it.  "mw" is the
\* middleware's session, "db" the one get_db opens for the route.
\* require_user, verify_csrf and the other jobs without a statement wait for the
\* loop or a thread as the job after them does, and are left out.  "leaves" is the
\* state of the session's transaction after the job.

Job(name, on, session, leaves) ==
  [name |-> name, on |-> on, session |-> session, leaves |-> leaves]

\* Mutant: the middleware closes its session after call_next.
Middleware_Late == Job("Middleware", "loop", "mw", "open")

\* The user of the session cookie, looked up on the loop; the session is closed
\* at once.  Without a cookie there is no query.
Middleware == Job("Middleware", "loop", "mw", "closed")
Anonymous == Job("Anonymous", "loop", "none", "closed")

Limiter == Job("Limiter", "thread", "db", "closed")           \* check() commits
CurrentUser == Job("CurrentUser", "thread", "db", "open")  \* nothing ends it
Home == Job("Home", "thread", "db", "open")
SendContact == Job("SendContact", "thread", "db", "closed")
ForgotPassword == Job("ForgotPassword", "thread", "db", "open")

\* Mutant: log_event(commit=False), the row left to somebody else's commit.
LogEvent_Uncommitted == Job("LogEvent", "same", "db", "open")

LogEvent == Job("LogEvent", "same", "db", "closed")
Mail == Job("Mail", "thread", "none", "open")              \* background task
Upload == Job("Upload", "thread", "none", "open")
CreateCommit == Job("CreateCommit", "loop", "db", "closed")

Kinds == {"home", "forgot", "contact", "create"}

Plan == [home    |-> <<Middleware, Home>>,
         forgot  |-> <<Anonymous, Limiter, ForgotPassword, Mail>>,
         contact |-> <<Middleware, Limiter, CurrentUser, SendContact, LogEvent, Mail>>,
         create  |-> <<Middleware, Limiter, CurrentUser, Upload, CreateCommit, LogEvent>>]

----------------------------------------------------------------------------
Idle == [kind |-> "none", job |-> 0, at |-> "idle", place |-> "none",
         held |-> {}]

Jobs(r) == Plan[req[r].kind]
Now(r) == Jobs(r)[req[r].job]
HasNext(r) == req[r].job < Len(Jobs(r))
InFlight == {r \in Requests : req[r].at # "idle"}

\* The connections out of the pool, as the sessions that have them.
CheckedOut == {c \in Requests \X {"mw", "db"} : c[2] \in req[c[1]].held}

\* Mutant: max_overflow = -1.
ConnFree_Unbounded == TRUE

ConnFree == Cardinality(CheckedOut) < Conns

LoopFree == \A r \in Requests : req[r].place # "loop"
ThreadFree == Cardinality({r \in Requests : req[r].place = "thread"}) < Threads

\* Where job n of request r begins once it has its place: at the pool, unless
\* it needs no connection or its session has one.
Begins(r, n, held) ==
  LET s == Jobs(r)[n].session
  IN IF s = "none" \/ s \in held THEN "running" ELSE "waiting"

Init == req = [r \in Requests |-> Idle]

\* A connection that the request before it left out stays out.
Arrive(r, k) ==
  /\ req[r].at = "idle"
  /\ req' = [req EXCEPT ![r].kind = k, ![r].job = 1, ![r].at = "ready"]

\* The coroutine has its turn on the loop, and keeps the loop or takes a thread.
Enter(r) ==
  /\ req[r].at = "ready"
  /\ LoopFree
  /\ Now(r).on = "thread" => ThreadFree
  /\ req' = [req EXCEPT ![r].place = Now(r).on,
                        ![r].at = Begins(r, req[r].job, req[r].held)]

Take(r) ==
  /\ req[r].at = "waiting"
  /\ ConnFree
  /\ req' = [req EXCEPT ![r].held = @ \cup {Now(r).session}, ![r].at = "running"]

Closing(held) == [Idle EXCEPT !.at = "closing", !.held = held]

\* Mutant: the middleware without its finally.
Broken_KeepsMw(r) == IF req[r].place = "thread" THEN [req[r] EXCEPT !.at = "raised"]
                     ELSE Closing(req[r].held)

\* The job raises; what a thread raised waits, with the thread's token, for the
\* coroutine's turn.  The middleware's finally closes its session here.
Broken(r) == IF req[r].place = "thread" THEN [req[r] EXCEPT !.at = "raised"]
             ELSE Closing(req[r].held \ {"mw"})

\* Mutant: a job that asks again when the pool has timed out.
TimeOut_Retried(r) ==
  /\ req[r].at = "waiting"
  /\ ~ConnFree
  /\ UNCHANGED req

\* The pool's timeout: sqlalchemy.exc.TimeoutError in the job.
TimeOut(r) ==
  /\ req[r].at = "waiting"
  /\ ~ConnFree
  /\ req' = [req EXCEPT ![r] = Broken(r)]

Finish(r) ==
  LET held == IF Now(r).leaves = "closed" THEN req[r].held \ {Now(r).session} ELSE req[r].held
      next == req[r].job + 1
  IN /\ req[r].at = "running"
     /\ \/ /\ HasNext(r)
           /\ Jobs(r)[next].on = "same"
           /\ req' = [req EXCEPT ![r].job = next, ![r].held = held,
                                 ![r].at = Begins(r, next, held)]
        \/ /\ HasNext(r) => Jobs(r)[next].on # "same"
           /\ req[r].place = "thread"
           /\ req' = [req EXCEPT ![r].at = "done", ![r].held = held]
        \/ /\ HasNext(r)
           /\ Jobs(r)[next].on # "same"
           /\ req[r].place = "loop"
           /\ req' = [req EXCEPT ![r].job = next, ![r].held = held,
                                 ![r].at = "ready", ![r].place = "none"]
        \/ /\ ~HasNext(r)
           /\ req[r].place = "loop"
           /\ req' = [req EXCEPT ![r] = Closing(held)]

Raise(r) ==
  /\ req[r].at = "running"
  /\ req' = [req EXCEPT ![r] = Broken(r)]

Resume(r) ==
  /\ LoopFree
  /\ \/ /\ req[r].at = "done" /\ HasNext(r)
        /\ req' = [req EXCEPT ![r].at = "ready", ![r].place = "none",
                              ![r].job = @ + 1]
     \/ /\ req[r].at = "raised" \/ (req[r].at = "done" /\ ~HasNext(r))
        /\ req' = [req EXCEPT ![r] = Closing(req[r].held)]

\* get_db's finally, after the response and its background tasks.  It closes the
\* route's session and no other.
Close(r) ==
  /\ req[r].at = "closing"
  /\ LoopFree
  /\ req' = [req EXCEPT ![r] = [Idle EXCEPT !.held = req[r].held \ {"db"}]]

OnLoop(r) == Enter(r) \/ Resume(r) \/ Close(r)

Next == \E r \in Requests :
          \/ \E k \in Kinds : Arrive(r, k)
          \/ OnLoop(r) \/ Take(r) \/ TimeOut(r) \/ Finish(r) \/ Raise(r)

Spec == Init /\ [][Next]_req

\* The loop and the thread limiter serve in order of arrival, so a coroutine
\* that is ready again and again has its turn: strong fairness.  A job ends,
\* and a job that waits gets a connection or its timeout.
FairSpec ==
  /\ Spec
  /\ \A r \in Requests : /\ SF_req(OnLoop(r))
                         /\ WF_req(Take(r) \/ TimeOut(r))
                         /\ WF_req(Finish(r) \/ Raise(r))

----------------------------------------------------------------------------
(***************************************************************************)
(* Properties                                                              *)
(***************************************************************************)

\* A request has a job while it is in flight and a place while the job is at
\* work, and neither the pool nor the threads nor the loop is ever overdrawn.
TypeOK ==
  /\ req \in [Requests -> [kind : Kinds \cup {"none"}, job : Nat,
                          at : {"idle", "ready", "waiting", "running", "done",
                                "raised", "closing"},
                          place : {"none", "loop", "thread"},
                          held : SUBSET {"mw", "db"}]]
  /\ \A r \in Requests :
       /\ req[r].at \in {"idle", "ready", "closing"} <=> req[r].place = "none"
       /\ req[r].at \notin {"idle", "closing"} =>
            req[r].kind \in Kinds /\ req[r].job \in 1..Len(Jobs(r))
  /\ Cardinality(CheckedOut) <= Conns
  /\ Cardinality({r \in Requests : req[r].place = "thread"}) <= Threads
  /\ Cardinality({r \in Requests : req[r].place = "loop"}) <= 1

\* A connection is out of the pool only for somebody who will give it back.  The
\* middleware's is out while the lookup of the user runs and never after it, also
\* when the lookup raises: nothing later in the request would close that session,
\* get_db closes its own.  The route's is out until the request is answered,
\* whichever job raised.
NothingLeaks ==
  \A r \in Requests :
    /\ "mw" \in req[r].held => req[r].at = "running" /\ Now(r).name = "Middleware"
    /\ "db" \in req[r].held => req[r].at # "idle"

\* No job asks the pool for a connection while its request has one: the
\* middleware closes its session before the route opens another, and what
\* follows a commit finds the request without a connection.  Otherwise as many
\* requests as there are connections could starve each other.
NoHoldAndWait == \A r \in Requests : req[r].at = "waiting" => req[r].held = {}

\* Nothing but the pool's timeout (or a new request) can happen.
Stalled ==
  /\ InFlight # {}
  /\ \A r \in InFlight :
       \/ req[r].at = "waiting" /\ ~ConnFree
       \/ req[r].at = "ready" /\ (~LoopFree \/ (Now(r).on = "thread" /\ ~ThreadFree))
       \/ req[r].at \in {"done", "raised", "closing"} /\ ~LoopFree

\* The process can come to a halt until the pool's timeout, with the loop or
\* every thread waiting for connections that are held by requests that wait for
\* the loop or a thread, but only with more requests in flight than the pool
\* has connections.
StallNeedsCrowd == Stalled => Cardinality(InFlight) > Conns

\* Every request is answered: the timeout breaks each of those stalls.
EveryRequestEnds ==
  \A r \in Requests : req[r].at # "idle" ~> req[r].at = "idle"

\* The mail of a message, for as long as it takes, keeps no connection, which
\* another message would then miss between its commit and its event.  This is one
\* part of "an inbox message that was saved must not be reported as failed because
\* a mail provider was slow" (src/app/routes/listings.py:312) and no more: the mail
\* of forgot_password does keep a connection, since nothing ends the transaction of
\* its SELECT, and the event of a saved message can time out for that or another
\* reason.
MessageMailHoldsNothing ==
  \A r \in InFlight : req[r].kind = "contact" /\ req[r].at \in {"running", "done"}
                     /\ Now(r).name = "Mail" => req[r].held = {}

=============================================================================
