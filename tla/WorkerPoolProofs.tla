-------------------------- MODULE WorkerPoolProofs --------------------------
(***************************************************************************)
(* Proofs about WorkerPool, for any finite set of requests and any number  *)
(* of connections and threads.                                             *)
(***************************************************************************)
EXTENDS WorkerPool, FiniteSetTheorems, TLAPS

----------------------------------------------------------------------------
(* The plans. *)

\* Only a first job uses the middleware's session, on the loop, and it ends its
\* transaction; a first job never goes on in the place of another.
LEMMA PlanFacts ==
  ASSUME NEW k \in Kinds, NEW n \in 1..Len(Plan[k])
  PROVE  /\ Plan[k][n].on \in {"loop", "thread", "same"}
         /\ Plan[k][n].session \in {"mw", "db", "none"}
         /\ Plan[k][n].session = "mw" => /\ n = 1
                                         /\ Plan[k][n].name = "Middleware"
                                         /\ Plan[k][n].on = "loop"
                                         /\ Plan[k][n].leaves = "closed"
         /\ n = 1 => Plan[k][n].on = "loop"
  <1>1. CASE k = "home"
    <2>1. Len(Plan[k]) = 2 /\ n \in 1..2
      BY <1>1 DEF Plan
    <2> QED
      BY <1>1, <2>1 DEF Plan, Job, Middleware, Anonymous, Limiter, CurrentUser, Home,
         SendContact, ForgotPassword, LogEvent, Mail, Upload, CreateCommit
  <1>2. CASE k = "forgot"
    <2>1. Len(Plan[k]) = 4 /\ n \in 1..4
      BY <1>2 DEF Plan
    <2> QED
      BY <1>2, <2>1 DEF Plan, Job, Middleware, Anonymous, Limiter, CurrentUser, Home,
         SendContact, ForgotPassword, LogEvent, Mail, Upload, CreateCommit
  <1>3. CASE k = "contact"
    <2>1. Len(Plan[k]) = 6 /\ n \in 1..6
      BY <1>3 DEF Plan
    <2> QED
      BY <1>3, <2>1 DEF Plan, Job, Middleware, Anonymous, Limiter, CurrentUser, Home,
         SendContact, ForgotPassword, LogEvent, Mail, Upload, CreateCommit
  <1>4. CASE k = "create"
    <2>1. Len(Plan[k]) = 6 /\ n \in 1..6
      BY <1>4 DEF Plan
    <2> QED
      BY <1>4, <2>1 DEF Plan, Job, Middleware, Anonymous, Limiter, CurrentUser, Home,
         SendContact, ForgotPassword, LogEvent, Mail, Upload, CreateCommit
  <1> QED
    BY <1>1, <1>2, <1>3, <1>4 DEF Kinds

\* A kind of request has a plan with a first job, and six jobs at most.
LEMMA KindFacts ==
  ASSUME NEW k \in Kinds
  PROVE  Len(Plan[k]) \in Nat /\ Len(Plan[k]) >= 2 /\ Len(Plan[k]) <= 6
  <1>1. CASE k = "home"
    BY <1>1 DEF Plan
  <1>2. CASE k = "forgot"
    BY <1>2 DEF Plan
  <1>3. CASE k = "contact"
    BY <1>3 DEF Plan
  <1>4. CASE k = "create"
    BY <1>4 DEF Plan
  <1> QED
    BY <1>1, <1>2, <1>3, <1>4 DEF Kinds

\* The mail of a contact request comes after the event, which ends its
\* transaction.
LEMMA ContactFacts ==
  /\ Len(Plan["contact"]) = 6
  /\ \A n \in 1..6 : Plan["contact"][n].name = "Mail" <=> n = 6
  /\ Plan["contact"][6].session = "none"
  /\ Plan["contact"][5].leaves = "closed"
  /\ Plan["contact"][5].session = "db"
  BY DEF Plan, Job, Middleware, Anonymous, Limiter, CurrentUser, Home, SendContact,
         ForgotPassword, LogEvent, Mail, Upload, CreateCommit

----------------------------------------------------------------------------
(* The inductive invariant. *)

Records == [kind : Kinds \cup {"none"}, job : Nat,
            at : {"idle", "ready", "waiting", "running", "done", "raised", "closing"},
            place : {"none", "loop", "thread"},
            held : SUBSET {"mw", "db"}]

JobOf(x) == Plan[x.kind][x.job]
AtJob(x) == x.at \notin {"idle", "closing"}

\* What a request holds is what its jobs so far have left open: the middleware's
\* connection only inside the middleware's own job, and none at all before the
\* first job, while it waits, and from the event of a contact request on.
HeldOK(x) ==
  /\ x.at \in {"idle", "waiting"} => x.held = {}
  /\ x.at = "ready" /\ x.job = 1 => x.held = {}
  /\ "mw" \in x.held => x.at = "running" /\ JobOf(x).session = "mw"
  /\ x.kind = "contact" /\ x.job = 5 /\ x.at = "done" => x.held = {}
  /\ x.kind = "contact" /\ x.job = 6 /\ x.at \in {"ready", "running", "done"}
       => x.held = {}

\* A request has a place exactly while its job is at work, and the place the job
\* asks for; no job waits to go on in the place of another.
PlaceOK(x) ==
  /\ x.at \in {"idle", "ready", "closing"} <=> x.place = "none"
  /\ AtJob(x) => x.kind \in Kinds /\ x.job \in 1..Len(Plan[x.kind])
  /\ x.at = "ready" => JobOf(x).on # "same"
  /\ x.at = "waiting" => JobOf(x).session # "none"
  /\ x.at \in {"waiting", "running"} /\ JobOf(x).on # "same" => x.place = JobOf(x).on
  /\ x.at = "done" /\ x.job < Len(Plan[x.kind])
       => Plan[x.kind][x.job + 1].on # "same"
  /\ x.place = "loop" => x.at \in {"waiting", "running"}

ThreadsTaken == {r \in Requests : req[r].place = "thread"}
LoopTaken == {r \in Requests : req[r].place = "loop"}

RequestsOK ==
  /\ req \in [Requests -> Records]
  /\ \A r \in Requests : HeldOK(req[r]) /\ PlaceOK(req[r])

RoomOK ==
  /\ Cardinality(CheckedOut) <= Conns
  /\ Cardinality(ThreadsTaken) <= Threads
  /\ Cardinality(LoopTaken) <= 1

IInv == RequestsOK /\ RoomOK

----------------------------------------------------------------------------
(* Every step, seen from the request that takes it. *)

\* A step changes one request, keeps what HeldOK and PlaceOK say of it, and takes
\* a connection, a thread or the loop only when one is free.
StepOf(r, y) ==
  /\ req' = [req EXCEPT ![r] = y]
  /\ y \in Records
  /\ HeldOK(y) /\ PlaceOK(y)
  /\ \/ y.held \subseteq req[r].held
     \/ ConnFree /\ req[r].held = {} /\ \E s \in {"mw", "db"} : y.held = {s}
  /\ \/ y.place \in {req[r].place, "none"}
     \/ LoopFree /\ (y.place = "thread" => ThreadFree)

\* A new request holds nothing, since nothing leaks, and has no place.
LEMMA ArriveStep ==
  ASSUME RequestsOK, NEW r \in Requests, NEW k \in Kinds, Arrive(r, k)
  PROVE  \E y : StepOf(r, y)
  <1> DEFINE y == req'[r]
  <1>1. Len(Plan[k]) \in Nat /\ Len(Plan[k]) >= 2
    BY KindFacts
  <1>2. 1 \in 1..Len(Plan[k])
    BY <1>1
  <1>3. Plan[k][1].on = "loop"
    BY <1>1, <1>2, PlanFacts
  <1>4. req[r] \in Records /\ req[r].held = {} /\ req[r].place = "none"
    BY DEF Arrive, RequestsOK, HeldOK, PlaceOK
  <1>5. /\ req' = [req EXCEPT ![r] = y]
        /\ y.kind = k /\ y.job = 1 /\ y.at = "ready"
        /\ y.place = "none" /\ y.held = {}
        /\ y \in Records
    BY <1>4 DEF Arrive, RequestsOK, Records
  <1> HIDE DEF y
  <1>6. HeldOK(y)
    BY <1>5 DEF HeldOK
  <1>7. PlaceOK(y)
    BY <1>2, <1>3, <1>5 DEF PlaceOK, JobOf, AtJob
  <1> QED
    BY <1>5, <1>6, <1>7 DEF StepOf

\* What is known of a request that is at a job.
LEMMA AtJobFacts ==
  ASSUME RequestsOK, NEW r \in Requests, AtJob(req[r])
  PROVE  /\ req[r] \in Records /\ HeldOK(req[r]) /\ PlaceOK(req[r])
         /\ req[r].kind \in Kinds /\ req[r].job \in Nat \ {0}
         /\ Len(Jobs(r)) \in Nat /\ req[r].job <= Len(Jobs(r))
         /\ Now(r) = JobOf(req[r])
         /\ Now(r).on \in {"loop", "thread", "same"}
         /\ Now(r).session \in {"mw", "db", "none"}
         /\ Now(r).session = "mw" => /\ req[r].job = 1
                                     /\ Now(r).name = "Middleware"
                                     /\ Now(r).on = "loop"
                                     /\ Now(r).leaves = "closed"
  <1>1. req[r] \in Records /\ HeldOK(req[r]) /\ PlaceOK(req[r])
    BY DEF RequestsOK
  <1>2. req[r].kind \in Kinds /\ req[r].job \in 1..Len(Plan[req[r].kind])
    BY <1>1 DEF PlaceOK
  <1>3. Len(Jobs(r)) \in Nat
    BY <1>2, KindFacts DEF Jobs
  <1>4. Now(r) = JobOf(req[r])
    BY DEF Now, JobOf, Jobs
  <1>5. /\ Plan[req[r].kind][req[r].job].on \in {"loop", "thread", "same"}
        /\ Plan[req[r].kind][req[r].job].session \in {"mw", "db", "none"}
        /\ Plan[req[r].kind][req[r].job].session = "mw" =>
             /\ req[r].job = 1
             /\ Plan[req[r].kind][req[r].job].name = "Middleware"
             /\ Plan[req[r].kind][req[r].job].on = "loop"
             /\ Plan[req[r].kind][req[r].job].leaves = "closed"
    BY <1>2, PlanFacts
  <1> QED
    BY <1>1, <1>2, <1>3, <1>4, <1>5 DEF Jobs, JobOf

\* A job enters the place it asks for, which is free.
LEMMA EnterStep ==
  ASSUME RequestsOK, NEW r \in Requests, Enter(r)
  PROVE  \E y : StepOf(r, y)
  <1> DEFINE y == req'[r]
  <1>1. AtJob(req[r]) /\ req[r].at = "ready"
    BY DEF Enter, AtJob
  <1>2. /\ req[r] \in Records /\ HeldOK(req[r]) /\ PlaceOK(req[r])
        /\ req[r].kind \in Kinds /\ req[r].job \in Nat \ {0}
        /\ Now(r) = JobOf(req[r])
        /\ Now(r).on \in {"loop", "thread", "same"}
        /\ Now(r).session \in {"mw", "db", "none"}
        /\ Now(r).session = "mw" => req[r].job = 1
    BY <1>1, AtJobFacts
  <1>3. /\ req' = [req EXCEPT ![r] = y]
        /\ y.kind = req[r].kind /\ y.job = req[r].job /\ y.held = req[r].held
        /\ y.place = Now(r).on /\ y.at = Begins(r, req[r].job, req[r].held)
        /\ y \in Records
    BY <1>2 DEF Enter, RequestsOK, Records, PlaceOK, Begins
  <1> HIDE DEF y
  <1>4. Now(r).on # "same" /\ JobOf(y) = Now(r)
    BY <1>1, <1>2, <1>3 DEF PlaceOK, JobOf
  <1>5. y.at \in {"waiting", "running"}
    BY <1>3 DEF Begins
  <1>6. y.at = "waiting" => Now(r).session # "none" /\ Now(r).session \notin y.held
    BY <1>3 DEF Begins, Now
  <1>7. req[r].held \subseteq {"db"} /\ (req[r].job = 1 => req[r].held = {})
    BY <1>1, <1>2 DEF HeldOK, Records
  <1>8. HeldOK(y)
    BY <1>1, <1>2, <1>3, <1>5, <1>6, <1>7 DEF HeldOK
  <1>9. PlaceOK(y)
    BY <1>1, <1>2, <1>3, <1>4, <1>5, <1>6 DEF PlaceOK, AtJob, JobOf
  <1>10. LoopFree /\ (y.place = "thread" => ThreadFree)
    BY <1>3 DEF Enter
  <1> QED
    BY <1>3, <1>8, <1>9, <1>10 DEF StepOf

\* A job that waits holds nothing, and takes the one connection of its session.
LEMMA TakeStep ==
  ASSUME RequestsOK, NEW r \in Requests, Take(r)
  PROVE  \E y : StepOf(r, y)
  <1> DEFINE y == req'[r]
  <1>1. AtJob(req[r]) /\ req[r].at = "waiting"
    BY DEF Take, AtJob
  <1>2. /\ req[r] \in Records /\ HeldOK(req[r]) /\ PlaceOK(req[r])
        /\ Now(r) = JobOf(req[r]) /\ Now(r).session \in {"mw", "db", "none"}
    BY <1>1, AtJobFacts
  <1>3. req[r].held = {} /\ Now(r).session \in {"mw", "db"}
    BY <1>1, <1>2 DEF HeldOK, PlaceOK
  <1>4. /\ req' = [req EXCEPT ![r] = y]
        /\ y.kind = req[r].kind /\ y.job = req[r].job /\ y.held = {Now(r).session}
        /\ y.place = req[r].place /\ y.at = "running"
        /\ y \in Records
    BY <1>2, <1>3 DEF Take, RequestsOK, Records
  <1> HIDE DEF y
  <1>5. JobOf(y) = Now(r)
    BY <1>2, <1>4 DEF JobOf
  <1>6. ~(y.kind = "contact" /\ y.job = 6)
    BY <1>2, <1>3, <1>4, ContactFacts DEF JobOf
  <1>7. HeldOK(y)
    BY <1>4, <1>5, <1>6 DEF HeldOK
  <1>8. PlaceOK(y)
    BY <1>1, <1>2, <1>4, <1>5 DEF PlaceOK, AtJob, JobOf
  <1>9. ConnFree
    BY DEF Take
  <1> QED
    BY <1>3, <1>4, <1>7, <1>8, <1>9 DEF StepOf

\* A job that raises keeps its connection only with its thread; the middleware,
\* on the loop, has closed its session.
LEMMA BrokenStep ==
  ASSUME RequestsOK, NEW r \in Requests, TimeOut(r) \/ Raise(r)
  PROVE  \E y : StepOf(r, y)
  <1> DEFINE y == req'[r]
  <1>1. AtJob(req[r]) /\ req[r].at \in {"waiting", "running"}
    BY DEF TimeOut, Raise, AtJob
  <1>2. /\ req[r] \in Records /\ HeldOK(req[r]) /\ PlaceOK(req[r])
        /\ Now(r) = JobOf(req[r])
        /\ Now(r).session = "mw" => Now(r).on = "loop"
    BY <1>1, AtJobFacts
  <1>3. req' = [req EXCEPT ![r] = y] /\ y = Broken(r)
    BY DEF TimeOut, Raise, RequestsOK
  <1> HIDE DEF y
  <1>4. CASE req[r].place = "thread"
    <2>1. /\ y.kind = req[r].kind /\ y.job = req[r].job /\ y.held = req[r].held
          /\ y.place = "thread" /\ y.at = "raised" /\ y \in Records
      BY <1>2, <1>3, <1>4 DEF Broken, Records
    <2>2. "mw" \notin y.held
      BY <1>1, <1>2, <1>4, <2>1 DEF HeldOK, PlaceOK
    <2>3. HeldOK(y)
      BY <2>1, <2>2 DEF HeldOK
    <2>4. PlaceOK(y)
      BY <1>1, <1>2, <2>1 DEF PlaceOK, AtJob
    <2> QED
      BY <1>3, <1>4, <2>1, <2>3, <2>4 DEF StepOf
  <1>5. CASE req[r].place # "thread"
    <2>1. /\ y.kind = "none" /\ y.at = "closing" /\ y.place = "none"
          /\ y.held = req[r].held \ {"mw"}
      BY <1>3, <1>5 DEF Broken, Closing, Idle
    <2>2. y \in Records
      BY <1>2, <1>3, <1>5 DEF Broken, Closing, Idle, Records
    <2>3. HeldOK(y) /\ PlaceOK(y)
      BY <2>1 DEF HeldOK, PlaceOK, AtJob
    <2> QED
      BY <1>3, <2>1, <2>2, <2>3 DEF StepOf
  <1> QED
    BY <1>4, <1>5

\* The last step of a request closes the route's session, and no other is open:
\* the middleware closed its own.
LEMMA CloseStep ==
  ASSUME RequestsOK, NEW r \in Requests, Close(r)
  PROVE  \E y : StepOf(r, y)
  <1> DEFINE y == req'[r]
  <1>1. req[r] \in Records /\ req[r].held \ {"db"} = {}
    BY DEF Close, RequestsOK, HeldOK, Records
  <1>2. /\ req' = [req EXCEPT ![r] = y]
        /\ y.at = "idle" /\ y.place = "none" /\ y.held = {}
        /\ y \in Records
    BY <1>1 DEF Close, Idle, RequestsOK, Records
  <1> HIDE DEF y
  <1>3. HeldOK(y) /\ PlaceOK(y)
    BY <1>2 DEF HeldOK, PlaceOK, AtJob
  <1> QED
    BY <1>2, <1>3 DEF StepOf

\* The next job of the request.
LEMMA NextJobFacts ==
  ASSUME RequestsOK, NEW r \in Requests, AtJob(req[r]), HasNext(r)
  PROVE  /\ req[r].job + 1 \in 1..Len(Plan[req[r].kind])
         /\ Jobs(r)[req[r].job + 1].on \in {"loop", "thread", "same"}
         /\ Jobs(r)[req[r].job + 1].session \in {"db", "none"}
         /\ req[r].job + 1 # 1
  <1>1. /\ req[r].kind \in Kinds /\ req[r].job \in Nat \ {0}
        /\ Len(Jobs(r)) \in Nat
    BY AtJobFacts
  <1>2. req[r].job + 1 \in 1..Len(Plan[req[r].kind]) /\ req[r].job + 1 # 1
    BY <1>1 DEF HasNext, Jobs
  <1>3. /\ Plan[req[r].kind][req[r].job + 1].on \in {"loop", "thread", "same"}
        /\ Plan[req[r].kind][req[r].job + 1].session \in {"mw", "db", "none"}
        /\ Plan[req[r].kind][req[r].job + 1].session # "mw"
    BY <1>1, <1>2, PlanFacts
  <1> QED
    BY <1>2, <1>3 DEF Jobs

\* A job that returns has closed the middleware's session, and the event of a
\* contact request leaves nothing open.
LEMMA FinishStep ==
  ASSUME RequestsOK, NEW r \in Requests, Finish(r)
  PROVE  \E y : StepOf(r, y)
  <1> DEFINE y == req'[r]
             h == IF Now(r).leaves = "closed" THEN req[r].held \ {Now(r).session}
                  ELSE req[r].held
             next == Jobs(r)[req[r].job + 1]
  <1>1. AtJob(req[r]) /\ req[r].at = "running"
    BY DEF Finish, AtJob
  <1>2. /\ req[r] \in Records /\ HeldOK(req[r]) /\ PlaceOK(req[r])
        /\ req[r].kind \in Kinds /\ req[r].job \in Nat \ {0}
        /\ Now(r) = JobOf(req[r])
        /\ Now(r).session = "mw" => Now(r).leaves = "closed"
    BY <1>1, AtJobFacts
  <1>3. HasNext(r) => /\ req[r].job + 1 \in 1..Len(Plan[req[r].kind])
                      /\ next.session \in {"db", "none"}
                      /\ req[r].job + 1 # 1
    BY <1>1, NextJobFacts
  <1>4. /\ h \subseteq req[r].held /\ h \subseteq {"db"}
        /\ h \in SUBSET {"mw", "db"} /\ req[r].job + 1 \in Nat
    BY <1>1, <1>2 DEF HeldOK, Records
  <1>5. req[r].kind = "contact" /\ req[r].job \in {5, 6} => h = {}
    <2>1. CASE req[r].kind = "contact" /\ req[r].job = 5
      <3>1. Now(r).leaves = "closed" /\ Now(r).session = "db"
        BY <1>2, <2>1, ContactFacts DEF JobOf
      <3> QED
        BY <1>4, <3>1
    <2>2. CASE req[r].kind = "contact" /\ req[r].job = 6
      BY <1>1, <1>2, <1>4, <2>2 DEF HeldOK
    <2> QED
      BY <2>1, <2>2
  <1> HIDE DEF h
  <1>6. CASE HasNext(r) /\ next.on = "same"
             /\ req' = [req EXCEPT ![r].job = req[r].job + 1, ![r].held = h,
                                   ![r].at = Begins(r, req[r].job + 1, h)]
    <2>1. /\ req' = [req EXCEPT ![r] = y]
          /\ y.kind = req[r].kind /\ y.job = req[r].job + 1 /\ y.held = h
          /\ y.place = req[r].place /\ y.at = Begins(r, req[r].job + 1, h)
      BY <1>2, <1>6 DEF RequestsOK, Records
    <2>2. y.at \in {"waiting", "running"}
      BY <2>1 DEF Begins
    <2>3. y.at = "waiting" => next.session # "none" /\ next.session \notin h
      BY <2>1 DEF Begins
    <2>4. y \in Records
      BY <1>2, <1>4, <1>6, <2>2 DEF RequestsOK, Records, Begins
    <2> HIDE DEF y
    <2>5. HeldOK(y)
      BY <1>2, <1>3, <1>4, <1>5, <1>6, <2>1, <2>2, <2>3 DEF HeldOK
    <2>6. JobOf(y) = next
      BY <2>1 DEF JobOf, Jobs
    <2>7. PlaceOK(y)
      BY <1>1, <1>2, <1>3, <1>6, <2>1, <2>2, <2>3, <2>6 DEF PlaceOK, AtJob
    <2> QED
      BY <1>4, <2>1, <2>4, <2>5, <2>7 DEF StepOf
  <1>7. CASE /\ HasNext(r) => next.on # "same"
             /\ req[r].place = "thread"
             /\ req' = [req EXCEPT ![r].at = "done", ![r].held = h]
    <2>1. /\ req' = [req EXCEPT ![r] = y]
          /\ y.kind = req[r].kind /\ y.job = req[r].job /\ y.held = h
          /\ y.place = "thread" /\ y.at = "done"
      BY <1>2, <1>7 DEF RequestsOK, Records
    <2>2. y \in Records
      BY <1>2, <1>4, <1>7 DEF RequestsOK, Records
    <2> HIDE DEF y
    <2>3. HeldOK(y)
      BY <1>4, <1>5, <2>1 DEF HeldOK
    <2>4. y.job < Len(Plan[y.kind]) => Plan[y.kind][y.job + 1].on # "same"
      BY <1>7, <2>1 DEF HasNext, Jobs
    <2>5. PlaceOK(y)
      BY <1>1, <1>2, <2>1, <2>4 DEF PlaceOK, AtJob
    <2> QED
      BY <1>4, <1>7, <2>1, <2>2, <2>3, <2>5 DEF StepOf
  <1>8. CASE HasNext(r) /\ next.on # "same"
             /\ req' = [req EXCEPT ![r].job = req[r].job + 1, ![r].held = h,
                                   ![r].at = "ready", ![r].place = "none"]
    <2>1. /\ req' = [req EXCEPT ![r] = y]
          /\ y.kind = req[r].kind /\ y.job = req[r].job + 1 /\ y.held = h
          /\ y.place = "none" /\ y.at = "ready"
      BY <1>2, <1>8 DEF RequestsOK, Records
    <2>2. y \in Records
      BY <1>2, <1>4, <1>8 DEF RequestsOK, Records
    <2> HIDE DEF y
    <2>3. HeldOK(y)
      BY <1>2, <1>3, <1>4, <1>5, <1>8, <2>1 DEF HeldOK
    <2>4. JobOf(y) = next
      BY <2>1 DEF JobOf, Jobs
    <2>5. PlaceOK(y)
      BY <1>1, <1>2, <1>3, <1>8, <2>1, <2>4 DEF PlaceOK, AtJob
    <2> QED
      BY <1>4, <2>1, <2>2, <2>3, <2>5 DEF StepOf
  <1>9. CASE req' = [req EXCEPT ![r] = Closing(h)]
    <2>1. /\ req' = [req EXCEPT ![r] = y]
          /\ y.kind = "none" /\ y.held = h /\ y.place = "none" /\ y.at = "closing"
      BY <1>9 DEF RequestsOK, Closing, Idle
    <2>2. y \in Records
      BY <1>4, <1>9 DEF RequestsOK, Records, Closing, Idle
    <2> HIDE DEF y
    <2>3. HeldOK(y) /\ PlaceOK(y)
      BY <1>4, <2>1 DEF HeldOK, PlaceOK, AtJob
    <2> QED
      BY <1>4, <2>1, <2>2, <2>3 DEF StepOf
  <1> QED
    BY <1>6, <1>7, <1>8, <1>9 DEF Finish, h

\* What is left of a job in a thread goes back to the loop, and gives the thread back.
LEMMA ResumeStep ==
  ASSUME RequestsOK, NEW r \in Requests, Resume(r)
  PROVE  \E y : StepOf(r, y)
  <1> DEFINE y == req'[r]
             next == Jobs(r)[req[r].job + 1]
  <1>1. AtJob(req[r]) /\ req[r].at \in {"done", "raised"}
    BY DEF Resume, AtJob
  <1>2. /\ req[r] \in Records /\ HeldOK(req[r]) /\ PlaceOK(req[r])
        /\ req[r].kind \in Kinds /\ req[r].job \in Nat \ {0}
    BY <1>1, AtJobFacts
  <1>3. HasNext(r) => /\ req[r].job + 1 \in 1..Len(Plan[req[r].kind])
                      /\ req[r].job + 1 # 1
    BY <1>1, NextJobFacts
  <1>4. "mw" \notin req[r].held
    BY <1>1, <1>2 DEF HeldOK
  <1>5. CASE req[r].at = "done" /\ HasNext(r)
             /\ req' = [req EXCEPT ![r].at = "ready", ![r].place = "none",
                                   ![r].job = @ + 1]
    <2>1. /\ req' = [req EXCEPT ![r] = y]
          /\ y.kind = req[r].kind /\ y.job = req[r].job + 1 /\ y.held = req[r].held
          /\ y.place = "none" /\ y.at = "ready"
      BY <1>2, <1>5 DEF RequestsOK, Records
    <2>2. y \in Records
      BY <1>2, <1>5 DEF RequestsOK, Records
    <2>3. next.on # "same"
      BY <1>2, <1>5 DEF PlaceOK, HasNext, Jobs
    <2> HIDE DEF y
    <2>4. JobOf(y) = next
      BY <2>1 DEF JobOf, Jobs
    <2>5. HeldOK(y)
      BY <1>2, <1>3, <1>4, <1>5, <2>1 DEF HeldOK
    <2>6. PlaceOK(y)
      BY <1>1, <1>2, <1>3, <1>5, <2>1, <2>3, <2>4 DEF PlaceOK, AtJob
    <2> QED
      BY <2>1, <2>2, <2>5, <2>6 DEF StepOf
  <1>6. CASE req' = [req EXCEPT ![r] = Closing(req[r].held)]
    <2>1. /\ req' = [req EXCEPT ![r] = y]
          /\ y.kind = "none" /\ y.held = req[r].held
          /\ y.place = "none" /\ y.at = "closing"
      BY <1>6 DEF RequestsOK, Closing, Idle
    <2>2. y \in Records
      BY <1>2, <1>6 DEF RequestsOK, Records, Closing, Idle
    <2> HIDE DEF y
    <2>3. HeldOK(y) /\ PlaceOK(y)
      BY <1>4, <2>1 DEF HeldOK, PlaceOK, AtJob
    <2> QED
      BY <2>1, <2>2, <2>3 DEF StepOf
  <1> QED
    BY <1>5, <1>6 DEF Resume

----------------------------------------------------------------------------
(* The sizes. *)

\* What is out of the pool, in a thread and on the loop can be counted.
LEMMA Finite ==
  /\ IsFiniteSet(CheckedOut) /\ Cardinality(CheckedOut) \in Nat
  /\ IsFiniteSet(ThreadsTaken) /\ Cardinality(ThreadsTaken) \in Nat
  /\ IsFiniteSet(LoopTaken) /\ Cardinality(LoopTaken) \in Nat
  <1>1. IsFiniteSet(Requests)
    BY SizesAssumption
  <1>2. IsFiniteSet({"mw", "db"})
    <2>1. {"mw", "db"} = {"mw"} \cup {"db"} /\ IsFiniteSet({"mw"})
      BY FS_Singleton
    <2>2. IsFiniteSet({"mw"} \cup {"db"})
      BY <2>1, FS_AddElement
    <2> QED
      BY <2>1, <2>2
  <1>3. IsFiniteSet(Requests \X {"mw", "db"})
    BY <1>1, <1>2, FS_Product
  <1>4. CheckedOut \in SUBSET (Requests \X {"mw", "db"})
    BY DEF CheckedOut
  <1>5. IsFiniteSet(CheckedOut)
    BY <1>3, <1>4, FS_Subset
  <1>6. ThreadsTaken \in SUBSET Requests /\ LoopTaken \in SUBSET Requests
    BY DEF ThreadsTaken, LoopTaken
  <1>7. IsFiniteSet(ThreadsTaken) /\ IsFiniteSet(LoopTaken)
    BY <1>1, <1>6, FS_Subset
  <1> QED
    BY <1>5, <1>7, FS_CardinalityType

\* A set that only loses members, or gains one when it has room, stays within its
\* limit.
LEMMA WithinLimit ==
  ASSUME NEW S, NEW T, NEW c, NEW n \in Nat, IsFiniteSet(S),
         Cardinality(S) <= n,
         T \subseteq S \/ (T \subseteq S \cup {c} /\ Cardinality(S) < n)
  PROVE  Cardinality(T) <= n
  <1>1. Cardinality(S) \in Nat
    BY FS_CardinalityType
  <1>2. CASE T \subseteq S
    <2>1. T \in SUBSET S
      BY <1>2
    <2>2. IsFiniteSet(T) /\ Cardinality(T) <= Cardinality(S)
      BY <2>1, FS_Subset
    <2>3. Cardinality(T) \in Nat
      BY <2>2, FS_CardinalityType
    <2> QED
      BY <1>1, <2>2, <2>3
  <1>3. CASE T \subseteq S \cup {c} /\ Cardinality(S) < n
    <2>1. /\ IsFiniteSet(S \cup {c})
          /\ Cardinality(S \cup {c}) =
               IF c \in S THEN Cardinality(S) ELSE Cardinality(S) + 1
      BY FS_AddElement
    <2>5. Cardinality(S \cup {c}) <= Cardinality(S) + 1
      BY <1>1, <2>1
    <2>6. Cardinality(S \cup {c}) \in Nat
      BY <1>1, <2>1
    <2>2. T \in SUBSET (S \cup {c})
      BY <1>3
    <2>3. IsFiniteSet(T) /\ Cardinality(T) <= Cardinality(S \cup {c})
      BY <2>1, <2>2, FS_Subset
    <2>4. Cardinality(T) \in Nat
      BY <2>3, FS_CardinalityType
    <2> QED
      BY <1>1, <1>3, <2>3, <2>4, <2>5, <2>6
  <1> QED
    BY <1>2, <1>3

\* A step of one request keeps the invariant of all.
LEMMA StepKeepsIInv ==
  ASSUME IInv, NEW r \in Requests, NEW y, StepOf(r, y)
  PROVE  IInv'
  <1>1. /\ req \in [Requests -> Records] /\ req' = [req EXCEPT ![r] = y]
        /\ y \in Records
    BY DEF IInv, RequestsOK, StepOf
  <1>2. req'[r] = y /\ \A q \in Requests \ {r} : req'[q] = req[q]
    BY <1>1
  <1>3. RequestsOK'
    <2>1. req' \in [Requests -> Records]
      BY <1>1
    <2>2. \A q \in Requests : HeldOK(req'[q]) /\ PlaceOK(req'[q])
      BY <1>2 DEF IInv, RequestsOK, StepOf
    <2> QED
      BY <2>1, <2>2 DEF RequestsOK
  <1>4. Cardinality(CheckedOut') <= Conns
    <2>1. Conns \in Nat /\ IsFiniteSet(CheckedOut) /\ Cardinality(CheckedOut) <= Conns
      BY SizesAssumption, Finite DEF IInv, RoomOK
    <2>2. CASE y.held \subseteq req[r].held
      <3>1. CheckedOut' \subseteq CheckedOut
        BY <1>2, <2>2 DEF CheckedOut
      <3> QED
        BY <2>1, <3>1, WithinLimit
    <2>3. CASE ConnFree /\ \E s \in {"mw", "db"} : y.held = {s}
      <3>1. PICK s \in {"mw", "db"} : y.held = {s}
        BY <2>3
      <3>2. CheckedOut' \subseteq CheckedOut \cup {<<r, s>>}
        BY <1>2, <3>1 DEF CheckedOut
      <3>3. Cardinality(CheckedOut) < Conns
        BY <2>3 DEF ConnFree
      <3> QED
        BY <2>1, <3>2, <3>3, WithinLimit
    <2> QED
      BY <2>2, <2>3 DEF StepOf
  <1>5. Cardinality(ThreadsTaken') <= Threads
    <2>1. /\ Threads \in Nat /\ IsFiniteSet(ThreadsTaken)
          /\ Cardinality(ThreadsTaken) <= Threads
      BY SizesAssumption, Finite DEF IInv, RoomOK
    <2>2. CASE y.place = "thread" => req[r].place = "thread"
      <3>1. ThreadsTaken' \subseteq ThreadsTaken
        BY <1>2, <2>2 DEF ThreadsTaken
      <3> QED
        BY <2>1, <3>1, WithinLimit
    <2>3. CASE ThreadFree
      <3>1. ThreadsTaken' \subseteq ThreadsTaken \cup {r}
        BY <1>2 DEF ThreadsTaken
      <3>2. Cardinality(ThreadsTaken) < Threads
        BY <2>3 DEF ThreadFree, ThreadsTaken
      <3> QED
        BY <2>1, <3>1, <3>2, WithinLimit
    <2> QED
      BY <2>2, <2>3 DEF StepOf
  <1>6. Cardinality(LoopTaken') <= 1
    <2>1. 1 \in Nat /\ IsFiniteSet(LoopTaken) /\ Cardinality(LoopTaken) <= 1
      BY Finite DEF IInv, RoomOK
    <2>2. CASE y.place = "loop" => req[r].place = "loop"
      <3>1. LoopTaken' \subseteq LoopTaken
        BY <1>2, <2>2 DEF LoopTaken
      <3> QED
        BY <2>1, <3>1, WithinLimit
    <2>3. CASE LoopFree
      <3>1. LoopTaken' \subseteq LoopTaken \cup {r}
        BY <1>2 DEF LoopTaken
      <3>2. LoopTaken = {}
        BY <2>3 DEF LoopFree, LoopTaken
      <3>3. Cardinality(LoopTaken) < 1
        BY <3>2, FS_EmptySet
      <3> QED
        BY <2>1, <3>1, <3>3, WithinLimit
    <2> QED
      BY <2>2, <2>3 DEF StepOf
  <1> QED
    BY <1>3, <1>4, <1>5, <1>6 DEF IInv, RoomOK

\* The invariant holds of every behaviour.
LEMMA Inductive == Spec => []IInv
  <1>1. Init => IInv
    <2> SUFFICES ASSUME Init PROVE IInv
      OBVIOUS
    <2>1. Idle \in Records /\ HeldOK(Idle) /\ PlaceOK(Idle)
      BY DEF Idle, Records, HeldOK, PlaceOK, AtJob
    <2>2. \A r \in Requests : req[r] = Idle
      BY DEF Init
    <2>3. RequestsOK
      BY <2>1, <2>2 DEF RequestsOK, Init
    <2>4. CheckedOut = {} /\ ThreadsTaken = {} /\ LoopTaken = {}
      BY <2>2 DEF CheckedOut, ThreadsTaken, LoopTaken, Idle
    <2>5. Cardinality({}) = 0
      BY FS_EmptySet
    <2> QED
      BY <2>3, <2>4, <2>5, SizesAssumption DEF IInv, RoomOK
  <1>2. IInv /\ [Next]_req => IInv'
    <2> SUFFICES ASSUME IInv, [Next]_req PROVE IInv'
      OBVIOUS
    <2>1. CASE Next
      <3>1. PICK r \in Requests :
              \/ \E k \in Kinds : Arrive(r, k)
              \/ OnLoop(r) \/ Take(r) \/ TimeOut(r) \/ Finish(r) \/ Raise(r)
        BY <2>1 DEF Next
      <3>2. RequestsOK
        BY DEF IInv
      <3>3. \E y : StepOf(r, y)
        BY <3>1, <3>2, ArriveStep, EnterStep, ResumeStep, CloseStep, TakeStep,
           BrokenStep, FinishStep DEF OnLoop
      <3> QED
        BY <3>3, StepKeepsIInv
    <2>2. CASE UNCHANGED req
      BY <2>2 DEF IInv, RequestsOK, RoomOK, CheckedOut, ThreadsTaken, LoopTaken
    <2> QED
      BY <2>1, <2>2
  <1> QED
    BY <1>1, <1>2, PTL DEF Spec

----------------------------------------------------------------------------
(* The theorems. *)

\* The pool, the threads and the loop are never overdrawn (TypeOK).
THEOREM TypeCorrect == Spec => []TypeOK
  <1>1. IInv => TypeOK
    BY DEF IInv, RequestsOK, RoomOK, Records, PlaceOK, AtJob, Jobs, ThreadsTaken,
           LoopTaken, TypeOK
  <1> QED
    BY <1>1, Inductive, PTL

\* Whichever job raises or times out, the middleware's connection is out of the
\* pool only while it looks its user up, so that get_db, which closes the route's
\* session alone, gives back the last one the request has (NothingLeaks).
THEOREM NothingIsLeaked == Spec => []NothingLeaks
  <1>1. IInv => NothingLeaks
    <2> SUFFICES ASSUME IInv, NEW r \in Requests
                 PROVE  /\ "mw" \in req[r].held => /\ req[r].at = "running"
                                                   /\ Now(r).name = "Middleware"
                        /\ "db" \in req[r].held => req[r].at # "idle"
      BY DEF NothingLeaks
    <2>1. RequestsOK /\ HeldOK(req[r])
      BY DEF IInv, RequestsOK
    <2>2. CASE "mw" \in req[r].held
      <3>1. req[r].at = "running" /\ JobOf(req[r]).session = "mw"
        BY <2>1, <2>2 DEF HeldOK
      <3>2. AtJob(req[r])
        BY <3>1 DEF AtJob
      <3> QED
        BY <2>1, <3>1, <3>2, AtJobFacts
    <2>3. "db" \in req[r].held => req[r].at # "idle"
      BY <2>1 DEF HeldOK
    <2> QED
      BY <2>2, <2>3
  <1> QED
    BY <1>1, Inductive, PTL

\* No request waits for a connection while it has one.
THEOREM WaitsEmptyHanded == Spec => []NoHoldAndWait
  <1>1. IInv => NoHoldAndWait
    BY DEF IInv, RequestsOK, HeldOK, NoHoldAndWait
  <1> QED
    BY <1>1, Inductive, PTL

\* However long the mail of a message takes, it keeps no connection from others.
THEOREM SlowMailIsFree == Spec => []MessageMailHoldsNothing
  <1>1. IInv => MessageMailHoldsNothing
    <2> SUFFICES ASSUME IInv, NEW r \in InFlight, req[r].kind = "contact",
                        req[r].at \in {"running", "done"}, Now(r).name = "Mail"
                 PROVE  req[r].held = {}
      BY DEF MessageMailHoldsNothing
    <2>1. r \in Requests /\ RequestsOK /\ AtJob(req[r])
      BY DEF InFlight, IInv, AtJob
    <2>2. HeldOK(req[r]) /\ req[r].job \in 1..Len(Plan["contact"])
      BY <2>1 DEF RequestsOK, PlaceOK
    <2>3. Plan["contact"][req[r].job].name = "Mail"
      BY DEF Now, Jobs
    <2>4. req[r].job = 6
      BY <2>2, <2>3, ContactFacts
    <2> QED
      BY <2>2, <2>4 DEF HeldOK
  <1> QED
    BY <1>1, Inductive, PTL

\* When nothing but the timeout can happen, somebody waits for the pool: the loop
\* and a thread are only ever kept by a job, and a job that runs can end.
LEMMA SomebodyWaits ==
  ASSUME IInv, Stalled
  PROVE  ~ConnFree /\ \E w \in InFlight : req[w].at = "waiting"
  <1> SUFFICES \E w \in InFlight : req[w].at = "waiting"
    BY DEF Stalled
  <1>1. \A r \in Requests : PlaceOK(req[r]) /\ req[r] \in Records
    BY DEF IInv, RequestsOK
  <1>2. \A r \in InFlight : req[r].at # "running"
    BY DEF Stalled
  <1>3. CASE ~LoopFree
    <2>1. PICK r \in Requests : req[r].place = "loop"
      BY <1>3 DEF LoopFree
    <2>2. req[r].at \in {"waiting", "running"}
      BY <1>1, <2>1 DEF PlaceOK
    <2>3. r \in InFlight
      BY <2>2 DEF InFlight
    <2> QED
      BY <1>2, <2>2, <2>3
  <1>4. CASE LoopFree
    <2>1. PICK q \in InFlight :
            \/ req[q].at = "waiting"
            \/ req[q].at = "ready" /\ ~ThreadFree
      BY <1>4 DEF Stalled
    <2>2. CASE ~ThreadFree
      <3>1. ThreadsTaken # {}
        <4>1. ~(Cardinality(ThreadsTaken) < Threads)
          BY <2>2 DEF ThreadFree, ThreadsTaken
        <4>2. Cardinality({}) < Threads
          BY SizesAssumption, FS_EmptySet
        <4> QED
          BY <4>1, <4>2
      <3>2. PICK r \in Requests : req[r].place = "thread"
        BY <3>1 DEF ThreadsTaken
      <3>3. req[r].at \notin {"idle", "ready", "closing"}
        BY <1>1, <3>2 DEF PlaceOK
      <3>4. r \in InFlight
        BY <3>3 DEF InFlight
      <3>5. req[r].at \in {"waiting", "running", "done", "raised"}
        BY <1>1, <3>3 DEF Records
      <3>6. req[r].at \notin {"done", "raised"}
        BY <1>4, <3>4 DEF Stalled
      <3> QED
        BY <1>2, <3>4, <3>5, <3>6
    <2> QED
      BY <2>1, <2>2
  <1> QED
    BY <1>3, <1>4

\* The process stands still only with more requests in flight than the pool has
\* connections: each connection is held by a request of its own, none of which
\* is the one that waits.
THEOREM StallsNeedACrowd == Spec => []StallNeedsCrowd
  <1>1. IInv => StallNeedsCrowd
    <2> SUFFICES ASSUME IInv, Stalled PROVE Cardinality(InFlight) > Conns
      BY DEF StallNeedsCrowd
    <2>1. PICK w \in InFlight : req[w].at = "waiting"
      BY SomebodyWaits
    <2>2. ~(Cardinality(CheckedOut) < Conns)
      BY SomebodyWaits DEF ConnFree
    <2> DEFINE others == InFlight \ {w}
               holder == [c \in CheckedOut |-> c[1]]
    <2>3. \A r \in Requests : HeldOK(req[r]) /\ req[r] \in Records
      BY DEF IInv, RequestsOK
    <2>4. \A c \in CheckedOut : /\ c = <<c[1], c[2]>> /\ c[1] \in Requests
                               /\ c[2] \in {"mw", "db"} /\ c[2] \in req[c[1]].held
      BY DEF CheckedOut
    <2>5. \A c \in CheckedOut : c[1] \in others /\ c[2] = "db"
      <3> SUFFICES ASSUME NEW c \in CheckedOut PROVE c[1] \in others /\ c[2] = "db"
        OBVIOUS
      <3>1. req[c[1]].held # {} /\ c[1] \in Requests
        BY <2>4
      <3>2. req[c[1]].at \notin {"idle", "waiting"}
        BY <2>3, <3>1 DEF HeldOK
      <3>3. c[1] \in InFlight /\ c[1] # w
        BY <2>1, <3>1, <3>2 DEF InFlight
      <3>4. req[c[1]].at # "running"
        BY <3>3 DEF Stalled
      <3>5. c[2] # "mw"
        BY <2>3, <2>4, <3>1, <3>4 DEF HeldOK
      <3> QED
        BY <2>4, <3>3, <3>5
    <2>6. IsFiniteSet(InFlight) /\ IsFiniteSet(others)
      <3>1. InFlight \in SUBSET Requests /\ others \in SUBSET InFlight
        BY DEF InFlight
      <3> QED
        BY <3>1, SizesAssumption, FS_Subset
    <2>7. holder \in Injection(CheckedOut, others)
      <3>1. holder \in [CheckedOut -> others]
        BY <2>5
      <3>2. \A a, b \in CheckedOut : holder[a] = holder[b] => a = b
        BY <2>4, <2>5
      <3> QED
        BY <3>1, <3>2 DEF Injection, IsInjective
    <2> HIDE DEF holder
    <2>8. Cardinality(CheckedOut) <= Cardinality(others)
      BY <2>6, <2>7, FS_Injection
    <2>9. Cardinality(others) = Cardinality(InFlight) - 1
      BY <2>1, <2>6, FS_RemoveElement
    <2>10. /\ Cardinality(CheckedOut) \in Nat /\ Cardinality(others) \in Nat
           /\ Cardinality(InFlight) \in Nat /\ Conns \in Nat
      BY <2>6, Finite, FS_CardinalityType, SizesAssumption
    <2> QED
      BY <2>2, <2>8, <2>9, <2>10
  <1> QED
    BY <1>1, Inductive, PTL

----------------------------------------------------------------------------
(* How far a request is from its end: the part of EveryRequestEnds that is   *)
(* safety.                                                                   *)

\* The steps a request has left at most: four for each job still to come, and those
\* of the present one.
Left(x) ==
  CASE x.at = "idle" -> 0
    [] x.at = "closing" -> 1
    [] x.at = "raised" -> 2
    [] x.at = "done" -> 4 * (Len(Plan[x.kind]) - x.job) + 3
    [] x.at = "running" -> 4 * (Len(Plan[x.kind]) - x.job) + 4
    [] x.at = "waiting" -> 4 * (Len(Plan[x.kind]) - x.job) + 5
    [] x.at = "ready" -> 4 * (Len(Plan[x.kind]) - x.job) + 6

\* What request r does next, other than to arrive.
Does(r) == OnLoop(r) \/ Take(r) \/ TimeOut(r) \/ Finish(r) \/ Raise(r)

\* No plan has more than six jobs, so no request has more than 26 steps.
LEMMA LeftBounds ==
  ASSUME NEW x \in Records, PlaceOK(x)
  PROVE  Left(x) \in 0..26
  <1>1. \A n \in 0..5 : 4 * n + 3 \in 0..26 /\ 4 * n + 4 \in 0..26
                      /\ 4 * n + 5 \in 0..26 /\ 4 * n + 6 \in 0..26
    OBVIOUS
  <1>2. CASE x.at \in {"idle", "closing", "raised"}
    <2>1. Left(x) \in {0, 1, 2}
      BY <1>2 DEF Left
    <2> QED
      BY <2>1
  <1>3. CASE x.at \in {"done", "running", "waiting", "ready"}
    <2>1. x.kind \in Kinds /\ x.job \in 1..Len(Plan[x.kind])
      BY <1>3 DEF PlaceOK, AtJob
    <2>2. Len(Plan[x.kind]) \in Nat /\ Len(Plan[x.kind]) <= 6
      BY <2>1, KindFacts
    <2> PICK n : n = Len(Plan[x.kind]) - x.job
      OBVIOUS
    <2>3. n \in 0..5
      BY <2>1, <2>2
    <2>4. Left(x) \in {4 * n + 3, 4 * n + 4, 4 * n + 5, 4 * n + 6}
      BY <1>3 DEF Left
    <2> QED
      BY <1>1, <2>3, <2>4
  <1> QED
    BY <1>2, <1>3 DEF Records

\* Each step of a request changes nothing but that request, and leaves it fewer.
LEMMA StepGetsOn ==
  ASSUME RequestsOK, NEW r \in Requests, Does(r)
  PROVE  /\ \A q \in Requests \ {r} : req'[q] = req[q]
         /\ Left(req'[r]) < Left(req[r])
  <1>1. req \in [Requests -> Records] /\ req[r] \in Records /\ PlaceOK(req[r])
    BY DEF RequestsOK
  <1>2. \A q \in Requests \ {r} : req'[q] = req[q]
    BY <1>1 DEF Does, OnLoop, Enter, Resume, Close, Take, TimeOut, Finish, Raise
  <1> PICK x : x = req[r]
    OBVIOUS
  <1> PICK y : y = req'[r]
    OBVIOUS
  <1> DEFINE left == Len(Plan[x.kind]) - x.job
  <1>3. AtJob(x) => /\ left \in Nat
                    /\ HasNext(r) <=> left \in Nat \ {0}
    <2>1. SUFFICES ASSUME AtJob(x)
                   PROVE  left \in Nat /\ (HasNext(r) <=> left \in Nat \ {0})
      OBVIOUS
    <2>2. x.job \in Nat /\ Len(Plan[x.kind]) \in Nat /\ x.job <= Len(Plan[x.kind])
      BY <2>1, AtJobFacts DEF Jobs
    <2>3. HasNext(r) <=> x.job < Len(Plan[x.kind])
      BY DEF HasNext, Jobs
    <2> QED
      BY <2>2, <2>3
  <1>4. /\ Idle.at = "idle"
        /\ \A held : Closing(held).at = "closing"
    BY DEF Idle, Closing
  <1>5. ASSUME Enter(r) PROVE Left(y) < Left(x)
    <2>1. /\ x.at = "ready" /\ y.at \in {"waiting", "running"}
          /\ y.kind = x.kind /\ y.job = x.job
      BY <1>1, <1>5 DEF Enter, Begins, Records
    <2> QED
      BY <1>3, <2>1 DEF Left, AtJob
  <1>6. ASSUME Take(r) PROVE Left(y) < Left(x)
    <2>1. /\ x.at = "waiting" /\ y.at = "running"
          /\ y.kind = x.kind /\ y.job = x.job
      BY <1>1, <1>6 DEF Take, Records
    <2> QED
      BY <1>3, <2>1 DEF Left, AtJob
  <1>7. ASSUME TimeOut(r) \/ Raise(r) PROVE Left(y) < Left(x)
    <2>1. x.at \in {"waiting", "running"} /\ y = Broken(r)
      BY <1>1, <1>7 DEF TimeOut, Raise
    <2>2. y.at \in {"raised", "closing"}
      BY <1>1, <1>4, <2>1 DEF Broken, Records
    <2> QED
      BY <1>3, <2>1, <2>2 DEF Left, AtJob
  <1>8. ASSUME Finish(r) PROVE Left(y) < Left(x)
    <2>1. x.at = "running"
      BY <1>8 DEF Finish
    <2>2. CASE y.at \in {"waiting", "running", "ready"} /\ HasNext(r)
               /\ y.kind = x.kind /\ y.job = x.job + 1
      <3>1. left \in Nat \ {0} /\ x.job \in Nat /\ Len(Plan[x.kind]) \in Nat
        BY <1>1, <1>3, <2>1, <2>2, AtJobFacts DEF AtJob, Jobs
      <3>2. Len(Plan[y.kind]) - y.job = left - 1
        BY <2>2, <3>1
      <3> QED
        BY <2>1, <2>2, <3>1, <3>2 DEF Left
    <2>3. CASE y.at = "done" /\ y.kind = x.kind /\ y.job = x.job
      BY <1>3, <2>1, <2>3 DEF Left, AtJob
    <2>4. CASE y.at = "closing"
      BY <1>3, <2>1, <2>4 DEF Left, AtJob
    <2>5. \/ y.at \in {"waiting", "running", "ready"} /\ HasNext(r)
             /\ y.kind = x.kind /\ y.job = x.job + 1
          \/ y.at = "done" /\ y.kind = x.kind /\ y.job = x.job
          \/ y.at = "closing"
      BY <1>1, <1>4, <1>8 DEF Finish, Begins, Records
    <2> QED
      BY <2>2, <2>3, <2>4, <2>5
  <1>9. ASSUME Resume(r) PROVE Left(y) < Left(x)
    <2>1. CASE x.at = "done" /\ HasNext(r) /\ y.at = "ready"
               /\ y.kind = x.kind /\ y.job = x.job + 1
      <3>1. left \in Nat \ {0} /\ x.job \in Nat /\ Len(Plan[x.kind]) \in Nat
        BY <1>1, <1>3, <2>1, AtJobFacts DEF AtJob, Jobs
      <3>2. Len(Plan[y.kind]) - y.job = left - 1
        BY <2>1, <3>1
      <3> QED
        BY <2>1, <3>1, <3>2 DEF Left
    <2>2. CASE x.at \in {"raised", "done"} /\ y.at = "closing"
      BY <1>3, <2>2 DEF Left, AtJob
    <2>3. \/ x.at = "done" /\ HasNext(r) /\ y.at = "ready"
             /\ y.kind = x.kind /\ y.job = x.job + 1
          \/ x.at \in {"raised", "done"} /\ y.at = "closing"
      BY <1>1, <1>4, <1>9 DEF Resume, Records
    <2> QED
      BY <2>1, <2>2, <2>3
  <1>10. ASSUME Close(r) PROVE Left(y) < Left(x)
    BY <1>1, <1>4, <1>10 DEF Close, Left
  <1> QED
    BY <1>2, <1>5, <1>6, <1>7, <1>8, <1>9, <1>10 DEF Does, OnLoop

\* A request has at most 26 steps from its arrival to its end: each step it takes
\* uses one up, no step of another request gives one back, and only an idle
\* request arrives.  Nothing is tried again: a job that raises, in the pool's
\* timeout or otherwise, is the last one.
THEOREM RequestsGetOn ==
  Spec => /\ [](\A r \in Requests : Left(req[r]) \in 0..26)
          /\ [][\A r \in Requests : req'[r] # req[r] =>
                   req[r].at = "idle" \/ Left(req'[r]) < Left(req[r])]_req
  <1>1. IInv => \A r \in Requests : Left(req[r]) \in 0..26
    BY LeftBounds DEF IInv, RequestsOK
  <1>2. ASSUME IInv, Next, NEW r \in Requests, req'[r] # req[r]
        PROVE  req[r].at = "idle" \/ Left(req'[r]) < Left(req[r])
    <2>1. RequestsOK /\ req \in [Requests -> Records]
      BY <1>2 DEF IInv, RequestsOK
    <2>2. PICK q \in Requests : (\E k \in Kinds : Arrive(q, k)) \/ Does(q)
      BY <1>2 DEF Next, Does
    <2>3. CASE \E k \in Kinds : Arrive(q, k)
      <3>1. q = r
        BY <1>2, <2>1, <2>3 DEF Arrive
      <3> QED
        BY <2>3, <3>1 DEF Arrive
    <2>4. CASE Does(q)
      <3>1. q = r
        BY <1>2, <2>1, <2>4, StepGetsOn
      <3> QED
        BY <2>1, <2>4, <3>1, StepGetsOn
    <2> QED
      BY <2>2, <2>3, <2>4
  <1>3. IInv /\ [Next]_req
          => [\A r \in Requests : req'[r] # req[r] =>
                 req[r].at = "idle" \/ Left(req'[r]) < Left(req[r])]_req
    BY <1>2
  <1> QED
    BY <1>1, <1>3, Inductive, PTL DEF Spec

\* What the next step of a request waits for is there.  One that waits for a
\* connection gets it or the pool's timeout, and a job that runs returns or raises.
CanMove(r) ==
  \/ req[r].at \in {"waiting", "running"}
  \/ req[r].at = "ready" /\ LoopFree /\ (Now(r).on = "thread" => ThreadFree)
  \/ req[r].at \in {"done", "raised", "closing"} /\ LoopFree

\* Everyone never waits for everyone: while there are requests one of them can go
\* on.  Where nothing else is left, somebody waits for a connection, on the loop or
\* with a thread, and the pool's timeout breaks the stall: take the timeout away
\* (pool_timeout) and the process would stand still for good.
THEOREM SomebodyMoves ==
  Spec => []/\ InFlight # {} => \E r \in InFlight : CanMove(r)
            /\ Stalled => ~ConnFree /\ \E w \in InFlight : req[w].at = "waiting"
  <1>1. IInv => (InFlight # {} => \E r \in InFlight : CanMove(r))
    <2> SUFFICES ASSUME IInv, InFlight # {}, \A r \in InFlight : ~CanMove(r) PROVE FALSE
      OBVIOUS
    <2>1. \A r \in InFlight : req[r] \in Records /\ req[r].at # "idle"
      BY DEF IInv, RequestsOK, InFlight
    <2>2. Stalled
      BY <2>1 DEF Stalled, CanMove, Records
    <2>3. PICK w \in InFlight : req[w].at = "waiting"
      BY <2>2, SomebodyWaits
    <2> QED
      BY <2>3 DEF CanMove
  <1>2. IInv /\ Stalled => ~ConnFree /\ \E w \in InFlight : req[w].at = "waiting"
    BY SomebodyWaits
  <1> QED
    BY <1>1, <1>2, Inductive, PTL
=============================================================================
