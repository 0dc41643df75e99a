# Formal models of containerswap

TLA+ models of [containerswap](../src/README.md), a FastAPI and PostgreSQL site on
which people give away and sell used containers. TLC checks each model on small
instances, and TLAPS proves the most important properties of them for every value of
the constants. The models are written from the code in `src/`; `PROJECT.json` gives
the lines every definition stands for.

## The system

A request runs a middleware that looks up the session (`main.py`), then the route's
dependencies (CSRF token, rate limiter, signed-in user), then the handler. Every
request has a database session of its own (`app/db.py`), under PostgreSQL's READ
COMMITTED, and several instances, each with a pool of threads, share the database.
There are no row locks and no version columns anywhere, so **between the SELECT of a
handler and its commit any other request may commit**. The session is created with
`expire_on_commit=False`: a handler goes on with what it loaded, and its UPDATE names
only the columns whose value differs from the one it loaded. These three facts are
what every module of the project models, and where its findings come from.

| Component | State | Operations | What is hard | What makes it correct |
| --- | --- | --- | --- | --- |
| Accounts (`routes/account.py`, `auth.py`) | `users` rows, signed cookies, mailed tokens | sign-up, login, verify, resend, forgot, reset | stateless tokens checked against a row that may change before the commit; lost mail | a spent reset link is dead; a reset ends the other sessions; an account is verified, and an existing password changed, only through its inbox |
| Listings (`routes/listings.py`, `events.py`) | `listings.status`, `is_seed`; `messages`, `reports`, `event_log` | post, contact, report, complete, toggle demo, delete | decisions on a status that has changed; the event and the mail come after the commit | no listing or message of an unverified account; a completed or removed listing is not offered again; events and mails only for what is saved |
| Listing contents (`edit_listing`, `geo.py`, `images.py`, `storage.py`) | `listing_tags`, the pin, the photo, the bucket | create and edit around an upload | seconds between loading and writing; differences computed from a stale row; store and database are two systems | the exact place is never stored; photos shown exist; edits replace what they name and nothing else |
| Rate limiter (`ratelimit.py`) | `rate_limit_hits` | `check`: delete expired, count, insert | three statements without a lock, row locks between deletions | the rows and the requests let in within a window are bounded; no check waits for ever; a full bucket opens again |
| Mail (`email.py`) | none | background tasks after the response | dies with the process, failures swallowed | announces only what is committed |
| Sessions in the browser (`main.py`, `auth.py`, `templating.py`) | the signed cookie, the page on the screen | follow a link, press a button, sign in, sign out | pages outlive cookies; the user is looked up twice; redirects of two parties | a button acts for whom its page names; redirects end; nobody is locked out |
| Pool and middleware (`db.py`, `main.py`) | 10 connections, the event loop, 40 threads | look up the user, run a handler, close the session | the event loop waits for a connection that needs the event loop to be given back; two sessions, closed in two places | no connection leaks; every request ends |
| Browsing (`routes/listings.py`) | none (queries); cached answers | home, map, geojson, sitemap, detail, inbox | links followed long after they were rendered; a soft delete that must keep everything that refers to the row | a link dies only by its owner's removal; no report, event or inbox link is lost |
| Migrations and deploys (`deploy_safety.py`, `env.py`, `pre-push`) | the schema revision, the instances' code | upgrade, push, roll over | the order is a person's | old and new code each find the schema they need |
| Everything else | – | configuration, region table, i18n, templates, scripts, assets | – | – |

## The modules

### Accounts

`users` is the table, one row for an address (an address is an account; its primary
key adds nothing). A hash is a number: Argon2 salts, so every hash is new, even of the
same password. `pending` holds mails queued as background tasks, `inbox` those that
arrived, `sessions` every cookie ever issued. `req[p]` is what worker `p` has loaded.

| Action | Code |
| --- | --- |
| `SignupCheck`, `SignupCommit` / `SignupCollides`, `SignupReply` | `signup`: the SELECT; the INSERT or the unique index's refusal; cookie and mail |
| `Login`, `SignInReply` | `login`: the row is read, the cookie is made of it |
| `VerifyRead`, `VerifyCommit` | `verify_email` |
| `resend_verification`, `forgot_password` | one reading and a queued mail, hence one step |
| `ResetResolve`, `ResetCommit`, `SignInReply` | `reset_password`: the link resolves and the password is hashed; the UPDATE; the cookie |
| `Deliver`, `LoseMail` | the background task |
| `Abort`, `Deactivate` | a request that ends early; the operator's UPDATE of `is_active` |

A cookie carries (`h`, which the real one does not) the hash of the row it was made
from, so that "opened under the present password" can be said. `spent` and `overtaken`
are history: the links committed resets used, and the accounts on which a reset was
committed between another one's reading and its commit. Tokens that expire need no
state: refusing one is a request that does nothing.

### Identity

What the accounts promise without workers, readings, cookies and background tasks: an
address is registered once and for good; letters go to registered addresses; a password
is set once in the history of the site, and changes only by a letter that named the
password of the time and was opened while it was still the password, by an account that
was not off; an address is proven only after a letter reached it; neither that nor being
switched off is undone. What concurrency adds is visible, as in Board: `following`, the
letters being followed, of which several may be for one password, and each may set one.
`Accounts` implements it (`ImplementsIdentity`): a letter is followed while a request is
between `ResetResolve` and `ResetCommit`, the passwords known are the hashes drawn, and
sign-in, cookies, queued and lost mail are stutters. `CommitsStick` is what this means for
the rows of the table. Cookies are not part of it: after overlapping resets an old one
may come alive again (`SessionBoundToPassword` says when not).

### Listings

The rows of `listings`, `messages`, `reports` and `event_log` (as sets; `completions`
counts the `listing_completed` rows), the mails queued, and for each worker the row it
loaded. Every POST is a `...Read` step that makes all the checks of the handler and a
`...Commit` step; the event is the step after it (`LogCreated`, `ContactLog`,
`LogCompleted`), because `log_event` commits a transaction of its own. `Verify` is the
only thing this module needs of Accounts. `completed` is history: the completions
committed. `submit_feedback` is `FeedbackRead` and `FeedbackCommit`; of its row only
whether there is one matters.

### Board

What the listings promise without workers, readings and commits: a listing is posted
once, by a member, belongs to that member, is completed and taken down; members write to
owners. The one thing the program's concurrency adds is visible in it: `contested`, the
listings that somebody began to complete while they were active, which can become
completed even after they were taken down. `Listings` implements it
(`ImplementsBoard`): a member is a verified account, a listing is contested while a
request is between `CompleteRead` and `CompleteCommit`; events, mails, reports, feedback
and the demo flag are stutters. That no unverified account posts or writes (`OnlyVerifiedReachOthers`), that
messages are filed with the owner (`MessagesReachTheOwner`), that nothing is listed again
(`NeverRelisted`) and what alone revives a removed listing (`RevivedOnlyByOverlap`) are
what this means for the tables.

### Browse

The page of a listing and the inbox, over the state of `Listings`. `Opens(l, v)` is that
`listing_detail` does not answer 404 to viewer `v`; `inbox(u)` is what the inbox of `u`
links to. Two properties of a soft delete follow, for every overlap of requests:
`LinksLast`, that a link, followed from an old tab or a map or site map that was cached,
goes on opening unless the owner has taken the listing down; and
`RecordsOutliveListings`, that what refers to the row (reports, for moderation, which is
the reason `delete_listing` gives, events, and the messages that the inbox links from)
outlives the listing. All three tables refer to `listings` with ON DELETE CASCADE, and the
mutant of both properties, a hard delete, cascades as they do.

### Sessions

One tab of a browser, with the cookie jar it shares with the other tabs. A request
carries the jar as it was when it was sent and the form token of the page it was sent
from; `Middleware` and then the route look its user up; `Receive` sets the cookie and
shows the page or follows the redirect.

| Action | Code |
| --- | --- |
| `Open`, `Press`, `SignIn` | the person: a link, a button of the page on the screen, the login form |
| `Middleware` | `request_context`: the user that templates and `login_form` go by |
| `account_page`, `Refuse`, `Act`, `logout` | the routes behind `require_user` and `verify_csrf`: the second lookup |
| `Unauthorized` | `http_exception_handler`: a 401 leads to the login form, with `next` |
| `login_form`, `LoginOk`, `LoginFails` | `/login` |
| `Serve` | what everybody may open, and the path of a POST, opened |
| `SignedOut`, `SignedIn`, `Reset` | the rest of the browser and of the world: the cookie expires or is cleared, a response to another tab brings one, however late, a password is reset |
| `Lose` | a response that never arrives |

The other tabs are not followed: all they can do to this one is to change the jar, and
they may do that at every moment, which is more than any number of tabs would. A reset
that overtakes another one, after which two sessions share a version, is in Accounts.

### ListingEdit

What `create_listing` and `edit_listing` write. A coordinate is the place it came from,
how many times it was jittered and by which draw, so the module can tell an exact place
from a pin, and a pin from an older pin. `pages` are the edit forms open in a browser:
a form carries the pin it was rendered with for as long as it stays open. An upload is
a step between loading and writing; it stores a file, fails, or fails although the file
was stored. `TagsAfter` is the unit of work's difference for `listing_tags` and
`Assigned` the one for a column. `_new_listing_error` after a picture that was rejected or
not stored is `UploadFails` (before any upload it does nothing, and needs no action); a
request that raises or dies is `Abort`, `get_db`'s rollback. Neither writes to the
database; `AfterFailedSave` is what the store may have kept.

### RateLimit

One bucket and key. `hits` is the table and `window`, which the program does not have, the
requests let in that are not yet older than the window, whether or not their rows are
still there. `Begin` computes the cutoff, as the rows whose requests have left the window
(`Doomed`). `DeleteExpired` waits for the row locks of other deletions, `CountHits` sees its own
deletions and committed rows, `Admit` and `Refuse` commit. `Expire` is time passing. What
the limit is for is `WindowBound`, about requests; the code only ever counts rows.

### WorkerPool

One process under load. A request is a sequence of jobs (`Plan`); a job has a place (the
event loop or a thread of the pool), a database session or none, and says whether it
ends its transaction. `req[r]` is the job a request is at, where it stands in it
(`ready` for a place, `waiting` for the pool, `running`, `done` or `raised` but with the
thread's token still taken, `closing`) and the sessions that have a connection.

| Action | Code |
| --- | --- |
| `Arrive`, `Enter`, `Resume` | the coroutine's turns on the loop: it takes the loop or a thread, and later gives the thread back |
| `Take`, `TimeOut` | the pool of `_make_engine`: 5 + 5 connections, SQLAlchemy's 30 s |
| `Finish`, `Raise` | the job returns, or raises |
| `Broken` | what a job that raises leaves: the middleware's `finally` closes its session, a thread's exception waits for the loop |
| `Close` | `get_db`'s `finally`, which FastAPI (0.118 and later) runs after the response and its background tasks; it closes the route's session and no other |

The four plans are the shapes of all routes: a query that nothing commits (`home`), the
same with a mail after it (`forgot`), a handler in a thread that commits and logs, with
a mail (`contact`), and a coroutine with an upload (`create`). `require_user`,
`verify_csrf` and other jobs without a statement are left out: they wait for the loop or
a thread, as the job after them does.

### Deploy

The repository's newest revision, the revision of the production schema, and the
versions of the code that serve. `HookPasses` is `.githooks/pre-push` with
`deploy_safety.py`; `Advised` is when the operator, who follows what the hook prints and
the README says, runs `alembic upgrade head`. A revision is what it does: it adds
something new code needs, removes something old code reads, or both, and it is marked or
not. `MCDeploy` has the nine revisions of `src/migrations/versions`.

## The runs

Every run checks deadlock except where the system may simply stop: in Accounts,
Listings and ListingEdit the bounds on hashes, listings, draws and photos end every
behaviour, and in Deploy nothing is left to do once the last revision is live.

| Run | Bounds | Shows |
| --- | --- | --- |
| `accounts` | 2 addresses, 2 workers, 3 hashes | tokens, sessions and committed facts under every interleaving, and that it implements `Identity` |
| `accounts_link_once` | 1 address, 2 workers, 3 hashes | **violation**: one link sets two passwords |
| `accounts_sign_out` | same | **violation**: a session survives a reset |
| `listings` | 2 accounts, 1 listing, 2 workers | the lifecycle, with failing requests and lost mail, what becomes of links and records, and that it implements `Board` |
| `listings_removed` | 2 workers | **violation**: a removed listing comes back |
| `edits` | 1 listing, 2 requests, 2 draws, 2 photos, 2 tags | stale pages, failing uploads, overlapping edits, files left behind |
| `sessions` | 2 accounts, 1 reset of each, 4 tokens, every kind of path | buttons act as their page says, redirects end, whoever keeps asking gets in |
| `edits_jitter` | 1 request, 2 places | **violation**: an old form is jittered again |
| `ratelimit` | limit 2, 2 workers, 6 keys | the rows and the requests within a window are bounded, fair count; a full bucket opens, every check ends |
| `pool` | 3 requests, 1 connection, 2 threads, 4 kinds | the middleware's connection never outlives its lookup, who can stall whom, a message's mail keeps none, every request ends |
| `deploy` | 9 revisions, from every settled version | what serves finds what it needs, and when it may not |
| `deploy_ordinary` | same | **violation**: a migration that is applied first takes a column from the instances that serve |

*Why the bounds are enough.* Most hazards are of one shape: a step computed from a
reading that another request made stale. Two workers make every such pair. Three hashes
give an account that is registered and reset twice, or two accounts of which one is
reset; the overtaking resets need exactly that. Two addresses let a mail or session of
one be tried on the other. One listing suffices where no handler touches two. Six
rate-limit keys leave keys free when the overshoot is at its maximum. In `pool` there
are fewer connections than threads, as in the program, and a request more than threads:
enough for all to wait for the loop (one has the loop, one the connection), and for all
to wait for a thread (two have the threads, one the connection). In `sessions` the one
tab, its request, the cookie of that request and the jar never hold more than three
tokens that matter to each other, so the fourth is always a fresh one, and two accounts
with one reset each give every disagreement of page, cookie and row. The runs of
Accounts, Listings and ListingEdit check safety under symmetry of addresses, workers,
places and files; no run with liveness uses symmetry.

*Fairness* is assumed in `ratelimit`, `pool` and `sessions`. RateLimit: weak fairness for
the steps of a check that has deleted (the database answers), for the expiry of hits (time
passes), and for a worker to begin another check (a client that tries again); strong
fairness for `DeleteExpired`, which others can overtake again and again as long as it
waits: PostgreSQL's lock queue grants a lock in turn.
`KeepsAdmitting` also supposes that clients do not for ever give up while a check is
being answered; it would be wrong without retries, because nothing but a check deletes a
hit. WorkerPool: strong fairness for a coroutine's turn, since asyncio and anyio's
limiter serve in order of arrival; weak fairness for `Take \/ TimeOut`, which is the
pool's timeout, and for a job to return or raise, which the timeouts of `httpx` (10 and
15 s) and the database give. Sessions: weak fairness for the program to answer
(`EveryRequestEnds` is why) and for the answer to arrive or be given up; and, as the
premise of `GetsIn`, strong fairness for a person who asks again for the page, uses the
login form whenever there is one, and gets the password right in the end. `VisitsEnd`
needs none of the latter. `GetsIn` further supposes that what sets the person back (a
sign-out, a lost response, a reset, a cookie that was already dead) stops happening.

## The proofs

Seven modules of proofs hold for any sets of addresses, accounts, listings, workers,
keys, tokens and files, any bounds and sizes and any chain of revisions, from the
assumptions named in the modules (`AccountsAssumption`, `ListingsAssumption`,
`ListingEditAssumption`, `RateLimitAssumption`, `SizesAssumption`, `SessionsAssumption`:
that a null value is no proper value, that the set of workers is finite, the limit
positive; `ChainAssumption`, `PostDeployAssumption`: what is marked only removes). Every
safety property that a passing run checks has its theorem, the two refinements included.

*Accounts.* None of the properties is inductive alone. `IInv` adds: hashes in rows and
in memory were generated already, and a version is smaller than the hash (`RowsOK`); a
request past its first reading is of a registered account, and a reset in flight has
its mail in the inbox (`RequestsOK`); a spent token is older than the account's password
(`SpentOK`), which makes `SpentTokenDead` hold for good; and, on an account no reset
was overtaken on, a cookie *or a row loaded to make one* has the account's version
exactly when it has its hash (`SessionsOK`). The last is where concurrency is: a login
that read the row before a reset may send its cookie after it, so the agreement must be
stated of rows in memory. Theorems: `TypeCorrect`, `SpentLinksAreDead`, `ResetSignsOut`,
`VerifiedMeansReached`, `PasswordChangesByLink`, `NothingIsUndone`, and
`IdentityIsImplemented`, for which `LettersOK` (mail under way is for a registered address,
and a reset letter names a password that was set) and `OffOK` are shown to be kept, and
every action mapped to one of `Identity` or to none.

*Listings.* `IInv` says of every request in flight what its checks established and no
other request can take back (`Informed`): its author is verified if it will post or
write, is not the owner of the listing it writes about and is the owner of the one it
changes, and the owner in the row it loaded is the owner in the table. It says nothing of
the status and the flag, which do change under a request. From that each property follows
step by step, and `BoardIsImplemented` shows that every step of `Listings` is one of
`Board` or a stutter. For `CompletionsAreBounded` the completions are counted together
with the requests that will still complete the listing, which is what cannot grow once
it is closed. Theorems: `TypeCorrect`, `UnverifiedStaySilent`, `OwnersAreReached`,
`MailIsTrue`, `EventsAreTrue`, `CompletionsAreBounded`, `ListingsStayClosed`,
`RevivalIsAnOverlap`, `FlagsAreToggled`, `BoardIsImplemented`, and for Browse
`NothingRecordedIsLost`, which needs that a report names a row that is there
(`ReportsOK`), and `LinksStayAlive`.

*ListingEdit.* `RowsOK`, `PagesOK` and `RequestsOK` say one thing of the table, of the
open forms and of the rows in memory, since each is filled from the others: a pin was
jittered, and a photo is in the store. A coordinate in a form is no deeper than the draws
so far, which makes every draw a new one (`EditsKeepTheRest`); the action properties
follow from that and from which request writes a row (`WhoWrites`). Theorems: `TypeCorrect`,
`ExactPinsAreDropped`, `PhotosAreThere`, `EditsKeepTheRest`, `DroppedFilesStay`,
`TagsAreReplaced`, `TagsAreKept`.

*RateLimit.* `RoomOK` counts the table together with the checks that are about to make
it longer: those that found room and have deleted nothing. That sum never exceeds
`Limit - 1 + |Procs|`, and this is inductive while the bound on the table alone is not.
`WindowKept` and `ViewsOK` carry the bound to requests: a request in the window has its row,
and no check that has begun is going to delete it. Theorems: `TypeCorrect`, `Overshoot`,
`WindowIsBounded`, `FairCount`.

*WorkerPool.* The invariant gives, for each kind of request and each of its jobs, the
sessions it can hold there; that no job asks for a second connection, that a message's
mail holds none, and that the middleware's session is open in its own job alone, so that
what `Close` closes is all there is, are read off it. The last is not in `Close` itself: it
depends on what the middleware's job leaves when it returns, raises or times out.
`StallsNeedACrowd` counts: in a stalled process somebody waits for the pool
(`SomebodyWaits`), all connections are out, each held by a request of its own, and none of
these is the one that waits. Theorems: `TypeCorrect`, `NothingIsLeaked`, `WaitsEmptyHanded`, `SlowMailIsFree`,
`StallsNeedACrowd`, `RequestsGetOn`, `SomebodyMoves`.

*Sessions.* A token names one account for good: wherever two places (the jar, the cookie
of a request or of a response, a page's forms) have the same token, the pages among them
name the account of the cookies among them. A request on its way still carries the token
of the page on the screen. `ActsAsShown` follows, since `verify_csrf` compares two such
places. Theorems: `TypeCorrect`, `ButtonsAreHonest`, `RedirectsDescend`, `VisitsAreBounded`.

*Deploy.* `NewCodeFindsItsSchema` is inductive with `TypeOK`: the one step that can break
it is a push, and `PassedCodeFits` says that what the hook lets pass lacks nothing.
`SafeOtherwise` is an action property that follows from `TypeOK` and the advice alone:
if everything pending is marked, only the newest version serves, and nothing pending is
newer than that. Theorems: `TypeCorrect`, `CodeFindsItsSchema`, `SafeOtherwise`.

### What each finding needs

A run shows that a sentence of the code or its documents is false; a theorem says what
would make it true, and no more. Each hypothesis excludes one thing and leaves every other
interleaving, crash and loss as it is. `ResetsApart`, `RemovalsApart`, `CompletionsApart`,
`EditsApart` and `Together(1)` exclude one overlap of two requests: every behaviour of a
single worker meets them, and so do those of several that a lock on one row
(`SELECT ... FOR UPDATE`) would leave. `FormsCurrent` is about a page that is older than
its listing, and is what a version in the form, compared on submission, would give.
`AllMarked` and `Unmixed` are about how revisions are written and put together; the chain
of the repository is not `AllMarked`, by one revision.

| Finding | Hypothesis | Then |
| --- | --- | --- |
| a reset link works twice (`accounts_link_once`) | `ResetsApart`: no two requests between reading and resetting one account | `LinksWorkOnceApart`: it works once |
| a session survives a reset (`accounts_sign_out`) | the same | `SignsOutAllApart`: a reset signs out every other session, sign-ins that read before it included |
| a removed listing comes back (`listings_removed`) | `RemovalsApart`: no removal while a completion is under way | `RemovalIsFinalApart` |
| a completion is logged twice | `CompletionsApart` | `CompletedOnceApart`: one completion, one event at most |
| tags are merged or lost | `EditsApart` | `EditsApartAreExact`, `EditsApartKeepATag`: an edit leaves what it says, and a listing always has a tag |
| a pin is jittered twice (`edits_jitter`) | `FormsCurrent`: a form is sent while its pin is the stored one; edits may overlap | `CurrentFormsJitterOnce` |
| an ordinary migration breaks old code (`deploy_ordinary`) | `AllMarked`: what removes is marked; `Unmixed`: marked and ordinary revisions are never pending together; a hook that reaches production | `NobodyBreaks`: at no point of a roll-over does any version miss anything |
| the bucket overshoots its limit (no run of its own) | `Together(K)`: at most K checks between count and INSERT, on any number of workers | `OvershootIsOverlap`: at most K - 1 more than the limit; `AloneNeverMoreThanLimit` for K = 1 |

The argument is the same each time: under the hypothesis what a request in flight loaded
is still what the table holds (`Current`, `StillThere`, `StillOpen`, `LoadedIsCurrent`,
`OnceOK`, `Room(K)`), which is an invariant relative to `IInv`, and the sentence follows
from it at the commit.

### The safety half of liveness

Liveness (`KeepsAdmitting`, `ChecksEnd`, `EveryRequestEnds`, `VisitsEnd`, `GetsIn`) needs
fairness and ENABLED and is only model-checked. Of `VisitsEnd` and `EveryRequestEnds` TLAPS
proves, for any sizes, the part that needs neither: that every step leads on.

- `VisitsAreBounded` (Sessions): `Left`, at most 12, falls with every step of the program
  and every arrival or loss of an answer, and nothing elsewhere in the browser or a reset
  raises it. The reason is `RedirectsDescend`: a response leads only to a path of a lower
  `Rank` (login over what require_user guards, that over the login form, that over what
  everybody may open), so no jar, however stale, makes two redirects chase each other.
- `RequestsGetOn` (WorkerPool): each step of a request uses up one of at most 26, and no
  step of another gives one back; a job that failed is never tried again.
- `SomebodyMoves` (WorkerPool): whenever requests are in flight one of them can go on.
  Where nothing else can, somebody waits for a connection and the pool's timeout is what
  sends the request on.

## Findings

Each is a run that must be violated, and quotes the code or document that promises
otherwise (`PROJECT.json`, "findings"):

- a reset link can work twice, and a session can survive a reset, when resets overlap;
- a completion can undo a deletion, and the removed listing is in view again;
- an edit form opened before the pin moved jitters an already jittered pin;
- revision `1b966eb4c94b` drops `listings.category` and is not marked `post_deploy`.

Seen while modelling, without a run of its own: `forgot_password` and
`resend_verification` end no transaction, so each of their mails keeps one of the ten
connections while it is sent (`MessageMailHoldsNothing` says that a message's mail does
not); when a POST finds no session, `next` is its path, and where that is no page the
person who signs in again is answered 405, by Starlette and in bare JSON, although
`main.py:136` says "Send humans to a page"; the comment at `routes/account.py:110-111`,
that nothing depends on `email_verified`, is older than `routes/listings.py:209` and
`:291`; overlapping checks put more rows into
the rate limiter's table than `ratelimit.py:47` says (`BoundedOvershoot` gives the exact
bound); two overlapping edits can merge their tags or leave none (`UntaggedOnlyByOverlap`
says that nothing else does); overlapping completions log the event twice
(`CompletedOncePerWorker`); a removed listing can still be written to; `category` was
needed by old code and forbidden to new code, which writes no value for a column without
a default, so no order of pushing and migrating suits revision `1b966eb4c94b`; and with a
marked and an ordinary revision pending the hook refuses the push and advises
`upgrade head`, which applies both (`BreaksOnlyUnmarkedOrMixed` allows exactly this).

## Not modelled, and why

- Display names (`update_account`, `generate_display_name`), honeypots and the event row
  of a view: they write what no other operation and no property reads.
- The arithmetic of `fuzz`, the compression loop of `images.py`, the search and the order
  by distance: they depend on real numbers, an encoder and text, and each is one
  computation without an order of events.
- The tables and settings of `region.py`, `i18n.py` and `config.py`, headers, robots.txt,
  healthz, the wording of pages: constants and functions of one request.
- The lists of the home page, the map and the site map: each is one query filtered by
  status, and what it may link to can be read off `listing_detail` without any behaviour.
- Files that failed or replaced uploads leave in the bucket: nothing bounds them, and
  nothing is claimed of their number (`DroppedStayDropped` is about their names).
- Maps and menus in the browser, styles, icons, tests.
- Below the program: PgBouncer, pre-ping and recycling of connections, the confirmation
  that `env.py` asks of the operator, downgrades.

## Plan

Every component that keeps state or takes part in an order of events has its module, and
every safety property its proof. What could follow when the code grows: a second listing
in `listings` once some handler touches two; the backfill of a revision while old code
still writes, in Deploy, once there is such a revision that is not already live; and a
composition of Accounts with Sessions, in which the two sessions of an overtaken reset
are both in browsers. Of the proofs: a rank for a check of the rate limiter, whose wait for
row locks is one step of the model, once the deletion is modelled row by row.
