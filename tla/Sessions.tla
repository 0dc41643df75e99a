------------------------------ MODULE Sessions ------------------------------
(***************************************************************************)
(* A browser, and the part of the program that decides as whom a request   *)
(* acts: the middleware and the error handler of src/main.py, the session  *)
(* functions and dependencies of src/app/auth.py, render of                *)
(* src/app/templating.py and the routes that set the cookie.               *)
(*                                                                         *)
(* One tab is followed; what the other tabs do is seen in the cookie jar   *)
(* they share, which a response to one of them changes at any moment.  A   *)
(* request carries the jar as it was when it was sent, and the form token  *)
(* of the page it was sent from; it is looked up twice, by the middleware  *)
(* and by the route; its response, with a cookie perhaps, arrives later or *)
(* never; and a page stays on the screen, with its buttons, whatever the   *)
(* jar holds by then.                                                      *)
(***************************************************************************)
EXTENDS Naturals

CONSTANTS
    Users,      \* the accounts of the person behind the browser
    NoUser,     \* not signed in
    Tokens,     \* the values of secrets.token_urlsafe
    NoToken,    \* a form without a token
    NoCookie,   \* an empty jar
    Links,      \* the paths the person opens
    MaxVersion  \* bound: the password of an account is reset so often

Cookies == [uid : Users, v : 0 .. MaxVersion, csrf : Tokens]

\* Where a request may go.  "account" is any page behind require_user, "act" any
\* POST behind verify_csrf and require_user, "gone" the path of such a POST, opened.
Gets  == {"home", "account", "login_form", "gone"}
Posts == {"login", "act", "logout"}

ASSUME SessionsAssumption ==
    /\ NoUser \notin Users
    /\ NoToken \notin Tokens
    /\ NoCookie \notin Cookies
    /\ Links \subseteq Gets
    /\ MaxVersion \in Nat

VARIABLES
    version, \* users.session_version
    jar,     \* the session cookie of the browser
    tab,     \* the page the tab shows
    request  \* the request the tab is waiting for

vars == <<version, jar, tab, request>>

-----------------------------------------------------------------------------
(* Pages, requests and responses. *)

\* What a page shows as signed in (current_user), the token of its forms, and the
\* path its login form leads to.
Page(kind, user, token, next) == [kind |-> kind, user |-> user, token |-> token, next |-> next]
Bare == Page("page", NoUser, NoToken, "home")

\* A response shows a page or leads to a path, and may set the cookie.
Show(page) == [to |-> "here", page |-> page, next |-> "home", sets |-> {}]
RedirectResponse(path, next, sets) == [to |-> path, page |-> Bare, next |-> next, sets |-> sets]

\* A request: where it goes, the token of its form, the jar as it was sent, whom the
\* middleware found, and at last the response and nothing else.
Request(path, token, cookie, next) ==
    [at |-> "sent", path |-> path, token |-> token, cookie |-> cookie, next |-> next,
     user |-> NoUser, response |-> Show(Bare)]
Idle == [Request("home", NoToken, NoCookie, "home") EXCEPT !.at = "idle"]

At(stage) == request.at = stage
Routed(path) == At("found") /\ request.path = path

Csrf(cookie) == IF cookie = NoCookie THEN NoToken ELSE cookie.csrf

\* get_current_user: the account whose present version the cookie carries.
CurrentUser(cookie) ==
    IF cookie # NoCookie /\ cookie.v = version[cookie.uid] THEN cookie.uid ELSE NoUser

\* render: current_user as the middleware found it, the token of the cookie.  Only
\* with a user do the templates put it into a form that verify_csrf checks.
Render(kind, next) ==
    Page(kind, request.user,
         IF request.user = NoUser THEN NoToken ELSE Csrf(request.cookie), next)

-----------------------------------------------------------------------------
(* The person. *)

Send(r) ==
    /\ At("idle")
    /\ request' = r
    /\ UNCHANGED <<version, jar, tab>>

\* A link, or the address bar.
Open(path) == Send(Request(path, NoToken, jar, "home"))

\* A button of a page that shows somebody as signed in.
Press(path) ==
    /\ tab.user # NoUser
    /\ Send(Request(path, tab.token, jar, "home"))

\* The login form.
SignIn ==
    /\ tab.kind = "login_form"
    /\ Send(Request("login", NoToken, jar, tab.next))

-----------------------------------------------------------------------------
(* The program. *)

\* request_context: the first lookup.
Middleware ==
    /\ At("sent")
    /\ request' = [request EXCEPT !.at = "found",
                                  !.user = CurrentUser(request.cookie)]
    /\ UNCHANGED <<version, jar, tab>>

Respond(response) ==
    /\ request' = [Idle EXCEPT !.at = "answered", !.response = response]
    /\ UNCHANGED <<version, jar, tab>>

\* What the path of a request is when it is opened: some POSTs share theirs with a
\* page (/login, /account, /listings/{id}/edit).
AsGet(path) == CASE path = "act" -> {"account", "gone"}
                 [] path = "logout" -> {"gone"}
                 [] path = "login" -> {"login_form"}
                 [] OTHER -> {path}

\* http_exception_handler on the 401 of require_user: next is the path and nothing
\* else of the request, so a POST comes back as a GET.
Unauthorized ==
    \E next \in AsGet(request.path) : Respond(RedirectResponse("login_form", next, {}))

\* What everybody may open.  The path of a POST answers 405, which Starlette raises
\* itself: http_exception_handler does not see it, and the person gets bare JSON.
Serve ==
    \/ Routed("home") /\ Respond(Show(Render("page", "home")))
    \/ Routed("gone") /\ Respond(Show(Bare))

\* account_page and its like, behind require_user: the second lookup.
account_page ==
    /\ Routed("account")
    /\ IF CurrentUser(request.cookie) = NoUser
         THEN Unauthorized
         ELSE Respond(Show(Render("account", "home")))

\* Mutant: whoever has a cookie is taken to be signed in, and sent where they came from.
login_form_ByCookie ==
    /\ Routed("login_form")
    /\ Respond(IF request.cookie # NoCookie
                 THEN RedirectResponse(request.next, "home", {})
                 ELSE Show(Render("login_form", request.next)))

\* login_form: whoever is signed in is sent home.
login_form ==
    /\ Routed("login_form")
    /\ Respond(IF request.user # NoUser
                 THEN RedirectResponse("home", "home", {})
                 ELSE Show(Render("login_form", request.next)))

\* The tokens that somebody still has: issue_session draws another one.
TokensInUse ==
    {Csrf(jar), tab.token, request.token, Csrf(request.cookie), request.response.page.token}
        \cup {Csrf(c) : c \in request.response.sets}

\* Mutant: the version the account will have after the next reset.
issue_session_Ahead(u) ==
    [uid |-> u, v |-> version[u] + 1, csrf |-> CHOOSE s \in Tokens : s \notin TokensInUse]

\* Mutant: the cookie without the version of the account.
issue_session_Unversioned(u) ==
    [uid |-> u, v |-> 0, csrf |-> CHOOSE s \in Tokens : s \notin TokensInUse]

\* issue_session.
issue_session(u) ==
    [uid |-> u, v |-> version[u], csrf |-> CHOOSE s \in Tokens : s \notin TokensInUse]

\* login with a good password: a new session, and back to where the person was going.
LoginOk(u) ==
    /\ Routed("login")
    /\ Tokens \ TokensInUse # {}
    /\ Respond(RedirectResponse(request.next, "home", {issue_session(u)}))

\* login with a wrong one: the form again, with a 401 that is not an exception.
LoginFails ==
    /\ Routed("login")
    /\ Respond(Show(Render("login_form", request.next)))

\* Mutant: any cookie will do.
CsrfOk_Unchecked(r) == r.cookie # NoCookie

\* verify_csrf.
CsrfOk(r) == r.cookie # NoCookie /\ r.token = r.cookie.csrf

\* A POST that is not accepted: a 403 page, or, without a user, the login form.
Refuse ==
    /\ Routed("act") \/ Routed("logout")
    /\ \/ ~CsrfOk(request) /\ Respond(Show(Render("page", "home")))
       \/ /\ CsrfOk(request)
          /\ CurrentUser(request.cookie) = NoUser
          /\ Unauthorized

\* The handler runs, as CurrentUser(request.cookie).
Accepted(path) ==
    /\ Routed(path)
    /\ CsrfOk(request)
    /\ CurrentUser(request.cookie) # NoUser

Act == Accepted("act") /\ Respond(RedirectResponse("home", "home", {}))
logout == Accepted("logout") /\ Respond(RedirectResponse("home", "home", {NoCookie}))

Route ==
    \/ Serve \/ account_page \/ login_form
    \/ \E u \in Users : LoginOk(u)
    \/ LoginFails
    \/ Refuse \/ Act \/ logout

-----------------------------------------------------------------------------
(* The browser, and what happens elsewhere. *)

\* The response arrives: the cookie first, then the page, or the next request.
Receive ==
    LET a == request.response
    IN  /\ At("answered")
        /\ \/ a.sets = {} /\ UNCHANGED jar
           \/ \E c \in a.sets : jar' = c
        /\ IF a.to = "here"
             THEN /\ tab' = a.page
                  /\ request' = Idle
             ELSE /\ request' = Request(a.to, NoToken, jar', a.next)
                  /\ UNCHANGED tab
        /\ UNCHANGED version

\* The response is lost, and the old page stays.
Lose ==
    /\ At("answered")
    /\ request' = Idle
    /\ UNCHANGED <<version, jar, tab>>

\* The cookie reaches its max_age, or a response to another tab clears it.
SignedOut ==
    /\ jar # NoCookie
    /\ jar' = NoCookie
    /\ UNCHANGED <<version, tab, request>>

\* A response to another tab, as late as may be, brings a session issued at version v.
SignedIn(u, v) ==
    /\ Tokens \ TokensInUse # {}
    /\ v <= version[u]
    /\ jar' = [issue_session(u) EXCEPT !.v = v]
    /\ UNCHANGED <<version, tab, request>>

\* The password is reset (Accounts: ResetCommit).
Reset(u) ==
    /\ version[u] < MaxVersion
    /\ version' = [version EXCEPT ![u] = @ + 1]
    /\ UNCHANGED <<jar, tab, request>>

-----------------------------------------------------------------------------
Init ==
    /\ version = [u \in Users |-> 0]
    /\ jar = NoCookie
    /\ tab = Bare
    /\ request = Idle

Person ==
    \/ \E path \in Links : Open(path)
    \/ Press("act")
    \/ tab.kind = "account" /\ Press("logout")
    \/ SignIn

Elsewhere ==
    \/ SignedOut
    \/ \E u \in Users : Reset(u) \/ \E v \in 0 .. MaxVersion : SignedIn(u, v)

Next == Person \/ Middleware \/ Route \/ Receive \/ Lose \/ Elsewhere

\* The program answers what it is asked, and the answer arrives or is given up.
Served == WF_vars(Middleware) /\ WF_vars(Route) /\ WF_vars(Receive \/ Lose)

\* The person asks for the page again and again, signs in whenever there is a form
\* for it, and sooner or later with a good password.
Keen ==
    /\ SF_vars(Open("account"))
    /\ SF_vars(SignIn)
    /\ SF_vars(\E u \in Users : LoginOk(u))

Spec == Init /\ [][Next]_vars /\ Served /\ Keen

-----------------------------------------------------------------------------
(* Properties. *)

Pages == [kind : {"page", "account", "login_form"}, user : Users \cup {NoUser},
          token : Tokens \cup {NoToken}, next : Gets]
Responses == [to : Gets \cup {"here"}, page : Pages, next : Gets,
              sets : SUBSET (Cookies \cup {NoCookie})]
Requests == [at : {"idle", "sent", "found", "answered"}, path : Gets \cup Posts,
             token : Tokens \cup {NoToken},
             cookie : Cookies \cup {NoCookie}, next : Gets,
             user : Users \cup {NoUser}, response : Responses]

\* Every variable has its type.
TypeOK ==
    /\ version \in [Users -> 0 .. MaxVersion]
    /\ jar \in Cookies \cup {NoCookie}
    /\ tab \in Pages
    /\ request \in Requests

\* A button acts only for the person whose name stands on its page, whatever the
\* other tabs and late responses have done to the cookie meanwhile (verify_csrf).
ActsAsShown ==
    [][Act \/ logout => CurrentUser(request.cookie) = tab.user]_vars

\* Following redirects comes to an end: no page leads to a page that leads back.
VisitsEnd == []<>At("idle")

\* What sets a person back who is signing in.
Setback ==
    \/ logout \/ Lose \/ SignedOut
    \/ \E u \in Users : Reset(u) \/ \E v \in 0 .. version[u] - 1 : SignedIn(u, v)

\* Nobody is locked out, by a dead cookie, a stale page or a late response: who
\* keeps asking for a page behind require_user is shown it, again and again.
GetsIn == <>[][~Setback]_vars => []<>(tab.kind = "account")
=============================================================================
