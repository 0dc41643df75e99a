--------------------------- MODULE SessionsProofs ---------------------------
(***************************************************************************)
(* Proofs about Sessions.  A button acts only for the person named on its  *)
(* page because a token belongs to one session: every cookie and every     *)
(* page that is anywhere, in the browser or under way, and has the same    *)
(* token, has the same account.                                            *)
(***************************************************************************)
EXTENDS Sessions, TLAPS

\* The cookies and the pages there are.
Held == ({jar, request.cookie} \cup request.response.sets) \ {NoCookie}
Seen == {tab, request.response.page}

\* Cookies with the same token are of the same account.
OneOwner == \A c, d \in Held : c.csrf = d.csrf => c.uid = d.uid

\* A page with the token of a cookie names the account of the cookie.
Truthful == \A p \in Seen, c \in Held : p.token = c.csrf => p.user = c.uid

\* The token of a request is that of the page that is still on the screen, and the
\* middleware found nobody but the account of the cookie.
Carried ==
    /\ request.token # NoToken => request.token = tab.token
    /\ request.user # NoUser => request.cookie # NoCookie /\ request.user = request.cookie.uid

IInv == TypeOK /\ OneOwner /\ Truthful /\ Carried

-----------------------------------------------------------------------------
(* Lemmas. *)

\* An empty jar and an empty page.
LEMMA Start == Init => IInv
  BY SessionsAssumption
  DEF Init, IInv, TypeOK, OneOwner, Truthful, Carried, Held, Seen, Bare, Page, Idle, Request,
      Show, Pages, Requests, Responses, Gets, Posts, Cookies

\* current_user is nobody or the account of the cookie.
LEMMA CurrentUserOf ==
  ASSUME NEW c \in Cookies \cup {NoCookie}
  PROVE  /\ CurrentUser(c) \in Users \cup {NoUser}
         /\ CurrentUser(c) # NoUser => c # NoCookie /\ CurrentUser(c) = c.uid
  BY SessionsAssumption DEF CurrentUser, Cookies

\* A new session has a token that nobody has.
LEMMA Fresh ==
  ASSUME TypeOK, NEW u \in Users, Tokens \ TokensInUse # {}
  PROVE  /\ issue_session(u) \in Cookies
         /\ issue_session(u).uid = u
         /\ issue_session(u).csrf \notin TokensInUse
  <1> DEFINE s == CHOOSE s \in Tokens : s \notin TokensInUse
  <1>1. s \in Tokens /\ s \notin TokensInUse
    OBVIOUS
  <1>2. version[u] \in 0 .. MaxVersion
    BY DEF TypeOK
  <1> QED
    BY <1>1, <1>2 DEF issue_session, Cookies

\* What is held and seen has its type, and its token is in use.
LEMMA InUse ==
  ASSUME TypeOK
  PROVE  /\ \A c \in Held : c \in Cookies /\ c.csrf \in TokensInUse /\ c.csrf \in Tokens
         /\ \A p \in Seen : p \in Pages /\ p.token \in TokensInUse
  <1>1. \A c \in Held : c \in Cookies
    BY DEF TypeOK, Held, Requests, Responses
  <1>2. \A c \in Held : c.csrf \in TokensInUse
    BY DEF Held, TokensInUse, Csrf
  <1>3. \A c \in Held : c.csrf \in Tokens
    BY <1>1 DEF Cookies
  <1>4. \A p \in Seen : p \in Pages /\ p.token \in TokensInUse
    BY DEF TypeOK, Seen, TokensInUse, Requests, Responses
  <1> QED
    BY <1>1, <1>2, <1>3, <1>4

\* A response that sets no cookie but those there are, and shows a page that is true
\* of the cookies there are, keeps the invariant.
LEMMA AfterRespond ==
  ASSUME IInv, NEW r \in Responses, Respond(r),
         \A c, d \in (Held \cup r.sets) \ {NoCookie} : c.csrf = d.csrf => c.uid = d.uid,
         \A p \in {tab, r.page}, c \in (Held \cup r.sets) \ {NoCookie} :
            p.token = c.csrf => p.user = c.uid
  PROVE  IInv'
  <1>1. request' = [Idle EXCEPT !.at = "answered", !.response = r]
    BY DEF Respond
  <1>2. /\ request' \in Requests
        /\ request'.cookie = NoCookie /\ request'.token = NoToken /\ request'.user = NoUser
        /\ request'.response = r
    BY <1>1 DEF Idle, Request, Requests, Gets, Posts
  <1>3. Held' \subseteq (Held \cup r.sets) \ {NoCookie}
    BY <1>2 DEF Held, Respond
  <1>4. Seen' = {tab, r.page}
    BY <1>2 DEF Seen, Respond
  <1>5. TypeOK'
    BY <1>2 DEF IInv, TypeOK, Respond
  <1>6. OneOwner'
    BY <1>3 DEF OneOwner
  <1>7. Truthful'
    BY <1>3, <1>4 DEF Truthful
  <1> QED
    BY <1>2, <1>5, <1>6, <1>7 DEF IInv, Carried

\* A page made by render is true of the cookies there are.
LEMMA AfterShow ==
  ASSUME IInv, NEW kind \in {"page", "account", "login_form"}, NEW next \in Gets,
         Respond(Show(Render(kind, next)))
  PROVE  IInv'
  <1> DEFINE p == Render(kind, next)
  <1>1. request \in Requests
    BY DEF IInv, TypeOK
  <1>2. /\ p.user = request.user
        /\ p.token = IF request.user = NoUser THEN NoToken ELSE Csrf(request.cookie)
    BY DEF Render, Page
  <1>3. p \in Pages
    BY <1>1 DEF Render, Page, Pages, Csrf, Requests, Cookies
  <1>4. Show(p) \in Responses /\ Show(p).sets = {} /\ Show(p).page = p
    BY <1>3 DEF Show, Responses, Gets
  <1>5. \A c \in Held : p.token = c.csrf => p.user = c.uid
    <2> SUFFICES ASSUME NEW c \in Held, p.token = c.csrf
                 PROVE  p.user = c.uid
      OBVIOUS
    <2>1. p.token \in Tokens
      BY InUse DEF IInv
    <2>2. request.user # NoUser /\ p.token = Csrf(request.cookie)
      BY <1>2, <2>1, SessionsAssumption
    <2>3. request.cookie # NoCookie /\ request.user = request.cookie.uid
      BY <2>2 DEF IInv, Carried
    <2>4. request.cookie \in Held /\ request.cookie.csrf = c.csrf
      BY <2>2, <2>3 DEF Held, Csrf
    <2> QED
      BY <1>2, <2>3, <2>4 DEF IInv, OneOwner
  <1>6. \A c \in Held : tab.token = c.csrf => tab.user = c.uid
    BY DEF IInv, Truthful, Seen
  <1>7. (Held \cup Show(p).sets) \ {NoCookie} = Held
    BY <1>4 DEF Held
  <1> HIDE DEF p
  <1> QED
    BY <1>4, <1>5, <1>6, <1>7, AfterRespond DEF IInv, OneOwner, p

\* So does a redirect that sets no cookie, or clears it.
LEMMA AfterRedirect ==
  ASSUME IInv, NEW path \in Gets, NEW next \in Gets, NEW sets \in SUBSET {NoCookie},
         Respond(RedirectResponse(path, next, sets))
  PROVE  IInv'
  <1> DEFINE r == RedirectResponse(path, next, sets)
  <1>1. r \in Responses /\ r.page = Bare /\ r.sets = sets
    BY DEF RedirectResponse, Responses, Bare, Page, Pages, Gets
  <1>2. (Held \cup r.sets) \ {NoCookie} = Held
    BY <1>1 DEF Held
  <1>3. Bare.token \notin Tokens
    BY SessionsAssumption DEF Bare, Page
  <1>4. \A c \in Held : c.csrf \in Tokens
    BY InUse DEF IInv
  <1>5. \A c \in Held : tab.token = c.csrf => tab.user = c.uid
    BY DEF IInv, Truthful, Seen
  <1> HIDE DEF r
  <1> QED
    BY <1>1, <1>2, <1>3, <1>4, <1>5, AfterRespond DEF IInv, OneOwner, r

-----------------------------------------------------------------------------
(* Every step keeps the invariant. *)

\* The person sends a request with the jar and the token as they are.
LEMMA PersonKeeps == ASSUME IInv, Person PROVE IInv'
  <1> USE DEF IInv
  <1> DEFINE Sends(r) == /\ r \in Requests /\ r.cookie = jar /\ r.user = NoUser
                         /\ r.response = Show(Bare)
                         /\ r.token \in {NoToken, tab.token}
                         /\ Send(r)
  <1>1. ASSUME NEW r, Sends(r) PROVE IInv'
    <2>1. TypeOK'
      BY <1>1 DEF TypeOK, Send
    <2>2. Held' \subseteq Held
      BY <1>1 DEF Held, Send, Show
    <2>3. Seen' = {tab, Bare}
      BY <1>1 DEF Seen, Send, Show
    <2>4. Bare.token \notin Tokens
      BY SessionsAssumption DEF Bare, Page
    <2>5. \A c \in Held : c.csrf \in Tokens
      BY InUse
    <2>6. OneOwner'
      BY <2>2 DEF OneOwner
    <2>7. Truthful'
      BY <2>2, <2>3, <2>4, <2>5 DEF Truthful, Seen
    <2>8. Carried'
      BY <1>1 DEF Carried, Send
    <2> QED
      BY <2>1, <2>6, <2>7, <2>8
  <1>2. jar \in Cookies \cup {NoCookie} /\ tab \in Pages
    BY DEF TypeOK
  <1>3. Show(Bare) \in Responses
    BY DEF Show, Bare, Page, Pages, Responses, Gets
  <1>4. tab.token \in Tokens \cup {NoToken} /\ tab.next \in Gets
    BY <1>2 DEF Pages
  <1>5. ASSUME NEW path \in Gets \cup Posts, NEW token \in {NoToken, tab.token}, NEW next \in Gets
        PROVE  LET r == Request(path, token, jar, next)
               IN  /\ r \in Requests /\ r.cookie = jar /\ r.user = NoUser
                   /\ r.response = Show(Bare) /\ r.token \in {NoToken, tab.token}
    BY <1>2, <1>3, <1>4, <1>5 DEF Request, Requests
  <1>6. ASSUME NEW path \in Links, Open(path) PROVE IInv'
    <2>1. path \in Gets
      BY SessionsAssumption
    <2>2. "home" \in Gets
      BY DEF Gets
    <2> QED
      BY <1>1, <1>5, <1>6, <2>1, <2>2 DEF Open
  <1>7. ASSUME NEW path \in {"act", "logout"}, Press(path) PROVE IInv'
    <2>1. path \in Posts /\ "home" \in Gets
      BY DEF Posts, Gets
    <2> QED
      BY <1>1, <1>5, <1>7, <2>1 DEF Press
  <1>8. CASE SignIn
    <2>1. "login" \in Posts
      BY DEF Posts
    <2> QED
      BY <1>1, <1>4, <1>5, <1>8, <2>1 DEF SignIn
  <1> QED
    BY <1>6, <1>7, <1>8 DEF Person

\* The middleware finds nobody, or the account of the cookie.
LEMMA MiddlewareKeeps == ASSUME IInv, Middleware PROVE IInv'
  <1> USE DEF IInv
  <1>1. request \in Requests
    BY DEF TypeOK
  <1>2. request.cookie \in Cookies \cup {NoCookie}
    BY <1>1 DEF Requests
  <1> PICK user : user = CurrentUser(request.cookie)
    OBVIOUS
  <1>3. /\ user \in Users \cup {NoUser}
        /\ user # NoUser => request.cookie # NoCookie /\ user = request.cookie.uid
    BY <1>2, CurrentUserOf
  <1>4. request' = [request EXCEPT !.at = "found", !.user = user]
    BY DEF Middleware
  <1>5. /\ request' \in Requests /\ request'.user = user /\ request'.cookie = request.cookie
        /\ request'.token = request.token /\ request'.response = request.response
    BY <1>1, <1>3, <1>4 DEF Requests
  <1>6. Held' = Held /\ Seen' = Seen
    BY <1>5 DEF Held, Seen, Middleware
  <1>7. TypeOK'
    BY <1>5 DEF TypeOK, Middleware
  <1>8. OneOwner' /\ Truthful'
    BY <1>6 DEF OneOwner, Truthful
  <1>9. Carried'
    BY <1>3, <1>5 DEF Carried, Middleware
  <1> QED
    BY <1>7, <1>8, <1>9

\* login draws a token that nobody has.
LEMMA LoginKeeps == ASSUME IInv, NEW u \in Users, LoginOk(u) PROVE IInv'
  <1> PICK s : s = issue_session(u)
    OBVIOUS
  <1>1. s \in Cookies /\ s.csrf \notin TokensInUse
    BY Fresh DEF LoginOk, IInv
  <1>2. request.next \in Gets
    BY DEF IInv, TypeOK, Requests
  <1> PICK r : r = RedirectResponse(request.next, "home", {s})
    OBVIOUS
  <1>3. r \in Responses /\ r.page = Bare /\ r.sets = {s}
    BY <1>1, <1>2 DEF RedirectResponse, Responses, Bare, Page, Pages, Gets
  <1>4. Respond(r)
    BY DEF LoginOk
  <1>5. Bare.token \notin Tokens
    BY SessionsAssumption DEF Bare, Page
  <1>6. /\ \A c \in Held : c.csrf \in Tokens /\ c.csrf # s.csrf
        /\ tab.token # s.csrf
    BY <1>1, InUse DEF IInv, Seen
  <1>7. s.csrf \in Tokens
    BY <1>1 DEF Cookies
  <1>8. (Held \cup r.sets) \ {NoCookie} = Held \cup {s}
    BY <1>1, <1>3, SessionsAssumption DEF Held
  <1>9. \A c \in Held : tab.token = c.csrf => tab.user = c.uid
    BY DEF IInv, Truthful, Seen
  <1>10. \A c, d \in Held \cup {s} : c.csrf = d.csrf => c.uid = d.uid
    BY <1>6 DEF IInv, OneOwner
  <1>11. \A p \in {tab, Bare}, c \in Held \cup {s} : p.token = c.csrf => p.user = c.uid
    BY <1>5, <1>6, <1>7, <1>9
  <1>12. \A c, d \in (Held \cup r.sets) \ {NoCookie} : c.csrf = d.csrf => c.uid = d.uid
    BY <1>8, <1>10
  <1>13. \A p \in {tab, r.page}, c \in (Held \cup r.sets) \ {NoCookie} :
            p.token = c.csrf => p.user = c.uid
    BY <1>3, <1>8, <1>11
  <1> QED
    BY <1>3, <1>4, <1>12, <1>13, AfterRespond

\* The other routes answer with a page made by render, an empty one, or a redirect.
LEMMA RouteKeeps == ASSUME IInv, Route PROVE IInv'
  <1> USE DEF IInv
  <1>1. request.next \in Gets /\ request.path \in Gets \cup Posts
    BY DEF TypeOK, Requests
  <1>2. "home" \in Gets /\ "gone" \in Gets /\ "login_form" \in Gets
    BY DEF Gets
  <1>3. ASSUME Unauthorized PROVE IInv'
    <2>1. AsGet(request.path) \subseteq Gets
      BY <1>1 DEF AsGet, Gets, Posts
    <2>2. PICK next \in AsGet(request.path) : Respond(RedirectResponse("login_form", next, {}))
      BY <1>3 DEF Unauthorized
    <2> QED
      BY <1>2, <2>1, <2>2, AfterRedirect
  <1>4. CASE Serve
    <2>1. CASE Respond(Show(Render("page", "home")))
      BY <1>2, <2>1, AfterShow
    <2>2. CASE Respond(Show(Bare))
      <3>1. Show(Bare) \in Responses /\ Show(Bare).sets = {} /\ Show(Bare).page = Bare
        BY DEF Show, Bare, Page, Pages, Responses, Gets
      <3>2. (Held \cup {}) \ {NoCookie} = Held
        BY DEF Held
      <3>3. Bare.token \notin Tokens
        BY SessionsAssumption DEF Bare, Page
      <3>4. \A c \in Held : c.csrf \in Tokens
        BY InUse
      <3>5. \A p \in {tab, Bare}, c \in Held : p.token = c.csrf => p.user = c.uid
        BY <3>3, <3>4 DEF Truthful, Seen
      <3> QED
        BY <2>2, <3>1, <3>2, <3>5, AfterRespond DEF OneOwner
    <2> QED
      BY <1>4, <2>1, <2>2 DEF Serve
  <1>5. CASE account_page
    BY <1>2, <1>3, <1>5, AfterShow DEF account_page
  <1>6. CASE login_form
    BY <1>1, <1>2, <1>6, AfterShow, AfterRedirect DEF login_form
  <1>7. CASE LoginFails
    BY <1>1, <1>7, AfterShow DEF LoginFails
  <1>8. CASE Refuse
    BY <1>2, <1>3, <1>8, AfterShow DEF Refuse
  <1>9. CASE Act
    BY <1>2, <1>9, AfterRedirect DEF Act
  <1>10. CASE logout
    BY <1>2, <1>10, AfterRedirect DEF logout
  <1> QED
    BY <1>4, <1>5, <1>6, <1>7, <1>8, <1>9, <1>10, LoginKeeps DEF Route

\* What arrives was there before.
LEMMA ReceiveKeeps == ASSUME IInv, Receive PROVE IInv'
  <1> USE DEF IInv
  <1>1. request.response \in Responses
    BY DEF TypeOK, Requests
  <1> PICK a : a = request.response
    OBVIOUS
  <1>2. a.page \in Pages /\ a.to \in Gets \cup {"here"} /\ a.next \in Gets
    BY <1>1 DEF Responses
  <1>3. jar' \in {jar} \cup a.sets
    BY DEF Receive
  <1>4. jar' \in Cookies \cup {NoCookie}
    BY <1>1, <1>3 DEF TypeOK, Responses
  <1> PICK j : j = jar'
    OBVIOUS
  <1>5. Show(Bare) \in Responses /\ Show(Bare).sets = {} /\ Show(Bare).page = Bare
    BY DEF Show, Bare, Page, Pages, Responses, Gets
  <1>6. Idle \in Requests /\ Idle.cookie = NoCookie /\ Idle.token = NoToken
        /\ Idle.user = NoUser /\ Idle.response = Show(Bare)
    BY <1>5 DEF Idle, Request, Requests, Gets
  <1> PICK n : n = Request(a.to, NoToken, j, a.next)
    OBVIOUS
  <1>7. a.to # "here" => n \in Requests
    BY <1>2, <1>4, <1>5 DEF Request, Requests
  <1>8. n.cookie = j /\ n.token = NoToken /\ n.user = NoUser /\ n.response = Show(Bare)
    BY DEF Request
  <1>9. /\ request' \in Requests /\ request'.cookie \in {NoCookie, jar'}
        /\ request'.token = NoToken /\ request'.user = NoUser
        /\ request'.response = Show(Bare)
        /\ tab' \in {tab, a.page}
    BY <1>6, <1>7, <1>8 DEF Receive
  <1>10. Held' \subseteq Held
    BY <1>3, <1>5, <1>9 DEF Held
  <1>11. Seen' \subseteq Seen \cup {Bare}
    BY <1>5, <1>9 DEF Seen
  <1>12. Bare.token \notin Tokens
    BY SessionsAssumption DEF Bare, Page
  <1>13. \A c \in Held : c.csrf \in Tokens
    BY InUse
  <1>14. TypeOK'
    BY <1>2, <1>4, <1>9 DEF TypeOK, Receive
  <1>15. OneOwner'
    BY <1>10 DEF OneOwner
  <1>16. Truthful'
    BY <1>10, <1>11, <1>12, <1>13 DEF Truthful
  <1>17. Carried'
    BY <1>9 DEF Carried
  <1> QED
    BY <1>14, <1>15, <1>16, <1>17

\* Another jar, of nobody or with a token that nobody has.
LEMMA JarKeeps ==
  ASSUME IInv, NEW j \in Cookies \cup {NoCookie},
         j # NoCookie => j.csrf \notin TokensInUse,
         jar' = j, UNCHANGED <<version, tab, request>>
  PROVE  IInv'
  <1> USE DEF IInv
  <1>1. Held' \subseteq (Held \cup {j}) \ {NoCookie} /\ Seen' = Seen
    BY DEF Held, Seen
  <1>2. \A c \in Held : j # NoCookie => c.csrf # j.csrf
    BY InUse
  <1>3. \A p \in Seen : j # NoCookie => p.token # j.csrf
    BY InUse
  <1>4. TypeOK'
    BY DEF TypeOK
  <1>5. OneOwner'
    BY <1>1, <1>2 DEF OneOwner
  <1>6. Truthful'
    BY <1>1, <1>3 DEF Truthful
  <1> QED
    BY <1>4, <1>5, <1>6 DEF Carried

\* The rest of the browser signs out, or in with a new session; a reset touches neither
\* cookies nor pages.
LEMMA ElsewhereKeeps == ASSUME IInv, Elsewhere PROVE IInv'
  <1> USE DEF IInv
  <1>1. CASE SignedOut
    BY <1>1, JarKeeps DEF SignedOut
  <1>2. ASSUME NEW u \in Users, NEW v \in 0 .. MaxVersion, SignedIn(u, v) PROVE IInv'
    <2> PICK s : s = issue_session(u)
      OBVIOUS
    <2>1. s \in Cookies /\ s.csrf \notin TokensInUse
      BY <1>2, Fresh DEF SignedIn
    <2> PICK j : j = [s EXCEPT !.v = v]
      OBVIOUS
    <2>2. j \in Cookies /\ j.csrf = s.csrf
      BY <2>1 DEF Cookies
    <2> QED
      BY <1>2, <2>1, <2>2, JarKeeps DEF SignedIn
  <1>3. ASSUME NEW u \in Users, Reset(u) PROVE IInv'
    <2>1. version[u] \in 0 .. MaxVersion /\ version[u] + 1 \in 0 .. MaxVersion
      BY <1>3, SessionsAssumption DEF Reset, TypeOK
    <2>2. version' \in [Users -> 0 .. MaxVersion]
      BY <1>3, <2>1 DEF Reset, TypeOK
    <2>3. Held' = Held /\ Seen' = Seen
      BY <1>3 DEF Reset, Held, Seen
    <2> QED
      BY <1>3, <2>2, <2>3 DEF Reset, TypeOK, OneOwner, Truthful, Carried
  <1> QED
    BY <1>1, <1>2, <1>3 DEF Elsewhere

\* A lost answer leaves less behind.
LEMMA LoseKeeps == ASSUME IInv, Lose PROVE IInv'
  <1> USE DEF IInv
  <1>1. Show(Bare) \in Responses /\ Show(Bare).sets = {} /\ Show(Bare).page = Bare
    BY DEF Show, Bare, Page, Pages, Responses, Gets
  <1>2. Idle \in Requests /\ Idle.cookie = NoCookie /\ Idle.token = NoToken
        /\ Idle.user = NoUser /\ Idle.response = Show(Bare)
    BY <1>1 DEF Idle, Request, Requests, Gets
  <1>3. Held' \subseteq Held /\ Seen' = {tab, Bare}
    BY <1>1, <1>2 DEF Held, Seen, Lose
  <1>4. Bare.token \notin Tokens
    BY SessionsAssumption DEF Bare, Page
  <1>5. \A c \in Held : c.csrf \in Tokens
    BY InUse
  <1>6. TypeOK'
    BY <1>2 DEF TypeOK, Lose
  <1>7. OneOwner'
    BY <1>3 DEF OneOwner
  <1>8. Truthful'
    BY <1>3, <1>4, <1>5 DEF Truthful, Seen
  <1>9. Carried'
    BY <1>2 DEF Carried, Lose
  <1> QED
    BY <1>6, <1>7, <1>8, <1>9

\* The invariant is inductive.
LEMMA Inductive == IInv /\ [Next]_vars => IInv'
  <1> SUFFICES ASSUME IInv, [Next]_vars PROVE IInv'
    OBVIOUS
  <1>1. CASE UNCHANGED vars
    BY <1>1 DEF vars, IInv, TypeOK, OneOwner, Truthful, Carried, Held, Seen
  <1> QED
    BY <1>1, PersonKeeps, MiddlewareKeeps, RouteKeeps, ReceiveKeeps, LoseKeeps, ElsewhereKeeps
    DEF Next

\* The invariant holds of every behaviour.
THEOREM Invariant == Spec => []IInv
  BY Start, Inductive, PTL DEF Spec

-----------------------------------------------------------------------------
(* Theorems. *)

\* Every variable has its type.
THEOREM TypeCorrect == Spec => []TypeOK
  BY Invariant, PTL DEF IInv

\* A button acts only for the person named on its page: the request carries the token
\* of that page, verify_csrf finds it in the cookie, and a token belongs to one account.
THEOREM ButtonsAreHonest == Spec => ActsAsShown
  <1>1. ASSUME IInv, Act \/ logout
        PROVE  CurrentUser(request.cookie) = tab.user
    <2>1. CsrfOk(request) /\ CurrentUser(request.cookie) # NoUser
      BY <1>1 DEF Act, logout, Accepted
    <2>2. request.cookie \in Cookies /\ request.cookie \in Held
      BY <1>1, <2>1 DEF CsrfOk, IInv, TypeOK, Requests, Held
    <2>3. request.token = request.cookie.csrf /\ request.token \in Tokens
      BY <2>1, <2>2 DEF CsrfOk, Cookies
    <2>4. tab.token = request.cookie.csrf
      BY <1>1, <2>3, SessionsAssumption DEF IInv, Carried
    <2>5. tab.user = request.cookie.uid
      BY <1>1, <2>2, <2>4 DEF IInv, Truthful, Seen
    <2> QED
      BY <2>1, <2>2, <2>5, CurrentUserOf
  <1>2. IInv /\ [Next]_vars
          => [Act \/ logout => CurrentUser(request.cookie) = tab.user]_vars
    BY <1>1
  <1> QED
    BY <1>2, Invariant, PTL DEF Spec, ActsAsShown

-----------------------------------------------------------------------------
(* How far a visit is from its end: the part of VisitsEnd that is safety. *)

\* How often a request for the path can still be led on.
Rank(path) ==
    CASE path \in {"home", "gone"} -> 0
      [] path = "login_form" -> 1
      [] path \in {"account", "act", "logout"} -> 2
      [] path = "login" -> 3

\* How many steps of the program and of its answers are left at most.
Left ==
    CASE At("idle") -> 0
      [] At("sent") -> 3 * Rank(request.path) + 3
      [] At("found") -> 3 * Rank(request.path) + 2
      [] At("answered") -> IF request.response.to = "here" THEN 1
                           ELSE 3 * Rank(request.response.to) + 4

\* The ranks.
LEMMA Ranks ==
  /\ \A path \in Gets \cup Posts : Rank(path) \in 0 .. 3
  /\ \A path \in Gets : Rank(path) \in 0 .. 2
  /\ Rank("home") = 0 /\ Rank("login_form") = 1 /\ Rank("account") = 2
  /\ Rank("act") = 2 /\ Rank("logout") = 2 /\ Rank("login") = 3
  BY DEF Rank, Gets, Posts

\* A route answers with a page, or with a path of a lower rank.
LEMMA RouteDescends ==
  ASSUME TypeOK, Route
  PROVE  \E r \in Responses : /\ Respond(r)
                              /\ r.to = "here" \/ Rank(r.to) < Rank(request.path)
  <1> DEFINE Fine(r) == /\ r \in Responses /\ Respond(r)
                        /\ r.to = "here" \/ Rank(r.to) < Rank(request.path)
  <1>1. request \in Requests /\ request.next \in Gets /\ request.path \in Gets \cup Posts
    BY DEF TypeOK, Requests
  <1>2. "home" \in Gets /\ "gone" \in Gets /\ "login_form" \in Gets
    BY DEF Gets
  <1>3. ASSUME NEW kind \in {"page", "account", "login_form"}, NEW next \in Gets
        PROVE  Show(Render(kind, next)) \in Responses /\ Show(Render(kind, next)).to = "here"
    <2>1. Render(kind, next) \in Pages
      BY <1>1, <1>3 DEF Render, Page, Pages, Csrf, Requests, Cookies
    <2> QED
      BY <2>1 DEF Show, Responses, Gets
  <1>4. Show(Bare) \in Responses /\ Show(Bare).to = "here"
    BY DEF Show, Bare, Page, Pages, Responses, Gets
  <1>5. ASSUME NEW path \in Gets, NEW next \in Gets, NEW sets \in SUBSET (Cookies \cup {NoCookie})
        PROVE  /\ RedirectResponse(path, next, sets) \in Responses
               /\ RedirectResponse(path, next, sets).to = path
    BY DEF RedirectResponse, Responses, Bare, Page, Pages, Gets
  <1>6. ASSUME Unauthorized, request.path \in {"account", "act", "logout"}
        PROVE  \E r : Fine(r)
    <2>1. PICK next \in AsGet(request.path) : Respond(RedirectResponse("login_form", next, {}))
      BY <1>6 DEF Unauthorized
    <2>2. next \in Gets
      BY <1>6 DEF AsGet, Gets
    <2>3. Rank("login_form") < Rank(request.path)
      BY <1>6, Ranks
    <2> QED
      BY <1>2, <1>5, <2>1, <2>2, <2>3
  <1>7. CASE Serve
    BY <1>2, <1>3, <1>4, <1>7 DEF Serve
  <1>8. CASE account_page
    BY <1>2, <1>3, <1>6, <1>8 DEF account_page, Routed
  <1>9. CASE login_form
    <2>1. request.path = "login_form" /\ Rank("home") < Rank(request.path)
      BY <1>9, Ranks DEF login_form, Routed
    <2>2. CASE Respond(RedirectResponse("home", "home", {}))
      BY <1>2, <1>5, <2>1, <2>2
    <2>3. CASE Respond(Show(Render("login_form", request.next)))
      BY <1>1, <1>3, <2>3
    <2> QED
      BY <1>9, <2>2, <2>3 DEF login_form
  <1>10. ASSUME NEW u \in Users, LoginOk(u) PROVE \E r : Fine(r)
    <2>1. issue_session(u) \in Cookies
      BY <1>10, Fresh DEF LoginOk
    <2>2. Rank(request.next) < Rank(request.path)
      BY <1>1, <1>10, Ranks DEF LoginOk, Routed
    <2> PICK s : s = issue_session(u)
      OBVIOUS
    <2>3. Respond(RedirectResponse(request.next, "home", {s}))
      BY <1>10 DEF LoginOk
    <2> QED
      BY <1>1, <1>2, <1>5, <2>1, <2>2, <2>3
  <1>11. CASE LoginFails
    BY <1>1, <1>3, <1>11 DEF LoginFails
  <1>12. CASE Refuse
    BY <1>2, <1>3, <1>6, <1>12 DEF Refuse, Routed
  <1>13. CASE Act
    <2>1. Rank("home") < Rank(request.path)
      BY <1>13, Ranks DEF Act, Accepted, Routed
    <2> QED
      BY <1>2, <1>5, <1>13, <2>1 DEF Act
  <1>14. CASE logout
    <2>1. Rank("home") < Rank(request.path)
      BY <1>14, Ranks DEF logout, Accepted, Routed
    <2> QED
      BY <1>2, <1>5, <1>14, <2>1 DEF logout
  <1> QED
    BY <1>7, <1>8, <1>9, <1>10, <1>11, <1>12, <1>13, <1>14 DEF Route

\* Whatever a response leads to has a lower rank than what was asked for: no chain of
\* redirects, of require_user, login_form, login and the POSTs, comes back to where it
\* was, for any jar, any late response and any reset.
THEOREM RedirectsDescend ==
  Spec => [][Route /\ request'.response.to # "here"
               => Rank(request'.response.to) < Rank(request.path)]_vars
  <1>1. ASSUME TypeOK, Route, request'.response.to # "here"
        PROVE  Rank(request'.response.to) < Rank(request.path)
    <2>1. PICK r \in Responses : /\ Respond(r)
                                 /\ r.to = "here" \/ Rank(r.to) < Rank(request.path)
      BY <1>1, RouteDescends
    <2>2. request'.response = r
      BY <2>1 DEF Respond, Idle, Request
    <2> QED
      BY <1>1, <2>1, <2>2
  <1>2. TypeOK /\ [Next]_vars
          => [Route /\ request'.response.to # "here"
                => Rank(request'.response.to) < Rank(request.path)]_vars
    BY <1>1
  <1> QED
    BY <1>2, TypeCorrect, PTL DEF Spec

\* Every step of the program, and every arrival or loss of its answer, brings the
\* visit nearer to its end, and nothing that happens elsewhere sets it back.
LEMMA EveryStepGetsOn ==
  ASSUME TypeOK
  PROVE  /\ Middleware \/ Route \/ Receive \/ Lose => Left' < Left
         /\ Elsewhere => Left' = Left
         /\ Left \in 0 .. 12
  <1>1. /\ request \in Requests
        /\ request.path \in Gets \cup Posts
        /\ request.at \in {"idle", "sent", "found", "answered"}
        /\ request.response.to \in Gets \cup {"here"}
    BY DEF TypeOK, Requests, Responses
  <1>2. Rank(request.path) \in 0 .. 3
    BY <1>1, Ranks
  <1>3. request.response.to # "here" => Rank(request.response.to) \in 0 .. 2
    BY <1>1, Ranks
  <1>4. Idle.at = "idle"
    BY DEF Idle, Request
  <1>5. ASSUME Middleware PROVE Left' < Left
    <2>1. request.at = "sent" /\ request'.at = "found" /\ request'.path = request.path
      BY <1>1, <1>5 DEF Middleware, At, Requests
    <2> QED
      BY <1>2, <2>1 DEF Left, At
  <1>6. ASSUME Route PROVE Left' < Left
    <2>1. PICK r \in Responses : /\ Respond(r)
                                 /\ r.to = "here" \/ Rank(r.to) < Rank(request.path)
      BY <1>6, RouteDescends
    <2>2. request'.at = "answered" /\ request'.response = r
      BY <2>1 DEF Respond, Idle, Request
    <2>3. request.at = "found"
      BY <1>6 DEF Route, Serve, account_page, login_form, LoginOk, LoginFails, Refuse, Act,
                  logout, Accepted, Routed, At
    <2>4. Left = 3 * Rank(request.path) + 2
      BY <2>3 DEF Left, At
    <2>5. Left' = IF r.to = "here" THEN 1 ELSE 3 * Rank(r.to) + 4
      BY <2>2 DEF Left, At
    <2>6. r.to # "here" => Rank(r.to) \in 0 .. 2
      BY Ranks DEF Responses
    <2> QED
      BY <1>2, <2>1, <2>4, <2>5, <2>6
  <1>7. ASSUME Receive PROVE Left' < Left
    <2>1. request.at = "answered"
      BY <1>7 DEF Receive, At
    <2>2. CASE request.response.to = "here"
      <3>1. request' = Idle
        BY <1>7, <2>2 DEF Receive
      <3> QED
        BY <1>4, <2>1, <2>2, <3>1 DEF Left, At
    <2>3. CASE request.response.to # "here"
      <3>1. request'.at = "sent" /\ request'.path = request.response.to
        BY <1>7, <2>3 DEF Receive, Request
      <3> QED
        BY <1>3, <2>1, <2>3, <3>1 DEF Left, At
    <2> QED
      BY <2>2, <2>3
  <1>8. ASSUME Lose PROVE Left' < Left
    <2>1. request.at = "answered" /\ request' = Idle
      BY <1>8 DEF Lose, At
    <2> QED
      BY <1>3, <1>4, <2>1 DEF Left, At
  <1>9. ASSUME Elsewhere PROVE Left' = Left
    <2>1. request' = request
      BY <1>9 DEF Elsewhere, SignedOut, Reset, SignedIn
    <2> QED
      BY <2>1 DEF Left, At
  <1>10. Left \in 0 .. 12
    BY <1>1, <1>2, <1>3 DEF Left, At
  <1> QED
    BY <1>5, <1>6, <1>7, <1>8, <1>9, <1>10

\* A visit is over after at most twelve steps of the program and of its answers: each of
\* them uses one up, and the other tabs and resets, however many, give none back.
THEOREM VisitsAreBounded ==
  Spec => /\ [](Left \in 0 .. 12)
          /\ [][/\ Middleware \/ Route \/ Receive \/ Lose => Left' < Left
                /\ Elsewhere => Left' = Left]_vars
  <1>1. TypeOK => Left \in 0 .. 12
    BY EveryStepGetsOn
  <1>2. TypeOK /\ [Next]_vars
          => [/\ Middleware \/ Route \/ Receive \/ Lose => Left' < Left
              /\ Elsewhere => Left' = Left]_vars
    BY EveryStepGetsOn
  <1> QED
    BY <1>1, <1>2, TypeCorrect, PTL DEF Spec
=============================================================================
