------------------------------ MODULE WebSession ------------------------------
(* One browser tab of the studio frontend and the endpoints its session rests *)
(* on.  A session is kept in four places that change in separate steps: the   *)
(* HttpOnly cookie, the React state, its copy in sessionStorage and the page  *)
(* whose guard decides what is shown.  Between a call and its answer the user *)
(* may log out, reload, go elsewhere or, with the developer tools, become     *)
(* somebody else; the answer is applied all the same.                         *)
(*                                                                            *)
(* Every rendering that follows from a step is part of the step, but for the  *)
(* redirects, which are the action Render.  Members and games of a studio are *)
(* fixed: what changes here is who looks at them.                             *)
EXTENDS Naturals, FiniteSets

CONSTANTS User, Studio,
          Admin,          \* the users with isAdmin
          Quick,          \* the users the quick start of RoleGateway logs in
          StudiosOf,      \* the studios a user is a member of
          MaxDeeds,       \* bound on what the user does
          MaxFaults,      \* bound on failed calls and expired cookies
          None

VARIABLES
  cookie,    \* access_token: None, or its user and studio (None: not selected)
  react,     \* the state of SessionContext and GameContext
  stored,    \* sessionStorage: the same without the count, and the return token
  page,      \* the route shown
  leaving,   \* the page window.location was set to, None: the document stays
  list,      \* the studio whose games the games page shows
  calls,     \* requests without an answer
  stale,     \* an answer or a choice of a session that was gone was applied
  deeds, faults

tabVars == <<cookie, react, stored, page, leaving, list, calls, stale, deeds, faults>>

Members(s) == {u \in User : s \in StudiosOf[u]}
LayoutPages == {"dashboard", "studios", "members", "games", "admin"}
Pages == LayoutPages \cup {"root", "login", "createStudio", "memberLogin", "player"}

Token == [user : User, studio : Studio \cup {None}]
Session == [id : Studio, admin : BOOLEAN]
Member == [user : User, studio : Studio]
Tasks == {"count", "hydrate", "activate", "login", "select", "memberLogin",
          "member", "switch", "restore", "logout", "bootstrap"}

ASSUME SessionAssumption ==
  /\ IsFiniteSet(User)
  /\ Admin \subseteq User /\ Quick \subseteq User
  /\ StudiosOf \in [User -> SUBSET Studio]
  /\ MaxDeeds \in Nat /\ MaxFaults \in Nat
  /\ None \notin User \cup Studio \cup Nat \cup Pages
  /\ None \notin Token /\ None \notin Session /\ None \notin Member

SessionOf(u, s) == [id |-> s, admin |-> u \in Admin]
TokenOf(u, s) == [user |-> u, studio |-> s]
Active == react.studio # None /\ react.member # None

(* A request takes the cookie along when it is sent. *)
Sent(task, u, s, c) == [task |-> task, user |-> u, studio |-> s, as |-> c]
Pending(task) == \E k \in calls : k.task = task

TabTypeOK ==
  /\ cookie \in Token \cup {None}
  /\ react \in [studio : Session \cup {None}, member : Member \cup {None},
                game : Studio \cup {None}, count : Nat \cup {None}]
  /\ stored \in [studio : Session \cup {None}, member : Member \cup {None},
                 game : Studio \cup {None}, back : Token \cup {None}]
  /\ page \in Pages /\ leaving \in {None, "login"}
  /\ list \in Studio \cup {None}
  /\ calls \subseteq [task : Tasks, user : User \cup {None},
                      studio : Studio \cup {None}, as : Token \cup {None}]
  /\ stale \in BOOLEAN /\ deeds \in 0..MaxDeeds /\ faults \in 0..MaxFaults

TabInit ==
  /\ cookie = None
  /\ react = [studio |-> None, member |-> None, game |-> None, count |-> None]
  /\ stored = [studio |-> None, member |-> None, game |-> None, back |-> None]
  /\ page \in Pages /\ leaving = None /\ list = None
  /\ calls = {} /\ stale = FALSE /\ deeds = 0 /\ faults = 0

-------------------------------------------------------------------------------
(* What follows from a change of the session.                                 *)

CountEffectMutant(r, c) == {}        \* a new document does not count

(* The effect that counts the members as long as no count is known. *)
CountEffect(r, c) ==
  IF r.studio # None /\ r.count = None
  THEN {Sent("hydrate", None, r.studio.id, c)} ELSE {}

(* The effect that activates the sole member of a studio. *)
ActivateEffect(r, c) ==
  IF r.studio # None /\ r.member = None /\ r.count = 1
  THEN {Sent("activate", None, r.studio.id, c)} ELSE {}

(* The state r is rendered and its effects run; no game outlives the studio   *)
(* session.                                                                   *)
Commit(r, s, c, sent) ==
  LET kept == IF r.studio = None THEN None ELSE r.game
  IN  /\ react' = [r EXCEPT !.game = kept]
      /\ stored' = [s EXCEPT !.game = IF r.studio = None THEN None ELSE @]
      /\ calls' = sent \cup CountEffect(r, c) \cup ActivateEffect(r, c)

(* setStudioSession with a session also asks for the count of its members. *)
CountOf(s, c) == {Sent("count", None, s, c)}

(* Studio, member and game of a session that comes from one answer. *)
Become(u, s, game, back, rest) ==
  LET c == TokenOf(u, s)
      m == [user |-> u, studio |-> s]
  IN  /\ cookie' = c
      /\ Commit([react EXCEPT !.studio = SessionOf(u, s), !.member = m, !.game = game],
                [studio |-> SessionOf(u, s), member |-> m, game |-> game, back |-> back],
                c, rest \cup CountOf(s, c))

(* The interceptor of api.ts on a 401: what is stored goes, and the document  *)
(* leaves for the login page; the React state stays until it has.             *)
Blank(s) == [s EXCEPT !.studio = None, !.member = None, !.game = None]
Expel ==
  /\ stored' = Blank(stored)
  /\ leaving' = IF page = "login" THEN leaving ELSE "login"

(* Where the guard of a route, or its page, sends the current state. *)
LoginRedirect ==
  IF react.studio # None /\ react.studio.admin THEN "admin"
  ELSE IF Active THEN "dashboard" ELSE "login"

MemberLoginRedirect ==
  CASE react.count = None -> "memberLogin"      \* "Loading..."
    [] react.count = 1 \/ (react.count # None /\ Active) -> "dashboard"
    [] OTHER -> IF react.studio = None THEN "login" ELSE "memberLogin"

MemberRedirect(p) ==
  IF react.studio = None THEN "login" ELSE IF ~Active THEN "dashboard" ELSE p

AdminRedirectMutant ==               \* it asks for a member as well
  IF ~Active THEN "login"
  ELSE IF ~react.studio.admin THEN "dashboard" ELSE "admin"
AdminRedirect ==
  IF react.studio = None THEN "login"
  ELSE IF ~react.studio.admin THEN "dashboard" ELSE "admin"

Redirect(p) ==
  CASE p = "login" -> LoginRedirect
    [] p = "createStudio" -> IF react.studio = None THEN p ELSE "dashboard"
    [] p = "memberLogin" -> MemberLoginRedirect
    [] p = "dashboard" -> IF react.studio = None THEN "login" ELSE p
    [] p = "studios" -> IF react.studio = None THEN "login" ELSE "dashboard"
    [] p \in {"members", "games"} -> MemberRedirect(p)
    [] p = "admin" -> AdminRedirect
    [] OTHER -> p

Settled == leaving = None /\ Redirect(page) = page
GoTo(p) == page' = p /\ list' = IF p = page THEN list ELSE None

Render ==
  /\ Redirect(page) # page
  /\ GoTo(Redirect(page))
  /\ UNCHANGED <<cookie, react, stored, leaving, calls, stale, deeds, faults>>

-------------------------------------------------------------------------------
(* Documents.  A document that goes takes its calls along: the server may     *)
(* have handled them, and then their cookie is set.                           *)

LandingOf(u) == IF u \in Admin THEN "admin" ELSE "dashboard"
SoleStudio(u) == CHOOSE s \in StudiosOf[u] : TRUE

(* The session a switcher call may act for: the return token's, or an admin's. *)
Actor == IF stored.back # None THEN stored.back
         ELSE IF cookie # None /\ cookie.user \in Admin THEN cookie ELSE None

(* The studio restoreSession resolves: the token's, else any of the user's. *)
HomeOf(t) == IF t.studio \in StudiosOf[t.user] THEN t.studio ELSE SoleStudio(t.user)

(* A user without a studio has no session to restore. *)
Restores(k) == k.as # None /\ StudiosOf[k.as.user] # {}

(* The studio bootstrap resolves: of its studio name, or the only one. *)
BootstrapStudio(u) == SoleStudio(u)

(* The token the server answers a call with; None: the call sets no cookie. *)
TokenFor(k) ==
  CASE k.task = "login" -> TokenOf(k.user, None)
    [] k.task = "memberLogin" -> TokenOf(k.user, k.studio)
    [] k.task = "select" -> TokenOf(k.as.user, k.studio)
    [] k.task = "bootstrap" -> TokenOf(k.user, BootstrapStudio(k.user))
    [] k.task = "switch" /\ k.as # None -> TokenOf(k.user, k.studio)
    [] k.task = "restore" /\ Restores(k) -> TokenOf(k.as.user, HomeOf(k.as))
    [] OTHER -> None

(* The answer meets the session its call was sent in; or none at all. *)
Current(k) == \A x \in {react.studio, stored.studio} : x # None /\ x.id = k.studio
Fresh == react.studio = None /\ stored.studio = None

Load(p) ==
  /\ \/ UNCHANGED <<cookie, stale>>
     \/ cookie' = None /\ Pending("logout") /\ stale' = (stale \/ ~Fresh)
     \/ \E k \in calls : TokenFor(k) # None /\ cookie' = TokenFor(k) /\ stale' = TRUE
  /\ Commit([studio |-> stored.studio, member |-> stored.member,
             game |-> stored.game, count |-> None], stored, cookie', {})
  /\ page' = p /\ list' = None /\ leaving' = None

Unload == leaving # None /\ Load(leaving) /\ UNCHANGED <<deeds, faults>>

UserActs == Settled /\ deeds < MaxDeeds /\ deeds' = deeds + 1 /\ UNCHANGED faults
NoAnswer == UNCHANGED <<cookie, leaving, stale>>

(* A link, the back button; an address typed in; a reload. *)
Follow(p) ==
  /\ UserActs /\ p # page /\ GoTo(p)
  /\ NoAnswer /\ UNCHANGED <<react, stored, calls>>

Enter(p) == UserActs /\ Load(p)

-------------------------------------------------------------------------------
(* What the user does.                                                        *)

Submit(k) == calls' = calls \cup {k} /\ NoAnswer /\ UNCHANGED <<react, stored, page, list>>

(* Login.tsx: the button is disabled while a login is on its way. *)
LoginSubmit(u) ==
  /\ UserActs /\ page = "login" /\ react.studio = None
  /\ ~Pending("login") /\ ~Pending("select")
  /\ Submit(Sent("login", u, None, cookie))

(* MemberLogin.tsx: a member of the studio, taken from its list. *)
MemberLoginSubmit(u) ==
  /\ UserActs /\ page = "memberLogin" /\ react.count # None
  /\ u \in Members(react.studio.id)
  /\ cookie # None /\ cookie.user \in Members(react.studio.id)
  /\ ~Pending("memberLogin") /\ ~Pending("member")
  /\ Submit(Sent("memberLogin", u, react.studio.id, cookie))

(* The states in which the header shows its logout button. *)
LogoutShown ==
  /\ page \in LayoutPages /\ react.studio # None
  /\ react.member # None \/ react.studio.admin \/ (react.count # None /\ react.count > 1)

LogoutMutant ==                      \* the stored member stays
  /\ UserActs /\ LogoutShown
  /\ Commit([react EXCEPT !.studio = None, !.member = None, !.count = None],
            [stored EXCEPT !.studio = None],
            cookie, calls \cup {Sent("logout", None, None, cookie)})
  /\ leaving' = "login"
  /\ UNCHANGED <<cookie, page, list, stale>>

(* logoutStudio: the call is not waited for. *)
Logout ==
  /\ UserActs /\ LogoutShown
  /\ Commit([react EXCEPT !.studio = None, !.member = None, !.count = None],
            [stored EXCEPT !.studio = None, !.member = None],
            cookie, calls \cup {Sent("logout", None, None, cookie)})
  /\ leaving' = "login"
  /\ UNCHANGED <<cookie, page, list, stale>>

(* Games.tsx: a game of the list becomes the active one. *)
PickGame ==
  /\ UserActs /\ page = "games" /\ list # None
  /\ react' = [react EXCEPT !.game = list]
  /\ stored' = [stored EXCEPT !.game = list]
  /\ stale' = (stale \/ list # react.studio.id)
  /\ GoTo("dashboard")
  /\ UNCHANGED <<cookie, leaving, calls>>

(* RoleGateway.tsx, in development: the quick start. *)
QuickStart(u) ==
  /\ UserActs /\ page = "root" /\ ~Pending("bootstrap")
  /\ Cardinality(StudiosOf[u]) = 1
  /\ Submit(Sent("bootstrap", u, None, cookie))

(* SessionSwitcherRail.tsx, in development. *)
CanShow == page \in LayoutPages
             /\ (stored.back # None \/ (react.studio # None /\ react.studio.admin))

SwitchTo(u, s) ==
  /\ UserActs /\ CanShow
  /\ Submit(Sent("switch", u, s, Actor))

Restore ==
  /\ UserActs /\ CanShow /\ stored.back # None /\ ~Pending("restore")
  /\ ~react.studio.admin
  /\ Submit(Sent("restore", None, None, Actor))

UserStep ==
  \/ \E p \in Pages : Follow(p) \/ Enter(p)
  \/ \E u \in User : \/ LoginSubmit(u) \/ MemberLoginSubmit(u)
                     \/ \E s \in StudiosOf[u] : SwitchTo(u, s)
  \/ \E u \in Quick : QuickStart(u)
  \/ Logout \/ PickGame \/ Restore

-------------------------------------------------------------------------------
(* Answers.  A failed one shows a message, if anything.                       *)

Ok == UNCHANGED faults
Fails == faults < MaxFaults /\ faults' = faults + 1

(* The number of members; a failure counts as none, a 401 expels as well. *)
CountAnswer(k) ==
  LET member == k.as # None /\ k.as.user \in Members(k.studio)
  IN  /\ k.task \in {"count", "hydrate"}
      /\ \E n \in {0, Cardinality(Members(k.studio))} :
           /\ n # 0 => member /\ Ok
           /\ n = 0 /\ member => Fails
           /\ n = 0 /\ ~member => Ok
           /\ LET s == IF k.as = None THEN Blank(stored) ELSE stored
              IN  IF n = react.count        \* nothing to render
                  THEN UNCHANGED react /\ stored' = s /\ calls' = calls \ {k}
                  ELSE Commit([react EXCEPT !.count = n], s, cookie, calls \ {k})
      /\ leaving' = IF k.as = None /\ page # "login" THEN "login" ELSE leaving
      /\ stale' = (stale \/ ~Current(k) \/ (k.as = None /\ cookie # None))
      /\ UNCHANGED <<cookie, page, list>>

(* getMemberSession: the member the cookie's user is in the studio. *)
MemberAnswer(k) ==
  /\ k.task \in {"activate", "member"}
  /\ \/ /\ k.as # None /\ k.as.user \in Members(k.studio)
        /\ LET m == [user |-> k.as.user, studio |-> k.studio]
           IN  Commit([react EXCEPT !.member = m], [stored EXCEPT !.member = m],
                      cookie, calls \ {k})
        /\ stale' = (stale \/ ~Current(k) \/ react.member # None)
        /\ IF k.task = "member" THEN GoTo(LandingOf(k.as.user)) ELSE UNCHANGED <<page, list>>
        /\ Ok
     \/ /\ IF k.as # None /\ k.as.user \in Members(k.studio) THEN Fails ELSE Ok
        /\ calls' = calls \ {k}
        /\ UNCHANGED <<react, stored, page, list, stale>>
  /\ UNCHANGED <<cookie, leaving>>

(* The studio session that a login or a selection ends with. *)
SetStudio(u, s, c, sent) ==
  Commit([react EXCEPT !.studio = SessionOf(u, s)],
         [stored EXCEPT !.studio = SessionOf(u, s)], c, sent \cup CountOf(s, c))

(* handleStudioLogin: a sole studio is selected, several go to the picker,    *)
(* and without any there is a message, and the cookie all the same.           *)
LoginAnswer(k) ==
  LET c == TokenFor(k) n == Cardinality(StudiosOf[k.user])
      next == {Sent("select", None, SoleStudio(k.user), c)}
  IN  /\ k.task = "login"
      /\ cookie' = c
      /\ calls' = (calls \ {k}) \cup IF n = 1 THEN next ELSE {}
      /\ IF n > 1 THEN GoTo("studios") ELSE UNCHANGED <<page, list>>
      /\ stale' = (stale \/ ~Fresh)
      /\ UNCHANGED <<react, stored>>

SelectAnswer(k) ==
  /\ k.task = "select"
  /\ cookie' = TokenFor(k)
  /\ SetStudio(k.as.user, k.studio, cookie', calls \ {k})
  /\ GoTo(LandingOf(k.as.user))
  /\ stale' = (stale \/ ~Fresh)

(* handleSubmit of MemberLogin.tsx: then the member session is asked for. *)
MemberLoginAnswer(k) ==
  /\ k.task = "memberLogin"
  /\ cookie' = TokenFor(k)
  /\ SetStudio(k.user, k.studio, cookie',
               (calls \ {k}) \cup {Sent("member", None, k.studio, cookie')})
  /\ stale' = (stale \/ ~Current(k) \/ react.member # None)
  /\ UNCHANGED <<page, list>>

LogoutAnswer(k) ==
  /\ k.task = "logout"
  /\ cookie' = None /\ calls' = calls \ {k}
  /\ stale' = (stale \/ ~Fresh)
  /\ UNCHANGED <<react, stored, page, list>>

BootstrapAnswer(k) ==
  LET s == BootstrapStudio(k.user)
  IN  /\ k.task = "bootstrap"
      /\ Become(k.user, s, s, stored.back, calls \ {k})
      /\ \E p \in {LandingOf(k.user), "player"} : GoTo(p)
      /\ UNCHANGED stale

(* applySession of the switcher: the admin's token is kept to return with. *)
SwitchAnswer(k) ==
  /\ k.task = "switch" /\ k.as # None
  /\ Become(k.user, k.studio, None, k.as, calls \ {k})
  /\ IF page = "admin" THEN GoTo("dashboard") ELSE UNCHANGED <<page, list>>
  /\ UNCHANGED stale

RestoreAnswer(k) ==
  /\ k.task = "restore" /\ Restores(k)
  /\ Become(k.as.user, HomeOf(k.as), None, None, calls \ {k})
  /\ GoTo("admin")
  /\ UNCHANGED stale

SessionAnswer(k) ==
  /\ \/ LoginAnswer(k) \/ SelectAnswer(k) \/ MemberLoginAnswer(k) \/ LogoutAnswer(k)
     \/ BootstrapAnswer(k) \/ SwitchAnswer(k) \/ RestoreAnswer(k)
  /\ Ok /\ UNCHANGED leaving

(* The server does not do it, for a fault or for want of an administrator. *)
Refused(k) ==
  /\ k.task \notin {"count", "hydrate", "activate", "member"}
  /\ IF k.task \in {"switch", "restore"} /\ TokenFor(k) = None THEN Ok ELSE Fails
  /\ calls' = calls \ {k}
  /\ NoAnswer /\ UNCHANGED <<react, stored, page, list>>

Answer(k) ==
  /\ CountAnswer(k) \/ MemberAnswer(k) \/ SessionAnswer(k) \/ Refused(k)
  /\ UNCHANGED deeds

(* A page reads its data with the cookie; the games page lists the games of   *)
(* the cookie's studio, once, and gives up an active game it does not find.   *)
LoadPage ==
  /\ Settled /\ react.studio # None
  /\ \/ page \in {"games", "members", "admin"} /\ cookie = None
        /\ Expel /\ UNCHANGED <<react, list>>
     \/ /\ page = "games" /\ list = None /\ cookie # None /\ cookie.studio # None
        /\ list' = cookie.studio
        /\ IF react.game \in {None, list'} THEN UNCHANGED <<react, stored>>
           ELSE /\ react' = [react EXCEPT !.game = None]
                /\ stored' = [stored EXCEPT !.game = None]
        /\ UNCHANGED leaving
  /\ UNCHANGED <<cookie, page, calls, stale, deeds, faults>>

(* getSessionTargets: the studios, for an administrator, and a token to return. *)
ReturnToken == IF stored.back # None THEN stored.back ELSE Actor

(* The switcher loads its targets; it keeps the first token it gets. *)
LoadTargets ==
  /\ Settled /\ CanShow /\ stored.back = None /\ ReturnToken # None
  /\ stored' = [stored EXCEPT !.back = ReturnToken]
  /\ UNCHANGED <<cookie, react, page, leaving, list, calls, stale, deeds, faults>>

(* The cookie is over after its day. *)
CookieEnds ==
  /\ Fails /\ cookie # None /\ cookie' = None
  /\ UNCHANGED <<react, stored, page, leaving, list, calls, stale, deeds>>

CallAnswers == \E k \in calls : Answer(k)
TabNext == Render \/ Unload \/ UserStep \/ CallAnswers \/ LoadPage \/ LoadTargets \/ CookieEnds

Fairness == WF_tabVars(Render) /\ WF_tabVars(Unload) /\ WF_tabVars(CallAnswers)
TabSpec == TabInit /\ [][TabNext]_tabVars /\ Fairness

-------------------------------------------------------------------------------
(* SessionContext.tsx, GameContext.tsx, stateGuards.ts: as long as no answer  *)
(* went astray, the pieces of a session name one user and one studio: there   *)
(* is no member without its studio, no game without a member of its studio,   *)
(* the cookie is the member's, and the stored copy, which the next document   *)
(* starts from, is as sound as the React state.                               *)
Fits(x) ==
  /\ x.member # None => /\ x.studio # None /\ x.studio.id = x.member.studio
                        /\ x.studio.admin = (x.member.user \in Admin)
                        /\ cookie # None => cookie = TokenOf(x.member.user, x.member.studio)
  /\ x.game # None => x.member # None /\ x.game = x.member.studio
SessionsFitTogether == ~stale => Fits(react) /\ Fits(stored)

(* RouteGuards.tsx:22: whatever the state and the page, the redirects come to *)
(* an end.                                                                    *)
RedirectsEnd == []<>(Redirect(page) = page)

(* They do so at once: if nothing else happens, with the second at the latest.*)
SecondRedirectSettles ==
  \A p \in Pages : LET last == Redirect(Redirect(p)) IN Redirect(last) = last

(* SessionContext.tsx:121-150: without failures the owner of a studio with no *)
(* other member is activated, however the studio session came about.          *)
OwnersGetActivated ==
  (react.studio # None /\ Cardinality(Members(react.studio.id)) = 1 /\ faults = 0 /\ ~stale)
    ~> (react.member # None \/ react.studio = None \/ faults > 0 \/ stale)

(* What such an owner waits for is under way all the time, the count of the   *)
(* members or the member, and asked for with the cookie of a member: effects, *)
(* logins and new documents leave no moment at which nobody asks.             *)
ActivationIsUnderWay ==
  (react.studio # None /\ Cardinality(Members(react.studio.id)) = 1 /\ faults = 0 /\ ~stale
    /\ react.member = None)
    => \E k \in calls :
         /\ k.task \in IF react.count = 1 THEN {"activate", "member"} ELSE {"count", "hydrate"}
         /\ k.studio = react.studio.id
         /\ k.as # None /\ k.as.user \in Members(k.studio)
===============================================================================
