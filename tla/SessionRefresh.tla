---------------------------- MODULE SessionRefresh ----------------------------
(***************************************************************************)
(* The refresh-token exchange that keeps a browser logged in: the pages    *)
(* (frontend-v2/src/api/client.ts, contexts/AuthContext.tsx), the cookie   *)
(* they share, and the handler that rotates the token                      *)
(* (app/modules/auth/router.py, service.py).                               *)
(*                                                                         *)
(* Every page has its own access token and its own refresh promise in      *)
(* memory; the refresh token is one HttpOnly cookie for all of them.  An   *)
(* exchange sends the cookie it finds when it starts; the server revokes   *)
(* that token, mints the next of the same family, and answers.  A token    *)
(* that is known but no longer valid counts as reuse: the whole family is  *)
(* revoked and the user is alarmed.  The transaction of the handler is     *)
(* committed when its dependency is closed, which may be before or after   *)
(* the answer reaches the browser.                                         *)
(***************************************************************************)
EXTENDS Naturals, FiniteSets

CONSTANTS
    Tabs,         \* pages of one browser
    NoTab,        \* owner of an exchange whose page is gone
    Exchanges,    \* slots for exchanges under way
    MaxTokens,    \* bound: refresh tokens minted
    MaxMishaps    \* bound: lost messages, interrupted pages, ended sessions

ASSUME SessionRefreshAssumption ==
    /\ NoTab \notin Tabs
    /\ IsFiniteSet(Exchanges)
    /\ MaxTokens \in Nat
    /\ MaxMishaps \in Nat

None == 0
Tokens == 1 .. MaxTokens
Families == Tokens           \* a family is named by the token of its login

VARIABLES
    minted,       \* refresh tokens created so far
    family,       \* family[k]: the family of token k, None before it is minted
    live, dead,   \* rows of table sessions: not revoked, revoked
    expired,      \* families past expires_at
    alarms,       \* families for which a token-reuse alert was sent
    ended,        \* families a user, an administrator or a limit ended
    disturbed,    \* families with overlapping exchanges or a lost answer
    cookie,       \* the refresh_token cookie of the browser
    tab,          \* the pages
    ex,           \* the exchanges under way
    mishaps

server == <<minted, family, live, dead, expired, alarms, ended>>
vars == <<minted, family, live, dead, expired, alarms, ended, disturbed,
          cookie, tab, ex, mishaps>>

-----------------------------------------------------------------------------
(* Pages and exchanges.                                                    *)

Tab == [page: {"closed", "restoring", "login", "app"},
        access: {"none", "good", "old"},       \* accessToken
        promise: {"none", "pending", "token", "null"},   \* refreshPromise
        oldCall: BOOLEAN,        \* a call with the expired token is out
        wants: SUBSET {"call", "logout"}]

Exchange == [by: Tabs \cup {NoTab},
             step: {"idle", "sent", "ready", "answered"},
             sent: Tokens \cup {None},
             verdict: {"none", "rotate", "reuse", "unknown", "missing"},
             got: Tokens \cup {None},
             open: BOOLEAN]      \* the transaction is not yet committed

Closed == [page |-> "closed", access |-> "none", promise |-> "none",
           oldCall |-> FALSE, wants |-> {}]

\* A page loaded anew, with the module state of client.ts.
AtLogin == [Closed EXCEPT !.page = "login"]
Restoring == [Closed EXCEPT !.page = "restoring", !.promise = "pending"]

Idle == [by |-> NoTab, step |-> "idle", sent |-> None, verdict |-> "none",
         got |-> None, open |-> FALSE]

Busy == {x \in Exchanges : ex[x].step # "idle"}
Unread == {x \in Exchanges : ex[x].step = "sent"}
Own(t) == {x \in Exchanges : ex[x].by = t}

FamilyOf(k) == IF k = None THEN None ELSE family[k]

\* Room for one more token, with those the exchanges under way may mint.
Room == minted + Cardinality(Unread) < MaxTokens

-----------------------------------------------------------------------------
(* doTokenRefresh.                                                         *)

\* The POST leaves with the cookie of this moment; `exs` are the exchanges
\* as the page that starts it leaves them behind.
Begin(t, exs) ==
    /\ Room
    /\ \E x \in Exchanges \ Busy :
         ex' = [exs EXCEPT ![x] = [Idle EXCEPT !.by = t, !.step = "sent",
                                               !.sent = cookie]]
    /\ disturbed' = disturbed \cup
         {f \in Families : f = FamilyOf(cookie)
                           /\ \E y \in Busy : FamilyOf(ex[y].sent) = f}

\* What a caller does with a null token: a page that shows the application
\* is replaced by a fresh /login; the restore effect, and a page already on
\* /login, only drop the access token.
Failed(r) ==
    IF r.page = "app" THEN AtLogin
    ELSE [r EXCEPT !.page = "login", !.access = "none",
                   !.promise = "null", !.wants = {}]

\* What the callers do with a token: retry; a logout has its retry to come.
Renewed(r) ==
    [r EXCEPT !.page = IF r.page = "restoring" THEN "app" ELSE r.page,
              !.access = "good", !.promise = "token",
              !.wants = r.wants \ {"call"}]

\* A call or the logout of page record r waits for the promise.
Waits(r, why) == [r EXCEPT !.oldCall = FALSE, !.promise = "pending",
                           !.wants = @ \cup {why}]

\* As if a second caller did not find the pending promise.
JoinAlways(t, why) ==
    /\ Begin(t, ex)
    /\ tab' = [tab EXCEPT ![t] = Waits(tab[t], why)]

\* The 401 interceptor of page t on behalf of a call or of the logout starts
\* an exchange, or waits for the one under way.
Join(t, why) ==
    /\ \/ tab[t].promise = "none" /\ Begin(t, ex)
       \/ tab[t].promise = "pending" /\ UNCHANGED <<ex, disturbed>>
    /\ tab' = [tab EXCEPT ![t] = Waits(tab[t], why)]

\* A 401 that comes back while the settled promise is kept.
KeptPromise(t) ==
    /\ tab[t].promise \in {"token", "null"}
    /\ tab' = [tab EXCEPT ![t] =
         LET r == [@ EXCEPT !.oldCall = FALSE] IN
         IF r.promise = "token" THEN r ELSE Failed(r)]
    /\ UNCHANGED <<ex, disturbed>>

-----------------------------------------------------------------------------
(* The pages.                                                              *)

\* The exchanges when page t goes away: those of t have no page any more.
Detached(t) ==
    [x \in Exchanges |-> IF ex[x].by = t THEN [ex[x] EXCEPT !.by = NoTab]
                                         ELSE ex[x]]

Mishap == mishaps < MaxMishaps /\ mishaps' = mishaps + 1
Interrupts(t) == IF Own(t) = {} THEN UNCHANGED mishaps ELSE Mishap

\* The restore effect on a page that is loaded, and on one loaded again.
Load(t) ==
    /\ Begin(t, Detached(t))
    /\ tab' = [tab EXCEPT ![t] = Restoring]
    /\ Interrupts(t)
    /\ UNCHANGED <<server, cookie>>

LoadLogin(t) ==
    /\ tab[t].page = "closed"
    /\ tab' = [tab EXCEPT ![t] = AtLogin]
    /\ UNCHANGED <<server, disturbed, cookie, ex, mishaps>>

Close(t) ==
    /\ tab[t].page # "closed"
    /\ ex' = Detached(t)
    /\ tab' = [tab EXCEPT ![t] = Closed]
    /\ Interrupts(t)
    /\ UNCHANGED <<server, disturbed, cookie>>

\* As if the first session of a family did not name its family.
LoginWithoutFamily(t) ==
    /\ tab[t].page = "login" /\ Room
    /\ minted' = minted + 1
    /\ live' = live \cup {minted'}
    /\ cookie' = minted'
    /\ tab' = [tab EXCEPT ![t].page = "app", ![t].access = "good"]
    /\ UNCHANGED <<family, dead, expired, alarms, ended, disturbed, ex, mishaps>>

\* POST /auth/login: a session of a new family, its token in the cookie.
Login(t) ==
    /\ tab[t].page = "login" /\ Room
    /\ minted' = minted + 1
    /\ family' = [family EXCEPT ![minted'] = minted']
    /\ live' = live \cup {minted'}
    /\ cookie' = minted'
    /\ tab' = [tab EXCEPT ![t].page = "app", ![t].access = "good"]
    /\ UNCHANGED <<dead, expired, alarms, ended, disturbed, ex, mishaps>>

\* The access token expires; its life is far longer than the ten seconds a
\* settled promise is kept, and than a logout takes.
AccessExpires(t) ==
    /\ tab[t].access = "good" /\ tab[t].promise = "none"
    /\ tab[t].wants = {}
    /\ tab' = [tab EXCEPT ![t].access = "old"]
    /\ UNCHANGED <<server, disturbed, cookie, ex, mishaps>>

EndGrace(t) ==
    /\ tab[t].promise \in {"token", "null"}
    /\ tab' = [tab EXCEPT ![t].promise = "none"]
    /\ UNCHANGED <<server, disturbed, cookie, ex, mishaps>>

\* A call goes out with the expired token ...
Call(t) ==
    /\ tab[t].page = "app" /\ tab[t].access = "old" /\ ~tab[t].oldCall
    /\ tab' = [tab EXCEPT ![t].oldCall = TRUE]
    /\ UNCHANGED <<server, disturbed, cookie, ex, mishaps>>

\* ... and its 401 comes back, perhaps long after another call's.
CallRejected(t) ==
    /\ tab[t].oldCall
    /\ Join(t, "call") \/ KeptPromise(t)
    /\ UNCHANGED <<server, cookie, mishaps>>

\* POST /auth/logout needs a valid access token like any other call.
Logout(t) ==
    /\ tab[t].page = "app" /\ "logout" \notin tab[t].wants
    /\ \/ /\ tab[t].access = "good"
          /\ tab' = [tab EXCEPT ![t].wants = @ \cup {"logout"}]
          /\ UNCHANGED <<disturbed, ex>>
       \/ /\ tab[t].access = "old" /\ ~tab[t].oldCall
          /\ Join(t, "logout")
    /\ UNCHANGED <<server, cookie, mishaps>>

LoggedOut(t) ==
    tab' = [tab EXCEPT ![t].page = "login", ![t].access = "none",
                       ![t].wants = {}]

LogoutAnswered(t) ==
    /\ "logout" \in tab[t].wants /\ tab[t].promise # "pending"
    /\ tab[t].access = "good"
    /\ cookie' = None
    /\ LoggedOut(t)
    /\ UNCHANGED <<server, disturbed, ex, mishaps>>

\* The finally branch: the page forgets the user, the cookie stays.
LogoutLost(t) ==
    /\ "logout" \in tab[t].wants /\ tab[t].promise # "pending"
    /\ Mishap
    /\ LoggedOut(t)
    /\ UNCHANGED <<server, disturbed, cookie, ex>>

-----------------------------------------------------------------------------
(* The server.                                                             *)

Valid(k) == k \in live /\ family[k] \notin expired
Known(k) == k \in live \cup dead

\* rotate_refresh_token looks the token up and prepares what its
\* transaction will write.
Read(x) ==
    LET k == ex[x].sent IN
    /\ ex[x].step = "sent"
    /\ \/ /\ k # None /\ Valid(k)
          /\ minted' = minted + 1
          /\ family' = [family EXCEPT ![minted'] = family[k]]
          /\ ex' = [ex EXCEPT ![x] = [@ EXCEPT !.step = "ready", !.open = TRUE,
                                      !.verdict = "rotate", !.got = minted']]
       \/ /\ k # None /\ Known(k) /\ ~Valid(k)
          /\ ex' = [ex EXCEPT ![x] = [@ EXCEPT !.step = "ready", !.open = TRUE,
                                      !.verdict = "reuse"]]
          /\ UNCHANGED <<minted, family>>
       \/ /\ k = None \/ ~Known(k)
          /\ ex' = [ex EXCEPT ![x] = [@ EXCEPT !.step = "ready",
                      !.verdict = IF k = None THEN "missing" ELSE "unknown"]]
          /\ UNCHANGED <<minted, family>>
    /\ UNCHANGED <<live, dead, expired, alarms, ended, disturbed, cookie,
                   tab, mishaps>>

Closing(x) ==
    ex' = [ex EXCEPT ![x] = IF @.step = "answered" THEN Idle
                            ELSE [@ EXCEPT !.open = FALSE]]

\* As if the rotation did not revoke the token it replaces.
CommitKeepsOld(x) ==
    /\ ex[x].open
    /\ \/ /\ ex[x].verdict = "rotate"
          /\ live' = live \cup {ex[x].got}
          /\ UNCHANGED <<dead, alarms>>
       \/ /\ ex[x].verdict = "reuse"
          /\ LET K == {k \in live : family[k] = family[ex[x].sent]} IN
               live' = live \ K /\ dead' = dead \cup K
          /\ alarms' = alarms \cup {family[ex[x].sent]}
    /\ Closing(x)
    /\ UNCHANGED <<minted, family, expired, ended, disturbed, cookie, tab,
                   mishaps>>

\* _do_rotation and _invalidate_family take effect.  (A rotation that is
\* committed between the UPDATE of an invalidation and its commit leaves
\* the rows of one that is read before and committed after it.)
Commit(x) ==
    /\ ex[x].open
    /\ \/ /\ ex[x].verdict = "rotate"
          /\ live' = (live \ {ex[x].sent}) \cup {ex[x].got}
          /\ dead' = dead \cup {ex[x].sent}
          /\ UNCHANGED alarms
       \/ /\ ex[x].verdict = "reuse"
          /\ LET K == {k \in live : family[k] = family[ex[x].sent]} IN
               live' = live \ K /\ dead' = dead \cup K
          /\ alarms' = alarms \cup {family[ex[x].sent]}
    /\ Closing(x)
    /\ UNCHANGED <<minted, family, expired, ended, disturbed, cookie, tab,
                   mishaps>>

-----------------------------------------------------------------------------
(* The answer on its way to the browser.                                   *)

Leaves(x) ==
    ex' = [ex EXCEPT ![x] = IF @.open
                            THEN [@ EXCEPT !.step = "answered", !.by = NoTab]
                            ELSE Idle]

\* Set-Cookie of the answer: the new token; a refused one is deleted, a
\* missing one leaves the cookie as it is.
CookieOf(x) == CASE ex[x].verdict = "rotate" -> ex[x].got
                 [] ex[x].verdict = "missing" -> cookie
                 [] OTHER -> None

\* As if a refused exchange settled nothing.
AnswerSettlesOnlySuccess(x) ==
    /\ ex[x].step = "ready" /\ ex[x].by \in Tabs
    /\ cookie' = CookieOf(x)
    /\ tab' = [tab EXCEPT ![ex[x].by] =
                 IF ex[x].verdict = "rotate" THEN Renewed(@) ELSE @]
    /\ Leaves(x)
    /\ UNCHANGED <<server, disturbed, mishaps>>

\* As if the browser kept the cookie it sent.
AnswerKeepsCookie(x) ==
    /\ ex[x].step = "ready" /\ ex[x].by \in Tabs
    /\ tab' = [tab EXCEPT ![ex[x].by] =
                 IF ex[x].verdict = "rotate" THEN Renewed(@) ELSE Failed(@)]
    /\ Leaves(x)
    /\ UNCHANGED <<server, disturbed, cookie, mishaps>>

Answer(x) ==
    /\ ex[x].step = "ready" /\ ex[x].by \in Tabs
    /\ cookie' = CookieOf(x)
    /\ tab' = [tab EXCEPT ![ex[x].by] =
                 IF ex[x].verdict = "rotate" THEN Renewed(@) ELSE Failed(@)]
    /\ Leaves(x)
    /\ UNCHANGED <<server, disturbed, mishaps>>

\* The family of an answer the browser never sees.
Loses(x) == disturbed' = disturbed \cup (IF ex[x].verdict = "rotate"
                                         THEN {family[ex[x].sent]} ELSE {})

\* The answer to a page that is gone: the browser may still read its
\* headers, or has cut the connection.
AnswerNobody(x) ==
    /\ ex[x].step = "ready" /\ ex[x].by = NoTab
    /\ \/ cookie' = CookieOf(x) /\ UNCHANGED disturbed
       \/ UNCHANGED cookie /\ Loses(x)
    /\ Leaves(x)
    /\ UNCHANGED <<server, tab, mishaps>>

\* The network fails: the page sees a failed exchange.  A request that has
\* left may still arrive.
Lose(x) ==
    /\ ex[x].by \in Tabs
    /\ \/ /\ ex[x].step = "sent"
          /\ ex' \in {[ex EXCEPT ![x] = Idle],
                      [ex EXCEPT ![x] = [@ EXCEPT !.by = NoTab]]}
          /\ UNCHANGED disturbed
       \/ ex[x].step = "ready" /\ Leaves(x) /\ Loses(x)
    /\ Mishap
    /\ tab' = [tab EXCEPT ![ex[x].by] = Failed(@)]
    /\ UNCHANGED <<server, cookie>>

-----------------------------------------------------------------------------
(* Sessions that end on the server.                                        *)

\* invalidate_all_sessions; terminate_session and the session limit for one.
Revoke(K) ==
    /\ K # {} /\ Mishap
    /\ live' = live \ K
    /\ dead' = dead \cup K
    /\ ended' = ended \cup {family[k] : k \in K}
    /\ UNCHANGED <<minted, family, expired, alarms, disturbed, cookie, tab, ex>>

\* expires_at passes; a rotated session has the expiry of its family.
Expire(f) ==
    /\ f \in Families \ expired /\ f <= minted /\ family[f] = f
    /\ Mishap
    /\ expired' = expired \cup {f}
    /\ UNCHANGED <<minted, family, live, dead, alarms, ended, disturbed,
                   cookie, tab, ex>>

\* The daily clean-up of dead rows (bound: no exchange is under way).
CleanUp ==
    /\ Busy = {} /\ Mishap
    /\ live' = {k \in live : family[k] \notin expired}
    /\ dead' = {}
    /\ UNCHANGED <<minted, family, expired, alarms, ended, disturbed, cookie,
                   tab, ex>>

-----------------------------------------------------------------------------
Init ==
    /\ minted = 0 /\ family = [k \in Tokens |-> None]
    /\ live = {} /\ dead = {} /\ expired = {}
    /\ alarms = {} /\ ended = {} /\ disturbed = {}
    /\ cookie = None
    /\ tab = [t \in Tabs |-> Closed]
    /\ ex = [x \in Exchanges |-> Idle]
    /\ mishaps = 0

TabStep(t) ==
    \/ Load(t) \/ LoadLogin(t) \/ Close(t) \/ Login(t)
    \/ AccessExpires(t) \/ EndGrace(t) \/ Call(t) \/ CallRejected(t)
    \/ Logout(t) \/ LogoutAnswered(t) \/ LogoutLost(t)

ExchangeStep(x) ==
    Read(x) \/ Commit(x) \/ Answer(x) \/ AnswerNobody(x) \/ Lose(x)

SessionStep ==
    \/ \E K \in {live} \cup {{k} : k \in live} : Revoke(K)
    \/ \E f \in Families : Expire(f)
    \/ CleanUp

Next ==
    \/ \E t \in Tabs : TabStep(t)
    \/ \E x \in Exchanges : ExchangeStep(x)
    \/ SessionStep

Spec == Init /\ [][Next]_vars

\* The server runs what it received and the network delivers or reports its
\* failure; nothing is assumed of the user or of the loss of messages.
Fairness ==
    /\ \A x \in Exchanges : WF_vars(Read(x)) /\ WF_vars(Answer(x))
    /\ \A t \in Tabs : WF_vars(LogoutAnswered(t) \/ LogoutLost(t))

FairSpec == Spec /\ Fairness

-----------------------------------------------------------------------------
(* Properties.                                                             *)

\* Every variable has its type.
TypeOK ==
    /\ minted \in 0 .. MaxTokens
    /\ family \in [Tokens -> Tokens \cup {None}]
    /\ live \subseteq Tokens /\ dead \subseteq Tokens
    /\ expired \subseteq Tokens /\ alarms \subseteq Tokens
    /\ ended \subseteq Tokens /\ disturbed \subseteq Tokens
    /\ cookie \in Tokens \cup {None}
    /\ tab \in [Tabs -> Tab]
    /\ ex \in [Exchanges -> Exchange]
    /\ mishaps \in 0 .. MaxMishaps

\* A page has at most one exchange under way, and a caller that waits for a
\* token waits for that exchange; a page that is gone waits for
\* nothing (refreshPromise, client.ts).
OneExchangePerPage ==
    \A t \in Tabs :
        /\ \A x, y \in Own(t) : x = y
        /\ tab[t].promise = "pending" <=> Own(t) # {}
        /\ tab[t].page = "restoring" \/ "call" \in tab[t].wants
              => tab[t].promise = "pending"
        /\ tab[t].page = "closed" => tab[t] = Closed

\* Unless exchanges of the family overlapped or an answer was lost, a family
\* has one live token at most (_do_rotation revokes the one it replaces).
OneLiveToken ==
    \A f \in Families \ disturbed :
        \A k, l \in live : family[k] = f /\ family[l] = f => k = l

\* Under the same condition the browser's cookie is the last token of its
\* family whenever no exchange of the family is under way.
CookieIsNewest ==
    cookie # None /\ family[cookie] \notin disturbed
    /\ (\A x \in Busy : FamilyOf(ex[x].sent) # family[cookie])
        => \A k \in live \cup dead : family[k] = family[cookie] => k <= cookie

\* Under the same condition nobody is accused of reusing a token, unless
\* the session had been ended or had expired (rotate_refresh_token).
NoFalseAlarm == alarms \subseteq disturbed \cup ended \cup expired

\* A page that waits for a token, or for its logout, is answered
\* (doTokenRefresh settles on success and on failure).
Waiting(t) == tab[t].page = "restoring" \/ tab[t].wants # {}
WaitersAreServed == \A t \in Tabs : Waiting(t) ~> ~Waiting(t)

\* rotate_refresh_token's docstring: the family is revoked and the user
\* alarmed for an already revoked token.
AlarmMeansRevoked ==
    [][alarms' # alarms =>
         \E x \in Exchanges : ex[x].verdict = "reuse" /\ ex[x].sent \in dead]_vars
=============================================================================
