-------------------------- MODULE SessionRefreshProofs --------------------------
(***************************************************************************)
(* Proofs about SessionRefresh, for any number of pages, exchanges and     *)
(* tokens.  The safety properties do not hold by themselves step by step:  *)
(* IInv adds what an exchange knows of its family while it is under way.   *)
(* As long as a family is undisturbed, one exchange at most is under way   *)
(* in it, the token it sent bounds the committed ones until its rotation   *)
(* is committed, and the cookie is the token it sent until it is answered. *)
(***************************************************************************)
EXTENDS SessionRefresh, FiniteSetTheorems, TLAPS

\* The tokens the unread exchanges may still mint are within the bound.
Budget == minted + Cardinality(Unread) <= MaxTokens

\* What the step of an exchange says of its other fields.
ExchangeOK(x) ==
    /\ ex[x].step \in {"idle", "answered"} => ex[x].by = NoTab
    /\ ex[x].step = "sent" => ex[x].verdict = "none"
    /\ ex[x].step = "answered" => ex[x].open
    /\ ex[x].step \in {"idle", "sent"} => ~ex[x].open
    /\ ex[x].open => ex[x].verdict \in {"rotate", "reuse"}
    /\ ex[x].verdict = "reuse" => ex[x].sent # None
    /\ ex[x].verdict = "rotate" =>
         /\ ex[x].sent # None /\ ex[x].got # None
         /\ family[ex[x].got] = family[ex[x].sent]
         /\ ex[x].sent < ex[x].got
         /\ ex[x].open => ex[x].sent \in live \cup dead

\* A token has a family once it is minted, and only minted tokens are used.
TokensOK ==
    /\ \A k \in Tokens : family[k] # None => k <= minted /\ family[k] <= k
    /\ \A k \in live \cup dead : family[k] # None
    /\ cookie # None => family[cookie] # None
    /\ \A x \in Exchanges :
         /\ ex[x].sent # None => family[ex[x].sent] # None
         /\ ex[x].got # None => family[ex[x].got] # None

\* In an undisturbed family: the live token is the newest one.
LiveIsNewest ==
    \A f \in Families \ disturbed :
        \A k \in live, j \in live \cup dead :
            family[k] = f /\ family[j] = f => j <= k

\* In an undisturbed family: one exchange at most is under way.
OneExchange ==
    \A x, y \in Busy :
        ex[x].sent # None /\ family[ex[x].sent] \notin disturbed
        /\ FamilyOf(ex[y].sent) = family[ex[x].sent] => x = y

\* The newest committed token an exchange knows of.
Top(x) == IF ex[x].verdict = "rotate" /\ ~ex[x].open THEN ex[x].got
                                                     ELSE ex[x].sent

\* In an undisturbed family: nothing newer than Top is committed, and the
\* cookie, if it is of the family, is the one the exchange sent or brought.
UnderWay(x) ==
    ex[x].sent # None /\ family[ex[x].sent] \notin disturbed =>
        /\ \A j \in live \cup dead :
              family[j] = family[ex[x].sent] => j <= Top(x)
        /\ cookie # None /\ family[cookie] = family[ex[x].sent] =>
              /\ ex[x].step # "answered" => cookie = ex[x].sent
              /\ ex[x].step = "answered" =>
                   cookie = IF ex[x].verdict = "rotate" THEN ex[x].got
                                                        ELSE ex[x].sent

Blamed == disturbed \cup ended \cup expired

\* A dead token of a family nobody ended has a newer live one, so that the
\* newest is found valid, and reuse only where there is a reason.
Alarms ==
    /\ NoFalseAlarm
    /\ \A x \in Exchanges :
         ex[x].verdict = "reuse" => family[ex[x].sent] \in Blamed
    /\ \A k \in dead : family[k] \notin Blamed =>
         \E j \in live : family[j] = family[k] /\ k < j

\* What is said of the exchanges and the tokens, not of the pages.
Core ==
    /\ Budget
    /\ \A x \in Exchanges : ExchangeOK(x)
    /\ TokensOK
    /\ LiveIsNewest
    /\ OneExchange
    /\ \A x \in Busy : UnderWay(x)
    /\ CookieIsNewest
    /\ Alarms

IInv == TypeOK /\ OneExchangePerPage /\ Core

-----------------------------------------------------------------------------
(* Types.                                                                  *)

\* What the callers do with a settled promise leaves a page of its type.
LEMMA SettledTyped ==
    ASSUME NEW r \in Tab
    PROVE  Failed(r) \in Tab /\ Renewed(r) \in Tab
<1>1. Failed(r) \in Tab
  BY DEF Failed, AtLogin, Closed, Tab
<1>2. Renewed(r) \in Tab
  <2>1. r.wants \ {"call"} \in SUBSET {"call", "logout"}
    BY DEF Tab
  <2>. QED  BY <2>1 DEF Renewed, Tab
<1>. QED  BY <1>1, <1>2

\* A caller that waits leaves a page of its type.
LEMMA WaitsTyped ==
    ASSUME NEW r \in Tab, NEW why \in {"call", "logout"}
    PROVE  Waits(r, why) \in Tab
<1>1. r.wants \cup {why} \in SUBSET {"call", "logout"}
  BY DEF Tab
<1>. QED  BY <1>1 DEF Waits, Tab

\* An exchange that starts is of its type, and so are the others.
LEMMA BeginTyped ==
    ASSUME TypeOK, NEW t \in Tabs, NEW exs \in [Exchanges -> Exchange],
           Begin(t, exs)
    PROVE  ex' \in [Exchanges -> Exchange] /\ disturbed' \subseteq Tokens
<1>1. PICK x \in Exchanges \ Busy :
        ex' = [exs EXCEPT ![x] = [Idle EXCEPT !.by = t, !.step = "sent",
                                              !.sent = cookie]]
  BY DEF Begin
<1>2. [Idle EXCEPT !.by = t, !.step = "sent", !.sent = cookie] \in Exchange
  BY DEF Idle, Exchange, TypeOK, None
<1>3. ex' \in [Exchanges -> Exchange]
  BY <1>1, <1>2
<1>4. disturbed' \subseteq Tokens
  BY DEF Begin, TypeOK, Families
<1>. QED  BY <1>3, <1>4

\* Taking the page away from its exchanges keeps their type.
LEMMA DetachedTyped ==
    ASSUME TypeOK, NEW t \in Tabs
    PROVE  Detached(t) \in [Exchanges -> Exchange]
<1>1. ASSUME NEW x \in Exchanges
      PROVE  (IF ex[x].by = t THEN [ex[x] EXCEPT !.by = NoTab] ELSE ex[x])
                \in Exchange
  BY DEF TypeOK, Exchange
<1>. QED  BY <1>1, Zenon DEF Detached

\* An unread exchange takes one of the tokens the bound leaves.
LEMMA UnreadCounted ==
    ASSUME TypeOK, NEW S, S \subseteq Exchanges
    PROVE  /\ IsFiniteSet(S) /\ Cardinality(S) \in Nat
           /\ \A x \in Exchanges \ S :
                 Cardinality(S \cup {x}) = Cardinality(S) + 1
           /\ \A x \in S : /\ Cardinality(S \ {x}) = Cardinality(S) - 1
                         /\ Cardinality(S) >= 1
<1>1. IsFiniteSet(S)
  BY FS_Subset, SessionRefreshAssumption
<1>2. Cardinality(S) \in Nat
  BY <1>1, FS_CardinalityType
<1>3. \A x \in Exchanges \ S : Cardinality(S \cup {x}) = Cardinality(S) + 1
  BY <1>1, FS_AddElement
<1>4. \A x \in S : Cardinality(S \ {x}) = Cardinality(S) - 1
  BY <1>1, FS_RemoveElement
<1>5. \A x \in S : Cardinality(S) >= 1
  <2>1. ASSUME NEW x \in S PROVE Cardinality(S \ {x}) \in Nat
    BY <1>1, FS_Subset, FS_CardinalityType
  <2>2. ASSUME NEW x \in S PROVE Cardinality(S) >= 1
    <3>1. Cardinality(S \ {x}) \in Nat /\ Cardinality(S \ {x}) = Cardinality(S) - 1
      BY <1>4, <2>1
    <3>. QED  BY <1>2, <3>1
  <2>. QED  BY <2>2
<1>. QED  BY <1>1, <1>2, <1>3, <1>4, <1>5

\* The bound leaves a token for every unread exchange.
LEMMA TokenLeft ==
    ASSUME TypeOK, Budget, NEW x \in Exchanges, ex[x].step = "sent"
    PROVE  minted + 1 \in Tokens
<1>1. Unread \subseteq Exchanges /\ x \in Unread
  BY DEF Unread
<1>2. Cardinality(Unread) \in Nat /\ Cardinality(Unread) >= 1
  BY <1>1, UnreadCounted
<1>. QED  BY <1>2, SessionRefreshAssumption DEF Budget, Tokens, TypeOK

\* Room leaves one for a login.
LEMMA RoomLeft ==
    ASSUME TypeOK, Room
    PROVE  minted + 1 \in Tokens
<1>1. Unread \subseteq Exchanges
  BY DEF Unread
<1>2. Cardinality(Unread) \in Nat
  BY <1>1, UnreadCounted
<1>. QED  BY <1>2, SessionRefreshAssumption DEF Room, Tokens, TypeOK

\* Joining an exchange keeps the types.
LEMMA JoinTyped ==
    ASSUME TypeOK, NEW t \in Tabs, NEW why \in {"call", "logout"},
           Join(t, why)
    PROVE  /\ tab' \in [Tabs -> Tab] /\ ex' \in [Exchanges -> Exchange]
           /\ disturbed' \subseteq Tokens
<1>. tab \in [Tabs -> Tab] /\ tab[t] \in Tab
  BY DEF TypeOK
<1>1. tab' \in [Tabs -> Tab]
  BY WaitsTyped DEF Join
<1>2. ex' \in [Exchanges -> Exchange] /\ disturbed' \subseteq Tokens
  BY BeginTyped DEF Join, TypeOK
<1>. QED  BY <1>1, <1>2

\* The pages' steps keep the types.
LEMMA TabTyped ==
    ASSUME TypeOK, NEW t \in Tabs, TabStep(t)
    PROVE  TypeOK'
<1>. tab \in [Tabs -> Tab] /\ tab[t] \in Tab /\ ex \in [Exchanges -> Exchange]
  BY DEF TypeOK
<1>0. mishaps' \in 0 .. MaxMishaps \/ UNCHANGED mishaps
  BY SessionRefreshAssumption
     DEF TypeOK, TabStep, Load, LoadLogin, Close, Login, AccessExpires,
         EndGrace, Call, CallRejected, Logout, LogoutAnswered, LogoutLost,
         Interrupts, Mishap
<1>1. CASE Load(t)
  <2>1. ex' \in [Exchanges -> Exchange] /\ disturbed' \subseteq Tokens
    BY <1>1, BeginTyped, DetachedTyped DEF Load
  <2>2. Restoring \in Tab
    BY DEF Restoring, Closed, Tab
  <2>3. tab' \in [Tabs -> Tab]
    BY <1>1, <2>2 DEF Load
  <2>. QED  BY <1>0, <1>1, <2>1, <2>3 DEF Load, TypeOK, server
<1>2. CASE LoadLogin(t)
  <2>1. AtLogin \in Tab
    BY DEF AtLogin, Closed, Tab
  <2>2. tab' \in [Tabs -> Tab]
    BY <1>2, <2>1 DEF LoadLogin
  <2>. QED  BY <1>2, <2>2 DEF LoadLogin, TypeOK, server
<1>3. CASE Close(t)
  <2>1. ex' \in [Exchanges -> Exchange]
    BY <1>3, DetachedTyped DEF Close
  <2>2. Closed \in Tab
    BY DEF Closed, Tab
  <2>3. tab' \in [Tabs -> Tab]
    BY <1>3, <2>2 DEF Close
  <2>. QED  BY <1>0, <1>3, <2>1, <2>3 DEF Close, TypeOK, server
<1>4. CASE Login(t)
  <2>1. minted' \in Tokens /\ minted' = minted + 1
    BY <1>4, RoomLeft DEF Login
  <2>2. tab' \in [Tabs -> Tab]
    BY <1>4 DEF Login, Tab
  <2>3. minted' \in 0 .. MaxTokens
    BY <2>1 DEF Tokens
  <2>4. family' \in [Tokens -> Tokens \cup {None}]
    BY <1>4, <2>1 DEF Login, TypeOK
  <2>5. live' \subseteq Tokens /\ cookie' \in Tokens \cup {None}
    BY <1>4, <2>1 DEF Login, TypeOK
  <2>. QED  BY <1>4, <2>2, <2>3, <2>4, <2>5 DEF Login, TypeOK
<1>5. CASE AccessExpires(t)
  <2>1. tab' \in [Tabs -> Tab]
    BY <1>5 DEF AccessExpires, Tab
  <2>. QED  BY <1>5, <2>1 DEF AccessExpires, TypeOK, server
<1>6. CASE EndGrace(t)
  <2>1. tab' \in [Tabs -> Tab]
    BY <1>6 DEF EndGrace, Tab
  <2>. QED  BY <1>6, <2>1 DEF EndGrace, TypeOK, server
<1>7. CASE Call(t)
  <2>1. tab' \in [Tabs -> Tab]
    BY <1>7 DEF Call, Tab
  <2>. QED  BY <1>7, <2>1 DEF Call, TypeOK, server
<1>8. CASE CallRejected(t)
  <2>1. CASE Join(t, "call")
    <3>1. /\ tab' \in [Tabs -> Tab] /\ ex' \in [Exchanges -> Exchange]
          /\ disturbed' \subseteq Tokens
      BY <2>1, JoinTyped
    <3>. QED  BY <1>8, <3>1 DEF CallRejected, TypeOK, server
  <2>2. CASE KeptPromise(t)
    <3>1. [tab[t] EXCEPT !.oldCall = FALSE] \in Tab
      BY DEF Tab
    <3>2. tab' \in [Tabs -> Tab]
      BY <2>2, <3>1, SettledTyped DEF KeptPromise
    <3>. QED  BY <1>8, <2>2, <3>2 DEF CallRejected, KeptPromise, TypeOK, server
  <2>. QED  BY <1>8, <2>1, <2>2 DEF CallRejected
<1>9. CASE Logout(t)
  <2>1. CASE Join(t, "logout")
    <3>1. /\ tab' \in [Tabs -> Tab] /\ ex' \in [Exchanges -> Exchange]
          /\ disturbed' \subseteq Tokens
      BY <2>1, JoinTyped
    <3>. QED  BY <1>9, <3>1 DEF Logout, TypeOK, server
  <2>2. CASE tab' = [tab EXCEPT ![t].wants = @ \cup {"logout"}]
             /\ UNCHANGED <<disturbed, ex>>
    <3>1. tab' \in [Tabs -> Tab]
      BY <2>2 DEF Tab
    <3>. QED  BY <1>9, <2>2, <3>1 DEF Logout, TypeOK, server
  <2>. QED  BY <1>9, <2>1, <2>2 DEF Logout
<1>10. CASE LogoutAnswered(t) \/ LogoutLost(t)
  <2>1. tab' \in [Tabs -> Tab]
    BY <1>10 DEF LogoutAnswered, LogoutLost, LoggedOut, Tab
  <2>. QED  BY <1>0, <1>10, <2>1
            DEF LogoutAnswered, LogoutLost, TypeOK, server, None
<1>. QED  BY <1>1, <1>2, <1>3, <1>4, <1>5, <1>6, <1>7, <1>8, <1>9, <1>10
          DEF TabStep

\* An exchange that ends, or is read, or is committed, is of its type.
LEMMA LeavesTyped ==
    ASSUME TypeOK, NEW x \in Exchanges, Leaves(x) \/ Closing(x)
    PROVE  ex' \in [Exchanges -> Exchange]
<1>1. Idle \in Exchange
  BY DEF Idle, Exchange, None
<1>2. ex[x] \in Exchange
  BY DEF TypeOK
<1>3. /\ [ex[x] EXCEPT !.step = "answered", !.by = NoTab] \in Exchange
      /\ [ex[x] EXCEPT !.open = FALSE] \in Exchange
  BY <1>2 DEF Exchange
<1>. QED  BY <1>1, <1>2, <1>3 DEF Leaves, Closing, TypeOK

\* An answer that is lost disturbs a family.
LEMMA LostTyped ==
    ASSUME TypeOK, TokensOK, NEW x \in Exchanges, ExchangeOK(x), Loses(x)
    PROVE  disturbed' \subseteq Tokens
<1>1. ASSUME ex[x].verdict = "rotate" PROVE family[ex[x].sent] \in Tokens
  <2>1. ex[x].sent \in Tokens /\ family[ex[x].sent] # None
    BY <1>1 DEF TypeOK, TokensOK, ExchangeOK, Exchange
  <2>. QED  BY <2>1 DEF TypeOK
<1>. QED  BY <1>1 DEF Loses, TypeOK

\* The steps of an exchange keep the types.
LEMMA ExchangeTyped ==
    ASSUME TypeOK, Budget, TokensOK,
           NEW x \in Exchanges, ExchangeOK(x), ExchangeStep(x)
    PROVE  TypeOK'
<1>. ex \in [Exchanges -> Exchange] /\ ex[x] \in Exchange
  BY DEF TypeOK
<1>1. CASE Read(x)
  <2>. DEFINE k == ex[x].sent
              rotated == [ex[x] EXCEPT !.step = "ready", !.open = TRUE,
                                       !.verdict = "rotate", !.got = minted + 1]
              reused == [ex[x] EXCEPT !.step = "ready", !.open = TRUE,
                                      !.verdict = "reuse"]
              refused == [ex[x] EXCEPT !.step = "ready",
                      !.verdict = IF k = None THEN "missing" ELSE "unknown"]
  <2>1. minted + 1 \in Tokens
    BY <1>1, TokenLeft DEF Read
  <2>2. rotated \in Exchange /\ reused \in Exchange /\ refused \in Exchange
    BY <2>1 DEF Exchange
  <2>3. CASE k # None /\ Valid(k) /\ minted' = minted + 1
             /\ family' = [family EXCEPT ![minted'] = family[k]]
             /\ ex' = [ex EXCEPT ![x] = rotated]
    <3>1. ex' \in [Exchanges -> Exchange]
      BY <2>2, <2>3
    <3>2. family[k] \in Tokens \cup {None}
      BY <2>3 DEF TypeOK, Exchange
    <3>3. family' \in [Tokens -> Tokens \cup {None}]
      BY <2>3, <3>2 DEF TypeOK
    <3>4. minted' \in 0 .. MaxTokens
      BY <2>1, <2>3 DEF Tokens
    <3>. QED  BY <1>1, <3>1, <3>3, <3>4 DEF Read, TypeOK
  <2>4. CASE ex' = [ex EXCEPT ![x] = reused] /\ UNCHANGED <<minted, family>>
    BY <1>1, <2>2, <2>4 DEF Read, TypeOK
  <2>5. CASE ex' = [ex EXCEPT ![x] = refused] /\ UNCHANGED <<minted, family>>
    BY <1>1, <2>2, <2>5 DEF Read, TypeOK
  <2>. QED  BY <1>1, <2>3, <2>4, <2>5 DEF Read
<1>2. CASE Commit(x)
  <2>1. ex' \in [Exchanges -> Exchange]
    BY <1>2, LeavesTyped DEF Commit
  <2>2. CASE ex[x].verdict = "rotate"
    <3>1. ex[x].sent \in Tokens /\ ex[x].got \in Tokens
      BY <2>2 DEF ExchangeOK, Exchange
    <3>. QED  BY <1>2, <2>1, <2>2, <3>1 DEF Commit, TypeOK
  <2>3. CASE ex[x].verdict = "reuse"
    <3>1. ex[x].sent \in Tokens /\ family[ex[x].sent] \in Tokens \cup {None}
      BY <2>3 DEF ExchangeOK, Exchange, TypeOK
    <3>2. family[ex[x].sent] # None
      BY <2>3 DEF ExchangeOK, TokensOK
    <3>. QED  BY <1>2, <2>1, <2>3, <3>1, <3>2 DEF Commit, TypeOK
  <2>. QED  BY <1>2, <2>2, <2>3 DEF Commit
<1>3. CASE Answer(x)
  <2>1. ex' \in [Exchanges -> Exchange]
    BY <1>3, LeavesTyped DEF Answer
  <2>2. cookie' \in Tokens \cup {None}
    BY <1>3 DEF Answer, CookieOf, TypeOK, Exchange
  <2>3. tab' \in [Tabs -> Tab]
    BY <1>3, SettledTyped DEF Answer, TypeOK
  <2>. QED  BY <1>3, <2>1, <2>2, <2>3 DEF Answer, TypeOK, server
<1>4. CASE AnswerNobody(x)
  <2>1. ex' \in [Exchanges -> Exchange]
    BY <1>4, LeavesTyped DEF AnswerNobody
  <2>2. cookie' \in Tokens \cup {None}
    BY <1>4 DEF AnswerNobody, CookieOf, TypeOK, Exchange
  <2>3. disturbed' \subseteq Tokens
    BY <1>4, LostTyped DEF AnswerNobody, TypeOK
  <2>. QED  BY <1>4, <2>1, <2>2, <2>3 DEF AnswerNobody, TypeOK, server
<1>5. CASE Lose(x)
  <2>1. ex' \in [Exchanges -> Exchange]
    <3>1. Idle \in Exchange /\ [ex[x] EXCEPT !.by = NoTab] \in Exchange
      BY DEF Idle, Exchange, None
    <3>2. CASE ex' \in {[ex EXCEPT ![x] = Idle],
                        [ex EXCEPT ![x] = [ex[x] EXCEPT !.by = NoTab]]}
      BY <3>1, <3>2
    <3>. QED  BY <1>5, <3>2, LeavesTyped DEF Lose
  <2>2. disturbed' \subseteq Tokens
    BY <1>5, LostTyped DEF Lose, TypeOK
  <2>3. tab' \in [Tabs -> Tab]
    BY <1>5, SettledTyped DEF Lose, TypeOK
  <2>4. mishaps' \in 0 .. MaxMishaps
    BY <1>5, SessionRefreshAssumption DEF Lose, Mishap, TypeOK
  <2>. QED  BY <1>5, <2>1, <2>2, <2>3, <2>4 DEF Lose, TypeOK, server
<1>. QED  BY <1>1, <1>2, <1>3, <1>4, <1>5 DEF ExchangeStep

\* The sessions' steps keep the types.
LEMMA SessionTyped ==
    ASSUME TypeOK, TokensOK, SessionStep
    PROVE  TypeOK'
<1>1. ASSUME NEW K \in {live} \cup {{k} : k \in live}, Revoke(K)
      PROVE  TypeOK'
  <2>1. K \subseteq live
    OBVIOUS
  <2>2. {family[k] : k \in K} \subseteq Tokens
    BY <2>1 DEF TypeOK, TokensOK
  <2>3. mishaps' \in 0 .. MaxMishaps
    BY <1>1, SessionRefreshAssumption DEF Revoke, Mishap, TypeOK
  <2>. QED  BY <1>1, <2>1, <2>2, <2>3 DEF Revoke, TypeOK
<1>2. ASSUME NEW f \in Families, Expire(f)
      PROVE  TypeOK'
  <2>1. mishaps' \in 0 .. MaxMishaps
    BY <1>2, SessionRefreshAssumption DEF Expire, Mishap, TypeOK
  <2>. QED  BY <1>2, <2>1 DEF Expire, TypeOK, Families
<1>3. CASE CleanUp
  <2>1. mishaps' \in 0 .. MaxMishaps
    BY <1>3, SessionRefreshAssumption DEF CleanUp, Mishap, TypeOK
  <2>. QED  BY <1>3, <2>1 DEF CleanUp, TypeOK
<1>. QED  BY <1>1, <1>2, <1>3 DEF SessionStep

\* Every step keeps the types.
LEMMA StepTyped ==
    ASSUME TypeOK, Budget, TokensOK, \A x \in Exchanges : ExchangeOK(x),
           [Next]_vars
    PROVE  TypeOK'
<1>1. CASE UNCHANGED vars
  BY <1>1 DEF vars, TypeOK
<1>2. CASE Next
  BY <1>2, TabTyped, ExchangeTyped, SessionTyped DEF Next
<1>. QED  BY <1>1, <1>2

-----------------------------------------------------------------------------
(* What the steps of an exchange do to it.                                 *)

\* Reading decides the verdict and changes nothing else of the exchange.
LEMMA ReadFields ==
    ASSUME TypeOK, NEW x \in Exchanges, Read(x)
    PROVE  /\ \A y \in Exchanges \ {x} : ex'[y] = ex[y]
           /\ ex'[x].by = ex[x].by /\ ex'[x].sent = ex[x].sent
           /\ ex'[x].step = "ready"
           /\ \/ /\ ex[x].sent # None /\ Valid(ex[x].sent)
                 /\ minted' = minted + 1
                 /\ family' = [family EXCEPT ![minted'] = family[ex[x].sent]]
                 /\ ex'[x].verdict = "rotate" /\ ex'[x].got = minted'
                 /\ ex'[x].open
              \/ /\ ex[x].sent # None /\ Known(ex[x].sent) /\ ~Valid(ex[x].sent)
                 /\ ex'[x].verdict = "reuse" /\ ex'[x].got = ex[x].got
                 /\ ex'[x].open
                 /\ UNCHANGED <<minted, family>>
              \/ /\ ex'[x].verdict \in {"missing", "unknown"}
                 /\ ex'[x].got = ex[x].got /\ ex'[x].open = ex[x].open
                 /\ UNCHANGED <<minted, family>>
<1>. ex \in [Exchanges -> Exchange] /\ ex[x] \in Exchange
  BY DEF TypeOK
<1>1. CASE /\ ex[x].sent # None /\ Valid(ex[x].sent) /\ minted' = minted + 1
           /\ family' = [family EXCEPT ![minted'] = family[ex[x].sent]]
           /\ ex' = [ex EXCEPT ![x] = [ex[x] EXCEPT !.step = "ready", !.open = TRUE,
                                      !.verdict = "rotate", !.got = minted']]
  BY <1>1 DEF Exchange
<1>2. CASE /\ ex[x].sent # None /\ Known(ex[x].sent) /\ ~Valid(ex[x].sent)
           /\ ex' = [ex EXCEPT ![x] = [ex[x] EXCEPT !.step = "ready", !.open = TRUE,
                                      !.verdict = "reuse"]]
           /\ UNCHANGED <<minted, family>>
  BY <1>2 DEF Exchange
<1>3. CASE /\ ex' = [ex EXCEPT ![x] = [ex[x] EXCEPT !.step = "ready",
              !.verdict = IF ex[x].sent = None THEN "missing" ELSE "unknown"]]
           /\ UNCHANGED <<minted, family>>
  BY <1>3 DEF Exchange
<1>. QED  BY <1>1, <1>2, <1>3 DEF Read

\* Committing closes the transaction, and ends an exchange already answered.
LEMMA ClosingFields ==
    ASSUME TypeOK, NEW x \in Exchanges, Closing(x)
    PROVE  /\ \A y \in Exchanges \ {x} : ex'[y] = ex[y]
           /\ \/ ex[x].step = "answered" /\ ex'[x] = Idle
              \/ /\ ex[x].step # "answered" /\ ~ex'[x].open
                 /\ ex'[x].by = ex[x].by /\ ex'[x].sent = ex[x].sent
                 /\ ex'[x].step = ex[x].step /\ ex'[x].got = ex[x].got
                 /\ ex'[x].verdict = ex[x].verdict
<1>. ex \in [Exchanges -> Exchange] /\ ex[x] \in Exchange
  BY DEF TypeOK
<1>1. CASE ex[x].step = "answered" /\ ex' = [ex EXCEPT ![x] = Idle]
  BY <1>1
<1>2. CASE /\ ex[x].step # "answered"
           /\ ex' = [ex EXCEPT ![x] = [ex[x] EXCEPT !.open = FALSE]]
  BY <1>2 DEF Exchange
<1>. QED  BY <1>1, <1>2 DEF Closing

\* An answered exchange ends, or waits for its transaction.
LEMMA LeavesFields ==
    ASSUME TypeOK, NEW x \in Exchanges, Leaves(x)
    PROVE  /\ \A y \in Exchanges \ {x} : ex'[y] = ex[y]
           /\ \/ ~ex[x].open /\ ex'[x] = Idle
              \/ /\ ex[x].open /\ ex'[x].open
                 /\ ex'[x].by = NoTab /\ ex'[x].sent = ex[x].sent
                 /\ ex'[x].step = "answered" /\ ex'[x].got = ex[x].got
                 /\ ex'[x].verdict = ex[x].verdict
<1>. ex \in [Exchanges -> Exchange] /\ ex[x] \in Exchange
  BY DEF TypeOK
<1>1. CASE ~ex[x].open /\ ex' = [ex EXCEPT ![x] = Idle]
  BY <1>1
<1>2. CASE /\ ex[x].open
           /\ ex' = [ex EXCEPT ![x] = [ex[x] EXCEPT !.step = "answered", !.by = NoTab]]
  BY <1>2 DEF Exchange
<1>. QED  BY <1>1, <1>2 DEF Leaves

\* A request whose page sees an error is gone, or goes on without its page.
LEMMA OrphanFields ==
    ASSUME TypeOK, NEW x \in Exchanges,
           ex' \in {[ex EXCEPT ![x] = Idle],
                   [ex EXCEPT ![x] = [@ EXCEPT !.by = NoTab]]}
    PROVE  /\ \A y \in Exchanges \ {x} : ex'[y] = ex[y]
           /\ \/ ex'[x] = Idle
              \/ /\ ex'[x].by = NoTab /\ ex'[x].sent = ex[x].sent
                 /\ ex'[x].step = ex[x].step /\ ex'[x].got = ex[x].got
                 /\ ex'[x].verdict = ex[x].verdict /\ ex'[x].open = ex[x].open
<1>. ex \in [Exchanges -> Exchange] /\ ex[x] \in Exchange
  BY DEF TypeOK
<1>1. CASE ex' = [ex EXCEPT ![x] = Idle]
  BY <1>1
<1>2. CASE ex' = [ex EXCEPT ![x] = [ex[x] EXCEPT !.by = NoTab]]
  BY <1>2 DEF Exchange
<1>. QED  BY <1>1, <1>2

-----------------------------------------------------------------------------
(* One exchange per page.                                                  *)

\* The part of OneExchangePerPage that is about page t.
PageOK(t) ==
    /\ \A x, y \in Own(t) : x = y
    /\ tab[t].promise = "pending" <=> Own(t) # {}
    /\ tab[t].page = "restoring" \/ "call" \in tab[t].wants
          => tab[t].promise = "pending"
    /\ tab[t].page = "closed" => tab[t] = Closed

\* What one page does, and who owns the exchanges, is all that matters.
LEMMA PageFrame ==
    ASSUME NEW t \in Tabs, PageOK(t), tab'[t] = tab[t], Own(t)' = Own(t)
    PROVE  PageOK(t)'
  BY DEF PageOK

\* An exchange that starts belongs to the page that starts it.
LEMMA BeginOwned ==
    ASSUME TypeOK, \A x \in Exchanges : ExchangeOK(x),
           NEW t \in Tabs, NEW exs \in [Exchanges -> Exchange], Begin(t, exs),
           \A x \in Exchanges : exs[x].by # t /\ (ex[x].by # t => exs[x] = ex[x])
    PROVE  /\ \A x, y \in Own(t)' : x = y
           /\ Own(t)' # {}
           /\ \A u \in Tabs \ {t} : \A x \in Exchanges :
                 ex'[x].by = u <=> exs[x].by = u
<1>1. PICK x \in Exchanges \ Busy :
        ex' = [exs EXCEPT ![x] = [Idle EXCEPT !.by = t, !.step = "sent",
                                              !.sent = cookie]]
  BY DEF Begin
<1>2. ex'[x].by = t
  BY <1>1 DEF Idle
<1>3. \A y \in Exchanges \ {x} : ex'[y] = exs[y]
  BY <1>1
<1>4. ex[x].by = NoTab /\ NoTab \notin Tabs
  BY <1>1, SessionRefreshAssumption DEF Busy, ExchangeOK
<1>5. exs[x] = ex[x]
  BY <1>4
<1>. QED  BY <1>2, <1>3, <1>4, <1>5 DEF Own

\* Detaching a page changes its exchanges only.
LEMMA DetachedOwners ==
    ASSUME TypeOK, NEW t \in Tabs, NEW x \in Exchanges
    PROVE  /\ Detached(t)[x].by # t
           /\ ex[x].by # t => Detached(t)[x] = ex[x]
           /\ \A u \in Tabs \ {t} : Detached(t)[x].by = u <=> ex[x].by = u
<1>1. Detached(t)[x] = IF ex[x].by = t THEN [ex[x] EXCEPT !.by = NoTab]
                                       ELSE ex[x]
  BY DEF Detached
<1>2. [ex[x] EXCEPT !.by = NoTab].by = NoTab
  BY DEF TypeOK, Exchange
<1>3. NoTab \notin Tabs
  BY SessionRefreshAssumption
<1>. QED  BY <1>1, <1>2, <1>3

\* Joining an exchange leaves every page with its own.
LEMMA JoinPages ==
    ASSUME TypeOK, OneExchangePerPage, \A x \in Exchanges : ExchangeOK(x),
           NEW t \in Tabs, NEW why \in {"call", "logout"}, Join(t, why),
           tab[t].page # "closed"
    PROVE  \A u \in Tabs : PageOK(u)'
<1>. tab \in [Tabs -> Tab] /\ tab[t] \in Tab /\ ex \in [Exchanges -> Exchange]
  BY DEF TypeOK
<1>. \A u \in Tabs : PageOK(u)
  BY DEF OneExchangePerPage, PageOK
<1>1. tab' = [tab EXCEPT ![t] = Waits(tab[t], why)]
  BY DEF Join
<1>2. tab'[t].promise = "pending" /\ tab'[t].page # "closed"
  BY <1>1 DEF Waits, Tab
<1>3. CASE tab[t].promise = "none" /\ Begin(t, ex)
  <2>1. Own(t) = {}
    BY <1>3 DEF PageOK
  <2>2. \A x \in Exchanges : ex[x].by # t
    BY <2>1 DEF Own
  <2>3. /\ \A x, y \in Own(t)' : x = y
        /\ Own(t)' # {}
        /\ \A u \in Tabs \ {t} : \A x \in Exchanges : ex'[x].by = u <=> ex[x].by = u
    BY <1>3, <2>2, BeginOwned
  <2>4. PageOK(t)'
    BY <1>2, <2>3 DEF PageOK
  <2>5. ASSUME NEW u \in Tabs \ {t} PROVE PageOK(u)'
    <3>1. Own(u)' = Own(u)
      BY <2>3 DEF Own
    <3>. QED  BY <1>1, <3>1, PageFrame
  <2>. QED  BY <2>4, <2>5
<1>4. CASE tab[t].promise = "pending" /\ UNCHANGED <<ex, disturbed>>
  <2>1. \A u \in Tabs : Own(u)' = Own(u)
    BY <1>4 DEF Own
  <2>2. PageOK(t)'
    BY <1>2, <1>4, <2>1 DEF PageOK
  <2>3. \A u \in Tabs \ {t} : PageOK(u)'
    BY <1>1, <2>1, PageFrame
  <2>. QED  BY <2>2, <2>3
<1>. QED  BY <1>3, <1>4 DEF Join

\* The pages' steps leave every page with its own exchange.
LEMMA TabPages ==
    ASSUME TypeOK, OneExchangePerPage, \A x \in Exchanges : ExchangeOK(x),
           NEW t \in Tabs, TabStep(t)
    PROVE  \A u \in Tabs : PageOK(u)'
<1>. tab \in [Tabs -> Tab] /\ tab[t] \in Tab /\ ex \in [Exchanges -> Exchange]
  BY DEF TypeOK
<1>. \A u \in Tabs : PageOK(u)
  BY DEF OneExchangePerPage, PageOK
<1>. tab[t].page = "closed" => tab[t].promise = "none" /\ tab[t].oldCall = FALSE
        /\ tab[t].access = "none" /\ tab[t].wants = {}
  BY DEF PageOK, Closed
<1>0. ASSUME UNCHANGED ex, NEW r, tab' = [tab EXCEPT ![t] = r],
             r.promise = "pending" <=> tab[t].promise = "pending",
             r.page = "restoring" \/ "call" \in r.wants => r.promise = "pending",
             r.page # "closed"
      PROVE  \A u \in Tabs : PageOK(u)'
  <2>1. \A u \in Tabs : Own(u)' = Own(u)
    BY <1>0 DEF Own
  <2>2. tab'[t] = r
    BY <1>0
  <2>3. PageOK(t)'
    BY <1>0, <2>1, <2>2 DEF PageOK
  <2>4. \A u \in Tabs \ {t} : PageOK(u)'
    BY <1>0, <2>1, PageFrame
  <2>. QED  BY <2>3, <2>4
<1>1. CASE Load(t)
  <2>1. \A x \in Exchanges : Detached(t)[x].by # t
             /\ (ex[x].by # t => Detached(t)[x] = ex[x])
    BY DetachedOwners
  <2>2. Begin(t, Detached(t)) /\ Detached(t) \in [Exchanges -> Exchange]
    BY <1>1, DetachedTyped DEF Load
  <2>3. /\ \A x, y \in Own(t)' : x = y
        /\ Own(t)' # {}
        /\ \A u \in Tabs \ {t} : \A x \in Exchanges :
              ex'[x].by = u <=> Detached(t)[x].by = u
    BY <2>1, <2>2, BeginOwned
  <2>4. tab' = [tab EXCEPT ![t] = Restoring] /\ Restoring.promise = "pending"
        /\ Restoring.page = "restoring"
    BY <1>1 DEF Load, Restoring, Closed
  <2>5. PageOK(t)'
    BY <2>3, <2>4 DEF PageOK
  <2>6. ASSUME NEW u \in Tabs \ {t} PROVE PageOK(u)'
    <3>1. Own(u)' = Own(u)
      BY <2>3, DetachedOwners DEF Own
    <3>. QED  BY <2>4, <3>1, PageFrame
  <2>. QED  BY <2>5, <2>6
<1>2. CASE LoadLogin(t)
  <2>1. tab[t].promise # "pending"
    BY <1>2 DEF LoadLogin, PageOK
  <2>2. AtLogin.promise = "none" /\ AtLogin.page = "login" /\ AtLogin.wants = {}
    BY DEF AtLogin, Closed
  <2>. QED  BY <1>0, <1>2, <2>1, <2>2 DEF LoadLogin
<1>3. CASE Close(t)
  <2>1. tab' = [tab EXCEPT ![t] = Closed] /\ ex' = Detached(t)
    BY <1>3 DEF Close
  <2>2. Own(t)' = {}
    BY <2>1, DetachedOwners DEF Own
  <2>3. PageOK(t)'
    BY <2>1, <2>2 DEF PageOK, Closed
  <2>4. ASSUME NEW u \in Tabs \ {t} PROVE PageOK(u)'
    <3>1. Own(u)' = Own(u)
      BY <2>1, DetachedOwners DEF Own
    <3>. QED  BY <2>1, <3>1, PageFrame
  <2>. QED  BY <2>3, <2>4
<1>4. CASE Login(t)
  <2>. DEFINE r == [[tab[t] EXCEPT !.page = "app"] EXCEPT !.access = "good"]
  <2>1. tab' = [tab EXCEPT ![t] = r] /\ UNCHANGED ex
    BY <1>4 DEF Login, Tab
  <2>2. r.promise = tab[t].promise /\ r.page = "app" /\ r.wants = tab[t].wants
    BY DEF Tab
  <2>. QED  BY <1>0, <2>1, <2>2 DEF PageOK
<1>5. CASE AccessExpires(t)
  <2>. DEFINE r == [tab[t] EXCEPT !.access = "old"]
  <2>1. tab' = [tab EXCEPT ![t] = r] /\ UNCHANGED ex
    BY <1>5 DEF AccessExpires, Tab
  <2>2. r.promise = tab[t].promise /\ r.page = tab[t].page /\ r.wants = tab[t].wants
    BY DEF Tab
  <2>. QED  BY <1>0, <1>5, <2>1, <2>2 DEF PageOK, AccessExpires
<1>6. CASE EndGrace(t)
  <2>. DEFINE r == [tab[t] EXCEPT !.promise = "none"]
  <2>1. tab' = [tab EXCEPT ![t] = r] /\ UNCHANGED ex /\ tab[t].promise # "pending"
    BY <1>6 DEF EndGrace, Tab
  <2>2. r.promise = "none" /\ r.page = tab[t].page /\ r.wants = tab[t].wants
    BY DEF Tab
  <2>. QED  BY <1>0, <1>6, <2>1, <2>2 DEF PageOK, EndGrace
<1>7. CASE Call(t)
  <2>. DEFINE r == [tab[t] EXCEPT !.oldCall = TRUE]
  <2>1. tab' = [tab EXCEPT ![t] = r] /\ UNCHANGED ex
    BY <1>7 DEF Call, Tab
  <2>2. r.promise = tab[t].promise /\ r.page = tab[t].page /\ r.wants = tab[t].wants
    BY DEF Tab
  <2>. QED  BY <1>0, <1>7, <2>1, <2>2 DEF PageOK, Call
<1>8. CASE CallRejected(t)
  <2>1. CASE KeptPromise(t)
    <3>. DEFINE q == [tab[t] EXCEPT !.oldCall = FALSE]
                r == IF q.promise = "token" THEN q ELSE Failed(q)
    <3>1. tab' = [tab EXCEPT ![t] = r] /\ UNCHANGED ex
      BY <2>1 DEF KeptPromise
    <3>2. tab[t].promise \in {"token", "null"}
      BY <2>1 DEF KeptPromise
    <3>3. q.promise = tab[t].promise /\ q.page = tab[t].page /\ q.wants = tab[t].wants
      BY DEF Tab
    <3>4. Failed(q).promise \in {"none", "null"} /\ Failed(q).page = "login"
          /\ Failed(q).wants = {}
      <4>1. q \in Tab
        BY DEF Tab
      <4>. HIDE DEF q
      <4>. QED  BY <4>1 DEF Failed, AtLogin, Closed, Tab
    <3>. HIDE DEF q
    <3>. QED  BY <1>0, <1>8, <3>1, <3>2, <3>3, <3>4 DEF PageOK, CallRejected
  <2>. QED  BY <1>8, <2>1, JoinPages DEF CallRejected
<1>9. CASE Logout(t)
  <2>1. CASE tab' = [tab EXCEPT ![t].wants = @ \cup {"logout"}]
             /\ UNCHANGED <<disturbed, ex>>
    <3>. DEFINE r == [tab[t] EXCEPT !.wants = tab[t].wants \cup {"logout"}]
    <3>1. tab' = [tab EXCEPT ![t] = r] /\ UNCHANGED ex
      BY <2>1 DEF Tab
    <3>2. r.promise = tab[t].promise /\ r.page = tab[t].page
          /\ r.wants = tab[t].wants \cup {"logout"}
      BY DEF Tab
    <3>. QED  BY <1>0, <1>9, <3>1, <3>2 DEF PageOK, Logout
  <2>. QED  BY <1>9, <2>1, JoinPages DEF Logout
<1>10. CASE LogoutAnswered(t) \/ LogoutLost(t)
  <2>. DEFINE r == [[[tab[t] EXCEPT !.page = "login"] EXCEPT !.access = "none"]
                       EXCEPT !.wants = {}]
  <2>1. tab' = [tab EXCEPT ![t] = r] /\ UNCHANGED ex
    BY <1>10 DEF LogoutAnswered, LogoutLost, LoggedOut, Tab
  <2>2. r.promise = tab[t].promise /\ r.page = "login" /\ r.wants = {}
    BY DEF Tab
  <2>. QED  BY <1>0, <2>1, <2>2
<1>. QED  BY <1>1, <1>2, <1>3, <1>4, <1>5, <1>6, <1>7, <1>8, <1>9, <1>10
          DEF TabStep

\* A page whose promise settles does not wait for a call any more.
LEMMA SettledPages ==
    ASSUME NEW r \in Tab, r.page # "closed", NEW q \in {Failed(r), Renewed(r)}
    PROVE  /\ q.promise # "pending" /\ q.page \notin {"restoring", "closed"}
           /\ "call" \notin q.wants
<1>1. CASE q = Failed(r)
  BY <1>1 DEF Failed, AtLogin, Closed, Tab
<1>2. CASE q = Renewed(r)
  BY <1>2 DEF Renewed, Tab
<1>. QED  BY <1>1, <1>2

\* An exchange that changes without changing hands leaves the pages as they are.
LEMMA ExchangePages ==
    ASSUME TypeOK, OneExchangePerPage, \A x \in Exchanges : ExchangeOK(x),
           NEW x \in Exchanges, ExchangeStep(x)
    PROVE  \A u \in Tabs : PageOK(u)'
<1>. tab \in [Tabs -> Tab] /\ ex \in [Exchanges -> Exchange] /\ ex[x] \in Exchange
  BY DEF TypeOK
<1>. \A u \in Tabs : PageOK(u)
  BY DEF OneExchangePerPage, PageOK
<1>. NoTab \notin Tabs
  BY SessionRefreshAssumption
<1>1. \A y \in Exchanges \ {x} : ex'[y] = ex[y]
  BY ReadFields, ClosingFields, LeavesFields, OrphanFields
     DEF ExchangeStep, Commit, Answer, AnswerNobody, Lose
<1>2. ASSUME UNCHANGED tab, ex'[x].by = ex[x].by
      PROVE  \A u \in Tabs : PageOK(u)'
  <2>1. \A u \in Tabs : Own(u)' = Own(u)
    BY <1>1, <1>2 DEF Own
  <2>. QED  BY <1>2, <2>1, PageFrame
<1>3. ASSUME NEW t \in Tabs, ex[x].by = t, ex'[x].by = NoTab,
             NEW r \in {Failed(tab[t]), Renewed(tab[t])},
             tab' = [tab EXCEPT ![t] = r]
      PROVE  \A u \in Tabs : PageOK(u)'
  <2>1. Own(t)' = {}
    BY <1>1, <1>3 DEF Own, PageOK
  <2>2. tab[t].page # "closed"
    BY <1>3 DEF PageOK, Closed, Own
  <2>3. /\ r.promise # "pending" /\ r.page \notin {"restoring", "closed"}
        /\ "call" \notin r.wants
    BY <1>3, <2>2, SettledPages
  <2>4. tab'[t] = r
    BY <1>3
  <2>5. PageOK(t)'
    BY <2>1, <2>3, <2>4 DEF PageOK
  <2>6. ASSUME NEW u \in Tabs \ {t} PROVE PageOK(u)'
    <3>1. Own(u)' = Own(u)
      BY <1>1, <1>3 DEF Own
    <3>. QED  BY <1>3, <3>1, PageFrame
  <2>. QED  BY <2>5, <2>6
<1>4. CASE Read(x)
  <2>1. UNCHANGED tab /\ ex'[x].by = ex[x].by
    BY <1>4, ReadFields DEF Read
  <2>. QED  BY <1>2, <2>1
<1>5. CASE Commit(x)
  <2>1. UNCHANGED tab /\ ex'[x].by = ex[x].by
    BY <1>5, ClosingFields DEF Commit, ExchangeOK, Idle
  <2>. QED  BY <1>2, <2>1
<1>6. CASE Answer(x)
  <2>1. ex'[x].by = NoTab
    BY <1>6, LeavesFields DEF Answer, Idle
  <2>. QED  BY <1>3, <1>6, <2>1 DEF Answer
<1>7. CASE AnswerNobody(x)
  <2>1. UNCHANGED tab /\ ex'[x].by = ex[x].by
    BY <1>7, LeavesFields DEF AnswerNobody, Idle
  <2>. QED  BY <1>2, <2>1
<1>8. CASE Lose(x)
  <2>1. ex'[x].by = NoTab
    BY <1>8, LeavesFields, OrphanFields DEF Lose, Idle
  <2>. QED  BY <1>3, <1>8, <2>1 DEF Lose
<1>. QED  BY <1>4, <1>5, <1>6, <1>7, <1>8 DEF ExchangeStep

\* Every step leaves every page with its own exchange.
LEMMA StepPages ==
    ASSUME TypeOK, OneExchangePerPage, \A x \in Exchanges : ExchangeOK(x),
           [Next]_vars
    PROVE  OneExchangePerPage'
<1>. \A u \in Tabs : PageOK(u)
  BY DEF OneExchangePerPage, PageOK
<1>. SUFFICES \A u \in Tabs : PageOK(u)'
  BY DEF OneExchangePerPage, PageOK
<1>1. ASSUME UNCHANGED <<tab, ex>> PROVE \A u \in Tabs : PageOK(u)'
  <2>1. \A u \in Tabs : Own(u)' = Own(u)
    BY <1>1 DEF Own
  <2>. QED  BY <1>1, <2>1, PageFrame
<1>2. CASE UNCHANGED vars \/ SessionStep
  <2>1. UNCHANGED <<tab, ex>>
    BY <1>2 DEF vars, SessionStep, Revoke, Expire, CleanUp
  <2>. QED  BY <1>1, <2>1
<1>3. ASSUME NEW t \in Tabs, TabStep(t) PROVE \A u \in Tabs : PageOK(u)'
  BY <1>3, TabPages
<1>. QED  BY <1>2, <1>3, ExchangePages DEF Next

-----------------------------------------------------------------------------
(* Exchanges and tokens: the steps of the pages.                           *)

\* All that Core says of an exchange but its owner.
Same(x) ==
    /\ ex'[x].step = ex[x].step /\ ex'[x].sent = ex[x].sent
    /\ ex'[x].verdict = ex[x].verdict /\ ex'[x].got = ex[x].got
    /\ ex'[x].open = ex[x].open
    /\ ex'[x].by \in {ex[x].by, NoTab}

\* Nothing happens to the tokens; the cookie is kept or deleted.
LEMMA CookieCore ==
    ASSUME TypeOK, Core, \A x \in Exchanges : Same(x),
           UNCHANGED <<minted, family, live, dead, expired, alarms, ended, disturbed>>,
           cookie' \in {cookie, None}
    PROVE  Core'
<1>1. Busy' = Busy /\ Unread' = Unread
  BY DEF Busy, Unread, Same
<1>2. Budget'
  BY <1>1 DEF Core, Budget
<1>3. ASSUME NEW x \in Exchanges PROVE ExchangeOK(x)'
  BY DEF Core, ExchangeOK, Same
<1>4. TokensOK'
  BY DEF Core, TokensOK, Same
<1>5. LiveIsNewest'
  BY DEF Core, LiveIsNewest
<1>6. OneExchange'
  BY <1>1 DEF Core, OneExchange, Same, FamilyOf, Busy
<1>7. ASSUME NEW x \in Busy' PROVE UnderWay(x)'
  BY <1>1 DEF Core, UnderWay, Top, Same, Busy
<1>8. CookieIsNewest'
  BY <1>1 DEF Core, CookieIsNewest, Same, FamilyOf, Busy
<1>9. Alarms'
  BY DEF Core, Alarms, NoFalseAlarm, Blamed, Same
<1>. QED  BY <1>2, <1>3, <1>4, <1>5, <1>6, <1>7, <1>8, <1>9 DEF Core

\* An exchange starts: its family is disturbed if another one is under way
\* in it, and otherwise the cookie it sends is the newest of the family.
LEMMA BeginCore ==
    ASSUME TypeOK, Core, NEW t \in Tabs, NEW exs \in [Exchanges -> Exchange],
           Begin(t, exs), UNCHANGED <<server, cookie>>,
           \A x \in Exchanges :
              /\ exs[x].step = ex[x].step /\ exs[x].sent = ex[x].sent
              /\ exs[x].verdict = ex[x].verdict /\ exs[x].got = ex[x].got
              /\ exs[x].open = ex[x].open
              /\ exs[x].by \in {ex[x].by, NoTab}
    PROVE  Core'
<1>. UNCHANGED <<minted, family, live, dead, expired, alarms, ended, cookie>>
  BY DEF server
<1>1. PICK x \in Exchanges \ Busy :
        ex' = [exs EXCEPT ![x] = [Idle EXCEPT !.by = t, !.step = "sent",
                                              !.sent = cookie]]
  BY DEF Begin
<1>2. /\ ex'[x].by = t /\ ex'[x].step = "sent" /\ ex'[x].sent = cookie
      /\ ex'[x].verdict = "none" /\ ex'[x].got = None /\ ex'[x].open = FALSE
  BY <1>1 DEF Idle
<1>3. \A y \in Exchanges \ {x} : Same(y)
  BY <1>1 DEF Same
<1>4. Busy' = Busy \cup {x} /\ Unread' = Unread \cup {x}
  BY <1>2, <1>3 DEF Busy, Unread, Same
<1>5. x \notin Unread /\ Unread \subseteq Exchanges
  BY <1>1 DEF Busy, Unread
<1>6. disturbed \subseteq disturbed'
  BY DEF Begin
<1>7. ASSUME cookie # None, family[cookie] \notin disturbed'
      PROVE  \A y \in Busy : FamilyOf(ex[y].sent) # family[cookie]
  <2>1. family[cookie] \in Families /\ FamilyOf(cookie) = family[cookie]
    BY <1>7 DEF TypeOK, Core, TokensOK, Families, FamilyOf
  <2>. QED  BY <1>7, <2>1 DEF Begin
<1>8. Budget'
  <2>1. Cardinality(Unread') = Cardinality(Unread) + 1 /\ Cardinality(Unread) \in Nat
    BY <1>4, <1>5, <1>1, UnreadCounted
  <2>. QED  BY <2>1, SessionRefreshAssumption DEF Begin, Room, Budget, TypeOK
<1>9. ASSUME NEW y \in Exchanges PROVE ExchangeOK(y)'
  <2>1. CASE y = x
    BY <1>2, <2>1 DEF ExchangeOK
  <2>2. CASE y # x
    BY <1>3, <2>2 DEF Core, ExchangeOK, Same
  <2>. QED  BY <2>1, <2>2
<1>10. TokensOK'
  BY <1>2, <1>3 DEF Core, TokensOK, Same
<1>11. LiveIsNewest'
  BY <1>6 DEF Core, LiveIsNewest
<1>12. OneExchange'
  <2>1. ASSUME NEW y \in Busy', NEW z \in Busy', ex'[y].sent # None,
               family[ex'[y].sent] \notin disturbed',
               FamilyOf(ex'[z].sent) = family[ex'[y].sent]
        PROVE  y = z
    <3>1. CASE y = x /\ z # x
      BY <1>2, <1>3, <1>4, <1>7, <2>1, <3>1 DEF Same, Busy
    <3>2. CASE y # x /\ z = x
      <4>1. cookie # None /\ family[cookie] = family[ex'[y].sent]
        <5>1. ex'[y].sent \in Tokens /\ family[ex'[y].sent] # None
          BY <1>3, <2>1, <3>2 DEF Busy, Same, Core, TokensOK, TypeOK, Exchange
        <5>. QED  BY <1>2, <2>1, <3>2, <5>1 DEF FamilyOf
      <4>2. FamilyOf(ex[y].sent) = family[cookie]
        BY <1>3, <2>1, <3>2, <4>1 DEF FamilyOf, Same, Busy
      <4>. QED  BY <1>4, <1>7, <2>1, <3>2, <4>1, <4>2
    <3>3. CASE y # x /\ z # x
      BY <1>3, <1>4, <1>6, <2>1, <3>3 DEF Core, OneExchange, Same, Busy
    <3>. QED  BY <3>1, <3>2, <3>3
  <2>. QED  BY <2>1 DEF OneExchange, FamilyOf
<1>13. ASSUME NEW y \in Busy' PROVE UnderWay(y)'
  <2>1. CASE y = x
    BY <1>2, <1>6, <1>7, <2>1 DEF UnderWay, Top, Core, CookieIsNewest
  <2>2. CASE y # x
    BY <1>3, <1>4, <1>6, <2>2 DEF Core, UnderWay, Top, Same, Busy
  <2>. QED  BY <2>1, <2>2
<1>14. CookieIsNewest'
  BY <1>7, <1>6 DEF Core, CookieIsNewest
<1>15. Alarms'
  <2>1. \A y \in Exchanges : ex'[y].verdict = "reuse" =>
           ex[y].verdict = "reuse" /\ ex'[y].sent = ex[y].sent
    BY <1>2, <1>3 DEF Same
  <2>. QED  BY <1>6, <2>1 DEF Core, Alarms, NoFalseAlarm, Blamed
<1>. QED  BY <1>8, <1>9, <1>10, <1>11, <1>12, <1>13, <1>14, <1>15 DEF Core

\* A login starts a family of its own.
LEMMA LoginCore ==
    ASSUME TypeOK, Core, NEW t \in Tabs, Login(t)
    PROVE  Core'
<1>. DEFINE m == minted + 1
<1>1. m \in Tokens /\ minted' = m /\ minted \in Nat
  BY RoomLeft DEF Login, TypeOK
<1>2. /\ family'[m] = m /\ live' = live \cup {m} /\ cookie' = m
      /\ \A k \in Tokens \ {m} : family'[k] = family[k]
      /\ UNCHANGED <<dead, expired, alarms, ended, disturbed, ex>>
  BY <1>1 DEF Login, TypeOK
<1>3. \A k \in Tokens : family[k] # None => k # m /\ family[k] # m /\ k < m
                                            /\ family'[k] = family[k]
  BY <1>1, <1>2 DEF Core, TokensOK, TypeOK, Tokens
<1>4. \A k \in live \cup dead : k \in Tokens /\ k # m /\ family[k] # m /\ k < m
                                   /\ family'[k] = family[k]
  BY <1>3 DEF Core, TokensOK, TypeOK
<1>5. \A x \in Exchanges :
        /\ ex[x].sent \in Tokens \cup {None} /\ ex[x].got \in Tokens \cup {None}
        /\ ex[x].sent # None => family'[ex[x].sent] = family[ex[x].sent]
                                /\ family[ex[x].sent] # m
        /\ ex[x].got # None => family'[ex[x].got] = family[ex[x].got]
  BY <1>3 DEF Core, TokensOK, TypeOK, Exchange
<1>. HIDE DEF m
<1>6. Budget'
  <2>1. Unread' = Unread /\ Unread \subseteq Exchanges
    BY <1>2 DEF Unread
  <2>2. Cardinality(Unread) \in Nat
    BY <2>1, UnreadCounted
  <2>. QED  BY <1>1, <2>1, <2>2, SessionRefreshAssumption DEF Login, Room, Budget, TypeOK, m
<1>7. ASSUME NEW x \in Exchanges PROVE ExchangeOK(x)'
  BY <1>2, <1>5 DEF Core, ExchangeOK
<1>8. TokensOK'
  <2>1. ASSUME NEW k \in Tokens, family'[k] # None
        PROVE  k <= minted' /\ family'[k] <= k
    BY <1>1, <1>2, <2>1 DEF Core, TokensOK, Tokens, TypeOK, m
  <2>2. \A k \in live' \cup dead' : family'[k] # None
    BY <1>1, <1>2, <1>4 DEF Core, TokensOK, Tokens, None
  <2>3. cookie' # None => family'[cookie'] # None
    BY <1>2
  <2>4. \A x \in Exchanges :
         /\ ex'[x].sent # None => family'[ex'[x].sent] # None
         /\ ex'[x].got # None => family'[ex'[x].got] # None
    BY <1>2, <1>5 DEF Core, TokensOK
  <2>. QED  BY <2>1, <2>2, <2>3, <2>4 DEF TokensOK
<1>9. LiveIsNewest'
  <2>1. ASSUME NEW f \in Families \ disturbed', NEW k \in live',
               NEW j \in live' \cup dead', family'[k] = f, family'[j] = f
        PROVE  j <= k
    BY <1>1, <1>2, <1>4, <2>1 DEF Core, LiveIsNewest, Tokens
  <2>. QED  BY <2>1 DEF LiveIsNewest
<1>10. OneExchange'
  BY <1>2, <1>5 DEF Core, OneExchange, FamilyOf, Busy
<1>11. ASSUME NEW x \in Busy' PROVE UnderWay(x)'
  <2>1. x \in Busy /\ x \in Exchanges
    BY <1>2 DEF Busy
  <2>. QED  BY <1>2, <1>4, <1>5, <2>1 DEF Core, UnderWay, Top
<1>12. CookieIsNewest'
  BY <1>1, <1>2, <1>4 DEF CookieIsNewest, Tokens
<1>13. Alarms'
  <2>1. Blamed' = Blamed /\ NoFalseAlarm'
    BY <1>2 DEF Core, Alarms, NoFalseAlarm, Blamed
  <2>2. \A x \in Exchanges : ex'[x].verdict = "reuse" =>
            family'[ex'[x].sent] \in Blamed'
    BY <1>2, <1>5, <2>1 DEF Core, Alarms, ExchangeOK
  <2>3. \A k \in dead' : family'[k] \notin Blamed' =>
            \E j \in live' : family'[j] = family'[k] /\ k < j
    BY <1>2, <1>4, <2>1 DEF Core, Alarms
  <2>. QED  BY <2>1, <2>2, <2>3 DEF Alarms
<1>. QED  BY <1>6, <1>7, <1>8, <1>9, <1>10, <1>11, <1>12, <1>13 DEF Core

\* The pages' steps leave exchanges and tokens in order.
LEMMA TabCore ==
    ASSUME TypeOK, Core, NEW t \in Tabs, TabStep(t)
    PROVE  Core'
<1>. ex \in [Exchanges -> Exchange]
  BY DEF TypeOK
<1>1. ASSUME UNCHANGED <<server, disturbed, ex>>, cookie' \in {cookie, None}
      PROVE  Core'
  <2>1. \A x \in Exchanges : Same(x)
    BY <1>1 DEF Same
  <2>. QED  BY <1>1, <2>1, CookieCore DEF server
<1>2. \A x \in Exchanges :
        /\ Detached(t)[x].step = ex[x].step /\ Detached(t)[x].sent = ex[x].sent
        /\ Detached(t)[x].verdict = ex[x].verdict /\ Detached(t)[x].got = ex[x].got
        /\ Detached(t)[x].open = ex[x].open
        /\ Detached(t)[x].by \in {ex[x].by, NoTab}
  <2>1. ASSUME NEW x \in Exchanges
        PROVE  Detached(t)[x] \in {ex[x], [ex[x] EXCEPT !.by = NoTab]}
    BY DEF Detached
  <2>2. ASSUME NEW x \in Exchanges
        PROVE  LET e == [ex[x] EXCEPT !.by = NoTab] IN
               /\ e.step = ex[x].step /\ e.sent = ex[x].sent
               /\ e.verdict = ex[x].verdict /\ e.got = ex[x].got
               /\ e.open = ex[x].open /\ e.by = NoTab
    BY DEF Exchange
  <2>. QED  BY <2>1, <2>2
<1>3. CASE Load(t)
  <2>1. Begin(t, Detached(t)) /\ Detached(t) \in [Exchanges -> Exchange]
        /\ UNCHANGED <<server, cookie>>
    BY <1>3, DetachedTyped DEF Load
  <2>. QED  BY <1>2, <2>1, BeginCore
<1>4. CASE Close(t)
  <2>1. \A x \in Exchanges : Same(x)
    BY <1>2, <1>4 DEF Close, Same
  <2>. QED  BY <1>4, <2>1, CookieCore DEF Close, server
<1>5. ASSUME NEW why, Join(t, why), UNCHANGED <<server, cookie>>
      PROVE  Core'
  BY <1>1, <1>5, BeginCore DEF Join
<1>6. CASE LoadLogin(t) \/ AccessExpires(t) \/ EndGrace(t) \/ Call(t)
           \/ LogoutAnswered(t) \/ LogoutLost(t)
  BY <1>1, <1>6 DEF LoadLogin, AccessExpires, EndGrace, Call, LogoutAnswered, LogoutLost
<1>7. CASE CallRejected(t)
  BY <1>1, <1>5, <1>7 DEF CallRejected, KeptPromise
<1>8. CASE Logout(t)
  BY <1>1, <1>5, <1>8 DEF Logout
<1>. QED  BY <1>3, <1>4, <1>6, <1>7, <1>8, LoginCore DEF TabStep

-----------------------------------------------------------------------------
(* Exchanges and tokens: the steps of the server.                          *)

\* The server reads a token: the newest of its family, unless disturbed.
LEMMA ReadCore ==
    ASSUME TypeOK, Core, NEW x \in Exchanges, Read(x)
    PROVE  Core'
<1>. DEFINE s == ex[x].sent
            m == minted + 1
<1>. ex \in [Exchanges -> Exchange] /\ ex[x] \in Exchange
  BY DEF TypeOK
<1>0. /\ ex[x].step = "sent" /\ x \in Busy /\ x \in Unread /\ ~ex[x].open
      /\ ex[x].verdict = "none"
  BY DEF Read, Busy, Unread, Core, ExchangeOK
<1>1. UNCHANGED <<live, dead, expired, alarms, ended, disturbed, cookie>>
  BY DEF Read
<1>2. /\ \A y \in Exchanges \ {x} : ex'[y] = ex[y]
      /\ ex'[x].by = ex[x].by /\ ex'[x].sent = s /\ ex'[x].step = "ready"
  BY ReadFields
<1>3. m \in Tokens /\ minted \in Nat
  BY <1>0, TokenLeft DEF Core, TypeOK
<1>4. \A k \in Tokens : family[k] # None => k # m /\ family'[k] = family[k]
  <2>1. \A k \in Tokens : family[k] # None => k <= minted
    BY DEF Core, TokensOK
  <2>2. UNCHANGED family \/ family' = [family EXCEPT ![m] = family[s]]
    BY ReadFields
  <2>3. \A k \in Tokens : family[k] # None => k # m
    BY <1>3, <2>1 DEF Tokens
  <2>4. family \in [Tokens -> Tokens \cup {None}]
    BY DEF TypeOK
  <2>. HIDE DEF m
  <2>. QED  BY <2>2, <2>3, <2>4
<1>5. \A k \in live \cup dead : k \in Tokens /\ k # m /\ family'[k] = family[k]
  BY <1>4 DEF Core, TokensOK, TypeOK
<1>6. \A y \in Exchanges :
        /\ ex[y].sent \in Tokens \cup {None} /\ ex[y].got \in Tokens \cup {None}
        /\ ex[y].sent # None => family'[ex[y].sent] = family[ex[y].sent]
                                /\ ex[y].sent # m
        /\ ex[y].got # None => family'[ex[y].got] = family[ex[y].got]
  BY <1>4 DEF Core, TokensOK, TypeOK, Exchange
<1>7. cookie # None => family'[cookie] = family[cookie] /\ cookie # m
  BY <1>4 DEF Core, TokensOK, TypeOK
<1>8. Busy' = Busy /\ Unread' = Unread \ {x}
  BY <1>0, <1>2 DEF Busy, Unread
<1>. HIDE DEF s, m
<1>9. Budget'
  <2>1. /\ Cardinality(Unread') = Cardinality(Unread) - 1
        /\ Cardinality(Unread) \in Nat /\ Unread \subseteq Exchanges
    <3>1. Unread \subseteq Exchanges
      BY DEF Unread
    <3>. QED  BY <1>0, <1>8, <3>1, UnreadCounted
  <2>2. minted' \in {minted, minted + 1}
    BY ReadFields
  <2>. QED  BY <1>3, <2>1, <2>2, SessionRefreshAssumption DEF Core, Budget
<1>10. ASSUME NEW y \in Exchanges PROVE ExchangeOK(y)'
  <2>1. CASE y # x
    BY <1>1, <1>2, <1>6, <2>1 DEF Core, ExchangeOK
  <2>2. CASE y = x /\ ex'[x].verdict = "rotate"
    <3>1. s # None /\ Valid(s) /\ ex'[x].got = m /\ family' = [family EXCEPT ![m] = family[s]]
      BY <2>2, ReadFields DEF s, m
    <3>2. s \in Tokens /\ s <= minted /\ s # m
      BY <3>1, <1>6 DEF Core, TokensOK, s
    <3>3. s < m /\ m # None /\ family'[m] = family[s] /\ family'[s] = family[s]
      BY <1>3, <3>1, <3>2 DEF m, Tokens, None, TypeOK
    <3>4. s \in live' \cup dead'
      BY <1>1, <3>1 DEF Valid
    <3>. QED  BY <1>2, <2>2, <3>1, <3>3, <3>4 DEF ExchangeOK
  <2>3. CASE y = x /\ ex'[x].verdict # "rotate"
    <3>1. /\ ex'[x].open => ex'[x].verdict = "reuse"
          /\ ex'[x].verdict = "reuse" => s # None
      BY <1>0, <2>3, ReadFields DEF s
    <3>. QED  BY <1>2, <2>3, <3>1 DEF ExchangeOK
  <2>. QED  BY <2>1, <2>2, <2>3
<1>11. TokensOK'
  <2>1. ASSUME NEW k \in Tokens, family'[k] # None
        PROVE  k <= minted' /\ family'[k] <= k
    <3>1. CASE UNCHANGED <<minted, family>>
      BY <2>1, <3>1 DEF Core, TokensOK
    <3>2. CASE s # None /\ minted' = m /\ family' = [family EXCEPT ![m] = family[s]]
      <4>1. s \in Tokens /\ family[s] # None /\ s <= minted /\ family[s] <= s
        BY <3>2, <1>6 DEF Core, TokensOK, s
      <4>2. family[s] \in Tokens
        BY <4>1 DEF TypeOK
      <4>. QED  BY <1>3, <2>1, <3>2, <4>1, <4>2 DEF Core, TokensOK, TypeOK, Tokens, m
    <3>. QED  BY <3>1, <3>2, ReadFields DEF s, m
  <2>2. \A k \in live' \cup dead' : family'[k] # None
    BY <1>1, <1>5 DEF Core, TokensOK
  <2>3. cookie' # None => family'[cookie'] # None
    BY <1>1, <1>7 DEF Core, TokensOK
  <2>4. ASSUME NEW y \in Exchanges
        PROVE  /\ ex'[y].sent # None => family'[ex'[y].sent] # None
               /\ ex'[y].got # None => family'[ex'[y].got] # None
    <3>1. ex'[y].sent = ex[y].sent
      BY <1>2 DEF s
    <3>2. CASE ex'[y].got = ex[y].got
      BY <1>6, <3>1, <3>2 DEF Core, TokensOK
    <3>3. CASE ex'[y].got # ex[y].got
      <4>1. s # None /\ y = x /\ ex'[x].got = m /\ family' = [family EXCEPT ![m] = family[s]]
        BY <1>2, <3>3, ReadFields DEF s, m
      <4>2. family'[m] = family[s] /\ family[s] # None
        BY <1>3, <4>1 DEF TypeOK, Core, TokensOK, s
      <4>. QED  BY <1>6, <3>1, <4>1, <4>2 DEF Core, TokensOK
    <3>. QED  BY <3>2, <3>3
  <2>. QED  BY <2>1, <2>2, <2>3, <2>4 DEF TokensOK
<1>12. LiveIsNewest'
  BY <1>1, <1>5 DEF Core, LiveIsNewest
<1>13. OneExchange'
  <2>1. \A y \in Exchanges : ex'[y].sent = ex[y].sent
    BY <1>2 DEF s
  <2>. QED  BY <1>1, <1>6, <1>8, <2>1 DEF Core, OneExchange, FamilyOf, Busy
<1>14. ASSUME NEW y \in Busy' PROVE UnderWay(y)'
  <2>0. y \in Busy /\ y \in Exchanges
    BY <1>8 DEF Busy
  <2>1. CASE y # x
    BY <1>1, <1>2, <1>5, <1>6, <1>7, <2>0, <2>1 DEF Core, UnderWay, Top
  <2>2. CASE y = x
    <3>1. Top(x)' = s /\ Top(x) = s
      BY <1>0, <1>2, ReadFields DEF Top, s
    <3>2. UnderWay(x)
      BY <1>0 DEF Core
    <3>. QED  BY <1>0, <1>1, <1>2, <1>5, <1>6, <1>7, <2>2, <3>1, <3>2
              DEF UnderWay, s
  <2>. QED  BY <2>1, <2>2
<1>15. CookieIsNewest'
  <2>1. \A y \in Busy : FamilyOf(ex[y].sent)' = FamilyOf(ex[y].sent)
    BY <1>2, <1>6 DEF FamilyOf, Busy, s
  <2>. QED  BY <1>1, <1>5, <1>7, <1>8, <2>1 DEF Core, CookieIsNewest, FamilyOf
<1>16. Alarms'
  <2>1. Blamed' = Blamed /\ NoFalseAlarm'
    BY <1>1 DEF Core, Alarms, NoFalseAlarm, Blamed
  <2>2. ASSUME NEW y \in Exchanges, ex'[y].verdict = "reuse"
        PROVE  family'[ex'[y].sent] \in Blamed'
    <3>1. CASE y # x
      BY <1>2, <1>6, <2>1, <2>2, <3>1 DEF Core, Alarms, ExchangeOK
    <3>2. CASE y = x
      <4>1. s # None /\ Known(s) /\ ~Valid(s) /\ s \in Tokens
        BY <2>2, <3>2, <1>6, ReadFields DEF s
      <4>2. ex'[x].sent = s /\ family'[s] = family[s]
        BY <1>2, <1>6, <4>1 DEF s
      <4>3. CASE s \in live
        BY <2>1, <3>2, <4>1, <4>2, <4>3 DEF Valid, Blamed
      <4>4. CASE s \in dead
        <5>1. SUFFICES ASSUME family[s] \notin Blamed PROVE FALSE
          BY <2>1, <3>2, <4>2
        <5>2. PICK j \in live : family[j] = family[s] /\ s < j
          BY <4>4, <5>1 DEF Core, Alarms
        <5>3. Top(x) = s /\ family[s] \notin disturbed
          BY <1>0, <5>1 DEF Top, Blamed, s
        <5>4. j <= s
          BY <1>0, <4>1, <5>2, <5>3 DEF Core, UnderWay, s
        <5>5. j \in Nat /\ s \in Nat
          BY <4>1, <5>2 DEF TypeOK, Tokens
        <5>. QED  BY <5>2, <5>4, <5>5
      <4>. QED  BY <4>1, <4>3, <4>4 DEF Known
    <3>. QED  BY <3>1, <3>2
  <2>3. \A k \in dead' : family'[k] \notin Blamed' =>
            \E j \in live' : family'[j] = family'[k] /\ k < j
    BY <1>1, <1>5, <2>1 DEF Core, Alarms
  <2>. QED  BY <2>1, <2>2, <2>3 DEF Alarms
<1>. QED  BY <1>9, <1>10, <1>11, <1>12, <1>13, <1>14, <1>15, <1>16 DEF Core

\* The fields of an exchange whose transaction is open are the ones Core knows.
LEMMA CommitFacts ==
    ASSUME TypeOK, Core, NEW x \in Exchanges, Commit(x)
    PROVE  /\ x \in Busy /\ ex[x].open /\ ex[x].sent \in Tokens
           /\ ex[x].verdict \in {"rotate", "reuse"} /\ UnderWay(x)
           /\ Top(x) = ex[x].sent /\ ex[x].sent # None
           /\ UNCHANGED <<minted, family, expired, ended, disturbed, cookie>>
           /\ \A y \in Exchanges \ {x} : ex'[y] = ex[y]
           /\ \/ ex[x].step = "answered" /\ ex'[x] = Idle
              \/ /\ ex[x].step # "answered" /\ ~ex'[x].open
                 /\ ex'[x].by = ex[x].by /\ ex'[x].sent = ex[x].sent
                 /\ ex'[x].step = ex[x].step /\ ex'[x].got = ex[x].got
                 /\ ex'[x].verdict = ex[x].verdict
           /\ Busy' \subseteq Busy /\ Busy \subseteq Busy' \cup {x}
           /\ Unread' = Unread /\ ex[x].step \in {"ready", "answered"}
<1>. ex \in [Exchanges -> Exchange] /\ ex[x] \in Exchange
  BY DEF TypeOK
<1>1. ex[x].open /\ ex[x].verdict \in {"rotate", "reuse"}
  BY DEF Commit
<1>2. ex[x].step \in {"ready", "answered"}
  BY <1>1 DEF Core, ExchangeOK, Exchange
<1>3. x \in Busy /\ ex[x].sent \in Tokens /\ Top(x) = ex[x].sent /\ UnderWay(x)
      /\ ex[x].sent # None
  BY <1>1, <1>2 DEF Busy, Top, Core, ExchangeOK, Exchange
<1>4. /\ \A y \in Exchanges \ {x} : ex'[y] = ex[y]
      /\ \/ ex[x].step = "answered" /\ ex'[x] = Idle
         \/ /\ ex[x].step # "answered" /\ ~ex'[x].open
            /\ ex'[x].by = ex[x].by /\ ex'[x].sent = ex[x].sent
            /\ ex'[x].step = ex[x].step /\ ex'[x].got = ex[x].got
            /\ ex'[x].verdict = ex[x].verdict
  BY ClosingFields DEF Commit
<1>5. /\ Busy' \subseteq Busy /\ Busy \subseteq Busy' \cup {x}
      /\ Unread' = Unread
  BY <1>2, <1>3, <1>4 DEF Busy, Unread, Idle
<1>6. UNCHANGED <<minted, family, expired, ended, disturbed, cookie>>
  BY DEF Commit
<1>. QED  BY <1>1, <1>2, <1>3, <1>4, <1>5, <1>6

\* A rotation: the new token of an undisturbed family is its newest.
LEMMA RotateCore ==
    ASSUME TypeOK, Core, NEW x \in Exchanges, Commit(x),
           ex[x].verdict = "rotate"
    PROVE  Core'
<1>. DEFINE s == ex[x].sent
            g == ex[x].got
            f == family[s]
<1>. ex \in [Exchanges -> Exchange] /\ ex[x] \in Exchange
  BY DEF TypeOK
<1>0. /\ x \in Busy /\ ex[x].open /\ s \in Tokens /\ s # None /\ UnderWay(x) /\ Top(x) = s
      /\ UNCHANGED <<minted, family, expired, ended, disturbed, cookie>>
      /\ Busy' \subseteq Busy /\ Busy \subseteq Busy' \cup {x}
      /\ Unread' = Unread
  BY CommitFacts
<1>1. /\ \A y \in Exchanges \ {x} : ex'[y] = ex[y]
      /\ \/ ex[x].step = "answered" /\ ex'[x] = Idle
         \/ /\ ex[x].step # "answered" /\ ~ex'[x].open
            /\ ex'[x].by = ex[x].by /\ ex'[x].sent = s
            /\ ex'[x].step = ex[x].step /\ ex'[x].got = g
            /\ ex'[x].verdict = "rotate"
  BY CommitFacts
<1>2. /\ live' = (live \ {s}) \cup {g} /\ dead' = dead \cup {s}
      /\ UNCHANGED alarms
  BY DEF Commit
<1>3. /\ g \in Tokens /\ s < g /\ family[g] = f /\ s \in live \cup dead
      /\ f # None
  BY <1>0 DEF Core, ExchangeOK, Exchange, TokensOK
<1>4. live' \cup dead' = live \cup dead \cup {g}
  BY <1>2, <1>3
<1>5. f \notin disturbed => \A j \in live \cup dead : family[j] = f => j <= s
  BY <1>0 DEF UnderWay
<1>6. ASSUME NEW y \in Busy, y # x, ex[y].sent # None,
             family[ex[y].sent] \notin disturbed
      PROVE  family[ex[y].sent] # f
  BY <1>0, <1>6 DEF Core, OneExchange, FamilyOf
<1>7. live \subseteq Tokens /\ dead \subseteq Tokens /\ Tokens \subseteq Nat
  BY DEF TypeOK, Tokens
<1>16. s \in Nat /\ g \in Nat
  BY <1>0, <1>3, <1>7
<1>. HIDE DEF s, g, f
<1>8. Budget'
  BY <1>0 DEF Core, Budget
<1>9. ASSUME NEW y \in Exchanges PROVE ExchangeOK(y)'
  <2>1. CASE y # x
    BY <1>0, <1>1, <1>4, <2>1 DEF Core, ExchangeOK
  <2>2. CASE y = x /\ ex'[x] = Idle
    BY <2>2 DEF ExchangeOK, Idle
  <2>3. CASE y = x /\ ex'[x] # Idle
    BY <1>0, <1>1, <1>4, <2>3 DEF Core, ExchangeOK, s, g
  <2>. QED  BY <2>1, <2>2, <2>3
<1>10. TokensOK'
  <2>1. \A y \in Exchanges :
           /\ ex'[y].sent # None => family[ex'[y].sent] # None
           /\ ex'[y].got # None => family[ex'[y].got] # None
    BY <1>1 DEF Core, TokensOK, Idle, s, g
  <2>2. \A k \in live' \cup dead' : family[k] # None
    BY <1>3, <1>4 DEF Core, TokensOK
  <2>. QED  BY <1>0, <2>1, <2>2 DEF Core, TokensOK
<1>11. LiveIsNewest'
  <2>1. ASSUME NEW h \in Families \ disturbed, NEW k \in live',
               NEW j \in live' \cup dead', family[k] = h, family[j] = h
        PROVE  j <= k
    <3>1. CASE h = f
      <4>1. k = g
        <5>1. SUFFICES ASSUME k \in live, k # s PROVE FALSE
          BY <1>2
        <5>2. s <= k /\ k <= s
          BY <1>3, <1>5, <2>1, <3>1, <5>1 DEF Core, LiveIsNewest, f
        <5>. QED  BY <1>0, <1>7, <5>1, <5>2
      <4>2. j = g \/ j <= s
        BY <1>4, <1>5, <2>1, <3>1
      <4>. QED  BY <1>0, <1>3, <1>4, <1>7, <4>1, <4>2
    <3>2. CASE h # f
      <4>1. k \in live /\ j \in live \cup dead
        BY <1>2, <1>3, <1>4, <2>1, <3>2
      <4>. QED  BY <2>1, <4>1 DEF Core, LiveIsNewest
    <3>. QED  BY <3>1, <3>2
  <2>. QED  BY <1>0, <2>1 DEF LiveIsNewest
<1>12. OneExchange'
  <2>1. \A y \in Busy' : ex'[y].sent = ex[y].sent
    BY <1>0, <1>1 DEF Busy, Idle, s
  <2>. QED  BY <1>0, <2>1 DEF Core, OneExchange, FamilyOf
<1>13. ASSUME NEW y \in Busy' PROVE UnderWay(y)'
  <2>0. y \in Busy /\ y \in Exchanges
    BY <1>0 DEF Busy
  <2>1. CASE y # x
    <3>1. ex'[y] = ex[y] /\ UnderWay(y)
      BY <1>1, <2>0, <2>1 DEF Core
    <3>2. Top(y)' = Top(y)
      BY <3>1 DEF Top
    <3>. QED  BY <1>0, <1>3, <1>4, <1>6, <2>0, <2>1, <3>1, <3>2 DEF UnderWay
  <2>2. CASE y = x
    <3>1. /\ ex[x].step # "answered" /\ ~ex'[x].open /\ ex'[x].sent = s
          /\ ex'[x].step = ex[x].step /\ ex'[x].got = g /\ ex'[x].verdict = "rotate"
      BY <1>1, <2>2 DEF Busy, Idle
    <3>2. Top(x)' = g
      BY <3>1 DEF Top
    <3>3. f \notin disturbed => \A j \in live' \cup dead' : family[j] = f => j <= g
      <4>1. SUFFICES ASSUME f \notin disturbed, NEW j \in live' \cup dead', family[j] = f
                     PROVE  j <= g
        OBVIOUS
      <4>2. j = g \/ j <= s
        BY <1>4, <1>5, <4>1
      <4>3. j \in Nat
        BY <1>3, <1>4, <1>7, <4>1
      <4>. QED  BY <1>3, <1>16, <4>2, <4>3
    <3>4. UnderWay(x) /\ family[s] = f /\ ex[x].sent = s
      BY <1>0 DEF f, s
    <3>. QED  BY <1>0, <2>2, <3>1, <3>2, <3>3, <3>4 DEF UnderWay
  <2>. QED  BY <2>1, <2>2
<1>14. CookieIsNewest'
  <2>1. SUFFICES ASSUME cookie # None, family[cookie] \notin disturbed,
                        \A y \in Busy' : FamilyOf(ex[y].sent)' # family[cookie],
                        NEW k \in live' \cup dead', family[k] = family[cookie]
                 PROVE  k <= cookie
    BY <1>0 DEF CookieIsNewest, FamilyOf
  <2>2. \A y \in Busy' \ {x} : FamilyOf(ex[y].sent) # family[cookie]
    BY <1>0, <1>1, <2>1 DEF FamilyOf, Busy
  <2>3. CASE family[cookie] = f
    <3>1. x \notin Busy'
      <4>1. SUFFICES ASSUME x \in Busy' PROVE FALSE
        OBVIOUS
      <4>2. ex'[x].sent = s
        BY <1>1, <4>1 DEF Busy, Idle
      <4>. QED  BY <1>0, <2>1, <2>3, <4>1, <4>2 DEF FamilyOf, f
    <3>2. ex[x].step = "answered"
      BY <1>0, <1>1, <3>1 DEF Busy
    <3>3. cookie = g
      BY <1>0, <2>1, <2>3, <3>2 DEF UnderWay, f, g, s
    <3>4. k = g \/ k <= s
      BY <1>4, <1>5, <2>1, <2>3
    <3>5. k \in Nat
      BY <1>3, <1>4, <1>7, <2>1
    <3>. QED  BY <1>3, <1>16, <3>3, <3>4, <3>5
  <2>4. CASE family[cookie] # f
    <3>1. k \in live \cup dead
      BY <1>3, <1>4, <2>1, <2>4
    <3>2. FamilyOf(ex[x].sent) # family[cookie]
      BY <1>0, <2>4 DEF FamilyOf, f, s
    <3>. QED  BY <1>0, <2>1, <2>2, <3>1, <3>2 DEF Core, CookieIsNewest
  <2>. QED  BY <2>3, <2>4
<1>15. Alarms'
  <2>1. Blamed' = Blamed /\ NoFalseAlarm'
    BY <1>0, <1>2 DEF Core, Alarms, NoFalseAlarm, Blamed
  <2>2. \A y \in Exchanges : ex'[y].verdict = "reuse" => family[ex'[y].sent] \in Blamed
    BY <1>1 DEF Core, Alarms, Idle
  <2>3. ASSUME NEW k \in dead', family[k] \notin Blamed
        PROVE  \E j \in live' : family[j] = family[k] /\ k < j
    <3>1. CASE k = s
      BY <1>2, <1>3, <3>1 DEF f
    <3>2. CASE k # s
      <4>1. k \in dead
        BY <1>2, <3>2
      <4>2. PICK j \in live : family[j] = family[k] /\ k < j
        BY <2>3, <4>1 DEF Core, Alarms
      <4>3. CASE j = s
        <5>1. k < g /\ family[g] = family[k]
          BY <1>0, <1>3, <1>7, <4>1, <4>2, <4>3 DEF f
        <5>. QED  BY <1>2, <5>1
      <4>4. CASE j # s
        BY <1>2, <4>2, <4>4
      <4>. QED  BY <4>3, <4>4
    <3>. QED  BY <3>1, <3>2
  <2>. QED  BY <1>0, <2>1, <2>2, <2>3 DEF Alarms
<1>. QED  BY <1>8, <1>9, <1>10, <1>11, <1>12, <1>13, <1>14, <1>15 DEF Core

\* An invalidated family: all of it is dead, and it is to blame.
LEMMA ReuseCore ==
    ASSUME TypeOK, Core, NEW x \in Exchanges, Commit(x),
           ex[x].verdict = "reuse"
    PROVE  Core'
<1>. DEFINE s == ex[x].sent
            f == family[s]
            K == {k \in live : family[k] = f}
<1>. ex \in [Exchanges -> Exchange] /\ ex[x] \in Exchange
  BY DEF TypeOK
<1>0. /\ x \in Busy /\ ex[x].open /\ s \in Tokens /\ s # None /\ UnderWay(x)
      /\ Top(x) = s
      /\ UNCHANGED <<minted, family, expired, ended, disturbed, cookie>>
      /\ Busy' \subseteq Busy /\ Busy \subseteq Busy' \cup {x}
      /\ Unread' = Unread
  BY CommitFacts
<1>1. /\ \A y \in Exchanges \ {x} : ex'[y] = ex[y]
      /\ \/ ex[x].step = "answered" /\ ex'[x] = Idle
         \/ /\ ex[x].step # "answered" /\ ~ex'[x].open
            /\ ex'[x].by = ex[x].by /\ ex'[x].sent = s
            /\ ex'[x].step = ex[x].step /\ ex'[x].got = ex[x].got
            /\ ex'[x].verdict = "reuse"
  BY CommitFacts
<1>2. /\ live' = live \ K /\ dead' = dead \cup K /\ alarms' = alarms \cup {f}
  BY DEF Commit
<1>3. f \in Blamed /\ f # None
  BY <1>0 DEF Core, Alarms, TokensOK
<1>4. live' \cup dead' = live \cup dead /\ live' \subseteq live
  BY <1>2
<1>5. f \notin disturbed => \A j \in live \cup dead : family[j] = f => j <= s
  BY <1>0 DEF UnderWay
<1>. HIDE DEF s, f, K
<1>6. Budget'
  BY <1>0 DEF Core, Budget
<1>7. ASSUME NEW y \in Exchanges PROVE ExchangeOK(y)'
  <2>1. CASE y # x
    BY <1>0, <1>1, <1>4, <2>1 DEF Core, ExchangeOK
  <2>2. CASE y = x /\ ex'[x] = Idle
    BY <2>2 DEF ExchangeOK, Idle
  <2>3. CASE y = x /\ ex'[x] # Idle
    BY <1>0, <1>1, <2>3 DEF Core, ExchangeOK, s
  <2>. QED  BY <2>1, <2>2, <2>3
<1>8. TokensOK'
  <2>1. \A y \in Exchanges :
           /\ ex'[y].sent # None => family[ex'[y].sent] # None
           /\ ex'[y].got # None => family[ex'[y].got] # None
    BY <1>1 DEF Core, TokensOK, Idle, s
  <2>. QED  BY <1>0, <1>4, <2>1 DEF Core, TokensOK
<1>9. LiveIsNewest'
  BY <1>0, <1>4 DEF Core, LiveIsNewest
<1>10. OneExchange'
  <2>1. \A y \in Busy' : ex'[y].sent = ex[y].sent
    BY <1>0, <1>1 DEF Busy, Idle, s
  <2>. QED  BY <1>0, <2>1 DEF Core, OneExchange, FamilyOf
<1>11. ASSUME NEW y \in Busy' PROVE UnderWay(y)'
  <2>0. y \in Busy /\ y \in Exchanges
    BY <1>0 DEF Busy
  <2>1. CASE y # x
    <3>1. ex'[y] = ex[y] /\ UnderWay(y)
      BY <1>1, <2>0, <2>1 DEF Core
    <3>2. Top(y)' = Top(y)
      BY <3>1 DEF Top
    <3>. QED  BY <1>0, <1>4, <3>1, <3>2 DEF UnderWay
  <2>2. CASE y = x
    <3>1. /\ ex'[x].sent = s /\ ex'[x].step = ex[x].step
          /\ ex'[x].verdict = "reuse" /\ Top(x)' = s
      BY <1>1, <2>2 DEF Busy, Idle, Top
    <3>. QED  BY <1>0, <1>4, <2>2, <3>1 DEF UnderWay, s
  <2>. QED  BY <2>1, <2>2
<1>12. CookieIsNewest'
  <2>1. SUFFICES ASSUME cookie # None, family[cookie] \notin disturbed,
                        \A y \in Busy' : FamilyOf(ex[y].sent)' # family[cookie],
                        NEW k \in live \cup dead, family[k] = family[cookie]
                 PROVE  k <= cookie
    BY <1>0, <1>4 DEF CookieIsNewest, FamilyOf
  <2>2. \A y \in Busy' \ {x} : FamilyOf(ex[y].sent) # family[cookie]
    BY <1>0, <1>1, <2>1 DEF FamilyOf, Busy
  <2>3. CASE family[cookie] = f
    <3>1. x \notin Busy'
      <4>1. SUFFICES ASSUME x \in Busy' PROVE FALSE
        OBVIOUS
      <4>2. ex'[x].sent = s
        BY <1>1, <4>1 DEF Busy, Idle
      <4>. QED  BY <1>0, <2>1, <2>3, <4>1, <4>2 DEF FamilyOf, f
    <3>2. ex[x].step = "answered"
      BY <1>0, <1>1, <3>1 DEF Busy
    <3>3. cookie = s
      BY <1>0, <2>1, <2>3, <3>2 DEF UnderWay, f, s
    <3>. QED  BY <1>5, <2>1, <2>3, <3>3
  <2>4. CASE family[cookie] # f
    <3>1. FamilyOf(ex[x].sent) # family[cookie]
      BY <1>0, <2>4 DEF FamilyOf, f, s
    <3>. QED  BY <1>0, <2>1, <2>2, <3>1 DEF Core, CookieIsNewest
  <2>. QED  BY <2>3, <2>4
<1>13. Alarms'
  <2>1. Blamed' = Blamed /\ NoFalseAlarm'
    BY <1>0, <1>2, <1>3 DEF Core, Alarms, NoFalseAlarm, Blamed
  <2>2. \A y \in Exchanges : ex'[y].verdict = "reuse" => family[ex'[y].sent] \in Blamed
    BY <1>1, <1>3 DEF Core, Alarms, Idle, f
  <2>3. ASSUME NEW k \in dead', family[k] \notin Blamed
        PROVE  \E j \in live' : family[j] = family[k] /\ k < j
    <3>1. family[k] # f /\ k \in dead
      BY <1>2, <1>3, <2>3 DEF K
    <3>2. PICK j \in live : family[j] = family[k] /\ k < j
      BY <2>3, <3>1 DEF Core, Alarms
    <3>. QED  BY <1>2, <3>1, <3>2 DEF K
  <2>. QED  BY <1>0, <2>1, <2>2, <2>3 DEF Alarms
<1>. QED  BY <1>6, <1>7, <1>8, <1>9, <1>10, <1>11, <1>12, <1>13 DEF Core

-----------------------------------------------------------------------------
(* Exchanges and tokens: the answers.                                      *)

\* An exchange ends, or is answered before its transaction is committed, or
\* loses its page.  The cookie becomes the one of the answer, unless the
\* answer is lost, which disturbs the family if it brought a new token.
LEMMA EndCore ==
    ASSUME TypeOK, Core, NEW x \in Exchanges, ex[x].step \in {"sent", "ready"},
           UNCHANGED server, disturbed \subseteq disturbed',
           \A y \in Exchanges \ {x} : ex'[y] = ex[y],
           \/ ~ex[x].open /\ ex'[x] = Idle
           \/ /\ ex'[x].by = NoTab /\ ex'[x].sent = ex[x].sent
              /\ ex'[x].got = ex[x].got /\ ex'[x].verdict = ex[x].verdict
              /\ ex'[x].open = ex[x].open
              /\ \/ ex'[x].step = ex[x].step /\ cookie' = cookie
                 \/ ex'[x].step = "answered" /\ ex[x].open,
           \/ ex[x].step = "ready" /\ cookie' = CookieOf(x)
           \/ /\ cookie' = cookie
              /\ ex[x].verdict = "rotate" => family[ex[x].sent] \in disturbed'
    PROVE  Core'
<1>. DEFINE s == ex[x].sent
            f == family[s]
<1>. ex \in [Exchanges -> Exchange] /\ ex[x] \in Exchange
  BY DEF TypeOK
<1>. UNCHANGED <<minted, family, live, dead, expired, alarms, ended>>
  BY DEF server
<1>1. /\ x \in Busy /\ UnderWay(x)
      /\ Busy' \subseteq Busy /\ Busy \subseteq Busy' \cup {x}
  BY DEF Busy, Core, Idle
<1>2. Unread' \subseteq Unread /\ Unread \subseteq Exchanges
  BY DEF Unread, Idle
<1>3. \A y \in Busy' : ex'[y].sent = ex[y].sent /\ ex'[y].verdict = ex[y].verdict
                         /\ ex'[y].got = ex[y].got /\ ex'[y].open = ex[y].open
  BY DEF Busy, Idle
<1>4. ASSUME NEW y \in Busy, y # x, ex[y].sent # None, s # None,
             family[ex[y].sent] \notin disturbed
      PROVE  family[ex[y].sent] # f
  BY <1>1, <1>4 DEF Core, OneExchange, FamilyOf
<1>5. \A y \in Busy' : Top(y)' = Top(y)
  BY <1>3 DEF Top
\* The cookie afterwards, seen from a family that is still undisturbed.
<1>6. ASSUME cookie' # None, family[cookie'] \notin disturbed'
      PROVE  /\ cookie' = cookie \/ (/\ ex[x].step = "ready" /\ s # None
                                    /\ ex[x].verdict = "rotate"
                                    /\ cookie' = ex[x].got /\ family[cookie'] = f)
             /\ s # None /\ family[cookie'] = f =>
                  cookie' = IF ex[x].verdict = "rotate" THEN ex[x].got ELSE s
  BY <1>1, <1>6 DEF CookieOf, Core, ExchangeOK, UnderWay
<1>. HIDE DEF s, f
<1>7. Budget'
  <2>1. /\ Cardinality(Unread') <= Cardinality(Unread)
        /\ Cardinality(Unread') \in Nat /\ Cardinality(Unread) \in Nat
    <3>1. IsFiniteSet(Unread) /\ IsFiniteSet(Unread')
      BY <1>2, UnreadCounted, FS_Subset
    <3>. QED  BY <1>2, <3>1, FS_Subset, FS_CardinalityType
  <2>. QED  BY <2>1, SessionRefreshAssumption DEF Core, Budget, TypeOK
<1>8. ASSUME NEW y \in Exchanges PROVE ExchangeOK(y)'
  <2>1. CASE y # x
    BY <2>1 DEF Core, ExchangeOK
  <2>2. CASE y = x /\ ex'[x] = Idle
    BY <2>2 DEF ExchangeOK, Idle
  <2>3. CASE y = x /\ ex'[x] # Idle
    BY <2>3 DEF Core, ExchangeOK
  <2>. QED  BY <2>1, <2>2, <2>3
<1>9. TokensOK'
  <2>1. \A y \in Exchanges :
           /\ ex'[y].sent # None => family[ex'[y].sent] # None
           /\ ex'[y].got # None => family[ex'[y].got] # None
    BY DEF Core, TokensOK, Idle
  <2>2. cookie' # None => family[cookie'] # None
    BY DEF Core, TokensOK, CookieOf
  <2>. QED  BY <2>1, <2>2 DEF Core, TokensOK
<1>10. LiveIsNewest'
  BY DEF Core, LiveIsNewest
<1>11. OneExchange'
  BY <1>1, <1>3 DEF Core, OneExchange, FamilyOf
<1>12. ASSUME NEW y \in Busy' PROVE UnderWay(y)'
  <2>0. y \in Busy /\ y \in Exchanges /\ UnderWay(y)
    BY <1>1 DEF Busy, Core
  <2>1. SUFFICES ASSUME ex[y].sent # None, family[ex[y].sent] \notin disturbed'
                 PROVE  /\ \A j \in live \cup dead :
                            family[j] = family[ex[y].sent] => j <= Top(y)
                        /\ cookie' # None /\ family[cookie'] = family[ex[y].sent] =>
                            /\ ex'[y].step # "answered" => cookie' = ex[y].sent
                            /\ ex'[y].step = "answered" => cookie' =
                                 IF ex[y].verdict = "rotate" THEN ex[y].got ELSE ex[y].sent
    BY <1>3, <1>5 DEF UnderWay
  <2>2. \A j \in live \cup dead : family[j] = family[ex[y].sent] => j <= Top(y)
    BY <2>0, <2>1 DEF UnderWay
  <2>3. CASE y # x
    <3>1. ASSUME cookie' # None, family[cookie'] = family[ex[y].sent]
          PROVE  cookie' = cookie
      BY <1>4, <1>6, <2>0, <2>1, <2>3, <3>1
    <3>2. ex'[y] = ex[y]
      BY <2>0, <2>3
    <3>. QED  BY <2>0, <2>1, <2>2, <3>1, <3>2 DEF UnderWay
  <2>4. CASE y = x
    <3>1. ex'[x] # Idle
      BY <2>4 DEF Busy, Idle
    <3>2. CASE ex'[x].step = ex[x].step /\ cookie' = cookie
      BY <2>0, <2>1, <2>2, <2>4, <3>2 DEF UnderWay
    <3>3. CASE ex'[x].step = "answered"
      BY <1>6, <2>1, <2>2, <2>4, <3>3 DEF s, f
    <3>. QED  BY <3>1, <3>2, <3>3
  <2>. QED  BY <2>3, <2>4
<1>13. CookieIsNewest'
  <2>1. SUFFICES ASSUME cookie' # None, family[cookie'] \notin disturbed',
                        \A y \in Busy' : FamilyOf(ex[y].sent) # family[cookie'],
                        NEW k \in live \cup dead, family[k] = family[cookie']
                 PROVE  k <= cookie'
    BY <1>3 DEF CookieIsNewest, FamilyOf
  <2>2. CASE s # None /\ family[cookie'] = f
    <3>1. x \notin Busy' /\ ~ex[x].open
      BY <1>1, <2>1, <2>2 DEF FamilyOf, s, f, Busy
    <3>2. cookie' = Top(x)
      BY <1>6, <2>1, <2>2, <3>1 DEF Top, s
    <3>3. f \notin disturbed
      BY <2>1, <2>2
    <3>. QED  BY <1>1, <2>1, <2>2, <3>2, <3>3 DEF UnderWay, s, f
  <2>3. CASE ~(s # None /\ family[cookie'] = f)
    <3>1. cookie' = cookie
      BY <1>6, <2>1, <2>3
    <3>2. family[cookie] # None
      BY <2>1, <3>1 DEF Core, TokensOK
    <3>3. \A y \in Busy : FamilyOf(ex[y].sent) # family[cookie]
      BY <1>1, <2>1, <2>3, <3>1, <3>2 DEF FamilyOf, s, f
    <3>. QED  BY <2>1, <3>1, <3>3 DEF Core, CookieIsNewest
  <2>. QED  BY <2>2, <2>3
<1>14. Alarms'
  <2>1. Blamed \subseteq Blamed'
    BY DEF Blamed
  <2>2. \A y \in Exchanges : ex'[y].verdict = "reuse" => family[ex'[y].sent] \in Blamed
    BY DEF Core, Alarms, Idle
  <2>. QED  BY <2>1, <2>2 DEF Core, Alarms, NoFalseAlarm, Blamed
<1>. QED  BY <1>7, <1>8, <1>9, <1>10, <1>11, <1>12, <1>13, <1>14 DEF Core

\* The steps of an exchange leave exchanges and tokens in order.
LEMMA ExchangeCore ==
    ASSUME TypeOK, Core, NEW x \in Exchanges, ExchangeStep(x)
    PROVE  Core'
<1>. ex \in [Exchanges -> Exchange] /\ ex[x] \in Exchange
  BY DEF TypeOK
<1>1. CASE Read(x)
  BY <1>1, ReadCore
<1>2. CASE Commit(x)
  BY <1>2, RotateCore, ReuseCore DEF Commit
<1>3. ASSUME Leaves(x), ex[x].step = "ready", UNCHANGED server,
             disturbed \subseteq disturbed',
             \/ cookie' = CookieOf(x)
             \/ /\ cookie' = cookie
                /\ ex[x].verdict = "rotate" => family[ex[x].sent] \in disturbed'
      PROVE  Core'
  BY <1>3, LeavesFields, EndCore
<1>4. CASE Answer(x)
  BY <1>3, <1>4 DEF Answer
<1>5. CASE AnswerNobody(x)
  BY <1>3, <1>5 DEF AnswerNobody, Loses
<1>6. CASE Lose(x)
  <2>1. CASE ex[x].step = "ready" /\ Leaves(x) /\ Loses(x)
    BY <1>3, <1>6, <2>1 DEF Lose, Loses
  <2>2. CASE /\ ex[x].step = "sent" /\ UNCHANGED disturbed
             /\ ex' \in {[ex EXCEPT ![x] = Idle],
                        [ex EXCEPT ![x] = [@ EXCEPT !.by = NoTab]]}
    <3>1. ~ex[x].open /\ ex[x].verdict = "none"
      BY <2>2 DEF Core, ExchangeOK
    <3>2. UNCHANGED <<server, cookie>>
      BY <1>6 DEF Lose
    <3>3. /\ \A y \in Exchanges \ {x} : ex'[y] = ex[y]
          /\ \/ ex'[x] = Idle
             \/ /\ ex'[x].by = NoTab /\ ex'[x].sent = ex[x].sent
                /\ ex'[x].step = ex[x].step /\ ex'[x].got = ex[x].got
                /\ ex'[x].verdict = ex[x].verdict /\ ex'[x].open = ex[x].open
      BY <2>2, OrphanFields
    <3>. QED  BY <2>2, <3>1, <3>2, <3>3, EndCore
  <2>. QED  BY <1>6, <2>1, <2>2 DEF Lose
<1>. QED  BY <1>1, <1>2, <1>4, <1>5, <1>6 DEF ExchangeStep

\* Sessions that end, and rows that go, leave what Core says of the rest.
LEMMA ShrinkCore ==
    ASSUME TypeOK, Core, UNCHANGED <<minted, family, disturbed, cookie, ex>>,
           live' \subseteq live, live' \cup dead' \subseteq live \cup dead,
           live \cup dead \subseteq live' \cup dead' \/ Busy = {},
           Alarms'
    PROVE  Core'
<1>1. Busy' = Busy /\ Unread' = Unread
  BY DEF Busy, Unread
<1>2. Budget'
  BY <1>1 DEF Core, Budget
<1>3. ASSUME NEW x \in Exchanges PROVE ExchangeOK(x)'
  <2>1. ex[x].open => x \in Busy
    BY DEF Core, ExchangeOK, Busy
  <2>. QED  BY <2>1 DEF Core, ExchangeOK
<1>4. TokensOK'
  BY DEF Core, TokensOK
<1>5. LiveIsNewest'
  BY DEF Core, LiveIsNewest
<1>6. OneExchange'
  BY <1>1 DEF Core, OneExchange, FamilyOf
<1>7. ASSUME NEW x \in Busy' PROVE UnderWay(x)'
  BY <1>1 DEF Core, UnderWay, Top
<1>8. CookieIsNewest'
  BY <1>1 DEF Core, CookieIsNewest, FamilyOf
<1>. QED  BY <1>2, <1>3, <1>4, <1>5, <1>6, <1>7, <1>8 DEF Core

\* The sessions' steps leave exchanges and tokens in order.
LEMMA SessionCore ==
    ASSUME TypeOK, Core, SessionStep
    PROVE  Core'
<1>1. ASSUME NEW K \in {live} \cup {{k} : k \in live}, Revoke(K)
      PROVE  Core'
  <2>1. K \subseteq live /\ live' = live \ K /\ dead' = dead \cup K
        /\ ended' = ended \cup {family[k] : k \in K}
        /\ UNCHANGED <<minted, family, expired, alarms, disturbed, cookie, ex>>
    BY <1>1 DEF Revoke
  <2>2. Blamed' = Blamed \cup {family[k] : k \in K}
    BY <2>1 DEF Blamed
  <2>3. NoFalseAlarm'
    BY <2>1 DEF Core, Alarms, NoFalseAlarm
  <2>4. \A x \in Exchanges : ex'[x].verdict = "reuse" => family[ex'[x].sent] \in Blamed'
    BY <2>1, <2>2 DEF Core, Alarms
  <2>5. ASSUME NEW k \in dead', family[k] \notin Blamed'
        PROVE  \E j \in live' : family[j] = family[k] /\ k < j
    <3>1. k \in dead /\ family[k] \notin Blamed
      BY <2>1, <2>2, <2>5
    <3>2. PICK j \in live : family[j] = family[k] /\ k < j
      BY <3>1 DEF Core, Alarms
    <3>. QED  BY <2>1, <2>2, <2>5, <3>2
  <2>6. Alarms'
    BY <2>1, <2>3, <2>4, <2>5 DEF Alarms
  <2>. QED  BY <2>1, <2>6, ShrinkCore
<1>2. ASSUME NEW f \in Families, Expire(f)
      PROVE  Core'
  <2>1. expired' = expired \cup {f}
        /\ UNCHANGED <<minted, family, live, dead, alarms, ended, disturbed, cookie, ex>>
    BY <1>2 DEF Expire
  <2>2. Blamed' = Blamed \cup {f}
    BY <2>1 DEF Blamed
  <2>3. Alarms'
    BY <2>1, <2>2 DEF Core, Alarms, NoFalseAlarm
  <2>. QED  BY <2>1, <2>3, ShrinkCore
<1>3. CASE CleanUp
  <2>1. /\ Busy = {} /\ live' \subseteq live /\ dead' = {}
        /\ UNCHANGED <<minted, family, expired, alarms, ended, disturbed, cookie, ex>>
    BY <1>3 DEF CleanUp
  <2>2. Alarms'
    BY <2>1 DEF Core, Alarms, NoFalseAlarm, Blamed
  <2>. QED  BY <2>1, <2>2, ShrinkCore
<1>. QED  BY <1>1, <1>2, <1>3 DEF SessionStep

-----------------------------------------------------------------------------
(* The theorems.                                                           *)

\* The initial states satisfy the inductive invariant.
LEMMA InitIInv == Init => IInv
<1>. SUFFICES ASSUME Init PROVE IInv
  OBVIOUS
<1>1. TypeOK
  BY SessionRefreshAssumption
     DEF Init, TypeOK, Closed, Tab, Idle, Exchange, None, Tokens
<1>2. \A x \in Exchanges : ex[x] = Idle
  BY DEF Init
<1>3. Busy = {} /\ Unread = {}
  BY <1>2 DEF Busy, Unread, Idle
<1>4. OneExchangePerPage
  BY <1>2, SessionRefreshAssumption DEF Init, OneExchangePerPage, Own, Idle, Closed
<1>5. Budget
  BY <1>3, FS_EmptySet, SessionRefreshAssumption DEF Init, Budget
<1>6. \A x \in Exchanges : ExchangeOK(x)
  BY <1>2 DEF ExchangeOK, Idle
<1>7. TokensOK
  BY <1>2 DEF Init, TokensOK, Idle
<1>8. LiveIsNewest /\ OneExchange /\ CookieIsNewest /\ Alarms
  BY <1>2, <1>3 DEF Init, LiveIsNewest, OneExchange, CookieIsNewest, Alarms,
                    NoFalseAlarm, Idle
<1>. QED  BY <1>1, <1>3, <1>4, <1>5, <1>6, <1>7, <1>8 DEF IInv, Core

\* Every step keeps the inductive invariant.
LEMMA StepIInv == IInv /\ [Next]_vars => IInv'
<1>. SUFFICES ASSUME IInv, [Next]_vars PROVE IInv'
  OBVIOUS
<1>1. TypeOK'
  BY StepTyped DEF IInv, Core
<1>2. OneExchangePerPage'
  BY StepPages DEF IInv, Core
<1>3. CASE UNCHANGED vars
  <2>1. \A x \in Exchanges : Same(x)
    BY <1>3 DEF vars, Same
  <2>2. UNCHANGED <<minted, family, live, dead, expired, alarms, ended, disturbed>>
        /\ cookie' = cookie
    BY <1>3 DEF vars
  <2>3. Core'
    BY <2>1, <2>2, CookieCore DEF IInv
  <2>. QED  BY <1>1, <1>2, <2>3 DEF IInv
<1>4. CASE Next
  <2>1. Core'
    BY <1>4, TabCore, ExchangeCore, SessionCore DEF Next, IInv
  <2>. QED  BY <1>1, <1>2, <2>1 DEF IInv
<1>. QED  BY <1>3, <1>4

\* The inductive invariant holds in every reachable state.
THEOREM SpecIInv == Spec => []IInv
  BY InitIInv, StepIInv, PTL DEF Spec

\* Every variable has its type.
THEOREM SessionTypes == Spec => []TypeOK
<1>1. IInv => TypeOK
  BY DEF IInv
<1>. QED  BY SpecIInv, <1>1, PTL

\* A page never has two exchanges under way, and whoever waits for a token
\* waits for one that is (the refresh promise of client.ts).
THEOREM SessionOneExchange == Spec => []OneExchangePerPage
<1>1. IInv => OneExchangePerPage
  BY DEF IInv
<1>. QED  BY SpecIInv, <1>1, PTL

\* In an undisturbed family one token at most is live (_do_rotation).
THEOREM SessionOneLiveToken == Spec => []OneLiveToken
<1>1. IInv => OneLiveToken
  <2>1. SUFFICES ASSUME IInv, NEW f \in Families \ disturbed,
                        NEW k \in live, NEW l \in live,
                        family[k] = f, family[l] = f
                 PROVE  k = l
    BY DEF OneLiveToken
  <2>2. k <= l /\ l <= k
    BY <2>1 DEF IInv, Core, LiveIsNewest
  <2>3. k \in Nat /\ l \in Nat
    BY <2>1 DEF IInv, TypeOK, Tokens
  <2>. QED  BY <2>2, <2>3
<1>. QED  BY SpecIInv, <1>1, PTL

\* In an undisturbed family the cookie is the newest token whenever no
\* exchange is under way, so that the next exchange finds it valid.
THEOREM SessionCookieIsNewest == Spec => []CookieIsNewest
<1>1. IInv => CookieIsNewest
  BY DEF IInv, Core
<1>. QED  BY SpecIInv, <1>1, PTL

\* Nobody is accused of reuse in an undisturbed family that had neither
\* been ended nor expired (rotate_refresh_token).
THEOREM SessionNoFalseAlarm == Spec => []NoFalseAlarm
<1>1. IInv => NoFalseAlarm
  BY DEF IInv, Core, Alarms
<1>. QED  BY SpecIInv, <1>1, PTL
=============================================================================
