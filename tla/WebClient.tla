------------------------------ MODULE WebClient ------------------------------
(***************************************************************************)
(* The tabs of one browser (web-app: auth-context.tsx, token-store.ts,      *)
(* apollo-client.ts) and the routes under app/api/auth that turn the API's  *)
(* refresh token into a cookie all tabs share.  A tab keeps its access token *)
(* and its user in memory; the cookie changes when a response arrives.      *)
(***************************************************************************)
EXTENDS Naturals

CONSTANTS Tabs, Accounts, NoAccount, MaxRequests   \* a bound: requests sent

ASSUME WebClientAssumption == NoAccount \notin Accounts /\ MaxRequests \in Nat \ {0}

VARIABLES
    cookie,     \* cura_refresh: number of a refresh token, 0 for none
    refresh,    \* API: [of, state] of each refresh token
    minted,     \* refresh tokens made so far
    tab,        \* each tab's [page, token, user]: whose token, which user it shows
    flight,     \* each tab's requests, one of each slot
    crossed,    \* history: two requests overlapped, or a change was not answered
    stranded,   \* history: refresh tokens revoked by a tenant switch that then failed
    elsewhere,  \* history: tabs whose session another tab has replaced since
    requests    \* requests sent so far (bound only)

webClientVars == <<cookie, refresh, minted, tab, flight, crossed, stranded, elsewhere,
                   requests>>

(* On mount a tab asks once; refreshAccessToken shares one request; a person *)
(* does one thing at a time.                                                 *)
Slots == {"mount", "refresh", "person"}
NoFlight == [pc |-> "none", kind |-> "", carries |-> 0, answer |-> "", gives |-> 0]
ClosedTab == [page |-> "closed", token |-> NoAccount, user |-> NoAccount]

WebClientInit ==
    /\ cookie = 0 /\ minted = 0
    /\ refresh = [n \in 1..MaxRequests |-> [of |-> NoAccount, state |-> "none"]]
    /\ tab = [t \in Tabs |-> ClosedTab]
    /\ flight = [t \in Tabs |-> [s \in Slots |-> NoFlight]]
    /\ crossed = FALSE /\ stranded = {} /\ elsewhere = {} /\ requests = 0

-----------------------------------------------------------------------------
Pending == {ts \in Tabs \X Slots : flight[ts[1]][ts[2]].pc # "none"}

Sent(kind) == [NoFlight EXCEPT !.pc = "sent", !.kind = kind, !.carries = cookie]

Send(t, slot, kind) ==
    /\ flight[t][slot].pc = "none"
    /\ flight' = [flight EXCEPT ![t][slot] = Sent(kind)]
    /\ requests < MaxRequests /\ requests' = requests + 1
    /\ crossed' = (crossed \/ Pending # {})
    /\ UNCHANGED <<cookie, refresh, minted, stranded, elsewhere>>

(* middleware: with a cookie to the app, without one to the login page.      *)
PageFor(c) == IF c = 0 THEN "login" ELSE "app"

(* A page is loaded, or loaded again; what its tab had asked for is lost.    *)
Load(t) ==
    /\ tab' = [tab EXCEPT ![t] = [ClosedTab EXCEPT !.page = PageFor(cookie)]]
    /\ flight' = [flight EXCEPT ![t] = [s \in Slots |->
                     IF s = "mount" THEN Sent("refresh") ELSE NoFlight]]
    /\ requests < MaxRequests /\ requests' = requests + 1
    /\ crossed' = (crossed \/ Pending # {})
    /\ elsewhere' = elsewhere \ {t}
    /\ UNCHANGED <<cookie, refresh, minted, stranded>>

(* A GraphQL answer says the token is stale.                                 *)
Stale(t) ==
    /\ tab[t].token # NoAccount
    /\ Send(t, "refresh", "refresh") /\ UNCHANGED tab

Login(t) == tab[t].page = "login" /\ Send(t, "person", "login") /\ UNCHANGED tab
SwitchTenant(t) == tab[t].user # NoAccount /\ Send(t, "person", "switch") /\ UNCHANGED tab
Logout(t) == tab[t].page = "app" /\ Send(t, "person", "logout") /\ UNCHANGED tab

-----------------------------------------------------------------------------
(* A route handler asks the API and makes the answer: done, refused (the     *)
(* cookie stays), expired (it goes), or down when the API does not answer.   *)
Answers(t, s, answer, gives) ==
    flight' = [flight EXCEPT ![t][s] = [@ EXCEPT !.pc = "served", !.answer = answer,
                                                 !.gives = gives]]

(* The API makes a refresh token of an account; the one sent ends as given.  *)
MintMutant(n, account, old) ==
    LET m == IF n = 0 THEN minted + 1 ELSE minted IN
    /\ minted' = m
    /\ refresh' = [refresh EXCEPT ![m] = [of |-> account, state |-> "live"]]
Mint(n, account, old) ==
    LET m == minted + 1 IN
    /\ minted' = m
    /\ refresh' = [k \in 1..MaxRequests |->
          IF k = m THEN [of |-> account, state |-> "live"]
          ELSE IF k = n THEN [refresh[k] EXCEPT !.state = old] ELSE refresh[k]]

Done(t, s) == Answers(t, s, "done", minted + 1)
Failed(t, s) == \E answer \in {"refused", "down"} : Answers(t, s, answer, 0)

State(n) == IF n = 0 THEN "none" ELSE refresh[n].state

(* A login may fail when its session is made, before its token is signed.    *)
ServeLogin(t) ==
    /\ flight[t]["person"].pc = "sent" /\ flight[t]["person"].kind = "login"
    /\ \/ \E a \in Accounts : Mint(0, a, "live") /\ (Done(t, "person") \/ Failed(t, "person"))
       \/ Failed(t, "person") /\ UNCHANGED <<refresh, minted>>
    /\ UNCHANGED <<cookie, tab, crossed, stranded, elsewhere, requests>>

(* A rotation is answered; or fails after it, which the route takes for an   *)
(* expired session; or is done while the route sees the API as down.         *)
Rotated(t, s) ==
    \/ (Done(t, s) \/ Answers(t, s, "expired", 0)) /\ UNCHANGED crossed
    \/ Answers(t, s, "down", 0) /\ crossed' = TRUE

(* A revoked token ends all sessions of its account.                         *)
ServeRefresh(t, s) ==
    LET n == flight[t][s].carries IN
    /\ flight[t][s].pc = "sent" /\ flight[t][s].kind = "refresh"
    /\ \/ State(n) = "live" /\ Mint(n, refresh[n].of, "rotated") /\ Rotated(t, s)
       \/ /\ n # 0
          /\ \/ UNCHANGED refresh
             \/ /\ State(n) = "revoked"
                /\ refresh' = [k \in 1..MaxRequests |->
                      IF refresh[k].of = refresh[n].of /\ refresh[k].state = "live"
                      THEN [refresh[k] EXCEPT !.state = "revoked"] ELSE refresh[k]]
          /\ \E answer \in {"expired", "down"} : Answers(t, s, answer, 0)
          /\ UNCHANGED <<minted, crossed>>
       \/ n = 0 /\ Answers(t, s, "refused", 0) /\ UNCHANGED <<refresh, minted, crossed>>
    /\ UNCHANGED <<cookie, tab, stranded, elsewhere, requests>>

(* Revoke the session, then make one: a switch that fails in between, or     *)
(* before its access token is signed, leaves the revoked token in the cookie.*)
ServeSwitch(t) ==
    LET n == flight[t]["person"].carries IN
    /\ flight[t]["person"].pc = "sent" /\ flight[t]["person"].kind = "switch"
    /\ \/ /\ State(n) = "live" /\ \E a \in Accounts : Mint(n, a, "revoked")
          /\ Done(t, "person") /\ UNCHANGED stranded
       \/ /\ State(n) = "live" /\ stranded' = stranded \cup {n}
          /\ \/ \E a \in Accounts : Mint(n, a, "revoked")
             \/ refresh' = [refresh EXCEPT ![n].state = "revoked"] /\ UNCHANGED minted
          /\ Failed(t, "person")
       \/ Failed(t, "person") /\ UNCHANGED <<refresh, minted, stranded>>
    /\ UNCHANGED <<cookie, tab, crossed, elsewhere, requests>>

(* The revocation is tried; the cookie is deleted whatever comes of it.      *)
ServeLogout(t) ==
    LET n == flight[t]["person"].carries IN
    /\ flight[t]["person"].pc = "sent" /\ flight[t]["person"].kind = "logout"
    /\ \/ State(n) = "live" /\ refresh' = [refresh EXCEPT ![n].state = "revoked"]
       \/ UNCHANGED refresh
    /\ Answers(t, "person", "expired", 0)
    /\ UNCHANGED <<cookie, minted, tab, crossed, stranded, elsewhere, requests>>

-----------------------------------------------------------------------------
CookieAfterMutant(f) == IF f.answer = "expired" THEN 0
                        ELSE IF f.answer = "done" /\ f.kind # "refresh" THEN f.gives ELSE cookie
CookieAfter(f) == CASE f.answer = "done" -> f.gives
                    [] f.answer = "expired" -> 0
                    [] OTHER -> cookie

(* What a tab makes of an answer: the mount and the person's requests take   *)
(* the token and the user, a refresh the token alone.                        *)
TabAfter(t, s, f, c) ==
    LET whose == refresh[f.gives].of IN
    CASE f.kind = "logout" -> [ClosedTab EXCEPT !.page = PageFor(c)]
      [] f.answer = "done" /\ s = "refresh" -> [tab[t] EXCEPT !.token = whose]
      [] f.answer = "done" /\ s = "mount" -> [tab[t] EXCEPT !.token = whose, !.user = whose]
      [] f.answer = "done" /\ s = "person" -> [page |-> "app", token |-> whose, user |-> whose]
      [] f.answer # "done" /\ s = "refresh" -> [tab[t] EXCEPT !.token = NoAccount]
      [] OTHER -> tab[t]

Arrive(t, s) ==
    LET f == flight[t][s] IN
    /\ f.pc = "served"
    /\ cookie' = CookieAfter(f)
    /\ tab' = [tab EXCEPT ![t] = TabAfter(t, s, f, cookie')]
    /\ flight' = [flight EXCEPT ![t][s] = NoFlight]
    /\ elsewhere' = IF f.answer = "done" /\ s # "refresh"
                    THEN (IF s = "person" THEN Tabs \ {t} ELSE elsewhere \ {t})
                    ELSE elsewhere
    /\ UNCHANGED <<refresh, minted, crossed, stranded, requests>>

(* The request or its response does not arrive; the fetch rejects.           *)
Lose(t, s) ==
    LET f == flight[t][s] IN
    /\ f.pc # "none"
    /\ tab' = [tab EXCEPT ![t] = TabAfter(t, s, [f EXCEPT !.answer = "down"], cookie)]
    /\ flight' = [flight EXCEPT ![t][s] = NoFlight]
    /\ crossed' = (crossed \/ f.answer = "done" \/ (f.answer = "expired" /\ f.carries # 0))
    /\ UNCHANGED <<cookie, refresh, minted, stranded, elsewhere, requests>>

WebClientNext ==
    \E t \in Tabs :
        \/ Load(t) \/ Stale(t) \/ Login(t) \/ SwitchTenant(t) \/ Logout(t)
        \/ ServeLogin(t) \/ ServeSwitch(t) \/ ServeLogout(t)
        \/ \E s \in Slots : ServeRefresh(t, s) \/ Arrive(t, s) \/ Lose(t, s)

WebClientSpec == WebClientInit /\ [][WebClientNext]_webClientVars

-----------------------------------------------------------------------------
WebClientTypeOK ==
    /\ cookie \in 0..minted /\ minted \in 0..MaxRequests
    /\ \A n \in 1..MaxRequests :
          /\ refresh[n].state \in {"none", "live", "rotated", "revoked"}
          /\ refresh[n].of = NoAccount <=> n > minted
    /\ tab \in [Tabs -> [page : {"closed", "login", "app"}, token : Accounts \cup {NoAccount},
                         user : Accounts \cup {NoAccount}]]
    /\ \A t \in Tabs, s \in Slots :
          /\ flight[t][s].pc \in {"none", "sent", "served"}
          /\ flight[t][s].carries \in 0..minted /\ flight[t][s].gives \in 0..minted
    /\ crossed \in BOOLEAN /\ stranded \subseteq 1..MaxRequests
    /\ elsewhere \subseteq Tabs /\ requests \in 0..MaxRequests

(* When no request is under way, no two have overlapped and no change went   *)
(* unanswered, the cookie is the API's live token and each tab holds a token *)
(* of the user it shows, unless another tab has signed in or switched tenants*)
(* since.  One thing makes it a dead token with nothing overlapping: a       *)
(* switchTenant that fails after it has revoked the session                  *)
(* (auth.service.ts:248-254), since the route forwards the error and keeps   *)
(* the cookie (switch-tenant/route.ts:36-41).                                *)
QuietBrowserAgrees ==
    Pending = {} /\ ~crossed =>
        /\ cookie = 0 \/ State(cookie) = "live" \/ cookie \in stranded
        /\ \A t \in Tabs \ elsewhere : tab[t].token \in {NoAccount, tab[t].user}
=============================================================================
