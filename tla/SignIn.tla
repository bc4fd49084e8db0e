------------------------------- MODULE SignIn -------------------------------
(***************************************************************************)
(* The dashboard's sign-in (app/api/auth.py, app/auth/service.py): one     *)
(* browser, whose tabs share its cookies, registers, logs in, trades its   *)
(* refresh token for a new pair, and logs out.  A refresh is several       *)
(* steps, with a database read between the look into the denylist and the  *)
(* entry it makes there.                                                   *)
(***************************************************************************)
EXTENDS Limiter, FiniteSets

CONSTANTS
    Tab,
    Account,
    Jti,          \* the ids of refresh tokens
    RefreshLife,  \* how long a refresh token is valid
    NoToken

ASSUME SignInAssumption ==
    /\ {"register", "login"} \subseteq DOMAIN Limit
    /\ RefreshLife \in Nat
    /\ NoToken \notin Jti

VARIABLES
    account,   \* the registered accounts
    refresh,   \* the refresh tokens signed so far
    cookie,    \* the one the browser sends
    denied,    \* the denylist: until when it holds a token
    tab,       \* what each tab is waiting for
    burned,    \* history: the tokens that were revoked
    heirs,     \* history: the tokens a token was traded for
    raced      \* history: tokens revoked while another tab was trading them

signInVars == <<account, refresh, cookie, denied, tab, burned, heirs, raced>>

TabStep == {"idle", "registering", "authenticating", "checking", "burning", "issuing"}

NoTab == [step |-> "idle", account |-> {}, jti |-> NoToken]

SignInInit ==
    /\ account = {}
    /\ refresh = [j \in Jti |-> 0]
    /\ cookie = NoToken
    /\ denied = <<>>
    /\ tab = [t \in Tab |-> NoTab]
    /\ burned = {}
    /\ heirs = [j \in Jti |-> {}]
    /\ raced = {}

(* Zero stands for a token that was never signed. *)
Unexpired(j) == j # NoToken /\ refresh[j] > now

TabAt(t, step) == tab[t].step = step

TabGoes(t, step) == tab' = [tab EXCEPT ![t].step = step]

TabDone(t) == tab' = [tab EXCEPT ![t] = NoTab]

(* A token pair is signed, under a fresh id, and its refresh token set as    *)
(* the cookie.                                                               *)
IssueTokens(j) ==
    /\ refresh[j] = 0 /\ j = CHOOSE i \in Jti : refresh[i] = 0
    /\ refresh' = [refresh EXCEPT ![j] = now + RefreshLife]
    /\ cookie' = j

-----------------------------------------------------------------------------
Register(t, u) ==
    /\ TabAt(t, "idle")
    /\ \/ /\ Allows(<<"register">>, Limit["register"])
          /\ tab' = [tab EXCEPT ![t] = [NoTab EXCEPT !.step = "registering", !.account = {u}]]
       \/ Refuses(<<"register">>, Limit["register"]) /\ UNCHANGED tab
    /\ UNCHANGED <<account, refresh, cookie, denied, burned, heirs, raced>>

(* Organization, user and membership are one transaction; the email is       *)
(* unique, and a second registration of it is refused.                       *)
CreateAccount(t) ==
    /\ TabAt(t, "registering")
    /\ \/ /\ tab[t].account \cap account # {}
          /\ UNCHANGED <<account, refresh, cookie>>
       \/ /\ tab[t].account \cap account = {}
          /\ account' = account \cup tab[t].account
          /\ \E j \in Jti : IssueTokens(j)
    /\ TabDone(t)
    /\ UNCHANGED <<limiterVars, denied, burned, heirs, raced>>

Login(t, u) ==
    /\ TabAt(t, "idle")
    /\ \/ /\ Allows(<<"login">>, Limit["login"])
          /\ tab' = [tab EXCEPT ![t] = [NoTab EXCEPT !.step = "authenticating", !.account = {u}]]
       \/ Refuses(<<"login">>, Limit["login"]) /\ UNCHANGED tab
    /\ UNCHANGED <<account, refresh, cookie, denied, burned, heirs, raced>>

(* A wrong password and an unknown email are one answer. *)
Authenticate(t) ==
    /\ TabAt(t, "authenticating")
    /\ \/ UNCHANGED <<refresh, cookie>>
       \/ tab[t].account \subseteq account /\ \E j \in Jti : IssueTokens(j)
    /\ TabDone(t)
    /\ UNCHANGED <<limiterVars, account, denied, burned, heirs, raced>>

-----------------------------------------------------------------------------
(* The trade of a refresh token. *)

StartRefresh(t) ==
    /\ TabAt(t, "idle") /\ Unexpired(cookie)
    /\ tab' = [tab EXCEPT ![t] = [NoTab EXCEPT !.step = "checking", !.jti = cookie]]
    /\ UNCHANGED <<limiterVars, account, refresh, cookie, denied, burned, heirs, raced>>

Denied(j) == j \in DOMAIN denied /\ denied[j] > now

(* A denylist that cannot be reached refuses, as any error does.  The user   *)
(* is read from the database before the next step.                           *)
CheckDenylist(t) ==
    /\ TabAt(t, "checking")
    /\ \/ ~ Denied(tab[t].jti) /\ TabGoes(t, "burning")
       \/ TabDone(t)
    /\ UNCHANGED <<limiterVars, account, refresh, cookie, denied, burned, heirs, raced>>

(* Mutant: the entry lives as long as the shortest-lived token would. *)
RevokeBriefly(j) == denied' = With(denied, j, now + 1)

(* The entry lives as long as a token signed now would. *)
Revoke(j) == denied' = With(denied, j, now + RefreshLife)

(* Others that hold this token already can still trade it. *)
Burns(j, t) ==
    /\ Revoke(j)
    /\ burned' = burned \cup {j}
    /\ raced' = raced \cup {i \in {j} : \E s \in Tab \ {t} : tab[s].jti = i}

(* Mutant: the token is revoked only if its browser still holds it. *)
BurnTokenIfHeld(t) ==
    /\ TabAt(t, "burning")
    /\ IF cookie = tab[t].jti THEN UNCHANGED <<denied, burned, raced>> ELSE Burns(tab[t].jti, t)
    /\ TabGoes(t, "issuing")
    /\ UNCHANGED <<limiterVars, account, refresh, cookie, heirs>>

BurnToken(t) ==
    /\ TabAt(t, "burning")
    /\ Burns(tab[t].jti, t)
    /\ TabGoes(t, "issuing")
    /\ UNCHANGED <<limiterVars, account, refresh, cookie, heirs>>

IssuePair(t) ==
    /\ TabAt(t, "issuing")
    /\ \E j \in Jti :
          /\ IssueTokens(j)
          /\ heirs' = [heirs EXCEPT ![tab[t].jti] = heirs[tab[t].jti] \cup {j}]
    /\ TabDone(t)
    /\ UNCHANGED <<limiterVars, account, denied, burned, raced>>

(* Redis or the database fails, or the browser gives up. *)
RefreshFails(t) ==
    /\ tab[t].step \in {"burning", "issuing"}
    /\ TabDone(t)
    /\ UNCHANGED <<limiterVars, account, refresh, cookie, denied, burned, heirs, raced>>

(* A token that is no longer valid needs no entry. *)
Logout(t) ==
    /\ TabAt(t, "idle") /\ cookie # NoToken
    /\ IF Unexpired(cookie) THEN Burns(cookie, t) ELSE UNCHANGED <<denied, burned, raced>>
    /\ cookie' = NoToken
    /\ UNCHANGED <<limiterVars, account, refresh, tab, heirs>>

SignInStep ==
    \E t \in Tab :
       \/ \E u \in Account : Register(t, u) \/ Login(t, u)
       \/ CreateAccount(t) \/ Authenticate(t)
       \/ StartRefresh(t) \/ CheckDenylist(t) \/ BurnToken(t) \/ IssuePair(t)
       \/ RefreshFails(t) \/ Logout(t)
=============================================================================
