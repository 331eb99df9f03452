------------------------------ MODULE OidcSession ------------------------------
(***************************************************************************)
(* Server-side OIDC sessions (cpkit.auth): login, the check every request   *)
(* goes through, token refresh and logout, over several processes that      *)
(* share the table of sessions.                                             *)
(*                                                                          *)
(* require_authenticated is a coroutine that never awaits on this path: one *)
(* process runs it for one request at a time, blocking its event loop.  The *)
(* callback and the body of the logout run in threads, so they interleave   *)
(* with it.  The provider may rotate refresh tokens: a token is then        *)
(* accepted once.  OIDC is enabled and its configuration does not change.   *)
(***************************************************************************)
EXTENDS AuditHook

CONSTANTS
    Process,
    Request,
    ProcessOf,      \* the process that serves each request
    Logins,         \* bound: logins tried; login n makes session n
    MaxToken,       \* bound: refresh tokens the provider issues to a session
    MaxFaults       \* bound: failed statements and calls, claims refused

ASSUME OidcAssumption ==
    /\ ProcessOf \in [Request -> Process]
    /\ Logins \in Nat
    /\ MaxToken \in Nat \ {0}
    /\ MaxFaults \in Nat

VARIABLES
    rotating,     \* the provider rotates refresh tokens
    accepted,     \* the refresh token the provider accepts for each session
    rows,         \* the table of sessions
    over,         \* sessions whose session_expires_at has passed
    login,        \* how far each login has come
    stateCookie,  \* the login whose state and nonce the browser holds, or 0
    cookie,       \* the session cookie of the browser, or 0
    phase,        \* how far each request has come
    kind,         \* what it asks for
    carried,      \* the session cookie it carries
    copy,         \* the row it read
    fetched,      \* the refresh token it has to store
    faults,
    gone,         \* history: sessions whose logout has deleted the row
    late,         \* history: requests that began after that
    spent,        \* history: who exchanged which token of a session
    lost          \* history: tokens issued and never stored

browser  == <<login, stateCookie, cookie>>
provider == <<rotating, accepted, spent>>
request  == <<phase, kind, carried, copy, fetched, late>>
oidcVars == <<browser, provider, request, rows, over, gone, lost, faults>>

Session == 1 .. Logins
Token   == 0 .. MaxToken       \* 0: no refresh token
NoRow   == [token |-> 0, due |-> FALSE, there |-> FALSE]
Row(t)  == [token |-> t, due |-> FALSE, there |-> TRUE]

LoopPhases == {"found", "refreshing", "refreshed", "dropping"}
Phases     == {"idle", "leaving", "left", "answered", "refused", "raised"}
                  \cup LoopPhases

OidcInit ==
    /\ rotating \in BOOLEAN
    /\ accepted = [s \in Session |-> 0]
    /\ rows = [s \in Session |-> NoRow]
    /\ over = {} /\ gone = {} /\ late = {} /\ spent = {} /\ lost = {}
    /\ login = [s \in Session |-> "none"]
    /\ stateCookie = 0
    /\ cookie = 0
    /\ phase = [r \in Request |-> "idle"]
    /\ kind = [r \in Request |-> "page"]
    /\ carried = [r \in Request |-> 0]
    /\ copy = [r \in Request |-> NoRow]
    /\ fetched = [r \in Request |-> 0]
    /\ faults = 0

Fault ==
    /\ faults < MaxFaults
    /\ faults' = faults + 1

-----------------------------------------------------------------------------
(* Login.                                                                   *)

(* oidc_login: the redirect to the provider sets the anti-forgery cookies. *)
BeginLogin(s) ==
    /\ login[s] = "none"
    /\ \A t \in 1 .. s - 1 : login[t] # "none"
    /\ login' = [login EXCEPT ![s] = "away"]
    /\ stateCookie' = s
    /\ UNCHANGED <<cookie, provider, request, rows, over, gone, lost, faults,
                   auditVars>>

LoginGoes(s, from, to) ==
    /\ login[s] = from
    /\ login' = [login EXCEPT ![s] = to]

(* oidc_callback up to the exchange of the code: the state must be that of  *)
(* the cookies, which another login of this browser may have replaced.      *)
Callback(s) ==
    /\ LoginGoes(s, "away", IF stateCookie = s THEN "checked" ELSE "failed")
    /\ UNCHANGED <<stateCookie, cookie, provider, request, rows, over, gone,
                   lost, faults, auditVars>>

(* exchange_code, validate_jwt, ensure_authorized. *)
Redeem(s) ==
    /\ LoginGoes(s, "checked", "redeemed")
    /\ \E t \in {0, 1} : accepted' = [accepted EXCEPT ![s] = t]
    /\ UNCHANGED <<stateCookie, cookie, rotating, spent, request, rows, over,
                   gone, lost, faults, auditVars>>

(* create_oidc_session. *)
CreateSession(s) ==
    /\ LoginGoes(s, "redeemed", "inserted")
    /\ rows' = [rows EXCEPT ![s] = Row(accepted[s])]
    /\ UNCHANGED <<stateCookie, cookie, provider, request, over, gone, lost,
                   faults, auditVars>>

(* One of these raises, the INSERT with or without its effect. *)
LoginFails(s) ==
    /\ Fault
    /\ LoginGoes(s, "checked", "failed") \/ LoginGoes(s, "redeemed", "failed")
    /\ \/ UNCHANGED rows
       \/ login[s] = "redeemed" /\ rows' = [rows EXCEPT ![s] = Row(accepted[s])]
    /\ UNCHANGED <<stateCookie, cookie, provider, request, over, gone, lost,
                   auditVars>>

(* Mutant: the audit hook of the sessions is a best-effort one. *)
BestEffortAlways == TRUE

(* create_auth_bundle makes a hook that raises. *)
BestEffort == FALSE

(* log_auth_event.  When it raises, the row is there and nobody has its id. *)
RecordLogin(s) ==
    /\ \/ /\ LoginGoes(s, "inserted", "recorded")
          /\ HookReturns(BestEffort, <<"LOGIN", s>>)
       \/ /\ LoginGoes(s, "inserted", "failed")
          /\ HookRaises(BestEffort, <<"LOGIN", s>>)
    /\ UNCHANGED <<stateCookie, cookie, provider, request, rows, over, gone,
                   lost, faults>>

(* The response sets the session cookie and deletes the others, which may   *)
(* be those of another login by now.                                        *)
LoginAnswered(s) ==
    /\ LoginGoes(s, "recorded", "done")
    /\ cookie' = s
    /\ stateCookie' = 0
    /\ UNCHANGED <<provider, request, rows, over, gone, lost, faults,
                   auditVars>>

-----------------------------------------------------------------------------
(* Time.                                                                    *)

SessionExpires(s) ==
    /\ rows[s].there
    /\ over' = over \cup {s}
    /\ UNCHANGED <<browser, provider, request, rows, gone, lost, faults,
                   auditVars>>

(* The refresh deadline of the stored token passes. *)
TokenAges(s) ==
    /\ rows[s].there /\ ~rows[s].due
    /\ rows' = [rows EXCEPT ![s].due = TRUE]
    /\ UNCHANGED <<browser, provider, request, over, gone, lost, faults,
                   auditVars>>

-----------------------------------------------------------------------------
(* claims_from_session and refresh_session, on the event loop.              *)

(* Mutant: the check awaits its statements and calls. *)
LoopFreeAlways(p) == p \in Process

LoopFree(p) ==
    \A r \in Request : phase[r] \in LoopPhases => ProcessOf[r] # p

Goes(r, from, to) ==
    /\ phase[r] = from
    /\ phase' = [phase EXCEPT ![r] = to]

S(r) == carried[r]

(* The caller is who it says: a page is answered, a logout goes to a thread. *)
Passed(r) == IF kind[r] = "page" THEN "answered" ELSE "leaving"

(* get_oidc_session, which does not return a session that is over. *)
Lookup(r, k) ==
    /\ cookie # 0
    /\ LoopFree(ProcessOf[r])
    /\ kind' = [kind EXCEPT ![r] = k]
    /\ carried' = [carried EXCEPT ![r] = cookie]
    /\ late' = IF cookie \in gone THEN late \cup {r} ELSE late
    /\ \/ /\ IF rows[cookie].there /\ cookie \notin over
             THEN /\ Goes(r, "idle", "found")
                  /\ copy' = [copy EXCEPT ![r] = rows[cookie]]
             ELSE Goes(r, "idle", "refused") /\ UNCHANGED copy
          /\ UNCHANGED faults
       \/ Goes(r, "idle", "raised") /\ Fault /\ UNCHANGED copy
    /\ UNCHANGED <<browser, provider, fetched, rows, over, gone, lost,
                   auditVars>>

(* The row is judged: over by now, due for a refresh, or its token is good. *)
Judge(r) ==
    /\ Goes(r, "found", IF S(r) \in over THEN "dropping"
                        ELSE IF copy[r].due THEN "refreshing"
                        ELSE Passed(r))
    /\ UNCHANGED <<browser, provider, kind, carried, copy, fetched, late, rows,
                   over, gone, lost, faults, auditVars>>

(* A token that is not due does not validate, for whatever reason, or its   *)
(* claims are not authorised any more.                                      *)
ValidationRaises(r) ==
    /\ Fault
    /\ S(r) \notin over /\ ~copy[r].due
    /\ Goes(r, "found", "refreshing") \/ Goes(r, "found", "refused")
    /\ UNCHANGED <<browser, provider, kind, carried, copy, fetched, late, rows,
                   over, gone, lost, auditVars>>

(* A session that has no refresh token is dropped. *)
NothingToRefresh(r) ==
    /\ copy[r].token = 0
    /\ Goes(r, "refreshing", "dropping")
    /\ UNCHANGED <<browser, provider, kind, carried, copy, fetched, late, rows,
                   over, gone, lost, faults, auditVars>>

(* The provider accepts the token and issues one: a new one if it rotates.  *)
Issues(r, t) ==
    /\ copy[r].token # 0 /\ copy[r].token = accepted[S(r)]
    /\ t = IF rotating THEN accepted[S(r)] + 1 ELSE accepted[S(r)]
    /\ t \in Token
    /\ accepted' = [accepted EXCEPT ![S(r)] = t]
    /\ spent' = IF rotating
                THEN spent \cup {<<S(r), copy[r].token, ProcessOf[r]>>}
                ELSE spent
    /\ UNCHANGED rotating

(* Mutant: the token that was sent is kept. *)
KeepSent(r, t) == copy[r].token

(* effective_refresh_token. *)
Keep(r, t) == t

Exchange(r) ==
    /\ Goes(r, "refreshing", "refreshed")
    /\ \E t \in Token :
          /\ Issues(r, t)
          /\ fetched' = [fetched EXCEPT ![r] = Keep(r, t)]
    /\ UNCHANGED <<browser, kind, carried, copy, late, rows, over, gone, lost,
                   faults, auditVars>>

(* Token t was issued for r's session and is not going to be stored. *)
Loses(r, t) ==
    lost' = IF rotating THEN lost \cup {<<S(r), t>>} ELSE lost

(* The answer does not arrive, or has no id_token. *)
AnswerLost(r) ==
    /\ Fault
    /\ Goes(r, "refreshing", "dropping")
    /\ \E t \in Token : Issues(r, t) /\ Loses(r, t)
    /\ UNCHANGED <<browser, kind, carried, copy, fetched, late, rows, over,
                   gone, auditVars>>

(* The provider does not know the token any more. *)
Refused(r) ==
    /\ copy[r].token # 0 /\ copy[r].token # accepted[S(r)]
    /\ Goes(r, "refreshing", "dropping")
    /\ UNCHANGED <<browser, provider, kind, carried, copy, fetched, late, rows,
                   over, gone, lost, faults, auditVars>>

(* The provider is not reached. *)
Unreachable(r) ==
    /\ Fault
    /\ copy[r].token # 0
    /\ Goes(r, "refreshing", "dropping")
    /\ UNCHANGED <<browser, provider, kind, carried, copy, fetched, late, rows,
                   over, gone, lost, auditVars>>

(* The new id_token does not validate or its claims are not authorised: the *)
(* row keeps the token that was sent.                                       *)
ClaimsRefused(r) ==
    /\ Fault
    /\ Goes(r, "refreshed", "refused")
    /\ Loses(r, fetched[r])
    /\ UNCHANGED <<browser, provider, kind, carried, copy, fetched, late, rows,
                   over, gone, auditVars>>

(* Mutant: the update inserts the row when it is not there. *)
UpdatedOrInserted(r) ==
    rows' = [rows EXCEPT ![S(r)] = Row(fetched[r])]

(* update_oidc_session: an UPDATE, which does not bring a row back. *)
Updated(r) ==
    rows' = IF rows[S(r)].there
            THEN [rows EXCEPT ![S(r)] = Row(fetched[r])] ELSE rows

Store(r) ==
    /\ \/ Goes(r, "refreshed", Passed(r)) /\ Updated(r) /\ UNCHANGED <<lost, faults>>
       \/ /\ Goes(r, "refreshed", "raised")
          /\ Fault
          /\ \/ Updated(r) /\ UNCHANGED lost
             \/ Loses(r, fetched[r]) /\ UNCHANGED rows
    /\ UNCHANGED <<browser, provider, kind, carried, copy, fetched, late, over,
                   gone, auditVars>>

Deleted(s) == rows' = [rows EXCEPT ![s] = NoRow]

(* delete_oidc_session, and 401. *)
DropSession(r) ==
    /\ \/ Goes(r, "dropping", "refused") /\ Deleted(S(r)) /\ UNCHANGED faults
       \/ /\ Goes(r, "dropping", "raised")
          /\ Fault
          /\ Deleted(S(r)) \/ UNCHANGED rows
    /\ UNCHANGED <<browser, provider, kind, carried, copy, fetched, late, over,
                   gone, lost, auditVars>>

-----------------------------------------------------------------------------
(* oidc_logout, in a thread.                                                *)

LogoutDeletes(r) ==
    /\ \/ /\ Goes(r, "leaving", "left")
          /\ Deleted(S(r))
          /\ gone' = gone \cup {S(r)}
          /\ UNCHANGED faults
       \/ /\ Goes(r, "leaving", "raised")
          /\ Fault
          /\ Deleted(S(r)) \/ UNCHANGED rows
          /\ UNCHANGED gone
    /\ UNCHANGED <<browser, provider, kind, carried, copy, fetched, late, over,
                   lost, auditVars>>

(* The event is written, and only then is the cookie deleted. *)
LogoutRecords(r) ==
    /\ \/ /\ Goes(r, "left", "answered")
          /\ HookReturns(BestEffort, <<"LOGOUT", S(r)>>)
          /\ cookie' = 0
       \/ /\ Goes(r, "left", "raised")
          /\ HookRaises(BestEffort, <<"LOGOUT", S(r)>>)
          /\ UNCHANGED cookie
    /\ UNCHANGED <<login, stateCookie, provider, kind, carried, copy, fetched,
                   late, rows, over, gone, lost, faults>>

-----------------------------------------------------------------------------

OidcNext ==
    \/ \E s \in Session :
          \/ BeginLogin(s)
          \/ Callback(s)
          \/ Redeem(s)
          \/ CreateSession(s)
          \/ LoginFails(s)
          \/ RecordLogin(s)
          \/ LoginAnswered(s)
          \/ SessionExpires(s)
          \/ TokenAges(s)
    \/ \E r \in Request :
          \/ \E k \in {"page", "logout"} : Lookup(r, k)
          \/ Judge(r)
          \/ ValidationRaises(r)
          \/ NothingToRefresh(r)
          \/ Exchange(r)
          \/ AnswerLost(r)
          \/ Refused(r)
          \/ Unreachable(r)
          \/ ClaimsRefused(r)
          \/ Store(r)
          \/ DropSession(r)
          \/ LogoutDeletes(r)
          \/ LogoutRecords(r)

OidcSpec == OidcInit /\ AuditInit /\ [][OidcNext]_<<oidcVars, auditVars>>

-----------------------------------------------------------------------------
(* Correctness.                                                             *)

(* The shape of the state. *)
OidcTypeOK ==
    /\ rotating \in BOOLEAN
    /\ accepted \in [Session -> Token]
    /\ rows \in [Session -> [token : Token, due : BOOLEAN, there : BOOLEAN]]
    /\ over \in SUBSET Session /\ gone \in SUBSET Session
    /\ login \in [Session -> {"none", "away", "checked", "redeemed",
                              "inserted", "recorded", "done", "failed"}]
    /\ stateCookie \in {0} \cup Session /\ cookie \in {0} \cup Session
    /\ phase \in [Request -> Phases]
    /\ kind \in [Request -> {"page", "logout"}]
    /\ carried \in [Request -> {0} \cup Session]
    /\ copy \in [Request -> [token : Token, due : BOOLEAN, there : BOOLEAN]]
    /\ fetched \in [Request -> Token]
    /\ late \in SUBSET Request
    /\ spent \in SUBSET (Session \X Token \X Process)
    /\ lost \in SUBSET (Session \X Token)
    /\ faults \in 0 .. MaxFaults

(* Once a logout has deleted its row, no request that begins afterwards is  *)
(* served for the session, though the browser may still hold the cookie and *)
(* another process be in the middle of refreshing the session.              *)
LogoutIsEffective ==
    \A r \in late : phase[r] \notin {"answered", "leaving", "left"}

(* A refresh is refused, and the session dropped for it, only when another  *)
(* process has exchanged the same token, or the token that replaced it was  *)
(* lost on its way to the table: requests of one process never compete.     *)
RefusalComesFromAnotherProcess ==
    \A r \in Request :
        phase[r] = "refreshing" /\ copy[r].token \notin {0, accepted[S(r)]} =>
            \/ \E p \in Process \ {ProcessOf[r]} :
                  <<S(r), copy[r].token, p>> \in spent
            \/ <<S(r), copy[r].token + 1>> \in lost

(* The table holds the token the provider accepts, unless a request is on   *)
(* its way to store it or it was lost: no refresh overwrites a newer token  *)
(* with an older one.                                                       *)
StoredTokenIsCurrent ==
    \A s \in Session :
        rows[s].there /\ rows[s].token # accepted[s] =>
            \/ <<s, accepted[s]>> \in lost
            \/ \E r \in Request :
                  /\ phase[r] = "refreshed"
                  /\ S(r) = s
                  /\ fetched[r] = accepted[s]

(* Nobody uses a session whose login is not in the audit log, whatever      *)
(* statement of the callback failed.                                        *)
LoginRecordedBeforeUse ==
    \A s \in Session :
        cookie = s \/ (\E r \in Request : S(r) = s) =>
            <<"LOGIN", s>> \in auditLog
=============================================================================
