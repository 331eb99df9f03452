-------------------------- MODULE OidcSession_proofs --------------------------
(***************************************************************************)
(* What TLAPS proves of OidcSession, for any processes, requests, logins    *)
(* and failures: the shape of the state, that a logout is effective, that   *)
(* a login is recorded before its session is used, that the table holds the *)
(* token the provider accepts, and that a refresh is refused only because   *)
(* of another process or of a lost token.                                   *)
(***************************************************************************)
EXTENDS OidcSession, TLAPS

-----------------------------------------------------------------------------
(* Logins, cookies and rows.                                                *)

(* There is no row before the statement that inserts it. *)
RowsFollowLogins ==
    \A s \in Session :
        login[s] \in {"none", "away", "checked", "redeemed"} => rows[s] = NoRow

(* The browser has, and a request carries, the session of a finished login. *)
CookiesAreDone ==
    /\ cookie \in Session => login[cookie] = "done"
    /\ \A r \in Request :
          \/ phase[r] = "idle" /\ S(r) = 0
          \/ phase[r] # "idle" /\ S(r) \in Session /\ login[S(r)] = "done"

(* A row that a logout has deleted does not come back, *)
GoneIsGone ==
    \A s \in gone : login[s] = "done" /\ rows[s] = NoRow

(* so that a request that begins after it is refused, or raises. *)
LateIsRefused == \A r \in late : phase[r] \in {"refused", "raised"}

(* What is recorded stays recorded. *)
LoginsAreRecorded ==
    \A s \in Session :
        login[s] \in {"recorded", "done"} => <<"LOGIN", s>> \in auditLog

LoginInv ==
    /\ RowsFollowLogins
    /\ CookiesAreDone
    /\ GoneIsGone
    /\ LateIsRefused
    /\ LoginsAreRecorded

IInv == OidcTypeOK /\ LoginInv

LEMMA SessionsAreNumbered == Session \subseteq Nat /\ 0 \notin Session
BY OidcAssumption DEF Session

LEMMA FaultType ==
    ASSUME OidcTypeOK, Fault
    PROVE  faults' \in 0 .. MaxFaults
BY OidcAssumption DEF OidcTypeOK, Fault

LEMMA RowsAreRows ==
    /\ NoRow \in [token : Token, due : BOOLEAN, there : BOOLEAN]
    /\ \A t \in Token :
          Row(t) \in [token : Token, due : BOOLEAN, there : BOOLEAN]
BY OidcAssumption DEF NoRow, Row, Token

LEMMA InitInv == OidcInit => IInv
<1> SUFFICES ASSUME OidcInit PROVE IInv
  OBVIOUS
<1> USE DEF OidcInit
<1>1. OidcTypeOK
  BY OidcAssumption DEF OidcTypeOK, NoRow, Token, Phases
<1>2. LoginInv
  BY SessionsAreNumbered DEF LoginInv, RowsFollowLogins, CookiesAreDone,
     GoneIsGone, LateIsRefused, LoginsAreRecorded, S
<1>3. QED
  BY <1>1, <1>2 DEF IInv

(* The actions of a login. *)
LEMMA BeginLoginInv ==
    ASSUME IInv, NEW s \in Session, BeginLogin(s)
    PROVE  IInv'
<1> USE DEF IInv, OidcTypeOK, BeginLogin, browser, provider, request
<1>1. OidcTypeOK'
  OBVIOUS
<1>2. LoginInv'
  BY SessionsAreNumbered DEF LoginInv, RowsFollowLogins, CookiesAreDone,
     GoneIsGone, LateIsRefused, LoginsAreRecorded, S, auditVars
<1>3. QED
  BY <1>1, <1>2

LEMMA CallbackInv ==
    ASSUME IInv, NEW s \in Session, Callback(s)
    PROVE  IInv'
<1> USE DEF IInv, OidcTypeOK, Callback, browser, provider, request
<1>1. OidcTypeOK'
  BY DEF LoginGoes
<1>2. LoginInv'
  BY SessionsAreNumbered DEF LoginInv, RowsFollowLogins, CookiesAreDone,
     GoneIsGone, LateIsRefused, LoginsAreRecorded, S,
     auditVars, LoginGoes
<1>3. QED
  BY <1>1, <1>2

LEMMA RedeemInv ==
    ASSUME IInv, NEW s \in Session, Redeem(s)
    PROVE  IInv'
<1> USE DEF IInv, OidcTypeOK, Redeem, browser, provider, request
<1>1. OidcTypeOK'
  BY OidcAssumption DEF LoginGoes, Token
<1>2. LoginInv'
  BY SessionsAreNumbered DEF LoginInv, RowsFollowLogins, CookiesAreDone,
     GoneIsGone, LateIsRefused, LoginsAreRecorded, S,
     auditVars, LoginGoes
<1>3. QED
  BY <1>1, <1>2

LEMMA CreateSessionInv ==
    ASSUME IInv, NEW s \in Session, CreateSession(s)
    PROVE  IInv'
<1> USE DEF IInv, OidcTypeOK, CreateSession, browser, provider, request
<1>1. OidcTypeOK'
  BY DEF LoginGoes, Row
<1>2. LoginInv'
  BY SessionsAreNumbered DEF LoginInv, RowsFollowLogins, CookiesAreDone,
     GoneIsGone, LateIsRefused, LoginsAreRecorded, S,
     auditVars, LoginGoes
<1>3. QED
  BY <1>1, <1>2

LEMMA LoginFailsInv ==
    ASSUME IInv, NEW s \in Session, LoginFails(s)
    PROVE  IInv'
<1> USE DEF IInv, OidcTypeOK, LoginFails, browser, provider, request
<1>1. OidcTypeOK'
  <2>1. rows' \in [Session -> [token : Token, due : BOOLEAN, there : BOOLEAN]]
    BY RowsAreRows
  <2>2. QED
    BY <2>1, FaultType DEF LoginGoes
<1>2. LoginInv'
  <2>1. /\ login' = [login EXCEPT ![s] = "failed"]
        /\ login[s] \in {"checked", "redeemed"}
        /\ \A t \in Session \ {s} : rows'[t] = rows[t]
    BY DEF LoginGoes
  <2>2. RowsFollowLogins' /\ GoneIsGone'
    BY <2>1 DEF LoginInv, RowsFollowLogins, GoneIsGone
  <2>3. CookiesAreDone' /\ LateIsRefused' /\ LoginsAreRecorded'
    BY <2>1, SessionsAreNumbered DEF LoginInv, CookiesAreDone, LateIsRefused,
       LoginsAreRecorded, S, auditVars
  <2>4. QED
    BY <2>2, <2>3 DEF LoginInv
<1>3. QED
  BY <1>1, <1>2

LEMMA RecordLoginInv ==
    ASSUME IInv, NEW s \in Session, RecordLogin(s)
    PROVE  IInv'
<1> USE DEF IInv, OidcTypeOK, RecordLogin, browser, provider, request
<1>1. OidcTypeOK'
  BY DEF LoginGoes
<1>2. LoginInv'
  <2>1. /\ login[s] = "inserted"
        /\ \E to \in {"recorded", "failed"} :
              login' = [login EXCEPT ![s] = to]
        /\ auditLog \subseteq auditLog'
        /\ login'[s] = "recorded" => <<"LOGIN", s>> \in auditLog'
    BY DEF LoginGoes, HookReturns, HookRaises, Recorded, NotRecorded,
       BestEffort
  <2>2. RowsFollowLogins' /\ GoneIsGone'
    BY <2>1 DEF LoginInv, RowsFollowLogins, GoneIsGone
  <2>3. CookiesAreDone' /\ LateIsRefused'
    BY <2>1, SessionsAreNumbered DEF LoginInv, CookiesAreDone, LateIsRefused, S
  <2>4. LoginsAreRecorded'
    BY <2>1 DEF LoginInv, LoginsAreRecorded
  <2>5. QED
    BY <2>2, <2>3, <2>4 DEF LoginInv
<1>3. QED
  BY <1>1, <1>2

LEMMA LoginAnsweredInv ==
    ASSUME IInv, NEW s \in Session, LoginAnswered(s)
    PROVE  IInv'
<1> USE DEF IInv, OidcTypeOK, LoginAnswered, browser, provider, request
<1>1. OidcTypeOK'
  BY DEF LoginGoes
<1>2. LoginInv'
  BY SessionsAreNumbered DEF LoginInv, RowsFollowLogins, CookiesAreDone,
     GoneIsGone, LateIsRefused, LoginsAreRecorded, S,
     auditVars, LoginGoes
<1>3. QED
  BY <1>1, <1>2

LEMMA SessionExpiresInv ==
    ASSUME IInv, NEW s \in Session, SessionExpires(s)
    PROVE  IInv'
<1> USE DEF IInv, OidcTypeOK, SessionExpires, browser, provider, request
<1>1. OidcTypeOK'
  OBVIOUS
<1>2. LoginInv'
  BY DEF LoginInv, RowsFollowLogins, CookiesAreDone,
     GoneIsGone, LateIsRefused, LoginsAreRecorded, S, auditVars
<1>3. QED
  BY <1>1, <1>2

LEMMA TokenAgesInv ==
    ASSUME IInv, NEW s \in Session, TokenAges(s)
    PROVE  IInv'
<1> USE DEF IInv, OidcTypeOK, TokenAges, browser, provider, request
<1>1. OidcTypeOK'
  OBVIOUS
<1>2. LoginInv'
  <2>1. rows[s] # NoRow
    BY DEF NoRow
  <2>2. \A t \in Session \ {s} : rows'[t] = rows[t]
    OBVIOUS
  <2>3. RowsFollowLogins' /\ GoneIsGone'
    BY <2>1, <2>2 DEF LoginInv, RowsFollowLogins, GoneIsGone
  <2>4. CookiesAreDone' /\ LateIsRefused' /\ LoginsAreRecorded'
    BY DEF LoginInv, CookiesAreDone, LateIsRefused, LoginsAreRecorded, S,
       auditVars
  <2>5. QED
    BY <2>3, <2>4 DEF LoginInv
<1>3. QED
  BY <1>1, <1>2

(* A request that is past its lookup moves, and touches its own session's   *)
(* row and nobody else's.                                                   *)
LEMMA RequestMoves ==
    ASSUME IInv, NEW r \in Request, NEW to \in Phases \ {"idle"},
           phase[r] \notin {"idle", "refused", "raised"},
           phase' = [phase EXCEPT ![r] = to],
           UNCHANGED <<login, carried, late>>,
           cookie' \in {0, cookie},
           auditLog \subseteq auditLog',
           \A s \in Session \ {S(r)} : rows'[s] = rows[s],
           gone' \subseteq gone \cup {S(r)},
           S(r) \in gone' => rows'[S(r)] = NoRow
    PROVE  LoginInv'
<1> USE SessionsAreNumbered DEF IInv, OidcTypeOK, LoginInv
<1>1. S(r) \in Session /\ login[S(r)] = "done" /\ r \notin late
  BY DEF CookiesAreDone, LateIsRefused
<1>2. RowsFollowLogins'
  BY <1>1 DEF RowsFollowLogins
<1>3. CookiesAreDone'
  BY DEF CookiesAreDone, S
<1>4. GoneIsGone'
  BY <1>1 DEF GoneIsGone
<1>5. LateIsRefused'
  BY <1>1 DEF LateIsRefused
<1>6. LoginsAreRecorded'
  BY DEF LoginsAreRecorded
<1>7. QED
  BY <1>2, <1>3, <1>4, <1>5, <1>6

LEMMA LookupInv ==
    ASSUME IInv, NEW r \in Request, NEW k \in {"page", "logout"}, Lookup(r, k)
    PROVE  IInv'
<1> USE DEF IInv, OidcTypeOK, Lookup, browser, provider, request, Goes
<1>1. cookie \in Session /\ login[cookie] = "done"
  BY DEF LoginInv, CookiesAreDone
<1>2. OidcTypeOK'
  BY <1>1, FaultType DEF Phases, LoopPhases
<1>3. RowsFollowLogins' /\ GoneIsGone' /\ LoginsAreRecorded'
  BY DEF LoginInv, RowsFollowLogins, GoneIsGone, LoginsAreRecorded, auditVars
<1>4. CookiesAreDone'
  BY <1>1 DEF LoginInv, CookiesAreDone, S
<1>5. cookie \in gone => rows[cookie].there = FALSE
  BY DEF LoginInv, GoneIsGone, NoRow
<1>6. LateIsRefused'
  BY <1>5 DEF LoginInv, LateIsRefused
<1>7. QED
  BY <1>2, <1>3, <1>4, <1>6 DEF LoginInv

LEMMA JudgeInv ==
    ASSUME IInv, NEW r \in Request, Judge(r)
    PROVE  IInv'
<1> USE DEF IInv, OidcTypeOK, Judge, browser, provider, request, Goes
<1>1. S(r) \in Session
  BY DEF LoginInv, CookiesAreDone
<1>2. OidcTypeOK'
  BY DEF Phases, LoopPhases, Passed
<1>3. LoginInv'
  BY <1>1, RequestMoves
     DEF Phases, LoopPhases, Passed, auditVars, LoginInv, GoneIsGone
<1>4. QED
  BY <1>2, <1>3

LEMMA ValidationRaisesInv ==
    ASSUME IInv, NEW r \in Request, ValidationRaises(r)
    PROVE  IInv'
<1> USE DEF IInv, OidcTypeOK, ValidationRaises, browser, provider, request, Goes
<1>1. S(r) \in Session
  BY DEF LoginInv, CookiesAreDone
<1>2. OidcTypeOK'
  BY FaultType DEF Phases, LoopPhases
<1>3. LoginInv'
  BY <1>1, RequestMoves DEF Phases, LoopPhases, auditVars, LoginInv, GoneIsGone
<1>4. QED
  BY <1>2, <1>3

LEMMA NothingToRefreshInv ==
    ASSUME IInv, NEW r \in Request, NothingToRefresh(r)
    PROVE  IInv'
<1> USE DEF IInv, OidcTypeOK, NothingToRefresh, browser, provider, request, Goes
<1>1. S(r) \in Session
  BY DEF LoginInv, CookiesAreDone
<1>2. OidcTypeOK'
  BY DEF Phases, LoopPhases
<1>3. LoginInv'
  BY <1>1, RequestMoves DEF Phases, LoopPhases, auditVars, LoginInv, GoneIsGone
<1>4. QED
  BY <1>2, <1>3

LEMMA IssuesType ==
    ASSUME OidcTypeOK, NEW r \in Request, S(r) \in Session,
           NEW t \in Token, Issues(r, t)
    PROVE  /\ accepted' \in [Session -> Token]
           /\ spent' \in SUBSET (Session \X Token \X Process)
<1>1. accepted' \in [Session -> Token]
  BY DEF OidcTypeOK, Issues
<1>2. copy[r].token \in Token /\ ProcessOf[r] \in Process
  BY OidcAssumption DEF OidcTypeOK
<1>3. spent' \in SUBSET (Session \X Token \X Process)
  BY <1>2 DEF OidcTypeOK, Issues
<1>4. QED
  BY <1>1, <1>3

LEMMA ExchangeInv ==
    ASSUME IInv, NEW r \in Request, Exchange(r)
    PROVE  IInv'
<1> USE DEF IInv, OidcTypeOK, Exchange, browser, provider, request, Goes
<1>1. S(r) \in Session
  BY DEF LoginInv, CookiesAreDone
<1>2. OidcTypeOK'
  <2>1. PICK t \in Token :
           /\ Issues(r, t)
           /\ fetched' = [fetched EXCEPT ![r] = Keep(r, t)]
    OBVIOUS
  <2>2. /\ accepted' \in [Session -> Token]
        /\ spent' \in SUBSET (Session \X Token \X Process)
        /\ fetched' \in [Request -> Token]
        /\ rotating' = rotating
    BY <1>1, <2>1, IssuesType DEF Issues, Keep
  <2>3. QED
    BY <2>2 DEF Phases, LoopPhases
<1>3. LoginInv'
  BY <1>1, RequestMoves DEF Phases, LoopPhases, auditVars, LoginInv, GoneIsGone
<1>4. QED
  BY <1>2, <1>3

LEMMA AnswerLostInv ==
    ASSUME IInv, NEW r \in Request, AnswerLost(r)
    PROVE  IInv'
<1> USE DEF IInv, OidcTypeOK, AnswerLost, browser, provider, request, Goes
<1>1. S(r) \in Session
  BY DEF LoginInv, CookiesAreDone
<1>2. OidcTypeOK'
  <2>1. PICK t \in Token :
           /\ Issues(r, t)
           /\ Loses(r, t)
    OBVIOUS
  <2>2. /\ accepted' \in [Session -> Token]
        /\ spent' \in SUBSET (Session \X Token \X Process)
        /\ rotating' = rotating
    BY <1>1, <2>1, IssuesType DEF Issues
  <2>3. lost' \in SUBSET (Session \X Token)
    BY <1>1, <2>1 DEF Loses
  <2>4. QED
    BY <2>2, <2>3, FaultType DEF Phases, LoopPhases
<1>3. LoginInv'
  BY <1>1, RequestMoves DEF Phases, LoopPhases, auditVars, LoginInv, GoneIsGone
<1>4. QED
  BY <1>2, <1>3

LEMMA RefusedInv ==
    ASSUME IInv, NEW r \in Request, Refused(r)
    PROVE  IInv'
<1> USE DEF IInv, OidcTypeOK, Refused, browser, provider, request, Goes
<1>1. S(r) \in Session
  BY DEF LoginInv, CookiesAreDone
<1>2. OidcTypeOK'
  BY DEF Phases, LoopPhases
<1>3. LoginInv'
  BY <1>1, RequestMoves DEF Phases, LoopPhases, auditVars, LoginInv, GoneIsGone
<1>4. QED
  BY <1>2, <1>3

LEMMA UnreachableInv ==
    ASSUME IInv, NEW r \in Request, Unreachable(r)
    PROVE  IInv'
<1> USE DEF IInv, OidcTypeOK, Unreachable, browser, provider, request, Goes
<1>1. S(r) \in Session
  BY DEF LoginInv, CookiesAreDone
<1>2. OidcTypeOK'
  BY FaultType DEF Phases, LoopPhases
<1>3. LoginInv'
  BY <1>1, RequestMoves DEF Phases, LoopPhases, auditVars, LoginInv, GoneIsGone
<1>4. QED
  BY <1>2, <1>3

LEMMA ClaimsRefusedInv ==
    ASSUME IInv, NEW r \in Request, ClaimsRefused(r)
    PROVE  IInv'
<1> USE DEF IInv, OidcTypeOK, ClaimsRefused, browser, provider, request, Goes
<1>1. S(r) \in Session
  BY DEF LoginInv, CookiesAreDone
<1>2. OidcTypeOK'
  BY <1>1, FaultType DEF Phases, LoopPhases, Loses
<1>3. LoginInv'
  BY <1>1, RequestMoves DEF Phases, LoopPhases, auditVars, LoginInv, GoneIsGone
<1>4. QED
  BY <1>2, <1>3

LEMMA StoreInv ==
    ASSUME IInv, NEW r \in Request, Store(r)
    PROVE  IInv'
<1> USE DEF IInv, OidcTypeOK, Store, browser, provider, request, Goes
<1>1. S(r) \in Session
  BY DEF LoginInv, CookiesAreDone
<1>2. OidcTypeOK'
  <2>1. /\ rows' \in
              [Session -> [token : Token, due : BOOLEAN, there : BOOLEAN]]
        /\ lost' \in SUBSET (Session \X Token)
    BY <1>1, RowsAreRows DEF Updated, Loses
  <2>2. QED
    BY <2>1, FaultType DEF Phases, LoopPhases, Passed
<1>3. LoginInv'
  BY <1>1, RequestMoves
     DEF Phases, LoopPhases, Passed, Updated, auditVars, LoginInv, GoneIsGone,
         NoRow
<1>4. QED
  BY <1>2, <1>3

LEMMA DropSessionInv ==
    ASSUME IInv, NEW r \in Request, DropSession(r)
    PROVE  IInv'
<1> USE DEF IInv, OidcTypeOK, DropSession, browser, provider, request, Goes
<1>1. S(r) \in Session
  BY DEF LoginInv, CookiesAreDone
<1>2. OidcTypeOK'
  <2>1. rows' \in [Session -> [token : Token, due : BOOLEAN, there : BOOLEAN]]
    BY RowsAreRows DEF Deleted
  <2>2. QED
    BY <1>1, <2>1, FaultType DEF Phases, LoopPhases
<1>3. LoginInv'
  BY <1>1, RequestMoves
     DEF Phases, LoopPhases, Deleted, auditVars, LoginInv, GoneIsGone
<1>4. QED
  BY <1>2, <1>3

LEMMA LogoutDeletesInv ==
    ASSUME IInv, NEW r \in Request, LogoutDeletes(r)
    PROVE  IInv'
<1> USE DEF IInv, OidcTypeOK, LogoutDeletes, browser, provider, request, Goes
<1>1. S(r) \in Session
  BY DEF LoginInv, CookiesAreDone
<1>2. OidcTypeOK'
  <2>1. rows' \in [Session -> [token : Token, due : BOOLEAN, there : BOOLEAN]]
    BY RowsAreRows DEF Deleted
  <2>2. QED
    BY <1>1, <2>1, FaultType DEF Phases, LoopPhases
<1>3. LoginInv'
  BY <1>1, RequestMoves
     DEF Phases, LoopPhases, Deleted, auditVars, LoginInv, GoneIsGone
<1>4. QED
  BY <1>2, <1>3

LEMMA LogoutRecordsInv ==
    ASSUME IInv, NEW r \in Request, LogoutRecords(r)
    PROVE  IInv'
<1> USE DEF IInv, OidcTypeOK, LogoutRecords, browser, provider, request, Goes
<1>1. S(r) \in Session
  BY DEF LoginInv, CookiesAreDone
<1>2. OidcTypeOK'
  BY DEF Phases, LoopPhases
<1>3. LoginInv'
  BY <1>1, RequestMoves
     DEF Phases, LoopPhases, HookReturns, HookRaises, Recorded,
     NotRecorded, BestEffort, LoginInv, GoneIsGone
<1>4. QED
  BY <1>2, <1>3

LEMMA StepInv == IInv /\ [OidcNext]_<<oidcVars, auditVars>> => IInv'
<1> SUFFICES ASSUME IInv, [OidcNext]_<<oidcVars, auditVars>> PROVE IInv'
  OBVIOUS
<1>1. CASE UNCHANGED <<oidcVars, auditVars>>
  BY <1>1 DEF IInv, OidcTypeOK, LoginInv, RowsFollowLogins, CookiesAreDone,
     GoneIsGone, LateIsRefused, LoginsAreRecorded, S, oidcVars, browser,
     provider, request, auditVars
<1>2. ASSUME NEW s \in Session,
             \/ BeginLogin(s) \/ Callback(s) \/ Redeem(s)
             \/ CreateSession(s) \/ LoginFails(s) \/ RecordLogin(s)
             \/ LoginAnswered(s) \/ SessionExpires(s) \/ TokenAges(s)
      PROVE  IInv'
  BY <1>2, BeginLoginInv, CallbackInv, RedeemInv, CreateSessionInv,
     LoginFailsInv, RecordLoginInv, LoginAnsweredInv, SessionExpiresInv,
     TokenAgesInv
<1>3. ASSUME NEW r \in Request,
             \/ \E k \in {"page", "logout"} : Lookup(r, k)
             \/ Judge(r) \/ ValidationRaises(r) \/ NothingToRefresh(r)
             \/ Exchange(r) \/ AnswerLost(r) \/ Refused(r)
             \/ Unreachable(r) \/ ClaimsRefused(r) \/ Store(r)
             \/ DropSession(r) \/ LogoutDeletes(r) \/ LogoutRecords(r)
      PROVE  IInv'
  BY <1>3, LookupInv, JudgeInv, ValidationRaisesInv, NothingToRefreshInv,
     ExchangeInv, AnswerLostInv, RefusedInv, UnreachableInv, ClaimsRefusedInv,
     StoreInv, DropSessionInv, LogoutDeletesInv, LogoutRecordsInv
<1>4. QED
  BY <1>1, <1>2, <1>3 DEF OidcNext

LEMMA SpecInv == OidcSpec => []IInv
BY InitInv, StepInv, PTL DEF OidcSpec

(* The variables of the sessions keep their shapes: a request past its      *)
(* lookup carries a session, every token is one the provider issued, and    *)
(* the failures stay within their bound.                                    *)
THEOREM TypeCorrect == OidcSpec => []OidcTypeOK
<1>1. IInv => OidcTypeOK
  BY DEF IInv
<1>2. QED
  BY <1>1, SpecInv, PTL

(* A request that begins after a logout has deleted the row is not served:  *)
(* an update never brings the row back and no login makes the session again.*)
THEOREM LogoutIsEffectiveHolds == OidcSpec => []LogoutIsEffective
<1>1. IInv => LogoutIsEffective
  BY DEF IInv, LoginInv, LateIsRefused, LogoutIsEffective
<1>2. QED
  BY <1>1, SpecInv, PTL

(* A session in use has its login in the audit log: the callback sets the   *)
(* cookie only after the hook has returned, and the hook raises when the    *)
(* record is not written.                                                   *)
THEOREM LoginRecordedHolds == OidcSpec => []LoginRecordedBeforeUse
<1>1. IInv => LoginRecordedBeforeUse
  BY SessionsAreNumbered
     DEF IInv, LoginInv, CookiesAreDone, LoginsAreRecorded,
         LoginRecordedBeforeUse
<1>2. QED
  BY <1>1, SpecInv, PTL

-----------------------------------------------------------------------------
(* Tokens.                                                                  *)

(* One event loop runs the check of one request at a time. *)
LoopIsExclusive ==
    \A q, r \in Request :
        q # r /\ phase[q] \in LoopPhases /\ phase[r] \in LoopPhases =>
            ProcessOf[q] # ProcessOf[r]

(* The table is at most one token behind the provider, and then the newer   *)
(* one is lost or on its way to the table.                                  *)
StoredIsRecent ==
    \A s \in Session : rows[s].there =>
        \/ rows[s].token = accepted[s]
        \/ /\ rotating
           /\ rows[s].token + 1 = accepted[s]
           /\ \/ <<s, accepted[s]>> \in lost
              \/ \E r \in Request : phase[r] = "refreshed" /\ S(r) = s

(* A request that has still to store a token has the accepted one; if the   *)
(* provider rotates, nobody else and no row has it.                         *)
RefreshedIsNewest ==
    \A r \in Request : phase[r] = "refreshed" =>
        /\ fetched[r] = accepted[S(r)]
        /\ rotating =>
              /\ copy[r].token + 1 = accepted[S(r)]
              /\ <<S(r), copy[r].token, ProcessOf[r]>> \in spent
              /\ rows[S(r)].there => rows[S(r)].token # accepted[S(r)]
              /\ \A q \in Request \ {r} : S(q) = S(r) =>
                    /\ phase[q] # "refreshed"
                    /\ phase[q] \in {"found", "refreshing"} =>
                          copy[q].token # accepted[S(r)]

(* What a refused request will blame. *)
Excused(r) ==
    \/ \E p \in Process \ {ProcessOf[r]} : <<S(r), copy[r].token, p>> \in spent
    \/ <<S(r), copy[r].token + 1>> \in lost

(* The token a request has read is not newer than the accepted one, nor     *)
(* than the table's, and if it is older than the accepted one there is an   *)
(* excuse.                                                                  *)
CopiesAreExcused ==
    \A r \in Request : phase[r] \in {"found", "refreshing"} =>
        /\ \/ copy[r].token = accepted[S(r)]
           \/ rotating /\ copy[r].token < accepted[S(r)] /\ Excused(r)
        /\ rows[S(r)].there => copy[r].token <= rows[S(r)].token

TokenInv ==
    /\ LoopIsExclusive
    /\ StoredIsRecent
    /\ RefreshedIsNewest
    /\ CopiesAreExcused

LEMMA TokensAreNumbers ==
    ASSUME OidcTypeOK
    PROVE  /\ \A s \in Session : accepted[s] \in Nat /\ rows[s].token \in Nat
           /\ \A r \in Request : copy[r].token \in Nat /\ fetched[r] \in Nat
BY OidcAssumption DEF OidcTypeOK, Token

LEMMA InUse ==
    ASSUME IInv, NEW r \in Request, phase[r] # "idle"
    PROVE  S(r) \in Session /\ login[S(r)] = "done"
BY DEF IInv, LoginInv, CookiesAreDone

LEMMA InitTokens == OidcInit => TokenInv
BY DEF OidcInit, TokenInv, LoopIsExclusive, StoredIsRecent, RefreshedIsNewest,
   CopiesAreExcused, LoopPhases, NoRow

LEMMA LoopStays ==
    ASSUME LoopIsExclusive,
           \A q \in Request : phase'[q] \in LoopPhases => phase[q] \in LoopPhases
    PROVE  LoopIsExclusive'
BY DEF LoopIsExclusive

(* Excuses last. *)
LEMMA ExcusesStay ==
    ASSUME NEW r \in Request, Excused(r), UNCHANGED <<carried, copy>>,
           spent \subseteq spent', lost \subseteq lost'
    PROVE  Excused(r)'
BY DEF Excused, S

(* Steps that take no token, store none and add no row. *)
LEMMA QuietStep ==
    ASSUME IInv, TokenInv, UNCHANGED <<provider, carried, copy, fetched, lost>>,
           \A q \in Request :
              /\ phase'[q] = "refreshed" <=> phase[q] = "refreshed"
              /\ phase'[q] \in {"found", "refreshing"} =>
                    phase[q] \in {"found", "refreshing"}
              /\ phase'[q] \in LoopPhases => phase[q] \in LoopPhases,
           \A s \in Session : rows'[s].there =>
              rows[s].there /\ rows'[s].token = rows[s].token
    PROVE  TokenInv'
<1> USE DEF TokenInv, provider
<1>1. LoopIsExclusive'
  BY LoopStays
<1>2. StoredIsRecent'
  BY DEF StoredIsRecent, S
<1>3. RefreshedIsNewest'
  BY InUse DEF RefreshedIsNewest, S
<1>4. CopiesAreExcused'
  <2>1. \A q \in Request : Excused(q) => Excused(q)'
    BY ExcusesStay
  <2>2. QED
    BY <2>1, InUse DEF CopiesAreExcused, S
<1>5. QED
  BY <1>1, <1>2, <1>3, <1>4

(* Steps of a login: nobody uses its session yet. *)
LEMMA LoginStep ==
    ASSUME IInv, TokenInv, NEW s \in Session, login[s] # "done",
           UNCHANGED <<request, rotating, spent, lost>>,
           \A t \in Session \ {s} :
              accepted'[t] = accepted[t] /\ rows'[t] = rows[t],
           rows'[s].there => rows'[s].token = accepted'[s]
    PROVE  TokenInv'
<1> USE DEF TokenInv, request
<1>1. \A r \in Request : phase[r] # "idle" => S(r) \in Session \ {s}
  BY InUse
<1>2. LoopIsExclusive'
  BY LoopStays
<1>3. StoredIsRecent'
  BY DEF StoredIsRecent, S
<1>4. RefreshedIsNewest'
  BY <1>1 DEF RefreshedIsNewest, S
<1>5. CopiesAreExcused'
  <2>1. \A q \in Request : Excused(q) => Excused(q)'
    BY ExcusesStay
  <2>2. QED
    BY <1>1, <2>1 DEF CopiesAreExcused, S
<1>6. QED
  BY <1>2, <1>3, <1>4, <1>5

(* A request looks its session up while no other of its process is in the   *)
(* middle of a check: what it reads, another process alone can have spent.  *)
LEMMA LookupTokens ==
    ASSUME IInv, TokenInv, NEW r \in Request, NEW k \in {"page", "logout"},
           Lookup(r, k)
    PROVE  TokenInv'
<1> USE DEF TokenInv, Lookup, browser, provider, Goes
<1>1. cookie \in Session /\ phase[r] = "idle" /\ carried[r] = 0
  BY DEF IInv, OidcTypeOK, LoginInv, CookiesAreDone, S
<1>2. /\ phase'[r] \in {"found", "refused", "raised"}
      /\ carried'[r] = cookie
      /\ phase'[r] = "found" => copy'[r] = rows[cookie] /\ rows[cookie].there
      /\ \A q \in Request \ {r} : phase'[q] = phase[q] /\ copy'[q] = copy[q]
                                    /\ carried'[q] = carried[q]
      /\ UNCHANGED <<fetched, rows, accepted, rotating, spent, lost>>
  BY DEF IInv, OidcTypeOK
<1>3. LoopIsExclusive'
  BY <1>2 DEF LoopIsExclusive, LoopFree, LoopPhases
<1>4. StoredIsRecent'
  BY <1>1, <1>2 DEF StoredIsRecent, S
<1>5. RefreshedIsNewest'
  BY <1>1, <1>2 DEF RefreshedIsNewest, S
<1>6. CopiesAreExcused'
  <2> SUFFICES ASSUME NEW q \in Request, phase'[q] \in {"found", "refreshing"}
               PROVE  /\ \/ copy'[q].token = accepted[carried'[q]]
                         \/ /\ rotating
                            /\ copy'[q].token < accepted[carried'[q]]
                            /\ Excused(q)'
                      /\ rows[carried'[q]].there =>
                            copy'[q].token <= rows[carried'[q]].token
    BY <1>2 DEF CopiesAreExcused, S
  <2>1. CASE q # r
    <3>1. Excused(q) => Excused(q)'
      BY <1>2, <2>1 DEF Excused, S
    <3>2. QED
      BY <1>2, <2>1, <3>1 DEF CopiesAreExcused, S
  <2>2. CASE q = r /\ rows[cookie].token = accepted[cookie]
    BY <1>1, <1>2, <2>2, TokensAreNumbers DEF IInv
  <2>3. CASE q = r /\ rows[cookie].token # accepted[cookie]
    <3>1. /\ rotating /\ rows[cookie].token + 1 = accepted[cookie]
          /\ \/ <<cookie, accepted[cookie]>> \in lost
             \/ \E p \in Request : phase[p] = "refreshed" /\ S(p) = cookie
      BY <1>1, <1>2, <2>3 DEF StoredIsRecent
    <3>2. rows[cookie].token \in Nat /\ accepted[cookie] \in Nat
      BY <1>1, TokensAreNumbers DEF IInv
    <3>3. CASE <<cookie, accepted[cookie]>> \in lost
      <4>1. Excused(r)'
        BY <1>2, <2>3, <3>1, <3>3 DEF Excused, S
      <4>2. QED
        BY <1>2, <2>3, <3>1, <3>2, <4>1
    <3>4. ASSUME NEW p \in Request, phase[p] = "refreshed", S(p) = cookie
          PROVE  Excused(r)'
      <4>1. /\ copy[p].token + 1 = accepted[cookie]
            /\ <<cookie, copy[p].token, ProcessOf[p]>> \in spent
        BY <3>1, <3>4 DEF RefreshedIsNewest
      <4>2. copy[p].token = rows[cookie].token
        BY <3>1, <3>2, <4>1, TokensAreNumbers DEF IInv
      <4>3. ProcessOf[p] \in Process \ {ProcessOf[r]}
        BY <3>4, OidcAssumption DEF LoopFree, LoopPhases
      <4>4. QED
        BY <1>2, <2>3, <4>1, <4>2, <4>3 DEF Excused, S
    <3>5. QED
      BY <1>2, <2>3, <3>1, <3>2, <3>3, <3>4
  <2>4. QED
    BY <2>1, <2>2, <2>3
<1>7. QED
  BY <1>3, <1>4, <1>5, <1>6

(* Before a request takes a new token from a provider that rotates, its     *)
(* token is the table's, and nobody is on the way to store another.         *)
LEMMA NewestIsAlone ==
    ASSUME IInv, TokenInv, NEW r \in Request, phase[r] = "refreshing",
           copy[r].token = accepted[S(r)], rotating
    PROVE  /\ \A q \in Request : phase[q] = "refreshed" => S(q) # S(r)
           /\ rows[S(r)].there => rows[S(r)].token = accepted[S(r)]
<1>1. S(r) \in Session
  BY InUse
<1>2. \A q \in Request : phase[q] = "refreshed" => S(q) # S(r)
  BY DEF TokenInv, RefreshedIsNewest
<1>3. rows[S(r)].there => copy[r].token <= rows[S(r)].token
  BY DEF TokenInv, CopiesAreExcused
<1>4. rows[S(r)].there => \/ rows[S(r)].token = accepted[S(r)]
                          \/ rows[S(r)].token + 1 = accepted[S(r)]
  BY <1>1 DEF TokenInv, StoredIsRecent
<1>5. QED
  BY <1>1, <1>2, <1>3, <1>4, TokensAreNumbers DEF IInv

(* A token is issued to r.  The requests that read the one it replaces can  *)
(* blame r, which another process runs; the new token is on its way to the  *)
(* table, or lost.                                                          *)
LEMMA IssueStep ==
    ASSUME IInv, TokenInv, NEW r \in Request, NEW t \in Token,
           NEW to \in {"refreshed", "dropping"},
           Goes(r, "refreshing", to), Issues(r, t),
           UNCHANGED <<carried, copy, rows>>, lost \subseteq lost',
           \A q \in Request \ {r} : fetched'[q] = fetched[q],
           to = "refreshed" => fetched'[r] = t,
           to = "dropping" /\ rotating => <<S(r), t>> \in lost'
    PROVE  TokenInv'
<1> USE DEF Goes
<1>1. S(r) \in Session /\ phase[r] = "refreshing"
  BY InUse
<1>2. /\ phase'[r] = to
      /\ \A q \in Request \ {r} : phase'[q] = phase[q]
      /\ \A q \in Request : S(q)' = S(q)
      /\ accepted'[S(r)] = t
      /\ \A s \in Session \ {S(r)} : accepted'[s] = accepted[s]
      /\ spent \subseteq spent' /\ rotating' = rotating
      /\ rotating = TRUE \/ rotating = FALSE
  BY <1>1 DEF IInv, OidcTypeOK, Issues, S
<1>3. /\ copy[r].token = accepted[S(r)]
      /\ rotating => t = accepted[S(r)] + 1
                       /\ <<S(r), copy[r].token, ProcessOf[r]>> \in spent'
      /\ ~rotating => t = accepted[S(r)]
      /\ accepted[S(r)] \in Nat /\ t \in Nat
  BY <1>1, TokensAreNumbers DEF Issues, IInv, Token
<1>4. /\ rotating => \A q \in Request : phase[q] = "refreshed" => S(q) # S(r)
      /\ rotating /\ rows[S(r)].there => rows[S(r)].token = accepted[S(r)]
  BY <1>1, <1>3, NewestIsAlone
<1>5. LoopIsExclusive'
  BY <1>1, <1>2, LoopStays DEF TokenInv, LoopPhases
<1>6. StoredIsRecent'
  <2> SUFFICES ASSUME NEW s \in Session, rows[s].there
               PROVE  \/ rows[s].token = accepted'[s]
                      \/ /\ rotating
                         /\ rows[s].token + 1 = accepted'[s]
                         /\ \/ <<s, accepted'[s]>> \in lost'
                            \/ \E q \in Request :
                                  phase'[q] = "refreshed" /\ S(q) = s
    BY <1>2 DEF StoredIsRecent
  <2>1. CASE s # S(r)
    BY <1>1, <1>2, <2>1 DEF TokenInv, StoredIsRecent
  <2>2. CASE s = S(r) /\ rotating
    BY <1>2, <1>3, <1>4, <2>2
  <2>3. CASE s = S(r) /\ ~rotating
    BY <1>2, <1>3, <2>3 DEF TokenInv, StoredIsRecent
  <2>4. QED
    BY <1>2, <2>1, <2>2, <2>3
<1>7. RefreshedIsNewest'
  <2> SUFFICES ASSUME NEW q \in Request, phase'[q] = "refreshed"
               PROVE  /\ fetched'[q] = accepted'[S(q)]
                      /\ rotating =>
                            /\ copy[q].token + 1 = accepted'[S(q)]
                            /\ <<S(q), copy[q].token, ProcessOf[q]>> \in spent'
                            /\ rows[S(q)].there =>
                                  rows[S(q)].token # accepted'[S(q)]
                            /\ \A p \in Request \ {q} : S(p) = S(q) =>
                                  /\ phase'[p] # "refreshed"
                                  /\ phase'[p] \in {"found", "refreshing"} =>
                                        copy[p].token # accepted'[S(q)]
    BY <1>2 DEF RefreshedIsNewest
  <2>1. CASE q = r
    <3>1. fetched'[q] = accepted'[S(q)]
      BY <1>2, <2>1
    <3>2. ASSUME rotating, NEW p \in Request \ {q}, S(p) = S(q)
          PROVE  /\ phase'[p] # "refreshed"
                 /\ phase'[p] \in {"found", "refreshing"} =>
                       copy[p].token # accepted'[S(q)]
      <4>1. phase'[p] \in {"found", "refreshing"} => copy[p].token <= accepted[S(r)]
        BY <1>1, <1>2, <1>3, <2>1, <3>2, TokensAreNumbers
           DEF TokenInv, CopiesAreExcused, IInv
      <4>2. QED
        BY <1>2, <1>3, <1>4, <2>1, <3>2, <4>1, TokensAreNumbers DEF IInv
    <3>3. QED
      BY <1>2, <1>3, <1>4, <2>1, <3>1, <3>2
  <2>2. CASE q # r
    <3>1. phase[q] = "refreshed" /\ S(q) \in Session
      BY <1>2, <2>2, InUse
    <3>2. CASE rotating
      <4>1. S(q) # S(r) /\ accepted'[S(q)] = accepted[S(q)]
        BY <1>2, <1>4, <3>1, <3>2
      <4>2. QED
        BY <1>2, <2>2, <3>1, <4>1 DEF TokenInv, RefreshedIsNewest
    <3>3. CASE ~rotating
      BY <1>2, <1>3, <2>2, <3>1, <3>3 DEF TokenInv, RefreshedIsNewest
    <3>4. QED
      BY <1>2, <3>2, <3>3
  <2>3. QED
    BY <2>1, <2>2
<1>8. CopiesAreExcused'
  <2> SUFFICES ASSUME NEW q \in Request, phase'[q] \in {"found", "refreshing"}
               PROVE  /\ \/ copy[q].token = accepted'[S(q)]
                         \/ /\ rotating
                            /\ copy[q].token < accepted'[S(q)]
                            /\ Excused(q)'
                      /\ rows[S(q)].there => copy[q].token <= rows[S(q)].token
    BY <1>2 DEF CopiesAreExcused
  <2>1. q # r /\ phase[q] \in {"found", "refreshing"} /\ S(q) \in Session
    BY <1>2, InUse
  <2>2. /\ \/ copy[q].token = accepted[S(q)]
           \/ rotating /\ copy[q].token < accepted[S(q)] /\ Excused(q)
        /\ rows[S(q)].there => copy[q].token <= rows[S(q)].token
    BY <2>1 DEF TokenInv, CopiesAreExcused
  <2>3. Excused(q) => Excused(q)'
    BY <1>2, ExcusesStay
  <2>4. CASE S(q) # S(r) \/ ~rotating
    BY <1>2, <1>3, <2>1, <2>2, <2>3, <2>4
  <2>5. CASE S(q) = S(r) /\ rotating /\ copy[q].token = accepted[S(q)]
    <3>1. ProcessOf[r] \in Process \ {ProcessOf[q]}
      BY <1>1, <2>1, OidcAssumption DEF TokenInv, LoopIsExclusive, LoopPhases
    <3>2. Excused(q)'
      BY <1>2, <1>3, <2>5, <3>1 DEF Excused
    <3>3. QED
      BY <1>2, <1>3, <2>2, <2>5, <3>2
  <2>6. CASE S(q) = S(r) /\ rotating /\ copy[q].token # accepted[S(q)]
    BY <1>2, <1>3, <2>1, <2>2, <2>3, <2>6, TokensAreNumbers DEF IInv
  <2>7. QED
    BY <1>2, <2>4, <2>5, <2>6
<1>9. QED
  BY <1>5, <1>6, <1>7, <1>8 DEF TokenInv

(* The token of a request that goes from refreshed is stored, or lost, or   *)
(* its row is not there any more.                                           *)
LEMMA StoreStep ==
    ASSUME IInv, TokenInv, NEW r \in Request, NEW to \in Phases \ LoopPhases,
           Goes(r, "refreshed", to),
           UNCHANGED <<provider, carried, copy, fetched>>,
           lost \subseteq lost',
           \A s \in Session \ {S(r)} : rows'[s] = rows[s],
           \/ /\ rows'[S(r)].there => rows[S(r)].there
              /\ rows'[S(r)].there => rows'[S(r)].token = fetched[r]
           \/ /\ rows' = rows
              /\ rotating => <<S(r), fetched[r]>> \in lost'
    PROVE  TokenInv'
<1> USE DEF Goes, provider
<1>1. S(r) \in Session /\ phase[r] = "refreshed" /\ fetched[r] = accepted[S(r)]
  BY InUse DEF TokenInv, RefreshedIsNewest
<1>2. /\ phase'[r] = to
      /\ \A q \in Request \ {r} : phase'[q] = phase[q]
      /\ \A q \in Request : S(q)' = S(q)
      /\ to \notin {"found", "refreshing", "refreshed"}
  BY DEF IInv, OidcTypeOK, S, LoopPhases
<1>3. LoopIsExclusive'
  BY <1>2, LoopStays DEF TokenInv
<1>4. StoredIsRecent'
  <2> SUFFICES ASSUME NEW s \in Session, rows'[s].there
               PROVE  \/ rows'[s].token = accepted[s]
                      \/ /\ rotating
                         /\ rows'[s].token + 1 = accepted[s]
                         /\ \/ <<s, accepted[s]>> \in lost'
                            \/ \E q \in Request :
                                  phase'[q] = "refreshed" /\ S(q) = s
    BY <1>2 DEF StoredIsRecent
  <2>1. CASE s # S(r)
    BY <1>2, <2>1 DEF TokenInv, StoredIsRecent
  <2>2. CASE s = S(r)
    BY <1>1, <2>2 DEF TokenInv, StoredIsRecent
  <2>3. QED
    BY <2>1, <2>2
<1>5. RefreshedIsNewest'
  <2> SUFFICES ASSUME NEW q \in Request, phase'[q] = "refreshed"
               PROVE  /\ fetched[q] = accepted[S(q)]
                      /\ rotating =>
                            /\ copy[q].token + 1 = accepted[S(q)]
                            /\ <<S(q), copy[q].token, ProcessOf[q]>> \in spent
                            /\ rows'[S(q)].there =>
                                  rows'[S(q)].token # accepted[S(q)]
                            /\ \A p \in Request \ {q} : S(p) = S(q) =>
                                  /\ phase'[p] # "refreshed"
                                  /\ phase'[p] \in {"found", "refreshing"} =>
                                        copy[p].token # accepted[S(q)]
    BY <1>2 DEF RefreshedIsNewest
  <2>1. q # r /\ phase[q] = "refreshed" /\ S(q) \in Session
    BY <1>2, InUse
  <2>2. rotating => S(q) # S(r)
    BY <1>1, <2>1 DEF TokenInv, RefreshedIsNewest
  <2>3. QED
    BY <1>2, <2>1, <2>2 DEF TokenInv, RefreshedIsNewest
<1>6. CopiesAreExcused'
  <2> SUFFICES ASSUME NEW q \in Request, phase'[q] \in {"found", "refreshing"}
               PROVE  /\ \/ copy[q].token = accepted[S(q)]
                         \/ /\ rotating
                            /\ copy[q].token < accepted[S(q)]
                            /\ Excused(q)'
                      /\ rows'[S(q)].there => copy[q].token <= rows'[S(q)].token
    BY <1>2 DEF CopiesAreExcused
  <2>1. q # r /\ phase[q] \in {"found", "refreshing"} /\ S(q) \in Session
    BY <1>2, InUse
  <2>2. /\ \/ copy[q].token = accepted[S(q)]
           \/ rotating /\ copy[q].token < accepted[S(q)] /\ Excused(q)
        /\ rows[S(q)].there => copy[q].token <= rows[S(q)].token
    BY <2>1 DEF TokenInv, CopiesAreExcused
  <2>3. Excused(q) => Excused(q)'
    BY ExcusesStay
  <2>4. copy[q].token <= accepted[S(q)]
    BY <2>1, <2>2, TokensAreNumbers DEF IInv
  <2>5. QED
    BY <1>1, <2>1, <2>2, <2>3, <2>4
<1>7. QED
  BY <1>3, <1>4, <1>5, <1>6 DEF TokenInv

LEMMA StepTokens ==
    ASSUME IInv, TokenInv, [OidcNext]_<<oidcVars, auditVars>>
    PROVE  TokenInv'
<1> USE DEF browser, provider, request, auditVars
<1>1. CASE UNCHANGED <<oidcVars, auditVars>>
  BY <1>1, QuietStep DEF oidcVars
<1>2. ASSUME NEW s \in Session,
             \/ BeginLogin(s) \/ Callback(s) \/ RecordLogin(s)
             \/ LoginAnswered(s) \/ SessionExpires(s)
      PROVE  TokenInv'
  BY <1>2, QuietStep DEF BeginLogin, Callback, RecordLogin, LoginAnswered,
     SessionExpires
<1>3. ASSUME NEW s \in Session, TokenAges(s) PROVE TokenInv'
  BY <1>3, QuietStep DEF TokenAges, IInv, OidcTypeOK
<1>4. ASSUME NEW s \in Session, Redeem(s) PROVE TokenInv'
  <2>1. login[s] = "checked" /\ rows[s].there = FALSE
    BY <1>4 DEF Redeem, LoginGoes, IInv, LoginInv, RowsFollowLogins, NoRow
  <2>2. QED
    BY <1>4, <2>1, LoginStep DEF Redeem, IInv, OidcTypeOK
<1>5. ASSUME NEW s \in Session, CreateSession(s) \/ LoginFails(s)
      PROVE  TokenInv'
  <2>1. login[s] \in {"checked", "redeemed"} /\ rows[s].there = FALSE
    BY <1>5 DEF CreateSession, LoginFails, LoginGoes, IInv, LoginInv,
       RowsFollowLogins, NoRow
  <2>2. rows' = rows \/ rows' = [rows EXCEPT ![s] = Row(accepted[s])]
    BY <1>5 DEF CreateSession, LoginFails
  <2>3. QED
    BY <1>5, <2>1, <2>2, LoginStep
       DEF CreateSession, LoginFails, Row, IInv, OidcTypeOK
<1>6. ASSUME NEW r \in Request, \E k \in {"page", "logout"} : Lookup(r, k)
      PROVE  TokenInv'
  BY <1>6, LookupTokens
<1>7. ASSUME NEW r \in Request,
             \/ Judge(r) \/ ValidationRaises(r) \/ NothingToRefresh(r)
             \/ Refused(r) \/ Unreachable(r)
      PROVE  TokenInv'
  <2>1. \E to \in Phases \ {"idle", "found", "refreshed"} :
           /\ phase[r] \in {"found", "refreshing"}
           /\ phase' = [phase EXCEPT ![r] = to]
    BY <1>7 DEF Judge, ValidationRaises, NothingToRefresh, Refused,
       Unreachable, Goes, Phases, LoopPhases, Passed
  <2>2. UNCHANGED <<accepted, rotating, spent, carried, copy, fetched, lost,
                    rows>>
    BY <1>7 DEF Judge, ValidationRaises, NothingToRefresh, Refused, Unreachable
  <2>3. QED
    BY <2>1, <2>2, QuietStep DEF IInv, OidcTypeOK, LoopPhases
<1>8. ASSUME NEW r \in Request,
             DropSession(r) \/ LogoutDeletes(r) \/ LogoutRecords(r)
      PROVE  TokenInv'
  <2>1. \E to \in Phases \ LoopPhases :
           /\ phase[r] \in {"dropping", "leaving", "left"}
           /\ phase' = [phase EXCEPT ![r] = to]
    BY <1>8 DEF DropSession, LogoutDeletes, LogoutRecords, Goes, Phases,
       LoopPhases
  <2>2. UNCHANGED <<accepted, rotating, spent, carried, copy, fetched, lost>>
    BY <1>8 DEF DropSession, LogoutDeletes, LogoutRecords
  <2>3. rows' = rows \/ rows' = [rows EXCEPT ![S(r)] = NoRow]
    BY <1>8 DEF DropSession, LogoutDeletes, LogoutRecords, Deleted
  <2>4. \A s \in Session : rows'[s].there =>
           rows[s].there /\ rows'[s].token = rows[s].token
    BY <2>3 DEF IInv, OidcTypeOK, NoRow
  <2>5. QED
    BY <2>1, <2>2, <2>4, QuietStep DEF IInv, OidcTypeOK, LoopPhases
<1>9. ASSUME NEW r \in Request, Exchange(r) \/ AnswerLost(r) PROVE TokenInv'
  <2>1. CASE Exchange(r)
    BY <2>1, IssueStep DEF Exchange, Keep, IInv, OidcTypeOK
  <2>2. CASE AnswerLost(r)
    BY <2>2, IssueStep DEF AnswerLost, Loses
  <2>3. QED
    BY <1>9, <2>1, <2>2
<1>10. ASSUME NEW r \in Request, ClaimsRefused(r) PROVE TokenInv'
  BY <1>10, StoreStep DEF ClaimsRefused, Loses, Phases, LoopPhases
<1>11. ASSUME NEW r \in Request, Store(r) PROVE TokenInv'
  <2>1. S(r) \in Session /\ phase[r] = "refreshed"
    BY <1>11, InUse DEF Store, Goes
  <2>2. UNCHANGED <<accepted, rotating, spent, carried, copy, fetched>>
    BY <1>11 DEF Store
  <2>3. /\ Goes(r, "refreshed", Passed(r)) \/ Goes(r, "refreshed", "raised")
        /\ Passed(r) \in Phases \ LoopPhases
        /\ "raised" \in Phases \ LoopPhases
    BY <1>11 DEF Store, Passed, Phases, LoopPhases
  <2>4. /\ lost \subseteq lost'
        /\ \/ Updated(r)
           \/ rows' = rows /\ Loses(r, fetched[r])
    BY <1>11 DEF Store, Loses
  <2>5. CASE Updated(r)
    <3>1. /\ \A s \in Session \ {S(r)} : rows'[s] = rows[s]
          /\ rows'[S(r)].there => rows[S(r)].there
          /\ rows'[S(r)].there => rows'[S(r)].token = fetched[r]
      BY <2>1, <2>5 DEF Updated, Row, IInv, OidcTypeOK
    <3>2. QED
      BY <2>2, <2>3, <2>4, <3>1, StoreStep
  <2>6. CASE rows' = rows /\ Loses(r, fetched[r])
    <3>1. rotating => <<S(r), fetched[r]>> \in lost'
      BY <2>6 DEF Loses
    <3>2. QED
      BY <2>2, <2>3, <2>4, <2>6, <3>1, StoreStep
  <2>7. QED
    BY <2>4, <2>5, <2>6
<1>12. QED
  BY <1>1, <1>2, <1>3, <1>4, <1>5, <1>6, <1>7, <1>8, <1>9, <1>10, <1>11
     DEF OidcNext

LEMMA SpecTokens == OidcSpec => []TokenInv
BY InitTokens, StepTokens, SpecInv, PTL DEF OidcSpec

(* The table holds the token the provider accepts, or that token is lost or *)
(* on its way: however many processes refresh a session, whatever fails, no *)
(* update overwrites a newer token with an older one.                       *)
THEOREM StoredTokenHolds == OidcSpec => []StoredTokenIsCurrent
<1>1. IInv /\ TokenInv => StoredTokenIsCurrent
  BY DEF TokenInv, StoredIsRecent, RefreshedIsNewest, StoredTokenIsCurrent
<1>2. QED
  BY <1>1, SpecInv, SpecTokens, PTL

(* A provider refuses the token of a refresh only when a request of another *)
(* process has spent it or the token that replaced it was lost: the event   *)
(* loop of a process keeps its own requests from competing.                 *)
THEOREM RefusalHolds == OidcSpec => []RefusalComesFromAnotherProcess
<1>1. TokenInv => RefusalComesFromAnotherProcess
  BY DEF TokenInv, CopiesAreExcused, Excused, RefusalComesFromAnotherProcess
<1>2. QED
  BY <1>1, SpecTokens, PTL
=============================================================================
