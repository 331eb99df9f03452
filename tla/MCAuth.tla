-------------------------------- MODULE MCAuth --------------------------------
(***************************************************************************)
(* Instances of OidcSession, ApiKeys and ProviderKeys for TLC, side by      *)
(* side: the first two share the audit log, and nothing else is shared, so  *)
(* that only one of them moves in a behaviour.                              *)
(***************************************************************************)
EXTENDS OidcSession, ApiKeys, ProviderKeys

VARIABLE focus    \* what moves

(* Requests 1 and 2 are served by one process, request 3 by another. *)
MCProcessOf == [r \in Request |-> IF r = 3 THEN 2 ELSE 1]

(* Two issuers with one key each. *)
MCIssuerOf == [k \in SigningKey |-> IF k = "b" THEN "new" ELSE "old"]

Init ==
    /\ focus \in {"refresh", "relogin", "keys", "caches"}
    /\ OidcInit
    /\ ApiInit
    /\ KeysInit
    /\ AuditInit
    /\ setting = "old" /\ published = [i \in Issuer |-> KeysOf(i)]
    /\ focus \in {"keys", "caches"} => ~rotating    \* the others' choices
    /\ focus # "keys" => quiet

(* Three requests over one session, or two requests and two logins, whose   *)
(* sessions do not expire.                                                  *)
Next ==
    /\ \/ /\ focus = "refresh"
          /\ OidcNext
          /\ \A s \in Session \ {1} : login'[s] = "none"
          /\ UNCHANGED <<apiVars, keysVars>>
       \/ /\ focus = "relogin"
          /\ OidcNext
          /\ phase'[1] = "idle"
          /\ faults' <= 1
          /\ over' = {}
          /\ UNCHANGED <<apiVars, keysVars>>
       \/ /\ focus = "keys"
          /\ ApiNext
          /\ UNCHANGED <<oidcVars, keysVars>>
       \/ /\ focus = "caches"
          /\ KeysNext
          /\ UNCHANGED <<oidcVars, apiVars, auditVars>>
    /\ UNCHANGED focus

Spec == Init /\ [][Next]_<<focus, oidcVars, apiVars, keysVars, auditVars>>

(* The shapes of all. *)
AuthTypeOK == OidcTypeOK /\ ApiTypeOK /\ KeysTypeOK
=============================================================================
