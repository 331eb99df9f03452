----------------------------- MODULE ProviderKeys -----------------------------
(***************************************************************************)
(* The caches of OIDCProviderClient (auth/oidc.py): the provider's metadata *)
(* and signing keys, which the event loop and the threads of logins and     *)
(* callbacks of one process read and write without a lock, and the          *)
(* configuration that load_config replaces under them.                      *)
(*                                                                          *)
(* An action is what a thread does with one shared attribute, or one answer *)
(* of the provider.  A value and its time are stored in one step: between   *)
(* the two a value only looks older than it is, and is fetched again.  The  *)
(* age of a cached value is a bit: it expires at some time.  The provider   *)
(* and the settings change from outside.                                    *)
(***************************************************************************)
EXTENDS Integers

CONSTANTS
    Thread,
    Issuer,
    SigningKey,
    IssuerOf,       \* the issuer a key belongs to
    NoIssuer,       \* None, of metadata
    NoKeys,         \* None, of a key set
    NoToken,        \* what a thread has that needs the metadata only
    MaxChanges      \* bound: changes from outside and values that expire

ASSUME KeysAssumption ==
    /\ IssuerOf \in [SigningKey -> Issuer]
    /\ NoIssuer \notin Issuer
    /\ \A ks \in SUBSET SigningKey : NoKeys # ks
    /\ NoToken \notin SigningKey
    /\ MaxChanges \in Nat

VARIABLES
    setting,        \* the issuer of the stored settings
    published,      \* the keys each issuer publishes
    config,         \* the issuer of self.config
    configFresh,    \* _config_loaded_at is less than 300 s ago
    metadata,       \* whose metadata are cached
    metaFresh,      \* they are younger than the lifetime
    jwks,           \* the cached keys
    jwksFresh,
    step,           \* how far each thread has come
    token,          \* the key its token was signed with
    again,          \* threads that look for the second time
    issuer,         \* the issuer it has read and not yet used, or None
    answer,         \* the keys it was sent and has not yet stored
    crossed,        \* history: threads to whom somebody else changed the
                    \*          caches, the configuration or the keys
    overtaken,      \* history: the cached metadata belong to another
                    \*          configuration, because a thread that a new
                    \*          one overtook has stored them or its own
    changes

outside  == <<setting, published, changes>>
caches   == <<metadata, metaFresh, jwks, jwksFresh, overtaken>>
current  == <<config, configFresh>>
local    == <<token, again, issuer, answer>>
keysVars == <<outside, caches, current, local, step, crossed>>

Working == {"reading", "comparing", "keeping", "replacing", "clearing",
            "clearingKeys", "look", "askMetadata", "fetchMetadata",
            "storeMetadata", "readMetadata", "fetchKeys", "storeKeys",
            "readKeys", "dropKeys", "found"}
Outcomes   == {"valid", "invalid", "refused", "raised", "unreached", "served"}

KeysOf(i) == {k \in SigningKey : IssuerOf[k] = i}

KeysInit ==
    /\ setting \in Issuer
    /\ config = setting
    /\ published \in [Issuer -> SUBSET SigningKey]
    /\ \A i \in Issuer : published[i] \subseteq KeysOf(i)
    /\ configFresh = TRUE
    /\ metadata = NoIssuer /\ metaFresh = FALSE
    /\ jwks = NoKeys /\ jwksFresh = FALSE
    /\ step = [t \in Thread |-> "idle"]
    /\ token = [t \in Thread |-> NoToken]
    /\ again = {}
    /\ issuer = [t \in Thread |-> NoIssuer]
    /\ answer = [t \in Thread |-> {}]
    /\ crossed = {}
    /\ overtaken = FALSE
    /\ changes = 0

-----------------------------------------------------------------------------
(* Outside of the process.                                                  *)

Change ==
    /\ changes < MaxChanges
    /\ changes' = changes + 1

(* The OIDC settings are updated, maybe by another process. *)
ChangeSetting ==
    /\ Change
    /\ setting' \in Issuer
    /\ UNCHANGED <<published, caches, current, local, step, crossed>>

(* The provider publishes other keys. *)
RotateKeys(i) ==
    /\ Change
    /\ \E ks \in SUBSET KeysOf(i) : published' = [published EXCEPT ![i] = ks]
    /\ crossed' = Thread
    /\ UNCHANGED <<setting, caches, current, local, step>>

(* 300 s after a value was loaded. *)
Expire ==
    /\ Change
    /\ \/ configFresh' = FALSE /\ UNCHANGED <<metaFresh, jwksFresh>>
       \/ metaFresh' = FALSE /\ UNCHANGED <<configFresh, jwksFresh>>
       \/ jwksFresh' = FALSE /\ UNCHANGED <<configFresh, metaFresh>>
    /\ UNCHANGED <<setting, published, config, metadata, jwks, overtaken, local,
                   step, crossed>>

-----------------------------------------------------------------------------
(* load_config.                                                             *)

Proceeds(t, from, to) ==
    /\ step[t] = from
    /\ step' = [step EXCEPT ![t] = to]

(* Everybody but t finds something changed. *)
Crosses(t) == crossed' = crossed \cup (Thread \ {t})

(* A request, login or callback begins; its configuration may be due.  In   *)
(* the middle of somebody's reconfiguration it is not alone.                *)
Enter(t, k) ==
    /\ step[t] \in {"idle"} \cup Outcomes
    /\ step' = [step EXCEPT ![t] =
                   IF ~configFresh THEN "reading"
                   ELSE IF k = NoToken THEN "askMetadata" ELSE "look"]
    /\ token' = [token EXCEPT ![t] = k]
    /\ again' = again \ {t}
    /\ crossed' = IF \E u \in Thread : step[u] = "clearing"
                  THEN crossed \cup {t} ELSE crossed \ {t}
    /\ UNCHANGED <<outside, caches, current, issuer, answer>>

(* OIDCConfig.from_repo. *)
ReadSettings(t) ==
    /\ Proceeds(t, "reading", "comparing")
    /\ issuer' = [issuer EXCEPT ![t] = setting]
    /\ UNCHANGED <<outside, caches, current, token, again, answer, crossed>>

(* What was read is compared with the configuration there is; it may differ *)
(* in something else than its issuer.  The assignment comes later.          *)
Compare(t) ==
    /\ \/ Proceeds(t, "comparing", "replacing")
       \/ issuer[t] = config /\ Proceeds(t, "comparing", "keeping")
    /\ UNCHANGED <<outside, caches, current, local, crossed>>

Forgets(t) == issuer' = [issuer EXCEPT ![t] = NoIssuer]

Begins(t) == IF token[t] = NoToken THEN "askMetadata" ELSE "look"

(* update_provider_config without clear_cache: what was found equal is      *)
(* assigned, over whatever another thread has put in force meanwhile.  What *)
(* is cached by then may belong to that.                                    *)
KeepConfig(t) ==
    /\ Proceeds(t, "keeping", Begins(t))
    /\ config' = issuer[t]
    /\ configFresh' = TRUE
    /\ IF issuer[t] = config
       THEN UNCHANGED <<crossed, overtaken>>
       ELSE /\ Crosses(t)
            /\ overtaken' = (metadata \notin {NoIssuer, issuer[t]})
    /\ Forgets(t)
    /\ UNCHANGED <<outside, metadata, metaFresh, jwks, jwksFresh, token, again,
                   answer>>

(* Mutant: a new configuration is assigned and the caches are kept. *)
ReplaceOnly(t) ==
    /\ Proceeds(t, "replacing", Begins(t))
    /\ config' = issuer[t]
    /\ configFresh' = TRUE
    /\ Crosses(t)
    /\ Forgets(t)
    /\ UNCHANGED <<outside, caches, token, again, answer>>

(* With clear_cache: it is assigned, then the caches are emptied.           *)
ReplaceConfig(t) ==
    /\ Proceeds(t, "replacing", "clearing")
    /\ config' = issuer[t]
    /\ Crosses(t)
    /\ Forgets(t)
    /\ UNCHANGED <<outside, caches, configFresh, token, again, answer>>

ClearMetadata(t) ==
    /\ Proceeds(t, "clearing", "clearingKeys")
    /\ metadata' = NoIssuer
    /\ overtaken' = FALSE
    /\ IF metadata # NoIssuer \/ overtaken THEN Crosses(t) ELSE UNCHANGED crossed
    /\ UNCHANGED <<outside, metaFresh, jwks, jwksFresh, current, local>>

ClearKeys(t) ==
    /\ Proceeds(t, "clearingKeys", Begins(t))
    /\ jwks' = NoKeys
    /\ metaFresh' = FALSE
    /\ jwksFresh' = FALSE
    /\ configFresh' = TRUE
    /\ IF jwks # NoKeys THEN Crosses(t) ELSE UNCHANGED crossed
    /\ UNCHANGED <<outside, metadata, overtaken, config, local>>

-----------------------------------------------------------------------------
(* get_metadata.                                                            *)

CheckMetadata(t) ==
    /\ Proceeds(t, "askMetadata",
                IF metadata # NoIssuer /\ metaFresh THEN "readMetadata"
                                                    ELSE "fetchMetadata")
    /\ UNCHANGED <<outside, caches, current, local, crossed>>

(* The provider that is configured answers. *)
FetchMetadata(t) ==
    /\ Proceeds(t, "fetchMetadata", "storeMetadata")
    /\ issuer' = [issuer EXCEPT ![t] = config]
    /\ UNCHANGED <<outside, caches, current, token, again, answer, crossed>>

StoreMetadata(t) ==
    /\ Proceeds(t, "storeMetadata", "readMetadata")
    /\ metadata' = issuer[t]
    /\ metaFresh' = TRUE
    /\ overtaken' = (issuer[t] # config)
    /\ IF metadata' # metadata \/ overtaken' # overtaken
       THEN Crosses(t) ELSE UNCHANGED crossed
    /\ Forgets(t)
    /\ UNCHANGED <<outside, jwks, jwksFresh, current, token, again, answer>>

(* What is returned is the attribute, which somebody may have emptied. *)
ReadMetadata(t) ==
    /\ Proceeds(t, "readMetadata",
                IF metadata = NoIssuer THEN "raised"
                ELSE IF token[t] = NoToken THEN "served" ELSE "fetchKeys")
    /\ issuer' = [issuer EXCEPT ![t] = IF token[t] = NoToken THEN NoIssuer
                                                              ELSE metadata]
    /\ UNCHANGED <<outside, caches, current, token, again, answer, crossed>>

-----------------------------------------------------------------------------
(* get_jwks and select_jwk_key.                                             *)

CheckKeys(t) ==
    /\ Proceeds(t, "look", IF jwks # NoKeys /\ jwksFresh THEN "readKeys"
                                                        ELSE "askMetadata")
    /\ UNCHANGED <<outside, caches, current, local, crossed>>

FetchKeys(t) ==
    /\ Proceeds(t, "fetchKeys", "storeKeys")
    /\ answer' = [answer EXCEPT ![t] = published[issuer[t]]]
    /\ Forgets(t)
    /\ UNCHANGED <<outside, caches, current, token, again, crossed>>

(* The settings cannot be read, or the provider does not answer, or not     *)
(* with what was asked for.                                                 *)
Unreached(t) ==
    /\ \/ Proceeds(t, "reading", "unreached")
       \/ Proceeds(t, "fetchMetadata", "unreached")
       \/ Proceeds(t, "fetchKeys", "unreached")
    /\ Forgets(t)
    /\ UNCHANGED <<outside, caches, current, token, again, answer, crossed>>

StoreKeys(t) ==
    /\ Proceeds(t, "storeKeys", "readKeys")
    /\ jwks' = answer[t]
    /\ jwksFresh' = TRUE
    /\ answer' = [answer EXCEPT ![t] = {}]
    /\ IF jwks' # jwks THEN Crosses(t) ELSE UNCHANGED crossed
    /\ UNCHANGED <<outside, metadata, metaFresh, overtaken, current, token,
                   again, issuer>>

(* The key is looked for in the attribute: not there, the set is dropped    *)
(* and fetched once more. *)
ReadKeys(t) ==
    /\ Proceeds(t, "readKeys",
                IF jwks = NoKeys THEN "raised"
                ELSE IF token[t] \in jwks THEN "found"
                ELSE IF t \in again THEN "refused" ELSE "dropKeys")
    /\ UNCHANGED <<outside, caches, current, local, crossed>>

DropKeys(t) ==
    /\ Proceeds(t, "dropKeys", "look")
    /\ jwks' = NoKeys
    /\ again' = again \cup {t}
    /\ IF jwks # NoKeys THEN Crosses(t) ELSE UNCHANGED crossed
    /\ UNCHANGED <<outside, metadata, metaFresh, jwksFresh, overtaken, current,
                   token, issuer, answer>>

(* jwt.decode: the signature is good, the issuer must be the configured one.*)
Decode(t) ==
    /\ Proceeds(t, "found", IF IssuerOf[token[t]] = config THEN "valid"
                                                          ELSE "invalid")
    /\ UNCHANGED <<outside, caches, current, local, crossed>>

-----------------------------------------------------------------------------

KeysNext ==
    \/ ChangeSetting
    \/ \E i \in Issuer : RotateKeys(i)
    \/ Expire
    \/ \E t \in Thread :
          \/ \E k \in SigningKey \cup {NoToken} : Enter(t, k)
          \/ ReadSettings(t)
          \/ Compare(t)
          \/ KeepConfig(t)
          \/ ReplaceConfig(t)
          \/ ClearMetadata(t)
          \/ ClearKeys(t)
          \/ CheckMetadata(t)
          \/ FetchMetadata(t)
          \/ StoreMetadata(t)
          \/ ReadMetadata(t)
          \/ CheckKeys(t)
          \/ FetchKeys(t)
          \/ Unreached(t)
          \/ StoreKeys(t)
          \/ ReadKeys(t)
          \/ DropKeys(t)
          \/ Decode(t)

KeysSpec == KeysInit /\ [][KeysNext]_keysVars

-----------------------------------------------------------------------------
(* Correctness.                                                             *)

(* The shape of the state. *)
KeysTypeOK ==
    /\ setting \in Issuer /\ config \in Issuer
    /\ published \in [Issuer -> SUBSET SigningKey]
    /\ \A i \in Issuer : published[i] \subseteq KeysOf(i)
    /\ configFresh \in BOOLEAN /\ metaFresh \in BOOLEAN /\ jwksFresh \in BOOLEAN
    /\ metadata \in Issuer \cup {NoIssuer}
    /\ jwks = NoKeys \/ jwks \in SUBSET SigningKey
    /\ step \in [Thread -> {"idle"} \cup Working \cup Outcomes]
    /\ token \in [Thread -> SigningKey \cup {NoToken}]
    /\ again \in SUBSET Thread
    /\ issuer \in [Thread -> Issuer \cup {NoIssuer}]
    /\ answer \in [Thread -> SUBSET SigningKey]
    /\ crossed \in SUBSET Thread
    /\ overtaken \in BOOLEAN
    /\ changes \in 0 .. MaxChanges

(* A token whose key the configured issuer publishes is turned down, and a  *)
(* lookup fails on an emptied cache, only when another thread, a new        *)
(* configuration or the provider changed something under it, or when the    *)
(* cached metadata are those of another configuration because a new one     *)
(* overtook a thread: one that stored the old provider's answer after the   *)
(* caches were emptied, or one that assigned the old configuration, which   *)
(* it had found unchanged, over the new one.  The caches heal of everything *)
(* else within one lookup, without a lock.                                  *)
LoneLookupsAreRight ==
    \A t \in Thread \ crossed :
        /\ step[t] # "raised"
        /\ step[t] \in {"refused", "invalid"} /\ token[t] \in published[config]
              => overtaken
=============================================================================
