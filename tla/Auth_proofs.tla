------------------------------ MODULE Auth_proofs ------------------------------
(***************************************************************************)
(* What TLAPS proves of ApiKeys, for any callers, any number of keys and    *)
(* any number of failures: the type invariant, that one transaction deletes *)
(* a key, that a key and its record stand or fall together, and that the    *)
(* secret of a live key is lost only for a cause; of ProviderKeys, for any  *)
(* threads, issuers, keys and changes: the type invariant, and that a       *)
(* lookup nobody disturbs is right; and of the machines of MCAuth side by   *)
(* side: a behaviour is a behaviour of each of them, so that what is proved *)
(* of one alone (OidcSession_proofs too) holds there.                       *)
(***************************************************************************)
EXTENDS MCAuth, OidcSession_proofs

-----------------------------------------------------------------------------
(* ApiKeys: what is held, locked and deleted.                               *)

(* Nothing is held outside a transaction. *)
HeldInside ==
    \A c \in Caller : at[c] \notin {"open", "locked"} =>
        adds[c] = {} /\ removes[c] = {} /\ locks[c] = {}

(* A caller in the middle of a call is concerned with a key that was made. *)
OnBorn ==
    \A c \in Caller : at[c] \notin {"idle", "open"} => on[c] \in born

(* What a transaction creates is new to the table and to the others. *)
AddsAreNew ==
    /\ \A c \in Caller : adds[c] \subseteq born /\ adds[c] \cap keys = {}
    /\ \A c, d \in Caller : c # d => adds[c] \cap adds[d] = {}

(* One transaction holds a row. *)
LocksAreExclusive ==
    \A c, d \in Caller : c # d => locks[c] \cap locks[d] = {}

(* What a transaction deletes, or is about to, it has locked and is there. *)
RemovesAreLocked ==
    \A c \in Caller :
        /\ removes[c] \subseteq locks[c]
        /\ removes[c] \subseteq keys \cup adds[c]
        /\ at[c] = "locked" => on[c] \in locks[c] /\ on[c] \in keys \cup adds[c]

(* What a transaction has deleted does not come back. *)
RetiredIsGone ==
    \A c \in Caller, k \in Key : <<c, k>> \in retired =>
        k \in born /\ k \notin keys /\ \A d \in Caller : k \notin adds[d]

KeyInv ==
    /\ HeldInside
    /\ OnBorn
    /\ AddsAreNew
    /\ LocksAreExclusive
    /\ RemovesAreLocked
    /\ RetiredIsGone
    /\ OneTransactionDeletes

ApiIInv == ApiTypeOK /\ KeyInv

-----------------------------------------------------------------------------
(* The invariant, one lemma per action.                                     *)

LEMMA ApiInitInv == ApiInit => ApiIInv
BY ApiKeysAssumption DEF ApiInit, ApiIInv, ApiTypeOK, KeyInv, HeldInside, OnBorn,
   AddsAreNew, LocksAreExclusive, RemovesAreLocked, RetiredIsGone,
   OneTransactionDeletes, Key

LEMMA KeyFaultType ==
    ASSUME ApiTypeOK, KeyFault
    PROVE  keyFaults' \in 0 .. MaxKeyFaults
BY ApiKeysAssumption DEF ApiTypeOK, KeyFault

LEMMA CreateKeyInv ==
    ASSUME ApiIInv, NEW c \in Caller, NEW k \in Key, CreateKey(c, k)
    PROVE  ApiIInv'
<1> USE KeyFaultType DEF ApiIInv, ApiTypeOK, CreateKey, NewKey, Steps, work
<1>1. ApiTypeOK'
  OBVIOUS
<1>2. KeyInv'
  BY DEF KeyInv, HeldInside, OnBorn, AddsAreNew, LocksAreExclusive,
     RemovesAreLocked, RetiredIsGone, OneTransactionDeletes
<1>3. QED
  BY <1>1, <1>2

LEMMA AnswerCreatedInv ==
    ASSUME ApiIInv, NEW c \in Caller, AnswerCreated(c)
    PROVE  ApiIInv'
<1> USE KeyFaultType DEF ApiIInv, ApiTypeOK, AnswerCreated, Steps, work
<1>1. on[c] \in born
  BY DEF KeyInv, OnBorn
<1>2. ApiTypeOK'
  BY <1>1
<1>3. KeyInv'
  BY DEF KeyInv, HeldInside, OnBorn, AddsAreNew, LocksAreExclusive,
     RemovesAreLocked, RetiredIsGone, OneTransactionDeletes
<1>4. QED
  BY <1>2, <1>3

LEMMA FindKeyInv ==
    ASSUME ApiIInv, NEW c \in Caller, NEW k \in Key, FindKey(c, k)
    PROVE  ApiIInv'
<1> USE KeyFaultType DEF ApiIInv, ApiTypeOK, FindKey, Steps, work, past
<1>1. ApiTypeOK'
  OBVIOUS
<1>2. KeyInv'
  BY DEF KeyInv, HeldInside, OnBorn, AddsAreNew, LocksAreExclusive,
     RemovesAreLocked, RetiredIsGone, OneTransactionDeletes
<1>3. QED
  BY <1>1, <1>2

LEMMA DeleteKeyInv ==
    ASSUME ApiIInv, NEW c \in Caller, DeleteKey(c)
    PROVE  ApiIInv'
<1> USE KeyFaultType DEF ApiIInv, ApiTypeOK, DeleteKey, Unlocked, Steps, work
<1>1. on[c] \in born
  BY DEF KeyInv, OnBorn
<1>2. ApiTypeOK'
  BY <1>1
<1>3. KeyInv'
  BY DEF KeyInv, HeldInside, OnBorn, AddsAreNew, LocksAreExclusive,
     RemovesAreLocked, RetiredIsGone, OneTransactionDeletes
<1>4. QED
  BY <1>2, <1>3

LEMMA AnswerDeletedInv ==
    ASSUME ApiIInv, NEW c \in Caller, AnswerDeleted(c)
    PROVE  ApiIInv'
<1> USE KeyFaultType DEF ApiIInv, ApiTypeOK, AnswerDeleted, Steps, work, past
<1>1. ApiTypeOK'
  OBVIOUS
<1>2. KeyInv'
  BY DEF KeyInv, HeldInside, OnBorn, AddsAreNew, LocksAreExclusive,
     RemovesAreLocked, RetiredIsGone, OneTransactionDeletes
<1>3. QED
  BY <1>1, <1>2

LEMMA BeginInv ==
    ASSUME ApiIInv, NEW c \in Caller, Begin(c)
    PROVE  ApiIInv'
<1> USE KeyFaultType DEF ApiIInv, ApiTypeOK, Begin, Steps, work, past
<1>1. ApiTypeOK'
  OBVIOUS
<1>2. KeyInv'
  BY DEF KeyInv, HeldInside, OnBorn, AddsAreNew, LocksAreExclusive,
     RemovesAreLocked, RetiredIsGone, OneTransactionDeletes
<1>3. QED
  BY <1>1, <1>2

LEMMA CreateInsideInv ==
    ASSUME ApiIInv, NEW c \in Caller, NEW k \in Key, CreateInside(c, k)
    PROVE  ApiIInv'
<1> USE KeyFaultType DEF ApiIInv, ApiTypeOK, CreateInside, NewKey, Added
<1>1. ApiTypeOK'
  OBVIOUS
<1>2. KeyInv'
  BY DEF KeyInv, HeldInside, OnBorn, AddsAreNew, LocksAreExclusive,
     RemovesAreLocked, RetiredIsGone, OneTransactionDeletes
<1>3. QED
  BY <1>1, <1>2

LEMMA FindInsideInv ==
    ASSUME ApiIInv, NEW c \in Caller, NEW k \in Key, FindInside(c, k)
    PROVE  ApiIInv'
<1> USE KeyFaultType DEF ApiIInv, ApiTypeOK, FindInside, LockKey, Unlocked, Steps, past
<1>1. ApiTypeOK'
  OBVIOUS
<1>2. KeyInv'
  BY DEF KeyInv, HeldInside, OnBorn, AddsAreNew, LocksAreExclusive,
     RemovesAreLocked, RetiredIsGone, OneTransactionDeletes
<1>3. QED
  BY <1>1, <1>2

LEMMA DeleteInsideInv ==
    ASSUME ApiIInv, NEW c \in Caller, DeleteInside(c)
    PROVE  ApiIInv'
<1> USE KeyFaultType DEF ApiIInv, ApiTypeOK, DeleteInside, Unlocked, Steps, past
<1>1. on[c] \in born
  BY DEF KeyInv, OnBorn
<1>2. ApiTypeOK'
  BY <1>1
<1>3. KeyInv'
  BY DEF KeyInv, HeldInside, OnBorn, AddsAreNew, LocksAreExclusive,
     RemovesAreLocked, RetiredIsGone, OneTransactionDeletes
<1>4. QED
  BY <1>2, <1>3

LEMMA CommitInv ==
    ASSUME ApiIInv, NEW c \in Caller, Commit(c)
    PROVE  ApiIInv'
<1> USE KeyFaultType DEF ApiIInv, ApiTypeOK, Commit, Applied, Ended
<1>1. adds[c] \subseteq born
  BY DEF KeyInv, AddsAreNew
<1>2. ApiTypeOK'
  BY <1>1
<1>3. KeyInv'
  BY DEF KeyInv, HeldInside, OnBorn, AddsAreNew, LocksAreExclusive,
     RemovesAreLocked, RetiredIsGone, OneTransactionDeletes
<1>4. QED
  BY <1>2, <1>3

LEMMA CommitRaisesInv ==
    ASSUME ApiIInv, NEW c \in Caller, CommitRaises(c)
    PROVE  ApiIInv'
<1> USE KeyFaultType DEF ApiIInv, ApiTypeOK, CommitRaises, Applied, Ended
<1>1. adds[c] \subseteq born
  BY DEF KeyInv, AddsAreNew
<1>2. ApiTypeOK'
  BY <1>1
<1>3. KeyInv'
  BY DEF KeyInv, HeldInside, OnBorn, AddsAreNew, LocksAreExclusive,
     RemovesAreLocked, RetiredIsGone, OneTransactionDeletes
<1>4. QED
  BY <1>2, <1>3

LEMMA RollBackInv ==
    ASSUME ApiIInv, NEW c \in Caller, RollBack(c)
    PROVE  ApiIInv'
<1> USE KeyFaultType DEF ApiIInv, ApiTypeOK, RollBack, Discarded, Ended, past
<1>1. ApiTypeOK'
  OBVIOUS
<1>2. KeyInv'
  BY DEF KeyInv, HeldInside, OnBorn, AddsAreNew, LocksAreExclusive,
     RemovesAreLocked, RetiredIsGone, OneTransactionDeletes
<1>3. QED
  BY <1>1, <1>2

-----------------------------------------------------------------------------
(* The step, and the theorems about the keys.                               *)

LEMMA ApiStepInv ==
    ASSUME ApiIInv, [ApiNext]_<<apiVars, auditVars>>
    PROVE  ApiIInv'
<1>1. CASE UNCHANGED <<apiVars, auditVars>>
  BY <1>1 DEF ApiIInv, ApiTypeOK, KeyInv, HeldInside, OnBorn, AddsAreNew,
     LocksAreExclusive, RemovesAreLocked, RetiredIsGone, OneTransactionDeletes,
     apiVars, work, past
<1>2. ASSUME NEW c \in Caller, NEW k \in Key,
             \/ CreateKey(c, k) \/ FindKey(c, k)
             \/ CreateInside(c, k) \/ FindInside(c, k)
      PROVE  ApiIInv'
  BY <1>2, CreateKeyInv, FindKeyInv, CreateInsideInv, FindInsideInv
<1>3. ASSUME NEW c \in Caller,
             \/ AnswerCreated(c) \/ DeleteKey(c) \/ AnswerDeleted(c)
             \/ Begin(c) \/ DeleteInside(c) \/ Commit(c)
             \/ CommitRaises(c) \/ RollBack(c)
      PROVE  ApiIInv'
  BY <1>3, AnswerCreatedInv, DeleteKeyInv, AnswerDeletedInv, BeginInv,
     DeleteInsideInv, CommitInv, CommitRaisesInv, RollBackInv
<1>4. QED
  BY <1>1, <1>2, <1>3 DEF ApiNext

LEMMA ApiSpecInv == ApiSpec => []ApiIInv
BY ApiInitInv, ApiStepInv, PTL DEF ApiSpec

(* The variables of the keys keep their shapes: a caller in a call is       *)
(* concerned with a key that was made, records, holders and doubts are      *)
(* about such keys, and the failures stay within their bound.               *)
THEOREM ApiTypeCorrect == ApiSpec => []ApiTypeOK
<1>1. ApiIInv => ApiTypeOK
  BY DEF ApiIInv
<1>2. QED
  BY <1>1, ApiSpecInv, PTL

(* Of any number of transactions that delete one key, one commits: the      *)
(* FOR UPDATE of get_api_key makes the others wait, and then find no row.   *)
THEOREM OneTransactionDeletesHolds == ApiSpec => []OneTransactionDeletes
<1>1. ApiIInv => OneTransactionDeletes
  BY DEF ApiIInv, KeyInv
<1>2. QED
  BY <1>1, ApiSpecInv, PTL

-----------------------------------------------------------------------------
(* A key and its record.                                                    *)

(* The keys of transactions are the managed ones, and only these have       *)
(* records; a key of a transaction's own is not recorded yet.               *)
RecordInv ==
    /\ \A c \in Caller : adds[c] \subseteq managed
    /\ \A c \in Caller : adds[c] \cap records = {}
    /\ KeyAndRecordTogether

LEMMA InitRecord == ApiInit => RecordInv
BY DEF ApiInit, RecordInv, KeyAndRecordTogether

LEMMA StepRecord ==
    ASSUME ApiIInv, RecordInv, [ApiNext]_<<apiVars, auditVars>>
    PROVE  RecordInv'
<1> USE DEF ApiIInv, ApiTypeOK, RecordInv, KeyAndRecordTogether
<1>1. CASE UNCHANGED <<apiVars, auditVars>>
  BY <1>1 DEF apiVars, work, past
<1>2. ASSUME NEW c \in Caller, NEW k \in Key, CreateKey(c, k) PROVE RecordInv'
  BY <1>2 DEF CreateKey, NewKey, Steps, work
<1>3. ASSUME NEW c \in Caller, NEW k \in Key, CreateInside(c, k)
      PROVE  RecordInv'
  BY <1>3 DEF CreateInside, NewKey, Added
<1>4. ASSUME NEW c \in Caller, NEW k \in Key, FindKey(c, k) \/ FindInside(c, k)
      PROVE  RecordInv'
  BY <1>4 DEF FindKey, FindInside, work, past
<1>5. ASSUME NEW c \in Caller,
             \/ AnswerCreated(c) \/ AnswerDeleted(c)
             \/ Begin(c) \/ DeleteInside(c)
      PROVE  RecordInv'
  BY <1>5 DEF AnswerCreated, AnswerDeleted, Begin, DeleteInside, work, past
<1>6. ASSUME NEW c \in Caller, DeleteKey(c) PROVE RecordInv'
  BY <1>6 DEF DeleteKey, work
<1>7. ASSUME NEW c \in Caller, Commit(c) \/ CommitRaises(c) PROVE RecordInv'
  BY <1>7 DEF KeyInv, AddsAreNew, Commit, CommitRaises, Applied, Ended
<1>8. ASSUME NEW c \in Caller, RollBack(c) PROVE RecordInv'
  BY <1>8 DEF RollBack, Discarded, Ended, past
<1>9. QED
  BY <1>1, <1>2, <1>3, <1>4, <1>5, <1>6, <1>7, <1>8 DEF ApiNext

(* A key made in a transaction and the record written with it exist         *)
(* together whatever fails; only the deletion by a route, which knows of no *)
(* record, leaves the record behind.                                        *)
THEOREM KeyAndRecordHolds == ApiSpec => []KeyAndRecordTogether
<1>1. RecordInv => KeyAndRecordTogether
  BY DEF RecordInv
<1>2. QED
  BY <1>1, InitRecord, StepRecord, ApiSpecInv, PTL DEF ApiSpec

-----------------------------------------------------------------------------
(* The secret of a key.                                                     *)

LEMMA InitSecret == ApiInit => SecretLostOnlyForCause
BY DEF ApiInit, SecretLostOnlyForCause

LEMMA StepSecret ==
    ASSUME ApiIInv, SecretLostOnlyForCause, [ApiNext]_<<apiVars, auditVars>>
    PROVE  SecretLostOnlyForCause'
<1> USE DEF ApiIInv, ApiTypeOK, SecretLostOnlyForCause, Steps
<1>1. CASE UNCHANGED <<apiVars, auditVars>>
  BY <1>1 DEF apiVars, work, past
<1>2. ASSUME NEW c \in Caller, NEW k \in Key, CreateKey(c, k)
      PROVE  SecretLostOnlyForCause'
  BY <1>2 DEF CreateKey
<1>3. ASSUME NEW c \in Caller, AnswerCreated(c) PROVE SecretLostOnlyForCause'
  BY <1>3 DEF AnswerCreated
<1>4. ASSUME NEW c \in Caller, NEW k \in Key,
             FindKey(c, k) \/ CreateInside(c, k) \/ FindInside(c, k)
      PROVE  SecretLostOnlyForCause'
  BY <1>4 DEF FindKey, CreateInside, Added, FindInside, work, past
<1>5. ASSUME NEW c \in Caller,
             \/ DeleteKey(c) \/ AnswerDeleted(c)
             \/ Begin(c) \/ DeleteInside(c) \/ RollBack(c)
      PROVE  SecretLostOnlyForCause'
  BY <1>5 DEF DeleteKey, AnswerDeleted, Begin, DeleteInside, RollBack,
              Discarded, Ended, work, past
<1>6. ASSUME NEW c \in Caller, Commit(c) \/ CommitRaises(c)
      PROVE  SecretLostOnlyForCause'
  BY <1>6 DEF Commit, CommitRaises, Applied, Ended
<1>7. QED
  BY <1>1, <1>2, <1>3, <1>4, <1>5, <1>6 DEF ApiNext

(* A live key whose secret nobody has comes from a hook that raised or a    *)
(* write that was not acknowledged, whatever the interleaving of the        *)
(* callers.                                                                 *)
THEOREM SecretHolds == ApiSpec => []SecretLostOnlyForCause
BY InitSecret, StepSecret, ApiSpecInv, PTL DEF ApiSpec

-----------------------------------------------------------------------------
(* ProviderKeys: what a thread knows.                                       *)

(* A thread that is about to store or to use an issuer has one. *)
IssuersAreRead ==
    \A t \in Thread :
        step[t] \in {"comparing", "keeping", "replacing", "storeMetadata",
                     "fetchKeys"} => issuer[t] \in Issuer

(* The cached metadata belong to the configuration, unless a thread was     *)
(* overtaken by a new configuration or one is being put in force.           *)
MetadataAreRight ==
    \/ metadata \in {NoIssuer, config}
    \/ overtaken
    \/ \E u \in Thread : step[u] = "clearing"

(* That is done to everybody else. *)
LoneIsUndisturbed ==
    \A t \in Thread \ crossed : \A u \in Thread \ {t} : step[u] # "clearing"

(* A second look is a look of the same call. *)
SecondLook ==
    \A t \in again :
        step[t] \notin {"idle", "reading", "comparing", "keeping", "replacing",
                        "clearing", "clearingKeys"}

(* What a thread knows that nobody has disturbed: from the cached metadata  *)
(* to the issuer it asks, to the keys it is sent, to the keys it reads when *)
(* it looks again.                                                          *)
KnowsRight(t) ==
    /\ step[t] = "readMetadata" => metadata # NoIssuer
    /\ step[t] = "fetchKeys" => issuer[t] = config \/ overtaken
    /\ step[t] = "storeKeys" => answer[t] = published[config] \/ overtaken
    /\ step[t] = "look" /\ t \in again => jwks = NoKeys
    /\ step[t] = "readKeys" =>
          /\ jwks # NoKeys
          /\ t \in again => jwks = published[config] \/ overtaken
    /\ step[t] # "raised"
    /\ step[t] \in {"refused", "invalid"} =>
          token[t] \notin published[config] \/ overtaken

LoneKnowRight == \A t \in Thread \ crossed : KnowsRight(t)

KeysInv ==
    /\ IssuersAreRead
    /\ MetadataAreRight
    /\ LoneIsUndisturbed
    /\ SecondLook
    /\ LoneKnowRight

KeysIInv == KeysTypeOK /\ KeysInv

LEMMA KeysInitInv == KeysInit => KeysIInv
<1> SUFFICES ASSUME KeysInit PROVE KeysIInv
  OBVIOUS
<1>1. KeysTypeOK
  <2>1. step \in [Thread -> {"idle"} \cup Working \cup Outcomes]
    BY DEF KeysInit
  <2>2. jwks = NoKeys /\ changes \in 0 .. MaxChanges
    BY KeysAssumption DEF KeysInit
  <2>3. QED
    BY <2>1, <2>2 DEF KeysInit, KeysTypeOK
<1>2. KeysInv
  BY DEF KeysInit, KeysInv, IssuersAreRead, MetadataAreRight,
     LoneIsUndisturbed, SecondLook, LoneKnowRight, KnowsRight
<1>3. QED
  BY <1>1, <1>2 DEF KeysIInv

(* Keys belong to their issuer. *)
LEMMA KeysOfIssuer ==
    ASSUME KeysTypeOK, NEW k, k \in published[config]
    PROVE  IssuerOf[k] = config
BY DEF KeysTypeOK, KeysOf

LEMMA OutsideInv ==
    ASSUME KeysIInv, ChangeSetting \/ Expire \/ \E i \in Issuer : RotateKeys(i)
    PROVE  KeysIInv'
<1> USE KeysAssumption DEF KeysIInv, KeysTypeOK, KeysInv, ChangeSetting,
        Expire, RotateKeys, Change, caches, current, local
<1>1. KeysTypeOK'
  <2>1. /\ changes' \in 0 .. MaxChanges
        /\ UNCHANGED <<step, token, again, issuer, answer, config, metadata, jwks,
                       overtaken>>
    OBVIOUS
  <2>2. ASSUME NEW i \in Issuer, NEW ks \in SUBSET KeysOf(i),
               published' = [published EXCEPT ![i] = ks]
        PROVE  /\ published' \in [Issuer -> SUBSET SigningKey]
               /\ \A h \in Issuer : published'[h] \subseteq KeysOf(h)
    BY <2>2 DEF KeysOf
  <2>3. /\ published' \in [Issuer -> SUBSET SigningKey]
        /\ \A h \in Issuer : published'[h] \subseteq KeysOf(h)
    BY <2>2
  <2>4. /\ setting' \in Issuer /\ crossed' \in SUBSET Thread
        /\ configFresh' \in BOOLEAN /\ metaFresh' \in BOOLEAN
        /\ jwksFresh' \in BOOLEAN
    OBVIOUS
  <2>5. QED
    BY <2>1, <2>3, <2>4
<1>2. IssuersAreRead'
  BY DEF IssuersAreRead, Outcomes
<1>3. MetadataAreRight'
  BY DEF MetadataAreRight, Outcomes
<1>4. LoneIsUndisturbed'
  BY DEF LoneIsUndisturbed, Outcomes
<1>5. SecondLook'
  BY DEF SecondLook, Outcomes
<1>6. LoneKnowRight'
  BY DEF LoneKnowRight, KnowsRight, Outcomes
<1>7. QED
  BY <1>1, <1>2, <1>3, <1>4, <1>5, <1>6

LEMMA EnterInv ==
    ASSUME KeysIInv, NEW t \in Thread, NEW k \in SigningKey \cup {NoToken}, Enter(t, k)
    PROVE  KeysIInv'
<1> USE KeysAssumption DEF KeysIInv, KeysTypeOK, KeysInv, Enter, outside,
        caches, current
<1>1. KeysTypeOK'
  BY DEF Working, Outcomes, KeysOf
<1>2. IssuersAreRead'
  BY DEF IssuersAreRead, Outcomes
<1>3. MetadataAreRight'
  BY DEF MetadataAreRight, Outcomes
<1>4. LoneIsUndisturbed'
  BY DEF LoneIsUndisturbed, Outcomes
<1>5. SecondLook'
  BY DEF SecondLook, Outcomes
<1>6. LoneKnowRight'
  BY DEF LoneKnowRight, KnowsRight, Outcomes
<1>7. QED
  BY <1>1, <1>2, <1>3, <1>4, <1>5, <1>6

LEMMA ReadSettingsInv ==
    ASSUME KeysIInv, NEW t \in Thread, ReadSettings(t)
    PROVE  KeysIInv'
<1> USE KeysAssumption DEF KeysIInv, KeysTypeOK, KeysInv, ReadSettings, Proceeds,
        outside, caches, current
<1>1. KeysTypeOK'
  BY DEF Working, Outcomes, KeysOf
<1>2. IssuersAreRead'
  BY DEF IssuersAreRead, Outcomes
<1>3. MetadataAreRight'
  BY DEF MetadataAreRight, Outcomes
<1>4. LoneIsUndisturbed'
  BY DEF LoneIsUndisturbed, Outcomes
<1>5. SecondLook'
  BY DEF SecondLook, Outcomes
<1>6. LoneKnowRight'
  BY DEF LoneKnowRight, KnowsRight, Outcomes
<1>7. QED
  BY <1>1, <1>2, <1>3, <1>4, <1>5, <1>6

LEMMA CompareInv ==
    ASSUME KeysIInv, NEW t \in Thread, Compare(t)
    PROVE  KeysIInv'
<1> USE KeysAssumption DEF KeysIInv, KeysTypeOK, KeysInv, Compare, Proceeds,
        outside, caches, current, local
<1>1. KeysTypeOK'
  BY DEF Working, Outcomes, KeysOf
<1>2. IssuersAreRead'
  BY DEF IssuersAreRead, Outcomes
<1>3. MetadataAreRight'
  BY DEF MetadataAreRight, Outcomes
<1>4. LoneIsUndisturbed'
  BY DEF LoneIsUndisturbed, Outcomes
<1>5. SecondLook'
  BY DEF SecondLook, Outcomes
<1>6. LoneKnowRight'
  BY DEF LoneKnowRight, KnowsRight, Outcomes
<1>7. QED
  BY <1>1, <1>2, <1>3, <1>4, <1>5, <1>6

LEMMA KeepConfigInv ==
    ASSUME KeysIInv, NEW t \in Thread, KeepConfig(t)
    PROVE  KeysIInv'
<1> USE KeysAssumption DEF KeysIInv, KeysTypeOK, KeysInv, KeepConfig, Proceeds,
        Crosses, Forgets, Begins, outside
<1>1. KeysTypeOK'
  BY DEF IssuersAreRead, Working, Outcomes, KeysOf
<1>2. IssuersAreRead'
  BY DEF IssuersAreRead, Outcomes
<1>3. MetadataAreRight'
  BY DEF MetadataAreRight, Outcomes
<1>4. LoneIsUndisturbed'
  BY DEF LoneIsUndisturbed, Outcomes
<1>5. SecondLook'
  BY DEF SecondLook, Outcomes
<1>6. LoneKnowRight'
  BY DEF SecondLook, LoneKnowRight, KnowsRight, Outcomes
<1>7. QED
  BY <1>1, <1>2, <1>3, <1>4, <1>5, <1>6

LEMMA ReplaceConfigInv ==
    ASSUME KeysIInv, NEW t \in Thread, ReplaceConfig(t)
    PROVE  KeysIInv'
<1> USE KeysAssumption DEF KeysIInv, KeysTypeOK, KeysInv, ReplaceConfig, Proceeds,
        Crosses, Forgets, outside, caches
<1>1. KeysTypeOK'
  BY DEF IssuersAreRead, Working, Outcomes, KeysOf
<1>2. IssuersAreRead'
  BY DEF IssuersAreRead, Outcomes
<1>3. MetadataAreRight'
  BY DEF MetadataAreRight, Outcomes
<1>4. LoneIsUndisturbed'
  BY DEF LoneIsUndisturbed, Outcomes
<1>5. SecondLook'
  BY DEF SecondLook, Outcomes
<1>6. LoneKnowRight'
  BY DEF LoneKnowRight, KnowsRight, Outcomes
<1>7. QED
  BY <1>1, <1>2, <1>3, <1>4, <1>5, <1>6

LEMMA ClearMetadataInv ==
    ASSUME KeysIInv, NEW t \in Thread, ClearMetadata(t)
    PROVE  KeysIInv'
<1> USE KeysAssumption DEF KeysIInv, KeysTypeOK, KeysInv, ClearMetadata,
        Proceeds, Crosses, outside, current, local
<1>1. KeysTypeOK'
  BY DEF Working, Outcomes, KeysOf
<1>2. IssuersAreRead'
  BY DEF IssuersAreRead, Outcomes
<1>3. MetadataAreRight'
  BY DEF MetadataAreRight, Outcomes
<1>4. LoneIsUndisturbed'
  BY DEF LoneIsUndisturbed, Outcomes
<1>5. SecondLook'
  BY DEF SecondLook, Outcomes
<1>6. LoneKnowRight'
  BY DEF LoneKnowRight, KnowsRight, Outcomes
<1>7. QED
  BY <1>1, <1>2, <1>3, <1>4, <1>5, <1>6

LEMMA ClearKeysInv ==
    ASSUME KeysIInv, NEW t \in Thread, ClearKeys(t)
    PROVE  KeysIInv'
<1> USE KeysAssumption DEF KeysIInv, KeysTypeOK, KeysInv, ClearKeys, Proceeds,
        Crosses, Begins, outside, local
<1>1. KeysTypeOK'
  BY DEF Working, Outcomes, KeysOf
<1>2. IssuersAreRead'
  BY DEF IssuersAreRead, Outcomes
<1>3. MetadataAreRight'
  BY DEF MetadataAreRight, Outcomes
<1>4. LoneIsUndisturbed'
  BY DEF LoneIsUndisturbed, Outcomes
<1>5. SecondLook'
  BY DEF SecondLook, Outcomes
<1>6. LoneKnowRight'
  BY DEF LoneKnowRight, KnowsRight, Outcomes
<1>7. QED
  BY <1>1, <1>2, <1>3, <1>4, <1>5, <1>6

LEMMA CheckMetadataInv ==
    ASSUME KeysIInv, NEW t \in Thread, CheckMetadata(t)
    PROVE  KeysIInv'
<1> USE KeysAssumption DEF KeysIInv, KeysTypeOK, KeysInv, CheckMetadata,
        Proceeds, outside, caches, current, local
<1>1. KeysTypeOK'
  BY DEF Working, Outcomes, KeysOf
<1>2. IssuersAreRead'
  BY DEF IssuersAreRead, Outcomes
<1>3. MetadataAreRight'
  BY DEF MetadataAreRight, Outcomes
<1>4. LoneIsUndisturbed'
  BY DEF LoneIsUndisturbed, Outcomes
<1>5. SecondLook'
  BY DEF SecondLook, Outcomes
<1>6. LoneKnowRight'
  BY DEF LoneKnowRight, KnowsRight, Outcomes
<1>7. QED
  BY <1>1, <1>2, <1>3, <1>4, <1>5, <1>6

LEMMA FetchMetadataInv ==
    ASSUME KeysIInv, NEW t \in Thread, FetchMetadata(t)
    PROVE  KeysIInv'
<1> USE KeysAssumption DEF KeysIInv, KeysTypeOK, KeysInv, FetchMetadata,
        Proceeds, outside, caches, current
<1>1. KeysTypeOK'
  BY DEF Working, Outcomes, KeysOf
<1>2. IssuersAreRead'
  BY DEF IssuersAreRead, Outcomes
<1>3. MetadataAreRight'
  BY DEF MetadataAreRight, Outcomes
<1>4. LoneIsUndisturbed'
  BY DEF LoneIsUndisturbed, Outcomes
<1>5. SecondLook'
  BY DEF SecondLook, Outcomes
<1>6. LoneKnowRight'
  BY DEF LoneKnowRight, KnowsRight, Outcomes
<1>7. QED
  BY <1>1, <1>2, <1>3, <1>4, <1>5, <1>6

LEMMA StoreMetadataInv ==
    ASSUME KeysIInv, NEW t \in Thread, StoreMetadata(t)
    PROVE  KeysIInv'
<1> USE KeysAssumption DEF KeysIInv, KeysTypeOK, KeysInv, StoreMetadata,
        Proceeds, Crosses, Forgets, outside, current
<1>1. KeysTypeOK'
  BY DEF Working, Outcomes, KeysOf
<1>2. IssuersAreRead'
  BY DEF IssuersAreRead, Outcomes
<1>3. MetadataAreRight'
  BY DEF MetadataAreRight, Outcomes
<1>4. LoneIsUndisturbed'
  BY DEF LoneIsUndisturbed, Outcomes
<1>5. SecondLook'
  BY DEF SecondLook, Outcomes
<1>6. LoneKnowRight'
  <2>1. ASSUME NEW u \in Thread \ crossed', u # t
        PROVE  KnowsRight(u)'
    BY <2>1 DEF LoneKnowRight, KnowsRight
  <2>2. KnowsRight(t)'
    BY DEF IssuersAreRead, KnowsRight
  <2>3. QED
    BY <2>1, <2>2 DEF LoneKnowRight
<1>7. QED
  BY <1>1, <1>2, <1>3, <1>4, <1>5, <1>6

LEMMA ReadMetadataInv ==
    ASSUME KeysIInv, NEW t \in Thread, ReadMetadata(t)
    PROVE  KeysIInv'
<1> USE KeysAssumption DEF KeysIInv, KeysTypeOK, KeysInv, ReadMetadata,
        Proceeds, outside, caches, current
<1>1. KeysTypeOK'
  BY DEF Working, Outcomes, KeysOf
<1>2. IssuersAreRead'
  BY DEF IssuersAreRead, Outcomes
<1>3. MetadataAreRight'
  BY DEF MetadataAreRight, Outcomes
<1>4. LoneIsUndisturbed'
  BY DEF LoneIsUndisturbed, Outcomes
<1>5. SecondLook'
  BY DEF SecondLook, Outcomes
<1>6. LoneKnowRight'
  <2>1. ASSUME t \notin crossed, metadata # NoIssuer
        PROVE  metadata = config \/ overtaken
    BY <2>1 DEF MetadataAreRight, LoneIsUndisturbed
  <2>2. QED
    BY <2>1 DEF LoneKnowRight, KnowsRight, Outcomes
<1>7. QED
  BY <1>1, <1>2, <1>3, <1>4, <1>5, <1>6

LEMMA CheckKeysInv ==
    ASSUME KeysIInv, NEW t \in Thread, CheckKeys(t)
    PROVE  KeysIInv'
<1> USE KeysAssumption DEF KeysIInv, KeysTypeOK, KeysInv, CheckKeys, Proceeds,
        outside, caches, current, local
<1>1. KeysTypeOK'
  BY DEF Working, Outcomes, KeysOf
<1>2. IssuersAreRead'
  BY DEF IssuersAreRead, Outcomes
<1>3. MetadataAreRight'
  BY DEF MetadataAreRight, Outcomes
<1>4. LoneIsUndisturbed'
  BY DEF LoneIsUndisturbed, Outcomes
<1>5. SecondLook'
  BY DEF SecondLook, Outcomes
<1>6. LoneKnowRight'
  <2>1. ASSUME NEW u \in Thread \ crossed, u # t
        PROVE  KnowsRight(u)'
    BY <2>1 DEF LoneKnowRight, KnowsRight
  <2>2. ASSUME t \notin crossed
        PROVE  KnowsRight(t)'
    BY <2>2 DEF LoneKnowRight, KnowsRight
  <2>3. QED
    BY <2>1, <2>2 DEF LoneKnowRight
<1>7. QED
  BY <1>1, <1>2, <1>3, <1>4, <1>5, <1>6

LEMMA FetchKeysInv ==
    ASSUME KeysIInv, NEW t \in Thread, FetchKeys(t)
    PROVE  KeysIInv'
<1> USE KeysAssumption DEF KeysIInv, KeysTypeOK, KeysInv, FetchKeys, Proceeds,
        Forgets, outside, caches, current
<1>1. KeysTypeOK'
  BY DEF IssuersAreRead, Working, Outcomes, KeysOf
<1>2. IssuersAreRead'
  BY DEF IssuersAreRead, Outcomes
<1>3. MetadataAreRight'
  BY DEF MetadataAreRight, Outcomes
<1>4. LoneIsUndisturbed'
  BY DEF LoneIsUndisturbed, Outcomes
<1>5. SecondLook'
  BY DEF SecondLook, Outcomes
<1>6. LoneKnowRight'
  BY DEF LoneKnowRight, KnowsRight, Outcomes
<1>7. QED
  BY <1>1, <1>2, <1>3, <1>4, <1>5, <1>6

LEMMA UnreachedInv ==
    ASSUME KeysIInv, NEW t \in Thread, Unreached(t)
    PROVE  KeysIInv'
<1> USE KeysAssumption DEF KeysIInv, KeysTypeOK, KeysInv, Unreached, Proceeds,
        Forgets, outside, caches, current
<1>1. KeysTypeOK'
  BY DEF Working, Outcomes, KeysOf
<1>2. IssuersAreRead'
  BY DEF IssuersAreRead, Outcomes
<1>3. MetadataAreRight'
  BY DEF MetadataAreRight, Outcomes
<1>4. LoneIsUndisturbed'
  BY DEF LoneIsUndisturbed, Outcomes
<1>5. SecondLook'
  BY DEF SecondLook, Outcomes
<1>6. LoneKnowRight'
  BY DEF LoneKnowRight, KnowsRight, Outcomes
<1>7. QED
  BY <1>1, <1>2, <1>3, <1>4, <1>5, <1>6

LEMMA StoreKeysInv ==
    ASSUME KeysIInv, NEW t \in Thread, StoreKeys(t)
    PROVE  KeysIInv'
<1> USE KeysAssumption DEF KeysIInv, KeysTypeOK, KeysInv, StoreKeys, Proceeds,
        Crosses, outside, current
<1>1. KeysTypeOK'
  BY DEF Working, Outcomes, KeysOf
<1>2. IssuersAreRead'
  BY DEF IssuersAreRead, Outcomes
<1>3. MetadataAreRight'
  BY DEF MetadataAreRight, Outcomes
<1>4. LoneIsUndisturbed'
  BY DEF LoneIsUndisturbed, Outcomes
<1>5. SecondLook'
  BY DEF SecondLook, Outcomes
<1>6. LoneKnowRight'
  BY DEF LoneKnowRight, KnowsRight, Outcomes
<1>7. QED
  BY <1>1, <1>2, <1>3, <1>4, <1>5, <1>6

LEMMA ReadKeysInv ==
    ASSUME KeysIInv, NEW t \in Thread, ReadKeys(t)
    PROVE  KeysIInv'
<1> USE KeysAssumption DEF KeysIInv, KeysTypeOK, KeysInv, ReadKeys, Proceeds,
        outside, caches, current, local
<1>1. KeysTypeOK'
  BY DEF Working, Outcomes, KeysOf
<1>2. IssuersAreRead'
  BY DEF IssuersAreRead, Outcomes
<1>3. MetadataAreRight'
  BY DEF MetadataAreRight, Outcomes
<1>4. LoneIsUndisturbed'
  BY DEF LoneIsUndisturbed, Outcomes
<1>5. SecondLook'
  BY DEF SecondLook, Outcomes
<1>6. LoneKnowRight'
  BY DEF LoneKnowRight, KnowsRight, Outcomes
<1>7. QED
  BY <1>1, <1>2, <1>3, <1>4, <1>5, <1>6

LEMMA DropKeysInv ==
    ASSUME KeysIInv, NEW t \in Thread, DropKeys(t)
    PROVE  KeysIInv'
<1> USE KeysAssumption DEF KeysIInv, KeysTypeOK, KeysInv, DropKeys, Proceeds,
        Crosses, outside, current
<1>1. KeysTypeOK'
  BY DEF Working, Outcomes, KeysOf
<1>2. IssuersAreRead'
  BY DEF IssuersAreRead, Outcomes
<1>3. MetadataAreRight'
  BY DEF MetadataAreRight, Outcomes
<1>4. LoneIsUndisturbed'
  BY DEF LoneIsUndisturbed, Outcomes
<1>5. SecondLook'
  BY DEF SecondLook, Outcomes
<1>6. LoneKnowRight'
  BY DEF LoneKnowRight, KnowsRight, Outcomes
<1>7. QED
  BY <1>1, <1>2, <1>3, <1>4, <1>5, <1>6

LEMMA DecodeInv ==
    ASSUME KeysIInv, NEW t \in Thread, Decode(t)
    PROVE  KeysIInv'
<1> USE KeysAssumption DEF KeysIInv, KeysTypeOK, KeysInv, Decode, Proceeds,
        outside, caches, current, local
<1>1. KeysTypeOK'
  BY DEF Working, Outcomes, KeysOf
<1>2. IssuersAreRead'
  BY DEF IssuersAreRead, Outcomes
<1>3. MetadataAreRight'
  BY DEF MetadataAreRight, Outcomes
<1>4. LoneIsUndisturbed'
  BY DEF LoneIsUndisturbed, Outcomes
<1>5. SecondLook'
  BY DEF SecondLook, Outcomes
<1>6. LoneKnowRight'
  BY KeysOfIssuer DEF LoneKnowRight, KnowsRight, Outcomes
<1>7. QED
  BY <1>1, <1>2, <1>3, <1>4, <1>5, <1>6

-----------------------------------------------------------------------------
(* The step, and the theorems about the caches.                             *)

LEMMA KeysStepInv ==
    ASSUME KeysIInv, [KeysNext]_keysVars
    PROVE  KeysIInv'
<1>1. CASE UNCHANGED keysVars
  BY <1>1 DEF keysVars, outside, caches, current, local, KeysIInv, KeysTypeOK,
     KeysInv, IssuersAreRead, MetadataAreRight, LoneIsUndisturbed, SecondLook,
     LoneKnowRight, KnowsRight
<1>2. CASE ChangeSetting \/ Expire \/ \E i \in Issuer : RotateKeys(i)
  BY <1>2, OutsideInv
<1>3. ASSUME NEW t \in Thread, NEW k \in SigningKey \cup {NoToken}, Enter(t, k)
      PROVE  KeysIInv'
  BY <1>3, EnterInv
<1>4. ASSUME NEW t \in Thread,
             \/ ReadSettings(t) \/ Compare(t) \/ KeepConfig(t)
             \/ ReplaceConfig(t) \/ ClearMetadata(t) \/ ClearKeys(t)
      PROVE  KeysIInv'
  BY <1>4, ReadSettingsInv, CompareInv, KeepConfigInv, ReplaceConfigInv,
     ClearMetadataInv, ClearKeysInv
<1>5. ASSUME NEW t \in Thread,
             \/ CheckMetadata(t) \/ FetchMetadata(t) \/ StoreMetadata(t)
             \/ ReadMetadata(t) \/ Unreached(t)
      PROVE  KeysIInv'
  BY <1>5, CheckMetadataInv, FetchMetadataInv, StoreMetadataInv,
     ReadMetadataInv, UnreachedInv
<1>6. ASSUME NEW t \in Thread,
             \/ CheckKeys(t) \/ FetchKeys(t) \/ StoreKeys(t)
             \/ ReadKeys(t) \/ DropKeys(t) \/ Decode(t)
      PROVE  KeysIInv'
  BY <1>6, CheckKeysInv, FetchKeysInv, StoreKeysInv, ReadKeysInv,
     DropKeysInv, DecodeInv
<1>7. QED
  BY <1>1, <1>2, <1>3, <1>4, <1>5, <1>6 DEF KeysNext

LEMMA KeysSpecInv == KeysSpec => []KeysIInv
BY KeysInitInv, KeysStepInv, PTL DEF KeysSpec

(* The variables of the caches keep their shapes, and what an issuer        *)
(* publishes are keys of its own.                                           *)
THEOREM KeysTypeCorrect == KeysSpec => []KeysTypeOK
<1>1. KeysIInv => KeysTypeOK
  BY DEF KeysIInv
<1>2. QED
  BY <1>1, KeysSpecInv, PTL

(* With any number of threads, issuers and changes: select_jwk_key and      *)
(* jwt.decode turn a good token down, and get_metadata or get_jwks give     *)
(* None away, only when somebody or something changed the caches, the       *)
(* configuration or the keys during the lookup, or when a thread that a new *)
(* configuration overtook has stored the old provider's metadata or         *)
(* assigned the old configuration again.                                    *)
THEOREM LoneLookupsHold == KeysSpec => []LoneLookupsAreRight
<1>1. KeysIInv => LoneLookupsAreRight
  BY DEF KeysIInv, KeysInv, LoneKnowRight, KnowsRight, LoneLookupsAreRight
<1>2. QED
  BY <1>1, KeysSpecInv, PTL

-----------------------------------------------------------------------------
(* The three machines side by side.                                         *)

Sessions == focus \in {"refresh", "relogin"}

LEMMA FocusStays ==
    Spec => /\ Sessions => []Sessions
            /\ focus = "keys" => [](focus = "keys")
<1>1. [Next]_<<focus, oidcVars, apiVars, keysVars, auditVars>> =>
         /\ Sessions => Sessions'
         /\ focus = "keys" => (focus = "keys")'
  BY DEF Next, Sessions
<1>2. QED
  BY <1>1, PTL DEF Spec

(* A behaviour of the composition is one of the machine that moves in it,   *)
(* while the others stutter: the invariants proved of each machine alone    *)
(* hold of it there.                                                        *)
THEOREM MovingMachineIsImplemented ==
    Spec => /\ Sessions => OidcSpec
            /\ focus = "keys" => ApiSpec
            /\ KeysSpec
<1>1. Init => OidcInit /\ ApiInit /\ KeysInit /\ AuditInit
  BY DEF Init
<1>2. [Next]_<<focus, oidcVars, apiVars, keysVars, auditVars>> =>
         /\ Sessions => [OidcNext]_<<oidcVars, auditVars>>
         /\ focus = "keys" => [ApiNext]_<<apiVars, auditVars>>
         /\ [KeysNext]_keysVars
  <2>1. CASE UNCHANGED <<focus, oidcVars, apiVars, keysVars, auditVars>>
    BY <2>1
  <2>2. CASE Next
    BY <2>2 DEF Next, Sessions
  <2>3. QED
    BY <2>1, <2>2
<1>3. QED
  BY <1>1, <1>2, FocusStays, PTL DEF Spec, OidcSpec, ApiSpec, KeysSpec

(* The shapes of all three hold together: the machines that stand still     *)
(* keep theirs.                                                             *)
THEOREM AuthTypeCorrect == Spec => []AuthTypeOK
<1> DEFINE Shapes == /\ OidcTypeOK /\ ApiTypeOK /\ KeysIInv
                     /\ Sessions => IInv
                     /\ focus = "keys" => ApiIInv
<1>1. Init => Shapes
  BY InitInv, ApiInitInv, KeysInitInv DEF Init, IInv, ApiIInv
<1>2. Shapes /\ [Next]_<<focus, oidcVars, apiVars, keysVars, auditVars>> =>
         Shapes'
  <2> SUFFICES ASSUME Shapes,
                      [Next]_<<focus, oidcVars, apiVars, keysVars, auditVars>>
               PROVE  Shapes'
    OBVIOUS
  <2>1. UNCHANGED oidcVars => OidcTypeOK'
    BY DEF oidcVars, browser, provider, request, OidcTypeOK
  <2>2. UNCHANGED apiVars => ApiTypeOK'
    BY DEF apiVars, work, past, ApiTypeOK
  <2>3. KeysIInv'
    <3>1. [KeysNext]_keysVars
      BY DEF Next
    <3>2. QED
      BY <3>1, KeysStepInv
  <2>4. CASE Sessions /\ [OidcNext]_<<oidcVars, auditVars>> /\ UNCHANGED apiVars
             /\ UNCHANGED focus
    BY <2>2, <2>3, <2>4, StepInv DEF IInv, Sessions
  <2>5. CASE focus = "keys" /\ [ApiNext]_<<apiVars, auditVars>>
             /\ UNCHANGED oidcVars /\ UNCHANGED focus
    BY <2>1, <2>3, <2>5, ApiStepInv DEF ApiIInv, Sessions
  <2>6. CASE ~Sessions /\ focus # "keys" /\ UNCHANGED <<oidcVars, apiVars, focus>>
    BY <2>1, <2>2, <2>3, <2>6 DEF Sessions
  <2>7. QED
    BY <2>4, <2>5, <2>6 DEF Next, Sessions
<1>3. Shapes => AuthTypeOK
  BY DEF AuthTypeOK, KeysIInv
<1>4. QED
  BY <1>1, <1>2, <1>3, PTL DEF Spec
==============================================================================
