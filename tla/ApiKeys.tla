-------------------------------- MODULE ApiKeys --------------------------------
(***************************************************************************)
(* API keys (cpkit.auth): their creation and deletion, by the routes, each  *)
(* statement on its own and followed by the audit hook, or by an            *)
(* application inside a transaction of its own (cpkit.db), which writes     *)
(* records of its own about the same keys.                                  *)
(***************************************************************************)
EXTENDS AuditHook

CONSTANTS
    Caller,
    Keys,             \* bound: keys are numbered in the order of creation
    MaxKeyFaults      \* bound: failed or unacknowledged statements

ASSUME ApiKeysAssumption ==
    /\ Keys \in Nat
    /\ MaxKeyFaults \in Nat

VARIABLES
    quiet,        \* the hook of the application is a best-effort one
    keys,         \* the committed rows of api_keys
    records,      \* the keys the application's committed records are about
    born,         \* keys created so far
    holders,      \* keys whose secret was returned to somebody
    at,           \* what each caller is doing
    on,           \* the key it does that to
    adds,         \* keys its open transaction creates
    removes,      \* and deletes
    locks,        \* rows locked by its transaction
    keyFaults,
    managed,      \* history: keys made in transactions
    revoked,      \* history: keys deleted by a route
    retired,      \* history: deletions committed by transactions
    doubts        \* history: keys whose creator was told of a failure

work    == <<adds, removes, locks>>
past    == <<managed, revoked, retired, doubts>>
apiVars == <<quiet, keys, records, born, holders, at, on, work, keyFaults,
             past>>

Key == 1 .. Keys

ApiInit ==
    /\ quiet \in BOOLEAN
    /\ keys = {} /\ records = {} /\ born = {} /\ holders = {}
    /\ at = [c \in Caller |-> "idle"]
    /\ on = [c \in Caller |-> 0]
    /\ adds = [c \in Caller |-> {}]
    /\ removes = [c \in Caller |-> {}]
    /\ locks = [c \in Caller |-> {}]
    /\ keyFaults = 0
    /\ managed = {} /\ revoked = {} /\ retired = {} /\ doubts = {}

KeyFault ==
    /\ keyFaults < MaxKeyFaults
    /\ keyFaults' = keyFaults + 1

Steps(c, from, to) ==
    /\ at[c] = from
    /\ at' = [at EXCEPT ![c] = to]

(* Mutant: the names of keys repeat themselves. *)
AnyKey(k) == k \in Key /\ UNCHANGED born

(* token_urlsafe does not repeat itself. *)
NewKey(k) ==
    /\ k \in Key \ born
    /\ k - 1 \in born \cup {0}
    /\ born' = born \cup {k}

Unlocked(c, k) == \A d \in Caller \ {c} : k \notin locks[d]

-----------------------------------------------------------------------------
(* The routes: no transaction.                                              *)

(* The INSERT, committed at once; or it raises, with or without its effect. *)
CreateKey(c, k) ==
    /\ NewKey(k)
    /\ on' = [on EXCEPT ![c] = k]
    /\ \/ /\ Steps(c, "idle", "created")
          /\ keys' = keys \cup {k}
          /\ UNCHANGED <<keyFaults, doubts>>
       \/ /\ at[c] = "idle"
          /\ KeyFault
          /\ keys' \in {keys, keys \cup {k}}
          /\ doubts' = doubts \cup {k}
          /\ UNCHANGED at
    /\ UNCHANGED <<quiet, records, holders, work, managed, revoked, retired,
                   auditVars>>

(* created_hook.  The secret goes with the answer, so that it is lost when  *)
(* the hook raises.                                                         *)
AnswerCreated(c) ==
    /\ Steps(c, "created", "idle")
    /\ \/ /\ HookReturns(quiet, <<"API_KEY_CREATED", on[c]>>)
          /\ holders' = holders \cup {on[c]}
          /\ UNCHANGED doubts
       \/ /\ HookRaises(quiet, <<"API_KEY_CREATED", on[c]>>)
          /\ doubts' = doubts \cup {on[c]}
          /\ UNCHANGED holders
    /\ UNCHANGED <<quiet, keys, records, born, on, work, keyFaults, managed,
                   revoked, retired>>

(* get_api_key; a key that is not there is a 404. *)
FindKey(c, k) ==
    /\ k \in keys
    /\ Steps(c, "idle", "found")
    /\ on' = [on EXCEPT ![c] = k]
    /\ UNCHANGED <<quiet, keys, records, born, holders, work, keyFaults, past,
                   auditVars>>

(* The DELETE waits for a lock on the row.  It may find the row gone, and   *)
(* succeeds all the same.                                                   *)
DeleteKey(c) ==
    /\ Unlocked(c, on[c])
    /\ \/ Steps(c, "found", "deleted") /\ keys' = keys \ {on[c]} /\ UNCHANGED keyFaults
       \/ /\ Steps(c, "found", "idle")
          /\ KeyFault
          /\ keys' \in {keys, keys \ {on[c]}}
    /\ revoked' = revoked \cup {on[c]}
    /\ UNCHANGED <<quiet, records, born, holders, on, work, managed, retired,
                   doubts, auditVars>>

AnswerDeleted(c) ==
    /\ Steps(c, "deleted", "idle")
    /\ \/ HookReturns(quiet, <<"API_KEY_DELETED", on[c]>>)
       \/ HookRaises(quiet, <<"API_KEY_DELETED", on[c]>>)
    /\ UNCHANGED <<quiet, keys, records, born, holders, on, work, keyFaults,
                   past>>

-----------------------------------------------------------------------------
(* An application's transaction, without hooks.                             *)

Begin(c) ==
    /\ Steps(c, "idle", "open")
    /\ UNCHANGED <<quiet, keys, records, born, holders, on, work, keyFaults,
                   past, auditVars>>

(* Mutant: the statement is not given the transaction. *)
AddedAtOnce(c, k) ==
    /\ keys' = keys \cup {k}
    /\ adds' = [adds EXCEPT ![c] = @ \cup {k}]

Added(c, k) ==
    /\ adds' = [adds EXCEPT ![c] = @ \cup {k}]
    /\ UNCHANGED keys

(* create_api_key, and the application's record about the key. *)
CreateInside(c, k) ==
    /\ NewKey(k)
    /\ at[c] = "open"
    /\ Added(c, k)
    /\ managed' = managed \cup {k}
    /\ UNCHANGED <<quiet, records, holders, at, on, removes, locks, keyFaults,
                   revoked, retired, doubts, auditVars>>

(* Mutant: the row is read without FOR UPDATE. *)
ReadKey(c, k) == UNCHANGED locks

(* FOR UPDATE waits for whoever has locked the row. *)
LockKey(c, k) ==
    /\ Unlocked(c, k)
    /\ locks' = [locks EXCEPT ![c] = @ \cup {k}]

(* get_api_key; a key that is not there raises (RollBack). *)
FindInside(c, k) ==
    /\ k \in (keys \cup adds[c]) \ removes[c]
    /\ Steps(c, "open", "locked")
    /\ LockKey(c, k)
    /\ on' = [on EXCEPT ![c] = k]
    /\ UNCHANGED <<quiet, keys, records, born, holders, adds, removes,
                   keyFaults, past, auditVars>>

(* delete_api_key, and the end of the application's record. *)
DeleteInside(c) ==
    /\ Unlocked(c, on[c])
    /\ Steps(c, "locked", "open")
    /\ locks' = [locks EXCEPT ![c] = @ \cup {on[c]}]
    /\ removes' = [removes EXCEPT ![c] = @ \cup {on[c]}]
    /\ UNCHANGED <<quiet, keys, records, born, holders, on, adds, keyFaults,
                   past, auditVars>>

Applied(c) ==
    /\ keys' = (keys \cup adds[c]) \ removes[c]
    /\ records' = (records \cup adds[c]) \ removes[c]

Ended(c) ==
    /\ at' = [at EXCEPT ![c] = "idle"]
    /\ adds' = [adds EXCEPT ![c] = {}]
    /\ removes' = [removes EXCEPT ![c] = {}]
    /\ locks' = [locks EXCEPT ![c] = {}]

(* The with block is left normally: the application answers, with the       *)
(* secrets of the keys it made.                                             *)
Commit(c) ==
    /\ at[c] = "open"
    /\ Applied(c)
    /\ Ended(c)
    /\ holders' = holders \cup adds[c]
    /\ retired' = retired \cup {<<c, k>> : k \in removes[c]}
    /\ UNCHANGED <<quiet, born, on, keyFaults, managed, revoked, doubts,
                   auditVars>>

(* The COMMIT is not acknowledged. *)
CommitRaises(c) ==
    /\ at[c] = "open"
    /\ KeyFault
    /\ Applied(c) \/ UNCHANGED <<keys, records>>
    /\ Ended(c)
    /\ doubts' = doubts \cup adds[c]
    /\ UNCHANGED <<quiet, born, holders, on, managed, revoked, retired,
                   auditVars>>

(* Mutant: leaving the block by an exception commits what was done. *)
Kept(c) == Applied(c)

Discarded(c) == UNCHANGED <<keys, records>>

(* An exception leaves the block: a statement fails, a key is not found,    *)
(* a deadlock is detected, or the application has changed its mind.         *)
RollBack(c) ==
    /\ at[c] \in {"open", "locked"}
    /\ Discarded(c)
    /\ Ended(c)
    /\ UNCHANGED <<quiet, born, holders, on, keyFaults, past, auditVars>>

-----------------------------------------------------------------------------

ApiNext ==
    \E c \in Caller :
        \/ \E k \in Key :
              \/ CreateKey(c, k)
              \/ FindKey(c, k)
              \/ CreateInside(c, k)
              \/ FindInside(c, k)
        \/ AnswerCreated(c)
        \/ DeleteKey(c)
        \/ AnswerDeleted(c)
        \/ Begin(c)
        \/ DeleteInside(c)
        \/ Commit(c)
        \/ CommitRaises(c)
        \/ RollBack(c)

ApiSpec == ApiInit /\ AuditInit /\ [][ApiNext]_<<apiVars, auditVars>>

-----------------------------------------------------------------------------
(* Correctness.                                                             *)

(* The shape of the state. *)
ApiTypeOK ==
    /\ quiet \in BOOLEAN
    /\ keys \in SUBSET born /\ records \in SUBSET born
    /\ born \in SUBSET Key /\ holders \in SUBSET born
    /\ at \in [Caller -> {"idle", "created", "found", "deleted", "open",
                          "locked"}]
    /\ on \in [Caller -> {0} \cup Key]
    /\ adds \in [Caller -> SUBSET Key] /\ removes \in [Caller -> SUBSET Key]
    /\ locks \in [Caller -> SUBSET Key]
    /\ keyFaults \in 0 .. MaxKeyFaults
    /\ managed \in SUBSET born /\ revoked \in SUBSET born
    /\ retired \in SUBSET (Caller \X Key)
    /\ doubts \in SUBSET born

(* A key made in a transaction and the record written with it exist         *)
(* together, whatever statement fails and whoever else deletes keys in      *)
(* transactions; only a route can take the key from under the record.       *)
KeyAndRecordTogether ==
    \A k \in managed :
        /\ k \in keys => k \in records
        /\ k \in records => k \in keys \/ k \in revoked

(* Of the transactions that delete one key, at most one commits: the others *)
(* wait for it and find no key.                                             *)
OneTransactionDeletes ==
    \A k \in Key : \A c, d \in Caller :
        <<c, k>> \in retired /\ <<d, k>> \in retired => c = d

(* A live key whose secret nobody has is the fault of a hook that raised or *)
(* of a write that was not acknowledged.                                    *)
SecretLostOnlyForCause ==
    \A k \in keys :
        \/ k \in holders \cup doubts
        \/ \E c \in Caller : at[c] = "created" /\ on[c] = k
=============================================================================
