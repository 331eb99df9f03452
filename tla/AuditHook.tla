------------------------------- MODULE AuditHook -------------------------------
(***************************************************************************)
(* The audit trail as its callers see it (cpkit.audit): what a hook made by *)
(* create_audit_event_hook does when it is called, and whether the caller   *)
(* goes on.  Extended by the components that call one.                      *)
(***************************************************************************)
EXTENDS Integers

CONSTANT MaxAuditFailures   \* bound: INSERTs into the event log that raise

ASSUME AuditAssumption == MaxAuditFailures \in Nat

VARIABLES
    auditLog,        \* the events of the table
    auditFailures    \* failures so far

auditVars == <<auditLog, auditFailures>>

AuditInit ==
    /\ auditLog = {}
    /\ auditFailures = 0

(* log_event commits the record of e. *)
Recorded(e) ==
    /\ auditLog' = auditLog \cup {e}
    /\ UNCHANGED auditFailures

(* It raises: not applied, or applied and not acknowledged. *)
NotRecorded(e) ==
    /\ auditFailures < MaxAuditFailures
    /\ auditFailures' = auditFailures + 1
    /\ auditLog' \in {auditLog, auditLog \cup {e}}

(* The hook returns: a best-effort hook whatever happened, another one only *)
(* after the INSERT.                                                        *)
HookReturns(bestEffort, e) == Recorded(e) \/ (bestEffort /\ NotRecorded(e))

(* The hook raises into its caller. *)
HookRaises(bestEffort, e) == ~bestEffort /\ NotRecorded(e)
=============================================================================
