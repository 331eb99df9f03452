---------------------------- MODULE QueueDispatch ----------------------------
(***************************************************************************)
(* The dispatch protocol of cpkit/jobs/worker.py over the rows of cpkit.mq. *)
(*                                                                          *)
(* Several workers, each an asyncio loop in a process of its own, share the *)
(* table.  A poller claims whatever is due; a scoped worker (dispatch_one)  *)
(* may claim one identifier.  A dispatch is synchronous on its loop, so one *)
(* worker does one thing at a time, but its database round trips interleave *)
(* with those of the other workers and with the handler threads:            *)
(*                                                                          *)
(*   idle --claim--> claimed --resolve, parse, delete--> prepared           *)
(*        --commit--> committed --connection returned--> released           *)
(*        --submit--> idle                                                  *)
(*                                                                          *)
(* A row lock is held from the claim to the end of the transaction; what    *)
(* the transaction did becomes visible when it commits.  "stopped" is a     *)
(* worker that has left its polling loop, "down" a process that has died.   *)
(***************************************************************************)
EXTENDS Integers, FiniteSets

CONSTANTS
    OneShot,      \* identifiers of the one-shot messages
    Recurring,    \* identifiers of the singleton recurring rows
    Worker,       \* QueueWorker objects, one per process
    Poller,       \* the workers started with run()
    Scope,        \* [Worker -> identifiers its selection conditions admit]
    Configured,   \* [Worker -> recurring rows it has a schedule for]
    Refused,      \* [Worker -> messages its resolver or parser raises on]
    NoMsg,        \* the worker holds no message
    MaxOverlap,   \* bound: invocations of one recurring row in one executor
    MaxFaults     \* bound: database, executor and process failures

Msg == OneShot \cup Recurring

ASSUME MessagesAssumption ==
    /\ OneShot \cap Recurring = {}
    /\ NoMsg \notin Msg

ASSUME WorkersAssumption ==
    /\ Poller \subseteq Worker
    /\ Scope \in [Worker -> SUBSET Msg]
    /\ \A w \in Poller : Scope[w] = Msg
    /\ \A w \in Worker \ Poller : \A m, n \in Scope[w] : m = n
    /\ Configured \in [Worker -> SUBSET Recurring]
    /\ Refused \in [Worker -> SUBSET Msg]

ASSUME BoundsAssumption == MaxOverlap \in Nat /\ MaxFaults \in Nat

VARIABLES
    mq,           \* the committed state of each row
    older,        \* pairs of due recurring rows <<a, b>>: a.start_after is earlier
    pc,           \* how far each worker's current dispatch has come
    claim,        \* the message each worker's dispatch has selected
    active,       \* invocations in each worker's executor, by message
    submitted,    \* history: invocations ever accepted for a one-shot
    credit,       \* history: periods a recurring row has become due, less its
                  \*          invocations
    reports,      \* history: the QueueDispatchErrors raised
    orphaned,     \* history: one-shots whose worker died after their commit
    faults        \* failures so far

rows     == <<mq, older>>
executor == <<active, submitted, credit>>
records  == <<reports, orphaned>>
vars     == <<rows, pc, claim, executor, records, faults>>

RowStates == {"unborn", "waiting", "due", "gone"}

Phases == {"commit_rejected", "commit_unknown", "committed_cleanup",
           "submission"}

PCs == {"idle", "claimed", "prepared", "committed", "released", "stopped",
        "down"}

InTransaction == {"claimed", "prepared"}
AfterCommit   == {"committed", "released"}

Reports == [worker : Worker, msg : Msg, phase : Phases]

Init ==
    /\ mq = [m \in Msg |-> "unborn"]
    /\ older = {}
    /\ pc = [w \in Worker |-> "idle"]
    /\ claim = [w \in Worker |-> NoMsg]
    /\ active = [w \in Worker |-> [m \in Msg |-> 0]]
    /\ submitted = [m \in OneShot |-> 0]
    /\ credit = [r \in Recurring |-> 0]
    /\ reports = {}
    /\ orphaned = {}
    /\ faults = 0

-----------------------------------------------------------------------------
(* The application and the clock.                                           *)

(* enqueue_message / enqueue_command: one committed insert per identifier.  *)
(* The row becomes due once its start_after, now() or later, is past.       *)
Enqueue(m) ==
    /\ m \in OneShot
    /\ mq[m] = "unborn"
    /\ mq' = [mq EXCEPT ![m] = "waiting"]
    /\ UNCHANGED <<older, pc, claim, executor, records, faults>>

(* ensure_recurring_message: insert unless a row of this type exists.       *)
EnsureRecurring(r) ==
    /\ r \in Recurring
    /\ mq[r] = "unborn"
    /\ mq' = [mq EXCEPT ![r] = "waiting"]
    /\ UNCHANGED <<older, pc, claim, executor, records, faults>>

(* Mutant: the is_recurring condition is forgotten. *)
DueAnyKind == {m \in Msg : mq[m] = "due"}

DueRecurring == {r \in Recurring : mq[r] = "due"}

(* now() passes the start_after of a one-shot row. *)
OneShotDue(m) ==
    /\ m \in OneShot
    /\ mq[m] = "waiting"
    /\ mq' = [mq EXCEPT ![m] = "due"]
    /\ UNCHANGED <<older, pc, claim, executor, records, faults>>

(* The same for a recurring row.  Rows become due in the order of their     *)
(* start_after.  The model's bound: not while MaxOverlap invocations of the *)
(* row are still active somewhere.                                          *)
RecurringDue(r) ==
    /\ r \in Recurring
    /\ mq[r] = "waiting"
    /\ \A w \in Worker : active[w][r] < MaxOverlap
    /\ mq' = [mq EXCEPT ![r] = "due"]
    /\ credit' = [credit EXCEPT ![r] = @ + 1]
    /\ older' = older \cup (DueRecurring \X {r})
    /\ UNCHANGED <<pc, claim, active, submitted, records, faults>>

-----------------------------------------------------------------------------
(* Selecting a row.                                                         *)

(* Mutant: the SELECT takes no row lock. *)
LockedNone == {}

(* Rows another transaction has locked and SKIP LOCKED passes over. *)
Locked == {claim[w] : w \in {v \in Worker : pc[v] \in InTransaction}}

(* Mutant: the selection conditions of dispatch_one are dropped. *)
ClaimableUnscoped(w, m) == mq[m] = "due" /\ m \notin Locked

(* now() > start_after, the selection conditions, SKIP LOCKED. *)
Claimable(w, m) == mq[m] = "due" /\ m \in Scope[w] /\ m \notin Locked

ClaimableRecurring(w) == {r \in Configured[w] : Claimable(w, r)}
(* Mutant: the configured types filter one-shot rows as well. *)
ClaimableOneShotConfigured(w) ==
    {m \in OneShot \cap Configured[w] : Claimable(w, m)}
ClaimableOneShot(w)   == {m \in OneShot : Claimable(w, m)}

(* Mutant: no ORDER BY. *)
AnyOf(S, r) == r \in S

(* ORDER BY start_after LIMIT 1. *)
EarliestOf(S, r) == r \in S /\ \A s \in S : <<s, r>> \notin older

Hold(w, m) ==
    /\ pc[w] = "idle"
    /\ pc' = [pc EXCEPT ![w] = "claimed"]
    /\ claim' = [claim EXCEPT ![w] = m]
    /\ UNCHANGED <<rows, executor, records, faults>>

(* _claim_due_recurring_message: the row is locked and its start_after moved *)
(* to the next period, both visible to others only when this commits.        *)
ClaimRecurring(w) ==
    \E r \in Recurring :
        /\ EarliestOf(ClaimableRecurring(w), r)
        /\ Hold(w, r)

(* _claim_due_message, tried only when no recurring row was claimed.  There *)
(* is no ORDER BY: any due row may be the one.                              *)
ClaimOneShot(w) ==
    /\ ClaimableRecurring(w) = {}
    /\ \E m \in ClaimableOneShot(w) : Hold(w, m)

(* dispatch_one finds no row and returns None; it never looks again. *)
FindNothing(w) ==
    /\ w \notin Poller
    /\ pc[w] = "idle"
    /\ ClaimableRecurring(w) = {}
    /\ ClaimableOneShot(w) = {}
    /\ pc' = [pc EXCEPT ![w] = "stopped"]
    /\ UNCHANGED <<rows, claim, executor, records, faults>>

-----------------------------------------------------------------------------
(* The end of the transaction.                                              *)

(* What everyone sees once the transaction is committed: a one-shot row is  *)
(* deleted, a recurring row has its new start_after.                        *)
(* Mutants: the DELETE is left out; the new start_after is left out; the    *)
(* DELETE does not look at is_recurring.                                    *)
DispositionKept(m)      == IF m \in Recurring THEN "waiting" ELSE "due"
DispositionUnmoved(m)   == IF m \in Recurring THEN "due" ELSE "gone"
DispositionDeleted(m)   == "gone"

Disposition(m) == IF m \in Recurring THEN "waiting" ELSE "gone"

Disposed(m) ==
    /\ mq' = [mq EXCEPT ![m] = Disposition(m)]
    /\ older' = {p \in older : m \notin {p[1], p[2]}}

(* A rollback leaves the row as it was, start_after included. *)
RolledBack == UNCHANGED rows

Fault ==
    /\ faults < MaxFaults
    /\ faults' = faults + 1

(* run() keeps polling; dispatch_one() is over after one attempt. *)
AfterDispatch(w) == IF w \in Poller THEN "idle" ELSE "stopped"

(* Mutant: run() keeps polling after every dispatch error. *)
AfterReportRetry(w, phase) == AfterDispatch(w)

(* run() re-raises every QueueDispatchError but commit_rejected and so ends. *)
AfterReport(w, phase) ==
    IF phase = "commit_rejected" THEN AfterDispatch(w) ELSE "stopped"

Release(w, next) ==
    /\ pc' = [pc EXCEPT ![w] = next]
    /\ claim' = [claim EXCEPT ![w] = NoMsg]

(* QueueDispatchError(message, phase): logged with the message it names. *)
Raise(w, phase) ==
    /\ reports' = reports \cup
                    {[worker |-> w, msg |-> claim[w], phase |-> phase]}
    /\ Release(w, AfterReport(w, phase))

(* The handler is found, the payload parsed, a one-shot row DELETEd. *)
Prepare(w) ==
    /\ pc[w] = "claimed"
    /\ claim[w] \notin Refused[w]
    /\ pc' = [pc EXCEPT ![w] = "prepared"]
    /\ UNCHANGED <<rows, claim, executor, records, faults>>

(* Mutant: the exception is swallowed inside the transaction block, which   *)
(* then commits.                                                            *)
RefuseCommitting(w) ==
    /\ pc[w] = "claimed"
    /\ claim[w] \in Refused[w]
    /\ Disposed(claim[w])
    /\ Release(w, AfterDispatch(w))
    /\ UNCHANGED <<executor, records, faults>>

(* No handler, or the parser raises: the transaction is rolled back. *)
Refuse(w) ==
    /\ pc[w] = "claimed"
    /\ claim[w] \in Refused[w]
    /\ RolledBack
    /\ Release(w, AfterDispatch(w))
    /\ UNCHANGED <<executor, records, faults>>

(* A statement fails or the connection breaks before the commit is sent. *)
StatementFails(w) ==
    /\ pc[w] = "claimed"
    /\ Fault
    /\ RolledBack
    /\ Release(w, AfterDispatch(w))
    /\ UNCHANGED <<executor, records>>

CommitSucceeds(w) ==
    /\ pc[w] = "prepared"
    /\ Disposed(claim[w])
    /\ pc' = [pc EXCEPT ![w] = "committed"]
    /\ UNCHANGED <<claim, executor, records, faults>>

(* Mutant: every failed commit is taken for a rejected one. *)
CommitPhaseLenient(phase, applied) == phase = "commit_rejected"

(* An integrity error or a transaction-rollback SQLSTATE says the server    *)
(* applied nothing; any other failure of the commit leaves both open, and   *)
(* so does a pool error that replaces the first exception.                  *)
CommitPhase(phase, applied) ==
    \/ phase = "commit_rejected" /\ ~applied
    \/ phase = "commit_unknown"

CommitFails(w) ==
    /\ pc[w] = "prepared"
    /\ Fault
    /\ \E phase \in Phases, applied \in BOOLEAN :
          /\ CommitPhase(phase, applied)
          /\ IF applied THEN Disposed(claim[w]) ELSE RolledBack
          /\ Raise(w, phase)
    /\ UNCHANGED <<executor, orphaned>>

(* The connection goes back to the pool. *)
ReturnConnection(w) ==
    /\ pc[w] = "committed"
    /\ pc' = [pc EXCEPT ![w] = "released"]
    /\ UNCHANGED <<rows, claim, executor, records, faults>>

(* Mutants: the cleanup error is logged and the dispatch goes on; the row   *)
(* is put back into the queue.                                              *)
CleanupIgnored(w) ==
    /\ pc[w] = "committed"
    /\ Fault
    /\ reports' = reports \cup {[worker |-> w, msg |-> claim[w],
                                 phase |-> "committed_cleanup"]}
    /\ pc' = [pc EXCEPT ![w] = "released"]
    /\ UNCHANGED <<rows, claim, executor, orphaned>>

CleanupRequeues(w) ==
    /\ pc[w] = "committed"
    /\ Fault
    /\ Raise(w, "committed_cleanup")
    /\ mq' = [mq EXCEPT ![claim[w]] = "waiting"]
    /\ UNCHANGED <<older, executor, orphaned>>

(* Returning it raises although the commit went through. *)
CleanupFails(w) ==
    /\ pc[w] = "committed"
    /\ Fault
    /\ Raise(w, "committed_cleanup")
    /\ UNCHANGED <<rows, executor, orphaned>>

-----------------------------------------------------------------------------
(* The executor.                                                            *)

(* An invocation enters the queue of w's executor. *)
Invoke(w, m) ==
    /\ active' = [active EXCEPT ![w][m] = @ + 1]
    /\ IF m \in Recurring
       THEN /\ credit' = [credit EXCEPT ![m] = @ - 1]
            /\ UNCHANGED submitted
       ELSE /\ submitted' = [submitted EXCEPT ![m] = @ + 1]
            /\ UNCHANGED credit

Submit(w) ==
    /\ pc[w] = "released"
    /\ Invoke(w, claim[w])
    /\ Release(w, AfterDispatch(w))
    /\ UNCHANGED <<rows, records, faults>>

(* executor.submit raises.  ThreadPoolExecutor queues the invocation before *)
(* it starts a thread, so when starting one is what failed, a busy thread   *)
(* the executor already has will run the invocation all the same.           *)
SubmitFails(w) ==
    /\ pc[w] = "released"
    /\ Fault
    /\ Raise(w, "submission")
    /\ \/ UNCHANGED executor
       \/ /\ \E m \in Msg : active[w][m] > 0
          /\ Invoke(w, claim[w])
    /\ UNCHANGED <<rows, orphaned>>

HasInvocation(w, m) == active[w][m] > 0

(* _run_queue_handler returns, its failure hook included. *)
HandlerReturns(w, m) ==
    /\ HasInvocation(w, m)
    /\ active' = [active EXCEPT ![w][m] = @ - 1]
    /\ UNCHANGED <<rows, pc, claim, submitted, credit, records, faults>>

-----------------------------------------------------------------------------
(* The life of a worker.                                                    *)

(* stop_polling() takes effect between two dispatches. *)
StopPolling(w) ==
    /\ pc[w] = "idle"
    /\ pc' = [pc EXCEPT ![w] = "stopped"]
    /\ UNCHANGED <<rows, claim, executor, records, faults>>

(* The process dies.  Its handlers die with it, an open transaction is      *)
(* rolled back, and a commit on its way to the server may still take place. *)
Crash(w) ==
    /\ pc[w] # "down"
    /\ Fault
    /\ \E committing \in {FALSE, pc[w] = "prepared"} :
          /\ IF committing THEN Disposed(claim[w]) ELSE RolledBack
          /\ orphaned' = IF committing \/ pc[w] \in AfterCommit
                         THEN orphaned \cup ({claim[w]} \cap OneShot)
                         ELSE orphaned
    /\ Release(w, "down")
    /\ active' = [active EXCEPT ![w] = [m \in Msg |-> 0]]
    /\ UNCHANGED <<submitted, credit, reports>>

(* A new process with a new QueueWorker. *)
Restart(w) ==
    /\ pc[w] = "down"
    /\ pc' = [pc EXCEPT ![w] = "idle"]
    /\ UNCHANGED <<rows, claim, executor, records, faults>>

-----------------------------------------------------------------------------

(* What a worker does when nothing fails and nobody stops it. *)
Dispatch(w) ==
    \/ ClaimRecurring(w)
    \/ ClaimOneShot(w)
    \/ FindNothing(w)
    \/ Prepare(w)
    \/ Refuse(w)
    \/ CommitSucceeds(w)
    \/ ReturnConnection(w)
    \/ Submit(w)

Failure(w) ==
    \/ StatementFails(w)
    \/ CommitFails(w)
    \/ CleanupFails(w)
    \/ SubmitFails(w)
    \/ Crash(w)

Next ==
    \/ \E m \in OneShot : Enqueue(m) \/ OneShotDue(m)
    \/ \E r \in Recurring : EnsureRecurring(r) \/ RecurringDue(r)
    \/ \E w \in Worker :
          \/ Dispatch(w)
          \/ Failure(w)
          \/ StopPolling(w)
          \/ Restart(w)
          \/ \E m \in Msg : HandlerReturns(w, m)

Spec == Init /\ [][Next]_vars

(* Fairness the deployment gives: the clock advances, a poller that runs    *)
(* keeps polling (run() catches what may be retried), and the database      *)
(* answers.  Nothing is assumed of failures, stops, restarts or of which    *)
(* row an unordered SELECT picks.  Handlers of recurring rows return.       *)
FairSpec ==
    /\ Spec
    /\ \A m \in OneShot : WF_vars(OneShotDue(m))
    /\ \A r \in Recurring : WF_vars(RecurringDue(r))
    /\ \A w \in Worker : WF_vars(Dispatch(w))
    /\ \A w \in Worker, r \in Recurring : WF_vars(HandlerReturns(w, r))

-----------------------------------------------------------------------------
(* Correctness.                                                             *)

(* The shape of the state; a recurring row never reaches "gone", and no     *)
(* executor has fewer than no invocations.                                  *)
TypeOK ==
    /\ mq \in [Msg -> RowStates]
    /\ older \in SUBSET (Recurring \X Recurring)
    /\ pc \in [Worker -> PCs]
    /\ claim \in [Worker -> Msg \cup {NoMsg}]
    /\ active \in [Worker -> [Msg -> Nat]]
    /\ submitted \in [OneShot -> Nat]
    /\ credit \in [Recurring -> Int]
    /\ reports \in SUBSET Reports
    /\ orphaned \in SUBSET OneShot
    /\ faults \in 0 .. MaxFaults

Holding(w, m) == claim[w] = m /\ pc[w] \in InTransaction \cup AfterCommit

(* A one-shot message is handed to an executor at most once, whatever       *)
(* workers, commits and processes do: claim under SKIP LOCKED, delete and   *)
(* commit before submit (worker.py, _claim_and_prepare_dispatch).           *)
AtMostOnce == \A m \in OneShot : submitted[m] =< 1

(* A handler only ever runs for a row that is gone for good, so that no     *)
(* restart and no other worker can find it again (jobs/README.md:           *)
(* "submission happens after the transaction commits").                     *)
DeletedBeforeRun ==
    \A m \in OneShot : submitted[m] > 0 => mq[m] = "gone"

(* A recurring row is run at most once for each time it became due: its     *)
(* start_after is moved in the transaction that claims it, so that neither  *)
(* a second worker nor the next poll takes the same period again.           *)
OncePerPeriod == \A r \in Recurring : credit[r] >= 0

(* Once inserted, the singleton recurring row is never deleted, whatever    *)
(* fails while it is dispatched.                                            *)
RecurringSurvives ==
    [][\A r \in Recurring :
          mq[r] \in {"waiting", "due"} => mq'[r] \in {"waiting", "due"}]_mq

(* A one-shot row that is gone without a handler having been submitted is   *)
(* accounted for: a worker is between commit and submit, a dispatch error   *)
(* that asks for reconciliation named it, or the process died holding it.   *)
NoSilentLoss ==
    \A m \in OneShot : mq[m] = "gone" /\ submitted[m] = 0 =>
        \/ \E w \in Worker : Holding(w, m)
        \/ \E rep \in reports : rep.msg = m /\ rep.phase # "commit_rejected"
        \/ m \in orphaned

(* "handler not submitted" (the text of QueueDispatchError) is true of a    *)
(* one-shot that a committed_cleanup error named: it never runs.            *)
CleanupReportIsFinal ==
    \A rep \in reports :
        rep.phase = "committed_cleanup" /\ rep.msg \in OneShot =>
            submitted[rep.msg] = 0

(* The same text for the submission phase (the executor queues first).      *)
SubmissionReportIsFinal ==
    \A rep \in reports :
        rep.phase = "submission" /\ rep.msg \in OneShot =>
            submitted[rep.msg] = 0

(* A message no worker can resolve or parse stays in the queue.             *)
UnparsableStaysQueued ==
    \A m \in OneShot :
        (\A w \in Worker : m \in Refused[w]) => mq[m] # "gone"

(* An error that leaves the queue uncertain or the message lost ends the    *)
(* worker: it claims nothing more, short of a new process.                  *)
UncertainErrorsStop ==
    [][\A w \in Worker :
          /\ (\E rep \in reports' \ reports :
                 rep.worker = w /\ rep.phase # "commit_rejected")
             => pc'[w] = "stopped"
          /\ pc[w] = "stopped" => pc'[w] \in {"stopped", "down"}]_vars

(* A scoped worker runs its one identifier or nothing, and that once, even  *)
(* when other rows, recurring ones included, are due.                       *)
ScopedRunsOnlyItsTarget ==
    \A w \in Worker \ Poller : \A m \in Msg :
        /\ Holding(w, m) => m \in Scope[w]
        /\ active[w][m] =< IF m \in Scope[w] THEN 1 ELSE 0

(* Why the properties above hold in every reachable state: a worker holds a *)
(* message exactly while it dispatches it, *)
ClaimsAreHeld ==
    \A w \in Worker :
        IF pc[w] \in InTransaction \cup AfterCommit
        THEN claim[w] \in Msg
        ELSE claim[w] = NoMsg

(* the row of an open transaction is due and locked by that worker alone,   *)
LocksAreExclusive ==
    /\ \A w \in Worker : pc[w] \in InTransaction => mq[claim[w]] = "due"
    /\ \A v, w \in Worker :
          pc[v] \in InTransaction /\ pc[w] \in InTransaction
              /\ claim[v] = claim[w] => v = w

(* and a one-shot that was taken but not yet submitted is gone from the     *)
(* queue, has not run, and is in the hands of that worker alone.            *)
TakenIsGone ==
    /\ \A w \in Worker :
          pc[w] \in AfterCommit /\ claim[w] \in OneShot =>
              mq[claim[w]] = "gone" /\ submitted[claim[w]] = 0
    /\ \A v, w \in Worker :
          pc[v] \in AfterCommit /\ pc[w] \in AfterCommit
              /\ claim[v] = claim[w] /\ claim[w] \in OneShot => v = w

(* The inductive invariant: no two workers ever own the same one-shot, from *)
(* the claim to the hand-over to the executor.                              *)
DispatchInv ==
    /\ ClaimsAreHeld
    /\ LocksAreExclusive
    /\ TakenIsGone
    /\ AtMostOnce
    /\ DeletedBeforeRun

NoPoller == \A w \in Poller : pc[w] \in {"stopped", "down"}

(* A due recurring row is dispatched, even with others that keep coming due:*)
(* the earliest start_after goes first.  Short of all pollers stopping.     *)
RecurringServed ==
    \A r \in Recurring : mq[r] = "due" ~> (mq[r] # "due" \/ NoPoller)

(* A poll tries the recurring rows first and takes one row, so that a       *)
(* one-shot may wait for ever behind them.  It does not when polls of one   *)
(* poller fall, again and again, on a moment without a recurring row to     *)
(* claim; the recurring rows may keep coming due all the same.              *)
QuietPolls(w) ==
    /\ []<>(pc[w] = "idle" /\ ClaimableRecurring(w) = {})
    /\ SF_vars(ClaimOneShot(w))

(* Then every due one-shot leaves the queue, whatever fails while it is     *)
(* dispatched and whoever else takes the recurring rows.                    *)
OneShotServedBetweenRecurring ==
    (\E w \in Poller : QuietPolls(w)) =>
        \A m \in OneShot : mq[m] = "due" ~> mq[m] # "due"

-----------------------------------------------------------------------------
(* The abstract queue, and where each message of this one is in it.         *)

StageOf(m) ==
    CASE mq[m] = "unborn"            -> "unborn"
      [] mq[m] \in {"waiting", "due"} -> "queued"
      [] mq[m] = "gone" /\ submitted[m] > 0 -> "started"
      [] mq[m] = "gone" /\ submitted[m] = 0 ->
            IF \E w \in Worker : Holding(w, m) THEN "taken" ELSE "dropped"

Queue == INSTANCE AtMostOnceQueue
            WITH stage <- [m \in OneShot |-> StageOf(m)], starts <- submitted

(* The dispatch protocol implements the at-most-once queue. *)
ImplementsQueue == Queue!QueueSpec
=============================================================================
