------------------------------ MODULE AppShutdown ------------------------------
(***************************************************************************)
(* How a cpkit application ends: AppRuntime.shutdown (app.py) over the      *)
(* QueueWorkers it owns (jobs/worker.py), their background tasks and the    *)
(* shared connection pool.                                                  *)
(*                                                                          *)
(* Everything but the handlers runs on one event loop, so an action here is *)
(* what happens between two awaits.  Handlers return from executor threads  *)
(* at any moment.  A shutdown can be called several times, by the lifespan  *)
(* and by whoever retries it, and each call can be interrupted at any of    *)
(* its awaits by its timeout or by a cancellation.                          *)
(***************************************************************************)
EXTENDS Integers, FiniteSets

CONSTANTS
    Worker,         \* the QueueWorkers the application owns
    Background,     \* the background factories: pollers among them
    Owner,          \* coroutines that call shutdown
    Lifespan,       \* the owner whose call ends the lifespan
    NoOwner,        \* nobody holds the shutdown lock
    Invocation,     \* handler invocations, each submitted at most once
    MaxInterrupts   \* bound: shutdown calls that are interrupted or fail

ASSUME OwnersAssumption ==
    /\ Lifespan \in Owner
    /\ NoOwner \notin Owner
    /\ MaxInterrupts \in Nat

VARIABLES
    life,           \* the phase of the lifespan
    task,           \* the asyncio task of each background factory
    cancelled,      \* tasks that were sent a CancelledError
    late,           \* history: tasks created after the stop was requested
    started,        \* workers that have been run: they are single-use
    poll,           \* where each worker's polling loop is
    stop,           \* workers whose _stop event is set
    handles,        \* each worker's unfinished HandlerCompletions
    untracked,      \* what each executor queued although submit raised
    used,           \* invocations submitted so far
    pool,           \* the shared pool
    stopRequested,  \* AppRuntime._stop_requested
    lock,           \* holder of AppRuntime._shutdown_lock
    call,           \* how far each owner's shutdown call has come
    awaited,        \* tasks the holder of the lock joins
    drain,          \* how far its drain of each worker has come
    snapshot,       \* handles each of these drains waits for
    closes,         \* history: how often the pool was closed
    cancels,        \* history: how often each task was cancelled
    interrupts      \* interruptions so far

tasks    == <<task, cancelled, late, cancels>>
workers  == <<started, poll, stop>>
work     == <<handles, untracked, used>>
attempt  == <<awaited, drain, snapshot>>
vars     == <<life, tasks, workers, work, pool, stopRequested, lock, call,
              attempt, closes, interrupts>>

(* Mutant: every worker counts as a task to wait for and to cancel. *)
PendingOrWorker == Worker \cup {t \in Background : task[t] = "running"}

Pending  == {t \in Background : task[t] \in {"created", "running"}}
Polling  == {w \in Worker : poll[w] \in {"delay", "woken"}}
InFlight == UNION {handles[w] \cup untracked[w] : w \in Worker}

Returned == {"complete", "incomplete", "interrupted", "raised"}
Busy     == {"locking", "joining", "draining"}

Init ==
    /\ life = "startup"
    /\ task = [t \in Background |-> "none"]
    /\ cancelled = {}
    /\ late = {}
    /\ started = {}
    /\ poll = [w \in Worker |-> "none"]
    /\ stop = {}
    /\ handles = [w \in Worker |-> {}]
    /\ untracked = [w \in Worker |-> {}]
    /\ used = {}
    /\ pool = "open"
    /\ stopRequested = FALSE
    /\ lock = NoOwner
    /\ call = [o \in Owner |-> "idle"]
    /\ awaited = {}
    /\ drain = [w \in Worker |-> "none"]
    /\ snapshot = [w \in Worker |-> {}]
    /\ closes = 0
    /\ cancels = [t \in Background |-> 0]
    /\ interrupts = 0

-----------------------------------------------------------------------------
(* The lifespan.                                                            *)

(* Startup is over and the background tasks exist; when a hook or a factory *)
(* raised, some are missing and the lifespan ends at once.  Nothing asks    *)
(* whether a shutdown was called while the hooks were awaited.              *)
CreateTasks ==
    /\ life = "startup"
    /\ \E made \in SUBSET Background :
          /\ task' = [t \in Background |-> IF t \in made THEN "created"
                                                       ELSE "none"]
          /\ late' = IF stopRequested THEN late \cup made ELSE late
          /\ life' = IF made = Background THEN "serving" ELSE "ending"
    /\ UNCHANGED <<cancelled, cancels, workers, work, pool, stopRequested, lock,
                   call, attempt, closes, interrupts>>

(* The body of the lifespan is over, in whatever way. *)
BodyEnds ==
    /\ life = "serving"
    /\ life' = "ending"
    /\ UNCHANGED <<tasks, workers, work, pool, stopRequested, lock, call,
                   attempt, closes, interrupts>>

(* Somebody else replaces the configured pool of the process. *)
ReplacePool ==
    /\ pool = "open"
    /\ interrupts < MaxInterrupts
    /\ interrupts' = interrupts + 1
    /\ pool' = "replaced"
    /\ UNCHANGED <<life, tasks, workers, work, stopRequested, lock, call,
                   attempt, closes>>

-----------------------------------------------------------------------------
(* Background tasks and workers.                                            *)

(* QueueWorker._finish, at the end of every run() and dispatch_one(). *)
Finish(w) ==
    /\ poll' = [poll EXCEPT ![w] = "over"]
    /\ stop' = stop \cup {w}

EndTask(w) == task' = [t \in Background |-> IF t = w THEN "ended" ELSE task[t]]

(* QueueWorker.run up to its first await. *)
RunBegins(w) ==
    /\ started' = started \cup {w}
    /\ IF w \in stop
       THEN Finish(w) /\ EndTask(w)
       ELSE /\ poll' = [poll EXCEPT ![w] = "delay"]
            /\ task' = [t \in Background |-> IF t = w THEN "running"
                                                      ELSE task[t]]
            /\ UNCHANGED stop

(* The first step of a task.  A cancelled one never enters its coroutine,   *)
(* and a worker that was used before raises.                                *)
TaskStarts(t) ==
    /\ task[t] = "created"
    /\ IF t \in cancelled \/ t \in started
       THEN EndTask(t) /\ UNCHANGED workers
       ELSE IF t \in Worker
       THEN RunBegins(t)
       ELSE task' = [task EXCEPT ![t] = "running"] /\ UNCHANGED workers
    /\ UNCHANGED <<life, cancelled, late, cancels, work, pool, stopRequested, lock,
                   call, attempt, closes, interrupts>>

(* The host runs a registered worker that is no background task of the app. *)
HostRuns(w) ==
    /\ w \notin Background \cup started
    /\ RunBegins(w)
    /\ UNCHANGED <<life, cancelled, late, cancels, work, pool, stopRequested, lock,
                   call, attempt, closes, interrupts>>

(* The delay of _wait_for_poll is over; the coroutine runs later. *)
TimerFires(w) ==
    /\ poll[w] = "delay"
    /\ poll' = [poll EXCEPT ![w] = "woken"]
    /\ UNCHANGED <<life, tasks, started, stop, work, pool, stopRequested, lock,
                   call, attempt, closes, interrupts>>

(* Mutant: a wait that timed out does not look at the event again. *)
MustStopUnlessWoken(w) == poll[w] = "delay" /\ w \in stop \cup cancelled

MustStop(w) == w \in stop \cup cancelled

StopsPolling(w) ==
    /\ w \in Polling
    /\ MustStop(w)
    /\ Finish(w)
    /\ EndTask(w)
    /\ UNCHANGED <<life, cancelled, late, cancels, started, work, pool, stopRequested,
                   lock, call, attempt, closes, interrupts>>

(* One invocation is accepted; its handle is kept. *)
SubmitTracked(w) ==
    \E i \in Invocation \ used :
        /\ handles' = [handles EXCEPT ![w] = @ \cup {i}]
        /\ used' = used \cup {i}
        /\ UNCHANGED untracked

(* submit raises although the invocation is queued: there is no handle. *)
SubmitUntracked(w) ==
    \E i \in Invocation \ used :
        /\ handles[w] # {}
        /\ untracked' = [untracked EXCEPT ![w] = @ \cup {i}]
        /\ used' = used \cup {i}
        /\ UNCHANGED handles

(* One pass of run(): nothing is due or the error may be retried, an        *)
(* invocation is submitted, or a dispatch error ends the task.              *)
PollOnce(w) ==
    /\ poll[w] = "woken"
    /\ ~MustStop(w)
    /\ \/ /\ SubmitTracked(w) \/ UNCHANGED work
          /\ poll' = [poll EXCEPT ![w] = "delay"]
          /\ UNCHANGED <<task, stop>>
       \/ /\ SubmitUntracked(w) \/ UNCHANGED work
          /\ Finish(w)
          /\ EndTask(w)
    /\ UNCHANGED <<life, cancelled, late, cancels, started, pool, stopRequested, lock,
                   call, attempt, closes, interrupts>>

MayDispatch(w) == w \notin started /\ w \notin stop

(* A startup hook or the application uses the worker for one identifier.    *)
DispatchOne(w) ==
    /\ w \notin started
    /\ started' = started \cup {w}
    /\ \/ MayDispatch(w) /\ SubmitTracked(w)
       \/ UNCHANGED work
    /\ Finish(w)
    /\ UNCHANGED <<life, tasks, pool, stopRequested, lock, call, attempt,
                   closes, interrupts>>

(* A handler and its failure hook return, in a thread of some executor. *)
InvocationReturns(i) ==
    /\ i \in InFlight
    /\ handles' = [w \in Worker |-> handles[w] \ {i}]
    /\ untracked' = [w \in Worker |-> untracked[w] \ {i}]
    /\ UNCHANGED <<life, tasks, workers, used, pool, stopRequested, lock, call,
                   attempt, closes, interrupts>>

(* A custom task ends, on its own or some time after it was cancelled. *)
CustomEnds(t) ==
    /\ t \in Background \ Worker
    /\ task[t] = "running"
    /\ task' = [task EXCEPT ![t] = "ended"]
    /\ UNCHANGED <<life, cancelled, late, cancels, workers, work, pool, stopRequested,
                   lock, call, attempt, closes, interrupts>>

-----------------------------------------------------------------------------
(* AppRuntime.shutdown.                                                     *)

(* The lifespan calls once, at its end; others as often as they like, from  *)
(* the first startup hook on.                                               *)
MayCall(o) ==
    IF o = Lifespan THEN life = "ending" /\ call[o] = "idle"
                    ELSE call[o] \in {"idle"} \cup Returned

(* Mutant: the first call does not record that it asked everyone to stop. *)
RequestedForgotten == FALSE

Requested == TRUE

(* The first call stops the workers and cancels the tasks. *)
Call(o) ==
    /\ MayCall(o)
    /\ call' = [call EXCEPT ![o] = "locking"]
    /\ stopRequested' = Requested
    /\ IF stopRequested
       THEN UNCHANGED <<stop, cancelled, cancels>>
       ELSE /\ stop' = Worker
            /\ cancelled' = cancelled \cup Pending
            /\ cancels' = [t \in Background |->
                              cancels[t] + IF t \in Pending THEN 1 ELSE 0]
    /\ UNCHANGED <<life, task, late, started, poll, work, pool, lock, attempt,
                   closes, interrupts>>

(* Mutant: an interrupted call does not release the lock. *)
LeaveUnreleased(o, result) ==
    /\ call' = [call EXCEPT ![o] = result]
    /\ lock' = IF lock = o /\ result # "interrupted" THEN NoOwner ELSE lock

Leave(o, result) ==
    /\ call' = [call EXCEPT ![o] = result]
    /\ lock' = IF lock = o THEN NoOwner ELSE lock

(* Mutant: there is no lock. *)
LockIgnored(o) == TRUE

LockFree(o) == lock = NoOwner

(* AppRuntime.status, once the pool is closed. *)
Status ==
    IF Pending = {} /\ Polling = {} /\ \A w \in Worker : handles[w] = {}
    THEN "complete" ELSE "incomplete"

(* With the lock, a runtime that was shut down meanwhile is done. *)
Acquire(o) ==
    /\ call[o] = "locking"
    /\ LockFree(o)
    /\ IF pool = "closed"
       THEN /\ Leave(o, Status)
            /\ UNCHANGED attempt
       ELSE /\ lock' = o
            /\ call' = [call EXCEPT ![o] = "joining"]
            /\ awaited' = Pending
            /\ drain' = [w \in Worker |-> "none"]
            /\ snapshot' = [w \in Worker |-> {}]
    /\ UNCHANGED <<life, tasks, workers, work, pool, stopRequested, closes,
                   interrupts>>

(* asyncio.wait(pending) is over; the workers are drained concurrently. *)
JoinTasks(o) ==
    /\ call[o] = "joining"
    /\ awaited \cap Pending = {}
    /\ call' = [call EXCEPT ![o] = "draining"]
    /\ UNCHANGED <<life, tasks, workers, work, pool, stopRequested, lock,
                   attempt, closes, interrupts>>

(* Mutant: drain() does not wait for the polling to stop. *)
PollingStoppedAssumed(w) == TRUE

PollingStopped(w) == w \notin Polling

(* drain(): polling has stopped; what is active now is waited for. *)
DrainWaits(o, w) ==
    /\ call[o] = "draining"
    /\ drain[w] = "none"
    /\ PollingStopped(w)
    /\ drain' = [drain EXCEPT ![w] = "waiting"]
    /\ snapshot' = [snapshot EXCEPT ![w] = handles[w]]
    /\ UNCHANGED <<life, tasks, workers, work, pool, stopRequested, lock, call,
                   awaited, closes, interrupts>>

(* Mutant: the executor is given up without joining its threads. *)
ExecutorAbandoned(w) == TRUE

(* executor.shutdown(wait=True), which blocks the loop. *)
ExecutorJoined(w) == handles[w] = {} /\ untracked[w] = {}

(* drain(): these handles are done.  If no other is active by now, the      *)
(* executor is joined; otherwise the drain is partial.                      *)
DrainReturns(o, w) ==
    /\ call[o] = "draining"
    /\ drain[w] = "waiting"
    /\ snapshot[w] \cap handles[w] = {}
    /\ IF handles[w] = {}
       THEN ExecutorJoined(w) /\ drain' = [drain EXCEPT ![w] = "done"]
       ELSE drain' = [drain EXCEPT ![w] = "partial"]
    /\ UNCHANGED <<life, tasks, workers, work, pool, stopRequested, lock, call,
                   awaited, snapshot, closes, interrupts>>

Drained == \A w \in Worker : drain[w] \in {"done", "partial"}

(* After the drains: a partial one leaves the rest to a later call, another *)
(* pool is not closed, and pool.close() closes ours.                        *)
ClosePool(o) ==
    /\ call[o] = "draining"
    /\ Drained
    /\ IF \E w \in Worker : drain[w] = "partial"
       THEN Leave(o, "incomplete") /\ UNCHANGED <<pool, closes>>
       ELSE IF pool = "replaced"
       THEN Leave(o, "raised") /\ UNCHANGED <<pool, closes>>
       ELSE /\ pool' = "closed"
            /\ closes' = closes + 1
            /\ Leave(o, Status)
    /\ UNCHANGED <<life, tasks, workers, work, stopRequested, attempt,
                   interrupts>>

(* pool.close() raises: the pool counts as open and the call can be retried. *)
CloseFails(o) ==
    /\ call[o] = "draining"
    /\ Drained
    /\ interrupts < MaxInterrupts
    /\ interrupts' = interrupts + 1
    /\ Leave(o, "raised")
    /\ UNCHANGED <<life, tasks, workers, work, pool, stopRequested, attempt,
                   closes>>

(* A timeout or a cancellation arrives at one of the awaits. *)
Interrupt(o) ==
    /\ call[o] \in Busy
    /\ interrupts < MaxInterrupts
    /\ interrupts' = interrupts + 1
    /\ Leave(o, "interrupted")
    /\ UNCHANGED <<life, tasks, workers, work, pool, stopRequested, attempt,
                   closes>>

-----------------------------------------------------------------------------

(* The steps of a shutdown call that nothing interrupts. *)
ShutdownStep(o) ==
    \/ Acquire(o)
    \/ JoinTasks(o)
    \/ \E w \in Worker : DrainWaits(o, w) \/ DrainReturns(o, w)
    \/ ClosePool(o)

Next ==
    \/ CreateTasks \/ BodyEnds \/ ReplacePool
    \/ \E t \in Background : TaskStarts(t) \/ CustomEnds(t)
    \/ \E w \in Worker : \/ HostRuns(w) \/ TimerFires(w) \/ StopsPolling(w)
                         \/ PollOnce(w) \/ DispatchOne(w)
    \/ \E i \in Invocation : InvocationReturns(i)
    \/ \E o \in Owner : \/ Call(o) \/ ShutdownStep(o) \/ CloseFails(o)
                        \/ Interrupt(o)

Spec == Init /\ [][Next]_vars

(* The event loop runs what is ready, asyncio.Lock serves its waiters in    *)
(* order, handlers return, and a custom task ends once it was cancelled.    *)
(* Nobody has to call shutdown, and no poller has to poll.                  *)
FairSpec ==
    /\ Spec
    /\ \A t \in Background : /\ WF_vars(TaskStarts(t))
                            /\ WF_vars(t \in cancelled /\ CustomEnds(t))
    /\ \A w \in Worker : WF_vars(StopsPolling(w))
    /\ \A i \in Invocation : WF_vars(InvocationReturns(i))
    /\ \A o \in Owner : WF_vars(ShutdownStep(o)) /\ SF_vars(Acquire(o))

-----------------------------------------------------------------------------
(* Correctness.                                                             *)

(* The shape of the state. *)
TypeOK ==
    /\ life \in {"startup", "serving", "ending"}
    /\ task \in [Background -> {"none", "created", "running", "ended"}]
    /\ cancelled \in SUBSET Background
    /\ late \in SUBSET Background
    /\ started \in SUBSET Worker
    /\ poll \in [Worker -> {"none", "delay", "woken", "over"}]
    /\ stop \in SUBSET Worker
    /\ handles \in [Worker -> SUBSET Invocation]
    /\ untracked \in [Worker -> SUBSET Invocation]
    /\ used \in SUBSET Invocation
    /\ pool \in {"open", "replaced", "closed"}
    /\ stopRequested \in BOOLEAN
    /\ lock \in Owner \cup {NoOwner}
    /\ call \in [Owner -> {"idle"} \cup Busy \cup Returned]
    /\ awaited \in SUBSET Background
    /\ drain \in [Worker -> {"none", "waiting", "done", "partial"}]
    /\ snapshot \in [Worker -> SUBSET Invocation]
    /\ closes \in Nat
    /\ cancels \in [Background -> Nat]
    /\ interrupts \in 0 .. MaxInterrupts

(* The shared pool is closed only when no handler, failure hook, poller or  *)
(* background task is left that could use it, however many shutdown calls   *)
(* overlapped, timed out or were cancelled (README, Application Shutdown);  *)
(* save for the tasks that startup creates after it was told to shut down.  *)
PoolOutlivesWork ==
    pool = "closed" => Pending \subseteq late /\ Polling = {} /\ InFlight = {}

(* "The pool is closed once". *)
PoolClosedOnce == closes =< 1

(* "rather than ... repeatedly cancelling task cleanup". *)
TasksCancelledOnce == \A t \in Background : cancels[t] =< 1

(* From the moment a worker was told to stop it submits nothing more, even  *)
(* when its poll delay had already run out ("Prevent further claims").      *)
StoppedSubmitNothing ==
    \A w \in Worker :
        w \in stop => /\ handles'[w] \subseteq handles[w]
                     /\ untracked'[w] \subseteq untracked[w]

NothingSubmittedOnceStopped == [][StoppedSubmitNothing]_vars

(* A shutdown call never hangs: overlapping calls do not lock each other    *)
(* out, and an interrupted one leaves the way free.  Only a task created    *)
(* after the stop, which nobody cancels, can keep it, until it ends.        *)
EveryCallReturns ==
    <>[](Pending \cap late = {}) =>
        \A o \in Owner : call[o] \in Busy ~> call[o] \in Returned
-----------------------------------------------------------------------------
(* Why the pool outlives the work: the inductive invariant.                 *)

(* Whoever is in a shutdown call, and whoever closed the pool, told every   *)
(* worker to stop; every task that is left was cancelled, so that no call   *)
(* waits for one that was not told to end, unless it was created since.     *)
StopIsTotal ==
    /\ stopRequested => /\ stop = Worker
                        /\ Pending \subseteq cancelled \cup late
    /\ pool = "closed" => stopRequested
    /\ \A o \in Owner : call[o] \in Busy => stopRequested

(* The lock is held by the call that joins or drains, and by no other. *)
LockIsHeld ==
    \A o \in Owner : call[o] \in {"joining", "draining"} <=> lock = o

(* What a drain has established is still true when its result is used. *)
DrainHolds(w) ==
    /\ drain[w] # "none" => w \notin Polling
    /\ drain[w] = "done" => handles[w] = {} /\ untracked[w] = {}

(* The holder of the lock finds the pool not yet closed, waits for every    *)
(* task that was there, and relies only on what still holds.                  *)
HolderIsRight ==
    lock # NoOwner => /\ pool # "closed"
                      /\ Pending \subseteq awaited \cup late
                      /\ \A w \in Worker : DrainHolds(w)

(* Drains begin when no background task is left, save the late ones. *)
JoinedBeforeDrained ==
    \A o \in Owner : call[o] = "draining" => Pending \subseteq late

(* The histories: one close when the pool is closed, no cancellation before *)
(* the first call and one per task at most.                                 *)
HistoriesAgree ==
    /\ closes = IF pool = "closed" THEN 1 ELSE 0
    /\ \A t \in Background : cancels[t] =< IF stopRequested THEN 1 ELSE 0

(* Overlapping, interrupted and retried calls leave the lock with at most   *)
(* one of them, and no call closes the pool on what it saw before it was    *)
(* interrupted or overtaken: everything it acts on was established while it *)
(* held the lock and cannot be undone (_shutdown_lock, shutdown).           *)
ShutdownInv ==
    /\ StopIsTotal
    /\ LockIsHeld
    /\ HolderIsRight
    /\ JoinedBeforeDrained
    /\ PoolOutlivesWork
    /\ HistoriesAgree
=============================================================================
