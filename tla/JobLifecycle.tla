----------------------------- MODULE JobLifecycle -----------------------------
(***************************************************************************)
(* The life of the job rows (cpkit.jobs) of one-shot messages: who writes   *)
(* the status, and in what order the writes can meet.                       *)
(*                                                                          *)
(*   enqueue_command   inserts the row, QUEUED, with its message            *)
(*   AnsibleRunner     writes RUNNING, heartbeats, COMPLETED or FAILED from *)
(*                     the handler's thread                                 *)
(*   record_failure    the hook of create_queue_worker, when a handler      *)
(*                     raised                                               *)
(*   fail_zombie_jobs  the recurring sweep, from whatever worker runs it    *)
(*                                                                          *)
(* The way from the queue to the executor is the abstract AtMostOnceQueue,  *)
(* which QueueDispatch implements.  A handler here is one that runs its     *)
(* playbook through run_playbook, without credential hooks, and then does   *)
(* something of its own that may raise.                                     *)
(***************************************************************************)
EXTENDS Integers, FiniteSets

CONSTANTS
    Job,          \* job identifiers, which are also the message identifiers
    Threads,      \* threads of the executors
    MaxFaults     \* bound: failed statements, failed launches and crashes

ASSUME JobAssumption ==
    /\ Threads \in Nat \ {0}
    /\ MaxFaults \in Nat

VARIABLES
    stage,        \* the message of each job, see AtMostOnceQueue
    starts,       \* invocations handed to an executor, see AtMostOnceQueue
    status,       \* the committed status of each job row
    stale,        \* jobs whose updated_at is more than 300 s old
    fresh,        \* history: jobs whose handler wrote the status in the last
                  \*          300 s
    handler,      \* how far each job's handler has come
    playing,      \* jobs whose Ansible thread is alive
    verdict,      \* how each job's playbook ended
    faults        \* failures so far

queue == <<stage, starts>>
run   == <<handler, playing, verdict>>
vars  == <<queue, status, stale, fresh, run, faults>>

Queue == INSTANCE AtMostOnceQueue WITH OneShot <- Job

Statuses == {"none", "QUEUED", "RUNNING", "COMPLETED", "FAILED"}
Terminal == {"COMPLETED", "FAILED"}

Verdicts == {"unknown", "successful", "failed"}

(* none: not in an executor.  waiting: no thread yet.  preparing: before    *)
(* _run_loaded_playbook.  launching, monitoring: inside it.  inner, outer:  *)
(* in its except clause, in that of launch_runner.  reported_ok,            *)
(* reported_bad: launch_runner has returned.  raised: the handler has.      *)
(* succeeded, failed: the invocation is over.  dead: so is its process.     *)
InThread == {"preparing", "launching", "monitoring", "inner", "outer",
             "reported_ok", "reported_bad", "raised"}
Over     == {"succeeded", "failed", "dead"}
Handlers == {"none", "waiting"} \cup InThread \cup Over

Init ==
    /\ Queue!QueueInit
    /\ status = [j \in Job |-> "none"]
    /\ stale = {}
    /\ fresh = {}
    /\ handler = [j \in Job |-> "none"]
    /\ playing = {}
    /\ verdict = [j \in Job |-> "unknown"]
    /\ faults = 0

Fault ==
    /\ faults < MaxFaults
    /\ faults' = faults + 1

-----------------------------------------------------------------------------
(* The row and its message.                                                 *)

(* enqueue_command, for a new job or as the replacement of a rescheduled    *)
(* one: message and row in one statement.                                   *)
Enqueue(j) ==
    /\ Queue!Enqueue(j)
    /\ status' = [status EXCEPT ![j] = "QUEUED"]
    /\ UNCHANGED <<stale, fresh, run, faults>>

(* A worker takes the message, or loses it. *)
LeaveQueue(j) ==
    /\ Queue!Take(j) \/ Queue!Drop(j)
    /\ UNCHANGED <<status, stale, fresh, run, faults>>

Submit(j) ==
    /\ Queue!Start(j)
    /\ handler' = [handler EXCEPT ![j] = "waiting"]
    /\ UNCHANGED <<status, stale, fresh, playing, verdict, faults>>

(* 300 s after the insert.  No statement writes updated_at after that, and  *)
(* the table has no trigger that would.                                     *)
Age(j) ==
    /\ status[j] # "none"
    /\ stale' = stale \cup {j}
    /\ UNCHANGED <<queue, status, fresh, run, faults>>

(* 300 s after the handler's last write, which is not while the monitoring  *)
(* loop repeats it every 60 s.                                              *)
Lapse(j) ==
    /\ j \in fresh
    /\ handler[j] # "monitoring"
    /\ fresh' = fresh \ {j}
    /\ UNCHANGED <<queue, status, stale, run, faults>>

-----------------------------------------------------------------------------
(* The handler.                                                             *)

(* The executors have a bounded number of threads; the sweep needs one too. *)
FreeThread == Cardinality({j \in Job : handler[j] \in InThread}) < Threads

Goes(j, from, to) ==
    /\ handler[j] = from
    /\ handler' = [handler EXCEPT ![j] = to]

(* update_job(j, s) commits. *)
Writes(j, s) ==
    /\ status' = [status EXCEPT ![j] = s]
    /\ fresh' = fresh \cup {j}

(* update_job(j, s) raises: not applied, or applied and not acknowledged. *)
WriteFails(j, s) ==
    /\ Fault
    /\ Writes(j, s) \/ UNCHANGED <<status, fresh>>

Begin(j) ==
    /\ FreeThread
    /\ Goes(j, "waiting", "preparing")
    /\ UNCHANGED <<queue, status, stale, fresh, playing, verdict, faults>>

(* The default playbook is loaded and its version recorded. *)
Prepared(j) ==
    /\ Goes(j, "preparing", "launching")
    /\ UNCHANGED <<queue, status, stale, fresh, playing, verdict, faults>>

(* There is no default playbook, or a statement fails. *)
PreparationFails(j) ==
    /\ Goes(j, "preparing", "outer")
    /\ Fault
    /\ UNCHANGED <<queue, status, stale, fresh, playing, verdict>>

(* RUNNING is written, then run_async starts the Ansible thread. *)
Launch(j) ==
    /\ Goes(j, "launching", "monitoring")
    /\ Writes(j, "RUNNING")
    /\ playing' = playing \cup {j}
    /\ UNCHANGED <<queue, stale, verdict, faults>>

(* The job directory, the write or run_async fails. *)
LaunchFails(j) ==
    /\ Goes(j, "launching", "inner")
    /\ WriteFails(j, "RUNNING")
    /\ UNCHANGED <<queue, stale, playing, verdict>>

(* Mutant: a thread of its own keeps beating as long as the playbook runs. *)
HeartbeatDetached(j) ==
    /\ j \in playing
    /\ Writes(j, "RUNNING")
    /\ UNCHANGED <<queue, stale, run, faults>>

(* The monitoring loop, every 60 s. *)
Heartbeat(j) ==
    /\ handler[j] = "monitoring"
    /\ j \in playing
    /\ Writes(j, "RUNNING")
    /\ UNCHANGED <<queue, stale, run, faults>>

(* The Ansible thread ends, monitored or not. *)
PlaybookEnds(j) ==
    /\ j \in playing
    /\ playing' = playing \ {j}
    /\ \E v \in Verdicts \ {"unknown"} : verdict' = [verdict EXCEPT ![j] = v]
    /\ UNCHANGED <<queue, status, stale, fresh, handler, faults>>

(* Mutants: the playbook's verdict is not looked at, or written as it is. *)
OutcomeOptimistic(j) == "COMPLETED"
OutcomeRaw(j)        == verdict[j]

Outcome(j) == IF verdict[j] = "successful" THEN "COMPLETED" ELSE "FAILED"

(* After thread.join(): the outcome is written and launch_runner returns. *)
Report(j) ==
    /\ j \notin playing
    /\ Goes(j, "monitoring",
            IF verdict[j] = "successful" THEN "reported_ok"
                                         ELSE "reported_bad")
    /\ Writes(j, Outcome(j))
    /\ UNCHANGED <<queue, stale, playing, verdict, faults>>

(* A heartbeat or the final write fails.  A playbook that is still running  *)
(* is left running.                                                         *)
MonitoringFails(j) ==
    /\ Goes(j, "monitoring", "inner")
    /\ WriteFails(j, IF j \in playing THEN "RUNNING" ELSE Outcome(j))
    /\ UNCHANGED <<queue, stale, playing, verdict>>

(* The except clause writes FAILED and the runner returns "failed". *)
Recover(j, clause) ==
    /\ Goes(j, clause, "reported_bad")
    /\ Writes(j, "FAILED")
    /\ UNCHANGED <<queue, stale, playing, verdict, faults>>

(* It fails as well, in the write or in the FAILURE task row, and so the    *)
(* exception goes to the next clause: launch_runner's, then the handler's.  *)
RecoveryFails(j, clause, next) ==
    /\ Goes(j, clause, next)
    /\ WriteFails(j, "FAILED")
    /\ UNCHANGED <<queue, stale, playing, verdict>>

(* The rest of the application's handler. *)
HandlerReturns(j) ==
    /\ \/ Goes(j, "reported_ok", "succeeded")
       \/ Goes(j, "reported_bad", "failed")
    /\ UNCHANGED <<queue, status, stale, fresh, playing, verdict, faults>>

HandlerRaises(j) ==
    /\ Goes(j, "reported_ok", "raised") \/ Goes(j, "reported_bad", "raised")
    /\ UNCHANGED <<queue, status, stale, fresh, playing, verdict, faults>>

(* record_failure: what it cannot write is logged and dropped. *)
RecordFailure(j) ==
    /\ Goes(j, "raised", "failed")
    /\ \/ Writes(j, "FAILED") /\ UNCHANGED faults
       \/ WriteFails(j, "FAILED")
    /\ UNCHANGED <<queue, stale, playing, verdict>>

-----------------------------------------------------------------------------
(* The sweep and the processes.                                             *)

(* Mutants: the condition on the status is dropped, or forgets QUEUED. *)
ZombiesOfAnyStatus == stale \cap {j \in Job : status[j] # "none"}
ZombiesRunning == stale \cap {j \in Job : status[j] = "RUNNING"}

(* fail_zombie_jobs: one UPDATE. *)
Zombies == {j \in stale : status[j] \in {"RUNNING", "QUEUED"}}

Sweep ==
    /\ FreeThread
    /\ Zombies # {}
    /\ status' = [j \in Job |-> IF j \in Zombies THEN "FAILED" ELSE status[j]]
    /\ UNCHANGED <<queue, stale, fresh, run, faults>>

(* Processes die, with the handlers and playbooks of any set of jobs. *)
Crash ==
    /\ Fault
    /\ \E dying \in SUBSET {j \in Job : handler[j] \notin {"none"} \cup Over} :
          /\ dying # {}
          /\ handler' = [j \in Job |->
                            IF j \in dying THEN "dead" ELSE handler[j]]
          /\ playing' = playing \ dying
    /\ UNCHANGED <<queue, status, stale, fresh, verdict>>

-----------------------------------------------------------------------------

(* What a handler does when it is not struck by a failure. *)
Progress(j) ==
    \/ Begin(j)
    \/ Prepared(j)
    \/ Launch(j)
    \/ Report(j)
    \/ Recover(j, "inner")
    \/ Recover(j, "outer")
    \/ HandlerReturns(j)
    \/ HandlerRaises(j)
    \/ RecordFailure(j)

Failure(j) ==
    \/ PreparationFails(j)
    \/ LaunchFails(j)
    \/ MonitoringFails(j)
    \/ RecoveryFails(j, "inner", "outer")
    \/ RecoveryFails(j, "outer", "raised")

Next ==
    \/ \E j \in Job :
          \/ Enqueue(j)
          \/ LeaveQueue(j)
          \/ Submit(j)
          \/ Age(j)
          \/ Lapse(j)
          \/ Heartbeat(j)
          \/ PlaybookEnds(j)
          \/ Progress(j)
          \/ Failure(j)
    \/ Sweep
    \/ Crash

Spec == Init /\ [][Next]_vars

(* Time passes, playbooks end, handlers return, and the recurring sweep     *)
(* keeps being dispatched (QueueDispatch, RecurringServed).  Nothing is     *)
(* assumed of the queue: a message may wait for ever.                       *)
FairSpec ==
    /\ Spec
    /\ WF_vars(Sweep)
    /\ \A j \in Job :
          /\ WF_vars(Age(j))
          /\ WF_vars(PlaybookEnds(j))
          /\ WF_vars(Progress(j))

-----------------------------------------------------------------------------
(* Correctness.                                                             *)

(* The shape of the state. *)
TypeOK ==
    /\ stage \in [Job -> Queue!Stages]
    /\ starts \in [Job -> Nat]
    /\ status \in [Job -> Statuses]
    /\ stale \in SUBSET Job
    /\ fresh \in SUBSET Job
    /\ handler \in [Job -> Handlers]
    /\ playing \in SUBSET Job
    /\ verdict \in [Job -> Verdicts]
    /\ faults \in 0 .. MaxFaults

(* A job shown as COMPLETED had a playbook that ended successfully and is   *)
(* no longer running, however late or lost the write of that status was.    *)
CompletionIsHonest ==
    \A j \in Job :
        status[j] = "COMPLETED" => verdict[j] = "successful" /\ j \notin playing

(* A handler that returned normally after a successful playbook leaves its  *)
(* job COMPLETED, even if the sweep failed the job while it ran or sweeps   *)
(* the table afterwards.                                                    *)
SuccessIsRecorded ==
    \A j \in Job :
        handler[j] \in {"reported_ok", "succeeded"} => status[j] = "COMPLETED"

(* Nobody works for the job any more and its row has a terminal status. *)
Settled(j) ==
    /\ handler[j] \in Over \/ stage[j] = "dropped"
    /\ status[j] \in Terminal

SettledIsKept == \A j \in Job : Settled(j) => status'[j] = status[j]

(* Once nobody works for a job any more, because its handler is over or its *)
(* message was lost, a terminal status is never taken back.                 *)
OutcomeIsFinal == [][SettledIsKept]_vars

(* Nobody waits for ever for a job: lost message, dead process, failed      *)
(* status write or not, its row settles on COMPLETED or FAILED.             *)
EveryJobSettles ==
    \A j \in Job : status[j] = "QUEUED" ~> [](status[j] \in Terminal)

(* jobs/README.md: fail_zombie_jobs "only marks stale ... job rows": none   *)
(* whose handler has written its status within the 300 s.                   *)
SweepSparesTheLiving ==
    [][Sweep => Zombies \cap fresh = {}]_vars
=============================================================================
