-------------------------- MODULE JobLifecycle_proofs --------------------------
(***************************************************************************)
(* What TLAPS proves of JobLifecycle, for any set of jobs, any number of    *)
(* executor threads and any number of failures: the type invariant, that    *)
(* COMPLETED is only ever written for a playbook that succeeded, that a     *)
(* success is not lost to the sweep, that an outcome is final, that the     *)
(* queue is used as it is meant, and that a handler only advances.          *)
(***************************************************************************)
EXTENDS JobLifecycle, TLAPS

USE DEF Statuses, Terminal, Verdicts, InThread, Over, Handlers, Queue!Stages,
        queue, run

-----------------------------------------------------------------------------
(* Types.                                                                   *)

LEMMA InitType == Init => TypeOK
BY JobAssumption DEF Init, Queue!QueueInit, TypeOK

LEMMA QueueType ==
    ASSUME TypeOK, NEW j \in Job,
           Enqueue(j) \/ LeaveQueue(j) \/ Submit(j) \/ Age(j) \/ Lapse(j)
    PROVE  TypeOK'
BY DEF TypeOK, Enqueue, LeaveQueue, Submit, Age, Lapse, Queue!Enqueue,
       Queue!Take, Queue!Drop, Queue!Start, Queue!Move

LEMMA WriteType ==
    ASSUME TypeOK, NEW j \in Job, NEW s \in Statuses,
           Writes(j, s) \/ WriteFails(j, s)
    PROVE  status' \in [Job -> Statuses] /\ fresh' \in SUBSET Job
BY DEF TypeOK, Writes, WriteFails

LEMMA GoesType ==
    ASSUME TypeOK, NEW j \in Job, NEW from, NEW to \in Handlers,
           Goes(j, from, to)
    PROVE  handler' \in [Job -> Handlers]
BY DEF TypeOK, Goes

LEMMA FaultType ==
    ASSUME TypeOK, Fault
    PROVE  faults' \in 0 .. MaxFaults
BY JobAssumption DEF TypeOK, Fault

LEMMA ProgressType ==
    ASSUME TypeOK, NEW j \in Job, Progress(j)
    PROVE  TypeOK'
<1>1. CASE Begin(j) \/ Prepared(j) \/ HandlerReturns(j) \/ HandlerRaises(j)
  BY <1>1 DEF Begin, Prepared, HandlerReturns, HandlerRaises, Goes, TypeOK
<1>2. CASE Launch(j)
  BY <1>2 DEF Launch, Goes, Writes, TypeOK
<1>3. CASE Report(j)
  BY <1>3 DEF Report, Goes, Writes, Outcome, TypeOK
<1>4. CASE Recover(j, "inner") \/ Recover(j, "outer")
  BY <1>4 DEF Recover, Goes, Writes, TypeOK
<1>5. CASE RecordFailure(j)
  <2>1. handler' \in [Job -> Handlers]
    BY <1>5, GoesType DEF RecordFailure
  <2>2. status' \in [Job -> Statuses] /\ fresh' \in SUBSET Job
    BY <1>5, WriteType DEF RecordFailure
  <2>3. faults' \in 0 .. MaxFaults
    BY <1>5, FaultType DEF RecordFailure, WriteFails, TypeOK
  <2>4. QED
    BY <1>5, <2>1, <2>2, <2>3 DEF RecordFailure, TypeOK
<1>6. QED
  BY <1>1, <1>2, <1>3, <1>4, <1>5 DEF Progress

LEMMA FailureType ==
    ASSUME TypeOK, NEW j \in Job, Failure(j)
    PROVE  TypeOK'
<1>1. handler' \in [Job -> Handlers]
  BY GoesType DEF Failure, PreparationFails, LaunchFails, MonitoringFails,
                  RecoveryFails
<1>2. status' \in [Job -> Statuses] /\ fresh' \in SUBSET Job
  <2>1. PreparationFails(j) \/ \E s \in Statuses : WriteFails(j, s)
    BY DEF Failure, LaunchFails, MonitoringFails, RecoveryFails, Outcome
  <2>2. QED
    BY <2>1, WriteType DEF PreparationFails, TypeOK
<1>3. Fault
  BY DEF Failure, PreparationFails, LaunchFails, MonitoringFails,
         RecoveryFails, WriteFails
<1>4. UNCHANGED <<queue, stale, playing, verdict>>
  BY DEF Failure, PreparationFails, LaunchFails, MonitoringFails,
         RecoveryFails
<1>5. QED
  BY <1>1, <1>2, <1>3, <1>4, FaultType DEF TypeOK

LEMMA OtherType ==
    ASSUME TypeOK,
           \/ \E j \in Job : Heartbeat(j) \/ PlaybookEnds(j)
           \/ Sweep
           \/ Crash
           \/ UNCHANGED vars
    PROVE  TypeOK'
<1>1. CASE \E j \in Job : Heartbeat(j)
  BY <1>1 DEF Heartbeat, Writes, TypeOK
<1>2. CASE \E j \in Job : PlaybookEnds(j)
  BY <1>2 DEF PlaybookEnds, TypeOK
<1>3. CASE Sweep
  BY <1>3 DEF Sweep, TypeOK
<1>4. CASE Crash
  <2>1. faults' \in 0 .. MaxFaults
    BY <1>4, FaultType DEF Crash
  <2>2. handler' \in [Job -> Handlers] /\ playing' \in SUBSET Job
    BY <1>4 DEF Crash, TypeOK
  <2>3. QED
    BY <1>4, <2>1, <2>2 DEF Crash, TypeOK
<1>5. CASE UNCHANGED vars
  BY <1>5 DEF vars, TypeOK
<1>6. QED
  BY <1>1, <1>2, <1>3, <1>4, <1>5

LEMMA StepType == TypeOK /\ [Next]_vars => TypeOK'
BY QueueType, ProgressType, FailureType, OtherType DEF Next

(* The state keeps its shape. *)
THEOREM TypeCorrect == Spec => []TypeOK
BY InitType, StepType, PTL DEF Spec

-----------------------------------------------------------------------------
(* Honest completion.                                                       *)

Honest(j) ==
    status[j] = "COMPLETED" => verdict[j] = "successful" /\ j \notin playing

(* A write of anything but COMPLETED cannot make a row dishonest, and       *)
(* neither can a write of the outcome of a playbook that has ended.         *)
LEMMA WriteHonest ==
    ASSUME TypeOK, CompletionIsHonest, NEW j \in Job, NEW s \in Statuses,
           Writes(j, s) \/ WriteFails(j, s) \/ UNCHANGED status,
           s = "COMPLETED" => verdict[j] = "successful" /\ j \notin playing,
           UNCHANGED <<playing, verdict>>
    PROVE  CompletionIsHonest'
BY DEF TypeOK, CompletionIsHonest, Writes, WriteFails

LEMMA StepHonest == TypeOK /\ CompletionIsHonest /\ [Next]_vars
                        => CompletionIsHonest'
<1> SUFFICES ASSUME TypeOK, CompletionIsHonest, [Next]_vars
             PROVE  CompletionIsHonest'
  OBVIOUS
<1>1. CASE \E j \in Job : Enqueue(j) \/ Launch(j)
  BY <1>1 DEF Enqueue, Launch, Writes, TypeOK, CompletionIsHonest
<1>2. CASE \E j \in Job : \/ LeaveQueue(j) \/ Submit(j) \/ Age(j) \/ Lapse(j)
                          \/ Begin(j) \/ Prepared(j) \/ PreparationFails(j)
                          \/ HandlerReturns(j) \/ HandlerRaises(j)
  BY <1>2 DEF LeaveQueue, Submit, Age, Lapse, Begin, Prepared,
              PreparationFails, HandlerReturns, HandlerRaises,
              CompletionIsHonest
<1>3. CASE \E j \in Job : PlaybookEnds(j)
  BY <1>3 DEF PlaybookEnds, TypeOK, CompletionIsHonest
<1>4. CASE \E j \in Job : Heartbeat(j) \/ LaunchFails(j)
  BY <1>4, WriteHonest DEF Heartbeat, LaunchFails
<1>5. CASE \E j \in Job, c, n \in {"inner", "outer", "raised"} :
              Recover(j, c) \/ RecoveryFails(j, c, n) \/ RecordFailure(j)
  BY <1>5, WriteHonest DEF Recover, RecoveryFails, RecordFailure
<1>6. CASE \E j \in Job : Report(j) \/ MonitoringFails(j)
  <2>1. PICK j \in Job : Report(j) \/ MonitoringFails(j)
    BY <1>6
  <2>2. CASE j \notin playing
    BY <2>1, <2>2, WriteHonest DEF Report, MonitoringFails, Outcome
  <2>3. CASE j \in playing
    BY <2>1, <2>3, WriteHonest DEF Report, MonitoringFails
  <2>4. QED
    BY <2>2, <2>3
<1>7. CASE Sweep \/ Crash \/ UNCHANGED vars
  BY <1>7 DEF Sweep, Crash, vars, TypeOK, CompletionIsHonest
<1>8. QED
  BY <1>1, <1>2, <1>3, <1>4, <1>5, <1>6, <1>7 DEF Next, Progress, Failure

(* No failed or repeated write, sweep or crash ever shows a job as          *)
(* COMPLETED whose playbook did not succeed or is still running.            *)
THEOREM HonestyHolds == Spec => []CompletionIsHonest
<1>1. Init => CompletionIsHonest
  BY DEF Init, CompletionIsHonest
<1>2. QED
  BY <1>1, TypeCorrect, StepHonest, PTL DEF Spec

-----------------------------------------------------------------------------
(* Successes are recorded, outcomes final.                                  *)

(* Only a message that an executor accepted has a handler. *)
HandledWasStarted ==
    \A j \in Job : handler[j] # "none" => stage[j] = "started"

LEMMA StepStarted == TypeOK /\ HandledWasStarted /\ [Next]_vars
                         => HandledWasStarted'
<1> SUFFICES ASSUME TypeOK, HandledWasStarted, [Next]_vars
             PROVE  HandledWasStarted'
  OBVIOUS
<1>1. CASE \E j \in Job : \/ Enqueue(j) \/ LeaveQueue(j) \/ Submit(j)
                          \/ Age(j) \/ Lapse(j)
  BY <1>1 DEF Enqueue, LeaveQueue, Submit, Age, Lapse, Queue!Enqueue,
              Queue!Take, Queue!Drop, Queue!Start, Queue!Move, TypeOK,
              HandledWasStarted
<1>2. CASE \E j \in Job : Progress(j) \/ Failure(j)
  <2>1. PICK j \in Job : Progress(j) \/ Failure(j)
    BY <1>2
  <2>2. /\ handler[j] # "none"
        /\ \E to \in Handlers : handler' = [handler EXCEPT ![j] = to]
        /\ UNCHANGED stage
    BY <2>1 DEF Progress, Failure, Begin, Prepared, Launch, Report, Recover,
                HandlerReturns, HandlerRaises, RecordFailure,
                PreparationFails, LaunchFails, MonitoringFails,
                RecoveryFails, Goes
  <2>3. QED
    BY <2>2 DEF TypeOK, HandledWasStarted
<1>3. CASE \/ \E j \in Job : Heartbeat(j) \/ PlaybookEnds(j)
           \/ Sweep
           \/ Crash
           \/ UNCHANGED vars
  BY <1>3 DEF Heartbeat, PlaybookEnds, Sweep, Crash, vars, TypeOK,
              HandledWasStarted
<1>4. QED
  BY <1>1, <1>2, <1>3 DEF Next

LEMMA StepRecorded ==
    TypeOK /\ HandledWasStarted /\ SuccessIsRecorded /\ [Next]_vars
        => SuccessIsRecorded'
<1> SUFFICES ASSUME TypeOK, HandledWasStarted, SuccessIsRecorded, [Next]_vars
             PROVE  SuccessIsRecorded'
  OBVIOUS
<1>1. CASE \E j \in Job : \/ Enqueue(j) \/ LeaveQueue(j) \/ Submit(j)
                          \/ Age(j) \/ Lapse(j)
  BY <1>1 DEF Enqueue, LeaveQueue, Submit, Age, Lapse, Queue!Enqueue,
              Queue!Move, TypeOK, HandledWasStarted, SuccessIsRecorded
<1>2. CASE \E j \in Job : Report(j)
  BY <1>2 DEF Report, Goes, Writes, Outcome, TypeOK, SuccessIsRecorded
<1>3. CASE \E j \in Job : \/ Begin(j) \/ Prepared(j) \/ HandlerReturns(j)
                          \/ HandlerRaises(j) \/ PreparationFails(j)
  BY <1>3 DEF Begin, Prepared, HandlerReturns, HandlerRaises,
              PreparationFails, Goes, TypeOK, SuccessIsRecorded
<1>4. CASE \E j \in Job, c, n \in {"inner", "outer", "raised"} :
              \/ Launch(j) \/ LaunchFails(j) \/ MonitoringFails(j)
              \/ Recover(j, c) \/ RecoveryFails(j, c, n) \/ RecordFailure(j)
  <2>1. PICK j \in Job : /\ handler'[j] \notin {"reported_ok", "succeeded"}
                         /\ \A k \in Job \ {j} : /\ handler'[k] = handler[k]
                                                 /\ status'[k] = status[k]
    BY <1>4 DEF Launch, LaunchFails, MonitoringFails, Recover,
                RecoveryFails, RecordFailure, Goes, Writes, WriteFails, TypeOK
  <2>2. QED
    BY <2>1 DEF SuccessIsRecorded
<1>5. CASE \/ \E j \in Job : Heartbeat(j) \/ PlaybookEnds(j)
           \/ Sweep
           \/ Crash
           \/ UNCHANGED vars
  BY <1>5 DEF Heartbeat, PlaybookEnds, Sweep, Zombies, Crash, Writes, vars,
              TypeOK, SuccessIsRecorded
<1>6. QED
  BY <1>1, <1>2, <1>3, <1>4, <1>5 DEF Next, Progress, Failure

(* The sweep may fail a job while its playbook runs, but never robs a       *)
(* handler that returns after a success of its COMPLETED.                   *)
THEOREM SuccessHolds == Spec => []SuccessIsRecorded
<1>1. Init => HandledWasStarted /\ SuccessIsRecorded
  BY DEF Init, HandledWasStarted, SuccessIsRecorded
<1>2. QED
  BY <1>1, TypeCorrect, StepStarted, StepRecorded, PTL DEF Spec

(* Once nobody works for a job, its terminal status stays. *)
THEOREM OutcomeHolds == Spec => OutcomeIsFinal
<1>1. Init => HandledWasStarted
  BY DEF Init, HandledWasStarted
<1>2. TypeOK /\ HandledWasStarted /\ [Next]_vars => [SettledIsKept]_vars
  <2> SUFFICES ASSUME TypeOK, HandledWasStarted, [Next]_vars,
                      NEW j \in Job, Settled(j)
               PROVE  status'[j] = status[j]
    BY DEF SettledIsKept
  <2>1. handler[j] \in {"none"} \cup Over /\ stage[j] # "unborn"
    BY DEF HandledWasStarted, Settled
  <2>2. CASE \E k \in Job : Enqueue(k) \/ Heartbeat(k)
    BY <2>1, <2>2 DEF Enqueue, Queue!Enqueue, Queue!Move, Heartbeat, Writes,
                      TypeOK
  <2>3. CASE \E k \in Job : \/ LeaveQueue(k) \/ Submit(k) \/ Age(k) \/ Lapse(k)
                            \/ PlaybookEnds(k)
    BY <2>3 DEF LeaveQueue, Submit, Age, Lapse, PlaybookEnds
  <2>4. CASE \E k \in Job : Progress(k) \/ Failure(k)
    <3>1. PICK k \in Job : Progress(k) \/ Failure(k)
      BY <2>4
    <3>2. handler[k] \notin {"none"} \cup Over
      BY <3>1 DEF Progress, Failure, Begin, Prepared, Launch, Report, Recover,
                  HandlerReturns, HandlerRaises, RecordFailure,
                  PreparationFails, LaunchFails, MonitoringFails,
                  RecoveryFails, Goes
    <3>3. status' = status \/ \E s : status' = [status EXCEPT ![k] = s]
      BY <3>1 DEF Progress, Failure, Begin, Prepared, Launch, Report, Recover,
                  HandlerReturns, HandlerRaises, RecordFailure,
                  PreparationFails, LaunchFails, MonitoringFails,
                  RecoveryFails, Writes, WriteFails
    <3>4. QED
      BY <2>1, <3>2, <3>3 DEF TypeOK
  <2>5. CASE Sweep \/ Crash \/ UNCHANGED vars
    BY <2>5 DEF Sweep, Zombies, Crash, vars, Settled, TypeOK
  <2>6. QED
    BY <2>2, <2>3, <2>4, <2>5 DEF Next
<1>3. QED
  BY <1>1, <1>2, TypeCorrect, StepStarted, PTL DEF Spec, OutcomeIsFinal

-----------------------------------------------------------------------------
(* The queue, and the way of a handler.                                     *)

(* The jobs use the queue as it is meant: what a worker's crash, the sweep  *)
(* or a failed write does to a job is no step of its message.  With         *)
(* ImplementsQueueHolds (QueueRefinement_proofs) what is proved of the jobs *)
(* rests on a promise that QueueDispatch keeps.                             *)
THEOREM JobsUseTheQueue == Spec => Queue!QueueSpec
<1>1. Init => Queue!QueueInit
  BY DEF Init
<1>2. [Next]_vars => [Queue!QueueNext]_<<stage, starts>>
  <2> SUFFICES ASSUME [Next]_vars
               PROVE  Queue!QueueNext \/ UNCHANGED <<stage, starts>>
    OBVIOUS
  <2>1. CASE \E j \in Job : Enqueue(j) \/ LeaveQueue(j) \/ Submit(j)
    BY <2>1 DEF Enqueue, LeaveQueue, Submit, Queue!QueueNext
  <2>2. CASE \E j \in Job : \/ Age(j) \/ Lapse(j) \/ Heartbeat(j)
                            \/ PlaybookEnds(j)
    BY <2>2 DEF Age, Lapse, Heartbeat, PlaybookEnds
  <2>3. CASE \E j \in Job : Progress(j) \/ Failure(j)
    BY <2>3 DEF Progress, Failure, Begin, Prepared, Launch, Report, Recover,
                HandlerReturns, HandlerRaises, RecordFailure,
                PreparationFails, LaunchFails, MonitoringFails, RecoveryFails
  <2>4. CASE Sweep \/ Crash \/ UNCHANGED vars
    BY <2>4 DEF Sweep, Crash, vars
  <2>5. QED
    BY <2>1, <2>2, <2>3, <2>4 DEF Next
<1>3. QED
  BY <1>1, <1>2, PTL DEF Spec, Queue!QueueSpec, Queue!queueVars

(* How far along its way a handler is: the except clauses come after what   *)
(* they guard, and the end after everything.                                *)
Rank(h) ==
    CASE h = "none"                             -> 0
      [] h = "waiting"                          -> 1
      [] h = "preparing"                        -> 2
      [] h = "launching"                        -> 3
      [] h = "monitoring"                       -> 4
      [] h = "inner"                            -> 5
      [] h = "outer"                            -> 6
      [] h \in {"reported_ok", "reported_bad"}  -> 7
      [] h = "raised"                           -> 8
      [] h \in Over                             -> 9

Advances(j) ==
    handler'[j] = handler[j] \/ Rank(handler'[j]) > Rank(handler[j])

HandlersAdvance == [][\A j \in Job : Advances(j)]_vars

LEMMA GoesAdvances ==
    ASSUME TypeOK, NEW j \in Job, NEW from \in Handlers, NEW to \in Handlers,
           Goes(j, from, to), Rank(to) > Rank(from)
    PROVE  \A k \in Job : Advances(k)
BY DEF Goes, TypeOK, Advances

(* Nothing is tried again: no failure, crash, sweep or retry of a write     *)
(* takes a handler back, so that a message's playbook is launched at most   *)
(* once and its handler is over after nine steps at most.  It is the        *)
(* variant behind EveryJobSettles.                                          *)
THEOREM HandlersOnlyAdvance == Spec => HandlersAdvance
<1>1. ASSUME TypeOK, HandledWasStarted, [Next]_vars
      PROVE  \A j \in Job : Advances(j)
  <2>1. CASE UNCHANGED handler
    BY <2>1 DEF Advances
  <2>2. ASSUME NEW j \in Job, Submit(j)
        PROVE  \A k \in Job : Advances(k)
    <3>1. handler[j] = "none"
      BY <1>1, <2>2 DEF Submit, Queue!Start, Queue!Move, HandledWasStarted
    <3>2. QED
      BY <1>1, <2>2, <3>1 DEF Submit, TypeOK, Advances, Rank
  <2>3. ASSUME NEW j \in Job, Progress(j) \/ Failure(j)
        PROVE  \A k \in Job : Advances(k)
    <3>1. PICK from, to \in Handlers : Goes(j, from, to) /\ Rank(to) > Rank(from)
      BY <2>3
         DEF Progress, Failure, Begin, Prepared, Launch, Report, Recover,
             HandlerReturns, HandlerRaises, RecordFailure, PreparationFails,
             LaunchFails, MonitoringFails, RecoveryFails, Goes, Rank
    <3>2. QED
      BY <1>1, <3>1, GoesAdvances
  <2>4. CASE Crash
    BY <1>1, <2>4 DEF Crash, TypeOK, Advances, Rank
  <2>5. QED
    BY <1>1, <2>1, <2>2, <2>3, <2>4
       DEF Next, Enqueue, LeaveQueue, Age, Lapse, Heartbeat, PlaybookEnds,
           Sweep, vars
<1>2. Init => HandledWasStarted
  BY DEF Init, HandledWasStarted
<1>3. TypeOK /\ HandledWasStarted /\ [Next]_vars
         => [\A j \in Job : Advances(j)]_vars
  BY <1>1
<1>4. QED
  BY <1>2, <1>3, TypeCorrect, StepStarted, PTL DEF Spec, HandlersAdvance
==============================================================================
