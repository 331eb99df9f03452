-------------------------- MODULE AppShutdown_proofs --------------------------
(***************************************************************************)
(* What TLAPS proves of AppShutdown, for any workers, background tasks,     *)
(* callers, invocations and number of interruptions: the type invariant,    *)
(* that a stopped worker submits nothing, and that the pool is closed once, *)
(* after all the work that could use it and was there when it was asked to  *)
(* stop.                                                                    *)
(***************************************************************************)
EXTENDS AppShutdown, TLAPS

USE DEF Busy, Returned

-----------------------------------------------------------------------------
(* The steps of the lifespan and of the workers, and those of the calls.    *)

LoopStep ==
    \/ CreateTasks \/ BodyEnds
    \/ \E t \in Background : TaskStarts(t) \/ CustomEnds(t)
    \/ \E w \in Worker : \/ HostRuns(w) \/ TimerFires(w) \/ StopsPolling(w)
                         \/ PollOnce(w) \/ DispatchOne(w)
    \/ \E i \in Invocation : InvocationReturns(i)
    \/ UNCHANGED vars

CallStep(o) == Call(o) \/ ShutdownStep(o) \/ CloseFails(o) \/ Interrupt(o)

LEMMA StepKinds ==
    [Next]_vars => LoopStep \/ ReplacePool \/ \E o \in Owner : CallStep(o)
BY DEF Next, LoopStep, CallStep

(* The loop and the workers leave the calls alone. *)
LEMMA LoopKeepsCalls ==
    LoopStep => UNCHANGED <<pool, stopRequested, lock, call, attempt, closes,
                            cancels, interrupts>>
BY DEF LoopStep, CreateTasks, BodyEnds, TaskStarts, CustomEnds, HostRuns,
       TimerFires, StopsPolling, PollOnce, DispatchOne, InvocationReturns,
       vars, tasks, attempt

(* The calls leave the tasks and the work alone. *)
LEMMA CallKeepsWork ==
    ASSUME NEW o \in Owner, CallStep(o)
    PROVE  UNCHANGED <<life, task, late, started, poll, work>>
BY DEF CallStep, Call, ShutdownStep, Acquire, JoinTasks, DrainWaits,
       DrainReturns, ClosePool, CloseFails, Interrupt, tasks, workers, work

-----------------------------------------------------------------------------
(* Types.                                                                   *)

LEMMA InitType == Init => TypeOK
<1> SUFFICES ASSUME Init
             PROVE  TypeOK
  OBVIOUS
<1>1. /\ life \in {"startup", "serving", "ending"}
      /\ task \in [Background -> {"none", "created", "running", "ended"}]
      /\ poll \in [Worker -> {"none", "delay", "woken", "over"}]
      /\ pool \in {"open", "replaced", "closed"}
      /\ call \in [Owner -> {"idle"} \cup Busy \cup Returned]
      /\ drain \in [Worker -> {"none", "waiting", "done", "partial"}]
  BY DEF Init
<1>2. /\ handles \in [Worker -> SUBSET Invocation]
      /\ untracked \in [Worker -> SUBSET Invocation]
      /\ snapshot \in [Worker -> SUBSET Invocation]
      /\ cancelled \in SUBSET Background
      /\ late \in SUBSET Background
      /\ started \in SUBSET Worker
      /\ stop \in SUBSET Worker
      /\ used \in SUBSET Invocation
      /\ awaited \in SUBSET Background
  BY DEF Init
<1>3. /\ closes \in Nat
      /\ cancels \in [Background -> Nat]
      /\ interrupts \in 0 .. MaxInterrupts
      /\ lock \in Owner \cup {NoOwner}
  BY OwnersAssumption DEF Init
<1>4. stopRequested \in BOOLEAN
  BY DEF Init
<1>5. QED
  BY <1>1, <1>2, <1>3, <1>4 DEF TypeOK

LEMMA SubmitType ==
    ASSUME TypeOK, NEW w \in Worker,
           SubmitTracked(w) \/ SubmitUntracked(w) \/ UNCHANGED work
    PROVE  /\ handles' \in [Worker -> SUBSET Invocation]
           /\ untracked' \in [Worker -> SUBSET Invocation]
           /\ used' \in SUBSET Invocation
BY DEF TypeOK, SubmitTracked, SubmitUntracked, work

LEMMA RunType ==
    ASSUME TypeOK, NEW w \in Worker,
           RunBegins(w) \/ (Finish(w) /\ UNCHANGED started)
    PROVE  /\ poll' \in [Worker -> {"none", "delay", "woken", "over"}]
           /\ stop' \in SUBSET Worker
           /\ started' \in SUBSET Worker
BY DEF TypeOK, RunBegins, Finish

LEMMA TaskType ==
    ASSUME TypeOK, NEW w, RunBegins(w) \/ EndTask(w)
    PROVE  task' \in [Background -> {"none", "created", "running", "ended"}]
BY DEF TypeOK, RunBegins, EndTask

LEMMA LoopType == TypeOK /\ LoopStep => TypeOK'
<1> SUFFICES ASSUME TypeOK, LoopStep
             PROVE  TypeOK'
  OBVIOUS
<1>1. CASE CreateTasks
  BY <1>1 DEF CreateTasks, TypeOK, workers, work, attempt
<1>2. CASE BodyEnds
  BY <1>2 DEF BodyEnds, TypeOK, tasks, workers, work, attempt
<1>3. ASSUME NEW t \in Background, TaskStarts(t)
      PROVE  TypeOK'
  <2>1. /\ poll' \in [Worker -> {"none", "delay", "woken", "over"}]
        /\ stop' \in SUBSET Worker
        /\ started' \in SUBSET Worker
    BY <1>3, RunType DEF TaskStarts, TypeOK, workers
  <2>2. task' \in [Background -> {"none", "created", "running", "ended"}]
    BY <1>3, TaskType DEF TaskStarts, TypeOK
  <2>3. QED
    BY <1>3, <2>1, <2>2 DEF TaskStarts, TypeOK, work, attempt
<1>4. ASSUME NEW t \in Background, CustomEnds(t)
      PROVE  TypeOK'
  BY <1>4 DEF CustomEnds, TypeOK, workers, work, attempt
<1>5. ASSUME NEW w \in Worker, HostRuns(w)
      PROVE  TypeOK'
  BY <1>5, RunType, TaskType DEF HostRuns, TypeOK, work, attempt
<1>6. ASSUME NEW w \in Worker, TimerFires(w)
      PROVE  TypeOK'
  BY <1>6 DEF TimerFires, TypeOK, tasks, work, attempt
<1>7. ASSUME NEW w \in Worker, StopsPolling(w)
      PROVE  TypeOK'
  BY <1>7, RunType, TaskType DEF StopsPolling, TypeOK, work, attempt
<1>8. ASSUME NEW w \in Worker, PollOnce(w)
      PROVE  TypeOK'
  <2>1. /\ handles' \in [Worker -> SUBSET Invocation]
        /\ untracked' \in [Worker -> SUBSET Invocation]
        /\ used' \in SUBSET Invocation
    BY <1>8, SubmitType DEF PollOnce
  <2>2. /\ task' \in [Background -> {"none", "created", "running", "ended"}]
        /\ poll' \in [Worker -> {"none", "delay", "woken", "over"}]
        /\ stop' \in SUBSET Worker
        /\ started' \in SUBSET Worker
    BY <1>8, RunType, TaskType DEF PollOnce, TypeOK
  <2>3. QED
    BY <1>8, <2>1, <2>2 DEF PollOnce, TypeOK, attempt
<1>9. ASSUME NEW w \in Worker, DispatchOne(w)
      PROVE  TypeOK'
  <2>1. /\ handles' \in [Worker -> SUBSET Invocation]
        /\ untracked' \in [Worker -> SUBSET Invocation]
        /\ used' \in SUBSET Invocation
    BY <1>9, SubmitType DEF DispatchOne
  <2>2. QED
    BY <1>9, <2>1 DEF DispatchOne, Finish, TypeOK, tasks, attempt
<1>10. ASSUME NEW i \in Invocation, InvocationReturns(i)
       PROVE  TypeOK'
  BY <1>10 DEF InvocationReturns, TypeOK, tasks, workers, attempt
<1>11. CASE UNCHANGED vars
  BY <1>11 DEF vars, TypeOK, tasks, workers, work, attempt
<1>12. QED
  BY <1>1, <1>2, <1>3, <1>4, <1>5, <1>6, <1>7, <1>8, <1>9, <1>10, <1>11
     DEF LoopStep

LEMMA LeaveType ==
    ASSUME TypeOK, NEW o \in Owner, NEW r \in Returned, Leave(o, r)
    PROVE  /\ call' \in [Owner -> {"idle"} \cup Busy \cup Returned]
           /\ lock' \in Owner \cup {NoOwner}
BY DEF TypeOK, Leave

LEMMA StatusType == Status \in Returned
BY DEF Status

LEMMA CountType ==
    ASSUME TypeOK, interrupts < MaxInterrupts, interrupts' = interrupts + 1
    PROVE  interrupts' \in 0 .. MaxInterrupts
BY OwnersAssumption DEF TypeOK

LEMMA CallType ==
    ASSUME TypeOK, NEW o \in Owner, CallStep(o)
    PROVE  TypeOK'
<1>1. CASE Call(o)
  BY <1>1 DEF Call, Requested, Pending, TypeOK, work, attempt
<1>2. CASE Acquire(o)
  BY <1>2, LeaveType, StatusType
     DEF Acquire, Pending, TypeOK, tasks, workers, work, attempt
<1>3. CASE JoinTasks(o)
  BY <1>3 DEF JoinTasks, TypeOK, tasks, workers, work, attempt
<1>4. ASSUME NEW w \in Worker, DrainWaits(o, w)
      PROVE  TypeOK'
  BY <1>4 DEF DrainWaits, TypeOK, tasks, workers, work
<1>5. ASSUME NEW w \in Worker, DrainReturns(o, w)
      PROVE  TypeOK'
  BY <1>5 DEF DrainReturns, TypeOK, tasks, workers, work
<1>6. CASE ClosePool(o)
  BY <1>6, LeaveType, StatusType
     DEF ClosePool, TypeOK, tasks, workers, work, attempt
<1>7. CASE CloseFails(o)
  BY <1>7, LeaveType, CountType
     DEF CloseFails, TypeOK, tasks, workers, work, attempt
<1>8. CASE Interrupt(o)
  BY <1>8, LeaveType, CountType
     DEF Interrupt, TypeOK, tasks, workers, work, attempt
<1>9. QED
  BY <1>1, <1>2, <1>3, <1>4, <1>5, <1>6, <1>7, <1>8
     DEF CallStep, ShutdownStep

LEMMA StepType == TypeOK /\ [Next]_vars => TypeOK'
<1>1. TypeOK /\ ReplacePool => TypeOK'
  BY CountType DEF ReplacePool, TypeOK, tasks, workers, work, attempt
<1>2. QED
  BY <1>1, StepKinds, LoopType, CallType

(* The state keeps its shape. *)
THEOREM TypeCorrect == Spec => []TypeOK
BY InitType, StepType, PTL DEF Spec
-----------------------------------------------------------------------------
(* What was stopped only gets less.                                         *)

(* A submission needs a worker that was not stopped, so no handle appears   *)
(* at one that was.                                                         *)
LEMMA StoppedHandlesShrink ==
    ASSUME TypeOK, [Next]_vars, NEW w \in Worker, w \in stop
    PROVE  /\ handles'[w] \subseteq handles[w]
           /\ untracked'[w] \subseteq untracked[w]
<1>1. CASE LoopStep
  <2>1. CASE \E v \in Worker : PollOnce(v)
    <3>1. PICK v \in Worker : PollOnce(v)
      BY <2>1
    <3>2. v # w
      BY <3>1 DEF PollOnce, MustStop
    <3>3. QED
      BY <3>1, <3>2
         DEF PollOnce, SubmitTracked, SubmitUntracked, TypeOK, work
  <2>2. CASE \E v \in Worker : DispatchOne(v)
    <3>1. PICK v \in Worker : DispatchOne(v)
      BY <2>2
    <3>2. UNCHANGED work \/ (v # w /\ SubmitTracked(v))
      BY <3>1 DEF DispatchOne, MayDispatch
    <3>3. QED
      BY <3>2 DEF SubmitTracked, TypeOK, work
  <2>3. CASE \E i \in Invocation : InvocationReturns(i)
    BY <2>3 DEF InvocationReturns, TypeOK
  <2>4. CASE UNCHANGED work
    BY <2>4 DEF work
  <2>5. QED
    BY <1>1, <2>1, <2>2, <2>3, <2>4
       DEF LoopStep, CreateTasks, BodyEnds, TaskStarts, CustomEnds, HostRuns,
           TimerFires, StopsPolling, vars
<1>2. CASE ReplacePool
  BY <1>2 DEF ReplacePool, work
<1>3. CASE \E o \in Owner : CallStep(o)
  BY <1>3, CallKeepsWork DEF work
<1>4. QED
  BY <1>1, <1>2, <1>3, StepKinds

(* From the moment a worker was told to stop it submits nothing more.       *)
THEOREM StoppedWorkersSubmitNothing == Spec => NothingSubmittedOnceStopped
<1>1. TypeOK /\ [Next]_vars => [StoppedSubmitNothing]_vars
  BY StoppedHandlesShrink DEF StoppedSubmitNothing
<1>2. QED
  BY <1>1, TypeCorrect, PTL DEF Spec, NothingSubmittedOnceStopped

(* A worker that begins to run after it was stopped ends at once. *)
LEMMA StoppedPollingShrinks ==
    ASSUME TypeOK, [Next]_vars, NEW w \in Worker, w \in stop, w \notin Polling
    PROVE  w \notin Polling'
<1> SUFFICES poll'[w] \notin {"delay", "woken"}
  BY DEF Polling
<1>0. poll[w] \notin {"delay", "woken"}
  BY DEF Polling
<1>1. CASE LoopStep
  <2>1. CASE \E t \in Background : TaskStarts(t)
    BY <1>0, <2>1 DEF TaskStarts, RunBegins, Finish, TypeOK, workers
  <2>2. CASE \E v \in Worker : HostRuns(v)
    BY <1>0, <2>2 DEF HostRuns, RunBegins, Finish, TypeOK
  <2>3. CASE \E v \in Worker : TimerFires(v)
    BY <1>0, <2>3 DEF TimerFires, TypeOK
  <2>4. CASE \E v \in Worker : PollOnce(v)
    BY <1>0, <2>4 DEF PollOnce, Finish, TypeOK
  <2>5. CASE \E v \in Worker : StopsPolling(v) \/ DispatchOne(v)
    BY <1>0, <2>5 DEF StopsPolling, DispatchOne, Finish, TypeOK
  <2>6. CASE UNCHANGED poll
    BY <1>0, <2>6
  <2>7. QED
    BY <1>1, <2>1, <2>2, <2>3, <2>4, <2>5, <2>6
       DEF LoopStep, CreateTasks, BodyEnds, CustomEnds, InvocationReturns,
           vars, workers
<1>2. CASE ReplacePool
  BY <1>0, <1>2 DEF ReplacePool, workers
<1>3. CASE \E o \in Owner : CallStep(o)
  BY <1>0, <1>3, CallKeepsWork
<1>4. QED
  BY <1>1, <1>2, <1>3, StepKinds

(* Once the stop was requested only late background tasks are added, and a  *)
(* task that was late remains so.                                           *)
LEMMA PendingShrinks ==
    ASSUME TypeOK, [Next]_vars, stopRequested
    PROVE  Pending' \subseteq Pending \cup late' /\ late \subseteq late'
<1>1. CASE LoopStep
  <2>1. CASE CreateTasks
    BY <2>1 DEF CreateTasks, Pending
  <2>2. CASE \E t \in Background : TaskStarts(t)
    BY <2>2 DEF TaskStarts, RunBegins, EndTask, TypeOK, Pending
  <2>3. CASE \E t \in Background : CustomEnds(t)
    BY <2>3 DEF CustomEnds, TypeOK, Pending
  <2>4. CASE \E w \in Worker : HostRuns(w)
    BY <2>4 DEF HostRuns, RunBegins, EndTask, TypeOK, Pending
  <2>5. CASE \E w \in Worker : StopsPolling(w) \/ PollOnce(w)
    BY <2>5 DEF StopsPolling, PollOnce, EndTask, TypeOK, Pending
  <2>6. CASE UNCHANGED <<late, task>>
    BY <2>6 DEF Pending
  <2>7. QED
    BY <1>1, <2>1, <2>2, <2>3, <2>4, <2>5, <2>6
       DEF LoopStep, BodyEnds, TimerFires, DispatchOne, InvocationReturns,
           vars, tasks
<1>2. CASE ReplacePool
  BY <1>2 DEF ReplacePool, tasks, Pending
<1>3. CASE \E o \in Owner : CallStep(o)
  BY <1>3, CallKeepsWork DEF Pending
<1>4. QED
  BY <1>1, <1>2, <1>3, StepKinds

(* No step takes a stop or a cancellation back. *)
LEMMA StopGrows ==
    ASSUME TypeOK, [Next]_vars
    PROVE  stop \subseteq stop' /\ cancelled \subseteq cancelled'
<1>1. CASE LoopStep
  BY <1>1 DEF LoopStep, CreateTasks, BodyEnds, TaskStarts, CustomEnds, HostRuns,
              TimerFires, StopsPolling, PollOnce, DispatchOne,
              InvocationReturns, RunBegins, Finish, vars, workers, tasks
<1>2. CASE ReplacePool
  BY <1>2 DEF ReplacePool, workers, tasks
<1>3. CASE \E o \in Owner : CallStep(o)
  BY <1>3 DEF CallStep, Call, ShutdownStep, Acquire, JoinTasks, DrainWaits,
              DrainReturns, ClosePool, CloseFails, Interrupt, TypeOK, workers,
              tasks
<1>4. QED
  BY <1>1, <1>2, <1>3, StepKinds

-----------------------------------------------------------------------------
(* The inductive invariant.                                                 *)

LEMMA InitInv == Init => ShutdownInv
BY OwnersAssumption
   DEF Init, ShutdownInv, StopIsTotal, LockIsHeld, HolderIsRight,
       JoinedBeforeDrained, PoolOutlivesWork, HistoriesAgree

(* Outside the calls only the pool can change, and only to another open one. *)
LEMMA OtherStep ==
    ASSUME LoopStep \/ ReplacePool
    PROVE  /\ UNCHANGED <<stopRequested, lock, call, attempt, closes, cancels>>
           /\ pool' = "closed" <=> pool = "closed"
BY LoopKeepsCalls DEF ReplacePool, tasks

LEMMA StepStopIsTotal ==
    ASSUME TypeOK, TypeOK', StopIsTotal, [Next]_vars
    PROVE  StopIsTotal'
<1>1. ASSUME stopRequested' = stopRequested,
             pool' = "closed" => stopRequested,
             \A o \in Owner : call'[o] \in Busy => stopRequested
      PROVE  StopIsTotal'
  BY <1>1, StopGrows, PendingShrinks DEF StopIsTotal, TypeOK
<1>2. CASE LoopStep \/ ReplacePool
  BY <1>1, <1>2, OtherStep DEF StopIsTotal
<1>3. ASSUME NEW o \in Owner, CallStep(o)
      PROVE  StopIsTotal'
  <2>1. CASE Call(o)
    <3>1. stopRequested' /\ stop' = Worker
      BY <2>1 DEF Call, Requested, StopIsTotal
    <3>2. Pending' \subseteq cancelled' \cup late'
      BY <2>1 DEF Call, StopIsTotal, Pending
    <3>3. QED
      BY <2>1, <3>1, <3>2 DEF Call, StopIsTotal
  <2>2. CASE ~Call(o)
    <3>1. call[o] \in Busy
      BY <1>3, <2>2 DEF CallStep, ShutdownStep, Acquire, JoinTasks, DrainWaits,
                        DrainReturns, ClosePool, CloseFails, Interrupt
    <3>2. stopRequested
      BY <3>1 DEF StopIsTotal
    <3>3. stopRequested' = stopRequested
      BY <1>3, <2>2 DEF CallStep, ShutdownStep, Acquire, JoinTasks, DrainWaits,
                        DrainReturns, ClosePool, CloseFails, Interrupt
    <3>4. QED
      BY <1>1, <3>2, <3>3
  <2>3. QED
    BY <2>1, <2>2
<1>4. QED
  BY <1>2, <1>3, StepKinds

LEMMA LeaveLock ==
    ASSUME TypeOK, LockIsHeld, NEW o \in Owner, NEW r \in Returned, Leave(o, r)
    PROVE  LockIsHeld'
BY OwnersAssumption DEF TypeOK, LockIsHeld, Leave

LEMMA StepLockIsHeld ==
    ASSUME TypeOK, LockIsHeld, [Next]_vars
    PROVE  LockIsHeld'
<1>1. CASE LoopStep \/ ReplacePool
  BY <1>1, OtherStep DEF LockIsHeld
<1>2. ASSUME NEW o \in Owner, CallStep(o)
      PROVE  LockIsHeld'
  <2>1. CASE Call(o)
    BY <2>1 DEF Call, MayCall, LockIsHeld, TypeOK
  <2>2. CASE Acquire(o)
    BY <2>2, LeaveLock, StatusType, OwnersAssumption
       DEF Acquire, LockFree, LockIsHeld, TypeOK
  <2>3. CASE JoinTasks(o)
    BY <2>3 DEF JoinTasks, LockIsHeld, TypeOK
  <2>4. CASE \E w \in Worker : DrainWaits(o, w) \/ DrainReturns(o, w)
    BY <2>4 DEF DrainWaits, DrainReturns, LockIsHeld
  <2>5. CASE ClosePool(o) \/ CloseFails(o) \/ Interrupt(o)
    BY <2>5, LeaveLock, StatusType DEF ClosePool, CloseFails, Interrupt
  <2>6. QED
    BY <1>2, <2>1, <2>2, <2>3, <2>4, <2>5 DEF CallStep, ShutdownStep
<1>3. QED
  BY <1>1, <1>2, StepKinds

(* The holder of the lock was told to stop, so what it saw keeps holding.   *)
LEMMA HolderStopped ==
    ASSUME TypeOK, StopIsTotal, LockIsHeld, lock # NoOwner
    PROVE  stop = Worker /\ stopRequested
BY DEF TypeOK, StopIsTotal, LockIsHeld

LEMMA DrainStays ==
    ASSUME TypeOK, [Next]_vars, stop = Worker, NEW w \in Worker,
           DrainHolds(w), drain'[w] = drain[w]
    PROVE  DrainHolds(w)'
BY StoppedHandlesShrink, StoppedPollingShrinks DEF DrainHolds

LEMMA HolderStays ==
    ASSUME TypeOK, StopIsTotal, LockIsHeld, HolderIsRight, [Next]_vars,
           lock' # NoOwner, UNCHANGED <<lock, awaited, drain>>,
           pool' = "closed" => pool = "closed"
    PROVE  HolderIsRight'
BY HolderStopped, DrainStays, PendingShrinks DEF HolderIsRight
LEMMA StepHolderIsRight ==
    ASSUME TypeOK, StopIsTotal, LockIsHeld, HolderIsRight, [Next]_vars
    PROVE  HolderIsRight'
<1>1. CASE LoopStep \/ ReplacePool
  <2>1. CASE lock' = NoOwner
    BY <2>1 DEF HolderIsRight
  <2>2. CASE lock' # NoOwner
    BY <1>1, <2>2, OtherStep, HolderStays DEF attempt
  <2>3. QED
    BY <2>1, <2>2
<1>2. ASSUME NEW o \in Owner, CallStep(o)
      PROVE  HolderIsRight'
  <2>1. CASE Call(o) \/ JoinTasks(o)
    <3>1. UNCHANGED <<lock, awaited, drain, pool>>
      BY <2>1 DEF Call, JoinTasks, attempt
    <3>2. QED
      BY <3>1, HolderStays DEF HolderIsRight
  <2>2. CASE Acquire(o)
    BY <2>2, CallKeepsWork, <1>2
       DEF Acquire, LockFree, Leave, HolderIsRight, DrainHolds, Pending
  <2>3. ASSUME NEW w \in Worker, DrainWaits(o, w) \/ DrainReturns(o, w)
        PROVE  HolderIsRight'
    <3>1. lock = o /\ lock # NoOwner
      BY <2>3, OwnersAssumption DEF DrainWaits, DrainReturns, LockIsHeld
    <3>2. pool' # "closed" /\ Pending' \subseteq awaited' \cup late'
      BY <2>3, <3>1, HolderStopped, PendingShrinks
         DEF DrainWaits, DrainReturns, HolderIsRight
    <3>3. DrainHolds(w)'
      BY <2>3, <3>1, TypeOK
         DEF DrainWaits, DrainReturns, PollingStopped, ExecutorJoined,
             HolderIsRight, DrainHolds, TypeOK, Polling, workers, work
    <3>4. ASSUME NEW v \in Worker, v # w
          PROVE  DrainHolds(v)'
      <4>1. drain'[v] = drain[v]
        BY <2>3, <3>4 DEF DrainWaits, DrainReturns, TypeOK
      <4>2. QED
        BY <3>1, <4>1, HolderStopped, DrainStays DEF HolderIsRight
    <3>5. QED
      BY <3>2, <3>3, <3>4 DEF HolderIsRight
  <2>4. CASE ClosePool(o) \/ CloseFails(o) \/ Interrupt(o)
    <3>1. CASE lock' = NoOwner
      BY <3>1 DEF HolderIsRight
    <3>2. CASE lock' # NoOwner
      (* An interrupted call that was waiting for the lock. *)
      <4>1. lock' = lock /\ lock # o
        BY <2>4, <3>2 DEF ClosePool, CloseFails, Interrupt, Leave
      <4>2. call[o] # "draining"
        BY <4>1 DEF LockIsHeld
      <4>3. QED
        BY <2>4, <3>2, <4>1, <4>2, HolderStays
           DEF ClosePool, CloseFails, Interrupt, attempt
    <3>3. QED
      BY <3>1, <3>2
  <2>5. QED
    BY <1>2, <2>1, <2>2, <2>3, <2>4 DEF CallStep, ShutdownStep
<1>3. QED
  BY <1>1, <1>2, StepKinds

LEMMA StepJoinedBeforeDrained ==
    ASSUME TypeOK, StopIsTotal, LockIsHeld, HolderIsRight, JoinedBeforeDrained,
           [Next]_vars
    PROVE  JoinedBeforeDrained'
<1> SUFFICES ASSUME NEW o \in Owner, call'[o] = "draining"
             PROVE  Pending' \subseteq late'
  BY DEF JoinedBeforeDrained
<1>1. CASE call[o] = "draining"
  <2>1. stopRequested
    BY <1>1 DEF StopIsTotal
  <2>2. QED
    BY <1>1, <2>1, PendingShrinks DEF JoinedBeforeDrained
<1>2. CASE call[o] # "draining"
  <2>1. JoinTasks(o)
    <3>1. ~LoopStep /\ ~ReplacePool
      BY <1>2, OtherStep
    <3>2. PICK c \in Owner : CallStep(c)
      BY <3>1, StepKinds
    <3>3. c = o
      BY <1>2, <3>2 DEF CallStep, Call, ShutdownStep, Acquire, JoinTasks,
                        DrainWaits, DrainReturns, ClosePool, CloseFails,
                        Interrupt, Leave, TypeOK
    <3>4. QED
      BY <1>2, <3>2, <3>3, StatusType
         DEF CallStep, Call, ShutdownStep, Acquire, DrainWaits, DrainReturns,
             ClosePool, CloseFails, Interrupt, Leave, TypeOK
  <2>2. Pending \subseteq awaited \cup late
    BY <2>1, OwnersAssumption DEF JoinTasks, LockIsHeld, HolderIsRight
  <2>3. Pending \subseteq late /\ UNCHANGED <<Pending, late>>
    BY <2>1, <2>2 DEF JoinTasks, tasks, Pending
  <2>4. QED
    BY <2>3
<1>3. QED
  BY <1>1, <1>2

(* The pool is closed by a call that joined the tasks and has drained every *)
(* worker, and afterwards the work can only get less.                       *)
LEMMA StepPoolOutlivesWork ==
    ASSUME TypeOK, ShutdownInv, [Next]_vars
    PROVE  PoolOutlivesWork'
<1> SUFFICES ASSUME pool' = "closed"
             PROVE  /\ Pending' \subseteq late'
                    /\ Polling' = {} /\ InFlight' = {}
  BY DEF PoolOutlivesWork
<1>1. stopRequested => stop = Worker
  BY DEF ShutdownInv, StopIsTotal
<1>2. /\ stopRequested /\ Pending \subseteq late
      /\ Polling = {} /\ InFlight = {}
  <2>1. CASE pool = "closed"
    BY <2>1 DEF ShutdownInv, StopIsTotal, PoolOutlivesWork
  <2>2. CASE pool # "closed"
    <3>1. PICK o \in Owner : ClosePool(o)
      BY <2>2, OtherStep, StepKinds
         DEF CallStep, Call, ShutdownStep, Acquire, JoinTasks, DrainWaits,
             DrainReturns, CloseFails, Interrupt
    <3>2. call[o] = "draining" /\ lock = o /\ lock # NoOwner
      BY <3>1, OwnersAssumption DEF ClosePool, ShutdownInv, LockIsHeld
    <3>3. stopRequested /\ Pending \subseteq late
      BY <3>2 DEF ShutdownInv, StopIsTotal, JoinedBeforeDrained
    <3>4. \A w \in Worker : drain[w] = "done"
      BY <2>2, <3>1 DEF ClosePool, Drained
    <3>5. \A w \in Worker : /\ w \notin Polling
                            /\ handles[w] = {} /\ untracked[w] = {}
      BY <3>2, <3>4 DEF ShutdownInv, HolderIsRight, DrainHolds
    <3>6. QED
      BY <3>3, <3>5 DEF Polling, InFlight
  <2>3. QED
    BY <2>1, <2>2
<1>3. Pending' \subseteq late'
  BY <1>2, PendingShrinks
<1>4. Polling' = {}
  <2>1. \A w \in Worker : w \notin Polling'
    BY <1>1, <1>2, StoppedPollingShrinks
  <2>2. QED
    BY <2>1 DEF Polling
<1>5. InFlight' = {}
  <2>1. \A w \in Worker : handles[w] = {} /\ untracked[w] = {}
    BY <1>2 DEF InFlight
  <2>2. \A w \in Worker : handles'[w] = {} /\ untracked'[w] = {}
    BY <1>1, <1>2, <2>1, StoppedHandlesShrink
  <2>3. QED
    BY <2>2 DEF InFlight
<1>6. QED
  BY <1>3, <1>4, <1>5

LEMMA StepHistoriesAgree ==
    ASSUME TypeOK, StopIsTotal, LockIsHeld, HolderIsRight, HistoriesAgree,
           [Next]_vars
    PROVE  HistoriesAgree'
<1>1. CASE LoopStep \/ ReplacePool
  BY <1>1, OtherStep DEF HistoriesAgree
<1>2. ASSUME NEW o \in Owner, CallStep(o)
      PROVE  HistoriesAgree'
  <2>1. CASE Call(o)
    BY <2>1 DEF Call, Requested, HistoriesAgree, TypeOK
  <2>2. CASE ClosePool(o)
    <3>1. pool # "closed"
      BY <2>2, OwnersAssumption DEF ClosePool, LockIsHeld, HolderIsRight
    <3>2. UNCHANGED <<cancels, stopRequested>>
      BY <2>2 DEF ClosePool, tasks
    <3>3. closes' = IF pool' = "closed" THEN 1 ELSE 0
      BY <2>2, <3>1 DEF ClosePool, HistoriesAgree
    <3>4. QED
      BY <3>2, <3>3 DEF HistoriesAgree
  <2>3. CASE ~Call(o) /\ ~ClosePool(o)
    <3>1. UNCHANGED <<pool, closes, cancels, stopRequested>>
      BY <1>2, <2>3
         DEF CallStep, ShutdownStep, Acquire, JoinTasks, DrainWaits,
             DrainReturns, CloseFails, Interrupt, tasks
    <3>2. QED
      BY <3>1 DEF HistoriesAgree
  <2>4. QED
    BY <2>1, <2>2, <2>3
<1>3. QED
  BY <1>1, <1>2, StepKinds

LEMMA StepInv == TypeOK /\ ShutdownInv /\ [Next]_vars => ShutdownInv'
<1> SUFFICES ASSUME TypeOK, ShutdownInv, [Next]_vars
             PROVE  ShutdownInv'
  OBVIOUS
<1>1. TypeOK'
  BY StepType
<1>2. PoolOutlivesWork'
  BY StepPoolOutlivesWork
<1>3. QED
  BY <1>1, <1>2, StepStopIsTotal, StepLockIsHeld, StepHolderIsRight,
     StepJoinedBeforeDrained, StepHistoriesAgree
     DEF ShutdownInv

(* No call acts on what it saw before it was interrupted or overtaken.      *)
THEOREM ShutdownIsOrderly == Spec => []ShutdownInv
<1>1. QED
  BY InitInv, StepInv, TypeCorrect, PTL DEF Spec

(* The pool is closed after everything that could use it, but the tasks     *)
(* that startup created after the stop.                                     *)
THEOREM PoolIsClosedLast == Spec => []PoolOutlivesWork
<1>1. ShutdownInv => PoolOutlivesWork
  BY DEF ShutdownInv
<1>2. QED
  BY <1>1, ShutdownIsOrderly, PTL

(* The pool is closed once. *)
THEOREM PoolIsClosedOnce == Spec => []PoolClosedOnce
<1>1. ShutdownInv => PoolClosedOnce
  BY DEF ShutdownInv, HistoriesAgree, PoolClosedOnce
<1>2. QED
  BY <1>1, ShutdownIsOrderly, PTL

(* A task is cancelled once, however often shutdown is called.              *)
THEOREM TasksAreCancelledOnce == Spec => []TasksCancelledOnce
<1>1. TypeOK /\ ShutdownInv => TasksCancelledOnce
  BY DEF ShutdownInv, HistoriesAgree, TypeOK, TasksCancelledOnce
<1>2. QED
  BY <1>1, TypeCorrect, ShutdownIsOrderly, PTL
=============================================================================
