------------------------ MODULE QueueDispatch_proofs ------------------------
(***************************************************************************)
(* Theorems about QueueDispatch for any number of workers, messages and     *)
(* failures.                                                                *)
(***************************************************************************)
EXTENDS QueueDispatch, FiniteSetTheorems, TLAPS

-----------------------------------------------------------------------------
(* What the building blocks of the actions do to the types.                 *)

LEMMA DispositionType ==
    ASSUME TypeOK, NEW m \in Msg, Disposed(m) \/ RolledBack
    PROVE  /\ mq' \in [Msg -> RowStates]
           /\ older' \in SUBSET (Recurring \X Recurring)
<1>1. CASE Disposed(m)
  <2>1. mq' \in [Msg -> RowStates]
    BY <1>1 DEF Disposed, Disposition, TypeOK, RowStates
  <2>2. older' \subseteq older
    BY <1>1 DEF Disposed
  <2>3. QED
    BY <2>1, <2>2 DEF TypeOK
<1>2. CASE RolledBack
  BY <1>2 DEF RolledBack, rows, TypeOK
<1>3. QED
  BY <1>1, <1>2

LEMMA ReleaseType ==
    ASSUME TypeOK, NEW w \in Worker, NEW next \in {"idle", "stopped", "down"},
           Release(w, next)
    PROVE  /\ pc' \in [Worker -> PCs]
           /\ claim' \in [Worker -> Msg \cup {NoMsg}]
           /\ ClaimsAreHeld => ClaimsAreHeld'
BY DEF Release, TypeOK, PCs, ClaimsAreHeld, InTransaction, AfterCommit

LEMMA RaiseType ==
    ASSUME TypeOK, NEW w \in Worker, NEW phase \in Phases, claim[w] \in Msg,
           Raise(w, phase)
    PROVE  /\ \E next \in {"idle", "stopped", "down"} : Release(w, next)
           /\ reports' \in SUBSET Reports
BY DEF Raise, AfterReport, AfterDispatch, TypeOK, Reports

LEMMA InvokeType ==
    ASSUME TypeOK, NEW w \in Worker, NEW m \in Msg, Invoke(w, m)
    PROVE  /\ active' \in [Worker -> [Msg -> Nat]]
           /\ submitted' \in [OneShot -> Nat]
           /\ credit' \in [Recurring -> Int]
<1>1. active' \in [Worker -> [Msg -> Nat]]
  BY DEF Invoke, TypeOK
<1>2. submitted' \in [OneShot -> Nat] /\ credit' \in [Recurring -> Int]
  BY DEF Invoke, TypeOK, Msg
<1>3. QED
  BY <1>1, <1>2

LEMMA FaultType ==
    ASSUME TypeOK, Fault PROVE faults' \in 0 .. MaxFaults
BY BoundsAssumption DEF TypeOK, Fault

-----------------------------------------------------------------------------
(* Type correctness rests on a worker never naming "no message" in an error *)
(* or handing it to the executor: ClaimsAreHeld is part of the induction.   *)

TypeInv == TypeOK /\ ClaimsAreHeld

LEMMA InitType == Init => TypeInv
BY MessagesAssumption, BoundsAssumption
   DEF Init, TypeInv, TypeOK, ClaimsAreHeld, Msg, RowStates, PCs, Reports,
       InTransaction, AfterCommit

LEMMA ClockType ==
    ASSUME TypeInv, NEW m \in Msg,
           \/ Enqueue(m) \/ OneShotDue(m)
           \/ EnsureRecurring(m) \/ RecurringDue(m)
    PROVE  TypeInv'
<1> USE DEF TypeInv, TypeOK
<1>1. ClaimsAreHeld'
  BY DEF Enqueue, OneShotDue, EnsureRecurring, RecurringDue, ClaimsAreHeld
<1>2. CASE Enqueue(m) \/ OneShotDue(m) \/ EnsureRecurring(m)
  BY <1>1, <1>2
     DEF Enqueue, OneShotDue, EnsureRecurring, RowStates, executor, records
<1>3. CASE RecurringDue(m)
  <2>1. DueRecurring \X {m} \subseteq Recurring \X Recurring
    BY <1>3 DEF DueRecurring, RecurringDue
  <2>2. older' \in SUBSET (Recurring \X Recurring)
    BY <1>3, <2>1 DEF RecurringDue
  <2>3. mq' \in [Msg -> RowStates] /\ credit' \in [Recurring -> Int]
    BY <1>3 DEF RecurringDue, RowStates
  <2>4. QED
    BY <1>1, <1>3, <2>2, <2>3 DEF RecurringDue, records
<1>4. QED
  BY <1>2, <1>3

LEMMA DispatchType ==
    ASSUME TypeInv, NEW w \in Worker, Dispatch(w) PROVE TypeInv'
<1> USE DEF TypeInv, TypeOK, rows, executor, records
<1>1. ASSUME NEW m \in Msg, Hold(w, m) PROVE TypeInv'
  BY <1>1 DEF Hold, PCs, ClaimsAreHeld, InTransaction, AfterCommit
<1>2. CASE ClaimRecurring(w) \/ ClaimOneShot(w)
  BY <1>1, <1>2 DEF ClaimRecurring, ClaimOneShot, ClaimableOneShot, Msg
<1>3. CASE FindNothing(w) \/ Prepare(w) \/ ReturnConnection(w)
  BY <1>3 DEF FindNothing, Prepare, ReturnConnection, PCs, ClaimsAreHeld,
              InTransaction, AfterCommit
<1>4. CASE Refuse(w)
  <2>1. claim[w] \in Msg
    BY <1>4 DEF Refuse, ClaimsAreHeld, InTransaction
  <2>2. QED
    BY <1>4, <2>1, DispositionType, ReleaseType DEF Refuse, AfterDispatch
<1>5. CASE CommitSucceeds(w)
  <2>1. claim[w] \in Msg
    BY <1>5 DEF CommitSucceeds, ClaimsAreHeld, InTransaction
  <2>2. pc' \in [Worker -> PCs] /\ ClaimsAreHeld'
    BY <1>5, <2>1
       DEF CommitSucceeds, PCs, ClaimsAreHeld, InTransaction, AfterCommit
  <2>3. QED
    BY <1>5, <2>1, <2>2, DispositionType DEF CommitSucceeds
<1>6. CASE Submit(w)
  <2>1. claim[w] \in Msg
    BY <1>6 DEF Submit, ClaimsAreHeld, AfterCommit
  <2>2. QED
    BY <1>6, <2>1, InvokeType, ReleaseType DEF Submit, AfterDispatch
<1>7. QED
  BY <1>2, <1>3, <1>4, <1>5, <1>6 DEF Dispatch

LEMMA FailureType ==
    ASSUME TypeInv, NEW w \in Worker, Failure(w) PROVE TypeInv'
<1> USE DEF TypeInv, TypeOK, rows, executor, records
<1>1. CASE StatementFails(w)
  <2>1. claim[w] \in Msg
    BY <1>1 DEF StatementFails, ClaimsAreHeld, InTransaction
  <2>2. QED
    BY <1>1, <2>1, DispositionType, ReleaseType, FaultType
       DEF StatementFails, AfterDispatch
<1>2. CASE CommitFails(w)
  <2>1. claim[w] \in Msg
    BY <1>2 DEF CommitFails, ClaimsAreHeld, InTransaction
  <2>2. PICK phase \in Phases :
           /\ Disposed(claim[w]) \/ RolledBack
           /\ Raise(w, phase)
    BY <1>2 DEF CommitFails
  <2>3. QED
    BY <1>2, <2>1, <2>2, DispositionType, RaiseType, ReleaseType, FaultType
       DEF CommitFails
<1>3. CASE CleanupFails(w)
  <2>1. claim[w] \in Msg
    BY <1>3 DEF CleanupFails, ClaimsAreHeld, AfterCommit
  <2>2. QED
    BY <1>3, <2>1, RaiseType, ReleaseType, FaultType DEF CleanupFails, Phases
<1>4. CASE SubmitFails(w)
  <2>1. claim[w] \in Msg
    BY <1>4 DEF SubmitFails, ClaimsAreHeld, AfterCommit
  <2>2. /\ active' \in [Worker -> [Msg -> Nat]]
        /\ submitted' \in [OneShot -> Nat]
        /\ credit' \in [Recurring -> Int]
    BY <1>4, <2>1, InvokeType DEF SubmitFails
  <2>3. QED
    BY <1>4, <2>1, <2>2, RaiseType, ReleaseType, FaultType DEF SubmitFails, Phases
<1>5. CASE Crash(w)
  <2>1. /\ mq' \in [Msg -> RowStates]
        /\ older' \in SUBSET (Recurring \X Recurring)
    <3>1. CASE RolledBack
      BY <3>1 DEF RolledBack
    <3>2. CASE pc[w] = "prepared" /\ Disposed(claim[w])
      BY <3>2, DispositionType DEF ClaimsAreHeld, InTransaction
    <3>3. QED
      BY <1>5, <3>1, <3>2 DEF Crash
  <2>2. orphaned' \in SUBSET OneShot
    BY <1>5 DEF Crash
  <2>3. active' \in [Worker -> [Msg -> Nat]]
    BY <1>5 DEF Crash
  <2>4. QED
    BY <1>5, <2>1, <2>2, <2>3, ReleaseType, FaultType DEF Crash
<1>6. QED
  BY <1>1, <1>2, <1>3, <1>4, <1>5 DEF Failure

LEMMA StepType == TypeInv /\ [Next]_vars => TypeInv'
<1> SUFFICES ASSUME TypeInv, [Next]_vars PROVE TypeInv'
  OBVIOUS
<1> USE DEF TypeInv, TypeOK, rows, executor, records
<1>1. ASSUME NEW w \in Worker, StopPolling(w) \/ Restart(w) PROVE TypeInv'
  BY <1>1 DEF StopPolling, Restart, PCs, ClaimsAreHeld, InTransaction, AfterCommit
<1>2. ASSUME NEW w \in Worker, NEW m \in Msg, HandlerReturns(w, m) PROVE TypeInv'
  BY <1>2 DEF HandlerReturns, HasInvocation, ClaimsAreHeld
<1>3. CASE UNCHANGED vars
  BY <1>3 DEF vars, ClaimsAreHeld
<1>4. QED
  BY <1>1, <1>2, <1>3, ClockType, DispatchType, FailureType DEF Next, Msg

(* Every reachable state is well typed: every QueueDispatchError names a    *)
(* message, and no executor runs fewer than no invocations.                 *)
THEOREM TypeCorrect == Spec => []TypeOK
<1>1. Spec => []TypeInv
  BY InitType, StepType, PTL DEF Spec
<1>2. TypeInv => TypeOK
  BY DEF TypeInv
<1>3. QED
  BY <1>1, <1>2, PTL

-----------------------------------------------------------------------------
(* Exclusive ownership of a one-shot from claim to hand-over.               *)

USE DEF InTransaction, AfterCommit

LEMMA InitDispatch == Init => DispatchInv
BY DEF Init, DispatchInv, ClaimsAreHeld, LocksAreExclusive, TakenIsGone,
       AtMostOnce, DeletedBeforeRun

(* Rolling back and letting go of the message. *)
LEMMA LetGo ==
    ASSUME TypeInv, DispatchInv, NEW w \in Worker,
           NEW next \in {"idle", "stopped", "down"}, Release(w, next),
           RolledBack, UNCHANGED submitted
    PROVE  DispatchInv'
<1> USE DEF TypeInv, TypeOK, DispatchInv, RolledBack, rows, Release
<1>1. ClaimsAreHeld'
  BY DEF ClaimsAreHeld
<1>2. LocksAreExclusive'
  BY DEF LocksAreExclusive
<1>3. TakenIsGone'
  BY DEF TakenIsGone
<1>4. AtMostOnce' /\ DeletedBeforeRun'
  BY DEF AtMostOnce, DeletedBeforeRun
<1>5. QED
  BY <1>1, <1>2, <1>3, <1>4

(* A commit by the one transaction that has the row locked. *)
LEMMA DisposedKeeps ==
    ASSUME TypeInv, DispatchInv, NEW w \in Worker, pc[w] = "prepared",
           Disposed(claim[w]), UNCHANGED submitted
    PROVE  /\ AtMostOnce' /\ DeletedBeforeRun'
           /\ claim[w] \in Msg
           /\ \A v \in Worker \ {w} :
                 /\ pc[v] \in InTransaction => mq'[claim[v]] = "due"
                 /\ pc[v] \in AfterCommit /\ claim[v] \in OneShot =>
                       mq'[claim[v]] = "gone" /\ claim[v] # claim[w]
           /\ claim[w] \in OneShot =>
                 mq'[claim[w]] = "gone" /\ submitted[claim[w]] = 0
<1> USE DEF TypeInv, TypeOK, DispatchInv
<1>1. claim[w] \in Msg /\ mq[claim[w]] = "due"
  BY DEF ClaimsAreHeld, LocksAreExclusive
<1>2. mq' = [mq EXCEPT ![claim[w]] = Disposition(claim[w])]
  BY DEF Disposed
<1>3. ASSUME NEW v \in Worker \ {w}, pc[v] \in InTransaction
      PROVE  mq'[claim[v]] = "due"
  BY <1>1, <1>2, <1>3 DEF LocksAreExclusive, ClaimsAreHeld
<1>4. ASSUME NEW v \in Worker, pc[v] \in AfterCommit, claim[v] \in OneShot
      PROVE  mq'[claim[v]] = "gone" /\ claim[v] # claim[w]
  BY <1>1, <1>2, <1>4 DEF TakenIsGone, Msg
<1>5. claim[w] \in OneShot =>
          mq'[claim[w]] = "gone" /\ submitted[claim[w]] = 0
  BY <1>1, <1>2, MessagesAssumption
     DEF Disposition, DeletedBeforeRun, Msg
<1>6. AtMostOnce' /\ DeletedBeforeRun'
  BY <1>1, <1>2 DEF AtMostOnce, DeletedBeforeRun, Msg
<1>7. QED
  BY <1>1, <1>3, <1>4, <1>5, <1>6

(* An uncertain or interrupted commit that did take place. *)
LEMMA LetGoDisposed ==
    ASSUME TypeInv, DispatchInv, NEW w \in Worker, pc[w] = "prepared",
           NEW next \in {"idle", "stopped", "down"}, Release(w, next),
           Disposed(claim[w]), UNCHANGED submitted
    PROVE  DispatchInv'
<1> USE DEF TypeInv, TypeOK, DispatchInv, Release
<1>1. ClaimsAreHeld'
  BY DEF ClaimsAreHeld
<1>2. LocksAreExclusive' /\ TakenIsGone'
  BY DisposedKeeps DEF LocksAreExclusive, TakenIsGone
<1>3. QED
  BY <1>1, <1>2, DisposedKeeps

(* Handing the message to the executor and letting go of it. *)
LEMMA LetGoInvoked ==
    ASSUME TypeInv, DispatchInv, NEW w \in Worker, pc[w] = "released",
           NEW next \in {"idle", "stopped", "down"}, Release(w, next),
           Invoke(w, claim[w]), UNCHANGED mq
    PROVE  DispatchInv'
<1> USE DEF TypeInv, TypeOK, DispatchInv, Release
<1>1. ClaimsAreHeld'
  BY DEF ClaimsAreHeld
<1>2. LocksAreExclusive'
  BY DEF LocksAreExclusive
<1>3. CASE claim[w] \in Recurring
  <2>1. UNCHANGED submitted
    BY <1>3 DEF Invoke
  <2>2. TakenIsGone' /\ AtMostOnce' /\ DeletedBeforeRun'
    BY <2>1 DEF TakenIsGone, AtMostOnce, DeletedBeforeRun
  <2>3. QED
    BY <1>1, <1>2, <2>2
<1>4. CASE claim[w] \in OneShot
  <2>1. submitted' = [submitted EXCEPT ![claim[w]] = @ + 1]
    BY <1>4, MessagesAssumption DEF Invoke
  <2>2. mq[claim[w]] = "gone" /\ submitted[claim[w]] = 0
    BY <1>4 DEF TakenIsGone
  <2>3. TakenIsGone'
    BY <1>4, <2>1, <2>2 DEF TakenIsGone
  <2>4. AtMostOnce' /\ DeletedBeforeRun'
    BY <1>4, <2>1, <2>2 DEF AtMostOnce, DeletedBeforeRun
  <2>5. QED
    BY <1>1, <1>2, <2>3, <2>4
<1>5. QED
  BY <1>3, <1>4 DEF ClaimsAreHeld, Msg

LEMMA ClockDispatch ==
    ASSUME TypeInv, DispatchInv, NEW m \in Msg,
           \/ Enqueue(m) \/ OneShotDue(m)
           \/ EnsureRecurring(m) \/ RecurringDue(m)
    PROVE  DispatchInv'
<1> USE DEF TypeInv, TypeOK, DispatchInv
<1>1. /\ mq[m] \notin {"due", "gone"}
      /\ \A n \in Msg \ {m} : mq'[n] = mq[n]
      /\ UNCHANGED <<pc, claim, submitted>>
  BY DEF Enqueue, OneShotDue, EnsureRecurring, RecurringDue, executor
<1>2. ClaimsAreHeld'
  BY <1>1 DEF ClaimsAreHeld
<1>3. LocksAreExclusive'
  BY <1>1 DEF LocksAreExclusive, ClaimsAreHeld
<1>4. TakenIsGone' /\ AtMostOnce' /\ DeletedBeforeRun'
  BY <1>1 DEF TakenIsGone, AtMostOnce, DeletedBeforeRun, Msg
<1>5. QED
  BY <1>2, <1>3, <1>4

LEMMA WorkerDispatch ==
    ASSUME TypeInv, DispatchInv, NEW w \in Worker, Dispatch(w)
    PROVE  DispatchInv'
<1> USE DEF TypeInv, TypeOK, DispatchInv, rows, executor, records
<1>1. ASSUME NEW m \in Msg, Claimable(w, m), Hold(w, m) PROVE DispatchInv'
  <2>1. ClaimsAreHeld' /\ TakenIsGone' /\ AtMostOnce' /\ DeletedBeforeRun'
    BY <1>1 DEF Hold, ClaimsAreHeld, TakenIsGone, AtMostOnce, DeletedBeforeRun
  <2>2. LocksAreExclusive'
    BY <1>1 DEF Hold, Claimable, Locked, LocksAreExclusive
  <2>3. QED
    BY <2>1, <2>2
<1>2. CASE ClaimRecurring(w) \/ ClaimOneShot(w)
  BY <1>1, <1>2 DEF ClaimRecurring, EarliestOf, ClaimableRecurring,
                    ClaimOneShot, ClaimableOneShot, Msg
<1>3. CASE FindNothing(w) \/ Prepare(w) \/ ReturnConnection(w)
  <2>1. ClaimsAreHeld'
    BY <1>3 DEF FindNothing, Prepare, ReturnConnection, ClaimsAreHeld
  <2>2. LocksAreExclusive'
    BY <1>3 DEF FindNothing, Prepare, ReturnConnection, LocksAreExclusive
  <2>3. TakenIsGone' /\ AtMostOnce' /\ DeletedBeforeRun'
    BY <1>3 DEF FindNothing, Prepare, ReturnConnection, TakenIsGone,
                AtMostOnce, DeletedBeforeRun
  <2>4. QED
    BY <2>1, <2>2, <2>3
<1>4. CASE Refuse(w)
  BY <1>4, LetGo DEF Refuse, AfterDispatch
<1>5. CASE CommitSucceeds(w)
  <2>1. ClaimsAreHeld'
    BY <1>5 DEF CommitSucceeds, ClaimsAreHeld
  <2>2. LocksAreExclusive' /\ TakenIsGone'
    BY <1>5, DisposedKeeps DEF CommitSucceeds, LocksAreExclusive, TakenIsGone
  <2>3. QED
    BY <1>5, <2>1, <2>2, DisposedKeeps DEF CommitSucceeds
<1>6. CASE Submit(w)
  BY <1>6, LetGoInvoked DEF Submit, AfterDispatch
<1>7. QED
  BY <1>2, <1>3, <1>4, <1>5, <1>6 DEF Dispatch

LEMMA FailureDispatch ==
    ASSUME TypeInv, DispatchInv, NEW w \in Worker, Failure(w)
    PROVE  DispatchInv'
<1> USE DEF rows, executor
<1>1. CASE StatementFails(w)
  BY <1>1, LetGo DEF StatementFails, AfterDispatch
<1>2. CASE CommitFails(w)
  <2>1. PICK next \in {"idle", "stopped", "down"} : Release(w, next)
    BY <1>2 DEF CommitFails, Raise, AfterReport, AfterDispatch
  <2>2. QED
    BY <1>2, <2>1, LetGo, LetGoDisposed DEF CommitFails
<1>3. CASE CleanupFails(w)
  BY <1>3, LetGo
     DEF CleanupFails, Raise, AfterReport, AfterDispatch, RolledBack
<1>4. CASE SubmitFails(w)
  <2>1. Release(w, "stopped")
    BY <1>4 DEF SubmitFails, Raise, AfterReport
  <2>2. QED
    BY <1>4, <2>1, LetGo, LetGoInvoked DEF SubmitFails, RolledBack
<1>5. CASE Crash(w)
  BY <1>5, LetGo, LetGoDisposed DEF Crash
<1>6. QED
  BY <1>1, <1>2, <1>3, <1>4, <1>5 DEF Failure

LEMMA StepDispatch ==
    TypeInv /\ DispatchInv /\ [Next]_vars => DispatchInv'
<1> SUFFICES ASSUME TypeInv, DispatchInv, [Next]_vars PROVE DispatchInv'
  OBVIOUS
<1> USE DEF TypeInv, TypeOK, rows, executor, records
<1>1. ASSUME NEW w \in Worker, StopPolling(w) \/ Restart(w) PROVE DispatchInv'
  <2> USE <1>1 DEF StopPolling, Restart, DispatchInv
  <2>1. ClaimsAreHeld'
    BY DEF ClaimsAreHeld
  <2>2. LocksAreExclusive'
    BY DEF LocksAreExclusive
  <2>3. TakenIsGone' /\ AtMostOnce' /\ DeletedBeforeRun'
    BY DEF TakenIsGone, AtMostOnce, DeletedBeforeRun
  <2>4. QED
    BY <2>1, <2>2, <2>3
<1>2. CASE \/ \E w \in Worker, m \in Msg : HandlerReturns(w, m)
           \/ UNCHANGED vars
  BY <1>2 DEF HandlerReturns, vars, DispatchInv, ClaimsAreHeld,
              LocksAreExclusive, TakenIsGone, AtMostOnce, DeletedBeforeRun
<1>3. QED
  BY <1>1, <1>2, ClockDispatch, WorkerDispatch, FailureDispatch DEF Next, Msg

(* No message is ever owned by two workers, whatever they, the database and *)
(* the processes do: the invariant the next two theorems follow from.       *)
THEOREM DispatchInvariant == Spec => [](TypeInv /\ DispatchInv)
BY InitType, StepType, InitDispatch, StepDispatch, PTL DEF Spec

(* Claiming under SKIP LOCKED, deleting, committing and only then           *)
(* submitting hands every one-shot to an executor at most once.             *)
THEOREM AtMostOnceHolds == Spec => []AtMostOnce
<1>1. DispatchInv => AtMostOnce
  BY DEF DispatchInv
<1>2. QED
  BY <1>1, DispatchInvariant, PTL

(* No handler runs for a row that is still, or could again be, in the queue.*)
THEOREM DeletedBeforeRunHolds == Spec => []DeletedBeforeRun
<1>1. DispatchInv => DeletedBeforeRun
  BY DEF DispatchInv
<1>2. QED
  BY <1>1, DispatchInvariant, PTL

-----------------------------------------------------------------------------
(* Nothing is lost without a trace.                                         *)

Traced(m) ==
    \/ \E rep \in reports : rep.msg = m /\ rep.phase # "commit_rejected"
    \/ m \in orphaned

Lost(m) == mq[m] = "gone" /\ submitted[m] = 0

LossAccounted(m) ==
    Lost(m) => (\E w \in Worker : Holding(w, m)) \/ Traced(m)

(* A step of one worker moves no other worker and forgets no trace. *)
OnlyMoves(w) ==
    /\ \A v \in Worker \ {w} : pc'[v] = pc[v] /\ claim'[v] = claim[v]
    /\ reports \subseteq reports'
    /\ orphaned \subseteq orphaned'

(* A lost message stays accounted for when the worker that moves does not   *)
(* hold it, and when that worker keeps holding it or leaves a trace.        *)
LEMMA AccountedAfter ==
    ASSUME TypeInv, DispatchInv, NEW w \in Worker, NEW m \in OneShot,
           LossAccounted(m), OnlyMoves(w),
           Lost(m)' => Lost(m) \/ Holding(w, m)' \/ Traced(m)',
           Lost(m) /\ claim[w] = m /\ pc[w] \in AfterCommit =>
               Holding(w, m)' \/ Traced(m)' \/ ~Lost(m)'
    PROVE  LossAccounted(m)'
<1> USE DEF TypeInv, TypeOK, DispatchInv
<1>1. Traced(m) => Traced(m)'
  BY DEF OnlyMoves, Traced
<1>2. ASSUME NEW v \in Worker, Holding(v, m), Lost(m)
      PROVE  Holding(v, m)' \/ Traced(m)' \/ ~Lost(m)'
  <2>1. pc[v] \in AfterCommit /\ claim[v] = m
    BY <1>2 DEF Holding, Lost, LocksAreExclusive
  <2>2. CASE v = w
    BY <1>2, <2>1, <2>2
  <2>3. CASE v # w
    BY <1>2, <2>3 DEF OnlyMoves, Holding
  <2>4. QED
    BY <2>2, <2>3
<1>3. QED
  BY <1>1, <1>2 DEF LossAccounted

LEMMA RaiseMoves ==
    ASSUME TypeInv, NEW w \in Worker, NEW phase \in Phases, Raise(w, phase),
           orphaned \subseteq orphaned', NEW m, claim[w] = m
    PROVE  /\ OnlyMoves(w)
           /\ phase # "commit_rejected" => Traced(m)'
<1>1. OnlyMoves(w)
  BY DEF Raise, Release, OnlyMoves, TypeInv, TypeOK
<1>2. ASSUME phase # "commit_rejected"
      PROVE  Traced(m)'
  <2> DEFINE rep == [worker |-> w, msg |-> m, phase |-> phase]
  <2>1. rep \in reports'
    BY DEF Raise
  <2>2. rep.msg = m /\ rep.phase # "commit_rejected"
    BY <1>2
  <2>3. QED
    BY <2>1, <2>2 DEF Traced
<1>3. QED
  BY <1>1, <1>2

LEMMA DisposedLoses ==
    ASSUME TypeInv, DispatchInv, NEW w \in Worker, pc[w] = "prepared",
           Disposed(claim[w]), UNCHANGED submitted, NEW m \in OneShot
    PROVE  Lost(m)' => Lost(m) \/ m = claim[w]
BY DEF Disposed, Lost, TypeInv, TypeOK, Msg

LEMMA DispatchLoss ==
    ASSUME TypeInv, DispatchInv, NEW w \in Worker, Dispatch(w),
           NEW m \in OneShot, LossAccounted(m)
    PROVE  LossAccounted(m)'
<1> USE DEF TypeInv, TypeOK, rows, executor, records
<1>1. CASE /\ pc[w] \notin AfterCommit
           /\ OnlyMoves(w)
           /\ UNCHANGED <<mq, submitted>>
  BY <1>1, AccountedAfter DEF Lost
<1>2. CASE ClaimRecurring(w) \/ ClaimOneShot(w)
  BY <1>1, <1>2 DEF ClaimRecurring, ClaimOneShot, Hold, OnlyMoves
<1>3. CASE FindNothing(w) \/ Prepare(w)
  BY <1>1, <1>3 DEF FindNothing, Prepare, OnlyMoves
<1>4. CASE Refuse(w)
  BY <1>1, <1>4 DEF Refuse, RolledBack, Release, OnlyMoves
<1>5. CASE CommitSucceeds(w)
  <2>1. OnlyMoves(w) /\ (m = claim[w] => Holding(w, m)')
    BY <1>5 DEF CommitSucceeds, OnlyMoves, Holding
  <2>2. QED
    BY <1>5, <2>1, DisposedLoses, AccountedAfter DEF CommitSucceeds
<1>6. CASE ReturnConnection(w)
  <2>1. OnlyMoves(w) /\ (claim[w] = m => Holding(w, m)')
    BY <1>6 DEF ReturnConnection, OnlyMoves, Holding
  <2>2. UNCHANGED <<mq, submitted>>
    BY <1>6 DEF ReturnConnection
  <2>3. QED
    BY <2>1, <2>2, AccountedAfter DEF Lost
<1>7. CASE Submit(w)
  <2>1. OnlyMoves(w) /\ UNCHANGED mq
    BY <1>7 DEF Submit, Release, OnlyMoves
  <2>2. /\ submitted'[m] = 0 => submitted[m] = 0
        /\ claim[w] = m => submitted'[m] # 0
    BY <1>7, MessagesAssumption DEF Submit, Invoke
  <2>3. QED
    BY <2>1, <2>2, AccountedAfter DEF Lost
<1>8. QED
  BY <1>2, <1>3, <1>4, <1>5, <1>6, <1>7 DEF Dispatch

LEMMA FailureLoss ==
    ASSUME TypeInv, DispatchInv, NEW w \in Worker, Failure(w),
           NEW m \in OneShot, LossAccounted(m)
    PROVE  LossAccounted(m)'
<1> USE DEF TypeInv, TypeOK, rows, executor, records
<1>1. CASE StatementFails(w)
  <2>1. OnlyMoves(w) /\ UNCHANGED <<mq, submitted>> /\ pc[w] \notin AfterCommit
    BY <1>1 DEF StatementFails, RolledBack, Release, OnlyMoves
  <2>2. QED
    BY <2>1, AccountedAfter DEF Lost
<1>2. CASE CommitFails(w)
  <2>1. PICK phase \in Phases :
           /\ Raise(w, phase)
           /\ \/ Disposed(claim[w]) /\ phase = "commit_unknown"
              \/ RolledBack
    BY <1>2 DEF CommitFails, CommitPhase
  <2>2. /\ OnlyMoves(w)
        /\ phase = "commit_unknown" /\ claim[w] = m => Traced(m)'
    BY <1>2, <2>1, RaiseMoves DEF CommitFails
  <2>3. Lost(m)' => Lost(m) \/ Traced(m)'
    <3>1. CASE RolledBack
      BY <1>2, <3>1 DEF CommitFails, RolledBack, Lost
    <3>2. CASE Disposed(claim[w]) /\ phase = "commit_unknown"
      BY <1>2, <2>2, <3>2, DisposedLoses DEF CommitFails
    <3>3. QED
      BY <2>1, <3>1, <3>2
  <2>4. QED
    BY <1>2, <2>2, <2>3, AccountedAfter DEF CommitFails
<1>3. CASE CleanupFails(w)
  <2>1. OnlyMoves(w) /\ (claim[w] = m => Traced(m)')
    BY <1>3, RaiseMoves DEF CleanupFails, Phases
  <2>2. UNCHANGED <<mq, submitted>>
    BY <1>3 DEF CleanupFails
  <2>3. QED
    BY <2>1, <2>2, AccountedAfter DEF Lost
<1>4. CASE SubmitFails(w)
  <2>1. OnlyMoves(w) /\ (claim[w] = m => Traced(m)')
    BY <1>4, RaiseMoves DEF SubmitFails, Phases
  <2>2. UNCHANGED mq /\ (submitted'[m] = 0 => submitted[m] = 0)
    BY <1>4, MessagesAssumption DEF SubmitFails, Invoke
  <2>3. QED
    BY <2>1, <2>2, AccountedAfter DEF Lost
<1>5. CASE Crash(w)
  <2>1. OnlyMoves(w) /\ UNCHANGED submitted
    BY <1>5 DEF Crash, Release, OnlyMoves
  <2>2. Lost(m)' => Lost(m) \/ Traced(m)'
    <3>1. CASE RolledBack
      BY <2>1, <3>1 DEF RolledBack, Lost
    <3>2. CASE /\ pc[w] = "prepared"
               /\ Disposed(claim[w])
               /\ orphaned' = orphaned \cup ({claim[w]} \cap OneShot)
      BY <2>1, <3>2, DisposedLoses DEF Traced
    <3>3. QED
      BY <1>5, <3>1, <3>2 DEF Crash
  <2>3. claim[w] = m /\ pc[w] \in AfterCommit => Traced(m)'
    BY <1>5 DEF Crash, Traced
  <2>4. QED
    BY <2>1, <2>2, <2>3, AccountedAfter
<1>6. QED
  BY <1>1, <1>2, <1>3, <1>4, <1>5 DEF Failure

LEMMA OtherLoss ==
    ASSUME TypeInv, DispatchInv, NEW m \in OneShot, LossAccounted(m),
           \/ \E n \in OneShot : Enqueue(n) \/ OneShotDue(n)
           \/ \E r \in Recurring : EnsureRecurring(r) \/ RecurringDue(r)
           \/ \E w \in Worker : StopPolling(w) \/ Restart(w)
           \/ \E w \in Worker, n \in Msg : HandlerReturns(w, n)
           \/ UNCHANGED vars
    PROVE  LossAccounted(m)'
<1> USE DEF TypeInv, TypeOK, rows, executor, records
<1>1. Lost(m)' => Lost(m)
  <2>1. UNCHANGED submitted
    BY DEF Enqueue, OneShotDue, EnsureRecurring, RecurringDue, StopPolling,
           Restart, HandlerReturns, vars
  <2>2. mq'[m] = "gone" => mq[m] = "gone"
    BY DEF Enqueue, OneShotDue, EnsureRecurring, RecurringDue, StopPolling,
           Restart, HandlerReturns, vars, Msg
  <2>3. QED
    BY <2>1, <2>2 DEF Lost
<1>2. Traced(m) => Traced(m)'
  BY DEF Enqueue, OneShotDue, EnsureRecurring, RecurringDue, StopPolling,
         Restart, HandlerReturns, vars, Traced
<1>3. ASSUME NEW v \in Worker, Holding(v, m) PROVE Holding(v, m)'
  BY <1>3 DEF Enqueue, OneShotDue, EnsureRecurring, RecurringDue, StopPolling,
              Restart, HandlerReturns, vars, Holding
<1>4. QED
  BY <1>1, <1>2, <1>3 DEF LossAccounted

(* Whatever fails, a message that left the queue without reaching an        *)
(* executor is in a worker's hands, named by an error that asks for         *)
(* reconciliation, or was held by a process that died.                      *)
THEOREM NoSilentLossHolds == Spec => []NoSilentLoss
<1>1. NoSilentLoss <=> \A m \in OneShot : LossAccounted(m)
  BY DEF NoSilentLoss, LossAccounted, Lost, Traced
<1>2. Init => NoSilentLoss
  BY DEF Init, NoSilentLoss, Msg
<1>3. TypeInv /\ DispatchInv /\ NoSilentLoss /\ [Next]_vars => NoSilentLoss'
  <2> SUFFICES ASSUME TypeInv, DispatchInv, NoSilentLoss, [Next]_vars
               PROVE  NoSilentLoss'
    OBVIOUS
  <2>1. ASSUME NEW m \in OneShot PROVE LossAccounted(m)'
    BY <1>1, DispatchLoss, FailureLoss, OtherLoss DEF Next
  <2>2. QED
    BY <2>1 DEF NoSilentLoss, LossAccounted, Lost, Traced
<1>4. QED
  BY <1>2, <1>3, DispatchInvariant, PTL DEF Spec
-----------------------------------------------------------------------------
(* Reports of a failed cleanup.                                             *)

(* A one-shot such a report names is gone, has not run, and is in nobody's  *)
(* hands.                                                                   *)
CleanupInv ==
    \A rep \in reports :
        rep.phase = "committed_cleanup" /\ rep.msg \in OneShot =>
            /\ mq[rep.msg] = "gone"
            /\ submitted[rep.msg] = 0
            /\ \A w \in Worker : ~Holding(w, rep.msg)

(* A message that is gone and that nobody holds stays so. *)
Settled(m) ==
    mq[m] = "gone" /\ submitted[m] = 0 /\ \A w \in Worker : ~Holding(w, m)

LEMMA WorkerSettled ==
    ASSUME TypeInv, NEW m \in OneShot, Settled(m), NEW w \in Worker,
           Dispatch(w) \/ Failure(w)
    PROVE  Settled(m)'
<1> USE DEF TypeInv, TypeOK, rows, executor, records
<1>1. /\ claim[w] # m \/ pc[w] \notin InTransaction \cup AfterCommit
      /\ pc[w] \in InTransaction \cup AfterCommit => claim[w] \in Msg
  BY DEF Settled, Holding, ClaimsAreHeld
<1>2. \A v \in Worker \ {w} : pc'[v] = pc[v] /\ claim'[v] = claim[v]
  BY DEF Dispatch, ClaimRecurring, ClaimOneShot, Hold, FindNothing, Prepare,
         Refuse, CommitSucceeds, ReturnConnection, Submit, Failure,
         StatementFails, CommitFails, CleanupFails, SubmitFails, Crash, Raise,
         Release
<1>3. mq'[m] = "gone"
  BY <1>1 DEF Settled, Disposed, RolledBack, Dispatch, ClaimRecurring,
     ClaimOneShot, Hold, FindNothing, Prepare, Refuse, CommitSucceeds,
     ReturnConnection, Submit, Failure, StatementFails, CommitFails,
     CleanupFails, SubmitFails, Crash, Msg
<1>4. submitted'[m] = 0
  BY <1>1 DEF Settled, Invoke, Dispatch, ClaimRecurring, ClaimOneShot, Hold,
     FindNothing, Prepare, Refuse, CommitSucceeds, ReturnConnection, Submit,
     Failure, StatementFails, CommitFails, CleanupFails, SubmitFails, Crash
<1>5. ~Holding(w, m)'
  <2>1. CASE ClaimRecurring(w) \/ ClaimOneShot(w)
    BY <2>1, MessagesAssumption
       DEF ClaimRecurring, EarliestOf, ClaimableRecurring, ClaimOneShot,
           ClaimableOneShot, Claimable, Hold, Holding, Settled, Msg
  <2>2. CASE \/ FindNothing(w) \/ Prepare(w) \/ CommitSucceeds(w)
             \/ ReturnConnection(w)
    BY <1>1, <2>2 DEF FindNothing, Prepare, CommitSucceeds, ReturnConnection,
                      Holding
  <2>3. CASE Refuse(w) \/ Submit(w) \/ Failure(w)
    BY <2>3, MessagesAssumption
       DEF Refuse, Submit, Failure, StatementFails, CommitFails, CleanupFails,
           SubmitFails, Crash, Raise, Release, Holding, Msg
  <2>4. QED
    BY <2>1, <2>2, <2>3 DEF Dispatch
<1>6. QED
  BY <1>2, <1>3, <1>4, <1>5 DEF Settled, Holding

LEMMA StepSettled ==
    ASSUME TypeInv, NEW m \in OneShot, Settled(m), [Next]_vars
    PROVE  Settled(m)'
<1> USE DEF TypeInv, TypeOK, rows, executor, records
<1>1. ASSUME \/ \E n \in OneShot : Enqueue(n) \/ OneShotDue(n)
             \/ \E r \in Recurring : EnsureRecurring(r) \/ RecurringDue(r)
             \/ \E w \in Worker : StopPolling(w) \/ Restart(w)
             \/ \E w \in Worker, n \in Msg : HandlerReturns(w, n)
             \/ UNCHANGED vars
      PROVE  Settled(m)'
  BY <1>1 DEF Enqueue, OneShotDue, EnsureRecurring, RecurringDue, StopPolling,
              Restart, HandlerReturns, vars, Settled, Holding, Msg
<1>2. QED
  BY <1>1, WorkerSettled DEF Next
(* Only a failed cleanup makes such a report, and then nobody else holds    *)
(* the message.                                                             *)
LEMMA NewCleanupReport ==
    ASSUME TypeInv, DispatchInv, [Next]_vars, NEW rep \in reports',
           rep \notin reports, rep.phase = "committed_cleanup",
           rep.msg \in OneShot
    PROVE  Settled(rep.msg)'
<1> USE DEF TypeInv, TypeOK, rows, executor, records
<1>1. PICK w \in Worker : CleanupFails(w) /\ rep.msg = claim[w]
  <2>1. PICK w \in Worker : Dispatch(w) \/ Failure(w)
    BY DEF Next, Enqueue, OneShotDue, EnsureRecurring, RecurringDue,
           StopPolling, Restart, HandlerReturns, vars
  <2>2. ~Dispatch(w)
    BY DEF Dispatch, ClaimRecurring, ClaimOneShot, Hold, FindNothing, Prepare,
           Refuse, CommitSucceeds, ReturnConnection, Submit
  <2>3. ~StatementFails(w) /\ ~Crash(w) /\ ~SubmitFails(w) /\ ~CommitFails(w)
    BY DEF StatementFails, Crash, SubmitFails, CommitFails, CommitPhase, Raise
  <2>4. QED
    BY <2>1, <2>2, <2>3 DEF Failure, CleanupFails, Raise
<1> DEFINE m == rep.msg
<1>2. pc[w] = "committed" /\ mq' = mq /\ submitted' = submitted
  BY <1>1 DEF CleanupFails
<1>3. /\ mq[m] = "gone" /\ submitted[m] = 0
      /\ \A v \in Worker \ {w} : ~Holding(v, m)
  BY <1>1, <1>2 DEF DispatchInv, TakenIsGone, LocksAreExclusive, Holding
<1>4. /\ \A v \in Worker \ {w} : pc'[v] = pc[v] /\ claim'[v] = claim[v]
      /\ claim'[w] = NoMsg
  BY <1>1 DEF CleanupFails, Raise, Release
<1>5. QED
  BY <1>2, <1>3, <1>4, MessagesAssumption DEF Settled, Holding, Msg

(* A one-shot that a committed_cleanup error named never runs: "handler not *)
(* submitted" is true of it for good.                                       *)
THEOREM CleanupReportHolds == Spec => []CleanupReportIsFinal
<1>1. CleanupInv <=>
        \A rep \in reports :
            rep.phase = "committed_cleanup" /\ rep.msg \in OneShot =>
                Settled(rep.msg)
  BY DEF CleanupInv, Settled
<1>2. Init => CleanupInv
  BY DEF Init, CleanupInv
<1>3. TypeInv /\ DispatchInv /\ CleanupInv /\ [Next]_vars => CleanupInv'
  <2> SUFFICES ASSUME TypeInv, DispatchInv, CleanupInv, [Next]_vars,
                      NEW rep \in reports', rep.phase = "committed_cleanup",
                      rep.msg \in OneShot
               PROVE  Settled(rep.msg)'
    BY DEF CleanupInv, Settled
  <2>1. QED
    BY <1>1, StepSettled, NewCleanupReport
<1>4. CleanupInv => CleanupReportIsFinal
  BY DEF CleanupInv, CleanupReportIsFinal
<1>5. QED
  BY <1>2, <1>3, <1>4, DispatchInvariant, PTL DEF Spec

-----------------------------------------------------------------------------
(* Messages nobody can parse.                                               *)

(* What is refused is never prepared, so that no commit removes it. *)
RefusalInv ==
    \A w \in Worker : pc[w] = "prepared" => claim[w] \notin Refused[w]

LEMMA StepRefusal == TypeInv /\ RefusalInv /\ [Next]_vars => RefusalInv'
<1> SUFFICES ASSUME TypeInv, RefusalInv, [Next]_vars PROVE RefusalInv'
  OBVIOUS
<1> USE DEF TypeInv, TypeOK, RefusalInv
<1>1. ASSUME NEW w \in Worker, Dispatch(w) PROVE RefusalInv'
  BY <1>1 DEF Dispatch, ClaimRecurring, ClaimOneShot, Hold, FindNothing,
     Prepare, Refuse, CommitSucceeds, ReturnConnection, Submit, Release,
     AfterDispatch
<1>2. ASSUME NEW w \in Worker, Failure(w) PROVE RefusalInv'
  BY <1>2 DEF Failure, StatementFails, CommitFails, CleanupFails, SubmitFails,
     Crash, Raise, Release, AfterReport, AfterDispatch
<1>3. QED
  BY <1>1, <1>2
     DEF Next, Enqueue, OneShotDue, EnsureRecurring, RecurringDue, StopPolling,
         Restart, HandlerReturns, vars

(* A message no worker can resolve or parse stays in the queue: refusing it *)
(* rolls the transaction back.                                              *)
THEOREM UnparsableHolds == Spec => []UnparsableStaysQueued
<1>1. Init => RefusalInv /\ UnparsableStaysQueued
  BY DEF Init, RefusalInv, UnparsableStaysQueued, Msg
<1>2. TypeInv /\ RefusalInv /\ UnparsableStaysQueued /\ [Next]_vars
        => UnparsableStaysQueued'
  <2> SUFFICES ASSUME TypeInv, RefusalInv, [Next]_vars, NEW m \in OneShot,
                      \A w \in Worker : m \in Refused[w], mq[m] # "gone"
               PROVE  mq'[m] # "gone"
    BY DEF UnparsableStaysQueued
  <2> USE DEF TypeInv, TypeOK, rows
  <2>1. ASSUME NEW w \in Worker, pc[w] = "prepared", Disposed(claim[w])
        PROVE  mq'[m] # "gone"
    BY <2>1 DEF RefusalInv, Disposed, Msg
  <2>2. ASSUME NEW w \in Worker, Dispatch(w) PROVE mq'[m] # "gone"
    BY <2>1, <2>2 DEF Dispatch, ClaimRecurring, ClaimOneShot, Hold,
       FindNothing, Prepare, Refuse, RolledBack, CommitSucceeds,
       ReturnConnection, Submit
  <2>3. ASSUME NEW w \in Worker, Failure(w) PROVE mq'[m] # "gone"
    BY <2>1, <2>3 DEF Failure, StatementFails, CommitFails, CleanupFails,
       SubmitFails, Crash, RolledBack
  <2>4. QED
    BY <2>2, <2>3
       DEF Next, Enqueue, OneShotDue, EnsureRecurring, RecurringDue,
           StopPolling, Restart, HandlerReturns, vars, Msg
<1>3. QED
  BY <1>1, <1>2, StepRefusal, DispatchInvariant, PTL DEF Spec
-----------------------------------------------------------------------------
(* Scoped workers.                                                          *)

(* Until its one attempt is over a scoped worker has run nothing. *)
ScopedInv ==
    \A w \in Worker \ Poller : \A m \in Msg :
        /\ Holding(w, m) => m \in Scope[w]
        /\ active[w][m] =< IF m \in Scope[w] THEN 1 ELSE 0
        /\ pc[w] # "stopped" => active[w][m] = 0

LEMMA ScopedDispatch ==
    ASSUME TypeInv, ScopedInv, NEW w \in Worker, Dispatch(w)
    PROVE  ScopedInv'
<1> USE DEF TypeInv, TypeOK, ScopedInv, Holding, rows, executor, records
<1>1. CASE ClaimRecurring(w) \/ ClaimOneShot(w)
  <2>1. PICK n \in Msg : Hold(w, n) /\ n \in Scope[w]
    BY <1>1 DEF ClaimRecurring, EarliestOf, ClaimableRecurring, ClaimOneShot,
                ClaimableOneShot, Claimable, Msg
  <2>2. QED
    BY <2>1 DEF Hold
<1>2. CASE \/ FindNothing(w) \/ Prepare(w) \/ CommitSucceeds(w)
           \/ ReturnConnection(w) \/ Refuse(w)
  BY <1>2 DEF FindNothing, Prepare, CommitSucceeds, ReturnConnection, Refuse,
              Release, AfterDispatch
<1>3. CASE Submit(w)
  <2>1. claim[w] \in Msg /\ Holding(w, claim[w])
    BY <1>3 DEF Submit, ClaimsAreHeld
  <2>2. /\ active' = [active EXCEPT ![w][claim[w]] = @ + 1]
        /\ pc' = [pc EXCEPT ![w] = AfterDispatch(w)]
        /\ claim' = [claim EXCEPT ![w] = NoMsg]
    BY <1>3 DEF Submit, Invoke, Release
  <2>3. \A v \in Worker, m \in Msg :
            active'[v][m] = IF v = w /\ m = claim[w]
                            THEN active[v][m] + 1 ELSE active[v][m]
    BY <2>1, <2>2
  <2>4. QED
    BY <1>3, <2>1, <2>2, <2>3 DEF Submit, AfterDispatch
<1>4. QED
  BY <1>1, <1>2, <1>3 DEF Dispatch

LEMMA ScopedFailure ==
    ASSUME TypeInv, ScopedInv, NEW w \in Worker, Failure(w)
    PROVE  ScopedInv'
<1> USE DEF TypeInv, TypeOK, ScopedInv, Holding, rows, executor, records,
            Release
<1>1. CASE Crash(w)
  BY <1>1 DEF Crash
<1>2. CASE SubmitFails(w) /\ w \notin Poller
  <2>1. UNCHANGED active
    BY <1>2 DEF SubmitFails
  <2>2. QED
    BY <1>2, <2>1 DEF SubmitFails, Raise, AfterReport, AfterDispatch
<1>3. CASE SubmitFails(w) /\ w \in Poller
  <2>1. \A v \in Worker \ {w} :
            active'[v] = active[v] /\ pc'[v] = pc[v] /\ claim'[v] = claim[v]
    BY <1>3 DEF SubmitFails, Raise, Invoke
  <2>2. QED
    BY <1>3, <2>1
<1>4. CASE StatementFails(w) \/ CommitFails(w) \/ CleanupFails(w)
  <2>1. /\ \A v \in Worker \ {w} : pc'[v] = pc[v] /\ claim'[v] = claim[v]
        /\ pc[w] # "stopped"
        /\ pc'[w] \in {"idle", "stopped"}
        /\ UNCHANGED active
    BY <1>4 DEF StatementFails, CommitFails, CleanupFails, Raise, AfterReport,
                AfterDispatch
  <2>2. QED
    BY <2>1
<1>5. QED
  BY <1>1, <1>2, <1>3, <1>4 DEF Failure

LEMMA StepScoped == TypeInv /\ ScopedInv /\ [Next]_vars => ScopedInv'
<1> SUFFICES ASSUME TypeInv, ScopedInv, [Next]_vars PROVE ScopedInv'
  OBVIOUS
<1> USE DEF TypeInv, TypeOK, ScopedInv, Holding, rows, executor, records
<1>1. ASSUME NEW w \in Worker, StopPolling(w) \/ Restart(w) PROVE ScopedInv'
  BY <1>1 DEF StopPolling, Restart
<1>2. ASSUME NEW w \in Worker, NEW m \in Msg, HandlerReturns(w, m)
      PROVE  ScopedInv'
  <2>1. \A v \in Worker, n \in Msg : active'[v][n] =< active[v][n]
    BY <1>2 DEF HandlerReturns, HasInvocation
  <2>2. active' \in [Worker -> [Msg -> Nat]]
    BY <1>2 DEF HandlerReturns, HasInvocation
  <2>3. \A v \in Worker, n \in Msg : active[v][n] = 0 => active'[v][n] = 0
    BY <2>1, <2>2
  <2>4. UNCHANGED <<pc, claim>>
    BY <1>2 DEF HandlerReturns
  <2>5. ASSUME NEW v \in Worker \ Poller, NEW n \in Msg
        PROVE  active'[v][n] =< IF n \in Scope[v] THEN 1 ELSE 0
    BY <2>1, <2>2
  <2>6. QED
    BY <2>3, <2>4, <2>5
<1>3. QED
  BY <1>1, <1>2, ScopedDispatch, ScopedFailure
     DEF Next, Enqueue, OneShotDue, EnsureRecurring, RecurringDue, vars

(* dispatch_one runs the one identifier it was asked for, once, or nothing, *)
(* whatever else is due and whoever restarts its process.                   *)
THEOREM ScopedHolds == Spec => []ScopedRunsOnlyItsTarget
<1>1. Init => ScopedInv
  BY DEF Init, ScopedInv, Holding
<1>2. ScopedInv => ScopedRunsOnlyItsTarget
  BY DEF ScopedInv, ScopedRunsOnlyItsTarget
<1>3. QED
  BY <1>1, <1>2, StepScoped, DispatchInvariant, PTL DEF Spec
-----------------------------------------------------------------------------
(* What a step never does.                                                  *)

(* The singleton row of a recurring message is never deleted, whatever      *)
(* fails while it is dispatched: its transaction moves it or does nothing.  *)
THEOREM RecurringRowsSurvive == Spec => RecurringSurvives
<1> DEFINE Survives ==
        \A r \in Recurring :
            mq[r] \in {"waiting", "due"} => mq'[r] \in {"waiting", "due"}
<1>1. TypeInv /\ [Next]_vars => Survives
  <2> SUFFICES ASSUME TypeInv, [Next]_vars, NEW r \in Recurring,
                      mq[r] \in {"waiting", "due"}
               PROVE  mq'[r] \in {"waiting", "due"}
    OBVIOUS
  <2> USE DEF TypeInv, TypeOK, rows
  <2>1. ASSUME NEW m \in Msg, Disposed(m)
        PROVE  mq'[r] \in {"waiting", "due"}
    BY <2>1 DEF Disposed, Disposition, Msg
  <2>2. ASSUME NEW w \in Worker, Dispatch(w)
        PROVE  mq'[r] \in {"waiting", "due"}
    BY <2>1, <2>2 DEF Dispatch, ClaimRecurring, ClaimOneShot, Hold,
       FindNothing, Prepare, Refuse, RolledBack, CommitSucceeds,
       ReturnConnection, Submit, ClaimsAreHeld
  <2>3. ASSUME NEW w \in Worker, Failure(w)
        PROVE  mq'[r] \in {"waiting", "due"}
    BY <2>1, <2>3 DEF Failure, StatementFails, CommitFails, CleanupFails,
       SubmitFails, Crash, RolledBack, ClaimsAreHeld
  <2>4. QED
    BY <2>2, <2>3, MessagesAssumption
       DEF Next, Enqueue, OneShotDue, EnsureRecurring, RecurringDue,
           StopPolling, Restart, HandlerReturns, vars, Msg
<1>2. TypeInv /\ [Next]_vars => [Survives]_mq
  BY <1>1
<1>3. QED
  BY <1>2, DispatchInvariant, PTL DEF Spec, RecurringSurvives

(* An error that leaves a commit or a message uncertain ends the worker it  *)
(* is raised in, and a worker that has stopped stays so.                    *)
THEOREM UncertainErrorsEndTheWorker == Spec => UncertainErrorsStop
<1> DEFINE Stops ==
        \A w \in Worker :
            /\ (\E rep \in reports' \ reports :
                   rep.worker = w /\ rep.phase # "commit_rejected")
               => pc'[w] = "stopped"
            /\ pc[w] = "stopped" => pc'[w] \in {"stopped", "down"}
<1>1. TypeInv /\ [Next]_vars => Stops
  <2> SUFFICES ASSUME TypeInv, [Next]_vars, NEW w \in Worker
               PROVE  /\ \A rep \in reports' \ reports :
                            rep.worker = w /\ rep.phase # "commit_rejected"
                            => pc'[w] = "stopped"
                      /\ pc[w] = "stopped" => pc'[w] \in {"stopped", "down"}
    OBVIOUS
  <2> USE DEF TypeInv, TypeOK, executor, records
  <2>1. ASSUME NEW rep \in reports' \ reports, rep.worker = w,
               rep.phase # "commit_rejected"
        PROVE  pc'[w] = "stopped"
    <3>1. PICK v \in Worker, phase \in Phases : Raise(v, phase)
      BY <2>1 DEF Next, Enqueue, OneShotDue, EnsureRecurring, RecurringDue,
         StopPolling, Restart, HandlerReturns, vars, Dispatch, ClaimRecurring,
         ClaimOneShot, Hold, FindNothing, Prepare, Refuse, CommitSucceeds,
         ReturnConnection, Submit, Failure, StatementFails, CommitFails,
         CleanupFails, SubmitFails, Crash, Phases
    <3>2. v = w /\ phase # "commit_rejected"
      BY <2>1, <3>1 DEF Raise
    <3>3. QED
      BY <3>1, <3>2 DEF Raise, Release, AfterReport
  <2>2. ASSUME pc[w] = "stopped" PROVE pc'[w] \in {"stopped", "down"}
    BY <2>2 DEF Next, Enqueue, OneShotDue, EnsureRecurring, RecurringDue,
       StopPolling, Restart, HandlerReturns, vars, Dispatch, ClaimRecurring,
       ClaimOneShot, Hold, FindNothing, Prepare, Refuse, CommitSucceeds,
       ReturnConnection, Submit, Failure, StatementFails, CommitFails,
       CleanupFails, SubmitFails, Crash, Raise, Release
  <2>3. QED
    BY <2>1, <2>2
<1>2. TypeInv /\ [Next]_vars => [Stops]_vars
  BY <1>1
<1>3. QED
  BY <1>2, DispatchInvariant, PTL DEF Spec, UncertainErrorsStop
-----------------------------------------------------------------------------
(* Periods of recurring rows.                                               *)

(* Workers that have committed a claim of r and not yet handed it over, and *)
(* the period that is there to be claimed.                                  *)
Owing(r) == {w \in Worker : claim[w] = r /\ pc[w] \in AfterCommit}
DueNow(r) == IF mq[r] = "due" THEN 1 ELSE 0

(* The periods that became due and were not run yet cover all of these. *)
Covered(r) ==
    /\ IsFiniteSet(Owing(r))
    /\ credit[r] >= Cardinality(Owing(r)) + DueNow(r)

LEMMA CoveredStill ==
    ASSUME TypeInv, TypeInv', NEW r \in Recurring, Covered(r),
           Owing(r)' \subseteq Owing(r),
           credit'[r] - DueNow(r)' >= credit[r] - DueNow(r)
    PROVE  Covered(r)'
<1>1. /\ IsFiniteSet(Owing(r)')
      /\ Cardinality(Owing(r)') =< Cardinality(Owing(r))
      /\ Cardinality(Owing(r)) \in Nat /\ Cardinality(Owing(r)') \in Nat
  BY FS_Subset, FS_CardinalityType DEF Covered
<1>2. credit[r] \in Int /\ credit'[r] \in Int
  BY DEF TypeInv, TypeOK
<1>3. DueNow(r) \in Int /\ DueNow(r)' \in Int
  BY DEF DueNow
<1>4. QED
  BY <1>1, <1>2, <1>3 DEF Covered

(* w commits its claim: what was due is now owed. *)
LEMMA CoveredClaimed ==
    ASSUME TypeInv, TypeInv', NEW r \in Recurring, Covered(r),
           NEW w \in Worker, Owing(r)' = Owing(r) \cup {w},
           mq[r] = "due", mq'[r] # "due", UNCHANGED credit
    PROVE  Covered(r)'
<1>1. Cardinality(Owing(r)) \in Nat
  BY FS_CardinalityType DEF Covered
<1>2. /\ IsFiniteSet(Owing(r)')
      /\ Cardinality(Owing(r)') \in {Cardinality(Owing(r)),
                                    Cardinality(Owing(r)) + 1}
  BY FS_AddElement DEF Covered
<1>3. credit[r] \in Int
  BY DEF TypeInv, TypeOK
<1>4. QED
  BY <1>1, <1>2, <1>3 DEF Covered, DueNow

(* w hands it over. *)
LEMMA CoveredRun ==
    ASSUME TypeInv, TypeInv', NEW r \in Recurring, Covered(r),
           NEW w \in Owing(r), Owing(r)' = Owing(r) \ {w},
           credit'[r] = credit[r] - 1, UNCHANGED mq
    PROVE  Covered(r)'
<1>1. /\ IsFiniteSet(Owing(r)')
      /\ Cardinality(Owing(r)') = Cardinality(Owing(r)) - 1
      /\ Cardinality(Owing(r)) \in Nat /\ Cardinality(Owing(r)') \in Nat
  BY FS_RemoveElement, FS_CardinalityType DEF Covered
<1>2. credit[r] \in Int
  BY DEF TypeInv, TypeOK
<1>3. DueNow(r)' = DueNow(r) /\ DueNow(r) \in Int
  BY DEF DueNow
<1>4. QED
  BY <1>1, <1>2, <1>3 DEF Covered

LEMMA DispatchCovered ==
    ASSUME TypeInv, TypeInv', DispatchInv, NEW r \in Recurring, Covered(r),
           NEW w \in Worker, Dispatch(w)
    PROVE  Covered(r)'
<1> USE DEF TypeInv, TypeOK, rows, executor, records
<1>1. ASSUME UNCHANGED <<mq, credit>>, Owing(r)' \subseteq Owing(r)
      PROVE  Covered(r)'
  <2>1. credit'[r] - DueNow(r)' >= credit[r] - DueNow(r)
    BY <1>1 DEF DueNow
  <2>2. QED
    BY <1>1, <2>1, CoveredStill
<1>2. CASE ClaimRecurring(w) \/ ClaimOneShot(w)
  BY <1>1, <1>2 DEF ClaimRecurring, ClaimOneShot, Hold, Owing
<1>3. CASE FindNothing(w) \/ Prepare(w) \/ ReturnConnection(w) \/ Refuse(w)
  BY <1>1, <1>3 DEF FindNothing, Prepare, ReturnConnection, Refuse, RolledBack,
                    Release, AfterDispatch, Owing
<1>4. CASE CommitSucceeds(w)
  <2>1. /\ claim[w] \in Msg /\ mq[claim[w]] = "due"
        /\ mq' = [mq EXCEPT ![claim[w]] = Disposition(claim[w])]
        /\ pc' = [pc EXCEPT ![w] = "committed"] /\ UNCHANGED <<claim, credit>>
    BY <1>4 DEF CommitSucceeds, Disposed, DispatchInv, LocksAreExclusive,
                ClaimsAreHeld
  <2>2. CASE claim[w] = r
    <3>1. Owing(r)' = Owing(r) \cup {w}
      BY <2>1, <2>2 DEF Owing
    <3>2. QED
      BY <2>1, <2>2, <3>1, CoveredClaimed DEF Disposition, Msg
  <2>3. CASE claim[w] # r
    <3>1. Owing(r)' = Owing(r)
      BY <1>4, <2>1, <2>3 DEF Owing
    <3>2. DueNow(r)' = DueNow(r)
      BY <2>1, <2>3 DEF DueNow, Msg
    <3>3. credit'[r] - DueNow(r)' >= credit[r] - DueNow(r)
      BY <2>1, <3>2 DEF DueNow
    <3>4. QED
      BY <3>1, <3>3, CoveredStill
  <2>4. QED
    BY <2>2, <2>3
<1>5. CASE Submit(w)
  <2>1. /\ pc[w] = "released" /\ UNCHANGED mq
        /\ Owing(r)' = Owing(r) \ {w}
    BY <1>5, MessagesAssumption
       DEF Submit, Release, AfterDispatch, Owing, Msg
  <2>2. CASE claim[w] = r
    BY <1>5, <2>1, <2>2, CoveredRun DEF Submit, Invoke, Owing
  <2>3. CASE claim[w] # r
    <3>1. credit'[r] = credit[r]
      BY <1>5, <2>3 DEF Submit, Invoke
    <3>2. credit'[r] - DueNow(r)' >= credit[r] - DueNow(r)
      BY <2>1, <3>1 DEF DueNow
    <3>3. QED
      BY <2>1, <3>2, CoveredStill
  <2>4. QED
    BY <2>2, <2>3
<1>6. QED
  BY <1>2, <1>3, <1>4, <1>5 DEF Dispatch

LEMMA FailureCovered ==
    ASSUME TypeInv, TypeInv', DispatchInv, NEW r \in Recurring, Covered(r),
           NEW w \in Worker, Failure(w)
    PROVE  Covered(r)'
<1> USE DEF TypeInv, TypeOK, rows, executor, records
<1>1. Owing(r)' = Owing(r) \ {w}
  BY DEF Failure, StatementFails, CommitFails, CleanupFails, SubmitFails,
         Crash, Raise, Release, AfterReport, AfterDispatch, Owing
<1>2. mq'[r] = "due" => mq[r] = "due"
  <2>1. ASSUME NEW m \in Msg, Disposed(m) PROVE mq'[r] = "due" => mq[r] = "due"
    BY <2>1 DEF Disposed, Disposition, Msg
  <2>2. QED
    BY <2>1 DEF Failure, StatementFails, CommitFails, CleanupFails,
       SubmitFails, Crash, RolledBack, ClaimsAreHeld
<1>3. CASE credit'[r] = credit[r]
  <2>1. credit'[r] - DueNow(r)' >= credit[r] - DueNow(r)
    BY <1>2, <1>3 DEF DueNow
  <2>2. QED
    BY <1>1, <2>1, CoveredStill
<1>4. CASE SubmitFails(w) /\ Invoke(w, claim[w]) /\ claim[w] = r
  BY <1>1, <1>4, CoveredRun DEF SubmitFails, Invoke, Owing
<1>5. QED
  BY <1>3, <1>4 DEF Failure, StatementFails, CommitFails, CleanupFails,
     SubmitFails, Crash, Invoke

LEMMA StepCovered ==
    ASSUME TypeInv, TypeInv', DispatchInv, NEW r \in Recurring, Covered(r),
           [Next]_vars
    PROVE  Covered(r)'
<1> USE DEF TypeInv, TypeOK, rows, executor, records
<1>1. ASSUME Owing(r)' = Owing(r),
             credit'[r] - DueNow(r)' >= credit[r] - DueNow(r)
      PROVE  Covered(r)'
  BY <1>1, CoveredStill
<1>2. ASSUME NEW w \in Worker, StopPolling(w) \/ Restart(w) PROVE Covered(r)'
  <2>1. Owing(r)' = Owing(r)
    BY <1>2 DEF StopPolling, Restart, Owing
  <2>2. QED
    BY <1>1, <1>2, <2>1 DEF StopPolling, Restart, DueNow
<1>3. ASSUME \/ \E m \in OneShot : Enqueue(m) \/ OneShotDue(m)
             \/ \E s \in Recurring : EnsureRecurring(s) \/ RecurringDue(s)
             \/ \E w \in Worker, n \in Msg : HandlerReturns(w, n)
             \/ UNCHANGED vars
      PROVE  Covered(r)'
  <2>1. Owing(r)' = Owing(r)
    BY <1>3 DEF Enqueue, OneShotDue, EnsureRecurring, RecurringDue,
       HandlerReturns, vars, Owing
  <2>2. credit'[r] - DueNow(r)' >= credit[r] - DueNow(r)
    BY <1>3, MessagesAssumption DEF Enqueue, OneShotDue, EnsureRecurring, RecurringDue,
       HandlerReturns, vars, DueNow, Msg
  <2>3. QED
    BY <1>1, <2>1, <2>2
<1>4. QED
  BY <1>2, <1>3, DispatchCovered, FailureCovered DEF Next

(* A recurring row runs at most once for each time it became due: a claim   *)
(* moves its start_after in the transaction that owns the row.              *)
THEOREM OncePerPeriodHolds == Spec => []OncePerPeriod
<1> DEFINE PeriodInv == \A r \in Recurring : Covered(r)
<1>1. Init => PeriodInv
  <2> SUFFICES ASSUME Init, NEW r \in Recurring PROVE Covered(r)
    OBVIOUS
  <2>1. Owing(r) = {} /\ DueNow(r) = 0 /\ credit[r] = 0
    BY DEF Init, Owing, DueNow, Msg
  <2>2. QED
    BY <2>1, FS_EmptySet DEF Covered
<1>2. TypeInv /\ TypeInv' /\ DispatchInv /\ PeriodInv /\ [Next]_vars
        => PeriodInv'
  BY StepCovered
<1>3. TypeInv /\ PeriodInv => OncePerPeriod
  <2> SUFFICES ASSUME TypeInv, NEW r \in Recurring, Covered(r)
               PROVE  credit[r] >= 0
    BY DEF OncePerPeriod
  <2>1. Cardinality(Owing(r)) \in Nat /\ DueNow(r) \in Nat
    BY FS_CardinalityType DEF Covered, DueNow
  <2>2. QED
    BY <2>1 DEF Covered, TypeInv, TypeOK
<1>4. QED
  BY <1>1, <1>2, <1>3, DispatchInvariant, PTL DEF Spec
=============================================================================
