----------------------- MODULE QueueRefinement_proofs -----------------------
(***************************************************************************)
(* The dispatch protocol implements the at-most-once queue: every step of   *)
(* QueueDispatch is a step of AtMostOnceQueue for one message, or none,     *)
(* under the mapping StageOf.                                               *)
(***************************************************************************)
EXTENDS QueueDispatch_proofs

IInv == TypeInv /\ DispatchInv

Taken(m) == \E w \in Worker : Holding(w, m)

-----------------------------------------------------------------------------
(* The mapping.                                                             *)

LEMMA StageIs ==
    ASSUME NEW m \in OneShot
    PROVE  /\ mq[m] = "unborn" => StageOf(m) = "unborn"
           /\ mq[m] \in {"waiting", "due"} => StageOf(m) = "queued"
           /\ mq[m] = "gone" /\ submitted[m] > 0 /\ submitted[m] # 0 =>
                 StageOf(m) = "started"
           /\ mq[m] = "gone" /\ submitted[m] = 0 /\ Taken(m) =>
                 StageOf(m) = "taken"
           /\ mq[m] = "gone" /\ submitted[m] = 0 /\ ~Taken(m) =>
                 StageOf(m) = "dropped"
BY DEF StageOf, Taken

LEMMA StageIsNext ==
    ASSUME NEW m \in OneShot
    PROVE  /\ mq'[m] = "unborn" => StageOf(m)' = "unborn"
           /\ mq'[m] \in {"waiting", "due"} => StageOf(m)' = "queued"
           /\ mq'[m] = "gone" /\ submitted'[m] > 0 /\ submitted'[m] # 0 =>
                 StageOf(m)' = "started"
           /\ mq'[m] = "gone" /\ submitted'[m] = 0 /\ Taken(m)' =>
                 StageOf(m)' = "taken"
           /\ mq'[m] = "gone" /\ submitted'[m] = 0 /\ ~Taken(m)' =>
                 StageOf(m)' = "dropped"
BY DEF StageOf, Taken

(* A message whose row, invocations and owner stay as they are.             *)
Undisturbed(m) ==
    /\ mq'[m] = mq[m] \/ {mq[m], mq'[m]} \subseteq {"waiting", "due"}
    /\ submitted'[m] = submitted[m]
    /\ mq[m] = "gone" => (Taken(m)' <=> Taken(m))

LEMMA StageStays ==
    ASSUME IInv, IInv', NEW m \in OneShot, Undisturbed(m)
    PROVE  StageOf(m)' = StageOf(m)
<1>1. mq[m] \in RowStates /\ submitted[m] \in Nat
  BY DEF IInv, TypeInv, TypeOK, Msg
<1>2. CASE mq[m] = "unborn"
  BY <1>2, StageIs, StageIsNext DEF Undisturbed
<1>3. CASE mq[m] \in {"waiting", "due"}
  BY <1>3, StageIs, StageIsNext DEF Undisturbed
<1>4. CASE mq[m] = "gone" /\ submitted[m] > 0
  BY <1>4, StageIs, StageIsNext DEF Undisturbed
<1>5. CASE mq[m] = "gone" /\ submitted[m] = 0
  BY <1>5, StageIs, StageIsNext DEF Undisturbed
<1>6. QED
  BY <1>1, <1>2, <1>3, <1>4, <1>5 DEF RowStates

Stage == [m \in OneShot |-> StageOf(m)]

LEMMA QueueStutters ==
    ASSUME IInv, IInv', \A m \in OneShot : Undisturbed(m)
    PROVE  UNCHANGED <<Stage, submitted>>
<1>1. submitted' = submitted
  BY DEF IInv, TypeInv, TypeOK, Undisturbed
<1>2. QED
  BY <1>1, StageStays DEF Stage

LEMMA QueueMoves ==
    ASSUME IInv, IInv', NEW m \in OneShot,
           \A n \in OneShot \ {m} : Undisturbed(n)
    PROVE  Stage' = [Stage EXCEPT ![m] = StageOf(m)']
BY StageStays DEF Stage

-----------------------------------------------------------------------------
(* The steps of a worker w.                                                 *)

OthersStay(w) ==
    \A v \in Worker \ {w} : pc'[v] = pc[v] /\ claim'[v] = claim[v]

(* A message w has nothing to do with is not disturbed. *)
LEMMA Bystander ==
    ASSUME NEW w \in Worker, OthersStay(w), NEW m \in OneShot,
           claim[w] # m, claim'[w] # m
    PROVE  Taken(m)' <=> Taken(m)
BY DEF Taken, Holding, OthersStay

(* Before its commit w owns a message nobody has taken, afterwards it is    *)
(* the only one that has.                                                   *)
LEMMA OwnerIsAlone ==
    ASSUME IInv, NEW w \in Worker, NEW m \in OneShot, OthersStay(w),
           claim[w] = m, pc[w] \in InTransaction \cup AfterCommit
    PROVE  /\ pc[w] \in InTransaction => mq[m] = "due"
           /\ pc[w] \in AfterCommit => mq[m] = "gone" /\ submitted[m] = 0
           /\ submitted[m] = 0
           /\ \A v \in Worker \ {w} : ~Holding(v, m)
           /\ \A v \in Worker \ {w} : ~Holding(v, m)'
<1> USE DEF IInv, TypeInv, TypeOK, DispatchInv
<1>1. /\ pc[w] \in InTransaction => mq[m] = "due"
      /\ pc[w] \in AfterCommit => mq[m] = "gone" /\ submitted[m] = 0
  BY DEF LocksAreExclusive, TakenIsGone
<1>2. submitted[m] = 0
  BY <1>1 DEF DeletedBeforeRun
<1>3. ASSUME NEW v \in Worker \ {w} PROVE ~Holding(v, m)
  BY <1>1 DEF Holding, LocksAreExclusive, TakenIsGone
<1>4. ASSUME NEW v \in Worker \ {w} PROVE ~Holding(v, m)'
  BY <1>3 DEF Holding, OthersStay
<1>5. QED
  BY <1>1, <1>2, <1>3, <1>4

(* The commit of w's transaction removes the row of a one-shot, and         *)
(* disturbs no other.                                                       *)
LEMMA DisposedMoves ==
    ASSUME IInv, NEW w \in Worker, claim[w] \in Msg, OthersStay(w),
           claim'[w] \in {claim[w], NoMsg}, Disposed(claim[w]),
           UNCHANGED submitted
    PROVE  /\ \A n \in OneShot \ {claim[w]} : Undisturbed(n)
           /\ claim[w] \in OneShot => mq'[claim[w]] = "gone"
<1> USE DEF IInv, TypeInv, TypeOK
<1>1. ASSUME NEW n \in OneShot \ {claim[w]} PROVE Undisturbed(n)
  BY Bystander, MessagesAssumption DEF Disposed, Undisturbed, Msg
<1>2. claim[w] \in OneShot => mq'[claim[w]] = "gone"
  BY MessagesAssumption DEF Disposed, Disposition, Msg
<1>3. QED
  BY <1>1, <1>2
-----------------------------------------------------------------------------
(* The steps, each for the message m it is about or for none.               *)

USE DEF InTransaction, AfterCommit

QueueStep ==
    \/ Queue!QueueNext
    \/ UNCHANGED <<Stage, submitted>>

LEMMA EnqueueStep ==
    ASSUME IInv, IInv', NEW m \in OneShot, Enqueue(m)
    PROVE  Queue!Enqueue(m)
<1> USE DEF IInv, TypeInv, TypeOK
<1>1. \A n \in OneShot \ {m} : Undisturbed(n)
  BY DEF Enqueue, Undisturbed, executor, Taken, Holding
<1>2. StageOf(m) = "unborn" /\ StageOf(m)' = "queued"
  BY StageIs, StageIsNext DEF Enqueue, Msg
<1>3. QED
  BY <1>1, <1>2, QueueMoves DEF Queue!Enqueue, Queue!Move, Stage, Enqueue,
     executor

LEMMA TakeStep ==
    ASSUME IInv, IInv', NEW w \in Worker, CommitSucceeds(w),
           NEW m \in OneShot, claim[w] = m
    PROVE  Queue!Take(m)
<1>1. /\ OthersStay(w) /\ claim'[w] = m /\ pc'[w] = "committed"
      /\ UNCHANGED submitted
  BY DEF CommitSucceeds, OthersStay, executor, IInv, TypeInv, TypeOK
<1>2. mq[m] = "due" /\ submitted[m] = 0
  BY <1>1, OwnerIsAlone DEF CommitSucceeds
<1>3. /\ \A n \in OneShot \ {m} : Undisturbed(n)
      /\ mq'[m] = "gone"
  BY <1>1, DisposedMoves DEF CommitSucceeds, Msg
<1>4. Taken(m)'
  BY <1>1 DEF Taken, Holding
<1>5. StageOf(m) = "queued" /\ StageOf(m)' = "taken"
  BY <1>1, <1>2, <1>3, <1>4, StageIs, StageIsNext
<1>6. QED
  BY <1>1, <1>3, <1>5, QueueMoves DEF Queue!Take, Queue!Move, Stage

(* w hands its message to its executor, and lets go of it. *)
LEMMA StartStep ==
    ASSUME IInv, IInv', NEW w \in Worker, pc[w] = "released",
           NEW m \in OneShot, claim[w] = m, Invoke(w, m), OthersStay(w),
           claim'[w] = NoMsg, UNCHANGED mq
    PROVE  Queue!Start(m)
<1> USE DEF IInv, TypeInv, TypeOK
<1>1. mq[m] = "gone" /\ submitted[m] = 0
  BY OwnerIsAlone
<1>2. submitted' = [submitted EXCEPT ![m] = @ + 1]
  BY MessagesAssumption DEF Invoke
<1>3. \A n \in OneShot \ {m} : Undisturbed(n)
  BY <1>2, Bystander, MessagesAssumption DEF Undisturbed, Msg
<1>4. Taken(m)
  BY DEF Taken, Holding
<1>5. StageOf(m) = "taken"
  BY <1>1, <1>4, StageIs
<1>6. StageOf(m)' = "started"
  BY <1>1, <1>2, StageIsNext
<1>7. QED
  BY <1>2, <1>3, <1>5, <1>6, QueueMoves DEF Queue!Start, Queue!Move, Stage

(* w loses its message: before the commit was answered, or after it. *)
LEMMA DropStep ==
    ASSUME IInv, IInv', NEW w \in Worker, NEW m \in OneShot,
           claim[w] = m, OthersStay(w), claim'[w] = NoMsg, UNCHANGED submitted,
           \/ pc[w] \in InTransaction /\ Disposed(m)
           \/ pc[w] \in AfterCommit /\ UNCHANGED mq
    PROVE  Queue!Drop(m)
<1> USE DEF IInv, TypeInv, TypeOK
<1>1. \A n \in OneShot \ {m} : Undisturbed(n)
  <2>1. CASE Disposed(m)
    BY <2>1, DisposedMoves DEF Msg
  <2>2. CASE UNCHANGED mq
    BY <2>2, Bystander, MessagesAssumption DEF Undisturbed, Msg
  <2>3. QED
    BY <2>1, <2>2
<1>2. mq'[m] = "gone" /\ submitted'[m] = 0
  BY OwnerIsAlone, DisposedMoves DEF Msg
<1>3. ~Taken(m)'
  BY OwnerIsAlone, MessagesAssumption DEF Taken, Holding, Msg
<1>4. StageOf(m)' = "dropped"
  BY <1>2, <1>3, StageIsNext
<1>5. StageOf(m) \in {"queued", "taken"}
  <2>1. CASE pc[w] \in InTransaction
    BY <2>1, OwnerIsAlone, StageIs
  <2>2. CASE pc[w] \in AfterCommit
    <3>1. Taken(m)
      BY <2>2 DEF Taken, Holding
    <3>2. QED
      BY <2>2, <3>1, OwnerIsAlone, StageIs
  <2>3. QED
    BY <2>1, <2>2
<1>6. QED
  BY <1>1, <1>4, <1>5, QueueMoves DEF Queue!Drop, Queue!Move, Stage
(* w lets go of its message, which stays in the queue; or touches neither   *)
(* the table nor the executor.                                              *)
LEMMA StayStep ==
    ASSUME IInv, IInv', NEW w \in Worker, OthersStay(w),
           UNCHANGED <<mq, submitted>>,
           \/ pc[w] \in InTransaction /\ claim'[w] = NoMsg
           \/ pc'[w] \in InTransaction \cup AfterCommit /\ claim'[w] = claim[w]
              /\ pc[w] \in InTransaction \cup AfterCommit
           \/ claim[w] = NoMsg /\ claim'[w] = NoMsg
           \/ claim[w] = NoMsg /\ mq[claim'[w]] = "due"
           \/ claim[w] \notin OneShot /\ claim'[w] \notin OneShot
    PROVE  UNCHANGED <<Stage, submitted>>
<1> USE DEF IInv, TypeInv, TypeOK
<1>1. ASSUME NEW m \in OneShot, mq[m] = "gone" PROVE Taken(m)' <=> Taken(m)
  <2>1. CASE claim[w] # m /\ claim'[w] # m
    BY <2>1, Bystander
  <2>2. CASE claim[w] = m
    BY <1>1, <2>2, OwnerIsAlone, MessagesAssumption DEF Taken, Holding, Msg
  <2>3. CASE claim[w] # m /\ claim'[w] = m
    BY <1>1, <2>3, MessagesAssumption DEF Msg
  <2>4. QED
    BY <2>1, <2>2, <2>3
<1>2. \A m \in OneShot : Undisturbed(m)
  BY <1>1 DEF Undisturbed
<1>3. QED
  BY <1>2, QueueStutters

(* The same for a recurring row, whatever happens to that row. *)
LEMMA RecurringStep ==
    ASSUME IInv, IInv', NEW w \in Worker, OthersStay(w),
           claim[w] \in Recurring, claim'[w] \in {claim[w], NoMsg},
           UNCHANGED mq \/ Disposed(claim[w]), UNCHANGED submitted
    PROVE  UNCHANGED <<Stage, submitted>>
<1> USE DEF IInv, TypeInv, TypeOK
<1>1. \A m \in OneShot : claim[w] # m /\ claim'[w] # m
  BY MessagesAssumption DEF Msg
<1>2. \A m \in OneShot : Undisturbed(m)
  BY <1>1, Bystander, MessagesAssumption DEF Disposed, Undisturbed, Msg
<1>3. QED
  BY <1>2, QueueStutters
-----------------------------------------------------------------------------
(* Every action.                                                            *)

LEMMA DispatchStep ==
    ASSUME IInv, IInv', NEW w \in Worker, Dispatch(w)
    PROVE  QueueStep
<1> USE DEF IInv, TypeInv, TypeOK, rows, executor, records
<1>1. IF pc[w] \in InTransaction \cup AfterCommit
      THEN claim[w] \in OneShot \cup Recurring
      ELSE claim[w] = NoMsg
  BY DEF ClaimsAreHeld, Msg
<1>2. ASSUME NEW m \in Msg, Hold(w, m), Claimable(w, m) PROVE QueueStep
  <2>1. /\ OthersStay(w) /\ UNCHANGED <<mq, submitted>>
        /\ claim[w] = NoMsg /\ mq[claim'[w]] = "due"
    BY <1>1, <1>2 DEF Hold, Claimable, OthersStay
  <2>2. QED
    BY <2>1, StayStep DEF QueueStep
<1>3. CASE ClaimRecurring(w) \/ ClaimOneShot(w)
  BY <1>2, <1>3 DEF ClaimRecurring, EarliestOf, ClaimableRecurring,
                    ClaimOneShot, ClaimableOneShot, Claimable, Msg
<1>4. CASE FindNothing(w) \/ Prepare(w) \/ ReturnConnection(w)
  <2>1. OthersStay(w) /\ UNCHANGED <<mq, submitted, claim>>
    BY <1>4 DEF FindNothing, Prepare, ReturnConnection, OthersStay
  <2>2. \/ claim[w] = NoMsg
        \/ {pc[w], pc'[w]} \subseteq InTransaction \cup AfterCommit
    BY <1>1, <1>4 DEF FindNothing, Prepare, ReturnConnection
  <2>3. QED
    BY <2>1, <2>2, StayStep DEF QueueStep
<1>5. CASE Refuse(w)
  <2>1. /\ OthersStay(w) /\ UNCHANGED <<mq, submitted>>
        /\ pc[w] \in InTransaction /\ claim'[w] = NoMsg
    BY <1>5 DEF Refuse, RolledBack, Release, OthersStay
  <2>2. QED
    BY <2>1, StayStep DEF QueueStep
<1>6. CASE CommitSucceeds(w)
  <2>1. CASE claim[w] \in OneShot
    BY <1>6, <2>1, TakeStep DEF QueueStep, Queue!QueueNext
  <2>2. CASE claim[w] \in Recurring
    <3>1. /\ OthersStay(w) /\ claim'[w] = claim[w] /\ Disposed(claim[w])
          /\ UNCHANGED submitted
      BY <1>6 DEF CommitSucceeds, OthersStay
    <3>2. QED
      BY <2>2, <3>1, RecurringStep DEF QueueStep
  <2>3. QED
    BY <1>1, <1>6, <2>1, <2>2 DEF CommitSucceeds
<1>7. CASE Submit(w)
  <2>1. /\ pc[w] = "released" /\ Invoke(w, claim[w]) /\ OthersStay(w)
        /\ claim'[w] = NoMsg /\ UNCHANGED mq
    BY <1>7 DEF Submit, Release, OthersStay
  <2>2. CASE claim[w] \in OneShot
    BY <2>1, <2>2, StartStep DEF QueueStep, Queue!QueueNext
  <2>3. CASE claim[w] \in Recurring
    <3>1. UNCHANGED submitted
      BY <2>1, <2>3 DEF Invoke
    <3>2. QED
      BY <2>1, <2>3, <3>1, RecurringStep DEF QueueStep
  <2>4. QED
    BY <1>1, <2>1, <2>2, <2>3
<1>8. QED
  BY <1>3, <1>4, <1>5, <1>6, <1>7 DEF Dispatch

(* w loses its message, or was busy with a recurring row. *)
LEMMA LossStep ==
    ASSUME IInv, IInv', NEW w \in Worker, OthersStay(w), claim'[w] = NoMsg,
           UNCHANGED submitted,
           \/ pc[w] \in InTransaction /\ Disposed(claim[w])
           \/ pc[w] \in AfterCommit /\ UNCHANGED mq
    PROVE  QueueStep
<1>1. claim[w] \in OneShot \cup Recurring
  BY DEF IInv, DispatchInv, ClaimsAreHeld, Msg
<1>2. CASE claim[w] \in OneShot
  BY <1>2, DropStep DEF QueueStep, Queue!QueueNext
<1>3. CASE claim[w] \in Recurring
  BY <1>3, RecurringStep DEF QueueStep
<1>4. QED
  BY <1>1, <1>2, <1>3

LEMMA FailureStep ==
    ASSUME IInv, IInv', NEW w \in Worker, Failure(w)
    PROVE  QueueStep
<1> USE DEF IInv, TypeInv, TypeOK, rows, executor, records
<1>1. OthersStay(w) /\ claim'[w] = NoMsg
  BY DEF Failure, StatementFails, CommitFails, CleanupFails, SubmitFails,
         Crash, Raise, Release, OthersStay
<1>2. CASE StatementFails(w)
  <2>1. UNCHANGED <<mq, submitted>> /\ pc[w] \in InTransaction
    BY <1>2 DEF StatementFails, RolledBack
  <2>2. QED
    BY <1>1, <2>1, StayStep DEF QueueStep
<1>3. CASE CommitFails(w)
  <2>1. /\ pc[w] \in InTransaction /\ UNCHANGED submitted
        /\ Disposed(claim[w]) \/ RolledBack
    BY <1>3 DEF CommitFails
  <2>2. CASE RolledBack
    BY <1>1, <2>1, <2>2, StayStep DEF QueueStep, RolledBack
  <2>3. CASE Disposed(claim[w])
    BY <1>1, <2>1, <2>3, LossStep
  <2>4. QED
    BY <2>1, <2>2, <2>3
<1>4. CASE CleanupFails(w)
  BY <1>1, <1>4, LossStep DEF CleanupFails
<1>5. CASE SubmitFails(w)
  <2>1. pc[w] = "released" /\ UNCHANGED mq
    BY <1>5 DEF SubmitFails
  <2>2. CASE UNCHANGED submitted
    BY <1>1, <2>1, <2>2, LossStep
  <2>3. CASE Invoke(w, claim[w]) /\ claim[w] \in OneShot
    BY <1>1, <2>1, <2>3, StartStep DEF QueueStep, Queue!QueueNext
  <2>4. claim[w] \in OneShot \cup Recurring
    BY <2>1 DEF ClaimsAreHeld, Msg
  <2>5. QED
    BY <1>5, <2>2, <2>3, <2>4 DEF SubmitFails, Invoke
<1>6. CASE Crash(w)
  <2>1. /\ UNCHANGED submitted
        /\ RolledBack \/ (pc[w] = "prepared" /\ Disposed(claim[w]))
    BY <1>6 DEF Crash
  <2>2. CASE pc[w] = "prepared" /\ Disposed(claim[w])
    BY <1>1, <2>1, <2>2, LossStep
  <2>3. CASE RolledBack /\ pc[w] \in AfterCommit
    BY <1>1, <2>1, <2>3, LossStep DEF RolledBack
  <2>4. CASE RolledBack /\ pc[w] \notin AfterCommit
    <3>1. pc[w] \in InTransaction \/ claim[w] = NoMsg
      BY <2>4 DEF ClaimsAreHeld
    <3>2. QED
      BY <1>1, <2>1, <2>4, <3>1, StayStep DEF QueueStep, RolledBack
  <2>5. QED
    BY <2>1, <2>2, <2>3, <2>4
<1>7. QED
  BY <1>2, <1>3, <1>4, <1>5, <1>6 DEF Failure

LEMMA OtherStep ==
    ASSUME IInv, IInv',
           \/ \E m \in OneShot : OneShotDue(m)
           \/ \E r \in Recurring : EnsureRecurring(r) \/ RecurringDue(r)
           \/ \E w \in Worker : StopPolling(w) \/ Restart(w)
           \/ \E w \in Worker, n \in Msg : HandlerReturns(w, n)
           \/ UNCHANGED vars
    PROVE  UNCHANGED <<Stage, submitted>>
<1> USE DEF IInv, TypeInv, TypeOK, rows, executor, records
<1>1. ASSUME NEW m \in OneShot PROVE Taken(m)' <=> Taken(m)
  BY DEF OneShotDue, EnsureRecurring, RecurringDue, StopPolling, Restart,
         HandlerReturns, vars, Taken, Holding
<1>2. ASSUME NEW m \in OneShot
      PROVE  mq'[m] = mq[m] \/ {mq[m], mq'[m]} \subseteq {"waiting", "due"}
  BY MessagesAssumption DEF OneShotDue, EnsureRecurring, RecurringDue,
     StopPolling, Restart, HandlerReturns, vars, Msg
<1>3. UNCHANGED submitted
  BY DEF OneShotDue, EnsureRecurring, RecurringDue, StopPolling, Restart,
         HandlerReturns, vars
<1>4. QED
  BY <1>1, <1>2, <1>3, QueueStutters DEF Undisturbed

LEMMA NextStep ==
    IInv /\ IInv' /\ [Next]_vars => [Queue!QueueNext]_<<Stage, submitted>>
<1> SUFFICES ASSUME IInv, IInv', [Next]_vars PROVE QueueStep
  BY DEF QueueStep
<1>1. ASSUME NEW m \in OneShot, Enqueue(m) PROVE QueueStep
  BY <1>1, EnqueueStep DEF QueueStep, Queue!QueueNext
<1>2. QED
  BY <1>1, DispatchStep, FailureStep, OtherStep DEF Next, QueueStep

(* The protocol of the workers, whatever fails and whoever dies, keeps the  *)
(* promise of the at-most-once queue: each one-shot is enqueued, taken once *)
(* and started once, or dropped on the way.                                 *)
THEOREM ImplementsQueueHolds == Spec => ImplementsQueue
<1>1. Init => Queue!QueueInit
  BY DEF Init, Queue!QueueInit, StageOf, Msg
<1>2. IInv /\ IInv' /\ [Next]_vars => [Queue!QueueNext]_Queue!queueVars
  BY NextStep DEF Queue!queueVars, Stage
<1>3. Spec => []IInv
  BY DispatchInvariant, PTL DEF IInv
<1>4. QED
  BY <1>1, <1>2, <1>3, PTL DEF Spec, ImplementsQueue, Queue!QueueSpec
=============================================================================
