--------------------------- MODULE AtMostOnceQueue ---------------------------
(***************************************************************************)
(* What the one-shot half of the cpkit.mq queue promises its callers: a     *)
(* message that was enqueued is handed to application code at most once,    *)
(* and only after its row left the queue for good.  Nothing is promised the *)
(* other way: a message that left the queue may be dropped on the way to    *)
(* the executor (jobs/README.md, "Claim and Dispatch Failures").             *)
(*                                                                          *)
(* QueueDispatch, the worker's claim/commit/submit protocol, implements it. *)
(* JobLifecycle is built on top of it.                                      *)
(***************************************************************************)
EXTENDS Naturals

CONSTANT OneShot          \* identifiers of the one-shot messages

VARIABLES
    stage,                \* where each message is between insert and handler
    starts                \* how often its handler was handed to an executor

queueVars == <<stage, starts>>

Stages == {"unborn", "queued", "taken", "started", "dropped"}

QueueInit ==
    /\ stage = [m \in OneShot |-> "unborn"]
    /\ starts = [m \in OneShot |-> 0]

Move(m, from, to) ==
    /\ stage[m] \in from
    /\ stage' = [stage EXCEPT ![m] = to]

(* The insert of enqueue_message / enqueue_command commits. *)
Enqueue(m) ==
    /\ Move(m, {"unborn"}, "queued")
    /\ UNCHANGED starts

(* The claim transaction that deletes the row commits, and the worker knows. *)
Take(m) ==
    /\ Move(m, {"queued"}, "taken")
    /\ UNCHANGED starts

(* The executor accepts the invocation. *)
Start(m) ==
    /\ Move(m, {"taken"}, "started")
    /\ starts' = [starts EXCEPT ![m] = @ + 1]

(* The row is gone and no handler will run: an unknown commit that did take  *)
(* place, a failed connection release or submission, or a dead process.      *)
Drop(m) ==
    /\ Move(m, {"queued", "taken"}, "dropped")
    /\ UNCHANGED starts

QueueNext == \E m \in OneShot : Enqueue(m) \/ Take(m) \/ Start(m) \/ Drop(m)

QueueSpec == QueueInit /\ [][QueueNext]_queueVars
=============================================================================
