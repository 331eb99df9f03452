--------------------------- MODULE MCQueueDispatch ---------------------------
(***************************************************************************)
(* Instances of QueueDispatch for TLC: one or two pollers and the scoped    *)
(* workers s1 and s2 over one-shots, of which j2 is refused, and one or two *)
(* recurring rows.                                                          *)
(***************************************************************************)
EXTENDS QueueDispatch, TLC

CONSTANTS j1, j2, r1, r2, p1, p2, s1, s2

(* The pollers take everything; s1 was asked for a one-shot, s2 for a       *)
(* recurring row.                                                           *)
ScopeOfEach ==
    [w \in Worker |-> CASE w \in Poller -> OneShot \cup Recurring
                         [] w = s1 -> {j1}
                         [] w = s2 -> {r1}]

(* Every worker has a schedule for every recurring row. *)
ConfiguredAll == [w \in Worker |-> Recurring]

(* j2 has no handler anywhere; r1 cannot be parsed by the second poller,    *)
(* which runs another release of the application.                           *)
RefusedSome ==
    [w \in Worker |-> {j2} \cup (IF w = p2 THEN {r1} ELSE {})]
RefusedNone == [w \in Worker |-> {}]
=============================================================================
