------------------------------ MODULE MCPlaybooks ------------------------------
(***************************************************************************)
(* Instances of PlaybookVersions and AnsibleRun for TLC, side by side: one  *)
(* of them moves in a behaviour.  Administrators are interchangeable.       *)
(***************************************************************************)
EXTENDS PlaybookVersions, AnsibleRun, TLC

VARIABLE focus    \* what moves

AdminSymmetry == Permutations(Admin)

Init ==
    /\ focus \in {"versions", "run"}
    /\ VersionsInit
    /\ AuditInit
    /\ RunInit
    /\ focus = "versions" => stored = configured

Next ==
    /\ \/ focus = "versions" /\ VersionsNext /\ UNCHANGED runVars
       \/ focus = "run" /\ RunNext /\ UNCHANGED <<vbVars, auditVars>>
    /\ UNCHANGED focus

Spec == Init /\ [][Next]_<<focus, vbVars, auditVars, runVars>>

(* The shapes of both. *)
PlaybooksTypeOK == VersionsTypeOK /\ RunTypeOK
=============================================================================
