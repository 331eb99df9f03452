------------------------- MODULE AnsibleRun_proofs -------------------------
(***************************************************************************)
(* What TLAPS proves of AnsibleRun, for any options, any number of tasks,   *)
(* any size of the task_id column and any failures: the shape of the state, *)
(* that credentials outlive their use, that leftovers have a cause, and     *)
(* that a task number is refused only for a cause.                          *)
(***************************************************************************)
EXTENDS AnsibleRun, TLAPS

-----------------------------------------------------------------------------
(* The parts.                                                               *)

(* Nothing has happened before the first part; a part is started once, and  *)
(* the handler's thread is where that part takes it.                        *)
PartsInOrder ==
    /\ main \in {"down", "up", "loading"} =>
          /\ part = "target" /\ result = "none"
          /\ \A p \in Parts : play[p] = "none"
    /\ main \in {"starting", "startFailed"} => play[part] = "none"
    /\ main \in {"recording", "recordingBad", "counting", "countingBad"} =>
          part # "target"
    /\ main \in {"artifacts", "countingArtifacts", "abandoning"} =>
          part = "prepare"
    /\ main \in {"raising", "finally"} => part # "cleanup"
    /\ part = "prepare" => play["target"] = "none"
    /\ part # "cleanup" => play["cleanup"] = "none"

(* A playbook that runs is the one the handler's thread waits for, or the   *)
(* target that it has left running.                                         *)
OneAtATime ==
    \A p \in Parts : play[p] = "running" =>
        \/ main = "monitoring" /\ part = p
        \/ p = "target" /\ detached

(* A thread that has still to count a row has not ended. *)
OwingIsRunning == \A p \in owes : play[p] = "running"

(* A target that is left running is not started again. *)
DetachedIsPast ==
    detached => /\ part # "prepare"
                /\ part = "target" =>
                      main \in {"raising", "finally", "removing", "over", "done"}

PartInv ==
    /\ PartsInOrder
    /\ OneAtATime
    /\ OwingIsRunning
    /\ DetachedIsPast

-----------------------------------------------------------------------------
(* What a run leaves.                                                       *)

(* Only a run with hooks has credentials, and it has them from its first    *)
(* part to the end of each part it waits for.                               *)
CredentialsHeld ==
    /\ credentials => opts.hooks /\ ~lite
    /\ main \in {"starting", "startFailed", "monitoring", "recording",
                 "counting", "artifacts", "countingArtifacts"} =>
          (opts.hooks /\ ~lite => credentials)
    /\ part # "target" \/ main = "removing" => opts.hooks /\ ~lite
    /\ main \in {"down", "up", "loading"} => ~credentials

(* When the run is over, they are there for a cause. *)
CredentialsKept ==
    main \in {"over", "done"} /\ credentials =>
        \/ opts.retain /\ targetResult = "failed"
        \/ result = "raised" /\ part = "cleanup"

(* A job directory is that of the part at hand, or of one that was never    *)
(* started and whose FAILURE row could not be written.                      *)
DirsHaveACause ==
    \A p \in jobDirs :
        \/ main \in {"monitoring", "startFailed"} /\ p = part
        \/ /\ play[p] = "none"
           /\ (\E w \in refused : w[1] = "failure") \/ runFaults > 0

LeftoverInv ==
    /\ CredentialsHeld
    /\ CredentialsKept
    /\ DirsHaveACause

-----------------------------------------------------------------------------
(* Task numbers.                                                            *)

(* Somebody is between an INSERT and counter += 1. *)
Counting == owes # {} \/ main \in {"counting", "countingBad", "countingArtifacts"}

(* The runner's next number is free, unless a FAILURE row took it or an     *)
(* INSERT that raised, or it is about to be counted.                        *)
NextNumbersAreFree ==
    ~detached /\ main # "done" =>
        \A n \in TaskId : n >= counter /\ row[n] # "none" =>
            \/ row[n] = "failure"
            \/ n \in doubtful
            \/ n = counter /\ Counting

(* While a run is successful, the numbers from the caller's on are taken    *)
(* only by the cleanup, besides.                                            *)
CallersNumberIsFree ==
    result = "successful" =>
        /\ part = "cleanup" \/ main \in {"finally", "removing", "over", "done"}
        /\ ~detached /\ main # "done" =>
              \A n \in TaskId : n >= resultCounter /\ row[n] # "none" =>
                  row[n] \in {"failure", "cleanup"} \/ n \in doubtful

NumberInv ==
    /\ NextNumbersAreFree
    /\ CallersNumberIsFree
    /\ NumbersAreRefusedForCause

IInv ==
    /\ RunTypeOK
    /\ PartInv
    /\ LeftoverInv
    /\ NumberInv

LEMMA InitInv == RunInit => IInv
<1> SUFFICES ASSUME RunInit PROVE IInv
  OBVIOUS
<1> USE DEF RunInit
<1>1. RunTypeOK
  <2>1. configured \in Options /\ opts \in Options
    BY DEF Options
  <2>2. /\ updates \in 0 .. MaxUpdates /\ counter \in Nat
        /\ resultCounter \in Nat /\ runFaults \in 0 .. MaxRunFaults
    BY RunAssumption
  <2>3. /\ stored \in Options
        /\ play \in [Parts -> {"none", "running", "successful", "failed"}]
        /\ row \in [TaskId -> Parts \cup {"none", "failure", "caller"}]
    OBVIOUS
  <2>4. QED
    BY <2>1, <2>2, <2>3 DEF RunTypeOK, Parts
<1>2. PartInv
  BY DEF PartInv, PartsInOrder, OneAtATime, OwingIsRunning, DetachedIsPast,
     Parts
<1>3. LeftoverInv
  BY DEF LeftoverInv, CredentialsHeld, CredentialsKept, DirsHaveACause
<1>4. NumberInv
  BY DEF NumberInv, NextNumbersAreFree, CallersNumberIsFree,
     NumbersAreRefusedForCause
<1>5. QED
  BY <1>1, <1>2, <1>3, <1>4 DEF IInv

(* The shape of the state. *)
LEMMA StepType ==
    ASSUME RunTypeOK, [RunNext]_runVars
    PROVE  RunTypeOK'
<1> USE DEF RunTypeOK, Options, Parts,
   options, choice, threads, tasks, dirs, outcome
<1>1. CASE UNCHANGED runVars
  BY <1>1 DEF runVars
<1>2. configured \in Options
  BY DEF RunTypeOK
<1>3. CASE Startup
  BY <1>3, RunAssumption DEF Startup, To
<1>4. ASSUME NEW o \in Options, UpdateSetting(o) PROVE RunTypeOK'
  BY <1>4, RunAssumption DEF UpdateSetting
<1>5. ASSUME NEW o \in Options, NEW l \in BOOLEAN, NEW c \in BOOLEAN,
             NEW b \in SUBSET Parts, Launch(o, l, c, b)
      PROVE  RunTypeOK'
  BY <1>5, RunAssumption DEF Launch, To
<1>6. ASSUME NEW p \in Parts, EventRecorded(p) PROVE RunTypeOK'
  BY <1>6, RunAssumption DEF EventRecorded, Writes, Free
<1>7. ASSUME NEW p \in Parts, EventCounted(p) PROVE RunTypeOK'
  BY <1>7, RunAssumption DEF EventCounted
<1>8. ASSUME NEW p \in Parts, EventRaises(p) PROVE RunTypeOK'
  BY <1>8, RunAssumption DEF EventRaises, WriteRaises, Free, RunFault
<1>9. ASSUME NEW p \in Parts, PlaybookEnds(p) PROVE RunTypeOK'
  BY <1>9, RunAssumption DEF PlaybookEnds
<1>10. CASE Prepare
  BY <1>10, RunAssumption DEF Prepare, Starts
<1>11. CASE PrepareRaises
  <2>1. credentials' \in BOOLEAN
    BY <1>11 DEF PrepareRaises
  <2>2. QED
    BY <1>11, <2>1, RunAssumption DEF PrepareRaises, To, RunFault
<1>12. CASE StartPart
  BY <1>12, RunAssumption DEF StartPart, To
<1>13. CASE StartRaises
  BY <1>13, RunAssumption DEF StartRaises, RunFault
<1>14. CASE StartFailureRecorded
  BY <1>14, RunAssumption DEF StartFailureRecorded, Writes, Free, Returns
<1>15. CASE StartFailureRaises
  BY <1>15, RunAssumption DEF StartFailureRaises, WriteRaises, Free, RunFault,
     Raises
<1>16. CASE LiteStartRaises
  BY <1>16, RunAssumption DEF LiteStartRaises, To, RunFault
<1>17. CASE Joined
  <2>1. play[part] \in {"successful", "failed"} /\ counter \in Nat
    BY <1>17 DEF Joined, Ended
  <2>2. /\ targetResult' \in {"none", "successful", "failed"}
        /\ result' \in {"none", "successful", "failed", "raised"}
        /\ resultCounter' \in Nat
    BY <1>17, <2>1 DEF Joined, Returns
  <2>3. main' \in {"over", "finally", "recording", "recordingBad"}
    BY <1>17 DEF Joined, Returns
  <2>4. QED
    BY <1>17, <2>2, <2>3 DEF Joined
<1>18. CASE MonitoringRaises
  BY <1>18, RunAssumption DEF MonitoringRaises, RunFault, Returns, Raises
<1>19. CASE InternalRecorded
  BY <1>19, RunAssumption DEF InternalRecorded, To, Writes, Free
<1>20. CASE InternalRaises
  BY <1>20, RunAssumption DEF InternalRaises, WriteRaises, Free, RunFault,
     Raises
<1>21. CASE InternalCounted
  BY <1>21, RunAssumption DEF InternalCounted, Starts, Counted
<1>22. CASE Abandon
  BY <1>22, RunAssumption DEF Abandon, To, RunFault
<1>23. CASE FailureRecorded
  BY <1>23, RunAssumption DEF FailureRecorded, To, Writes, Free
<1>24. CASE FailureRaises
  BY <1>24, RunAssumption DEF FailureRaises, To, WriteRaises, Free, RunFault
<1>25. CASE Finally
  BY <1>25, RunAssumption DEF Finally, Starts
<1>26. CASE CleanupNotLoaded
  BY <1>26, RunAssumption DEF CleanupNotLoaded, To, RunFault
<1>27. CASE RemoveCredentials
  BY <1>27, RunAssumption DEF RemoveCredentials, To, Kept
<1>28. CASE CallerWrites
  BY <1>28, RunAssumption DEF CallerWrites, To, Writes, Free, WriteRaises,
     RunFault
<1> HIDE DEF RunTypeOK, Options, Parts
<1>29. QED
  BY <1>1, <1>2, <1>3, <1>4, <1>5, <1>6, <1>7, <1>8, <1>9, <1>10, <1>11, <1>12,
     <1>13, <1>14, <1>15, <1>16, <1>17, <1>18, <1>19, <1>20, <1>21, <1>22,
     <1>23, <1>24, <1>25, <1>26, <1>27, <1>28
     DEF RunNext, LaunchConfigured, LaunchOverriding

(* The parts. *)
LEMMA StepParts ==
    ASSUME RunTypeOK, PartInv, [RunNext]_runVars
    PROVE  PartInv'
<1> USE DEF RunTypeOK, Parts, PartInv, PartsInOrder, OneAtATime, OwingIsRunning,
   DetachedIsPast,
   options, choice, threads, tasks, dirs, outcome
<1>1. CASE UNCHANGED runVars
  BY <1>1 DEF runVars
<1>2. configured \in Options
  BY DEF RunTypeOK
<1>3. CASE Startup
  BY <1>3 DEF Startup, To
<1>4. ASSUME NEW o \in Options, UpdateSetting(o) PROVE PartInv'
  BY <1>4 DEF UpdateSetting
<1>5. ASSUME NEW o \in Options, NEW l \in BOOLEAN, NEW c \in BOOLEAN,
             NEW b \in SUBSET Parts, Launch(o, l, c, b)
      PROVE  PartInv'
  BY <1>5 DEF Launch, To
<1>6. ASSUME NEW p \in Parts, EventRecorded(p) PROVE PartInv'
  BY <1>6 DEF EventRecorded, Writes, Free
<1>7. ASSUME NEW p \in Parts, EventCounted(p) PROVE PartInv'
  BY <1>7 DEF EventCounted
<1>8. ASSUME NEW p \in Parts, EventRaises(p) PROVE PartInv'
  BY <1>8 DEF EventRaises, WriteRaises, Free, RunFault
<1>9. ASSUME NEW p \in Parts, PlaybookEnds(p) PROVE PartInv'
  BY <1>9 DEF PlaybookEnds
<1>10. CASE Prepare
  BY <1>10 DEF Prepare, Starts
<1>11. CASE PrepareRaises
  BY <1>11 DEF PrepareRaises, To, RunFault
<1>12. CASE StartPart
  BY <1>12 DEF StartPart, To
<1>13. CASE StartRaises
  BY <1>13 DEF StartRaises, RunFault
<1>14. CASE StartFailureRecorded
  BY <1>14 DEF StartFailureRecorded, Writes, Free, Returns
<1>15. CASE StartFailureRaises
  BY <1>15 DEF StartFailureRaises, WriteRaises, Free, RunFault, Raises
<1>16. CASE LiteStartRaises
  BY <1>16 DEF LiteStartRaises, To, RunFault
<1>17. CASE Joined
  BY <1>17 DEF Joined, Ended, Returns
<1>18. CASE MonitoringRaises
  BY <1>18 DEF MonitoringRaises, RunFault, Returns, Raises
<1>19. CASE InternalRecorded
  BY <1>19 DEF InternalRecorded, To, Writes, Free
<1>20. CASE InternalRaises
  BY <1>20 DEF InternalRaises, WriteRaises, Free, RunFault, Raises
<1>21. CASE InternalCounted
  BY <1>21 DEF InternalCounted, Starts, Counted
<1>22. CASE Abandon
  BY <1>22 DEF Abandon, To, RunFault
<1>23. CASE FailureRecorded
  BY <1>23 DEF FailureRecorded, To, Writes, Free
<1>24. CASE FailureRaises
  BY <1>24 DEF FailureRaises, To, WriteRaises, Free, RunFault
<1>25. CASE Finally
  BY <1>25 DEF Finally, Starts
<1>26. CASE CleanupNotLoaded
  BY <1>26 DEF CleanupNotLoaded, To, RunFault
<1>27. CASE RemoveCredentials
  BY <1>27 DEF RemoveCredentials, To, Kept
<1>28. CASE CallerWrites
  BY <1>28 DEF CallerWrites, To, Writes, Free, WriteRaises, RunFault
<1> HIDE DEF RunTypeOK, Parts, PartInv, PartsInOrder, OneAtATime,
   OwingIsRunning,
   DetachedIsPast
<1>29. QED
  BY <1>1, <1>2, <1>3, <1>4, <1>5, <1>6, <1>7, <1>8, <1>9, <1>10, <1>11, <1>12,
     <1>13, <1>14, <1>15, <1>16, <1>17, <1>18, <1>19, <1>20, <1>21, <1>22,
     <1>23, <1>24, <1>25, <1>26, <1>27, <1>28
     DEF RunNext, LaunchConfigured, LaunchOverriding

(* The leftovers. *)
LEMMA StepLeftovers ==
    ASSUME RunTypeOK, PartInv, LeftoverInv, [RunNext]_runVars
    PROVE  LeftoverInv'
<1> USE DEF RunTypeOK, Parts, PartInv, PartsInOrder, OneAtATime, OwingIsRunning,
   DetachedIsPast,
   LeftoverInv, CredentialsHeld, CredentialsKept, DirsHaveACause,
   options, choice, threads, tasks, dirs, outcome
<1>1. CASE UNCHANGED runVars
  BY <1>1 DEF runVars
<1>2. configured \in Options
  BY DEF RunTypeOK
<1>3. CASE Startup
  BY <1>3 DEF Startup, To
<1>4. ASSUME NEW o \in Options, UpdateSetting(o) PROVE LeftoverInv'
  BY <1>4 DEF UpdateSetting
<1>5. ASSUME NEW o \in Options, NEW l \in BOOLEAN, NEW c \in BOOLEAN,
             NEW b \in SUBSET Parts, Launch(o, l, c, b)
      PROVE  LeftoverInv'
  BY <1>5 DEF Launch, To
<1>6. ASSUME NEW p \in Parts, EventRecorded(p) PROVE LeftoverInv'
  BY <1>6 DEF EventRecorded, Writes, Free
<1>7. ASSUME NEW p \in Parts, EventCounted(p) PROVE LeftoverInv'
  BY <1>7 DEF EventCounted
<1>8. ASSUME NEW p \in Parts, EventRaises(p) PROVE LeftoverInv'
  BY <1>8 DEF EventRaises, WriteRaises, Free, RunFault
<1>9. ASSUME NEW p \in Parts, PlaybookEnds(p) PROVE LeftoverInv'
  BY <1>9 DEF PlaybookEnds
<1>10. CASE Prepare
  BY <1>10 DEF Prepare, Starts
<1>11. CASE PrepareRaises
  <2>1. credentials' \in BOOLEAN /\ (credentials' => opts.hooks /\ ~lite)
    BY <1>11 DEF PrepareRaises
  <2>2. CredentialsHeld' /\ CredentialsKept'
    BY <1>11, <2>1 DEF PrepareRaises, To
  <2>3. DirsHaveACause'
    BY <1>11 DEF PrepareRaises, To, RunFault
  <2>4. QED
    BY <2>2, <2>3
<1>12. CASE StartPart
  BY <1>12 DEF StartPart, To
<1>13. CASE StartRaises
  <2>1. CredentialsHeld' /\ CredentialsKept'
    BY <1>13 DEF StartRaises
  <2>2. runFaults > 0 => runFaults' > 0
    BY <1>13, RunAssumption DEF StartRaises, RunFault
  <2>3. DirsHaveACause'
    BY <1>13, <2>2 DEF StartRaises
  <2>4. QED
    BY <2>1, <2>3
<1>14. CASE StartFailureRecorded
  BY <1>14 DEF StartFailureRecorded, Writes, Free, Returns
<1>15. CASE StartFailureRaises
  <2>1. CredentialsHeld' /\ CredentialsKept'
    BY <1>15 DEF StartFailureRaises, Raises
  <2>2. /\ refused \subseteq refused' /\ (runFaults > 0 => runFaults' > 0)
        /\ (\E w \in refused' : w[1] = "failure") \/ runFaults' > 0
    <3>1. CASE refused' = refused \cup {<<"failure", counter>>}
               /\ UNCHANGED runFaults
      <4>1. <<"failure", counter>>[1] = "failure"
        OBVIOUS
      <4>2. <<"failure", counter>> \in refused'
        BY <3>1
      <4>3. QED
        BY <3>1, <4>1, <4>2
    <3>2. CASE RunFault /\ UNCHANGED refused
      BY <3>2, RunAssumption DEF RunFault
    <3>3. QED
      BY <1>15, <3>1, <3>2 DEF StartFailureRaises, WriteRaises
  <2>3. DirsHaveACause'
    BY <1>15, <2>2 DEF StartFailureRaises, Raises
  <2>4. QED
    BY <2>1, <2>3
<1>16. CASE LiteStartRaises
  BY <1>16 DEF LiteStartRaises, To, RunFault
<1>17. CASE Joined
  BY <1>17 DEF Joined, Ended, Returns
<1>18. CASE MonitoringRaises
  BY <1>18 DEF MonitoringRaises, RunFault, Returns, Raises
<1>19. CASE InternalRecorded
  BY <1>19 DEF InternalRecorded, To, Writes, Free
<1>20. CASE InternalRaises
  BY <1>20 DEF InternalRaises, WriteRaises, Free, RunFault, Raises
<1>21. CASE InternalCounted
  BY <1>21 DEF InternalCounted, Starts, Counted
<1>22. CASE Abandon
  BY <1>22 DEF Abandon, To, RunFault
<1>23. CASE FailureRecorded
  BY <1>23 DEF FailureRecorded, To, Writes, Free
<1>24. CASE FailureRaises
  BY <1>24 DEF FailureRaises, To, WriteRaises, Free, RunFault
<1>25. CASE Finally
  BY <1>25 DEF Finally, Starts
<1>26. CASE CleanupNotLoaded
  BY <1>26 DEF CleanupNotLoaded, To, RunFault
<1>27. CASE RemoveCredentials
  <2>1. /\ credentials' \in BOOLEAN
        /\ credentials' => opts.retain /\ targetResult = "failed"
    BY <1>27 DEF RemoveCredentials, Kept
  <2>2. CredentialsKept'
    BY <1>27, <2>1 DEF RemoveCredentials, To
  <2>3. CredentialsHeld'
    BY <1>27, <2>1 DEF RemoveCredentials, To
  <2>4. DirsHaveACause'
    BY <1>27 DEF RemoveCredentials, To
  <2>5. QED
    BY <2>2, <2>3, <2>4
<1>28. CASE CallerWrites
  BY <1>28 DEF CallerWrites, To, Writes, Free, WriteRaises, RunFault
<1> HIDE DEF RunTypeOK, Parts, PartInv, PartsInOrder, OneAtATime,
   OwingIsRunning,
   DetachedIsPast, LeftoverInv, CredentialsHeld, CredentialsKept, DirsHaveACause
<1>29. QED
  BY <1>1, <1>2, <1>3, <1>4, <1>5, <1>6, <1>7, <1>8, <1>9, <1>10, <1>11, <1>12,
     <1>13, <1>14, <1>15, <1>16, <1>17, <1>18, <1>19, <1>20, <1>21, <1>22,
     <1>23, <1>24, <1>25, <1>26, <1>27, <1>28
     DEF RunNext, LaunchConfigured, LaunchOverriding

(* The numbers. *)
LEMMA StepNext ==
    ASSUME RunTypeOK, PartInv, NextNumbersAreFree, [RunNext]_runVars
    PROVE  NextNumbersAreFree'
<1> USE DEF RunTypeOK, Parts, TaskId, PartInv, PartsInOrder, OneAtATime,
   OwingIsRunning,
   DetachedIsPast,
   NextNumbersAreFree, Counting,
   options, choice, threads, tasks, dirs, outcome
<1>1. CASE UNCHANGED runVars
  BY <1>1 DEF runVars
<1>2. configured \in Options
  BY DEF RunTypeOK
<1>3. CASE Startup
  BY <1>3, RunAssumption DEF Startup, To
<1>4. ASSUME NEW o \in Options, UpdateSetting(o) PROVE NextNumbersAreFree'
  BY <1>4, RunAssumption DEF UpdateSetting
<1>5. ASSUME NEW o \in Options, NEW l \in BOOLEAN, NEW c \in BOOLEAN,
             NEW b \in SUBSET Parts, Launch(o, l, c, b)
      PROVE  NextNumbersAreFree'
  BY <1>5, RunAssumption DEF Launch, To
<1>6. ASSUME NEW p \in Parts, EventRecorded(p) PROVE NextNumbersAreFree'
  BY <1>6, RunAssumption DEF EventRecorded, Writes, Free
<1>7. ASSUME NEW p \in Parts, EventCounted(p) PROVE NextNumbersAreFree'
  BY <1>7, RunAssumption DEF EventCounted
<1>8. ASSUME NEW p \in Parts, EventRaises(p) PROVE NextNumbersAreFree'
  BY <1>8, RunAssumption DEF EventRaises, WriteRaises, Free, RunFault
<1>9. ASSUME NEW p \in Parts, PlaybookEnds(p) PROVE NextNumbersAreFree'
  BY <1>9, RunAssumption DEF PlaybookEnds
<1>10. CASE Prepare
  BY <1>10, RunAssumption DEF Prepare, Starts
<1>11. CASE PrepareRaises
  BY <1>11, RunAssumption DEF PrepareRaises, To, RunFault
<1>12. CASE StartPart
  BY <1>12, RunAssumption DEF StartPart, To
<1>13. CASE StartRaises
  BY <1>13, RunAssumption DEF StartRaises, RunFault
<1>14. CASE StartFailureRecorded
  BY <1>14, RunAssumption DEF StartFailureRecorded, Writes, Free, Returns
<1>15. CASE StartFailureRaises
  BY <1>15, RunAssumption DEF StartFailureRaises, WriteRaises, Free, RunFault,
     Raises
<1>16. CASE LiteStartRaises
  BY <1>16, RunAssumption DEF LiteStartRaises, To, RunFault
<1>17. CASE Joined
  BY <1>17, RunAssumption DEF Joined, Ended, Returns
<1>18. CASE MonitoringRaises
  BY <1>18, RunAssumption DEF MonitoringRaises, RunFault, Returns, Raises
<1>19. CASE InternalRecorded
  BY <1>19, RunAssumption DEF InternalRecorded, To, Writes, Free
<1>20. CASE InternalRaises
  BY <1>20, RunAssumption DEF InternalRaises, WriteRaises, Free, RunFault,
     Raises
<1>21. CASE InternalCounted
  BY <1>21, RunAssumption DEF InternalCounted, Starts, Counted
<1>22. CASE Abandon
  BY <1>22, RunAssumption DEF Abandon, To, RunFault
<1>23. CASE FailureRecorded
  BY <1>23, RunAssumption DEF FailureRecorded, To, Writes, Free
<1>24. CASE FailureRaises
  BY <1>24, RunAssumption DEF FailureRaises, To, WriteRaises, Free, RunFault
<1>25. CASE Finally
  BY <1>25, RunAssumption DEF Finally, Starts
<1>26. CASE CleanupNotLoaded
  BY <1>26, RunAssumption DEF CleanupNotLoaded, To, RunFault
<1>27. CASE RemoveCredentials
  BY <1>27, RunAssumption DEF RemoveCredentials, To, Kept
<1>28. CASE CallerWrites
  BY <1>28, RunAssumption DEF CallerWrites, To, Writes, Free, WriteRaises,
     RunFault
<1> HIDE DEF RunTypeOK, Parts, TaskId, PartInv, PartsInOrder, OneAtATime,
   OwingIsRunning,
   DetachedIsPast, NextNumbersAreFree, Counting
<1>29. QED
  BY <1>1, <1>2, <1>3, <1>4, <1>5, <1>6, <1>7, <1>8, <1>9, <1>10, <1>11, <1>12,
     <1>13, <1>14, <1>15, <1>16, <1>17, <1>18, <1>19, <1>20, <1>21, <1>22,
     <1>23, <1>24, <1>25, <1>26, <1>27, <1>28
     DEF RunNext, LaunchConfigured, LaunchOverriding

LEMMA StepCaller ==
    ASSUME IInv, [RunNext]_runVars
    PROVE  CallersNumberIsFree'
<1> USE DEF IInv, RunTypeOK, Parts, TaskId, PartInv, PartsInOrder, OneAtATime,
   OwingIsRunning,
   DetachedIsPast,
   NumberInv, NextNumbersAreFree, Counting, CallersNumberIsFree,
   options, choice, threads, tasks, dirs, outcome
<1>1. CASE UNCHANGED runVars
  BY <1>1 DEF runVars
<1>2. configured \in Options
  BY DEF RunTypeOK
<1>3. CASE Startup
  BY <1>3, RunAssumption DEF Startup, To
<1>4. ASSUME NEW o \in Options, UpdateSetting(o) PROVE CallersNumberIsFree'
  BY <1>4, RunAssumption DEF UpdateSetting
<1>5. ASSUME NEW o \in Options, NEW l \in BOOLEAN, NEW c \in BOOLEAN,
             NEW b \in SUBSET Parts, Launch(o, l, c, b)
      PROVE  CallersNumberIsFree'
  BY <1>5, RunAssumption DEF Launch, To
<1>6. ASSUME NEW p \in Parts, EventRecorded(p) PROVE CallersNumberIsFree'
  BY <1>6, RunAssumption DEF EventRecorded, Writes, Free
<1>7. ASSUME NEW p \in Parts, EventCounted(p) PROVE CallersNumberIsFree'
  BY <1>7, RunAssumption DEF EventCounted
<1>8. ASSUME NEW p \in Parts, EventRaises(p) PROVE CallersNumberIsFree'
  BY <1>8, RunAssumption DEF EventRaises, WriteRaises, Free, RunFault
<1>9. ASSUME NEW p \in Parts, PlaybookEnds(p) PROVE CallersNumberIsFree'
  BY <1>9, RunAssumption DEF PlaybookEnds
<1>10. CASE Prepare
  BY <1>10, RunAssumption DEF Prepare, Starts
<1>11. CASE PrepareRaises
  BY <1>11, RunAssumption DEF PrepareRaises, To, RunFault
<1>12. CASE StartPart
  BY <1>12, RunAssumption DEF StartPart, To
<1>13. CASE StartRaises
  BY <1>13, RunAssumption DEF StartRaises, RunFault
<1>14. CASE StartFailureRecorded
  BY <1>14, RunAssumption DEF StartFailureRecorded, Writes, Free, Returns
<1>15. CASE StartFailureRaises
  BY <1>15, RunAssumption DEF StartFailureRaises, WriteRaises, Free, RunFault,
     Raises
<1>16. CASE LiteStartRaises
  BY <1>16, RunAssumption DEF LiteStartRaises, To, RunFault
<1>17. CASE Joined
  BY <1>17, RunAssumption DEF Joined, Ended, Returns
<1>18. CASE MonitoringRaises
  BY <1>18, RunAssumption DEF MonitoringRaises, RunFault, Returns, Raises
<1>19. CASE InternalRecorded
  BY <1>19, RunAssumption DEF InternalRecorded, To, Writes, Free
<1>20. CASE InternalRaises
  BY <1>20, RunAssumption DEF InternalRaises, WriteRaises, Free, RunFault,
     Raises
<1>21. CASE InternalCounted
  BY <1>21, RunAssumption DEF InternalCounted, Starts, Counted
<1>22. CASE Abandon
  BY <1>22, RunAssumption DEF Abandon, To, RunFault
<1>23. CASE FailureRecorded
  BY <1>23, RunAssumption DEF FailureRecorded, To, Writes, Free
<1>24. CASE FailureRaises
  BY <1>24, RunAssumption DEF FailureRaises, To, WriteRaises, Free, RunFault
<1>25. CASE Finally
  BY <1>25, RunAssumption DEF Finally, Starts
<1>26. CASE CleanupNotLoaded
  BY <1>26, RunAssumption DEF CleanupNotLoaded, To, RunFault
<1>27. CASE RemoveCredentials
  BY <1>27, RunAssumption DEF RemoveCredentials, To, Kept
<1>28. CASE CallerWrites
  BY <1>28, RunAssumption DEF CallerWrites, To, Writes, Free, WriteRaises,
     RunFault
<1> HIDE DEF IInv, RunTypeOK, Parts, TaskId, PartInv, PartsInOrder, OneAtATime,
   OwingIsRunning,
   DetachedIsPast, NumberInv, NextNumbersAreFree, Counting, CallersNumberIsFree
<1>29. QED
  BY <1>1, <1>2, <1>3, <1>4, <1>5, <1>6, <1>7, <1>8, <1>9, <1>10, <1>11, <1>12,
     <1>13, <1>14, <1>15, <1>16, <1>17, <1>18, <1>19, <1>20, <1>21, <1>22,
     <1>23, <1>24, <1>25, <1>26, <1>27, <1>28
     DEF RunNext, LaunchConfigured, LaunchOverriding

(* Causes stay: no row is overwritten, and a target that was left running   *)
(* is not waited for again.                                                 *)
CausesLast ==
    /\ \A n \in TaskId : row[n] # "none" => row'[n] = row[n]
    /\ doubtful \subseteq doubtful'
    /\ detached => detached'

LEMMA StepCauses ==
    ASSUME RunTypeOK, PartInv, [RunNext]_runVars
    PROVE  CausesLast
<1> USE DEF RunTypeOK, Parts, PartInv, PartsInOrder, OneAtATime, OwingIsRunning,
   DetachedIsPast, CausesLast,
   options, choice, threads, tasks, dirs, outcome
<1>1. CASE UNCHANGED runVars
  BY <1>1 DEF runVars
<1>2. configured \in Options
  BY DEF RunTypeOK
<1>3. CASE Startup
  BY <1>3 DEF Startup, To
<1>4. ASSUME NEW o \in Options, UpdateSetting(o) PROVE CausesLast
  BY <1>4 DEF UpdateSetting
<1>5. ASSUME NEW o \in Options, NEW l \in BOOLEAN, NEW c \in BOOLEAN,
             NEW b \in SUBSET Parts, Launch(o, l, c, b)
      PROVE  CausesLast
  BY <1>5 DEF Launch, To
<1>6. ASSUME NEW p \in Parts, EventRecorded(p) PROVE CausesLast
  BY <1>6 DEF EventRecorded, Writes, Free
<1>7. ASSUME NEW p \in Parts, EventCounted(p) PROVE CausesLast
  BY <1>7 DEF EventCounted
<1>8. ASSUME NEW p \in Parts, EventRaises(p) PROVE CausesLast
  BY <1>8 DEF EventRaises, WriteRaises, Free, RunFault
<1>9. ASSUME NEW p \in Parts, PlaybookEnds(p) PROVE CausesLast
  BY <1>9 DEF PlaybookEnds
<1>10. CASE Prepare
  BY <1>10 DEF Prepare, Starts
<1>11. CASE PrepareRaises
  BY <1>11 DEF PrepareRaises, To, RunFault
<1>12. CASE StartPart
  BY <1>12 DEF StartPart, To
<1>13. CASE StartRaises
  BY <1>13 DEF StartRaises, RunFault
<1>14. CASE StartFailureRecorded
  BY <1>14 DEF StartFailureRecorded, Writes, Free, Returns
<1>15. CASE StartFailureRaises
  BY <1>15 DEF StartFailureRaises, WriteRaises, Free, RunFault, Raises
<1>16. CASE LiteStartRaises
  BY <1>16 DEF LiteStartRaises, To, RunFault
<1>17. CASE Joined
  BY <1>17 DEF Joined, Ended, Returns
<1>18. CASE MonitoringRaises
  BY <1>18 DEF MonitoringRaises, RunFault, Returns, Raises
<1>19. CASE InternalRecorded
  BY <1>19 DEF InternalRecorded, To, Writes, Free
<1>20. CASE InternalRaises
  BY <1>20 DEF InternalRaises, WriteRaises, Free, RunFault, Raises
<1>21. CASE InternalCounted
  BY <1>21 DEF InternalCounted, Starts, Counted
<1>22. CASE Abandon
  BY <1>22 DEF Abandon, To, RunFault
<1>23. CASE FailureRecorded
  BY <1>23 DEF FailureRecorded, To, Writes, Free
<1>24. CASE FailureRaises
  BY <1>24 DEF FailureRaises, To, WriteRaises, Free, RunFault
<1>25. CASE Finally
  BY <1>25 DEF Finally, Starts
<1>26. CASE CleanupNotLoaded
  BY <1>26 DEF CleanupNotLoaded, To, RunFault
<1>27. CASE RemoveCredentials
  BY <1>27 DEF RemoveCredentials, To, Kept
<1>28. CASE CallerWrites
  BY <1>28 DEF CallerWrites, To, Writes, Free, WriteRaises, RunFault
<1> HIDE DEF RunTypeOK, Parts, PartInv, PartsInOrder, OneAtATime,
   OwingIsRunning,
   DetachedIsPast, CausesLast
<1>29. QED
  BY <1>1, <1>2, <1>3, <1>4, <1>5, <1>6, <1>7, <1>8, <1>9, <1>10, <1>11, <1>12,
     <1>13, <1>14, <1>15, <1>16, <1>17, <1>18, <1>19, <1>20, <1>21, <1>22,
     <1>23, <1>24, <1>25, <1>26, <1>27, <1>28
     DEF RunNext, LaunchConfigured, LaunchOverriding

(* A number is refused when its row is taken. *)
LEMMA Refusal ==
    ASSUME RunTypeOK, NEW who, NEW n \in Nat, WriteRaises(n, who),
           n \in TaskId /\ row[n] # "none" => CauseToRefuse(who, n)
    PROVE  \A w \in refused' :
              w \in refused \/ CauseToRefuse(w[1], w[2])
<1>1. CASE refused' = refused \cup {<<who, n>>} /\ ~Free(n)
  <2>1. CauseToRefuse(who, n)
    BY <1>1, RunAssumption DEF Free, TaskId, CauseToRefuse
  <2>2. QED
    BY <1>1, <2>1
<1>2. CASE UNCHANGED refused
  BY <1>2
<1>3. QED
  BY <1>1, <1>2 DEF WriteRaises

LEMMA NextNumberHasCause ==
    ASSUME RunTypeOK, NextNumbersAreFree, NEW who,
           main \notin {"done", "counting", "countingBad", "countingArtifacts"},
           owes = {} \/ detached, counter \in TaskId, row[counter] # "none"
    PROVE  CauseToRefuse(who, counter)
BY RunAssumption
   DEF RunTypeOK, NextNumbersAreFree, Counting, CauseToRefuse, TaskId

(* The refusals of a step have their causes. *)
NewRefusalsHaveCauses ==
    \A w \in refused' : w \in refused \/ CauseToRefuse(w[1], w[2])

LEMMA StepRefusals ==
    ASSUME IInv, [RunNext]_runVars
    PROVE  NewRefusalsHaveCauses
<1> USE DEF NewRefusalsHaveCauses,
   options, choice, threads, tasks, dirs, outcome
<1>1. CASE UNCHANGED runVars
  BY <1>1 DEF runVars
<1>2. configured \in Options
  BY DEF IInv, RunTypeOK
<1>3. CASE Startup
  BY <1>3 DEF Startup, To
<1>4. ASSUME NEW o \in Options, UpdateSetting(o) PROVE NewRefusalsHaveCauses
  BY <1>4 DEF UpdateSetting
<1>5. ASSUME NEW o \in Options, NEW l \in BOOLEAN, NEW c \in BOOLEAN,
             NEW b \in SUBSET Parts, Launch(o, l, c, b)
      PROVE  NewRefusalsHaveCauses
  BY <1>5 DEF Launch, To
<1>6. ASSUME NEW p \in Parts, EventRecorded(p) PROVE NewRefusalsHaveCauses
  BY <1>6 DEF EventRecorded, Writes, Free
<1>7. ASSUME NEW p \in Parts, EventCounted(p) PROVE NewRefusalsHaveCauses
  BY <1>7 DEF EventCounted
<1>8. ASSUME NEW p \in Parts, EventRaises(p) PROVE NewRefusalsHaveCauses
  <2>1. /\ counter \in Nat /\ (owes = {} \/ detached)
        /\ detached \/ main \notin {"done", "counting", "countingBad",
                                   "countingArtifacts"}
    BY <1>8 DEF EventRaises, IInv, RunTypeOK, Parts, PartInv,
       PartsInOrder, OneAtATime, OwingIsRunning
  <2>2. counter \in TaskId /\ row[counter] # "none" =>
           CauseToRefuse(p, counter)
    BY <2>1, NextNumberHasCause DEF CauseToRefuse, IInv, NumberInv
  <2>3. WriteRaises(counter, p) /\ RunTypeOK
    BY <1>8 DEF EventRaises, IInv
  <2>4. QED
    BY <2>1, <2>2, <2>3, Refusal DEF NewRefusalsHaveCauses
<1>9. ASSUME NEW p \in Parts, PlaybookEnds(p) PROVE NewRefusalsHaveCauses
  BY <1>9 DEF PlaybookEnds
<1>10. CASE Prepare
  BY <1>10 DEF Prepare, Starts
<1>11. CASE PrepareRaises
  BY <1>11 DEF PrepareRaises, To, RunFault
<1>12. CASE StartPart
  BY <1>12 DEF StartPart, To
<1>13. CASE StartRaises
  BY <1>13 DEF StartRaises, RunFault
<1>14. CASE StartFailureRecorded
  BY <1>14 DEF StartFailureRecorded, Writes, Free, Returns
<1>15. CASE StartFailureRaises
  <2>1. /\ counter \in Nat /\ (owes = {} \/ detached)
        /\ detached \/ main \notin {"done", "counting", "countingBad",
                                   "countingArtifacts"}
    BY <1>15 DEF StartFailureRaises, IInv, RunTypeOK, Parts, PartInv,
       PartsInOrder, OneAtATime, OwingIsRunning
  <2>2. counter \in TaskId /\ row[counter] # "none" =>
           CauseToRefuse("failure", counter)
    BY <2>1, NextNumberHasCause DEF CauseToRefuse, IInv, NumberInv
  <2>3. WriteRaises(counter, "failure") /\ RunTypeOK
    BY <1>15 DEF StartFailureRaises, IInv
  <2>4. QED
    BY <2>1, <2>2, <2>3, Refusal DEF NewRefusalsHaveCauses
<1>16. CASE LiteStartRaises
  BY <1>16 DEF LiteStartRaises, To, RunFault
<1>17. CASE Joined
  BY <1>17 DEF Joined, Ended, Returns
<1>18. CASE MonitoringRaises
  BY <1>18 DEF MonitoringRaises, RunFault, Returns, Raises
<1>19. CASE InternalRecorded
  BY <1>19 DEF InternalRecorded, To, Writes, Free
<1>20. CASE InternalRaises
  <2>1. /\ counter \in Nat /\ (owes = {} \/ detached)
        /\ detached \/ main \notin {"done", "counting", "countingBad",
                                   "countingArtifacts"}
    BY <1>20 DEF InternalRaises, IInv, RunTypeOK, Parts, PartInv,
       PartsInOrder, OneAtATime, OwingIsRunning
  <2>2. counter \in TaskId /\ row[counter] # "none" =>
           CauseToRefuse(part, counter)
    BY <2>1, NextNumberHasCause DEF CauseToRefuse, IInv, NumberInv
  <2>3. WriteRaises(counter, part) /\ RunTypeOK
    BY <1>20 DEF InternalRaises, IInv
  <2>4. QED
    BY <2>1, <2>2, <2>3, Refusal DEF NewRefusalsHaveCauses
<1>21. CASE InternalCounted
  BY <1>21 DEF InternalCounted, Starts, Counted
<1>22. CASE Abandon
  BY <1>22 DEF Abandon, To, RunFault
<1>23. CASE FailureRecorded
  BY <1>23 DEF FailureRecorded, To, Writes, Free
<1>24. CASE FailureRaises
  <2>1. /\ counter \in Nat /\ (owes = {} \/ detached)
        /\ detached \/ main \notin {"done", "counting", "countingBad",
                                   "countingArtifacts"}
    BY <1>24 DEF FailureRaises, To, IInv, RunTypeOK, Parts, PartInv,
       PartsInOrder, OneAtATime, OwingIsRunning
  <2>2. counter \in TaskId /\ row[counter] # "none" =>
           CauseToRefuse("failure", counter)
    BY <2>1, NextNumberHasCause DEF CauseToRefuse, IInv, NumberInv
  <2>3. WriteRaises(counter, "failure") /\ RunTypeOK
    BY <1>24 DEF FailureRaises, To, IInv
  <2>4. QED
    BY <2>1, <2>2, <2>3, Refusal DEF NewRefusalsHaveCauses
<1>25. CASE Finally
  BY <1>25 DEF Finally, Starts
<1>26. CASE CleanupNotLoaded
  BY <1>26 DEF CleanupNotLoaded, To, RunFault
<1>27. CASE RemoveCredentials
  BY <1>27 DEF RemoveCredentials, To, Kept
<1>28. CASE CallerWrites
  <2>1. resultCounter \in Nat /\ RunTypeOK
    BY DEF IInv, RunTypeOK
  <2>2. resultCounter \in TaskId /\ row[resultCounter] # "none" =>
           CauseToRefuse("caller", resultCounter)
    BY <1>28, RunAssumption
       DEF CallerWrites, To, CallersNumberIsFree, CauseToRefuse, TaskId,
           IInv, RunTypeOK, NumberInv
  <2>3. CASE WriteRaises(resultCounter, "caller")
    BY <2>1, <2>2, <2>3, Refusal DEF NewRefusalsHaveCauses
  <2>4. CASE Writes(resultCounter, "caller")
    BY <2>4 DEF NewRefusalsHaveCauses, Writes
  <2>5. QED
    BY <1>28, <2>3, <2>4 DEF CallerWrites
<1> HIDE DEF NewRefusalsHaveCauses
<1>29. QED
  BY <1>1, <1>2, <1>3, <1>4, <1>5, <1>6, <1>7, <1>8, <1>9, <1>10, <1>11, <1>12,
     <1>13, <1>14, <1>15, <1>16, <1>17, <1>18, <1>19, <1>20, <1>21, <1>22,
     <1>23, <1>24, <1>25, <1>26, <1>27, <1>28
     DEF RunNext, LaunchConfigured, LaunchOverriding

LEMMA StepInv == IInv /\ [RunNext]_runVars => IInv'
<1> SUFFICES ASSUME IInv, [RunNext]_runVars PROVE IInv'
  OBVIOUS
<1>1. RunTypeOK' /\ PartInv' /\ LeftoverInv'
  BY StepType, StepParts, StepLeftovers DEF IInv
<1>2. NextNumbersAreFree' /\ CallersNumberIsFree'
  BY StepNext, StepCaller DEF IInv, NumberInv
<1>3. NumbersAreRefusedForCause'
  <2> SUFFICES ASSUME NEW w \in refused' PROVE CauseToRefuse(w[1], w[2])'
    BY DEF NumbersAreRefusedForCause
  <2>1. CauseToRefuse(w[1], w[2])
    BY StepRefusals
       DEF NewRefusalsHaveCauses, IInv, NumberInv, NumbersAreRefusedForCause
  <2>2. w[2] \in Nat
    BY <1>1 DEF RunTypeOK
  <2>3. CausesLast
    BY StepCauses DEF IInv
  <2>4. QED
    BY <2>1, <2>2, <2>3, RunAssumption DEF CausesLast, CauseToRefuse, TaskId
<1>4. QED
  BY <1>1, <1>2, <1>3 DEF IInv, NumberInv

LEMMA SpecInv == RunSpec => []IInv
BY InitInv, StepInv, PTL DEF RunSpec

(* The variables of a run keep their shapes: every row has one of the       *)
(* writers of the code, and the failures stay within their bound.           *)
THEOREM TypeCorrect == RunSpec => []RunTypeOK
<1>1. IInv => RunTypeOK
  BY DEF IInv
<1>2. QED
  BY <1>1, SpecInv, PTL

(* The credential directory is there as long as a playbook runs that the    *)
(* handler's thread waits for: one part runs at a time, and the directory   *)
(* is removed after the last.                                               *)
THEOREM CredentialsOutliveHolds == RunSpec => []CredentialsOutliveTheirUse
<1>1. IInv => CredentialsOutliveTheirUse
  BY DEF IInv, PartInv, OneAtATime, LeftoverInv, CredentialsHeld,
     CredentialsOutliveTheirUse
<1>2. QED
  BY <1>1, SpecInv, PTL

(* What a run leaves on the disk has a cause, for any options and failures: *)
(* a target that failed and was to be kept, a cleanup that raised, a part   *)
(* that did not start and whose row could not be written.                   *)
THEOREM LeftoversHold == RunSpec => []LeftoversHaveACause
<1>1. IInv => LeftoversHaveACause
  BY DEF IInv, LeftoverInv, CredentialsKept, DirsHaveACause,
     LeftoversHaveACause
<1>2. QED
  BY <1>1, SpecInv, PTL

(* The counter the Ansible threads and the handler's thread share hands out *)
(* a number that is taken only for one of the causes named, however long    *)
(* the run and however large the numbers.                                   *)
THEOREM RefusedForCauseHolds == RunSpec => []NumbersAreRefusedForCause
<1>1. IInv => NumbersAreRefusedForCause
  BY DEF IInv, NumberInv
<1>2. QED
  BY <1>1, SpecInv, PTL
=============================================================================
